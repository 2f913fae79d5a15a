------------------------------- MODULE Speech -------------------------------
(* The bounded queues and the protocol behind Lector's voice: the mailbox of *)
(* the speech worker, the protocol between the driver and the speech server, *)
(* the native server's utterances, and the log that records it all.  They    *)
(* share no state in the code, so a behaviour picks one of them and runs it  *)
(* alone; how the worker's driver and server live and die together is        *)
(* SpeechSupervisor.                                                         *)
EXTENDS SpeechWorker

CONSTANTS
    Limit, FrameSizes, MaxCalls,                                \* of SpeechRpc
    MaxPending, MaxUtterances,                                  \* of NativeSpeech
    Producers, Sizes, QueueLimit, RecordLimit, FileLimit,       \* of LogQueue
    ThrottleKeys, KeyLimit, MaxSeq, MaxThrottled

VARIABLES
    part,        \* the component of this behaviour
    \* SpeechRpc
    pairing, toServer, toDriver, parent, child, stuck, stage, unavailable, legacy, callId,
    call, unsent, expired, responseBuf, driverRate, lineBuf, discarding, initialized,
    serverRate, accepted, refused, served, lines,
    \* NativeSpeech
    active, pending, completed, synth, stopping, after, next, heard, refusedText, cutText,
    unstopped,
    \* LogQueue
    records, pendingBytes, logShutdown, logAsleep, writer, current, failed, file,
    fileBytes, sequence, formatted, owed, dropped, throttle, past

Rpc    == INSTANCE SpeechRpc WITH nextId <- callId, rate <- driverRate
Native == INSTANCE NativeSpeech WITH cut <- cutText, refused <- refusedText
Log    == INSTANCE LogQueue WITH MaxCalls <- MaxThrottled, shutdown <- logShutdown,
                                 asleep <- logAsleep

workerVars == <<requests, items, bytes, shutdown, asleep, worker, busy, startWait, nextId,
                cut, lost, spoken, rate, asked>>
rpcVars == <<pairing, toServer, toDriver, parent, child, stuck, stage, unavailable, legacy,
             callId, call, unsent, expired, responseBuf, driverRate, lineBuf, discarding,
             initialized, serverRate, accepted, refused, served, lines>>
nativeVars == <<active, pending, completed, synth, stopping, after, next, heard,
                refusedText, cutText, unstopped>>
logVars == <<records, pendingBytes, logShutdown, logAsleep, writer, current, failed, file,
             fileBytes, sequence, formatted, owed, dropped, throttle, past>>
speechVars == <<part, workerVars, rpcVars, nativeVars, logVars>>

SpeechInit ==
    /\ part \in {"worker", "rpc", "native", "log"}
    /\ Init /\ Rpc!Init /\ Native!Init /\ Log!Init
    /\ part # "rpc" => pairing = "driver-native"

InWorker == part = "worker" /\ Next /\ UNCHANGED <<part, rpcVars, nativeVars, logVars>>
InRpc    == part = "rpc" /\ Rpc!Next /\ UNCHANGED <<part, workerVars, nativeVars, logVars>>
InNative == part = "native" /\ Native!Next /\ UNCHANGED <<part, workerVars, rpcVars, logVars>>
InLog    == part = "log" /\ Log!Next /\ UNCHANGED <<part, workerVars, rpcVars, nativeVars>>

SpeechNext == InWorker \/ InRpc \/ InNative \/ InLog

\* Each component's own fairness, while it is the one that runs.
SpeechFairness ==
    /\ WF_workerVars(part = "worker" /\ WorkerStep)
    /\ WF_workerVars(part = "worker" /\ StartTimesOut)
    /\ WF_rpcVars(part = "rpc" /\ Rpc!Watchdog)
    /\ WF_nativeVars(part = "native" /\ Native!Tick)
    /\ WF_nativeVars(part = "native" /\ Native!StopEnds)
    /\ WF_nativeVars(part = "native" /\ Native!Reported)
    /\ WF_logVars(part = "log" /\ Log!ReleaseWriter)
    /\ WF_logVars(part = "log" /\ Log!NextRecord)
    /\ WF_logVars(part = "log" /\ Log!Write)
SpeechSpec == SpeechInit /\ [][SpeechNext]_speechVars /\ SpeechFairness

-----------------------------------------------------------------------------
(* The mailbox's counters are what its queue holds and stay within the      *)
(* limits, whatever was dropped, cut or coalesced (worker.rs, push and pop).*)
MailboxExact == TypeOK /\ CountersExact

(* Announcements reach the backend in order, never after a stop or an       *)
(* interruption that cut them; what is dropped for room is older than what  *)
(* stays; and nothing asked for before start() is queued behind it.         *)
MailboxOrder == CutIsFinal /\ SpeechInOrder /\ NewestKept /\ StartIsAFence

(* A response is taken for the call it answers only, and a line is refused  *)
(* exactly when it is longer than the limit (proc_driver.rs, read_response; *)
(* proc_server_common.rs, FrameBuffer).                                     *)
RpcExact == Rpc!RpcExact

(* The native server speaks in the order asked, nothing older than a stop,  *)
(* and never waits for an utterance nobody speaks (native_tts_server.rs).   *)
UtterancesInOrder == Native!UtterancesInOrder

(* Every log record is written, queued, on its way or counted as lost       *)
(* (diagnostics.rs, enqueue_locked).                                        *)
LossIsCounted == Log!LossIsCounted

Settled ==
    CASE part = "worker" -> Heeded /\ Returned
      [] part = "rpc" -> Rpc!Followed
      [] part = "native" -> pending = <<>>
      [] part = "log" -> Log!Drained

(* The newest rate arrives and neither a start() nor a shutdown waits for   *)
(* ever; the server of a dead Lector ends; every text of the native server  *)
(* is spoken or given up; the log writer ends with everything written.      *)
(* (SpeechWorker!RateArrives and Terminates, SpeechRpc!ServerFollowsParent, *)
(* NativeSpeech!QueueDrains and LogQueue!WriterDrains in one formula, since *)
(* a behaviour runs one component.)                                         *)
SpeechProgress == []<>Settled
=============================================================================
