-------------------------- MODULE SpeechSupervisor --------------------------
(***************************************************************************)
(* The lifecycle of the speech server process (src/speech/supervisor.rs).  *)
(*                                                                         *)
(* The speech worker spawns, calls, replaces and recovers the server; the  *)
(* event loop only takes lifecycle events and, when Lector leaves, asks    *)
(* for every owned child to be killed.  The two threads meet in the        *)
(* handle's mutex, so every locked section is a step of its own, and a     *)
(* child may crash between any two steps.  Spawning has five steps: check  *)
(* for shutdown, start the process, register its terminator, initialise    *)
(* it, check again and set the rate.  Buffered speech is counted.          *)
(***************************************************************************)
EXTENDS Integers, Sequences, FiniteSets, SequencesExt

CONSTANTS
    Specs,          \* server specifications; the first one configured is InitialSpec
    InitialSpec,
    Rates,          \* speech rates
    InitialRate,
    CrashWindow,    \* CRASH_WINDOW in ticks
    MaxEvents,      \* MAX_EVENTS
    MaxBuffered,    \* MAX_PENDING_SPEECH_ITEMS
    MaxGen          \* bound on the processes started

ASSUME SupervisorAssumption ==
    /\ InitialSpec \in Specs
    /\ InitialRate \in Rates
    /\ CrashWindow \in Nat \ {0}
    /\ MaxEvents \in Nat \ {0}
    /\ MaxBuffered \in Nat \ {0}
    /\ MaxGen \in Nat

VARIABLES
    spec,           \* the selected server
    desiredRate,
    active,         \* generation of the active child, or NoGen
    started,
    startupError,   \* startup_error.is_some()
    fatal,          \* fatal_error.is_some()
    buffered,       \* number of announcements in pending_speech
    crashAge,       \* now - last_crash, or NoCrash
    nextGen,        \* next_generation
    shuttingDown,   \* HandleState.shutting_down
    owned,          \* HandleState.owned_terminators: generations
    events,         \* HandleState.events
    mailboxOpen,    \* the worker's mailbox still hands out requests
    toKill,         \* terminators a call of terminate() has still to run
    child,          \* generation -> [state, spec, rate]
    pc,             \* where the worker is
    job,            \* the call the worker is in
    seenFatal,      \* history: the event loop has taken a Fatal event
    restartAge,     \* history: time since the last automatic restart
    refused         \* history: the last rate change was answered with an error

policy == <<spec, desiredRate, started, startupError, fatal, buffered, crashAge>>
handle == <<shuttingDown, owned, events>>
worker == <<pc, job>>
history == <<seenFatal, restartAge, refused>>
outside == <<mailboxOpen, toKill>>
vars == <<policy, active, nextGen, handle, outside, child, worker, history>>

NoGen == 0
NoCrash == -1
Gens == 1 .. MaxGen
Unborn == [state |-> "none", spec |-> InitialSpec, rate |-> InitialRate]
Running == {g \in Gens : child[g].state = "running"}
NoJob == [op |-> "none", purpose |-> "none", spec |-> InitialSpec, gen |-> NoGen, flush |-> FALSE]

Init ==
    /\ spec = InitialSpec
    /\ desiredRate = InitialRate
    /\ active = NoGen
    /\ started = FALSE
    /\ startupError = FALSE
    /\ fatal = FALSE
    /\ buffered = 0
    /\ crashAge = NoCrash
    /\ nextGen = 1
    /\ shuttingDown = FALSE
    /\ owned = {}
    /\ events = <<>>
    /\ mailboxOpen = TRUE
    /\ toKill = {}
    /\ child = [g \in Gens |-> Unborn]
    /\ pc = "idle"
    /\ job = NoJob
    /\ seenFatal = FALSE
    /\ restartAge = NoCrash
    /\ refused = FALSE

Idle == pc = "idle"
NextRequest == Idle /\ mailboxOpen
Available == ~fatal /\ active # NoGen
Kill(g) == [child EXCEPT ![g].state = IF @ = "running" THEN "dead" ELSE @]
\* push_event: at the limit the oldest event goes.
Push(e) ==
    events' = Append(IF Len(events) = MaxEvents THEN Tail(events) ELSE events, e)
Return == pc' = "idle" /\ job' = NoJob

-----------------------------------------------------------------------------
(* Calls the worker makes *)

\* Before the start, speech is buffered and the oldest is given up.
Buffer(interrupt) ==
    /\ NextRequest
    /\ ~started /\ ~startupError
    /\ buffered' = IF interrupt THEN 1 ELSE IF buffered = MaxBuffered THEN buffered
                   ELSE buffered + 1
    /\ UNCHANGED <<spec, desiredRate, started, startupError, fatal, crashAge, active, nextGen,
                   handle, outside, child, worker, history>>
DiscardBuffer ==
    /\ NextRequest
    /\ ~started
    /\ buffered' = 0
    /\ UNCHANGED <<spec, desiredRate, started, startupError, fatal, crashAge, active, nextGen,
                   handle, outside, child, worker, history>>

\* speak and stop on the active server.
Call(op) ==
    /\ NextRequest
    /\ started /\ Available
    /\ pc' = "call"
    /\ job' = [NoJob EXCEPT !.op = op]
    /\ UNCHANGED <<policy, active, nextGen, handle, outside, child, history>>

\* The rate is remembered for the next server even if this one cannot be told.
SetRate(rate) ==
    /\ NextRequest
    /\ desiredRate' = rate
    /\ IF started /\ Available
       THEN pc' = "call" /\ job' = [NoJob EXCEPT !.op = "rate"]
       ELSE UNCHANGED worker
    /\ UNCHANGED <<spec, started, startupError, fatal, buffered, crashAge, active, nextGen,
                   handle, outside, child, history>>

Spawn(purpose, s, flush) ==
    /\ pc' = "spawn"
    /\ job' = [op |-> "none", purpose |-> purpose, spec |-> s, gen |-> NoGen, flush |-> flush]

Start ==
    /\ NextRequest
    /\ ~started /\ ~startupError
    /\ Spawn("first", spec, TRUE)
    /\ UNCHANGED <<policy, active, nextGen, handle, outside, child, history>>

ConfigureServer(s) ==
    /\ NextRequest
    /\ IF started
       THEN Available /\ Spawn("replace", s, FALSE) /\ UNCHANGED spec
       ELSE ~startupError /\ spec' = s /\ UNCHANGED worker
    /\ UNCHANGED <<desiredRate, started, startupError, fatal, buffered, crashAge, active,
                   nextGen, handle, outside, child, history>>

-----------------------------------------------------------------------------
(* spawn_ready *)

\* What a failed spawn means to the call it belongs to.
SpawnFailed ==
    CASE job.purpose = "first" ->
            /\ Spawn("second", job.spec, TRUE)
            /\ UNCHANGED <<startupError, fatal, buffered, events>>
      [] job.purpose = "second" ->
            /\ startupError' = TRUE
            /\ Return
            /\ UNCHANGED <<fatal, buffered, events>>
      [] job.purpose = "recover" ->
            /\ fatal' = TRUE
            /\ Push("fatal")
            /\ buffered' = IF job.flush THEN 0 ELSE buffered
            /\ Return
            /\ UNCHANGED startupError
      [] job.purpose = "replace" ->
            /\ Push("failed")
            /\ Return
            /\ UNCHANGED <<startupError, fatal, buffered>>

SpawnRefused ==
    /\ pc = "spawn"
    /\ shuttingDown
    /\ SpawnFailed
    /\ UNCHANGED <<spec, desiredRate, started, crashAge, active, nextGen, shuttingDown, owned,
                   outside, child, history>>

Fork ==
    /\ pc = "spawn"
    /\ ~shuttingDown
    /\ nextGen <= MaxGen
    /\ nextGen' = nextGen + 1
    /\ child' = [child EXCEPT ![nextGen] =
                    [state |-> "running", spec |-> job.spec, rate |-> InitialRate]]
    /\ pc' = "forked"
    /\ job' = [job EXCEPT !.gen = nextGen]
    /\ UNCHANGED <<policy, active, handle, outside, history>>
ForkFailed ==
    /\ pc = "spawn"
    /\ ~shuttingDown
    /\ SpawnFailed
    /\ UNCHANGED <<spec, desiredRate, started, crashAge, active, nextGen, shuttingDown, owned,
                   outside, child, history>>

\* Mutant: a child that appears during the shutdown is registered like any other.
RegisterAnyway ==
    /\ pc = "forked"
    /\ owned' = owned \cup {job.gen}
    /\ pc' = "registered"
    /\ UNCHANGED <<policy, active, nextGen, shuttingDown, events, outside, child, job, history>>
\* A child that appears during the shutdown is killed instead of registered.
Register ==
    /\ pc = "forked"
    /\ IF shuttingDown
       THEN child' = Kill(job.gen) /\ UNCHANGED owned
       ELSE owned' = owned \cup {job.gen} /\ UNCHANGED child
    /\ pc' = "registered"
    /\ UNCHANGED <<policy, active, nextGen, shuttingDown, events, outside, job, history>>

\* The handshake, the second look at the shutdown flag and the rate.
Initialize ==
    /\ pc = "registered"
    /\ child[job.gen].state = "running"
    /\ pc' = "initialized"
    /\ UNCHANGED <<policy, active, nextGen, handle, outside, child, job, history>>
Recheck ==
    /\ pc = "initialized"
    /\ ~shuttingDown
    /\ pc' = "rate"
    /\ UNCHANGED <<policy, active, nextGen, handle, outside, child, job, history>>

\* Dropping the candidate kills it, reaps it and gives up its ownership.
DropCandidate ==
    /\ child' = Kill(job.gen)
    /\ owned' = owned \ {job.gen}
CandidateFailed ==
    /\ \/ pc \in {"registered", "rate"}
       \/ pc = "initialized" /\ shuttingDown
    /\ DropCandidate
    /\ SpawnFailed
    /\ UNCHANGED <<spec, desiredRate, started, crashAge, active, nextGen, shuttingDown, outside,
                   history>>

\* The rate is set and the child becomes the active server; a replaced server
\* is dropped only now.
Install ==
    /\ pc = "rate"
    /\ child[job.gen].state = "running"
    /\ active' = job.gen
    /\ refused' = FALSE
    /\ LET ready == [child EXCEPT ![job.gen].rate = desiredRate]
       IN  IF job.purpose = "replace"
           THEN /\ child' = [ready EXCEPT ![active].state = "dead"]
                /\ owned' = owned \ {active}
                /\ spec' = job.spec
                /\ Push("reconfigured")
                /\ Return
                /\ UNCHANGED started
           ELSE /\ child' = ready
                /\ started' = TRUE
                /\ IF job.flush THEN pc' = "flush" /\ job' = NoJob ELSE Return
                /\ UNCHANGED <<owned, spec, events>>
    /\ UNCHANGED <<desiredRate, startupError, fatal, buffered, crashAge, nextGen, shuttingDown,
                   outside, seenFatal, restartAge>>

-----------------------------------------------------------------------------
(* call_active and the recovery from a transport failure *)

AfterCall == IF job.flush THEN pc' = "flush" /\ job' = NoJob ELSE Return

CallOk ==
    /\ pc = "call"
    /\ child[active].state = "running"
    /\ child' = IF job.op = "rate" THEN [child EXCEPT ![active].rate = desiredRate] ELSE child
    /\ refused' = (job.op # "rate" /\ refused)
    /\ AfterCall
    /\ UNCHANGED <<policy, active, nextGen, handle, outside, seenFatal, restartAge>>
\* The server answers with an error: nothing is wrong with the transport.
CallRejected ==
    /\ pc = "call"
    /\ child[active].state = "running"
    /\ refused' = (job.op = "rate" \/ refused)
    /\ AfterCall
    /\ UNCHANGED <<policy, active, nextGen, handle, outside, child, seenFatal, restartAge>>

\* Mutant: every crash is followed by a restart.
AlwaysRestart == TRUE
RestartAllowed == crashAge = NoCrash \/ crashAge >= CrashWindow
\* The failed server is dropped; the request is never repeated.
TransportFailure ==
    /\ pc = "call"
    /\ active' = NoGen
    /\ child' = Kill(active)
    /\ owned' = owned \ {active}
    /\ IF RestartAllowed
       THEN /\ crashAge' = 0
            /\ restartAge' = 0
            /\ Spawn("recover", spec, job.flush)
            /\ UNCHANGED <<fatal, events, buffered>>
       ELSE /\ fatal' = TRUE
            /\ Push("fatal")
            /\ buffered' = IF job.flush THEN 0 ELSE buffered
            /\ Return
            /\ UNCHANGED <<crashAge, restartAge>>
    /\ UNCHANGED <<spec, desiredRate, started, startupError, nextGen, shuttingDown, outside,
                   seenFatal, refused>>

\* Mutant: an announcement stays buffered until it has been spoken.
FlushKeeping ==
    /\ pc = "flush"
    /\ buffered > 0
    /\ IF Available THEN pc' = "call" /\ job' = [NoJob EXCEPT !.op = "speak", !.flush = TRUE]
       ELSE UNCHANGED worker
    /\ UNCHANGED <<policy, active, nextGen, handle, outside, child, history>>
\* flush_pending_speech, one buffered announcement at a time.
FlushNext ==
    /\ pc = "flush"
    /\ buffered > 0
    /\ buffered' = buffered - 1
    /\ IF Available THEN pc' = "call" /\ job' = [NoJob EXCEPT !.op = "speak", !.flush = TRUE]
       ELSE UNCHANGED worker
    /\ UNCHANGED <<spec, desiredRate, started, startupError, fatal, crashAge, active, nextGen,
                   handle, outside, child, history>>
FlushDone ==
    /\ pc = "flush"
    /\ buffered = 0
    /\ Return
    /\ UNCHANGED <<policy, active, nextGen, handle, outside, child, history>>

\* The mailbox is shut down: the worker drops the supervisor and its child.
WorkerExit ==
    /\ Idle
    /\ ~mailboxOpen
    /\ pc' = "done"
    /\ active' = NoGen
    /\ child' = IF active = NoGen THEN child ELSE Kill(active)
    /\ owned' = owned \ {active}
    /\ UNCHANGED <<policy, nextGen, shuttingDown, events, outside, job, history>>

-----------------------------------------------------------------------------
(* The event loop, the children and the clock *)

TakeEvents ==
    /\ events # <<>>
    /\ seenFatal' = (seenFatal \/ "fatal" \in Range(events))
    /\ events' = <<>>
    /\ UNCHANGED <<policy, active, nextGen, shuttingDown, owned, outside, child, worker,
                   restartAge, refused>>

\* terminate(): mark, copy the terminators under the lock, run them outside it.
Terminate ==
    /\ shuttingDown' = TRUE
    /\ toKill' = toKill \cup owned
    /\ UNCHANGED <<policy, active, nextGen, owned, events, mailboxOpen, child, worker, history>>
RunTerminator(g) ==
    /\ g \in toKill
    /\ toKill' = toKill \ {g}
    /\ child' = Kill(g)
    /\ UNCHANGED <<policy, active, nextGen, handle, mailboxOpen, worker, history>>

\* Speech::shutdown closes the mailbox and then terminates the children; the
\* monitor of signals during startup only does the latter.
CloseMailbox ==
    /\ mailboxOpen
    /\ mailboxOpen' = FALSE
    /\ UNCHANGED <<policy, active, nextGen, handle, toKill, child, worker, history>>

Crash(g) ==
    /\ g \in Running
    /\ child' = Kill(g)
    /\ UNCHANGED <<policy, active, nextGen, handle, outside, worker, history>>

Older(age) == IF age = NoCrash \/ age = CrashWindow THEN age ELSE age + 1
Tick ==
    /\ crashAge' = Older(crashAge)
    /\ restartAge' = Older(restartAge)
    /\ <<crashAge', restartAge'>> # <<crashAge, restartAge>>
    /\ UNCHANGED <<spec, desiredRate, started, startupError, fatal, buffered, active, nextGen,
                   handle, outside, child, worker, seenFatal, refused>>

WorkerStep ==
    \/ SpawnRefused
    \/ Fork
    \/ ForkFailed
    \/ Register
    \/ Initialize
    \/ Recheck
    \/ CandidateFailed
    \/ Install
    \/ CallOk
    \/ CallRejected
    \/ TransportFailure
    \/ FlushNext
    \/ FlushDone
    \/ WorkerExit

Next ==
    \/ \E interrupt \in BOOLEAN : Buffer(interrupt)
    \/ DiscardBuffer
    \/ \E op \in {"speak", "stop"} : Call(op)
    \/ \E rate \in Rates : SetRate(rate)
    \/ Start
    \/ \E s \in Specs : ConfigureServer(s)
    \/ WorkerStep
    \/ TakeEvents
    \/ Terminate
    \/ CloseMailbox
    \/ \E g \in Gens : RunTerminator(g) \/ Crash(g)
    \/ Tick

Spec == Init /\ [][Next]_vars

\* The worker thread is scheduled and every process operation has a timeout;
\* terminate() runs to its end, and shutdown_inner calls it once the mailbox is
\* closed.
FairSpec ==
    /\ Spec
    /\ WF_vars(WorkerStep)
    /\ WF_vars(~mailboxOpen /\ ~shuttingDown /\ Terminate)
    /\ \A g \in Gens : WF_vars(RunTerminator(g))

-----------------------------------------------------------------------------
(* Properties *)

\* The shape of the supervisor, its handle and its children.
TypeOK ==
    /\ spec \in Specs
    /\ desiredRate \in Rates
    /\ active \in 0 .. MaxGen
    /\ {started, startupError, fatal, shuttingDown, mailboxOpen, seenFatal, refused}
          \subseteq BOOLEAN
    /\ buffered \in 0 .. MaxBuffered
    /\ {crashAge, restartAge} \subseteq {NoCrash} \cup 0 .. CrashWindow
    /\ nextGen \in 1 .. MaxGen + 1
    /\ owned \subseteq Gens
    /\ toKill \subseteq Gens
    /\ events \in Seq({"fatal", "reconfigured", "failed"})
    /\ Len(events) <= MaxEvents
    /\ child \in [Gens -> [state : {"none", "running", "dead"}, spec : Specs, rate : Rates]]
    /\ pc \in {"idle", "spawn", "forked", "registered", "initialized", "rate", "call", "flush",
               "done"}
    /\ job \in [op : {"none", "speak", "stop", "rate"},
                purpose : {"none", "first", "second", "recover", "replace"},
                spec : Specs, gen : 0 .. MaxGen, flush : BOOLEAN]

\* "Terminate the currently active direct child": whatever the worker was doing
\* when Lector left, once the terminators have run no server outlives them but
\* one that is about to be registered, which Register then kills.
NoOrphan ==
    (shuttingDown /\ toKill = {}) =>
        \A g \in Running : g = job.gen /\ pc = "forked"

\* A fatal failure, which must end Lector, is never lost in the bounded event
\* queue, whatever was pushed before or after it.
FatalIsReported == fatal => seenFatal \/ "fatal" \in Range(events)

\* Between two calls the active server is the configured one and speaks at the
\* rate last asked for, across restarts and replacements, unless it answered
\* the last change with an error.
ActiveIsAsConfigured ==
    (Idle /\ active # NoGen) =>
        /\ child[active].spec = spec
        /\ child[active].rate = desiredRate \/ refused

\* "Changing servers cannot bypass the rolling 30-second failure policy": two
\* automatic restarts are at least CrashWindow apart.
RestartsAreSpaced ==
    [][(pc = "call" /\ pc' = "spawn") => restartAge \in {NoCrash, CrashWindow}]_vars

\* A replacement that fails leaves the previous server active and alive.
FailedReplacementKeepsServer ==
    [][(job.purpose = "replace" /\ pc' = "idle" /\ spec' = spec /\ job.spec # spec)
          => active' = active /\ child'[active] = child[active]]_vars

\* The worker is between two calls; a shutdown that was asked for is over.
CallEnded == Idle \/ pc = "done"
ShutDownWhenAsked == mailboxOpen \/ (pc = "done" /\ Running = {})

-----------------------------------------------------------------------------
(* The properties as the runs check them, one name for one question. *)

\* The servers are accounted for: none outlives Lector, the active one is the
\* configured one, and the failure that must end Lector is not lost.
ServersAccounted == TypeOK /\ NoOrphan /\ ActiveIsAsConfigured /\ FatalIsReported

\* A server is restarted no more often than the policy allows, and given up
\* only for one that works.
RecoveryIsOrderly == RestartsAreSpaced /\ FailedReplacementKeepsServer

\* Every call ends, and a shutdown ends with the worker gone and no server
\* left running.
SupervisorProgress == []<>(CallEnded /\ ShutDownWhenAsked)
=============================================================================
