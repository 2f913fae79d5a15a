---------------------------- MODULE SpeechWorker ----------------------------
(***************************************************************************)
(* The bounded mailbox between the terminal event loop and the speech      *)
(* backend, and the thread that serves it (src/speech/worker.rs).          *)
(*                                                                         *)
(* The event loop never blocks on the backend: speech is dropped, oldest   *)
(* first, when the mailbox is full, an interrupting announcement or a stop *)
(* discards the speech queued before it, and rate and server changes are   *)
(* coalesced and jump the queue.  The mutex makes every mailbox operation  *)
(* one step; the condition variable is explicit (asleep).                  *)
(***************************************************************************)
EXTENDS Naturals, Sequences, FiniteSets, SequencesExt, FiniteSetsExt

CONSTANTS
    MaxItems,   \* MAX_PENDING_SPEECH_ITEMS
    MaxBytes,   \* MAX_PENDING_SPEECH_BYTES
    ItemBytes,  \* MAX_SPEECH_ITEM_BYTES
    TextSizes,  \* sizes of the texts spoken
    MaxId       \* bound on the requests made

ASSUME LimitAssumption ==
    /\ MaxItems \in Nat \ {0}
    /\ MaxBytes \in Nat
    /\ ItemBytes \in Nat
    /\ ItemBytes <= MaxBytes
    /\ TextSizes \subseteq Nat
    /\ MaxId \in Nat

VARIABLES
    requests,   \* the mailbox queue, next request first
    items,      \* speech_items
    bytes,      \* speech_bytes
    shutdown,
    asleep,     \* the worker waits on the condition variable
    worker,     \* "ready" to look at the mailbox, "busy" in the backend, "done"
    busy,       \* the request the backend works on
    startWait,  \* the Start request start() waits for, or NoId
    nextId,     \* history: identity of the next request, in order of arrival
    cut,        \* history: the newest stop or interrupting announcement
    lost,       \* history: announcements dropped for room
    spoken,     \* history: the last announcement handed to the backend
    rate,       \* history: the last rate change handed to the backend
    asked       \* history: the newest rate change requested

mailbox == <<requests, items, bytes, shutdown>>
thread == <<asleep, worker, busy>>
history == <<nextId, cut, lost, spoken, rate, asked>>
vars == <<mailbox, thread, startWait, history>>

NoId == 0
Request(kind, size) == [kind |-> kind, size |-> size, id |-> nextId]
NoRequest == [kind |-> "none", size |-> 0, id |-> NoId]
Kinds == {"speak", "interrupt", "stop", "rate", "server", "start"}
SpeechKinds == {"speak", "interrupt"}
IsSpeech(r) == r.kind \in SpeechKinds

\* The requests of a queue that are in A, in their order.  (SelectSeq, which the
\* provers know nothing of, as a recursive function.)
Only(q, A) ==
    LET kept[i \in 0 .. Len(q)] ==
          IF i = 0 THEN <<>>
          ELSE IF q[i] \in A THEN Append(kept[i - 1], q[i]) ELSE kept[i - 1]
    IN  kept[Len(q)]
OfKinds(q, kinds) == Only(q, [kind : kinds, size : Nat, id : Nat])
SpeechOf(q) == OfKinds(q, SpeechKinds)
Speeches(q) == Len(SpeechOf(q))
SizesOf(q) == [i \in DOMAIN q |-> q[i].size]
BytesOf(q) == SumFunction(SizesOf(SpeechOf(q)))
Ids(q) == {q[i].id : i \in DOMAIN q}

Init ==
    /\ requests = <<>>
    /\ items = 0
    /\ bytes = 0
    /\ shutdown = FALSE
    /\ asleep = FALSE
    /\ worker = "ready"
    /\ busy = NoRequest
    /\ startWait = NoId
    /\ nextId = 1
    /\ cut = NoId
    /\ lost = {}
    /\ spoken = NoId
    /\ rate = NoId
    /\ asked = NoId

-----------------------------------------------------------------------------
(* The event loop's calls.  It makes no other call while start() waits.     *)

Calling == ~shutdown /\ startWait = NoId /\ nextId <= MaxId

\* bounded_text
Bounded(size) == IF size <= ItemBytes THEN size ELSE ItemBytes

\* The oldest k announcements of a queue, and the queue without them.
Oldest(q, k) == SubSeq(SpeechOf(q), 1, k)
Without(q, k) == Only(q, Range(q) \ Range(Oldest(q, k)))

\* Announcements are dropped, oldest first, until the new one fits.
DropFor(q, n, b, size) ==
    Min({k \in 0 .. Speeches(q) :
            \/ k = Speeches(q)
            \/ n - k # MaxItems /\ b - BytesOf(Oldest(q, k)) + size <= MaxBytes})

\* The queue, the counters and what was dropped after enqueue_speech(size).
Speak(size, interrupt) ==
    /\ Calling
    /\ LET discarded == IF interrupt THEN Speeches(requests) ELSE 0
           q == Without(requests, discarded)
           n == items - discarded
           b == bytes - BytesOf(Oldest(requests, discarded))
           k == DropFor(q, n, b, Bounded(size))
       IN  /\ requests' = Append(Without(q, k),
                                 Request(IF interrupt THEN "interrupt" ELSE "speak",
                                         Bounded(size)))
           /\ items' = n - k + 1
           /\ bytes' = b - BytesOf(Oldest(q, k)) + Bounded(size)
           /\ lost' = lost \cup Ids(Oldest(q, k))
    /\ cut' = IF interrupt THEN nextId ELSE cut
    /\ nextId' = nextId + 1
    /\ asleep' = FALSE
    /\ UNCHANGED <<shutdown, worker, busy, startWait, spoken, rate, asked>>

\* A control request replaces the queued one of its kind and goes first.
Coalesced(q, kind) == <<Request(kind, 0)>> \o OfKinds(q, Kinds \ {kind})

\* Mutant: stop goes first but leaves the queued speech alone.
StopKeepingSpeech ==
    /\ Calling
    /\ requests' = Coalesced(requests, "stop")
    /\ cut' = nextId
    /\ nextId' = nextId + 1
    /\ asleep' = FALSE
    /\ UNCHANGED <<items, bytes, shutdown, worker, busy, startWait, lost, spoken, rate, asked>>
Stop ==
    /\ Calling
    /\ requests' = Coalesced(OfKinds(requests, Kinds \ SpeechKinds), "stop")
    /\ items' = items - Speeches(requests)
    /\ bytes' = bytes - BytesOf(requests)
    /\ cut' = nextId
    /\ nextId' = nextId + 1
    /\ asleep' = FALSE
    /\ UNCHANGED <<shutdown, worker, busy, startWait, lost, spoken, rate, asked>>

\* Mutant: the waiting worker is not told of a control request.
ConfigureUnnoticed(kind) ==
    /\ Calling
    /\ requests' = Coalesced(requests, kind)
    /\ asked' = IF kind = "rate" THEN nextId ELSE asked
    /\ nextId' = nextId + 1
    /\ UNCHANGED <<items, bytes, shutdown, thread, startWait, cut, lost, spoken, rate>>
\* set_rate and configure_server.
Configure(kind) ==
    /\ Calling
    /\ requests' = Coalesced(requests, kind)
    /\ asked' = IF kind = "rate" THEN nextId ELSE asked
    /\ nextId' = nextId + 1
    /\ asleep' = FALSE
    /\ UNCHANGED <<items, bytes, shutdown, worker, busy, startWait, cut, lost, spoken, rate>>

\* start() queues the activation behind everything and waits for the reply ...
Start ==
    /\ Calling
    /\ requests' = Append(requests, Request("start", 0))
    /\ startWait' = nextId
    /\ nextId' = nextId + 1
    /\ asleep' = FALSE
    /\ UNCHANGED <<items, bytes, shutdown, worker, busy, cut, lost, spoken, rate, asked>>
\* ... which the worker sends when the backend has answered, or for 15 seconds.
StartTimesOut ==
    /\ startWait # NoId
    /\ startWait' = NoId
    /\ UNCHANGED <<mailbox, thread, history>>

\* Mutant: the waiting worker is not told of the shutdown.
ShutDownUnnoticed ==
    /\ startWait = NoId
    /\ ~shutdown
    /\ shutdown' = TRUE
    /\ requests' = <<>>
    /\ items' = 0
    /\ bytes' = 0
    /\ UNCHANGED <<thread, startWait, history>>
ShutDown ==
    /\ startWait = NoId
    /\ ~shutdown
    /\ shutdown' = TRUE
    /\ requests' = <<>>
    /\ items' = 0
    /\ bytes' = 0
    /\ asleep' = FALSE
    /\ UNCHANGED <<worker, busy, startWait, history>>

-----------------------------------------------------------------------------
(* The worker thread *)

\* next_request: wait, leave, or take the first request.
Wait ==
    /\ worker = "ready"
    /\ ~asleep
    /\ requests = <<>>
    /\ ~shutdown
    /\ asleep' = TRUE
    /\ UNCHANGED <<mailbox, worker, busy, startWait, history>>
Exit ==
    /\ worker = "ready"
    /\ ~asleep
    /\ shutdown
    /\ worker' = "done"
    /\ UNCHANGED <<mailbox, asleep, busy, startWait, history>>
Ready == worker = "ready" /\ ~asleep /\ ~shutdown /\ requests # <<>>
Hand(r) ==
    /\ busy' = r
    /\ worker' = "busy"
    /\ spoken' = IF IsSpeech(r) THEN r.id ELSE spoken
    /\ rate' = IF r.kind = "rate" THEN r.id ELSE rate
    /\ UNCHANGED <<shutdown, asleep, startWait, nextId, cut, lost, asked>>
\* Mutant: taking an announcement leaves the counters as they were.
TakeUncounted ==
    /\ Ready
    /\ requests' = Tail(requests)
    /\ Hand(Head(requests))
    /\ UNCHANGED <<items, bytes>>
Take ==
    /\ Ready
    /\ requests' = Tail(requests)
    /\ items' = items - Speeches(<<Head(requests)>>)
    /\ bytes' = bytes - BytesOf(<<Head(requests)>>)
    /\ Hand(Head(requests))
\* The backend returns (or fails, which is only logged); a Start is answered.
Return ==
    /\ worker = "busy"
    /\ worker' = "ready"
    /\ busy' = NoRequest
    /\ startWait' = IF busy.id = startWait THEN NoId ELSE startWait
    /\ UNCHANGED <<mailbox, asleep, history>>

WorkerStep == Wait \/ Exit \/ Take \/ Return

Next ==
    \/ \E size \in TextSizes, interrupt \in BOOLEAN : Speak(size, interrupt)
    \/ Stop
    \/ \E kind \in {"rate", "server"} : Configure(kind)
    \/ Start
    \/ StartTimesOut
    \/ ShutDown
    \/ WorkerStep

Spec == Init /\ [][Next]_vars

\* The operating system runs the worker, and a backend call returns: a stuck
\* one is killed by the supervisor's request timeouts.
FairSpec == Spec /\ WF_vars(WorkerStep) /\ WF_vars(StartTimesOut)

-----------------------------------------------------------------------------
(* Properties *)

RequestType == [kind : Kinds, size : 0 .. ItemBytes, id : 1 .. MaxId]

\* The shape of MailboxState, of the thread and of the history.
TypeOK ==
    /\ requests \in Seq(RequestType)
    /\ items \in Nat
    /\ bytes \in Nat
    /\ shutdown \in BOOLEAN
    /\ asleep \in BOOLEAN
    /\ worker \in {"ready", "busy", "done"}
    /\ busy \in RequestType \cup {NoRequest}
    /\ {startWait, cut, spoken, rate, asked} \subseteq 0 .. MaxId
    /\ nextId \in 1 .. MaxId + 1
    /\ lost \subseteq 1 .. MaxId

\* speech_items and speech_bytes, which every operation adjusts on its own,
\* are what the queue really holds and stay within the limits; and however
\* often the user asks, there is one stop, one rate and one server change.
CountersExact ==
    /\ items = Speeches(requests) /\ items <= MaxItems
    /\ bytes = BytesOf(requests) /\ bytes <= MaxBytes
    /\ \A kind \in {"stop", "rate", "server"} :
          Len(OfKinds(requests, {kind})) <= 1

Handed == worker # "busy" /\ worker' = "busy"

\* After a stop or an interrupting announcement nothing that was announced
\* before it is handed to the backend any more.
CutIsFinal == [][Handed /\ IsSpeech(busy') => busy'.id >= cut]_vars

\* The backend hears the announcements in the order they were made.
SpeechInOrder == [][Handed /\ IsSpeech(busy') => busy'.id > spoken]_vars

\* "The newest announcements replace stale queued announcements": whatever is
\* dropped for room is older than every announcement that stays.
NewestKept ==
    [][\A id \in lost' \ lost : \A r \in Range(SpeechOf(requests')) : id < r.id]_vars

\* "Configuration and speech emitted while init.lua was loading must be observed
\* before this activation fence": nothing asked for earlier is still queued
\* when the backend is started.
StartIsAFence ==
    [][Handed /\ busy'.kind = "start" => \A r \in Range(requests') : r.id > busy'.id]_vars

\* The newest rate reaches the backend, unless the mailbox is shut down first.
Heeded == shutdown \/ rate = asked
RateArrives == []<>Heeded

\* Neither a start() nor a shutdown waits for a worker that never comes back.
Returned == startWait = NoId /\ (shutdown => worker = "done")
Terminates == []<>Returned
=============================================================================
