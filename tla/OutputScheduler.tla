-------------------------- MODULE OutputScheduler --------------------------
(***************************************************************************)
(* The physical-terminal output scheduler (src/output_scheduler.rs).       *)
(*                                                                         *)
(* Everything Lector puts on the outer terminal passes through one queue.  *)
(* A renderer frame that has not started may be replaced by a newer one; a *)
(* started transaction is finished before the next begins; an application  *)
(* that opened DEC 2026 synchronized output holds unstarted work back      *)
(* until it closes, times out, or a compositor frame is told to bypass it. *)
(* A frame's receipt (and the accessibility bundle that travels with it)   *)
(* is reported only after a successful flush.                              *)
(*                                                                         *)
(* The scheduler is owned by one thread, but the writer may accept part of *)
(* a transaction, block or fail at every call, so a call of drain_ready is *)
(* modelled as a sequence of steps (variable drain) that excludes every    *)
(* other operation.  Time is kept as ages: the distance from a stored      *)
(* timestamp to now, capped at the timeout it is compared with.  Bytes are *)
(* counted, never spelled.                                                 *)
(***************************************************************************)
EXTENDS Integers, Sequences, FiniteSets, FiniteSetsExt, Functions

CONSTANTS
    Latency,        \* latency_budget_ms, in ticks
    IdleTimeout,    \* synchronization_timeout_ms, in ticks
    HardTimeout,    \* synchronization_hard_timeout_ms, in ticks
    WriteBudget,    \* write_budget_bytes
    MaxPending,     \* maximum_pending_bytes
    ControlLimit,   \* CONTROL_BACKLOG_LIMIT_BYTES
    Wrapper,        \* bytes of the DEC 2026 start and end markers
    Owners,         \* surfaces that own terminal effects
    EffectKinds,    \* kinds of terminal effect the run uses
    EffectBytes,    \* retained size of a terminal effect
    NoEffect,       \* "this transaction is not an effect"
    RenderSizes,    \* encoded sizes of the frames offered
    ControlSizes,   \* sizes of the control byte strings offered
    BellCounts,     \* bell counts offered
    Support,        \* values the DEC 2026 capability takes
    Opens,          \* "opened" flags of the applications' synchronized output
    MaxGen,         \* bound on render generations
    MaxEffects      \* bound on effect positions and on effects awaiting a flush

ASSUME TimingAssumption ==
    /\ Latency \in Nat
    /\ IdleTimeout \in Nat \ {0}
    /\ HardTimeout \in Nat \ {0}

ASSUME SizeAssumption ==
    /\ WriteBudget \in Nat \ {0}
    /\ MaxPending \in Nat
    /\ ControlLimit \in Nat
    /\ Wrapper \in Nat
    /\ EffectBytes \in Nat
    \* Control strings coalesce into one entry because the backlog limit is
    \* the smaller of the two bounds (64 KiB against 2 MiB).
    /\ ControlLimit <= MaxPending

ASSUME InputAssumption ==
    /\ RenderSizes \subseteq Nat
    /\ ControlSizes \subseteq Nat \ {0}
    /\ BellCounts \subseteq Nat \ {0}
    /\ Support \subseteq BOOLEAN
    /\ Opens \subseteq BOOLEAN
    /\ MaxGen \in Nat
    /\ MaxEffects \in Nat

VARIABLES
    supported,      \* synchronized_output_supported
    controlBytes,   \* pending_bytes: size of the coalesced control entry
    pendingRender,  \* pending_render, or NoRender
    pendingEffects, \* pending_effects: queue position -> effect
    pendingBells,   \* pending_bells
    pendingAge,     \* now - pending_since_ms, or NoAge
    active,         \* queue position -> activated transaction
    awaitRenders,   \* awaiting_flush_renders: generations in write order
    awaitEffects,   \* number of awaiting_flush_effects
    flushRequired,
    waiting,        \* waiting_for_writable
    sync,           \* application_synchronization
    bypassNext,     \* bypass_next_render
    bypassGen,      \* application_synchronization_bypass_generation
    releaseGen,     \* synchronization_timeout_release_generation
    nextGen,        \* next_render_generation
    broken,         \* needs_reconciliation
    drain,          \* local state of the drain_ready call in progress
    wire,           \* history: the transaction the stream is in the middle of
    unflushed,      \* history: generations with bytes not yet flushed
    presented       \* history: generation of the last reported receipt

pendings == <<controlBytes, pendingRender, pendingEffects, pendingBells, pendingAge>>
queued == <<pendings, active>>
awaits == <<awaitRenders, awaitEffects>>
holds == <<sync, bypassNext, bypassGen, releaseGen>>
history == <<wire, unflushed, presented>>
vars == <<supported, pendings, active, awaits, flushRequired, waiting, holds,
          nextGen, broken, drain, history>>

NoGen == 0
NoAge == -1
NoDeadline == -1

(***************************************************************************)
(* Queue positions.  activate_pending runs only on an empty active queue   *)
(* and appends control, effects, the render and the bells in that order,   *)
(* so a transaction keeps the position it is activated with.  Removal      *)
(* leaves a hole: only the relative order of positions is ever observed.   *)
(***************************************************************************)
ControlSlot == 0
EffectSlots == 1 .. MaxEffects
RenderSlot == MaxEffects + 1
BellSlot == MaxEffects + 2
Slots == 0 .. BellSlot

Effect == [owner : Owners, kind : EffectKinds]
Render == [gen : Nat \ {NoGen}, bytes : Nat]
NoRender == [gen |-> NoGen, bytes |-> 0]
Transaction == [len : Nat, off : Nat, gen : Nat, fx : Effect \cup {NoEffect}]
Tx(len, gen, fx) == [len |-> len, off |-> 0, gen |-> gen, fx |-> fx]

IsQueue(q, S, T) == DOMAIN q \subseteq S /\ q \in [DOMAIN q -> T]
EmptyQueue == [i \in {} |-> {}]

\* A title or working directory is current state: only the newest counts.
IsModelState(e) == e.kind \in {"title", "cwd"}
SameEffect(e, f) == e.owner = f.owner /\ e.kind = f.kind
\* Clipboard, notification and query effects encode to no bytes at all.
EncodedBytes(e) == IF e.kind = "clipboard" THEN 0 ELSE EffectBytes

SyncState == [mode : {"None", "Active", "Ignoring"},
              started : 0 .. HardTimeout, idle : 0 .. IdleTimeout]
NoSync == [mode |-> "None", started |-> 0, idle |-> 0]
NewSync == [mode |-> "Active", started |-> 0, idle |-> 0]
IgnoredSync == [mode |-> "Ignoring", started |-> 0, idle |-> 0]

DrainState == [phase : {"idle", "flushFirst", "hold", "write", "finish", "flush"},
               force : BOOLEAN, finishOnly : BOOLEAN, written : Nat,
               reached : BOOLEAN, progress : BOOLEAN]
Idle == [phase |-> "idle", force |-> FALSE, finishOnly |-> FALSE,
         written |-> 0, reached |-> FALSE, progress |-> FALSE]
WireState == [slot : Slots \cup {-1}, gen : Nat, left : Nat]
NoWire == [slot |-> -1, gen |-> NoGen, left |-> 0]

-----------------------------------------------------------------------------
(* The queue seen from outside *)

ActiveBytes(act) == SumFunction([i \in DOMAIN act |-> act[i].len - act[i].off])
Backlog(ctl, ren, efs, bells, act) ==
    ActiveBytes(act) + ctl + ren.bytes + EffectBytes * Cardinality(DOMAIN efs) + bells
PendingBytes == Backlog(controlBytes, pendingRender, pendingEffects, pendingBells, active)
ControlBacklog ==
    controlBytes + (IF ControlSlot \in DOMAIN active
                    THEN active[ControlSlot].len - active[ControlSlot].off ELSE 0)
RetainedEffects(efs, act) ==
    Cardinality(DOMAIN efs) + awaitEffects + Cardinality(DOMAIN act \cap EffectSlots)

Started(act, i) == act[i].off > 0
UnstartedRender == RenderSlot \in DOMAIN active /\ ~Started(active, RenderSlot)
IsFront(act, i) == i \in DOMAIN act /\ \A j \in DOMAIN act : i <= j
FrontStarted == \E i \in DOMAIN active : IsFront(active, i) /\ Started(active, i)

PendingGens == {pendingRender.gen} \ {NoGen}
ActiveGens == {active[i].gen : i \in DOMAIN active} \ {NoGen}
AwaitGens == {awaitRenders[i] : i \in DOMAIN awaitRenders}
RetainedGens == PendingGens \cup ActiveGens \cup AwaitGens

HasPending ==
    \/ controlBytes > 0
    \/ pendingRender # NoRender
    \/ DOMAIN pendingEffects # {}
    \/ pendingBells > 0

\* has_render_work and has_started_render_work, as the application reads them.
HasRenderWork ==
    \/ pendingRender # NoRender
    \/ awaitRenders # <<>>
    \/ RenderSlot \in DOMAIN active
HasStartedRenderWork ==
    awaitRenders # <<>> \/ (RenderSlot \in DOMAIN active /\ Started(active, RenderSlot))

TimedOut == sync.idle >= IdleTimeout \/ sync.started >= HardTimeout

\* next_deadline_ms, as the distance from now (0 when it is already due).
SyncDelay ==
    IF sync.mode = "Active"
    THEN Max({0, Min({IdleTimeout - sync.idle, HardTimeout - sync.started})})
    ELSE NoDeadline
NextDelay ==
    IF waiting THEN NoDeadline
    ELSE IF DOMAIN active = {} /\ ~HasPending /\ ~flushRequired THEN SyncDelay
    ELSE IF /\ DOMAIN active # {} \/ flushRequired
            /\ ~(/\ sync.mode = "Active" /\ bypassGen = NoGen
                 /\ DOMAIN active # {} /\ ~FrontStarted) THEN 0
    ELSE IF bypassGen = NoGen /\ SyncDelay # NoDeadline THEN SyncDelay
    ELSE LET delays == ({IF pendingAge = NoAge THEN NoDeadline
                         ELSE Max({0, Latency - pendingAge})} \cup {SyncDelay}) \ {NoDeadline}
         IN  IF delays = {} THEN NoDeadline ELSE Min(delays)

Older(age, limit) == IF age < limit THEN age + 1 ELSE age
\* Mutant: queued work does not start the latency clock.
NeverNotePending(age) == age
NotePending(age) == IF age = NoAge THEN 0 ELSE age

-----------------------------------------------------------------------------
Init ==
    /\ supported \in Support
    /\ controlBytes = 0
    /\ pendingRender = NoRender
    /\ pendingEffects = EmptyQueue
    /\ pendingBells = 0
    /\ pendingAge = NoAge
    /\ active = EmptyQueue
    /\ awaitRenders = <<>>
    /\ awaitEffects = 0
    /\ flushRequired = FALSE
    /\ waiting = FALSE
    /\ sync = NoSync
    /\ bypassNext = FALSE
    /\ bypassGen = NoGen
    /\ releaseGen = NoGen
    /\ nextGen = 1
    /\ broken = FALSE
    /\ drain = Idle
    /\ wire = NoWire
    /\ unflushed = {}
    /\ presented = NoGen

Resting == drain.phase = "idle"

-----------------------------------------------------------------------------
(* Enqueueing *)

\* A render chosen as the boundary that ends a hold outranks the capacity.
IsBoundary(gen) == gen # NoGen /\ gen \in {releaseGen, bypassGen}

\* Mutant: the render that ends a hold is evicted like any other.
NoKeptRender == NoRender
\* The unstarted visual work enqueue_bytes gives up for control bytes.
KeptRender == IF IsBoundary(pendingRender.gen) THEN pendingRender ELSE NoRender
\* Mutant: a started transaction is evicted in the middle of its bytes.
KeptActiveUnlessVisual ==
    Restrict(active, {i \in DOMAIN active : i = ControlSlot \/ IsBoundary(active[i].gen)})
KeptActive ==
    Restrict(active, {i \in DOMAIN active :
        Started(active, i) \/ i = ControlSlot \/ IsBoundary(active[i].gen)})

EnqueueBytes(n) ==
    /\ Resting
    /\ ControlBacklog + n <= ControlLimit
    /\ LET roomy == PendingBytes + n <= MaxPending
           fits == roomy \/ Backlog(controlBytes, KeptRender, EmptyQueue, 0, KeptActive) + n
                              <= MaxPending
       IN  /\ pendingRender' = IF roomy THEN pendingRender ELSE KeptRender
           /\ pendingEffects' = IF roomy THEN pendingEffects ELSE EmptyQueue
           /\ pendingBells' = IF roomy THEN pendingBells ELSE 0
           /\ active' = IF roomy THEN active ELSE KeptActive
           /\ controlBytes' = IF fits THEN controlBytes + n ELSE controlBytes
           /\ pendingAge' = IF fits THEN NotePending(pendingAge) ELSE pendingAge
    /\ UNCHANGED <<supported, awaits, flushRequired, waiting, holds, nextGen, broken,
                   drain, history>>

FrameBytes(n) == n + (IF supported THEN Wrapper ELSE 0)
RoomForRender(n) ==
    PendingBytes - pendingRender.bytes
        - (IF UnstartedRender THEN active[RenderSlot].len ELSE 0)
        + FrameBytes(n) <= MaxPending

\* The frames a new render makes obsolete: the pending one and the one that
\* was activated but has not started.
ReplacedGens ==
    PendingGens \cup (IF UnstartedRender THEN {active[RenderSlot].gen} ELSE {})
ReturnedBells ==
    IF UnstartedRender /\ BellSlot \in DOMAIN active /\ ~Started(active, BellSlot)
    THEN {BellSlot} ELSE {}

\* The active queue without the obsolete frame, and without the bells behind
\* it, which return to the pending count.
WithoutReplaced ==
    IF UnstartedRender
    THEN Restrict(active, DOMAIN active \ ({RenderSlot} \cup ReturnedBells))
    ELSE active

EnqueueRender(n) ==
    /\ Resting
    /\ nextGen <= MaxGen
    /\ RoomForRender(n)
    /\ nextGen' = nextGen + 1
    /\ pendingRender' = [gen |-> nextGen, bytes |-> FrameBytes(n)]
    /\ releaseGen' = IF releaseGen \in ReplacedGens THEN nextGen ELSE releaseGen
    /\ bypassGen' = IF bypassNext \/ bypassGen \in ReplacedGens THEN nextGen ELSE bypassGen
    /\ bypassNext' = FALSE
    /\ pendingBells' = pendingBells + (IF ReturnedBells = {} THEN 0 ELSE active[BellSlot].len)
    /\ active' = WithoutReplaced
    /\ pendingAge' = IF UnstartedRender THEN Latency ELSE NotePending(pendingAge)
    /\ UNCHANGED <<supported, controlBytes, pendingEffects, awaits, flushRequired, waiting,
                   sync, broken, drain, history>>

\* DroppedForCapacity: the call only consumes the bypass request.
DropRender(n) ==
    /\ Resting
    /\ ~RoomForRender(n)
    /\ bypassNext' = FALSE
    /\ UNCHANGED <<supported, queued, awaits, flushRequired, waiting, sync, bypassGen,
                   releaseGen, nextGen, broken, drain, history>>

\* Older values of the same model state which have not started.
SupersededPending(e) ==
    {i \in DOMAIN pendingEffects : IsModelState(e) /\ SameEffect(pendingEffects[i], e)}
SupersededActive(e) ==
    {i \in DOMAIN active \cap EffectSlots :
        IsModelState(e) /\ ~Started(active, i) /\ SameEffect(active[i].fx, e)}
\* At the retention limit the oldest pending effect of that kind makes room.
OldestAlike(efs, e) ==
    {i \in DOMAIN efs : /\ SameEffect(efs[i], e)
                        /\ \A j \in DOMAIN efs : SameEffect(efs[j], e) => i <= j}
IsNextSlot(efs, s) ==
    (\A i \in DOMAIN efs : i < s) /\ (s = 1 \/ s - 1 \in DOMAIN efs)

EnqueueTerminalEffect(e) ==
    /\ Resting
    /\ awaitEffects < MaxEffects
    /\ LET act == Restrict(active, DOMAIN active \ SupersededActive(e))
           fresh == Restrict(pendingEffects, DOMAIN pendingEffects \ SupersededPending(e))
           full == (RetainedEffects(fresh, act) + 1) * EffectBytes > MaxPending
           efs == Restrict(fresh, DOMAIN fresh \ (IF full THEN OldestAlike(fresh, e) ELSE {}))
           fits == Backlog(controlBytes, pendingRender, efs, pendingBells, act) + EffectBytes
                       <= MaxPending
       IN  /\ active' = act
           /\ \/ /\ ~fits
                 /\ pendingEffects' = efs
                 /\ UNCHANGED pendingAge
              \/ /\ fits
                 /\ \E s \in EffectSlots :
                       /\ IsNextSlot(efs, s)
                       /\ pendingEffects' =
                             [i \in DOMAIN efs \cup {s} |-> IF i = s THEN e ELSE efs[i]]
                 /\ pendingAge' = NotePending(pendingAge)
    /\ UNCHANGED <<supported, controlBytes, pendingRender, pendingBells, awaits, flushRequired,
                   waiting, holds, nextGen, broken, drain, history>>

EnqueueBell(count) ==
    /\ Resting
    /\ \E retained \in 1 .. count :
          /\ retained = Min({count, MaxPending - PendingBytes})
          /\ pendingBells' = pendingBells + retained
    /\ pendingAge' = NotePending(pendingAge)
    /\ UNCHANGED <<supported, controlBytes, pendingRender, pendingEffects, active, awaits,
                   flushRequired, waiting, holds, nextGen, broken, drain, history>>

-----------------------------------------------------------------------------
(* Other calls between drains *)

SetSynchronizedOutputSupported(b) ==
    /\ Resting
    /\ supported' = b
    /\ supported # b
    /\ pendingRender' =
          IF pendingRender = NoRender THEN NoRender
          ELSE [pendingRender EXCEPT !.bytes =
                  IF b THEN @ + Wrapper ELSE IF @ >= Wrapper THEN @ - Wrapper ELSE 0]
    /\ UNCHANGED <<controlBytes, pendingEffects, pendingBells, pendingAge, active, awaits,
                   flushRequired, waiting, holds, nextGen, broken, drain, history>>

\* observe_application_synchronization(synchronized, opened, activity)
SynchronizationOpen(opened, activity) ==
    /\ Resting
    /\ LET reopened == sync.mode = "Ignoring" /\ opened
       IN  /\ sync' = IF sync.mode = "None" \/ reopened THEN NewSync
                      ELSE IF sync.mode = "Active" /\ activity THEN [sync EXCEPT !.idle = 0]
                      ELSE sync
           /\ releaseGen' = IF reopened THEN NoGen ELSE releaseGen
    /\ UNCHANGED <<supported, queued, awaits, flushRequired, waiting, bypassNext, bypassGen,
                   nextGen, broken, drain, history>>

SynchronizationClosed ==
    /\ Resting
    /\ sync' = NoSync
    /\ bypassNext' = FALSE
    /\ releaseGen' = NoGen
    /\ UNCHANGED <<supported, queued, awaits, flushRequired, waiting, bypassGen, nextGen,
                   broken, drain, history>>

SetApplicationSynchronizationBypassed(b) ==
    /\ Resting
    /\ bypassNext' = (b /\ sync.mode # "None")
    /\ UNCHANGED <<supported, queued, awaits, flushRequired, waiting, sync, bypassGen,
                   releaseGen, nextGen, broken, drain, history>>

PrepareForLifecycleCleanup ==
    /\ Resting
    /\ controlBytes' = 0
    /\ pendingRender' = NoRender
    /\ pendingEffects' = EmptyQueue
    /\ pendingBells' = 0
    /\ active' = Restrict(active, {i \in DOMAIN active : Started(active, i)})
    /\ awaitRenders' = <<>>
    /\ sync' = NoSync
    /\ bypassNext' = FALSE
    /\ bypassGen' = NoGen
    /\ releaseGen' = NoGen
    /\ pendingAge' = IF DOMAIN active' = {} /\ awaitEffects = 0 THEN NoAge ELSE pendingAge
    /\ UNCHANGED <<supported, awaitEffects, flushRequired, waiting, nextGen, broken, drain,
                   history>>

NotifyWritable ==
    /\ Resting
    /\ waiting
    /\ waiting' = FALSE
    /\ UNCHANGED <<supported, queued, awaits, flushRequired, holds, nextGen, broken, drain,
                   history>>

\* Mutant: recovery starts the generations again from one.
RecoverFresh ==
    /\ Resting
    /\ broken
    /\ broken' = FALSE
    /\ waiting' = FALSE
    /\ nextGen' = 1
    /\ UNCHANGED <<supported, queued, awaits, flushRequired, holds, drain, history>>
Recover ==
    /\ Resting
    /\ broken
    /\ broken' = FALSE
    /\ waiting' = FALSE
    /\ UNCHANGED <<supported, queued, awaits, flushRequired, holds, nextGen, drain, history>>

\* One tick of the clock: every age grows until its timeout has passed.
Tick ==
    /\ Resting
    /\ pendingAge' = IF pendingAge = NoAge THEN NoAge ELSE Older(pendingAge, Latency)
    /\ sync' = IF sync.mode = "Active"
               THEN [sync EXCEPT !.idle = Older(@, IdleTimeout),
                                 !.started = Older(@, HardTimeout)]
               ELSE sync
    /\ <<pendingAge', sync'>> # <<pendingAge, sync>>
    /\ UNCHANGED <<supported, controlBytes, pendingRender, pendingEffects, pendingBells, active,
                   awaits, flushRequired, waiting, bypassNext, bypassGen, releaseGen, nextGen,
                   broken, drain, history>>

-----------------------------------------------------------------------------
(***************************************************************************)
(* drain_ready.  Phases: "flushFirst" (a flush is owed from an earlier     *)
(* call), "hold" (synchronization hold and latency), "write" (the write    *)
(* loop), "finish" (transactions that ended exactly on the budget),        *)
(* "flush".  Interrupted writes and flushes are retried by the code and    *)
(* leave no trace.                                                         *)
(***************************************************************************)
InPhase(p) == drain.phase = p
Goto(p) == drain' = [drain EXCEPT !.phase = p]
GotoWithProgress(p) == drain' = [drain EXCEPT !.phase = p, !.progress = TRUE]
Return == drain' = Idle

DrainCall(force) ==
    /\ Resting
    /\ ~broken
    /\ ~waiting \/ force
    /\ waiting' = FALSE
    /\ drain' = [Idle EXCEPT !.phase = IF flushRequired THEN "flushFirst" ELSE "hold",
                             !.force = force]
    /\ UNCHANGED <<supported, queued, awaits, flushRequired, holds, nextGen, broken, history>>

\* fail: every queue and every hold is abandoned; the caller must rebuild.
Fail ==
    /\ active' = EmptyQueue
    /\ awaitRenders' = <<>>
    /\ awaitEffects' = 0
    /\ flushRequired' = FALSE
    /\ waiting' = FALSE
    /\ controlBytes' = 0
    /\ pendingRender' = NoRender
    /\ pendingEffects' = EmptyQueue
    /\ pendingBells' = 0
    /\ pendingAge' = NoAge
    /\ sync' = NoSync
    /\ bypassNext' = FALSE
    /\ bypassGen' = NoGen
    /\ releaseGen' = NoGen
    /\ broken' = TRUE
    /\ wire' = NoWire
    /\ unflushed' = {}
    /\ Return
    /\ UNCHANGED <<supported, nextGen, presented>>

\* WouldBlock from a write or a flush.
Block ==
    /\ waiting' = TRUE
    /\ Return
    /\ UNCHANGED <<supported, queued, awaits, flushRequired, holds, nextGen, broken, history>>

\* complete_awaiting_renders: receipts are reported in write order; a receipt
\* that ends a hold clears it.
CompleteAwaiting ==
    /\ presented' = IF awaitRenders = <<>> THEN presented ELSE awaitRenders[Len(awaitRenders)]
    /\ releaseGen' = IF releaseGen \in AwaitGens THEN NoGen ELSE releaseGen
    /\ bypassGen' = IF bypassGen \in AwaitGens THEN NoGen ELSE bypassGen
    /\ awaitRenders' = <<>>
    /\ awaitEffects' = 0

FlushOk ==
    /\ InPhase("flushFirst") \/ InPhase("flush")
    /\ flushRequired' = FALSE
    /\ unflushed' = {}
    /\ CompleteAwaiting
    /\ IF InPhase("flushFirst") THEN GotoWithProgress("hold") ELSE Return
    /\ UNCHANGED <<supported, queued, waiting, sync, bypassNext, nextGen, broken, wire>>

\* Mutant: a flush that would block counts as a completed one.
FlushBlockedReported ==
    /\ InPhase("flushFirst") \/ InPhase("flush")
    /\ CompleteAwaiting
    /\ waiting' = TRUE
    /\ Return
    /\ UNCHANGED <<supported, queued, flushRequired, sync, bypassNext, nextGen, broken, wire,
                   unflushed>>
FlushBlocked == (InPhase("flushFirst") \/ InPhase("flush")) /\ Block
FlushFailed == (InPhase("flushFirst") \/ InPhase("flush")) /\ Fail

\* An open application transaction keeps everything that has not started.
Held == sync.mode = "Active" /\ ~drain.force /\ ~TimedOut /\ bypassGen = NoGen
Expired == sync.mode = "Active" /\ TimedOut
\* The newest render owed when a hold times out: its receipt reports it.
BoundaryOnTimeout ==
    IF pendingRender # NoRender THEN pendingRender.gen
    ELSE IF RenderSlot \in DOMAIN active THEN active[RenderSlot].gen
    ELSE IF awaitRenders # <<>> THEN awaitRenders[Len(awaitRenders)]
    ELSE NoGen
\* Mutant: the expired transaction is not marked as ignored.
ExpireWithoutIgnoring ==
    /\ sync' = sync
    /\ releaseGen' = IF Expired THEN BoundaryOnTimeout ELSE releaseGen
ExpireHold ==
    /\ sync' = IF Expired THEN IgnoredSync ELSE sync
    /\ releaseGen' = IF Expired THEN BoundaryOnTimeout ELSE releaseGen
TooYoung ==
    ~drain.force /\ DOMAIN active = {} /\ pendingAge # NoAge /\ pendingAge < Latency

DrainHeld ==
    /\ InPhase("hold")
    /\ Held
    /\ ~FrontStarted
    /\ Return
    /\ UNCHANGED <<supported, queued, awaits, flushRequired, waiting, holds, nextGen, broken,
                   history>>

DrainTooYoung ==
    /\ InPhase("hold")
    /\ ~Held \/ FrontStarted
    /\ ExpireHold
    /\ TooYoung
    /\ Return
    /\ UNCHANGED <<supported, queued, awaits, flushRequired, waiting, bypassNext, bypassGen,
                   nextGen, broken, history>>

\* activate_pending: control, effects, the render, then the bells.
PendingSlots ==
    (IF controlBytes > 0 THEN {ControlSlot} ELSE {}) \cup DOMAIN pendingEffects
        \cup (IF pendingRender # NoRender THEN {RenderSlot} ELSE {})
        \cup (IF pendingBells > 0 THEN {BellSlot} ELSE {})
Activated(i) ==
    IF i = ControlSlot THEN Tx(controlBytes, NoGen, NoEffect)
    ELSE IF i \in EffectSlots THEN Tx(EncodedBytes(pendingEffects[i]), NoGen, pendingEffects[i])
    ELSE IF i = RenderSlot THEN Tx(pendingRender.bytes, pendingRender.gen, NoEffect)
    ELSE Tx(pendingBells, NoGen, NoEffect)

DrainActivate ==
    /\ InPhase("hold")
    /\ ~Held \/ FrontStarted
    /\ ExpireHold
    /\ ~TooYoung
    /\ IF DOMAIN active = {}
       THEN /\ active' = [i \in PendingSlots |-> Activated(i)]
            /\ controlBytes' = 0
            /\ pendingRender' = NoRender
            /\ pendingEffects' = EmptyQueue
            /\ pendingBells' = 0
            /\ pendingAge' = NoAge
       ELSE UNCHANGED queued
    /\ drain' = [drain EXCEPT !.phase = "write", !.finishOnly = Held,
                              !.progress = @ \/ Expired]
    /\ UNCHANGED <<supported, awaits, flushRequired, waiting, bypassNext, bypassGen, nextGen,
                   broken, history>>

\* The transaction the write loop looks at next.
Writable(i) ==
    /\ InPhase("write")
    /\ IsFront(active, i)
    /\ drain.written < WriteBudget
    /\ ~(drain.finishOnly /\ active[i].off = 0)

\* A fully written transaction leaves the queue and waits for its flush.
Pop(i) ==
    /\ active' = Restrict(active, DOMAIN active \ {i})
    /\ awaitRenders' = IF active[i].gen = NoGen THEN awaitRenders
                       ELSE Append(awaitRenders, active[i].gen)
    /\ awaitEffects' = awaitEffects + (IF active[i].fx = NoEffect THEN 0 ELSE 1)
    /\ UNCHANGED <<supported, pendings, flushRequired, waiting, holds, nextGen, broken, history>>
\* Mutant: the drain goes on after the render that bypasses the hold.
NeverEndsBypass(i) == FALSE
EndsBypass(i) == active[i].gen # NoGen /\ active[i].gen = bypassGen

WriteSome(i, n) ==
    /\ Writable(i)
    /\ n \in 1 .. active[i].len - active[i].off
    /\ n <= WriteBudget - drain.written
    /\ active' = [active EXCEPT ![i].off = @ + n]
    /\ flushRequired' = TRUE
    /\ drain' = [drain EXCEPT !.written = @ + n, !.progress = TRUE]
    /\ LET left == active[i].len - active[i].off - n
       IN  wire' = IF left = 0 THEN NoWire
                   ELSE [slot |-> i, gen |-> active[i].gen, left |-> left]
    /\ unflushed' = unflushed \cup ({active[i].gen} \ {NoGen})
    /\ UNCHANGED <<supported, pendings, awaits, waiting, holds, nextGen, broken, presented>>

WritePop(i) ==
    /\ Writable(i)
    /\ active[i].off = active[i].len
    /\ Pop(i)
    /\ drain' = [drain EXCEPT !.phase = IF EndsBypass(i) THEN "finish" ELSE "write",
                              !.reached = EndsBypass(i), !.progress = TRUE]

WriteBlocked(i) == Writable(i) /\ active[i].off < active[i].len /\ Block
WriteFailed(i) == Writable(i) /\ active[i].off < active[i].len /\ Fail

WriteDone ==
    /\ InPhase("write")
    /\ ~\E i \in DOMAIN active : Writable(i)
    /\ Goto("finish")
    /\ UNCHANGED <<supported, queued, awaits, flushRequired, waiting, holds, nextGen, broken,
                   history>>

Finishable(i) ==
    /\ InPhase("finish")
    /\ ~drain.reached
    /\ IsFront(active, i)
    /\ active[i].off = active[i].len

FinishPop(i) ==
    /\ Finishable(i)
    /\ Pop(i)
    /\ drain' = [drain EXCEPT !.reached = EndsBypass(i), !.progress = TRUE]

FinishToFlush ==
    /\ InPhase("finish")
    /\ ~\E i \in DOMAIN active : Finishable(i)
    /\ flushRequired
    /\ Goto("flush")
    /\ UNCHANGED <<supported, queued, awaits, flushRequired, waiting, holds, nextGen, broken,
                   history>>

\* Nothing was written since the last flush: receipts need no further flush.
FinishUnflushed ==
    /\ InPhase("finish")
    /\ ~\E i \in DOMAIN active : Finishable(i)
    /\ ~flushRequired
    /\ CompleteAwaiting
    /\ Return
    /\ UNCHANGED <<supported, queued, flushRequired, waiting, sync, bypassNext, nextGen, broken,
                   wire, unflushed>>

-----------------------------------------------------------------------------
Enqueue ==
    \/ \E n \in ControlSizes : EnqueueBytes(n)
    \/ \E n \in RenderSizes : EnqueueRender(n) \/ DropRender(n)
    \/ \E e \in Effect : EnqueueTerminalEffect(e)
    \/ \E n \in BellCounts : EnqueueBell(n)

Control ==
    \/ \E b \in Support : SetSynchronizedOutputSupported(b)
    \/ \E opened \in Opens, activity \in BOOLEAN : SynchronizationOpen(opened, activity)
    \/ SynchronizationClosed
    \/ \E b \in BOOLEAN : SetApplicationSynchronizationBypassed(b)
    \/ PrepareForLifecycleCleanup
    \/ NotifyWritable
    \/ Recover

DrainStep ==
    \/ FlushOk
    \/ FlushBlocked
    \/ FlushFailed
    \/ DrainHeld
    \/ DrainTooYoung
    \/ DrainActivate
    \/ \E i \in DOMAIN active :
          \/ \E n \in 1 .. WriteBudget : WriteSome(i, n)
          \/ WritePop(i)
          \/ WriteBlocked(i)
          \/ WriteFailed(i)
          \/ FinishPop(i)
    \/ WriteDone
    \/ FinishToFlush
    \/ FinishUnflushed

Next ==
    \/ Enqueue
    \/ Control
    \/ Tick
    \/ \E force \in BOOLEAN : DrainCall(force)
    \/ DrainStep

Spec == Init /\ [][Next]_vars

\* Every turn of the event loop ends in drain_scheduled_output(false), and poll
\* wakes it no later than next_deadline_ms, so output that is due again and
\* again is drained between two observations of the application (strong
\* fairness); the loop re-arms after stdout becomes writable; a terminal that
\* is read eventually accepts a write or a flush; drain_ready never stops half
\* way.
Fairness ==
    /\ SF_vars(Tick)
    /\ SF_vars(NotifyWritable)
    /\ SF_vars(DrainCall(FALSE) /\ NextDelay = 0)
    /\ WF_vars(DrainStep)
    /\ SF_vars(FlushOk)
    /\ SF_vars(\E i \in DOMAIN active, n \in 1 .. WriteBudget : WriteSome(i, n))

FairSpec == Spec /\ Fairness

-----------------------------------------------------------------------------
(* Properties *)

\* The shape of the scheduler's fields (struct OutputScheduler) and of the
\* history variables.
TypeOK ==
    /\ supported \in BOOLEAN
    /\ controlBytes \in Nat
    /\ pendingRender \in Render \cup {NoRender}
    /\ IsQueue(pendingEffects, EffectSlots, Effect)
    /\ pendingBells \in Nat
    /\ pendingAge \in {NoAge} \cup 0 .. Latency
    /\ IsQueue(active, Slots, Transaction)
    /\ awaitRenders \in Seq(Nat \ {NoGen})
    /\ awaitEffects \in Nat
    /\ flushRequired \in BOOLEAN
    /\ waiting \in BOOLEAN
    /\ sync \in SyncState
    /\ bypassNext \in BOOLEAN
    /\ bypassGen \in Nat
    /\ releaseGen \in Nat
    /\ nextGen \in Nat \ {NoGen}
    /\ broken \in BOOLEAN
    /\ drain \in DrainState
    /\ wire \in WireState
    /\ unflushed \in SUBSET (Nat \ {NoGen})
    /\ presented \in Nat

\* A generation that ends a hold (the compositor's bypass render, or the render
\* released by a timeout) is always one the scheduler still owes a receipt for.
\* Replacement, capacity eviction, cleanup and failure never leave the hold
\* waiting for a frame that no longer exists: a dangling bypass would disable
\* the application's hold for good.
NoDanglingBoundary ==
    /\ bypassGen # NoGen => bypassGen \in RetainedGens
    /\ releaseGen # NoGen => releaseGen \in RetainedGens

\* A frame is replaced as long as it has not started, in whichever of the two
\* places it waits, so there is never a choice between two unstarted frames.
OneUnstartedRender == pendingRender # NoRender => ~UnstartedRender

\* "Once a transaction has started it is never interleaved with another": when
\* the byte stream is in the middle of a transaction, that transaction is at
\* the front of the queue with exactly its missing bytes left, whatever was
\* enqueued, evicted or cleaned up in between.
NoTornTransaction ==
    /\ wire # NoWire =>
         /\ IsFront(active, wire.slot)
         /\ active[wire.slot].gen = wire.gen
         /\ active[wire.slot].len - active[wire.slot].off = wire.left
    /\ \A i \in DOMAIN active : active[i].off \in 1 .. active[i].len - 1 => wire.slot = i

\* Frames keep their order from acceptance to receipt: everything awaiting a
\* flush is older than what is being written, which is older than what is
\* pending, and all of it is newer than the last frame reported.
GenerationOrder ==
    /\ \A i, j \in DOMAIN awaitRenders : i < j => awaitRenders[i] < awaitRenders[j]
    /\ \A g \in AwaitGens : presented < g /\ \A h \in ActiveGens \cup PendingGens : g < h
    /\ \A g \in ActiveGens : presented < g /\ \A h \in PendingGens : g < h
    /\ \A g \in RetainedGens \cup {presented} : g < nextGen

\* A receipt (which makes a frame readable to the user) is given only for a
\* frame all of whose bytes were written and then flushed.
ReceiptMeansFlushed ==
    presented # NoGen => presented \notin unflushed \cup RetainedGens

\* Receipts never go back to an older frame.
ReceiptsInOrder == [][presented' = presented \/ presented' > presented]_vars

\* While an application holds the screen, a drain that is not forced starts a
\* transaction only on the way to the compositor frame that bypasses the hold:
\* nothing queued behind that frame slips through with it.
HoldRespected ==
    [][\A i \in DOMAIN active \cap DOMAIN active' :
          (/\ ~Started(active, i) /\ Started(active', i)
           /\ sync.mode = "Active" /\ ~drain.force) =>
          \/ bypassGen \in PendingGens
          \/ \E j \in DOMAIN active : j >= i /\ active[j].gen = bypassGen /\ bypassGen # NoGen]_vars

\* The event loop sleeps until next_deadline_ms: as long as something is queued
\* or a receipt is owed and the terminal is not known to be full, there is one.
NoLostWakeup ==
    (Resting /\ ~waiting
        /\ (HasPending \/ DOMAIN active # {} \/ flushRequired \/ awaitRenders # <<>>))
    => NextDelay # NoDeadline

\* ... and the loop does not spin: a drain that changed nothing leaves no
\* deadline that has already passed.
NoBusySpin ==
    [][(/\ ~Resting /\ Resting' /\ ~drain.force /\ ~drain.progress
        /\ UNCHANGED <<queued, awaits, flushRequired, waiting, holds>>)
       => NextDelay' # 0]_vars

\* Retained output stays within its two limits.  A frame accepted before the
\* terminal confirmed DEC 2026 support grows by its wrapper afterwards.
BoundedBacklog ==
    /\ PendingBytes <= MaxPending + Wrapper
    /\ ControlBacklog <= ControlLimit

\* The scheduler keeps the contract it has with the renderer: seen as frames,
\* every step is one of FrameQueue's or changes no frame.
CurrentGen == IF RenderSlot \in DOMAIN active THEN active[RenderSlot].gen ELSE NoGen
FrameBegun == RenderSlot \in DOMAIN active /\ Started(active, RenderSlot)
Frames == INSTANCE FrameQueue WITH
    next <- nextGen, waiting <- pendingRender.gen, current <- CurrentGen,
    begun <- FrameBegun, owed <- awaitRenders, reported <- presented
ImplementsFrameQueue == Frames!Spec

\* Every accepted frame is written and reported, or gives way to a newer one,
\* even if the application never closes its synchronized output; only a failed
\* writer, which stops all output until the caller recovers, ends this.
RendersSettle ==
    \A g \in 1 .. MaxGen : (g \in RetainedGens) ~> (g \notin RetainedGens \/ broken)

\* A hold always ends: by the close, or by the idle or the hard timeout.
HoldsEnd == (sync.mode = "Active") ~> (sync.mode # "Active" \/ broken)

-----------------------------------------------------------------------------
(* The properties as the runs check them, one name for one question. *)

\* The scheduler's fields have their shape, and what ends a hold is a frame it
\* still owes; there is at most one frame that has not started.
SchedulerShape == TypeOK /\ NoDanglingBoundary /\ OneUnstartedRender

\* A receipt is true, and frames keep their order from acceptance to receipt.
ReceiptsExact == GenerationOrder /\ ReceiptMeansFlushed

\* What is queued is bounded, and the event loop is woken for it.
BacklogServed == NoLostWakeup /\ BoundedBacklog

\* What a drain may never do: start what an application holds back, or leave
\* the loop with a deadline that has passed and nothing to do.
DrainSteps == HoldRespected /\ NoBusySpin

\* Nothing accepted is kept for ever: frames settle and holds end.
SchedulerProgress == RendersSettle /\ HoldsEnd

\* What the module comment promises of bells ("control transactions and bells
\* are retained", and what enqueue_bytes discards "can be regenerated from the
\* authoritative scene"): a queued bell leaves the queue only by being written,
\* by a lifecycle cleanup, or when output has failed.
QueuedBells ==
    pendingBells + (IF BellSlot \in DOMAIN active THEN active[BellSlot].len ELSE 0)
BellsRetained ==
    [][\/ QueuedBells' >= QueuedBells
       \/ DrainStep
       \/ PrepareForLifecycleCleanup]_vars
=============================================================================
