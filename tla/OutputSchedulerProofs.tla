----------------------- MODULE OutputSchedulerProofs -----------------------
(***************************************************************************)
(* The scheduler implements FrameQueue, and what follows for its frames.   *)
(*                                                                         *)
(* The step from the code's two queues to the contract needs one           *)
(* invariant, that the render slot and no other holds a frame.  The order  *)
(* of frames is then an argument about the contract's eight operations.    *)
(*                                                                         *)
(* The second half is what the scheduler owes the event loop: a drain that *)
(* starts nothing an application holds back, a deadline whenever there is  *)
(* work, none that has passed when there is none, and a bounded backlog.   *)
(***************************************************************************)
EXTENDS OutputScheduler, FiniteSums, TLAPS

-----------------------------------------------------------------------------
(* Facts about the operators the actions are built from. *)

\* Removing entries from a queue leaves a queue.
LEMMA RestrictQueue ==
    ASSUME NEW q, NEW S, NEW T, NEW D, IsQueue(q, S, T), D \subseteq DOMAIN q
    PROVE  /\ IsQueue(Restrict(q, D), S, T)
           /\ DOMAIN Restrict(q, D) = D
           /\ \A i \in D : Restrict(q, D)[i] = q[i]
  BY DEF IsQueue, Restrict

\* The empty queue is a queue of anything.
LEMMA EmptyIsQueue ==
    ASSUME NEW S, NEW T
    PROVE  IsQueue(EmptyQueue, S, T) /\ DOMAIN EmptyQueue = {}
  BY DEF IsQueue, EmptyQueue

\* Activation turns every pending entry into a transaction of its own slot.
LEMMA ActivatedType ==
    ASSUME TypeOK, NEW i \in PendingSlots
    PROVE  /\ i \in Slots
           /\ Activated(i) \in Transaction
           /\ Activated(i).off = 0
           /\ i = RenderSlot => pendingRender # NoRender /\ Activated(i).gen = pendingRender.gen
           /\ i # RenderSlot => Activated(i).gen = NoGen
  <1>1. MaxEffects \in Nat /\ EffectBytes \in Nat
    BY InputAssumption, SizeAssumption
  <1>2. DOMAIN pendingEffects \subseteq EffectSlots
    BY DEF TypeOK, IsQueue
  <1>3. CASE i = ControlSlot
    <2>1. Activated(i) = Tx(controlBytes, NoGen, NoEffect)
      BY <1>3 DEF Activated
    <2> QED
      BY <1>1, <1>3, <2>1 DEF TypeOK, ControlSlot, RenderSlot, Slots, BellSlot, Tx, Transaction, NoGen
  <1>4. CASE i \in DOMAIN pendingEffects
    <2>1. i \in EffectSlots /\ i # ControlSlot /\ i # RenderSlot /\ i # BellSlot /\ i \in Slots
      BY <1>1, <1>2, <1>4 DEF EffectSlots, ControlSlot, RenderSlot, BellSlot, Slots
    <2>2. Activated(i) = Tx(EncodedBytes(pendingEffects[i]), NoGen, pendingEffects[i])
      BY <2>1 DEF Activated
    <2>3. pendingEffects[i] \in Effect
      BY <1>4 DEF TypeOK, IsQueue
    <2>4. EncodedBytes(pendingEffects[i]) \in Nat
      BY <1>1 DEF EncodedBytes
    <2> QED
      BY <2>1, <2>2, <2>3, <2>4 DEF Tx, Transaction, NoGen
  <1>5. CASE i = RenderSlot /\ pendingRender # NoRender
    <2>1. i # ControlSlot /\ i \notin EffectSlots /\ i \in Slots
      BY <1>1, <1>5 DEF EffectSlots, ControlSlot, RenderSlot, BellSlot, Slots
    <2>2. Activated(i) = Tx(pendingRender.bytes, pendingRender.gen, NoEffect)
      BY <1>5, <2>1 DEF Activated
    <2>3. pendingRender.bytes \in Nat /\ pendingRender.gen \in Nat
      BY <1>5 DEF TypeOK, Render
    <2> QED
      BY <1>5, <2>1, <2>2, <2>3 DEF Tx, Transaction
  <1>6. CASE i = BellSlot
    <2>1. i # ControlSlot /\ i \notin EffectSlots /\ i # RenderSlot /\ i \in Slots
      BY <1>1, <1>6 DEF EffectSlots, ControlSlot, RenderSlot, BellSlot, Slots
    <2>2. Activated(i) = Tx(pendingBells, NoGen, NoEffect)
      BY <1>6, <2>1 DEF Activated
    <2> QED
      BY <2>1, <2>2 DEF Tx, Transaction, TypeOK, NoGen
  <1> QED
    BY <1>3, <1>4, <1>5, <1>6 DEF PendingSlots

-----------------------------------------------------------------------------
(* Type correctness *)

\* The scheduler starts with fields of their types.
LEMMA TypeInit == Init => TypeOK
  <1> SUFFICES ASSUME Init PROVE TypeOK
    OBVIOUS
  <1>1. supported \in BOOLEAN
    BY InputAssumption DEF Init
  <1>2. IsQueue(pendingEffects, EffectSlots, Effect) /\ IsQueue(active, Slots, Transaction)
    BY EmptyIsQueue DEF Init
  <1>3. awaitRenders \in Seq(Nat \ {NoGen}) /\ unflushed \in SUBSET (Nat \ {NoGen})
    BY DEF Init
  <1>4. sync \in SyncState
    BY TimingAssumption DEF Init, NoSync, SyncState
  <1>5. drain \in DrainState
    BY DEF Init, Idle, DrainState
  <1>6. wire \in WireState
    BY DEF Init, NoWire, NoGen, WireState
  <1>7. /\ controlBytes \in Nat /\ pendingBells \in Nat /\ awaitEffects \in Nat
        /\ bypassGen \in Nat /\ releaseGen \in Nat /\ presented \in Nat
        /\ nextGen \in Nat \ {NoGen}
    BY DEF Init, NoGen
  <1> QED
    BY <1>1, <1>2, <1>3, <1>4, <1>5, <1>6, <1>7 DEF Init, TypeOK

\* Enqueueing bytes, frames, effects and bells keeps the types.
LEMMA TypeEnqueue ==
    ASSUME TypeOK, Enqueue
    PROVE  TypeOK'
  <1> USE DEF Resting
  <1>1. ASSUME NEW n \in ControlSizes, EnqueueBytes(n)
        PROVE  TypeOK'
    <2>1. n \in Nat
      BY InputAssumption
    <2>2. IsQueue(active', Slots, Transaction)
      <3>1. IsQueue(KeptActive, Slots, Transaction)
        BY RestrictQueue DEF TypeOK, KeptActive
      <3> QED
        BY <1>1, <3>1 DEF EnqueueBytes, TypeOK
    <2>3. IsQueue(pendingEffects', EffectSlots, Effect)
      BY <1>1, EmptyIsQueue DEF EnqueueBytes, TypeOK
    <2>4. pendingRender' \in Render \cup {NoRender}
      BY <1>1 DEF EnqueueBytes, TypeOK, KeptRender
    <2>5. pendingAge' \in {NoAge} \cup 0 .. Latency
      BY <1>1, TimingAssumption DEF EnqueueBytes, TypeOK, NotePending
    <2> QED
      BY <1>1, <2>1, <2>2, <2>3, <2>4, <2>5
      DEF EnqueueBytes, TypeOK, awaits, holds, history
  <1>2. ASSUME NEW n \in RenderSizes, EnqueueRender(n)
        PROVE  TypeOK'
    <2>1. FrameBytes(n) \in Nat /\ nextGen \in Nat \ {NoGen} /\ nextGen + 1 \in Nat \ {NoGen}
      BY InputAssumption, SizeAssumption DEF FrameBytes, TypeOK, NoGen
    <2>2. IsQueue(active', Slots, Transaction)
      BY <1>2, RestrictQueue DEF EnqueueRender, WithoutReplaced, TypeOK
    <2>3. pendingBells' \in Nat
      BY <1>2 DEF EnqueueRender, TypeOK, ReturnedBells, IsQueue, Transaction
    <2>4. pendingAge' \in {NoAge} \cup 0 .. Latency
      BY <1>2, TimingAssumption DEF EnqueueRender, TypeOK, NotePending
    <2>5. pendingRender' \in Render \cup {NoRender}
      BY <1>2, <2>1 DEF EnqueueRender, Render
    <2>6. bypassGen' \in Nat /\ releaseGen' \in Nat /\ nextGen' \in Nat \ {NoGen}
      BY <1>2, <2>1 DEF EnqueueRender, TypeOK
    <2>7. /\ UNCHANGED <<supported, controlBytes, pendingEffects, awaitRenders, awaitEffects,
                         flushRequired, waiting, sync, broken, drain, wire, unflushed, presented>>
          /\ bypassNext' \in BOOLEAN
      BY <1>2 DEF EnqueueRender, awaits, history
    <2> QED
      BY <2>2, <2>3, <2>4, <2>5, <2>6, <2>7 DEF TypeOK
  <1>3. ASSUME NEW n \in RenderSizes, DropRender(n)
        PROVE  TypeOK'
    <2>1. /\ UNCHANGED <<supported, queued, awaits, flushRequired, waiting, sync, bypassGen,
                         releaseGen, nextGen, broken, drain, history>>
          /\ bypassNext' \in BOOLEAN
      BY <1>3 DEF DropRender
    <2> QED
      BY <2>1 DEF TypeOK, queued, pendings, awaits, history
  <1>4. ASSUME NEW e \in Effect, EnqueueTerminalEffect(e)
        PROVE  TypeOK'
    <2> DEFINE act == Restrict(active, DOMAIN active \ SupersededActive(e))
               fresh == Restrict(pendingEffects, DOMAIN pendingEffects \ SupersededPending(e))
               full == (RetainedEffects(fresh, act) + 1) * EffectBytes > MaxPending
               efs == Restrict(fresh, DOMAIN fresh \ (IF full THEN OldestAlike(fresh, e) ELSE {}))
    <2>1. IsQueue(act, Slots, Transaction)
      BY RestrictQueue DEF TypeOK
    <2>2. IsQueue(fresh, EffectSlots, Effect)
      BY RestrictQueue DEF TypeOK
    <2> HIDE DEF fresh, act
    <2>3. IsQueue(efs, EffectSlots, Effect)
      BY <2>2, RestrictQueue, DOMAIN fresh \ (IF full THEN OldestAlike(fresh, e) ELSE {}) \subseteq DOMAIN fresh
    <2> HIDE DEF efs
    <2>4. active' = act
      BY <1>4 DEF EnqueueTerminalEffect, act
    <2>5. IsQueue(pendingEffects', EffectSlots, Effect) /\ pendingAge' \in {NoAge} \cup 0 .. Latency
      <3>1. \/ pendingEffects' = efs /\ pendingAge' = pendingAge
            \/ /\ \E s \in EffectSlots : pendingEffects' =
                             [i \in DOMAIN efs \cup {s} |-> IF i = s THEN e ELSE efs[i]]
               /\ pendingAge' = NotePending(pendingAge)
        BY <1>4 DEF EnqueueTerminalEffect, efs, fresh, act
      <3>2. pendingAge' \in {NoAge} \cup 0 .. Latency
        BY <3>1, TimingAssumption DEF NotePending, TypeOK
      <3>3. IsQueue(pendingEffects', EffectSlots, Effect)
        BY <2>3, <3>1 DEF IsQueue
      <3> QED
        BY <3>2, <3>3
    <2> QED
      BY <1>4, <2>1, <2>4, <2>5 DEF EnqueueTerminalEffect, TypeOK, awaits, holds, history
  <1>5. ASSUME NEW n \in BellCounts, EnqueueBell(n)
        PROVE  TypeOK'
    <2>1. n \in Nat
      BY InputAssumption
    <2>2. pendingBells' \in Nat
      BY <1>5, <2>1 DEF EnqueueBell, TypeOK
    <2>3. pendingAge' \in {NoAge} \cup 0 .. Latency
      BY <1>5, TimingAssumption DEF EnqueueBell, TypeOK, NotePending
    <2> QED
      BY <1>5, <2>2, <2>3 DEF EnqueueBell, TypeOK, awaits, holds, history
  <1> QED
    BY <1>1, <1>2, <1>3, <1>4, <1>5 DEF Enqueue

\* Synchronization, cleanup and recovery keep the types.
LEMMA TypeControl ==
    ASSUME TypeOK, Control
    PROVE  TypeOK'
  <1>1. ASSUME NEW b \in Support, SetSynchronizedOutputSupported(b)
        PROVE  TypeOK'
    <2>1. b \in BOOLEAN /\ Wrapper \in Nat
      BY InputAssumption, SizeAssumption
    <2>2. pendingRender' \in Render \cup {NoRender}
      BY <1>1, <2>1 DEF SetSynchronizedOutputSupported, TypeOK, Render
    <2>3. /\ UNCHANGED <<controlBytes, pendingEffects, pendingBells, pendingAge, active, awaits,
                         flushRequired, waiting, holds, nextGen, broken, drain, history>>
          /\ supported' = b
      BY <1>1 DEF SetSynchronizedOutputSupported
    <2> QED
      BY <2>1, <2>2, <2>3 DEF TypeOK, awaits, holds, history
  <1>2. ASSUME NEW opened \in Opens, NEW activity \in BOOLEAN, SynchronizationOpen(opened, activity)
        PROVE  TypeOK'
    <2>1. sync' \in SyncState
      <3>1. NewSync \in SyncState /\ sync \in SyncState
        BY TimingAssumption DEF NewSync, SyncState, TypeOK
      <3>2. [sync EXCEPT !.idle = 0] \in SyncState
        BY <3>1, TimingAssumption DEF SyncState
      <3> QED
        BY <1>2, <3>1, <3>2 DEF SynchronizationOpen
    <2>2. releaseGen' \in Nat
      BY <1>2 DEF SynchronizationOpen, TypeOK, NoGen
    <2>3. UNCHANGED <<supported, queued, awaits, flushRequired, waiting, bypassNext, bypassGen,
                      nextGen, broken, drain, history>>
      BY <1>2 DEF SynchronizationOpen
    <2> QED
      BY <2>1, <2>2, <2>3 DEF TypeOK, queued, pendings, awaits, history
  <1>3. CASE SynchronizationClosed
    <2>1. /\ UNCHANGED <<supported, queued, awaits, flushRequired, waiting, bypassGen,
                         nextGen, broken, drain, history>>
          /\ sync' = NoSync /\ bypassNext' = FALSE /\ releaseGen' = NoGen
      BY <1>3 DEF SynchronizationClosed
    <2>2. NoSync \in SyncState
      BY TimingAssumption DEF NoSync, SyncState
    <2>3. NoGen \in Nat
      BY DEF NoGen
    <2> QED
      BY <2>1, <2>2, <2>3 DEF TypeOK, queued, pendings, awaits, history
  <1>4. ASSUME NEW b \in BOOLEAN, SetApplicationSynchronizationBypassed(b)
        PROVE  TypeOK'
    <2>1. /\ UNCHANGED <<supported, queued, awaits, flushRequired, waiting, sync, bypassGen,
                         releaseGen, nextGen, broken, drain, history>>
          /\ bypassNext' \in BOOLEAN
      BY <1>4 DEF SetApplicationSynchronizationBypassed
    <2> QED
      BY <2>1 DEF TypeOK, queued, pendings, awaits, history
  <1>5. CASE PrepareForLifecycleCleanup
    <2>1. IsQueue(active', Slots, Transaction)
      BY <1>5, RestrictQueue DEF PrepareForLifecycleCleanup, TypeOK
    <2>2. IsQueue(pendingEffects', EffectSlots, Effect)
      BY <1>5, EmptyIsQueue DEF PrepareForLifecycleCleanup
    <2>3. pendingAge' \in {NoAge} \cup 0 .. Latency
      BY <1>5 DEF PrepareForLifecycleCleanup, TypeOK
    <2>4. /\ controlBytes' \in Nat /\ pendingBells' \in Nat
          /\ bypassGen' \in Nat /\ releaseGen' \in Nat
      BY <1>5 DEF PrepareForLifecycleCleanup, NoGen
    <2>5. /\ sync' \in SyncState
          /\ awaitRenders' \in Seq(Nat \ {NoGen})
      BY <1>5, TimingAssumption DEF PrepareForLifecycleCleanup, NoSync, SyncState
    <2>6. /\ UNCHANGED <<supported, awaitEffects, flushRequired, waiting, nextGen, broken, drain,
                         wire, unflushed, presented>>
          /\ bypassNext' = FALSE /\ pendingRender' = NoRender
      BY <1>5 DEF PrepareForLifecycleCleanup, history
    <2> QED
      BY <2>1, <2>2, <2>3, <2>4, <2>5, <2>6 DEF TypeOK
  <1>6. CASE NotifyWritable
    BY <1>6 DEF NotifyWritable, TypeOK, queued, pendings, awaits, holds, history
  <1>7. CASE Recover
    BY <1>7 DEF Recover, TypeOK, queued, pendings, awaits, holds, history
  <1> QED
    BY <1>1, <1>2, <1>3, <1>4, <1>5, <1>6, <1>7 DEF Control

\* The clock's ages stay within their saturation bounds.
LEMMA TypeTick ==
    ASSUME TypeOK, Tick
    PROVE  TypeOK'
  <1>1. pendingAge' \in {NoAge} \cup 0 .. Latency
    BY TimingAssumption DEF Tick, TypeOK, Older, NoAge
  <1>2. sync' \in SyncState
    <2>1. sync \in SyncState
      BY DEF TypeOK
    <2>2. [sync EXCEPT !.idle = Older(@, IdleTimeout), !.started = Older(@, HardTimeout)]
             \in SyncState
      <3>1. /\ Older(sync.idle, IdleTimeout) \in 0 .. IdleTimeout
            /\ Older(sync.started, HardTimeout) \in 0 .. HardTimeout
        BY <2>1, TimingAssumption DEF SyncState, Older
      <3> QED
        BY <2>1, <3>1 DEF SyncState
    <2> QED
      BY <2>1, <2>2 DEF Tick
  <1>3. UNCHANGED <<supported, controlBytes, pendingRender, pendingEffects, pendingBells, active,
                    awaits, flushRequired, waiting, bypassNext, bypassGen, releaseGen, nextGen,
                    broken, drain, history>>
    BY DEF Tick
  <1> QED
    BY <1>1, <1>2, <1>3 DEF TypeOK, awaits, history

\* Abandoning the whole queue after a failed write or flush.
LEMMA TypeFail ==
    ASSUME TypeOK, Fail
    PROVE  TypeOK'
  <1>1. IsQueue(active', Slots, Transaction) /\ IsQueue(pendingEffects', EffectSlots, Effect)
    BY EmptyIsQueue DEF Fail
  <1>2. sync' \in SyncState /\ drain' \in DrainState /\ wire' \in WireState
    BY TimingAssumption DEF Fail, Return, NoSync, SyncState, Idle, DrainState, NoWire, WireState, NoGen
  <1>3. awaitRenders' \in Seq(Nat \ {NoGen}) /\ unflushed' \in SUBSET (Nat \ {NoGen})
    BY DEF Fail
  <1>4. /\ controlBytes' \in Nat /\ pendingBells' \in Nat /\ awaitEffects' \in Nat
        /\ bypassGen' \in Nat /\ releaseGen' \in Nat
    BY DEF Fail, NoGen
  <1>5. /\ UNCHANGED <<supported, nextGen, presented>>
        /\ pendingRender' = NoRender /\ pendingAge' = NoAge
        /\ flushRequired' = FALSE /\ waiting' = FALSE /\ bypassNext' = FALSE /\ broken' = TRUE
    BY DEF Fail
  <1> QED
    BY <1>1, <1>2, <1>3, <1>4, <1>5 DEF TypeOK

\* A blocked writer changes nothing but the flag and the call's own state.
LEMMA TypeBlock ==
    ASSUME TypeOK, Block
    PROVE  TypeOK'
  <1>1. drain' \in DrainState
    BY DEF Block, Return, Idle, DrainState
  <1>2. /\ UNCHANGED <<supported, queued, awaits, flushRequired, holds, nextGen, broken, history>>
        /\ waiting' = TRUE
    BY DEF Block
  <1> QED
    BY <1>1, <1>2 DEF TypeOK, queued, pendings, awaits, holds, history

\* Giving the receipts of the flushed frames keeps the types.
LEMMA TypeComplete ==
    ASSUME TypeOK, CompleteAwaiting
    PROVE  /\ presented' \in Nat /\ releaseGen' \in Nat /\ bypassGen' \in Nat
           /\ awaitRenders' \in Seq(Nat \ {NoGen}) /\ awaitEffects' \in Nat
  <1>1. awaitRenders # <<>> => awaitRenders[Len(awaitRenders)] \in Nat
    BY DEF TypeOK
  <1> QED
    BY <1>1 DEF CompleteAwaiting, TypeOK, NoGen

\* Taking the written transaction off the queue keeps the types.
LEMMA TypePop ==
    ASSUME TypeOK, NEW i \in DOMAIN active, Pop(i)
    PROVE  /\ IsQueue(active', Slots, Transaction)
           /\ awaitRenders' \in Seq(Nat \ {NoGen})
           /\ awaitEffects' \in Nat
           /\ UNCHANGED <<supported, pendings, flushRequired, waiting, holds, nextGen, broken,
                          history>>
  <1>1. IsQueue(active', Slots, Transaction)
    BY RestrictQueue DEF Pop, TypeOK
  <1>2. active[i].gen \in Nat
    BY DEF TypeOK, IsQueue, Transaction
  <1>3. awaitRenders' \in Seq(Nat \ {NoGen})
    <2>1. active[i].gen # NoGen => active[i].gen \in Nat \ {NoGen}
      BY <1>2
    <2> QED
      BY <2>1 DEF Pop, TypeOK
  <1>4. awaitEffects' \in Nat
    BY DEF Pop, TypeOK
  <1> QED
    BY <1>1, <1>3, <1>4 DEF Pop

\* Timing out a hold names a frame, or none, as its boundary.
LEMMA TypeExpire ==
    ASSUME TypeOK, ExpireHold
    PROVE  sync' \in SyncState /\ releaseGen' \in Nat
  <1>1. IgnoredSync \in SyncState
    BY TimingAssumption DEF IgnoredSync, SyncState
  <1>2. BoundaryOnTimeout \in Nat
    <2>1. pendingRender.gen \in Nat
      BY DEF TypeOK, Render, NoRender, NoGen
    <2>2. RenderSlot \in DOMAIN active => active[RenderSlot].gen \in Nat
      BY DEF TypeOK, IsQueue, Transaction
    <2>3. awaitRenders # <<>> => awaitRenders[Len(awaitRenders)] \in Nat
      BY DEF TypeOK
    <2> QED
      BY <2>1, <2>2, <2>3 DEF BoundaryOnTimeout, NoGen
  <1> QED
    BY <1>1, <1>2 DEF ExpireHold, TypeOK

\* Entering a drain keeps the types.
LEMMA TypeDrainCall ==
    ASSUME TypeOK, NEW force \in BOOLEAN, DrainCall(force)
    PROVE  TypeOK'
  <1>1. drain' \in DrainState
    BY DEF DrainCall, Idle, DrainState
  <1>2. /\ UNCHANGED <<supported, queued, awaits, flushRequired, holds, nextGen, broken, history>>
        /\ waiting' = FALSE
    BY DEF DrainCall
  <1> QED
    BY <1>1, <1>2 DEF TypeOK, queued, pendings, awaits, holds, history

\* Every step of a drain keeps the types.
LEMMA TypeDrainStep ==
    ASSUME TypeOK, DrainStep
    PROVE  TypeOK'
  <1>0. drain \in DrainState /\ Idle \in DrainState
    BY DEF TypeOK, Idle, DrainState
  <1>1. CASE FlushOk
    <2>1. drain' \in DrainState
      BY <1>0, <1>1 DEF FlushOk, GotoWithProgress, Return, DrainState
    <2>2. CompleteAwaiting /\ unflushed' = {}
      BY <1>1 DEF FlushOk
    <2>3. /\ UNCHANGED <<supported, queued, waiting, sync, bypassNext, nextGen, broken, wire>>
          /\ flushRequired' = FALSE
      BY <1>1 DEF FlushOk
    <2>4. unflushed' \in SUBSET (Nat \ {NoGen})
      BY <2>2
    <2> QED
      BY <2>1, <2>2, <2>3, <2>4, TypeComplete DEF TypeOK, queued, pendings
  <1>2. CASE FlushBlocked \/ \E i \in DOMAIN active : WriteBlocked(i)
    BY <1>2, TypeBlock DEF FlushBlocked, WriteBlocked
  <1>3. CASE FlushFailed \/ \E i \in DOMAIN active : WriteFailed(i)
    BY <1>3, TypeFail DEF FlushFailed, WriteFailed
  <1>4. CASE DrainHeld
    <2>1. /\ UNCHANGED <<supported, queued, awaits, flushRequired, waiting, holds, nextGen, broken,
                         history>>
          /\ drain' = Idle
      BY <1>4 DEF DrainHeld, Return
    <2> QED
      BY <1>0, <2>1 DEF TypeOK, queued, pendings, awaits, holds, history
  <1>5. CASE DrainTooYoung
    <2>1. /\ UNCHANGED <<supported, queued, awaits, flushRequired, waiting, bypassNext, bypassGen,
                         nextGen, broken, history>>
          /\ drain' = Idle /\ ExpireHold
      BY <1>5 DEF DrainTooYoung, Return
    <2> QED
      BY <1>0, <2>1, TypeExpire DEF TypeOK, queued, pendings, awaits, history
  <1>6. CASE DrainActivate
    <2>1. /\ UNCHANGED <<supported, awaits, flushRequired, waiting, bypassNext, bypassGen, nextGen,
                         broken, history>>
          /\ ExpireHold
      BY <1>6 DEF DrainActivate
    <2>2. drain' \in DrainState
      <3>1. Held \in BOOLEAN /\ (drain.progress \/ Expired) \in BOOLEAN
        BY DEF Held, Expired
      <3> QED
        BY <1>0, <1>6, <3>1 DEF DrainActivate, DrainState
    <2>3. CASE DOMAIN active = {}
      <3>1. /\ active' = [i \in PendingSlots |-> Activated(i)]
            /\ controlBytes' = 0 /\ pendingRender' = NoRender /\ pendingEffects' = EmptyQueue
            /\ pendingBells' = 0 /\ pendingAge' = NoAge
        BY <1>6, <2>3 DEF DrainActivate
      <3>2. IsQueue(active', Slots, Transaction)
        BY <3>1, ActivatedType DEF IsQueue
      <3>3. IsQueue(pendingEffects', EffectSlots, Effect)
        BY <3>1, EmptyIsQueue
      <3> QED
        BY <2>1, <2>2, <3>1, <3>2, <3>3, TypeExpire DEF TypeOK, awaits, history
    <2>4. CASE DOMAIN active # {}
      <3>1. UNCHANGED queued
        BY <1>6, <2>4 DEF DrainActivate
      <3> QED
        BY <2>1, <2>2, <3>1, TypeExpire DEF TypeOK, queued, pendings, awaits, history
    <2> QED
      BY <2>3, <2>4
  <1>7. ASSUME NEW i \in DOMAIN active, NEW n \in 1 .. WriteBudget, WriteSome(i, n)
        PROVE  TypeOK'
    <2>1. n \in Nat
      BY SizeAssumption
    <2>2. active[i] \in Transaction /\ i \in Slots
      BY DEF TypeOK, IsQueue
    <2>3. IsQueue(active', Slots, Transaction)
      <3>1. active[i].off \in Nat /\ active[i].off + n \in Nat
        BY <2>1, <2>2 DEF Transaction
      <3>2. [active[i] EXCEPT !.off = @ + n] \in Transaction
        BY <2>2, <3>1 DEF Transaction
      <3>3. active' = [active EXCEPT ![i] = [active[i] EXCEPT !.off = @ + n]]
        BY <1>7 DEF WriteSome
      <3> QED
        BY <3>2, <3>3 DEF TypeOK, IsQueue
    <2>4. drain' \in DrainState
      <3>1. drain.written \in Nat /\ drain.written + n \in Nat
        BY <1>0, <2>1 DEF DrainState
      <3>2. drain' = [drain EXCEPT !.written = drain.written + n, !.progress = TRUE]
        BY <1>7 DEF WriteSome
      <3> QED
        BY <1>0, <3>1, <3>2 DEF DrainState
    <2>5. wire' \in WireState
      <3>1. active[i].len - active[i].off - n \in Nat
        BY <1>7, <2>1, <2>2 DEF WriteSome, Transaction
      <3>2. NoWire \in WireState
        BY DEF NoWire, WireState, NoGen
      <3> QED
        BY <1>7, <2>2, <3>1, <3>2 DEF WriteSome, WireState, Transaction
    <2>6. unflushed' \in SUBSET (Nat \ {NoGen})
      BY <1>7, <2>2 DEF WriteSome, TypeOK, Transaction
    <2>7. /\ UNCHANGED <<supported, pendings, awaits, waiting, holds, nextGen, broken, presented>>
          /\ flushRequired' = TRUE
      BY <1>7 DEF WriteSome
    <2> QED
      BY <2>3, <2>4, <2>5, <2>6, <2>7 DEF TypeOK, pendings, awaits, holds
  <1>8. ASSUME NEW i \in DOMAIN active, WritePop(i) \/ FinishPop(i)
        PROVE  TypeOK'
    <2>1. Pop(i)
      BY <1>8 DEF WritePop, FinishPop
    <2>2. drain' \in DrainState
      BY <1>0, <1>8 DEF WritePop, FinishPop, EndsBypass, DrainState
    <2> QED
      BY <2>1, <2>2, TypePop DEF TypeOK, pendings, holds, history
  <1>9. CASE WriteDone \/ FinishToFlush
    <2>1. UNCHANGED <<supported, queued, awaits, flushRequired, waiting, holds, nextGen, broken,
                      history>>
      BY <1>9 DEF WriteDone, FinishToFlush
    <2>2. drain' \in DrainState
      BY <1>0, <1>9 DEF WriteDone, FinishToFlush, Goto, DrainState
    <2> QED
      BY <2>1, <2>2 DEF TypeOK, queued, pendings, awaits, holds, history
  <1>10. CASE FinishUnflushed
    <2>1. /\ UNCHANGED <<supported, queued, flushRequired, waiting, sync, bypassNext, nextGen,
                         broken, wire, unflushed>>
          /\ CompleteAwaiting /\ drain' = Idle
      BY <1>10 DEF FinishUnflushed, Return
    <2> QED
      BY <1>0, <2>1, TypeComplete DEF TypeOK, queued, pendings
  <1> QED
    BY <1>1, <1>2, <1>3, <1>4, <1>5, <1>6, <1>7, <1>8, <1>9, <1>10 DEF DrainStep

\* No step spoils a field's type.
LEMMA TypeNext == TypeOK /\ [Next]_vars => TypeOK'
  <1> SUFFICES ASSUME TypeOK, [Next]_vars PROVE TypeOK'
    OBVIOUS
  <1>1. CASE Next
    BY <1>1, TypeEnqueue, TypeControl, TypeTick, TypeDrainCall, TypeDrainStep DEF Next
  <1>2. CASE UNCHANGED vars
    BY <1>2 DEF vars, pendings, awaits, holds, history, TypeOK
  <1> QED
    BY <1>1, <1>2

\* The scheduler's fields keep their types in every reachable state.
THEOREM TypeCorrect == Spec => []TypeOK
  BY TypeInit, TypeNext, PTL DEF Spec

-----------------------------------------------------------------------------

\* Only the render slot holds a frame.
SlotInv == \A i \in DOMAIN active : (active[i].gen # NoGen) <=> (i = RenderSlot)

\* Giving up transactions that are not the started frame is an eviction.
LEMMA Trimmed ==
    ASSUME TypeOK, SlotInv, NEW K \in SUBSET DOMAIN active, active' = Restrict(active, K)
    PROVE  /\ SlotInv'
           /\ RenderSlot \in K \/ RenderSlot \notin DOMAIN active
                 => CurrentGen' = CurrentGen /\ (FrameBegun' <=> FrameBegun)
           /\ RenderSlot \notin K => CurrentGen' = NoGen /\ ~FrameBegun'
  <1>1. /\ DOMAIN active' = K
        /\ \A i \in K : active'[i] = active[i]
    BY DEF Restrict
  <1>2. RenderSlot' = RenderSlot /\ NoGen' = NoGen
    BY DEF RenderSlot, NoGen
  <1> QED
    BY <1>1, <1>2 DEF SlotInv, CurrentGen, FrameBegun, Started

\* The contract's step or no step, seen from the fields it is about.
FrameStep == [Frames!Next]_(Frames!frames)
SameFrames ==
    /\ nextGen' = nextGen
    /\ pendingRender'.gen = pendingRender.gen
    /\ CurrentGen' = CurrentGen
    /\ FrameBegun' <=> FrameBegun
    /\ awaitRenders' = awaitRenders
    /\ presented' = presented

\* A step that keeps all frames is a stuttering step of the contract.
LEMMA SameFramesStutters == SameFrames => FrameStep
  <1> SUFFICES ASSUME SameFrames PROVE UNCHANGED Frames!frames
    BY DEF FrameStep
  <1>1. FrameBegun' = FrameBegun
    BY DEF SameFrames, FrameBegun
  <1> QED
    BY <1>1 DEF SameFrames, Frames!frames

\* Nothing happens to frames where the queues are left alone.
LEMMA UnchangedQueues ==
    ASSUME SlotInv, UNCHANGED <<pendingRender, active, awaitRenders, nextGen, presented>>
    PROVE  SlotInv' /\ SameFrames
  BY DEF SlotInv, SameFrames, CurrentGen, FrameBegun, Started, RenderSlot, NoGen

\* Enqueueing accepts a frame, evicts frames, or leaves them alone.
LEMMA FrameEnqueue ==
    ASSUME TypeOK, SlotInv, Enqueue
    PROVE  SlotInv' /\ FrameStep
  <1>1. ASSUME NEW n \in ControlSizes, EnqueueBytes(n)
        PROVE  SlotInv' /\ FrameStep
    <2>1. UNCHANGED <<awaitRenders, nextGen, presented>>
      BY <1>1 DEF EnqueueBytes, awaits, history
    <2>2. CASE active' = active /\ pendingRender' = pendingRender
      BY <2>1, <2>2, UnchangedQueues, SameFramesStutters
    <2>3. CASE active' = KeptActive /\ pendingRender' = KeptRender
      <3> DEFINE K == {i \in DOMAIN active :
                          Started(active, i) \/ i = ControlSlot \/ IsBoundary(active[i].gen)}
      <3>1. K \in SUBSET DOMAIN active /\ active' = Restrict(active, K)
        BY <2>3 DEF KeptActive
      <3>2. FrameBegun => RenderSlot \in K
        BY DEF FrameBegun
      <3>3. pendingRender'.gen \in {pendingRender.gen, NoGen}
        BY <2>3 DEF KeptRender, NoRender
      <3> HIDE DEF K
      <3>4. /\ SlotInv'
            /\ CurrentGen' \in {CurrentGen, NoGen}
            /\ FrameBegun => CurrentGen' = CurrentGen
            /\ FrameBegun' <=> FrameBegun
        BY <3>1, <3>2, Trimmed DEF CurrentGen, FrameBegun
      <3>5. FrameBegun' = FrameBegun
        BY <3>4 DEF FrameBegun
      <3>6. Frames!Evict
        BY <2>1, <3>3, <3>4, <3>5 DEF Frames!Evict, Frames!None, NoGen
      <3> QED
        BY <3>4, <3>6 DEF FrameStep, Frames!Next
    <2> QED
      BY <1>1, <2>2, <2>3 DEF EnqueueBytes
  <1>2. ASSUME NEW n \in RenderSizes, EnqueueRender(n)
        PROVE  SlotInv' /\ FrameStep
    <2>1. /\ nextGen <= MaxGen /\ nextGen' = nextGen + 1
          /\ pendingRender'.gen = nextGen
          /\ UNCHANGED <<awaitRenders, presented>>
          /\ active' = WithoutReplaced
      BY <1>2 DEF EnqueueRender, awaits, history
    <2>2. /\ SlotInv'
          /\ FrameBegun => CurrentGen' = CurrentGen
          /\ ~FrameBegun => CurrentGen' = NoGen
          /\ FrameBegun' <=> FrameBegun
      <3>1. CASE UnstartedRender
        <4> DEFINE K == DOMAIN active \ ({RenderSlot} \cup ReturnedBells)
        <4>1. K \in SUBSET DOMAIN active /\ active' = Restrict(active, K) /\ RenderSlot \notin K
          BY <2>1, <3>1 DEF WithoutReplaced
        <4>2. ~FrameBegun
          BY <3>1 DEF UnstartedRender, FrameBegun
        <4> HIDE DEF K
        <4> QED
          BY <4>1, <4>2, Trimmed
      <3>2. CASE ~UnstartedRender
        <4>1. active' = active
          BY <2>1, <3>2 DEF WithoutReplaced
        <4> QED
          BY <3>2, <4>1 DEF SlotInv, CurrentGen, FrameBegun, UnstartedRender, Started, RenderSlot
      <3> QED
        BY <3>1, <3>2
    <2>3. FrameBegun' = FrameBegun
      BY <2>2 DEF FrameBegun
    <2>4. Frames!Accept
      BY <2>1, <2>2, <2>3 DEF Frames!Accept, Frames!None, NoGen
    <2> QED
      BY <2>2, <2>4 DEF FrameStep, Frames!Next
  <1>3. ASSUME NEW n \in RenderSizes, DropRender(n)
        PROVE  SlotInv' /\ FrameStep
    <2>1. UNCHANGED <<pendingRender, active, awaitRenders, nextGen, presented>>
      BY <1>3 DEF DropRender, queued, pendings, awaits, history
    <2> QED
      BY <2>1, UnchangedQueues, SameFramesStutters
  <1>4. ASSUME NEW e \in Effect, EnqueueTerminalEffect(e)
        PROVE  SlotInv' /\ FrameStep
    <2> DEFINE K == DOMAIN active \ SupersededActive(e)
    <2>1. /\ UNCHANGED <<pendingRender, awaitRenders, nextGen, presented>>
          /\ active' = Restrict(active, K)
      BY <1>4 DEF EnqueueTerminalEffect, awaits, history
    <2>2. RenderSlot \notin EffectSlots
      BY InputAssumption DEF RenderSlot, EffectSlots
    <2>3. K \in SUBSET DOMAIN active /\ (RenderSlot \in K \/ RenderSlot \notin DOMAIN active)
      BY <2>2 DEF SupersededActive
    <2> HIDE DEF K
    <2>4. SlotInv' /\ SameFrames
      BY <2>1, <2>3, Trimmed DEF SameFrames
    <2> QED
      BY <2>4, SameFramesStutters
  <1>5. ASSUME NEW n \in BellCounts, EnqueueBell(n)
        PROVE  SlotInv' /\ FrameStep
    <2>1. UNCHANGED <<pendingRender, active, awaitRenders, nextGen, presented>>
      BY <1>5 DEF EnqueueBell, awaits, history
    <2> QED
      BY <2>1, UnchangedQueues, SameFramesStutters
  <1> QED
    BY <1>1, <1>2, <1>3, <1>4, <1>5 DEF Enqueue

\* Between drains only the lifecycle cleanup touches frames.
LEMMA FrameControl ==
    ASSUME TypeOK, SlotInv, Control
    PROVE  SlotInv' /\ FrameStep
  <1>1. ASSUME NEW b \in Support, SetSynchronizedOutputSupported(b)
        PROVE  SlotInv' /\ FrameStep
    <2>1. UNCHANGED <<active, awaitRenders, nextGen, presented>>
      BY <1>1 DEF SetSynchronizedOutputSupported, awaits, history
    <2>2. pendingRender'.gen = pendingRender.gen
      <3>1. CASE pendingRender = NoRender
        BY <1>1, <3>1 DEF SetSynchronizedOutputSupported
      <3>2. CASE pendingRender # NoRender
        <4>1. pendingRender \in Render
          BY <3>2 DEF TypeOK
        <4> QED
          BY <1>1, <3>2, <4>1 DEF SetSynchronizedOutputSupported, Render
      <3> QED
        BY <3>1, <3>2
    <2>3. SlotInv' /\ SameFrames
      BY <2>1, <2>2 DEF SlotInv, SameFrames, CurrentGen, FrameBegun, Started, RenderSlot, NoGen
    <2> QED
      BY <2>3, SameFramesStutters
  <1>2. CASE PrepareForLifecycleCleanup
    <2> DEFINE K == {i \in DOMAIN active : Started(active, i)}
    <2>1. /\ UNCHANGED <<nextGen, presented>>
          /\ pendingRender'.gen = NoGen
          /\ awaitRenders' = <<>>
          /\ active' = Restrict(active, K)
      BY <1>2 DEF PrepareForLifecycleCleanup, history, NoRender
    <2>2. K \in SUBSET DOMAIN active
      OBVIOUS
    <2>3. FrameBegun <=> RenderSlot \in K
      BY DEF FrameBegun
    <2> HIDE DEF K
    <2>4. /\ SlotInv'
          /\ FrameBegun => CurrentGen' = CurrentGen
          /\ ~FrameBegun => CurrentGen' = NoGen
          /\ FrameBegun' <=> FrameBegun
      BY <2>1, <2>2, <2>3, Trimmed
    <2>5. FrameBegun' = FrameBegun
      BY <2>4 DEF FrameBegun
    <2>6. Frames!Cleanup
      BY <2>1, <2>4, <2>5 DEF Frames!Cleanup, Frames!None, NoGen
    <2> QED
      BY <2>4, <2>6 DEF FrameStep, Frames!Next
  <1>3. CASE \/ \E opened \in Opens, activity \in BOOLEAN : SynchronizationOpen(opened, activity)
             \/ SynchronizationClosed
             \/ \E b \in BOOLEAN : SetApplicationSynchronizationBypassed(b)
             \/ NotifyWritable
             \/ Recover
    <2>1. UNCHANGED <<pendingRender, active, awaitRenders, nextGen, presented>>
      BY <1>3 DEF SynchronizationOpen, SynchronizationClosed,
                  SetApplicationSynchronizationBypassed, NotifyWritable, Recover,
                  queued, pendings, awaits, history
    <2> QED
      BY <2>1, UnchangedQueues, SameFramesStutters
  <1> QED
    BY <1>1, <1>2, <1>3 DEF Control

\* A failed writer abandons all frames.
LEMMA FrameFail ==
    ASSUME TypeOK, Fail
    PROVE  SlotInv' /\ FrameStep
  <1>1. /\ UNCHANGED <<nextGen, presented>>
        /\ pendingRender'.gen = NoGen
        /\ awaitRenders' = <<>>
        /\ DOMAIN active' = {}
    BY EmptyIsQueue DEF Fail, NoRender
  <1>2. SlotInv' /\ CurrentGen' = NoGen /\ ~FrameBegun'
    BY <1>1 DEF SlotInv, CurrentGen, FrameBegun, NoGen
  <1>3. FrameBegun' = FALSE
    BY <1>2 DEF FrameBegun
  <1>4. Frames!Abandon
    BY <1>1, <1>2, <1>3 DEF Frames!Abandon, Frames!None, NoGen
  <1> QED
    BY <1>2, <1>4 DEF FrameStep, Frames!Next

\* Completing the awaiting renders reports the newest of them.
LEMMA FrameComplete ==
    ASSUME TypeOK, SlotInv, CompleteAwaiting, UNCHANGED <<queued, nextGen>>
    PROVE  SlotInv' /\ FrameStep
  <1>1. /\ UNCHANGED <<pendingRender, active, nextGen>>
        /\ awaitRenders' = <<>>
        /\ presented' = IF awaitRenders = <<>> THEN presented ELSE awaitRenders[Len(awaitRenders)]
    BY DEF CompleteAwaiting, queued, pendings
  <1>2. SlotInv' /\ CurrentGen' = CurrentGen /\ FrameBegun' = FrameBegun
    BY <1>1 DEF SlotInv, CurrentGen, FrameBegun, Started, RenderSlot, NoGen
  <1>3. CASE awaitRenders = <<>>
    <2>1. SameFrames
      BY <1>1, <1>2, <1>3 DEF SameFrames
    <2> QED
      BY <1>2, <2>1, SameFramesStutters
  <1>4. CASE awaitRenders # <<>>
    <2>1. Frames!Report
      BY <1>1, <1>2, <1>4 DEF Frames!Report
    <2> QED
      BY <1>2, <2>1 DEF FrameStep, Frames!Next
  <1> QED
    BY <1>3, <1>4

\* Popping the render transaction finishes its frame, any other changes none.
LEMMA FramePop ==
    ASSUME TypeOK, SlotInv, NEW i \in DOMAIN active, Pop(i)
    PROVE  SlotInv' /\ FrameStep
  <1> DEFINE K == DOMAIN active \ {i}
  <1>1. /\ UNCHANGED <<pendingRender, nextGen, presented>>
        /\ active' = Restrict(active, K)
        /\ awaitRenders' = IF active[i].gen = NoGen THEN awaitRenders
                           ELSE Append(awaitRenders, active[i].gen)
    BY DEF Pop, pendings, history
  <1>2. K \in SUBSET DOMAIN active
    OBVIOUS
  <1>3. CASE i = RenderSlot
    <2>1. RenderSlot \notin K
      BY <1>3
    <2>2. CurrentGen = active[i].gen /\ CurrentGen # NoGen
      BY <1>3 DEF CurrentGen, SlotInv
    <2>3. awaitRenders' = Append(awaitRenders, CurrentGen)
      BY <1>1, <2>2
    <2> HIDE DEF K
    <2>4. SlotInv' /\ CurrentGen' = NoGen /\ ~FrameBegun'
      BY <1>1, <1>2, <2>1, Trimmed
    <2>5. FrameBegun' = FALSE
      BY <2>4 DEF FrameBegun
    <2>6. Frames!Finish
      BY <1>1, <2>2, <2>3, <2>4, <2>5 DEF Frames!Finish, Frames!None, NoGen
    <2> QED
      BY <2>4, <2>6 DEF FrameStep, Frames!Next
  <1>4. CASE i # RenderSlot
    <2>1. RenderSlot \in K \/ RenderSlot \notin DOMAIN active
      BY <1>4
    <2>2. active[i].gen = NoGen
      BY <1>4 DEF SlotInv
    <2> HIDE DEF K
    <2>3. SlotInv' /\ SameFrames
      BY <1>1, <1>2, <2>1, <2>2, Trimmed DEF SameFrames
    <2> QED
      BY <2>3, SameFramesStutters
  <1> QED
    BY <1>3, <1>4

\* Every step of a drain is a step of the contract.
LEMMA FrameDrainStep ==
    ASSUME TypeOK, SlotInv, DrainStep
    PROVE  SlotInv' /\ FrameStep
  <1>1. CASE FlushOk \/ FinishUnflushed
    <2>1. CompleteAwaiting /\ UNCHANGED <<queued, nextGen>>
      BY <1>1 DEF FlushOk, FinishUnflushed
    <2> QED
      BY <2>1, FrameComplete
  <1>2. CASE FlushFailed \/ \E i \in DOMAIN active : WriteFailed(i)
    BY <1>2, FrameFail DEF FlushFailed, WriteFailed
  <1>3. CASE \/ FlushBlocked \/ DrainHeld \/ DrainTooYoung \/ WriteDone \/ FinishToFlush
             \/ \E i \in DOMAIN active : WriteBlocked(i)
    <2>1. UNCHANGED <<pendingRender, active, awaitRenders, nextGen, presented>>
      BY <1>3 DEF FlushBlocked, DrainHeld, DrainTooYoung, WriteDone, FinishToFlush, WriteBlocked,
                  Block, queued, pendings, awaits, history
    <2> QED
      BY <2>1, UnchangedQueues, SameFramesStutters
  <1>4. CASE DrainActivate
    <2>1. UNCHANGED <<awaitRenders, nextGen, presented>>
      BY <1>4 DEF DrainActivate, awaits, history
    <2>2. CASE DOMAIN active = {}
      <3>1. /\ active' = [i \in PendingSlots |-> Activated(i)]
            /\ pendingRender' = NoRender
        BY <1>4, <2>2 DEF DrainActivate
      <3>2. /\ CurrentGen = NoGen
            /\ FrameBegun = FALSE
        BY <2>2 DEF CurrentGen, FrameBegun
      <3>3. /\ DOMAIN active' = PendingSlots
            /\ \A i \in PendingSlots :
                  /\ active'[i].off = 0
                  /\ i = RenderSlot => pendingRender # NoRender
                                       /\ active'[i].gen = pendingRender.gen
                  /\ i # RenderSlot => active'[i].gen = NoGen
        BY <3>1, ActivatedType
      <3>4. pendingRender # NoRender => pendingRender.gen # NoGen /\ RenderSlot \in PendingSlots
        BY DEF TypeOK, Render, PendingSlots
      <3>5. pendingRender = NoRender => pendingRender.gen = NoGen /\ RenderSlot \notin PendingSlots
        BY <3>3 DEF NoRender
      <3>6. RenderSlot' = RenderSlot /\ NoGen' = NoGen
        BY DEF RenderSlot, NoGen
      <3>7. SlotInv'
        BY <3>3, <3>4, <3>6 DEF SlotInv
      <3>8. CurrentGen' = pendingRender.gen /\ FrameBegun' = FALSE
        BY <3>3, <3>4, <3>5, <3>6 DEF CurrentGen, FrameBegun, Started
      <3>9. CASE pendingRender = NoRender
        <4>1. SameFrames
          BY <2>1, <3>1, <3>2, <3>5, <3>8, <3>9 DEF SameFrames
        <4> QED
          BY <3>7, <4>1, SameFramesStutters
      <3>10. CASE pendingRender # NoRender
        <4>1. pendingRender'.gen = NoGen
          BY <3>1 DEF NoRender
        <4>2. Frames!Activate
          BY <2>1, <3>2, <3>4, <3>8, <3>10, <4>1 DEF Frames!Activate, Frames!None, NoGen
        <4> QED
          BY <3>7, <4>2 DEF FrameStep, Frames!Next
      <3> QED
        BY <3>9, <3>10
    <2>3. CASE DOMAIN active # {}
      <3>1. UNCHANGED <<pendingRender, active>>
        BY <1>4, <2>3 DEF DrainActivate, queued, pendings
      <3> QED
        BY <2>1, <3>1, UnchangedQueues, SameFramesStutters
    <2> QED
      BY <2>2, <2>3
  <1>5. ASSUME NEW i \in DOMAIN active, WritePop(i) \/ FinishPop(i)
        PROVE  SlotInv' /\ FrameStep
    BY <1>5, FramePop DEF WritePop, FinishPop
  <1>6. ASSUME NEW i \in DOMAIN active, NEW n \in 1 .. WriteBudget, WriteSome(i, n)
        PROVE  SlotInv' /\ FrameStep
    <2>1. /\ UNCHANGED <<pendingRender, awaitRenders, nextGen, presented>>
          /\ active' = [active EXCEPT ![i].off = @ + n]
          /\ n > 0
      BY <1>6, SizeAssumption DEF WriteSome, pendings, awaits
    <2>2. /\ DOMAIN active' = DOMAIN active
          /\ \A j \in DOMAIN active : active'[j].gen = active[j].gen
          /\ \A j \in DOMAIN active : j # i => active'[j] = active[j]
          /\ active'[i].off = active[i].off + n
          /\ active[i].off \in Nat
      BY <2>1 DEF TypeOK, IsQueue, Transaction
    <2>3. RenderSlot' = RenderSlot /\ NoGen' = NoGen
      BY DEF RenderSlot, NoGen
    <2>4. SlotInv' /\ CurrentGen' = CurrentGen
      BY <2>2, <2>3 DEF SlotInv, CurrentGen
    <2>5. CASE i = RenderSlot /\ active[i].off = 0
      <3>1. CurrentGen # NoGen /\ FrameBegun = FALSE
        BY <2>5 DEF CurrentGen, FrameBegun, Started, SlotInv
      <3>2. FrameBegun' = TRUE
        BY <2>1, <2>2, <2>3, <2>5, SizeAssumption DEF FrameBegun, Started
      <3>3. Frames!Begin
        BY <2>1, <2>4, <3>1, <3>2 DEF Frames!Begin, Frames!None, NoGen
      <3> QED
        BY <2>4, <3>3 DEF FrameStep, Frames!Next
    <2>6. CASE i # RenderSlot \/ active[i].off # 0
      <3>1. FrameBegun' <=> FrameBegun
        BY <2>1, <2>2, <2>3, <2>6, SizeAssumption DEF FrameBegun, Started
      <3>2. SameFrames
        BY <2>1, <2>4, <3>1 DEF SameFrames
      <3> QED
        BY <2>4, <3>2, SameFramesStutters
    <2> QED
      BY <2>5, <2>6
  <1> QED
    BY <1>1, <1>2, <1>3, <1>4, <1>5, <1>6 DEF DrainStep

\* Every step of the scheduler is a step of the contract.
LEMMA FrameNext == TypeOK /\ SlotInv /\ [Next]_vars => SlotInv' /\ FrameStep
  <1> SUFFICES ASSUME TypeOK, SlotInv, [Next]_vars PROVE SlotInv' /\ FrameStep
    OBVIOUS
  <1>1. CASE Enqueue
    BY <1>1, FrameEnqueue
  <1>2. CASE Control
    BY <1>2, FrameControl
  <1>3. CASE Tick \/ \E force \in BOOLEAN : DrainCall(force)
    <2>1. UNCHANGED <<pendingRender, active, awaitRenders, nextGen, presented>>
      BY <1>3 DEF Tick, DrainCall, queued, pendings, awaits, history
    <2> QED
      BY <2>1, UnchangedQueues, SameFramesStutters
  <1>4. CASE DrainStep
    BY <1>4, FrameDrainStep
  <1>5. CASE UNCHANGED vars
    <2>1. UNCHANGED <<pendingRender, active, awaitRenders, nextGen, presented>>
      BY <1>5 DEF vars, pendings, awaits, history
    <2> QED
      BY <2>1, UnchangedQueues, SameFramesStutters
  <1> QED
    BY <1>1, <1>2, <1>3, <1>4, <1>5 DEF Next

\* The empty scheduler has no frames.
LEMMA FrameInit == Init => SlotInv /\ Frames!Init
  <1> SUFFICES ASSUME Init PROVE SlotInv /\ Frames!Init
    OBVIOUS
  <1>1. DOMAIN active = {} /\ pendingRender.gen = NoGen
    BY EmptyIsQueue DEF Init, NoRender
  <1>2. CurrentGen = NoGen /\ FrameBegun = FALSE
    BY <1>1 DEF CurrentGen, FrameBegun
  <1> QED
    BY <1>1, <1>2 DEF Init, SlotInv, Frames!Init, Frames!None, NoGen

\* The scheduler implements the contract: with bytes, budgets, holds and
\* effects left out, it never does anything to a frame but what FrameQueue
\* allows.
THEOREM Implements == Spec => ImplementsFrameQueue
  <1>1. TypeOK /\ SlotInv /\ [Next]_vars => TypeOK' /\ SlotInv' /\ FrameStep
    BY TypeNext, FrameNext
  <1> QED
    BY TypeInit, FrameInit, <1>1, PTL DEF Spec, ImplementsFrameQueue, Frames!Spec, FrameStep

-----------------------------------------------------------------------------
(* The order of frames *)

\* GenerationOrder and OneUnstartedRender in the contract's terms.
FramesOrdered ==
    /\ \A i, j \in DOMAIN awaitRenders : i < j => awaitRenders[i] < awaitRenders[j]
    /\ \A i \in DOMAIN awaitRenders :
          /\ presented < awaitRenders[i]
          /\ awaitRenders[i] < nextGen
          /\ CurrentGen # NoGen => awaitRenders[i] < CurrentGen
          /\ pendingRender.gen # NoGen => awaitRenders[i] < pendingRender.gen
    /\ CurrentGen # NoGen =>
          /\ presented < CurrentGen
          /\ CurrentGen < nextGen
          /\ pendingRender.gen # NoGen => CurrentGen < pendingRender.gen
    /\ pendingRender.gen # NoGen => presented < pendingRender.gen /\ pendingRender.gen < nextGen
    /\ presented < nextGen
OneReplaceable == pendingRender.gen # NoGen /\ CurrentGen # NoGen => FrameBegun

\* What TypeOK says of the fields the contract is about.
LEMMA FrameTypes ==
    ASSUME TypeOK
    PROVE  /\ nextGen \in Nat \ {NoGen}
           /\ pendingRender.gen \in Nat
           /\ CurrentGen \in Nat
           /\ awaitRenders \in Seq(Nat \ {NoGen})
           /\ presented \in Nat
  <1>1. pendingRender.gen \in Nat
    BY DEF TypeOK, Render, NoRender, NoGen
  <1>2. CurrentGen \in Nat
    BY DEF TypeOK, CurrentGen, IsQueue, Transaction, NoGen
  <1> QED
    BY <1>1, <1>2 DEF TypeOK

\* The contract's operations keep the frames in order.
LEMMA OrderNext ==
    ASSUME TypeOK, TypeOK', FramesOrdered, OneReplaceable, FrameBegun => CurrentGen # NoGen,
           FrameStep
    PROVE  FramesOrdered' /\ OneReplaceable'
  <1>0. /\ nextGen \in Nat \ {NoGen} /\ nextGen' \in Nat \ {NoGen}
        /\ pendingRender.gen \in Nat /\ pendingRender'.gen \in Nat
        /\ CurrentGen \in Nat /\ CurrentGen' \in Nat
        /\ awaitRenders \in Seq(Nat \ {NoGen}) /\ awaitRenders' \in Seq(Nat \ {NoGen})
        /\ presented \in Nat /\ presented' \in Nat
    <2>1. ASSUME TypeOK' PROVE /\ nextGen' \in Nat \ {NoGen}
                               /\ pendingRender'.gen \in Nat
                               /\ CurrentGen' \in Nat
                               /\ awaitRenders' \in Seq(Nat \ {NoGen})
                               /\ presented' \in Nat
      <3>1. pendingRender'.gen \in Nat
        BY <2>1 DEF TypeOK, Render, NoRender, NoGen
      <3>2. CurrentGen' \in Nat
        BY <2>1 DEF TypeOK, CurrentGen, IsQueue, Transaction, NoGen
      <3> QED
        BY <2>1, <3>1, <3>2 DEF TypeOK
    <2> QED
      BY <2>1, FrameTypes
  <1> USE DEF FramesOrdered, OneReplaceable, NoGen, Frames!None
  <1>1. CASE Frames!Accept
    BY <1>0, <1>1 DEF Frames!Accept
  <1>2. CASE Frames!Evict
    BY <1>0, <1>2 DEF Frames!Evict
  <1>3. CASE Frames!Cleanup
    <2>1. \A i \in DOMAIN awaitRenders' : FALSE
      BY <1>3 DEF Frames!Cleanup
    <2> QED
      BY <1>0, <1>3, <2>1 DEF Frames!Cleanup
  <1>4. CASE Frames!Activate
    BY <1>0, <1>4 DEF Frames!Activate
  <1>5. CASE Frames!Begin
    BY <1>0, <1>5 DEF Frames!Begin
  <1>6. CASE Frames!Finish
    <2>1. /\ DOMAIN awaitRenders' = 1 .. Len(awaitRenders) + 1
          /\ \A i \in 1 .. Len(awaitRenders) :
                i \in DOMAIN awaitRenders /\ awaitRenders'[i] = awaitRenders[i]
          /\ awaitRenders'[Len(awaitRenders) + 1] = CurrentGen
          /\ Len(awaitRenders) \in Nat
      BY <1>0, <1>6 DEF Frames!Finish
    <2>2. /\ nextGen' = nextGen /\ pendingRender'.gen = pendingRender.gen /\ presented' = presented
          /\ CurrentGen # NoGen /\ CurrentGen' = NoGen
      BY <1>6 DEF Frames!Finish
    <2>3. ASSUME NEW i \in DOMAIN awaitRenders', NEW j \in DOMAIN awaitRenders', i < j
          PROVE  awaitRenders'[i] < awaitRenders'[j]
      <3>1. i \in 1 .. Len(awaitRenders)
            /\ (j \in 1 .. Len(awaitRenders) \/ j = Len(awaitRenders) + 1)
        BY <2>1, <2>3
      <3> QED
        BY <1>0, <2>1, <2>2, <2>3, <3>1
    <2>4. ASSUME NEW i \in DOMAIN awaitRenders'
          PROVE  /\ presented < awaitRenders'[i] /\ awaitRenders'[i] < nextGen
                 /\ pendingRender.gen # NoGen => awaitRenders'[i] < pendingRender.gen
      <3>1. CASE i \in 1 .. Len(awaitRenders)
        BY <1>0, <2>1, <3>1
      <3>2. CASE i = Len(awaitRenders) + 1
        BY <1>0, <2>1, <2>2, <3>2
      <3> QED
        BY <2>1, <3>1, <3>2
    <2> QED
      BY <1>0, <2>2, <2>3, <2>4
  <1>7. CASE Frames!Report
    <2>1. Len(awaitRenders) \in DOMAIN awaitRenders
      BY <1>0, <1>7 DEF Frames!Report
    <2>2. /\ nextGen' = nextGen /\ pendingRender'.gen = pendingRender.gen
          /\ CurrentGen' = CurrentGen /\ (FrameBegun' <=> FrameBegun)
          /\ presented' = awaitRenders[Len(awaitRenders)]
          /\ \A i \in DOMAIN awaitRenders' : FALSE
      BY <1>7 DEF Frames!Report
    <2> QED
      BY <1>0, <2>1, <2>2
  <1>8. CASE Frames!Abandon
    <2>1. /\ nextGen' = nextGen /\ pendingRender'.gen = 0 /\ CurrentGen' = 0
          /\ presented' = presented
          /\ \A i \in DOMAIN awaitRenders' : FALSE
      BY <1>8 DEF Frames!Abandon
    <2> QED
      BY <1>0, <2>1
  <1>9. CASE UNCHANGED Frames!frames
    BY <1>9 DEF Frames!frames
  <1> QED
    BY <1>1, <1>2, <1>3, <1>4, <1>5, <1>6, <1>7, <1>8, <1>9 DEF FrameStep, Frames!Next

\* The frames waiting, being written and owed, in the contract's terms.
LEMMA FrameSets ==
    ASSUME TypeOK, SlotInv
    PROVE  /\ PendingGens = {pendingRender.gen} \ {NoGen}
           /\ ActiveGens = {CurrentGen} \ {NoGen}
           /\ pendingRender # NoRender <=> pendingRender.gen # NoGen
           /\ UnstartedRender <=> CurrentGen # NoGen /\ ~FrameBegun
           /\ FrameBegun => CurrentGen # NoGen
  <1>1. ActiveGens = {CurrentGen} \ {NoGen}
    BY DEF ActiveGens, CurrentGen, SlotInv
  <1>2. pendingRender # NoRender <=> pendingRender.gen # NoGen
    BY DEF TypeOK, Render, NoRender
  <1>3. RenderSlot \in DOMAIN active <=> CurrentGen # NoGen
    BY DEF CurrentGen, SlotInv
  <1> QED
    BY <1>1, <1>2, <1>3 DEF PendingGens, UnstartedRender, FrameBegun

\* FramesOrdered and OneReplaceable are GenerationOrder and OneUnstartedRender.
LEMMA OrderMeans ==
    ASSUME TypeOK, SlotInv, FramesOrdered, OneReplaceable
    PROVE  GenerationOrder /\ OneUnstartedRender
  <1>1. OneUnstartedRender
    BY FrameSets DEF OneUnstartedRender, OneReplaceable
  <1>2. \A g \in AwaitGens : \E i \in DOMAIN awaitRenders : g = awaitRenders[i]
    BY DEF AwaitGens
  <1>3. \A g \in AwaitGens :
           presented < g /\ g < nextGen /\ \A h \in ActiveGens \cup PendingGens : g < h
    BY <1>2, FrameSets DEF FramesOrdered
  <1>4. \A g \in ActiveGens : presented < g /\ g < nextGen /\ \A h \in PendingGens : g < h
    BY FrameSets DEF FramesOrdered
  <1>5. \A g \in PendingGens : g < nextGen
    BY FrameSets DEF FramesOrdered
  <1> QED
    BY <1>1, <1>3, <1>4, <1>5 DEF FramesOrdered, GenerationOrder, RetainedGens

OrderInv == TypeOK /\ SlotInv /\ FramesOrdered /\ OneReplaceable

\* The order holds at first.
LEMMA OrderInit == Init => OrderInv
  <1> SUFFICES ASSUME Init PROVE FramesOrdered /\ OneReplaceable
    BY TypeInit, FrameInit DEF OrderInv
  <1>1. DOMAIN active = {} /\ pendingRender.gen = NoGen
    BY EmptyIsQueue DEF Init, NoRender
  <1>2. CurrentGen = NoGen /\ \A i \in DOMAIN awaitRenders : FALSE
    BY <1>1 DEF CurrentGen, Init
  <1> QED
    BY <1>1, <1>2 DEF Init, FramesOrdered, OneReplaceable, NoGen

\* Every step keeps the order, and is a step of the contract.
LEMMA OrderStep == OrderInv /\ [Next]_vars => OrderInv' /\ FrameStep
  BY TypeNext, FrameNext, OrderNext, FrameSets DEF OrderInv

\* The order is an invariant.
LEMMA OrderHolds == Spec => []OrderInv
  BY OrderInit, OrderStep, PTL DEF Spec

\* Frames keep their order from acceptance to receipt, in every reachable state
\* of a scheduler of any size.
THEOREM Ordered == Spec => []GenerationOrder
  <1>1. OrderInv => GenerationOrder
    BY OrderMeans DEF OrderInv
  <1> QED
    BY <1>1, OrderHolds, PTL

\* There are never two replaceable frames.
THEOREM Replaceable == Spec => []OneUnstartedRender
  <1>1. OrderInv => OneUnstartedRender
    BY OrderMeans DEF OrderInv
  <1> QED
    BY <1>1, OrderInit, OrderStep, PTL DEF Spec

\* Receipts never go back to an older frame.
THEOREM ReceiptOrder == Spec => ReceiptsInOrder
  <1>1. OrderInv /\ [Next]_vars => [presented' = presented \/ presented' > presented]_vars
    <2> SUFFICES ASSUME OrderInv, [Next]_vars PROVE presented' = presented \/ presented' > presented
      OBVIOUS
    <2>1. CASE Frames!Report
      <3>1. Len(awaitRenders) \in DOMAIN awaitRenders
        BY <2>1 DEF Frames!Report, OrderInv, TypeOK
      <3>2. presented' = awaitRenders[Len(awaitRenders)]
        BY <2>1 DEF Frames!Report
      <3>3. presented \in Nat /\ awaitRenders[Len(awaitRenders)] \in Nat
        BY <3>1, FrameTypes DEF OrderInv
      <3> QED
        BY <3>1, <3>2, <3>3 DEF OrderInv, FramesOrdered
    <2>2. CASE ~Frames!Report
      BY <2>2, OrderStep DEF FrameStep, Frames!Next, Frames!frames, Frames!Accept, Frames!Evict,
                             Frames!Cleanup, Frames!Activate, Frames!Begin, Frames!Finish,
                             Frames!Abandon
    <2> QED
      BY <2>1, <2>2
  <1> QED
    BY <1>1, OrderInit, OrderStep, PTL DEF Spec, ReceiptsInOrder

-----------------------------------------------------------------------------
(* A receipt means that the frame's bytes were flushed *)

FlushInv ==
    /\ ~flushRequired => unflushed = {}
    /\ presented \notin unflushed

\* What a step does to the flush bookkeeping.
LEMMA FlushStep ==
    ASSUME OrderInv, [Next]_vars, FlushInv
    PROVE  FlushInv'
  <1>1. CASE UNCHANGED <<flushRequired, unflushed, presented>>
    BY <1>1 DEF FlushInv
  <1>2. CASE FlushOk \/ FlushFailed \/ \E i \in DOMAIN active : WriteFailed(i)
    <2>1. unflushed' = {}
      BY <1>2 DEF FlushOk, FlushFailed, WriteFailed, Fail
    <2> QED
      BY <2>1 DEF FlushInv
  <1>3. CASE FinishUnflushed
    <2>1. unflushed = {} /\ unflushed' = unflushed
      BY <1>3 DEF FinishUnflushed, FlushInv
    <2> QED
      BY <2>1 DEF FlushInv
  <1>4. ASSUME NEW i \in DOMAIN active, NEW n \in 1 .. WriteBudget, WriteSome(i, n)
        PROVE  FlushInv'
    <2>1. /\ flushRequired' = TRUE
          /\ unflushed' = unflushed \cup ({active[i].gen} \ {NoGen})
          /\ presented' = presented
      BY <1>4 DEF WriteSome
    <2>2. active[i].gen # NoGen => presented < active[i].gen
      BY DEF OrderInv, SlotInv, FramesOrdered, CurrentGen
    <2>3. presented \in Nat /\ active[i].gen \in Nat
      BY DEF OrderInv, TypeOK, IsQueue, Transaction
    <2>4. presented \notin unflushed'
      BY <2>1, <2>2, <2>3 DEF FlushInv
    <2> QED
      BY <2>1, <2>4 DEF FlushInv
  <1>5. CASE Enqueue
    <2>1. UNCHANGED <<flushRequired, unflushed, presented>>
      BY <1>5 DEF Enqueue, EnqueueBytes, EnqueueRender, DropRender, EnqueueTerminalEffect,
                  EnqueueBell, history
    <2> QED
      BY <1>1, <2>1
  <1>6. CASE Control \/ Tick \/ \E force \in BOOLEAN : DrainCall(force)
    <2>1. UNCHANGED <<flushRequired, unflushed, presented>>
      BY <1>6 DEF Control, SetSynchronizedOutputSupported, SynchronizationOpen,
                  SynchronizationClosed, SetApplicationSynchronizationBypassed,
                  PrepareForLifecycleCleanup, NotifyWritable, Recover, Tick, DrainCall, history
    <2> QED
      BY <1>1, <2>1
  <1>7. CASE \/ FlushBlocked \/ DrainHeld \/ DrainTooYoung \/ DrainActivate
             \/ \E i \in DOMAIN active : WritePop(i) \/ WriteBlocked(i) \/ FinishPop(i)
             \/ WriteDone \/ FinishToFlush
    <2>1. UNCHANGED <<flushRequired, unflushed, presented>>
      BY <1>7 DEF FlushBlocked, DrainHeld, DrainTooYoung, DrainActivate, WritePop, WriteBlocked,
                  FinishPop, WriteDone, FinishToFlush, Block, Pop, history
    <2> QED
      BY <1>1, <2>1
  <1>8. CASE UNCHANGED vars
    BY <1>1, <1>8 DEF vars, history
  <1> QED
    BY <1>2, <1>3, <1>4, <1>5, <1>6, <1>7, <1>8 DEF Next, DrainStep

\* Only a frame that was written and then flushed has a receipt.
THEOREM ReceiptsAreTrue == Spec => []ReceiptMeansFlushed
  <1>1. Init => OrderInv /\ FlushInv
    <2>1. Init => FlushInv
      BY DEF Init, FlushInv
    <2> QED
      BY <2>1, OrderInit
  <1>2. OrderInv /\ FlushInv /\ [Next]_vars => OrderInv' /\ FlushInv'
    BY OrderStep, FlushStep
  <1>3. OrderInv /\ FlushInv => ReceiptMeansFlushed
    <2> SUFFICES ASSUME OrderInv, FlushInv PROVE presented \notin RetainedGens
      BY DEF FlushInv, ReceiptMeansFlushed
    <2>1. GenerationOrder /\ presented \in Nat
      BY OrderMeans, FrameTypes DEF OrderInv
    <2>2. \A g \in AwaitGens \cup ActiveGens : presented < g
      BY <2>1 DEF GenerationOrder
    <2>3. \A g \in PendingGens : presented < g
      BY FrameSets DEF OrderInv, FramesOrdered
    <2> QED
      BY <2>1, <2>2, <2>3 DEF RetainedGens
  <1> QED
    BY <1>1, <1>2, <1>3, PTL DEF Spec

-----------------------------------------------------------------------------
(* The frame that ends a hold exists *)

\* A step that neither loses a frame nor names a new boundary is harmless.
LEMMA BoundaryKept ==
    ASSUME NoDanglingBoundary,
           RetainedGens \subseteq RetainedGens',
           bypassGen' \in {bypassGen, NoGen},
           releaseGen' \in {releaseGen, NoGen} \cup RetainedGens'
    PROVE  NoDanglingBoundary'
  BY DEF NoDanglingBoundary, NoGen

\* The frames retained are those of the three queues.
LEMMA SameRetained ==
    ASSUME UNCHANGED <<pendingRender, active, awaitRenders>>
    PROVE  RetainedGens' = RetainedGens
  BY DEF RetainedGens, PendingGens, ActiveGens, AwaitGens, NoGen

\* The frame chosen when a hold times out is retained.
LEMMA TimeoutBoundary ==
    ASSUME OrderInv
    PROVE  BoundaryOnTimeout \in RetainedGens \cup {NoGen}
  <1>1. CASE pendingRender # NoRender
    BY <1>1 DEF BoundaryOnTimeout, RetainedGens, PendingGens
  <1>2. CASE pendingRender = NoRender /\ RenderSlot \in DOMAIN active
    BY <1>2 DEF BoundaryOnTimeout, RetainedGens, ActiveGens
  <1>3. CASE pendingRender = NoRender /\ RenderSlot \notin DOMAIN active /\ awaitRenders # <<>>
    <2>1. Len(awaitRenders) \in DOMAIN awaitRenders
      BY <1>3 DEF OrderInv, TypeOK
    <2> QED
      BY <1>3, <2>1 DEF BoundaryOnTimeout, RetainedGens, AwaitGens
  <1>4. CASE pendingRender = NoRender /\ RenderSlot \notin DOMAIN active /\ awaitRenders = <<>>
    BY <1>4 DEF BoundaryOnTimeout
  <1> QED
    BY <1>1, <1>2, <1>3, <1>4

\* Enqueueing keeps the boundary or hands it to the frame that replaces it.
LEMMA BoundaryEnqueue ==
    ASSUME OrderInv, NoDanglingBoundary, Enqueue
    PROVE  NoDanglingBoundary'
  <1>1. ASSUME NEW n \in ControlSizes, EnqueueBytes(n)
        PROVE  NoDanglingBoundary'
    <2>1. UNCHANGED <<awaitRenders, bypassGen, releaseGen>>
      BY <1>1 DEF EnqueueBytes, awaits, holds
    <2>2. CASE active' = active /\ pendingRender' = pendingRender
      BY <2>1, <2>2, SameRetained DEF NoDanglingBoundary, NoGen
    <2>3. CASE active' = KeptActive /\ pendingRender' = KeptRender
      <3> DEFINE K == {i \in DOMAIN active :
                          Started(active, i) \/ i = ControlSlot \/ IsBoundary(active[i].gen)}
      <3>1. DOMAIN active' = K /\ \A i \in K : active'[i] = active[i]
        BY <2>3 DEF KeptActive, Restrict
      <3>2. \A g \in ActiveGens : IsBoundary(g) => g \in ActiveGens'
        BY <3>1 DEF ActiveGens, NoGen
      <3>3. \A g \in PendingGens : IsBoundary(g) => g \in PendingGens'
        BY <2>3 DEF PendingGens, KeptRender, NoGen
      <3>4. AwaitGens' = AwaitGens
        BY <2>1 DEF AwaitGens
      <3>5. \A g \in RetainedGens : IsBoundary(g) => g \in RetainedGens'
        BY <3>2, <3>3, <3>4 DEF RetainedGens
      <3> QED
        BY <2>1, <3>5 DEF NoDanglingBoundary, IsBoundary, NoGen
    <2> QED
      BY <1>1, <2>2, <2>3 DEF EnqueueBytes
  <1>2. ASSUME NEW n \in RenderSizes, EnqueueRender(n)
        PROVE  NoDanglingBoundary'
    <2>1. /\ pendingRender'.gen = nextGen
          /\ awaitRenders' = awaitRenders
          /\ active' = WithoutReplaced
          /\ releaseGen' = IF releaseGen \in ReplacedGens THEN nextGen ELSE releaseGen
          /\ bypassGen' = IF bypassNext \/ bypassGen \in ReplacedGens THEN nextGen ELSE bypassGen
      BY <1>2 DEF EnqueueRender, awaits
    <2>2. nextGen \in RetainedGens'
      BY <2>1 DEF RetainedGens, PendingGens, OrderInv, TypeOK, NoGen
    <2>3. AwaitGens' = AwaitGens
      BY <2>1 DEF AwaitGens
    <2>4. ActiveGens \subseteq ActiveGens' \cup ReplacedGens
      <3>1. CASE UnstartedRender
        <4>1. /\ ReplacedGens = PendingGens \cup {active[RenderSlot].gen}
              /\ ActiveGens \subseteq {active[RenderSlot].gen}
          BY <3>1 DEF ReplacedGens, ActiveGens, OrderInv, SlotInv
        <4> QED
          BY <4>1
      <3>2. CASE ~UnstartedRender
        BY <2>1, <3>2 DEF WithoutReplaced, ActiveGens, NoGen
      <3> QED
        BY <3>1, <3>2
    <2>5. RetainedGens \subseteq RetainedGens' \cup ReplacedGens
      BY <2>3, <2>4 DEF RetainedGens, ReplacedGens
    <2> QED
      BY <2>1, <2>2, <2>5 DEF NoDanglingBoundary, NoGen
  <1>3. ASSUME NEW n \in RenderSizes, DropRender(n)
        PROVE  NoDanglingBoundary'
    BY <1>3, SameRetained, BoundaryKept DEF DropRender, queued, pendings, awaits
  <1>4. ASSUME NEW e \in Effect, EnqueueTerminalEffect(e)
        PROVE  NoDanglingBoundary'
    <2> DEFINE K == DOMAIN active \ SupersededActive(e)
    <2>1. /\ UNCHANGED <<pendingRender, awaitRenders, bypassGen, releaseGen>>
          /\ active' = Restrict(active, K)
      BY <1>4 DEF EnqueueTerminalEffect, awaits, holds
    <2>2. RenderSlot \notin EffectSlots
      BY InputAssumption DEF RenderSlot, EffectSlots
    <2>3. DOMAIN active' = K /\ \A i \in K : active'[i] = active[i]
      BY <2>1 DEF Restrict
    <2>4. ActiveGens \subseteq ActiveGens'
      BY <2>2, <2>3 DEF ActiveGens, SupersededActive, OrderInv, SlotInv, NoGen
    <2>5. RetainedGens \subseteq RetainedGens'
      BY <2>1, <2>4 DEF RetainedGens, PendingGens, AwaitGens, NoGen
    <2> QED
      BY <2>1, <2>5, BoundaryKept
  <1>5. ASSUME NEW n \in BellCounts, EnqueueBell(n)
        PROVE  NoDanglingBoundary'
    BY <1>5, SameRetained, BoundaryKept DEF EnqueueBell, awaits, holds
  <1> QED
    BY <1>1, <1>2, <1>3, <1>4, <1>5 DEF Enqueue

\* Between drains a boundary is kept, or cleared with the hold it ends.
LEMMA BoundaryControl ==
    ASSUME OrderInv, NoDanglingBoundary, Control
    PROVE  NoDanglingBoundary'
  <1>1. ASSUME NEW b \in Support, SetSynchronizedOutputSupported(b)
        PROVE  NoDanglingBoundary'
    <2>1. UNCHANGED <<active, awaitRenders, bypassGen, releaseGen>>
      BY <1>1 DEF SetSynchronizedOutputSupported, awaits, holds
    <2>2. pendingRender'.gen = pendingRender.gen
      <3>1. CASE pendingRender = NoRender
        BY <1>1, <3>1 DEF SetSynchronizedOutputSupported
      <3>2. CASE pendingRender \in Render
        BY <1>1, <3>2 DEF SetSynchronizedOutputSupported, Render, NoRender
      <3> QED
        BY <3>1, <3>2 DEF OrderInv, TypeOK
    <2>3. RetainedGens' = RetainedGens
      BY <2>1, <2>2 DEF RetainedGens, PendingGens, ActiveGens, AwaitGens, NoGen
    <2> QED
      BY <2>1, <2>3, BoundaryKept
  <1>2. CASE PrepareForLifecycleCleanup
    BY <1>2 DEF PrepareForLifecycleCleanup, NoDanglingBoundary, NoGen
  <1>3. CASE \/ \E opened \in Opens, activity \in BOOLEAN : SynchronizationOpen(opened, activity)
             \/ SynchronizationClosed
             \/ \E b \in BOOLEAN : SetApplicationSynchronizationBypassed(b)
             \/ NotifyWritable
             \/ Recover
    <2>1. /\ UNCHANGED <<pendingRender, active, awaitRenders, bypassGen>>
          /\ releaseGen' \in {releaseGen, NoGen}
      BY <1>3 DEF SynchronizationOpen, SynchronizationClosed,
                  SetApplicationSynchronizationBypassed, NotifyWritable, Recover,
                  queued, pendings, awaits, holds
    <2> QED
      BY <2>1, SameRetained, BoundaryKept
  <1> QED
    BY <1>1, <1>2, <1>3 DEF Control

\* A drain moves frames on without losing one, and clears a boundary with the
\* receipt it waits for.
LEMMA BoundaryDrainStep ==
    ASSUME OrderInv, NoDanglingBoundary, DrainStep
    PROVE  NoDanglingBoundary'
  <1>1. CASE FlushOk \/ FinishUnflushed
    <2>1. CompleteAwaiting /\ UNCHANGED <<pendingRender, active>>
      BY <1>1 DEF FlushOk, FinishUnflushed, queued, pendings
    <2>2. /\ PendingGens' = PendingGens
          /\ ActiveGens' = ActiveGens
      BY <2>1 DEF PendingGens, ActiveGens, NoGen
    <2> QED
      BY <2>1, <2>2 DEF CompleteAwaiting, NoDanglingBoundary, RetainedGens, NoGen
  <1>2. CASE FlushFailed \/ \E i \in DOMAIN active : WriteFailed(i)
    BY <1>2 DEF FlushFailed, WriteFailed, Fail, NoDanglingBoundary, NoGen
  <1>3. CASE FlushBlocked \/ DrainHeld \/ WriteDone \/ FinishToFlush
             \/ \E i \in DOMAIN active : WriteBlocked(i)
    <2>1. UNCHANGED <<pendingRender, active, awaitRenders, bypassGen, releaseGen>>
      BY <1>3 DEF FlushBlocked, DrainHeld, WriteDone, FinishToFlush, WriteBlocked,
                  Block, queued, pendings, awaits, holds
    <2> QED
      BY <2>1, SameRetained, BoundaryKept
  <1>4. CASE DrainTooYoung
    <2>1. /\ UNCHANGED <<pendingRender, active, awaitRenders, bypassGen>>
          /\ releaseGen' \in {releaseGen, BoundaryOnTimeout}
      BY <1>4 DEF DrainTooYoung, ExpireHold, queued, pendings, awaits
    <2> QED
      BY <2>1, SameRetained, TimeoutBoundary, BoundaryKept
  <1>5. CASE DrainActivate
    <2>1. /\ UNCHANGED <<awaitRenders, bypassGen>>
          /\ releaseGen' \in {releaseGen, BoundaryOnTimeout}
      BY <1>5 DEF DrainActivate, ExpireHold, awaits
    <2>2. RetainedGens \subseteq RetainedGens'
      <3>1. CASE DOMAIN active = {}
        <4>1. active' = [i \in PendingSlots |-> Activated(i)]
          BY <1>5, <3>1 DEF DrainActivate
        <4>2. ActiveGens = {}
          BY <3>1 DEF ActiveGens
        <4>3. PendingGens \subseteq ActiveGens'
          <5>1. CASE pendingRender = NoRender
            BY <5>1 DEF PendingGens, NoRender
          <5>2. CASE pendingRender # NoRender
            <6>1. RenderSlot \in PendingSlots
              BY <5>2 DEF PendingSlots
            <6>2. RenderSlot \in DOMAIN active' /\ active'[RenderSlot].gen = pendingRender.gen
              BY <4>1, <6>1, ActivatedType DEF OrderInv
            <6> QED
              BY <6>2 DEF PendingGens, ActiveGens, NoGen
          <5> QED
            BY <5>1, <5>2
        <4>4. AwaitGens' = AwaitGens
          BY <2>1 DEF AwaitGens
        <4> QED
          BY <4>2, <4>3, <4>4 DEF RetainedGens
      <3>2. CASE DOMAIN active # {}
        BY <1>5, <2>1, <3>2, SameRetained DEF DrainActivate, queued, pendings
      <3> QED
        BY <3>1, <3>2
    <2> QED
      BY <2>1, <2>2, TimeoutBoundary, BoundaryKept
  <1>6. ASSUME NEW i \in DOMAIN active, WritePop(i) \/ FinishPop(i)
        PROVE  NoDanglingBoundary'
    <2>1. /\ UNCHANGED <<pendingRender, bypassGen, releaseGen>>
          /\ active' = Restrict(active, DOMAIN active \ {i})
          /\ awaitRenders' = IF active[i].gen = NoGen THEN awaitRenders
                             ELSE Append(awaitRenders, active[i].gen)
      BY <1>6 DEF WritePop, FinishPop, Pop, pendings, holds
    <2>2. \A j \in DOMAIN active \ {i} : j \in DOMAIN active' /\ active'[j] = active[j]
      BY <2>1 DEF Restrict
    <2>3. AwaitGens \cup ({active[i].gen} \ {NoGen}) \subseteq AwaitGens'
      <3>1. CASE active[i].gen = NoGen
        BY <2>1, <3>1 DEF AwaitGens
      <3>2. CASE active[i].gen # NoGen
        <4>1. awaitRenders \in Seq(Nat \ {NoGen}) /\ active[i].gen \in Nat \ {NoGen}
          BY <3>2 DEF OrderInv, TypeOK, IsQueue, Transaction
        <4>2. /\ \A j \in DOMAIN awaitRenders :
                    j \in DOMAIN awaitRenders' /\ awaitRenders'[j] = awaitRenders[j]
              /\ Len(awaitRenders) + 1 \in DOMAIN awaitRenders'
              /\ awaitRenders'[Len(awaitRenders) + 1] = active[i].gen
          BY <2>1, <3>2, <4>1
        <4> QED
          BY <4>2 DEF AwaitGens
      <3> QED
        BY <3>1, <3>2
    <2>4. ActiveGens \subseteq ActiveGens' \cup ({active[i].gen} \ {NoGen})
      BY <2>2 DEF ActiveGens, NoGen
    <2>5. RetainedGens \subseteq RetainedGens'
      BY <2>1, <2>3, <2>4 DEF RetainedGens, PendingGens, NoGen
    <2> QED
      BY <2>1, <2>5, BoundaryKept
  <1>7. ASSUME NEW i \in DOMAIN active, NEW n \in 1 .. WriteBudget, WriteSome(i, n)
        PROVE  NoDanglingBoundary'
    <2>1. /\ UNCHANGED <<pendingRender, awaitRenders, bypassGen, releaseGen>>
          /\ active' = [active EXCEPT ![i].off = @ + n]
      BY <1>7 DEF WriteSome, pendings, awaits, holds
    <2>2. DOMAIN active' = DOMAIN active /\ \A j \in DOMAIN active : active'[j].gen = active[j].gen
      BY <2>1 DEF OrderInv, TypeOK, IsQueue, Transaction
    <2>3. RetainedGens \subseteq RetainedGens'
      BY <2>1, <2>2 DEF RetainedGens, PendingGens, ActiveGens, AwaitGens, NoGen
    <2> QED
      BY <2>1, <2>3, BoundaryKept
  <1> QED
    BY <1>1, <1>2, <1>3, <1>4, <1>5, <1>6, <1>7 DEF DrainStep

\* A hold is never left waiting for a frame that is gone.
THEOREM NothingDangles == Spec => []NoDanglingBoundary
  <1>1. Init => NoDanglingBoundary
    BY DEF Init, NoDanglingBoundary
  <1>2. OrderInv /\ NoDanglingBoundary /\ [Next]_vars => NoDanglingBoundary'
    <2> SUFFICES ASSUME OrderInv, NoDanglingBoundary, [Next]_vars PROVE NoDanglingBoundary'
      OBVIOUS
    <2>1. CASE Tick \/ (\E force \in BOOLEAN : DrainCall(force)) \/ UNCHANGED vars
      <3>1. UNCHANGED <<pendingRender, active, awaitRenders, bypassGen, releaseGen>>
        BY <2>1 DEF Tick, DrainCall, vars, queued, pendings, awaits, holds
      <3> QED
        BY <3>1, SameRetained, BoundaryKept
    <2> QED
      BY <2>1, BoundaryEnqueue, BoundaryControl, BoundaryDrainStep DEF Next
  <1> QED
    BY <1>1, <1>2, OrderInit, OrderStep, PTL DEF Spec

-----------------------------------------------------------------------------
(* No transaction is torn *)

\* The transaction the stream is in the middle of has started and has bytes
\* left; NoTornTransaction says where it is.
WireInv ==
    /\ NoTornTransaction
    /\ wire # NoWire => wire.left > 0 /\ active[wire.slot].off > 0
    /\ \A i \in DOMAIN active : active[i].off <= active[i].len

\* Queue positions are integers, and offsets and lengths naturals.
LEMMA QueueTypes ==
    ASSUME TypeOK
    PROVE  /\ DOMAIN active \subseteq Int
           /\ \A i \in DOMAIN active : active[i].off \in Nat /\ active[i].len \in Nat
           /\ wire.left \in Nat
  <1>1. Slots \subseteq Int
    BY InputAssumption DEF Slots, BellSlot
  <1> QED
    BY <1>1 DEF TypeOK, IsQueue, Transaction, WireState

\* Dropping transactions that have not started, or are complete while the
\* stream is between two transactions, tears nothing.
LEMMA WireTrim ==
    ASSUME TypeOK, WireInv, NEW K \in SUBSET DOMAIN active, active' = Restrict(active, K),
           wire' = wire,
           \A i \in DOMAIN active \ K : active[i].off = 0 \/ active[i].off = active[i].len
    PROVE  WireInv'
  <1>1. DOMAIN active' = K /\ \A i \in K : active'[i] = active[i]
    BY DEF Restrict
  <1>2. CASE wire = NoWire
    BY <1>1, <1>2 DEF WireInv, NoTornTransaction, NoWire
  <1>3. CASE wire # NoWire
    <2>1. /\ wire.slot \in DOMAIN active
          /\ active[wire.slot].len - active[wire.slot].off = wire.left
          /\ wire.left > 0 /\ active[wire.slot].off > 0
          /\ \A j \in DOMAIN active : wire.slot <= j
          /\ active[wire.slot].gen = wire.gen
      BY <1>3 DEF WireInv, NoTornTransaction, IsFront
    <2>2. wire.slot \in K
      BY <2>1, QueueTypes
    <2>3. IsFront(active', wire.slot)
      BY <1>1, <2>1, <2>2 DEF IsFront
    <2>4. \A i \in DOMAIN active' :
             /\ active'[i].off <= active'[i].len
             /\ active'[i].off \in 1 .. active'[i].len - 1 => wire.slot = i
      BY <1>1 DEF WireInv, NoTornTransaction
    <2> QED
      BY <1>1, <2>1, <2>2, <2>3, <2>4 DEF WireInv, NoTornTransaction
  <1> QED
    BY <1>2, <1>3

\* Nothing happens to the stream where queue and wire are left alone.
LEMMA WireKept ==
    ASSUME WireInv, UNCHANGED <<active, wire>>
    PROVE  WireInv'
  BY DEF WireInv, NoTornTransaction, IsFront, NoWire

\* A write continues the transaction at the front.
LEMMA WireWrite ==
    ASSUME TypeOK, WireInv, NEW i \in DOMAIN active, NEW n \in 1 .. WriteBudget, WriteSome(i, n)
    PROVE  WireInv'
  <1> DEFINE left == active[i].len - active[i].off - n
  <1>1. /\ IsFront(active, i)
        /\ n \in 1 .. active[i].len - active[i].off
        /\ active' = [active EXCEPT ![i].off = @ + n]
        /\ wire' = IF left = 0 THEN NoWire ELSE [slot |-> i, gen |-> active[i].gen, left |-> left]
    BY DEF WriteSome, Writable
  <1>2. /\ DOMAIN active' = DOMAIN active
        /\ \A j \in DOMAIN active : j # i => active'[j] = active[j]
        /\ active'[i].gen = active[i].gen
        /\ active'[i].len = active[i].len
        /\ active'[i].off = active[i].off + n
    BY <1>1 DEF TypeOK, IsQueue, Transaction
  <1>3. /\ active[i].off \in Nat /\ active[i].len \in Nat /\ n \in Nat /\ n > 0
        /\ i \in Int /\ DOMAIN active \subseteq Int /\ left \in Nat
    BY <1>1, QueueTypes
  <1>4. \A j \in DOMAIN active : active'[j].off <= active'[j].len
    <2>1. active'[i].off <= active'[i].len
      BY <1>2, <1>3
    <2> QED
      BY <1>2, <2>1 DEF WireInv
  \* No other transaction is in progress: its position would be the wire's,
  \* which is at the front as well.
  <1>5. \A j \in DOMAIN active : j # i => active[j].off \notin 1 .. active[j].len - 1
    <2> SUFFICES ASSUME NEW j \in DOMAIN active, j # i, active[j].off \in 1 .. active[j].len - 1
                 PROVE  FALSE
      OBVIOUS
    <2>1. wire.slot = j
      BY DEF WireInv, NoTornTransaction
    <2>2. wire # NoWire
      <3>1. -1 \notin Slots
        BY InputAssumption DEF Slots, BellSlot
      <3>2. j \in Slots
        BY DEF TypeOK, IsQueue
      <3> QED
        BY <2>1, <3>1, <3>2 DEF NoWire
    <2>3. IsFront(active, j)
      BY <2>1, <2>2 DEF WireInv, NoTornTransaction
    <2>4. i <= j /\ j <= i /\ i \in Int /\ j \in Int
      BY <1>1, <1>3, <2>3 DEF IsFront
    <2> QED
      BY <2>4
  <1> HIDE DEF left
  <1>6. IsFront(active', i)
    BY <1>1, <1>2 DEF IsFront
  <1>7. CASE left = 0
    <2>1. wire' = NoWire
      BY <1>1, <1>7
    <2>2. active'[i].off = active'[i].len
      BY <1>2, <1>3, <1>7 DEF left
    <2>3. \A j \in DOMAIN active' : active'[j].off \notin 1 .. active'[j].len - 1
      BY <1>2, <1>3, <1>5, <2>2
    <2>4. NoWire' = NoWire
      BY DEF NoWire
    <2> QED
      BY <1>2, <1>4, <2>1, <2>3, <2>4 DEF WireInv, NoTornTransaction
  <1>8. CASE left # 0
    <2>1. wire' = [slot |-> i, gen |-> active[i].gen, left |-> left]
      BY <1>1, <1>8
    <2>2. wire'.slot = i /\ wire'.gen = active[i].gen /\ wire'.left = left
      BY <2>1
    <2>3. /\ active'[i].len - active'[i].off = left
          /\ left > 0 /\ active'[i].off > 0
      BY <1>2, <1>3, <1>8 DEF left
    <2>4. \A j \in DOMAIN active' : active'[j].off \in 1 .. active'[j].len - 1 => j = i
      BY <1>2, <1>5
    <2> QED
      BY <1>2, <1>4, <1>6, <2>2, <2>3, <2>4 DEF WireInv, NoTornTransaction
  <1> QED
    BY <1>7, <1>8

\* Whatever is enqueued, evicted or cleaned up has not started.
LEMMA WireOutside ==
    ASSUME TypeOK, WireInv, Enqueue \/ Control
    PROVE  WireInv'
  <1>1. /\ wire' = wire
        /\ \E K \in SUBSET DOMAIN active :
              /\ active' = Restrict(active, K) \/ active' = active
              /\ \A i \in DOMAIN active \ K : active[i].off = 0
    <2>0. \A i \in DOMAIN active : Started(active, i) \/ active[i].off = 0
      BY QueueTypes DEF Started
    <2>1. ASSUME NEW n \in ControlSizes, EnqueueBytes(n) PROVE <1>1!1 /\ <1>1!2
      <3> DEFINE K == {i \in DOMAIN active :
                          Started(active, i) \/ i = ControlSlot \/ IsBoundary(active[i].gen)}
      <3>1. wire' = wire /\ (active' = active \/ active' = Restrict(active, K))
        BY <2>1 DEF EnqueueBytes, KeptActive, history
      <3>2. K \in SUBSET DOMAIN active /\ \A i \in DOMAIN active \ K : active[i].off = 0
        BY <2>0
      <3> HIDE DEF K
      <3> QED
        BY <3>1, <3>2
    <2>2. ASSUME NEW n \in RenderSizes, EnqueueRender(n) PROVE <1>1!1 /\ <1>1!2
      <3> DEFINE K == DOMAIN active \ ({RenderSlot} \cup ReturnedBells)
      <3>1. wire' = wire /\ active' = WithoutReplaced
        BY <2>2 DEF EnqueueRender, history
      <3>2. CASE UnstartedRender
        <4>1. active' = Restrict(active, K)
          BY <3>1, <3>2 DEF WithoutReplaced
        <4>2. K \in SUBSET DOMAIN active /\ \A i \in DOMAIN active \ K : active[i].off = 0
          BY <2>0, <3>2 DEF UnstartedRender, ReturnedBells
        <4> HIDE DEF K
        <4> QED
          BY <3>1, <4>1, <4>2
      <3>3. CASE ~UnstartedRender
        BY <3>1, <3>3 DEF WithoutReplaced
      <3> QED
        BY <3>2, <3>3
    <2>3. ASSUME NEW e \in Effect, EnqueueTerminalEffect(e) PROVE <1>1!1 /\ <1>1!2
      <3> DEFINE K == DOMAIN active \ SupersededActive(e)
      <3>1. wire' = wire /\ active' = Restrict(active, K)
        BY <2>3 DEF EnqueueTerminalEffect, history
      <3>2. K \in SUBSET DOMAIN active /\ \A i \in DOMAIN active \ K : active[i].off = 0
        BY <2>0 DEF SupersededActive
      <3> HIDE DEF K
      <3> QED
        BY <3>1, <3>2
    <2>4. CASE PrepareForLifecycleCleanup
      <3> DEFINE K == {i \in DOMAIN active : Started(active, i)}
      <3>1. wire' = wire /\ active' = Restrict(active, K)
        BY <2>4 DEF PrepareForLifecycleCleanup, history
      <3>2. K \in SUBSET DOMAIN active /\ \A i \in DOMAIN active \ K : active[i].off = 0
        BY <2>0
      <3> HIDE DEF K
      <3> QED
        BY <3>1, <3>2
    <2>5. CASE \/ \E n \in RenderSizes : DropRender(n)
               \/ \E n \in BellCounts : EnqueueBell(n)
               \/ \E b \in Support : SetSynchronizedOutputSupported(b)
               \/ \E opened \in Opens, activity \in BOOLEAN : SynchronizationOpen(opened, activity)
               \/ SynchronizationClosed
               \/ \E b \in BOOLEAN : SetApplicationSynchronizationBypassed(b)
               \/ NotifyWritable
               \/ Recover
      <3>1. UNCHANGED <<active, wire>>
        BY <2>5 DEF DropRender, EnqueueBell, SetSynchronizedOutputSupported, SynchronizationOpen,
                    SynchronizationClosed, SetApplicationSynchronizationBypassed, NotifyWritable,
                    Recover, queued, history
      <3> QED
        BY <3>1
    <2> QED
      BY <2>1, <2>2, <2>3, <2>4, <2>5 DEF Enqueue, Control
  <1> QED
    BY <1>1, WireTrim, WireKept

\* A drain writes the front transaction to its end before it looks at another.
LEMMA WireDrainStep ==
    ASSUME TypeOK, WireInv, DrainStep
    PROVE  WireInv'
  <1>1. CASE FlushFailed \/ \E i \in DOMAIN active : WriteFailed(i)
    <2>1. DOMAIN active' = {} /\ wire' = NoWire
      BY <1>1, EmptyIsQueue DEF FlushFailed, WriteFailed, Fail
    <2> QED
      BY <2>1 DEF WireInv, NoTornTransaction, NoWire
  <1>2. CASE \/ FlushOk \/ FinishUnflushed \/ FlushBlocked \/ DrainHeld \/ DrainTooYoung
             \/ WriteDone \/ FinishToFlush \/ \E i \in DOMAIN active : WriteBlocked(i)
    <2>1. UNCHANGED <<active, wire>>
      BY <1>2 DEF FlushOk, FinishUnflushed, FlushBlocked, DrainHeld, DrainTooYoung, WriteDone,
                  FinishToFlush, WriteBlocked, Block, queued, history
    <2> QED
      BY <2>1, WireKept
  <1>3. CASE DrainActivate
    <2>1. wire' = wire
      BY <1>3 DEF DrainActivate, history
    <2>2. CASE DOMAIN active = {}
      <3>1. wire = NoWire
        BY <2>2 DEF WireInv, NoTornTransaction, IsFront
      <3>2. /\ DOMAIN active' = PendingSlots
            /\ \A i \in PendingSlots : active'[i].off = 0 /\ active'[i].len \in Nat
        <4>1. active' = [i \in PendingSlots |-> Activated(i)]
          BY <1>3, <2>2 DEF DrainActivate
        <4> QED
          BY <4>1, ActivatedType DEF Transaction
      <3> QED
        BY <2>1, <3>1, <3>2 DEF WireInv, NoTornTransaction, NoWire
    <2>3. CASE DOMAIN active # {}
      BY <1>3, <2>1, <2>3, WireKept DEF DrainActivate, queued
    <2> QED
      BY <2>2, <2>3
  <1>4. ASSUME NEW i \in DOMAIN active, WritePop(i) \/ FinishPop(i)
        PROVE  WireInv'
    <2>1. /\ active' = Restrict(active, DOMAIN active \ {i})
          /\ wire' = wire
          /\ active[i].off = active[i].len
      BY <1>4 DEF WritePop, FinishPop, Pop, Finishable, history
    <2> QED
      BY <2>1, WireTrim
  <1> QED
    BY <1>1, <1>2, <1>3, <1>4, WireWrite DEF DrainStep

\* The stream and the queue agree.
LEMMA WireHolds == Spec => []WireInv
  <1>1. Init => WireInv
    BY EmptyIsQueue DEF Init, WireInv, NoTornTransaction
  <1>2. TypeOK /\ WireInv /\ [Next]_vars => WireInv'
    <2> SUFFICES ASSUME TypeOK, WireInv, [Next]_vars PROVE WireInv'
      OBVIOUS
    <2>1. CASE Tick \/ (\E force \in BOOLEAN : DrainCall(force)) \/ UNCHANGED vars
      <3>1. UNCHANGED <<active, wire>>
        BY <2>1 DEF Tick, DrainCall, vars, queued, history
      <3> QED
        BY <3>1, WireKept
    <2> QED
      BY <2>1, WireOutside, WireDrainStep DEF Next
  <1> QED
    BY <1>1, <1>2, TypeInit, TypeNext, PTL DEF Spec

\* Once a transaction has started, its bytes are never interleaved with those
\* of another and never cut off by an eviction.
THEOREM NothingTorn == Spec => []NoTornTransaction
  <1>1. WireInv => NoTornTransaction
    BY DEF WireInv
  <1> QED
    BY <1>1, WireHolds, PTL

-----------------------------------------------------------------------------
(* The conjunctions the runs check *)

\* The scheduler's fields keep their shape, what ends a hold is a frame still
\* owed, and at most one frame is replaceable.
THEOREM Shaped == Spec => []SchedulerShape
  <1>1. TypeOK /\ NoDanglingBoundary /\ OneUnstartedRender => SchedulerShape
    BY DEF SchedulerShape
  <1> QED
    BY <1>1, TypeCorrect, NothingDangles, Replaceable, PTL

\* Receipts are true and frames keep their order.
THEOREM ReceiptsCorrect == Spec => []ReceiptsExact
  <1>1. GenerationOrder /\ ReceiptMeansFlushed => ReceiptsExact
    BY DEF ReceiptsExact
  <1> QED
    BY <1>1, Ordered, ReceiptsAreTrue, PTL

-----------------------------------------------------------------------------
(* What is known while drain_ready runs *)

\* A flush is owed exactly in the phases that flush; the frame that bypasses a
\* hold waits for a flush only behind the write loop.
FlushPhases ==
    /\ drain.phase = "hold" => ~flushRequired
    /\ drain.phase \in {"flushFirst", "flush"} => flushRequired
    /\ drain.phase \in {"flushFirst", "hold"} => drain.written = 0
    /\ bypassGen \in AwaitGens =>
          \/ drain.phase = "finish"
          \/ flushRequired /\ drain.phase \in {"idle", "flushFirst", "flush"}

\* An unforced write loop starts transactions of a held queue only for the
\* bypassing frame.
WritePhase ==
    (drain.phase = "write" /\ ~drain.finishOnly /\ ~drain.force /\ sync.mode = "Active")
        => bypassGen # NoGen

\* A drain that has made no progress found nothing it could start.
NoProgress ==
    (drain.phase \in {"write", "finish"} /\ ~drain.progress) =>
        /\ drain.written = 0
        /\ ~Expired
        /\ DOMAIN active = {} => ~HasPending
        /\ drain.phase = "write" /\ drain.finishOnly => FrontStarted
        /\ drain.phase = "finish" => DOMAIN active = {}

DrainInv == FlushPhases /\ WritePhase /\ NoProgress

\* The calls between drains leave the drain alone and name only new frames.
LEMMA DrainOutside ==
    ASSUME OrderInv, DrainInv, Enqueue \/ Control \/ Tick \/ UNCHANGED vars
    PROVE  DrainInv'
  <1>1. CASE UNCHANGED vars
    BY <1>1 DEF vars, pendings, awaits, holds, DrainInv, FlushPhases, WritePhase, NoProgress,
       AwaitGens, Expired, TimedOut, HasPending, FrontStarted, IsFront, Started, NoGen, NoRender
  <1>2. CASE ~UNCHANGED vars
    <2>1. /\ drain.phase = "idle" /\ drain' = drain /\ flushRequired' = flushRequired
          /\ awaitRenders' \in {awaitRenders, <<>>}
          /\ bypassGen' \in {bypassGen, nextGen, NoGen}
      BY <1>2 DEF Enqueue, Control, Tick, EnqueueBytes, EnqueueRender, DropRender,
         EnqueueTerminalEffect, EnqueueBell, SetSynchronizedOutputSupported, SynchronizationOpen,
         SynchronizationClosed, SetApplicationSynchronizationBypassed, PrepareForLifecycleCleanup,
         NotifyWritable, Recover, Resting, awaits, holds
    <2>2. nextGen \notin AwaitGens /\ NoGen \notin AwaitGens
      <3>1. \A g \in AwaitGens : g < nextGen /\ g \in Nat \ {NoGen}
        BY OrderMeans DEF OrderInv, GenerationOrder, RetainedGens, AwaitGens, TypeOK
      <3> QED
        BY <3>1 DEF OrderInv, TypeOK
    <2>3. AwaitGens' \subseteq AwaitGens
      BY <2>1 DEF AwaitGens
    <2> QED
      BY <2>1, <2>2, <2>3 DEF DrainInv, FlushPhases, WritePhase, NoProgress
  <1> QED
    BY <1>1, <1>2

\* A non-empty queue has a front.
LEMMA FrontExists ==
    ASSUME TypeOK, DOMAIN active # {}
    PROVE  \E i \in DOMAIN active : IsFront(active, i)
  <1>1. DOMAIN active \subseteq 0 .. BellSlot /\ BellSlot \in Int
    BY InputAssumption DEF TypeOK, IsQueue, Slots, BellSlot
  <1>2. IsFiniteSet(DOMAIN active) /\ DOMAIN active \in SUBSET Int
    <2>1. IsFiniteSet(0 .. BellSlot)
      BY <1>1, FS_Interval
    <2> QED
      BY <1>1, <2>1, FS_Subset
  <1> QED
    BY <1>2, SmallestExists DEF IsFront

\* The drain's fields when it enters the write loop.
LEMMA ActivatedDrain ==
    ASSUME drain \in DrainState, NEW a \in BOOLEAN, NEW b \in BOOLEAN,
           drain' = [drain EXCEPT !.phase = "write", !.finishOnly = a, !.progress = @ \/ b]
    PROVE  /\ drain'.phase = "write" /\ drain'.force = drain.force /\ drain'.written = drain.written
           /\ drain'.finishOnly <=> a
           /\ drain'.progress <=> drain.progress \/ b
  BY DEF DrainState

\* The steps of drain_ready keep what is known about it.
LEMMA DrainSteady ==
    ASSUME OrderInv, DrainInv, DrainStep \/ \E force \in BOOLEAN : DrainCall(force)
    PROVE  DrainInv'
  <1> USE DEF NoGen
  <1>0. /\ TypeOK /\ drain \in DrainState
        /\ FlushPhases /\ WritePhase /\ NoProgress
    BY DEF OrderInv, TypeOK, DrainInv
  <1>1. ASSUME NEW force \in BOOLEAN, DrainCall(force) PROVE DrainInv'
    <2>1. /\ drain.phase = "idle"
          /\ drain' = [Idle EXCEPT !.phase = IF flushRequired THEN "flushFirst" ELSE "hold",
                                   !.force = force]
          /\ UNCHANGED <<awaitRenders, bypassGen, flushRequired>>
      BY <1>1 DEF DrainCall, Resting, awaits, holds
    <2>2. drain'.phase = (IF flushRequired THEN "flushFirst" ELSE "hold") /\ drain'.written = 0
      BY <2>1 DEF Idle
    <2>3. AwaitGens' = AwaitGens
      BY <2>1 DEF AwaitGens
    <2>4. flushRequired \in BOOLEAN
      BY <1>0 DEF TypeOK
    <2> QED
      BY <1>0, <2>1, <2>2, <2>3, <2>4 DEF DrainInv, FlushPhases, WritePhase, NoProgress
  <1>2. CASE FlushOk
    <2>1. flushRequired' = FALSE /\ awaitRenders' = <<>>
      BY <1>2 DEF FlushOk, CompleteAwaiting
    <2>2. AwaitGens' = {}
      BY <2>1 DEF AwaitGens
    <2>3. CASE drain.phase = "flushFirst"
      <3>1. drain' = [drain EXCEPT !.phase = "hold", !.progress = TRUE]
        BY <1>2, <2>3 DEF FlushOk, GotoWithProgress, InPhase
      <3>2. drain'.phase = "hold" /\ drain'.written = 0
        BY <1>0, <2>3, <3>1 DEF DrainState, FlushPhases
      <3> QED
        BY <2>1, <2>2, <3>2 DEF DrainInv, FlushPhases, WritePhase, NoProgress
    <2>4. CASE drain.phase # "flushFirst"
      <3>1. drain'.phase = "idle"
        BY <1>2, <2>4 DEF FlushOk, Return, InPhase, Idle
      <3> QED
        BY <2>1, <2>2, <3>1 DEF DrainInv, FlushPhases, WritePhase, NoProgress
    <2> QED
      BY <2>3, <2>4
  <1>3. CASE FlushFailed \/ \E i \in DOMAIN active : WriteFailed(i)
    <2>1. drain'.phase = "idle" /\ awaitRenders' = <<>>
      BY <1>3 DEF FlushFailed, WriteFailed, Fail, Return, Idle
    <2>2. AwaitGens' = {}
      BY <2>1 DEF AwaitGens
    <2> QED
      BY <2>1, <2>2 DEF DrainInv, FlushPhases, WritePhase, NoProgress
  <1>4. CASE FlushBlocked \/ DrainHeld \/ DrainTooYoung \/ \E i \in DOMAIN active : WriteBlocked(i)
    <2>1. /\ drain'.phase = "idle" /\ UNCHANGED <<awaitRenders, flushRequired, bypassGen>>
          /\ drain.phase # "finish"
      BY <1>4 DEF FlushBlocked, DrainHeld, DrainTooYoung, WriteBlocked, Writable, InPhase, Block,
         Return, Idle, awaits, holds
    <2>2. AwaitGens' = AwaitGens
      BY <2>1 DEF AwaitGens
    <2> QED
      BY <1>0, <2>1, <2>2 DEF DrainInv, FlushPhases, WritePhase, NoProgress
  <1>5. CASE DrainActivate
    <2>0. drain' = [drain EXCEPT !.phase = "write", !.finishOnly = Held, !.progress = @ \/ Expired]
      BY <1>5 DEF DrainActivate
    <2>1. /\ drain.phase = "hold" /\ (~Held \/ FrontStarted)
          /\ UNCHANGED <<awaitRenders, flushRequired, bypassGen>>
          /\ sync' = IF Expired THEN IgnoredSync ELSE sync
      BY <1>5 DEF DrainActivate, InPhase, awaits, ExpireHold
    <2>2. AwaitGens' = AwaitGens
      BY <2>1 DEF AwaitGens
    <2>3. /\ drain'.phase = "write" /\ drain'.force = drain.force /\ drain'.written = drain.written
          /\ drain'.finishOnly <=> Held
          /\ drain'.progress <=> drain.progress \/ Expired
      <3>1. Held \in BOOLEAN /\ Expired \in BOOLEAN
        BY DEF Held, Expired
      <3> QED
        BY <1>0, <2>0, <3>1, ActivatedDrain
    <2>4. FlushPhases'
      <3>1. bypassGen \notin AwaitGens
        BY <1>0, <2>1 DEF FlushPhases
      <3>2. drain'.phase = "write"
        BY <2>3
      <3> QED
        BY <2>1, <2>2, <3>1, <3>2 DEF FlushPhases
    <2>5. WritePhase'
      <3> SUFFICES ASSUME ~Held, ~drain.force, sync'.mode = "Active" PROVE bypassGen # NoGen
        BY <2>1, <2>3 DEF WritePhase
      <3>1. ~Expired
        BY <2>1 DEF IgnoredSync
      <3> QED
        BY <2>1, <3>1 DEF Held, Expired
    <2>6. NoProgress'
      <3> SUFFICES ASSUME ~drain'.progress
                   PROVE  /\ drain'.written = 0
                          /\ ~Expired'
                          /\ DOMAIN active' = {} => ~HasPending'
                          /\ drain'.finishOnly => FrontStarted'
        BY <2>3 DEF NoProgress
      <3>1. ~Expired /\ sync' = sync
        BY <2>1, <2>3
      <3>2. drain'.written = 0
        BY <1>0, <2>1, <2>3 DEF FlushPhases
      <3>3. ~Expired'
        BY <3>1 DEF Expired, TimedOut
      <3>4. CASE DOMAIN active # {}
        <4>1. UNCHANGED <<active, pendings>>
          BY <1>5, <3>4 DEF DrainActivate, queued
        <4>2. FrontStarted' <=> FrontStarted
          BY <4>1 DEF FrontStarted, IsFront, Started
        <4> QED
          BY <2>1, <2>3, <3>2, <3>3, <3>4, <4>1, <4>2
      <3>5. CASE DOMAIN active = {}
        <4>1. ~Held
          BY <2>1, <3>5 DEF FrontStarted
        <4>2. ~HasPending'
          <5>1. /\ controlBytes' = 0 /\ pendingRender' = NoRender /\ pendingEffects' = EmptyQueue
                /\ pendingBells' = 0
            BY <1>5, <3>5 DEF DrainActivate
          <5> QED
            BY <5>1, EmptyIsQueue DEF HasPending, NoRender
        <4> QED
          BY <2>3, <3>2, <3>3, <4>1, <4>2
      <3> QED
        BY <3>4, <3>5
    <2> QED
      BY <2>4, <2>5, <2>6 DEF DrainInv
  <1>6. ASSUME NEW i \in DOMAIN active, NEW n \in 1 .. WriteBudget, WriteSome(i, n)
        PROVE  DrainInv'
    <2>1. /\ drain.phase = "write" /\ flushRequired' = TRUE
          /\ drain' = [drain EXCEPT !.written = @ + n, !.progress = TRUE]
          /\ UNCHANGED <<awaitRenders, bypassGen, sync>>
      BY <1>6 DEF WriteSome, Writable, InPhase, awaits, holds
    <2>2. /\ drain'.phase = "write" /\ drain'.progress /\ drain'.force = drain.force
          /\ drain'.finishOnly = drain.finishOnly
      BY <1>0, <2>1 DEF DrainState
    <2>3. AwaitGens' = AwaitGens
      BY <2>1 DEF AwaitGens
    <2> QED
      BY <1>0, <2>1, <2>2, <2>3 DEF DrainInv, FlushPhases, WritePhase, NoProgress
  <1>7. ASSUME NEW i \in DOMAIN active, WritePop(i) \/ FinishPop(i)
        PROVE  DrainInv'
    <2>1. /\ UNCHANGED <<flushRequired, bypassGen, sync>>
          /\ awaitRenders' = IF active[i].gen = NoGen THEN awaitRenders
                             ELSE Append(awaitRenders, active[i].gen)
      BY <1>7 DEF WritePop, FinishPop, Pop, holds
    <2>2. awaitRenders \in Seq(Nat \ {NoGen})
      BY <1>0 DEF TypeOK
    <2>3. AwaitGens' \subseteq AwaitGens \cup {active[i].gen}
      BY <2>1, <2>2 DEF AwaitGens
    <2>4. EndsBypass(i) \in BOOLEAN
      BY DEF EndsBypass
    <2>5. /\ drain'.progress /\ drain'.force = drain.force
          /\ drain'.finishOnly = drain.finishOnly
          /\ drain'.phase = "finish" \/ (drain'.phase = "write" /\ drain.phase = "write" /\ ~EndsBypass(i))
      <3>1. CASE WritePop(i)
        <4>1. /\ drain.phase = "write"
              /\ drain' = [drain EXCEPT !.phase = IF EndsBypass(i) THEN "finish" ELSE "write",
                              !.reached = EndsBypass(i), !.progress = TRUE]
          BY <3>1 DEF WritePop, Writable, InPhase
        <4> QED
          BY <1>0, <2>4, <4>1 DEF DrainState
      <3>2. CASE FinishPop(i)
        <4>1. /\ drain.phase = "finish"
              /\ drain' = [drain EXCEPT !.reached = EndsBypass(i), !.progress = TRUE]
          BY <3>2 DEF FinishPop, Finishable, InPhase
        <4> QED
          BY <1>0, <2>4, <4>1 DEF DrainState
      <3> QED
        BY <1>7, <3>1, <3>2
    <2>6. CASE drain'.phase = "finish"
      BY <2>5, <2>6 DEF DrainInv, FlushPhases, WritePhase, NoProgress
    <2>7. CASE drain'.phase = "write" /\ drain.phase = "write" /\ ~EndsBypass(i)
      <3>1. bypassGen \notin AwaitGens
        BY <1>0, <2>7 DEF FlushPhases
      <3>2. NoGen \notin AwaitGens'
        <4>1. active[i].gen \in Nat /\ AwaitGens \subseteq Nat \ {NoGen}
          BY <1>0 DEF TypeOK, IsQueue, Transaction, AwaitGens
        <4>2. awaitRenders' \in Seq(Nat \ {NoGen})
          BY <2>1, <2>2, <4>1
        <4> QED
          BY <4>2 DEF AwaitGens
      <3>3. bypassGen \notin AwaitGens'
        BY <2>3, <2>7, <3>1, <3>2 DEF EndsBypass
      <3> QED
        BY <1>0, <2>1, <2>5, <2>7, <3>3 DEF DrainInv, FlushPhases, WritePhase, NoProgress
    <2> QED
      BY <2>5, <2>6, <2>7
  <1>8. CASE WriteDone
    <2>1. /\ drain.phase = "write" /\ drain' = [drain EXCEPT !.phase = "finish"]
          /\ ~\E i \in DOMAIN active : Writable(i)
          /\ UNCHANGED <<active, pendings, sync>>
      BY <1>8 DEF WriteDone, InPhase, Goto, queued, holds
    <2>2. drain'.phase = "finish" /\ drain'.progress = drain.progress /\ drain'.written = drain.written
      BY <1>0, <2>1 DEF DrainState
    <2>3. ASSUME ~drain.progress PROVE DOMAIN active = {}
      <3> SUFFICES ASSUME DOMAIN active # {} PROVE FALSE
        OBVIOUS
      <3>1. drain.written < WriteBudget
        BY <1>0, <2>1, <2>3, SizeAssumption DEF NoProgress
      <3>2. CASE drain.finishOnly
        <4>1. PICK i \in DOMAIN active : IsFront(active, i) /\ Started(active, i)
          BY <1>0, <2>1, <2>3, <3>2 DEF NoProgress, FrontStarted
        <4>2. active[i].off # 0
          BY <4>1 DEF Started
        <4> QED
          BY <2>1, <3>1, <4>1, <4>2 DEF Writable, InPhase
      <3>3. CASE ~drain.finishOnly
        <4>1. PICK i \in DOMAIN active : IsFront(active, i)
          BY <1>0, FrontExists
        <4> QED
          BY <2>1, <3>1, <3>3, <4>1 DEF Writable, InPhase
      <3> QED
        BY <3>2, <3>3
    <2>4. ~drain.progress => ~Expired' /\ ~HasPending'
      <3>1. Expired' = Expired /\ HasPending' = HasPending
        BY <2>1 DEF Expired, TimedOut, HasPending, pendings, NoRender, NoGen
      <3> QED
        BY <1>0, <2>1, <2>3, <3>1 DEF NoProgress
    <2> QED
      BY <1>0, <2>1, <2>2, <2>3, <2>4 DEF DrainInv, FlushPhases, WritePhase, NoProgress
  <1>9. CASE FinishToFlush \/ FinishUnflushed
    <2>1. CASE FinishToFlush
      <3>1. /\ drain' = [drain EXCEPT !.phase = "flush"] /\ flushRequired /\ flushRequired' = flushRequired
        BY <2>1 DEF FinishToFlush, Goto
      <3>2. drain'.phase = "flush"
        BY <1>0, <3>1 DEF DrainState
      <3> QED
        BY <3>1, <3>2 DEF DrainInv, FlushPhases, WritePhase, NoProgress
    <2>2. CASE FinishUnflushed
      <3>1. drain'.phase = "idle" /\ awaitRenders' = <<>>
        BY <2>2 DEF FinishUnflushed, CompleteAwaiting, Return, Idle
      <3>2. AwaitGens' = {}
        BY <3>1 DEF AwaitGens
      <3> QED
        BY <3>1, <3>2 DEF DrainInv, FlushPhases, WritePhase, NoProgress
    <2> QED
      BY <1>9, <2>1, <2>2
  <1> QED
    BY <1>1, <1>2, <1>3, <1>4, <1>5, <1>6, <1>7, <1>8, <1>9 DEF DrainStep

\* What is known about a drain is an invariant.
LEMMA DrainHolds == Spec => []DrainInv
  <1>1. Init => DrainInv
    <2> SUFFICES ASSUME Init PROVE DrainInv
      OBVIOUS
    <2>1. drain.phase = "idle" /\ AwaitGens = {}
      BY DEF Init, Idle, AwaitGens
    <2> QED
      BY <2>1 DEF DrainInv, FlushPhases, WritePhase, NoProgress
  <1>2. OrderInv /\ DrainInv /\ [Next]_vars => DrainInv'
    BY DrainOutside, DrainSteady DEF Next
  <1> QED
    BY <1>1, <1>2, OrderHolds, PTL DEF Spec

-----------------------------------------------------------------------------
(* A hold is respected *)

\* Only a write moves an offset.
LEMMA OffsetsMoveByWriting ==
    ASSUME TypeOK, [Next]_vars, NEW i \in DOMAIN active \cap DOMAIN active'
    PROVE  \/ active'[i].off = active[i].off
           \/ \E n \in 1 .. WriteBudget : WriteSome(i, n)
  <1>1. ASSUME NEW K \in SUBSET DOMAIN active, active' = Restrict(active, K)
        PROVE  active'[i] = active[i]
    BY <1>1 DEF Restrict
  <1>2. CASE UNCHANGED active
    BY <1>2
  <1>3. CASE Enqueue \/ Control
    <2>1. ASSUME NEW n \in ControlSizes, EnqueueBytes(n) PROVE active'[i] = active[i]
      BY <1>1, <2>1 DEF EnqueueBytes, KeptActive
    <2>2. ASSUME NEW n \in RenderSizes, EnqueueRender(n) \/ DropRender(n)
          PROVE  active'[i] = active[i]
      <3>1. active' \in {active, Restrict(active, DOMAIN active \ ({RenderSlot} \cup ReturnedBells))}
        BY <2>2 DEF EnqueueRender, DropRender, WithoutReplaced, queued
      <3> QED
        BY <1>1, <3>1
    <2>3. ASSUME NEW e \in Effect, EnqueueTerminalEffect(e) PROVE active'[i] = active[i]
      BY <1>1, <2>3 DEF EnqueueTerminalEffect
    <2>4. CASE PrepareForLifecycleCleanup
      BY <1>1, <2>4 DEF PrepareForLifecycleCleanup
    <2>5. CASE \/ \E n \in BellCounts : EnqueueBell(n)
               \/ \E b \in Support : SetSynchronizedOutputSupported(b)
               \/ \E opened \in Opens, activity \in BOOLEAN : SynchronizationOpen(opened, activity)
               \/ SynchronizationClosed
               \/ \E b \in BOOLEAN : SetApplicationSynchronizationBypassed(b)
               \/ NotifyWritable
               \/ Recover
      BY <1>2, <2>5 DEF EnqueueBell, SetSynchronizedOutputSupported, SynchronizationOpen,
         SynchronizationClosed, SetApplicationSynchronizationBypassed, NotifyWritable, Recover, queued
    <2> QED
      BY <1>3, <2>1, <2>2, <2>3, <2>4, <2>5 DEF Enqueue, Control
  <1>4. CASE \/ FlushOk \/ FlushBlocked \/ DrainHeld \/ DrainTooYoung
             \/ WriteDone \/ FinishToFlush \/ FinishUnflushed
             \/ \E j \in DOMAIN active : WriteBlocked(j)
             \/ Tick \/ \E force \in BOOLEAN : DrainCall(force)
    BY <1>2, <1>4 DEF FlushOk, FlushBlocked, Block, DrainHeld, DrainTooYoung, WriteDone, FinishToFlush,
       FinishUnflushed, WriteBlocked, Tick, DrainCall, queued
  <1>5. CASE FlushFailed \/ \E j \in DOMAIN active : WriteFailed(j)
    <2>1. DOMAIN active' = {}
      BY <1>5, EmptyIsQueue DEF FlushFailed, WriteFailed, Fail
    <2> QED
      BY <2>1
  <1>6. CASE DrainActivate
    BY <1>2, <1>6 DEF DrainActivate, queued
  <1>7. ASSUME NEW j \in DOMAIN active, WritePop(j) \/ FinishPop(j)
        PROVE  active'[i] = active[i]
    BY <1>1, <1>7 DEF WritePop, FinishPop, Pop
  <1>8. ASSUME NEW j \in DOMAIN active, NEW n \in 1 .. WriteBudget, WriteSome(j, n)
        PROVE  j = i \/ active'[i] = active[i]
    BY <1>8 DEF WriteSome
  <1>9. UNCHANGED vars => UNCHANGED active
    BY DEF vars
  <1> QED
    BY <1>2, <1>3, <1>4, <1>5, <1>6, <1>7, <1>8, <1>9 DEF Next, DrainStep

\* The step of HoldRespected.
HoldStep ==
    \A i \in DOMAIN active \cap DOMAIN active' :
        (/\ ~Started(active, i) /\ Started(active', i)
         /\ sync.mode = "Active" /\ ~drain.force) =>
        \/ bypassGen \in PendingGens
        \/ \E j \in DOMAIN active : j >= i /\ active[j].gen = bypassGen /\ bypassGen # NoGen

LEMMA HoldKept ==
    ASSUME OrderInv, DrainInv, NoDanglingBoundary, [Next]_vars
    PROVE  HoldStep
  <1> SUFFICES ASSUME NEW i \in DOMAIN active \cap DOMAIN active',
                      ~Started(active, i), Started(active', i),
                      sync.mode = "Active", ~drain.force
               PROVE  \/ bypassGen \in PendingGens
                      \/ \E j \in DOMAIN active : j >= i /\ active[j].gen = bypassGen
                                                 /\ bypassGen # NoGen
    BY DEF HoldStep
  <1>1. PICK n \in 1 .. WriteBudget : WriteSome(i, n)
    BY OffsetsMoveByWriting DEF OrderInv, Started
  <1>2. drain.phase = "write" /\ IsFront(active, i) /\ ~(drain.finishOnly /\ active[i].off = 0)
    BY <1>1 DEF WriteSome, Writable, InPhase
  <1>3. active[i].off = 0
    BY QueueTypes DEF OrderInv, Started
  <1>4. bypassGen # NoGen
    BY <1>2, <1>3 DEF DrainInv, WritePhase
  <1>5. bypassGen \in PendingGens \cup ActiveGens
    BY <1>2, <1>4 DEF NoDanglingBoundary, RetainedGens, DrainInv, FlushPhases
  <1> QED
    BY <1>2, <1>4, <1>5, QueueTypes DEF ActiveGens, IsFront, OrderInv

-----------------------------------------------------------------------------
(* The event loop does not spin *)

\* A hold that has not expired ends in the future.
LEMMA SyncDelayAhead ==
    ASSUME TypeOK
    PROVE  /\ SyncDelay \in Int
           /\ SyncDelay = NoDeadline <=> sync.mode # "Active"
           /\ ~Expired => SyncDelay # 0
  <1>1. CASE sync.mode # "Active"
    BY <1>1 DEF SyncDelay, NoDeadline
  <1>2. CASE sync.mode = "Active"
    <2>1. IdleTimeout - sync.idle \in Int /\ HardTimeout - sync.started \in Int
      BY TimingAssumption DEF TypeOK, SyncState
    <2>2. PICK m \in Int : /\ m = Min({IdleTimeout - sync.idle, HardTimeout - sync.started})
                           /\ m = IdleTimeout - sync.idle \/ m = HardTimeout - sync.started
      BY <2>1, PairMinMax
    <2>3. SyncDelay = Max({0, m}) /\ Max({0, m}) = IF 0 <= m THEN m ELSE 0
      BY <1>2, <2>2, PairMinMax DEF SyncDelay
    <2>4. ~Expired => m > 0
      BY <1>2, <2>2, TimingAssumption DEF Expired, TimedOut, TypeOK, SyncState
    <2> QED
      BY <1>2, <2>3, <2>4 DEF NoDeadline
  <1> QED
    BY <1>1, <1>2

\* The deadlines next_deadline_ms takes the earlier of, when work is pending.
LatencyDelay == IF pendingAge = NoAge THEN NoDeadline ELSE Max({0, Latency - pendingAge})
Delays == ({LatencyDelay} \cup {SyncDelay}) \ {NoDeadline}

LEMMA DelaysFinite ==
    ASSUME TypeOK
    PROVE  /\ LatencyDelay \in Int
           /\ LatencyDelay = NoDeadline <=> pendingAge = NoAge
           /\ pendingAge # NoAge /\ pendingAge < Latency => LatencyDelay > 0
           /\ Delays # {} => Min(Delays) \in Delays
  <1>1. /\ LatencyDelay \in Int
        /\ LatencyDelay = NoDeadline <=> pendingAge = NoAge
        /\ pendingAge # NoAge /\ pendingAge < Latency => LatencyDelay > 0
    <2>1. CASE pendingAge = NoAge
      BY <2>1 DEF LatencyDelay, NoDeadline
    <2>2. CASE pendingAge # NoAge
      <3>1. Latency - pendingAge \in Int
        BY <2>2, TimingAssumption DEF TypeOK, NoAge
      <3>2. LatencyDelay = IF 0 <= Latency - pendingAge THEN Latency - pendingAge ELSE 0
        BY <2>2, <3>1, PairMinMax DEF LatencyDelay
      <3> QED
        BY <2>2, <3>1, <3>2, TimingAssumption DEF NoDeadline, TypeOK, NoAge
    <2> QED
      BY <2>1, <2>2
  <1>2. Delays # {} => Min(Delays) \in Delays
    <2>1. IsFiniteSet({LatencyDelay} \cup {SyncDelay})
      BY FS_Singleton, FS_AddElement
    <2>2. IsFiniteSet(Delays) /\ Delays \in SUBSET Int
      BY <1>1, <2>1, SyncDelayAhead, FS_Subset DEF Delays
    <2> QED
      BY <2>2, MinIsElement
  <1> QED
    BY <1>1, <1>2

\* next_deadline_ms by its cases.
LEMMA NextDelayCases ==
    ASSUME TypeOK, ~waiting
    PROVE  \/ /\ DOMAIN active = {} /\ ~HasPending /\ ~flushRequired
              /\ NextDelay = SyncDelay
           \/ /\ DOMAIN active # {} \/ flushRequired
              /\ ~(/\ sync.mode = "Active" /\ bypassGen = NoGen
                   /\ DOMAIN active # {} /\ ~FrontStarted)
              /\ NextDelay = 0
           \/ /\ bypassGen = NoGen /\ sync.mode = "Active"
              /\ NextDelay = SyncDelay
           \/ /\ DOMAIN active = {} /\ ~flushRequired /\ HasPending
              /\ NextDelay = IF Delays = {} THEN NoDeadline ELSE Min(Delays)
  BY SyncDelayAhead DEF NextDelay, Delays, LatencyDelay

\* What a drain that found nothing to do leaves behind.
NothingDue ==
    /\ ~Expired
    /\ ~flushRequired
    /\ DOMAIN active # {} => sync.mode = "Active" /\ bypassGen = NoGen /\ ~FrontStarted
    /\ HasPending /\ DOMAIN active = {} =>
          \/ sync.mode = "Active" /\ bypassGen = NoGen
          \/ pendingAge # NoAge /\ pendingAge < Latency

LEMMA NothingDueMeans ==
    ASSUME TypeOK, NothingDue
    PROVE  NextDelay # 0
  <1>1. CASE waiting
    BY <1>1 DEF NextDelay, NoDeadline
  <1>2. CASE ~waiting
    <2>1. CASE NextDelay = SyncDelay
      BY <2>1, SyncDelayAhead DEF NothingDue
    <2>2. CASE /\ DOMAIN active = {} /\ ~flushRequired /\ HasPending
               /\ ~(sync.mode = "Active" /\ bypassGen = NoGen)
               /\ NextDelay = IF Delays = {} THEN NoDeadline ELSE Min(Delays)
      <3>1. \A d \in Delays : d # 0
        BY <2>2, DelaysFinite, SyncDelayAhead DEF Delays, NothingDue
      <3> QED
        BY <2>2, <3>1, DelaysFinite DEF NoDeadline
    <2>3. CASE sync.mode = "Active" /\ bypassGen = NoGen
      BY <1>2, <2>3, SyncDelayAhead DEF NothingDue, NextDelay
    <2> QED
      BY <1>2, <2>1, <2>2, <2>3, NextDelayCases DEF NothingDue
  <1> QED
    BY <1>1, <1>2

\* The steps that do not return from drain_ready.
LEMMA DrainGoesOn ==
    ASSUME drain \in DrainState,
           \/ DrainActivate \/ WriteDone \/ FinishToFlush
           \/ \E i \in DOMAIN active : \/ WritePop(i) \/ FinishPop(i)
                                       \/ \E n \in 1 .. WriteBudget : WriteSome(i, n)
    PROVE  drain'.phase \in {"write", "finish", "flush"}
  <1>1. CASE DrainActivate
    <2>1. Held \in BOOLEAN /\ Expired \in BOOLEAN
      BY DEF Held, Expired
    <2>2. drain' = [drain EXCEPT !.phase = "write", !.finishOnly = Held, !.progress = @ \/ Expired]
      BY <1>1 DEF DrainActivate
    <2> QED
      BY <2>1, <2>2, ActivatedDrain
  <1>2. CASE WriteDone \/ FinishToFlush
    BY <1>2 DEF WriteDone, FinishToFlush, Goto, DrainState
  <1>3. ASSUME NEW i \in DOMAIN active, NEW n \in 1 .. WriteBudget, WriteSome(i, n)
        PROVE  drain'.phase = "write"
    BY <1>3 DEF WriteSome, Writable, InPhase, DrainState
  <1>4. ASSUME NEW i \in DOMAIN active, WritePop(i) \/ FinishPop(i)
        PROVE  drain'.phase \in {"write", "finish"}
    <2>1. \/ drain' = [drain EXCEPT !.phase = IF EndsBypass(i) THEN "finish" ELSE "write",
                                    !.reached = EndsBypass(i), !.progress = TRUE]
          \/ /\ drain.phase = "finish"
             /\ drain' = [drain EXCEPT !.reached = EndsBypass(i), !.progress = TRUE]
      BY <1>4 DEF WritePop, FinishPop, Finishable, InPhase
    <2> QED
      BY <2>1 DEF DrainState
  <1> QED
    BY <1>1, <1>2, <1>3, <1>4

\* The step of NoBusySpin.
SpinStep ==
    (/\ ~Resting /\ Resting' /\ ~drain.force /\ ~drain.progress
     /\ UNCHANGED <<queued, awaits, flushRequired, waiting, holds>>)
    => NextDelay' # 0

LEMMA NeverSpins ==
    ASSUME OrderInv, DrainInv, [Next]_vars
    PROVE  SpinStep
  <1> SUFFICES ASSUME ~Resting, Resting', ~drain.force, ~drain.progress,
                      UNCHANGED <<queued, awaits, flushRequired, waiting, holds>>
               PROVE  NextDelay' # 0
    BY DEF SpinStep
  <1>1. NextDelay' = NextDelay
    <2>1. HasPending' = HasPending /\ SyncDelay' = SyncDelay /\ FrontStarted' = FrontStarted
      BY DEF HasPending, SyncDelay, FrontStarted, IsFront, Started, queued, pendings, holds, NoRender,
         NoGen, NoDeadline
    <2> QED
      BY <2>1 DEF NextDelay, queued, pendings, holds, NoGen, NoDeadline, NoAge
  <1>2. TypeOK /\ FlushPhases /\ NoProgress /\ drain \in DrainState
    BY DEF OrderInv, DrainInv, TypeOK
  <1>3. drain.phase # "idle" /\ drain'.phase = "idle"
    BY DEF Resting
  <1>4. CASE waiting
    BY <1>1, <1>4 DEF NextDelay, NoDeadline
  <1> SUFFICES ASSUME ~waiting PROVE NothingDue
    BY <1>1, <1>2, <1>4, NothingDueMeans
  <1>5. DrainStep
    BY <1>3 DEF Next, vars, Enqueue, Control, Tick, DrainCall, EnqueueBytes, EnqueueRender, DropRender,
       EnqueueTerminalEffect, EnqueueBell, SetSynchronizedOutputSupported, SynchronizationOpen,
       SynchronizationClosed, SetApplicationSynchronizationBypassed, PrepareForLifecycleCleanup,
       NotifyWritable, Recover, Resting
  <1>6. CASE FlushBlocked \/ \E i \in DOMAIN active : WriteBlocked(i)
    BY <1>6 DEF FlushBlocked, WriteBlocked, Block
  <1>7. CASE FlushFailed \/ \E i \in DOMAIN active : WriteFailed(i)
    <2>1. /\ DOMAIN active = {} /\ ~flushRequired /\ sync = NoSync
          /\ controlBytes = 0 /\ pendingRender = NoRender /\ pendingEffects = EmptyQueue
          /\ pendingBells = 0
      BY <1>7, EmptyIsQueue DEF FlushFailed, WriteFailed, Fail, queued, pendings, holds
    <2>2. ~HasPending
      BY <2>1, EmptyIsQueue DEF HasPending
    <2> QED
      BY <2>1, <2>2 DEF NothingDue, Expired, NoSync
  <1>8. CASE FlushOk
    BY <1>2, <1>3, <1>8 DEF FlushOk, FlushPhases, InPhase
  <1>9. CASE DrainHeld
    <2>1. drain.phase = "hold" /\ Held /\ ~FrontStarted
      BY <1>9 DEF DrainHeld, InPhase
    <2> QED
      BY <1>2, <2>1 DEF NothingDue, FlushPhases, Held, Expired
  <1>10. CASE DrainTooYoung
    <2>1. /\ drain.phase = "hold" /\ TooYoung /\ (~Held \/ FrontStarted)
          /\ sync' = IF Expired THEN IgnoredSync ELSE sync
      BY <1>10 DEF DrainTooYoung, InPhase, ExpireHold
    <2>2. ~Expired
      BY <2>1 DEF holds, Expired, IgnoredSync
    <2> QED
      BY <1>2, <2>1, <2>2 DEF NothingDue, FlushPhases, TooYoung
  <1>11. CASE FinishUnflushed
    <2>1. drain.phase = "finish" /\ ~flushRequired
      BY <1>11 DEF FinishUnflushed, InPhase
    <2> QED
      BY <1>2, <2>1 DEF NothingDue, NoProgress
  <1>12. CASE \/ DrainActivate \/ WriteDone \/ FinishToFlush
              \/ \E i \in DOMAIN active : \/ WritePop(i) \/ FinishPop(i)
                                          \/ \E n \in 1 .. WriteBudget : WriteSome(i, n)
    BY <1>2, <1>3, <1>12, DrainGoesOn
  <1> QED
    BY <1>5, <1>6, <1>7, <1>8, <1>9, <1>10, <1>11, <1>12 DEF DrainStep

\* What a drain may never do, for a scheduler of any size: start what an
\* application holds back, or return without progress to a deadline that has
\* already passed.
THEOREM DrainsBehave == Spec => DrainSteps
  <1>1. OrderInv /\ DrainInv /\ NoDanglingBoundary /\ [Next]_vars => HoldStep /\ SpinStep
    BY HoldKept, NeverSpins
  <1> QED
    BY <1>1, OrderHolds, DrainHolds, NothingDangles, PTL
       DEF Spec, DrainSteps, HoldRespected, NoBusySpin, HoldStep, SpinStep

-----------------------------------------------------------------------------
(* The bytes that are left of a queue *)

Left(act) == [i \in DOMAIN act |-> act[i].len - act[i].off]
\* The active queue, or what an operation keeps of it.
WellFormed(act) ==
    /\ IsQueue(act, Slots, Transaction)
    /\ \A i \in DOMAIN act : act[i].off <= act[i].len

LEMMA LeftTypes ==
    ASSUME NEW act, WellFormed(act)
    PROVE  /\ IsFiniteSet(DOMAIN act)
           /\ DOMAIN Left(act) = DOMAIN act
           /\ \A i \in DOMAIN act : Left(act)[i] = act[i].len - act[i].off /\ Left(act)[i] \in Nat
           /\ ActiveBytes(act) = SumFunctionOnSet(Left(act), DOMAIN act)
           /\ ActiveBytes(act) \in Nat
  <1>1. IsFiniteSet(DOMAIN act)
    <2>1. DOMAIN act \subseteq 0 .. BellSlot /\ BellSlot \in Int
      BY InputAssumption DEF WellFormed, IsQueue, Slots, BellSlot
    <2>2. IsFiniteSet(0 .. BellSlot)
      BY <2>1, FS_Interval
    <2> QED
      BY <2>1, <2>2, FS_Subset
  <1>2. \A i \in DOMAIN act : Left(act)[i] = act[i].len - act[i].off /\ Left(act)[i] \in Nat
    BY DEF WellFormed, IsQueue, Transaction, Left
  <1>3. DOMAIN Left(act) = DOMAIN act /\ ActiveBytes(act) = SumFunctionOnSet(Left(act), DOMAIN act)
    BY DEF Left, ActiveBytes, SumFunction
  <1> QED
    BY <1>1, <1>2, <1>3, SumType

\* A queue that keeps some transactions keeps their bytes.
LEMMA LeftOfPart ==
    ASSUME NEW act, WellFormed(act), NEW K \in SUBSET DOMAIN act
    PROVE  /\ WellFormed(Restrict(act, K))
           /\ DOMAIN Restrict(act, K) = K
           /\ ActiveBytes(Restrict(act, K)) = SumFunctionOnSet(Left(act), K)
           /\ ActiveBytes(Restrict(act, K)) <= ActiveBytes(act)
  <1> DEFINE part == Restrict(act, K)
  <1>1. DOMAIN part = K /\ \A i \in K : part[i] = act[i]
    BY DEF Restrict
  <1>2. WellFormed(part)
    BY <1>1, RestrictQueue DEF WellFormed
  <1> HIDE DEF part
  <1>3. \A i \in K : Left(part)[i] = Left(act)[i]
    BY <1>1 DEF Left
  <1>4. SumFunctionOnSet(Left(part), K) = SumFunctionOnSet(Left(act), K)
    BY <1>1, <1>2, <1>3, LeftTypes, SumAgrees
  <1>5. SumFunctionOnSet(Left(act), K) <= SumFunctionOnSet(Left(act), DOMAIN act)
    BY LeftTypes, SumMonotone
  <1> QED
    BY <1>1, <1>2, <1>4, <1>5, LeftTypes DEF part

\* The empty queue holds no bytes.
LEMMA LeftOfNothing ==
    ASSUME NEW act, DOMAIN act = {}
    PROVE  ActiveBytes(act) = 0
  <1>1. DOMAIN Left(act) = {}
    BY DEF Left
  <1>2. SumFunctionOnSet(Left(act), {}) = 0
    BY FS_EmptySet, SumTakesOff
  <1> QED
    BY <1>1, <1>2 DEF ActiveBytes, SumFunction, Left

\* The sizes of the queues are naturals.
LEMMA SizeTypes ==
    ASSUME TypeOK, WireInv
    PROVE  /\ WellFormed(active)
           /\ controlBytes \in Nat /\ pendingRender.bytes \in Nat /\ pendingBells \in Nat
           /\ IsFiniteSet(DOMAIN pendingEffects)
           /\ \A K \in SUBSET DOMAIN pendingEffects :
                 /\ Cardinality(K) \in Nat
                 /\ Cardinality(K) <= Cardinality(DOMAIN pendingEffects)
           /\ EffectBytes \in Nat /\ MaxPending \in Nat /\ ControlLimit \in Nat
           /\ Wrapper \in Nat /\ ControlLimit <= MaxPending
  <1>1. WellFormed(active)
    BY DEF TypeOK, WireInv, WellFormed
  <1>2. pendingRender.bytes \in Nat
    BY DEF TypeOK, Render, NoRender
  <1>3. IsFiniteSet(DOMAIN pendingEffects)
    <2>1. DOMAIN pendingEffects \subseteq 1 .. MaxEffects /\ MaxEffects \in Int
      BY InputAssumption DEF TypeOK, IsQueue, EffectSlots
    <2>2. IsFiniteSet(1 .. MaxEffects)
      BY <2>1, FS_Interval
    <2> QED
      BY <2>1, <2>2, FS_Subset
  <1>4. \A K \in SUBSET DOMAIN pendingEffects :
                 /\ Cardinality(K) \in Nat
                 /\ Cardinality(K) <= Cardinality(DOMAIN pendingEffects)
    BY <1>3, FS_Subset, FS_CardinalityType
  <1> QED
    BY <1>1, <1>2, <1>3, <1>4, SizeAssumption DEF TypeOK

-----------------------------------------------------------------------------
(* What is known about queued work *)

\* Queued work has started the latency clock, an effect that was accepted fits,
\* and a receipt is owed only while a flush or more output is.
PendingIsTimed == HasPending => pendingAge # NoAge
EffectsFit ==
    DOMAIN pendingEffects # {} \/ DOMAIN active \cap EffectSlots # {} => EffectBytes <= MaxPending
ReceiptIsOwed ==
    drain.phase \in {"idle", "hold"} /\ awaitRenders # <<>>
        => flushRequired \/ HasPending \/ DOMAIN active # {}
WakeInv == PendingIsTimed /\ EffectsFit /\ ReceiptIsOwed

\* A backlog is a size, and an empty one is nothing but control bytes.
LEMMA BacklogTypes ==
    ASSUME TypeOK, WireInv, NEW K \in SUBSET DOMAIN active, NEW E, IsFiniteSet(DOMAIN E),
           NEW ctl \in Nat, NEW bells \in Nat, NEW ren, ren.bytes \in Nat
    PROVE  /\ Backlog(ctl, ren, E, bells, Restrict(active, K)) \in Nat
           /\ K = {} /\ ren.bytes = 0 /\ DOMAIN E = {} /\ bells = 0
                => Backlog(ctl, ren, E, bells, Restrict(active, K)) = ctl
  <1> DEFINE act == Restrict(active, K)
  <1>1. ActiveBytes(act) \in Nat /\ DOMAIN act = K
    BY SizeTypes, LeftOfPart, LeftTypes
  <1>2. Cardinality(DOMAIN E) \in Nat /\ (DOMAIN E = {} => Cardinality(DOMAIN E) = 0)
    BY FS_CardinalityType, FS_EmptySet
  <1>3. EffectBytes * Cardinality(DOMAIN E) \in Nat
        /\ (DOMAIN E = {} => EffectBytes * Cardinality(DOMAIN E) = 0)
    BY <1>2, SizeAssumption
  <1>4. K = {} => ActiveBytes(act) = 0
    BY <1>1, LeftOfNothing
  <1> HIDE DEF act
  <1> QED
    BY <1>1, <1>3, <1>4 DEF Backlog, act

\* enqueue_bytes finds room when it has evicted everything.
LEMMA EvictedMakesRoom ==
    ASSUME TypeOK, WireInv, NEW n \in Nat, ControlBacklog + n <= ControlLimit,
           DOMAIN KeptActive = {}, KeptRender = NoRender
    PROVE  Backlog(controlBytes, KeptRender, EmptyQueue, 0, KeptActive) + n <= MaxPending
  <1> DEFINE K == {i \in DOMAIN active :
                     Started(active, i) \/ i = ControlSlot \/ IsBoundary(active[i].gen)}
  <1>1. K = {} /\ ControlSlot \notin DOMAIN active /\ KeptActive = Restrict(active, K)
    BY DEF KeptActive, Restrict
  <1>2. ControlBacklog = controlBytes /\ controlBytes \in Nat
    BY <1>1 DEF ControlBacklog, TypeOK
  <1>3. DOMAIN EmptyQueue = {} /\ IsFiniteSet(DOMAIN EmptyQueue)
    BY EmptyIsQueue, FS_EmptySet
  <1>4. KeptRender.bytes = 0
    BY DEF NoRender
  <1> HIDE DEF K
  <1>5. Backlog(controlBytes, KeptRender, EmptyQueue, 0, KeptActive) = controlBytes
    BY <1>1, <1>2, <1>3, <1>4, BacklogTypes
  <1> QED
    BY <1>2, <1>5, SizeAssumption

\* Enqueueing leaves work that the event loop is woken for.
LEMMA WakeEnqueue ==
    ASSUME TypeOK, WireInv, WakeInv, Enqueue
    PROVE  WakeInv'
  <1>0. PendingIsTimed /\ EffectsFit /\ ReceiptIsOwed
    BY DEF WakeInv
  <1>1. ASSUME NEW n \in ControlSizes, EnqueueBytes(n) PROVE WakeInv'
    <2> DEFINE fits == \/ PendingBytes + n <= MaxPending
                       \/ Backlog(controlBytes, KeptRender, EmptyQueue, 0, KeptActive) + n
                              <= MaxPending
    <2>1. n \in Nat \ {0} /\ controlBytes \in Nat
      BY InputAssumption DEF TypeOK
    <2>2. /\ controlBytes' = IF fits THEN controlBytes + n ELSE controlBytes
          /\ pendingAge' = IF fits THEN NotePending(pendingAge) ELSE pendingAge
          /\ ~fits => /\ pendingRender' = KeptRender /\ pendingEffects' = EmptyQueue
                      /\ pendingBells' = 0 /\ active' = KeptActive
          /\ pendingEffects' \in {pendingEffects, EmptyQueue}
          /\ active' \in {active, KeptActive}
          /\ UNCHANGED <<awaitRenders, flushRequired, drain>>
          /\ ControlBacklog + n <= ControlLimit
      BY <1>1 DEF EnqueueBytes, awaits
    <2>3. ~fits => DOMAIN active' # {} \/ pendingRender' # NoRender
      BY <2>1, <2>2, EvictedMakesRoom
    <2>4. fits => HasPending' /\ pendingAge' # NoAge
      BY <2>1, <2>2 DEF HasPending, NotePending, NoAge
    <2>5. ~fits => (HasPending' => HasPending)
      BY <2>2, EmptyIsQueue DEF HasPending, KeptRender, NoRender, NoGen
    <2>6. DOMAIN active' \subseteq DOMAIN active /\ DOMAIN pendingEffects' \subseteq DOMAIN pendingEffects
      BY <2>2, EmptyIsQueue DEF KeptActive, Restrict
    <2> HIDE DEF fits
    <2>7. PendingIsTimed'
      BY <1>0, <2>2, <2>4, <2>5 DEF PendingIsTimed, NoAge
    <2>8. EffectsFit'
      BY <1>0, <2>6 DEF EffectsFit, EffectSlots
    <2>9. ReceiptIsOwed'
      BY <2>3, <2>4 DEF ReceiptIsOwed, HasPending, NoRender, NoGen
    <2> QED
      BY <2>7, <2>8, <2>9 DEF WakeInv
  <1>2. ASSUME NEW n \in RenderSizes, EnqueueRender(n) PROVE WakeInv'
    <2>1. /\ pendingRender' = [gen |-> nextGen, bytes |-> FrameBytes(n)]
          /\ pendingAge' = IF UnstartedRender THEN Latency ELSE NotePending(pendingAge)
          /\ active' = WithoutReplaced
          /\ UNCHANGED pendingEffects
      BY <1>2 DEF EnqueueRender
    <2>2. pendingRender' # NoRender
      BY <2>1 DEF NoRender, TypeOK
    <2>3. pendingAge' # NoAge
      BY <2>1, TimingAssumption DEF NotePending, NoAge
    <2>4. DOMAIN active' \subseteq DOMAIN active
      BY <2>1 DEF WithoutReplaced, Restrict
    <2>5. HasPending'
      BY <2>2 DEF HasPending, NoRender, NoGen
    <2> QED
      BY <1>0, <2>1, <2>3, <2>4, <2>5 DEF WakeInv, PendingIsTimed, EffectsFit, ReceiptIsOwed, EffectSlots, NoAge
  <1>3. ASSUME NEW n \in RenderSizes, DropRender(n) PROVE WakeInv'
    <2>1. UNCHANGED <<queued, awaitRenders, flushRequired, drain>>
      BY <1>3 DEF DropRender, awaits
    <2> QED
      BY <2>1 DEF queued, pendings, WakeInv, PendingIsTimed, EffectsFit, ReceiptIsOwed, HasPending,
         EffectSlots, NoAge, NoRender, NoGen
  <1>4. ASSUME NEW e \in Effect, EnqueueTerminalEffect(e) PROVE WakeInv'
    <2> DEFINE K == DOMAIN active \ SupersededActive(e)
               act == Restrict(active, K)
               fresh == Restrict(pendingEffects, DOMAIN pendingEffects \ SupersededPending(e))
               full == (RetainedEffects(fresh, act) + 1) * EffectBytes > MaxPending
               efs == Restrict(fresh, DOMAIN fresh \ (IF full THEN OldestAlike(fresh, e) ELSE {}))
               size == Backlog(controlBytes, pendingRender, efs, pendingBells, act)
    <2>1. DOMAIN efs \subseteq DOMAIN pendingEffects /\ DOMAIN act = K
      BY DEF Restrict
    <2>2. IsFiniteSet(DOMAIN efs)
      BY <2>1, SizeTypes, FS_Subset
    <2>3. /\ active' = act
          /\ \/ size + EffectBytes > MaxPending /\ pendingEffects' = efs /\ UNCHANGED pendingAge
             \/ /\ size + EffectBytes <= MaxPending
                /\ \E s \in EffectSlots : pendingEffects' =
                         [i \in DOMAIN efs \cup {s} |-> IF i = s THEN e ELSE efs[i]]
                /\ pendingAge' = NotePending(pendingAge)
          /\ UNCHANGED <<controlBytes, pendingRender, pendingBells, awaitRenders, flushRequired,
                         drain>>
      <3>1. size + EffectBytes > MaxPending <=> ~(size + EffectBytes <= MaxPending)
        <4>1. size \in Nat
          BY <2>2, SizeTypes, BacklogTypes
        <4> HIDE DEF size
        <4> QED
          BY <4>1, SizeAssumption
      <3> QED
        BY <1>4, <3>1 DEF EnqueueTerminalEffect, awaits
    <2>4. /\ size \in Nat
          /\ K = {} /\ pendingRender.bytes = 0 /\ DOMAIN efs = {} /\ pendingBells = 0 => size = controlBytes
      BY <2>2, SizeTypes, BacklogTypes
    <2>5. SupersededActive(e) \subseteq DOMAIN active \cap EffectSlots
      BY DEF SupersededActive
    <2> HIDE DEF size, efs, act
    <2>6. CASE size + EffectBytes <= MaxPending
      <3>1. EffectBytes <= MaxPending
        BY <2>4, <2>6, SizeAssumption
      <3>2. DOMAIN pendingEffects' # {} /\ pendingAge' # NoAge
        <4>0. ~(size + EffectBytes > MaxPending)
          BY <2>4, <2>6, SizeAssumption
        <4>1. PICK s \in EffectSlots : pendingEffects' =
                         [i \in DOMAIN efs \cup {s} |-> IF i = s THEN e ELSE efs[i]]
          BY <2>3, <4>0, Zenon
        <4>2. s \in DOMAIN pendingEffects'
          BY <4>1
        <4>3. pendingAge' = NotePending(pendingAge)
          BY <2>3, <2>4, <2>6, SizeAssumption
        <4> QED
          BY <4>2, <4>3 DEF NotePending, NoAge
      <3>3. HasPending'
        BY <3>2 DEF HasPending
      <3> QED
        BY <3>1, <3>2, <3>3 DEF WakeInv, PendingIsTimed, EffectsFit, ReceiptIsOwed, NoAge
    <2>7. CASE size + EffectBytes > MaxPending
      <3>1. pendingEffects' = efs /\ pendingAge' = pendingAge
        BY <2>3, <2>4, <2>7, SizeAssumption
      <3>2. HasPending' => HasPending
        BY <2>1, <2>3, <3>1 DEF HasPending, NoRender, NoGen
      <3>3. PendingIsTimed'
        BY <1>0, <3>1, <3>2 DEF PendingIsTimed, NoAge
      <3>4. EffectsFit'
        BY <1>0, <2>1, <2>3, <3>1 DEF EffectsFit, EffectSlots
      <3>5. ReceiptIsOwed'
        <4> SUFFICES ASSUME HasPending \/ DOMAIN active # {}, ~HasPending', DOMAIN active' = {}
                     PROVE  FALSE
          BY <1>0, <2>3 DEF ReceiptIsOwed
        <4>1. /\ controlBytes = 0 /\ pendingRender = NoRender /\ DOMAIN efs = {} /\ pendingBells = 0
              /\ K = {}
          <5>1. controlBytes \in Nat /\ pendingBells \in Nat
            BY DEF TypeOK
          <5>2. ~(controlBytes' > 0) /\ pendingRender' = NoRender' /\ DOMAIN pendingEffects' = {}
                /\ ~(pendingBells' > 0)
            BY DEF HasPending
          <5>3. NoRender' = NoRender
            BY DEF NoRender, NoGen
          <5>4. DOMAIN efs = {}
            BY <3>1, <5>2
          <5>5. controlBytes = 0 /\ pendingBells = 0
            BY <2>1, <2>3, <5>1, <5>2
          <5>6. pendingRender = NoRender
            BY <2>1, <2>3, <5>2, <5>3
          <5>7. K = {}
            BY <2>1, <2>3, <5>2
          <5> QED
            BY <5>4, <5>5, <5>6, <5>7
        <4>2. size = 0
          BY <2>4, <4>1 DEF NoRender
        <4>3. EffectBytes > MaxPending
          BY <2>7, <4>2, SizeAssumption
        <4>4. DOMAIN pendingEffects # {} \/ DOMAIN active \cap EffectSlots # {}
          BY <2>5, <4>1 DEF HasPending
        <4> QED
          BY <1>0, <4>3, <4>4, SizeAssumption DEF EffectsFit
      <3> QED
        BY <3>3, <3>4, <3>5 DEF WakeInv
    <2> QED
      BY <2>4, <2>6, <2>7, SizeAssumption
  <1>5. ASSUME NEW n \in BellCounts, EnqueueBell(n) PROVE WakeInv'
    <2>1. /\ \E retained \in 1 .. n : pendingBells' = pendingBells + retained
          /\ pendingAge' = NotePending(pendingAge)
          /\ UNCHANGED <<pendingEffects, active>>
      BY <1>5 DEF EnqueueBell
    <2>2. pendingBells' > 0 /\ pendingAge' # NoAge
      BY <2>1, InputAssumption DEF TypeOK, NotePending, NoAge
    <2>3. HasPending'
      BY <2>2 DEF HasPending
    <2> QED
      BY <1>0, <2>1, <2>2, <2>3 DEF WakeInv, PendingIsTimed, EffectsFit, ReceiptIsOwed, EffectSlots, NoAge
  <1> QED
    BY <1>1, <1>2, <1>3, <1>4, <1>5 DEF Enqueue

\* The other calls between drains.
LEMMA WakeControl ==
    ASSUME TypeOK, WakeInv, Control \/ Tick
    PROVE  WakeInv'
  <1>0. PendingIsTimed /\ EffectsFit /\ ReceiptIsOwed
    BY DEF WakeInv
  <1>1. ASSUME NEW b \in Support, SetSynchronizedOutputSupported(b) PROVE WakeInv'
    <2>1. /\ UNCHANGED <<controlBytes, pendingEffects, pendingBells, pendingAge, active,
                         awaitRenders, flushRequired, drain>>
          /\ pendingRender = NoRender => pendingRender' = NoRender
          /\ pendingRender # NoRender => pendingRender'.gen = pendingRender.gen
      BY <1>1 DEF SetSynchronizedOutputSupported, awaits, TypeOK, Render
    <2>2. pendingRender' # NoRender <=> pendingRender # NoRender
      BY <2>1 DEF TypeOK, Render, NoRender
    <2>3. HasPending' <=> HasPending
      BY <2>1, <2>2 DEF HasPending, NoRender, NoGen
    <2> QED
      BY <1>0, <2>1, <2>3 DEF WakeInv, PendingIsTimed, EffectsFit, ReceiptIsOwed, EffectSlots, NoAge
  <1>2. CASE PrepareForLifecycleCleanup
    <2>1. /\ controlBytes' = 0 /\ pendingRender' = NoRender /\ pendingEffects' = EmptyQueue
          /\ pendingBells' = 0 /\ awaitRenders' = <<>>
          /\ DOMAIN active' \subseteq DOMAIN active
      BY <1>2 DEF PrepareForLifecycleCleanup, Restrict
    <2>2. ~HasPending' /\ DOMAIN pendingEffects' = {}
      BY <2>1, EmptyIsQueue DEF HasPending, NoRender, NoGen
    <2> QED
      BY <1>0, <2>1, <2>2 DEF WakeInv, PendingIsTimed, EffectsFit, ReceiptIsOwed, EffectSlots
  <1>3. CASE Tick
    <2>1. /\ UNCHANGED <<controlBytes, pendingRender, pendingEffects, pendingBells, active,
                         awaitRenders, flushRequired, drain>>
          /\ pendingAge' = IF pendingAge = NoAge THEN NoAge ELSE Older(pendingAge, Latency)
      BY <1>3 DEF Tick, awaits
    <2>2. pendingAge # NoAge => pendingAge' # NoAge
      BY <2>1, TimingAssumption DEF TypeOK, Older, NoAge
    <2>3. HasPending' <=> HasPending
      BY <2>1 DEF HasPending, NoRender, NoGen
    <2> QED
      BY <1>0, <2>1, <2>2, <2>3 DEF WakeInv, PendingIsTimed, EffectsFit, ReceiptIsOwed, EffectSlots, NoAge
  <1>4. CASE \/ \E opened \in Opens, activity \in BOOLEAN : SynchronizationOpen(opened, activity)
             \/ SynchronizationClosed
             \/ \E b \in BOOLEAN : SetApplicationSynchronizationBypassed(b)
             \/ NotifyWritable \/ Recover
    <2>1. UNCHANGED <<queued, awaitRenders, flushRequired, drain>>
      BY <1>4 DEF SynchronizationOpen, SynchronizationClosed, SetApplicationSynchronizationBypassed,
         NotifyWritable, Recover, awaits
    <2> QED
      BY <1>0, <2>1 DEF queued, pendings, WakeInv, PendingIsTimed, EffectsFit, ReceiptIsOwed, HasPending,
         EffectSlots, NoAge, NoRender, NoGen
  <1> QED
    BY <1>1, <1>2, <1>3, <1>4 DEF Control

\* The steps of a drain.
LEMMA WakeDrain ==
    ASSUME TypeOK, DrainInv, WakeInv, DrainStep \/ \E force \in BOOLEAN : DrainCall(force)
    PROVE  WakeInv'
  <1>0. /\ PendingIsTimed /\ EffectsFit /\ ReceiptIsOwed /\ FlushPhases /\ drain \in DrainState
        /\ flushRequired \in BOOLEAN
    BY DEF WakeInv, DrainInv, TypeOK
  <1> USE DEF EffectSlots, NoAge, NoRender, NoGen
  <1>1. ASSUME NEW force \in BOOLEAN, DrainCall(force) PROVE WakeInv'
    <2>1. /\ UNCHANGED <<queued, awaitRenders, flushRequired>>
          /\ drain.phase = "idle"
      BY <1>1 DEF DrainCall, awaits, Resting
    <2> QED
      BY <1>0, <2>1 DEF queued, pendings, WakeInv, PendingIsTimed, EffectsFit, ReceiptIsOwed, HasPending
  <1>2. CASE FlushFailed \/ \E i \in DOMAIN active : WriteFailed(i)
    <2>1. /\ controlBytes' = 0 /\ pendingRender' = NoRender /\ pendingEffects' = EmptyQueue
          /\ pendingBells' = 0 /\ awaitRenders' = <<>> /\ active' = EmptyQueue
      BY <1>2 DEF FlushFailed, WriteFailed, Fail
    <2>2. ~HasPending' /\ DOMAIN pendingEffects' = {} /\ DOMAIN active' = {}
      BY <2>1, EmptyIsQueue DEF HasPending
    <2> QED
      BY <2>1, <2>2 DEF WakeInv, PendingIsTimed, EffectsFit, ReceiptIsOwed
  <1>3. CASE FlushOk \/ FinishUnflushed
    <2>1. UNCHANGED queued /\ awaitRenders' = <<>>
      BY <1>3 DEF FlushOk, FinishUnflushed, CompleteAwaiting
    <2> QED
      BY <1>0, <2>1 DEF queued, pendings, WakeInv, PendingIsTimed, EffectsFit, ReceiptIsOwed, HasPending
  <1>4. CASE FlushBlocked \/ \E i \in DOMAIN active : WriteBlocked(i)
    <2>1. /\ UNCHANGED <<queued, awaitRenders, flushRequired>>
          /\ drain.phase \in {"flushFirst", "flush"} \/ DOMAIN active # {}
      BY <1>4 DEF FlushBlocked, WriteBlocked, Block, InPhase, awaits
    <2>2. flushRequired \/ DOMAIN active # {}
      BY <1>0, <2>1 DEF FlushPhases
    <2> QED
      BY <1>0, <2>1, <2>2 DEF queued, pendings, WakeInv, PendingIsTimed, EffectsFit, ReceiptIsOwed, HasPending
  <1>5. CASE DrainHeld \/ DrainTooYoung
    <2>1. /\ UNCHANGED <<queued, awaitRenders, flushRequired>>
          /\ drain.phase = "hold"
      BY <1>5 DEF DrainHeld, DrainTooYoung, InPhase, awaits
    <2> QED
      BY <1>0, <2>1 DEF queued, pendings, WakeInv, PendingIsTimed, EffectsFit, ReceiptIsOwed, HasPending
  <1>6. CASE \/ DrainActivate \/ WriteDone \/ FinishToFlush
             \/ \E i \in DOMAIN active : \/ WritePop(i) \/ FinishPop(i)
                                         \/ \E n \in 1 .. WriteBudget : WriteSome(i, n)
    <2>1. ReceiptIsOwed'
      <3>1. drain'.phase \in {"write", "finish", "flush"}
        BY <1>0, <1>6, DrainGoesOn
      <3> QED
        BY <3>1 DEF ReceiptIsOwed
    <2>2. CASE UNCHANGED pendings /\ DOMAIN active' \subseteq DOMAIN active
      BY <1>0, <2>1, <2>2 DEF pendings, WakeInv, PendingIsTimed, EffectsFit, HasPending
    <2>3. CASE DrainActivate /\ DOMAIN active = {}
      <3>1. /\ controlBytes' = 0 /\ pendingRender' = NoRender /\ pendingEffects' = EmptyQueue
            /\ pendingBells' = 0 /\ active' = [i \in PendingSlots |-> Activated(i)]
        BY <2>3 DEF DrainActivate
      <3>2. ~HasPending' /\ DOMAIN pendingEffects' = {} /\ DOMAIN active' = PendingSlots
        BY <3>1, EmptyIsQueue DEF HasPending
      <3>3. PendingSlots \cap EffectSlots # {} => DOMAIN pendingEffects # {}
        BY InputAssumption DEF PendingSlots, ControlSlot, RenderSlot, BellSlot
      <3> QED
        BY <1>0, <2>1, <3>2, <3>3 DEF WakeInv, PendingIsTimed, EffectsFit
    <2>4. CASE (DrainActivate /\ DOMAIN active # {}) \/ WriteDone \/ FinishToFlush
      BY <2>2, <2>4 DEF DrainActivate, WriteDone, FinishToFlush, queued
    <2>5. ASSUME NEW i \in DOMAIN active, WritePop(i) \/ FinishPop(i) PROVE WakeInv'
      BY <2>2, <2>5 DEF WritePop, FinishPop, Pop, Restrict
    <2>6. ASSUME NEW i \in DOMAIN active, NEW n \in 1 .. WriteBudget, WriteSome(i, n) PROVE WakeInv'
      BY <2>2, <2>6 DEF WriteSome
    <2> QED
      BY <1>6, <2>3, <2>4, <2>5, <2>6
  <1> QED
    BY <1>1, <1>2, <1>3, <1>4, <1>5, <1>6 DEF DrainStep

LEMMA WakeHolds == Spec => []WakeInv
  <1>1. Init => WakeInv
    <2> SUFFICES ASSUME Init PROVE WakeInv
      OBVIOUS
    <2>1. DOMAIN pendingEffects = {} /\ DOMAIN active = {} /\ awaitRenders = <<>>
      BY EmptyIsQueue DEF Init
    <2>2. ~HasPending
      BY <2>1 DEF Init, HasPending
    <2> QED
      BY <2>1, <2>2 DEF WakeInv, PendingIsTimed, EffectsFit, ReceiptIsOwed
  <1>2. TypeOK /\ WireInv /\ DrainInv /\ WakeInv /\ [Next]_vars => WakeInv'
    <2> SUFFICES ASSUME TypeOK, WireInv, DrainInv, WakeInv, [Next]_vars PROVE WakeInv'
      OBVIOUS
    <2>1. CASE UNCHANGED vars
      BY <2>1 DEF vars, pendings, awaits, WakeInv, PendingIsTimed, EffectsFit, ReceiptIsOwed,
         HasPending, EffectSlots, NoAge, NoRender, NoGen
    <2> QED
      BY <2>1, WakeEnqueue, WakeControl, WakeDrain DEF Next
  <1> QED
    BY <1>1, <1>2, TypeCorrect, WireHolds, DrainHolds, PTL DEF Spec

\* While anything is queued or owed and the terminal is not known to be full,
\* the event loop has a deadline to wake up for: no output is forgotten.
THEOREM AlwaysWoken == Spec => []NoLostWakeup
  <1>1. TypeOK /\ WakeInv => NoLostWakeup
    <2> SUFFICES ASSUME TypeOK, WakeInv, Resting, ~waiting,
                        HasPending \/ DOMAIN active # {} \/ flushRequired \/ awaitRenders # <<>>
                 PROVE  NextDelay # NoDeadline
      BY DEF NoLostWakeup
    <2>1. HasPending \/ DOMAIN active # {} \/ flushRequired
      BY DEF WakeInv, ReceiptIsOwed, Resting
    <2>2. CASE HasPending /\ NextDelay = IF Delays = {} THEN NoDeadline ELSE Min(Delays)
      <3>1. LatencyDelay \in Delays
        BY <2>2, DelaysFinite DEF WakeInv, PendingIsTimed, Delays
      <3>2. Min(Delays) \in Delays
        BY <3>1, DelaysFinite
      <3> QED
        BY <2>2, <3>1, <3>2 DEF Delays
    <2> QED
      BY <2>1, <2>2, NextDelayCases, SyncDelayAhead DEF NoDeadline
  <1> QED
    BY <1>1, TypeCorrect, WakeHolds, PTL

-----------------------------------------------------------------------------
(* The backlog is bounded *)

\* Within both limits, and with room for the wrapper a pending frame may still get.
BacklogInv ==
    /\ PendingBytes <= MaxPending + Wrapper
    /\ pendingRender # NoRender =>
          IF supported THEN pendingRender.bytes >= Wrapper ELSE PendingBytes <= MaxPending
    /\ ControlBacklog <= ControlLimit

EffectSize(D) == EffectBytes * Cardinality(D)

\* Retained effects cost their number of times the size of one.
LEMMA EffectSizes ==
    ASSUME NEW D, IsFiniteSet(D)
    PROVE  /\ EffectSize({}) = 0
           /\ EffectSize(D) \in Nat
           /\ \A K \in SUBSET D : EffectSize(K) \in Nat /\ EffectSize(K) <= EffectSize(D)
           /\ \A s : s \notin D => EffectSize(D \cup {s}) = EffectSize(D) + EffectBytes
  <1>1. EffectSize({}) = 0
    BY FS_EmptySet, SizeAssumption DEF EffectSize
  <1>2. ASSUME NEW K \in SUBSET D
        PROVE  EffectSize(K) \in Nat /\ EffectSize(K) <= EffectSize(D)
    <2>1. Cardinality(K) \in Nat /\ Cardinality(D) \in Nat /\ Cardinality(K) <= Cardinality(D)
      BY FS_Subset, FS_CardinalityType
    <2>2. \A a, k, d \in Nat : k <= d => a * k \in Nat /\ a * k <= a * d
      BY Z3
    <2> QED
      BY <2>1, <2>2, SizeAssumption DEF EffectSize
  <1>3. ASSUME NEW s, s \notin D PROVE EffectSize(D \cup {s}) = EffectSize(D) + EffectBytes
    <2>1. Cardinality(D \cup {s}) = Cardinality(D) + 1 /\ Cardinality(D) \in Nat
      BY <1>3, FS_AddElement, FS_CardinalityType
    <2> QED
      BY <2>1, SizeAssumption DEF EffectSize
  <1> QED
    BY <1>1, <1>2, <1>3

\* The terms of the two sums.
LEMMA BacklogTerms ==
    ASSUME TypeOK, WireInv
    PROVE  /\ PendingBytes = ActiveBytes(active) + controlBytes + pendingRender.bytes
                                + EffectSize(DOMAIN pendingEffects) + pendingBells
           /\ ActiveBytes(active) \in Nat /\ controlBytes \in Nat /\ pendingRender.bytes \in Nat
           /\ EffectSize(DOMAIN pendingEffects) \in Nat /\ pendingBells \in Nat
           /\ ControlBacklog \in Nat
  <1>1. ActiveBytes(active) \in Nat /\ EffectSize(DOMAIN pendingEffects) \in Nat
    BY SizeTypes, LeftTypes, EffectSizes
  <1>2. ControlSlot \in DOMAIN active => active[ControlSlot].len - active[ControlSlot].off \in Nat
    BY QueueTypes DEF WireInv
  <1> QED
    BY <1>1, <1>2, SizeTypes DEF PendingBytes, Backlog, EffectSize, ControlBacklog

\* An operation that only gives work up stays within the limits.
LEMMA BacklogShrinks ==
    ASSUME TypeOK, WireInv, BacklogInv, PendingBytes' \in Nat, ControlBacklog' \in Nat,
           PendingBytes' <= PendingBytes, ControlBacklog' <= ControlBacklog,
           supported' = supported, pendingRender' \in {pendingRender, NoRender}
    PROVE  BacklogInv'
  <1>1. PendingBytes \in Nat /\ ControlBacklog \in Nat
    BY BacklogTerms
  <1> QED
    BY <1>1, SizeAssumption DEF BacklogInv, NoRender, NoGen

\* Giving up transactions other than the control entry shrinks the backlog.
LEMMA BacklogTrims ==
    ASSUME TypeOK, WireInv, NEW K \in SUBSET DOMAIN active, active' = Restrict(active, K)
    PROVE  /\ ActiveBytes(active') \in Nat /\ ActiveBytes(active') <= ActiveBytes(active)
           /\ (ControlSlot \in DOMAIN active => ControlSlot \in K) =>
                 \A c \in Nat : controlBytes' = controlBytes + c => ControlBacklog' = ControlBacklog + c
           /\ controlBytes' \in 0 .. controlBytes => ControlBacklog' \in 0 .. ControlBacklog
  <1>1. DOMAIN active' = K /\ \A i \in K : active'[i] = active[i]
    BY DEF Restrict
  <1>2. ActiveBytes(active') \in Nat /\ ActiveBytes(active') <= ActiveBytes(active)
    <2>1. WellFormed(active)
      BY SizeTypes
    <2>2. WellFormed(Restrict(active, K)) /\ ActiveBytes(Restrict(active, K)) <= ActiveBytes(active)
      BY <2>1, LeftOfPart
    <2> QED
      BY <2>2, LeftTypes
  <1>3. /\ controlBytes \in Nat
        /\ ControlSlot \in DOMAIN active => active[ControlSlot].len - active[ControlSlot].off \in Nat
    BY QueueTypes DEF WireInv, TypeOK
  <1>4. ControlBacklog' = controlBytes' + (IF ControlSlot \in K
              THEN active[ControlSlot].len - active[ControlSlot].off ELSE 0)
    BY <1>1 DEF ControlBacklog, ControlSlot
  <1> QED
    BY <1>2, <1>3, <1>4 DEF ControlBacklog

\* The size after a step, from its terms.
LEMMA BacklogAfter ==
    PendingBytes' = ActiveBytes(active') + controlBytes' + pendingRender'.bytes
                        + EffectSize(DOMAIN pendingEffects') + pendingBells'
  BY DEF PendingBytes, Backlog, EffectSize

\* enqueue_bytes: appended in the room there is, or in the room eviction makes.
LEMMA BacklogBytes ==
    ASSUME TypeOK, WireInv, BacklogInv, NEW n \in ControlSizes, EnqueueBytes(n)
    PROVE  BacklogInv'
  <1> DEFINE kept == Backlog(controlBytes, KeptRender, EmptyQueue, 0, KeptActive)
             K == {i \in DOMAIN active :
                     Started(active, i) \/ i = ControlSlot \/ IsBoundary(active[i].gen)}
  <1>0. /\ n \in Nat /\ ControlBacklog \in Nat /\ PendingBytes \in Nat
        /\ MaxPending \in Nat /\ Wrapper \in Nat /\ ControlLimit \in Nat
    BY InputAssumption, SizeAssumption, BacklogTerms
  <1>1. /\ ControlBacklog + n <= ControlLimit
        /\ supported' = supported
    BY DEF EnqueueBytes
  <1>2. CASE PendingBytes + n <= MaxPending
    <2>1. /\ controlBytes' = controlBytes + n
          /\ UNCHANGED <<pendingRender, pendingEffects, pendingBells, active>>
      BY <1>2 DEF EnqueueBytes
    <2>2. PendingBytes' = PendingBytes + n
      BY <1>0, <2>1, BacklogTerms, BacklogAfter
    <2>3. ControlBacklog' = ControlBacklog + n
      BY <1>0, <2>1, BacklogTerms, QueueTypes DEF ControlBacklog, ControlSlot, WireInv
    <2> QED
      BY <1>0, <1>1, <1>2, <2>1, <2>2, <2>3 DEF BacklogInv, NoRender, NoGen
  <1>3. CASE ~(PendingBytes + n <= MaxPending)
    <2>1. /\ controlBytes' = IF kept + n <= MaxPending THEN controlBytes + n ELSE controlBytes
          /\ pendingRender' = KeptRender /\ pendingEffects' = EmptyQueue /\ pendingBells' = 0
          /\ active' = Restrict(active, K)
      BY <1>3 DEF EnqueueBytes, KeptActive
    <2>2. DOMAIN pendingEffects' = {}
      BY <2>1, EmptyIsQueue
    <2>3. EffectSize(DOMAIN pendingEffects') = 0
      BY <2>2, FS_EmptySet, EffectSizes
    <2>4. pendingRender' \in {pendingRender, NoRender} /\ pendingRender'.bytes \in 0 .. pendingRender.bytes
      BY <2>1, BacklogTerms DEF KeptRender, NoRender
    <2>5. kept = ActiveBytes(active') + controlBytes + pendingRender'.bytes
      <3>1. ActiveBytes(active') \in Nat
        BY <2>1, BacklogTrims
      <3>2. EffectBytes * Cardinality(DOMAIN EmptyQueue) = 0
        BY EmptyIsQueue, FS_EmptySet, SizeAssumption
      <3>3. KeptActive = active' /\ KeptRender = pendingRender'
        BY <2>1 DEF KeptActive
      <3> HIDE DEF K
      <3>4. kept = ActiveBytes(active') + controlBytes + pendingRender'.bytes
                      + EffectBytes * Cardinality(DOMAIN EmptyQueue) + 0
        BY <3>3 DEF Backlog
      <3> QED
        BY <2>4, <3>1, <3>2, <3>4, BacklogTerms
    <2> HIDE DEF kept
    <2>6. /\ ActiveBytes(active') \in Nat /\ ActiveBytes(active') <= ActiveBytes(active)
          /\ kept \in Nat /\ kept <= PendingBytes
      BY <2>1, <2>4, <2>5, BacklogTrims, BacklogTerms
    <2>7. \A c \in Nat : controlBytes' = controlBytes + c => ControlBacklog' = ControlBacklog + c
      BY <2>1, BacklogTrims
    <2>8. CASE kept + n <= MaxPending
      <3>1. PendingBytes' = kept + n
        BY <1>0, <2>1, <2>3, <2>4, <2>5, <2>6, <2>8, BacklogAfter, BacklogTerms
      <3>2. ControlBacklog' = ControlBacklog + n
        BY <1>0, <2>1, <2>7, <2>8
      <3> QED
        BY <1>0, <1>1, <2>4, <2>6, <2>8, <3>1, <3>2 DEF BacklogInv, NoRender, NoGen
    <2>9. CASE ~(kept + n <= MaxPending)
      <3>1. PendingBytes' = kept
        BY <1>0, <2>1, <2>3, <2>4, <2>5, <2>6, <2>9, BacklogAfter, BacklogTerms
      <3>2. ControlBacklog' = ControlBacklog
        <4>1. controlBytes' = controlBytes + 0
          BY <2>1, <2>9, BacklogTerms
        <4> QED
          BY <1>0, <2>7, <4>1
      <3> QED
        BY <1>0, <1>1, <2>4, <2>6, <3>1, <3>2, BacklogShrinks
    <2> QED
      BY <2>8, <2>9
  <1> QED
    BY <1>2, <1>3

\* enqueue_render: what the new frame replaces is counted out of the backlog.
LEMMA BacklogRender ==
    ASSUME TypeOK, WireInv, BacklogInv, NEW n \in RenderSizes, EnqueueRender(n)
    PROVE  BacklogInv'
  <1>0. /\ FrameBytes(n) \in Nat
        /\ supported => FrameBytes(n) >= Wrapper
        /\ MaxPending \in Nat /\ Wrapper \in Nat /\ WellFormed(active)
        /\ RenderSlot \in Int /\ BellSlot = RenderSlot + 1 /\ RenderSlot > ControlSlot
    BY InputAssumption, SizeAssumption, SizeTypes DEF FrameBytes, RenderSlot, BellSlot, ControlSlot
  <1> DEFINE back == IF ReturnedBells = {} THEN 0 ELSE active[BellSlot].len
             old == IF UnstartedRender THEN active[RenderSlot].len ELSE 0
  <1>1. /\ PendingBytes - pendingRender.bytes - old + FrameBytes(n) <= MaxPending
        /\ pendingRender' = [gen |-> nextGen, bytes |-> FrameBytes(n)]
        /\ pendingBells' = pendingBells + back
        /\ active' = WithoutReplaced
        /\ UNCHANGED <<supported, controlBytes, pendingEffects>>
    BY DEF EnqueueRender, RoomForRender
  <1>2. \A i \in DOMAIN active : ~Started(active, i) => active[i].len = Left(active)[i]
    BY <1>0, QueueTypes, LeftTypes DEF Started
  <1>3. old \in Nat /\ back \in Nat
    BY QueueTypes DEF UnstartedRender, ReturnedBells
  <1>4. ActiveBytes(active) = ActiveBytes(active') + old + back
    <2>1. CASE ~UnstartedRender
      <3>1. active' = active /\ old = 0 /\ back = 0
        BY <1>1, <2>1 DEF WithoutReplaced, ReturnedBells
      <3> QED
        BY <3>1, BacklogTerms
    <2>2. CASE UnstartedRender /\ ReturnedBells = {}
      <3>1. active' = Restrict(active, DOMAIN active \ {RenderSlot}) /\ back = 0
        BY <1>1, <2>2 DEF WithoutReplaced
      <3>2. RenderSlot \in DOMAIN active /\ old = Left(active)[RenderSlot]
        BY <1>2, <2>2 DEF UnstartedRender
      <3>3. ActiveBytes(active) = Left(active)[RenderSlot] + ActiveBytes(active')
        <4>1. /\ ActiveBytes(active) = SumFunctionOnSet(Left(active), DOMAIN active)
              /\ ActiveBytes(active') = SumFunctionOnSet(Left(active), DOMAIN active \ {RenderSlot})
          BY <1>0, <3>1, LeftTypes, LeftOfPart
        <4>2. IsFiniteSet(DOMAIN active) /\ \A i \in DOMAIN active : Left(active)[i] \in Nat
          BY <1>0, LeftTypes
        <4> QED
          BY <3>2, <4>1, <4>2, SumTakesOff
      <3>4. ActiveBytes(active') \in Nat
        BY <3>1, BacklogTrims
      <3> QED
        BY <1>3, <3>1, <3>2, <3>3, <3>4
    <2>3. CASE UnstartedRender /\ ReturnedBells # {}
      <3>1. /\ ReturnedBells = {BellSlot} /\ BellSlot \in DOMAIN active
            /\ ~Started(active, BellSlot)
        BY <2>3 DEF ReturnedBells
      <3>2. /\ RenderSlot \in DOMAIN active /\ old = Left(active)[RenderSlot]
            /\ back = Left(active)[BellSlot]
        BY <1>2, <2>3, <3>1 DEF UnstartedRender
      <3>3. active' = Restrict(active, (DOMAIN active \ {RenderSlot}) \ {BellSlot})
        <4>1. DOMAIN active \ ({RenderSlot} \cup {BellSlot}) = (DOMAIN active \ {RenderSlot}) \ {BellSlot}
          OBVIOUS
        <4> QED
          BY <1>1, <2>3, <3>1, <4>1 DEF WithoutReplaced
      <3> DEFINE rest == DOMAIN active \ {RenderSlot}
      <3>4. /\ ActiveBytes(active) = SumFunctionOnSet(Left(active), DOMAIN active)
            /\ ActiveBytes(active') = SumFunctionOnSet(Left(active), rest \ {BellSlot})
            /\ ActiveBytes(active') \in Nat
        BY <1>0, <3>3, LeftTypes, LeftOfPart, BacklogTrims
      <3>5. IsFiniteSet(DOMAIN active) /\ \A i \in DOMAIN active : Left(active)[i] \in Nat
        BY <1>0, LeftTypes
      <3>6. IsFiniteSet(rest) /\ \A i \in rest : Left(active)[i] \in Nat
        BY <3>5, FS_Subset
      <3>7. BellSlot \in rest
        BY <1>0, <3>1
      <3>8. SumFunctionOnSet(Left(active), DOMAIN active) = Left(active)[RenderSlot] + SumFunctionOnSet(Left(active), rest)
        BY <3>2, <3>5, SumTakesOff
      <3> HIDE DEF rest
      <3>9. SumFunctionOnSet(Left(active), rest) = Left(active)[BellSlot] + SumFunctionOnSet(Left(active), rest \ {BellSlot})
        BY <3>6, <3>7, SumTakesOff
      <3> QED
        BY <1>3, <3>2, <3>4, <3>8, <3>9
    <2> QED
      BY <2>1, <2>2, <2>3
  <1>5. ActiveBytes(active') \in Nat
    <2>1. CASE UnstartedRender
      BY <1>1, <2>1, BacklogTrims DEF WithoutReplaced
    <2>2. CASE ~UnstartedRender
      BY <1>1, <2>2, BacklogTerms DEF WithoutReplaced
    <2> QED
      BY <2>1, <2>2
  <1>6. pendingRender'.bytes = FrameBytes(n)
    BY <1>1
  <1>7. ControlBacklog' = ControlBacklog
    <2>1. ControlSlot \in DOMAIN active <=> ControlSlot \in DOMAIN active'
      BY <1>0, <1>1 DEF WithoutReplaced, Restrict, ReturnedBells, ControlSlot
    <2>2. ControlSlot \in DOMAIN active => active'[ControlSlot] = active[ControlSlot]
      BY <1>0, <1>1 DEF WithoutReplaced, Restrict, ReturnedBells, ControlSlot
    <2> QED
      BY <1>1, <2>1, <2>2 DEF ControlBacklog, ControlSlot
  <1> HIDE DEF old, back
  <1>8. PendingBytes' = PendingBytes - pendingRender.bytes - old + FrameBytes(n)
    BY <1>0, <1>1, <1>3, <1>4, <1>5, <1>6, BacklogTerms, BacklogAfter
  <1> HIDE DEF FrameBytes
  <1>9. PendingBytes' <= MaxPending /\ PendingBytes' \in Int
    <2>1. PendingBytes \in Nat /\ pendingRender.bytes \in Nat
      BY BacklogTerms
    <2> QED
      BY <1>0, <1>1, <1>3, <1>8, <2>1
  <1>10. supported' = supported /\ (supported => pendingRender'.bytes >= Wrapper)
    BY <1>0, <1>1, <1>6
  <1>11. PendingBytes' <= MaxPending + Wrapper
    BY <1>0, <1>9
  <1>12. ControlBacklog' <= ControlLimit
    BY <1>7 DEF BacklogInv
  <1> QED
    BY <1>9, <1>10, <1>11, <1>12 DEF BacklogInv

\* enqueue_terminal_effect: superseded effects make room, and the new one is
\* accepted only where it fits.
LEMMA BacklogEffect ==
    ASSUME TypeOK, WireInv, BacklogInv, NEW e \in Effect, EnqueueTerminalEffect(e)
    PROVE  BacklogInv'
  <1> DEFINE K == DOMAIN active \ SupersededActive(e)
             act == Restrict(active, K)
             fresh == Restrict(pendingEffects, DOMAIN pendingEffects \ SupersededPending(e))
             full == (RetainedEffects(fresh, act) + 1) * EffectBytes > MaxPending
             efs == Restrict(fresh, DOMAIN fresh \ (IF full THEN OldestAlike(fresh, e) ELSE {}))
             size == Backlog(controlBytes, pendingRender, efs, pendingBells, act)
  <1>0. /\ EffectBytes \in Nat /\ MaxPending \in Nat /\ Wrapper \in Nat
        /\ PendingBytes \in Nat /\ ControlBacklog \in Nat
    BY SizeAssumption, BacklogTerms
  <1>1. DOMAIN efs \subseteq DOMAIN pendingEffects
    BY DEF Restrict
  <1>2. IsFiniteSet(DOMAIN pendingEffects) /\ IsFiniteSet(DOMAIN efs)
    BY <1>1, SizeTypes, FS_Subset
  <1>3. /\ active' = act
        /\ \/ pendingEffects' = efs
           \/ /\ size + EffectBytes <= MaxPending
              /\ \E s \in EffectSlots : IsNextSlot(efs, s) /\ pendingEffects' =
                       [i \in DOMAIN efs \cup {s} |-> IF i = s THEN e ELSE efs[i]]
        /\ UNCHANGED <<supported, controlBytes, pendingRender, pendingBells>>
    BY DEF EnqueueTerminalEffect
  <1>4. /\ EffectSize(DOMAIN efs) \in Nat
        /\ EffectSize(DOMAIN efs) <= EffectSize(DOMAIN pendingEffects)
        /\ \A s : s \notin DOMAIN efs => EffectSize(DOMAIN efs \cup {s}) = EffectSize(DOMAIN efs) + EffectBytes
    BY <1>1, <1>2, EffectSizes
  <1>5. ControlSlot \in DOMAIN active => ControlSlot \in K
    BY DEF SupersededActive, ControlSlot, EffectSlots
  <1>6. /\ ActiveBytes(active') \in Nat /\ ActiveBytes(active') <= ActiveBytes(active)
        /\ \A c \in Nat : controlBytes' = controlBytes + c => ControlBacklog' = ControlBacklog + c
    <2>1. K \in SUBSET DOMAIN active /\ active' = Restrict(active, K)
      BY <1>3
    <2> HIDE DEF K
    <2> QED
      BY <1>5, <2>1, BacklogTrims
  <1>7. ControlBacklog' = ControlBacklog
    <2>1. controlBytes' = controlBytes + 0
      BY <1>3, BacklogTerms
    <2> QED
      BY <1>0, <1>6, <2>1
  <1>8. size = ActiveBytes(active') + controlBytes + pendingRender.bytes
                + EffectSize(DOMAIN efs) + pendingBells
    BY <1>3 DEF Backlog, EffectSize
  <1> HIDE DEF efs, size, act
  <1>9. CASE pendingEffects' = efs
    <2>1. PendingBytes' = size
      BY <1>3, <1>8, <1>9, BacklogAfter
    <2>2. size \in Nat /\ size <= PendingBytes
      BY <1>4, <1>6, <1>8, BacklogTerms
    <2> QED
      BY <1>0, <1>3, <1>7, <2>1, <2>2, BacklogShrinks
  <1>10. CASE /\ size + EffectBytes <= MaxPending
              /\ \E s \in EffectSlots : IsNextSlot(efs, s) /\ pendingEffects' =
                       [i \in DOMAIN efs \cup {s} |-> IF i = s THEN e ELSE efs[i]]
    <2>1. PICK s \in EffectSlots : IsNextSlot(efs, s) /\ pendingEffects' =
                       [i \in DOMAIN efs \cup {s} |-> IF i = s THEN e ELSE efs[i]]
      BY <1>10
    <2>2. s \notin DOMAIN efs
      BY <2>1 DEF IsNextSlot, EffectSlots
    <2>3. DOMAIN pendingEffects' = DOMAIN efs \cup {s}
      BY <2>1
    <2>4. EffectSize(DOMAIN pendingEffects') = EffectSize(DOMAIN efs) + EffectBytes
      BY <1>4, <2>2, <2>3
    <2>5. PendingBytes' = size + EffectBytes /\ size \in Nat
      BY <1>0, <1>3, <1>4, <1>6, <1>8, <2>4, BacklogAfter, BacklogTerms
    <2>6. PendingBytes' <= MaxPending /\ PendingBytes' <= MaxPending + Wrapper
      BY <1>0, <1>10, <2>5
    <2>7. pendingRender' # NoRender /\ supported' => pendingRender'.bytes >= Wrapper
      BY <1>3 DEF BacklogInv
    <2>8. ControlBacklog' <= ControlLimit
      BY <1>7 DEF BacklogInv
    <2> QED
      BY <2>6, <2>7, <2>8 DEF BacklogInv
  <1> QED
    BY <1>3, <1>9, <1>10

\* enqueue_bell: as many bells as fit.
LEMMA BacklogBell ==
    ASSUME TypeOK, WireInv, BacklogInv, NEW n \in BellCounts, EnqueueBell(n)
    PROVE  BacklogInv'
  <1>0. n \in Nat /\ MaxPending \in Nat /\ Wrapper \in Nat /\ PendingBytes \in Nat
    BY InputAssumption, SizeAssumption, BacklogTerms
  <1>1. PICK retained \in 1 .. n : /\ retained = Min({n, MaxPending - PendingBytes})
                                  /\ pendingBells' = pendingBells + retained
    BY DEF EnqueueBell
  <1>2. UNCHANGED <<supported, controlBytes, pendingRender, pendingEffects, active>>
    BY DEF EnqueueBell
  <1>3. retained <= MaxPending - PendingBytes
    <2>1. MaxPending - PendingBytes \in Int
      BY <1>0
    <2> QED
      BY <1>0, <1>1, <2>1, PairMinMax
  <1>4. PendingBytes' = PendingBytes + retained
    BY <1>0, <1>1, <1>2, BacklogTerms, BacklogAfter
  <1>5. PendingBytes' <= MaxPending /\ PendingBytes' <= MaxPending + Wrapper
    BY <1>0, <1>3, <1>4
  <1>6. ControlBacklog' = ControlBacklog
    BY <1>2 DEF ControlBacklog, ControlSlot
  <1>7. pendingRender' # NoRender /\ supported' => pendingRender'.bytes >= Wrapper
    BY <1>2 DEF BacklogInv
  <1> QED
    BY <1>5, <1>6, <1>7 DEF BacklogInv

\* set_synchronized_output_supported: a pending frame gains or loses its wrapper.
LEMMA BacklogSupport ==
    ASSUME TypeOK, WireInv, BacklogInv, NEW b \in Support, SetSynchronizedOutputSupported(b)
    PROVE  BacklogInv'
  <1>0. b \in BOOLEAN /\ supported \in BOOLEAN /\ Wrapper \in Nat /\ MaxPending \in Nat /\ PendingBytes \in Nat
    BY InputAssumption, SizeAssumption, BacklogTerms DEF TypeOK
  <1>1. /\ supported' = b /\ supported # b
        /\ UNCHANGED <<controlBytes, pendingEffects, pendingBells, active>>
    BY DEF SetSynchronizedOutputSupported
  <1>2. ControlBacklog' = ControlBacklog
    BY <1>1 DEF ControlBacklog, ControlSlot
  <1>3. PendingBytes' = PendingBytes - pendingRender.bytes + pendingRender'.bytes
        /\ pendingRender'.bytes \in Nat
    <2>1. pendingRender'.bytes \in Nat
      BY <1>0 DEF SetSynchronizedOutputSupported, TypeOK, Render, NoRender
    <2> QED
      BY <1>1, <2>1, BacklogTerms, BacklogAfter
  <1>4. CASE pendingRender = NoRender
    <2>1. pendingRender' = NoRender
      BY <1>4 DEF SetSynchronizedOutputSupported
    <2>2. PendingBytes' = PendingBytes
      BY <1>0, <1>3, <1>4, <2>1, BacklogTerms
    <2> QED
      BY <1>2, <2>1, <2>2 DEF BacklogInv, NoRender, NoGen
  <1>5. CASE pendingRender # NoRender
    <2>1. pendingRender'.bytes = IF b THEN pendingRender.bytes + Wrapper
             ELSE IF pendingRender.bytes >= Wrapper THEN pendingRender.bytes - Wrapper ELSE 0
      BY <1>5 DEF SetSynchronizedOutputSupported, TypeOK, Render
    <2>2. CASE b
      <3>1. ~supported
        BY <1>0, <1>1, <2>2
      <3>2. PendingBytes <= MaxPending
        BY <1>5, <3>1 DEF BacklogInv
      <3>3. PendingBytes' = PendingBytes + Wrapper /\ pendingRender'.bytes >= Wrapper
        BY <1>0, <1>3, <2>1, <2>2, BacklogTerms
      <3>4. supported'
        BY <1>1, <2>2
      <3>5. PendingBytes' <= MaxPending + Wrapper
        BY <1>0, <3>2, <3>3
      <3> QED
        BY <1>2, <3>3, <3>4, <3>5 DEF BacklogInv
    <2>3. CASE ~b
      <3>1. supported
        BY <1>0, <1>1, <2>3
      <3>2. pendingRender.bytes >= Wrapper /\ PendingBytes <= MaxPending + Wrapper
        BY <1>5, <3>1 DEF BacklogInv
      <3>3. PendingBytes' = PendingBytes - Wrapper
        BY <1>0, <1>3, <2>1, <2>3, <3>2, BacklogTerms
      <3>4. ~supported'
        BY <1>1, <2>3
      <3>5. PendingBytes' <= MaxPending /\ PendingBytes' <= MaxPending + Wrapper
        BY <1>0, <3>2, <3>3
      <3> QED
        BY <1>2, <3>4, <3>5 DEF BacklogInv
    <2> QED
      BY <2>2, <2>3
  <1> QED
    BY <1>4, <1>5

\* Activation moves the pending entries to the empty active queue; an effect
\* that encodes to nothing leaves the count.
LEMMA BacklogActivate ==
    ASSUME TypeOK, WireInv, BacklogInv, DrainActivate, DOMAIN active = {}
    PROVE  BacklogInv'
  <1>1. /\ active' = [i \in PendingSlots |-> Activated(i)]
        /\ controlBytes' = 0 /\ pendingRender' = NoRender /\ pendingEffects' = EmptyQueue
        /\ pendingBells' = 0 /\ supported' = supported
    BY DEF DrainActivate
  <1>2. WellFormed(active')
    <2>1. \A i \in PendingSlots : i \in Slots /\ Activated(i) \in Transaction /\ Activated(i).off = 0
      BY ActivatedType
    <2>2. \A i \in PendingSlots : Activated(i).len \in Nat
      BY <2>1 DEF Transaction
    <2> QED
      BY <1>1, <2>1, <2>2 DEF WellFormed, IsQueue
  <1> DEFINE f == Left(active')
             E == DOMAIN pendingEffects
             sum(S) == SumFunctionOnSet(f, S)
  <1>3. /\ MaxEffects \in Nat /\ EffectBytes \in Nat /\ E \subseteq EffectSlots /\ IsFiniteSet(E)
        /\ \A i \in E : i \in 1 .. MaxEffects
    BY InputAssumption, SizeAssumption, SizeTypes DEF TypeOK, IsQueue, EffectSlots
  <1>4. \A i \in PendingSlots : f[i] = Activated(i).len
    <2>1. \A i \in PendingSlots : Activated(i).len \in Nat /\ Activated(i).off = 0
      BY ActivatedType DEF Transaction
    <2> QED
      BY <1>1, <2>1 DEF Left
  <1>5. /\ ControlSlot \in PendingSlots => f[ControlSlot] = controlBytes
        /\ RenderSlot \in PendingSlots => f[RenderSlot] = pendingRender.bytes
        /\ BellSlot \in PendingSlots => f[BellSlot] = pendingBells
        /\ \A i \in E : f[i] \in 0 .. EffectBytes
    <2>1. Activated(ControlSlot).len = controlBytes
      BY DEF Activated, Tx
    <2>2. Activated(RenderSlot).len = pendingRender.bytes
      BY <1>3 DEF Activated, Tx, RenderSlot, ControlSlot, EffectSlots
    <2>3. Activated(BellSlot).len = pendingBells
      BY <1>3 DEF Activated, Tx, BellSlot, RenderSlot, ControlSlot, EffectSlots
    <2>4. ASSUME NEW i \in E PROVE f[i] \in 0 .. EffectBytes
      <3>1. i \in EffectSlots /\ i # ControlSlot /\ i \in PendingSlots
        BY <1>3 DEF ControlSlot, EffectSlots, PendingSlots
      <3>2. Activated(i).len = EncodedBytes(pendingEffects[i])
        BY <3>1 DEF Activated, Tx
      <3> QED
        BY <1>3, <1>4, <3>1, <3>2 DEF EncodedBytes
    <2> QED
      BY <1>4, <2>1, <2>2, <2>3, <2>4
  <1>6. DOMAIN active' = PendingSlots
    BY <1>1
  <1>7. /\ IsFiniteSet(PendingSlots) /\ \A i \in PendingSlots : f[i] \in Nat
        /\ ActiveBytes(active') = sum(PendingSlots)
    BY <1>2, <1>6, LeftTypes
  <1> DEFINE S3 == PendingSlots \ {BellSlot}
             S2 == S3 \ {RenderSlot}
             S1 == S2 \ {ControlSlot}
  <1>8. S1 = E
    <2>1. \A i \in E : i # ControlSlot /\ i # RenderSlot /\ i # BellSlot
      BY <1>3 DEF ControlSlot, RenderSlot, BellSlot
    <2>2. \A i : i \in PendingSlots => i \in E \/ i \in {ControlSlot, RenderSlot, BellSlot}
      BY DEF PendingSlots
    <2>3. E \subseteq PendingSlots
      BY DEF PendingSlots
    <2> HIDE DEF E
    <2> QED
      BY <2>1, <2>2, <2>3
  <1>9. /\ IsFiniteSet(S3) /\ IsFiniteSet(S2) /\ IsFiniteSet(S1)
        /\ \A i \in S3 : f[i] \in Nat
        /\ \A i \in S2 : f[i] \in Nat
    BY <1>7, FS_Subset
  <1>10. sum(E) <= EffectSize(E) /\ sum(E) \in Nat
    <2>1. sum(E) <= EffectBytes * Cardinality(E)
      BY <1>3, <1>5, SumBounded
    <2>2. \A i \in E : f[i] \in Nat
      BY <1>3, <1>5
    <2> QED
      BY <1>3, <2>1, <2>2, SumType DEF EffectSize
  <1> HIDE DEF f, E
  <1>11. sum(S2) <= sum(E) + controlBytes /\ sum(S2) \in Nat
    <2>1. ControlSlot \in S2 => sum(S2) = f[ControlSlot] + sum(S1)
      BY <1>9, SumTakesOff
    <2>2. ControlSlot \notin S2 => S1 = S2
      OBVIOUS
    <2>3. ControlSlot \in S2 => ControlSlot \in PendingSlots
      OBVIOUS
    <2>4. controlBytes \in Nat
      BY DEF TypeOK
    <2> HIDE DEF S1, S2
    <2> QED
      BY <1>5, <1>8, <1>10, <2>1, <2>2, <2>3, <2>4
  <1>12. sum(S3) <= sum(S2) + pendingRender.bytes /\ sum(S3) \in Nat
    <2>1. RenderSlot \in S3 => sum(S3) = f[RenderSlot] + sum(S2)
      BY <1>9, SumTakesOff
    <2>2. RenderSlot \notin S3 => S2 = S3
      OBVIOUS
    <2>3. RenderSlot \in S3 => RenderSlot \in PendingSlots
      OBVIOUS
    <2>4. pendingRender.bytes \in Nat
      BY BacklogTerms
    <2> HIDE DEF S1, S2, S3
    <2> QED
      BY <1>5, <1>11, <2>1, <2>2, <2>3, <2>4
  <1>13. sum(PendingSlots) <= sum(S3) + pendingBells /\ sum(PendingSlots) \in Nat
    <2>1. BellSlot \in PendingSlots => sum(PendingSlots) = f[BellSlot] + sum(S3)
      BY <1>7, SumTakesOff
    <2>2. BellSlot \notin PendingSlots => S3 = PendingSlots
      OBVIOUS
    <2>3. pendingBells \in Nat
      BY DEF TypeOK
    <2> HIDE DEF S1, S2, S3
    <2> QED
      BY <1>5, <1>12, <2>1, <2>2, <2>3
  <1> HIDE DEF sum, S1, S2, S3
  <1>14. PendingBytes' <= PendingBytes /\ PendingBytes' \in Nat
    <2>1. EffectSize(DOMAIN pendingEffects') = 0
      BY <1>1, EmptyIsQueue, FS_EmptySet, EffectSizes
    <2>2. pendingRender'.bytes = 0
      BY <1>1 DEF NoRender
    <2>3. PendingBytes' = sum(PendingSlots)
      BY <1>1, <1>7, <1>13, <2>1, <2>2, BacklogAfter
    <2>4. EffectSize(E) = EffectSize(DOMAIN pendingEffects)
      BY DEF E
    <2> QED
      BY SMTT(30), <1>10, <1>11, <1>12, <1>13, <2>3, <2>4, BacklogTerms
  <1>15. ControlBacklog' \in Nat /\ ControlBacklog' <= ControlBacklog
    <2>1. ControlBacklog = controlBytes /\ controlBytes \in Nat
      BY BacklogTerms DEF ControlBacklog
    <2>2. ControlBacklog' = IF ControlSlot \in PendingSlots
                            THEN active'[ControlSlot].len - active'[ControlSlot].off ELSE 0
      BY <1>1, <1>6, <1>13 DEF ControlBacklog, ControlSlot
    <2>3. ControlSlot \in PendingSlots =>
             active'[ControlSlot].len - active'[ControlSlot].off = controlBytes
      BY <1>5, <1>6 DEF f, Left
    <2> QED
      BY <2>1, <2>2, <2>3
  <1> QED
    BY <1>1, <1>14, <1>15, BacklogShrinks

\* A write takes bytes off one transaction.
LEMMA BacklogWrite ==
    ASSUME TypeOK, WireInv, BacklogInv, NEW i \in DOMAIN active, NEW n \in 1 .. WriteBudget,
           WriteSome(i, n)
    PROVE  BacklogInv'
  <1>1. /\ n \in 1 .. active[i].len - active[i].off
        /\ active' = [active EXCEPT ![i].off = @ + n]
        /\ UNCHANGED <<supported, controlBytes, pendingRender, pendingEffects, pendingBells>>
    BY DEF WriteSome, pendings
  <1>2. IsQueue(active, Slots, Transaction)
    BY DEF TypeOK
  <1>3. /\ DOMAIN active' = DOMAIN active
        /\ \A j \in DOMAIN active : j # i => active'[j] = active[j]
        /\ active'[i].len = active[i].len /\ active'[i].off = active[i].off + n
    BY <1>1, <1>2 DEF IsQueue, Transaction
  <1>4. WellFormed(active)
    BY SizeTypes
  <1>5. /\ \A j \in DOMAIN active : j # i => Left(active')[j] = Left(active)[j]
        /\ Left(active')[i] = Left(active)[i] - n
        /\ Left(active)[i] = active[i].len - active[i].off
    BY <1>1, <1>3, <1>4, LeftTypes, QueueTypes DEF Left
  <1>6. /\ IsFiniteSet(DOMAIN active)
        /\ \A j \in DOMAIN active : Left(active)[j] \in Nat
        /\ \A j \in DOMAIN active : Left(active')[j] \in Nat
    <2>1. IsFiniteSet(DOMAIN active) /\ \A j \in DOMAIN active : Left(active)[j] \in Nat
      BY <1>4, LeftTypes
    <2>2. Left(active')[i] \in Nat
      BY <1>1, <1>5, <2>1
    <2> QED
      BY <1>5, <2>1, <2>2
  <1>7. ActiveBytes(active') = ActiveBytes(active) - n
    <2> DEFINE rest == DOMAIN active \ {i}
    <2>1. SumFunctionOnSet(Left(active'), rest) = SumFunctionOnSet(Left(active), rest)
      <3>1. IsFiniteSet(rest) /\ \A j \in rest : Left(active')[j] = Left(active)[j]
        BY <1>5, <1>6, FS_Subset
      <3> HIDE DEF rest
      <3> QED
        BY <3>1, SumAgrees
    <2>2. SumFunctionOnSet(Left(active), DOMAIN active) = Left(active)[i] + SumFunctionOnSet(Left(active), rest)
      BY <1>6, SumTakesOff
    <2>3. SumFunctionOnSet(Left(active'), DOMAIN active) = Left(active')[i] + SumFunctionOnSet(Left(active'), rest)
      BY <1>6, SumTakesOff
    <2>4. ActiveBytes(active) = SumFunctionOnSet(Left(active), DOMAIN active)
      BY <1>4, LeftTypes
    <2>5. ActiveBytes(active') = SumFunctionOnSet(Left(active'), DOMAIN active)
      <3>1. DOMAIN Left(active') = DOMAIN active
        BY <1>3 DEF Left
      <3> QED
        BY <3>1 DEF ActiveBytes, SumFunction, Left
    <2>6. SumFunctionOnSet(Left(active), rest) \in Nat
      <3>1. IsFiniteSet(rest) /\ \A j \in rest : Left(active)[j] \in Nat
        BY <1>6, FS_Subset
      <3> HIDE DEF rest
      <3> QED
        BY <3>1, SumType
    <2> HIDE DEF rest
    <2> QED
      BY <1>1, <1>5, <1>6, <2>1, <2>2, <2>3, <2>4, <2>5, <2>6
  <1>8. ActiveBytes(active') \in Nat /\ ActiveBytes(active') <= ActiveBytes(active)
    <2>1. ActiveBytes(active') = SumFunctionOnSet(Left(active'), DOMAIN active)
      <3>1. DOMAIN Left(active') = DOMAIN active
        BY <1>3 DEF Left
      <3> QED
        BY <3>1 DEF ActiveBytes, SumFunction, Left
    <2>2. ActiveBytes(active') \in Nat
      BY <1>6, <2>1, SumType
    <2> QED
      BY <1>1, <1>7, <2>2, BacklogTerms
  <1>9. PendingBytes' \in Nat /\ PendingBytes' <= PendingBytes
    BY <1>1, <1>8, BacklogTerms, BacklogAfter
  <1>10. ControlBacklog' \in Nat /\ ControlBacklog' <= ControlBacklog
    <2>1. ControlSlot \in DOMAIN active =>
             /\ active'[ControlSlot].len - active'[ControlSlot].off \in Nat
             /\ active'[ControlSlot].len - active'[ControlSlot].off
                    <= active[ControlSlot].len - active[ControlSlot].off
      BY <1>1, <1>3, QueueTypes DEF WireInv
    <2>2. ControlSlot \in DOMAIN active => active[ControlSlot].len - active[ControlSlot].off \in Nat
      BY QueueTypes DEF WireInv
    <2>3. ControlBacklog' = controlBytes + (IF ControlSlot \in DOMAIN active
            THEN active'[ControlSlot].len - active'[ControlSlot].off ELSE 0)
      BY <1>1, <1>3 DEF ControlBacklog, ControlSlot
    <2>4. controlBytes \in Nat
      BY DEF TypeOK
    <2> QED
      BY <2>1, <2>2, <2>3, <2>4 DEF ControlBacklog
  <1> QED
    BY <1>1, <1>9, <1>10, BacklogShrinks

\* Steps that leave the queues alone, or drop transactions from them.
LEMMA BacklogKept ==
    ASSUME BacklogInv, UNCHANGED <<queued, supported>>
    PROVE  BacklogInv'
  <1>1. PendingBytes' = PendingBytes /\ ControlBacklog' = ControlBacklog
    BY DEF queued, pendings, PendingBytes, Backlog, ControlBacklog, ControlSlot
  <1> QED
    BY <1>1 DEF BacklogInv, queued, pendings, NoRender, NoGen

LEMMA BacklogDrops ==
    ASSUME TypeOK, WireInv, BacklogInv, NEW K \in SUBSET DOMAIN active,
           active' = Restrict(active, K), supported' = supported,
           \/ UNCHANGED pendings
           \/ /\ controlBytes' = 0 /\ pendingRender' = NoRender /\ pendingEffects' = EmptyQueue
              /\ pendingBells' = 0
    PROVE  BacklogInv'
  <1>1. ActiveBytes(active') \in Nat /\ ActiveBytes(active') <= ActiveBytes(active)
    BY BacklogTrims
  <1>2. /\ controlBytes' \in 0 .. controlBytes /\ pendingRender'.bytes \in 0 .. pendingRender.bytes
        /\ pendingBells' \in 0 .. pendingBells /\ pendingRender' \in {pendingRender, NoRender}
    BY BacklogTerms DEF pendings, NoRender
  <1>3. /\ EffectSize(DOMAIN pendingEffects') \in Nat
        /\ EffectSize(DOMAIN pendingEffects') <= EffectSize(DOMAIN pendingEffects)
    <2>1. CASE pendingEffects' = pendingEffects
      BY <2>1, BacklogTerms
    <2>2. CASE pendingEffects' = EmptyQueue
      <3>1. EffectSize(DOMAIN pendingEffects') = 0
        BY <2>2, EmptyIsQueue, FS_EmptySet, EffectSizes
      <3> QED
        BY <3>1, BacklogTerms
    <2> QED
      BY <2>1, <2>2 DEF pendings
  <1>4. PendingBytes' \in Nat /\ PendingBytes' <= PendingBytes
    BY <1>1, <1>2, <1>3, BacklogTerms, BacklogAfter
  <1>5. ControlBacklog' \in 0 .. ControlBacklog
    BY <1>2, BacklogTrims
  <1> QED
    BY <1>2, <1>4, <1>5, BacklogTerms, BacklogShrinks

LEMMA BacklogHolds == Spec => []BacklogInv
  <1>1. Init => BacklogInv
    <2> SUFFICES ASSUME Init PROVE BacklogInv
      OBVIOUS
    <2>1. /\ controlBytes = 0 /\ pendingRender = NoRender /\ pendingBells = 0
          /\ DOMAIN pendingEffects = {} /\ DOMAIN active = {}
      BY EmptyIsQueue DEF Init
    <2>2. ActiveBytes(active) = 0 /\ EffectSize(DOMAIN pendingEffects) = 0 /\ pendingRender.bytes = 0
      BY <2>1, LeftOfNothing, FS_EmptySet, EffectSizes DEF NoRender
    <2>3. PendingBytes = 0 /\ ControlBacklog = 0
      BY <2>1, <2>2 DEF PendingBytes, Backlog, EffectSize, ControlBacklog
    <2> QED
      BY <2>1, <2>3, SizeAssumption DEF BacklogInv
  <1>2. TypeOK /\ WireInv /\ BacklogInv /\ [Next]_vars => BacklogInv'
    <2> SUFFICES ASSUME TypeOK, WireInv, BacklogInv, [Next]_vars PROVE BacklogInv'
      OBVIOUS
    <2>1. CASE Enqueue
      <3>1. ASSUME NEW n \in RenderSizes, DropRender(n) PROVE BacklogInv'
        BY <3>1, BacklogKept DEF DropRender
      <3> QED
        BY <2>1, <3>1, BacklogBytes, BacklogRender, BacklogEffect, BacklogBell DEF Enqueue
    <2>2. CASE PrepareForLifecycleCleanup
      <3>1. \E K \in SUBSET DOMAIN active : active' = Restrict(active, K)
        BY <2>2 DEF PrepareForLifecycleCleanup
      <3> QED
        BY <2>2, <3>1, BacklogDrops DEF PrepareForLifecycleCleanup
    <2>3. CASE Control /\ ~PrepareForLifecycleCleanup
      <3>1. CASE \E b \in Support : SetSynchronizedOutputSupported(b)
        BY <3>1, BacklogSupport
      <3>2. CASE \/ \E opened \in Opens, activity \in BOOLEAN : SynchronizationOpen(opened, activity)
                 \/ SynchronizationClosed
                 \/ \E b \in BOOLEAN : SetApplicationSynchronizationBypassed(b)
                 \/ NotifyWritable \/ Recover
        BY <3>2, BacklogKept DEF SynchronizationOpen, SynchronizationClosed,
           SetApplicationSynchronizationBypassed, NotifyWritable, Recover
      <3> QED
        BY <2>3, <3>1, <3>2 DEF Control
    <2>4. CASE Tick \/ UNCHANGED vars \/ \E force \in BOOLEAN : DrainCall(force)
      <3>1. UNCHANGED <<controlBytes, pendingRender, pendingEffects, pendingBells, active, supported>>
        BY <2>4 DEF Tick, vars, DrainCall, queued, pendings
      <3>2. PendingBytes' = PendingBytes /\ ControlBacklog' = ControlBacklog
        BY <3>1 DEF PendingBytes, Backlog, ControlBacklog, ControlSlot
      <3> QED
        BY <3>1, <3>2 DEF BacklogInv, NoRender, NoGen
    <2>5. CASE DrainStep
      <3>1. CASE \/ FlushOk \/ FlushBlocked \/ DrainHeld \/ DrainTooYoung \/ WriteDone \/ FinishToFlush
                 \/ FinishUnflushed \/ \E i \in DOMAIN active : WriteBlocked(i)
        <4>1. UNCHANGED <<queued, supported>>
          BY <3>1 DEF FlushOk, FlushBlocked, DrainHeld, DrainTooYoung, WriteDone, FinishToFlush,
             FinishUnflushed, WriteBlocked, Block
        <4> QED
          BY <4>1, BacklogKept
      <3>2. CASE FlushFailed \/ \E i \in DOMAIN active : WriteFailed(i)
        <4>1. /\ controlBytes' = 0 /\ pendingRender' = NoRender /\ pendingEffects' = EmptyQueue
              /\ pendingBells' = 0 /\ active' = EmptyQueue /\ supported' = supported
          BY <3>2 DEF FlushFailed, WriteFailed, Fail
        <4>2. active' = Restrict(active, {})
          BY <4>1 DEF EmptyQueue, Restrict
        <4> QED
          BY <4>1, <4>2, BacklogDrops
      <3>3. CASE DrainActivate
        <4>1. DOMAIN active # {} => UNCHANGED <<queued, supported>>
          BY <3>3 DEF DrainActivate
        <4> QED
          BY <3>3, <4>1, BacklogKept, BacklogActivate
      <3>4. ASSUME NEW i \in DOMAIN active, WritePop(i) \/ FinishPop(i) PROVE BacklogInv'
        <4>1. active' = Restrict(active, DOMAIN active \ {i}) /\ UNCHANGED <<pendings, supported>>
          BY <3>4 DEF WritePop, FinishPop, Pop
        <4> QED
          BY <4>1, BacklogDrops
      <3> QED
        BY <2>5, <3>1, <3>2, <3>3, <3>4, BacklogWrite DEF DrainStep
    <2> QED
      BY <2>1, <2>2, <2>3, <2>4, <2>5 DEF Next
  <1> QED
    BY <1>1, <1>2, TypeCorrect, WireHolds, PTL DEF Spec

\* Retained output stays within maximum_pending_bytes and the control limit, up
\* to the wrapper of a frame accepted before support was known, whatever is
\* enqueued, superseded, evicted, activated or half written.
THEOREM BacklogBounded == Spec => []BoundedBacklog
  <1>1. BacklogInv => BoundedBacklog
    BY DEF BacklogInv, BoundedBacklog
  <1> QED
    BY <1>1, BacklogHolds, PTL

\* What is queued is bounded, and the event loop is woken for it.
THEOREM Served == Spec => []BacklogServed
  <1>1. NoLostWakeup /\ BoundedBacklog => BacklogServed
    BY DEF BacklogServed
  <1> QED
    BY <1>1, AlwaysWoken, BacklogBounded, PTL
=============================================================================
