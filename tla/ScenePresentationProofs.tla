----------------------- MODULE ScenePresentationProofs -----------------------
(***************************************************************************)
(* From the contract to the glass.  First, that the contract FrameQueue    *)
(* keeps frames in order, whatever implements it; then that the renderer   *)
(* uses the scheduler only as the contract allows; and last that on top of *)
(* it the renderer's shadow is right: a patch is written on the screen it  *)
(* was computed for, and a trusted shadow differs from the physical screen *)
(* only in rows whose update was given up, for any screen, any contents,   *)
(* any damage and any number of frames.                                    *)
(***************************************************************************)
EXTENDS ScenePresentation, TLAPS

-----------------------------------------------------------------------------
(* The order of frames follows from the contract alone. *)

FrameType ==
    /\ next \in Nat \ {None}
    /\ waiting \in Nat
    /\ current \in Nat
    /\ begun \in BOOLEAN
    /\ owed \in Seq(Nat \ {None})
    /\ reported \in Nat

\* Only an existing frame has begun, and a frame waits beside the current one
\* only once that one has begun.
OneReplaceable ==
    /\ begun => current # None
    /\ waiting # None /\ current # None => begun

\* Frames are reported, owed, current and waiting in the order of acceptance.
FrameOrder ==
    /\ \A i, j \in DOMAIN owed : i < j => owed[i] < owed[j]
    /\ \A i \in DOMAIN owed :
          /\ reported < owed[i]
          /\ owed[i] < next
          /\ current # None => owed[i] < current
          /\ waiting # None => owed[i] < waiting
    /\ current # None =>
          /\ reported < current
          /\ current < next
          /\ waiting # None => current < waiting
    /\ waiting # None => reported < waiting /\ waiting < next
    /\ reported < next

FrameInv == FrameType /\ OneReplaceable /\ FrameOrder

\* Nothing is owed in the empty sequence.
LEMMA EmptyOwed ==
    ASSUME NEW s, s = <<>>
    PROVE  s \in Seq(Nat \ {None}) /\ \A i \in DOMAIN s : FALSE
  OBVIOUS

\* No frame, no order to keep.
LEMMA FrameInvInit == Init => FrameInv
  <1> SUFFICES ASSUME Init PROVE FrameInv
    OBVIOUS
  <1>1. owed \in Seq(Nat \ {None}) /\ \A i \in DOMAIN owed : FALSE
    BY EmptyOwed DEF Init
  <1> QED
    <2>1. /\ next = 1 /\ waiting = 0 /\ current = 0 /\ reported = 0 /\ ~begun
          /\ begun \in BOOLEAN
      BY DEF Init, None
    <2> QED
      BY <1>1, <2>1 DEF FrameInv, FrameType, OneReplaceable, FrameOrder, None

\* Every operation of the contract keeps the frames in order.
LEMMA FrameInvNext == FrameInv /\ [Next]_frames => FrameInv'
  <1> SUFFICES ASSUME FrameInv, [Next]_frames PROVE FrameInv'
    OBVIOUS
  <1> USE DEF FrameInv, FrameType, OneReplaceable, FrameOrder, None
  <1>1. CASE Accept
    BY <1>1 DEF Accept
  <1>2. CASE Evict
    BY <1>2 DEF Evict
  <1>3. CASE Cleanup
    BY <1>3 DEF Cleanup
  <1>4. CASE Activate
    BY <1>4 DEF Activate
  <1>5. CASE Begin
    BY <1>5 DEF Begin
  <1>6. CASE Finish
    <2>1. /\ owed' \in Seq(Nat \ {None})
          /\ DOMAIN owed' = 1 .. Len(owed) + 1
          /\ \A i \in 1 .. Len(owed) : i \in DOMAIN owed /\ owed'[i] = owed[i]
          /\ owed'[Len(owed) + 1] = current
          /\ Len(owed) \in Nat
      BY <1>6 DEF Finish
    <2>2. /\ UNCHANGED <<next, waiting, reported>>
          /\ current # None /\ current' = None /\ begun' = FALSE
      BY <1>6 DEF Finish
    <2>3. \A i, j \in DOMAIN owed' : i < j => owed'[i] < owed'[j]
      <3> SUFFICES ASSUME NEW i \in DOMAIN owed', NEW j \in DOMAIN owed', i < j
                   PROVE  owed'[i] < owed'[j]
        OBVIOUS
      <3>1. i \in 1 .. Len(owed) /\ (j \in 1 .. Len(owed) \/ j = Len(owed) + 1)
        BY <2>1
      <3> QED
        BY <2>1, <2>2, <3>1
    <2>4. \A i \in DOMAIN owed' : reported < owed'[i] /\ owed'[i] < next
      BY SMTT(30), <2>1, <2>2
    <2>5. \A i \in DOMAIN owed' : waiting # None => owed'[i] < waiting
      BY SMTT(30), <2>1, <2>2
    <2> QED
      BY <2>1, <2>2, <2>3, <2>4, <2>5
  <1>7. CASE Report
    <2>1. Len(owed) \in DOMAIN owed /\ owed[Len(owed)] \in Nat
      BY <1>7 DEF Report
    <2>2. /\ UNCHANGED <<next, waiting, current, begun>>
          /\ reported' = owed[Len(owed)] /\ owed' = <<>>
      BY <1>7 DEF Report
    <2>3. /\ reported' < next /\ reported' \in Nat
          /\ current # None => reported' < current
          /\ waiting # None => reported' < waiting
      BY <2>1, <2>2
    <2>4. owed' \in Seq(Nat \ {None}) /\ \A i \in DOMAIN owed' : FALSE
      BY <2>2, EmptyOwed
    <2> QED
      BY <2>2, <2>3, <2>4
  <1>8. CASE Abandon
    <2>1. /\ waiting' = 0 /\ current' = 0 /\ next' = next /\ reported' = reported
          /\ ~begun' /\ begun' \in BOOLEAN
      BY <1>8 DEF Abandon
    <2>2. owed' \in Seq(Nat \ {None}) /\ \A i \in DOMAIN owed' : FALSE
      BY <1>8, EmptyOwed DEF Abandon
    <2> QED
      BY <2>1, <2>2
  <1>9. CASE UNCHANGED frames
    BY <1>9 DEF frames
  <1> QED
    BY <1>1, <1>2, <1>3, <1>4, <1>5, <1>6, <1>7, <1>8, <1>9 DEF Next

\* Frames that are accepted, written and reported under the contract are
\* reported in the order they were accepted, and at most one of them is still
\* replaceable.
THEOREM FramesInOrder == Spec => [](OneReplaceable /\ FrameOrder)
  <1>1. FrameInv => OneReplaceable /\ FrameOrder
    BY DEF FrameInv
  <1> QED
    BY <1>1, FrameInvInit, FrameInvNext, PTL DEF Spec

-----------------------------------------------------------------------------
(* The renderer keeps to the contract. *)

\* Every step of the scene is a step of the contract, or leaves the frames alone.
LEMMA ContractStep == [NextScene]_vars => [Next]_frames
  <1> SUFFICES ASSUME [NextScene]_vars PROVE [Next]_frames
    OBVIOUS
  <1>1. ASSUME NEW d \in Damages, TerminalUpdate(d) \/ CancelBatch(d)
        PROVE  [Next]_frames
    BY <1>1 DEF TerminalUpdate, CancelBatch, Publish, Reject, Next
  <1>2. CASE EvictFrames \/ ActivateFrame \/ BeginFrame \/ FinishFrame \/ ReportFrame
    BY <1>2 DEF EvictFrames, ActivateFrame, BeginFrame, FinishFrame, ReportFrame, Next
  <1>3. CASE Suspend \/ StopAndContinue
    BY <1>3 DEF Suspend, StopAndContinue, Next
  <1>4. CASE ActivatePhysicalTerminal \/ ResumePhysicalTerminal
    BY <1>4 DEF ActivatePhysicalTerminal, ResumePhysicalTerminal, Reconstruct, Next
  <1>5. CASE UNCHANGED vars
    BY <1>5 DEF vars, frames
  <1> QED
    BY <1>1, <1>2, <1>3, <1>4, <1>5 DEF NextScene

\* The renderer and the lifecycle use the queue of frames only as its contract
\* allows, so its frames are reported in the order they were accepted.
THEOREM KeepsTheContract == SpecScene => Spec /\ [](OneReplaceable /\ FrameOrder)
  <1>1. InitScene => Init
    BY DEF InitScene
  <1>2. SpecScene => Spec
    BY <1>1, ContractStep, PTL DEF SpecScene, Spec
  <1> QED
    BY <1>2, FramesInOrder, PTL

-----------------------------------------------------------------------------
(* The shadow.  ShadowExact speaks of the moments at which no frame is     *)
(* half way; SceneInv says for every moment what the frames under way will *)
(* make of each row.                                                       *)

\* The frames accepted and not yet written.
Queued == {waiting, current} \ {None}
Last == owed[Len(owed)]
\* A frame in the queue is going to write the row.
Coming(r) == \E g \in Queued : r \in frame[g].writes

\* Only an existing frame has begun, a frame waits beside the current one only
\* once that one has begun, and generations are given in order.
Order ==
    /\ begun => current # None
    /\ waiting # None /\ current # None => begun /\ current < waiting
    /\ \A g \in Queued : g < next
    /\ owed # <<>> => Last < next

\* Without the terminal, there are no frames; a stop leaves only one begun.
Outside ==
    /\ lifecycle = "Inactive" => waiting = None /\ current = None /\ owed = <<>>
    /\ lifecycle = "Suspended" => waiting = None

\* What a patch leaves alone is right in the shadow, and the shadow is the
\* screen, except where an update was given up.
Patches ==
    \A g \in Queued : frame[g].partial => \A r \in Rows :
        /\ presented[r] = screen[r] \/ dropped[r] # None
        /\ r \in frame[g].writes \/ frame[g].predicted[r] = presented[r] \/ dropped[r] # None
\* ... and a frame that is not a patch writes everything.
Wholes == \A g \in Queued : ~frame[g].partial => frame[g].writes = Rows

\* The last frame written is the screen, except where an update was given up.
OwedIsScreen ==
    owed # <<>> => \A r \in Rows : frame[Last].predicted[r] = screen[r] \/ dropped[r] # None

\* What is not yet on its way to the screen was given up.
Accounted ==
    \A r \in Rows :
        /\ confirmed /\ ~HasStartedRenderWork =>
               presented[r] = scene[r] \/ dropped[r] # None \/ Coming(r)
        /\ owed # <<>> => frame[Last].predicted[r] = scene[r] \/ dropped[r] # None \/ Coming(r)
        /\ current # None =>
               \/ frame[current].predicted[r] = scene[r]
               \/ waiting # None /\ r \in frame[waiting].writes
               \/ dropped[r] > current
        /\ waiting # None => frame[waiting].predicted[r] = scene[r] \/ dropped[r] > waiting

SceneInv ==
    /\ TypeOK /\ Order /\ Outside /\ PatchesFitTheirBase
    /\ Patches /\ Wholes /\ OwedIsScreen /\ Accounted /\ ShadowErrsOnDropped

-----------------------------------------------------------------------------

\* The types the proofs keep needing.
LEMMA SceneTyped ==
    ASSUME SceneInv
    PROVE  /\ next \in 1 .. MaxGen + 1 /\ waiting \in 0 .. MaxGen /\ current \in 0 .. MaxGen
           /\ MaxGen \in Nat /\ next \in Nat /\ waiting \in Nat /\ current \in Nat
           /\ begun \in BOOLEAN /\ confirmed \in BOOLEAN
           /\ owed \in Seq(1 .. MaxGen)
           /\ \A r \in Rows : dropped[r] \in Nat
           /\ Queued \subseteq 1 .. MaxGen
           /\ \A g \in Queued : g \in Nat /\ g # None /\ g < next
  BY MaxGenAssumption DEF SceneInv, TypeOK, Order, Queued, None

\* What Dropping does to a row.
LEMMA DroppingKeeps ==
    ASSUME SceneInv, NEW rows, Dropping(rows)
    PROVE  /\ dropped' \in [Rows -> 0 .. MaxGen + 1]
           /\ \A r \in Rows :
                /\ r \in rows => dropped'[r] = next
                /\ dropped[r] # None => dropped'[r] # None
                /\ \A g \in Queued : dropped[r] > g => dropped'[r] > g
                /\ r \in rows => dropped'[r] # None /\ \A g \in Queued : dropped'[r] > g
                /\ dropped'[r] \in Nat
<1>1. \A r \in Rows : dropped'[r] = IF r \in rows THEN next ELSE dropped[r]
  BY DEF Dropping
<1>2. dropped \in [Rows -> 0 .. MaxGen + 1] /\ next \in 1 .. MaxGen + 1 /\ MaxGen \in Nat
  BY MaxGenAssumption DEF SceneInv, TypeOK
<1>3. dropped' \in [Rows -> 0 .. MaxGen + 1]
  BY <1>2 DEF Dropping
<1>4. next # None /\ \A g \in Queued : next > g
  BY SceneTyped, <1>2 DEF None
<1>5. QED
  BY <1>1, <1>2, <1>3, <1>4

\* The rows of a frame given up are dropped.
LEMMA GivenUpDropped ==
    ASSUME NEW g \in Queued, g \notin {waiting', current'}
    PROVE  frame[g].writes \subseteq GivenUp
  BY DEF GivenUp, Queued

\* What a batch is, and what a patch leaves alone: rows where the shadow or the
\* previous scene already has what the new scene shows.
LEMMA BatchIs ==
    ASSUME SceneInv, NEW d \in Damages, NEW s \in [Rows -> Values], NEW wraps \in BOOLEAN,
           Changed(s) \subseteq d.rows
    PROVE  /\ Rendered(s, d, wraps) \in Batch
           /\ Rendered(s, d, wraps).predicted = s
           /\ Rendered(s, d, wraps).base = presented
           /\ Rendered(s, d, wraps).writes \subseteq Rows
           /\ Rendered(s, d, wraps).partial = (Rendered(s, d, wraps).writes # Rows)
           /\ Rendered(s, d, wraps).writes # Rows =>
                /\ ShadowUsable
                /\ \A r \in Rows : \/ r \in Rendered(s, d, wraps).writes
                                   \/ s[r] = presented[r]
                                   \/ s[r] = scene[r]
<1> DEFINE w == Repaints(s, d, wraps)
<1>1. d.rows \subseteq Rows
  BY DamageAssumption
<1>2. w \subseteq Rows
  BY <1>1 DEF Repaints
<1>3. w # Rows =>
        /\ ShadowUsable
        /\ \A r \in Rows : r \in w \/ s[r] = presented[r] \/ s[r] = scene[r]
  <2> SUFFICES ASSUME w # Rows PROVE ShadowUsable /\ \A r \in Rows : r \in w \/ s[r] = presented[r] \/ s[r] = scene[r]
    OBVIOUS
  <2>1. ShadowUsable
    BY DEF Repaints
  <2>2. CASE DamageKind(d) = "full" /\ presented = s
    BY <2>1, <2>2
  <2>3. CASE ~(DamageKind(d) = "full" /\ presented = s)
    <3>1. w = {r \in d.rows : presented[r] # s[r]}
      BY <2>1, <2>3 DEF Repaints
    <3>2. \A r \in Rows \ d.rows : s[r] = scene[r]
      BY DEF Changed
    <3> HIDE DEF w
    <3>3. ASSUME NEW r \in Rows
          PROVE  r \in w \/ s[r] = presented[r] \/ s[r] = scene[r]
      BY <3>1, <3>2
    <3> QED
      BY <2>1, <3>3
  <2> QED
    BY <2>2, <2>3
<1>4. Rendered(s, d, wraps) = [predicted |-> s, writes |-> w, base |-> presented, partial |-> w # Rows]
  BY DEF Rendered
<1> HIDE DEF w
<1>5. s \in Scene /\ presented \in Scene
  BY DEF SceneInv, TypeOK, Scene
<1>6. (w # Rows) \in BOOLEAN
  OBVIOUS
<1>7. Rendered(s, d, wraps) \in Batch
  BY <1>2, <1>4, <1>5, <1>6 DEF Batch
<1> QED
  BY <1>2, <1>3, <1>4, <1>7

\* An update that got no frame: rejected for capacity, or cancelled.
LEMMA LostHolds ==
    ASSUME SceneInv, NEW s \in [Rows -> Values], scene' = s, Dropping(Changed(s)),
           confirmed' = FALSE, gap' = gap \cup Changed(s),
           UNCHANGED <<frames, presented, frame, screen, lifecycle>>
    PROVE  SceneInv'
<1>1. UNCHANGED <<next, waiting, current, begun, owed, reported, presented, frame, screen, lifecycle>>
  BY DEF frames
<1>2. dropped' \in [Rows -> 0 .. MaxGen + 1]
  BY DroppingKeeps
<1>3. /\ Queued' = Queued /\ Last' = Last
      /\ HasStartedRenderWork' = HasStartedRenderWork
      /\ \A r \in Rows : Coming(r)' = Coming(r)
  BY <1>1 DEF Queued, Last, HasStartedRenderWork, Coming
<1>4. TypeOK'
  BY <1>1, <1>2 DEF SceneInv, TypeOK, Changed
<1>5. Order' /\ Outside' /\ PatchesFitTheirBase' /\ Wholes'
  BY <1>1, <1>3 DEF SceneInv, Order, Outside, PatchesFitTheirBase, Wholes, Queued
<1>6. Patches' /\ OwedIsScreen'
  BY <1>1, <1>3, DroppingKeeps DEF SceneInv, Patches, OwedIsScreen
<1>7. ShadowErrsOnDropped'
  BY DEF ShadowErrsOnDropped
<1>8. Accounted'
  <2> SUFFICES ASSUME NEW r \in Rows
               PROVE  /\ owed # <<>> => frame[Last].predicted[r] = s[r] \/ dropped'[r] # None \/ Coming(r)
                      /\ current # None =>
                             \/ frame[current].predicted[r] = s[r]
                             \/ waiting # None /\ r \in frame[waiting].writes
                             \/ dropped'[r] > current
                      /\ waiting # None => frame[waiting].predicted[r] = s[r] \/ dropped'[r] > waiting
    BY <1>1, <1>3 DEF Accounted
  <2>1. /\ current # None => current \in Queued
        /\ waiting # None => waiting \in Queued
    BY DEF Queued
  <2>2. CASE r \in Changed(s)
    BY <2>1, <2>2, DroppingKeeps
  <2>3. CASE r \notin Changed(s)
    <3>1. s[r] = scene[r]
      BY <2>3 DEF Changed
    <3> QED
      BY <2>1, <3>1, DroppingKeeps DEF SceneInv, Accounted
  <2> QED
    BY <2>2, <2>3
<1> QED
  BY <1>4, <1>5, <1>6, <1>7, <1>8 DEF SceneInv

\* Frames that have not begun are given up.
LEMMA GivesUpHolds ==
    ASSUME SceneInv, Dropping(GivenUp),
           waiting' \in {waiting, None}, current' \in {current, None},
           begun => current' = current,
           owed' = owed \/ (owed' = <<>> /\ confirmed' = FALSE),
           confirmed' \in {confirmed, FALSE},
           lifecycle' = lifecycle \/ (lifecycle' = "Suspended" /\ waiting' = None /\ confirmed' = FALSE),
           UNCHANGED <<next, begun, reported, scene, presented, frame, screen, gap>>
    PROVE  SceneInv'
<1>1. dropped' \in [Rows -> 0 .. MaxGen + 1]
  BY DroppingKeeps
<1>2. /\ Queued' \subseteq Queued
      /\ \A g \in Queued : g \in Queued' \/ \A r \in frame[g].writes : dropped'[r] = next /\ dropped'[r] # None /\ \A h \in Queued : dropped'[r] > h
  <2>1. ASSUME NEW g \in Queued, g \notin Queued', NEW r \in frame[g].writes
        PROVE  dropped'[r] = next /\ dropped'[r] # None /\ \A h \in Queued : dropped'[r] > h
    <3>1. r \in Rows
      <4>1. frame[g] \in Batch
        BY SceneTyped DEF SceneInv, TypeOK
      <4> QED
        BY <4>1 DEF Batch
    <3>2. r \in GivenUp
      BY <2>1, GivenUpDropped DEF Queued
    <3> QED
      BY <3>1, <3>2, DroppingKeeps
  <2>2. Queued' \subseteq Queued
    BY DEF Queued
  <2> QED
    BY <2>1, <2>2
<1>3. /\ waiting' # None => waiting' = waiting /\ waiting \in Queued
      /\ current' # None => current' = current /\ current \in Queued
  BY DEF Queued
<1>4. TypeOK'
  <2>1. owed' \in Seq(1 .. MaxGen)
    <3>1. owed \in Seq(1 .. MaxGen) /\ <<>> \in Seq(1 .. MaxGen)
      BY SceneTyped
    <3> QED
      BY <3>1
  <2>3. confirmed' \in BOOLEAN
    BY SceneTyped, Zenon
  <2>2. /\ {waiting', current', reported'} \subseteq 0 .. MaxGen
        /\ lifecycle' \in {"Inactive", "Active", "Suspended"}
    BY MaxGenAssumption DEF SceneInv, TypeOK, None
  <2> QED
    BY <1>1, <2>1, <2>2, <2>3 DEF SceneInv, TypeOK
<1>5. Order' /\ Outside'
  <2>1. Order'
    <3>1. owed' # <<>> => Last' < next
      BY DEF SceneInv, Order, Last
    <3> QED
      BY <1>2, <1>3, <3>1 DEF SceneInv, Order
  <2>2. Outside'
    BY DEF SceneInv, Outside, None
  <2> QED
    BY <2>1, <2>2
<1>6. PatchesFitTheirBase' /\ Wholes'
  <2>1. \A g \in Queued' : frame[g].partial => frame[g].base = presented /\ owed' = <<>> /\ (g = waiting' => ~begun)
    BY <1>2, <1>3 DEF SceneInv, PatchesFitTheirBase, Queued
  <2>2. PatchesFitTheirBase'
    BY <2>1 DEF PatchesFitTheirBase, Queued
  <2>3. Wholes'
    BY <1>2 DEF SceneInv, Wholes
  <2> QED
    BY <2>2, <2>3
<1>7. Patches'
  BY <1>2, DroppingKeeps DEF SceneInv, Patches
<1>8. OwedIsScreen'
  BY DroppingKeeps DEF SceneInv, OwedIsScreen, Last
<1>9. ShadowErrsOnDropped'
  BY DroppingKeeps DEF SceneInv, ShadowErrsOnDropped, HasStartedRenderWork
<1>10. Accounted'
  <2> SUFFICES ASSUME NEW r \in Rows
               PROVE  /\ (confirmed /\ ~HasStartedRenderWork)' =>
                             presented[r] = scene[r] \/ dropped'[r] # None \/ Coming(r)'
                      /\ owed' # <<>> => frame[owed'[Len(owed')]].predicted[r] = scene[r] \/ dropped'[r] # None \/ Coming(r)'
                      /\ current' # None =>
                             \/ frame[current'].predicted[r] = scene[r]
                             \/ waiting' # None /\ r \in frame[waiting'].writes
                             \/ dropped'[r] > current'
                      /\ waiting' # None => frame[waiting'].predicted[r] = scene[r] \/ dropped'[r] > waiting'
    BY DEF Accounted, Last
  <2>1. Coming(r) => Coming(r)' \/ dropped'[r] # None
    BY <1>2 DEF Coming
  <2>2. waiting # None /\ r \in frame[waiting].writes /\ current' # None =>
            (waiting' # None /\ r \in frame[waiting'].writes) \/ dropped'[r] > current
    <3> SUFFICES ASSUME waiting # None, r \in frame[waiting].writes, current' # None, waiting' # waiting
                 PROVE  dropped'[r] > current
      OBVIOUS
    <3>1. waiting \in Queued /\ waiting \notin Queued'
      <4>1. waiting' = None /\ current' = current /\ current < waiting
        BY DEF SceneInv, Order
      <4>2. current # waiting
        BY <4>1, SceneTyped
      <4> QED
        BY <4>1, <4>2 DEF Queued
    <3> QED
      BY <1>2, <1>3, <3>1
  <2>3. (confirmed /\ ~HasStartedRenderWork)' => confirmed /\ ~HasStartedRenderWork
    BY DEF HasStartedRenderWork
  <2>4. /\ confirmed /\ ~HasStartedRenderWork =>
               presented[r] = scene[r] \/ dropped[r] # None \/ Coming(r)
        /\ owed # <<>> => frame[owed[Len(owed)]].predicted[r] = scene[r] \/ dropped[r] # None \/ Coming(r)
        /\ current # None =>
               \/ frame[current].predicted[r] = scene[r]
               \/ waiting # None /\ r \in frame[waiting].writes
               \/ dropped[r] > current
        /\ waiting # None => frame[waiting].predicted[r] = scene[r] \/ dropped[r] > waiting
    BY DEF SceneInv, Accounted, Last
  <2>5. /\ dropped[r] # None => dropped'[r] # None
        /\ \A g \in Queued : dropped[r] > g => dropped'[r] > g
    BY DroppingKeeps
  <2>6. (confirmed /\ ~HasStartedRenderWork)' => presented[r] = scene[r] \/ dropped'[r] # None \/ Coming(r)'
    BY <2>1, <2>3, <2>4, <2>5
  <2>7. owed' # <<>> => frame[owed'[Len(owed')]].predicted[r] = scene[r] \/ dropped'[r] # None \/ Coming(r)'
    BY <2>1, <2>4, <2>5
  <2>8. /\ current' # None =>
             \/ frame[current'].predicted[r] = scene[r]
             \/ waiting' # None /\ r \in frame[waiting'].writes
             \/ dropped'[r] > current'
        /\ waiting' # None => frame[waiting'].predicted[r] = scene[r] \/ dropped'[r] > waiting'
    BY <1>3, <2>2, <2>4, <2>5
  <2> QED
    BY <2>6, <2>7, <2>8
<1> QED
  BY <1>4, <1>5, <1>6, <1>7, <1>8, <1>9, <1>10 DEF SceneInv

\* Activation only moves the waiting frame on.
LEMMA ActivateHolds ==
    ASSUME SceneInv, ActivateFrame
    PROVE  SceneInv'
<1>1. /\ current = None /\ waiting # None /\ current' = waiting /\ waiting' = None
      /\ UNCHANGED <<next, begun, owed, reported, scene, presented, confirmed, frame, screen, lifecycle, gap, dropped>>
  BY DEF ActivateFrame, Activate, renderer, history
<1>2. Queued' = Queued /\ waiting \in Queued /\ None \notin Queued /\ ~begun
  BY <1>1 DEF SceneInv, Order, Queued
<1>3. /\ Last' = Last /\ HasStartedRenderWork' = HasStartedRenderWork
      /\ \A r \in Rows : Coming(r)' = Coming(r)
  BY <1>1, <1>2 DEF Last, HasStartedRenderWork, Coming
<1>4. TypeOK'
  <2>1. {waiting', current', reported'} \subseteq 0 .. MaxGen
    BY <1>1 DEF SceneInv, TypeOK
  <2> QED
    BY <1>1, <2>1 DEF SceneInv, TypeOK
<1>5. Order' /\ Outside' /\ Wholes'
  BY <1>1, <1>2, <1>3 DEF SceneInv, Order, Outside, Wholes
<1>6. PatchesFitTheirBase'
  BY <1>1, <1>2 DEF SceneInv, PatchesFitTheirBase, Queued
<1>7. Patches' /\ OwedIsScreen' /\ ShadowErrsOnDropped'
  BY <1>1, <1>2, <1>3 DEF SceneInv, Patches, OwedIsScreen, ShadowErrsOnDropped
<1>8. Accounted'
  BY <1>1, <1>3 DEF SceneInv, Accounted
<1> QED
  BY <1>4, <1>5, <1>6, <1>7, <1>8 DEF SceneInv

\* A frame that begins was alone in the queue.
LEMMA BeginHolds ==
    ASSUME SceneInv, BeginFrame
    PROVE  SceneInv'
<1>1. /\ current # None /\ ~begun /\ begun' = TRUE
      /\ UNCHANGED <<next, waiting, current, owed, reported, scene, presented, confirmed, frame, screen, lifecycle, gap, dropped>>
  BY DEF BeginFrame, Begin, renderer, history
<1>2. Queued' = Queued /\ Last' = Last /\ HasStartedRenderWork' /\ waiting = None
      /\ \A r \in Rows : Coming(r)' = Coming(r)
  BY <1>1 DEF SceneInv, Order, Queued, Last, HasStartedRenderWork, Coming
<1>4. TypeOK'
  BY <1>1 DEF SceneInv, TypeOK
<1>5. Order' /\ Outside' /\ Wholes'
  BY <1>1, <1>2 DEF SceneInv, Order, Outside, Wholes
<1>6. PatchesFitTheirBase'
  BY <1>1, <1>2 DEF SceneInv, PatchesFitTheirBase, Queued
<1>7. Patches' /\ OwedIsScreen' /\ ShadowErrsOnDropped'
  BY <1>1, <1>2 DEF SceneInv, Patches, OwedIsScreen, ShadowErrsOnDropped
<1>8. Accounted'
  BY <1>1, <1>2 DEF SceneInv, Accounted
<1> QED
  BY <1>4, <1>5, <1>6, <1>7, <1>8 DEF SceneInv

\* A frame written: the screen is what it predicted, in the rows it wrote, and a
\* patch has left alone only rows that were right or given up.
LEMMA FinishHolds ==
    ASSUME SceneInv, FinishFrame
    PROVE  SceneInv'
<1>1. /\ current # None /\ owed' = Append(owed, current) /\ current' = None /\ begun' = FALSE
      /\ screen' = [r \in Rows |-> IF r \in frame[current].writes
                                   THEN frame[current].predicted[r] ELSE screen[r]]
      /\ UNCHANGED <<next, waiting, reported, scene, presented, confirmed, frame, lifecycle, gap>>
  BY DEF FinishFrame, Finish, renderer
<1>2. /\ \A r \in Rows : dropped'[r] = IF r \in frame[current].writes /\ dropped[r] <= current
                                       THEN None ELSE dropped[r]
      /\ dropped' = [r \in Rows |-> IF r \in frame[current].writes /\ dropped[r] <= current
                                       THEN None ELSE dropped[r]]
  BY DEF FinishFrame, MakesUp
<1>3. /\ current \in Queued /\ current \in 1 .. MaxGen /\ frame[current] \in Batch
  BY <1>1, SceneTyped DEF Queued, SceneInv, TypeOK
<1>4. /\ owed' \in Seq(1 .. MaxGen) /\ owed' # <<>> /\ Last' = current
  BY <1>1, <1>3, SceneTyped DEF Last
<1>5. Queued' \subseteq Queued /\ Queued' = {waiting} \ {None} /\ HasStartedRenderWork'
  BY <1>1, <1>4 DEF Queued, HasStartedRenderWork
<1>6. TypeOK'
  <2>1. screen' \in Scene
    BY <1>1, <1>3 DEF SceneInv, TypeOK, Scene, Batch
  <2>2. dropped' \in [Rows -> 0 .. MaxGen + 1]
    BY <1>2, MaxGenAssumption DEF SceneInv, TypeOK, None
  <2>3. {waiting', current', reported'} \subseteq 0 .. MaxGen
    BY <1>1, MaxGenAssumption DEF SceneInv, TypeOK, None
  <2> QED
    BY <1>1, <1>4, <2>1, <2>2, <2>3 DEF SceneInv, TypeOK
<1>7. Order' /\ Outside' /\ Wholes'
  BY <1>1, <1>3, <1>4, <1>5 DEF SceneInv, Order, Outside, Wholes
<1>8. \A g \in Queued' : ~frame[g].partial
  <2> SUFFICES ASSUME NEW g \in Queued', frame[g].partial PROVE FALSE
    OBVIOUS
  <2>1. g = waiting /\ waiting # None
    BY <1>5
  <2>2. begun /\ g \in Queued
    BY <1>1, <1>5, <2>1 DEF SceneInv, Order
  <2> QED
    BY <2>1, <2>2 DEF SceneInv, PatchesFitTheirBase, Queued
<1>9. PatchesFitTheirBase' /\ Patches'
  BY <1>1, <1>8 DEF PatchesFitTheirBase, Patches, Queued
<1>10. OwedIsScreen'
  <2> SUFFICES ASSUME NEW r \in Rows
               PROVE  frame[current].predicted[r] = screen'[r] \/ dropped'[r] # None
    BY <1>1, <1>4 DEF OwedIsScreen
  <2>1. CASE r \in frame[current].writes
    BY <1>1, <2>1
  <2>2. CASE r \notin frame[current].writes
    <3>1. frame[current].partial
      BY <1>3, <2>2 DEF SceneInv, Wholes
    <3>2. screen'[r] = screen[r] /\ dropped'[r] = dropped[r]
      BY <1>1, <1>2, <2>2
    <3> QED
      BY <1>3, <2>2, <3>1, <3>2 DEF SceneInv, Patches
  <2> QED
    BY <2>1, <2>2
<1>11. ShadowErrsOnDropped'
  BY <1>5 DEF ShadowErrsOnDropped
<1>12. Accounted'
  <2> SUFFICES ASSUME NEW r \in Rows
               PROVE  /\ frame[current].predicted[r] = scene[r] \/ dropped'[r] # None \/ Coming(r)'
                      /\ waiting # None => frame[waiting].predicted[r] = scene[r] \/ dropped'[r] > waiting
    BY <1>1, <1>4, <1>5 DEF Accounted
  <2>1. dropped[r] \in Nat /\ current \in Nat /\ waiting \in Nat /\ (waiting # None => current < waiting)
    BY <1>1, SceneTyped DEF SceneInv, Order
  <2>2. dropped[r] > current => dropped'[r] = dropped[r] /\ dropped'[r] # None
    BY <1>2, <2>1 DEF None
  <2>3. waiting # None /\ r \in frame[waiting].writes => Coming(r)'
    BY <1>1, <1>5 DEF Coming
  <2>4. /\ frame[current].predicted[r] = scene[r] \/ (waiting # None /\ r \in frame[waiting].writes) \/ dropped[r] > current
        /\ waiting # None => frame[waiting].predicted[r] = scene[r] \/ dropped[r] > waiting
    BY <1>1 DEF SceneInv, Accounted
  <2>5. waiting # None /\ dropped[r] > waiting => dropped[r] > current
    BY <2>1
  <2> QED
    BY <2>2, <2>3, <2>4, <2>5
<1> QED
  BY <1>6, <1>7, <1>9, <1>10, <1>11, <1>12 DEF SceneInv

\* A receipt makes the last frame written the shadow; no patch is in the queue
\* then, since patches need a queue without a frame owed.
LEMMA ReportHolds ==
    ASSUME SceneInv, ReportFrame
    PROVE  SceneInv'
<1>1. /\ owed # <<>> /\ owed' = <<>> /\ reported' = Last /\ confirmed' = TRUE
      /\ presented' = frame[Last].predicted
      /\ UNCHANGED <<next, waiting, current, begun, scene, frame, screen, lifecycle, gap, dropped>>
  BY DEF ReportFrame, Report, Last, history
<1>2. Last \in 1 .. MaxGen /\ frame[Last] \in Batch
  <2>1. Last \in 1 .. MaxGen
    BY <1>1, SceneTyped DEF Last
  <2> QED
    BY <2>1 DEF SceneInv, TypeOK
<1>3. Queued' = Queued /\ \A r \in Rows : Coming(r)' = Coming(r)
  BY <1>1 DEF Queued, Coming
<1>4. \A g \in Queued : ~frame[g].partial
  BY <1>1 DEF SceneInv, PatchesFitTheirBase, Queued
<1>5. TypeOK'
  <2>1. /\ owed' \in Seq(1 .. MaxGen) /\ confirmed' \in BOOLEAN
        /\ presented' \in Scene
    BY <1>1, <1>2 DEF Batch
  <2>2. {waiting', current', reported'} \subseteq 0 .. MaxGen
    BY <1>1, <1>2 DEF SceneInv, TypeOK
  <2> QED
    BY <1>1, <2>1, <2>2 DEF SceneInv, TypeOK
<1>6. Order' /\ Outside' /\ Wholes'
  BY <1>1, <1>3 DEF SceneInv, Order, Outside, Wholes
<1>7. PatchesFitTheirBase' /\ Patches'
  BY <1>1, <1>3, <1>4 DEF PatchesFitTheirBase, Patches, Queued
<1>8. OwedIsScreen'
  BY <1>1 DEF OwedIsScreen
<1>9. ShadowErrsOnDropped'
  BY <1>1 DEF SceneInv, OwedIsScreen, ShadowErrsOnDropped
<1>10. Accounted'
  BY <1>1, <1>3 DEF SceneInv, Accounted
<1> QED
  BY <1>5, <1>6, <1>7, <1>8, <1>9, <1>10 DEF SceneInv

\* While Lector is stopped nothing is queued or owed.
LEMMA StopHolds ==
    ASSUME SceneInv, StopAndContinue
    PROVE  SceneInv'
<1>1. /\ lifecycle = "Suspended" /\ current = None /\ owed = <<>> /\ screen' = Unknown
      /\ UNCHANGED <<next, waiting, current, begun, owed, reported, scene, presented, confirmed, frame, lifecycle, gap, dropped>>
  BY DEF StopAndContinue, frames, renderer, history
<1>2. waiting = None /\ Queued = {} /\ Queued' = {} /\ lifecycle # "Active"
  BY <1>1 DEF SceneInv, Outside, Queued
<1>3. HasStartedRenderWork' = HasStartedRenderWork /\ \A r \in Rows : Coming(r)' = Coming(r)
  BY <1>1, <1>2 DEF HasStartedRenderWork, Coming
<1>4. TypeOK'
  <2>1. screen' \in Scene
    BY <1>1 DEF Scene, Unknown
  <2> QED
    BY <1>1, <2>1 DEF SceneInv, TypeOK
<1>5. Order' /\ Outside' /\ Wholes' /\ PatchesFitTheirBase' /\ Patches'
  BY <1>1, <1>2 DEF SceneInv, Order, Outside, Wholes, PatchesFitTheirBase, Patches, Queued
<1>6. OwedIsScreen' /\ ShadowErrsOnDropped'
  BY <1>1, <1>2 DEF OwedIsScreen, ShadowErrsOnDropped
<1>7. Accounted'
  BY <1>1, <1>3 DEF SceneInv, Accounted, Last
<1> QED
  BY <1>4, <1>5, <1>6, <1>7 DEF SceneInv

\* The terminal is taken, or taken back, with nothing queued or owed.
LEMMA ReconstructHolds ==
    ASSUME SceneInv, Reconstruct, waiting = None, current = None, owed = <<>>
    PROVE  SceneInv'
<1>1. /\ lifecycle' = "Active" /\ confirmed' = FALSE
      /\ UNCHANGED <<scene, presented, screen, dropped>>
  BY DEF Reconstruct
<1>2. ~begun /\ Queued = {}
  BY DEF SceneInv, Order, Queued
<1>3. CASE UNCHANGED <<frames, frame, gap>>
  <2>1. UNCHANGED <<next, waiting, current, begun, owed, reported, frame, gap>>
    BY <1>3 DEF frames
  <2>2. Queued' = {}
    BY <2>1 DEF Queued
  <2>3. TypeOK'
    <3>1. confirmed' \in BOOLEAN /\ lifecycle' \in {"Inactive", "Active", "Suspended"}
      BY <1>1
    <3> QED
      BY <1>1, <2>1, <3>1 DEF SceneInv, TypeOK
  <2>4. Order' /\ Outside' /\ Wholes' /\ PatchesFitTheirBase' /\ Patches'
    BY <1>1, <2>1, <2>2 DEF SceneInv, Order, Outside, Wholes, PatchesFitTheirBase, Patches, Queued
  <2>5. OwedIsScreen' /\ ShadowErrsOnDropped' /\ Accounted'
    BY <1>1, <2>1 DEF OwedIsScreen, ShadowErrsOnDropped, Accounted
  <2> QED
    BY <2>3, <2>4, <2>5 DEF SceneInv
<1>4. CASE /\ Accept /\ gap' = {}
           /\ frame' = [frame EXCEPT ![next] =
                 [predicted |-> scene, writes |-> Rows, base |-> presented, partial |-> FALSE]]
  <2>1. /\ next \in 1 .. MaxGen /\ next' = next + 1 /\ waiting' = next /\ current' = None
        /\ UNCHANGED <<begun, owed, reported>>
    BY <1>2, <1>4, SceneTyped DEF Accept
  <2> DEFINE b == [predicted |-> scene, writes |-> Rows, base |-> presented, partial |-> FALSE]
  <2>2. b \in Batch /\ ~b.partial /\ b.predicted = scene /\ b.writes = Rows
    BY DEF SceneInv, TypeOK, Batch, Scene
  <2>3. frame'[next] = b /\ frame' \in [1 .. MaxGen -> Batch]
    BY <1>4, <2>1, <2>2 DEF SceneInv, TypeOK
  <2> HIDE DEF b
  <2>4. Queued' = {next}
    BY <2>1 DEF Queued, None
  <2>5. TypeOK'
    <3>1. confirmed' \in BOOLEAN /\ lifecycle' \in {"Inactive", "Active", "Suspended"}
      BY <1>1
    <3>2. {waiting', current', reported'} \subseteq 0 .. MaxGen /\ next' \in 1 .. MaxGen + 1
      BY <2>1, MaxGenAssumption DEF SceneInv, TypeOK, None
    <3>3. gap' \in SUBSET Rows
      BY <1>4
    <3> QED
      BY <1>1, <2>1, <2>3, <3>1, <3>2, <3>3 DEF SceneInv, TypeOK
  <2>6. Order' /\ Outside' /\ Wholes'
    BY <1>1, <1>2, <2>1, <2>2, <2>3, <2>4 DEF Order, Outside, Wholes, None
  <2>7. PatchesFitTheirBase' /\ Patches'
    BY <2>2, <2>3, <2>4 DEF PatchesFitTheirBase, Patches, Queued
  <2>8. OwedIsScreen' /\ ShadowErrsOnDropped' /\ Accounted'
    BY <1>1, <2>1, <2>2, <2>3 DEF OwedIsScreen, ShadowErrsOnDropped, Accounted
  <2> QED
    BY <2>5, <2>6, <2>7, <2>8 DEF SceneInv
<1> QED
  BY <1>3, <1>4 DEF Reconstruct

\* A frame accepted: a patch relies on a trusted shadow with no frame half way,
\* and what it replaced before it began is given up.
LEMMA PublishHolds ==
    ASSUME SceneInv, NEW d \in Damages, NEW s \in [Rows -> Values], NEW wraps \in BOOLEAN,
           Changed(s) \subseteq d.rows, Publish(s, d, wraps), lifecycle = "Active",
           UNCHANGED <<screen, lifecycle>>
    PROVE  SceneInv'
<1> DEFINE b == Rendered(s, d, wraps)
<1>1. /\ next \in 1 .. MaxGen /\ next' = next + 1 /\ waiting' = next
      /\ current' = (IF begun THEN current ELSE None)
      /\ scene' = s /\ frame' = [frame EXCEPT ![next] = b] /\ confirmed' = ShadowUsable
      /\ gap' = {} /\ Dropping(GivenUp)
      /\ UNCHANGED <<begun, owed, reported, presented, screen, lifecycle>>
  BY SceneTyped DEF Publish, Accept
<1>2. /\ b \in Batch /\ b.predicted = s /\ b.base = presented /\ b.writes \subseteq Rows
      /\ b.partial = (b.writes # Rows)
      /\ b.writes # Rows =>
           /\ ShadowUsable
           /\ \A r \in Rows : r \in b.writes \/ s[r] = presented[r] \/ s[r] = scene[r]
  BY BatchIs
<1> HIDE DEF b
<1>3. /\ frame' \in [1 .. MaxGen -> Batch] /\ frame'[next] = b
      /\ \A g \in 1 .. MaxGen : g # next => frame'[g] = frame[g]
  BY <1>1, <1>2 DEF SceneInv, TypeOK
<1>4. /\ next # None /\ next \notin Queued
      /\ \A g \in Queued : frame'[g] = frame[g]
  BY <1>1, <1>3, SceneTyped DEF None
<1>5. /\ begun => current \in Queued /\ current' = current /\ Queued' = {next, current}
      /\ ~begun => current' = None /\ Queued' = {next}
      /\ \A g \in Queued' : g = next \/ (begun /\ g = current /\ g \in Queued)
  BY <1>1, <1>4 DEF SceneInv, Order, Queued, None
<1>6. dropped' \in [Rows -> 0 .. MaxGen + 1]
  BY <1>1, DroppingKeeps
<1>7. /\ begun => b.writes = Rows
      /\ owed # <<>> => b.writes = Rows
      /\ b.partial => confirmed /\ ~begun /\ owed = <<>>
  BY <1>2 DEF ShadowUsable, HasStartedRenderWork
<1>8. \A r \in Rows : Coming(r) /\ ~begun => dropped'[r] # None
  <2> SUFFICES ASSUME NEW r \in Rows, ~begun, NEW g \in Queued, r \in frame[g].writes
               PROVE  dropped'[r] # None
    BY DEF Coming
  <2>1. g \notin {waiting', current'}
    BY <1>1, <1>4, <1>5 DEF Queued
  <2> QED
    BY <1>1, <2>1, GivenUpDropped, DroppingKeeps
<1>9. TypeOK'
  <2>1. {waiting', current', reported'} \subseteq 0 .. MaxGen /\ next' \in 1 .. MaxGen + 1
    BY <1>1, MaxGenAssumption DEF SceneInv, TypeOK, None
  <2>2. confirmed' \in BOOLEAN
    BY <1>1 DEF ShadowUsable, SceneInv, TypeOK
  <2>3. gap' \in SUBSET Rows
    BY <1>1
  <2> QED
    BY <1>1, <1>3, <1>6, <2>1, <2>2, <2>3 DEF SceneInv, TypeOK
<1>10. Order' /\ Outside'
  <2>1. \A g \in Queued' : g < next'
    BY <1>1, <1>5, SceneTyped
  <2>2. waiting' # None /\ current' # None => begun' /\ current' < waiting'
    BY <1>1, <1>5, SceneTyped
  <2>3. begun' => current' # None
    BY <1>1 DEF SceneInv, Order
  <2>4. owed' # <<>> => Last' < next'
    <3>1. owed # <<>> => Last < next /\ Last \in Nat
      BY SceneTyped DEF SceneInv, Order, Last
    <3> QED
      BY <1>1, <3>1 DEF Last
  <2> QED
    BY <1>1, <2>1, <2>2, <2>3, <2>4 DEF Order, Outside
<1>11. Wholes'
  BY <1>2, <1>3, <1>4, <1>5 DEF SceneInv, Wholes
<1>12. PatchesFitTheirBase'
  <2> SUFFICES ASSUME NEW g \in Queued', frame'[g].partial
               PROVE  frame'[g].base = presented /\ owed = <<>> /\ (g = waiting' => ~begun)
    BY <1>1 DEF PatchesFitTheirBase, Queued
  <2>1. CASE g = next
    BY <1>2, <1>3, <1>7, <2>1
  <2>2. CASE g # next
    BY <1>1, <1>4, <1>5, <2>2 DEF SceneInv, PatchesFitTheirBase, Queued
  <2> QED
    BY <2>1, <2>2
<1>13. Patches'
  <2> SUFFICES ASSUME NEW g \in Queued', frame'[g].partial, NEW r \in Rows
               PROVE  /\ presented[r] = screen[r] \/ dropped'[r] # None
                      /\ r \in frame'[g].writes \/ frame'[g].predicted[r] = presented[r] \/ dropped'[r] # None
    BY <1>1 DEF Patches
  <2>1. CASE g = next
    <3>1. confirmed /\ ~begun /\ owed = <<>> /\ ~HasStartedRenderWork
      BY <1>3, <1>7, <2>1 DEF HasStartedRenderWork
    <3>2. presented[r] = screen[r] \/ dropped[r] # None
      BY <3>1 DEF SceneInv, ShadowErrsOnDropped
    <3>3. presented[r] = scene[r] \/ dropped[r] # None \/ Coming(r)
      BY <3>1 DEF SceneInv, Accounted
    <3>4. r \in b.writes \/ s[r] = presented[r] \/ s[r] = scene[r]
      BY <1>2
    <3>5. dropped[r] # None => dropped'[r] # None
      BY <1>1, DroppingKeeps
    <3> QED
      BY <1>2, <1>3, <1>8, <2>1, <3>1, <3>2, <3>3, <3>4, <3>5
  <2>2. CASE g # next
    BY <1>1, <1>4, <1>5, <2>2, DroppingKeeps DEF SceneInv, Patches
  <2> QED
    BY <2>1, <2>2
<1>14. owed # <<>> => Last' = Last /\ frame'[Last] = frame[Last]
  <2>1. owed # <<>> => Last \in 1 .. MaxGen /\ Last < next /\ Last' = Last
    BY <1>1, SceneTyped DEF SceneInv, Order, Last
  <2>2. next \in Nat
    BY SceneTyped
  <2> QED
    BY <1>3, <2>1, <2>2
<1>15. OwedIsScreen'
  BY <1>1, <1>14, DroppingKeeps DEF SceneInv, OwedIsScreen
<1>16. HasStartedRenderWork' = HasStartedRenderWork
  BY <1>1 DEF HasStartedRenderWork
<1>17. ShadowErrsOnDropped'
  BY <1>1, <1>16, DroppingKeeps DEF SceneInv, ShadowErrsOnDropped, ShadowUsable
<1>18. Accounted'
  <2> SUFFICES ASSUME NEW r \in Rows
               PROVE  /\ ShadowUsable => presented[r] = s[r] \/ dropped'[r] # None \/ Coming(r)'
                      /\ owed # <<>> => Coming(r)'
                      /\ current' # None => r \in frame'[waiting'].writes
                      /\ waiting' # None /\ frame'[waiting'].predicted[r] = s[r]
    BY <1>1, <1>4, <1>14, <1>16 DEF Accounted
  <2>1. r \in b.writes => Coming(r)'
    BY <1>3, <1>5 DEF Coming
  <2>2. ShadowUsable => presented[r] = s[r] \/ dropped'[r] # None \/ Coming(r)'
    <3> SUFFICES ASSUME ShadowUsable, r \notin b.writes
                 PROVE  presented[r] = s[r] \/ dropped'[r] # None
      BY <2>1
    <3>1. s[r] = presented[r] \/ s[r] = scene[r]
      BY <1>2
    <3>2. confirmed /\ ~HasStartedRenderWork /\ ~begun
      BY DEF ShadowUsable, HasStartedRenderWork
    <3>3. presented[r] = scene[r] \/ dropped[r] # None \/ Coming(r)
      BY <3>2 DEF SceneInv, Accounted
    <3>4. dropped[r] # None => dropped'[r] # None
      BY <1>1, DroppingKeeps
    <3> QED
      BY <1>8, <3>1, <3>2, <3>3, <3>4
  <2>3. /\ owed # <<>> => Coming(r)'
        /\ current' # None => r \in frame'[waiting'].writes
    BY <1>1, <1>3, <1>5, <1>7, <2>1
  <2>4. waiting' # None /\ frame'[waiting'].predicted[r] = s[r]
    BY <1>1, <1>2, <1>3, <1>4
  <2> QED
    BY <2>2, <2>3, <2>4
<1> QED
  BY <1>9, <1>10, <1>11, <1>12, <1>13, <1>15, <1>17, <1>18 DEF SceneInv

\* There is no frame before the terminal is taken.
LEMMA SceneStarts == InitScene => SceneInv
<1> SUFFICES ASSUME InitScene PROVE SceneInv
  OBVIOUS
<1>1. /\ next = 1 /\ waiting = 0 /\ current = 0 /\ reported = 0 /\ owed = <<>> /\ begun = FALSE
      /\ lifecycle = "Inactive" /\ confirmed = FALSE /\ Queued = {}
  BY DEF InitScene, Init, None, Queued
<1>2. TypeOK
  <2>1. owed \in Seq(1 .. MaxGen)
    BY <1>1
  <2>4. begun \in BOOLEAN
    BY <1>1, Zenon
  <2>5. confirmed \in BOOLEAN
    BY <1>1, Zenon
  <2>2. Unknown \in Scene
    BY DEF Unknown, Scene
  <2>3. NoBatch \in Batch
    BY <2>2 DEF NoBatch, Batch
  <2> QED
    BY <1>1, <2>1, <2>2, <2>3, <2>4, <2>5, MaxGenAssumption DEF InitScene, TypeOK, None
<1>3. Order /\ Outside /\ PatchesFitTheirBase /\ Patches /\ Wholes /\ OwedIsScreen
  BY <1>1 DEF Order, Outside, PatchesFitTheirBase, Patches, Wholes, OwedIsScreen, Queued, None
<1>4. Accounted /\ ShadowErrsOnDropped
  BY <1>1 DEF Accounted, ShadowErrsOnDropped, None
<1> QED
  BY <1>2, <1>3, <1>4 DEF SceneInv

\* Every step of the renderer, the scheduler's contract and the lifecycle.
LEMMA SceneHolds == SceneInv /\ [NextScene]_vars => SceneInv'
<1> SUFFICES ASSUME SceneInv, [NextScene]_vars PROVE SceneInv'
  OBVIOUS
<1>1. ASSUME NEW d \in Damages, TerminalUpdate(d)
      PROVE  SceneInv'
  <2>1. PICK s \in [Rows -> Values] :
            /\ Changed(s) \subseteq d.rows
            /\ \/ \E wraps \in BOOLEAN : Publish(s, d, wraps)
               \/ Reject(s)
    BY <1>1 DEF TerminalUpdate
  <2>2. lifecycle = "Active" /\ UNCHANGED <<screen, lifecycle>>
    BY <1>1 DEF TerminalUpdate
  <2>3. CASE Reject(s)
    BY <2>2, <2>3, LostHolds DEF Reject
  <2>4. CASE \E wraps \in BOOLEAN : Publish(s, d, wraps)
    BY <2>1, <2>2, <2>4, PublishHolds
  <2> QED
    BY <2>1, <2>3, <2>4
<1>2. ASSUME NEW d \in Damages, CancelBatch(d)
      PROVE  SceneInv'
  BY <1>2, LostHolds DEF CancelBatch
<1>3. CASE EvictFrames
  BY <1>3, GivesUpHolds DEF EvictFrames, Evict, renderer
<1>4. CASE Suspend
  BY <1>4, GivesUpHolds DEF Suspend, Cleanup
<1>5. CASE ActivatePhysicalTerminal \/ ResumePhysicalTerminal
  <2>1. Reconstruct /\ waiting = None /\ current = None /\ owed = <<>>
    BY <1>5 DEF ActivatePhysicalTerminal, ResumePhysicalTerminal, SceneInv, Outside
  <2> QED
    BY <2>1, ReconstructHolds
<1>6. CASE UNCHANGED vars
  <2>1. UNCHANGED <<next, waiting, current, begun, owed, reported, scene, presented, confirmed, frame, screen, lifecycle, gap, dropped>>
    BY <1>6 DEF vars, frames, renderer, history
  <2>2. /\ Queued' = Queued /\ Last' = Last /\ HasStartedRenderWork' = HasStartedRenderWork
        /\ \A r \in Rows : Coming(r)' = Coming(r)
    BY <2>1 DEF Queued, Last, HasStartedRenderWork, Coming
  <2>3. TypeOK' /\ Order' /\ Outside' /\ Wholes'
    BY <2>1, <2>2 DEF SceneInv, TypeOK, Order, Outside, Wholes
  <2>4. PatchesFitTheirBase' /\ Patches' /\ OwedIsScreen'
    BY <2>1, <2>2 DEF SceneInv, PatchesFitTheirBase, Patches, OwedIsScreen
  <2>5. ShadowErrsOnDropped' /\ Accounted'
    BY <2>1, <2>2 DEF SceneInv, ShadowErrsOnDropped, Accounted
  <2> QED
    BY <2>3, <2>4, <2>5 DEF SceneInv
<1> QED
  BY <1>1, <1>2, <1>3, <1>4, <1>5, <1>6, ActivateHolds, BeginHolds, FinishHolds, ReportHolds, StopHolds
     DEF NextScene

\* ShadowExact (presentation.rs, app/view_stack.rs, app.rs): every patch fits the
\* screen it was computed for, and a shadow the renderer trusts is the physical
\* screen except in rows whose update was given up.
THEOREM ShadowIsExact == SpecScene => []ShadowExact
<1>1. SceneInv => ShadowExact
  BY DEF SceneInv, ShadowExact
<1> QED
  BY <1>1, SceneStarts, SceneHolds, PTL DEF SpecScene
=============================================================================
