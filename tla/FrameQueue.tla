----------------------------- MODULE FrameQueue -----------------------------
(***************************************************************************)
(* What the output scheduler promises the renderer about its frames,       *)
(* without bytes, budgets, timers, holds, effects or bells: the contract   *)
(* between src/output_scheduler.rs and its caller.                         *)
(*                                                                         *)
(* An accepted frame is waiting, current (activated) or owed (written, not *)
(* yet reported).  Until its first byte is out a frame may be replaced by  *)
(* the next one or given up; afterwards it is finished before any other    *)
(* frame begins.  Frames are reported in the order they were accepted.     *)
(* OutputScheduler implements this specification (see Frames there), and   *)
(* ScenePresentation builds the renderer on top of it.                     *)
(***************************************************************************)
EXTENDS Naturals, Sequences

CONSTANT MaxGen     \* bound on the frames accepted
ASSUME MaxGenAssumption == MaxGen \in Nat

VARIABLES
    next,       \* generation the next accepted frame gets
    waiting,    \* the accepted frame that is not activated, or none
    current,    \* the activated frame, or none
    begun,      \* has the current frame put bytes on the wire?
    owed,       \* frames written completely, oldest first
    reported    \* the newest frame whose receipt was given

frames == <<next, waiting, current, begun, owed, reported>>

None == 0

Init ==
    /\ next = 1
    /\ waiting = None
    /\ current = None
    /\ begun = FALSE
    /\ owed = <<>>
    /\ reported = None

\* A new frame replaces every frame that has not begun.
Accept ==
    /\ next <= MaxGen
    /\ next' = next + 1
    /\ waiting' = next
    /\ current' = IF begun THEN current ELSE None
    /\ UNCHANGED <<begun, owed, reported>>

\* Control bytes outgrow the queue: frames that have not begun may be lost.
Evict ==
    /\ waiting' \in {waiting, None}
    /\ current' \in {current, None}
    /\ begun => current' = current
    /\ UNCHANGED <<next, begun, owed, reported>>

\* Lifecycle cleanup: only the frame being written goes on, and what is
\* written but not flushed is never reported.
Cleanup ==
    /\ waiting' = None
    /\ current' = IF begun THEN current ELSE None
    /\ owed' = <<>>
    /\ UNCHANGED <<next, begun, reported>>

Activate ==
    /\ current = None
    /\ waiting # None
    /\ current' = waiting
    /\ waiting' = None
    /\ UNCHANGED <<next, begun, owed, reported>>

Begin ==
    /\ current # None
    /\ ~begun
    /\ begun' = TRUE
    /\ UNCHANGED <<next, waiting, current, owed, reported>>

\* A frame without bytes is finished although it never begins.
Finish ==
    /\ current # None
    /\ owed' = Append(owed, current)
    /\ current' = None
    /\ begun' = FALSE
    /\ UNCHANGED <<next, waiting, reported>>

Report ==
    /\ owed # <<>>
    /\ reported' = owed[Len(owed)]
    /\ owed' = <<>>
    /\ UNCHANGED <<next, waiting, current, begun>>

\* A failed write or flush abandons every frame.
Abandon ==
    /\ waiting' = None
    /\ current' = None
    /\ begun' = FALSE
    /\ owed' = <<>>
    /\ UNCHANGED <<next, reported>>

Next ==
    \/ Accept
    \/ Evict
    \/ Cleanup
    \/ Activate
    \/ Begin
    \/ Finish
    \/ Report
    \/ Abandon

Spec == Init /\ [][Next]_frames
=============================================================================
