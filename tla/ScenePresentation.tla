-------------------------- MODULE ScenePresentation --------------------------
(***************************************************************************)
(* From the terminal model to the glass: the scene renderer                *)
(* (IncrementalVtRenderer in src/presentation.rs), the code that offers    *)
(* its frames to the output scheduler and learns what became of them       *)
(* (render_prepared_scene in src/app/view_stack.rs, drain_scheduled_output *)
(* in src/app.rs) and suspend/resume, on top of the scheduler's contract   *)
(* FrameQueue.                                                             *)
(*                                                                         *)
(* The renderer keeps a shadow of the physical screen and writes only what *)
(* the damage of an update names and the shadow lacks, so everything rests *)
(* on the shadow being right.  A row's content is one value; cursor,       *)
(* modes, titles and images are left out (a difference in them only makes  *)
(* the renderer repaint).                                                  *)
(***************************************************************************)
EXTENDS FrameQueue

CONSTANTS
    Rows,       \* rows of the scene
    Values,     \* what a row may show
    Junk,       \* content Lector did not put there
    Damages,    \* damage the updates carry: [kind, rows]
    Faults      \* what may go wrong on a frame's way: "reject", "cancel", "evict"

Kinds == {"full", "regions", "operations"}
ASSUME DamageAssumption == Damages \subseteq [kind : Kinds, rows : SUBSET Rows]
ASSUME JunkAssumption == Junk \notin Values

VARIABLES
    scene,      \* the authoritative scene the views compose
    presented,  \* presented_scene: the prediction of the last confirmed frame
    confirmed,  \* does the renderer hold a confirmed shadow? (confirmed.is_some())
    frame,      \* generation -> the batch enqueued under it
    screen,     \* the physical rows
    lifecycle,  \* PhysicalTerminalLifecycle.state
    gap,        \* history: rows changed since the last accepted frame
    dropped     \* history: row -> the oldest frame that can make up for its last
                \*          update that was given up, or None if it was made up for

renderer == <<presented, confirmed, frame>>
history == <<gap, dropped>>
vars == <<frames, scene, renderer, screen, lifecycle, history>>

Scene == [Rows -> Values \cup {Junk}]
Batch == [predicted : Scene, writes : SUBSET Rows, base : Scene, partial : BOOLEAN]
Unknown == [r \in Rows |-> Junk]
NoBatch == [predicted |-> Unknown, writes |-> {}, base |-> Unknown, partial |-> FALSE]

InitScene ==
    /\ Init
    /\ scene \in [Rows -> Values]
    /\ presented = Unknown
    /\ confirmed = FALSE
    /\ frame = [g \in 1 .. MaxGen |-> NoBatch]
    /\ screen = Unknown
    /\ lifecycle = "Inactive"
    /\ gap = {}
    /\ dropped = [r \in Rows |-> None]

HasStartedRenderWork == begun \/ owed # <<>>

\* What the frames that this step gives up before they began would have written.
GivenUp ==
    UNION {frame[g].writes : g \in {waiting, current} \ {None, waiting', current'}}
Dropping(rows) == dropped' = [r \in Rows |-> IF r \in rows THEN next ELSE dropped[r]]

\* A frame computed while an older one is under way never relies on the shadow.
ShadowUsable == confirmed /\ ~HasStartedRenderWork
DamageKind(d) == IF HasStartedRenderWork THEN "full" ELSE d.kind

\* IncrementalVtRenderer::render for a scene s: the rows the batch repaints.
\* Structural operations are replayed only if they explain every row; a row
\* that wraps is never patched in place.
Repaints(s, d, wraps) ==
    IF ShadowUsable /\ DamageKind(d) = "full" /\ presented = s THEN {}
    ELSE IF ~ShadowUsable \/ DamageKind(d) = "full" \/ wraps THEN Rows
    ELSE IF DamageKind(d) = "operations" /\ \E r \in Rows \ d.rows : presented[r] # s[r]
         THEN Rows
    ELSE {r \in d.rows : presented[r] # s[r]}
Rendered(s, d, wraps) ==
    LET writes == Repaints(s, d, wraps)
    IN  [predicted |-> s, writes |-> writes, base |-> presented, partial |-> writes # Rows]

\* render_prepared_scene: the frame is accepted ...
Changed(s) == {r \in Rows : s[r] # scene[r]}
Publish(s, d, wraps) ==
    /\ scene' = s
    /\ Accept
    /\ frame' = [frame EXCEPT ![next] = Rendered(s, d, wraps)]
    /\ confirmed' = ShadowUsable
    /\ gap' = {}
    /\ Dropping(GivenUp)
    /\ UNCHANGED presented
\* ... or rejected for capacity, which forgets the shadow.
Reject(s) ==
    /\ "reject" \in Faults
    /\ scene' = s
    /\ gap' = gap \cup Changed(s)
    /\ Dropping(Changed(s))
    /\ confirmed' = FALSE
    /\ UNCHANGED <<frames, presented, frame>>

TerminalUpdate(d) ==
    /\ lifecycle = "Active"
    /\ \E s \in [Rows -> Values] :
          /\ Changed(s) \subseteq d.rows
          /\ \/ \E wraps \in BOOLEAN : Publish(s, d, wraps)
             \/ Reject(s)
    /\ UNCHANGED <<screen, lifecycle>>

\* cancel_pty_presentation_batch: the model moved on without a frame.
CancelBatch(d) ==
    /\ lifecycle = "Active"
    /\ "cancel" \in Faults
    /\ \E s \in [Rows -> Values] :
          /\ Changed(s) \subseteq d.rows
          /\ scene' = s
          /\ gap' = gap \cup Changed(s)
          /\ Dropping(Changed(s))
    /\ confirmed' = FALSE
    /\ UNCHANGED <<frames, presented, frame, screen, lifecycle>>

-----------------------------------------------------------------------------
(* The frames' way to the screen *)

EvictFrames ==
    /\ "evict" \in Faults
    /\ Evict
    /\ Dropping(GivenUp)
    /\ UNCHANGED <<scene, renderer, screen, lifecycle, gap>>
ActivateFrame ==
    /\ Activate
    /\ UNCHANGED <<scene, renderer, screen, lifecycle, history>>
BeginFrame ==
    /\ Begin
    /\ frame[current].writes # {}
    /\ UNCHANGED <<scene, renderer, screen, lifecycle, history>>
\* The current frame makes up for what was given up before it was composed.
MakesUp ==
    dropped' = [r \in Rows |-> IF r \in frame[current].writes /\ dropped[r] <= current
                               THEN None ELSE dropped[r]]
FinishFrame ==
    /\ Finish
    /\ begun \/ frame[current].writes = {}
    /\ screen' = [r \in Rows |-> IF r \in frame[current].writes
                                 THEN frame[current].predicted[r] ELSE screen[r]]
    /\ MakesUp
    /\ UNCHANGED <<scene, renderer, lifecycle, gap>>
\* drain_scheduled_output: a receipt confirms the frame's prediction.
ReportFrame ==
    /\ Report
    /\ confirmed' = TRUE
    /\ presented' = frame[reported'].predicted
    /\ UNCHANGED <<scene, frame, screen, lifecycle, history>>

-----------------------------------------------------------------------------
(* Suspend and resume.  Between the two the handler drains to a boundary,  *)
(* stops the process and is continued: nothing is rendered, and the screen *)
(* is somebody else's.                                                     *)

Suspend ==
    /\ lifecycle = "Active"
    /\ lifecycle' = "Suspended"
    /\ confirmed' = FALSE
    /\ Cleanup
    /\ Dropping(GivenUp)
    /\ UNCHANGED <<scene, presented, frame, screen, gap>>
StopAndContinue ==
    /\ lifecycle = "Suspended"
    /\ current = None /\ owed = <<>>
    /\ screen' = Unknown
    /\ screen # Unknown
    /\ UNCHANGED <<frames, scene, renderer, lifecycle, history>>
\* Mutant: the shadow confirmed by the draining before the stop survives it.
ReconstructOnShadow ==
    /\ lifecycle' = "Active"
    /\ Accept
    /\ frame' = [frame EXCEPT ![next] =
                    Rendered(scene, [kind |-> "full", rows |-> Rows], FALSE)]
    /\ confirmed' = ShadowUsable
    /\ gap' = {}
    /\ UNCHANGED <<scene, presented, screen, dropped>>
\* activate_physical_terminal and resume_physical_terminal: invalidate the
\* shadow, then render the whole scene (or lose that frame to the capacity).
Reconstruct ==
    /\ lifecycle' = "Active"
    /\ confirmed' = FALSE
    /\ \/ /\ Accept
          /\ gap' = {}
          /\ frame' = [frame EXCEPT ![next] =
                [predicted |-> scene, writes |-> Rows, base |-> presented, partial |-> FALSE]]
       \/ /\ "reject" \in Faults
          /\ UNCHANGED <<frames, frame, gap>>
    /\ UNCHANGED <<scene, presented, screen, dropped>>
ActivatePhysicalTerminal == lifecycle = "Inactive" /\ Reconstruct
ResumePhysicalTerminal ==
    lifecycle = "Suspended" /\ current = None /\ owed = <<>> /\ screen = Unknown /\ Reconstruct

NextScene ==
    \/ \E d \in Damages : TerminalUpdate(d) \/ CancelBatch(d)
    \/ EvictFrames
    \/ ActivateFrame
    \/ BeginFrame
    \/ FinishFrame
    \/ ReportFrame
    \/ Suspend
    \/ StopAndContinue
    \/ ActivatePhysicalTerminal
    \/ ResumePhysicalTerminal

SpecScene == InitScene /\ [][NextScene]_vars

-----------------------------------------------------------------------------
(* Properties *)

\* The shape of the renderer's state and of the batches in the queue.
TypeOK ==
    /\ next \in 1 .. MaxGen + 1
    /\ {waiting, current, reported} \subseteq 0 .. MaxGen
    /\ begun \in BOOLEAN
    /\ owed \in Seq(1 .. MaxGen)
    /\ scene \in [Rows -> Values]
    /\ presented \in Scene
    /\ confirmed \in BOOLEAN
    /\ frame \in [1 .. MaxGen -> Batch]
    /\ screen \in Scene
    /\ lifecycle \in {"Inactive", "Active", "Suspended"}
    /\ gap \in SUBSET Rows
    /\ dropped \in [Rows -> 0 .. MaxGen + 1]

\* A frame that patches the screen is written on exactly the screen it was
\* computed for: no other frame reached the terminal between the two, and
\* everything that could have come between forced a repaint.
PatchesFitTheirBase ==
    \A g \in {waiting, current} \ {None} : frame[g].partial =>
        /\ frame[g].base = presented
        /\ owed = <<>>
        /\ g = waiting => ~begun

\* "Confirm that every byte in the preceding batch reached the physical
\* terminal": a renderer that trusts its shadow, with no frame half way, is
\* looking at the physical screen.
ShadowIsScreen ==
    (confirmed /\ ~HasStartedRenderWork /\ lifecycle = "Active") => presented = screen

\* ... and where it is not, that is because an update was given up: rejected,
\* cancelled, or lost with a frame that was replaced, evicted or cleaned up
\* before it began, and the row was not written since.  No other order of
\* frames, receipts, stops and resumes puts a wrong row into the shadow.
ShadowErrsOnDropped ==
    (confirmed /\ ~HasStartedRenderWork /\ lifecycle = "Active") =>
        \A r \in Rows : presented[r] = screen[r] \/ dropped[r] # None

\* A patch is written only on the shadow it was computed from, and the shadow
\* is wrong only in rows whose update was given up (presentation.rs,
\* app/view_stack.rs, app.rs).
ShadowExact == TypeOK /\ PatchesFitTheirBase /\ ShadowErrsOnDropped

\* "The model is now ahead of the physical presentation. Force the next
\* successful scene publication to reconstruct that gap": the first frame
\* accepted after an update that got none writes every row the update changed,
\* unless the screen shows it already.
GapReconstructed ==
    [][next' # next => \A r \in gap : presented[r] = scene'[r] \/ r \in frame'[next].writes]_vars
=============================================================================
