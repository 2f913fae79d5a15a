--------------------------- MODULE Stabilization ----------------------------
(***************************************************************************)
(* When a change on the screen is read aloud (app.rs StabilizationProfile, *)
(* stabilization_decision; app/pty.rs maybe_finalize_changes).  Output     *)
(* starts or prolongs a burst when it is parsed; its frame reaches the     *)
(* screen later, and is read once a declared boundary, a quiet window that *)
(* adapts to the program, or a hard deadline says that the drawing is      *)
(* done.  One view with its two screens, an overlay over it; the clock is  *)
(* kept as ages, which saturate past the hard deadline.                    *)
(***************************************************************************)
EXTENDS Integers, FiniteSetsExt

CONSTANTS Kinds,        \* what an update may be; "plain" is unmarked text
          Screens,      \* of {"primary", "alternate"}
          MinDelay,     \* MIN_ADAPTIVE_DIFF_DELAY
          DiffDelay,    \* DIFF_DELAY
          MaxAdaptive,  \* MAX_ADAPTIVE_DIFF_DELAY
          HardDelay,    \* MAX_DIFF_DELAY
          SettleDelay,  \* SEMANTIC_INPUT_REPAINT_SETTLE_MS
          LateWindow,   \* LATE_CONTINUATION_WINDOW_MS
          CleanBursts,  \* ADAPTIVE_DIFF_CLEAN_BURSTS
          MaxOutput,    \* bound: updates
          MaxOverlays   \* bound: overlays opened

VARIABLES live,         \* the newest parsed update: rev, screen, kind, open
          presented,    \* the one on the screen, as the readable model has it
          finalized,    \* finalized_presented_revision
          readScreen,   \* prev_screen().screen
          transition,   \* accessibility_screen_transition_pending
          profiles,     \* stabilization_profiles, of the view's two screens
          input,        \* age of last_stdin_update
          overlay,      \* an overlay is open
          shown,        \* the screen shows the "view" or the "overlay"
          announce,     \* pending_view_announcement
          overlays,
          waiting,      \* history: age of the oldest output not read
          hasty         \* history: read by the clock, before quiet or the deadline

stableVars == <<live, presented, finalized, readScreen, transition, profiles, input,
                overlay, shown, announce, overlays, waiting, hasty>>

Margin == 1                         \* ADAPTIVE_DIFF_MARGIN
Decay == 1                          \* ADAPTIVE_DIFF_DECAY
None == -1
Ages == 0 .. HardDelay + 1
Older(age) == IF age = None THEN None ELSE Min({age + 1, HardDelay + 1})

NewProfile == [delay |-> DiffDelay, floor |-> MinDelay, gap |-> 0, clean |-> 0, trainable |-> TRUE,
               checkpoint |-> <<>>, first |-> None, last |-> None, ordinary |-> None, before |-> None]

Init ==
    /\ live = [rev |-> 0, screen |-> "primary", kind |-> "plain", open |-> FALSE]
    /\ presented = live /\ finalized = 0
    /\ readScreen = "primary" /\ transition = FALSE
    /\ profiles = [s \in {"primary", "alternate"} |-> NewProfile]
    /\ input = None
    /\ overlay = FALSE /\ shown = "view" /\ announce = FALSE /\ overlays = 0
    /\ waiting = None /\ hasty = FALSE

-----------------------------------------------------------------------------
(* A profile.                                                              *)

\* observe_output: a continuation soon after a reading raises the window at once
LateRaise(p) ==
    IF /\ p.ordinary # None /\ p.before # None
       /\ p.ordinary > 0 /\ p.ordinary <= LateWindow
       /\ input = None \/ input > p.ordinary
       /\ p.trainable
    THEN LET raised == Min({p.before + Margin, MaxAdaptive})
         IN [p EXCEPT !.checkpoint = IF @ = <<>> THEN <<p.delay, p.floor>> ELSE @,
                      !.delay = Max({@, raised}), !.floor = Max({@, raised}),
                      !.clean = 0, !.ordinary = None, !.before = None]
    ELSE p

Observed(p, trainable) ==
    LET q == LateRaise([p EXCEPT !.trainable = trainable /\ (p.first = None \/ @)])
    IN [q EXCEPT !.gap = IF q.last = None THEN @ ELSE Max({@, Min({q.last, MaxAdaptive})}),
                 !.first = IF @ = None THEN 0 ELSE @, !.last = 0]

RolledBack(p) == IF p.checkpoint = <<>> THEN p
                 ELSE [p EXCEPT !.delay = p.checkpoint[1], !.floor = p.checkpoint[2], !.checkpoint = <<>>]

\* finish_burst
Finished(p, last, ordinary) ==
    LET ended == [(IF ordinary /\ p.trainable THEN
                      LET target == Max({MinDelay, Min({p.gap + Margin, MaxAdaptive})})
                          floor == Max({p.floor, target})
                          lowered == IF target < floor THEN Max({floor - 1, target}) ELSE floor
                          clean == p.clean + 1
                      IN [(IF clean >= CleanBursts
                           THEN [p EXCEPT !.floor = lowered, !.clean = 0,
                                          !.delay = Max({@ - Decay, lowered})]
                           ELSE [p EXCEPT !.floor = floor, !.clean = clean])
                          EXCEPT !.ordinary = 0, !.before = last, !.checkpoint = <<>>]
                   ELSE [RolledBack(p) EXCEPT !.clean = 0, !.ordinary = None, !.before = None])
                  EXCEPT !.gap = 0, !.trainable = TRUE]
    IN [ended EXCEPT !.first = None, !.last = None]

\* cancel_burst_context
Cancelled(p) == [RolledBack(p) EXCEPT !.gap = 0, !.clean = 0, !.trainable = TRUE,
                                      !.first = None, !.last = None, !.ordinary = None, !.before = None]
CancelledAll == [s \in DOMAIN profiles |-> Cancelled(profiles[s])]

Window(p) == IF p.trainable THEN p.delay ELSE Max({p.delay, DiffDelay})

-----------------------------------------------------------------------------
(* The decision, on the exact frame that is presented.                     *)

\* active_presented_update_status
Pending == ~overlay /\ shown = "view" /\ finalized # presented.rev
Burst == profiles[presented.screen]

\* stabilization_decision: <<"blocked">>, <<"wait", ticks>> or <<"commit", why>>
Decision ==
    LET first == Burst.first
        quiet == Window(Burst) - Burst.last
        settle == Min({SettleDelay, HardDelay})
    IN IF presented.open THEN <<"blocked">>
       ELSE IF presented.kind = "prompt" /\ first < HardDelay THEN <<"wait", HardDelay - first>>
       ELSE IF presented.kind = "repaint" /\ first < settle THEN <<"wait", settle - first>>
       ELSE IF presented.kind = "stable" THEN <<"commit", "stable">>
       ELSE IF presented.kind = "record" THEN <<"commit", "record">>
       ELSE IF presented.kind = "partial"
            THEN IF first >= HardDelay THEN <<"commit", "hard">> ELSE <<"wait", HardDelay - first>>
       ELSE IF quiet <= 0 THEN <<"commit", "quiet">>
       ELSE IF first >= HardDelay THEN <<"commit", "hard">>
       ELSE <<"wait", Min({quiet, HardDelay - first})>>

\* adaptive_quiet_is_trainable; a "repaint" is what structural_semantic_input_-
\* repaint_needs_settling holds back, a "partial" ends inside an escape sequence.
Trainable(kind, changed) == kind \notin {"repaint", "partial"} /\ ~changed

-----------------------------------------------------------------------------
(* Steps.                                                                  *)

\* note_pty_update, of an update parsed into the view
NotedOnly(screen, kind, changed) ==                                            \* mutant
    IF changed THEN [profiles EXCEPT ![live.screen] = Cancelled(@)] ELSE
    [profiles EXCEPT ![screen] = Observed(@, Trainable(kind, changed))]
Noted(screen, kind, changed) ==
    [(IF changed THEN CancelledAll ELSE profiles) EXCEPT ![screen] = Observed(@, Trainable(kind, changed))]

Output(screen, kind, open) ==
    /\ live.rev < MaxOutput
    /\ live' = [rev |-> live.rev + 1, screen |-> screen, kind |-> kind, open |-> open]
    /\ profiles' = Noted(screen, kind, screen # live.screen)
    /\ waiting' = IF waiting = None THEN 0 ELSE waiting
    /\ UNCHANGED <<presented, finalized, readScreen, transition, input, overlay, shown, announce, overlays, hasty>>

\* The receipt of the newest frame: an overlay hides the view.
Present ==
    /\ IF overlay THEN /\ shown # "overlay" /\ shown' = "overlay" /\ UNCHANGED presented
       ELSE /\ shown # "view" \/ presented # live
            /\ shown' = "view" /\ presented' = live
    /\ UNCHANGED <<live, finalized, readScreen, transition, profiles, input, overlay, announce, overlays, waiting, hasty>>

Key ==
    /\ input # 0 /\ input' = 0
    /\ UNCHANGED <<live, presented, finalized, readScreen, transition, profiles, overlay, shown, announce, overlays, waiting, hasty>>

OpenOverlay ==
    /\ ~overlay /\ overlays < MaxOverlays
    /\ overlay' = TRUE /\ overlays' = overlays + 1 /\ announce' = TRUE
    /\ UNCHANGED <<live, presented, finalized, readScreen, transition, profiles, input, shown, waiting, hasty>>

\* logical_accessibility_view_is_presented, accessibility_announcement_ready
Ready == IF overlay THEN shown = "overlay" ELSE shown = "view" /\ presented = live

\* ViewAction::Pop; the bursts of an open transaction stay.
CloseOverlay ==
    /\ overlay /\ overlay' = FALSE /\ announce' = TRUE
    /\ profiles' = IF live.open THEN profiles ELSE CancelledAll
    /\ UNCHANGED <<live, presented, finalized, readScreen, transition, input, shown, overlays, waiting, hasty>>

\* announce_active_view: the view is spoken whole, and its changes with it.
Announce ==
    /\ announce /\ Ready
    /\ announce' = FALSE
    /\ IF overlay THEN UNCHANGED <<finalized, readScreen, transition, waiting>>
       ELSE /\ finalized' = presented.rev /\ readScreen' = presented.screen
            /\ transition' = FALSE /\ waiting' = None
    /\ UNCHANGED <<live, presented, profiles, input, overlay, shown, overlays, hasty>>

\* maybe_finalize_changes
Due == Pending /\ Burst.first # None /\ Decision[1] = "commit"
Finalize ==
    /\ Due
    /\ LET why == Decision[2]
           changed == readScreen # presented.screen \/ transition
           ordinary == why = "quiet" /\ Trainable(presented.kind, FALSE)
       IN /\ \E content \in BOOLEAN : transition' = (changed /\ ~content)
          /\ profiles' = [profiles EXCEPT ![presented.screen] =
                 IF presented # live THEN [@ EXCEPT !.first = 0, !.last = 0]
                 ELSE IF changed THEN NewProfile
                 ELSE Finished(@, @.last, ordinary)]
          /\ hasty' = (hasty \/ (why = "hard" /\ waiting < HardDelay))
    /\ finalized' = presented.rev /\ readScreen' = presented.screen
    /\ waiting' = IF presented = live THEN None ELSE 0
    /\ UNCHANGED <<live, presented, input, overlay, shown, announce, overlays>>

\* Time passes; the loop wakes at a deadline, so a commit is not left standing.
Elapse ==
    /\ ~Due
    /\ profiles' = [s \in DOMAIN profiles |->
           [profiles[s] EXCEPT !.first = Older(@), !.last = Older(@), !.ordinary = Older(@), !.before = Older(@)]]
    /\ input' = Older(input) /\ waiting' = Older(waiting)
    /\ UNCHANGED <<live, presented, finalized, readScreen, transition, overlay, shown, announce, overlays, hasty>>

Next == \/ \E screen \in Screens, kind \in Kinds, open \in BOOLEAN : Output(screen, kind, open)
        \/ Present \/ Key \/ OpenOverlay \/ CloseOverlay \/ Announce \/ Finalize \/ Elapse

Spec == Init /\ [][Next]_stableVars
             /\ WF_stableVars(Present) /\ WF_stableVars(Announce) /\ WF_stableVars(Finalize) /\ WF_stableVars(Elapse)

-----------------------------------------------------------------------------
(* Properties.                                                             *)

TypeOK ==
    /\ finalized \in 0 .. MaxOutput /\ presented.rev <= live.rev
    /\ input \in Ages \cup {None} /\ waiting \in Ages \cup {None}
    /\ \A s \in DOMAIN profiles : /\ profiles[s].delay \in MinDelay .. Max({DiffDelay, MaxAdaptive})
                                  /\ (profiles[s].first = None) = (profiles[s].last = None)

\* A frame that is on the screen and not read has a deadline, an announcement
\* that will read it, or a newer frame behind it: whatever switched, cancelled
\* or rebased the bursts, no further output is needed to hear it.
ReadingHasADeadline ==
    (Pending /\ ~presented.open) => (Burst.first # None \/ announce \/ presented # live)

\* What a program wrote is read in the end, unless it never closes its
\* transaction or an overlay covers it.
Heard == finalized = live.rev \/ live.open \/ overlay
OutputIsRead == []<>Heard

\* docs/performance.md:60-61: the hard deadline is "the progressive-reading
\* boundary for continuously changing output".
HardMeansOverdue == ~hasty
=============================================================================
