---------------------------- MODULE TmuxPaneFlow ----------------------------
(***************************************************************************)
(* Flow control and recovery of one tmux pane (app/pty.rs, struct          *)
(* TmuxPaneFlowState of app.rs).                                           *)
(*                                                                         *)
(* tmux sends the pane's output as a stream of %output records and may     *)
(* pause that stream, on its own or because Lector asks.  A pause loses    *)
(* output, so Lector marks its copy of the pane stale, continues the       *)
(* stream and replaces the copy by a capture: probe the metadata, capture  *)
(* the text, verify the metadata.  Output that races the capture restarts  *)
(* it after a quiet interval; past a hard deadline Lector pauses the       *)
(* stream itself and sends "continue ; capture" as one command sequence.   *)
(*                                                                         *)
(* Data.  The pane's contents are the number of output chunks it has       *)
(* received, modulo Chunks.  Lector's copy (app.engine) is such a number,  *)
(* or Torn once a chunk was applied to the wrong contents.  Timers hold    *)
(* the ticks that remain, 0 when due, None when unset.  A command is the   *)
(* sequence of the replies it expects; "Other" stands for any command that *)
(* is not about the flow of this pane.  The capture of an incomplete       *)
(* escape sequence (PaneResyncPendingEscape), whose failure is tolerated,  *)
(* is part of the capture.                                                 *)
(***************************************************************************)
EXTENDS Integers, Sequences, FiniteSets, SequencesExt

CONSTANTS
    Modes,          \* how the pane may be shown, a subset of AllModes
    Chunks,         \* modulus of the contents, above what can be in flight
    Quiet,          \* TMUX_RECOVERY_QUIET_MS, in ticks
    Hard,           \* TMUX_RECOVERY_HARD_DEADLINE_MS, in ticks
    RetryBase,      \* TMUX_FLOW_RETRY_BASE_MS, in ticks
    RetryMax,       \* TMUX_FLOW_RETRY_MAX_MS, in ticks
    FailureCap,     \* bound: failures counted, where the delay is RetryMax
    PauseThreshold, \* TMUX_BACKGROUND_PAUSE_THRESHOLD_BYTES, in chunks
    ReplyLimit,     \* TMUX_EXPECTED_REPLY_LIMIT
    MaxOutputs,     \* bound: chunks on the wire
    MaxFaults       \* bound: refused commands, pauses by tmux, screen
                    \*   switches, unrelated commands and hidings

VARIABLES
    mode,   \* "visible", "covered" (its window is shown, zoomed on another
            \*   pane) or "hidden"
    app,    \* Lector: flow, capture, deferred, pending, expected, engine
    srv,    \* tmux: is the stream paused, the contents, the alternate screen
    wire,   \* records tmux has written and Lector has not yet parsed
    faults, \* disturbances that may still happen
    erased  \* history: a tick has cleared the recapture marker of a hidden pane
            \*   whose capture was still outstanding

vars == <<mode, app, srv, wire, faults, erased>>

AllModes == {"visible", "covered", "hidden"}
None == -1
Torn == -1
NoCapture == [alt |-> None, output |-> None, taken |-> FALSE, failed |-> FALSE]
Statuses == {"Running", "Resynchronizing", "ResyncFailed"}
ResyncReplies == {"PaneResyncProbe", "PaneResyncCapture", "PaneResyncVerify"}
ReplyKinds == ResyncReplies
                \cup {"PaneResyncContinue", "PanePause", "PaneContinue", "Other"}

ASSUME FlowConstants ==
    /\ Modes \subseteq AllModes /\ "visible" \in Modes
    /\ {Chunks, Quiet, Hard, RetryBase, RetryMax, PauseThreshold, MaxOutputs}
         \subseteq Nat \ {0}
    /\ RetryBase <= RetryMax /\ Quiet <= Hard
    /\ FailureCap \in 1 .. 6
    /\ FailureCap = 6 \/ RetryBase * 2 ^ (FailureCap - 1) >= RetryMax
    /\ ReplyLimit \in Nat /\ ReplyLimit >= 3
    /\ MaxFaults \in Nat

\* TmuxPaneFlowState::default
InitialFlow ==
    [status |-> "Running", is_paused |-> FALSE, pause_requested |-> FALSE,
     resume_requested |-> FALSE, resync_requested |-> FALSE,
     resync_in_flight |-> FALSE, final_resync_requested |-> FALSE,
     resync_after |-> None, recapture_hard_deadline |-> None, failures |-> 0]

-----------------------------------------------------------------------------
(* Helpers on the flow state.                                              *)

Least(a, b) == IF a <= b THEN a ELSE b

Presented == mode \in {"visible", "covered"}
Visible == mode = "visible"

MarkCaptureRequired(f) ==
    [f EXCEPT !.status = "Resynchronizing", !.final_resync_requested = FALSE,
              !.resync_after = None, !.recapture_hard_deadline = None]

\* Mutant: every raced chunk moves the hard deadline too.
SchedulePostponed(f) ==
    IF f.final_resync_requested THEN f
    ELSE [f EXCEPT !.recapture_hard_deadline = Hard, !.resync_after = Quiet]

ScheduleRecapture(f) ==
    LET hard == IF f.recapture_hard_deadline = None THEN Hard
                ELSE f.recapture_hard_deadline
    IN  IF f.final_resync_requested THEN f
        ELSE [f EXCEPT !.recapture_hard_deadline = hard,
                       !.resync_after = Least(Quiet, hard)]

\* tmux_flow_retry_delay_ms.  Failures past FailureCap leave it unchanged.
RetryDelay(n) == Least(RetryBase * 2 ^ Least(n - 1, 5), RetryMax)
Backoff(f, armed) ==
    LET n == Least(f.failures + 1, FailureCap)
    IN  [f EXCEPT !.failures = n,
                  !.resync_after = IF armed THEN RetryDelay(n) ELSE None]

\* complete_tmux_pane_resync clears every field but the counters of resyncs.
CompleteResync(f) == [f EXCEPT
    !.status = "Running", !.is_paused = FALSE, !.pause_requested = FALSE,
    !.resume_requested = FALSE, !.resync_requested = FALSE,
    !.resync_in_flight = FALSE, !.final_resync_requested = FALSE,
    !.resync_after = None, !.recapture_hard_deadline = None, !.failures = 0]

-----------------------------------------------------------------------------
(* Operations on Lector's state.                                           *)

Push(a, command) == [a EXCEPT !.pending = Append(@, command)]

\* A continue command, with resume_requested set by whoever queues it.
PushResume(a) == Push([a EXCEPT !.flow.resume_requested = TRUE], <<"PaneContinue">>)

\* queue_tmux_pane_resync: the final round pauses first, any other probes.
QueueResync(a) ==
    LET f == a.flow
        final == f.final_resync_requested \/ f.recapture_hard_deadline = 0
        pauseFirst == final /\ ~f.is_paused
        g == [f EXCEPT !.status = "Resynchronizing",
                       !.resync_in_flight = FALSE,
                       !.final_resync_requested = final,
                       !.resync_after = None,
                       !.recapture_hard_deadline = IF final THEN None ELSE @,
                       !.pause_requested = @ \/ pauseFirst,
                       !.resync_requested = ~pauseFirst]
    IN  Push([a EXCEPT !.flow = g],
             IF pauseFirst THEN <<"PanePause">> ELSE <<"PaneResyncProbe">>)

\* queue_tmux_background_pause
QueueBackgroundPause(a) ==
    IF a.flow.is_paused \/ a.flow.pause_requested THEN a
    ELSE Push([a EXCEPT !.flow = MarkCaptureRequired([@ EXCEPT !.pause_requested = TRUE])],
              <<"PanePause">>)

\* A chunk changes the copy as tmux changed the pane only if it is the next one.
Apply(contents, chunk) ==
    IF contents # Torn /\ chunk = (contents + 1) % Chunks THEN chunk ELSE Torn

\* defer_tmux_pane_output.  "full": the queue that all background panes share
\* has no room left, so this pane loses what it has queued.
DeferOutput(a, chunk, full) ==
    IF full
    THEN [a EXCEPT !.deferred = <<>>, !.flow = MarkCaptureRequired(@)]
    ELSE LET b == [a EXCEPT !.deferred = Append(@, chunk)]
         IN  IF Len(b.deferred) >= PauseThreshold THEN QueueBackgroundPause(b) ELSE b

\* process_or_defer_tmux_pane_output.  "exceeds": the turn's allowance for
\* hidden output is used up.
ProcessOutput(a, chunk, exceeds, full) ==
    LET f == a.flow
        racing == \/ f.resync_in_flight
                  \/ f.status = "Resynchronizing" /\ f.resync_after # None
    IN  IF f.status # "Running"
        THEN IF Visible
             THEN IF racing THEN [a EXCEPT !.flow = ScheduleRecapture(@)] ELSE a
             ELSE QueueBackgroundPause(a)
        ELSE IF Visible \/ (a.deferred = <<>> /\ ~exceeds)
             THEN [a EXCEPT !.engine = Apply(@, chunk)]
             ELSE DeferOutput(a, chunk, full)

-----------------------------------------------------------------------------
(* process_tmux_control: the replies.                                      *)

\* Mutant: a failed capture is not tried again.
FailResyncForGood(a) ==
    [a EXCEPT !.flow = [@ EXCEPT !.status = "ResyncFailed",
                                 !.resync_requested = FALSE,
                                 !.final_resync_requested = FALSE,
                                 !.resync_after = None,
                                 !.recapture_hard_deadline = None]]

FailResync(a) ==
    [a EXCEPT !.flow = Backoff([@ EXCEPT !.status = "ResyncFailed",
                                         !.resync_requested = FALSE,
                                         !.final_resync_requested = FALSE,
                                         !.recapture_hard_deadline = None],
                               Presented)]

RaceResync(a) ==
    [a EXCEPT !.flow.status = "Resynchronizing",
              !.flow.resync_requested = FALSE,
              !.flow.final_resync_requested = FALSE,
              !.flow.resync_after = IF Presented THEN Quiet ELSE None]

\* The capture replaces the copy; recovery is over unless the stream is (being)
\* paused or output raced a capture that was not the final one.
SucceedResync(a, contents) ==
    LET f == a.flow
        b == [a EXCEPT !.engine = contents]
        paused == [b EXCEPT !.flow = [MarkCaptureRequired(f) EXCEPT !.resync_requested = FALSE]]
    IN  IF f.is_paused \/ f.pause_requested
        THEN IF Presented /\ ~f.resume_requested THEN PushResume(paused) ELSE paused
        ELSE IF ~f.final_resync_requested /\ f.resync_after # None
        THEN [b EXCEPT !.flow.status = "Resynchronizing",
                       !.flow.resync_requested = FALSE]
        ELSE [b EXCEPT !.flow = CompleteResync(f)]

\* The final round, probed while paused, prefixes the capture by a continue.
ReplyProbe(a, ok, alt) ==
    LET f == a.flow
        b == [a EXCEPT !.flow.resync_in_flight = FALSE,
                       !.capture = IF ok THEN [NoCapture EXCEPT !.alt = alt] ELSE NoCapture]
        resume == f.final_resync_requested /\ f.is_paused
        batch == <<"PaneResyncCapture", "PaneResyncVerify">>
    IN  IF ok THEN Push(b, IF resume THEN <<"PaneResyncContinue">> \o batch ELSE batch)
        ELSE FailResync(b)

ReplyResyncContinue(a, ok) ==
    LET b == [a EXCEPT !.flow.pause_requested = FALSE, !.flow.resume_requested = FALSE]
    IN  IF ok THEN [b EXCEPT !.flow.is_paused = FALSE]
        ELSE IF b.capture = NoCapture THEN b ELSE [b EXCEPT !.capture.failed = TRUE]

ReplyCapture(a, ok, contents) ==
    IF a.capture = NoCapture THEN a
    ELSE IF ok THEN [a EXCEPT !.capture.output = contents, !.capture.taken = TRUE]
    ELSE [a EXCEPT !.capture.failed = TRUE]

ReplyVerify(a, ok, alt) ==
    LET b == [a EXCEPT !.flow.resync_in_flight = FALSE, !.capture = NoCapture]
    IN  IF ~ok \/ a.capture.failed \/ ~a.capture.taken THEN FailResync(b)
        ELSE IF a.capture.alt = alt THEN SucceedResync(b, a.capture.output)
        ELSE RaceResync(b)

ReplyPause(a, ok) ==
    LET f == [a.flow EXCEPT !.pause_requested = FALSE, !.is_paused = ok]
        b == [a EXCEPT !.flow = f]
        request == Presented /\ ~f.resync_requested
    IN  CASE ok -> IF f.final_resync_requested /\ request THEN QueueResync(b) ELSE b
          [] ~ok /\ f.final_resync_requested ->
                 [b EXCEPT !.flow = Backoff([@ EXCEPT !.final_resync_requested = FALSE,
                                                      !.status = "ResyncFailed"],
                                            Presented)]
          [] ~ok /\ ~f.final_resync_requested /\ f.status # "Running" ->
                 LET c == [b EXCEPT !.flow = MarkCaptureRequired(@)]
                 IN  IF request THEN QueueResync(c) ELSE c
          [] OTHER -> b

\* What a stream that runs again means for a stale pane.
Resumed(a) ==
    LET f == [a.flow EXCEPT !.pause_requested = FALSE, !.is_paused = FALSE,
                            !.resume_requested = FALSE]
        g == MarkCaptureRequired(f)
    IN  IF f.status = "Running" THEN [a EXCEPT !.flow = f]
        ELSE IF f.resync_requested THEN [a EXCEPT !.flow = ScheduleRecapture(g)]
        ELSE IF Presented THEN QueueResync([a EXCEPT !.flow = g])
        ELSE [a EXCEPT !.flow = g]

ReplyContinue(a, ok) ==
    LET f == a.flow
        g == [f EXCEPT !.pause_requested = FALSE, !.resume_requested = FALSE]
    IN  IF ok THEN Resumed(a)
        ELSE IF f.is_paused /\ f.status # "Running"
        THEN [a EXCEPT !.flow = Backoff(MarkCaptureRequired(g), Presented)]
        ELSE [a EXCEPT !.flow = g]

\* Replies answer commands in order: the oldest expected reply names the handler.
Reply(a, ok, value) ==
    LET b == [a EXCEPT !.expected = Tail(@)]
    IN  CASE Head(a.expected) = "PaneResyncProbe"    -> ReplyProbe(b, ok, value)
          [] Head(a.expected) = "PaneResyncContinue" -> ReplyResyncContinue(b, ok)
          [] Head(a.expected) = "PaneResyncCapture"  -> ReplyCapture(b, ok, value)
          [] Head(a.expected) = "PaneResyncVerify"   -> ReplyVerify(b, ok, value)
          [] Head(a.expected) = "PanePause"          -> ReplyPause(b, ok)
          [] Head(a.expected) = "PaneContinue"       -> ReplyContinue(b, ok)
          [] OTHER                                   -> b

-----------------------------------------------------------------------------
(* process_tmux_control: the notifications.                                *)

EventPause(a) ==
    LET f == [a.flow EXCEPT !.pause_requested = FALSE, !.is_paused = TRUE]
        b == [a EXCEPT !.flow = IF f.final_resync_requested THEN f
                                ELSE MarkCaptureRequired(f)]
    IN  IF Presented /\ ~f.final_resync_requested /\ ~f.resume_requested
        THEN PushResume(b) ELSE b

EventContinue(a) ==
    IF a.flow.final_resync_requested /\ a.flow.resync_requested
    THEN [a EXCEPT !.flow.pause_requested = FALSE, !.flow.is_paused = FALSE,
                   !.flow.resume_requested = FALSE]
    ELSE Resumed(a)

-----------------------------------------------------------------------------
(* sync_tmux_panes, for a pane that is presented.  Nothing happens to one  *)
(* that is not.                                                            *)

DiscardDeferred(a) ==
    LET f == [a.flow EXCEPT !.status = "Resynchronizing"]
    IN  IF a.deferred = <<>> THEN a
        ELSE [a EXCEPT !.deferred = <<>>,
                       !.flow = IF f.resync_in_flight THEN ScheduleRecapture(f)
                                ELSE IF f.resync_requested THEN f
                                ELSE [f EXCEPT !.resync_after = None,
                                               !.recapture_hard_deadline = None]]

SyncPane(a) ==
    LET f == a.flow
        resume == /\ f.is_paused \/ f.pause_requested
                  /\ ~f.final_resync_requested /\ ~f.resume_requested
        b == DiscardDeferred(IF resume THEN PushResume(a) ELSE a)
        g == b.flow
        resync == /\ g.status # "Running"
                  /\ ~g.is_paused \/ g.final_resync_requested
                  /\ ~g.pause_requested /\ ~g.resync_requested
                  /\ g.resync_after \in {None, 0}
    IN  IF resync THEN QueueResync(b) ELSE b

-----------------------------------------------------------------------------
(* handle_tick: due recaptures, then the command queue, then the deferred  *)
(* output of background panes.                                             *)

\* queue_due_tmux_pane_resyncs
QueueDue(a) ==
    LET f == a.flow
        cleared == [f EXCEPT !.final_resync_requested = FALSE, !.resync_after = None,
                             !.recapture_hard_deadline = None]
    IN  CASE f.status = "Running" \/ f.resync_after # 0 -> a
          [] f.resync_after = 0 /\ ~Presented -> [a EXCEPT !.flow = cleared]
          [] f.resync_after = 0 /\ Presented /\ f.resync_requested -> a
          [] f.resync_after = 0 /\ Presented /\ f.is_paused
                /\ ~f.final_resync_requested /\ ~f.resync_requested ->
                 LET b == [a EXCEPT !.flow = cleared]
                 IN  IF f.resume_requested THEN b ELSE PushResume(b)
          [] OTHER -> QueueResync(a)

\* The marker says that output raced the outstanding capture; it goes with the
\* timer of a hidden pane.
ErasesMarker(a) ==
    /\ a.flow.status # "Running" /\ a.flow.resync_after = 0
    /\ ~Presented /\ a.flow.resync_requested

\* recover_discarded_tmux_flow_command
RecoverDiscarded(a, command) ==
    LET kinds == ToSet(command)
        resync == kinds \cap (ResyncReplies \cup {"PaneResyncContinue"}) # {}
        f == a.flow
        g == [f EXCEPT !.is_paused = @ /\ "PanePause" \notin kinds,
                       !.pause_requested = @ /\ "PanePause" \notin kinds,
                       !.resume_requested =
                           @ /\ kinds \cap {"PaneContinue", "PaneResyncContinue"} = {},
                       !.resync_requested = @ /\ ~resync,
                       !.resync_in_flight = @ /\ ~resync,
                       !.final_resync_requested = @ /\ ~resync]
    IN  IF kinds = {"Other"} THEN a
        ELSE [a EXCEPT
                !.capture = IF resync THEN NoCapture ELSE @,
                !.flow = IF g.status = "Running" THEN g
                         ELSE Backoff([g EXCEPT !.recapture_hard_deadline = None], TRUE)]

\* route_tmux_command, and mark_tmux_flow_commands_in_flight once it is written
Route(a, command) ==
    IF Len(a.expected) + Len(command) > ReplyLimit THEN RecoverDiscarded(a, command)
    ELSE [a EXCEPT !.expected = @ \o command,
                   !.flow.resync_in_flight =
                       @ \/ ToSet(command) \cap ResyncReplies # {}]

\* drain_tmux_commands_for
DrainCommands(a) == FoldLeft(Route, [a EXCEPT !.pending = <<>>], a.pending)

\* drain_tmux_background_output.  "share": the turn's budget reaches this pane.
DrainDeferred(a, share) ==
    IF ~share \/ a.deferred = <<>> THEN a
    ELSE [a EXCEPT !.deferred = Tail(@), !.engine = Apply(@, Head(a.deferred))]

-----------------------------------------------------------------------------
(* tmux (external).                                                        *)

Record(ev, ok, value) == [ev |-> ev, ok |-> ok, value |-> value]
IsOutput(r) == r.ev = "Output"
IsReply(r) == r.ev = "Reply"
Outputs(w) == SelectSeq(w, IsOutput)

\* Commands sent and not yet executed.
Unexecuted == SubSeq(app.expected, Len(SelectSeq(wire, IsReply)) + 1, Len(app.expected))

\* A pause discards the output tmux has not yet written out.
Discard(w, i) ==
    SubSeq(w, 1, i) \o SelectSeq(SubSeq(w, i + 1, Len(w)), LAMBDA r : ~IsOutput(r))

\* A command may be refused.
Outcome(ok) == /\ ok \/ faults > 0
               /\ faults' = IF ok THEN faults ELSE faults - 1

Metadata == srv.alt

\* The flags of the capture command follow the metadata that was probed.
Captured == IF app.capture.alt = srv.alt THEN srv.contents ELSE Torn

-----------------------------------------------------------------------------
Init ==
    /\ mode \in Modes
    /\ app = [flow |-> InitialFlow, capture |-> NoCapture, deferred |-> <<>>,
              pending |-> <<>>, expected |-> <<>>, engine |-> 0]
    /\ srv = [paused |-> FALSE, contents |-> 0, alt |-> 0]
    /\ wire = <<>>
    /\ faults = MaxFaults
    /\ erased = FALSE

(* Steps of tmux.                                                          *)

\* The program in the pane writes; a chunk may switch the alternate screen.
TmuxOutput(switch) ==
    LET next == (srv.contents + 1) % Chunks
    IN  /\ srv.paused \/ Len(Outputs(wire)) < MaxOutputs
        /\ switch => faults > 0
        /\ faults' = IF switch THEN faults - 1 ELSE faults
        /\ srv' = [srv EXCEPT !.contents = next, !.alt = IF switch THEN 1 - @ ELSE @]
        /\ wire' = IF srv.paused THEN wire
                   ELSE Append(wire, Record("Output", TRUE, next))
        /\ UNCHANGED <<mode, app, erased>>

\* pause-after=1: the client is too far behind.
TmuxPauses ==
    /\ ~srv.paused /\ faults > 0
    /\ faults' = faults - 1
    /\ srv' = [srv EXCEPT !.paused = TRUE]
    /\ \E i \in 0 .. Len(wire) :
          wire' = Append(Discard(wire, i), Record("Pause", TRUE, None))
    /\ UNCHANGED <<mode, app, erased>>

\* "told": the notification is a record of its own.  Otherwise it is written
\* inside the block of the command's reply, where the parser takes it for output.
\* Pausing a stream that is paused changes nothing and is never refused.
TmuxExecutesPause(ok, told) ==
    /\ Unexecuted # <<>> /\ Head(Unexecuted) = "PanePause"
    /\ Outcome(ok)
    /\ srv.paused => ok
    /\ srv' = [srv EXCEPT !.paused = @ \/ ok]
    /\ IF ok /\ ~srv.paused
       THEN \E i \in 0 .. Len(wire) :
              wire' = Discard(wire, i)
                        \o (IF told THEN <<Record("Pause", TRUE, None)>> ELSE <<>>)
                        \o <<Record("Reply", ok, None)>>
       ELSE wire' = Append(wire, Record("Reply", ok, None))
    /\ UNCHANGED <<mode, app, erased>>

TmuxExecutesContinue(ok, told) ==
    /\ Unexecuted # <<>> /\ Head(Unexecuted) = "PaneContinue"
    /\ Outcome(ok)
    /\ srv' = [srv EXCEPT !.paused = @ /\ ~ok]
    /\ wire' = wire \o (IF ok /\ srv.paused /\ told
                        THEN <<Record("Continue", TRUE, None)>> ELSE <<>>)
                    \o <<Record("Reply", ok, None)>>
    /\ UNCHANGED <<mode, app, erased>>

\* The final round is one parsed sequence: no output comes between its commands.
TmuxExecutesFinalRound(ok, told, taken) ==
    /\ Unexecuted # <<>> /\ Head(Unexecuted) = "PaneResyncContinue"
    /\ Outcome(ok /\ taken)
    /\ srv' = [srv EXCEPT !.paused = @ /\ ~ok]
    /\ wire' = wire \o (IF ok /\ srv.paused /\ told
                        THEN <<Record("Continue", TRUE, None)>> ELSE <<>>)
                    \o <<Record("Reply", ok, None), Record("Reply", taken, Captured),
                          Record("Reply", TRUE, Metadata)>>
    /\ UNCHANGED <<mode, app, erased>>

TmuxExecutesQuery(ok) ==
    /\ Unexecuted # <<>> /\ Head(Unexecuted) \in ResyncReplies \cup {"Other"}
    /\ Outcome(ok)
    /\ wire' = Append(wire, Record("Reply", ok,
                      CASE Head(Unexecuted) = "PaneResyncCapture" -> Captured
                        [] Head(Unexecuted) = "Other" -> None
                        [] OTHER -> Metadata))
    /\ UNCHANGED <<mode, app, srv, erased>>

(* Steps of Lector.                                                        *)

\* process_tmux_control, for the next record of the control stream.
ProcessControl(exceeds, full) ==
    /\ wire # <<>>
    /\ wire' = Tail(wire)
    /\ LET r == Head(wire)
       IN  app' = CASE r.ev = "Output"   -> ProcessOutput(app, r.value, exceeds, full)
                    [] r.ev = "Pause"    -> EventPause(app)
                    [] r.ev = "Continue" -> EventContinue(app)
                    [] r.ev = "Reply"    -> Reply(app, r.ok, r.value)
    /\ UNCHANGED <<mode, srv, faults, erased>>

HandleTick(share) ==
    /\ app' = DrainDeferred(DrainCommands(QueueDue(app)), share)
    /\ app' # app
    /\ erased' = (erased \/ ErasesMarker(app))
    /\ UNCHANGED <<mode, srv, wire, faults>>

\* The pane's window or connection is selected, its window zoomed or unzoomed,
\* or the topology changes in another way.
ShowPane(m) ==
    /\ m # "hidden"
    /\ mode' = m
    /\ app' = SyncPane(app)
    /\ <<mode, app>>' # <<mode, app>>
    /\ UNCHANGED <<srv, wire, faults, erased>>

HidePane ==
    /\ mode # "hidden" /\ "hidden" \in Modes
    /\ faults > 0
    /\ faults' = faults - 1
    /\ mode' = "hidden"
    /\ UNCHANGED <<app, srv, wire, erased>>

\* Input, a resize, a user's command: it shares the queues.
QueueOther ==
    /\ faults > 0
    /\ faults' = faults - 1
    /\ app' = Push(app, <<"Other">>)
    /\ UNCHANGED <<mode, srv, wire, erased>>

\* A tick of the clock brings the deadlines nearer.
Elapse ==
    LET Sooner(t) == IF t > 0 THEN t - 1 ELSE t
    IN  /\ app' = [app EXCEPT !.flow.resync_after = Sooner(@),
                              !.flow.recapture_hard_deadline = Sooner(@)]
        /\ app' # app
        /\ UNCHANGED <<mode, srv, wire, faults, erased>>

TmuxExecutes == \E ok, told, taken \in BOOLEAN :
    \/ TmuxExecutesPause(ok, told)
    \/ TmuxExecutesContinue(ok, told)
    \/ TmuxExecutesFinalRound(ok, told, taken)
    \/ TmuxExecutesQuery(ok)

Next ==
    \/ \E switch \in BOOLEAN : TmuxOutput(switch)
    \/ TmuxPauses
    \/ TmuxExecutes
    \/ \E exceeds, full \in BOOLEAN : ProcessControl(exceeds, full)
    \/ \E share \in BOOLEAN : HandleTick(share)
    \/ \E m \in Modes : ShowPane(m)
    \/ HidePane
    \/ QueueOther
    \/ Elapse

Spec == Init /\ [][Next]_vars

\* tmux executes what it receives, the event loop reads what tmux writes and
\* runs its ticks, and time passes.
FairSpec ==
    /\ Spec
    /\ WF_vars(TmuxExecutes)
    /\ WF_vars(\E exceeds, full \in BOOLEAN : ProcessControl(exceeds, full))
    /\ WF_vars(\E share \in BOOLEAN : HandleTick(share))
    /\ WF_vars(Elapse)

-----------------------------------------------------------------------------
Timer == {None} \cup 0 .. (Hard + Quiet + RetryMax)
Contents == {Torn} \cup 0 .. Chunks - 1

\* The values each part of the state may take; the replies Lector waits for are
\* bounded.
TypeOK ==
    /\ mode \in Modes
    /\ app.flow \in [status : Statuses, is_paused : BOOLEAN, pause_requested : BOOLEAN,
                     resume_requested : BOOLEAN, resync_requested : BOOLEAN,
                     resync_in_flight : BOOLEAN, final_resync_requested : BOOLEAN,
                     resync_after : Timer, recapture_hard_deadline : Timer,
                     failures : 0 .. FailureCap]
    /\ app.capture \in [alt : {None, 0, 1}, output : Contents, taken : BOOLEAN,
                        failed : BOOLEAN]
    /\ \A i \in DOMAIN app.deferred : app.deferred[i] \in 0 .. Chunks - 1
    /\ \A i \in DOMAIN app.pending : ToSet(app.pending[i]) \subseteq ReplyKinds
    /\ ToSet(app.expected) \subseteq ReplyKinds /\ Len(app.expected) <= ReplyLimit
    /\ app.engine \in Contents
    /\ srv \in [paused : BOOLEAN, contents : 0 .. Chunks - 1, alt : {0, 1}]
    /\ faults \in 0 .. MaxFaults

\* A pane whose status is Running, and that no pause is about to make stale, is
\* shown as tmux has it: its copy was never changed by a chunk out of turn, and
\* the chunks it lacks are all on their way to it, in order and once each.
Coming == app.deferred \o [i \in DOMAIN Outputs(wire) |-> Outputs(wire)[i].value]
RunningIsExact ==
    app.flow.status = "Running" /\ (\A i \in DOMAIN wire : wire[i].ev # "Pause") =>
        /\ app.engine # Torn
        /\ \A i \in DOMAIN Coming : Coming[i] = (app.engine + i) % Chunks
        /\ ~srv.paused
        /\ srv.contents = (app.engine + Len(Coming)) % Chunks

\* The same, as long as no marker of a raced capture was erased.
ExactUntilErased == ~erased => RunningIsExact

\* A visible pane that is stale is being recovered: a flow command is queued or
\* unanswered, or a retry is armed and no outstanding capture holds it back.
FlowCommands(q) == SelectSeq(q, LAMBDA c : c # <<"Other">>)
RecoveryHasAWakeup ==
    Visible /\ app.flow.status # "Running" =>
        \/ FlowCommands(app.pending) # <<>>
        \/ ToSet(app.expected) \ {"Other"} # {}
        \/ app.flow.resync_after # None /\ ~app.flow.resync_requested

\* Snapshot transactions of a pane never overlap: their replies share one
\* pending capture, and two of them would build a snapshot from both.
Sent(kind) == Len(SelectSeq(app.expected, LAMBDA k : k = kind))
Queued(kind) == Len(SelectSeq(app.pending, LAMBDA c : kind \in ToSet(c)))
OneTransaction ==
    /\ Sent("PaneResyncProbe") + Queued("PaneResyncProbe")
         + Sent("PaneResyncVerify") + Queued("PaneResyncVerify") <= 1
    /\ app.capture # NoCapture <=> Sent("PaneResyncVerify") + Queued("PaneResyncVerify") = 1

\* However long the output goes on, a pane that stays visible is recovered
\* again and again once the disturbances are over.
Recovers == <>[]Visible => []<>(app.flow.status = "Running")

=============================================================================
