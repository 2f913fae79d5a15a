------------------------------- MODULE Session -------------------------------
(***************************************************************************)
(* The life of a Lector process as main and do_events run it: the speech   *)
(* start under the startup signal monitor, the hand-over of the physical   *)
(* terminal, the edge-triggered event loop with its startup hook, stop and *)
(* continue, and the clean-up every exit goes through.  The loop runs on   *)
(* one thread; the user, the child, the signals and the clock interleave   *)
(* with each of its steps.                                                 *)
(***************************************************************************)
EXTENDS Naturals

CONSTANTS MaxInput,      \* chunks the user types
          MaxOutput,     \* chunks the child writes
          MaxStalls,     \* output turns that end blocked, over budget or held
          MaxStops,      \* times the user stops Lector
          MaxFailures    \* system calls that fail

VARIABLES
  pc,            \* where main/do_events is
  outcome,       \* "none", "ok", "error", "signal": what do_events returns
  cleaned,       \* no restore or cleanup step failed
  failures,      \* failed calls so far
  monitor,       \* startup signal thread: "watching", "terminated", "done"
  signals,       \* delivered signals nobody has taken yet
  stopped,       \* the process is stopped by SIGTSTP
  stops,
  raw, nbIn, nbOut,   \* raw input, O_NONBLOCK of stdin and stdout
  lifecycle,     \* PhysicalTerminalLifecycle.state
  wanted,        \* the queued lifecycle bytes leave the alternate screen taken
  screen,        \* the terminal's alternate screen and modes are Lector's
  armed,         \* EmergencyTerminalGuard.armed
  hook,          \* startup_hook_path: "none", "pending", "ran"
  received,      \* startup_received_pty_output
  silent,        \* the silent-child deadline: "none", "running", "elapsed"
  report,        \* the last drain of scheduled output
  stalls,
  registered,    \* stdin is registered with the poller
  stdinPending, ptyPending,   \* the continuation flags of a bounded drain
  stdinReady, ptyReady,       \* what this turn serves
  buffered,      \* startup_buffered_input
  unread, edgeIn, typed,      \* stdin: bytes in the kernel, readiness event
  childOut, edgePty, childEof, written  \* the same for the child's output

termVars == <<raw, nbIn, nbOut, lifecycle, wanted, screen, armed>>
hookVars == <<hook, received, silent, registered>>
outVars == <<report, stalls>>
turnVars == <<stdinPending, ptyPending, stdinReady, ptyReady>>
inVars == <<buffered, unread, edgeIn, typed>>
childVars == <<childOut, edgePty, childEof, written>>
endVars == <<outcome, cleaned, failures>>
sigVars == <<monitor, signals, stopped, stops>>
sessionVars == <<pc, endVars, sigVars, termVars, hookVars, outVars, turnVars,
                 inVars, childVars>>

-----------------------------------------------------------------------------
(* The lifecycle of the physical terminal: its next state and whether the  *)
(* bytes it emits leave the terminal Lector's.                             *)

Suspend == IF lifecycle = "active" THEN <<"suspended", FALSE>> ELSE <<lifecycle, wanted>>
Resume == IF lifecycle = "suspended" THEN <<"active", TRUE>> ELSE <<lifecycle, wanted>>
Activate == IF lifecycle = "inactive" THEN <<"active", TRUE>> ELSE <<lifecycle, wanted>>
\* The fence resets the modes but keeps the alternate screen.
BeginFence == IF lifecycle = "active" THEN <<"fence", TRUE>> ELSE <<lifecycle, wanted>>
FinishFence == IF lifecycle = "fence" THEN <<"shutdown", FALSE>> ELSE <<lifecycle, wanted>>

Transaction(step) == lifecycle' = step[1] /\ wanted' = step[2]

-----------------------------------------------------------------------------
Init ==
  /\ pc = "speech" /\ outcome = "none" /\ cleaned = TRUE /\ failures = 0
  /\ monitor = "watching" /\ signals = {} /\ stopped = FALSE /\ stops = 0
  /\ raw = FALSE /\ nbIn = FALSE /\ nbOut = FALSE
  /\ lifecycle = "inactive" /\ wanted = FALSE /\ screen = FALSE /\ armed = FALSE
  /\ hook \in {"none", "pending"}   \* no on_startup hook, or a broken init.lua
  /\ received = FALSE /\ silent = "none" /\ registered = FALSE
  /\ report = "clear" /\ stalls = 0
  /\ stdinPending = FALSE /\ ptyPending = FALSE
  /\ stdinReady = FALSE /\ ptyReady = FALSE
  /\ buffered = 0 /\ unread = 0 /\ edgeIn = FALSE /\ typed = 0
  /\ childOut = 0 /\ edgePty = FALSE /\ childEof = FALSE /\ written = 0

-----------------------------------------------------------------------------
(* The environment.  Once Lector is leaving, nobody takes what arrives: the *)
(* input is flushed and the signals find no reader.                         *)

Leaving == pc \in {"restoreOut", "restoreIn", "fence", "wait", "leave", "attrs", "drop", "main", "ended"}

Type ==
  /\ typed < MaxInput /\ ~Leaving
  /\ typed' = typed + 1 /\ unread' = unread + 1
  /\ edgeIn' = (edgeIn \/ registered)
  /\ UNCHANGED <<pc, endVars, sigVars, termVars, hookVars, outVars, turnVars, buffered, childVars>>

ChildWrites ==
  /\ written < MaxOutput /\ ~childEof /\ ~Leaving
  /\ written' = written + 1 /\ childOut' = childOut + 1 /\ edgePty' = TRUE
  /\ UNCHANGED <<pc, endVars, sigVars, termVars, hookVars, outVars, turnVars, inVars, childEof>>

ChildExits ==
  /\ ~childEof /\ ~Leaving
  /\ childEof' = TRUE /\ edgePty' = TRUE
  /\ UNCHANGED <<pc, endVars, sigVars, termVars, hookVars, outVars, turnVars, inVars, childOut, written>>

\* A stopped process runs again on SIGCONT and finds its other signals queued.
Signal(s) ==
  /\ s \notin signals /\ ~Leaving
  /\ s = "CONT" => stopped
  /\ s = "TSTP" => stops < MaxStops
  /\ stops' = IF s = "TSTP" THEN stops + 1 ELSE stops
  /\ signals' = signals \cup {s}
  /\ stopped' = (stopped /\ s # "CONT")
  /\ UNCHANGED <<pc, endVars, monitor, termVars, hookVars, outVars, turnVars, inVars, childVars>>

\* The 50 ms of the silent-child deadline pass.
SilenceElapses ==
  /\ silent = "running" /\ silent' = "elapsed"
  /\ UNCHANGED <<pc, endVars, sigVars, termVars, hook, received, registered, outVars, turnVars, inVars, childVars>>

-----------------------------------------------------------------------------
(* Starting speech while a thread watches for a termination signal.        *)

MonitorSeesSignal ==
  /\ pc \in {"speech", "cancel"} /\ monitor = "watching" /\ "TERM" \in signals
  /\ monitor' = "terminated" /\ signals' = signals \ {"TERM"}
  /\ UNCHANGED <<pc, endVars, stopped, stops, termVars, hookVars, outVars, turnVars, inVars, childVars>>

\* configure_speech_server and start_speech return, with or without success;
\* the supervisor's termination makes them return as well.
SpeechStarts ==
  /\ pc = "speech"
  /\ \/ monitor # "terminated" /\ outcome' = "none" /\ failures' = failures
     \/ monitor = "terminated" /\ outcome' = "error" /\ failures' = failures
     \/ failures < MaxFailures /\ outcome' = "error" /\ failures' = failures + 1
  /\ pc' = "cancel"
  /\ UNCHANGED <<cleaned, sigVars, termVars, hookVars, outVars, turnVars, inVars, childVars>>

\* The cancelled monitor looks at the signals once more before it obeys.
MonitorCancelled ==
  /\ pc = "cancel" /\ monitor = "watching" /\ "TERM" \notin signals
  /\ monitor' = "done"
  /\ UNCHANGED <<pc, endVars, signals, stopped, stops, termVars, hookVars, outVars, turnVars, inVars, childVars>>

\* The rest of start_configured_speech: what reached the pipe after the
\* monitor's last look still counts.
StartupOutcome ==
  /\ pc = "cancel" /\ monitor # "watching"
  /\ LET terminated == monitor = "terminated" \/ "TERM" \in signals
     IN  /\ outcome' = IF terminated THEN "signal" ELSE outcome
         /\ signals' = signals \ {"TERM"}
         /\ pc' = IF terminated \/ outcome = "error" THEN "main" ELSE "raw"
  /\ UNCHANGED <<cleaned, failures, monitor, stopped, stops, termVars, hookVars, outVars, turnVars, inVars, childVars>>

-----------------------------------------------------------------------------
(* Taking the terminal.  A failed call before the event loop returns at    *)
(* once: only the guards run.                                              *)

Fails(at, to) ==
  /\ pc = at /\ failures < MaxFailures
  /\ failures' = failures + 1 /\ pc' = to

ReturnsEarly ==
  /\ \E at \in {"raw", "focus", "flagsIn", "flagsOut"} : Fails(at, "drop")
  /\ outcome' = "error" /\ cleaned' = FALSE
  /\ UNCHANGED <<sigVars, termVars, hookVars, outVars, turnVars, inVars, childVars>>

SetRaw ==
  /\ pc = "raw" /\ pc' = "focus"
  /\ raw' = TRUE /\ armed' = TRUE
  /\ registered' = (hook # "pending")
  /\ edgeIn' = (hook # "pending" /\ unread > 0)
  /\ UNCHANGED <<endVars, sigVars, nbIn, nbOut, lifecycle, wanted, screen, hook, received, silent, outVars, turnVars, buffered, unread, typed, childVars>>

\* query_focus_mode keeps what it read that was not the terminal's answer.
QueryFocus ==
  /\ pc = "focus" /\ pc' = "flagsIn"
  /\ \E n \in 0..unread : buffered' = n /\ unread' = unread - n
  /\ UNCHANGED <<endVars, sigVars, termVars, hookVars, outVars, turnVars, edgeIn, typed, childVars>>

InputNonblocking ==
  /\ pc = "flagsIn" /\ pc' = "flagsOut" /\ nbIn' = TRUE
  /\ UNCHANGED <<endVars, sigVars, raw, nbOut, lifecycle, wanted, screen, armed, hookVars, outVars, turnVars, inVars, childVars>>

OutputNonblocking ==
  /\ pc = "flagsOut" /\ pc' = "begin" /\ nbOut' = TRUE
  /\ Transaction(Activate)
  /\ UNCHANGED <<endVars, sigVars, raw, nbIn, screen, armed, hookVars, outVars, turnVars, inVars, childVars>>

-----------------------------------------------------------------------------
(* One drain of the child's output and one of the scheduled output.        *)

\* A bounded drain of what is available: it stops at the budget, and must then
\* be continued without a new readiness event, or with nothing left.
Drains(available) ==
  {d \in [count : 0..available, again : BOOLEAN] :
     IF d.again THEN d.count > 0 ELSE d.count = available}

\* (A drain that forgets what it left behind.)
NeverAgain(d) == FALSE

\* The continuation the drain asks for.
DrainAgain(d) == d.again

\* Output is written unless it is blocked, over the turn's budget or held by
\* an open synchronized update.
DrainOutput ==
  \/ report' = "clear" /\ screen' = wanted /\ stalls' = stalls
  \/ /\ stalls < MaxStalls /\ stalls' = stalls + 1
     /\ report' \in {"blocked", "budget", "held"} /\ screen' = screen

\* The child wrote something, or was silent for the grace time.
ChildReady == received \/ silent # "running"

\* run_pending_startup_hook registers stdin and asks for a turn: registering a
\* readable descriptor may or may not give an event.
HookRan(runs, owed) ==
  /\ hook' = IF runs THEN "ran" ELSE hook
  /\ registered' = (registered \/ runs)
  /\ stdinPending' = (owed \/ runs)
  /\ edgeIn' \in IF runs /\ unread > 0 THEN BOOLEAN ELSE {edgeIn}

\* The hook runs once the child is ready and its frame is out.
MaybeRunHook ==
  /\ silent' = IF ChildReady /\ ~received THEN "none" ELSE silent
  /\ HookRan(hook = "pending" /\ ChildReady /\ report' = "clear", stdinPending)

\* The first drain of the child, the first flush and perhaps the hook.
Begin ==
  /\ pc = "begin"
  /\ \E d \in Drains(childOut) :
       /\ childOut' = childOut - d.count
       /\ received' = (d.count > 0)
       /\ ptyPending' = DrainAgain(d)
       /\ IF childEof /\ ~d.again
          THEN /\ pc' = "restoreOut" /\ outcome' = "ok" /\ screen' = wanted
               /\ UNCHANGED <<hook, silent, registered, outVars, stdinPending, edgeIn>>
          ELSE /\ pc' = "poll" /\ outcome' = outcome /\ DrainOutput
               /\ LET runs == hook = "pending" /\ d.count > 0 /\ report' = "clear"
                  IN  /\ silent' = IF hook = "pending" /\ d.count = 0 THEN "running" ELSE "none"
                      /\ HookRan(runs, buffered > 0)
  /\ UNCHANGED <<cleaned, failures, sigVars, raw, nbIn, nbOut, lifecycle, wanted, armed, stdinReady, ptyReady, buffered, unread, typed, edgePty, childEof, written>>

-----------------------------------------------------------------------------
(* One turn of the loop.                                                    *)

\* poll returns for an event, a continuation, or a deadline of its own; the
\* scheduler has one whenever its last drain left work, and the stdout retry.
Wakes ==
  \/ edgeIn \/ edgePty \/ signals # {} \/ ptyPending
  \/ hook # "pending" /\ stdinPending
  \/ silent = "elapsed" \/ report # "clear"

Poll ==
  /\ pc = "poll" /\ Wakes /\ ~stopped
  /\ pc' = "dispatch"
  /\ silent' = IF silent = "elapsed" THEN "none" ELSE silent
  /\ ptyReady' = (ptyPending \/ edgePty) /\ stdinReady' = (stdinPending \/ edgeIn)
  /\ ptyPending' = FALSE /\ stdinPending' = FALSE
  /\ edgePty' = FALSE /\ edgeIn' = FALSE
  /\ UNCHANGED <<endVars, sigVars, termVars, hook, received, registered, outVars, buffered, unread, typed, childOut, childEof, written>>

NoSignalLeft ==
  /\ pc = "dispatch" /\ signals = {} /\ pc' = "pty"
  /\ UNCHANGED <<endVars, sigVars, termVars, hookVars, outVars, turnVars, inVars, childVars>>

ShutdownSignal ==
  /\ pc = "dispatch" /\ "TERM" \in signals
  /\ signals' = signals \ {"TERM"}
  /\ pc' = "restoreOut" /\ outcome' = "signal"
  /\ UNCHANGED <<cleaned, failures, monitor, stopped, stops, termVars, hookVars, outVars, turnVars, inVars, childVars>>

\* SIGTSTP, step by step: leave the screen, restore the descriptors, flush,
\* restore the settings, and only then stop.
SuspendSignal ==
  /\ pc = "dispatch" /\ "TSTP" \in signals
  /\ signals' = signals \ {"TSTP"}
  /\ Transaction(Suspend)
  /\ pc' = "suspendFlags"
  /\ UNCHANGED <<endVars, monitor, stopped, stops, raw, nbIn, nbOut, screen, armed, hookVars, outVars, turnVars, inVars, childVars>>

SuspendFlags ==
  /\ pc = "suspendFlags" /\ pc' = "suspendDrain"
  /\ nbIn' = FALSE /\ nbOut' = FALSE
  /\ UNCHANGED <<endVars, sigVars, raw, lifecycle, wanted, screen, armed, hookVars, outVars, turnVars, inVars, childVars>>

SuspendDrain ==
  /\ pc = "suspendDrain" /\ pc' = "suspendAttrs"
  /\ screen' = wanted
  /\ UNCHANGED <<endVars, sigVars, raw, nbIn, nbOut, lifecycle, wanted, armed, hookVars, outVars, turnVars, inVars, childVars>>

StopSelf ==
  /\ pc = "suspendAttrs" /\ pc' = "continue"
  /\ raw' = FALSE /\ stopped' = TRUE
  /\ UNCHANGED <<endVars, monitor, signals, stops, nbIn, nbOut, lifecycle, wanted, screen, armed, hookVars, outVars, turnVars, inVars, childVars>>

Reclaim(at) ==
  /\ pc = at /\ ~stopped /\ pc' = "dispatch"
  /\ raw' = TRUE /\ nbIn' = TRUE /\ nbOut' = TRUE
  /\ Transaction(Resume)
  /\ UNCHANGED <<endVars, monitor, stopped, stops, screen, armed, hookVars, outVars, turnVars, inVars, childVars>>

Continued == Reclaim("continue") /\ UNCHANGED signals

\* The queued SIGCONT repeats the reclaim.
ResumeSignal == "CONT" \in signals /\ Reclaim("dispatch") /\ signals' = signals \ {"CONT"}

ServePty ==
  /\ pc = "pty" /\ ptyReady' = FALSE
  /\ IF ~ptyReady
     THEN pc' = "stdin" /\ UNCHANGED <<outcome, screen, received, ptyPending, childOut>>
     ELSE \E d \in Drains(childOut) :
            /\ childOut' = childOut - d.count
            /\ received' = (received \/ d.count > 0)
            /\ ptyPending' = DrainAgain(d)
            /\ IF childEof /\ ~d.again
               THEN pc' = "restoreOut" /\ outcome' = "ok" /\ screen' = wanted
               ELSE pc' = "stdin" /\ UNCHANGED <<outcome, screen>>
  /\ UNCHANGED <<cleaned, failures, sigVars, raw, nbIn, nbOut, lifecycle, wanted, armed, hook, silent, registered, outVars, stdinPending, stdinReady, inVars, edgePty, childEof, written>>

\* Physical input waits in the kernel until the hook has run; the remembered
\* readiness is served right after it.
ServeStdin ==
  /\ pc = "stdin" /\ pc' = "output" /\ stdinReady' = FALSE
  /\ IF stdinReady /\ hook = "pending"
     THEN stdinPending' = TRUE /\ UNCHANGED <<buffered, unread>>
     ELSE IF stdinReady
     THEN \E d \in Drains(unread) :
            /\ buffered' = 0 /\ unread' = unread - d.count
            /\ stdinPending' = DrainAgain(d)
     ELSE UNCHANGED <<stdinPending, buffered, unread>>
  /\ UNCHANGED <<endVars, sigVars, termVars, hookVars, outVars, ptyPending, ptyReady, edgeIn, typed, childVars>>

\* handle_tick, the scheduled output and the end-of-turn hook test.
ServeOutput ==
  /\ pc = "output" /\ pc' = "poll"
  /\ DrainOutput
  /\ MaybeRunHook
  /\ UNCHANGED <<endVars, sigVars, raw, nbIn, nbOut, lifecycle, wanted, armed, received, ptyPending, stdinReady, ptyReady, buffered, unread, typed, childVars>>

\* Any step of the loop that ends in `?`.
LoopFails ==
  /\ \E at \in {"begin", "dispatch", "suspendFlags", "suspendDrain", "suspendAttrs",
                "continue", "pty", "stdin", "output"} :
       Fails(at, "restoreOut") /\ (at = "continue" => ~stopped)
  /\ outcome' = "error"
  /\ UNCHANGED <<cleaned, sigVars, termVars, hookVars, outVars, turnVars, inVars, childVars>>

\* The user hung up.
InputEof ==
  /\ pc = "stdin" /\ stdinReady /\ hook # "pending" /\ unread = 0
  /\ pc' = "restoreOut" /\ outcome' = "ok"
  /\ UNCHANGED <<cleaned, failures, sigVars, termVars, hookVars, outVars, turnVars, inVars, childVars>>

-----------------------------------------------------------------------------
(* Clean-up.  The descriptor flags, the fence, the alternate screen and the *)
(* settings, each attempt remembered; then the guards; then main's own.     *)

\* The locals of the loop are gone.
LoopEnds ==
  /\ stdinPending' = FALSE /\ ptyPending' = FALSE /\ stdinReady' = FALSE /\ ptyReady' = FALSE
  /\ received' = FALSE /\ silent' = "none" /\ report' = "clear" /\ stalls' = MaxStalls
  /\ buffered' = 0 /\ edgeIn' = FALSE /\ edgePty' = FALSE
  /\ UNCHANGED <<hook, registered, unread, typed, childOut, childEof, written>>

RestoreOut ==
  /\ pc = "restoreOut" /\ pc' = "restoreIn" /\ nbOut' = FALSE
  /\ LoopEnds
  /\ UNCHANGED <<endVars, sigVars, raw, nbIn, lifecycle, wanted, screen, armed>>

RestoreIn ==
  /\ pc = "restoreIn" /\ pc' = "fence" /\ nbIn' = FALSE
  /\ UNCHANGED <<endVars, sigVars, raw, nbOut, lifecycle, wanted, screen, armed, hookVars, outVars, turnVars, inVars, childVars>>

SendFence ==
  /\ pc = "fence" /\ pc' = "wait"
  /\ Transaction(BeginFence) /\ screen' = BeginFence[2]
  /\ UNCHANGED <<endVars, sigVars, raw, nbIn, nbOut, armed, hookVars, outVars, turnVars, inVars, childVars>>

\* Input up to the reply (or the timeout) is Lector's own and is discarded.
AwaitFence ==
  /\ pc = "wait" /\ pc' = "leave"
  /\ unread' \in 0..unread
  /\ \/ UNCHANGED <<cleaned, failures>>
     \/ failures < MaxFailures /\ failures' = failures + 1 /\ cleaned' = FALSE
  /\ UNCHANGED <<outcome, sigVars, termVars, hookVars, outVars, turnVars, buffered, edgeIn, typed, childVars>>

LeaveScreen ==
  /\ pc = "leave" /\ pc' = "attrs"
  /\ Transaction(FinishFence) /\ screen' = FinishFence[2]
  /\ UNCHANGED <<endVars, sigVars, raw, nbIn, nbOut, armed, hookVars, outVars, turnVars, inVars, childVars>>

\* TCSAFLUSH: the settings come back and queued input goes.
RestoreAttrs ==
  /\ pc = "attrs" /\ pc' = "drop" /\ raw' = FALSE /\ unread' = 0
  /\ UNCHANGED <<endVars, sigVars, nbIn, nbOut, lifecycle, wanted, screen, armed, hookVars, outVars, turnVars, buffered, edgeIn, typed, childVars>>

\* A failed restore is remembered and the next one tried; a failed cleanup
\* step ends the cleanup.
RestoreFails ==
  /\ \/ Fails("restoreOut", "restoreIn") /\ LoopEnds
     \/ /\ \/ Fails("restoreIn", "fence")
           \/ \E at \in {"fence", "leave", "attrs"} : Fails(at, "drop")
        /\ UNCHANGED <<hookVars, outVars, turnVars, inVars, childVars>>
  /\ cleaned' = FALSE
  /\ UNCHANGED <<outcome, sigVars, termVars>>

\* (Disarming whatever the clean-up did.)
DisarmedAnyway == TRUE

\* The guards drop in reverse order; the emergency guard only when no
\* clean-up was complete.
Disarmed == cleaned

DropGuards ==
  /\ pc = "drop" /\ pc' = "main"
  /\ nbIn' = FALSE /\ nbOut' = FALSE /\ armed' = FALSE
  /\ LET emergency == armed /\ ~Disarmed
     IN  /\ screen' = (screen /\ ~emergency)
         /\ raw' = (raw /\ ~emergency)
  /\ UNCHANGED <<endVars, sigVars, lifecycle, wanted, hookVars, outVars, turnVars, inVars, childVars>>

\* main restores the settings again, ends speech and the child, and repeats
\* the signal with its default action.
MainEnds ==
  /\ pc = "main" /\ pc' = "ended"
  /\ raw' = FALSE /\ childEof' = TRUE
  /\ UNCHANGED <<endVars, sigVars, nbIn, nbOut, lifecycle, wanted, screen, armed, hookVars, outVars, turnVars, inVars, childOut, edgePty, written>>

-----------------------------------------------------------------------------
Ended == pc = "ended" /\ UNCHANGED sessionVars

SpeechStep == SpeechStarts \/ MonitorSeesSignal \/ MonitorCancelled \/ StartupOutcome
SetupStep == SetRaw \/ QueryFocus \/ InputNonblocking \/ OutputNonblocking \/ Begin
SuspendStep == SuspendSignal \/ SuspendFlags \/ SuspendDrain \/ StopSelf \/ Continued \/ ResumeSignal
TurnStep == Poll \/ NoSignalLeft \/ ShutdownSignal \/ SuspendStep \/ ServePty \/ ServeStdin \/ ServeOutput
CleanStep == RestoreOut \/ RestoreIn \/ SendFence \/ AwaitFence \/ LeaveScreen \/ RestoreAttrs \/ DropGuards \/ MainEnds
LectorStep == ~stopped /\ (SpeechStep \/ SetupStep \/ TurnStep \/ CleanStep)

Next ==
  \/ LectorStep
  \/ ReturnsEarly \/ LoopFails \/ InputEof \/ RestoreFails
  \/ Type \/ ChildWrites \/ ChildExits \/ SilenceElapses
  \/ \E s \in {"TSTP", "CONT", "TERM"} : Signal(s)
  \/ Ended

(* Lector runs whenever it can, time passes, and whoever stops Lector       *)
(* continues it; nothing else is promised.                                  *)
Fairness ==
  /\ WF_sessionVars(LectorStep)
  /\ WF_sessionVars(SilenceElapses)
  /\ WF_sessionVars(Signal("CONT"))

Spec == Init /\ [][Next]_sessionVars /\ Fairness

-----------------------------------------------------------------------------
(* Whenever the shell has the terminal back - Lector is stopped, or gone -  *)
(* the settings, the descriptor flags and the screen are as they were,      *)
(* whichever call failed on the way (do_events and its guards).             *)
TerminalReturned ==
  pc = "ended" \/ stopped => ~raw /\ ~nbIn /\ ~nbOut /\ ~screen

Served ==
  /\ Leaving \/ (buffered + unread = 0 /\ hook # "pending")
  /\ "TERM" \in signals => pc = "ended"

(* What the user typed is handled although readiness is edge-triggered and  *)
(* drains are bounded; the startup hook runs, and a termination signal ends *)
(* the process: again and again nothing of this is waiting.                 *)
InputServed == []<>Served

=============================================================================
