------------------------------ MODULE Terminal ------------------------------
(* The components between the outer terminal and the child: the process's   *)
(* own session, the child's pty, the terminal probe, the terminfo cache,    *)
(* the input parser and the key router.  They share no state in the code,   *)
(* so a behaviour picks one of them and runs it alone.                      *)
EXTENDS Integers, Sequences, FiniteSets

CONSTANTS
    MaxInput, MaxOutput, MaxStalls, MaxStops, MaxFailures,   \* of Session
    Limit, Capacity, MaxWrite, MaxBytes,                     \* of ChildPty
    MaxReply, MaxWire, MaxKeys,                              \* of TerminalProbe
    Processes, Nobody,                                       \* of TerminfoCache
    Bytes, MaxReceived, MaxPending,                          \* of TerminalInput, its bytes
    BoundKeys, CtrlC, MaxDeferred, MaxEvents                 \* and its keys

VARIABLES
    part,        \* the component of this behaviour
    \* Session
    pc, outcome, cleaned, failures, monitor, signals, stopped, stops, raw, nbIn, nbOut,
    lifecycle, wanted, screen, armed, hook, received, silent, report, stalls, registered,
    stdinPending, ptyPending, stdinReady, ptyReady, buffered, unread, edgeIn, typed,
    childOut, edgePty, childEof, written,
    \* ChildPty
    queue, droppedNow, pipe, got, sent, wants, inTurn, foreground, running,
    \* TerminalProbe
    stage, answered, pressed, coming, wire, held, discarding, finished, da1, output,
    ignore, matched, cut, behind,
    \* TerminfoCache
    db, staging, flock, mutex, at,
    \* TerminalInput, keys to their owners
    overlay, kittyMode, forwarded, consumed, transition, deferred, handoff, down, taker,
    delivered, events,
    \* TerminalInput, bytes to keys
    pending, waiting, units, reads

Life   == INSTANCE Session
Child  == INSTANCE ChildPty
Probe  == INSTANCE TerminalProbe
Cache  == INSTANCE TerminfoCache
Input  == INSTANCE TerminalInput WITH Keys <- BoundKeys

lifeVars ==
    <<pc, outcome, cleaned, failures, monitor, signals, stopped, stops, raw, nbIn, nbOut,
      lifecycle, wanted, screen, armed, hook, received, silent, report, stalls,
      registered, stdinPending, ptyPending, stdinReady, ptyReady, buffered, unread,
      edgeIn, typed, childOut, edgePty, childEof, written>>
childVars == <<queue, droppedNow, pipe, got, sent, wants, inTurn, foreground, running>>
probeVars ==
    <<stage, answered, pressed, coming, wire, held, discarding, finished, da1, output,
      ignore, matched, cut, behind>>
cacheVars == <<db, staging, flock, mutex, at>>
keyVars ==
    <<overlay, kittyMode, forwarded, consumed, transition, deferred, handoff, down, taker,
      delivered, events>>
parserVars == <<pending, waiting, units, reads>>
vars == <<part, lifeVars, childVars, probeVars, cacheVars, keyVars, parserVars>>

\* The components other than the one that is running stand still, in one of
\* their initial states.
Init ==
    /\ part \in {"life", "child", "probe", "cache", "keys", "parser"}
    /\ Life!Init /\ Child!Init /\ Probe!Init /\ Cache!Init /\ Input!KeysInit /\ Input!ParserInit
    /\ part # "life" => hook = "none"
    /\ part # "cache" => db = "none"

LifeStep   == part = "life" /\ Life!Next /\ UNCHANGED <<part, childVars, probeVars, cacheVars, keyVars, parserVars>>
ChildStep  == part = "child" /\ Child!Next /\ UNCHANGED <<part, lifeVars, probeVars, cacheVars, keyVars, parserVars>>
ProbeStep  == part = "probe" /\ Probe!Next /\ UNCHANGED <<part, lifeVars, childVars, cacheVars, keyVars, parserVars>>
CacheStep  == part = "cache" /\ Cache!Next /\ UNCHANGED <<part, lifeVars, childVars, probeVars, keyVars, parserVars>>
KeyStep    == part = "keys" /\ Input!KeysNext /\ UNCHANGED <<part, lifeVars, childVars, probeVars, cacheVars, parserVars>>
ParserStep == part = "parser" /\ Input!ParserNext /\ UNCHANGED <<part, lifeVars, childVars, probeVars, cacheVars, keyVars>>

Next == LifeStep \/ ChildStep \/ ProbeStep \/ CacheStep \/ KeyStep \/ ParserStep

-----------------------------------------------------------------------------
\* Each component's own fairness, while it is the one that runs: see the
\* Fairness of the modules for why the code justifies it.
Fairness ==
    /\ WF_lifeVars(part = "life" /\ Life!LectorStep)
    /\ WF_lifeVars(part = "life" /\ Life!SilenceElapses)
    /\ WF_lifeVars(part = "life" /\ Life!Signal("CONT"))
    /\ WF_childVars(part = "child" /\ Child!EndTurn)
    /\ WF_childVars(part = "child" /\ Child!WritableTurn)
    /\ WF_childVars(part = "child" /\ Child!ChildReads)
    /\ WF_probeVars(part = "probe" /\ Probe!ReadProbe)
    /\ WF_probeVars(part = "probe" /\ Probe!TimeOut)
    /\ WF_probeVars(part = "probe" /\ Probe!QueryFocus)
    /\ \A i \in Cache!Installers : WF_cacheVars(part = "cache" /\ Cache!Step(i))
Spec == Init /\ [][Next]_vars /\ Fairness

-----------------------------------------------------------------------------
(* Whenever the shell has the terminal back, its settings are as they were  *)
(* (main.rs: do_events, its guards, suspend and cleanup).                   *)
TerminalReturned == Life!TerminalReturned

(* A slow child sees its input in the order written, and a gap in it only   *)
(* in the turn that terminates the foreground (pty.rs, accept_write).       *)
GapEndsChild == Child!GapEndsChild

(* No installer takes a complete terminfo database away from another, also  *)
(* when one of them dies half way (pty.rs, install_terminfo).               *)
DatabaseStays == Cache!DatabaseStays

(* The terminal's answers and the user's keys are told apart, also when     *)
(* they arrive late or cut in two (StartupProbeBroker, ShutdownFenceBroker);*)
(* every byte typed is dispatched once and in order; and the release of a   *)
(* key goes where its press went (app/input.rs, InputParser and             *)
(* handle_key_event).                                                       *)
InputReachesItsOwner ==
    Probe!InputSeparated /\ Input!InputExact /\ Input!ReleaseFollowsPress

Settled ==
    CASE part = "life" -> Life!Served
      [] part = "child" -> Child!Written
      [] part = "probe" -> Probe!Released
      [] part = "cache" -> Cache!Installed
      [] OTHER -> TRUE

(* Typed input is handled although readiness is edge-triggered, the startup *)
(* hook runs and a termination signal ends the process; bytes the child did *)
(* not take are written when it does; what the probe held back is released; *)
(* every terminal gets a database.  (Session!InputServed, ChildPty!         *)
(* QueuedIsWritten, TerminalProbe!HeldIsReleased and TerminfoCache!         *)
(* InstallEnds in one formula, since a behaviour runs one component.)       *)
TerminalProgress == []<>Settled
=============================================================================
