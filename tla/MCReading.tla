----------------------------- MODULE MCReading -----------------------------
(* Small instances of what decides when and what Lector reads aloud: the    *)
(* stack of views and its transitions, the stabilization of a burst of      *)
(* output, the text that is read of it, deferred deletions, tables, and the *)
(* review of what was printed before.  A behaviour picks one of them and    *)
(* runs it alone: the others reach it as the inputs its module enumerates.  *)
EXTENDS Review

CONSTANTS
    Root, Connections, Overlays, MaxChanges, MaxDrops,        \* of ViewStack
    Kinds, Screens, MinDelay, DiffDelay, MaxAdaptive, HardDelay,
    SettleDelay, LateWindow, CleanBursts, MaxOverlays,        \* of Stabilization
    MaxOutput                                                 \* of both

ASSUME ReadingConstants ==
    /\ Root \notin Connections
    /\ Screens \subseteq {"primary", "alternate"}
    /\ HardDelay \in Nat

VARIABLES
    part,        \* the component of this behaviour
    \* ViewStack
    stack,
    \* Stabilization
    live, presented, finalized, readScreen, transition, profiles, input, overlay, shown,
    announce, overlays, waiting, hasty,
    \* AutoRead
    now, main, prev, update, switching, pending, active, navigating, suppress, inbox,
    pressed, events, unheard, hidden,
    \* DeferredDeletes
    typed, liveLine, shownLine, intents, deletes, repaints, announced, deleted, early,
    \* TableNavigation
    lines, tableCursor, session, spoken, redraws

\* A column of blanks divides the first table, a bar the second.
Row(a, b, c, d, e) == <<a, b, c, d, e>>
Tables ==
    {<<Row("a", " ", " ", "b", " "), Row("1", " ", " ", "d", "a"), Row(" ", " ", " ", " ", " ")>>,
     <<Row("a", "|", "b", " ", "c"), Row("-", "|", "-", "-", "-"), Row("1", "|", " ", " ", " ")>>}
\* An empty screen, and one with words to repeat, extend and overwrite.
Starts ==
    {<<<<"", "", "">>, <<"", "", "">>>>,
     <<<<"a", " ", "a">>, <<"b", "", "">>>>}
\* Where the program moves the cursor.
Moves == {<<1, 3>>, <<2, 2>>}

\* A wrapped line with a blank where it wraps, an empty row and a wide
\* character; and rows that are not wrapped.
Wrapped ==
    [rows |-> <<<<"a", "(", "b", " ">>, <<"a", ".", ")", "">>, <<"", "", "", "">>,
                <<" ", "c", "~", "">>>>,
     wrapped |-> <<TRUE, FALSE, FALSE, FALSE>>, prompts |-> <<<<1, 1>>, <<4, 1>>>>,
     at |-> <<2, 3>>, top |-> 3, height |-> 2]
Plain ==
    [rows |-> <<<<"(", "a", ")", "">>, <<"a", "(", "(", ")">>>>,
     wrapped |-> <<FALSE, FALSE>>, prompts |-> <<>>,
     at |-> <<2, 4>>, top |-> 1, height |-> 2]
ReviewDocuments == {Wrapped, Plain}
ReviewSizes == {<<1, 4>>, <<2, 2>>}
ReviewClips == {[default |-> "internal", provider |-> "osc52"],
                [default |-> "system", provider |-> "native"]}
\* One key, or two, of every kind the parser and the prompt tell apart.
ReviewKeys ==
    {"2", "q", "\"", "+", "y", "v", "V", "g", "z", "]", "p", "f", "T", ";", ",", "/", "n", "N",
     "C-f", "C-b", "l", "j", "k", "$", "w", "b", "e", "G", "%", "i", "a", "-",
     "Escape", "Enter", "Backspace", "Unknown"}

Stack  == INSTANCE ViewStack
Stable == INSTANCE Stabilization
Read == INSTANCE AutoRead WITH
    Letters <- {"a", "b"}, Height <- 2, Width <- 3, Starts <- Starts, Places <- Moves,
    Others <- {"enter", "up"}, MaxEvents <- 3, MaxKeys <- 1, MaxPending <- 2
Deletes == INSTANCE DeferredDeletes WITH
    Keys <- {"bs"}, Line <- <<"a", "b", "c", "d">>, MaxKeys <- 4, MaxRedraws <- 2,
    MaxIntents <- 3, MaxLooks <- 6, live <- liveLine, presented <- shownLine,
    pressed <- deletes, redraws <- repaints, spoken <- announced
Table == INSTANCE TableNavigation WITH
    Screens <- Tables, Height <- 3, Width <- 5, MaxStops <- 1, MaxRedraws <- 1,
    cursor <- tableCursor
stableVars ==
    <<live, presented, finalized, readScreen, transition, profiles, input, overlay, shown,
      announce, overlays, waiting, hasty>>
readVars ==
    <<now, main, prev, update, switching, pending, active, navigating, suppress, inbox,
      pressed, events, unheard, hidden>>
deleteVars ==
    <<typed, liveLine, shownLine, intents, deletes, repaints, announced, deleted, early>>
tableVars == <<lines, tableCursor, session, spoken, redraws>>
readingVars == <<part, stack, stableVars, readVars, deleteVars, tableVars, reviewVars>>

ReadingInit ==
    /\ part \in {"stack", "stable", "read", "deletes", "table", "review"}
    /\ Stack!Init /\ Stable!Init /\ Read!Init /\ Deletes!Init /\ Table!Init
    /\ Init
    /\ part # "read" => now.rows[1].cells[1] = "" /\ ~suppress
    /\ part # "deletes" => liveLine.col = 0
    /\ part # "table" => lines[1][2] = "|"
    \* the wrapped document is copied to the program's own ring, the other to the system's
    /\ (clip.default = "internal") = (doc.top = 3)
    /\ part # "review" => doc.top = 3

InStack ==
    part = "stack" /\ Stack!Next /\ UNCHANGED <<part, stableVars, readVars, deleteVars, tableVars, reviewVars>>
InStable ==
    part = "stable" /\ Stable!Next /\ UNCHANGED <<part, stack, readVars, deleteVars, tableVars, reviewVars>>
InRead ==
    part = "read" /\ Read!Next /\ UNCHANGED <<part, stack, stableVars, deleteVars, tableVars, reviewVars>>
InDeletes ==
    part = "deletes" /\ Deletes!Next /\ UNCHANGED <<part, stack, stableVars, readVars, tableVars, reviewVars>>
InTable ==
    part = "table" /\ Table!Next /\ UNCHANGED <<part, stack, stableVars, readVars, deleteVars, reviewVars>>
InReview ==
    part = "review" /\ Next /\ UNCHANGED <<part, stack, stableVars, readVars, deleteVars, tableVars>>

ReadingNext == InStack \/ InStable \/ InRead \/ InDeletes \/ InTable \/ InReview

\* Each component's own fairness, while it is the one that runs.
Fairness ==
    /\ WF_stack(part = "stack" /\ Stack!LoopStep)
    /\ WF_stableVars(part = "stable" /\ Stable!Present)
    /\ WF_stableVars(part = "stable" /\ Stable!Announce)
    /\ WF_stableVars(part = "stable" /\ Stable!Finalize)
    /\ WF_stableVars(part = "stable" /\ Stable!Elapse)
ReadingSpec == ReadingInit /\ [][ReadingNext]_readingVars /\ Fairness

-----------------------------------------------------------------------------
(* The listener reads the view that is on the screen, also after the stack  *)
(* dropped it (views/stack.rs, app/view_stack.rs).                          *)
PresentedIsReadable == Stack!PresentedIsReadable

(* A frame that is on the screen and not read has something that will read  *)
(* it (app.rs, view_stack.rs, the stabilization of bursts).                 *)
ReadingHasADeadline == Stable!ReadingHasADeadline

(* What appears on the screen is heard (screen_reader/auto_read.rs).        *)
AppearsIsHeard == Read!AppearsIsHeard

(* A character is spoken for the key that deleted it, once and in order     *)
(* (screen_reader/tracking.rs, defer_backspace), and a table command speaks *)
(* what is under the cursor it leaves (table.rs, commands/table.rs).        *)
SpokenExact == Deletes!SpokenIsDeleted /\ Table!SpokenUnderCursor

Settled ==
    CASE part = "stack" -> Stack!Arrived
      [] part = "stable" -> Stable!Heard
      [] OTHER -> TRUE

(* Every change of views reaches the screen and is announced, and what a    *)
(* program wrote is read in the end.  (ViewStack!ChangesArrive and          *)
(* Stabilization!OutputIsRead in one formula, since a behaviour runs one    *)
(* component.)                                                              *)
ReadingProgress == []<>Settled
=============================================================================
