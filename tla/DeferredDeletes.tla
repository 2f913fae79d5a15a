-------------------------- MODULE DeferredDeletes ---------------------------
(***************************************************************************)
(* What a listener hears of Backspace and Delete (screen_reader/           *)
(* tracking.rs).  The key is passed on, and the character it is to delete  *)
(* is read off the frame on the screen, behind which the application may   *)
(* be by several keys; it is spoken when a later frame shows a changed row *)
(* with the cursor where the deletion should have put it.  The application *)
(* here is one line with a cursor that takes keys in order; frames reach   *)
(* the screen later, and not every one of them.                            *)
(***************************************************************************)
EXTENDS Integers, Sequences, SequencesExt

CONSTANTS Keys,        \* of {"bs", "del"}
          Line,        \* the line at first: a sequence of different characters
          MaxKeys,     \* bound: keys pressed
          MaxRedraws,  \* bound: other output of the application
          MaxIntents,  \* MAX_PENDING_DELETE_INTENTS
          MaxLooks     \* MAX_PENDING_DELETE_PRESENTATIONS

VARIABLES typed,       \* keys on their way to the application
          live,        \* the application's line: text, col, revision
          presented,   \* the frame on the screen
          intents,     \* pending_deletes
          pressed,     \* input_sequence
          redraws,     \* other output so far
          spoken,      \* history: what was said, with the key that asked for it
          deleted,     \* history: what each key deleted
          early        \* history: something was said that the screen still showed

deleteVars == <<typed, live, presented, intents, pressed, redraws, spoken, deleted, early>>

Init ==
    /\ typed = <<>> /\ intents = <<>> /\ pressed = 0 /\ redraws = 0 /\ spoken = <<>> /\ early = FALSE
    /\ deleted = <<>>
    /\ \E col \in 0 .. Len(Line) : live = [text |-> Line, col |-> col, rev |-> 0]
    /\ presented = live

Cell(text, col) == IF col \in 0 .. Len(text) - 1 THEN <<text[col + 1]>> ELSE <<>>

\* The newest intent, if it is of the key before this one and of the same kind.
Previous(kind) == IF intents # <<>> /\ Last(intents).seq = pressed /\ Last(intents).kind = kind
                  THEN <<Last(intents)>> ELSE <<>>

\* defer_backspace, defer_delete: the column the key is taken to act on
TargetOfScreen(kind) == IF kind = "bs" THEN presented.col - 1 ELSE presented.col  \* mutant
Target(kind) ==
    LET p == Previous(kind)
        col == presented.col
    IN IF kind = "bs"
       THEN (IF p # <<>> /\ p[1].col <= col THEN p[1].col - 1 ELSE col) - 1
       ELSE IF p # <<>> /\ p[1].target >= col THEN p[1].target + 1 ELSE col

\* push_pending_delete
Pushed(intent) == Append(IF Len(intents) >= MaxIntents THEN Tail(intents) ELSE intents, intent)

Press(kind) ==
    /\ pressed < MaxKeys
    /\ pressed' = pressed + 1 /\ typed' = Append(typed, kind)
    /\ LET target == Target(kind)
           text == Cell(presented.text, target)
       IN intents' = IF text = <<>> THEN intents
                     ELSE Pushed([kind |-> kind, seq |-> pressed + 1, target |-> target, text |-> text[1],
                                  col |-> IF kind = "bs" THEN target + 1 ELSE presented.col,
                                  before |-> presented.text, boundary |-> live.rev, seen |-> -1, looks |-> 0])
    /\ UNCHANGED <<live, presented, redraws, spoken, deleted, early>>

\* The application takes a key.
Edit ==
    /\ typed # <<>>
    /\ LET at == IF Head(typed) = "bs" THEN live.col - 1 ELSE live.col
           hit == Cell(live.text, at)
       IN /\ live' = [text |-> IF hit = <<>> THEN live.text ELSE RemoveAt(live.text, at + 1),
                      col |-> IF Head(typed) = "bs" /\ hit # <<>> THEN at ELSE live.col,
                      rev |-> live.rev + 1]
          /\ deleted' = Append(deleted, hit)
    /\ typed' = Tail(typed)
    /\ UNCHANGED <<presented, intents, pressed, redraws, spoken, early>>

\* It writes something that leaves the line alone.
Redraw ==
    /\ redraws < MaxRedraws /\ redraws' = redraws + 1
    /\ live' = [live EXCEPT !.rev = @ + 1]
    /\ UNCHANGED <<typed, presented, intents, pressed, spoken, deleted, early>>

Present ==
    /\ presented # live /\ presented' = live
    /\ UNCHANGED <<typed, live, intents, pressed, redraws, spoken, deleted, early>>

\* pending_delete_is_confirmed, of an intent older than the frame
Due(i) == presented.rev > i.boundary /\ i.seen # presented.rev
Confirmed(i) == /\ IF i.kind = "bs" THEN presented.col < i.col ELSE presented.col = i.col
                /\ presented.text # i.before

\* resolve_pending_delete
Resolve ==
    /\ \E n \in DOMAIN intents : Due(intents[n])
    /\ LET said == SelectSeq(intents, LAMBDA i : Due(i) /\ Confirmed(i))
           looked(i) == IF Due(i) THEN [i EXCEPT !.seen = presented.rev, !.looks = @ + 1] ELSE i
           kept == SelectSeq(intents, LAMBDA i : ~(Due(i) /\ Confirmed(i)) /\ looked(i).looks < MaxLooks)
       IN /\ intents' = [n \in DOMAIN kept |-> looked(kept[n])]
          /\ spoken' = spoken \o [n \in DOMAIN said |-> [key |-> said[n].seq, text |-> said[n].text]]
          /\ early' = (early \/ \E n \in DOMAIN said : said[n].text \in ToSet(presented.text))
    /\ UNCHANGED <<typed, live, presented, pressed, redraws, deleted>>

Next == \/ \E kind \in Keys : Press(kind)
        \/ Edit \/ Redraw \/ Present \/ Resolve

Spec == Init /\ [][Next]_deleteVars

-----------------------------------------------------------------------------
(* Properties.                                                             *)

\* However far the screen is behind the keys, a character is spoken for the key
\* that deleted it, once, in the order of the keys, as long as every key pressed
\* finds a character before the cursor.
SpokenIsDeleted == (Len(typed) <= live.col /\ \A n \in DOMAIN deleted : deleted[n] # <<>>) =>
    /\ \A n \in DOMAIN spoken : spoken[n].key <= Len(deleted) => deleted[spoken[n].key] = <<spoken[n].text>>
    /\ \A m, n \in DOMAIN spoken : m < n => spoken[m].key < spoken[n].key

\* docs/performance.md: a result is announced when it is confirmed, "after its
\* physical receipt".  What is said to be deleted is gone from the screen.
SpokenIsGone == ~early
=============================================================================
