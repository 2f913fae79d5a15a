------------------------------ MODULE AutoRead ------------------------------
(***************************************************************************)
(* What is read aloud when output settles (screen_reader/auto_read.rs,     *)
(* screen_reader.rs, and finalization in app/pty.rs, app/view_stack.rs).   *)
(* Two accounts of the output are at hand: what the print observer saw     *)
(* (terminal.rs, UpdateSummary), which is read where it can be trusted,    *)
(* and the screens before and after, whose difference is read otherwise.   *)
(* Echoes of typed characters are told from output by matching them with a *)
(* queue of the keys passed on, when the user has asked for that.          *)
(*                                                                         *)
(* A character is a string of length one; "" is a cell never written and   *)
(* "/" the end of a line in a text.  The difference of two texts is that   *)
(* of the crate `similar`: which alignment of the lines it picks, of those *)
(* that cannot be extended, is left open.  Hooks in Lua, indentation and highlights are left out.      *)
(***************************************************************************)
EXTENDS Integers, Sequences, FiniteSets, FiniteSetsExt, SequencesExt

CONSTANTS Letters,    \* what keys type and programs print
          Height, Width,
          Starts,     \* the lines on the screen at first: sequences of Height rows of cells
          Places,     \* <<row, column>> that programs move the cursor to
          Others,     \* of {"enter", "up"}: keys that type nothing
          MaxEvents,  \* bound: pieces of output, and changes of the option
          MaxKeys,    \* bound: keys pressed
          MaxPending  \* MAX_PENDING_KEY_ECHO_CHARS

VARIABLES now,        \* the screen: [alt, rows, hist, row, col, wrap, shape]
          main,       \* the primary screen while the alternate one is shown
          prev,       \* prev_screen: the screen at the last reading
          update,     \* UpdateSummary since the last reading
          switching,  \* accessibility_screen_transition_pending
          pending,    \* pending_key_echo: [ch, alt]
          active,     \* key_echo_stream_active
          navigating, \* pending_history_navigation
          suppress,   \* the option suppress_key_echo
          inbox,      \* keys the program has not taken
          pressed, events,
          unheard,    \* history: what the last reading showed and left unsaid
          hidden      \* history: output was taken for an echo though it held none
readVars == <<now, main, prev, update, switching, pending, active, navigating, suppress, inbox,
              pressed, events, unheard, hidden>>

Blank == [cells |-> [c \in 1..Width |-> ""], wrapped |-> FALSE]
Cleared == [alt |-> FALSE, rows |-> [r \in 1..Height |-> Blank], hist |-> <<>>, row |-> 1, col |-> 1,
            wrap |-> FALSE, shape |-> "block"]
\* UpdateSummary::default; the screen and the column are those of the first batch.
NoUpdate(s) == [batch |-> FALSE, printed |-> <<>>, structural |-> FALSE, moves |-> 0, after |-> 0,
                feeds |-> 0, scrolls |-> 0, from |-> s.alt, content |-> s.col # 1,
                returned |-> FALSE, tail |-> FALSE, echoed |-> FALSE]

Init == /\ \E lines \in Starts :
              now = [Cleared EXCEPT !.rows = [r \in 1..Height |-> [cells |-> lines[r], wrapped |-> FALSE]]]
        /\ main = now /\ prev = now /\ update = NoUpdate(now)
        /\ switching = FALSE /\ pending = <<>> /\ active = FALSE /\ navigating = FALSE
        /\ suppress \in BOOLEAN /\ inbox = <<>> /\ pressed = 0 /\ events = 0
        /\ unheard = {} /\ hidden = FALSE

-----------------------------------------------------------------------------
(* Keys.                                                                   *)

\* record_forwarded_key; any other key ends the wait for a recalled line.
Press(k) ==
    /\ pressed < MaxKeys /\ pressed' = pressed + 1
    /\ navigating' = (k = "up")
    /\ IF k \in Others THEN active' = FALSE /\ UNCHANGED <<pending, inbox>>
       ELSE /\ inbox' = Append(inbox, k) /\ UNCHANGED active
            /\ pending' = IF suppress
                          THEN Append(IF Len(pending) = MaxPending THEN Tail(pending) ELSE pending,
                                      [ch |-> k, alt |-> now.alt])
                          ELSE pending
    /\ UNCHANGED <<now, main, prev, update, switching, suppress, events, unheard, hidden>>

\* set_suppress_key_echo
SetSuppress == /\ events < MaxEvents /\ events' = events + 1 /\ suppress' = ~suppress
               /\ IF suppress THEN pending' = <<>> /\ active' = FALSE ELSE UNCHANGED <<pending, active>>
               /\ UNCHANGED <<now, main, prev, update, switching, navigating, inbox, pressed, unheard, hidden>>

-----------------------------------------------------------------------------
(* The terminal, and what the observer notes.                              *)

Scrolled(s) == [s EXCEPT !.rows = Append(Tail(@), Blank),
                         !.hist = IF s.alt THEN @ ELSE Append(@, s.rows[1])]
Down(s) == IF s.row = Height THEN Scrolled(s) ELSE [s EXCEPT !.row = @ + 1]
\* A character in the last column leaves the cursor there; the next one wraps.
Put(s, c) ==
    LET t == IF s.wrap
             THEN [Down([s EXCEPT !.rows[s.row].wrapped = TRUE]) EXCEPT !.col = 1, !.wrap = FALSE]
             ELSE s
    IN [t EXCEPT !.rows[t.row].cells[t.col] = c, !.wrap = (t.col = Width),
                 !.col = IF @ = Width THEN @ ELSE @ + 1]

After(s, e) ==
    CASE e.kind = "text" -> Put(s, e.ch)
      [] e.kind = "feed" -> [Down(s) EXCEPT !.col = 1, !.wrap = FALSE]
      [] e.kind = "return" -> [s EXCEPT !.col = 1, !.wrap = FALSE]
      [] e.kind = "move" -> [s EXCEPT !.row = e.at[1], !.col = e.at[2], !.wrap = FALSE]
      [] e.kind = "erase" -> [s EXCEPT !.rows[s.row] =
                                [cells |-> [c \in 1..Width |-> IF c < s.col THEN @.cells[c] ELSE ""],
                                 wrapped |-> FALSE]]
      [] e.kind = "scroll" -> Scrolled(s)
      [] e.kind = "shape" -> [s EXCEPT !.shape = IF @ = "block" THEN "bar" ELSE "block"]
      [] e.kind = "switch" -> IF s.alt THEN main ELSE [Cleared EXCEPT !.alt = TRUE, !.shape = s.shape]

\* printed_text_into, of the runs merged so far
LineStart(t) == IF \E i \in DOMAIN t : t[i] = "/" THEN Max({i \in DOMAIN t : t[i] = "/"}) ELSE 0
Noted(u, e) ==
    LET v == [u EXCEPT !.batch = TRUE] IN
    CASE e.kind = "text" -> [v EXCEPT !.printed = Append(@, e.ch), !.content = TRUE, !.tail = FALSE,
                                      !.echoed = @ \/ e.echo]
      [] e.kind = "feed" -> [v EXCEPT !.printed = IF @ = <<>> THEN @ ELSE Append(@, "/"), !.after = 0,
                                      !.feeds = @ + 1, !.content = FALSE, !.tail = TRUE]
      [] e.kind = "return" -> [v EXCEPT !.printed = SubSeq(@, 1, LineStart(@)), !.tail = FALSE,
                                        !.returned = @ \/ u.content]
      [] e.kind = "move" -> [v EXCEPT !.structural = TRUE, !.moves = @ + 1, !.after = @ + 1]
      [] e.kind = "scroll" -> [v EXCEPT !.structural = TRUE, !.scrolls = @ + 1]
      [] OTHER -> [v EXCEPT !.structural = TRUE]

Happens(e) == /\ events < MaxEvents /\ events' = events + 1
              /\ now' = After(now, e) /\ update' = Noted(update, e)
              /\ main' = IF e.kind = "switch" /\ ~now.alt THEN now ELSE main
              /\ UNCHANGED <<prev, switching, pending, active, navigating, suppress, pressed, unheard, hidden>>
Output == /\ \/ \E c \in Letters \cup {" "} : Happens([kind |-> "text", ch |-> c, echo |-> FALSE])
             \/ \E p \in Places : Happens([kind |-> "move", at |-> p])
             \/ \E k \in {"feed", "return", "erase", "scroll", "shape", "switch"} : Happens([kind |-> k])
          /\ UNCHANGED inbox
\* The program takes a key: it, or the line discipline, echoes it, or not.
Echo == inbox # <<>> /\ inbox' = Tail(inbox) /\ Happens([kind |-> "text", ch |-> Head(inbox), echo |-> TRUE])
Swallow == /\ inbox # <<>> /\ inbox' = Tail(inbox)
           /\ UNCHANGED <<now, main, prev, update, switching, pending, active, navigating, suppress,
                          pressed, events, unheard, hidden>>

-----------------------------------------------------------------------------
(* Texts.                                                                  *)

Space == {" ", "/"}
TrimEnd(t, S) == IF \E i \in DOMAIN t : t[i] \notin S
                 THEN SubSeq(t, 1, Max({i \in DOMAIN t : t[i] \notin S})) ELSE <<>>
TrimStart(t, S) == IF \E i \in DOMAIN t : t[i] \notin S
                   THEN SubSeq(t, Min({i \in DOMAIN t : t[i] \notin S}), Len(t)) ELSE <<>>
Trim(t) == TrimStart(TrimEnd(t, Space), Space)
\* Row::append_contents_to: cells never written are blanks, and nothing at the end.
Contents(r) == [i \in DOMAIN TrimEnd(r.cells, {""}) |-> IF r.cells[i] = "" THEN " " ELSE r.cells[i]]
\* contents_full_into, a line for each row
Lines(s) == [r \in 1..Height |-> TrimEnd(Contents(s.rows[r]), {" "})]
Joined(lines) == FlattenSeq([i \in DOMAIN lines |-> Append(lines[i], "/")])
Chars == [i \in DOMAIN pending |-> pending[i].ch]
\* Rows as one text, ended where they do not wrap.
Logical(rows) == FlattenSeq([i \in DOMAIN rows |->
                    IF rows[i].wrapped THEN Contents(rows[i]) ELSE Append(Contents(rows[i]), "/")])

\* should_suppress_key_echo: is the text an echo, and how many keys does it use up?
No == [echo |-> FALSE, used |-> 0]
Suppresses(queue, text) ==
    LET t == TrimEnd(text, {"/"})
        starts == {i \in 0..Len(queue) - Len(t) : SubSeq(queue, i + 1, i + Len(t)) = t}
    IN IF ~suppress \/ t = <<>> THEN No
       ELSE IF Len(t) > Len(queue)
       THEN IF queue # <<>> /\ IsSuffix(queue, t) THEN [echo |-> TRUE, used |-> Len(queue)] ELSE No
       ELSE IF starts # {} THEN [echo |-> TRUE, used |-> Min(starts) + Len(t)] ELSE No
\* should_suppress_cursor_row_key_echo: without the indentation before it
SuppressesOnRow(queue, text) ==
    LET all == Suppresses(queue, text)
        end == TrimEnd(text, {"/"})
        t == TrimStart(end, {" "})
    IN IF all.echo \/ ~active \/ t = end \/ t = <<>> THEN all ELSE Suppresses(queue, t)

-----------------------------------------------------------------------------
(* Which account to trust.                                                 *)

\* has_linear_output_report
Linear == update.batch /\ ~update.structural /\ ~update.from /\ ~now.alt
\* accessibility_completes_linear_output_record: the report is the tail of what
\* is above the cursor, and is not found earlier in its line.
CompletesRecord ==
    /\ Linear /\ ~update.returned /\ update.tail /\ ~prev.alt
    /\ LET reported == TrimEnd(update.printed, {"/"})
           shown == TrimEnd(Logical(now.hist \o SubSeq(now.rows, 1, now.row - 1)), {"/"})
           start == Len(shown) - Len(reported)
           line == LineStart(SubSeq(shown, 1, start))
       IN \/ reported = <<>>
          \/ /\ IsSuffix(reported, shown)
             /\ \A i \in line..start - 1 : SubSeq(shown, i + 1, i + Len(reported)) # reported
\* cursor_logical_line_matches
CursorLine ==
    LET rows == now.hist \o now.rows
        at == Len(now.hist) + now.row
        first == Min({i \in 1..at : \A j \in i..at - 1 : rows[j].wrapped})
    IN Trim(FlattenSeq([i \in 1..at - first + 1 |-> Contents(rows[first + i - 1])]))
StructuralLine ==
    /\ update.structural /\ ~update.from /\ ~now.alt /\ update.moves = 0
    /\ "/" \notin Range(update.printed)
    /\ Trim(update.printed) # <<>> /\ CursorLine = Trim(update.printed)

-----------------------------------------------------------------------------
(* The difference of the screens.                                          *)

Restricted(s, K) == [i \in 1..Cardinality(K) |-> s[SetToSortSeq(K, <)[i]]]
Alignments(old, new) ==
    LET Kept == {p \in (SUBSET DOMAIN old) \X (SUBSET DOMAIN new) :
                    Cardinality(p[1]) = Cardinality(p[2]) /\ Restricted(old, p[1]) = Restricted(new, p[2])}
    IN {p \in Kept : \A q \in Kept : ~(p[1] \subseteq q[1] /\ p[2] \subseteq q[2] /\ p # q)}
\* diff_lines and next_line_diff_state: one row replaced, or more than that
LineDiffs(old, new) ==
    {[single |-> \E i \in DOMAIN old, j \in DOMAIN new :
                    /\ DOMAIN old \ p[1] = {i} /\ DOMAIN new \ p[2] = {j} /\ i <= j,
      text |-> Joined(Restricted(new, DOMAIN new \ p[2]))] : p \in Alignments(old, new)}

\* diff_graphemes and next_grapheme_diff_state: the texts without what they
\* begin and end with alike; one change, unless the rest has something in common.
Common(a, b) == Max({n \in 0..Min({Len(a), Len(b)}) : SubSeq(a, 1, n) = SubSeq(b, 1, n)})
MiddleOverlapping(a, b) == SubSeq(b, Common(a, b) + 1, Len(b) - Common(Reverse(a), Reverse(b)))  \* mutant
Middle(a, b) ==   \* of b
    LET p == Common(a, b)
        s == Min({Common(Reverse(a), Reverse(b)), Len(a) - p, Len(b) - p})
    IN SubSeq(b, p + 1, Len(b) - s)

\* split_whitespace
Fields(t) ==
    LET starts == {i \in DOMAIN t : t[i] \notin Space /\ (i = 1 \/ t[i - 1] \in Space)}
        end(i) == Max({j \in i..Len(t) : \A k \in i..j : t[k] \notin Space})
    IN [n \in 1..Cardinality(starts) |->
            SubSeq(t, SetToSortSeq(starts, <)[n], end(SetToSortSeq(starts, <)[n]))]
\* field_replacement: the part that differs, to the ends of its word
Replacement(old, new) ==
    LET p == Common(old, new)
        s == Min({Common(Reverse(old), Reverse(new)), Len(old) - p, Len(new) - p})
        from == Max({0} \cup {i \in 1..p : new[i] \notin Letters})
        to == Min({Len(new)} \cup {i - 1 : i \in {j \in Len(new) - s + 1..Len(new) : new[j] \notin Letters}})
    IN SubSeq(new, from + 1, to)
Spaced(fields) == FoldLeft(LAMBDA t, f : IF f = <<>> THEN t ELSE IF t = <<>> THEN f
                                         ELSE t \o <<" ">> \o f, <<>>, fields)
\* flush_inserted_field_hunk
Flushed(w) ==
    LET hunk == Spaced(IF Len(w.del) = Len(w.ins)
                       THEN [i \in DOMAIN w.ins |-> Replacement(w.del[i], w.ins[i])] ELSE w.ins)
        says == w.ins # <<>> /\ hunk # <<>> /\ hunk # w.last
    IN [w EXCEPT !.del = <<>>, !.ins = <<>>, !.last = IF says THEN hunk ELSE @,
                 !.out = IF ~says THEN @ ELSE IF @ = <<>> THEN hunk ELSE @ \o <<" ">> \o hunk]
\* collect_inserted_fields: along a longest common subsequence
LcsFrom(a, b) ==
    LET lcs[i \in 1..Len(a) + 1, j \in 1..Len(b) + 1] ==
            IF i > Len(a) \/ j > Len(b) THEN 0
            ELSE IF a[i] = b[j] THEN 1 + lcs[i + 1, j + 1]
            ELSE Max({lcs[i + 1, j], lcs[i, j + 1]})
    IN lcs
Walked(a, b, w) ==
    IF w.i > Len(a) /\ w.j > Len(b) THEN w
    ELSE IF w.i <= Len(a) /\ w.j <= Len(b) /\ a[w.i] = b[w.j]
    THEN [Flushed(w) EXCEPT !.i = @ + 1, !.j = @ + 1]
    ELSE IF w.j <= Len(b) /\ (w.i > Len(a) \/ LcsFrom(a, b)[w.i, w.j + 1] >= LcsFrom(a, b)[w.i + 1, w.j])
    THEN [w EXCEPT !.ins = Append(@, b[w.j]), !.j = @ + 1]
    ELSE [w EXCEPT !.del = Append(@, a[w.i]), !.i = @ + 1]
InsertedFields(old, new) ==
    LET a == Fields(old)
        b == Fields(new)
        start == [i |-> 1, j |-> 1, del |-> <<>>, ins |-> <<>>, last |-> <<>>, out |-> <<>>]
    IN IF b = <<>> THEN <<>>
       ELSE Flushed(FoldLeft(LAMBDA w, n : Walked(a, b, w), start, [n \in 1..Len(a) + Len(b) |-> n])).out

\* What is said of one replaced row: what was put in, or the words that changed.
Refined(old, new, lines) ==
    LET words(fields) == IF fields # <<>> THEN fields ELSE lines
        best(put) == IF Range(put) \cap Range(Middle(new, old)) = {} THEN put ELSE words(InsertedFields(old, new))
    IN best(Middle(old, new))

-----------------------------------------------------------------------------
(* auto_read_impl.  An outcome is what was said, whether that counts as    *)
(* read, the keys used up, and the two texts it accounts for.              *)

Quiet == [read |-> TRUE, said |-> <<>>, used |-> 0, active |-> active, echo |-> FALSE,
          text |-> <<>>, old |-> <<>>, new |-> <<>>]
Echoed(s, text) == [Quiet EXCEPT !.used = s.used, !.active = active \/ s.echo, !.echo = s.echo,
                                 !.text = TrimEnd(text, {"/"})]

OldLines == Lines(prev)
NewLines == Lines(now)
Changed == {r \in 1..Height : OldLines[r] # NewLines[r]}
Scrolls == update.scrolls > 0
CursorMoved == <<now.row, now.col>> # <<prev.row, prev.col>>
Offset(s) == (s.row - 1) * Width + s.col
\* an interface frame: painted by moving the cursor, not line by line
Repaint(prefer) ==
    /\ update.structural /\ ~Scrolls
    /\ \/ update.feeds = 0 /\ (prefer \/ Cardinality(Changed) > 1 \/ prev.shape # now.shape)
       \/ update.feeds > 0 /\ update.after > 0
\* input_echo_row: the row on which an echo would have been painted
EchoRow(prefer) ==
    IF /\ prefer /\ suppress /\ pending # <<>> /\ ~Scrolls /\ Cardinality(Changed) > 1
       /\ active \/ Offset(now) - Offset(prev) \in 0..Len(pending)
    THEN IF now.row \in Changed THEN {now.row}
         ELSE IF now.row > prev.row /\ prev.row \in Changed THEN {prev.row} ELSE {}
    ELSE {}
InlineEdit(prefer) == /\ prefer /\ ~Scrolls /\ now.row = prev.row /\ now.col > prev.col
                      /\ now.row \in Changed /\ Cardinality(Changed) > 1
\* collect_compact_interface_state_change: the shortest label that changed
\* away from the cursor
ModeLabel ==
    LET label(r) == [row |-> r, text |-> Trim(InsertedFields(OldLines[r], NewLines[r]))]
        before(x, y) == Len(x.text) < Len(y.text) \/ (Len(x.text) = Len(y.text) /\ x.row <= y.row)
        first(labels) == IF labels = {} THEN <<>>
                         ELSE (CHOOSE x \in labels : \A y \in labels : before(x, y)).text
    IN first({x \in {label(r) : r \in Changed \ {prev.row, now.row}} : x.text # <<>>})

\* The last of its paths: the difference, of the cursor's row or of the screen.
ReadDifference(prefer) ==
    LET rows == EchoRow(prefer) \cup (IF EchoRow(prefer) = {} /\ InlineEdit(prefer) THEN {now.row} ELSE {})
        inline == rows # {}
        row == CHOOSE r \in rows : TRUE
        one(t) == IF t = <<>> THEN <<>> ELSE <<t>>
        oldL == IF inline THEN one(OldLines[row]) ELSE OldLines
        newL == IF inline THEN one(NewLines[row]) ELSE NewLines
        old == IF inline THEN OldLines[row] ELSE Joined(oldL)
        new == IF inline THEN NewLines[row] ELSE Joined(newL)
        crossed == \E r \in Changed : Changed = {r} /\
                       (r \in prev.row..now.row - 1 \/ r \in now.row + 1..prev.row)
        onRow == inline \/ \E r \in Changed : Changed = {r} /\ r \in {prev.row, now.row}
        echo(t) == IF EchoRow(prefer) # {} THEN SuppressesOnRow(Chars, t) ELSE Suppresses(Chars, t)
        outcome(d, text, s) ==
            IF prefer /\ d.single /\ update.moves > 0 /\ ~Scrolls /\ CursorMoved /\ ~onRow /\ ~crossed
            THEN [Quiet EXCEPT !.read = FALSE]
            ELSE IF s.echo THEN Echoed(s, text)
            ELSE IF EchoRow(prefer) # {} /\ active /\ Cardinality(Changed) > 2 THEN Quiet
            ELSE [Quiet EXCEPT !.read = text # <<>>, !.said = text, !.old = old, !.new = new]
        of(d, text) == outcome(d, text, echo(text))
    IN {of(d, IF d.single THEN Refined(old, new, d.text) ELSE d.text) : d \in LineDiffs(oldL, newL)}

\* The rows that changed: an echo that left no mark, a change of the program's
\* mode, another interface frame, of which only the cursor's row is read.
ReadChange(prefer) ==
    LET waits == suppress /\ pending # <<>> IN
    IF /\ prefer /\ waits /\ active /\ ~Scrolls /\ Changed \cap {prev.row, now.row} = {}
       /\ now.row > prev.row \/ (now.row = prev.row /\ now.col > prev.col)
    THEN {Quiet}
    ELSE IF /\ Repaint(prefer) /\ prev.shape # now.shape /\ Changed \cap {prev.row, now.row} = {}
            /\ ModeLabel # <<>>
    THEN {[Quiet EXCEPT !.said = ModeLabel, !.active = active \/ waits]}
    ELSE IF /\ Repaint(prefer) /\ EchoRow(prefer) = {} /\ ~InlineEdit(prefer)
            /\ ~(Cardinality(Changed) = 1 /\ Changed \subseteq {prev.row, now.row})
    THEN {IF waits \/ active THEN Quiet
          ELSE [Quiet EXCEPT !.said = Contents(now.rows[now.row])]}
    ELSE ReadDifference(prefer)

AutoReads(prefer) ==
    LET live == update.printed
        s == Suppresses(Chars, live)
        same == Changed = {}
    IN IF CompletesRecord /\ Trim(live) = <<>> THEN {Echoed(s, live)}
       ELSE IF ~CompletesRecord /\ same
       THEN {[Echoed(s, live) EXCEPT !.read = s.echo \/ (prefer /\ active)]}
       ELSE IF /\ Linear \/ StructuralLine
               /\ update.moves = 0 \/ Scrolls
               /\ s.echo \/ Trim(live) # <<>>
       THEN {IF s.echo THEN Echoed(s, live)
             ELSE IF update.returned THEN [Quiet EXCEPT !.said = Trim(live)]
             ELSE [Quiet EXCEPT !.said = Trim(live), !.old = Joined(OldLines), !.new = Joined(NewLines)]}
       ELSE IF same THEN {[Quiet EXCEPT !.read = prefer /\ active]}
       ELSE ReadChange(prefer)

-----------------------------------------------------------------------------
(* Finalization, in app/pty.rs and app/view_stack.rs.                      *)

Count(c, t) == Cardinality({i \in DOMAIN t : t[i] = c})
\* Characters of which there are more than before and that were not said.
Missed(o) == {c \in Letters : Count(c, o.new) > Count(c, o.old) /\ c \notin Range(o.said)}
Finalized(o, queue) ==
    /\ pending' = SubSeq(queue, o.used + 1, Len(queue)) /\ active' = o.active
    /\ hidden' = (hidden \/ (o.echo /\ ~update.echoed /\ Len(o.text) > Len(queue)))
    /\ unheard' = Missed(o)
    /\ prev' = now /\ update' = NoUpdate(now)
    /\ UNCHANGED <<now, main, suppress, inbox, pressed, events>>

\* A screen that was switched to is a new context; keys of the other one go.
ReadContext ==
    LET queue == IF now.alt # prev.alt THEN SelectSeq(pending, LAMBDA p : p.alt = now.alt) ELSE pending
        line == Contents(now.rows[now.row])
        s == Suppresses([i \in DOMAIN queue |-> queue[i].ch], line)
    IN /\ update.batch /\ (now.alt # prev.alt \/ switching)
       /\ switching' = (Trim(Joined(NewLines)) = <<>>)
       /\ Finalized(IF now.alt /\ Trim(line) # <<>> THEN Echoed(s, line) ELSE Quiet, queue)
       /\ UNCHANGED navigating

\* A line recalled with Up or Down is read, and nothing else.
ReadRecalled == /\ update.batch /\ now.alt = prev.alt /\ ~switching /\ navigating
                /\ navigating' = FALSE /\ Finalized(Quiet, pending) /\ UNCHANGED switching

ReadOutput(recent) ==
    /\ update.batch /\ now.alt = prev.alt /\ ~switching
    /\ \E o \in AutoReads(recent) : Finalized(o, pending)
    /\ navigating' = FALSE /\ UNCHANGED switching

Next == \/ \E k \in Letters \cup Others : Press(k)
        \/ SetSuppress \/ Output \/ Echo \/ Swallow
        \/ ReadContext \/ ReadRecalled
        \/ \E recent \in {r \in BOOLEAN : r => pressed > 0} : ReadOutput(recent)
Spec == Init /\ [][Next]_readVars

-----------------------------------------------------------------------------
\* What appears is heard: when a reading goes by the printed text or by the
\* difference of the screens, every character of which there are more than
\* before is in what is said, whatever was printed, overwritten, wrapped,
\* scrolled or moved over, and however the differences were cut into words.
\* (Text printed over after a carriage return is left out: see README.)
AppearsIsHeard == unheard = {}

\* "accepting a partial suffix would let ordinary command output which happens
\* to end in one typed character disappear" (screen_reader.rs): a text longer
\* than everything typed, and of which nothing is an echo, is not silenced.
OutputStaysAudible == ~hidden
=============================================================================
