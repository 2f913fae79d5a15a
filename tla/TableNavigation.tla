--------------------------- MODULE TableNavigation --------------------------
(***************************************************************************)
(* Table mode (table.rs, table/detection.rs, commands/table.rs).  A table  *)
(* is found around the review cursor, by its bars, by its gutters, or from *)
(* tab stops the user set; the commands then move from cell to cell and    *)
(* speak what they reach.  The model found stays while the cursor stays in *)
(* its rows, so the screen may change below it and the cursor may be moved *)
(* by other commands in between.                                           *)
(*                                                                         *)
(* The screen is a sequence of lines, a line a sequence of characters: " " *)
(* "|" "-", a digit "1" and letters.  Wide characters, hooks and the       *)
(* wording of messages are left out.                                       *)
(***************************************************************************)
EXTENDS Integers, Sequences, SequencesExt, FiniteSetsExt

CONSTANTS Screens,     \* what the screen may show
          Height, Width,
          MaxStops,    \* bound: tab stops set at a time
          MaxRedraws   \* bound: changes of the screen

VARIABLES lines,       \* the screen
          cursor,      \* the review cursor: <<row, column>>
          session,     \* [mode, nav, setup]: nav = <<>> or <<[table, at]>>
          spoken,      \* what the last command said: [what, text, at]
          redraws      \* history: how often the screen changed

tableVars == <<lines, cursor, session, spoken, redraws>>

RowsOf == 1 .. Height
ColsOf == 1 .. Width
Letters == {"a", "b", "c", "d"}
Row == cursor[1]
Col == cursor[2]

-----------------------------------------------------------------------------
(* A line.                                                                 *)

Text(r, c) == lines[r][c] # " "
Inked(r) == {c \in ColsOf : Text(r, c)}
Blank(r) == Inked(r) = {}
Separator(r) == ~Blank(r) /\ \A c \in Inked(r) : lines[r][c] \in {"-", "|"}
HasLetters(r) == \E c \in ColsOf : lines[r][c] \in Letters
Bars(r) == {c \in ColsOf : lines[r][c] = "|"}
\* The text of a range of columns, trimmed.
Trimmed(r, from, to) ==
    LET of(ink) == IF ink = {} THEN <<>> ELSE SubSeq(lines[r], Min(ink), Max(ink))
    IN of(Inked(r) \cap (from .. to))

\* fixed_width_column_count: groups of words at least two blanks apart
Groups(r) == {c \in Inked(r) : \/ \A d \in Inked(r) : d >= c
                               \/ c > 2 /\ ~Text(r, c - 1) /\ ~Text(r, c - 2)}
FixedColumns(r) == Cardinality(Groups(r)) >= 2

\* pipe_delimited_cell_text: the edges of the cells of a line that has bars
PipeEdges(r) ==
    LET around(ink, bars) ==
            (IF bars[1] = Min(ink) THEN <<>> ELSE <<Min(ink) - 1>>) \o bars \o <<Max(ink) + 1>>
    IN around(Inked(r), SetToSortSeq(Bars(r), LAMBDA x, y : x < y))
HasPipeCells(r) == Bars(r) # {} /\ Inked(r) # {Min(Bars(r))}
PipeCell(r, k) ==
    LET between(e) == IF k + 1 > Len(e) THEN <<>> ELSE Trimmed(r, e[k] + 1, e[k + 1] - 1)
    IN between(PipeEdges(r))

-----------------------------------------------------------------------------
(* Detection.                                                              *)

NoTable == [top |-> 0]
\* The row itself, or the nearest in reach, the upper one first; 0 for none.
Nearest(S, r, reach) ==
    LET at(d) == IF r - d \in S THEN r - d ELSE r + d
        of(off) == IF off = {} THEN 0 ELSE at(Min(off))
    IN of({d \in 0 .. reach : r - d \in S \/ r + d \in S})
Top(S, a) == Min({t \in 1 .. a : t .. a \subseteq S \cup {a}})
Bottom(S, a) == Max({b \in a .. Height : a .. b \subseteq S \cup {a}})

HasContent(top, bottom, span) ==
    \E r \in top .. bottom : ~Separator(r) /\ \E c \in span[1] .. span[2] : Text(r, c)
Retained(spans, top, bottom) == SelectSeq(spans, LAMBDA s : HasContent(top, bottom, s))
\* The longest runs of a set of columns, from left to right.
Spans(S) == SetToSortSeq({s \in ColsOf \X ColsOf : /\ s[1] <= s[2] /\ s[1] .. s[2] \subseteq S
                                                   /\ s[1] - 1 \notin S /\ s[2] + 1 \notin S},
                         LAMBDA x, y : x[1] < y[1])
\* columns_from_starts
FromStarts(starts) ==
    LET columns(s) == [i \in DOMAIN s |-> <<s[i], IF i = Len(s) THEN Width ELSE s[i + 1] - 1>>]
    IN columns(SetToSortSeq(starts, LAMBDA x, y : x < y))

\* is_banner_row, is_skippable_row
PipeFilled(t, r) == {k \in DOMAIN t.columns : PipeCell(r, k) # <<>>}
Banner(t, r) ==
    /\ r \in t.top .. t.bottom /\ ~Separator(r)
    /\ IF t.pipes
       THEN /\ ~Blank(r) /\ lines[r][Min(Inked(r))] = "|" /\ lines[r][Max(Inked(r))] = "|"
            /\ ~HasPipeCells(r) \/ Cardinality(PipeFilled(t, r)) <= 1
       ELSE ~FixedColumns(r)
Skippable(t, r) == Separator(r) \/ Banner(t, r)

\* detect_header_row: above the first separator, or the first row with letters; 0 for none
DetectHeader(t) ==
    LET least(S) == IF S = {} THEN 0 ELSE Min(S)
        above(data) == {r \in t.top + 1 .. t.bottom : Separator(r) /\ \E d \in data : d < r}
        header(data, below) == IF below # 0 THEN Max({d \in data : d < below})
                               ELSE least({r \in data : HasLetters(r)})
        among(data) == header(data, least(above(data)))
    IN IF t.top >= t.bottom THEN 0 ELSE among({r \in t.top .. t.bottom : ~Skippable(t, r)})

\* detect_pipe_table
PipeRows == {r \in RowsOf : ~Blank(r) /\ (Separator(r) \/ Bars(r) # {})}
PipeHeader(r) == /\ ~Blank(r) /\ ~Separator(r) /\ HasPipeCells(r)
                 /\ Cardinality({k \in 1 .. Width : PipeCell(r, k) # <<>>}) >= 2
\* The table of some columns, its header the one found, or else the one given.
WithHeader(t, other) ==
    LET with(h) == [t EXCEPT !.header = IF h # 0 THEN h ELSE other]
    IN IF Len(t.columns) < 2 THEN NoTable ELSE with(DetectHeader(t))
Between(top, bottom, spans, pipes) ==
    [top |-> top, bottom |-> bottom, columns |-> Retained(spans, top, bottom), header |-> 0, pipes |-> pipes]
PipesIn(top, bottom) ==
    LET of(heads) == IF heads = {} THEN NoTable
                     ELSE WithHeader(Between(top, bottom, Spans(ColsOf \ Bars(Min(heads))), TRUE), Min(heads))
    IN of({r \in top .. bottom : PipeHeader(r)})
DetectPipe(row) ==
    LET from(S, a) == IF a = 0 THEN NoTable ELSE PipesIn(Top(S, a), Bottom(S, a))
        of(S) == from(S, Nearest(S, row, 6))
    IN of(PipeRows)

\* row_is_fixed_width_candidate
Continues(r) == ~FixedColumns(r) /\ \E d \in {r - 1, r + 1} \cap RowsOf : FixedColumns(d)
FixedRows == {r \in RowsOf : ~Blank(r) /\ (Separator(r) \/ FixedColumns(r) \/ Continues(r))}
\* supported_cut_in_gap, supported_header_cuts
Blanks(rows, c) == Cardinality({r \in rows : ~Text(r, c)})
CutIn(rows, gap) ==
    LET best(good) == {c \in good : \A d \in good : \/ Blanks(rows, c) > Blanks(rows, d)
                                                    \/ Blanks(rows, c) = Blanks(rows, d) /\ c >= d}
    IN best({c \in gap[1] .. gap[2] : Blanks(rows, c) * 3 >= Cardinality(rows) * 2})
Cuts(rows, h) ==
    LET all(gaps) == UNION {CutIn(rows, gaps[i]) : i \in DOMAIN gaps}
    IN all(Spans({c \in Min(Inked(h)) .. Max(Inked(h)) : ~Text(h, c)}))
\* detect_fixed_width_columns_from_blanks
Gutters(rows, h) ==
    LET n == Cardinality(rows)
        enough == IF n <= 2 THEN n ELSE (n * 2 + 2) \div 3
        wide(s) == /\ s[2] - s[1] + 1 >= IF n <= 4 THEN 1 ELSE 2
                   /\ h # 0 => \A c \in s[1] .. s[2] : ~Text(h, c)
        all(runs) == UNION {runs[i][1] .. runs[i][2] : i \in {j \in DOMAIN runs : wide(runs[j])}}
    IN all(Spans({c \in ColsOf : Blanks(rows, c) >= enough}))
\* The header of the cuts, or else the first row with letters; 0 for none
FixedHeader(top, bottom, rows) ==
    LET first(S, other) == IF S # {} THEN Min(S) ELSE other
    IN first({r \in rows : HasLetters(r) /\ Cardinality(Cuts(rows, r)) >= 2},
             first({r \in top .. bottom : ~Separator(r) /\ HasLetters(r)}, 0))
FixedIn(top, bottom, rows, h) ==
    LET gutters == Between(top, bottom, Spans(ColsOf \ Gutters(rows, h)), FALSE)
        better(t) == WithHeader(IF Len(t.columns) >= 2 THEN t ELSE gutters, 0)
        at(cuts) == better(Between(top, bottom, IF cuts = {} THEN <<>> ELSE FromStarts({1} \cup cuts), FALSE))
    IN at(IF h = 0 THEN {} ELSE Cuts(rows, h))
DetectFixed(row) ==
    LET among(top, bottom, rows) == IF Cardinality(rows) < 2 THEN NoTable
                                    ELSE FixedIn(top, bottom, rows, FixedHeader(top, bottom, rows))
        of(top, bottom) == among(top, bottom, {r \in top .. bottom : ~Separator(r) /\ FixedColumns(r)})
        from(S, a) == IF a = 0 THEN NoTable ELSE of(Top(S, a), Bottom(S, a))
        near(S) == from(S, Nearest(S, row, 2))
    IN near(FixedRows)
Detect(row) == LET or(t) == IF t # NoTable THEN t ELSE DetectFixed(row) IN or(DetectPipe(row))

\* detect_manual_from_header
DetectManual(h, stops) ==
    LET valid(t) == IF Len(t.columns) < 2 THEN NoTable ELSE [t EXCEPT !.header = h]
        of(S) == valid(Between(Top(S, h), Bottom(S, h), FromStarts({1} \cup stops), FALSE))
    IN of({r \in RowsOf : ~Blank(r) /\ (r \in FixedRows \/ Bars(r) # {})})

-----------------------------------------------------------------------------
(* A table.                                                                *)

ColumnFor(t, c) == LET in == {k \in DOMAIN t.columns : c \in t.columns[k][1] .. t.columns[k][2]}
                   IN IF in = {} THEN 1 ELSE Min(in)
CellText(t, r, k) == IF t.pipes /\ HasPipeCells(r) THEN PipeCell(r, k)
                     ELSE Trimmed(r, t.columns[k][1], t.columns[k][2])
\* nearest_data_row and its neighbours: rows between the table and a row
\* outside it count as well.
Above(t, r) == {d \in t.top .. r - 1 : ~Skippable(t, d)}
Below(t, r) == {d \in r + 1 .. t.bottom : ~Skippable(t, d)}
NearestData(t, r) ==
    LET here == IF r \in t.top .. t.bottom /\ ~Skippable(t, r) THEN {r} ELSE {}
    IN Nearest(Above(t, r) \cup here \cup Below(t, r), r, Height)
NearestFilled(t, r, k) ==
    LET among(filled) == IF filled = {} THEN k ELSE Nearest(filled, k, Width)
    IN among({j \in DOMAIN t.columns : (t.pipes => HasPipeCells(r)) /\ CellText(t, r, j) # <<>>})

\* move_to_cell: to the first text of the cell, or to its start
CellInk(t, r, k) == Inked(r) \cap (t.columns[k][1] .. t.columns[k][2])
CellStart(t, r, k) == IF CellInk(t, r, k) = {} THEN t.columns[k][1] ELSE Min(CellInk(t, r, k))
Clamped(t, r) == Max({t.top, Min({t.bottom, r})})

\* ensure_state: the table and the column under the cursor, and the cursor
Ensured ==
    LET keep == session.nav # <<>> /\ Row \in session.nav[1].table.top .. session.nav[1].table.bottom
        at(t, c) == [table |-> t, at |-> ColumnFor(t, c[2]), cursor |-> c]
        reach(t, r, k) == at(t, IF r = 0 THEN cursor ELSE <<Clamped(t, r), CellStart(t, Clamped(t, r), k)>>)
        of(t) == IF t = NoTable THEN [table |-> t, at |-> 0, cursor |-> cursor]
                 ELSE reach(t, IF Skippable(t, Row) THEN NearestData(t, Row) ELSE 0,
                            IF keep THEN session.nav[1].at ELSE ColumnFor(t, Col))
    IN of(IF keep THEN session.nav[1].table ELSE Detect(Row))

-----------------------------------------------------------------------------
(* The commands.                                                           *)

Silence == [what |-> "message", text |-> <<>>, at |-> <<>>]
Said(what, text, at) == [what |-> what, text |-> text, at |-> at]
Nav(t, k) == <<[table |-> t, at |-> k]>>
\* A command that found no table says so.
NotFound ==
    /\ session' = [session EXCEPT !.nav = <<>>] /\ spoken' = Silence
    /\ UNCHANGED <<lines, cursor, redraws>>

EnterRow(t) == LET or(r) == IF r = 0 THEN Row ELSE r IN or(NearestData(t, Row))
Enter(t) ==
    \E r \in {EnterRow(t)} : \E k \in {NearestFilled(t, r, ColumnFor(t, Col))} :
       /\ cursor' = <<r, t.columns[k][1]>>
       /\ session' = [mode |-> "table", nav |-> Nav(t, k), setup |-> <<>>]
       /\ spoken' = Said("cell", CellText(t, r, k), <<r, k>>)
       /\ UNCHANGED <<lines, redraws>>
Leave ==
    /\ session' = [mode |-> "normal", nav |-> <<>>, setup |-> <<>>] /\ spoken' = Silence
    /\ UNCHANGED <<lines, cursor, redraws>>
ToggleMode ==
    IF session.mode = "table" THEN Leave
    ELSE \E t \in {Detect(Row)} :
            IF t # NoTable THEN Enter(t)
            ELSE spoken' = Silence /\ UNCHANGED <<lines, cursor, session, redraws>>

StartSetup ==
    /\ session.mode = "normal" /\ ~Blank(Row)
    /\ session' = [mode |-> "setup", nav |-> <<>>, setup |-> <<[header |-> Row, stops |-> {}]>>]
    /\ spoken' = Silence
    /\ UNCHANGED <<lines, cursor, redraws>>
CancelSetup == session.mode = "setup" /\ Leave
ToggleTabstop ==
    /\ session.mode = "setup" /\ Col # 1
    /\ Col \in session.setup[1].stops \/ Cardinality(session.setup[1].stops) < MaxStops
    /\ session' = [session EXCEPT !.setup[1].stops = IF Col \in @ THEN @ \ {Col} ELSE @ \cup {Col}]
    /\ spoken' = Silence
    /\ UNCHANGED <<lines, cursor, redraws>>
CommitSetup ==
    /\ session.mode = "setup"
    /\ \E t \in {DetectManual(session.setup[1].header, session.setup[1].stops)} : t # NoTable /\ Enter(t)

\* speak_cell, after a move to a row and a column of the table
MoveTo(e, row, k) ==
    \E r \in {Clamped(e.table, row)} :
       /\ cursor' = <<r, CellStart(e.table, r, k)>>
       /\ session' = [session EXCEPT !.nav = Nav(e.table, k)]
       /\ spoken' = Said("cell", CellText(e.table, r, k), <<r, k>>)
       /\ UNCHANGED <<lines, redraws>>
Stay(e, says) ==
    /\ cursor' = e.cursor
    /\ session' = [session EXCEPT !.nav = Nav(e.table, e.at)]
    /\ spoken' = says
    /\ UNCHANGED <<lines, redraws>>

RowMove(e, move) ==
    LET greatest(S) == IF S = {} THEN 0 ELSE Max(S)
        least(S) == IF S = {} THEN 0 ELSE Min(S)
        to == CASE move = "previous" -> greatest(Above(e.table, e.cursor[1]))
                [] move = "next" -> least(Below(e.table, e.cursor[1]))
                [] move = "first" -> NearestData(e.table, e.table.top)
                [] move = "last" -> NearestData(e.table, e.table.bottom)
    IN \E r \in {to} : IF r = 0 THEN Stay(e, Silence) ELSE MoveTo(e, r, e.at)
ColumnMove(e, move) ==
    LET last == Len(e.table.columns)
        k == CASE move = "previous" -> e.at - 1
               [] move = "next" -> e.at + 1
               [] move = "first" -> 1
               [] move = "last" -> last
    IN IF k \notin 1 .. last \/ k = e.at THEN Stay(e, Silence) ELSE MoveTo(e, e.cursor[1], k)
CellRead(e) ==
    Stay(e, Said("cell", CellText(e.table, e.cursor[1], e.at),
                 <<e.cursor[1], e.at>>))
HeaderRead(e) ==
    Stay(e, IF e.table.header = 0 THEN Silence
            ELSE Said("header", CellText(e.table, e.table.header, e.at), <<>>))

\* Words and characters within the text of the cell.
CellWords(r, ink) == {w \in ink \X ink : /\ w[1] <= w[2] /\ \A c \in w[1] .. w[2] : Text(r, c)
                                         /\ w[1] = Min(ink) \/ ~Text(r, w[1] - 1)
                                         /\ w[2] = Max(ink) \/ ~Text(r, w[2] + 1)}
\* word_bounds_at: the word at the column, else the next one, else the last
WordAt(words, c) == LET later == {w \in words : w[2] >= c}
                    IN IF later = {} THEN CHOOSE w \in words : \A v \in words : v[2] <= w[2]
                       ELSE CHOOSE w \in later : \A v \in later : w[2] <= v[2]
SayAt(what, r, c, ink) ==
    LET word(w) == Said("word", SubSeq(lines[r], w[1], w[2]), <<r, w[1]>>)
        char(d) == Said("char", IF Text(r, d) THEN <<lines[r][d]>> ELSE <<>>, <<r, d>>)
    IN IF what = "word" THEN word(WordAt(CellWords(r, ink), c))
       ELSE char(Max({Min(ink), Min({Max(ink), c})}))
\* The reading after a move looks the column up again.
Reading(e, what, c, k) ==
    \E ink \in {CellInk(e.table, e.cursor[1], k)} :
       /\ cursor' = <<e.cursor[1], c>>
       /\ session' = [session EXCEPT !.nav = Nav(e.table, k)]
       /\ spoken' = IF ink = {} THEN Silence ELSE SayAt(what, e.cursor[1], c, ink)
       /\ UNCHANGED <<lines, redraws>>
WithinCell(e, what, target) ==
    \E c \in {IF target = 0 THEN e.cursor[2] ELSE target} : Reading(e, what, c, ColumnFor(e.table, c))
\* The column a move leads to; 0 where there is none.
WordTarget(e, move, ink) ==
    LET starts == {w[1] : w \in CellWords(e.cursor[1], ink)}
        greatest(S) == IF S = {} THEN 0 ELSE Max(S)
        least(S) == IF S = {} THEN 0 ELSE Min(S)
    IN CASE ink = {} \/ move = "read" -> 0
         [] ink # {} /\ move = "previous" -> greatest({c \in starts : c < e.cursor[2]})
         [] ink # {} /\ move = "next" -> least({c \in starts : c > Max({Min(ink), e.cursor[2]})})
CharTarget(e, move, ink) ==
    LET c == e.cursor[2]
    IN CASE ink = {} \/ move = "read" -> 0
         [] ink # {} /\ move = "previous" -> IF c <= Min(ink) THEN 0 ELSE c - 1
         [] ink # {} /\ move = "next" -> IF c >= Max(ink) THEN 0 ELSE c + 1
WordMove(e, move) == WithinCell(e, "word", WordTarget(e, move, CellInk(e.table, e.cursor[1], e.at)))
CharMove(e, move) == WithinCell(e, "char", CharTarget(e, move, CellInk(e.table, e.cursor[1], e.at)))

\* The application redraws, or another command moves the review cursor.
Redraw(s) ==
    /\ redraws < MaxRedraws /\ s # lines
    /\ lines' = s /\ redraws' = redraws + 1 /\ spoken' = Silence
    /\ UNCHANGED <<cursor, session>>
MoveCursor(r, c) ==
    /\ cursor' = <<r, c>> /\ spoken' = Silence
    /\ UNCHANGED <<lines, session, redraws>>

Init ==
    /\ lines \in Screens /\ cursor = <<1, 1>>
    /\ session = [mode |-> "normal", nav |-> <<>>, setup |-> <<>>]
    /\ spoken = Silence /\ redraws = 0

Next ==
    \/ ToggleMode \/ StartSetup \/ CancelSetup \/ ToggleTabstop \/ CommitSetup
    \/ \E e \in {Ensured} :
          \/ e.table = NoTable /\ NotFound
          \/ e.table # NoTable /\ \E m \in {"previous", "next", "first", "last"} : RowMove(e, m) \/ ColumnMove(e, m)
          \/ e.table # NoTable /\ (CellRead(e) \/ HeaderRead(e))
          \/ e.table # NoTable /\ \E m \in {"previous", "next", "read"} : WordMove(e, m) \/ CharMove(e, m)
    \/ \E s \in Screens : Redraw(s)
    \/ \E r \in RowsOf, c \in ColsOf : MoveCursor(r, c)

Spec == Init /\ [][Next]_tableVars

-----------------------------------------------------------------------------
(* Properties.                                                             *)

\* What a table command speaks is what stands under the review cursor it
\* leaves: the cell of the cursor's own column, in a table without bars the
\* text between its borders, or the word or character of it there, however
\* the screen and the cursor changed since the table was found.
SpokenUnderCursor ==
    LET t == session.nav[1].table
        k == ColumnFor(t, Col)
    IN CASE spoken.what = "cell" ->
              /\ session.nav # <<>> /\ spoken.at = <<Row, k>>
              /\ ~t.pipes => spoken.text = Trimmed(Row, t.columns[k][1], t.columns[k][2])
         [] spoken.what = "word" ->
              /\ spoken.at[1] = Row
              /\ IsPrefix(spoken.text, SubSeq(lines[Row], spoken.at[2], Width))
              /\ spoken.at[2] \in t.columns[k][1] .. t.columns[k][2]
         [] spoken.what = "char" ->
              /\ spoken.at[2] \in t.columns[k][1] .. t.columns[k][2]
              /\ spoken.text # <<>> => spoken.text[1] = lines[Row][spoken.at[2]]
         [] OTHER -> TRUE

\* On a screen that does not change, reading the current cell of a table with
\* bars speaks the text between the borders of the cursor's column.
CurrentCellIsRead ==
    spoken.what = "cell" /\ redraws = 0 =>
        LET t == session.nav[1].table
        IN spoken.text = Trimmed(Row, t.columns[ColumnFor(t, Col)][1], t.columns[ColumnFor(t, Col)][2])
=============================================================================
