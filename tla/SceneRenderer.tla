--------------------------- MODULE SceneRenderer ----------------------------
(***************************************************************************)
(* What the incremental renderer writes to the terminal (presentation.rs:  *)
(* IncrementalVtRenderer and the functions it calls).  The application's   *)
(* screen changes; the engine reports the damaged rows exactly and, beside *)
(* them, hints of the operations that did it, which may be missing or may  *)
(* have had no effect.  The renderer replays the hints on a copy of what   *)
(* it shows and repairs the rest, or compares the damaged rows, or draws   *)
(* everything, and must in every case leave the terminal showing the       *)
(* application's screen: wide characters are never left half written, and  *)
(* a soft-wrapped row keeps its mark.                                      *)
(*                                                                         *)
(* A cell is blank "_", a narrow character, or a wide one "W" with its     *)
(* continuation "-".  Styles, links, the cursor, modes and pictures are    *)
(* left out; what is written is a sequence of terminal commands, and the   *)
(* terminal is the one external part.                                      *)
(***************************************************************************)
EXTENDS Integers, Sequences, SequencesExt, FiniteSetsExt

CONSTANTS Rows, Cols,
          StartRows,  \* the rows the screen may begin with: [cells, wrapped]
          Texts,      \* the characters the application writes
          MaxDraws    \* bound: operations of the application

VARIABLES screen,     \* the application's screen, which the scene is composed of
          shown,      \* what the renderer takes the terminal to show
          physical,   \* what the terminal shows
          hints,      \* the operations reported since the last render
          confirmed,  \* the last batch is known to have been written whole
          sticky,     \* the terminal leaves the wrap mark on rows it scrolls in
          draws       \* history: how many operations there were

renderVars == <<screen, shown, physical, hints, confirmed, sticky, draws>>

Columns == 1 .. Cols
Lines == 1 .. Rows
BlankRow == [cells |-> [c \in Columns |-> "_"], wrapped |-> FALSE]
Wide(cell) == cell \in {"W", "-"}

-----------------------------------------------------------------------------
(* The terminal.                                                           *)

Freed(cells, S) == [c \in Columns |-> IF \/ c \in S
                                         \/ cells[c] = "W" /\ c + 1 \in S
                                         \/ cells[c] = "-" /\ c - 1 \in S
                                      THEN "_" ELSE cells[c]]
Put(cells, c, ch) ==
    IF ch = "W" THEN [Freed(cells, {c, c + 1}) EXCEPT ![c] = "W", ![c + 1] = "-"]
    ELSE [Freed(cells, {c}) EXCEPT ![c] = ch]

\* Whatever lost its other half is blank.
Whole(cells) == [c \in Columns |->
    IF \/ cells[c] = "W" /\ (c = Cols \/ cells[c + 1] # "-")
       \/ cells[c] = "-" /\ (c = 1 \/ cells[c - 1] # "W") THEN "_" ELSE cells[c]]
Inserted(cells, left, n) == Whole([c \in Columns |->
    IF c < left THEN cells[c] ELSE IF c < left + n THEN "_" ELSE cells[c - n]])
Deleted(cells, left, n) == Whole([c \in Columns |->
    IF c < left THEN cells[c] ELSE IF c + n > Cols THEN "_" ELSE cells[c + n]])

\* Rows top to bottom moved by n; keep says which rows leave their mark behind.
Up(g, top, bottom, n, keep) == [r \in Lines |->
    IF r \notin top .. bottom THEN g[r] ELSE IF r + n <= bottom THEN g[r + n]
    ELSE [BlankRow EXCEPT !.wrapped = keep /\ g[r].wrapped]]
Down(g, top, bottom, n, keep) == [r \in Lines |->
    IF r \notin top .. bottom THEN g[r] ELSE IF r - n >= top THEN g[r - n]
    ELSE [BlankRow EXCEPT !.wrapped = keep /\ g[r].wrapped]]

Min2(a, b) == IF a < b THEN a ELSE b
Count(h) == Min2(h.n, h.bottom - h.top + 1)
Span(h) == h.left .. h.right

\* What an operation does to a terminal's screen.
Done(g, h, keep) ==
    CASE h.op \in {"su", "dl"} -> Up(g, h.top, h.bottom, Count(h), keep /\ h.op = "su")
      [] h.op \in {"sd", "il"} -> Down(g, h.top, h.bottom, Count(h), keep /\ h.op = "sd")
      [] h.op = "ich" -> [g EXCEPT ![h.top].cells = Inserted(@, h.left, h.n)]
      [] h.op = "dch" -> [g EXCEPT ![h.top].cells = Deleted(@, h.left, h.n)]
      [] h.op = "ech" -> [g EXCEPT ![h.top].cells = Freed(@, Span(h))]
      [] h.op = "write" -> [g EXCEPT ![h.top].cells = Put(@, h.left, h.text)]

\* A terminal: its screen, the cursor, whether the next character wraps first.
Advance(t, ch) ==
    LET w == IF ch = "W" THEN 2 ELSE 1
        u == IF t.pending /\ t.autowrap
             THEN [t EXCEPT !.grid[t.row].wrapped = TRUE, !.row = Min2(t.row + 1, Rows), !.col = 1]
             ELSE t
    IN [u EXCEPT !.grid[u.row].cells = Put(@, u.col, ch), !.pending = u.col + w > Cols,
                 !.col = Min2(u.col + w, Cols)]
Obey(t, cmd) ==
    CASE cmd.do = "at" -> [t EXCEPT !.row = cmd.row, !.col = cmd.col, !.pending = FALSE]
      [] cmd.do = "put" -> Advance(t, cmd.text)
      [] cmd.do = "el" -> [t EXCEPT !.grid[t.row] = BlankRow, !.pending = FALSE]
      [] cmd.do = "clear" -> [t EXCEPT !.grid = [r \in Lines |-> BlankRow]]
      [] cmd.do = "autowrap" -> [t EXCEPT !.autowrap = cmd.on, !.pending = @ /\ cmd.on]
      [] cmd.do = "op" -> [t EXCEPT !.grid = Done(@, cmd.h, sticky), !.pending = FALSE]
      [] cmd.do = "marklast" -> [t EXCEPT !.grid[Rows].wrapped = TRUE]
Run(g, cmds) == FoldLeft(Obey, [grid |-> g, row |-> 1, col |-> 1, pending |-> FALSE,
                                autowrap |-> TRUE], cmds).grid

-----------------------------------------------------------------------------
(* What is written.                                                        *)

At(r, c) == [do |-> "at", row |-> r, col |-> c]
Puts(cells, a, b) ==
    LET kept == SelectSeq([i \in 1 .. b - a + 1 |-> cells[a + i - 1]], LAMBDA x : x # "-")
    IN [i \in DOMAIN kept |-> [do |-> "put", text |-> kept[i]]]
\* write_incremental_run
WriteRun(r, a, b, cells) == <<At(r, a)>> \o Puts(cells, a, b)
\* write_row_at, and write_full_rows around it
WriteRow(g, r) ==
    IF g[r].wrapped
    THEN WriteRun(r, 1, Cols, g[r].cells)
         \o IF r < Rows THEN <<[do |-> "put", text |-> "_"]>> ELSE <<[do |-> "marklast"]>>
    ELSE <<[do |-> "autowrap", on |-> FALSE], At(r, 1), [do |-> "el"]>>
         \o Puts(g[r].cells, 1, Cols) \o <<[do |-> "autowrap", on |-> TRUE]>>
EncodeFull(g, retain) ==
    (IF retain THEN <<>> ELSE <<[do |-> "clear"]>>) \o FlattenSeq([r \in Lines |-> WriteRow(g, r)])

\* changed_cell_ranges: the longest runs of a set of columns, from left to right.
RunsOf(S) == SetToSortSeq({ab \in Columns \X Columns :
                             /\ ab[1] <= ab[2] /\ ab[1] .. ab[2] \subseteq S
                             /\ ab[1] - 1 \notin S /\ ab[2] + 1 \notin S},
                          LAMBDA x, y : x[1] < y[1])
\* expand_and_merge_cell_ranges: to the characters cut at either end.
ExpandNot(ab, was, is) == ab                                                  \* mutant
Expand(ab, was, is) ==
    LET cut(c) == was[c] = "-" \/ is[c] = "-"
        least(start) == IF was[start] = "W" \/ is[start] = "W"
                        THEN Max({ab[2], Min2(start + 1, Cols)}) ELSE ab[2]
        from(start) == <<start, Min({c \in least(start) .. Cols : c = Cols \/ ~cut(c + 1)})>>
    IN from(Max({c \in 1 .. ab[1] : c = 1 \/ ~cut(c)}))
Ranges(was, is, left, right) ==
    LET columns(ab) == ab[1] .. ab[2]
        all(changed) == UNION {columns(Expand(changed[i], was, is)) : i \in DOMAIN changed}
    IN RunsOf(all(RunsOf({c \in left .. right : was[c] # is[c]})))

\* One row brought from was to is within a span: what is written, and the row.
Repaired(r, was, is, left, right) ==
    LET write(ranges) ==
            [cmds |-> FlattenSeq([i \in DOMAIN ranges |-> WriteRun(r, ranges[i][1], ranges[i][2], is)]),
             cells |-> [c \in Columns |-> IF \E i \in DOMAIN ranges : c \in ranges[i][1] .. ranges[i][2]
                                          THEN is[c] ELSE was[c]]]
    IN write(Ranges(was, is, left, right))

\* The span each row is to be compared in, from the regions: none, or their hull.
Hull(regions, r) ==
    LET mine == {x \in regions : x.row = r}
    IN IF mine = {} THEN <<>> ELSE <<Min({x.left : x \in mine}), Max({x.right : x \in mine})>>

-----------------------------------------------------------------------------
(* The hints.                                                              *)

FullRow(r) == [row |-> r, left |-> 1, right |-> Cols]
\* shift_repair_rows
Shifted(repairs, h, by) ==
    LET inside(x) == x.row \in h.top .. h.bottom
    IN {x \in repairs : ~inside(x)}
       \cup {[x EXCEPT !.row = @ + by] : x \in {y \in repairs : inside(y) /\ y.row + by \in h.top .. h.bottom}}

\* apply_scene_operation, on w = the copy, what is written, what is to be repaired
ApplyLines(w, h) ==
    LET up == h.op \in {"su", "dl"}
        scroll == h.op \in {"su", "sd"}
        new == IF up THEN h.bottom - Count(h) + 1 .. h.bottom ELSE h.top .. h.top + Count(h) - 1
    IN [ok |-> w.ok /\ (scroll \/ \A r \in h.top .. h.bottom : ~w.grid[r].wrapped),
        grid |-> IF up THEN Up(w.grid, h.top, h.bottom, Count(h), FALSE)
                       ELSE Down(w.grid, h.top, h.bottom, Count(h), FALSE),
        cmds |-> w.cmds \o <<[do |-> "op", h |-> h]>>
                 \o IF scroll
                    THEN FlattenSeq([i \in 1 .. Count(h) |-> <<At(Min(new) + i - 1, 1), [do |-> "el"]>>])
                    ELSE <<>>,
        repairs |-> Shifted(w.repairs, h, IF up THEN -Count(h) ELSE Count(h))
                    \cup {FullRow(r) : r \in new}]
ApplyChars(w, h) ==
    LET n == Min2(h.n, Cols - h.left + 1)
    IN [ok |-> /\ w.ok /\ ~w.grid[h.top].wrapped
               /\ \A c \in h.left .. Cols : ~Wide(w.grid[h.top].cells[c]),
        grid |-> Done(w.grid, h, FALSE),
        cmds |-> w.cmds \o <<At(h.top, h.left), [do |-> "op", h |-> h]>>,
        repairs |-> w.repairs \cup
            {IF h.op = "ich" THEN [row |-> h.top, left |-> h.left, right |-> h.left + n - 1]
                             ELSE [row |-> h.top, left |-> Cols - n + 1, right |-> Cols]}]
ApplyCells(w, h) ==
    LET writes == h.op = "write"
    IN [ok |-> w.ok /\ (IF writes THEN ~Wide(h.text) ELSE ~w.grid[h.top].wrapped),
        grid |-> [w.grid EXCEPT ![h.top].cells = [c \in Columns |-> IF c \in Span(h) THEN h.text ELSE @[c]]],
        cmds |-> w.cmds \o <<At(h.top, h.left), IF writes THEN [do |-> "put", text |-> h.text]
                                                ELSE [do |-> "op", h |-> h]>>,
        repairs |-> w.repairs \cup {[row |-> h.top, left |-> h.left, right |-> h.right]}]
ApplyOp(w, h) ==
    CASE h.op \in {"su", "dl", "sd", "il"} -> ApplyLines(w, h)
      [] h.op \in {"ich", "dch"} -> ApplyChars(w, h)
      [] h.op \in {"ech", "write"} -> ApplyCells(w, h)

\* repair_semantic_regions
RepairAll(w, is) ==
    LET with(v, r, p) == [v EXCEPT !.ok = @ /\ v.grid[r].wrapped = is[r].wrapped,
                                   !.cmds = @ \o p.cmds, !.grid[r].cells = p.cells]
        within(v, r, h) == IF h = <<>> THEN v
                           ELSE with(v, r, Repaired(r, v.grid[r].cells, is[r].cells, h[1], h[2]))
        fix(v, r) == within(v, r, Hull(v.repairs, r))
    IN FoldLeft(fix, w, [r \in Lines |-> r])

-----------------------------------------------------------------------------
(* Rendering.                                                              *)

\* from_terminal_update: the damaged rows and the regions of the hints
HintRows(h) == IF h.op \in {"su", "sd", "il", "dl"} THEN {FullRow(r) : r \in h.top .. h.bottom}
               ELSE {[row |-> h.top, left |-> h.left,
                      right |-> IF h.op \in {"ich", "dch"} THEN Cols ELSE h.right]}
Regions(was, is, hs) == {FullRow(r) : r \in {q \in Lines : was[q] # is[q]}}
                        \cup UNION {HintRows(hs[i]) : i \in DOMAIN hs}

\* incremental_batch; nothing where a wrapped row is damaged
Incremental(was, is, regions) ==
    LET within(r, h) == IF h = <<>> THEN <<>>
                        ELSE Repaired(r, was[r].cells, is[r].cells, h[1], h[2]).cmds
    IN IF \E x \in regions : was[x.row].wrapped \/ is[x.row].wrapped THEN [ok |-> FALSE, cmds |-> <<>>]
       ELSE [ok |-> TRUE, cmds |-> FlattenSeq([r \in Lines |-> within(r, Hull(regions, r))])]

\* semantic_batch
Semantic(was, is, hs) ==
    LET repaired(v) == IF v.ok /\ v.grid = is THEN [try |-> "batch", cmds |-> v.cmds]
                       ELSE [try |-> "inconsistent", cmds |-> <<>>]
        applied(w) == IF ~w.ok THEN [try |-> "not applicable", cmds |-> <<>>] ELSE repaired(RepairAll(w, is))
    IN applied(FoldLeft(ApplyOp, [ok |-> TRUE, grid |-> was, cmds |-> <<>>, repairs |-> {}], hs))

WritesOnly(hs) == \A i \in DOMAIN hs : hs[i].op = "write"
ErasesAndWrites(hs) == /\ \E i \in DOMAIN hs : hs[i].op = "write"
                       /\ \A i \in DOMAIN hs : hs[i].op \in {"write", "ech"}

\* IncrementalVtRenderer::render: alone = the scene is this one screen, uncovered
Batch(was, is, hs, alone) ==
    LET replays == alone /\ ~WritesOnly(hs) /\ ~ErasesAndWrites(hs)
        choose(full, step, attempt) ==
            IF ~confirmed \/ (replays /\ attempt.try = "inconsistent") THEN full
            ELSE IF replays /\ attempt.try = "batch" THEN attempt.cmds
            ELSE IF step.ok THEN step.cmds ELSE full
    IN choose(EncodeFull(is, confirmed), Incremental(was, is, Regions(was, is, hs)), Semantic(was, is, hs))

Render(alone) ==
    /\ physical' = Run(physical, Batch(shown, screen, hints, alone))
    /\ shown' = screen /\ hints' = <<>> /\ confirmed' = TRUE
    /\ UNCHANGED <<screen, sticky, draws>>

\* Something else wrote to the terminal, or a write failed halfway.
Disturb(row) ==
    /\ confirmed
    /\ physical' = [r \in Lines |-> row] /\ confirmed' = FALSE
    /\ UNCHANGED <<screen, shown, hints, sticky, draws>>

\* The application: any operation, its hint reported, lost, or without effect.
Operations ==
    [op : {"su", "sd", "il", "dl"}, top : Lines, bottom : Lines, left : {1}, right : {Cols}, n : {1}, text : {"_"}]
    \cup [op : {"ich", "dch"}, top : Lines, bottom : Lines, left : Columns, right : {Cols}, n : {1}, text : {"_"}]
    \cup [op : {"ech"}, top : Lines, bottom : Lines, left : Columns, right : Columns, n : {1}, text : {"_"}]
    \cup [op : {"write"}, top : Lines, bottom : Lines, left : Columns, right : Columns, n : {1}, text : Texts]
Possible(h) ==
    CASE h.op \in {"su", "sd", "il", "dl"} -> h.top <= h.bottom
      [] h.op \in {"ich", "dch"} -> h.top = h.bottom
      [] h.op = "ech" -> h.top = h.bottom /\ h.left <= h.right
      [] h.op = "write" -> /\ h.top = h.bottom /\ h.left = h.right
                           /\ h.text = "W" => h.left < Cols
Draw(h, did, hinted) ==
    /\ draws < MaxDraws /\ (did \/ hinted)
    /\ screen' = IF did THEN Done(screen, h, FALSE) ELSE screen
    /\ hints' = IF hinted THEN Append(hints, h) ELSE hints
    /\ draws' = draws + 1
    /\ UNCHANGED <<shown, physical, confirmed, sticky>>

Init ==
    /\ screen \in [Lines -> StartRows] /\ shown = screen /\ physical = screen
    /\ hints = <<>> /\ confirmed = TRUE /\ sticky \in BOOLEAN /\ draws = 0

Next ==
    \/ \E h \in {x \in Operations : Possible(x)}, did, hinted \in BOOLEAN : Draw(h, did, hinted)
    \/ \E alone \in BOOLEAN : Render(alone)
    \/ \E row \in StartRows : Disturb(row)

Spec == Init /\ [][Next]_renderVars

-----------------------------------------------------------------------------
(* Properties.                                                             *)

\* Whatever the hints say and whichever way the renderer takes, what it wrote
\* leaves the terminal showing the application's screen, cell by cell and with
\* the same rows wrapped: the shadow the next batch is computed on is right.
RenderExact == confirmed => physical = shown
=============================================================================
