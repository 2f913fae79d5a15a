------------------------------- MODULE Review -------------------------------
(***************************************************************************)
(* The review overlay (review/parser.rs, views/review.rs) and the          *)
(* clipboards it copies to (clipboard.rs, screen_reader.rs).  A frozen     *)
(* document is read with the keys of vi.  Three machines have to agree:    *)
(* the parser, which knows the pending count, operator and visual mode;    *)
(* the view, which knows where a selection began, the cursor, and the part *)
(* of the document that is on the screen; and the ring of copied texts,    *)
(* which programs and scripts fill as well.  What is spoken is left out.   *)
(*                                                                         *)
(* The document (review/document.rs) is a frozen copy of a terminal and    *)
(* its scrollback.  A row is a sequence of cells: "" is empty, "~" the     *)
(* second half of a wide character.  A position is <<row, column>>, from   *)
(* <<1, 1>>.  A query is a literal of one character; styles are left out.  *)
(***************************************************************************)
EXTENDS Integers, Sequences, SequencesExt, FiniteSetsExt, TLC

CONSTANTS
    Width,       \* columns of the captured terminal
    Documents,   \* [rows, wrapped, prompts, at, top, height]: what may be captured
    Sizes,       \* <<rows, columns>> the overlay may be given
    Keys,        \* the keys that are pressed
    Clips,       \* [default, provider]: how the clipboards are configured
    MaxCount,    \* MAX_COUNT
    Capacity,    \* INTERNAL_CLIPBOARD_CAPACITY
    MaxKeys,     \* bound: keys pressed, clicks and resizes
    MaxCopies    \* bound: texts copied

VARIABLES
    doc,         \* [rows, wrapped, prompts, ends, order, ...]
    open,        \* the overlay is on the stack of views
    parser,      \* [count, prefix, op, visual, register, awaiting]
    cursor,      \* the cursor
    port,        \* [top, left, rows, cols]: the part of the document on the screen
    anchor,      \* visual_anchor and visual_kind: None or Some([at, line])
    found,       \* last_find: None or Some([forward, till, target, matched])
    sought,      \* last_search: None or Some([query, forward])
    prompt,      \* search_prompt: None or Some([query, forward]); no query is ""
    clip,        \* [default, provider, ring, index, queued]: the clipboards
    past         \* history: [keys, copies, texts, asked, sent, began, copied]

reviewVars == <<doc, open, parser, cursor, port, anchor, found, sought, prompt, clip, past>>

\* An Option: at most one value.
None == <<>>
Some(x) == <<x>>

-----------------------------------------------------------------------------
(* The document (from_snapshot, build_search_text): ends tells how many    *)
(* cells of a row count, order lists the addressable cells.                *)

Captured(d) ==
    LET ends == [r \in DOMAIN d.rows |->
                    IF d.wrapped[r] THEN Width
                    ELSE Max({0} \cup {c \in 1 .. Width : d.rows[r][c] # ""})]
        cells(r) == [c \in 1 .. Max({1, ends[r]}) |-> <<r, c>>]
    IN [ends |-> ends,
        order |-> FlattenSeq([r \in DOMAIN d.rows |->
                     SelectSeq(cells(r), LAMBDA p : d.rows[r][p[2]] # "~")])] @@ d

RowCount == Len(doc.rows)
Rows == 1 .. RowCount
Order == doc.order
Positions == ToSet(Order)
Cell(p) == doc.rows[p[1]][p[2]]
Blank(p) == Cell(p) \in {"", " "}
End(r) == doc.ends[r]
LastCol(r) == Max({1, End(r)})
FirstNonblank(r) ==
    LET ink == {c \in 1 .. End(r) : doc.rows[r][c] \notin {"", " ", "~"}}
    IN IF ink = {} THEN 1 ELSE Min(ink)
ClampCol(r, c) == Max({1} \cup {d \in 1 .. Min({c, LastCol(r)}) : doc.rows[r][d] # "~"})
Clamp(p) == LET r == Min({p[1], RowCount}) IN <<r, ClampCol(r, p[2])>>

Before(p, q) == p[1] < q[1] \/ (p[1] = q[1] /\ p[2] < q[2])
UpTo(p, q) == p = q \/ Before(p, q)
Index(p) == CHOOSE i \in DOMAIN Order : Order[i] = p
\* adjacent, previous_position
Adjacent(p, forward) ==
    LET i == Index(p) + IF forward THEN 1 ELSE -1
    IN IF i \in DOMAIN Order THEN Some(Order[i]) ELSE None
\* The n-th of a sequence of places, in the order of the document or against it.
Nth(seq, forward, n) ==
    IF n > Len(seq) THEN None ELSE Some(seq[IF forward THEN n ELSE Len(seq) - n + 1])
Beyond(p, q, forward) == IF forward THEN Before(p, q) ELSE Before(q, p)

\* A step taken n times, unless it fails, and refused where it leads nowhere.
Repeated(p, n, Step(_)) ==
    LET to[k \in 0 .. n] == IF k = 0 THEN Some(p)
                            ELSE IF to[k - 1] = None THEN None ELSE Step(to[k - 1][1])
    IN IF to[n] = Some(p) THEN None ELSE to[n]

MoveHorizontal(p, forward, n) ==
    LET side == SelectSeq(Order, LAMBDA q : q[1] = p[1] /\ Beyond(p, q, forward))
    IN Nth(side, forward, Min({n, Max({1, Len(side)})}))
MoveVertical(p, down, n) ==
    LET r == IF down THEN Min({p[1] + n, RowCount}) ELSE Max({p[1] - n, 1})
    IN IF r = p[1] THEN None ELSE Some(<<r, ClampCol(r, p[2])>>)

(* Words, by places in the order of the document.                          *)
Punctuation == {".", "(", ")"}
Class(p, big) == IF Blank(p) THEN 0 ELSE IF big \/ Cell(p) \notin Punctuation THEN 1 ELSE 2
Wordy(i, big) == Class(Order[i], big) # 0
SameLine(p, q) == p[1] = q[1] \/ (p[1] + 1 = q[1] /\ doc.wrapped[p[1]])
\* i goes on with the run of the place before it
Continues(i, big) ==
    /\ i > 1 /\ SameLine(Order[i - 1], Order[i])
    /\ Class(Order[i - 1], big) = Class(Order[i], big)
RunStart(i, big) == Max({s \in 1 .. i : ~Continues(s, big)})
RunEnd(i, big) ==
    Min({e \in i .. Len(Order) : e = Len(Order) \/ ~Continues(e + 1, big)})
At(S, Pick(_)) == IF S = {} THEN None ELSE Some(Order[Pick(S)])
NextWordStart(p, big) ==
    LET i == Index(p)
        breaks == {j \in i + 1 .. Len(Order) : ~Continues(j, big)}
    IN At({j \in i + 1 .. Len(Order) : breaks # {} /\ j >= Min(breaks) /\ Wordy(j, big)}, Min)
PreviousWordStart(p, big) ==
    LET words == {j \in 1 .. Index(p) - 1 : Wordy(j, big)}
    IN IF Index(p) = 1 THEN None
       ELSE Some(Order[IF words = {} THEN 1 ELSE RunStart(Max(words), big)])
NextWordEnd(p, big) ==
    At({j \in Index(p) + 1 .. Len(Order) : Wordy(j, big)}, LAMBDA S : RunEnd(Min(S), big))
MoveWord(p, to, big, n) ==
    Repeated(p, n, LAMBDA q : CASE to = "start" -> NextWordStart(q, big)
                                [] to = "back" -> PreviousWordStart(q, big)
                                [] to = "end" -> NextWordEnd(q, big))

(* Finding.                                                                *)
LogicalLine(r) ==
    {s \in Rows : \A q \in Rows : Min({r, s}) <= q /\ q < Max({r, s}) => doc.wrapped[q]}
InLine(r) == SelectSeq(Order, LAMBDA p : p[1] \in LogicalLine(r) /\ p[2] <= End(p[1]))
FindCharacter(p, target, forward, n) ==
    Nth(SelectSeq(InLine(p[1]), LAMBDA q : Cell(q) = target /\ Beyond(p, q, forward)), forward, n)
\* matching_brace: from the first brace of the line, those before p in its own row left out
BracesFrom(p) ==
    SelectSeq(InLine(p[1]), LAMBDA q : Cell(q) \in {"(", ")"} /\ (q[1] = p[1] => q[2] >= p[2]))
MateOf(s) ==
    LET i == Index(s)
        forward == Cell(s) = "("
        side == IF forward THEN i + 1 .. Len(Order) ELSE 1 .. i - 1
        between(j) == Min({i, j}) + 1 .. Max({i, j}) - 1
        braces(j, b) == Cardinality({k \in between(j) : Cell(Order[k]) = b})
        mates == {j \in side : /\ Cell(Order[j]) = IF forward THEN ")" ELSE "("
                               /\ braces(j, "(") = braces(j, ")")}
    IN IF mates = {} THEN None ELSE Some(Order[IF forward THEN Min(mates) ELSE Max(mates)])
MatchingBrace(p) == IF BracesFrom(p) = <<>> THEN None ELSE MateOf(BracesFrom(p)[1])
Prompt(p, forward, n) ==
    LET mark == Nth(SelectSeq(doc.prompts, LAMBDA q : Beyond(p, q, forward)), forward, n)
    IN IF mark = None THEN None ELSE Some(Clamp(mark[1]))
\* search: from p on, around the ends
Written(p) == IF Cell(p) = "" THEN " " ELSE Cell(p)
Matches(query) == SelectSeq(Order, LAMBDA q : q[2] <= End(q[1]) /\ Written(q) = query)
Search(query, p, forward, n) ==
    LET all == Matches(query)
        beyond == SelectSeq(all, LAMBDA q : Beyond(p, q, forward))
        others == SelectSeq(all, LAMBDA q : ~Beyond(p, q, forward))
        k == ((n - 1) % Len(all)) + 1
        target == IF k <= Len(beyond) THEN Nth(beyond, forward, k)
                  ELSE Nth(others, forward, k - Len(beyond))
    IN IF all = <<>> THEN None ELSE IF target = Some(p) THEN None ELSE target

(* Copying (yank_range, inner_word_range).                                 *)
TrimmedEnd(s) == SubSeq(s, 1, Max({0} \cup {i \in DOMAIN s : s[i] # " "}))
CellsOf(r, from, to) ==
    LET cells == SelectSeq(Order, LAMBDA p : p[1] = r /\ p[2] >= from /\ p[2] <= Min({to, End(r)}))
    IN [i \in DOMAIN cells |-> Written(cells[i])]
YankRange(p, q, line) ==
    LET first == IF UpTo(p, q) THEN p ELSE q
        last == IF UpTo(p, q) THEN q ELSE p
        from(r) == IF r = first[1] /\ ~line THEN first[2] ELSE 1
        to(r) == IF r # last[1] THEN End(r) ELSE IF line THEN LastCol(r) ELSE last[2]
        ended(r) == IF r # last[1] /\ ~doc.wrapped[r] THEN <<"\n">> ELSE <<>>
        row(r) == (IF line \/ r # last[1] THEN TrimmedEnd(CellsOf(r, from(r), to(r)))
                   ELSE CellsOf(r, from(r), to(r))) \o ended(r)
        text == FlattenSeq([i \in 1 .. last[1] - first[1] + 1 |-> row(first[1] + i - 1)])
                \o IF line THEN <<"\n">> ELSE <<>>
    IN IF text = <<>> THEN None ELSE Some(text)
WordRange(p, big, around, n) ==
    LET size == Len(Order)
        words == {j \in Index(p) .. size : Wordy(j, big)}
        index == Min(words)
        \* the end of a run of the first word's class, entered at e
        joins(j) == Class(Order[j], big) = Class(Order[index], big) /\ SameLine(Order[j - 1], Order[j])
        grown(e) == Min({f \in e .. size : f = size \/ ~joins(f + 1)})
        next(e) == {j \in e + 1 .. size : Wordy(j, big)}
        end[k \in 1 .. n] ==
            IF k = 1 THEN grown(index)
            ELSE IF next(end[k - 1]) = {} THEN end[k - 1] ELSE grown(Min(next(end[k - 1])))
        last == IF ~around THEN end[n]
                ELSE Min({f \in end[n] .. size : f = size \/ Wordy(f + 1, big)})
        start == RunStart(index, big)
        first == IF around /\ last = index
                 THEN Min({f \in 1 .. start : \A j \in f .. start - 1 : ~Wordy(j, big)}) ELSE start
    IN IF words = {} THEN None ELSE Some(<<Order[first], Order[last]>>)

-----------------------------------------------------------------------------
(* The parser (review/parser.rs).                                          *)

Special == {"Escape", "Enter", "Backspace", "Left", "Down", "Up", "Right",
            "C-b", "C-f", "C-u", "C-d", "Unknown"}
Chars == Keys \ Special
Digits == ("0" :> 0) @@ ("1" :> 1) @@ ("2" :> 2) @@ ("3" :> 3)
KeyMotions ==
    ("h" :> <<"left">>) @@ ("Left" :> <<"left">>) @@ ("j" :> <<"down">>) @@ ("Down" :> <<"down">>)
    @@ ("k" :> <<"up">>) @@ ("Up" :> <<"up">>) @@ ("l" :> <<"right">>) @@ ("Right" :> <<"right">>)
    @@ ("0" :> <<"line start">>) @@ ("^" :> <<"first nonblank">>) @@ ("$" :> <<"line end">>)
    @@ ("w" :> <<"word", "start", FALSE>>) @@ ("W" :> <<"word", "start", TRUE>>)
    @@ ("b" :> <<"word", "back", FALSE>>) @@ ("B" :> <<"word", "back", TRUE>>)
    @@ ("e" :> <<"word", "end", FALSE>>) @@ ("E" :> <<"word", "end", TRUE>>)
    @@ ("G" :> <<"bottom">>) @@ ("%" :> <<"brace">>)
    @@ (";" :> <<"repeat", FALSE>>) @@ ("," :> <<"repeat", TRUE>>)
\* Keys that another key must follow; an operator takes those without "z".
OperatorPrefixes ==
    ("g" :> <<"g">>) @@ ("[" :> <<"bracket", FALSE>>) @@ ("]" :> <<"bracket", TRUE>>)
    @@ ("f" :> <<"find", TRUE, FALSE>>) @@ ("F" :> <<"find", FALSE, FALSE>>)
    @@ ("t" :> <<"find", TRUE, TRUE>>) @@ ("T" :> <<"find", FALSE, TRUE>>)
OpeningKeys == ("z" :> <<"z">>) @@ OperatorPrefixes
Placements ==
    ("t" :> <<"top", FALSE>>) @@ ("Enter" :> <<"top", TRUE>>)
    @@ ("z" :> <<"center", FALSE>>) @@ ("." :> <<"center", TRUE>>)
    @@ ("b" :> <<"bottom", FALSE>>) @@ ("-" :> <<"bottom", TRUE>>)
Registers == ("\"" :> Some("internal")) @@ ("+" :> Some("system"))

Pending == [count |-> 0, prefix |-> None, op |-> None, register |-> None, awaiting |-> FALSE]
NewParser == Pending @@ [visual |-> "none"]
Fed(p, command) == [parser |-> p, command |-> command]
\* finish, reset_pending: all but the visual mode is forgotten
Finish(p, command) == Fed(Pending @@ p, command)
Wait(p) == Fed(p, <<"none">>)

\* add_count, take_count, multiply_counts; no count is 0
IsDigit(key, n) == key \in DOMAIN Digits /\ (key # "0" \/ n # 0)
AddDigit(n, key) == Min({MaxCount, 10 * n + Digits[key]})
CountOf(n) == Max({1, n})
Times(m, n) == Min({MaxCount, m * n})

PrefixMotion(prefix, key) ==
    CASE prefix[1] = "g" /\ key = "g" -> Some(<<"top">>)
      [] prefix[1] = "bracket" /\ key = "p" -> Some(<<"prompt", prefix[2]>>)
      [] prefix[1] = "find" /\ key \in Chars -> Some(<<"find", prefix[2], prefix[3], key>>)
      [] OTHER -> None

FeedPrefix(p, key) ==
    LET prefix == p.prefix[1]
        motion == PrefixMotion(prefix, key)
    IN IF prefix[1] = "z"
       THEN IF key \in DOMAIN Placements
            THEN Finish(p, <<"place", Placements[key][1], p.count, Placements[key][2]>>)
            ELSE Finish(p, <<"bell">>)
       ELSE IF motion = None THEN Finish(p, <<"bell">>)
            ELSE Finish(p, <<"move", motion[1], CountOf(p.count)>>)

\* What the normal and the visual mode share.
FeedEither(p, key) ==
    CASE key \in DOMAIN OpeningKeys -> Wait([p EXCEPT !.prefix = Some(OpeningKeys[key])])
      [] key = "\"" -> Wait([p EXCEPT !.awaiting = TRUE])
      [] key \in DOMAIN KeyMotions -> Finish(p, <<"move", KeyMotions[key], CountOf(p.count)>>)
      [] OTHER -> Finish(p, <<"bell">>)
FeedNormal(p, key) ==
    CASE key = "q" -> Finish(p, <<"exit">>)
      [] key = "y" -> Wait([p EXCEPT !.count = 0, !.register = None, !.op =
                               Some([count |-> CountOf(p.count), register |-> p.register,
                                     prefix |-> None, motions |-> 0, object |-> "none"])])
      [] key = "v" -> Finish([p EXCEPT !.visual = "character"], <<"visual", FALSE>>)
      [] key = "V" -> Finish([p EXCEPT !.visual = "line"], <<"visual", TRUE>>)
      [] key \in {"/", "?"} -> Finish(p, <<"search", key = "/">>)
      [] key \in {"n", "N"} -> Finish(p, <<"again", key = "N", CountOf(p.count)>>)
      [] key \in {"C-b", "C-u", "C-f", "C-d"} ->
             Finish(p, <<"page", key \in {"C-f", "C-d"}, CountOf(p.count)>>)
      [] OTHER -> FeedEither(p, key)
FeedVisual(p, key) ==
    CASE key = "y" -> Finish([p EXCEPT !.visual = "none"], <<"yank visual", p.register>>)
      [] key \in {"v", "V"} -> Finish([p EXCEPT !.visual = "none"], <<"cancel">>)
      [] OTHER -> FeedEither(p, key)

FeedOperator(p, key) ==
    LET o == p.op[1]
        n == Times(o.count, CountOf(o.motions))
        motion == IF o.prefix # None THEN PrefixMotion(o.prefix[1], key)
                  ELSE IF key \in DOMAIN KeyMotions THEN Some(KeyMotions[key]) ELSE None
        becomes(x) == Wait([p EXCEPT !.op = Some(x)])
    IN CASE IsDigit(key, o.motions) -> becomes([o EXCEPT !.motions = AddDigit(@, key)])
         [] ~IsDigit(key, o.motions) /\ o.object # "none" ->
                IF key \in {"w", "W"}
                THEN Finish(p, <<"yank word", key = "W", o.object = "around", n, o.register>>)
                ELSE Finish(p, <<"bell">>)
         [] ~IsDigit(key, o.motions) /\ o.object = "none" ->
                IF o.prefix = None /\ key = "y" THEN Finish(p, <<"yank line", n, o.register>>)
                ELSE IF o.prefix = None /\ key \in {"i", "a"}
                THEN becomes([o EXCEPT !.object = IF key = "a" THEN "around" ELSE "inner"])
                ELSE IF o.prefix = None /\ key \in DOMAIN OperatorPrefixes
                THEN becomes([o EXCEPT !.prefix = Some(OperatorPrefixes[key])])
                ELSE IF motion = None THEN Finish(p, <<"bell">>)
                ELSE Finish(p, <<"yank", motion[1], n, o.register>>)

FeedRegister(p, key) ==
    IF key \in DOMAIN Registers
    THEN Wait([p EXCEPT !.awaiting = FALSE, !.register = Registers[key]])
    ELSE Finish(p, <<"bell">>)

Escape(p) ==
    IF p.visual # "none" THEN Finish([p EXCEPT !.visual = "none"], <<"cancel">>)
    ELSE Finish(p, IF p = NewParser THEN <<"bell">> ELSE <<"none">>)

Feed(p, key) ==
    IF key = "Escape" THEN Escape(p)
    ELSE IF p.awaiting THEN FeedRegister(p, key)
    ELSE IF p.op # None THEN FeedOperator(p, key)
    ELSE IF p.prefix # None THEN FeedPrefix(p, key)
    ELSE IF IsDigit(key, p.count) THEN Wait([p EXCEPT !.count = AddDigit(@, key)])
    ELSE IF p.visual # "none" THEN FeedVisual(p, key) ELSE FeedNormal(p, key)

-----------------------------------------------------------------------------
(* The clipboards (clipboard.rs, screen_reader.rs).  The native one is the *)
(* system's: writing it may fail.                                          *)

PutInto(c, text) ==
    LET kept == IF Len(c.ring) >= Capacity THEN Tail(c.ring) ELSE c.ring
    IN [c EXCEPT !.ring = Append(kept, text), !.index = Len(kept) + 1]
Noted(text) == [past EXCEPT !.copies = @ + 1, !.texts = Append(@, text)]
\* write_clipboard, for a register that was named or the default one
Write(register, text, p, ok) ==
    LET to == IF register = None THEN clip.default ELSE register[1]
        noted == [p EXCEPT !.copies = @ + 1]
    IN CASE to = "internal" ->
              /\ ok
              /\ clip' = PutInto(clip, text)
              /\ past' = [noted EXCEPT !.texts = Append(@, text)]
         [] to = "system" /\ clip.provider = "osc52" ->
              /\ ok
              /\ clip' = [clip EXCEPT !.queued = Append(@, text)]
              /\ past' = [noted EXCEPT !.asked = Append(@, text)]
         [] to = "system" /\ clip.provider = "native" ->
              /\ clip' = clip
              /\ past' = IF ok THEN noted ELSE p

\* Programs push what they copy, scripts push, select and clear; the user
\* goes through the ring with a key.
Push(text) ==
    /\ past.copies < MaxCopies
    /\ clip' = PutInto(clip, text)
    /\ past' = Noted(text)
    /\ UNCHANGED <<doc, open, parser, cursor, port, anchor, found, sought, prompt>>
Selecting(i) ==
    /\ past.keys < MaxKeys /\ clip.ring # <<>>
    /\ clip' = [clip EXCEPT !.index = i]
    /\ past' = [past EXCEPT !.keys = @ + 1]
    /\ UNCHANGED <<doc, open, parser, cursor, port, anchor, found, sought, prompt>>
PreviousClipboard == clip.index < Len(clip.ring) /\ Selecting(clip.index + 1)
NextClipboard == clip.index > 1 /\ Selecting(clip.index - 1)
SelectIndex(i) == i \in 1 .. Len(clip.ring) /\ Selecting(Len(clip.ring) - i + 1)
ClearClipboard ==
    /\ past.keys < MaxKeys /\ clip.ring # <<>>
    /\ clip' = [clip EXCEPT !.ring = <<>>, !.index = 1]
    /\ past' = [past EXCEPT !.keys = @ + 1, !.texts = <<>>]
    /\ UNCHANGED <<doc, open, parser, cursor, port, anchor, found, sought, prompt>>
\* flush_pending_clipboard_writes
FlushClipboard ==
    /\ clip.queued # <<>>
    /\ past' = [past EXCEPT !.sent = @ \o clip.queued]
    /\ clip' = [clip EXCEPT !.queued = <<>>]
    /\ UNCHANGED <<doc, open, parser, cursor, port, anchor, found, sought, prompt>>

-----------------------------------------------------------------------------
(* The view (views/review.rs).                                             *)

HeightWithout(p, ask) == p.rows                                                \* mutant
DocumentHeight(p, ask) == p.rows - IF ask = None THEN 0 ELSE 1
PageHeight(p, ask) == Max({1, DocumentHeight(p, ask)})
MaxTop(height) == Max({1, RowCount - height + 1})
MaxLeft(width) == Max({1, Max(ToSet(doc.ends)) - width + 1})
\* ensure_cursor_visible
Shown(p, at, ask) ==
    LET height == PageHeight(p, ask)
        top == IF at[1] < p.top THEN at[1]
               ELSE IF at[1] >= p.top + height THEN at[1] + 1 - height ELSE p.top
        left == IF at[2] < p.left THEN at[2]
                ELSE IF at[2] >= p.left + p.cols THEN at[2] + 1 - p.cols ELSE p.left
    IN [p EXCEPT !.top = Min({top, RowCount}), !.left = Min({left, MaxLeft(p.cols)})]
MoveTo(at, ask) == cursor' = Clamp(at) /\ port' = Shown(port, Clamp(at), ask)

\* scroll_page: where a page leads; a page that changes nothing rings the bell
Paged(p, at, ask, forward, n) ==
    LET distance == PageHeight(p, ask) * n
        top == IF forward THEN Min({p.top + distance, MaxTop(PageHeight(p, ask))})
               ELSE Max({1, p.top - distance})
        target == MoveVertical(at, forward, distance)
        to == IF target = None THEN at ELSE Clamp(target[1])
    IN [at |-> to, port |-> IF top = p.top /\ target = None THEN p
                            ELSE Shown([p EXCEPT !.top = top], to, ask)]

\* motion_target: where a motion leads, and the find it leaves
FindFrom(p, f, forward, n) ==
    LET hit == FindCharacter(p, f.target, forward, n)
        to == IF hit = None THEN None
              ELSE IF f.till THEN Adjacent(hit[1], ~forward) ELSE hit
    IN IF to = None \/ to = Some(cursor) THEN None
       ELSE Some([at |-> to[1], find |-> [f EXCEPT !.matched = hit[1]]])
Finding(m, n) ==
    IF m[1] = "find"
    THEN FindFrom(cursor, [forward |-> m[2], till |-> m[3], target |-> m[4], matched |-> cursor],
                  m[2], n)
    ELSE IF found = None THEN None
    ELSE FindFrom(IF m[2] THEN cursor ELSE found[1].matched, found[1], found[1].forward # m[2], n)
Elsewhere(p) == IF p = cursor THEN None ELSE Some(p)
LineAt(n) == Min({n, RowCount})
Nonblank(r) == <<r, FirstNonblank(r)>>
Target(m, n) ==
    CASE m[1] \in {"left", "right"} -> MoveHorizontal(cursor, m[1] = "right", n)
      [] m[1] \in {"up", "down"} -> MoveVertical(cursor, m[1] = "down", n)
      [] m[1] = "line start" -> Elsewhere(<<cursor[1], 1>>)
      [] m[1] = "first nonblank" -> Elsewhere(Nonblank(cursor[1]))
      [] m[1] = "line end" -> Elsewhere(<<cursor[1], LastCol(cursor[1])>>)
      [] m[1] = "word" -> MoveWord(cursor, m[2], m[3], n)
      [] m[1] = "top" -> Elsewhere(Nonblank(LineAt(n)))
      [] m[1] = "bottom" -> Elsewhere(Nonblank(IF n = 1 THEN RowCount ELSE LineAt(n)))
      [] m[1] = "brace" -> Repeated(cursor, n, MatchingBrace)
      [] m[1] = "prompt" -> Prompt(cursor, m[2], n)
      [] m[1] \in {"find", "repeat"} ->
             IF Finding(m, n) = None THEN None ELSE Some(Finding(m, n)[1].at)
FoundAfter(m, n) ==
    IF m[1] \in {"find", "repeat"} /\ Finding(m, n) # None
    THEN Some(Finding(m, n)[1].find) ELSE found

\* yank_motion_text
MotionText(m, to) ==
    LET exclusive == \/ m[1] \in {"left", "right", "line start", "first nonblank", "prompt"}
                     \/ m[1] = "word" /\ m[2] # "end"
        lower == IF Before(to, cursor) THEN to ELSE cursor
        before == Adjacent(IF Before(to, cursor) THEN cursor ELSE to, FALSE)
    IN IF m[1] \in {"up", "down", "top", "bottom"} THEN YankRange(cursor, to, TRUE)
       ELSE IF ~exclusive THEN YankRange(cursor, to, FALSE)
       ELSE IF before = None THEN None ELSE YankRange(lower, before[1], FALSE)

-----------------------------------------------------------------------------
(* What a command does (handle_command).                                   *)

Same == UNCHANGED <<cursor, port, found, sought, prompt>>
\* yank: a text is copied, or the bell rings; text is an Option
Yank(register, text, marked, p) ==
    IF text = None THEN clip' = clip /\ past' = p /\ anchor' = marked
    ELSE \E ok \in BOOLEAN :
            /\ p.copies < MaxCopies
            /\ Write(register, text[1], p, ok)
            /\ anchor' = IF ok THEN None ELSE marked

StartVisual(line, p) ==
    /\ anchor' = Some([at |-> cursor, line |-> line])
    /\ past' = [p EXCEPT !.began = cursor]
    /\ UNCHANGED clip /\ Same
Moved(m, n, p) ==
    LET to == Target(m, n)
    IN /\ found' = FoundAfter(m, n)
       /\ IF to = None THEN UNCHANGED <<cursor, port>> ELSE MoveTo(to[1], prompt)
       /\ past' = p
       /\ UNCHANGED <<clip, anchor, sought, prompt>>
ScrollPage(forward, n, p) ==
    LET to == Paged(port, cursor, prompt, forward, n)
    IN /\ cursor' = to.at /\ port' = to.port
       /\ past' = p
       /\ UNCHANGED <<clip, anchor, found, sought, prompt>>
RepositionViewport(where, line, nonblank, p) ==
    LET at == IF line = 0 THEN cursor ELSE Clamp(<<line, cursor[2]>>)
        to == IF nonblank THEN Nonblank(at[1]) ELSE at
        height == PageHeight(port, prompt)
        top == Max({1, CASE where = "top" -> to[1]
                         [] where = "center" -> to[1] - (height \div 2)
                         [] where = "bottom" -> to[1] - height + 1})
    IN /\ cursor' = to
       /\ port' = Shown([port EXCEPT !.top = top], to, prompt)
       /\ past' = p
       /\ UNCHANGED <<clip, anchor, found, sought, prompt>>
YankMotion(m, n, register, p) ==
    LET to == Target(m, n)
    IN /\ found' = FoundAfter(m, n)
       /\ Yank(register, IF to = None THEN None ELSE MotionText(m, to[1]), anchor, p)
       /\ UNCHANGED <<cursor, port, sought, prompt>>
YankLine(n, register, p) ==
    LET last == LineAt(cursor[1] + n - 1)
    IN Yank(register, YankRange(cursor, <<last, LastCol(last)>>, TRUE), anchor, p) /\ Same
YankWord(big, around, n, register, p) ==
    LET range == WordRange(cursor, big, around, n)
    IN /\ Yank(register, IF range = None THEN None
                         ELSE YankRange(range[1][1], range[1][2], FALSE), anchor, p)
       /\ Same
YankVisual(register, p) ==
    LET a == anchor[1]
        text == IF anchor = None THEN None ELSE YankRange(a.at, cursor, a.line)
        noted == IF text = None THEN p
                 ELSE [p EXCEPT !.copied = Some([text |-> text[1], from |-> p.began,
                                                to |-> cursor, line |-> a.line])]
    IN Yank(register, text, None, noted) /\ Same
RepeatSearch(reverse, n, p) ==
    LET s == sought[1]
        to == IF sought = None THEN None ELSE Search(s.query, cursor, s.forward # reverse, n)
    IN /\ IF to = None THEN UNCHANGED <<cursor, port>> ELSE MoveTo(to[1], prompt)
       /\ past' = p
       /\ UNCHANGED <<clip, anchor, found, sought, prompt>>
StartSearch(forward, p) ==
    /\ prompt' = Some([query |-> "", forward |-> forward])
    /\ port' = Shown(port, cursor, prompt')
    /\ past' = p
    /\ UNCHANGED <<cursor, clip, anchor, found, sought>>

Perform(c, p) ==
    \/ c[1] \in {"none", "bell"} /\ past' = p /\ UNCHANGED <<open, anchor, clip>> /\ Same
    \/ c[1] = "exit" /\ open' = FALSE /\ past' = p /\ UNCHANGED <<anchor, clip>> /\ Same
    \/ /\ open' = open
       /\ \/ c[1] = "visual" /\ StartVisual(c[2], p)
          \/ c[1] = "cancel" /\ anchor' = None /\ past' = p /\ UNCHANGED clip /\ Same
          \/ c[1] = "move" /\ Moved(c[2], c[3], p)
          \/ c[1] = "page" /\ ScrollPage(c[2], c[3], p)
          \/ c[1] = "place" /\ RepositionViewport(c[2], c[3], c[4], p)
          \/ c[1] = "yank" /\ YankMotion(c[2], c[3], c[4], p)
          \/ c[1] = "yank line" /\ YankLine(c[2], c[3], p)
          \/ c[1] = "yank word" /\ YankWord(c[2], c[3], c[4], c[5], p)
          \/ c[1] = "yank visual" /\ YankVisual(c[2], p)
          \/ c[1] = "search" /\ StartSearch(c[2], p)
          \/ c[1] = "again" /\ RepeatSearch(c[2], c[3], p)

(* The search prompt (handle_search_key, finish_search; what is pasted     *)
(* into it is typed).                                                      *)
Asking(query) ==
    /\ prompt' = Some([prompt[1] EXCEPT !.query = query])
    /\ UNCHANGED <<cursor, port, sought>>
FinishSearch ==
    LET ask == prompt[1]
        query == IF ask.query = "" /\ sought # None THEN sought[1].query ELSE ask.query
        to == IF query = "" THEN None ELSE Search(query, cursor, ask.forward, 1)
    IN IF to = None THEN UNCHANGED <<cursor, port, sought, prompt>>
       ELSE /\ sought' = Some([query |-> query, forward |-> ask.forward])
            /\ prompt' = None
            /\ MoveTo(to[1], None)
SearchKey(key, p) ==
    /\ past' = p
    /\ UNCHANGED <<open, parser, anchor, found, clip>>
    /\ \/ /\ key = "Escape"
          /\ prompt' = None /\ port' = Shown(port, cursor, None)
          /\ UNCHANGED <<cursor, sought>>
       \/ key \in {"Backspace", "C-u"} /\ Asking("")
       \/ key = "Enter" /\ FinishSearch
       \/ key \in Chars /\ prompt[1].query = "" /\ Asking(key)
       \/ key \in Special \ {"Escape", "Backspace", "C-u", "Enter"}
          /\ UNCHANGED <<cursor, port, sought, prompt>>

-----------------------------------------------------------------------------
Counted == [past EXCEPT !.keys = @ + 1]

\* handle_review_key
Press(key) ==
    /\ open /\ past.keys < MaxKeys
    /\ IF prompt # None THEN SearchKey(key, Counted)
       ELSE LET fed == Feed(parser, key)
            IN parser' = fed.parser /\ Perform(fed.command, Counted)
    /\ UNCHANGED doc

\* place_application_cursor_at_review_cursor: a place on the page that is shown
Click(r, c) ==
    /\ open /\ past.keys < MaxKeys
    /\ r <= port.rows /\ c <= port.cols
    /\ MoveTo(<<port.top + r - 1, port.left + c - 1>>, prompt)
    /\ past' = Counted
    /\ UNCHANGED <<doc, open, parser, anchor, found, sought, prompt, clip>>

\* on_resize: the cursor stays where it is on the screen, if it can
Resize(size) ==
    LET new == [port EXCEPT !.rows = size[1], !.cols = size[2]]
        height == PageHeight(new, prompt)
        down == Min({Max({0, cursor[1] - port.top}), height - 1})
        right == Min({Max({0, cursor[2] - port.left}), size[2] - 1})
        top == Min({Max({1, cursor[1] - down}), MaxTop(height)})
        left == Min({Max({1, cursor[2] - right}), MaxLeft(size[2])})
    IN /\ open /\ past.keys < MaxKeys
       /\ <<port.rows, port.cols>> # size
       /\ port' = Shown([new EXCEPT !.top = top, !.left = left], cursor, prompt)
       /\ past' = Counted
       /\ UNCHANGED <<doc, open, parser, cursor, anchor, found, sought, prompt, clip>>

\* new, new_page_up: the document is captured and read from the review cursor
Open(page) ==
    LET at == Clamp(doc.at)
        first == Shown([top |-> Min({doc.top, MaxTop(doc.height)}), left |-> 1,
                        rows |-> doc.height, cols |-> Width], at, None)
        to == IF page THEN Paged(first, at, None, FALSE, 1) ELSE [at |-> at, port |-> first]
    IN /\ ~open
       /\ open' = TRUE
       /\ cursor' = to.at /\ port' = to.port
       /\ parser' = NewParser
       /\ anchor' = None /\ found' = None /\ sought' = None /\ prompt' = None
       /\ UNCHANGED <<doc, clip, past>>

Init ==
    /\ \E d \in Documents : doc = Captured(d)
    /\ open = FALSE
    /\ parser = NewParser
    /\ cursor = <<1, 1>>
    /\ port = [top |-> 1, left |-> 1, rows |-> doc.height, cols |-> Width]
    /\ anchor = None /\ found = None /\ sought = None /\ prompt = None
    /\ \E c \in Clips : clip = [ring |-> <<>>, index |-> 1, queued |-> <<>>] @@ c
    /\ past = [keys |-> 0, copies |-> 0, texts |-> <<>>, asked |-> <<>>, sent |-> <<>>,
               began |-> None, copied |-> None]
Next ==
    \/ \E key \in Keys : Press(key)
    \/ \E r, c \in 1 .. Width : Click(r, c)
    \/ \E size \in Sizes : Resize(size)
    \/ \E page \in BOOLEAN : Open(page)
    \/ Push(<<"p">>) \/ PreviousClipboard \/ NextClipboard
    \/ \E i \in 1 .. Capacity : SelectIndex(i)
    \/ ClearClipboard \/ FlushClipboard
Spec == Init /\ [][Next]_reviewVars

-----------------------------------------------------------------------------
(* The cursor is on a cell of the document that is on the screen, above    *)
(* the prompt if there is one: through moves, pages, searches, clicks and  *)
(* resizes (ensure_cursor_visible, clamp).                                 *)
CursorShown ==
    LET covered == IF prompt # None /\ port.rows > 1 THEN 1 ELSE 0
    IN open => /\ cursor \in Positions
               /\ cursor[1] \in port.top .. port.top + port.rows - covered - 1
               /\ cursor[2] \in port.left .. port.left + port.cols - 1

(* The parser is in visual mode exactly while the view holds the start of  *)
(* a selection, of the same kind, whichever of them ends it (feed_visual,  *)
(* escape, yank).                                                          *)
VisualInStep ==
    open => IF parser.visual = "none" THEN anchor = None
            ELSE anchor # None /\ anchor[1].line = (parser.visual = "line")

(* What was copied of a selection is every character from where it began   *)
(* to where it ended, in order, however the keys in between moved, and     *)
(* nothing else (yank_range).                                              *)
Selected(from, to, line) ==
    LET between(q) == IF line THEN q[1] \in Min({from[1], to[1]}) .. Max({from[1], to[1]})
                      ELSE \/ UpTo(from, q) /\ UpTo(q, to)
                           \/ UpTo(to, q) /\ UpTo(q, from)
        cells == SelectSeq(Order, LAMBDA q : between(q) /\ ~Blank(q))
    IN [i \in DOMAIN cells |-> Cell(cells[i])]
CopiedIsSelected ==
    past.copied # None =>
        LET c == past.copied[1]
        IN SelectSeq(c.text, LAMBDA x : x \notin {" ", "\n"}) = Selected(c.from, c.to, c.line)

(* The ring holds the newest texts, whoever copied them, and the terminal  *)
(* is sent what was copied for it, in order (Clipboard::put,               *)
(* flush_pending_clipboard_writes).                                        *)
RingExact ==
    /\ clip.ring = SubSeq(past.texts, Max({1, Len(past.texts) - Capacity + 1}), Len(past.texts))
    /\ clip.index \in 1 .. Max({1, Len(clip.ring)})
    /\ past.sent \o clip.queued = past.asked

(* Moves can be taken back: b undoes w from the start of a word, N undoes  *)
(* n from a match, and % undoes % within a row (next_word_start,           *)
(* previous_word_start, search, matching_brace).                           *)
MovesReturn ==
    open =>
        /\ \A big \in BOOLEAN :
              /\ Class(cursor, big) # 0 /\ ~Continues(Index(cursor), big)
              /\ NextWordStart(cursor, big) # None
              => PreviousWordStart(NextWordStart(cursor, big)[1], big) = Some(cursor)
        /\ sought # None =>
              LET s == sought[1]
                  to == Search(s.query, cursor, s.forward, 1)
              IN cursor \in ToSet(Matches(s.query)) /\ to # None
                 => Search(s.query, to[1], ~s.forward, 1) = Some(cursor)
        /\ Cell(cursor) \in {"(", ")"} /\ LogicalLine(cursor[1]) = {cursor[1]} =>
              LET to == MatchingBrace(cursor)
              IN to # None /\ LogicalLine(to[1][1]) = {to[1][1]}
                 => MatchingBrace(to[1]) = Some(cursor)

ReviewExact == CursorShown /\ VisualInStep /\ CopiedIsSelected /\ RingExact /\ MovesReturn

-----------------------------------------------------------------------------
(* Statements of the README that the code does not keep.                   *)

(* "% finds and jumps between matching (), [], and {}" (README.md:340): on *)
(* a row after the first of a wrapped line the code begins at the first    *)
(* brace of the line, not at the one under the cursor (matching_brace).    *)
BraceReturns ==
    open /\ Cell(cursor) \in {"(", ")"} =>
        LET to == MatchingBrace(cursor)
        IN to # None => MatchingBrace(to[1]) = Some(cursor)

(* "; and , repeat that find", which is on the logical line                *)
(* (README.md:339): after the cursor was moved, ; goes on from the last    *)
(* match instead (motion_target, RepeatFind).                              *)
RepeatsFromCursor ==
    open /\ found # None =>
        LET to == Finding(<<"repeat", FALSE>>, 1)
        IN to # None => /\ LogicalLine(to[1].at[1]) = LogicalLine(cursor[1])
                        /\ Before(cursor, to[1].at) = found[1].forward

(* "yank_respects_hard_and_soft_line_boundaries" (review/document.rs:899): *)
(* blanks at a soft boundary are dropped and the words on both sides of it *)
(* joined (yank_range).                                                    *)
SoftBoundariesKept ==
    open => \A r \in Rows : doc.wrapped[r] /\ r + 1 \in Rows =>
        YankRange(<<r, 1>>, <<r + 1, LastCol(r + 1)>>, FALSE)
        = Some(CellsOf(r, 1, Width) \o CellsOf(r + 1, 1, LastCol(r + 1)))
=============================================================================
