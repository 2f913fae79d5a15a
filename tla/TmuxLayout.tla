----------------------------- MODULE TmuxLayout -----------------------------
(***************************************************************************)
(* The parser of tmux's window layouts and the borders drawn from it       *)
(* (TmuxLayout and LayoutParser of tmux_panes.rs).                         *)
(*                                                                         *)
(* The text is a tree of rectangles; the parser is run over any such tree, *)
(* one node at a time: a leaf, the opening of a split, the end of a split. *)
(* Checksum and digits are left out.  The floating panes of the suffix are *)
(* the set floats, each with the rectangle the tree gives it.  Panes are   *)
(* numbered as they come; the third may repeat the first.                  *)
(***************************************************************************)
EXTENDS Integers, Sequences, FiniteSets, SequencesExt

CONSTANTS Width, Height,   \* the window
          Starts, Spans,   \* where a rectangle may start, its sizes
          MaxNodes,        \* MAX_LAYOUT_NODES
          MaxDepth         \* MAX_LAYOUT_DEPTH

VARIABLES
  floats,     \* floating_ids
  open,       \* the splits being parsed, outermost first
  nodes,      \* LayoutParser.nodes
  panes, dividers,
  verdict     \* "parsing", "accepted" or the error

layoutVars == <<floats, open, nodes, panes, dividers, verdict>>

Flat == [x |-> 0, y |-> 0, w |-> 0, h |-> 1]
Rects == {r \in [x : Starts, y : Starts, w : Spans, h : Spans] :
            r.x + r.w <= Width /\ r.y + r.h <= Height}
Window == [x |-> 0, y |-> 0, w |-> Width, h |-> Height]

Init ==
  /\ floats \in {{}, {1}}
  /\ open = <<>> /\ nodes = 0 /\ panes = <<>> /\ dividers = {} /\ verdict = "parsing"

\* NodeRect::contains
Inside(r, c) == c.x >= r.x /\ c.y >= r.y /\ c.x + c.w <= r.x + r.w /\ c.y + c.h <= r.y + r.h

\* A rectangle seen along the direction of the split.
Along(kind, r) == IF kind = "LeftRight" THEN [at |-> r.x, len |-> r.w, across |-> r.y, thick |-> r.h]
                  ELSE [at |-> r.y, len |-> r.h, across |-> r.x, thick |-> r.w]

Abutting(a, b) == a.at + a.len + 1 = b.at

\* (Only the ends of the row of children are checked.)
ValidPartitionEnds(kind, rect, tiled) ==
  LET p == Along(kind, rect)
      c == [i \in DOMAIN tiled |-> Along(kind, tiled[i])]
  IN  c[1].at = p.at /\ c[Len(c)].at + c[Len(c)].len = p.at + p.len /\ c[1].thick = p.thick

\* The tiled children fill their parent but for one cell between neighbours.
ValidPartition(kind, rect, tiled) ==
  LET p == Along(kind, rect)
      c == [i \in DOMAIN tiled |-> Along(kind, tiled[i])]
  IN  /\ c[1].at = p.at /\ c[Len(c)].at + c[Len(c)].len = p.at + p.len
      /\ \A i \in DOMAIN c : c[i].across = p.across /\ c[i].thick = p.thick
      /\ \A i \in 1 .. Len(c) - 1 : Abutting(c[i], c[i + 1])

\* The line drawn before the child next.
Divider(kind, rect, next) ==
  IF kind = "LeftRight" THEN [kind |-> kind, x |-> next.x - 1, y |-> rect.y, len |-> rect.h]
  ELSE [kind |-> kind, x |-> rect.x, y |-> next.y - 1, len |-> rect.w]

\* parse returns the error and nothing of the layout.
Fail(error) ==
  /\ verdict' = error /\ open' = <<>> /\ nodes' = 0 /\ panes' = <<>> /\ dividers' = {}
  /\ UNCHANGED floats

\* parse_node: the checks every node passes first.
NodeError(r) ==
  IF Len(open) > MaxDepth \/ nodes = MaxNodes THEN "TooComplex"
  ELSE IF r.w = 0 \/ r.h = 0 THEN "Malformed"
  ELSE IF open # <<>> /\ ~Inside(Last(open).rect, r) THEN "ChildOutsideParent"
  ELSE "none"

\* The node r is complete: its parent goes on with it, or the text ends and
\* the panes must be distinct.
Completed(r, floating, stack) ==
  IF stack = <<>>
  THEN /\ open' = <<>>
       /\ verdict' = IF \E i, j \in DOMAIN panes' : i # j /\ panes'[i].id = panes'[j].id THEN "DuplicatePane"
                     ELSE IF \E p \in floats : \A i \in DOMAIN panes' : panes'[i].id # p THEN "Malformed"
                     ELSE "accepted"
  ELSE /\ open' = [stack EXCEPT ![Len(stack)].children = Append(@, [rect |-> r, floating |-> floating])]
       /\ UNCHANGED verdict

Expects == verdict = "parsing" /\ (nodes = 0 \/ open # <<>>)

Leaf(r, id) ==
  /\ Expects /\ (open = <<>> => r = Window)
  /\ IF NodeError(r) # "none" THEN Fail(NodeError(r))
     ELSE /\ nodes' = nodes + 1 /\ panes' = Append(panes, [id |-> id, rect |-> r])
          /\ Completed(r, id \in floats, open) /\ UNCHANGED <<floats, dividers>>

Open(r, kind) ==
  /\ Expects /\ (open = <<>> => r = Window)
  /\ IF NodeError(r) # "none" THEN Fail(NodeError(r))
     ELSE /\ nodes' = nodes + 1
          /\ open' = Append(open, [rect |-> r, kind |-> kind, children |-> <<>>])
          /\ UNCHANGED <<floats, panes, dividers, verdict>>

\* parse_children after the closing bracket.
Close ==
  /\ verdict = "parsing" /\ open # <<>> /\ Last(open).children # <<>>
  /\ LET s == Last(open)
         tiles == SelectSeq(s.children, LAMBDA c : ~c.floating)
         tiled == [i \in DOMAIN tiles |-> tiles[i].rect]
         hasFloating == Len(tiled) # Len(s.children)
     IN  IF Len(s.children) < 2 THEN Fail("Malformed")
         ELSE IF hasFloating /\ Len(tiled) <= 1
         THEN IF tiled # <<>> /\ tiled[1] # s.rect THEN Fail("InvalidPartition")
              ELSE UNCHANGED <<floats, nodes, panes, dividers>> /\ Completed(s.rect, tiled = <<>>, Front(open))
         ELSE IF ~ValidPartition(s.kind, s.rect, tiled) THEN Fail("InvalidPartition")
         ELSE /\ dividers' = dividers \cup {Divider(s.kind, s.rect, tiled[i]) : i \in 2 .. Len(tiled)}
              /\ UNCHANGED <<floats, nodes, panes>> /\ Completed(s.rect, FALSE, Front(open))

Next ==
  \/ \E r \in Rects \cup {Flat}, id \in {Len(panes) + 1} \cup (IF Len(panes) = 2 THEN {1} ELSE {}) : Leaf(r, id)
  \/ \E r \in Rects, kind \in {"LeftRight", "TopBottom"} : Open(r, kind)
  \/ Close

Spec == Init /\ [][Next]_layoutVars

-----------------------------------------------------------------------------
(* border_snapshot                                                          *)

Cells(r) == (r.x .. r.x + r.w - 1) \X (r.y .. r.y + r.h - 1)
Drawn(d) == IF d.kind = "LeftRight" THEN {d.x} \X (d.y .. d.y + d.len - 1)
            ELSE (d.x .. d.x + d.len - 1) \X {d.y}
Occupied == UNION {Drawn(d) : d \in dividers}

\* The sides on which the border at cell c goes on.
Mask(c) ==
  {s \in {"NORTH", "SOUTH"} : \E d \in dividers : d.kind = "LeftRight" /\ c \in Drawn(d)}
    \cup {s \in {"WEST", "EAST"} : \E d \in dividers : d.kind = "TopBottom" /\ c \in Drawn(d)}
    \cup (IF <<c[1], c[2] - 1>> \in Occupied THEN {"NORTH"} ELSE {})
    \cup (IF <<c[1], c[2] + 1>> \in Occupied THEN {"SOUTH"} ELSE {})
    \cup (IF <<c[1] - 1, c[2]>> \in Occupied THEN {"WEST"} ELSE {})
    \cup (IF <<c[1] + 1, c[2]>> \in Occupied THEN {"EAST"} ELSE {})

-----------------------------------------------------------------------------
Tiled == {i \in DOMAIN panes : panes[i].id \notin floats}

(* An accepted layout covers every cell of the window exactly once, by one  *)
(* tiled pane or by a border, however it is nested and whatever floats over *)
(* it; a border cell that borders on another joins it.  (Exempt: a window   *)
(* with nothing but floating panes.)                                        *)
LayoutTiles ==
  verdict = "accepted" /\ Tiled # {} =>
    /\ \A i, j \in Tiled : i # j => Cells(panes[i].rect) \cap Cells(panes[j].rect) = {}
    /\ \A i \in Tiled : Cells(panes[i].rect) \cap Occupied = {}
    /\ UNION {Cells(panes[i].rect) : i \in Tiled} \cup Occupied = Cells(Window)
    /\ \A c \in Occupied, d \in Occupied :
         d = <<c[1] + 1, c[2]>> => "EAST" \in Mask(c) /\ "WEST" \in Mask(d)

=============================================================================
