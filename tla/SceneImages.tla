---------------------------- MODULE SceneImages -----------------------------
(***************************************************************************)
(* Pictures of the scene (presentation.rs: PaneMediaStore, the clipping of *)
(* placements, compose_image_records, the Kitty part of the full           *)
(* renderer).  A pane keeps the pictures its application put up; the scene *)
(* collects them from every surface, cuts away what higher overlays cover, *)
(* and gives each picture and each fragment a number of the outer          *)
(* terminal, from a hash with linear probing.  The terminal keeps pixels   *)
(* it was sent, so a frame sends only what the last one did not, and must  *)
(* still leave every fragment showing its own picture.                     *)
(*                                                                         *)
(* A span is [at, len].  Pixels of a picture are a model value; formats,   *)
(* offsets in a cell, rendered sizes and virtual placements are left out.  *)
(***************************************************************************)
EXTENDS Integers, Sequences, SequencesExt, FiniteSetsExt

CONSTANTS Rows, Cols,
          Pictures,    \* what an application may have put up: sequences of placements
          Bytes(_),    \* the size of some pixels
          ImageSeed(_), PlaceSeed(_),  \* the hash of a name
          Ids,         \* bound: the terminal's numbers, 1 .. Ids
          MaxImage, MaxPane, MaxScene, \* the limits of MediaLimits
          MaxPlaced,
          Area(_),     \* the part of the screen a surface takes: [y, x] spans
          MaxChanges,  \* bound: changes of the applications
          MaxCommands  \* bound: commands a failed write may have got out

VARIABLES engine,      \* owner -> the placements its terminal engine holds
          store,       \* owner -> the media store: [uploads, placements]
          popup,       \* the overlay is up
          front,       \* what the renderer takes the terminal to hold
          outer,       \* what the terminal holds: [uploads, placed]
          trusted,     \* the last frame is known to have been written whole
          drawn,       \* history: the pictures and the overlay of that frame
          changes      \* history: how often an application changed something

imageVars == <<engine, store, popup, front, outer, trusted, drawn, changes>>

\* Surfaces from the bottom: the pane, then the overlay.
Pane == 1
Over == 2
Owners == {Pane, Over}
Whole == [y |-> [at |-> 0, len |-> Rows], x |-> [at |-> 0, len |-> Cols]]
Nothing == [uploads |-> {}, placed |-> {}]

-----------------------------------------------------------------------------
(* Rectangles.                                                             *)

End(s) == s.at + s.len
Meet(s, t) == LET a == Max({s.at, t.at})
              IN [at |-> a, len |-> Min({End(s), End(t)}) - a]
Covers(r) == {c \in (0 .. Rows - 1) \X (0 .. Cols - 1) :
                /\ r.y.at <= c[1] /\ c[1] < End(r.y)
                /\ r.x.at <= c[2] /\ c[2] < End(r.x)}

\* clip_image_placement, one axis: the pixels left of a span cut to another.
CutPixels(pixels, was, is) ==
    [at |-> pixels.at + (pixels.len * (is.at - was.at)) \div was.len,
     len |-> Max({(pixels.len * is.len) \div was.len, 1})]
Clip(p, r) ==
    LET cut(y, x) ==
            IF y.len <= 0 \/ x.len <= 0 THEN <<>>
            ELSE <<[p EXCEPT !.y = y, !.x = x, !.sy = CutPixels(@, p.y, y), !.sx = CutPixels(@, p.x, x)]>>
    IN cut(Meet(p.y, r.y), Meet(p.x, r.x))

\* subtract_image_placement: above, below, left and right of the occluder.
Around(p, r) ==
    LET from(a, b) == [at |-> a, len |-> b - a]
        four(y, x) ==
            <<[y |-> from(p.y.at, y.at), x |-> p.x], [y |-> from(End(y), End(p.y)), x |-> p.x],
              [y |-> y, x |-> from(p.x.at, x.at)], [y |-> y, x |-> from(End(x), End(p.x))]>>
    IN SelectSeq(four(Meet(p.y, r.y), Meet(p.x, r.x)), LAMBDA q : q.y.len > 0 /\ q.x.len > 0)
Subtract(p, r) ==
    LET all(parts) == FlattenSeq([i \in DOMAIN parts |-> Clip(p, parts[i])])
    IN IF Clip(p, r) = <<>> THEN <<p>> ELSE all(Around(p, r))

-----------------------------------------------------------------------------
(* The store of a pane.                                                    *)

\* synchronize: everything is checked before anything is kept.
UploadsOf(ps) == {[image |-> ps[i].image, pixels |-> ps[i].pixels] : i \in DOMAIN ps}
Total(us) == FoldSet(LAMBDA u, n : n + Bytes(u.pixels), 0, us)
Consistent(ps) == \A i, j \in DOMAIN ps : ps[i].image = ps[j].image => ps[i].pixels = ps[j].pixels
Accepts(ps) ==
    /\ Len(ps) <= MaxPlaced
    /\ \A u \in UploadsOf(ps) : Bytes(u.pixels) <= MaxImage
    /\ Consistent(ps)
    /\ Total(UploadsOf(ps)) <= MaxPane
Synchronize(s, ps) ==
    IF Accepts(ps) THEN [uploads |-> UploadsOf(ps), placements |-> ps] ELSE s

\* append_to_scene: moved to the surface's place and cut to it, from the
\* bottom surface up, until one does not fit.
Moved(p, r) == Clip([p EXCEPT !.y.at = @ + r.y.at, !.x.at = @ + r.x.at], r)
Surfaces == IF popup THEN <<Pane, Over>> ELSE <<Pane>>
Collect(scene, o) ==
    LET owned(here) == [i \in DOMAIN here |-> [owner |-> o, p |-> here[i]]]
        images(ps) == owned(FlattenSeq([i \in DOMAIN ps |-> Moved(ps[i], Area(o))]))
        add(s, bytes) ==
            IF ~Accepts(engine[o]) \/ bytes > MaxScene
            THEN [scene EXCEPT !.ok = FALSE, !.store[o] = s]
            ELSE [ok |-> TRUE, bytes |-> bytes, store |-> [scene.store EXCEPT ![o] = s],
                  uploads |-> scene.uploads \cup
                      {[owner |-> o, image |-> u.image, pixels |-> u.pixels] : u \in s.uploads},
                  images |-> scene.images \o images(s.placements)]
        with(s) == add(s, scene.bytes + Total(s.uploads))
    IN IF ~scene.ok THEN scene ELSE with(Synchronize(store[o], engine[o]))
Scene == FoldLeft(Collect, [ok |-> TRUE, bytes |-> 0, store |-> store, uploads |-> {},
                            images |-> <<>>], Surfaces)

-----------------------------------------------------------------------------
(* The composed frame.                                                     *)

\* allocate_outer_id: the first free number from the seed on, round the end.
Probe(seed, used) ==
    LET at(k) == ((seed - 1 + k) % Ids) + 1
    IN at(Min({k \in 0 .. Ids - 1 : at(k) \notin used}))

Key(u) == <<u.owner, u.image, u.pixels>>
Before(a, b) == \/ a[1] < b[1]
                \/ a[1] = b[1] /\ (a[2] < b[2] \/ (a[2] = b[2] /\ a[3] < b[3]))
Numbered(seeds) ==
    FoldLeft(LAMBDA ids, s : Append(ids, Probe(s, ToSet(ids))), <<>>, seeds)
\* outer_image_ids: [key -> number]
ImageIds(scene) ==
    LET pairs(keys, ids) == [k \in ToSet(keys) |-> ids[CHOOSE i \in DOMAIN keys : keys[i] = k]]
        number(keys) == pairs(keys, Numbered([i \in DOMAIN keys |-> ImageSeed(keys[i])]))
    IN number(SetToSortSeq({Key(u) : u \in scene.uploads}, Before))

\* compose_image_records: clipped to the scene, less the overlays above.
Fragments(o, p) ==
    LET uncovered(seen) == IF o = Pane /\ popup
                           THEN FlattenSeq([i \in DOMAIN seen |-> Subtract(seen[i], Area(Over))])
                           ELSE seen
    IN uncovered(IF p.visible THEN Clip(p, Whole) ELSE <<>>)
Compose(scene) ==
    LET named(im, fs) == [j \in DOMAIN fs |-> [owner |-> im.owner, place |-> im.p.place, f |-> fs[j]]]
        of(im) == named(im, Fragments(im.owner, im.p))
        frame(ids, all, places) ==
            [uploads |-> {[id |-> ids[Key(u)], pixels |-> u.pixels] : u \in scene.uploads},
             placed |-> {[id |-> ids[<<all[i].owner, all[i].f.image, all[i].f.pixels>>], place |-> places[i],
                          y |-> all[i].f.y, x |-> all[i].f.x, sy |-> all[i].f.sy, sx |-> all[i].f.sx]
                           : i \in DOMAIN all}]
        placed(all) == frame(ImageIds(scene), all, Numbered([i \in DOMAIN all |-> PlaceSeed(all[i])]))
    IN placed(FlattenSeq([i \in DOMAIN scene.images |-> of(scene.images[i])]))

-----------------------------------------------------------------------------
(* The terminal, and what is written to it.                                *)

Obey(t, cmd) ==
    CASE cmd.do = "clear" -> Nothing
      [] cmd.do = "unplace" -> [t EXCEPT !.placed = {}]
      [] cmd.do = "free" -> [uploads |-> {u \in t.uploads : u.id # cmd.id},
                             placed |-> {p \in t.placed : p.id # cmd.id}]
      [] cmd.do = "upload" -> [uploads |-> {u \in t.uploads : u.id # cmd.u.id} \cup {cmd.u},
                               placed |-> {p \in t.placed : p.id # cmd.u.id}]
      [] cmd.do = "place" -> [t EXCEPT !.placed =
            IF \E u \in t.uploads : u.id = cmd.p.id
            THEN {q \in @ : q.id # cmd.p.id \/ q.place # cmd.p.place} \cup {cmd.p} ELSE @]
Run(t, cmds) == FoldLeft(Obey, t, cmds)

\* encode and write_kitty_images: retained = what the terminal is known to hold.
Holds(uploads, u) == u \in uploads
Each(S, F(_)) == LET s == SetToSeq(S) IN [i \in DOMAIN s |-> F(s[i])]
Encode(frame, known, retained) ==
    (IF known THEN <<[do |-> "unplace"]>>
                   \o Each({u \in retained : ~Holds(frame.uploads, u)}, LAMBDA u : [do |-> "free", id |-> u.id])
     ELSE <<[do |-> "clear"]>>)
    \o Each({u \in frame.uploads : ~(known /\ Holds(retained, u))}, LAMBDA u : [do |-> "upload", u |-> u])
    \o Each(frame.placed, LAMBDA p : [do |-> "place", p |-> p])

\* render, until the frame is written or the write fails after some commands.
Write(frame, cmds, n) ==
    /\ outer' = Run(outer, SubSeq(cmds, 1, n)) /\ trusted' = (n = Len(cmds))
    /\ front' = IF n = Len(cmds) THEN frame ELSE front
    /\ drawn' = [panes |-> engine, popup |-> popup]
Render(failed) == \E scene \in {Scene} :
    /\ store' = scene.store
    /\ \/ /\ scene.ok
          /\ \E frame \in {Compose(scene)} :
             \E cmds \in {IF trusted /\ frame = front THEN <<>> ELSE Encode(frame, trusted, front.uploads)} :
                Write(frame, cmds, Min({failed, Len(cmds)}))
       \/ ~scene.ok /\ UNCHANGED <<outer, trusted, front, drawn>>
    /\ UNCHANGED <<engine, popup, changes>>

\* The application of a pane, or of the overlay, puts up other pictures.
Change(o, ps) ==
    /\ changes < MaxChanges /\ ps # engine[o]
    /\ engine' = [engine EXCEPT ![o] = ps] /\ changes' = changes + 1
    /\ UNCHANGED <<store, popup, front, outer, trusted, drawn>>
Toggle ==
    /\ changes < MaxChanges
    /\ popup' = ~popup /\ changes' = changes + 1
    /\ UNCHANGED <<engine, store, front, outer, trusted, drawn>>

Init ==
    /\ engine = [o \in Owners |-> <<>>] /\ popup = FALSE
    /\ store = [o \in Owners |-> [uploads |-> {}, placements |-> <<>>]]
    /\ front = Nothing /\ trusted = FALSE /\ changes = 0
    /\ outer \in {Nothing, [uploads |-> {[id |-> 1, pixels |-> 0]}, placed |-> {}]}
    /\ drawn = [panes |-> engine, popup |-> FALSE]

Next ==
    \/ \E failed \in 0 .. MaxCommands : Render(failed)
    \/ \E o \in Owners, ps \in Pictures : Change(o, ps)
    \/ Toggle

Spec == Init /\ [][Next]_imageVars

-----------------------------------------------------------------------------
(* Properties.                                                             *)

\* What a picture shows: the cells of it that are on the screen and uncovered.
Seen(o, p) == IF ~p.visible THEN {} ELSE
    (Covers([p EXCEPT !.y.at = @ + Area(o).y.at, !.x.at = @ + Area(o).x.at]) \cap Covers(Area(o)))
        \ (IF o = Pane /\ drawn.popup THEN Covers(Area(Over)) ELSE {})
Shows(q) == (CHOOSE u \in outer.uploads : u.id = q.id).pixels

\* After a frame was written whole the terminal holds the pixels of that
\* frame's pictures and no others, whichever numbers they were given and
\* whatever an earlier frame or a failed write left behind; every uncovered
\* cell of a picture shows it, a covered one does not, and what a fragment
\* takes of a picture lies inside it.
PicturesExact == trusted =>
    /\ front = outer
    /\ \A q \in outer.placed : \E u \in outer.uploads : u.id = q.id
    /\ \A cell \in Covers(Whole) :
          LET owners == IF drawn.popup THEN Owners ELSE {Pane}
              want == {<<o, i>> \in Owners \X (1 .. MaxPlaced) :
                          /\ o \in owners /\ i \in DOMAIN drawn.panes[o]
                          /\ cell \in Seen(o, drawn.panes[o][i])}
          IN /\ Cardinality(want) = Cardinality({q \in outer.placed : cell \in Covers(q)})
             /\ {drawn.panes[w[1]][w[2]].pixels : w \in want}
                  = {Shows(q) : q \in {r \in outer.placed : cell \in Covers(r)}}
    /\ \A q \in outer.placed :
          \E o \in Owners : \E i \in DOMAIN drawn.panes[o] :
             LET p == drawn.panes[o][i]
             IN /\ p.pixels = Shows(q)
                /\ p.sx.at <= q.sx.at /\ End(q.sx) <= End(p.sx)
                /\ p.sy.at <= q.sy.at /\ End(q.sy) <= End(p.sy)
=============================================================================
