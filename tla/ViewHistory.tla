----------------------------- MODULE ViewHistory -----------------------------
(***************************************************************************)
(* The scrollback a listener reviews (view.rs, over the Ghostty adapter of *)
(* crates/lector-ghostty).  Ghostty keeps more rows than Lector shows,     *)
(* drops them a page at a time and renumbers what is left, so the adapter  *)
(* gives every history row a number that never comes back, found again     *)
(* after each batch through one tracked row.  A frame carries the history  *)
(* it shows as a delta against the generation before it; deltas are        *)
(* chained while frames wait, the chain is cut when it grows too long, and *)
(* a frame may be replaced, or flushed after newer ones were captured.     *)
(*                                                                         *)
(* A row is stood for by a number of its own; one visible row is enough    *)
(* for the tracked reference.                                              *)
(***************************************************************************)
EXTENDS Integers, Sequences, SequencesExt

CONSTANTS Capacity,    \* scrollback_capacity, SCROLLBACK_LINES
          MaxDepth,    \* PRESENTED_HISTORY_MAX_DELTA_DEPTH
          MaxRetained, \* PRESENTED_HISTORY_MAX_RETAINED_ROWS
          MaxBatches,  \* bound: batches and resizes of a behaviour
          Scrolls      \* bound: the rows one batch may scroll

VARIABLES
    past,      \* Ghostty's physical history rows, oldest first
    top,       \* the visible row, under which anchor tracks a position
    anchor,    \* primary_history_anchor: [at |-> physical row, row |-> number], or <<>>
    origin,    \* primary_history_origin
    highWater, \* primary_history_high_water
    alternate, \* the alternate screen is active
    geometry,
    snapshot,  \* the engine's [screen, geometry, origin, extent]
    fresh,     \* the next row no batch has used
    liveHist,  \* live_history_revision
    shared,    \* shared_live_history: the chain, oldest delta first
    committed, \* committed_snapshot.scrollback
    shownHist, \* presented_history_revision
    shownBasis,\* presented_history_basis
    revision,  \* live_revision
    shownRev,  \* presented_revision
    waiting,   \* captured frames: the replaceable one
    writing,   \* and the one being written
    truth      \* history: the rows the terminal really had in the last flushed frame
historyVars == <<past, top, anchor, origin, highWater, alternate, geometry, snapshot, fresh,
                 liveHist, shared, committed, shownHist, shownBasis, revision, shownRev,
                 waiting, writing, truth>>
engineVars == <<past, top, anchor, origin, highWater, alternate, geometry, snapshot, fresh>>
viewVars == <<shared, committed, shownHist, shownBasis, shownRev, waiting, writing, truth>>

Least(a, b) == IF a < b THEN a ELSE b
Most(a, b) == IF a > b THEN a ELSE b
End(basis) == basis.origin + basis.extent

Init ==
    /\ past = <<>> /\ top = 0 /\ anchor = <<[at |-> 0, row |-> 0]>> /\ origin = 0
    /\ highWater = 1 /\ alternate = FALSE /\ geometry = 0 /\ fresh = 1
    /\ snapshot = [screen |-> FALSE, geometry |-> 0, origin |-> 0, extent |-> 0]
    /\ liveHist = 0 /\ shared = <<>> /\ committed = <<>> /\ shownHist = 0
    /\ shownBasis = snapshot /\ revision = 0 /\ shownRev = 0
    /\ waiting = <<>> /\ writing = <<>> /\ truth = <<>>

-----------------------------------------------------------------------------
(* The adapter.                                                            *)

\* Lector's window onto the physical history: its newest Capacity rows.
Window(rows) == SubSeq(rows, Len(rows) - Least(Len(rows), Capacity) + 1, Len(rows))
Shown(rows, alt) == IF alt THEN <<>> ELSE Window(rows)

\* refresh_primary_history_lineage: the number of the window's first row, from
\* where the tracked row is now. A row that was lost starts a new interval above
\* every number used so far.
Lineage(rows, at, start, high) ==
    LET window == Len(rows) - Len(Window(rows))
        candidate == at[1].row - (at[1].at - window)
    IN IF at = <<>> THEN start
       ELSE IF at[1].at >= 0 /\ candidate >= start THEN candidate
       ELSE Most(start, high)

\* refresh_snapshot at the end of a batch: nothing is numbered on the alternate
\* screen, where the tracked row waits for the return.
Refresh(rows, at, start, high, alt, geo) ==
    LET first == IF alt THEN start ELSE Lineage(rows, at, start, high)
        extent == Len(Shown(rows, alt))
    IN /\ origin' = first
       /\ highWater' = IF alt THEN high ELSE Most(high, first + extent + 1)
       /\ anchor' = IF alt THEN at ELSE <<[at |-> Len(rows), row |-> first + extent]>>
       /\ snapshot' = [screen |-> alt, geometry |-> geo, origin |-> first, extent |-> extent]

\* Ghostty drops whole pages of the rows beyond twice the capacity.
Pruned(rows) == IF Len(rows) > 2 * Capacity THEN Window(rows) ELSE rows

Batch ==
    /\ revision < MaxBatches
    /\ revision' = revision + 1
    /\ UNCHANGED viewVars

\* advance, when a batch scrolls n rows, after erasing the history or not: the
\* tracked row goes into the history with the rest.
Scroll(n, erases) ==
    /\ ~alternate /\ (n > 0 \/ erases)
    /\ LET kept == IF erases THEN <<>> ELSE past
           all == kept \o <<top>> \o [i \in 1..(n - 1) |-> fresh + i - 1]
           rows == IF n = 0 THEN kept ELSE all
           dropped == Len(past) - Len(kept) + Len(rows) - Len(Pruned(rows))
           moved == <<[anchor[1] EXCEPT !.at = @ - dropped]>>
       IN /\ past' = Pruned(rows)
          /\ Refresh(Pruned(rows), moved, origin, highWater, FALSE, geometry)
    /\ top' = IF n = 0 THEN top ELSE fresh + n - 1
    /\ fresh' = fresh + n
    /\ liveHist' = liveHist + 1
    /\ Batch
    /\ UNCHANGED <<alternate, geometry>>

\* A full reset inside the stream: the rows and the tracked one are gone.
Reset ==
    /\ past' = <<>> /\ top' = fresh /\ fresh' = fresh + 1 /\ alternate' = FALSE
    /\ Refresh(<<>>, [i \in DOMAIN anchor |-> [anchor[i] EXCEPT !.at = -1]], origin, highWater, FALSE, geometry)
    /\ (past # <<>> \/ alternate)
    /\ liveHist' = liveHist + 1
    /\ Batch
    /\ UNCHANGED geometry

\* A batch that switches the screen.
Switch ==
    /\ alternate' = ~alternate
    /\ Refresh(past, anchor, origin, highWater, ~alternate, geometry)
    /\ liveHist' = liveHist + 1
    /\ Batch
    /\ UNCHANGED <<past, top, geometry, fresh>>

\* set_size_with_geometry, resize_with_geometry: reflow makes other rows of the
\* history, numbered in an interval of their own; the view forgets its chain.
Resize(geo) ==
    /\ geo # geometry /\ revision < MaxBatches
    /\ geometry' = geo
    /\ past' = [i \in DOMAIN past |-> fresh + i]
    /\ top' = fresh /\ fresh' = fresh + Len(past) + 1
    /\ Refresh(past', <<>>, Most(highWater, End(snapshot) + 1), highWater, alternate, geo)
    /\ liveHist' = liveHist + 1 /\ revision' = revision + 1
    /\ shared' = <<>>
    /\ UNCHANGED <<alternate, committed, shownHist, shownBasis, shownRev, waiting, writing, truth>>

-----------------------------------------------------------------------------
(* Deltas.                                                                 *)

NoState == [rev |-> -1, basis |-> shownBasis]
StateOf(delta) == [rev |-> delta.rev, basis |-> delta.basis]

\* apply_history_transition.
Transition(rows, base, delta) ==
    IF delta.full THEN delta.rows
    ELSE SubSeq(rows, delta.basis.origin - base.origin + 1, delta.from - base.origin) \o delta.rows

\* validate_history_delta_chain and apply_history_delta_chain: the state and rows
\* that deltas 1..i give on top of the presented ones, or NoState.
Chain(deltas, state, rows) ==
    LET after[i \in 0..Len(deltas)] ==
            LET none == [state |-> NoState, rows |-> <<>>]
                start == [state |-> state, rows |-> rows]
                d == deltas[i]
                below == IF d.base = state.rev THEN start ELSE after[i - 1]
            IN IF i = 0 THEN none
               ELSE IF d.rev <= state.rev THEN start
               ELSE IF \/ d.rev <= d.base \/ d.from < d.basis.origin \/ d.from > End(d.basis)
                       \/ Len(d.rows) # End(d.basis) - d.from THEN none
               ELSE IF d.full THEN [state |-> StateOf(d), rows |-> d.rows]
               ELSE IF /\ below.state.rev = d.base /\ below.state # NoState
                       /\ below.state.basis.screen = d.basis.screen
                       /\ below.state.basis.geometry = d.basis.geometry
                       /\ below.state.basis.origin <= d.basis.origin
                       /\ d.basis.origin <= End(below.state.basis)
                       /\ d.from = End(below.state.basis)
                       /\ End(d.basis) >= End(below.state.basis)
                    THEN [state |-> StateOf(d), rows |-> Transition(below.rows, below.state.basis, d)]
                    ELSE none
    IN after[Len(deltas)]

Presented == [rev |-> shownHist, basis |-> shownBasis]
Base == IF shared = <<>> THEN Presented ELSE StateOf(Last(shared))

AppendCompatible ==
    /\ snapshot.extent # 0
    /\ Base.basis.screen = snapshot.screen /\ Base.basis.geometry = snapshot.geometry
    /\ Base.basis.origin <= snapshot.origin /\ snapshot.origin <= End(Base.basis)
    /\ End(snapshot) >= End(Base.basis)

\* The rows of the window from the one numbered n.
RowsFrom(n) == LET w == Shown(past, alternate)
               IN SubSeq(w, n - snapshot.origin + 1, Len(w))

\* compact_history_delta_root: what the waiting chain and the new suffix amount to.
Compacted ==
    LET whole == Chain(shared, Presented, committed)
        delta == [basis |-> snapshot, from |-> End(Base.basis), full |-> FALSE,
                  rows |-> RowsFrom(End(Base.basis))]
    IN IF Len(committed) # shownBasis.extent \/ whole.state # Base THEN RowsFrom(snapshot.origin)
       ELSE Transition(whole.rows, Base.basis, delta)

Grown == FoldLeft(LAMBDA n, d : n + Len(d.rows), 0, shared) + End(snapshot) - End(Base.basis)

\* presentation_history_if_changed: the chain of the frame being captured.
HistoryOfFrame ==
    IF liveHist = shownHist THEN <<>>
    ELSE IF shared # <<>> /\ Last(shared).rev = liveHist THEN shared
    ELSE LET compact == /\ AppendCompatible /\ shared # <<>>
                        /\ (Len(shared) >= MaxDepth \/ Grown > MaxRetained)
             full == compact \/ ~AppendCompatible
             delta == [rev |-> liveHist, base |-> IF full THEN shownHist ELSE Base.rev,
                       basis |-> snapshot, full |-> full,
                       from |-> IF full THEN snapshot.origin ELSE End(Base.basis),
                       rows |-> IF compact THEN Compacted
                                ELSE IF full THEN RowsFrom(snapshot.origin)
                                ELSE RowsFrom(End(Base.basis))]
         IN IF full THEN <<delta>> ELSE Append(shared, delta)

-----------------------------------------------------------------------------
\* capture_live_presentation_frame for the scene being enqueued.
CaptureLive ==
    /\ waiting' = <<[rev |-> revision, hist |-> liveHist, basis |-> snapshot,
                     chain |-> HistoryOfFrame, truth |-> Shown(past, alternate)]>>
    /\ shared' = IF HistoryOfFrame = <<>> THEN shared ELSE HistoryOfFrame
    /\ UNCHANGED <<engineVars, liveHist, committed, shownHist, shownBasis, revision, shownRev,
                   writing, truth>>

\* capture_committed_presentation_frame under an overlay.
CaptureCommitted ==
    /\ waiting' = <<[rev |-> shownRev, hist |-> shownHist, basis |-> shownBasis,
                     chain |-> <<>>, truth |-> truth]>>
    /\ UNCHANGED <<engineVars, liveHist, shared, committed, shownHist, shownBasis, revision,
                   shownRev, writing, truth>>

StartWriting ==
    /\ waiting # <<>> /\ writing = <<>>
    /\ writing' = waiting /\ waiting' = <<>>
    /\ UNCHANGED <<engineVars, liveHist, shared, committed, shownHist, shownBasis, revision,
                   shownRev, truth>>

\* can_apply_presented_frame.
CanApply(f) ==
    /\ f.rev <= revision /\ f.rev >= shownRev
    /\ f.hist >= shownHist
    /\ f.hist # shownHist => f.chain # <<>> /\ Last(f.chain).rev = f.hist

\* install_presented_frame.
Install(f) ==
    LET result == IF f.hist = shownHist THEN [state |-> Presented, rows |-> committed]
                  ELSE Chain(f.chain, Presented, committed)
    IN /\ IF result.state = [rev |-> f.hist, basis |-> f.basis]
          THEN committed' = result.rows /\ shownHist' = f.hist /\ shownBasis' = f.basis
               /\ shownRev' = f.rev
          ELSE UNCHANGED <<committed, shownHist, shownBasis, shownRev>>
       /\ shared' = IF shared # <<>> /\ Last(shared).rev <= shownHist' THEN <<>> ELSE shared

\* The frame reaches the terminal: whatever the view does with it, its rows are
\* now what the user sees. A frame older than that is an obsolete duplicate.
Flush ==
    /\ writing # <<>>
    /\ writing' = <<>>
    /\ truth' = IF writing[1].rev < shownRev THEN truth ELSE writing[1].truth
    /\ IF CanApply(writing[1]) THEN Install(writing[1])
       ELSE UNCHANGED <<shared, committed, shownHist, shownBasis, shownRev>>
    /\ UNCHANGED <<engineVars, liveHist, revision, waiting>>

Next ==
    \/ \E n \in Scrolls, e \in BOOLEAN : Scroll(n, e)
    \/ Reset \/ Switch
    \/ \E g \in {0, 1} : Resize(g)
    \/ CaptureLive \/ CaptureCommitted \/ StartWriting \/ Flush

Spec == Init /\ [][Next]_historyVars

\* The history under review is, row for row, the one of the frame on the physical
\* terminal: no delta is applied to the wrong generation, no row is numbered twice,
\* and no frame is turned away.
HistoryExact == committed = truth
==============================================================================
