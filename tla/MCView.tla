------------------------------- MODULE MCView -------------------------------
(* Small instances of the way from a program's bytes to the glass: the      *)
(* stream of an engine's batches, the evidence and the history a view keeps *)
(* of them, and the cells and pictures the scene renderer writes.  A        *)
(* behaviour picks one of them and runs it alone: the others reach it as    *)
(* the inputs its module enumerates.  How the renderer's frames reach the   *)
(* screen is in MCScenePresentation.                                        *)
EXTENDS SceneRenderer

VARIABLES
    part,        \* the component of this behaviour
    \* TerminalStream
    grid, seen, obs, before, opener, earlier, dirty, last, report, committed, frozen, batch,
    truth, trusted, missed, events,
    \* ViewEvidence
    live, presented, finalized, epoch, floor, shownEpoch, shownRev, exact, diffOnly, prints,
    journal, gapStart, lostTo, queued, writing, kinds,
    \* ViewHistory
    past, top, anchor, origin, highWater, alternate, geometry, snapshot, fresh, liveHist,
    shared, committedHist, shownHist, shownBasis, revision, histRev, histQueued, histWriting,
    histTruth,
    \* SceneImages
    engine, store, popup, front, outer, whole, drawn, changes

\* Rows of three cells; "W" is a wide character, "-" its second half.
TextRow(a, b, c, wraps) == [cells |-> <<a, b, c>>, wrapped |-> wraps]
WideRows == {TextRow("W", "-", "a", FALSE), TextRow("b", "W", "-", TRUE)}

\* A picture im with pixels px, its placement pl, on rows y and columns x of
\* its pane, taken from the first sw columns of its two rows of pixels.
Picture(im, px, pl, y, h, x, w, sw) ==
    [image |-> im, pixels |-> px, place |-> pl, y |-> [at |-> y, len |-> h],
     x |-> [at |-> x, len |-> w], sy |-> [at |-> 0, len |-> 2], sx |-> [at |-> 0, len |-> sw],
     visible |-> TRUE]
\* Nothing; one picture; its pixels replaced; moved out on the left, beside
\* another; hidden, beside a new one.
Pictures ==
    {<<>>,
     <<Picture(1, 1, 1, 0, 2, 0, 3, 2)>>,
     <<Picture(1, 2, 1, 0, 2, 0, 3, 2)>>,
     <<Picture(1, 2, 1, 1, 2, -1, 3, 5), Picture(2, 1, 1, 0, 1, 2, 1, 1)>>,
     <<[Picture(1, 1, 1, 0, 1, 0, 1, 2) EXCEPT !.visible = FALSE], Picture(2, 3, 1, 0, 1, 0, 2, 1)>>}
\* Hashes that collide.
Bytes(px) == px
ImageSeed(k) == ((k[1] + k[2] + k[3]) % 2) + 1
PlaceSeed(k) == k.place
\* The pane leaves the first column free; the popup covers a row.
Area(o) == IF o = 1 THEN [y |-> [at |-> 0, len |-> 2], x |-> [at |-> 1, len |-> 3]]
           ELSE [y |-> [at |-> 0, len |-> 1], x |-> [at |-> 0, len |-> 3]]

Stream == INSTANCE TerminalStream WITH Rows <- 2, Cols <- 2, Capacity <- 1, MaxEvents <- 4
Evidence == INSTANCE ViewEvidence WITH
    MaxEntries <- 1, MaxRevision <- 3, MaxEpochs <- 1
History == INSTANCE ViewHistory WITH
    Capacity <- 2, MaxDepth <- 2, MaxRetained <- 3, MaxBatches <- 3, Scrolls <- {0, 1, 2},
    committed <- committedHist, shownRev <- histRev, waiting <- histQueued,
    writing <- histWriting, truth <- histTruth
Images == INSTANCE SceneImages WITH
    Rows <- 2, Cols <- 4, Ids <- 9, MaxImage <- 2, MaxPane <- 3, MaxScene <- 4,
    MaxPlaced <- 2, MaxChanges <- 3, MaxCommands <- 8, trusted <- whole

streamVars ==
    <<grid, seen, obs, before, opener, earlier, dirty, last, report, committed, frozen, batch,
      truth, trusted, missed, events>>
evidenceVars ==
    <<live, presented, finalized, epoch, floor, shownEpoch, shownRev, exact, diffOnly, prints,
      journal, gapStart, lostTo, queued, writing, kinds>>
historyVars ==
    <<past, top, anchor, origin, highWater, alternate, geometry, snapshot, fresh, liveHist,
      shared, committedHist, shownHist, shownBasis, revision, histRev, histQueued, histWriting,
      histTruth>>
cellVars == <<screen, shown, physical, hints, confirmed, sticky, draws>>
imageVars == <<engine, store, popup, front, outer, whole, drawn, changes>>
viewVars ==
    <<part, streamVars, evidenceVars, historyVars, cellVars, imageVars>>

ViewInit ==
    /\ part \in {"stream", "evidence", "history", "cells", "images"}
    /\ Init /\ Stream!Init /\ Evidence!Init /\ History!Init /\ Images!Init
    /\ part = "cells" => screen[1] # screen[2]
    /\ part # "cells" => ~sticky /\ \A r \in DOMAIN screen : screen[r].wrapped
    /\ part # "images" => outer.uploads = {}

InStream ==
    /\ part = "stream" /\ Stream!Next
    /\ UNCHANGED <<part, evidenceVars, historyVars, cellVars, imageVars>>
InEvidence ==
    /\ part = "evidence" /\ Evidence!Next
    /\ UNCHANGED <<part, streamVars, historyVars, cellVars, imageVars>>
InHistory ==
    /\ part = "history" /\ History!Next
    /\ UNCHANGED <<part, streamVars, evidenceVars, cellVars, imageVars>>
InCells ==
    /\ part = "cells" /\ Next
    /\ UNCHANGED <<part, streamVars, evidenceVars, historyVars, imageVars>>
InImages ==
    /\ part = "images" /\ Images!Next
    /\ UNCHANGED <<part, streamVars, evidenceVars, historyVars, cellVars>>

ViewNext == InStream \/ InEvidence \/ InHistory \/ InCells \/ InImages
ViewSpec == ViewInit /\ [][ViewNext]_viewVars

-----------------------------------------------------------------------------
(* Hidden drawing is never read, whatever chunks a transaction arrives in   *)
(* (lector-ghostty, process; view.rs, commit).                              *)
CommittedIsShown == Stream!CommittedIsShown

(* Only a batch whose last bytes were a commit, a restored cursor or a      *)
(* prompt's input is said to end there (lector-ghostty, finish_report).     *)
BatchEndsExactly == Stream!BatchEndsExactly

(* What auto-read is given is the whole record of the batches not yet heard *)
(* (view.rs, the accessibility journal), and the history under review is    *)
(* the one of the frame on the terminal (lector-ghostty, history deltas).   *)
RecordExact == Evidence!EvidenceExact /\ History!HistoryExact

(* The terminal shows the cells of the frame, wide ones and repaired rows   *)
(* included, and the uncovered cells of its pictures and of no others       *)
(* (presentation.rs, the cell renderer and the graphics).                   *)
ScreenExact == RenderExact /\ Images!PicturesExact
=============================================================================
