--------------------------- MODULE TerminalStream ---------------------------
(***************************************************************************)
(* What one batch of program output is said to have done                   *)
(* (crates/lector-ghostty: StreamObserver and Terminal::advance) and what  *)
(* a view that no scheduler presents then shows (view.rs).  The adapter    *)
(* feeds the same bytes to Ghostty, which owns the grid, and to an         *)
(* observer of its own that follows the cursor, notes prompt marks and     *)
(* transactions and guesses what scrolled.  Batches end anywhere, inside   *)
(* an escape sequence too, and Ghostty's state is read back only at the    *)
(* sequences that matter and at the end.                                   *)
(*                                                                         *)
(* The visible rows are stood for by ink, a number of their own for every  *)
(* change; the history by the numbers of its oldest row and of the row     *)
(* that comes next.                                                        *)
(***************************************************************************)
EXTENDS Integers, Sequences

CONSTANTS Rows, Cols,  \* the size of the grid
          Capacity,    \* scrollback_capacity
          MaxEvents    \* bound: sequences of a behaviour

VARIABLES
    grid,    \* Ghostty: [row, col, wrap, region, alt, sync, visible, ink, lo, hi]
    seen,    \* Terminal.snapshot: [alt, sync, visible, ink, origin, extent]
    obs,     \* StreamObserver: [row, col, region, alt, prompt, structural, changed]
    before,  \* seen when the batch began, and its latest checkpoint's origin, extent
    opener,  \* synchronized_output_open_snapshot, <<>> or one
    earlier, \* history_changed_before_latest_checkpoint
    dirty,   \* history_changed_since_open_checkpoint
    last,    \* the boundary the batch's last byte completed: "close", "restore", "other"
    report,  \* the last batch's [closed, restored, prompt, structural, history]
    committed, \* View.committed_snapshot: [ink, alt, origin, extent, held]
    frozen,  \* accessibility_read_state: <<>> or <<history_changed>>
    batch,   \* history: the sequences of the batch
    truth,   \* history: [ink, alt, lo, hi] of what the view should show
    trusted, \* history: no opener lacked a history that the view did not hold
    missed,  \* history: a transaction opened after a reset that had not been read back
    events
streamVars == <<grid, seen, obs, before, opener, earlier, dirty, last, report, committed, frozen,
                batch, truth, trusted, missed, events>>

\* The oldest history row of Lector's window, and the rows of it.
First(g) == IF g.hi - g.lo > Capacity THEN g.hi - Capacity ELSE g.lo
\* refresh_snapshot: the alternate screen has no history, and keeps the number.
Read(s, g) == [alt |-> g.alt, sync |-> g.sync, visible |-> g.visible, ink |-> g.ink,
               origin |-> IF g.alt THEN s.origin ELSE First(g),
               extent |-> IF g.alt THEN 0 ELSE g.hi - First(g)]
Checkpoint(s) == [origin |-> s.origin, extent |-> s.extent]
Held(s) == <<s.origin, s.origin + s.extent>>
None == <<0, 0>>

Init ==
    /\ grid = [row |-> 0, col |-> 0, wrap |-> FALSE, region |-> FALSE, alt |-> FALSE,
               sync |-> FALSE, visible |-> TRUE, ink |-> 0, lo |-> 0, hi |-> 0]
    /\ seen = Read([origin |-> 0], grid)
    /\ obs = [row |-> 0, col |-> 0, region |-> FALSE, alt |-> FALSE, prompt |-> FALSE,
              structural |-> FALSE, changed |-> FALSE]
    /\ before = [s |-> seen, at |-> Checkpoint(seen)]
    /\ opener = <<>> /\ earlier = FALSE /\ dirty = FALSE /\ last = "other"
    /\ report = [closed |-> FALSE, restored |-> FALSE, prompt |-> FALSE, structural |-> FALSE,
                 history |-> FALSE]
    /\ committed = [ink |-> 0, alt |-> FALSE, origin |-> 0, extent |-> 0, held |-> None]
    /\ frozen = <<>> /\ batch = <<>> /\ trusted = TRUE /\ missed = FALSE /\ events = 0
    /\ truth = [ink |-> 0, alt |-> FALSE, held |-> None]

-----------------------------------------------------------------------------
(* Ghostty.                                                                *)

Bottom(region) == IF region THEN Rows - 2 ELSE Rows - 1
\* A line feed: at the bottom of the screen the top row goes into the primary
\* history; at the bottom of a region it may or may not.
Fed(g) == IF g.row # Bottom(g.region) THEN {[g EXCEPT !.row = IF @ = Rows - 1 THEN @ ELSE @ + 1]}
          ELSE IF g.alt THEN {g}
          ELSE IF g.region THEN {g, [g EXCEPT !.hi = @ + 1]}
          ELSE {[g EXCEPT !.hi = @ + 1]}
Put(g) == IF g.col = Cols - 1 THEN [g EXCEPT !.wrap = TRUE] ELSE [g EXCEPT !.col = @ + 1]
Inked(g) == [g EXCEPT !.ink = events + 1]

Drawn(S) == {[g EXCEPT !.ink = events + 1] : g \in S}
Outcomes(e) ==
    CASE e = "text" -> Drawn(IF grid.wrap
                             THEN {Put([g EXCEPT !.col = 0, !.wrap = FALSE]) : g \in Fed(grid)}
                             ELSE {Put(grid)})
      [] e = "return" -> {[grid EXCEPT !.col = 0, !.wrap = FALSE]}
      [] e = "feed" -> Drawn(Fed(grid))
      [] e = "up" -> {[grid EXCEPT !.row = IF @ = 0 THEN @ ELSE @ - 1, !.wrap = FALSE]}
      [] e = "scroll" -> Drawn({[g EXCEPT !.row = grid.row] :
                                  g \in Fed([grid EXCEPT !.row = Bottom(grid.region)])})
      [] e = "forget" -> {[grid EXCEPT !.lo = IF grid.alt THEN @ ELSE grid.hi]}
      [] e = "alternate" -> Drawn({[grid EXCEPT !.alt = TRUE, !.region = FALSE, !.wrap = FALSE]})
      [] e = "primary" -> Drawn({[grid EXCEPT !.alt = FALSE, !.region = FALSE, !.row = r] :
                                  r \in 0..Rows - 1})
      [] e = "region" -> {[grid EXCEPT !.region = TRUE, !.row = 0, !.col = 0, !.wrap = FALSE]}
      [] e = "reset" -> Drawn({[grid EXCEPT !.row = 0, !.col = 0, !.wrap = FALSE, !.region = FALSE,
                                !.alt = FALSE, !.sync = FALSE, !.visible = TRUE, !.lo = grid.hi]})
      [] e = "open" -> {[grid EXCEPT !.sync = TRUE]}
      [] e = "close" -> {[grid EXCEPT !.sync = FALSE]}
      [] e = "hide" -> {[grid EXCEPT !.visible = FALSE]}
      [] e = "show" -> {[grid EXCEPT !.visible = TRUE]}
      [] e = "image" -> Drawn({grid})
      [] OTHER -> {grid}
Events == {"text", "return", "feed", "up", "scroll", "forget", "alternate", "primary", "region",
           "reset", "open", "close", "hide", "show", "image", "prompt", "input", "title"}

-----------------------------------------------------------------------------
(* The observer.                                                           *)

LineFeed(o) == IF o.row = Bottom(o.region)
               THEN [o EXCEPT !.changed = @ \/ (~o.alt /\ ~o.region)]
               ELSE [o EXCEPT !.row = IF @ = Rows - 1 THEN @ ELSE @ + 1]
\* record_write: a write in the last column leaves the cursor to Ghostty.
Written(o) == IF o.col = Cols - 1
              THEN [o EXCEPT !.changed = @ \/ (~o.alt /\ o.row = Rows - 1)]
              ELSE [o EXCEPT !.col = @ + 1]
Visible(o) == [o EXCEPT !.prompt = FALSE]
StructuralKeepingPrompt(o) == [o EXCEPT !.structural = TRUE]                  \* mutant
Structural(o) == [o EXCEPT !.prompt = FALSE, !.structural = TRUE]

\* print and execute; SGR, reports and the bell ("title" stands for all that
\* leaves the text alone) change nothing.
Printed(e) ==
    CASE e = "text" -> Written(Visible(obs))
      [] e = "return" -> [Visible(obs) EXCEPT !.col = 0]
      [] e = "feed" -> LineFeed(Visible(obs))
\* osc_dispatch
Marked(e) == CASE e = "prompt" -> [obs EXCEPT !.prompt = FALSE]
               [] e = "input" -> [obs EXCEPT !.prompt = TRUE]
               [] e = "title" -> obs
\* csi_dispatch with a private mode
Moded(e) ==
    CASE e = "alternate" -> [Structural(obs) EXCEPT !.alt = TRUE, !.region = FALSE]
      [] e = "primary" -> [Structural(obs) EXCEPT !.alt = FALSE, !.region = FALSE]
      [] e \in {"open", "close", "hide", "show"} -> Structural(obs)
\* csi_dispatch otherwise
Moved(e) ==
    CASE e = "up" -> [Structural(obs) EXCEPT !.row = IF @ = 0 THEN @ ELSE @ - 1]
      [] e = "scroll" -> [Structural(obs) EXCEPT !.changed = @ \/ (~obs.alt /\ ~obs.region)]
      [] e = "forget" -> [Structural(obs) EXCEPT !.changed = TRUE]
      [] e = "region" -> [Structural(obs) EXCEPT !.region = TRUE, !.row = 0, !.col = 0]
\* esc_dispatch, and the graphics strings only observe_raw_byte sees
Escaped(e) == [Structural(obs) EXCEPT !.region = @ /\ e # "reset"]

Observed(e) ==
    CASE e \in {"text", "return", "feed"} -> Printed(e)
      [] e \in {"prompt", "input", "title"} -> Marked(e)
      [] e \in {"alternate", "primary", "open", "close", "hide", "show"} -> Moded(e)
      [] e \in {"up", "scroll", "forget", "region"} -> Moved(e)
      [] e \in {"reset", "image"} -> Escaped(e)
\* has_boundary_events
Boundary(e) == e \in {"open", "close", "hide", "show", "prompt", "input"}

\* begin_update
Begun(s, o) == [o EXCEPT !.row = grid.row, !.col = grid.col, !.alt = s.alt, !.prompt = FALSE,
                         !.changed = FALSE,
                         !.structural = s.alt \/ ~s.visible \/ s.sync \/ o.region]

-----------------------------------------------------------------------------
(* Terminal::advance: the loop over one batch's sequences.                 *)

Differs(s, at) == s.extent # at.extent \/ s.origin # at.origin

Advance(e) ==
    /\ events < MaxEvents
    /\ events' = events + 1
    /\ batch' = Append(batch, e)
    /\ grid' \in Outcomes(e)
    /\ LET o == Observed(e)
           s == IF Boundary(e) THEN Read(seen, grid') ELSE seen
           opens == e = "open" /\ ~seen.sync
           changed == o.changed \/ Differs(s, before.at)
           copied == (dirty \/ changed) /\ ~s.alt
       IN /\ seen' = s
          /\ last' = CASE e = "close" /\ seen.sync -> "close"
                       [] e = "show" /\ ~seen.visible -> "restore"
                       [] OTHER -> "other"
          /\ obs' = IF opens THEN [o EXCEPT !.changed = FALSE] ELSE o
          /\ opener' = IF opens THEN <<[ink |-> s.ink, alt |-> s.alt, origin |-> s.origin,
                                        extent |-> s.extent,
                                        held |-> IF copied THEN Held(s) ELSE None]>>
                       ELSE opener
          /\ earlier' = (earlier \/ (opens /\ changed))
          /\ dirty' = IF opens /\ ~s.alt THEN FALSE ELSE dirty
          /\ before' = IF opens THEN [before EXCEPT !.at = Checkpoint(s)] ELSE before
          \* What is on the screen before a transaction is what may be read.
          /\ truth' = IF (e = "open" /\ ~grid.sync) \/ ~grid'.sync
                      THEN [ink |-> grid'.ink, alt |-> grid'.alt, held |-> Held(Read(seen, grid'))]
                      ELSE truth
          /\ missed' = (missed \/ (e = "open" /\ ~grid.sync /\ seen.sync))
    /\ UNCHANGED <<report, committed, frozen, trusted>>

\* hydrate_open_snapshot
Hydrated(snap) ==
    IF snap.held = Held(snap) \/ (snap.extent = 0 /\ snap.held = None) THEN snap
    ELSE IF Held(committed) = committed.held /\ Differs(snap, committed) = FALSE
            /\ committed.alt = snap.alt
         THEN [snap EXCEPT !.held = committed.held]
         ELSE [snap EXCEPT !.extent = 0, !.origin = @ + snap.extent]
\* update_committed_snapshot
UpdatedAnyway(s, changed) ==                                                  \* mutant
    [ink |-> s.ink, alt |-> s.alt, origin |-> s.origin, extent |-> s.extent, held |-> committed.held]
Updated(s, changed) ==
    [ink |-> s.ink, alt |-> s.alt, origin |-> s.origin, extent |-> s.extent,
     held |-> IF ~changed /\ committed.held[2] - committed.held[1] = s.extent
                 /\ committed.origin = s.origin /\ committed.alt = s.alt
              THEN committed.held ELSE None]

\* The end of advance and the rest of process_changes_inner. A batch may end
\* inside a sequence (parser_continuation), whose bytes then come last.
EndBatch(continues) ==
    /\ batch # <<>>
    /\ LET s == Read(seen, grid)
           after == obs.changed \/ Differs(s, before.at)
           mine == after \/ earlier \/ Differs(s, before.s) \/ before.s.alt # s.alt
       IN /\ seen' = s
          /\ dirty' = (dirty \/ after)
          /\ report' = [closed |-> ~s.sync /\ last = "close" /\ ~continues,
                        restored |-> s.visible /\ last = "restore" /\ ~continues,
                        prompt |-> obs.prompt /\ ~continues,
                        structural |-> obs.structural, history |-> mine]
          /\ obs' = Begun(s, obs)
          /\ before' = [s |-> s, at |-> Checkpoint(s)]
          /\ IF s.sync
             THEN IF opener # <<>>
                  THEN /\ committed' = Hydrated(opener[1])
                       /\ frozen' = <<mine>>
                       /\ trusted' = (trusted /\ committed'.extent = opener[1].extent)
                  ELSE /\ frozen' = <<frozen[1] \/ mine>>
                       /\ UNCHANGED <<committed, trusted>>
             ELSE /\ committed' = Updated(s, mine \/ (frozen # <<>> /\ frozen[1]))
                  /\ frozen' = <<>>
                  /\ UNCHANGED trusted
    /\ missed' = (missed /\ grid.sync)
    /\ opener' = <<>> /\ earlier' = FALSE /\ last' = "other" /\ batch' = <<>>
    /\ UNCHANGED <<grid, truth, events>>

Next ==
    \/ \E e \in Events : Advance(e)
    \/ \E continues \in BOOLEAN : EndBatch(continues)

Spec == Init /\ [][Next]_streamVars

-----------------------------------------------------------------------------
(* Properties.                                                             *)

\* Between batches the view shows the screen as it was when the last
\* transaction opened, or as it is if none is open, and the history it holds
\* for it, when it holds one, is that screen's: hidden drawing is never read,
\* whatever chunks the transaction arrives in. (A reset inside a transaction is
\* not read back at once, and hides the next opener of the same batch.)
CommittedIsShown ==
    batch = <<>> /\ ~missed =>
        /\ committed.ink = truth.ink /\ committed.alt = truth.alt
        /\ committed.held[1] < committed.held[2] => committed.held = truth.held

\* A batch is said to end at a commit, at a restored cursor or at a prompt's
\* input only if its last bytes were that and the screen agrees; text, or half
\* a sequence, after it takes the claim back.
Neutral == {"title"}
BatchEndsExactly ==
    [][batch' = <<>> /\ batch # <<>> =>
          /\ report'.closed => batch[Len(batch)] = "close" /\ ~grid.sync
          /\ report'.restored => batch[Len(batch)] = "show" /\ grid.visible
          /\ report'.prompt => \E i \in DOMAIN batch :
                                  /\ batch[i] = "input"
                                  /\ \A j \in i + 1..Len(batch) : batch[j] \in Neutral]_streamVars

\* A transaction opens with the history its listener needs: "the adapter must
\* include history when it changes before a synchronized-output opener".
OpenerCarriesHistory == trusted
=============================================================================
