---------------------------- MODULE ViewEvidence ----------------------------
(***************************************************************************)
(* What auto-read is told about how a screen came to be (view.rs).  A      *)
(* tracked View parses output at once but publishes it only when the frame *)
(* that carries it has been flushed.  Between the two, the parser's print  *)
(* record of every batch waits in a bounded journal; a flushed frame takes *)
(* the entries up to its revision and merges them into the published       *)
(* summary.  Entries are lost at the journal's limits and for shadow       *)
(* panes; batches of an atomic redraw and of another screen must not be    *)
(* read as a print stream.  The summary then has to fall back to the       *)
(* snapshots, and never to show a part of the record as the whole.         *)
(*                                                                         *)
(* The printed text of a batch is stood for by the batch's revision.       *)
(***************************************************************************)
EXTENDS Integers, Sequences, FiniteSetsExt

CONSTANTS MaxEntries,    \* ACCESSIBILITY_JOURNAL_MAX_ENTRIES
          MaxRevision,   \* bound: batches and resizes of a behaviour
          MaxEpochs      \* bound: screen switches and hand-offs of a behaviour

VARIABLES
    live,       \* live_revision
    presented,  \* presented_revision
    finalized,  \* finalized_presented_revision
    epoch,      \* live_accessibility_epoch
    floor,      \* accessibility_epoch_floor_generation
    shownEpoch, \* presented_accessibility_epoch
    shownRev,   \* presented_accessibility_evidence_revision
    exact,      \* presented_accessibility_evidence_exact
    diffOnly,   \* presented_accessibility_requires_snapshot_diff
    prints,     \* the printed runs of presented_update, by revision
    journal,    \* accessibility_journal
    gapStart,   \* accessibility_journal_gap_start, 0 for None
    lostTo,     \* accessibility_journal_discarded_through
    queued,     \* the scheduler's replaceable frame, at most one
    writing,    \* the frame being written
    kinds       \* history: what each revision was
evidenceVars == <<live, presented, finalized, epoch, floor, shownEpoch, shownRev, exact, diffOnly,
                  prints, journal, gapStart, lostTo, queued, writing, kinds>>

Kinds == {"print", "sync", "shadow", "large"}

Init ==
    /\ live = 0 /\ presented = 0 /\ finalized = 0
    /\ epoch = [gen |-> 1, start |-> 0] /\ shownEpoch = [gen |-> 1, start |-> 0]
    /\ floor = 1 /\ shownRev = 0 /\ exact = TRUE /\ diffOnly = FALSE
    /\ prints = {} /\ journal = <<>> /\ gapStart = 0 /\ lostTo = 0
    /\ queued = <<>> /\ writing = <<>> /\ kinds = <<>>

\* note_accessibility_evidence_gap: the lost revisions are kept as one interval.
Widened(start, r) == IF start = 0 THEN r ELSE Min({start, r})

\* append_accessibility_evidence: a record larger than the whole journal is a gap
\* at once; one too many pushes out the oldest.
Appended(kind) ==
    IF kind \in {"shadow", "large"}
    THEN /\ gapStart' = Widened(gapStart, live')
         /\ lostTo' = Max({lostTo, live'})
         /\ UNCHANGED journal
    ELSE LET full == Append(journal, [epoch |-> epoch', rev |-> live', diff |-> kind = "sync"])
         IN IF Len(full) > MaxEntries
            THEN /\ journal' = Tail(full)
                 /\ gapStart' = Widened(gapStart, Head(full).rev)
                 /\ lostTo' = Max({lostTo, Head(full).rev})
            ELSE journal' = full /\ UNCHANGED <<gapStart, lostTo>>

\* process_changes_inner of a tracked view. Switching between the primary and the
\* alternate screen begins an epoch that starts after the last revision.
Process(kind, switches) ==
    /\ live < MaxRevision /\ (switches => epoch.gen <= MaxEpochs)
    /\ live' = live + 1
    /\ kinds' = Append(kinds, kind)
    /\ epoch' = IF switches THEN [gen |-> epoch.gen + 1, start |-> live] ELSE epoch
    /\ Appended(kind)
    /\ UNCHANGED <<presented, finalized, floor, shownEpoch, shownRev, exact, diffOnly, prints,
                   queued, writing>>

\* set_size_with_geometry: a revision of its own that prints nothing.
Resize ==
    /\ live < MaxRevision
    /\ live' = live + 1
    /\ kinds' = Append(kinds, "resize")
    /\ UNCHANGED <<presented, finalized, epoch, floor, shownEpoch, shownRev, exact, diffOnly,
                   prints, journal, gapStart, lostTo, queued, writing>>

\* The scheduler holds at most one frame that is not yet being written; a newer
\* one replaces it.
Capture(frame) ==
    /\ queued' = <<frame>>
    /\ UNCHANGED <<live, presented, finalized, epoch, floor, shownEpoch, shownRev, exact,
                   diffOnly, prints, journal, gapStart, lostTo, writing, kinds>>

CaptureLive == Capture([rev |-> live, epoch |-> epoch])

CaptureCommitted == Capture([rev |-> presented, epoch |-> shownEpoch])

StartWriting ==
    /\ queued # <<>> /\ writing = <<>>
    /\ writing' = queued /\ queued' = <<>>
    /\ UNCHANGED <<live, presented, finalized, epoch, floor, shownEpoch, shownRev, exact,
                   diffOnly, prints, journal, gapStart, lostTo, kinds>>

UpTo(r) == SelectSeq(journal, LAMBDA e : e.rev <= r)
Beyond(r) == SelectSeq(journal, LAMBDA e : e.rev > r)

\* publish_accessibility_evidence when the frame reaches past what is published:
\* its entries are merged while the record is whole and no batch was atomic.
LostIsIgnored(r, after) == FALSE                                  \* mutant
Lost(r, after) == gapStart # 0 /\ gapStart <= r /\ lostTo > after

Merged(frame, r0, exact0, diff0, prints0) ==
    LET after == Max({r0, frame.epoch.start})
        taken == {i \in DOMAIN UpTo(frame.rev) : /\ UpTo(frame.rev)[i].epoch = frame.epoch
                                                 /\ UpTo(frame.rev)[i].rev > after}
        whole == exact0 /\ ~Lost(frame.rev, after)
        atomic == diff0 \/ \E i \in taken : UpTo(frame.rev)[i].diff
    IN /\ exact' = whole
       /\ diffOnly' = atomic
       /\ prints' = IF whole /\ ~atomic THEN prints0 \cup {UpTo(frame.rev)[i].rev : i \in taken}
                                        ELSE {}
       /\ journal' = Beyond(frame.rev)

Publish(frame) ==
    LET new == shownEpoch # frame.epoch
        r0 == IF new THEN frame.epoch.start ELSE shownRev
        exact0 == new \/ exact
        diff0 == ~new /\ diffOnly
        prints0 == IF new THEN {} ELSE prints
    IN IF frame.epoch.gen < floor
       THEN prints' = {} /\ UNCHANGED <<shownEpoch, shownRev, exact, diffOnly, journal>>
       ELSE /\ shownEpoch' = frame.epoch
            /\ shownRev' = frame.rev
            /\ IF frame.rev < Max({r0, frame.epoch.start})
               THEN prints' = {} /\ exact' = exact0 /\ diffOnly' = diff0 /\ UNCHANGED journal
               ELSE Merged(frame, r0, exact0, diff0, prints0)

\* apply_presented_frame_ref at the flush: a frame older than the published one
\* is dropped.
Flush ==
    /\ writing # <<>>
    /\ writing' = <<>>
    /\ IF writing[1].rev < presented
       THEN UNCHANGED <<presented, shownEpoch, shownRev, exact, diffOnly, prints, journal>>
       ELSE presented' = writing[1].rev /\ Publish(writing[1])
    /\ UNCHANGED <<live, finalized, epoch, floor, gapStart, lostTo, queued, kinds>>

\* finalize_changes: the published frame becomes the baseline of the next diff.
Finalize ==
    /\ finalized # presented
    /\ finalized' = presented /\ shownRev' = presented
    /\ exact' = TRUE /\ diffOnly' = FALSE /\ prints' = {}
    /\ journal' = Beyond(presented)
    /\ gapStart' = IF gapStart = 0 \/ presented < gapStart THEN gapStart
                   ELSE IF presented >= lostTo THEN 0 ELSE presented + 1
    /\ UNCHANGED <<live, presented, epoch, floor, shownEpoch, lostTo, queued, writing, kinds>>

\* clear_update_summary: the view changes hands, and frames captured before may
\* still be flushed.
HandOff ==
    /\ prints' = {} /\ journal' = <<>>
    /\ IF live > finalized
       THEN gapStart' = Widened(gapStart, finalized + 1) /\ lostTo' = live
       ELSE UNCHANGED <<gapStart, lostTo>>
    /\ epoch' = [gen |-> epoch.gen + 1, start |-> live]
    /\ floor' = epoch'.gen /\ shownEpoch' = epoch'
    /\ shownRev' = presented /\ exact' = TRUE /\ diffOnly' = FALSE
    /\ epoch.gen <= MaxEpochs
    /\ UNCHANGED <<live, presented, finalized, queued, writing, kinds>>

Next ==
    \/ \E k \in Kinds, s \in BOOLEAN : Process(k, s)
    \/ Resize \/ CaptureLive \/ CaptureCommitted \/ StartWriting \/ Flush \/ Finalize \/ HandOff

Spec == Init /\ [][Next]_evidenceVars

\* The batches a listener has not heard of: since the last finalized frame, and
\* since the screen or the owner last changed.
Unheard == Max({finalized, shownEpoch.start}) + 1 .. presented

\* When the published summary offers printed text for auto-read, that text is the
\* whole record of the batches not yet heard, and none of them was lost, hidden or
\* part of an atomic redraw.
EvidenceExact ==
    prints # {} => /\ prints = {r \in Unheard : kinds[r] = "print"}
                   /\ \A r \in Unheard : kinds[r] \in {"print", "resize"}
=============================================================================
