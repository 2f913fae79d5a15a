----------------------------- MODULE TmuxPanes -----------------------------
(***************************************************************************)
(* The terminal copies of a connection's panes (tmux_panes.rs,             *)
(* views/tmux_connection.rs, sync_tmux_panes) from the first inventory     *)
(* that lists a pane to the capture that fills its copy, while the pane    *)
(* goes on writing, other panes come and panes close.                      *)
(*                                                                         *)
(* A pane's contents are the sequence of chunks it wrote; "cls" clears the *)
(* screen, so only what follows the last one shows.  An inventory or a     *)
(* capture is one command; tmux executes commands in order and writes      *)
(* their replies, the panes' output and the notices of closed panes into   *)
(* one stream.                                                             *)
(***************************************************************************)
EXTENDS Naturals, Sequences, FiniteSets, FiniteSetsExt, SequencesExt

CONSTANTS Panes, Chunks,
          BufferLimit,   \* MAX_PREBOOTSTRAP_BYTES, in chunks
          MaxOutput,     \* chunks the panes write
          MaxRefused     \* captures tmux refuses for want of a flag or otherwise

VARIABLES
  alive, contents,   \* tmux: the panes there are, what each wrote
  feed,              \* records written and not yet read
  asked,             \* commands sent and not yet executed
  known,             \* TmuxTopology.panes
  inventoried,       \* has_inventory
  copies,            \* TmuxPaneSet.panes: requested, bootstrapped, buffer, screen
  orphans,           \* orphan_output
  buffered,          \* prebootstrap_bytes
  flags,             \* capture_line_flags_supported is not Some(false)
  ended,             \* an error reached the event loop and ended Lector
  baseline,          \* ghost: a copy was filled by a capture
  refused, wrote

paneVars == <<alive, contents, feed, asked, known, inventoried, copies, orphans, buffered, flags,
              ended, baseline, refused, wrote>>

\* What a screen shows after its chunks.
Shown(c) == IF Contains(c, "cls")
            THEN SubSeq(c, SelectLastInSeq(c, LAMBDA x : x = "cls") + 1, Len(c)) ELSE c

NoCopy == [here |-> FALSE, requested |-> FALSE, bootstrapped |-> FALSE, buffer |-> <<>>, screen |-> <<>>]

Init ==
  /\ alive \in {Q \in SUBSET Panes : Q # {}}
  /\ contents \in {[p \in Panes |-> IF p \in alive THEN c ELSE <<>>] : c \in {<<>>, <<"a">>}}
  /\ feed = <<>> /\ asked = <<[name |-> "inventory", p |-> {}, flags |-> TRUE]>>
  /\ known = {} /\ inventoried = FALSE /\ copies = [p \in Panes |-> NoCopy] /\ orphans = [p \in Panes |-> <<>>]
  /\ buffered = 0 /\ flags = TRUE /\ ended = FALSE /\ baseline = {} /\ refused = 0 /\ wrote = 0

-----------------------------------------------------------------------------
(* TmuxPaneSet.                                                             *)

Sizes(f, P) == MapThenSumSet(LAMBDA p : Len(f[p]), P)

\* reconcile, with the bootstrap requests queued by sync_tmux_panes.
Reconcile(T) ==
  LET gone == {p \in Panes : copies[p].here} \ T
      new == T \ {p \in Panes : copies[p].here}
      ask == {p \in T : ~copies[p].bootstrapped /\ ~copies[p].requested}
  IN  /\ copies' = [p \in Panes |->
             IF p \notin T THEN NoCopy
             ELSE [copies[p] EXCEPT !.here = TRUE, !.requested = @ \/ p \in ask,
                                    !.buffer = IF p \in new THEN orphans[p] ELSE @]]
      /\ buffered' = buffered - MapThenSumSet(LAMBDA p : Len(copies[p].buffer), gone)
                              - Sizes(orphans, Panes \ new)
      /\ orphans' = [p \in Panes |-> <<>>]
      /\ baseline' = baseline \cap T
      /\ asked' = asked \o [i \in 1 .. Cardinality(ask) |->
             [name |-> "capture", p |-> {SetToSortSeq(ask, <)[i]}, flags |-> flags]]

\* process_output_with_summary_retention
Output(p, c) ==
  LET s == copies[p]
  IN  IF s.here /\ s.bootstrapped
      THEN copies' = [copies EXCEPT ![p].screen = Append(@, c)] /\ UNCHANGED <<orphans, buffered, ended>>
      ELSE IF buffered + 1 > BufferLimit
      THEN ended' = TRUE /\ UNCHANGED <<copies, orphans, buffered>>
      ELSE /\ buffered' = buffered + 1 /\ UNCHANGED ended
           /\ IF s.here
              THEN copies' = [copies EXCEPT ![p].buffer = Append(@, c)] /\ UNCHANGED orphans
              ELSE orphans' = [orphans EXCEPT ![p] = Append(@, c)] /\ UNCHANGED copies

\* (The buffered output is replayed over any capture.)
FilledTwice(s, r) == IF r.ok THEN r.data \o s.buffer ELSE s.screen \o s.buffer

\* The screen after the reply: a failed capture, or an empty one, replays what
\* was buffered.
Filled(s, r) ==
  IF ~r.ok THEN s.screen \o s.buffer
  ELSE IF Shown(r.data) = <<>> /\ s.buffer # <<>> THEN s.buffer ELSE r.data

\* apply_bootstrap_with_line_flags
Bootstrap(p, r) ==
  LET s == copies[p]
  IN  IF ~s.here THEN ended' = TRUE /\ UNCHANGED <<copies, buffered, baseline>>
      ELSE /\ copies' = [copies EXCEPT ![p] = [@ EXCEPT !.bootstrapped = TRUE, !.requested = FALSE,
                                                        !.buffer = <<>>, !.screen = Filled(s, r)]]
           /\ buffered' = buffered - Len(s.buffer) /\ UNCHANGED ended
           /\ baseline' = IF r.ok THEN baseline \cup {p} ELSE baseline \ {p}

-----------------------------------------------------------------------------
(* Lector reads one record.                                                 *)

\* A capture refused for its flag is asked again without it.
CaptureReply(p, r) ==
  IF r.flags /\ r.unsupported /\ p \in known
  THEN /\ flags' = FALSE
       /\ asked' = Append(asked, [name |-> "capture", p |-> {p}, flags |-> FALSE])
       /\ UNCHANGED <<copies, buffered, ended, baseline>>
  ELSE Bootstrap(p, r) /\ UNCHANGED <<flags, asked>>

Read ==
  /\ ~ended /\ feed # <<>> /\ feed' = Tail(feed)
  /\ LET r == Head(feed)
     IN  \/ /\ r.name = "output" /\ \E p \in r.p : Output(p, r.data)
            /\ UNCHANGED <<known, inventoried, flags, asked, baseline>>
         \/ /\ r.name = "inventory" /\ known' = r.p /\ inventoried' = TRUE
            /\ Reconcile(r.p) /\ UNCHANGED <<flags, ended>>
         \/ /\ r.name = "close" /\ known' = known \ r.p /\ UNCHANGED <<inventoried, flags, ended>>
            /\ IF inventoried THEN Reconcile(known')
               ELSE UNCHANGED <<copies, orphans, buffered, asked, baseline>>
         \/ r.name = "new" /\ asked' = Append(asked, [name |-> "inventory", p |-> {}, flags |-> TRUE])
            /\ UNCHANGED <<known, inventoried, flags, copies, orphans, buffered, ended, baseline>>
         \/ r.name = "capture" /\ (\E p \in r.p : CaptureReply(p, r)) /\ UNCHANGED <<known, inventoried, orphans>>
  /\ UNCHANGED <<alive, contents, refused, wrote>>

-----------------------------------------------------------------------------
(* tmux (external).                                                         *)

Lector == UNCHANGED <<known, inventoried, copies, orphans, buffered, flags, ended, baseline>>

Say(name, p, data, ok, withFlags, unsupported) ==
  feed' = Append(feed, [name |-> name, p |-> p, data |-> data, ok |-> ok, flags |-> withFlags,
                        unsupported |-> unsupported])

Write(p, c) ==
  /\ p \in alive /\ wrote < MaxOutput /\ wrote' = wrote + 1
  /\ contents' = [contents EXCEPT ![p] = Append(@, c)]
  /\ Say("output", {p}, c, TRUE, FALSE, FALSE)
  /\ UNCHANGED <<alive, asked, refused>> /\ Lector

Execute(ok) ==
  /\ asked # <<>> /\ asked' = Tail(asked)
  /\ LET q == Head(asked)
     IN  IF q.name = "inventory"
         THEN ok /\ Say("inventory", alive, <<>>, TRUE, FALSE, FALSE) /\ UNCHANGED refused
         ELSE LET p == CHOOSE x \in q.p : TRUE
                  can == p \in alive
              IN  /\ ok \/ ~can \/ refused < MaxRefused
                  /\ refused' = IF can /\ ~ok THEN refused + 1 ELSE refused
                  /\ \E unsupported \in {u \in BOOLEAN : u => can /\ ~ok /\ q.flags} :
                       Say("capture", q.p, contents[p], ok /\ can, q.flags, unsupported)
  /\ UNCHANGED <<alive, contents, wrote>> /\ Lector

\* The window of a pane closes; a pane starts in a new window.
Close(p) ==
  /\ p \in alive /\ alive' = alive \ {p}
  /\ Say("close", {p}, <<>>, TRUE, FALSE, FALSE)
  /\ UNCHANGED <<contents, asked, refused, wrote>> /\ Lector

\* tmux does not use an identifier twice.  (A pane that starts during an
\* inventory is a matter of TmuxTopology.)
Open(p) ==
  /\ \A i \in DOMAIN asked : asked[i].name # "inventory"
  /\ \A i \in DOMAIN feed : feed[i].name \notin {"inventory", "new"}
  /\ \A q \in alive : q < p
  /\ contents[p] = <<>> /\ ~copies[p].here /\ alive' = alive \cup {p}
  /\ wrote < MaxOutput /\ wrote' = wrote + 1
  /\ contents' = [contents EXCEPT ![p] = <<"a">>]
  /\ feed' = feed \o <<[name |-> "new", p |-> {p}, data |-> <<>>, ok |-> TRUE, flags |-> FALSE, unsupported |-> FALSE],
                       [name |-> "output", p |-> {p}, data |-> "a", ok |-> TRUE, flags |-> FALSE, unsupported |-> FALSE]>>
  /\ UNCHANGED <<asked, refused>> /\ Lector

Next ==
  \/ Read
  \/ \E p \in Panes, c \in Chunks : Write(p, c)
  \/ \E ok \in BOOLEAN : Execute(ok)
  \/ \E p \in Panes : Close(p) \/ Open(p)

Spec == Init /\ [][Next]_paneVars /\ WF_paneVars(Read) /\ WF_paneVars(Execute(TRUE))

-----------------------------------------------------------------------------
\* The chunks of p still to be read, in order.
Coming(p) == LET out == SelectSeq(feed, LAMBDA r : r.name = "output" /\ p \in r.p)
             IN  [i \in 1 .. Len(out) |-> out[i].data]

(* A pane's copy shows exactly what the pane shows, up to the output still  *)
(* to be read, once a capture has filled it: no chunk that came before the  *)
(* capture is applied over it, none that came after it is lost, whatever    *)
(* was buffered, cleared, retried without flags or taken over from the time *)
(* before the pane was known; and the bytes counted against the limit are   *)
(* those that are held.                                                     *)
CopiesExact ==
  /\ \A p \in baseline : p \in alive => Shown(copies[p].screen \o Coming(p)) = Shown(contents[p])
  /\ buffered = Sizes(orphans, Panes) + MapThenSumSet(LAMBDA p : Len(copies[p].buffer), Panes)

(* "A failed capture replays it so live bytes are not lost": the refusal of *)
(* a capture, of a pane that closed meanwhile for instance, is survived.    *)
RefusalSurvived == ended => buffered = BufferLimit

AllFilled == ended \/ \A p \in alive : copies[p].bootstrapped

(* Every pane that stays is filled.                                         *)
PanesAreFilled == []<>AllFilled

=============================================================================
