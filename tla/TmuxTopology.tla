---------------------------- MODULE TmuxTopology ----------------------------
(***************************************************************************)
(* Lector's copy of a tmux server's sessions, windows and panes            *)
(* (tmux_model.rs) and how it is kept: an inventory of several commands,   *)
(* validated as one transaction, and notifications applied by identifier   *)
(* or answered by a new inventory (process_tmux_control).  tmux changes    *)
(* between any two commands, and its notifications arrive between their    *)
(* replies.                                                                *)
(*                                                                         *)
(* The twelve inventory commands are the four layers that hold             *)
(* identifiers: sessions, windows, panes and the attached session.  Names, *)
(* geometry, options and bindings are left out; a window has one link.     *)
(***************************************************************************)
EXTENDS Naturals, Sequences, FiniteSets

CONSTANTS Sessions, Windows, Panes,  \* sets of positive identifiers
          MaxChanges,                \* changes of the server
          MaxErrors                  \* inventory commands that fail

VARIABLES
  server,     \* tmux: sess, att, win, link, act, pane, ap
  topology,   \* TmuxTopology, the same fields
  stream,     \* notifications and replies written and not yet read
  queries,    \* inventory commands sent and not yet executed
  remaining,  \* inventory_replies_remaining
  got,        \* pending_inventory, by layer
  failed,     \* inventory_failed
  retried,    \* inventory_retry_count is 1
  gaveUp,     \* the last inventory failed for good
  raced,      \* ghost: tmux changed between two commands of the last inventory
  changes, errors

topoVars == <<server, topology, stream, queries, remaining, got, failed, retried, gaveUp, raced,
              changes, errors>>

Layers == <<"S", "W", "P", "A">>

Empty == [sess |-> {}, att |-> 0, win |-> {}, link |-> [w \in Windows |-> 0],
          act |-> [s \in Sessions |-> 0], pane |-> [p \in Panes |-> 0], ap |-> [w \in Windows |-> 0]]

\* A new connection: one session, one window, one pane, and the inventory sent.
Init ==
  /\ server \in {[Empty EXCEPT !.sess = {1}, !.att = 1, !.win = {1}, !.link[1] = 1, !.act[1] = 1,
                               !.pane[1] = 1, !.ap[1] = 1]}
  /\ topology = Empty /\ stream = <<>> /\ queries = Layers /\ remaining = Len(Layers)
  /\ got = Empty /\ failed = FALSE /\ retried = FALSE /\ gaveUp = FALSE /\ raced = FALSE
  /\ changes = 0 /\ errors = 0

-----------------------------------------------------------------------------
(* TmuxTopology.                                                            *)

\* remove_window
RemoveWindow(t, w) ==
  [t EXCEPT !.win = @ \ {w}, !.link[w] = 0, !.ap[w] = 0,
            !.pane = [p \in Panes |-> IF @[p] = w THEN 0 ELSE @[p]],
            !.act = [s \in Sessions |-> IF @[s] = w THEN 0 ELSE @[s]]]

Applied(t) == [t |-> t, resync |-> FALSE]
Uncertain(t) == [t |-> t, resync |-> TRUE]
Known(t, complete) == [t |-> t, resync |-> ~complete]

\* (A notification about an unseen object is taken for complete.)
ReconcileTrusting(t, n) ==
  IF n.name = "window-add" THEN Applied([t EXCEPT !.win = @ \cup {n.w}])
  ELSE IF n.name = "layout-change" THEN Applied([t EXCEPT !.win = @ \cup {n.w}])
  ELSE Uncertain(t)

\* apply_notification: the topology after it and whether an inventory is needed.
Reconcile(t, n) ==
  CASE n.name = "sessions-changed" -> Uncertain(t)
    [] n.name = "session-changed" ->
         Known([t EXCEPT !.sess = @ \cup {n.s}, !.att = n.s], n.s \in t.sess)
    [] n.name = "session-window-changed" ->
         Known([t EXCEPT !.sess = @ \cup {n.s}, !.act[n.s] = n.w, !.win = @ \cup {n.w}],
               n.s \in t.sess /\ n.w \in t.win)
    [] n.name = "window-pane-changed" ->
         Known([t EXCEPT !.win = @ \cup {n.w}, !.ap[n.w] = n.p,
                         !.pane[n.p] = IF @ = 0 THEN n.w ELSE @],
               n.w \in t.win /\ t.pane[n.p] # 0)
    [] n.name = "window-add" -> Uncertain([t EXCEPT !.win = @ \cup {n.w}])
    [] n.name = "window-close" ->
         IF t.att = 0 THEN Uncertain(t)
         ELSE IF t.link[n.w] \in {t.att, 0} THEN Applied(RemoveWindow(t, n.w)) ELSE Applied(t)
    [] n.name = "unlinked-window-close" ->
         IF t.link[n.w] # 0 THEN Uncertain(t) ELSE Applied(RemoveWindow(t, n.w))
    [] n.name = "layout-change" -> Uncertain([t EXCEPT !.win = @ \cup {n.w}])
    [] n.name = "pane-exited" ->
         Applied([t EXCEPT !.pane[n.p] = 0,
                           !.ap = [w \in Windows |-> IF @[w] = n.p THEN 0 ELSE @[w]]])

\* replace_inventory with validate_inventory: every window's session, every
\* pane's window and the attached session must be listed.
Valid(g) ==
  /\ \A w \in g.win : g.link[w] \in g.sess
  /\ \A p \in Panes : g.pane[p] # 0 => g.pane[p] \in g.win
  /\ g.att \in g.sess

-----------------------------------------------------------------------------
(* Lector reads one record of the stream (process_tmux_control).            *)

Request ==
  /\ queries' = queries \o Layers /\ remaining' = Len(Layers)
  /\ got' = Empty /\ failed' = FALSE

\* One layer of the snapshot.
Merge(g, r) ==
  CASE r.layer = "S" -> [g EXCEPT !.sess = r.data.sess]
    [] r.layer = "W" -> [g EXCEPT !.win = r.data.win, !.link = r.data.link, !.act = r.data.act]
    [] r.layer = "P" -> [g EXCEPT !.pane = r.data.pane, !.ap = r.data.ap]
    [] r.layer = "A" -> [g EXCEPT !.att = r.data.att]

\* The last reply of an inventory installs it, starts it once more, or gives up.
Replied(r, left) ==
  LET bad == failed \/ ~r.ok
      g == IF bad THEN Empty ELSE Merge(got, r)
  IN  IF left > 0
      THEN /\ remaining' = left /\ got' = g /\ failed' = bad
           /\ UNCHANGED <<topology, queries, retried, gaveUp>>
      ELSE IF ~bad /\ Valid(g)
      THEN /\ topology' = g /\ remaining' = 0 /\ retried' = FALSE /\ gaveUp' = FALSE
           /\ got' = Empty /\ failed' = FALSE
           /\ UNCHANGED queries
      ELSE IF ~retried
      THEN Request /\ retried' = TRUE /\ UNCHANGED <<topology, gaveUp>>
      ELSE /\ remaining' = 0 /\ gaveUp' = TRUE /\ got' = Empty /\ failed' = FALSE
           /\ UNCHANGED <<topology, queries, retried>>

InventoryReply(r) == Replied(r, remaining - 1)

\* An inventory is requested unless one is under way.
Notified(n) ==
  LET r == Reconcile(topology, n)
  IN  /\ topology' = r.t
      /\ IF r.resync /\ remaining = 0
         THEN Request /\ retried' = FALSE
         ELSE UNCHANGED <<queries, remaining, got, failed, retried>>
      /\ UNCHANGED gaveUp

ProcessControl ==
  /\ stream # <<>> /\ stream' = Tail(stream)
  /\ IF Head(stream).name = "reply" THEN InventoryReply(Head(stream)) ELSE Notified(Head(stream))
  /\ UNCHANGED <<server, raced, changes, errors>>

-----------------------------------------------------------------------------
(* tmux (external): commands are executed in order, every change is         *)
(* notified.                                                                *)

Idle == UNCHANGED <<topology, remaining, got, failed, retried, gaveUp>>

Execute(ok) ==
  /\ queries # <<>> /\ queries' = Tail(queries)
  /\ ok \/ errors < MaxErrors
  /\ errors' = IF ok THEN errors ELSE errors + 1
  /\ stream' = Append(stream, [name |-> "reply", layer |-> Head(queries), ok |-> ok, data |-> server])
  /\ raced' = IF queries = Layers THEN FALSE ELSE raced
  /\ UNCHANGED <<server, changes>> /\ Idle

Note(name, s, w, p) == [name |-> name, s |-> s, w |-> w, p |-> p]

Change(next, notes) ==
  /\ changes < MaxChanges /\ changes' = changes + 1
  /\ server' = next /\ stream' = stream \o notes
  /\ raced' = (raced \/ Len(queries) \in 1 .. Len(Layers) - 1)
  /\ UNCHANGED <<queries, errors>> /\ Idle

NewWindow(s, w, p) ==
  /\ s \in server.sess /\ w \notin server.win /\ server.pane[p] = 0
  /\ Change([server EXCEPT !.win = @ \cup {w}, !.link[w] = s, !.act[s] = w, !.pane[p] = w, !.ap[w] = p],
            <<Note("window-add", s, w, p), Note("session-window-changed", s, w, p)>>)

KillWindow(w, v) ==
  LET s == server.link[w]
      moved == server.act[s] = w
  IN  /\ w \in server.win /\ v \in server.win \ {w} /\ server.link[v] = s
      /\ Change([RemoveWindow(server, w) EXCEPT !.act[s] = IF moved THEN v ELSE server.act[s]],
                <<Note(IF s = server.att THEN "window-close" ELSE "unlinked-window-close", s, w, 0)>>
                  \o IF moved THEN <<Note("session-window-changed", s, v, 0)>> ELSE <<>>)

SplitWindow(w, p) ==
  /\ w \in server.win /\ server.pane[p] = 0
  /\ Change([server EXCEPT !.pane[p] = w, !.ap[w] = p],
            <<Note("layout-change", 0, w, p), Note("window-pane-changed", 0, w, p)>>)

\* The pane of a window with others goes, with or without a notice of its own.
KillPane(p, q, told) ==
  LET w == server.pane[p]
      moved == server.ap[w] = p
  IN  /\ w # 0 /\ q # p /\ server.pane[q] = w
      /\ Change([server EXCEPT !.pane[p] = 0, !.ap[w] = IF moved THEN q ELSE @],
                (IF told THEN <<Note("pane-exited", 0, w, p)>> ELSE <<>>)
                \o <<Note("layout-change", 0, w, 0)>>
                \o IF moved THEN <<Note("window-pane-changed", 0, w, q)>> ELSE <<>>)

Select ==
  \/ \E w \in server.win : LET s == server.link[w] IN
       /\ server.act[s] # w
       /\ Change([server EXCEPT !.act[s] = w], <<Note("session-window-changed", s, w, 0)>>)
  \/ \E p \in Panes : LET w == server.pane[p] IN
       /\ w # 0 /\ server.ap[w] # p
       /\ Change([server EXCEPT !.ap[w] = p], <<Note("window-pane-changed", 0, w, p)>>)
  \/ \E s \in server.sess \ {server.att} :
       Change([server EXCEPT !.att = s], <<Note("session-changed", s, 0, 0)>>)

NewSession(s, w, p) ==
  /\ s \notin server.sess /\ w \notin server.win /\ server.pane[p] = 0
  /\ Change([server EXCEPT !.sess = @ \cup {s}, !.win = @ \cup {w}, !.link[w] = s, !.act[s] = w,
                           !.pane[p] = w, !.ap[w] = p],
            <<Note("sessions-changed", s, w, p), Note("window-add", s, w, p)>>)

Next ==
  \/ ProcessControl
  \/ \E ok \in BOOLEAN : Execute(ok)
  \/ \E s \in Sessions, w \in Windows, p \in Panes : NewWindow(s, w, p) \/ NewSession(s, w, p)
  \/ \E w, v \in Windows : KillWindow(w, v)
  \/ \E w \in Windows, p \in Panes : SplitWindow(w, p)
  \/ \E p, q \in Panes, told \in BOOLEAN : KillPane(p, q, told)
  \/ Select

Spec == Init /\ [][Next]_topoVars /\ WF_topoVars(ProcessControl) /\ WF_topoVars(Execute(TRUE))

-----------------------------------------------------------------------------
Settled == stream = <<>> /\ queries = <<>> /\ remaining = 0

(* When everything tmux said has been read and answered, Lector knows       *)
(* exactly the sessions, windows and panes there are and which are active,  *)
(* whatever was created, closed and selected before an inventory, while its *)
(* replies were read or after it, and however failed or contradictory       *)
(* inventories were retried.  Exempt: a change of tmux between two commands *)
(* of the last inventory (UncertaintyIsResolved), and a second failure in a *)
(* row.                                                                     *)
SettledIsExact == Settled /\ ~raced /\ ~gaveUp => topology = server

(* "A notification that references an unseen object leaves a safe stub,     *)
(* marks the model uncertain, and requests one full inventory after the     *)
(* current inventory transaction" (docs/tmux-topology.md): so nothing that  *)
(* was announced during an inventory stays unknown.                         *)
UncertaintyIsResolved ==
  Settled /\ ~gaveUp =>
    /\ server.sess \subseteq topology.sess /\ server.win \subseteq topology.win
    /\ \A p \in Panes : server.pane[p] # 0 => topology.pane[p] # 0

(* Every inventory ends, and with it the readiness screen.                  *)
InventoryEnds == []<>(remaining = 0)

=============================================================================
