--------------------------- MODULE TmuxConnections ---------------------------
(***************************************************************************)
(* The tree of tmux control connections: a client in the root terminal and *)
(* clients nested in panes of other connections, how they start, end, lose *)
(* the pane that carries them, are detached deepest first or abandoned     *)
(* (ConnectionHierarchy and its users in app/pty.rs and                    *)
(* app/tmux_interaction.rs).  Identifiers are reused, so everything that   *)
(* names a connection must go when the connection goes.                    *)
(***************************************************************************)
EXTENDS Naturals, Sequences, SequencesExt, Functions

CONSTANTS MaxIds,     \* identifiers in use at once
          Panes,      \* panes of every connection
          MaxStarts,  \* connections started
          MaxRequests \* detachments, abandonments and recoveries

VARIABLES
  origins,   \* ConnectionHierarchy: identifier -> [parent, pane], parent 0 is the root
  conns,     \* tmux_connections, in order
  gateways,  \* nested_tmux_gateways: <<parent, pane>> -> connection or 0
  active,    \* active_tmux_connection, or 0
  commands,  \* pending_tmux_commands: [id, serial] (a detach-client)
  confirm,   \* pending_gateway_confirmation: [id, serial] or None
  abandon,   \* pending_force_abandon: [id, serial] or None
  graceful,  \* pending_graceful_teardown: [remaining, awaiting, serial] or None
  leaving,   \* connections whose client was told to go
  serial,    \* ghost: identifier -> number of its connection
  starts,
  requests,
  stray      \* ghost: an abandonment or a cascade's detach hit a connection that
             \*   did not exist when it was asked for

connVars == <<origins, conns, gateways, active, commands, confirm, abandon, graceful, leaving,
              serial, starts, requests, stray>>

Ids == 1..MaxIds
None == [id |-> 0]

Init ==
  /\ origins = <<>> /\ conns = <<>> /\ gateways = <<>> /\ active = 0
  /\ commands = <<>> /\ confirm = None /\ abandon = None /\ graceful = None /\ leaving = {}
  /\ serial = [i \in Ids |-> 0] /\ starts = 0 /\ requests = 0 /\ stray = FALSE

Live == DOMAIN origins

Ref(i) == [id |-> i, serial |-> serial[i]]

-----------------------------------------------------------------------------
(* ConnectionHierarchy.                                                     *)

\* collect_descendants: the subtrees of the children of p[1] up to identifier
\* p[2], each deepest first.
Descendants(o) ==
  LET below[p \in (DOMAIN o) \X (0..MaxIds)] ==
        IF p[2] = 0 THEN <<>>
        ELSE IF p[2] \in DOMAIN o /\ o[p[2]].parent = p[1]
             THEN below[<<p[1], p[2] - 1>>] \o Append(below[<<p[2], MaxIds>>], p[2])
             ELSE below[<<p[1], p[2] - 1>>]
  IN  below

\* teardown_order: the subtree of a connection, deepest first.
TeardownOrder(o, i) == Append(Descendants(o)[<<i, MaxIds>>], i)

Subtree(o, i) == IF i \in DOMAIN o THEN ToSet(TeardownOrder(o, i)) ELSE {i}

\* next_available_tmux_connection_id
NextId == CHOOSE i \in Ids : i \notin ToSet(conns) /\ \A j \in 1..i - 1 : j \in ToSet(conns)

Without(o, removed) == Restrict(o, DOMAIN o \ removed)
Put(f, k, v) == [x \in DOMAIN f \cup {k} |-> IF x = k THEN v ELSE f[x]]

\* The elements of s in A, in their order.
Only(s, A) ==
  LET kept[k \in 0..Len(s)] ==
        IF k = 0 THEN <<>>
        ELSE IF s[k] \in A THEN Append(kept[k - 1], s[k]) ELSE kept[k - 1]
  IN  kept[Len(s)]
Others(removed) == Only(conns, Ids \ removed)
CommandsOfOthers(removed) == Only(commands, {c \in ToSet(commands) : c.id \notin removed})

-----------------------------------------------------------------------------
(* Beginning: the root router's identifier is 1.                            *)

Starting(i, parent, pane) ==
  /\ starts < MaxStarts /\ starts' = starts + 1
  /\ origins' = Put(origins, i, [parent |-> parent, pane |-> pane])
  /\ conns' = Append(conns, i)
  /\ active' = i
  /\ serial' = [serial EXCEPT ![i] = starts + 1]
  /\ confirm' = None
  /\ UNCHANGED <<commands, abandon, graceful, leaving, requests, stray>>

StartRoot ==
  /\ \A i \in Live : origins[i].parent # 0
  /\ Starting(1, 0, 0)
  /\ UNCHANGED gateways

StartNested(p, pane) ==
  /\ p \in Live /\ ToSet(conns) # Ids
  /\ <<p, pane>> \in DOMAIN gateways => gateways[<<p, pane>>] = 0
  /\ gateways' = Put(gateways, <<p, pane>>, NextId)
  /\ Starting(NextId, p, pane)

-----------------------------------------------------------------------------
(* Graceful teardown.                                                       *)

\* advance_graceful_tmux_teardown: wait for the connection asked to detach,
\* then ask the next one that is still there.
Advance(g, o) ==
  LET left == {k \in 1..Len(g.remaining) : g.remaining[k] \in DOMAIN o}
      at == CHOOSE k \in left : \A j \in left : k <= j
      next == g.remaining[at]
  IN  IF g = None \/ g.awaiting \in DOMAIN o THEN [graceful |-> g, ask |-> 0]
      ELSE IF left = {} THEN [graceful |-> None, ask |-> 0]
      ELSE [graceful |-> [g EXCEPT !.remaining = SubSeq(@, at + 1, Len(@)), !.awaiting = next],
            ask |-> next]

\* queue_accessible_tmux_detach: of the connection itself.
Ask(i, q) == commands' = IF i = 0 THEN q ELSE Append(q, Ref(i))

\* Connections younger than the request are not what it was about.
Younger(i, asked) == i # 0 /\ serial[i] > asked

Requested == requests < MaxRequests /\ requests' = requests + 1

RequestDetach(i) ==
  LET g == [id |-> i, remaining |-> TeardownOrder(origins, i), awaiting |-> 0, serial |-> starts]
      a == Advance(g, origins)
  IN  /\ i \in Live
      /\ graceful' = a.graceful /\ abandon' = None
      /\ Ask(a.ask, commands)
      /\ Requested /\ UNCHANGED <<origins, conns, gateways, active, confirm, leaving, serial, starts, stray>>

\* Force-abandoning addresses the connection a cascade waits for, after a
\* confirmation.
RequestAbandon(i) ==
  /\ i \in Live
  /\ confirm' = LET w == IF graceful = None THEN 0 ELSE graceful.awaiting
                IN  Ref(IF w \in Subtree(origins, i) THEN w ELSE i)
  /\ Requested /\ UNCHANGED <<origins, conns, gateways, active, commands, abandon, graceful, leaving, serial, starts, stray>>

\* accept_gateway_confirmation: Control-backslash, and the deadline.
AcceptAbandon ==
  /\ confirm # None /\ confirm' = None
  /\ IF confirm.id \in Live
     THEN /\ graceful' = None /\ leaving' = leaving \cup {confirm.id}
          /\ abandon' = Ref(confirm.id)
     ELSE UNCHANGED <<graceful, leaving, abandon>>
  /\ UNCHANGED <<origins, conns, gateways, active, commands, serial, starts, requests, stray>>

\* begin_tmux_protocol_recovery
Recover(i) ==
  /\ i \in Live
  /\ commands' = CommandsOfOthers(Subtree(origins, i))
  /\ leaving' = leaving \cup {i}
  /\ abandon' = Ref(i)
  /\ Requested /\ UNCHANGED <<origins, conns, gateways, active, confirm, graceful, serial, starts, stray>>

-----------------------------------------------------------------------------
(* End.                                                                     *)

\* (The gateways of others that read a connection that goes are left.)
CleanedOwnOnly(g, removed) == [k \in {h \in DOMAIN g : h[1] \notin removed} |-> g[k]]

\* cleanup_nested_gateway_state
Cleaned(g, removed) ==
  [k \in {h \in DOMAIN g : h[1] \notin removed} |-> IF g[k] \in removed THEN 0 ELSE g[k]]

\* end_tmux_connection, with the gateways it finds.
End(i, g, strays) ==
  LET removed == Subtree(origins, i)
      o == Without(origins, removed)
      cs == Others(removed)
      a == Advance(graceful, o)
  IN  /\ origins' = o /\ conns' = cs
      /\ gateways' = Cleaned(g, removed)
      /\ abandon' = IF abandon.id \in removed THEN None ELSE abandon
      /\ confirm' = IF confirm.id \in removed THEN None ELSE confirm
      /\ active' = IF active = 0 \/ active \in ToSet(cs) THEN active
                   ELSE IF cs = <<>> THEN 0 ELSE Last(cs)
      /\ graceful' = a.graceful
      /\ Ask(a.ask, CommandsOfOthers(removed))
      /\ stray' = (stray \/ strays \/ (graceful # None /\ Younger(a.ask, graceful.serial)))
      /\ leaving' = leaving \ removed
      /\ UNCHANGED <<serial, starts, requests>>

\* The client of a connection exits, fails or is lost.
ClientGone(i) ==
  /\ i \in Live
  /\ End(i, gateways, FALSE)

\* resolve_destroyed_tmux_gateways: the pane that carried connections is gone.
DestroyPane(p, pane) ==
  /\ p \in Live
  /\ LET roots == {i \in Live : origins[i] = [parent |-> p, pane |-> pane]}
         removed == UNION {Subtree(origins, i) : i \in roots}
         cs == Others(removed)
     IN  /\ roots # {}
         /\ origins' = Without(origins, removed) /\ conns' = cs
         /\ gateways' = Cleaned(Restrict(gateways, DOMAIN gateways \ {<<p, pane>>}), removed)
         /\ commands' = CommandsOfOthers(removed)
         /\ confirm' = IF confirm.id \in removed THEN None ELSE confirm
         /\ active' = IF active \in removed THEN p ELSE active
         /\ leaving' = leaving \ removed
  /\ UNCHANGED <<abandon, graceful, serial, starts, requests, stray>>

\* expire_tmux_force_abandon: a fresh router takes the transport.
ExpireAbandon ==
  /\ abandon # None
  /\ IF abandon.id \in Live
     THEN LET o == origins[abandon.id]
              k == <<o.parent, o.pane>>
          IN  End(abandon.id, IF o.parent = 0 THEN gateways ELSE Put(gateways, k, 0),
                  Younger(abandon.id, abandon.serial))
     ELSE /\ abandon' = None
          /\ UNCHANGED <<origins, conns, gateways, active, commands, confirm, graceful, leaving, serial, starts, requests, stray>>

\* The user looks at the root terminal or at another connection.
Activate(i) ==
  /\ i \in Live \cup {0} /\ i # active /\ active' = i
  /\ UNCHANGED <<origins, conns, gateways, commands, confirm, abandon, graceful, leaving, serial, starts, requests, stray>>

\* A detach-client reaches its client.
DrainCommand ==
  /\ commands # <<>> /\ commands' = Tail(commands)
  /\ leaving' = leaving \cup {Head(commands).id}
  /\ UNCHANGED <<origins, conns, gateways, active, confirm, abandon, graceful, serial, starts, requests, stray>>

Next ==
  \/ StartRoot \/ AcceptAbandon \/ ExpireAbandon \/ DrainCommand
  \/ \E i \in Ids : \/ RequestDetach(i) \/ RequestAbandon(i) \/ Recover(i) \/ ClientGone(i)
                    \/ \E pane \in Panes : StartNested(i, pane) \/ DestroyPane(i, pane)
  \/ \E i \in Ids \cup {0} : Activate(i)

Spec == Init /\ [][Next]_connVars

-----------------------------------------------------------------------------
(* However connections start, end, lose their pane or are abandoned, nothing *)
(* names a connection that is gone or another one that took its identifier: *)
(* no child outlives the connection that carries it, every nested client is *)
(* read by exactly the gateway of its pane, and queued commands, a pending  *)
(* confirmation and the active connection are those of live connections     *)
(* (end_tmux_connection, resolve_destroyed_tmux_gateways).                   *)
NothingDangling ==
  /\ ToSet(conns) = Live /\ IsInjective(conns)
  /\ active \in Live \cup {0}
  /\ \A i \in Live : origins[i].parent # 0 =>
       /\ origins[i].parent \in Live
       /\ gateways[<<origins[i].parent, origins[i].pane>>] = i
  /\ \A k \in DOMAIN gateways :
       /\ k[1] \in Live
       /\ gateways[k] # 0 => gateways[k] \in Live /\ origins[gateways[k]] = [parent |-> k[1], pane |-> k[2]]
  /\ \A c \in ToSet(commands) \cup {confirm} :
       c # None => c.id \in Live /\ c.serial = serial[c.id]

(* A cascade asks a connection to detach only when everything that was      *)
(* nested in it when the user asked has gone.                               *)
DeepestFirst ==
  graceful # None /\ graceful.awaiting \in Live /\ serial[graceful.awaiting] <= graceful.serial =>
    \A i \in Subtree(origins, graceful.awaiting) \ {graceful.awaiting} : serial[i] > graceful.serial

(* "If it does not exit within ... milliseconds, Lector will stop           *)
(* interpreting that transport": an abandonment, or the detach of a         *)
(* cascade, strikes a connection the user was asked about, never one that   *)
(* has started since under the same identifier.                             *)
StrikesWhatWasAsked == ~stray

=============================================================================
