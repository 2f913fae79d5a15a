-------------------------------- MODULE Tmux --------------------------------
(* What Lector keeps about tmux: the flow of one pane, the gateway that     *)
(* tells a control stream from a terminal, the tree of connections, the     *)
(* topology, the panes' copies, and the prefix keys.  A behaviour picks one *)
(* of them and runs it alone: the others reach it as the inputs its module  *)
(* enumerates.                                                              *)
EXTENDS TmuxPaneFlow

CONSTANTS
    MaxLines, MaxWrites, MaxChunk, MaxLosses,      \* of TmuxGateway
    MaxIds, ConnPanes, MaxStarts, MaxRequests,     \* of TmuxConnections
    Sessions, Windows, Panes, MaxChanges, MaxErrors,   \* of TmuxTopology
    CopyPanes, CopyChunks, BufferLimit, MaxOutput, MaxRefused,   \* of TmuxPanes
    KeyPanes, Keys, Chunk, KeyReplyLimit, MaxKeys, MaxBad     \* of TmuxKeys

\* tmux numbers what it has; the first of each is there from the beginning.
ASSUME TopologyAssumption ==
    /\ Sessions \cup Windows \cup Panes \subseteq Nat \ {0}
    /\ 1 \in Sessions /\ 1 \in Windows /\ 1 \in Panes

\* The root router's connection has the first identifier.
ASSUME ConnectionsAssumption == MaxIds \in Nat \ {0}

\* A command carries at least one key, and a window has a pane.
ASSUME KeysAssumption == Chunk \in Nat \ {0} /\ KeyPanes # {}

VARIABLES
    part,        \* the component of this behaviour
    \* TmuxGateway
    router, connection, terminator, abandon, bytes, who, writes, gatewayFaults, shell,
    replied, shown, commands,
    \* TmuxConnections
    origins, conns, gateways, active, connCommands, confirm, connAbandon, graceful, leaving,
    serial, starts, requests, stray,
    \* TmuxTopology
    server, topology, stream, queries, remaining, got, failed, retried, gaveUp, raced,
    changes, errors,
    \* TmuxPanes
    alive, contents, feed, asked, known, inventoried, copies, orphans, buffered, flags,
    ended, baseline, refused, wrote,
    \* TmuxKeys
    phase, override, knownKeys, inventory, overlay, queue, sent, replies, keyServer, acts,
    refusedKeys, done, discarded

\* Results of commands: none, text, what looks like the end of another, a block within.
Gateway == INSTANCE TmuxGateway WITH
    Payloads <- {<<>>, <<"p">>, <<"e2">>, <<"E", "e1", "ok">>},
    MaxFaults <- MaxLosses, wire <- bytes, faults <- gatewayFaults
Conns == INSTANCE TmuxConnections WITH
    Panes <- ConnPanes, commands <- connCommands, abandon <- connAbandon
Topo == INSTANCE TmuxTopology
Copies == INSTANCE TmuxPanes WITH Panes <- CopyPanes, Chunks <- CopyChunks
Prefix == INSTANCE TmuxKeys WITH
    Panes <- KeyPanes, ReplyLimit <- KeyReplyLimit, MaxRefused <- MaxBad,
    known <- knownKeys, server <- keyServer, refused <- refusedKeys

flowVars == <<mode, app, srv, wire, faults, erased>>
gatewayVars ==
    <<router, connection, terminator, abandon, bytes, who, writes, gatewayFaults, shell,
      replied, shown, commands>>
connVars ==
    <<origins, conns, gateways, active, connCommands, confirm, connAbandon, graceful, leaving,
      serial, starts, requests, stray>>
topoVars ==
    <<server, topology, stream, queries, remaining, got, failed, retried, gaveUp, raced,
      changes, errors>>
paneVars ==
    <<alive, contents, feed, asked, known, inventoried, copies, orphans, buffered, flags,
      ended, baseline, refused, wrote>>
keyVars ==
    <<phase, override, knownKeys, inventory, overlay, queue, sent, replies, keyServer, acts,
      refusedKeys, done, discarded>>
tmuxVars == <<part, flowVars, gatewayVars, connVars, topoVars, paneVars, keyVars>>

TmuxInit ==
    /\ part \in {"flow", "gateway", "connections", "topology", "panes", "keys"}
    /\ Init /\ Gateway!Init /\ Conns!Init /\ Topo!Init /\ Copies!Init /\ Prefix!Init
    /\ part # "flow" => Visible
    /\ part # "panes" => alive = {1} /\ contents[1] = <<>>

InFlow ==
    part = "flow" /\ Next /\ UNCHANGED <<part, gatewayVars, connVars, topoVars, paneVars, keyVars>>
InGateway ==
    part = "gateway" /\ Gateway!Next /\ UNCHANGED <<part, flowVars, connVars, topoVars, paneVars, keyVars>>
InConnections ==
    part = "connections" /\ Conns!Next /\ UNCHANGED <<part, flowVars, gatewayVars, topoVars, paneVars, keyVars>>
InTopology ==
    part = "topology" /\ Topo!Next /\ UNCHANGED <<part, flowVars, gatewayVars, connVars, paneVars, keyVars>>
InPanes ==
    part = "panes" /\ Copies!Next /\ UNCHANGED <<part, flowVars, gatewayVars, connVars, topoVars, keyVars>>
InKeys ==
    part = "keys" /\ Prefix!Next /\ UNCHANGED <<part, flowVars, gatewayVars, connVars, topoVars, paneVars>>

TmuxNext == InFlow \/ InGateway \/ InConnections \/ InTopology \/ InPanes \/ InKeys

\* Each component's own fairness, while it is the one that runs.
TmuxFairness ==
    /\ WF_flowVars(part = "flow" /\ TmuxExecutes)
    /\ WF_flowVars(part = "flow" /\ \E exceeds, full \in BOOLEAN : ProcessControl(exceeds, full))
    /\ WF_flowVars(part = "flow" /\ \E share \in BOOLEAN : HandleTick(share))
    /\ WF_flowVars(part = "flow" /\ Elapse)
    /\ WF_gatewayVars(part = "gateway" /\ Gateway!ExpireTerminator)
    /\ WF_gatewayVars(part = "gateway" /\ Gateway!ExpireAbandon)
    /\ WF_topoVars(part = "topology" /\ Topo!ProcessControl)
    /\ WF_topoVars(part = "topology" /\ Topo!Execute(TRUE))
    /\ WF_paneVars(part = "panes" /\ Copies!Read)
    /\ WF_paneVars(part = "panes" /\ Copies!Execute(TRUE))
TmuxSpec == TmuxInit /\ [][TmuxNext]_tmuxVars /\ TmuxFairness

-----------------------------------------------------------------------------
(* Until a recapture marker is erased a Running pane is exactly tmux's,     *)
(* captures never overlap, and a stale visible pane has something that      *)
(* wakes its recovery (app/pty.rs, the pane flow).                          *)
FlowExact == TypeOK /\ ExactUntilErased /\ OneTransaction /\ RecoveryHasAWakeup

(* Nothing names a connection that is gone, and a cascade detaches the      *)
(* deepest first (app/pty.rs, end_tmux_connection; app/tmux_interaction.rs).*)
ConnectionsExact == Conns!NothingDangling /\ Conns!DeepestFirst

(* Once tmux has been heard out Lector knows exactly what there is, unless  *)
(* tmux changed between two commands of the last inventory (tmux_model.rs,  *)
(* replace_inventory).                                                      *)
SettledIsExact == Topo!SettledIsExact

(* The user sees the shell and nothing of the control stream, the           *)
(* application sees every reply whole (tmux_gateway.rs, tmux_control.rs); a *)
(* filled copy shows what its pane shows, up to the output still to come    *)
(* (tmux_panes.rs, TmuxPaneSet).                                            *)
StreamsExact == Gateway!StreamsSeparated /\ Copies!CopiesExact

(* Keys act in the order pressed, through tables that are tmux's once all   *)
(* is answered (tmux_prefix.rs, app/pty.rs).                                *)
KeysExact == Prefix!ActsInOrder /\ Prefix!KeysAreCurrent

Settled ==
    CASE part = "flow" -> Visible => app.flow.status = "Running"
      [] part = "gateway" -> Gateway!Returned
      [] part = "topology" -> remaining = 0
      [] part = "panes" -> Copies!AllFilled
      [] OTHER -> TRUE

(* A pane that stays visible recovers again and again; a control stream     *)
(* that ended or went wrong gives the terminal back; an inventory ends; and *)
(* every pane that stays is filled.  (TmuxPaneFlow!Recovers, TmuxGateway!   *)
(* ControlEnds, TmuxTopology!InventoryEnds and TmuxPanes!PanesAreFilled in  *)
(* one formula, since a behaviour runs one component.)                      *)
TmuxProgress == []<>Settled

(* "A failed capture replays it so live bytes are not lost": the refusal of *)
(* a capture is survived (tmux_panes.rs, bootstrap; app/pty.rs).            *)
RefusalSurvived == Copies!RefusalSurvived
=============================================================================
