------------------------------ MODULE TmuxKeys ------------------------------
(***************************************************************************)
(* Keys pressed over a tmux connection (app/tmux_prefix.rs, tmux_prefix.rs,*)
(* tmux_input.rs, the command queue of app/pty.rs).  Lector plays tmux's   *)
(* prefix and key tables itself, out of the bindings and options its last  *)
(* inventory brought, and what a key asks for goes to the server as a      *)
(* command: send-keys for a pane, the binding's command, or what a popup   *)
(* or a chooser settled.  Commands and replies are two first-in first-out  *)
(* streams, and every command waits for one reply.                         *)
(***************************************************************************)
EXTENDS Integers, Sequences, FiniteSets, SequencesExt

CONSTANTS Panes,        \* of the window at first
          Keys,         \* that are pressed
          Chunk,        \* keys that fit MAX_SEND_KEYS_COMMAND_BYTES
          ReplyLimit,   \* TMUX_EXPECTED_REPLY_LIMIT
          MaxKeys,      \* bound: keys and answers of the user
          MaxRefused    \* bound: commands the server refuses

VARIABLES phase,        \* prefix_state: kind, table, fresh (not expired)
          override,     \* key_table_override, or "-"
          known,        \* the topology: key table option, active pane, live panes
          inventory,    \* inventory_replies_remaining is not zero
          overlay,      \* <<>> or the popup or chooser over the connection
          queue,        \* pending_tmux_commands
          sent,         \* written, not executed
          replies,      \* executed, not read
          server,       \* the table option, the active pane, the live panes
          acts,         \* number of what the user asked for so far
          refused,
          done,         \* history: the acts the server carried out, in order
          discarded     \* history: a command was dropped at the limit

keyVarsTmux == <<phase, override, known, inventory, overlay, queue, sent, replies, server, acts,
                 refused, done, discarded>>

Idle == [kind |-> "none", table |-> "-", fresh |-> FALSE]
Awaiting(table) == [kind |-> "awaiting", table |-> table, fresh |-> TRUE]
Repeating(table) == [kind |-> "repeating", table |-> table, fresh |-> TRUE]

Init ==
    /\ phase = Idle /\ override = "-" /\ overlay = <<>>
    /\ server = [table |-> "root", active |-> CHOOSE p \in Panes : TRUE, alive |-> Panes]
    /\ known = server /\ inventory = FALSE
    /\ queue = <<>> /\ sent = <<>> /\ replies = <<>>
    /\ acts = 0 /\ refused = 0 /\ done = <<>> /\ discarded = FALSE

\* The user's configuration: in the prefix table "o" moves to the other pane and
\* repeats, "k" kills one after a question, "t" makes "off" the key table, "e"
\* reads one key in "extra", "w" opens a chooser; "t" in "off" turns it back.
Prefix == "p"
Unbound == [command |-> "-", repeats |-> FALSE]
Binding(table, key) ==
    CASE table = "prefix" /\ key = "o" -> [command |-> "select", repeats |-> TRUE]
      [] table = "prefix" /\ key = "k" -> [command |-> "confirm", repeats |-> FALSE]
      [] table = "prefix" /\ key = "w" -> [command |-> "choose", repeats |-> FALSE]
      [] table = "prefix" /\ key = "t" -> [command |-> "off", repeats |-> FALSE]
      [] table = "prefix" /\ key = "p" -> [command |-> "send-prefix", repeats |-> FALSE]
      [] table = "prefix" /\ key = "e" -> [command |-> "extra", repeats |-> FALSE]
      [] table = "extra" /\ key = "o" -> [command |-> "select", repeats |-> FALSE]
      [] table = "off" /\ key = "t" -> [command |-> "root", repeats |-> FALSE]
      [] OTHER -> Unbound

-----------------------------------------------------------------------------
(* The queue.                                                              *)

Input(pane, key) == [kind |-> "input", pane |-> pane, keys |-> <<key>>, numbers |-> <<acts + 1>>]
Command(what, pane) == [kind |-> what, pane |-> pane, keys |-> <<>>, numbers |-> <<acts + 1>>]
Inventory == [kind |-> "inventory", pane |-> 0, keys |-> <<>>, numbers |-> <<>>]

\* queue_tmux_input: joins the newest entry when that is input of the same pane
Join(n, entry) == [queue EXCEPT ![n].keys = @ \o entry.keys, ![n].numbers = @ \o entry.numbers]
QueuedAnywhere(entry) ==                                                       \* mutant
    LET same == {n \in DOMAIN queue : queue[n].kind = "input" /\ queue[n].pane = entry.pane}
    IN IF entry.kind = "input" /\ same # {} THEN Join(CHOOSE n \in same : TRUE, entry) ELSE Append(queue, entry)
Queued(entry) ==
    IF entry.kind = "input" /\ queue # <<>> /\ Last(queue).kind = "input" /\ Last(queue).pane = entry.pane
    THEN Join(Len(queue), entry) ELSE Append(queue, entry)

\* classify_binding, execute_tmux_binding
Executed(command) ==
    /\ override' = IF command \in {"off", "root"} THEN command ELSE override
    /\ overlay' = CASE command = "confirm" /\ known.active \in known.alive -> <<[kind |-> "kill", pane |-> known.active]>>
                    [] command = "choose" -> <<[kind |-> "choose", pane |-> 0]>>
                    [] OTHER -> overlay
    /\ queue' = CASE command \in {"select", "off", "root", "extra"} -> Queued(Command(command, 0))
                  [] command = "send-prefix" /\ known.active \in known.alive -> Queued(Input(known.active, Prefix))
                  [] OTHER -> queue

\* What a binding leaves of prefix_state: a repeatable one rearms its table over
\* whatever the command itself set.
After(table, b) == IF b.repeats THEN Repeating(table)
                   ELSE IF b.command = "extra" THEN Awaiting("extra") ELSE Idle

\* handle_tmux_prefix_key
DefaultTable == IF override = "-" THEN known.table ELSE override
Press(key) ==
    LET table == IF phase.kind = "none" \/ (phase.kind = "repeating" /\ ~phase.fresh) THEN "-" ELSE phase.table
        waiting == phase.kind = "awaiting"
        repeat == table # "-" /\ ~waiting /\ Binding(table, key).repeats
        found == IF waiting \/ repeat THEN Binding(table, key)
                 ELSE IF key = Prefix THEN Unbound ELSE Binding(DefaultTable, key)
        forwarded == IF waiting THEN found = Unbound /\ table # "prefix"
                     ELSE found = Unbound /\ key # Prefix
    IN /\ acts < MaxKeys /\ overlay = <<>> /\ acts' = acts + 1
       /\ phase' = IF found # Unbound THEN After(IF waiting \/ repeat THEN table ELSE DefaultTable, found)
                   ELSE IF key = Prefix /\ ~waiting THEN Awaiting("prefix") ELSE Idle
       /\ IF found # Unbound THEN Executed(found.command)
          ELSE /\ queue' = IF forwarded /\ known.active \in known.alive THEN Queued(Input(known.active, key)) ELSE queue
               /\ UNCHANGED <<override, overlay>>
       /\ UNCHANGED <<known, inventory, sent, replies, server, refused, done, discarded>>

\* The repeat time is over.
Expire ==
    /\ phase.kind = "repeating" /\ phase.fresh /\ phase' = [phase EXCEPT !.fresh = FALSE]
    /\ UNCHANGED <<override, known, inventory, overlay, queue, sent, replies, server, acts, refused,
                   done, discarded>>

\* The popup is answered: tmux_confirmation_target_exists
Answer(yes) ==
    /\ overlay # <<>> /\ overlay[1].kind = "kill" /\ acts < MaxKeys /\ acts' = acts + 1
    /\ overlay' = <<>>
    /\ queue' = IF yes /\ overlay[1].pane \in known.alive THEN Queued(Command("kill", overlay[1].pane)) ELSE queue
    /\ UNCHANGED <<phase, override, known, inventory, sent, replies, server, refused, done, discarded>>

\* handle_tmux_chooser_selection: of a pane the chooser listed, if it is still there
Choose(pane) ==
    /\ overlay # <<>> /\ overlay[1].kind = "choose" /\ acts < MaxKeys /\ acts' = acts + 1
    /\ overlay' = IF pane \in known.alive THEN <<>> ELSE overlay
    /\ queue' = IF pane \in known.alive THEN Queued(Command("select-pane", pane)) ELSE queue
    /\ UNCHANGED <<phase, override, known, inventory, sent, replies, server, refused, done, discarded>>

\* encode_send_keys
Encoded(entry) ==
    IF entry.kind # "input" THEN <<entry>>
    ELSE LET n == (Len(entry.keys) + Chunk - 1) \div Chunk
             last(i) == IF i * Chunk < Len(entry.keys) THEN i * Chunk ELSE Len(entry.keys)
         IN [i \in 1 .. n |-> [entry EXCEPT !.keys = SubSeq(entry.keys, (i - 1) * Chunk + 1, last(i)),
                                            !.numbers = SubSeq(entry.numbers, (i - 1) * Chunk + 1, last(i))]]

\* expected_replies
Unanswered == Len(sent) + Len(SelectSeq(replies, LAMBDA r : r.kind # "notice"))

\* drain_tmux_commands_for, route_tmux_command: a command whose replies would pass
\* the limit is dropped.
Drain ==
    /\ queue # <<>> /\ queue' = Tail(queue)
    /\ LET encoded == Encoded(Head(queue))
       IN IF Unanswered + Len(encoded) > ReplyLimit THEN discarded' = TRUE /\ UNCHANGED sent
          ELSE sent' = sent \o encoded /\ UNCHANGED discarded
    /\ UNCHANGED <<phase, override, known, inventory, overlay, replies, server, acts, refused, done>>

-----------------------------------------------------------------------------
(* The server, and what it says.                                           *)

Others(pane) == server.alive \ {pane}
Changed(c) ==
    CASE c.kind = "select" /\ Others(server.active) # {} -> [server EXCEPT !.active = CHOOSE p \in Others(server.active) : TRUE]
      [] c.kind = "select-pane" /\ c.pane \in server.alive -> [server EXCEPT !.active = c.pane]
      [] c.kind = "kill" /\ c.pane \in server.alive /\ Others(c.pane) # {} ->
             [server EXCEPT !.alive = @ \ {c.pane}, !.active = IF @ = c.pane THEN CHOOSE p \in Others(c.pane) : TRUE ELSE @]
      [] c.kind \in {"off", "root"} -> [server EXCEPT !.table = c.kind]
      [] OTHER -> server

Execute(ok) ==
    /\ sent # <<>> /\ sent' = Tail(sent)
    /\ ok \/ (refused < MaxRefused /\ Head(sent).kind \notin {"input", "inventory"})
    /\ refused' = IF ok THEN refused ELSE refused + 1
    /\ LET c == Head(sent)
           after == IF ok THEN Changed(c) ELSE server
           notice == IF <<after.active, after.alive>> # <<server.active, server.alive>>
                     THEN <<[kind |-> "notice", ok |-> TRUE, state |-> after]>> ELSE <<>>
       IN /\ server' = after
          /\ replies' = replies \o <<[kind |-> c.kind, ok |-> ok, state |-> after]>> \o notice
          /\ done' = IF ok THEN done \o c.numbers ELSE done
    /\ UNCHANGED <<phase, override, known, inventory, overlay, queue, acts, discarded>>

\* command_may_change_key_configuration, of a reply of whatever status
MayChange(r) == r.kind \in {"off", "root"}

\* handle_tmux_control_event: an inventory replaces what is known; a notice, or a
\* command that may have changed the keys, asks for one unless one is on its way.
Read ==
    /\ replies # <<>> /\ replies' = Tail(replies)
    /\ LET r == Head(replies)
           ask == (r.kind = "notice" \/ MayChange(r)) /\ ~inventory
       IN /\ known' = IF r.kind = "inventory" THEN r.state ELSE known
          /\ override' = IF r.kind = "inventory" THEN "-" ELSE override
          /\ inventory' = (r.kind # "inventory" /\ (ask \/ inventory))
          /\ queue' = IF ask THEN Append(queue, Inventory) ELSE queue
    /\ UNCHANGED <<phase, overlay, sent, server, acts, refused, done, discarded>>

Next == \/ \E key \in Keys : Press(key)
        \/ Expire \/ Drain \/ Read
        \/ \E yes \in BOOLEAN : Answer(yes) \/ Execute(yes)
        \/ \E pane \in Panes : Choose(pane)

Spec == Init /\ [][Next]_keyVarsTmux

-----------------------------------------------------------------------------
(* Properties.                                                             *)

\* The server carries out what the keys asked for in the order they were pressed:
\* typed text never passes a command, nor a command typed text.
ActsInOrder == \A m, n \in DOMAIN done : m < n => done[m] < done[n]

\* docs/tmux-prefix.md:22-24: a command that may change the keys "automatically
\* requests a fresh inventory even when tmux reports an error".  Once every
\* command is answered and every answer read, Lector plays the tables tmux has,
\* unless a command was dropped because too many were unanswered.
KeysAreCurrent ==
    (queue = <<>> /\ sent = <<>> /\ replies = <<>> /\ ~discarded) =>
        /\ ~inventory /\ override = "-" /\ known.table = server.table

\* docs/tmux-adversary.md:85: with too many commands unanswered, Lector discards
\* "new commands until replies resume".  An inventory that is waited for is then
\* still on its way: every later one waits for it to end.
AwaitedIsComing ==
    inventory => \E n \in DOMAIN (queue \o sent \o replies) : (queue \o sent \o replies)[n].kind = "inventory"
=============================================================================
