----------------------------- MODULE TmuxGateway -----------------------------
(***************************************************************************)
(* Telling a tmux control stream from ordinary output on one transport     *)
(* (TmuxGatewayRouter, with its TmuxControlParser), and the application's  *)
(* handling of a connection that ends, fails or never finishes.            *)
(*                                                                         *)
(* The transport carries symbols: "E" is ESC, "P" the rest of the start    *)
(* marker, "S" the backslash of ST; the others are whole lines: "x" a line *)
(* of the shell, "p" of a command's output, "ok" a notification, "bad" a   *)
(* malformed record, "exit", and "b1", "e1" the %begin and %end of a       *)
(* command block ("e2" has another tag).  The line length limit and octal  *)
(* decoding only make a record bad.                                        *)
(***************************************************************************)
EXTENDS Naturals, Sequences, FiniteSets, SequencesExt

CONSTANTS Payloads,    \* what a command may print: sequences of symbols
          MaxLines,    \* max_command_output_lines
          MaxWrites,   \* writes to the transport
          MaxChunk,    \* symbols per read
          MaxFaults    \* clients that die, cut their terminator or misspell

VARIABLES
  router,      \* the router and its parser
  connection,  \* the connection is registered
  terminator,  \* tmux_termination_deadline_ms is set
  abandon,     \* pending_force_abandon is set
  wire,        \* written and not yet read
  who,         \* who writes: "shell", "client", "prompt" (the shell, right after
               \* a client) or "eof"
  writes,
  faults,      \* what went wrong so far, a set of names
  shell,       \* ghost: what the shell wrote
  replied,     \* ghost: the blocks the client completed
  shown,       \* what went to the terminal
  commands     \* the replies the application received

gatewayVars == <<router, connection, terminator, abandon, wire, who, writes, faults, shell,
                 replied, shown, commands>>

\* prefix: a marker prefix is held.  The rest is ActiveControl: its parser's
\* command block (cmd, lines), unfinished line and ESC at the start of a line
\* (pst), the current record, and the flags saw_exit, terminator_escape_seen
\* and recovering.  out and events are what a push returns.
Direct ==
  [prefix |-> FALSE, on |-> FALSE, cmd |-> FALSE, lines |-> <<>>, line |-> <<>>, pst |-> FALSE,
   record |-> <<>>, exit |-> FALSE, esc |-> FALSE, rec |-> FALSE, out |-> <<>>, events |-> <<>>]

Init ==
  /\ router = Direct /\ connection = FALSE /\ terminator = FALSE /\ abandon = FALSE
  /\ wire = <<>> /\ who = "shell" /\ writes = 0 /\ faults = {}
  /\ shell = <<>> /\ replied = <<>> /\ shown = <<>> /\ commands = <<>>

Event(k, output) == [ev |-> k, output |-> output]
Raise(r, k, output) == [r EXCEPT !.events = Append(@, Event(k, output))]
Closed(r) == [Direct EXCEPT !.out = r.out, !.events = r.events]

-----------------------------------------------------------------------------
(* TmuxControlParser.  A result with "failed" set is an error.              *)

Parsed(r) == [r |-> r, failed |-> FALSE, ended |-> FALSE]
ParseError(r) == [r |-> r, failed |-> TRUE, ended |-> FALSE]

\* Only the terminator with the tag of the block ends it.
EndsBlock(line) == line = <<"e1">>

\* process_line
ProcessLine(r, line) ==
  IF r.cmd
  THEN IF EndsBlock(line)
       THEN Parsed([Raise(r, "Command", FlattenSeq(r.lines)) EXCEPT !.cmd = FALSE, !.lines = <<>>])
       ELSE IF Len(r.lines) = MaxLines THEN ParseError(r)
       ELSE Parsed([r EXCEPT !.lines = Append(@, line)])
  ELSE CASE line = <<"b1">>   -> Parsed([r EXCEPT !.cmd = TRUE])
         [] line = <<"ok">>   -> Parsed(Raise(r, "Notification", <<>>))
         [] line = <<"exit">> -> Parsed([Raise(r, "Exit", <<>>) EXCEPT !.exit = TRUE])
         [] OTHER -> ParseError(r)

\* push_byte, in the states after the start marker.
ParserPush(r, t) ==
  IF r.pst
  THEN IF t = "S" THEN [r |-> r, failed |-> FALSE, ended |-> TRUE] ELSE ParseError(r)
  ELSE IF t = "E" /\ r.line = <<>> /\ ~r.cmd THEN Parsed([r EXCEPT !.pst = TRUE])
  ELSE IF t \in {"E", "P", "S"} THEN Parsed([r EXCEPT !.line = Append(@, t)])
  ELSE ProcessLine([r EXCEPT !.line = <<>>], Append(r.line, t))

-----------------------------------------------------------------------------
(* TmuxGatewayRouter::push, one symbol.                                     *)

\* start_connection
Start(r) == Raise([Closed(r) EXCEPT !.on = TRUE], "Started", <<>>)

PushDirect(r, t) ==
  IF r.prefix
  THEN IF t = "P" THEN Start(r)
       ELSE [r EXCEPT !.prefix = (t = "E"), !.out = @ \o (IF t = "E" THEN <<"E">> ELSE <<"E", t>>)]
  ELSE IF t = "E" THEN [r EXCEPT !.prefix = TRUE] ELSE [r EXCEPT !.out = Append(@, t)]

PushRecovering(r, t) ==
  IF r.esc /\ t = "S" THEN Raise(Closed(r), "Ended", <<>>) ELSE [r EXCEPT !.esc = (t = "E")]

\* A parser error: back to direct output if the client had said %exit or the
\* record does not look like one, else drain the stream up to its ST.
Failing(r) ==
  LET f == Raise(r, IF r.exit THEN "MissingTerminator" ELSE "Protocol", <<>>)
  IN  IF r.exit \/ r.record[1] \in {"x", "p", "P", "S"}
      THEN [Closed(f) EXCEPT !.out = @ \o r.record]
      ELSE [f EXCEPT !.record = <<>>, !.rec = TRUE, !.exit = FALSE, !.esc = FALSE]

PushControl(r, t) ==
  LET r1 == [r EXCEPT !.esc = @ \/ (r.exit /\ t = "E"), !.record = Append(@, t)]
      p == ParserPush(r1, t)
  IN  IF p.failed THEN Failing(r1)
      ELSE IF p.ended
      THEN Raise(Closed(p.r), IF p.r.exit THEN "Ended" ELSE "MissingExit", <<>>)
      ELSE [p.r EXCEPT !.record = IF t \in {"E", "P", "S"} THEN @ ELSE <<>>]

Push(r, t) ==
  IF r.rec THEN PushRecovering(r, t)
  ELSE IF r.on /\ r.exit /\ ~r.esc /\ t # "E"
  THEN PushDirect(Raise(Closed(r), "MissingTerminator", <<>>), t)
  ELSE IF r.on THEN PushControl(r, t)
  ELSE PushDirect(r, t)

-----------------------------------------------------------------------------
(* The application: handle_tmux_gateway_event, after the whole read was     *)
(* pushed.                                                                  *)

Failures == {"Protocol", "MissingTerminator", "MissingExit", "TransportEof", "TerminatorTimeout"}

Handle(a, e) ==
  CASE e.ev = "Started" -> [a EXCEPT !.connection = TRUE, !.twice = @ \/ a.connection]
    [] e.ev = "Command" -> [a EXCEPT !.commands = Append(@, e.output)]
    [] e.ev = "Ended"   -> [a EXCEPT !.connection = FALSE, !.abandon = FALSE]
    [] e.ev \in Failures ->
         IF e.ev = "Protocol" /\ a.recovering THEN [a EXCEPT !.abandon = @ \/ a.connection]
         ELSE [a EXCEPT !.connection = FALSE, !.abandon = @ /\ ~a.connection]
    [] OTHER -> a

\* A second connection with the identifier of a live one is an error that
\* ends Lector (tmux_hierarchy.insert).
Handled(r) ==
  LET a == FoldLeft(Handle, [connection |-> connection, abandon |-> abandon, commands |-> commands,
                             recovering |-> r.rec, twice |-> FALSE], r.events)
  IN  /\ connection' = a.connection /\ abandon' = a.abandon /\ commands' = a.commands
      /\ faults' = faults \cup (IF a.twice THEN {"twice"} ELSE {})
                         \cup (IF (router.esc \/ wire # <<>>) /\ Event("TerminatorTimeout", <<>>) \in ToSet(r.events)
                                THEN {"late"} ELSE {})
      /\ shown' = shown \o r.out
      /\ router' = [r EXCEPT !.out = <<>>, !.events = <<>>]

\* handle_pty, with sync_root_tmux_termination_deadline.
HandlePty(n) ==
  /\ n \in 1..MaxChunk /\ n <= Len(wire)
  /\ wire' = SubSeq(wire, n + 1, Len(wire))
  /\ LET r == FoldLeft(Push, router, SubSeq(wire, 1, n))
     IN  Handled(r) /\ terminator' = (r.on /\ r.exit /\ ~r.rec)
  /\ UNCHANGED <<who, writes, shell, replied>>

Expired == IF router.on /\ router.exit
           THEN Raise(Closed(router), "TerminatorTimeout", <<>>) ELSE router

\* expire_tmux_gateway_terminators.  An ESC that was waiting for its
\* backslash goes with the connection, and what still comes is shown.
ExpireTerminator ==
  /\ terminator /\ terminator' = FALSE
  /\ Handled(Expired)
  /\ UNCHANGED <<wire, who, writes, shell, replied>>

\* expire_tmux_force_abandon: the raw channel is exposed.
ExpireAbandon ==
  /\ abandon /\ abandon' = FALSE
  /\ IF connection THEN router' = Direct /\ connection' = FALSE /\ terminator' = FALSE
                   ELSE UNCHANGED <<router, connection, terminator>>
  /\ faults' = faults \cup {"exposed"}
  /\ UNCHANGED <<wire, who, writes, shell, replied, shown, commands>>

\* handle_pty_eof
HandleEof ==
  /\ who = "eof" /\ wire = <<>> /\ terminator' = FALSE
  /\ Handled(IF router.rec THEN Raise(Closed(router), "Ended", <<>>)
             ELSE IF router.on
             THEN Raise(Closed(router), IF router.exit THEN "MissingTerminator" ELSE "TransportEof", <<>>)
             ELSE [router EXCEPT !.prefix = FALSE, !.out = IF router.prefix THEN <<"E">> ELSE <<>>])
  /\ UNCHANGED <<wire, who, writes, shell, replied>>

-----------------------------------------------------------------------------
(* The shell and the tmux client behind the transport (external).           *)

Writes(s) == writes < MaxWrites /\ writes' = writes + 1 /\ wire' = wire \o s

Idle == UNCHANGED <<router, connection, terminator, abandon, shown, commands>>

ShellWrites(s) ==
  /\ who \in {"shell", "prompt"} /\ Writes(s) /\ shell' = shell \o s
  /\ who' = "shell"
  /\ UNCHANGED <<faults, replied>> /\ Idle

\* A shell prompts before it runs the next client.
ClientStarts ==
  /\ who = "shell" /\ Writes(<<"E", "P">>) /\ who' = "client"
  /\ UNCHANGED <<faults, shell, replied>> /\ Idle

ClientNotifies ==
  /\ who = "client" /\ Writes(<<"ok">>)
  /\ UNCHANGED <<who, faults, shell, replied>> /\ Idle

ClientReplies(p) ==
  /\ who = "client" /\ Writes(<<"b1">> \o p \o <<"e1">>)
  /\ replied' = Append(replied, p)
  /\ UNCHANGED <<who, faults, shell>> /\ Idle

ClientExits ==
  /\ who = "client" /\ Writes(<<"exit", "E", "S">>) /\ who' = "prompt"
  /\ UNCHANGED <<faults, shell, replied>> /\ Idle

Fault(f) == Cardinality(faults \cap {"cut", "died", "bad", "flood"}) < MaxFaults /\ faults' = faults \cup {f}

\* The terminator is cut off, the client dies, it sends a malformed record,
\* or a command prints more than the parser keeps.
ClientFails ==
  /\ who = "client"
  /\ \/ Fault("cut") /\ Writes(<<"exit">>) /\ who' = "prompt"
     \/ Fault("died") /\ Writes(<<>>) /\ who' = "prompt"
     \/ Fault("bad") /\ Writes(<<"bad">>) /\ UNCHANGED who
     \/ Fault("flood") /\ UNCHANGED who
        /\ Writes(<<"b1">> \o [i \in 1..MaxLines + 1 |-> "p"] \o <<"e1">>)
  /\ UNCHANGED <<shell, replied>> /\ Idle

TransportEnds ==
  /\ who # "eof" /\ who' = "eof" /\ UNCHANGED <<wire, writes, faults, shell, replied>> /\ Idle

Next ==
  \/ \E n \in 1..MaxChunk : HandlePty(n)
  \/ ExpireTerminator \/ ExpireAbandon \/ HandleEof
  \/ \E s \in {<<"x">>, <<"E", "x">>} : ShellWrites(s)
  \/ ClientStarts \/ ClientNotifies \/ ClientExits \/ ClientFails \/ TransportEnds
  \/ \E p \in Payloads : ClientReplies(p)

Spec == /\ Init /\ [][Next]_gatewayVars
        /\ WF_gatewayVars(ExpireTerminator) /\ WF_gatewayVars(ExpireAbandon)

-----------------------------------------------------------------------------
(* The user sees what the shell writes and nothing of the control stream,   *)
(* and the application sees every reply of the client whole and in order,   *)
(* wherever reads cut the stream and whatever a reply imitates.  With a     *)
(* client that died or that misspelt a record, only that much holds that no *)
(* record is shown before the channel is exposed on purpose; a terminator   *)
(* later than its deadline is split or shown, one that was cut off costs    *)
(* nothing.  (A command that prints more lines than the parser keeps is     *)
(* exempt: its next line does not look like a record, so the router goes    *)
(* back to direct output and shows the rest of the control stream.)         *)
StreamsSeparated ==
  /\ faults \subseteq {"cut"} =>
       /\ IsPrefix(shown, shell)
       /\ wire = <<>> /\ ~router.on => shell = shown \o (IF router.prefix THEN <<"E">> ELSE <<>>)
       /\ IsPrefix(commands, replied)
       /\ wire = <<>> => commands = replied
  /\ faults \cap {"exposed", "flood"} = {} => ToSet(shown) \subseteq {"x", "E", "S"}
  /\ "twice" \notin faults

Returned == ~router.exit /\ ~router.rec

(* A client that said %exit, or whose stream is being drained after a       *)
(* malformed record, does not keep the terminal: its deadline returns the   *)
(* transport to direct output.                                              *)
ControlEnds == []<>Returned

=============================================================================
