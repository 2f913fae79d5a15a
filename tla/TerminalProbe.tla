---------------------------- MODULE TerminalProbe ----------------------------
(***************************************************************************)
(* Whose input is it?  The physical terminal's answers to Lector's own     *)
(* queries arrive in the same stream as the user's keys: the focus-mode    *)
(* query before the event loop, the startup probes consumed by             *)
(* StartupProbeBroker, and the DA1 fence ShutdownFenceBroker waits for.    *)
(* A byte carries, for the properties only, who sent it.                   *)
(***************************************************************************)
EXTENDS Naturals, Sequences, SequencesExt

CONSTANTS MaxReply,   \* MAX_PROBE_REPLY_BYTES
          MaxWire,    \* nothing more arrives while this many bytes are unread
          MaxKeys     \* bytes the user types

VARIABLES
  stage,       \* "focus", "probe", "fence", "closed"
  answered,    \* answers the terminal has sent
  pressed,     \* bytes of the keys pressed
  coming,      \* rest of the key or answer that is arriving
  wire,        \* bytes in the kernel
  held,        \* StartupProbeBroker.pending, then ShutdownFenceBroker.pending
  discarding,  \* discarding_oversized
  finished, da1,   \* finished, primary_device_attributes_received
  output,      \* bytes passed on as user input
  ignore,      \* replies_to_ignore minus observed_replies
  matched,     \* sender of the reply that released the fence
  cut,         \* answers the inactivity timeout cut in two
  behind       \* answers right behind a lone Escape of the user

probeVars == <<stage, answered, pressed, coming, wire, held, discarding, finished, da1,
               output, ignore, matched, cut, behind>>

-----------------------------------------------------------------------------
(* Bytes: "E" escape, "[" and "]" introducers, "?" a parameter, "g" BEL;    *)
(* "f", "c" and "k" end a CSI sequence, "k" is a letter; the color answer   *)
(* stands for one longer than the limit.                                    *)

Answers == <<"focus", "color", "da1", "fence">>
Text == [focus |-> <<"E", "[", "?", "f">>,
         color |-> <<"E", "]", "?", "?", "?", "g">>,
         da1 |-> <<"E", "[", "?", "c">>, fence |-> <<"E", "[", "?", "c">>]
Keys == {<<"k">>, <<"E">>, <<"E", "[", "k">>}
Finals == {"f", "c", "k"}

From(sender, text) == [i \in 1..Len(text) |-> [c |-> text[i], from |-> sender]]
Chars(bytes) == [i \in 1..Len(bytes) |-> bytes[i].c]

\* Queries sent so far: the focus query, the startup probes, the fence.
Asked == CASE stage = "focus" -> 1 [] stage = "probe" -> 3 [] OTHER -> 4

Init ==
  /\ stage = "focus" /\ answered = 0 /\ pressed = <<>> /\ coming = <<>> /\ wire = <<>>
  /\ held = <<>> /\ discarding = "no" /\ finished = FALSE /\ da1 = FALSE
  /\ output = <<>> /\ ignore = 0 /\ matched = "nobody" /\ cut = {} /\ behind = {}

\* A key or an answer arrives undivided by others, but perhaps in two parts.
Arrives(bytes) ==
  /\ coming = <<>> /\ Len(wire) < MaxWire
  /\ \E n \in 1..Len(bytes) :
       /\ wire' = wire \o SubSeq(bytes, 1, n)
       /\ coming' = SubSeq(bytes, n + 1, Len(bytes))

\* The terminal answers in the order it was asked, as late as it likes.
Answer ==
  /\ answered < Asked /\ stage # "closed"
  /\ answered' = answered + 1
  /\ Arrives(From(Answers[answered'], Text[Answers[answered']]))
  /\ UNCHANGED <<stage, pressed, held, discarding, finished, da1, output, ignore, matched, cut, behind>>

Press(key) ==
  /\ Len(pressed) + Len(key) <= MaxKeys /\ stage \in {"focus", "probe"}
  /\ pressed' = pressed \o key
  /\ Arrives(From("user", key))
  /\ UNCHANGED <<stage, answered, held, discarding, finished, da1, output, ignore, matched, cut, behind>>

RestArrives ==
  /\ coming # <<>> /\ coming' = <<>> /\ wire' = wire \o coming
  /\ UNCHANGED <<stage, answered, pressed, held, discarding, finished, da1, output, ignore, matched, cut, behind>>

-----------------------------------------------------------------------------
(* StartupProbeBroker.                                                      *)

\* complete_escape_len, 0 when incomplete: only the last byte can complete.
CompleteLen(c) ==
  LET n == Len(c)
  IN  IF n < 2 THEN 0
      ELSE IF c[2] = "[" THEN IF n > 2 /\ c[n] \in Finals THEN n ELSE 0
      ELSE IF c[2] = "]" THEN IF c[n] = "g" THEN n ELSE 0
      ELSE 2

\* consume_reply: a complete sequence of the probes' vocabulary.
Recognised(c) == c \in {Text[a] : a \in {"focus", "color", "da1"}}

Senders(bytes) == {bytes[i].from : i \in 1..Len(bytes)} \ {"user"}

\* One byte through ingest's loop with nothing held but this sequence.
IngestHeld(bytes) ==
  LET c == Chars(bytes)
      n == CompleteLen(c)
      none == [held |-> <<>>, discarding |-> "no", out |-> <<>>, da1 |-> FALSE]
  IN  IF c[1] # "E" THEN [none EXCEPT !.out = bytes]
      ELSE IF n = 0
      THEN IF Len(c) > MaxReply
           THEN [none EXCEPT !.discarding = IF c[2] = "[" THEN "csi" ELSE "string"]
           ELSE [none EXCEPT !.held = bytes]
      ELSE IF n > MaxReply THEN none
      ELSE IF Recognised(c) THEN [none EXCEPT !.da1 = c = Text.da1]
      ELSE [none EXCEPT !.out = bytes]

\* OversizedSequence::consume: the byte that ends what is being discarded.
EndsDiscard(c) == IF discarding = "csi" THEN c \in Finals ELSE c = "g"

\* A reply right behind an escape the user just pressed is not recognisable,
\* for the two escapes are taken as one sequence.
AfterLoneEscape(byte) == Chars(held) = <<"E">> /\ byte.c = "E"

Ingest(byte) ==
  IF discarding # "no"
  THEN /\ discarding' = IF EndsDiscard(byte.c) THEN "no" ELSE discarding
       /\ UNCHANGED <<held, output, da1, finished, behind>>
  ELSE LET r == IngestHeld(Append(held, byte))
       IN  /\ held' = r.held /\ discarding' = r.discarding
           /\ output' = output \o r.out
           /\ da1' = (da1 \/ r.da1) /\ finished' = (finished \/ r.da1)
           /\ behind' = IF AfterLoneEscape(byte) THEN behind \cup Senders(<<byte>>) ELSE behind

ReadProbe ==
  /\ stage = "probe" /\ wire # <<>>
  /\ Ingest(Head(wire)) /\ wire' = Tail(wire)
  /\ UNCHANGED <<stage, answered, pressed, coming, ignore, matched, cut>>

\* next_deadline_ms is set.
NextDeadline == ~(finished /\ held = <<>> /\ discarding = "no")

\* finish_if_timed_out after 50 ms without input: what is held is the user's.
TimeOut ==
  /\ stage = "probe" /\ NextDeadline
  /\ wire = <<>>   \* readable input wins the race with the deadline
  /\ finished' = TRUE /\ discarding' = "no"
  /\ output' = output \o held /\ held' = <<>>
  /\ cut' = cut \cup Senders(held) \cup (IF discarding = "no" THEN {} ELSE {"color"})
  /\ UNCHANGED <<stage, answered, pressed, coming, wire, da1, ignore, matched, behind>>

-----------------------------------------------------------------------------
(* The focus query: what it read, without the complete reports, is handed   *)
(* to the broker before anything newer (buffered startup input).            *)

IsReport(c) == c = Text.focus

ReportAt(bytes, i) == i + 3 <= Len(bytes) /\ IsReport(Chars(SubSeq(bytes, i, i + 3)))

\* separate_focus_mode_report_input; the terminal reports at most once.
Separate(bytes) ==
  IF \E i \in 1..Len(bytes) : ReportAt(bytes, i)
  THEN LET i == CHOOSE j \in 1..Len(bytes) : ReportAt(bytes, j)
       IN  SubSeq(bytes, 1, i - 1) \o SubSeq(bytes, i + 4, Len(bytes))
  ELSE bytes

\* The query returns with what had arrived, cut anywhere.
QueryFocus ==
  /\ stage = "focus" /\ stage' = "probe"
  /\ \E n \in 0..Len(wire) :
       wire' = Separate(SubSeq(wire, 1, n)) \o SubSeq(wire, n + 1, Len(wire))
  /\ UNCHANGED <<answered, pressed, coming, held, discarding, finished, da1, output, ignore, matched, cut, behind>>

-----------------------------------------------------------------------------
(* ShutdownFenceBroker, one byte at a time.                                 *)

\* (A fence that takes any primary device attributes for its own.)
OutstandingNone == 0

\* outstanding_primary_device_attributes_replies
Outstanding == IF da1 THEN 0 ELSE 1

BeginFence ==
  /\ stage = "probe" /\ stage' = "fence"
  /\ ignore' = Outstanding
  /\ held' = <<>> /\ discarding' = "no" /\ finished' = TRUE   \* the broker is gone
  /\ output' = <<>> /\ pressed' = <<>> /\ cut' = {} /\ behind' = {}
  /\ UNCHANGED <<answered, coming, wire, da1, matched>>

Restart(byte) == IF byte.c = "E" THEN <<byte>> ELSE <<>>

IngestFence(byte) ==
  LET bytes == Append(held, byte)
      c == Chars(bytes)
      reply == c = Text.da1
  IN  /\ held' = IF held = <<>> \/ c[2] # "[" \/ Len(c) > MaxReply THEN Restart(byte)
                 ELSE IF Len(c) > 2 /\ byte.c \in Finals THEN <<>> ELSE bytes
      /\ ignore' = IF reply /\ ignore > 0 THEN ignore - 1 ELSE ignore
      /\ matched' = IF reply /\ ignore = 0 THEN byte.from ELSE matched

ReadFence ==
  /\ stage = "fence" /\ wire # <<>> /\ matched = "nobody"
  /\ IngestFence(Head(wire)) /\ wire' = Tail(wire)
  /\ UNCHANGED <<stage, answered, pressed, coming, discarding, finished, da1, output, cut, behind>>

\* The reply and the settle time after it, or the timeout.
EndFence ==
  /\ stage = "fence" /\ stage' = "closed"
  /\ wire' = <<>>
  /\ UNCHANGED <<answered, pressed, coming, held, discarding, finished, da1, output, ignore, matched, cut, behind>>

Closed == stage = "closed" /\ UNCHANGED probeVars

Next ==
  \/ Answer \/ RestArrives \/ \E key \in Keys : Press(key)
  \/ QueryFocus \/ ReadProbe \/ TimeOut
  \/ BeginFence \/ ReadFence \/ EndFence \/ Closed

Fairness == WF_probeVars(ReadProbe) /\ WF_probeVars(TimeOut) /\ WF_probeVars(QueryFocus)

Spec == Init /\ [][Next]_probeVars /\ Fairness

-----------------------------------------------------------------------------
UserBytes(bytes) == SelectSeq(bytes, LAMBDA b : b.from = "user")

(* The user's keys come out complete and in order; an answer of the         *)
(* terminal comes out only if the inactivity timeout cut it in two or it    *)
(* arrived right behind a lone Escape (StartupProbeBroker::ingest).  The    *)
(* fence is released by its own answer alone, however late the startup's    *)
(* arrives (ShutdownFenceBroker).                                           *)
InputSeparated ==
  /\ Senders(output) \subseteq cut \cup behind
  /\ matched \in {"nobody", "fence"}
  /\ stage \in {"focus", "probe"} =>
       Chars(UserBytes(output \o held \o wire \o coming)) = pressed

(* "a later reply in this probe vocabulary still belongs to this broker":   *)
(* an answer no timeout cut in two never comes out as input.                *)
RepliesStayWithBroker == Senders(output) \subseteq cut

Released == stage = "probe" => held = <<>>

(* What is held back as a possible answer is released: the user's keys do   *)
(* not wait for a next key.                                                 *)
HeldIsReleased == []<>Released

=============================================================================
