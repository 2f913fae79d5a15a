---------------------------- MODULE TerminalInput ----------------------------
(***************************************************************************)
(* What the user types, from bytes to the one who is given it (app/input.rs *)
(* and App::handle_key_event).                                             *)
(*                                                                         *)
(* First the terminal's byte stream is split into keys, focus reports and  *)
(* raw sequences (App::handle_filtered_terminal_input, parse_pending_input *)
(* and flush_pending_input).  A sequence may stop anywhere, and ESC may be *)
(* the key or the beginning of a sequence: only the timeout tells.  Bytes: *)
(* "E" ESC, "[", "]", "I", "O", "2" a parameter byte (the "27;" of         *)
(* modifyOtherKeys is one of them), "~" a final byte, "g" BEL, "s" the     *)
(* backslash of ST, "a" anything else.                                     *)
(*                                                                         *)
(* Then key presses and releases go to a view, an application or a command *)
(* (App::handle_key_event and dispatch_key_to_view).  The terminal reports *)
(* releases while an application uses the Kitty keyboard protocol; between *)
(* the press and the release a view may open or close, the application may *)
(* exit or change its mode, and the release must not be typed into whoever *)
(* came next.                                                              *)
(*                                                                         *)
(* The two share no state, and each runs with the other's input chosen.    *)
(***************************************************************************)
EXTENDS Naturals, Sequences, SequencesExt

CONSTANTS Bytes,        \* bytes the terminal may send
          MaxReceived,  \* bytes it sends in all
          MaxPending,   \* MAX_PENDING_TERMINAL_INPUT_BYTES
          Keys,          \* a key with its modifiers
          CtrlC,         \* the key whose release is held back
          MaxDeferred,   \* MAX_DEFERRED_KITTY_RELEASES
          MaxEvents      \* presses

-----------------------------------------------------------------------------
(* Bytes to keys.                                                           *)

VARIABLES
  pending,   \* pending_input
  waiting,   \* pending_input_last_at is set
  units,     \* what was dispatched: records [kind, raw], oldest first
  reads      \* everything received

parseVars == <<pending, waiting, units, reads>>

ParserInit == pending = <<>> /\ waiting = FALSE /\ units = <<>> /\ reads = <<>>

Unit(kind, raw) == [kind |-> kind, raw |-> raw]

-----------------------------------------------------------------------------
(* How much of the front is a sequence: a length, 0 (incomplete) or NoMatch.  *)

NoMatch == MaxPending + 1

OscEnds(s) ==
  {i \in 3..Len(s) : s[i] = "g"} \cup {i + 1 : i \in {j \in 3..Len(s) - 1 : s[j] = "E" /\ s[j + 1] = "s"}}

\* osc_status: ESC ] up to BEL or ST.
OscStatus(s) ==
  IF Len(s) < 2 \/ SubSeq(s, 1, 2) # <<"E", "]">> THEN NoMatch
  ELSE IF OscEnds(s) = {} THEN 0
  ELSE CHOOSE n \in OscEnds(s) : \A m \in OscEnds(s) : n <= m

\* focus_event_status: CSI I and CSI O.
FocusStatus(s) ==
  LET focus == {<<"E", "[", "I">>, <<"E", "[", "O">>}
  IN  IF \E f \in focus : IsPrefix(f, s) THEN 3
      ELSE IF \E f \in focus : IsPrefix(s, f) THEN 0 ELSE NoMatch

\* modify_other_keys_status: CSI, parameters, "~".
OtherKeysStatus(s) ==
  LET body == {i \in 3..Len(s) : s[i] # "2"}
  IN  IF Len(s) < 3 \/ SubSeq(s, 1, 3) # <<"E", "[", "2">> THEN NoMatch
      ELSE IF body = {} THEN 0
      ELSE LET i == CHOOSE i \in body : \A j \in body : i <= j
           IN  IF s[i] = "~" THEN i ELSE NoMatch

\* is_invalid_ss3_prefix: no byte of the alphabet is an SS3 final byte.
InvalidSs3(s) == Len(s) >= 3 /\ SubSeq(s, 1, 2) = <<"E", "O">>

\* Event::parse_from of the terminput library: whether the buffer is an event,
\* the beginning of one, or neither.  A character is read from its first byte.
ParseFrom(s) ==
  IF s[1] # "E" THEN "event"
  ELSE IF Len(s) = 1 \/ s \in {<<"E", "[">>, <<"E", "O">>} THEN "incomplete"
  ELSE IF s[2] # "[" THEN IF Len(s) = 2 THEN "event" ELSE "error"
  ELSE IF s[Len(s)] = "2" THEN "incomplete"
  ELSE IF s[Len(s)] = "~" THEN "event" ELSE "error"

-----------------------------------------------------------------------------
\* One round of parse_pending_input on a buffer: what it dispatches, what it
\* keeps.
Round(s) ==
  LET take(kind, n) == [unit |-> Unit(kind, SubSeq(s, 1, n)), rest |-> SubSeq(s, n + 1, Len(s))]
  IN  IF OscStatus(s) # NoMatch THEN take("osc", OscStatus(s))
      ELSE IF FocusStatus(s) # NoMatch THEN take("focus", FocusStatus(s))
      ELSE IF OtherKeysStatus(s) # NoMatch THEN take("key", OtherKeysStatus(s))
      ELSE IF InvalidSs3(s) THEN take("key", 2)
      ELSE IF ParseFrom(s) = "event" THEN take("key", Len(s))
      ELSE IF ParseFrom(s) = "error" THEN take("raw", 1)
      ELSE take("none", 0)

\* The loop of parse_pending_input.
Parse[s \in Seq(Bytes)] ==
  IF s = <<>> \/ s = <<"E">> \/ Round(s).unit.raw = <<>>
  THEN [out |-> <<>>, rest |-> s]
  ELSE [out |-> <<Round(s).unit>> \o Parse[Round(s).rest].out, rest |-> Parse[Round(s).rest].rest]

\* handle_filtered_terminal_input, one byte: an oversized prefix is passed on
\* as it is.  An OSC sequence clears the timeout, everything else only when
\* it empties the buffer.
ReceiveByte(b) ==
  /\ Len(reads) < MaxReceived
  /\ reads' = Append(reads, b)
  /\ LET p == Parse[Append(pending, b)]
     IN
       /\ IF Len(p.rest) >= MaxPending
          THEN pending' = <<>> /\ units' = units \o p.out \o <<Unit("raw", p.rest)>>
          ELSE pending' = p.rest /\ units' = units \o p.out
       /\ waiting' = (pending' # <<>> /\ \A i \in 1..Len(p.out) : p.out[i].kind # "osc")

\* flush_pending_input, ESC_TIMEOUT_MS after the last byte: ESC alone and ESC
\* with an introducer are keys (timed_out_event), anything else is raw.
TimeOutPending ==
  /\ waiting
  /\ pending' = <<>> /\ waiting' = FALSE
  /\ units' = Append(units, Unit(IF pending \in {<<"E">>, <<"E", "[">>, <<"E", "]">>, <<"E", "O">>}
                                 THEN "key" ELSE "raw", pending))
  /\ UNCHANGED reads

ParserNext == (\E b \in Bytes : ReceiveByte(b)) \/ TimeOutPending

ParserSpec == ParserInit /\ [][ParserNext]_parseVars /\ WF_parseVars(TimeOutPending)

-----------------------------------------------------------------------------
(* Every byte the terminal sent is dispatched once and in order, whatever   *)
(* sequences it was part of and wherever the timeout cut them, a focus      *)
(* report is never split into keys unless the timeout did, and a byte is    *)
(* held back only while its timeout is armed.                               *)
InputExact ==
  /\ FlattenSeq([i \in 1..Len(units) |-> units[i].raw]) \o pending = reads
  /\ \A i \in 1..Len(units) :
       units[i].kind = "focus" => units[i].raw \in {<<"E", "[", "I">>, <<"E", "[", "O">>}
  /\ pending # <<>> <=> waiting

-----------------------------------------------------------------------------
(* Keys to their owners.                                                    *)

VARIABLES
  overlay,     \* an overlay view is active, else the terminal
  kittyMode,   \* the root application's Kitty keyboard flags
  forwarded,   \* forwarded_key_presses: key -> flags at the press, or None
  consumed,    \* consumed_key_presses
  transition,  \* view_transition_key_presses
  deferred,    \* deferred_kitty_releases
  handoff,     \* kitty_ctrl_c_input_handoff is set and not expired
  down,        \* keys physically down
  taker,       \* who took the last press of a key (for the properties)
  delivered,   \* the last release the application was given
  events

keyVars == <<overlay, kittyMode, forwarded, consumed, transition, deferred,
             handoff, down, taker, delivered, events>>

None == "none"
NoRelease == [key |-> None, mode |-> None, press |-> None]
Modes == {"off", "on"}

KeysInit ==
  /\ overlay = FALSE /\ kittyMode = "off"
  /\ forwarded = [k \in Keys |-> None] /\ consumed = {} /\ transition = {}
  /\ deferred = <<>> /\ handoff = FALSE /\ down = {}
  /\ taker = [k \in Keys |-> None] /\ delivered = NoRelease /\ events = 0

\* active_forwarded_input_target: the root with its mode, or nobody.
Target == IF overlay THEN None ELSE kittyMode

\* should_quarantine_kitty_ctrl_c for a Ctrl-C in Kitty's encoding.
Quarantined(k, kitty) == k = CtrlC /\ kitty /\ handoff /\ Target = "off"

Swallow(k) ==
  /\ forwarded' = [forwarded EXCEPT ![k] = None]
  /\ consumed' = consumed \ {k} /\ transition' = transition \ {k}

-----------------------------------------------------------------------------
(* Presses.                                                                 *)

\* A command, a tmux prefix key, help or a Lua binding takes the key; it may
\* open a view.
TakenByCommand(k) ==
  /\ consumed' = consumed \cup {k} /\ transition' = transition \ {k}
  /\ taker' = [taker EXCEPT ![k] = "lector"]
  /\ overlay' \in BOOLEAN /\ (overlay => overlay')
  /\ UNCHANGED forwarded

\* The overlay takes the key: Pop and PopupResponse close it and remember
\* the press.
TakenByOverlay(k) ==
  /\ overlay
  /\ consumed' = consumed \ {k}
  /\ \/ /\ overlay' = FALSE /\ transition' = transition \cup {k}
        /\ taker' = [taker EXCEPT ![k] = "lector"]
     \/ /\ overlay' = TRUE /\ transition' = transition \ {k}
        /\ taker' = [taker EXCEPT ![k] = "overlay"]
  /\ UNCHANGED forwarded

\* The application gets the key; a press in Kitty's encoding is remembered
\* with the mode it was sent in.
Forwarded(k, kitty) ==
  /\ ~overlay
  /\ consumed' = consumed \ {k} /\ transition' = transition \ {k}
  /\ forwarded' = IF kitty THEN [forwarded EXCEPT ![k] = kittyMode] ELSE forwarded
  /\ taker' = [taker EXCEPT ![k] = IF kitty THEN kittyMode ELSE "legacy"]
  /\ UNCHANGED overlay

Press(k, kitty) ==
  /\ events < MaxEvents /\ events' = events + 1
  /\ down' = down \cup {k}
  /\ IF Quarantined(k, kitty)
     THEN Swallow(k) /\ taker' = [taker EXCEPT ![k] = "quarantined"] /\ UNCHANGED overlay
     ELSE TakenByCommand(k) \/ TakenByOverlay(k) \/ Forwarded(k, kitty)
  /\ UNCHANGED <<kittyMode, deferred, handoff, delivered>>

-----------------------------------------------------------------------------
(* Releases, always in Kitty's encoding.                                    *)

\* The escape sequence of the release is written to the application.
Written(k, press) == delivered' = [key |-> k, mode |-> kittyMode, press |-> press]

\* dispatch_key_to_view: legacy_child_bytes leaves nothing of a release for a
\* legacy application; an overlay ignores it.
Deliver(k, press) ==
  IF overlay \/ kittyMode = "off" THEN UNCHANGED delivered ELSE Written(k, press)

\* The application that saw the press is still the one that reads.
SameOwner(press) == press = Target

Defer(k) ==
  deferred' = Append(IF Len(deferred) = MaxDeferred THEN Tail(deferred) ELSE deferred,
                     [key |-> k, mode |-> forwarded[k]])

ReleaseTo(k) ==
  IF k \in consumed \cup transition THEN UNCHANGED <<deferred, delivered>>
  ELSE IF forwarded[k] # None /\ ~SameOwner(forwarded[k]) THEN UNCHANGED <<deferred, delivered>>
  ELSE IF forwarded[k] # None /\ k = CtrlC THEN Defer(k) /\ UNCHANGED delivered
  ELSE Deliver(k, taker[k]) /\ UNCHANGED deferred

Release(k) ==
  /\ k \in down /\ down' = down \ {k}
  /\ IF Quarantined(k, TRUE) THEN UNCHANGED <<deferred, delivered>> ELSE ReleaseTo(k)
  /\ Swallow(k)
  /\ UNCHANGED <<overlay, kittyMode, handoff, taker, events>>

\* Another window had the focus when the key went up.
ReleaseLost(k) ==
  /\ k \in down /\ down' = down \ {k}
  /\ UNCHANGED <<overlay, kittyMode, forwarded, consumed, transition, deferred, handoff, taker, delivered, events>>

\* flush_deferred_kitty_releases, of the front entry: discarded if the owner
\* or its mode changed, forwarded once it is due.  Its bytes are written as
\* they were read, also when press and owner are both legacy.
FlushDeferred ==
  /\ deferred # <<>>
  /\ deferred' = Tail(deferred)
  /\ LET r == Head(deferred)
     IN  IF SameOwner(r.mode) THEN Written(r.key, r.mode) ELSE UNCHANGED delivered
  /\ UNCHANGED <<overlay, kittyMode, forwarded, consumed, transition, handoff, down, taker, events>>

-----------------------------------------------------------------------------
\* The application sets or resets its Kitty mode; a reset arms the Ctrl-C
\* quarantine and a new mode lifts it (handle_direct_output).
ModeChanges ==
  /\ kittyMode' \in Modes \ {kittyMode}
  /\ handoff' = (kittyMode' = "off")
  /\ UNCHANGED <<overlay, forwarded, consumed, transition, deferred, down, taker, delivered, events>>

HandoffExpires ==
  /\ handoff /\ handoff' = FALSE
  /\ UNCHANGED <<overlay, kittyMode, forwarded, consumed, transition, deferred, down, taker, delivered, events>>

\* A view closes or opens without a key (a tick, a tmux event, a message).
OverlayChanges ==
  /\ overlay' = ~overlay
  /\ UNCHANGED <<kittyMode, forwarded, consumed, transition, deferred, handoff, down, taker, delivered, events>>

KeysNext ==
  \/ \E k \in Keys : \/ \E kitty \in BOOLEAN : Press(k, kitty)
                     \/ Release(k) \/ ReleaseLost(k)
  \/ FlushDeferred \/ ModeChanges \/ HandoffExpires \/ OverlayChanges

KeysSpec == KeysInit /\ [][KeysNext]_keyVars /\ WF_keyVars(FlushDeferred)

-----------------------------------------------------------------------------
(* A release reaches the application only in the mode in which the press    *)
(* did, never when Lector took the press, across overlays, mode resets,     *)
(* lost releases, repeats and the Ctrl-C delay (handle_key_event).  A press *)
(* the quarantine swallowed is remembered nowhere and is not covered: a new *)
(* application that turns the mode on before the key goes up is sent its    *)
(* release.                                                                 *)
ReleaseFollowsPress ==
  /\ delivered.press # "lector"
  /\ delivered.press \in Modes => delivered.press = delivered.mode

(* "Releases and keys without a legacy representation must not leak their   *)
(* extended escape syntax into a legacy application's input"                *)
(* (terminal_input.rs:164-165).  It holds of what dispatch_key_to_view      *)
(* sends; a Ctrl-C release that was held back is written by                 *)
(* flush_deferred_kitty_releases, which does not ask.                       *)
NoReleaseToLegacy == delivered.mode # "off"

=============================================================================
