----------------------------- MODULE NativeSpeech -----------------------------
(***************************************************************************)
(* The utterance queue of the native speech server on macOS                *)
(* (src/native_tts_server.rs): one utterance is with the synthesizer, the  *)
(* others wait in a bounded queue, and the synthesizer reports the end of  *)
(* an utterance through a channel filled by callbacks.  Stopping waits a   *)
(* short time for that report and otherwise replaces the synthesizer.      *)
(* Every call into the backend may fail: the speak of a text, the stop,    *)
(* and the replacement.                                                    *)
(***************************************************************************)
EXTENDS Naturals, Sequences, FiniteSets, SequencesExt

CONSTANTS
    MaxPending,    \* MAX_PENDING_UTTERANCES
    MaxUtterances  \* bound on the speak requests

None == 0

VARIABLES
    active,      \* the utterance the queue waits for
    pending,     \* texts not yet given to the synthesizer
    completed,   \* utterances reported as ended or stopped, unread
    synth,       \* the synthesizer's own queue, the utterance being spoken aloud first
    stopping,    \* the utterance stop() waits for, or None
    after,       \* what a stop in progress is for: None, a text to speak, or StopOnly
    next,        \* history: the number of the next text
    heard,       \* history: the texts given to the synthesizer
    refused,     \* history: the backend refused a text that waited
    cut,         \* history: texts up to this one were cut by a stop or an interrupt
    unstopped    \* history: texts up to this one were to be stopped by a call that failed

vars == <<active, pending, completed, synth, stopping, after, next, heard, cut, refused, unstopped>>

StopOnly == MaxUtterances + 1

Init ==
    /\ active = None /\ pending = <<>> /\ completed = <<>>
    /\ synth = <<>> /\ stopping = None /\ after = None
    /\ next = 1 /\ heard = <<>> /\ cut = 0 /\ refused = FALSE /\ unstopped = 0

(* advance(): reads the reports, and gives the oldest waiting text to an   *)
(* idle synthesizer; a text the backend refuses is gone.                   *)
ActiveAfterReports == IF active \in ToSet(completed) THEN None ELSE active
Advanced(q, now, isHeard) ==
    \/ /\ ActiveAfterReports # None \/ pending = <<>>
       /\ q = pending /\ now = ActiveAfterReports /\ isHeard = heard
    \/ /\ ActiveAfterReports = None /\ pending # <<>>
       /\ q = Tail(pending)
       /\ \/ now = Head(pending) /\ isHeard = Append(heard, Head(pending))
          \/ now = None /\ isHeard = heard
Idle == stopping = None /\ after = None

(* The queues, utterances and histories advance() can leave.              *)
Queues == {pending} \cup (IF pending = <<>> THEN {} ELSE {Tail(pending)})
Heards == {heard} \cup (IF pending = <<>> THEN {} ELSE {Append(heard, Head(pending))})
Actives == {active, None} \cup ToSet(pending)
Advance(q, now, h) ==
    /\ Idle
    /\ Advanced(q, now, h)
    /\ completed' = <<>>
    /\ refused' = (refused \/ (q # pending /\ h = heard))

(* What the synthesizer has to speak once advance() gave it what it gave.  *)
Sounding(now, h) == IF h # heard THEN Append(synth, now) ELSE synth

(* tts.speak: the text joins what the synthesizer still speaks, or the     *)
(* backend fails and the text is gone.                                     *)
Given(text, s, h) ==
    \/ active' = text /\ synth' = Append(s, text) /\ heard' = Append(h, text)
    \/ active' = None /\ synth' = s /\ heard' = h

Tick ==
    /\ \E q \in Queues, now \in Actives, h \in Heards :
        /\ Advance(q, now, h)
        /\ pending' = q /\ active' = now /\ heard' = h
        /\ synth' = Sounding(now, h)
    /\ UNCHANGED <<stopping, after, next, cut, unstopped>>

(* State::speak without interruption, advance() first.                     *)
Room(q) == IF Len(q) = MaxPending THEN Tail(q) ELSE q
Speak ==
    /\ next <= MaxUtterances
    /\ next' = next + 1
    /\ \E q \in Queues, now \in Actives, h \in Heards :
        /\ Advance(q, now, h)
        /\ \/ /\ now # None
              /\ active' = now /\ heard' = h
              /\ synth' = Sounding(now, h)
              /\ pending' = Append(Room(q), next)
           \/ /\ now = None
              /\ Given(next, Sounding(now, h), h)
              /\ pending' = q
    /\ UNCHANGED <<stopping, after, cut, unstopped>>

(* State::stop: the queue is emptied, the utterance taken and the          *)
(* synthesizer told to stop.  When that call fails, stop() returns, and    *)
(* the synthesizer speaks on while the queue has forgotten its utterance.  *)
NotEmptied == pending                                                          \* mutant
Emptied == <<>>
Stopping(purpose, utterance) ==
    /\ pending' = Emptied
    /\ active' = None
    /\ cut' = next - 1
    /\ \/ stopping' = utterance /\ after' = purpose /\ UNCHANGED unstopped
       \/ stopping' = None /\ after' = None /\ unstopped' = next - 1
Stop ==
    /\ Idle
    /\ Stopping(StopOnly, active)
    /\ UNCHANGED <<completed, synth, next, heard, refused>>
(* An interrupting speak: advance() may start a waiting text just to have  *)
(* it stopped.  When stop() fails its text is not spoken.                  *)
Interrupt ==
    /\ next <= MaxUtterances
    /\ next' = next + 1
    /\ \E q \in Queues, now \in Actives, h \in Heards :
        /\ Advance(q, now, h)
        /\ Stopping(next, now)
        /\ heard' = h
        /\ synth' = Sounding(now, h)

(* The end of stop(): the report of the stopped utterance arrived, or the  *)
(* deadline passed and replace_synthesizer replaces the synthesizer and    *)
(* throws every unread report away, or fails: the reports read while       *)
(* waiting are gone and the synthesizer speaks on.  Unless it failed, an   *)
(* interrupting text is spoken.                                            *)
StopReported == stopping \in ToSet(completed)
Stopped == stopping = None \/ StopReported
Continued(s) ==
    \/ after = StopOnly /\ synth' = s /\ UNCHANGED <<active, heard>>
    \/ after # StopOnly /\ Given(after, s, heard)
StopEnds ==
    /\ after # None
    /\ completed' = IF stopping = None THEN completed ELSE <<>>
    /\ stopping' = None
    /\ after' = None
    /\ \/ Stopped /\ Continued(synth) /\ UNCHANGED unstopped
       \/ ~Stopped /\ Continued(<<>>) /\ UNCHANGED unstopped
       \/ ~Stopped /\ unstopped' = cut /\ UNCHANGED <<active, synth, heard>>
    /\ UNCHANGED <<pending, next, refused, cut>>

(* The synthesizer finishes, or stops, what it speaks and reports it.      *)
Reported ==
    /\ synth # <<>>
    /\ completed' = Append(completed, Head(synth))
    /\ synth' = Tail(synth)
    /\ UNCHANGED <<active, pending, stopping, after, next, heard, cut, refused, unstopped>>

Next == Tick \/ Speak \/ Stop \/ Interrupt \/ StopEnds \/ Reported

(* The server ticks after every frame and every poll, and stop() is        *)
(* bounded by its deadline.                                                *)
Spec == Init /\ [][Next]_vars /\ WF_vars(Tick) /\ WF_vars(StopEnds) /\ WF_vars(Reported)

-----------------------------------------------------------------------------
InOrder(q) == \A i, j \in DOMAIN q : i < j => q[i] < q[j]

(* Unless the backend refuses a waiting text, texts are spoken in the      *)
(* order they were requested and what waits is newer than what was heard.  *)
(* Always, nothing requested before a stop or an interruption waits or is  *)
(* active, also when the backend failed to stop; the queue waits for an    *)
(* utterance only while the synthesizer has it to speak or its report is   *)
(* unread, so a lost report cannot silence the server; and once stop() has *)
(* returned, what the synthesizer has to speak besides that utterance is   *)
(* what a failed stop or replacement left to it, so a text that was cut    *)
(* sounds for no other reason (speak, stop, advance, replace_synthesizer). *)
UtterancesInOrder ==
    /\ refused \/ InOrder(heard)
    /\ InOrder(pending)
    /\ \A i \in DOMAIN pending : pending[i] > cut /\ (refused \/ heard = <<>> \/ pending[i] > Last(heard))
    /\ active # None => active > cut /\ (active \in ToSet(synth) \/ active \in ToSet(completed))
    /\ after = None => ToSet(synth) \subseteq {active} \cup 1 .. unstopped
    /\ unstopped <= cut
    /\ Len(pending) <= MaxPending

(* Every text is given to the synthesizer or given up.                     *)
QueueDrains == []<>(pending = <<>>)
=============================================================================
