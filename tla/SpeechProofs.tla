---------------------------- MODULE SpeechProofs ----------------------------
(***************************************************************************)
(* Proofs about Lector's voice: the native server's utterance queue        *)
(* (NativeSpeech), the framed protocol between the driver and a server     *)
(* (SpeechRpc) and the worker's mailbox (SpeechWorker), for every limit    *)
(* and any lengths; and about the log (LogQueue), for any producers.       *)
(*                                                                         *)
(* A property of SpeechRpc speaks of lines, its steps move bytes.  The     *)
(* invariant therefore describes the whole stream in each direction, the   *)
(* bytes unsent, in the pipe and in the reader's buffer taken together:    *)
(* it is a sequence of whole lines (Framed), except for a head of which    *)
(* the reader holds the first bytes (Heads) or has thrown them away        *)
(* because the line is too long (TooLong).  Cutting the stream anywhere    *)
(* and moving the cut then keeps the invariant, which is why the pieces    *)
(* in which a line arrives do not matter.                                  *)
(***************************************************************************)
EXTENDS Speech, FiniteSums, SequenceTheorems, TLAPS

-----------------------------------------------------------------------------
(* The utterances of the native server.                                    *)

Ascending(q) == \A i, j \in 1 .. Len(q) : i < j => q[i] < q[j]
Within(q, low, high) == \A i \in 1 .. Len(q) : q[i] > low /\ q[i] < high
Texts(q) == {q[i] : i \in 1 .. Len(q)}
NoRepeats(q) == \A i, j \in 1 .. Len(q) : q[i] = q[j] => i = j

NativeTypes ==
    /\ next \in Nat \ {0} /\ next <= MaxUtterances + 1
    /\ active \in Nat /\ after \in Nat /\ stopping \in Nat
    /\ cutText \in Nat /\ cutText < next
    /\ unstopped \in Nat /\ unstopped <= cutText
    /\ pending \in Seq(Nat) /\ heard \in Seq(Nat) /\ completed \in Seq(Nat) /\ synth \in Seq(Nat)
    /\ refusedText \in BOOLEAN
    /\ Within(heard, 0, next)
    /\ Within(pending, cutText, next)
    /\ Len(pending) <= MaxPending

\* The order of the texts, heard and waiting.
NativeOrder ==
    /\ refusedText \/ Ascending(heard)
    /\ Ascending(pending)
    /\ refusedText \/ \A i \in 1 .. Len(pending), j \in 1 .. Len(heard) : heard[j] < pending[i]
    /\ Texts(pending) \cap Texts(heard) = {}

\* What the synthesizer has to speak and what it reported are texts it was
\* given, each of them once.
NativeSounds ==
    /\ NoRepeats(synth)
    /\ Texts(synth) \subseteq Texts(heard) /\ Texts(completed) \subseteq Texts(heard)
    /\ Texts(synth) \cap Texts(completed) = {}
    /\ active # 0 => active > cutText /\ active \in Texts(synth) \cup Texts(completed)
    /\ after = 0 => Texts(synth) \subseteq {active} \cup 1 .. unstopped

\* While stop() waits, only its utterance sounds besides what it could not stop.
NativeStops ==
    /\ after # 0 => /\ pending = <<>> /\ active = 0
                    /\ Texts(synth) \subseteq {stopping} \cup 1 .. unstopped
                    /\ Texts(synth) \subseteq 1 .. cutText
    /\ after \notin {0, MaxUtterances + 1} => after = next - 1 /\ cutText < after /\ Within(heard, 0, after)

NativeInv == NativeTypes /\ NativeOrder /\ NativeSounds /\ NativeStops

\* What advance() leaves: the queue, the utterance, the texts heard and those
\* with the synthesizer.
Left(q, now, h, s, r) ==
    /\ q \in Seq(Nat) /\ Within(q, cutText, next) /\ Len(q) <= MaxPending /\ Ascending(q)
    /\ h \in Seq(Nat) /\ Within(h, 0, next)
    /\ s \in Seq(Nat) /\ NoRepeats(s) /\ Texts(s) \subseteq Texts(h)
    /\ r \in BOOLEAN
    /\ r \/ Ascending(h)
    /\ r \/ \A i \in 1 .. Len(q), j \in 1 .. Len(h) : h[j] < q[i]
    /\ Texts(q) \cap Texts(h) = {}
    /\ now \in Nat
    /\ now # 0 => now > cutText /\ now \in Texts(s)
    /\ now = 0 => r \/ q = <<>>
    /\ Texts(s) \subseteq {now} \cup 1 .. unstopped

\* The queue without its head: the rest moves up by one.
LEMMA TailShifts ==
    ASSUME NEW q \in Seq(Nat), q # <<>>, NEW i \in 1 .. Len(Tail(q))
    PROVE  Tail(q)[i] = q[i + 1]
BY HeadTailProperties

\* What is known of a queue of texts without its oldest one.
LEMMA TailFacts ==
    ASSUME NEW q \in Seq(Nat), q # <<>>
    PROVE  /\ Tail(q) \in Seq(Nat) /\ Len(Tail(q)) = Len(q) - 1 /\ Len(q) >= 1
           /\ Head(q) = q[1] /\ Head(q) \in Nat
           /\ \A i \in 1 .. Len(Tail(q)) : Tail(q)[i] = q[i + 1]
           /\ Tail(q) # q
<1>1. Len(q) >= 1 /\ Len(q) \in Nat
  BY EmptySeq
<1>2. Tail(q) \in Seq(Nat) /\ Len(Tail(q)) = Len(q) - 1 /\ Head(q) = q[1] /\ Head(q) \in Nat
  BY <1>1
<1>3. \A i \in 1 .. Len(Tail(q)) : Tail(q)[i] = q[i + 1]
  BY TailShifts
<1>4. Tail(q) # q
  <2>1. ASSUME NEW m \in Nat, NEW n \in Nat, m = n - 1
        PROVE  m # n
    BY <2>1
  <2>2. Len(Tail(q)) \in Nat
    BY <1>2
  <2>3. Len(Tail(q)) # Len(q)
    BY <1>1, <1>2, <2>1, <2>2
  <2>4. QED
    BY <2>3, Zenon
<1>5. QED
  BY <1>1, <1>2, <1>3, <1>4

\* What is known of a queue of texts with one more.
LEMMA AppendFacts ==
    ASSUME NEW q \in Seq(Nat), NEW e \in Nat
    PROVE  /\ Append(q, e) \in Seq(Nat) /\ Len(Append(q, e)) = Len(q) + 1 /\ Len(q) \in Nat
           /\ \A i \in 1 .. Len(q) : Append(q, e)[i] = q[i]
           /\ Append(q, e)[Len(q) + 1] = e
           /\ Append(q, e) # q
<1>1. Append(q, e) \in Seq(Nat) /\ Len(Append(q, e)) = Len(q) + 1 /\ Len(q) \in Nat
  OBVIOUS
<1>2. Append(q, e) # q
  BY <1>1
<1>3. (\A i \in 1 .. Len(q) : Append(q, e)[i] = q[i]) /\ Append(q, e)[Len(q) + 1] = e
  OBVIOUS
<1>4. QED
  BY <1>1, <1>2, <1>3

\* A newer text at the end keeps the order.
LEMMA AppendAscends ==
    ASSUME NEW q \in Seq(Nat), NEW e \in Nat, \A i \in 1 .. Len(q) : q[i] < e
    PROVE  /\ Ascending(q) => Ascending(Append(q, e))
           /\ \A low, high \in Nat : Within(q, low, high) /\ low < e /\ e < high => Within(Append(q, e), low, high)
<1>1. /\ Append(q, e) \in Seq(Nat) /\ Len(Append(q, e)) = Len(q) + 1 /\ Len(q) \in Nat
      /\ \A i \in 1 .. Len(q) : Append(q, e)[i] = q[i]
      /\ Append(q, e)[Len(q) + 1] = e
  BY AppendFacts
<1>2. \A i \in 1 .. Len(q) + 1 : i \in 1 .. Len(q) \/ i = Len(q) + 1
  BY <1>1
<1>3. Ascending(q) => Ascending(Append(q, e))
  <2> SUFFICES ASSUME Ascending(q), NEW i \in 1 .. Len(q) + 1, NEW j \in 1 .. Len(q) + 1, i < j
               PROVE  Append(q, e)[i] < Append(q, e)[j]
    BY <1>1 DEF Ascending
  <2>1. i \in 1 .. Len(q)
    BY <1>1
  <2>2. CASE j \in 1 .. Len(q)
    BY <1>1, <2>1, <2>2 DEF Ascending
  <2>3. CASE j = Len(q) + 1
    BY <1>1, <2>1, <2>3
  <2>4. QED
    BY <1>2, <2>2, <2>3
<1>4. \A low, high \in Nat : Within(q, low, high) /\ low < e /\ e < high => Within(Append(q, e), low, high)
  BY <1>1, <1>2 DEF Within
<1>5. QED
  BY <1>3, <1>4

\* The queue without its oldest text.
LEMMA TailAscends ==
    ASSUME NEW q \in Seq(Nat), q # <<>>
    PROVE  /\ Ascending(q) => Ascending(Tail(q)) /\ \A i \in 1 .. Len(Tail(q)) : Head(q) < Tail(q)[i]
           /\ \A low, high : Within(q, low, high) => Within(Tail(q), low, high)
<1>1. /\ Tail(q) \in Seq(Nat) /\ Len(Tail(q)) = Len(q) - 1 /\ Len(q) \in Nat /\ Len(q) >= 1
      /\ Head(q) = q[1]
      /\ \A i \in 1 .. Len(Tail(q)) : Tail(q)[i] = q[i + 1]
  BY TailFacts
<1>2. \A i \in 1 .. Len(Tail(q)) : i + 1 \in 1 .. Len(q) /\ i \in Nat /\ i >= 1
  BY <1>1
<1>3. Ascending(q) => Ascending(Tail(q))
  BY <1>1, <1>2 DEF Ascending
<1>4. Ascending(q) => \A i \in 1 .. Len(Tail(q)) : Head(q) < Tail(q)[i]
  BY <1>1, <1>2 DEF Ascending
<1>5. \A low, high : Within(q, low, high) => Within(Tail(q), low, high)
  BY <1>1, <1>2 DEF Within
<1>6. QED
  BY <1>3, <1>4, <1>5

\* The texts of a queue with one more ...
LEMMA AppendTexts ==
    ASSUME NEW q \in Seq(Nat), NEW e \in Nat
    PROVE  /\ Texts(Append(q, e)) = Texts(q) \cup {e}
           /\ NoRepeats(q) /\ e \notin Texts(q) => NoRepeats(Append(q, e))
<1>1. /\ Append(q, e) \in Seq(Nat) /\ Len(Append(q, e)) = Len(q) + 1 /\ Len(q) \in Nat
      /\ \A i \in 1 .. Len(q) : Append(q, e)[i] = q[i]
      /\ Append(q, e)[Len(q) + 1] = e
  BY AppendFacts
<1>2. /\ \A i \in 1 .. Len(q) + 1 : i \in 1 .. Len(q) \/ i = Len(q) + 1
      /\ 1 .. Len(q) \subseteq 1 .. Len(q) + 1 /\ Len(q) + 1 \in 1 .. Len(q) + 1
  BY <1>1
<1>3. Texts(Append(q, e)) = Texts(q) \cup {e}
  BY <1>1, <1>2 DEF Texts
<1>4. ASSUME NoRepeats(q), e \notin Texts(q)
      PROVE  NoRepeats(Append(q, e))
  <2>1. \A i \in 1 .. Len(q) : q[i] # e
    BY <1>4 DEF Texts
  <2>2. QED
    BY <1>1, <1>2, <1>4, <2>1 DEF NoRepeats
<1>5. QED
  BY <1>3, <1>4

\* ... and of a queue without its oldest.
LEMMA TailTexts ==
    ASSUME NEW q \in Seq(Nat), q # <<>>
    PROVE  /\ Texts(q) = {Head(q)} \cup Texts(Tail(q))
           /\ NoRepeats(q) => NoRepeats(Tail(q)) /\ Head(q) \notin Texts(Tail(q))
<1>1. /\ Tail(q) \in Seq(Nat) /\ Len(Tail(q)) = Len(q) - 1 /\ Len(q) \in Nat /\ Len(q) >= 1
      /\ Head(q) = q[1]
      /\ \A i \in 1 .. Len(Tail(q)) : Tail(q)[i] = q[i + 1]
  BY TailFacts
<1>2. /\ \A i \in 1 .. Len(Tail(q)) : i + 1 \in 1 .. Len(q) /\ i + 1 # 1
      /\ \A i \in 1 .. Len(q) : i = 1 \/ (i - 1 \in 1 .. Len(Tail(q)) /\ (i - 1) + 1 = i)
      /\ 1 \in 1 .. Len(q)
  BY <1>1
<1>3. Texts(q) = {Head(q)} \cup Texts(Tail(q))
  <2>1. Texts(q) \subseteq {Head(q)} \cup Texts(Tail(q))
    <3> SUFFICES ASSUME NEW i \in 1 .. Len(q)
                 PROVE  q[i] = Head(q) \/ q[i] \in Texts(Tail(q))
      BY DEF Texts
    <3>1. CASE i = 1
      BY <1>1, <3>1
    <3>2. CASE i - 1 \in 1 .. Len(Tail(q)) /\ (i - 1) + 1 = i
      <4>1. Tail(q)[i - 1] = q[i]
        BY <1>1, <3>2
      <4>2. QED
        BY <3>2, <4>1 DEF Texts
    <3>3. QED
      BY <1>2, <3>1, <3>2
  <2>2. {Head(q)} \cup Texts(Tail(q)) \subseteq Texts(q)
    BY <1>1, <1>2 DEF Texts
  <2>3. QED
    BY <2>1, <2>2
<1>4. ASSUME NoRepeats(q)
      PROVE  NoRepeats(Tail(q)) /\ Head(q) \notin Texts(Tail(q))
  <2>1. NoRepeats(Tail(q))
    <3> SUFFICES ASSUME NEW i \in 1 .. Len(Tail(q)), NEW j \in 1 .. Len(Tail(q)), Tail(q)[i] = Tail(q)[j]
                 PROVE  i = j
      BY DEF NoRepeats
    <3>1. q[i + 1] = q[j + 1] /\ i + 1 \in 1 .. Len(q) /\ j + 1 \in 1 .. Len(q)
      BY <1>1, <1>2
    <3>2. i + 1 = j + 1
      BY <1>4, <3>1 DEF NoRepeats
    <3>3. QED
      BY <3>2
  <2>2. \A i \in 1 .. Len(Tail(q)) : Tail(q)[i] # Head(q)
    BY <1>1, <1>2, <1>4 DEF NoRepeats
  <2>3. QED
    BY <2>1, <2>2 DEF Texts
<1>5. QED
  BY <1>3, <1>4

\* The texts of a queue are numbers within the bounds of the queue.
LEMMA TextsWithin ==
    ASSUME NEW q, NEW low \in Nat, NEW high \in Nat
    PROVE  Within(q, low, high) <=> \A t \in Texts(q) : t > low /\ t < high
BY DEF Within, Texts

\* advance() gives texts to an idle synthesizer in order, and keeps the bound.
LEMMA AdvanceLeaves ==
    ASSUME MaxPending \in Nat \ {0}, NativeInv, NEW q, NEW now, NEW h, Native!Advance(q, now, h)
    PROVE  /\ Left(q, now, h, Native!Sounding(now, h), refusedText')
           /\ completed' = <<>> /\ after = 0 /\ stopping = 0
           /\ refusedText => refusedText'
<1> DEFINE s == Native!Sounding(now, h)
<1>1. /\ stopping = 0 /\ after = 0 /\ completed' = <<>>
      /\ Native!Advanced(q, now, h)
      /\ refusedText' = (refusedText \/ (q # pending /\ h = heard))
  BY DEF Native!Advance, Native!Idle, Native!None
<1>2. refusedText' \in BOOLEAN /\ (refusedText => refusedText')
  BY <1>1
<1>3. /\ pending \in Seq(Nat) /\ heard \in Seq(Nat) /\ next \in Nat /\ cutText \in Nat /\ active \in Nat
      /\ synth \in Seq(Nat) /\ unstopped \in Nat /\ unstopped <= cutText /\ Len(pending) \in Nat
      /\ Within(pending, cutText, next) /\ Len(pending) <= MaxPending /\ Ascending(pending)
      /\ Within(heard, 0, next)
      /\ refusedText \/ Ascending(heard)
      /\ refusedText \/ \A i \in 1 .. Len(pending), j \in 1 .. Len(heard) : heard[j] < pending[i]
      /\ Texts(pending) \cap Texts(heard) = {}
  BY DEF NativeInv, NativeTypes, NativeOrder
<1>4. /\ NoRepeats(synth) /\ Texts(synth) \subseteq Texts(heard)
      /\ Texts(synth) \cap Texts(completed) = {}
      /\ active # 0 => active > cutText /\ active \in Texts(synth) \cup Texts(completed)
      /\ Texts(synth) \subseteq {active} \cup 1 .. unstopped
  BY <1>1 DEF NativeInv, NativeSounds
<1> DEFINE a == Native!ActiveAfterReports
<1>5. a \in Nat /\ (a # 0 => a > cutText /\ a \in Texts(synth)) /\ Texts(synth) \subseteq {a} \cup 1 .. unstopped
  <2>1. {completed[i] : i \in DOMAIN completed} = Texts(completed)
    BY DEF Texts, NativeInv, NativeTypes
  <2>2. a = IF active \in Texts(completed) THEN 0 ELSE active
    BY <2>1 DEF Native!ActiveAfterReports, Native!None, Native!ToSet
  <2>3. CASE active \in Texts(completed)
    BY <1>4, <2>2, <2>3
  <2>4. CASE active \notin Texts(completed)
    BY <1>3, <1>4, <2>2, <2>4
  <2>5. QED
    BY <2>3, <2>4
<1> HIDE DEF a
<1>6. CASE (a # 0 \/ pending = <<>>) /\ q = pending /\ now = a /\ h = heard
  <2>1. s = synth
    BY <1>6 DEF Native!Sounding
  <2> HIDE DEF s
  <2>2. now = 0 => q = <<>>
    BY <1>6
  <2>3. (refusedText' \/ Ascending(h)) /\ (refusedText' \/ \A i \in 1 .. Len(q), j \in 1 .. Len(h) : h[j] < q[i])
    BY <1>2, <1>3, <1>6
  <2>4. Left(q, now, h, s, refusedText')
    BY <1>2, <1>3, <1>4, <1>5, <1>6, <2>1, <2>2, <2>3 DEF Left
  <2>5. QED
    BY <1>1, <1>2, <2>4 DEF s
<1>7. CASE a = 0 /\ pending # <<>> /\ q = Tail(pending)
           /\ now = Head(pending) /\ h = Append(heard, Head(pending))
  <2>1. /\ q \in Seq(Nat) /\ Len(q) = Len(pending) - 1 /\ Len(pending) >= 1 /\ Len(pending) \in Nat
        /\ now = pending[1] /\ now \in Nat
        /\ \A i \in 1 .. Len(q) : q[i] = pending[i + 1]
        /\ Ascending(q) /\ Within(q, cutText, next) /\ \A i \in 1 .. Len(q) : now < q[i]
    BY <1>3, <1>7, TailFacts, TailAscends
  <2>2. now > cutText /\ now < next
    BY <1>3, <2>1 DEF Within
  <2>3. /\ h \in Seq(Nat) /\ Len(h) = Len(heard) + 1 /\ Len(heard) \in Nat
        /\ \A i \in 1 .. Len(heard) : h[i] = heard[i]
        /\ h[Len(heard) + 1] = now /\ h # heard
    BY <1>3, <1>7, <2>1, AppendFacts
  <2>4. refusedText \/ \A j \in 1 .. Len(heard) : heard[j] < now
    BY <1>3, <2>1
  <2>5. Texts(h) = Texts(heard) \cup {now} /\ Texts(pending) = {now} \cup Texts(q)
    BY <1>3, <1>7, <2>1, AppendTexts, TailTexts
  <2>6. Within(h, 0, next)
    <3>1. \A t \in Texts(heard) : t > 0 /\ t < next
      BY <1>3, TextsWithin
    <3>2. \A t \in Texts(h) : t > 0 /\ t < next
      BY <1>3, <2>1, <2>2, <2>5, <3>1
    <3>3. 0 \in Nat
      OBVIOUS
    <3>4. QED
      BY <1>3, <3>2, <3>3, TextsWithin
  <2>7. refusedText \/ Ascending(h)
    BY <1>3, <1>7, <2>1, <2>4, AppendAscends
  <2>8. refusedText \/ \A i \in 1 .. Len(q), j \in 1 .. Len(h) : h[j] < q[i]
    <3> SUFFICES ASSUME ~refusedText, NEW i \in 1 .. Len(q), NEW j \in 1 .. Len(h)
                 PROVE  h[j] < q[i]
      OBVIOUS
    <3>1. i + 1 \in 1 .. Len(pending) /\ q[i] = pending[i + 1]
      BY <2>1
    <3>2. CASE j \in 1 .. Len(heard)
      BY <1>3, <2>3, <3>1, <3>2
    <3>3. CASE j = Len(heard) + 1
      BY <2>1, <2>3, <3>3
    <3>4. QED
      BY <2>3, <3>2, <3>3
  <2>9. Texts(q) \cap Texts(h) = {}
    <3>1. now \notin Texts(q)
      BY <2>1 DEF Texts
    <3>2. QED
      BY <1>3, <2>5, <3>1
  <2>10. /\ s \in Seq(Nat) /\ NoRepeats(s) /\ Texts(s) = Texts(synth) \cup {now}
    <3>1. s = Append(synth, now)
      BY <2>3 DEF Native!Sounding
    <3>2. now \notin Texts(synth)
      BY <1>3, <1>4, <2>5
    <3>3. QED
      BY <1>3, <1>4, <2>1, <3>1, <3>2, AppendFacts, AppendTexts
  <2> HIDE DEF s
  <2>11. now # 0 /\ Len(q) <= MaxPending
    BY <1>3, <2>1, <2>2
  <2>12. Texts(s) \subseteq Texts(h) /\ Texts(s) \subseteq {now} \cup 1 .. unstopped /\ now \in Texts(s)
    <3>1. \A t \in Texts(heard) : t > 0
      BY <1>3, TextsWithin
    <3>2. Texts(synth) \subseteq 1 .. unstopped
      BY <1>4, <1>5, <1>7, <3>1
    <3>3. QED
      BY <1>4, <2>5, <2>10, <3>2
  <2>13. Left(q, now, h, s, refusedText')
    BY <1>2, <2>1, <2>2, <2>3, <2>6, <2>7, <2>8, <2>9, <2>10, <2>11, <2>12 DEF Left
  <2>14. QED
    BY <1>1, <1>2, <2>13 DEF s
<1>8. CASE a = 0 /\ pending # <<>> /\ q = Tail(pending) /\ now = 0 /\ h = heard
  <2>1. /\ q \in Seq(Nat) /\ Len(q) = Len(pending) - 1 /\ Len(pending) \in Nat /\ q # pending
        /\ Ascending(q) /\ Within(q, cutText, next) /\ Texts(q) \subseteq Texts(pending)
    BY <1>3, <1>8, TailFacts, TailAscends, TailTexts
  <2>2. refusedText'
    BY <1>1, <1>8, <2>1
  <2>3. Len(q) <= MaxPending
    BY <1>3, <2>1
  <2>4. s = synth
    BY <1>8 DEF Native!Sounding
  <2> HIDE DEF s
  <2>5. Left(q, now, h, s, refusedText')
    BY <1>2, <1>3, <1>4, <1>5, <1>8, <2>1, <2>2, <2>3, <2>4 DEF Left
  <2>6. QED
    BY <1>1, <1>2, <2>5 DEF s
<1>9. QED
  BY <1>1, <1>6, <1>7, <1>8 DEF Native!Advanced, Native!None, a

\* tts.speak gives the synthesizer a text newer than all it heard, or nothing.
LEMMA GivenLeaves ==
    ASSUME unstopped \in Nat, NEW text \in Nat \ {0}, NEW s \in Seq(Nat), NEW h \in Seq(Nat), NEW r,
           NoRepeats(s), Texts(s) \subseteq Texts(h), Texts(s) \subseteq 1 .. unstopped,
           Within(h, 0, text), r \/ Ascending(h), Native!Given(text, s, h)
    PROVE  /\ active' \in {0, text} /\ (active' # 0 => active' \in Texts(synth'))
           /\ synth' \in Seq(Nat) /\ NoRepeats(synth') /\ Texts(synth') \subseteq Texts(s) \cup {text}
           /\ Texts(synth') \subseteq {active'} \cup 1 .. unstopped
           /\ heard' \in Seq(Nat) /\ Within(heard', 0, text + 1) /\ (r \/ Ascending(heard'))
           /\ Texts(synth') \subseteq Texts(heard') /\ Texts(h) \subseteq Texts(heard')
<1>1. CASE active' = text /\ synth' = Append(s, text) /\ heard' = Append(h, text)
  <2>1. \A i \in 1 .. Len(h) : h[i] < text
    BY DEF Within
  <2>2. text \notin Texts(h)
    BY <2>1 DEF Texts
  <2>3. /\ synth' \in Seq(Nat) /\ Texts(synth') = Texts(s) \cup {text} /\ NoRepeats(synth')
        /\ heard' \in Seq(Nat) /\ Texts(heard') = Texts(h) \cup {text}
    BY <1>1, <2>2, AppendFacts, AppendTexts
  <2>4. r \/ Ascending(heard')
    BY <1>1, <2>1, AppendAscends
  <2>5. Within(heard', 0, text + 1)
    <3>1. \A t \in Texts(h) : t > 0 /\ t < text + 1
      <4>1. \A i \in 1 .. Len(h) : h[i] \in Nat
        OBVIOUS
      <4>2. \A t \in Texts(h) : t \in Nat
        BY <4>1 DEF Texts
      <4>3. \A t \in Texts(h) : t > 0 /\ t < text
        BY TextsWithin
      <4>4. QED
        BY <4>2, <4>3
    <3>2. \A t \in Texts(heard') : t > 0 /\ t < text + 1
      BY <2>3, <3>1
    <3>3. 0 \in Nat /\ text + 1 \in Nat
      OBVIOUS
    <3>4. QED
      BY <3>2, <3>3, TextsWithin
  <2>6. QED
    BY <1>1, <2>3, <2>4, <2>5
<1>2. CASE active' = 0 /\ synth' = s /\ heard' = h
  <2>1. Within(h, 0, text + 1)
    BY DEF Within
  <2>2. QED
    BY <1>2, <2>1
<1>3. QED
  BY <1>1, <1>2 DEF Native!Given, Native!None

\* The invariant holds before the first request.
LEMMA NativeStarts ==
    ASSUME MaxPending \in Nat \ {0}, MaxUtterances \in Nat, Native!Init
    PROVE  NativeInv
<1>1. <<>> \in Seq(Nat) /\ Len(<<>>) = 0 /\ Texts(<<>>) = {} /\ NoRepeats(<<>>)
  BY EmptySeq DEF Texts, NoRepeats
<1>2. refusedText \in BOOLEAN
  BY DEF Native!Init
<1>3. NativeTypes
  BY <1>1, <1>2 DEF Native!Init, Native!None, NativeTypes, Within
<1>4. NativeOrder
  BY <1>1 DEF Native!Init, Native!None, NativeOrder, Ascending
<1>5. NativeSounds /\ NativeStops
  BY <1>1 DEF Native!Init, Native!None, NativeSounds, NativeStops
<1>6. QED
  BY <1>3, <1>4, <1>5 DEF NativeInv

\* What a stop leaves, whether the backend stopped or failed to.
LEMMA StoppingLeaves ==
    ASSUME NativeTypes, NEW purpose \in Nat, NEW now \in Nat, Native!Stopping(purpose, now)
    PROVE  /\ pending' = <<>> /\ active' = 0 /\ cutText' = next - 1
           /\ cutText' \in Nat /\ cutText' < next /\ cutText <= cutText'
           /\ unstopped' \in Nat /\ unstopped' <= cutText'
           /\ \/ stopping' = now /\ after' = purpose /\ unstopped' = unstopped
              \/ stopping' = 0 /\ after' = 0 /\ unstopped' = next - 1
BY DEF NativeTypes, Native!Stopping, Native!Emptied, Native!None

\* ... and every request, report and tick keeps it.
LEMMA NativeHolds ==
    ASSUME MaxPending \in Nat \ {0}, MaxUtterances \in Nat,
           NativeInv, [Native!Next]_(Native!vars)
    PROVE  NativeInv'
<1>0. <<>> \in Seq(Nat) /\ Len(<<>>) = 0 /\ Texts(<<>>) = {} /\ NoRepeats(<<>>) /\ Ascending(<<>>)
      /\ \A low, high : Within(<<>>, low, high)
  BY EmptySeq DEF Texts, NoRepeats, Ascending, Within
<1>00. /\ next \in Nat \ {0} /\ cutText \in Nat /\ cutText < next /\ unstopped \in Nat /\ unstopped <= cutText
       /\ synth \in Seq(Nat) /\ heard \in Seq(Nat) /\ completed \in Seq(Nat)
       /\ Within(heard, 0, next) /\ (refusedText \/ Ascending(heard))
       /\ NoRepeats(synth) /\ Texts(synth) \subseteq Texts(heard) /\ Texts(completed) \subseteq Texts(heard)
       /\ Texts(synth) \cap Texts(completed) = {}
  BY DEF NativeInv, NativeTypes, NativeOrder, NativeSounds
<1>1. CASE UNCHANGED Native!vars
  <2>1. UNCHANGED <<active, pending, completed, synth, stopping, after, next, heard, cutText, refusedText, unstopped>>
    BY <1>1 DEF Native!vars
  <2>2. NativeTypes'
    BY <2>1 DEF NativeInv, NativeTypes, Within
  <2>3. NativeOrder'
    BY <2>1 DEF NativeInv, NativeOrder
  <2>4. NativeSounds'
    BY <2>1 DEF NativeInv, NativeSounds
  <2>5. NativeStops'
    BY <2>1 DEF NativeInv, NativeStops
  <2>6. QED
    BY <2>2, <2>3, <2>4, <2>5 DEF NativeInv
<1>2. CASE Native!Tick
  <2>1. PICK q \in Native!Queues, now \in Native!Actives, h \in Native!Heards :
            /\ Native!Advance(q, now, h)
            /\ pending' = q /\ active' = now /\ heard' = h
            /\ synth' = Native!Sounding(now, h)
    BY <1>2 DEF Native!Tick
  <2>2. UNCHANGED <<stopping, after, next, cutText, unstopped>>
    BY <1>2 DEF Native!Tick
  <2>3. Left(q, now, h, synth', refusedText') /\ completed' = <<>> /\ after = 0 /\ stopping = 0
    BY <2>1, AdvanceLeaves
  <2>4. NativeTypes'
    BY <1>0, <2>1, <2>2, <2>3 DEF Left, NativeInv, NativeTypes, Within
  <2>5. NativeOrder'
    BY <2>1, <2>3 DEF Left, NativeOrder
  <2>6. NativeSounds'
    BY <1>0, <2>1, <2>2, <2>3 DEF Left, NativeSounds
  <2>7. NativeStops'
    BY <2>2, <2>3 DEF NativeStops
  <2>8. QED
    BY <2>4, <2>5, <2>6, <2>7 DEF NativeInv
<1>3. CASE Native!Speak
  <2>1. /\ next <= MaxUtterances /\ next' = next + 1
        /\ UNCHANGED <<stopping, after, cutText, unstopped>>
    BY <1>3 DEF Native!Speak
  <2>2. PICK q \in Native!Queues, now \in Native!Actives, h \in Native!Heards :
        /\ Native!Advance(q, now, h)
        /\ \/ /\ now # 0
              /\ active' = now /\ heard' = h
              /\ synth' = Native!Sounding(now, h)
              /\ pending' = Append(Native!Room(q), next)
           \/ /\ now = 0
              /\ Native!Given(next, Native!Sounding(now, h), h)
              /\ pending' = q
    BY <1>3 DEF Native!Speak, Native!None
  <2> DEFINE s == Native!Sounding(now, h)
  <2>3. Left(q, now, h, s, refusedText') /\ completed' = <<>> /\ after = 0 /\ stopping = 0
    BY <2>2, AdvanceLeaves
  <2> HIDE DEF s
  <2>4. h \in Seq(Nat) /\ Within(h, 0, next) /\ \A t \in Texts(h) : t \in Nat /\ t < next
    <3>1. h \in Seq(Nat) /\ Within(h, 0, next)
      BY <2>3 DEF Left
    <3>2. \A i \in 1 .. Len(h) : h[i] \in Nat
      BY <3>1
    <3>3. QED
      BY <1>00, <3>1, <3>2, TextsWithin DEF Texts
  <2>5. CASE now # 0
    <3>1. active' = now /\ heard' = h /\ synth' = s /\ pending' = Append(Native!Room(q), next)
      BY <2>2, <2>5 DEF s
    <3> DEFINE room == Native!Room(q)
    <3>2. /\ room \in Seq(Nat) /\ Within(room, cutText, next) /\ Ascending(room) /\ Len(room) < MaxPending
          /\ refusedText' \/ \A i \in 1 .. Len(room), j \in 1 .. Len(h) : h[j] < room[i]
          /\ Texts(room) \subseteq Texts(q)
      <4>1. CASE Len(q) = MaxPending
        <5>1. q # <<>> /\ q \in Seq(Nat) /\ Within(q, cutText, next) /\ Ascending(q)
          BY <1>0, <2>3, <4>1 DEF Left
        <5>2. /\ room = Tail(q) /\ room \in Seq(Nat) /\ Within(room, cutText, next) /\ Ascending(room)
              /\ Len(room) = Len(q) - 1 /\ \A i \in 1 .. Len(room) : room[i] = q[i + 1]
              /\ Texts(room) \subseteq Texts(q)
          BY <4>1, <5>1, TailFacts, TailAscends, TailTexts DEF Native!Room
        <5> HIDE DEF room
        <5>3. \A i \in 1 .. Len(room) : i + 1 \in 1 .. Len(q)
          BY <4>1, <5>2
        <5>4. refusedText' \/ \A i \in 1 .. Len(room), j \in 1 .. Len(h) : h[j] < room[i]
          BY <2>3, <5>2, <5>3 DEF Left
        <5>5. QED
          BY <4>1, <5>2, <5>4
      <4>2. CASE Len(q) # MaxPending
        BY <2>3, <4>2 DEF Left, Native!Room
      <4>3. QED
        BY <4>1, <4>2
    <3> HIDE DEF room
    <3>3. /\ pending' \in Seq(Nat) /\ Len(pending') = Len(room) + 1 /\ Len(room) \in Nat
          /\ \A i \in 1 .. Len(room) : pending'[i] = room[i]
          /\ pending'[Len(room) + 1] = next
          /\ Texts(pending') = Texts(room) \cup {next}
      BY <1>00, <3>1, <3>2, AppendFacts, AppendTexts DEF room
    <3>4. \A i \in 1 .. Len(room) : room[i] < next /\ room[i] \in Nat
      BY <3>2 DEF Within
    <3>5. Ascending(pending') /\ Within(pending', cutText, next + 1)
      <4>1. Within(room, cutText, next + 1)
        BY <1>00, <3>2, <3>4 DEF Within
      <4>2. Ascending(Append(room, next)) /\ Within(Append(room, next), cutText, next + 1)
        <5>1. next \in Nat /\ next + 1 \in Nat /\ next < next + 1
          BY <1>00
        <5>2. \A i \in 1 .. Len(room) : room[i] < next
          BY <3>4
        <5>3. Ascending(Append(room, next))
          BY <3>2, <5>1, <5>2, AppendAscends
        <5>4. QED
          BY <1>00, <3>2, <4>1, <5>1, <5>2, <5>3, AppendAscends
      <4>3. QED
        BY <3>1, <4>2 DEF room
    <3>6. Within(h, 0, next + 1) /\ \A j \in 1 .. Len(h) : h[j] < next
      BY <1>00, <2>4 DEF Within
    <3>7. refusedText' \/ \A i \in 1 .. Len(pending'), j \in 1 .. Len(h) : h[j] < pending'[i]
      <4>1. \A i \in 1 .. Len(pending') : i \in 1 .. Len(room) \/ i = Len(room) + 1
        BY <3>3
      <4>2. QED
        BY <3>2, <3>3, <3>6, <4>1
    <3>8. NativeTypes'
      <4>1. next' \in Nat \ {0} /\ next' <= MaxUtterances + 1 /\ cutText' \in Nat /\ cutText' < next'
            /\ unstopped' \in Nat /\ unstopped' <= cutText'
        BY <2>1, <1>00 DEF NativeInv, NativeTypes
      <4>2. active' \in Nat /\ after' \in Nat /\ stopping' \in Nat /\ synth' \in Seq(Nat)
        BY <2>1, <2>3, <3>1 DEF Left
      <4>3. heard' \in Seq(Nat) /\ completed' \in Seq(Nat) /\ refusedText' \in BOOLEAN
        BY <1>0, <2>3, <3>1 DEF Left
      <4>4. Len(pending') <= MaxPending
        BY <3>2, <3>3
      <4>5. Within(heard, 0, next)' /\ Within(pending, cutText, next)'
        <5>1. Within(heard', 0, next') /\ Within(pending', cutText', next')
          BY <2>1, <3>1, <3>5, <3>6
        <5>2. QED
          BY <5>1 DEF Within
      <4>6. QED
        BY <3>3, <4>1, <4>2, <4>3, <4>4, <4>5 DEF NativeTypes
    <3>9. NativeOrder'
      <4>1. refusedText' \/ Ascending(heard')
        BY <2>3, <3>1 DEF Left
      <4>2. Texts(pending') \cap Texts(heard') = {}
        <5>1. next \notin Texts(h)
          BY <1>00, <2>4
        <5>2. Texts(q) \cap Texts(h) = {}
          BY <2>3 DEF Left
        <5>3. QED
          BY <3>1, <3>2, <3>3, <5>1, <5>2
      <4>3. QED
        BY <3>1, <3>5, <3>7, <4>1, <4>2 DEF NativeOrder, Ascending, Texts
    <3>10. NativeSounds'
      BY <1>0, <2>1, <2>3, <2>5, <3>1 DEF Left, NativeSounds
    <3>11. NativeStops'
      BY <2>1, <2>3 DEF NativeStops
    <3>12. QED
      BY <3>8, <3>9, <3>10, <3>11 DEF NativeInv
  <2>6. CASE now = 0
    <3>1. Native!Given(next, s, h) /\ pending' = q
      BY <2>2, <2>6 DEF s
    <3>2. /\ s \in Seq(Nat) /\ NoRepeats(s) /\ Texts(s) \subseteq Texts(h) /\ Texts(s) \subseteq 1 .. unstopped
          /\ (refusedText' \/ q = <<>>) /\ (refusedText' \/ Ascending(h)) /\ refusedText' \in BOOLEAN
      <4>1. /\ s \in Seq(Nat) /\ NoRepeats(s) /\ Texts(s) \subseteq Texts(h)
            /\ Texts(s) \subseteq {0} \cup 1 .. unstopped
            /\ (refusedText' \/ q = <<>>) /\ (refusedText' \/ Ascending(h)) /\ refusedText' \in BOOLEAN
        BY <2>3, <2>6 DEF Left
      <4>2. 0 \notin Texts(h)
        BY <1>00, <2>4, TextsWithin
      <4>3. QED
        BY <4>1, <4>2
    <3>3. /\ active' \in {0, next} /\ (active' # 0 => active' \in Texts(synth'))
          /\ synth' \in Seq(Nat) /\ NoRepeats(synth')
          /\ Texts(synth') \subseteq {active'} \cup 1 .. unstopped
          /\ heard' \in Seq(Nat) /\ Within(heard', 0, next + 1) /\ (refusedText' \/ Ascending(heard'))
          /\ Texts(synth') \subseteq Texts(heard')
      BY <1>00, <2>4, <3>1, <3>2, GivenLeaves
    <3>4. heard' = h \/ heard' = Append(h, next)
      BY <3>1 DEF Native!Given
    <3>5. Within(q, cutText, next) /\ Within(q, cutText, next + 1) /\ q \in Seq(Nat) /\ Ascending(q) /\ Len(q) <= MaxPending
          /\ Texts(q) \cap Texts(h) = {}
      BY <2>3, <1>00 DEF Left, Within
    <3>6. NativeTypes'
      <4>1. active' \in Nat /\ after' \in Nat /\ stopping' \in Nat /\ completed' \in Seq(Nat)
        BY <1>0, <1>00, <2>1, <2>3, <3>3
      <4>2. next' \in Nat \ {0} /\ next' <= MaxUtterances + 1 /\ cutText' < next'
        BY <1>00, <2>1 DEF NativeInv, NativeTypes
      <4>3. Within(heard, 0, next)' /\ Within(pending, cutText, next)'
        <5>1. Within(heard', 0, next') /\ Within(pending', cutText', next')
          BY <2>1, <3>1, <3>3, <3>5
        <5>2. QED
          BY <5>1 DEF Within
      <4>4. QED
        BY <1>00, <2>1, <3>1, <3>2, <3>3, <3>5, <4>1, <4>2, <4>3 DEF NativeTypes
    <3>7. NativeOrder'
      <4>1. refusedText' \/ \A i \in 1 .. Len(pending'), j \in 1 .. Len(heard') : heard'[j] < pending'[i]
        BY <1>0, <3>1, <3>2
      <4>2. Texts(pending') \cap Texts(heard') = {}
        <5>1. Texts(heard') \subseteq Texts(h) \cup {next}
          <6>1. Texts(Append(h, next)) = Texts(h) \cup {next}
            BY <1>00, <2>4, AppendTexts
          <6>2. QED
            BY <3>4, <6>1
        <5>2. \A i \in 1 .. Len(q) : q[i] \in Nat /\ q[i] < next
          BY <3>5 DEF Within
        <5>3. next \notin Texts(q)
          BY <1>00, <5>2 DEF Texts
        <5>4. QED
          BY <3>1, <3>5, <5>1, <5>3
      <4>3. QED
        BY <3>1, <3>3, <3>5, <4>1, <4>2 DEF NativeOrder, Ascending, Texts
    <3>8. NativeSounds'
      <4>1. active' # 0 => active' > cutText'
        BY <1>00, <2>1, <3>3
      <4>2. QED
        BY <1>0, <2>1, <2>3, <3>3, <4>1 DEF NativeSounds
    <3>9. NativeStops'
      BY <2>1, <2>3 DEF NativeStops
    <3>10. QED
      BY <3>6, <3>7, <3>8, <3>9 DEF NativeInv
  <2>7. QED
    BY <2>5, <2>6
<1>4. CASE Native!Stop
  <2>1. /\ after = 0 /\ stopping = 0 /\ Native!Stopping(MaxUtterances + 1, active)
        /\ UNCHANGED <<completed, synth, next, heard, refusedText>>
    BY <1>4 DEF Native!Stop, Native!Idle, Native!StopOnly, Native!None
  <2>2. MaxUtterances + 1 \in Nat /\ active \in Nat /\ Texts(synth) \subseteq {active} \cup 1 .. unstopped
    BY <2>1 DEF NativeInv, NativeTypes, NativeSounds
  <2>3. /\ pending' = <<>> /\ active' = 0 /\ cutText' = next - 1
        /\ cutText' \in Nat /\ cutText' < next
        /\ unstopped' \in Nat /\ unstopped' <= cutText'
        /\ \/ stopping' = active /\ after' = MaxUtterances + 1 /\ unstopped' = unstopped
           \/ stopping' = 0 /\ after' = 0 /\ unstopped' = next - 1
    BY <2>1, <2>2, StoppingLeaves DEF NativeInv
  <2>4. NativeTypes'
    BY <1>0, <1>00, <2>1, <2>2, <2>3 DEF NativeInv, NativeTypes, Within
  <2>5. NativeOrder'
    BY <1>0, <1>00, <2>1, <2>3 DEF NativeOrder, Ascending, Texts
  <2>6. Texts(synth) \subseteq 1 .. next - 1
    <3>1. \A t \in Texts(heard) : t > 0 /\ t < next
      BY <1>00, TextsWithin
    <3>2. Texts(heard) \subseteq Nat
      BY <1>00 DEF Texts
    <3>3. QED
      BY <1>00, <3>1, <3>2
  <2>7. NativeSounds'
    BY <1>00, <2>1, <2>3, <2>6 DEF NativeSounds
  <2>8. NativeStops'
    <3>1. after' # 0 => Texts(synth') \subseteq {stopping'} \cup 1 .. unstopped' /\ Texts(synth') \subseteq 1 .. cutText'
      BY <2>1, <2>2, <2>3, <2>6
    <3>2. after' \in {0, MaxUtterances + 1}
      BY <2>3
    <3>3. QED
      BY <2>3, <3>1, <3>2 DEF NativeStops
  <2>9. QED
    BY <2>4, <2>5, <2>7, <2>8 DEF NativeInv
<1>5. CASE Native!Interrupt
  <2>1. /\ next <= MaxUtterances /\ next' = next + 1
    BY <1>5 DEF Native!Interrupt
  <2>2. PICK q \in Native!Queues, now \in Native!Actives, h \in Native!Heards :
        /\ Native!Advance(q, now, h)
        /\ Native!Stopping(next, now) /\ heard' = h
        /\ synth' = Native!Sounding(now, h)
    BY <1>5 DEF Native!Interrupt
  <2>3. Left(q, now, h, synth', refusedText') /\ completed' = <<>> /\ after = 0
    BY <2>2, AdvanceLeaves
  <2>4. /\ now \in Nat /\ synth' \in Seq(Nat) /\ NoRepeats(synth') /\ Texts(synth') \subseteq Texts(heard')
        /\ Texts(synth') \subseteq {now} \cup 1 .. unstopped
        /\ heard' \in Seq(Nat) /\ Within(heard', 0, next) /\ Within(heard', 0, next + 1)
        /\ refusedText' \in BOOLEAN /\ (refusedText' \/ Ascending(heard'))
    BY <1>00, <2>2, <2>3 DEF Left, Within
  <2>5. /\ pending' = <<>> /\ active' = 0 /\ cutText' = next - 1
        /\ cutText' \in Nat /\ cutText' < next
        /\ unstopped' \in Nat /\ unstopped' <= cutText'
        /\ \/ stopping' = now /\ after' = next /\ unstopped' = unstopped
           \/ stopping' = 0 /\ after' = 0 /\ unstopped' = next - 1
    BY <1>00, <2>2, <2>4, StoppingLeaves DEF NativeInv
  <2>6. NativeTypes'
    BY <1>0, <1>00, <2>1, <2>3, <2>4, <2>5 DEF NativeInv, NativeTypes, Within
  <2>7. NativeOrder'
    BY <1>0, <2>4, <2>5 DEF NativeOrder, Ascending, Texts
  <2>8. Texts(synth') \subseteq 1 .. next - 1
    <3>1. \A t \in Texts(heard') : t > 0 /\ t < next
      BY <1>00, <2>4, TextsWithin
    <3>2. Texts(heard') \subseteq Nat
      BY <2>4 DEF Texts
    <3>3. QED
      BY <1>00, <2>4, <3>1, <3>2
  <2>9. NativeSounds'
    BY <1>0, <2>3, <2>4, <2>5, <2>8 DEF NativeSounds
  <2>10. (Within(heard', 0, after') /\ after' = next' - 1 /\ cutText' < after') \/ after' = 0
    BY <1>00, <2>1, <2>4, <2>5
  <2>11. NativeStops'
    <3>1. after' # 0 => Texts(synth') \subseteq {stopping'} \cup 1 .. unstopped' /\ Texts(synth') \subseteq 1 .. cutText'
      BY <2>4, <2>5, <2>8
    <3>2. QED
      BY <2>5, <2>10, <3>1 DEF NativeStops, Within
  <2>12. QED
    BY <2>6, <2>7, <2>9, <2>11 DEF NativeInv
<1>6. CASE Native!StopEnds
  <2>1. /\ after # 0 /\ after' = 0 /\ stopping' = 0
        /\ completed' = (IF stopping = 0 THEN completed ELSE <<>>)
        /\ UNCHANGED <<pending, next, refusedText, cutText>>
    BY <1>6 DEF Native!StopEnds, Native!None
  <2>2. pending = <<>> /\ active = 0 /\ Texts(synth) \subseteq {stopping} \cup 1 .. unstopped
    BY <2>1 DEF NativeInv, NativeStops
  <2>3. completed' \in Seq(Nat) /\ Texts(completed') \subseteq Texts(completed)
        /\ (stopping # 0 => Texts(completed') = {})
    BY <1>0, <1>00, <2>1
  <2>4. 0 \notin Texts(heard)
    BY <1>00, TextsWithin
  <2>5. Native!Stopped => Texts(synth) \subseteq 1 .. unstopped
    <3>1. CASE stopping = 0
      BY <1>00, <2>2, <2>4, <3>1
    <3>2. CASE stopping \in Native!ToSet(completed)
      <4>1. stopping \in Texts(completed)
        BY <1>00, <3>2 DEF Native!ToSet, Texts
      <4>2. QED
        BY <1>00, <2>2, <4>1
    <3>3. QED
      BY <3>1, <3>2 DEF Native!Stopped, Native!StopReported, Native!None
  <2>6. ASSUME NEW s \in {synth, <<>>}, Texts(s) \subseteq 1 .. unstopped, Native!Continued(s), unstopped' = unstopped
        PROVE  NativeInv'
    <3>1. s \in Seq(Nat) /\ NoRepeats(s) /\ Texts(s) \subseteq Texts(heard) /\ Texts(s) \cap Texts(completed) = {}
      BY <1>0, <1>00, <2>6
    <3>2. CASE after = MaxUtterances + 1
      <4>1. synth' = s /\ active' = 0 /\ heard' = heard
        BY <2>2, <2>6, <3>2 DEF Native!Continued, Native!StopOnly
      <4>2. NativeTypes'
        BY <2>1, <2>3, <2>6, <3>1, <4>1 DEF NativeInv, NativeTypes, Within
      <4>3. NativeOrder'
        BY <2>1, <4>1 DEF NativeInv, NativeOrder, Ascending, Texts
      <4>4. NativeSounds'
        <5>1. /\ NoRepeats(synth') /\ Texts(synth') \subseteq Texts(heard') /\ Texts(completed') \subseteq Texts(heard')
              /\ Texts(synth') \cap Texts(completed') = {} /\ Texts(synth') \subseteq 1 .. unstopped'
          BY <1>00, <2>3, <2>6, <3>1, <4>1
        <5>2. QED
          BY <4>1, <5>1 DEF NativeSounds
      <4>5. NativeStops'
        BY <2>1 DEF NativeStops
      <4>6. QED
        BY <4>2, <4>3, <4>4, <4>5 DEF NativeInv
    <3>3. CASE after # MaxUtterances + 1
      <4>1. Native!Given(after, s, heard)
        BY <2>6, <3>3 DEF Native!Continued, Native!StopOnly
      <4>2. after = next - 1 /\ Within(heard, 0, after) /\ after \in Nat \ {0}
        BY <1>00, <2>1, <3>3 DEF NativeInv, NativeStops
      <4>3. cutText < after
        BY <2>1, <3>3 DEF NativeInv, NativeStops
      <4>4. /\ active' \in {0, after} /\ (active' # 0 => active' \in Texts(synth'))
            /\ synth' \in Seq(Nat) /\ NoRepeats(synth') /\ Texts(synth') \subseteq Texts(s) \cup {after}
            /\ Texts(synth') \subseteq {active'} \cup 1 .. unstopped
            /\ heard' \in Seq(Nat) /\ Within(heard', 0, after + 1) /\ (refusedText \/ Ascending(heard'))
            /\ Texts(synth') \subseteq Texts(heard') /\ Texts(heard) \subseteq Texts(heard')
        BY <1>00, <2>6, <3>1, <4>1, <4>2, GivenLeaves
      <4>5. after \notin Texts(heard)
        BY <4>2, TextsWithin
      <4>6. NativeTypes'
        <5>1. active' \in Nat /\ after + 1 = next
          BY <1>00, <4>2, <4>4
        <5>2. Within(heard, 0, next)' /\ Within(pending, cutText, next)'
          BY <1>0, <2>1, <2>2, <4>4, <5>1 DEF Within
        <5>3. QED
          BY <2>1, <2>3, <2>6, <4>4, <5>1, <5>2 DEF NativeInv, NativeTypes
      <4>7. NativeOrder'
        <5>1. pending' = <<>>
          BY <2>1, <2>2
        <5>2. QED
          BY <1>0, <2>1, <4>4, <5>1 DEF NativeOrder, Ascending, Texts
      <4>8. NativeSounds'
        <5>1. /\ Texts(completed') \subseteq Texts(heard') /\ Texts(synth') \cap Texts(completed') = {}
          BY <1>00, <2>3, <3>1, <4>4, <4>5
        <5>2. active' # 0 => active' > cutText'
          BY <1>00, <2>1, <4>2, <4>3, <4>4
        <5>3. Texts(synth') \subseteq {active'} \cup 1 .. unstopped'
          BY <2>6, <4>4
        <5>4. QED
          BY <4>4, <5>1, <5>2, <5>3 DEF NativeSounds
      <4>9. NativeStops'
        BY <2>1 DEF NativeStops
      <4>10. QED
        BY <4>6, <4>7, <4>8, <4>9 DEF NativeInv
    <3>4. QED
      BY <3>2, <3>3
  <2>7. CASE Native!Stopped /\ Native!Continued(synth) /\ unstopped' = unstopped
    BY <2>5, <2>6, <2>7
  <2>8. CASE Native!Continued(<<>>) /\ unstopped' = unstopped
    BY <1>0, <2>6, <2>8
  <2>9. CASE ~Native!Stopped /\ unstopped' = cutText /\ UNCHANGED <<active, synth, heard>>
    <3>1. stopping # 0
      BY <2>9 DEF Native!Stopped, Native!None
    <3>2. NativeTypes'
      BY <1>00, <2>1, <2>3, <2>9 DEF NativeInv, NativeTypes, Within
    <3>3. NativeOrder'
      BY <2>1, <2>9 DEF NativeInv, NativeOrder, Ascending, Texts
    <3>4. Texts(synth) \subseteq 1 .. cutText
      BY <2>1 DEF NativeInv, NativeStops
    <3>5. NativeSounds'
      <4>1. /\ NoRepeats(synth') /\ Texts(synth') \subseteq Texts(heard') /\ Texts(completed') = {} /\ active' = 0
            /\ Texts(synth') \subseteq 1 .. unstopped'
        BY <1>00, <2>2, <2>3, <2>9, <3>1, <3>4
      <4>2. QED
        BY <4>1 DEF NativeSounds
    <3>6. NativeStops'
      BY <2>1 DEF NativeStops
    <3>7. QED
      BY <3>2, <3>3, <3>5, <3>6 DEF NativeInv
  <2>10. QED
    BY <1>6, <2>7, <2>8, <2>9 DEF Native!StopEnds
<1>7. CASE Native!Reported
  <2>1. /\ synth # <<>> /\ completed' = Append(completed, Head(synth)) /\ synth' = Tail(synth)
        /\ UNCHANGED <<active, pending, stopping, after, next, heard, cutText, refusedText, unstopped>>
    BY <1>7 DEF Native!Reported
  <2>2. /\ synth' \in Seq(Nat) /\ Head(synth) \in Nat
        /\ Texts(synth) = {Head(synth)} \cup Texts(synth')
        /\ NoRepeats(synth') /\ Head(synth) \notin Texts(synth')
    BY <1>00, <2>1, TailFacts, TailTexts
  <2>3. completed' \in Seq(Nat) /\ Texts(completed') = Texts(completed) \cup {Head(synth)}
    BY <1>00, <2>1, <2>2, AppendFacts, AppendTexts
  <2>4. NativeTypes'
    BY <2>1, <2>2, <2>3 DEF NativeInv, NativeTypes, Within
  <2>5. NativeOrder'
    BY <2>1 DEF NativeInv, NativeOrder, Ascending, Texts
  <2>6. NativeSounds'
    <3>1. /\ Texts(synth') \subseteq Texts(heard) /\ Texts(completed') \subseteq Texts(heard)
          /\ Texts(synth') \cap Texts(completed') = {}
      BY <1>00, <2>2, <2>3
    <3>2. /\ active # 0 => active > cutText /\ active \in Texts(synth') \cup Texts(completed')
          /\ after = 0 => Texts(synth') \subseteq {active} \cup 1 .. unstopped
      BY <2>2, <2>3 DEF NativeInv, NativeSounds
    <3>3. QED
      BY <2>1, <2>2, <3>1, <3>2 DEF NativeSounds
  <2>7. NativeStops'
    <3>1. after # 0 => Texts(synth') \subseteq {stopping} \cup 1 .. unstopped /\ Texts(synth') \subseteq 1 .. cutText
      BY <2>2 DEF NativeInv, NativeStops
    <3>2. QED
      BY <2>1, <3>1 DEF NativeInv, NativeStops, Within
  <2>8. QED
    BY <2>4, <2>5, <2>6, <2>7 DEF NativeInv
<1>8. QED
  BY <1>1, <1>2, <1>3, <1>4, <1>5, <1>6, <1>7 DEF Native!Next

\* ... and it says that the texts are heard in order.
LEMMA NativeMeans ==
    ASSUME NativeInv
    PROVE  Native!UtterancesInOrder
<1>1. /\ pending \in Seq(Nat) /\ heard \in Seq(Nat) /\ completed \in Seq(Nat) /\ synth \in Seq(Nat)
      /\ DOMAIN pending = 1 .. Len(pending) /\ DOMAIN heard = 1 .. Len(heard)
      /\ Native!ToSet(completed) = Texts(completed) /\ Native!ToSet(synth) = Texts(synth)
  BY DEF NativeInv, NativeTypes, Native!ToSet, Texts
<1>2. Native!InOrder(pending) /\ (refusedText \/ Native!InOrder(heard))
  BY <1>1 DEF NativeInv, NativeOrder, Ascending, Native!InOrder
<1>3. ASSUME NEW i \in DOMAIN pending
      PROVE  pending[i] > cutText /\ (refusedText \/ heard = <<>> \/ pending[i] > Native!Last(heard))
  <2>1. pending[i] > cutText /\ pending[i] \in Nat
    BY <1>1, <1>3 DEF NativeInv, NativeTypes, Within
  <2>2. CASE heard # <<>> /\ ~refusedText
    <3>1. Len(heard) \in 1 .. Len(heard)
      BY <1>1, <2>2, EmptySeq
    <3>2. heard[Len(heard)] < pending[i]
      BY <1>1, <1>3, <2>2, <3>1 DEF NativeInv, NativeOrder
    <3>3. QED
      BY <2>1, <3>1, <3>2, <1>1 DEF Native!Last
  <2>3. QED
    BY <2>1, <2>2
<1>4. /\ active # 0 => /\ active > cutText
                       /\ active \in Native!ToSet(synth) \/ active \in Native!ToSet(completed)
      /\ after = 0 => Native!ToSet(synth) \subseteq {active} \cup 1 .. unstopped
  BY <1>1 DEF NativeInv, NativeSounds
<1>5. unstopped <= cutText /\ Len(pending) <= MaxPending
  BY DEF NativeInv, NativeTypes
<1>6. QED
  BY <1>2, <1>3, <1>4, <1>5 DEF Native!UtterancesInOrder, Native!None

(***************************************************************************)
(* Whatever the backend fails to speak, to stop or to replace: the texts   *)
(* spoken are in the order asked, unless the backend refused one of those  *)
(* that waited; those that wait are in that order too, newer than every    *)
(* text spoken and than the last stop or interruption, and within the      *)
(* bound; the server waits only for an utterance that the synthesizer has  *)
(* to speak or has reported; and what else the synthesizer has to speak is *)
(* left by a stop or a replacement that failed (native_tts_server.rs,      *)
(* speak, stop, advance, replace_synthesizer).                             *)
(***************************************************************************)
THEOREM SpokenInOrder ==
    ASSUME MaxPending \in Nat \ {0}, MaxUtterances \in Nat
    PROVE  Native!Spec => []UtterancesInOrder
<1>1. Native!Init => NativeInv
  BY NativeStarts
<1>2. NativeInv /\ [Native!Next]_(Native!vars) => NativeInv'
  BY NativeHolds
<1>3. NativeInv => UtterancesInOrder
  BY NativeMeans DEF UtterancesInOrder
<1>4. QED
  BY <1>1, <1>2, <1>3, PTL DEF Native!Spec

-----------------------------------------------------------------------------
(* The lines of the protocol.                                              *)

Requests == [id : Nat, method : Rpc!Methods \cup Rpc!ProtocolMethods, value : Nat]
LineKinds == Rpc!ForeignKinds \cup {"document"}
Responses == {r \in [id : Nat, of : Nat, kind : LineKinds, value : Nat] : r.of = r.id}
Bytes(P) == [payload : P, size : Nat, newline : BOOLEAN]

\* No line ends from the i-th byte to the one before the j-th.
Unbroken(s, i, j) == \A m \in i .. j - 1 : ~s[m].newline
\* The first line, of which k bytes are gone, is as long as its bytes say.
Heads(s, k) ==
    \A j \in 1 .. Len(s) : Unbroken(s, 1, j) =>
        s[j].size >= k + j /\ (s[j].newline <=> s[j].size = k + j)
\* ... or is over the limit.
TooLong(s) == \A j \in 1 .. Len(s) : Unbroken(s, 1, j) => s[j].size > Limit
\* The lines after it are as long as their bytes say.
Follows(s) ==
    \A i, j \in 1 .. Len(s) : i < j /\ s[i].newline /\ Unbroken(s, i + 1, j) =>
        s[j].size >= j - i /\ (s[j].newline <=> s[j].size = j - i)
SameLine(s) == \A i, j \in 1 .. Len(s) : i < j /\ Unbroken(s, i, j) => s[i].size = s[j].size
Whole(s) == s # <<>> => s[Len(s)].newline
Framed(s) == Follows(s) /\ SameLine(s) /\ Whole(s)

Ups == toServer \o unsent
Downs == responseBuf \o toDriver

RpcTypes ==
    /\ toServer \in Seq(Bytes(Requests)) /\ unsent \in Seq(Bytes(Requests))
    /\ toDriver \in Seq(Bytes(Responses)) /\ responseBuf \in Seq(Bytes(Responses))
    /\ pairing = "driver-foreign" => lineBuf \in Seq(Requests)
    /\ pairing # "driver-foreign" => lineBuf \in Seq(Bytes(Requests))
    /\ callId \in Nat \ {0}
    /\ discarding \in BOOLEAN
    /\ served \in Seq([size : Nat, tooLarge : BOOLEAN])
    /\ lines \in Seq(Nat)

\* A request is written only when the one before it is complete.
UnsentInv ==
    /\ pairing = "client-native" => unsent = <<>>
    /\ call = Rpc!NoCall /\ ~unavailable /\ stage # "dropped" => unsent = <<>>

UpInv ==
    pairing # "driver-foreign" =>
        /\ Framed(Ups)
        /\ IF discarding THEN TooLong(Ups) ELSE Heads(Ups, Len(lineBuf))
        /\ Ups = <<>> => ~discarding /\ lineBuf = <<>>
        /\ discarding => lineBuf = <<>>

DownInv == Framed(Downs) /\ Heads(Downs, 0)

RpcInv == RpcTypes /\ UnsentInv /\ UpInv /\ DownInv /\ Rpc!RpcExact

Shifted(t, s, n) == Len(t) = Len(s) - n /\ \A i \in 1 .. Len(t) : t[i] = s[i + n]
Extended(t, s, l) ==
    /\ Len(t) = Len(s) + Len(l)
    /\ \A i \in 1 .. Len(s) : t[i] = s[i]
    /\ \A i \in 1 .. Len(l) : t[Len(s) + i] = l[i]

\* What is left of a buffer when its first n bytes are taken.
LEMMA RestShifts ==
    ASSUME NEW S, NEW s \in Seq(S), NEW n \in 0 .. Len(s)
    PROVE  SubSeq(s, n + 1, Len(s)) \in Seq(S) /\ Shifted(SubSeq(s, n + 1, Len(s)), s, n)
<1>1. Len(s) \in Nat
  OBVIOUS
<1>2. /\ SubSeq(s, n + 1, Len(s)) \in Seq(S)
      /\ Len(SubSeq(s, n + 1, Len(s))) = IF n + 1 <= Len(s) THEN Len(s) - (n + 1) + 1 ELSE 0
  BY <1>1, SubSeqProperties
<1>3. \A i \in 1 .. Len(s) - (n + 1) + 1 : SubSeq(s, n + 1, Len(s))[i] = s[(n + 1) + i - 1]
  BY <1>1, SubSeqProperties
<1>4. QED
  BY <1>1, <1>2, <1>3 DEF Shifted

\* Two buffers, one after the other.
LEMMA ConcatExtends ==
    ASSUME NEW S, NEW s \in Seq(S), NEW l \in Seq(S)
    PROVE  /\ s \o l \in Seq(S) /\ Extended(s \o l, s, l)
           /\ Len(s) \in Nat /\ Len(l) \in Nat
<1>1. s \o l \in Seq(S) /\ Len(s \o l) = Len(s) + Len(l) /\ Len(s) \in Nat /\ Len(l) \in Nat
  BY ConcatProperties
<1>2. \A i \in 1 .. Len(s) + Len(l) : (s \o l)[i] = IF i <= Len(s) THEN s[i] ELSE l[i - Len(s)]
  BY ConcatProperties
<1>3. \A i \in 1 .. Len(s) : (s \o l)[i] = s[i]
  BY <1>1, <1>2
<1>4. \A i \in 1 .. Len(l) : (s \o l)[Len(s) + i] = l[i]
  BY <1>1, <1>2
<1>5. QED
  BY <1>1, <1>3, <1>4 DEF Extended

\* A byte of a buffer says what line it belongs to.
LEMMA ByteTypes ==
    ASSUME NEW P, NEW s \in Seq(Bytes(P))
    PROVE  /\ Len(s) \in Nat
           /\ \A i \in 1 .. Len(s) : s[i] \in Bytes(P) /\ s[i].size \in Nat /\ s[i].newline \in BOOLEAN /\ s[i].payload \in P
<1>1. Len(s) \in Nat /\ \A i \in 1 .. Len(s) : s[i] \in Bytes(P)
  OBVIOUS
<1>2. QED
  BY <1>1 DEF Bytes

\* Taking n bytes moves an unbroken stretch by n.
LEMMA ShiftUnbroken ==
    ASSUME NEW P, NEW s \in Seq(Bytes(P)), NEW t \in Seq(Bytes(P)), NEW n \in 0 .. Len(s), Shifted(t, s, n),
           NEW i \in 1 .. Len(t), NEW j \in 1 .. Len(t)
    PROVE  /\ Unbroken(t, i, j) <=> Unbroken(s, i + n, j + n)
           /\ t[j] = s[j + n] /\ i + n \in 1 .. Len(s) /\ j + n \in 1 .. Len(s)
<1>1. Len(s) \in Nat /\ Len(t) = Len(s) - n /\ \A m \in 1 .. Len(t) : t[m] = s[m + n]
  BY DEF Shifted
<1>2. ASSUME Unbroken(t, i, j), NEW m \in i + n .. (j + n) - 1
      PROVE  ~s[m].newline
  <2>1. m - n \in i .. j - 1 /\ m - n \in 1 .. Len(t) /\ (m - n) + n = m
    BY <1>1
  <2>2. ~t[m - n].newline /\ t[m - n] = s[(m - n) + n]
    BY <1>1, <1>2, <2>1 DEF Unbroken
  <2>3. QED
    BY <2>1, <2>2
<1>3. ASSUME Unbroken(s, i + n, j + n), NEW m \in i .. j - 1
      PROVE  ~t[m].newline
  <2>1. m + n \in i + n .. (j + n) - 1 /\ m \in 1 .. Len(t)
    BY <1>1
  <2>2. QED
    BY <1>1, <1>3, <2>1 DEF Unbroken
<1>4. t[j] = s[j + n] /\ i + n \in 1 .. Len(s) /\ j + n \in 1 .. Len(s)
  BY <1>1
<1>5. QED
  BY <1>2, <1>3, <1>4 DEF Unbroken

\* What is left of whole lines still ends with a whole line.
LEMMA ShiftFramed ==
    ASSUME NEW P, NEW s \in Seq(Bytes(P)), NEW t \in Seq(Bytes(P)), NEW n \in 0 .. Len(s), Shifted(t, s, n),
           Framed(s)
    PROVE  Framed(t)
<1>1. Len(s) \in Nat /\ Len(t) = Len(s) - n /\ Len(t) \in Nat
  BY DEF Shifted
<1>2. Follows(t)
  <2> SUFFICES ASSUME NEW i \in 1 .. Len(t), NEW j \in 1 .. Len(t), i < j, t[i].newline, Unbroken(t, i + 1, j)
               PROVE  t[j].size >= j - i /\ (t[j].newline <=> t[j].size = j - i)
    BY DEF Follows
  <2>1. i + 1 \in 1 .. Len(t)
    BY <1>1
  <2>2. /\ Unbroken(s, (i + 1) + n, j + n) /\ t[i] = s[i + n] /\ t[j] = s[j + n]
        /\ i + n \in 1 .. Len(s) /\ j + n \in 1 .. Len(s)
    <3> DEFINE a == i + 1
    <3>1. a \in 1 .. Len(t)
      BY <2>1
    <3>2. Unbroken(t, a, j)
      OBVIOUS
    <3> HIDE DEF a
    <3>3. Unbroken(s, a + n, j + n) /\ t[j] = s[j + n] /\ j + n \in 1 .. Len(s)
      BY <3>1, <3>2, ShiftUnbroken
    <3>4. t[i] = s[i + n] /\ i + n \in 1 .. Len(s)
      BY <1>1 DEF Shifted
    <3>5. QED
      BY <3>3, <3>4 DEF a
  <2>3. i + n < j + n /\ (i + 1) + n = (i + n) + 1 /\ (j + n) - (i + n) = j - i
    BY <1>1
  <2>4. s[j + n].size >= (j + n) - (i + n) /\ (s[j + n].newline <=> s[j + n].size = (j + n) - (i + n))
    BY <2>2, <2>3 DEF Framed, Follows
  <2>5. QED
    BY <2>2, <2>3, <2>4
<1>3. SameLine(t)
  <2> SUFFICES ASSUME NEW i \in 1 .. Len(t), NEW j \in 1 .. Len(t), i < j, Unbroken(t, i, j)
               PROVE  t[i].size = t[j].size
    BY DEF SameLine
  <2>2. /\ Unbroken(s, i + n, j + n) /\ t[i] = s[i + n] /\ t[j] = s[j + n]
        /\ i + n \in 1 .. Len(s) /\ j + n \in 1 .. Len(s)
    BY ShiftUnbroken
  <2>3. i + n < j + n
    BY <1>1
  <2>4. QED
    BY <2>2, <2>3 DEF Framed, SameLine
<1>4. Whole(t)
  <2> SUFFICES ASSUME t # <<>> PROVE t[Len(t)].newline
    BY DEF Whole
  <2>1. Len(t) \in 1 .. Len(t)
    BY <1>1, EmptySeq
  <2>2. s # <<>> /\ Len(t) + n = Len(s)
    BY <1>1, <2>1
  <2>3. s[Len(s)].newline /\ t[Len(t)] = s[Len(t) + n]
    BY <2>1, <2>2 DEF Shifted, Framed, Whole
  <2>4. QED
    BY <2>2, <2>3
<1>5. QED
  BY <1>2, <1>3, <1>4 DEF Framed

\* What is at the head once the first n bytes are gone.
LEMMA ShiftHeads ==
    ASSUME NEW P, NEW s \in Seq(Bytes(P)), NEW t \in Seq(Bytes(P)), NEW n \in 0 .. Len(s), Shifted(t, s, n),
           Framed(s), NEW k \in Nat, Limit \in Nat
    PROVE  /\ n = 0 => (Heads(s, k) => Heads(t, k)) /\ (TooLong(s) => TooLong(t))
           /\ n > 0 /\ s[n].newline => Heads(t, 0)
           /\ n > 0 /\ Unbroken(s, 1, n + 1) =>
                /\ Heads(s, k) => Heads(t, k + n)
                /\ TooLong(s) => TooLong(t)
                /\ Heads(s, k) /\ k + n > Limit => TooLong(t)
<1>1. Len(s) \in Nat /\ Len(t) = Len(s) - n /\ Len(t) \in Nat
  BY DEF Shifted
<1>2. ASSUME NEW j \in 1 .. Len(t), Unbroken(t, 1, j)
      PROVE  /\ t[j] = s[j + n] /\ j + n \in 1 .. Len(s) /\ Unbroken(s, 1 + n, j + n)
             /\ n = 0 => Unbroken(s, 1, j) /\ j + n = j
             /\ n > 0 /\ Unbroken(s, 1, n + 1) => Unbroken(s, 1, j + n)
             /\ t[j].size \in Nat
  <2>1. 1 \in 1 .. Len(t)
    BY <1>1
  <2>2. t[j] = s[j + n] /\ j + n \in 1 .. Len(s) /\ Unbroken(s, 1 + n, j + n)
    BY <1>2, <2>1, ShiftUnbroken
  <2>3. n = 0 => Unbroken(s, 1, j) /\ j + n = j
    BY <2>2
  <2>4. ASSUME n > 0, Unbroken(s, 1, n + 1), NEW m \in 1 .. (j + n) - 1
        PROVE  ~s[m].newline
    <3>1. m \in 1 .. (n + 1) - 1 \/ m \in 1 + n .. (j + n) - 1
      OBVIOUS
    <3>2. QED
      BY <2>2, <2>4, <3>1 DEF Unbroken
  <2>5. t[j].size \in Nat
    BY ByteTypes
  <2>6. QED
    BY <2>2, <2>3, <2>4, <2>5 DEF Unbroken
<1>3. n = 0 => (Heads(s, k) => Heads(t, k)) /\ (TooLong(s) => TooLong(t))
  BY <1>2 DEF Heads, TooLong
<1>4. ASSUME n > 0, s[n].newline
      PROVE  Heads(t, 0)
  <2> SUFFICES ASSUME NEW j \in 1 .. Len(t), Unbroken(t, 1, j)
               PROVE  t[j].size >= 0 + j /\ (t[j].newline <=> t[j].size = 0 + j)
    BY DEF Heads
  <2>1. /\ t[j] = s[j + n] /\ j + n \in 1 .. Len(s) /\ Unbroken(s, n + 1, j + n)
    BY <1>2
  <2>2. n \in 1 .. Len(s) /\ n < j + n /\ (j + n) - n = j /\ 0 + j = j
    BY <1>1, <1>4
  <2>3. s[j + n].size >= (j + n) - n /\ (s[j + n].newline <=> s[j + n].size = (j + n) - n)
    BY <1>4, <2>1, <2>2 DEF Framed, Follows
  <2>4. QED
    BY <2>1, <2>2, <2>3
<1>5. ASSUME n > 0, Unbroken(s, 1, n + 1), Heads(s, k)
      PROVE  Heads(t, k + n) /\ (k + n > Limit => TooLong(t))
  <2>1. ASSUME NEW j \in 1 .. Len(t), Unbroken(t, 1, j)
        PROVE  t[j].size >= (k + n) + j /\ (t[j].newline <=> t[j].size = (k + n) + j)
    <3>1. t[j] = s[j + n] /\ j + n \in 1 .. Len(s) /\ Unbroken(s, 1, j + n)
      BY <1>2, <1>5, <2>1
    <3>2. k + (j + n) = (k + n) + j
      OBVIOUS
    <3>3. s[j + n].size >= k + (j + n) /\ (s[j + n].newline <=> s[j + n].size = k + (j + n))
      BY <1>5, <3>1 DEF Heads
    <3>4. QED
      BY <3>1, <3>2, <3>3
  <2>2. Heads(t, k + n)
    BY <2>1 DEF Heads
  <2>3. ASSUME k + n > Limit, NEW j \in 1 .. Len(t), Unbroken(t, 1, j)
        PROVE  t[j].size > Limit
    <3>1. s[n].size >= k + n /\ s[n].size = s[j + n].size /\ t[j] = s[j + n]
      <4>1. t[j] = s[j + n] /\ j + n \in 1 .. Len(s) /\ Unbroken(s, 1, j + n) /\ n \in 1 .. Len(s) /\ n < j + n
        BY <1>1, <1>2, <1>5, <2>3
      <4>2. Unbroken(s, 1, n) /\ Unbroken(s, n, j + n)
        <5>1. \A m \in 1 .. (j + n) - 1 : ~s[m].newline
          BY <4>1 DEF Unbroken
        <5>2. 1 .. n - 1 \subseteq 1 .. (j + n) - 1 /\ n .. (j + n) - 1 \subseteq 1 .. (j + n) - 1
          BY <4>1
        <5>3. QED
          BY <5>1, <5>2 DEF Unbroken
      <4>3. s[n].size >= k + n
        BY <1>5, <4>1, <4>2 DEF Heads
      <4>4. s[n].size = s[j + n].size
        BY <4>1, <4>2 DEF Framed, SameLine
      <4>5. QED
        BY <4>1, <4>3, <4>4
    <3>2. s[n].size \in Nat 
      BY <1>5, <1>1, ByteTypes
    <3>3. QED
      BY <2>3, <3>1, <3>2
  <2>4. QED
    BY <2>2, <2>3 DEF TooLong
<1>6. ASSUME n > 0, Unbroken(s, 1, n + 1), TooLong(s)
      PROVE  TooLong(t)
  BY <1>2, <1>6 DEF TooLong
<1>7. QED
  BY <1>3, <1>4, <1>5, <1>6

\* A line is as long as its bytes say, and ends once.
LEMMA LineFramed ==
    ASSUME NEW P, NEW p \in P, NEW n \in Nat \ {0}
    PROVE  /\ Rpc!Line(p, n) \in Seq(Bytes(P)) /\ Len(Rpc!Line(p, n)) = n
           /\ \A i \in 1 .. n : Rpc!Line(p, n)[i] = [payload |-> p, size |-> n, newline |-> i = n]
<1> DEFINE byte(i) == [payload |-> p, size |-> n, newline |-> i = n]
<1>1. \A i \in 1 .. n : byte(i) \in Bytes(P)
  <2>1. \A i \in 1 .. n : (i = n) \in BOOLEAN
    OBVIOUS
  <2>2. QED
    BY <2>1 DEF Bytes
<1>2. Rpc!Line(p, n) = [i \in 1 .. n |-> byte(i)]
  BY DEF Rpc!Line
<1> HIDE DEF byte
<1>3. Rpc!Line(p, n) \in Seq(Bytes(P)) /\ Len(Rpc!Line(p, n)) = n
  BY <1>1, <1>2
<1>4. \A i \in 1 .. n : Rpc!Line(p, n)[i] = byte(i)
  BY <1>2
<1>5. QED
  BY <1>3, <1>4 DEF byte

\* A whole line after whole lines.
LEMMA ExtendFramed ==
    ASSUME NEW P, NEW s \in Seq(Bytes(P)), NEW t \in Seq(Bytes(P)), NEW p \in P, NEW n \in Nat \ {0},
           Extended(t, s, Rpc!Line(p, n)), Framed(s)
    PROVE  /\ Framed(t) /\ t # <<>>
           /\ \A k \in Nat : Heads(s, k) /\ (s = <<>> => k = 0) => Heads(t, k)
           /\ TooLong(s) /\ s # <<>> => TooLong(t)
<1> DEFINE l == Len(s)
<1>0. /\ Rpc!Line(p, n) \in Seq(Bytes(P)) /\ Len(Rpc!Line(p, n)) = n
      /\ \A i \in 1 .. n : Rpc!Line(p, n)[i] = [payload |-> p, size |-> n, newline |-> i = n]
  BY LineFramed
<1>1. /\ l \in Nat /\ Len(t) = l + n /\ Len(t) \in Nat
      /\ \A i \in 1 .. l : t[i] = s[i]
      /\ \A i \in 1 .. n : t[l + i].size = n /\ t[l + i].newline = (i = n)
  <2>1. l \in Nat /\ Len(t) = l + n /\ \A i \in 1 .. l : t[i] = s[i]
    BY <1>0 DEF Extended
  <2>2. ASSUME NEW i \in 1 .. n
        PROVE  t[l + i].size = n /\ t[l + i].newline = (i = n)
    <3>1. t[l + i] = Rpc!Line(p, n)[i]
      BY <1>0 DEF Extended
    <3>2. Rpc!Line(p, n)[i] = [payload |-> p, size |-> n, newline |-> i = n]
      BY <1>0
    <3>3. QED
      BY <3>1, <3>2
  <2>3. QED
    BY <2>1, <2>2
<1>2. l > 0 => s[l].newline /\ l \in 1 .. l /\ s # <<>> /\ t[l].newline
  <2>1. l > 0 => s # <<>> /\ l \in 1 .. l
    BY <1>1
  <2>2. QED
    BY <1>1, <2>1 DEF Framed, Whole
<1>3. l = 0 => s = <<>>
  BY EmptySeq
<1> HIDE DEF l
<1>4. \A j \in 1 .. Len(t) : j \in 1 .. l \/ (j \notin 1 .. l /\ j - l \in 1 .. n /\ l + (j - l) = j)
  BY <1>1
<1>5. \A j \in 1 .. Len(t) : j \notin 1 .. l => j > l /\ t[j].size = n /\ (t[j].newline <=> j - l = n)
  <2> SUFFICES ASSUME NEW j \in 1 .. Len(t), j \notin 1 .. l
               PROVE  j > l /\ t[j].size = n /\ (t[j].newline <=> j - l = n)
    OBVIOUS
  <2>1. j > l /\ j - l \in 1 .. n /\ l + (j - l) = j
    BY <1>1, <1>4
  <2>2. t[l + (j - l)].size = n /\ t[l + (j - l)].newline = (j - l = n)
    BY <1>1, <2>1
  <2>3. QED
    BY <2>1, <2>2
<1>6. ASSUME NEW i \in 1 .. l, NEW j \in 1 .. Len(t), Unbroken(t, i, j)
      PROVE  j \in 1 .. l
  <2> SUFFICES ASSUME j \notin 1 .. l PROVE FALSE
    OBVIOUS
  <2>1. l \in i .. j - 1 /\ l > 0
    BY <1>1, <1>5
  <2>2. QED
    BY <1>2, <1>6, <2>1 DEF Unbroken
<1>7. ASSUME NEW i \in 1 .. l, NEW j \in 1 .. l + 1
      PROVE  Unbroken(t, i, j) <=> Unbroken(s, i, j)
  <2>1. \A m \in i .. j - 1 : m \in 1 .. l
    BY <1>1
  <2>2. QED
    BY <1>1, <2>1 DEF Unbroken
<1>8. Follows(t)
  <2> SUFFICES ASSUME NEW i \in 1 .. Len(t), NEW j \in 1 .. Len(t), i < j, t[i].newline, Unbroken(t, i + 1, j)
               PROVE  t[j].size >= j - i /\ (t[j].newline <=> t[j].size = j - i)
    BY DEF Follows
  <2>1. CASE j \in 1 .. l
    <3>1. i \in 1 .. l /\ i + 1 \in 1 .. l
      BY <1>1, <2>1
    <3>2. t[i] = s[i] /\ t[j] = s[j] /\ Unbroken(s, i + 1, j)
      BY <1>1, <1>7, <2>1, <3>1
    <3>3. QED
      BY <2>1, <3>1, <3>2 DEF Follows, Framed, l
  <2>2. CASE j \notin 1 .. l
    <3>1. i = l
      <4>1. CASE i \in 1 .. l
        <5>1. i + 1 \in 1 .. l => FALSE
          BY <1>6, <2>2
        <5>2. QED
          BY <1>1, <4>1, <5>1
      <4>2. CASE i \notin 1 .. l
        BY <1>1, <1>4, <1>5, <4>2
      <4>3. QED
        BY <4>1, <4>2
    <3>2. QED
      BY <1>1, <1>4, <1>5, <2>2, <3>1
  <2>3. QED
    BY <2>1, <2>2
<1>9. SameLine(t)
  <2> SUFFICES ASSUME NEW i \in 1 .. Len(t), NEW j \in 1 .. Len(t), i < j, Unbroken(t, i, j)
               PROVE  t[i].size = t[j].size
    BY DEF SameLine
  <2>1. CASE i \in 1 .. l
    <3>1. j \in 1 .. l
      BY <1>6, <2>1
    <3>2. t[i] = s[i] /\ t[j] = s[j] /\ Unbroken(s, i, j) /\ j \in 1 .. l + 1
      BY <1>1, <1>7, <2>1, <3>1
    <3>3. QED
      BY <2>1, <3>1, <3>2 DEF SameLine, Framed, l
  <2>2. CASE i \notin 1 .. l
    <3>1. j \notin 1 .. l
      BY <1>1, <1>5, <2>2
    <3>2. QED
      BY <1>5, <2>2, <3>1
  <2>3. QED
    BY <2>1, <2>2
<1>10. Whole(t) /\ t # <<>>
  <2>1. Len(t) \in 1 .. Len(t) /\ Len(t) \notin 1 .. l /\ Len(t) - l = n
    BY <1>1
  <2>2. t[Len(t)].newline
    BY <1>5, <2>1
  <2>3. t # <<>>
    BY <2>1
  <2>4. QED
    BY <2>2, <2>3 DEF Whole
<1>11. ASSUME NEW k \in Nat, Heads(s, k), s = <<>> => k = 0
       PROVE  Heads(t, k)
  <2> SUFFICES ASSUME NEW j \in 1 .. Len(t), Unbroken(t, 1, j)
               PROVE  t[j].size >= k + j /\ (t[j].newline <=> t[j].size = k + j)
    BY DEF Heads
  <2>1. CASE l > 0
    <3>1. 1 \in 1 .. l /\ j \in 1 .. l /\ j \in 1 .. l + 1
      BY <1>1, <1>6, <2>1
    <3>2. t[j] = s[j] /\ Unbroken(s, 1, j)
      BY <1>1, <1>7, <3>1
    <3>3. QED
      BY <1>11, <3>1, <3>2 DEF Heads, l
  <2>2. CASE l = 0
    <3>1. k = 0 /\ j \notin 1 .. l
      BY <1>3, <1>11, <2>2
    <3>2. QED
      BY <1>1, <1>4, <1>5, <2>2, <3>1
  <2>3. QED
    BY <1>1, <2>1, <2>2
<1>12. ASSUME TooLong(s), s # <<>>
       PROVE  TooLong(t)
  <2> SUFFICES ASSUME NEW j \in 1 .. Len(t), Unbroken(t, 1, j)
               PROVE  t[j].size > Limit
    BY DEF TooLong
  <2>1. 1 \in 1 .. l
    BY <1>1, <1>3, <1>12
  <2>2. j \in 1 .. l /\ j \in 1 .. l + 1
    BY <1>1, <1>6, <2>1
  <2>3. t[j] = s[j] /\ Unbroken(s, 1, j)
    BY <1>1, <1>7, <2>1, <2>2
  <2>4. QED
    BY <1>12, <2>2, <2>3 DEF TooLong, l
<1>13. QED
  BY <1>8, <1>9, <1>10, <1>11, <1>12 DEF Framed

\* NewlineAt finds the first newline.
LEMMA NewlineIs ==
    ASSUME NEW P, NEW s \in Seq(Bytes(P)), Rpc!HasLine(s)
    PROVE  /\ Rpc!NewlineAt(s) \in 1 .. Len(s) /\ s[Rpc!NewlineAt(s)].newline
           /\ Unbroken(s, 1, Rpc!NewlineAt(s))
<1> DEFINE N == {i \in DOMAIN s : s[i].newline}
<1>1. DOMAIN s = 1 .. Len(s) /\ Len(s) \in Nat
  OBVIOUS
<1>2. N # {} /\ N \in SUBSET Int /\ IsFiniteSet(N)
  <2>1. IsFiniteSet(1 .. Len(s)) /\ N \subseteq 1 .. Len(s)
    BY <1>1, FS_Interval
  <2>2. IsFiniteSet(N)
    BY <2>1, FS_Subset
  <2>3. N # {}
    BY DEF Rpc!HasLine
  <2>4. QED
    BY <1>1, <2>1, <2>2, <2>3
<1>3. PICK i \in N : \A m \in N : i <= m
  BY <1>2, SmallestExists
<1>4. i \in DOMAIN s /\ s[i].newline /\ \A j \in 1 .. i - 1 : ~s[j].newline
  <2>1. ASSUME NEW j \in 1 .. i - 1 PROVE ~s[j].newline
    <3>1. j \in DOMAIN s /\ j < i /\ i \in Int
      BY <1>1, <1>3
    <3>2. QED
      BY <1>3, <3>1
  <2>2. QED
    BY <1>3, <2>1
<1>5. QED
  BY <1>1, <1>4 DEF Rpc!NewlineAt, Unbroken

-----------------------------------------------------------------------------
\* The bytes on their way up and down are those of the two buffers in order.
LEMMA PipesExtend ==
    ASSUME RpcInv
    PROVE  /\ Ups \in Seq(Bytes(Requests)) /\ Extended(Ups, toServer, unsent)
           /\ Downs \in Seq(Bytes(Responses)) /\ Extended(Downs, responseBuf, toDriver)
           /\ Len(toServer) \in Nat /\ Len(unsent) \in Nat
           /\ Len(responseBuf) \in Nat /\ Len(toDriver) \in Nat
           /\ (Ups = <<>> <=> toServer = <<>> /\ unsent = <<>>)
<1>1. /\ toServer \in Seq(Bytes(Requests)) /\ unsent \in Seq(Bytes(Requests))
      /\ toDriver \in Seq(Bytes(Responses)) /\ responseBuf \in Seq(Bytes(Responses))
  BY DEF RpcInv, RpcTypes
<1>2. /\ Ups \in Seq(Bytes(Requests)) /\ Extended(Ups, toServer, unsent)
      /\ Len(toServer) \in Nat /\ Len(unsent) \in Nat
  BY <1>1, ConcatExtends DEF Ups
<1>3. /\ Downs \in Seq(Bytes(Responses)) /\ Extended(Downs, responseBuf, toDriver)
      /\ Len(responseBuf) \in Nat /\ Len(toDriver) \in Nat
  BY <1>1, ConcatExtends DEF Downs
<1>4. Ups = <<>> <=> toServer = <<>> /\ unsent = <<>>
  BY <1>1, <1>2, EmptySeq DEF Extended
<1>5. QED
  BY <1>2, <1>3, <1>4

\* Moving bytes from the driver to the pipe changes nothing for the server.
LEMMA UpKept ==
    ASSUME RpcInv, Limit \in Nat, UNCHANGED <<pairing, discarding, lineBuf>>,
           NEW u \in Seq(Bytes(Requests)), u = Ups', Shifted(u, Ups, 0)
    PROVE  UpInv'
<1> SUFFICES ASSUME pairing # "driver-foreign"
             PROVE  /\ Framed(u)
                    /\ IF discarding THEN TooLong(u) ELSE Heads(u, Len(lineBuf))
                    /\ u = <<>> => ~discarding /\ lineBuf = <<>>
                    /\ discarding => lineBuf = <<>>
  BY DEF UpInv
<1>1. /\ Ups \in Seq(Bytes(Requests)) /\ 0 \in 0 .. Len(Ups) /\ Len(lineBuf) \in Nat
  <2>1. Len(lineBuf) \in Nat
    BY DEF RpcInv, RpcTypes
  <2>2. QED
    BY <2>1, PipesExtend
<1>2. Framed(u)
  BY <1>1, ShiftFramed DEF RpcInv, UpInv
<1>3. \A k \in Nat : (Heads(Ups, k) => Heads(u, k)) /\ (TooLong(Ups) => TooLong(u))
  BY <1>1, ShiftHeads DEF RpcInv, UpInv
<1>4. u = <<>> => Ups = <<>>
  <2>1. Len(u) = Len(Ups) - 0 /\ Len(Ups) \in Nat
    BY <1>1 DEF Shifted
  <2>2. QED
    BY <1>1, <2>1, EmptySeq
<1>5. QED
  BY <1>1, <1>2, <1>3, <1>4 DEF RpcInv, UpInv

\* Nothing taken, nothing moved.
LEMMA SameShifted ==
    ASSUME NEW S, NEW s \in Seq(S)
    PROVE  Shifted(s, s, 0)
BY DEF Shifted

\* A request line, or a line of another client.
LEMMA UpGrows ==
    ASSUME RpcInv, Limit \in Nat, UNCHANGED <<pairing, discarding, lineBuf>>,
           NEW p \in Requests, NEW n \in Nat \ {0},
           NEW u \in Seq(Bytes(Requests)), u = Ups', Extended(u, Ups, Rpc!Line(p, n))
    PROVE  UpInv'
<1> SUFFICES ASSUME pairing # "driver-foreign"
             PROVE  /\ Framed(u)
                    /\ IF discarding THEN TooLong(u) ELSE Heads(u, Len(lineBuf))
                    /\ u = <<>> => ~discarding /\ lineBuf = <<>>
                    /\ discarding => lineBuf = <<>>
  BY DEF UpInv
<1>1. Ups \in Seq(Bytes(Requests)) /\ Len(lineBuf) \in Nat
  <2>1. Len(lineBuf) \in Nat
    BY DEF RpcInv, RpcTypes
  <2>2. QED
    BY <2>1, PipesExtend
<1>2. /\ Framed(u) /\ u # <<>>
      /\ \A k \in Nat : Heads(Ups, k) /\ (Ups = <<>> => k = 0) => Heads(u, k)
      /\ TooLong(Ups) /\ Ups # <<>> => TooLong(u)
  BY <1>1, ExtendFramed DEF RpcInv, UpInv
<1>3. Ups = <<>> => Len(lineBuf) = 0
  BY EmptySeq DEF RpcInv, UpInv
<1>4. QED
  BY <1>1, <1>2, <1>3 DEF RpcInv, UpInv

\* Moving bytes from the pipe to the driver changes nothing for the driver.
LEMMA DownKept ==
    ASSUME RpcInv, Limit \in Nat,
           NEW u \in Seq(Bytes(Responses)), u = Downs', Shifted(u, Downs, 0)
    PROVE  DownInv'
<1>1. Downs \in Seq(Bytes(Responses)) /\ 0 \in 0 .. Len(Downs) /\ 0 \in Nat
  BY PipesExtend
<1>2. Framed(u)
  BY <1>1, ShiftFramed DEF RpcInv, DownInv
<1>3. Heads(u, 0)
  BY <1>1, ShiftHeads DEF RpcInv, DownInv
<1>4. QED
  BY <1>2, <1>3 DEF DownInv

\* Three buffers in order, whichever two are joined first.
LEMMA ConcatAgain ==
    ASSUME NEW S, NEW a \in Seq(S), NEW b \in Seq(S), NEW l \in Seq(S)
    PROVE  /\ a \o (b \o l) \in Seq(S) /\ Extended(a \o (b \o l), a \o b, l)
           /\ (a \o b) \o l = a \o (b \o l) /\ a \o b \in Seq(S)
<1>1. (a \o b) \o l = a \o (b \o l)
  BY ConcatAssociative
<1>2. a \o b \in Seq(S)
  OBVIOUS
<1>3. QED
  BY <1>1, <1>2, ConcatExtends

\* The server, whichever it is, sends a line.
LEMMA ReplyGrows ==
    ASSUME RpcInv, Limit \in Nat, NEW p \in Responses, NEW n \in Nat \ {0},
           toDriver' = toDriver \o Rpc!Line(p, n), responseBuf' = responseBuf
    PROVE  DownInv' /\ toDriver' \in Seq(Bytes(Responses))
<1>1. toDriver \in Seq(Bytes(Responses)) /\ responseBuf \in Seq(Bytes(Responses))
  BY DEF RpcInv, RpcTypes
<1>2. Rpc!Line(p, n) \in Seq(Bytes(Responses))
  BY LineFramed
<1> DEFINE u == responseBuf \o (toDriver \o Rpc!Line(p, n))
<1>3. u \in Seq(Bytes(Responses)) /\ Extended(u, Downs, Rpc!Line(p, n)) /\ Downs \in Seq(Bytes(Responses))
  BY <1>1, <1>2, ConcatAgain, PipesExtend DEF Downs
<1>4. u = Downs'
  BY DEF Downs
<1> HIDE DEF u
<1>5. Framed(u) /\ (Heads(Downs, 0) => Heads(u, 0))
  <2>1. Framed(Downs) /\ 0 \in Nat
    BY DEF RpcInv, DownInv
  <2>2. QED
    BY <1>3, <2>1, ExtendFramed
<1>6. DownInv'
  BY <1>4, <1>5 DEF RpcInv, DownInv
<1>7. QED
  BY <1>1, <1>2, <1>6, ConcatProperties

\* The driver takes a line out of its buffer.
LEMMA RestOfDowns ==
    ASSUME RpcInv, Limit \in Nat, NEW n \in 1 .. Len(responseBuf), responseBuf[n].newline,
           responseBuf' = SubSeq(responseBuf, n + 1, Len(responseBuf)), toDriver' = toDriver
    PROVE  DownInv' /\ responseBuf' \in Seq(Bytes(Responses))
<1>1. toDriver \in Seq(Bytes(Responses)) /\ responseBuf \in Seq(Bytes(Responses))
  BY DEF RpcInv, RpcTypes
<1>2. Len(responseBuf) \in Nat /\ Len(toDriver) \in Nat /\ n \in 0 .. Len(responseBuf)
  BY PipesExtend
<1> DEFINE r == SubSeq(responseBuf, n + 1, Len(responseBuf))
           u == r \o toDriver
<1>3. r \in Seq(Bytes(Responses)) /\ Shifted(r, responseBuf, n)
  BY <1>1, <1>2, RestShifts
<1>4. u = Downs' /\ r = responseBuf'
  BY DEF Downs
<1> HIDE DEF r
<1>5. u \in Seq(Bytes(Responses)) /\ Extended(u, r, toDriver)
  BY <1>1, <1>3, ConcatExtends
<1> HIDE DEF u
<1>6. n \in 0 .. Len(Downs) /\ n > 0 /\ Downs[n].newline /\ Shifted(u, Downs, n) /\ Downs \in Seq(Bytes(Responses))
  <2>1. Extended(Downs, responseBuf, toDriver) /\ Downs \in Seq(Bytes(Responses))
    BY PipesExtend
  <2>2. n \in 0 .. Len(Downs) /\ n > 0 /\ Downs[n].newline
    BY <1>2, <2>1 DEF Extended
  <2>3. Len(u) = Len(Downs) - n
    BY <1>2, <1>3, <1>5, <2>1 DEF Extended, Shifted
  <2>4. ASSUME NEW i \in 1 .. Len(u) PROVE u[i] = Downs[i + n]
    <3>1. Len(r) = Len(responseBuf) - n /\ Len(r) \in Nat /\ Len(u) = Len(r) + Len(toDriver)
      BY <1>2, <1>3, <1>5 DEF Extended, Shifted
    <3>2. CASE i \in 1 .. Len(r)
      <4>1. u[i] = r[i] /\ r[i] = responseBuf[i + n] /\ i + n \in 1 .. Len(responseBuf)
        BY <1>2, <1>3, <1>5, <3>1, <3>2 DEF Extended, Shifted
      <4>2. QED
        BY <2>1, <4>1 DEF Extended
    <3>3. CASE i \notin 1 .. Len(r)
      <4>1. i - Len(r) \in 1 .. Len(toDriver) /\ Len(r) + (i - Len(r)) = i
            /\ Len(responseBuf) + (i - Len(r)) = i + n
        BY <1>2, <3>1, <3>3
      <4>2. u[Len(r) + (i - Len(r))] = toDriver[i - Len(r)]
        BY <1>5, <4>1 DEF Extended
      <4>3. Downs[Len(responseBuf) + (i - Len(r))] = toDriver[i - Len(r)]
        BY <2>1, <4>1 DEF Extended
      <4>4. QED
        BY <4>1, <4>2, <4>3
    <3>4. QED
      BY <3>2, <3>3
  <2>5. QED
    BY <2>1, <2>2, <2>3, <2>4 DEF Shifted
<1>7. Framed(u) /\ Heads(u, 0)
  <2>1. Framed(Downs) /\ 0 \in Nat
    BY DEF RpcInv, DownInv
  <2>2. QED
    BY <1>5, <1>6, <2>1, ShiftFramed, ShiftHeads
<1>8. QED
  BY <1>3, <1>4, <1>7 DEF DownInv

\* A buffer is its first n bytes and the rest.
LEMMA CutAndJoin ==
    ASSUME NEW S, NEW s \in Seq(S), NEW n \in 1 .. Len(s)
    PROVE  /\ SubSeq(s, 1, n) \in Seq(S) /\ SubSeq(s, n + 1, Len(s)) \in Seq(S)
           /\ SubSeq(s, 1, n) \o SubSeq(s, n + 1, Len(s)) = s
           /\ Len(SubSeq(s, 1, n)) = n
           /\ \A i \in 1 .. n : SubSeq(s, 1, n)[i] = s[i]
<1>1. Len(s) \in Nat /\ n \in Nat /\ 1 \in Int /\ \A i \in 1 .. n : s[i] \in S
  OBVIOUS
<1>2. /\ SubSeq(s, 1, n) \in Seq(S)
      /\ Len(SubSeq(s, 1, n)) = IF 1 <= n THEN n - 1 + 1 ELSE 0
      /\ \A i \in 1 .. n - 1 + 1 : SubSeq(s, 1, n)[i] = s[1 + i - 1]
  BY <1>1, SubSeqProperties
<1>3. SubSeq(s, n + 1, Len(s)) \in Seq(S)
  BY <1>1, RestShifts
<1>4. SubSeq(s, 1, n) \o SubSeq(s, n + 1, Len(s)) = SubSeq(s, 1, Len(s))
  <2>1. 1 \in 1 .. Len(s) + 1 /\ n \in 1 - 1 .. Len(s) /\ Len(s) \in n .. Len(s)
    BY <1>1
  <2>2. QED
    BY <2>1, ConcatAdjacentSubSeq
<1>5. SubSeq(s, 1, Len(s)) = s
  BY SubSeqFull
<1>6. 1 <= n /\ n - 1 + 1 = n /\ \A i \in 1 .. n : 1 + i - 1 = i
  BY <1>1
<1>7. Len(SubSeq(s, 1, n)) = n
  BY <1>2, <1>6
<1>8. \A i \in 1 .. n : SubSeq(s, 1, n)[i] = s[i]
  BY <1>2, <1>6
<1>9. QED
  BY <1>2, <1>3, <1>4, <1>5, <1>7, <1>8

\* Steps that leave the pipes and the history alone.
LEMMA QuietHolds ==
    ASSUME RpcInv, Limit \in Nat,
           UNCHANGED <<pairing, toServer, unsent, toDriver, responseBuf, lineBuf, discarding,
                       served, lines, accepted>>,
           refused' = refused \/ (refused' > Limit),
           callId' \in Nat \ {0},
           (call = Rpc!NoCall /\ ~unavailable /\ stage # "dropped")' =>
               (call = Rpc!NoCall /\ ~unavailable /\ stage # "dropped")
    PROVE  RpcInv'
<1>1. RpcTypes'
  BY DEF RpcInv, RpcTypes
<1>2. UnsentInv'
  BY DEF RpcInv, UnsentInv
<1>3. Ups' = Ups /\ Downs' = Downs
  BY DEF Ups, Downs
<1>4. UpInv' /\ DownInv'
  BY <1>3 DEF RpcInv, UpInv, DownInv
<1>5. Rpc!RpcExact'
  BY DEF RpcInv, Rpc!RpcExact
<1>6. QED
  BY <1>1, <1>2, <1>4, <1>5 DEF RpcInv

\* The history that no step but the server's and the driver's reading touches.
LEMMA ExactKept ==
    ASSUME RpcInv, UNCHANGED <<served, lines, accepted>>, refused' = refused \/ (refused' > Limit)
    PROVE  Rpc!RpcExact'
BY DEF RpcInv, Rpc!RpcExact

\* A request is framed only when the one before it was written in full.
LEMMA BeginHolds ==
    ASSUME RpcInv, Limit \in Nat, FrameSizes \subseteq Nat \ {0},
           NEW method \in Rpc!Methods \cup {"initialize"}, NEW value \in Nat, NEW size \in FrameSizes,
           Rpc!BeginCall(method, value, size)
    PROVE  RpcInv'
<1>1. /\ call = Rpc!NoCall /\ ~unavailable /\ stage # "dropped" /\ pairing # "client-native"
      /\ callId' = callId + 1
      /\ UNCHANGED <<pairing, toServer, toDriver, responseBuf, lineBuf, discarding, unavailable,
                     served, lines, accepted, refused>>
  BY DEF Rpc!BeginCall, Rpc!Driving, Rpc!pipes, Rpc!server, Rpc!history
<1>2. callId' \in Nat \ {0} /\ callId \in Nat
  BY <1>1 DEF RpcInv, RpcTypes
<1>3. CASE UNCHANGED <<call, unsent>>
  BY <1>1, <1>2, <1>3, QuietHolds
<1>4. CASE /\ call' = [id |-> callId, method |-> method, value |-> value]
           /\ unsent' = Rpc!Line([id |-> callId, method |-> method, value |-> value], size)
           /\ UNCHANGED stage
  <2> DEFINE p == [id |-> callId, method |-> method, value |-> value]
  <2>1. p \in Requests
    BY <1>2 DEF Requests, Rpc!ProtocolMethods
  <2>2. unsent' = Rpc!Line(p, size)
    BY <1>4
  <2> HIDE DEF p
  <2>3. unsent = <<>> /\ size \in Nat \ {0}
    BY <1>1 DEF RpcInv, UnsentInv
  <2>4. Rpc!Line(p, size) \in Seq(Bytes(Requests)) /\ toServer \in Seq(Bytes(Requests))
    BY <2>1, <2>3, LineFramed DEF RpcInv, RpcTypes
  <2> DEFINE u == toServer \o Rpc!Line(p, size)
  <2>5. u \in Seq(Bytes(Requests)) /\ Extended(u, toServer, Rpc!Line(p, size))
    BY <2>4, ConcatExtends
  <2>6. Ups = toServer
    BY <2>3, <2>4, ConcatEmptySeq DEF Ups
  <2>7. u = Ups'
    BY <1>1, <2>2 DEF Ups
  <2> HIDE DEF u
  <2>8. UpInv'
    BY <1>1, <2>1, <2>3, <2>5, <2>6, <2>7, UpGrows
  <2>9. DownInv'
    BY <1>1 DEF RpcInv, DownInv, Downs
  <2>10. RpcTypes'
    BY <1>1, <1>2, <2>2, <2>4 DEF RpcInv, RpcTypes
  <2>11. UnsentInv'
    <3>1. call' # Rpc!NoCall
      <4>1. call'.id = callId /\ Rpc!NoCall.id = 0 /\ callId # 0
        BY <1>4 DEF Rpc!NoCall, RpcInv, RpcTypes
      <4>2. QED
        BY <4>1
    <3>2. QED
      BY <1>1, <3>1 DEF UnsentInv
  <2>12. Rpc!RpcExact'
    BY <1>1, ExactKept
  <2>13. QED
    BY <2>8, <2>9, <2>10, <2>11, <2>12 DEF RpcInv
<1>5. QED
  BY <1>3, <1>4 DEF Rpc!BeginCall

\* Bytes moved from the head of one buffer to the end of the one before it.
LEMMA JoinParts ==
    ASSUME NEW S, NEW t \in Seq(S), NEW a \in Seq(S), NEW b \in Seq(S), NEW s, s = a \o b
    PROVE  (t \o a) \o b = t \o s /\ t \o a \in Seq(S)
BY ConcatAgain

\* ... are still the same bytes in the same order.
LEMMA JoinAgain ==
    ASSUME NEW S, NEW s \in Seq(S), NEW n \in 1 .. Len(s), NEW t \in Seq(S)
    PROVE  /\ (t \o SubSeq(s, 1, n)) \o SubSeq(s, n + 1, Len(s)) = t \o s
           /\ t \o SubSeq(s, 1, n) \in Seq(S)
<1>1. ASSUME NEW a \in Seq(S), NEW b \in Seq(S), s = a \o b
      PROVE  (t \o a) \o b = t \o s /\ t \o a \in Seq(S)
  BY <1>1, JoinParts, SMTT(30)
<1>2. /\ SubSeq(s, 1, n) \in Seq(S) /\ SubSeq(s, n + 1, Len(s)) \in Seq(S)
      /\ s = SubSeq(s, 1, n) \o SubSeq(s, n + 1, Len(s))
  BY CutAndJoin
<1>3. QED
  BY <1>1, <1>2

\* write_request may stop in the middle of a request.
LEMMA WriteHolds ==
    ASSUME RpcInv, Limit \in Nat, NEW n \in Nat, Rpc!WriteRequest(n)
    PROVE  RpcInv'
<1>1. /\ call # Rpc!NoCall /\ pairing # "client-native" /\ n \in 1 .. Len(unsent)
      /\ toServer' = toServer \o SubSeq(unsent, 1, n)
      /\ unsent' = SubSeq(unsent, n + 1, Len(unsent))
      /\ UNCHANGED <<pairing, toDriver, responseBuf, lineBuf, discarding, stage, call, unavailable,
                     callId, served, lines, accepted, refused>>
  BY DEF Rpc!WriteRequest, Rpc!Calling, Rpc!Driving, Rpc!server, Rpc!history, Rpc!processes
<1>2. toServer \in Seq(Bytes(Requests)) /\ unsent \in Seq(Bytes(Requests))
  BY DEF RpcInv, RpcTypes
<1>3. SubSeq(unsent, n + 1, Len(unsent)) \in Seq(Bytes(Requests))
  BY <1>1, <1>2, CutAndJoin
<1>4. /\ (toServer \o SubSeq(unsent, 1, n)) \o SubSeq(unsent, n + 1, Len(unsent)) = toServer \o unsent
      /\ toServer \o SubSeq(unsent, 1, n) \in Seq(Bytes(Requests))
  BY <1>1, <1>2, JoinAgain
<1>5. toServer' \in Seq(Bytes(Requests)) /\ unsent' \in Seq(Bytes(Requests))
  BY <1>1, <1>3, <1>4
<1>6. Ups' = Ups
  BY <1>1, <1>4 DEF Ups
<1>7. UpInv' /\ DownInv'
  BY <1>1, <1>6 DEF RpcInv, UpInv, DownInv, Downs
<1>8. RpcTypes' /\ UnsentInv'
  BY <1>1, <1>5 DEF RpcInv, RpcTypes, UnsentInv
<1>9. Rpc!RpcExact'
  BY <1>1, ExactKept
<1>10. QED
  BY <1>7, <1>8, <1>9 DEF RpcInv

\* A failure takes nothing from the pipes.
LEMMA FailHolds ==
    ASSUME RpcInv, Limit \in Nat, NEW failure, Rpc!Fail(failure),
           failure.kind = "too-large" => failure.size > Limit,
           UNCHANGED <<toServer, toDriver, responseBuf>>
    PROVE  RpcInv'
<1>1. /\ unavailable' = TRUE
      /\ refused' = IF failure.kind = "too-large" THEN failure.size ELSE refused
      /\ UNCHANGED <<pairing, callId, unsent, lineBuf, discarding, served, lines, accepted>>
  BY DEF Rpc!Fail, Rpc!server
<1>2. callId' \in Nat \ {0}
  BY <1>1 DEF RpcInv, RpcTypes
<1>3. QED
  BY <1>1, <1>2, QuietHolds

\* The first line of the driver's buffer.
LEMMA FirstLine ==
    ASSUME RpcInv, Limit \in Nat, NEW j \in 1 .. Len(Downs), Unbroken(Downs, 1, j)
    PROVE  /\ Downs[j].size \in Nat /\ Downs[j].size >= j /\ (Downs[j].newline <=> Downs[j].size = j)
<1>1. Downs \in Seq(Bytes(Responses)) /\ Heads(Downs, 0)
  BY PipesExtend DEF RpcInv, DownInv
<1>2. Downs[j].size >= 0 + j /\ (Downs[j].newline <=> Downs[j].size = 0 + j)
  BY <1>1 DEF Heads
<1>3. Downs[j].size \in Nat /\ j \in Nat
  BY <1>1, ByteTypes
<1>4. QED
  BY <1>2, <1>3

\* read_response, a line in the buffer: too long, for another call, or the answer.
LEMMA TakeFrameHolds ==
    ASSUME RpcInv, Limit \in Nat \ {0}, Rpc!TakeFrame
    PROVE  RpcInv'
<1> DEFINE n == Rpc!NewlineAt(responseBuf)
           frame == responseBuf[n].payload
           rest == SubSeq(responseBuf, n + 1, Len(responseBuf))
<1>1. /\ unsent = <<>> /\ Rpc!HasLine(responseBuf)
      /\ responseBuf \in Seq(Bytes(Responses))
  BY DEF Rpc!TakeFrame, RpcInv, RpcTypes
<1>2. n \in 1 .. Len(responseBuf) /\ responseBuf[n].newline /\ Unbroken(responseBuf, 1, n)
  BY <1>1, NewlineIs
<1>3. frame \in Responses
  BY <1>1, <1>2, ByteTypes
<1>4. \/ /\ ~Rpc!FitsFrame(n)
         /\ Rpc!FailTransport(Rpc!TooLarge(SubSeq(responseBuf, 1, n)))
      \/ /\ Rpc!FitsFrame(n) /\ ~Rpc!Answers(frame)
         /\ Rpc!Fail(Rpc!Broken) /\ responseBuf' = rest /\ UNCHANGED Rpc!pipes
      \/ /\ Rpc!FitsFrame(n) /\ Rpc!Answers(frame)
         /\ Rpc!Return(frame, rest)
         /\ accepted' = [call |-> call.id, of |-> frame.of, size |-> n]
         /\ UNCHANGED <<pairing, Rpc!pipes, callId, unsent, Rpc!server, refused, served, lines>>
  BY DEF Rpc!TakeFrame
<1> HIDE DEF n
<1>5. CASE ~Rpc!FitsFrame(n) /\ Rpc!FailTransport(Rpc!TooLarge(SubSeq(responseBuf, 1, n)))
  <2>1. Downs[n] = responseBuf[n] /\ n \in 1 .. Len(Downs) /\ Unbroken(Downs, 1, n)
    <3>1. Extended(Downs, responseBuf, toDriver) /\ Len(responseBuf) \in Nat /\ Len(toDriver) \in Nat
      BY PipesExtend
    <3>2. n \in 1 .. Len(Downs)
      BY <1>2, <3>1 DEF Extended
    <3>3. \A i \in 1 .. n : i \in 1 .. Len(responseBuf) /\ Downs[i] = responseBuf[i]
      BY <1>2, <3>1 DEF Extended
    <3>4. \A m \in 1 .. n - 1 : m \in 1 .. n
      BY <1>2
    <3>5. QED
      BY <1>2, <3>2, <3>3, <3>4 DEF Unbroken
  <2>2. responseBuf[n].size = n
    BY <1>2, <2>1, FirstLine
  <2>3. SubSeq(responseBuf, 1, n)[Len(SubSeq(responseBuf, 1, n))] = responseBuf[n]
    BY <1>1, <1>2, CutAndJoin
  <2>4. Rpc!TooLarge(SubSeq(responseBuf, 1, n)).size > Limit
    BY <1>2, <1>5, <2>2, <2>3 DEF Rpc!TooLarge, Rpc!FitsFrame
  <2>5. QED
    BY <1>5, <2>4, FailHolds DEF Rpc!FailTransport, Rpc!pipes
<1>6. ASSUME responseBuf' = rest,
             UNCHANGED <<pairing, toServer, toDriver, callId, unsent, lineBuf, discarding, served, lines>>,
             Rpc!RpcExact'
      PROVE  RpcInv'
  <2>1. DownInv' /\ responseBuf' \in Seq(Bytes(Responses))
    BY <1>2, <1>6, RestOfDowns
  <2>2. UpInv' /\ UnsentInv'
    BY <1>1, <1>6 DEF RpcInv, UpInv, Ups, UnsentInv
  <2>3. RpcTypes'
    BY <1>6, <2>1 DEF RpcInv, RpcTypes
  <2>4. QED
    BY <1>6, <2>1, <2>2, <2>3 DEF RpcInv
<1>7. CASE Rpc!Fail(Rpc!Broken) /\ responseBuf' = rest /\ UNCHANGED Rpc!pipes
  <2>1. /\ refused' = refused
        /\ UNCHANGED <<pairing, toServer, toDriver, callId, unsent, lineBuf, discarding, served, lines, accepted>>
    BY <1>7 DEF Rpc!Fail, Rpc!Broken, Rpc!pipes, Rpc!server
  <2>2. Rpc!RpcExact'
    BY <2>1, ExactKept
  <2>3. QED
    BY <1>6, <1>7, <2>1, <2>2
<1>8. CASE /\ Rpc!FitsFrame(n) /\ Rpc!Answers(frame)
           /\ Rpc!Return(frame, rest)
           /\ accepted' = [call |-> call.id, of |-> frame.of, size |-> n]
           /\ UNCHANGED <<pairing, Rpc!pipes, callId, unsent, Rpc!server, refused, served, lines>>
  <2>1. /\ UNCHANGED <<pairing, toServer, toDriver, callId, unsent, lineBuf, discarding, served, lines, refused>>
        /\ responseBuf' = rest
    BY <1>8 DEF Rpc!pipes, Rpc!server, Rpc!Return
  <2>2. accepted'.of = accepted'.call /\ accepted'.size <= Limit
    <3>1. frame.of = frame.id /\ frame.id = call.id /\ n <= Limit
      BY <1>3, <1>8 DEF Responses, Rpc!Answers, Rpc!FitsFrame
    <3>2. QED
      BY <1>8, <3>1
  <2>3. Rpc!RpcExact'
    BY <2>1, <2>2 DEF RpcInv, Rpc!RpcExact
  <2>4. QED
    BY <1>6, <2>1, <2>3
<1>9. QED
  BY <1>4, <1>5, <1>7, <1>8

\* A line whose beginning is in the pipe: its last byte here knows its length.
LEMMA ReadAhead ==
    ASSUME RpcInv, Limit \in Nat, ~Rpc!HasLine(responseBuf), NEW e \in 1 .. Len(toDriver),
           Unbroken(toDriver, 1, e)
    PROVE  toDriver[e].size \in Nat /\ toDriver[e].size >= Len(responseBuf) + e
<1> DEFINE r == Len(responseBuf)
           m == r + e
<1>1. /\ r \in Nat /\ Len(toDriver) \in Nat /\ Len(Downs) = r + Len(toDriver)
      /\ \A i \in 1 .. r : Downs[i] = responseBuf[i]
      /\ \A i \in 1 .. Len(toDriver) : Downs[r + i] = toDriver[i]
  BY PipesExtend DEF Extended
<1>2. \A i \in 1 .. r : ~responseBuf[i].newline
  <2>1. DOMAIN responseBuf = 1 .. r
    BY DEF RpcInv, RpcTypes
  <2>2. QED
    BY <2>1 DEF Rpc!HasLine
<1> HIDE DEF r
<1>3. m \in 1 .. Len(Downs) /\ Downs[m] = toDriver[e]
  BY <1>1
<1>4. ASSUME NEW i \in 1 .. m - 1
      PROVE  ~Downs[i].newline
  <2>1. CASE i \in 1 .. r
    BY <1>1, <1>2, <2>1
  <2>2. CASE i \notin 1 .. r
    <3>1. i - r \in 1 .. e - 1 /\ i - r \in 1 .. Len(toDriver) /\ r + (i - r) = i
      BY <1>1, <2>2
    <3>2. Downs[r + (i - r)] = toDriver[i - r] /\ ~toDriver[i - r].newline
      BY <1>1, <3>1 DEF Unbroken
    <3>3. QED
      BY <3>1, <3>2
  <2>3. QED
    BY <2>1, <2>2
<1>5. Unbroken(Downs, 1, m)
  BY <1>4 DEF Unbroken
<1> HIDE DEF m
<1>6. Downs[m].size \in Nat /\ Downs[m].size >= m
  BY <1>3, <1>5, FirstLine
<1>7. QED
  BY <1>3, <1>6 DEF m, r

\* read_response, a chunk of the pipe: refused at once when it must be too long.
LEMMA ReadChunkHolds ==
    ASSUME RpcInv, Limit \in Nat, NEW n \in Nat, Rpc!ReadChunk(n)
    PROVE  RpcInv'
<1> DEFINE chunk == SubSeq(toDriver, 1, n)
           e == IF Rpc!HasLine(chunk) THEN Rpc!NewlineAt(chunk) ELSE n
<1>1. /\ unsent = <<>> /\ ~Rpc!HasLine(responseBuf) /\ n \in 1 .. Len(toDriver)
      /\ toDriver \in Seq(Bytes(Responses)) /\ responseBuf \in Seq(Bytes(Responses))
      /\ Len(toDriver) \in Nat /\ Len(responseBuf) \in Nat
  BY DEF Rpc!ReadChunk, RpcInv, RpcTypes
<1>2. \/ /\ ~Rpc!FitsFrame(Len(responseBuf) + e)
         /\ Rpc!Fail(Rpc!TooLarge(SubSeq(chunk, 1, e)))
         /\ UNCHANGED <<Rpc!pipes, responseBuf>>
      \/ /\ responseBuf' = responseBuf \o chunk
         /\ toDriver' = SubSeq(toDriver, n + 1, Len(toDriver))
         /\ UNCHANGED <<Rpc!processes, toServer, stage, unavailable, callId, call, unsent, Rpc!server, Rpc!history>>
  BY DEF Rpc!ReadChunk
<1>3. /\ chunk \in Seq(Bytes(Responses)) /\ Len(chunk) = n
      /\ \A i \in 1 .. n : chunk[i] = toDriver[i]
  BY <1>1, CutAndJoin
<1>4. DOMAIN chunk = 1 .. n
  BY <1>3
<1> HIDE DEF chunk
<1>5. e \in 1 .. n /\ Unbroken(chunk, 1, e)
  <2>1. CASE Rpc!HasLine(chunk)
    BY <1>3, <2>1, NewlineIs
  <2>2. CASE ~Rpc!HasLine(chunk)
    BY <1>1, <1>4, <2>2 DEF Rpc!HasLine, Unbroken
  <2>3. QED
    BY <2>1, <2>2
<1> HIDE DEF e
<1>6. CASE /\ ~Rpc!FitsFrame(Len(responseBuf) + e)
           /\ Rpc!Fail(Rpc!TooLarge(SubSeq(chunk, 1, e)))
           /\ UNCHANGED <<Rpc!pipes, responseBuf>>
  <2>1. e \in 1 .. Len(toDriver) /\ toDriver[e] = chunk[e] /\ Unbroken(toDriver, 1, e)
    BY <1>1, <1>3, <1>5 DEF Unbroken
  <2>2. toDriver[e].size \in Nat /\ toDriver[e].size >= Len(responseBuf) + e
    BY <1>1, <2>1, ReadAhead
  <2>3. SubSeq(chunk, 1, e)[Len(SubSeq(chunk, 1, e))] = chunk[e]
    <3>1. e \in 1 .. Len(chunk) /\ e \in 1 .. e
      BY <1>1, <1>3, <1>5
    <3>2. Len(SubSeq(chunk, 1, e)) = e /\ SubSeq(chunk, 1, e)[e] = chunk[e]
      BY <1>3, <3>1, CutAndJoin
    <3>3. QED
      BY <3>2
  <2>4. Rpc!TooLarge(SubSeq(chunk, 1, e)).size > Limit
    BY <1>1, <1>5, <1>6, <2>1, <2>2, <2>3 DEF Rpc!TooLarge, Rpc!FitsFrame
  <2>5. QED
    BY <1>6, <2>4, FailHolds DEF Rpc!pipes
<1>7. CASE /\ responseBuf' = responseBuf \o chunk
           /\ toDriver' = SubSeq(toDriver, n + 1, Len(toDriver))
           /\ UNCHANGED <<Rpc!processes, toServer, stage, unavailable, callId, call, unsent, Rpc!server, Rpc!history>>
  <2>1. /\ (responseBuf \o SubSeq(toDriver, 1, n)) \o SubSeq(toDriver, n + 1, Len(toDriver)) = responseBuf \o toDriver
        /\ responseBuf \o SubSeq(toDriver, 1, n) \in Seq(Bytes(Responses))
    BY <1>1, JoinAgain
  <2>2. Downs' = Downs /\ responseBuf' \in Seq(Bytes(Responses))
    BY <1>7, <2>1 DEF Downs, chunk
  <2>3. toDriver' \in Seq(Bytes(Responses))
    BY <1>1, <1>7, CutAndJoin
  <2>4. UNCHANGED <<pairing, toServer, unsent, lineBuf, discarding, served, lines, accepted, refused,
                    callId, call, unavailable, stage>>
    BY <1>7 DEF Rpc!processes, Rpc!server, Rpc!history
  <2>5. DownInv'
    BY <2>2 DEF RpcInv, DownInv
  <2>6. UpInv'
    BY <2>4 DEF RpcInv, UpInv, Ups
  <2>7. RpcTypes' /\ UnsentInv'
    BY <2>2, <2>3, <2>4 DEF RpcInv, RpcTypes, UnsentInv
  <2>8. Rpc!RpcExact'
    BY <2>4, ExactKept
  <2>9. QED
    BY <2>5, <2>6, <2>7, <2>8 DEF RpcInv
<1>8. QED
  BY <1>2, <1>6, <1>7

\* read_response, a buffer at the limit with no newline in it.
LEMMA BufferFullHolds ==
    ASSUME RpcInv, Limit \in Nat \ {0}, Rpc!BufferFull
    PROVE  RpcInv'
<1> DEFINE r == Len(responseBuf)
<1>1. /\ ~Rpc!HasLine(responseBuf) /\ r >= Limit /\ r \in Nat
      /\ responseBuf \in Seq(Bytes(Responses)) /\ DOMAIN responseBuf = 1 .. r
  BY DEF Rpc!BufferFull, RpcInv, RpcTypes
<1>2. Rpc!FailTransport(Rpc!TooLarge(responseBuf))
  BY DEF Rpc!BufferFull
<1>3. \A i \in 1 .. r : ~responseBuf[i].newline
  BY <1>1 DEF Rpc!HasLine
<1>4. /\ Len(Downs) = r + Len(toDriver) /\ Len(toDriver) \in Nat
      /\ \A i \in 1 .. r : Downs[i] = responseBuf[i]
  BY PipesExtend DEF Extended
<1> HIDE DEF r
<1>5. r \in 1 .. r /\ r \in 1 .. Len(Downs) /\ Unbroken(Downs, 1, r)
  BY <1>1, <1>3, <1>4 DEF Unbroken
<1>6. Downs[r].size \in Nat /\ Downs[r].size >= r /\ (Downs[r].newline <=> Downs[r].size = r)
  BY <1>5, FirstLine
<1>7. Downs[r] = responseBuf[r] /\ ~responseBuf[r].newline
  BY <1>3, <1>4, <1>5
<1>8. responseBuf[r].size > Limit
  BY <1>1, <1>6, <1>7
<1>9. QED
  BY <1>2, <1>8, FailHolds DEF r, Rpc!FailTransport, Rpc!TooLarge, Rpc!pipes

\* A pipe that closed or a deadline that passed.
LEMMA BrokenHolds ==
    ASSUME RpcInv, Limit \in Nat, Rpc!FailTransport(Rpc!Broken)
    PROVE  RpcInv'
<1>1. Rpc!Broken.kind # "too-large"
  BY DEF Rpc!Broken
<1>2. QED
  BY <1>1, FailHolds DEF Rpc!FailTransport, Rpc!pipes

\* Neither a deadline, nor a stuck server, nor the end of a process moves a byte.
LEMMA OthersHold ==
    ASSUME RpcInv, Limit \in Nat,
           \/ Rpc!DeadlinePasses
           \/ Rpc!GetStuck
           \/ Rpc!Exit
           \/ Rpc!ParentDies
           \/ UNCHANGED Rpc!vars
    PROVE  RpcInv'
<1>1. UNCHANGED <<pairing, toServer, unsent, toDriver, responseBuf, lineBuf, discarding,
                  served, lines, accepted, refused, callId, call, unavailable, stage>>
  BY DEF Rpc!DeadlinePasses, Rpc!GetStuck, Rpc!Exit, Rpc!ParentDies, Rpc!vars, Rpc!processes, Rpc!pipes,
         Rpc!driver, Rpc!server, Rpc!history
<1>2. callId' \in Nat \ {0}
  BY <1>1 DEF RpcInv, RpcTypes
<1>3. QED
  BY <1>1, <1>2, QuietHolds

\* Another client of the native server writes whole lines.
LEMMA ClientWritesHolds ==
    ASSUME RpcInv, Limit \in Nat, NEW method \in Rpc!Methods \cup Rpc!ProtocolMethods, NEW size \in Nat \ {0},
           Rpc!ClientWrites(method, size)
    PROVE  RpcInv'
<1> DEFINE p == [id |-> callId - 1, method |-> method, value |-> 2]
<1>1. /\ pairing = "client-native" /\ callId' = callId + 1
      /\ toServer' = toServer \o Rpc!Line(p, size)
      /\ UNCHANGED <<pairing, unsent, toDriver, responseBuf, lineBuf, discarding, served, lines, accepted,
                     refused, call, unavailable, stage>>
  BY DEF Rpc!ClientWrites, Rpc!processes, Rpc!server, Rpc!history
<1>2. callId \in Nat /\ callId' \in Nat \ {0} /\ callId - 1 \in Nat
  BY <1>1 DEF RpcInv, RpcTypes
<1>3. p \in Requests
  BY <1>2 DEF Requests
<1> HIDE DEF p
<1>4. unsent = <<>> /\ toServer \in Seq(Bytes(Requests)) /\ Rpc!Line(p, size) \in Seq(Bytes(Requests))
  BY <1>1, <1>3, LineFramed DEF RpcInv, UnsentInv, RpcTypes
<1> DEFINE u == toServer \o Rpc!Line(p, size)
<1>5. u \in Seq(Bytes(Requests)) /\ Extended(u, toServer, Rpc!Line(p, size))
  BY <1>4, ConcatExtends
<1>6. u = toServer'
  BY <1>1
<1> HIDE DEF u
<1>7. Ups = toServer /\ Ups' = u
  <2>1. toServer \o unsent = toServer
    BY <1>4, ConcatEmptySeq
  <2>2. u \o unsent' = u
    BY <1>1, <1>4, <1>5, ConcatEmptySeq
  <2>3. QED
    BY <1>6, <2>1, <2>2 DEF Ups
<1>8. UpInv'
  BY <1>1, <1>3, <1>5, <1>7, UpGrows
<1>9. DownInv'
  BY <1>1 DEF RpcInv, DownInv, Downs
<1>10. RpcTypes' /\ UnsentInv'
  BY <1>1, <1>2, <1>5, <1>6 DEF RpcInv, RpcTypes, UnsentInv
<1>11. Rpc!RpcExact'
  BY <1>1, ExactKept
<1>12. QED
  BY <1>8, <1>9, <1>10, <1>11 DEF RpcInv

\* A configured program reads a line.
LEMMA ForeignReadsHolds ==
    ASSUME RpcInv, Limit \in Nat, Rpc!ForeignReads
    PROVE  RpcInv'
<1> DEFINE n == Rpc!NewlineAt(toServer)
<1>1. /\ pairing = "driver-foreign" /\ Rpc!HasLine(toServer)
      /\ lineBuf' = Append(lineBuf, toServer[n].payload)
      /\ toServer' = SubSeq(toServer, n + 1, Len(toServer))
      /\ UNCHANGED <<pairing, unsent, toDriver, responseBuf, discarding, served, lines, accepted,
                     refused, callId, call, unavailable, stage>>
  BY DEF Rpc!ForeignReads, Rpc!processes, Rpc!driver, Rpc!history
<1>2. toServer \in Seq(Bytes(Requests)) /\ lineBuf \in Seq(Requests)
  BY <1>1 DEF RpcInv, RpcTypes
<1>3. n \in 1 .. Len(toServer)
  BY <1>1, <1>2, NewlineIs
<1> HIDE DEF n
<1>4. toServer' \in Seq(Bytes(Requests))
  BY <1>1, <1>2, <1>3, CutAndJoin
<1>5. lineBuf' \in Seq(Requests)
  <2>1. toServer[n].payload \in Requests
    BY <1>2, <1>3, ByteTypes
  <2>2. QED
    BY <1>1, <1>2, <2>1, AppendProperties
<1>6. RpcTypes' /\ UnsentInv'
  BY <1>1, <1>4, <1>5 DEF RpcInv, RpcTypes, UnsentInv
<1>7. UpInv' /\ DownInv'
  BY <1>1 DEF RpcInv, UpInv, DownInv, Downs
<1>8. Rpc!RpcExact'
  BY <1>1, ExactKept
<1>9. QED
  BY <1>6, <1>7, <1>8 DEF RpcInv

\* ... and answers any line it read, in whatever way.
LEMMA ForeignAnswersHolds ==
    ASSUME RpcInv, Limit \in Nat, NEW i, NEW kind \in Rpc!ForeignKinds, NEW size \in Nat \ {0},
           Rpc!ForeignAnswers(i, kind, size)
    PROVE  RpcInv'
<1> DEFINE p == [id |-> lineBuf[i].id, of |-> lineBuf[i].id, kind |-> kind, value |-> 2]
<1>1. /\ pairing = "driver-foreign" /\ i \in DOMAIN lineBuf
      /\ toDriver' = toDriver \o Rpc!Line(p, size)
      /\ UNCHANGED <<pairing, toServer, unsent, responseBuf, lineBuf, discarding, served, lines, accepted,
                     refused, callId, call, unavailable, stage>>
  BY DEF Rpc!ForeignAnswers, Rpc!Reply, Rpc!processes, Rpc!driver, Rpc!server, Rpc!history
<1>2. lineBuf[i].id \in Nat
  <2>1. lineBuf \in Seq(Requests)
    BY <1>1 DEF RpcInv, RpcTypes
  <2>2. lineBuf[i] \in Requests
    BY <1>1, <2>1
  <2>4. QED
    BY <2>2 DEF Requests
<1>3. p \in Responses
  BY <1>2 DEF Responses, LineKinds
<1> HIDE DEF p
<1>4. DownInv' /\ toDriver' \in Seq(Bytes(Responses))
  BY <1>1, <1>3, ReplyGrows
<1>5. RpcTypes' /\ UnsentInv' /\ UpInv'
  BY <1>1, <1>4 DEF RpcInv, RpcTypes, UnsentInv, UpInv
<1>6. Rpc!RpcExact'
  BY <1>1, ExactKept
<1>7. QED
  BY <1>4, <1>5, <1>6 DEF RpcInv

\* What is left of two pipes when the first n bytes of the first are gone.
LEMMA JoinShifts ==
    ASSUME NEW S, NEW s \in Seq(S), NEW l \in Seq(S), NEW n \in 0 .. Len(s)
    PROVE  LET r == SubSeq(s, n + 1, Len(s))
           IN  /\ r \in Seq(S) /\ r \o l \in Seq(S)
               /\ Shifted(r \o l, s \o l, n)
<1> DEFINE r == SubSeq(s, n + 1, Len(s))
           t == r \o l
           u == s \o l
<1>1. Len(s) \in Nat /\ n \in Nat /\ n <= Len(s)
  OBVIOUS
<1>2. r \in Seq(S) /\ Shifted(r, s, n)
  BY RestShifts
<1> HIDE DEF r
<1>3. t \in Seq(S) /\ Extended(t, r, l) /\ Len(r) \in Nat /\ Len(l) \in Nat
  BY <1>2, ConcatExtends
<1>4. u \in Seq(S) /\ Extended(u, s, l)
  BY ConcatExtends
<1> HIDE DEF t, u
<1>5. Len(r) = Len(s) - n /\ Len(t) = Len(r) + Len(l) /\ Len(u) = Len(s) + Len(l)
  BY <1>2, <1>3, <1>4 DEF Extended, Shifted
<1>6. ASSUME NEW i \in 1 .. Len(t) PROVE t[i] = u[i + n]
  <2>1. CASE i \in 1 .. Len(r)
    <3>1. t[i] = r[i] /\ r[i] = s[i + n] /\ i + n \in 1 .. Len(s)
      BY <1>1, <1>2, <1>3, <1>5, <2>1 DEF Extended, Shifted
    <3>2. QED
      BY <1>4, <3>1 DEF Extended
  <2>2. CASE i \notin 1 .. Len(r)
    <3>1. i - Len(r) \in 1 .. Len(l) /\ Len(r) + (i - Len(r)) = i /\ Len(s) + (i - Len(r)) = i + n
      BY <1>1, <1>3, <1>5, <2>2
    <3>2. t[Len(r) + (i - Len(r))] = l[i - Len(r)] /\ u[Len(s) + (i - Len(r))] = l[i - Len(r)]
      BY <1>3, <1>4, <3>1 DEF Extended
    <3>3. QED
      BY <3>1, <3>2
  <2>3. QED
    BY <2>1, <2>2
<1>7. Shifted(t, u, n)
  BY <1>1, <1>3, <1>5, <1>6 DEF Shifted
<1>8. QED
  BY <1>2, <1>3, <1>7 DEF r, t, u

\* One more line handled.
LEMMA HistoryGrows ==
    ASSUME RpcInv, NEW x \in [size : Nat, tooLarge : BOOLEAN], NEW z \in Nat,
           IF x.tooLarge THEN z > Limit ELSE x.size = z /\ z <= Limit,
           served' = Append(served, x), lines' = Append(lines, z), UNCHANGED <<accepted, refused>>
    PROVE  /\ Rpc!RpcExact'
           /\ served' \in Seq([size : Nat, tooLarge : BOOLEAN]) /\ lines' \in Seq(Nat)
<1>1. /\ served \in Seq([size : Nat, tooLarge : BOOLEAN]) /\ lines \in Seq(Nat)
      /\ Len(served) = Len(lines) /\ Len(served) \in Nat
      /\ \A i \in DOMAIN served :
             IF served[i].tooLarge THEN lines[i] > Limit ELSE served[i].size = lines[i] /\ lines[i] <= Limit
  BY DEF RpcInv, RpcTypes, Rpc!RpcExact
<1>2. /\ served' \in Seq([size : Nat, tooLarge : BOOLEAN]) /\ Len(served') = Len(served) + 1
      /\ \A i \in 1 .. Len(served) : served'[i] = served[i]
      /\ served'[Len(served) + 1] = x
  BY <1>1, AppendProperties
<1>3. /\ lines' \in Seq(Nat) /\ Len(lines') = Len(lines) + 1
      /\ \A i \in 1 .. Len(lines) : lines'[i] = lines[i]
      /\ lines'[Len(lines) + 1] = z
  BY <1>1, AppendProperties
<1>4. DOMAIN served = 1 .. Len(served) /\ DOMAIN served' = 1 .. Len(served')
  BY <1>1, <1>2
<1>5. ASSUME NEW i \in DOMAIN served'
      PROVE  IF served'[i].tooLarge THEN lines'[i] > Limit ELSE served'[i].size = lines'[i] /\ lines'[i] <= Limit
  <2>1. CASE i \in 1 .. Len(served)
    <3>1. served'[i] = served[i] /\ lines'[i] = lines[i]
      BY <1>1, <1>2, <1>3, <2>1
    <3>2. QED
      BY <1>1, <1>4, <2>1, <3>1
  <2>2. CASE i = Len(served) + 1
    <3>1. served'[i] = x /\ lines'[i] = z
      BY <1>1, <1>2, <1>3, <2>2
    <3>2. QED
      BY <3>1
  <2>3. QED
    BY <1>1, <1>2, <1>4, <2>1, <2>2
<1>6. Rpc!RpcExact'
  BY <1>1, <1>2, <1>3, <1>5 DEF Rpc!RpcExact, RpcInv
<1>7. QED
  BY <1>2, <1>3, <1>6

\* The native server answers a request it read.
LEMMA AnswerIs ==
    ASSUME NEW request \in Requests
    PROVE  Rpc!Answer(request) \in Responses
<1> USE DEF Rpc!Result, Responses, LineKinds, Rpc!ForeignKinds
<1>1. /\ request.id \in Nat /\ request.value \in Nat
      /\ request.method \in {"speak", "stop", "set_rate", "initialize", "rpc.discover"}
  BY DEF Requests, Rpc!Methods, Rpc!ProtocolMethods
<1>2. CASE request.method = "rpc.discover"
  BY <1>1, <1>2 DEF Rpc!Answer, Rpc!ProtocolAnswer
<1>3. CASE request.method # "rpc.discover" /\ Rpc!Refuses(request)
  BY <1>1, <1>3 DEF Rpc!Answer
<1>4. CASE request.method = "initialize" /\ ~Rpc!Refuses(request)
  BY <1>1, <1>4 DEF Rpc!Answer, Rpc!ProtocolAnswer
<1>5. CASE request.method = "set_rate" /\ ~Rpc!Refuses(request)
  BY <1>1, <1>5 DEF Rpc!Answer
<1>6. CASE request.method \in {"speak", "stop"} /\ ~Rpc!Refuses(request)
  BY <1>1, <1>6 DEF Rpc!Answer
<1>7. QED
  BY <1>1, <1>2, <1>3, <1>4, <1>5, <1>6

\* What a segment of the input is, and what is left of the pipes after it.
LEMMA SegmentIs ==
    ASSUME RpcInv, Limit \in Nat, pairing # "driver-foreign", NEW n \in Nat, Rpc!Segment(n),
           NEW u \in Seq(Bytes(Requests)), Shifted(u, Ups, n)
    PROVE  /\ n \in 1 .. Len(toServer) /\ toServer[n] \in Bytes(Requests)
           /\ toServer[n].size \in Nat /\ toServer[n].payload \in Requests
           /\ Len(lineBuf) \in Nat
           /\ discarding => toServer[n].size > Limit
           /\ ~discarding => /\ toServer[n].size >= Len(lineBuf) + n
                             /\ toServer[n].newline <=> toServer[n].size = Len(lineBuf) + n
           /\ Framed(u)
           /\ toServer[n].newline => Heads(u, 0)
           /\ ~toServer[n].newline =>
                /\ u # <<>>
                /\ discarding => TooLong(u)
                /\ ~discarding => /\ Heads(u, Len(lineBuf) + n)
                                  /\ Len(lineBuf) + n > Limit => TooLong(u)
<1>1. n \in 1 .. Len(toServer) /\ \A i \in 1 .. n - 1 : ~toServer[i].newline
  BY DEF Rpc!Segment
<1>2. /\ toServer \in Seq(Bytes(Requests)) /\ unsent \in Seq(Bytes(Requests))
      /\ Len(toServer) \in Nat /\ Len(lineBuf) \in Nat
  BY DEF RpcInv, RpcTypes
<1>3. /\ toServer[n] \in Bytes(Requests) /\ toServer[n].size \in Nat /\ toServer[n].payload \in Requests
      /\ toServer[n].newline \in BOOLEAN
  BY <1>1, <1>2, ByteTypes
<1>4. u \in Seq(Bytes(Requests)) /\ Shifted(u, Ups, n)
  OBVIOUS
<1>5. /\ Ups \in Seq(Bytes(Requests)) /\ Len(Ups) \in Nat /\ n \in 1 .. Len(Ups) /\ n \in 0 .. Len(Ups) /\ n > 0
      /\ \A i \in 1 .. n : Ups[i] = toServer[i]
  BY <1>1, PipesExtend DEF Extended
<1>6. Unbroken(Ups, 1, n)
  BY <1>1, <1>5 DEF Unbroken
<1>7. Ups[n] = toServer[n]
  BY <1>5
<1>8. Framed(Ups) /\ (discarding => TooLong(Ups)) /\ (~discarding => Heads(Ups, Len(lineBuf)))
  BY DEF RpcInv, UpInv
<1>9. discarding => toServer[n].size > Limit
  BY <1>5, <1>6, <1>7, <1>8 DEF TooLong
<1>10. ~discarding => /\ toServer[n].size >= Len(lineBuf) + n
                      /\ toServer[n].newline <=> toServer[n].size = Len(lineBuf) + n
  BY <1>5, <1>6, <1>7, <1>8 DEF Heads
<1>11. Framed(u)
  BY <1>4, <1>5, <1>8, ShiftFramed
<1>12. /\ Ups[n].newline => Heads(u, 0)
       /\ Unbroken(Ups, 1, n + 1) =>
            /\ Heads(Ups, Len(lineBuf)) => Heads(u, Len(lineBuf) + n)
            /\ TooLong(Ups) => TooLong(u)
            /\ Heads(Ups, Len(lineBuf)) /\ Len(lineBuf) + n > Limit => TooLong(u)
  <2>1. ASSUME NEW k \in Nat
        PROVE  /\ Ups[n].newline => Heads(u, 0)
               /\ Unbroken(Ups, 1, n + 1) =>
                    /\ Heads(Ups, k) => Heads(u, k + n)
                    /\ TooLong(Ups) => TooLong(u)
                    /\ Heads(Ups, k) /\ k + n > Limit => TooLong(u)
    BY <1>4, <1>5, <1>8, ShiftHeads
  <2>2. QED
    BY <1>2, <2>1
<1>13. ASSUME ~toServer[n].newline
       PROVE  Unbroken(Ups, 1, n + 1) /\ u # <<>>
  <2>1. Unbroken(Ups, 1, n + 1)
    <3>1. \A m \in 1 .. n + 1 - 1 : m \in 1 .. n - 1 \/ m = n
      BY <1>5
    <3>2. QED
      BY <1>6, <1>7, <1>13, <3>1 DEF Unbroken
  <2>2. ASSUME u = <<>> PROVE FALSE
    <3>1. Len(Ups) = n /\ Ups # <<>>
      <4>1. Len(u) = Len(Ups) - n /\ Len(u) = 0
        BY <1>4, <2>2, EmptySeq DEF Shifted
      <4>2. Len(Ups) = n /\ Len(Ups) # 0
        BY <1>5, <4>1
      <4>3. QED
        BY <4>2, EmptySeq
    <3>2. Ups[n].newline
      BY <1>8, <3>1 DEF Framed, Whole
    <3>3. QED
      BY <1>7, <1>13, <3>2
  <2>3. QED
    BY <2>1, <2>2
<1>14. QED
  BY <1>1, <1>2, <1>3, <1>7, <1>8, <1>9, <1>10, <1>11, <1>12, <1>13

\* FrameBuffer::push: one segment of the input, in each of its six outcomes.
LEMMA ServerReadsHolds ==
    ASSUME RpcInv, Limit \in Nat, FrameSizes \subseteq Nat \ {0}, NEW n \in Nat, Rpc!ServerReads(n)
    PROVE  RpcInv'
<1> DEFINE k == Len(lineBuf)
           b == toServer[n]
           u == SubSeq(toServer, n + 1, Len(toServer)) \o unsent
<1>1. /\ pairing # "driver-foreign" /\ Rpc!Segment(n)
      /\ toServer' = SubSeq(toServer, n + 1, Len(toServer))
      /\ UNCHANGED <<pairing, unsent, responseBuf, accepted, refused, callId, call, unavailable, stage>>
  BY DEF Rpc!ServerReads, Rpc!Serving, Rpc!driver
<1>2. lines' = IF b.newline THEN Append(lines, b.size) ELSE lines
  BY DEF Rpc!ServerReads
<1>3. \/ discarding /\ b.newline /\ ~discarding' /\ Rpc!HandleTooLarge /\ lineBuf' = lineBuf
      \/ ~discarding /\ k + n > Limit /\ b.newline /\ ~discarding' /\ Rpc!HandleTooLarge /\ lineBuf' = <<>>
      \/ ~discarding /\ k + n > Limit /\ ~b.newline /\ discarding' /\ lineBuf' = <<>> /\ UNCHANGED <<served, toDriver>>
      \/ discarding /\ ~b.newline /\ discarding' /\ lineBuf' = lineBuf /\ UNCHANGED <<served, toDriver>>
      \/ /\ ~discarding /\ ~(k + n > Limit) /\ ~b.newline /\ ~discarding'
         /\ lineBuf' = lineBuf \o SubSeq(toServer, 1, n) /\ UNCHANGED <<served, toDriver>>
      \/ /\ ~discarding /\ ~(k + n > Limit) /\ b.newline /\ ~discarding' /\ lineBuf' = <<>>
         /\ Rpc!HandleLine(b.payload, n)
  BY DEF Rpc!ServerReads, Rpc!Overflows
<1>4. discarding' \in BOOLEAN
  BY DEF Rpc!ServerReads, RpcInv, RpcTypes
<1>5. /\ n \in 1 .. Len(toServer) /\ b \in Bytes(Requests)
      /\ b.size \in Nat /\ b.payload \in Requests
      /\ k \in Nat
      /\ discarding => b.size > Limit
      /\ ~discarding => /\ b.size >= k + n
                        /\ b.newline <=> b.size = k + n
      /\ Framed(u)
      /\ b.newline => Heads(u, 0)
      /\ ~b.newline =>
           /\ u # <<>>
           /\ discarding => TooLong(u)
           /\ ~discarding => /\ Heads(u, k + n)
                             /\ k + n > Limit => TooLong(u)
  <2>1. n \in 0 .. Len(toServer) /\ toServer \in Seq(Bytes(Requests)) /\ unsent \in Seq(Bytes(Requests))
    BY <1>1 DEF Rpc!Segment, RpcInv, RpcTypes
  <2>2. u \in Seq(Bytes(Requests)) /\ Shifted(u, Ups, n)
    BY <2>1, JoinShifts DEF Ups
  <2> HIDE DEF u
  <2>3. QED
    BY <1>1, <2>2, SegmentIs
<1>6. u = Ups'
  BY <1>1 DEF Ups
<1>7. /\ toServer \in Seq(Bytes(Requests)) /\ toServer' \in Seq(Bytes(Requests))
      /\ lineBuf \in Seq(Bytes(Requests)) /\ lines \in Seq(Nat)
  <2>1. toServer \in Seq(Bytes(Requests)) /\ lineBuf \in Seq(Bytes(Requests)) /\ lines \in Seq(Nat)
    BY <1>1 DEF RpcInv, RpcTypes
  <2>2. QED
    BY <1>1, <1>5, <2>1, CutAndJoin
<1>8. discarding => lineBuf = <<>>
  BY <1>1 DEF RpcInv, UpInv
<1> HIDE DEF k, b, u
<1>9. UnsentInv'
  BY <1>1 DEF RpcInv, UnsentInv
\* A line ended: what the reader holds is gone, and an answer may be on its way.
<1>10. ASSUME NEW x \in [size : Nat, tooLarge : BOOLEAN], b.newline, ~discarding', lineBuf' = <<>>,
              IF x.tooLarge THEN b.size > Limit ELSE x.size = b.size /\ b.size <= Limit,
              served' = Append(served, x), DownInv', toDriver' \in Seq(Bytes(Responses))
       PROVE  RpcInv'
  <2>1. lines' = Append(lines, b.size)
    BY <1>2, <1>10
  <2>2. /\ Rpc!RpcExact'
        /\ served' \in Seq([size : Nat, tooLarge : BOOLEAN]) /\ lines' \in Seq(Nat)
    BY <1>1, <1>5, <1>10, <2>1, HistoryGrows
  <2>3. lineBuf' \in Seq(Bytes(Requests)) /\ Len(lineBuf') = 0
    BY <1>10, EmptySeq
  <2>4. RpcTypes'
    BY <1>1, <1>4, <1>7, <1>10, <2>2, <2>3 DEF RpcInv, RpcTypes
  <2>5. UpInv'
    BY <1>5, <1>6, <1>10, <2>3 DEF UpInv
  <2>6. QED
    BY <1>9, <1>10, <2>2, <2>4, <2>5 DEF RpcInv
\* Part of a line was read.
<1>11. ASSUME ~b.newline, UNCHANGED <<served, toDriver>>, lineBuf' \in Seq(Bytes(Requests)),
              u # <<>>, IF discarding' THEN TooLong(u) /\ lineBuf' = <<>> ELSE Heads(u, Len(lineBuf'))
       PROVE  RpcInv'
  <2>1. UNCHANGED lines
    BY <1>2, <1>11
  <2>2. RpcTypes'
    BY <1>1, <1>4, <1>7, <1>11, <2>1 DEF RpcInv, RpcTypes
  <2>3. Rpc!RpcExact'
    BY <1>1, <1>11, <2>1, ExactKept
  <2>4. DownInv'
    BY <1>1, <1>11 DEF RpcInv, DownInv, Downs
  <2>5. UpInv'
    BY <1>5, <1>6, <1>11 DEF UpInv
  <2>6. QED
    BY <1>9, <2>2, <2>3, <2>4, <2>5 DEF RpcInv
<1>12. ASSUME Rpc!HandleTooLarge, b.newline, ~discarding', lineBuf' = <<>>, b.size > Limit
       PROVE  RpcInv'
  <2> DEFINE p == [id |-> 0, of |-> 0, kind |-> "rpc-error", value |-> 0]
             x == [size |-> 0, tooLarge |-> TRUE]
  <2>1. served' = Append(served, x) /\ toDriver' = toDriver \o Rpc!Line(p, 1)
    BY <1>12 DEF Rpc!HandleTooLarge, Rpc!Reply
  <2>2. p \in Responses /\ 1 \in Nat \ {0}
    BY DEF Responses, LineKinds, Rpc!ForeignKinds
  <2>3. x \in [size : Nat, tooLarge : BOOLEAN] /\ x.tooLarge
    OBVIOUS
  <2> HIDE DEF p, x
  <2>4. DownInv' /\ toDriver' \in Seq(Bytes(Responses))
    BY <1>1, <2>1, <2>2, ReplyGrows
  <2>5. QED
    BY <1>10, <1>12, <2>1, <2>3, <2>4
<1>13. ASSUME Rpc!HandleLine(b.payload, n), b.newline, ~discarding, ~discarding', lineBuf' = <<>>, ~(k + n > Limit)
       PROVE  RpcInv'
  <2> DEFINE x == [size |-> k + n, tooLarge |-> FALSE]
  <2>1. served' = Append(served, x)
    BY <1>13 DEF Rpc!HandleLine, k
  <2>2. k + n \in Nat /\ b.size = k + n /\ b.size <= Limit
    BY <1>5, <1>13
  <2>3. x \in [size : Nat, tooLarge : BOOLEAN] /\ ~x.tooLarge /\ x.size = b.size
    BY <2>2
  <2> HIDE DEF x
  <2>4. DownInv' /\ toDriver' \in Seq(Bytes(Responses))
    <3>1. CASE toDriver' = toDriver
      BY <1>1, <3>1 DEF RpcInv, RpcTypes, DownInv, Downs
    <3>2. ASSUME NEW m \in FrameSizes, toDriver' = toDriver \o Rpc!Line(Rpc!Answer(b.payload), m)
          PROVE  DownInv' /\ toDriver' \in Seq(Bytes(Responses))
      <4>1. m \in Nat \ {0} /\ Rpc!Answer(b.payload) \in Responses
        BY <1>5, AnswerIs
      <4>2. QED
        BY <1>1, <3>2, <4>1, ReplyGrows
    <3>3. QED
      BY <1>13, <3>1, <3>2 DEF Rpc!HandleLine, Rpc!ReplyUnlessTooLarge, Rpc!Reply
  <2>5. QED
    BY <1>10, <1>13, <2>1, <2>2, <2>3, <2>4
<1>14. ASSUME ~discarding, ~b.newline, ~discarding', lineBuf' = lineBuf \o SubSeq(toServer, 1, n),
              UNCHANGED <<served, toDriver>>
       PROVE  RpcInv'
  <2>1. SubSeq(toServer, 1, n) \in Seq(Bytes(Requests)) /\ Len(SubSeq(toServer, 1, n)) = n
    BY <1>5, <1>7, CutAndJoin
  <2>2. lineBuf' \in Seq(Bytes(Requests)) /\ Len(lineBuf') = k + n
    <3>1. ASSUME NEW a \in Seq(Bytes(Requests)), Len(a) = n
          PROVE  lineBuf \o a \in Seq(Bytes(Requests)) /\ Len(lineBuf \o a) = k + n
      BY <1>7, <3>1, ConcatProperties DEF k
    <3>2. QED
      BY <1>14, <2>1, <3>1
  <2>3. QED
    BY <1>5, <1>11, <1>14, <2>2
<1>15. CASE discarding /\ b.newline /\ ~discarding' /\ Rpc!HandleTooLarge /\ lineBuf' = lineBuf
  BY <1>5, <1>8, <1>12, <1>15
<1>16. CASE ~discarding /\ k + n > Limit /\ b.newline /\ ~discarding' /\ Rpc!HandleTooLarge /\ lineBuf' = <<>>
  BY <1>5, <1>12, <1>16
<1>17. CASE ~discarding /\ k + n > Limit /\ ~b.newline /\ discarding' /\ lineBuf' = <<>> /\ UNCHANGED <<served, toDriver>>
  <2>1. <<>> \in Seq(Bytes(Requests))
    BY EmptySeq
  <2>2. QED
    BY <1>5, <1>11, <1>17, <2>1
<1>18. CASE discarding /\ ~b.newline /\ discarding' /\ lineBuf' = lineBuf /\ UNCHANGED <<served, toDriver>>
  BY <1>5, <1>7, <1>8, <1>11, <1>18
<1>19. QED
  BY <1>3, <1>13, <1>14, <1>15, <1>16, <1>17, <1>18

\* The invariant holds before the first byte.
LEMMA RpcStarts ==
    ASSUME Limit \in Nat, Rpc!Init
    PROVE  RpcInv
<1>1. /\ toServer = <<>> /\ unsent = <<>> /\ toDriver = <<>> /\ responseBuf = <<>> /\ lineBuf = <<>>
      /\ discarding = FALSE /\ served = <<>> /\ lines = <<>> /\ callId = 1 /\ refused = 0
      /\ accepted = [call |-> 0, of |-> 0, size |-> 0]
  BY DEF Rpc!Init
<1>2. RpcTypes /\ UnsentInv
  <2>1. \A S : <<>> \in Seq(S)
    BY EmptySeq
  <2>2. 1 \in Nat \ {0}
    OBVIOUS
  <2>3. QED
    BY <1>1, <2>1, <2>2 DEF RpcTypes, UnsentInv
<1>3. \A S : <<>> \o <<>> = <<>> /\ <<>> \in Seq(S)
  BY ConcatEmptySeq, EmptySeq
<1>4. Ups = <<>> /\ Downs = <<>> /\ Len(Ups) = 0 /\ Len(Downs) = 0
  BY <1>1, <1>3 DEF Ups, Downs
<1>5. UpInv /\ DownInv
  BY <1>1, <1>4 DEF UpInv, DownInv, Framed, Follows, SameLine, Whole, Heads
<1>6. Rpc!RpcExact
  BY <1>1 DEF Rpc!RpcExact
<1>7. QED
  BY <1>2, <1>5, <1>6 DEF RpcInv

\* ... and every step of either end keeps it.
LEMMA RpcHolds ==
    ASSUME RpcInv, Limit \in Nat \ {0}, FrameSizes \subseteq Nat \ {0}, [Rpc!Next]_Rpc!vars
    PROVE  RpcInv'
<1> Limit \in Nat
  OBVIOUS
<1>1. CASE \E size \in FrameSizes :
              \/ Rpc!BeginCall("initialize", 0, size)
              \/ \E m \in Rpc!Methods, v \in Rpc!Rates : Rpc!BeginCall(m, v, size)
  <2>1. \A v \in Rpc!Rates \cup {0} : v \in Nat
    BY DEF Rpc!Rates
  <2>2. QED
    BY <1>1, <2>1, BeginHolds
<1>2. CASE \E size \in FrameSizes, m \in Rpc!Methods \cup Rpc!ProtocolMethods : Rpc!ClientWrites(m, size)
  BY <1>2, ClientWritesHolds
<1>3. CASE \E size \in FrameSizes, i \in 1 .. MaxCalls, kind \in Rpc!ForeignKinds : Rpc!ForeignAnswers(i, kind, size)
  BY <1>3, ForeignAnswersHolds
<1>4. CASE \E n \in 1 .. Limit + 1 : Rpc!WriteRequest(n) \/ Rpc!ReadChunk(n) \/ Rpc!ServerReads(n)
  BY <1>4, WriteHolds, ReadChunkHolds, ServerReadsHolds
<1>5. CASE Rpc!TakeFrame \/ Rpc!BufferFull \/ Rpc!ForeignReads
  BY <1>5, TakeFrameHolds, BufferFullHolds, ForeignReadsHolds
<1>6. CASE Rpc!TimeOut \/ Rpc!WriteToClosedPipe \/ Rpc!ReadClosed
  BY <1>6, BrokenHolds DEF Rpc!TimeOut, Rpc!WriteToClosedPipe, Rpc!ReadClosed
<1>7. CASE Rpc!DeadlinePasses \/ Rpc!GetStuck \/ Rpc!ReadEof \/ Rpc!Watchdog \/ Rpc!ServerCrashes
           \/ Rpc!ParentDies \/ UNCHANGED Rpc!vars
  BY <1>7, OthersHold DEF Rpc!ReadEof, Rpc!Watchdog, Rpc!ServerCrashes
<1>8. QED
  BY <1>1, <1>2, <1>3, <1>4, <1>5, <1>6, <1>7 DEF Rpc!Next

(***************************************************************************)
(* A response is accepted only for the call it answers, and a line is      *)
(* refused for its length exactly when it is longer than the limit, in     *)
(* whatever pieces it is read at either end; a line too long costs one     *)
(* answer and never the next one (read_response, parse_response,           *)
(* FrameBuffer::push).                                                     *)
(***************************************************************************)
THEOREM FramesAreExact ==
    ASSUME Limit \in Nat \ {0}, FrameSizes \subseteq Nat \ {0}
    PROVE  Rpc!Spec => []RpcExact
<1>1. Rpc!Init => RpcInv
  BY RpcStarts
<1>2. RpcInv /\ [Rpc!Next]_Rpc!vars => RpcInv'
  BY RpcHolds
<1>3. RpcInv => RpcExact
  BY DEF RpcInv, RpcExact
<1>4. QED
  BY <1>1, <1>2, <1>3, PTL DEF Rpc!Spec

-----------------------------------------------------------------------------
(* The log: sums over a queue, which the byte budget and the drop counters *)
(* are about.                                                              *)

\* n things with different numbers have n numbers.
LEMMA Numbered ==
    ASSUME NEW n \in Nat, NEW q, \A i, j \in 1 .. n : q[i].seq = q[j].seq => i = j
    PROVE  LET S == {q[i].seq : i \in 1 .. n} IN IsFiniteSet(S) /\ Cardinality(S) = n
<1> DEFINE S == {q[i].seq : i \in 1 .. n}
           f == [i \in 1 .. n |-> q[i].seq]
<1>1. f \in Surjection(1 .. n, S) /\ f \in Injection(1 .. n, S)
  BY DEF Surjection, Injection, IsInjective
<1>2. IsFiniteSet(1 .. n) /\ Cardinality(1 .. n) = n
  BY FS_Interval
<1> HIDE DEF f, S
<1>3. IsFiniteSet(S) /\ Cardinality(S) = n
  BY <1>1, <1>2, FS_Surjection
<1>4. QED
  BY <1>3 DEF S

\* Moving the indices of a sum does not change it.
Moved(T, k) == {x + k : x \in T}
LEMMA SumMoved ==
    ASSUME NEW S \in SUBSET Int, IsFiniteSet(S), NEW f, NEW g, NEW k \in Int,
           \A x \in S : f[x] \in Nat /\ g[x + k] = f[x]
    PROVE  SumFunctionOnSet(f, S) = SumFunctionOnSet(g, Moved(S, k))
<1> DEFINE F == {T \in SUBSET S : SumFunctionOnSet(f, T) = SumFunctionOnSet(g, Moved(T, k))}
<1>1. ASSUME NEW T \in SUBSET S PROVE IsFiniteSet(T) /\ IsFiniteSet(Moved(T, k))
  <2>1. IsFiniteSet(T)
    BY FS_Subset
  <2>2. [x \in T |-> x + k] \in Surjection(T, Moved(T, k))
    BY DEF Surjection, Moved
  <2>3. QED
    BY <2>1, <2>2, FS_Surjection
<1>2. ASSUME NEW T \in SUBSET S, \A U \in SUBSET T : U # T => U \in F
      PROVE  T \in F
  <2>1. CASE T = {}
    <3>1. Moved({}, k) = {}
      BY DEF Moved
    <3>2. SumFunctionOnSet(f, {}) = 0 /\ SumFunctionOnSet(g, {}) = 0
      BY FS_EmptySet, SumUnfolds
    <3>3. QED
      BY <2>1, <3>1, <3>2
  <2>2. CASE T # {}
    <3>1. PICK x \in T : TRUE
      BY <2>2
    <3> DEFINE U == T \ {x}
    <3>2. U \in SUBSET T /\ U # T /\ x + k \in Moved(T, k)
      BY <3>1 DEF Moved
    <3>3. Moved(U, k) = Moved(T, k) \ {x + k}
      <4>1. T \subseteq Int
        OBVIOUS
      <4>2. QED
        BY <4>1, <3>1 DEF Moved
    <3>4. SumFunctionOnSet(f, U) = SumFunctionOnSet(g, Moved(U, k))
      BY <1>2, <3>2
    <3>5. SumFunctionOnSet(f, T) = f[x] + SumFunctionOnSet(f, U)
      BY <1>1, <3>1, SumTakesOff
    <3>6. \A y \in Moved(T, k) : g[y] \in Nat
      BY DEF Moved
    <3>7. SumFunctionOnSet(g, Moved(T, k)) = g[x + k] + SumFunctionOnSet(g, Moved(T, k) \ {x + k})
      BY <1>1, <3>2, <3>6, SumTakesOff
    <3>8. g[x + k] = f[x]
      BY <3>1
    <3> HIDE DEF U
    <3>9. QED
      BY <3>3, <3>4, <3>5, <3>7, <3>8
  <2>3. QED
    BY <2>1, <2>2
<1>3. S \in F
  <2> HIDE DEF F
  <2>1. QED
    BY <1>2, SubsetInduction
<1>4. QED
  BY <1>3

\* The total of per-producer counts when one of them changes.
LEMMA TotalChanged ==
    ASSUME IsFiniteSet(Producers), NEW f \in [Producers -> Nat], NEW p \in Producers, NEW v \in Nat
    PROVE  /\ SumFunction(f) \in Nat
           /\ SumFunction([f EXCEPT ![p] = v]) \in Nat
           /\ SumFunction([f EXCEPT ![p] = v]) + f[p] = SumFunction(f) + v
<1> DEFINE g == [f EXCEPT ![p] = v]
<1>1. g \in [Producers -> Nat] /\ DOMAIN g = Producers /\ DOMAIN f = Producers /\ g[p] = v
  OBVIOUS
<1>2. SumFunctionOnSet(f, Producers) = f[p] + SumFunctionOnSet(f, Producers \ {p})
  BY SumTakesOff
<1>3. SumFunctionOnSet(g, Producers) = v + SumFunctionOnSet(g, Producers \ {p})
  <2> HIDE DEF g
  <2>1. \A x \in Producers : g[x] \in Nat
    BY <1>1
  <2>2. QED
    BY <1>1, <2>1, SumTakesOff
<1>4. IsFiniteSet(Producers \ {p}) /\ \A x \in Producers \ {p} : g[x] = f[x] /\ f[x] \in Nat
  BY FS_Subset
<1> HIDE DEF g
<1>5. SumFunctionOnSet(g, Producers \ {p}) = SumFunctionOnSet(f, Producers \ {p})
  BY <1>4, SumAgrees
<1>6. SumFunctionOnSet(f, Producers \ {p}) \in Nat
  BY <1>4, SumType
<1>7. f[p] \in Nat
  OBVIOUS
<1>8. SumFunction(f) = SumFunctionOnSet(f, Producers) /\ SumFunction(g) = SumFunctionOnSet(g, Producers)
  BY <1>1 DEF SumFunction
<1>9. QED
  BY <1>2, <1>3, <1>5, <1>6, <1>7, <1>8 DEF g

-----------------------------------------------------------------------------
(* The bytes of a queue.                                                   *)

\* The sum of LogQueue is that of FiniteSums.
LEMMA SumsAgreeInLog ==
    ASSUME NEW f, NEW S
    PROVE  Log!SumFunctionOnSet(f, S) = SumFunctionOnSet(f, S)
<1>1. Log!SumFunctionOnSet(f, S) = (CHOOSE g : Sums(f, SUBSET S, g))[S]
  BY DEF Log!SumFunctionOnSet, Log!FoldFunctionOnSet, Log!MapThenFoldSet, Sums, Pick
<1>2. QED
  BY <1>1, SumIsFold

LogRecords == [seq : Nat \ {0}, size : Nat \ {0}, from : Producers \cup {0}]
RecordSizes(q) == [i \in DOMAIN q |-> q[i].size]

LEMMA BytesTypes ==
    ASSUME NEW q \in Seq(LogRecords)
    PROVE  /\ IsFiniteSet(1 .. Len(q)) /\ Len(q) \in Nat
           /\ DOMAIN q = 1 .. Len(q)
           /\ \A i \in 1 .. Len(q) : RecordSizes(q)[i] = q[i].size /\ q[i].size \in Nat
           /\ Log!BytesOf(q) = SumFunctionOnSet(RecordSizes(q), 1 .. Len(q))
           /\ Log!BytesOf(q) \in Nat
<1>1. Len(q) \in Nat /\ DOMAIN q = 1 .. Len(q)
  OBVIOUS
<1>2. IsFiniteSet(1 .. Len(q))
  BY <1>1, FS_Interval
<1>3. \A i \in 1 .. Len(q) : RecordSizes(q)[i] = q[i].size /\ q[i].size \in Nat
  <2>1. ASSUME NEW i \in 1 .. Len(q) PROVE q[i] \in LogRecords
    BY <1>1
  <2>2. ASSUME NEW r \in LogRecords PROVE r.size \in Nat
    BY DEF LogRecords
  <2>3. \A i \in 1 .. Len(q) : RecordSizes(q)[i] = q[i].size
    BY <1>1 DEF RecordSizes
  <2>4. QED
    BY <2>1, <2>2, <2>3
<1>4. Log!BytesOf(q) = SumFunctionOnSet(RecordSizes(q), 1 .. Len(q))
  <2>1. Log!BytesOf(q) = Log!SumFunctionOnSet(RecordSizes(q), DOMAIN RecordSizes(q))
    BY DEF Log!BytesOf, Log!SumFunction, RecordSizes
  <2>2. DOMAIN RecordSizes(q) = 1 .. Len(q)
    BY <1>1 DEF RecordSizes
  <2>3. QED
    BY <2>1, <2>2, SumsAgreeInLog
<1>5. \A i \in 1 .. Len(q) : RecordSizes(q)[i] \in Nat
  BY <1>3
<1>6. SumFunctionOnSet(RecordSizes(q), 1 .. Len(q)) \in Nat
  BY <1>2, <1>5, SumType
<1>7. QED
  BY <1>1, <1>2, <1>3, <1>4, <1>6

LEMMA BytesEmpty == Log!BytesOf(<<>>) = 0
<1>1. <<>> \in Seq(LogRecords) /\ 1 .. Len(<<>>) = {}
  OBVIOUS
<1>2. Log!BytesOf(<<>>) = SumFunctionOnSet(RecordSizes(<<>>), {})
  BY <1>1, BytesTypes
<1>3. QED
  BY <1>2, FS_EmptySet, SumUnfolds

LEMMA BytesAppend ==
    ASSUME NEW q \in Seq(LogRecords), NEW r \in LogRecords
    PROVE  Log!BytesOf(Append(q, r)) = Log!BytesOf(q) + r.size
<1> DEFINE t == Append(q, r)
           n == Len(q) + 1
<1>1. /\ t \in Seq(LogRecords) /\ Len(t) = n /\ n \in Nat /\ t[n] = r
      /\ n \in 1 .. n /\ (1 .. n) \ {n} = 1 .. Len(q)
      /\ \A i \in 1 .. Len(q) : t[i] = q[i]
  OBVIOUS
<1> HIDE DEF t, n
<1>2. /\ IsFiniteSet(1 .. n) /\ \A i \in 1 .. n : RecordSizes(t)[i] = t[i].size /\ t[i].size \in Nat
      /\ Log!BytesOf(t) = SumFunctionOnSet(RecordSizes(t), 1 .. n)
  BY <1>1, BytesTypes
<1>3. SumFunctionOnSet(RecordSizes(t), 1 .. n)
        = RecordSizes(t)[n] + SumFunctionOnSet(RecordSizes(t), (1 .. n) \ {n})
  <2> DEFINE S == 1 .. n
             f == RecordSizes(t)
  <2>1. IsFiniteSet(S) /\ (\A i \in S : f[i] \in Nat)
    BY <1>2
  <2>2. n \in S
    BY <1>1
  <2> HIDE DEF S, f
  <2>3. SumFunctionOnSet(f, S) = f[n] + SumFunctionOnSet(f, S \ {n})
    BY <2>1, <2>2, SumTakesOff
  <2>4. QED
    BY <2>3 DEF S, f
<1>4. /\ IsFiniteSet(1 .. Len(q))
      /\ \A i \in 1 .. Len(q) : RecordSizes(q)[i] = q[i].size /\ q[i].size \in Nat
      /\ Log!BytesOf(q) = SumFunctionOnSet(RecordSizes(q), 1 .. Len(q))
      /\ Log!BytesOf(q) \in Nat
  BY BytesTypes
<1>5. \A i \in 1 .. Len(q) : RecordSizes(t)[i] = RecordSizes(q)[i]
  <2>1. \A i \in 1 .. Len(q) : i \in 1 .. n
    BY <1>1
  <2>2. QED
    BY <1>1, <1>2, <1>4, <2>1
<1>6. SumFunctionOnSet(RecordSizes(t), 1 .. Len(q)) = SumFunctionOnSet(RecordSizes(q), 1 .. Len(q))
  BY <1>4, <1>5, SumAgrees
<1>7. RecordSizes(t)[n] = r.size /\ r.size \in Nat
  BY <1>1, <1>2 DEF LogRecords
<1>8. Log!BytesOf(t) = r.size + SumFunctionOnSet(RecordSizes(q), (1 .. n) \ {n})
  <2>1. (1 .. n) \ {n} = 1 .. Len(q)
    BY <1>1
  <2>2. QED
    BY <2>1, <1>2, <1>3, <1>6, <1>7
<1>9. (1 .. n) \ {n} = 1 .. Len(q)
  BY <1>1
<1>10. Log!BytesOf(t) = r.size + Log!BytesOf(q)
  BY <1>4, <1>8, <1>9
<1>11. QED
  BY <1>4, <1>7, <1>10 DEF t

LEMMA BytesTail ==
    ASSUME NEW q \in Seq(LogRecords), q # <<>>
    PROVE  Log!BytesOf(q) = Head(q).size + Log!BytesOf(Tail(q))
<1> DEFINE t == Tail(q)
           n == Len(q)
<1>1. /\ t \in Seq(LogRecords) /\ Len(t) = n - 1 /\ n \in Nat /\ n > 0 /\ Head(q) = q[1]
      /\ \A i \in 1 .. n - 1 : t[i] = q[i + 1]
  OBVIOUS
<1>2. Moved(1 .. n - 1, 1) = (1 .. n) \ {1}
  <2>1. ASSUME NEW x \in (1 .. n) \ {1} PROVE x \in Moved(1 .. n - 1, 1)
    <3>1. x - 1 \in 1 .. n - 1 /\ (x - 1) + 1 = x
      BY <1>1
    <3>2. QED
      BY <3>1 DEF Moved
  <2>2. ASSUME NEW x \in 1 .. n - 1 PROVE x + 1 \in (1 .. n) \ {1}
    BY <1>1
  <2>3. QED
    BY <2>1, <2>2 DEF Moved
<1> HIDE DEF t, n
<1>3. /\ IsFiniteSet(1 .. n) /\ \A i \in 1 .. n : RecordSizes(q)[i] = q[i].size /\ q[i].size \in Nat
      /\ Log!BytesOf(q) = SumFunctionOnSet(RecordSizes(q), 1 .. n)
  BY BytesTypes DEF n
<1>4. SumFunctionOnSet(RecordSizes(q), 1 .. n)
        = RecordSizes(q)[1] + SumFunctionOnSet(RecordSizes(q), (1 .. n) \ {1})
  <2>1. \A i \in 1 .. n : RecordSizes(q)[i] \in Nat
    BY <1>3
  <2>2. 1 \in 1 .. n
    BY <1>1
  <2>3. QED
    BY <1>3, <2>1, <2>2, SumTakesOff
<1>5. /\ IsFiniteSet(1 .. n - 1)
      /\ \A i \in 1 .. n - 1 : RecordSizes(t)[i] = t[i].size /\ t[i].size \in Nat
      /\ Log!BytesOf(t) = SumFunctionOnSet(RecordSizes(t), 1 .. n - 1)
  BY <1>1, BytesTypes
<1>6. \A i \in 1 .. n - 1 : RecordSizes(t)[i] \in Nat /\ RecordSizes(q)[i + 1] = RecordSizes(t)[i]
  <2>1. \A i \in 1 .. n - 1 : i + 1 \in 1 .. n
    BY <1>1
  <2>2. QED
    BY <1>1, <1>3, <1>5, <2>1
<1>7. SumFunctionOnSet(RecordSizes(t), 1 .. n - 1)
        = SumFunctionOnSet(RecordSizes(q), Moved(1 .. n - 1, 1))
  <2> DEFINE S == 1 .. n - 1
             f == RecordSizes(t)
             g == RecordSizes(q)
  <2>1. S \in SUBSET Int /\ 1 \in Int /\ IsFiniteSet(S)
    BY <1>5
  <2>2. \A x \in S : f[x] \in Nat /\ g[x + 1] = f[x]
    BY <1>6
  <2> HIDE DEF S, f, g
  <2>3. SumFunctionOnSet(f, S) = SumFunctionOnSet(g, Moved(S, 1))
    BY <2>1, <2>2, SumMoved
  <2>4. QED
    BY <2>3 DEF S, f, g
<1>8. RecordSizes(q)[1] = q[1].size
  BY <1>1, <1>3
<1>9. QED
  BY <1>1, <1>2, <1>3, <1>4, <1>5, <1>7, <1>8 DEF t

-----------------------------------------------------------------------------
(* The records of a queue.                                                 *)

Numbers(q) == {q[i].seq : i \in 1 .. Len(q)}
Distinct(q) == \A i, j \in 1 .. Len(q) : q[i].seq = q[j].seq => i = j
Kept(q, n) == SubSeq(q, n + 1, Len(q))
Stale(q, n) == {q[i].seq : i \in 1 .. n}

LEMMA QueueDrops ==
    ASSUME NEW q \in Seq(LogRecords), NEW n \in 0 .. Len(q), Distinct(q)
    PROVE  /\ Kept(q, n) \in Seq(LogRecords)
           /\ Len(Kept(q, n)) = Len(q) - n
           /\ Numbers(q) = Numbers(Kept(q, n)) \cup Stale(q, n)
           /\ Distinct(Kept(q, n))
<1> DEFINE k == Kept(q, n)
<1>1. Len(q) \in Nat /\ n \in Nat /\ n <= Len(q)
  OBVIOUS
<1>2. \A i \in 1 .. Len(q) : q[i] \in LogRecords
  OBVIOUS
<1>3. k \in Seq(LogRecords) /\ Len(k) = Len(q) - n /\ \A i \in 1 .. Len(q) - n : k[i] = q[n + i]
  <2>1. k \in Seq(LogRecords) /\ Len(k) = IF n + 1 <= Len(q) THEN Len(q) - (n + 1) + 1 ELSE 0
    BY <1>1, <1>2, SubSeqProperties DEF Kept
  <2>2. Len(k) = Len(q) - n
    BY <1>1, <2>1
  <2>3. \A i \in 1 .. Len(k) : k[i] = q[n + i]
    BY <1>1, <1>2, <2>2, SubSeqProperties, SMTT(60) DEF Kept
  <2>4. QED
    BY <2>1, <2>2, <2>3
<1> HIDE DEF k
<1>4. \A i \in 1 .. Len(q) - n : n + i \in 1 .. Len(q)
  BY <1>1
<1>5. \A i \in 1 .. Len(q) : i \in 1 .. n \/ (i - n \in 1 .. Len(q) - n /\ n + (i - n) = i)
  BY <1>1
<1>6. Numbers(q) = Numbers(k) \cup Stale(q, n)
  <2>1. ASSUME NEW i \in 1 .. Len(q) PROVE q[i].seq \in Numbers(k) \cup Stale(q, n)
    <3>1. CASE i \in 1 .. n
      BY <3>1 DEF Stale
    <3>2. CASE i - n \in 1 .. Len(q) - n /\ n + (i - n) = i
      <4>1. i - n \in 1 .. Len(k) /\ k[i - n] = q[i]
        BY <1>3, <3>2
      <4>2. QED
        BY <4>1 DEF Numbers
    <3>3. QED
      BY <1>5, <3>1, <3>2
  <2>2. ASSUME NEW i \in 1 .. Len(k) PROVE k[i].seq \in Numbers(q)
    BY <1>3, <1>4 DEF Numbers
  <2>3. Stale(q, n) \subseteq Numbers(q)
    <3>1. \A i \in 1 .. n : i \in 1 .. Len(q)
      BY <1>1
    <3>2. QED
      BY <3>1 DEF Stale, Numbers
  <2>4. QED
    BY <2>1, <2>2, <2>3 DEF Numbers
<1>7. Distinct(k)
  <2> SUFFICES ASSUME NEW i \in 1 .. Len(k), NEW j \in 1 .. Len(k), k[i].seq = k[j].seq
               PROVE  i = j
    BY DEF Distinct
  <2>1. n + i \in 1 .. Len(q) /\ n + j \in 1 .. Len(q) /\ k[i] = q[n + i] /\ k[j] = q[n + j]
    BY <1>3, <1>4
  <2>2. n + i = n + j
    BY <2>1 DEF Distinct
  <2>3. i \in Int /\ j \in Int
    OBVIOUS
  <2>4. QED
    BY <1>1, <2>2, <2>3
<1>8. QED
  BY <1>3, <1>6, <1>7 DEF k

LEMMA QueueGains ==
    ASSUME NEW q \in Seq(LogRecords), NEW r \in LogRecords, Distinct(q), r.seq \notin Numbers(q)
    PROVE  /\ Append(q, r) \in Seq(LogRecords)
           /\ Len(Append(q, r)) = Len(q) + 1
           /\ Numbers(Append(q, r)) = Numbers(q) \cup {r.seq}
           /\ Distinct(Append(q, r))
<1> DEFINE t == Append(q, r)
           n == Len(q)
<1>1. /\ t \in Seq(LogRecords) /\ Len(t) = n + 1 /\ n \in Nat /\ t[n + 1] = r
      /\ \A i \in 1 .. n : t[i] = q[i]
  OBVIOUS
<1> HIDE DEF t
<1>2. 1 .. n + 1 = (1 .. n) \cup {n + 1}
  BY <1>1
<1>3. Numbers(t) = Numbers(q) \cup {r.seq}
  BY <1>1, <1>2 DEF Numbers
<1>4. \A i \in 1 .. n : q[i].seq # r.seq
  BY DEF Numbers
<1>5. Distinct(t)
  BY <1>1, <1>2, <1>4 DEF Distinct
<1>6. QED
  BY <1>1, <1>3, <1>5 DEF t

LEMMA QueueTakes ==
    ASSUME NEW q \in Seq(LogRecords), Distinct(q), q # <<>>
    PROVE  /\ Head(q) \in LogRecords /\ Tail(q) \in Seq(LogRecords)
           /\ Len(q) = Len(Tail(q)) + 1 /\ Len(Tail(q)) \in Nat
           /\ Numbers(q) = Numbers(Tail(q)) \cup {Head(q).seq}
           /\ Head(q).seq \notin Numbers(Tail(q))
           /\ Distinct(Tail(q))
<1> DEFINE t == Tail(q)
           n == Len(t)
<1>1. /\ t \in Seq(LogRecords) /\ Len(q) = n + 1 /\ n \in Nat /\ Head(q) = q[1]
      /\ \A i \in 1 .. n : t[i] = q[i + 1]
  OBVIOUS
<1>2. q[1] \in LogRecords
  OBVIOUS
<1> HIDE DEF t, n
<1>3. /\ \A i \in 1 .. n : i + 1 \in 1 .. n + 1 /\ i + 1 # 1
      /\ \A i \in 1 .. n + 1 : i = 1 \/ (i - 1 \in 1 .. n /\ (i - 1) + 1 = i)
      /\ 1 \in 1 .. n + 1
  BY <1>1
<1>4. Numbers(q) = Numbers(t) \cup {q[1].seq}
  <2>1. ASSUME NEW i \in 1 .. n + 1 PROVE q[i].seq \in Numbers(t) \cup {q[1].seq}
    <3>1. CASE i = 1
      BY <3>1
    <3>2. CASE i - 1 \in 1 .. n /\ (i - 1) + 1 = i
      <4>1. t[i - 1] = q[i]
        BY <1>1, <3>2
      <4>2. QED
        BY <3>2, <4>1 DEF Numbers, n
    <3>3. QED
      BY <1>3, <3>1, <3>2
  <2>2. ASSUME NEW i \in 1 .. n PROVE t[i].seq \in Numbers(q)
    BY <1>1, <1>3 DEF Numbers
  <2>3. q[1].seq \in Numbers(q)
    BY <1>1, <1>3 DEF Numbers
  <2>4. QED
    BY <1>1, <2>1, <2>2, <2>3 DEF Numbers, n
<1>5. q[1].seq \notin Numbers(t)
  <2>1. ASSUME NEW i \in 1 .. n PROVE t[i].seq # q[1].seq
    BY <1>1, <1>3 DEF Distinct
  <2>2. QED
    BY <2>1 DEF Numbers, n
<1>6. Distinct(t)
  <2> SUFFICES ASSUME NEW i \in 1 .. n, NEW j \in 1 .. n, t[i].seq = t[j].seq
               PROVE  i = j
    BY DEF Distinct, n
  <2>1. i + 1 \in 1 .. n + 1 /\ j + 1 \in 1 .. n + 1 /\ t[i] = q[i + 1] /\ t[j] = q[j + 1]
    BY <1>1, <1>3
  <2>2. i + 1 = j + 1
    BY <1>1, <2>1 DEF Distinct
  <2>3. i \in Int /\ j \in Int
    OBVIOUS
  <2>4. QED
    BY <2>2, <2>3
<1>7. QED
  BY <1>1, <1>2, <1>4, <1>5, <1>6 DEF t, n

\* How many records make room.
LEMMA StaleIs ==
    ASSUME records \in Seq(LogRecords), NEW size \in Nat, QueueLimit \in Nat
    PROVE  /\ Log!StaleFor(size) \in 0 .. Len(records)
           /\ \/ Log!BytesOf(Kept(records, Log!StaleFor(size))) + size <= QueueLimit
              \/ Log!StaleFor(size) = Len(records)
<1> DEFINE B(n) == Log!BytesOf(SubSeq(records, n + 1, Len(records)))
           L == Len(records)
           S == {n \in 0 .. L : B(n) + size <= QueueLimit \/ n = L}
<1>1. L \in Nat
  OBVIOUS
<1>2. \A n \in 0 .. L : B(n) \in Nat
  <2> SUFFICES ASSUME NEW n \in 0 .. L PROVE B(n) \in Nat
    OBVIOUS
  <2>1. n + 1 \in 1 .. L + 1 /\ \A i \in 1 .. L : records[i] \in LogRecords
    BY <1>1
  <2>2. SubSeq(records, n + 1, L) \in Seq(LogRecords)
    BY <1>1, <2>1, SubSeqProperties
  <2>3. QED
    BY <2>2, BytesTypes
<1> HIDE DEF B
<1>3. S \subseteq 0 .. L /\ L \in S /\ IsFiniteSet(S)
  <2>1. IsFiniteSet(0 .. L)
    BY <1>1, FS_Interval
  <2>2. S \subseteq 0 .. L /\ L \in S
    BY <1>1
  <2>3. QED
    BY <2>1, <2>2, FS_Subset
<1>4. PICK x \in S : \A y \in S : x <= y
  <2>1. S \in SUBSET Int /\ S # {}
    BY <1>3
  <2>2. QED
    BY <1>3, <2>1, SmallestExists
<1>5. \A m \in 0 .. x - 1 : B(m) + size > QueueLimit
  <2> SUFFICES ASSUME NEW m \in 0 .. x - 1 PROVE B(m) + size > QueueLimit
    OBVIOUS
  <2>1. x \in Nat /\ x <= L
    BY <1>1, <1>3
  <2>2. m \in 0 .. L /\ m \in Int /\ ~(x <= m)
    BY <1>1, <2>1
  <2>3. m \notin S
    BY <1>4, <2>2
  <2>4. ~(B(m) + size <= QueueLimit) /\ B(m) \in Nat
    BY <1>2, <2>2, <2>3
  <2>5. QED
    BY <2>4
<1>6. /\ x \in 0 .. L /\ (B(x) + size <= QueueLimit \/ x = L)
      /\ \A m \in 0 .. x - 1 : B(m) + size > QueueLimit
  BY <1>4, <1>5
<1> DEFINE n == Log!StaleFor(size)
<1>7. n \in 0 .. L /\ (B(n) + size <= QueueLimit \/ n = L)
  <2>1. n = CHOOSE z \in 0 .. L : /\ B(z) + size <= QueueLimit \/ z = L
                                  /\ \A m \in 0 .. z - 1 : B(m) + size > QueueLimit
    BY DEF Log!StaleFor, B
  <2> HIDE DEF n, L
  <2>2. QED
    BY <1>6, <2>1
<1>8. QED
  BY <1>7 DEF B, Kept

-----------------------------------------------------------------------------
(* The invariant of the log.  A record formatted is in one place: carried  *)
(* by a producer, worked on by the writer, queued, written or lost, or it  *)
(* was discarded.  Producers and the writer move it between the places one *)
(* at a time, and the count of what is in each changes with it.            *)

Records == LogRecords \cup {Log!NoRecord}
Carried(f) == {p \in Producers : f[p] # Log!NoRecord}
NumbersOf(f) == {f[p].seq : p \in Carried(f)}
DistinctOf(f) == \A p, q \in Carried(f) : f[p].seq = f[q].seq => p = q
Working == {current.seq} \ {0}
Gone == past.written \cup past.lost
Apart(F, W, Q, G) ==
    F \cap W = {} /\ F \cap Q = {} /\ F \cap G = {} /\ W \cap Q = {} /\ W \cap G = {} /\ Q \cap G = {}

Throttle == [kept : BOOLEAN, calls : Nat, recent : BOOLEAN]
Throttles == [ThrottleKeys -> Throttle]
CallCounts == [ThrottleKeys -> Nat]
Pasts == [calls : CallCounts, reported : CallCounts, missed : CallCounts,
          written : SUBSET Nat, discarded : SUBSET Nat, lost : SUBSET Nat]
LogTypes ==
    /\ sequence \in Nat \ {0} /\ dropped \in Nat
    /\ records \in Seq(LogRecords)
    /\ formatted \in [Producers -> Records]
    /\ owed \in [Producers -> Nat]
    /\ current \in Records
    /\ file \in Seq(Nat) /\ fileBytes \in Nat
    /\ throttle \in Throttles
    /\ past \in Pasts
\* A record on its way fits in the queue, and its producer owes nothing.
LogHands ==
    /\ \A p \in Carried(formatted) : formatted[p].size <= QueueLimit /\ owed[p] = 0
    /\ (current # Log!NoRecord) <=> (writer = "writing")
LogBytes == pendingBytes = Log!BytesOf(records) /\ pendingBytes <= QueueLimit
LogFile == (fileBytes = 0 => file = <<>>) /\ (fileBytes <= FileLimit \/ Len(file) = 1)
KeysKept(t) == {k \in ThrottleKeys : t[k].kept}
LogCalls ==
    /\ \A k \in ThrottleKeys : past.calls[k] = past.reported[k] + throttle[k].calls + past.missed[k]
    /\ Cardinality(KeysKept(throttle)) <= KeyLimit
\* No number is in two of the places a record can still leave or has arrived at.
LogApart ==
    /\ DistinctOf(formatted) /\ Distinct(records)
    /\ Apart(NumbersOf(formatted), Working, Numbers(records), Gone)
LogPlaces ==
    1 .. sequence - 1 =
       NumbersOf(formatted) \cup Working \cup Numbers(records) \cup Gone \cup past.discarded
LogCounted ==
    Cardinality(NumbersOf(formatted) \cup Working) + Len(records) + Cardinality(past.written)
      + Cardinality(past.lost) + dropped + SumFunction(owed) = sequence - 1
LogInv == LogTypes /\ LogHands /\ LogBytes /\ LogFile /\ LogCalls /\ LogApart /\ LogPlaces /\ LogCounted

LogAssumption ==
    /\ IsFiniteSet(Producers) /\ Sizes \subseteq Nat \ {0}
    /\ QueueLimit \in Nat /\ RecordLimit \in Nat /\ FileLimit \in Nat
    /\ 2 <= QueueLimit /\ RecordLimit <= QueueLimit
    /\ IsFiniteSet(ThrottleKeys) /\ KeyLimit \in Nat

LEMMA NoRecordIs ==
    /\ Log!NoRecord = [seq |-> 0, size |-> 0, from |-> 0]
    /\ Log!NoRecord.seq = 0
    /\ \A r \in LogRecords : r # Log!NoRecord /\ r.seq \in Nat \ {0} /\ r.size \in Nat \ {0}
BY DEF Log!NoRecord, LogRecords

\* A record taken up, and one given away.
LEMMA NumbersTakenUp ==
    ASSUME NEW f \in [Producers -> Records], NEW p \in Producers, NEW r \in LogRecords,
           p \notin Carried(f), DistinctOf(f), r.seq \notin NumbersOf(f)
    PROVE  /\ NumbersOf([f EXCEPT ![p] = r]) = NumbersOf(f) \cup {r.seq}
           /\ DistinctOf([f EXCEPT ![p] = r])
<1> DEFINE g == [f EXCEPT ![p] = r]
<1>1. r # Log!NoRecord
  BY NoRecordIs
<1>2. g \in [Producers -> Records] /\ g[p] = r /\ \A q \in Producers : q # p => g[q] = f[q]
  BY DEF Records
<1> HIDE DEF g
<1>3. Carried(g) = Carried(f) \cup {p} /\ p \notin Carried(f)
  BY <1>1, <1>2 DEF Carried
<1>4. \A q \in Carried(f) : g[q] = f[q]
  BY <1>2, <1>3 DEF Carried
<1>5. NumbersOf(g) = NumbersOf(f) \cup {r.seq}
  BY <1>2, <1>3, <1>4 DEF NumbersOf
<1>6. \A q \in Carried(f) : f[q].seq # r.seq
  BY DEF NumbersOf
<1>7. DistinctOf(g)
  BY <1>2, <1>3, <1>4, <1>6 DEF DistinctOf
<1>8. QED
  BY <1>3, <1>5, <1>7 DEF g

LEMMA NumbersGivenUp ==
    ASSUME NEW f \in [Producers -> Records], NEW p \in Producers, f[p] # Log!NoRecord, DistinctOf(f)
    PROVE  LET g == [f EXCEPT ![p] = Log!NoRecord]
           IN /\ g \in [Producers -> Records]
              /\ Carried(g) = Carried(f) \ {p}
              /\ f[p] \in LogRecords
              /\ f[p].seq \in NumbersOf(f)
              /\ NumbersOf(g) = NumbersOf(f) \ {f[p].seq}
              /\ DistinctOf(g)
<1> DEFINE g == [f EXCEPT ![p] = Log!NoRecord]
<1>2. /\ g \in [Producers -> Records] /\ g[p] = Log!NoRecord
      /\ \A q \in Producers : q # p => g[q] = f[q]
      /\ f[p] \in LogRecords
  BY DEF Records
<1> HIDE DEF g
<1>3. Carried(g) = Carried(f) \ {p} /\ p \in Carried(f)
  BY <1>2 DEF Carried
<1>4. \A q \in Carried(g) : g[q] = f[q]
  BY <1>2, <1>3 DEF Carried
<1>5. \A q \in Carried(f) : q # p => f[q].seq # f[p].seq
  BY <1>3 DEF DistinctOf
<1>6. NumbersOf(g) = NumbersOf(f) \ {f[p].seq}
  BY <1>3, <1>4, <1>5 DEF NumbersOf
<1>7. DistinctOf(g)
  BY <1>3, <1>4 DEF DistinctOf
<1>8. f[p].seq \in NumbersOf(f)
  BY <1>3 DEF NumbersOf
<1>9. QED
  BY <1>2, <1>3, <1>6, <1>7, <1>8 DEF g

\* What the invariant counts is finite.
LEMMA LogFinite ==
    ASSUME LogInv
    PROVE  /\ IsFiniteSet(NumbersOf(formatted) \cup Working)
           /\ IsFiniteSet(past.written) /\ IsFiniteSet(past.lost)
           /\ Cardinality(NumbersOf(formatted) \cup Working) \in Nat
           /\ Cardinality(past.written) \in Nat /\ Cardinality(past.lost) \in Nat
           /\ Len(records) \in Nat
<1>1. IsFiniteSet(1 .. sequence - 1)
  BY FS_Interval DEF LogInv, LogTypes
<1>2. /\ (NumbersOf(formatted) \cup Working) \subseteq 1 .. sequence - 1
      /\ past.written \subseteq 1 .. sequence - 1 /\ past.lost \subseteq 1 .. sequence - 1
  BY DEF LogInv, LogPlaces, Gone
<1>3. /\ IsFiniteSet(NumbersOf(formatted) \cup Working)
      /\ IsFiniteSet(past.written) /\ IsFiniteSet(past.lost)
  BY <1>1, <1>2, FS_Subset
<1>4. Len(records) \in Nat
  BY DEF LogInv, LogTypes
<1>5. QED
  BY <1>3, <1>4, FS_CardinalityType

LEMMA LogStarts ==
    ASSUME LogAssumption, Log!Init
    PROVE  LogInv
<1> USE NoRecordIs
<1> DEFINE r == [seq |-> 1, size |-> 1, from |-> 0]
<1>1. r \in LogRecords /\ r.seq = 1 /\ r.size = 1
  BY DEF LogRecords
<1> HIDE DEF r
<1>2. /\ records = Append(<<>>, r) /\ records \in Seq(LogRecords) /\ Len(records) = 1
      /\ records[1] = r
  BY <1>1 DEF Log!Init, r
<1>3. LogTypes
  <2>1. throttle \in Throttles /\ past \in Pasts
    BY DEF Log!Init, Log!NoCalls, Throttles, Throttle, Pasts, CallCounts
  <2>2. QED
    BY <1>2, <2>1 DEF LogTypes, Log!Init, Records
<1>4. Carried(formatted) = {} /\ NumbersOf(formatted) = {} /\ Working = {} /\ Gone = {}
  BY DEF Log!Init, Carried, NumbersOf, Working, Gone
<1>5. LogHands /\ LogFile /\ LogCalls
  <2>1. LogHands
    BY <1>4 DEF LogHands, Log!Init
  <2>2. LogFile
    BY DEF LogFile, Log!Init, LogAssumption
  <2>3. LogCalls
    <3>1. KeysKept(throttle) = {}
      BY DEF Log!Init, KeysKept
    <3>2. Cardinality(KeysKept(throttle)) <= KeyLimit
      BY <3>1, FS_EmptySet DEF LogAssumption
    <3>3. QED
      BY <3>2 DEF LogCalls, Log!Init, Log!NoCalls
  <2>4. QED
    BY <2>1, <2>2, <2>3
<1>6. LogBytes
  <2>1. <<>> \in Seq(LogRecords)
    OBVIOUS
  <2>2. Log!BytesOf(records) = Log!BytesOf(<<>>) + r.size
    BY <1>1, <1>2, <2>1, BytesAppend
  <2>3. pendingBytes = 1 /\ 1 <= QueueLimit
    BY DEF Log!Init, LogAssumption
  <2>4. QED
    BY <1>1, <2>2, <2>3, BytesEmpty DEF LogBytes
<1>7. Numbers(records) = {1} /\ Distinct(records)
  <2>1. 1 .. Len(records) = {1}
    BY <1>2
  <2>2. QED
    BY <1>1, <1>2, <2>1 DEF Numbers, Distinct
<1>8. LogApart
  BY <1>4, <1>7 DEF LogApart, Apart, DistinctOf
<1>9. LogPlaces
  BY <1>4, <1>7 DEF LogPlaces, Log!Init
<1>10. LogCounted
  <2>1. Cardinality({}) = 0
    BY FS_EmptySet
  <2>2. SumFunction(owed) = 0
    <3>1. \A p \in Producers : owed[p] \in 0 .. 0
      BY DEF Log!Init
    <3>2. DOMAIN owed = Producers
      BY DEF Log!Init
    <3>3. SumFunction(owed) = SumFunctionOnSet(owed, Producers)
      BY <3>2 DEF SumFunction
    <3>4. SumFunctionOnSet(owed, Producers) <= 0 * Cardinality(Producers)
      BY <3>1, SumBounded DEF LogAssumption
    <3>5. SumFunctionOnSet(owed, Producers) \in Nat
      BY <3>1, SumType DEF LogAssumption
    <3>6. Cardinality(Producers) \in Nat
      BY FS_CardinalityType DEF LogAssumption
    <3>7. QED
      BY <3>3, <3>4, <3>5, <3>6
  <2>3. past.written = {} /\ past.lost = {} /\ dropped = 0 /\ sequence = 2
    BY DEF Log!Init
  <2>4. QED
    BY <1>2, <1>4, <2>1, <2>2, <2>3 DEF LogCounted
<1>11. QED
  BY <1>3, <1>5, <1>6, <1>8, <1>9, <1>10 DEF LogInv

LEMMA LogFormats ==
    ASSUME LogAssumption, LogInv, NEW p \in Producers, NEW size \in Sizes, Log!Format(p, size),
           UNCHANGED <<records, pendingBytes, writer, current, file, fileBytes, owed, dropped>>,
           throttle' \in Throttles, LogCalls',
           past' \in Pasts, past'.written = past.written, past'.lost = past.lost,
           past'.discarded = past.discarded
    PROVE  LogInv'
<1> DEFINE r == [seq |-> sequence, size |-> Log!Bounded(size), from |-> p]
<1>1. /\ formatted[p] = Log!NoRecord /\ owed[p] = 0
      /\ sequence' = sequence + 1 /\ formatted' = [formatted EXCEPT ![p] = r]
  BY DEF Log!Format, Log!Idle
<1>2. Log!Bounded(size) \in Nat \ {0} /\ Log!Bounded(size) <= QueueLimit /\ sequence \in Nat \ {0}
  BY DEF Log!Bounded, LogAssumption, LogInv, LogTypes
<1>3. r \in LogRecords /\ r.seq = sequence /\ r.size <= QueueLimit
  BY <1>2 DEF LogRecords
<1> HIDE DEF r
<1>4. /\ past' \in Pasts
      /\ past'.written = past.written /\ past'.lost = past.lost
      /\ past'.discarded = past.discarded
  OBVIOUS
<1>5. Gone' = Gone /\ Working' = Working
  BY <1>4 DEF Gone, Working
<1>6. 1 .. sequence - 1 = NumbersOf(formatted) \cup Working \cup Numbers(records) \cup Gone \cup past.discarded
  BY DEF LogInv, LogPlaces
<1>7. sequence \notin 1 .. sequence - 1 /\ 1 .. sequence' - 1 = (1 .. sequence - 1) \cup {sequence}
  BY <1>1, <1>2
<1>8. /\ sequence \notin NumbersOf(formatted) /\ sequence \notin Working
      /\ sequence \notin Numbers(records) /\ sequence \notin Gone
  BY <1>6, <1>7
<1>9. /\ formatted' \in [Producers -> Records] /\ Carried(formatted') = Carried(formatted) \cup {p}
      /\ NumbersOf(formatted') = NumbersOf(formatted) \cup {sequence} /\ DistinctOf(formatted')
  <2>1. formatted \in [Producers -> Records] /\ DistinctOf(formatted)
    BY DEF LogInv, LogTypes, LogApart
  <2>2. r.seq \notin NumbersOf(formatted) /\ formatted[p] = Log!NoRecord
    BY <1>1, <1>3, <1>8
  <2>3. p \notin Carried(formatted)
    BY <2>2 DEF Carried
  <2>4. formatted' \in [Producers -> Records]
    BY <1>1, <1>3, <2>1 DEF Records
  <2>5. NumbersOf(formatted') = NumbersOf(formatted) \cup {r.seq} /\ DistinctOf(formatted')
    <3>1. /\ NumbersOf([formatted EXCEPT ![p] = r]) = NumbersOf(formatted) \cup {r.seq}
          /\ DistinctOf([formatted EXCEPT ![p] = r])
      BY <1>3, <2>1, <2>2, <2>3, NumbersTakenUp
    <3>2. QED
      BY <1>1, <3>1
  <2>6. Carried(formatted') = Carried(formatted) \cup {p}
    <3>1. r # Log!NoRecord
      BY <1>3, NoRecordIs
    <3>2. \A q \in Producers : formatted'[q] = IF q = p THEN r ELSE formatted[q]
      BY <1>1, <2>1
    <3>3. QED
      BY <3>1, <3>2 DEF Carried
  <2>7. QED
    BY <1>3, <2>4, <2>5, <2>6
<1>10. LogTypes'
  BY <1>1, <1>2, <1>4, <1>9 DEF LogInv, LogTypes
<1>11. LogHands'
  <2>1. formatted'[p] = r /\ \A q \in Producers : q # p => formatted'[q] = formatted[q]
    BY <1>1 DEF LogInv, LogTypes
  <2>2. \A q \in Carried(formatted') : formatted'[q].size <= QueueLimit /\ owed'[q] = 0
    <3> SUFFICES ASSUME NEW q \in Carried(formatted')
                 PROVE  formatted'[q].size <= QueueLimit /\ owed[q] = 0
      OBVIOUS
    <3>1. CASE q = p
      BY <1>1, <1>3, <2>1, <3>1
    <3>2. CASE q # p
      <4>1. q \in Carried(formatted) /\ q \in Producers
        BY <1>9, <3>2 DEF Carried
      <4>2. QED
        BY <2>1, <3>2, <4>1 DEF LogInv, LogHands
    <3>3. QED
      BY <3>1, <3>2
  <2>3. QED
    BY <2>2 DEF LogInv, LogHands
<1>12. LogBytes' /\ LogFile'
  BY DEF LogInv, LogBytes, LogFile, Log!BytesOf
<1>13. LogApart'
  BY <1>5, <1>8, <1>9 DEF LogInv, LogApart, Apart
<1>14. LogPlaces'
  BY <1>4, <1>5, <1>6, <1>7, <1>9 DEF LogPlaces
<1>15. LogCounted'
  <2> DEFINE c == Cardinality(NumbersOf(formatted) \cup Working)
             r0 == Len(records)
             w == Cardinality(past.written)
             t == Cardinality(past.lost)
             o == SumFunction(owed)
             c1 == Cardinality(NumbersOf(formatted') \cup Working')
             r1 == Len(records')
             w1 == Cardinality(past'.written)
             t1 == Cardinality(past'.lost)
             o1 == SumFunction(owed')
  <2>1. NumbersOf(formatted') \cup Working' = (NumbersOf(formatted) \cup Working) \cup {sequence}
    BY <1>5, <1>9
  <2>2. Cardinality(NumbersOf(formatted') \cup Working') = Cardinality(NumbersOf(formatted) \cup Working) + 1
    BY <1>8, <2>1, LogFinite, FS_AddElement
  <2>3. SumFunction(owed) \in Nat
    BY TotalChanged, <1>1 DEF LogInv, LogTypes, LogAssumption
  <2>21. c \in Nat /\ r0 \in Nat /\ w \in Nat /\ t \in Nat /\ o \in Nat
    BY <2>3, LogFinite
  <2>22. dropped \in Nat /\ sequence \in Nat /\ c + r0 + w + t + dropped + o = sequence - 1
    BY DEF LogInv, LogTypes, LogCounted
  <2>23. /\ c1 = c + 1 /\ r1 = r0 /\ w1 = w /\ t1 = t /\ o1 = o
         /\ dropped' = dropped /\ sequence' = sequence + 1
    BY <1>1, <1>4, <2>2, LogFinite
  <2> HIDE DEF c, r0, w, t, o, c1, r1, w1, t1, o1
  <2>24. ASSUME NEW x \in Nat, NEW y \in Nat, NEW z \in Nat, NEW u \in Nat, NEW v \in Nat, NEW i \in Nat,
                NEW n \in Nat, x + y + z + u + v + i = n - 1
         PROVE  (x + 1) + y + z + u + v + i = (n + 1) - 1
    BY ONLY <2>24
  <2>25. (c + 1) + r0 + w + t + dropped + o = (sequence + 1) - 1
    BY <2>21, <2>22, <2>24
  <2>26. c1 + r1 + w1 + t1 + dropped' + o1 = sequence' - 1
    BY ONLY <2>23, <2>25
  <2>27. QED
    BY <2>26 DEF LogCounted, c1, r1, w1, t1, o1
<1>16. QED
  BY <1>10, <1>11, <1>12, <1>13, <1>14, <1>15 DEF LogInv

\* A record given up by its producer, which owes a drop for it or for others.
LEMMA LogGivenUp ==
    ASSUME LogAssumption, LogInv, NEW p \in Producers, formatted[p] # Log!NoRecord,
           formatted' = [formatted EXCEPT ![p] = Log!NoRecord], UNCHANGED current
    PROVE  LET s == formatted[p].seq IN
           /\ s \in 1 .. sequence - 1 /\ s \notin Numbers(records) /\ s \notin Gone
           /\ s \notin Working /\ Working' = Working
           /\ formatted' \in [Producers -> Records]
           /\ NumbersOf(formatted') = NumbersOf(formatted) \ {s}
           /\ s \in NumbersOf(formatted)
           /\ DistinctOf(formatted')
           /\ formatted[p] \in LogRecords /\ formatted[p].size <= QueueLimit
           /\ Carried(formatted') = Carried(formatted) \ {p}
           /\ \A q \in Carried(formatted') : formatted'[q].size <= QueueLimit /\ q # p /\ owed[q] = 0
           /\ Cardinality(NumbersOf(formatted') \cup Working')
                = Cardinality(NumbersOf(formatted) \cup Working) - 1
<1> DEFINE s == formatted[p].seq
<1>1. formatted \in [Producers -> Records] /\ DistinctOf(formatted)
  BY DEF LogInv, LogTypes, LogApart
<1>2. /\ formatted' \in [Producers -> Records] /\ Carried(formatted') = Carried(formatted) \ {p}
      /\ formatted[p] \in LogRecords /\ s \in NumbersOf(formatted)
      /\ NumbersOf(formatted') = NumbersOf(formatted) \ {s} /\ DistinctOf(formatted')
  BY <1>1, NumbersGivenUp
<1> HIDE DEF s
<1>3. /\ s \in 1 .. sequence - 1 /\ s \notin Numbers(records) /\ s \notin Gone /\ s \notin Working
  BY <1>2 DEF LogInv, LogApart, LogPlaces, Apart
<1>4. Working' = Working
  BY DEF Working
<1>5. formatted[p].size <= QueueLimit
  BY DEF LogInv, LogHands, Carried
<1>6. ASSUME NEW q \in Carried(formatted')
      PROVE  formatted'[q].size <= QueueLimit /\ q # p /\ owed[q] = 0
  <2>1. q # p /\ q \in Carried(formatted) /\ formatted'[q] = formatted[q]
    BY <1>1, <1>2 DEF Carried
  <2>2. QED
    BY <2>1 DEF LogInv, LogHands
<1>7. Cardinality(NumbersOf(formatted') \cup Working')
        = Cardinality(NumbersOf(formatted) \cup Working) - 1
  <2>1. /\ NumbersOf(formatted') \cup Working' = (NumbersOf(formatted) \cup Working) \ {s}
        /\ s \in NumbersOf(formatted) \cup Working
    BY <1>2, <1>3, <1>4
  <2>2. QED
    BY <2>1, LogFinite, FS_RemoveElement
<1>8. QED
  BY <1>2, <1>3, <1>4, <1>5, <1>6, <1>7 DEF s

\* What a producer owes changes from nothing.
LEMMA OwedGrows ==
    ASSUME LogAssumption, LogInv, NEW p \in Producers, owed[p] = 0, NEW n \in Nat,
           owed' = [owed EXCEPT ![p] = n]
    PROVE  /\ owed' \in [Producers -> Nat] /\ SumFunction(owed) \in Nat
           /\ SumFunction(owed') = SumFunction(owed) + n
           /\ \A q \in Producers : q # p => owed'[q] = owed[q]
<1>1. owed \in [Producers -> Nat] /\ IsFiniteSet(Producers)
  BY DEF LogInv, LogTypes, LogAssumption
<1>2. SumFunction(owed) \in Nat /\ SumFunction(owed') \in Nat /\ SumFunction(owed') + owed[p] = SumFunction(owed) + n
  <2> DEFINE f == owed
             g == [f EXCEPT ![p] = n]
  <2>1. f \in [Producers -> Nat] /\ IsFiniteSet(Producers)
    BY <1>1
  <2> HIDE DEF f
  <2>2. SumFunction(f) \in Nat /\ SumFunction(g) \in Nat /\ SumFunction(g) + f[p] = SumFunction(f) + n
    BY <2>1, TotalChanged
  <2>3. QED
    BY <2>2 DEF f
<1>3. SumFunction(owed') = SumFunction(owed) + n
  <2> DEFINE X == SumFunction(owed)
             Y == SumFunction(owed')
  <2>1. X \in Nat /\ Y \in Nat /\ Y + 0 = X + n
    BY <1>2
  <2> HIDE DEF X, Y
  <2>2. Y = X + n
    BY <2>1
  <2>3. QED
    BY <2>2 DEF X, Y
<1>4. QED
  BY <1>1, <1>2, <1>3

LEMMA LogRejects ==
    ASSUME LogAssumption, LogInv, NEW p \in Producers, formatted[p] # Log!NoRecord,
           formatted' = [formatted EXCEPT ![p] = Log!NoRecord], Log!Reject(p),
           UNCHANGED <<writer, current, file, fileBytes, sequence, dropped, throttle>>
    PROVE  LogInv'
<1> DEFINE s == formatted[p].seq
<1>1. /\ owed' = [owed EXCEPT ![p] = 1] /\ past' = [past EXCEPT !.discarded = @ \cup {s}]
      /\ records' = records /\ pendingBytes' = pendingBytes
  BY DEF Log!Reject, Log!queue
<1>2. owed[p] = 0
  BY DEF LogInv, LogHands, Carried
<1>3. /\ owed' \in [Producers -> Nat] /\ SumFunction(owed) \in Nat
      /\ SumFunction(owed') = SumFunction(owed) + 1 /\ \A q \in Producers : q # p => owed'[q] = owed[q]
  BY <1>1, <1>2, OwedGrows
<1>4. /\ s \in 1 .. sequence - 1 /\ s \notin Numbers(records) /\ s \notin Gone
      /\ Working' = Working /\ formatted' \in [Producers -> Records]
      /\ NumbersOf(formatted') = NumbersOf(formatted) \ {s} /\ s \in NumbersOf(formatted)
      /\ DistinctOf(formatted')
      /\ \A q \in Carried(formatted') : formatted'[q].size <= QueueLimit /\ q # p /\ owed[q] = 0
      /\ Cardinality(NumbersOf(formatted') \cup Working')
           = Cardinality(NumbersOf(formatted) \cup Working) - 1
  BY LogGivenUp
<1>5. sequence \in Nat \ {0} /\ s \in Nat
  <2>1. sequence \in Nat \ {0}
    BY DEF LogInv, LogTypes
  <2>2. QED
    BY <1>4, <2>1
<1> HIDE DEF s
<1>6. /\ past' \in Pasts
      /\ past'.written = past.written /\ past'.lost = past.lost /\ past'.calls = past.calls /\ past'.missed = past.missed
      /\ past'.reported = past.reported /\ past'.discarded = past.discarded \cup {s} /\ Gone' = Gone
  BY <1>1, <1>5 DEF LogInv, LogTypes, Pasts, Gone
<1>7. LogTypes'
  BY <1>1, <1>3, <1>4, <1>6 DEF LogInv, LogTypes
<1>8. LogHands'
  <2>1. \A q \in Carried(formatted') : formatted'[q].size <= QueueLimit /\ owed'[q] = 0
    BY <1>3, <1>4 DEF Carried
  <2>2. QED
    BY <2>1 DEF LogInv, LogHands
<1>9. LogBytes' /\ LogFile' /\ LogCalls'
  BY <1>1, <1>6 DEF LogInv, LogBytes, LogFile, LogCalls, Log!BytesOf
<1>10. LogApart'
  BY <1>1, <1>4, <1>6 DEF LogInv, LogApart, Apart
<1>11. LogPlaces'
  BY <1>1, <1>4, <1>6 DEF LogInv, LogPlaces
<1>12. LogCounted'
  <2> DEFINE c == Cardinality(NumbersOf(formatted) \cup Working)
             r0 == Len(records)
             w == Cardinality(past.written)
             t == Cardinality(past.lost)
             o == SumFunction(owed)
             c1 == Cardinality(NumbersOf(formatted') \cup Working')
             r1 == Len(records')
             w1 == Cardinality(past'.written)
             t1 == Cardinality(past'.lost)
             o1 == SumFunction(owed')
  <2>21. c \in Nat /\ r0 \in Nat /\ w \in Nat /\ t \in Nat /\ o \in Nat
    BY <1>3, LogFinite
  <2>22. dropped \in Nat /\ sequence \in Nat /\ c + r0 + w + t + dropped + o = sequence - 1
    BY DEF LogInv, LogTypes, LogCounted
  <2>23. /\ c1 = c - 1 /\ r1 = r0 /\ w1 = w /\ t1 = t /\ o1 = o + 1
         /\ dropped' = dropped /\ sequence' = sequence
    BY <1>1, <1>3, <1>4, <1>6, LogFinite
  <2> HIDE DEF c, r0, w, t, o, c1, r1, w1, t1, o1
  <2>24. c1 + r1 + w1 + t1 + dropped' + o1 = sequence' - 1
    BY <2>21, <2>22, <2>23
  <2>25. QED
    BY <2>24 DEF LogCounted, c1, r1, w1, t1, o1
<1>13. QED
  BY <1>7, <1>8, <1>9, <1>10, <1>11, <1>12 DEF LogInv

LEMMA LogAccepts ==
    ASSUME LogAssumption, LogInv, NEW p \in Producers, formatted[p] # Log!NoRecord,
           formatted' = [formatted EXCEPT ![p] = Log!NoRecord], Log!Accept(p),
           UNCHANGED <<writer, current, file, fileBytes, sequence, dropped, throttle>>
    PROVE  LogInv'
<1> DEFINE r == formatted[p]
           s == formatted[p].seq
           n == Log!StaleFor(r.size)
           k == Kept(records, n)
<1>1. /\ records' = Append(k, r) /\ pendingBytes' = Log!BytesOf(k) + r.size
      /\ owed' = [owed EXCEPT ![p] = n]
      /\ past' = [past EXCEPT !.discarded = @ \cup Stale(records, n)]
  BY DEF Log!Accept, Kept, Stale
<1>2. owed[p] = 0
  BY DEF LogInv, LogHands, Carried
<1>3. /\ s \in 1 .. sequence - 1 /\ s \notin Numbers(records) /\ s \notin Gone /\ s \notin Working
      /\ Working' = Working /\ formatted' \in [Producers -> Records]
      /\ NumbersOf(formatted') = NumbersOf(formatted) \ {s} /\ s \in NumbersOf(formatted)
      /\ DistinctOf(formatted') /\ r \in LogRecords /\ r.size <= QueueLimit
      /\ \A q \in Carried(formatted') : formatted'[q].size <= QueueLimit /\ q # p /\ owed[q] = 0
      /\ Cardinality(NumbersOf(formatted') \cup Working')
           = Cardinality(NumbersOf(formatted) \cup Working) - 1
  BY LogGivenUp
<1>4. r.size \in Nat
  BY <1>3, NoRecordIs
<1>5. records \in Seq(LogRecords) /\ Distinct(records) /\ QueueLimit \in Nat
  BY DEF LogInv, LogTypes, LogApart, LogAssumption
<1>6. /\ n \in 0 .. Len(records)
      /\ Log!BytesOf(k) + r.size <= QueueLimit \/ n = Len(records)
  BY <1>4, <1>5, StaleIs
<1> HIDE DEF n
<1>7. n \in Nat /\ Len(records) \in Nat
  BY <1>5, <1>6
<1>8. /\ k \in Seq(LogRecords) /\ Len(k) = Len(records) - n
      /\ Numbers(records) = Numbers(k) \cup Stale(records, n) /\ Distinct(k)
  BY <1>5, <1>6, QueueDrops
<1> HIDE DEF k
<1>9. s \notin Numbers(k) /\ s = r.seq
  BY <1>3, <1>8
<1> HIDE DEF s
<1>10. /\ records' \in Seq(LogRecords) /\ Len(records') = Len(k) + 1
       /\ Numbers(records') = Numbers(k) \cup {s} /\ Distinct(records')
  BY <1>1, <1>3, <1>8, <1>9, QueueGains
<1>11. Log!BytesOf(records') = Log!BytesOf(k) + r.size
  BY <1>1, <1>3, <1>8, BytesAppend
<1>12. Log!BytesOf(k) + r.size <= QueueLimit
  <2>1. CASE n = Len(records)
    <3>1. Len(k) = 0
      BY <1>7, <1>8, <2>1
    <3>2. k = <<>>
      BY <1>8, <3>1
    <3>3. QED
      BY <1>3, <1>4, <3>2, BytesEmpty
  <2>2. QED
    BY <1>6, <2>1
<1>13. /\ owed' \in [Producers -> Nat] /\ SumFunction(owed) \in Nat
       /\ SumFunction(owed') = SumFunction(owed) + n /\ \A q \in Producers : q # p => owed'[q] = owed[q]
  BY <1>1, <1>2, <1>7, OwedGrows
<1>14. Stale(records, n) \subseteq Numbers(records) /\ Numbers(records) \subseteq Nat
  <2>1. Numbers(records) \subseteq 1 .. sequence - 1 /\ sequence \in Nat
    BY DEF LogInv, LogPlaces, LogTypes
  <2>2. QED
    BY <1>8, <2>1
<1>15. /\ past' \in Pasts
       /\ past'.written = past.written /\ past'.lost = past.lost /\ past'.calls = past.calls /\ past'.missed = past.missed
       /\ past'.reported = past.reported /\ past'.discarded = past.discarded \cup Stale(records, n)
       /\ Gone' = Gone
  BY <1>1, <1>14 DEF LogInv, LogTypes, Pasts, Gone
<1>16. LogTypes'
  BY <1>3, <1>10, <1>13, <1>15 DEF LogInv, LogTypes
<1>17. LogHands'
  <2>1. \A q \in Carried(formatted') : formatted'[q].size <= QueueLimit /\ owed'[q] = 0
    BY <1>3, <1>13 DEF Carried
  <2>2. QED
    BY <2>1 DEF LogInv, LogHands
<1>18. LogBytes'
  <2>1. pendingBytes' = Log!BytesOf(records') /\ pendingBytes' <= QueueLimit
    BY <1>1, <1>11, <1>12
  <2>2. QED
    BY <2>1 DEF LogBytes, Log!BytesOf
<1>19. LogFile' /\ LogCalls'
  BY <1>15 DEF LogInv, LogFile, LogCalls
<1>20. LogApart'
  BY <1>3, <1>8, <1>10, <1>15 DEF LogInv, LogApart, Apart
<1>21. LogPlaces'
  BY <1>3, <1>8, <1>10, <1>15 DEF LogInv, LogPlaces
<1>22. LogCounted'
  <2> DEFINE c == Cardinality(NumbersOf(formatted) \cup Working)
             r0 == Len(records)
             w == Cardinality(past.written)
             t == Cardinality(past.lost)
             o == SumFunction(owed)
             c1 == Cardinality(NumbersOf(formatted') \cup Working')
             r1 == Len(records')
             w1 == Cardinality(past'.written)
             t1 == Cardinality(past'.lost)
             o1 == SumFunction(owed')
  <2>1. Len(records') = Len(records) - n + 1
    BY <1>7, <1>8, <1>10
  <2>21. c \in Nat /\ r0 \in Nat /\ w \in Nat /\ t \in Nat /\ o \in Nat
    BY <1>13, LogFinite
  <2>22. dropped \in Nat /\ sequence \in Nat /\ c + r0 + w + t + dropped + o = sequence - 1
    BY DEF LogInv, LogTypes, LogCounted
  <2>23. /\ c1 = c - 1 /\ r1 = r0 - n + 1 /\ w1 = w /\ t1 = t /\ o1 = o + n
         /\ dropped' = dropped /\ sequence' = sequence
    BY <1>3, <1>13, <1>15, <2>1, LogFinite
  <2> HIDE DEF c, r0, w, t, o, c1, r1, w1, t1, o1
  <2>24. c1 + r1 + w1 + t1 + dropped' + o1 = sequence' - 1
    BY <1>7, <2>21, <2>22, <2>23
  <2>25. QED
    BY <2>24 DEF LogCounted, c1, r1, w1, t1, o1
<1>23. QED
  BY <1>16, <1>17, <1>18, <1>19, <1>20, <1>21, <1>22 DEF LogInv

\* What is owed is a number.
LEMMA OwedIs ==
    ASSUME LogAssumption, LogInv
    PROVE  SumFunction(owed) \in Nat /\ owed \in [Producers -> Nat]
<1>1. owed \in [Producers -> Nat] /\ IsFiniteSet(Producers)
  BY DEF LogInv, LogTypes, LogAssumption
<1>2. DOMAIN owed = Producers /\ \A p \in Producers : owed[p] \in Nat
  BY <1>1
<1>3. SumFunctionOnSet(owed, Producers) \in Nat
  BY <1>1, <1>2, SumType
<1>4. QED
  BY <1>1, <1>2, <1>3 DEF SumFunction

LEMMA LogCountsDrops ==
    ASSUME LogAssumption, LogInv, NEW p \in Producers, Log!CountDrops(p)
    PROVE  LogInv'
<1>1. /\ dropped' = dropped + owed[p] /\ owed' = [owed EXCEPT ![p] = 0]
      /\ UNCHANGED <<records, pendingBytes, writer, current, file, fileBytes, sequence, formatted,
                     throttle, past>>
  BY DEF Log!CountDrops, Log!queue, Log!thread
<1>2. owed \in [Producers -> Nat] /\ IsFiniteSet(Producers) /\ SumFunction(owed) \in Nat
  BY OwedIs DEF LogAssumption
<1>3. SumFunction(owed') \in Nat /\ SumFunction(owed') + owed[p] = SumFunction(owed) /\ owed[p] \in Nat
  <2> DEFINE f == owed
             z == 0
             g == [f EXCEPT ![p] = z]
  <2>1. f \in [Producers -> Nat] /\ IsFiniteSet(Producers) /\ z \in Nat
    BY <1>2
  <2> HIDE DEF f, z
  <2>2. SumFunction(f) \in Nat /\ SumFunction(g) \in Nat /\ SumFunction(g) + f[p] = SumFunction(f) + z
    BY <2>1, TotalChanged
  <2>3. f[p] \in Nat
    BY <2>1
  <2>4. SumFunction(g) + f[p] = SumFunction(f)
    BY <2>2 DEF z
  <2>5. QED
    BY <1>1, <2>2, <2>3, <2>4 DEF f, z
<1>4. LogTypes'
  BY <1>1, <1>2, <1>3 DEF LogInv, LogTypes
<1>5. LogHands'
  <2>1. \A q \in Producers : owed'[q] = IF q = p THEN 0 ELSE owed[q]
    BY <1>1, <1>2
  <2>2. \A q \in Carried(formatted) : q \in Producers
    BY DEF Carried
  <2>3. QED
    BY <1>1, <2>1, <2>2 DEF LogInv, LogHands
<1>6. LogBytes' /\ LogFile' /\ LogCalls'
  BY <1>1 DEF LogInv, LogBytes, LogFile, LogCalls, Log!BytesOf
<1>7. Working' = Working /\ Gone' = Gone
  BY <1>1 DEF Working, Gone
<1>8. LogApart' /\ LogPlaces'
  BY <1>1, <1>7 DEF LogInv, LogApart, LogPlaces
<1>9. LogCounted'
  <2> DEFINE c == Cardinality(NumbersOf(formatted) \cup Working)
             r == Len(records)
             w == Cardinality(past.written)
             t == Cardinality(past.lost)
             o == SumFunction(owed)
             o1 == SumFunction(owed')
             x == owed[p]
  <2>1. c \in Nat /\ r \in Nat /\ w \in Nat /\ t \in Nat
    BY LogFinite
  <2>2. o \in Nat /\ o1 \in Nat /\ x \in Nat /\ o1 + x = o
    BY <1>2, <1>3
  <2>3. dropped \in Nat /\ sequence \in Nat /\ c + r + w + t + dropped + o = sequence - 1
    BY DEF LogInv, LogTypes, LogCounted
  <2>4. dropped' = dropped + x
    BY <1>1
  <2> HIDE DEF c, r, w, t, o, o1, x
  <2>5. c + r + w + t + dropped' + o1 = sequence - 1
    BY <2>1, <2>2, <2>3, <2>4
  <2>6. QED
    BY <1>1, <1>7, <2>5 DEF LogCounted, c, r, w, t, o1
<1>10. QED
  BY <1>4, <1>5, <1>6, <1>8, <1>9 DEF LogInv

\* The writer takes the oldest record.
LEMMA LogTakes ==
    ASSUME LogAssumption, LogInv, writer = "ready", records # <<>>, records' = Tail(records),
           pendingBytes' = pendingBytes - Head(records).size, current' = Head(records),
           writer' = "writing",
           UNCHANGED <<file, fileBytes, sequence, formatted, owed, dropped, throttle, past>>
    PROVE  LogInv'
<1> DEFINE s == Head(records).seq
<1>1. records \in Seq(LogRecords) /\ Distinct(records) /\ current = Log!NoRecord
  BY DEF LogInv, LogTypes, LogApart, LogHands
<1>2. /\ Head(records) \in LogRecords /\ records' \in Seq(LogRecords)
      /\ Len(records) = Len(records') + 1 /\ Len(records') \in Nat
      /\ Numbers(records) = Numbers(records') \cup {s} /\ s \notin Numbers(records')
      /\ Distinct(records')
  BY <1>1, QueueTakes
<1>3. Working = {} /\ Working' = {s} /\ Gone' = Gone
  <2>1. Working = {}
    BY <1>1, NoRecordIs DEF Working
  <2>2. s # 0
    BY <1>2, NoRecordIs
  <2>3. QED
    BY <2>1, <2>2 DEF Working, Gone
<1>4. Log!BytesOf(records) = Head(records).size + Log!BytesOf(records')
  BY <1>1, BytesTail
<1>5. Head(records).size \in Nat \ {0} /\ Log!BytesOf(records') \in Nat
  BY <1>2, NoRecordIs, BytesTypes
<1> HIDE DEF s
<1>6. s \in Numbers(records) /\ s \notin NumbersOf(formatted) /\ s \notin Gone
  BY <1>2 DEF LogInv, LogApart, Apart
<1>7. LogTypes'
  BY <1>2 DEF LogInv, LogTypes, Records
<1>8. LogHands'
  <2>1. current' # Log!NoRecord
    BY <1>2, NoRecordIs
  <2>2. QED
    BY <2>1 DEF LogInv, LogHands
<1>9. LogBytes'
  <2>1. pendingBytes = Log!BytesOf(records) /\ pendingBytes <= QueueLimit /\ QueueLimit \in Nat
    BY DEF LogInv, LogBytes, LogAssumption
  <2>2. pendingBytes' = Log!BytesOf(records') /\ pendingBytes' <= QueueLimit
    <3> DEFINE a == Log!BytesOf(records)
               b == Log!BytesOf(records')
               h == Head(records).size
    <3>1. a = h + b /\ h \in Nat /\ b \in Nat /\ a <= QueueLimit /\ pendingBytes' = a - h
      BY <1>4, <1>5, <2>1
    <3> HIDE DEF a, b, h
    <3>2. pendingBytes' = b /\ b <= QueueLimit
      BY <2>1, <3>1
    <3>3. QED
      BY <3>2 DEF b
  <2>3. QED
    BY <2>2 DEF LogBytes, Log!BytesOf
<1>10. LogFile' /\ LogCalls'
  BY DEF LogInv, LogFile, LogCalls
<1>11. LogApart'
  BY <1>2, <1>3, <1>6 DEF LogInv, LogApart, Apart
<1>12. LogPlaces'
  BY <1>2, <1>3 DEF LogInv, LogPlaces
<1>13. LogCounted'
  <2> DEFINE c == Cardinality(NumbersOf(formatted) \cup Working)
             r0 == Len(records)
             w == Cardinality(past.written)
             t == Cardinality(past.lost)
             o == SumFunction(owed)
             c1 == Cardinality(NumbersOf(formatted') \cup Working')
             r1 == Len(records')
             w1 == Cardinality(past'.written)
             t1 == Cardinality(past'.lost)
             o1 == SumFunction(owed')
  <2>1. c1 = c + 1
    <3>1. NumbersOf(formatted') \cup Working' = (NumbersOf(formatted) \cup Working) \cup {s}
      BY <1>3
    <3>2. s \notin NumbersOf(formatted) \cup Working
      BY <1>3, <1>6
    <3>3. QED
      BY <3>1, <3>2, LogFinite, FS_AddElement
  <2>21. c \in Nat /\ r0 \in Nat /\ w \in Nat /\ t \in Nat /\ o \in Nat
    BY OwedIs, LogFinite
  <2>22. dropped \in Nat /\ sequence \in Nat /\ c + r0 + w + t + dropped + o = sequence - 1
    BY DEF LogInv, LogTypes, LogCounted
  <2>23. /\ c1 = c + 1 /\ r1 = r0 - 1 /\ w1 = w /\ t1 = t /\ o1 = o
         /\ dropped' = dropped /\ sequence' = sequence
    BY <1>2, <2>1, OwedIs, LogFinite
  <2> HIDE DEF c, r0, w, t, o, c1, r1, w1, t1, o1
  <2>24. c1 + r1 + w1 + t1 + dropped' + o1 = sequence' - 1
    BY <2>21, <2>22, <2>23
  <2>25. QED
    BY <2>24 DEF LogCounted, c1, r1, w1, t1, o1
<1>14. QED
  BY <1>7, <1>8, <1>9, <1>10, <1>11, <1>12, <1>13 DEF LogInv

\* The record is written, or lost to a device that fails.
LEMMA LogWrites ==
    ASSUME LogAssumption, LogInv, Log!Write
    PROVE  LogInv'
<1> DEFINE s == current.seq
<1>1. /\ writer = "writing" /\ writer' = "ready" /\ current' = Log!NoRecord
      /\ UNCHANGED <<records, pendingBytes, sequence, formatted, owed, dropped, throttle>>
  BY DEF Log!Write, Log!queue, Log!counts
<1>2. \/ Log!Written /\ past' = [past EXCEPT !.written = @ \cup {s}]
      \/ /\ past' = [past EXCEPT !.lost = @ \cup {s}] /\ file' = file /\ fileBytes' = fileBytes
  BY DEF Log!Write, Log!Written, Log!NotWritten
<1>3. current \in LogRecords
  BY <1>1 DEF LogInv, LogHands, LogTypes, Records
<1>4. s \in Nat \ {0} /\ current.size \in Nat \ {0}
  BY <1>3, NoRecordIs
<1> HIDE DEF s
<1>5. Working = {s} /\ Working' = {}
  <2>1. Working = {s}
    BY <1>4 DEF Working, s
  <2>2. Working' = {}
    BY <1>1, NoRecordIs DEF Working
  <2>3. QED
    BY <2>1, <2>2
<1>6. /\ past' \in Pasts
      /\ past'.calls = past.calls /\ past'.reported = past.reported /\ past'.missed = past.missed
      /\ past'.discarded = past.discarded
      /\ \/ past'.written = past.written \cup {s} /\ past'.lost = past.lost
         \/ past'.written = past.written /\ past'.lost = past.lost \cup {s}
  <2>1. CASE past' = [past EXCEPT !.written = @ \cup {s}]
    BY <1>4, <2>1 DEF LogInv, LogTypes, Pasts
  <2>2. CASE past' = [past EXCEPT !.lost = @ \cup {s}]
    BY <1>4, <2>2 DEF LogInv, LogTypes, Pasts
  <2>3. QED
    BY <1>2, <2>1, <2>2
<1>7. Gone' = Gone \cup {s}
  BY <1>6 DEF Gone
<1>8. /\ s \notin NumbersOf(formatted) /\ s \notin Gone /\ s \notin Numbers(records)
      /\ s \notin past.written /\ s \notin past.lost
  BY <1>5 DEF LogInv, LogApart, Apart, Gone
<1>9. fileBytes \in Nat /\ file \in Seq(Nat) /\ FileLimit \in Nat
  BY DEF LogInv, LogTypes, LogAssumption
<1>10. LogFile' /\ file' \in Seq(Nat) /\ fileBytes' \in Nat
  <2>1. CASE file' = file /\ fileBytes' = fileBytes
    BY <1>9, <2>1 DEF LogInv, LogFile
  <2>2. CASE Log!Written /\ Log!Rotates
    <3>1. file' = <<s>> /\ fileBytes' = current.size
      BY <2>2 DEF Log!Written, s
    <3>2. <<s>> \in Seq(Nat) /\ Len(<<s>>) = 1
      BY <1>4
    <3>3. QED
      BY <1>4, <3>1, <3>2 DEF LogFile
  <2>3. CASE Log!Written /\ ~Log!Rotates
    <3>1. file' = Append(file, s) /\ fileBytes' = fileBytes + current.size
      BY <2>3 DEF Log!Written, s
    <3>2. fileBytes = 0 \/ fileBytes + current.size <= FileLimit
      BY <1>4, <1>9, <2>3 DEF Log!Rotates
    <3>3. Append(file, s) \in Seq(Nat) /\ Len(Append(file, s)) = Len(file) + 1
      BY <1>4, <1>9
    <3>4. fileBytes' \in Nat /\ fileBytes' # 0
      BY <1>4, <1>9, <3>1
    <3>5. fileBytes' <= FileLimit \/ Len(file') = 1
      <4>1. CASE fileBytes = 0
        <5>1. file = <<>>
          BY <4>1 DEF LogInv, LogFile
        <5>2. QED
          BY <3>1, <3>3, <5>1
      <4>2. QED
        BY <3>1, <3>2, <4>1
    <3>6. QED
      BY <3>1, <3>3, <3>4, <3>5 DEF LogFile
  <2>4. QED
    BY <1>2, <2>1, <2>2, <2>3
<1>11. LogTypes'
  BY <1>1, <1>6, <1>10 DEF LogInv, LogTypes, Records
<1>12. LogHands'
  BY <1>1 DEF LogInv, LogHands
<1>13. LogBytes' /\ LogCalls'
  BY <1>1, <1>6 DEF LogInv, LogBytes, LogCalls, Log!BytesOf
<1>14. LogApart'
  BY <1>1, <1>5, <1>7, <1>8 DEF LogInv, LogApart, Apart
<1>15. LogPlaces'
  BY <1>1, <1>5, <1>6, <1>7 DEF LogInv, LogPlaces
<1>16. LogCounted'
  <2> DEFINE c == Cardinality(NumbersOf(formatted) \cup Working)
             c1 == Cardinality(NumbersOf(formatted') \cup Working')
             w == Cardinality(past.written)
             w1 == Cardinality(past'.written)
             t == Cardinality(past.lost)
             t1 == Cardinality(past'.lost)
             r == Len(records)
             o == SumFunction(owed)
  <2>1. c1 = c - 1
    <3>1. NumbersOf(formatted') \cup Working' = (NumbersOf(formatted) \cup Working) \ {s}
      BY <1>1, <1>5, <1>8
    <3>2. s \in NumbersOf(formatted) \cup Working
      BY <1>5
    <3>3. QED
      BY <3>1, <3>2, LogFinite, FS_RemoveElement
  <2>2. (w1 = w + 1 /\ t1 = t) \/ (w1 = w /\ t1 = t + 1)
    <3>1. /\ Cardinality(past.written \cup {s}) = w + 1
          /\ Cardinality(past.lost \cup {s}) = t + 1
      <4> HIDE DEF s
      <4>1. QED
        BY <1>8, LogFinite, FS_AddElement
    <3>2. QED
      BY <1>6, <3>1
  <2>3. c \in Nat /\ w \in Nat /\ t \in Nat /\ r \in Nat /\ o \in Nat
    BY LogFinite, OwedIs
  <2>4. dropped \in Nat /\ sequence \in Nat /\ c + r + w + t + dropped + o = sequence - 1
    BY DEF LogInv, LogTypes, LogCounted
  <2> HIDE DEF c, c1, w, w1, t, t1, r, o
  <2>5. c1 + r + w1 + t1 + dropped + o = sequence - 1
    BY <2>1, <2>2, <2>3, <2>4
  <2>6. QED
    BY <1>1, <2>5 DEF LogCounted, c1, w1, t1, r, o
<1>17. QED
  BY <1>10, <1>11, <1>12, <1>13, <1>14, <1>15, <1>16 DEF LogInv

\* Steps that move no record.
LEMMA LogElsewhere ==
    ASSUME LogInv,
           UNCHANGED <<records, pendingBytes, current, file, fileBytes, sequence, formatted, owed,
                       dropped>>,
           throttle' \in Throttles, LogCalls',
           past' \in Pasts, past'.written = past.written, past'.lost = past.lost,
           past'.discarded = past.discarded,
           (writer' = "writing") <=> (writer = "writing")
    PROVE  LogInv'
<1>1. /\ past' \in Pasts
      /\ past'.written = past.written /\ past'.lost = past.lost
      /\ past'.discarded = past.discarded
  OBVIOUS
<1>2. Working' = Working /\ Gone' = Gone
  BY <1>1 DEF Working, Gone
<1>3. LogTypes'
  BY <1>1 DEF LogInv, LogTypes
<1>4. LogHands' /\ LogFile'
  BY DEF LogInv, LogHands, LogFile
<1>5. LogBytes'
  BY DEF LogInv, LogBytes, Log!BytesOf
<1>6. LogApart' /\ LogPlaces' /\ LogCounted'
  BY <1>1, <1>2 DEF LogInv, LogApart, LogPlaces, LogCounted
<1>7. QED
  BY <1>3, <1>4, <1>5, <1>6 DEF LogInv

\* The cardinality of LogQueue is that of FiniteSets.
LEMMA CardinalityInLog == ASSUME NEW S PROVE Log!Cardinality(S) = Cardinality(S)
BY DEF Log!Cardinality, Cardinality

\* ... and every step of a producer, of the interval and of the writer keeps it.
LEMMA LogKept ==
    ASSUME LogAssumption, LogInv, [Log!Next]_(Log!vars)
    PROVE  LogInv'
<1> USE DEF Log!queue, Log!thread, Log!counts
<1>1. throttle \in Throttles /\ past \in Pasts /\ LogCalls
  BY DEF LogInv, LogTypes
<1>2. \A k \in ThrottleKeys : /\ past.calls[k] \in Nat /\ past.reported[k] \in Nat /\ past.missed[k] \in Nat
                              /\ throttle[k].calls \in Nat
                              /\ past.calls[k] = past.reported[k] + throttle[k].calls + past.missed[k]
  BY <1>1 DEF Throttles, Throttle, Pasts, CallCounts, LogCalls
<1>3. ASSUME NEW p \in Producers, NEW size \in Sizes, Log!Event(p, size)
      PROVE  LogInv'
  <2>1. throttle' = throttle /\ past' = past /\ Log!Format(p, size)
    BY <1>3 DEF Log!Event
  <2>2. LogCalls'
    BY <1>1, <2>1 DEF LogCalls, KeysKept
  <2>3. UNCHANGED <<records, pendingBytes, writer, current, file, fileBytes, owed, dropped>>
    BY <1>3 DEF Log!Event
  <2>4. QED
    BY <1>1, <2>1, <2>2, <2>3, LogFormats
<1>4. ASSUME NEW p \in Producers, NEW size \in Sizes, NEW k \in ThrottleKeys, Log!BytesEmitted(p, k, size)
      PROVE  LogInv'
  <2>1. /\ throttle' = [throttle EXCEPT ![k] = [kept |-> TRUE, calls |-> 0, recent |-> TRUE]]
        /\ Log!Format(p, size) /\ ~Log!TableFull(k)
        /\ past' = [past EXCEPT !.calls[k] = @ + 1, !.reported[k] = @ + 1 + throttle[k].calls]
        /\ UNCHANGED <<records, pendingBytes, writer, current, file, fileBytes, owed, dropped>>
    BY <1>4 DEF Log!BytesEmitted
  <2>2. throttle' \in Throttles /\ past' \in Pasts
    <3>1. throttle' \in Throttles
      BY <1>1, <1>2, <2>1 DEF Throttles, Throttle
    <3>2. past.calls \in CallCounts /\ past.reported \in CallCounts
      BY <1>1 DEF Pasts
    <3>3. \A c \in CallCounts, n \in Nat : [c EXCEPT ![k] = n] \in CallCounts
      BY DEF CallCounts
    <3>4. past' = [calls |-> [past.calls EXCEPT ![k] = past.calls[k] + 1], reported |-> [past.reported EXCEPT ![k] = past.reported[k] + 1 + throttle[k].calls], missed |-> past.missed,
                   written |-> past.written, discarded |-> past.discarded, lost |-> past.lost]
      BY <1>1, <2>1 DEF Pasts
    <3>5. [past.calls EXCEPT ![k] = past.calls[k] + 1] \in CallCounts /\ [past.reported EXCEPT ![k] = past.reported[k] + 1 + throttle[k].calls] \in CallCounts
      BY <1>2, <3>2, <3>3
    <3>6. past' \in Pasts
      BY <1>1, <3>4, <3>5 DEF Pasts
    <3>7. QED
      BY <3>1, <3>6
  <2>3. /\ past'.calls = [past.calls EXCEPT ![k] = @ + 1] /\ past'.missed = past.missed
        /\ past'.reported = [past.reported EXCEPT ![k] = @ + 1 + throttle[k].calls]
        /\ past'.written = past.written /\ past'.lost = past.lost /\ past'.discarded = past.discarded
    BY <1>1, <2>1 DEF Pasts
  <2>4. \A j \in ThrottleKeys : past'.calls[j] = past'.reported[j] + throttle'[j].calls + past'.missed[j]
    <3> SUFFICES ASSUME NEW j \in ThrottleKeys
                 PROVE  past'.calls[j] = past'.reported[j] + throttle'[j].calls + past'.missed[j]
      OBVIOUS
    <3>1. CASE j = k
      <4>1. /\ past'.calls[k] = past.calls[k] + 1 /\ past'.missed[k] = past.missed[k]
            /\ past'.reported[k] = past.reported[k] + 1 + throttle[k].calls /\ throttle'[k].calls = 0
        BY <1>1, <2>1, <2>3 DEF Pasts, CallCounts, Throttles
      <4>2. QED
        BY <1>2, <3>1, <4>1
    <3>2. CASE j # k
      BY <1>1, <1>2, <2>1, <2>3, <3>2 DEF Pasts, CallCounts, Throttles
    <3>3. QED
      BY <3>1, <3>2
  <2>5. Cardinality(KeysKept(throttle')) <= KeyLimit
    <3>1. KeysKept(throttle') = KeysKept(throttle) \cup {k}
      BY <1>1, <2>1 DEF KeysKept, Throttles
    <3>2. IsFiniteSet(KeysKept(throttle)) /\ Cardinality(KeysKept(throttle)) \in Nat
      BY FS_Subset, FS_CardinalityType DEF KeysKept, LogAssumption
    <3>3. Log!KeptKeys = KeysKept(throttle)
      BY DEF Log!KeptKeys, KeysKept
    <3>4. throttle[k].kept \/ Cardinality(KeysKept(throttle)) # KeyLimit
      BY <2>1, <3>3, CardinalityInLog DEF Log!TableFull
    <3>5. CASE throttle[k].kept
      <4>1. KeysKept(throttle') = KeysKept(throttle)
        BY <3>1, <3>5 DEF KeysKept
      <4>2. QED
        BY <1>1, <4>1 DEF LogCalls
    <3>6. CASE Cardinality(KeysKept(throttle)) # KeyLimit
      <4>1. Cardinality(KeysKept(throttle)) <= KeyLimit - 1
        BY <1>1, <3>2, <3>6 DEF LogCalls, LogAssumption
      <4>2. Cardinality(KeysKept(throttle) \cup {k}) <= Cardinality(KeysKept(throttle)) + 1
        <5>1. CASE k \in KeysKept(throttle)
          <6>1. Cardinality(KeysKept(throttle) \cup {k}) = Cardinality(KeysKept(throttle))
            BY <3>2, <5>1, FS_AddElement
          <6>2. QED
            BY <3>2, <6>1
        <5>2. CASE k \notin KeysKept(throttle)
          <6>1. Cardinality(KeysKept(throttle) \cup {k}) = Cardinality(KeysKept(throttle)) + 1
            BY <3>2, <5>2, FS_AddElement
          <6>2. QED
            BY <3>2, <6>1
        <5>3. QED
          BY <5>1, <5>2
      <4>3. Cardinality(KeysKept(throttle) \cup {k}) \in Nat
        BY <3>2, FS_AddElement, FS_CardinalityType
      <4>4. QED
        BY <3>1, <3>2, <4>1, <4>2, <4>3 DEF LogAssumption
    <3>7. QED
      BY <3>4, <3>5, <3>6
  <2>6. LogCalls'
    BY <2>4, <2>5 DEF LogCalls, KeysKept
  <2>7. QED
    BY <2>1, <2>2, <2>3, <2>6, LogFormats
<1>5. ASSUME NEW p \in Producers, NEW k \in ThrottleKeys, Log!BytesSuppressed(p, k)
      PROVE  LogInv'
  <2>1. /\ throttle' = [throttle EXCEPT ![k].calls = @ + 1]
        /\ past' = [past EXCEPT !.calls[k] = @ + 1]
        /\ UNCHANGED <<records, pendingBytes, writer, current, file, fileBytes, sequence, formatted,
                       owed, dropped>>
    BY <1>5 DEF Log!BytesSuppressed
  <2>2. throttle' \in Throttles /\ past' \in Pasts
    <3>1. throttle' \in Throttles
      BY <1>1, <1>2, <2>1 DEF Throttles, Throttle
    <3>2. past.calls \in CallCounts
      BY <1>1 DEF Pasts
    <3>3. \A c \in CallCounts, n \in Nat : [c EXCEPT ![k] = n] \in CallCounts
      BY DEF CallCounts
    <3>4. past' = [calls |-> [past.calls EXCEPT ![k] = past.calls[k] + 1], reported |-> past.reported, missed |-> past.missed,
                   written |-> past.written, discarded |-> past.discarded, lost |-> past.lost]
      BY <1>1, <2>1 DEF Pasts
    <3>5. past' \in Pasts
      BY <1>1, <1>2, <3>2, <3>3, <3>4 DEF Pasts
    <3>6. QED
      BY <3>1, <3>5
  <2>3. /\ past'.calls = [past.calls EXCEPT ![k] = @ + 1] /\ past'.missed = past.missed
        /\ past'.reported = past.reported
        /\ past'.written = past.written /\ past'.lost = past.lost /\ past'.discarded = past.discarded
    BY <1>1, <2>1 DEF Pasts
  <2>4. \A j \in ThrottleKeys : past'.calls[j] = past'.reported[j] + throttle'[j].calls + past'.missed[j]
    BY <1>1, <1>2, <2>1, <2>3 DEF Pasts, CallCounts, Throttles, Throttle
  <2>5. KeysKept(throttle') = KeysKept(throttle)
    BY <1>1, <2>1 DEF KeysKept, Throttles, Throttle
  <2>6. LogCalls'
    BY <1>1, <2>4, <2>5 DEF LogCalls, KeysKept
  <2>7. QED
    BY <2>1, <2>2, <2>3, <2>6, LogElsewhere
<1>17. ASSUME NEW p \in Producers, NEW k \in ThrottleKeys, Log!BytesMissed(p, k)
       PROVE  LogInv'
  <2>1. /\ throttle' = throttle
        /\ past' = [past EXCEPT !.calls[k] = @ + 1, !.missed[k] = @ + 1]
        /\ UNCHANGED <<records, pendingBytes, writer, current, file, fileBytes, sequence, formatted,
                       owed, dropped>>
    BY <1>17 DEF Log!BytesMissed
  <2>2. past' \in Pasts
    <3>1. past.calls \in CallCounts /\ past.missed \in CallCounts
      BY <1>1 DEF Pasts
    <3>2. \A c \in CallCounts, n \in Nat : [c EXCEPT ![k] = n] \in CallCounts
      BY DEF CallCounts
    <3>3. past' = [calls |-> [past.calls EXCEPT ![k] = past.calls[k] + 1], reported |-> past.reported, missed |-> [past.missed EXCEPT ![k] = past.missed[k] + 1],
                   written |-> past.written, discarded |-> past.discarded, lost |-> past.lost]
      BY <1>1, <2>1 DEF Pasts
    <3>4. /\ [past.calls EXCEPT ![k] = past.calls[k] + 1] \in CallCounts
          /\ [past.missed EXCEPT ![k] = past.missed[k] + 1] \in CallCounts
      <4>1. past.calls[k] + 1 \in Nat /\ past.missed[k] + 1 \in Nat
        BY <1>2
      <4>2. QED
        BY <3>1, <3>2, <4>1
    <3>5. QED
      BY <1>1, <3>3, <3>4 DEF Pasts
  <2>3. /\ past'.calls = [past.calls EXCEPT ![k] = @ + 1]
        /\ past'.missed = [past.missed EXCEPT ![k] = @ + 1] /\ past'.reported = past.reported
        /\ past'.written = past.written /\ past'.lost = past.lost /\ past'.discarded = past.discarded
    BY <1>1, <2>1 DEF Pasts
  <2>4. \A j \in ThrottleKeys : past'.calls[j] = past'.reported[j] + throttle'[j].calls + past'.missed[j]
    BY <1>1, <1>2, <2>1, <2>3 DEF Pasts, CallCounts
  <2>5. LogCalls'
    BY <1>1, <2>1, <2>4 DEF LogCalls, KeysKept
  <2>6. QED
    BY <1>1, <2>1, <2>2, <2>3, <2>5, LogElsewhere
<1>6. ASSUME NEW p \in Producers, Log!Enqueue(p)
      PROVE  LogInv'
  <2>1. /\ formatted[p] # Log!NoRecord /\ formatted' = [formatted EXCEPT ![p] = Log!NoRecord]
        /\ UNCHANGED <<writer, current, file, fileBytes, sequence, dropped, throttle>>
        /\ Log!Reject(p) \/ Log!Accept(p)
    BY <1>6 DEF Log!Enqueue
  <2>2. QED
    BY <2>1, LogRejects, LogAccepts
<1>7. ASSUME NEW p \in Producers, Log!TryEnqueueContended(p)
      PROVE  LogInv'
  <2>1. /\ formatted[p] # Log!NoRecord /\ formatted' = [formatted EXCEPT ![p] = Log!NoRecord]
        /\ UNCHANGED <<writer, current, file, fileBytes, sequence, dropped, throttle>>
        /\ Log!Reject(p)
    BY <1>7 DEF Log!TryEnqueueContended
  <2>2. QED
    BY <2>1, LogRejects
<1>8. ASSUME NEW k \in ThrottleKeys, Log!IntervalPasses(k)
      PROVE  LogInv'
  <2>1. /\ throttle' = [throttle EXCEPT ![k].recent = FALSE] /\ past' = past
        /\ UNCHANGED <<records, pendingBytes, writer, current, file, fileBytes, sequence, formatted,
                       owed, dropped>>
    BY <1>8 DEF Log!IntervalPasses
  <2>2. /\ throttle' \in Throttles
        /\ \A j \in ThrottleKeys : throttle'[j].calls = throttle[j].calls /\ throttle'[j].kept = throttle[j].kept
    BY <1>1, <2>1 DEF Throttles, Throttle
  <2>3. LogCalls'
    BY <1>1, <2>1, <2>2 DEF LogCalls, KeysKept
  <2>4. QED
    BY <1>1, <2>1, <2>2, <2>3, LogElsewhere
<1>9. ASSUME UNCHANGED <<records, pendingBytes, current, file, fileBytes, sequence, formatted, owed,
                         dropped, throttle, past>>,
             (writer' = "writing") <=> (writer = "writing")
      PROVE  LogInv'
  <2>1. LogCalls'
    BY <1>1, <1>9 DEF LogCalls, KeysKept
  <2>2. QED
    BY <1>1, <1>9, <2>1, LogElsewhere
<1>10. CASE Log!ReleaseWriter
  <2>1. /\ UNCHANGED <<records, pendingBytes, current, file, fileBytes, sequence, formatted, owed,
                       dropped, throttle, past>>
        /\ writer = "held" /\ writer' = "ready"
    BY <1>10 DEF Log!ReleaseWriter
  <2>2. QED
    BY <1>9, <2>1
<1>11. CASE Log!NextRecord
  <2>1. /\ UNCHANGED <<file, fileBytes, sequence, formatted, owed, dropped, throttle, past>>
        /\ writer = "ready"
    BY <1>11 DEF Log!NextRecord
  <2>2. CASE /\ records # <<>> /\ records' = Tail(records)
             /\ pendingBytes' = pendingBytes - Head(records).size
             /\ current' = Head(records) /\ writer' = "writing"
    BY <2>1, <2>2, LogTakes
  <2>3. CASE UNCHANGED <<records, pendingBytes, current>> /\ writer' \in {"done", "ready"}
    BY <1>9, <2>1, <2>3
  <2>4. QED
    BY <1>11, <2>1, <2>2, <2>3 DEF Log!NextRecord
<1>12. CASE Log!Write
  BY <1>12, LogWrites
<1>13. CASE Log!ShutDown
  BY <1>9, <1>13 DEF Log!ShutDown
<1>14. ASSUME NEW p \in Producers, Log!CountDrops(p)
       PROVE  LogInv'
  BY <1>14, LogCountsDrops
<1>15. CASE UNCHANGED Log!vars
  BY <1>9, <1>15 DEF Log!vars
<1>16. QED
  BY <1>3, <1>4, <1>5, <1>17, <1>6, <1>7, <1>8, <1>10, <1>11, <1>12, <1>13, <1>14, <1>15 DEF Log!Next

LEMMA LogCountsAll ==
    ASSUME LogInv
    PROVE  LossIsCounted
<1>1. Log!Queued = Numbers(records)
  <2>1. DOMAIN records = 1 .. Len(records)
    BY DEF LogInv, LogTypes
  <2>2. QED
    BY <2>1 DEF Log!Queued, Numbers
<1>2. Log!InFlight = NumbersOf(formatted) \cup Working
  BY DEF Log!InFlight, NumbersOf, Carried, Working
<1>3. Log!Total(owed) = SumFunction(owed)
  BY SumsAgreeInLog DEF Log!Total, Log!SumFunction, SumFunction
<1>4. 1 .. sequence - 1
        = Log!InFlight \cup Log!Queued \cup past.written \cup past.lost \cup past.discarded
  BY <1>1, <1>2 DEF LogInv, LogPlaces, Gone
<1>5. Log!Cardinality(Log!InFlight) + Len(records) + Log!Cardinality(past.written)
        + Log!Cardinality(past.lost) + dropped + Log!Total(owed) = sequence - 1
  BY <1>2, <1>3, CardinalityInLog DEF LogInv, LogCounted
<1>6. /\ \A k \in ThrottleKeys : past.calls[k] = past.reported[k] + throttle[k].calls + past.missed[k]
      /\ Log!Cardinality(Log!KeptKeys) <= KeyLimit
      /\ pendingBytes = Log!BytesOf(records) /\ pendingBytes <= QueueLimit
      /\ fileBytes <= FileLimit \/ Len(file) = 1
  BY CardinalityInLog DEF LogInv, LogCalls, LogBytes, LogFile, Log!KeptKeys, KeysKept
<1>7. QED
  BY <1>4, <1>5, <1>6, Zenon DEF LossIsCounted, Log!LossIsCounted

\* Every record formatted is queued, written, lost to the device or counted
\* as dropped, for any number of producers and any limits, and the queue, the
\* file and the throttle's table keep their budgets; every throttled call is
\* told of by a record, in its key's suppression count, or one that found the
\* table locked or full (diagnostics.rs enqueue_locked, enqueue_line,
\* next_record, RotatingFile, bytes).
THEOREM LogAccounts ==
    ASSUME LogAssumption
    PROVE  Log!Spec => []LossIsCounted
<1>1. Log!Init => LogInv
  BY LogStarts
<1>2. LogInv /\ [Log!Next]_(Log!vars) => LogInv'
  BY LogKept
<1>3. LogInv => LossIsCounted
  BY LogCountsAll
<1>4. QED
  BY <1>1, <1>2, <1>3, PTL DEF Log!Spec

-----------------------------------------------------------------------------
(* The mailbox of the speech worker.                                       *)

\* No two requests of a queue are the same, announcements are in the order in
\* which they were made, nothing behind a start() was asked for before it.
IdsApart(q) == \A i, j \in 1 .. Len(q) : q[i].id = q[j].id => i = j
SpeechAscends(q) ==
    \A i, j \in 1 .. Len(q) : i < j /\ IsSpeech(q[i]) /\ IsSpeech(q[j]) => q[i].id < q[j].id
FencesFirst(q) ==
    \A i, j \in 1 .. Len(q) : i < j /\ q[i].kind = "start" => q[i].id < q[j].id

\* What was asked for before n, and announced since c and after s.
Since(q, c, s, n) ==
    \A i \in 1 .. Len(q) : q[i].id < n /\ (IsSpeech(q[i]) => q[i].id >= c /\ q[i].id > s)

InLine(q, c, s, n) ==
    /\ q \in Seq(RequestType)
    /\ IdsApart(q) /\ SpeechAscends(q) /\ FencesFirst(q)
    /\ Since(q, c, s, n)
Single(q) == \A kind \in {"stop", "rate", "server"} : Len(OfKinds(q, {kind})) <= 1

MailInv ==
    /\ TypeOK
    /\ cut < nextId /\ spoken < nextId
    /\ InLine(requests, cut, spoken, nextId)
    /\ CountersExact

LEMMA RequestFacts ==
    ASSUME NEW r \in RequestType
    PROVE  r.kind \in Kinds /\ r.size \in Nat /\ r.size <= ItemBytes /\ r.id \in Nat /\ r.id \in 1 .. MaxId
  BY LimitAssumption DEF RequestType

LEMMA OfKindMeans ==
    ASSUME NEW r \in RequestType, NEW kinds
    PROVE  r \in [kind : kinds, size : Nat, id : Nat] <=> r.kind \in kinds
  BY LimitAssumption DEF RequestType

LEMMA OnlyType ==
    ASSUME NEW S, NEW q \in Seq(S), NEW A
    PROVE  Only(q, A) \in Seq(S) /\ Len(Only(q, A)) \in Nat /\ Len(Only(q, A)) <= Len(q)
  <1>1. Only(q, A) = Filter(q, A)
    BY DEF Only, Filter
  <1> QED
    BY <1>1, FilterType, LenProperties

\* Removing requests leaves the others in line.
LEMMA OnlyInLine ==
    ASSUME NEW q, NEW A, NEW c, NEW s, NEW n, InLine(q, c, s, n)
    PROVE  InLine(Only(q, A), c, s, n)
  <1>0. q \in Seq(RequestType)
    BY DEF InLine
  <1>1. Only(q, A) = Filter(q, A)
    BY DEF Only, Filter
  <1>2. PICK t \in Seq(RequestType) : t = Filter(q, A)
    BY <1>0, FilterType
  <1>3. PICK p : FilterAt(q, A, p)
    BY <1>0, FilterOrder
  <1>4. \A i \in 1 .. Len(t) : p[i] \in 1 .. Len(q) /\ t[i] = q[p[i]]
    BY <1>2, <1>3 DEF FilterAt
  <1>5. \A i, j \in 1 .. Len(t) : i < j => p[i] < p[j]
    BY <1>2, <1>3 DEF FilterAt
  <1>6. Len(t) \in Nat /\ Len(q) \in Nat
    BY <1>0, LenProperties
  <1>7. IdsApart(t)
    <2> SUFFICES ASSUME NEW i \in 1 .. Len(t), NEW j \in 1 .. Len(t), t[i].id = t[j].id, i # j
                 PROVE FALSE
      BY DEF IdsApart
    <2>1. q[p[i]].id = q[p[j]].id /\ p[i] \in 1 .. Len(q) /\ p[j] \in 1 .. Len(q)
      BY <1>4
    <2>2. p[i] = p[j]
      BY <2>1 DEF InLine, IdsApart
    <2>3. i < j \/ j < i
      BY <1>6
    <2>4. p[i] < p[j] \/ p[j] < p[i]
      BY <1>5, <2>3
    <2> QED
      BY <1>6, <2>1, <2>2, <2>4
  <1>8. SpeechAscends(t)
    <2> SUFFICES ASSUME NEW i \in 1 .. Len(t), NEW j \in 1 .. Len(t), i < j,
                        IsSpeech(t[i]), IsSpeech(t[j])
                 PROVE t[i].id < t[j].id
      BY DEF SpeechAscends
    <2>1. p[i] \in 1 .. Len(q) /\ p[j] \in 1 .. Len(q) /\ p[i] < p[j]
      BY <1>4, <1>5
    <2>2. t[i] = q[p[i]] /\ t[j] = q[p[j]]
      BY <1>4
    <2> QED
      BY <2>1, <2>2 DEF InLine, SpeechAscends
  <1>9. FencesFirst(t)
    <2> SUFFICES ASSUME NEW i \in 1 .. Len(t), NEW j \in 1 .. Len(t), i < j, t[i].kind = "start"
                 PROVE t[i].id < t[j].id
      BY DEF FencesFirst
    <2>1. p[i] \in 1 .. Len(q) /\ p[j] \in 1 .. Len(q) /\ p[i] < p[j]
      BY <1>4, <1>5
    <2>2. t[i] = q[p[i]] /\ t[j] = q[p[j]]
      BY <1>4
    <2> QED
      BY <2>1, <2>2 DEF InLine, FencesFirst
  <1>10. Since(t, c, s, n)
    <2> SUFFICES ASSUME NEW i \in 1 .. Len(t)
                 PROVE t[i].id < n /\ (IsSpeech(t[i]) => t[i].id >= c /\ t[i].id > s)
      BY DEF Since
    <2>1. p[i] \in 1 .. Len(q) /\ t[i] = q[p[i]]
      BY <1>4
    <2> QED
      BY <2>1 DEF InLine, Since
  <1> QED
    BY <1>1, <1>2, <1>7, <1>8, <1>9, <1>10 DEF InLine

LEMMA OnlySingle ==
    ASSUME NEW q \in Seq(RequestType), NEW A, Single(q)
    PROVE  Single(Only(q, A))
  <1> SUFFICES ASSUME NEW kind \in {"stop", "rate", "server"}
               PROVE Len(OfKinds(Only(q, A), {kind})) <= 1
    BY DEF Single
  <1>1. PICK B : B = [kind : {kind}, size : Nat, id : Nat]
    OBVIOUS
  <1>2. Only(Only(q, A), B) = Filter(Filter(q, A), B) /\ OfKinds(q, {kind}) = Filter(q, B)
    BY <1>1 DEF Only, Filter, OfKinds
  <1>3. Filter(Filter(q, A), B) = Filter(q, A \cap B)
    BY FilterAgain
  <1>4. Filter(Filter(q, B), A) = Filter(q, B \cap A)
    BY FilterAgain
  <1>5. A \cap B = B \cap A
    OBVIOUS
  <1>6. Filter(q, B) \in Seq(RequestType)
    BY FilterType
  <1>7. Len(Filter(Filter(q, B), A)) <= Len(Filter(q, B)) /\ Filter(Filter(q, B), A) \in Seq(RequestType)
    BY <1>6, FilterType
  <1>8. Len(Filter(q, B)) <= 1
    BY <1>2 DEF Single
  <1>9. Len(Filter(Filter(q, B), A)) \in Nat /\ Len(Filter(q, B)) \in Nat
    BY <1>6, <1>7, LenProperties
  <1>10. Len(Filter(Filter(q, B), A)) <= 1
    BY <1>7, <1>8, <1>9
  <1>11. OfKinds(Only(q, A), {kind}) = Only(Only(q, A), B)
    BY <1>1 DEF OfKinds
  <1> QED
    BY <1>2, <1>3, <1>4, <1>5, <1>10, <1>11

\* A request behind the others, and one before them.
LEMMA AppendInLine ==
    ASSUME NEW q, NEW c \in Nat, NEW s \in Nat, NEW n \in Nat, InLine(q, c, s, n), c <= n, s < n,
           NEW r \in RequestType, r.id = n
    PROVE  InLine(Append(q, r), c, s, n + 1)
  <1>0. q \in Seq(RequestType)
    BY DEF InLine
  <1>1. PICK k \in Nat : k = Len(q)
    BY <1>0, LenProperties
  <1>2. PICK t \in Seq(RequestType) : t = Append(q, r)
    BY <1>0, AppendProperties
  <1>3. PICK l \in Nat : l = k + 1
    OBVIOUS
  <1>4. Len(t) = l /\ t[l] = r /\ \A i \in 1 .. k : t[i] = q[i]
    BY <1>0, <1>1, <1>2, <1>3, AppendProperties
  <1>5. \A i \in 1 .. k : q[i].id < n /\ q[i].id \in Nat
    <2>1. \A i \in 1 .. k : q[i] \in RequestType
      BY <1>0, <1>1, ElementOfSeq
    <2> QED
      BY <1>1, <2>1, RequestFacts DEF InLine, Since
  <1>6. \A i \in 1 .. l : i = l \/ i \in 1 .. k
    BY <1>3
  <1>7. IdsApart(t)
    <2>1. \A i, j \in 1 .. k : q[i].id = q[j].id => i = j
      BY <1>1 DEF InLine, IdsApart
    <2> SUFFICES ASSUME NEW i \in 1 .. l, NEW j \in 1 .. l, t[i].id = t[j].id
                 PROVE i = j
      BY <1>4 DEF IdsApart
    <2> QED
      BY <1>4, <1>5, <1>6, <2>1
  <1>8. SpeechAscends(t)
    <2>1. \A i, j \in 1 .. k : i < j /\ IsSpeech(q[i]) /\ IsSpeech(q[j]) => q[i].id < q[j].id
      BY <1>1 DEF InLine, SpeechAscends
    <2> SUFFICES ASSUME NEW i \in 1 .. l, NEW j \in 1 .. l, i < j, IsSpeech(t[i]), IsSpeech(t[j])
                 PROVE t[i].id < t[j].id
      BY <1>4 DEF SpeechAscends
    <2>2. i \in 1 .. k
      BY <1>3
    <2> QED
      BY <1>4, <1>5, <1>6, <2>1, <2>2
  <1>9. FencesFirst(t)
    <2>1. \A i, j \in 1 .. k : i < j /\ q[i].kind = "start" => q[i].id < q[j].id
      BY <1>1 DEF InLine, FencesFirst
    <2> SUFFICES ASSUME NEW i \in 1 .. l, NEW j \in 1 .. l, i < j, t[i].kind = "start"
                 PROVE t[i].id < t[j].id
      BY <1>4 DEF FencesFirst
    <2>2. i \in 1 .. k
      BY <1>3
    <2> QED
      BY <1>4, <1>5, <1>6, <2>1, <2>2
  <1>10. Since(t, c, s, n + 1)
    <2>1. \A i \in 1 .. k : IsSpeech(q[i]) => q[i].id >= c /\ q[i].id > s
      BY <1>1 DEF InLine, Since
    <2> SUFFICES ASSUME NEW i \in 1 .. l
                 PROVE t[i].id < n + 1 /\ (IsSpeech(t[i]) => t[i].id >= c /\ t[i].id > s)
      BY <1>4 DEF Since
    <2>2. CASE i = l
      <3>1. t[i].id = n
        BY <1>4, <2>2
      <3> QED
        BY <1>4, <2>2, <3>1
    <2>3. CASE i \in 1 .. k
      <3>1. t[i] = q[i]
        BY <1>4, <2>3
      <3> QED
        BY <1>5, <2>1, <2>3, <3>1
    <2> QED
      BY <1>6, <2>2, <2>3
  <1> QED
    BY <1>2, <1>7, <1>8, <1>9, <1>10 DEF InLine

LEMMA PrependInLine ==
    ASSUME NEW q, NEW c \in Nat, NEW s \in Nat, NEW n \in Nat, InLine(q, c, s, n),
           NEW r \in RequestType, r.id = n, ~IsSpeech(r), r.kind # "start"
    PROVE  InLine(<<r>> \o q, c, s, n + 1)
  <1>0. q \in Seq(RequestType) /\ <<r>> \in Seq(RequestType)
    BY DEF InLine
  <1>1. PICK k \in Nat : k = Len(q)
    BY <1>0, LenProperties
  <1>2. PICK t \in Seq(RequestType) : t = <<r>> \o q
    BY <1>0, ConcatProperties
  <1>3. PICK l \in Nat : l = k + 1
    OBVIOUS
  <1>4. Len(t) = l /\ t[1] = r /\ \A i \in 1 .. l : i # 1 => i - 1 \in 1 .. k /\ t[i] = q[i - 1]
    <2>1. Len(<<r>>) = 1 /\ <<r>>[1] = r
      OBVIOUS
    <2> QED
      BY <1>0, <1>1, <1>2, <1>3, <2>1, ConcatProperties
  <1>5. \A i \in 1 .. k : q[i].id < n /\ q[i].id \in Nat
    <2>1. \A i \in 1 .. k : q[i] \in RequestType
      BY <1>0, <1>1, ElementOfSeq
    <2> QED
      BY <1>1, <2>1, RequestFacts DEF InLine, Since
  <1>7. IdsApart(t)
    <2>1. \A i, j \in 1 .. k : q[i].id = q[j].id => i = j
      BY <1>1 DEF InLine, IdsApart
    <2> SUFFICES ASSUME NEW i \in 1 .. l, NEW j \in 1 .. l, t[i].id = t[j].id
                 PROVE i = j
      BY <1>4 DEF IdsApart
    <2>2. CASE i # 1 /\ j # 1
      <3>1. PICK a \in 1 .. k : a = i - 1 /\ t[i] = q[a]
        BY <1>4, <2>2
      <3>2. PICK b \in 1 .. k : b = j - 1 /\ t[j] = q[b]
        BY <1>4, <2>2
      <3>3. a = b
        BY <2>1, <3>1, <3>2
      <3> QED
        BY <3>1, <3>2, <3>3
    <2>3. i # 1 => t[i].id < n /\ t[i].id \in Nat
      BY <1>4, <1>5
    <2>4. j # 1 => t[j].id < n /\ t[j].id \in Nat
      BY <1>4, <1>5
    <2>5. t[1].id = n
      BY <1>4
    <2>6. CASE i = 1 /\ j # 1
      <3>1. t[i].id = n
        BY <2>5, <2>6
      <3> QED
        BY <2>4, <2>6, <3>1
    <2>7. CASE i # 1 /\ j = 1
      <3>1. t[j].id = n
        BY <2>5, <2>7
      <3> QED
        BY <2>3, <2>7, <3>1
    <2> QED
      BY <2>2, <2>6, <2>7
  <1>8. SpeechAscends(t)
    <2>1. \A i, j \in 1 .. k : i < j /\ IsSpeech(q[i]) /\ IsSpeech(q[j]) => q[i].id < q[j].id
      BY <1>1 DEF InLine, SpeechAscends
    <2> SUFFICES ASSUME NEW i \in 1 .. l, NEW j \in 1 .. l, i < j, IsSpeech(t[i]), IsSpeech(t[j])
                 PROVE t[i].id < t[j].id
      BY <1>4 DEF SpeechAscends
    <2>2. i # 1 /\ j # 1 /\ i - 1 < j - 1
      BY <1>4
    <2> QED
      BY <1>4, <2>1, <2>2
  <1>9. FencesFirst(t)
    <2>1. \A i, j \in 1 .. k : i < j /\ q[i].kind = "start" => q[i].id < q[j].id
      BY <1>1 DEF InLine, FencesFirst
    <2> SUFFICES ASSUME NEW i \in 1 .. l, NEW j \in 1 .. l, i < j, t[i].kind = "start"
                 PROVE t[i].id < t[j].id
      BY <1>4 DEF FencesFirst
    <2>2. i # 1 /\ j # 1 /\ i - 1 < j - 1
      BY <1>4
    <2> QED
      BY <1>4, <2>1, <2>2
  <1>10. Since(t, c, s, n + 1)
    <2>1. \A i \in 1 .. k : IsSpeech(q[i]) => q[i].id >= c /\ q[i].id > s
      BY <1>1 DEF InLine, Since
    <2> SUFFICES ASSUME NEW i \in 1 .. l
                 PROVE t[i].id < n + 1 /\ (IsSpeech(t[i]) => t[i].id >= c /\ t[i].id > s)
      BY <1>4 DEF Since
    <2>2. CASE i = 1
      <3>1. t[i] = r
        BY <1>4, <2>2
      <3> QED
        BY <3>1
    <2>3. CASE i # 1
      <3>1. PICK a \in 1 .. k : t[i] = q[a]
        BY <1>4, <2>3
      <3> QED
        BY <1>5, <2>1, <3>1
    <2> QED
      BY <2>2, <2>3
  <1> QED
    BY <1>2, <1>7, <1>8, <1>9, <1>10 DEF InLine

LEMMA TailInLine ==
    ASSUME NEW q, NEW c, NEW s, NEW n, InLine(q, c, s, n), q # <<>>
    PROVE  InLine(Tail(q), c, IF IsSpeech(Head(q)) THEN Head(q).id ELSE s, n)
  <1>0. q \in Seq(RequestType)
    BY DEF InLine
  <1>1. PICK k \in Nat : k = Len(q)
    BY <1>0, LenProperties
  <1>2. PICK t \in Seq(RequestType) : t = Tail(q)
    BY <1>0, HeadTailProperties
  <1>3. PICK l \in Nat : l = k - 1
    <2>1. k # 0
      BY <1>0, <1>1, EmptySeq
    <2> QED
      BY <2>1
  <1>4. Len(t) = l /\ Head(q) = q[1] /\ \A i \in 1 .. l : i + 1 \in 1 .. k /\ t[i] = q[i + 1]
    BY <1>0, <1>1, <1>2, <1>3, HeadTailProperties
  <1>5. IdsApart(t)
    <2>1. \A i, j \in 1 .. k : q[i].id = q[j].id => i = j
      BY <1>1 DEF InLine, IdsApart
    <2> SUFFICES ASSUME NEW i \in 1 .. l, NEW j \in 1 .. l, t[i].id = t[j].id
                 PROVE i = j
      BY <1>4 DEF IdsApart
    <2>2. i + 1 = j + 1
      BY <1>4, <2>1
    <2> QED
      BY <2>2
  <1>6. SpeechAscends(t)
    <2>1. \A i, j \in 1 .. k : i < j /\ IsSpeech(q[i]) /\ IsSpeech(q[j]) => q[i].id < q[j].id
      BY <1>1 DEF InLine, SpeechAscends
    <2> SUFFICES ASSUME NEW i \in 1 .. l, NEW j \in 1 .. l, i < j, IsSpeech(t[i]), IsSpeech(t[j])
                 PROVE t[i].id < t[j].id
      BY <1>4 DEF SpeechAscends
    <2>2. i + 1 < j + 1
      OBVIOUS
    <2> QED
      BY <1>4, <2>1, <2>2
  <1>7. FencesFirst(t)
    <2>1. \A i, j \in 1 .. k : i < j /\ q[i].kind = "start" => q[i].id < q[j].id
      BY <1>1 DEF InLine, FencesFirst
    <2> SUFFICES ASSUME NEW i \in 1 .. l, NEW j \in 1 .. l, i < j, t[i].kind = "start"
                 PROVE t[i].id < t[j].id
      BY <1>4 DEF FencesFirst
    <2>2. i + 1 < j + 1
      OBVIOUS
    <2> QED
      BY <1>4, <2>1, <2>2
  <1>8. Since(t, c, IF IsSpeech(Head(q)) THEN Head(q).id ELSE s, n)
    <2> SUFFICES ASSUME NEW i \in 1 .. l
                 PROVE /\ t[i].id < n
                       /\ IsSpeech(t[i]) =>
                            /\ t[i].id >= c
                            /\ t[i].id > IF IsSpeech(Head(q)) THEN Head(q).id ELSE s
      BY <1>4 DEF Since
    <2>1. PICK j \in 1 .. k : j = i + 1
      BY <1>4
    <2>2. t[i] = q[j]
      BY <1>4, <2>1
    <2>3. q[j].id < n /\ (IsSpeech(q[j]) => q[j].id >= c /\ q[j].id > s)
      BY <1>1 DEF InLine, Since
    <2>4. CASE IsSpeech(Head(q)) /\ IsSpeech(t[i])
      <3>1. 1 \in 1 .. k /\ 1 < j
        BY <2>1
      <3>2. q[1].id < q[j].id
        BY <1>1, <1>4, <2>2, <2>4, <3>1 DEF InLine, SpeechAscends
      <3>3. 1 \in 1 .. Len(q) /\ j \in 1 .. Len(q)
        BY <1>1, <3>1
      <3>4. q[1] \in RequestType /\ q[j] \in RequestType
        BY <1>0, <3>3, ElementOfSeq
      <3>5. q[1].id \in Nat /\ q[j].id \in Nat
        BY <3>4, RequestFacts
      <3> QED
        BY <1>4, <2>2, <2>3, <2>4, <3>2, <3>5
    <2> QED
      BY <2>2, <2>3, <2>4
  <1> QED
    BY <1>2, <1>5, <1>6, <1>7, <1>8 DEF InLine

-----------------------------------------------------------------------------
\* What the counters count.
LEMMA OfKindsFacts ==
    ASSUME NEW q \in Seq(RequestType), NEW kinds
    PROVE  /\ OfKinds(q, kinds) \in Seq(RequestType)
           /\ Len(OfKinds(q, kinds)) \in Nat
           /\ \A i \in 1 .. Len(OfKinds(q, kinds)) : OfKinds(q, kinds)[i].kind \in kinds
  <1>1. PICK B : B = [kind : kinds, size : Nat, id : Nat]
    OBVIOUS
  <1>2. OfKinds(q, kinds) = Filter(q, B)
    BY <1>1 DEF OfKinds, Only, Filter
  <1>3. PICK t : t = Filter(q, B)
    OBVIOUS
  <1>4. t \in Seq(RequestType) /\ t \in Seq(RequestType \cap B)
    BY <1>3, FilterType
  <1>5. \A i \in 1 .. Len(t) : t[i] \in B
    BY <1>4, ElementOfSeq
  <1>6. \A i \in 1 .. Len(t) : t[i].kind \in kinds
    BY <1>1, <1>5
  <1>7. t = OfKinds(q, kinds)
    BY <1>2, <1>3
  <1>8. Len(t) \in Nat
    BY <1>4, LenProperties
  <1> QED
    BY <1>4, <1>6, <1>7, <1>8

\* OfKinds goes through a sequence from either end.
OfAppend(q, r, kinds) ==
    OfKinds(Append(q, r), kinds) =
      IF r.kind \in kinds THEN Append(OfKinds(q, kinds), r) ELSE OfKinds(q, kinds)
OfConcat(q, t, kinds) == OfKinds(q \o t, kinds) = OfKinds(q, kinds) \o OfKinds(t, kinds)

LEMMA OfKindsAppend ==
    ASSUME NEW q \in Seq(RequestType), NEW r \in RequestType, NEW kinds
    PROVE  OfAppend(q, r, kinds)
  <1>1. PICK B : B = [kind : kinds, size : Nat, id : Nat]
    OBVIOUS
  <1>2. OfKinds(q, kinds) = Filter(q, B) /\ OfKinds(Append(q, r), kinds) = Filter(Append(q, r), B)
    BY <1>1 DEF OfKinds, Only, Filter
  <1>3. r \in B <=> r.kind \in kinds
    BY <1>1, OfKindMeans
  <1>4. Filter(Append(q, r), B) = IF r \in B THEN Append(Filter(q, B), r) ELSE Filter(q, B)
    BY FilterAppend
  <1> QED
    BY <1>2, <1>3, <1>4 DEF OfAppend

LEMMA OfKindsConcat ==
    ASSUME NEW q \in Seq(RequestType), NEW t \in Seq(RequestType), NEW kinds
    PROVE  OfConcat(q, t, kinds)
  <1>1. PICK B : B = [kind : kinds, size : Nat, id : Nat]
    OBVIOUS
  <1>2. /\ OfKinds(q \o t, kinds) = Filter(q \o t, B)
        /\ OfKinds(q, kinds) = Filter(q, B) /\ OfKinds(t, kinds) = Filter(t, B)
    BY <1>1 DEF OfKinds, Only, Filter
  <1>3. Filter(q \o t, B) = Filter(q, B) \o Filter(t, B)
    BY FilterConcat
  <1> QED
    BY <1>2, <1>3 DEF OfConcat

\* Selecting by kind, then anything, is the other way round the same.
OfOnly(q, A, kinds) == OfKinds(Only(q, A), kinds) = Only(OfKinds(q, kinds), A)

LEMMA OfKindsOnly ==
    ASSUME NEW q \in Seq(RequestType), NEW A, NEW kinds
    PROVE  OfOnly(q, A, kinds)
  <1>1. PICK B : B = [kind : kinds, size : Nat, id : Nat]
    OBVIOUS
  <1>2. \A u : OfKinds(u, kinds) = Filter(u, B)
    BY <1>1 DEF OfKinds, Only, Filter
  <1>3. \A u : Only(u, A) = Filter(u, A)
    BY DEF Only, Filter
  <1>4. Filter(Filter(q, A), B) = Filter(q, A \cap B)
    BY FilterAgain
  <1>5. Filter(Filter(q, B), A) = Filter(q, B \cap A)
    BY FilterAgain
  <1>6. A \cap B = B \cap A
    OBVIOUS
  <1> QED
    BY <1>2, <1>3, <1>4, <1>5, <1>6 DEF OfOnly

\* Of a queue of some kinds every request or none is of others.
LEMMA OfKindsAll ==
    ASSUME NEW q \in Seq(RequestType), NEW kinds, \A i \in 1 .. Len(q) : q[i].kind \in kinds
    PROVE  OfKinds(q, kinds) = q
  <1>1. PICK B : B = [kind : kinds, size : Nat, id : Nat]
    OBVIOUS
  <1>2. OfKinds(q, kinds) = Filter(q, B)
    BY <1>1 DEF OfKinds, Only, Filter
  <1>3. \A i \in 1 .. Len(q) : q[i] \in RequestType
    BY ElementOfSeq
  <1>4. \A i \in 1 .. Len(q) : q[i] \in B
    BY <1>1, <1>3, OfKindMeans
  <1> QED
    BY <1>2, <1>4, FilterAll

LEMMA OfKindsNone ==
    ASSUME NEW q \in Seq(RequestType), NEW kinds, \A i \in 1 .. Len(q) : q[i].kind \notin kinds
    PROVE  OfKinds(q, kinds) = <<>>
  <1>1. PICK B : B = [kind : kinds, size : Nat, id : Nat]
    OBVIOUS
  <1>2. OfKinds(q, kinds) = Filter(q, B)
    BY <1>1 DEF OfKinds, Only, Filter
  <1>3. \A i \in 1 .. Len(q) : q[i] \in RequestType
    BY ElementOfSeq
  <1>4. \A i \in 1 .. Len(q) : q[i] \notin B
    BY <1>1, <1>3, OfKindMeans
  <1> QED
    BY <1>2, <1>4, FilterNone

\* The bytes of announcements.
Sized(q) == SumFunction(SizesOf(q))

LEMMA SizesOfType ==
    ASSUME NEW q \in Seq(RequestType)
    PROVE  /\ SizesOf(q) \in Seq(Nat) /\ Len(SizesOf(q)) = Len(q)
           /\ \A i \in 1 .. Len(q) : SizesOf(q)[i] = q[i].size
           /\ Sized(q) \in Nat
  <1>1. DOMAIN q = 1 .. Len(q) /\ Len(q) \in Nat
    BY LenProperties
  <1>2. \A i \in 1 .. Len(q) : q[i] \in RequestType
    BY ElementOfSeq
  <1>3. \A i \in 1 .. Len(q) : q[i].size \in Nat
    BY <1>2, RequestFacts
  <1>4. PICK f : f = SizesOf(q)
    OBVIOUS
  <1>5. f = [i \in 1 .. Len(q) |-> q[i].size]
    BY <1>1, <1>4 DEF SizesOf
  <1>6. f \in Seq(Nat) /\ Len(f) = Len(q)
    <2>1. PICK k \in Nat : k = Len(q)
      BY <1>1
    <2>2. f \in [1 .. k -> Nat]
      BY <1>3, <1>5, <2>1
    <2> QED
      BY <2>1, <2>2, IsASeq, LenProperties
  <1>7. SumFunction(f) \in Nat
    BY <1>6, SeqSumIs
  <1> QED
    BY <1>4, <1>5, <1>6, <1>7 DEF Sized

LEMMA SizedConcat ==
    ASSUME NEW q \in Seq(RequestType), NEW t \in Seq(RequestType)
    PROVE  Sized(q \o t) = Sized(q) + Sized(t)
  <1>1. PICK v \in Seq(RequestType) : v = q \o t
    BY ConcatProperties
  <1>2. PICK f \in Seq(Nat) : f = SizesOf(q)
    BY SizesOfType
  <1>3. PICK g \in Seq(Nat) : g = SizesOf(t)
    BY SizesOfType
  <1>4. PICK h \in Seq(Nat) : h = SizesOf(v)
    BY SizesOfType
  <1>5. PICK m \in Nat : m = Len(q)
    BY LenProperties
  <1>6. PICK n \in Nat : n = Len(t)
    BY LenProperties
  <1>7. Len(f) = m /\ Len(g) = n /\ Len(v) = m + n /\ Len(h) = m + n
    BY <1>1, <1>2, <1>3, <1>4, <1>5, <1>6, SizesOfType, ConcatProperties
  <1>8. PICK w \in Seq(Nat) : w = f \o g
    BY ConcatProperties
  <1>9. Len(w) = m + n /\ \A i \in 1 .. m + n : w[i] = IF i <= m THEN f[i] ELSE g[i - m]
    BY <1>7, <1>8, ConcatProperties
  <1>10. \A i \in 1 .. m + n : v[i] = IF i <= m THEN q[i] ELSE t[i - m]
    BY <1>1, <1>5, <1>6, ConcatProperties
  <1>11. \A i \in 1 .. m + n : h[i] = w[i]
    <2> SUFFICES ASSUME NEW i \in 1 .. m + n PROVE h[i] = w[i]
      OBVIOUS
    <2>1. h[i] = v[i].size
      BY <1>1, <1>4, <1>7, SizesOfType
    <2>2. CASE i <= m
      <3>1. i \in 1 .. m
        BY <2>2
      <3>2. f[i] = q[i].size
        BY <1>2, <1>5, <3>1, SizesOfType
      <3> QED
        BY <1>9, <1>10, <2>1, <2>2, <3>2
    <2>3. CASE ~(i <= m)
      <3>1. i - m \in 1 .. n
        BY <2>3
      <3>2. g[i - m] = t[i - m].size
        BY <1>3, <1>6, <3>1, SizesOfType
      <3> QED
        BY <1>9, <1>10, <2>1, <2>3, <3>2
    <2> QED
      BY <2>2, <2>3
  <1>12. h = w
    BY <1>7, <1>9, <1>11, SeqEqual
  <1>13. SumFunction(w) = SumFunction(f) + SumFunction(g)
    BY <1>8, SeqSumConcat
  <1> QED
    BY <1>1, <1>2, <1>3, <1>4, <1>12, <1>13 DEF Sized

-----------------------------------------------------------------------------
\* The oldest k announcements of a queue, taken out of it: the rest are the
\* others, all of them newer, and the bytes are divided between the two.
Divides(q, k) ==
    /\ Len(Oldest(q, k)) = k
    /\ Oldest(q, k) \in Seq(RequestType)
    /\ Speeches(Without(q, k)) = Speeches(q) - k
    /\ BytesOf(Oldest(q, k)) \in Nat /\ BytesOf(Without(q, k)) \in Nat
    /\ BytesOf(q) = BytesOf(Oldest(q, k)) + BytesOf(Without(q, k))
    /\ \A i \in 1 .. k, j \in 1 .. Speeches(Without(q, k)) :
          Oldest(q, k)[i].id < SpeechOf(Without(q, k))[j].id

LEMMA SpeechFacts ==
    ASSUME NEW q, NEW c, NEW s, NEW n, InLine(q, c, s, n)
    PROVE  /\ SpeechOf(q) \in Seq(RequestType) /\ Speeches(q) \in Nat /\ BytesOf(q) \in Nat
           /\ \A i \in 1 .. Speeches(q) : IsSpeech(SpeechOf(q)[i]) /\ SpeechOf(q)[i] \in Range(q)
           /\ \A i, j \in 1 .. Speeches(q) : i < j => SpeechOf(q)[i].id < SpeechOf(q)[j].id
           /\ \A i \in 1 .. Speeches(q) : SpeechOf(q)[i].id < n
  <1>0. q \in Seq(RequestType)
    BY DEF InLine
  <1>1. PICK t \in Seq(RequestType) : t = SpeechOf(q)
    BY <1>0, OfKindsFacts DEF SpeechOf
  <1>2. Speeches(q) = Len(t) /\ Len(t) \in Nat
    BY <1>1, LenProperties DEF Speeches
  <1>3. \A i \in 1 .. Len(t) : IsSpeech(t[i])
    BY <1>0, <1>1, OfKindsFacts DEF SpeechOf, IsSpeech
  <1>4. InLine(t, c, s, n)
    BY <1>1, OnlyInLine DEF SpeechOf, OfKinds
  <1>5. \A i, j \in 1 .. Len(t) : i < j => t[i].id < t[j].id
    BY <1>3, <1>4 DEF InLine, SpeechAscends
  <1>6. \A i \in 1 .. Len(t) : t[i].id < n
    BY <1>4 DEF InLine, Since
  <1>7. BytesOf(q) \in Nat
    <2>1. BytesOf(q) = Sized(t)
      BY <1>1 DEF BytesOf, Sized
    <2> QED
      BY <2>1, SizesOfType
  <1>8. \A i \in 1 .. Len(t) : t[i] \in Range(q)
    <2>1. PICK B : t = Filter(q, B)
      BY <1>1 DEF SpeechOf, OfKinds, Only, Filter
    <2>2. PICK p : FilterAt(q, B, p)
      BY <1>0, FilterOrder
    <2>3. \A i \in 1 .. Len(t) : p[i] \in 1 .. Len(q) /\ t[i] = q[p[i]]
      BY <2>1, <2>2 DEF FilterAt
    <2>4. DOMAIN q = 1 .. Len(q)
      BY <1>0, LenProperties
    <2> QED
      BY <2>3, <2>4 DEF Range
  <1> QED
    BY <1>1, <1>2, <1>3, <1>5, <1>6, <1>7, <1>8

LEMMA CutDivides ==
    ASSUME NEW q, NEW c, NEW s, NEW n, InLine(q, c, s, n), NEW k \in 0 .. Speeches(q)
    PROVE  Divides(q, k)
  <1>0. q \in Seq(RequestType)
    BY DEF InLine
  <1>1. PICK t \in Seq(RequestType) : t = SpeechOf(q)
    BY SpeechFacts
  <1>2. PICK m \in Nat : m = Len(t)
    BY LenProperties
  <1>3. Speeches(q) = m /\ k \in 0 .. m /\ k \in Int /\ k \in Nat
    BY <1>1, <1>2 DEF Speeches
  <1>4. \A i \in 1 .. m : t[i] \in RequestType /\ IsSpeech(t[i]) /\ t[i] \in Range(q)
    BY <1>1, <1>2, <1>3, SpeechFacts, ElementOfSeq
  <1>5. \A i, j \in 1 .. m : i < j => t[i].id < t[j].id
    BY <1>1, <1>3, SpeechFacts
  <1>6. PICK a \in Seq(RequestType) : a = SubSeq(t, 1, k) /\ Len(a) = k /\ \A i \in 1 .. k : a[i] = t[i]
    <2>1. \A i \in 1 .. k : t[i] \in RequestType
      BY <1>3, <1>4
    <2>2. SubSeq(t, 1, k) \in Seq(RequestType)
      BY <1>3, <2>1, SubSeqProperties
    <2>3. Len(SubSeq(t, 1, k)) = IF 1 <= k THEN k - 1 + 1 ELSE 0
      BY <1>3, <2>1, SubSeqProperties
    <2>4. \A i \in 1 .. k - 1 + 1 : SubSeq(t, 1, k)[i] = t[1 + i - 1]
      BY <1>3, <2>1, SubSeqProperties
    <2>5. PICK u : u = SubSeq(t, 1, k)
      OBVIOUS
    <2>6. Len(u) = k
      BY <1>3, <2>3, <2>5
    <2>7. \A i \in 1 .. k : i \in 1 .. k - 1 + 1 /\ 1 + i - 1 = i
      BY <1>3
    <2>8. \A i \in 1 .. k : u[i] = t[i]
      BY <2>4, <2>5, <2>7
    <2> QED
      BY <2>2, <2>5, <2>6, <2>8
  <1>7. PICK b \in Seq(RequestType) : /\ b = SubSeq(t, k + 1, m) /\ Len(b) = m - k
                                     /\ \A i \in 1 .. m - k : b[i] = t[k + i]
    <2>1. \A i \in k + 1 .. m : t[i] \in RequestType
      BY <1>3, <1>4
    <2>2. SubSeq(t, k + 1, m) \in Seq(RequestType)
      BY <1>3, <2>1, SubSeqProperties
    <2>3. Len(SubSeq(t, k + 1, m)) = IF k + 1 <= m THEN m - (k + 1) + 1 ELSE 0
      BY <1>3, <2>1, SubSeqProperties
    <2>4. \A i \in 1 .. m - (k + 1) + 1 : SubSeq(t, k + 1, m)[i] = t[(k + 1) + i - 1]
      BY <1>3, <2>1, SubSeqProperties
    <2>5. PICK u : u = SubSeq(t, k + 1, m)
      OBVIOUS
    <2>6. Len(u) = m - k
      BY <1>3, <2>3, <2>5
    <2>7. \A i \in 1 .. m - k : i \in 1 .. m - (k + 1) + 1 /\ (k + 1) + i - 1 = k + i
      BY <1>3
    <2>8. \A i \in 1 .. m - k : u[i] = t[k + i]
      BY <2>4, <2>5, <2>7
    <2> QED
      BY <2>2, <2>5, <2>6, <2>8
  <1>8. t = a \o b
    <2>1. 1 \in 1 .. Len(t) + 1 /\ k \in 1 - 1 .. Len(t) /\ m \in k .. Len(t)
      BY <1>2, <1>3
    <2>2. SubSeq(t, 1, k) \o SubSeq(t, k + 1, m) = SubSeq(t, 1, m)
      BY <2>1, ConcatAdjacentSubSeq
    <2>3. SubSeq(t, 1, m) = t
      BY <1>2, SubSeqFull
    <2> QED
      BY <1>6, <1>7, <2>2, <2>3
  <1>9. Oldest(q, k) = a
    BY <1>1, <1>6 DEF Oldest
  <1>10. \A i \in 1 .. k, j \in 1 .. m - k : a[i].id < b[j].id
    <2> SUFFICES ASSUME NEW i \in 1 .. k, NEW j \in 1 .. m - k PROVE a[i].id < b[j].id
      OBVIOUS
    <2>1. i \in 1 .. m /\ k + j \in 1 .. m /\ i < k + j
      BY <1>3
    <2> QED
      BY <1>5, <1>6, <1>7, <2>1
  <1>11. SpeechOf(Without(q, k)) = b
    <2>1. PICK D : D = Range(q) \ Range(a)
      OBVIOUS
    <2>2. Without(q, k) = Only(q, D)
      BY <1>9, <2>1 DEF Without
    <2>3. OfOnly(q, D, SpeechKinds)
      BY <1>0, OfKindsOnly
    <2>4. SpeechOf(Without(q, k)) = Only(t, D)
      BY <1>1, <2>2, <2>3 DEF SpeechOf, OfOnly
    <2>5. Only(t, D) = Filter(t, D)
      BY DEF Only, Filter
    <2>6. Filter(a \o b, D) = Filter(a, D) \o Filter(b, D)
      BY FilterConcat
    <2>7. DOMAIN a = 1 .. k
      BY <1>6, LenProperties
    <2>8. \A i \in 1 .. Len(a) : a[i] \notin D
      BY <1>6, <2>1, <2>7 DEF Range
    <2>9. \A j \in 1 .. Len(b) : b[j] \in D
      <3> SUFFICES ASSUME NEW j \in 1 .. m - k PROVE b[j] \in D
        BY <1>7
      <3>1. k + j \in 1 .. m /\ b[j] = t[k + j]
        BY <1>3, <1>7
      <3>2. b[j] \in Range(q) /\ b[j] \in RequestType
        BY <1>4, <3>1
      <3>3. b[j].id \in Nat
        BY <3>2, RequestFacts
      <3>4. ASSUME NEW i \in 1 .. k, a[i] = b[j] PROVE FALSE
        <4>1. a[i].id < b[j].id
          BY <1>10
        <4> QED
          BY <3>3, <3>4, <4>1
      <3>5. b[j] \notin Range(a)
        BY <2>7, <3>4 DEF Range
      <3> QED
        BY <2>1, <3>2, <3>5
    <2>10. Filter(a, D) = <<>>
      BY <2>8, FilterNone
    <2>11. Filter(b, D) = b
      BY <2>9, FilterAll
    <2>12. <<>> \o b = b
      BY ConcatEmptySeq
    <2> QED
      BY <1>8, <2>4, <2>5, <2>6, <2>10, <2>11, <2>12
  <1>12. SpeechOf(a) = a
    <2>1. \A i \in 1 .. Len(a) : a[i].kind \in SpeechKinds
      BY <1>3, <1>4, <1>6 DEF IsSpeech
    <2> QED
      BY <2>1, OfKindsAll DEF SpeechOf
  <1>13. BytesOf(Oldest(q, k)) = Sized(a) /\ BytesOf(Without(q, k)) = Sized(b) /\ BytesOf(q) = Sized(t)
    BY <1>1, <1>9, <1>11, <1>12 DEF BytesOf, Sized
  <1>14. Sized(a) \in Nat /\ Sized(b) \in Nat /\ Sized(a \o b) = Sized(a) + Sized(b)
    BY SizesOfType, SizedConcat
  <1>15. Speeches(Without(q, k)) = m - k
    BY <1>7, <1>11 DEF Speeches
  <1> QED
    BY <1>3, <1>6, <1>8, <1>9, <1>10, <1>11, <1>13, <1>14, <1>15 DEF Divides

\* enqueue_speech makes room: an announcement and its bytes more still fit.
Fits(q, k, size) ==
    /\ k \in 0 .. Speeches(q)
    /\ Speeches(q) - k + 1 <= MaxItems
    /\ BytesOf(q) - BytesOf(Oldest(q, k)) + size <= MaxBytes

LEMMA DropsEnough ==
    ASSUME NEW q, NEW c, NEW s, NEW n, InLine(q, c, s, n), Speeches(q) <= MaxItems,
           NEW size \in 0 .. ItemBytes
    PROVE  Fits(q, DropFor(q, Speeches(q), BytesOf(q), size), size)
  <1>1. PICK m \in Nat : m = Speeches(q)
    BY SpeechFacts
  <1>2. PICK b \in Nat : b = BytesOf(q)
    BY SpeechFacts
  <1>3. PICK K : K = {k \in 0 .. Speeches(q) :
                         \/ k = Speeches(q)
                         \/ /\ Speeches(q) - k # MaxItems
                            /\ BytesOf(q) - BytesOf(Oldest(q, k)) + size <= MaxBytes}
    OBVIOUS
  <1>4. K \in SUBSET Int /\ IsFiniteSet(K) /\ K # {}
    <2>1. IsFiniteSet(0 .. m)
      BY FS_Interval
    <2>2. m \in 0 .. m /\ 0 .. m \subseteq Int
      OBVIOUS
    <2>3. K \subseteq 0 .. m
      BY <1>1, <1>3
    <2>4. m \in K
      BY <1>1, <1>3, <2>2
    <2>5. IsFiniteSet(K)
      BY <2>1, <2>3, FS_Subset
    <2> QED
      BY <2>2, <2>3, <2>4, <2>5
  <1>5. PICK k \in K : k = Min(K)
    BY <1>4, MinIsElement
  <1>6. DropFor(q, Speeches(q), BytesOf(q), size) = k
    BY <1>3, <1>5 DEF DropFor
  <1>7. /\ k \in 0 .. Speeches(q)
        /\ \/ k = Speeches(q)
           \/ /\ Speeches(q) - k # MaxItems
              /\ BytesOf(q) - BytesOf(Oldest(q, k)) + size <= MaxBytes
    BY <1>3, <1>5
  <1>8. Divides(q, k)
    BY <1>7, CutDivides
  <1>9. PICK o \in Nat : o = BytesOf(Oldest(q, k))
    BY <1>8 DEF Divides
  <1>10. k \in 0 .. m /\ (k = m \/ m - k # MaxItems)
    BY <1>1, <1>7
  <1>11. MaxItems \in Nat \ {0} /\ m <= MaxItems
    BY <1>1, LimitAssumption
  <1>12. MaxBytes \in Nat /\ ItemBytes \in Nat /\ ItemBytes <= MaxBytes
    BY LimitAssumption
  <1>13. m - k + 1 <= MaxItems
    BY <1>11, <1>10
  <1>14. b - o + size <= MaxBytes
    <2>1. CASE k # m
      BY <1>1, <1>2, <1>7, <1>9, <2>1
    <2>2. CASE k = m
      <3>1. SpeechOf(Without(q, k)) = <<>> /\ BytesOf(Without(q, k)) = Sized(<<>>)
        <4>1. InLine(Without(q, k), c, s, n)
          BY OnlyInLine DEF Without
        <4>2. SpeechOf(Without(q, k)) \in Seq(RequestType) /\ Len(SpeechOf(Without(q, k))) = 0
          BY <1>1, <1>8, <2>2, <4>1, SpeechFacts DEF Divides, Speeches
        <4>3. SpeechOf(Without(q, k)) = <<>>
          BY <4>2, EmptySeq
        <4> QED
          BY <4>3 DEF BytesOf, Sized
      <3>2. Sized(<<>>) = 0
        <4>1. <<>> \in Seq(RequestType) /\ Len(<<>>) = 0
          BY EmptySeq
        <4>2. SizesOf(<<>>) \in Seq(Nat) /\ Len(SizesOf(<<>>)) = 0
          BY <4>1, SizesOfType
        <4>3. SizesOf(<<>>) = <<>>
          BY <4>2, EmptySeq
        <4> QED
          BY <4>3, SeqSumEmpty DEF Sized
      <3>3. b = o
        BY <1>2, <1>8, <1>9, <3>1, <3>2 DEF Divides
      <3> QED
        BY <1>12, <3>3
    <2> QED
      BY <2>1, <2>2
  <1>15. Fits(q, k, size)
    BY <1>1, <1>2, <1>7, <1>13, <1>14, <1>9 DEF Fits
  <1> QED
    BY <1>6, <1>15

-----------------------------------------------------------------------------
(* The operations of the mailbox.                                          *)

SpeechAppended(q, r) ==
    /\ Speeches(Append(q, r)) = IF IsSpeech(r) THEN Speeches(q) + 1 ELSE Speeches(q)
    /\ BytesOf(Append(q, r)) = IF IsSpeech(r) THEN BytesOf(q) + r.size ELSE BytesOf(q)
    /\ Single(q) /\ r.kind \notin {"stop", "rate", "server"} => Single(Append(q, r))

\* How the counters change with a request at the end,
LEMMA AppendCounts ==
    ASSUME NEW q \in Seq(RequestType), NEW r \in RequestType
    PROVE  SpeechAppended(q, r)
  <1>1. OfAppend(q, r, SpeechKinds)
    BY OfKindsAppend
  <1>2. PICK t \in Seq(RequestType) : t = SpeechOf(q)
    BY OfKindsFacts DEF SpeechOf
  <1>3. SpeechOf(Append(q, r)) = IF IsSpeech(r) THEN Append(t, r) ELSE t
    BY <1>1, <1>2 DEF OfAppend, SpeechOf, IsSpeech
  <1>4. Len(Append(t, r)) = Len(t) + 1
    BY AppendProperties
  <1>5. Sized(Append(t, r)) = Sized(t) + r.size
    <2>1. <<r>> \in Seq(RequestType) /\ Append(t, r) = t \o <<r>>
      BY AppendIsConcat
    <2>2. Sized(t \o <<r>>) = Sized(t) + Sized(<<r>>)
      BY <2>1, SizedConcat
    <2>3. Sized(<<r>>) = r.size
      <3>1. r.size \in Nat
        BY RequestFacts
      <3>2. <<>> \in Seq(Nat) /\ Append(<<>>, r.size) = <<r.size>>
        BY EmptySeq
      <3>3. SumFunction(<<r.size>>) = 0 + r.size
        BY <3>1, <3>2, SeqSumAppend, SeqSumEmpty
      <3>4. SizesOf(<<r>>) = <<r.size>>
        BY DEF SizesOf
      <3> QED
        BY <3>1, <3>3, <3>4 DEF Sized
    <2> QED
      BY <2>1, <2>2, <2>3
  <1>6. Single(q) /\ r.kind \notin {"stop", "rate", "server"} => Single(Append(q, r))
    <2> SUFFICES ASSUME Single(q), r.kind \notin {"stop", "rate", "server"},
                        NEW kind \in {"stop", "rate", "server"}
                 PROVE Len(OfKinds(Append(q, r), {kind})) <= 1
      BY DEF Single
    <2>1. OfAppend(q, r, {kind})
      BY OfKindsAppend
    <2>2. OfKinds(Append(q, r), {kind}) = OfKinds(q, {kind})
      BY <2>1 DEF OfAppend
    <2> QED
      BY <2>2 DEF Single
  <1> QED
    BY <1>2, <1>3, <1>4, <1>5, <1>6 DEF SpeechAppended, Speeches, BytesOf, Sized

\* and with a request less at the beginning.
SpeechTaken(q) ==
    /\ Speeches(<<Head(q)>>) \in Nat /\ Speeches(Tail(q)) \in Nat
    /\ Speeches(q) = Speeches(<<Head(q)>>) + Speeches(Tail(q))
    /\ BytesOf(<<Head(q)>>) \in Nat /\ BytesOf(Tail(q)) \in Nat
    /\ BytesOf(q) = BytesOf(<<Head(q)>>) + BytesOf(Tail(q))
    /\ Single(q) => Single(Tail(q))

LEMMA TailCounts ==
    ASSUME NEW q \in Seq(RequestType), q # <<>>
    PROVE  SpeechTaken(q)
  <1>1. PICK r \in RequestType : r = Head(q)
    BY HeadTailProperties
  <1>2. PICK t \in Seq(RequestType) : t = Tail(q)
    BY HeadTailProperties
  <1>3. PICK h \in Seq(RequestType) : h = <<r>> /\ Len(h) = 1 /\ h[1] = r
    <2>1. <<r>> \in Seq(RequestType)
      BY EmptySeq, AppendProperties
    <2> QED
      BY <2>1
  <1>4. q = h \o t
    <2>1. PICK k \in Nat : k = Len(q) /\ k # 0
      BY EmptySeq, LenProperties
    <2>2. Len(t) = k - 1 /\ \A i \in 1 .. k - 1 : t[i] = q[i + 1]
      BY <1>2, <1>3, <2>1, HeadTailProperties
    <2>3. PICK v \in Seq(RequestType) : v = h \o t
      BY ConcatProperties
    <2>4. Len(v) = k /\ \A i \in 1 .. k : v[i] = IF i <= 1 THEN h[i] ELSE t[i - 1]
      <3>1. /\ Len(h \o t) = Len(h) + Len(t)
            /\ \A i \in 1 .. Len(h) + Len(t) : (h \o t)[i] = IF i <= Len(h) THEN h[i] ELSE t[i - Len(h)]
        BY ConcatProperties
      <3>2. Len(h) = 1 /\ Len(h) + Len(t) = k
        BY <1>3, <2>1, <2>2
      <3> QED
        BY <2>3, <3>1, <3>2
    <2>5. \A i \in 1 .. k : v[i] = q[i]
      <3> SUFFICES ASSUME NEW i \in 1 .. k PROVE v[i] = q[i]
        OBVIOUS
      <3>1. CASE i = 1
        BY <1>1, <1>3, <2>1, <2>2, <2>4, <3>1, HeadTailProperties
      <3>2. CASE i # 1
        <4>1. PICK j \in 1 .. k - 1 : j = i - 1
          BY <3>2
        <4>2. j + 1 = i /\ t[j] = q[j + 1]
          BY <2>2, <4>1
        <4> QED
          BY <2>4, <3>2, <4>1, <4>2
      <3> QED
        BY <3>1, <3>2
    <2> QED
      BY <2>1, <2>3, <2>4, <2>5, SeqEqual
  <1>5. \A kinds : OfKinds(h \o t, kinds) = OfKinds(h, kinds) \o OfKinds(t, kinds)
    BY OfKindsConcat DEF OfConcat
  <1>6. PICK a \in Seq(RequestType) : a = SpeechOf(h)
    BY OfKindsFacts DEF SpeechOf
  <1>7. PICK b \in Seq(RequestType) : b = SpeechOf(t)
    BY OfKindsFacts DEF SpeechOf
  <1>8. SpeechOf(q) = a \o b
    BY <1>4, <1>5, <1>6, <1>7 DEF SpeechOf
  <1>9. Len(a \o b) = Len(a) + Len(b) /\ Len(a) \in Nat /\ Len(b) \in Nat
    BY ConcatProperties, LenProperties
  <1>10. Sized(a \o b) = Sized(a) + Sized(b) /\ Sized(a) \in Nat /\ Sized(b) \in Nat
    BY SizedConcat, SizesOfType
  <1>11. Single(q) => Single(t)
    <2> SUFFICES ASSUME Single(q), NEW kind \in {"stop", "rate", "server"}
                 PROVE Len(OfKinds(t, {kind})) <= 1
      BY DEF Single
    <2>1. PICK c \in Seq(RequestType) : c = OfKinds(h, {kind})
      BY OfKindsFacts
    <2>2. PICK d \in Seq(RequestType) : d = OfKinds(t, {kind})
      BY OfKindsFacts
    <2>3. Len(c \o d) <= 1
      BY <1>4, <1>5, <2>1, <2>2 DEF Single
    <2>4. Len(c \o d) = Len(c) + Len(d) /\ Len(c) \in Nat /\ Len(d) \in Nat
      BY ConcatProperties, LenProperties
    <2>5. Len(d) <= 1
      BY <2>3, <2>4
    <2> QED
      BY <2>2, <2>5
  <1>12. /\ Speeches(h) = Len(a) /\ Speeches(t) = Len(b) /\ Speeches(q) = Len(a \o b)
         /\ BytesOf(h) = Sized(a) /\ BytesOf(t) = Sized(b) /\ BytesOf(q) = Sized(a \o b)
    BY <1>6, <1>7, <1>8 DEF Speeches, BytesOf, Sized
  <1>13. h = <<Head(q)>> /\ t = Tail(q)
    BY <1>1, <1>2, <1>3
  <1> QED
    BY <1>9, <1>10, <1>11, <1>12, <1>13 DEF SpeechTaken

\* Without announcements the newest cut and the last one spoken do not matter.
LEMMA NoSpeech ==
    ASSUME NEW q, NEW c, NEW s, NEW n, InLine(q, c, s, n), Speeches(q) = 0, NEW d, NEW e
    PROVE  InLine(q, d, e, n)
  <1>0. q \in Seq(RequestType)
    BY DEF InLine
  <1>1. PICK B : B = [kind : SpeechKinds, size : Nat, id : Nat]
    OBVIOUS
  <1>2. SpeechOf(q) = Filter(q, B)
    BY <1>1 DEF SpeechOf, OfKinds, Only, Filter
  <1>3. Len(Filter(q, B)) = 0
    BY <1>2 DEF Speeches
  <1>4. ASSUME NEW i \in 1 .. Len(q), IsSpeech(q[i]) PROVE FALSE
    <2>1. q[i] \in RequestType
      BY <1>0, ElementOfSeq
    <2>2. q[i] \in B
      BY <1>1, <1>4, <2>1, OfKindMeans DEF IsSpeech
    <2>3. \E j \in 1 .. Len(Filter(q, B)) : Filter(q, B)[j] = q[i]
      BY <1>0, <2>2, FilterHas
    <2> QED
      BY <1>3, <2>3
  <1>5. Since(q, d, e, n)
    BY <1>4 DEF InLine, Since
  <1> QED
    BY <1>5 DEF InLine

\* enqueue_speech on the queue q0: what it discards (d), what is left (q), what
\* it drops (k), what is left then (t), and the announcement (r).
Announced(q0, d, q, k, t, r, interrupt, c, s, n) ==
    /\ InLine(Append(t, r), IF interrupt THEN n ELSE c, s, n + 1)
    /\ Speeches(Append(t, r)) = Speeches(q0) - d - k + 1
    /\ Speeches(Append(t, r)) <= MaxItems
    /\ BytesOf(Append(t, r)) = BytesOf(q0) - BytesOf(Oldest(q0, d)) - BytesOf(Oldest(q, k)) + r.size
    /\ BytesOf(Append(t, r)) <= MaxBytes
    /\ Speeches(Append(t, r)) \in Nat /\ BytesOf(Append(t, r)) \in Nat
    /\ Single(q0) => Single(Append(t, r))
    /\ Ids(Oldest(q, k)) \subseteq 1 .. MaxId
    /\ \A i \in Ids(Oldest(q, k)) : \A x \in Range(SpeechOf(Append(t, r))) : i < x.id

LEMMA SpeakKeeps ==
    ASSUME NEW q0, NEW c \in Nat, NEW s \in Nat, NEW n \in Nat, InLine(q0, c, s, n), c < n, s < n,
           Speeches(q0) <= MaxItems, NEW interrupt \in BOOLEAN,
           NEW d, d = IF interrupt THEN Speeches(q0) ELSE 0,
           NEW q, q = Without(q0, d),
           NEW r \in RequestType, IsSpeech(r), r.id = n,
           NEW k, k = DropFor(q, Speeches(q0) - d, BytesOf(q0) - BytesOf(Oldest(q0, d)), r.size),
           NEW t, t = Without(q, k)
    PROVE  Announced(q0, d, q, k, t, r, interrupt, c, s, n)
  <1>1. PICK m \in Nat : m = Speeches(q0) /\ BytesOf(q0) \in Nat
    BY SpeechFacts
  <1>2. d \in 0 .. Speeches(q0)
    BY <1>1
  <1>3. Divides(q0, d)
    BY <1>2, CutDivides
  <1>4. PICK l \in Nat : l = Speeches(q) /\ l = m - d
    BY <1>1, <1>2, <1>3 DEF Divides
  <1>5. PICK b \in Nat : b = BytesOf(q) /\ b = BytesOf(q0) - BytesOf(Oldest(q0, d))
    <2>1. PICK x \in Nat : x = BytesOf(q0)
      BY <1>1
    <2>2. PICK y \in Nat : y = BytesOf(Oldest(q0, d))
      BY <1>3 DEF Divides
    <2>3. PICK z \in Nat : z = BytesOf(q)
      BY <1>3 DEF Divides
    <2>4. x = y + z
      BY <1>3, <2>1, <2>2, <2>3 DEF Divides
    <2>5. z = x - y
      BY <2>4
    <2> QED
      BY <2>1, <2>2, <2>3, <2>5
  <1>6. InLine(q, c, s, n)
    BY OnlyInLine DEF Without
  <1>7. k = DropFor(q, Speeches(q), BytesOf(q), r.size)
    BY <1>1, <1>4, <1>5
  <1>8. r.size \in 0 .. ItemBytes
    BY LimitAssumption DEF RequestType
  <1>9. Speeches(q) <= MaxItems
    BY <1>1, <1>2, <1>4, LimitAssumption
  <1>10. Fits(q, k, r.size)
    BY <1>6, <1>7, <1>8, <1>9, DropsEnough
  <1>11. k \in 0 .. l /\ l - k + 1 <= MaxItems
    BY <1>4, <1>10 DEF Fits
  <1>12. Divides(q, k)
    BY <1>6, <1>10, CutDivides DEF Fits
  <1>13. PICK o \in Nat : o = BytesOf(Oldest(q, k))
    BY <1>12 DEF Divides
  <1>14. PICK e \in Nat : e = BytesOf(t) /\ b = o + e
    BY <1>5, <1>12, <1>13 DEF Divides
  <1>15. Speeches(t) = l - k
    BY <1>4, <1>12 DEF Divides
  <1>16. InLine(t, c, s, n)
    BY <1>6, OnlyInLine DEF Without
  <1>17. InLine(t, IF interrupt THEN n ELSE c, s, n)
    <2>1. CASE ~interrupt
      BY <1>16, <2>1
    <2>2. CASE interrupt
      <3>1. Speeches(t) = 0
        BY <1>1, <1>4, <1>11, <1>15, <2>2
      <3> QED
        BY <1>16, <2>2, <3>1, NoSpeech
    <2> QED
      BY <2>1, <2>2
  <1>18. InLine(Append(t, r), IF interrupt THEN n ELSE c, s, n + 1)
    <2>1. PICK h \in Nat : h = IF interrupt THEN n ELSE c
      OBVIOUS
    <2>2. h <= n
      BY <2>1
    <2>3. InLine(t, h, s, n)
      BY <1>17, <2>1
    <2>4. InLine(Append(t, r), h, s, n + 1)
      BY <2>2, <2>3, AppendInLine
    <2> QED
      BY <2>1, <2>4
  <1>19. t \in Seq(RequestType) /\ q \in Seq(RequestType) /\ q0 \in Seq(RequestType)
    BY <1>6, <1>16 DEF InLine
  <1>20. SpeechAppended(t, r)
    BY <1>19, AppendCounts
  <1>21. Speeches(Append(t, r)) = l - k + 1 /\ BytesOf(Append(t, r)) = e + r.size
    BY <1>14, <1>15, <1>20 DEF SpeechAppended
  <1>22. b - o + r.size <= MaxBytes /\ b - o + r.size = e + r.size
    <2>1. b - o + r.size <= MaxBytes
      BY <1>5, <1>10, <1>13 DEF Fits
    <2> QED
      BY <1>8, <1>14, <2>1
  <1>23. Single(q0) => Single(Append(t, r))
    <2>1. Single(q0) => Single(q)
      BY <1>19, OnlySingle DEF Without
    <2>2. Single(q) => Single(t)
      BY <1>19, OnlySingle DEF Without
    <2>3. r.kind \notin {"stop", "rate", "server"}
      BY DEF IsSpeech, SpeechKinds
    <2> QED
      BY <1>20, <2>1, <2>2, <2>3 DEF SpeechAppended
  <1>24. PICK a \in Seq(RequestType) : a = Oldest(q, k) /\ Len(a) = k
    BY <1>12 DEF Divides
  <1>25. DOMAIN a = 1 .. k
    BY <1>24, LenProperties
  <1>26. \A i \in 1 .. k : a[i] \in RequestType /\ a[i].id \in 1 .. MaxId
    <2>1. \A i \in 1 .. k : a[i] \in RequestType
      BY <1>24, ElementOfSeq
    <2> QED
      BY <2>1, RequestFacts
  <1>27. Ids(a) = {a[i].id : i \in 1 .. k}
    BY <1>25 DEF Ids
  <1>28. ASSUME NEW i \in 1 .. k, NEW x \in Range(SpeechOf(Append(t, r))) PROVE a[i].id < x.id
    <2>1. PICK v \in Seq(RequestType) : v = SpeechOf(t)
      BY <1>16, SpeechFacts
    <2>2. PICK j \in Nat : j = Len(v) /\ j = l - k
      BY <1>15, <2>1, LenProperties DEF Speeches
    <2>3. PICK w \in Seq(RequestType) : w = SpeechOf(Append(t, r))
      BY <1>18, SpeechFacts
    <2>4. OfAppend(t, r, SpeechKinds)
      BY <1>19, OfKindsAppend
    <2>5. w = Append(v, r)
      BY <2>1, <2>3, <2>4 DEF OfAppend, SpeechOf, IsSpeech
    <2>6. PICK g \in Nat : g = j + 1
      OBVIOUS
    <2>7. Len(w) = g /\ w[g] = r /\ \A z \in 1 .. j : w[z] = v[z]
      BY <2>1, <2>2, <2>5, <2>6, AppendProperties
    <2>8. DOMAIN w = 1 .. g
      BY <2>7, LenProperties
    <2>9. PICK z \in 1 .. g : x = w[z]
      BY <2>3, <2>8 DEF Range
    <2>10. CASE z = g
      <3>1. x.id = n
        BY <2>7, <2>9, <2>10
      <3>2. SpeechOf(q) \in Seq(RequestType) /\ \A u \in 1 .. l : SpeechOf(q)[u].id < n
        BY <1>4, <1>6, SpeechFacts
      <3>3. a[i] = SpeechOf(q)[i]
        <4>1. PICK f \in Seq(RequestType) : f = SpeechOf(q) /\ Len(f) = l
          BY <1>4, <3>2 DEF Speeches
        <4>2. \A u \in 1 .. k : f[u] \in RequestType
          BY <1>11, <4>1, ElementOfSeq
        <4>3. \A u \in 1 .. k - 1 + 1 : SubSeq(f, 1, k)[u] = f[1 + u - 1]
          BY <1>11, <4>2, SubSeqProperties
        <4>4. i \in 1 .. k - 1 + 1 /\ 1 + i - 1 = i
          BY <1>11
        <4>5. a = SubSeq(f, 1, k)
          BY <1>24, <4>1 DEF Oldest
        <4>6. SubSeq(f, 1, k)[i] = f[1 + i - 1]
          BY <4>3, <4>4
        <4> QED
          BY <4>1, <4>4, <4>5, <4>6
      <3>4. i \in 1 .. l
        BY <1>11
      <3> QED
        BY <3>1, <3>2, <3>3, <3>4
    <2>11. CASE z # g
      <3>1. z \in 1 .. j
        BY <2>6, <2>11
      <3>2. x = v[z]
        BY <2>7, <2>9, <3>1
      <3>3. z \in 1 .. Speeches(t)
        BY <1>15, <2>2, <3>1
      <3> QED
        BY <1>12, <1>24, <2>1, <3>2, <3>3 DEF Divides
    <2> QED
      BY <2>10, <2>11
  <1>29. \A i \in Ids(a) : \A x \in Range(SpeechOf(Append(t, r))) : i < x.id
    BY <1>27, <1>28
  <1>30. Ids(a) \subseteq 1 .. MaxId
    BY <1>26, <1>27
  <1>31. Speeches(Append(t, r)) = Speeches(q0) - d - k + 1 /\ l - k + 1 \in Nat
    <2>1. d \in 0 .. m /\ k \in 0 .. l
      BY <1>1, <1>2, <1>11
    <2>2. l = m - d
      BY <1>4
    <2>3. l - k + 1 \in Nat
      BY <1>4, <2>1
    <2> QED
      BY <1>1, <1>21, <2>2, <2>3
  <1>32. BytesOf(Append(t, r)) = BytesOf(q0) - BytesOf(Oldest(q0, d)) - BytesOf(Oldest(q, k)) + r.size
    BY <1>5, <1>13, <1>21, <1>22
  <1>33. e + r.size \in Nat
    BY <1>8
  <1> QED
    BY <1>11, <1>18, <1>21, <1>22, <1>23, <1>24, <1>29, <1>30, <1>31, <1>32, <1>33 DEF Announced

\* A control request before the others, instead of the one of its kind.
Replaces(q, t, c, s, n) ==
    /\ InLine(t, c, s, n + 1)
    /\ Speeches(t) = Speeches(q) /\ BytesOf(t) = BytesOf(q)
    /\ Single(t)

LEMMA CoalescedKeeps ==
    ASSUME NEW q, NEW c \in Nat, NEW s \in Nat, NEW n \in Nat, InLine(q, c, s, n), Single(q),
           NEW kind \in {"stop", "rate", "server"},
           NEW r \in RequestType, r.kind = kind, r.id = n,
           NEW t, t = <<r>> \o OfKinds(q, Kinds \ {kind})
    PROVE  Replaces(q, t, c, s, n)
  <1>0. q \in Seq(RequestType)
    BY DEF InLine
  <1>1. PICK u \in Seq(RequestType) : u = OfKinds(q, Kinds \ {kind})
    BY <1>0, OfKindsFacts
  <1>2. PICK h \in Seq(RequestType) : h = <<r>> /\ Len(h) = 1 /\ h[1] = r
    <2>1. <<r>> \in Seq(RequestType)
      BY EmptySeq, AppendProperties
    <2> QED
      BY <2>1
  <1>3. t = h \o u
    BY <1>1, <1>2
  <1>4. InLine(u, c, s, n)
    BY <1>1, OnlyInLine DEF OfKinds
  <1>5. InLine(t, c, s, n + 1)
    <2>1. ~IsSpeech(r) /\ r.kind # "start"
      BY DEF IsSpeech, SpeechKinds
    <2>2. InLine(<<r>> \o u, c, s, n + 1)
      BY <1>4, <2>1, PrependInLine
    <2> QED
      BY <1>1, <2>2
  <1>6. SpeechOf(t) = SpeechOf(q)
    <2>1. OfConcat(h, u, SpeechKinds)
      BY OfKindsConcat
    <2>2. OfKinds(h, SpeechKinds) = <<>>
      <3>1. \A i \in 1 .. Len(h) : h[i].kind \notin SpeechKinds
        BY <1>2 DEF SpeechKinds
      <3> QED
        BY <3>1, OfKindsNone
    <2>3. PICK v \in Seq(RequestType) : v = SpeechOf(q)
      BY <1>0, OfKindsFacts DEF SpeechOf
    <2>4. OfKinds(u, SpeechKinds) = v
      <3>1. PICK D : D = [kind : Kinds \ {kind}, size : Nat, id : Nat]
        OBVIOUS
      <3>2. u = Only(q, D)
        BY <1>1, <3>1 DEF OfKinds
      <3>3. OfOnly(q, D, SpeechKinds)
        BY <1>0, OfKindsOnly
      <3>4. OfKinds(u, SpeechKinds) = Only(v, D)
        BY <2>3, <3>2, <3>3 DEF OfOnly, SpeechOf
      <3>5. Only(v, D) = OfKinds(v, Kinds \ {kind})
        BY <3>1 DEF OfKinds
      <3>6. \A i \in 1 .. Len(v) : v[i].kind \in SpeechKinds
        BY <1>0, <2>3, OfKindsFacts DEF SpeechOf
      <3>7. SpeechKinds \subseteq Kinds \ {kind}
        BY DEF SpeechKinds, Kinds
      <3>8. \A i \in 1 .. Len(v) : v[i].kind \in Kinds \ {kind}
        BY <3>6, <3>7
      <3>9. OfKinds(v, Kinds \ {kind}) = v
        BY <3>8, OfKindsAll
      <3> QED
        BY <3>4, <3>5, <3>9
    <2>5. <<>> \o v = v
      BY ConcatEmptySeq
    <2> QED
      BY <1>3, <2>1, <2>2, <2>3, <2>4, <2>5 DEF OfConcat, SpeechOf
  <1>7. ASSUME NEW other \in {"stop", "rate", "server"} PROVE Len(OfKinds(t, {other})) <= 1
    <2>1. OfConcat(h, u, {other})
      BY OfKindsConcat
    <2>2. PICK a \in Seq(RequestType) : a = OfKinds(h, {other})
      BY OfKindsFacts
    <2>3. PICK b \in Seq(RequestType) : b = OfKinds(u, {other})
      BY OfKindsFacts
    <2>4. OfKinds(t, {other}) = a \o b
      BY <1>3, <2>1, <2>2, <2>3 DEF OfConcat
    <2>5. Len(OfKinds(t, {other})) = Len(a) + Len(b) /\ Len(a) \in Nat /\ Len(b) \in Nat
      <3>1. Len(a \o b) = Len(a) + Len(b) /\ Len(a) \in Nat /\ Len(b) \in Nat
        BY ConcatProperties, LenProperties
      <3> QED
        BY <2>4, <3>1
    <2>6. PICK la \in Nat : la = Len(a)
      BY <2>5
    <2>7. PICK lb \in Nat : lb = Len(b)
      BY <2>5
    <2>8. (la <= 1 /\ lb = 0) \/ (la = 0 /\ lb <= 1) => Len(OfKinds(t, {other})) <= 1
      <3>1. (la <= 1 /\ lb = 0) \/ (la = 0 /\ lb <= 1) => la + lb <= 1
        BY <2>6, <2>7
      <3>2. Len(OfKinds(t, {other})) = la + lb
        BY <2>5, <2>6, <2>7
      <3> QED
        BY <3>1, <3>2
    <2>9. CASE other = kind
      <3>1. Len(a) <= 1
        BY <1>2, <2>2, OnlyType DEF OfKinds
      <3>2. \A i \in 1 .. Len(u) : u[i].kind \in Kinds \ {kind}
        BY <1>0, <1>1, OfKindsFacts
      <3>3. \A i \in 1 .. Len(u) : u[i].kind \notin {other}
        BY <2>9, <3>2
      <3>4. b = <<>>
        BY <2>3, <3>3, OfKindsNone
      <3>5. Len(b) = 0
        BY <3>4, EmptySeq
      <3> QED
        BY <2>6, <2>7, <2>8, <3>1, <3>5
    <2>10. CASE other # kind
      <3>1. \A i \in 1 .. Len(h) : h[i].kind \notin {other}
        BY <1>2, <2>10
      <3>2. a = <<>>
        BY <2>2, <3>1, OfKindsNone
      <3>3. Len(a) = 0
        BY <3>2, EmptySeq
      <3>4. Single(u)
        BY <1>0, <1>1, OnlySingle DEF OfKinds
      <3>5. Len(b) <= 1
        BY <2>3, <3>4 DEF Single
      <3> QED
        BY <2>6, <2>7, <2>8, <3>3, <3>5
    <2> QED
      BY <2>9, <2>10
  <1> QED
    BY <1>5, <1>6, <1>7 DEF Replaces, Single, Speeches, BytesOf

\* A queue without announcements counts nothing.
LEMMA EmptyCounts ==
    ASSUME NEW q \in Seq(RequestType), \A i \in 1 .. Len(q) : q[i].kind \notin SpeechKinds
    PROVE  Speeches(q) = 0 /\ BytesOf(q) = 0
  <1>1. SpeechOf(q) = <<>>
    BY OfKindsNone DEF SpeechOf
  <1>2. <<>> \in Seq(RequestType) /\ Len(<<>>) = 0
    BY EmptySeq
  <1>3. SizesOf(<<>>) \in Seq(Nat) /\ Len(SizesOf(<<>>)) = 0
    BY <1>2, SizesOfType
  <1>4. SizesOf(<<>>) = <<>>
    BY <1>3, EmptySeq
  <1> QED
    BY <1>1, <1>2, <1>4, SeqSumEmpty DEF Speeches, BytesOf

-----------------------------------------------------------------------------
\* What a step hands to the backend, and drops.
OrderStep ==
    /\ Handed /\ IsSpeech(busy') => busy'.id >= cut /\ busy'.id > spoken
    /\ \A id \in lost' \ lost : \A r \in Range(SpeechOf(requests')) : id < r.id
    /\ Handed /\ busy'.kind = "start" => \A r \in Range(requests') : r.id > busy'.id

LEMMA NewRequest ==
    ASSUME NEW n \in 1 .. MaxId, NEW kind \in Kinds, NEW size \in 0 .. ItemBytes,
           NEW r, r = [kind |-> kind, size |-> size, id |-> n]
    PROVE  r \in RequestType /\ r.kind = kind /\ r.size = size /\ r.id = n
  BY DEF RequestType

LEMMA MailStarts == Init => MailInv
  <1> SUFFICES ASSUME Init PROVE MailInv
    OBVIOUS
  <1>1. requests \in Seq(RequestType) /\ Len(requests) = 0
    BY EmptySeq DEF Init
  <1>2. MaxId \in Nat /\ MaxItems \in Nat /\ MaxBytes \in Nat
    BY LimitAssumption
  <1>3. TypeOK
    <2>1. {startWait, cut, spoken, rate, asked} \subseteq 0 .. MaxId
      BY <1>2 DEF Init, NoId
    <2>2. nextId \in 1 .. MaxId + 1
      BY <1>2 DEF Init
    <2>3. items \in Nat /\ bytes \in Nat
      BY DEF Init
    <2>4. /\ shutdown \in BOOLEAN /\ asleep \in BOOLEAN /\ worker \in {"ready", "busy", "done"}
          /\ busy \in RequestType \cup {NoRequest} /\ lost \subseteq 1 .. MaxId
      BY DEF Init
    <2> QED
      BY <1>1, <2>1, <2>2, <2>3, <2>4 DEF TypeOK
  <1>4. cut < nextId /\ spoken < nextId
    BY DEF Init, NoId
  <1>5. InLine(requests, cut, spoken, nextId)
    BY <1>1 DEF InLine, IdsApart, SpeechAscends, FencesFirst, Since
  <1>6. Speeches(requests) = 0 /\ BytesOf(requests) = 0
    <2>1. \A i \in 1 .. Len(requests) : requests[i].kind \notin SpeechKinds
      BY <1>1
    <2> QED
      BY <1>1, <2>1, EmptyCounts
  <1>7. ASSUME NEW kind PROVE Len(OfKinds(requests, {kind})) <= 1
    <2>1. \A i \in 1 .. Len(requests) : requests[i].kind \notin {kind}
      BY <1>1
    <2>2. OfKinds(requests, {kind}) = <<>>
      BY <1>1, <2>1, OfKindsNone
    <2> QED
      BY <2>2, EmptySeq
  <1>8. CountersExact
    <2>1. items = 0 /\ bytes = 0
      BY DEF Init
    <2>2. 0 <= MaxItems /\ 0 <= MaxBytes
      BY <1>2
    <2> QED
      BY <1>6, <1>7, <2>1, <2>2 DEF CountersExact
  <1> QED
    BY <1>3, <1>4, <1>5, <1>8 DEF MailInv

LEMMA SpeakSteps ==
    ASSUME MailInv, NEW size \in TextSizes, NEW interrupt \in BOOLEAN, Speak(size, interrupt)
    PROVE  MailInv' /\ OrderStep
  <1>1. PICK d : d = IF interrupt THEN Speeches(requests) ELSE 0
    OBVIOUS
  <1>2. PICK q : q = Without(requests, d)
    OBVIOUS
  <1>3. PICK r : r = [kind |-> IF interrupt THEN "interrupt" ELSE "speak", size |-> Bounded(size), id |-> nextId]
    OBVIOUS
  <1>4. PICK k : k = DropFor(q, Speeches(requests) - d, BytesOf(requests) - BytesOf(Oldest(requests, d)), r.size)
    OBVIOUS
  <1>5. PICK t : t = Without(q, k)
    OBVIOUS
  <1>6. nextId \in 1 .. MaxId /\ nextId \in Nat
    BY LimitAssumption DEF MailInv, TypeOK, Speak, Calling
  <1>7. Bounded(size) \in 0 .. ItemBytes
    BY LimitAssumption DEF Bounded
  <1>8. r \in RequestType /\ r.size = Bounded(size) /\ r.id = nextId /\ IsSpeech(r)
    <2>1. PICK kind \in Kinds : kind = (IF interrupt THEN "interrupt" ELSE "speak") /\ kind \in SpeechKinds
      BY DEF Kinds, SpeechKinds
    <2>2. r = [kind |-> kind, size |-> Bounded(size), id |-> nextId]
      BY <1>3, <2>1
    <2>3. r \in RequestType /\ r.kind = kind /\ r.size = Bounded(size) /\ r.id = nextId
      BY <1>6, <1>7, <2>2, NewRequest
    <2> QED
      BY <2>1, <2>3 DEF IsSpeech
  <1>9. InLine(requests, cut, spoken, nextId) /\ cut < nextId /\ spoken < nextId
    BY DEF MailInv
  <1>10. cut \in Nat /\ spoken \in Nat /\ Speeches(requests) <= MaxItems
    BY DEF MailInv, TypeOK, CountersExact
  <1>11. Announced(requests, d, q, k, t, r, interrupt, cut, spoken, nextId)
    BY <1>1, <1>2, <1>4, <1>5, <1>6, <1>8, <1>9, <1>10, SpeakKeeps
  <1>12. items = Speeches(requests) /\ bytes = BytesOf(requests) /\ Single(requests)
    BY DEF MailInv, CountersExact, Single
  <1>13. /\ requests' = Append(t, r)
         /\ items' = Speeches(requests) - d - k + 1
         /\ bytes' = BytesOf(requests) - BytesOf(Oldest(requests, d)) - BytesOf(Oldest(q, k)) + r.size
         /\ lost' = lost \cup Ids(Oldest(q, k))
    BY <1>1, <1>2, <1>3, <1>4, <1>5, <1>8, <1>12 DEF Speak, Request
  <1>14. cut' = (IF interrupt THEN nextId ELSE cut) /\ nextId' = nextId + 1 /\ asleep' = FALSE
    BY DEF Speak
  <1>15. UNCHANGED <<shutdown, worker, busy, startWait, spoken, rate, asked>>
    BY DEF Speak
  <1>16. InLine(requests', cut', spoken', nextId')
    BY <1>11, <1>13, <1>14, <1>15 DEF Announced
  <1>17. items' = Speeches(requests') /\ bytes' = BytesOf(requests') /\ items' <= MaxItems /\ bytes' <= MaxBytes
    BY <1>11, <1>13 DEF Announced
  <1>18. items' \in Nat /\ bytes' \in Nat
    BY <1>11, <1>17, <1>13 DEF Announced
  <1>19. CountersExact'
    <2>1. Single(requests')
      BY <1>11, <1>12, <1>13 DEF Announced
    <2> QED
      BY <1>17, <2>1 DEF CountersExact, Single
  <1>20. cut' \in 0 .. MaxId /\ cut' < nextId' /\ spoken' < nextId' /\ nextId' \in 1 .. MaxId + 1
    <2>1. nextId' = nextId + 1 /\ spoken' = spoken
      BY <1>14, <1>15
    <2>2. MaxId \in Nat
      BY LimitAssumption
    <2>3. cut' = nextId \/ cut' = cut
      BY <1>14
    <2>4. cut' \in 0 .. MaxId /\ cut' < nextId + 1
      BY <1>6, <1>9, <1>10, <2>2, <2>3
    <2>5. spoken < nextId + 1 /\ nextId + 1 \in 1 .. MaxId + 1
      BY <1>6, <1>9, <1>10, <2>2
    <2> QED
      BY <2>1, <2>4, <2>5
  <1>21. lost' \subseteq 1 .. MaxId
    BY <1>11, <1>13 DEF Announced, MailInv, TypeOK
  <1>22. requests' \in Seq(RequestType)
    BY <1>16 DEF InLine
  <1>23. TypeOK'
    BY <1>14, <1>15, <1>18, <1>20, <1>21, <1>22 DEF MailInv, TypeOK
  <1>24. \A id \in lost' \ lost : \A x \in Range(SpeechOf(requests')) : id < x.id
    BY <1>11, <1>13 DEF Announced
  <1>25. OrderStep
    BY <1>15, <1>24 DEF OrderStep, Handed
  <1> QED
    BY <1>16, <1>19, <1>20, <1>23, <1>25 DEF MailInv

\* What the control operations keep of the types.
LEMMA ControlTypes ==
    ASSUME MailInv, Calling, NEW kind \in Kinds, NEW r, r = Request(kind, 0)
    PROVE  /\ r \in RequestType /\ r.kind = kind /\ r.id = nextId
           /\ nextId \in 1 .. MaxId /\ nextId \in Nat /\ nextId + 1 \in 1 .. MaxId + 1
           /\ cut \in Nat /\ spoken \in Nat /\ cut < nextId + 1 /\ spoken < nextId + 1
  <1>1. nextId \in 1 .. MaxId /\ MaxId \in Nat /\ 0 \in 0 .. ItemBytes
    BY LimitAssumption DEF MailInv, TypeOK, Calling
  <1>2. r = [kind |-> kind, size |-> 0, id |-> nextId]
    BY DEF Request
  <1>3. r \in RequestType /\ r.kind = kind /\ r.id = nextId
    BY <1>1, <1>2, NewRequest
  <1>4. cut \in Nat /\ spoken \in Nat /\ cut < nextId /\ spoken < nextId
    BY DEF MailInv, TypeOK
  <1> QED
    BY <1>1, <1>3, <1>4

LEMMA StopSteps ==
    ASSUME MailInv, Stop
    PROVE  MailInv' /\ OrderStep
  <1>1. PICK r : r = Request("stop", 0)
    OBVIOUS
  <1>2. /\ r \in RequestType /\ r.kind = "stop" /\ r.id = nextId
        /\ nextId \in 1 .. MaxId /\ nextId \in Nat /\ nextId + 1 \in 1 .. MaxId + 1
        /\ cut \in Nat /\ spoken \in Nat /\ cut < nextId + 1 /\ spoken < nextId + 1
    <2>1. "stop" \in Kinds /\ Calling
      BY DEF Kinds, Stop
    <2> QED
      BY <1>1, <2>1, ControlTypes
  <1>3. PICK q : q = OfKinds(requests, Kinds \ SpeechKinds)
    OBVIOUS
  <1>4. PICK t : t = <<r>> \o OfKinds(q, Kinds \ {"stop"})
    OBVIOUS
  <1>5. requests' = t
    BY <1>1, <1>3, <1>4 DEF Stop, Coalesced
  <1>6. /\ requests \in Seq(RequestType) /\ Single(requests)
        /\ items = Speeches(requests) /\ bytes = BytesOf(requests)
        /\ InLine(requests, cut, spoken, nextId)
    BY DEF MailInv, TypeOK, CountersExact, Single
  <1>7. InLine(q, cut, spoken, nextId) /\ Single(q) /\ q \in Seq(RequestType)
    <2>1. InLine(q, cut, spoken, nextId)
      BY <1>3, <1>6, OnlyInLine DEF OfKinds
    <2>2. Single(q)
      BY <1>3, <1>6, OnlySingle DEF OfKinds
    <2> QED
      BY <2>1, <2>2 DEF InLine
  <1>8. Speeches(q) = 0 /\ BytesOf(q) = 0
    <2>1. \A i \in 1 .. Len(q) : q[i].kind \in Kinds \ SpeechKinds
      BY <1>3, <1>6, OfKindsFacts
    <2>2. \A i \in 1 .. Len(q) : q[i].kind \notin SpeechKinds
      BY <2>1
    <2> QED
      BY <1>7, <2>2, EmptyCounts
  <1>9. InLine(q, nextId, spoken, nextId)
    BY <1>7, <1>8, NoSpeech
  <1>10. Replaces(q, t, nextId, spoken, nextId)
    BY <1>2, <1>4, <1>7, <1>9, CoalescedKeeps
  <1>11. items' = items - Speeches(requests) /\ bytes' = bytes - BytesOf(requests)
    BY DEF Stop
  <1>12. items' = 0 /\ bytes' = 0
    <2>1. Speeches(requests) \in Nat /\ BytesOf(requests) \in Nat
      BY <1>6, SpeechFacts
    <2> QED
      BY <1>6, <1>11, <2>1
  <1>13. cut' = nextId /\ nextId' = nextId + 1 /\ asleep' = FALSE
    BY DEF Stop
  <1>14. UNCHANGED <<shutdown, worker, busy, startWait, lost, spoken, rate, asked>>
    BY DEF Stop
  <1>15. InLine(requests', cut', spoken', nextId')
    BY <1>5, <1>10, <1>13, <1>14 DEF Replaces
  <1>16. CountersExact'
    <2>1. Speeches(requests') = 0 /\ BytesOf(requests') = 0 /\ Single(requests')
      BY <1>5, <1>8, <1>10 DEF Replaces
    <2>2. 0 <= MaxItems /\ 0 <= MaxBytes
      BY LimitAssumption
    <2> QED
      BY <1>12, <2>1, <2>2 DEF CountersExact, Single
  <1>17. requests' \in Seq(RequestType)
    BY <1>15 DEF InLine
  <1>18. cut' \in 0 .. MaxId /\ cut' < nextId' /\ spoken' < nextId' /\ nextId' \in 1 .. MaxId + 1
    BY <1>2, <1>13, <1>14
  <1>19. items' \in Nat /\ bytes' \in Nat
    BY <1>12
  <1>20. TypeOK'
    BY <1>13, <1>14, <1>17, <1>18, <1>19 DEF MailInv, TypeOK
  <1>21. OrderStep
    BY <1>14 DEF OrderStep, Handed
  <1> QED
    BY <1>15, <1>16, <1>18, <1>20, <1>21 DEF MailInv

LEMMA ConfigureSteps ==
    ASSUME MailInv, NEW kind \in {"rate", "server"}, Configure(kind)
    PROVE  MailInv' /\ OrderStep
  <1>1. PICK r : r = Request(kind, 0)
    OBVIOUS
  <1>2. /\ r \in RequestType /\ r.kind = kind /\ r.id = nextId
        /\ nextId \in 1 .. MaxId /\ nextId \in Nat /\ nextId + 1 \in 1 .. MaxId + 1
        /\ cut \in Nat /\ spoken \in Nat /\ cut < nextId + 1 /\ spoken < nextId + 1
    <2>1. kind \in Kinds /\ Calling
      BY DEF Kinds, Configure
    <2> QED
      BY <1>1, <2>1, ControlTypes
  <1>3. PICK t : t = <<r>> \o OfKinds(requests, Kinds \ {kind})
    OBVIOUS
  <1>4. requests' = t
    BY <1>1, <1>3 DEF Configure, Coalesced
  <1>5. /\ Single(requests)
        /\ items = Speeches(requests) /\ bytes = BytesOf(requests)
        /\ InLine(requests, cut, spoken, nextId)
    BY DEF MailInv, CountersExact, Single
  <1>6. Replaces(requests, t, cut, spoken, nextId)
    <2>1. kind \in {"stop", "rate", "server"}
      OBVIOUS
    <2> QED
      BY <1>2, <1>3, <1>5, <2>1, CoalescedKeeps
  <1>7. nextId' = nextId + 1 /\ asleep' = FALSE /\ asked' = IF kind = "rate" THEN nextId ELSE asked
    BY DEF Configure
  <1>8. UNCHANGED <<items, bytes, shutdown, worker, busy, startWait, cut, lost, spoken, rate>>
    BY DEF Configure
  <1>9. InLine(requests', cut', spoken', nextId')
    BY <1>4, <1>6, <1>7, <1>8 DEF Replaces
  <1>10. CountersExact'
    <2>1. Speeches(requests') = Speeches(requests) /\ BytesOf(requests') = BytesOf(requests) /\ Single(requests')
      BY <1>4, <1>6 DEF Replaces
    <2> QED
      BY <1>8, <2>1 DEF MailInv, CountersExact, Single
  <1>11. requests' \in Seq(RequestType)
    BY <1>9 DEF InLine
  <1>12. cut' < nextId' /\ spoken' < nextId' /\ nextId' \in 1 .. MaxId + 1
    BY <1>2, <1>7, <1>8
  <1>13. asked' \in 0 .. MaxId
    <2>1. nextId \in 0 .. MaxId /\ asked \in 0 .. MaxId
      BY <1>2 DEF MailInv, TypeOK
    <2> QED
      BY <1>7, <2>1
  <1>14. TypeOK'
    BY <1>7, <1>8, <1>11, <1>12, <1>13 DEF MailInv, TypeOK
  <1>15. OrderStep
    BY <1>8 DEF OrderStep, Handed
  <1> QED
    BY <1>9, <1>10, <1>12, <1>14, <1>15 DEF MailInv

LEMMA StartSteps ==
    ASSUME MailInv, Start
    PROVE  MailInv' /\ OrderStep
  <1>1. PICK r : r = Request("start", 0)
    OBVIOUS
  <1>2. /\ r \in RequestType /\ r.kind = "start" /\ r.id = nextId
        /\ nextId \in 1 .. MaxId /\ nextId \in Nat /\ nextId + 1 \in 1 .. MaxId + 1
        /\ cut \in Nat /\ spoken \in Nat /\ cut < nextId + 1 /\ spoken < nextId + 1
    <2>1. "start" \in Kinds /\ Calling
      BY DEF Kinds, Start
    <2> QED
      BY <1>1, <2>1, ControlTypes
  <1>3. requests' = Append(requests, r)
    BY <1>1 DEF Start
  <1>4. /\ requests \in Seq(RequestType) /\ Single(requests)
        /\ InLine(requests, cut, spoken, nextId) /\ cut < nextId /\ spoken < nextId
    BY DEF MailInv, TypeOK, CountersExact, Single
  <1>5. InLine(Append(requests, r), cut, spoken, nextId + 1)
    <2>1. cut <= nextId
      BY <1>2, <1>4
    <2> QED
      BY <1>2, <1>4, <2>1, AppendInLine
  <1>6. SpeechAppended(requests, r)
    BY <1>2, <1>4, AppendCounts
  <1>7. ~IsSpeech(r) /\ r.kind \notin {"stop", "rate", "server"}
    BY <1>2 DEF IsSpeech, SpeechKinds
  <1>8. nextId' = nextId + 1 /\ asleep' = FALSE /\ startWait' = nextId
    BY DEF Start
  <1>9. UNCHANGED <<items, bytes, shutdown, worker, busy, cut, lost, spoken, rate, asked>>
    BY DEF Start
  <1>10. InLine(requests', cut', spoken', nextId')
    BY <1>3, <1>5, <1>8, <1>9
  <1>11. CountersExact'
    <2>1. Speeches(requests') = Speeches(requests) /\ BytesOf(requests') = BytesOf(requests) /\ Single(requests')
      BY <1>3, <1>4, <1>6, <1>7 DEF SpeechAppended
    <2> QED
      BY <1>9, <2>1 DEF MailInv, CountersExact, Single
  <1>12. requests' \in Seq(RequestType)
    BY <1>10 DEF InLine
  <1>13. cut' < nextId' /\ spoken' < nextId' /\ nextId' \in 1 .. MaxId + 1 /\ startWait' \in 0 .. MaxId
    BY <1>2, <1>8, <1>9
  <1>14. TypeOK'
    BY <1>8, <1>9, <1>12, <1>13 DEF MailInv, TypeOK
  <1>15. OrderStep
    BY <1>9 DEF OrderStep, Handed
  <1> QED
    BY <1>10, <1>11, <1>13, <1>14, <1>15 DEF MailInv

LEMMA ShutDownSteps ==
    ASSUME MailInv, ShutDown
    PROVE  MailInv' /\ OrderStep
  <1>1. PICK t : t = <<>>
    OBVIOUS
  <1>2. requests' = t /\ items' = 0 /\ bytes' = 0 /\ shutdown' = TRUE /\ asleep' = FALSE
    BY <1>1 DEF ShutDown
  <1>3. UNCHANGED <<worker, busy, startWait, nextId, cut, lost, spoken, rate, asked>>
    BY DEF ShutDown, history
  <1>4. t \in Seq(RequestType) /\ Len(t) = 0
    BY <1>1, EmptySeq
  <1>5. InLine(t, cut, spoken, nextId)
    BY <1>4 DEF InLine, IdsApart, SpeechAscends, FencesFirst, Since
  <1>6. Speeches(t) = 0 /\ BytesOf(t) = 0
    <2>1. \A i \in 1 .. Len(t) : t[i].kind \notin SpeechKinds
      BY <1>4
    <2> QED
      BY <1>4, <2>1, EmptyCounts
  <1>7. ASSUME NEW kind PROVE Len(OfKinds(t, {kind})) <= 1
    <2>1. \A i \in 1 .. Len(t) : t[i].kind \notin {kind}
      BY <1>4
    <2>2. OfKinds(t, {kind}) = <<>>
      BY <1>4, <2>1, OfKindsNone
    <2> QED
      BY <2>2, EmptySeq
  <1>8. CountersExact'
    <2>1. 0 <= MaxItems /\ 0 <= MaxBytes
      BY LimitAssumption
    <2> QED
      BY <1>2, <1>6, <1>7, <2>1 DEF CountersExact
  <1>9. InLine(requests', cut', spoken', nextId')
    BY <1>2, <1>3, <1>5
  <1>10. TypeOK'
    BY <1>2, <1>3, <1>4 DEF MailInv, TypeOK
  <1>11. cut' < nextId' /\ spoken' < nextId'
    BY <1>3 DEF MailInv
  <1>12. OrderStep
    BY <1>3 DEF OrderStep, Handed
  <1> QED
    BY <1>8, <1>9, <1>10, <1>11, <1>12 DEF MailInv

LEMMA TakeSteps ==
    ASSUME MailInv, Take
    PROVE  MailInv' /\ OrderStep
  <1>1. /\ requests \in Seq(RequestType) /\ requests # <<>> /\ Single(requests)
        /\ InLine(requests, cut, spoken, nextId)
        /\ items = Speeches(requests) /\ bytes = BytesOf(requests)
        /\ items <= MaxItems /\ bytes <= MaxBytes
    BY DEF MailInv, TypeOK, CountersExact, Single, Take, Ready
  <1>2. PICK r \in RequestType : r = Head(requests)
    BY <1>1, HeadTailProperties
  <1>3. PICK t \in Seq(RequestType) : t = Tail(requests)
    BY <1>1, HeadTailProperties
  <1>4. /\ requests' = t /\ busy' = r /\ worker' = "busy"
        /\ items' = items - Speeches(<<r>>) /\ bytes' = bytes - BytesOf(<<r>>)
        /\ spoken' = (IF IsSpeech(r) THEN r.id ELSE spoken)
        /\ rate' = (IF r.kind = "rate" THEN r.id ELSE rate)
    BY <1>2, <1>3 DEF Take, Hand
  <1>5. UNCHANGED <<shutdown, asleep, startWait, nextId, cut, lost, asked>>
    BY DEF Take, Hand
  <1>6. SpeechTaken(requests)
    BY <1>1, TailCounts
  <1>7. items' = Speeches(t) /\ bytes' = BytesOf(t) /\ items' <= items /\ bytes' <= bytes /\ items' \in Nat /\ bytes' \in Nat
    <2>1. PICK a \in Nat : a = Speeches(<<r>>)
      BY <1>2, <1>6 DEF SpeechTaken
    <2>2. PICK b \in Nat : b = Speeches(t)
      BY <1>3, <1>6 DEF SpeechTaken
    <2>3. PICK x \in Nat : x = BytesOf(<<r>>)
      BY <1>2, <1>6 DEF SpeechTaken
    <2>4. PICK y \in Nat : y = BytesOf(t)
      BY <1>3, <1>6 DEF SpeechTaken
    <2>5. items = a + b /\ bytes = x + y
      BY <1>1, <1>2, <1>3, <1>6, <2>1, <2>2, <2>3, <2>4 DEF SpeechTaken
    <2>6. items' = items - a /\ bytes' = bytes - x
      BY <1>4, <2>1, <2>3
    <2>7. items' = b /\ bytes' = y /\ b <= items /\ y <= bytes
      BY <2>5, <2>6
    <2> QED
      BY <2>2, <2>4, <2>7
  <1>8. CountersExact'
    <2>1. Single(t)
      BY <1>1, <1>3, <1>6 DEF SpeechTaken
    <2>2. items' <= MaxItems /\ bytes' <= MaxBytes
      <3>1. items \in Nat /\ bytes \in Nat
        BY DEF MailInv, TypeOK
      <3>2. MaxItems \in Nat /\ MaxBytes \in Nat
        BY LimitAssumption
      <3>3. items <= MaxItems /\ items' <= items /\ items' \in Nat
        BY <1>1, <1>7
      <3>4. bytes <= MaxBytes /\ bytes' <= bytes /\ bytes' \in Nat
        BY <1>1, <1>7
      <3> QED
        BY <3>1, <3>2, <3>3, <3>4
    <2> QED
      BY <1>4, <1>7, <2>1, <2>2 DEF CountersExact, Single
  <1>9. InLine(t, cut, IF IsSpeech(r) THEN r.id ELSE spoken, nextId)
    BY <1>1, <1>2, <1>3, TailInLine
  <1>10. InLine(requests', cut', spoken', nextId')
    BY <1>4, <1>5, <1>9
  <1>11. r.id \in 1 .. MaxId /\ r.id \in Nat /\ cut \in Nat /\ spoken \in Nat
    BY <1>2, RequestFacts DEF MailInv, TypeOK
  <1>12. PICK k \in Nat : k = Len(requests) /\ k # 0
    BY <1>1, EmptySeq, LenProperties
  <1>13. requests[1] = r /\ 1 \in 1 .. Len(requests)
    <2>1. Head(requests) = requests[1]
      BY <1>1, HeadTailProperties
    <2> QED
      BY <1>2, <1>12, <2>1
  <1>14. r.id < nextId /\ (IsSpeech(r) => r.id >= cut /\ r.id > spoken)
    BY <1>1, <1>13 DEF InLine, Since
  <1>15. spoken' < nextId' /\ cut' < nextId' /\ spoken' \in 0 .. MaxId /\ rate' \in 0 .. MaxId
    <2>1. spoken < nextId /\ cut < nextId /\ spoken \in 0 .. MaxId /\ rate \in 0 .. MaxId
      BY DEF MailInv, TypeOK
    <2>2. r.id \in 0 .. MaxId
      BY <1>11
    <2>3. spoken' = r.id \/ spoken' = spoken
      BY <1>4
    <2>4. rate' = r.id \/ rate' = rate
      BY <1>4
    <2>5. spoken' < nextId /\ spoken' \in 0 .. MaxId
      BY <1>14, <2>1, <2>2, <2>3
    <2>6. rate' \in 0 .. MaxId
      BY <2>1, <2>2, <2>4
    <2> QED
      BY <1>5, <2>1, <2>5, <2>6
  <1>16. TypeOK'
    BY <1>4, <1>5, <1>7, <1>15 DEF MailInv, TypeOK
  <1>17. ASSUME r.kind = "start", NEW x \in Range(t) PROVE x.id > r.id
    <2>1. PICK l \in Nat : l = Len(t) /\ DOMAIN t = 1 .. l
      BY <1>3, LenProperties
    <2>2. PICK j \in 1 .. l : x = t[j]
      BY <2>1 DEF Range
    <2>3. PICK i \in Nat : i = j + 1
      BY <2>2
    <2>4. l = k - 1 /\ t[j] = requests[i]
      BY <1>1, <1>3, <1>12, <2>1, <2>2, <2>3, HeadTailProperties
    <2>5. i \in 1 .. Len(requests) /\ 1 < i
      BY <1>12, <2>2, <2>3, <2>4
    <2>6. r.id < requests[i].id
      BY <1>1, <1>13, <1>17, <2>5 DEF InLine, FencesFirst
    <2>7. requests[i] \in RequestType
      BY <1>1, <2>5, ElementOfSeq
    <2>8. requests[i].id \in Nat
      BY <2>7, RequestFacts
    <2> QED
      BY <1>11, <2>2, <2>4, <2>6, <2>8
  <1>18. OrderStep
    BY <1>4, <1>5, <1>14, <1>17 DEF OrderStep
  <1> QED
    BY <1>8, <1>10, <1>15, <1>16, <1>18 DEF MailInv

\* The rest of the worker's steps leave the mailbox as it is.
LEMMA MailStays ==
    ASSUME MailInv, StartTimesOut \/ Wait \/ Exit \/ Return \/ UNCHANGED vars
    PROVE  MailInv' /\ OrderStep
  <1>1. UNCHANGED <<requests, items, bytes, shutdown, nextId, cut, lost, spoken, rate, asked>>
    BY DEF StartTimesOut, Wait, Exit, Return, vars, mailbox, history
  <1>2. asleep' \in BOOLEAN
    BY DEF MailInv, TypeOK, StartTimesOut, Wait, Exit, Return, vars, mailbox, thread, history
  <1>3. worker' \in {"ready", "busy", "done"} /\ ~Handed
    BY DEF MailInv, TypeOK, Handed, StartTimesOut, Wait, Exit, Return, vars, mailbox, thread, history
  <1>4. busy' \in RequestType \cup {NoRequest}
    BY DEF MailInv, TypeOK, StartTimesOut, Wait, Exit, Return, vars, mailbox, thread, history
  <1>5. startWait' \in 0 .. MaxId
    <2>1. startWait \in 0 .. MaxId /\ NoId \in 0 .. MaxId
      BY LimitAssumption DEF MailInv, TypeOK, NoId
    <2>2. startWait' = startWait \/ startWait' = NoId
      BY DEF StartTimesOut, Wait, Exit, Return, vars, mailbox, thread, history
    <2> QED
      BY <2>1, <2>2
  <1>6. TypeOK'
    BY <1>1, <1>2, <1>3, <1>4, <1>5 DEF MailInv, TypeOK
  <1>7. CountersExact' /\ cut' < nextId' /\ spoken' < nextId'
    BY <1>1 DEF MailInv, CountersExact
  <1>8. InLine(requests', cut', spoken', nextId')
    BY <1>1 DEF MailInv
  <1>9. OrderStep
    BY <1>1, <1>3 DEF OrderStep
  <1> QED
    BY <1>6, <1>7, <1>8, <1>9 DEF MailInv

LEMMA MailHolds == MailInv /\ [Next]_vars => MailInv' /\ OrderStep
  <1> SUFFICES ASSUME MailInv, [Next]_vars PROVE MailInv' /\ OrderStep
    OBVIOUS
  <1>1. ASSUME NEW size \in TextSizes, NEW interrupt \in BOOLEAN, Speak(size, interrupt)
        PROVE MailInv' /\ OrderStep
    BY <1>1, SpeakSteps
  <1>2. CASE Stop
    BY <1>2, StopSteps
  <1>3. ASSUME NEW kind \in {"rate", "server"}, Configure(kind) PROVE MailInv' /\ OrderStep
    BY <1>3, ConfigureSteps
  <1>4. CASE Start
    BY <1>4, StartSteps
  <1>5. CASE ShutDown
    BY <1>5, ShutDownSteps
  <1>6. CASE Take
    BY <1>6, TakeSteps
  <1>7. CASE StartTimesOut \/ Wait \/ Exit \/ Return \/ UNCHANGED vars
    BY <1>7, MailStays
  <1> QED
    BY <1>1, <1>2, <1>3, <1>4, <1>5, <1>6, <1>7 DEF Next, WorkerStep

(***************************************************************************)
(* The mailbox's counters are what its queue holds, however announcements  *)
(* are dropped for room, cut or taken, so that neither limit is passed;    *)
(* and there is never more than one stop, rate or server change in it      *)
(* (worker.rs, enqueue_speech, remove_request, enqueue_stop, enqueue_rate).*)
(***************************************************************************)
THEOREM MailboxCounts == Spec => []MailboxExact
  <1>1. Init => MailInv
    BY MailStarts
  <1>2. MailInv /\ [Next]_vars => MailInv'
    BY MailHolds
  <1>3. MailInv => MailboxExact
    BY DEF MailInv, MailboxExact
  <1> QED
    BY <1>1, <1>2, <1>3, PTL DEF Spec

(***************************************************************************)
(* Announcements reach the backend in the order made and never after a     *)
(* stop or interruption that came later than they; what is dropped for     *)
(* room is older than what stays; and a start() is handed over before      *)
(* anything asked for after it (worker.rs, next_request, discard_speech).  *)
(***************************************************************************)
THEOREM MailboxInOrder == Spec => MailboxOrder
  <1>1. Init => MailInv
    BY MailStarts
  <1>2. MailInv /\ [Next]_vars => MailInv' /\ OrderStep
    BY MailHolds
  <1>3. OrderStep => [Handed /\ IsSpeech(busy') => busy'.id >= cut]_vars
    BY DEF OrderStep
  <1>4. OrderStep => [Handed /\ IsSpeech(busy') => busy'.id > spoken]_vars
    BY DEF OrderStep
  <1>5. OrderStep =>
          [\A id \in lost' \ lost : \A r \in Range(SpeechOf(requests')) : id < r.id]_vars
    BY DEF OrderStep
  <1>6. OrderStep =>
          [Handed /\ busy'.kind = "start" => \A r \in Range(requests') : r.id > busy'.id]_vars
    BY DEF OrderStep
  <1> QED
    BY <1>1, <1>2, <1>3, <1>4, <1>5, <1>6, PTL
       DEF Spec, MailboxOrder, CutIsFinal, SpeechInOrder, NewestKept, StartIsAFence
=============================================================================
