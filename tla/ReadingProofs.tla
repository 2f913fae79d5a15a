--------------------------- MODULE ReadingProofs ---------------------------
(***************************************************************************)
(* What the listener is promised, for every value of the constants: a      *)
(* frame that is on the screen and not read has a deadline (Stabilization),*)
(* and the view on the screen can be read though the stack dropped it      *)
(* (ViewStack).  The components share no state, so each has an invariant   *)
(* and an argument of its own, and stands still while another one runs.    *)
(***************************************************************************)
EXTENDS MCReading, FiniteSums, SequenceTheorems, TLAPS

-----------------------------------------------------------------------------
(* A frame that is not read has a deadline (Stabilization).  The property  *)
(* speaks of the frame on the screen; what keeps it is that the newest     *)
(* frame has one, whether or not it is shown: its screen's burst has begun,*)
(* or an announcement is due, as long as no overlay covers it and it is not*)
(* part of an open transaction.  Then a frame can be shown at any moment.  *)

Moments == Nat \cup {-1}
BothScreens == {"primary", "alternate"}
HasFirst(p) == "first" \in DOMAIN p /\ p.first \in Moments
Timed(ps) == DOMAIN ps = BothScreens /\ \A s \in BothScreens : HasFirst(ps[s])

StableInv ==
    /\ Timed(profiles)
    /\ live.screen \in BothScreens /\ presented.screen \in BothScreens
    /\ finalized \in Nat /\ presented.rev \in Nat /\ live.rev \in Nat
    /\ finalized <= presented.rev /\ presented.rev <= live.rev
    /\ (~overlay /\ ~live.open /\ finalized # live.rev)
         => (profiles[live.screen].first # -1 \/ announce)

LEMMA OlderType ==
    ASSUME NEW t \in Moments
    PROVE  Stable!Older(t) \in Moments /\ (Stable!Older(t) = -1 <=> t = -1)
<1>1. CASE t = -1
  BY <1>1 DEF Stable!Older, Stable!None, Moments
<1>2. CASE t # -1
  <2>1. t \in Nat /\ HardDelay \in Nat
    BY <1>2, ReadingConstants DEF Moments
  <2>2. \A n \in Nat, m \in Nat : Stable!Min({n, m}) \in {n, m}
    <3> TAKE n \in Nat, m \in Nat
    <3>1. \E x \in {n, m} : \A y \in {n, m} : x <= y
      OBVIOUS
    <3> QED
      BY <3>1 DEF Stable!Min
  <2>3. Stable!Min({t + 1, HardDelay + 1}) \in {t + 1, HardDelay + 1}
    BY <2>1, <2>2
  <2> QED
    BY <1>2, <2>1, <2>3 DEF Stable!Older, Stable!None, Moments
<1> QED
  BY <1>1, <1>2

LEMMA ObservedHasFirst ==
    ASSUME NEW p, HasFirst(p), NEW b
    PROVE  HasFirst(Stable!Observed(p, b)) /\ Stable!Observed(p, b).first # -1
<1>1. PICK q : q = [p EXCEPT !.trainable = b /\ (p.first = -1 \/ @)]
  OBVIOUS
<1>2. HasFirst(q)
  BY <1>1 DEF HasFirst
<1>3. PICK r : r = Stable!LateRaise(q)
  OBVIOUS
<1>4. HasFirst(r)
  BY <1>2, <1>3 DEF HasFirst, Stable!LateRaise
<1> QED
  BY <1>1, <1>3, <1>4 DEF Stable!Observed, HasFirst, Stable!None, Moments

LEMMA CancelledHasFirst ==
    ASSUME NEW p, HasFirst(p)
    PROVE  HasFirst(Stable!Cancelled(p))
BY DEF Stable!Cancelled, Stable!RolledBack, HasFirst, Stable!None, Moments

LEMMA FinishedHasFirst ==
    ASSUME NEW p, HasFirst(p), NEW last, NEW ordinary
    PROVE  HasFirst(Stable!Finished(p, last, ordinary))
BY DEF Stable!Finished, Stable!RolledBack, HasFirst, Stable!None, Moments

LEMMA StableStarts == Stable!Init => StableInv
BY DEF Stable!Init, StableInv, Timed, HasFirst, BothScreens, Moments, Stable!NewProfile, Stable!None

LEMMA CancelledAllTimed == Timed(profiles) => Timed(Stable!CancelledAll)
BY CancelledHasFirst DEF Timed, Stable!CancelledAll

\* One profile is replaced.
LEMMA TimedExcept ==
    ASSUME NEW ps, Timed(ps), NEW s \in BothScreens, NEW p, HasFirst(p)
    PROVE  Timed([ps EXCEPT ![s] = p]) /\ [ps EXCEPT ![s] = p][s] = p
BY DEF Timed

LEMMA StableHolds ==
    ASSUME StableInv, [Stable!Next]_(Stable!stableVars)
    PROVE  StableInv'
<1>1. CASE UNCHANGED Stable!stableVars
  BY <1>1 DEF StableInv, Stable!stableVars
<1>2. ASSUME NEW screen \in Screens, NEW kind \in Kinds, NEW opens \in BOOLEAN,
             Stable!Output(screen, kind, opens)
      PROVE  StableInv'
  <2>1. screen \in BothScreens
    BY ReadingConstants DEF BothScreens
  <2>2. PICK ps : ps = IF screen # live.screen THEN Stable!CancelledAll ELSE profiles
    OBVIOUS
  <2>3. Timed(ps)
    BY <2>2, CancelledAllTimed DEF StableInv
  <2>4. PICK p : p = Stable!Observed(ps[screen], Stable!Trainable(kind, screen # live.screen))
    OBVIOUS
  <2>5. HasFirst(p) /\ p.first # -1
    BY <2>1, <2>3, <2>4, ObservedHasFirst DEF Timed
  <2>6. profiles' = [ps EXCEPT ![screen] = p]
    BY <1>2, <2>2, <2>4 DEF Stable!Output, Stable!Noted
  <2>7. Timed(profiles') /\ profiles'[screen] = p
    BY <2>1, <2>3, <2>5, <2>6, TimedExcept
  <2>8. /\ live'.screen = screen /\ live'.rev = live.rev + 1
        /\ presented' = presented /\ finalized' = finalized
    BY <1>2 DEF Stable!Output
  <2> QED
    BY <2>1, <2>5, <2>7, <2>8 DEF StableInv
<1>3. CASE Stable!Present
  BY <1>3 DEF StableInv, Stable!Present
<1>4. CASE Stable!Key
  BY <1>4 DEF StableInv, Stable!Key
<1>5. CASE Stable!OpenOverlay
  BY <1>5 DEF StableInv, Stable!OpenOverlay
<1>6. CASE Stable!CloseOverlay
  <2>1. Timed(profiles')
    BY <1>6, CancelledAllTimed DEF StableInv, Stable!CloseOverlay
  <2> QED
    BY <1>6, <2>1 DEF StableInv, Stable!CloseOverlay
<1>7. CASE Stable!Announce
  BY <1>7 DEF StableInv, Stable!Announce, Stable!Ready
<1>8. CASE Stable!Finalize
  <2>1. PICK p : profiles' = [profiles EXCEPT ![presented.screen] = p] /\ HasFirst(p)
                 /\ (presented # live => p.first # -1)
    <3>1. HasFirst(profiles[presented.screen])
      BY DEF StableInv, Timed
    <3>2. CASE presented # live
      <4>1. HasFirst([profiles[presented.screen] EXCEPT !.first = 0, !.last = 0])
            /\ [profiles[presented.screen] EXCEPT !.first = 0, !.last = 0].first # -1
        BY <3>1 DEF HasFirst, Moments
      <4>2. profiles' = [profiles EXCEPT ![presented.screen] =
                           [profiles[presented.screen] EXCEPT !.first = 0, !.last = 0]]
        BY <1>8, <3>2 DEF Stable!Finalize
      <4> QED
        BY <3>2, <4>1, <4>2
    <3>3. CASE presented = live
      <4>1. HasFirst(Stable!NewProfile)
        BY DEF Stable!NewProfile, HasFirst, Stable!None, Moments
      <4>2. \A last, ordinary : HasFirst(Stable!Finished(profiles[presented.screen], last, ordinary))
        BY <3>1, FinishedHasFirst
      <4>3. \E last, ordinary, changed :
              profiles' = [profiles EXCEPT ![presented.screen] =
                  IF changed THEN Stable!NewProfile
                  ELSE Stable!Finished(profiles[presented.screen], last, ordinary)]
        BY <1>8, <3>3 DEF Stable!Finalize
      <4> QED
        BY <3>3, <4>1, <4>2, <4>3
    <3> QED
      BY <3>2, <3>3
  <2>2. Timed(profiles')
    BY <2>1, TimedExcept DEF StableInv
  <2>3. live' = live /\ presented' = presented /\ finalized' = presented.rev
        /\ overlay' = overlay /\ announce' = announce
    BY <1>8 DEF Stable!Finalize
  <2>4. (~overlay /\ ~live.open /\ presented.rev # live.rev)
          => (profiles'[live.screen].first # -1 \/ announce)
    <3> SUFFICES ASSUME ~overlay, ~live.open, presented.rev # live.rev
                 PROVE  profiles'[live.screen].first # -1 \/ announce
      OBVIOUS
    <3>1. Stable!Pending /\ presented # live
      BY <1>8 DEF Stable!Finalize, Stable!Due
    <3>0. finalized # live.rev
      BY DEF StableInv
    <3>2. CASE presented.screen = live.screen
      BY <2>1, <3>1, <3>2, TimedExcept DEF StableInv
    <3>3. CASE presented.screen # live.screen
      <4>1. profiles'[live.screen] = profiles[live.screen]
        BY <2>1, <3>3 DEF StableInv, Timed
      <4> QED
        BY <3>0, <4>1 DEF StableInv
    <3> QED
      BY <3>2, <3>3
  <2> QED
    BY <2>2, <2>3, <2>4 DEF StableInv
<1>9. CASE Stable!Elapse
  <2>1. \A s \in BothScreens : HasFirst(profiles'[s])
                               /\ (profiles'[s].first = -1 <=> profiles[s].first = -1)
    <3> TAKE s \in BothScreens
    <3>1. HasFirst(profiles[s])
      BY DEF StableInv, Timed
    <3>2. profiles'[s].first = Stable!Older(profiles[s].first) /\ "first" \in DOMAIN profiles'[s]
      BY <1>9, <3>1 DEF Stable!Elapse, StableInv, Timed, HasFirst
    <3> QED
      BY <3>1, <3>2, OlderType DEF HasFirst
  <2>2. DOMAIN profiles' = BothScreens
    BY <1>9 DEF Stable!Elapse, StableInv, Timed
  <2> QED
    BY <1>9, <2>1, <2>2 DEF Stable!Elapse, StableInv, Timed
<1> QED
  BY <1>1, <1>2, <1>3, <1>4, <1>5, <1>6, <1>7, <1>8, <1>9 DEF Stable!Next

LEMMA StableImplies == StableInv => ReadingHasADeadline
BY DEF StableInv, ReadingHasADeadline, Stable!ReadingHasADeadline, Stable!Pending, Stable!Burst, Stable!None

LEMMA StableAnywhere ==
    ASSUME StableInv, [ReadingNext]_readingVars
    PROVE  StableInv'
<1>1. [Stable!Next]_(Stable!stableVars)
  BY DEF ReadingNext, readingVars, InStack, InStable, InRead, InDeletes, InTable, InReview,
         stableVars, Stable!stableVars
<1> QED
  BY <1>1, StableHolds

THEOREM DeadlinesStand == ReadingSpec => []ReadingHasADeadline
<1>1. ReadingInit => StableInv
  BY StableStarts DEF ReadingInit
<1> QED
  BY <1>1, StableAnywhere, StableImplies, PTL DEF ReadingSpec

-----------------------------------------------------------------------------
(* The view on the screen is readable (ViewStack).  Every view that a scene*)
(* on its way was drawn of is on the stack or among the retired ones, and  *)
(* so is the one that was shown last: whatever leaves the stack is retired,*)
(* and what is pruned of the retired is neither in a scene nor shown.      *)
(* Operations on the stack only move views about (Keeps), the bookkeeping  *)
(* of the scheduler leaves them alone (Alike).                             *)

Among(q) == {q[i] : i \in DOMAIN q}
Living(s) == Among(s.bases) \cup Among(s.overlays) \cup s.retired
Fields == {"bases", "overlays", "retired", "active", "pending", "writing", "presented",
           "screen", "unread", "misspoken"}
Carried(r, known) == r.view \in r.views /\ r.views \subseteq known

Shape(s) ==
    /\ Fields \subseteq DOMAIN s
    /\ s.bases \in Seq(Stack!Bases) /\ s.overlays \in Seq(Overlays)
    /\ s.active \in DOMAIN s.bases
    /\ Root \in Among(s.bases)
Single(q) == q = <<>> \/ \E r : q = <<r>>
Queued(s) ==
    /\ Single(s.pending) /\ Single(s.writing)
    /\ \A i \in DOMAIN s.pending : Carried(s.pending[i], Living(s))
    /\ \A i \in DOMAIN s.writing : Carried(s.writing[i], Living(s))
Heeded(s) ==
    /\ s.presented \in Living(s) /\ s.screen.view = s.presented
    /\ s.unread = FALSE /\ s.misspoken = FALSE
Readable(s) == Shape(s) /\ Queued(s) /\ Heeded(s)

\* Nothing of the stack, the scenes and the reader differs.
Alike(s, t) ==
    /\ DOMAIN t = DOMAIN s
    /\ t.bases = s.bases /\ t.overlays = s.overlays /\ t.retired = s.retired /\ t.active = s.active
    /\ t.pending = s.pending /\ t.writing = s.writing /\ t.presented = s.presented
    /\ t.screen = s.screen /\ t.unread = s.unread /\ t.misspoken = s.misspoken
\* The views may be elsewhere, but each is somewhere.
Keeps(s, t) ==
    /\ Shape(t) /\ Living(s) \subseteq Living(t)
    /\ t.pending = s.pending /\ t.writing = s.writing /\ t.presented = s.presented
    /\ t.screen = s.screen /\ t.unread = s.unread /\ t.misspoken = s.misspoken

LEMMA AlikeReadable == ASSUME NEW s, NEW t, Readable(s), Alike(s, t) PROVE Readable(t)
<1>1. Living(t) = Living(s)
  BY DEF Alike, Living
<1> QED
  BY <1>1 DEF Alike, Readable, Shape, Queued, Heeded

LEMMA KeepsReadable == ASSUME NEW s, NEW t, Readable(s), Keeps(s, t) PROVE Readable(t)
<1>1. Queued(t)
  BY DEF Keeps, Readable, Queued, Carried
<1>2. Heeded(t)
  BY DEF Keeps, Readable, Heeded
<1> QED
  BY <1>1, <1>2 DEF Keeps, Readable

LEMMA AlikeKeeps == ASSUME NEW s, NEW t, Shape(s), Alike(s, t) PROVE Keeps(s, t)
BY DEF Alike, Keeps, Shape, Living

LEMMA KeepsBoth == ASSUME NEW s, NEW t, NEW u, Keeps(s, t), Keeps(t, u) PROVE Keeps(s, u)
BY DEF Keeps

LEMMA BeginAlike == ASSUME NEW s, Shape(s) PROVE Alike(s, Stack!Begin(s))
BY DEF Shape, Fields, Alike, Stack!Begin

LEMMA ChangeAlike == ASSUME NEW s, Shape(s) PROVE Alike(s, Stack!Change(s))
BY DEF Shape, Fields, Alike, Stack!Change

LEMMA AmongEmpty == Among(<<>>) = {}
BY EmptySeq DEF Among

LEMMA AmongAppend ==
    ASSUME NEW S, NEW q \in Seq(S), NEW x \in S
    PROVE  Among(Append(q, x)) = Among(q) \cup {x}
<1>1. /\ Len(Append(q, x)) = Len(q) + 1 /\ Len(q) \in Nat
      /\ \A i \in 1 .. Len(q) : Append(q, x)[i] = q[i]
      /\ Append(q, x)[Len(q) + 1] = x
      /\ DOMAIN q = 1 .. Len(q) /\ Append(q, x) \in Seq(S)
  BY AppendProperties, LenProperties
<1>2. DOMAIN Append(q, x) = 1 .. Len(q) + 1
  BY <1>1, LenProperties
<1> QED
  BY <1>1, <1>2 DEF Among

LEMMA ClearKeeps ==
    ASSUME NEW s, Shape(s)
    PROVE  /\ Keeps(s, Stack!ClearOverlays(s))
           /\ Stack!ClearOverlays(s).bases = s.bases
           /\ Stack!ClearOverlays(s).active = s.active
           /\ Stack!ClearOverlays(s).overlays = <<>>
<1>1. PICK t : t = IF Stack!Overlaid(s) THEN Stack!Begin(s) ELSE s
  OBVIOUS
<1>2. Alike(s, t) /\ Shape(t)
  BY <1>1, BeginAlike DEF Alike, Shape
<1>3. PICK u : u = [t EXCEPT !.retired = @ \cup Among(s.overlays), !.overlays = <<>>]
  OBVIOUS
<1>4. Stack!ClearOverlays(s) = u
  BY <1>1, <1>3 DEF Stack!ClearOverlays, Stack!ToSet, Among
<1>5. /\ u.retired = s.retired \cup Among(s.overlays) /\ u.overlays = <<>>
      /\ u.bases = s.bases /\ u.active = s.active /\ DOMAIN u = DOMAIN t
      /\ u.pending = s.pending /\ u.writing = s.writing /\ u.presented = s.presented
      /\ u.screen = s.screen /\ u.unread = s.unread /\ u.misspoken = s.misspoken
  BY <1>2, <1>3 DEF Alike, Shape, Fields
<1>6. Shape(u)
  BY <1>2, <1>5, EmptySeq DEF Alike, Shape
<1>7. Living(s) \subseteq Living(u)
  BY <1>5 DEF Living
<1> QED
  BY <1>4, <1>5, <1>6, <1>7 DEF Keeps

LEMMA PushKeeps ==
    ASSUME NEW s, Shape(s), NEW v \in Overlays
    PROVE  Keeps(s, Stack!PushOverlay(s, v))
<1>1. PICK u : u = Stack!PushOverlay(s, v)
  OBVIOUS
<1>2. /\ u.overlays = Append(s.overlays, v)
      /\ u.bases = s.bases /\ u.active = s.active /\ DOMAIN u = DOMAIN s /\ u.retired = s.retired
      /\ u.pending = s.pending /\ u.writing = s.writing /\ u.presented = s.presented
      /\ u.screen = s.screen /\ u.unread = s.unread /\ u.misspoken = s.misspoken
  BY <1>1 DEF Stack!PushOverlay, Shape, Fields
<1>3. u.overlays \in Seq(Overlays) /\ Among(u.overlays) = Among(s.overlays) \cup {v}
  BY <1>2, AmongAppend, AppendProperties DEF Shape
<1> QED
  BY <1>1, <1>2, <1>3 DEF Keeps, Shape, Living

LEMMA PopKeeps ==
    ASSUME NEW s, Shape(s), Stack!Overlaid(s)
    PROVE  Keeps(s, Stack!Pop(s))
<1>1. PICK q : q = s.overlays
  OBVIOUS
<1>2. PICK n \in Nat : n = Len(q) /\ q \in Seq(Overlays) /\ DOMAIN q = 1 .. n /\ n > 0
  BY <1>1, LenProperties, EmptySeq DEF Shape, Stack!Overlaid
<1>3. PICK f : f = SubSeq(q, 1, n - 1)
  OBVIOUS
<1>4. f \in Seq(Overlays) /\ DOMAIN f = 1 .. n - 1 /\ \A i \in 1 .. n - 1 : f[i] = q[i]
  BY <1>2, <1>3, SubSeqProperties
<1>5. Among(q) \subseteq Among(f) \cup {q[n]}
  BY <1>2, <1>4 DEF Among
<1>6. PICK u : u = [s EXCEPT !.overlays = f, !.retired = @ \cup {q[n]}]
  OBVIOUS
<1>7. Stack!Pop(s) = IF Stack!Overlaid(u) THEN u ELSE Stack!Begin(u)
  BY <1>1, <1>2, <1>3, <1>6 DEF Stack!Pop, Stack!Front, Stack!Last
<1>8. /\ u.overlays = f /\ u.retired = s.retired \cup {q[n]}
      /\ u.bases = s.bases /\ u.active = s.active /\ DOMAIN u = DOMAIN s
      /\ u.pending = s.pending /\ u.writing = s.writing /\ u.presented = s.presented
      /\ u.screen = s.screen /\ u.unread = s.unread /\ u.misspoken = s.misspoken
  BY <1>6 DEF Shape, Fields
<1>9. Shape(u)
  BY <1>4, <1>8 DEF Shape
<1>10. Keeps(s, u)
  BY <1>1, <1>5, <1>8, <1>9 DEF Keeps, Living
<1> QED
  BY <1>7, <1>9, <1>10, BeginAlike, AlikeKeeps, KeepsBoth

LEMMA ActiveKeeps ==
    ASSUME NEW s, Shape(s), NEW bases \in Seq(Stack!Bases), Root \in Among(bases),
           NEW at \in DOMAIN bases, NEW gone,
           Among(s.bases) \subseteq Among(bases) \cup gone
    PROVE  Keeps(s, [s EXCEPT !.bases = bases, !.retired = @ \cup gone, !.active = at])
<1>1. PICK u : u = [s EXCEPT !.bases = bases, !.retired = @ \cup gone, !.active = at]
  OBVIOUS
<1>2. /\ u.overlays = s.overlays /\ u.bases = bases /\ u.active = at
      /\ DOMAIN u = DOMAIN s /\ u.retired = s.retired \cup gone
      /\ u.pending = s.pending /\ u.writing = s.writing /\ u.presented = s.presented
      /\ u.screen = s.screen /\ u.unread = s.unread /\ u.misspoken = s.misspoken
  BY <1>1 DEF Shape, Fields
<1> QED
  BY <1>1, <1>2 DEF Keeps, Shape, Living

LEMMA ConnectKeeps ==
    ASSUME NEW s, Shape(s), NEW c \in Connections
    PROVE  Keeps(s, Stack!PushConnection(s, c))
<1>1. PICK t : t = Stack!ClearOverlays(s)
  OBVIOUS
<1>2. Keeps(s, t)
  BY <1>1, ClearKeeps
<1>3. PICK n \in Nat : n = Len(t.bases) /\ DOMAIN t.bases = 1 .. n
  BY <1>2, LenProperties DEF Keeps, Shape
<1>4. PICK b : b = Append(t.bases, c)
  OBVIOUS
<1>5. c \in Stack!Bases
  BY DEF Stack!Bases
<1>6. b \in Seq(Stack!Bases) /\ Len(b) = n + 1 /\ Among(b) = Among(t.bases) \cup {c}
  BY <1>2, <1>3, <1>4, <1>5, AppendProperties, AmongAppend DEF Keeps, Shape
<1>7. n + 1 \in DOMAIN b /\ Root \in Among(b)
  BY <1>2, <1>6, LenProperties DEF Keeps, Shape
<1>8. PICK u : u = [t EXCEPT !.bases = b, !.retired = @ \cup {}, !.active = n + 1]
  OBVIOUS
<1>9. Keeps(t, u)
  <2>1. Shape(t) /\ Among(t.bases) \subseteq Among(b) \cup {}
    BY <1>2, <1>6 DEF Keeps
  <2> QED
    BY <1>6, <1>7, <1>8, <2>1, ActiveKeeps
<1>10. PICK v : v = [t EXCEPT !.bases = Append(@, c), !.active = Len(t.bases) + 1]
  OBVIOUS
<1>11. Alike(u, v)
  BY <1>2, <1>3, <1>4, <1>8, <1>10 DEF Alike, Keeps, Shape, Fields
<1>12. Stack!PushConnection(s, c) = Stack!Begin(v)
  BY <1>1, <1>10 DEF Stack!PushConnection
<1>13. Keeps(s, v)
  BY <1>2, <1>9, <1>11, AlikeKeeps, KeepsBoth DEF Keeps
<1>14. Keeps(v, Stack!Begin(v))
  BY <1>13, BeginAlike, AlikeKeeps DEF Keeps
<1> QED
  BY <1>12, <1>13, <1>14, KeepsBoth

LEMMA ActivateKeeps ==
    ASSUME NEW s, Shape(s), NEW c \in Among(s.bases)
    PROVE  Keeps(s, Stack!Activate(s, c))
<1>1. PICK t : t = Stack!ClearOverlays(s)
  OBVIOUS
<1>2. Keeps(s, t) /\ t.bases = s.bases
  BY <1>1, ClearKeeps
<1>3. PICK u : u = IF s.bases[s.active] # c THEN Stack!Begin(t) ELSE t
  OBVIOUS
<1>4. Alike(t, u)
  BY <1>2, <1>3, BeginAlike DEF Alike, Keeps
<1>5. Keeps(s, u) /\ u.bases = s.bases
  BY <1>2, <1>4, AlikeKeeps, KeepsBoth DEF Keeps, Alike
<1>6. PICK i : i = Stack!IndexOf(s, c)
  OBVIOUS
<1>7. i \in DOMAIN u.bases
  BY <1>5, <1>6 DEF Stack!IndexOf, Among
<1>8. Stack!Activate(s, c) = [u EXCEPT !.active = i]
  BY <1>1, <1>3, <1>6 DEF Stack!Activate
<1>9. Keeps(u, [u EXCEPT !.bases = u.bases, !.retired = @ \cup {}, !.active = i])
  <2>1. Shape(u) /\ u.bases \in Seq(Stack!Bases) /\ Root \in Among(u.bases)
        /\ Among(u.bases) \subseteq Among(u.bases) \cup {}
    BY <1>5 DEF Keeps, Shape
  <2> QED
    BY <1>7, <2>1, ActiveKeeps
<1>10. Alike([u EXCEPT !.bases = u.bases, !.retired = @ \cup {}, !.active = i], [u EXCEPT !.active = i])
  BY <1>5 DEF Alike, Keeps, Shape, Fields
<1> QED
  BY <1>5, <1>8, <1>9, <1>10, AlikeKeeps, KeepsBoth DEF Keeps

LEMMA RemoveKeeps ==
    ASSUME NEW s, Shape(s), NEW c \in Connections
    PROVE  Keeps(s, Stack!RemoveConnection(s, c))
<1>1. PICK left : left = Filter(s.bases, Stack!Bases \ {c})
  OBVIOUS
<1>2. left = Stack!Only(s.bases, Stack!Bases \ {c})
  BY <1>1 DEF Filter, Stack!Only
<1>3. left \in Seq(Stack!Bases) /\ DOMAIN left = 1 .. Len(left) /\ Len(left) \in Nat
      /\ DOMAIN s.bases = 1 .. Len(s.bases)
  BY <1>1, FilterType, LenProperties DEF Shape
<1>4. \A i \in DOMAIN s.bases : s.bases[i] # c => s.bases[i] \in Among(left)
  <2> TAKE i \in DOMAIN s.bases
  <2> HAVE s.bases[i] # c
  <2>1. s.bases[i] \in Stack!Bases \ {c} /\ i \in 1 .. Len(s.bases)
    BY <1>3 DEF Shape
  <2>2. s.bases \in Seq(Stack!Bases)
    BY DEF Shape
  <2>3. \E j \in 1 .. Len(left) : left[j] = s.bases[i]
    <3>1. PICK A : A = Stack!Bases \ {c}
      OBVIOUS
    <3>2. ASSUME NEW S, NEW q \in Seq(S), q = s.bases
          PROVE  \E j \in 1 .. Len(Filter(q, A)) : Filter(q, A)[j] = q[i]
      <4>1. i \in 1 .. Len(q) /\ q[i] \in A
        BY <2>1, <3>1, <3>2
      <4> QED
        BY <3>2, <4>1, FilterHas
    <3> QED
      BY <1>1, <2>2, <3>1, <3>2
  <2> QED
    BY <1>3, <2>3 DEF Among
<1>5. Root # c
  BY ReadingConstants
<1>6. Root \in Among(left)
  BY <1>4, <1>5 DEF Shape, Among
<1>7. Among(s.bases) \subseteq Among(left) \cup {c}
  BY <1>4 DEF Among
<1> DEFINE place == IF Stack!Base(s) = c THEN Len(left)
                    ELSE CHOOSE j \in DOMAIN left : left[j] = Stack!Base(s)
<1> HIDE DEF place
<1>8. PICK i : i = place
  OBVIOUS
<1>9. i \in DOMAIN left
  <2>1. CASE Stack!Base(s) = c
    BY <1>3, <1>6, <1>8, <2>1 DEF Among, place
  <2>2. CASE Stack!Base(s) # c
    <3>1. Stack!Base(s) \in Among(left)
      BY <1>4, <2>2 DEF Stack!Base, Shape
    <3> QED
      BY <1>8, <2>2, <3>1 DEF Among, place
  <2> QED
    BY <2>1, <2>2
<1>10. PICK u : u = [s EXCEPT !.bases = left, !.retired = @ \cup {c}, !.active = i]
  OBVIOUS
<1>11. Keeps(s, u)
  BY <1>3, <1>6, <1>7, <1>9, <1>10, ActiveKeeps
<1>12. Stack!RemoveConnection(s, c) = IF Stack!Base(s) = c THEN Stack!Begin(u) ELSE u
  BY <1>2, <1>8, <1>10 DEF Stack!RemoveConnection, place
<1> QED
  BY <1>11, <1>12, BeginAlike, AlikeKeeps, KeepsBoth DEF Keeps

-----------------------------------------------------------------------------
(* Scenes.                                                                 *)

LEMMA LogicalLives ==
    ASSUME NEW s, Shape(s), NEW frame
    PROVE  Carried(Stack!Bundle(s, frame), Living(s))
<1>1. Stack!Base(s) \in Among(s.bases)
  BY DEF Shape, Stack!Base, Among
<1>2. Stack!Logical(s) \in {Stack!Base(s)} \cup Among(s.overlays)
  <2>1. CASE s.overlays = <<>>
    BY <2>1 DEF Stack!Logical, Stack!Overlaid
  <2>2. CASE s.overlays # <<>>
    <3>1. Len(s.overlays) \in DOMAIN s.overlays
      BY <2>2, EmptySeq, LenProperties DEF Shape
    <3> QED
      BY <2>2, <3>1 DEF Stack!Logical, Stack!Overlaid, Stack!Last, Among
  <2> QED
    BY <2>1, <2>2
<1>3. PICK r : r = Stack!Bundle(s, frame)
  OBVIOUS
<1>4. r.view = Stack!Logical(s) /\ r.views = {Stack!Base(s)} \cup Among(s.overlays)
  BY <1>3 DEF Stack!Bundle, Stack!ToSet, Among
<1> QED
  BY <1>1, <1>2, <1>3, <1>4 DEF Carried, Living

LEMMA ObserveAlike == ASSUME NEW s, Shape(s), NEW b PROVE Alike(s, Stack!Observe(s, b))
BY DEF Alike, Shape, Fields, Stack!Observe

LEMMA DroppedAlike == ASSUME NEW s, Shape(s), NEW n PROVE Alike(s, Stack!Dropped(s, n))
BY DEF Alike, Shape, Fields, Stack!Dropped

LEMMA AcceptedReadable ==
    ASSUME NEW s, Readable(s), NEW frame
    PROVE  Readable(Stack!Accepted(s, frame))
<1>1. PICK r : r = Stack!Bundle(s, frame)
  OBVIOUS
<1>2. Carried(r, Living(s))
  BY <1>1, LogicalLives DEF Readable
<1>3. PICK t : t = Stack!Accepted(s, frame)
  OBVIOUS
<1>4. t.pending = <<r>>
  BY <1>1, <1>3 DEF Stack!Accepted, Readable, Shape, Fields
<1>5. /\ DOMAIN t = DOMAIN s
      /\ t.bases = s.bases /\ t.overlays = s.overlays /\ t.retired = s.retired
      /\ t.active = s.active /\ t.writing = s.writing /\ t.presented = s.presented
      /\ t.screen = s.screen /\ t.unread = s.unread /\ t.misspoken = s.misspoken
  BY <1>3 DEF Stack!Accepted, Readable, Shape, Fields
<1>6. Living(t) = Living(s)
  BY <1>5 DEF Living
<1>7. \A i \in DOMAIN t.pending : Carried(t.pending[i], Living(t))
  BY <1>2, <1>4, <1>6
<1>8. Shape(t) /\ Heeded(t)
  BY <1>5, <1>6 DEF Readable, Shape, Heeded
<1>9. Queued(t)
  BY <1>4, <1>5, <1>6, <1>7 DEF Readable, Queued, Single
<1> QED
  BY <1>3, <1>8, <1>9 DEF Readable

\* What is dropped of the retired views is in no scene and not on the screen.
LEMMA PrunedReadable == ASSUME NEW s, Readable(s) PROVE Readable(Stack!Pruned(s))
<1>1. PICK t : t = Stack!Pruned(s)
  OBVIOUS
<1>2. /\ DOMAIN t = DOMAIN s
      /\ t.bases = s.bases /\ t.overlays = s.overlays /\ t.retired = s.retired \cap Stack!Kept(s)
      /\ t.active = s.active /\ t.pending = s.pending /\ t.writing = s.writing
      /\ t.presented = s.presented
      /\ t.screen = s.screen /\ t.unread = s.unread /\ t.misspoken = s.misspoken
  BY <1>1 DEF Stack!Pruned, Readable, Shape, Fields
<1>3. Living(s) \cap Stack!Kept(s) \subseteq Living(t)
  BY <1>2 DEF Living
<1>4. /\ s.presented \in Stack!Kept(s)
      /\ \A i \in DOMAIN s.pending : s.pending[i].views \subseteq Stack!Kept(s)
      /\ \A i \in DOMAIN s.writing : s.writing[i].views \subseteq Stack!Kept(s)
  <2>1. PICK P : P = {s.pending[i].views : i \in DOMAIN s.pending}
    OBVIOUS
  <2>2. PICK W : W = {s.writing[i].views : i \in DOMAIN s.writing}
    OBVIOUS
  <2>3. Stack!Kept(s) = {s.presented} \cup (UNION P) \cup (UNION W)
    BY <2>1, <2>2 DEF Stack!Kept
  <2>4. UNION P \subseteq Stack!Kept(s) /\ UNION W \subseteq Stack!Kept(s) /\ s.presented \in Stack!Kept(s)
    BY <2>3
  <2>5. ASSUME NEW i \in DOMAIN s.pending PROVE s.pending[i].views \subseteq UNION P
    BY <2>1
  <2>6. ASSUME NEW i \in DOMAIN s.writing PROVE s.writing[i].views \subseteq UNION W
    BY <2>2
  <2>7. \A i \in DOMAIN s.pending : s.pending[i].views \subseteq Stack!Kept(s)
    BY <2>4, <2>5
  <2>8. \A i \in DOMAIN s.writing : s.writing[i].views \subseteq Stack!Kept(s)
    BY <2>4, <2>6
  <2> QED
    BY <2>4, <2>7, <2>8
<1>5. Queued(t)
  BY <1>2, <1>3, <1>4 DEF Readable, Queued, Carried
<1>6. Shape(t) /\ Heeded(t)
  BY <1>2, <1>3, <1>4 DEF Readable, Shape, Heeded
<1> QED
  BY <1>1, <1>5, <1>6 DEF Readable

LEMMA RenderedReadable ==
    ASSUME NEW s, Readable(s), NEW opened, NEW attempt, NEW t \in Stack!Rendered(s, opened, attempt)
    PROVE  Readable(t)
<1>1. PICK u : u = Stack!Observe(s, opened)
  OBVIOUS
<1>2. Readable(u)
  BY <1>1, ObserveAlike, AlikeReadable DEF Readable
<1>3. \/ t = Stack!Pruned(Stack!Accepted(u, Stack!Composed(s)))
      \/ t = Stack!Pruned(Stack!Dropped(u, attempt))
  BY <1>1 DEF Stack!Rendered
<1>4. Readable(Stack!Accepted(u, Stack!Composed(s))) /\ Readable(Stack!Dropped(u, attempt))
  BY <1>2, AcceptedReadable, DroppedAlike, AlikeReadable DEF Readable
<1> QED
  BY <1>3, <1>4, PrunedReadable

LEMMA DrainedReadable ==
    ASSUME NEW s, Readable(s), NEW timedOut, NEW t \in Stack!Drained(s, timedOut)
    PROVE  Readable(t)
<1>1. \A n : Alike(s, [s EXCEPT !.retry = n])
  BY DEF Readable, Alike, Shape, Fields
<1>2. \A n : Readable([s EXCEPT !.retry = n])
  BY <1>1, AlikeReadable
<1>3. PICK n : \/ t \in Stack!Rendered([s EXCEPT !.retry = 0], FALSE, n)
               \/ t = Stack!Pruned([s EXCEPT !.retry = n])
  BY DEF Stack!Drained
<1> QED
  BY <1>2, <1>3, RenderedReadable, PrunedReadable

-----------------------------------------------------------------------------
(* Announcements: a view is spoken when it is the one on the screen.       *)

LEMMA SpeakReadable ==
    ASSUME NEW s, Readable(s), s.presented = Stack!Logical(s)
    PROVE  Readable(Stack!Speak(s))
<1>1. Alike(s, Stack!Speak(s))
  BY DEF Readable, Heeded, Alike, Shape, Fields, Stack!Speak
<1> QED
  BY <1>1, AlikeReadable

LEMMA AnnouncedReadable ==
    ASSUME NEW states, \A s \in states : Readable(s), NEW t \in Stack!Announced(states)
    PROVE  Readable(t)
<1>1. PICK s \in states : t = Stack!AnnounceViewChange(s)
  BY DEF Stack!Announced
<1>2. Readable(s)
  OBVIOUS
<1>3. CASE Stack!Ready(s)
  BY <1>1, <1>2, <1>3, SpeakReadable DEF Stack!AnnounceViewChange, Stack!Ready
<1>4. CASE ~Stack!Ready(s)
  <2>1. Alike(s, [s EXCEPT !.announce = TRUE])
    BY <1>2 DEF Readable, Alike, Shape, Fields
  <2> QED
    BY <1>1, <1>2, <1>4, <2>1, AlikeReadable DEF Stack!AnnounceViewChange
<1> QED
  BY <1>3, <1>4

-----------------------------------------------------------------------------
(* Steps.                                                                  *)

StackInv == Readable(stack)

LEMMA StackStarts == Stack!Init => StackInv
<1> SUFFICES ASSUME Stack!Init PROVE StackInv
  OBVIOUS
<1>1. /\ Fields \subseteq DOMAIN stack
      /\ stack.bases = <<Root>> /\ stack.overlays = <<>> /\ stack.active = 1
      /\ stack.pending = <<>> /\ stack.writing = <<>> /\ stack.presented = Root
      /\ stack.screen.view = Root /\ stack.unread = FALSE /\ stack.misspoken = FALSE
  BY DEF Stack!Init, Fields
<1>2. Root \in Stack!Bases
  BY DEF Stack!Bases
<1>3. <<Root>> \in Seq(Stack!Bases) /\ DOMAIN <<Root>> = {1} /\ <<Root>>[1] = Root
  BY <1>2
<1>4. Shape(stack) /\ Root \in Living(stack)
  BY <1>1, <1>3, EmptySeq DEF Shape, Living, Among
<1>5. Queued(stack) /\ Heeded(stack)
  BY <1>1, <1>4, EmptySeq DEF Queued, Single, Heeded
<1> QED
  BY <1>4, <1>5 DEF StackInv, Readable

\* A change of the stack is drawn, and announced when it can be.
LEMMA ChangeReadable ==
    ASSUME NEW s, Readable(s), NEW states,
           states = Stack!Rendered(s, FALSE, 0)
                    \/ states = Stack!Announced(Stack!Rendered(s, FALSE, 0)),
           Stack!Do(states)
    PROVE  StackInv'
<1>1. \A t \in Stack!Rendered(s, FALSE, 0) : Readable(t)
  BY RenderedReadable
<1>2. \A t \in Stack!Announced(Stack!Rendered(s, FALSE, 0)) : Readable(t)
  BY <1>1, AnnouncedReadable
<1> QED
  BY <1>1, <1>2 DEF Stack!Do, StackInv

LEMMA PushReadable ==
    ASSUME StackInv, NEW v \in Overlays, Stack!Push(v)
    PROVE  StackInv'
<1>1. PICK s : s = [Stack!Change(stack) EXCEPT !.used = @ \cup {v}]
  OBVIOUS
<1>2. Alike(stack, s) /\ Shape(s)
  BY <1>1 DEF Alike, Shape, Fields, Stack!Change, StackInv, Readable
<1>3. Readable(Stack!PushOverlay(s, v))
  BY <1>2, AlikeReadable, PushKeeps, KeepsReadable DEF StackInv
<1>4. Stack!Do(Stack!Announced(Stack!Rendered(Stack!PushOverlay(s, v), FALSE, 0)))
  BY <1>1 DEF Stack!Push
<1> QED
  BY <1>3, <1>4, ChangeReadable

LEMMA CloseReadable ==
    ASSUME StackInv, Stack!Close
    PROVE  StackInv'
<1>1. PICK s : s = Stack!Change(stack)
  OBVIOUS
<1>2. Alike(stack, s) /\ Shape(s) /\ Readable(s)
  BY <1>1, ChangeAlike, AlikeReadable DEF StackInv, Readable
<1>3. Stack!Overlaid(s)
  BY <1>2 DEF Alike, Stack!Overlaid, Stack!Close
<1>4. Readable(Stack!Pop(s))
  BY <1>2, <1>3, PopKeeps, KeepsReadable
<1>5. Stack!Do(Stack!Announced(Stack!Rendered(Stack!Pop(s), FALSE, 0)))
  BY <1>1 DEF Stack!Close
<1> QED
  BY <1>4, <1>5, ChangeReadable

LEMMA ConnectReadable ==
    ASSUME StackInv, NEW c \in Connections, Stack!Connect(c)
    PROVE  StackInv'
<1>1. PICK s : s = [Stack!Change(stack) EXCEPT !.used = @ \cup {c}]
  OBVIOUS
<1>2. Alike(stack, s) /\ Shape(s)
  BY <1>1 DEF Alike, Shape, Fields, Stack!Change, StackInv, Readable
<1>3. Readable(Stack!PushConnection(s, c))
  BY <1>2, AlikeReadable, ConnectKeeps, KeepsReadable DEF StackInv
<1>4. Stack!Do(Stack!Rendered(Stack!PushConnection(s, c), FALSE, 0))
  BY <1>1 DEF Stack!Connect
<1> QED
  BY <1>3, <1>4, ChangeReadable

LEMMA SwitchReadable ==
    ASSUME StackInv, NEW c \in Connections, Stack!Switch(c)
    PROVE  StackInv'
<1>1. PICK s : s = Stack!Change(stack)
  OBVIOUS
<1>2. Alike(stack, s) /\ Shape(s) /\ Readable(s)
  BY <1>1, ChangeAlike, AlikeReadable DEF StackInv, Readable
<1>3. c \in Among(s.bases)
  BY <1>2 DEF Alike, Stack!Switch, Stack!ToSet, Among
<1>4. Readable(Stack!Activate(s, c))
  BY <1>2, <1>3, ActivateKeeps, KeepsReadable
<1>5. Stack!Do(Stack!Announced(Stack!Rendered(Stack!Activate(s, c), FALSE, 0)))
  BY <1>1 DEF Stack!Switch
<1> QED
  BY <1>4, <1>5, ChangeReadable

LEMMA DisconnectReadable ==
    ASSUME StackInv, NEW c \in Connections, Stack!Disconnect(c)
    PROVE  StackInv'
<1>1. PICK s : s = Stack!Change(stack)
  OBVIOUS
<1>2. Readable(s) /\ Shape(s)
  BY <1>1, ChangeAlike, AlikeReadable DEF StackInv, Readable
<1>3. PICK t : t = Stack!ClearOverlays(s)
  OBVIOUS
<1>4. Keeps(s, t) /\ Shape(t) /\ Readable(t)
  BY <1>2, <1>3, ClearKeeps, KeepsReadable DEF Keeps
<1>5. PICK u : u = Stack!RemoveConnection(t, c)
  OBVIOUS
<1>6. Keeps(t, u) /\ Shape(u) /\ Readable(u)
  BY <1>4, <1>5, RemoveKeeps, KeepsReadable DEF Keeps
<1>7. PICK b : b = Stack!Last(u.bases)
  OBVIOUS
<1>8. b \in Among(u.bases)
  <2>1. Len(u.bases) \in DOMAIN u.bases
    BY <1>6, LenProperties DEF Shape
  <2> QED
    BY <1>7, <2>1 DEF Stack!Last, Among
<1>9. Readable(Stack!Activate(u, b))
  BY <1>6, <1>8, ActivateKeeps, KeepsReadable
<1>10. Stack!Do(Stack!Announced(Stack!Rendered(Stack!Activate(u, b), FALSE, 0)))
  BY <1>1, <1>3, <1>5, <1>7 DEF Stack!Disconnect
<1> QED
  BY <1>9, <1>10, ChangeReadable

LEMMA OutputReadable ==
    ASSUME StackInv, NEW b, NEW kind, Stack!Output(b, kind)
    PROVE  StackInv'
<1>1. PICK n, m, l : \E drawn \in BOOLEAN :
        Stack!Do(IF drawn THEN Stack!Rendered([stack EXCEPT !.outputs = n, !.epochs = m, !.live[b] = l],
                                              kind = "open", 0)
                 ELSE {[stack EXCEPT !.outputs = n, !.epochs = m, !.live[b] = l]})
  BY DEF Stack!Output
<1>2. PICK s : s = [stack EXCEPT !.outputs = n, !.epochs = m, !.live[b] = l]
  OBVIOUS
<1>3. Alike(stack, s)
  BY <1>2 DEF Alike, Shape, Fields, StackInv, Readable
<1>4. Readable(s)
  BY <1>3, AlikeReadable DEF StackInv
<1>5. stack' \in Stack!Rendered(s, kind = "open", 0) \/ stack' = s
  BY <1>1, <1>2 DEF Stack!Do
<1> QED
  BY <1>4, <1>5, RenderedReadable DEF StackInv

LEMMA FlushReadable ==
    ASSUME StackInv, Stack!Flush
    PROVE  StackInv'
<1>1. PICK r : r = stack.writing[1]
  OBVIOUS
<1>2. Carried(r, Living(stack))
  BY <1>1 DEF Stack!Flush, StackInv, Readable, Queued, Single
<1>3. PICK p : p = Stack!Published(stack, r)
  OBVIOUS
<1>0. p.unread = FALSE
  <2>1. p.unread = ~(r.views \subseteq Living(stack))
    BY <1>3 DEF Stack!Published, StackInv, Readable, Shape, Fields, Living, Among, Stack!ToSet
  <2>2. r.views \subseteq Living(stack)
    BY <1>2 DEF Carried
  <2> QED
    BY <2>1, <2>2
<1>4. /\ p.screen.view = r.view /\ p.presented = r.view
      /\ DOMAIN p = DOMAIN stack
      /\ p.bases = stack.bases /\ p.overlays = stack.overlays /\ p.retired = stack.retired
      /\ p.active = stack.active /\ p.pending = stack.pending /\ p.misspoken = stack.misspoken
  <2>1. PICK a, b : p = [stack EXCEPT !.screen = [view |-> r.view, base |-> r.base, frame |-> r.frame],
                                      !.shown = a, !.presented = r.view, !.unread = b]
    BY <1>3 DEF Stack!Published
  <2>2. Fields \subseteq DOMAIN stack
    BY DEF StackInv, Readable, Shape
  <2>3. p.misspoken = stack.misspoken
    BY <2>1, <2>2 DEF Fields
  <2> QED
    BY <2>1, <2>2, <2>3 DEF Fields
<1>5. \E w \in {[p EXCEPT !.writing = <<>>,
                !.release = IF @ = r.gen THEN 0 ELSE @,
                !.bypass = IF r.gen = stack.bypass THEN 0 ELSE @,
                !.owner = IF r.gen = stack.bypass /\ stack.owner[1] = r.gen THEN <<0, 0>> ELSE @,
                !.transition = IF (r.gen = stack.bypass /\ stack.owner[1] = r.gen) /\ @ = stack.owner[2]
                               THEN 0 ELSE @]} :
           Stack!Do(Stack!Drained(w, stack.release = r.gen))
  <2> DEFINE e == stack.writing[1]
             q == Stack!Published(stack, e)
  <2>1. \E w \in {[q EXCEPT !.writing = <<>>,
                !.release = IF @ = e.gen THEN 0 ELSE @,
                !.bypass = IF e.gen = stack.bypass THEN 0 ELSE @,
                !.owner = IF e.gen = stack.bypass /\ stack.owner[1] = e.gen THEN <<0, 0>> ELSE @,
                !.transition = IF (e.gen = stack.bypass /\ stack.owner[1] = e.gen) /\ @ = stack.owner[2]
                               THEN 0 ELSE @]} :
             Stack!Do(Stack!Drained(w, stack.release = e.gen))
    BY DEF Stack!Flush
  <2>2. p = q /\ r = e
    BY <1>1, <1>3
  <2> HIDE DEF e, q
  <2> QED
    BY <2>1, <2>2
<1>6. PICK w : /\ w = [p EXCEPT !.writing = <<>>,
                !.release = IF @ = r.gen THEN 0 ELSE @,
                !.bypass = IF r.gen = stack.bypass THEN 0 ELSE @,
                !.owner = IF r.gen = stack.bypass /\ stack.owner[1] = r.gen THEN <<0, 0>> ELSE @,
                !.transition = IF (r.gen = stack.bypass /\ stack.owner[1] = r.gen) /\ @ = stack.owner[2]
                               THEN 0 ELSE @]
               /\ Stack!Do(Stack!Drained(w, stack.release = r.gen))
  BY <1>5
<1>7. /\ DOMAIN w = DOMAIN stack /\ w.writing = <<>>
      /\ w.screen.view = r.view /\ w.presented = r.view /\ w.unread = FALSE
      /\ w.bases = stack.bases /\ w.overlays = stack.overlays /\ w.retired = stack.retired
      /\ w.active = stack.active /\ w.pending = stack.pending /\ w.misspoken = stack.misspoken
  BY <1>0, <1>4, <1>6 DEF StackInv, Readable, Shape, Fields
<1>8. Living(w) = Living(stack)
  BY <1>7 DEF Living
<1>9. Shape(w) /\ Heeded(w)
  BY <1>2, <1>7, <1>8 DEF StackInv, Readable, Shape, Heeded, Carried
<1>10. Queued(w)
  BY <1>7, <1>8, EmptySeq DEF StackInv, Readable, Queued, Single
<1> QED
  BY <1>6, <1>9, <1>10, DrainedReadable DEF Stack!Do, Readable, StackInv

LEMMA TimeOutReadable ==
    ASSUME StackInv, Stack!TimeOut
    PROVE  StackInv'
<1>1. PICK a, b : \E w :
        /\ w = [stack EXCEPT !.sync = "ignoring", !.release = a, !.expired = b]
        /\ Stack!Do(Stack!Drained(w, TRUE)) \/ Stack!Do({w})
  BY DEF Stack!TimeOut
<1>2. PICK w : /\ w = [stack EXCEPT !.sync = "ignoring", !.release = a, !.expired = b]
               /\ Stack!Do(Stack!Drained(w, TRUE)) \/ Stack!Do({w})
  BY <1>1
<1>3. Alike(stack, w)
  BY <1>2 DEF Alike, StackInv, Readable, Shape, Fields
<1>4. Readable(w)
  BY <1>3, AlikeReadable DEF StackInv
<1> QED
  BY <1>2, <1>4, DrainedReadable DEF Stack!Do, StackInv

LEMMA StartReadable ==
    ASSUME StackInv, Stack!Start
    PROVE  StackInv'
<1>1. stack' = [stack EXCEPT !.writing = stack.pending, !.pending = <<>>]
  BY DEF Stack!Start
<1>2. /\ DOMAIN stack' = DOMAIN stack /\ stack'.writing = stack.pending /\ stack'.pending = <<>>
      /\ stack'.presented = stack.presented /\ stack'.screen = stack.screen
      /\ stack'.unread = stack.unread /\ stack'.misspoken = stack.misspoken
      /\ stack'.bases = stack.bases /\ stack'.overlays = stack.overlays
      /\ stack'.retired = stack.retired /\ stack'.active = stack.active
  BY <1>1 DEF StackInv, Readable, Shape, Fields
<1>3. Living(stack') = Living(stack)
  BY <1>2 DEF Living
<1>4. Queued(stack')
  BY <1>2, <1>3, EmptySeq DEF StackInv, Readable, Queued, Single
<1>5. Shape(stack') /\ Heeded(stack')
  BY <1>2, <1>3 DEF StackInv, Readable, Shape, Heeded
<1> QED
  BY <1>4, <1>5 DEF StackInv, Readable

LEMMA StackHolds ==
    ASSUME StackInv, [Stack!Next]_(Stack!stackVars)
    PROVE  StackInv'
<1>1. CASE UNCHANGED Stack!stackVars
  BY <1>1 DEF StackInv, Stack!stackVars
<1>2. ASSUME NEW v \in Overlays, Stack!Push(v) PROVE StackInv'
  BY <1>2, PushReadable
<1>3. ASSUME NEW c \in Connections, Stack!Connect(c) \/ Stack!Switch(c) \/ Stack!Disconnect(c)
      PROVE  StackInv'
  BY <1>3, ConnectReadable, SwitchReadable, DisconnectReadable
<1>4. ASSUME NEW b, NEW kind, Stack!Output(b, kind) PROVE StackInv'
  BY <1>4, OutputReadable
<1>5. CASE Stack!Tick
  BY <1>5, SpeakReadable DEF Stack!Tick, Stack!Ready, StackInv
<1>6. CASE Stack!Fill
  <2>1. stack' = [stack EXCEPT !.backlog = TRUE, !.fills = @ + 1]
    BY <1>6 DEF Stack!Fill
  <2>2. Alike(stack, stack')
    BY <2>1 DEF Alike, StackInv, Readable, Shape, Fields
  <2> QED
    BY <2>2, AlikeReadable DEF StackInv
<1>7. CASE Stack!DrainBytes
  <2>1. PICK s : s = [stack EXCEPT !.backlog = FALSE]
    OBVIOUS
  <2>2. Alike(stack, s)
    BY <2>1 DEF Alike, StackInv, Readable, Shape, Fields
  <2>3. stack' \in Stack!Drained(s, FALSE)
    BY <1>7, <2>1 DEF Stack!DrainBytes, Stack!Do
  <2> QED
    BY <2>2, <2>3, AlikeReadable, DrainedReadable DEF StackInv
<1> QED
  BY <1>1, <1>2, <1>3, <1>4, <1>5, <1>6, <1>7, CloseReadable, StartReadable, FlushReadable,
     TimeOutReadable DEF Stack!Next

LEMMA StackImplies == StackInv => PresentedIsReadable
BY DEF StackInv, Readable, Heeded, Living, Among, PresentedIsReadable, Stack!PresentedIsReadable, Stack!ToSet

LEMMA StackAnywhere ==
    ASSUME StackInv, [ReadingNext]_readingVars
    PROVE  StackInv'
<1>1. [Stack!Next]_(Stack!stackVars)
  BY DEF ReadingNext, readingVars, InStack, InStable, InRead, InDeletes, InTable, InReview,
         Stack!stackVars
<1> QED
  BY <1>1, StackHolds

THEOREM ViewsStayReadable == ReadingSpec => []PresentedIsReadable
<1>1. ReadingInit => StackInv
  BY StackStarts DEF ReadingInit
<1> QED
  BY <1>1, StackAnywhere, StackImplies, PTL DEF ReadingSpec
=============================================================================
