--------------------------- MODULE TerminalProofs ---------------------------
(***************************************************************************)
(* What the components between the outer terminal and the child promise,   *)
(* for every value of their constants: the terminal goes back to the shell *)
(* as it was (Session), a gap in the child's input ends the child          *)
(* (ChildPty), a complete terminfo database stays (TerminfoCache), and a   *)
(* key's release follows its press (TerminalInput).  The components share  *)
(* no state, so each has an invariant and an argument of its own.          *)
(***************************************************************************)
EXTENDS Terminal, SequenceTheorems, TLAPS

-----------------------------------------------------------------------------
(* The terminal goes back as it was.  TerminalReturned speaks only of the  *)
(* two moments at which the shell has the terminal; SessionInv says how    *)
(* far the terminal has been taken, or given back, at every place of the   *)
(* process, also on the paths of a failed call.                            *)

\* Before raw mode, taking the terminal, the loop, a stop, and the clean-up.
Starting == {"speech", "cancel", "raw"}
Taking == {"focus", "flagsIn", "flagsOut"}
Looping == {"begin", "poll", "dispatch", "pty", "stdin", "output"}
Suspending == {"suspendFlags", "suspendDrain", "suspendAttrs", "continue"}
Restoring == {"restoreOut", "restoreIn", "fence"}
Fencing == {"wait", "leave"}
Places == Starting \cup Taking \cup Looping \cup Suspending \cup Restoring \cup Fencing
            \cup {"attrs", "drop", "main", "ended"}

Untouched == lifecycle = "inactive" /\ ~wanted /\ ~screen
OutOfScreen == lifecycle = "suspended" /\ ~wanted

SessionInv ==
    /\ pc \in Places
    /\ {raw, nbIn, nbOut, wanted, screen, armed, cleaned, stopped} \subseteq BOOLEAN
    /\ stopped => pc = "continue"
    /\ pc \in Starting => Untouched /\ ~raw /\ ~nbIn /\ ~nbOut /\ ~armed
    /\ pc \in Taking => Untouched
    /\ pc \in Looping => lifecycle = "active"
    /\ pc \in Suspending => OutOfScreen
    /\ pc \in Suspending \ {"suspendFlags"} => ~nbIn /\ ~nbOut
    /\ pc \in {"suspendAttrs", "continue"} => ~screen
    /\ pc = "continue" => ~raw
    /\ pc \in Restoring => lifecycle = "active" \/ OutOfScreen
    /\ pc \in Fencing => lifecycle = "fence" \/ OutOfScreen
    /\ pc \in Taking \cup Looping \cup Suspending \cup Restoring \cup Fencing \cup {"attrs"} => armed
    /\ pc = "attrs" => ~screen
    /\ pc = "drop" => ~screen \/ (armed /\ ~cleaned)
    /\ pc \in {"main", "ended"} => ~nbIn /\ ~nbOut /\ ~screen
    /\ pc = "ended" => ~raw

\* The process starts with the terminal untouched.
LEMMA SessionStarts == Life!Init => SessionInv
BY DEF Life!Init, SessionInv, Untouched, Places, Starting, Taking, Looping, Suspending, Restoring, Fencing

\* What SessionInv talks about.
control == <<pc, raw, nbIn, nbOut, lifecycle, wanted, screen, armed, cleaned, stopped>>

\* Every step of the process, of the signals and of the clock keeps the account.
LEMMA SessionHolds ==
    ASSUME SessionInv, [Life!Next]_(Life!sessionVars)
    PROVE  SessionInv'
<1> USE DEF SessionInv, Untouched, OutOfScreen, Places, Starting, Taking, Looping, Suspending, Restoring, Fencing
<1> USE DEF Life!endVars, Life!sigVars, Life!termVars, Life!Transaction
<1>1. CASE UNCHANGED control
  BY <1>1 DEF control
<1>2. CASE Life!SpeechStep
  BY <1>2 DEF Life!SpeechStep, Life!SpeechStarts, Life!MonitorSeesSignal, Life!MonitorCancelled, Life!StartupOutcome
<1>3. CASE Life!SetRaw \/ Life!QueryFocus \/ Life!InputNonblocking
  <2>1. CASE Life!SetRaw
    BY <2>1 DEF Life!SetRaw
  <2>2. CASE Life!QueryFocus
    BY <2>2 DEF Life!QueryFocus
  <2>3. CASE Life!InputNonblocking
    BY <2>3 DEF Life!InputNonblocking
  <2>4. QED
    BY <1>3, <2>1, <2>2, <2>3
<1>4. CASE Life!OutputNonblocking
  BY <1>4 DEF Life!OutputNonblocking, Life!Activate
<1>5. CASE Life!Begin
  <2>1. /\ pc = "begin" /\ pc' \in {"restoreOut", "poll"}
        /\ screen' \in BOOLEAN
        /\ UNCHANGED <<raw, nbIn, nbOut, lifecycle, wanted, armed, cleaned, stopped>>
    BY <1>5 DEF Life!Begin, Life!DrainOutput
  <2>2. QED
    BY <2>1
<1>6. CASE Life!Poll \/ Life!NoSignalLeft \/ Life!ShutdownSignal \/ Life!ServeStdin
  BY <1>6 DEF Life!Poll, Life!NoSignalLeft, Life!ShutdownSignal, Life!ServeStdin
<1>7. CASE Life!SuspendSignal
  BY <1>7 DEF Life!SuspendSignal, Life!Suspend
<1>8. CASE Life!SuspendFlags
  BY <1>8 DEF Life!SuspendFlags
<1>9. CASE Life!SuspendDrain
  BY <1>9 DEF Life!SuspendDrain
<1>10. CASE Life!StopSelf
  BY <1>10 DEF Life!StopSelf
<1>11. CASE Life!Continued
  BY <1>11 DEF Life!Continued, Life!Reclaim, Life!Resume
<1>12. CASE Life!ResumeSignal
  BY <1>12 DEF Life!ResumeSignal, Life!Reclaim, Life!Resume
<1>13. CASE Life!ServePty
  <2>1. /\ pc = "pty" /\ pc' \in {"restoreOut", "stdin"}
        /\ screen' \in BOOLEAN
        /\ UNCHANGED <<raw, nbIn, nbOut, lifecycle, wanted, armed, cleaned, stopped>>
    BY <1>13 DEF Life!ServePty
  <2>2. QED
    BY <2>1
<1>14. CASE Life!ServeOutput
  <2>1. /\ pc = "output" /\ pc' = "poll"
        /\ screen' \in BOOLEAN
        /\ UNCHANGED <<raw, nbIn, nbOut, lifecycle, wanted, armed, cleaned, stopped>>
    BY <1>14 DEF Life!ServeOutput, Life!DrainOutput
  <2>2. QED
    BY <2>1
<1>15. CASE Life!RestoreOut \/ Life!RestoreIn
  <2>1. CASE Life!RestoreOut
    BY <2>1 DEF Life!RestoreOut
  <2>2. CASE Life!RestoreIn
    BY <2>2 DEF Life!RestoreIn
  <2>3. QED
    BY <1>15, <2>1, <2>2
<1>16. CASE Life!SendFence
  BY <1>16 DEF Life!SendFence, Life!BeginFence
<1>17. CASE Life!AwaitFence
  BY <1>17 DEF Life!AwaitFence
<1>18. CASE Life!LeaveScreen
  BY <1>18 DEF Life!LeaveScreen, Life!FinishFence
<1>19. CASE Life!RestoreAttrs
  BY <1>19 DEF Life!RestoreAttrs
<1>20. CASE Life!DropGuards
  BY <1>20 DEF Life!DropGuards, Life!Disarmed
<1>21. CASE Life!MainEnds
  BY <1>21 DEF Life!MainEnds
<1>22. CASE Life!ReturnsEarly
  BY <1>22 DEF Life!ReturnsEarly, Life!Fails
<1>23. CASE Life!LoopFails
  BY <1>23 DEF Life!LoopFails, Life!Fails
<1>24. CASE Life!InputEof
  BY <1>24 DEF Life!InputEof
<1>25. CASE Life!RestoreFails
  BY <1>25 DEF Life!RestoreFails, Life!Fails
<1>26. ASSUME NEW s \in {"TSTP", "CONT", "TERM"}, Life!Signal(s) PROVE SessionInv'
  BY <1>26 DEF Life!Signal
<1>27. CASE Life!Type \/ Life!ChildWrites \/ Life!ChildExits \/ Life!SilenceElapses \/ Life!Ended
  BY <1>1, <1>27 DEF Life!Type, Life!ChildWrites, Life!ChildExits, Life!SilenceElapses, Life!Ended, Life!sessionVars, control
<1>28. CASE UNCHANGED Life!sessionVars
  BY <1>1, <1>28 DEF Life!sessionVars, control
<1>29. QED
  BY <1>2, <1>3, <1>4, <1>5, <1>6, <1>7, <1>8, <1>9, <1>10, <1>11, <1>12, <1>13, <1>14, <1>15, <1>16,
     <1>17, <1>18, <1>19, <1>20, <1>21, <1>22, <1>23, <1>24, <1>25, <1>26, <1>27, <1>28
  DEF Life!Next, Life!LectorStep, Life!SetupStep, Life!TurnStep, Life!SuspendStep, Life!CleanStep

\* Whenever the shell has the terminal back, stopped or ended, raw mode, the
\* descriptor flags and the alternate screen are as they were, whichever call
\* failed on the way (do_events, its guards, suspend and cleanup).
THEOREM ShellGetsItBack == Life!Spec => []TerminalReturned
<1>1. SessionInv => TerminalReturned
  BY DEF SessionInv, Suspending, TerminalReturned, Life!TerminalReturned
<1>2. QED
  BY SessionStarts, SessionHolds, <1>1, PTL DEF Life!Spec

-----------------------------------------------------------------------------
(* A complete database stays.  The property is not inductive: that the     *)
(* installer which removes the database sees no complete one rests on the  *)
(* file lock it holds since it looked.                                     *)

\* The holder of the file lock is replacing the database, or just looks.
Working == {"clean", "stage", "mark", "rename"}
Locked == Working \cup {"recheck", "verify"}
Steps == Locked \cup Cache!Done \cup {"check", "mutex", "flock"}

\* Only the holder of the file lock is past it; the one that replaces the
\* database saw that it was not complete, and nobody else can complete it.
CacheInv ==
    /\ db \in Cache!Contents
    /\ staging \in [Cache!Installers -> Cache!Contents]
    /\ at \in [Cache!Installers -> Steps]
    /\ \A i \in Cache!Installers :
        /\ at[i] \in Locked => flock = i
        /\ at[i] \in Working => db # "ready"
        /\ at[i] = "rename" => staging[i] = "ready"
        /\ at[i] \in {"verify", "persistent"} => db = "ready"

\* The step DatabaseStays allows.
DatabaseStep ==
    /\ db = "ready" => db' = "ready"
    /\ \A i \in Cache!Installers : at'[i] = "persistent" => db' = "ready"

\* No installer starts with the lock.
LEMMA CacheStarts ==
    Cache!Init => CacheInv
BY SMT DEF Cache!Init, CacheInv, Cache!Contents, Steps, Locked, Working, Cache!Done

\* Every installer's step and every crash keeps the invariant and the database.
LEMMA CacheHolds ==
    ASSUME Nobody \notin Cache!Installers, CacheInv, [Cache!Next]_(Cache!cacheVars)
    PROVE  CacheInv' /\ DatabaseStep
<1> USE DEF CacheInv, DatabaseStep, Cache!Contents, Steps, Locked, Working, Cache!Done
<1>1. CASE UNCHANGED Cache!cacheVars
  BY <1>1 DEF Cache!cacheVars
<1>2. ASSUME NEW i \in Cache!Installers, Cache!Check(i) PROVE CacheInv' /\ DatabaseStep
  BY <1>2 DEF Cache!Check, Cache!Go, Cache!Ready
<1>3. ASSUME NEW i \in Cache!Installers, Cache!LockProcess(i) PROVE CacheInv' /\ DatabaseStep
  BY <1>3 DEF Cache!LockProcess, Cache!Go
<1>4. ASSUME NEW i \in Cache!Installers, Cache!LockFile(i) PROVE CacheInv' /\ DatabaseStep
  BY <1>4 DEF Cache!LockFile, Cache!Go
<1>5. ASSUME NEW i \in Cache!Installers, Cache!LockTimesOut(i) PROVE CacheInv' /\ DatabaseStep
  BY <1>5 DEF Cache!LockTimesOut, Cache!End, Cache!Go, Cache!Release
<1>6. ASSUME NEW i \in Cache!Installers, Cache!Recheck(i) PROVE CacheInv' /\ DatabaseStep
  BY <1>6 DEF Cache!Recheck, Cache!AfterRecheck, Cache!Ready, Cache!End, Cache!Go, Cache!Release
<1>7. ASSUME NEW i \in Cache!Installers, Cache!Clean(i) PROVE CacheInv' /\ DatabaseStep
  BY <1>7 DEF Cache!Clean, Cache!Go
<1>8. ASSUME NEW i \in Cache!Installers, Cache!CleanPartly(i) PROVE CacheInv' /\ DatabaseStep
  BY <1>8 DEF Cache!CleanPartly
<1>9. ASSUME NEW i \in Cache!Installers, Cache!Stage(i) PROVE CacheInv' /\ DatabaseStep
  BY <1>9 DEF Cache!Stage, Cache!Go
<1>10. ASSUME NEW i \in Cache!Installers, Cache!Mark(i) PROVE CacheInv' /\ DatabaseStep
  BY <1>10 DEF Cache!Mark, Cache!Go
<1>11. ASSUME NEW i \in Cache!Installers, Cache!Rename(i) PROVE CacheInv' /\ DatabaseStep
  BY <1>11 DEF Cache!Rename, Cache!Go
<1>12. ASSUME NEW i \in Cache!Installers, Cache!Verify(i) PROVE CacheInv' /\ DatabaseStep
  BY <1>12 DEF Cache!Verify, Cache!Ready, Cache!End, Cache!Go, Cache!Release
<1>13. ASSUME NEW i \in Cache!Installers, Cache!Fail(i) PROVE CacheInv' /\ DatabaseStep
  BY <1>13 DEF Cache!Fail, Cache!End, Cache!Go, Cache!Release
<1>14. ASSUME NEW i \in Cache!Installers, Cache!Crash(Cache!Process(i)) PROVE CacheInv' /\ DatabaseStep
  BY <1>14 DEF Cache!Crash
<1>15. QED
  BY <1>1, <1>2, <1>3, <1>4, <1>5, <1>6, <1>7, <1>8, <1>9, <1>10, <1>11, <1>12, <1>13, <1>14
  DEF Cache!Next, Cache!Step

\* No installer, thread or process, takes a complete database away from the
\* terminals that use it, and none returns an incomplete one, wherever
\* processes die (install_synchronized_output_terminfo_with_timeout).
THEOREM DatabaseKept ==
    ASSUME Nobody \notin Cache!Installers
    PROVE  Cache!Spec => DatabaseStays
<1>1. Cache!Init => CacheInv
  BY CacheStarts
<1>2. CacheInv /\ [Cache!Next]_(Cache!cacheVars) => CacheInv' /\ [DatabaseStep]_(Cache!cacheVars)
  BY CacheHolds
<1>3. QED
  BY <1>1, <1>2, PTL DEF Cache!Spec, DatabaseStays, Cache!DatabaseStays, DatabaseStep

-----------------------------------------------------------------------------
(* A gap ends the child.  GapEndsChild says nothing about the middle of a  *)
(* turn, where the loss has happened and the child still runs; ChildInv    *)
(* says that the loss is then counted.  The lemmas are about the sequences *)
(* accept_write cuts and joins.                                            *)

\* What is written to a child.
Stream == Seq(Nat)
\* In the order written, nothing twice, nothing beyond what was written.
Rising(s, top) ==
    /\ \A i, j \in 1 .. Len(s) : i < j => s[i] < s[j]
    /\ \A i \in 1 .. Len(s) : s[i] <= top
\* Nothing was dropped.
Whole == Len(Child!Stream) = sent /\ \A i \in 1 .. Len(Child!Stream) : Child!Stream[i] = i

\* The buffers stay within their limits.
ChildTypes ==
    /\ queue \in Stream /\ pipe \in Stream /\ got \in Stream
    /\ Len(queue) <= Limit /\ Len(pipe) <= Capacity
    /\ droppedNow \in Nat /\ sent \in Nat
    /\ inTurn \in BOOLEAN
    /\ foreground \in {"shell", "job", "lector"}
    /\ running \subseteq {"shell", "job", "lector"}

\* A loss is either being counted in this turn or has ended the child; and a child
\* that was ended has lost its foreground too.
ChildInv ==
    /\ ChildTypes
    /\ Rising(Child!Stream, sent)
    /\ ~Whole => "shell" \notin running \/ (inTurn /\ droppedNow # 0)
    /\ "shell" \notin running => running \cap Child!Killed = {}

\* The front of a sequence.
LEMMA TakeProperties ==
    ASSUME NEW s \in Stream, NEW n \in Nat
    PROVE  /\ Child!Take(s, n) \in Stream
           /\ Len(Child!Take(s, n)) = IF n < Len(s) THEN n ELSE Len(s)
           /\ \A i \in 1 .. Len(Child!Take(s, n)) : Child!Take(s, n)[i] = s[i]
BY DEF Child!Take, Stream

\* What is left of it.
LEMMA RestProperties ==
    ASSUME NEW s \in Stream, NEW n \in Nat, n <= Len(s)
    PROVE  /\ Child!Rest(s, n) \in Stream
           /\ Len(Child!Rest(s, n)) = Len(s) - n
           /\ \A i \in 1 .. Len(Child!Rest(s, n)) : Child!Rest(s, n)[i] = s[n + i]
BY DEF Child!Rest, Stream

\* Concatenation is associative.
LEMMA Associative ==
    ASSUME NEW s \in Stream, NEW t \in Stream, NEW u \in Stream
    PROVE  (s \o t) \o u = s \o (t \o u)
BY SMT DEF Stream

\* A sequence is the concatenation of its two parts.
LEMMA Splits ==
    ASSUME NEW s \in Stream, NEW t \in Stream, NEW u \in Stream,
           Len(s) = Len(t) + Len(u),
           \A i \in 1 .. Len(t) : s[i] = t[i],
           \A i \in 1 .. Len(u) : s[Len(t) + i] = u[i]
    PROVE  t \o u = s
<1>1. t \o u \in Seq(Nat) /\ Len(t \o u) = Len(s)
  BY DEF Stream
<1>2. ASSUME NEW i \in 1 .. Len(s) PROVE (t \o u)[i] = s[i]
  <2>1. CASE i <= Len(t)
    BY <2>1 DEF Stream
  <2>2. CASE ~(i <= Len(t))
    <3>1. i - Len(t) \in 1 .. Len(u) /\ Len(t) + (i - Len(t)) = i
      BY <2>2 DEF Stream
    <3>2. u[i - Len(t)] = s[i]
      BY <3>1
    <3>3. (t \o u)[i] = u[i - Len(t)]
      BY <3>1, <2>2 DEF Stream
    <3>4. QED
      BY <3>2, <3>3
  <2>3. QED
    BY <2>1, <2>2
<1>3. QED
  BY <1>1, <1>2, SeqEqual DEF Stream

\* Front and rest make the whole.
LEMMA TakeAndRest ==
    ASSUME NEW s \in Stream, NEW n \in Nat
    PROVE  Child!Take(s, n) \o Child!Rest(s, Len(Child!Take(s, n))) = s
<1> DEFINE t == Child!Take(s, n)
           u == Child!Rest(s, Len(t))
<1>1. t \in Stream /\ Len(t) \in Nat /\ Len(t) <= Len(s) /\ \A i \in 1 .. Len(t) : t[i] = s[i]
  BY TakeProperties DEF Stream
<1>2. u \in Stream /\ Len(u) = Len(s) - Len(t) /\ \A i \in 1 .. Len(u) : u[i] = s[Len(t) + i]
  BY <1>1, RestProperties
<1>3. Len(s) = Len(t) + Len(u)
  BY <1>1, <1>2 DEF Stream
<1> HIDE DEF t, u
<1>4. t \o u = s
  BY <1>1, <1>2, <1>3, Splits
<1>5. QED
  BY <1>4 DEF t, u

\* drain_pending_writes moves bytes from the queue to the kernel and changes no order.
LEMMA DrainedProperties ==
    ASSUME ChildTypes, Capacity \in Nat
    PROVE  /\ Child!Drained.queue \in Stream /\ Child!Drained.pipe \in Stream
           /\ Len(Child!Drained.queue) <= Len(queue)
           /\ Len(Child!Drained.pipe) <= Capacity
           /\ Child!Drained.pipe \o Child!Drained.queue = pipe \o queue
<1> DEFINE room == Capacity - Len(pipe)
           t == Child!Take(queue, room)
           u == Child!Rest(queue, Len(t))
<1>1. room \in Nat /\ queue \in Stream /\ pipe \in Stream
  BY DEF ChildTypes, Stream
<1>2. t \in Stream /\ Len(t) \in Nat /\ Len(t) <= room /\ Len(t) <= Len(queue)
  <2> HIDE DEF room
  <2>1. t \in Stream /\ Len(t) = IF room < Len(queue) THEN room ELSE Len(queue)
    BY <1>1, TakeProperties
  <2>2. Len(queue) \in Nat
    BY <1>1 DEF Stream
  <2>3. QED
    BY <1>1, <2>1, <2>2
<1>3. u \in Stream /\ Len(u) = Len(queue) - Len(t)
  BY <1>1, <1>2, RestProperties DEF Stream
<1>4. t \o u = queue
  BY <1>1, TakeAndRest
<1>5. Child!Take(queue, Len(t)) = t
  BY <1>1, <1>2 DEF Child!Take, Stream
<1>6. Child!Drained = [queue |-> u, pipe |-> pipe \o t]
  BY <1>5 DEF Child!Drained, Child!Space
<1> HIDE DEF room, t, u
<1>7. (pipe \o t) \o u = pipe \o (t \o u)
  BY <1>1, <1>2, <1>3, Associative
<1>8. Len(pipe \o t) <= Capacity /\ pipe \o t \in Stream /\ Len(u) <= Len(queue)
  BY <1>1, <1>2, <1>3, ConcatProperties DEF Stream, room, ChildTypes
<1>9. QED
  BY <1>3, <1>4, <1>6, <1>7, <1>8

\* accept_write appends a front of the bytes and counts exactly the rest.
LEMMA WriteProperties ==
    ASSUME ChildTypes, Capacity \in Nat, Limit \in Nat,
           NEW bytes \in Stream, Child!Write(bytes)
    PROVE  /\ queue' \in Stream /\ Len(queue') <= Limit
           /\ pipe' \in Stream /\ Len(pipe') <= Capacity
           /\ \E m \in 0 .. Len(bytes) :
                /\ pipe' \o queue' = (pipe \o queue) \o Child!Take(bytes, m)
                /\ droppedNow' = droppedNow + (Len(bytes) - m)
<1> DEFINE q == Child!Drained.queue
           p == Child!Drained.pipe
           free == Capacity - Len(p)
           first == Child!Take(bytes, free)
           direct == IF q = <<>> THEN Len(first) ELSE 0
           a == Child!Take(bytes, direct)
           remainder == Child!Rest(bytes, direct)
           kept == Child!Take(remainder, Limit - Len(q))
           m == direct + Len(kept)
<1>1. /\ q \in Stream /\ p \in Stream /\ Len(q) <= Limit /\ Len(p) <= Capacity
      /\ Len(q) \in Nat /\ Len(p) \in Nat
      /\ p \o q = pipe \o queue
  <2>1. /\ q \in Stream /\ p \in Stream /\ Len(q) <= Len(queue) /\ Len(p) <= Capacity
        /\ p \o q = pipe \o queue
    BY DrainedProperties
  <2> HIDE DEF q, p
  <2>2. Len(queue) \in Nat /\ Len(queue) <= Limit /\ Len(q) \in Nat /\ Len(p) \in Nat
    BY <2>1 DEF ChildTypes, Stream
  <2>3. QED
    BY <2>1, <2>2
<1>2. /\ pipe' = p \o a
      /\ queue' = q \o kept
      /\ droppedNow' = droppedNow + Len(remainder) - Len(kept)
  BY DEF Child!Write, Child!Space, Child!Retained
<1> HIDE DEF q, p
<1>3. first \in Stream /\ Len(first) <= free /\ Len(first) <= Len(bytes) /\ Len(first) \in Nat
  <2>1. free \in Nat
    BY <1>1
  <2> HIDE DEF free
  <2>2. first \in Stream /\ Len(first) = IF free < Len(bytes) THEN free ELSE Len(bytes)
    BY <2>1, TakeProperties
  <2>3. Len(bytes) \in Nat
    BY DEF Stream
  <2>4. QED
    BY <2>1, <2>2, <2>3
<1>4. direct \in Nat /\ direct <= free /\ direct <= Len(bytes)
  <2> HIDE DEF first
  <2>1. QED
    BY <1>1, <1>3 DEF Stream
<1> HIDE DEF first, direct
<1>5. a \in Stream /\ Len(a) = direct /\ \A i \in 1 .. direct : a[i] = bytes[i]
  BY <1>4, TakeProperties DEF Stream
<1>6. /\ remainder \in Stream /\ Len(remainder) = Len(bytes) - direct
      /\ \A i \in 1 .. Len(remainder) : remainder[i] = bytes[direct + i]
  BY <1>4, RestProperties
<1>7. /\ kept \in Stream /\ Len(kept) <= Limit - Len(q) /\ Len(kept) <= Len(remainder)
      /\ Len(kept) \in Nat
      /\ \A i \in 1 .. Len(kept) : kept[i] = remainder[i]
  BY <1>1, <1>6, TakeProperties DEF Stream
<1> HIDE DEF a, remainder, kept
<1>8. m \in Nat /\ m <= Len(bytes) /\ m \in 0 .. Len(bytes)
  BY <1>4, <1>6, <1>7 DEF Stream
<1>9. a \o kept = Child!Take(bytes, m)
  <2> DEFINE b == Child!Take(bytes, m)
  <2>1. b \in Stream /\ Len(b) = m /\ \A i \in 1 .. m : b[i] = bytes[i]
    BY <1>8, TakeProperties DEF Stream
  <2> HIDE DEF b
  <2>2. Len(b) = Len(a) + Len(kept)
    BY <1>5, <2>1
  <2>3. \A i \in 1 .. Len(a) : b[i] = a[i]
    BY <1>4, <1>5, <1>7, <2>1
  <2>4. ASSUME NEW i \in 1 .. Len(kept) PROVE b[Len(a) + i] = kept[i]
    <3>1. direct + i \in 1 .. m /\ i \in 1 .. Len(remainder)
      BY <1>4, <1>6, <1>7 DEF Stream
    <3>2. b[direct + i] = bytes[direct + i] /\ remainder[i] = bytes[direct + i]
      BY <3>1, <1>6, <2>1
    <3>3. QED
      BY <3>2, <1>5, <1>7
  <2>5. a \o kept = b
    BY <1>5, <1>7, <2>1, <2>2, <2>3, <2>4, Splits
  <2>6. QED
    BY <2>5 DEF b
<1>10. (p \o a) \o (q \o kept) = (p \o q) \o (a \o kept)
  <2>1. CASE q = <<>>
    <3>1. q \o kept = kept /\ p \o q = p
      BY <1>1, <1>7, <2>1, ConcatEmptySeq DEF Stream
    <3>2. (p \o a) \o kept = p \o (a \o kept)
      BY <1>1, <1>5, <1>7, Associative
    <3>3. QED
      BY <3>1, <3>2
  <2>2. CASE q # <<>>
    <3>1. a = <<>>
      BY <1>5, <2>2, EmptySeq DEF direct, Stream
    <3>2. p \o a = p /\ a \o kept = kept
      BY <3>1, <1>1, <1>7, ConcatEmptySeq DEF Stream
    <3>3. p \o (q \o kept) = (p \o q) \o kept
      BY <1>1, <1>7, Associative
    <3>4. QED
      BY <3>2, <3>3
  <2>3. QED
    BY <2>1, <2>2
<1>11. pipe' \o queue' = (pipe \o queue) \o Child!Take(bytes, m)
  BY <1>1, <1>2, <1>9, <1>10
<1>12. Len(p \o a) <= Capacity /\ p \o a \in Stream /\ Len(q \o kept) <= Limit /\ q \o kept \in Stream
  BY <1>1, <1>4, <1>5, <1>7, ConcatProperties DEF Stream
<1>13. droppedNow' = droppedNow + (Len(bytes) - m)
  BY <1>2, <1>4, <1>6, <1>7 DEF ChildTypes, Stream
<1> HIDE DEF m
<1>14. QED
  BY <1>2, <1>8, <1>11, <1>12, <1>13

\* A front of new bytes behind an ordered stream leaves it ordered.
LEMMA StreamGrows ==
    ASSUME NEW s \in Stream, NEW top \in Nat, NEW n \in Nat, NEW m \in 0 .. n,
           NEW bytes, bytes = [i \in 1 .. n |-> top + i], Rising(s, top)
    PROVE  Rising(s \o Child!Take(bytes, m), top + n)
<1> DEFINE t == Child!Take(bytes, m)
           all == s \o t
<1>1. bytes \in Stream /\ Len(bytes) = n
  BY IsASeq DEF Stream
<1>2. t \in Stream /\ Len(t) = m /\ \A i \in 1 .. m : t[i] = top + i
  BY <1>1, TakeProperties
<1> HIDE DEF t
<1>3. all \in Stream /\ Len(all) = Len(s) + m
  BY <1>2, ConcatProperties DEF Stream
<1>4. \A i \in 1 .. Len(s) : all[i] = s[i]
  BY <1>2 DEF Stream
<1>5. ASSUME NEW i \in 1 .. Len(all), ~(i <= Len(s))
      PROVE  all[i] = top + (i - Len(s)) /\ i - Len(s) \in 1 .. m
  <2>1. i - Len(s) \in 1 .. m
    BY <1>2, <1>3, <1>5 DEF Stream
  <2>2. all[i] = t[i - Len(s)]
    BY <1>2, <1>3, <1>5, <2>1 DEF Stream
  <2>3. QED
    BY <1>2, <2>1, <2>2
<1>6. Len(s) \in Nat /\ \A i \in 1 .. Len(s) : s[i] \in Nat
  BY DEF Stream
<1> HIDE DEF all
<1>7. ASSUME NEW i \in 1 .. Len(all) PROVE all[i] <= top + n
  <2>1. CASE i <= Len(s)
    BY <2>1, <1>3, <1>4, <1>6 DEF Rising
  <2>2. CASE ~(i <= Len(s))
    BY <2>2, <1>5
  <2>3. QED
    BY <2>1, <2>2
<1>8. ASSUME NEW i \in 1 .. Len(all), NEW j \in 1 .. Len(all), i < j
      PROVE  all[i] < all[j]
  <2>1. CASE j <= Len(s)
    BY <2>1, <1>3, <1>4, <1>6, <1>8 DEF Rising
  <2>2. CASE i <= Len(s) /\ ~(j <= Len(s))
    <3>1. i \in 1 .. Len(s) /\ all[i] = s[i] /\ s[i] \in Nat /\ s[i] <= top
      BY <2>2, <1>3, <1>4, <1>6 DEF Rising
    <3>2. all[j] = top + (j - Len(s)) /\ j - Len(s) \in 1 .. m
      BY <2>2, <1>5
    <3>3. QED
      BY <3>1, <3>2
  <2>3. CASE ~(i <= Len(s))
    <3>1. all[i] = top + (i - Len(s)) /\ i - Len(s) \in 1 .. m
      BY <2>3, <1>5
    <3>2. all[j] = top + (j - Len(s)) /\ j - Len(s) \in 1 .. m
      BY <2>3, <1>3, <1>5, <1>6, <1>8
    <3>3. QED
      BY <3>1, <3>2, <1>6, <1>8
  <2>4. QED
    BY <2>1, <2>2, <2>3, <1>6, <1>3
<1>9. QED
  BY <1>7, <1>8 DEF Rising, all, t

\* All of the new bytes behind a stream without gaps leave no gap.
LEMMA StreamStaysWhole ==
    ASSUME NEW s \in Stream, NEW top \in Nat, NEW n \in Nat,
           NEW bytes \in Stream, Len(bytes) = n, \A i \in 1 .. n : bytes[i] = top + i,
           Len(s) = top, \A i \in 1 .. Len(s) : s[i] = i
    PROVE  /\ Len(s \o Child!Take(bytes, n)) = top + n
           /\ \A i \in 1 .. Len(s \o Child!Take(bytes, n)) : (s \o Child!Take(bytes, n))[i] = i
<1> DEFINE t == Child!Take(bytes, n)
           all == s \o t
<1>2. t \in Stream /\ Len(t) = n /\ \A i \in 1 .. n : t[i] = top + i
  <2>1. t \in Stream /\ Len(t) = IF n < n THEN n ELSE n
    BY TakeProperties
  <2>2. \A i \in 1 .. Len(t) : t[i] = bytes[i]
    BY TakeProperties
  <2>3. QED
    BY <2>1, <2>2
<1> HIDE DEF t
<1>3. all \in Stream /\ Len(all) = top + n
  BY <1>2, ConcatProperties DEF Stream
<1>4. ASSUME NEW i \in 1 .. Len(all) PROVE all[i] = i
  <2>1. CASE i <= top
    BY <2>1, <1>2 DEF Stream
  <2>2. CASE ~(i <= top)
    <3>1. i - top \in 1 .. n /\ top + (i - top) = i
      BY <2>2, <1>3
    <3>2. all[i] = t[i - top]
      BY <1>2, <1>3, <2>2, <3>1 DEF Stream
    <3>3. QED
      BY <1>2, <3>1, <3>2
  <2>3. QED
    BY <2>1, <2>2
<1>5. QED
  BY <1>3, <1>4 DEF t

\* The stream is a sequence of bytes.
LEMMA StreamType ==
    ASSUME ChildTypes
    PROVE  Child!Stream \in Stream /\ Child!Stream = got \o (pipe \o queue)
<1>1. (got \o pipe) \o queue = got \o (pipe \o queue)
  BY Associative DEF ChildTypes
<1>2. got \o pipe \in Stream
  BY DEF ChildTypes, Stream
<1>3. (got \o pipe) \o queue \in Stream
  BY <1>2 DEF ChildTypes, Stream
<1>4. QED
  BY <1>1, <1>3 DEF Child!Stream

\* A step that leaves the stream and the loss alone.
LEMMA SameStream ==
    ASSUME ChildInv, ChildTypes', Child!Stream' = Child!Stream, sent' = sent,
           droppedNow' = droppedNow,
           inTurn => inTurn',
           "shell" \in running' => "shell" \in running,
           "shell" \notin running => UNCHANGED <<running, foreground>>,
           "shell" \in running => "shell" \in running'
    PROVE  ChildInv'
BY DEF ChildInv, Whole, Child!Killed

\* Nothing is written at the start.
LEMMA ChildStarts ==
    ASSUME Capacity \in Nat, Limit \in Nat, Child!Init
    PROVE  ChildInv
<1>1. ChildTypes /\ sent = 0
  <2>1. <<>> \in Stream /\ Len(<<>>) = 0
    BY EmptySeq DEF Stream
  <2>2. inTurn \in BOOLEAN
    BY DEF Child!Init
  <2>3. QED
    BY <2>1, <2>2 DEF Child!Init, ChildTypes
<1>2. Child!Stream = <<>>
  BY ConcatEmptySeq, <1>1 DEF Child!Init, Child!Stream, ChildTypes, Stream
<1>3. QED
  BY <1>1, <1>2 DEF Child!Init, ChildInv, Whole, Rising, Child!Gapless

\* Every step of the application, the loop and the child keeps the invariant.
LEMMA ChildHolds ==
    ASSUME Capacity \in Nat, Limit \in Nat, MaxWrite \in Nat,
           ChildInv, [Child!Next]_(Child!ptyVars)
    PROVE  ChildInv'
<1> USE DEF ChildInv
<1>1. CASE UNCHANGED Child!ptyVars
  BY <1>1 DEF Child!ptyVars, ChildTypes, Whole, Child!Stream, Child!Killed
<1>2. ASSUME NEW n \in 1 .. MaxWrite, Child!AppWrites(n)
      PROVE  ChildInv'
  <2> DEFINE bytes == [i \in 1 .. n |-> sent + i]
  <2>1. n \in Nat /\ bytes \in Stream /\ Len(bytes) = n /\ sent \in Nat
    BY IsASeq DEF Stream, ChildTypes
  <2>2. Child!Write(bytes) /\ sent' = sent + n /\ inTurn
        /\ UNCHANGED <<got, wants, inTurn, foreground, running>>
    BY <1>2 DEF Child!AppWrites
  <2> HIDE DEF bytes
  <2>3. /\ queue' \in Stream /\ Len(queue') <= Limit
        /\ pipe' \in Stream /\ Len(pipe') <= Capacity
    BY <2>1, <2>2, WriteProperties
  <2>4. PICK m \in 0 .. n :
            /\ pipe' \o queue' = (pipe \o queue) \o Child!Take(bytes, m)
            /\ droppedNow' = droppedNow + (n - m)
    BY <2>1, <2>2, WriteProperties
  <2>5. ChildTypes'
    BY <2>1, <2>2, <2>3, <2>4 DEF ChildTypes
  <2>6. Child!Stream' = Child!Stream \o Child!Take(bytes, m)
    <3>1. Child!Stream' = got \o ((pipe \o queue) \o Child!Take(bytes, m))
      <4>1. Child!Stream' = got' \o (pipe' \o queue')
        <5>1. got' \in Stream /\ pipe' \in Stream /\ queue' \in Stream
          BY <2>5 DEF ChildTypes
        <5>2. (got' \o pipe') \o queue' = got' \o (pipe' \o queue')
          BY <5>1, Associative
        <5>3. QED
          BY <5>2 DEF Child!Stream
      <4>2. QED
        BY <4>1, <2>2, <2>4
    <3>2. Child!Take(bytes, m) \in Stream /\ pipe \o queue \in Stream
      BY <2>1, TakeProperties DEF ChildTypes, Stream
    <3>3. QED
      <4>1. got \o ((pipe \o queue) \o Child!Take(bytes, m)) = (got \o (pipe \o queue)) \o Child!Take(bytes, m)
        BY <3>2, Associative DEF ChildTypes
      <4>2. QED
        BY <3>1, <4>1, StreamType
  <2>7. Child!Stream \in Stream
    BY StreamType
  <2>8. Rising(Child!Stream', sent')
    BY <2>1, <2>2, <2>6, <2>7, StreamGrows DEF bytes
  <2>9. Whole /\ m = n => Whole'
    <3>1. ASSUME Whole, m = n
          PROVE  Len(Child!Stream') = sent' /\ \A i \in 1 .. Len(Child!Stream') : Child!Stream'[i] = i
      <4>1. \A i \in 1 .. n : bytes[i] = sent + i
        BY DEF bytes
      <4>2. Len(Child!Stream) = sent /\ \A i \in 1 .. Len(Child!Stream) : Child!Stream[i] = i
        BY <3>1 DEF Whole
      <4>3. /\ Len(Child!Stream \o Child!Take(bytes, n)) = sent + n
            /\ \A i \in 1 .. Len(Child!Stream \o Child!Take(bytes, n)) :
                  (Child!Stream \o Child!Take(bytes, n))[i] = i
        BY <2>1, <2>7, <4>1, <4>2, StreamStaysWhole
      <4>4. QED
        BY <2>2, <2>6, <3>1, <4>3
    <3>2. QED
      BY <3>1 DEF Whole
  <2>10. m # n => droppedNow' # 0
    BY <2>1, <2>4 DEF ChildTypes
  <2>11. droppedNow # 0 => droppedNow' # 0
    BY <2>1, <2>4 DEF ChildTypes
  <2>12. QED
    BY <2>2, <2>5, <2>8, <2>9, <2>10, <2>11 DEF Child!Killed
<1>3. CASE Child!EndTurn
  <2>1. ChildTypes'
    BY <1>3 DEF Child!EndTurn, ChildTypes
  <2>2. Child!Stream' = Child!Stream /\ sent' = sent /\ foreground' = foreground /\ inTurn
    BY <1>3 DEF Child!EndTurn, Child!Stream
  <2>3. Rising(Child!Stream', sent') /\ (Whole' <=> Whole) /\ Child!Killed' = Child!Killed
    BY <2>2 DEF Rising, Whole, Child!Killed
  <2>4. CASE droppedNow # 0 /\ "shell" \in running
    BY <1>3, <2>1, <2>3, <2>4 DEF Child!EndTurn, Child!Killed
  <2>5. CASE ~(droppedNow # 0 /\ "shell" \in running)
    BY <1>3, <2>1, <2>3, <2>5 DEF Child!EndTurn
  <2>6. QED
    BY <2>4, <2>5
<1>4. CASE Child!WritableTurn
  <2>1. /\ queue' \in Stream /\ pipe' \in Stream /\ Len(queue') <= Len(queue) /\ Len(pipe') <= Capacity
        /\ pipe' \o queue' = pipe \o queue
    BY <1>4, DrainedProperties DEF Child!WritableTurn
  <2>2. ChildTypes'
    BY <1>4, <2>1 DEF Child!WritableTurn, ChildTypes, Stream
  <2>3. Child!Stream' = Child!Stream
    <3>1. Child!Stream' = got' \o (pipe' \o queue')
      BY SMTT(30), <2>2, Associative DEF ChildTypes, Child!Stream
    <3>2. QED
      BY <3>1, <2>1, <1>4, StreamType DEF Child!WritableTurn
  <2>4. QED
    BY <1>4, <2>2, <2>3, SameStream DEF Child!WritableTurn
<1>5. CASE Child!OtherTurn
  <2>1. ChildTypes' /\ Child!Stream' = Child!Stream
    BY <1>5 DEF Child!OtherTurn, ChildTypes, Child!Stream
  <2>2. QED
    BY <1>5, <2>1, SameStream DEF Child!OtherTurn
<1>6. CASE Child!ChildReads
  <2>1. PICK n \in 1 .. Len(pipe) : got' = got \o Child!Take(pipe, n) /\ pipe' = Child!Rest(pipe, n)
    BY <1>6 DEF Child!ChildReads
  <2>2. n \in Nat /\ n <= Len(pipe) /\ pipe \in Stream /\ got \in Stream
    BY DEF ChildTypes, Stream
  <2>3. Child!Take(pipe, n) \in Stream /\ Len(Child!Take(pipe, n)) = n
    BY <2>2, TakeProperties DEF Stream
  <2>4. pipe' \in Stream /\ Len(pipe') = Len(pipe) - n
    BY <2>1, <2>2, RestProperties
  <2>5. got' \in Stream
    BY <2>1, <2>2, <2>3 DEF Stream
  <2>6. ChildTypes'
    BY SMTT(30), <1>6, <2>2, <2>4, <2>5 DEF Child!ChildReads, ChildTypes, Stream
  <2>7. got' \o pipe' = got \o pipe
    <3>1. Child!Take(pipe, n) \o pipe' = pipe
      BY <2>1, <2>2, <2>3, TakeAndRest
    <3>2. QED
      <4>1. (got \o Child!Take(pipe, n)) \o pipe' = got \o (Child!Take(pipe, n) \o pipe')
        BY <2>2, <2>3, <2>4, Associative
      <4>2. QED
        BY <2>1, <3>1, <4>1
  <2>8. Child!Stream' = Child!Stream
    BY <2>7, <1>6 DEF Child!Stream, Child!ChildReads
  <2>9. QED
    BY <1>6, <2>6, <2>8, SameStream DEF Child!ChildReads
<1>7. ASSUME NEW group \in {"shell", "job"}, Child!Foreground(group) PROVE ChildInv'
  <2>1. ChildTypes' /\ Child!Stream' = Child!Stream
    BY <1>7 DEF Child!Foreground, ChildTypes, Child!Stream
  <2>2. QED
    BY <1>7, <2>1, SameStream DEF Child!Foreground
<1>8. CASE Child!Idle
  BY <1>8, <1>1 DEF Child!Idle
<1>9. QED
  BY <1>1, <1>2, <1>3, <1>4, <1>5, <1>6, <1>7, <1>8 DEF Child!Next

\* The invariant says what GapEndsChild says.
LEMMA ChildMeans ==
    ASSUME ChildInv
    PROVE  Child!GapEndsChild
<1>1. Child!Stream \in Stream
  BY StreamType DEF ChildInv
<1>2. Whole => ~(~Child!Gapless(Child!Stream) \/ Len(Child!Stream) < sent)
  BY DEF Whole, ChildInv, ChildTypes, Child!Gapless
<1>3. QED
  BY <1>2 DEF ChildInv, Rising, Child!GapEndsChild

\* For every size of the queue and of the kernel's buffer, what the child is
\* given keeps the order written, and outside a turn a gap in it means that the
\* child and its foreground were ended (accept_write, terminate_child).
THEOREM ChildEnded ==
    ASSUME Capacity \in Nat, Limit \in Nat, MaxWrite \in Nat
    PROVE  Child!Spec => []GapEndsChild
<1>1. Child!Init => ChildInv
  BY ChildStarts
<1>2. ChildInv /\ [Child!Next]_(Child!ptyVars) => ChildInv'
  BY ChildHolds
<1>3. ChildInv => GapEndsChild
  BY ChildMeans DEF GapEndsChild
<1>4. QED
  BY <1>1, <1>2, <1>3, PTL DEF Child!Spec

-----------------------------------------------------------------------------
(* A release follows its press. *)

\* While a key is down, a press Lector took is remembered, and one the
\* application got is remembered with the mode it was sent in.
KeyInv ==
    /\ overlay \in BOOLEAN
    /\ kittyMode \in Input!Modes
    /\ forwarded \in [BoundKeys -> Input!Modes \cup {"none"}]
    /\ DOMAIN taker = BoundKeys
    /\ \A k \in down :
        /\ taker[k] = "lector" => k \in consumed \cup transition
        /\ taker[k] \in Input!Modes => forwarded[k] = taker[k]
    /\ Input!ReleaseFollowsPress

\* No key is down.
LEMMA KeysStart == Input!KeysInit => KeyInv
<1> SUFFICES ASSUME Input!KeysInit PROVE KeyInv
  OBVIOUS
<1>1. overlay \in BOOLEAN /\ down = {} /\ kittyMode \in Input!Modes
  BY DEF Input!KeysInit, Input!Modes
<1>2. forwarded \in [BoundKeys -> Input!Modes \cup {"none"}] /\ DOMAIN taker = BoundKeys
  BY DEF Input!KeysInit, Input!None
<1>3. Input!ReleaseFollowsPress
  BY DEF Input!KeysInit, Input!Modes, Input!None, Input!NoRelease, Input!ReleaseFollowsPress
<1>4. QED
  BY <1>1, <1>2, <1>3 DEF KeyInv

\* A delivery is right when the press went to the one who reads.
LEMMA DeliverFits ==
    ASSUME KeyInv, NEW k, NEW press, Input!Deliver(k, press),
           press # "lector",
           press \in Input!Modes => press = Input!Target
    PROVE  Input!ReleaseFollowsPress'
BY DEF KeyInv, Input!Deliver, Input!Written, Input!ReleaseFollowsPress, Input!Target, Input!Modes,
       Input!None

\* Presses, releases, lost releases, modes and views keep the invariant.
LEMMA KeysHold ==
    ASSUME KeyInv, [Input!KeysNext]_(Input!keyVars)
    PROVE  KeyInv'
<1>1. CASE UNCHANGED Input!keyVars
  BY <1>1 DEF KeyInv, Input!keyVars, Input!ReleaseFollowsPress
<1>2. ASSUME NEW k \in BoundKeys, NEW kitty \in BOOLEAN, Input!Press(k, kitty)
      PROVE  KeyInv'
  <2>1. down' = down \cup {k} /\ UNCHANGED <<kittyMode, deferred, handoff, delivered>>
    BY <1>2 DEF Input!Press
  <2>2. CASE Input!Swallow(k) /\ taker' = [taker EXCEPT ![k] = "quarantined"] /\ UNCHANGED overlay
    BY <2>1, <2>2 DEF KeyInv, Input!Swallow, Input!Modes, Input!None, Input!ReleaseFollowsPress
  <2>3. CASE Input!TakenByCommand(k)
    BY <2>1, <2>3 DEF KeyInv, Input!TakenByCommand, Input!Modes, Input!ReleaseFollowsPress
  <2>4. CASE Input!TakenByOverlay(k)
    <3>1. overlay' \in BOOLEAN /\ UNCHANGED forwarded
      BY <2>4 DEF Input!TakenByOverlay
    <3>2. consumed' = consumed \ {k}
      BY <2>4 DEF Input!TakenByOverlay
    <3>3. \/ transition' = transition \cup {k} /\ taker' = [taker EXCEPT ![k] = "lector"]
          \/ transition' = transition \ {k} /\ taker' = [taker EXCEPT ![k] = "overlay"]
      BY <2>4 DEF Input!TakenByOverlay
    <3>4. \A j \in down' :
            /\ taker'[j] = "lector" => j \in consumed' \cup transition'
            /\ taker'[j] \in Input!Modes => forwarded'[j] = taker'[j]
      <4>1. CASE transition' = transition \cup {k} /\ taker' = [taker EXCEPT ![k] = "lector"]
        BY <2>1, <3>1, <3>2, <4>1 DEF KeyInv, Input!Modes
      <4>2. CASE transition' = transition \ {k} /\ taker' = [taker EXCEPT ![k] = "overlay"]
        BY <2>1, <3>1, <3>2, <4>2 DEF KeyInv, Input!Modes
      <4>3. QED
        BY <3>3, <4>1, <4>2
    <3>5. QED
      BY <2>1, <3>1, <3>3, <3>4 DEF KeyInv, Input!ReleaseFollowsPress
  <2>5. CASE Input!Forwarded(k, kitty)
    BY <2>1, <2>5 DEF KeyInv, Input!Forwarded, Input!Modes, Input!ReleaseFollowsPress
  <2>6. QED
    BY <1>2, <2>2, <2>3, <2>4, <2>5 DEF Input!Press
<1>3. ASSUME NEW k \in BoundKeys, Input!Release(k)
      PROVE  KeyInv'
  <2>1. /\ k \in down /\ down' = down \ {k}
        /\ forwarded' = [forwarded EXCEPT ![k] = "none"]
        /\ consumed' = consumed \ {k} /\ transition' = transition \ {k}
        /\ UNCHANGED <<overlay, kittyMode, handoff, taker, events>>
    BY <1>3 DEF Input!Release, Input!Swallow, Input!None
  <2>2. Input!ReleaseFollowsPress'
    <3>1. CASE UNCHANGED delivered
      BY <3>1 DEF KeyInv, Input!ReleaseFollowsPress
    <3>2. CASE ~(UNCHANGED delivered)
      <4>1. /\ k \notin consumed \cup transition
            /\ forwarded[k] # Input!None => Input!SameOwner(forwarded[k])
            /\ Input!Deliver(k, taker[k])
        BY <1>3, <3>2 DEF Input!Release, Input!ReleaseTo
      <4>2. taker[k] # "lector" /\ (taker[k] \in Input!Modes => taker[k] = Input!Target)
        BY <2>1, <4>1 DEF KeyInv, Input!SameOwner, Input!Modes, Input!None
      <4>3. QED
        BY <4>1, <4>2, DeliverFits
    <3>3. QED
      BY <3>1, <3>2
  <2>3. QED
    BY <2>1, <2>2 DEF KeyInv
<1>4. ASSUME NEW k \in BoundKeys, Input!ReleaseLost(k)
      PROVE  KeyInv'
  BY <1>4 DEF KeyInv, Input!ReleaseLost, Input!ReleaseFollowsPress
<1>5. CASE Input!FlushDeferred
  <2>1. UNCHANGED <<overlay, kittyMode, forwarded, consumed, transition, handoff, down, taker, events>>
    BY <1>5 DEF Input!FlushDeferred
  <2>2. Input!ReleaseFollowsPress'
    <3>1. CASE UNCHANGED delivered
      BY <3>1 DEF KeyInv, Input!ReleaseFollowsPress
    <3>2. CASE ~(UNCHANGED delivered)
      <4> DEFINE r == Head(deferred)
      <4>1. r.mode = Input!Target /\ delivered' = [key |-> r.key, mode |-> kittyMode, press |-> r.mode]
        BY <1>5, <3>2 DEF Input!FlushDeferred, Input!SameOwner, Input!Written
      <4>2. r.mode # "lector" /\ (r.mode \in Input!Modes => r.mode = kittyMode)
        BY <4>1 DEF Input!Target, KeyInv, Input!Modes, Input!None
      <4>3. QED
        BY <4>1, <4>2 DEF Input!ReleaseFollowsPress
    <3>3. QED
      BY <3>1, <3>2
  <2>3. QED
    BY <2>1, <2>2 DEF KeyInv
<1>6. CASE Input!ModeChanges
  BY <1>6 DEF KeyInv, Input!ModeChanges, Input!ReleaseFollowsPress
<1>7. CASE Input!HandoffExpires
  BY <1>7 DEF KeyInv, Input!HandoffExpires, Input!ReleaseFollowsPress
<1>8. CASE Input!OverlayChanges
  BY <1>8 DEF KeyInv, Input!OverlayChanges, Input!ReleaseFollowsPress
<1>9. QED
  BY <1>1, <1>2, <1>3, <1>4, <1>5, <1>6, <1>7, <1>8 DEF Input!KeysNext

\* A release never reaches the application for a press Lector took, nor in
\* another mode than the press, for any keys and any number of held releases,
\* also one that is written as it was read to a legacy application
\* (handle_key_event, dispatch_key_to_view, flush_deferred_kitty_releases).
THEOREM ReleasesFollow == Input!KeysSpec => []Input!ReleaseFollowsPress
<1>1. KeyInv => Input!ReleaseFollowsPress
  BY DEF KeyInv
<1>2. QED
  BY KeysStart, KeysHold, <1>1, PTL DEF Input!KeysSpec
=============================================================================
