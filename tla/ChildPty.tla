------------------------------ MODULE ChildPty ------------------------------
(***************************************************************************)
(* PtyStream and Process: what the application writes to the child.  The   *)
(* event loop never blocks on a child that does not read: bytes the kernel *)
(* does not take wait in a bounded queue, the tail beyond the limit is     *)
(* dropped and counted, and at the end of the turn a loss terminates the   *)
(* child.  A byte is its position in what the application wrote.           *)
(***************************************************************************)
EXTENDS Naturals, Sequences, SequencesExt, FiniteSets

CONSTANTS Limit,      \* PTY_WRITE_BUFFER_LIMIT
          Capacity,   \* what the kernel holds for the child
          MaxWrite,   \* bytes of one write
          MaxBytes    \* bytes written altogether

VARIABLES
  queue,        \* PtyStream.pending_write
  droppedNow,   \* PtyStream.dropped_write_bytes
  pipe,         \* written and not yet read
  got,          \* what the child read
  sent,         \* bytes the application has written so far
  wants,        \* writable interest is registered
  inTurn,       \* the loop is inside a turn, else in poll
  foreground,   \* group that has the terminal: "shell", "job" or "lector"
  running       \* live processes of the child's session

ptyVars == <<queue, droppedNow, pipe, got, sent, wants, inTurn, foreground, running>>

Init ==
  /\ queue = <<>> /\ droppedNow = 0 /\ pipe = <<>> /\ got = <<>> /\ sent = 0
  /\ wants = FALSE /\ inTurn = FALSE
  /\ foreground = "shell" /\ running = {"shell"}

Take(s, n) == SubSeq(s, 1, IF n < Len(s) THEN n ELSE Len(s))
Rest(s, n) == SubSeq(s, n + 1, Len(s))
Space(held) == Capacity - Len(held)

\* drain_pending_writes: as much as the kernel takes.
Drained ==
  LET n == Len(Take(queue, Space(pipe)))
  IN  [queue |-> Rest(queue, n), pipe |-> pipe \o Take(queue, n)]

\* queue_remainder: what fits, from the front.
Retained(held, remainder) == Take(remainder, Limit - Len(held))

WriteForgetting(bytes) ==                                                     \* mutant
  LET d == Drained
      direct == IF d.queue = <<>> THEN Len(Take(bytes, Space(d.pipe))) ELSE 0
      remainder == Rest(bytes, direct)
      kept == Retained(d.queue, remainder)
  IN  /\ pipe' = d.pipe \o Take(bytes, direct)
      /\ queue' = d.queue \o kept
      /\ droppedNow' = Len(remainder) - Len(kept)
\* accept_write: the queue first, then directly, then the queue again.
Write(bytes) ==
  LET d == Drained
      direct == IF d.queue = <<>> THEN Len(Take(bytes, Space(d.pipe))) ELSE 0
      remainder == Rest(bytes, direct)
      kept == Retained(d.queue, remainder)
  IN  /\ pipe' = d.pipe \o Take(bytes, direct)
      /\ queue' = d.queue \o kept
      /\ droppedNow' = droppedNow + Len(remainder) - Len(kept)

AppWrites(n) ==
  /\ inTurn /\ sent + n <= MaxBytes
  /\ Write([i \in 1..n |-> sent + i])
  /\ sent' = sent + n
  /\ UNCHANGED <<got, wants, inTurn, foreground, running>>

\* terminate_child: the foreground group, unless it is Lector's own, and the
\* child's; portable-pty made the child a session and group leader.
Killed == {"shell"} \cup (IF foreground = "lector" THEN {} ELSE {foreground})

\* The end of a turn: a loss ends the child, and the poller learns whether
\* anything waits for the child to read.
EndTurn ==
  /\ inTurn /\ inTurn' = FALSE
  /\ running' = IF droppedNow # 0 /\ "shell" \in running THEN running \ Killed ELSE running
  /\ droppedNow' = 0
  /\ wants' = (queue # <<>>)
  /\ UNCHANGED <<queue, pipe, got, sent, foreground>>

\* poll returns with room for the child's input.
WritableTurn ==
  /\ ~inTurn /\ inTurn' = TRUE /\ wants /\ Space(pipe) > 0
  /\ queue' = Drained.queue /\ pipe' = Drained.pipe
  /\ UNCHANGED <<droppedNow, got, sent, wants, foreground, running>>

\* poll returns for another reason.
OtherTurn ==
  /\ ~inTurn /\ inTurn' = TRUE /\ sent < MaxBytes
  /\ ~(wants /\ Space(pipe) > 0)
  /\ UNCHANGED <<queue, droppedNow, pipe, got, sent, wants, foreground, running>>

ChildReads ==
  /\ foreground \in running /\ pipe # <<>>
  /\ \E n \in 1..Len(pipe) : got' = got \o Take(pipe, n) /\ pipe' = Rest(pipe, n)
  /\ UNCHANGED <<queue, droppedNow, sent, wants, inTurn, foreground, running>>

\* The shell gives the terminal to a job, or takes it back.
Foreground(group) ==
  /\ "shell" \in running /\ foreground' = group
  /\ running' = IF group = "job" THEN running \cup {"job"} ELSE running
  /\ UNCHANGED <<queue, droppedNow, pipe, got, sent, wants, inTurn>>

Idle == ~inTurn /\ sent = MaxBytes /\ (queue = <<>> \/ foreground \notin running) /\ UNCHANGED ptyVars

Next ==
  \/ \E n \in 1..MaxWrite : AppWrites(n)
  \/ EndTurn \/ WritableTurn \/ OtherTurn \/ ChildReads
  \/ \E group \in {"shell", "job"} : Foreground(group)
  \/ Idle

Fairness == WF_ptyVars(EndTurn) /\ WF_ptyVars(WritableTurn) /\ WF_ptyVars(ChildReads)

Spec == Init /\ [][Next]_ptyVars /\ Fairness

-----------------------------------------------------------------------------
Stream == got \o pipe \o queue
Gapless(s) == \A i \in 1..Len(s) : s[i] = i

(* However slowly the child reads and whatever is dropped, what it is given *)
(* keeps the order written; a gap appears only in the turn that terminates  *)
(* the whole foreground of the child (pty.rs, accept_write).                *)
GapEndsChild ==
  /\ \A i, j \in 1..Len(Stream) : i < j => Stream[i] < Stream[j]
  /\ (~Gapless(Stream) \/ Len(Stream) < sent) /\ ~inTurn
       => running \cap Killed = {}

(* "terminates only the failed child transport before later protocol        *)
(* commands can overtake it": the child never reads past a dropped tail.    *)
NothingOvertakes == Gapless(got)

Written == queue = <<>> \/ foreground \notin running

(* Bytes the kernel did not take are written when it does: the writable     *)
(* interest is never missing while something waits.                         *)
QueuedIsWritten == []<>Written

=============================================================================
