------------------------------ MODULE LogQueue ------------------------------
(***************************************************************************)
(* The process-wide diagnostic log (src/diagnostics.rs): producers on any  *)
(* thread format a record, append it to a queue bounded in bytes that      *)
(* drops its oldest records, and then add what was dropped to two counters *)
(* outside the lock; a writer thread drains the queue into a file that     *)
(* starts over at a size limit.  The mutex makes each queue operation one  *)
(* step; the condition variable is explicit (asleep).                      *)
(***************************************************************************)
EXTENDS Naturals, Sequences, FiniteSets, SequencesExt

CONSTANTS
    Producers,    \* threads that log
    Sizes,        \* lengths of formatted records
    QueueLimit,   \* LOG_QUEUE_LIMIT_BYTES
    RecordLimit,  \* LOG_RECORD_LIMIT_BYTES, at most QueueLimit
    FileLimit,    \* LOG_FILE_LIMIT_BYTES
    ThrottleKeys, \* scopes whose byte records are throttled
    KeyLimit,     \* BYTE_THROTTLE_KEY_LIMIT
    MaxSeq,       \* bound on the records formatted
    MaxCalls      \* bound on the throttled calls

VARIABLES
    records,      \* LogQueueState.records, oldest first
    pendingBytes,
    shutdown,
    asleep,       \* the writer waits on the condition variable
    writer,       \* "held" until released, "ready", "writing", "done"
    current,      \* the record the writer works on
    failed,       \* the log device failed once
    file,         \* sequence numbers in the file since it was created
    fileBytes,    \* RotatingFile.written
    sequence,     \* the next sequence number
    formatted,    \* per producer: the record it is about to enqueue
    owed,         \* per producer: drops it has not counted yet
    dropped,      \* dropped_records
    throttle,     \* per key: whether it has a ByteThrottle, its suppressed calls, and whether one was emitted in this interval
    past          \* history: per key the calls made, reported and given up; records written, lost or discarded

queue == <<records, pendingBytes, shutdown>>
thread == <<asleep, writer, current, failed, file, fileBytes>>
counts == <<sequence, formatted, owed, dropped, throttle>>
vars == <<queue, thread, counts, past>>

NoRecord == [seq |-> 0, size |-> 0, from |-> 0]
BytesOf(q) == SumFunction([i \in DOMAIN q |-> q[i].size])
Total(f) == SumFunction(f)
NoCalls == [k \in ThrottleKeys |-> 0]

Init ==
    /\ records = <<[seq |-> 1, size |-> 1, from |-> 0]>>     \* log-start is queued before the writer is released
    /\ pendingBytes = 1
    /\ shutdown = FALSE
    /\ asleep = FALSE
    /\ writer = "held"
    /\ current = NoRecord
    /\ failed = FALSE
    /\ file = <<>>
    /\ fileBytes = 0
    /\ sequence = 2
    /\ formatted = [p \in Producers |-> NoRecord]
    /\ owed = [p \in Producers |-> 0]
    /\ dropped = 0
    /\ throttle = [k \in ThrottleKeys |-> [kept |-> FALSE, calls |-> 0, recent |-> FALSE]]
    /\ past = [calls |-> NoCalls, reported |-> NoCalls, missed |-> NoCalls,
               written |-> {}, discarded |-> {}, lost |-> {}]

Idle(p) == formatted[p] = NoRecord /\ owed[p] = 0

(* event_impl: the sequence number is taken before the lock; a record over *)
(* the limit is replaced by a small one.                                   *)
Bounded(size) == IF size <= RecordLimit THEN size ELSE 2
Format(p, size) ==
    /\ Idle(p)
    /\ sequence <= MaxSeq
    /\ sequence' = sequence + 1
    /\ formatted' = [formatted EXCEPT ![p] = [seq |-> sequence, size |-> Bounded(size), from |-> p]]

Event(p, size) ==
    /\ Format(p, size)
    /\ UNCHANGED <<queue, thread, owed, dropped, throttle, past>>

(* bytes: the throttle's table is only tried to be locked, and holds so    *)
(* many keys; a call that another producer's call keeps out, or that finds *)
(* the table full, leaves no trace.                                        *)
KeptKeys == {k \in ThrottleKeys : throttle[k].kept}
TableFull(k) == ~throttle[k].kept /\ Cardinality(KeptKeys) = KeyLimit
Contended(p) == \E q \in Producers \ {p} : Idle(q)
CallsLeft == Total(past.calls) < MaxCalls
BytesMissed(p, k) ==
    /\ Idle(p)
    /\ CallsLeft
    /\ Contended(p) \/ TableFull(k)
    /\ past' = [past EXCEPT !.calls[k] = @ + 1, !.missed[k] = @ + 1]
    /\ UNCHANGED <<queue, thread, counts>>

(* Within the interval of the key's last record a call is only counted.    *)
BytesSuppressed(p, k) ==
    /\ Idle(p)
    /\ CallsLeft
    /\ throttle[k].recent
    /\ throttle' = [throttle EXCEPT ![k].calls = @ + 1]
    /\ past' = [past EXCEPT !.calls[k] = @ + 1]
    /\ UNCHANGED <<queue, thread, sequence, formatted, owed, dropped>>
BytesEmitted(p, k, size) ==
    /\ CallsLeft
    /\ ~TableFull(k)
    /\ ~throttle[k].recent
    /\ Format(p, size)
    /\ throttle' = [throttle EXCEPT ![k] = [kept |-> TRUE, calls |-> 0, recent |-> TRUE]]
    /\ past' = [past EXCEPT !.calls[k] = @ + 1, !.reported[k] = @ + 1 + throttle[k].calls]
    /\ UNCHANGED <<queue, thread, owed, dropped>>
IntervalPasses(k) ==
    /\ throttle[k].recent
    /\ throttle' = [throttle EXCEPT ![k].recent = FALSE]
    /\ UNCHANGED <<queue, thread, sequence, formatted, owed, dropped, past>>

(* How many of the oldest records make room for size more bytes.           *)
StaleFor(size) ==
    CHOOSE n \in 0 .. Len(records) :
        /\ BytesOf(SubSeq(records, n + 1, Len(records))) + size <= QueueLimit \/ n = Len(records)
        /\ \A m \in 0 .. n - 1 : BytesOf(SubSeq(records, m + 1, Len(records))) + size > QueueLimit

Reject(p) ==
    /\ owed' = [owed EXCEPT ![p] = 1]
    /\ past' = [past EXCEPT !.discarded = @ \cup {formatted[p].seq}]
    /\ UNCHANGED <<queue, asleep>>

(* enqueue_locked.                                                         *)
AcceptForgettingStale(p) ==                                                    \* mutant
    LET record == formatted[p]
        stale == StaleFor(record.size)
        kept == SubSeq(records, stale + 1, Len(records))
    IN  /\ records' = Append(kept, record)
        /\ pendingBytes' = BytesOf(kept) + record.size
        /\ owed' = [owed EXCEPT ![p] = IF stale > 0 THEN 1 ELSE 0]
        /\ past' = [past EXCEPT !.discarded = @ \cup {records[i].seq : i \in 1 .. stale}]
        /\ asleep' = FALSE
        /\ UNCHANGED shutdown
Accept(p) ==
    LET record == formatted[p]
        stale == StaleFor(record.size)
        kept == SubSeq(records, stale + 1, Len(records))
    IN  /\ records' = Append(kept, record)
        /\ pendingBytes' = BytesOf(kept) + record.size
        /\ owed' = [owed EXCEPT ![p] = stale]
        /\ past' = [past EXCEPT !.discarded = @ \cup {records[i].seq : i \in 1 .. stale}]
        /\ asleep' = FALSE
        /\ UNCHANGED shutdown

Enqueue(p) ==
    /\ formatted[p] # NoRecord
    /\ formatted' = [formatted EXCEPT ![p] = NoRecord]
    /\ \/ shutdown /\ Reject(p)
       \/ ~shutdown /\ Accept(p)
    /\ UNCHANGED <<writer, current, failed, file, fileBytes, sequence, dropped, throttle>>

(* event_nonblocking, the panic hook's: the lock is held, so the record is *)
(* given up at once.                                                       *)
TryEnqueueContended(p) ==
    /\ formatted[p] # NoRecord
    /\ formatted' = [formatted EXCEPT ![p] = NoRecord]
    /\ Reject(p)
    /\ UNCHANGED <<writer, current, failed, file, fileBytes, sequence, dropped, throttle>>

(* enqueue_line: the counters are updated after the lock is released.      *)
CountDrops(p) ==
    /\ owed[p] > 0
    /\ dropped' = dropped + owed[p]
    /\ owed' = [owed EXCEPT ![p] = 0]
    /\ UNCHANGED <<queue, thread, sequence, formatted, throttle, past>>

ReleaseWriter ==
    /\ writer = "held"
    /\ writer' = "ready"
    /\ UNCHANGED <<queue, asleep, current, failed, file, fileBytes, counts, past>>

(* next_record, and run_writer around it.                                  *)
NextRecord ==
    /\ writer = "ready"
    /\ ~asleep
    /\ \/ /\ records # <<>>
          /\ records' = Tail(records)
          /\ pendingBytes' = pendingBytes - Head(records).size
          /\ current' = Head(records)
          /\ writer' = "writing"
          /\ UNCHANGED asleep
       \/ /\ records = <<>> /\ shutdown
          /\ writer' = "done"
          /\ UNCHANGED <<records, pendingBytes, current, asleep>>
       \/ /\ records = <<>> /\ ~shutdown
          /\ asleep' = TRUE
          /\ UNCHANGED <<records, pendingBytes, current, writer>>
    /\ UNCHANGED <<shutdown, failed, file, fileBytes, counts, past>>

Rotates == fileBytes # 0 /\ fileBytes + current.size > FileLimit
Written ==
    /\ file' = IF Rotates THEN <<current.seq>> ELSE Append(file, current.seq)
    /\ fileBytes' = IF Rotates THEN current.size ELSE fileBytes + current.size
    /\ past' = [past EXCEPT !.written = @ \cup {current.seq}]
    /\ UNCHANGED failed
(* After a failed write the writer keeps draining.                         *)
NotWritten ==
    /\ failed' = TRUE
    /\ past' = [past EXCEPT !.lost = @ \cup {current.seq}]
    /\ UNCHANGED <<file, fileBytes>>
Write ==
    /\ writer = "writing"
    /\ \/ ~failed /\ Written
       \/ NotWritten
    /\ writer' = "ready"
    /\ current' = NoRecord
    /\ UNCHANGED <<queue, asleep, counts>>

ShutDown ==
    /\ ~shutdown
    /\ shutdown' = TRUE
    /\ asleep' = FALSE
    /\ UNCHANGED <<records, pendingBytes, writer, current, failed, file, fileBytes, counts, past>>
ShutDownUnnoticed ==
    /\ ~shutdown
    /\ shutdown' = TRUE
    /\ UNCHANGED <<records, pendingBytes, thread, counts, past>>

Next ==
    \/ \E p \in Producers, size \in Sizes :
          Event(p, size) \/ \E k \in ThrottleKeys : BytesEmitted(p, k, size)
    \/ \E p \in Producers, k \in ThrottleKeys : BytesMissed(p, k) \/ BytesSuppressed(p, k)
    \/ \E p \in Producers : Enqueue(p) \/ TryEnqueueContended(p) \/ CountDrops(p)
    \/ \E k \in ThrottleKeys : IntervalPasses(k)
    \/ ReleaseWriter
    \/ NextRecord
    \/ Write
    \/ ShutDown

(* The writer thread is scheduled, its writes return, and the producer     *)
(* that released it did so without waiting for anybody.                    *)
WriterRuns == WF_vars(ReleaseWriter) /\ WF_vars(NextRecord) /\ WF_vars(Write)
Spec == Init /\ [][Next]_vars /\ WriterRuns

-----------------------------------------------------------------------------
Queued == {records[i].seq : i \in DOMAIN records}
InFlight == {formatted[p].seq : p \in {q \in Producers : formatted[q] # NoRecord}} \cup ({current.seq} \ {0})

(* Every record formatted is in exactly one place: on its way, queued,     *)
(* written, lost to a failed device, or discarded; the discarded ones are  *)
(* the dropped_records counter and what producers still owe it.  A         *)
(* throttled call that got the table's lock, for a key the table has or    *)
(* has room for, is told of by exactly one record formatted or is still in *)
(* the suppression count of its key; the other throttled calls, and only   *)
(* they, are in no count (enqueue_locked, enqueue_line, next_record,       *)
(* bytes).                                                                 *)
LossIsCounted ==
    /\ 1 .. sequence - 1 = InFlight \cup Queued \cup past.written \cup past.lost \cup past.discarded
    /\ Cardinality(InFlight) + Len(records) + Cardinality(past.written) + Cardinality(past.lost)
         + dropped + Total(owed) = sequence - 1
    /\ \A k \in ThrottleKeys : past.calls[k] = past.reported[k] + throttle[k].calls + past.missed[k]
    /\ Cardinality(KeptKeys) <= KeyLimit
    /\ pendingBytes = BytesOf(records)
    /\ pendingBytes <= QueueLimit
    /\ fileBytes <= FileLimit \/ Len(file) = 1

Drained == shutdown => writer = "done" /\ records = <<>>

(* Once the queue is shut down the writer ends, having taken everything    *)
(* that was queued: shutdown(timeout) loses records only to a device that  *)
(* fails or outlasts the timeout (shut_down, run_writer).                  *)
WriterDrains == []<>Drained
=============================================================================
