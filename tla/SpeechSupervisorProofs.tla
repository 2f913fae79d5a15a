---------------------- MODULE SpeechSupervisorProofs ----------------------
(***************************************************************************)
(* The servers of SpeechSupervisor are accounted for, whatever the number  *)
(* of processes, the length of the crash window and the size of the event  *)
(* queue.                                                                  *)
(*                                                                         *)
(* None of the properties is inductive.  A server that is not owned must   *)
(* be the candidate between its start and its registration; a candidate    *)
(* must differ from the active server for its failure to spare that one;   *)
(* and the fatal failure must end the worker's calls, or a later event     *)
(* could push it out of the queue.  SupervisorInv collects those facts.    *)
(***************************************************************************)
EXTENDS SpeechSupervisor, TLAPS

\* The worker is in spawn_ready; its candidate exists from Fork on.
Candidates == {"forked", "registered", "initialized", "rate"}
Spawning == Candidates \cup {"spawn"}

\* The job fits the place the worker is at.
JobFits ==
    /\ pc \in {"idle", "done", "flush"} => job = NoJob
    /\ pc \in Spawning <=> job.purpose # "none"
    /\ pc \in {"call", "flush"} => started
    /\ pc = "call" => active # NoGen
    /\ job.purpose \in {"recover", "replace"} => started
    /\ job.purpose \in {"first", "second", "recover"} => active = NoGen /\ job.spec = spec
    /\ job.purpose = "replace" => active # NoGen

\* Generations are handed out once, and the candidate is not the active server.
GenerationsFresh ==
    /\ active < nextGen
    /\ pc \in Candidates =>
          /\ job.gen \in Gens
          /\ job.gen < nextGen
          /\ job.gen # active
          /\ child[job.gen].spec = job.spec

\* The active server is the configured one; its rate may be behind only while
\* the worker is telling it.
ActiveFits ==
    active # NoGen =>
        /\ active \in Gens
        /\ child[active].spec = spec
        /\ child[active].rate = desiredRate \/ refused \/ (pc = "call" /\ job.op = "rate")

\* A fatal failure ends the calls, and no server runs before the start.
FatalEnds ==
    /\ fatal => pc \in {"idle", "done"} /\ started /\ active = NoGen
    /\ ~started => active = NoGen

\* A running server is owned, about to be killed, or not registered yet.
Accounted ==
    \A g \in Running :
        \/ pc = "forked" /\ g = job.gen
        \/ g \in IF shuttingDown THEN toKill ELSE owned

SupervisorInv ==
    /\ TypeOK
    /\ JobFits
    /\ GenerationsFresh
    /\ ActiveFits
    /\ FatalEnds
    /\ Accounted
    /\ FatalIsReported
    /\ crashAge = restartAge

-----------------------------------------------------------------------------
(* The parts of a step *)

ChildType == [state : {"none", "running", "dead"}, spec : Specs, rate : Rates]
JobType ==
    [op : {"none", "speak", "stop", "rate"},
     purpose : {"none", "first", "second", "recover", "replace"},
     spec : Specs, gen : 0 .. MaxGen, flush : BOOLEAN]

\* The event queue stays within its limit and holds what was pushed last.
LEMMA Pushed ==
    ASSUME NEW e \in {"fatal", "reconfigured", "failed"}, TypeOK, Push(e)
    PROVE  /\ events' \in Seq({"fatal", "reconfigured", "failed"})
           /\ Len(events') <= MaxEvents
           /\ e \in Range(events')
  <1> DEFINE base == IF Len(events) = MaxEvents THEN Tail(events) ELSE events
             E == {"fatal", "reconfigured", "failed"}
  <1>1. events \in Seq(E) /\ Len(events) <= MaxEvents /\ MaxEvents \in Nat \ {0}
    BY SupervisorAssumption DEF TypeOK
  <1>2. base \in Seq(E) /\ Len(base) < MaxEvents
    BY <1>1
  <1>3. events' = Append(base, e)
    BY DEF Push
  <1> HIDE DEF base
  <1>4. events' \in Seq(E) /\ Len(events') = Len(base) + 1 /\ events'[Len(base) + 1] = e
    BY <1>2, <1>3
  <1>5. e \in Range(events')
    BY <1>2, <1>4 DEF Range
  <1> QED
    BY <1>1, <1>2, <1>4, <1>5

\* Killing a child changes its state and nothing else.
LEMMA Killed ==
    ASSUME TypeOK, NEW g \in Gens
    PROVE  /\ Kill(g) \in [Gens -> ChildType]
           /\ Kill(g)[g].state # "running"
           /\ \A h \in Gens : Kill(g)[h].spec = child[h].spec /\ Kill(g)[h].rate = child[h].rate
           /\ \A h \in Gens \ {g} : Kill(g)[h] = child[h]
  BY DEF TypeOK, Kill, ChildType

\* The jobs of the worker's simple calls.
LEMMA JobTyped ==
    /\ NoJob \in JobType
    /\ \A op \in {"speak", "stop", "rate"} :
          /\ [NoJob EXCEPT !.op = op] \in JobType
          /\ [NoJob EXCEPT !.op = op, !.flush = TRUE] \in JobType
          /\ [NoJob EXCEPT !.op = op, !.flush = TRUE].purpose = "none"
          /\ [NoJob EXCEPT !.op = op].purpose = "none"
          /\ [NoJob EXCEPT !.op = op, !.flush = TRUE].op = op
          /\ [NoJob EXCEPT !.op = op].op = op
  <1>1. NoJob \in JobType /\ NoJob.purpose = "none"
    BY SupervisorAssumption DEF NoJob, JobType, NoGen
  <1> QED
    BY <1>1 DEF JobType

\* The calls of the worker, up to the point where they need a server.
LEMMA CallsKeep ==
    ASSUME SupervisorInv,
           \/ \E interrupt \in BOOLEAN : Buffer(interrupt)
           \/ DiscardBuffer
           \/ \E op \in {"speak", "stop"} : Call(op)
           \/ \E rate \in Rates : SetRate(rate)
           \/ Start
           \/ \E s \in Specs : ConfigureServer(s)
    PROVE  SupervisorInv'
  <1> USE SupervisorAssumption DEF policy, handle, worker, history, outside, NoGen, NoJob, Gens,
          NoCrash, SupervisorInv, Running
  <1>1. ASSUME NEW interrupt \in BOOLEAN, Buffer(interrupt) PROVE SupervisorInv'
    BY <1>1 DEF Buffer, NextRequest, Idle, TypeOK, JobFits, GenerationsFresh, ActiveFits, FatalEnds,
                Accounted, FatalIsReported, Spawning, Candidates
  <1>2. CASE DiscardBuffer
    BY <1>2 DEF DiscardBuffer, NextRequest, Idle, TypeOK, JobFits, GenerationsFresh, ActiveFits,
                FatalEnds, Accounted, FatalIsReported, Spawning, Candidates
  <1>3. ASSUME NEW op \in {"speak", "stop"}, Call(op) PROVE SupervisorInv'
    BY <1>3 DEF Call, Available, NextRequest, Idle, TypeOK, JobFits, GenerationsFresh, ActiveFits,
                FatalEnds, Accounted, FatalIsReported, Spawning, Candidates
  <1>4. ASSUME NEW rate \in Rates, SetRate(rate) PROVE SupervisorInv'
    <2>1. CASE started /\ Available
      <3>1. pc' = "call" /\ job' = [NoJob EXCEPT !.op = "rate"] /\ desiredRate' = rate
        BY <1>4, <2>1 DEF SetRate
      <3>2. UNCHANGED <<spec, started, startupError, fatal, buffered, crashAge, active, nextGen,
                        handle, outside, child, history>>
        BY <1>4 DEF SetRate
      <3>3. pc = "idle" /\ ~fatal /\ active # NoGen /\ started
        BY <1>4, <2>1 DEF SetRate, NextRequest, Idle, Available
      <3>4. TypeOK'
        <4>1. job' \in JobType
          BY <3>1, JobTyped
        <4> QED
          BY <3>1, <3>2, <4>1 DEF TypeOK, JobType
      <3>5. JobFits' /\ GenerationsFresh' /\ FatalEnds' /\ FatalIsReported'
        BY <3>1, <3>2, <3>3 DEF JobFits, GenerationsFresh, FatalEnds, Spawning, Candidates,
           FatalIsReported
      <3>6. ActiveFits'
        BY <3>1, <3>2, <3>3 DEF ActiveFits
      <3>7. Accounted'
        BY <3>1, <3>2, <3>3 DEF Accounted
      <3> QED
        BY <3>2, <3>4, <3>5, <3>6, <3>7
    <2>2. CASE ~(started /\ Available)
      <3>1. active = NoGen /\ UNCHANGED worker
        BY <1>4, <2>2 DEF SetRate, Available, FatalEnds
      <3> QED
        BY <1>4, <3>1 DEF SetRate, NextRequest, Idle, TypeOK, JobFits, GenerationsFresh,
           ActiveFits, FatalEnds,
           Accounted, FatalIsReported, Spawning, Candidates
    <2> QED
      BY <2>1, <2>2
  <1>5. CASE Start
    BY <1>5 DEF Start, Spawn, NextRequest, Idle, TypeOK, JobFits, GenerationsFresh, ActiveFits,
                FatalEnds, Accounted, FatalIsReported, Spawning, Candidates
  <1>6. ASSUME NEW s \in Specs, ConfigureServer(s) PROVE SupervisorInv'
    <2>1. CASE started
      <3>1. /\ pc' = "spawn"
            /\ job' = [op |-> "none", purpose |-> "replace", spec |-> s, gen |-> NoGen, flush |-> FALSE]
        BY <1>6, <2>1 DEF ConfigureServer, Spawn
      <3>2. UNCHANGED <<policy, active, nextGen, handle, outside, child, history>>
        BY <1>6, <2>1 DEF ConfigureServer
      <3>3. pc = "idle" /\ ~fatal /\ active # NoGen /\ started
        BY <1>6, <2>1 DEF ConfigureServer, NextRequest, Idle, Available
      <3>4. TypeOK'
        BY <3>1, <3>2 DEF TypeOK
      <3>5. JobFits' /\ GenerationsFresh' /\ FatalEnds' /\ FatalIsReported'
        BY <3>1, <3>2, <3>3 DEF JobFits, GenerationsFresh, FatalEnds, Spawning, Candidates,
           FatalIsReported
      <3>6. ActiveFits'
        BY <3>1, <3>2, <3>3 DEF ActiveFits
      <3>7. Accounted'
        BY <3>1, <3>2, <3>3 DEF Accounted
      <3> QED
        BY <3>2, <3>4, <3>5, <3>6, <3>7
    <2>2. CASE ~started
      <3>1. active = NoGen
        BY <2>2 DEF FatalEnds
      <3> QED
        BY <1>6, <2>2, <3>1 DEF ConfigureServer, NextRequest, Idle, TypeOK, JobFits,
           GenerationsFresh, ActiveFits, FatalEnds,
           Accounted, FatalIsReported, Spawning, Candidates
    <2> QED
      BY <2>1, <2>2
  <1> QED
    BY <1>1, <1>2, <1>3, <1>4, <1>5, <1>6

\* A failed spawn ends the call or tries once more, if the candidate is gone
\* and the active server was spared.
LEMMA FailureKeeps ==
    ASSUME SupervisorInv, pc \in Spawning, SpawnFailed,
           UNCHANGED <<spec, desiredRate, started, crashAge, active, nextGen, shuttingDown, outside,
                       history>>,
           owned' \subseteq Gens,
           child' \in [Gens -> ChildType],
           active # NoGen => child'[active] = child[active],
           \A g \in Running' : g \in IF shuttingDown THEN toKill ELSE owned'
    PROVE  SupervisorInv'
  <1> USE SupervisorAssumption DEF NoGen, NoCrash, Gens, history, outside
  <1>1. /\ TypeOK /\ JobFits /\ GenerationsFresh /\ ActiveFits /\ FatalEnds /\ FatalIsReported
        /\ crashAge = restartAge
    BY DEF SupervisorInv
  <1>2. /\ job.purpose \in {"first", "second", "recover", "replace"}
        /\ job \in JobType
        /\ ~fatal
    BY <1>1 DEF TypeOK, JobFits, JobType, FatalEnds, Spawning, Candidates
  <1>3. /\ events' \in Seq({"fatal", "reconfigured", "failed"})
        /\ Len(events') <= MaxEvents
        /\ fatal' => "fatal" \in Range(events')
        /\ {startupError', fatal'} \subseteq BOOLEAN
        /\ buffered' \in 0 .. MaxBuffered
    <2>1. CASE job.purpose = "first"
      BY <1>1, <1>2, <2>1 DEF SpawnFailed, TypeOK
    <2>2. CASE job.purpose = "second"
      BY <1>1, <1>2, <2>2 DEF SpawnFailed, TypeOK
    <2>3. CASE job.purpose = "recover"
      <3>1. Push("fatal") /\ fatal' = TRUE /\ startupError' = startupError
        BY <2>3 DEF SpawnFailed
      <3>2. buffered' \in {0, buffered}
        BY <2>3 DEF SpawnFailed
      <3> QED
        <4>1. startupError \in BOOLEAN /\ buffered \in 0 .. MaxBuffered
          BY <1>1 DEF TypeOK
        <4>2. buffered' \in 0 .. MaxBuffered
          BY <3>2, <4>1
        <4>3. {startupError', fatal'} \subseteq BOOLEAN
          BY <3>1, <4>1
        <4> QED
          BY <1>1, <3>1, <4>2, <4>3, Pushed
    <2>4. CASE job.purpose = "replace"
      <3>1. Push("failed") /\ UNCHANGED <<startupError, fatal, buffered>>
        BY <2>4 DEF SpawnFailed
      <3> QED
        BY <1>1, <1>2, <3>1, Pushed DEF TypeOK
    <2> QED
      BY <1>2, <2>1, <2>2, <2>3, <2>4
  <1>4. \/ pc' = "idle" /\ job' = NoJob /\ (fatal' => job.purpose = "recover")
        \/ /\ pc' = "spawn" /\ ~fatal'
           /\ job.purpose = "first"
           /\ job' = [op |-> "none", purpose |-> "second", spec |-> job.spec, gen |-> NoGen,
                      flush |-> TRUE]
    BY <1>2 DEF SpawnFailed, Return, Spawn
  <1>5. job' \in JobType /\ pc' \in {"idle", "spawn"}
    <2>1. NoJob \in JobType
      BY JobTyped
    <2>2. [op |-> "none", purpose |-> "second", spec |-> job.spec, gen |-> 0, flush |-> TRUE]
             \in JobType
      BY <1>2 DEF JobType
    <2> QED
      BY <1>4, <2>1, <2>2
  <1>6. TypeOK'
    BY <1>1, <1>3, <1>5 DEF TypeOK, JobType, ChildType
  <1>7. JobFits' /\ FatalEnds'
    BY <1>1, <1>4 DEF JobFits, FatalEnds, NoJob, Spawning, Candidates
  <1>8. GenerationsFresh' /\ ActiveFits'
    BY <1>1, <1>5, <1>2 DEF GenerationsFresh, ActiveFits, Candidates, Spawning, JobFits
  <1>9. Accounted' /\ FatalIsReported'
    BY <1>3 DEF Accounted, FatalIsReported
  <1> QED
    BY <1>1, <1>6, <1>7, <1>8, <1>9 DEF SupervisorInv

\* spawn_ready keeps the invariant: the candidate is owned from its
\* registration on, and the server it replaces is dropped with its ownership.
LEMMA SpawnKeeps ==
    ASSUME SupervisorInv,
           \/ SpawnRefused \/ Fork \/ ForkFailed \/ Register
           \/ Initialize \/ Recheck \/ CandidateFailed
    PROVE  SupervisorInv'
  <1> USE SupervisorAssumption DEF NoGen, NoCrash, Gens, history, outside, handle, policy
  <1>0. /\ TypeOK /\ JobFits /\ GenerationsFresh /\ ActiveFits /\ FatalEnds /\ FatalIsReported
        /\ Accounted /\ crashAge = restartAge
    BY DEF SupervisorInv
  <1>1. CASE SpawnRefused \/ ForkFailed
    <2>1. pc = "spawn" /\ SpawnFailed
      BY <1>1 DEF SpawnRefused, ForkFailed
    <2>2. UNCHANGED <<spec, desiredRate, started, crashAge, active, nextGen, shuttingDown, owned,
                   outside, child, history>>
      BY <1>1 DEF SpawnRefused, ForkFailed
    <2>3. \A g \in Running' : g \in IF shuttingDown THEN toKill ELSE owned'
      BY <1>0, <2>1, <2>2 DEF Accounted, Running
    <2>4. owned' \subseteq Gens /\ child' \in [Gens -> ChildType]
      BY <1>0, <2>2 DEF TypeOK, ChildType
    <2>5. active # NoGen => child'[active] = child[active]
      BY <2>2
    <2> QED
      BY <2>1, <2>2, <2>3, <2>4, <2>5, FailureKeeps DEF Spawning
  <1>2. CASE Fork
    <2>1. /\ pc = "spawn" /\ nextGen \in Gens
          /\ nextGen' = nextGen + 1
          /\ child' = [child EXCEPT ![nextGen] =
                    [state |-> "running", spec |-> job.spec, rate |-> InitialRate]]
          /\ pc' = "forked"
          /\ job' = [job EXCEPT !.gen = nextGen]
          /\ UNCHANGED <<policy, active, handle, outside, history>>
      BY <1>0, <1>2 DEF Fork, TypeOK
    <2>2. job \in JobType /\ child \in [Gens -> ChildType]
      BY <1>0 DEF TypeOK, JobType, ChildType
    <2>3. /\ job' \in JobType /\ job'.gen = nextGen
          /\ job'.purpose = job.purpose /\ job'.spec = job.spec /\ job'.op = job.op
          /\ job.spec \in Specs
      BY <2>1, <2>2 DEF JobType
    <2>4. /\ child' \in [Gens -> ChildType]
          /\ child'[nextGen].spec = job.spec
          /\ \A g \in Gens \ {nextGen} : child'[g] = child[g]
      BY <2>1, <2>2, <2>3 DEF ChildType
    <2>5. TypeOK'
      BY <1>0, <2>1, <2>3, <2>4 DEF TypeOK, JobType, ChildType
    <2>6. JobFits' /\ FatalEnds' /\ FatalIsReported'
      BY <1>0, <2>1, <2>3 DEF JobFits, FatalEnds, FatalIsReported, Spawning, Candidates
    <2>7. GenerationsFresh' /\ ActiveFits'
      BY <1>0, <2>1, <2>3, <2>4 DEF GenerationsFresh, ActiveFits, TypeOK, Candidates
    <2>8. Accounted'
      BY <1>0, <2>1, <2>3, <2>4 DEF Accounted, Running
    <2> QED
      BY <1>0, <2>1, <2>5, <2>6, <2>7, <2>8 DEF SupervisorInv
  <1>3. CASE Register
    <2>1. pc = "forked" /\ pc' = "registered" /\ job.gen \in Gens /\ job.gen # active
      BY <1>0, <1>3 DEF Register, GenerationsFresh, Candidates
    <2>2. UNCHANGED <<policy, active, nextGen, shuttingDown, events, outside, job, history>>
      BY <1>3 DEF Register
    <2>3. /\ owned' \subseteq Gens /\ child' \in [Gens -> ChildType]
          /\ \A g \in Gens : child'[g].spec = child[g].spec /\ child'[g].rate = child[g].rate
      <3>1. CASE shuttingDown
        BY SMTT(30), <1>0, <1>3, <2>1, <3>1, Killed DEF Register, TypeOK
      <3>2. CASE ~shuttingDown
        BY <1>0, <1>3, <2>1, <3>2 DEF Register, TypeOK, ChildType
      <3> QED
        BY <3>1, <3>2
    <2>4. \A g \in Running' : g \in IF shuttingDown THEN toKill ELSE owned'
      <3>1. CASE shuttingDown
        BY <1>0, <1>3, <2>1, <3>1, Killed DEF Register, Accounted, Running
      <3>2. CASE ~shuttingDown
        BY <1>0, <1>3, <2>1, <3>2 DEF Register, Accounted, Running
      <3> QED
        BY <3>1, <3>2
    <2>5. TypeOK' /\ JobFits' /\ FatalEnds' /\ FatalIsReported'
      BY <1>0, <2>1, <2>2, <2>3 DEF TypeOK, JobFits, FatalEnds, FatalIsReported, ChildType,
         Spawning,
         Candidates, NoJob
    <2>6. GenerationsFresh' /\ ActiveFits' /\ Accounted'
      BY <1>0, <2>1, <2>2, <2>3, <2>4 DEF GenerationsFresh, ActiveFits, Accounted, Candidates
    <2> QED
      BY <1>0, <2>2, <2>5, <2>6 DEF SupervisorInv
  <1>4. CASE Initialize \/ Recheck
    <2>1. pc \in {"registered", "initialized"} /\ pc' \in {"initialized", "rate"}
      BY <1>4 DEF Initialize, Recheck
    <2>2. UNCHANGED <<policy, active, nextGen, handle, outside, child, job, history>>
      BY <1>4 DEF Initialize, Recheck
    <2>3. TypeOK' /\ JobFits' /\ FatalEnds' /\ FatalIsReported'
      BY <1>0, <2>1, <2>2 DEF TypeOK, JobFits, FatalEnds, FatalIsReported, Spawning, Candidates,
         NoJob
    <2>4. GenerationsFresh' /\ ActiveFits' /\ Accounted'
      BY <1>0, <2>1, <2>2 DEF GenerationsFresh, ActiveFits, Accounted, Candidates, Running
    <2> QED
      BY <1>0, <2>2, <2>3, <2>4 DEF SupervisorInv
  <1>5. CASE CandidateFailed
    <2>1. /\ pc \in {"registered", "rate", "initialized"} /\ SpawnFailed
          /\ child' = Kill(job.gen) /\ owned' = owned \ {job.gen}
      BY <1>5 DEF CandidateFailed, DropCandidate
    <2>2. UNCHANGED <<spec, desiredRate, started, crashAge, active, nextGen, shuttingDown, outside,
                      history>>
      BY <1>5 DEF CandidateFailed
    <2>3. job.gen \in Gens /\ job.gen # active
      BY <1>0, <2>1 DEF GenerationsFresh, Candidates
    <2>4. owned' \subseteq Gens /\ child' \in [Gens -> ChildType]
      BY <1>0, <2>1, <2>3, Killed DEF TypeOK
    <2>5. active # NoGen => child'[active] = child[active]
      BY <1>0, <2>1, <2>3, Killed DEF ActiveFits
    <2>6. \A g \in Running' : g \in IF shuttingDown THEN toKill ELSE owned'
      BY <1>0, <2>1, <2>3, Killed DEF Accounted, Running
    <2> QED
      BY <2>1, <2>2, <2>4, <2>5, <2>6, FailureKeeps DEF Spawning, Candidates
  <1> QED
    BY <1>1, <1>2, <1>3, <1>4, <1>5

\* Install makes the candidate the active server, told the desired rate.
LEMMA InstallKeeps ==
    ASSUME SupervisorInv, Install
    PROVE  SupervisorInv'
  <1> USE SupervisorAssumption DEF NoGen, NoCrash, Gens, outside
  <1>0. /\ TypeOK /\ JobFits /\ GenerationsFresh /\ ActiveFits /\ FatalEnds /\ FatalIsReported
        /\ Accounted /\ crashAge = restartAge
    BY DEF SupervisorInv
  <1> DEFINE ready == [child EXCEPT ![job.gen].rate = desiredRate]
  <1>1. /\ pc = "rate" /\ active' = job.gen /\ refused' = FALSE
        /\ UNCHANGED <<desiredRate, startupError, fatal, buffered, crashAge, nextGen, shuttingDown,
                        outside, seenFatal, restartAge>>
    BY DEF Install
  <1>2. /\ job.gen \in Gens /\ job.gen < nextGen /\ job.gen # active
        /\ child[job.gen].spec = job.spec /\ job.purpose # "none" /\ ~fatal
    BY <1>0, <1>1 DEF GenerationsFresh, Candidates, JobFits, Spawning, FatalEnds
  <1>3. child \in [Gens -> ChildType] /\ job \in JobType /\ desiredRate \in Rates
    BY <1>0 DEF TypeOK, ChildType, JobType
  <1>4. /\ ready \in [Gens -> ChildType]
        /\ ready[job.gen].rate = desiredRate /\ ready[job.gen].spec = job.spec
        /\ \A g \in Gens : ready[g].state = child[g].state
    BY <1>2, <1>3 DEF ChildType
  <1>5. /\ TypeOK'
        /\ pc' \in {"idle", "flush"} /\ job' = NoJob /\ started'
        /\ child'[job.gen].rate = desiredRate /\ child'[job.gen].spec = spec'
        /\ \A g \in Running' : g \in IF shuttingDown THEN toKill ELSE owned'
    <2>1. CASE job.purpose = "replace"
      <3>1. active \in Gens /\ started
        BY <1>0, <2>1 DEF JobFits, ActiveFits
      <3>2. /\ child' = [ready EXCEPT ![active].state = "dead"]
            /\ owned' = owned \ {active}
            /\ spec' = job.spec
            /\ Push("reconfigured")
            /\ pc' = "idle" /\ job' = NoJob
            /\ UNCHANGED started
        BY <2>1 DEF Install, Return
      <3> HIDE DEF ready
      <3>3. /\ child' \in [Gens -> ChildType]
            /\ child'[active].state = "dead"
            /\ \A g \in Gens \ {active} : child'[g] = ready[g]
        BY <1>4, <3>1, <3>2 DEF ChildType
      <3>4. \A g \in Running' : g \in IF shuttingDown THEN toKill ELSE owned'
        BY <1>0, <1>1, <1>4, <3>2, <3>3 DEF Accounted, Running
      <3>5. spec' \in Specs /\ owned' \subseteq Gens
        BY <1>0, <1>3, <3>2 DEF TypeOK, JobType
      <3>6. TypeOK'
        BY <1>0, <1>1, <1>2, <3>2, <3>3, <3>5, Pushed, JobTyped DEF TypeOK, ChildType, JobType
      <3> QED
        BY <1>2, <1>4, <3>1, <3>2, <3>3, <3>4, <3>6
    <2>2. CASE job.purpose # "replace"
      <3>1. /\ child' = ready /\ started' = TRUE /\ UNCHANGED <<owned, spec, events>>
            /\ pc' \in {"idle", "flush"} /\ job' = NoJob
        BY <2>2 DEF Install, Return
      <3>2. job.spec = spec
        BY <1>0, <1>2, <1>3, <2>2 DEF JobFits, JobType
      <3> HIDE DEF ready
      <3>3. \A g \in Running' : g \in IF shuttingDown THEN toKill ELSE owned'
        BY <1>0, <1>1, <1>4, <3>1 DEF Accounted, Running
      <3>4. TypeOK'
        BY <1>0, <1>1, <1>2, <1>4, <3>1, JobTyped DEF TypeOK, ChildType, JobType
      <3> QED
        BY <1>2, <1>4, <3>1, <3>2, <3>3, <3>4
    <2> QED
      BY <2>1, <2>2
  <1>6. JobFits' /\ FatalEnds' /\ FatalIsReported'
    BY <1>1, <1>2, <1>5 DEF JobFits, FatalEnds, FatalIsReported, Spawning, Candidates, NoJob
  <1>7. GenerationsFresh' /\ ActiveFits' /\ Accounted'
    BY <1>1, <1>2, <1>5 DEF GenerationsFresh, ActiveFits, Accounted, Candidates
  <1> QED
    BY <1>0, <1>1, <1>5, <1>6, <1>7 DEF SupervisorInv

\* A call on the active server, its failure and the flush of buffered speech.
LEMMA ActiveCallsKeep ==
    ASSUME SupervisorInv,
           CallOk \/ CallRejected \/ TransportFailure \/ FlushNext \/ FlushDone \/ WorkerExit
    PROVE  SupervisorInv'
  <1> USE SupervisorAssumption DEF NoGen, NoCrash, Gens, history, outside, handle, policy, worker
  <1>0. /\ TypeOK /\ JobFits /\ GenerationsFresh /\ ActiveFits /\ FatalEnds /\ FatalIsReported
        /\ Accounted /\ crashAge = restartAge
    BY DEF SupervisorInv
  <1>1. CASE CallOk \/ CallRejected
    <2>1. /\ pc = "call" /\ pc' \in {"idle", "flush"} /\ job' = NoJob
          /\ UNCHANGED <<policy, active, nextGen, handle, outside, seenFatal, restartAge>>
      BY <1>1 DEF CallOk, CallRejected, AfterCall, Return
    <2>2. active \in Gens /\ started /\ ~fatal
      BY <1>0, <2>1 DEF JobFits, ActiveFits, FatalEnds
    <2>3. child \in [Gens -> ChildType] /\ desiredRate \in Rates /\ refused \in BOOLEAN
      BY <1>0 DEF TypeOK, ChildType
    <2>4. /\ child' \in [Gens -> ChildType]
          /\ child'[active].spec = child[active].spec
          /\ \A g \in Gens : child'[g].state = child[g].state
          /\ refused' \in BOOLEAN
          /\ child'[active].rate = desiredRate \/ refused'
      <3>1. CASE CallOk /\ job.op = "rate"
        BY <2>2, <2>3, <3>1 DEF CallOk, ChildType
      <3>2. CASE CallOk /\ job.op # "rate"
        BY <1>0, <2>2, <2>3, <3>2 DEF CallOk, ActiveFits
      <3>3. CASE CallRejected
        <4>1. UNCHANGED child /\ refused' = (job.op = "rate" \/ refused)
          BY <3>3 DEF CallRejected
        <4>2. CASE job.op = "rate"
          BY <2>3, <4>1, <4>2
        <4>3. CASE job.op # "rate"
          <5>1. refused' = refused
            BY <2>3, <4>1, <4>3
          <5> QED
            BY <1>0, <2>2, <2>3, <4>1, <4>3, <5>1 DEF ActiveFits
        <4> QED
          BY <4>2, <4>3
      <3> QED
        BY <1>1, <3>1, <3>2, <3>3
    <2>5. TypeOK'
      BY <1>0, <2>1, <2>4, JobTyped DEF TypeOK, ChildType, JobType
    <2>6. JobFits' /\ FatalEnds' /\ FatalIsReported'
      BY <1>0, <2>1, <2>2 DEF JobFits, FatalEnds, FatalIsReported, Spawning, Candidates, NoJob
    <2>7. GenerationsFresh' /\ ActiveFits' /\ Accounted'
      BY <1>0, <2>1, <2>2, <2>4 DEF GenerationsFresh, ActiveFits, Accounted, Candidates, Running
    <2> QED
      BY <1>0, <2>1, <2>5, <2>6, <2>7 DEF SupervisorInv
  <1>2. CASE TransportFailure
    <2>1. /\ pc = "call" /\ active' = NoGen /\ child' = Kill(active) /\ owned' = owned \ {active}
          /\ UNCHANGED <<spec, desiredRate, started, startupError, nextGen, shuttingDown, outside,
                   seenFatal, refused>>
      BY <1>2 DEF TransportFailure
    <2>2. active \in Gens /\ started /\ ~fatal /\ job \in JobType
      BY <1>0, <2>1 DEF JobFits, ActiveFits, FatalEnds, TypeOK, JobType
    <2>3. /\ child' \in [Gens -> ChildType]
          /\ \A g \in Running' : g \in IF shuttingDown THEN toKill ELSE owned'
      BY <1>0, <2>1, <2>2, Killed DEF Accounted, Running
    <2>4. CASE RestartAllowed
      <3>1. /\ crashAge' = 0 /\ restartAge' = 0 /\ UNCHANGED <<fatal, events, buffered>>
            /\ pc' = "spawn"
            /\ job' = [op |-> "none", purpose |-> "recover", spec |-> spec, gen |-> NoGen,
                       flush |-> job.flush]
        BY <1>2, <2>4 DEF TransportFailure, Spawn
      <3>2. job' \in JobType
        BY <1>0, <2>2, <3>1 DEF JobType, TypeOK
      <3>3. TypeOK'
        BY <1>0, <2>1, <2>3, <3>1, <3>2 DEF TypeOK, ChildType, JobType
      <3>4. JobFits' /\ FatalEnds' /\ FatalIsReported'
        BY <1>0, <2>1, <2>2, <3>1 DEF JobFits, FatalEnds, FatalIsReported, Spawning, Candidates
      <3>5. GenerationsFresh' /\ ActiveFits' /\ Accounted'
        BY <1>0, <2>1, <2>3, <3>1 DEF GenerationsFresh, ActiveFits, Accounted, Candidates, TypeOK
      <3> QED
        BY <3>1, <3>3, <3>4, <3>5 DEF SupervisorInv
    <2>5. CASE ~RestartAllowed
      <3>1. /\ fatal' = TRUE /\ Push("fatal") /\ pc' = "idle" /\ job' = NoJob
            /\ UNCHANGED <<crashAge, restartAge>>
            /\ buffered' \in {0, buffered}
        BY <1>2, <2>5 DEF TransportFailure, Return
      <3>2. buffered' \in 0 .. MaxBuffered
        BY <1>0, <3>1 DEF TypeOK
      <3>3. TypeOK'
        <4>1. /\ events' \in Seq({"fatal", "reconfigured", "failed"})
              /\ Len(events') <= MaxEvents
          BY <1>0, <3>1, Pushed
        <4>2. active' \in 0 .. MaxGen /\ owned' \subseteq Gens /\ job' \in JobType
          BY <1>0, <2>1, <3>1, JobTyped DEF TypeOK
        <4> QED
          BY <1>0, <2>1, <2>3, <3>1, <3>2, <4>1, <4>2 DEF TypeOK, ChildType, JobType
      <3>4. JobFits' /\ FatalEnds' /\ FatalIsReported'
        BY <1>0, <2>1, <2>2, <3>1, Pushed DEF JobFits, FatalEnds, FatalIsReported, Spawning,
           Candidates, NoJob
      <3>5. GenerationsFresh' /\ ActiveFits' /\ Accounted'
        BY <1>0, <2>1, <2>3, <3>1 DEF GenerationsFresh, ActiveFits, Accounted, Candidates, TypeOK
      <3> QED
        BY <1>0, <3>1, <3>3, <3>4, <3>5 DEF SupervisorInv
    <2> QED
      BY <2>4, <2>5
  <1>3. CASE FlushNext \/ FlushDone
    <2>1. /\ pc = "flush" /\ started
          /\ UNCHANGED <<spec, desiredRate, started, startupError, fatal, crashAge, active, nextGen,
                          handle, outside, child, history>>
      BY <1>0, <1>3 DEF FlushNext, FlushDone, JobFits
    <2>2. buffered' \in 0 .. MaxBuffered
      BY <1>0, <1>3 DEF FlushNext, FlushDone, TypeOK
    <2>3. \/ pc' \in {"idle", "flush"} /\ job' = NoJob
          \/ /\ pc' = "call" /\ active # NoGen /\ ~fatal
             /\ job' = [NoJob EXCEPT !.op = "speak", !.flush = TRUE]
      BY <1>0, <1>3 DEF FlushNext, FlushDone, Available, Return, JobFits
    <2>4. TypeOK'
      BY <1>0, <2>1, <2>2, <2>3, JobTyped DEF TypeOK, JobType
    <2>5. JobFits'
      BY <1>0, <2>1, <2>3, JobTyped DEF JobFits, Spawning, Candidates, NoJob
    <2>6. FatalEnds' /\ FatalIsReported'
      BY <1>0, <2>1, <2>3 DEF FatalEnds, FatalIsReported
    <2>7. GenerationsFresh' /\ ActiveFits' /\ Accounted'
      BY <1>0, <2>1, <2>3 DEF GenerationsFresh, ActiveFits, Accounted, Candidates, Running
    <2> QED
      BY <1>0, <2>1, <2>4, <2>5, <2>6, <2>7 DEF SupervisorInv
  <1>4. CASE WorkerExit
    <2>1. /\ pc = "idle" /\ pc' = "done" /\ active' = NoGen
          /\ child' = (IF active = NoGen THEN child ELSE Kill(active))
          /\ owned' = owned \ {active}
          /\ UNCHANGED <<policy, nextGen, shuttingDown, events, outside, job, history>>
      BY <1>4 DEF WorkerExit, Idle
    <2>2. /\ child' \in [Gens -> ChildType]
          /\ \A g \in Running' : g \in IF shuttingDown THEN toKill ELSE owned'
      <3>1. CASE active = NoGen
        BY <1>0, <2>1, <3>1 DEF Accounted, Running, TypeOK, ChildType
      <3>2. CASE active # NoGen
        BY <1>0, <2>1, <3>2, Killed DEF Accounted, Running, ActiveFits
      <3> QED
        BY <3>1, <3>2
    <2>3. TypeOK'
      BY <1>0, <2>1, <2>2 DEF TypeOK, ChildType
    <2>4. JobFits' /\ FatalEnds' /\ FatalIsReported'
      BY <1>0, <2>1 DEF JobFits, FatalEnds, FatalIsReported, Spawning, Candidates, NoJob
    <2>5. GenerationsFresh' /\ ActiveFits' /\ Accounted'
      BY <1>0, <2>1, <2>2 DEF GenerationsFresh, ActiveFits, Accounted, Candidates, TypeOK
    <2> QED
      BY <1>0, <2>1, <2>3, <2>4, <2>5 DEF SupervisorInv
  <1> QED
    BY <1>1, <1>2, <1>3, <1>4

\* The event loop, the children and the clock.
LEMMA OutsideKeeps ==
    ASSUME SupervisorInv,
           \/ TakeEvents \/ Terminate \/ CloseMailbox \/ Tick
           \/ \E g \in Gens : RunTerminator(g) \/ Crash(g)
           \/ UNCHANGED vars
    PROVE  SupervisorInv'
  <1> USE SupervisorAssumption DEF NoGen, NoCrash, Gens, history, outside, handle, policy, worker
  <1>0. /\ TypeOK /\ JobFits /\ GenerationsFresh /\ ActiveFits /\ FatalEnds /\ FatalIsReported
        /\ Accounted /\ crashAge = restartAge
    BY DEF SupervisorInv
  <1>1. ASSUME UNCHANGED <<active, nextGen, child, worker, spec, desiredRate, started, fatal, refused>>
        PROVE  JobFits' /\ GenerationsFresh' /\ ActiveFits' /\ FatalEnds' /\ Running' = Running
    BY <1>0, <1>1 DEF JobFits, GenerationsFresh, ActiveFits, FatalEnds, Spawning, Candidates, NoJob,
       Running
  <1>2. CASE TakeEvents
    <2>1. /\ events' = <<>>
          /\ seenFatal' = (seenFatal \/ "fatal" \in Range(events))
          /\ UNCHANGED <<policy, active, nextGen, shuttingDown, owned, outside, child, worker,
                         restartAge, refused>>
      BY <1>2 DEF TakeEvents
    <2>2. TypeOK'
      <3>1. seenFatal' \in BOOLEAN
        BY <1>0, <2>1 DEF TypeOK
      <3> QED
        BY <1>0, <2>1, <3>1 DEF TypeOK
    <2>3. FatalIsReported'
      BY <1>0, <2>1 DEF FatalIsReported
    <2> QED
      BY <1>0, <1>1, <2>1, <2>2, <2>3 DEF SupervisorInv, Accounted
  <1>3. CASE Terminate
    <2>1. /\ shuttingDown' = TRUE /\ toKill' = toKill \cup owned
          /\ UNCHANGED <<policy, active, nextGen, owned, events, mailboxOpen, child, worker, history>>
      BY <1>3 DEF Terminate
    <2>2. TypeOK' /\ FatalIsReported'
      BY <1>0, <2>1 DEF TypeOK, FatalIsReported
    <2> QED
      BY <1>0, <1>1, <2>1, <2>2 DEF SupervisorInv, Accounted
  <1>4. CASE CloseMailbox \/ UNCHANGED vars
    <2>1. /\ UNCHANGED <<policy, active, nextGen, handle, toKill, child, worker, history>>
          /\ mailboxOpen' \in {FALSE, mailboxOpen}
      BY <1>4 DEF CloseMailbox, vars
    <2>2. FatalIsReported'
      BY <1>0, <2>1 DEF FatalIsReported
    <2>3. TypeOK'
      BY <1>0, <2>1 DEF TypeOK
    <2> QED
      BY <1>0, <1>1, <2>1, <2>2, <2>3 DEF SupervisorInv, Accounted
  <1>5. CASE Tick
    <2>1. /\ crashAge' = Older(crashAge) /\ restartAge' = Older(restartAge)
          /\ UNCHANGED <<spec, desiredRate, started, startupError, fatal, buffered, active, nextGen,
                   handle, outside, child, worker, seenFatal, refused>>
      BY <1>5 DEF Tick
    <2>2. crashAge' \in {NoCrash} \cup 0 .. CrashWindow /\ crashAge' = restartAge'
      BY <1>0, <2>1 DEF TypeOK, Older
    <2>3. TypeOK' /\ FatalIsReported'
      BY <1>0, <2>1, <2>2 DEF TypeOK, FatalIsReported
    <2> QED
      BY <1>0, <1>1, <2>1, <2>2, <2>3 DEF SupervisorInv, Accounted
  <1>6. ASSUME NEW g \in Gens, RunTerminator(g) \/ Crash(g)
        PROVE  SupervisorInv'
    <2>1. /\ child' = Kill(g) /\ toKill' \in {toKill, toKill \ {g}}
          /\ UNCHANGED <<policy, active, nextGen, handle, mailboxOpen, worker, history>>
      BY <1>6 DEF RunTerminator, Crash
    <2>2. /\ child' \in [Gens -> ChildType]
          /\ child'[g].state # "running"
          /\ \A h \in Gens : child'[h].spec = child[h].spec /\ child'[h].rate = child[h].rate
          /\ \A h \in Gens \ {g} : child'[h] = child[h]
      BY <1>0, <2>1, Killed
    <2>3. TypeOK' /\ JobFits' /\ FatalEnds' /\ FatalIsReported'
      BY <1>0, <2>1, <2>2 DEF TypeOK, ChildType, JobFits, FatalEnds, FatalIsReported, Spawning,
         Candidates, NoJob
    <2>4. GenerationsFresh' /\ ActiveFits'
      BY <1>0, <2>1, <2>2 DEF GenerationsFresh, ActiveFits, Candidates
    <2>5. Accounted'
      BY <1>0, <2>1, <2>2 DEF Accounted, Running
    <2> QED
      BY <1>0, <2>1, <2>3, <2>4, <2>5 DEF SupervisorInv
  <1> QED
    BY <1>2, <1>3, <1>4, <1>5, <1>6

-----------------------------------------------------------------------------
(* The theorems *)

\* The invariant is inductive.
LEMMA SupervisorInductive == Spec => []SupervisorInv
  <1>1. Init => SupervisorInv
    <2> SUFFICES ASSUME Init PROVE SupervisorInv
      OBVIOUS
    <2> USE SupervisorAssumption DEF Init, NoGen, NoCrash, Gens, Unborn
    <2>1. TypeOK
      <3>1. job \in JobType
        BY JobTyped
      <3>2. child \in [Gens -> ChildType]
        BY DEF ChildType
      <3>3. /\ active \in 0 .. MaxGen /\ nextGen \in 1 .. MaxGen + 1 /\ buffered \in 0 .. MaxBuffered
            /\ {crashAge, restartAge} \subseteq {NoCrash} \cup 0 .. CrashWindow
            /\ Len(events) <= MaxEvents /\ events \in Seq({"fatal", "reconfigured", "failed"})
        OBVIOUS
      <3>4. /\ {started, startupError, fatal, shuttingDown, mailboxOpen, seenFatal, refused}
                  \subseteq BOOLEAN
            /\ spec \in Specs /\ desiredRate \in Rates /\ owned = {} /\ toKill = {} /\ pc = "idle"
        OBVIOUS
      <3> HIDE DEF Init
      <3> QED
        BY <3>1, <3>2, <3>3, <3>4 DEF TypeOK, JobType, ChildType
    <2>2. JobFits /\ GenerationsFresh /\ ActiveFits /\ FatalEnds
      BY DEF JobFits, GenerationsFresh, ActiveFits, FatalEnds, Spawning, Candidates, NoJob
    <2>3. Accounted /\ FatalIsReported
      BY DEF Accounted, FatalIsReported, Running
    <2> QED
      BY <2>1, <2>2, <2>3 DEF SupervisorInv
  <1>2. SupervisorInv /\ [Next]_vars => SupervisorInv'
    BY CallsKeep, SpawnKeeps, InstallKeeps, ActiveCallsKeep, OutsideKeeps DEF Next, WorkerStep
  <1> QED
    BY <1>1, <1>2, PTL DEF Spec

\* Whatever the worker was doing when Lector left, no server outlives the
\* terminators but one that Register will kill; between two calls the active
\* server is the configured one at the rate asked for; and the fatal failure
\* that must end Lector reaches the event loop.
THEOREM ServersAreAccounted == Spec => []ServersAccounted
  <1>1. SupervisorInv => ServersAccounted
    <2> SUFFICES ASSUME SupervisorInv PROVE ServersAccounted
      OBVIOUS
    <2>1. NoOrphan
      BY DEF SupervisorInv, Accounted, NoOrphan
    <2>2. ActiveIsAsConfigured
      BY DEF SupervisorInv, ActiveFits, ActiveIsAsConfigured, Idle
    <2> QED
      BY <2>1, <2>2 DEF SupervisorInv, ServersAccounted
  <1> QED
    BY <1>1, SupervisorInductive, PTL

\* The step of RecoveryIsOrderly: only a transport failure outside the crash
\* window restarts a server, and a failed replacement touches its candidate.
RestartStep == (pc = "call" /\ pc' = "spawn") => restartAge \in {NoCrash, CrashWindow}
ReplaceStep ==
    (job.purpose = "replace" /\ pc' = "idle" /\ spec' = spec /\ job.spec # spec)
        => active' = active /\ child'[active] = child[active]

\* "Changing servers cannot bypass the rolling 30-second failure policy", and a
\* replacement that fails leaves the previous server active and untouched.
THEOREM RecoveryOrderly == Spec => RecoveryIsOrderly
  <1> USE SupervisorAssumption DEF NoGen, NoCrash, Gens
  <1>1. SupervisorInv /\ [Next]_vars => RestartStep
    <2> SUFFICES ASSUME SupervisorInv, [Next]_vars, pc = "call", pc' = "spawn"
                 PROVE  restartAge \in {NoCrash, CrashWindow}
      BY DEF RestartStep
    <2>1. TransportFailure
      BY DEF Next, vars, worker, WorkerStep, Buffer, DiscardBuffer, Call, SetRate, Start,
         ConfigureServer, NextRequest, Idle, SpawnRefused, Fork, ForkFailed, Register, Initialize,
         Recheck, CandidateFailed, Install, CallOk, CallRejected, AfterCall, Return, FlushNext,
         FlushDone, WorkerExit, TakeEvents, Terminate, CloseMailbox, RunTerminator, Crash, Tick
    <2>2. RestartAllowed
      BY <2>1 DEF TransportFailure, Return
    <2> QED
      BY <2>2 DEF RestartAllowed, SupervisorInv, TypeOK
  <1>2. SupervisorInv /\ [Next]_vars => ReplaceStep
    <2> SUFFICES ASSUME SupervisorInv, [Next]_vars, job.purpose = "replace", pc' = "idle",
                        spec' = spec, job.spec # spec
                 PROVE  active' = active /\ child'[active] = child[active]
      BY DEF ReplaceStep
    <2>1. pc \in Spawning
      BY DEF SupervisorInv, JobFits
    <2>2. SpawnRefused \/ ForkFailed \/ CandidateFailed
      BY <2>1 DEF Spawning, Candidates, Next, vars, worker, WorkerStep, Buffer, DiscardBuffer, Call,
         SetRate, Start, ConfigureServer, NextRequest, Idle, Fork, Register, Initialize, Recheck,
         Install, CallOk, CallRejected, TransportFailure, FlushNext, FlushDone, WorkerExit,
         TakeEvents, Terminate, CloseMailbox, RunTerminator, Crash, Tick
    <2>3. CASE SpawnRefused \/ ForkFailed
      BY <2>3 DEF SpawnRefused, ForkFailed
    <2>4. CASE CandidateFailed
      <3>1. child' = Kill(job.gen) /\ active' = active
        BY <2>4 DEF CandidateFailed, DropCandidate
      <3>2. pc \in Candidates
        BY <2>4 DEF CandidateFailed, Candidates
      <3>3. active \in Gens /\ job.gen \in Gens /\ job.gen # active /\ TypeOK
        BY <3>2 DEF SupervisorInv, GenerationsFresh, JobFits, ActiveFits
      <3> QED
        BY <3>1, <3>3, Killed
    <2> QED
      BY <2>2, <2>3, <2>4
  <1> QED
    BY <1>1, <1>2, SupervisorInductive, PTL
       DEF Spec, RecoveryIsOrderly, RestartsAreSpaced, FailedReplacementKeepsServer, RestartStep,
           ReplaceStep
=============================================================================
