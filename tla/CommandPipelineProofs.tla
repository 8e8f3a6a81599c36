------------------------- MODULE CommandPipelineProofs -------------------------
(***************************************************************************)
(* Machine-checked proofs about CommandPipeline, for every number of       *)
(* workers, stations, jobs and tracks: types and pools; how far a command  *)
(* or an unregistration can overtake another; and that every step of the   *)
(* pipeline is one step of AsyncCommands, or leaves it alone.              *)
(***************************************************************************)
EXTENDS CommandPipeline, FiniteSetTheorems, SequenceTheorems, TLAPS

-----------------------------------------------------------------------------
(* The inductive invariant                                                   *)

\* A command carries the id its native returned and the pool it was meant for,
\* and an unregistration is of a station that was created.
Sound(j) ==
  /\ j.kind = "command" => j.request \in 1 .. nextRequest /\ j.pool = pool
  /\ j.kind = "unregister" => j.station \in Ids

InvJobs == \A k \in 1 .. Len(jobs) : Sound(jobs[k])

\* What a worker has in hand is such a job, and only RegisterWithRetry handles
\* a registration.
InvWorkers ==
  \A w \in Workers :
    Busy(w) => /\ Sound(job[w])
               /\ pc[w] \notin RegisterPoints => job[w].kind # "register"

\* A result answers an id some native returned.
Answers(e) == e.kind = "result" => e.request \in 1 .. nextRequest

InvEvents ==
  /\ \A k \in 1 .. Len(dispatch) : Answers(dispatch[k])
  /\ \A k \in 1 .. Len(events) : Answers(events[k])

\* The natives that block the main thread begin with a running pool, a script
\* without a pool has no station to command, and once StopWorkers has cleared
\* jobs_ no command comes before the next pool.
InvMain ==
  /\ mainAt \in {"destroying", "shuttingDown"} => running
  /\ mainAt = "script" /\ ~running => live = {} /\ ~configured
  /\ mainAt = "joining" \/ (mainAt = "script" /\ ~running) =>
       \A k \in 1 .. Len(jobs) : jobs[k].kind # "command"

\* A request nobody waits for was in some worker's hands.
InvLate ==
  \A j \in late :
    /\ j.kind = "command" => j.request \in 1 .. nextRequest
    /\ j.kind = "unregister" => j.station \in Ids

PipelineInv ==
  TypeOK /\ InvJobs /\ InvWorkers /\ InvEvents /\ InvMain /\ InvLate

-----------------------------------------------------------------------------
(* Initial states                                                            *)

LEMMA InitPipelineInv == Init => PipelineInv
<1> SUFFICES ASSUME Init PROVE PipelineInv
  OBVIOUS
<1>1. TypeOK
  <2>1. pc \in [Workers -> WorkerPoints]
    BY DEF Init, WorkerPoints
  <2>2. job \in [Workers -> Job]
    BY DEF Init, NoJob, Job, JobKinds
  <2>3. nextStation \in 0 .. MaxStations /\ claimed \in 0 .. MaxJobs
    BY BoundsAssumption DEF Init, BoundsAssumption
  <2>4. served \cup heard \cup dropped \subseteq 1 .. nextRequest
    BY DEF Init
  <2>5. dispatch \in Seq(Event) /\ events \in Seq(Event) /\ jobs \in Seq(Job)
    BY DEF Init
  <2>. QED
    BY <2>1, <2>2, <2>3, <2>4, <2>5 DEF Init, TypeOK
<1>2. InvJobs /\ InvEvents /\ InvMain /\ InvLate
  BY DEF Init, InvJobs, InvEvents, InvMain, InvLate
<1>3. InvWorkers
  BY DEF Init, InvWorkers, Busy
<1>. QED
  BY <1>1, <1>2, <1>3 DEF PipelineInv

-----------------------------------------------------------------------------
(* Jobs and events                                                           *)

\* Enqueue leaves a queue of jobs, the new one last.
LEMMA EnqueueProperties ==
  ASSUME jobs \in Seq(Job), NEW j \in Job, Enqueue(j)
  PROVE  /\ jobs' \in Seq(Job)
         /\ Len(jobs') = Len(jobs) + 1
         /\ \A k \in 1 .. Len(jobs) : jobs'[k] = jobs[k]
         /\ jobs'[Len(jobs) + 1] = j
BY DEF Enqueue

LEMMA NewJobType ==
  ASSUME TypeOK, NEW kind \in JobKinds, NEW i \in Ids \cup {NoStation},
         NEW r \in Nat
  PROVE  /\ NewJob(kind, i, r) \in Job
         /\ NewJob(kind, i, r).kind = kind
         /\ NewJob(kind, i, r).station = i
         /\ NewJob(kind, i, r).request = r
         /\ NewJob(kind, i, r).pool = pool
BY DEF TypeOK, NewJob, Job

\* Appending a sound job keeps the queue sound.
LEMMA EnqueueKeepsInvJobs ==
  ASSUME TypeOK, InvJobs, NEW kind \in JobKinds,
         NEW i \in Ids \cup {NoStation}, NEW r \in Nat,
         Enqueue(NewJob(kind, i, r)), pool' = pool,
         nextRequest' \in {nextRequest, nextRequest + 1},
         kind = "command" => r \in 1 .. nextRequest',
         kind = "unregister" => i \in Ids
  PROVE  InvJobs' /\ jobs' \in Seq(Job)
<1> DEFINE j == NewJob(kind, i, r)
<1>1. /\ j \in Job /\ j.kind = kind /\ j.station = i /\ j.request = r
      /\ j.pool = pool
  BY NewJobType
<1>2. /\ jobs' \in Seq(Job) /\ Len(jobs') = Len(jobs) + 1
      /\ \A k \in 1 .. Len(jobs) : jobs'[k] = jobs[k]
      /\ jobs'[Len(jobs) + 1] = j
  BY <1>1, EnqueueProperties DEF TypeOK
<1>3. ASSUME NEW k \in 1 .. Len(jobs') PROVE Sound(jobs[k])'
  <2>. HIDE DEF j
  <2>1. CASE k \in 1 .. Len(jobs)
    <3>1. jobs'[k] = jobs[k] /\ Sound(jobs[k])
      BY <1>2, <2>1 DEF InvJobs
    <3>2. nextRequest \in Nat /\ 1 .. nextRequest \subseteq 1 .. nextRequest'
      BY DEF TypeOK
    <3>. QED
      BY <3>1, <3>2 DEF Sound
  <2>2. CASE k = Len(jobs) + 1
    <3>1. jobs'[k] = j
      BY <1>2, <2>2
    <3>. QED
      BY <1>1, <3>1 DEF Sound
  <2>. QED
    BY <1>2, <2>1, <2>2 DEF TypeOK
<1>. QED
  BY <1>2, <1>3 DEF InvJobs

-----------------------------------------------------------------------------
(* Type correctness                                                          *)

\* The commands of a sound queue were given an id.
LEMMA CommandsHaveIds ==
  ASSUME TypeOK, InvJobs
  PROVE  Commands(jobs) \subseteq 1 .. nextRequest
BY DEF TypeOK, InvJobs, Sound, Commands

\* The stations are finitely many.
LEMMA LiveIsFinite ==
  ASSUME TypeOK
  PROVE  Cardinality(live) \in Nat
<1>1. IsFiniteSet(Ids)
  BY BoundsAssumption, FS_Interval DEF Ids, BoundsAssumption
<1>. QED
  BY <1>1, FS_Subset, FS_CardinalityType DEF TypeOK

LEMMA NatStep ==
  ASSUME NEW n \in Nat
  PROVE  1 .. n \subseteq 1 .. (n + 1) /\ n + 1 \in Nat /\ n + 1 \in 1 .. (n + 1)
OBVIOUS

LEMMA ClaimType ==
  ASSUME TypeOK, NEW n \in Nat, Claim(n)
  PROVE  claimed' \in 0 .. MaxJobs
BY BoundsAssumption DEF TypeOK, Claim, BoundsAssumption

\* The natives, which enqueue at most one job.
LEMMA NativeTypeOK ==
  ASSUME TypeOK, InvJobs,
         NEW i \in Ids,
         \/ CreateStation \/ EnqueueCommand(i) \/ RefreshStatus(i)
         \/ RequestStationList \/ UpdateStation(i) \/ DestroyStation(i)
  PROVE  TypeOK'
<1> USE DEF mainVars, workerVars, pollerVars, pushVars, serverVars, poolVars,
            idVars
<1>1. CASE CreateStation
  BY <1>1, BoundsAssumption DEF CreateStation, TypeOK, Ids, BoundsAssumption
<1>2. CASE EnqueueCommand(i)
  <2>1. jobs' \in Seq(Job)
    BY <1>2, NewJobType, EnqueueProperties, NatStep
       DEF EnqueueCommand, TypeOK, JobKinds
  <2>. QED
    BY <1>2, <2>1, ClaimType, NatStep DEF EnqueueCommand, TypeOK
<1>3. CASE RefreshStatus(i)
  <2>1. jobs' \in Seq(Job)
    BY <1>3, NewJobType, EnqueueProperties, NatStep
       DEF RefreshStatus, TypeOK, JobKinds
  <2>. QED
    BY <1>3, <2>1, ClaimType, NatStep DEF RefreshStatus, TypeOK
<1>4. CASE RequestStationList
  <2>1. jobs' \in Seq(Job)
    BY <1>4, NewJobType, EnqueueProperties, NatStep
       DEF RequestStationList, TypeOK, JobKinds
  <2>. QED
    BY <1>4, <2>1, ClaimType, NatStep DEF RequestStationList, TypeOK
<1>5. CASE UpdateStation(i)
  <2>1. jobs' \in Seq(Job)
    BY <1>5, NewJobType, EnqueueProperties DEF UpdateStation, TypeOK, JobKinds
  <2>. QED
    BY <1>5, <2>1, ClaimType DEF UpdateStation, TypeOK
<1>6. CASE DestroyStation(i)
  BY <1>6, ClaimType DEF DestroyStation, TypeOK
<1>. QED
  BY <1>1, <1>2, <1>3, <1>4, <1>5, <1>6

\* A new pool.
LEMMA StartPoolType ==
  ASSUME TypeOK, StartPool
  PROVE  /\ mainAt' = "script" /\ running' = TRUE /\ thenStart' = FALSE
         /\ pool' = pool + 1 /\ pool' \in Nat
         /\ pc' \in [Workers -> WorkerPoints] /\ \A w \in Workers : pc'[w] = "idle"
         /\ polling' = "waiting"
         /\ jobs' \in Seq(Job) /\ Len(jobs') = Len(jobs) + 1
         /\ \A k \in 1 .. Len(jobs) : jobs'[k] = jobs[k]
         /\ jobs'[Len(jobs) + 1].kind = "info"
<1> DEFINE j == [NewJob("info", NoStation, 0) EXCEPT !.pool = pool + 1]
<1>1. j \in Job /\ j.kind = "info"
  <2>1. pool + 1 \in Nat
    BY DEF TypeOK
  <2>2. "info" \in JobKinds /\ NoStation \in Ids \cup {NoStation} /\ 0 \in Nat
    BY DEF JobKinds
  <2>3. /\ NewJob("info", NoStation, 0) \in Job
        /\ NewJob("info", NoStation, 0).kind = "info"
    BY <2>2, NewJobType
  <2>. QED
    BY <2>1, <2>3 DEF Job
<1>2. Enqueue(j)
  BY DEF StartPool
<1>3. /\ jobs' \in Seq(Job) /\ Len(jobs') = Len(jobs) + 1
      /\ \A k \in 1 .. Len(jobs) : jobs'[k] = jobs[k]
      /\ jobs'[Len(jobs) + 1].kind = "info"
  <2>. HIDE DEF j
  <2>. QED
    BY <1>1, <1>2, EnqueueProperties DEF TypeOK
<1>4. pc' \in [Workers -> WorkerPoints] /\ \A w \in Workers : pc'[w] = "idle"
  BY DEF StartPool, WorkerPoints
<1>. QED
  BY <1>3, <1>4 DEF StartPool, TypeOK

\* The calls that stop and start the pool, as far as the main thread.
LEMMA MainThreadTypeOK ==
  ASSUME TypeOK, InvJobs,
         \/ Configure \/ Shutdown \/ StreamThreadJoined
         \/ StreamThreadsJoined \/ ClearJobs \/ PoolJoined
  PROVE  TypeOK'
<1> USE DEF mainVars, workerVars, pollerVars, pushVars, serverVars, poolVars,
            idVars
<1>1. CASE Configure
  <2>0. claimed' \in 0 .. MaxJobs
    BY <1>1, ClaimType DEF Configure
  <2>1. CASE running
    BY <1>1, <2>0, <2>1 DEF Configure, TypeOK
  <2>2. CASE ~running
    BY <1>1, <2>0, <2>2, StartPoolType DEF Configure, TypeOK
  <2>. QED
    BY <2>1, <2>2
<1>2. CASE Shutdown
  BY <1>2 DEF Shutdown, TypeOK
<1>3. CASE StreamThreadJoined
  <2>1. PICK i \in Ids : Enqueue(NewJob("unregister", i, 0))
    BY <1>3 DEF StreamThreadJoined, TypeOK
  <2>2. jobs' \in Seq(Job)
    BY <2>1, NewJobType, EnqueueProperties DEF TypeOK, JobKinds
  <2>. QED
    BY <1>3, <2>2 DEF StreamThreadJoined, TypeOK
<1>4. CASE StreamThreadsJoined
  BY <1>4 DEF StreamThreadsJoined, TypeOK
<1>5. CASE ClearJobs
  <2>1. dropped' \subseteq 1 .. nextRequest
    BY <1>5, CommandsHaveIds DEF ClearJobs, TypeOK
  <2>. QED
    BY <1>5, <2>1 DEF ClearJobs, JobsCleared, TypeOK
<1>6. CASE PoolJoined
  <2>1. CASE thenStart
    BY <1>6, <2>1, StartPoolType DEF PoolJoined, TypeOK
  <2>2. CASE ~thenStart
    BY <1>6, <2>2 DEF PoolJoined, TypeOK
  <2>. QED
    BY <2>1, <2>2
<1>. QED
  BY <1>1, <1>2, <1>3, <1>4, <1>5, <1>6

\* A worker's next job.
LEMMA TakeJobType ==
  ASSUME TypeOK, NEW w \in Workers, TakeJob(w)
  PROVE  /\ Len(jobs) > 0 /\ Head(jobs) = jobs[1] /\ jobs[1] \in Job
         /\ jobs' \in Seq(Job) /\ Len(jobs') = Len(jobs) - 1
         /\ \A k \in 1 .. Len(jobs') : jobs'[k] = jobs[k + 1]
BY DEF TypeOK, TakeJob

LEMMA NoJobType == NoJob \in Job /\ NoJob.kind = "info"
BY DEF NoJob, Job, JobKinds

LEMMA ReturnsType ==
  ASSUME TypeOK, NEW w \in Workers, Returns(w)
  PROVE  /\ pc' \in [Workers -> WorkerPoints] /\ pc' = [pc EXCEPT ![w] = "idle"]
         /\ job' \in [Workers -> Job] /\ job' = [job EXCEPT ![w] = NoJob]
BY NoJobType DEF TypeOK, Returns, WorkerPoints

\* Pushing an event that answers a command, or is not a result, keeps
\* dispatch_ sound.
LEMMA PushProperties ==
  ASSUME TypeOK, InvEvents, NEW kind \in EventKinds,
         NEW i \in Ids \cup {NoStation}, NEW r \in Nat, Push(kind, i, r),
         kind = "result" => r \in 1 .. nextRequest
  PROVE  /\ dispatch' \in Seq(Event)
         /\ \A k \in 1 .. Len(dispatch') : Answers(dispatch'[k])
<1> DEFINE e == [kind |-> kind, station |-> i, request |-> r]
<1>1. e \in Event /\ Answers(e)
  BY DEF Event, Answers
<1>2. dispatch' = Append(dispatch, e)
  BY DEF Push
<1>. HIDE DEF e
<1>. QED
  BY <1>1, <1>2 DEF TypeOK, InvEvents

\* The events of a failure.
LEMMA FailureEventsType ==
  ASSUME TypeOK, InvEvents, NEW j \in Job, Sound(j)
  PROVE  /\ FailureEvents(j) \in Seq(Event)
         /\ \A k \in 1 .. Len(FailureEvents(j)) : Answers(FailureEvents(j)[k])
<1> DEFINE error == [kind |-> "error", station |-> j.station, request |-> 0]
           result == [kind |-> "result", station |-> j.station,
                      request |-> j.request]
<1>1. error \in Event /\ result \in Event /\ Answers(error)
  BY DEF Event, EventKinds, Job, Answers
<1>2. j.kind = "command" => Answers(result)
  BY DEF Sound, Answers
<1>3. FailureEvents(j) = IF j.kind = "command" THEN <<result, error>>
                         ELSE IF j.kind = "unregister" THEN <<>> ELSE <<error>>
  BY DEF FailureEvents
<1>. HIDE DEF error, result
<1>. QED
  BY <1>1, <1>2, <1>3

\* What a worker does.
LEMMA WorkerTypeOK ==
  ASSUME TypeOK, InvJobs, InvWorkers, InvEvents, NEW w \in Workers, Worker(w)
  PROVE  TypeOK'
<1> USE DEF mainVars, workerVars, pollerVars, pushVars, serverVars, poolVars,
            idVars
<1>0. pc \in [Workers -> WorkerPoints] /\ job \in [Workers -> Job] /\ job[w] \in Job
  BY DEF TypeOK
<1>1. CASE TakeJob(w)
  <2>1. pc' \in [Workers -> WorkerPoints] /\ job' \in [Workers -> Job]
    BY <1>0, <1>1, TakeJobType DEF TakeJob, WorkerPoints, RegisterPoints
  <2>. QED
    BY <1>1, <2>1, TakeJobType DEF TakeJob, TypeOK
<1>2. CASE WorkerLeaves(w)
  <2>1. pc' \in [Workers -> WorkerPoints]
    BY <1>0, <1>2 DEF WorkerLeaves, WorkerPoints
  <2>. QED
    BY <1>2, <2>1 DEF WorkerLeaves, TypeOK
<1>3. CASE ServerPerforms(w)
  <2>1. pc' \in [Workers -> WorkerPoints]
    BY <1>0, <1>3 DEF ServerPerforms, WorkerPoints
  <2>2. Sound(job[w])
    BY <1>3 DEF ServerPerforms, InvWorkers, Busy
  <2>3. served' \subseteq 1 .. nextRequest /\ gone' \subseteq Ids
    BY <1>3, <2>2 DEF ServerPerforms, Performed, Sound, TypeOK
  <2>. QED
    BY <1>3, <2>1, <2>3 DEF ServerPerforms, TypeOK
<1>4. CASE CallSucceeds(w)
  <2>1. Sound(job[w]) /\ job[w].kind # "register"
    BY <1>4 DEF CallSucceeds, InvWorkers, Busy, RegisterPoints
  <2>2. dispatch' \in Seq(Event)
    <3>1. CASE job[w].kind = "unregister"
      BY <1>4, <3>1 DEF CallSucceeds, TypeOK
    <3>2. CASE job[w].kind = "command"
      <4>1. Push("result", job[w].station, job[w].request)
        BY <1>4, <3>2 DEF CallSucceeds, EventOf
      <4>. QED
        BY <1>0, <2>1, <3>2, <4>1, PushProperties
           DEF Job, EventKinds, Sound
    <3>3. CASE job[w].kind \in {"status", "list", "info"}
      <4>1. /\ Push(EventOf[job[w].kind], job[w].station, 0)
            /\ EventOf[job[w].kind] \in EventKinds \ {"result"}
        BY <1>4, <3>3 DEF CallSucceeds, EventOf, EventKinds
      <4>. QED
        BY <1>0, <4>1, PushProperties DEF Job
    <3>. QED
      BY <1>0, <2>1, <3>1, <3>2, <3>3 DEF Job, JobKinds
  <2>. QED
    BY <1>4, <2>2, ReturnsType DEF CallSucceeds, TypeOK
<1>5. CASE CallFails(w)
  <2>1. Sound(job[w])
    BY <1>5 DEF CallFails, InvWorkers, Busy
  <2>2. dispatch' \in Seq(Event)
    BY <1>0, <1>5, <2>1, FailureEventsType DEF CallFails, TypeOK
  <2>3. late' \subseteq Job
    BY <1>0, <1>5 DEF CallFails, MayArriveLate, TypeOK
  <2>. QED
    BY <1>5, <2>2, <2>3, ReturnsType DEF CallFails, TypeOK
<1>6. CASE RegisterChecks(w)
  <2>1. pc' \in [Workers -> WorkerPoints] /\ job' \in [Workers -> Job]
    BY <1>0, <1>6, ReturnsType DEF RegisterChecks, WorkerPoints, RegisterPoints
  <2>. QED
    BY <1>6, <2>1 DEF RegisterChecks, TypeOK
<1>7. CASE RegisterEnds(w)
  <2>1. PICK kind \in {"registered", "error"} : Push(kind, job[w].station, 0)
    BY <1>7 DEF RegisterEnds
  <2>2. kind \in EventKinds /\ kind # "result" /\ job[w].station \in Ids \cup {NoStation}
    BY <1>0 DEF EventKinds, Job
  <2>3. dispatch' \in Seq(Event)
    BY <2>1, <2>2, PushProperties
  <2>. QED
    BY <1>7, <2>3, ReturnsType DEF RegisterEnds, TypeOK
<1>8. CASE RegisterFails(w)
  <2>1. pc' \in [Workers -> WorkerPoints]
    BY <1>0, <1>8 DEF RegisterFails, WorkerPoints, RegisterPoints
  <2>. QED
    BY <1>8, <2>1 DEF RegisterFails, TypeOK
<1>9. CASE RegisterBackoffEnds(w)
  <2>1. pc' \in [Workers -> WorkerPoints]
    BY <1>0, <1>9 DEF RegisterBackoffEnds, WorkerPoints, RegisterPoints
  <2>. QED
    BY <1>9, <2>1 DEF RegisterBackoffEnds, TypeOK
<1>10. CASE Repeats(w)
  <2>1. pc' \in [Workers -> WorkerPoints]
    BY <1>0, <1>10 DEF Repeats, WorkerPoints
  <2>2. late' \subseteq Job
    BY <1>0, <1>10 DEF Repeats, MayArriveLate, TypeOK
  <2>. QED
    BY <1>10, <2>1, <2>2 DEF Repeats, TypeOK
<1>. QED
  BY <1>1, <1>2, <1>3, <1>4, <1>5, <1>6, <1>7, <1>8, <1>9, <1>10 DEF Worker

\* The requests nobody waits for.
LEMMA LateTypeOK ==
  ASSUME TypeOK, InvLate, NEW j \in late, LateArrives(j)
  PROVE  TypeOK'
<1>1. served' \subseteq 1 .. nextRequest /\ gone' \subseteq Ids
  BY DEF LateArrives, Performed, InvLate, TypeOK
<1>2. late' \subseteq Job
  BY DEF LateArrives, TypeOK
<1>. QED
  BY <1>1, <1>2
     DEF LateArrives, TypeOK, mainVars, idVars, workerVars, pollerVars,
         pushVars, poolVars

\* The stream threads and the poller.
LEMMA RefresherTypeOK ==
  ASSUME TypeOK, InvEvents, (\E i \in Ids : Stream(i)) \/ Poller
  PROVE  TypeOK'
<1> USE DEF mainVars, workerVars, pollerVars, pushVars, serverVars, poolVars,
            idVars
<1>0. 1 \in Nat /\ nextRequest \in Nat
  BY DEF TypeOK
<1>1. ASSUME NEW i \in Ids, StreamFinds(i) PROVE TypeOK'
  <2>1. dispatch' \in Seq(Event)
    BY <1>1, PushProperties DEF StreamFinds, EventKinds
  <2>2. claimed' \in 0 .. MaxJobs
    BY <1>0, <1>1, ClaimType DEF StreamFinds
  <2>. QED
    BY <1>1, <2>1, <2>2 DEF StreamFinds, TypeOK
<1>2. ASSUME NEW i \in Ids, StreamEnqueues(i) PROVE TypeOK'
  <2>1. jobs' \in Seq(Job)
    BY <1>0, <1>2, NewJobType, EnqueueProperties, NatStep
       DEF StreamEnqueues, TypeOK, JobKinds
  <2>. QED
    BY <1>0, <1>2, <2>1, NatStep DEF StreamEnqueues, TypeOK
<1>3. CASE PollerWakes
  <2>1. claimed' \in 0 .. MaxJobs
    BY <1>3, LiveIsFinite, ClaimType DEF PollerWakes
  <2>. QED
    BY <1>3, <2>1 DEF PollerWakes, TypeOK
<1>4. CASE PollerFinds
  BY <1>4 DEF PollerFinds, TypeOK
<1>5. CASE PollerEnqueues
  <2>1. jobs' \in Seq(Job)
    BY <1>0, <1>5, NewJobType, EnqueueProperties, NatStep
       DEF PollerEnqueues, TypeOK, JobKinds
  <2>. QED
    BY <1>0, <1>5, <2>1, NatStep DEF PollerEnqueues, TypeOK
<1>6. CASE PollerRests
  BY <1>6 DEF PollerRests, TypeOK
<1>7. CASE PollerLeaves
  BY <1>7 DEF PollerLeaves, TypeOK
<1>. QED
  BY <1>1, <1>2, <1>3, <1>4, <1>5, <1>6, <1>7 DEF Stream, Poller

\* ProcessTick.
LEMMA TickTypeOK ==
  ASSUME TypeOK, InvEvents, Tick \/ Deliver
  PROVE  TypeOK'
<1> USE DEF mainVars, workerVars, pollerVars, pushVars, serverVars, poolVars,
            idVars
<1>1. CASE Tick
  BY <1>1 DEF Tick, TypeOK
<1>2. CASE Deliver
  <2>1. events' \in Seq(Event) /\ Answers(Head(events))
    BY <1>2 DEF Deliver, InvEvents, TypeOK
  <2>2. heard' \subseteq 1 .. nextRequest
    BY <1>2, <2>1 DEF Deliver, Concludes, Answers, TypeOK
  <2>. QED
    BY <1>2, <2>1, <2>2 DEF Deliver, TypeOK
<1>. QED
  BY <1>1, <1>2

\* Every step keeps the types.
LEMMA NextTypeOK ==
  ASSUME PipelineInv, [Next]_vars
  PROVE  TypeOK'
<1>1. CASE Next
  <2>1. /\ 0 \in Ids
        /\ TypeOK /\ InvJobs /\ InvWorkers /\ InvEvents /\ InvLate
    BY BoundsAssumption DEF PipelineInv, Ids, BoundsAssumption
  <2>. QED
    BY <1>1, <2>1, NativeTypeOK, MainThreadTypeOK, WorkerTypeOK,
       LateTypeOK, RefresherTypeOK, TickTypeOK
       DEF Next, Main
<1>2. CASE UNCHANGED vars
  BY <1>2 DEF PipelineInv, TypeOK, vars, mainVars, idVars, workerVars,
              pollerVars, pushVars, serverVars, poolVars
<1>. QED
  BY <1>1, <1>2

-----------------------------------------------------------------------------
(* The queue                                                                 *)

\* Only StartPool changes the pool, and it finds no command in the queue.
LEMMA StartPoolKeepsInvJobs ==
  ASSUME TypeOK, InvJobs, StartPool, UNCHANGED nextRequest,
         \A k \in 1 .. Len(jobs) : jobs[k].kind # "command"
  PROVE  InvJobs'
<1>0. Len(jobs) \in Nat
  BY DEF TypeOK
<1>1. /\ Len(jobs') = Len(jobs) + 1
      /\ \A k \in 1 .. Len(jobs) : jobs'[k] = jobs[k]
      /\ jobs'[Len(jobs) + 1].kind = "info"
  BY StartPoolType
<1>2. ASSUME NEW k \in 1 .. Len(jobs') PROVE Sound(jobs[k])'
  <2>1. CASE k \in 1 .. Len(jobs)
    BY <1>1, <2>1 DEF InvJobs, Sound
  <2>2. CASE k = Len(jobs) + 1
    BY <1>1, <2>2 DEF Sound
  <2>. QED
    BY <1>0, <1>1, <2>1, <2>2
<1>. QED
  BY <1>2 DEF InvJobs

LEMMA NextInvJobs ==
  ASSUME PipelineInv, [Next]_vars
  PROVE  InvJobs'
<1> USE DEF mainVars, workerVars, pollerVars, pushVars, serverVars, poolVars,
            idVars
<1>0. /\ TypeOK /\ InvJobs /\ InvMain
      /\ nextRequest \in Nat /\ nextRequest + 1 \in 1 .. (nextRequest + 1)
      /\ nextRequest + 1 \in Nat
  BY DEF PipelineInv, TypeOK
<1>1. ASSUME UNCHANGED <<jobs, pool, nextRequest>> PROVE InvJobs'
  BY <1>0, <1>1 DEF InvJobs, Sound
<1>2. ASSUME NEW i \in Ids, EnqueueCommand(i) PROVE InvJobs'
  BY <1>0, <1>2, EnqueueKeepsInvJobs DEF EnqueueCommand, JobKinds
<1>3. ASSUME NEW i \in Ids, RefreshStatus(i) PROVE InvJobs'
  BY <1>0, <1>3, EnqueueKeepsInvJobs DEF RefreshStatus, JobKinds
<1>4. CASE RequestStationList
  <2>1. /\ "list" \in JobKinds /\ NoStation \in Ids \cup {NoStation}
        /\ "list" # "command" /\ "list" # "unregister"
    BY DEF JobKinds
  <2>2. /\ nextRequest' = nextRequest + 1 /\ pool' = pool
        /\ Enqueue(NewJob("list", NoStation, nextRequest + 1))
    BY <1>4 DEF RequestStationList
  <2>. QED
    BY <1>0, <2>1, <2>2, EnqueueKeepsInvJobs
<1>5. ASSUME NEW i \in Ids, UpdateStation(i) PROVE InvJobs'
  BY <1>0, <1>5, EnqueueKeepsInvJobs DEF UpdateStation, JobKinds
<1>6. CASE StreamThreadJoined
  <2>1. PICK i \in Ids : Enqueue(NewJob("unregister", i, 0))
    BY <1>0, <1>6 DEF StreamThreadJoined, TypeOK
  <2>2. "unregister" \in JobKinds /\ 0 \in Nat
    BY DEF JobKinds
  <2>. QED
    BY <1>0, <1>6, <2>1, <2>2, EnqueueKeepsInvJobs DEF StreamThreadJoined
<1>7. CASE Configure
  <2>1. CASE running
    BY <1>1, <1>7, <2>1 DEF Configure
  <2>2. CASE ~running
    BY <1>0, <1>7, <2>2, StartPoolKeepsInvJobs DEF Configure, InvMain
  <2>. QED
    BY <2>1, <2>2
<1>8. CASE PoolJoined
  <2>1. CASE thenStart
    BY <1>0, <1>8, <2>1, StartPoolKeepsInvJobs DEF PoolJoined, InvMain
  <2>2. CASE ~thenStart
    BY <1>1, <1>8, <2>2 DEF PoolJoined
  <2>. QED
    BY <2>1, <2>2
<1>9. CASE ClearJobs
  <2>1. Len(jobs') = 0
    BY <1>9 DEF ClearJobs, JobsCleared
  <2>. QED
    BY <2>1 DEF InvJobs
<1>10. ASSUME NEW w \in Workers, TakeJob(w) PROVE InvJobs'
  BY <1>0, <1>10, TakeJobType DEF TakeJob, InvJobs, Sound, TypeOK
<1>11. ASSUME NEW i \in Ids, StreamEnqueues(i) PROVE InvJobs'
  BY <1>0, <1>11, EnqueueKeepsInvJobs DEF StreamEnqueues, JobKinds
<1>12. CASE PollerEnqueues
  BY <1>0, <1>12, EnqueueKeepsInvJobs DEF PollerEnqueues, JobKinds, TypeOK
<1>13. ASSUME NEW i \in Ids,
              \/ CreateStation \/ DestroyStation(i) \/ Shutdown
              \/ StreamThreadsJoined \/ Tick \/ Deliver
              \/ StreamFinds(i)
       PROVE  InvJobs'
  BY <1>1, <1>13
     DEF CreateStation, DestroyStation, Shutdown, StreamThreadsJoined, Tick,
         Deliver, StreamFinds
<1>14. ASSUME PollerWakes \/ PollerFinds \/ PollerRests \/ PollerLeaves
       PROVE  InvJobs'
  BY <1>1, <1>14 DEF PollerWakes, PollerFinds, PollerRests, PollerLeaves
<1>15. ASSUME NEW w \in Workers,
              \/ WorkerLeaves(w) \/ ServerPerforms(w) \/ Repeats(w)
              \/ CallSucceeds(w) \/ CallFails(w) \/ RegisterChecks(w)
              \/ RegisterEnds(w) \/ RegisterFails(w) \/ RegisterBackoffEnds(w)
       PROVE  InvJobs'
  BY <1>1, <1>15
     DEF WorkerLeaves, ServerPerforms, Repeats, CallSucceeds, CallFails,
         RegisterChecks, RegisterEnds, RegisterFails, RegisterBackoffEnds
<1>16. CASE UNCHANGED vars
  BY <1>1, <1>16 DEF vars
<1>17. 0 \in Ids
  BY BoundsAssumption DEF Ids, BoundsAssumption
<1>18. ASSUME NEW j \in late, LateArrives(j) PROVE InvJobs'
  BY <1>1, <1>18 DEF LateArrives
<1>. QED
  BY <1>2, <1>3, <1>4, <1>5, <1>6, <1>7, <1>8, <1>9, <1>10, <1>11, <1>12,
     <1>13, <1>14, <1>15, <1>16, <1>17, <1>18
     DEF Next, Main, Worker, Stream, Poller

-----------------------------------------------------------------------------
(* The workers                                                               *)

LEMMA NextInvWorkers ==
  ASSUME PipelineInv, [Next]_vars
  PROVE  InvWorkers'
<1> USE DEF mainVars, workerVars, pollerVars, pushVars, serverVars, poolVars,
            idVars
<1>0. /\ TypeOK /\ InvJobs /\ InvWorkers /\ nextRequest \in Nat
      /\ pc \in [Workers -> WorkerPoints] /\ job \in [Workers -> Job]
  BY DEF PipelineInv, TypeOK
<1>1. ASSUME UNCHANGED <<pc, job, pool>>,
             nextRequest' \in {nextRequest, nextRequest + 1}
      PROVE  InvWorkers'
  <2>1. 1 .. nextRequest \subseteq 1 .. nextRequest'
    BY <1>0, <1>1
  <2>. QED
    BY <1>0, <1>1, <2>1 DEF InvWorkers, Busy, Sound
<1>2. ASSUME \A w \in Workers : pc'[w] = "idle" PROVE InvWorkers'
  BY <1>2 DEF InvWorkers, Busy
<1>3. CASE Configure
  BY <1>1, <1>2, <1>3, StartPoolType, <1>0 DEF Configure
<1>4. CASE PoolJoined
  BY <1>1, <1>2, <1>4, StartPoolType, <1>0 DEF PoolJoined
<1>5. ASSUME NEW w \in Workers, TakeJob(w) PROVE InvWorkers'
  <2>0. Len(jobs) > 0 /\ Head(jobs) = jobs[1] /\ Len(jobs) \in Nat
    BY <1>0, <1>5, TakeJobType DEF TypeOK
  <2>1. Sound(jobs[1])
    BY <1>0, <2>0 DEF InvJobs
  <2>2. UNCHANGED <<pool, nextRequest>>
    BY <1>5 DEF TakeJob
  <2>3. CASE UNCHANGED <<pc, job>>
    BY <1>1, <2>2, <2>3
  <2>4. CASE /\ job' = [job EXCEPT ![w] = jobs[1]]
             /\ pc' = [pc EXCEPT ![w] = IF jobs[1].kind = "register"
                                        THEN "register" ELSE "calling"]
    <3>1. ASSUME NEW v \in Workers, Busy(v)'
          PROVE  /\ Sound(job[v])'
                 /\ pc'[v] \notin RegisterPoints => job'[v].kind # "register"
      <4>1. CASE v = w
        <5>1. job'[v] = jobs[1]
          BY <1>0, <2>4, <4>1
        <5>2. pc'[v] \notin RegisterPoints => jobs[1].kind # "register"
          BY <1>0, <2>4, <4>1 DEF RegisterPoints
        <5>. QED
          BY <2>1, <2>2, <5>1, <5>2 DEF Sound
      <4>2. CASE v # w
        BY <1>0, <2>2, <2>4, <3>1, <4>2 DEF InvWorkers, Busy, Sound
      <4>. QED
        BY <4>1, <4>2
    <3>. QED
      BY <3>1 DEF InvWorkers
  <2>. QED
    BY <1>5, <2>0, <2>3, <2>4 DEF TakeJob
<1>6. ASSUME NEW w \in Workers, Returns(w), UNCHANGED <<pool, nextRequest>>
      PROVE  InvWorkers'
  BY <1>0, <1>6 DEF Returns, InvWorkers, Busy, Sound, RegisterPoints
<1>7. ASSUME NEW w \in Workers,
             WorkerLeaves(w) \/ ServerPerforms(w) \/ Repeats(w)
      PROVE  InvWorkers'
  BY <1>0, <1>7
     DEF WorkerLeaves, ServerPerforms, Repeats, InvWorkers, Busy, Sound,
         RegisterPoints
<1>8. ASSUME NEW w \in Workers,
             \/ CallSucceeds(w) \/ CallFails(w) \/ RegisterEnds(w)
      PROVE  InvWorkers'
  BY <1>6, <1>8 DEF CallSucceeds, CallFails, RegisterEnds
<1>9. ASSUME NEW w \in Workers,
             \/ RegisterChecks(w) \/ RegisterFails(w)
             \/ RegisterBackoffEnds(w)
      PROVE  InvWorkers'
  BY <1>0, <1>6, <1>9
     DEF RegisterChecks, RegisterFails, RegisterBackoffEnds, InvWorkers, Busy,
         Sound, RegisterPoints
<1>10. ASSUME NEW i \in Ids,
              \/ CreateStation \/ EnqueueCommand(i) \/ RefreshStatus(i)
              \/ RequestStationList \/ UpdateStation(i) \/ DestroyStation(i)
       PROVE  InvWorkers'
  BY <1>1, <1>10
     DEF CreateStation, EnqueueCommand, RefreshStatus, RequestStationList,
         UpdateStation, DestroyStation
<1>11. ASSUME \/ Shutdown \/ StreamThreadJoined \/ StreamThreadsJoined
              \/ ClearJobs \/ Tick \/ Deliver
       PROVE  InvWorkers'
  BY <1>1, <1>11
     DEF Shutdown, StreamThreadJoined, StreamThreadsJoined, ClearJobs, Tick,
         Deliver
<1>12. ASSUME NEW i \in Ids, StreamFinds(i) \/ StreamEnqueues(i)
       PROVE  InvWorkers'
  BY <1>1, <1>12 DEF StreamFinds, StreamEnqueues
<1>13. CASE Poller
  BY <1>1, <1>13
     DEF Poller, PollerWakes, PollerFinds, PollerEnqueues, PollerRests,
         PollerLeaves
<1>14. CASE UNCHANGED vars
  BY <1>1, <1>14 DEF vars
<1>15. 0 \in Ids
  BY BoundsAssumption DEF Ids, BoundsAssumption
<1>16. ASSUME NEW j \in late, LateArrives(j) PROVE InvWorkers'
  BY <1>1, <1>16 DEF LateArrives
<1>. QED
  BY <1>3, <1>4, <1>5, <1>7, <1>8, <1>9, <1>10, <1>11, <1>12, <1>13, <1>14,
     <1>15, <1>16
     DEF Next, Main, Worker, Stream

-----------------------------------------------------------------------------
(* The events                                                                *)

LEMMA NextInvEvents ==
  ASSUME PipelineInv, [Next]_vars
  PROVE  InvEvents'
<1> USE DEF mainVars, workerVars, pollerVars, pushVars, serverVars, poolVars,
            idVars
<1>0. /\ TypeOK /\ InvWorkers /\ InvEvents /\ nextRequest \in Nat
      /\ dispatch \in Seq(Event) /\ events \in Seq(Event)
      /\ \A w \in Workers : job[w] \in Job
  BY DEF PipelineInv, TypeOK
<1>1. ASSUME UNCHANGED <<dispatch, events>>,
             nextRequest' \in {nextRequest, nextRequest + 1}
      PROVE  InvEvents'
  <2>1. 1 .. nextRequest \subseteq 1 .. nextRequest'
    BY <1>0, <1>1
  <2>. QED
    BY <1>0, <1>1, <2>1 DEF InvEvents, Answers
<1>2. ASSUME \A k \in 1 .. Len(dispatch') : Answers(dispatch'[k]),
             UNCHANGED <<events, nextRequest>>
      PROVE  InvEvents'
  BY <1>0, <1>2 DEF InvEvents, Answers
<1>3. ASSUME NEW w \in Workers, CallSucceeds(w) PROVE InvEvents'
  <2>1. Sound(job[w]) /\ job[w].kind # "register" /\ job[w] \in Job
    BY <1>0, <1>3 DEF CallSucceeds, InvWorkers, Busy, RegisterPoints
  <2>2. CASE job[w].kind = "unregister"
    BY <1>1, <1>3, <2>2 DEF CallSucceeds
  <2>3. CASE job[w].kind = "command"
    <3>1. Push("result", job[w].station, job[w].request)
      BY <1>3, <2>3 DEF CallSucceeds, EventOf
    <3>2. /\ "result" \in EventKinds /\ job[w].station \in Ids \cup {NoStation}
          /\ job[w].request \in Nat /\ job[w].request \in 1 .. nextRequest
      BY <2>1, <2>3 DEF EventKinds, Job, Sound
    <3>. QED
      BY <1>0, <1>2, <1>3, <3>1, <3>2, PushProperties DEF CallSucceeds
  <2>4. CASE job[w].kind \in {"status", "list", "info"}
    <3>1. /\ Push(EventOf[job[w].kind], job[w].station, 0)
          /\ EventOf[job[w].kind] \in EventKinds
          /\ EventOf[job[w].kind] # "result"
          /\ job[w].station \in Ids \cup {NoStation}
      BY <1>3, <2>1, <2>4 DEF CallSucceeds, EventOf, EventKinds, Job
    <3>. QED
      BY <1>0, <1>2, <1>3, <3>1, PushProperties DEF CallSucceeds
  <2>. QED
    BY <2>1, <2>2, <2>3, <2>4 DEF Job, JobKinds
<1>4. ASSUME NEW w \in Workers, CallFails(w) PROVE InvEvents'
  <2>1. Sound(job[w]) /\ job[w] \in Job
    BY <1>0, <1>4 DEF CallFails, InvWorkers, Busy
  <2>2. /\ FailureEvents(job[w]) \in Seq(Event)
        /\ \A k \in 1 .. Len(FailureEvents(job[w])) :
             Answers(FailureEvents(job[w])[k])
    BY <1>0, <2>1, FailureEventsType
  <2>3. dispatch' = dispatch \o FailureEvents(job[w])
    BY <1>4 DEF CallFails
  <2>4. \A k \in 1 .. Len(dispatch') : Answers(dispatch'[k])
    BY <1>0, <2>2, <2>3 DEF InvEvents
  <2>. QED
    BY <1>2, <1>4, <2>4 DEF CallFails
<1>5. ASSUME NEW w \in Workers, RegisterEnds(w) PROVE InvEvents'
  <2>1. PICK kind \in {"registered", "error"} : Push(kind, job[w].station, 0)
    BY <1>5 DEF RegisterEnds
  <2>2. /\ kind \in EventKinds /\ kind # "result"
        /\ job[w].station \in Ids \cup {NoStation}
    BY <1>0 DEF EventKinds, Job
  <2>3. \A k \in 1 .. Len(dispatch') : Answers(dispatch'[k])
    BY <1>0, <2>1, <2>2, PushProperties
  <2>. QED
    BY <1>2, <1>5, <2>3 DEF RegisterEnds
<1>6. ASSUME NEW i \in Ids, StreamFinds(i) PROVE InvEvents'
  <2>1. \A k \in 1 .. Len(dispatch') : Answers(dispatch'[k])
    BY <1>0, <1>6, PushProperties DEF StreamFinds, EventKinds
  <2>. QED
    BY <1>2, <1>6, <2>1 DEF StreamFinds
<1>7. CASE Tick
  BY <1>0, <1>7 DEF Tick, InvEvents, Answers
<1>8. CASE Deliver
  BY <1>0, <1>8 DEF Deliver, InvEvents, Answers
<1>9. ASSUME NEW w \in Workers,
             \/ TakeJob(w) \/ WorkerLeaves(w) \/ ServerPerforms(w)
             \/ Repeats(w) \/ RegisterChecks(w) \/ RegisterFails(w)
             \/ RegisterBackoffEnds(w)
      PROVE  InvEvents'
  BY <1>1, <1>9
     DEF TakeJob, WorkerLeaves, ServerPerforms, Repeats, RegisterChecks,
         RegisterFails, RegisterBackoffEnds
<1>10. ASSUME NEW i \in Ids,
              \/ CreateStation \/ EnqueueCommand(i) \/ RefreshStatus(i)
              \/ RequestStationList \/ UpdateStation(i) \/ DestroyStation(i)
              \/ StreamEnqueues(i)
       PROVE  InvEvents'
  BY <1>1, <1>10
     DEF CreateStation, EnqueueCommand, RefreshStatus, RequestStationList,
         UpdateStation, DestroyStation, StreamEnqueues
<1>11. ASSUME \/ Configure \/ Shutdown \/ StreamThreadJoined
              \/ StreamThreadsJoined \/ ClearJobs \/ PoolJoined
       PROVE  InvEvents'
  BY <1>1, <1>11
     DEF Configure, Shutdown, StreamThreadJoined, StreamThreadsJoined,
         ClearJobs, PoolJoined
<1>12. CASE Poller
  BY <1>1, <1>12
     DEF Poller, PollerWakes, PollerFinds, PollerEnqueues, PollerRests,
         PollerLeaves
<1>13. CASE UNCHANGED vars
  BY <1>1, <1>13 DEF vars
<1>14. 0 \in Ids
  BY BoundsAssumption DEF Ids, BoundsAssumption
<1>15. ASSUME NEW j \in late, LateArrives(j) PROVE InvEvents'
  BY <1>1, <1>15 DEF LateArrives
<1>. QED
  BY <1>3, <1>4, <1>5, <1>6, <1>7, <1>8, <1>9, <1>10, <1>11, <1>12, <1>13,
     <1>14, <1>15
     DEF Next, Main, Worker, Stream

-----------------------------------------------------------------------------
(* The main thread                                                           *)

NoCommandQueued == \A k \in 1 .. Len(jobs) : jobs[k].kind # "command"

\* A queue without commands stays one when another job is appended.
LEMMA EnqueueKeepsNoCommandQueued ==
  ASSUME TypeOK, NoCommandQueued, NEW kind \in JobKinds,
         NEW i \in Ids \cup {NoStation}, NEW r \in Nat,
         Enqueue(NewJob(kind, i, r)), kind # "command"
  PROVE  NoCommandQueued'
<1>1. NewJob(kind, i, r) \in Job /\ NewJob(kind, i, r).kind = kind
  BY NewJobType
<1>2. Len(jobs) \in Nat /\ jobs \in Seq(Job)
  BY DEF TypeOK
<1>3. /\ Len(jobs') = Len(jobs) + 1
      /\ \A k \in 1 .. Len(jobs) : jobs'[k] = jobs[k]
      /\ jobs'[Len(jobs) + 1] = NewJob(kind, i, r)
  BY <1>1, <1>2, EnqueueProperties
<1>. QED
  BY <1>1, <1>2, <1>3 DEF NoCommandQueued

LEMMA NextInvMain ==
  ASSUME PipelineInv, [Next]_vars
  PROVE  InvMain'
<1> USE DEF mainVars, workerVars, pollerVars, pushVars, serverVars, poolVars,
            idVars
<1>0. /\ TypeOK /\ InvMain /\ nextRequest + 1 \in Nat
      /\ configured \in BOOLEAN /\ running \in BOOLEAN
  BY DEF PipelineInv, TypeOK
<1>1. ASSUME UNCHANGED <<mainVars, live>>,
             NoCommandQueued => NoCommandQueued'
      PROVE  InvMain'
  BY <1>0, <1>1 DEF InvMain, NoCommandQueued
<1>2. ASSUME UNCHANGED jobs PROVE NoCommandQueued => NoCommandQueued'
  BY <1>2 DEF NoCommandQueued
<1>3. CASE CreateStation
  BY <1>0, <1>3 DEF CreateStation, ScriptRuns, InvMain
<1>4. ASSUME NEW i \in Ids, EnqueueCommand(i) PROVE InvMain'
  BY <1>0, <1>4 DEF EnqueueCommand, ScriptRuns, InvMain
<1>5. ASSUME NEW i \in Ids, RefreshStatus(i) PROVE InvMain'
  BY <1>0, <1>5 DEF RefreshStatus, ScriptRuns, InvMain
<1>6. CASE RequestStationList
  BY <1>0, <1>6 DEF RequestStationList, ScriptRuns, InvMain
<1>7. ASSUME NEW i \in Ids, UpdateStation(i) PROVE InvMain'
  BY <1>0, <1>7 DEF UpdateStation, ScriptRuns, InvMain
<1>8. ASSUME NEW i \in Ids, DestroyStation(i) PROVE InvMain'
  BY <1>0, <1>8 DEF DestroyStation, ScriptRuns, InvMain
<1>9. CASE StreamThreadJoined
  BY <1>0, <1>9 DEF StreamThreadJoined, InvMain
<1>10. CASE Configure
  <2>1. CASE running
    BY <1>10, <2>1 DEF Configure, InvMain
  <2>2. CASE ~running
    BY <1>0, <1>10, <2>2, StartPoolType DEF Configure, InvMain
  <2>. QED
    BY <2>1, <2>2
<1>11. CASE Shutdown
  BY <1>11 DEF Shutdown, InvMain
<1>12. CASE StreamThreadsJoined
  BY <1>12 DEF StreamThreadsJoined, InvMain
<1>13. CASE ClearJobs
  <2>1. Len(jobs') = 0 /\ mainAt' = "joining"
    BY <1>13 DEF ClearJobs, JobsCleared
  <2>. QED
    BY <2>1 DEF InvMain
<1>14. CASE PoolJoined
  <2>1. CASE thenStart
    BY <1>0, <1>14, <2>1, StartPoolType DEF PoolJoined, InvMain
  <2>2. CASE ~thenStart
    BY <1>14, <2>2 DEF PoolJoined, InvMain
  <2>. QED
    BY <2>1, <2>2
<1>15. CASE Tick \/ Deliver
  BY <1>1, <1>2, <1>15 DEF Tick, Deliver
<1>16. ASSUME NEW w \in Workers, TakeJob(w) PROVE InvMain'
  <2>1. NoCommandQueued => NoCommandQueued'
    <3>1. /\ Len(jobs) \in Nat /\ Len(jobs') = Len(jobs) - 1
          /\ \A k \in 1 .. Len(jobs') : jobs'[k] = jobs[k + 1]
      BY <1>0, <1>16, TakeJobType DEF TypeOK
    <3>. QED
      BY <3>1 DEF NoCommandQueued
  <2>. QED
    BY <1>1, <1>16, <2>1 DEF TakeJob
<1>17. ASSUME NEW w \in Workers, Worker(w), ~TakeJob(w) PROVE InvMain'
  BY <1>1, <1>2, <1>17
     DEF Worker, WorkerLeaves, ServerPerforms, Repeats, CallSucceeds,
         CallFails, RegisterChecks, RegisterEnds, RegisterFails,
         RegisterBackoffEnds
<1>18. ASSUME NEW i \in Ids, StreamFinds(i) PROVE InvMain'
  BY <1>1, <1>2, <1>18 DEF StreamFinds
<1>19. ASSUME NEW i \in Ids, StreamEnqueues(i) PROVE InvMain'
  <2>1. NoCommandQueued => NoCommandQueued'
    BY <1>0, <1>19, EnqueueKeepsNoCommandQueued DEF StreamEnqueues, JobKinds
  <2>. QED
    BY <1>1, <1>19, <2>1 DEF StreamEnqueues
<1>20. CASE PollerEnqueues
  <2>1. NoCommandQueued => NoCommandQueued'
    BY <1>0, <1>20, EnqueueKeepsNoCommandQueued
       DEF PollerEnqueues, JobKinds, TypeOK
  <2>. QED
    BY <1>1, <1>20, <2>1 DEF PollerEnqueues
<1>21. ASSUME PollerWakes \/ PollerFinds \/ PollerRests \/ PollerLeaves
       PROVE  InvMain'
  BY <1>1, <1>2, <1>21 DEF PollerWakes, PollerFinds, PollerRests, PollerLeaves
<1>22. CASE UNCHANGED vars
  BY <1>1, <1>2, <1>22 DEF vars
<1>23. ASSUME NEW j \in late, LateArrives(j) PROVE InvMain'
  BY <1>1, <1>2, <1>23 DEF LateArrives
<1>. QED
  BY <1>3, <1>4, <1>5, <1>6, <1>7, <1>8, <1>9, <1>10, <1>11, <1>12, <1>13,
     <1>14, <1>15, <1>16, <1>17, <1>18, <1>19, <1>20, <1>21, <1>22, <1>23
     DEF Next, Main, Stream, Poller

-----------------------------------------------------------------------------
(* The requests nobody waits for                                             *)

\* Ids grow, and nothing else becomes late.
LEMMA SameLate ==
  ASSUME TypeOK, InvLate, late' \subseteq late,
         nextRequest' \in {nextRequest, nextRequest + 1}
  PROVE  InvLate'
<1>1. 1 .. nextRequest \subseteq 1 .. nextRequest'
  BY DEF TypeOK
<1>. QED
  BY <1>1 DEF InvLate

LEMMA NextInvLate ==
  ASSUME PipelineInv, [Next]_vars
  PROVE  InvLate'
<1> USE DEF mainVars, workerVars, pollerVars, pushVars, serverVars, poolVars,
            idVars
<1>0. TypeOK /\ InvLate /\ InvWorkers
  BY DEF PipelineInv
<1>1. ASSUME UNCHANGED late, nextRequest' \in {nextRequest, nextRequest + 1}
      PROVE  InvLate'
  BY <1>0, <1>1, SameLate
<1>2. ASSUME NEW w \in Workers, CallFails(w) \/ Repeats(w) PROVE InvLate'
  <2>1. Sound(job[w])
    BY <1>0, <1>2 DEF InvWorkers, CallFails, Repeats, Busy
  <2>2. UNCHANGED nextRequest
    BY <1>2 DEF CallFails, Repeats
  <2>3. late' \subseteq late \cup {job[w]}
    BY <1>2 DEF CallFails, Repeats, MayArriveLate
  <2>. QED
    BY <1>0, <2>1, <2>2, <2>3 DEF InvLate, Sound
<1>3. ASSUME NEW j \in late, LateArrives(j) PROVE InvLate'
  BY <1>0, <1>3, SameLate DEF LateArrives
<1>4. ASSUME NEW w \in Workers, Worker(w), ~CallFails(w), ~Repeats(w)
      PROVE  InvLate'
  BY <1>1, <1>4
     DEF Worker, TakeJob, WorkerLeaves, ServerPerforms, CallSucceeds,
         RegisterChecks, RegisterEnds, RegisterFails, RegisterBackoffEnds
<1>5. ASSUME NEW i \in Ids,
             \/ CreateStation \/ EnqueueCommand(i) \/ RefreshStatus(i)
             \/ RequestStationList \/ UpdateStation(i) \/ DestroyStation(i)
             \/ Stream(i)
      PROVE  InvLate'
  BY <1>1, <1>5
     DEF CreateStation, EnqueueCommand, RefreshStatus, RequestStationList,
         UpdateStation, DestroyStation, Stream, StreamFinds, StreamEnqueues
<1>6. ASSUME \/ Configure \/ Shutdown \/ StreamThreadJoined
             \/ StreamThreadsJoined \/ ClearJobs \/ PoolJoined
             \/ Tick \/ Deliver \/ Poller \/ UNCHANGED vars
      PROVE  InvLate'
  BY <1>1, <1>6
     DEF Configure, Shutdown, StreamThreadJoined, StreamThreadsJoined,
         ClearJobs, PoolJoined, Tick, Deliver, Poller, PollerWakes,
         PollerFinds, PollerEnqueues, PollerRests, PollerLeaves, vars
<1>7. 0 \in Ids
  BY BoundsAssumption DEF Ids, BoundsAssumption
<1>. QED
  BY <1>2, <1>3, <1>4, <1>5, <1>6, <1>7 DEF Next, Main

-----------------------------------------------------------------------------
(* The theorems                                                              *)

LEMMA PipelineInvariant == Spec => []PipelineInv
<1>1. PipelineInv /\ [Next]_vars => PipelineInv'
  BY NextTypeOK, NextInvJobs, NextInvWorkers, NextInvEvents, NextInvMain,
     NextInvLate
     DEF PipelineInv
<1>. QED
  BY <1>1, InitPipelineInv, PTL DEF Spec

\* The pipeline is type correct: every command performed, heard of or given up
\* is one some native returned an id for, through every queue it passes.
THEOREM PipelineTypeCorrect == Spec => []TypeOK
<1>1. PipelineInv => TypeOK
  BY DEF PipelineInv
<1>. QED
  BY <1>1, PipelineInvariant, PTL

\* However many workers are draining the queue while StopWorkers retires the
\* pool, no command is carried out by a later pool than the one it was queued
\* for (WorkerLoop, StopWorkers, Configure).
THEOREM CommandsStayInTheirPool == Spec => []NoCommandOutlivesItsPool
<1>1. PipelineInv => NoCommandOutlivesItsPool
  <2> SUFFICES ASSUME PipelineInv PROVE NoCommandOutlivesItsPool
    OBVIOUS
  <2>1. jobs \in Seq(Job) /\ InvJobs /\ InvWorkers
    BY DEF PipelineInv, TypeOK
  <2>2. \A k \in DOMAIN jobs : jobs[k].kind = "command" => jobs[k].pool = pool
    BY <2>1 DEF InvJobs, Sound
  <2>3. \A w \in Workers :
          Busy(w) /\ job[w].kind = "command" => job[w].pool = pool
    BY <2>1 DEF InvWorkers, Sound
  <2>. QED
    BY <2>2, <2>3 DEF NoCommandOutlivesItsPool
<1>. QED
  BY <1>1, PipelineInvariant, PTL

-----------------------------------------------------------------------------
(* The order of jobs_ up to what the workers hold: the inductive invariant   *)

\* What holds of job b when job a is ahead of it.
Before(a, b) ==
  b.kind = "command" =>
    /\ a.kind = "command" => a.request < b.request
    /\ a.kind = "unregister" => a.station # b.station

\* The commands the audio server performed, or may perform though their callers
\* gave them up, ...
Past == served \cup {j.request : j \in {k \in late : k.kind = "command"}}

\* ... and the stations it unregistered, or may.
Removed == gone \cup {j.station : j \in {k \in late : k.kind = "unregister"}}

\* A command later than all those, and for none of those stations.
Ahead(b) ==
  b.kind = "command" =>
    b.station \notin Removed /\ \A q \in Past : q < b.request

\* A station that was created and has left stations_ for good.
Spent(i) == i \notin live /\ i < nextStation

\* The jobs in the queue.
InvQueue ==
  /\ \A k, l \in 1 .. Len(jobs) : k < l => Before(jobs[k], jobs[l])
  /\ \A k \in 1 .. Len(jobs) : Ahead(jobs[k])
  /\ \A k \in 1 .. Len(jobs) :
       jobs[k].kind = "unregister" => Spent(jobs[k].station)

\* The job worker w has in hand.
InvHand(w) ==
  Busy(w) =>
    /\ \A k \in 1 .. Len(jobs) : Before(job[w], jobs[k])
    /\ job[w].kind = "unregister" => Spent(job[w].station)

InvStations ==
  /\ \A i \in Removed \cup dying : Spent(i)
  /\ \A i \in live : i < nextStation

\* The worker that sent a request takes only later jobs afterwards.
InvSenders ==
  /\ \A q \in Past : \E w \in Workers : ~HoldsOlder(w, q)
  /\ \A i \in Removed : \E w \in Workers : ~HoldsCommandOf(w, i)

OrderInv ==
  InvQueue /\ (\A w \in Workers : InvHand(w)) /\ InvStations /\ InvSenders

-----------------------------------------------------------------------------
(* Steps that leave the order alone                                          *)

\* Worker w keeps the job it has, or is done with it.
KeepsHand(w) == Busy(w)' => Busy(w) /\ job'[w] = job[w]

KeepHands == \A w \in Workers : KeepsHand(w)

LEMMA KeptSenders ==
  ASSUME InvSenders, KeepHands, Past' \subseteq Past, Removed' \subseteq Removed
  PROVE  InvSenders'
<1>1. ASSUME NEW w \in Workers, NEW q, ~HoldsOlder(w, q)
      PROVE  ~(Busy(w)' /\ job'[w].kind = "command" /\ job'[w].request < q)
  BY <1>1 DEF KeepHands, KeepsHand, HoldsOlder
<1>2. ASSUME NEW w \in Workers, NEW i, ~HoldsCommandOf(w, i)
      PROVE  ~(Busy(w)' /\ job'[w].kind = "command" /\ job'[w].station = i)
  BY <1>2 DEF KeepHands, KeepsHand, HoldsCommandOf
<1>3. \A q \in Past' : \E w \in Workers :
        ~(Busy(w)' /\ job'[w].kind = "command" /\ job'[w].request < q)
  BY <1>1 DEF InvSenders
<1>4. \A i \in Removed' : \E w \in Workers :
        ~(Busy(w)' /\ job'[w].kind = "command" /\ job'[w].station = i)
  BY <1>2 DEF InvSenders
<1>. QED
  BY <1>3, <1>4 DEF InvSenders, HoldsOlder, HoldsCommandOf

LEMMA IdleStepKeepsOrder ==
  ASSUME OrderInv, KeepHands, UNCHANGED <<jobs, live, nextStation>>,
         Past' \subseteq Past, Removed' \subseteq Removed, dying' \subseteq dying
  PROVE  OrderInv'
<1>1. InvQueue'
  BY DEF OrderInv, InvQueue, Ahead, Spent
<1>2. ASSUME NEW w \in Workers PROVE InvHand(w)'
  BY DEF OrderInv, InvHand, KeepHands, KeepsHand, Spent
<1>3. InvStations'
  BY DEF OrderInv, InvStations, Spent
<1>4. InvSenders'
  BY KeptSenders DEF OrderInv
<1>. QED
  BY <1>1, <1>2, <1>3, <1>4 DEF OrderInv

\* The history alone says what reached the audio server.
LEMMA SamePast ==
  ASSUME UNCHANGED <<served, gone, late>>
  PROVE  Past' = Past /\ Removed' = Removed
BY DEF Past, Removed

\* A job goes to the end of the queue.
LEMMA EnqueueKeepsOrder ==
  ASSUME TypeOK, OrderInv, NEW j \in Job, Enqueue(j), KeepHands,
         UNCHANGED <<served, gone, late, live, nextStation>>,
         dying' \subseteq dying,
         \A k \in 1 .. Len(jobs) : Before(jobs[k], j),
         \A w \in Workers : Busy(w) => Before(job[w], j),
         Ahead(j),
         j.kind = "unregister" => Spent(j.station)
  PROVE  OrderInv'
<1>0. Len(jobs) \in Nat /\ jobs \in Seq(Job)
  BY DEF TypeOK
<1>00. Past' = Past /\ Removed' = Removed
  BY SamePast
<1>1. /\ Len(jobs') = Len(jobs) + 1
      /\ \A k \in 1 .. Len(jobs) : jobs'[k] = jobs[k]
      /\ jobs'[Len(jobs) + 1] = j
  BY <1>0, EnqueueProperties
<1>2. \A k \in 1 .. Len(jobs') : k \in 1 .. Len(jobs) \/ k = Len(jobs) + 1
  BY <1>0, <1>1
<1>3. ASSUME NEW k \in 1 .. Len(jobs'), NEW l \in 1 .. Len(jobs'), k < l
      PROVE  Before(jobs'[k], jobs'[l])
  <2>1. k \in 1 .. Len(jobs)
    BY <1>0, <1>1, <1>3
  <2>2. CASE l \in 1 .. Len(jobs)
    BY <1>1, <1>3, <2>1, <2>2 DEF OrderInv, InvQueue
  <2>3. CASE l = Len(jobs) + 1
    BY <1>1, <2>1, <2>3
  <2>. QED
    BY <1>2, <2>2, <2>3
<1>4. ASSUME NEW k \in 1 .. Len(jobs')
      PROVE  /\ Ahead(jobs[k])'
             /\ jobs'[k].kind = "unregister" => Spent(jobs[k].station)'
  <2>1. CASE k \in 1 .. Len(jobs)
    BY <1>00, <1>1, <2>1 DEF OrderInv, InvQueue, Ahead, Spent
  <2>2. CASE k = Len(jobs) + 1
    BY <1>00, <1>1, <2>2 DEF Ahead, Spent
  <2>. QED
    BY <1>2, <2>1, <2>2
<1>5. ASSUME NEW w \in Workers PROVE InvHand(w)'
  <2> SUFFICES ASSUME Busy(w)' PROVE InvHand(w)'
    BY DEF InvHand
  <2>1. Busy(w) /\ job'[w] = job[w]
    BY DEF KeepHands, KeepsHand
  <2>2. \A k \in 1 .. Len(jobs') : Before(job'[w], jobs'[k])
    BY <1>1, <1>2, <2>1 DEF OrderInv, InvHand
  <2>. QED
    BY <2>1, <2>2 DEF OrderInv, InvHand, Spent
<1>6. InvStations'
  BY <1>00 DEF OrderInv, InvStations, Spent
<1>7. InvQueue'
  BY <1>3, <1>4 DEF InvQueue
<1>8. InvSenders'
  BY <1>00, KeptSenders DEF OrderInv
<1>. QED
  BY <1>5, <1>6, <1>7, <1>8 DEF OrderInv

\* So does a job that is neither a command nor an unregistration.
LEMMA EnqueueQuietJob ==
  ASSUME TypeOK, OrderInv, NEW j \in Job, Enqueue(j), KeepHands,
         UNCHANGED <<served, gone, late, live, nextStation>>,
         dying' \subseteq dying,
         j.kind \notin {"command", "unregister"}
  PROVE  OrderInv'
<1>1. /\ \A k \in 1 .. Len(jobs) : Before(jobs[k], j)
      /\ \A w \in Workers : Before(job[w], j)
      /\ Ahead(j)
  BY DEF Before, Ahead
<1>. QED
  BY <1>1, EnqueueKeepsOrder

\* Stations leave stations_; the main thread waits for their threads.
LEMMA StationsLeave ==
  ASSUME OrderInv, NEW S, S \subseteq live, live' = live \ S, dying' = S,
         UNCHANGED <<jobs, pc, job, served, gone, late, nextStation>>
  PROVE  OrderInv'
<1>0. Past' = Past /\ Removed' = Removed
  BY SamePast
<1>1. InvQueue'
  BY <1>0 DEF OrderInv, InvQueue, Ahead, Spent
<1>2. ASSUME NEW w \in Workers PROVE InvHand(w)'
  BY DEF OrderInv, InvHand, Busy, Spent
<1>3. InvStations'
  BY <1>0 DEF OrderInv, InvStations, Spent
<1>4. KeepHands
  BY DEF KeepHands, KeepsHand, Busy
<1>. QED
  BY <1>0, <1>1, <1>2, <1>3, <1>4, KeptSenders DEF OrderInv

-----------------------------------------------------------------------------
(* The natives                                                               *)

LEMMA NativeOrder ==
  ASSUME PipelineInv, OrderInv, NEW i \in Ids,
         \/ CreateStation \/ EnqueueCommand(i) \/ RefreshStatus(i)
         \/ RequestStationList \/ UpdateStation(i) \/ DestroyStation(i)
  PROVE  OrderInv'
<1> USE DEF mainVars, workerVars, pollerVars, pushVars, serverVars, poolVars,
            idVars
<1>0. /\ TypeOK /\ InvJobs /\ InvWorkers /\ InvLate /\ nextRequest + 1 \in Nat
      /\ nextRequest \in Nat /\ nextStation \in Nat /\ MaxStations \in Nat
      /\ served \subseteq 1 .. nextRequest /\ 0 \in Nat
      /\ gone \subseteq Ids /\ live \subseteq Ids /\ dying \subseteq Ids
      /\ \A k \in 1 .. Len(jobs) : jobs[k] \in Job
      /\ \A w \in Workers : job[w] \in Job
  BY BoundsAssumption DEF PipelineInv, TypeOK, BoundsAssumption
<1>00. Past \subseteq 1 .. nextRequest /\ Removed \subseteq Ids
  BY <1>0 DEF Past, Removed, InvLate
<1>1. CASE CreateStation
  <2>1. /\ live' = live \cup {nextStation} /\ nextStation' = nextStation + 1
        /\ UNCHANGED <<jobs, pc, job, served, gone, late, dying>>
    BY <1>1 DEF CreateStation
  <2>11. Past' = Past /\ Removed' = Removed
    BY <2>1, SamePast
  <2>2. ASSUME NEW k, Spent(k), k \in Ids PROVE Spent(k)'
    BY <1>0, <2>1, <2>2 DEF Spent, Ids
  <2>3. InvQueue'
    <3>1. \A k \in 1 .. Len(jobs) :
            jobs[k].kind = "unregister" => jobs[k].station \in Ids
      BY <1>0 DEF InvJobs, Sound
    <3>. QED
      BY <2>1, <2>11, <2>2, <3>1 DEF OrderInv, InvQueue, Ahead
  <2>4. ASSUME NEW w \in Workers PROVE InvHand(w)'
    <3>1. Busy(w) /\ job[w].kind = "unregister" => job[w].station \in Ids
      BY <1>0 DEF InvWorkers, Sound
    <3>. QED
      BY <2>1, <2>2, <3>1 DEF OrderInv, InvHand, Busy
  <2>5. InvStations'
    BY <1>0, <1>00, <2>1, <2>11, <2>2 DEF OrderInv, InvStations, Ids
  <2>6. InvSenders'
    <3>1. KeepHands
      BY <2>1 DEF KeepHands, KeepsHand, Busy
    <3>. QED
      BY <2>11, <3>1, KeptSenders DEF OrderInv
  <2>. QED
    BY <2>3, <2>4, <2>5, <2>6 DEF OrderInv
<1>2. CASE EnqueueCommand(i)
  <2> DEFINE j == NewJob("command", i, nextRequest + 1)
  <2>0. "command" \in JobKinds /\ i \in Ids \cup {NoStation}
    BY DEF JobKinds
  <2>1. /\ j \in Job /\ j.kind = "command" /\ j.station = i
        /\ j.request = nextRequest + 1
    BY <1>0, <2>0, NewJobType
  <2>2. /\ i \in live /\ Enqueue(j)
        /\ UNCHANGED <<pc, job, served, gone, late, live, nextStation, dying>>
    BY <1>2 DEF EnqueueCommand
  <2>. HIDE DEF j
  <2>3. \A k \in 1 .. Len(jobs) : Before(jobs[k], j)
    BY <1>0, <2>1, <2>2 DEF Before, InvJobs, Sound, OrderInv, InvQueue, Spent
  <2>4. \A w \in Workers : Busy(w) => Before(job[w], j)
    BY <1>0, <2>1, <2>2 DEF Before, InvWorkers, Sound, OrderInv, InvHand, Spent
  <2>5. Ahead(j)
    BY <1>0, <1>00, <2>1, <2>2 DEF Ahead, OrderInv, InvStations, Spent
  <2>6. KeepHands
    BY <2>2 DEF KeepHands, KeepsHand, Busy
  <2>7. dying' \subseteq dying /\ j.kind # "unregister"
    BY <2>1, <2>2
  <2>. QED
    BY <1>0, <2>1, <2>2, <2>3, <2>4, <2>5, <2>6, <2>7, EnqueueKeepsOrder
<1>3. CASE RefreshStatus(i) \/ RequestStationList \/ UpdateStation(i)
  <2>1. PICK kind \in {"status", "list", "register"},
             n \in Ids \cup {NoStation}, r \in Nat :
               Enqueue(NewJob(kind, n, r))
    BY <1>0, <1>3 DEF RefreshStatus, RequestStationList, UpdateStation
  <2>2. UNCHANGED <<pc, job, served, gone, late, live, nextStation, dying>>
    BY <1>3 DEF RefreshStatus, RequestStationList, UpdateStation
  <2>3. kind \in JobKinds /\ kind \notin {"command", "unregister"}
    BY DEF JobKinds
  <2>4. NewJob(kind, n, r) \in Job /\ NewJob(kind, n, r).kind = kind
    BY <1>0, <2>3, NewJobType
  <2>5. KeepHands /\ dying' \subseteq dying
    BY <2>2 DEF KeepHands, KeepsHand, Busy
  <2>. QED
    BY <1>0, <2>1, <2>2, <2>3, <2>4, <2>5, EnqueueQuietJob
<1>4. CASE DestroyStation(i)
  <2>1. /\ i \in live /\ live' = live \ {i} /\ dying' = {i}
        /\ UNCHANGED <<jobs, pc, job, served, gone, late, nextStation>>
    BY <1>4 DEF DestroyStation
  <2>. QED
    BY <2>1, StationsLeave
<1>. QED
  BY <1>1, <1>2, <1>3, <1>4

LEMMA MainThreadOrder ==
  ASSUME PipelineInv, OrderInv,
         \/ Configure \/ Shutdown \/ StreamThreadJoined
         \/ StreamThreadsJoined \/ ClearJobs \/ PoolJoined
  PROVE  OrderInv'
<1> USE DEF mainVars, workerVars, pollerVars, pushVars, serverVars, poolVars,
            idVars
<1>0. /\ TypeOK /\ 0 \in Nat /\ dying \subseteq Ids /\ pool + 1 \in Nat
  BY DEF PipelineInv, TypeOK
<1>1. ASSUME UNCHANGED <<jobs, pc, job, served, gone, late, live, nextStation>>,
             dying' \subseteq dying
      PROVE  OrderInv'
  BY <1>1, IdleStepKeepsOrder, SamePast DEF KeepHands, KeepsHand, Busy
<1>2. ASSUME StartPool,
             UNCHANGED <<served, gone, late, live, nextStation, dying>>
      PROVE  OrderInv'
  <2> DEFINE j == [NewJob("info", NoStation, 0) EXCEPT !.pool = pool + 1]
  <2>1. "info" \in JobKinds /\ NoStation \in Ids \cup {NoStation}
    BY DEF JobKinds
  <2>2. j = [kind |-> "info", station |-> NoStation, request |-> 0,
             pool |-> pool + 1]
    BY DEF NewJob
  <2>3. j \in Job /\ j.kind = "info"
    <3>. HIDE DEF j
    <3>. QED
      BY ONLY <1>0, <2>1, <2>2 DEF Job
  <2>4. Enqueue(j) /\ pc' = [v \in Workers |-> "idle"]
    BY <1>2 DEF StartPool
  <2>. HIDE DEF j
  <2>5. KeepHands
    BY <2>4 DEF KeepHands, KeepsHand, Busy
  <2>6. j.kind \notin {"command", "unregister"} /\ dying' \subseteq dying
    BY <1>2, <2>3
  <2>. QED
    BY <1>0, <1>2, <2>3, <2>4, <2>5, <2>6, EnqueueQuietJob
<1>3. CASE Configure
  BY <1>1, <1>2, <1>3 DEF Configure
<1>4. CASE Shutdown
  <2>1. /\ live' = {} /\ dying' = live
        /\ UNCHANGED <<jobs, pc, job, served, gone, late, nextStation>>
    BY <1>4 DEF Shutdown
  <2>. QED
    BY <2>1, StationsLeave
<1>5. CASE StreamThreadJoined
  <2>1. PICK i \in dying : Enqueue(NewJob("unregister", i, 0))
    BY <1>5 DEF StreamThreadJoined
  <2> DEFINE j == NewJob("unregister", i, 0)
  <2>2. "unregister" \in JobKinds /\ i \in Ids \cup {NoStation}
    BY <1>0 DEF JobKinds
  <2>3. j \in Job /\ j.kind = "unregister" /\ j.station = i
    BY <1>0, <2>2, NewJobType
  <2>4. /\ UNCHANGED <<pc, job, served, gone, late, live, nextStation>>
        /\ dying' \subseteq dying
    BY <1>5 DEF StreamThreadJoined
  <2>5. KeepHands
    BY <2>4 DEF KeepHands, KeepsHand, Busy
  <2>6. Enqueue(j)
    BY <2>1
  <2>. HIDE DEF j
  <2>7. /\ \A k \in 1 .. Len(jobs) : Before(jobs[k], j)
        /\ \A w \in Workers : Before(job[w], j)
        /\ Ahead(j)
    BY <2>3 DEF Before, Ahead
  <2>8. Spent(j.station)
    BY <2>3 DEF OrderInv, InvStations
  <2>. QED
    BY <1>0, <2>3, <2>4, <2>5, <2>6, <2>7, <2>8, EnqueueKeepsOrder
<1>6. CASE StreamThreadsJoined
  BY <1>1, <1>6 DEF StreamThreadsJoined
<1>7. CASE ClearJobs
  <2>1. /\ Len(jobs') = 0
        /\ UNCHANGED <<pc, job, served, gone, late, live, nextStation, dying>>
    BY <1>7 DEF ClearJobs, JobsCleared
  <2>11. Past' = Past /\ Removed' = Removed
    BY <2>1, SamePast
  <2>2. InvQueue'
    BY <2>1 DEF InvQueue
  <2>3. ASSUME NEW w \in Workers PROVE InvHand(w)'
    BY <2>1 DEF OrderInv, InvHand, Busy, Spent
  <2>4. InvStations'
    BY <2>1, <2>11 DEF OrderInv, InvStations, Spent
  <2>5. KeepHands
    BY <2>1 DEF KeepHands, KeepsHand, Busy
  <2>. QED
    BY <2>11, <2>2, <2>3, <2>4, <2>5, KeptSenders DEF OrderInv
<1>8. CASE PoolJoined
  BY <1>1, <1>2, <1>8 DEF PoolJoined
<1>. QED
  BY <1>3, <1>4, <1>5, <1>6, <1>7, <1>8

-----------------------------------------------------------------------------
(* The workers and what they give up                                         *)

\* The job of a worker reaches the audio server, or is left with it.
LEMMA SentKeepsOrder ==
  ASSUME OrderInv, KeepHands, NEW w \in Workers, Busy(w), job[w] \in Job,
         UNCHANGED <<jobs, live, nextStation, dying>>,
         Past' \subseteq Past \cup (IF job[w].kind = "command"
                                    THEN {job[w].request} ELSE {}),
         Removed' \subseteq Removed \cup (IF job[w].kind = "unregister"
                                          THEN {job[w].station} ELSE {})
  PROVE  OrderInv'
<1>1. \A k \in 1 .. Len(jobs) : Before(job[w], jobs[k])
  BY DEF OrderInv, InvHand
<1>2. job[w].kind = "unregister" => Spent(job[w].station)
  BY DEF OrderInv, InvHand
<1>3. InvQueue'
  <2>1. ASSUME NEW k \in 1 .. Len(jobs) PROVE Ahead(jobs[k])'
    <3>1. Ahead(jobs[k]) /\ Before(job[w], jobs[k])
      BY <1>1 DEF OrderInv, InvQueue
    <3>. QED
      BY <3>1 DEF Ahead, Before
  <2>. QED
    BY <2>1 DEF OrderInv, InvQueue, Spent
<1>4. ASSUME NEW v \in Workers PROVE InvHand(v)'
  BY DEF OrderInv, InvHand, KeepHands, KeepsHand, Spent
<1>5. InvStations'
  BY <1>2 DEF OrderInv, InvStations, Spent
<1>6. InvSenders'
  <2>1. ASSUME NEW q \in Past'
        PROVE  \E v \in Workers :
                 ~(Busy(v)' /\ job'[v].kind = "command" /\ job'[v].request < q)
    <3>1. CASE q \in Past
      <4>1. PICK v \in Workers : ~HoldsOlder(v, q)
        BY <3>1 DEF OrderInv, InvSenders
      <4>. QED
        BY <4>1 DEF KeepHands, KeepsHand, HoldsOlder
    <3>2. CASE q = job[w].request
      <4>1. ~(job[w].request < q)
        BY <3>2 DEF Job
      <4>. QED
        BY <4>1 DEF KeepHands, KeepsHand
    <3>. QED
      BY <2>1, <3>1, <3>2
  <2>2. ASSUME NEW i \in Removed'
        PROVE  \E v \in Workers :
                 ~(Busy(v)' /\ job'[v].kind = "command" /\ job'[v].station = i)
    <3>1. CASE i \in Removed
      <4>1. PICK v \in Workers : ~HoldsCommandOf(v, i)
        BY <3>1 DEF OrderInv, InvSenders
      <4>. QED
        BY <4>1 DEF KeepHands, KeepsHand, HoldsCommandOf
    <3>2. CASE job[w].kind = "unregister"
      BY <3>2 DEF KeepHands, KeepsHand
    <3>. QED
      BY <2>2, <3>1, <3>2
  <2>. QED
    BY <2>1, <2>2 DEF InvSenders, HoldsOlder, HoldsCommandOf
<1>. QED
  BY <1>3, <1>4, <1>5, <1>6 DEF OrderInv

LEMMA TakeJobOrder ==
  ASSUME PipelineInv, OrderInv, NEW w \in Workers, TakeJob(w)
  PROVE  OrderInv'
<1> USE DEF mainVars, workerVars, pollerVars, pushVars, serverVars, poolVars,
            idVars
<1>0. /\ TypeOK /\ Len(jobs) \in Nat
      /\ pc \in [Workers -> WorkerPoints] /\ job \in [Workers -> Job]
  BY DEF PipelineInv, TypeOK
<1>1. /\ Len(jobs) > 0 /\ Head(jobs) = jobs[1]
      /\ Len(jobs') = Len(jobs) - 1
      /\ \A k \in 1 .. Len(jobs') : jobs'[k] = jobs[k + 1]
  BY <1>0, TakeJobType
<1>2. /\ UNCHANGED <<served, gone, late, live, nextStation, dying>>
      /\ ~Busy(w)
  BY DEF TakeJob, Busy
<1>3. \A k \in 1 .. Len(jobs') : k + 1 \in 1 .. Len(jobs) /\ 1 < k + 1
  BY <1>0, <1>1
<1>4. Past' = Past /\ Removed' = Removed
  BY <1>2, SamePast
<1>5. InvQueue'
  <2>1. ASSUME NEW k \in 1 .. Len(jobs'), NEW l \in 1 .. Len(jobs'), k < l
        PROVE  Before(jobs'[k], jobs'[l])
    <3>1. k + 1 < l + 1
      BY <1>0, <1>1, <2>1
    <3>. QED
      BY <1>1, <1>3, <3>1 DEF OrderInv, InvQueue
  <2>2. ASSUME NEW k \in 1 .. Len(jobs')
        PROVE  /\ Ahead(jobs[k])'
               /\ jobs'[k].kind = "unregister" => Spent(jobs[k].station)'
    <3>1. jobs'[k] = jobs[k + 1] /\ k + 1 \in 1 .. Len(jobs)
      BY <1>1, <1>3
    <3>. QED
      BY <1>2, <1>4, <3>1 DEF OrderInv, InvQueue, Ahead, Spent
  <2>. QED
    BY <2>1, <2>2 DEF InvQueue
<1>6. InvStations'
  BY <1>2, <1>4 DEF OrderInv, InvStations, Spent
<1>7. ASSUME NEW v \in Workers PROVE KeepsHand(v) \/ job'[v] = jobs[1]
  BY <1>0, <1>1 DEF TakeJob, KeepsHand, Busy
<1>8. /\ 1 \in 1 .. Len(jobs) /\ Ahead(jobs[1])
      /\ jobs[1].kind = "unregister" => Spent(jobs[1].station)
      /\ jobs[1] \in Job
  BY <1>0, <1>1, TakeJobType DEF OrderInv, InvQueue
<1>9. ASSUME NEW v \in Workers PROVE InvHand(v)'
  <2>1. ASSUME Busy(v), job'[v] = job[v] PROVE InvHand(v)'
    <3>1. \A k \in 1 .. Len(jobs') : Before(job[v], jobs'[k])
      BY <1>1, <1>3, <2>1 DEF OrderInv, InvHand
    <3>. QED
      BY <1>2, <2>1, <3>1 DEF OrderInv, InvHand, Spent
  <2>2. ASSUME job'[v] = jobs[1] PROVE InvHand(v)'
    <3>1. \A k \in 1 .. Len(jobs') : Before(jobs[1], jobs'[k])
      BY <1>1, <1>3, <1>8 DEF OrderInv, InvQueue
    <3>. QED
      BY <1>2, <1>8, <2>2, <3>1 DEF InvHand, Spent
  <2>3. ASSUME ~Busy(v)' PROVE InvHand(v)'
    BY <2>3 DEF InvHand
  <2>. QED
    BY <1>7, <2>1, <2>2, <2>3 DEF KeepsHand
<1>10. InvSenders'
  <2>1. ASSUME NEW q \in Past
        PROVE  \E v \in Workers :
                 ~(Busy(v)' /\ job'[v].kind = "command" /\ job'[v].request < q)
    <3>1. PICK v \in Workers : ~HoldsOlder(v, q)
      BY DEF OrderInv, InvSenders
    <3>2. CASE KeepsHand(v)
      BY <3>1, <3>2 DEF KeepsHand, HoldsOlder
    <3>3. CASE job'[v] = jobs[1]
      <4>1. jobs[1].kind = "command" => q < jobs[1].request
        BY <1>8 DEF Ahead
      <4>2. q \in Nat /\ jobs[1].request \in Nat
        BY <1>0, <1>8 DEF Past, Job, PipelineInv, InvLate, TypeOK
      <4>. QED
        BY <3>3, <4>1, <4>2
    <3>. QED
      BY <1>7, <3>2, <3>3
  <2>2. ASSUME NEW i \in Removed
        PROVE  \E v \in Workers :
                 ~(Busy(v)' /\ job'[v].kind = "command" /\ job'[v].station = i)
    <3>1. PICK v \in Workers : ~HoldsCommandOf(v, i)
      BY DEF OrderInv, InvSenders
    <3>2. CASE KeepsHand(v)
      BY <3>1, <3>2 DEF KeepsHand, HoldsCommandOf
    <3>3. CASE job'[v] = jobs[1]
      BY <1>8, <3>3 DEF Ahead
    <3>. QED
      BY <1>7, <3>2, <3>3
  <2>. QED
    BY <1>4, <2>1, <2>2 DEF InvSenders, HoldsOlder, HoldsCommandOf
<1>. QED
  BY <1>5, <1>6, <1>9, <1>10 DEF OrderInv

LEMMA WorkerOrder ==
  ASSUME PipelineInv, OrderInv, NEW w \in Workers, Worker(w)
  PROVE  OrderInv'
<1> USE DEF mainVars, workerVars, pollerVars, pushVars, serverVars, poolVars,
            idVars
<1>0. pc \in [Workers -> WorkerPoints] /\ job \in [Workers -> Job]
  BY DEF PipelineInv, TypeOK
<1>1. ASSUME KeepHands,
             UNCHANGED <<jobs, served, gone, late, live, nextStation, dying>>
      PROVE  OrderInv'
  BY <1>1, IdleStepKeepsOrder, SamePast
<1>2. ASSUME Returns(w) PROVE KeepHands
  BY <1>0, <1>2 DEF Returns, KeepHands, KeepsHand, Busy
<1>3. ASSUME UNCHANGED job, NEW p, pc' = [pc EXCEPT ![w] = p],
             p \notin {"idle", "ended"} => Busy(w)
      PROVE  KeepHands
  BY <1>0, <1>3 DEF KeepHands, KeepsHand, Busy
<1>4. CASE ServerPerforms(w)
  <2>1. /\ Busy(w) /\ Performed(job[w]) /\ KeepHands
        /\ UNCHANGED <<jobs, late, live, nextStation, dying>>
    BY <1>3, <1>4 DEF ServerPerforms, Busy
  <2>. QED
    BY <1>0, <2>1, SentKeepsOrder DEF Performed, Past, Removed
<1>5. CASE CallFails(w) \/ Repeats(w)
  <2>1. /\ Busy(w) /\ MayArriveLate(job[w]) /\ KeepHands
        /\ UNCHANGED <<jobs, served, gone, live, nextStation, dying>>
    BY <1>2, <1>3, <1>5 DEF CallFails, Repeats, Busy
  <2>2. late' \subseteq late \cup {job[w]}
    BY <2>1 DEF MayArriveLate
  <2>. QED
    BY <1>0, <2>1, <2>2, SentKeepsOrder DEF Past, Removed
<1>6. CASE WorkerLeaves(w)
  BY <1>1, <1>3, <1>6 DEF WorkerLeaves
<1>7. CASE CallSucceeds(w) \/ RegisterEnds(w)
  BY <1>1, <1>2, <1>7 DEF CallSucceeds, RegisterEnds
<1>8. CASE RegisterChecks(w) \/ RegisterFails(w) \/ RegisterBackoffEnds(w)
  <2>1. KeepHands
    BY <1>2, <1>3, <1>8
       DEF RegisterChecks, RegisterFails, RegisterBackoffEnds, Busy
  <2>. QED
    BY <1>1, <1>8, <2>1 DEF RegisterChecks, RegisterFails, RegisterBackoffEnds
<1>. QED
  BY <1>4, <1>5, <1>6, <1>7, <1>8, TakeJobOrder DEF Worker

\* What was late is now past.
LEMMA LateOrder ==
  ASSUME OrderInv, NEW j \in late, LateArrives(j)
  PROVE  OrderInv'
<1>1. UNCHANGED <<jobs, pc, job, live, nextStation, dying>>
  BY DEF LateArrives, mainVars, idVars, workerVars
<1>2. Past' \subseteq Past /\ Removed' \subseteq Removed
  BY DEF LateArrives, Performed, Past, Removed
<1>3. KeepHands
  BY <1>1 DEF KeepHands, KeepsHand, Busy
<1>. QED
  BY <1>1, <1>2, <1>3, IdleStepKeepsOrder

LEMMA OthersOrder ==
  ASSUME PipelineInv, OrderInv, NEW i \in Ids,
         Tick \/ Deliver \/ Stream(i) \/ Poller \/ UNCHANGED vars
  PROVE  OrderInv'
<1> USE DEF mainVars, workerVars, pollerVars, pushVars, serverVars, poolVars,
            idVars
<1>0. /\ TypeOK /\ nextRequest + 1 \in Nat
      /\ polled \in Ids \cup {NoStation}
  BY DEF PipelineInv, TypeOK
<1>1. ASSUME UNCHANGED <<pc, job>> PROVE KeepHands
  BY <1>1 DEF KeepHands, KeepsHand, Busy
<1>2. ASSUME UNCHANGED <<jobs, pc, job, served, gone, late, live, nextStation,
                         dying>>
      PROVE  OrderInv'
  BY <1>1, <1>2, IdleStepKeepsOrder, SamePast
<1>3. ASSUME NEW n \in Ids \cup {NoStation},
             Enqueue(NewJob("status", n, nextRequest + 1)),
             UNCHANGED <<pc, job, served, gone, late, live, nextStation, dying>>
      PROVE  OrderInv'
  <2>1. "status" \in JobKinds
    BY DEF JobKinds
  <2>2. /\ NewJob("status", n, nextRequest + 1) \in Job
        /\ NewJob("status", n, nextRequest + 1).kind \notin {"command", "unregister"}
    BY <1>0, <2>1, NewJobType
  <2>3. KeepHands /\ dying' \subseteq dying
    BY <1>1, <1>3
  <2>. QED
    BY <1>0, <1>3, <2>2, <2>3, EnqueueQuietJob
<1>4. CASE Tick \/ Deliver
  BY <1>2, <1>4 DEF Tick, Deliver
<1>5. CASE StreamFinds(i)
  BY <1>2, <1>5 DEF StreamFinds
<1>6. CASE StreamEnqueues(i)
  BY <1>3, <1>6 DEF StreamEnqueues
<1>7. CASE PollerEnqueues
  BY <1>0, <1>3, <1>7 DEF PollerEnqueues
<1>8. CASE PollerWakes \/ PollerFinds \/ PollerRests \/ PollerLeaves
  BY <1>2, <1>8 DEF PollerWakes, PollerFinds, PollerRests, PollerLeaves
<1>9. CASE UNCHANGED vars
  BY <1>2, <1>9 DEF vars
<1>. QED
  BY <1>4, <1>5, <1>6, <1>7, <1>8, <1>9 DEF Stream, Poller

-----------------------------------------------------------------------------
(* The theorem                                                               *)

LEMMA OrderInvariant == Spec => [](PipelineInv /\ OrderInv)
<1>1. Init => PipelineInv /\ OrderInv
  BY InitPipelineInv
     DEF Init, OrderInv, InvQueue, InvHand, InvStations, InvSenders, Busy, Past,
         Removed
<1>2. ASSUME PipelineInv, OrderInv, [Next]_vars
      PROVE  PipelineInv' /\ OrderInv'
  <2>1. PipelineInv'
    BY <1>2, NextTypeOK, NextInvJobs, NextInvWorkers, NextInvEvents,
       NextInvMain, NextInvLate
       DEF PipelineInv
  <2>2. 0 \in Ids
    BY BoundsAssumption DEF Ids, BoundsAssumption
  <2>. QED
    BY <1>2, <2>1, <2>2, NativeOrder, MainThreadOrder, WorkerOrder, LateOrder,
       OthersOrder
       DEF Next, Main
<1>. QED
  BY <1>1, <1>2, PTL DEF Spec

\* Whatever fails, is dropped, is sent twice or arrives late, and however many
\* workers there are, commands overtake each other only in the workers' hands:
\* a performed command or an unregistration came before no command still in the
\* queue, and never before those of all the workers (EnqueueCommand,
\* DestroyStation, WorkerLoop, StopWorkers).
THEOREM CommandsOvertakeInHandsOnly == Spec => []OvertakingIsBounded
<1>1. PipelineInv /\ OrderInv => OvertakingIsBounded
  <2> SUFFICES ASSUME PipelineInv, OrderInv PROVE OvertakingIsBounded
    OBVIOUS
  <2>1. served \subseteq Past /\ gone \subseteq Removed
    BY DEF Past, Removed
  <2>2. DOMAIN jobs = 1 .. Len(jobs)
    BY DEF PipelineInv, TypeOK
  <2>3. ASSUME NEW q \in served
        PROVE  /\ \A r \in Commands(jobs) : q < r
               /\ \E w \in Workers : ~HoldsOlder(w, q)
    BY <2>1, <2>2 DEF OrderInv, InvQueue, InvSenders, Ahead, Commands
  <2>4. ASSUME NEW i \in gone
        PROVE  /\ \A k \in DOMAIN jobs :
                    jobs[k].kind = "command" => jobs[k].station # i
               /\ \E w \in Workers : ~HoldsCommandOf(w, i)
    BY <2>1, <2>2 DEF OrderInv, InvQueue, InvSenders, Ahead
  <2>. QED
    BY <2>3, <2>4 DEF OvertakingIsBounded
<1>. QED
  BY <1>1, OrderInvariant, PTL

-----------------------------------------------------------------------------
(* Every step keeps the promise of AsyncCommands: the inductive invariant    *)

\* No two commands of a queue carry the same id.
Once(q) ==
  \A k, l \in DOMAIN q :
    /\ q[k].kind = "command" /\ q[l].kind = "command"
    /\ q[k].request = q[l].request
    => k = l

\* No two results of a queue answer the same id.
OneResult(q) ==
  \A k, l \in Results(q) : q[k].request = q[l].request => k = l

\* Worker w is carrying out a command.
Held(w) == Busy(w) /\ job[w].kind = "command"

\* A command is in one place: once in jobs_, or in the hands of one worker.
InvOpen ==
  /\ Once(jobs)
  /\ \A w \in Workers : Held(w) => job[w].request \notin Commands(jobs)
  /\ \A v, w \in Workers :
       Held(v) /\ Held(w) /\ job[v].request = job[w].request => v = w

\* A command that was reported is in neither, and has one result.
InvReports ==
  /\ OneResult(Pushed)
  /\ Reported(Pushed) \cap (Commands(jobs) \cup InFlight) = {}

\* RegisterWithRetry is for registrations, and between the pools a script sees
\* no worker is left.
InvHands ==
  /\ \A w \in Workers : pc[w] \in RegisterPoints => job[w].kind = "register"
  /\ mainAt = "script" /\ ~running => \A w \in Workers : pc[w] = "ended"

\* An id is given out only for a job that was claimed: so are the ones that
\* the stream threads and the poller are about to take.
Waiting ==
  Cardinality(found) + Cardinality(todo)
    + (IF polled = NoStation THEN 0 ELSE 1)

InvClaims == nextRequest + Waiting <= claimed

PromiseInv == PipelineInv /\ InvHands /\ InvClaims /\ InvOpen /\ InvReports

-----------------------------------------------------------------------------
(* Queues of jobs                                                            *)

LEMMA CommandsOf ==
  ASSUME NEW q
  PROVE  \A r : r \in Commands(q) <=>
           \E k \in DOMAIN q : q[k].kind = "command" /\ q[k].request = r
BY DEF Commands

\* What Enqueue does to the commands of the queue.
LEMMA EnqueueCommands ==
  ASSUME jobs \in Seq(Job), NEW j \in Job, Enqueue(j), Once(jobs)
  PROVE  /\ j.kind # "command" => Commands(jobs') = Commands(jobs)
         /\ j.kind = "command" =>
              Commands(jobs') = Commands(jobs) \cup {j.request}
         /\ j.kind # "command" \/ j.request \notin Commands(jobs)
              => Once(jobs')
<1>1. /\ jobs' \in Seq(Job) /\ Len(jobs') = Len(jobs) + 1
      /\ \A k \in 1 .. Len(jobs) : jobs'[k] = jobs[k]
      /\ jobs'[Len(jobs) + 1] = j
  BY EnqueueProperties
<1>2. /\ DOMAIN jobs = 1 .. Len(jobs) /\ DOMAIN jobs' = 1 .. (Len(jobs) + 1)
      /\ Len(jobs) \in Nat
  BY <1>1
<1>3. j.kind # "command" => Commands(jobs') = Commands(jobs)
  BY <1>1, <1>2 DEF Commands
<1>4. j.kind = "command" =>
        Commands(jobs') = Commands(jobs) \cup {j.request}
  BY <1>1, <1>2 DEF Commands
<1>5. ASSUME j.kind # "command" \/ j.request \notin Commands(jobs)
      PROVE  Once(jobs')
  BY <1>1, <1>2, <1>5 DEF Commands, Once
<1>. QED
  BY <1>3, <1>4, <1>5

\* What taking the oldest job does to them.
LEMMA TailCommands ==
  ASSUME jobs \in Seq(Job), jobs # <<>>, jobs' = Tail(jobs), Once(jobs)
  PROVE  /\ Head(jobs) = jobs[1] /\ jobs[1] \in Job
         /\ Once(jobs')
         /\ jobs[1].kind # "command" => Commands(jobs') = Commands(jobs)
         /\ jobs[1].kind = "command" =>
              /\ jobs[1].request \in Commands(jobs)
              /\ Commands(jobs') = Commands(jobs) \ {jobs[1].request}
<1>1. /\ jobs' \in Seq(Job) /\ Len(jobs') = Len(jobs) - 1
      /\ \A k \in 1 .. Len(jobs') : jobs'[k] = jobs[k + 1]
      /\ Head(jobs) = jobs[1] /\ Len(jobs) \in Nat \ {0} /\ jobs[1] \in Job
  OBVIOUS
<1>2. DOMAIN jobs = 1 .. Len(jobs) /\ DOMAIN jobs' = 1 .. (Len(jobs) - 1)
  BY <1>1
<1>3. \A k \in DOMAIN jobs : k # 1 => k - 1 \in DOMAIN jobs' /\ jobs'[k - 1] = jobs[k]
  BY <1>1, <1>2
<1>4. \A k \in DOMAIN jobs' : k + 1 \in DOMAIN jobs \ {1} /\ jobs'[k] = jobs[k + 1]
  BY <1>1, <1>2
<1>5. 1 \in DOMAIN jobs
  BY <1>1, <1>2
<1>6. Once(jobs')
  BY <1>2, <1>4 DEF Once
<1>7. ASSUME NEW r
      PROVE  r \in Commands(jobs') <=>
               \E k \in DOMAIN jobs :
                 k # 1 /\ jobs[k].kind = "command" /\ jobs[k].request = r
  <2>1. ASSUME r \in Commands(jobs')
        PROVE  \E k \in DOMAIN jobs :
                 k # 1 /\ jobs[k].kind = "command" /\ jobs[k].request = r
    <3>1. PICK k \in DOMAIN jobs' :
                 jobs'[k].kind = "command" /\ jobs'[k].request = r
      BY <2>1, CommandsOf
    <3>. QED
      BY <1>4, <3>1
  <2>2. ASSUME NEW k \in DOMAIN jobs, k # 1, jobs[k].kind = "command",
               jobs[k].request = r
        PROVE  r \in Commands(jobs')
    <3>1. k - 1 \in DOMAIN jobs' /\ jobs'[k - 1] = jobs[k]
      BY <1>3, <2>2
    <3>. QED
      BY <2>2, <3>1, CommandsOf
  <2>. QED
    BY <2>1, <2>2
<1>8. ASSUME jobs[1].kind # "command" PROVE Commands(jobs') = Commands(jobs)
  <2>1. \A r : r \in Commands(jobs') <=> r \in Commands(jobs)
    BY <1>7, <1>8, CommandsOf
  <2>. QED
    BY <2>1
<1>9. ASSUME jobs[1].kind = "command"
      PROVE  /\ jobs[1].request \in Commands(jobs)
             /\ Commands(jobs') = Commands(jobs) \ {jobs[1].request}
  <2>1. \A k \in DOMAIN jobs :
          jobs[k].kind = "command" =>
            (jobs[k].request = jobs[1].request <=> k = 1)
    BY <1>5, <1>9 DEF Once
  <2>2. \A r : r \in Commands(jobs') <=>
                 r \in Commands(jobs) /\ r # jobs[1].request
    BY <1>7, <2>1, CommandsOf
  <2>3. jobs[1].request \in Commands(jobs)
    BY <1>5, <1>9, CommandsOf
  <2>. QED
    BY <2>2, <2>3
<1>. QED
  BY <1>1, <1>6, <1>8, <1>9

-----------------------------------------------------------------------------
(* Queues of events                                                          *)

LEMMA ResultsOf ==
  ASSUME NEW q \in Seq(Event)
  PROVE  \A k : k \in Results(q) <=> k \in 1 .. Len(q) /\ q[k].kind = "result"
BY DEF Results, Concludes

LEMMA ReportedOf ==
  ASSUME NEW q, NEW r
  PROVE  r \in Reported(q) <=> \E k \in Results(q) : q[k].request = r
BY DEF Reported

LEMMA ReportedBeforeOf ==
  ASSUME NEW q, NEW r, NEW s
  PROVE  <<r, s>> \in ReportedBefore(q) <=>
           \E k, l \in Results(q) :
             k < l /\ q[k].request = r /\ q[l].request = s
<1> DEFINE pairs == {x \in Results(q) \X Results(q) : x[1] < x[2]}
<1>1. ReportedBefore(q) =
        {<<q[p[1]].request, q[p[2]].request>> : p \in pairs}
  BY DEF ReportedBefore
<1>2. ASSUME <<r, s>> \in ReportedBefore(q)
      PROVE  \E k, l \in Results(q) :
               k < l /\ q[k].request = r /\ q[l].request = s
  <2>1. PICK p \in pairs :
          <<r, s>> = <<q[p[1]].request, q[p[2]].request>>
    BY <1>1, <1>2
  <2>2. /\ p[1] \in Results(q) /\ p[2] \in Results(q) /\ p[1] < p[2]
        /\ r = q[p[1]].request /\ s = q[p[2]].request
    BY <2>1
  <2>. QED
    BY <2>2
<1>3. ASSUME NEW k \in Results(q), NEW l \in Results(q), k < l,
             q[k].request = r, q[l].request = s
      PROVE  <<r, s>> \in ReportedBefore(q)
  <2>1. <<k, l>> \in pairs
    BY <1>3
  <2>2. <<r, s>> = <<q[<<k, l>>[1]].request, q[<<k, l>>[2]].request>>
    BY <1>3
  <2>. HIDE DEF pairs
  <2>. QED
    BY <1>1, <2>1, <2>2
<1>. QED
  BY <1>2, <1>3

LEMMA BothReported ==
  ASSUME NEW q, NEW r, NEW s, <<r, s>> \in ReportedBefore(q)
  PROVE  r \in Reported(q) /\ s \in Reported(q)
<1>1. PICK k, l \in Results(q) : q[k].request = r /\ q[l].request = s
  BY ReportedBeforeOf
<1>. QED
  BY <1>1, ReportedOf

\* Two sets of pairs are equal when they have the same pairs.
LEMMA SamePairs ==
  ASSUME NEW A, NEW B, NEW R, NEW S, A \subseteq R \X S, B \subseteq R \X S,
         \A r \in R, s \in S : <<r, s>> \in A <=> <<r, s>> \in B
  PROVE  A = B
OBVIOUS

LEMMA BeforeIsPairs ==
  ASSUME NEW q
  PROVE  ReportedBefore(q) \subseteq Reported(q) \X Reported(q)
BY DEF ReportedBefore, Reported

\* What pushing an event does to what is waiting to be heard.
LEMMA AppendReports ==
  ASSUME NEW q \in Seq(Event), NEW e \in Event, OneResult(q)
  PROVE  LET t == Append(q, e)
         IN  /\ t \in Seq(Event)
             /\ e.kind # "result" =>
                  /\ Reported(t) = Reported(q)
                  /\ ReportedBefore(t) = ReportedBefore(q)
                  /\ OneResult(t)
             /\ e.kind = "result" =>
                  /\ Reported(t) = Reported(q) \cup {e.request}
                  /\ ReportedBefore(t)
                       = ReportedBefore(q) \cup (Reported(q) \X {e.request})
                  /\ e.request \notin Reported(q) => OneResult(t)
<1> DEFINE t == Append(q, e)
           n == Len(q)
<1>1. /\ t \in Seq(Event) /\ Len(t) = n + 1 /\ n \in Nat
      /\ \A k \in 1 .. n : t[k] = q[k]
      /\ t[n + 1] = e
  OBVIOUS
<1>. HIDE DEF t
<1>2. /\ \A k : k \in Results(q) <=> k \in 1 .. n /\ q[k].kind = "result"
      /\ \A k : k \in Results(t) <=> k \in 1 .. (n + 1) /\ t[k].kind = "result"
  BY <1>1, ResultsOf
<1>. HIDE DEF n
<1>3. \A k \in Results(q) : t[k] = q[k] /\ k < n + 1 /\ k \in Int
  BY <1>1, <1>2
<1>4. e.kind # "result" => \A k : k \in Results(t) <=> k \in Results(q)
  BY <1>1, <1>2
<1>5. e.kind = "result" =>
        \A k : k \in Results(t) <=> k \in Results(q) \/ k = n + 1
  BY <1>1, <1>2
<1>6. CASE e.kind # "result"
  <2>0. Results(t) = Results(q)
    BY <1>4, <1>6
  <2>1. Reported(t) = Reported(q)
    BY <1>3, <2>0 DEF Reported
  <2>2. ReportedBefore(t) = ReportedBefore(q)
    BY <1>3, <2>0 DEF ReportedBefore
  <2>3. OneResult(t)
    BY <1>3, <2>0 DEF OneResult
  <2>. QED
    BY <1>1, <1>6, <2>1, <2>2, <2>3 DEF t
<1>7. CASE e.kind = "result"
  <2>0. \A k : k \in Results(t) <=> k \in Results(q) \/ k = n + 1
    BY <1>5, <1>7
  <2>1. \A r : r \in Reported(t) <=> r \in Reported(q) \/ r = e.request
    BY <1>1, <1>3, <2>0, ReportedOf
  <2>2. Reported(t) = Reported(q) \cup {e.request}
    BY <2>1
  <2>3. ASSUME NEW r, NEW s
        PROVE  <<r, s>> \in ReportedBefore(t) <=>
                 \/ <<r, s>> \in ReportedBefore(q)
                 \/ r \in Reported(q) /\ s = e.request
    <3>1. ASSUME <<r, s>> \in ReportedBefore(t)
          PROVE  \/ <<r, s>> \in ReportedBefore(q)
                 \/ r \in Reported(q) /\ s = e.request
      <4>1. PICK k, l \in Results(t) :
              k < l /\ t[k].request = r /\ t[l].request = s
        BY <3>1, ReportedBeforeOf
      <4>2. k \in Results(q)
        BY <1>1, <1>3, <2>0, <4>1
      <4>3. r \in Reported(q)
        BY <1>3, <4>1, <4>2, ReportedOf
      <4>4. CASE l = n + 1
        BY <1>1, <4>1, <4>3, <4>4
      <4>5. CASE l \in Results(q)
        BY <1>3, <4>1, <4>2, <4>5, ReportedBeforeOf
      <4>. QED
        BY <2>0, <4>4, <4>5
    <3>2. ASSUME <<r, s>> \in ReportedBefore(q)
          PROVE  <<r, s>> \in ReportedBefore(t)
      <4>1. PICK k, l \in Results(q) :
              k < l /\ q[k].request = r /\ q[l].request = s
        BY <3>2, ReportedBeforeOf
      <4>. QED
        BY <1>3, <2>0, <4>1, ReportedBeforeOf
    <3>3. ASSUME r \in Reported(q), s = e.request
          PROVE  <<r, s>> \in ReportedBefore(t)
      <4>1. PICK k \in Results(q) : q[k].request = r
        BY <3>3, ReportedOf
      <4>. QED
        BY <1>1, <1>3, <2>0, <3>3, <4>1, ReportedBeforeOf
    <3>. QED
      BY <3>1, <3>2, <3>3
  <2>4. ReportedBefore(t)
          = ReportedBefore(q) \cup (Reported(q) \X {e.request})
    <3>1. /\ ReportedBefore(t) \subseteq Reported(t) \X Reported(t)
          /\ ReportedBefore(q) \subseteq Reported(q) \X Reported(q)
      BY BeforeIsPairs
    <3>2. ReportedBefore(q) \cup (Reported(q) \X {e.request})
            \subseteq Reported(t) \X Reported(t)
      BY <2>2, <3>1
    <3>3. \A r \in Reported(t), s \in Reported(t) :
            <<r, s>> \in ReportedBefore(t) <=>
              <<r, s>> \in ReportedBefore(q) \cup (Reported(q) \X {e.request})
      BY <2>3
    <3>. QED
      BY <3>1, <3>2, <3>3, SamePairs
  <2>5. ASSUME e.request \notin Reported(q) PROVE OneResult(t)
    <3>1. \A k \in Results(q) : q[k].request # e.request
      BY <2>5, ReportedOf
    <3>. QED
      BY <1>1, <1>3, <2>0, <3>1 DEF OneResult
  <2>. QED
    BY <1>1, <1>7, <2>2, <2>4, <2>5 DEF t
<1>. QED
  BY <1>6, <1>7

\* What delivering the oldest event does to it.
LEMMA TailReports ==
  ASSUME NEW q \in Seq(Event), q # <<>>, OneResult(q)
  PROVE  LET t == Tail(q)
             e == Head(q)
         IN  /\ OneResult(t)
             /\ e.kind # "result" =>
                  /\ Reported(t) = Reported(q)
                  /\ ReportedBefore(t) = ReportedBefore(q)
             /\ e.kind = "result" =>
                  /\ e.request \in Reported(q)
                  /\ \A s \in Reported(q) :
                       <<s, e.request>> \notin ReportedBefore(q)
                  /\ Reported(t) = Reported(q) \ {e.request}
                  /\ ReportedBefore(t)
                       = ReportedBefore(q) \ ({e.request} \X Reported(q))
<1> DEFINE t == Tail(q)
           e == Head(q)
           n == Len(q)
<1>1. /\ t \in Seq(Event) /\ Len(t) = n - 1 /\ n \in Nat \ {0}
      /\ \A k \in 1 .. (n - 1) : t[k] = q[k + 1]
      /\ e = q[1]
  OBVIOUS
<1>. HIDE DEF t, e
<1>2. /\ \A k : k \in Results(q) <=> k \in 1 .. n /\ q[k].kind = "result"
      /\ \A k : k \in Results(t) <=> k \in 1 .. (n - 1) /\ t[k].kind = "result"
  BY <1>1, ResultsOf
<1>. HIDE DEF n
<1>3. \A k \in Results(t) :
        /\ k \in Int /\ k + 1 \in Results(q) /\ k + 1 # 1
        /\ t[k] = q[k + 1]
  <2> SUFFICES ASSUME NEW k \in Results(t)
               PROVE  /\ k \in Int /\ k + 1 \in Results(q) /\ k + 1 # 1
                      /\ t[k] = q[k + 1]
    OBVIOUS
  <2>1. k \in 1 .. (n - 1) /\ t[k].kind = "result"
    BY <1>2
  <2>2. t[k] = q[k + 1]
    BY <1>1, <2>1
  <2>3. k \in Int /\ k + 1 \in 1 .. n /\ k + 1 # 1
    BY <1>1, <2>1
  <2>. QED
    BY <1>2, <2>1, <2>2, <2>3
<1>4. \A k \in Results(q) : k # 1 =>
        k - 1 \in Results(t) /\ t[k - 1] = q[k]
  <2> SUFFICES ASSUME NEW k \in Results(q), k # 1
               PROVE  k - 1 \in Results(t) /\ t[k - 1] = q[k]
    OBVIOUS
  <2>1. k \in 1 .. n /\ q[k].kind = "result"
    BY <1>2
  <2>2. k - 1 \in 1 .. (n - 1) /\ (k - 1) + 1 = k
    BY <1>1, <2>1
  <2>3. t[k - 1] = q[k]
    BY <1>1, <2>2
  <2>. QED
    BY <1>2, <2>1, <2>2, <2>3
<1>5. \A k \in Results(q) : k \in Int /\ 1 <= k
  BY <1>1, <1>2
<1>6. 1 \in Results(q) <=> e.kind = "result"
  BY <1>1, <1>2
<1>7. OneResult(t)
  BY <1>3 DEF OneResult
<1>8. ASSUME NEW r
      PROVE  r \in Reported(t) <=>
               \E k \in Results(q) : k # 1 /\ q[k].request = r
  BY <1>3, <1>4, ReportedOf
<1>9. ASSUME NEW r, NEW s
      PROVE  <<r, s>> \in ReportedBefore(t) <=>
               \E k, l \in Results(q) :
                 k # 1 /\ k < l /\ q[k].request = r /\ q[l].request = s
  <2>1. ASSUME <<r, s>> \in ReportedBefore(t)
        PROVE  \E k, l \in Results(q) :
                 k # 1 /\ k < l /\ q[k].request = r /\ q[l].request = s
    <3>1. PICK k, l \in Results(t) :
            k < l /\ t[k].request = r /\ t[l].request = s
      BY <2>1, ReportedBeforeOf
    <3>2. /\ k + 1 \in Results(q) /\ l + 1 \in Results(q) /\ k + 1 # 1
          /\ q[k + 1].request = r /\ q[l + 1].request = s
          /\ k + 1 < l + 1
      BY <1>3, <3>1
    <3>. QED
      BY <3>2
  <2>2. ASSUME NEW k \in Results(q), NEW l \in Results(q),
               k # 1, k < l, q[k].request = r, q[l].request = s
        PROVE  <<r, s>> \in ReportedBefore(t)
    <3>1. l # 1 /\ k - 1 < l - 1
      BY <1>5, <2>2
    <3>2. /\ k - 1 \in Results(t) /\ l - 1 \in Results(t)
          /\ t[k - 1].request = r /\ t[l - 1].request = s
      BY <1>4, <2>2, <3>1
    <3>. QED
      BY <3>1, <3>2, ReportedBeforeOf
  <2>. QED
    BY <2>1, <2>2
<1>10. CASE e.kind # "result"
  <2>0. 1 \notin Results(q)
    BY <1>6, <1>10
  <2>1. \A r : r \in Reported(t) <=> r \in Reported(q)
    BY <1>8, <2>0, ReportedOf
  <2>2. Reported(t) = Reported(q)
    BY <2>1
  <2>3. ASSUME NEW r, NEW s
        PROVE  <<r, s>> \in ReportedBefore(t) <=> <<r, s>> \in ReportedBefore(q)
    <3>1. \A k, l \in Results(q) :
            k # 1 /\ k < l /\ q[k].request = r /\ q[l].request = s
              <=> k < l /\ q[k].request = r /\ q[l].request = s
      BY <2>0
    <3>. QED
      BY <1>9, <3>1, ReportedBeforeOf
  <2>4. ReportedBefore(t) = ReportedBefore(q)
    <3>1. /\ ReportedBefore(t) \subseteq Reported(q) \X Reported(q)
          /\ ReportedBefore(q) \subseteq Reported(q) \X Reported(q)
      BY <2>2, BeforeIsPairs
    <3>. QED
      BY <2>3, <3>1, SamePairs
  <2>. QED
    BY <1>7, <1>10, <2>2, <2>4 DEF t, e
<1>11. CASE e.kind = "result"
  <2>0. 1 \in Results(q) /\ q[1].request = e.request
    BY <1>1, <1>6, <1>11
  <2>1. \A k \in Results(q) : q[k].request = e.request <=> k = 1
    BY <2>0 DEF OneResult
  <2>2. e.request \in Reported(q)
    BY <2>0, ReportedOf
  <2>3. ASSUME NEW s PROVE <<s, e.request>> \notin ReportedBefore(q)
    BY <1>5, <2>1, ReportedBeforeOf
  <2>4. \A r : r \in Reported(t) <=> r \in Reported(q) /\ r # e.request
    BY <1>8, <2>1, ReportedOf
  <2>5. Reported(t) = Reported(q) \ {e.request}
    BY <2>4
  <2>6. ASSUME NEW r, NEW s
        PROVE  <<r, s>> \in ReportedBefore(t) <=>
                 <<r, s>> \in ReportedBefore(q) /\ r # e.request
    <3>1. ASSUME <<r, s>> \in ReportedBefore(t)
          PROVE  <<r, s>> \in ReportedBefore(q) /\ r # e.request
      <4>1. PICK k, l \in Results(q) :
              k # 1 /\ k < l /\ q[k].request = r /\ q[l].request = s
        BY <1>9, <3>1
      <4>. QED
        BY <2>1, <4>1, ReportedBeforeOf
    <3>2. ASSUME <<r, s>> \in ReportedBefore(q), r # e.request
          PROVE  <<r, s>> \in ReportedBefore(t)
      <4>1. PICK k, l \in Results(q) :
              k < l /\ q[k].request = r /\ q[l].request = s
        BY <3>2, ReportedBeforeOf
      <4>2. k # 1
        BY <2>0, <3>2, <4>1
      <4>. QED
        BY <1>9, <4>1, <4>2
    <3>. QED
      BY <3>1, <3>2
  <2>7. ReportedBefore(t)
          = ReportedBefore(q) \ ({e.request} \X Reported(q))
    <3>1. /\ ReportedBefore(t) \subseteq Reported(t) \X Reported(t)
          /\ ReportedBefore(q) \subseteq Reported(q) \X Reported(q)
      BY BeforeIsPairs
    <3>2. ReportedBefore(t) \subseteq Reported(q) \X Reported(q)
      BY <2>5, <3>1
    <3>3. \A r \in Reported(q), s \in Reported(q) :
            <<r, s>> \in ReportedBefore(t) <=>
              <<r, s>> \in ReportedBefore(q) \ ({e.request} \X Reported(q))
      BY <2>6
    <3>. QED
      BY <3>1, <3>2, <3>3, SamePairs
  <2>. QED
    BY <1>7, <1>11, <2>2, <2>3, <2>5, <2>7 DEF t, e
<1>. QED
  BY <1>10, <1>11

-----------------------------------------------------------------------------
(* What is waiting to be heard                                               *)

LEMMA PushedType == TypeOK => Pushed \in Seq(Event)
BY DEF TypeOK, Pushed

LEMMA PushedAppends ==
  ASSUME TypeOK, NEW e \in Event, dispatch' = Append(dispatch, e),
         events' = events
  PROVE  Pushed' = Append(Pushed, e)
<1>1. events \in Seq(Event) /\ dispatch \in Seq(Event)
  BY DEF TypeOK
<1>. QED
  BY <1>1 DEF Pushed

LEMMA PushedDelivered ==
  ASSUME TypeOK, events # <<>>, events' = Tail(events), dispatch' = dispatch
  PROVE  /\ Pushed # <<>> /\ Pushed' = Tail(Pushed)
         /\ Head(Pushed) = Head(events)
<1>1. events \in Seq(Event) /\ dispatch \in Seq(Event)
  BY DEF TypeOK
<1>. QED
  BY <1>1 DEF Pushed

-----------------------------------------------------------------------------
(* One step of the pipeline and the promise                                  *)

\* The step keeps commands in one place, and is a step of the promise or none.
Implements == InvOpen' /\ InvReports' /\ [Promise!Next]_(Promise!vars)

LEMMA InFlightOf ==
  ASSUME NEW r
  PROVE  /\ r \in InFlight <=>
              \E w \in Workers : Held(w) /\ job[w].request = r
         /\ r \in InFlight' <=>
              \E w \in Workers : Held(w)' /\ job'[w].request = r
BY DEF InFlight, Held, Busy

\* The workers hold the commands they held.
SameHands ==
  \A w \in Workers : /\ Held(w)' <=> Held(w)
                     /\ Held(w) => job'[w].request = job[w].request

SameReports ==
  /\ Reported(Pushed') = Reported(Pushed)
  /\ ReportedBefore(Pushed') = ReportedBefore(Pushed)
  /\ OneResult(Pushed')
  /\ UNCHANGED heard

LEMMA SameInFlight ==
  ASSUME SameHands
  PROVE  InFlight' = InFlight
<1>1. \A r : r \in InFlight' <=> r \in InFlight
  BY InFlightOf DEF SameHands
<1>. QED
  BY <1>1

\* A step that the promise does not see.
LEMMA QuietStep ==
  ASSUME InvOpen, InvReports, SameHands, SameReports, UNCHANGED dropped,
         Commands(jobs') = Commands(jobs), Once(jobs')
  PROVE  Implements
<1>1. InFlight' = InFlight
  BY SameInFlight
<1>2. InvOpen'
  BY DEF InvOpen, SameHands
<1>3. InvReports'
  BY <1>1 DEF InvReports, SameReports
<1>4. UNCHANGED Promise!vars
  BY <1>1 DEF SameReports, Promise!vars
<1>. QED
  BY <1>2, <1>3, <1>4 DEF Implements

\* Steps that leave the queues and the workers alone.
LEMMA UntouchedStep ==
  ASSUME InvOpen, InvReports, UNCHANGED <<jobs, pushVars, dropped>>, SameHands
  PROVE  Implements
<1>1. UNCHANGED <<dispatch, events, heard>>
  BY DEF pushVars
<1>2. Pushed' = Pushed
  BY <1>1 DEF Pushed
<1>3. SameReports
  BY <1>1, <1>2 DEF InvReports, SameReports
<1>4. Commands(jobs') = Commands(jobs) /\ Once(jobs')
  BY DEF InvOpen
<1>. QED
  BY <1>3, <1>4, QuietStep

\* Jobs that are no commands.
LEMMA OtherJobStep ==
  ASSUME TypeOK, InvOpen, InvReports, NEW j \in Job, j.kind # "command",
         Enqueue(j), UNCHANGED <<pushVars, dropped>>, SameHands
  PROVE  Implements
<1>1. UNCHANGED <<dispatch, events, heard>>
  BY DEF pushVars
<1>2. Pushed' = Pushed
  BY <1>1 DEF Pushed
<1>3. SameReports
  BY <1>1, <1>2 DEF InvReports, SameReports
<1>4. Commands(jobs') = Commands(jobs) /\ Once(jobs')
  BY EnqueueCommands DEF TypeOK, InvOpen
<1>. QED
  BY <1>3, <1>4, QuietStep

\* Events that are no results.
LEMMA OtherEventStep ==
  ASSUME TypeOK, InvOpen, InvReports, NEW e \in Event, e.kind # "result",
         dispatch' = Append(dispatch, e),
         UNCHANGED <<jobs, events, heard, dropped>>, SameHands
  PROVE  Implements
<1>1. Pushed' = Append(Pushed, e) /\ Pushed \in Seq(Event)
  BY PushedAppends, PushedType
<1>2. SameReports
  BY <1>1, AppendReports DEF InvReports, SameReports
<1>3. Commands(jobs') = Commands(jobs) /\ Once(jobs')
  BY DEF InvOpen
<1>. QED
  BY <1>2, <1>3, QuietStep

LEMMA KeptHands ==
  ASSUME UNCHANGED workerVars
  PROVE  SameHands
BY DEF workerVars, SameHands, Held, Busy

-----------------------------------------------------------------------------
(* Commands                                                                  *)

\* Every id in the pipeline was given out, and those are ids of the promise.
LEMMA IdsAreKnown ==
  ASSUME PipelineInv, InvClaims
  PROVE  /\ Commands(jobs) \cup InFlight \cup Reported(Pushed) \cup heard
              \cup dropped \subseteq 1 .. nextRequest
         /\ nextRequest \in Nat /\ nextRequest <= claimed
         /\ 1 .. nextRequest \subseteq Requests
<1>0. /\ TypeOK /\ InvJobs /\ InvWorkers /\ InvEvents
      /\ events \in Seq(Event) /\ dispatch \in Seq(Event)
  BY DEF PipelineInv, TypeOK
<1>1. Commands(jobs) \subseteq 1 .. nextRequest
  BY <1>0, CommandsHaveIds
<1>2. InFlight \subseteq 1 .. nextRequest
  BY <1>0 DEF InFlight, InvWorkers, Sound
<1>3. \A k \in 1 .. Len(Pushed) : Answers(Pushed[k])
  BY <1>0 DEF Pushed, InvEvents
<1>4. Reported(Pushed) \subseteq 1 .. nextRequest
  <2>1. Pushed \in Seq(Event)
    BY <1>0, PushedType
  <2>2. \A k \in Results(Pushed) : Pushed[k].request \in 1 .. nextRequest
    BY <1>3, <2>1, ResultsOf DEF Answers
  <2>. QED
    BY <2>2 DEF Reported
<1>5. heard \cup dropped \subseteq 1 .. nextRequest
  BY <1>0 DEF TypeOK
<1>6. Waiting \in Nat
  <2>1. IsFiniteSet(Ids)
    BY BoundsAssumption, FS_Interval DEF Ids, BoundsAssumption
  <2>2. Cardinality(found) \in Nat /\ Cardinality(todo) \in Nat
    BY <1>0, <2>1, FS_Subset, FS_CardinalityType DEF TypeOK
  <2>. QED
    BY <2>2 DEF Waiting
<1>7. nextRequest \in Nat /\ claimed \in 0 .. MaxJobs /\ MaxJobs \in Nat
  BY <1>0, BoundsAssumption DEF TypeOK, BoundsAssumption
<1>8. nextRequest <= claimed /\ 1 .. nextRequest \subseteq Requests
  BY <1>6, <1>7 DEF InvClaims, Requests
<1>. QED
  BY <1>1, <1>2, <1>4, <1>5, <1>7, <1>8

\* A native accepts a command.
LEMMA EnqueueCommandImplements ==
  ASSUME PromiseInv, NEW i \in Ids, EnqueueCommand(i)
  PROVE  Implements
<1> DEFINE r == nextRequest + 1
           j == NewJob("command", i, r)
<1>0. TypeOK /\ InvOpen /\ InvReports /\ PipelineInv /\ InvClaims
  BY DEF PromiseInv, PipelineInv
<1>1. /\ Enqueue(j) /\ claimed + 1 <= MaxJobs
      /\ UNCHANGED <<dispatch, events, heard, dropped>> /\ UNCHANGED workerVars
  BY DEF EnqueueCommand, Claim, pushVars, poolVars
<1>2. j \in Job /\ j.kind = "command" /\ j.request = r
  <2>1. r \in Nat /\ "command" \in JobKinds
    BY <1>0 DEF TypeOK, JobKinds
  <2>. QED
    BY <1>0, <2>1, NewJobType
<1>. HIDE DEF j
<1>3. /\ r \notin Commands(jobs) \cup InFlight \cup Reported(Pushed)
                    \cup heard \cup dropped
      /\ r \in Requests
  <2>1. nextRequest \in Nat /\ claimed \in Nat /\ MaxJobs \in Nat
    BY <1>0, BoundsAssumption DEF TypeOK, BoundsAssumption
  <2>2. r \notin 1 .. nextRequest
    BY <2>1
  <2>3. r \in Requests
    BY <1>0, <1>1, <2>1, IdsAreKnown DEF Requests
  <2>. HIDE DEF r
  <2>. QED
    BY <1>0, <2>2, <2>3, IdsAreKnown
<1>4. Commands(jobs') = Commands(jobs) \cup {r} /\ Once(jobs')
  BY <1>0, <1>1, <1>2, <1>3, EnqueueCommands DEF TypeOK, InvOpen
<1>. HIDE DEF r
<1>5. SameHands /\ InFlight' = InFlight
  BY <1>1, KeptHands, SameInFlight
<1>6. Pushed' = Pushed
  BY <1>1 DEF Pushed
<1>7. InvOpen'
  <2>1. \A w \in Workers : Held(w) => job[w].request # r
    BY <1>3, InFlightOf
  <2>. QED
    BY <1>0, <1>4, <1>5, <2>1 DEF InvOpen, SameHands
<1>8. InvReports'
  BY <1>0, <1>3, <1>4, <1>5, <1>6 DEF InvReports
<1>9. Promise!Accept(r)
  BY <1>1, <1>3, <1>4, <1>5, <1>6 DEF Promise!Accept
<1>. QED
  BY <1>3, <1>7, <1>8, <1>9 DEF Implements, Promise!Next

\* A worker takes a job.
LEMMA TakeJobImplements ==
  ASSUME PromiseInv, NEW w \in Workers, TakeJob(w)
  PROVE  Implements
<1> DEFINE j == jobs[1]
           r == jobs[1].request
<1>0. /\ TypeOK /\ InvOpen /\ InvReports
      /\ pc \in [Workers -> WorkerPoints] /\ job \in [Workers -> Job]
  BY DEF PromiseInv, PipelineInv, TypeOK
<1>1. /\ jobs \in Seq(Job) /\ jobs # <<>> /\ jobs' = Tail(jobs) /\ Once(jobs)
      /\ UNCHANGED <<dispatch, events, heard, dropped>>
  BY <1>0 DEF TakeJob, TypeOK, InvOpen, pushVars, poolVars
<1>2. /\ Head(jobs) = j /\ Once(jobs')
      /\ j.kind # "command" => Commands(jobs') = Commands(jobs)
      /\ j.kind = "command" => /\ r \in Commands(jobs)
                               /\ Commands(jobs') = Commands(jobs) \ {r}
  BY <1>1, TailCommands
<1>. HIDE DEF j, r
<1>3. Pushed' = Pushed
  BY <1>1 DEF Pushed
<1>4. SameReports
  BY <1>0, <1>1, <1>3 DEF InvReports, SameReports
<1>5. CASE j.kind = "register" /\ j.station \notin live
  <2>1. SameHands
    BY <1>2, <1>5, KeptHands DEF TakeJob
  <2>. QED
    BY <1>0, <1>1, <1>2, <1>4, <1>5, <2>1, QuietStep
<1>6. CASE ~(j.kind = "register" /\ j.station \notin live)
  <2>1. /\ pc[w] = "idle"
        /\ job' = [job EXCEPT ![w] = j]
        /\ pc' = [pc EXCEPT ![w] = IF j.kind = "register"
                                   THEN "register" ELSE "calling"]
    BY <1>2, <1>6 DEF TakeJob
  <2>2. \A v \in Workers \ {w} :
          (Held(v)' <=> Held(v)) /\ job'[v] = job[v]
    BY <1>0, <2>1 DEF Held, Busy
  <2>3. ~Held(w) /\ (Held(w)' <=> j.kind = "command") /\ job'[w] = j
    BY <1>0, <2>1 DEF Held, Busy
  <2>4. CASE j.kind # "command"
    <3>1. SameHands
      BY <2>2, <2>3, <2>4 DEF SameHands
    <3>. QED
      BY <1>0, <1>1, <1>2, <1>4, <2>4, <3>1, QuietStep
  <2>5. CASE j.kind = "command"
    <3>1. /\ r \in Commands(jobs) /\ Commands(jobs') = Commands(jobs) \ {r}
          /\ Held(w)' /\ job'[w].request = r
      BY <1>2, <2>3, <2>5 DEF j, r
    <3>2. \A x : x \in InFlight' <=> x \in InFlight \/ x = r
      BY <2>2, <2>3, <3>1, InFlightOf
    <3>3. InFlight' = InFlight \cup {r}
      BY <3>2
    <3>4. Commands(jobs') \cup InFlight' = Commands(jobs) \cup InFlight
      BY <3>1, <3>3
    <3>5. InvOpen'
      <4>1. \A v \in Workers : Held(v) => job[v].request # r
        BY <1>0, <3>1 DEF InvOpen
      <4>2. ASSUME NEW v \in Workers, Held(v)'
            PROVE  job'[v].request \notin Commands(jobs')
        BY <1>0, <2>2, <2>3, <3>1, <4>2 DEF InvOpen
      <4>3. ASSUME NEW u \in Workers, NEW v \in Workers, Held(u)', Held(v)',
                   job'[u].request = job'[v].request
            PROVE  u = v
        <5>1. CASE u = w
          BY <2>2, <3>1, <4>1, <4>3, <5>1
        <5>2. CASE v = w
          BY <2>2, <3>1, <4>1, <4>3, <5>2
        <5>3. CASE u # w /\ v # w
          BY <1>0, <2>2, <4>3, <5>3 DEF InvOpen
        <5>. QED
          BY <5>1, <5>2, <5>3
      <4>. QED
        BY <1>2, <4>2, <4>3 DEF InvOpen
    <3>6. InvReports'
      BY <1>0, <1>3, <3>4 DEF InvReports
    <3>7. UNCHANGED Promise!vars
      BY <1>1, <1>3, <3>4 DEF Promise!vars
    <3>. QED
      BY <3>5, <3>6, <3>7 DEF Implements
  <2>. QED
    BY <2>4, <2>5
<1>. QED
  BY <1>5, <1>6

\* A worker pushes the one result of its command.
LEMMA ReportImplements ==
  ASSUME PromiseInv, NEW w \in Workers, Held(w), Returns(w),
         UNCHANGED <<jobs, heard, dropped>>,
         Reported(Pushed') = Reported(Pushed) \cup {job[w].request},
         ReportedBefore(Pushed')
           = ReportedBefore(Pushed) \cup (Reported(Pushed) \X {job[w].request}),
         job[w].request \notin Reported(Pushed) => OneResult(Pushed')
  PROVE  Implements
<1> DEFINE r == job[w].request
<1>0. /\ TypeOK /\ InvOpen /\ InvReports /\ PipelineInv /\ InvClaims
      /\ pc \in [Workers -> WorkerPoints] /\ job \in [Workers -> Job]
  BY DEF PromiseInv, PipelineInv, TypeOK
<1>1. \A v \in Workers \ {w} : (Held(v)' <=> Held(v)) /\ job'[v] = job[v]
  BY <1>0 DEF Returns, Held, Busy
<1>2. ~Held(w)'
  BY <1>0 DEF Returns, Held, Busy
<1>3. r \in InFlight /\ r \notin Commands(jobs) /\ r \in Requests
  <2>1. r \in InFlight
    BY InFlightOf
  <2>. QED
    BY <1>0, <2>1, IdsAreKnown DEF InvOpen
<1>4. \A v \in Workers \ {w} : Held(v) => job[v].request # r
  BY <1>0 DEF InvOpen
<1>5. \A x : x \in InFlight' <=> x \in InFlight /\ x # r
  BY <1>1, <1>2, <1>4, InFlightOf
<1>6. InFlight' = InFlight \ {r}
  BY <1>5
<1>7. InvOpen'
  BY <1>0, <1>1, <1>2 DEF InvOpen
<1>8. r \notin Reported(Pushed)
  BY <1>0, <1>3 DEF InvReports
<1>9. InvReports'
  BY <1>0, <1>3, <1>6, <1>8 DEF InvReports
<1>10. Promise!Report(r)
  BY <1>3, <1>6 DEF Promise!Report
<1>. QED
  BY <1>3, <1>7, <1>9, <1>10 DEF Implements, Promise!Next

\* A call that succeeds, or fails: a command has its one result either way.
LEMMA CallImplements ==
  ASSUME PromiseInv, NEW w \in Workers, CallSucceeds(w) \/ CallFails(w)
  PROVE  Implements
<1> DEFINE j == job[w]
           error  == [kind |-> "error", station |-> j.station, request |-> 0]
           result == [kind |-> "result", station |-> j.station,
                      request |-> j.request]
<1>0. /\ TypeOK /\ InvOpen /\ InvReports /\ InvWorkers
      /\ pc \in [Workers -> WorkerPoints] /\ job \in [Workers -> Job]
      /\ j \in Job
      /\ Pushed \in Seq(Event) /\ OneResult(Pushed)
      /\ dispatch \in Seq(Event) /\ events \in Seq(Event)
  BY PushedType DEF PromiseInv, PipelineInv, TypeOK, InvReports
<1>1. /\ Returns(w) /\ UNCHANGED <<jobs, events, heard, dropped>> /\ Busy(w)
  BY DEF CallSucceeds, CallFails, poolVars, Busy
<1>2. \A v \in Workers \ {w} : (Held(v)' <=> Held(v)) /\ job'[v] = job[v]
  BY <1>0, <1>1 DEF Returns, Held, Busy
<1>3. ~Held(w)'
  BY <1>0, <1>1 DEF Returns, Held, Busy
<1>4. /\ error \in Event /\ error.kind = "error"
      /\ result \in Event /\ result.kind = "result"
      /\ result.request = job[w].request
  BY <1>0 DEF Event, EventKinds, Job
<1>5. j.kind = "command" <=> Held(w)
  BY <1>1 DEF Held
<1>6. j.kind # "command" => SameHands
  BY <1>2, <1>3, <1>5 DEF SameHands
<1>7. CASE j.kind = "unregister"
  <2>1. dispatch' = dispatch
    <3>1. FailureEvents(j) = <<>>
      BY <1>7 DEF FailureEvents
    <3>2. CallFails(w) => dispatch' = dispatch
      BY <1>0, <3>1 DEF CallFails
    <3>. QED
      BY <1>7, <3>2 DEF CallSucceeds
  <2>2. UNCHANGED <<jobs, pushVars, dropped>>
    BY <1>1, <2>1 DEF pushVars
  <2>. QED
    BY <1>0, <1>6, <1>7, <2>2, UntouchedStep
<1>8. CASE j.kind \notin {"unregister", "command"}
  <2>1. PICK e \in Event : e.kind # "result" /\ dispatch' = Append(dispatch, e)
    <3>1. CASE CallSucceeds(w)
      <4>1. j.kind # "register"
        BY <1>0, <3>1 DEF CallSucceeds, InvWorkers, Busy, RegisterPoints
      <4>2. j.kind \in {"status", "list", "info"}
        BY <1>0, <1>8, <4>1 DEF Job, JobKinds
      <4>3. EventOf[j.kind] \in EventKinds \ {"result"}
        BY <4>2 DEF EventOf, EventKinds
      <4>4. [kind |-> EventOf[j.kind], station |-> j.station, request |-> 0]
              \in Event
        BY <1>0, <4>3 DEF Event, Job
      <4>5. dispatch' = Append(dispatch,
              [kind |-> EventOf[j.kind], station |-> j.station, request |-> 0])
        BY <1>8, <3>1 DEF CallSucceeds, Push
      <4>. QED
        BY <4>3, <4>4, <4>5
    <3>2. CASE CallFails(w)
      <4>1. FailureEvents(j) = <<error>>
        BY <1>8 DEF FailureEvents
      <4>2. dispatch' = dispatch \o <<error>>
        BY <3>2, <4>1 DEF CallFails
      <4>. HIDE DEF error
      <4>3. dispatch' = Append(dispatch, error)
        BY <1>0, <1>4, <4>2
      <4>. QED
        BY <1>4, <4>3
    <3>. QED
      BY <3>1, <3>2
  <2>. QED
    BY <1>0, <1>1, <1>6, <1>8, <2>1, OtherEventStep
<1>9. CASE j.kind = "command"
  <2>0. Held(w)
    BY <1>5, <1>9
  <2> DEFINE t == Append(Pushed, result)
  <2>1. /\ t \in Seq(Event)
        /\ Reported(t) = Reported(Pushed) \cup {result.request}
        /\ ReportedBefore(t)
             = ReportedBefore(Pushed) \cup (Reported(Pushed) \X {result.request})
        /\ result.request \notin Reported(Pushed) => OneResult(t)
    <3>. HIDE DEF result
    <3>. QED
      BY <1>0, <1>4, AppendReports
  <2>2. CASE CallSucceeds(w)
    <3>1. dispatch' = Append(dispatch, result)
      BY <1>9, <2>2 DEF CallSucceeds, Push, EventOf
    <3>2. Pushed' = t
      <4>. HIDE DEF result
      <4>. QED
        BY <1>0, <1>1, <1>4, <3>1, PushedAppends DEF t
    <3>. HIDE DEF result, t
    <3>. QED
      BY <1>1, <1>4, <2>0, <2>1, <3>2, ReportImplements
  <2>3. CASE CallFails(w)
    <3>1. FailureEvents(j) = <<result, error>>
      BY <1>9 DEF FailureEvents
    <3>2. dispatch' = dispatch \o <<result, error>>
      BY <2>3, <3>1 DEF CallFails
    <3>3. Pushed' = Append(t, error)
      <4>. HIDE DEF result, error
      <4>1. dispatch' = Append(Append(dispatch, result), error)
        BY <1>0, <1>4, <3>2
      <4>2. /\ Append(dispatch, result) \in Seq(Event)
            /\ events \o Append(dispatch, result) = t
        BY <1>0, <1>4 DEF Pushed
      <4>. HIDE DEF t
      <4>3. \A q \in Seq(Event) :
              events \o Append(q, error) = Append(events \o q, error)
        BY <1>0, <1>4
      <4>. QED
        BY <1>1, <4>1, <4>2, <4>3 DEF Pushed
    <3>. HIDE DEF result, error, t
    <3>4. result.request \notin Reported(Pushed) =>
            /\ Reported(Pushed') = Reported(t)
            /\ ReportedBefore(Pushed') = ReportedBefore(t)
            /\ OneResult(Pushed')
      BY <1>4, <2>1, <3>3, AppendReports
    <3>5. result.request \notin Reported(Pushed)
      <4>1. job[w].request \in InFlight
        BY <2>0, InFlightOf
      <4>. QED
        BY <1>0, <1>4, <4>1 DEF InvReports
    <3>. QED
      BY <1>1, <1>4, <2>0, <2>1, <3>4, <3>5, ReportImplements
  <2>. QED
    BY <2>2, <2>3
<1>. QED
  BY <1>7, <1>8, <1>9

\* StopWorkers gives up the commands it clears.
LEMMA ClearJobsImplements ==
  ASSUME PromiseInv, ClearJobs
  PROVE  Implements
<1>0. InvOpen /\ InvReports
  BY DEF PromiseInv
<1>1. /\ jobs' = <<>> /\ UNCHANGED <<dispatch, events, heard>>
      /\ dropped' = dropped \cup (Commands(jobs) \ Commands(jobs'))
      /\ UNCHANGED workerVars
  BY DEF ClearJobs, JobsCleared, pushVars
<1>2. Commands(jobs') = {} /\ Once(jobs')
  BY <1>1 DEF Commands, Once
<1>3. SameHands /\ InFlight' = InFlight
  BY <1>1, KeptHands, SameInFlight
<1>4. Pushed' = Pushed
  BY <1>1 DEF Pushed
<1>5. InvOpen'
  BY <1>0, <1>2, <1>3 DEF InvOpen, SameHands
<1>6. InvReports'
  BY <1>0, <1>2, <1>3, <1>4 DEF InvReports
<1>7. Promise!GiveUp
  <2>1. Commands(jobs) \cap InFlight = {}
    BY <1>0, InFlightOf DEF InvOpen
  <2>2. /\ Commands(jobs') \cup InFlight'
             = (Commands(jobs) \cup InFlight) \ Commands(jobs)
        /\ dropped' = dropped \cup Commands(jobs)
    BY <1>1, <1>2, <1>3, <2>1
  <2>3. Commands(jobs) \in SUBSET (Commands(jobs) \cup InFlight)
    OBVIOUS
  <2>4. /\ Reported(Pushed') = Reported(Pushed)
        /\ ReportedBefore(Pushed') = ReportedBefore(Pushed)
        /\ heard' = heard
    BY <1>1, <1>4
  <2>. QED
    BY <2>2, <2>3, <2>4 DEF Promise!GiveUp
<1>. QED
  BY <1>5, <1>6, <1>7 DEF Implements, Promise!Next

\* The main thread runs the oldest callback.
LEMMA DeliverImplements ==
  ASSUME PromiseInv, Deliver
  PROVE  Implements
<1> DEFINE e == Head(events)
           r == Head(events).request
<1>0. /\ TypeOK /\ InvOpen /\ InvReports /\ PipelineInv /\ InvClaims
      /\ Pushed \in Seq(Event) /\ OneResult(Pushed)
  BY PushedType DEF PromiseInv, PipelineInv, InvReports
<1>1. /\ events # <<>> /\ events' = Tail(events) /\ dispatch' = dispatch
      /\ UNCHANGED <<jobs, dropped>> /\ UNCHANGED workerVars
      /\ heard' = IF e.kind = "result" THEN heard \cup {r} ELSE heard
  BY DEF Deliver, Concludes, poolVars
<1>2. Pushed # <<>> /\ Pushed' = Tail(Pushed) /\ Head(Pushed) = e
  BY <1>0, <1>1, PushedDelivered
<1>. HIDE DEF e
<1>3. SameHands /\ InFlight' = InFlight
  BY <1>1, KeptHands, SameInFlight
<1>4. CASE e.kind # "result"
  <2>1. SameReports
    BY <1>0, <1>1, <1>2, <1>4, TailReports DEF SameReports
  <2>. QED
    BY <1>0, <1>1, <1>3, <2>1, QuietStep DEF InvOpen
<1>5. CASE e.kind = "result"
  <2>0. r = e.request
    BY DEF e
  <2>. HIDE DEF r
  <2>1. /\ OneResult(Pushed')
        /\ r \in Reported(Pushed)
        /\ \A s \in Reported(Pushed) : <<s, r>> \notin ReportedBefore(Pushed)
        /\ Reported(Pushed') = Reported(Pushed) \ {r}
        /\ ReportedBefore(Pushed')
             = ReportedBefore(Pushed) \ ({r} \X Reported(Pushed))
    BY <1>0, <1>2, <1>5, <2>0, TailReports
  <2>2. InvOpen'
    BY <1>0, <1>1, <1>3 DEF InvOpen, SameHands
  <2>3. InvReports'
    BY <1>0, <1>1, <1>3, <2>1 DEF InvReports
  <2>4. Promise!Hear(r)
    BY <1>1, <1>3, <1>5, <2>1 DEF Promise!Hear
  <2>5. r \in Requests
    BY <1>0, <2>1, IdsAreKnown
  <2>. QED
    BY <2>2, <2>3, <2>4, <2>5 DEF Implements, Promise!Next
<1>. QED
  BY <1>4, <1>5

\* A pool starts when no worker is left.
LEMMA StartPoolImplements ==
  ASSUME PromiseInv, StartPool, \A w \in Workers : pc[w] = "ended",
         UNCHANGED <<pushVars, dropped>>
  PROVE  Implements
<1> DEFINE j == [NewJob("info", NoStation, 0) EXCEPT !.pool = pool + 1]
<1>1. TypeOK /\ InvOpen /\ InvReports
  BY DEF PromiseInv, PipelineInv
<1>2. j \in Job /\ j.kind # "command"
  <2>1. "info" \in JobKinds /\ NoStation \in Ids \cup {NoStation} /\ 0 \in Nat
    BY DEF JobKinds
  <2>2. /\ NewJob("info", NoStation, 0) \in Job
        /\ NewJob("info", NoStation, 0).kind = "info"
    BY <1>1, <2>1, NewJobType
  <2>3. pool + 1 \in Nat
    BY <1>1 DEF TypeOK
  <2>. QED
    BY <2>2, <2>3 DEF Job
<1>3. Enqueue(j)
  BY DEF StartPool
<1>4. SameHands
  BY DEF SameHands, Held, Busy, StartPool
<1>. HIDE DEF j
<1>. QED
  BY <1>1, <1>2, <1>3, <1>4, OtherJobStep

\* The other steps of a worker.
LEMMA OtherWorkerImplements ==
  ASSUME PromiseInv, NEW w \in Workers,
         \/ WorkerLeaves(w) \/ ServerPerforms(w) \/ Repeats(w)
         \/ RegisterChecks(w) \/ RegisterEnds(w) \/ RegisterFails(w)
         \/ RegisterBackoffEnds(w)
  PROVE  Implements
<1>0. /\ TypeOK /\ InvOpen /\ InvReports /\ InvHands
      /\ pc \in [Workers -> WorkerPoints] /\ job \in [Workers -> Job]
  BY DEF PromiseInv, PipelineInv, TypeOK
<1>1. ASSUME job' = job, NEW p, pc' = [pc EXCEPT ![w] = p],
             p \notin {"idle", "ended"} <=> Busy(w)
      PROVE  SameHands
  BY <1>0, <1>1 DEF SameHands, Held, Busy
<1>2. ASSUME Returns(w), job[w].kind # "command" PROVE SameHands
  BY <1>0, <1>2 DEF Returns, SameHands, Held, Busy
<1>3. CASE WorkerLeaves(w)
  <2>1. SameHands
    BY <1>1, <1>3 DEF WorkerLeaves, Busy
  <2>. QED
    BY <1>0, <1>3, <2>1, UntouchedStep DEF WorkerLeaves, poolVars
<1>4. CASE ServerPerforms(w)
  <2>1. SameHands
    BY <1>1, <1>4 DEF ServerPerforms, Busy
  <2>. QED
    BY <1>0, <1>4, <2>1, UntouchedStep DEF ServerPerforms, poolVars
<1>5. CASE RegisterChecks(w)
  <2>1. job[w].kind = "register"
    BY <1>0, <1>5 DEF RegisterChecks, InvHands, RegisterPoints
  <2>2. SameHands
    BY <1>1, <1>2, <1>5, <2>1 DEF RegisterChecks, Busy
  <2>. QED
    BY <1>0, <1>5, <2>2, UntouchedStep DEF RegisterChecks, poolVars
<1>6. CASE RegisterEnds(w)
  <2>1. job[w].kind = "register" /\ job[w] \in Job
    BY <1>0, <1>6 DEF RegisterEnds, InvHands, RegisterPoints
  <2>2. SameHands
    BY <1>2, <1>6, <2>1 DEF RegisterEnds
  <2>3. PICK kind \in {"registered", "error"} : Push(kind, job[w].station, 0)
    BY <1>6 DEF RegisterEnds
  <2> DEFINE e == [kind |-> kind, station |-> job[w].station, request |-> 0]
  <2>4. e \in Event /\ e.kind # "result" /\ dispatch' = Append(dispatch, e)
    BY <2>1, <2>3 DEF Event, EventKinds, Job, Push
  <2>. HIDE DEF e
  <2>. QED
    BY <1>0, <1>6, <2>2, <2>4, OtherEventStep DEF RegisterEnds, poolVars
<1>7. CASE RegisterFails(w)
  <2>1. SameHands
    BY <1>1, <1>7 DEF RegisterFails, Busy
  <2>. QED
    BY <1>0, <1>7, <2>1, UntouchedStep DEF RegisterFails, poolVars
<1>8. CASE RegisterBackoffEnds(w)
  <2>1. SameHands
    BY <1>1, <1>8 DEF RegisterBackoffEnds, Busy
  <2>. QED
    BY <1>0, <1>8, <2>1, UntouchedStep DEF RegisterBackoffEnds, poolVars
<1>9. CASE Repeats(w)
  <2>1. SameHands
    BY <1>1, <1>9 DEF Repeats, Busy
  <2>. QED
    BY <1>0, <1>9, <2>1, UntouchedStep DEF Repeats, poolVars
<1>. QED
  BY <1>3, <1>4, <1>5, <1>6, <1>7, <1>8, <1>9

\* Everything else, one group after another.
LEMMA NextImplements ==
  ASSUME PromiseInv, [Next]_vars
  PROVE  Implements
<1> USE DEF mainVars, pollerVars, serverVars, poolVars, idVars
<1>0. /\ TypeOK /\ InvOpen /\ InvReports /\ InvHands
      /\ nextRequest + 1 \in Nat /\ 0 \in Nat
      /\ {"register", "unregister", "status", "list"} \subseteq JobKinds
  BY DEF PromiseInv, PipelineInv, TypeOK, JobKinds
<1>1. ASSUME UNCHANGED <<jobs, dropped>>, UNCHANGED workerVars, UNCHANGED pushVars
      PROVE  Implements
  BY <1>0, <1>1, KeptHands, UntouchedStep
<1>2. ASSUME NEW kind \in {"register", "unregister", "status", "list"},
             NEW i \in Ids \cup {NoStation}, NEW r \in Nat,
             Enqueue(NewJob(kind, i, r)), UNCHANGED dropped,
             UNCHANGED workerVars, UNCHANGED pushVars
      PROVE  Implements
  <2>1. NewJob(kind, i, r) \in Job /\ NewJob(kind, i, r).kind = kind
    BY <1>0, NewJobType
  <2>2. SameHands
    BY <1>2, KeptHands
  <2>. QED
    BY <1>0, <1>2, <2>1, <2>2, OtherJobStep
<1>3. CASE \/ CreateStation \/ Shutdown \/ StreamThreadsJoined
           \/ \E i \in Ids : DestroyStation(i)
  BY <1>1, <1>3
     DEF CreateStation, Shutdown, StreamThreadsJoined, DestroyStation
<1>4. ASSUME NEW i \in Ids, RefreshStatus(i) PROVE Implements
  BY <1>0, <1>2, <1>4 DEF RefreshStatus
<1>5. CASE RequestStationList
  BY <1>0, <1>2, <1>5 DEF RequestStationList
<1>6. ASSUME NEW i \in Ids, UpdateStation(i) PROVE Implements
  BY <1>0, <1>2, <1>6 DEF UpdateStation
<1>7. CASE StreamThreadJoined
  <2>1. PICK i \in Ids : Enqueue(NewJob("unregister", i, 0))
    BY <1>0, <1>7 DEF StreamThreadJoined, TypeOK
  <2>. QED
    BY <1>0, <1>2, <1>7, <2>1 DEF StreamThreadJoined
<1>8. CASE Configure
  <2>1. CASE running
    BY <1>1, <1>8, <2>1 DEF Configure, workerVars
  <2>2. CASE ~running
    BY <1>0, <1>8, <2>2, StartPoolImplements DEF Configure, InvHands
  <2>. QED
    BY <2>1, <2>2
<1>9. CASE PoolJoined
  <2>1. CASE thenStart
    BY <1>9, <2>1, StartPoolImplements DEF PoolJoined
  <2>2. CASE ~thenStart
    BY <1>1, <1>9, <2>2 DEF PoolJoined, workerVars
  <2>. QED
    BY <2>1, <2>2
<1>10. CASE Tick
  <2>1. /\ Pushed' = Pushed /\ UNCHANGED <<heard, jobs, dropped>>
        /\ UNCHANGED workerVars
    <3>1. events = <<>> /\ events' = dispatch /\ dispatch' = <<>>
      BY <1>10 DEF Tick
    <3>2. dispatch \in Seq(Event)
      BY <1>0 DEF TypeOK
    <3>. QED
      BY <1>10, <3>1, <3>2 DEF Tick, Pushed
  <2>2. SameReports
    BY <1>0, <2>1 DEF InvReports, SameReports
  <2>. QED
    BY <1>0, <2>1, <2>2, KeptHands, QuietStep DEF InvOpen
<1>11. ASSUME NEW i \in Ids, StreamFinds(i) PROVE Implements
  <2> DEFINE e == [kind |-> "track", station |-> i, request |-> 0]
  <2>1. e \in Event /\ e.kind # "result" /\ dispatch' = Append(dispatch, e)
    BY <1>11 DEF StreamFinds, Push, Event, EventKinds
  <2>2. UNCHANGED <<jobs, events, heard, dropped>> /\ SameHands
    BY <1>11, KeptHands DEF StreamFinds
  <2>. HIDE DEF e
  <2>. QED
    BY <1>0, <2>1, <2>2, OtherEventStep
<1>12. ASSUME NEW i \in Ids, StreamEnqueues(i) PROVE Implements
  BY <1>0, <1>2, <1>12 DEF StreamEnqueues
<1>13. CASE PollerEnqueues
  BY <1>0, <1>2, <1>13 DEF PollerEnqueues, TypeOK
<1>14. CASE PollerWakes \/ PollerFinds \/ PollerRests \/ PollerLeaves
  BY <1>1, <1>14 DEF PollerWakes, PollerFinds, PollerRests, PollerLeaves
<1>15. CASE UNCHANGED vars
  BY <1>1, <1>15 DEF vars
<1>16. CASE \E w \in Workers : Worker(w)
  BY <1>16, TakeJobImplements, CallImplements, OtherWorkerImplements DEF Worker
<1>17. CASE \E i \in Ids : EnqueueCommand(i)
  BY <1>17, EnqueueCommandImplements
<1>18. CASE \E j \in late : LateArrives(j)
  BY <1>1, <1>18 DEF LateArrives
<1>. QED
  BY <1>3, <1>4, <1>5, <1>6, <1>7, <1>8, <1>9, <1>10, <1>11, <1>12, <1>13,
     <1>14, <1>15, <1>16, <1>17, <1>18, ClearJobsImplements, DeliverImplements
     DEF Next, Main, Stream, Poller

-----------------------------------------------------------------------------
(* The rest of the invariant                                                 *)

LEMMA NextInvHands ==
  ASSUME PromiseInv, [Next]_vars
  PROVE  InvHands'
<1> USE DEF mainVars, workerVars
<1>0. /\ InvMain /\ InvHands
      /\ pc \in [Workers -> WorkerPoints] /\ job \in [Workers -> Job]
  BY DEF PromiseInv, PipelineInv, TypeOK
<1>1. ASSUME UNCHANGED workerVars,
             mainAt' = "script" /\ ~running' => mainAt = "script" /\ ~running
      PROVE  InvHands'
  BY <1>0, <1>1 DEF InvHands
<1>2. ASSUME \A w \in Workers : pc'[w] = "idle", running' PROVE InvHands'
  BY <1>2 DEF InvHands, RegisterPoints
<1>3. CASE Configure
  <2>1. CASE running
    BY <1>0, <1>3, <2>1 DEF Configure, InvHands
  <2>2. CASE ~running
    BY <1>2, <1>3, <2>2 DEF Configure, StartPool
  <2>. QED
    BY <2>1, <2>2
<1>4. CASE PoolJoined
  <2>1. CASE thenStart
    BY <1>2, <1>4, <2>1 DEF PoolJoined, StartPool
  <2>2. CASE ~thenStart
    BY <1>0, <1>4, <2>2 DEF PoolJoined, InvHands
  <2>. QED
    BY <2>1, <2>2
<1>5. ASSUME NEW w \in Workers, Worker(w) PROVE InvHands'
  <2>1. ~(mainAt = "script" /\ ~running) /\ UNCHANGED <<mainAt, running>>
    <3>1. pc[w] # "ended"
      BY <1>5
         DEF Worker, TakeJob, WorkerLeaves, ServerPerforms, Repeats,
             CallSucceeds, CallFails, RegisterChecks, RegisterEnds, RegisterFails,
             RegisterBackoffEnds
    <3>2. UNCHANGED <<mainAt, running>>
      BY <1>5
         DEF Worker, TakeJob, WorkerLeaves, ServerPerforms, Repeats,
             CallSucceeds, CallFails, RegisterChecks, RegisterEnds, RegisterFails,
             RegisterBackoffEnds
    <3>. QED
      BY <1>0, <3>1, <3>2 DEF InvHands
  <2>2. ASSUME job' = job, NEW p, pc' = [pc EXCEPT ![w] = p],
               p \in RegisterPoints => pc[w] \in RegisterPoints
        PROVE  InvHands'
    BY <1>0, <2>1, <2>2 DEF InvHands
  <2>3. ASSUME Returns(w) PROVE InvHands'
    BY <1>0, <2>1, <2>3 DEF Returns, InvHands, RegisterPoints
  <2>4. CASE TakeJob(w)
    BY <1>0, <2>1, <2>4 DEF TakeJob, InvHands, RegisterPoints
  <2>5. CASE \/ WorkerLeaves(w) \/ ServerPerforms(w) \/ Repeats(w)
             \/ RegisterFails(w) \/ RegisterBackoffEnds(w) \/ RegisterChecks(w)
    BY <2>2, <2>3, <2>5
       DEF WorkerLeaves, ServerPerforms, Repeats, RegisterFails,
           RegisterBackoffEnds, RegisterChecks, RegisterPoints
  <2>6. CASE CallSucceeds(w) \/ CallFails(w) \/ RegisterEnds(w)
    BY <2>3, <2>6 DEF CallSucceeds, CallFails, RegisterEnds
  <2>. QED
    BY <1>5, <2>4, <2>5, <2>6 DEF Worker
<1>6. ASSUME NEW i \in Ids,
             \/ CreateStation \/ EnqueueCommand(i) \/ RefreshStatus(i)
             \/ RequestStationList \/ UpdateStation(i) \/ DestroyStation(i)
      PROVE  InvHands'
  BY <1>1, <1>6
     DEF CreateStation, EnqueueCommand, RefreshStatus, RequestStationList,
         UpdateStation, DestroyStation
<1>7. CASE StreamThreadJoined
  BY <1>0, <1>1, <1>7 DEF StreamThreadJoined, InvMain
<1>8. CASE Shutdown \/ StreamThreadsJoined \/ ClearJobs \/ Tick \/ Deliver
  BY <1>1, <1>8 DEF Shutdown, StreamThreadsJoined, ClearJobs, Tick, Deliver
<1>9. ASSUME NEW i \in Ids, Stream(i) PROVE InvHands'
  BY <1>1, <1>9 DEF Stream, StreamFinds, StreamEnqueues
<1>10. CASE Poller
  BY <1>1, <1>10
     DEF Poller, PollerWakes, PollerFinds, PollerEnqueues, PollerRests,
         PollerLeaves
<1>11. CASE UNCHANGED vars
  BY <1>1, <1>11 DEF vars
<1>12. 0 \in Ids
  BY BoundsAssumption DEF Ids, BoundsAssumption
<1>13. ASSUME NEW j \in late, LateArrives(j) PROVE InvHands'
  BY <1>1, <1>13 DEF LateArrives
<1>. QED
  BY <1>3, <1>4, <1>5, <1>6, <1>7, <1>8, <1>9, <1>10, <1>11, <1>12, <1>13
     DEF Next, Main

\* Sets of stations are finite, and one more or one less counts as such.
LEMMA StationsCount ==
  ASSUME NEW S, S \subseteq Ids, NEW i \in Ids
  PROVE  /\ IsFiniteSet(S) /\ Cardinality(S) \in Nat
         /\ i \notin S => Cardinality(S \cup {i}) = Cardinality(S) + 1
         /\ i \in S => Cardinality(S \ {i}) = Cardinality(S) - 1
<1>1. IsFiniteSet(Ids)
  BY BoundsAssumption, FS_Interval DEF Ids, BoundsAssumption
<1>2. IsFiniteSet(S)
  BY <1>1, FS_Subset
<1>. QED
  BY <1>2, FS_CardinalityType, FS_AddElement, FS_RemoveElement

\* A step that gives out no more ids than it claims keeps the margin.
LEMMA MarginKept ==
  ASSUME NEW n \in Nat, NEW c \in Nat, NEW m \in Nat, NEW d \in Nat,
         NEW s \in Nat, n + s <= c, m + c <= n + d
  PROVE  m + s <= d
OBVIOUS

LEMMA NextInvClaims ==
  ASSUME PromiseInv, [Next]_vars
  PROVE  InvClaims'
<1> USE DEF idVars, pollerVars
<1> DEFINE owed == IF polled = NoStation THEN 0 ELSE 1
<1>0. /\ TypeOK /\ InvClaims
      /\ nextRequest \in Nat /\ claimed \in Nat
      /\ live \subseteq Ids /\ found \subseteq Ids /\ todo \subseteq Ids
      /\ owed \in Nat /\ owed' \in Nat
      /\ NoStation \notin Ids
  BY BoundsAssumption
     DEF PromiseInv, PipelineInv, TypeOK, BoundsAssumption, NoStation, Ids
<1>00. 0 \in Ids
  BY BoundsAssumption DEF Ids, BoundsAssumption
<1>1. /\ Cardinality(found) \in Nat /\ Cardinality(todo) \in Nat
      /\ Cardinality(live) \in Nat
      /\ nextRequest + (Cardinality(found) + Cardinality(todo) + owed) <= claimed
  BY <1>0, <1>00, StationsCount DEF InvClaims, Waiting
<1>2. ASSUME UNCHANGED <<found, pollerVars>>, claimed' \in Nat,
             nextRequest' \in Nat,
             nextRequest' + claimed <= nextRequest + claimed'
      PROVE  InvClaims'
  <2>1. owed' = owed /\ found' = found /\ todo' = todo
    BY <1>2
  <2>2. nextRequest' + (Cardinality(found) + Cardinality(todo) + owed) <= claimed'
    <3> DEFINE some == Cardinality(found) + Cardinality(todo) + owed
    <3>1. some \in Nat /\ nextRequest + some <= claimed
      BY <1>0, <1>1
    <3>. HIDE DEF some
    <3>2. nextRequest' + some <= claimed'
      BY <1>0, <1>2, <3>1, MarginKept
    <3>. QED
      BY <3>2 DEF some
  <2>. QED
    BY <2>1, <2>2 DEF InvClaims, Waiting
<1>3. ASSUME UNCHANGED <<found, todo, polled, claimed, nextRequest>>
      PROVE  InvClaims'
  BY <1>0, <1>3 DEF InvClaims, Waiting
<1>4. ASSUME NEW i \in Ids,
             \/ EnqueueCommand(i) \/ RefreshStatus(i) \/ RequestStationList
             \/ UpdateStation(i) \/ DestroyStation(i)
      PROVE  InvClaims'
  <2>1. /\ UNCHANGED <<found, pollerVars>> /\ claimed' = claimed + 1
        /\ nextRequest' \in {nextRequest, nextRequest + 1}
    BY <1>4
       DEF EnqueueCommand, RefreshStatus, RequestStationList, UpdateStation,
           DestroyStation, Claim
  <2>2. CASE nextRequest' = nextRequest
    <3>1. nextRequest' + claimed <= nextRequest + claimed'
      BY <1>0, <2>1, <2>2
    <3>. QED
      BY <1>0, <1>2, <2>1, <2>2, <3>1
  <2>3. CASE nextRequest' = nextRequest + 1
    <3>1. nextRequest' + claimed <= nextRequest + claimed'
      BY <1>0, <2>1, <2>3
    <3>. QED
      BY <1>0, <1>2, <2>1, <2>3, <3>1
  <2>. QED
    BY <2>1, <2>2, <2>3
<1>5. CASE Configure
  <2>1. /\ UNCHANGED <<found, todo, polled, nextRequest>>
        /\ claimed' = claimed + 1
    BY <1>5 DEF Configure, Claim
  <2>2. /\ owed' = owed
        /\ nextRequest + (Cardinality(found) + Cardinality(todo) + owed)
             <= claimed'
    <3>1. owed' = owed
      BY <2>1
    <3>. HIDE DEF owed
    <3>. QED
      BY <1>0, <1>1, <2>1, <3>1
  <2>. QED
    BY <2>1, <2>2 DEF InvClaims, Waiting
<1>6. ASSUME NEW i \in Ids, StreamFinds(i) PROVE InvClaims'
  <2>1. /\ UNCHANGED <<todo, polled, nextRequest>> /\ claimed' = claimed + 1
        /\ i \notin found /\ found' = found \cup {i}
    BY <1>6 DEF StreamFinds, Claim
  <2>2. Cardinality(found') = Cardinality(found) + 1 /\ owed' = owed
    BY <1>0, <2>1, StationsCount
  <2>3. nextRequest + (Cardinality(found') + Cardinality(todo) + owed')
          <= claimed'
    <3>. HIDE DEF owed
    <3>. QED
      BY <1>0, <1>1, <2>1, <2>2
  <2>. QED
    BY <2>1, <2>3 DEF InvClaims, Waiting
<1>7. ASSUME NEW i \in Ids, StreamEnqueues(i) PROVE InvClaims'
  <2>1. /\ UNCHANGED <<todo, polled, claimed>> /\ nextRequest' = nextRequest + 1
        /\ i \in found /\ found' = found \ {i}
    BY <1>7 DEF StreamEnqueues
  <2>2. Cardinality(found') = Cardinality(found) - 1 /\ owed' = owed
    BY <1>0, <2>1, StationsCount
  <2>3. nextRequest' + (Cardinality(found') + Cardinality(todo) + owed')
          <= claimed'
    <3>. HIDE DEF owed
    <3>. QED
      BY <1>0, <1>1, <2>1, <2>2
  <2>. QED
    BY <2>1, <2>3 DEF InvClaims, Waiting
<1>8. CASE PollerWakes
  <2>1. /\ UNCHANGED <<found, polled, nextRequest>> /\ todo' = live
        /\ claimed' = claimed + Cardinality(live)
    BY <1>8 DEF PollerWakes, Claim
  <2>2. owed' = owed
    BY <2>1
  <2>3. nextRequest + (Cardinality(found) + Cardinality(live) + owed)
          <= claimed'
    <3>. HIDE DEF owed
    <3>. QED
      BY <1>0, <1>1, <2>1
  <2>. QED
    BY <2>1, <2>2, <2>3 DEF InvClaims, Waiting
<1>9. CASE PollerFinds
  <2>1. PICK i \in todo : /\ polled' = IF i \in live THEN i ELSE NoStation
                          /\ todo' = todo \ {i}
    BY <1>9 DEF PollerFinds
  <2>2. UNCHANGED <<found, claimed, nextRequest>> /\ polled = NoStation
    BY <1>9 DEF PollerFinds
  <2>3. Cardinality(todo') = Cardinality(todo) - 1
    BY <1>0, <2>1, StationsCount
  <2>4. owed = 0 /\ owed' \in {0, 1}
    BY <2>2
  <2>5. nextRequest + (Cardinality(found) + Cardinality(todo') + owed')
          <= claimed
    <3>. HIDE DEF owed
    <3>. QED
      BY <1>0, <1>1, <2>3, <2>4
  <2>. QED
    BY <2>2, <2>5 DEF InvClaims, Waiting
<1>10. CASE PollerEnqueues
  <2>1. /\ UNCHANGED <<found, todo, claimed>> /\ nextRequest' = nextRequest + 1
        /\ polled # NoStation /\ polled' = NoStation
    BY <1>10 DEF PollerEnqueues
  <2>2. owed = 1 /\ owed' = 0
    BY <2>1
  <2>3. nextRequest' + (Cardinality(found) + Cardinality(todo) + owed')
          <= claimed
    <3>. HIDE DEF owed
    <3>. QED
      BY <1>0, <1>1, <2>1, <2>2
  <2>. QED
    BY <2>1, <2>3 DEF InvClaims, Waiting
<1>11. ASSUME NEW w \in Workers, Worker(w) PROVE InvClaims'
  BY <1>3, <1>11
     DEF Worker, TakeJob, WorkerLeaves, ServerPerforms, Repeats,
         CallSucceeds, CallFails, RegisterChecks, RegisterEnds,
         RegisterFails, RegisterBackoffEnds
<1>12. CASE \/ CreateStation \/ Shutdown \/ StreamThreadJoined
            \/ StreamThreadsJoined \/ ClearJobs \/ PoolJoined \/ Tick
            \/ Deliver \/ PollerRests \/ PollerLeaves
  BY <1>3, <1>12
     DEF CreateStation, Shutdown, StreamThreadJoined, StreamThreadsJoined,
         ClearJobs, PoolJoined, Tick, Deliver, PollerRests, PollerLeaves
<1>13. CASE UNCHANGED vars
  BY <1>3, <1>13 DEF vars
<1>14. ASSUME NEW j \in late, LateArrives(j) PROVE InvClaims'
  BY <1>3, <1>14 DEF LateArrives
<1>. QED
  BY <1>00, <1>4, <1>5, <1>6, <1>7, <1>8, <1>9, <1>10, <1>11, <1>12, <1>13,
     <1>14
     DEF Next, Main, Stream, Poller

LEMMA InitPromise ==
  ASSUME Init
  PROVE  PromiseInv /\ Promise!Init
<1>1. /\ jobs = <<>> /\ \A w \in Workers : ~Held(w)
      /\ events = <<>> /\ dispatch = <<>>
  BY DEF Init, Held, Busy
<1>2. Commands(jobs) = {} /\ Once(jobs)
  BY <1>1 DEF Commands, Once
<1>3. InFlight = {}
  BY <1>1, InFlightOf
<1>4. Pushed = <<>>
  BY <1>1 DEF Pushed
<1>5. Results(Pushed) = {}
  BY <1>4 DEF Results
<1>6. Reported(Pushed) = {} /\ ReportedBefore(Pushed) = {} /\ OneResult(Pushed)
  BY <1>5 DEF Reported, ReportedBefore, OneResult
<1>7. InvOpen /\ InvReports
  BY <1>1, <1>2, <1>3, <1>6 DEF InvOpen, InvReports
<1>8. InvHands
  BY DEF Init, InvHands, RegisterPoints
<1>9. InvClaims
  <2>1. Cardinality({}) = 0
    BY FS_EmptySet
  <2>. QED
    BY <2>1 DEF Init, InvClaims, Waiting
<1>10. Promise!Init
  BY <1>2, <1>3, <1>6 DEF Init, Promise!Init
<1>. QED
  BY <1>7, <1>8, <1>9, <1>10, InitPipelineInv DEF PromiseInv

-----------------------------------------------------------------------------
(* The theorems                                                              *)

LEMMA PromiseStep ==
  ASSUME PromiseInv, [Next]_vars
  PROVE  PromiseInv' /\ [Promise!Next]_(Promise!vars)
<1>1. PipelineInv'
  BY NextTypeOK, NextInvJobs, NextInvWorkers, NextInvEvents, NextInvMain,
     NextInvLate
     DEF PromiseInv, PipelineInv
<1>. QED
  BY <1>1, NextImplements, NextInvHands, NextInvClaims
     DEF PromiseInv, Implements

LEMMA PromiseInvariant == Spec => []PromiseInv
<1>1. PromiseInv /\ [Next]_vars => PromiseInv'
  BY PromiseStep
<1>. QED
  BY <1>1, InitPromise, PTL DEF Spec

\* However natives, workers, stream threads and poller interleave, and while
\* pools are retired and started, the pipeline keeps the promise of the command
\* natives: fresh ids, one result for each command, results heard in the order
\* they were pushed, and a command given up only by StopWorkers.
THEOREM PipelineKeepsThePromise == Spec => KeepsThePromise
<1>1. Init => Promise!Init
  BY InitPromise
<1>2. PromiseInv /\ [Next]_vars => [Promise!Next]_(Promise!vars)
  BY PromiseStep
<1>. QED
  BY <1>1, <1>2, PromiseInvariant, PTL DEF Spec, KeepsThePromise, Promise!Spec

=============================================================================
