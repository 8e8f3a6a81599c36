------------------------ MODULE StationLifecycleProofs ------------------------
(***************************************************************************)
(* Machine-checked proofs about StationLifecycle, for every number of      *)
(* stations, workers, servers and slugs.                                   *)
(***************************************************************************)
EXTENDS StationLifecycle, TLAPS

-----------------------------------------------------------------------------
(* The inductive invariant                                                   *)

\* Stations whose stream thread may be running.
Owned == stations \cup dying

\* Station ids are used in order; a thread, a stream object or a table entry
\* exists only for an id already given out.
InvIds ==
  /\ \A i \in Ids : i >= nextId => pc[i] = "unborn" /\ i \notin streams
  /\ \A i \in Owned : i < nextId
  /\ stations \cap dying = {}

\* A stream thread that runs belongs to a station in stations_ or to one being
\* torn down, and those have their stream object.
InvThreads ==
  /\ \A i \in Ids : Alive(i) => i \in Owned
  /\ Owned \subseteq streams

\* Whatever left stations_ has `stopping` set.
InvStopping == \A i \in Ids : i < nextId /\ i \notin stations => i \in stopping

\* The main thread joins stream threads only in DestroyStation and Shutdown,
\* and reaches StopWorkers only without stations.
InvMain ==
  /\ dying # {} => mainAt \in {"destroying", "shuttingDown"}
  /\ mainAt \in {"stopWorkers", "joinWorkers", "startWorkers"} => stations = {}
  /\ mainAt = "shuttingDown" => stations = {} /\ ~thenStart
  /\ mainAt = "startWorkers" => thenStart

\* The pool is up whenever the plugin is configured and no StopWorkers is
\* under way.
InvPool ==
  /\ running => \A w \in Workers : Alive(w)
  /\ Owned # {} => running
  /\ mainAt \in {"destroying", "shuttingDown"} => running
  /\ mainAt = "idle" /\ configured => running
  /\ mainAt = "stopWorkers" /\ ~thenStart => running
  /\ mainAt \in {"joinWorkers", "startWorkers"} => ~running
  /\ ~running /\ mainAt # "joinWorkers" => \A w \in Workers : ~Alive(w)

\* The stations a thread may be running for have distinct slugs.
InvSlugs == \A i, j \in Owned : slug[i] = slug[j] => i = j

\* Clients are built for the configured server.
InvServer ==
  /\ \A i \in Owned : url[i] = server
  /\ \A w \in Workers :
       Alive(w) /\ mainAt \notin {"stopWorkers", "joinWorkers"} =>
         url[w] = server

\* A registration a worker runs or will run is of a station that was created.
InvJobs ==
  /\ \A n \in 1 .. Len(jobs) :
       jobs[n].kind = "register" => jobs[n].station \in 0 .. (nextId - 1)
  /\ \A w \in Workers :
       pc[w] \in {"register", "registering", "registerBackoff"} =>
         job[w].station \in 0 .. (nextId - 1)

\* So is a registration a server may still carry out.
InvLate ==
  \A q \in late : q.kind = "register" => q.station \in Ids /\ q.station < nextId

LifecycleInv ==
  /\ TypeOK
  /\ InvIds /\ InvThreads /\ InvStopping /\ InvMain /\ InvPool /\ InvSlugs
  /\ InvServer /\ InvJobs /\ InvLate

-----------------------------------------------------------------------------
(* Type correctness                                                          *)

LEMMA InitTypeOK == Init => TypeOK
<1> SUFFICES ASSUME Init PROVE TypeOK
  OBVIOUS
<1>1. slug \in [Ids -> Slugs]
  BY ConstantsAssumption DEF Init, ConstantsAssumption
<1>2. pushed \in [Ids -> Notices]
  BY DEF Init, Notices
<1>3. jobs \in Seq(Job)
  BY DEF Init
<1>4. job \in [Workers -> Job]
  BY DEF Init, NoJob, Job, JobKinds
<1>5. /\ pc \in [Actors -> StreamPoints \cup WorkerPoints]
      /\ \A i \in Ids : pc[i] \in StreamPoints
      /\ \A w \in Workers : pc[w] \in WorkerPoints
  BY ConstantsAssumption
     DEF Init, ConstantsAssumption, Actors, StreamPoints, WorkerPoints
<1>6. known \in [Servers -> [Slugs -> Registration \cup {Unknown}]]
  BY DEF Init
<1>7. nextId \in 0 .. MaxStations /\ fields \in [Ids -> 0 .. MaxFields]
      /\ sent \in [Actors -> 0 .. MaxFields]
  BY ConstantsAssumption DEF Init, ConstantsAssumption
<1>. QED
  BY <1>1, <1>2, <1>3, <1>4, <1>5, <1>6, <1>7 DEF Init, TypeOK

\* A queue stays one when a job is appended, or when its head is taken.
LEMMA EnqueueType ==
  ASSUME jobs \in Seq(Job), NEW k \in JobKinds,
         NEW i \in Ids \cup {NoStation}, Enqueue(k, i)
  PROVE  jobs' \in Seq(Job)
BY DEF Enqueue, Job

\* What a call leaves behind is a request.
LEMMA LateType ==
  ASSUME TypeOK, NEW a \in Actors, Target(a) \in Ids \cup {NoStation},
         MayArriveLate(a)
  PROVE  late' \in SUBSET Request
BY DEF MayArriveLate, RequestOf, TypeOK, Request

LEMMA RegisterTypeOK ==
  ASSUME TypeOK, NEW a \in Actors, Register(a) \/ Repeats(a),
         Target(a) \in Ids \cup {NoStation}, Register(a) => Target(a) \in Ids
  PROVE  TypeOK'
<1>l. MayArriveLate(a) => late' \in SUBSET Request
  BY LateType
<1> USE DEF TypeOK, Actors, StreamPoints, WorkerPoints, mainVars, stationVars,
            noticeVars, callVars, serverVars, historyVars, Target
<1>0. NoJob \in Job
  BY DEF NoJob, Job, JobKinds
<1>1. CASE RegisterStops(a)
  BY <1>0, <1>1, ConstantsAssumption
     DEF ConstantsAssumption, RegisterStops, GivesUp, Returns
<1>2. CASE RegisterSends(a)
  <2>1. fields[Target(a)] \in 0 .. MaxFields
    BY <1>2 DEF Register
  <2>. QED
    BY <1>2, <2>1, ConstantsAssumption DEF ConstantsAssumption, RegisterSends
<1>3. CASE ServerRegisters(a)
  <2> DEFINE r == [owner |-> Target(a), fields |-> sent[a]]
  <2>0. r \in Registration
    BY <1>3 DEF Registration, Register
  <2>1. known' \in [Servers -> [Slugs -> Registration \cup {Unknown}]]
    <3>1. CASE UNCHANGED known
      BY <3>1
    <3>2. CASE known' = [known EXCEPT ![url[a]][slug[Target(a)]] = r]
      <4>. HIDE DEF r, Registration
      <4>. QED  BY <2>0, <3>2
    <3>. QED
      BY <1>3, <3>1, <3>2 DEF ServerRegisters, Knows
  <2>2. reply' \in [Actors -> {"none", "ok", "refused"}]
    BY <1>3 DEF ServerRegisters
  <2>. QED
    BY <1>3, <2>1, <2>2 DEF ServerRegisters
<1>4. CASE RegisterSucceeds(a)
  <2>1. jobs' \in Seq(Job)
    BY <1>4, EnqueueType DEF RegisterSucceeds, RefreshStatus, JobKinds
  <2>2. pushed' \in [Ids -> Notices]
    BY <1>4 DEF RegisterSucceeds, Notices
  <2>. QED
    BY <1>0, <1>4, <2>1, <2>2, ConstantsAssumption
       DEF ConstantsAssumption, RegisterSucceeds, Registered, Returns
<1>5. CASE RegisterRefused(a)
  <2>2. pushed' \in [Ids -> Notices]
    BY <1>5 DEF RegisterRefused, Notices
  <2>. QED
    BY <1>0, <1>5, <2>2, ConstantsAssumption
       DEF ConstantsAssumption, RegisterRefused, GivesUp, Returns
<1>6. CASE RegisterFails(a)
  BY <1>l, <1>6, ConstantsAssumption DEF ConstantsAssumption, RegisterFails
<1>7. CASE BackoffEnds(a)
  BY <1>7, ConstantsAssumption DEF ConstantsAssumption, BackoffEnds
<1>8. CASE Repeats(a)
  BY <1>l, <1>8, ConstantsAssumption DEF ConstantsAssumption, Repeats
<1>. QED
  BY <1>1, <1>2, <1>3, <1>4, <1>5, <1>6, <1>7, <1>8 DEF Register

LEMMA StreamTypeOK ==
  ASSUME TypeOK, NEW i \in Ids, StreamLoop(i) \/ ConnectionDrops(i)
  PROVE  TypeOK'
<1> USE DEF TypeOK, Actors, StreamPoints, WorkerPoints, mainVars, stationVars,
            noticeVars, threadVars, callVars, serverVars, historyVars
<1>1. CASE SubscribeStops(i)
  BY <1>1, ConstantsAssumption DEF ConstantsAssumption, SubscribeStops
<1>2. CASE Opens(i)
  BY <1>2, ConstantsAssumption DEF ConstantsAssumption, Opens
<1>8. CASE OpenSucceeds(i)
  BY <1>8, ConstantsAssumption DEF ConstantsAssumption, OpenSucceeds
<1>3. CASE OpenFails(i)
  BY <1>3, ConstantsAssumption DEF ConstantsAssumption, OpenFails
<1>4. CASE OpenRefused(i)
  <2>1. pushed' \in [Ids -> Notices]
    BY <1>4 DEF OpenRefused, Notices
  <2>. QED
    BY <1>4, <2>1, ConstantsAssumption DEF ConstantsAssumption, OpenRefused
<1>5. CASE ConnectionDrops(i)
  BY <1>5 DEF ConnectionDrops
<1>6. CASE ReadStops(i)
  BY <1>6, ConstantsAssumption DEF ConstantsAssumption, ReadStops
<1>7. CASE ReadFails(i)
  BY <1>7, ConstantsAssumption DEF ConstantsAssumption, ReadFails
<1>. QED
  BY <1>1, <1>2, <1>3, <1>4, <1>5, <1>6, <1>7, <1>8 DEF StreamLoop

LEMMA WorkerTypeOK ==
  ASSUME TypeOK, NEW w \in Workers, WorkerLoop(w)
  PROVE  TypeOK'
<1> USE DEF TypeOK, Actors, StreamPoints, WorkerPoints, mainVars, stationVars,
            noticeVars, threadVars, callVars, serverVars, historyVars
<1>0. NoJob \in Job
  BY DEF NoJob, Job, JobKinds
<1>1. CASE TakesJob(w)
  <2>1. Head(jobs) \in Job /\ Tail(jobs) \in Seq(Job)
    BY <1>1 DEF TakesJob
  <2>2. job' \in [Workers -> Job] /\ jobs' \in Seq(Job)
    <3>1. jobs' = Tail(jobs) /\ (job' = job \/ job' = [job EXCEPT ![w] = Head(jobs)])
      BY <1>1 DEF TakesJob
    <3>. QED
      BY <2>1, <3>1
  <2>3. /\ pc' \in [Actors -> StreamPoints \cup WorkerPoints]
        /\ \A i \in Ids : pc'[i] = pc[i]
        /\ \A x \in Workers : pc'[x] \in WorkerPoints
    <3>1. PICK p \in WorkerPoints : pc' = [pc EXCEPT ![w] = p]
      <4>1. CASE pc' = pc
        BY <4>1
      <4>2. CASE pc' # pc
        BY <1>1, <4>2 DEF TakesJob
      <4>. QED
        BY <4>1, <4>2
    <3>. QED
      BY <3>1, ConstantsAssumption DEF ConstantsAssumption
  <2>. QED
    BY <1>1, <2>2, <2>3 DEF TakesJob
<1>2. CASE WorkerExits(w)
  BY <1>2, ConstantsAssumption DEF ConstantsAssumption, WorkerExits
<1>3. CASE ServerUnregisters(w)
  <2>1. job[w].station \in Ids \cup {NoStation}
    BY DEF Job
  <2>. QED
    BY <1>3, <2>1 DEF ServerUnregisters, Forgets
<1>4. CASE CallReturns(w)
  <2>1. job[w].station \in Ids \cup {NoStation}
    BY DEF Job
  <2>. QED
    BY <1>0, <1>4, <2>1, ConstantsAssumption
       DEF ConstantsAssumption, CallReturns, Returns
<1>5. CASE CallFails(w)
  <2>1. Target(w) \in Ids \cup {NoStation}
    BY ConstantsAssumption DEF ConstantsAssumption, Target, Job
  <2>2. late' \in SUBSET Request
    BY <1>5, <2>1, LateType DEF CallFails
  <2>. QED
    BY <1>0, <1>5, <2>2, ConstantsAssumption
       DEF ConstantsAssumption, CallFails, Returns
<1>. QED
  BY <1>1, <1>2, <1>3, <1>4, <1>5 DEF WorkerLoop

LEMMA LateArrivesTypeOK ==
  ASSUME TypeOK, InvLate, NEW q \in late, LateArrives(q)
  PROVE  TypeOK'
<1> DEFINE r == [owner |-> q.station, fields |-> q.fields]
<1>1. q \in Request
  BY DEF TypeOK
<1>2. q.url \in Servers /\ q.fields \in 0 .. MaxFields
  BY <1>1 DEF Request
<1>3. known' \in [Servers -> [Slugs -> Registration \cup {Unknown}]]
  <2>1. CASE q.kind = "register" /\ Knows(q.url, q.station, q.fields)
    <3>1. r \in Registration
      BY <1>2, <2>1 DEF InvLate, Registration
    <3>2. known' = [known EXCEPT ![q.url][slug[q.station]] = r]
      BY <2>1 DEF Knows
    <3>. HIDE DEF r, Registration
    <3>. QED
      BY <3>1, <3>2 DEF TypeOK
  <2>2. CASE Forgets(q.url, slug[q.station])
    <3>1. known' = [known EXCEPT ![q.url][slug[q.station]] = Unknown]
      BY <2>2 DEF Forgets
    <3>. HIDE DEF Registration
    <3>. QED
      BY <3>1 DEF TypeOK
  <2>3. CASE UNCHANGED known
    BY <2>3 DEF TypeOK
  <2>. QED
    BY <2>1, <2>2, <2>3 DEF LateArrives
<1>4. open' \in SUBSET Ids /\ late' \in SUBSET Request
  BY DEF LateArrives, Forgets, TypeOK
<1>. QED
  BY <1>3, <1>4 DEF LateArrives, TypeOK, mainVars, stationVars, noticeVars,
     threadVars, callVars, historyVars

LEMMA MainTypeOK ==
  ASSUME TypeOK, Main
  PROVE  TypeOK'
<1> USE DEF TypeOK, Actors, StreamPoints, WorkerPoints, stationVars,
            noticeVars, threadVars, callVars, serverVars, historyVars
<1>1. ASSUME NEW v \in Servers, Configure(v) PROVE TypeOK'
  BY <1>1 DEF Configure
<1>2. CASE StopWorkers
  <2>1. jobs' \in Seq(Job)
    BY <1>2 DEF StopWorkers
  <2>. QED
    BY <1>2, <2>1 DEF StopWorkers
<1>3. CASE JoinWorkers
  BY <1>3 DEF JoinWorkers
<1>4. CASE StartWorkers
  <2>1. jobs' \in Seq(Job)
    BY <1>4, EnqueueType DEF StartWorkers, JobKinds
  <2>. QED
    BY <1>4, <2>1, ConstantsAssumption DEF ConstantsAssumption, StartWorkers
<1>5. ASSUME NEW s \in Slugs, CreateStation(s) PROVE TypeOK'
  <2>1. nextId' \in 0 .. MaxStations
    BY <1>5, ConstantsAssumption DEF ConstantsAssumption, CreateStation, Ids
  <2>. QED
    BY <1>5, <2>1, ConstantsAssumption
       DEF ConstantsAssumption, CreateStation, mainVars
<1>6. ASSUME NEW i \in Ids, UpdateStation(i) \/ SetMetadata(i) PROVE TypeOK'
  <2>1. jobs' \in Seq(Job)
    BY <1>6, EnqueueType DEF UpdateStation, SetMetadata, JobKinds
  <2>2. fields' \in [Ids -> 0 .. MaxFields]
    <3>1. fields' = [fields EXCEPT ![i] = @ + 1] /\ fields[i] < MaxFields
      BY <1>6 DEF UpdateStation, SetMetadata
    <3>2. fields[i] + 1 \in 0 .. MaxFields
      BY <3>1, ConstantsAssumption DEF ConstantsAssumption
    <3>. QED
      BY <3>1, <3>2
  <2>. QED
    BY <1>6, <2>1, <2>2 DEF UpdateStation, SetMetadata, mainVars
<1>7. ASSUME NEW i \in Ids, DestroyStation(i) PROVE TypeOK'
  BY <1>7 DEF DestroyStation, StopStreams
<1>8. CASE FinishDestroy
  <2>1. jobs' \in Seq(Job)
    BY <1>8, EnqueueType DEF FinishDestroy, JobKinds
  <2>. QED
    BY <1>8, <2>1 DEF FinishDestroy
<1>9. CASE Shutdown
  BY <1>9 DEF Shutdown, StopStreams
<1>10. CASE FinishShutdown
  BY <1>10 DEF FinishShutdown
<1>. QED
  BY <1>1, <1>2, <1>3, <1>4, <1>5, <1>6, <1>7, <1>8, <1>9, <1>10 DEF Main

-----------------------------------------------------------------------------
(* What the steps of the other threads leave alone                           *)

\* A step of a stream thread, of a worker or of the audio server.
ThreadStep ==
  \/ \E a \in Actors : Register(a) \/ Repeats(a)
  \/ \E i \in Ids : StreamLoop(i) \/ ConnectionDrops(i)
  \/ \E w \in Workers : WorkerLoop(w)
  \/ \E v \in Servers : ServerRestarts(v)
  \/ \E q \in late : LateArrives(q)

\* Only the main thread changes the station table, the stop flags and the
\* clients; no step but CreateStation and StartWorkers starts a thread; and a
\* worker ends only when running_ is cleared.
Quiet ==
  /\ UNCHANGED <<mainVars, url>>
  /\ \A i \in Ids : Alive(i)' => Alive(i)
  /\ \A i \in Ids : pc[i] = "unborn" => pc'[i] = "unborn"
  /\ \A w \in Workers : Alive(w)' => Alive(w)
  /\ running => \A w \in Workers : Alive(w) => Alive(w)'

LEMMA ThreadStepIsQuiet ==
  ASSUME TypeOK, ThreadStep
  PROVE  Quiet
<1> USE ConstantsAssumption
    DEF TypeOK, Quiet, Actors, Alive, WorkerPoints, mainVars, stationVars,
        noticeVars, threadVars, callVars, historyVars
<1> USE DEF ConstantsAssumption
<1>1. ASSUME NEW a \in Actors, Register(a) \/ Repeats(a) PROVE Quiet
  <2>1. CASE RegisterStops(a)
    BY <2>1 DEF RegisterStops, GivesUp
  <2>2. CASE RegisterSends(a)
    BY <2>2 DEF RegisterSends
  <2>3. CASE ServerRegisters(a)
    BY <2>3 DEF ServerRegisters
  <2>4. CASE RegisterSucceeds(a)
    BY <2>4 DEF RegisterSucceeds, Registered
  <2>5. CASE RegisterRefused(a)
    BY <2>5 DEF RegisterRefused, GivesUp
  <2>6. CASE RegisterFails(a)
    BY <2>6 DEF RegisterFails
  <2>7. CASE BackoffEnds(a)
    BY <2>7 DEF BackoffEnds
  <2>8. CASE Repeats(a)
    BY <2>8 DEF Repeats
  <2>. QED
    BY <1>1, <2>1, <2>2, <2>3, <2>4, <2>5, <2>6, <2>7, <2>8 DEF Register
<1>2. ASSUME NEW i \in Ids, StreamLoop(i) \/ ConnectionDrops(i) PROVE Quiet
  <2>1. CASE SubscribeStops(i)
    BY <2>1 DEF SubscribeStops
  <2>2. CASE Opens(i) \/ OpenSucceeds(i)
    BY <2>2 DEF Opens, OpenSucceeds
  <2>3. CASE OpenFails(i)
    BY <2>3 DEF OpenFails
  <2>4. CASE OpenRefused(i)
    BY <2>4 DEF OpenRefused
  <2>5. CASE ConnectionDrops(i)
    BY <2>5 DEF ConnectionDrops
  <2>6. CASE ReadStops(i)
    BY <2>6 DEF ReadStops
  <2>7. CASE ReadFails(i)
    BY <2>7 DEF ReadFails
  <2>. QED
    BY <1>2, <2>1, <2>2, <2>3, <2>4, <2>5, <2>6, <2>7 DEF StreamLoop
<1>3. ASSUME NEW w \in Workers, WorkerLoop(w) PROVE Quiet
  <2>1. CASE TakesJob(w)
    BY <2>1 DEF TakesJob
  <2>2. CASE WorkerExits(w)
    BY <2>2 DEF WorkerExits
  <2>3. CASE ServerUnregisters(w)
    BY <2>3 DEF ServerUnregisters
  <2>4. CASE CallReturns(w)
    BY <2>4 DEF CallReturns
  <2>5. CASE CallFails(w)
    BY <2>5 DEF CallFails
  <2>. QED
    BY <1>3, <2>1, <2>2, <2>3, <2>4, <2>5 DEF WorkerLoop
<1>4. ASSUME NEW v \in Servers, ServerRestarts(v) PROVE Quiet
  BY <1>4 DEF ServerRestarts
<1>5. ASSUME NEW q \in late, LateArrives(q) PROVE Quiet
  BY <1>5 DEF LateArrives
<1>. QED
  BY <1>1, <1>2, <1>3, <1>4, <1>5 DEF ThreadStep

-----------------------------------------------------------------------------
(* The invariant is inductive                                                *)

\* What a quiet step cannot disturb.
LEMMA QuietKeepsInv ==
  ASSUME LifecycleInv, Quiet
  PROVE  (InvIds /\ InvThreads /\ InvStopping /\ InvMain /\ InvPool
          /\ InvSlugs /\ InvServer)'
<1> USE DEF LifecycleInv, Quiet, mainVars, stationVars, Owned
<1>1. InvIds'
  BY DEF InvIds
<1>2. InvThreads'
  BY DEF InvThreads
<1>3. InvStopping'
  BY DEF InvStopping
<1>4. InvMain'
  BY DEF InvMain
<1>5. InvPool'
  BY DEF InvPool
<1>6. InvSlugs'
  BY DEF InvSlugs
<1>7. InvServer'
  BY DEF InvServer
<1>. QED
  BY <1>1, <1>2, <1>3, <1>4, <1>5, <1>6, <1>7

\* The ids a worker registers are ids of stations.
LEMMA TargetType ==
  ASSUME LifecycleInv, NEW a \in Actors, Register(a)
  PROVE  Target(a) \in Ids
<1>1. CASE a \in Ids
  BY <1>1 DEF Target
<1>2. CASE a \in Workers
  <2>1. pc[a] \in {"register", "registering", "registerBackoff"}
    BY <1>2 DEF LifecycleInv, TypeOK, WorkerPoints, Register, RegisterStops,
       RegisterSends, ServerRegisters, RegisterSucceeds, RegisterRefused,
       RegisterFails, BackoffEnds
  <2>2. job[a].station \in 0 .. (nextId - 1) /\ nextId \in 0 .. MaxStations
    BY <1>2, <2>1 DEF LifecycleInv, InvJobs, TypeOK
  <2>3. job[a].station \in Ids
    BY <2>2, ConstantsAssumption DEF ConstantsAssumption, Ids
  <2>. QED
    BY <1>2, <2>3, ConstantsAssumption DEF ConstantsAssumption, Target
<1>. QED
  BY <1>1, <1>2 DEF Actors

\* What popping a queue does.
LEMMA TailFacts ==
  ASSUME NEW S, NEW q \in Seq(S), q # <<>>
  PROVE  /\ Len(q) \in Nat \ {0} /\ Head(q) = q[1]
         /\ Len(Tail(q)) = Len(q) - 1
         /\ \A n \in 1 .. Len(Tail(q)) : Tail(q)[n] = q[n + 1]
OBVIOUS

\* The station a worker registers, or will register, stays a created one.
LEMMA ThreadStepKeepsJobs ==
  ASSUME LifecycleInv, ThreadStep
  PROVE  InvJobs'
<1> USE ConstantsAssumption
    DEF ConstantsAssumption, LifecycleInv, TypeOK, InvJobs, Actors,
        WorkerPoints, mainVars, stationVars, noticeVars, threadVars, callVars,
        Target
<1>0. nextId \in Nat
  OBVIOUS
<1>1. ASSUME NEW a \in Actors, Register(a) \/ Repeats(a) PROVE InvJobs'
  <2>1. CASE RegisterStops(a)
    BY <2>1 DEF RegisterStops, GivesUp, Returns
  <2>2. CASE RegisterSends(a)
    BY <2>2 DEF RegisterSends
  <2>3. CASE ServerRegisters(a)
    BY <2>3 DEF ServerRegisters
  <2>4. CASE RegisterSucceeds(a)
    <3>1. \A n \in 1 .. Len(jobs') :
            jobs'[n].kind = "register" => n \in 1 .. Len(jobs)
                                          /\ jobs'[n] = jobs[n]
      <4>1. CASE UNCHANGED jobs
        BY <4>1
      <4>2. CASE jobs' = Append(jobs, [kind |-> "status", station |-> Target(a)])
        BY <4>2, TargetType, <2>4 DEF Job, JobKinds, Register
      <4>. QED
        BY <2>4, <4>1, <4>2 DEF RegisterSucceeds, RefreshStatus, Enqueue
    <3>2. \A w \in Workers :
            pc'[w] \in {"register", "registering", "registerBackoff"} =>
              pc'[w] = pc[w] /\ job'[w] = job[w]
      BY <2>4 DEF RegisterSucceeds, Registered, Returns
    <3>. QED
      BY <2>4, <3>1, <3>2 DEF RegisterSucceeds
  <2>5. CASE RegisterRefused(a)
    BY <2>5 DEF RegisterRefused, GivesUp, Returns
  <2>6. CASE RegisterFails(a)
    BY <2>6 DEF RegisterFails
  <2>7. CASE BackoffEnds(a)
    BY <2>7 DEF BackoffEnds
  <2>8. CASE Repeats(a)
    BY <2>8 DEF Repeats
  <2>. QED
    BY <1>1, <2>1, <2>2, <2>3, <2>4, <2>5, <2>6, <2>7, <2>8 DEF Register
<1>2. ASSUME NEW i \in Ids, StreamLoop(i) \/ ConnectionDrops(i) PROVE InvJobs'
  <2>1. UNCHANGED <<jobs, job, nextId>>
    BY <1>2 DEF StreamLoop, SubscribeStops, Opens, OpenSucceeds, OpenFails,
                OpenRefused, ConnectionDrops, ReadStops, ReadFails
  <2>2. \A w \in Workers : pc'[w] = pc[w]
    BY <1>2 DEF StreamLoop, SubscribeStops, Opens, OpenSucceeds, OpenFails,
                OpenRefused, ConnectionDrops, ReadStops, ReadFails
  <2>. QED
    BY <2>1, <2>2
<1>3. ASSUME NEW w \in Workers, WorkerLoop(w) PROVE InvJobs'
  <2>1. CASE TakesJob(w)
    <3>1. /\ Len(jobs) \in Nat \ {0} /\ Head(jobs) = jobs[1]
          /\ Len(jobs') = Len(jobs) - 1
          /\ \A n \in 1 .. Len(jobs') : jobs'[n] = jobs[n + 1]
      <4>1. jobs \in Seq(Job) /\ jobs # <<>> /\ jobs' = Tail(jobs)
        BY <2>1 DEF TakesJob
      <4>. HIDE DEF LifecycleInv, TypeOK
      <4>. QED
        BY <4>1, TailFacts
    <3>2. \A x \in Workers :
            pc'[x] \in {"register", "registering", "registerBackoff"} =>
              \/ pc'[x] = pc[x] /\ job'[x] = job[x]
              \/ job'[x] = jobs[1] /\ jobs[1].kind = "register"
      BY <2>1, <3>1 DEF TakesJob
    <3>3. UNCHANGED nextId
      BY <2>1 DEF TakesJob
    <3>4. jobs[1].kind = "register" => jobs[1].station \in 0 .. (nextId - 1)
      BY <3>1
    <3>5. \A n \in 1 .. Len(jobs') : n + 1 \in 1 .. Len(jobs)
      BY <3>1
    <3>6. \A n \in 1 .. Len(jobs') :
            jobs'[n].kind = "register" =>
              jobs'[n].station \in 0 .. (nextId - 1)
      <4>1. UNCHANGED nextId
        BY <2>1 DEF TakesJob
      <4>2. \A n \in 1 .. Len(jobs) :
              jobs[n].kind = "register" =>
                jobs[n].station \in 0 .. (nextId - 1)
        OBVIOUS
      <4>. HIDE DEF LifecycleInv, TypeOK, InvJobs
      <4>. QED
        BY <3>1, <3>5, <4>2
    <3>7. \A x \in Workers :
            pc'[x] \in {"register", "registering", "registerBackoff"} =>
              job'[x].station \in 0 .. (nextId - 1)
      BY <3>2, <3>4
    <3>. QED
      BY <3>3, <3>6, <3>7
  <2>2. CASE WorkerExits(w)
    BY <2>2 DEF WorkerExits
  <2>3. CASE ServerUnregisters(w)
    BY <2>3 DEF ServerUnregisters
  <2>4. CASE CallReturns(w)
    BY <2>4 DEF CallReturns, Returns
  <2>5. CASE CallFails(w)
    BY <2>5 DEF CallFails, Returns
  <2>. QED
    BY <1>3, <2>1, <2>2, <2>3, <2>4, <2>5 DEF WorkerLoop
<1>4. ASSUME NEW v \in Servers, ServerRestarts(v) PROVE InvJobs'
  BY <1>4 DEF ServerRestarts
<1>5. ASSUME NEW q \in late, LateArrives(q) PROVE InvJobs'
  BY <1>5 DEF LateArrives
<1>. QED
  BY <1>1, <1>2, <1>3, <1>4, <1>5 DEF ThreadStep

LEMMA ThreadStepTypeOK ==
  ASSUME LifecycleInv, ThreadStep
  PROVE  TypeOK'
<1>0. \A a \in Actors : Target(a) \in Ids \cup {NoStation}
  BY ConstantsAssumption
     DEF ConstantsAssumption, LifecycleInv, TypeOK, Actors, Target, Job
<1>1. ASSUME NEW a \in Actors, Register(a) \/ Repeats(a) PROVE TypeOK'
  BY <1>0, <1>1, TargetType, RegisterTypeOK DEF LifecycleInv
<1>2. ASSUME NEW i \in Ids, StreamLoop(i) \/ ConnectionDrops(i) PROVE TypeOK'
  BY <1>2, StreamTypeOK DEF LifecycleInv
<1>3. ASSUME NEW w \in Workers, WorkerLoop(w) PROVE TypeOK'
  BY <1>3, WorkerTypeOK DEF LifecycleInv
<1>4. ASSUME NEW v \in Servers, ServerRestarts(v) PROVE TypeOK'
  BY <1>4 DEF ServerRestarts, LifecycleInv, TypeOK, mainVars, stationVars,
     noticeVars, threadVars, callVars, historyVars
<1>5. ASSUME NEW q \in late, LateArrives(q) PROVE TypeOK'
  BY <1>5, LateArrivesTypeOK DEF LifecycleInv
<1>. QED
  BY <1>1, <1>2, <1>3, <1>4, <1>5 DEF ThreadStep

\* A registration in flight is of a station that was created.
LEMMA RegisteringTarget ==
  ASSUME LifecycleInv, NEW a \in Actors, pc[a] = "registering"
  PROVE  Target(a) \in Ids /\ Target(a) < nextId
<1>1. CASE a \in Ids
  BY <1>1 DEF Target, LifecycleInv, InvThreads, InvIds, Alive
<1>2. CASE a \in Workers
  <2>1. job[a].station \in 0 .. (nextId - 1) /\ nextId \in 0 .. MaxStations
    BY <1>2 DEF LifecycleInv, InvJobs, TypeOK
  <2>2. job[a].station \in Ids /\ job[a].station < nextId
    BY <2>1, ConstantsAssumption DEF ConstantsAssumption, Ids
  <2>. QED
    BY <1>2, <2>2, ConstantsAssumption DEF ConstantsAssumption, Target
<1>. QED
  BY <1>1, <1>2 DEF Actors

\* A registration left behind is one that an actor was making.
LateOnes ==
  \A q \in late' :
    \/ q \in late
    \/ q.kind = "register" =>
         \E a \in Actors : /\ pc[a] = "registering"
                           /\ q.station = Target(a) /\ q.url = url[a]

LEMMA ThreadStepLeaves ==
  ASSUME ThreadStep
  PROVE  LateOnes
<1>1. ASSUME NEW a \in Actors, MayArriveLate(a) PROVE LateOnes
  BY <1>1 DEF MayArriveLate, RequestOf, LateOnes
<1>2. ASSUME \A q \in late' : q \in late PROVE LateOnes
  BY <1>2 DEF LateOnes
<1>3. ASSUME NEW a \in Actors, Register(a) \/ Repeats(a) PROVE LateOnes
  <2>1. MayArriveLate(a) \/ UNCHANGED late
    BY <1>3 DEF Register, Repeats, RegisterStops, RegisterSends,
       ServerRegisters, RegisterSucceeds, RegisterRefused, RegisterFails,
       BackoffEnds, serverVars
  <2>. QED
    BY <1>1, <1>2, <1>3, <2>1
<1>4. ASSUME NEW i \in Ids, StreamLoop(i) \/ ConnectionDrops(i) PROVE LateOnes
  <2>1. UNCHANGED late
    BY <1>4 DEF StreamLoop, SubscribeStops, Opens, OpenSucceeds, OpenFails,
       OpenRefused, ConnectionDrops, ReadStops, ReadFails, serverVars
  <2>. QED
    BY <1>2, <2>1
<1>5. ASSUME NEW w \in Workers, WorkerLoop(w) PROVE LateOnes
  <2>1. MayArriveLate(w) \/ UNCHANGED late
    BY <1>5 DEF WorkerLoop, TakesJob, WorkerExits, ServerUnregisters,
       CallReturns, CallFails, serverVars
  <2>. QED
    BY <1>1, <1>2, <2>1 DEF Actors
<1>6. ASSUME NEW v \in Servers, ServerRestarts(v) PROVE LateOnes
  BY <1>2, <1>6 DEF ServerRestarts
<1>7. ASSUME NEW q \in late, LateArrives(q) PROVE LateOnes
  BY <1>2, <1>7 DEF LateArrives
<1>. QED
  BY <1>3, <1>4, <1>5, <1>6, <1>7 DEF ThreadStep

LEMMA ThreadStepKeepsLate ==
  ASSUME LifecycleInv, ThreadStep
  PROVE  InvLate'
<1>1. UNCHANGED nextId
  BY ThreadStepIsQuiet DEF Quiet, LifecycleInv, mainVars, stationVars
<1>2. LateOnes
  BY ThreadStepLeaves
<1>3. \A a \in Actors :
        pc[a] = "registering" => Target(a) \in Ids /\ Target(a) < nextId
  BY RegisteringTarget
<1>. QED
  BY <1>1, <1>2, <1>3 DEF LateOnes, InvLate, LifecycleInv

\* The natives leave the server's hands as they are.
LEMMA MainKeepsLate ==
  ASSUME LifecycleInv, Main
  PROVE  InvLate'
<1>1. UNCHANGED late
  BY DEF Main, Configure, StopWorkers, JoinWorkers, StartWorkers, CreateStation,
     UpdateStation, SetMetadata, DestroyStation, FinishDestroy, Shutdown,
     FinishShutdown, serverVars
<1>2. nextId' = nextId \/ nextId' = nextId + 1
  BY DEF Main, Configure, StopWorkers, JoinWorkers, StartWorkers, CreateStation,
     UpdateStation, SetMetadata, DestroyStation, FinishDestroy, Shutdown,
     FinishShutdown, StopStreams, stationVars
<1>3. nextId \in Nat /\ Ids \subseteq Nat
  BY DEF LifecycleInv, TypeOK, Ids
<1>4. \A i \in Ids : i < nextId => i < nextId'
  <2>. HIDE DEF Ids
  <2>. QED
    BY <1>2, <1>3
<1>. QED
  BY <1>1, <1>4 DEF InvLate, LifecycleInv

\* A step of the main thread preserves every part but the types.
LEMMA MainKeepsInv ==
  ASSUME LifecycleInv, Main
  PROVE  (InvIds /\ InvThreads /\ InvStopping /\ InvMain /\ InvPool
          /\ InvSlugs /\ InvServer)'
<1> USE ConstantsAssumption
    DEF ConstantsAssumption, LifecycleInv, InvIds, InvThreads, InvStopping,
        InvMain, InvPool, InvSlugs, InvServer, Owned, Alive, TypeOK, Actors,
        stationVars, noticeVars, threadVars, callVars, historyVars
<1>1. ASSUME NEW v \in Servers, Configure(v)
      PROVE (InvIds /\ InvThreads /\ InvStopping /\ InvMain /\ InvPool
             /\ InvSlugs /\ InvServer)'
  BY <1>1 DEF Configure, MayConfigure
<1>2. CASE StopWorkers
  BY <1>2 DEF StopWorkers
<1>3. CASE JoinWorkers
  BY <1>3 DEF JoinWorkers, WorkersJoined
<1>4. CASE StartWorkers
  BY <1>4 DEF StartWorkers
<1>5. ASSUME NEW s \in Slugs, CreateStation(s)
      PROVE (InvIds /\ InvThreads /\ InvStopping /\ InvMain /\ InvPool
             /\ InvSlugs /\ InvServer)'
  BY <1>5 DEF CreateStation, MayCreate, mainVars, Ids
<1>6. ASSUME NEW i \in Ids, UpdateStation(i) \/ SetMetadata(i)
      PROVE (InvIds /\ InvThreads /\ InvStopping /\ InvMain /\ InvPool
             /\ InvSlugs /\ InvServer)'
  BY <1>6 DEF UpdateStation, SetMetadata, mainVars
<1>7. ASSUME NEW i \in Ids, DestroyStation(i)
      PROVE (InvIds /\ InvThreads /\ InvStopping /\ InvMain /\ InvPool
             /\ InvSlugs /\ InvServer)'
  BY <1>7 DEF DestroyStation, StopStreams
<1>8. CASE FinishDestroy
  BY <1>8 DEF FinishDestroy, StreamThreadsJoined
<1>9. CASE Shutdown
  BY <1>9 DEF Shutdown, StopStreams
<1>10. CASE FinishShutdown
  BY <1>10 DEF FinishShutdown, StreamThreadsJoined
<1>. QED
  BY <1>1, <1>2, <1>3, <1>4, <1>5, <1>6, <1>7, <1>8, <1>9, <1>10 DEF Main

\* What the main thread enqueues concerns stations that were created.
LEMMA MainKeepsJobs ==
  ASSUME LifecycleInv, Main
  PROVE  InvJobs'
<1> USE ConstantsAssumption
    DEF ConstantsAssumption, LifecycleInv, InvJobs, TypeOK, Actors,
        stationVars, noticeVars, threadVars, callVars, historyVars
<1>1. ASSUME NEW v \in Servers, Configure(v) PROVE InvJobs'
  BY <1>1 DEF Configure
<1>2. CASE StopWorkers
  BY <1>2 DEF StopWorkers
<1>3. CASE JoinWorkers
  BY <1>3 DEF JoinWorkers
<1>4. CASE StartWorkers
  <2>1. jobs' = Append(jobs, [kind |-> "info", station |-> NoStation])
    BY <1>4 DEF StartWorkers, Enqueue
  <2>2. \A n \in 1 .. Len(jobs') :
          jobs'[n].kind = "register" =>
            n \in 1 .. Len(jobs) /\ jobs'[n] = jobs[n]
    BY <2>1 DEF Job, JobKinds
  <2>3. UNCHANGED nextId /\ \A w \in Workers : pc'[w] = "idle"
    BY <1>4 DEF StartWorkers
  <2>. QED
    BY <2>2, <2>3
<1>5. ASSUME NEW s \in Slugs, CreateStation(s) PROVE InvJobs'
  <2>1. /\ nextId' = nextId + 1 /\ UNCHANGED <<jobs, job>>
        /\ \A w \in Workers : pc'[w] = pc[w]
    BY <1>5 DEF CreateStation
  <2>2. 0 .. (nextId - 1) \subseteq 0 .. (nextId' - 1)
    BY <2>1
  <2>. QED
    BY <2>1, <2>2
<1>6. ASSUME NEW i \in Ids, UpdateStation(i) PROVE InvJobs'
  <2>1. jobs' = Append(jobs, [kind |-> "register", station |-> i])
    BY <1>6 DEF UpdateStation, Enqueue
  <2>2. i \in 0 .. (nextId - 1)
    BY <1>6 DEF UpdateStation, InvIds, Owned, Ids
  <2>3. \A n \in 1 .. Len(jobs') :
          \/ n \in 1 .. Len(jobs) /\ jobs'[n] = jobs[n]
          \/ jobs'[n].station = i
    BY <2>1 DEF Job
  <2>4. UNCHANGED <<nextId, job, pc>>
    BY <1>6 DEF UpdateStation
  <2>. QED
    BY <2>2, <2>3, <2>4
<1>7. ASSUME NEW i \in Ids, SetMetadata(i) \/ DestroyStation(i) PROVE InvJobs'
  BY <1>7 DEF SetMetadata, DestroyStation
<1>8. CASE FinishDestroy
  <2>1. PICK i \in dying :
          jobs' = Append(jobs, [kind |-> "unregister", station |-> i])
    BY <1>8 DEF FinishDestroy, Enqueue
  <2>2. \A n \in 1 .. Len(jobs') :
          jobs'[n].kind = "register" =>
            n \in 1 .. Len(jobs) /\ jobs'[n] = jobs[n]
    BY <2>1 DEF Job, JobKinds
  <2>3. UNCHANGED <<nextId, job, pc>>
    BY <1>8 DEF FinishDestroy
  <2>. QED
    BY <2>2, <2>3
<1>9. CASE Shutdown
  BY <1>9 DEF Shutdown
<1>10. CASE FinishShutdown
  BY <1>10 DEF FinishShutdown
<1>. QED
  BY <1>1, <1>2, <1>3, <1>4, <1>5, <1>6, <1>7, <1>8, <1>9, <1>10 DEF Main

\* LifecycleInv is an inductive invariant of the specification.
THEOREM LifecycleInvariant == Spec => []LifecycleInv
<1>1. Init => LifecycleInv
  <2> SUFFICES ASSUME Init PROVE LifecycleInv
    OBVIOUS
  <2>1. TypeOK
    BY InitTypeOK
  <2>2. InvIds /\ InvThreads /\ InvMain /\ InvSlugs
    BY ConstantsAssumption DEF ConstantsAssumption, Init, InvIds, InvThreads,
       InvMain, InvSlugs, Owned, Alive, Actors
  <2>3. InvStopping
    BY DEF Init, InvStopping, Ids
  <2>4. InvPool /\ InvServer /\ InvJobs /\ InvLate
    BY ConstantsAssumption DEF ConstantsAssumption, Init, InvPool, InvServer,
       InvJobs, InvLate, Owned, Alive, Actors
  <2>. QED
    BY <2>1, <2>2, <2>3, <2>4 DEF LifecycleInv
<1>2. LifecycleInv /\ [Next]_vars => LifecycleInv'
  <2> SUFFICES ASSUME LifecycleInv, [Next]_vars PROVE LifecycleInv'
    OBVIOUS
  <2>1. CASE Main
    BY <2>1, MainTypeOK, MainKeepsInv, MainKeepsJobs, MainKeepsLate
       DEF LifecycleInv
  <2>2. CASE ThreadStep
    <3>1. TypeOK
      BY DEF LifecycleInv
    <3>2. Quiet
      BY <2>2, <3>1, ThreadStepIsQuiet
    <3>. QED
      BY <2>2, <3>2, ThreadStepTypeOK, QuietKeepsInv, ThreadStepKeepsJobs,
         ThreadStepKeepsLate
         DEF LifecycleInv
  <2>3. CASE UNCHANGED vars
    BY <2>3 DEF vars, mainVars, stationVars, noticeVars, threadVars, callVars,
       serverVars, historyVars, LifecycleInv, TypeOK, InvIds, InvThreads,
       InvStopping, InvMain, InvPool, InvSlugs, InvServer, InvJobs, InvLate,
       Owned, Alive
  <2>. QED
    BY <2>1, <2>2, <2>3 DEF Next, ThreadStep
<1>. QED
  BY <1>1, <1>2, PTL DEF Spec

-----------------------------------------------------------------------------
(* The safety properties                                                     *)

\* Every variable keeps its type, whatever the bounds.
THEOREM LifecycleTypeOK == Spec => []TypeOK
<1>1. LifecycleInv => TypeOK
  BY DEF LifecycleInv
<1>. QED
  BY <1>1, LifecycleInvariant, PTL

\* manager.cpp deletes an EventStream only after joining the thread that
\* reads from it.
THEOREM StreamsOutliveTheirThreads == Spec => []NoThreadOutlivesItsStream
<1>1. LifecycleInv => NoThreadOutlivesItsStream
  BY DEF LifecycleInv, InvThreads, NoThreadOutlivesItsStream
<1>. QED
  BY <1>1, LifecycleInvariant, PTL

\* StopWorkers is only reached when no stream thread is left to register
\* against the pool it takes down.
THEOREM PoolOutlivesTheThreads == Spec => []NoThreadOutlivesThePool
<1>1. LifecycleInv => NoThreadOutlivesThePool
  BY DEF LifecycleInv, InvThreads, InvPool, NoThreadOutlivesThePool
<1>. QED
  BY <1>1, LifecycleInvariant, PTL

\* The slug look-up of CreateStation and the join of DestroyStation keep two
\* stream threads off one slug.
THEOREM SlugsAreDrivenOnce == Spec => []OneStreamPerSlug
<1>1. LifecycleInv => OneStreamPerSlug
  BY DEF LifecycleInv, InvThreads, InvSlugs, OneStreamPerSlug
<1>. QED
  BY <1>1, LifecycleInvariant, PTL

\* Configure re-points no live station and no running worker.
THEOREM ThreadsTalkToTheServer == Spec => []NothingTalksToAnOldServer
<1>1. LifecycleInv => NothingTalksToAnOldServer
  BY DEF LifecycleInv, InvThreads, InvServer, NothingTalksToAnOldServer, Actors
<1>. QED
  BY <1>1, LifecycleInvariant, PTL

\* Neither DestroyStation, Shutdown nor Configure waits for a backoff that
\* nothing will cut short.
THEOREM BackoffsEndWithTheStation == Spec => []NoJoinWaitsOutABackoff
<1>1. LifecycleInv => NoJoinWaitsOutABackoff
  <2> SUFFICES ASSUME LifecycleInv PROVE NoJoinWaitsOutABackoff
    OBVIOUS
  <2> USE DEF LifecycleInv, TypeOK
  <2>1. \A i \in dying : i \in stopping
    BY DEF InvStopping, InvIds, Owned
  <2>2. ASSUME mainAt = "joinWorkers", NEW a \in Actors,
               pc[a] = "registerBackoff"
        PROVE  Target(a) \in stopping
    <3>1. a \in Workers
      BY <2>2 DEF InvThreads, InvMain, Owned, Alive, Actors
    <3>2. job[a].station \in 0 .. (nextId - 1)
      BY <2>2, <3>1 DEF InvJobs
    <3>3. Target(a) = job[a].station /\ Target(a) \in Ids
      BY <3>1, <3>2, ConstantsAssumption DEF ConstantsAssumption, Target, Ids
    <3>4. Target(a) < nextId /\ stations = {}
      BY <2>2, <3>2, <3>3 DEF InvMain, Ids
    <3>. QED
      BY <3>3, <3>4 DEF InvStopping
  <2>. QED
    BY <2>1, <2>2 DEF NoJoinWaitsOutABackoff
<1>. QED
  BY <1>1, LifecycleInvariant, PTL

-----------------------------------------------------------------------------
(* Only strays come back: the inductive invariant                            *)

\* The jobs in jobs_, whatever their order.
Queued == {jobs[n] : n \in 1 .. Len(jobs)}

\* Jobs whose calls change the registry of the audio server.
ForRegistry(j) == j.kind \in {"register", "unregister"}

\* Nothing is queued for a pool that is down.
InvIdle == ~running => jobs = <<>>

\* A worker holds a job and an answer only while it carries the job out, and
\* is inside RegisterWithRetry just for registrations.
InvHands ==
  \A w \in Workers :
    /\ pc[w] \in {"idle", "ended"} => job[w] = NoJob /\ reply[w] = "none"
    /\ pc[w] = "calling" => job[w].kind # "register"
    /\ pc[w] \in {"register", "registering", "registerBackoff"} =>
         job[w].kind = "register"

\* A job for the registry is of a station that was created, and the workers'
\* clients are for the server that station is on.
RightServer(j) ==
  /\ j.station \in Ids /\ j.station < nextId
  /\ \A w \in Workers : url[w] = url[j.station]

InvRoutes ==
  /\ \A j \in Queued : ForRegistry(j) => RightServer(j)
  /\ \A w \in Workers : ForRegistry(job[w]) => RightServer(job[w])
  /\ \A q \in late : q.kind = "register" => q.url = url[q.station]

\* A server knows a station under that station's slug, and is the server that
\* station is on.
InvOwners ==
  \A v \in Servers, s \in Slugs :
    known[v][s] # Unknown =>
      LET i == known[v][s].owner
      IN i < nextId /\ s = slug[i] /\ v = url[i]

\* Stations whose stream thread was joined and whose registrations are dropped.
Gone(i) == i \in Ids /\ i < nextId /\ i \in stopping /\ ~Alive(i)

InvGone ==
  /\ \A j \in Queued : j.kind = "unregister" => Gone(j.station)
  /\ \A w \in Workers : job[w].kind = "unregister" => Gone(job[w].station)
  /\ \A i \in retired : Gone(i)

\* Stations a server has dropped on a worker's call, before the worker hears of
\* it as well as after.
Swept(i) ==
  \/ i \in retired
  \/ \E w \in Workers :
       job[w].kind = "unregister" /\ reply[w] = "ok" /\ job[w].station = i

\* No server knows the station.
Erased(i) ==
  \A v \in Servers, s \in Slugs :
    known[v][s] # Unknown => known[v][s].owner # i

\* A station that was dropped with no registration under way gets none under
\* way any more, and no server knows it.
InvSwept == \A i : Swept(i) /\ i \notin loose => ~UnderWay(i) /\ Erased(i)

RetireInv ==
  /\ InvIdle /\ InvHands /\ InvRoutes /\ InvOwners /\ InvGone /\ InvSwept

\* What appending a job, and popping one, leave in the queue.
LEMMA QueuedAppend ==
  ASSUME jobs \in Seq(Job), NEW k \in JobKinds, NEW i \in Ids \cup {NoStation},
         Enqueue(k, i)
  PROVE  \A j \in Queued' : j \in Queued \/ j = [kind |-> k, station |-> i]
<1> DEFINE r == [kind |-> k, station |-> i]
<1>1. r \in Job /\ jobs' = Append(jobs, r)
  BY DEF Enqueue, Job
<1>. HIDE DEF r, Job
<1>2. Len(jobs) \in Nat /\ Len(jobs') = Len(jobs) + 1
  BY <1>1
<1>3. ASSUME NEW n \in 1 .. Len(jobs')
      PROVE  jobs'[n] \in Queued \/ jobs'[n] = r
  <2>1. CASE n \in 1 .. Len(jobs)
    BY <1>1, <2>1 DEF Queued
  <2>2. CASE n = Len(jobs) + 1
    BY <1>1, <2>2
  <2>. QED
    BY <1>2, <1>3, <2>1, <2>2
<1>. QED
  BY <1>3 DEF Queued, r

LEMMA QueuedTail ==
  ASSUME jobs \in Seq(Job), jobs # <<>>, jobs' = Tail(jobs)
  PROVE  /\ Head(jobs) \in Queued
         /\ \A j \in Queued' : j \in Queued
<1>. HIDE DEF Job
<1>1. /\ Len(jobs) \in Nat \ {0} /\ Head(jobs) = jobs[1]
      /\ Len(jobs') = Len(jobs) - 1
      /\ \A n \in 1 .. Len(jobs') : jobs'[n] = jobs[n + 1]
  BY TailFacts
<1>2. Head(jobs) \in Queued
  BY <1>1 DEF Queued
<1>3. ASSUME NEW n \in 1 .. Len(jobs') PROVE jobs'[n] \in Queued
  <2>1. n + 1 \in 1 .. Len(jobs)
    BY <1>1
  <2>. QED
    BY <1>1, <2>1 DEF Queued
<1>. QED
  BY <1>2, <1>3 DEF Queued

\* A job for the registry enters jobs_ only through a native.  A worker keeps
\* the job it has, has done with it, or pops one; it sends no registration of a
\* stopping station.  An unregistration is acknowledged to the worker that
\* made it.
Moves ==
  /\ \A j \in Queued' : j \in Queued \/ ~ForRegistry(j)
  /\ \A w \in Workers :
       \/ job'[w] = job[w]
       \/ job'[w] = NoJob
       \/ job'[w] \in Queued /\ reply'[w] = "none"
  /\ \A w \in Workers :
       pc'[w] = "registering" =>
         /\ job'[w] = job[w]
         /\ pc[w] = "registering" \/ job[w].station \notin stopping
  /\ \A i \in retired' :
       \/ i \in retired
       \/ \E w \in Workers :
            /\ job[w].kind = "unregister" /\ reply[w] = "ok"
            /\ job[w].station = i /\ job'[w] = NoJob

\* No unregistration is answered in this step.
NothingErased ==
  /\ loose' = loose
  /\ \A w \in Workers :
       job'[w].kind = "unregister" /\ reply'[w] = "ok" =>
         job'[w] = job[w] /\ reply[w] = "ok"

Steady == InvIdle' /\ InvHands' /\ Moves

LEMMA QueueUnchanged ==
  UNCHANGED jobs => \A j \in Queued' : j \in Queued
BY DEF Queued

LEMMA RegisterMoves ==
  ASSUME LifecycleInv, RetireInv, NEW a \in Actors, Register(a) \/ Repeats(a)
  PROVE  Steady /\ NothingErased
<1> USE ConstantsAssumption, QueueUnchanged
    DEF ConstantsAssumption, LifecycleInv, TypeOK, RetireInv, InvIdle, InvHands,
        Actors, StreamPoints, WorkerPoints, mainVars, noticeVars, callVars,
        historyVars, Target, Steady, Moves, NothingErased, NoJob
<1>1. CASE RegisterStops(a)
  BY <1>1 DEF RegisterStops, GivesUp, Returns
<1>2. CASE RegisterSends(a)
  BY <1>2 DEF RegisterSends, MustStop
<1>3. CASE ServerRegisters(a)
  BY <1>3 DEF ServerRegisters
<1>4. CASE RegisterSucceeds(a)
  <2>1. (\A j \in Queued' : j \in Queued \/ ~ForRegistry(j)) /\ InvIdle'
    <3>1. CASE UNCHANGED jobs
      BY <1>4, <3>1 DEF RegisterSucceeds
    <3>2. CASE ~UNCHANGED jobs
      <4>1. a \in stations /\ Enqueue("status", a)
        BY <1>4, <3>2 DEF RegisterSucceeds, RefreshStatus
      <4>2. \A j \in Queued' :
              j \in Queued \/ j = [kind |-> "status", station |-> a]
        BY <4>1, QueuedAppend DEF JobKinds
      <4>3. running /\ running' = running
        BY <1>4, <4>1 DEF RegisterSucceeds, InvPool, Owned
      <4>. QED
        BY <4>2, <4>3 DEF ForRegistry
    <3>. QED
      BY <3>1, <3>2
  <2>2. InvHands'
    BY <1>4 DEF RegisterSucceeds, Registered, Returns
  <2>3. /\ \A w \in Workers : job'[w] = job[w] \/ job'[w] = NoJob
        /\ retired' = retired
    BY <1>4 DEF RegisterSucceeds, Returns
  <2>4. NothingErased
    BY <1>4 DEF RegisterSucceeds, Returns
  <2>5. \A w \in Workers :
          pc'[w] = "registering" => pc[w] = "registering" /\ job'[w] = job[w]
    BY <1>4 DEF RegisterSucceeds, Registered, Returns
  <2>. QED
    BY <2>1, <2>2, <2>3, <2>4, <2>5
<1>5. CASE RegisterRefused(a)
  BY <1>5 DEF RegisterRefused, GivesUp, Returns
<1>6. CASE RegisterFails(a)
  BY <1>6 DEF RegisterFails
<1>7. CASE BackoffEnds(a)
  BY <1>7 DEF BackoffEnds
<1>8. CASE Repeats(a)
  BY <1>8 DEF Repeats
<1>. QED
  BY <1>1, <1>2, <1>3, <1>4, <1>5, <1>6, <1>7, <1>8 DEF Register

LEMMA StreamMoves ==
  ASSUME LifecycleInv, RetireInv, NEW i \in Ids,
         StreamLoop(i) \/ ConnectionDrops(i)
  PROVE  Steady /\ NothingErased
<1>1. UNCHANGED <<jobs, job, reply, retired, loose, running>>
  BY DEF StreamLoop, SubscribeStops, Opens, OpenSucceeds, OpenFails, OpenRefused,
         ConnectionDrops, ReadStops, ReadFails, mainVars, threadVars, callVars,
         historyVars
<1>2. \A w \in Workers : pc'[w] = pc[w]
  BY ConstantsAssumption
     DEF ConstantsAssumption, StreamLoop, SubscribeStops, Opens, OpenSucceeds,
         OpenFails, OpenRefused, ConnectionDrops, ReadStops, ReadFails,
         threadVars, LifecycleInv, TypeOK, Actors
<1>. QED
  BY <1>1, <1>2, QueueUnchanged
     DEF RetireInv, InvIdle, InvHands, Steady, Moves, NothingErased

LEMMA WorkerMoves ==
  ASSUME LifecycleInv, RetireInv, NEW w \in Workers, WorkerLoop(w)
  PROVE  Steady /\ (NothingErased \/ ServerUnregisters(w))
<1> USE ConstantsAssumption, QueueUnchanged
    DEF ConstantsAssumption, LifecycleInv, TypeOK, RetireInv, InvIdle, InvHands,
        Actors, StreamPoints, WorkerPoints, mainVars, noticeVars, callVars,
        historyVars, Steady, Moves, NothingErased, NoJob
<1>1. CASE TakesJob(w)
  <2>1. /\ jobs # <<>> /\ jobs' = Tail(jobs) /\ pc[w] = "idle"
        /\ UNCHANGED <<running, retired, loose, reply>>
    BY <1>1 DEF TakesJob
  <2>2. Head(jobs) \in Queued /\ \A j \in Queued' : j \in Queued
    BY <2>1, QueuedTail
  <2>3. \/ UNCHANGED <<job, pc>>
        \/ /\ job' = [job EXCEPT ![w] = Head(jobs)]
           /\ pc' = [pc EXCEPT ![w] =
                       IF Head(jobs).kind = "register" THEN "register"
                       ELSE "calling"]
    BY <1>1 DEF TakesJob
  <2>4. InvHands'
    BY <2>1, <2>3
  <2>5. /\ \A x \in Workers :
             \/ job'[x] = job[x]
             \/ job'[x] \in Queued /\ reply'[x] = "none"
        /\ NothingErased
    BY <2>1, <2>2, <2>3
  <2>6. \A x \in Workers :
          pc'[x] = "registering" => pc[x] = "registering" /\ job'[x] = job[x]
    BY <2>1, <2>3
  <2>. QED
    BY <2>1, <2>2, <2>4, <2>5, <2>6
<1>2. CASE WorkerExits(w)
  BY <1>2 DEF WorkerExits
<1>3. CASE ServerUnregisters(w)
  BY <1>3 DEF ServerUnregisters
<1>4. CASE CallReturns(w)
  BY <1>4 DEF CallReturns, Returns
<1>5. CASE CallFails(w)
  BY <1>5 DEF CallFails, Returns
<1>. QED
  BY <1>1, <1>2, <1>3, <1>4, <1>5 DEF WorkerLoop

\* A registration in flight goes to the server its station is on.
LEMMA RegisteringRoute ==
  ASSUME LifecycleInv, RetireInv, NEW a \in Actors, pc[a] = "registering"
  PROVE  url[a] = url[Target(a)]
<1>1. CASE a \in Ids
  BY <1>1 DEF Target
<1>2. CASE a \in Workers
  <2>1. Target(a) = job[a].station /\ job[a].kind = "register"
    BY <1>2, ConstantsAssumption
       DEF ConstantsAssumption, Target, RetireInv, InvHands
  <2>. QED
    BY <1>2, <2>1 DEF RetireInv, InvRoutes, ForRegistry, RightServer
<1>. QED
  BY <1>1, <1>2 DEF Actors

\* What the moves of jobs, with the stations and clients as they were, leave of
\* the invariant.
LEMMA MovesKeepJobs ==
  ASSUME LifecycleInv, RetireInv, Quiet, Moves, LateOnes
  PROVE  (InvRoutes /\ InvGone)'
<1>1. UNCHANGED <<stopping, nextId, url, slug>>
  BY DEF Quiet, mainVars, stationVars
<1>2. \A i : Gone(i) => Gone(i)'
  BY <1>1 DEF Quiet, Gone
<1>3. \A j : RightServer(j) => RightServer(j)'
  BY <1>1 DEF RightServer
<1>4. \A j \in Queued' : ForRegistry(j) => j \in Queued
  BY DEF Moves
<1>5. ~ForRegistry(NoJob)
  BY DEF ForRegistry, NoJob
<1>6. InvRoutes'
  <2>1. /\ (\A j \in Queued : ForRegistry(j) => RightServer(j))'
        /\ (\A w \in Workers : ForRegistry(job[w]) => RightServer(job[w]))'
    BY <1>3, <1>4, <1>5 DEF RetireInv, InvRoutes, Moves
  <2>2. \A a \in Actors : pc[a] = "registering" => url[a] = url[Target(a)]
    BY RegisteringRoute
  <2>3. \A q \in late' : q.kind = "register" => q.url = url[q.station]
    BY <2>2 DEF LateOnes, RetireInv, InvRoutes
  <2>. QED
    BY <1>1, <2>1, <2>3 DEF InvRoutes
<1>7. \A i \in retired' : Gone(i)
  BY DEF RetireInv, InvGone, Moves
<1>8. InvGone'
  BY <1>2, <1>4, <1>5, <1>7 DEF RetireInv, InvGone, Moves, ForRegistry
<1>. QED
  BY <1>6, <1>8

\* What the registry may become in a step that answers no unregistration to a
\* worker: a server forgets, or carries a registration out, of an actor or a
\* late one, under the station's slug and with the server it was sent to.
Registers ==
  \A v \in Servers, s \in Slugs :
    \/ known'[v][s] = Unknown
    \/ known'[v][s] = known[v][s]
    \/ \E a \in Actors :
         /\ known'[v][s].owner = Target(a) /\ s = slug[Target(a)] /\ v = url[a]
         /\ pc[a] = "registering"
    \/ \E q \in late :
         /\ known'[v][s].owner = q.station /\ s = slug[q.station] /\ v = q.url
         /\ q.kind = "register"

\* Whoever is registering a station whose stream thread has ended is a worker.
LEMMA RegisteringIsUnderWay ==
  ASSUME LifecycleInv, NEW a \in Actors, pc[a] = "registering"
  PROVE  UnderWay(Target(a)) \/ ~Gone(Target(a))
<1>1. CASE a \in Ids
  BY <1>1 DEF Target, Gone, Alive
<1>2. CASE a \in Workers
  BY <1>2, ConstantsAssumption DEF ConstantsAssumption, Target, UnderWay
<1>. QED
  BY <1>1, <1>2 DEF Actors

LEMMA RegistersKeepsOwners ==
  ASSUME LifecycleInv, RetireInv, Quiet, Registers
  PROVE  InvOwners'
<1>1. UNCHANGED <<nextId, url, slug>>
  BY DEF Quiet, mainVars, stationVars
<1>2. \A a \in Actors :
        pc[a] = "registering" =>
          Target(a) < nextId /\ url[a] = url[Target(a)]
  BY RegisteringTarget, RegisteringRoute
<1>3. \A q \in late :
        q.kind = "register" => q.station < nextId /\ q.url = url[q.station]
  BY DEF LifecycleInv, InvLate, RetireInv, InvRoutes
<1>4. ASSUME NEW v \in Servers, NEW s \in Slugs, known'[v][s] # Unknown
      PROVE  LET i == known'[v][s].owner
             IN i < nextId /\ s = slug[i] /\ v = url[i]
  BY <1>2, <1>3, <1>4 DEF Registers, RetireInv, InvOwners
<1>. QED
  BY <1>1, <1>4 DEF InvOwners

LEMMA RegistersKeepsSwept ==
  ASSUME LifecycleInv, RetireInv, Quiet, Moves, NothingErased, LateOnes,
         Registers
  PROVE  InvSwept'
<1> SUFFICES ASSUME NEW i, Swept(i)', i \notin loose'
             PROVE  (~UnderWay(i) /\ Erased(i))'
  BY DEF InvSwept
<1>1. Swept(i) /\ i \notin loose
  BY DEF Swept, Moves, NothingErased
<1>2. Gone(i)
  BY <1>1 DEF Swept, RetireInv, InvGone
<1>3. ~UnderWay(i) /\ Erased(i)
  BY <1>1 DEF RetireInv, InvSwept
<1>4. \A a \in Actors : pc[a] = "registering" => Target(a) # i
  BY <1>2, <1>3, RegisteringIsUnderWay
<1>5. \A q \in late : q.kind = "register" => q.station # i
  BY <1>3 DEF UnderWay
<1>6. \A q \in late' : ~(q.kind = "register" /\ q.station = i)
  BY <1>4, <1>5 DEF LateOnes
<1>7. \A w \in Workers : ~(pc'[w] = "registering" /\ job'[w].station = i)
  BY <1>2, <1>3 DEF Moves, UnderWay, Gone
<1>8. ASSUME NEW v \in Servers, NEW s \in Slugs, known'[v][s] # Unknown
      PROVE  known'[v][s].owner # i
  BY <1>3, <1>4, <1>5, <1>8 DEF Registers, Erased
<1>. QED
  BY <1>6, <1>7, <1>8 DEF UnderWay, Erased

LEMMA StepRegisters ==
  ASSUME LifecycleInv, ThreadStep, \A w \in Workers : ~ServerUnregisters(w)
  PROVE  Registers
<1> USE DEF Registers
<1>1. ASSUME NEW w \in Servers, NEW i, NEW n, Knows(w, i, n),
             \/ \E a \in Actors :
                  i = Target(a) /\ w = url[a] /\ pc[a] = "registering"
             \/ \E q \in late :
                  i = q.station /\ w = q.url /\ q.kind = "register"
      PROVE  Registers
  <2> DEFINE r == [owner |-> i, fields |-> n]
  <2>1. /\ known' = [known EXCEPT ![w][slug[i]] = r]
        /\ known \in [Servers -> [Slugs -> Registration \cup {Unknown}]]
    BY <1>1 DEF Knows, LifecycleInv, TypeOK
  <2>2. ASSUME NEW v \in Servers, NEW s \in Slugs
        PROVE  \/ known'[v][s] = known[v][s]
               \/ known'[v][s] = r /\ v = w /\ s = slug[i]
    <3>. HIDE DEF r, Registration
    <3>. QED
      BY <2>1
  <2>3. r.owner = i
    OBVIOUS
  <2>. HIDE DEF r
  <2>. QED
    BY <1>1, <2>2, <2>3
<1>2. ASSUME NEW v \in Servers, ServerRestarts(v) PROVE Registers
  BY <1>2 DEF ServerRestarts, LifecycleInv, TypeOK
<1>3. CASE UNCHANGED known
  BY <1>3
<1>4. ASSUME NEW a \in Actors, Register(a) \/ Repeats(a) PROVE Registers
  <2>1. CASE ServerRegisters(a)
    <3>1. url[a] \in Servers
      BY DEF LifecycleInv, TypeOK
    <3>. QED
      BY <1>1, <1>3, <2>1, <3>1 DEF ServerRegisters
  <2>2. CASE ~ServerRegisters(a)
    <3>1. UNCHANGED known
      BY <1>4, <2>2 DEF Register, Repeats, RegisterStops, RegisterSends,
         RegisterSucceeds, RegisterRefused, RegisterFails, BackoffEnds,
         serverVars
    <3>. QED
      BY <1>3, <3>1
  <2>. QED
    BY <2>1, <2>2
<1>5. ASSUME NEW i \in Ids, StreamLoop(i) \/ ConnectionDrops(i)
      PROVE  UNCHANGED known
  BY <1>5 DEF StreamLoop, SubscribeStops, Opens, OpenSucceeds, OpenFails,
     OpenRefused, ConnectionDrops, ReadStops, ReadFails, serverVars
<1>6. ASSUME NEW w \in Workers, WorkerLoop(w) PROVE UNCHANGED known
  BY <1>6 DEF WorkerLoop, TakesJob, WorkerExits, CallReturns, CallFails,
     serverVars
<1>7. ASSUME NEW q \in late, LateArrives(q) PROVE Registers
  <2>1. q.url \in Servers
    BY DEF LifecycleInv, TypeOK, Request
  <2>2. CASE q.kind = "register" /\ Knows(q.url, q.station, q.fields)
    BY <1>1, <2>1, <2>2
  <2>3. CASE Forgets(q.url, slug[q.station])
    <3>1. /\ known' = [known EXCEPT ![q.url][slug[q.station]] = Unknown]
          /\ known \in [Servers -> [Slugs -> Registration \cup {Unknown}]]
      BY <2>3 DEF Forgets, LifecycleInv, TypeOK
    <3>2. \A v \in Servers, s \in Slugs :
            known'[v][s] = Unknown \/ known'[v][s] = known[v][s]
      <4>. HIDE DEF Registration
      <4>. QED
        BY <3>1
    <3>. QED
      BY <3>2
  <2>. QED
    BY <1>3, <1>7, <2>2, <2>3 DEF LateArrives
<1>. QED
  BY <1>2, <1>3, <1>4, <1>5, <1>6, <1>7 DEF ThreadStep

\* The server drops the one entry the station can have.
LEMMA UnregisteringErases ==
  ASSUME LifecycleInv, RetireInv, NEW w \in Workers, ServerUnregisters(w)
  PROVE  InvOwners' /\ InvSwept'
<1>0. PICK i : i = job[w].station
  OBVIOUS
<1>1. /\ job[w].kind = "unregister" /\ reply' = [reply EXCEPT ![w] = "ok"]
      /\ UNCHANGED <<nextId, url, slug, job, pc, late, retired>>
      /\ loose' = IF UnderWay(i) THEN loose \cup {i} ELSE loose
  BY <1>0 DEF ServerUnregisters, mainVars, stationVars
<1>2. url[w] = url[i]
  BY <1>0, <1>1 DEF RetireInv, InvRoutes, ForRegistry, RightServer
<1>3. ASSUME NEW v \in Servers, NEW s \in Slugs
      PROVE  \/ known'[v][s] = Unknown
             \/ known'[v][s] = known[v][s] /\ ~(v = url[i] /\ s = slug[i])
  <2>1. known' = [known EXCEPT ![url[w]][slug[i]] = Unknown]
    BY <1>0 DEF ServerUnregisters, Forgets
  <2>2. known \in [Servers -> [Slugs -> Registration \cup {Unknown}]]
    BY DEF LifecycleInv, TypeOK
  <2>. HIDE DEF Registration
  <2>. QED
    BY <1>2, <2>1, <2>2
<1>4. InvOwners'
  BY <1>1, <1>3 DEF RetireInv, InvOwners
<1>5. Erased(i)'
  BY <1>3 DEF RetireInv, InvOwners, Erased
<1>6. \A k : Erased(k) => Erased(k)'
  BY <1>3 DEF Erased
<1>7. \A k : UnderWay(k)' => UnderWay(k)
  BY <1>1 DEF UnderWay
<1>8. ASSUME NEW k, Swept(k)', k \notin loose'
      PROVE  (~UnderWay(k) /\ Erased(k))'
  <2>1. CASE k = i
    BY <1>1, <1>5, <1>7, <1>8, <2>1
  <2>2. CASE k # i
    <3>1. Swept(k) /\ k \notin loose
      BY <1>0, <1>1, <1>8, <2>2 DEF Swept, LifecycleInv, TypeOK
    <3>. QED
      BY <1>6, <1>7, <3>1 DEF RetireInv, InvSwept
  <2>. QED
    BY <2>1, <2>2
<1>. QED
  BY <1>4, <1>8 DEF InvSwept

LEMMA ThreadStepKeepsRetired ==
  ASSUME LifecycleInv, RetireInv, ThreadStep
  PROVE  RetireInv'
<1>1. Quiet
  BY ThreadStepIsQuiet DEF LifecycleInv
<1>2. Steady /\ (NothingErased \/ \E w \in Workers : ServerUnregisters(w))
  <2>1. ASSUME NEW v \in Servers, ServerRestarts(v)
        PROVE  Steady /\ NothingErased
    BY <2>1, QueueUnchanged
       DEF ServerRestarts, mainVars, threadVars, callVars, historyVars,
           RetireInv, InvIdle, InvHands, Steady, Moves, NothingErased
  <2>2. ASSUME NEW q \in late, LateArrives(q)
        PROVE  Steady /\ NothingErased
    BY <2>2, QueueUnchanged
       DEF LateArrives, mainVars, threadVars, callVars, historyVars,
           RetireInv, InvIdle, InvHands, Steady, Moves, NothingErased
  <2>. QED
    BY <2>1, <2>2, RegisterMoves, StreamMoves, WorkerMoves DEF ThreadStep
<1>l. LateOnes
  BY ThreadStepLeaves
<1>3. (InvRoutes /\ InvGone)'
  BY <1>1, <1>2, <1>l, MovesKeepJobs DEF Steady
<1>4. InvOwners' /\ InvSwept'
  <2>1. ASSUME NEW w \in Workers, ServerUnregisters(w)
        PROVE  InvOwners' /\ InvSwept'
    BY <2>1, UnregisteringErases
  <2>2. CASE \A w \in Workers : ~ServerUnregisters(w)
    <3>1. Registers
      BY <2>2, StepRegisters
    <3>2. Moves /\ NothingErased
      BY <1>2, <2>2 DEF Steady
    <3>. QED
      BY <1>1, <1>l, <3>1, <3>2, RegistersKeepsOwners, RegistersKeepsSwept
  <2>. QED
    BY <2>1, <2>2
<1>. QED
  BY <1>2, <1>3, <1>4 DEF RetireInv, Steady

\* The natives touch neither the registry nor what a worker has in hand; they
\* enqueue registrations of live stations, the unregistration of a station
\* whose thread is joined, and start a pool on an empty queue.
LEMMA MainKeepsRetired ==
  ASSUME LifecycleInv, RetireInv, Main
  PROVE  RetireInv'
<1> USE ConstantsAssumption DEF ConstantsAssumption
<1>1. UNCHANGED <<known, job, reply, late, retired, loose>>
  BY DEF Main, Configure, StopWorkers, JoinWorkers, StartWorkers, CreateStation,
     UpdateStation, SetMetadata, DestroyStation, FinishDestroy, Shutdown,
     FinishShutdown, serverVars, threadVars, callVars, historyVars
<1>2. InvSwept'
  <2>1. \A w \in Workers : pc'[w] = "registering" => pc[w] = "registering"
    BY DEF Main, Configure, StopWorkers, JoinWorkers, StartWorkers,
       CreateStation, UpdateStation, SetMetadata, DestroyStation, FinishDestroy,
       Shutdown, FinishShutdown, threadVars, LifecycleInv, TypeOK, Actors
  <2>2. \A i : UnderWay(i)' => UnderWay(i)
    BY <1>1, <2>1 DEF UnderWay
  <2>3. \A i : (Swept(i)' => Swept(i)) /\ (Erased(i) => Erased(i)')
    BY <1>1 DEF Swept, Erased
  <2>. QED
    BY <1>1, <2>2, <2>3 DEF RetireInv, InvSwept
<1>3. /\ nextId' \in Nat /\ nextId <= nextId' /\ nextId \in Nat
      /\ \A i \in Ids : i < nextId =>
           url'[i] = url[i] /\ slug'[i] = slug[i] /\ pc'[i] = pc[i]
      /\ stopping \subseteq stopping'
  <2>1. CASE StartWorkers
    BY <2>1 DEF StartWorkers, stationVars, LifecycleInv, TypeOK, Actors
  <2>2. ASSUME NEW s \in Slugs, CreateStation(s)
        PROVE  /\ nextId' = nextId + 1 /\ stopping' = stopping
               /\ \A i \in Ids : i < nextId =>
                    url'[i] = url[i] /\ slug'[i] = slug[i] /\ pc'[i] = pc[i]
    BY <2>2 DEF CreateStation, LifecycleInv, TypeOK, Actors, Ids
  <2>3. CASE ~StartWorkers /\ \A s \in Slugs : ~CreateStation(s)
    <3>1. UNCHANGED <<nextId, url, slug, pc>> /\ stopping \subseteq stopping'
      BY <2>3 DEF Main, Configure, StopWorkers, JoinWorkers, UpdateStation,
         SetMetadata, DestroyStation, FinishDestroy, Shutdown, FinishShutdown,
         StopStreams, threadVars, callVars, stationVars
    <3>. QED
      BY <3>1 DEF LifecycleInv, TypeOK
  <2>4. nextId \in Nat
    BY DEF LifecycleInv, TypeOK
  <2>. QED
    BY <2>1, <2>2, <2>3, <2>4
<1>4. InvOwners'
  <2>1. \A v \in Servers, s \in Slugs :
          known[v][s] # Unknown => known[v][s].owner \in Ids
    BY DEF LifecycleInv, TypeOK, Registration
  <2>2. \A i \in Ids : i < nextId => i < nextId'
    BY <1>3 DEF Ids
  <2>. QED
    BY <1>1, <1>3, <2>1, <2>2 DEF RetireInv, InvOwners
<1>r. \A q \in late' : q.kind = "register" => q.url = url'[q.station]
  BY <1>1, <1>3 DEF LifecycleInv, InvLate, RetireInv, InvRoutes
<1>5. \A i : Gone(i) => Gone(i)'
  BY <1>3 DEF Gone, Alive, Ids
<1>6. InvIdle'
  <2>1. CASE StartWorkers \/ StopWorkers
    BY <2>1 DEF StartWorkers, StopWorkers, RetireInv, InvIdle
  <2>2. ASSUME NEW i \in Ids, UpdateStation(i) PROVE running'
    BY <2>2 DEF UpdateStation, LifecycleInv, InvPool, Owned
  <2>3. CASE FinishDestroy
    <3>1. mainAt = "destroying" /\ UNCHANGED running
      BY <2>3 DEF FinishDestroy
    <3>2. running
      BY <3>1 DEF LifecycleInv, InvPool
    <3>. QED
      BY <3>1, <3>2 DEF InvIdle
  <2>. QED
    BY <2>1, <2>2, <2>3 DEF Main, Configure, JoinWorkers, CreateStation,
       SetMetadata, DestroyStation, Shutdown, FinishShutdown, StopStreams,
       RetireInv, InvIdle
<1>7. CASE StartWorkers
  <2>1. jobs = <<>> /\ \A w \in Workers : job[w] = NoJob /\ reply[w] = "none"
    <3>1. ~running /\ \A w \in Workers : pc[w] = "ended"
      BY <1>7 DEF StartWorkers, LifecycleInv, TypeOK, InvPool, Alive,
         WorkerPoints
    <3>. QED
      BY <3>1 DEF RetireInv, InvIdle, InvHands
  <2>2. \A j \in Queued' : j = [kind |-> "info", station |-> NoStation]
    <3>1. \A j \in Queued : FALSE
      BY <2>1 DEF Queued
    <3>2. jobs \in Seq(Job) /\ Enqueue("info", NoStation)
      BY <1>7 DEF StartWorkers, LifecycleInv, TypeOK
    <3>. QED
      BY <3>1, <3>2, QueuedAppend DEF JobKinds
  <2>3. InvHands'
    BY <1>1, <1>7, <2>1 DEF StartWorkers, InvHands, Actors
  <2>4. InvRoutes'
    BY <1>1, <1>r, <2>1, <2>2 DEF InvRoutes, ForRegistry, NoJob
  <2>5. InvGone'
    BY <1>1, <1>5, <2>1, <2>2 DEF InvGone, NoJob, RetireInv
  <2>. QED
    BY <1>2, <1>4, <1>6, <2>3, <2>4, <2>5 DEF RetireInv
<1>8. CASE ~StartWorkers
  <2>1. \A w \in Workers : pc'[w] = pc[w] /\ url'[w] = url[w]
    BY <1>8 DEF Main, Configure, StopWorkers, JoinWorkers, CreateStation,
       UpdateStation, SetMetadata, DestroyStation, FinishDestroy, Shutdown,
       FinishShutdown, StopStreams, threadVars, callVars, LifecycleInv, TypeOK,
       Actors
  <2>2. InvHands'
    BY <1>1, <2>1 DEF RetireInv, InvHands
  <2>3. \A j : RightServer(j) => RightServer(j)'
    BY <1>3, <2>1 DEF RightServer, Ids
  <2>4. \A i \in Owned :
          mainAt \in {"idle", "destroying"} =>
            i \in Ids /\ i < nextId /\ \A w \in Workers : url[w] = url[i]
    BY DEF LifecycleInv, TypeOK, InvIds, InvPool, InvServer, Owned
  <2>5. \A j \in Queued' :
          \/ j \in Queued
          \/ ForRegistry(j) =>
               RightServer(j) /\ (j.kind = "unregister" => Gone(j.station))
    <3>1. ASSUME NEW i \in Ids, UpdateStation(i)
          PROVE  \A j \in Queued' : \/ j \in Queued
                                    \/ RightServer(j) /\ j.kind = "register"
      <4>1. i \in Owned /\ mainAt = "idle" /\ Enqueue("register", i)
        BY <3>1 DEF UpdateStation, Owned
      <4>2. RightServer([kind |-> "register", station |-> i])
        BY <2>4, <4>1 DEF RightServer
      <4>. QED
        BY <4>1, <4>2, QueuedAppend DEF JobKinds, LifecycleInv, TypeOK
    <3>2. CASE FinishDestroy
      <4>1. PICK i \in dying : Enqueue("unregister", i)
        BY <3>2 DEF FinishDestroy
      <4>2. i \in Ids /\ i \in Owned /\ mainAt = "destroying" /\ ~Alive(i)
        BY <3>2, <4>1 DEF FinishDestroy, StreamThreadsJoined, Owned,
           LifecycleInv, TypeOK
      <4>3. i \in stopping
        BY <4>1, <4>2 DEF LifecycleInv, InvIds, InvStopping
      <4>4. RightServer([kind |-> "unregister", station |-> i])
        BY <2>4, <4>2 DEF RightServer
      <4>5. Gone(i)
        BY <2>4, <4>2, <4>3 DEF Gone
      <4>. QED
        BY <4>1, <4>2, <4>4, <4>5, QueuedAppend
           DEF JobKinds, LifecycleInv, TypeOK
    <3>3. CASE StopWorkers
      <4>1. jobs' = <<>> \/ jobs' = jobs
        BY <3>3 DEF StopWorkers
      <4>. QED
        BY <4>1, QueueUnchanged DEF Queued
    <3>4. CASE UNCHANGED jobs
      BY <3>4, QueueUnchanged
    <3>. QED
      BY <1>8, <3>1, <3>2, <3>3, <3>4 DEF Main, Configure, JoinWorkers,
         CreateStation, SetMetadata, DestroyStation, Shutdown, FinishShutdown
  <2>6. InvRoutes'
    BY <1>1, <1>r, <2>3, <2>5 DEF RetireInv, InvRoutes
  <2>7. InvGone'
    BY <1>1, <1>5, <2>5 DEF RetireInv, InvGone, ForRegistry
  <2>. QED
    BY <1>2, <1>4, <1>6, <2>2, <2>6, <2>7 DEF RetireInv
<1>. QED
  BY <1>7, <1>8

LEMMA RetireInvariant == Spec => []RetireInv
<1>1. Init => RetireInv
  <2> SUFFICES ASSUME Init PROVE RetireInv
    OBVIOUS
  <2>1. InvIdle /\ InvHands /\ InvOwners /\ InvSwept
    BY ConstantsAssumption
       DEF ConstantsAssumption, Init, InvIdle, InvHands, InvOwners, InvSwept,
           Swept, NoJob, Actors
  <2>2. \A j \in Queued : FALSE
    BY DEF Init, Queued
  <2>3. InvRoutes /\ InvGone
    BY <2>2 DEF Init, InvRoutes, InvGone, ForRegistry, NoJob
  <2>. QED
    BY <2>1, <2>3 DEF RetireInv
<1>2. LifecycleInv /\ RetireInv /\ [Next]_vars => RetireInv'
  <2> SUFFICES ASSUME LifecycleInv, RetireInv, [Next]_vars PROVE RetireInv'
    OBVIOUS
  <2>1. CASE UNCHANGED vars
    BY <2>1 DEF vars, mainVars, stationVars, noticeVars, threadVars, callVars,
       serverVars, historyVars, RetireInv, InvIdle, InvHands, InvRoutes,
       InvOwners, InvGone, InvSwept, Swept, Erased, UnderWay, Queued,
       RightServer, Gone, Alive
  <2>. QED
    BY <2>1, MainKeepsRetired, ThreadStepKeepsRetired DEF Next, ThreadStep
<1>. QED
  BY <1>1, <1>2, LifecycleInvariant, PTL DEF Spec

\* A destroyed station comes back only by a registration that was under way in
\* a worker's call, or given up, when the server dropped it: DestroyStation
\* enqueues the unregistration behind the joined stream thread, WorkerLoop drops
\* the registrations it has not begun, and RegisterWithRetry sends none once
\* `stopping` is set.  This for any number of workers, stations and servers and
\* any number of requests that take effect late.
THEOREM StationsStayAway == Spec => []OnlyStraysComeBack
<1>1. RetireInv => OnlyStraysComeBack
  BY DEF RetireInv, InvSwept, Swept, Erased, OnlyStraysComeBack
<1>. QED
  BY <1>1, RetireInvariant, PTL
=============================================================================
