--------------------------- MODULE StationLifecycle ---------------------------
(***************************************************************************)
(* The life of a station in src/src/manager.cpp: the natives the main      *)
(* thread runs (Configure, CreateStation, UpdateStation, SetMetadata,      *)
(* DestroyStation, Shutdown), the stream thread of each station            *)
(* (StreamLoop), the worker pool (WorkerLoop, StopWorkers), the            *)
(* registration loop both kinds of thread run (RegisterWithRetry), and the *)
(* audio server whose registry they race on.                               *)
(*                                                                         *)
(* A call to the audio server is three steps: the caller snapshots its     *)
(* request and sends it, the server acts on it, the caller handles the     *)
(* answer.  A transport failure may replace either of the last two, so a   *)
(* call may fail before or after it took effect; and a request its caller  *)
(* gave up, or repeated on a new connection, may still be in the server's  *)
(* hands (`late`) and take effect whenever the server gets to it.          *)
(***************************************************************************)
EXTENDS Integers, Sequences, FiniteSets

CONSTANTS
  Slugs,        \* slugs a script may create stations under
  Workers,      \* the threads of the worker pool (goradio_workers)
  Servers,      \* audio server URLs the plugin may be pointed at
  TokenScopes,  \* the sets of slugs the token may be authorised for
  Unknown,      \* registry entry of a slug the server does not know
  MaxStations,  \* bound: stations ever created (next_station_id_)
  MaxFields,    \* bound: changes of one station's registration fields
  MaxJobs,      \* bound: length of jobs_
  MaxLate       \* bound: given-up requests the server may still carry out

NoStation == -1

Ids == 0 .. (MaxStations - 1)

Actors == Ids \cup Workers

Registration == [owner : Ids, fields : 0 .. MaxFields]

JobKinds == {"register", "unregister", "status", "info"}

Job == [kind : JobKinds, station : Ids \cup {NoStation}]

\* What `job` holds while a worker has none.
NoJob == [kind |-> "info", station |-> NoStation]

\* A RegisterStation or UnregisterStation as the server has it.
Request == [kind : {"register", "unregister"}, station : Ids \cup {NoStation},
            fields : 0 .. MaxFields, url : Servers]

\* The last station event pushed to dispatch_ for a station.
Notices == {"none", "registered", "error"}

ASSUME ConstantsAssumption ==
  /\ MaxStations \in Nat \ {0}
  /\ MaxFields \in Nat
  /\ MaxJobs \in Nat \ {0}
  /\ MaxLate \in Nat
  /\ Ids \cap Workers = {}
  /\ TokenScopes \subseteq SUBSET Slugs
  /\ TokenScopes # {}
  /\ Servers # {}
  /\ Slugs # {}
  /\ Unknown \notin Registration

VARIABLES
  mainAt,      \* where the main thread is: idle, or inside a blocking native
  dying,       \* stations whose stream threads the main thread is joining
  thenStart,   \* StopWorkers was called by Configure, not by Shutdown
  configured,  \* configured_
  running,     \* running_
  server,      \* config_.url
  stations,    \* keys of stations_
  nextId,      \* next_station_id_
  slug,        \* Station::slug
  fields,      \* version of the fields RegisterRequestJson sends
  stopping,    \* stations with Station::stopping set
  registered,  \* stations with Station::registered set
  streams,     \* stations whose EventStream object exists
  pushed,      \* last station event pushed for each station
  jobs,        \* jobs_
  job,         \* the job each worker popped
  pc,          \* program point of each stream thread and worker
  url,         \* server each thread's ConnectClient was built for
  sent,        \* version of the fields in the request body being sent
  reply,       \* what the server answered to the call in flight
  again,       \* the `reconnect` argument of a stream thread's registration
  open,        \* stations whose event stream connection is up
  known,       \* registry of each audio server
  scope,       \* slugs the token is authorised for
  late,        \* requests nobody waits for that a server may still carry out
  retired,     \* history: stations whose UnregisterStation was acknowledged
  loose        \* history: stations a server unregistered on a worker's call
               \* while a registration of theirs was late or in a worker's hands

\* What only the main thread writes, with the part that concerns stations.
stationVars == <<stations, nextId, slug, fields, stopping, streams>>
mainVars    == <<mainAt, dying, thenStart, configured, server, running,
                 stationVars>>
noticeVars  == <<registered, pushed>>
callVars    == <<job, url, again, sent, reply>>
threadVars  == <<callVars, pc>>
serverVars  == <<known, scope, late>>
historyVars == <<retired, loose>>
vars == <<mainVars, noticeVars, jobs, threadVars, open, serverVars,
          historyVars>>

StreamPoints == {"unborn", "register", "registering", "registerBackoff",
                 "subscribe", "opening", "reading", "subscribeBackoff", "ended"}
WorkerPoints == {"idle", "calling", "register", "registering",
                 "registerBackoff", "ended"}
Alive(a) == pc[a] \notin {"unborn", "ended"}

\* The station an actor registers: a stream thread its own, a worker its job's.
Target(a) == IF a \in Ids THEN a ELSE job[a].station

\* Mutant: stopping is not looked at.
MustStopIgnoresStopping(i) == ~running

\* One test of both stop flags, the code's `stopping || !running_`.
MustStop(i) == i \in stopping \/ ~running

Init ==
  /\ mainAt = "idle" /\ dying = {} /\ thenStart = FALSE
  /\ configured = FALSE /\ running = FALSE
  /\ server \in Servers
  /\ stations = {} /\ nextId = 0
  /\ slug = [i \in Ids |-> CHOOSE s \in Slugs : TRUE]
  /\ fields = [i \in Ids |-> 0]
  /\ stopping = {} /\ registered = {} /\ streams = {}
  /\ pushed = [i \in Ids |-> "none"]
  /\ jobs = <<>>
  /\ job = [w \in Workers |-> NoJob]
  /\ pc = [a \in Actors |-> IF a \in Ids THEN "unborn" ELSE "ended"]
  /\ url = [a \in Actors |-> server]
  /\ sent = [a \in Actors |-> 0]
  /\ reply = [a \in Actors |-> "none"]
  /\ again = [i \in Ids |-> FALSE]
  /\ open = {}
  /\ known = [v \in Servers |-> [s \in Slugs |-> Unknown]]
  /\ scope \in TokenScopes
  /\ late = {}
  /\ retired = {} /\ loose = {}

-----------------------------------------------------------------------------
(* Enqueue, RefreshStatus and the joins                                      *)

\* jobs_.push_back; the bound MaxJobs stands for memory.
Enqueue(kind, i) ==
  /\ Len(jobs) < MaxJobs
  /\ jobs' = Append(jobs, [kind |-> kind, station |-> i])

\* A refresh of a station no longer in stations_ enqueues nothing.
RefreshStatus(i) ==
  IF i \in stations THEN Enqueue("status", i) ELSE UNCHANGED jobs

\* Mutant: the threads are not joined.
NoJoin == TRUE

\* join() of the dying stations' stream threads returns.
StreamThreadsJoined == \A i \in dying : ~Alive(i)

\* join() of every worker returns.
WorkersJoined == \A w \in Workers : ~Alive(w)

-----------------------------------------------------------------------------
(* Requests that outlive their call                                          *)

\* What is on the wire for the call `a` is making.
RequestOf(a) ==
  [kind |-> IF pc[a] = "registering" THEN "register" ELSE "unregister",
   station |-> Target(a), fields |-> sent[a], url |-> url[a]]

\* Giving a request up takes nothing back: the server has answered it, never
\* got it, or still has it.
MayArriveLate(a) ==
  \/ UNCHANGED late
  \/ /\ reply[a] = "none" /\ Cardinality(late) < MaxLate
     /\ late' = late \cup {RequestOf(a)}

\* Post's second attempt: the kept connection failed before an answer was
\* read, and the request is sent again on a new one.
Repeats(a) ==
  /\ \/ pc[a] = "registering"
     \/ pc[a] = "calling" /\ job[a].kind = "unregister"
  /\ reply' = [reply EXCEPT ![a] = "none"]
  /\ MayArriveLate(a)
  /\ UNCHANGED <<mainVars, noticeVars, jobs, job, pc, url, again, sent, open,
                 known, scope, historyVars>>

-----------------------------------------------------------------------------
(* RegisterWithRetry, run by stream threads and by workers                   *)

\* Returning from RegisterWithRetry or Call ends the life of the answer, of the
\* request body and, in a worker, of the job.
Returns(a) ==
  /\ reply' = [reply EXCEPT ![a] = "none"]
  /\ sent' = [sent EXCEPT ![a] = 0]
  /\ job' = IF a \in Workers THEN [job EXCEPT ![a] = NoJob] ELSE job

\* Where an actor goes when RegisterWithRetry returns false.
GivesUp(a) == IF a \in Ids THEN "ended" ELSE "idle"

\* Loop head, stop flag seen: return false.
RegisterStops(a) ==
  /\ pc[a] = "register" /\ MustStop(Target(a))
  /\ pc' = [pc EXCEPT ![a] = GivesUp(a)]
  /\ Returns(a)
  /\ UNCHANGED <<mainVars, noticeVars, jobs, url, again, open, serverVars,
                 historyVars>>

\* Loop head: snapshot the request body under the lock and send it.
RegisterSends(a) ==
  /\ pc[a] = "register" /\ ~MustStop(Target(a))
  /\ sent' = [sent EXCEPT ![a] = fields[Target(a)]]
  /\ pc' = [pc EXCEPT ![a] = "registering"]
  /\ UNCHANGED <<mainVars, noticeVars, jobs, job, url, again, reply,
                 open, serverVars, historyVars>>

\* The audio server takes station i over under its slug: idempotent by slug,
\* every field replaced.
Knows(v, i, n) ==
  known' = [known EXCEPT ![v][slug[i]] = [owner |-> i, fields |-> n]]

\* The audio server acts on a RegisterStation request; it refuses a slug the
\* token does not cover.
ServerRegisters(a) ==
  LET i == Target(a)
  IN /\ pc[a] = "registering" /\ reply[a] = "none"
     /\ \/ /\ slug[i] \in scope
           /\ reply' = [reply EXCEPT ![a] = "ok"]
           /\ Knows(url[a], i, sent[a])
        \/ /\ slug[i] \notin scope
           /\ reply' = [reply EXCEPT ![a] = "refused"]
           /\ UNCHANGED known
     /\ UNCHANGED <<mainVars, noticeVars, jobs, job, pc, url, again, sent,
                    open, scope, late, historyVars>>

\* Mutant: a worker goes on to the subscription as a stream thread does.
RegisteredSubscribes(a) ==
  IF a \in Ids /\ again[a] THEN "subscribeBackoff" ELSE "subscribe"

\* After a successful registration: a first one subscribes at once, a
\* re-registration first waits out the backoff, a worker takes its next job.
Registered(a) ==
  IF a \in Workers THEN "idle"
  ELSE IF again[a] THEN "subscribeBackoff" ELSE "subscribe"

\* Success: registered, StationRegistered pushed; a stream thread then
\* refreshes the status cache.
RegisterSucceeds(a) ==
  LET i == Target(a)
  IN /\ pc[a] = "registering" /\ reply[a] = "ok"
     /\ registered' = registered \cup {i}
     /\ pushed' = [pushed EXCEPT ![i] = "registered"]
     /\ pc' = [pc EXCEPT ![a] = Registered(a)]
     /\ IF a \in Ids THEN RefreshStatus(i) ELSE UNCHANGED jobs
     /\ Returns(a)
     /\ UNCHANGED <<mainVars, url, again, open, serverVars, historyVars>>

\* A permanent error: not registered, OnGoRadioError pushed, return false.
RegisterRefused(a) ==
  LET i == Target(a)
  IN /\ pc[a] = "registering" /\ reply[a] = "refused"
     /\ registered' = registered \ {i}
     /\ pushed' = [pushed EXCEPT ![i] = "error"]
     /\ pc' = [pc EXCEPT ![a] = GivesUp(a)]
     /\ Returns(a)
     /\ UNCHANGED <<mainVars, jobs, url, again, open, serverVars,
                    historyVars>>

\* Mutant: a transient failure ends the registration.
RegisterFailsForGood(a) ==
  /\ pc[a] = "registering"
  /\ registered' = registered \ {Target(a)}
  /\ pc' = [pc EXCEPT ![a] = GivesUp(a)]
  /\ MayArriveLate(a)
  /\ Returns(a)
  /\ UNCHANGED <<mainVars, pushed, jobs, url, again, open, known, scope,
                 historyVars>>

\* Any other failure, whether or not the server acted or still will:
\* WaitBackoff.
RegisterFails(a) ==
  /\ pc[a] = "registering"
  /\ registered' = registered \ {Target(a)}
  /\ pc' = [pc EXCEPT ![a] = "registerBackoff"]
  /\ reply' = [reply EXCEPT ![a] = "none"]
  /\ MayArriveLate(a)
  /\ UNCHANGED <<mainVars, pushed, jobs, job, url, again, sent, open,
                 known, scope, historyVars>>

\* The wait is over by timeout or by WakeBackoff.
BackoffEnds(a) ==
  /\ \/ /\ pc[a] = "registerBackoff"
        /\ pc' = [pc EXCEPT ![a] = "register"]
     \/ /\ pc[a] = "subscribeBackoff"
        /\ pc' = [pc EXCEPT ![a] = "subscribe"]
  /\ UNCHANGED <<mainVars, noticeVars, jobs, callVars, open, serverVars,
                 historyVars>>

-----------------------------------------------------------------------------
(* StreamLoop                                                                *)

\* The loop condition fails: the thread returns.
SubscribeStops(i) ==
  /\ pc[i] = "subscribe" /\ MustStop(i)
  /\ pc' = [pc EXCEPT ![i] = "ended"]
  /\ UNCHANGED <<mainVars, noticeVars, jobs, callVars, open, serverVars,
                 historyVars>>

\* The loop condition holds, and Open is called.
Opens(i) ==
  /\ pc[i] = "subscribe" /\ ~MustStop(i)
  /\ pc' = [pc EXCEPT ![i] = "opening"]
  /\ UNCHANGED <<mainVars, noticeVars, jobs, callVars, open, serverVars,
                 historyVars>>

\* SubscribeEvents is answered with a stream, to a thread that may have been
\* told to stop since.
OpenSucceeds(i) ==
  /\ pc[i] = "opening"
  /\ slug[i] \in scope /\ known[url[i]][slug[i]] # Unknown
  /\ pc' = [pc EXCEPT ![i] = "reading"]
  /\ open' = open \cup {i}
  /\ UNCHANGED <<mainVars, noticeVars, jobs, callVars, serverVars,
                 historyVars>>

\* SubscribeEvents fails: a stopping thread returns, another waits and opens
\* again (not_found, transport).  The retry does not register again.
OpenFails(i) ==
  /\ pc[i] = "opening"
  /\ pc' = [pc EXCEPT ![i] =
               IF i \in stopping THEN "ended" ELSE "subscribeBackoff"]
  /\ UNCHANGED <<mainVars, noticeVars, jobs, callVars, open, serverVars,
                 historyVars>>

\* SubscribeEvents is refused for good: OnGoRadioError, and the thread ends
\* with `registered` as it was.
OpenRefused(i) ==
  /\ pc[i] = "opening" /\ i \notin stopping /\ slug[i] \notin scope
  /\ pushed' = [pushed EXCEPT ![i] = "error"]
  /\ pc' = [pc EXCEPT ![i] = "ended"]
  /\ UNCHANGED <<mainVars, registered, jobs, callVars, open, serverVars,
                 historyVars>>

\* The event stream's connection breaks.
ConnectionDrops(i) ==
  /\ i \in open
  /\ open' = open \ {i}
  /\ UNCHANGED <<mainVars, noticeVars, jobs, threadVars, serverVars,
                 historyVars>>

\* Read returns nothing for a second, or fails, and a stop flag is seen: after
\* an event the flags are not looked at.
ReadStops(i) ==
  /\ pc[i] = "reading" /\ MustStop(i)
  /\ pc' = [pc EXCEPT ![i] = "ended"]
  /\ open' = open \ {i}
  /\ UNCHANGED <<mainVars, noticeVars, jobs, callVars, serverVars,
                 historyVars>>

\* Mutant: a broken stream is opened again without registering again.
ReadFailsReopens(i) ==
  /\ pc[i] = "reading" /\ ~MustStop(i) /\ i \notin open
  /\ registered' = registered \ {i}
  /\ again' = [again EXCEPT ![i] = TRUE]
  /\ pc' = [pc EXCEPT ![i] = "subscribe"]
  /\ UNCHANGED <<mainVars, pushed, jobs, job, url, sent, reply, open,
                 serverVars, historyVars>>

\* Read fails on a broken connection: the station counts as unregistered and
\* is registered again, with reconnect = true.
ReadFails(i) ==
  /\ pc[i] = "reading" /\ ~MustStop(i) /\ i \notin open
  /\ registered' = registered \ {i}
  /\ again' = [again EXCEPT ![i] = TRUE]
  /\ pc' = [pc EXCEPT ![i] = "register"]
  /\ UNCHANGED <<mainVars, pushed, jobs, job, url, sent, reply, open,
                 serverVars, historyVars>>

-----------------------------------------------------------------------------
(* WorkerLoop                                                                *)

\* Pop a job.  A kJobRegister of a stopping station is dropped.
TakesJob(w) ==
  LET j == Head(jobs)
  IN /\ pc[w] = "idle" /\ jobs # <<>>
     /\ jobs' = Tail(jobs)
     /\ IF j.kind = "register" /\ j.station \in stopping
        THEN UNCHANGED <<job, pc>>
        ELSE /\ job' = [job EXCEPT ![w] = j]
             /\ pc' = [pc EXCEPT ![w] =
                         IF j.kind = "register" THEN "register" ELSE "calling"]
     /\ UNCHANGED <<mainVars, noticeVars, url, again, sent, reply, open,
                    serverVars, historyVars>>

\* Queue empty and running_ cleared: the worker returns.
WorkerExits(w) ==
  /\ pc[w] = "idle" /\ jobs = <<>> /\ ~running
  /\ pc' = [pc EXCEPT ![w] = "ended"]
  /\ UNCHANGED <<mainVars, noticeVars, jobs, callVars, open, serverVars,
                 historyVars>>

\* The audio server drops slug s.  Whether it also ends the slug's event
\* streams is its own business: either may happen.
Forgets(v, s) ==
  /\ known' = [known EXCEPT ![v][s] = Unknown]
  /\ \/ open' = open \ {i \in Ids : slug[i] = s /\ url[i] = v}
     \/ UNCHANGED open

\* A registration of station i, sent before or without a look at `stopping`,
\* that may still reach the server: a late one, or one in a worker's call.
UnderWay(i) ==
  \/ \E q \in late : q.kind = "register" /\ q.station = i
  \/ \E w \in Workers : pc[w] = "registering" /\ job[w].station = i

ServerUnregisters(w) ==
  LET i == job[w].station
  IN /\ pc[w] = "calling" /\ job[w].kind = "unregister" /\ reply[w] = "none"
     /\ slug[i] \in scope
     /\ Forgets(url[w], slug[i])
     /\ reply' = [reply EXCEPT ![w] = "ok"]
     /\ loose' = IF UnderWay(i) THEN loose \cup {i} ELSE loose
     /\ UNCHANGED <<mainVars, noticeVars, jobs, job, pc, url, again, sent,
                    scope, late, retired>>

\* A request nobody waits for takes effect, or is refused as any other.
LateArrives(q) ==
  /\ late' = late \ {q}
  /\ \/ slug[q.station] \notin scope /\ UNCHANGED <<known, open>>
     \/ /\ slug[q.station] \in scope /\ q.kind = "register"
        /\ Knows(q.url, q.station, q.fields) /\ UNCHANGED open
     \/ /\ slug[q.station] \in scope /\ q.kind = "unregister"
        /\ Forgets(q.url, slug[q.station])
  /\ UNCHANGED <<mainVars, noticeVars, jobs, threadVars, scope, historyVars>>

\* The call is answered.  Of the calls made here only UnregisterStation
\* changes the server; the answers of the others are handled in StatusCache
\* and CommandPipeline.
CallReturns(w) ==
  /\ pc[w] = "calling"
  /\ job[w].kind = "unregister" => reply[w] = "ok"
  /\ pc' = [pc EXCEPT ![w] = "idle"]
  /\ retired' = IF job[w].kind = "unregister"
                THEN retired \cup {job[w].station} ELSE retired
  /\ Returns(w)
  /\ UNCHANGED <<mainVars, noticeVars, jobs, url, again, open, serverVars,
                 loose>>

\* The call fails, refused or in transport: an unregistration is only logged,
\* though the server may still carry it out.
CallFails(w) ==
  /\ pc[w] = "calling"
  /\ pc' = [pc EXCEPT ![w] = "idle"]
  /\ IF job[w].kind = "unregister" THEN MayArriveLate(w) ELSE UNCHANGED late
  /\ Returns(w)
  /\ UNCHANGED <<mainVars, noticeVars, jobs, url, again, open, known, scope,
                 historyVars>>

-----------------------------------------------------------------------------
(* The natives, on the main thread                                           *)

\* Mutant: Configure does not look for stations.
MayConfigureAlways == TRUE

\* Configure is rejected while stations exist.
MayConfigure == stations = {}

\* Configure, and a Reload whose connection settings differ: the pool is
\* retired and rebuilt for the new server.
Configure(v) ==
  /\ mainAt = "idle" /\ MayConfigure
  /\ server' = v
  /\ configured' = TRUE
  /\ thenStart' = TRUE
  /\ mainAt' = "stopWorkers"
  /\ UNCHANGED <<dying, running, stationVars, noticeVars, jobs, threadVars,
                 open, serverVars, historyVars>>

\* StopWorkers: returns at once when nothing runs, else clears the stop flag
\* and the queue.  Interrupted calls then fail, as calls always may.
StopWorkers ==
  /\ mainAt = "stopWorkers"
  /\ running' = FALSE
  /\ jobs' = IF running THEN <<>> ELSE jobs
  /\ mainAt' = IF running THEN "joinWorkers" ELSE "startWorkers"
  /\ UNCHANGED <<dying, thenStart, configured, server, stationVars,
                 noticeVars, threadVars, open, serverVars, historyVars>>

\* Every worker is joined: Configure goes on, Shutdown is done.
JoinWorkers ==
  /\ mainAt = "joinWorkers" /\ WorkersJoined
  /\ mainAt' = IF thenStart THEN "startWorkers" ELSE "idle"
  /\ configured' = thenStart
  /\ UNCHANGED <<dying, thenStart, server, running, stationVars, noticeVars,
                 jobs, threadVars, open, serverVars, historyVars>>

\* A new pool, each worker with a client for the configured server, and the
\* GetServerInfo job that checks connectivity.
StartWorkers ==
  /\ mainAt = "startWorkers"
  /\ running' = TRUE
  /\ pc' = [a \in Actors |-> IF a \in Workers THEN "idle" ELSE pc[a]]
  /\ url' = [a \in Actors |-> IF a \in Workers THEN server ELSE url[a]]
  /\ Enqueue("info", NoStation)
  /\ mainAt' = "idle"
  /\ UNCHANGED <<dying, thenStart, configured, server, stationVars,
                 noticeVars, job, again, sent, reply, open, serverVars,
                 historyVars>>

\* Mutant: the slug is not looked up.
MayCreateAnySlug(s) == configured

\* CreateStation refuses a slug one of this plugin's stations already has.
MayCreate(s) == configured /\ \A i \in stations : slug[i] # s

CreateStation(s) ==
  /\ mainAt = "idle" /\ nextId \in Ids /\ MayCreate(s)
  /\ nextId' = nextId + 1
  /\ slug' = [slug EXCEPT ![nextId] = s]
  /\ stations' = stations \cup {nextId}
  /\ streams' = streams \cup {nextId}
  /\ url' = [url EXCEPT ![nextId] = server]
  /\ pc' = [pc EXCEPT ![nextId] = "register"]
  /\ UNCHANGED <<mainAt, dying, thenStart, configured, server, running,
                 fields, stopping, noticeVars, jobs, job, again, sent,
                 reply, open, serverVars, historyVars>>

\* UpdateStation changes the fields and has a worker register them.
UpdateStation(i) ==
  /\ mainAt = "idle" /\ i \in stations /\ fields[i] < MaxFields
  /\ fields' = [fields EXCEPT ![i] = @ + 1]
  /\ Enqueue("register", i)
  /\ UNCHANGED <<mainAt, dying, thenStart, configured, server, running,
                 stations, nextId, slug, stopping, streams, noticeVars,
                 threadVars, open, serverVars, historyVars>>

\* SetMetadata and ClearMetadata change the fields the next registration
\* sends, and nothing else.
SetMetadata(i) ==
  /\ mainAt = "idle" /\ i \in stations /\ fields[i] < MaxFields
  /\ fields' = [fields EXCEPT ![i] = @ + 1]
  /\ UNCHANGED <<mainAt, dying, thenStart, configured, server, running,
                 stations, nextId, slug, stopping, streams, noticeVars,
                 jobs, threadVars, open, serverVars, historyVars>>

\* Mutant: `stopping` is not set.
StopStreamsSilently(S) ==
  /\ dying' = S
  /\ stations' = stations \ S
  /\ stopping' = stopping
  /\ open' = open \ S

\* The common start of DestroyStation and Shutdown: out of stations_, then
\* stopping, WakeBackoff and Interrupt; the join follows.
StopStreams(S) ==
  /\ dying' = S
  /\ stations' = stations \ S
  /\ stopping' = stopping \cup S
  /\ open' = open \ S

DestroyStation(i) ==
  /\ mainAt = "idle" /\ i \in stations
  /\ StopStreams({i})
  /\ mainAt' = "destroying"
  /\ UNCHANGED <<thenStart, configured, server, running, nextId, slug, fields,
                 streams, noticeVars, jobs, threadVars, serverVars,
                 historyVars>>

\* DestroyStation after the join: delete the stream, enqueue UnregisterStation.
FinishDestroy ==
  /\ mainAt = "destroying" /\ StreamThreadsJoined
  /\ streams' = streams \ dying
  /\ \E i \in dying : Enqueue("unregister", i)
  /\ dying' = {}
  /\ mainAt' = "idle"
  /\ UNCHANGED <<thenStart, configured, server, running, stations, nextId,
                 slug, fields, stopping, noticeVars, threadVars, open,
                 serverVars, historyVars>>

\* Shutdown stops every stream thread, keeping the workers until they are
\* joined.
Shutdown ==
  /\ mainAt = "idle" /\ running
  /\ StopStreams(stations)
  /\ thenStart' = FALSE
  /\ mainAt' = "shuttingDown"
  /\ UNCHANGED <<configured, server, running, nextId, slug, fields, streams,
                 noticeVars, jobs, threadVars, serverVars, historyVars>>

\* Shutdown after the joins: delete the streams, go on to StopWorkers.
FinishShutdown ==
  /\ mainAt = "shuttingDown" /\ StreamThreadsJoined
  /\ streams' = streams \ dying
  /\ dying' = {}
  /\ mainAt' = "stopWorkers"
  /\ UNCHANGED <<thenStart, configured, server, running, stations, nextId,
                 slug, fields, stopping, noticeVars, jobs, threadVars,
                 open, serverVars, historyVars>>

-----------------------------------------------------------------------------
(* The audio server on its own                                               *)

\* An audio server restarts: its registry is empty, its connections and the
\* requests it had are gone, and it may come back with a token of another scope.
ServerRestarts(v) ==
  /\ known' = [known EXCEPT ![v] = [s \in Slugs |-> Unknown]]
  /\ scope' \in TokenScopes
  /\ open' = {i \in open : url[i] # v}
  /\ late' = {q \in late : q.url # v}
  /\ UNCHANGED <<mainVars, noticeVars, jobs, threadVars, historyVars>>

Register(a) ==
  \/ RegisterStops(a) \/ RegisterSends(a) \/ ServerRegisters(a)
  \/ RegisterSucceeds(a) \/ RegisterRefused(a) \/ RegisterFails(a)
  \/ BackoffEnds(a)

StreamLoop(i) ==
  \/ SubscribeStops(i)
  \/ Opens(i) \/ OpenSucceeds(i) \/ OpenFails(i) \/ OpenRefused(i)
  \/ ReadStops(i) \/ ReadFails(i)

WorkerLoop(w) ==
  \/ TakesJob(w) \/ WorkerExits(w) \/ ServerUnregisters(w)
  \/ CallReturns(w) \/ CallFails(w)

Main ==
  \/ \E v \in Servers : Configure(v)
  \/ StopWorkers \/ JoinWorkers \/ StartWorkers
  \/ \E s \in Slugs : CreateStation(s)
  \/ \E i \in Ids : UpdateStation(i) \/ SetMetadata(i) \/ DestroyStation(i)
  \/ FinishDestroy \/ Shutdown \/ FinishShutdown

Next ==
  \/ Main
  \/ \E a \in Actors : Register(a) \/ Repeats(a)
  \/ \E i \in Ids : StreamLoop(i) \/ ConnectionDrops(i)
  \/ \E w \in Workers : WorkerLoop(w)
  \/ \E v \in Servers : ServerRestarts(v)
  \/ \E q \in late : LateArrives(q)

Spec == Init /\ [][Next]_vars

(***************************************************************************)
(* Fairness.  What the code and the operating system owe, and nothing of a *)
(* peer: every thread runs (weak fairness of what it does on its own), a   *)
(* wait ends, and a read on a broken connection returns.  Scripts owe      *)
(* nothing: the natives' first steps are not fair.                         *)
(***************************************************************************)
Fairness ==
  /\ WF_vars(StopWorkers \/ StartWorkers) /\ WF_vars(JoinWorkers)
  /\ WF_vars(FinishDestroy) /\ WF_vars(FinishShutdown)
  /\ \A a \in Actors :
       WF_vars(RegisterStops(a) \/ RegisterSends(a) \/ BackoffEnds(a))
  /\ \A i \in Ids :
       /\ WF_vars(SubscribeStops(i) \/ Opens(i))
       /\ WF_vars(i \notin open /\ (ReadStops(i) \/ ReadFails(i)))
  /\ \A w \in Workers : WF_vars(TakesJob(w) \/ WorkerExits(w))

FairSpec == Spec /\ Fairness

(***************************************************************************)
(* What a peer may owe besides, each a premise of the properties that need *)
(* it.  No timeout of the code bounds a call: SendAll tries again for as   *)
(* long as the peer reads nothing (http.cpp:273), and an answer that comes *)
(* a line or a chunk at a time never times a read out.                     *)
(***************************************************************************)
Answered(a) == RegisterSucceeds(a) \/ RegisterRefused(a)

\* Every call ends, in an answer or in failure.
CallsEnd ==
  /\ \A a \in Actors : WF_vars(Answered(a) \/ RegisterFails(a))
  /\ \A w \in Workers : WF_vars(CallReturns(w) \/ CallFails(w))
  /\ \A i \in Ids : WF_vars(OpenSucceeds(i) \/ OpenFails(i) \/ OpenRefused(i))

\* No event stream of a stopping thread has an event every second for ever.
StreamsFallQuiet == \A i \in Ids : WF_vars(ReadStops(i))

\* The network is not broken for ever: a registration sent again and again is
\* carried to the server, and its answer back, again and again.
NetworkHeals == \A i \in Ids : SF_vars(ServerRegisters(i)) /\ SF_vars(Answered(i))

-----------------------------------------------------------------------------
(* Properties                                                                *)

TypeOK ==
  /\ mainAt \in {"idle", "stopWorkers", "joinWorkers", "startWorkers",
                 "destroying", "shuttingDown"}
  /\ dying \in SUBSET Ids /\ thenStart \in BOOLEAN
  /\ configured \in BOOLEAN /\ running \in BOOLEAN
  /\ server \in Servers
  /\ stations \in SUBSET Ids /\ nextId \in 0 .. MaxStations
  /\ slug \in [Ids -> Slugs]
  /\ fields \in [Ids -> 0 .. MaxFields]
  /\ stopping \in SUBSET Ids /\ registered \in SUBSET Ids
  /\ streams \in SUBSET Ids
  /\ pushed \in [Ids -> Notices]
  /\ jobs \in Seq(Job)
  /\ job \in [Workers -> Job]
  /\ pc \in [Actors -> StreamPoints \cup WorkerPoints]
  /\ \A i \in Ids : pc[i] \in StreamPoints
  /\ \A w \in Workers : pc[w] \in WorkerPoints
  /\ url \in [Actors -> Servers]
  /\ sent \in [Actors -> 0 .. MaxFields]
  /\ reply \in [Actors -> {"none", "ok", "refused"}]
  /\ again \in [Ids -> BOOLEAN]
  /\ open \in SUBSET Ids
  /\ known \in [Servers -> [Slugs -> Registration \cup {Unknown}]]
  /\ scope \in TokenScopes
  /\ late \in SUBSET Request
  /\ retired \in SUBSET (Ids \cup {NoStation})
  /\ loose \in SUBSET (Ids \cup {NoStation})

\* A stream thread never runs after its EventStream is deleted: DestroyStation
\* and Shutdown join it first, wherever in its loops it was.
NoThreadOutlivesItsStream == \A i \in Ids : Alive(i) => i \in streams

\* StopWorkers' comment: "a stream loop that outlived its workers would sit
\* registering against a pool that can no longer run its jobs".  While a
\* stream thread lives, the pool is up and has every worker.
NoThreadOutlivesThePool ==
  (\E i \in Ids : Alive(i)) => running /\ \A w \in Workers : Alive(w)

\* Two stream threads never drive the same slug, even while DestroyStation is
\* still tearing an old station of that slug down.
OneStreamPerSlug ==
  \A i, j \in Ids : Alive(i) /\ Alive(j) /\ slug[i] = slug[j] => i = j

\* Configure never re-points the plugin under a live station: every thread of
\* a live station, and every worker outside StopWorkers, talks to `server`.
NothingTalksToAnOldServer ==
  \A a \in Actors :
    Alive(a) /\ url[a] # server =>
      a \in Workers /\ mainAt \in {"stopWorkers", "joinWorkers"}

\* No join waits out a 30 s backoff: whoever sleeps in WaitBackoff while the
\* main thread joins it sleeps on a station that is stopping, so WakeBackoff
\* (and the wait's predicate) ends the sleep.
NoJoinWaitsOutABackoff ==
  /\ \A i \in dying : i \in stopping
  /\ mainAt = "joinWorkers" =>
       \A a \in Actors : pc[a] = "registerBackoff" => Target(a) \in stopping

\* DestroyStation's comment: the unregistration "goes out after the local
\* teardown rather than racing it".  That holds of the station's own stream
\* thread, which is joined, and of registrations still in jobs_, which are
\* dropped.  So a station comes back after its unregistration was acknowledged
\* only by a registration that was already under way when the server dropped
\* it: another worker's, or one that a caller had given up.
OnlyStraysComeBack ==
  \A v \in Servers, s \in Slugs :
    known[v][s] # Unknown /\ known[v][s].owner \in retired =>
      known[v][s].owner \in loose

\* station-lifecycle.md: destroying a station unregisters that station, and
\* "re-creating the same slug afterwards starts from scratch".  An
\* unregistration never removes what a live station registered.
UnregisterSparesLiveStations ==
  [][\A v \in Servers, s \in Slugs :
       known[v][s] # Unknown /\ known'[v][s] = Unknown
         => \/ \E u \in Servers : ServerRestarts(u)
            \/ known[v][s].owner \notin stations]_vars

\* DestroyStation, Configure and Shutdown return, wherever in their loops the
\* threads they join are and however broken the network is, as long as calls
\* end and no stream goes on sending events to a thread whose Interrupt came
\* while Open was connecting (manager.cpp:987).
NativesReturn ==
  CallsEnd /\ StreamsFallQuiet => ((mainAt # "idle") ~> (mainAt = "idle"))

\* architecture.md: "a station keeps trying to register until it succeeds or
\* hits a permanent error".  On a network that heals it does one of the two.
RegistersOrFails ==
  CallsEnd /\ NetworkHeals =>
    \A i \in Ids : (i \in stations) ~>
                      (pushed[i] # "none" \/ i \in stopping)

\* A station whose stream was up when the server lost it registers again, on
\* a network that heals.
ReregistersAfterLoss ==
  CallsEnd /\ NetworkHeals =>
    \A i \in Ids :
      (pc[i] = "reading" /\ known[url[i]][slug[i]] = Unknown /\ i \notin open)
        ~> (known[url[i]][slug[i]] # Unknown \/ ~Alive(i))
=============================================================================
