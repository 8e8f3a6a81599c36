--------------------------- MODULE CommandPipeline ---------------------------
(***************************************************************************)
(* The path of a command through src/src/manager.cpp: the natives put a    *)
(* Job on jobs_, a worker pops it, calls the audio server and pushes the   *)
(* result to dispatch_, and ProcessTick runs the callbacks.  The status    *)
(* poller and the stream threads put jobs on the same queue, and           *)
(* StopWorkers empties it when the pool is retired.                        *)
(*                                                                         *)
(* Registration and its races with the server are StationLifecycle's; here *)
(* a registration only keeps a worker busy.  What a status snapshot does   *)
(* to the cache is StatusCache's.                                          *)
(***************************************************************************)
EXTENDS Integers, Sequences, FiniteSets

CONSTANTS
  Workers,      \* the threads of the worker pool (goradio_workers)
  MaxStations,  \* bound: stations ever created
  MaxJobs,      \* bound: jobs ever enqueued
  MaxTracks,    \* bound: length of dispatch_ at which streams fall silent
  MaxLate       \* bound: requests given up that the audio server still has

NoStation == -1
Ids == 0 .. (MaxStations - 1)

ASSUME BoundsAssumption ==
  /\ MaxStations \in Nat \ {0} /\ MaxJobs \in Nat \ {0}
  /\ MaxTracks \in Nat /\ MaxLate \in Nat

\* "command" stands for kJobCommand and kJobQueueTrack.
JobKinds == {"register", "unregister", "command", "status", "list", "info"}

\* request is 0 for the jobs no native returned an id for; pool numbers the
\* worker pool the job was meant for (history).
Job == [kind : JobKinds, station : Ids \cup {NoStation},
        request : Nat, pool : Nat]

EventKinds == {"result", "status", "list", "info", "error", "registered",
               "track"}
Event == [kind : EventKinds, station : Ids \cup {NoStation}, request : Nat]

VARIABLES
  mainAt,       \* where the main thread is
  dying,        \* stations whose stream threads the main thread is joining
  thenStart,    \* StopWorkers was called by Configure, not by Shutdown
  configured,   \* configured_
  running,      \* running_
  live,         \* keys of stations_
  nextStation,  \* next_station_id_
  nextRequest,  \* next_request_id_
  jobs,         \* jobs_
  pc,           \* program point of each worker
  job,          \* the job each worker popped
  polling,      \* program point of the poller
  todo,         \* the ids the poller has still to refresh
  found,        \* stations whose stream thread is inside RefreshStatus
  polled,       \* the station the poller is inside RefreshStatus for
  dispatch,     \* dispatch_
  events,       \* what DispatchPendingEvents still has to deliver
  claimed,      \* history: jobs enqueued or about to be
  pool,         \* history: number of worker pools started
  served,       \* history: commands the audio server performed
  gone,         \* history: stations the audio server unregistered
  late,         \* requests nobody waits for that the audio server still has
  heard,        \* history: commands whose callback ran
  dropped       \* history: commands cleared with jobs_

mainVars   == <<mainAt, dying, thenStart, configured, running>>
idVars     == <<live, nextStation, nextRequest>>
workerVars == <<pc, job>>
pollerVars == <<polling, todo, polled>>
pushVars   == <<dispatch, events, heard>>
serverVars == <<served, gone, late>>
poolVars   == <<pool, dropped>>
vars == <<mainVars, idVars, jobs, workerVars, pollerVars, found, pushVars,
          claimed, serverVars, poolVars>>

RegisterPoints == {"register", "registering", "registerBackoff"}
WorkerPoints   == {"idle", "calling", "performed", "ended"} \cup RegisterPoints

\* What `job` holds while a worker has none.
NoJob == [kind |-> "info", station |-> NoStation, request |-> 0, pool |-> 0]

Init ==
  /\ mainAt = "script" /\ dying = {} /\ thenStart = FALSE
  /\ configured = FALSE /\ running = FALSE
  /\ live = {} /\ nextStation = 0 /\ nextRequest = 0
  /\ jobs = <<>>
  /\ pc = [w \in Workers |-> "ended"]
  /\ job = [w \in Workers |-> NoJob]
  /\ polling = "ended" /\ todo = {} /\ polled = NoStation
  /\ found = {}
  /\ dispatch = <<>> /\ events = <<>>
  /\ claimed = 0 /\ pool = 0
  /\ served = {} /\ gone = {} /\ late = {} /\ heard = {} /\ dropped = {}

-----------------------------------------------------------------------------
(* Enqueue and Push                                                          *)

NewJob(kind, i, r) ==
  [kind |-> kind, station |-> i, request |-> r, pool |-> pool]

\* Mutant: a new job goes to the front.
EnqueueFirst(j) == jobs' = <<j>> \o jobs

Enqueue(j) == jobs' = Append(jobs, j)

Push(kind, i, r) ==
  dispatch' = Append(dispatch, [kind |-> kind, station |-> i, request |-> r])

\* Bound: n more jobs may be enqueued.
Claim(n) == claimed + n <= MaxJobs /\ claimed' = claimed + n

-----------------------------------------------------------------------------
(* The natives.  The main thread runs them one at a time, from a callback or *)
(* from the script's own timers and commands.                                *)

\* Mutant: natives are served while another thread stops the pool.
ScriptRunsAlways == mainAt # "down"

\* Configure and DestroyStation block the main thread, and so the script.
ScriptRuns == mainAt = "script"

CreateStation ==
  /\ ScriptRuns /\ configured
  /\ nextStation < MaxStations
  /\ live' = live \cup {nextStation}
  /\ nextStation' = nextStation + 1
  /\ UNCHANGED <<mainVars, nextRequest, jobs, workerVars, pollerVars, found,
                 pushVars, claimed, serverVars, poolVars>>

\* EnqueueCommand and QueueTrack.
EnqueueCommand(i) ==
  /\ ScriptRuns /\ i \in live
  /\ Claim(1)
  /\ nextRequest' = nextRequest + 1
  /\ Enqueue(NewJob("command", i, nextRequest'))
  /\ UNCHANGED <<mainVars, live, nextStation, workerVars, pollerVars, found,
                 pushVars, serverVars, poolVars>>

\* RefreshStatus called by the script.
RefreshStatus(i) ==
  /\ ScriptRuns /\ i \in live
  /\ Claim(1)
  /\ nextRequest' = nextRequest + 1
  /\ Enqueue(NewJob("status", i, nextRequest'))
  /\ UNCHANGED <<mainVars, live, nextStation, workerVars, pollerVars, found,
                 pushVars, serverVars, poolVars>>

RequestStationList ==
  /\ ScriptRuns /\ configured
  /\ Claim(1)
  /\ nextRequest' = nextRequest + 1
  /\ Enqueue(NewJob("list", NoStation, nextRequest'))
  /\ UNCHANGED <<mainVars, live, nextStation, workerVars, pollerVars, found,
                 pushVars, serverVars, poolVars>>

UpdateStation(i) ==
  /\ ScriptRuns /\ i \in live
  /\ Claim(1)
  /\ Enqueue(NewJob("register", i, 0))
  /\ UNCHANGED <<mainVars, idVars, workerVars, pollerVars, found, pushVars,
                 serverVars, poolVars>>

\* DestroyStation erases the station and waits for its stream thread, ...
DestroyStation(i) ==
  /\ ScriptRuns /\ i \in live
  /\ Claim(1)
  /\ live' = live \ {i}
  /\ dying' = {i}
  /\ mainAt' = "destroying"
  /\ UNCHANGED <<thenStart, configured, running, nextStation, nextRequest,
                 jobs, workerVars, pollerVars, found, pushVars, serverVars,
                 poolVars>>

\* ... and only then enqueues the UnregisterStation.
StreamThreadJoined ==
  /\ mainAt = "destroying"
  /\ found \cap dying = {}
  /\ \E i \in dying : Enqueue(NewJob("unregister", i, 0))
  /\ dying' = {}
  /\ mainAt' = "script"
  /\ UNCHANGED <<thenStart, configured, running, idVars, workerVars,
                 pollerVars, found, pushVars, claimed, serverVars, poolVars>>

-----------------------------------------------------------------------------
(* Configure, Shutdown and StopWorkers                                       *)

\* The workers, the poller and the GetServerInfo job of a new pool.
StartPool ==
  /\ running' = TRUE
  /\ mainAt' = "script"
  /\ thenStart' = FALSE
  /\ pool' = pool + 1
  /\ pc' = [w \in Workers |-> "idle"]
  /\ polling' = "waiting"
  /\ Enqueue([NewJob("info", NoStation, 0) EXCEPT !.pool = pool + 1])

\* Mutant: stations do not keep the connection from being changed.
MayConfigureAlways == TRUE

MayConfigure == live = {}

Configure ==
  /\ mainAt = "script"
  /\ MayConfigure
  /\ Claim(1)
  /\ configured' = TRUE
  /\ IF running
     THEN /\ running' = FALSE
          /\ mainAt' = "clearing"
          /\ thenStart' = TRUE
          /\ UNCHANGED <<jobs, pc, polling, pool>>
     ELSE StartPool
  /\ UNCHANGED <<dying, idVars, job, todo, polled, found, pushVars,
                 serverVars, dropped>>

\* Unload comes between frames: nothing is being delivered.
Shutdown ==
  /\ mainAt = "script" /\ running /\ events = <<>>
  /\ live' = {}
  /\ dying' = live
  /\ mainAt' = "shuttingDown"
  /\ UNCHANGED <<thenStart, configured, running, nextStation, nextRequest,
                 jobs, workerVars, pollerVars, found, pushVars, claimed,
                 serverVars, poolVars>>

StreamThreadsJoined ==
  /\ mainAt = "shuttingDown"
  /\ found \cap dying = {}
  /\ dying' = {}
  /\ running' = FALSE
  /\ mainAt' = "clearing"
  /\ UNCHANGED <<thenStart, configured, idVars, jobs, workerVars, pollerVars,
                 found, pushVars, claimed, serverVars, poolVars>>

Commands(q) == {q[k].request : k \in {n \in DOMAIN q : q[n].kind = "command"}}

JobsCleared == jobs' = <<>>

\* StopWorkers: jobs_.clear().
ClearJobs ==
  /\ mainAt = "clearing"
  /\ JobsCleared
  /\ dropped' = dropped \cup (Commands(jobs) \ Commands(jobs'))
  /\ mainAt' = "joining"
  /\ UNCHANGED <<dying, thenStart, configured, running, idVars, workerVars,
                 pollerVars, found, pushVars, claimed, serverVars, pool>>

\* StopWorkers returns once the workers and the poller are joined.
PoolJoined ==
  /\ mainAt = "joining"
  /\ \A w \in Workers : pc[w] = "ended"
  /\ polling = "ended"
  /\ IF thenStart
     THEN StartPool /\ UNCHANGED configured
     ELSE /\ mainAt' = "down"
          /\ configured' = FALSE
          /\ UNCHANGED <<thenStart, running, pool, pc, polling, jobs>>
  /\ UNCHANGED <<dying, idVars, job, todo, polled, found, pushVars, claimed,
                 serverVars, dropped>>

-----------------------------------------------------------------------------
(* WorkerLoop                                                                *)

\* A worker pops the oldest job, also while the pool is being stopped.
TakeJob(w) ==
  /\ pc[w] = "idle" /\ jobs # <<>>
  /\ jobs' = Tail(jobs)
  /\ IF Head(jobs).kind = "register" /\ Head(jobs).station \notin live
     THEN UNCHANGED workerVars
     ELSE /\ job' = [job EXCEPT ![w] = Head(jobs)]
          /\ pc' = [pc EXCEPT ![w] = IF Head(jobs).kind = "register"
                                     THEN "register" ELSE "calling"]
  /\ UNCHANGED <<mainVars, idVars, pollerVars, found, pushVars, claimed,
                 serverVars, poolVars>>

WorkerLeaves(w) ==
  /\ pc[w] = "idle" /\ jobs = <<>> /\ ~running
  /\ pc' = [pc EXCEPT ![w] = "ended"]
  /\ UNCHANGED <<mainVars, idVars, jobs, job, pollerVars, found, pushVars,
                 claimed, serverVars, poolVars>>

\* What request j does at the audio server.
Performed(j) ==
  /\ served' = IF j.kind = "command" THEN served \cup {j.request} ELSE served
  /\ gone' = IF j.kind = "unregister" THEN gone \cup {j.station} ELSE gone

\* The audio server acts on the request.  It may do so again: Post may send
\* a request twice.
ServerPerforms(w) ==
  /\ pc[w] \in {"calling", "performed"}
  /\ pc' = [pc EXCEPT ![w] = "performed"]
  /\ Performed(job[w])
  /\ UNCHANGED <<mainVars, idVars, jobs, job, pollerVars, found, pushVars,
                 claimed, late, poolVars>>

\* Giving a request up takes nothing back: the audio server may still have
\* it.  Only those that change what the properties speak of are followed.
MayArriveLate(j) ==
  \/ UNCHANGED late
  \/ /\ j.kind \in {"command", "unregister"} /\ Cardinality(late) < MaxLate
     /\ late' = late \cup {j}

\* Post's second attempt: the kept connection failed before an answer was
\* read, and the request is sent again on a new one.
Repeats(w) ==
  /\ pc[w] \in {"calling", "performed"}
  /\ pc' = [pc EXCEPT ![w] = "calling"]
  /\ MayArriveLate(job[w])
  /\ UNCHANGED <<mainVars, idVars, jobs, job, pollerVars, found, pushVars,
                 claimed, served, gone, poolVars>>

\* A request nobody waits for is carried out.
LateArrives(j) ==
  /\ late' = late \ {j}
  /\ Performed(j)
  /\ UNCHANGED <<mainVars, idVars, jobs, workerVars, pollerVars, found,
                 pushVars, claimed, poolVars>>

\* The worker goes back to the top of WorkerLoop.
Returns(w) ==
  /\ pc' = [pc EXCEPT ![w] = "idle"]
  /\ job' = [job EXCEPT ![w] = NoJob]

\* The event HandleJobResponse pushes for each kind of job.
EventOf == [command |-> "result", status |-> "status", list |-> "list",
            info |-> "info"]

\* Call succeeded: HandleJobResponse.
CallSucceeds(w) ==
  /\ pc[w] = "performed"
  /\ IF job[w].kind = "unregister"
     THEN UNCHANGED dispatch
     ELSE Push(EventOf[job[w].kind], job[w].station,
               IF job[w].kind = "command" THEN job[w].request ELSE 0)
  /\ Returns(w)
  /\ UNCHANGED <<mainVars, idVars, jobs, pollerVars, found, events, heard,
                 claimed, serverVars, poolVars>>

\* Mutant: a failed command is reported as an error only.
FailureEventsErrorOnly(j) ==
  <<[kind |-> "error", station |-> j.station, request |-> 0]>>

\* Mutant: a failed command is reported twice.
FailureEventsTwice(j) ==
  LET result == [kind |-> "result", station |-> j.station,
                 request |-> j.request]
  IN <<result, result>>

\* A failed command is reported, and so is the error itself.
FailureEvents(j) ==
  LET error  == [kind |-> "error", station |-> j.station, request |-> 0]
      result == [kind |-> "result", station |-> j.station,
                 request |-> j.request]
  IN CASE j.kind = "command"    -> <<result, error>>
       [] j.kind = "unregister" -> <<>>
       [] OTHER                 -> <<error>>

\* Call failed, whether the server acted, still will or never does.
CallFails(w) ==
  /\ pc[w] \in {"calling", "performed"}
  /\ dispatch' = dispatch \o FailureEvents(job[w])
  /\ MayArriveLate(job[w])
  /\ Returns(w)
  /\ UNCHANGED <<mainVars, idVars, jobs, pollerVars, found, events, heard,
                 claimed, served, gone, poolVars>>

MustStop(w) == job[w].station \notin live \/ ~running

\* RegisterWithRetry, the stop test.
RegisterChecks(w) ==
  /\ pc[w] = "register"
  /\ IF MustStop(w)
     THEN Returns(w)
     ELSE pc' = [pc EXCEPT ![w] = "registering"] /\ UNCHANGED job
  /\ UNCHANGED <<mainVars, idVars, jobs, pollerVars, found, pushVars,
                 claimed, serverVars, poolVars>>

\* RegisterWithRetry returns, registered or refused for good.
RegisterEnds(w) ==
  /\ pc[w] = "registering"
  /\ \E kind \in {"registered", "error"} : Push(kind, job[w].station, 0)
  /\ Returns(w)
  /\ UNCHANGED <<mainVars, idVars, jobs, pollerVars, found, events, heard,
                 claimed, serverVars, poolVars>>

RegisterFails(w) ==
  /\ pc[w] = "registering"
  /\ pc' = [pc EXCEPT ![w] = "registerBackoff"]
  /\ UNCHANGED <<mainVars, idVars, jobs, job, pollerVars, found, pushVars,
                 claimed, serverVars, poolVars>>

RegisterBackoffEnds(w) ==
  /\ pc[w] = "registerBackoff"
  /\ pc' = [pc EXCEPT ![w] = "register"]
  /\ UNCHANGED <<mainVars, idVars, jobs, job, pollerVars, found, pushVars,
                 claimed, serverVars, poolVars>>

-----------------------------------------------------------------------------
(* The other callers of RefreshStatus: each looks the station up under       *)
(* state_mutex_ and enqueues its job after releasing it.                     *)

\* A stream thread dispatches an event and looks its station up.
StreamFinds(i) ==
  /\ i \in live \ found
  /\ Len(dispatch) < MaxTracks
  /\ Claim(1)
  /\ Push("track", i, 0)
  /\ found' = found \cup {i}
  /\ UNCHANGED <<mainVars, idVars, jobs, workerVars, pollerVars, events,
                 heard, serverVars, poolVars>>

StreamEnqueues(i) ==
  /\ i \in found
  /\ nextRequest' = nextRequest + 1
  /\ Enqueue(NewJob("status", i, nextRequest'))
  /\ found' = found \ {i}
  /\ UNCHANGED <<mainVars, live, nextStation, workerVars, pollerVars,
                 pushVars, claimed, serverVars, poolVars>>

\* The poller wakes after its interval and takes the list of stations.
PollerWakes ==
  /\ polling = "waiting" /\ running
  /\ Claim(Cardinality(live))
  /\ todo' = live
  /\ polling' = "polling"
  /\ UNCHANGED <<mainVars, idVars, jobs, workerVars, polled, found, pushVars,
                 serverVars, poolVars>>

\* RefreshStatus of the next id; a station that is gone by now is skipped.
PollerFinds ==
  /\ polling = "polling" /\ polled = NoStation
  /\ \E i \in todo :
       /\ \A k \in todo : i <= k
       /\ polled' = IF i \in live THEN i ELSE NoStation
       /\ todo' = todo \ {i}
  /\ UNCHANGED <<mainVars, idVars, jobs, workerVars, polling, found,
                 pushVars, claimed, serverVars, poolVars>>

PollerEnqueues ==
  /\ polled # NoStation
  /\ nextRequest' = nextRequest + 1
  /\ Enqueue(NewJob("status", polled, nextRequest'))
  /\ polled' = NoStation
  /\ UNCHANGED <<mainVars, live, nextStation, workerVars, polling, todo,
                 found, pushVars, claimed, serverVars, poolVars>>

\* The cycle is over, or the poller was woken to leave.
PollerRests ==
  /\ polling = "polling" /\ polled = NoStation /\ todo = {}
  /\ polling' = "waiting"
  /\ UNCHANGED <<mainVars, idVars, jobs, workerVars, todo, polled, found,
                 pushVars, claimed, serverVars, poolVars>>

PollerLeaves ==
  /\ polling = "waiting" /\ ~running
  /\ polling' = "ended"
  /\ UNCHANGED <<mainVars, idVars, jobs, workerVars, todo, polled, found,
                 pushVars, claimed, serverVars, poolVars>>

-----------------------------------------------------------------------------
(* ProcessTick                                                               *)

\* Tick moves everything pushed so far to the main thread.
Tick ==
  /\ mainAt = "script" /\ events = <<>> /\ dispatch # <<>>
  /\ events' = dispatch
  /\ dispatch' = <<>>
  /\ UNCHANGED <<mainVars, idVars, jobs, workerVars, pollerVars, found,
                 claimed, heard, serverVars, poolVars>>

\* Mutant: any callback is taken for the answer to a command.
ConcludesAlways(e) == TRUE

\* OnGoRadioTrackQueued and OnGoRadioCommandResult carry the request id.
Concludes(e) == e.kind = "result"

\* DispatchPendingEvents runs the next callback.
Deliver ==
  /\ mainAt = "script" /\ events # <<>>
  /\ events' = Tail(events)
  /\ heard' = IF Concludes(Head(events))
              THEN heard \cup {Head(events).request} ELSE heard
  /\ UNCHANGED <<mainVars, idVars, jobs, workerVars, pollerVars, found,
                 dispatch, claimed, serverVars, poolVars>>

-----------------------------------------------------------------------------
Main ==
  \/ CreateStation \/ RequestStationList \/ Configure \/ Shutdown
  \/ \E i \in Ids : \/ EnqueueCommand(i) \/ RefreshStatus(i)
                    \/ UpdateStation(i) \/ DestroyStation(i)
  \/ StreamThreadJoined \/ StreamThreadsJoined \/ ClearJobs \/ PoolJoined
  \/ Tick \/ Deliver

Worker(w) ==
  \/ TakeJob(w) \/ WorkerLeaves(w)
  \/ ServerPerforms(w) \/ Repeats(w) \/ CallSucceeds(w) \/ CallFails(w)
  \/ RegisterChecks(w) \/ RegisterEnds(w) \/ RegisterFails(w)
  \/ RegisterBackoffEnds(w)

Stream(i) == StreamFinds(i) \/ StreamEnqueues(i)

Poller ==
  PollerWakes \/ PollerFinds \/ PollerEnqueues \/ PollerRests \/ PollerLeaves

Next ==
  \/ Main
  \/ \E w \in Workers : Worker(w)
  \/ \E j \in late : LateArrives(j)
  \/ \E i \in Ids : Stream(i)
  \/ Poller

Spec == Init /\ [][Next]_vars

\* Threads that can run do run, ProcessTick comes every frame and callbacks
\* return.  The script owes nothing, and neither does the audio server: how
\* long a call may take is for each property to say.
Fairness ==
  /\ WF_vars(StreamThreadJoined) /\ WF_vars(StreamThreadsJoined)
  /\ WF_vars(ClearJobs) /\ WF_vars(PoolJoined)
  /\ WF_vars(Tick) /\ WF_vars(Deliver)
  /\ \A w \in Workers :
       /\ WF_vars(TakeJob(w)) /\ WF_vars(WorkerLeaves(w))
       /\ WF_vars(RegisterChecks(w)) /\ WF_vars(RegisterBackoffEnds(w))
  /\ \A i \in Ids : WF_vars(StreamEnqueues(i))
  /\ WF_vars(PollerFinds) /\ WF_vars(PollerEnqueues)
  /\ WF_vars(PollerRests) /\ WF_vars(PollerLeaves)

FairSpec == Spec /\ Fairness

-----------------------------------------------------------------------------
(* Properties                                                                *)

\* Type correctness.  What was performed, heard of or given up are commands
\* some native returned an id for.
TypeOK ==
  /\ mainAt \in {"script", "destroying", "shuttingDown", "clearing",
                 "joining", "down"}
  /\ dying \subseteq Ids /\ live \subseteq Ids /\ found \subseteq Ids
  /\ thenStart \in BOOLEAN /\ configured \in BOOLEAN /\ running \in BOOLEAN
  /\ nextStation \in 0 .. MaxStations
  /\ nextRequest \in Nat /\ claimed \in 0 .. MaxJobs
  /\ jobs \in Seq(Job)
  /\ pc \in [Workers -> WorkerPoints]
  /\ job \in [Workers -> Job]
  /\ polling \in {"waiting", "polling", "ended"}
  /\ todo \subseteq Ids /\ polled \in Ids \cup {NoStation}
  /\ dispatch \in Seq(Event) /\ events \in Seq(Event)
  /\ pool \in Nat
  /\ gone \subseteq Ids /\ late \subseteq Job
  /\ served \cup heard \cup dropped \subseteq 1 .. nextRequest

Busy(w) == pc[w] \notin {"idle", "ended"}

InFlight == {job[w].request : w \in {v \in Workers :
                                       Busy(v) /\ job[v].kind = "command"}}

\* Everything pushed and not delivered yet, oldest first.
Pushed == events \o dispatch

Results(q) == {k \in DOMAIN q : Concludes(q[k])}

Reported(q) == {q[k].request : k \in Results(q)}

ReportedBefore(q) ==
  {<<q[p[1]].request, q[p[2]].request>> :
     p \in {x \in Results(q) \X Results(q) : x[1] < x[2]}}

\* The pipeline keeps the promise of AsyncCommands: ids are fresh, a command
\* has one result, made while it is queued or in a worker's hands, results
\* are heard in the order they were pushed, and only StopWorkers gives a
\* command up.
Requests == 1 .. MaxJobs

Promise == INSTANCE AsyncCommands WITH
             open <- Commands(jobs) \cup InFlight,
             outbox <- Reported(Pushed), before <- ReportedBefore(Pushed)

KeepsThePromise == Promise!Spec

\* A command is carried out by the pool it was queued for, hence at the
\* audio server the script meant: StopWorkers clears jobs_ while no native
\* can add to it.
NoCommandOutlivesItsPool ==
  /\ \A k \in DOMAIN jobs : jobs[k].kind = "command" => jobs[k].pool = pool
  /\ \A w \in Workers :
       Busy(w) /\ job[w].kind = "command" => job[w].pool = pool

\* Worker w has in hand a command given before command r, ...
HoldsOlder(w, r) == Busy(w) /\ job[w].kind = "command" /\ job[w].request < r

\* ... or a command of station i.
HoldsCommandOf(w, i) ==
  Busy(w) /\ job[w].kind = "command" /\ job[w].station = i

\* Commands are performed out of order only past each other in the workers'
\* hands, or after their callers gave them up.  No performed command, and no
\* unregistration, came before a command still in the queue, however late it
\* was; and not every worker holds a command it came before: with n workers it
\* overtook at most n - 1, with one worker none.
OvertakingIsBounded ==
  /\ \A q \in served :
       /\ \A r \in Commands(jobs) : q < r
       /\ \E w \in Workers : ~HoldsOlder(w, q)
  /\ \A i \in gone :
       /\ \A k \in DOMAIN jobs :
            jobs[k].kind = "command" => jobs[k].station # i
       /\ \E w \in Workers : ~HoldsCommandOf(w, i)

\* The script hears of a command or it is given up; a shutdown ends the wait.
Concluded(r) == r \in heard \cup dropped \/ mainAt = "down"

Accepted(r) == r \in Commands(jobs) \cup InFlight

\* Calls and registrations end: the audio server keeps no worker for ever.
NoWorkerIsHeldForEver == \A w \in Workers : []<>~Busy(w)

\* While the audio server keeps no worker for ever, every command is heard of
\* or given up: no job is lost between the queue, the worker and dispatch_.
CommandsConclude ==
  NoWorkerIsHeldForEver
    => \A r \in Requests : Accepted(r) ~> Concluded(r)

=============================================================================
