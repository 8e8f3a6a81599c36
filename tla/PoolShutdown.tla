----------------------------- MODULE PoolShutdown -----------------------------
(***************************************************************************)
(* How Manager::Shutdown (src/src/manager.cpp) gets every thread to end:   *)
(* the stop flags, the mutexes and condition variables line by line, and   *)
(* the sockets it shuts down under a thread that is connecting, waiting    *)
(* for an answer or reading events.  StationLifecycle and CommandPipeline  *)
(* treat a wait as its predicate; here a notification may be lost.         *)
(*                                                                         *)
(* One station.  jobs_mutex_ and wait_mutex are held across steps only     *)
(* between the test of a predicate and the sleep, at "tested" and          *)
(* "doomed"; taking a mutex and testing under it is one step.  A spurious  *)
(* wake-up would repeat the test and is left out.                          *)
(***************************************************************************)
EXTENDS Integers, Sequences, FiniteSets

CONSTANTS
  Workers,    \* the threads of the worker pool
  MaxJobs,    \* bound: jobs queued or about to be
  MaxInbox    \* bound: events received and not read

\* The stream thread and the status poller.
Stream == "stream"
Poller == "poller"

Threads == Workers \cup {Stream, Poller}

\* Connections: the stream thread's client for registrations, the station's
\* EventStream, and each worker's client.
Clients == Workers \cup {"reg", "events"}

ASSUME ShutdownAssumption ==
  /\ Workers # {} /\ IsFiniteSet(Workers)
  /\ {Stream, Poller, "reg", "events"} \cap Workers = {}
  /\ MaxJobs \in Nat \ {0} /\ MaxInbox \in Nat

VARIABLES
  mainAt,       \* where the main thread is in Shutdown and StopWorkers
  uninterrupted,\* worker clients Shutdown has not interrupted yet
  listed,       \* the station is in stations_
  stopping,     \* Station::stopping
  running,      \* running_
  jobs,         \* jobs_: plain calls and re-registrations
  pc,           \* program point of each thread
  for,          \* what a thread's call is for
  again,        \* the stream thread has registered before
  then,         \* where the stream thread's RefreshStatus returns to
  sock,         \* each client's fd_: "none", "open", or "shut" down
  inbox,        \* events received and not read
  missed        \* history: threads that were not reached by a wake-up

mainVars   == <<mainAt, uninterrupted, listed, stopping, running>>
threadVars == <<pc, for, again, then>>
netVars    == <<sock, inbox>>
vars == <<mainVars, jobs, threadVars, netVars, missed>>

CallPoints == {"connect", "kept", "exchange"}
BackoffPoints == {"backoff", "doomed", "dozing"}
RefreshPoints == {"refresh", "push", "notify"}

PointsOf(t) ==
  CASE t = Stream -> CallPoints \cup BackoffPoints \cup RefreshPoints
                       \cup {"register", "subscribe", "reading", "ended"}
    [] t = Poller -> RefreshPoints \cup {"wait", "tested", "asleep", "polls",
                                         "ended"}
    [] OTHER -> CallPoints \cup BackoffPoints
                  \cup {"ready", "tested", "asleep", "register", "ended"}

ClientOf(t) ==
  IF t # Stream THEN t ELSE IF for[t] = "register" THEN "reg" ELSE "events"

\* The code's `stopping || !running_`.
MustStop == stopping \/ ~running

Goes(t, point) == pc' = [pc EXCEPT ![t] = point]

Init ==
  /\ mainAt = "serving" /\ uninterrupted = {}
  /\ listed = TRUE /\ stopping = FALSE /\ running = TRUE
  /\ jobs = <<>>
  /\ pc = [t \in Threads |-> CASE t = Stream -> "register"
                               [] t = Poller -> "wait" [] OTHER -> "ready"]
  /\ for = [t \in Threads \ {Poller} |->
              IF t = Stream THEN "register" ELSE "call"]
  /\ again = FALSE
  /\ then = "subscribe"
  /\ sock = [c \in Clients |-> "none"] /\ inbox = 0
  /\ missed = {}

-----------------------------------------------------------------------------
(* jobs_mutex_, jobs_cv_ and Enqueue                                         *)

\* A worker that found nothing to do keeps the mutex until it sleeps.
JobsMutexFree == \A w \in Workers : pc[w] # "tested"

Asleep == {w \in Workers : pc[w] = "asleep"}

Notifiers == {t \in {Stream, Poller} : pc[t] = "notify"}

\* Whoever will enqueue, has room to.
Room ==
  Len(jobs) + Cardinality({t \in {Stream, Poller} : pc[t] \in {"refresh", "push"}})
    < MaxJobs

Pushes(kind) == JobsMutexFree /\ jobs' = Append(jobs, kind)

\* notify_one, and what else the notifier does to pc.
NotifiesOne(next) ==
  IF Asleep = {} THEN pc' = next
  ELSE \E w \in Asleep : pc' = [next EXCEPT ![w] = "ready"]

AfterRefresh(t) == IF t = Stream THEN then ELSE "wait"

\* RefreshStatus: look the station up, unlock, enqueue.
Refreshes(t) ==
  /\ pc[t] = "refresh"
  /\ Goes(t, IF listed THEN "push" ELSE AfterRefresh(t))
  /\ UNCHANGED <<mainVars, jobs, for, again, then, netVars, missed>>

\* Mutant: a job is queued without a notification.
EnqueuesQuietly(t) ==
  /\ pc[t] = "push" /\ Pushes("call") /\ Goes(t, AfterRefresh(t))
  /\ UNCHANGED <<mainVars, for, again, then, netVars, missed>>

EnqueuesStatus(t) ==
  /\ pc[t] = "push" /\ Pushes("call") /\ Goes(t, "notify")
  /\ UNCHANGED <<mainVars, for, again, then, netVars, missed>>

Notifies(t) ==
  /\ pc[t] = "notify" /\ NotifiesOne([pc EXCEPT ![t] = AfterRefresh(t)])
  /\ UNCHANGED <<mainVars, jobs, for, again, then, netVars, missed>>

-----------------------------------------------------------------------------
(* Calls: HttpConnection::Post and BeginPost                                 *)

\* connected() is true of a socket that was shut down.
CallBegins(t, what) ==
  LET c == IF t # Stream THEN t
           ELSE IF what = "register" THEN "reg" ELSE "events"
  IN /\ Goes(t, IF sock[c] = "none" THEN "connect" ELSE "kept")
     /\ for' = [for EXCEPT ![t] = what]

\* A worker goes back to its loop.
JobIsDone(w) == Goes(w, "ready") /\ for' = [for EXCEPT ![w] = "call"]

Closed(t) == sock' = [sock EXCEPT ![ClientOf(t)] = "none"]

\* fd_ is set once the connection stands.
Connects(t) ==
  /\ pc[t] = "connect"
  /\ Goes(t, "exchange")
  /\ sock' = [sock EXCEPT ![ClientOf(t)] = "open"]
  /\ UNCHANGED <<mainVars, jobs, for, again, then, inbox, missed>>

\* A failed call: RegisterWithRetry and StreamLoop back off, a job is dropped.
Fails(t) ==
  /\ pc[t] \in CallPoints
  /\ Goes(t, CASE for[t] = "call" -> "ready"
               [] for[t] = "subscribe" /\ stopping -> "ended"
               [] OTHER -> "backoff")
  /\ Closed(t)
  /\ UNCHANGED <<mainVars, jobs, for, again, then, inbox, missed>>

\* A permanent error ends the stream thread, and a worker's registration.
Refused(t) ==
  /\ pc[t] \in {"kept", "exchange"}
  /\ IF t = Stream THEN Goes(t, "ended") /\ UNCHANGED for ELSE JobIsDone(t)
  /\ UNCHANGED <<mainVars, jobs, again, then, netVars, missed>>

\* The second attempt of Post, on a new connection, after a kept one failed.
Retries(t) ==
  /\ pc[t] = "kept"
  /\ Goes(t, "connect")
  /\ Closed(t)
  /\ missed' = IF sock[ClientOf(t)] = "shut" THEN missed \cup {t} ELSE missed
  /\ UNCHANGED <<mainVars, jobs, for, again, then, inbox>>

\* The answer; the connection may be kept.
Succeeds(t) ==
  /\ pc[t] \in {"kept", "exchange"}
  /\ CASE t \in Workers ->
            JobIsDone(t) /\ UNCHANGED then
       [] t = Stream /\ for[t] = "register" ->
            /\ Room
            /\ Goes(t, "refresh")
            /\ for' = [for EXCEPT ![t] = "subscribe"]
            /\ then' = IF again THEN "backoff" ELSE "subscribe"
       [] OTHER ->
            Goes(t, "reading") /\ UNCHANGED <<for, then>>
  /\ \/ UNCHANGED sock
     \/ ClientOf(t) # "events" /\ Closed(t)
  /\ UNCHANGED <<mainVars, jobs, again, inbox, missed>>

\* The peer, or the network, breaks a call.
Breaks(t) == Fails(t) \/ Retries(t)

\* recv on a socket that was shut down returns at once.
Interrupted(t) ==
  /\ sock[ClientOf(t)] = "shut"
  /\ pc[t] \in {"kept", "exchange"} /\ Breaks(t)

-----------------------------------------------------------------------------
(* Station::WaitBackoff and RegisterWithRetry                                *)

WaitMutexFree == \A t \in Threads : pc[t] # "doomed"

AfterBackoff(t) == IF for[t] = "register" THEN "register" ELSE "subscribe"

\* wait_for tests its predicate with wait_mutex held, at first and when woken.
BacksOff(t) ==
  /\ pc[t] = "backoff" /\ WaitMutexFree
  /\ Goes(t, IF stopping THEN AfterBackoff(t) ELSE "doomed")
  /\ UNCHANGED <<mainVars, jobs, for, again, then, netVars, missed>>

Dozes(t) ==
  /\ pc[t] = "doomed" /\ Goes(t, "dozing")
  /\ UNCHANGED <<mainVars, jobs, for, again, then, netVars, missed>>

BackoffEnds(t) ==
  /\ pc[t] = "dozing" /\ WaitMutexFree
  /\ Goes(t, AfterBackoff(t))
  /\ UNCHANGED <<mainVars, jobs, for, again, then, netVars, missed>>

\* The top of RegisterWithRetry's loop.
Registers(t) ==
  /\ pc[t] = "register"
  /\ IF MustStop
     THEN IF t = Stream THEN Goes(t, "ended") /\ UNCHANGED for ELSE JobIsDone(t)
     ELSE CallBegins(t, "register")
  /\ UNCHANGED <<mainVars, jobs, again, then, netVars, missed>>

-----------------------------------------------------------------------------
(* StreamLoop                                                                *)

Subscribes ==
  /\ pc[Stream] = "subscribe"
  /\ IF MustStop THEN Goes(Stream, "ended") /\ UNCHANGED for
     ELSE CallBegins(Stream, "subscribe")
  /\ UNCHANGED <<mainVars, jobs, again, then, netVars, missed>>

\* Mutant: a read that timed out counts as an event.
ReadsEventAlways ==
  /\ pc[Stream] = "reading"
  /\ inbox' = inbox - 1
  /\ UNCHANGED <<mainVars, jobs, threadVars, sock, missed>>

\* An event; the track events refresh the status.  No flag is tested.
ReadsEvent ==
  /\ pc[Stream] = "reading" /\ inbox > 0
  /\ inbox' = inbox - 1
  /\ \/ UNCHANGED <<pc, then>>
     \/ /\ Room
        /\ Goes(Stream, "refresh") /\ then' = "reading"
  /\ UNCHANGED <<mainVars, jobs, for, again, sock, missed>>

\* The end of the stream: Close, then the flags.
StreamEnds ==
  /\ pc[Stream] = "reading"
  /\ Goes(Stream, IF MustStop THEN "ended" ELSE "register")
  /\ for' = [for EXCEPT ![Stream] = IF MustStop THEN @ ELSE "register"]
  /\ again' = TRUE
  /\ Closed(Stream) /\ inbox' = 0
  /\ UNCHANGED <<mainVars, jobs, then, missed>>

\* recv returns what had arrived before the shutdown, then the end.
ReadInterrupted == inbox = 0 /\ sock["events"] = "shut" /\ StreamEnds

\* Mutant: a read that timed out is simply repeated.
ReadIsRepeated == pc[Stream] = "reading" /\ inbox = 0 /\ UNCHANGED vars

\* Nothing for kStreamReadTimeoutMs: the flags are tested, and a stop ends
\* the stream.
ReadTimesOut ==
  /\ pc[Stream] = "reading" /\ inbox = 0 /\ MustStop
  /\ StreamEnds

-----------------------------------------------------------------------------
(* WorkerLoop and PollerLoop                                                 *)

\* Lock jobs_mutex_ and test the predicate of the wait.
LooksForJob(w) ==
  /\ pc[w] = "ready" /\ JobsMutexFree
  /\ IF jobs # <<>>
     THEN /\ jobs' = Tail(jobs)
          /\ IF Head(jobs) = "call"
             THEN CallBegins(w, "call")
             ELSE IF stopping THEN JobIsDone(w)
             ELSE Goes(w, "register") /\ for' = [for EXCEPT ![w] = "register"]
          /\ missed' = IF running THEN missed ELSE missed \cup {w}
     ELSE /\ Goes(w, IF running THEN "tested" ELSE "ended")
          /\ UNCHANGED <<jobs, for, missed>>
  /\ UNCHANGED <<mainVars, again, then, netVars>>

Sleeps(t) ==
  /\ pc[t] = "tested" /\ Goes(t, "asleep")
  /\ UNCHANGED <<mainVars, jobs, for, again, then, netVars, missed>>

PollerWaits ==
  /\ pc[Poller] = "wait"
  /\ Goes(Poller, IF running THEN "tested" ELSE "ended")
  /\ UNCHANGED <<mainVars, jobs, for, again, then, netVars, missed>>

PollIntervalEnds ==
  /\ pc[Poller] = "asleep" /\ Goes(Poller, "polls")
  /\ UNCHANGED <<mainVars, jobs, for, again, then, netVars, missed>>

\* poll_interval_ms may be 0: the poller wakes and does not poll.
Polls ==
  /\ pc[Poller] = "polls"
  /\ \E point \in {"wait", "refresh"} :
       /\ Goes(Poller, IF running THEN point ELSE "ended")
       /\ running /\ point = "refresh" => Room
  /\ UNCHANGED <<mainVars, jobs, for, again, then, netVars, missed>>

-----------------------------------------------------------------------------
(* The main thread                                                           *)

\* A native: Enqueue, and notify_one after the mutex is released.
Native ==
  /\ mainAt = "serving" /\ Room
  /\ \E kind \in {"call", "register"} : Pushes(kind)
  /\ mainAt' = "notify"
  /\ UNCHANGED <<uninterrupted, listed, stopping, running, threadVars,
                 netVars, missed>>

NativeNotifies ==
  /\ mainAt = "notify" /\ mainAt' = "serving" /\ NotifiesOne(pc)
  /\ UNCHANGED <<uninterrupted, listed, stopping, running, jobs, for, again,
                 then, netVars, missed>>

\* Shutdown: stations_.clear().
ShutdownBegins ==
  /\ mainAt = "serving" /\ mainAt' = "stop" /\ listed' = FALSE
  /\ UNCHANGED <<uninterrupted, stopping, running, jobs, threadVars, netVars,
                 missed>>

SetsStopping ==
  /\ mainAt = "stop" /\ mainAt' = "wake" /\ stopping' = TRUE
  /\ UNCHANGED <<uninterrupted, listed, running, jobs, threadVars, netVars,
                 missed>>

\* WakeBackoff: notify_all with wait_mutex held.
WakesBackoff ==
  /\ mainAt = "wake" /\ WaitMutexFree
  /\ mainAt' = "interrupt"
  /\ pc' = [t \in Threads |-> IF pc[t] = "dozing" THEN "backoff" ELSE pc[t]]
  /\ UNCHANGED <<uninterrupted, listed, stopping, running, jobs, for, again,
                 then, netVars, missed>>

\* Mutant: a client in a call is left to finish it.
ShutsIdle(c) ==
  sock' = IF sock[c] = "open" /\ (c \in Workers => pc[c] = "ready")
          THEN [sock EXCEPT ![c] = "shut"] ELSE sock

\* Interrupt: nothing happens to a client that has no socket.
Shuts(c) ==
  sock' = IF sock[c] = "open" THEN [sock EXCEPT ![c] = "shut"] ELSE sock

\* A thread the interruption of client c does not reach: it is connecting, or
\* it is in a call on another client.
Unreached(t, c) ==
  pc[t] = "connect" \/ (pc[t] \in CallPoints /\ ClientOf(t) # c)

InterruptsStream ==
  /\ mainAt = "interrupt" /\ mainAt' = "joinStream"
  /\ Shuts("events")
  /\ missed' = IF Unreached(Stream, "events") THEN missed \cup {Stream} ELSE missed
  /\ UNCHANGED <<uninterrupted, listed, stopping, running, jobs, threadVars,
                 inbox>>

JoinsStream ==
  /\ mainAt = "joinStream" /\ pc[Stream] = "ended" /\ mainAt' = "stopPool"
  /\ UNCHANGED <<uninterrupted, listed, stopping, running, jobs, threadVars,
                 netVars, missed>>

\* StopWorkers.
StopsRunning ==
  /\ mainAt = "stopPool" /\ mainAt' = "clear" /\ running' = FALSE
  /\ UNCHANGED <<uninterrupted, listed, stopping, jobs, threadVars, netVars,
                 missed>>

\* Mutant: jobs_ is cleared without its mutex.
ClearsUnlocked ==
  /\ mainAt = "clear" /\ mainAt' = "notifyWorkers" /\ jobs' = <<>>
  /\ UNCHANGED <<uninterrupted, listed, stopping, running, threadVars, netVars,
                 missed>>

ClearsJobs ==
  /\ mainAt = "clear" /\ JobsMutexFree
  /\ mainAt' = "notifyWorkers" /\ jobs' = <<>>
  /\ UNCHANGED <<uninterrupted, listed, stopping, running, threadVars, netVars,
                 missed>>

NotifiesWorkers ==
  /\ mainAt = "notifyWorkers" /\ mainAt' = "notifyPoller"
  /\ pc' = [t \in Threads |-> IF t \in Asleep THEN "ready" ELSE pc[t]]
  /\ UNCHANGED <<uninterrupted, listed, stopping, running, jobs, for, again,
                 then, netVars, missed>>

\* Without poller_mutex_: a poller that has tested and not yet slept misses it.
NotifiesPoller ==
  /\ mainAt = "notifyPoller" /\ mainAt' = "interruptWorkers"
  /\ uninterrupted' = Workers
  /\ pc' = [pc EXCEPT ![Poller] = IF @ = "asleep" THEN "wait" ELSE @]
  /\ missed' = IF pc[Poller] = "tested" THEN missed \cup {Poller} ELSE missed
  /\ UNCHANGED <<listed, stopping, running, jobs, for, again, then, netVars>>

InterruptsWorker(w) ==
  /\ mainAt = "interruptWorkers" /\ w \in uninterrupted
  /\ uninterrupted' = uninterrupted \ {w}
  /\ Shuts(w)
  /\ missed' = IF Unreached(w, w) THEN missed \cup {w} ELSE missed
  /\ UNCHANGED <<mainAt, listed, stopping, running, jobs, threadVars, inbox>>

JoinsWorkers ==
  /\ mainAt = "interruptWorkers" /\ uninterrupted = {}
  /\ \A w \in Workers : pc[w] = "ended"
  /\ mainAt' = "joinPoller"
  /\ UNCHANGED <<uninterrupted, listed, stopping, running, jobs, threadVars,
                 netVars, missed>>

JoinsPoller ==
  /\ mainAt = "joinPoller" /\ pc[Poller] = "ended" /\ mainAt' = "done"
  /\ UNCHANGED <<uninterrupted, listed, stopping, running, jobs, threadVars,
                 netVars, missed>>

-----------------------------------------------------------------------------
(* The audio server                                                          *)

ServerPublishes ==
  /\ pc[Stream] = "reading" /\ sock["events"] = "open" /\ inbox < MaxInbox
  /\ inbox' = inbox + 1
  /\ UNCHANGED <<mainVars, jobs, threadVars, sock, missed>>

StreamBreaks == sock["events"] = "open" /\ inbox = 0 /\ StreamEnds

-----------------------------------------------------------------------------
MainSteps ==
  \/ NativeNotifies \/ SetsStopping \/ WakesBackoff \/ InterruptsStream
  \/ JoinsStream \/ StopsRunning \/ ClearsJobs \/ NotifiesWorkers
  \/ NotifiesPoller \/ (\E w \in Workers : InterruptsWorker(w))
  \/ JoinsWorkers \/ JoinsPoller

\* Threads that call.
Callers == Workers \cup {Stream}

CallerSteps(t) ==
  Interrupted(t) \/ BacksOff(t) \/ Dozes(t) \/ Registers(t)

WorkerSteps(w) == CallerSteps(w) \/ LooksForJob(w) \/ Sleeps(w)

StreamSteps ==
  \/ CallerSteps(Stream) \/ Subscribes \/ ReadsEvent \/ ReadInterrupted
  \/ Refreshes(Stream) \/ EnqueuesStatus(Stream) \/ Notifies(Stream)

PollerSteps ==
  \/ PollerWaits \/ Sleeps(Poller) \/ Polls
  \/ Refreshes(Poller) \/ EnqueuesStatus(Poller) \/ Notifies(Poller)

\* What a thread waits out: a connect, send or receive timeout, a backoff.
TimesOut(t) ==
  Breaks(t) \/ BackoffEnds(t)

Next ==
  \/ MainSteps \/ Native \/ ShutdownBegins
  \/ StreamSteps \/ PollerSteps
  \/ \E w \in Workers : WorkerSteps(w)
  \/ \E t \in Callers : Connects(t) \/ Refused(t) \/ Succeeds(t) \/ TimesOut(t)
  \/ ReadTimesOut \/ PollIntervalEnds
  \/ ServerPublishes \/ StreamBreaks

Spec == Init /\ [][Next]_vars

\* DialTcp gives each connect timeout_ms.
ConnectEnds(t) == Connects(t) \/ (pc[t] = "connect" /\ Fails(t))

\* Threads run, and the waits the program times itself expire.  The audio
\* server owes nothing: neither an answer nor an end of what it sends.
FairSpec ==
  /\ Spec
  /\ WF_vars(MainSteps) /\ WF_vars(StreamSteps) /\ WF_vars(PollerSteps)
  /\ \A w \in Workers : WF_vars(WorkerSteps(w))
  /\ \A t \in Callers : WF_vars(ConnectEnds(t)) /\ WF_vars(BackoffEnds(t))
  /\ WF_vars(PollIntervalEnds)

-----------------------------------------------------------------------------
(* Properties                                                                *)

TypeOK ==
  /\ mainAt \in {"serving", "notify", "stop", "wake", "interrupt",
                 "joinStream", "stopPool", "clear", "notifyWorkers",
                 "notifyPoller", "interruptWorkers", "joinPoller", "done"}
  /\ uninterrupted \subseteq Workers
  /\ listed \in BOOLEAN /\ stopping \in BOOLEAN /\ running \in BOOLEAN
  /\ jobs \in Seq({"call", "register"})
  /\ DOMAIN pc = Threads /\ \A t \in Threads : pc[t] \in PointsOf(t)
  /\ for \in [Callers -> {"call", "register", "subscribe"}]
  /\ again \in BOOLEAN
  /\ then \in {"subscribe", "backoff", "reading"}
  /\ sock \in [Clients -> {"none", "open", "shut"}]
  /\ inbox \in 0 .. MaxInbox
  /\ missed \subseteq Threads

\* Once the stop flags are set, a worker sleeps on jobs_cv_, or a registration
\* on its backoff, only until the notification that is still to come.
NoSleepThroughTheStop ==
  /\ ~running => \/ mainAt \in {"clear", "notifyWorkers"}
                 \/ \A w \in Workers : pc[w] \notin {"tested", "asleep"}
  /\ stopping => \/ mainAt = "wake"
                 \/ \A t \in Threads : pc[t] \notin {"doomed", "dozing"}

\* No job waits for the workers that are in calls while another sleeps: as many
\* are on their way to the queue, or about to be notified, as there are jobs.
SleepersAreNotNeeded ==
  Asleep # {} =>
    Len(jobs) <= Cardinality({w \in Workers : pc[w] = "ready"})
                   + Cardinality(Notifiers) + (IF mainAt = "notify" THEN 1 ELSE 0)

\* What only a timeout or the peer ends.
Waits(t) ==
  \/ pc[t] \in {"connect", "asleep", "dozing"}
  \/ /\ pc[t] \in {"kept", "exchange", "reading"}
     /\ sock[ClientOf(t)] # "shut"

\* Shutdown is prompt: a thread it has woken, or whose socket it has shut down,
\* waits for a timeout or an answer only if the wake-up was lost: a client was
\* connecting or was not the one interrupted, a call was begun or repeated
\* after the interruption, or the poller was between its test and its sleep.
OnlyTheMissedWait ==
  /\ mainAt = "joinStream" /\ Waits(Stream) => Stream \in missed
  /\ mainAt = "interruptWorkers" =>
       \A w \in Workers \ uninterrupted : Waits(w) => w \in missed
  /\ mainAt \in {"interruptWorkers", "joinPoller"} /\ Waits(Poller) =>
       Poller \in missed

\* A stream that is read from is quiet for kStreamReadTimeoutMs now and then.
QuietNowAndThen == SF_vars(ReadTimesOut)

\* The audio server does not hold a call for ever that was missed.
CallsLetGo == \A t \in Callers : WF_vars(t \in missed /\ Breaks(t))

\* Shutdown returns, unless the audio server holds a thread whose wake-up was
\* lost: keeps a call busy, or a stream that never falls quiet.  A thread that
\* was reached ends whatever the audio server does.
ShutdownReturns ==
  QuietNowAndThen /\ CallsLetGo => ((mainAt = "stop") ~> (mainAt = "done"))
=============================================================================
