-------------------------- MODULE PoolShutdownProofs --------------------------
(***************************************************************************)
(* Machine-checked proofs about PoolShutdown, for any number of workers    *)
(* and any bound on the jobs and the events under way.                     *)
(***************************************************************************)
EXTENDS PoolShutdown, FiniteSetTheorems, TLAPS

-----------------------------------------------------------------------------
(* The inductive invariant                                                   *)

\* The flags follow the main thread's way through Shutdown and StopWorkers.
InvFlags ==
  /\ stopping <=> mainAt \notin {"serving", "notify", "stop"}
  /\ running <=> mainAt \in {"serving", "notify", "stop", "wake", "interrupt",
                             "joinStream", "stopPool"}

\* The stream thread reads events, or will when its refresh is queued.
Listening ==
  \/ pc[Stream] = "reading"
  \/ pc[Stream] \in RefreshPoints /\ then = "reading"

\* What a thread's call is for; one that waits for its answer has a socket, and
\* so has a subscription.
InvCalls ==
  /\ \A w \in Workers :
       for[w] # "subscribe" /\ (pc[w] \in BackoffPoints => for[w] = "register")
  /\ for[Stream] # "call"
  /\ \A t \in Callers : pc[t] \in {"kept", "exchange"} => sock[ClientOf(t)] # "none"
  /\ Listening => for[Stream] = "subscribe" /\ sock["events"] # "none"

\* Who may still be asleep, or about to, when the stop flags are set.
InvSleep ==
  /\ mainAt = "notifyWorkers" => \A w \in Workers : pc[w] # "tested"
  /\ mainAt \in {"notifyPoller", "interruptWorkers", "joinPoller", "done"} =>
       \A w \in Workers : pc[w] \notin {"tested", "asleep"}
  /\ stopping /\ mainAt # "wake" =>
       \A t \in Threads : pc[t] \notin {"doomed", "dozing"}

\* A caller whose interruption arrived: its call, if it has one, is on the
\* socket that was shut down.
Reached(t) ==
  /\ pc[t] # "connect"
  /\ pc[t] \in {"kept", "exchange"} => sock[ClientOf(t)] = "shut"

InvMissed ==
  /\ mainAt = "joinStream" /\ Stream \notin missed =>
       Reached(Stream) /\ (Listening => sock["events"] = "shut")
  /\ mainAt = "interruptWorkers" =>
       \A w \in Workers \ (uninterrupted \cup missed) : Reached(w)
  /\ mainAt \in {"interruptWorkers", "joinPoller"} /\ Poller \notin missed =>
       pc[Poller] \notin {"tested", "asleep"}

ShutdownInv == TypeOK /\ InvFlags /\ InvCalls /\ InvSleep /\ InvMissed

-----------------------------------------------------------------------------
(* Threads, clients and program points                                       *)

LEMMA Distinct ==
  /\ Stream # Poller /\ Stream \notin Workers /\ Poller \notin Workers
  /\ "reg" \notin Workers /\ "events" \notin Workers
BY ShutdownAssumption DEF ShutdownAssumption, Stream, Poller

LEMMA Points ==
  /\ PointsOf(Stream) =
       {"connect", "kept", "exchange", "backoff", "doomed", "dozing",
        "refresh", "push", "notify", "register", "subscribe", "reading", "ended"}
  /\ PointsOf(Poller) =
       {"refresh", "push", "notify", "wait", "tested", "asleep", "polls", "ended"}
  /\ \A w \in Workers :
       PointsOf(w) =
         {"connect", "kept", "exchange", "backoff", "doomed", "dozing",
          "ready", "tested", "asleep", "register", "ended"}
<1>1. \A w \in Workers : w # Stream /\ w # Poller
  BY Distinct
<1>. QED
  BY <1>1, Distinct DEF PointsOf, CallPoints, BackoffPoints, RefreshPoints

\* Each caller has clients of its own, and only the stream thread has two.
LEMMA OwnClients ==
  /\ \A w \in Workers : ClientOf(w) = w /\ w \in Clients
  /\ ClientOf(Stream) = IF for[Stream] = "register" THEN "reg" ELSE "events"
  /\ ClientOf(Stream) \in Clients
  /\ \A t \in Callers : ClientOf(t) \in Clients
  /\ \A s, t \in Callers : s # t => ClientOf(s) # ClientOf(t)
BY Distinct DEF ClientOf, Clients, Callers

LEMMA InitInv == Init => ShutdownInv
<1> SUFFICES ASSUME Init PROVE ShutdownInv
  OBVIOUS
<1>1. TypeOK
  <2>1. \A t \in Threads : pc[t] \in PointsOf(t)
    BY Distinct, Points DEF Init, Threads
  <2>2. for \in [Callers -> {"call", "register", "subscribe"}]
    BY Distinct DEF Init, Threads, Callers
  <2>3. DOMAIN pc = Threads /\ sock \in [Clients -> {"none", "open", "shut"}]
    BY DEF Init
  <2>4. inbox \in 0 .. MaxInbox
    BY ShutdownAssumption DEF Init, ShutdownAssumption
  <2>5. jobs \in Seq({"call", "register"})
    BY DEF Init
  <2>. QED
    BY <2>1, <2>2, <2>3, <2>4, <2>5 DEF Init, TypeOK
<1>2. InvFlags /\ InvMissed
  BY DEF Init, InvFlags, InvMissed
<1>3. InvCalls
  BY Distinct
     DEF Init, InvCalls, Listening, Callers, Threads, RefreshPoints,
         BackoffPoints
<1>4. InvSleep
  BY Distinct DEF Init, InvSleep, Threads
<1>. QED
  BY <1>1, <1>2, <1>3, <1>4 DEF ShutdownInv

-----------------------------------------------------------------------------
(* The steps of a thread that calls                                          *)

\* A backoff ends where the thread can be.
LEMMA AfterBackoffPoint ==
  ASSUME InvCalls, NEW t \in Callers, pc[t] \in BackoffPoints
  PROVE  /\ AfterBackoff(t) \in PointsOf(t)
         /\ AfterBackoff(t) \in {"register", "subscribe"}
<1>1. CASE t = Stream
  BY <1>1, Points DEF AfterBackoff
<1>2. CASE t \in Workers
  BY <1>2, Points DEF AfterBackoff, InvCalls
<1>. QED
  BY <1>1, <1>2 DEF Callers

LEMMA CallerTypeOK ==
  ASSUME ShutdownInv, NEW t \in Callers,
         \/ Connects(t) \/ Fails(t) \/ Refused(t) \/ Retries(t) \/ Succeeds(t)
         \/ BacksOff(t) \/ Dozes(t) \/ BackoffEnds(t) \/ Registers(t)
  PROVE  TypeOK'
<1>0. TypeOK /\ InvCalls /\ t \in Threads
  BY DEF ShutdownInv, Callers, Threads
<1>. USE DEF mainVars, threadVars, netVars, Goes, TypeOK
<1>1. CASE Connects(t)
  BY <1>0, <1>1, Distinct, Points, OwnClients
     DEF Connects, Callers, Threads, InvCalls
<1>2. CASE Fails(t)
  BY <1>0, <1>2, Distinct, Points, OwnClients
     DEF Fails, Closed, CallPoints, BackoffPoints, Callers, Threads,
         InvCalls
<1>3. CASE Refused(t)
  BY <1>0, <1>3, Distinct, Points, OwnClients
     DEF Refused, JobIsDone, Callers, Threads, InvCalls
<1>4. CASE Retries(t)
  BY <1>0, <1>4, Distinct, Points, OwnClients
     DEF Retries, Closed, Callers, Threads, InvCalls
<1>5. CASE Succeeds(t)
  BY <1>0, <1>5, Distinct, Points, OwnClients
     DEF Succeeds, JobIsDone, Closed, Callers, Threads, InvCalls
<1>6. CASE BacksOff(t)
  BY <1>0, <1>6, Distinct, Points, OwnClients, AfterBackoffPoint
     DEF BacksOff, WaitMutexFree, BackoffPoints, Callers, Threads, InvCalls
<1>7. CASE Dozes(t)
  BY <1>0, <1>7, Distinct, Points, OwnClients
     DEF Dozes, BackoffPoints, Callers, Threads, InvCalls
<1>8. CASE BackoffEnds(t)
  BY <1>0, <1>8, Distinct, Points, OwnClients, AfterBackoffPoint
     DEF BackoffEnds, WaitMutexFree, BackoffPoints, Callers, Threads,
         InvCalls
<1>9. CASE Registers(t)
  BY <1>0, <1>9, Distinct, Points, OwnClients
     DEF Registers, MustStop, JobIsDone, CallBegins, Callers, Threads,
         InvCalls
<1>. QED
  BY <1>1, <1>2, <1>3, <1>4, <1>5, <1>6, <1>7, <1>8, <1>9

LEMMA CallerCalls ==
  ASSUME ShutdownInv, NEW t \in Callers,
         \/ Connects(t) \/ Fails(t) \/ Refused(t) \/ Retries(t) \/ Succeeds(t)
         \/ BacksOff(t) \/ Dozes(t) \/ BackoffEnds(t) \/ Registers(t)
  PROVE  InvFlags' /\ InvCalls'
<1>0. TypeOK /\ InvFlags /\ InvCalls /\ InvSleep /\ InvMissed /\ t \in Threads
  BY DEF ShutdownInv, Callers, Threads
<1>. USE DEF mainVars, threadVars, netVars, Goes, InvFlags, InvCalls,
     Listening, ClientOf, BackoffPoints
<1>1. CASE Connects(t)
  BY <1>0, <1>1, Distinct, Points, OwnClients
     DEF Connects, TypeOK, Callers, Threads, RefreshPoints
<1>2. CASE Fails(t)
  BY <1>0, <1>2, Distinct, Points, OwnClients
     DEF Fails, Closed, CallPoints, BackoffPoints, TypeOK, Callers, Threads,
         RefreshPoints
<1>3. CASE Refused(t)
  BY <1>0, <1>3, Distinct, Points, OwnClients
     DEF Refused, JobIsDone, TypeOK, Callers, Threads, RefreshPoints
<1>4. CASE Retries(t)
  BY <1>0, <1>4, Distinct, Points, OwnClients
     DEF Retries, Closed, TypeOK, Callers, Threads, RefreshPoints
<1>5. CASE Succeeds(t)
  BY <1>0, <1>5, Distinct, Points, OwnClients
     DEF Succeeds, JobIsDone, Closed, TypeOK, Callers, Threads,
         RefreshPoints
<1>6. CASE BacksOff(t)
  BY <1>0, <1>6, Distinct, Points, OwnClients, AfterBackoffPoint
     DEF BacksOff, WaitMutexFree, BackoffPoints, TypeOK, Callers, Threads,
         RefreshPoints
<1>7. CASE Dozes(t)
  BY <1>0, <1>7, Distinct, Points, OwnClients
     DEF Dozes, BackoffPoints, TypeOK, Callers, Threads, RefreshPoints
<1>8. CASE BackoffEnds(t)
  BY <1>0, <1>8, Distinct, Points, OwnClients, AfterBackoffPoint
     DEF BackoffEnds, WaitMutexFree, BackoffPoints, TypeOK, Callers,
         Threads, RefreshPoints
<1>9. CASE Registers(t)
  BY <1>0, <1>9, Distinct, Points, OwnClients
     DEF Registers, MustStop, JobIsDone, CallBegins, TypeOK, Callers,
         Threads, RefreshPoints
<1>. QED
  BY <1>1, <1>2, <1>3, <1>4, <1>5, <1>6, <1>7, <1>8, <1>9

LEMMA CallerSleep ==
  ASSUME ShutdownInv, NEW t \in Callers,
         \/ Connects(t) \/ Fails(t) \/ Refused(t) \/ Retries(t) \/ Succeeds(t)
         \/ BacksOff(t) \/ Dozes(t) \/ BackoffEnds(t) \/ Registers(t)
  PROVE  InvSleep'
<1>0. TypeOK /\ InvFlags /\ InvCalls /\ InvSleep /\ InvMissed /\ t \in Threads
  BY DEF ShutdownInv, Callers, Threads
<1>. USE DEF mainVars, threadVars, netVars, Goes, InvSleep
<1>1. CASE Connects(t)
  BY <1>0, <1>1, Distinct, Points
     DEF Connects, TypeOK, InvFlags, Callers, Threads
<1>2. CASE Fails(t)
  BY <1>0, <1>2, Distinct, Points
     DEF Fails, Closed, CallPoints, BackoffPoints, TypeOK, InvFlags,
         Callers, Threads
<1>3. CASE Refused(t)
  BY <1>0, <1>3, Distinct, Points
     DEF Refused, JobIsDone, TypeOK, InvFlags, Callers, Threads
<1>4. CASE Retries(t)
  BY <1>0, <1>4, Distinct, Points
     DEF Retries, Closed, TypeOK, InvFlags, Callers, Threads
<1>5. CASE Succeeds(t)
  BY <1>0, <1>5, Distinct, Points
     DEF Succeeds, JobIsDone, Closed, TypeOK, InvFlags, Callers, Threads
<1>6. CASE BacksOff(t)
  BY <1>0, <1>6, Distinct, Points, AfterBackoffPoint
     DEF BacksOff, WaitMutexFree, BackoffPoints, TypeOK, InvFlags, Callers,
         Threads
<1>7. CASE Dozes(t)
  BY <1>0, <1>7, Distinct, Points
     DEF Dozes, BackoffPoints, TypeOK, InvFlags, Callers, Threads
<1>8. CASE BackoffEnds(t)
  BY <1>0, <1>8, Distinct, Points, AfterBackoffPoint
     DEF BackoffEnds, WaitMutexFree, BackoffPoints, TypeOK, InvFlags,
         Callers, Threads
<1>9. CASE Registers(t)
  BY <1>0, <1>9, Distinct, Points
     DEF Registers, MustStop, JobIsDone, CallBegins, TypeOK, InvFlags,
         Callers, Threads
<1>. QED
  BY <1>1, <1>2, <1>3, <1>4, <1>5, <1>6, <1>7, <1>8, <1>9

LEMMA CallerMissed ==
  ASSUME ShutdownInv, NEW t \in Callers,
         \/ Connects(t) \/ Fails(t) \/ Refused(t) \/ Retries(t) \/ Succeeds(t)
         \/ BacksOff(t) \/ Dozes(t) \/ BackoffEnds(t) \/ Registers(t)
  PROVE  InvMissed'
<1>0. TypeOK /\ InvFlags /\ InvCalls /\ InvSleep /\ InvMissed /\ t \in Threads
  BY DEF ShutdownInv, Callers, Threads
<1>. USE DEF mainVars, threadVars, netVars, Goes, InvMissed, Reached,
     Listening, ClientOf
<1>1. CASE Connects(t)
  BY <1>0, <1>1, Distinct, Points, OwnClients
     DEF Connects, TypeOK, InvFlags, InvSleep, InvCalls, Callers, Threads,
         RefreshPoints
<1>2. CASE Fails(t)
  BY <1>0, <1>2, Distinct, Points, OwnClients
     DEF Fails, Closed, CallPoints, BackoffPoints, TypeOK, InvFlags,
         InvSleep, InvCalls, Callers, Threads, RefreshPoints
<1>3. CASE Refused(t)
  BY <1>0, <1>3, Distinct, Points, OwnClients
     DEF Refused, JobIsDone, TypeOK, InvFlags, InvSleep, InvCalls, Callers,
         Threads, RefreshPoints
<1>4. CASE Retries(t)
  BY <1>0, <1>4, Distinct, Points, OwnClients
     DEF Retries, Closed, TypeOK, InvFlags, InvSleep, InvCalls, Callers,
         Threads, RefreshPoints
<1>5. CASE Succeeds(t)
  BY <1>0, <1>5, Distinct, Points, OwnClients
     DEF Succeeds, JobIsDone, Closed, TypeOK, InvFlags, InvSleep, InvCalls,
         Callers, Threads, RefreshPoints
<1>6. CASE BacksOff(t)
  BY <1>0, <1>6, Distinct, Points, OwnClients, AfterBackoffPoint
     DEF BacksOff, WaitMutexFree, BackoffPoints, TypeOK, InvFlags, InvSleep,
         InvCalls, Callers, Threads, RefreshPoints
<1>7. CASE Dozes(t)
  BY <1>0, <1>7, Distinct, Points, OwnClients
     DEF Dozes, BackoffPoints, TypeOK, InvFlags, InvSleep, InvCalls,
         Callers, Threads, RefreshPoints
<1>8. CASE BackoffEnds(t)
  BY <1>0, <1>8, Distinct, Points, OwnClients, AfterBackoffPoint
     DEF BackoffEnds, WaitMutexFree, BackoffPoints, TypeOK, InvFlags,
         InvSleep, InvCalls, Callers, Threads, RefreshPoints
<1>9. CASE Registers(t)
  BY <1>0, <1>9, Distinct, Points, OwnClients
     DEF Registers, MustStop, JobIsDone, CallBegins, TypeOK, InvFlags,
         InvSleep, InvCalls, Callers, Threads, RefreshPoints
<1>. QED
  BY <1>1, <1>2, <1>3, <1>4, <1>5, <1>6, <1>7, <1>8, <1>9

-----------------------------------------------------------------------------
(* The other steps of the threads                                            *)

LEMMA StreamTypeOK ==
  ASSUME ShutdownInv,
         Subscribes \/ ReadsEvent \/ StreamEnds \/ ServerPublishes
  PROVE  TypeOK'
<1>0. TypeOK /\ InvCalls
  BY DEF ShutdownInv
<1>. USE DEF mainVars, threadVars, netVars, TypeOK
<1>1. CASE Subscribes
  BY <1>0, <1>1, Distinct, Points, OwnClients, ShutdownAssumption
     DEF Subscribes, Goes, MustStop, CallBegins, Callers, Threads, InvCalls
<1>2. CASE ReadsEvent
  BY <1>0, <1>2, Distinct, Points, OwnClients, ShutdownAssumption
     DEF ReadsEvent, Goes, Callers, Threads, InvCalls
<1>3. CASE StreamEnds
  BY <1>0, <1>3, Distinct, Points, OwnClients, ShutdownAssumption
     DEF StreamEnds, Goes, MustStop, Closed, Callers, Threads, InvCalls
<1>4. CASE ServerPublishes
  BY <1>0, <1>4, Distinct, Points, OwnClients, ShutdownAssumption
     DEF ServerPublishes, Callers, Threads, InvCalls
<1>. QED
  BY <1>1, <1>2, <1>3, <1>4

LEMMA StreamInvs ==
  ASSUME ShutdownInv,
         Subscribes \/ ReadsEvent \/ StreamEnds \/ ServerPublishes
  PROVE  InvFlags' /\ InvCalls' /\ InvSleep' /\ InvMissed'
<1>0. TypeOK /\ InvFlags /\ InvCalls /\ InvSleep /\ InvMissed
  BY DEF ShutdownInv
<1>. USE DEF mainVars, threadVars, netVars, InvFlags, InvCalls, InvSleep,
             InvMissed, Reached, Listening, ClientOf
<1>1. CASE Subscribes
  BY <1>0, <1>1, Distinct, Points, OwnClients
     DEF Subscribes, Goes, MustStop, CallBegins, Callers, Threads,
         RefreshPoints, BackoffPoints, TypeOK
<1>2. CASE ReadsEvent
  BY <1>0, <1>2, Distinct, Points, OwnClients
     DEF ReadsEvent, Goes, Callers, Threads, RefreshPoints, BackoffPoints,
         TypeOK
<1>3. CASE StreamEnds
  BY <1>0, <1>3, Distinct, Points, OwnClients
     DEF StreamEnds, Goes, MustStop, Closed, Callers, Threads,
         RefreshPoints, BackoffPoints, TypeOK
<1>4. CASE ServerPublishes
  BY <1>0, <1>4, Distinct, Points, OwnClients
     DEF ServerPublishes, Callers, Threads, RefreshPoints, BackoffPoints,
         TypeOK
<1>. QED
  BY <1>1, <1>2, <1>3, <1>4

LEMMA RefreshTypeOK ==
  ASSUME ShutdownInv, NEW t \in {Stream, Poller},
         Refreshes(t) \/ EnqueuesStatus(t) \/ Notifies(t)
  PROVE  TypeOK'
<1>0. TypeOK /\ InvCalls
  BY DEF ShutdownInv
<1>. USE DEF mainVars, threadVars, netVars, TypeOK
<1>1. CASE Refreshes(t)
  BY <1>0, <1>1, Distinct, Points, OwnClients
     DEF Refreshes, Goes, AfterRefresh, Callers, Threads, InvCalls
<1>2. CASE EnqueuesStatus(t)
  BY <1>0, <1>2, Distinct, Points, OwnClients
     DEF EnqueuesStatus, Goes, Pushes, Callers, Threads, InvCalls
<1>3. CASE Notifies(t)
  <2>1. AfterRefresh(t) \in PointsOf(t)
    BY <1>0, Distinct, Points DEF AfterRefresh
  <2>2. CASE Asleep = {}
    BY <1>0, <1>3, <2>1, <2>2 DEF Notifies, NotifiesOne, Threads
  <2>3. ASSUME NEW w \in Asleep, pc' = [pc EXCEPT ![t] = AfterRefresh(t), ![w] = "ready"]
        PROVE  TypeOK'
    <3>1. w \in Workers /\ "ready" \in PointsOf(w)
      BY Points DEF Asleep
    <3>. QED
      BY <1>0, <1>3, <2>1, <2>3, <3>1 DEF Notifies, Threads
  <2>. QED
    BY <1>3, <2>2, <2>3 DEF Notifies, NotifiesOne
<1>. QED
  BY <1>1, <1>2, <1>3

LEMMA RefreshInvs ==
  ASSUME ShutdownInv, NEW t \in {Stream, Poller},
         Refreshes(t) \/ EnqueuesStatus(t) \/ Notifies(t)
  PROVE  InvFlags' /\ InvCalls' /\ InvSleep' /\ InvMissed'
<1>0. TypeOK /\ InvFlags /\ InvCalls /\ InvSleep /\ InvMissed
  BY DEF ShutdownInv
<1>. USE DEF mainVars, threadVars, netVars, InvFlags, InvCalls, InvSleep,
             InvMissed, Reached, Listening, ClientOf
<1>1. CASE Refreshes(t)
  BY <1>0, <1>1, Distinct, Points, OwnClients
     DEF Refreshes, Goes, AfterRefresh, Callers, Threads, RefreshPoints,
         BackoffPoints, TypeOK
<1>2. CASE EnqueuesStatus(t)
  BY <1>0, <1>2, Distinct, Points, OwnClients
     DEF EnqueuesStatus, Goes, Pushes, Callers, Threads, RefreshPoints,
         BackoffPoints, TypeOK
<1>3. CASE Notifies(t)
  BY <1>0, <1>3, Distinct, Points, OwnClients
     DEF Notifies, NotifiesOne, AfterRefresh, Asleep, Callers, Threads,
         RefreshPoints, BackoffPoints, TypeOK
<1>. QED
  BY <1>1, <1>2, <1>3

LEMMA WorkerTypeOK ==
  ASSUME ShutdownInv, NEW w \in Workers, LooksForJob(w) \/ Sleeps(w)
  PROVE  TypeOK'
<1>0. TypeOK /\ InvCalls
  BY DEF ShutdownInv
<1>. USE DEF mainVars, threadVars, netVars, TypeOK
<1>1. CASE LooksForJob(w)
  <2>1. \A x \in Threads : pc'[x] \in PointsOf(x)
    BY <1>0, <1>1, Distinct, Points
       DEF LooksForJob, Goes, CallBegins, JobIsDone, Threads
  <2>2. DOMAIN pc' = Threads
        /\ for' \in [Callers -> {"call", "register", "subscribe"}]
    BY <1>0, <1>1 DEF LooksForJob, Goes, CallBegins, JobIsDone, Threads, Callers
  <2>3. jobs' \in Seq({"call", "register"})
    BY <1>0, <1>1 DEF LooksForJob
  <2>. QED
    BY <1>0, <1>1, <2>1, <2>2, <2>3 DEF LooksForJob, Threads
<1>2. CASE Sleeps(w)
  BY <1>0, <1>2, Distinct, Points, OwnClients
     DEF Sleeps, Goes, Callers, Threads, InvCalls
<1>. QED
  BY <1>1, <1>2

LEMMA WorkerInvs ==
  ASSUME ShutdownInv, NEW w \in Workers, LooksForJob(w) \/ Sleeps(w)
  PROVE  InvFlags' /\ InvCalls' /\ InvSleep' /\ InvMissed'
<1>0. TypeOK /\ InvFlags /\ InvCalls /\ InvSleep /\ InvMissed
  BY DEF ShutdownInv
<1>. USE DEF mainVars, threadVars, netVars, InvFlags, InvCalls, InvSleep,
             InvMissed, Reached, Listening, ClientOf
<1>1. CASE LooksForJob(w)
  BY <1>0, <1>1, Distinct, Points, OwnClients
     DEF LooksForJob, Goes, CallBegins, JobIsDone, JobsMutexFree, Callers,
         Threads, RefreshPoints, BackoffPoints, TypeOK
<1>2. CASE Sleeps(w)
  BY <1>0, <1>2, Distinct, Points, OwnClients
     DEF Sleeps, Goes, Callers, Threads, RefreshPoints, BackoffPoints,
         TypeOK
<1>. QED
  BY <1>1, <1>2

LEMMA PollerTypeOK ==
  ASSUME ShutdownInv,
         PollerWaits \/ Sleeps(Poller) \/ PollIntervalEnds \/ Polls
  PROVE  TypeOK'
<1>0. TypeOK /\ InvCalls
  BY DEF ShutdownInv
<1>. USE DEF mainVars, threadVars, netVars, TypeOK
<1>1. CASE PollerWaits
  BY <1>0, <1>1, Distinct, Points, OwnClients
     DEF PollerWaits, Goes, Callers, Threads, InvCalls
<1>2. CASE Sleeps(Poller)
  BY <1>0, <1>2, Distinct, Points, OwnClients
     DEF Sleeps, Goes, Callers, Threads, InvCalls
<1>3. CASE PollIntervalEnds
  BY <1>0, <1>3, Distinct, Points, OwnClients
     DEF PollIntervalEnds, Goes, Callers, Threads, InvCalls
<1>4. CASE Polls
  BY <1>0, <1>4, Distinct, Points, OwnClients
     DEF Polls, Goes, Callers, Threads, InvCalls
<1>. QED
  BY <1>1, <1>2, <1>3, <1>4

LEMMA PollerInvs ==
  ASSUME ShutdownInv,
         PollerWaits \/ Sleeps(Poller) \/ PollIntervalEnds \/ Polls
  PROVE  InvFlags' /\ InvCalls' /\ InvSleep' /\ InvMissed'
<1>0. TypeOK /\ InvFlags /\ InvCalls /\ InvSleep /\ InvMissed
  BY DEF ShutdownInv
<1>. USE DEF mainVars, threadVars, netVars, InvFlags, InvCalls, InvSleep,
             InvMissed, Reached, Listening, ClientOf
<1>1. CASE PollerWaits
  BY <1>0, <1>1, Distinct, Points, OwnClients
     DEF PollerWaits, Goes, Callers, Threads, RefreshPoints, BackoffPoints,
         TypeOK
<1>2. CASE Sleeps(Poller)
  BY <1>0, <1>2, Distinct, Points, OwnClients
     DEF Sleeps, Goes, Callers, Threads, RefreshPoints, BackoffPoints,
         TypeOK
<1>3. CASE PollIntervalEnds
  BY <1>0, <1>3, Distinct, Points, OwnClients
     DEF PollIntervalEnds, Goes, Callers, Threads, RefreshPoints,
         BackoffPoints, TypeOK
<1>4. CASE Polls
  BY <1>0, <1>4, Distinct, Points, OwnClients
     DEF Polls, Goes, Callers, Threads, RefreshPoints, BackoffPoints, TypeOK
<1>. QED
  BY <1>1, <1>2, <1>3, <1>4

-----------------------------------------------------------------------------
(* The main thread                                                           *)

LEMMA MainTypeOK ==
  ASSUME ShutdownInv, MainSteps \/ Native \/ ShutdownBegins
  PROVE  TypeOK'
<1>0. TypeOK /\ InvCalls
  BY DEF ShutdownInv
<1>. USE DEF mainVars, threadVars, netVars, TypeOK
<1>1. CASE Native
  BY <1>0, <1>1, Distinct, Points, OwnClients
     DEF Native, Pushes, Callers, Threads, InvCalls
<1>2. CASE NativeNotifies
  <2>1. CASE Asleep = {}
    BY <1>0, <1>2, <2>1 DEF NativeNotifies, NotifiesOne
  <2>2. ASSUME NEW w \in Asleep, pc' = [pc EXCEPT ![w] = "ready"]
        PROVE  TypeOK'
    <3>1. w \in Workers /\ "ready" \in PointsOf(w)
      BY Points DEF Asleep
    <3>. QED
      BY <1>0, <1>2, <2>2, <3>1 DEF NativeNotifies, Threads
  <2>. QED
    BY <1>2, <2>1, <2>2 DEF NativeNotifies, NotifiesOne
<1>3. CASE ShutdownBegins
  BY <1>0, <1>3, Distinct, Points, OwnClients
     DEF ShutdownBegins, Callers, Threads, InvCalls
<1>4. CASE SetsStopping
  BY <1>0, <1>4, Distinct, Points, OwnClients
     DEF SetsStopping, Callers, Threads, InvCalls
<1>5. CASE WakesBackoff
  BY <1>0, <1>5, Distinct, Points, OwnClients
     DEF WakesBackoff, WaitMutexFree, Callers, Threads, InvCalls
<1>6. CASE InterruptsStream
  BY <1>0, <1>6, Distinct, Points, OwnClients
     DEF InterruptsStream, Shuts, Unreached, CallPoints, Callers, Threads,
         InvCalls
<1>7. CASE JoinsStream
  BY <1>0, <1>7, Distinct, Points, OwnClients
     DEF JoinsStream, Callers, Threads, InvCalls
<1>8. CASE StopsRunning
  BY <1>0, <1>8, Distinct, Points, OwnClients
     DEF StopsRunning, Callers, Threads, InvCalls
<1>9. CASE ClearsJobs
  BY <1>0, <1>9, Distinct, Points, OwnClients
     DEF ClearsJobs, JobsMutexFree, Callers, Threads, InvCalls
<1>10. CASE NotifiesWorkers
  BY <1>0, <1>10, Distinct, Points, OwnClients
     DEF NotifiesWorkers, Asleep, Callers, Threads, InvCalls
<1>11. CASE NotifiesPoller
  BY <1>0, <1>11, Distinct, Points, OwnClients
     DEF NotifiesPoller, Callers, Threads, InvCalls
<1>12. CASE \E w \in Workers : InterruptsWorker(w)
  BY <1>0, <1>12, Distinct, Points, OwnClients
     DEF InterruptsWorker, Shuts,
         Unreached, CallPoints, Callers, Threads, InvCalls
<1>13. CASE JoinsWorkers
  BY <1>0, <1>13, Distinct, Points, OwnClients
     DEF JoinsWorkers, Callers, Threads, InvCalls
<1>14. CASE JoinsPoller
  BY <1>0, <1>14, Distinct, Points, OwnClients
     DEF JoinsPoller, Callers, Threads, InvCalls
<1>. QED
  BY <1>1, <1>2, <1>3, <1>4, <1>5, <1>6, <1>7, <1>8, <1>9, <1>10, <1>11,
     <1>12, <1>13, <1>14 DEF MainSteps

LEMMA MainInvs ==
  ASSUME ShutdownInv, MainSteps \/ Native \/ ShutdownBegins
  PROVE  InvFlags' /\ InvCalls' /\ InvSleep' /\ InvMissed'
<1>0. TypeOK /\ InvFlags /\ InvCalls /\ InvSleep /\ InvMissed
  BY DEF ShutdownInv
<1>. USE DEF mainVars, threadVars, netVars, InvFlags, InvCalls, InvSleep,
             InvMissed, Reached, Listening, ClientOf
<1>1. CASE Native
  BY <1>0, <1>1, Distinct, Points, OwnClients
     DEF Native, Pushes, Callers, Threads, RefreshPoints, BackoffPoints,
         TypeOK
<1>2. CASE NativeNotifies
  BY <1>0, <1>2, Distinct, Points, OwnClients
     DEF NativeNotifies, NotifiesOne, Asleep, Callers, Threads,
         RefreshPoints, BackoffPoints, TypeOK
<1>3. CASE ShutdownBegins
  BY <1>0, <1>3, Distinct, Points, OwnClients
     DEF ShutdownBegins, Callers, Threads, RefreshPoints, BackoffPoints,
         TypeOK
<1>4. CASE SetsStopping
  BY <1>0, <1>4, Distinct, Points, OwnClients
     DEF SetsStopping, Callers, Threads, RefreshPoints, BackoffPoints,
         TypeOK
<1>5. CASE WakesBackoff
  BY <1>0, <1>5, Distinct, Points, OwnClients
     DEF WakesBackoff, WaitMutexFree, Callers, Threads, RefreshPoints,
         BackoffPoints, TypeOK
<1>6. CASE InterruptsStream
  BY <1>0, <1>6, Distinct, Points, OwnClients
     DEF InterruptsStream, Shuts, Unreached, CallPoints, Callers, Threads,
         RefreshPoints, BackoffPoints, TypeOK
<1>7. CASE JoinsStream
  BY <1>0, <1>7, Distinct, Points, OwnClients
     DEF JoinsStream, Callers, Threads, RefreshPoints, BackoffPoints, TypeOK
<1>8. CASE StopsRunning
  BY <1>0, <1>8, Distinct, Points, OwnClients
     DEF StopsRunning, Callers, Threads, RefreshPoints, BackoffPoints,
         TypeOK
<1>9. CASE ClearsJobs
  BY <1>0, <1>9, Distinct, Points, OwnClients
     DEF ClearsJobs, JobsMutexFree, Callers, Threads, RefreshPoints,
         BackoffPoints, TypeOK
<1>10. CASE NotifiesWorkers
  BY <1>0, <1>10, Distinct, Points, OwnClients
     DEF NotifiesWorkers, Asleep, Callers, Threads, RefreshPoints,
         BackoffPoints, TypeOK
<1>11. CASE NotifiesPoller
  BY <1>0, <1>11, Distinct, Points, OwnClients
     DEF NotifiesPoller, Callers, Threads, RefreshPoints, BackoffPoints,
         TypeOK
<1>12. CASE \E w \in Workers : InterruptsWorker(w)
  BY <1>0, <1>12, Distinct, Points, OwnClients
     DEF InterruptsWorker, Shuts,
         Unreached, CallPoints, Callers, Threads, RefreshPoints,
         BackoffPoints, TypeOK
<1>13. CASE JoinsWorkers
  BY <1>0, <1>13, Distinct, Points, OwnClients
     DEF JoinsWorkers, Callers, Threads, RefreshPoints, BackoffPoints,
         TypeOK
<1>14. CASE JoinsPoller
  BY <1>0, <1>14, Distinct, Points, OwnClients
     DEF JoinsPoller, Callers, Threads, RefreshPoints, BackoffPoints, TypeOK
<1>. QED
  BY <1>1, <1>2, <1>3, <1>4, <1>5, <1>6, <1>7, <1>8, <1>9, <1>10, <1>11,
     <1>12, <1>13, <1>14 DEF MainSteps

-----------------------------------------------------------------------------
(* The theorems                                                              *)

\* Every step keeps the invariant.
LEMMA NextInv == ShutdownInv /\ [Next]_vars => ShutdownInv'
<1> SUFFICES ASSUME ShutdownInv, [Next]_vars PROVE ShutdownInv'
  OBVIOUS
<1>1. ASSUME NEW t \in Callers,
             CallerSteps(t) \/ Connects(t) \/ Refused(t) \/ Succeeds(t) \/ TimesOut(t)
      PROVE  ShutdownInv'
  <2>1. \/ Connects(t) \/ Fails(t) \/ Refused(t) \/ Retries(t) \/ Succeeds(t)
        \/ BacksOff(t) \/ Dozes(t) \/ BackoffEnds(t) \/ Registers(t)
    BY <1>1 DEF CallerSteps, TimesOut, Interrupted, Breaks
  <2>. QED
    BY <2>1, CallerTypeOK, CallerCalls, CallerSleep, CallerMissed
       DEF ShutdownInv
<1>2. ASSUME Subscribes \/ ReadsEvent \/ ReadInterrupted \/ ReadTimesOut \/ StreamBreaks
             \/ ServerPublishes
      PROVE  ShutdownInv'
  BY <1>2, StreamTypeOK, StreamInvs
     DEF ReadInterrupted, ReadTimesOut, StreamBreaks, ShutdownInv
<1>3. ASSUME NEW t \in {Stream, Poller},
             Refreshes(t) \/ EnqueuesStatus(t) \/ Notifies(t)
      PROVE  ShutdownInv'
  BY <1>3, RefreshTypeOK, RefreshInvs DEF ShutdownInv
<1>4. CASE StreamSteps
  BY <1>1, <1>2, <1>3, <1>4 DEF StreamSteps, Callers
<1>5. ASSUME NEW w \in Workers, WorkerSteps(w) PROVE ShutdownInv'
  BY <1>1, <1>5, WorkerTypeOK, WorkerInvs DEF WorkerSteps, ShutdownInv, Callers
<1>6. CASE PollerSteps \/ PollIntervalEnds
  BY <1>3, <1>6, PollerTypeOK, PollerInvs DEF PollerSteps, ShutdownInv
<1>7. CASE MainSteps \/ Native \/ ShutdownBegins
  BY <1>7, MainTypeOK, MainInvs DEF ShutdownInv
<1>8. CASE UNCHANGED vars
  <2>. USE <1>8 DEF vars, mainVars, threadVars, netVars
  <2>1. TypeOK'
    BY DEF ShutdownInv, TypeOK
  <2>2. InvFlags' /\ InvSleep'
    BY DEF ShutdownInv, InvFlags, InvSleep
  <2>3. InvCalls' /\ InvMissed'
    BY DEF ShutdownInv, InvCalls, InvMissed, Reached, Listening, ClientOf
  <2>. QED
    BY <2>1, <2>2, <2>3 DEF ShutdownInv
<1>. QED
  BY <1>1, <1>2, <1>4, <1>5, <1>6, <1>7, <1>8 DEF Next

\* The stop flags, the calls under way, the sleepers and those that were missed
\* stay as the main thread's place in Shutdown has it.
THEOREM ShutdownInvariant == Spec => []ShutdownInv
BY InitInv, NextInv, PTL DEF Spec

\* Every variable has its type, with every thread at a point of its own code.
THEOREM ShutdownTypeOK == Spec => []TypeOK
<1>1. ShutdownInv => TypeOK
  BY DEF ShutdownInv
<1>. QED
  BY <1>1, ShutdownInvariant, PTL

\* Once the flags are set no worker and no backoff sleeps through them: with
\* any number of workers the queue's mutex, held over the test and the sleep,
\* is enough for NotifiesWorkers to reach them all.
THEOREM NobodySleepsThroughTheStop == Spec => []NoSleepThroughTheStop
<1>1. ShutdownInv => NoSleepThroughTheStop
  BY DEF ShutdownInv, TypeOK, InvFlags, InvSleep, NoSleepThroughTheStop
<1>. QED
  BY <1>1, ShutdownInvariant, PTL

\* With any number of workers, whoever Shutdown has woken or interrupted waits
\* for a timeout or a peer only if the wake-up did not reach it.
THEOREM OnlyTheMissedAreWaitedFor == Spec => []OnlyTheMissedWait
<1>1. ASSUME ShutdownInv PROVE OnlyTheMissedWait
  <2>. USE DEF ShutdownInv, TypeOK, InvFlags, InvSleep, InvMissed, Waits, Threads
  <2>1. ASSUME mainAt = "joinStream", Waits(Stream), Stream \notin missed PROVE FALSE
    BY <1>1, <2>1, Distinct, Points DEF InvCalls, Reached, Listening, ClientOf
  <2>2. ASSUME mainAt = "interruptWorkers", NEW w \in Workers \ uninterrupted,
               Waits(w), w \notin missed
        PROVE  FALSE
    BY <1>1, <2>2, Points DEF Reached
  <2>3. ASSUME mainAt \in {"interruptWorkers", "joinPoller"}, Waits(Poller),
               Poller \notin missed
        PROVE  FALSE
    BY <1>1, <2>3, Points
  <2>. QED
    BY <2>1, <2>2, <2>3 DEF OnlyTheMissedWait
<1>. QED
  BY <1>1, ShutdownInvariant, PTL

-----------------------------------------------------------------------------
(* Jobs and the workers that sleep: the inductive invariant                  *)

Ready == {w \in Workers : pc[w] = "ready"}

\* What is on its way to the queue.
Helpers ==
  Cardinality(Ready) + Cardinality(Notifiers) + (IF mainAt = "notify" THEN 1 ELSE 0)

\* A worker that is about to sleep saw an empty queue, and holds its mutex.
QueueInv ==
  /\ \A w \in Workers : pc[w] = "tested" => jobs = <<>>
  /\ Asleep # {} => Len(jobs) <= Helpers

\* A step that leaves the queue alone and takes nobody off the way to it.
Quiet ==
  /\ jobs' = jobs
  /\ Ready \subseteq Ready' /\ Notifiers \subseteq Notifiers'
  /\ mainAt = "notify" => mainAt' = "notify"
  /\ Asleep' \subseteq Asleep
  /\ \A w \in Workers : pc'[w] = "tested" => pc[w] = "tested"

-----------------------------------------------------------------------------
LEMMA FiniteParts ==
  /\ \A S \in SUBSET Workers : IsFiniteSet(S) /\ Cardinality(S) \in Nat
  /\ \A S \in SUBSET {Stream, Poller} : IsFiniteSet(S) /\ Cardinality(S) \in Nat
<1>1. IsFiniteSet({Stream, Poller})
  <2>1. IsFiniteSet({Stream} \cup {Poller})
    BY FS_Singleton, FS_AddElement
  <2>2. {Stream} \cup {Poller} = {Stream, Poller}
    OBVIOUS
  <2>. QED
    BY <2>1, <2>2
<1>2. IsFiniteSet(Workers)
  BY ShutdownAssumption DEF ShutdownAssumption
<1>. QED
  BY <1>1, <1>2, FS_Subset, FS_CardinalityType

LEMMA HelpersAreFinite ==
  /\ IsFiniteSet(Ready) /\ IsFiniteSet(Notifiers)
  /\ Cardinality(Ready) \in Nat /\ Cardinality(Notifiers) \in Nat
BY FiniteParts DEF Ready, Notifiers

LEMMA HelpersStayFinite ==
  /\ IsFiniteSet(Ready') /\ IsFiniteSet(Notifiers')
  /\ Cardinality(Ready') \in Nat /\ Cardinality(Notifiers') \in Nat
BY FiniteParts DEF Ready, Notifiers

\* What moves the cardinalities: nobody, or one thread, joins or leaves.
LEMMA HelpersChange ==
  /\ Ready \subseteq Ready' => Cardinality(Ready) <= Cardinality(Ready')
  /\ Notifiers \subseteq Notifiers' => Cardinality(Notifiers) <= Cardinality(Notifiers')
  /\ \A t : Ready \ {t} \subseteq Ready' => Cardinality(Ready) - 1 <= Cardinality(Ready')
  /\ \A t : t \notin Ready /\ Ready \cup {t} \subseteq Ready' =>
       Cardinality(Ready) + 1 <= Cardinality(Ready')
  /\ \A t : Notifiers \ {t} \subseteq Notifiers' =>
       Cardinality(Notifiers) - 1 <= Cardinality(Notifiers')
  /\ \A t : t \notin Notifiers /\ Notifiers \cup {t} \subseteq Notifiers' =>
       Cardinality(Notifiers) + 1 <= Cardinality(Notifiers')
<1>1. \A S, T : IsFiniteSet(T) /\ S \subseteq T => Cardinality(S) <= Cardinality(T)
  BY FS_Subset
<1>2. \A S, t : IsFiniteSet(S) =>
        /\ Cardinality(S \ {t}) = IF t \in S THEN Cardinality(S) - 1 ELSE Cardinality(S)
        /\ Cardinality(S \cup {t}) = IF t \in S THEN Cardinality(S) ELSE Cardinality(S) + 1
  BY FS_RemoveElement, FS_AddElement
<1>3. /\ Ready \subseteq Ready' => Cardinality(Ready) <= Cardinality(Ready')
      /\ Notifiers \subseteq Notifiers' => Cardinality(Notifiers) <= Cardinality(Notifiers')
  BY <1>1, HelpersStayFinite
<1>4. ASSUME NEW t, Ready \ {t} \subseteq Ready'
      PROVE  Cardinality(Ready) - 1 <= Cardinality(Ready')
  <2>1. Cardinality(Ready \ {t}) <= Cardinality(Ready')
    BY <1>1, <1>4, HelpersStayFinite
  <2>2. Cardinality(Ready \ {t}) \in {Cardinality(Ready), Cardinality(Ready) - 1}
    BY <1>2, HelpersAreFinite
  <2>. QED
    BY <2>1, <2>2, HelpersAreFinite, HelpersStayFinite
<1>5. ASSUME NEW t, t \notin Ready, Ready \cup {t} \subseteq Ready'
      PROVE  Cardinality(Ready) + 1 <= Cardinality(Ready')
  <2>1. Cardinality(Ready \cup {t}) <= Cardinality(Ready')
    BY <1>1, <1>5, HelpersStayFinite
  <2>2. Cardinality(Ready \cup {t}) = Cardinality(Ready) + 1
    BY <1>2, <1>5, HelpersAreFinite
  <2>. QED
    BY <2>1, <2>2
<1>6. ASSUME NEW t, Notifiers \ {t} \subseteq Notifiers'
      PROVE  Cardinality(Notifiers) - 1 <= Cardinality(Notifiers')
  <2>1. Cardinality(Notifiers \ {t}) <= Cardinality(Notifiers')
    BY <1>1, <1>6, HelpersStayFinite
  <2>2. Cardinality(Notifiers \ {t}) \in {Cardinality(Notifiers), Cardinality(Notifiers) - 1}
    BY <1>2, HelpersAreFinite
  <2>. QED
    BY <2>1, <2>2, HelpersAreFinite, HelpersStayFinite
<1>7. ASSUME NEW t, t \notin Notifiers, Notifiers \cup {t} \subseteq Notifiers'
      PROVE  Cardinality(Notifiers) + 1 <= Cardinality(Notifiers')
  <2>1. Cardinality(Notifiers \cup {t}) <= Cardinality(Notifiers')
    BY <1>1, <1>7, HelpersStayFinite
  <2>2. Cardinality(Notifiers \cup {t}) = Cardinality(Notifiers) + 1
    BY <1>2, <1>7, HelpersAreFinite
  <2>. QED
    BY <2>1, <2>2
<1>. QED
  BY <1>3, <1>4, <1>5, <1>6, <1>7

LEMMA QuietKeeps ==
  ASSUME QueueInv, Quiet
  PROVE  QueueInv'
<1>1. ASSUME Asleep' # {} PROVE Len(jobs') <= Helpers'
  <2>1. Asleep # {} /\ jobs' = jobs
    BY <1>1 DEF Quiet
  <2>2. Helpers <= Helpers'
    BY HelpersChange, HelpersAreFinite, HelpersStayFinite DEF Helpers, Quiet
  <2>. QED
    BY <2>1, <2>2, HelpersAreFinite, HelpersStayFinite DEF QueueInv, Helpers
<1>. QED
  BY <1>1 DEF QueueInv, Quiet

-----------------------------------------------------------------------------
(* The steps that are not quiet                                              *)

LEMMA EnqueueKeeps ==
  ASSUME TypeOK, QueueInv, NEW t \in {Stream, Poller}, EnqueuesStatus(t)
  PROVE  QueueInv'
<1>1. /\ pc[t] = "push" /\ pc' = [pc EXCEPT ![t] = "notify"] /\ t \in Threads
      /\ mainAt' = mainAt /\ JobsMutexFree
  BY DEF EnqueuesStatus, Pushes, Goes, mainVars, Threads
<1>2. Len(jobs') = Len(jobs) + 1 /\ Len(jobs) \in Nat
  BY DEF EnqueuesStatus, Pushes, TypeOK
<1>3. Ready' = Ready /\ Asleep' = Asleep
  BY <1>1, Distinct DEF Ready, Asleep, TypeOK
<1>4. t \notin Notifiers /\ Notifiers \cup {t} \subseteq Notifiers'
  BY <1>1 DEF Notifiers, TypeOK
<1>5. Helpers + 1 <= Helpers'
  BY <1>1, <1>3, <1>4, HelpersChange, HelpersAreFinite, HelpersStayFinite
     DEF Helpers
<1>6. \A w \in Workers : pc'[w] # "tested"
  BY <1>1, Distinct DEF JobsMutexFree, TypeOK
<1>. QED
  BY <1>2, <1>3, <1>5, <1>6, HelpersAreFinite, HelpersStayFinite
     DEF QueueInv, Helpers

LEMMA NotifyKeeps ==
  ASSUME TypeOK, QueueInv, NEW t \in {Stream, Poller}, Notifies(t)
  PROVE  QueueInv'
<1>1. /\ pc[t] = "notify" /\ AfterRefresh(t) \notin {"notify", "ready", "tested", "asleep"}
      /\ t \in Threads /\ mainAt' = mainAt /\ jobs' = jobs
  BY DEF Notifies, mainVars, Threads, AfterRefresh, TypeOK
<1>2. CASE Asleep = {}
  <2>1. pc' = [pc EXCEPT ![t] = AfterRefresh(t)]
    BY <1>2 DEF Notifies, NotifiesOne
  <2>. QED
    BY <1>1, <1>2, <2>1, Distinct DEF QueueInv, Asleep, TypeOK
<1>3. ASSUME NEW w \in Asleep, pc' = [[pc EXCEPT ![t] = AfterRefresh(t)] EXCEPT ![w] = "ready"]
      PROVE  QueueInv'
  <2>0. w \in Workers /\ w # t /\ w \in Threads /\ pc[w] = "asleep"
    BY Distinct DEF Asleep, Threads
  <2>1. /\ pc'[w] = "ready" /\ pc'[t] = AfterRefresh(t)
        /\ \A x \in Threads \ {t, w} : pc'[x] = pc[x]
    BY <1>1, <1>3, <2>0 DEF TypeOK
  <2>2. w \notin Ready /\ Ready \cup {w} \subseteq Ready'
    BY <1>1, <2>0, <2>1 DEF Ready, Threads
  <2>3. Notifiers \ {t} \subseteq Notifiers'
    BY <2>0, <2>1 DEF Notifiers, Threads
  <2>4. Helpers <= Helpers' /\ Helpers \in Nat /\ Helpers' \in Nat
    <3>1. /\ Cardinality(Ready) + 1 <= Cardinality(Ready')
          /\ Cardinality(Notifiers) - 1 <= Cardinality(Notifiers')
      BY <2>2, <2>3, HelpersChange
    <3>. QED
      BY <1>1, <3>1, HelpersAreFinite, HelpersStayFinite DEF Helpers
  <2>5. \A x \in Workers : pc'[x] = "tested" => pc[x] = "tested"
    BY <1>1, <2>0, <2>1 DEF Threads
  <2>6. Len(jobs') <= Helpers'
    BY <1>1, <2>4 DEF QueueInv, TypeOK
  <2>. QED
    BY <1>1, <2>5, <2>6 DEF QueueInv
<1>. QED
  BY <1>2, <1>3 DEF Notifies, NotifiesOne

LEMMA NativeKeeps ==
  ASSUME TypeOK, QueueInv, Native
  PROVE  QueueInv'
<1>1. mainAt = "serving" /\ mainAt' = "notify" /\ pc' = pc /\ JobsMutexFree
  BY DEF Native, Pushes, threadVars
<1>2. Len(jobs') = Len(jobs) + 1 /\ Len(jobs) \in Nat
  BY DEF Native, Pushes, TypeOK
<1>3. Helpers' = Helpers + 1 /\ Asleep' = Asleep
  BY <1>1, HelpersAreFinite DEF Helpers, Ready, Notifiers, Asleep
<1>. QED
  BY <1>1, <1>2, <1>3, HelpersAreFinite DEF QueueInv, JobsMutexFree, Helpers

LEMMA NativeNotifyKeeps ==
  ASSUME TypeOK, QueueInv, NativeNotifies
  PROVE  QueueInv'
<1>1. mainAt = "notify" /\ mainAt' = "serving" /\ jobs' = jobs
  BY DEF NativeNotifies
<1>2. CASE Asleep = {}
  BY <1>1, <1>2 DEF NativeNotifies, NotifiesOne, QueueInv, Asleep
<1>3. ASSUME NEW w \in Asleep, pc' = [pc EXCEPT ![w] = "ready"]
      PROVE  QueueInv'
  <2>0. w \in Workers /\ w \in Threads /\ pc[w] = "asleep"
    BY DEF Asleep, Threads
  <2>1. w \notin Ready /\ Ready \cup {w} \subseteq Ready'
    BY <1>3, <2>0 DEF Ready, TypeOK
  <2>2. Notifiers \subseteq Notifiers'
    BY <1>3, <2>0, Distinct DEF Notifiers, TypeOK
  <2>3. Helpers <= Helpers'
    BY <1>1, <2>1, <2>2, HelpersChange, HelpersAreFinite, HelpersStayFinite
       DEF Helpers
  <2>4. \A x \in Workers : pc'[x] = "tested" => pc[x] = "tested"
    BY <1>3, <2>0 DEF TypeOK
  <2>. QED
    BY <1>1, <1>3, <2>3, <2>4, HelpersAreFinite, HelpersStayFinite
       DEF QueueInv, Helpers, TypeOK
<1>. QED
  BY <1>2, <1>3 DEF NativeNotifies, NotifiesOne

LEMMA WorkerKeeps ==
  ASSUME TypeOK, QueueInv, NEW w \in Workers, LooksForJob(w) \/ Sleeps(w)
  PROVE  QueueInv'
<1>0. w \in Threads /\ mainAt' = mainAt
  BY DEF Threads, LooksForJob, Sleeps, mainVars
<1>1. CASE LooksForJob(w)
  <2>1. \A t \in Threads : t # w => pc'[t] = pc[t]
    BY <1>1 DEF LooksForJob, CallBegins, JobIsDone, Goes, TypeOK
  <2>2. pc[w] = "ready" /\ pc'[w] # "asleep"
    BY <1>0, <1>1 DEF LooksForJob, CallBegins, JobIsDone, Goes, TypeOK
  <2>3. Asleep' = Asleep
    BY <2>1, <2>2 DEF Asleep, Threads
  <2>4. Notifiers \subseteq Notifiers' /\ Ready \ {w} \subseteq Ready'
    BY <2>1, <2>2, Distinct DEF Notifiers, Ready, Threads
  <2>5. Helpers - 1 <= Helpers'
    <3>1. /\ Cardinality(Ready) - 1 <= Cardinality(Ready')
          /\ Cardinality(Notifiers) <= Cardinality(Notifiers')
      BY <2>4, HelpersChange
    <3>. QED
      BY <1>0, <3>1, HelpersAreFinite, HelpersStayFinite DEF Helpers
  <2>6. CASE jobs = <<>>
    <3>1. jobs' = <<>>
      BY <1>1, <2>6 DEF LooksForJob
    <3>. QED
      BY <3>1, HelpersStayFinite DEF QueueInv, Helpers
  <2>7. CASE jobs # <<>>
    <3>1. Len(jobs') = Len(jobs) - 1 /\ Len(jobs) \in Nat
      BY <1>1, <2>7 DEF LooksForJob, TypeOK
    <3>2. pc'[w] # "tested"
      BY <1>0, <1>1, <2>7 DEF LooksForJob, CallBegins, JobIsDone, Goes, TypeOK
    <3>3. \A x \in Workers : pc'[x] # "tested"
      BY <1>1, <2>1, <3>2 DEF LooksForJob, JobsMutexFree, Threads
    <3>. QED
      BY <2>3, <2>5, <3>1, <3>3, HelpersAreFinite, HelpersStayFinite
         DEF QueueInv, Helpers
  <2>. QED
    BY <2>6, <2>7
<1>2. CASE Sleeps(w)
  <2>1. jobs' = jobs /\ jobs = <<>>
    BY <1>2 DEF Sleeps, QueueInv
  <2>. QED
    BY <2>1, HelpersStayFinite DEF QueueInv, Helpers
<1>. QED
  BY <1>1, <1>2

\* The main thread's other steps.
LEMMA MainKeeps ==
  ASSUME TypeOK, QueueInv, MainSteps \/ ShutdownBegins
  PROVE  QueueInv'
<1>1. CASE NativeNotifies
  BY <1>1, NativeNotifyKeeps
<1>2. CASE ClearsJobs
  BY <1>2, HelpersStayFinite DEF ClearsJobs, QueueInv, Helpers
<1>3. CASE NotifiesWorkers
  <2>1. Asleep' = {} /\ jobs' = jobs
    BY <1>3 DEF NotifiesWorkers, Asleep, Threads, TypeOK
  <2>2. \A w \in Workers : pc'[w] = "tested" => pc[w] = "tested"
    BY <1>3 DEF NotifiesWorkers, Threads
  <2>. QED
    BY <2>1, <2>2 DEF QueueInv
<1>4. CASE NotifiesPoller
  <2>1. Quiet
    BY <1>4, Distinct
       DEF NotifiesPoller, Quiet, Ready, Notifiers, Asleep, TypeOK, Threads
  <2>. QED
    BY <2>1, QuietKeeps
<1>5. CASE WakesBackoff
  <2>1. Quiet
    BY <1>5, Distinct
       DEF WakesBackoff, Quiet, Ready, Notifiers, Asleep, Threads
  <2>. QED
    BY <2>1, QuietKeeps
<1>6. ASSUME UNCHANGED <<jobs, pc>>, mainAt # "notify" PROVE QueueInv'
  <2>1. Quiet
    BY <1>6 DEF Quiet, Ready, Notifiers, Asleep
  <2>. QED
    BY <2>1, QuietKeeps
<1>. QED
  BY <1>1, <1>2, <1>3, <1>4, <1>5, <1>6
     DEF MainSteps, ShutdownBegins, SetsStopping, InterruptsStream, JoinsStream,
         StopsRunning, InterruptsWorker, JoinsWorkers, JoinsPoller, threadVars

\* The steps of a thread outside the queue.
LEMMA CallersAreQuiet ==
  ASSUME ShutdownInv, NEW t \in Callers,
         \/ Connects(t) \/ Fails(t) \/ Refused(t) \/ Retries(t) \/ Succeeds(t)
         \/ BacksOff(t) \/ Dozes(t) \/ BackoffEnds(t) \/ Registers(t)
  PROVE  Quiet
<1>1. /\ jobs' = jobs /\ mainAt' = mainAt /\ t \in Threads /\ t # Poller
      /\ \A s \in Threads : s # t => pc'[s] = pc[s]
  BY Distinct
     DEF Connects, Fails, Refused, Retries, Succeeds, BacksOff, Dozes,
         BackoffEnds,
         Registers, JobIsDone, CallBegins, Goes, mainVars, Callers, Threads,
         ShutdownInv, TypeOK
<1>2. pc[t] \notin {"ready", "notify"} /\ pc'[t] \notin {"asleep", "tested"}
  BY <1>1, AfterBackoffPoint
     DEF Connects, Fails, Refused, Retries, Succeeds, BacksOff, Dozes,
         BackoffEnds,
         Registers, JobIsDone, CallBegins, Goes, CallPoints, BackoffPoints,
         ShutdownInv, TypeOK
<1>. QED
  BY <1>1, <1>2 DEF Quiet, Ready, Notifiers, Asleep, Threads

LEMMA OthersAreQuiet ==
  ASSUME TypeOK,
         \/ Subscribes \/ ReadsEvent \/ StreamEnds \/ ServerPublishes
         \/ PollerWaits \/ Sleeps(Poller) \/ PollIntervalEnds \/ Polls
         \/ Refreshes(Stream) \/ Refreshes(Poller)
  PROVE  Quiet
<1>1. /\ jobs' = jobs /\ mainAt' = mainAt
      /\ \A w \in Workers : pc'[w] = pc[w]
  <2>1. CASE Subscribes \/ ReadsEvent \/ StreamEnds \/ ServerPublishes
    BY <2>1, Distinct
       DEF Subscribes, ReadsEvent, StreamEnds, ServerPublishes, CallBegins,
           Goes,
           mainVars, threadVars, TypeOK, Threads
  <2>2. CASE PollerWaits \/ Sleeps(Poller) \/ PollIntervalEnds \/ Polls
    BY <2>2, Distinct
       DEF PollerWaits, Sleeps, PollIntervalEnds, Polls, Goes, mainVars, TypeOK,
           Threads
  <2>3. CASE Refreshes(Stream) \/ Refreshes(Poller)
    BY <2>3, Distinct DEF Refreshes, Goes, mainVars, TypeOK, Threads
  <2>. QED
    BY <2>1, <2>2, <2>3
<1>2. \A s \in {Stream, Poller} : pc[s] = "notify" => pc'[s] = "notify"
  BY Distinct
     DEF Subscribes, ReadsEvent, StreamEnds, ServerPublishes, PollerWaits,
         Sleeps,
         PollIntervalEnds, Polls, Refreshes, CallBegins, Goes, mainVars,
         threadVars,
         TypeOK, Threads
<1>. QED
  BY <1>1, <1>2 DEF Quiet, Ready, Notifiers, Asleep

-----------------------------------------------------------------------------
LEMMA QueueNext ==
  ASSUME ShutdownInv, QueueInv, [Next]_vars
  PROVE  QueueInv'
<1>0. TypeOK
  BY DEF ShutdownInv
<1>1. ASSUME NEW t \in Callers,
             CallerSteps(t) \/ Connects(t) \/ Refused(t) \/ Succeeds(t) \/ TimesOut(t)
      PROVE  QueueInv'
  BY <1>1, CallersAreQuiet, QuietKeeps
     DEF CallerSteps, TimesOut, Interrupted, Breaks
<1>2. ASSUME \/ Subscribes \/ ReadsEvent \/ ReadInterrupted \/ ReadTimesOut
             \/ StreamBreaks \/ ServerPublishes \/ PollerWaits \/ Sleeps(Poller)
             \/ PollIntervalEnds \/ Polls \/ Refreshes(Stream) \/ Refreshes(Poller)
      PROVE  QueueInv'
  BY <1>0, <1>2, OthersAreQuiet, QuietKeeps
     DEF ReadInterrupted, ReadTimesOut, StreamBreaks
<1>3. ASSUME NEW t \in {Stream, Poller}, EnqueuesStatus(t) \/ Notifies(t)
      PROVE  QueueInv'
  BY <1>0, <1>3, EnqueueKeeps, NotifyKeeps
<1>4. CASE StreamSteps
  BY <1>1, <1>2, <1>3, <1>4 DEF StreamSteps, Callers
<1>5. CASE PollerSteps
  BY <1>2, <1>3, <1>5 DEF PollerSteps
<1>6. ASSUME NEW w \in Workers, WorkerSteps(w) PROVE QueueInv'
  BY <1>0, <1>1, <1>6, WorkerKeeps DEF WorkerSteps, Callers
<1>7. CASE MainSteps \/ Native \/ ShutdownBegins
  BY <1>0, <1>7, MainKeeps, NativeKeeps
<1>8. CASE UNCHANGED vars
  <2>1. Quiet
    BY <1>8 DEF Quiet, Ready, Notifiers, Asleep, vars, mainVars, threadVars
  <2>. QED
    BY <2>1, QuietKeeps
<1>. QED
  BY <1>1, <1>2, <1>4, <1>5, <1>6, <1>7, <1>8 DEF Next

\* With any number of workers, while one sleeps every job has somebody on the
\* way to it: a worker back at the queue, or a notification still to come.
THEOREM SleepersAreSpare == Spec => []SleepersAreNotNeeded
<1>1. Init => QueueInv
  BY Distinct DEF Init, QueueInv, Asleep, Threads
<1>2. ShutdownInv /\ QueueInv /\ [Next]_vars => QueueInv'
  BY QueueNext
<1>3. QueueInv => SleepersAreNotNeeded
  BY DEF QueueInv, SleepersAreNotNeeded, Helpers, Ready
<1>. QED
  BY <1>1, <1>2, <1>3, ShutdownInvariant, PTL DEF Spec
=============================================================================
