----------------------------- MODULE StatusCache -----------------------------
(***************************************************************************)
(* The status cache of one station: the two writers of Station::status in  *)
(* src/src/manager.cpp (DispatchStationEvent folds the events of the       *)
(* stream, ApplyStatus a GetStatus snapshot), what makes the plugin ask    *)
(* for a snapshot (registration, track events, the poller), and what a     *)
(* script reads in the callbacks that report the changes.                  *)
(*                                                                         *)
(* The current track and the queue length stand for the whole snapshot:    *)
(* the track for the fields whose events also ask for a snapshot, the      *)
(* length for the fields an event merely overwrites (queue length,         *)
(* listeners, silence).  Every change of the station at the audio server   *)
(* has a version, so that the age of what the cache holds can be told.     *)
(***************************************************************************)
EXTENDS Integers, Sequences, FiniteSets

CONSTANTS
  Workers,     \* the threads of the worker pool
  Polling,     \* goradio_poll_interval > 0
  MaxQueue,    \* bound: length of the station's queue
  MaxChanges,  \* bound: changes of the station at the audio server
  MaxLosses,   \* bound: lost connections and restarts of the audio server
  MaxAsks      \* bound: status jobs queued when the poller adds one

ASSUME CacheAssumption ==
  /\ Polling \in BOOLEAN
  /\ MaxQueue \in Nat /\ MaxChanges \in Nat /\ MaxLosses \in Nat
  /\ MaxAsks \in Nat \ {0}

Versions == 0 .. MaxChanges

\* A station at the audio server: the version at which its track started (0:
\* none) and the items pending.
Station == [track : Versions, length : 0 .. MaxQueue]

\* What GetStatus answers: the station at some version.
Snapshot == [station : Station, at : Versions]

\* A status call that has no answer yet.
Asked == [station |-> [track |-> 0, length |-> 0], at |-> -1]
NoCall == [Asked EXCEPT !.at = -2]

\* An event of the stream, and the callback it becomes.  (The callback of a
\* snapshot, OnGoRadioStatusUpdate, is CommandPipeline's.)
WireEvent == [kind : {"started", "ended", "queue"}, track : Versions,
              length : 0 .. MaxQueue, at : Versions]
Callback ==
  WireEvent \cup [kind : {"registered"}, fresh : BOOLEAN, at : Versions]

VARIABLES
  srv,       \* the station at the audio server
  ver,       \* number of changes it went through
  known,     \* the audio server knows the slug
  link,      \* the event stream's connection is up
  wire,      \* events sent and not yet read
  losses,    \* number of lost connections and restarts
  streamAt,  \* program point of the stream thread
  reply,     \* the answer to its RegisterStation
  asks,      \* status jobs in jobs_
  calls,     \* the status call of each worker
  cache,     \* Station::status
  dispatch,  \* callbacks not yet delivered
  heardAt,   \* history: version of the last event the script heard
  foldedAt,  \* history: version of the last track event folded
  failed     \* history: the last status call to end failed

audioVars  == <<srv, ver, known>>
linkVars   == <<link, wire, losses>>
streamVars == <<streamAt, reply, foldedAt>>
statusVars == <<asks, calls, failed>>
scriptVars == <<dispatch, heardAt>>
vars == <<audioVars, linkVars, streamVars, statusVars, cache, scriptVars>>

StreamPoints == {"register", "registering", "refresh", "subscribe",
                 "reading", "refreshing"}

\* The track and the queue length, with the version the track is from
\* (history).
Init ==
  /\ srv = [track |-> 0, length |-> 0] /\ ver = 0
  /\ known \in BOOLEAN
  /\ link = FALSE /\ wire = <<>> /\ losses = 0
  /\ streamAt = "register" /\ reply = "none"
  /\ asks = 0 /\ calls = [w \in Workers |-> NoCall] /\ failed = FALSE
  /\ cache = [track |-> 0, trackAt |-> 0, length |-> 0]
  /\ dispatch = <<>> /\ heardAt = 0 /\ foldedAt = 0

-----------------------------------------------------------------------------
(* The audio server                                                          *)

\* An event goes out on the stream if there is one.
Emit(kinds) ==
  LET event(kind) == [kind |-> kind, track |-> srv'.track,
                      length |-> srv'.length, at |-> ver']
  IN wire' = IF link THEN wire \o [k \in DOMAIN kinds |-> event(kinds[k])]
                     ELSE wire

Changes ==
  /\ known
  /\ ver < MaxChanges /\ ver' = ver + 1
  /\ UNCHANGED <<known, link, losses, streamVars, statusVars, cache,
                 scriptVars>>

ServerQueues ==
  /\ srv.length < MaxQueue
  /\ srv' = [srv EXCEPT !.length = @ + 1]
  /\ Changes
  /\ Emit(<<"queue">>)

ServerEnds ==
  /\ srv.track # 0
  /\ srv' = [srv EXCEPT !.track = 0]
  /\ Changes
  /\ Emit(<<"ended">>)

ServerStarts ==
  /\ srv.track = 0 /\ srv.length > 0
  /\ srv' = [track |-> ver + 1, length |-> srv.length - 1]
  /\ Changes
  /\ Emit(<<"started", "queue">>)

\* The connection is lost with part of what was sent on it.
Disconnect ==
  /\ losses < MaxLosses /\ losses' = losses + 1
  /\ link' = FALSE
  /\ \E n \in 0 .. Len(wire) : wire' = SubSeq(wire, 1, n)

ConnectionDrops ==
  /\ link
  /\ Disconnect
  /\ UNCHANGED <<audioVars, streamVars, statusVars, cache, scriptVars>>

\* A restart forgets the station and its queue.
ServerRestarts ==
  /\ known /\ ver < MaxChanges
  /\ Disconnect
  /\ known' = FALSE
  /\ srv' = [track |-> 0, length |-> 0]
  /\ ver' = ver + 1
  /\ UNCHANGED <<streamVars, statusVars, cache, scriptVars>>

\* RegisterStation takes effect: the slug is known again, or still.
ServerRegisters ==
  /\ streamAt = "registering" /\ reply = "none"
  /\ reply' = IF known THEN "again" ELSE "fresh"
  /\ known' = TRUE
  /\ UNCHANGED <<srv, ver, linkVars, streamAt, foldedAt, statusVars, cache,
                 scriptVars>>

-----------------------------------------------------------------------------
(* The stream thread                                                         *)

Push(callback) == dispatch' = Append(dispatch, callback)

RegisterSends ==
  /\ streamAt = "register"
  /\ streamAt' = "registering"
  /\ reply' = "none"
  /\ UNCHANGED <<audioVars, linkVars, foldedAt, statusVars, cache,
                 scriptVars>>

\* OnGoRadioStationRegistered is pushed before a snapshot is asked for.
RegisterSucceeds ==
  /\ streamAt = "registering" /\ reply # "none"
  /\ streamAt' = "refresh"
  /\ Push([kind |-> "registered", fresh |-> reply = "fresh", at |-> ver])
  /\ UNCHANGED <<audioVars, linkVars, reply, foldedAt, statusVars, cache,
                 heardAt>>

RegisterFails ==
  /\ streamAt = "registering"
  /\ streamAt' = "register"
  /\ UNCHANGED <<audioVars, linkVars, reply, foldedAt, statusVars, cache,
                 scriptVars>>

\* RefreshStatus after a registration or after a track event.
StreamRefreshes ==
  /\ streamAt \in {"refresh", "refreshing"}
  /\ asks' = asks + 1
  /\ streamAt' = IF streamAt = "refresh" THEN "subscribe" ELSE "reading"
  /\ UNCHANGED <<audioVars, linkVars, reply, foldedAt, calls, failed, cache,
                 scriptVars>>

\* A subscription to an unknown slug is refused; the thread tries again.
OpenSucceeds ==
  /\ streamAt = "subscribe" /\ known
  /\ link' = TRUE /\ wire' = <<>>
  /\ streamAt' = "reading"
  /\ UNCHANGED <<audioVars, losses, reply, foldedAt, statusVars, cache,
                 scriptVars>>

\* Mutant: a track that ended does not ask for a snapshot.
AsksForSnapshotOnStart(e) == e.kind = "started"

AsksForSnapshot(e) == e.kind \in {"started", "ended"}

\* Mutant: the length of a queue event is taken for the current track.
FoldSwapsFields(e) ==
  IF e.kind = "queue" THEN [cache EXCEPT !.track = e.length + MaxChanges]
                      ELSE [cache EXCEPT !.track = e.track, !.trackAt = e.at]

\* What DispatchStationEvent does to the cache.
Fold(e) ==
  CASE e.kind = "started" ->
         [cache EXCEPT !.track = e.track, !.trackAt = e.at]
    [] e.kind = "ended" ->
         [cache EXCEPT !.track = 0, !.trackAt = e.at]
    [] OTHER -> [cache EXCEPT !.length = e.length]

DispatchStationEvent ==
  /\ streamAt = "reading" /\ wire # <<>>
  /\ LET e == Head(wire)
     IN /\ cache' = Fold(e)
        /\ Push(e)
        /\ foldedAt' = IF e.kind = "queue" THEN foldedAt ELSE e.at
        /\ streamAt' = IF AsksForSnapshot(e) THEN "refreshing" ELSE "reading"
  /\ wire' = Tail(wire)
  /\ UNCHANGED <<audioVars, link, losses, reply, statusVars, heardAt>>

ReadFails ==
  /\ streamAt = "reading" /\ wire = <<>> /\ ~link
  /\ streamAt' = "register"
  /\ UNCHANGED <<audioVars, linkVars, reply, foldedAt, statusVars, cache,
                 scriptVars>>

-----------------------------------------------------------------------------
(* The poller and the workers                                                *)

PollerAsks ==
  /\ Polling /\ asks < MaxAsks
  /\ asks' = asks + 1
  /\ UNCHANGED <<audioVars, linkVars, streamVars, calls, failed, cache,
                 scriptVars>>

TakeStatus(w) ==
  /\ calls[w] = NoCall /\ asks > 0
  /\ asks' = asks - 1
  /\ calls' = [calls EXCEPT ![w] = Asked]
  /\ UNCHANGED <<audioVars, linkVars, streamVars, failed, cache, scriptVars>>

ServerAnswers(w) ==
  /\ calls[w] = Asked /\ known
  /\ calls' = [calls EXCEPT ![w] = [station |-> srv, at |-> ver]]
  /\ UNCHANGED <<audioVars, linkVars, streamVars, asks, failed, cache,
                 scriptVars>>

\* Mutant: a snapshot leaves the count of the events alone.
SnapshotKeepsLength(s) ==
  [cache EXCEPT !.track = s.station.track, !.trackAt = s.at]

\* What ApplyStatus makes of the cache: the whole snapshot, however old.
Applied(s) ==
  [track |-> s.station.track, trackAt |-> s.at, length |-> s.station.length]

ApplyStatus(w) ==
  /\ calls[w].at >= 0
  /\ cache' = Applied(calls[w])
  /\ calls' = [calls EXCEPT ![w] = NoCall]
  /\ failed' = FALSE
  /\ UNCHANGED <<audioVars, linkVars, streamVars, asks, scriptVars>>

CallFails(w) ==
  /\ calls[w] # NoCall
  /\ calls' = [calls EXCEPT ![w] = NoCall]
  /\ failed' = TRUE
  /\ UNCHANGED <<audioVars, linkVars, streamVars, asks, cache, scriptVars>>

-----------------------------------------------------------------------------
(* The script                                                                *)

\* Mutant: callbacks are delivered last in, first out.
NextCallbackLast == Len(dispatch)

NextCallback == 1

\* Tick and DispatchPendingEvents.
Deliver ==
  /\ dispatch # <<>>
  /\ LET k == NextCallback
     IN /\ heardAt' = dispatch[k].at
        /\ dispatch' = SubSeq(dispatch, 1, k - 1)
                         \o SubSeq(dispatch, k + 1, Len(dispatch))
  /\ UNCHANGED <<audioVars, linkVars, streamVars, statusVars, cache>>

-----------------------------------------------------------------------------
Server ==
  \/ ServerQueues \/ ServerEnds \/ ServerStarts \/ ServerRegisters
  \/ ConnectionDrops \/ ServerRestarts

Stream ==
  \/ RegisterSends \/ RegisterSucceeds \/ RegisterFails \/ StreamRefreshes
  \/ OpenSucceeds \/ DispatchStationEvent \/ ReadFails

Worker(w) ==
  TakeStatus(w) \/ ServerAnswers(w) \/ ApplyStatus(w) \/ CallFails(w)

Next == Server \/ Stream \/ PollerAsks \/ Deliver
          \/ \E w \in Workers : Worker(w)

Spec == Init /\ [][Next]_vars

\* Threads run, the poller polls and ProcessTick comes.  Calls may fail again
\* and again, but not for ever.
Fairness ==
  /\ WF_vars(RegisterSends) /\ WF_vars(StreamRefreshes)
  /\ WF_vars(RegisterSucceeds \/ RegisterFails)
  /\ SF_vars(ServerRegisters) /\ SF_vars(RegisterSucceeds)
  /\ WF_vars(OpenSucceeds)
  /\ WF_vars(DispatchStationEvent) /\ WF_vars(ReadFails)
  /\ WF_vars(PollerAsks) /\ WF_vars(Deliver)
  /\ \A w \in Workers :
       /\ WF_vars(TakeStatus(w)) /\ WF_vars(ApplyStatus(w) \/ CallFails(w))
       /\ SF_vars(ServerAnswers(w)) /\ SF_vars(ApplyStatus(w))

FairSpec == Spec /\ Fairness

-----------------------------------------------------------------------------
(* Properties                                                                *)

\* Type correctness.
TypeOK ==
  /\ srv \in Station /\ ver \in Versions /\ known \in BOOLEAN
  /\ link \in BOOLEAN /\ wire \in Seq(WireEvent) /\ losses \in 0 .. MaxLosses
  /\ streamAt \in StreamPoints /\ reply \in {"none", "fresh", "again"}
  /\ asks \in Nat /\ calls \in [Workers -> Snapshot \cup {NoCall, Asked}]
  /\ failed \in BOOLEAN
  /\ cache \in [track : Versions, trackAt : Versions, length : 0 .. MaxQueue]
  /\ dispatch \in Seq(Callback) /\ heardAt \in Versions
  /\ foldedAt \in Versions

\* Nothing is under way that could still change the cache.
Quiet ==
  /\ wire = <<>> /\ link /\ streamAt = "reading"
  /\ asks = 0 /\ \A w \in Workers : calls[w] = NoCall

\* With one worker, an older snapshot never has the last word on the current
\* track: the job a track event enqueues is served after the event was sent.
QuietCacheIsNoOlder == Quiet /\ ~failed => cache.trackAt >= foldedAt

\* Events of one station are heard in the order the audio server sent them,
\* across lost connections too.
HeardInOrder == [][heardAt' >= heardAt]_heardAt

\* With polling on the cache is right in the end, whatever was lost or came
\* out of order, unless the station has been forgotten.
CacheIsRightInTheEnd ==
  <>[](known => cache.track = srv.track /\ cache.length = srv.length)
=============================================================================
