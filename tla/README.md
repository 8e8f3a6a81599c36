# A verification project for goradio-samp

goradio-samp is a plugin for SA-MP/open.mp game servers. A Pawn script creates
radio stations and gives commands; the plugin carries them out on an audio
server over HTTP (Connect RPC, JSON) and reports back through callbacks. The
game server runs everything on one thread that must not block, so the plugin is
a small concurrent system: a main thread, a pool of workers, one stream thread
per station and a status poller, sharing a few mutex-protected containers.

The modules in this directory model that system. TLC checks them on small
instances, and TLAPS proves the safety of its components for instances of every
size: the station lifecycle, the command pipeline, the status cache, the shutdown
of the pool, the calls on a kept connection, the event stream, the delivery of
callbacks and the configuration. All paths below are relative to the repository.

## Inventory

| Component | Code | State | Operations | Module |
|---|---|---|---|---|
| Station lifecycle | `src/manager.cpp`, `src/station.*` | `stations_`, `next_station_id_`, `Station::{stopping, registered, stream, stream_thread}`, `running_`, `configured_`, `config_`, `url_` | `Configure`, `Reload`, `CreateStation`, `UpdateStation`, `SetMetadata`, `DestroyStation`, `Shutdown`, `StopWorkers`, `StreamLoop`, `RegisterWithRetry`, the register and unregister jobs of `WorkerLoop` | StationLifecycle |
| Threads and their waits | `src/manager.cpp`, `src/station.cpp`, `HttpConnection::Interrupt` | `jobs_mutex_`, `jobs_cv_`, `poller_mutex_`, `poller_cv_`, `wait_mutex`, each client's `fd_` | `Enqueue`, `WorkerLoop`, `PollerLoop`, `WaitBackoff`, `WakeBackoff`, `Interrupt`, `Shutdown`, `StopWorkers` line by line | PoolShutdown |
| Command pipeline | `src/manager.cpp`, `src/natives.cpp` | `jobs_`, `dispatch_`, `next_request_id_`, the job each worker holds | `EnqueueCommand`, `QueueTrack`, `RefreshStatus`, `RequestStationList`, `WorkerLoop`, `HandleJobResponse`, `PollerLoop`, `Tick`, `DispatchPendingEvents` | CommandPipeline, AsyncCommands |
| Status cache | `src/manager.cpp`, `src/station.h` | `Station::status` | `ApplyStatus`, `DispatchStationEvent`, the getters | StatusCache |
| HTTP connection | `src/http.*` | `fd_`, `buf_`, `body_mode_`, `body_done_` | `Post`, `BeginPost`, `ReadBody`, `Close`, `Interrupt` | HttpPost |
| Connect client, event stream | `src/connect_client.*`, `HttpConnection::ReadBody` | `pending_`, `pending_pos_`, `buf_`, `chunk_need_size_`, `body_remaining_` | `Open`, `Read`, `Close`, `Interrupt` | EventStream, EventFeed; `Call` by its outcome elsewhere |
| Script registry | `src/amxutil.*` | `g_scripts`, a script's heap and stack | `AmxTrackScript`, `AmxForgetScript`, `AmxForgetAllScripts`, `Invoke` | ScriptCallbacks |
| URL and `server.cfg` | `src/http.cpp`, `src/serverconfig.*`, `src/manager.cpp` | `config_`, `url_`, the pool's clients, `server.cfg` itself | `ReadServerCfg`, `ParseUrl`, `Load`, `SetServer`, `ReloadConfig` | Configuration |
| JSON | `src/json.*` | `pos_`, the recursion of `ParseValue` | `Parse`, `JsonEscape`, `JsonObject` | JsonParser, JsonGrammar |
| Natives and dispatch | `src/natives.cpp` | none of their own | 60-odd natives, `DispatchPendingEvents` | the script steps of the modules above |
| Entry points | `src/plugin.cpp` | none | `Load`, `Unload`, `ProcessTick`, `AmxLoad`, `AmxUnload` | as actions (Load, Shutdown, Tick, AmxLoad, AmxUnload) |
| Logging | `src/log.*` | a function pointer, the debug flag | output | the flag in Configuration |
| Audio server | outside `src/` (`test/fake_audioserver.py`) | registry of slugs, a queue and a track per station | `RegisterStation`, `UnregisterStation`, `GetStatus`, commands, `SubscribeEvents` | external part of each model |

How they interact:

- **Main thread to workers**: a native puts a `Job` on `jobs_` and returns.
- **Workers to main thread**: results go to `dispatch_`; `ProcessTick` drains it
  once a frame and runs one callback per event. A callback may call natives.
- **Stream thread**: registers its station, asks for a status snapshot,
  subscribes, then folds each event into `Station::status` and pushes it. It
  has an HTTP client of its own for registrations.
- **Poller**: enqueues a status job per station each interval.
- **Blocking natives**: `DestroyStation`, `Configure`/`Reload` and `Unload` join
  threads on the main thread, after setting stop flags, waking backoffs and
  shutting sockets down.

What is hard about it: the registry of the audio server is shared by stream
threads, workers and restarts; a call may take effect although it fails, and even
after its caller has given it up and gone on; a snapshot may be older than the event folded before it; a keep-alive connection
may die, or keep bytes of the last answer; the main thread joins threads that
may be sleeping, calling or enqueueing; and a pool is retired while others
still hold references to its work. `PROJECT.json` lists each hazard at its line.

What makes each part correct:

- *Lifecycle*: no thread outlives its stream or its pool; one thread per slug;
  nobody talks to a server the plugin was pointed away from; a destroyed station
  comes back only by a registration that was already under way; blocking natives
  return unless a peer holds the threads they join; a station registers or
  reports why not, and registers again when it was lost.
- *Pipeline*: every accepted command is reported once; reports are heard in
  order; commands overtake each other only in the workers' hands or when given
  up, and are carried out by the pool they were given to.
- *Cache*: snapshots and events leave the right value behind; events are heard
  in the order sent.
- *HTTP*: a call gets its own response; a request is carried out once; a call
  returns unless the server holds it, and then comes off when it is interrupted.
- *Event stream*: frames are read whole, in order and once, however they arrive,
  and nothing of an earlier subscription; buffers stay bounded.
- *Waits*: no wake-up is lost that somebody waits for; whoever was interrupted
  does not wait; a queued job finds a worker.
- *Callbacks*: every script hears an event once, with its own arguments, all of
  them if they fit, and loses no memory by it.
- *Text*: what is read is what was written, and what is refused changes nothing.

## Modules

**StationLifecycle** (with MCStationLifecycle for TLC). A stream thread or
worker `a` has a program point `pc[a]`; the main thread's is `mainAt`. A call is
three steps: the caller snapshots its request and sends it (`RegisterSends`:
the stop test is a step of its own before it), the server acts
(`ServerRegisters`, `ServerUnregisters`), the caller handles the answer
(`RegisterSucceeds`, `RegisterRefused`, `CallReturns`). A failure
(`RegisterFails`, `CallFails`) may replace either of the last two, so a call may
fail before or after it took effect. Nor does giving a call up take its request
back: a server may have it still (`late`), after a timeout or after `Post` sent it
a second time (`Repeats`), and carry it out at any later time (`LateArrives`),
as HttpPost has it too. `known` is the registry of each audio
server, `scope` the slugs the token covers. `ServerRestarts` empties a registry,
drops the streams and the late requests, and may change the scope. The test of
the stop flags at the head of the subscription loop (`Opens`) and the end of
`Open` are two steps, so a stop may fall between them, its interruption lost; the
read loop then looks at the flags only when it read nothing (`ReadStops`).
`UpdateStation` and `SetMetadata` count versions of a station's fields. Backoffs
end when they like; what matters is who can end them. `retired` and `loose` are
history variables: the stations whose unregistration was acknowledged, and those
a server unregistered while a registration of theirs was late or in a worker's
hands. Unregistering a slug may or may not end its event streams: the code does
not depend on which.

**StationLifecycleProofs** proves every invariant lifecycle_safety checks, and
`OnlyStraysComeBack`.

**CommandPipeline** (with MCCommandPipeline). Natives append to `jobs`; workers
`TakeJob`, the server performs (`ServerPerforms`, perhaps twice, as
`HttpConnection::Post` may send a request twice, `Repeats`), the worker pushes the
outcome. A request given up or repeated may stay with the server (`late`) and be
performed while the worker is at its next job (`LateArrives`).
`Tick` takes the batch of a frame and `Deliver` runs one callback. A station's
stream thread and the poller look a station up in one step and enqueue in
another, as the code releases `state_mutex_` in between. `command` stands for
`kJobCommand` and `kJobQueueTrack`. The assignment of a request id and the
enqueueing are one step: the order of a poller's ids among a script's is not
claimed. `pool`, `served`, `gone`, `heard` and `dropped` are history variables.

**AsyncCommands** is the abstract promise of `docs/content/pawn-api/playback.md`:
an id is fresh, a command has one report, reports are heard in the order they
were made, and a command may be given up. Its outbox is a set of reports with the
order `before` they were made in. CommandPipeline implements it under the mapping
`Promise`: open commands are those in `jobs` or in a worker's hands, the outbox
is the results in `dispatch` and, behind them, in `events`.
**CommandPipelineProofs** proves the refinement and the safety properties.

**StatusCache** (with MCStatusCache). One station; the current track stands for
the fields whose events also ask for a snapshot, the queue length for those an
event merely overwrites (listeners, silence). Every change at the audio server
has a version, so that the model knows how old the cache is. `Fold` is
`DispatchStationEvent`, `Applied` is `ApplyStatus`. **StatusCacheProofs** proves
its three safety properties.

**HttpPost**. One `HttpConnection` with a server that may answer late, close at
any time and keep working on a request whose client is gone. A response is a
sequence of parts (head, data, the size-0 chunk, the blank line after it) that
arrive one by one. What is in `buf_` and what is in the socket are one stream,
since `Close` discards both. `Interrupt` comes once, at any time. A server may
also hold its client on a connection (`ServerHolds`), for ever or until
`ServerLetsGo`: it reads nothing, so that `SendAll` tries again on every EAGAIN
(`http.cpp:273`), or sends an answer by bits that keep each read alive and never
complete it. Only an interruption, or the server, ends that. A plain transport
is assumed. **HttpPostProofs** proves its safety properties.

**EventStream** (with MCEventStream). `EventStream::Open` and `Read` over the
chunked `ReadBody`: one step is one turn of a loop of `Read`, `ReadBody`,
`ReadLine` or `Fill`. A byte is named by its frame and its place in it; the
server cuts envelopes into chunks as it likes, `Recv` returns any part of what
is on the wire, and both buffers reclaim their consumed prefix past a limit.
An interruption, a reset and a FIN are one action, `ConnectionBreaks`, which
loses a suffix of what is under way. **EventStreamProofs** proves that framing
never goes astray, the bounds of both buffers, and that the stream implements
EventFeed step by step.

**EventFeed** is the abstract promise to `StreamLoop`, without bytes: a queue of
frames that may lose its tail when the connection breaks. EventStream implements
it under the mapping `Feed`, in which the unread frames are those whose last byte
is in `pending_`, in `buf_`, on the wire or with the server (`Mapped`, a recursive
function, goes through these symbols one by one); fairness included.

**PoolShutdown** (with MCPoolShutdown). The threads of StationLifecycle and
CommandPipeline once more, now with the mutexes and condition variables between
the test of a predicate and the sleep ("tested" and "doomed": the holder of the
mutex has tested and not yet slept), `notify_one` after the unlock, and a socket
per client that is absent, open or shut down. A connect ends by itself
(`ConnectEnds`); an exchange or a read ends by the peer or by a socket that was
shut down. `missed` is a history variable: the threads whose wake-up or
interruption was lost. **PoolShutdownProofs** proves its
safety properties.

**ScriptCallbacks** (with MCScriptCallbacks). `Invoke` step by step: the loop
over `g_scripts` by index, the strings allotted last to first, the arguments
pushed last to first, `Exec`, `Release`. The game server loads and unloads
scripts between ticks and while a callback runs. A script's heap and its stack
grow towards each other in one room: a string may not fit (`AllotFails`, the call
is skipped) and an argument may not fit (`PushFails`, which the code ignores).
`amx_Exec` may refuse a call before it runs anything (`ExecRefuses`), which
leaves what was pushed on the stack. The heap holds named cells, so that the
model can tell whether a string arrived whole. `refused`, `present`, `offered`
and `shifted` are history variables. **ScriptCallbacksProofs** proves
its safety properties.

**Configuration**. `server.cfg` is a sequence of lines that somebody edits at any
time; `ReadServerCfg`, `ParseUrl`, `Configure` and `Reload` are translated down
to trimming, the first `:` of a scheme, the last `:` of a port. `ReadServerCfg` is
a recursive function over the lines read so far. `pool` is what the workers'
clients were built with. `Meant`, in which the properties are stated, says
independently of that loop what a file means by a setting: the value in the last
line that has one, or the default.

**JsonParser** has the parser as a state machine, the recursion of `ParseValue`
as an explicit stack, and the writing side (`Build`) as operators; **JsonGrammar**
defines what a text means by how it is made up, independently of how the parser
reads it, and states the properties. **TextReaders** puts Configuration and
JsonParser beside each other: a behaviour is one of the parser or one of the
configuration. **MCTextReaders** gives both their files and texts.
**TextReadersProofs** proves what does not need induction over the grammar.

## Runs

| Run | Instance | States | What it shows |
|---|---|---|---|
| lifecycle_safety | 1 worker, 2 stations of one slug, 2 servers, 1 change of fields | 1.3M | the invariants of the lifecycle |
| lifecycle_liveness | 2 workers, 1 station, 1 late request, a token that may lose its scope | 224k | a destroyed station comes back only by a registration under way; blocking natives return, a station registers or reports, a lost station registers again, each under the premises below |
| pipeline_promise | 2 workers, 4 jobs, 1 late request | 3.4M | CommandPipeline implements AsyncCommands; no command outlives its pool; how far commands overtake |
| pipeline_conclude | 1 worker, 1 station, 4 jobs, 1 event | 534k | commands conclude |
| status_cache | 1 worker, 3 changes, 1 loss | 503k | an older snapshot never has the last word on the track; events in order; the cache is right in the end |
| post | 2 calls, every framing, a server that may hold its client | 481k | a call gets its own response; only a kept connection can repeat; a call returns unless the server holds it, and an interrupted one comes off its connection even then |
| event_stream | 2 events of different sizes, an ending, 2 frames under way | 365k | EventStream implements EventFeed, fairness included; both buffers stay bounded |
| shutdown | 1 worker, 2 jobs, 1 event | 420k | nobody sleeps through the stop, no job waits while a worker sleeps, only a thread whose wake-up was lost is waited out, Shutdown returns unless the server holds such a thread |
| callbacks | 3 scripts with room for 8, 6 and 4 cells, 3 events, 2 a tick | 1.6M | heaps are left clean, and stacks but for refused calls; arguments arrive whole and in order, and are missing only if the room is full; an event is offered once and to all |
| text_readers | 10 files, every form of URL, 8 thousand texts of up to 5 symbols and the objects the plugin builds | 210k | the pool has the settings `config_` names, a reload does what it reports, the parser reads what the grammar says, built objects read back |
| lifecycle_recreate | destroy, then create the same slug | | the late unregistration removes the new station |
| post_chunked | 2 calls, chunked answers, a healthy server | | the call after a chunked answer is carried out twice |

The last two are expected violations: the property states what a page of the
documentation says, and the run shows the code doing otherwise. The quotations
are in `PROJECT.json` under `findings`.

That `ParseUrl` reads every form `docs/content/getting-started/configuration.md`
lists is an assumption of MCTextReaders, `UrlFormsAssumption`, which TLC
evaluates at the start of text_readers.

### Bounds

- `MaxStations` 2: one station being torn down while another takes its slug; a
  third adds no new pair.
- `MaxJobs` (StationLifecycle: length of `jobs_`, 2; CommandPipeline: jobs ever
  enqueued, 4): room for the `GetServerInfo` of a pool, two commands and an
  unregistration, or a command, a destruction and two pools. `claimed` reserves
  the job at the first step of whoever will enqueue it, so the bound never stops
  a thread half-way.
- `MaxLate` 1 (lifecycle_liveness, pipeline_promise): a given-up request that
  lands after its successor or after the unregistration; the proofs cover any
  number. It is 0 in lifecycle_safety, whose invariants are of the plugin's
  threads, which do not read the registry a late request changes (with 1 the run
  has 14M states), and in pipeline_conclude, as no worker and no script sees what
  a late request does.
- `MaxFields` 1: an old and a new version of the registration.
- `MaxChanges` 3, `MaxQueue` 1, `MaxLosses` 1, `MaxAsks` 1: a track is queued,
  starts and ends, with one lost connection or restart anywhere.
- `MaxPosts` 2: a call can meet what the call before it left behind on the
  connection, and repeat itself. Connections are numbered to twice that.
- `MaxTracks`: streams fall silent when `dispatch_` is that long.
- EventStream: a header of 2 bytes for 5, payloads of 1 and 2, compaction past 3
  bytes for 65536 in `pending_` and past 2 in `buf_`, reads of at most 3: an
  envelope spans chunks, reads and compactions in every way. `MaxFeed` 2 and
  `MaxWire` 3 bound what is under way, not how long a subscription lasts.
- PoolShutdown: one worker, because with liveness two are out of reach; the
  invariants of two workers were checked once by themselves (3.5M states), and
  the proofs cover any number. `MaxJobs` 2: one job is taken while another waits.
- ScriptCallbacks: rooms of 8, 6 and 4 cells. A track that ends takes 5 of
  strings and 3 of arguments: one script has room for all, one for the strings and
  one argument, one for one of the strings.
- Texts: all of up to 5 symbols over the brackets, up to 4 over the string and
  number symbols, every pair of escapes at the edges of the surrogate and UTF-8
  ranges, and every prefix of the objects the plugin builds. `MaxDepth` 2 for 64.
- Failures of calls are not bounded.

### Fairness

What is assumed of a run in its specification is what the code and the operating
system owe: weak fairness for the steps each thread takes on its own, for the
expiry of what the program times itself (backoffs, a connect, the poll interval),
and for `Tick` and `Deliver`, as the game server calls `ProcessTick` every frame
and callbacks return. Scripts owe nothing: no native is fair in its first step,
nor is a failure, a restart or the success of a registration.

What a peer would have to do is no part of it, because no timeout of the code
bounds a call as a whole: a send that times out is tried again (`http.cpp:273`),
the receive timeout starts anew with every byte (`http.cpp:718`, `888`), and the
read loop of a stream tests the stop flags only after a read that timed out or
failed (`manager.cpp:987`). It is a premise of each property that needs it:

- `NativesReturn`: every call ends, in an answer or in failure (`CallsEnd`), and
  no stream sends a stopping thread an event every second for ever
  (`StreamsFallQuiet`; it matters to a thread whose interruption came while `Open`
  was connecting, as a stream that was interrupted is not open).
- `RegistersOrFails`, `ReregistersAfterLoss`: `CallsEnd`, and a registration sent
  again and again is answered again and again (`NetworkHeals`, strong fairness).
- `CommandsConclude`: the audio server keeps no worker for ever
  (`NoWorkerIsHeldForEver`). With registrations that fail for ever it is false.
- `PostEnds`: the server does not hold its client for ever (`ServerGoesOn`).
  `InterruptEndsTheWait` has no premise.
- `ShutdownReturns`: `QuietNowAndThen`, a stream that is read from is quiet for a
  second now and then, and `CallsLetGo`, a call that was missed ends. It is false
  if either is dropped. A thread that was reached needs neither.

StatusCache assumes strong fairness for a call that is made again and again: the
network is not broken for ever. EventStream assumes weak fairness for the stream
thread and for the server's writing of what it has. Spurious wake-ups are left out
of PoolShutdown: a thread would test its predicate again and sleep again.

Deadlock is checked in StationLifecycle. It is not in the others, where a
bounded instance simply stops (`Shutdown` or `Unload` ends the plugin; calls run
out; a text is read).

## Proofs

StationLifecycleProofs proves, for every set of slugs, workers, servers and
scopes and all bounds, from `ConstantsAssumption`:

- `LifecycleTypeOK`: `Spec => []TypeOK`;
- `StreamsOutliveTheirThreads`, `SlugsAreDrivenOnce`, `ThreadsTalkToTheServer`,
  `BackoffsEndWithTheStation`: the four invariants of lifecycle_safety about
  threads, slugs, servers and joins;
- `PoolOutlivesTheThreads`: no stream thread runs while the pool is down, which
  no run checks by itself;
- `StationsStayAway`: `Spec => []OnlyStraysComeBack`, for any number of workers
  and of late requests.

None of these is inductive. `LifecycleInv` is: it adds that ids are used in
order and unborn threads stay unborn (`InvIds`), that a live thread belongs to a
station in `stations_` or to one being joined (`InvThreads`), that whatever left
`stations_` has `stopping` set (`InvStopping`), where the main thread can be
while threads are joined (`InvMain`), when the pool is up (`InvPool`), that
slugs are distinct among live and dying stations (`InvSlugs`), which server the
clients were built for (`InvServer`), and that a queued registration is of a
station that was created (`InvJobs`). The proof splits a step into the main
thread's (one lemma per native) and everybody else's; the latter change nothing
that the invariant relates but the program points of living threads
(`ThreadStepIsQuiet`), which settles most conjuncts at once.

The last theorem rests on `RetireInv`. A registration that is queued, under way or
late is of a station on the server the workers' clients are for (`InvRoutes`), and
a server knows a station only under its own slug (`InvOwners`), so an
unregistration removes the station it is for if anything does. A station with an
unregistration, queued, in hand or acknowledged, has `stopping` set and its
thread joined (`InvGone`), so a worker drops the registrations left of it. What
remains is a registration that passed that test earlier, or was given up: a
station dropped while there was none is unknown to every server and gets none
under way any more (`InvSwept`). The others are the ones in `loose`, and they do
come back (see below), with one worker too.

CommandPipelineProofs proves, from `BoundsAssumption` and for any workers:

- `PipelineTypeCorrect`: `Spec => []TypeOK`;
- `CommandsStayInTheirPool`: `Spec => []NoCommandOutlivesItsPool`.

`PipelineInv` adds that a queued command carries an id some native returned and
the number of the current pool (`InvJobs`), that so does the one a worker has in
hand (`InvWorkers`), that a result answers such an id (`InvEvents`), and, what
the second theorem turns on, that the queue has no command at the moments a pool
can start: after `jobs_.clear()`, and before the first `Configure` (`InvMain`).

It also proves `CommandsOvertakeInHandsOnly`, `Spec => []OvertakingIsBounded`, for
any number of workers, jobs and late requests. `OrderInv` relates every job to
those ahead of it: a command's id is larger than those of the commands before it,
and its station has no unregistration ahead of it (`Before`), in the queue
(`InvQueue`) and between what a worker has in hand and the queue (`InvHand`). The
same goes for what was performed or may be performed late (`Past`, `Removed`),
which no queued job comes before; that needs ids not to be used twice and a
station with an unregistration to have left `stations_` (`Spent`, `InvStations`).
Whoever sent a request takes only later jobs afterwards, so there is always a
worker that holds nothing older (`InvSenders`): commands overtake each other only
among n workers, and one worker's only by being given up.

It proves `PipelineKeepsThePromise`, `Spec =>
KeepsThePromise`: every step of CommandPipeline is a step of AsyncCommands or
leaves the promise as it was. `PromiseInv` is what makes the mapping sound: a
command is in one place, once in `jobs_` or in one worker's hands (`InvOpen`); a
reported command is in neither and has one result (`InvReports`); no worker is
left between pools, so that nothing open is lost from sight (`InvHands`); and an
id is given out only for a job that was claimed, so that ids are fresh
(`InvClaims`). Most steps stutter; enqueueing is the call, pushing the outcome
the report, `jobs_.clear()` the giving up and `Deliver` the hearing.

StatusCacheProofs proves, from `CacheAssumption`:

- `CacheTypeOK`: `Spec => []TypeOK`;
- `EventsAreHeardInOrder`: `Spec => HeardInOrder`, for any number of workers;
- `OneWorkerKeepsNoOlderTrack`: `Spec => []QuietCacheIsNoOlder`, with `OneWorker`.

`CacheInv` says that what the script will hear, the callbacks that wait followed
by the events on the wire, is in the order of the server's versions and not
older than what it heard last (`InvOrder`), and that nothing is left of a stream
when the thread registers again (`InvLink`). `InvLast` says what brings the
cache up to date: while a status call carries a snapshot older than the last
track event, or the cache itself is older, another snapshot has been asked for
or is about to be. Two workers break it, because the older of two snapshots may
be applied last.

PoolShutdownProofs proves, from `ShutdownAssumption` and for any number of
workers:

- `ShutdownTypeOK`: `Spec => []TypeOK`;
- `NobodySleepsThroughTheStop`: `Spec => []NoSleepThroughTheStop`;
- `OnlyTheMissedAreWaitedFor`: `Spec => []OnlyTheMissedWait`.

`ShutdownInv` ties the stop flags to the main thread's place (`InvFlags`), says
what each call is for and that whoever waits for an answer has a socket
(`InvCalls`; without it a thread could be waiting where nothing can be shut
down), who may still be between a test and a sleep after each notification
(`InvSleep`: clearing `jobs_` takes the mutex, so no worker can be there when
`notify_all` comes, while the poller can), and that an interrupted thread not in
`missed` is out of its call or on the socket that was shut (`InvMissed`).

It also proves `SleepersAreSpare`, `Spec => []SleepersAreNotNeeded`, for
any number of workers and producers. It is inductive together with
`ShutdownInv`, once it counts the helpers (workers on their way to the queue,
threads about to notify): every step that adds a job adds a helper, and a step
that removes a helper removes a job, wakes a sleeper or finds none.

HttpPostProofs proves, from `PostAssumption` and for any number of calls:

- `PostTypeOK`: `Spec => []TypeOK`;
- `CallsApplyAtMostTwice`: `Spec => []FreshConnectionAppliesOnce`.

How often a call was carried out says nothing of the copies that still wait in a
socket the client has closed, so `PostInv` bounds both together: carried out plus
waiting is at most the number of attempts written so far (`InvBudget`). That
needs a request to be on one connection once, which needs a connection just
opened to be empty (`InvFresh`) and the second attempt always to open one
(`InvAttempts`).

It also proves `CallsGetTheirOwnResponse`, `Spec =>
[]ResponseIsItsOwn`, for any number of calls and any framings. `ResponseInv`
says what a connection may still bring, the parts that arrived followed by those
the server has still to write (`Pipe`): at rest nothing but the blank line of a
chunked body, unless the socket was shut down (`AtRest`); while a head is
awaited, that line or the whole response to this call (`Awaiting`); inside a
body, the rest of it (`InBody`). Before any conjunct is looked at, one lemma per
step says what the step does to `Pipe`.

ScriptCallbacksProofs proves, from `ScriptsAssumption` and for any scripts, heaps
and events:

- `NoEventIsHeardTwice`: `Spec => []HeardOnce`;
- `NobodyIsSteppedOver`: `Spec => []OfferedToAll`;
- `CallsKeepTheirMachine`: `Spec => []CallsKeepTheMachine`;
- `CallbacksTypeOK`: `Spec => []TypeOK`.

The first two rest on `OffersInv`: `g_scripts` holds a script once, nobody at a
place the loop has still to come to was offered the event, and, unless the list
shifted, whoever is present was offered it or is ahead; the lemma `Erasing` says
what erasing a place leaves. The third rests on where strings and arguments
stand: what a call has allotted begins at the bottom of the heap, and a stack is
empty unless its script's last call was refused (`InvMachine`); every argument the
call has come to is where it belongs (`InvArgs`); and what has been pushed is the
end of the argument list, short of its beginning only if the room is full
(`InvPushed`): once a push fails every later one does, as nothing gives room back.
The fourth adds that the heap and the stack of a script never pass its room
together (`InvFits`).

EventStreamProofs proves, from `StreamAssumption` and for any frames, chunks,
reads and limits of the buffers, however long a subscription lasts:

- `StreamTypeOK`: `Spec => []TypeOK`;
- `BuffersStayBounded`: `Spec => []BuffersAreReclaimed`.

Neither can be had from the buffers alone: `Fill` appends to whatever `buf_`
holds, and how much that is depends on what the server framed. `StreamInv`
therefore follows the whole connection, what is left in `buf_` followed by what
is on the wire. Every chunk size in it is the length of the data behind it, what
`ReadBody` looks for next is what comes next, and while the connection is up the
body does not stop inside a chunk (`InvBody`). Hence `Fill` is called with at
most one symbol left over (`InvBuf`), and only bytes of envelopes reach
`pending_`, which `ReadBody` does not touch while a whole envelope is there
(`InvPending`). The lemmas before the steps say what cutting a prefix or a suffix
off a connection, and appending a chunk to it, keep of this.

It also proves `StreamReadsTheFeed`, `Spec => Feed!Spec`: every step of the stream
is a step of EventFeed or leaves it as it was, which is `ReadsTheFeed` without its
liveness. `FeedInv`, beside `StreamInv`, says what is ahead of a reader once the
chunk framing is left out (`Data`, the bytes of `Ahead`): whole envelopes one behind
the other, of which only a broken connection cuts off the last; nothing is left with
a server that is done or gone; and no byte comes behind the chunk of size 0. Hence
what `Read` takes for an envelope is the frame in front (`EnvelopeInFront`), taking
it leaves everything behind it (`ConsumingTakesEnvelope`), and when the stream ends
otherwise, no frame is ahead (`NothingArrives`). `Mapped` is a recursive function:
that it exists, and that it goes through a concatenation part by part
(`MappedConcat`), is proved by induction on the length, from the well-founded order
of the natural numbers.

TextReadersProofs proves, for any files, urls, tokens and texts:

- `PoolStaysAsConfigured`: `Spec => []PoolIsAsConfigured` of Configuration, which
  needs nothing of what `ReadServerCfg` or `ParseUrl` compute;
- `ConfigurationIsTyped`: `Spec => []TypeOK` of Configuration, from
  `ConfigurationAssumption` and `SymbolsAreStrings`;
- `ReloadsAsReported`: `Spec => ReloadKeepsItsWord`, from the same;
- `ParserStaysInBounds`: `InitParse /\ [][NextParse]_jsonVars => []JsonTypeOK` of
  JsonParser, from `ParserAssumption`;
- `ReadersKeepTheirTypes`: `ReadersSpec => []TypesOK` of TextReaders, from all.

What a reload reports is about what `ReadServerCfg` finds, a recursive function
over the lines. That it exists, and that it finds what the file means, is proved
by induction on the number of lines read, from the well-founded order of the
natural numbers. `FoundAfter` is what holds after n lines, the invariant of the
loop at `serverconfig.cpp:31`: a setting is the value in the last of these lines
that gives it (`LastGiving`), or its default; `LineGives` and `OneLine` say what
one line adds, down to how it is trimmed and cut. `FileMeans` is its conclusion
for a whole file. The rest of the proof goes through the branches of `Reload`; one
that leaves the pool alone because nothing differs needs `PoolIsAsConfigured`, or
"applied" would be said of a pool with other settings. The induction carries over
the type of the settings too (`Found`), which the type invariant needs (`InEffect`).

The parser's place never passes the end of a text, however it is cut off or
malformed, and its recursion is bounded. `ParserInv` keeps that `open` is a stack
of containers (`IsStack`); the place is kept by what each step has seen before it
moves on, where the end of the text is no symbol (`PlaceAfterASymbol`).

The assumptions on constants are those of the modules, as a run of each evaluates
them: sizes and limits are natural numbers, the sets that are counted are finite,
an event stream has at least one frame, files and arguments are sequences of
strings, texts are sequences of symbols that have bytes, and no escape is the end
of the text. `SymbolsAreStrings` says that the default url is a sequence of
strings, which is plain but which no prover here knows of a string literal.

### Only model-checked

- Every liveness property, with the fairness of `ReadsTheFeed` and
  `CacheIsRightInTheEnd`: TLAPS has no rules for fairness here.
- `BuiltObjectsReadBack` and `ParsesTheGrammar`, whose grammar is defined by
  RECURSIVE operators, in whose presence the SMT solver cannot be used.

## Known disagreements that have no run

Met while modelling, beside the two runs above. The first four were seen as
counterexamples of TLC under configurations that are not kept:

- A registration can land after the unregistration of a destroyed station
  (`manager.cpp:704`, `manager.cpp:369`): another worker's that was in flight, or,
  with one worker too, one that its caller had given up after a timeout
  (`http.cpp:939`) or sent twice, which the audio server carries out late. But
  `docs/content/how-it-works/architecture.md:125` says "Destroying a station
  follows the same order: stop and join its stream thread first, then send
  `UnregisterStation`, so the teardown can't race the unregister".
  `OnlyStraysComeBack` says that nothing else brings a station back.
- A server that restarts between the registration and the subscription answers
  the subscription with `not_found`, which is retried: the loop of
  `manager.cpp:960` subscribes for ever without registering; `docs/content/how-it-works/station-lifecycle.md:41` says "When the
  connection comes back, the plugin re-registers automatically".
- With two workers, the default, consecutive commands go out on two connections
  and the later may be carried out first (`manager.cpp:693`); so may a command
  that was given up after a timeout, with one worker too. `OvertakingIsBounded`
  says how far. Hence the clean slate of `docs/content/pawn-api/playback.md:109`
  may clear what was queued after it.
- `OnGoRadioStationRegistered` is pushed before the status of a restarted server
  is asked for (`manager.cpp:898`), so a script that follows
  `include/goradio.inc:347`, "if GoRadio_GetQueueLength(stationid) is 0 here,
  queue something", reads the old length.
- `plugin.cpp:63` says of the threads that "Each one is woken from its socket
  rather than waited out", and `manager.cpp:220` that interrupting is what makes
  a worker return "instead of waiting out its timeout". The exceptions are the
  threads in `missed` of PoolShutdown: an interruption that arrives while the
  client is connecting finds no socket; `Post` takes it for a stale connection
  and calls again on a new one; a stream thread may be on its client for
  registrations, which nobody interrupts; and a poller between its test and its
  wait misses a notification that is sent without its mutex (`manager.cpp:218`).
- No timeout ends a call as a whole. A peer that stops reading keeps `SendAll` in
  its loop (`http.cpp:273`), where SO_SNDTIMEO shows as EAGAIN; one that sends a
  header line or a byte of the body now and then keeps the reads alive
  (`http.cpp:718`, `888`). A worker, and a main thread that joins it after a missed
  interruption, waits as long, and so does the join of a stream thread whose
  interruption was lost while `Open` was connecting, on a station with an event
  every second (`manager.cpp:987`).
- An error of `amx_Push` is ignored (`amxutil.cpp:167`): a callback of a script
  whose stack is full runs without its first arguments, and those it gets stand in
  the wrong places. The heap was checked: a string that does not fit skips the
  callback. A call that `amx_Exec` refuses leaves its arguments on the stack
  (`amxutil.cpp:171`), where the next call that runs pops them.
- A callback that has a script unloaded at or before the running one makes
  `Invoke` step over the next (`amxutil.cpp:120`), where `amxutil.h:11` says
  "Callbacks are offered to every one of them"; `shifted` marks it.
- `ParseUrl` keeps the port of `[::1]:8080` in the host and connects to port 80,
  and takes the last group of a bare `::1` for its port, against the comment at
  `http.cpp:536`, "an IPv6 literal is full of colons and must keep them".
- `goradio_typo 1` counts as a setting, so a reload of a file without any other
  fails on the missing token instead of finding no settings.
- `elapsed_seconds` of a snapshot that exceeds the duration is capped only once a
  second has passed (`manager.cpp:468`).
- `AsInt` of a number written `1e3` is 1 (`json.cpp:326`).
- A permanent error of SubscribeEvents (a token narrowed meanwhile) ends the
  stream thread without clearing `registered` (`manager.cpp:954`), while
  `docs/content/pawn-api/errors.md:37` has `GoRadio_IsStationRegistered` at 0.
- A registration repeated because its first answer was lost is reported as
  `afterReconnect` with `reRegistered` (`manager.cpp:897`), which
  `docs/content/how-it-works/station-lifecycle.md` explains as "the queue is
  intact and still playing" although the restart before it lost the queue.
- `UpdateStation` while the stream thread re-registers: two bodies on two
  connections, and the older one may be applied last (`manager.cpp:871`).
- `DestroyStation` followed by `Configure`: the queued UnregisterStation is
  cleared (`manager.cpp:215`), and so are commands, which then never answer.
- The poller may enqueue a status job after `jobs_` was cleared; the next pool
  carries it out (`manager.cpp:1144`).
- A re-registration that keeps failing holds its worker, and with one worker
  every command behind it (`manager.cpp:704`).
- A snapshot in flight overwrites a later QUEUE_UPDATED (`manager.cpp:846`) or
  puts the track before the current one back until the next snapshot
  (`manager.cpp:835`); with polling off, a track that starts between the
  snapshot of a registration and the subscription is missed
  (`manager.cpp:935`); a track event sets `valid` before any snapshot
  (`manager.cpp:1026`).
- `Post` repeats a request after a read failure, not only after a failed write
  (`http.cpp:941`, against the comment at `http.cpp:922`); an interrupted call
  on a kept connection does the same, and then waits on a socket nobody
  interrupts.

## Not modelled

- Durations: only that timeouts and backoffs end. With them the wall-clock
  arithmetic of `GetStatus` (`manager.cpp:463`) and `NextBackoff`.
- Memory, TLS (a library), name resolution, logging, the build.
- How much of a request or an answer has gone through: HttpPost and PoolShutdown
  send in one step, and a peer that takes or gives it by bits is one that holds
  its client.
- A body that ends with its connection on an event stream: the audio server
  answers SubscribeEvents in chunks.
- The natives' argument marshalling, `ClampCell` and string getters, and
  `AmxGetString`/`AmxSetString`: conversions without state. A loop over the queue
  that calls one native per item takes a fresh snapshot each time and may see two
  versions; the page on state does not promise otherwise.
- `AsDouble`, and the accessors `Has`, `At` and `Size` of `JsonValue`.
- The table of error codes in `connect_client.cpp`: the models distinguish
  permanent and retryable errors only.
- `atoi` of a number that does not fit an int: undefined in C++.

In CommandPipeline and StationLifecycle `jobs_cv_` and `poller_cv_` are their
predicates; PoolShutdown justifies that for `jobs_cv_` (`SleepersAreNotNeeded`)
and says how it fails for `poller_cv_` (by one poll interval).

## What is left

Every safety invariant, action property and refinement is proved up to its
liveness, save that the parser reads what the grammar says and what the writer
wrote. For that the grammar would have to be a recursive function of the length
of a text, as `ReadServerCfg` is of the lines, and the invariant would have to say
what each place on the parser's stack has read so far.

With two workers the older of two snapshots may be applied last and stay until the
next; what holds of the cache then, beyond that a later snapshot mends it, is not
stated. The liveness of lifecycle_liveness is checked with one station, and that
of pipeline_conclude and shutdown with one worker.
