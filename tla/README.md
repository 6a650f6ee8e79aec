# Verification of Aeryon

Aeryon is a Rust service that replays recordings of Wi-Fi channel state information
(CSI), calibrates each frame, cuts the calibrated frames into overlapping windows,
derives features and a channel-change observation from every window, and shows the
results on a dashboard over HTTP and WebSocket.  This directory holds TLA+ models of
its stateful and concurrent parts and of its signal chain, TLC configurations that check
them on small instances, and TLAPS proofs.

To run: `tlc -workers 2 -config X.cfg M` for each run of `PROJECT.json`, `tlapm
M_proofs.tla` for the proofs.

## 1. Inventory

| Part | State | Operations | Modules |
| --- | --- | --- | --- |
| `core/dsp` `WindowAssembler` | frame buffer, next window id, expected identity, last sequence and capture time, counters | `push`, `reset` | `WindowAssembler`, which implements `SlidingWindows`; proved |
| `plugins/csi-replay` | fixture reader, completion, cancellation watch, data-path sender, statistics | `initialize` (spawns the producer), `shutdown`, `health` | the producer in `CsiPipeline`, restarts in `PluginLifecycle` |
| `plugins/synthetic-sensor` | publishing task, counters | `initialize`, `shutdown`, `health` | `PluginLifecycle`, and as a source in `RuntimeLifecycle` |
| calibration, DSP, feature, perception services | an input queue, a worker task, its state and counters each | `start`, the worker loop, `shutdown` | `CsiPipeline`; what they compute in `SignalChain` |
| `core/runtime` `SignalSnapshotStore` | latest result of each stage, ring of recent events | `store_*`, `push_event`, `recent_events` | `CsiPipeline`, `EventBus` |
| `core/runtime` `Runtime` | lifecycle state, task and service handles, event consumer | `boot`, `start`, `shutdown`, `refresh_health` | `RuntimeLifecycle`; the races of a shutdown in `CsiPipeline` |
| `core/runtime` metrics and health | counters written by several tasks | `evaluate_health` and its parts | `RuntimeLifecycle` |
| `core/plugin-runtime` | registry, lifecycle state per plugin, factories | `register`, `unregister`, `start`, `stop`, `load_into` | `PluginLifecycle` |
| `core/events` `EventBus`, `core/domain` events | tokio broadcast channel | `publish`, `subscribe`, `recv` | `DomainEvents`, `EventBus` |
| `apps/server` | shared application state, a forwarder per WebSocket | REST snapshots, `handle_socket`, envelopes | `RuntimeView`, `PipelineView`, `EventBus`, `DomainEvents` |
| `frontend` | socket, reconnect timer, timeline, refreshes under way | `EventStream`, `useDashboard`, the presentation of stages | `EventStream`, `Dashboard`, `PipelineView` |
| configuration | none after loading | `validate` of every section | `Configuration` |
| fixture reader, CSI frames | last sequence | `open`, `next_frame`, `try_new` | `FixtureReader`, `Calibration` |
| calibration stages, DSP kernels, features, classification | none | `process`, `extract`, `observe` | `Sums`, `Calibration`, `Spectral`, `Features`, `ChannelChange`, `SignalChain`; proved in part |
| CLI, placeholder crates | none | | not modelled |

**How the parts interact.**  `Runtime::start_csi_replay` creates one bounded tokio mpsc
channel per enabled service and hands every worker the receiver of its own and the
sender of the next; the plugin's producer gets the sender of the first.  All tasks
write to the snapshot store and to their statistics, which REST handlers read, and
publish on the event bus, which the runtime's event consumer and each WebSocket
subscribe to.  The dashboard merges what the REST snapshots answer with what its event
stream delivers.  `Runtime::shutdown` stops the plugin (cancel and abort), then aborts
the DSP, feature, perception and calibration workers and the event consumer, and
waits for none of them.

**What is hard.**  Back-pressure through four bounded queues; end of input, which is
nothing but a chain of dropped senders; abort, which takes effect at some later await
while other tasks already see closed channels; state that is reported twice, by the
task and by whoever stops it; a plugin started again while its earlier producer still
runs; a broadcast bus that overruns slow receivers; REST answers and stream events that
overtake each other; trackers that are updated on success, and forgotten and rebuilt
after a window; numbers that a receiver's drift must not disturb.

**What makes each part correct.**
- Assembler: windows are exactly the sliding windows of the accepted frames; frames
  are accepted in order; an error changes nothing; no window id is lost.
- Pipeline: no frame lost, duplicated or overtaken; finite input drains; snapshots
  and announcements are causal; the states that are reported, and the stages that the
  dashboard shows, are true and come to an end; shutdown ends all tasks.
- Runtime: states and tasks agree on every error path; health notices a failure, does
  not forget it, and takes the end of a recording for none; nothing that a stopped
  runtime answers shows anything that runs.
- Plugins: what the loader leaves registered is known from its result; no producer is
  out of the reach of `stop`; a plugin's health is that of its current producer.
- Event bus: histories are bounded and in order; what a subscriber misses is accounted
  for; a slow one delays nobody; a closed socket leaves no task.
- Dashboard: one socket at a time, which reconnects; what is shown does not go back and
  catches up with the server.
- Signal chain: what the receiver did to a frame is no motion, and neither are a few lost
  frames; the stages differ on what a spectrum says only where its bins are equally strong.

## 2. Plan

The order in which the project was built, the core first: `SlidingWindows` and
`WindowAssembler`; `CsiPipeline`, which contains the assembler; `RuntimeLifecycle`;
`PluginLifecycle`; `DomainEvents` and `EventBus`; `EventStream` and `Dashboard`; the
signal chain; the views of the server and of the dashboard; `Configuration` and
`FixtureReader`, whose definitions the instances of the other modules are made of; and
the proofs, of the first five, then of the views of the pipeline and of the dashboard,
and of the signal chain.  All of it is done.  What would come next: an abstract chain of
FIFO queues that `CsiPipeline` implements, and a second source of frames to disagree with
the assembler's trackers.

## 3. Modules

**`SlidingWindows`** promises, for the frames accepted since the last reset, that
window *k* is the run of `WindowSize` frames starting `HopSize` frames after window
*k - 1*, emitted by the frame that completes it.

**`WindowAssembler`** translates `assembler.rs` and `window.rs`.  `Push(f)` is
`WindowAssembler::push`, with one disjunct per way out: `Reject` (validation or
capacity error), `Buffer`, and `Complete`, which includes the early return when
`CsiWindow::try_new` fails after the id was consumed and the frame retained.
`Admissible` is `validate_candidate`, `ValidWindow` is `try_new`.  A frame is its
sequence, capture time, finiteness of its samples and one *identity*, which stands for
the five `expected_*` fields that the code always sets, clears and compares together.
`stream` and `windows` are history variables.

**`CsiPipeline`** translates the producer task (`SourceLeave` ... `SourceAborted`), the
four worker loops (`Calibrate`, `AssembleAndProcess`, `ExtractFeatures`,
`ObserveChange`, and the shared `Forward`, `Announce`, `ObserveEof`, `Finish`), and
`Runtime::shutdown` (`StopPlugin`, `StopService`, `StopConsumer`).  The DSP worker
contains the assembler as `Assembler == INSTANCE WindowAssembler`, so a step of it is a
`Push`; the assembler's own capacity is `AssemblerQueue`, because the service raises it
to a window's size, while the service's queue may be smaller.  A task is split into
steps at its awaits and wherever other tasks can see the difference; `worker` and
`source` say where it is.  Whether calibration accepts a frame is a function of the
frame; whether a window's processing, a feature extraction or an observation succeeds
is nondeterministic.  `Aborted` and `SourceAborted` are the moment when a requested
abort lands.  Two over-approximations: an aborted task that is suspended may still be
resumed once before the abort lands, and the abort of the consumer may land any time
later; the pass results are the stronger for it, and the counterexamples below do not
use them.  A fixture that cannot be reopened for another pass, and a line that is not
UTF-8, are left out.

**`FixtureReader`** translates `fixture.rs`: the header and its refusals, blank lines,
lines that are no frames, and frames that are refused.  An error consumes its line and
keeps the last sequence, so that reading can go on.  `RowsOf` turns lines into the rows
that the producer of `CsiPipeline` replays, and the fixtures of its instances are made
by it; `MCOpens` and `MCSkips` check it against what the code's tests expect.

**`PipelineView`** extends `CsiPipeline` with what `state.rs` answers about the replay
and the four services and what `Dashboard.tsx` makes of it: six stages and four panels,
as functions of the state.  Its one variable, `failing`, is whether the DSP worker's
`consecutive_failures` is positive.  The snapshots of one refresh are taken at one
moment, and those that are still null before the first answer are left out.
`Runtime::shutdown` is called under the write lock that every handler needs, so the
views are looked at while `control = "running"`.  Things that the model shows and that
no property forbids: the replay's plugin health is degraded for a moment between the
end of its loop and the report of its completion; calibration may count more frames
than the replay has accepted, since the producer counts after it has sent; and a worker
that has ended is shown as idle until the replay's completion is known.

**`RuntimeLifecycle`** translates `Runtime::start`, split at every task it spawns and
every state it shares with them (`StartBegin`, `StartService` from perception up to
calibration, `RegisterPlugin`, `StartPlugin`, `TrackRunning`, `StartReturns`), with the
two errors that a validated configuration leaves possible (`BackendFails`,
`InitializeFails`), `refresh_health` as the REST handlers call it (`Refresh`, over
`Evaluated`, which is `evaluate_health`), and `shutdown` (`Shutdown`,
`ShutdownRefused`).  The event consumer reads a bus of `BusCapacity` events that loses
the oldest.  `lifecycle` is what the plugin runtime knows of the plugin, `tracked` what
the metrics remember, and `state` what the statistics say of each service, so that
the three can disagree with the tasks, `producer` and `worker`.  Here the services are
abstract: they count inputs, which succeed or fail at will, and their queues are
unbounded; the back-pressure and the single steps of a shutdown are in `CsiPipeline`.
That plugins are disabled, or that no source is, leaves nothing to model.  An error
return between two services leaves `health` at `Starting` with services running
(`BackendFails`), from where a second `start` would begin again; `main.rs` calls `start`
once and ends the process on an error, so a second call is not modelled.

**`RuntimeView`** defines the answers of `health_snapshot`, `runtime_snapshot`,
`plugins_snapshot` and `synthetic_sensor_snapshot` over it.  Some show the lifecycle that the
plugin runtime remembers, some that of the metrics: after a failed replay the answers
to the two differ, one says failed and the other running, and a response reads the
replay's completion after the health was refreshed, so that the two may contradict each other.

**`PluginLifecycle`** translates the loader, the registry and the plugin runtime, and of
the two sensor plugins what `initialize`, `shutdown` and `health` do and what a
producer shares with its plugin: the flags, the statistics, the data path.  `instance`
is the plugin object, `tasks` the producers spawned, each of them a step machine whose
abort takes effect only at an await, so that an old producer can still clear the flags
of a new one.  The loop of `load_into` is a step per factory (`LoadNext`), and a plugin
runtime is built (`Build`) when it has returned without an error; a caller whose load has
failed gives up, as the runtime does.

**`DomainEvents`** has the kinds of events, which of them a client is told about
(`Surfaced`), and the envelope that `event_map.rs` makes of them.  **`EventBus`** is the
bus as the sequence of accepted events with a position per receiver, of which the last
`Capacity` can still be received, with the runtime's event consumer (`Receive`,
`Handle`), the history ring (`PushEvent`, `RecentEvents`), a WebSocket handler and its
forwarder (`Open` ... `Aborted`), the calibration worker that stores a frame's signals
before it announces them, and the handler that reads them under two locks.  All
producers publish without waiting and are one script.  A script is one pass over a
fixture (`OnePass`): with looping playback the sequences start again and "later" has no
meaning.  The consumer's counters are updated in one step; the code's atomics are
relaxed, and a reader may see one before the other.  A bus that is closed is not
reached, because the tasks that receive hold senders.

**`EventStream`** is the reconnecting socket, one action per method and callback;
**`Dashboard`** the effect of `useDashboard` with its two bootstrap phases (`AnswerBootstrap`, `Seed`,
`Fill`), the refreshes (`Poll`, `Requested`, `AnswerRequest`, `Apply`, `RequestFails`),
the events of
the stream (`OnEvent`), and the cleanup (`Unmount`), after which strict mode mounts it
again.  What one `Promise.all` waits for is answered by one state of the server.  The
backoff, the frame rate and the charts are left out.  Two things that follow from the code
and that no property forbids: what the stream delivers before the first answer is replaced
by it (the comment at `useDashboard.ts:236` says the timeline is seeded before the stream
appends, but the stream is connected at once); and in strict mode the close callback of
the first stream resets the ref that tells of an open socket after the second has
opened, which is then shown as reconnecting until an event comes.  Events with equal
keys are one entry of the timeline, the newest.  Of what an answer says of the frames only
the counter is kept, which is merged by its maximum; the latest sequence and its time,
which every answer overwrites (`useDashboard.ts:201`), are left out, and
`FramesNeverDecrease` says nothing of them.  In the code an object connects once, so what
`SocketsAreOwned` is about are the close callbacks and timers that come after its
cleanup.

**`Calibration`**, **`Spectral`**, **`Features`** and **`ChannelChange`** are the
numerical operators (sums are in **`Sums`**), **`SignalChain`** the state machine that passes
a frame through them, one action per stage.  They are exact, in integers: a phase is in units of
1/`Turn` of a turn, a regression over the subcarrier indices is kept with its
denominator, and the spectra are those of windows of seven frames and hence six energies.
That is the least number with three bins but DC, so that two of them can be equal and
still 5 % above the mean, and its twiddle factors, sixths of a turn, make powers
that are integers.  The Hann weights, 0.345 and 0.905, are rounded to 3 : 8, the only
number in the module that is not exact.  Windows of 2 to 4 frames pass the configuration
and always fail in `SpectrumForSeries` or `AnalyzeSampling`.  Motion energy, a distance
between frames, is only zero or not.
Entropy and flatness are left out.  Worth knowing: a window without any motion is
reported as indeterminate, never as stable; and if normalisation were configured before
detrending, it would lose the unwrapping.

**`Configuration`** translates `AppConfig::validate` and the validation of every section
it reaches.  A floating-point number is whether it is finite and its value, a text what
the validation tells apart.  `DefaultConfig` is the default file; `Accepted` is the
whole verdict.  The instances of `CsiPipeline` and `RuntimeLifecycle` take their
capacities, depths and assembler limits from accepted configurations, and ASSUMEs say
which variations are refused.  Consequences that surprised: the DSP queue may be smaller
than a window; epsilon and capacities are checked for disabled services too, as is the
synthetic section; and the fixture's path is checked when the file is loaded only.

## 4. Runs

| Run | Instance | Shows |
| --- | --- | --- |
| `assembler_overlap` | windows of 3, hop 2, sequences 0..7, two capture times, two identities and a non-finite frame, 6 pushes, resets at any time | ids are consumed exactly by windows (`WindowIdsGapless`), a frame is admitted only after the one before it (`AcceptedInOrder`), an error changes nothing (`ErrorLeavesBuffer`), and the assembler implements `SlidingWindows` (`SlidingSpec`) |
| `assembler_forgets` | windows of 2, hop 2 | *violation* of `AcceptedInOrder`: with hop = window size, order and gap are not checked across windows |
| `pipeline` | ten configurations with queues of 1 and windows of 2, hop 1: five fixtures played once by four services, two looping up to 8 frames with two, three looping up to 3 frames with three services and a shutdown at any moment | nothing is lost (`NothingLost`), a worker ends drained (`EndsDrained`), snapshots are causal (`SnapshotsAreCausal`), a rejection is permanent (`RejectionIsPermanent`), everything drains (`Drains`), shutdown ends all tasks (`ShutdownStopsTasks`) and leaves nothing reported as running (`NothingShownRunning`); a stage shown as completed stays so (`CompletedIsFinal`), and nothing is shown as active at the end (`EndIsShown`) |
| `pipeline_completed` | a fixture with a malformed row | *violation* of `CompletedIsClean`: DSP reports completed input |
| `pipeline_failed` | a good fixture, shutdown at any moment | *violation* of `FailsOnlyOnBadInput`: a graceful shutdown is reported as a failed replay |
| `runtime_health` | a CSI replay with calibration, DSP and features, native backend, and a synthetic sensor; 3 frames, a bus of 1 event | health finds out about every failure, also when its event is lost (`FailureReported`), and does not forget it when a degradation masks it (`FailureSticks`); a late first frame is a degradation until it comes (`FirstFrameClearsDegraded`); a failed start leaves no service alive (`FailedStartLeavesNothing`); a stopped runtime answers nothing that runs (`StoppedAnswersNothingRunning`) |
| `runtime_refuses` | CSI with calibration, 1 frame | *violation* of `ShutdownStopsPlugin`: a failed runtime cannot be shut down |
| `plugins` | two plugins, five lists of factories, 2 producers, 2 instances | the loader's clean prefix (`LoadedIsCleanPrefix`), no producer out of reach (`OneProducer`), truthful health (`HealthIsTruthful`), stopped producers end (`StoppedEnds`) |
| `plugins_restart` | one replay, 2 starts | *violation* of `AcceptedFramesAreSent`: a restarted replay counts frames that it sends to nobody |
| `events` | three scripts of three or four events, a bus and a history of 2, one socket with a queue of 1 | the history (`RecentIsTailOfReceived`), the accounts of the socket (`SocketAccounts`), causal signals (`SignalsAreCausal`), receivers catch up (`ReceiversCatchUp`), forwarders end (`ForwarderEnds`) |
| `dashboard` | two mounts, two events, a timeline of 2, one refresh under way besides the bootstrap | one socket per object and none after the cleanup (`SocketsAreOwned`), what the connection says (`ConnectedIsOpen`), frames and timeline never go back (`FramesNeverDecrease`, `TimelineOnlyGrows`); the stream reconnects (`Reconnects`) and the signal views catch up (`ViewsCatchUp`) |
| `signal_chain` | two links of three uneven subcarriers (-1, 1, 2), two shapes and a dead link, four drifts for the first two frames, seven ways in which the six intervals of a window come (in time; a frame lost; a frame late; two intervals too long; a frame stamped twice; half of the intervals too long; every other frame lost), energies up to 1 on each link | calibration fails only without energy (`CalibrationFailsOnlyOnZeroEnergy`), unwrapping is continuous (`UnwrappedIsContinuous`), drift is no motion (`DriftShowsNoMotion`), power is conserved (`Parseval`), few losses are no motion (`FewLossesAreNotMotion`), the two readings of the dominant frequency differ in ties only (`DominantsDifferOnlyInTies`), percentiles are in order and the score is monotone (`EvidenceFollowsMotion`) |

**Bounds.**  Six pushes make two windows and the frame after them with hop 2; sequences
up to 7 make gaps inside and beyond the limit.  Queues of one make every send block;
fixtures are three to six frames long, which fills all four queues at once and lets the
assembler reject.  Three failures are what the health needs to degrade, hence 3 frames
for the runtime, and a degradation ends when the DSP worker does; a bus of one event
overflows at once.  Two producers are an old one and a new one.  A bus, a history and a
queue of 2, 2 and 1 are each overrun by three events; the sockets share nothing but the
count of receivers, so one is enough.  Two mounts are what strict mode makes.  The
events of the dashboard have two keys, which a timeline of 2 holds, so that nothing is
evicted from it in the run; that an event pushes out the last one of a full timeline
is shown by the theorem `TimelineGrows` alone.  An interval may be irregular at any place
of a window, and a frame be lost wherever one is missing; `Timings` is the bound on how,
since all tuples of its five values would be thousands of them.
Energies of 0 and 1 on two links give aggregates of 0 to 2, and these the tie
0, 1, 1, 2, 1, 1; drifts beyond the first two frames would repeat the same comparison of
neighbours.  Eighths of a turn, with indices that are not evenly spaced, are the coarsest units in
which unwrapping, regression and aliasing differ.

**Fairness.**  `WF` on the producer and on each worker: tokio polls every task that is
ready.  `WF` on the steps of `Runtime::shutdown` once it has begun; that it begins is
never assumed.  For `RuntimeLifecycle`, `WF` on the tasks, on the rest of a start that
has begun, and on `Refresh`: the dashboard polls `GET /health` while it is open, and
without anyone who asks there is nobody to report to.  For `PluginLifecycle`, `WF` on
each producer.  For `EventBus`, `WF` on the consumer and on each forwarder, and nothing
of the clients.  For `Dashboard`, `WF` on the polling timer, on the reconnect timer, on
applying an answer and on a close callback, which the browser's event loop runs, and
`SF` on a connection that is tried again and again and on an answer: the server is
reachable now and then.  Without that nothing could be shown.  Where nothing can step
any more, an explicit disjunct stutters, so deadlock checking stays on; only in
`dashboard` it is off, for a dashboard that is unmounted has nothing left to do.

## 5. Proofs

A proof module extends the module it is about.  The provers see every value of the
constants that the named assumptions (`ConfigValid`, `PipelineConfig`, `BusConfig`, ...)
allow.  Most of them restate what a configuration guarantees.  Five only say what the
data looks like: `FrameConfig` (subcarrier indices, powers and phases are integers, there
is an antenna, and every frame listed as malformed has a defect that
`CsiFrame::try_new` names), `ResultShape` (sequences are numbers, and the mark for
nothing is no row), `FactoryLists` (lists of factories), the set `Event` of `DomainEvents` (a script is a sequence of events, of any kinds
and contents), and in `DashboardConfig` that the objects are numbered 1 to N, one per
mount, for some N.  The type invariants of the first five state machines are proved, not run.
Every inductive invariant below was given to TLC before it was proved.

`WindowAssembler_proofs`: `TypeCorrect`, `WindowIds`, `ErrorsLeaveBuffer`, `InOrder` (for
`HopSize < WindowSize`; the run `assembler_forgets` shows the condition is needed), and
`ImplementsSlidingWindows`.  The properties are not inductive alone.  That `try_new`
never fails needs that the buffer is ordered and of one identity; that a new frame
continues the buffer needs that `last` is the mark of the buffer's last frame; and that
the window is the one `SlidingWindows` wants needs that the buffer is the tail of the
stream after `HopSize * Len(windows)` frames.  `IInv` is the conjunction of these
(`BufferIsTail`, `LastIsNewest`, `IdentityAgreed`, `Ordered(buffer)`) with `TypeOK` and
`WindowIdsGapless`.  One lemma per action preserves it; the arithmetic of the hop is in
`HoppedFacts` and `FullFacts`.

`CsiPipeline_proofs`: `NothingIsLost`, `WorkersEndDrained`, `StoppedShowsNothing` and
`TypesAndQueues`.  Equality of sequences is said element by element (`Conserved`), for each pair of
neighbours.  It needs that no sender meets a receiver that is gone, hence that a
worker that has left its loop has an empty queue and a sender that is gone (`EndsEmpty`)
and that nothing is aborted before a shutdown.  For the shutdown, `StopInv` says that only
a service which `toStop` still names may be shown as running, and that the replay is
not shown as active once a shutdown has begun.  The bound of the queues is kept by
`Enqueue`, the only place where they grow.

`PipelineView_proofs`: `CausalSnapshots`, `EndedIsShown` and `CompletedStays`.  That the
snapshots are causal is a statement about two variables and needs all of the pipeline:
`OnePass` says for each stage that what it shows, holds, and has queued is increasing and
older than everything the stage before still has (`Between`), with the assembler's
buffer as one more queue; with looping playback, where sequences start again, only
`AnnouncedBefore` is left, that what DSP has received or will receive was announced.  For
what is shown at the end, `Reports` says which statistics a task may leave behind in each
of its places, as long as nothing was aborted; a stage that consumed nothing is the one
that may stay idle.  `CompletedStays` is the same invariant, step by step: a stage that is
shown as completed has a task that is gone, and no other task writes what it shows.

`RejectionStays`, in the same module, follows a frame from the fixture to the assembler, in
looping playback and during a shutdown too.  What a stage has received is the beginning of
what the stage before it has produced, also when its sender was aborted and what that was
handing over is lost (`FlowInv`).  The producer leaves no frame of the fixture out unless
it starts over (`ReadInv`), and calibration none of those that calibrate
(`CalibratedInv`): a frame that the assembler gets is the first newer than the one before
it, or there is no newer one.  So if that one is too far from the last accepted frame,
every later one is, and every older one is refused (`Stuck`); as long as none was rejected,
the assembler remembers the last frame that it got, because windows overlap and each one is
valid (`AssembledInv`).  The theorem has two hypotheses.  `OneRecording`: the frames of a
fixture are finite, of one identity, and captured in the order of their sequences.  The
reader does not ask for the order of the captures, and where a frame is refused for its
capture time a later one may be accepted.  `Overlapping`: with a hop of a whole window the
trackers are forgotten (finding 1).  The configurations of the runs satisfy both
(`MCRecordings`).

`RuntimeLifecycle_proofs`: `StoppedRuntimeAnswersNothingRunning`, `FailureStays` and
`TypesAndBus`.  For the first the invariant adds why the shutdown is sufficient: a worker state is `Running` only if the
worker was spawned, so the shutdown resets it; the metrics show the plugin as running
only while the plugin runtime does, so the shutdown finds it; and a stopped runtime has
no start under way.  `FailureStays` is proved from `FailInv`: a runtime that has failed is
lost (`Lost`), because it is stopped, because its start has returned an error, or because
its source has failed, which no evaluation undoes even while a degradation masks it; and
a start that is still under way has seen no failure (`StartKnows`).

`PluginLifecycle_proofs`: `LoadIsCleanPrefix`, `StopReachesProducers`,
`HealthTellsTheTruth` and `TypesAndRegistry`.  The loader compares a plugin with the
registry only; `LoadInv` says of which factories the registry tells, so that a plugin
which is found there is one that an earlier factory made, and where the loop stopped, so
that the factories it has passed are all the clean ones.  A producer that was not
aborted is the one that the current instance holds; the invariant ties each task to an
instance by number, since an unregistered instance takes its handle with it.  The health
adds `CurrentProducer`: the task that a running plugin holds was neither cancelled nor
aborted, is not at its end while the flag says alive, and has set the failure flag if it
ended unclean; an older producer, which can still write the flags, can only clear the
first and set the second.

`EventBus_proofs`: `SignalsCausal`, `HistoryIsTail`, `NothingUnaccounted` and
`TypesAndHistory`.  The first
rests on the order of the calibration worker, store raw, store calibrated, publish, and
on the rest of the script having no smaller sequence; between two of the three steps the
store is ahead of the bus (`CausalInv`).  The second rests on positions being received
in increasing order; that the history is the end of what was received is said by
distance from the end (`Aligned`), which appending to both and dropping the head of one
preserve.  The accounts of a socket (`SocketInv`) are kept over what was sent and what is
queued as one increasing sequence (`Flow`): sending to the client moves the border between
the two and leaves the sequence alone, and the event in the forwarder's hand is the one
just before its position.

`Dashboard_proofs`: `SocketsOwned`, `ConnectedHasSocket`, `FramesGrow` and
`TimelineGrows`.  An object is
always quiet, active or leaving (`Owned`), whichever method or callback ran last; mounts
that are over have objects whose user has closed them, and mounts to come have untouched ones
(`StreamsInv`).  Being shown as connected, and the ref that the polling timer reads, then imply
an open socket, or one that closes and will say so (`ConnectedInv`).  Frames need the
types of what the callbacks share, and that an answer is merged by `Max`.  The timeline
needs that its keys are distinct (`Timeline`), which every merge leaves so
(`MergeLeavesTimeline`); what a merge keeps is found by rank, and one more envelope moves
every rank by one (`NewFirstRank`), so that merging it drops only the one with its key
(`MergeOne`).

`SignalChain_proofs`: `CalibrationRemovesDrift`, `UnwrappingIsContinuous`,
`OnlySilenceFails`, `PowerIsKept`, `DominantsAreStrongest`, `MotionRaisesScore` and
`LossIsIndeterminate`.  `ChainInv` says what the buffer
holds after each stage as a function of the link's shape and the receiver's drift
(`Staged`).  That drift disappears is then a chain of lemmas about the stages: unwrapping
finds the phase again but for whole turns when no step between subcarriers aliases
(`UnwrapFinds`); the residuals of the regression are the same when a line is added to the
phases (`SlopeShifts`, `InterceptShifts`, `DetrendStays`); and a gain cancels in powers
that are relative to their sum (`SumScale`).  That the regression never degenerates is a
spread that grows with every subcarrier (`SpreadGrows`).  The sums and the unwrapping are
recursive functions over the subcarriers.  The library's induction theorems take a
predicate, so the proofs make do with a set: `LeastOfSet`, from the well-foundedness of
the finite subsets, gives `Induction` (a set that has 0 and, with each number, the next
has all) and `Recursion` (a function with given steps exists), which give
`PartialSums`, the form in which the sums are used.  `WindowInv` says
that a window has an energy for each of its intervals on every link, and that a result
is that of the window which is still there; the power of a spectrum is then a fact about
six numbers (its three bins are written out and added up).  The two dominant bins are the
first and the last of the strongest ones of a sequence of any length (`FirstIs`, `LastIs`).

`MotionRaisesScore` rests on two facts that hold for any length: a sequence that is
nowhere less than another has no smaller k-th value (`SortedGrows`, by counting the places
that do not exceed it), and no smaller sum of squares, nor its integer root (`SqrtGrows`).
The order of the percentiles follows from the order of the k-th values (`SortedInOrder`).
For these proofs `Sorted` names the k-th value by how many are below it and `Sqrt` is the
number between whose square and the next its argument lies, instead of being computed.
`ScoreInv` says that the vector is that of the energies and intervals which the window
still has.

`LossIsIndeterminate` has one hypothesis, which the run's instance satisfies (`MCLosses`).
`Resolvable`: what an interval may be instead of a tick differs from it by more than the
profile's maximum jitter.  `LossInv` says that every interval of a window is one of those.
If fewer than half of them are irregular the median is a tick (`MiddleIsTick`, for any
length), so the jitter is at least that of each irregular one, and the observation finds
it, whatever the DSP service tolerates.  The condition is needed, and the run reaches what
is beyond it: with every other frame lost, intervals 20, 20, 20, 20, 20, 20, there is no jitter,
and with half of the intervals too long, 12, 12, 12, 10, 10, 10, the median is 11 and the
jitter 1/11, within a limit of 10 %; both windows are observed as a state of the channel.
No document promises otherwise: the jitter is documented as relative to the median.

**From the configuration.**  `ServicesChain` and `AssemblerIsConfigured` (in
`WindowAssembler_proofs`) and `ObservationIsConfigured` (in `SignalChain_proofs`): every
accepted configuration enables the services as a prefix of the chain with queues that
hold something, and gives the assembler and the observations constants that satisfy
their assumptions: these are consequences of the validation.

**Only model-checked**: liveness, which is out of TLAPS's reach (`Drains`,
`ShutdownStopsTasks`, `FailureReported`, `FirstFrameClearsDegraded`,
`FailedStartLeavesNothing`, `StoppedEnds`, `ReceiversCatchUp`, `ForwarderEnds`,
`Reconnects`, `ViewsCatchUp`).

## 6. Findings

1. **Windows that do not overlap forget the order** (`assembler_forgets`).  After a
   window with `hop_size_frames == window_size_frames` the buffer is empty and
   `last_sequence` is `None`; an older frame is accepted next.
2. **Completed after a failure** (`pipeline_completed`).  A worker cannot tell the end
   of a fixture from the end of a failed producer and reports `Completed`, documented
   as "Finite input completed cleanly".
3. **A graceful shutdown reported as a failure** (`pipeline_failed`).  The producer,
   between reading a row and sending it, can meet the channel that the shutdown has
   just closed; it then overwrites `Stopped` with `Failed` and publishes
   `CsiReplayFailed`.
4. **A failed runtime cannot be shut down** (`runtime_refuses`).  Once a poll has seen
   a failed replay, `shutdown` returns an error before it stops anything: the plugin
   stays `Running`, and workers and consumer live until the process ends.
5. **A restarted replay sends to nobody** (`plugins_restart`).  `initialize` takes the
   data-path sender out of the plugin, so the producer of a second start counts and
   publishes frames that no service receives.

Two things that the code does and no document, comment or test contradicts, so that they are
not findings.  In a tie of the strongest bins the DSP service and the feature extractor name
different dominant frequencies (`DominantsDifferOnlyInTies` says exactly when).  A window
half of whose intervals are irregular may be observed as a state of the channel
(`FewLossesAreNotMotion` says where the limit is).

## 7. Not modelled

Rounding of floating-point numbers, and windows of any other length than seven frames in the
signal chain: an odd number of energies, such as the 15 of the default window of 16 frames, has
no Nyquist bin, and that branch of `SpectrumForSeries` is not exercised; entropy
and flatness; the C++ kernels, only whether the backend can be created; the text of
events, answers and logs; durations and averages of the statistics; the router and
CORS; the dashboard's charts and its choice of links; the command line and the
placeholder crates, which keep no state; time, except as the order of events and of
capture times.
