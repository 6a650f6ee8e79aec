---------------------------- MODULE CsiPipeline ----------------------------
(***************************************************************************)
(* The CSI pipeline that Runtime::start_csi_replay wires: the replay       *)
(* producer task of the csi-replay plugin and up to four worker tasks      *)
(* (calibration, DSP, features, perception) joined by bounded tokio mpsc   *)
(* channels, the snapshot store they write, and Runtime::shutdown, which   *)
(* aborts the tasks while they run.                                        *)
(*                                                                         *)
(* A task runs alone between two awaits; the tasks run in parallel.  What  *)
(* is between two awaits is split wherever another task can observe the    *)
(* difference.  JoinHandle::abort takes effect at an await, some time      *)
(* after it is called.                                                     *)
(***************************************************************************)
EXTENDS Naturals, Sequences

CONSTANTS
  Configs,         \* the configurations that may be loaded, with their fixtures
  Malformed,       \* a row that the reader rejects
  Capacity,        \* queue_capacity of each service
  WindowSize, HopSize, MaxSequenceGap,
  None

Calibration == 1
Dsp == 2
Features == 3
Perception == 4

Rows == UNION {{c.fixture[i] : i \in 1..Len(c.fixture)} : c \in Configs}

\* A frame is what the assembler looks at, and whether the calibration
\* pipeline, a function of the frame alone, accepts it.
Frame == Rows \ {Malformed}

\* A configuration: loop_playback, maximum_frames (0 is no limit), the number
\* of services enabled, from calibration on, and the rows of the fixture.
Config == [loop : BOOLEAN, maximum : Nat, depth : 0..4, fixture : Seq(Frame \cup {Malformed})]

\* AppConfig::validate: each service requires the one before it.
Validates ==
  /\ Configs \subseteq Config
  /\ Capacity \in [1..4 -> Nat \ {0}]
  /\ WindowSize \in Nat /\ WindowSize > 1
  /\ HopSize \in 1..WindowSize
  /\ MaxSequenceGap \in Nat

ASSUME PipelineConfig == Validates

\* The reader rejects a row whose sequence does not exceed the one before it.
Increasing ==
  \A c \in Configs : \A i, j \in 1..Len(c.fixture) :
    (i < j /\ c.fixture[i] # Malformed /\ c.fixture[j] # Malformed) =>
      c.fixture[i].sequence < c.fixture[j].sequence

ASSUME FixtureShape == Increasing

\* Sequences are numbers, and nothing that is there is None: no row, no result
\* made of a window, and nothing that the assembler remembers of a frame.
ASSUME ResultShape ==
  /\ \A f \in Frame : f.sequence \in Nat
  /\ None \notin Rows \cup [first : Nat, last : Nat]
  /\ \A f \in Frame : [sequence |-> f.sequence, capture |-> f.capture] # None

VARIABLES
  config,       \* the configuration that was loaded
  cursor,       \* rows the current reader has returned
  emitted,      \* frames the producer has recorded
  source,       \* where the producer is
  held,         \* the frame the producer is handing over
  ending,       \* why the producer left its loop: "none", "clean" or "cut"
  completion,   \* CsiReplayCompletion
  cancel,       \* the cancellation watch channel
  sampled,      \* the value of cancel that the producer saw last
  inbox,        \* the queue of each service
  worker,       \* where each worker is
  hand,         \* the result each worker is handing over
  state,        \* the worker state in the service's stats
  consumed,     \* results received by each worker
  failures,     \* failures recorded by each worker
  announced,    \* success events published by each worker
  latest,       \* the signal store's latest result of each service
  produced,     \* history: the frames read (0) and the results of each service
  aborting,     \* tasks whose abort was requested
  toStop,       \* services that Runtime::shutdown has yet to stop
  control,      \* "running", "stopping" or "stopped"
  subscriber    \* the event consumer: "live", "aborting" or "gone"

\* The DSP worker's assembler.
VARIABLES buffer, nextWindowId, expected, last, counters, outcome, stream, windows

sourceVars == <<config, cursor, emitted, source, held, ending, completion, cancel, sampled>>
workerVars == <<worker, hand, state, consumed, failures, announced, latest>>
controlVars == <<aborting, toStop, control, subscriber>>
assemblerVars == <<buffer, nextWindowId, expected, last, counters, outcome, stream, windows>>
vars == <<sourceVars, workerVars, controlVars, assemblerVars, inbox, produced>>

fixture == config.fixture
Depth == config.depth

Stage == 1..Depth
Task == 0..Depth   \* 0 is the producer

\* The assembler is told of a queue that holds a window, whatever the capacity
\* of the service's own.
AssemblerQueue == IF Capacity[Dsp] < WindowSize THEN WindowSize ELSE Capacity[Dsp]

\* A shutdown stops DSP, features, perception, and calibration last.
StopOrder == [i \in Stage |-> IF i = Depth THEN Calibration ELSE i + 1]

Assembler == INSTANCE WindowAssembler WITH QueueCapacity <- AssemblerQueue

Init ==
  /\ config \in Configs
  /\ cursor = 0 /\ emitted = 0
  /\ source = "read" /\ held = None /\ ending = "none"
  /\ completion = "active" /\ cancel = FALSE /\ sampled = FALSE
  /\ inbox = [s \in Stage |-> <<>>]
  /\ worker = [s \in Stage |-> "recv"]
  /\ hand = [s \in Stage |-> None]
  /\ state = [s \in Stage |-> "running"]
  /\ consumed = [s \in Stage |-> 0]
  /\ failures = [s \in Stage |-> 0]
  /\ announced = [s \in Stage |-> 0]
  /\ latest = [s \in Stage |-> None]
  /\ produced = [s \in Task |-> <<>>]
  /\ aborting = [s \in Task |-> FALSE]
  /\ toStop = StopOrder
  /\ control = "running" /\ subscriber = "live"
  /\ Assembler!Init

-----------------------------------------------------------------------------
(***************************************************************************)
(* The channels                                                            *)
(***************************************************************************)

ReceiverGone(s) == worker[s] = "gone"

\* Mutant: a sender is kept when the services have been wired.
SenderKept(s) == FALSE

\* The only sender to s is the task before it.
SenderGone(s) ==
  IF s = Calibration THEN source \in {"finish", "gone"} ELSE worker[s - 1] = "gone"

\* A send completes at once.
HasRoom(s) == ~ReceiverGone(s) /\ Len(inbox[s]) < Capacity[s]

Enqueue(s, x) == inbox' = [inbox EXCEPT ![s] = Append(@, x)]

-----------------------------------------------------------------------------
(***************************************************************************)
(* The replay producer                                                     *)
(***************************************************************************)

\* Mutant: the loop never looks at the cancellation.
CancelUnseen == FALSE

\* *cancel_rx.borrow()
CancelSeen == cancel

Leave(why) == source' = "close" /\ ending' = why

\* maximum_frames have been produced.
LimitReached == config.maximum > 0 /\ emitted >= config.maximum

\* Cancelled, or as many frames as configured.
SourceLeave ==
  /\ source = "read"
  /\ \/ CancelSeen /\ Leave("cut")
     \/ ~CancelSeen /\ LimitReached /\ Leave("clean")
  /\ UNCHANGED <<config, cursor, emitted, held, completion, cancel, sampled,
                 workerVars, controlVars, assemblerVars, inbox, produced>>

MayRead ==
  /\ source = "read" /\ ~CancelSeen
  /\ ~LimitReached

\* The next row is a frame, announced on the bus; or the row is malformed, or
\* nobody subscribes to the bus, and the replay fails.
SourceRow ==
  /\ MayRead /\ cursor < Len(fixture)
  /\ cursor' = cursor + 1
  /\ LET row == fixture[cursor + 1] IN
     IF row # Malformed /\ subscriber # "gone"
     THEN /\ held' = row
          /\ produced' = [produced EXCEPT ![0] = Append(@, row)]
          /\ source' = IF Depth > 0 THEN "send" ELSE "record"
          /\ UNCHANGED <<ending, completion>>
     ELSE /\ Leave("cut")
          /\ completion' = "failed"
          /\ UNCHANGED <<held, produced>>
  /\ UNCHANGED <<config, emitted, cancel, sampled,
                 workerVars, controlVars, assemblerVars, inbox>>

\* The fixture is exhausted: it is opened again, or the replay is complete.
SourceEnd ==
  /\ MayRead /\ cursor = Len(fixture)
  /\ IF config.loop
     THEN cursor' = 0 /\ UNCHANGED <<source, ending>>
     ELSE Leave("clean") /\ UNCHANGED cursor
  /\ UNCHANGED <<config, emitted, held, completion, cancel, sampled,
                 workerVars, controlVars, assemblerVars, inbox, produced>>

\* tx.send awaits room; a closed channel fails the replay.
SourceSend ==
  /\ source = "send"
  /\ held' = None
  /\ \/ /\ HasRoom(Calibration)
        /\ Enqueue(Calibration, held)
        /\ source' = "record"
        /\ UNCHANGED <<ending, completion>>
     \/ /\ ReceiverGone(Calibration)
        /\ Leave("cut")
        /\ completion' = "failed"
        /\ UNCHANGED inbox
  /\ UNCHANGED <<config, cursor, emitted, cancel, sampled,
                 workerVars, controlVars, assemblerVars, produced>>

\* The frame is counted after it was handed over.
SourceRecord ==
  /\ source = "record"
  /\ emitted' = emitted + 1
  /\ held' = None
  /\ source' = "sleep"
  /\ UNCHANGED <<config, cursor, ending, completion, cancel, sampled,
                 workerVars, controlVars, assemblerVars, inbox, produced>>

\* The select of the timer and the cancellation.
SourceSleep ==
  /\ source = "sleep"
  /\ \/ source' = "read" /\ UNCHANGED ending
     \/ CancelSeen /\ Leave("cut")
  /\ UNCHANGED <<config, cursor, emitted, held, completion, cancel, sampled,
                 workerVars, controlVars, assemblerVars, inbox, produced>>

\* The sender is dropped, then the cancellation is read.
SourceClose ==
  /\ source = "close"
  /\ source' = "finish"
  /\ sampled' = cancel
  /\ UNCHANGED <<config, cursor, emitted, held, ending, completion, cancel,
                 workerVars, controlVars, assemblerVars, inbox, produced>>

SourceFinish ==
  /\ source = "finish"
  /\ source' = "gone"
  /\ completion' = CASE completion = "failed" -> "failed"
                     [] completion # "failed" /\ sampled -> "stopped"
                     [] completion # "failed" /\ ~sampled ->
                          IF ending = "clean" THEN "completed" ELSE "failed"
  /\ UNCHANGED <<config, cursor, emitted, held, ending, cancel, sampled,
                 workerVars, controlVars, assemblerVars, inbox, produced>>

\* The abort requested by the plugin's shutdown lands at an await.
SourceAborted ==
  /\ aborting[0] /\ source \in {"send", "sleep"}
  /\ source' = "gone" /\ held' = None
  /\ UNCHANGED <<config, cursor, emitted, ending, completion, cancel, sampled,
                 workerVars, controlVars, assemblerVars, inbox, produced>>

Source ==
  \/ SourceLeave \/ SourceRow \/ SourceEnd \/ SourceSend \/ SourceRecord
  \/ SourceSleep \/ SourceClose \/ SourceFinish \/ SourceAborted

-----------------------------------------------------------------------------
(***************************************************************************)
(* The workers                                                             *)
(***************************************************************************)

\* The next message is received.
Receive(s) ==
  /\ worker[s] = "recv" /\ inbox[s] # <<>>
  /\ inbox' = [inbox EXCEPT ![s] = Tail(@)]
  /\ consumed' = [consumed EXCEPT ![s] = @ + 1]

\* Calibration announces a frame before forwarding it, DSP and features after;
\* perception is the last stage.
AnnouncesFirst(s) == s \in {Calibration, Perception}
AfterForward(s) == IF AnnouncesFirst(s) THEN "recv" ELSE "announce"

\* Mutant: a result that is forwarded is neither stored nor announced.
SucceedForwardsOnly(s, x) ==
  /\ produced' = [produced EXCEPT ![s] = Append(@, x)]
  /\ latest' = IF s < Depth THEN latest ELSE [latest EXCEPT ![s] = x]
  /\ hand' = [hand EXCEPT ![s] = IF s < Depth THEN x ELSE None]
  /\ worker' = [worker EXCEPT ![s] = IF s < Depth THEN "forward" ELSE AfterForward(s)]
  /\ UNCHANGED <<failures, announced>>

\* The result x is stored in the snapshot store, and is ready to be forwarded
\* when a next service is enabled.
Succeed(s, x) ==
  /\ produced' = [produced EXCEPT ![s] = Append(@, x)]
  /\ latest' = [latest EXCEPT ![s] = x]
  /\ announced' = IF AnnouncesFirst(s) THEN [announced EXCEPT ![s] = @ + 1] ELSE announced
  /\ hand' = [hand EXCEPT ![s] = IF s < Depth THEN x ELSE None]
  /\ worker' = [worker EXCEPT ![s] = IF s < Depth THEN "forward" ELSE AfterForward(s)]
  /\ UNCHANGED failures

\* A failure is recorded and published, and nothing is forwarded.
Fail(s) ==
  /\ failures' = [failures EXCEPT ![s] = @ + 1]
  /\ UNCHANGED <<produced, latest, announced, hand, worker>>

Calibrate ==
  /\ Calibration \in Stage
  /\ Receive(Calibration)
  /\ LET f == Head(inbox[Calibration]) IN
     IF f.calibrates THEN Succeed(Calibration, f) ELSE Fail(Calibration)
  /\ UNCHANGED <<sourceVars, controlVars, assemblerVars, state>>

\* What identifies a window in the results made of it.
Span(w) == [first |-> w[1].sequence, last |-> w[Len(w)].sequence]

\* A window may fail in process_window (sampling or kernel errors).
AssembleAndProcess ==
  /\ Dsp \in Stage
  /\ Receive(Dsp)
  /\ Assembler!Push(Head(inbox[Dsp]))
  /\ \/ outcome' = "buffered" /\ UNCHANGED <<produced, latest, announced, hand, worker, failures>>
     \/ outcome' = "window" /\ (Succeed(Dsp, Span(windows'[Len(windows')])) \/ Fail(Dsp))
     \/ outcome' \in {"rejected", "invalid"} /\ Fail(Dsp)
  /\ UNCHANGED <<sourceVars, controlVars, state>>

\* A result is derived from the one received, or that fails.
Derive(s) ==
  /\ s \in Stage
  /\ Receive(s)
  /\ Succeed(s, Head(inbox[s])) \/ Fail(s)
  /\ UNCHANGED <<sourceVars, controlVars, assemblerVars, state>>

\* extract_features
ExtractFeatures == Derive(Features)

\* observe_channel_change
ObserveChange == Derive(Perception)

\* Mutant: try_send, which drops the result when the queue is full.
ForwardTries(s) ==
  /\ worker[s] = "forward"
  /\ IF HasRoom(s + 1) THEN Enqueue(s + 1, hand[s]) ELSE UNCHANGED inbox
  /\ worker' = [worker EXCEPT ![s] = AfterForward(s)]
  /\ hand' = [hand EXCEPT ![s] = None]
  /\ UNCHANGED <<sourceVars, controlVars, assemblerVars,
                 state, consumed, failures, announced, latest, produced>>

\* tx.send awaits room; when the next receiver is gone the result is dropped
\* with a warning.
Forward(s) ==
  /\ worker[s] = "forward"
  /\ \/ HasRoom(s + 1) /\ Enqueue(s + 1, hand[s])
     \/ ReceiverGone(s + 1) /\ UNCHANGED inbox
  /\ worker' = [worker EXCEPT ![s] = AfterForward(s)]
  /\ hand' = [hand EXCEPT ![s] = None]
  /\ UNCHANGED <<sourceVars, controlVars, assemblerVars,
                 state, consumed, failures, announced, latest, produced>>

Announce(s) ==
  /\ worker[s] = "announce"
  /\ announced' = [announced EXCEPT ![s] = @ + 1]
  /\ worker' = [worker EXCEPT ![s] = "recv"]
  /\ UNCHANGED <<sourceVars, controlVars, assemblerVars,
                 hand, state, consumed, failures, latest, inbox, produced>>

\* Mutant: the worker leaves when its sender is gone, whatever is queued.
ObserveEofEarly(s) ==
  /\ worker[s] = "recv" /\ SenderGone(s)
  /\ worker' = [worker EXCEPT ![s] = "drained"]
  /\ UNCHANGED <<sourceVars, controlVars, assemblerVars,
                 hand, state, consumed, failures, announced, latest, inbox, produced>>

\* recv returns None: the queue is empty and its sender dropped.
ObserveEof(s) ==
  /\ worker[s] = "recv" /\ inbox[s] = <<>> /\ SenderGone(s)
  /\ worker' = [worker EXCEPT ![s] = "drained"]
  /\ UNCHANGED <<sourceVars, controlVars, assemblerVars,
                 hand, state, consumed, failures, announced, latest, inbox, produced>>

\* The worker reports its state; as the task ends, its own channels close.
Finish(s) ==
  /\ worker[s] = "drained"
  /\ state' = [state EXCEPT ![s] =
       IF s = Calibration THEN "stopped" ELSE IF consumed[s] > 0 THEN "completed" ELSE "idle"]
  /\ worker' = [worker EXCEPT ![s] = "gone"]
  /\ UNCHANGED <<sourceVars, controlVars, assemblerVars,
                 hand, consumed, failures, announced, latest, inbox, produced>>

\* A requested abort lands at an await: the task and its channels are dropped.
Aborted(s) ==
  /\ aborting[s] /\ worker[s] \in {"recv", "forward"}
  /\ worker' = [worker EXCEPT ![s] = "gone"]
  /\ hand' = [hand EXCEPT ![s] = None]
  /\ inbox' = [inbox EXCEPT ![s] = <<>>]
  /\ UNCHANGED <<sourceVars, controlVars, assemblerVars,
                 state, consumed, failures, announced, latest, produced>>

Process(s) ==
  \/ s = Calibration /\ Calibrate
  \/ s = Dsp /\ AssembleAndProcess
  \/ s = Features /\ ExtractFeatures
  \/ s = Perception /\ ObserveChange

Worker(s) ==
  Process(s) \/ Forward(s) \/ Announce(s) \/ ObserveEof(s) \/ Finish(s) \/ Aborted(s)

-----------------------------------------------------------------------------
(***************************************************************************)
(* Runtime::shutdown                                                       *)
(***************************************************************************)

\* Mutant: the plugin is stopped without a word about its completion.
StopPluginSilently ==
  /\ control = "running"
  /\ control' = "stopping"
  /\ cancel' = TRUE
  /\ aborting' = [aborting EXCEPT ![0] = TRUE]
  /\ UNCHANGED <<config, cursor, emitted, source, held, ending, completion, sampled, toStop,
                 subscriber, workerVars, assemblerVars, inbox, produced>>

\* The plugin is stopped first: cancelled, aborted, and reported as stopped.
StopPlugin ==
  /\ control = "running"
  /\ control' = "stopping"
  /\ cancel' = TRUE
  /\ aborting' = [aborting EXCEPT ![0] = TRUE]
  /\ completion' = IF completion \in {"failed", "completed"} THEN completion ELSE "stopped"
  /\ UNCHANGED <<config, cursor, emitted, source, held, ending, sampled, toStop, subscriber,
                 workerVars, assemblerVars, inbox, produced>>

\* The next service is aborted and reported as stopped.
StopService ==
  /\ control = "stopping" /\ toStop # <<>>
  /\ aborting' = [aborting EXCEPT ![Head(toStop)] = TRUE]
  /\ state' = [state EXCEPT ![Head(toStop)] = "stopped"]
  /\ toStop' = Tail(toStop)
  /\ UNCHANGED <<sourceVars, assemblerVars, worker, hand, consumed, failures, announced,
                 latest, control, subscriber, inbox, produced>>

\* Last, the event consumer is aborted.
StopConsumer ==
  /\ control = "stopping" /\ toStop = <<>>
  /\ control' = "stopped"
  /\ subscriber' = "aborting"
  /\ UNCHANGED <<sourceVars, workerVars, assemblerVars, aborting, toStop, inbox, produced>>

ConsumerGone ==
  /\ subscriber = "aborting"
  /\ subscriber' = "gone"
  /\ UNCHANGED <<sourceVars, workerVars, assemblerVars, aborting, toStop, control, inbox, produced>>

Shutdown == StopService \/ StopConsumer \/ ConsumerGone

-----------------------------------------------------------------------------

AllGone == source = "gone" /\ \A s \in Stage : worker[s] = "gone"

\* Nothing is left to run.
Terminated == AllGone /\ control = "stopped" /\ subscriber = "gone" /\ UNCHANGED vars

Data == Source \/ \E s \in Stage : Worker(s)

Next == Data \/ StopPlugin \/ Shutdown \/ Terminated

\* The runtime schedules every task that can run and the shutdown runs to its
\* end once begun; nobody has to begin one.
Fairness ==
  /\ WF_vars(Source)
  /\ \A s \in 1..4 : WF_vars(s \in Stage /\ Worker(s))
  /\ WF_vars(Shutdown)

Spec == Init /\ [][Next]_vars /\ Fairness

-----------------------------------------------------------------------------
(***************************************************************************)
(* Properties                                                              *)
(***************************************************************************)

SourceTypes ==
  /\ config \in Configs /\ cursor \in Nat /\ emitted \in Nat
  /\ source \in {"read", "send", "record", "sleep", "close", "finish", "gone"}
  /\ ending \in {"none", "clean", "cut"}
  /\ completion \in {"active", "completed", "stopped", "failed"}
  /\ cancel \in BOOLEAN /\ sampled \in BOOLEAN

WorkerTypes ==
  /\ worker \in [Stage -> {"recv", "forward", "announce", "drained", "gone"}]
  /\ state \in [Stage -> {"running", "completed", "idle", "stopped"}]
  /\ consumed \in [Stage -> Nat] /\ failures \in [Stage -> Nat] /\ announced \in [Stage -> Nat]

ControlTypes ==
  /\ aborting \in [Task -> BOOLEAN] /\ toStop \in Seq(Stage)
  /\ control \in {"running", "stopping", "stopped"}
  /\ subscriber \in {"live", "aborting", "gone"}

\* A queue never holds more than its capacity, whoever is slow.
QueuesBounded == DOMAIN inbox = Stage /\ \A s \in Stage : Len(inbox[s]) \in 0..Capacity[s]

\* Every variable that the control depends on has its type.
TypeOK == SourceTypes /\ WorkerTypes /\ ControlTypes /\ QueuesBounded

\* What the task before s is handing over and s has not got.
InTransit(s) ==
  IF s = Calibration THEN IF source = "send" THEN <<held>> ELSE <<>>
  ELSE IF worker[s - 1] = "forward" THEN <<hand[s - 1]>> ELSE <<>>

\* Frames are never silently dropped (calibration_service.rs:6): what a stage
\* has produced is, in order, what the next one has received, what its queue
\* holds and what is being handed over; nothing is lost, duplicated or
\* overtaken, whatever is full, until a shutdown begins.
NothingLost ==
  control = "running" =>
    \A s \in Stage :
      produced[s - 1] = SubSeq(produced[s - 1], 1, consumed[s]) \o inbox[s] \o InTransit(s)

\* A worker that ended by itself has received everything its upstream produced.
EndsDrained ==
  control = "running" =>
    \A s \in Stage : worker[s] = "gone" => consumed[s] = Len(produced[s - 1])

\* The sequence of the newest frame a result was made of.
NewestOf(s, x) == IF s = Calibration THEN x.sequence ELSE x.last

\* The snapshot store never shows a result made of frames that the store has
\* not shown in the stage before: each worker stores before it forwards.  (Each
\* pass of a looping replay numbers its frames anew, so newest is not said there.)
\* And what DSP works on has been announced as calibrated.
SnapshotsAreCausal ==
  /\ ~config.loop => \A s \in Stage : s > Calibration /\ latest[s] # None =>
       /\ latest[s - 1] # None
       /\ NewestOf(s, latest[s]) <= NewestOf(s - 1, latest[s - 1])
  /\ Dsp \in Stage => consumed[Dsp] <= announced[Calibration]

\* The frames of a fixture.
FramesOf(c) == {c.fixture[i] : i \in 1..Len(c.fixture)} \ {Malformed}

\* Each fixture was recorded by one receiver: its frames are finite and of one
\* identity, and none was captured before one of a lower sequence.
OneRecording ==
  \A c \in Configs : \A f, g \in FramesOf(c) :
    /\ f.finite /\ f.identity = g.identity
    /\ f.sequence <= g.sequence => g.capture >= f.capture

\* A window starts before the one before it ends.
Overlapping == HopSize < WindowSize

\* A frame that the assembler rejects ends the DSP stage for good: nobody
\* resets the assembler, so the gap to later frames only grows.  This is so
\* for one pass over a fixture and for looping playback, whose later passes
\* start below the last accepted sequence; the fixtures are recordings
\* (OneRecording), and windows must overlap.
RejectionIsPermanent ==
  [][counters.rejected > 0 => counters'.accepted = counters.accepted]_vars

\* A worker reports its input as completed only when the producer ended its
\* fixture cleanly (dsp/src/stats.rs:15, "Finite input completed cleanly").
CompletedIsClean ==
  \A s \in Stage : state[s] = "completed" => ending = "clean"

\* A replay is reported as failed only when its fixture is at fault.
FailsOnlyOnBadInput ==
  completion = "failed" => \E i \in 1..Len(fixture) : fixture[i] = Malformed

\* Once a shutdown is over and its tasks are gone, nothing is reported as active
\* or running any more, whichever of the aborted tasks reported last.
NothingShownRunning ==
  control = "stopped" /\ AllGone =>
    completion # "active" /\ \A s \in Stage : state[s] # "running"

\* A replay ends by itself: it is played once, or produces up to a maximum.
Finite == ~config.loop \/ (config.maximum > 0 /\ fixture # <<>>)

\* Everyone waits on someone only for a while: unless a shutdown begins, a finite
\* replay ends, and every worker drains its queue and ends.
Drains == Finite ~> (control # "running" \/ AllGone)

\* A shutdown that begins ends, and no task outlives it, whatever the tasks
\* were waiting for.
ShutdownStopsTasks == (control # "running") ~> (control = "stopped" /\ AllGone)
=============================================================================
