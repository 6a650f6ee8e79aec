-------------------------- MODULE RuntimeLifecycle --------------------------
(***************************************************************************)
(* The application runtime of core/runtime: Runtime::start with its error  *)
(* paths, the event consumer, the health that REST handlers refresh, and   *)
(* Runtime::shutdown.  One sensor source is enabled; a CSI source has the  *)
(* services behind it.  The lifecycle of the plugin is that of             *)
(* PluginRuntime (plugin-runtime/src/runtime.rs), the tracked one is what  *)
(* the metrics remember of it.                                             *)
(*                                                                         *)
(* start runs while the tasks it has spawned run, so it is split at every  *)
(* task and every state they share.  refresh_health and shutdown hold the  *)
(* runtime's write lock; how the aborts of a shutdown interleave with the  *)
(* tasks is in CsiPipeline, here shutdown is one step.                     *)
(***************************************************************************)
EXTENDS Naturals, Sequences

CONSTANTS
  Configs,       \* the configurations that may be loaded
  BusCapacity    \* events that the bus retains for a slow receiver

Calibration == 1
Dsp == 2
Features == 3
Perception == 4

\* A configuration: the enabled source, the number of services enabled, from
\* calibration on, whether the DSP backend is the native one, whose creation may
\* fail, and (a bound) the frames that the source has to offer.
Config == [source : {"csi", "synthetic"}, depth : 0..4, native : BOOLEAN, frames : Nat]

\* AppConfig::validate
Validates == Configs \subseteq Config /\ BusCapacity \in Nat \ {0}

ASSUME Configured == Validates

VARIABLES
  config,       \* the configuration that was loaded
  health,       \* RuntimeHealth
  call,         \* where start is; "idle" before it, "ok" or "err" after it
  toStart,      \* services that start has yet to start
  asked,        \* whether a shutdown has been called
  lifecycle,    \* the plugin's state in the plugin runtime, or "none"
  tracked,      \* the plugin's state in the metrics, or "none"
  late,         \* first_frame_timeout has passed since tracked was set
  hasFrame,     \* has_frame
  consumer,     \* the event consumer: "none", "live", "aborting" or "gone"
  consumerFlag, \* consumer_running
  pending,      \* events published and not yet consumed
  producer,     \* the source's task: "none", "active", "failing" or "gone"
  aborting,     \* whether the producer has been aborted
  completion,   \* CsiReplayCompletion
  offered,      \* frames produced
  worker,       \* the task of each service: "none", "alive", "aborting" or "gone"
  state,        \* the worker state in the stats of each service
  waiting,      \* inputs queued for each service
  got,          \* whether each service has received an input
  counts        \* results, failures and consecutive failures of each service

controlVars == <<config, health, call, toStart, asked>>
pluginVars == <<lifecycle, tracked, late>>
busVars == <<hasFrame, consumer, consumerFlag, pending>>
sourceVars == <<producer, aborting, completion, offered>>
serviceVars == <<worker, state, waiting, got, counts>>
vars == <<controlVars, pluginVars, busVars, sourceVars, serviceVars>>

Source == config.source

Service == 1..config.depth

\* Runtime::boot
Init ==
  /\ config \in Configs
  /\ health = "starting" /\ call = "idle" /\ toStart = <<>> /\ asked = FALSE
  /\ lifecycle = "none" /\ tracked = "none" /\ late = FALSE
  /\ hasFrame = FALSE /\ consumer = "none" /\ consumerFlag = FALSE /\ pending = <<>>
  /\ producer = "none" /\ aborting = FALSE /\ completion = "idle" /\ offered = 0
  /\ worker = [s \in Service |-> "none"]
  /\ state = [s \in Service |-> "disabled"]
  /\ waiting = [s \in Service |-> 0]
  /\ got = [s \in Service |-> FALSE]
  /\ counts = [s \in Service |-> [ok |-> 0, bad |-> 0, streak |-> 0]]

-----------------------------------------------------------------------------
(***************************************************************************)
(* The event bus and its consumer                                          *)
(***************************************************************************)

\* The oldest event is overwritten when the consumer lags behind.  Events that
\* the metrics do not count are "other".
Published(e) ==
  IF consumer = "gone" THEN pending
  ELSE Append(IF Len(pending) = BusCapacity THEN Tail(pending) ELSE pending, e)

\* The consumer records a frame, or that the source has failed.
Consume ==
  /\ consumer \in {"live", "aborting"} /\ pending # <<>>
  /\ pending' = Tail(pending)
  /\ hasFrame' = (hasFrame \/ Head(pending) = "frame")
  /\ tracked' = IF Head(pending) = "failed" THEN "failed" ELSE tracked
  /\ UNCHANGED <<controlVars, lifecycle, late, consumer, consumerFlag, sourceVars, serviceVars>>

ConsumerAborted ==
  /\ consumer = "aborting"
  /\ consumer' = "gone" /\ pending' = <<>>
  /\ UNCHANGED <<controlVars, pluginVars, hasFrame, consumerFlag, sourceVars, serviceVars>>

-----------------------------------------------------------------------------
(***************************************************************************)
(* The source and the services                                             *)
(***************************************************************************)

\* A frame is published and handed to the calibration service.
Produce ==
  /\ producer = "active" /\ offered < config.frames /\ consumer # "gone"
  /\ offered' = offered + 1
  /\ pending' = Published("frame")
  /\ waiting' = IF Source = "csi" /\ config.depth > 0
                THEN [waiting EXCEPT ![Calibration] = @ + 1] ELSE waiting
  /\ UNCHANGED <<controlVars, pluginVars, hasFrame, consumer, consumerFlag,
                 producer, aborting, completion, worker, state, got, counts>>

\* A malformed row, or nobody subscribes to the bus: the failure is recorded and
\* published, and the task goes on to its end.
ProducerFails ==
  /\ producer = "active"
  /\ Source = "csi" \/ consumer = "gone"
  /\ producer' = "failing"
  /\ completion' = IF Source = "csi" THEN "failed" ELSE completion
  /\ pending' = Published("failed")
  /\ UNCHANGED <<controlVars, pluginVars, hasFrame, consumer, consumerFlag,
                 aborting, offered, serviceVars>>

\* Mutant: a failed replay is taken for a finished one.
ProducerEndsCleanly ==
  /\ producer \in {"active", "failing"}
  /\ producer' = "gone"
  /\ completion' = CASE Source = "synthetic" -> completion
                     [] Source = "csi" /\ aborting -> "stopped"
                     [] Source = "csi" /\ ~aborting -> "completed"
  /\ UNCHANGED <<controlVars, pluginVars, busVars, aborting, offered, serviceVars>>

\* The task ends: after a failure, when cancelled, or with its input.
ProducerEnds ==
  /\ producer \in {"active", "failing"}
  /\ producer' = "gone"
  /\ completion' = CASE Source = "synthetic" \/ producer = "failing" -> completion
                     [] Source = "csi" /\ producer = "active" /\ aborting -> "stopped"
                     [] Source = "csi" /\ producer = "active" /\ ~aborting -> "completed"
  /\ UNCHANGED <<controlVars, pluginVars, busVars, aborting, offered, serviceVars>>

ProducerAborted ==
  /\ aborting /\ producer = "active"
  /\ producer' = "gone"
  /\ UNCHANGED <<controlVars, pluginVars, busVars, aborting, completion, offered, serviceVars>>

Alive(s) == worker[s] \in {"alive", "aborting"}

\* The counters that health reads: those of calibration and of DSP, which alone
\* counts consecutive failures.
CountOf(s, count, ok) ==
  CASE s > Dsp -> count
    [] s = Calibration /\ ok -> [count EXCEPT !.ok = @ + 1]
    [] s = Calibration /\ ~ok -> [count EXCEPT !.bad = @ + 1]
    [] s = Dsp /\ ok -> [ok |-> count.ok + 1, bad |-> count.bad, streak |-> 0]
    [] s = Dsp /\ ~ok -> [ok |-> count.ok, bad |-> count.bad + 1, streak |-> count.streak + 1]

Counted(s, ok) == [counts EXCEPT ![s] = CountOf(s, @, ok)]

\* A service receives an input, which gives a result that is forwarded, a
\* failure, or (a window not yet complete) neither.
Process(s) ==
  /\ Alive(s) /\ waiting[s] > 0
  /\ got' = [got EXCEPT ![s] = TRUE]
  /\ \/ /\ counts' = Counted(s, TRUE)
        /\ waiting' = [i \in Service |->
             IF i = s THEN waiting[i] - 1
             ELSE IF i = s + 1 /\ Alive(i) THEN waiting[i] + 1 ELSE waiting[i]]
        /\ pending' = Published("other")
     \/ /\ counts' = Counted(s, FALSE)
        /\ waiting' = [waiting EXCEPT ![s] = @ - 1]
        /\ pending' = Published("other")
     \/ /\ s = Dsp
        /\ waiting' = [waiting EXCEPT ![s] = @ - 1]
        /\ UNCHANGED <<counts, pending>>
  /\ UNCHANGED <<controlVars, pluginVars, hasFrame, consumer, consumerFlag, sourceVars,
                 worker, state>>

\* The input ends when the task that holds its sender has ended, or when start
\* gives up before that task exists.  A plugin that failed to initialize still
\* holds the sender.
InputEnded(s) ==
  /\ waiting[s] = 0
  /\ IF s = Calibration THEN producer = "gone"
     ELSE worker[s - 1] = "gone" \/ (worker[s - 1] = "none" /\ call = "err")

ServiceEnds(s) ==
  /\ Alive(s) /\ InputEnded(s)
  /\ worker' = [worker EXCEPT ![s] = "gone"]
  /\ state' = [state EXCEPT ![s] = IF s = Calibration THEN "stopped"
                                   ELSE IF got[s] THEN "completed" ELSE "idle"]
  /\ pending' = Published("other")
  /\ UNCHANGED <<controlVars, pluginVars, hasFrame, consumer, consumerFlag, sourceVars,
                 waiting, got, counts>>

ServiceAborted(s) ==
  /\ worker[s] = "aborting"
  /\ worker' = [worker EXCEPT ![s] = "gone"]
  /\ waiting' = [waiting EXCEPT ![s] = 0]
  /\ UNCHANGED <<controlVars, pluginVars, busVars, sourceVars, state, got, counts>>

Tasks ==
  \/ Consume \/ ConsumerAborted
  \/ Produce \/ ProducerFails \/ ProducerEnds \/ ProducerAborted
  \/ \E s \in Service : Process(s) \/ ServiceEnds(s) \/ ServiceAborted(s)

-----------------------------------------------------------------------------
(***************************************************************************)
(* Health                                                                  *)
(***************************************************************************)

\* CalibrationStats::evaluate_health; nobody calls mark_unexpected_exit.
CalibrationDegraded ==
  Calibration \in Service /\ counts[Calibration].bad >= 3
                          /\ counts[Calibration].bad > counts[Calibration].ok

\* evaluate_dsp_health
DspDegraded ==
  /\ Dsp \in Service
  /\ state[Dsp] \notin {"completed", "idle", "stopped"}
  /\ counts[Dsp].streak >= 3 /\ counts[Dsp].bad > counts[Dsp].ok

\* Mutant: a source that is late stays late.
SourceHealthLate ==
  IF tracked = "failed" THEN "failed"
  ELSE IF tracked = "running" /\ late THEN "degraded" ELSE "running"

\* evaluate_source_health
SourceHealth ==
  IF tracked = "failed" THEN "failed"
  ELSE IF tracked = "running" /\ ~hasFrame /\ late THEN "degraded" ELSE "running"

\* Mutant: only the tracked lifecycle tells that a replay has failed.
EvaluatedByLifecycle ==
  IF ~consumerFlag THEN "failed"
  ELSE IF CalibrationDegraded \/ DspDegraded THEN "degraded"
  ELSE SourceHealth

\* RuntimeMetrics::evaluate_health: a degraded service masks a failed source.
Evaluated ==
  IF ~consumerFlag THEN "failed"
  ELSE IF CalibrationDegraded \/ DspDegraded THEN "degraded"
  ELSE IF Source = "csi" /\ completion = "failed" THEN "failed"
  ELSE IF Source = "csi" /\ completion \in {"completed", "stopped"} THEN "running"
  ELSE SourceHealth

\* refresh_health of a runtime in health h: a failure is not forgotten.
Refreshed(h) == IF Evaluated = "running" /\ h = "failed" THEN "failed" ELSE Evaluated

\* The handlers of GET /health and /runtime, which serve once start is over.
Refresh ==
  /\ call = "ok" /\ health \in {"running", "degraded", "failed"}
  /\ health' = Refreshed(health)
  /\ UNCHANGED <<config, call, toStart, asked, pluginVars, busVars, sourceVars, serviceVars>>

FirstFrameTimeout ==
  /\ tracked = "running" /\ ~late
  /\ late' = TRUE
  /\ UNCHANGED <<controlVars, lifecycle, tracked, busVars, sourceVars, serviceVars>>

-----------------------------------------------------------------------------
(***************************************************************************)
(* Runtime::start                                                          *)
(***************************************************************************)

\* Perception, features, DSP, calibration.
StartOrder == [i \in Service |-> config.depth + 1 - i]

\* start is entered: the event consumer is spawned, the stats are configured.
StartBegin ==
  /\ call = "idle" /\ health = "starting"
  /\ call' = "services"
  /\ toStart' = IF Source = "csi" THEN StartOrder ELSE <<>>
  /\ consumer' = "live" /\ consumerFlag' = TRUE
  /\ state' = [s \in Service |-> "idle"]
  /\ UNCHANGED <<config, health, asked, pluginVars, hasFrame, pending, sourceVars,
                 worker, waiting, got, counts>>

\* The next service is started, the last one first.
StartService ==
  /\ call = "services" /\ toStart # <<>>
  /\ worker' = [worker EXCEPT ![Head(toStart)] = "alive"]
  /\ state' = [state EXCEPT ![Head(toStart)] = "running"]
  /\ toStart' = Tail(toStart)
  /\ UNCHANGED <<config, health, call, asked, pluginVars, busVars, sourceVars, waiting, got, counts>>

\* The native backend cannot be created: start returns, health stays Starting.
BackendFails ==
  /\ call = "services" /\ toStart # <<>> /\ Head(toStart) = Dsp /\ config.native
  /\ call' = "err" /\ toStart' = <<>>
  /\ UNCHANGED <<config, health, asked, pluginVars, busVars, sourceVars, serviceVars>>

RegisterPlugin ==
  /\ call = "services" /\ toStart = <<>>
  /\ call' = "plugin"
  /\ lifecycle' = "registered" /\ tracked' = "registered"
  /\ UNCHANGED <<config, health, toStart, asked, late, busVars, sourceVars, serviceVars>>

\* PluginRuntime::start: the plugin initializes and spawns its task.
StartPlugin ==
  /\ call = "plugin"
  /\ call' = "track"
  /\ lifecycle' = "running"
  /\ producer' = "active"
  /\ completion' = IF Source = "csi" THEN "active" ELSE completion
  /\ UNCHANGED <<config, health, toStart, asked, tracked, late, busVars, aborting, offered, serviceVars>>

\* Mutant: the services are left alone.
InitializeFailsOnly ==
  /\ call = "plugin" /\ Source = "csi"
  /\ call' = "err" /\ health' = "failed"
  /\ lifecycle' = "failed" /\ tracked' = "failed"
  /\ completion' = "failed"
  /\ UNCHANGED <<config, toStart, asked, late, busVars, producer, aborting, offered, serviceVars>>

\* The fixture cannot be opened: the services are shut down, their worker states
\* stay as they are, and start returns.
InitializeFails ==
  /\ call = "plugin" /\ Source = "csi"
  /\ call' = "err" /\ health' = "failed"
  /\ lifecycle' = "failed" /\ tracked' = "failed"
  /\ completion' = "failed"
  /\ worker' = [s \in Service |-> IF worker[s] = "alive" THEN "aborting" ELSE worker[s]]
  /\ UNCHANGED <<config, toStart, asked, late, busVars, producer, aborting, offered,
                 state, waiting, got, counts>>

\* The metrics follow the plugin, whatever they heard from its task meanwhile.
TrackRunning ==
  /\ call = "track"
  /\ call' = "enter"
  /\ tracked' = "running" /\ late' = FALSE
  /\ UNCHANGED <<config, health, toStart, asked, lifecycle, busVars, sourceVars, serviceVars>>

StartReturns ==
  /\ call = "enter"
  /\ call' = "ok"
  /\ health' = Refreshed("running")
  /\ UNCHANGED <<config, toStart, asked, pluginVars, busVars, sourceVars, serviceVars>>

StartContinues ==
  \/ StartService \/ BackendFails \/ RegisterPlugin
  \/ StartPlugin \/ InitializeFails \/ TrackRunning \/ StartReturns

-----------------------------------------------------------------------------
(***************************************************************************)
(* Runtime::shutdown                                                       *)
(***************************************************************************)

\* Mutant: only the services that still run are reported as stopped.
StoppedState(s) == IF worker[s] = "alive" /\ waiting[s] = 0 THEN "stopped" ELSE state[s]

\* A service that was started is reported as stopped.
StateOnShutdown(s) == IF worker[s] # "none" THEN "stopped" ELSE state[s]

\* The plugin, the services and the event consumer are stopped.
Shutdown ==
  /\ call \in {"idle", "ok", "err"} /\ health \notin {"stopped", "failed"}
  /\ health' = "stopped"
  /\ asked' = TRUE
  /\ IF lifecycle = "running"
     THEN /\ lifecycle' = "stopped" /\ tracked' = "stopped"
          /\ aborting' = TRUE
          /\ completion' = IF Source = "csi" /\ completion \notin {"failed", "completed"}
                           THEN "stopped" ELSE completion
     ELSE UNCHANGED <<lifecycle, tracked, aborting, completion>>
  /\ worker' = [s \in Service |-> IF worker[s] = "alive" THEN "aborting" ELSE worker[s]]
  /\ state' = [s \in Service |-> StateOnShutdown(s)]
  /\ consumer' = IF consumer = "live" THEN "aborting" ELSE consumer
  /\ consumerFlag' = FALSE
  /\ UNCHANGED <<config, call, toStart, late, hasFrame, pending, producer, offered, waiting, got, counts>>

\* A runtime that has failed refuses.
ShutdownRefused ==
  /\ call \in {"ok", "err"} /\ health = "failed"
  /\ asked' = TRUE
  /\ UNCHANGED <<config, health, call, toStart, pluginVars, busVars, sourceVars, serviceVars>>

-----------------------------------------------------------------------------

\* Nothing is left to run.
Terminated ==
  /\ call \in {"ok", "err", "idle"} /\ health \in {"stopped", "failed"}
  /\ UNCHANGED vars

Next ==
  \/ Tasks \/ StartBegin \/ StartContinues
  \/ Refresh \/ FirstFrameTimeout \/ Shutdown \/ ShutdownRefused \/ Terminated

\* Tasks that can run do, start runs to its end, and the dashboard polls the
\* health as long as it is open.
Fairness ==
  /\ WF_vars(Tasks)
  /\ WF_vars(StartContinues)
  /\ WF_vars(Refresh)

Spec == Init /\ [][Next]_vars /\ Fairness

-----------------------------------------------------------------------------
(***************************************************************************)
(* Properties                                                              *)
(***************************************************************************)

ControlTypes ==
  /\ config \in Configs
  /\ health \in {"starting", "running", "degraded", "stopped", "failed"}
  /\ call \in {"idle", "services", "plugin", "track", "enter", "ok", "err"}
  /\ toStart \in Seq(Service) /\ asked \in BOOLEAN

PluginTypes ==
  /\ lifecycle \in {"none", "registered", "running", "stopped", "failed"}
  /\ tracked \in {"none", "registered", "running", "stopped", "failed"}
  /\ late \in BOOLEAN

BusTypes ==
  /\ hasFrame \in BOOLEAN /\ consumerFlag \in BOOLEAN
  /\ consumer \in {"none", "live", "aborting", "gone"}
  /\ pending \in Seq({"frame", "failed", "other"}) /\ Len(pending) <= BusCapacity

SourceTypes ==
  /\ producer \in {"none", "active", "failing", "gone"} /\ aborting \in BOOLEAN
  /\ completion \in {"idle", "active", "completed", "stopped", "failed"}
  /\ offered \in Nat

ServiceTypes ==
  /\ worker \in [Service -> {"none", "alive", "aborting", "gone"}]
  /\ state \in [Service -> {"disabled", "idle", "running", "completed", "stopped"}]
  /\ waiting \in [Service -> Nat] /\ got \in [Service -> BOOLEAN]
  /\ counts \in [Service -> [ok : Nat, bad : Nat, streak : Nat]]

\* Every variable has its type; the bus retains at most BusCapacity events, and
\* no queue has been taken from more often than filled.
TypeOK == ControlTypes /\ PluginTypes /\ BusTypes /\ SourceTypes /\ ServiceTypes

\* Once the runtime is stopped the metrics show nothing that runs, whatever the
\* aborted tasks and the events still queued write afterwards.
StoppedShowsNothingRunning ==
  health = "stopped" =>
    /\ ~consumerFlag /\ tracked # "running"
    /\ \A s \in Service : state[s] # "running"

\* After a start that failed in the plugin, shutdown is refused, so start itself
\* has to end every service that it had started.
FailedStartLeavesNothing ==
  (call = "err" /\ health = "failed") ~> (\A s \in Service : ~Alive(s))

\* A replay that fails is never shown as running for good: polling the health
\* finds out, even when the event of the failure was overwritten on the bus or
\* when start marked the plugin as running after the failure was consumed.
FailureReported == completion = "failed" ~> [](health \notin {"starting", "running"})

\* A runtime that has failed is never running again, although calibration or
\* DSP may mask its failure as a degradation and then recover.
FailureSticks == [](health = "failed" => [](health # "running"))

\* A source whose first frame was late is healthy again when frames come.
FirstFrameClearsDegraded ==
  (Source = "synthetic" /\ offered > 0) ~> [](health # "degraded")

\* Runtime::shutdown "stops active plugins": violated, it refuses a runtime
\* whose health is failed, and leaves the plugin and its services as they are.
ShutdownStopsPlugin == asked => lifecycle # "running"
=============================================================================
