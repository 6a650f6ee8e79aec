----------------------- MODULE RuntimeLifecycle_proofs ----------------------
(***************************************************************************)
(* For every configuration and capacity of the bus: a stopped runtime      *)
(* shows nothing as running.  The invariant adds what the shutdown relies  *)
(* on: a worker state is Running only after the worker was spawned, so     *)
(* that the shutdown resets it; the metrics show the plugin as running     *)
(* only while the plugin runtime does, so that the shutdown finds it; and  *)
(* in a stopped runtime no start is under way and no plugin is running.    *)
(*                                                                         *)
(* The type invariant is inductive by itself: one lemma for each of the    *)
(* three groups of actions, one step for each group of variables that an   *)
(* action writes.                                                          *)
(***************************************************************************)
EXTENDS RuntimeView, SequenceTheorems, TLAPS

LifecycleTypes ==
  /\ worker \in [Service -> {"none", "alive", "aborting", "gone"}]
  /\ state \in [Service -> {"disabled", "idle", "running", "completed", "stopped"}]

RunningWasSpawned == \A s \in Service : state[s] = "running" => worker[s] # "none"

TrackedIsActive ==
  /\ tracked = "running" => lifecycle = "running"
  /\ call = "track" => lifecycle = "running"

StoppedIsOver ==
  health = "stopped" => call \in {"idle", "ok", "err"} /\ lifecycle # "running"

StopInv ==
  /\ LifecycleTypes
  /\ RunningWasSpawned
  /\ TrackedIsActive
  /\ StoppedIsOver
  /\ StoppedShowsNothingRunning

LEMMA StopInvInit == Init => StopInv
BY DEF Init, StopInv, LifecycleTypes, RunningWasSpawned, TrackedIsActive, StoppedIsOver,
       StoppedShowsNothingRunning

\* The tasks never set a worker state to Running, nor the tracked lifecycle.
LEMMA StopInvTasks == StopInv /\ Tasks => StopInv'
<1> SUFFICES ASSUME StopInv, Tasks PROVE StopInv'
    OBVIOUS
<1> USE DEF Service, StopInv, LifecycleTypes, RunningWasSpawned, TrackedIsActive, StoppedIsOver,
            StoppedShowsNothingRunning, controlVars, pluginVars, busVars, sourceVars, serviceVars
<1>1. CASE Consume
      BY <1>1 DEF Consume
<1>2. CASE ConsumerAborted
      BY <1>2 DEF ConsumerAborted
<1>3. CASE Produce
      BY <1>3 DEF Produce
<1>4. CASE ProducerFails
      BY <1>4 DEF ProducerFails
<1>5. CASE ProducerEnds
      BY <1>5 DEF ProducerEnds
<1>6. CASE ProducerAborted
      BY <1>6 DEF ProducerAborted
<1>7. ASSUME NEW s \in Service, Process(s) PROVE StopInv'
      BY <1>7 DEF Process
<1>8. ASSUME NEW s \in Service, ServiceEnds(s) PROVE StopInv'
  <2>1. LifecycleTypes'
        BY <1>8 DEF ServiceEnds
  <2>2. \A i \in Service : state'[i] = "running" => state[i] = "running" /\ i # s
        BY <1>8 DEF ServiceEnds
  <2>3. \A i \in Service : i # s => worker'[i] = worker[i]
        BY <1>8 DEF ServiceEnds
  <2>4. UNCHANGED <<config, health, call, lifecycle, tracked, consumerFlag>>
        BY <1>8 DEF ServiceEnds
  <2> QED BY <2>1, <2>2, <2>3, <2>4
<1>9. ASSUME NEW s \in Service, ServiceAborted(s) PROVE StopInv'
      BY <1>9 DEF ServiceAborted
<1> QED BY <1>1, <1>2, <1>3, <1>4, <1>5, <1>6, <1>7, <1>8, <1>9 DEF Tasks

\* Start spawns a worker together with its state, and tracks the plugin as
\* running only after the plugin runtime has started it.
LEMMA StopInvStart == StopInv /\ (StartBegin \/ StartContinues) => StopInv'
<1> SUFFICES ASSUME StopInv, StartBegin \/ StartContinues PROVE StopInv'
    OBVIOUS
<1> USE DEF Service, StopInv, LifecycleTypes, RunningWasSpawned, TrackedIsActive, StoppedIsOver,
            StoppedShowsNothingRunning, controlVars, pluginVars, busVars, sourceVars, serviceVars
<1>1. CASE StartBegin
      BY <1>1 DEF StartBegin
<1>2. CASE StartService
      BY <1>2 DEF StartService
<1>3. CASE BackendFails
      BY <1>3 DEF BackendFails
<1>4. CASE RegisterPlugin
      BY <1>4 DEF RegisterPlugin
<1>5. CASE StartPlugin
      BY <1>5 DEF StartPlugin
<1>6. CASE InitializeFails
      BY <1>6 DEF InitializeFails
<1>7. CASE TrackRunning
      BY <1>7 DEF TrackRunning
<1>8. CASE StartReturns
      BY <1>8 DEF StartReturns, Refreshed, Evaluated, SourceHealth
<1> QED BY <1>1, <1>2, <1>3, <1>4, <1>5, <1>6, <1>7, <1>8 DEF StartContinues

\* The shutdown resets every state that may be Running, and the refresh of the
\* health leaves a stopped runtime alone.
LEMMA StopInvControl ==
  StopInv /\ (Refresh \/ FirstFrameTimeout \/ Shutdown \/ ShutdownRefused \/ Terminated) => StopInv'
<1> SUFFICES ASSUME StopInv,
                    Refresh \/ FirstFrameTimeout \/ Shutdown \/ ShutdownRefused \/ Terminated
             PROVE  StopInv'
    OBVIOUS
<1> USE DEF Service, StopInv, LifecycleTypes, RunningWasSpawned, TrackedIsActive, StoppedIsOver,
            StoppedShowsNothingRunning, controlVars, pluginVars, busVars, sourceVars, serviceVars
<1>1. CASE Refresh
      BY <1>1 DEF Refresh, Refreshed, Evaluated, SourceHealth
<1>2. CASE FirstFrameTimeout
      BY <1>2 DEF FirstFrameTimeout
<1>3. CASE Shutdown
  <2>1. LifecycleTypes'
        BY <1>3 DEF Shutdown, StateOnShutdown
  <2>2. \A s \in Service : state'[s] # "running"
        BY <1>3 DEF Shutdown, StateOnShutdown
  <2>3. tracked' # "running" /\ lifecycle' # "running" /\ ~consumerFlag'
        BY <1>3 DEF Shutdown
  <2>4. call' \in {"idle", "ok", "err"} /\ config' = config
        BY <1>3 DEF Shutdown
  <2> QED BY <2>1, <2>2, <2>3, <2>4
<1>4. CASE ShutdownRefused
      BY <1>4 DEF ShutdownRefused
<1>5. CASE Terminated
      BY <1>5 DEF Terminated, vars
<1> QED BY <1>1, <1>2, <1>3, <1>4, <1>5

\* A stutter keeps the invariant.
LEMMA StopInvStutter == StopInv /\ UNCHANGED vars => StopInv'
BY DEF Service, StopInv, LifecycleTypes, RunningWasSpawned, TrackedIsActive, StoppedIsOver,
       StoppedShowsNothingRunning, vars, controlVars, pluginVars, busVars, sourceVars, serviceVars

\* Once Runtime::shutdown has returned, the consumer flag, the tracked plugin
\* lifecycle and every worker state say that nothing runs, and no task that was
\* aborted or still runs changes that.
THEOREM StoppedRuntimeShowsNothingRunning == Spec => [](StopInv /\ StoppedShowsNothingRunning)
<1>1. StopInv /\ [Next]_vars => StopInv'
      BY StopInvTasks, StopInvStart, StopInvControl, StopInvStutter DEF Next
<1>2. StopInv => StoppedShowsNothingRunning
      BY DEF StopInv
<1> QED BY <1>1, <1>2, StopInvInit, PTL DEF Spec

\* Nor does any answer of the REST handlers of health, runtime, plugins and the
\* synthetic sensor, which read the lifecycle from two places.
THEOREM StoppedRuntimeAnswersNothingRunning == Spec => []StoppedAnswersNothingRunning
<1>1. ASSUME StopInv, health = "stopped"
      PROVE  lifecycle # "running" /\ tracked # "running" /\ ~consumerFlag /\ ~IsHttpHealthy
      BY <1>1 DEF StopInv, StoppedIsOver, StoppedShowsNothingRunning, IsHttpHealthy
<1>2. ASSUME StopInv, health = "stopped", NEW p
      PROVE  /\ LifecycleState(p) # "running" /\ TrackedLifecycle(p) # "running"
             /\ ShownLifecycle(p) # "running"
      BY <1>1, <1>2 DEF LifecycleState, TrackedLifecycle, ShownLifecycle
<1>3. ASSUME StopInv, health = "stopped"
      PROVE  RuntimeSnapshot.active = {} /\ \A p \in RegisteredPlugins : PluginsSnapshot[p] # "running"
      BY <1>2, <1>3 DEF RuntimeSnapshot, PluginsSnapshot
<1>4. StopInv => StoppedAnswersNothingRunning
      BY <1>1, <1>2, <1>3 DEF StopInv, StoppedAnswersNothingRunning, HealthSnapshot, RuntimeSnapshot,
         SyntheticSensorSnapshot, SyntheticHealthSummary, CsiReplayHealthSummary
<1> QED BY <1>4, StoppedRuntimeShowsNothingRunning, PTL
-----------------------------------------------------------------------------
Kind == {"frame", "failed", "other"}

\* The bus never holds more than its capacity, which publishing keeps.
LEMMA PublishedTypes ==
  ASSUME BusTypes, NEW e \in Kind
  PROVE  Published(e) \in Seq(Kind) /\ Len(Published(e)) <= BusCapacity
<1>1. BusCapacity \in Nat \ {0} /\ pending \in Seq(Kind) /\ Len(pending) \in Nat
      BY Configured DEF Validates, BusTypes, Kind
<1>2. CASE consumer = "gone"
      BY <1>2 DEF Published, BusTypes, Kind
<1>3. CASE consumer # "gone" /\ Len(pending) = BusCapacity
  <2>1. Tail(pending) \in Seq(Kind) /\ Len(Tail(pending)) = BusCapacity - 1
        BY <1>1, <1>3
  <2> QED BY <1>1, <1>3, <2>1 DEF Published
<1>4. CASE consumer # "gone" /\ Len(pending) # BusCapacity
      BY <1>1, <1>4 DEF Published, BusTypes
<1> QED BY <1>2, <1>3, <1>4

\* An event is published while the rest of the bus is left alone.
LEMMA PublishKeeps ==
  ASSUME BusTypes, NEW e \in Kind, pending' = Published(e),
         UNCHANGED <<hasFrame, consumer, consumerFlag>>
  PROVE  BusTypes'
BY PublishedTypes DEF BusTypes, Kind

LEMMA TypesInit == Init => TypeOK
<1> SUFFICES ASSUME Init PROVE TypeOK
    OBVIOUS
<1>1. PluginTypes /\ SourceTypes
      BY DEF Init, PluginTypes, SourceTypes
<1>4. ControlTypes
  <2>1. toStart = <<>> /\ <<>> \in Seq(Service)
        BY DEF Init
  <2> QED BY <2>1 DEF Init, ControlTypes
<1>2. BusTypes
  <2>1. pending = <<>> /\ consumer = "none" /\ hasFrame = FALSE /\ consumerFlag = FALSE
        BY DEF Init
  <2>2. BusCapacity \in Nat /\ Len(<<>>) = 0 /\ <<>> \in Seq(Kind)
        BY Configured DEF Validates
  <2>3. pending \in Seq(Kind) /\ Len(pending) <= BusCapacity
        BY <2>1, <2>2
  <2>4. hasFrame \in BOOLEAN /\ consumerFlag \in BOOLEAN
        BY <2>1
  <2> QED BY <2>1, <2>3, <2>4, Zenon DEF BusTypes, Kind
<1>3. ServiceTypes
  <2>1. [ok |-> 0, bad |-> 0, streak |-> 0] \in [ok : Nat, bad : Nat, streak : Nat]
        OBVIOUS
  <2>2. /\ worker = [s \in Service |-> "none"] /\ state = [s \in Service |-> "disabled"]
        /\ waiting = [s \in Service |-> 0] /\ got = [s \in Service |-> FALSE]
        /\ counts = [s \in Service |-> [ok |-> 0, bad |-> 0, streak |-> 0]]
        BY DEF Init
  <2> QED BY <2>1, <2>2 DEF ServiceTypes
<1> QED BY <1>1, <1>2, <1>3, <1>4 DEF TypeOK

\* What leaves a group of variables alone keeps its types.
LEMMA Untouched ==
  /\ ControlTypes /\ UNCHANGED controlVars => ControlTypes'
  /\ PluginTypes /\ UNCHANGED pluginVars => PluginTypes'
  /\ BusTypes /\ UNCHANGED busVars => BusTypes'
  /\ SourceTypes /\ UNCHANGED sourceVars => SourceTypes'
  /\ ServiceTypes /\ UNCHANGED <<config, serviceVars>> => ServiceTypes'
BY DEF ControlTypes, PluginTypes, BusTypes, SourceTypes, ServiceTypes, Service,
       controlVars, pluginVars, busVars, sourceVars, serviceVars

\* The tasks of the source and of the bus.
LEMMA TypesSource ==
  ASSUME TypeOK, Consume \/ ConsumerAborted \/ Produce \/ ProducerFails \/ ProducerEnds \/ ProducerAborted
  PROVE  TypeOK'
<1> USE DEF TypeOK
<1>1. CASE Consume
  <2>1. PluginTypes' /\ BusTypes'
        BY <1>1, Configured DEF Consume, PluginTypes, BusTypes, Validates
  <2> QED BY <1>1, <2>1, Untouched DEF Consume, controlVars
<1>2. CASE ConsumerAborted
  <2>1. BusTypes'
        BY <1>2, Configured DEF ConsumerAborted, BusTypes, Validates
  <2> QED BY <1>2, <2>1, Untouched DEF ConsumerAborted, controlVars
<1>3. CASE Produce
  <2>1. BusTypes'
        BY <1>3, PublishKeeps DEF Produce, Kind
  <2>2. SourceTypes'
        BY <1>3 DEF Produce, SourceTypes
  <2>3. waiting' \in [Service -> Nat]
    <3>1. config.depth > 0 => Calibration \in Service
          BY Configured DEF Service, Calibration, Config, Validates, ControlTypes
    <3> QED BY <1>3, <3>1 DEF Produce, ServiceTypes
  <2>4. ServiceTypes'
        BY <1>3, <2>3 DEF Produce, ServiceTypes, Service, controlVars
  <2> QED BY <1>3, <2>1, <2>2, <2>4, Untouched DEF Produce
<1>4. CASE ProducerFails
  <2>1. BusTypes'
        BY <1>4, PublishKeeps DEF ProducerFails, Kind
  <2>2. SourceTypes'
        BY <1>4 DEF ProducerFails, SourceTypes
  <2> QED BY <1>4, <2>1, <2>2, Untouched DEF ProducerFails, controlVars
<1>5. CASE ProducerEnds \/ ProducerAborted
  <2>1. Source \in {"csi", "synthetic"}
        BY Configured DEF ControlTypes, Validates, Config, Source
  <2>2. SourceTypes'
        BY <1>5, <2>1 DEF ProducerEnds, ProducerAborted, SourceTypes
  <2> QED BY <1>5, <2>2, Untouched DEF ProducerEnds, ProducerAborted, controlVars
<1> QED BY <1>1, <1>2, <1>3, <1>4, <1>5

\* The counters of a service are counted up, or set to zero.
LEMMA CountedTypes ==
  ASSUME ServiceTypes, NEW s \in Service, NEW ok \in BOOLEAN, ControlTypes
  PROVE  Counted(s, ok) \in [Service -> [ok : Nat, bad : Nat, streak : Nat]]
<1> DEFINE Count == [ok : Nat, bad : Nat, streak : Nat]
<1>1. counts \in [Service -> Count] /\ counts[s] \in Count
      BY DEF ServiceTypes
<1>2. s \in Nat /\ (s > Dsp \/ s = Calibration \/ s = Dsp)
      BY Configured DEF Service, Dsp, Calibration, Config, Validates, ControlTypes
<1>3. ASSUME NEW c \in Count PROVE CountOf(s, c, ok) \in Count
  <2>1. [c EXCEPT !.ok = @ + 1] \in Count
        OBVIOUS
  <2>3. [c EXCEPT !.bad = @ + 1] \in Count
        OBVIOUS
  <2>4. /\ [ok |-> c.ok + 1, bad |-> c.bad, streak |-> 0] \in Count
        /\ [ok |-> c.ok, bad |-> c.bad + 1, streak |-> c.streak + 1] \in Count
        OBVIOUS
  <2>2. \/ CountOf(s, c, ok) = c
        \/ CountOf(s, c, ok) = [c EXCEPT !.ok = @ + 1]
        \/ CountOf(s, c, ok) = [c EXCEPT !.bad = @ + 1]
        \/ CountOf(s, c, ok) = [ok |-> c.ok + 1, bad |-> c.bad, streak |-> 0]
        \/ CountOf(s, c, ok) = [ok |-> c.ok, bad |-> c.bad + 1, streak |-> c.streak + 1]
    <3> HIDE DEF Count
    <3> QED BY <1>2 DEF CountOf, Calibration, Dsp
  <2> HIDE DEF Count
  <2> QED BY <2>1, <2>2, <2>3, <2>4
<1> QED BY <1>1, <1>3 DEF Counted

LEMMA TypesService ==
  ASSUME TypeOK, NEW s \in Service, Process(s) \/ ServiceEnds(s) \/ ServiceAborted(s)
  PROVE  TypeOK'
<1> USE DEF TypeOK
<1>1. CASE Process(s)
  <2>1. BusTypes'
        BY <1>1, PublishKeeps DEF Process, Kind, BusTypes
  <2>2. Service' = Service /\ worker' = worker /\ state' = state
        BY <1>1 DEF Process, Service, controlVars
  <2>3. counts' \in [Service -> [ok : Nat, bad : Nat, streak : Nat]]
    <3>1. counts' = counts \/ counts' = Counted(s, TRUE) \/ counts' = Counted(s, FALSE)
          BY <1>1 DEF Process
    <3>2. counts \in [Service -> [ok : Nat, bad : Nat, streak : Nat]]
          BY DEF ServiceTypes
    <3>3. \A ok \in BOOLEAN : Counted(s, ok) \in [Service -> [ok : Nat, bad : Nat, streak : Nat]]
          BY CountedTypes
    <3> QED BY <3>1, <3>2, <3>3, Zenon
  <2>4. waiting' \in [Service -> Nat] /\ got' \in [Service -> BOOLEAN]
    <3>1. waiting[s] - 1 \in Nat /\ \A i \in Service : waiting[i] + 1 \in Nat
          BY <1>1 DEF Process, ServiceTypes
    <3>2. got' = [got EXCEPT ![s] = TRUE]
          BY <1>1 DEF Process
    <3>3. \/ waiting' = [waiting EXCEPT ![s] = @ - 1]
          \/ waiting' = [i \in Service |-> IF i = s THEN waiting[i] - 1
             ELSE IF i = s + 1 /\ Alive(i) THEN waiting[i] + 1 ELSE waiting[i]]
          BY <1>1 DEF Process
    <3> QED BY <3>1, <3>2, <3>3 DEF ServiceTypes
  <2> QED BY <1>1, <2>1, <2>2, <2>3, <2>4, Untouched DEF Process, ServiceTypes
<1>2. CASE ServiceEnds(s)
  <2>1. BusTypes'
        BY <1>2, PublishKeeps DEF ServiceEnds, Kind
  <2>2. ServiceTypes'
        BY <1>2 DEF ServiceEnds, ServiceTypes, Service, controlVars
  <2> QED BY <1>2, <2>1, <2>2, Untouched DEF ServiceEnds
<1>3. CASE ServiceAborted(s)
  <2>1. ServiceTypes'
        BY <1>3 DEF ServiceAborted, ServiceTypes, Service, controlVars
  <2> QED BY <1>3, <2>1, Untouched DEF ServiceAborted
<1> QED BY <1>1, <1>2, <1>3

\* The services are started in a sequence of services.
LEMMA StartOrderTypes == ControlTypes => StartOrder \in Seq(Service)
<1> SUFFICES ASSUME ControlTypes PROVE StartOrder \in Seq(Service)
    OBVIOUS
<1> DEFINE n == config.depth
<1>1. n \in Nat
      BY Configured DEF ControlTypes, Config, Validates
<1>2. \A i \in 1..n : n + 1 - i \in 1..n
      BY <1>1
<1>3. [i \in 1..n |-> n + 1 - i] \in [1..n -> 1..n]
      BY <1>2
<1>4. \A f, S : f \in [1..n -> S] => f \in Seq(S)
      BY <1>1, SeqDef
<1> QED BY <1>3, <1>4 DEF StartOrder, Service

\* Runtime::start, the health handlers and Runtime::shutdown.
LEMMA TypesControl ==
  ASSUME TypeOK,
         StartBegin \/ StartContinues \/ Refresh \/ FirstFrameTimeout \/ Shutdown \/ ShutdownRefused
  PROVE  TypeOK'
<1> USE DEF TypeOK
<1>1. CASE StartBegin
  <2>1. toStart' \in Seq(Service) /\ Service' = Service
    <3>1. Service' = Service
          BY <1>1 DEF StartBegin, Service
    <3>2. toStart' = StartOrder \/ toStart' = <<>>
          BY <1>1 DEF StartBegin
    <3>3. StartOrder \in Seq(Service) /\ <<>> \in Seq(Service)
          BY StartOrderTypes
    <3> QED BY <3>1, <3>2, <3>3, Zenon
  <2>2. ControlTypes'
        BY <1>1, <2>1 DEF StartBegin, ControlTypes
  <2>3. BusTypes' /\ ServiceTypes'
        BY <1>1, <2>1 DEF StartBegin, BusTypes, ServiceTypes
  <2> QED BY <1>1, <2>2, <2>3, Untouched DEF StartBegin
<1>2. CASE StartService
  <2>1. /\ Service' = Service /\ toStart' \in Seq(Service)
        /\ Head(toStart) \in Service
    <3>1. Service' = Service
          BY <1>2 DEF StartService, Service
    <3>2. toStart \in Seq(Service) /\ toStart # <<>> /\ toStart' = Tail(toStart)
          BY <1>2 DEF StartService, ControlTypes
    <3>3. Tail(toStart) \in Seq(Service) /\ Head(toStart) \in Service
          BY <3>2
    <3> QED BY <3>1, <3>2, <3>3, Zenon
  <2>2. ControlTypes' /\ ServiceTypes'
        BY <1>2, <2>1 DEF StartService, ControlTypes, ServiceTypes
  <2> QED BY <1>2, <2>2, Untouched DEF StartService
<1>3. CASE BackendFails
  <2>1. ControlTypes'
        BY <1>3 DEF BackendFails, ControlTypes, Service
  <2> QED BY <1>3, <2>1, Untouched DEF BackendFails
<1>4. CASE RegisterPlugin \/ TrackRunning
  <2>1. ControlTypes' /\ PluginTypes'
        BY <1>4 DEF RegisterPlugin, TrackRunning, ControlTypes, PluginTypes, Service
  <2> QED BY <1>4, <2>1, Untouched DEF RegisterPlugin, TrackRunning
<1>5. CASE StartPlugin
  <2>1. ControlTypes' /\ PluginTypes' /\ SourceTypes'
        BY <1>5 DEF StartPlugin, ControlTypes, PluginTypes, SourceTypes, Service
  <2> QED BY <1>5, <2>1, Untouched DEF StartPlugin
<1>6. CASE InitializeFails
  <2>1. ControlTypes' /\ PluginTypes' /\ SourceTypes'
        BY <1>6 DEF InitializeFails, ControlTypes, PluginTypes, SourceTypes, Service
  <2>2. ServiceTypes'
        BY <1>6 DEF InitializeFails, ServiceTypes, Service
  <2> QED BY <1>6, <2>1, <2>2, Untouched DEF InitializeFails
<1>7. CASE StartReturns \/ Refresh
  <2>1. ControlTypes'
        BY <1>7 DEF StartReturns, Refresh, Refreshed, Evaluated, SourceHealth, ControlTypes, Service
  <2> QED BY <1>7, <2>1, Untouched DEF StartReturns, Refresh
<1>8. CASE FirstFrameTimeout
  <2>1. PluginTypes'
        BY <1>8 DEF FirstFrameTimeout, PluginTypes
  <2> QED BY <1>8, <2>1, Untouched DEF FirstFrameTimeout, controlVars
<1>9. CASE Shutdown
  <2>1. ControlTypes' /\ PluginTypes'
        BY <1>9 DEF Shutdown, ControlTypes, PluginTypes, Service
  <2>2. SourceTypes' /\ BusTypes'
        BY <1>9 DEF Shutdown, SourceTypes, BusTypes
  <2>3. ServiceTypes'
        BY <1>9 DEF Shutdown, StateOnShutdown, ServiceTypes, Service
  <2> QED BY <2>1, <2>2, <2>3
<1>10. CASE ShutdownRefused
  <2>1. ControlTypes'
        BY <1>10 DEF ShutdownRefused, ControlTypes, Service
  <2> QED BY <1>10, <2>1, Untouched DEF ShutdownRefused
<1> QED BY <1>1, <1>2, <1>3, <1>4, <1>5, <1>6, <1>7, <1>8, <1>9, <1>10 DEF StartContinues

LEMMA TypesNext == TypeOK /\ [Next]_vars => TypeOK'
<1>1. TypeOK /\ UNCHANGED vars => TypeOK'
      BY Untouched DEF TypeOK, vars, controlVars
<1> QED BY <1>1, TypesSource, TypesService, TypesControl DEF Next, Tasks, Terminated

\* TypeOK (RuntimeLifecycle.tla), with it the bound of the bus.
THEOREM TypesAndBus == Spec => []TypeOK
BY TypesInit, TypesNext, PTL DEF Spec
-----------------------------------------------------------------------------
(***************************************************************************)
(* A failure sticks.  The health alone does not remember it: a degraded    *)
(* service masks it, and what the health is evaluated from next is what    *)
(* the metrics know.  What is kept is the cause (Lost): the completion of  *)
(* a replay, or the tracked lifecycle of the synthetic sensor.             *)
(***************************************************************************)

FailureQueued == \E i \in 1..Len(pending) : pending[i] = "failed"

\* The failure of a replay is known before its event is.
FailureKnown ==
  Source = "csi" => (tracked = "failed" \/ FailureQueued => completion = "failed")

\* A failed replay is over.
FailedIsOver == Source = "csi" /\ completion = "failed" => producer # "active"

\* What start has got to, and what is known by then.
StartKnows ==
  /\ call \in {"idle", "services", "plugin"} => producer = "none" /\ completion # "failed"
  /\ call \in {"services", "plugin", "track", "enter"} => health = "starting" /\ consumerFlag
  /\ call = "idle" => health \in {"starting", "stopped"}
  /\ call = "err" => health \in {"starting", "failed", "stopped"}
  /\ call = "ok" /\ health # "stopped" => consumerFlag

\* What the metrics know of a failed source.
Cause ==
  \/ Source = "csi" /\ completion = "failed"
  \/ Source = "synthetic" /\ tracked = "failed"

\* The runtime never runs again.
Lost ==
  \/ health = "stopped"
  \/ call = "err" /\ health = "failed"
  \/ call = "ok" /\ health \in {"failed", "degraded"} /\ Cause

FailedIsLost == health = "failed" => Lost

FailInv == TypeOK /\ FailureKnown /\ FailedIsOver /\ StartKnows /\ FailedIsLost

LEMMA FailInit == Init => FailInv
<1> SUFFICES ASSUME Init PROVE FailInv
    OBVIOUS
<1>1. Len(pending) = 0
      BY DEF Init
<1>2. ~FailureQueued
      BY <1>1 DEF FailureQueued
<1> QED BY <1>2, TypesInit DEF Init, FailInv, FailureKnown, FailedIsOver, StartKnows, FailedIsLost

\* What is taken from the bus, or published on it, adds no failure.
LEMMA NothingQueued ==
  ASSUME TypeOK,
         \/ UNCHANGED pending \/ pending' = <<>>
         \/ pending # <<>> /\ pending' = Tail(pending)
         \/ \E e \in {"frame", "other"} : pending' = Published(e)
  PROVE  FailureQueued' => FailureQueued
<1>1. pending \in Seq(Kind) /\ Len(pending) \in Nat /\ BusCapacity \in Nat \ {0}
      BY Configured DEF TypeOK, BusTypes, Kind, Validates
<1>2. CASE UNCHANGED pending
      BY <1>2 DEF FailureQueued
<1>3. CASE pending' = <<>>
      BY <1>3 DEF FailureQueued
<1>4. ASSUME pending # <<>>, NEW i \in 1..Len(Tail(pending)), Tail(pending)[i] = "failed"
      PROVE  FailureQueued
  <2>1. i + 1 \in 1..Len(pending) /\ pending[i + 1] = "failed"
        BY <1>1, <1>4
  <2> QED BY <2>1 DEF FailureQueued
<1>5. CASE pending # <<>> /\ pending' = Tail(pending)
      BY <1>4, <1>5 DEF FailureQueued
<1>6. ASSUME NEW e \in {"frame", "other"}, pending' = Published(e) PROVE FailureQueued' => FailureQueued
  <2>1. CASE consumer = "gone"
        BY <1>2, <1>6, <2>1 DEF Published
  <2>2. CASE consumer # "gone" /\ Len(pending) = BusCapacity
    <3>1. pending' = Append(Tail(pending), e) /\ pending # <<>> /\ Tail(pending) \in Seq(Kind)
          BY <1>1, <1>6, <2>2 DEF Published
    <3> SUFFICES ASSUME NEW i \in 1..Len(pending'), pending'[i] = "failed" PROVE FailureQueued
        BY DEF FailureQueued
    <3>2. i \in 1..Len(Tail(pending)) /\ Tail(pending)[i] = "failed"
          BY <3>1
    <3> QED BY <1>4, <3>1, <3>2
  <2>3. CASE consumer # "gone" /\ Len(pending) # BusCapacity
    <3>1. pending' = Append(pending, e)
          BY <1>6, <2>3 DEF Published
    <3> SUFFICES ASSUME NEW i \in 1..Len(pending'), pending'[i] = "failed" PROVE FailureQueued
        BY DEF FailureQueued
    <3>2. i \in 1..Len(pending) /\ pending[i] = "failed"
          BY <1>1, <3>1
    <3> QED BY <3>2 DEF FailureQueued
  <2> QED BY <2>1, <2>2, <2>3
<1> QED BY <1>2, <1>3, <1>5, <1>6

\* What publishes no failure, and leaves what is known alone.
LEMMA FailQuiet ==
  ASSUME FailInv, TypeOK',
         UNCHANGED <<config, health, call, tracked, consumerFlag, completion>>,
         producer' = "active" => producer = "active", producer = "none" => producer' = "none",
         \/ UNCHANGED pending \/ pending' = <<>>
         \/ pending # <<>> /\ pending' = Tail(pending)
         \/ \E e \in {"frame", "other"} : pending' = Published(e)
  PROVE  FailInv' /\ (Lost => Lost')
<1>1. FailureQueued' => FailureQueued
      BY NothingQueued DEF FailInv
<1>2. Lost' <=> Lost
      BY DEF Lost, Cause, Source
<1>3. FailureKnown' /\ FailedIsOver' /\ StartKnows'
      BY <1>1 DEF FailInv, FailureKnown, FailedIsOver, StartKnows, Source
<1>4. FailedIsLost'
      BY <1>2 DEF FailInv, FailedIsLost
<1> QED BY <1>2, <1>3, <1>4 DEF FailInv

LEMMA FailTasks == ASSUME FailInv, TypeOK', Tasks PROVE FailInv' /\ (Lost => Lost')
<1> USE DEF controlVars, pluginVars, busVars, sourceVars
<1>1. CASE Consume
  <2>1. CASE Head(pending) = "failed"
    <3>1. /\ tracked' = "failed" /\ pending # <<>> /\ pending' = Tail(pending)
          /\ UNCHANGED <<config, health, call, consumerFlag, producer, completion>>
          BY <1>1, <2>1 DEF Consume
    <3>2. FailureQueued
      <4>1. 1 \in 1..Len(pending) /\ pending[1] = "failed"
            BY <2>1, <3>1 DEF FailInv, TypeOK, BusTypes
      <4> QED BY <4>1 DEF FailureQueued
    <3>3. FailureKnown' /\ FailedIsOver' /\ StartKnows'
          BY <3>1, <3>2 DEF FailInv, FailureKnown, FailedIsOver, StartKnows, Source
    <3>4. Lost => Lost'
          BY <3>1 DEF Lost, Cause, Source
    <3> QED BY <3>1, <3>3, <3>4 DEF FailInv, FailedIsLost
  <2>2. CASE Head(pending) # "failed"
        BY <1>1, <2>2, FailQuiet DEF Consume
  <2> QED BY <2>1, <2>2
<1>2. CASE ConsumerAborted
      BY <1>2, FailQuiet DEF ConsumerAborted
<1>3. CASE Produce
      BY <1>3, FailQuiet DEF Produce
<1>4. CASE ProducerFails
  <2>1. /\ producer' = "failing" /\ producer = "active"
        /\ completion' = IF Source = "csi" THEN "failed" ELSE completion
        /\ UNCHANGED <<config, health, call, tracked, consumerFlag>>
        BY <1>4 DEF ProducerFails
  <2>2. FailureKnown' /\ FailedIsOver' /\ StartKnows'
        BY <2>1 DEF FailInv, FailureKnown, FailedIsOver, StartKnows, Source
  <2>3. Lost => Lost'
        BY <2>1 DEF Lost, Cause, Source
  <2> QED BY <2>1, <2>2, <2>3 DEF FailInv, FailedIsLost
<1>5. CASE ProducerEnds
  <2>1. /\ producer \in {"active", "failing"} /\ producer' = "gone"
        /\ UNCHANGED <<config, health, call, tracked, consumerFlag, pending>>
        BY <1>5 DEF ProducerEnds
  <2>2. CASE completion' = completion
        BY <2>1, <2>2, FailQuiet
  <2>3. CASE completion' # completion
    <3>1. Source \in {"csi", "synthetic"}
          BY Configured DEF FailInv, TypeOK, ControlTypes, Validates, Config, Source
    <3>2. Source = "csi" /\ producer = "active" /\ completion' \in {"stopped", "completed"}
          BY <1>5, <2>1, <2>3, <3>1 DEF ProducerEnds
    <3>3. completion # "failed" /\ tracked # "failed" /\ ~FailureQueued
          BY <3>2 DEF FailInv, FailedIsOver, FailureKnown
    <3>4. FailureQueued' <=> FailureQueued
          BY <2>1 DEF FailureQueued
    <3>5. FailureKnown' /\ FailedIsOver' /\ StartKnows'
          BY <2>1, <3>2, <3>3, <3>4 DEF FailInv, FailureKnown, FailedIsOver, StartKnows
    <3>6. Lost => Lost'
          BY <2>1, <3>2, <3>3 DEF Lost, Cause, Source
    <3> QED BY <2>1, <3>5, <3>6 DEF FailInv, FailedIsLost
  <2> QED BY <2>2, <2>3
<1>6. CASE ProducerAborted
      BY <1>6, FailQuiet DEF ProducerAborted
<1>7. ASSUME NEW s \in Service, Process(s) PROVE FailInv' /\ (Lost => Lost')
      BY <1>7, FailQuiet DEF Process
<1>8. ASSUME NEW s \in Service, ServiceEnds(s) PROVE FailInv' /\ (Lost => Lost')
      BY <1>8, FailQuiet DEF ServiceEnds
<1>9. ASSUME NEW s \in Service, ServiceAborted(s) PROVE FailInv' /\ (Lost => Lost')
      BY <1>9, FailQuiet DEF ServiceAborted
<1> QED BY <1>1, <1>2, <1>3, <1>4, <1>5, <1>6, <1>7, <1>8, <1>9 DEF Tasks

\* The health follows the cause, which only a degraded service masks.
LEMMA EvaluatedFollows ==
  ASSUME FailInv
  PROVE  /\ Evaluated \in {"running", "degraded", "failed"}
         /\ Cause => Evaluated # "running"
         /\ consumerFlag /\ Evaluated = "failed" => Cause
<1>1. Source \in {"csi", "synthetic"}
      BY Configured DEF FailInv, TypeOK, ControlTypes, Validates, Config, Source
<1>2. Source = "csi" /\ tracked = "failed" => completion = "failed"
      BY DEF FailInv, FailureKnown
<1>3. /\ SourceHealth \in {"running", "degraded", "failed"}
      /\ SourceHealth = "failed" <=> tracked = "failed"
      BY DEF SourceHealth
<1> QED BY <1>1, <1>2, <1>3 DEF Evaluated, Cause

\* Start is under way in a runtime that is starting, and fails for a cause.
LEMMA FailStart ==
  ASSUME FailInv, TypeOK', StartBegin \/ StartContinues
  PROVE  FailInv' /\ (Lost => Lost')
<1> USE DEF controlVars, pluginVars, busVars, sourceVars
<1>1. health = "starting" /\ call \notin {"ok", "err"} /\ ~Lost
      BY DEF FailInv, StartKnows, Lost, StartBegin, StartContinues, StartService, BackendFails,
         RegisterPlugin, StartPlugin, InitializeFails, TrackRunning, StartReturns
<1>2. CASE StartBegin
  <2>1. /\ call = "idle" /\ call' = "services" /\ consumerFlag'
        /\ UNCHANGED <<config, health, tracked, pending, producer, completion>>
        BY <1>2 DEF StartBegin
  <2>2. FailureKnown' /\ FailedIsOver' /\ StartKnows' /\ FailedIsLost'
        BY <1>1, <2>1 DEF FailInv, FailureKnown, FailureQueued, FailedIsOver, StartKnows, FailedIsLost, Source
  <2> QED BY <1>1, <2>2 DEF FailInv
<1>3. CASE StartService
  <2>1. UNCHANGED <<config, health, call, tracked, consumerFlag, pending, producer, completion>>
        BY <1>3 DEF StartService
  <2> QED BY <2>1, FailQuiet
<1>4. CASE BackendFails
  <2>1. /\ call' = "err" /\ call = "services"
        /\ UNCHANGED <<config, health, tracked, consumerFlag, pending, producer, completion>>
        BY <1>4 DEF BackendFails
  <2>2. FailureKnown' /\ FailedIsOver' /\ StartKnows' /\ FailedIsLost'
        BY <1>1, <2>1 DEF FailInv, FailureKnown, FailureQueued, FailedIsOver, StartKnows, FailedIsLost, Source
  <2> QED BY <1>1, <2>2 DEF FailInv
<1>5. CASE RegisterPlugin
  <2>1. /\ call' = "plugin" /\ call = "services" /\ tracked' = "registered"
        /\ UNCHANGED <<config, health, consumerFlag, pending, producer, completion>>
        BY <1>5 DEF RegisterPlugin
  <2>2. FailureKnown' /\ FailedIsOver' /\ StartKnows' /\ FailedIsLost'
        BY <1>1, <2>1 DEF FailInv, FailureKnown, FailureQueued, FailedIsOver, StartKnows, FailedIsLost, Source
  <2> QED BY <1>1, <2>2 DEF FailInv
<1>6. CASE StartPlugin
  <2>1. /\ call' = "track" /\ call = "plugin" /\ producer' = "active"
        /\ completion' = IF Source = "csi" THEN "active" ELSE completion
        /\ UNCHANGED <<config, health, tracked, consumerFlag, pending>>
        BY <1>6 DEF StartPlugin
  <2>2. FailureKnown' /\ FailedIsOver' /\ StartKnows' /\ FailedIsLost'
        BY <1>1, <2>1 DEF FailInv, FailureKnown, FailureQueued, FailedIsOver, StartKnows, FailedIsLost, Source
  <2> QED BY <1>1, <2>2 DEF FailInv
<1>7. CASE InitializeFails
  <2>1. /\ call' = "err" /\ call = "plugin" /\ health' = "failed" /\ completion' = "failed"
        /\ UNCHANGED <<config, consumerFlag, pending, producer>>
        BY <1>7 DEF InitializeFails
  <2>2. FailureKnown' /\ FailedIsOver' /\ StartKnows' /\ FailedIsLost'
        BY <1>1, <2>1 DEF FailInv, FailureKnown, FailedIsOver, StartKnows, FailedIsLost, Lost, Source
  <2> QED BY <1>1, <2>2 DEF FailInv
<1>8. CASE TrackRunning
  <2>1. /\ call' = "enter" /\ call = "track" /\ tracked' = "running"
        /\ UNCHANGED <<config, health, consumerFlag, pending, producer, completion>>
        BY <1>8 DEF TrackRunning
  <2>2. FailureKnown' /\ FailedIsOver' /\ StartKnows' /\ FailedIsLost'
        BY <1>1, <2>1 DEF FailInv, FailureKnown, FailureQueued, FailedIsOver, StartKnows, FailedIsLost, Source
  <2> QED BY <1>1, <2>2 DEF FailInv
<1>9. CASE StartReturns
  <2>1. /\ call' = "ok" /\ call = "enter" /\ health' = Evaluated
        /\ UNCHANGED <<config, tracked, consumerFlag, pending, producer, completion>>
        BY <1>9 DEF StartReturns, Refreshed
  <2>2. FailureKnown' /\ FailedIsOver' /\ StartKnows'
        BY <1>1, <2>1 DEF FailInv, FailureKnown, FailureQueued, FailedIsOver, StartKnows, Source
  <2>3. health' = "failed" => Cause'
    <3>1. consumerFlag
          BY <2>1 DEF FailInv, StartKnows
    <3>2. health' = "failed" => Cause
          BY <2>1, <3>1, EvaluatedFollows, Zenon
    <3> QED BY <2>1, <3>2 DEF Cause, Source
  <2>4. FailedIsLost'
        BY <2>1, <2>3 DEF FailedIsLost, Lost
  <2> QED BY <1>1, <2>2, <2>4 DEF FailInv
<1> QED BY <1>2, <1>3, <1>4, <1>5, <1>6, <1>7, <1>8, <1>9 DEF StartContinues

\* Polling the health finds the cause again; a shutdown leaves the runtime stopped.
LEMMA FailControl ==
  ASSUME FailInv, TypeOK',
         Refresh \/ FirstFrameTimeout \/ Shutdown \/ ShutdownRefused \/ Terminated \/ UNCHANGED vars
  PROVE  FailInv' /\ (Lost => Lost')
<1> USE DEF vars, controlVars, pluginVars, busVars, sourceVars
<1>1. CASE Refresh
  <2>1. /\ call = "ok" /\ health \in {"running", "degraded", "failed"} /\ health' = Refreshed(health)
        /\ UNCHANGED <<config, call, tracked, consumerFlag, pending, producer, completion>>
        BY <1>1 DEF Refresh
  <2>2. consumerFlag
        BY <2>1 DEF FailInv, StartKnows
  <2>3. Cause' <=> Cause
        BY <2>1 DEF Cause, Source
  <2>4. FailureKnown' /\ FailedIsOver'
        BY <2>1 DEF FailInv, FailureKnown, FailureQueued, FailedIsOver, Source
  <2>5. StartKnows'
        BY <2>1, <2>2 DEF StartKnows
  <2>6. health = "failed" => Cause
        BY <2>1 DEF FailInv, FailedIsLost, Lost
  <2>7. health' = "failed" => Cause'
        BY <2>1, <2>2, <2>3, <2>6, EvaluatedFollows DEF Refreshed
  <2>8. FailedIsLost'
        BY <2>1, <2>7 DEF FailedIsLost, Lost
  <2>9. Lost => Lost'
    <3> SUFFICES ASSUME Lost PROVE Lost'
        OBVIOUS
    <3>1. Cause
          BY <2>1 DEF Lost
    <3>2. health' \in {"failed", "degraded"}
          BY <2>1, <3>1, EvaluatedFollows DEF Refreshed
    <3> QED BY <2>1, <2>3, <3>1, <3>2 DEF Lost
  <2> QED BY <2>4, <2>5, <2>8, <2>9 DEF FailInv
<1>2. CASE Shutdown
  <2>1. /\ call \in {"idle", "ok", "err"} /\ health' = "stopped"
        /\ tracked' \in {tracked, "stopped"}
        /\ completion' = completion \/ (completion \notin {"failed", "completed"} /\ completion' = "stopped")
        /\ UNCHANGED <<config, call, pending, producer>>
        BY <1>2 DEF Shutdown
  <2>2. FailureKnown' /\ FailedIsOver'
        BY <2>1 DEF FailInv, FailureKnown, FailureQueued, FailedIsOver, Source
  <2>3. StartKnows' /\ FailedIsLost' /\ Lost'
        BY <2>1 DEF FailInv, StartKnows, FailedIsLost, Lost
  <2> QED BY <2>2, <2>3 DEF FailInv
<1>3. CASE FirstFrameTimeout \/ ShutdownRefused \/ Terminated \/ UNCHANGED vars
  <2>1. UNCHANGED <<config, health, call, tracked, consumerFlag, completion, producer, pending>>
        BY <1>3 DEF FirstFrameTimeout, ShutdownRefused, Terminated
  <2> QED BY <2>1, FailQuiet
<1> QED BY <1>1, <1>2, <1>3

\* FailureSticks (RuntimeLifecycle.tla): a runtime that has failed is never shown
\* as running again, whatever is consumed, polled or aborted afterwards: what it
\* failed of is not forgotten while a degraded service masks it.
THEOREM FailureStays == Spec => FailureSticks
<1>1. FailInv /\ [Next]_vars => FailInv'
      BY TypesNext, FailTasks, FailStart, FailControl DEF FailInv, Next
<1>2. FailInv /\ Lost /\ [Next]_vars => Lost'
      BY TypesNext, FailTasks, FailStart, FailControl DEF FailInv, Next
<1>3. FailInv => (health = "failed" => Lost)
      BY DEF FailInv, FailedIsLost
<1>4. Lost => health # "running"
      BY DEF Lost
<1> QED BY <1>1, <1>2, <1>3, <1>4, FailInit, PTL DEF Spec, FailureSticks
=============================================================================
