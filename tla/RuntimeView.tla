----------------------------- MODULE RuntimeView -----------------------------
(***************************************************************************)
(* What the REST handlers of the server (apps/server/src/api/state.rs)     *)
(* answer of the runtime and of its source.  A handler holds the lock of   *)
(* the runtime; those of health and runtime have refreshed the health.     *)
(* The plugin runtime and the metrics each remember a state of the source: *)
(* some answers show the one, some the other.                              *)
(***************************************************************************)
EXTENDS RuntimeLifecycle

PluginId == {"synthetic", "csi"}

\* PluginRuntime::lifecycle_state, and the lifecycle of the metrics.
LifecycleState(p) == IF p = Source THEN lifecycle ELSE "none"
TrackedLifecycle(p) == IF p = Source THEN tracked ELSE "none"

\* The state in the plugin runtime, or, without one, the tracked one.
ShownLifecycle(p) ==
  IF LifecycleState(p) # "none" THEN LifecycleState(p) ELSE TrackedLifecycle(p)

IsHttpHealthy == health \in {"running", "degraded", "starting"}

SyntheticHealthSummary ==
  [enabled |-> Source = "synthetic", lifecycle |-> ShownLifecycle("synthetic")]

CsiReplayHealthSummary ==
  [enabled |-> Source = "csi", lifecycle |-> ShownLifecycle("csi"),
   completion |-> IF Source = "csi" THEN completion ELSE "none"]

\* health_snapshot
HealthSnapshot ==
  [status |-> health, healthy |-> IsHttpHealthy, consumer |-> consumerFlag,
   synthetic |-> SyntheticHealthSummary, replay |-> CsiReplayHealthSummary]

RegisteredPlugins == {p \in PluginId : LifecycleState(p) # "none"}

ActiveSourceLabel == IF Source = "csi" THEN "csi_replay" ELSE "synthetic"

\* runtime_snapshot: the tracked lifecycles, and which plugins are registered
\* and running according to the plugin runtime.
RuntimeSnapshot ==
  [status |-> health, registered |-> RegisteredPlugins,
   active |-> {p \in RegisteredPlugins : LifecycleState(p) = "running"},
   received |-> hasFrame, source |-> ActiveSourceLabel,
   synthetic |-> TrackedLifecycle("synthetic"), replay |-> TrackedLifecycle("csi")]

\* plugins_snapshot
PluginsSnapshot == [p \in RegisteredPlugins |-> LifecycleState(p)]

\* synthetic_sensor_snapshot
SyntheticSensorSnapshot ==
  [enabled |-> Source = "synthetic", lifecycle |-> ShownLifecycle("synthetic"),
   received |-> Source = "synthetic" /\ hasFrame]

-----------------------------------------------------------------------------

\* Once Runtime::shutdown has stopped the runtime, no answer shows anything that
\* runs, neither the plugin runtime's view of the source nor that of the
\* metrics, nor a worker, whatever the aborted tasks and the events that are
\* still queued write afterwards.
StoppedAnswersNothingRunning ==
  health = "stopped" =>
    /\ StoppedShowsNothingRunning
    /\ ~HealthSnapshot.healthy /\ ~HealthSnapshot.consumer
    /\ HealthSnapshot.synthetic.lifecycle # "running" /\ HealthSnapshot.replay.lifecycle # "running"
    /\ RuntimeSnapshot.active = {}
    /\ RuntimeSnapshot.synthetic # "running" /\ RuntimeSnapshot.replay # "running"
    /\ \A p \in RegisteredPlugins : PluginsSnapshot[p] # "running"
    /\ SyntheticSensorSnapshot.lifecycle # "running"
=============================================================================
