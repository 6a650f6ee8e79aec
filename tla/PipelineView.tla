---------------------------- MODULE PipelineView ----------------------------
(***************************************************************************)
(* What the HTTP API and the dashboard show of the CSI pipeline: the       *)
(* snapshots that the server makes of the workers' statistics and of the   *)
(* snapshot store, and the stages and panels that the dashboard makes of   *)
(* the snapshots.                                                          *)
(*                                                                         *)
(* Runtime::shutdown holds the lock that every snapshot is made under, so  *)
(* that what is defined here is shown while control is "running".  The     *)
(* snapshots of one refresh are of one moment.                             *)
(***************************************************************************)
EXTENDS CsiPipeline

VARIABLE failing   \* consecutive_failures of the DSP worker is not 0

viewVars == <<vars, failing>>

ViewInit == Init /\ failing = FALSE

\* record_window_success ends a row of failures, record_window_failure starts one.
RecordsWindow ==
  failing' = IF Dsp \notin Stage \/ produced'[Dsp] # produced[Dsp] THEN FALSE
             ELSE failing \/ failures'[Dsp] # failures[Dsp]

ViewNext == Next /\ RecordsWindow

ViewSpec == ViewInit /\ [][ViewNext]_viewVars /\ Fairness

-----------------------------------------------------------------------------
(***************************************************************************)
(* The snapshots of the server                                             *)
(***************************************************************************)

\* CsiReplayPlugin::health, of a plugin that is not shut down.
ReplayHealth ==
  IF completion = "failed" THEN "unhealthy"
  ELSE IF completion = "completed" \/ source \notin {"finish", "gone"} THEN "healthy"
  ELSE "degraded"

\* A malformed row is the last that is read.
FramesRejected == IF cursor > 0 /\ fixture[cursor] = Malformed THEN 1 ELSE 0

CsiReplaySnapshot ==
  [completion |-> completion, health |-> ReplayHealth,
   read |-> Len(produced[0]) + FramesRejected,
   accepted |-> emitted, rejected |-> FramesRejected,
   latest |-> IF emitted = 0 THEN None ELSE produced[0][emitted].sequence]

\* The figures of a service, none when it is disabled: every message is
\* recorded as received, every result and every failure as such.
Figures(s) ==
  IF s \in Stage
  THEN [received |-> consumed[s], produced |-> Len(produced[s]), failed |-> failures[s]]
  ELSE [received |-> 0, produced |-> 0, failed |-> 0]

WorkerState(s) == IF s \in Stage THEN state[s] ELSE "disabled"

\* CalibrationStats::evaluate_health.
CalibrationDegraded ==
  Calibration \in Stage /\ failures[Calibration] >= 3
    /\ failures[Calibration] > Len(produced[Calibration])

CalibrationHealth ==
  IF CalibrationDegraded THEN "degraded"
  ELSE IF WorkerState(Calibration) = "running" THEN "healthy" ELSE WorkerState(Calibration)

DspHealthLabel ==
  IF WorkerState(Dsp) = "running" /\ failing THEN "degraded" ELSE WorkerState(Dsp)

\* No worker exits unexpectedly.
FeatureHealthLabel == WorkerState(Features)
PerceptionHealthLabel == WorkerState(Perception)

\* The latest result of a service in the snapshot store; None is the answer
\* that nothing is available.
LatestResponse(s) == IF s \in Stage THEN latest[s] ELSE None

\* A status snapshot.  What the statistics know of the latest result is known
\* to the snapshot store too.
Snapshot(s, health) ==
  [enabled |-> s \in Stage, worker |-> WorkerState(s), health |-> health,
   figures |-> Figures(s), latest |-> LatestResponse(s)]

CalibrationSnapshot == Snapshot(Calibration, CalibrationHealth)
DspSnapshot == Snapshot(Dsp, DspHealthLabel)
FeaturesSnapshot == Snapshot(Features, FeatureHealthLabel)
PerceptionSnapshot == Snapshot(Perception, PerceptionHealthLabel)

DspLatestSnapshot == LatestResponse(Dsp)
FeaturesLatestSnapshot == LatestResponse(Features)
ObservationLatestSnapshot == LatestResponse(Perception)

-----------------------------------------------------------------------------
(***************************************************************************)
(* The dashboard's stages                                                  *)
(***************************************************************************)

ReplayCompleted == CsiReplaySnapshot.completion = "completed"

\* Mutant: what runs when the replay is complete is shown as completed.
WorkerStageWithReplay(snapshot, complete) ==
  CASE ~snapshot.enabled -> "disabled"
    [] snapshot.enabled /\ snapshot.health = "degraded" -> "degraded"
    [] snapshot.enabled /\ snapshot.health # "degraded" ->
         IF complete THEN "completed"
         ELSE IF snapshot.worker = "running" THEN "active"
         ELSE IF snapshot.worker = "stopped" THEN "idle" ELSE snapshot.worker

\* mapWorkerStage.
WorkerStage(snapshot, complete) ==
  CASE ~snapshot.enabled -> "disabled"
    [] snapshot.enabled /\ snapshot.health = "degraded" -> "degraded"
    [] snapshot.enabled /\ snapshot.health # "degraded" ->
         IF snapshot.worker = "running" THEN "active"
         ELSE IF snapshot.worker = "stopped" THEN IF complete THEN "completed" ELSE "idle"
         ELSE snapshot.worker

ReplayStage ==
  IF completion = "stopped" THEN IF ReplayHealth = "degraded" THEN "degraded" ELSE "idle"
  ELSE completion

ValidationStage ==
  LET replay == CsiReplaySnapshot IN
  IF replay.completion = "failed" \/ (replay.rejected > 0 /\ replay.health = "unhealthy")
  THEN "failed"
  ELSE IF replay.health = "degraded" THEN "degraded"
  ELSE IF replay.accepted = 0 THEN "idle"
  ELSE IF ReplayCompleted THEN "completed" ELSE "active"

\* Mutant: windows that were emitted are shown before the worker's end is.
WindowingStageEager ==
  LET dsp == DspSnapshot IN
  IF ~dsp.enabled THEN "disabled"
  ELSE IF dsp.health = "degraded" THEN "degraded"
  ELSE IF dsp.worker = "running" \/ dsp.figures.produced > 0 THEN "active"
  ELSE IF dsp.worker = "completed" THEN "completed" ELSE "idle"

WindowingStage ==
  LET dsp == DspSnapshot IN
  IF ~dsp.enabled THEN "disabled"
  ELSE IF dsp.health = "degraded" THEN "degraded"
  ELSE IF dsp.worker = "running" THEN "active"
  ELSE IF dsp.worker = "completed" \/ (ReplayCompleted /\ dsp.figures.produced > 0)
       THEN "completed"
  ELSE IF dsp.figures.produced > 0 THEN "active" ELSE "idle"

\* A stage after calibration is complete with the replay if it produced anything.
ResultStage(snapshot) == WorkerStage(snapshot, ReplayCompleted /\ snapshot.figures.produced > 0)

\* buildPipelineStages.
Stages ==
  [csi_replay |-> ReplayStage,
   validation |-> ValidationStage,
   calibration |-> WorkerStage(CalibrationSnapshot, ReplayCompleted),
   windowing |-> WindowingStage,
   spectral_dsp |-> ResultStage(DspSnapshot),
   feature_extraction |-> ResultStage(FeaturesSnapshot),
   channel_change_observation |-> ResultStage(PerceptionSnapshot)]

\* presentDspState, presentFeatureState and presentObservationState.
Panel(snapshot) == IF snapshot.worker = "running" THEN "active" ELSE snapshot.worker

PresentCalibrationState ==
  IF CalibrationSnapshot.worker = "stopped" /\ ReplayCompleted THEN "completed"
  ELSE Panel(CalibrationSnapshot)
PresentDspState == Panel(DspSnapshot)
PresentFeatureState == Panel(FeaturesSnapshot)
PresentObservationState == Panel(PerceptionSnapshot)

\* The worker whose figures a stage shows, or the producer.
TaskOf(stage) ==
  CASE stage \in {"csi_replay", "validation"} -> 0
    [] stage = "calibration" -> Calibration
    [] stage \in {"windowing", "spectral_dsp"} -> Dsp
    [] stage = "feature_extraction" -> Features
    [] stage = "channel_change_observation" -> Perception

-----------------------------------------------------------------------------
(***************************************************************************)
(* Properties                                                              *)
(***************************************************************************)

\* All that the server answers about a task.
ShownOf(t) ==
  CASE t = 0 -> <<CsiReplaySnapshot>>
    [] t = Calibration -> <<CalibrationSnapshot>>
    [] t = Dsp -> <<DspSnapshot, DspLatestSnapshot>>
    [] t = Features -> <<FeaturesSnapshot, FeaturesLatestSnapshot>>
    [] t = Perception -> <<PerceptionSnapshot, ObservationLatestSnapshot>>

\* A stage that is shown as completed stays so, and nothing that is shown of
\* it changes any more, until a shutdown begins: each worker reports its end
\* last, and the replay is shown as completed only after its last frame.
CompletedIsFinal ==
  [][control' = "running" =>
       \A stage \in DOMAIN Stages : Stages[stage] = "completed" =>
         Stages'[stage] = "completed" /\ ShownOf(TaskOf(stage))' = ShownOf(TaskOf(stage))]_viewVars

Panels ==
  <<PresentCalibrationState, PresentDspState, PresentFeatureState, PresentObservationState>>

\* When every task has ended by itself no stage and no panel is shown as
\* active; after a complete replay a stage that received anything is shown as
\* completed or degraded, and its panel as completed.
EndIsShown ==
  AllGone /\ control = "running" =>
    /\ \A stage \in DOMAIN Stages :
         /\ Stages[stage] # "active"
         /\ ReplayCompleted /\ TaskOf(stage) \in Stage /\ consumed[TaskOf(stage)] > 0 =>
              Stages[stage] \in {"completed", "degraded"}
    /\ \A s \in 1..4 :
         /\ Panels[s] # "active"
         /\ ReplayCompleted /\ s \in Stage /\ consumed[s] > 0 => Panels[s] = "completed"
=============================================================================
