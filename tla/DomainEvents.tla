---------------------------- MODULE DomainEvents ----------------------------
(***************************************************************************)
(* The events of core/domain, and the envelopes that the server makes of   *)
(* them for the WebSocket stream and the REST history.                     *)
(*                                                                         *)
(* An event keeps its kind, its times (in nanoseconds), the sequence of    *)
(* the newest frame it is about and the flag of an idle event.  The rest   *)
(* of a payload is copied field by field and no property looks at it.      *)
(***************************************************************************)
EXTENDS Naturals
LOCAL INSTANCE TLC

CONSTANT Nanos    \* nanoseconds in a millisecond

ASSUME NanosConfig == Nanos \in Nat \ {0}

-----------------------------------------------------------------------------
\* The API type of each kind of event that the server surfaces.

SensorType ==
  [FrameReceived |-> "sensor_frame", SensorStarted |-> "sensor_started",
   SensorStopped |-> "sensor_stopped", SensorFailed |-> "sensor_failed"]

ReplayType ==
  [CsiFrameReceived |-> "csi_frame", CsiReplayStarted |-> "csi_replay_started",
   CsiReplayCompleted |-> "csi_replay_completed",
   CsiReplayStopped |-> "csi_replay_stopped", CsiReplayFailed |-> "csi_replay_failed"]

CalibrationType ==
  [CalibrationStarted |-> "calibration_started",
   CsiFrameCalibrated |-> "csi_frame_calibrated",
   CalibrationFailed |-> "calibration_failed",
   CalibrationServiceStopped |-> "calibration_service_stopped"]

DspType ==
  [DspServiceStarted |-> "dsp_service_started", CsiWindowAssembled |-> "csi_window_assembled",
   DspWindowProcessed |-> "dsp_window_processed",
   DspProcessingFailed |-> "dsp_processing_failed",
   DspServiceIdle |-> "dsp_service_idle", DspServiceStopped |-> "dsp_service_stopped"]

FeatureType ==
  [FeatureServiceStarted |-> "feature_service_started",
   FeatureVectorProduced |-> "feature_vector_produced",
   FeatureExtractionFailed |-> "feature_extraction_failed",
   FeatureServiceIdle |-> "feature_service_idle",
   FeatureServiceStopped |-> "feature_service_stopped"]

PerceptionType ==
  [PerceptionServiceStarted |-> "perception_service_started",
   ChannelChangeObserved |-> "channel_change_observed",
   ObservationFailed |-> "observation_failed",
   PerceptionServiceIdle |-> "perception_service_idle",
   PerceptionServiceStopped |-> "perception_service_stopped"]

\* Events of the world model, which no service publishes yet and the server
\* does not surface.
WorldKind ==
  {"ObservationRecorded", "EntityUpserted", "EntityRemoved", "RelationshipUpserted",
   "StageCompleted", "WorldSnapshotCommitted"}

ApiType ==
  SensorType @@ ReplayType @@ CalibrationType @@ DspType @@ FeatureType @@ PerceptionType

\* A service that has drained its input is idle and has completed.
CompletedType ==
  [DspServiceIdle |-> "dsp_service_completed", FeatureServiceIdle |-> "feature_service_completed",
   PerceptionServiceIdle |-> "perception_service_completed"]

FrameKind == {"FrameReceived", "CsiFrameReceived"}

\* An event with the sequence of the newest frame that it is about and the time
\* at which that frame was captured, both 0 in a payload without them.
Payload(kinds, captures, sequences, completions) ==
  [kind : kinds, timestamp : Nat, capture : captures, sequence : sequences,
   completed : completions]

OfCapture(kinds) == Payload(kinds, Nat, Nat, {FALSE})
OfSequence(kinds) == Payload(kinds, {0}, Nat, {FALSE})
OfService(kinds) == Payload(kinds, {0}, {0}, {FALSE})
OfIdle(kinds) == Payload(kinds, {0}, {0}, BOOLEAN)

SensorEvent ==
  OfCapture({"FrameReceived"}) \cup OfService({"SensorStarted", "SensorStopped", "SensorFailed"})

ReplayEvent ==
  OfCapture({"CsiFrameReceived"})
    \cup OfService({"CsiReplayStarted", "CsiReplayCompleted", "CsiReplayStopped",
                    "CsiReplayFailed"})

CalibrationEvent ==
  OfSequence({"CsiFrameCalibrated", "CalibrationFailed"})
    \cup OfService({"CalibrationStarted", "CalibrationServiceStopped"})

DspEvent ==
  OfSequence({"CsiWindowAssembled", "DspWindowProcessed", "DspProcessingFailed"})
    \cup OfIdle({"DspServiceIdle"}) \cup OfService({"DspServiceStarted", "DspServiceStopped"})

FeatureEvent ==
  OfSequence({"FeatureVectorProduced", "FeatureExtractionFailed"})
    \cup OfIdle({"FeatureServiceIdle"})
    \cup OfService({"FeatureServiceStarted", "FeatureServiceStopped"})

PerceptionEvent ==
  OfSequence({"ChannelChangeObserved", "ObservationFailed"})
    \cup OfIdle({"PerceptionServiceIdle"})
    \cup OfService({"PerceptionServiceStarted", "PerceptionServiceStopped"})

WorldEvent == OfService(WorldKind)

Event ==
  SensorEvent \cup ReplayEvent \cup CalibrationEvent \cup DspEvent \cup FeatureEvent
    \cup PerceptionEvent \cup WorldEvent

-----------------------------------------------------------------------------
Surfaced(event) == event.kind \in DOMAIN ApiType

EventType(event) ==
  IF event.kind \in DOMAIN CompletedType /\ event.completed
  THEN CompletedType[event.kind]
  ELSE ApiType[event.kind]

\* now_rfc3339 shows whole milliseconds.
Millis(now) == (now \div Nanos) * Nanos

\* A frame event is stamped with the time at which it is mapped, every other
\* event with its own time.
Envelope(event, now) ==
  [type |-> EventType(event),
   timestamp |-> IF event.kind \in FrameKind THEN Millis(now) ELSE event.timestamp,
   sequence |-> event.sequence, capture |-> event.capture]
=============================================================================
