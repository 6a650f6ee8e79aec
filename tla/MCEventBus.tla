---------------------------- MODULE MCEventBus -----------------------------
(* Instances of EventBus for TLC.                                          *)
EXTENDS EventBus

E(kind, sequence) ==
  [kind |-> kind, timestamp |-> 0, capture |-> 0, sequence |-> sequence, completed |-> FALSE]

\* A replay with calibration, a sensor that fails, and events that are not
\* surfaced between events that are.
MCScripts ==
  { <<E("CsiFrameCalibrated", 1), E("CsiFrameCalibrated", 2), E("CsiReplayFailed", 0)>>,
    <<E("FrameReceived", 1), E("FrameReceived", 2), E("StageCompleted", 0),
      E("SensorFailed", 0)>>,
    <<E("StageCompleted", 0), E("CsiFrameReceived", 3), E("DspServiceStarted", 0),
      E("EntityRemoved", 0)>> }
=============================================================================
