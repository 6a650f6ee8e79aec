---------------------------- MODULE MCDashboard -----------------------------
(* Instances of Dashboard for TLC.                                         *)
EXTENDS Dashboard

E(kind, n) ==
  [kind |-> kind, timestamp |-> n, capture |-> IF kind \in FrameKind THEN n ELSE 0,
   sequence |-> n, completed |-> FALSE]

MCScript == <<E("CsiFrameCalibrated", 1), E("CsiFrameReceived", 2)>>
=============================================================================
