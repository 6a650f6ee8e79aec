------------------------ MODULE MCRuntimeLifecycle -------------------------
(* Bounded instances of RuntimeLifecycle and RuntimeView for TLC. *)
EXTENDS RuntimeView

App == INSTANCE Configuration

\* The default configuration, edited: a replay behind which the services up to
\* the given one run on a native backend; then what a hand may have left in it.
MCWith(replay, depth) ==
  [App!DefaultConfig EXCEPT
     !.synthetic.enabled = ~replay, !.replay.enabled = replay,
     !.dsp.enabled = depth >= Dsp, !.dsp.backend = "cpp",
     !.features.enabled = depth >= Features, !.perception.enabled = depth >= Perception]

MCApps ==
  {App!DefaultConfig, MCWith(TRUE, Features),
   [MCWith(TRUE, Features) EXCEPT !.synthetic.enabled = TRUE],
   [MCWith(TRUE, Features) EXCEPT !.dsp.enabled = FALSE],
   [MCWith(TRUE, Features) EXCEPT !.replay.path = "missing"],
   [MCWith(TRUE, Dsp) EXCEPT !.dsp.hop = 17],
   [MCWith(FALSE, Perception) EXCEPT !.perception.thresholds.high = App!Finite(220)]}

MCAccepted == {app \in MCApps : App!Accepted(app, {"rust", "cpp"})}

\* default_config: "default configuration must be valid".  Every edit is refused.
ASSUME MCDefaultAccepted == MCAccepted = {App!DefaultConfig, MCWith(TRUE, Features)}

\* What start reads of a configuration.  Services run behind a CSI source only.
MCOf(app) ==
  [source |-> IF app.replay.enabled THEN "csi" ELSE "synthetic",
   depth |-> IF app.replay.enabled THEN App!Depth(app) ELSE 0,
   native |-> app.replay.enabled /\ app.dsp.backend = "cpp", frames |-> 3]
MCConfigs == {MCOf(app) : app \in MCAccepted}

MCShortConfigs == {[source |-> "csi", depth |-> 1, native |-> FALSE, frames |-> 1]}
=============================================================================
