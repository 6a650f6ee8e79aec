--------------------------- MODULE Configuration ----------------------------
(***************************************************************************)
(* AppConfig: what a configuration file says, and what AppConfig::validate *)
(* accepts of it, section by section.                                      *)
(*                                                                         *)
(* Integers are unsigned.  A floating-point number is whether it is finite *)
(* and its value, in the unit that its section names.  A text is what the  *)
(* validation tells apart: an address by its form, a path by what is found *)
(* there, the name of a profile by whether it is the built-in one.         *)
(***************************************************************************)
EXTENDS Integers, Sequences

Number == [finite : BOOLEAN, value : Int]
Positive(x) == x.finite /\ x.value > 0
NotNegative(x) == x.finite /\ x.value >= 0

Finite(v) == [finite |-> TRUE, value |-> v]

Distinct(seq) == \A i, j \in DOMAIN seq : i # j => seq[i] # seq[j]

-----------------------------------------------------------------------------
(***************************************************************************)
(* The API and the sources                                                 *)
(***************************************************************************)

\* An origin is the part before "://", if there is one, and the host after it.
Origin == [scheme : {"none", "http", "https", "other"}, host : {"empty", "*", "named"}]

ApiConfig ==
  [enabled : BOOLEAN, host : {"empty", "address", "address_and_port", "name"}, port : Nat,
   origins : Seq(Origin)]

\* validate_cors_origin
OriginValid(origin) == origin.scheme \in {"http", "https"} /\ origin.host = "named"

\* A host is an IP address without a port.
ApiValid(api) ==
  /\ api.port # 0 /\ api.host = "address"
  /\ \A i \in DOMAIN api.origins : OriginValid(api.origins[i])

\* Frequencies are in millihertz, the amplitude in thousandths.
SyntheticConfig ==
  [enabled : BOOLEAN, interval : Nat, samples : Nat, rate : Number, primary : Number,
   secondary : Number, amplitude : Number, logEvery : Nat]

\* The whole section is validated, whether or not it is enabled.
SyntheticValid(synthetic) ==
  /\ synthetic.interval # 0 /\ synthetic.samples # 0 /\ synthetic.logEvery # 0
  /\ Positive(synthetic.rate)
  /\ \A frequency \in {synthetic.primary, synthetic.secondary} :
       NotNegative(frequency) /\ 2 * frequency.value <= synthetic.rate.value
  /\ synthetic.amplitude.finite

CsiReplayConfig ==
  [enabled : BOOLEAN, path : {"empty", "missing", "directory", "file"}, loop : BOOLEAN,
   interval : Nat, maximum : Nat]

CsiReplayValid(replay) ==
  /\ replay.interval # 0
  /\ replay.enabled => replay.path = "file"

-----------------------------------------------------------------------------
(***************************************************************************)
(* The services                                                            *)
(***************************************************************************)

\* The epsilon is in 1e-8.
CalibrationConfig ==
  [enabled : BOOLEAN, builtIn : BOOLEAN, capacity : Nat,
   unwrap : BOOLEAN, detrend : BOOLEAN, normalize : BOOLEAN, epsilon : Number]

\* baseline_csi_v1_with: the stages in their order.
BaselineCsi(c) ==
  <<[id |-> "phase_unwrap", enabled |-> c.unwrap],
    [id |-> "linear_phase_detrend", enabled |-> c.detrend],
    [id |-> "rms_amplitude_normalize", enabled |-> c.normalize, epsilon |-> c.epsilon]>>

\* CalibrationProfile::validate: the epsilon must be valid even when its stage
\* is disabled.
CalibrationProfileValid(stages) ==
  /\ \E i \in DOMAIN stages : stages[i].enabled
  /\ Distinct([i \in DOMAIN stages |-> stages[i].id])
  /\ \A i \in DOMAIN stages :
       stages[i].id = "rms_amplitude_normalize" => Positive(stages[i].epsilon)

\* The queue's capacity is checked even when the service is disabled.
CalibrationValid(c) ==
  c.capacity # 0 /\ (c.enabled => c.builtIn /\ CalibrationProfileValid(BaselineCsi(c)))

\* The tolerance is in thousandths.
DspConfig ==
  [enabled : BOOLEAN, builtIn : BOOLEAN, backend : {"rust", "cpp"}, capacity : Nat,
   window : Nat, hop : Nat, gap : Nat, tolerance : Number]

\* assembler_config: the assembler is told of a queue that holds a window,
\* whatever the capacity of the real one.
AssemblerConfig(d) ==
  [window |-> d.window, hop |-> d.hop, gap |-> d.gap, tolerance |-> d.tolerance,
   queue |-> IF d.capacity < d.window THEN d.window ELSE d.capacity]

\* AssemblerConfig::validate
AssemblerValid(a) ==
  /\ a.window > 1
  /\ 0 < a.hop /\ a.hop <= a.window
  /\ 0 < a.queue /\ a.window <= a.queue
  /\ NotNegative(a.tolerance)

\* DspProfile::validate, of the profile that resolve_profile makes.
DspProfileValid(d) ==
  AssemblerValid([window |-> d.window, hop |-> d.hop, gap |-> 1, tolerance |-> d.tolerance,
                  queue |-> d.window])

\* compiled are the backends that this build has.
DspValid(d, compiled) ==
  d.enabled =>
    /\ d.builtIn /\ d.backend \in compiled /\ d.capacity # 0
    /\ AssemblerValid(AssemblerConfig(d)) /\ DspProfileValid(d)

ServiceConfig == [enabled : BOOLEAN, builtIn : BOOLEAN, capacity : Nat]

\* FeatureId::ALL
FeatureIds ==
  <<"motion_energy_mean", "motion_energy_standard_deviation", "motion_energy_rms",
    "motion_energy_minimum", "motion_energy_maximum", "motion_energy_median",
    "motion_energy_p90", "motion_energy_p95", "motion_energy_range",
    "motion_energy_mean_absolute_delta", "motion_energy_peak_to_mean_ratio",
    "total_non_dc_power", "dominant_non_dc_frequency_hz", "dominant_non_dc_power",
    "spectral_centroid_hz", "spectral_bandwidth_hz", "spectral_entropy", "spectral_flatness",
    "low_frequency_power_ratio", "middle_frequency_power_ratio", "high_frequency_power_ratio",
    "effective_sample_rate_hz", "timestamp_jitter", "frame_count", "link_count">>

WindowMetadata == {"effective_sample_rate_hz", "timestamp_jitter", "frame_count", "link_count"}

\* definition_for: what the feature is of, and whether its value means something
\* only together with the DSP profile.
DefinitionFor(id) ==
  [id |-> id, scope |-> IF id \in WindowMetadata THEN "window_metadata" ELSE "aggregate",
   provenance |-> id \notin {"frame_count", "link_count"}]

\* csi_channel_features_v1 and baseline_features_v1, by their names.
Schema ==
  [id |-> "csi-channel-features-v1", version |-> 1,
   features |-> [i \in DOMAIN FeatureIds |-> DefinitionFor(FeatureIds[i])]]
BaselineFeatures ==
  [id |-> "baseline-features-v1", version |-> 1, dsp |-> <<"baseline-dsp-v1", 1>>,
   schema |-> <<"csi-channel-features-v1", 1>>, features |-> FeatureIds, flatness |-> Finite(1)]

\* FeatureSchema::validate
SchemaValid(schema) ==
  /\ schema.version # 0 /\ schema.features # <<>>
  /\ Distinct([i \in DOMAIN schema.features |-> schema.features[i].id])

\* FeatureSchema::assert_compatible
Compatible(schema, named) == named = <<schema.id, schema.version>>

\* FeatureProfile::validate
FeatureProfileValid(profile) ==
  /\ profile.version # 0 /\ profile.dsp = <<"baseline-dsp-v1", 1>>
  /\ Compatible(Schema, profile.schema)
  /\ profile.features # <<>> /\ Distinct(profile.features)
  /\ Positive(profile.flatness)

FeaturesValid(f) ==
  f.enabled => f.builtIn /\ f.capacity # 0 /\ FeatureProfileValid(BaselineFeatures)

\* All are in thousandths.
ThresholdConfig ==
  [rmsScale : Number, p95Scale : Number, stable : Number, high : Number, minimumMargin : Number,
   maximumJitter : Number]

PerceptionConfig ==
  [enabled : BOOLEAN, builtIn : BOOLEAN, capacity : Nat, thresholds : ThresholdConfig]

\* ChannelChangeProfile::validate, of what to_profile makes of the section.
ThresholdsValid(t) ==
  /\ Positive(t.rmsScale) /\ Positive(t.p95Scale)
  /\ NotNegative(t.stable) /\ t.high.finite /\ t.stable.value < t.high.value
  /\ NotNegative(t.minimumMargin) /\ NotNegative(t.maximumJitter)

PerceptionValid(p) ==
  p.enabled => p.builtIn /\ p.capacity # 0 /\ ThresholdsValid(p.thresholds)

-----------------------------------------------------------------------------
(***************************************************************************)
(* The application                                                         *)
(***************************************************************************)

AppConfig ==
  [api : ApiConfig, synthetic : SyntheticConfig, replay : CsiReplayConfig,
   calibration : CalibrationConfig, dsp : DspConfig, features : ServiceConfig,
   perception : PerceptionConfig]

\* Each service needs the one before it, and there is one source.
Dependencies(app) ==
  /\ app.dsp.enabled => app.calibration.enabled
  /\ app.features.enabled => app.dsp.enabled
  /\ app.perception.enabled => app.features.enabled
  /\ ~(app.synthetic.enabled /\ app.replay.enabled)

\* AppConfig::validate
Accepted(app, compiled) ==
  /\ ApiValid(app.api) /\ SyntheticValid(app.synthetic) /\ CsiReplayValid(app.replay)
  /\ CalibrationValid(app.calibration) /\ DspValid(app.dsp, compiled)
  /\ FeaturesValid(app.features) /\ PerceptionValid(app.perception)
  /\ Dependencies(app)

\* DEFAULT_CONFIG
DefaultConfig ==
  LET local == [scheme |-> "http", host |-> "named"]
      service == [enabled |-> FALSE, builtIn |-> TRUE, capacity |-> 64]
  IN
  [api |-> [enabled |-> TRUE, host |-> "address", port |-> 8080, origins |-> <<local, local>>],
   synthetic |-> [enabled |-> TRUE, interval |-> 100, samples |-> 64, rate |-> Finite(1000000),
                  primary |-> Finite(10000), secondary |-> Finite(37000),
                  amplitude |-> Finite(250), logEvery |-> 10],
   replay |-> [enabled |-> FALSE, path |-> "file", loop |-> FALSE, interval |-> 100,
               maximum |-> 0],
   calibration |-> [enabled |-> TRUE, builtIn |-> TRUE, capacity |-> 64, unwrap |-> TRUE,
                    detrend |-> TRUE, normalize |-> TRUE, epsilon |-> Finite(1)],
   dsp |-> [enabled |-> FALSE, builtIn |-> TRUE, backend |-> "rust", capacity |-> 64,
            window |-> 16, hop |-> 4, gap |-> 1, tolerance |-> Finite(100)],
   features |-> service,
   perception |-> [enabled |-> FALSE, builtIn |-> TRUE, capacity |-> 64,
                   thresholds |->
                     [rmsScale |-> Finite(350), p95Scale |-> Finite(550), stable |-> Finite(220),
                      high |-> Finite(550), minimumMargin |-> Finite(0),
                      maximumJitter |-> Finite(100)]]]

-----------------------------------------------------------------------------
(***************************************************************************)
(* What the runtime makes of a configuration                               *)
(***************************************************************************)

Enabled(app) == <<app.calibration.enabled, app.dsp.enabled, app.features.enabled,
                  app.perception.enabled>>

\* The number of services that run behind a CSI source; the other modules
\* start the services 1..Depth(app).
Depth(app) ==
  IF app.perception.enabled THEN 4 ELSE IF app.features.enabled THEN 3
  ELSE IF app.dsp.enabled THEN 2 ELSE IF app.calibration.enabled THEN 1 ELSE 0

\* The capacities of the services' queues.
Capacities(app) ==
  <<app.calibration.capacity, app.dsp.capacity, app.features.capacity, app.perception.capacity>>
=============================================================================
