--------------------------- MODULE ChannelChange ----------------------------
(***************************************************************************)
(* The channel-change observation (core/perception): how much of a feature *)
(* vector's motion the profile calls a change, and how far it is to be     *)
(* trusted.  Scores, thresholds and margins are in thousandths.            *)
(***************************************************************************)
EXTENDS Integers, FiniteSets, Sequences, Spectral

ChannelChangeProfile ==
  [rmsScale : Nat, p95Scale : Nat, stable : Nat, high : Nat, minimumMargin : Nat,
   maximumJitter : Nat]

\* ChannelChangeProfile::validate
ValidObservationProfile(profile) ==
  /\ profile.rmsScale > 0 /\ profile.p95Scale > 0
  /\ 0 <= profile.stable /\ profile.stable < profile.high
  /\ profile.minimumMargin >= 0 /\ profile.maximumJitter >= 0

\* clamp01, of a share of scale
Clamp01(value, scale) == IF value > scale THEN 1000 ELSE (1000 * value) \div scale

\* The score: half of it is the RMS, half the 95th percentile.
Score(values, profile) ==
  (Clamp01(values.rms, profile.rmsScale) + Clamp01(values.p95, profile.p95Scale)) \div 2

Smaller(a, b) == IF a < b THEN a ELSE b

\* threshold_margin: how far the score is from the nearest threshold.
ThresholdMargin(score, stable, high) ==
  CASE score < stable -> stable - score
    [] stable <= score /\ score < high -> Smaller(score - stable, high - score)
    [] high <= score -> score - high

\* normalize_margin
NormalizeMargin(margin, profile) == Clamp01(margin, profile.high - profile.stable)

\* What makes an observation indeterminate.
IndeterminateReasons(vector, margin, profile) ==
  {r \in {"jitter", "warnings", "margin"} :
     \/ r = "jitter" /\ JitterExceeds(vector.values.sampling, profile.maximumJitter)
     \/ r = "warnings" /\ vector.warnings > 0
     \/ r = "margin" /\ margin < profile.minimumMargin}

\* The state that a score is in.
StateOf(reasons, score, profile) ==
  CASE reasons # {} -> "indeterminate"
    [] reasons = {} /\ score < profile.stable -> "stable"
    [] reasons = {} /\ profile.stable <= score /\ score < profile.high -> "changing"
    [] OTHER -> "highly_changing"

\* heuristic_reliability: from the margin and the support, less what warnings
\* and jitter cost; at most 850.
HeuristicReliability(margin, warnings, values, profile) ==
  LET support == (Smaller(1000, (1000 * values.frames) \div 16)
                    + Smaller(1000, (1000 * values.links) \div 4)) \div 2
      jitter == IF profile.maximumJitter = 0 THEN 0
                ELSE Clamp01(100 * values.sampling.deviation,
                             profile.maximumJitter * values.sampling.median) \div 4
      raw == 350 + (450 * NormalizeMargin(margin, profile)) \div 1000 + support \div 5
               - Smaller(100 * warnings, 500) - jitter
  IN  IF raw < 0 THEN 0 ELSE Smaller(raw, 850)

\* observe_channel_change.  The reasons are warnings of the observation, which
\* the reliability counts.
ObserveChannelChange(vector, profile) ==
  LET values == vector.values
      score == Score(values, profile)
      margin == ThresholdMargin(score, profile.stable, profile.high)
      reasons == IndeterminateReasons(vector, margin, profile)
      warnings == vector.warnings + Cardinality(reasons)
  IN  [state |-> StateOf(reasons, score, profile), score |-> score, margin |-> margin,
       warnings |-> warnings,
       reliability |-> HeuristicReliability(margin, warnings, values, profile)]
=============================================================================
