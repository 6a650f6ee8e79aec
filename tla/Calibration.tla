---------------------------- MODULE Calibration -----------------------------
(***************************************************************************)
(* CSI frames (core/csi) and the stages that calibrate them                *)
(* (core/calibration), as operators.                                       *)
(*                                                                         *)
(* A sample is its power, the square of its magnitude, and its phase.      *)
(* Phases are integers, Turn of them in a turn; the residuals of the       *)
(* detrending, which are fractions, are integers in smaller units, and a   *)
(* buffer says how many of its units a turn has.  Sums do not overflow and *)
(* nothing but what a frame was made of is not finite.                     *)
(***************************************************************************)
EXTENDS Integers, Sequences, Sums

CONSTANT Turn    \* units in a turn of a raw phase

ASSUME TurnConfig == Turn \in Nat \ {0} /\ Turn % 2 = 0

MapSeq(seq, Op(_)) == [i \in DOMAIN seq |-> Op(seq[i])]

-----------------------------------------------------------------------------
(***************************************************************************)
(* Frames                                                                  *)
(***************************************************************************)

NotFinite == -1    \* the power of a sample that is not finite

\* Mutant: indices that repeat are not looked for.
TryNewRepeats(frame) ==
  /\ frame.rx > 0 /\ frame.tx > 0
  /\ frame.indices # <<>>
  /\ \A i \in 1..(Len(frame.indices) - 1) : frame.indices[i] <= frame.indices[i + 1]
  /\ Len(frame.samples) = frame.rx * frame.tx * Len(frame.indices)
  /\ \A i \in DOMAIN frame.samples : frame.samples[i].power # NotFinite

\* CsiFrame::try_new accepts the parts of a frame.
TryNew(frame) ==
  /\ frame.rx > 0 /\ frame.tx > 0
  /\ frame.indices # <<>>
  /\ \A i \in 1..(Len(frame.indices) - 1) : frame.indices[i] < frame.indices[i + 1]
  /\ Len(frame.samples) = frame.rx * frame.tx * Len(frame.indices)
  /\ \A i \in DOMAIN frame.samples : frame.samples[i].power # NotFinite

\* The antenna links of a frame, in the order of its samples.
Links(frame) == 1..(frame.rx * frame.tx)

\* The samples of the link of two antennas, counted from 0.
LinkOf(frame, rx, tx) ==
  LET start == (rx * frame.tx + tx) * Len(frame.indices)
  IN  SubSeq(frame.samples, start + 1, start + Len(frame.indices))

\* CalibrationBuffer::from_frame: the links with their phase plane.  The
\* powers are relative to mean, 0 when the link is not normalized.
FromFrame(frame) ==
  [indices |-> frame.indices, turn |-> Turn,
   links |-> [l \in Links(frame) |->
     LET samples == LinkOf(frame, (l - 1) \div frame.tx, (l - 1) % frame.tx)
     IN  [power |-> MapSeq(samples, LAMBDA s : s.power),
          phase |-> MapSeq(samples, LAMBDA s : s.phase), total |-> 0]]]

\* arg() of a sample whose phase is this one: in (-half a turn, half a turn].
Principal(phase, turn) ==
  IF 2 * (phase % turn) > turn THEN (phase % turn) - turn ELSE phase % turn

-----------------------------------------------------------------------------
(***************************************************************************)
(* The stages                                                              *)
(***************************************************************************)

\* Turns are taken from a difference, or added, while it is more than half a
\* turn: a difference of exactly half a turn keeps its sign.
Shortest(delta, turn) ==
  LET m == Principal(delta, turn)
  IN  IF 2 * m = turn /\ delta < 0 THEN m - turn ELSE m

\* Mutant: each phase is compared with the wrapped one before it.
UnwrapLinkByPairs(phase, turn) ==
  [i \in DOMAIN phase |->
     IF i = 1 THEN phase[1]
     ELSE phase[i - 1] + Shortest(Principal(phase[i], turn) - phase[i - 1], turn)]

\* unwrap_link
UnwrapLink(phase, turn) ==
  LET unwrapped[i \in 1..Len(phase)] ==
        IF i = 1 THEN phase[1]
        ELSE unwrapped[i - 1] + Shortest(Principal(phase[i], turn) - unwrapped[i - 1], turn)
  IN  unwrapped

\* fit_affine: the line through the points, over common denominators: its
\* slope is slope / spread, its intercept intercept / (n * spread).
FitAffine(xs, ys) ==
  LET n == Len(xs)
      sx == Sum(xs)  sy == Sum(ys)
      sxx == Sum([i \in 1..n |-> xs[i] * xs[i]])
      sxy == Sum([i \in 1..n |-> xs[i] * ys[i]])
      slope == n * sxy - sx * sy
      spread == n * sxx - sx * sx
  IN  [slope |-> slope, spread |-> spread, intercept |-> spread * sy - slope * sx]

\* By how much the units of the phases are divided by detrending.
Finer(indices) ==
  IF Len(indices) < 2 THEN 1 ELSE Len(indices) * FitAffine(indices, indices).spread

\* Mutant: the trend is taken along positions, not indices.
DetrendByPosition(indices, phase) ==
  LET n == Len(phase)
      fit == FitAffine([i \in 1..n |-> i], phase)
      finer == Finer(indices)
      own == n * fit.spread
  IN  IF n < 2 THEN phase
      ELSE [i \in 1..n |-> (finer * (own * phase[i] - n * fit.slope * i - fit.intercept)) \div own]

\* detrend_link: what is left of the phases when their line is taken away; a
\* link of one subcarrier has none.
DetrendLink(indices, phase) ==
  LET n == Len(phase)
      fit == FitAffine(indices, phase)
  IN  IF n < 2 THEN phase
      ELSE [i \in 1..n |-> n * fit.spread * phase[i] - n * fit.slope * indices[i] - fit.intercept]

\* A stage fails for the whole frame when it fails on a link.
StageError(buffer, stage) ==
  CASE stage = "linear_phase_detrend" /\ Len(buffer.indices) > 1
         /\ FitAffine(buffer.indices, buffer.indices).spread = 0 -> "DegenerateRegression"
    [] stage = "rms_amplitude_normalize" /\ (\E l \in DOMAIN buffer.links : Sum(buffer.links[l].power) = 0) ->
         "ZeroEnergyLink"
    [] OTHER -> "none"

\* normalize_link: the powers are relative to their mean, and the phase plane
\* is the principal phase of the samples again.
NormalizeLink(link, turn) ==
  [power |-> link.power, phase |-> MapSeq(link.phase, LAMBDA p : Principal(p, turn)),
   total |-> Sum(link.power)]

WithPhase(link, phase) == [link EXCEPT !.phase = phase]

\* The stages, on every link of a buffer.
PhaseUnwrap(buffer) ==
  [buffer EXCEPT !.links = [l \in DOMAIN buffer.links |->
     WithPhase(buffer.links[l], UnwrapLink(buffer.links[l].phase, buffer.turn))]]

LinearPhaseDetrend(buffer) ==
  [indices |-> buffer.indices, turn |-> buffer.turn * Finer(buffer.indices),
   links |-> [l \in DOMAIN buffer.links |->
     WithPhase(buffer.links[l], DetrendLink(buffer.indices, buffer.links[l].phase))]]

RmsAmplitudeNormalize(buffer) ==
  [buffer EXCEPT !.links =
     [l \in DOMAIN buffer.links |-> NormalizeLink(buffer.links[l], buffer.turn)]]

Apply(buffer, stage) ==
  CASE stage = "phase_unwrap" -> PhaseUnwrap(buffer)
    [] stage = "linear_phase_detrend" -> LinearPhaseDetrend(buffer)
    [] stage = "rms_amplitude_normalize" -> RmsAmplitudeNormalize(buffer)

-----------------------------------------------------------------------------
(***************************************************************************)
(* Profiles                                                                *)
(***************************************************************************)

StageId == {"phase_unwrap", "linear_phase_detrend", "rms_amplitude_normalize"}

\* CalibrationProfile::validate
ValidProfile(stages) ==
  /\ \E i \in DOMAIN stages : stages[i].enabled
  /\ \A i, j \in DOMAIN stages : i # j => stages[i].id # stages[j].id

\* build_stages: those that are enabled, in the order of the profile.
BuildStages(stages) ==
  LET built[n \in 0..Len(stages)] ==
        IF n = 0 THEN <<>>
        ELSE IF stages[n].enabled THEN Append(built[n - 1], stages[n].id) ELSE built[n - 1]
  IN  built[Len(stages)]

\* baseline_csi_v1
BaselineCsiV1 ==
  << [id |-> "phase_unwrap", enabled |-> TRUE],
     [id |-> "linear_phase_detrend", enabled |-> TRUE],
     [id |-> "rms_amplitude_normalize", enabled |-> TRUE] >>

\* Two calibrated frames have the same samples: a difference of samples, and
\* so the motion energy between the frames, is zero.
SameLink(a, b) ==
  \A i \in DOMAIN a.power :
    /\ a.power[i] * b.total = b.power[i] * a.total
    /\ a.power[i] > 0 => a.phase[i] = b.phase[i]
=============================================================================
