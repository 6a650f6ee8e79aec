---------------------------- MODULE SignalChain -----------------------------
(***************************************************************************)
(* What happens to the numbers of a sensor: a captured frame is validated  *)
(* and calibrated stage by stage, the motion between calibrated frames     *)
(* fills a window, and a full window is analysed, described by features    *)
(* and observed.  CsiPipeline has the queues between these workers, and    *)
(* WindowAssembler the windows; here windows do not overlap and there is   *)
(* one frame under way.                                                    *)
(*                                                                         *)
(* A frame is what the channel did to it, a shape for each link, and what  *)
(* the receiver did: a gain, an offset of the phase and a slope of it over *)
(* the subcarriers, the same on all links.  Motion energy, a distance      *)
(* between frames, is only known to be zero or not.                        *)
(***************************************************************************)
EXTENDS Calibration, Features, ChannelChange

CONSTANTS
  Indices,           \* the subcarrier indices of the frames
  Shapes,            \* what a link may look like: powers and phases
  Channels,          \* what all links may look like at a time
  Dead,              \* a link without power
  Drifts,            \* what a receiver may do to one of the first two frames
  Steady,            \* what it does to the others
  Malformed,         \* frames that are not valid
  Receivers,         \* the number of receive antennas, with one to transmit
  Tick,              \* the time between frames, when none is lost or late
  Timings,           \* bound on the intervals of a window: what they may be
  MaxEnergy,         \* bound on motion energies
  Tolerance,         \* of jitter, in percent
  Profile            \* of the observations

ASSUME ProfileConfig == Profile \in ChannelChangeProfile /\ ValidObservationProfile(Profile)

Shape == [1..Len(Indices) -> [power : Nat, phase : Int]]
Drift == [gain : Nat \ {0}, offset : Int, slope : Int]

\* The frame does not go on along its subcarriers, has samples too few or too
\* many, or one that is not a number.
Defective(frame) ==
  \/ \E i \in 1..(Len(frame.indices) - 1) : ~(frame.indices[i] < frame.indices[i + 1])
  \/ Len(frame.samples) # frame.rx * frame.tx * Len(frame.indices)
  \/ \E i \in DOMAIN frame.samples : frame.samples[i].power = NotFinite

ASSUME FrameConfig ==
  /\ Indices \in Seq(Int) /\ Receivers \in Nat \ {0}
  /\ Shapes \subseteq Shape /\ Dead \in Shape /\ Channels \subseteq [1..Receivers -> Shapes]
  /\ Drifts \subseteq Drift /\ Steady \subseteq Drift
  /\ \A frame \in Malformed : Defective(frame)
  /\ MaxEnergy \in Nat /\ Tick \in Nat /\ Timings \subseteq [1..Transitions -> Nat]

VARIABLES
  raw,               \* the frame under way, with the truth about it
  buffer,            \* its calibration buffer
  stage,             \* the stages it is through
  since,             \* its time since the last calibrated frame
  last,              \* that frame: its buffer and the truth about it
  intervals,         \* of the window
  motion,            \* of the window: the energies of every link
  result,            \* of the last window
  vector,            \* of that result
  observation        \* of that vector
chain == <<raw, buffer, stage, since, last, intervals, motion, result, vector, observation>>

None == [none |-> TRUE]    \* no frame, buffer, result, vector or observation

Antennas == 1..Receivers
Stages == BuildStages(BaselineCsiV1)

-----------------------------------------------------------------------------
(***************************************************************************)
(* The receiver                                                            *)
(***************************************************************************)

\* A link of a captured frame: the phase is what arg() gives, that of a sample
\* without power is 0.
Received(shape, drift) ==
  [i \in DOMAIN shape |->
     [power |-> drift.gain * shape[i].power,
      phase |-> IF shape[i].power = 0 THEN 0
                ELSE Principal(shape[i].phase + drift.offset + drift.slope * Indices[i], Turn)]]

CapturedFrame(shapes, drift) ==
  LET n == Len(Indices)
  IN  [rx |-> Receivers, tx |-> 1, indices |-> Indices,
       samples |-> [j \in 1..(Receivers * n) |->
                      Received(shapes[((j - 1) \div n) + 1], drift)[((j - 1) % n) + 1]]]

\* The phase can be followed over the subcarriers: there are some, they have
\* power, and a step between them is less than half a turn.
Unaliased(shape, drift) ==
  /\ Len(Indices) > 1
  /\ \A i \in DOMAIN shape : shape[i].power > 0
  /\ \A i \in 1..(Len(Indices) - 1) :
       2 * Distance(shape[i + 1].phase - shape[i].phase,
                    drift.slope * (Indices[i] - Indices[i + 1])) < Turn

-----------------------------------------------------------------------------
(***************************************************************************)
(* Steps                                                                   *)
(***************************************************************************)

Init ==
  /\ raw = None /\ buffer = None /\ stage = 0 /\ since = 0
  /\ last = None /\ intervals = <<>> /\ motion = [l \in Antennas |-> <<>>]
  /\ result = None /\ vector = None /\ observation = None

First == intervals = <<>>
Likely == IF First THEN Drifts ELSE Steady
Full == Len(intervals) = Transitions

Frames(channels, drifts) ==
  {[frame |-> CapturedFrame(shapes, drift), shapes |-> shapes, drift |-> drift] :
     shapes \in channels, drift \in drifts}

\* Frames that will not get through calibration.
Silent == {[shapes EXCEPT ![l] = Dead] : shapes \in Channels, l \in Antennas}
Losses ==
  {[frame |-> frame, shapes |-> <<>>, drift |-> <<>>] : frame \in Malformed} \cup Frames(Silent, Steady)

\* What the next interval of the window may be.
NextIntervals ==
  {timing[Len(intervals) + 1] :
     timing \in {t \in Timings : \A i \in DOMAIN intervals : t[i] = intervals[i]}}

\* A frame is captured, any of the intervals that there may be after the last
\* calibrated one; or one is on the way there that will be lost.
Capture ==
  /\ raw = None /\ ~Full
  /\ \/ /\ raw' \in Frames(Channels, Likely)
        /\ since' \in IF last = None THEN {0} ELSE NextIntervals
     \/ /\ raw' \in Losses
        /\ \/ last = None /\ since' = 0
           \/ /\ last # None /\ since' = Tick
              /\ \E interval \in NextIntervals : Tick < interval
  /\ UNCHANGED <<buffer, stage, last, intervals, motion, result, vector, observation>>

\* A frame that cannot be constructed does not reach calibration.
Refuse ==
  /\ raw # None /\ buffer = None /\ ~TryNew(raw.frame)
  /\ raw' = None
  /\ UNCHANGED <<buffer, stage, since, last, intervals, motion, result, vector, observation>>

\* CalibrationPipeline::calibrate copies the samples ...
BeginCalibration ==
  /\ raw # None /\ buffer = None /\ TryNew(raw.frame)
  /\ buffer' = FromFrame(raw.frame) /\ stage' = 0
  /\ UNCHANGED <<raw, since, last, intervals, motion, result, vector, observation>>

\* ... applies its stages in order ...
ApplyStage ==
  /\ buffer # None /\ stage < Len(Stages)
  /\ StageError(buffer, Stages[stage + 1]) = "none"
  /\ buffer' = Apply(buffer, Stages[stage + 1])
  /\ stage' = stage + 1
  /\ UNCHANGED <<raw, since, last, intervals, motion, result, vector, observation>>

\* ... and drops the frame when one of them fails.
StageFails ==
  /\ buffer # None /\ stage < Len(Stages)
  /\ StageError(buffer, Stages[stage + 1]) # "none"
  /\ raw' = None /\ buffer' = None /\ stage' = 0
  /\ UNCHANGED <<since, last, intervals, motion, result, vector, observation>>

\* motion_energy: zero exactly between equal samples.
Energies(l) ==
  IF SameLink(last.buffer.links[l], buffer.links[l]) THEN {0} ELSE 1..MaxEnergy

\* The calibrated frame joins the window; a full one takes its frames along.
Join ==
  /\ buffer # None /\ stage = Len(Stages)
  /\ IF last = None THEN UNCHANGED <<intervals, motion>>
     ELSE /\ intervals' = Append(intervals, since)
          /\ \E e \in [Antennas -> 0..MaxEnergy] :
               /\ \A l \in Antennas : e[l] \in Energies(l)
               /\ motion' = [l \in Antennas |-> Append(motion[l], e[l])]
  /\ last' = IF Len(intervals) = Transitions - 1 THEN None
             ELSE [buffer |-> buffer, shapes |-> raw.shapes, drift |-> raw.drift]
  /\ raw' = None /\ buffer' = None /\ stage' = 0 /\ since' = 0
  /\ UNCHANGED <<result, vector, observation>>

\* A full window that cannot be analysed is given up.
WindowFails ==
  /\ Full /\ result = None /\ raw = None
  /\ WindowError(intervals, motion, Tolerance) # "none"
  /\ intervals' = <<>> /\ motion' = [l \in Antennas |-> <<>>]
  /\ UNCHANGED <<raw, buffer, stage, since, last, result, vector, observation>>

Analyse ==
  /\ Full /\ result = None /\ raw = None
  /\ WindowError(intervals, motion, Tolerance) = "none"
  /\ result' = ProcessWindow(intervals, motion)
  /\ UNCHANGED <<raw, buffer, stage, since, last, intervals, motion, vector, observation>>

Extract ==
  /\ result # None /\ vector = None
  /\ vector' = ExtractFeatures(result)
  /\ UNCHANGED <<raw, buffer, stage, since, last, intervals, motion, result, observation>>

Observe ==
  /\ vector # None /\ observation = None
  /\ observation' = ObserveChannelChange(vector, Profile)
  /\ UNCHANGED <<raw, buffer, stage, since, last, intervals, motion, result, vector>>

\* The next window.
Proceed ==
  /\ observation # None
  /\ result' = None /\ vector' = None /\ observation' = None
  /\ intervals' = <<>> /\ motion' = [l \in Antennas |-> <<>>]
  /\ UNCHANGED <<raw, buffer, stage, since, last>>

Next ==
  \/ Capture \/ Refuse \/ BeginCalibration \/ ApplyStage \/ StageFails \/ Join
  \/ WindowFails \/ Analyse \/ Extract \/ Observe \/ Proceed

Spec == Init /\ [][Next]_chain

-----------------------------------------------------------------------------
(***************************************************************************)
(* Properties                                                              *)
(***************************************************************************)

\* A frame that CsiFrame::try_new accepts is calibrated unless a link has no
\* power: the regression of the detrending never degenerates.  No power stands
\* for an RMS amplitude of at most RMS_EPSILON, which is all that the code asks.
CalibrationFailsOnlyOnZeroEnergy ==
  buffer # None /\ stage < Len(Stages) /\ StageError(buffer, Stages[stage + 1]) # "none" =>
    \E l \in DOMAIN buffer.links : Sum(buffer.links[l].power) = 0

\* Unwrapped phases are those of the samples, but for whole turns, and no two
\* neighbours are more than half a turn apart, however often the phase wrapped.
UnwrappedIsContinuous ==
  stage = 1 =>
    \A l \in Antennas :
      LET phase == buffer.links[l].phase
          sent == LinkOf(raw.frame, l - 1, 0)
      IN  /\ \A i \in DOMAIN phase : (phase[i] - sent[i].phase) % Turn = 0
          /\ \A i \in 1..(Len(phase) - 1) : 2 * Distance(phase[i], phase[i + 1]) <= Turn

\* What the receiver did to a frame is no motion: two frames of one channel
\* are equal when they are calibrated, whatever the gain, offset and slope of
\* each, as long as the phase can be followed from subcarrier to subcarrier.
DriftShowsNoMotion ==
  buffer # None /\ stage = Len(Stages) /\ last # None =>
    \A l \in Antennas :
      raw.shapes[l] = last.shapes[l] /\ Unaliased(raw.shapes[l], raw.drift)
          /\ Unaliased(last.shapes[l], last.drift) =>
        SameLink(last.buffer.links[l], buffer.links[l])

\* Every series of a result with its spectrum.
Series ==
  {<<result.aggregate, result.spectrum>>}
    \cup {<<result.motion[l], result.links[l]>> : l \in DOMAIN result.links}

\* The power of a one-sided spectrum is that of the windowed series, four times
\* as NormSqr has it; of an even number of energies, with a Nyquist bin.
Parseval ==
  result # None =>
    \A s \in Series :
      LET windowed == CenterAndApplyHann(s[1])
      IN  Sum(s[2]) = 4 * Len(windowed) * Sum([i \in DOMAIN windowed |-> windowed[i] * windowed[i]])

Irregular == {i \in DOMAIN intervals : intervals[i] # Tick}

\* What FewLossesAreNotMotion is claimed of: the jitter that the profile allows
\* tells the intervals there may be from a tick.
Resolvable ==
  \A timing \in Timings, i \in 1..Transitions :
    timing[i] = Tick \/ 100 * Distance(timing[i], Tick) > Profile.maximumJitter * Tick

\* A window of which fewer than half of the intervals are irregular, because
\* frames were lost, late or stamped twice, is never observed as a state of
\* the channel.  With half of them, the median is no longer a tick: a window
\* may be observed as if all were well, and one that lost every other frame is.
FewLossesAreNotMotion ==
  observation # None /\ observation.state # "indeterminate"
      /\ 2 * Cardinality(Irregular) < Len(intervals) =>
    Irregular = {}

\* The frequency that the DSP service calls dominant and the one of the features
\* are the first and the last of the strongest bins, so that they differ only
\* when several are equally strong, as those of energies 0, 1, 1, 2, 1, 1 are, 1
\* to the service and 2 to the features; and the service has none, while the
\* features name one all the same, exactly when it is not 5 % above the mean.
DominantsDifferOnlyInTies ==
  result # None =>
    \A s \in Series :
      LET bins == Tail(s[2])
          strongest == {b \in DOMAIN bins : \A c \in DOMAIN bins : bins[c] <= bins[b]}
          dsp == DominantNonDc(s[2])
          features == ExtractSpectralFeatures(s[2])
      IN  /\ dsp = NoPeak <=>
               features.total = 0 \/ 100 * Len(bins) * features.dominantPower < 105 * features.total
          /\ dsp # NoPeak =>
               /\ {dsp, features.dominant} \subseteq strongest
               /\ \A b \in strongest : dsp <= b /\ b <= features.dominant

\* The percentiles of a series are in order, from the median, which is computed
\* by itself, to the maximum.
PercentilesInOrder(values) ==
  /\ Percentile(values, 50) = Median(values)
  /\ Percentile(values, 50) <= Percentile(values, 90)
  /\ Percentile(values, 90) <= Percentile(values, 95)
  /\ Percentile(values, 95) <= 100 * Greatest(values)

\* What a score rests on follows the motion: the percentiles of a window agree
\* with one another, and more motion is never observed as less, raising a motion
\* energy does not lower the score.
EvidenceFollowsMotion ==
  vector # None =>
    /\ PercentilesInOrder(Aggregate(motion))
    /\ \A l \in Antennas, t \in 1..Transitions :
         motion[l][t] < MaxEnergy =>
           LET more == Aggregate([motion EXCEPT ![l][t] = @ + 1])
           IN  Score([rms |-> Rms(more), p95 |-> Percentile(more, 95)], Profile)
                 >= Score(vector.values, Profile)
=============================================================================
