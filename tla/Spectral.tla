------------------------------ MODULE Spectral ------------------------------
(***************************************************************************)
(* What the DSP service computes from a window (core/dsp): the sampling of *)
(* the window, the spectrum of the motion energies of every link and of    *)
(* their mean, and the warning that no spectrum has a peak.                *)
(*                                                                         *)
(* Everything is in integers: an interval is a number of ticks, the mean   *)
(* over the links is their sum, and a power is a constant times the power  *)
(* of the code.  A spectrum is that of Transitions = 6 energies: the least *)
(* number with three bins but DC, so that two can be equal and stand out   *)
(* from the mean, and with powers rational in the energies, but for the    *)
(* Hann weights, which are to one another as 1 to 2.618 and are rounded.   *)
(***************************************************************************)
EXTENDS Integers, Sequences, FiniteSets, Sums

Transitions == 6       \* motion energies of a window
ShortestSeries == 4    \* that has a spectrum

Greatest(seq) ==
  CHOOSE m \in {seq[i] : i \in DOMAIN seq} : \A i \in DOMAIN seq : seq[i] <= m

\* v is the k-th of the values, the least first.
IsRanked(seq, k, v) ==
  /\ Cardinality({i \in DOMAIN seq : seq[i] < v}) < k
  /\ k <= Cardinality({i \in DOMAIN seq : seq[i] <= v})

Sorted(seq) ==
  [k \in DOMAIN seq |-> CHOOSE v \in {seq[i] : i \in DOMAIN seq} : IsRanked(seq, k, v)]

Distance(a, b) == IF a < b THEN b - a ELSE a - b

-----------------------------------------------------------------------------
(***************************************************************************)
(* Sampling                                                                *)
(***************************************************************************)

\* Twice the median.
TwiceMedian(seq) ==
  LET sorted == Sorted(seq)
      mid == Len(seq) \div 2
  IN  IF Len(seq) % 2 = 0 THEN sorted[mid] + sorted[mid + 1] ELSE 2 * sorted[mid + 1]

\* Mutant: jitter is the mean distance from the median.
AnalyzeSamplingByMean(intervals) ==
  LET median == TwiceMedian(intervals)
  IN  [median |-> median,
       deviation |-> Sum([i \in DOMAIN intervals |-> Distance(2 * intervals[i], median)])
                       \div Len(intervals)]

\* analyze_sampling: the median interval and the largest distance from it,
\* both twice; jitter is their ratio.
AnalyzeSampling(intervals) ==
  LET median == TwiceMedian(intervals)
  IN  [median |-> median,
       deviation |-> Greatest([i \in DOMAIN intervals |-> Distance(2 * intervals[i], median)])]

\* jitter > percent / 100
JitterExceeds(sampling, percent) == 100 * sampling.deviation > percent * sampling.median

\* Why a window has no spectrum: two frames were captured at once, the
\* intervals differ too much, or there are too few.
WindowError(intervals, motion, tolerance) ==
  CASE \E i \in DOMAIN intervals : intervals[i] = 0 -> "InvalidSampleRate"
    [] JitterExceeds(AnalyzeSampling(intervals), tolerance) -> "ExcessiveJitter"
    [] \E l \in DOMAIN motion : Len(motion[l]) < ShortestSeries -> "InsufficientLength"
    [] OTHER -> "none"

-----------------------------------------------------------------------------
(***************************************************************************)
(* Motion energy                                                           *)
(***************************************************************************)

\* compute_motion_energy: the sum over the links at each transition.
Aggregate(motion) ==
  [t \in DOMAIN motion[1] |-> Sum([l \in DOMAIN motion |-> motion[l][t]])]

-----------------------------------------------------------------------------
(***************************************************************************)
(* Spectra                                                                 *)
(***************************************************************************)

\* hann_window(6), times 8.8 and rounded.
HannWindow == <<0, 3, 8, 8, 3, 0>>

\* center_and_apply_hann, times 53.
CenterAndApplyHann(signal) ==
  [i \in DOMAIN signal |-> HannWindow[i] * (Len(signal) * signal[i] - Sum(signal))]

\* The twiddle factors of 6 samples are sixths of a turn: twice the cosine, and
\* the sine over that of one sixth.
Cos(sixths) == <<2, 1, -1, -2, -1, 1>>[(sixths % 6) + 1]
Sin(sixths) == <<0, 1, 1, 0, -1, -1>>[(sixths % 6) + 1]

\* Four times the squared norm of a bin of the transform.
NormSqr(signal, bin) ==
  LET re == Sum([i \in DOMAIN signal |-> signal[i] * Cos(bin * (i - 1))])
      im == Sum([i \in DOMAIN signal |-> signal[i] * Sin(bin * (i - 1))])
  IN  re * re + 3 * (im * im)

OneSidedLen(signal) == Len(signal) \div 2 + 1

\* Mutant: all bins but the first are doubled.
SpectrumDoublesNyquist(signal) ==
  LET windowed == CenterAndApplyHann(signal)
  IN  [b \in 1..OneSidedLen(signal) |->
         NormSqr(windowed, b - 1) * (IF b = 1 THEN 1 ELSE 2)]

\* spectrum_for_series: the power of the bins from DC to Nyquist, doubled
\* between them.
SpectrumForSeries(signal) ==
  LET windowed == CenterAndApplyHann(signal)
      last == OneSidedLen(signal)
  IN  [b \in 1..last |->
         NormSqr(windowed, b - 1) * (IF b = 1 \/ (Len(signal) % 2 = 0 /\ b = last) THEN 1 ELSE 2)]

NoPeak == 0    \* no dominant frequency: bin 0 is never one

\* Mutant: the search for the strongest bin begins with DC.
DominantWithDc(power) ==
  LET rest == Tail(power)
      best == Greatest(power)
  IN  IF best <= 0 \/ 100 * Len(rest) * best < 105 * Sum(rest) THEN NoPeak
      ELSE (CHOOSE b \in DOMAIN power : power[b] = best /\ \A c \in 1..(b - 1) : power[c] < best) - 1

\* dominant_non_dc: the first of the strongest bins, when it is 5 % above the
\* mean of the bins.
DominantNonDc(power) ==
  LET rest == Tail(power)
      best == Greatest(rest)
  IN  IF best <= 0 \/ 100 * Len(rest) * best < 105 * Sum(rest) THEN NoPeak
      ELSE CHOOSE b \in DOMAIN rest : rest[b] = best /\ \A c \in 1..(b - 1) : rest[c] < best

-----------------------------------------------------------------------------
(***************************************************************************)
(* The result of a window                                                  *)
(***************************************************************************)

\* analyze_spectrum: one warning when no link has a peak.
PeakWarnings(links) ==
  IF \A l \in DOMAIN links : DominantNonDc(links[l]) = NoPeak THEN 1 ELSE 0

\* process_window.  The result carries the warnings of its spectra a second
\* time.
ProcessWindow(intervals, motion) ==
  LET aggregate == Aggregate(motion)
      links == [l \in DOMAIN motion |-> SpectrumForSeries(motion[l])]
      spectrum == SpectrumForSeries(aggregate)
      warnings == PeakWarnings(links)
  IN  [sampling |-> AnalyzeSampling(intervals), frames |-> Len(intervals) + 1,
       motion |-> motion, aggregate |-> aggregate,
       links |-> links, spectrum |-> spectrum,
       spectraWarnings |-> warnings, warnings |-> warnings]

\* DspWindowResult::dominant_non_dc_hz: of the aggregate, else of the first
\* link that has one.
ResultDominant(result) ==
  LET peaks == SelectSeq(<<DominantNonDc(result.spectrum)>>
                           \o [l \in DOMAIN result.links |-> DominantNonDc(result.links[l])],
                         LAMBDA p : p # NoPeak)
  IN  IF peaks = <<>> THEN NoPeak ELSE peaks[1]
=============================================================================
