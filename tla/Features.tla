------------------------------ MODULE Features ------------------------------
(***************************************************************************)
(* The feature extractor (core/features): what the vector of a window says *)
(* of its motion energies and of their spectrum.                           *)
(*                                                                         *)
(* Values are in hundredths, rounded down, frequencies in tenths of a bin, *)
(* and ratios of power are kept as the powers.  Entropy and flatness,      *)
(* which are logarithms, are left out.                                     *)
(***************************************************************************)
EXTENDS Integers, Sequences, Spectral

Least(seq) ==
  CHOOSE m \in {seq[i] : i \in DOMAIN seq} : \A i \in DOMAIN seq : seq[i] >= m

\* The integer square root, rounded down.
Sqrt(n) == CHOOSE r \in 0..n : r * r <= n /\ n < (r + 1) * (r + 1)

-----------------------------------------------------------------------------
(***************************************************************************)
(* Statistics                                                              *)
(***************************************************************************)

Mean(values) == (100 * Sum(values)) \div Len(values)

\* population_std
PopulationStd(values) ==
  LET n == Len(values)
      delta == [i \in DOMAIN values |-> n * values[i] - Sum(values)]
  IN  Sqrt((10000 * Sum([i \in DOMAIN values |-> delta[i] * delta[i]])) \div (n * n * n))

\* rms
Rms(values) == Sqrt((10000 * Sum([i \in DOMAIN values |-> values[i] * values[i]])) \div Len(values))

Median(values) == 50 * TwiceMedian(values)

\* Mutant: the weights of the two neighbours are swapped.
PercentileSwapped(values, p) ==
  LET sorted == Sorted(values)
      rank == p * (Len(values) - 1)
      lower == rank \div 100
      weight == rank % 100
  IN  IF weight = 0 THEN 100 * sorted[lower + 1]
      ELSE sorted[lower + 1] * weight + sorted[lower + 2] * (100 - weight)

\* percentile: between the neighbours of rank p/100 * (n - 1).
Percentile(values, p) ==
  LET sorted == Sorted(values)
      rank == p * (Len(values) - 1)
      lower == rank \div 100
      weight == rank % 100
  IN  IF weight = 0 THEN 100 * sorted[lower + 1]
      ELSE sorted[lower + 1] * (100 - weight) + sorted[lower + 2] * weight

MeanAbsoluteDelta(values) ==
  LET n == Len(values) - 1
  IN  IF n = 0 THEN 0
      ELSE (100 * Sum([i \in 1..n |-> Distance(values[i], values[i + 1])])) \div n

\* peak_to_mean_ratio
PeakToMeanRatio(values) ==
  IF Sum(values) = 0 THEN 0 ELSE (100 * Greatest(values) * Len(values)) \div Sum(values)

-----------------------------------------------------------------------------
(***************************************************************************)
(* Spectral features                                                       *)
(***************************************************************************)

CeilDiv(a, b) == (a + b - 1) \div b

\* band_power_ratios: the powers of the thirds.
BandPowers(rest) ==
  LET n == Len(rest)
      lowEnd == CeilDiv(n, 3)
      midEnd == CeilDiv(2 * n, 3)
  IN  [low |-> Sum(SubSeq(rest, 1, lowEnd)), middle |-> Sum(SubSeq(rest, lowEnd + 1, midEnd)),
       high |-> Sum(SubSeq(rest, midEnd + 1, n))]

\* extract_spectral_features: of the bins but DC.  The dominant bin is the
\* last of the strongest; without power there is none.
ExtractSpectralFeatures(power) ==
  LET rest == Tail(power)
      total == Sum(rest)
      best == Greatest(rest)
      centroid == (10 * Sum([b \in DOMAIN rest |-> b * rest[b]])) \div total
      spread == Sum([b \in DOMAIN rest |-> rest[b] * (10 * b - centroid) * (10 * b - centroid)])
      bands == BandPowers(rest)
  IN  IF total = 0
      THEN [total |-> 0, dominant |-> 0, dominantPower |-> 0, centroid |-> 0, bandwidth |-> 0,
            low |-> 0, middle |-> 0, high |-> 0]
      ELSE [total |-> total, dominantPower |-> best,
            dominant |-> CHOOSE b \in DOMAIN rest : rest[b] = best
                                  /\ \A c \in (b + 1)..Len(rest) : rest[c] < best,
            centroid |-> centroid, bandwidth |-> Sqrt(spread \div total),
            low |-> bands.low, middle |-> bands.middle, high |-> bands.high]

-----------------------------------------------------------------------------
(***************************************************************************)
(* The vector                                                              *)
(***************************************************************************)

\* compute_ordered_values, by the names of the schema.
ComputeValues(motion, power, result) ==
  [mean |-> Mean(motion), std |-> PopulationStd(motion), rms |-> Rms(motion),
   minimum |-> 100 * Least(motion), maximum |-> 100 * Greatest(motion),
   median |-> Median(motion), p90 |-> Percentile(motion, 90), p95 |-> Percentile(motion, 95),
   range |-> 100 * (Greatest(motion) - Least(motion)), delta |-> MeanAbsoluteDelta(motion),
   peakRatio |-> PeakToMeanRatio(motion), spectral |-> ExtractSpectralFeatures(power),
   sampling |-> result.sampling, frames |-> result.frames, links |-> Len(result.links)]

\* extract_features: the values of the aggregate and of every link.
ExtractFeatures(result) ==
  [values |-> ComputeValues(result.aggregate, result.spectrum, result),
   linkFeatures |-> [l \in DOMAIN result.motion |->
                       ComputeValues(result.motion[l], result.links[l], result)],
   warnings |-> result.warnings + result.spectraWarnings]
=============================================================================
