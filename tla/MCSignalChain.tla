--------------------------- MODULE MCSignalChain ----------------------------
(***************************************************************************)
(* Two links of three subcarriers, unevenly spaced, in eighths of a turn.  *)
(* The steepest drift aliases.  Tolerances are such that late frames pass  *)
(* the DSP service, and are left to the observation to refuse.             *)
(***************************************************************************)
EXTENDS SignalChain

MCIndices == <<-1, 1, 2>>

Link(powers, phases) == [i \in 1..3 |-> [power |-> powers[i], phase |-> phases[i]]]

Near == Link(<<1, 1, 1>>, <<0, 1, 0>>)
Far == Link(<<1, 2, 1>>, <<0, 0, 1>>)
MCShapes == {Near, Far}
MCChannels == {<<Near, Near>>, <<Far, Near>>, <<Far, Far>>}
MCDead == Link(<<0, 0, 0>>, <<0, 0, 0>>)

MCDrifts ==
  {[gain |-> 1, offset |-> 0, slope |-> 0], [gain |-> 2, offset |-> 3, slope |-> 1],
   [gain |-> 1, offset |-> -3, slope |-> -1], [gain |-> 1, offset |-> 1, slope |-> 2]}
MCSteady == {[gain |-> 1, offset |-> 0, slope |-> 0]}

MCMalformed ==
  {[rx |-> 2, tx |-> 1, indices |-> <<1, 1, 1>>,
    samples |-> Link(<<1, 1, 1>>, <<0, 1, 0>>) \o Link(<<1, 1, 1>>, <<0, 0, 1>>)],
   [rx |-> 2, tx |-> 1, indices |-> MCIndices, samples |-> MCDead],
   [rx |-> 1, tx |-> 1, indices |-> MCIndices, samples |-> Link(<<1, 1, NotFinite>>, <<0, 0, 0>>)]}

\* All frames are in time; one is lost, or late, or stamped like the one before
\* it; half of them, or all, are late or lost.
MCTimings ==
  {<<10, 10, 10, 10, 10, 10>>, <<10, 20, 10, 10, 10, 10>>, <<10, 12, 8, 10, 10, 10>>,
   <<10, 10, 12, 10, 12, 10>>, <<10, 10, 0, 10, 10, 10>>, <<12, 12, 12, 10, 10, 10>>,
   <<20, 20, 20, 20, 20, 20>>}

MCProfile ==
  [rmsScale |-> 150, p95Scale |-> 200, stable |-> 400, high |-> 700,
   minimumMargin |-> 50, maximumJitter |-> 10]

ASSUME MCLosses == Resolvable
=============================================================================
