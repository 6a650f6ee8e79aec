------------------------- MODULE MCPluginLifecycle --------------------------
(* Instances of PluginLifecycle for TLC.                                   *)
EXTENDS PluginLifecycle

\* The two plugins in both orders, one alone, and lists with a factory that
\* fails, one whose plugin has the wrong identifier, and one that repeats.
MCFactories ==
  LET makes(p) == [announces |-> p, creates |-> p]
      wrong == [announces |-> "replay", creates |-> "synthetic"]
      fails == [announces |-> "replay", creates |-> "error"]
  IN  { <<makes("replay"), makes("synthetic")>>,
        <<makes("replay"), makes("replay"), makes("synthetic")>>,
        <<makes("synthetic"), wrong, makes("replay")>>,
        <<fails, makes("synthetic")>>,
        <<makes("replay"), fails>> }
MCShortFactories == { <<[announces |-> "replay", creates |-> "replay"]>> }

\* Without the fairness, for the run that looks for a single bad state.
MCSpec == Init /\ [][Next]_vars
=============================================================================
