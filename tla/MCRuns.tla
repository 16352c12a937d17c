------------------------------- MODULE MCRuns -------------------------------
(* Instances of the control plane's runs for TLC: the sets are model       *)
(* values, interchangeable in the runs that check safety only.             *)
EXTENDS RunProperties, TLC

Symmetry ==
  Permutations(Runs) \cup Permutations(Requests) \cup Permutations(Keys)
    \cup Permutations(Tasks)
=============================================================================
