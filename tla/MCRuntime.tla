------------------------------ MODULE MCRuntime ------------------------------
(* Instances of the agent runtime for TLC: the call threads are model      *)
(* values, interchangeable in the runs that check safety only.             *)
EXTENDS RuntimeProperties, TLC

Symmetry == Permutations(Threads)
=============================================================================
