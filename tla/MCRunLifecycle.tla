--------------------------- MODULE MCRunLifecycle ---------------------------
(* Instances of RunLifecycle for TLC.                                      *)
EXTENDS RunLifecycle, TLC

\* Workers, operators and Runs are interchangeable: no property names one of them.
Symmetry == Permutations(Workers) \cup Permutations(Operators) \cup Permutations(Runs)
=============================================================================
