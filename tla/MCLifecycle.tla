---------------------------- MODULE MCLifecycle -----------------------------
(* Instances of Lifecycle for TLC.                                         *)
EXTENDS Lifecycle, TLC

\* No process is told from another but by its name in the PID file.
Symmetry == Permutations(Instances)

=============================================================================
