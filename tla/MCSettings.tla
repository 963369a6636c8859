----------------------------- MODULE MCSettings -----------------------------
(***************************************************************************)
(* The machines, tunings, flags and old wallets of the instance that TLC   *)
(* checks.                                                                 *)
(***************************************************************************)
EXTENDS Settings

CONSTANTS p1, p2

\* Macs with a compiler, with no shader, and with a shader next to the binary;
\* a Linux machine.
MCMachines ==
  LET Mac == [macos |-> TRUE, cores |-> 8, fast |-> 6, tools |-> TRUE, beside |-> FALSE,
              built |-> "there", named |-> TRUE]
  IN {Mac,
      [Mac EXCEPT !.tools = FALSE, !.built = "none"],
      [Mac EXCEPT !.tools = FALSE, !.built = "none", !.beside = TRUE, !.fast = 8],
      [Mac EXCEPT !.macos = FALSE, !.fast = 0, !.tools = FALSE, !.built = "none"]}

\* A user who wants the GPU alone, and one who wants a little of everything.
MCFormTunings ==
  {[threads |-> 8, cpuOnly |-> FALSE, gpuOnly |-> TRUE, gpu |-> TRUE, intensity |-> 100,
    throttled |-> FALSE, minThreads |-> 1],
   [threads |-> 1, cpuOnly |-> TRUE, gpuOnly |-> FALSE, gpu |-> FALSE, intensity |-> 50,
    throttled |-> TRUE, minThreads |-> 0]}

MCFlags == {NoFlags, [NoFlags EXCEPT !.threads = 3], [NoFlags EXCEPT !.gpuOnly = TRUE]}

MCLegacies == {Legacy(p1, FALSE)}
=============================================================================
