----------------------------- MODULE MCGpuMiner -----------------------------
(* Instances of GpuMiner for TLC.                                          *)
EXTENDS GpuMiner

\* The wins are spread so that in a space of four to six nonces job 1
\* has two in its first batch, and job 2 one at the end of the space.
MCWinning == {<<1, 0>>, <<1, 2>>, <<2, 1>>, <<2, 5>>}

=============================================================================
