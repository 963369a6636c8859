---------------------------- MODULE MCMiningPool ----------------------------
(* Instances of MiningPool for TLC.                                        *)
EXTENDS MiningPool

\* Two workers own {0, 1} and {2, 3, 4}: a full batch of two nonces each,
\* and for the second worker a truncated one.  Job 1 has a win at the first
\* nonce of a full batch and one at the last; job 2 in the truncated batch.
MCWinning == {<<1, 0>>, <<1, 3>>, <<2, 4>>}

=============================================================================
