--------------------------- MODULE MCShareJourney ---------------------------
(* Bytes of 4 values, words of 3 bytes and digests of 3 words.  The second *)
(* job has two transactions besides the coinbase, the third a version with *)
(* the top bit set.                                                        *)
EXTENDS ShareJourney

MCJobs ==
  LET job(version, others, time) ==
        [version |-> version, prevHash |-> <<0, 1, 2, 3, 0, 2, 1, 3, 3>>,
         coinbase1 |-> <<1, 2>>, coinbase2 |-> <<3>>, others |-> others,
         bits |-> 27, timestamp |-> time]
  IN  <<job(6, <<>>, 9),
        job(30, <<<<1, 0, 0, 0, 0, 0, 0, 0, 2>>, <<3, 1, 0, 0, 0, 0, 0, 0, 0>>>>, 33),
        job(32, <<>>, 9)>>

(* Floats of 8 bits.  Of 1/8 the target has a first word that is not zero. *)
(* 179/256 is the float nearest to 0.7: the division rounds.  By 165/1024  *)
(* it rounds a quotient up, and a remainder becomes negative.              *)
MCDifficulties == {<<-1, 1>>, <<7, 2>>, <<1, 8>>, <<179, 256>>, <<165, 1024>>}
=============================================================================
