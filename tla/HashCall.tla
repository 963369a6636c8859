------------------------------ MODULE HashCall ------------------------------
(***************************************************************************)
(* What a call of hash_range_midstate or hash_range_simple promises its    *)
(* caller, without the loop: one step that returns, while another thread   *)
(* may set should_stop at any time.  The worker threads of MiningPool use  *)
(* the call in this form; module HashRange models the loops that implement *)
(* it.                                                                     *)
(***************************************************************************)
EXTENDS Integers

CONSTANT Nonces       \* the values of a nonce, 0 .. u32::MAX

VARIABLES
  lo, hi,             \* nonce_start and nonce_end, end exclusive
  wins,               \* the nonces of this header whose hash meets the target
  stop,               \* should_stop
  outcome,            \* "running", or the HashResult returned
  tested              \* the nonces the call answers for

callVars == <<lo, hi, wins, stop, outcome, tested>>

CallInit ==
  /\ lo \in Nonces
  /\ hi \in Nonces
  /\ wins \in SUBSET Nonces
  /\ stop \in BOOLEAN
  /\ outcome = "running"
  /\ tested = {}

Range == {n \in Nonces : lo <= n /\ n < hi}

(* The least win of the range, everything before it tested.                *)
ReturnFound ==
  \E n \in Range \cap wins :
    /\ \A m \in Range \cap wins : n <= m
    /\ outcome' = "Found"
    /\ tested' = {m \in Range : m <= n}

(* No win in the range, all of it tested.                                  *)
ReturnExhausted ==
  /\ Range \cap wins = {}
  /\ outcome' = "Exhausted"
  /\ tested' = Range

(* Only when asked to stop, with no win in the part tested.                *)
ReturnStopped ==
  /\ stop
  /\ \E n \in Range :
       /\ tested' = {m \in Range : m < n}
       /\ tested' \cap wins = {}
  /\ outcome' = "Stopped"

Return ==
  /\ outcome = "running"
  /\ ReturnFound \/ ReturnExhausted \/ ReturnStopped
  /\ UNCHANGED <<lo, hi, wins, stop>>

RequestStop ==
  /\ ~stop
  /\ stop' = TRUE
  /\ UNCHANGED <<lo, hi, wins, outcome, tested>>

CallNext == Return \/ RequestStop

CallSpec == CallInit /\ [][CallNext]_callVars /\ WF_callVars(Return)
=============================================================================
