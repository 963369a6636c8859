----------------------------- MODULE HashRange ------------------------------
(***************************************************************************)
(* The inner loops of crates/mi-mining/src/hasher.rs: hash_range_midstate, *)
(* which counts down to its next look at should_stop and reports its hashes*)
(* to the shared statistics, and hash_range_simple, which does neither.    *)
(* The hash itself is abstracted to the set of nonces that win.            *)
(*                                                                         *)
(* An iteration is two steps, since should_stop is read in the first and a *)
(* hash is computed in the second.                                         *)
(***************************************************************************)
EXTENDS Integers

CONSTANTS
  MaxNonce,        \* u32::MAX
  CheckInterval    \* check_interval

ASSUME HashAssumption ==
  /\ MaxNonce \in Nat
  /\ CheckInterval \in Nat \ {0}

VARIABLES
  variant,         \* which of the two functions runs
  lo, hi, wins,    \* its arguments; wins stands for header and target
  stop,            \* should_stop, set by another thread
  pc,              \* "check", "test" or "done"
  nonce,           \* the loop variable, a u32
  counter,         \* the countdown
  hashesDone,      \* hashes_done
  since,           \* hashes_since_report
  reported,        \* what the call has added to stats.cpu_hashes
  outcome,         \* "running", or the HashResult returned
  tested,          \* history: the number of nonces hashed
  testedAfterStop  \* history: how many of them after should_stop was set

args    == <<variant, lo, hi, wins>>
counts  == <<hashesDone, since, reported, tested, testedAfterStop>>
vars    == <<args, stop, pc, nonce, counter, counts, outcome>>

Nonces == 0 .. MaxNonce
Width  == MaxNonce + 1

TypeOK ==
  /\ variant \in {"midstate", "simple"}
  /\ lo \in Nonces /\ hi \in Nonces /\ wins \subseteq Nonces
  /\ stop \in BOOLEAN
  /\ pc \in {"check", "test", "done"}
  /\ nonce \in Nonces
  /\ counter \in 1 .. CheckInterval
  /\ hashesDone \in Nat /\ since \in Nat /\ reported \in Nat
  /\ tested \in Nat /\ testedAfterStop \in Nat
  /\ outcome \in {"running", "Found", "Exhausted", "Stopped"}

Init ==
  /\ variant \in {"midstate", "simple"}
  /\ lo \in Nonces /\ hi \in Nonces /\ wins \in SUBSET Nonces
  /\ stop \in BOOLEAN
  /\ pc = "check"
  /\ nonce = lo
  /\ counter = CheckInterval
  /\ hashesDone = 0 /\ since = 0 /\ reported = 0
  /\ tested = 0 /\ testedAfterStop = 0
  /\ outcome = "running"

Returns(result) == pc' = "done" /\ outcome' = result

(* The loop condition fails: the rest is reported.                         *)
Finish ==
  /\ pc = "check"
  /\ nonce >= hi
  /\ reported' = IF variant = "midstate" THEN reported + since ELSE reported
  /\ Returns("Exhausted")
  /\ UNCHANGED <<args, stop, nonce, counter, hashesDone, since, tested, testedAfterStop>>

(* The countdown of hash_range_midstate.                                   *)
CountDown ==
  /\ pc = "check" /\ nonce < hi /\ variant = "midstate"
  /\ counter > 1
  /\ counter' = counter - 1
  /\ pc' = "test"
  /\ UNCHANGED <<args, stop, nonce, counts, outcome>>

\* Mutant: the hashes are reported but should_stop is not looked at.
ReportWithoutCheck ==
  /\ pc = "check" /\ nonce < hi /\ variant = "midstate"
  /\ counter = 1
  /\ counter' = CheckInterval
  /\ reported' = reported + since
  /\ since' = 0
  /\ pc' = "test"
  /\ UNCHANGED <<args, stop, nonce, hashesDone, tested, testedAfterStop, outcome>>

\* Mutant: the stop flag is taken for a reason to give up the whole range.
ReportAndGiveUp ==
  /\ pc = "check" /\ nonce < hi /\ variant = "midstate"
  /\ counter = 1
  /\ counter' = CheckInterval
  /\ reported' = reported + since
  /\ since' = 0
  /\ IF stop THEN Returns("Exhausted") ELSE pc' = "test" /\ UNCHANGED outcome
  /\ UNCHANGED <<args, stop, nonce, hashesDone, tested, testedAfterStop>>

ReportAndCheck ==
  /\ pc = "check" /\ nonce < hi /\ variant = "midstate"
  /\ counter = 1
  /\ counter' = CheckInterval
  /\ reported' = reported + since
  /\ since' = 0
  /\ IF stop THEN Returns("Stopped") ELSE pc' = "test" /\ UNCHANGED outcome
  /\ UNCHANGED <<args, stop, nonce, hashesDone, tested, testedAfterStop>>

(* The check of hash_range_simple.                                         *)
SimpleCheck ==
  /\ pc = "check" /\ nonce < hi /\ variant = "simple"
  /\ IF hashesDone % CheckInterval = 0 /\ hashesDone > 0 /\ stop
       THEN Returns("Stopped")
       ELSE pc' = "test" /\ UNCHANGED outcome
  /\ UNCHANGED <<args, stop, nonce, counter, counts>>

(* One hash computed and compared with the target.                         *)
Tested ==
  /\ pc = "test"
  /\ tested' = tested + 1
  /\ testedAfterStop' = IF stop THEN testedAfterStop + 1 ELSE testedAfterStop

\* Mutant: the winning hash itself is not counted.
TestWinUncounted ==
  /\ Tested
  /\ nonce \in wins
  /\ reported' = IF variant = "midstate" THEN reported + since ELSE reported
  /\ hashesDone' = hashesDone + 1
  /\ Returns("Found")
  /\ UNCHANGED <<args, stop, nonce, counter, since>>

TestWin ==
  /\ Tested
  /\ nonce \in wins
  /\ reported' = IF variant = "midstate" THEN reported + since + 1 ELSE reported
  /\ hashesDone' = hashesDone + 1
  /\ Returns("Found")
  /\ UNCHANGED <<args, stop, nonce, counter, since>>

(* The increment wraps; a wrap back to the start would leave the loop.     *)
TestMiss ==
  /\ Tested
  /\ nonce \notin wins
  /\ hashesDone' = hashesDone + 1
  /\ since' = since + 1
  /\ nonce' = (nonce + 1) % Width
  /\ IF nonce' = lo /\ lo # 0
       THEN /\ Returns("Exhausted")
            /\ reported' = IF variant = "midstate" THEN reported + since' ELSE reported
       ELSE pc' = "check" /\ UNCHANGED <<outcome, reported>>
  /\ UNCHANGED <<args, stop, counter>>

SetStop ==
  /\ ~stop
  /\ stop' = TRUE
  /\ UNCHANGED <<args, pc, nonce, counter, counts, outcome>>

Step == Finish \/ CountDown \/ ReportAndCheck \/ SimpleCheck \/ TestWin \/ TestMiss

Next == Step \/ SetStop

(* The loop runs on a thread of its own and never blocks.                  *)
Spec == Init /\ [][Next]_vars /\ WF_vars(Step)

-----------------------------------------------------------------------------
(* What a call that has returned reported to stats.cpu_hashes and returned *)
(* as its count is the number of nonces it hashed, however it ended.       *)
HashesAccounted ==
  outcome # "running" =>
    /\ hashesDone = tested
    /\ variant = "midstate" => reported = tested

(* The statistics never lag behind by more than one check interval.        *)
ReportLag == variant = "midstate" => tested - reported <= CheckInterval

(* A stop request is obeyed within one check interval of hashes.           *)
StopReaction == testedAfterStop <= CheckInterval

(* The loop never leaves by way of the wrap-around test: when a call       *)
(* returns Exhausted it has tried every nonce of the range.                *)
ExhaustedMeansAll == outcome = "Exhausted" => nonce >= hi /\ tested = nonce - lo

(* The inductive invariant behind these properties.                        *)

(* The counts: what was hashed is what was passed, and what was hashed is  *)
(* either reported or still to be reported.                                *)
CountsAgree ==
  /\ outcome = "running" <=> pc # "done"
  /\ lo <= nonce
  /\ pc = "test" => nonce < hi
  /\ nonce > lo => nonce <= hi
  /\ tested = (IF outcome = "Found" THEN 1 ELSE 0) + nonce - lo
  /\ hashesDone = tested
  /\ variant = "midstate" =>
       reported = IF pc = "done" THEN tested ELSE tested - since

(* No winning nonce has been passed over.                                  *)
NoWinPassed ==
  /\ \A m \in wins : ~(lo <= m /\ m < nonce)
  /\ outcome = "Found" => nonce \in wins /\ nonce < hi
  /\ outcome = "Exhausted" => nonce >= hi
  /\ outcome = "Stopped" => stop /\ nonce < hi

(* The countdown bounds what is unreported and what is hashed after stop.  *)
CountdownBounds ==
  variant = "midstate" =>
    LET gone == CheckInterval - counter IN
    /\ ~stop => testedAfterStop = 0
    /\ pc = "check" => since <= gone + 1 /\ testedAfterStop <= gone + 1
    /\ pc = "test"  => since <= gone /\ testedAfterStop <= gone
    /\ testedAfterStop <= CheckInterval

HashInv == TypeOK /\ CountsAgree /\ NoWinPassed /\ CountdownBounds

(* The loop of hash_range_simple has no countdown.  What it hashes after a *)
(* stop lies behind its last look at should_stop, at a multiple of the     *)
(* interval other than zero.                                               *)
SinceCheck == hashesDone % CheckInterval

SimpleBounds ==
  variant = "simple" =>
    /\ ~stop => testedAfterStop = 0
    /\ pc = "test" => testedAfterStop <= SinceCheck
    /\ pc = "check" => \/ testedAfterStop <= SinceCheck
                       \/ /\ hashesDone > 0 /\ SinceCheck = 0
                          /\ testedAfterStop <= CheckInterval
    /\ testedAfterStop <= CheckInterval

-----------------------------------------------------------------------------
(* The loops implement the call of module HashCall: the nonces a call      *)
(* answers for are those hashed when it returns.                           *)
Call == INSTANCE HashCall WITH
          tested <- IF outcome = "running" THEN {} ELSE lo .. lo + tested - 1

ImplementsCall == Call!CallSpec
=============================================================================
