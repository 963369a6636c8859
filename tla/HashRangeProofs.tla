-------------------------- MODULE HashRangeProofs ---------------------------
(***************************************************************************)
(* Proofs about HashRange, for every range, every set of winning nonces    *)
(* and every check interval.                                               *)
(***************************************************************************)
EXTENDS HashRange, TLAPS

LEMMA HashInit == Init => HashInv
<1> SUFFICES ASSUME Init
             PROVE  HashInv
  OBVIOUS
<1> USE HashAssumption DEF Init
<1>1. TypeOK
  <2>1. counter \in 1 .. CheckInterval /\ nonce \in Nonces
    OBVIOUS
  <2>2. /\ variant \in {"midstate", "simple"} /\ wins \subseteq Nonces
        /\ stop \in BOOLEAN /\ pc \in {"check", "test", "done"}
        /\ outcome \in {"running", "Found", "Exhausted", "Stopped"}
    OBVIOUS
  <2> QED
    BY <2>1, <2>2 DEF TypeOK
<1>2. CountsAgree /\ NoWinPassed /\ CountdownBounds
  BY DEF CountsAgree, NoWinPassed, CountdownBounds, Nonces
<1> QED
  BY <1>1, <1>2 DEF HashInv

LEMMA HashStep == HashInv /\ [Next]_vars => HashInv'
<1> SUFFICES ASSUME HashInv, [Next]_vars
             PROVE  HashInv'
  OBVIOUS
<1> USE HashAssumption DEF HashInv, TypeOK, CountsAgree, NoWinPassed, CountdownBounds,
                           Nonces, Width, args, counts, Returns, Tested
<1>1. ASSUME Finish  PROVE HashInv'
  BY <1>1 DEF Finish
<1>2. ASSUME CountDown  PROVE HashInv'
  BY <1>2 DEF CountDown
<1>3. ASSUME ReportAndCheck  PROVE HashInv'
  BY <1>3 DEF ReportAndCheck
<1>4. ASSUME SimpleCheck  PROVE HashInv'
  BY <1>4 DEF SimpleCheck
<1>5. ASSUME TestWin  PROVE HashInv'
  BY <1>5 DEF TestWin
<1>6. ASSUME TestMiss  PROVE HashInv'
  <2>1. nonce' = nonce + 1 /\ nonce' # lo
    BY <1>6 DEF TestMiss
  <2> QED
    BY <1>6, <2>1 DEF TestMiss
<1>7. ASSUME SetStop  PROVE HashInv'
  BY <1>7 DEF SetStop
<1>8. CASE UNCHANGED vars
  BY <1>8 DEF vars
<1> QED
  BY <1>1, <1>2, <1>3, <1>4, <1>5, <1>6, <1>7, <1>8 DEF Next, Step

(* Every reachable state satisfies the inductive invariant; with it the    *)
(* types hold, so the countdown and the u32 nonce never wrap.              *)
THEOREM HashInvCorrect == Spec => []HashInv
BY HashInit, HashStep, PTL DEF Spec

(* However a call ends, the hashes it returned and the hashes it added to  *)
(* stats.cpu_hashes are the nonces it hashed.                              *)
THEOREM HashesAccountedHolds == Spec => []HashesAccounted
<1>1. HashInv => HashesAccounted
  BY DEF HashInv, CountsAgree, HashesAccounted
<1> QED
  BY <1>1, HashInvCorrect, PTL

(* The statistics lag by at most one check interval.                       *)
THEOREM ReportLagHolds == Spec => []ReportLag
<1>1. HashInv => ReportLag
  BY HashAssumption DEF HashInv, TypeOK, CountsAgree, CountdownBounds, ReportLag, Nonces
<1> QED
  BY <1>1, HashInvCorrect, PTL

(* The wrap-around exit of the loop is never taken: an exhausted range has *)
(* been hashed to its end.                                                 *)
THEOREM ExhaustedMeansAllHolds == Spec => []ExhaustedMeansAll
<1>1. HashInv => ExhaustedMeansAll
  BY DEF HashInv, TypeOK, CountsAgree, NoWinPassed, ExhaustedMeansAll, Nonces
<1> QED
  BY <1>1, HashInvCorrect, PTL

-----------------------------------------------------------------------------
(* hash_range_simple looks at should_stop when its count is a multiple of  *)
(* the interval, so its reaction to a stop needs the remainder of a count  *)
(* that grows by one.                                                      *)

LEMMA Division ==
  ASSUME NEW c \in Nat \ {0}, NEW h \in Nat
  PROVE  h = c * (h \div c) + (h % c) /\ h \div c \in Nat /\ h % c \in 0 .. c - 1
OBVIOUS

(* Quotient and remainder are unique.                                      *)
LEMMA RemainderUnique ==
  ASSUME NEW c \in Nat \ {0}, NEW q \in Nat, NEW p \in Nat,
         NEW r \in 0 .. c - 1, NEW s \in 0 .. c - 1,
         c * q + r = c * p + s
  PROVE  r = s
<1>1. CASE q = p
  BY <1>1
<1>2. CASE q > p
  <2>1. c * (q - p) = s - r
    OBVIOUS
  <2>2. c * (q - p) >= c
    BY <1>2
  <2> QED
    BY <2>1, <2>2
<1>3. CASE q < p
  <2>1. c * (p - q) = r - s
    OBVIOUS
  <2>2. c * (p - q) >= c
    BY <1>3
  <2> QED
    BY <2>1, <2>2
<1> QED
  BY <1>1, <1>2, <1>3

(* The remainder counts up with its number and starts again at zero.       *)
LEMMA RemainderOfNext ==
  ASSUME NEW c \in Nat \ {0}, NEW h \in Nat
  PROVE  (h + 1) % c = IF h % c = c - 1 THEN 0 ELSE (h % c) + 1
<1> DEFINE q == h \div c
           r == h % c
           p == (h + 1) \div c
           s == (h + 1) % c
<1>1. h = c * q + r /\ q \in Nat /\ r \in 0 .. c - 1
  BY Division
<1>2. h + 1 = c * p + s /\ p \in Nat /\ s \in 0 .. c - 1
  BY Division, h + 1 \in Nat
<1> HIDE DEF q, r, p, s
<1>3. CASE r = c - 1
  <2>1. c * (q + 1) + 0 = c * p + s
    BY <1>1, <1>2, <1>3
  <2>2. q + 1 \in Nat /\ 0 \in 0 .. c - 1
    BY <1>1
  <2>3. s = 0
    BY <2>1, <2>2, <1>2, RemainderUnique
  <2> QED
    BY <1>3, <2>3 DEF r, s
<1>4. CASE r # c - 1
  <2>1. c * q + (r + 1) = c * p + s /\ r + 1 \in 0 .. c - 1
    BY <1>1, <1>2, <1>4
  <2>2. s = r + 1
    BY <2>1, <1>1, <1>2, RemainderUnique
  <2> QED
    BY <1>4, <2>2 DEF r, s
<1> QED
  BY <1>3, <1>4

LEMMA SimpleInit == Init => SimpleBounds
BY HashAssumption, Division DEF Init, SimpleBounds, SinceCheck

LEMMA SimpleStep == HashInv /\ SimpleBounds /\ [Next]_vars => SimpleBounds'
<1> SUFFICES ASSUME HashInv, SimpleBounds, [Next]_vars, variant' = "simple"
             PROVE  SimpleBounds'
  BY DEF SimpleBounds
<1>0. /\ hashesDone \in Nat /\ testedAfterStop \in Nat /\ CheckInterval \in Nat \ {0}
      /\ stop \in BOOLEAN /\ variant = "simple"
  BY HashAssumption DEF HashInv, TypeOK, Next, Step, Finish, CountDown, ReportAndCheck,
                        SimpleCheck, TestWin, TestMiss, SetStop, args, vars, Tested
<1>1. hashesDone % CheckInterval \in 0 .. CheckInterval - 1
  BY <1>0, Division
<1> USE <1>0, <1>1 DEF SimpleBounds, SinceCheck, args, counts
<1>2. ASSUME Finish  PROVE SimpleBounds'
  BY <1>2 DEF Finish, Returns
<1>3. ASSUME SimpleCheck  PROVE SimpleBounds'
  BY <1>3 DEF SimpleCheck, Returns
<1>4. ASSUME TestWin \/ TestMiss  PROVE SimpleBounds'
  <2>1. /\ pc = "test" /\ pc' \in {"check", "done"} /\ hashesDone' = hashesDone + 1
        /\ testedAfterStop' = IF stop THEN testedAfterStop + 1 ELSE testedAfterStop
        /\ stop' = stop
    BY <1>4 DEF TestWin, TestMiss, Tested, Returns
  <2>2. hashesDone' % CheckInterval
          = IF hashesDone % CheckInterval = CheckInterval - 1
              THEN 0 ELSE (hashesDone % CheckInterval) + 1
    BY <2>1, RemainderOfNext
  <2> QED
    BY <2>1, <2>2
<1>5. ASSUME SetStop  PROVE SimpleBounds'
  BY <1>5 DEF SetStop
<1>6. CASE UNCHANGED vars
  BY <1>6 DEF vars
<1>7. ~CountDown /\ ~ReportAndCheck
  BY DEF CountDown, ReportAndCheck
<1> QED
  BY <1>2, <1>3, <1>4, <1>5, <1>6, <1>7 DEF Next, Step

(* Both loops obey a stop request within one check interval of hashes.     *)
THEOREM StopReactionHolds == Spec => []StopReaction
<1>1. HashInv /\ SimpleBounds => StopReaction
  BY HashAssumption, Division
  DEF HashInv, TypeOK, CountdownBounds, SimpleBounds, SinceCheck, StopReaction
<1> QED
  BY <1>1, HashInvCorrect, SimpleInit, SimpleStep, PTL DEF Spec

-----------------------------------------------------------------------------
(* Refinement.                                                             *)

LEMMA CallInitially == Init => Call!CallInit
BY DEF Init, Call!CallInit

(* An interval that starts at lo, as a part of the range.                  *)
LEMMA Prefix ==
  ASSUME NEW a \in Nat, NEW b \in Nat, NEW c \in Nat, NEW max \in Nat,
         b <= max, c <= b
  PROVE  a .. c - 1 = {m \in {n \in 0 .. max : a <= n /\ n < b} : m < c}
OBVIOUS

LEMMA ClosedPrefix ==
  ASSUME NEW a \in Nat, NEW b \in Nat, NEW c \in Nat, NEW max \in Nat,
         b <= max, c < b
  PROVE  a .. c = {m \in {n \in 0 .. max : a <= n /\ n < b} : m <= c}
OBVIOUS

(* The last nonce hashed, from the number of hashes.                       *)
LEMMA LastHashed == \A n, t, a \in Nat : t = 1 + n - a => a + t - 1 = n
OBVIOUS

(* Every step of the loop is a return of the abstract call, a stop request *)
(* or invisible to the caller.                                             *)
LEMMA CallStep == HashInv /\ HashInv' /\ [Next]_vars => [Call!CallNext]_(Call!callVars)
<1> SUFFICES ASSUME HashInv, HashInv', [Next]_vars
             PROVE  [Call!CallNext]_(Call!callVars)
  OBVIOUS
<1> DEFINE answered == IF outcome = "running" THEN {} ELSE lo .. lo + tested - 1
           range    == {n \in Nonces : lo <= n /\ n < hi}
<1>0. /\ lo \in Nat /\ hi \in Nat /\ nonce \in Nat /\ hi <= MaxNonce /\ MaxNonce \in Nat
      /\ wins \subseteq Nonces
  BY HashAssumption DEF HashInv, TypeOK, Nonces
<1>a. nonce' \in Nat /\ tested' \in Nat
  BY HashAssumption DEF HashInv, TypeOK, Nonces
<1>1. ASSUME UNCHANGED <<lo, hi, wins, stop, outcome>>, outcome = "running"
      PROVE  UNCHANGED Call!callVars
  BY <1>1 DEF Call!callVars
<1>2. ASSUME Step, outcome' = outcome
      PROVE  UNCHANGED Call!callVars
  BY <1>1, <1>2 DEF Step, Finish, CountDown, ReportAndCheck, SimpleCheck, TestWin,
                    TestMiss, Tested, Returns, args, HashInv, CountsAgree
<1>3. ASSUME Step, outcome' # outcome
      PROVE  Call!Return
  <2>1. /\ outcome = "running" /\ UNCHANGED <<lo, hi, wins, stop>>
        /\ outcome' \in {"Found", "Exhausted", "Stopped"}
    BY <1>3 DEF Step, Finish, CountDown, ReportAndCheck, SimpleCheck, TestWin,
                TestMiss, Tested, Returns, args, HashInv, CountsAgree
  <2>2. answered' = lo .. lo + tested' - 1 /\ range = Call!Range
    BY <2>1 DEF Call!Range
  <2>3. CASE outcome' = "Found"
    <3>1. nonce' \in wins /\ lo <= nonce' /\ nonce' < hi /\ tested' = 1 + nonce' - lo
      BY <2>1, <2>3 DEF HashInv, CountsAgree, NoWinPassed
    <3>2. \A m \in range \cap wins : nonce' <= m
      BY <2>1, <1>0 DEF HashInv, NoWinPassed, TypeOK, Nonces
    <3>3. answered' = {m \in range : m <= nonce'}
      <4>1. lo + tested' - 1 = nonce'
        <5>1. lo \in Nat /\ nonce' \in Nat /\ tested' \in Nat
          BY <1>0, <1>a
        <5>2. tested' = 1 + nonce' - lo
          BY <3>1
        <5> QED
          BY <5>1, <5>2, LastHashed
      <4>2. lo .. nonce' = {m \in range : m <= nonce'}
        BY <1>0, <1>a, <3>1, ClosedPrefix DEF Nonces
      <4> QED
        BY <2>2, <4>1, <4>2
    <3>4. nonce' \in range \cap wins
      BY <1>0, <3>1
    <3> QED
      BY <2>1, <2>2, <2>3, <3>2, <3>3, <3>4 DEF Call!Return, Call!ReturnFound
  <2>4. CASE outcome' = "Exhausted"
    <3>1. nonce' >= hi /\ (nonce' > lo => nonce' <= hi) /\ lo <= nonce' /\ tested' = nonce' - lo
      <4>1. lo' = lo /\ hi' = hi /\ outcome' # "Found"
        BY <2>1, <2>4
      <4> QED
        BY <1>0, <1>a, <2>4, <4>1 DEF HashInv, CountsAgree, NoWinPassed
    <3>2. range \cap wins = {}
      BY <1>0, <2>1, <3>1 DEF HashInv, NoWinPassed, TypeOK, Nonces
    <3>3. answered' = range
      <4>1. lo + tested' - 1 = nonce' - 1
        BY <1>0, <1>a, <3>1
      <4>2. CASE nonce' > lo
        <5>1. nonce' = hi
          BY <1>0, <1>a, <3>1, <4>2
        <5>2. lo .. hi - 1 = {m \in range : m < hi}
          BY <1>0, Prefix DEF Nonces
        <5> QED
          BY <2>2, <4>1, <5>1, <5>2
      <4>3. CASE nonce' = lo
        <5>1. lo .. lo - 1 = {} /\ range = {}
          BY <1>0, <3>1, <4>3 DEF Nonces
        <5> QED
          BY <2>2, <4>1, <4>3, <5>1
      <4> QED
        BY <1>0, <1>a, <3>1, <4>2, <4>3
    <3> QED
      BY <2>1, <2>2, <2>4, <3>2, <3>3 DEF Call!Return, Call!ReturnExhausted
  <2>5. CASE outcome' = "Stopped"
    <3>1. stop' /\ lo <= nonce' /\ nonce' < hi /\ tested' = nonce' - lo
      BY <2>1, <2>5 DEF HashInv, TypeOK, CountsAgree, NoWinPassed, Nonces
    <3>2. answered' = {m \in range : m < nonce'}
      <4>1. lo + tested' - 1 = nonce' - 1 /\ nonce' <= hi
        BY <1>0, <1>a, <3>1
      <4>2. lo .. nonce' - 1 = {m \in range : m < nonce'}
        BY <1>0, <1>a, <4>1, Prefix DEF Nonces
      <4> QED
        BY <2>2, <4>1, <4>2
    <3>3. {m \in range : m < nonce'} \cap wins = {}
      BY <1>0, <2>1 DEF HashInv, NoWinPassed, TypeOK, Nonces
    <3>4. nonce' \in range
      BY <1>0, <3>1 DEF HashInv, TypeOK, Nonces
    <3> QED
      BY <2>1, <2>2, <2>5, <3>1, <3>2, <3>3, <3>4 DEF Call!Return, Call!ReturnStopped
  <2> QED
    BY <2>1, <2>3, <2>4, <2>5
<1>4. ASSUME SetStop
      PROVE  Call!RequestStop
  BY <1>4 DEF SetStop, Call!RequestStop, args, counts
<1>5. CASE UNCHANGED vars
  BY <1>5 DEF vars, args, counts, Call!callVars
<1> QED
  BY <1>2, <1>3, <1>4, <1>5 DEF Next, Call!CallNext

(* The two loops of hasher.rs implement the one-step call that the worker  *)
(* threads of MiningPool are built on.                                     *)
THEOREM LoopImplementsCall == Spec => Call!CallInit /\ [][Call!CallNext]_(Call!callVars)
BY HashInvCorrect, CallInitially, CallStep, PTL DEF Spec
=============================================================================
