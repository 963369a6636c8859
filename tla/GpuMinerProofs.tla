---------------------------- MODULE GpuMinerProofs ----------------------------
(***************************************************************************)
(* Proofs about GpuMiner, for every number of nonces, batch size, set of   *)
(* intensities, set of winning nonces and number of jobs.                  *)
(***************************************************************************)
EXTENDS GpuMiner, TLAPS

(* A batch may run past the end of the nonce space: its nonces wrap, and   *)
(* stay below Width.                                                       *)
LEMMA Wraps ==
  ASSUME NEW n \in Nat
  PROVE  n % Width \in Nonces
BY GpuAssumption DEF Nonces

LEMMA ActualBatchPositive ==
  ASSUME intensity \in 0 .. 100
  PROVE  ActualBatch \in Nat \ {0}
BY GpuAssumption DEF ActualBatch, BatchAt

LEMMA IntensityIsPercentage == Intensities \cup {100} \subseteq 0 .. 100
BY GpuAssumption

LEMMA BatchInSpace ==
  ASSUME TypeOK
  PROVE  Batch \subseteq Nonces /\ NextNonce \in Nonces
<1>1. nonce \in Nat /\ BatchSize \in Nat
  BY GpuAssumption DEF TypeOK, Nonces
<1>2. \A i \in 0 .. ActualBatch - 1 : nonce + i \in Nat
  BY <1>1, ActualBatchPositive, IntensityIsPercentage DEF TypeOK
<1> QED
  BY <1>1, <1>2, Wraps DEF Batch, NextNonce

(* What a batch may report is a part of what it hashed, and wins.          *)
LEMMA OutputsAreWins ==
  ASSUME NEW found \in Outputs
  PROVE  found \subseteq Batch /\ \A n \in found : <<job, n>> \in Winning
BY DEF Outputs, Wins

LEMMA GpuTypes == TypeOK /\ [Next]_vars => TypeOK'
<1> SUFFICES ASSUME TypeOK, [Next]_vars
             PROVE  TypeOK'
  OBVIOUS
<1> USE DEF TypeOK, SharedWorkTypeOK, swVars, flags, local, history
<1>1. ASSUME Top  PROVE TypeOK'
  BY <1>1 DEF Top
<1>2. ASSUME PauseWait  PROVE TypeOK'
  BY <1>2 DEF PauseWait
<1>3. ASSUME Fetch  PROVE TypeOK'
  <2>1. 0 \in Nonces
    BY GpuAssumption DEF Nonces
  <2> QED
    BY <1>3, <2>1 DEF Fetch
<1>4. ASSUME SetIntensity  PROVE TypeOK'
  BY <1>4 DEF SetIntensity
<1>5. ASSUME Clone  PROVE TypeOK'
  BY <1>5 DEF Clone
<1>6. ASSUME MineBatch  PROVE TypeOK'
  <2>1. {job} \X Batch \subseteq Pairs /\ nonce' \in Nonces
    BY <1>6, BatchInSpace DEF MineBatch, Pairs
  <2>2. shares' \subseteq Pairs
    <3>1. PICK found \in Outputs : Offer(found)
      BY <1>6 DEF MineBatch
    <3>2. found \subseteq Batch
      BY <3>1, OutputsAreWins
    <3>3. {job} \X found \subseteq {job} \X Batch
      BY <3>2
    <3> QED
      BY <2>1, <3>1, <3>3 DEF Offer
  <2> QED
    BY <1>6, <2>1, <2>2 DEF MineBatch
<1>7. ASSUME Publish  PROVE TypeOK'
  <2>1. /\ work' \in Nat /\ generation' \in Nat
        /\ UNCHANGED <<flags, pc, local, history>>
    BY <1>7 DEF Publish, UpdateStore, UpdateBump
  <2>2. updating' \in BOOLEAN
    BY <1>7, Zenon DEF Publish, UpdateStore, UpdateBump
  <2> QED
    BY <2>1, <2>2
<1>8. ASSUME Stop \/ Pause \/ Resume \/ SetThrottle  PROVE TypeOK'
  <2>1. UNCHANGED <<swVars, pc, local, history>> /\ throttle' \in Intensities \cup {100}
    BY <1>8 DEF Stop, Pause, Resume, SetThrottle
  <2>2. stop' \in BOOLEAN /\ paused' \in BOOLEAN
    BY <1>8, Zenon DEF Stop, Pause, Resume, SetThrottle
  <2> QED
    BY <2>1, <2>2
<1>9. CASE UNCHANGED vars
  BY <1>9 DEF vars
<1> QED
  BY <1>1, <1>2, <1>3, <1>4, <1>5, <1>6, <1>7, <1>8, <1>9 DEF Next, Thread

(* Every reachable state is well typed: gpu_nonce, although it is advanced *)
(* by whole batches, is always a u32.                                      *)
THEOREM TypeCorrect == Spec => []TypeOK
<1>1. Init => TypeOK
  <2> SUFFICES ASSUME Init
               PROVE  TypeOK
    OBVIOUS
  <2>1. work \in Nat /\ generation \in Nat /\ lastGen \in Nat /\ job \in Nat /\ nonce \in Nonces
    BY GpuAssumption DEF Init, SharedWorkInit, NoWork, Nonces
  <2>2. updating \in BOOLEAN /\ stop \in BOOLEAN /\ paused \in BOOLEAN
    BY Zenon DEF Init, SharedWorkInit
  <2>3. /\ throttle \in Intensities \cup {100} /\ intensity \in Intensities \cup {100}
        /\ pc \in {"top", "pauseWait", "fetch", "throttle", "clone", "batch", "exited"}
        /\ hashed \subseteq Pairs /\ shares \subseteq Pairs
    BY DEF Init
  <2> QED
    BY <2>1, <2>2, <2>3 DEF TypeOK, SharedWorkTypeOK
<1> QED
  BY <1>1, GpuTypes, PTL DEF Spec

-----------------------------------------------------------------------------
(* The mailbox, its two halves written one after the other, and the thread *)
(* that reads them one after the other, the other way round.               *)
MailboxInv ==
  /\ work = (IF updating THEN generation + 1 ELSE generation)
  /\ lastGen <= generation
  /\ job <= work
  /\ pc = "batch" => lastGen <= job

LEMMA MailboxStep == TypeOK /\ MailboxInv /\ [Next]_vars => MailboxInv'
<1> SUFFICES ASSUME TypeOK, MailboxInv, [Next]_vars
             PROVE  MailboxInv'
  OBVIOUS
<1> USE DEF TypeOK, SharedWorkTypeOK, MailboxInv, swVars, flags, local, history
<1>1. ASSUME Top \/ PauseWait \/ SetIntensity \/ MineBatch  PROVE MailboxInv'
  BY <1>1 DEF Top, PauseWait, SetIntensity, MineBatch
<1>2. ASSUME Fetch  PROVE MailboxInv'
  BY <1>2 DEF Fetch
<1>3. ASSUME Clone  PROVE MailboxInv'
  BY <1>3 DEF Clone
<1>4. ASSUME Publish  PROVE MailboxInv'
  <2>1. CASE UpdateStore
    BY <1>4, <2>1 DEF Publish, UpdateStore
  <2>2. CASE UpdateBump
    BY <1>4, <2>2 DEF Publish, UpdateBump
  <2> QED
    BY <1>4, <2>1, <2>2 DEF Publish
<1>5. ASSUME Stop \/ Pause \/ Resume \/ SetThrottle  PROVE MailboxInv'
  BY <1>5 DEF Stop, Pause, Resume, SetThrottle
<1>6. CASE UNCHANGED vars
  BY <1>6 DEF vars
<1> QED
  BY <1>1, <1>2, <1>3, <1>4, <1>5, <1>6 DEF Next, Thread

(* Whatever the client publishes between the two reads of the mailbox, the *)
(* work mined is at least as new as the generation remembered for it.      *)
THEOREM HeldWorkIsFreshHolds == Spec => []HeldWorkIsFresh
<1>1. Init => MailboxInv
  BY DEF Init, SharedWorkInit, NoWork, MailboxInv
<1>2. MailboxInv => HeldWorkIsFresh
  BY DEF MailboxInv, HeldWorkIsFresh
<1> QED
  BY <1>1, <1>2, TypeCorrect, MailboxStep, PTL DEF Spec

-----------------------------------------------------------------------------
(* The invariant on shares is inductive as it stands: the step that offers *)
(* shares is the step that hashes their nonces, and it offers them for the *)
(* job it hashed.                                                          *)
LEMMA SharesStep == SharesAreWins /\ [Next]_vars => SharesAreWins'
<1> SUFFICES ASSUME SharesAreWins, [Next]_vars
             PROVE  SharesAreWins'
  OBVIOUS
<1>1. ASSUME MineBatch  PROVE SharesAreWins'
  <2>1. PICK found \in Outputs : Offer(found)
    BY <1>1 DEF MineBatch
  <2>2. {job} \X found \subseteq {job} \X Batch /\ {job} \X found \subseteq Winning
    BY <2>1, OutputsAreWins
  <2>3. shares' = shares \cup ({job} \X found) /\ hashed' = hashed \cup ({job} \X Batch)
    BY <1>1, <2>1 DEF MineBatch, Offer
  <2>4. shares \subseteq Winning /\ shares \subseteq hashed
    BY DEF SharesAreWins
  <2> HIDE DEF Batch
  <2> QED
    BY <2>2, <2>3, <2>4 DEF SharesAreWins
<1>2. ASSUME UNCHANGED history  PROVE SharesAreWins'
  BY <1>2 DEF history, SharesAreWins
<1>3. CASE UNCHANGED vars
  BY <1>2, <1>3 DEF vars
<1> QED
  BY <1>1, <1>2, <1>3
  DEF Next, Thread, Top, PauseWait, Fetch, SetIntensity, Clone, Publish, Stop, Pause,
      Resume, SetThrottle, local

(* Every share is a nonce the kernel hashed for the job the share is       *)
(* offered for, and a win of that job, even when the job was replaced      *)
(* while the batch ran.                                                    *)
THEOREM SharesAreWinsHolds == Spec => []SharesAreWins
<1>1. Init => SharesAreWins
  BY DEF Init, SharesAreWins
<1> QED
  BY <1>1, SharesStep, PTL DEF Spec
=============================================================================
