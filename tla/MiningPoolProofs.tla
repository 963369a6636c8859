-------------------------- MODULE MiningPoolProofs --------------------------
(***************************************************************************)
(* Proofs about MiningPool, for every number of workers, size of nonce     *)
(* space, batch length and set of winning nonces.                          *)
(***************************************************************************)
EXTENDS MiningPool, TLAPS

-----------------------------------------------------------------------------
(* The slices of the nonce space.                                          *)

(* A slice is an interval within the nonce space.                          *)
LEMMA SliceBounds ==
  ASSUME NEW w \in Workers
  PROVE  /\ NonceStart(w) \in Nat
         /\ NonceEnd(w) \in Nat
         /\ NonceStart(w) <= NonceEnd(w)
         /\ NonceEnd(w) <= NonceMax
<1> DEFINE N == NumWorkers
           P == PerWorker
<1>1. N \in Nat \ {0} /\ NonceMax \in Nat /\ w \in 0 .. N - 1
  BY PoolAssumption DEF Workers
<1>2. P \in Nat /\ N * P <= NonceMax
  BY <1>1 DEF PerWorker
<1>3. w * P \in Nat /\ (w + 1) * P \in Nat /\ w * P <= (w + 1) * P
  BY <1>1, <1>2
<1>4. (w + 1) * P <= N * P
  <2>1. w + 1 \in Nat /\ w + 1 <= N
    BY <1>1
  <2> QED  BY <1>1, <1>2, <2>1
<1> QED
  BY <1>1, <1>2, <1>3, <1>4 DEF NonceStart, NonceEnd

(* The slices of two workers do not overlap.                               *)
LEMMA SlicesOrdered ==
  ASSUME NEW v \in Workers, NEW w \in Workers, v < w
  PROVE  NonceEnd(v) <= NonceStart(w)
<1> DEFINE P == PerWorker
<1>1. NumWorkers \in Nat \ {0} /\ v \in Nat /\ w \in Nat /\ w <= NumWorkers - 1
  BY PoolAssumption DEF Workers
<1>2. P \in Nat
  BY PoolAssumption DEF PerWorker
<1>3. v + 1 \in Nat /\ v + 1 <= w
  BY <1>1
<1>4. (v + 1) * P <= w * P
  BY <1>1, <1>2, <1>3
<1>5. v # NumWorkers - 1
  BY <1>1
<1> QED
  BY <1>4, <1>5 DEF NonceStart, NonceEnd

(* Every nonce lies in a slice.                                            *)
LEMMA SlicesCover ==
  ASSUME NEW n \in 0 .. NonceMax - 1
  PROVE  \E w \in Workers : NonceStart(w) <= n /\ n < NonceEnd(w)
<1> DEFINE P == PerWorker
           last == NumWorkers - 1
<1>1. NumWorkers \in Nat \ {0} /\ NonceMax \in Nat /\ P \in Nat /\ n \in Nat /\ n < NonceMax
  BY PoolAssumption DEF PerWorker
<1>2. last \in Workers /\ last \in Nat
  BY <1>1 DEF Workers
<1> HIDE DEF P
<1>3. CASE last * P <= n
  BY <1>1, <1>2, <1>3 DEF NonceStart, NonceEnd, P
<1>4. CASE ~(last * P <= n)
  <2>1. P > 0
    BY <1>1, <1>2, <1>4
  <2> DEFINE q == n \div P
  <2>2. q \in Nat /\ q * P <= n /\ n < (q + 1) * P
    <3>1. n = P * q + (n % P) /\ q \in Nat /\ n % P \in 0 .. P - 1
      BY <1>1, <2>1
    <3> HIDE DEF q
    <3> QED
      BY <3>1, <1>1
  <2> HIDE DEF q
  <2>3. q < last
    <3>1. ASSUME last <= q  PROVE FALSE
      <4>1. last * P <= q * P
        BY <1>1, <1>2, <2>2, <3>1
      <4> QED
        BY <4>1, <1>1, <1>2, <1>4, <2>2
    <3> QED
      BY <3>1, <1>2, <2>2
  <2>4. q \in Workers /\ q # last
    BY <1>1, <2>2, <2>3 DEF Workers
  <2> QED
    BY <2>2, <2>4 DEF NonceStart, NonceEnd, P
<1> QED
  BY <1>3, <1>4

(* A batch starts at the nonce, ends within the slice and, short of the    *)
(* end of the slice, is not empty.                                         *)
LEMMA BatchBounds ==
  ASSUME NEW w \in Workers, nonce[w] \in 0 .. NonceMax
  PROVE  /\ BatchEnd(w) \in 0 .. NonceMax
         /\ BatchEnd(w) <= NonceEnd(w)
         /\ nonce[w] < NonceEnd(w) => nonce[w] < BatchEnd(w)
BY SliceBounds, PoolAssumption DEF BatchEnd

-----------------------------------------------------------------------------
(* Type correctness.                                                       *)

LEMMA EndBatchType ==
  ASSUME TypeOK, NEW w \in Workers, NEW T \in SUBSET (0 .. NonceMax),
         EndBatch(w, T)
  PROVE  /\ hashed' \subseteq Workers \X Nat \X (0 .. NonceMax)
         /\ staleBatches' \in [Workers -> 0 .. HistoryCap]
         /\ UNCHANGED <<swVars, flags, lastGen, loaded, job>>
<1>1. UNCHANGED <<swVars, flags, lastGen, loaded, job>>
  BY DEF EndBatch
<1>2. hashed' \subseteq Workers \X Nat \X (0 .. NonceMax)
  <2>1. job[w] \in Nat
    BY DEF TypeOK
  <2>2. {w} \X {job[w]} \X T \subseteq Workers \X Nat \X (0 .. NonceMax)
    BY <2>1
  <2> QED  BY <2>2 DEF EndBatch, TypeOK
<1>3. \A f \in [Workers -> 0 .. HistoryCap] :
        Increment(f, w) \in [Workers -> 0 .. HistoryCap]
  BY PoolAssumption DEF Increment
<1>4. /\ staleBatches' \in [Workers -> 0 .. HistoryCap]
  BY <1>3 DEF EndBatch, TypeOK
<1> QED
  BY <1>1, <1>2, <1>4

LEMMA InitType == Init => TypeOK
<1>1. 0 \in 0 .. NumWorkers /\ 0 \in 0 .. NonceMax /\ 0 \in 0 .. HistoryCap
  BY PoolAssumption
<1>2. Init => /\ pc \in [Workers -> Labels]
              /\ nonce \in [Workers -> 0 .. NonceMax]
              /\ staleBatches \in [Workers -> 0 .. HistoryCap]
  BY <1>1 DEF Init, Labels
<1>3. Init => /\ lastGen \in [Workers -> Nat]
              /\ loaded \in [Workers -> Nat]
              /\ job \in [Workers -> Nat]
              /\ active \in 0 .. NumWorkers
              /\ work \in Nat /\ generation \in Nat
  BY <1>1 DEF Init, SharedWorkInit, NoWork
<1>4. Init => /\ updating \in BOOLEAN /\ stop \in BOOLEAN /\ paused \in BOOLEAN
              /\ phase \in Phases
  BY Zenon DEF Init, SharedWorkInit, Phases
<1>5. Init => hashed = {} /\ shares = {}
  BY DEF Init
<1> QED
  BY <1>2, <1>3, <1>4, <1>5, Zenon DEF TypeOK, SharedWorkTypeOK

LEMMA TypeStep == TypeOK /\ [Next]_vars => TypeOK'
<1> SUFFICES ASSUME TypeOK, [Next]_vars
             PROVE  TypeOK'
  OBVIOUS
<1> USE DEF TypeOK, SharedWorkTypeOK, Labels, Phases, Goto
<1>1. ASSUME NEW w \in Workers,
             \/ Top(w) \/ PauseWait(w) \/ ThrottleWait(w)
             \/ LoadGeneration(w)
             \/ StopCheck(w) \/ GenCheck(w) \/ ThrottleCheck(w)
      PROVE  TypeOK'
  BY <1>1 DEF Top, PauseWait, ThrottleWait, LoadGeneration,
              StopCheck, GenCheck, ThrottleCheck, swVars, flags, local, history
<1>2. ASSUME NEW w \in Workers, CloneWork(w)
      PROVE  TypeOK'
  <2>1. NonceStart(w) \in 0 .. NonceMax
    BY SliceBounds, PoolAssumption
  <2>2. 0 \in 0 .. HistoryCap
    BY PoolAssumption
  <2> QED
    BY <1>2, <2>1, <2>2 DEF CloneWork, swVars, flags
<1>3. ASSUME NEW w \in Workers, BatchFound(w)
      PROVE  TypeOK'
  <2>1. PICK n \in WinsIn(w) :
          /\ EndBatch(w, nonce[w] .. n)
          /\ shares' = shares \cup {<<w, job[w], n>>}
          /\ nonce' = [nonce EXCEPT ![w] = BatchEnd(w)]
          /\ Goto(w, "stopCheck")
    BY <1>3 DEF BatchFound
  <2>2. n \in 0 .. NonceMax /\ nonce[w] .. n \in SUBSET (0 .. NonceMax)
    BY BatchBounds, PoolAssumption DEF WinsIn
  <2>3. BatchEnd(w) \in 0 .. NonceMax
    BY BatchBounds
  <2>4. shares' \subseteq Workers \X Nat \X (0 .. NonceMax)
    BY <2>1, <2>2
  <2> HIDE DEF Goto
  <2>5. pc' \in [Workers -> Labels]
    BY <2>1 DEF Goto, Labels
  <2> QED
    BY <2>1, <2>2, <2>3, <2>4, <2>5, EndBatchType DEF swVars, flags
<1>4. ASSUME NEW w \in Workers, BatchExhausted(w)
      PROVE  TypeOK'
  <2>1. nonce[w] .. BatchEnd(w) - 1 \in SUBSET (0 .. NonceMax)
    BY BatchBounds, PoolAssumption
  <2>2. BatchEnd(w) \in 0 .. NonceMax
    BY BatchBounds
  <2> QED
    BY <1>4, <2>1, <2>2, EndBatchType DEF BatchExhausted, swVars, flags
<1>5. ASSUME NEW w \in Workers, BatchStopped(w)
      PROVE  TypeOK'
  <2>1. nonce[w] .. BatchEnd(w) - 2 \in SUBSET (0 .. NonceMax)
    BY BatchBounds, PoolAssumption
  <2> QED
    BY <1>5, <2>1, EndBatchType DEF BatchStopped, swVars, flags
<1>6. ASSUME Owner
      PROVE  TypeOK'
  <2>1. NumWorkers \in 0 .. NumWorkers
    BY PoolAssumption
  <2> QED
    BY <1>6, <2>1 DEF Owner, StoreThreadCount, Shutdown, JoinAll, swVars, local, history
<1>7. ASSUME Publish
      PROVE  TypeOK'
  <2>1. updating' \in BOOLEAN
    BY <1>7 DEF Publish, UpdateStore, UpdateBump
  <2>2. work' \in Nat /\ generation' \in Nat
    BY <1>7 DEF Publish, UpdateStore, UpdateBump
  <2>3. UNCHANGED <<flags, pc, local, history>>
    BY <1>7 DEF Publish
  <2> QED
    BY <2>1, <2>2, <2>3 DEF flags, local, history
<1>8. ASSUME Controls
      PROVE  TypeOK'
  <2>1. 0 \in 0 .. HistoryCap /\ 1 .. NumWorkers \subseteq 0 .. NumWorkers
    BY PoolAssumption
  <2> QED
    BY <1>8, <2>1 DEF Controls, Stop, Pause, Resume, SetActive, swVars, local, history
<1>9. CASE UNCHANGED vars
  BY <1>9 DEF vars, swVars, flags, local, history
<1> QED
  BY <1>1, <1>2, <1>3, <1>4, <1>5, <1>6, <1>7, <1>8, <1>9 DEF Next, Worker

(* Every reachable state of the pool is well typed: in particular no       *)
(* worker's nonce leaves the nonce space.                                  *)
THEOREM TypeCorrect == Spec => []TypeOK
BY InitType, TypeStep, PTL DEF Spec

-----------------------------------------------------------------------------
(* The inductive invariant.                                                *)

LEMMA InvInit == Init => PoolInv
<1> SUFFICES ASSUME Init
             PROVE  PoolInv
  OBVIOUS
<1>1. TypeOK
  BY InitType
<1>2. GenerationCountsWork
  BY DEF Init, SharedWorkInit, NoWork, GenerationCountsWork
<1>3. KnownGenerations /\ StaleWorkerLeaves
  BY DEF Init, SharedWorkInit, NoWork, KnownGenerations, StaleWorkerLeaves
<1>4. WithinSlice
  BY DEF Init, WithinSlice, InLoop
<1>5. WinsReported
  BY DEF Init, WinsReported
<1> QED
  BY <1>1, <1>2, <1>3, <1>4, <1>5 DEF PoolInv

(* A batch that tests the interval from nonce[w] to hi adds to shares      *)
(* exactly its wins when it reports them.                                  *)
LEMMA BatchReports ==
  ASSUME WinsReported, NEW w \in Workers, NEW T, EndBatch(w, T),
         shares' = shares \cup {<<w, job[w], n>> : n \in {m \in T : <<job[w], m>> \in Winning}}
  PROVE  WinsReported'
<1> DEFINE new == {w} \X {job[w]} \X T
<1>1. hashed' = hashed \cup new
  BY DEF EndBatch
<1>2. {s \in new : <<s[2], s[3]>> \in Winning}
        = {<<w, job[w], n>> : n \in {m \in T : <<job[w], m>> \in Winning}}
  <2>1. new = {<<w, job[w], n>> : n \in T}
    OBVIOUS
  <2> DEFINE wins == {m \in T : <<job[w], m>> \in Winning}
  <2>2. \A n : <<w, job[w], n>>[2] = job[w] /\ <<w, job[w], n>>[3] = n
    OBVIOUS
  <2>3. ASSUME NEW s \in new, <<s[2], s[3]>> \in Winning
        PROVE  s \in {<<w, job[w], n>> : n \in wins}
    <3>1. PICK n \in T : s = <<w, job[w], n>>
      BY <2>1, <2>3, Zenon
    <3>2. n \in wins
      BY <2>2, <2>3, <3>1
    <3> QED
      BY <3>1, <3>2, Zenon
  <2>4. ASSUME NEW n \in wins
        PROVE  /\ <<w, job[w], n>> \in new
               /\ <<<<w, job[w], n>>[2], <<w, job[w], n>>[3]>> \in Winning
    BY <2>2, <2>4
  <2> HIDE DEF new, wins
  <2> QED
    BY <2>3, <2>4 DEF wins
<1> QED
  BY <1>1, <1>2 DEF WinsReported

(* Whatever a batch tests, it stays within the slice and counts at most    *)
(* one batch on a replaced job.                                            *)
LEMMA BatchKeeps ==
  ASSUME PoolInv, NEW w \in Workers, NEW T, EndBatch(w, T),
         \A n \in T : n \in Nat /\ nonce[w] <= n /\ n < BatchEnd(w),
         NEW b \in {nonce[w], BatchEnd(w)},
         nonce' = [nonce EXCEPT ![w] = b],
         NEW l \in {"stopCheck", "top"}, Goto(w, l)
  PROVE  GenerationCountsWork' /\ KnownGenerations' /\ WithinSlice' /\ StaleWorkerLeaves'
<1> USE DEF PoolInv, TypeOK
<1>1. pc[w] = "hash" /\ UNCHANGED <<work, generation, updating, lastGen, loaded, job>>
  BY DEF EndBatch, swVars
<1>2. GenerationCountsWork'
  BY <1>1 DEF GenerationCountsWork
<1>3. KnownGenerations'
  BY <1>1 DEF KnownGenerations, Goto
<1>4. WithinSlice'
  <2>1. /\ NonceStart(w) <= nonce[w] /\ nonce[w] <= NonceEnd(w)
        /\ NonceStart(w) \in Nat /\ nonce[w] \in Nat
    BY <1>1, SliceBounds, PoolAssumption DEF WithinSlice, InLoop
  <2>b. NonceStart(w) <= b /\ b <= NonceEnd(w)
    BY <2>1, BatchBounds, SliceBounds, PoolAssumption DEF BatchEnd
  <2>2. \A v \in Workers :
          pc'[v] \in InLoop => NonceStart(v) <= nonce'[v] /\ nonce'[v] <= NonceEnd(v)
    BY <1>1, <2>1, <2>b DEF WithinSlice, Goto, InLoop
  <2>3. \A n \in T : NonceStart(w) <= n /\ n < NonceEnd(w)
    BY <2>1, BatchBounds, SliceBounds, PoolAssumption
  <2>4. hashed' = hashed \cup ({w} \X {job[w]} \X T)
    BY DEF EndBatch
  <2>5. \A t \in hashed' : NonceStart(t[1]) <= t[3] /\ t[3] < NonceEnd(t[1])
    BY <2>3, <2>4 DEF WithinSlice
  <2>6. /\ (\A v \in Workers :
              pc[v] \in InLoop => NonceStart(v) <= nonce[v] /\ nonce[v] <= NonceEnd(v))'
        /\ (\A t \in hashed : NonceStart(t[1]) <= t[3] /\ t[3] < NonceEnd(t[1]))'
    BY <2>2, <2>5 DEF NonceStart, NonceEnd, PerWorker
  <2> QED
    BY <2>6 DEF WithinSlice
<1>5. StaleWorkerLeaves'
  <2>1. staleBatches[w] = 0
    BY <1>1 DEF StaleWorkerLeaves
  <2>2. staleBatches' = IF IsNew(lastGen[w]) THEN [staleBatches EXCEPT ![w] = 1]
                                             ELSE staleBatches
    <3>1. 0 < HistoryCap /\ 0 + 1 = 1
      BY PoolAssumption
    <3>2. Increment(staleBatches, w) = [staleBatches EXCEPT ![w] = 1]
      BY <2>1, <3>1 DEF Increment
    <3> QED
      BY <3>2 DEF EndBatch
  <2> QED
    BY <1>1, <2>2 DEF StaleWorkerLeaves, IsNew, Goto
<1> QED
  BY <1>2, <1>3, <1>4, <1>5

LEMMA InvStep == PoolInv /\ [Next]_vars => PoolInv'
<1> SUFFICES ASSUME PoolInv, [Next]_vars
             PROVE  PoolInv'
  OBVIOUS
<1>T. TypeOK /\ TypeOK'
  BY TypeStep DEF PoolInv
<1>0. ASSUME UNCHANGED <<swVars, lastGen, hashed, shares, staleBatches>>,
             NEW w \in Workers, NEW l \in Labels, Goto(w, l),
             UNCHANGED <<job, nonce, loaded>>,
             l \in InLoop => pc[w] \in InLoop,
             l # "clone",
             l \in {"throttleCheck", "hash"} => staleBatches[w] = 0
      PROVE  PoolInv'
  <2>1. GenerationCountsWork' /\ WinsReported'
    BY <1>0 DEF PoolInv, GenerationCountsWork, WinsReported, swVars
  <2>2. KnownGenerations'
    BY <1>0, <1>T DEF PoolInv, TypeOK, KnownGenerations, Goto, swVars
  <2>3. WithinSlice'
    BY <1>0, <1>T DEF PoolInv, TypeOK, WithinSlice, Goto, NonceStart, NonceEnd, PerWorker
  <2>4. StaleWorkerLeaves'
    BY <1>0, <1>T DEF PoolInv, TypeOK, StaleWorkerLeaves, Goto, IsNew, swVars
  <2> QED
    BY <1>T, <2>1, <2>2, <2>3, <2>4 DEF PoolInv
<1>1. ASSUME NEW w \in Workers, Top(w) \/ PauseWait(w) \/ ThrottleWait(w)
      PROVE  PoolInv'
  BY <1>0, <1>1 DEF Top, PauseWait, ThrottleWait, local, history,
                    InLoop, Labels
<1>2. ASSUME NEW w \in Workers, StopCheck(w) \/ GenCheck(w) \/ ThrottleCheck(w)
      PROVE  PoolInv'
  <2>1. ASSUME NEW l \in {"top", "genCheck"}, pc[w] = "stopCheck", Goto(w, l),
               UNCHANGED <<swVars, flags, local, history>>
        PROVE  PoolInv'
    BY <1>0, <2>1 DEF local, history, InLoop, Labels
  <2>2. ASSUME GenCheck(w)
        PROVE  PoolInv'
    <3>1. ~IsNew(lastGen[w]) => staleBatches[w] = 0
      BY DEF PoolInv, StaleWorkerLeaves
    <3> QED
      BY <1>0, <2>2, <3>1 DEF GenCheck, local, history, InLoop, Labels
  <2>3. ASSUME ThrottleCheck(w)
        PROVE  PoolInv'
    <3>1. staleBatches[w] = 0
      BY <2>3 DEF ThrottleCheck, PoolInv, StaleWorkerLeaves
    <3> QED
      BY <1>0, <2>3, <3>1 DEF ThrottleCheck, local, history, InLoop, Labels
  <2> QED
    BY <1>2, <2>1, <2>2, <2>3 DEF StopCheck
<1>3. ASSUME NEW w \in Workers, LoadGeneration(w)
      PROVE  PoolInv'
  <2> USE <1>3, <1>T DEF PoolInv, TypeOK, SharedWorkTypeOK, LoadGeneration, Goto, swVars, history
  <2>1. GenerationCountsWork' /\ WinsReported'
    BY DEF GenerationCountsWork, WinsReported
  <2>2. KnownGenerations'
    BY DEF KnownGenerations, IsNew
  <2>3. WithinSlice'
    BY DEF WithinSlice, InLoop, NonceStart, NonceEnd, PerWorker
  <2>4. StaleWorkerLeaves'
    BY DEF StaleWorkerLeaves, IsNew
  <2> QED
    BY <2>1, <2>2, <2>3, <2>4
<1>4. ASSUME NEW w \in Workers, CloneWork(w)
      PROVE  PoolInv'
  <2> USE <1>4, <1>T DEF PoolInv, TypeOK, SharedWorkTypeOK, CloneWork, Goto, swVars
  <2>0. work # NoWork
    BY DEF KnownGenerations, GenerationCountsWork, NoWork
  <2> USE <2>0
  <2>1. GenerationCountsWork' /\ WinsReported'
    BY DEF GenerationCountsWork, WinsReported
  <2>2. KnownGenerations'
    <3>1. loaded[w] <= work
      BY DEF KnownGenerations, GenerationCountsWork
    <3> QED
      BY <3>1 DEF KnownGenerations
  <2>3. WithinSlice'
    <3>1. NonceStart(w) \in Nat /\ NonceStart(w) <= NonceEnd(w)
      BY SliceBounds
    <3> QED
      BY <3>1 DEF WithinSlice, NonceStart, NonceEnd, PerWorker
  <2>4. StaleWorkerLeaves'
    BY DEF StaleWorkerLeaves, IsNew
  <2> QED
    BY <2>1, <2>2, <2>3, <2>4
<1>5. ASSUME NEW w \in Workers, BatchFound(w)
      PROVE  PoolInv'
  <2>1. PICK n \in WinsIn(w) :
          /\ \A m \in WinsIn(w) : n <= m
          /\ EndBatch(w, nonce[w] .. n)
          /\ shares' = shares \cup {<<w, job[w], n>>}
          /\ nonce' = [nonce EXCEPT ![w] = BatchEnd(w)]
          /\ Goto(w, "stopCheck")
    BY <1>5 DEF BatchFound
  <2>2. /\ nonce[w] \in 0 .. NonceMax /\ BatchEnd(w) \in 0 .. NonceMax
        /\ n \in nonce[w] .. BatchEnd(w) - 1 /\ <<job[w], n>> \in Winning
    BY <1>T, BatchBounds DEF TypeOK, WinsIn
  <2>3. n \in Nat /\ nonce[w] <= n /\ n < BatchEnd(w)
    BY <2>2, PoolAssumption
  <2>4. {m \in nonce[w] .. n : <<job[w], m>> \in Winning} = {n}
    BY <2>1, <2>2, <2>3, PoolAssumption DEF WinsIn
  <2>5. WinsReported'
    BY <2>1, <2>4, BatchReports DEF PoolInv
  <2>6. GenerationCountsWork' /\ KnownGenerations' /\ WithinSlice' /\ StaleWorkerLeaves'
    <3>1. \A m \in nonce[w] .. n : m \in Nat /\ nonce[w] <= m /\ m < BatchEnd(w)
      BY <2>2, <2>3, PoolAssumption
    <3> QED
      BY <2>1, <3>1, BatchKeeps
  <2> QED
    BY <1>T, <2>5, <2>6 DEF PoolInv
<1>6. ASSUME NEW w \in Workers, BatchExhausted(w)
      PROVE  PoolInv'
  <2>1. /\ WinsIn(w) = {}
        /\ EndBatch(w, nonce[w] .. BatchEnd(w) - 1)
        /\ nonce' = [nonce EXCEPT ![w] = BatchEnd(w)]
        /\ Goto(w, "stopCheck")
        /\ shares' = shares
    BY <1>6 DEF BatchExhausted
  <2>2. nonce[w] \in 0 .. NonceMax /\ BatchEnd(w) \in 0 .. NonceMax
    BY <1>T, BatchBounds DEF TypeOK
  <2>3. {m \in nonce[w] .. BatchEnd(w) - 1 : <<job[w], m>> \in Winning} = {}
    BY <2>1 DEF WinsIn
  <2>4. WinsReported'
    BY <2>1, <2>3, BatchReports DEF PoolInv
  <2>5. \A m \in nonce[w] .. BatchEnd(w) - 1 :
          m \in Nat /\ nonce[w] <= m /\ m < BatchEnd(w)
    BY <2>2, PoolAssumption
  <2> QED
    BY <1>T, <2>1, <2>4, <2>5, BatchKeeps DEF PoolInv
<1>7. ASSUME NEW w \in Workers, BatchStopped(w)
      PROVE  PoolInv'
  <2>1. /\ WinsIn(w) \subseteq LastOfFullBatch(w)
        /\ EndBatch(w, nonce[w] .. BatchEnd(w) - 2)
        /\ Goto(w, "top")
        /\ shares' = shares /\ nonce' = nonce
    BY <1>7 DEF BatchStopped
  <2>2. nonce[w] \in 0 .. NonceMax /\ BatchEnd(w) \in 0 .. NonceMax
    BY <1>T, BatchBounds DEF TypeOK
  <2>3. {m \in nonce[w] .. BatchEnd(w) - 2 : <<job[w], m>> \in Winning} = {}
    BY <2>1, <2>2, PoolAssumption DEF WinsIn, LastOfFullBatch
  <2>4. WinsReported'
    BY <2>1, <2>3, BatchReports DEF PoolInv
  <2>5. \A m \in nonce[w] .. BatchEnd(w) - 2 :
          m \in Nat /\ nonce[w] <= m /\ m < BatchEnd(w)
    BY <2>2, PoolAssumption
  <2>6. nonce' = [nonce EXCEPT ![w] = nonce[w]]
    BY <1>T, <2>1 DEF TypeOK
  <2> QED
    BY <1>T, <2>1, <2>4, <2>5, <2>6, BatchKeeps DEF PoolInv
<1>8. ASSUME Publish
      PROVE  PoolInv'
  <2> USE <1>8, <1>T DEF PoolInv, TypeOK, SharedWorkTypeOK, Publish, UpdateStore,
                         UpdateBump, local, history
  <2>1. GenerationCountsWork'
    BY DEF GenerationCountsWork
  <2>2. KnownGenerations'
    BY DEF KnownGenerations
  <2>3. WithinSlice' /\ WinsReported'
    BY DEF WithinSlice, WinsReported, NonceStart, NonceEnd, PerWorker
  <2>4. StaleWorkerLeaves'
    BY DEF StaleWorkerLeaves, IsNew, KnownGenerations
  <2> QED
    BY <2>1, <2>2, <2>3, <2>4
<1>9. ASSUME UNCHANGED <<swVars, pc, local, hashed, shares, staleBatches>>
      PROVE  PoolInv'
  BY <1>9, <1>T DEF PoolInv, GenerationCountsWork, KnownGenerations, WithinSlice,
                    StaleWorkerLeaves, WinsReported, IsNew, NonceStart, NonceEnd,
                    PerWorker, swVars, local
<1>10. ASSUME Owner \/ Controls \/ UNCHANGED vars
       PROVE  PoolInv'
  BY <1>9, <1>10 DEF Owner, StoreThreadCount, Shutdown, JoinAll, Controls, Stop,
                     Pause, Resume, SetActive, vars, history
<1> QED
  BY <1>1, <1>2, <1>3, <1>4, <1>5, <1>6, <1>7, <1>8, <1>10 DEF Next, Worker

(* The inductive invariant holds in every reachable state.                 *)
THEOREM InvCorrect == Spec => []PoolInv
BY InvInit, InvStep, PTL DEF Spec

-----------------------------------------------------------------------------
(* The safety properties.                                                  *)

(* A worker's job is never older than the generation it recorded.          *)
THEOREM FreshWorkHolds == Spec => []FreshWork
<1>1. PoolInv => FreshWork
  BY DEF PoolInv, TypeOK, SharedWorkTypeOK, GenerationCountsWork, KnownGenerations,
         FreshWork
<1> QED
  BY <1>1, InvCorrect, PTL

(* A worker finishes at most one batch on a job already replaced.          *)
THEOREM StaleBatchBoundHolds == Spec => []StaleBatchBound
<1>1. PoolInv => StaleBatchBound
  BY DEF PoolInv, TypeOK, StaleWorkerLeaves, StaleBatchBound
<1> QED
  BY <1>1, InvCorrect, PTL

(* No two workers ever hash the same nonce of the same job: the slices     *)
(* computed by worker.rs are disjoint for every thread count and every     *)
(* size of the nonce space, and no worker leaves its own.                  *)
THEOREM DisjointSearchHolds == Spec => []DisjointSearch
<1>1. ASSUME PoolInv
      PROVE  DisjointSearch
  <2>1. SUFFICES ASSUME NEW s \in hashed, NEW t \in hashed, s[3] = t[3], s[1] # t[1]
                 PROVE  FALSE
    BY DEF DisjointSearch
  <2>2. s[1] \in Workers /\ t[1] \in Workers /\ s[3] \in Nat /\ t[3] \in Nat
    BY <1>1, PoolAssumption DEF PoolInv, TypeOK
  <2>3. /\ NonceStart(s[1]) <= s[3] /\ s[3] < NonceEnd(s[1])
        /\ NonceStart(t[1]) <= t[3] /\ t[3] < NonceEnd(t[1])
    BY <1>1 DEF PoolInv, WithinSlice
  <2>4. s[1] < t[1] \/ t[1] < s[1]
    BY <2>1, <2>2, PoolAssumption DEF Workers
  <2>5. CASE s[1] < t[1]
    BY <2>1, <2>2, <2>3, <2>5, SlicesOrdered, SliceBounds
  <2>6. CASE t[1] < s[1]
    BY <2>1, <2>2, <2>3, <2>6, SlicesOrdered, SliceBounds
  <2> QED
    BY <2>4, <2>5, <2>6
<1> QED
  BY <1>1, InvCorrect, PTL

(* Every win hashed is reported with the job it was hashed for, and        *)
(* nothing else is.                                                        *)
THEOREM WinsReportedHolds == Spec => []WinsReported
<1>1. PoolInv => WinsReported
  BY DEF PoolInv
<1> QED
  BY <1>1, InvCorrect, PTL

(* What a worker has passed in its slice it has searched.                  *)
ThroughInv ==
  \A w \in Workers : job[w] # NoWork =>
    \A n \in Nat : NonceStart(w) <= n /\ n < nonce[w] => Searched(w, n)

LEMMA SearchedStays ==
  ASSUME NEW w \in Workers, NEW n, Searched(w, n), job'[w] = job[w],
         hashed \subseteq hashed', shares \subseteq shares'
  PROVE  Searched(w, n)'
BY DEF Searched

(* A step that moves one worker to position b, having searched what lies   *)
(* between.                                                                *)
LEMMA ThroughMoves ==
  ASSUME ThroughInv, TypeOK, NEW w \in Workers, NEW b \in 0 .. NonceMax,
         nonce' = [nonce EXCEPT ![w] = b], UNCHANGED job,
         hashed \subseteq hashed', shares \subseteq shares',
         \A n \in Nat : nonce[w] <= n /\ n < b => Searched(w, n)'
  PROVE  ThroughInv'
<1> SUFFICES ASSUME NEW v \in Workers, job[v] # NoWork, NEW n \in Nat,
                    NonceStart(v) <= n, n < nonce'[v]
             PROVE  Searched(v, n)'
  BY DEF ThroughInv, NonceStart, PerWorker
<1>1. nonce[v] \in Nat /\ nonce \in [Workers -> 0 .. NonceMax]
  BY PoolAssumption DEF TypeOK
<1>2. CASE n < nonce[v]
  BY <1>2, SearchedStays DEF ThroughInv
<1>3. CASE ~(n < nonce[v])
  <2>1. v = w /\ nonce[w] <= n /\ n < b
    BY <1>1, <1>3
  <2> QED
    BY <2>1
<1> QED
  BY <1>2, <1>3

LEMMA ThroughStep == TypeOK /\ ThroughInv /\ [Next]_vars => ThroughInv'
<1> SUFFICES ASSUME TypeOK, ThroughInv, [Next]_vars
             PROVE  ThroughInv'
  OBVIOUS
<1>1. ASSUME UNCHANGED <<job, nonce, shares>>, hashed \subseteq hashed'
      PROVE  ThroughInv'
  BY <1>1, SearchedStays DEF ThroughInv, NonceStart, PerWorker
<1>2. ASSUME NEW w \in Workers,
             \/ Top(w) \/ PauseWait(w) \/ ThrottleWait(w) \/ LoadGeneration(w)
             \/ StopCheck(w) \/ GenCheck(w) \/ ThrottleCheck(w)
      PROVE  ThroughInv'
  BY <1>1, <1>2 DEF Top, PauseWait, ThrottleWait, LoadGeneration, StopCheck, GenCheck,
                    ThrottleCheck, local, history
<1>3. ASSUME NEW w \in Workers, CloneWork(w)
      PROVE  ThroughInv'
  <2>1. UNCHANGED <<hashed, shares>>
    BY <1>3 DEF CloneWork
  <2>2. CASE work = NoWork
    BY <1>1, <1>3, <2>1, <2>2 DEF CloneWork
  <2>3. CASE work # NoWork
    <3>1. /\ job' = [job EXCEPT ![w] = work]
          /\ nonce' = [nonce EXCEPT ![w] = NonceStart(w)]
      BY <1>3, <2>3 DEF CloneWork
    <3>2. \A v \in Workers \ {w} : job'[v] = job[v] /\ nonce'[v] = nonce[v]
      BY <3>1 DEF TypeOK
    <3>3. nonce'[w] = NonceStart(w) /\ NonceStart(w) \in Nat
      BY <3>1, SliceBounds DEF TypeOK
    <3> SUFFICES ASSUME NEW v \in Workers, job'[v] # NoWork, NEW n \in Nat,
                        NonceStart(v) <= n, n < nonce'[v]
                 PROVE  Searched(v, n)'
      BY DEF ThroughInv, NonceStart, PerWorker
    <3>4. v # w
      BY <3>3
    <3> QED
      BY <2>1, <3>2, <3>4, SearchedStays DEF ThroughInv
  <2> QED
    BY <2>2, <2>3
<1>4. ASSUME NEW w \in Workers, BatchFound(w)
      PROVE  ThroughInv'
  <2>1. PICK f \in WinsIn(w) :
          /\ EndBatch(w, nonce[w] .. f)
          /\ shares' = shares \cup {<<w, job[w], f>>}
          /\ nonce' = [nonce EXCEPT ![w] = BatchEnd(w)]
    BY <1>4 DEF BatchFound
  <2>2. /\ nonce[w] \in Nat /\ BatchEnd(w) \in 0 .. NonceMax /\ CheckInterval \in Nat
        /\ f \in Nat /\ nonce[w] <= f /\ f < BatchEnd(w)
    BY <2>1, BatchBounds, PoolAssumption DEF TypeOK, WinsIn
  <2>3. BatchEnd(w) <= nonce[w] + CheckInterval
    BY <2>2, SliceBounds, PoolAssumption DEF BatchEnd
  <2>4. UNCHANGED job /\ hashed' = hashed \cup ({w} \X {job[w]} \X (nonce[w] .. f))
    BY <2>1 DEF EndBatch
  <2>5. ASSUME NEW n \in Nat, nonce[w] <= n, n < BatchEnd(w)
        PROVE  Searched(w, n)'
    <3>1. CASE n <= f
      <4>1. n \in nonce[w] .. f
        BY <2>2, <2>5, <3>1
      <4>2. <<w, job'[w], n>> \in hashed'
        BY <2>4, <4>1
      <4> QED
        BY <4>2 DEF Searched
    <3>2. CASE ~(n <= f)
      <4>1. f \in 0 .. n /\ n < f + CheckInterval
        BY <2>2, <2>3, <2>5, <3>2
      <4>2. <<w, job'[w], f>> \in shares'
        BY <2>1, <2>4
      <4> QED
        BY <4>1, <4>2 DEF Searched
    <3> QED
      BY <3>1, <3>2
  <2> QED
    BY <2>1, <2>2, <2>4, <2>5, ThroughMoves
<1>5. ASSUME NEW w \in Workers, BatchExhausted(w)
      PROVE  ThroughInv'
  <2>1. /\ EndBatch(w, nonce[w] .. BatchEnd(w) - 1)
        /\ nonce' = [nonce EXCEPT ![w] = BatchEnd(w)]
        /\ UNCHANGED shares
    BY <1>5 DEF BatchExhausted
  <2>2. nonce[w] \in Nat /\ BatchEnd(w) \in 0 .. NonceMax /\ BatchEnd(w) \in Nat
    BY BatchBounds, PoolAssumption DEF TypeOK
  <2>3. UNCHANGED job /\ hashed' = hashed \cup ({w} \X {job[w]} \X (nonce[w] .. BatchEnd(w) - 1))
    BY <2>1 DEF EndBatch
  <2>4. ASSUME NEW n \in Nat, nonce[w] <= n, n < BatchEnd(w)
        PROVE  Searched(w, n)'
    <3>1. n \in nonce[w] .. BatchEnd(w) - 1
      BY <2>2, <2>4
    <3>2. <<w, job'[w], n>> \in hashed'
      BY <2>3, <3>1
    <3> QED
      BY <3>2 DEF Searched
  <2> QED
    BY <2>1, <2>2, <2>3, <2>4, ThroughMoves
<1>6. ASSUME NEW w \in Workers, BatchStopped(w)
      PROVE  ThroughInv'
  BY <1>1, <1>6 DEF BatchStopped, EndBatch
<1>7. ASSUME Owner \/ Publish \/ Controls \/ UNCHANGED vars
      PROVE  ThroughInv'
  BY <1>1, <1>7 DEF Owner, StoreThreadCount, Shutdown, JoinAll, Publish, Controls, Stop,
                    Pause, Resume, SetActive, vars, local, history
<1> QED
  BY <1>2, <1>3, <1>4, <1>5, <1>6, <1>7 DEF Next, Worker

(* A job that the workers have gone through has no nonce left out but      *)
(* those behind a find in its batch, for every number of workers and every *)
(* length of a batch, replaced and interrupted jobs before it included.    *)
THEOREM NothingLeftOutHolds == Spec => []NothingLeftOut
<1>1. Init => ThroughInv
  BY DEF Init, ThroughInv
<1>2. ThroughInv => NothingLeftOut
  <2> SUFFICES ASSUME ThroughInv, NEW n \in 0 .. NonceMax - 1,
                      \A w \in Workers : job[w] # NoWork /\ nonce[w] = NonceEnd(w)
               PROVE  \E w \in Workers : Searched(w, n)
    BY DEF NothingLeftOut
  <2>1. PICK w \in Workers : NonceStart(w) <= n /\ n < NonceEnd(w)
    BY SlicesCover
  <2> QED
    BY <2>1 DEF ThroughInv
<1> QED
  BY <1>1, <1>2, TypeCorrect, ThroughStep, PTL DEF Spec

(* The workers share out every nonce of a job, each to one of them, for    *)
(* every number of workers and every size of the nonce space, whatever the *)
(* division leaves over.                                                   *)
THEOREM EachNonceOnceHolds == Spec => []EachNonceOnce
BY DisjointSearchHolds, NothingLeftOutHolds, PTL DEF EachNonceOnce

(* shutdown() returns only after every worker has left mining_worker(), so *)
(* nothing is hashed or reported afterwards.                               *)
THEOREM QuietWhenDownHolds == Spec => QuietWhenDown
<1> DEFINE Down == phase = "down" => \A w \in Workers : pc[w] = "exited"
<1>1. Init => Down
  BY DEF Init
<1>2. TypeOK /\ Down /\ [Next]_vars => Down' /\ (phase = "down" => UNCHANGED <<hashed, shares>>)
  <2> SUFFICES ASSUME TypeOK, Down, [Next]_vars
               PROVE  Down' /\ (phase = "down" => UNCHANGED <<hashed, shares>>)
    OBVIOUS
  <2>1. ASSUME NEW w \in Workers, Worker(w)
        PROVE  phase # "down" /\ phase' = phase
    BY <2>1 DEF Worker, Top, PauseWait, ThrottleWait, LoadGeneration,
                CloneWork, StopCheck, GenCheck, ThrottleCheck, BatchFound,
                BatchExhausted, BatchStopped, EndBatch, flags
  <2>2. ASSUME Owner
        PROVE  Down' /\ UNCHANGED <<hashed, shares>>
    BY <2>2 DEF Owner, StoreThreadCount, Shutdown, JoinAll, history
  <2>3. ASSUME Publish \/ Controls \/ UNCHANGED vars
        PROVE  UNCHANGED <<phase, pc, hashed, shares>>
    BY <2>3 DEF Publish, Controls, Stop, Pause, Resume, SetActive, vars, flags, history
  <2> QED
    BY <2>1, <2>2, <2>3 DEF Next
<1>3. TypeOK /\ Down /\ [Next]_vars => [phase = "down" => UNCHANGED <<hashed, shares>>]_vars
  BY <1>2
<1> QED
  BY <1>1, <1>2, <1>3, TypeCorrect, PTL DEF Spec, QuietWhenDown
=============================================================================
