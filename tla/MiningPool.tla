----------------------------- MODULE MiningPool -----------------------------
(***************************************************************************)
(* The CPU mining pool: crates/mi-mining/src/pool.rs and worker.rs.        *)
(*                                                                         *)
(* NumWorkers threads run mining_worker().  Each owns a slice of the nonce *)
(* space, polls SharedWork for a new job between batches of CheckInterval  *)
(* nonces, and obeys three flags of MiningStats that other threads write:  *)
(* should_stop, paused and active_cpu_threads.  The environment is the     *)
(* Stratum client (update), the web handlers and the hasher self-check     *)
(* (pause, resume, stop) and the activity monitor (active_cpu_threads).    *)
(*                                                                         *)
(* Every load or store of shared memory is a step of its own, except that  *)
(* one turn of a sleep-and-poll loop is one step: the loop is left as soon *)
(* as one of its exit conditions is read.                                  *)
(***************************************************************************)
EXTENDS SharedWork

CONSTANTS
  NumWorkers,     \* thread_count
  NonceMax,       \* u32::MAX, the exclusive upper end of the last slice
  CheckInterval,  \* check_interval, 1 << 20 in the code
  Winning,        \* the pairs <<job, nonce>> whose hash meets the job's target
  HistoryCap      \* bound: the history counter saturates here

ASSUME PoolAssumption ==
  /\ NumWorkers \in Nat \ {0}
  /\ NonceMax \in Nat
  /\ CheckInterval \in Nat \ {0}
  /\ Winning \subseteq Nat \X Nat
  /\ HistoryCap \in Nat \ {0, 1}

Workers == 0 .. NumWorkers - 1

VARIABLES
  stop,           \* stats.should_stop
  paused,         \* stats.paused
  active,         \* stats.active_cpu_threads
  phase,          \* the thread that owns the pool: spawning, up, joining, down
  pc,             \* where each worker is in mining_worker()
  lastGen,        \* last_gen of each worker
  loaded,         \* current_gen, loaded by get_if_new but not yet returned
  job,            \* the Work each worker holds
  nonce,          \* nonce of each worker
  hashed,         \* history: <<worker, job, nonce>> hashed so far
  shares,         \* history: <<worker, job, nonce>> passed to on_found
  staleBatches    \* history: batches finished on a job already replaced

flags   == <<stop, paused, active, phase>>
local   == <<lastGen, loaded, job, nonce>>
history == <<hashed, shares, staleBatches>>
vars    == <<swVars, flags, pc, local, history>>

Labels == {"top", "pauseWait", "throttleWait", "load", "clone", "stopCheck",
           "genCheck", "throttleCheck", "hash", "exited"}
Phases == {"spawning", "up", "joining", "down"}

TypeOK ==
  /\ SharedWorkTypeOK
  /\ stop \in BOOLEAN
  /\ paused \in BOOLEAN
  /\ active \in 0 .. NumWorkers
  /\ phase \in Phases
  /\ pc \in [Workers -> Labels]
  /\ lastGen \in [Workers -> Nat]
  /\ loaded \in [Workers -> Nat]
  /\ job \in [Workers -> Nat]
  /\ nonce \in [Workers -> 0 .. NonceMax]
  /\ hashed \subseteq Workers \X Nat \X (0 .. NonceMax)
  /\ shares \subseteq Workers \X Nat \X (0 .. NonceMax)
  /\ staleBatches \in [Workers -> 0 .. HistoryCap]

Init ==
  /\ SharedWorkInit
  /\ stop = FALSE
  /\ paused = FALSE
  /\ active = 0
  /\ phase = "spawning"
  /\ pc = [w \in Workers |-> "top"]
  /\ lastGen = [w \in Workers |-> 0]
  /\ loaded = [w \in Workers |-> 0]
  /\ job = [w \in Workers |-> NoWork]
  /\ nonce = [w \in Workers |-> 0]
  /\ hashed = {}
  /\ shares = {}
  /\ staleBatches = [w \in Workers |-> 0]

-----------------------------------------------------------------------------
(* The slices of the nonce space, worker.rs "Divide nonce space".          *)

PerWorker == NonceMax \div NumWorkers

NonceStart(w) == w * PerWorker

\* Mutant: what the division leaves over is in no slice.
RemainderDropped(w) == (w + 1) * PerWorker

NonceEnd(w) ==
  IF w = NumWorkers - 1 THEN NonceMax ELSE (w + 1) * PerWorker

\* A batch is a check interval long, but for the last of a slice.
BatchEnd(w) ==
  IF nonce[w] + CheckInterval < NonceEnd(w)
    THEN nonce[w] + CheckInterval
    ELSE NonceEnd(w)

Goto(w, label) == pc' = [pc EXCEPT ![w] = label]

Increment(f, w) ==
  [f EXCEPT ![w] = IF @ < HistoryCap THEN @ + 1 ELSE @]

-----------------------------------------------------------------------------
(* The head of the outer loop.                                             *)

Top(w) ==
  /\ pc[w] = "top"
  /\ Goto(w, IF stop THEN "exited" ELSE "pauseWait")
  /\ UNCHANGED <<swVars, flags, local, history>>

PauseWait(w) ==
  /\ pc[w] = "pauseWait"
  /\ ~paused \/ stop
  /\ Goto(w, "throttleWait")
  /\ UNCHANGED <<swVars, flags, local, history>>

\* Mutant: a throttled worker does not look for new work while it waits.
ThrottleWaitDeaf(w) ==
  /\ pc[w] = "throttleWait"
  /\ w < active \/ stop
  /\ Goto(w, "load")
  /\ UNCHANGED <<swVars, flags, local, history>>

\* Mutant: a throttled worker does not look at should_stop while it waits.
ThrottleWaitUnstoppable(w) ==
  /\ pc[w] = "throttleWait"
  /\ w < active \/ IsNew(lastGen[w])
  /\ Goto(w, "load")
  /\ UNCHANGED <<swVars, flags, local, history>>

ThrottleWait(w) ==
  /\ pc[w] = "throttleWait"
  /\ w < active \/ stop \/ IsNew(lastGen[w])
  /\ Goto(w, "load")
  /\ UNCHANGED <<swVars, flags, local, history>>

(* get_if_new(): the load of the generation, and the clone of the work.    *)
LoadGeneration(w) ==
  /\ pc[w] = "load"
  /\ loaded' = [loaded EXCEPT ![w] = generation]
  /\ Goto(w, IF IsNew(lastGen[w]) THEN "clone" ELSE "top")
  /\ UNCHANGED <<swVars, flags, lastGen, job, nonce, history>>

CloneWork(w) ==
  /\ pc[w] = "clone"
  /\ IF work = NoWork
       THEN /\ Goto(w, "top")
            /\ UNCHANGED <<job, lastGen, nonce, staleBatches>>
       ELSE /\ Goto(w, "stopCheck")
            /\ job' = [job EXCEPT ![w] = work]
            /\ lastGen' = [lastGen EXCEPT ![w] = loaded[w]]
            /\ nonce' = [nonce EXCEPT ![w] = NonceStart(w)]
            /\ staleBatches' = [staleBatches EXCEPT ![w] = 0]
  /\ UNCHANGED <<swVars, flags, loaded, hashed, shares>>

-----------------------------------------------------------------------------
(* The inner loop: three checks, then one batch of hash_range_midstate.    *)

StopCheck(w) ==
  /\ pc[w] = "stopCheck"
  /\ Goto(w, IF nonce[w] < NonceEnd(w) /\ ~stop THEN "genCheck" ELSE "top")
  /\ UNCHANGED <<swVars, flags, local, history>>

\* Mutant: the inner loop never looks at the generation.
GenCheckSkipped(w) ==
  /\ pc[w] = "genCheck"
  /\ Goto(w, "throttleCheck")
  /\ UNCHANGED <<swVars, flags, local, history>>

GenCheck(w) ==
  /\ pc[w] = "genCheck"
  /\ Goto(w, IF IsNew(lastGen[w]) THEN "top" ELSE "throttleCheck")
  /\ UNCHANGED <<swVars, flags, local, history>>

ThrottleCheck(w) ==
  /\ pc[w] = "throttleCheck"
  /\ Goto(w, IF w < active THEN "hash" ELSE "top")
  /\ UNCHANGED <<swVars, flags, local, history>>

(***************************************************************************)
(* One call of hash_range_midstate, as the worker sees it: the contract of *)
(* module HashCall.  It returns at the first winning nonce.  Its countdown *)
(* reaches zero only in a batch of full length, before the last nonce is   *)
(* tested: there it reads should_stop, which may still be set between that *)
(* read and the return.  However the call ends, except Stopped, the next   *)
(* batch starts at BatchEnd.                                               *)
(***************************************************************************)
LastOfFullBatch(w) ==
  IF BatchEnd(w) = nonce[w] + CheckInterval THEN {BatchEnd(w) - 1} ELSE {}

WinsIn(w) == {n \in nonce[w] .. BatchEnd(w) - 1 : <<job[w], n>> \in Winning}

EndBatch(w, tested) ==
  /\ pc[w] = "hash"
  /\ hashed' = hashed \cup ({w} \X {job[w]} \X tested)
  /\ staleBatches' = IF IsNew(lastGen[w]) THEN Increment(staleBatches, w)
                                          ELSE staleBatches
  /\ UNCHANGED <<swVars, flags, lastGen, loaded, job>>

\* Mutant: the share is reported with the work that is current by now.
FoundForCurrentWork(w) ==
  \E n \in WinsIn(w) :
    /\ \A m \in WinsIn(w) : n <= m
    /\ EndBatch(w, nonce[w] .. n)
    /\ shares' = shares \cup {<<w, work, n>>}
    /\ nonce' = [nonce EXCEPT ![w] = BatchEnd(w)]
    /\ Goto(w, "stopCheck")

\* Mutant: a find ends the search of the slice.
FoundLeavesLoop(w) ==
  \E n \in WinsIn(w) :
    /\ \A m \in WinsIn(w) : n <= m
    /\ EndBatch(w, nonce[w] .. n)
    /\ shares' = shares \cup {<<w, job[w], n>>}
    /\ nonce' = [nonce EXCEPT ![w] = BatchEnd(w)]
    /\ Goto(w, "top")

BatchFound(w) ==
  \E n \in WinsIn(w) :
    /\ \A m \in WinsIn(w) : n <= m
    /\ EndBatch(w, nonce[w] .. n)
    /\ shares' = shares \cup {<<w, job[w], n>>}
    /\ nonce' = [nonce EXCEPT ![w] = BatchEnd(w)]
    /\ Goto(w, "stopCheck")

BatchExhausted(w) ==
  /\ WinsIn(w) = {}
  /\ EndBatch(w, nonce[w] .. BatchEnd(w) - 1)
  /\ nonce' = [nonce EXCEPT ![w] = BatchEnd(w)]
  /\ Goto(w, "stopCheck")
  /\ UNCHANGED shares

BatchStopped(w) ==
  /\ stop
  /\ LastOfFullBatch(w) # {}
  /\ WinsIn(w) \subseteq LastOfFullBatch(w)
  /\ EndBatch(w, nonce[w] .. BatchEnd(w) - 2)
  /\ Goto(w, "top")
  /\ UNCHANGED <<nonce, shares>>

Worker(w) ==
  \/ Top(w) \/ PauseWait(w) \/ ThrottleWait(w)
  \/ LoadGeneration(w) \/ CloneWork(w)
  \/ StopCheck(w) \/ GenCheck(w) \/ ThrottleCheck(w)
  \/ BatchFound(w) \/ BatchExhausted(w) \/ BatchStopped(w)

-----------------------------------------------------------------------------
(* The owner of the pool: with_shared_work() spawns the threads and only   *)
(* then stores the thread count; shutdown() sets should_stop and joins.    *)

StoreThreadCount ==
  /\ phase = "spawning"
  /\ active' = NumWorkers
  /\ phase' = "up"
  /\ UNCHANGED <<swVars, stop, paused, pc, local, history>>

Shutdown ==
  /\ phase = "up"
  /\ stop
  /\ phase' = "joining"
  /\ UNCHANGED <<swVars, stop, paused, active, pc, local, history>>

\* Mutant: shutdown() does not wait for the threads.
JoinNobody ==
  /\ phase = "joining"
  /\ phase' = "down"
  /\ UNCHANGED <<swVars, stop, paused, active, pc, local, history>>

JoinAll ==
  /\ phase = "joining"
  /\ \A w \in Workers : pc[w] = "exited"
  /\ phase' = "down"
  /\ UNCHANGED <<swVars, stop, paused, active, pc, local, history>>

Owner == StoreThreadCount \/ Shutdown \/ JoinAll

(* The other threads.  Only the Ctrl+C handler runs before the pool is     *)
(* built.                                                                  *)

\* Mutant: an update bumps the generation first and stores the work second.
PublishSwapped ==
  /\ phase # "spawning"
  /\ BumpBeforeStore \/ StoreAfterBump
  /\ UNCHANGED <<flags, pc, local, history>>

Publish ==
  /\ phase # "spawning"
  /\ UpdateStore \/ UpdateBump
  /\ UNCHANGED <<flags, pc, local, history>>

Stop ==
  /\ ~stop
  /\ stop' = TRUE
  /\ UNCHANGED <<swVars, paused, active, phase, pc, local, history>>

Pause ==
  /\ phase # "spawning"
  /\ ~paused
  /\ paused' = TRUE
  /\ UNCHANGED <<swVars, stop, active, phase, pc, local, history>>

Resume ==
  /\ paused
  /\ paused' = FALSE
  /\ UNCHANGED <<swVars, stop, active, phase, pc, local, history>>

(* compute_throttle never asks for fewer than one thread.                  *)
SetActive(n) ==
  /\ phase # "spawning"
  /\ n # active
  /\ active' = n
  /\ UNCHANGED <<swVars, stop, paused, phase, pc, local, history>>

Controls == Stop \/ Pause \/ Resume \/ \E n \in 1 .. NumWorkers : SetActive(n)

Next == (\E w \in Workers : Worker(w)) \/ Owner \/ Publish \/ Controls

(***************************************************************************)
(* Threads are scheduled by the operating system and every sleep is        *)
(* finite, so each worker, the owner, and an update once begun make        *)
(* progress.  Nobody is obliged to publish, pause, resume or stop.         *)
(***************************************************************************)
Fairness ==
  /\ \A w \in Workers : WF_vars(Worker(w))
  /\ WF_vars(Owner)
  /\ WF_vars(Publish /\ updating)

Spec == Init /\ [][Next]_vars /\ Fairness
-----------------------------------------------------------------------------
(* Safety.                                                                 *)

(* A worker never records a generation newer than the work it holds: were  *)
(* it to, it would mine an old job and never look for the newer one.  It   *)
(* is what makes the two unsynchronised reads of get_if_new() harmless.    *)
FreshWork ==
  /\ generation <= work
  /\ \A w \in Workers : lastGen[w] <= job[w]

(* "All workers will pick it up on their next check" (pool.rs): once a job *)
(* is replaced and the generation bumped, a worker finishes at most the    *)
(* batch it is in.                                                         *)
StaleBatchBound == \A w \in Workers : staleBatches[w] <= 1

(* Two workers never hash the same nonce of the same job, whatever jobs    *)
(* each of them happened to pick up.                                       *)
DisjointSearch ==
  \A s, t \in hashed : s[2] = t[2] /\ s[3] = t[3] => s[1] = t[1]

(* Every winning nonce that was hashed is reported, with the job it was    *)
(* hashed for even when that job was replaced meanwhile, and nothing else  *)
(* is reported.                                                            *)
WinsReported == shares = {s \in hashed : <<s[2], s[3]>> \in Winning}

(* A nonce of the job a worker holds was hashed, or it is in the rest of a *)
(* batch that the worker left when it found a share.                       *)
Searched(w, n) ==
  \/ <<w, job[w], n>> \in hashed
  \/ \E m \in 0 .. n : n < m + CheckInterval /\ <<w, job[w], m>> \in shares

(* A job that the workers have gone through has no nonce left out: the     *)
(* slices leave no gap between them and none at the end, whatever the      *)
(* division leaves over, and no pause, throttling or stop skips a batch.   *)
NothingLeftOut ==
  (\A w \in Workers : job[w] # NoWork /\ job[w] = job[0] /\ nonce[w] = NonceEnd(w)) =>
    \A n \in 0 .. NonceMax - 1 : \E w \in Workers : Searched(w, n)

(* The workers share out the nonces of a job: none is hashed by two, and   *)
(* none is left out when all have gone through it.                         *)
EachNonceOnce == DisjointSearch /\ NothingLeftOut

-----------------------------------------------------------------------------
(* The inductive invariant behind the safety properties.                   *)

(* The generation counts the works stored, less the one being announced.   *)
GenerationCountsWork ==
  IF updating THEN work = generation + 1 ELSE work = generation

(* The generations and the job a worker knows are ordered: it recorded a   *)
(* generation it had loaded, and cloned the work after that load.          *)
KnownGenerations ==
  \A w \in Workers :
    /\ lastGen[w] <= loaded[w]
    /\ loaded[w] <= generation
    /\ lastGen[w] <= job[w]
    /\ pc[w] = "clone" => lastGen[w] < loaded[w]

InLoop == {"stopCheck", "genCheck", "throttleCheck", "hash"}

(* A worker in its inner loop is inside its slice, and so is what it has   *)
(* hashed.                                                                 *)
WithinSlice ==
  /\ \A w \in Workers :
       pc[w] \in InLoop => NonceStart(w) <= nonce[w] /\ nonce[w] <= NonceEnd(w)
  /\ \A t \in hashed : NonceStart(t[1]) <= t[3] /\ t[3] < NonceEnd(t[1])

(* A worker that finished a batch on a replaced job cannot reach another.  *)
StaleWorkerLeaves ==
  \A w \in Workers :
    staleBatches[w] # 0 =>
      /\ staleBatches[w] = 1
      /\ IsNew(lastGen[w])
      /\ pc[w] \notin {"throttleCheck", "hash"}

PoolInv ==
  /\ TypeOK
  /\ GenerationCountsWork
  /\ KnownGenerations
  /\ WithinSlice
  /\ StaleWorkerLeaves
  /\ WinsReported

-----------------------------------------------------------------------------
(* Action properties.                                                      *)

(* Once shutdown() has returned no nonce is hashed and no share reported.  *)
QuietWhenDown == [][phase = "down" => UNCHANGED <<hashed, shares>>]_vars

-----------------------------------------------------------------------------
(* Liveness.                                                               *)

(* A stop request ends every worker, paused or throttled as it may be, and *)
(* shutdown() returns.                                                     *)
StopLeadsToDown == stop ~> phase = "down"

(* Unless mining stays paused or is stopped, every worker, throttled ones  *)
(* included, comes to hold a job at least as recent as each one announced. *)
AnnouncedWorkFetched ==
  <>[](~paused /\ ~stop) =>
    \A g \in 1 .. MaxJobs :
      generation = g ~> \A w \in Workers : job[w] >= g

(* The pool's last job is searched to the end, and stays searched, what-   *)
(* ever was paused and resumed, replaced or throttled before: a worker     *)
(* that is not throttled while it holds the current job goes through its   *)
(* slice of it.  (One throttled meanwhile gives up the rest of its slice.) *)
LastJobSearched ==
  \A w \in Workers :
    /\ [](job[w] = work /\ work # NoWork => w < active)
    /\ <>[](~paused /\ ~stop /\ work # NoWork)
    => <>[](job[w] = work /\ nonce[w] = NonceEnd(w))

=============================================================================
