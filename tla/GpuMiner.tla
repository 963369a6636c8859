------------------------------ MODULE GpuMiner ------------------------------
(***************************************************************************)
(* The GPU mining thread of main.rs, with the batch of GpuManager,         *)
(* GpuDispatcher and the Metal kernel it waits for.                        *)
(*                                                                         *)
(* The thread reads its SharedWork twice in a turn of its loop: once with  *)
(* get_if_new(), whose work it throws away and from which it keeps only    *)
(* the generation, and once more directly, for the work it mines.  The     *)
(* Stratum client may replace the work between the two.                    *)
(*                                                                         *)
(* Left out: the counter gpu_hashes, which grows by the size of each       *)
(* batch, and the duty-cycle sleep after a batch, which is finite.         *)
(***************************************************************************)
EXTENDS SharedWork

CONSTANTS
  Width,          \* the number of nonces, 2^32
  BatchSize,      \* 2^batch_size_log2
  MinBatch,       \* the smallest batch dispatched, 1024
  Intensities,    \* the percentages the activity monitor may ask for
  Winning         \* the pairs <<job, nonce>> whose hash meets the job's target

ASSUME GpuAssumption ==
  /\ Width \in Nat \ {0}
  /\ BatchSize \in Nat \ {0}
  /\ MinBatch \in Nat \ {0}
  /\ Intensities \subseteq 0 .. 100
  /\ Winning \subseteq Nat \X Nat

VARIABLES
  stop,           \* stats.should_stop
  paused,         \* stats.paused
  throttle,       \* stats.throttle_gpu_intensity_pct
  pc,             \* where the thread is in its loop
  lastGen,        \* last_gen
  intensity,      \* the intensity of the manager, and gpu_intensity_pct
  job,            \* the Work being mined
  nonce,          \* gpu_nonce
  hashed,         \* history: the pairs <<job, nonce>> hashed
  shares          \* history: the pairs offered as shares

flags   == <<stop, paused, throttle>>
local   == <<lastGen, intensity, job, nonce>>
history == <<hashed, shares>>
vars    == <<swVars, flags, pc, local, history>>

Nonces == 0 .. Width - 1
Pairs  == Nat \X Nonces

TypeOK ==
  /\ SharedWorkTypeOK
  /\ stop \in BOOLEAN
  /\ paused \in BOOLEAN
  /\ throttle \in Intensities \cup {100}
  /\ pc \in {"top", "pauseWait", "fetch", "throttle", "clone", "batch", "exited"}
  /\ lastGen \in Nat
  /\ intensity \in Intensities \cup {100}
  /\ job \in Nat
  /\ nonce \in Nonces
  /\ hashed \subseteq Pairs /\ shares \subseteq Pairs

Init ==
  /\ SharedWorkInit
  /\ stop = FALSE
  /\ paused = FALSE
  /\ throttle = 100
  /\ pc = "top"
  /\ lastGen = 0
  /\ intensity = 100
  /\ job = NoWork
  /\ nonce = 0
  /\ hashed = {} /\ shares = {}

-----------------------------------------------------------------------------
Top ==
  /\ pc = "top"
  /\ pc' = IF stop THEN "exited" ELSE "pauseWait"
  /\ UNCHANGED <<swVars, flags, local, history>>

\* Mutant: should_stop is not read while mining is paused.
PauseWaitUnstoppable ==
  /\ pc = "pauseWait"
  /\ ~paused
  /\ pc' = "fetch"
  /\ UNCHANGED <<swVars, flags, local, history>>

(* The wait reads paused, sleeps and reads should_stop: it may leave by    *)
(* the second even when paused has been cleared meanwhile.                 *)
PauseWait ==
  /\ pc = "pauseWait"
  /\ \/ ~paused /\ pc' = "fetch"
     \/ stop /\ pc' = "exited"
  /\ UNCHANGED <<swVars, flags, local, history>>

(* get_if_new(), of which only the generation is kept.  Its load and its   *)
(* look at the work are one step: a work once stored stays, and what it is *)
(* does not matter here.                                                   *)
Fetch ==
  /\ pc = "fetch"
  /\ IF IsNew(lastGen) /\ work # NoWork
       THEN lastGen' = generation /\ nonce' = 0
       ELSE UNCHANGED <<lastGen, nonce>>
  /\ pc' = "throttle"
  /\ UNCHANGED <<swVars, flags, intensity, job, history>>

SetIntensity ==
  /\ pc = "throttle"
  /\ intensity' = throttle
  /\ pc' = "clone"
  /\ UNCHANGED <<swVars, flags, lastGen, job, nonce, history>>

\* Mutant: the work is taken once and kept.
CloneOnce ==
  /\ pc = "clone"
  /\ job' = IF job = NoWork THEN work ELSE job
  /\ pc' = IF work = NoWork THEN "top" ELSE "batch"
  /\ UNCHANGED <<swVars, flags, lastGen, intensity, nonce, history>>

(* The second, direct look at the work.                                    *)
Clone ==
  /\ pc = "clone"
  /\ IF work = NoWork
       THEN pc' = "top" /\ UNCHANGED job
       ELSE pc' = "batch" /\ job' = work
  /\ UNCHANGED <<swVars, flags, lastGen, intensity, nonce, history>>

-----------------------------------------------------------------------------
(* A batch: mine_batch(), dispatch_batch() and the kernel.  The number of  *)
(* nonces tried depends on the intensity; the step of gpu_nonce does not.  *)

BatchAt(pct) ==
  IF (BatchSize * pct) \div 100 < MinBatch THEN MinBatch
                                          ELSE (BatchSize * pct) \div 100

ActualBatch == BatchAt(intensity)

Batch == {(nonce + i) % Width : i \in 0 .. ActualBatch - 1}

Wins == {n \in Batch : <<job, n>> \in Winning}

(* What is read back from the output buffer, which is cleared before each  *)
(* batch.  Of several wins the kernel keeps one, whichever thread of the   *)
(* GPU sets the flag first.  The weak compare-exchange that sets it may    *)
(* also fail for no reason, and then none is kept.                         *)
Outputs == {{}} \cup {{n} : n \in Wins}

NextNonce == (nonce + BatchSize) % Width

\* Mutant: the share is offered for the job that is current by now.
OfferForCurrentWork(found) == shares' = shares \cup ({work} \X found)

(* The share goes to the submission channel with the work it was found in. *)
Offer(found) ==
  shares' = shares \cup ({job} \X found)

MineBatch ==
  /\ pc = "batch"
  /\ hashed' = hashed \cup ({job} \X Batch)
  /\ \E found \in Outputs : Offer(found)
  /\ nonce' = NextNonce
  /\ pc' = "top"
  /\ UNCHANGED <<swVars, flags, lastGen, intensity, job>>

Thread ==
  Top \/ PauseWait \/ Fetch \/ SetIntensity \/ Clone \/ MineBatch

-----------------------------------------------------------------------------
(* The other threads.                                                      *)

Publish ==
  /\ UpdateStore \/ UpdateBump
  /\ UNCHANGED <<flags, pc, local, history>>

Stop ==
  /\ ~stop
  /\ stop' = TRUE
  /\ UNCHANGED <<swVars, paused, throttle, pc, local, history>>

Pause ==
  /\ ~paused
  /\ paused' = TRUE
  /\ UNCHANGED <<swVars, stop, throttle, pc, local, history>>

Resume ==
  /\ paused
  /\ paused' = FALSE
  /\ UNCHANGED <<swVars, stop, throttle, pc, local, history>>

SetThrottle ==
  /\ \E pct \in Intensities \ {throttle} : throttle' = pct
  /\ UNCHANGED <<swVars, stop, paused, pc, local, history>>

Next == Thread \/ Publish \/ Stop \/ Pause \/ Resume \/ SetThrottle

(* The thread is scheduled, its sleeps and its batches end, and an update  *)
(* once begun is finished.                                                 *)
Spec == Init /\ [][Next]_vars /\ WF_vars(Thread) /\ WF_vars(Publish /\ updating)

-----------------------------------------------------------------------------
(* Safety.                                                                 *)

(* The work mined is never older than the generation recorded for it, so   *)
(* the thread cannot miss a job for good by reading the two apart.         *)
HeldWorkIsFresh == pc = "batch" => lastGen <= job /\ job <= work

(* Every share is a win of the very job it is offered for, although the    *)
(* job may have been replaced during the batch.                            *)
SharesAreWins == shares \subseteq Winning \cap hashed

(* gpu_nonce passes over no nonce of the current job: all those below it   *)
(* have been hashed.  "Get the current batch size (affected by intensity)" *)
(* (dispatcher.rs) is what would make it so at every intensity.            *)
NoNonceSkipped ==
  (generation = work /\ lastGen = generation /\ pc # "exited") =>
    \A n \in Nonces : n < nonce => <<work, n>> \in hashed

-----------------------------------------------------------------------------
(* Liveness.                                                               *)

(* A stop request ends the thread.                                         *)
StopEndsThread == stop ~> pc = "exited"

(* Unless mining stays paused or is stopped, each job announced is mined,  *)
(* or one that replaced it.                                                *)
AnnouncedWorkMined ==
  <>[](~paused /\ ~stop) =>
    \A g \in 1 .. MaxJobs :
      generation = g ~> \E p \in hashed : p[1] >= g
=============================================================================
