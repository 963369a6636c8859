----------------------------- MODULE SharedWork -----------------------------
(***************************************************************************)
(* SharedWork of crates/mi-mining/src/worker.rs: the one-slot mailbox      *)
(* through which the Stratum client hands the current job to the mining    *)
(* threads.  It is a mutex-protected Option<Work> and, beside it, an       *)
(* atomic generation counter: the two are not written, and not read, in    *)
(* one atomic step.                                                        *)
(*                                                                         *)
(* The n-th Work handed over is the number n; NoWork stands for None.      *)
(***************************************************************************)
EXTENDS Naturals

CONSTANT MaxJobs    \* bound: how many times the Stratum client calls update

ASSUME MaxJobsAssumption == MaxJobs \in Nat

VARIABLES
  work,        \* contents of the mutex, the number of the last Work stored
  generation,  \* the atomic counter
  updating     \* the client is between the two statements of update()

swVars == <<work, generation, updating>>

NoWork == 0

SharedWorkTypeOK ==
  /\ work \in Nat
  /\ generation \in Nat
  /\ updating \in BOOLEAN

SharedWorkInit ==
  /\ work = NoWork
  /\ generation = 0
  /\ updating = FALSE

(***************************************************************************)
(* update(): the first statement stores the work under the lock, the       *)
(* second increments the generation.  One task (the Stratum client) calls  *)
(* it, so two updates never overlap.                                       *)
(***************************************************************************)
\* Mutant (both steps): the counter is bumped first, the work stored second.
BumpBeforeStore ==
  /\ ~updating
  /\ work < MaxJobs
  /\ generation' = generation + 1
  /\ updating' = TRUE
  /\ UNCHANGED work

StoreAfterBump ==
  /\ updating
  /\ work' = work + 1
  /\ updating' = FALSE
  /\ UNCHANGED generation

UpdateStore ==
  /\ ~updating
  /\ work < MaxJobs
  /\ work' = work + 1
  /\ updating' = TRUE
  /\ UNCHANGED generation

UpdateBump ==
  /\ updating
  /\ generation' = generation + 1
  /\ updating' = FALSE
  /\ UNCHANGED work

(***************************************************************************)
(* get_if_new(last_gen): load the generation; when it differs, lock and    *)
(* clone the work.  The caller keeps the generation it loaded, and gets    *)
(* None when no work was ever stored.                                      *)
(***************************************************************************)
IsNew(lastGen) == generation # lastGen
=============================================================================
