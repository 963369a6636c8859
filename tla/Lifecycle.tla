----------------------------- MODULE Lifecycle ------------------------------
(***************************************************************************)
(* A run of the program and what it leaves on disk: run(), stop_daemon()   *)
(* and the signal handler of main.rs, PersistentStats of stats.rs.         *)
(*                                                                         *)
(* A run adds the totals of stats.json to its counters, writes the PID     *)
(* file, mines, and when should_stop is set joins the CPU threads, removes *)
(* the PID file and saves its counters.  It neither joins the GPU thread   *)
(* nor waits for the Stratum client, which see should_stop in their own    *)
(* time.  `mi-miner --stop` is another process: it sends SIGTERM, for      *)
(* which the program has no handler.                                       *)
(*                                                                         *)
(* Left out: shares_rejected and blocks_found, which go the way of         *)
(* shares_accepted; the uptime; the mining itself (MiningPool, GpuMiner,   *)
(* StratumClient).  Of the reads of save_persistent() only the last two    *)
(* are told apart: no property relates the counters before them.           *)
(***************************************************************************)
EXTENDS Naturals

CONSTANTS
  Instances,    \* the processes that may run side by side
  NoPid,        \* there is no PID file, or no process to signal
  Deaths,       \* how a run may end before its time
  MaxRuns,      \* bound: runs started
  MaxHashes,    \* bound: batches hashed, in each of cpu and gpu
  MaxShares     \* bound: shares_submitted of a run

Fields == {"cpu", "gpu", "submitted", "accepted"}

ASSUME LifecycleAssumption ==
  /\ NoPid \notin Instances
  /\ Deaths \subseteq {"kill", "command", "force"}
  /\ MaxRuns \in Nat /\ MaxHashes \in Nat /\ MaxShares \in Nat

VARIABLES
  disk,        \* the totals last written to stats.json
  torn,        \* stats.json is truncated, and not written yet
  pidFile,     \* the process named in mi-miner.pid
  runs,        \* number of runs started
  pc,          \* where each process is in run()
  counters,    \* the counters of its MiningStats
  stop,        \* its should_stop
  ctrlC,       \* its signal handler has seen a first Ctrl+C
  gpu,         \* its GPU thread is alive
  client,      \* its Stratum client is connected
  asked,       \* shares it submitted and the pool has not answered
  snap,        \* what save_persistent() has read of the counters
  cli,         \* the process that `mi-miner --stop` is about to signal
  removing,    \* it has, and is about to remove the PID file
  worked,      \* history: the batches hashed, by all runs
  best,        \* history: the most that stats.json has told of
  mishaps      \* history: a run was not alone, died unsaved, lost the file

run  == <<pc, counters, stop, ctrlC, gpu, client, asked, snap>>
vars == <<disk, torn, pidFile, runs, run, cli, removing, worked, best, mishaps>>

Zero  == [f \in Fields |-> 0]
Steps == {"off", "loaded", "run", "joined", "unlinked", "half", "read", "torn", "saved"}

\* Every variable holds a value of its kind; the pool owes no answers it was not asked for.
TypeOK ==
  /\ disk \in [Fields -> Nat] /\ best \in [Fields -> Nat] /\ torn \in BOOLEAN
  /\ pidFile \in Instances \cup {NoPid} /\ cli \in Instances \cup {NoPid}
  /\ removing \in BOOLEAN
  /\ runs \in 0 .. MaxRuns
  /\ pc \in [Instances -> Steps]
  /\ counters \in [Instances -> [Fields -> Nat]] /\ snap \in [Instances -> [Fields -> Nat]]
  /\ stop \in [Instances -> BOOLEAN] /\ ctrlC \in [Instances -> BOOLEAN]
  /\ gpu \in [Instances -> BOOLEAN] /\ client \in [Instances -> BOOLEAN]
  /\ asked \in [Instances -> Nat]
  /\ worked \in [{"cpu", "gpu"} -> Nat]
  /\ mishaps \subseteq {"overlap", "death", "loss"}

Init ==
  /\ disk = Zero /\ best = Zero /\ torn = FALSE
  /\ pidFile = NoPid /\ cli = NoPid /\ removing = FALSE
  /\ runs = 0
  /\ pc = [i \in Instances |-> "off"]
  /\ counters = [i \in Instances |-> Zero] /\ snap = [i \in Instances |-> Zero]
  /\ stop = [i \in Instances |-> FALSE] /\ ctrlC = [i \in Instances |-> FALSE]
  /\ gpu = [i \in Instances |-> FALSE] /\ client = [i \in Instances |-> FALSE]
  /\ asked = [i \in Instances |-> 0]
  /\ worked = [f \in {"cpu", "gpu"} |-> 0]
  /\ mishaps = {}

(***************************************************************************)
(* stats.json.  A file that does not parse counts as no file.              *)
(***************************************************************************)
Loaded == IF torn THEN Zero ELSE disk

AllOff == \A i \in Instances : pc[i] = "off"

Note(happened) == mishaps' = mishaps \cup happened

\* Mutant: a run starts counting from zero.
LoadForgotten(c) == c

LoadPersistent(c) ==
  [f \in Fields |-> c[f] + Loaded[f]]

(***************************************************************************)
(* run() from its start to the threads it spawns.  A GPU and a pool may    *)
(* be missing.                                                             *)
(***************************************************************************)
Load(i) ==
  /\ pc[i] = "off" /\ runs < MaxRuns
  /\ runs' = runs + 1
  /\ pc' = [pc EXCEPT ![i] = "loaded"]
  /\ counters' = [counters EXCEPT ![i] = LoadPersistent(Zero)]
  /\ Note(IF AllOff THEN {} ELSE {"overlap"})
  /\ UNCHANGED <<disk, torn, pidFile, stop, ctrlC, gpu, client, asked, snap, cli, removing, worked, best>>

\* Mutant: a PID file that is there already is left alone.
NamesFirst(i) == IF pidFile = NoPid THEN i ELSE pidFile

Names(i) ==
  i

WritePid(i) ==
  /\ pc[i] = "loaded"
  /\ pc' = [pc EXCEPT ![i] = "run"]
  /\ pidFile' = Names(i)
  /\ \E hasGpu, hasPool \in BOOLEAN :
       /\ gpu' = [gpu EXCEPT ![i] = hasGpu]
       /\ client' = [client EXCEPT ![i] = hasPool]
  /\ Note(IF cli # NoPid \/ removing THEN {"overlap"} ELSE {})
  /\ UNCHANGED <<disk, torn, runs, counters, stop, ctrlC, asked, snap, cli, removing, worked, best>>

(***************************************************************************)
(* The threads and tasks.  The CPU threads hash until shutdown() has       *)
(* joined them; the GPU thread reads should_stop between batches, the      *)
(* client after each event.                                                *)
(***************************************************************************)
\* Mutant: the counters are saved while the CPU threads still hash.
HashingAfterJoin(i) == pc[i] \in {"run", "joined", "unlinked", "half"}

Hashing(i) ==
  pc[i] = "run"

CountHashes(i, f) ==
  /\ worked[f] < MaxHashes
  /\ worked' = [worked EXCEPT ![f] = @ + 1]
  /\ counters' = [counters EXCEPT ![i][f] = @ + 1]
  /\ UNCHANGED <<disk, torn, pidFile, runs, pc, stop, ctrlC, client, asked, snap, cli, removing, best, mishaps>>

CpuBatch(i) == Hashing(i) /\ CountHashes(i, "cpu") /\ UNCHANGED gpu

GpuBatch(i) ==
  /\ gpu[i]
  /\ CountHashes(i, "gpu")
  /\ gpu' = [gpu EXCEPT ![i] = ~stop[i]]

\* Mutant: the client goes on after should_stop is set.
NeverAsksStop(i) == UNCHANGED client

AfterEvent(i) ==
  client' = [client EXCEPT ![i] = ~stop[i]]

Submit(i) ==
  /\ client[i] /\ counters[i]["submitted"] < MaxShares
  /\ counters' = [counters EXCEPT ![i]["submitted"] = @ + 1]
  /\ asked' = [asked EXCEPT ![i] = @ + 1]
  /\ AfterEvent(i)
  /\ UNCHANGED <<disk, torn, pidFile, runs, pc, stop, ctrlC, gpu, snap, cli, removing, worked, best, mishaps>>

Answered(i) ==
  asked[i] > 0

Accepted(i) ==
  /\ client[i] /\ Answered(i)
  /\ counters' = [counters EXCEPT ![i]["accepted"] = @ + 1]
  /\ asked' = [asked EXCEPT ![i] = @ - 1]
  /\ AfterEvent(i)
  /\ UNCHANGED <<disk, torn, pidFile, runs, pc, stop, ctrlC, gpu, snap, cli, removing, worked, best, mishaps>>

(***************************************************************************)
(* The end: should_stop is set by Ctrl+C or from the dashboard.            *)
(***************************************************************************)
RequestStop(i) ==
  /\ pc[i] = "run"
  /\ stop' = [stop EXCEPT ![i] = TRUE]
  /\ \E signal \in BOOLEAN : ctrlC' = [ctrlC EXCEPT ![i] = @ \/ signal]
  /\ UNCHANGED <<disk, torn, pidFile, runs, pc, counters, gpu, client, asked, snap, cli, removing, worked, best, mishaps>>

Goto(i, from, to) == pc[i] = from /\ pc' = [pc EXCEPT ![i] = to]

Join(i) ==
  /\ stop[i] /\ Goto(i, "run", "joined")
  /\ UNCHANGED <<disk, torn, pidFile, runs, counters, stop, ctrlC, gpu, client, asked, snap, cli, removing, worked, best, mishaps>>

Unlink(i) ==
  /\ Goto(i, "joined", "unlinked")
  /\ pidFile' = NoPid
  /\ UNCHANGED <<disk, torn, runs, counters, stop, ctrlC, gpu, client, asked, snap, cli, removing, worked, best, mishaps>>

ReadCounters(i) ==
  /\ Goto(i, "unlinked", "half")
  /\ snap' = [snap EXCEPT ![i] = [counters[i] EXCEPT !["accepted"] = 0]]
  /\ UNCHANGED <<disk, torn, pidFile, runs, counters, stop, ctrlC, gpu, client, asked, cli, removing, worked, best, mishaps>>

ReadAccepted(i) ==
  /\ Goto(i, "half", "read")
  /\ snap' = [snap EXCEPT ![i]["accepted"] = counters[i]["accepted"]]
  /\ UNCHANGED <<disk, torn, pidFile, runs, counters, stop, ctrlC, gpu, client, asked, cli, removing, worked, best, mishaps>>

Truncate(i) ==
  /\ Goto(i, "read", "torn")
  /\ torn' = TRUE
  /\ UNCHANGED <<disk, pidFile, runs, counters, stop, ctrlC, gpu, client, asked, snap, cli, removing, worked, best, mishaps>>

\* Mutant: the counters, which hold the totals loaded, are added to them again.
OnTop(i) == [f \in Fields |-> disk[f] + snap[i][f]]

Totals(i) ==
  snap[i]

WriteOut(i) ==
  /\ Goto(i, "torn", "saved")
  /\ torn' = FALSE
  /\ disk' = Totals(i)
  /\ best' = [f \in Fields |-> IF disk'[f] > best[f] THEN disk'[f] ELSE best[f]]
  /\ UNCHANGED <<pidFile, runs, counters, stop, ctrlC, gpu, client, asked, snap, cli, removing, worked, mishaps>>

\* The process ends, and its threads, its tasks and its memory with it.
Die(i) ==
  /\ pc' = [pc EXCEPT ![i] = "off"]
  /\ counters' = [counters EXCEPT ![i] = Zero] /\ snap' = [snap EXCEPT ![i] = Zero]
  /\ stop' = [stop EXCEPT ![i] = FALSE] /\ ctrlC' = [ctrlC EXCEPT ![i] = FALSE]
  /\ gpu' = [gpu EXCEPT ![i] = FALSE] /\ client' = [client EXCEPT ![i] = FALSE]
  /\ asked' = [asked EXCEPT ![i] = 0]
  /\ Note(CASE pc[i] = "saved" -> {}
            [] pc[i] = "torn"  -> {"death", "loss"}
            [] OTHER           -> {"death"})
  /\ UNCHANGED <<disk, torn, runs, worked, best>>

Exit(i) == pc[i] = "saved" /\ Die(i) /\ UNCHANGED <<pidFile, cli, removing>>

(***************************************************************************)
(* Before its time: SIGKILL or a power cut, a second Ctrl+C, SIGTERM from  *)
(* `mi-miner --stop`, which then removes the PID file.                     *)
(***************************************************************************)
Kill(i)  == "kill" \in Deaths /\ pc[i] # "off" /\ Die(i) /\ UNCHANGED <<pidFile, cli, removing>>
ForcedExit(i) == "force" \in Deaths /\ pc[i] # "off" /\ ctrlC[i] /\ Die(i) /\ UNCHANGED <<pidFile, cli, removing>>

ReadPid ==
  /\ "command" \in Deaths /\ cli = NoPid /\ ~removing
  /\ cli' = pidFile
  /\ UNCHANGED <<disk, torn, pidFile, runs, run, removing, worked, best, mishaps>>

Terminate ==
  /\ cli # NoPid
  /\ IF pc[cli] = "off" THEN UNCHANGED <<disk, torn, runs, run, worked, best, mishaps>> ELSE Die(cli)
  /\ cli' = NoPid
  /\ removing' = TRUE
  /\ UNCHANGED pidFile

RemovePid ==
  /\ removing
  /\ pidFile' = NoPid
  /\ removing' = FALSE
  /\ UNCHANGED <<disk, torn, runs, run, cli, worked, best, mishaps>>

Next ==
  \/ \E i \in Instances :
       \/ Load(i) \/ WritePid(i)
       \/ CpuBatch(i) \/ GpuBatch(i) \/ Submit(i) \/ Accepted(i)
       \/ RequestStop(i) \/ Join(i) \/ Unlink(i)
       \/ ReadCounters(i) \/ ReadAccepted(i) \/ Truncate(i) \/ WriteOut(i) \/ Exit(i)
       \/ Kill(i) \/ ForcedExit(i)
  \/ ReadPid \/ Terminate \/ RemovePid

Spec == Init /\ [][Next]_vars

-----------------------------------------------------------------------------
(***************************************************************************)
(* stats.json never tells of more accepted shares than submitted ones,     *)
(* though save_persistent() reads shares_submitted first and the client    *)
(* may still be counting: after should_stop it handles one event at most.  *)
(***************************************************************************)
SavedBalance == disk["accepted"] <= disk["submitted"]

(***************************************************************************)
(* No batch is ever told of twice, over runs one after the other or side   *)
(* by side: what is saved was hashed.                                      *)
(***************************************************************************)
SavedWorkWasDone == \A f \in {"cpu", "gpu"} : disk[f] <= worked[f]

(***************************************************************************)
(* When no run is left stats.json tells of every batch the CPU threads     *)
(* hashed, over all the runs there were, if each ran alone and to its end. *)
(***************************************************************************)
CpuAccounted == (AllOff /\ mishaps = {}) => Loaded["cpu"] = worked["cpu"]

(***************************************************************************)
(* When no run is left the totals a next run would load are no smaller     *)
(* than those that were once saved, however the runs ended, unless two     *)
(* overlapped or one died between truncating stats.json and writing it.    *)
(***************************************************************************)
HistoryKept ==
  (AllOff /\ mishaps \cap {"overlap", "loss"} = {}) =>
    \A f \in Fields : Loaded[f] >= best[f]

(***************************************************************************)
(* A run that mines, with no stop requested, is the one `mi-miner --stop`  *)
(* finds, whatever earlier runs that died left behind, unless runs, or a   *)
(* run and a stop command, overlapped.                                     *)
(***************************************************************************)
StopFindsRun ==
  \A i \in Instances :
    (pc[i] = "run" /\ ~stop[i] /\ "overlap" \notin mishaps) => pidFile = i
=============================================================================
