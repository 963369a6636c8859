--------------------------- MODULE SettingsProofs ----------------------------
(***************************************************************************)
(* Proofs about Hardware and Settings, for every machine, every set of     *)
(* addresses, phrases, passphrases, flags and tunings, and any number of   *)
(* requests.  What is proved of the advice holds however the requests      *)
(* overlap; what is proved of the address holds for overlapping requests   *)
(* among which auto_configure() is not, and the rest for requests that do  *)
(* not overlap: the handlers take no lock, and a request that works on a   *)
(* snapshot undoes what another has saved since.                           *)
(***************************************************************************)
EXTENDS Settings, TLAPS

(* What the machine is found to have.                                      *)
LEMMA Cores ==
  ASSUME NEW m \in MachineRecords
  PROVE  /\ DetectPCores(m) \in Nat \ {0} /\ NumPCores(m) \in Nat \ {0}
         /\ DetectGpu(m) \in BOOLEAN
<1>1. m.cores \in Nat \ {0} /\ m.fast \in Nat /\ m.macos \in BOOLEAN
  BY DEF MachineRecords
<1>2. (m.cores * 3) \div 4 \in Nat /\ Less(m.cores, 4) \in Nat
  BY <1>1 DEF Less
<1>3. \A n \in Nat : AtLeastOne(n) \in Nat \ {0}
  BY DEF AtLeastOne
<1>4. Told(m) => m.fast \in Nat \ {0}
  BY <1>1 DEF Told
<1>5. DetectPCores(m) \in Nat \ {0}
  BY <1>2, <1>3, <1>4 DEF DetectPCores
<1>6. NumPCores(m) \in Nat \ {0}
  BY <1>2, <1>3, <1>4 DEF NumPCores
<1>7. DetectGpu(m) \in BOOLEAN
  BY Zenon DEF DetectGpu
<1> QED
  BY <1>5, <1>6, <1>7

LEMMA DefaultTyped ==
  ASSUME NEW m \in MachineRecords
  PROVE  DefaultTuning(m) \in Tunings
BY Cores DEF DefaultTuning, Tunings

(* The recommendation, setting by setting.                                 *)
LEMMA RecommendedTuning ==
  ASSUME NEW m \in MachineRecords, NEW t \in Tunings
  PROVE  /\ Recommended(m, t) \in Tunings
         /\ Recommended(m, t).threads = DetectPCores(m)
         /\ Recommended(m, t).gpu = DetectGpu(m) /\ Recommended(m, t).cpuOnly = ~DetectGpu(m)
         /\ Recommended(m, t).gpuOnly = FALSE /\ Recommended(m, t).intensity = 100
         /\ Recommended(m, t).throttled = t.throttled
<1> DEFINE min == AtLeastOne(DetectPCores(m) \div 4)
           d0 == DefaultTuning(m)
           d1 == [d0 EXCEPT !.threads = DetectPCores(m)]
           d2 == [d1 EXCEPT !.gpu = DetectGpu(m)]
           d3 == [d2 EXCEPT !.cpuOnly = ~DetectGpu(m)]
           d4 == [d3 EXCEPT !.minThreads = min]
           d5 == [d4 EXCEPT !.gpuOnly = FALSE]
           d6 == [d5 EXCEPT !.throttled = t.throttled]
<1>1. DetectPCores(m) \in Nat /\ min \in Nat /\ DetectGpu(m) \in BOOLEAN
      /\ t.throttled \in BOOLEAN /\ d0 \in Tunings /\ d0.intensity = 100
  BY Cores, DefaultTyped DEF AtLeastOne, Tunings, DefaultTuning
<1>2. Recommended(m, t) = d6
  BY DEF Recommended, AutoConfigure, Detect
<1> HIDE DEF min, d0
<1>3. d1 \in Tunings /\ d1.threads = DetectPCores(m) /\ d1.intensity = 100
  BY <1>1 DEF Tunings
<1> HIDE DEF d1
<1>4. d2 \in Tunings /\ d2.threads = DetectPCores(m) /\ d2.intensity = 100
      /\ d2.gpu = DetectGpu(m)
  BY <1>1, <1>3 DEF Tunings
<1> HIDE DEF d2
<1>5. d3 \in Tunings /\ d3.threads = DetectPCores(m) /\ d3.intensity = 100
      /\ d3.gpu = DetectGpu(m) /\ d3.cpuOnly = ~DetectGpu(m)
  BY <1>1, <1>4 DEF Tunings
<1> HIDE DEF d3
<1>6. d4 \in Tunings /\ d4.threads = DetectPCores(m) /\ d4.intensity = 100
      /\ d4.gpu = DetectGpu(m) /\ d4.cpuOnly = ~DetectGpu(m)
  BY <1>1, <1>5 DEF Tunings
<1> HIDE DEF d4
<1>7. d5 \in Tunings /\ d5.threads = DetectPCores(m) /\ d5.intensity = 100
      /\ d5.gpu = DetectGpu(m) /\ d5.cpuOnly = ~DetectGpu(m) /\ d5.gpuOnly = FALSE
  BY <1>1, <1>6 DEF Tunings
<1> HIDE DEF d5
<1>8. d6 \in Tunings /\ d6.threads = DetectPCores(m) /\ d6.intensity = 100
      /\ d6.gpu = DetectGpu(m) /\ d6.cpuOnly = ~DetectGpu(m) /\ d6.gpuOnly = FALSE
      /\ d6.throttled = t.throttled
  BY <1>1, <1>7 DEF Tunings
<1> QED
  BY <1>2, <1>8

(* What the flags make of a tuning.                                        *)
LEMMA Overridden ==
  ASSUME NEW t \in Tunings, NEW flags \in FlagRecords
  PROVE  /\ Override(t, flags) \in Tunings
         /\ Override(t, flags).gpu <=> t.gpu /\ ~flags.cpuOnly
         /\ Override(t, flags).cpuOnly <=> t.cpuOnly \/ flags.cpuOnly
         /\ Override(t, flags).gpuOnly <=> t.gpuOnly \/ flags.gpuOnly
         /\ flags.threads = 0 => Override(t, flags).threads = t.threads
<1> DEFINE gpu == t.gpu /\ ~flags.cpuOnly
           cpuOnly == t.cpuOnly \/ flags.cpuOnly
           gpuOnly == t.gpuOnly \/ flags.gpuOnly
           threads == IF flags.threads = 0 THEN t.threads ELSE flags.threads
           t1 == [t EXCEPT !.gpu = gpu]
           t2 == [t1 EXCEPT !.cpuOnly = cpuOnly]
           t3 == [t2 EXCEPT !.gpuOnly = gpuOnly]
           t4 == [t3 EXCEPT !.threads = threads]
<1>1. threads \in Nat
  BY DEF Tunings, FlagRecords
<1>2. gpu \in BOOLEAN /\ cpuOnly \in BOOLEAN /\ gpuOnly \in BOOLEAN
  BY Zenon
<1>3. Override(t, flags) = t4
  <2>1. t1.cpuOnly = t.cpuOnly /\ t2.gpuOnly = t.gpuOnly /\ t3.threads = t.threads
    BY DEF Tunings
  <2> QED
    BY <2>1 DEF Override
<1> HIDE DEF gpu, cpuOnly, gpuOnly, threads
<1>4. t1 \in Tunings /\ t1.gpu = gpu
  BY <1>2 DEF Tunings
<1> HIDE DEF t1
<1>5. t2 \in Tunings /\ t2.gpu = gpu /\ t2.cpuOnly = cpuOnly
  BY <1>2, <1>4 DEF Tunings
<1> HIDE DEF t2
<1>6. t3 \in Tunings /\ t3.gpu = gpu /\ t3.cpuOnly = cpuOnly /\ t3.gpuOnly = gpuOnly
  BY <1>2, <1>5 DEF Tunings
<1> HIDE DEF t3
<1>7. t4 \in Tunings /\ t4.gpu = gpu /\ t4.cpuOnly = cpuOnly /\ t4.gpuOnly = gpuOnly
      /\ t4.threads = threads
  BY <1>1, <1>6 DEF Tunings
<1> HIDE DEF t4
<1> QED
  BY <1>3, <1>7 DEF gpu, cpuOnly, gpuOnly, threads

LEMMA StartTyped ==
  ASSUME NEW m, NEW t \in Tunings, NEW flags \in FlagRecords
  PROVE  StartTuning(m, t, flags) \in Tunings
<1> DEFINE o == Override(t, flags)
           f == [o EXCEPT !.gpu = FALSE]
           g == [f EXCEPT !.cpuOnly = TRUE]
<1>1. o \in Tunings
  BY Overridden
<1>2. StartTuning(m, t, flags) \in {o, g}
  BY DEF StartTuning, FallBack
<1> HIDE DEF o
<1>3. f \in Tunings
  BY <1>1 DEF Tunings
<1> HIDE DEF f
<1>4. g \in Tunings
  BY <1>3 DEF Tunings
<1> QED
  BY <1>1, <1>2, <1>4

(* The recommended tuning leaves nothing to tune, and a start without      *)
(* flags does with it what was recommended.                                *)
LEMMA RecommendationHolds ==
  ASSUME NEW m \in MachineRecords, NEW t \in Tunings
  PROVE  LET r   == Recommended(m, t)
             run == StartTuning(m, r, NoFlags)
         IN /\ CheckOptimization(m, r) \subseteq {"noShader", "throttling"}
            /\ CpuThreads(run) = DetectPCores(m)
            /\ MinesOnGpu(m, run) = (DetectGpu(m) /\ ManagerAvailable(m))
<1> DEFINE r == Recommended(m, t)
           run == StartTuning(m, r, NoFlags)
<1>1. /\ r \in Tunings /\ r.threads = DetectPCores(m) /\ r.intensity = 100
      /\ r.gpu = DetectGpu(m) /\ r.cpuOnly = ~DetectGpu(m) /\ r.gpuOnly = FALSE
      /\ DetectPCores(m) \in Nat /\ DetectGpu(m) \in BOOLEAN
  <2>1. DetectPCores(m) \in Nat /\ DetectGpu(m) \in BOOLEAN
    BY Cores
  <2>2. /\ r \in Tunings /\ r.threads = DetectPCores(m)
        /\ r.gpu = DetectGpu(m) /\ r.cpuOnly = ~DetectGpu(m)
        /\ r.gpuOnly = FALSE /\ r.intensity = 100
        /\ r.throttled = t.throttled
    BY ONLY RecommendedTuning, m \in MachineRecords, t \in Tunings, ZenonT(60) DEF r
  <2> QED
    BY <2>1, <2>2, Zenon
<1> HIDE DEF r
<1>2. CheckOptimization(m, r) \subseteq {"noShader", "throttling"}
  <2> DEFINE hw == Detect(m)
             Applies ==
               [idleGpu    |-> hw.gpu /\ ~r.gpu,
                noShader   |-> ~hw.gpu /\ hw.named,
                idleCores  |-> r.threads < hw.performance /\ ~r.gpuOnly,
                slowCores  |-> r.threads > hw.performance /\ hw.performance < hw.total,
                weakGpu    |-> r.gpu /\ r.intensity < 90,
                throttling |-> r.throttled /\ r.minThreads < hw.performance]
  <2>1. hw.gpu = DetectGpu(m) /\ hw.performance = DetectPCores(m)
    BY DEF Detect
  <2>2. ~(hw.gpu /\ ~r.gpu)
    BY <1>1, <2>1
  <2>3. ~(r.threads < hw.performance /\ ~r.gpuOnly)
    BY <1>1, <2>1
  <2>4. ~(r.threads > hw.performance /\ hw.performance < hw.total)
    BY <1>1, <2>1
  <2>5. ~(r.gpu /\ r.intensity < 90)
    BY <1>1
  <2>6. CheckOptimization(m, r) = {w \in DOMAIN Applies : Applies[w]}
    BY DEF CheckOptimization
  <2>7. DOMAIN Applies = {"idleGpu", "noShader", "idleCores", "slowCores", "weakGpu", "throttling"}
    OBVIOUS
  <2>8. ~Applies["idleGpu"] /\ ~Applies["idleCores"] /\ ~Applies["slowCores"] /\ ~Applies["weakGpu"]
    BY <2>2, <2>3, <2>4, <2>5
  <2> HIDE DEF Applies
  <2> QED
    BY <2>6, <2>7, <2>8
<1>3. NoFlags \in FlagRecords /\ NoFlags.threads = 0 /\ ~NoFlags.cpuOnly /\ ~NoFlags.gpuOnly
  BY DEF NoFlags, FlagRecords
<1>4. run = Override(r, NoFlags)
  <2>1. ~(Override(r, NoFlags).gpu /\ ~DetectGpu(m))
    BY <1>1, <1>3, Overridden
  <2> QED
    BY <2>1 DEF StartTuning, FallBack
<1>5. /\ run.threads = DetectPCores(m) /\ ~run.gpuOnly
      /\ run.gpu <=> DetectGpu(m)
      /\ run.cpuOnly <=> ~DetectGpu(m)
  <2>1. /\ Override(r, NoFlags).gpu <=> r.gpu /\ ~NoFlags.cpuOnly
        /\ Override(r, NoFlags).cpuOnly <=> r.cpuOnly \/ NoFlags.cpuOnly
        /\ Override(r, NoFlags).gpuOnly <=> r.gpuOnly \/ NoFlags.gpuOnly
        /\ Override(r, NoFlags).threads = r.threads
    BY <1>1, <1>3, Overridden
  <2> HIDE DEF run
  <2> QED
    BY <1>1, <1>3, <1>4, <2>1, Zenon
<1> HIDE DEF run
<1>6. CpuThreads(run) = DetectPCores(m)
  BY <1>5 DEF CpuThreads
<1>7. MinesOnGpu(m, run) = (DetectGpu(m) /\ ManagerAvailable(m))
  BY <1>5, Zenon DEF MinesOnGpu
<1> QED
  BY <1>2, <1>6, <1>7 DEF r, run

-----------------------------------------------------------------------------
(* Types.  A request has a configuration to save from its snapshot on.     *)

Gifts == Phrases \X Passphrases

Early == {"wallet", "seal", "snapshot"}
Late  == {"save", "write", "swap"}

Request(r) ==
  /\ r.op \in {"save", "address", "wallet", "auto"} /\ r.op \in Operations
  /\ r.op = "save" => r.data \in Configs
  /\ r.op = "address" => r.data \in External
  /\ r.op = "wallet" => r.data \in Gifts
  /\ \/ /\ r.at \in Early /\ (r.at # "snapshot" => r.op = "wallet")
        /\ r = [op |-> r.op, at |-> r.at, data |-> r.data]
     \/ /\ r.at \in Late /\ (r.at = "swap" => r.op # "auto")
        /\ r = [op |-> r.op, at |-> r.at, data |-> r.data, config |-> r.config]
        /\ r.config \in Configs

Typed ==
  /\ machine \in Machines
  /\ file \in Configs \cup {NoConfig} /\ wallet \in Wallets \cup {NoWallet}
  /\ mem \in Configs /\ form \in Configs
  /\ DOMAIN req = Handlers
  /\ \A h \in Handlers : req[h] = Idle \/ Request(req[h])
  /\ chosen \in Workers /\ tuned \in Tunings /\ given \in Gifts \cup {NoGift}
  /\ up \/ AllIdle

(* A request in progress is none of the idle ones.                         *)
LEMMA RequestBusy ==
  ASSUME NEW r, Request(r)
  PROVE  r.at # "idle" /\ r # Idle
<1>1. r.at \in Early \cup Late
  BY DEF Request
<1> QED
  BY <1>1 DEF Early, Late, Idle

(* What is done to a wallet is done for a wallet.                          *)
LEMMA WalletRequest ==
  ASSUME NEW r, Request(r), r.at \in {"wallet", "seal"}
  PROVE  r.op = "wallet"
<1>1. r.at \notin Late /\ r.at # "snapshot"
  BY DEF Late
<1> QED
  BY <1>1 DEF Request

(* A request that goes on to its next point.                               *)
LEMMA MovedRequest ==
  ASSUME NEW r, Request(r), NEW p,
         \/ r.at \in Early /\ p \in Early /\ (p # "snapshot" => r.op = "wallet")
         \/ r.at \in Late /\ p \in Late /\ (p = "swap" => r.op # "auto")
  PROVE  LET s == [r EXCEPT !.at = p] IN
           /\ Request(s) /\ s.op = r.op /\ s.at = p /\ s.data = r.data
           /\ r.at \in Late => s.config = r.config
<1> DEFINE s == [r EXCEPT !.at = p]
<1>1. CASE r.at \in Early
  <2>1. r = [op |-> r.op, at |-> r.at, data |-> r.data] /\ p \in Early /\ r.at \notin Late
    BY <1>1 DEF Request, Early, Late
  <2>2. s = [op |-> r.op, at |-> p, data |-> r.data]
    BY <2>1
  <2>3. s.op = r.op /\ s.at = p /\ s.data = r.data
    BY <2>2
  <2>4. s = [op |-> s.op, at |-> s.at, data |-> s.data]
    BY <2>2, <2>3
  <2> HIDE DEF s
  <2>5. p # "snapshot" => r.op = "wallet"
    BY <1>1 DEF Early, Late
  <2>6. Request(s)
    BY <2>1, <2>3, <2>4, <2>5 DEF Request
  <2> QED
    BY <2>1, <2>3, <2>6 DEF s
<1>2. CASE r.at \in Late
  <2>1. /\ r = [op |-> r.op, at |-> r.at, data |-> r.data, config |-> r.config]
        /\ p \in Late /\ r.config \in Configs
    BY <1>2 DEF Request, Early, Late
  <2>2. s = [op |-> r.op, at |-> p, data |-> r.data, config |-> r.config]
    BY <2>1
  <2>3. s.op = r.op /\ s.at = p /\ s.data = r.data /\ s.config = r.config
    BY <2>2
  <2>4. s = [op |-> s.op, at |-> s.at, data |-> s.data, config |-> s.config]
    BY <2>2, <2>3
  <2> HIDE DEF s
  <2>5. p = "swap" => r.op # "auto"
    BY <1>2 DEF Early, Late
  <2>6. Request(s)
    BY <2>1, <2>3, <2>4, <2>5 DEF Request
  <2> QED
    BY <2>3, <2>6 DEF s
<1> QED
  BY <1>1, <1>2 DEF Request

(* The point a handler is at tells what its request is.                    *)
LEMMA AtRequest ==
  ASSUME Typed, NEW h \in Handlers, NEW p, At(h, p)
  PROVE  Request(req[h]) /\ req[h] # Idle /\ req[h].at = p
BY DEF Typed, At

LEMMA Moves ==
  ASSUME Typed, NEW h \in Handlers, NEW from, At(h, from), NEW p, ToPoint(h, p),
         \/ from \in Early /\ p \in Early /\ (p # "snapshot" => req[h].op = "wallet")
         \/ from \in Late /\ p \in Late /\ (p = "swap" => req[h].op # "auto")
  PROVE  /\ DOMAIN req' = Handlers /\ \A g \in Handlers : g # h => req'[g] = req[g]
         /\ Request(req'[h]) /\ req'[h] # Idle
         /\ req'[h].op = req[h].op /\ req'[h].at = p /\ req'[h].data = req[h].data
         /\ from \in Late => req'[h].config = req[h].config
<1> DEFINE r == req[h]
           s == [r EXCEPT !.at = p]
<1>1. Request(r) /\ r.at = from /\ DOMAIN req = Handlers
  BY AtRequest DEF Typed
<1>2. /\ Request(s) /\ s.op = r.op /\ s.at = p /\ s.data = r.data
      /\ r.at \in Late => s.config = r.config
  BY <1>1, MovedRequest
<1>3. req' = [req EXCEPT ![h] = s]
  BY DEF ToPoint
<1>4. DOMAIN req' = Handlers /\ req'[h] = s /\ \A g \in Handlers : g # h => req'[g] = req[g]
  <2> HIDE DEF s
  <2> QED
    BY <1>1, <1>3
<1>5. s # Idle
  BY <1>2, RequestBusy
<1> HIDE DEF s
<1> QED
  BY <1>1, <1>2, <1>4, <1>5

LEMMA Ends ==
  ASSUME Typed, NEW h \in Handlers, Done(h)
  PROVE  /\ DOMAIN req' = Handlers /\ req'[h] = Idle
         /\ \A g \in Handlers : g # h => req'[g] = req[g]
BY DEF Typed, Done

(* Configurations, and what the requests make of them.                     *)
LEMMA WorkerSet ==
  ASSUME NEW c \in Configs, NEW w \in Workers
  PROVE  /\ [c EXCEPT !.worker = w] \in Configs /\ [c EXCEPT !.worker = w].worker = w
         /\ [c EXCEPT !.worker = w].tuning = c.tuning
BY DEF Configs

LEMMA TuningSet ==
  ASSUME NEW c \in Configs, NEW t \in Tunings
  PROVE  /\ [c EXCEPT !.tuning = t] \in Configs /\ [c EXCEPT !.tuning = t].tuning = t
         /\ [c EXCEPT !.tuning = t].worker = c.worker
BY DEF Configs

LEMMA Loaded ==
  ASSUME Typed
  PROVE  /\ Load \in Configs /\ Load.worker \in Workers /\ Load.tuning \in Tunings
         /\ DefaultConfig(machine) \in Configs /\ machine \in MachineRecords
<1>1. machine \in MachineRecords
  BY SettingsAssumption DEF Typed
<1>2. DefaultConfig(machine) \in Configs
  BY <1>1, DefaultTyped DEF DefaultConfig, Configs, Workers
<1>3. Load \in Configs
  BY <1>2 DEF Typed, Load
<1> QED
  BY <1>1, <1>2, <1>3 DEF Configs

LEMMA ChangedConfig ==
  ASSUME Typed, NEW r, Request(r)
  PROVE  /\ Changed(r) \in Configs
         /\ r.op = "auto" => /\ Changed(r).worker = Load.worker
                             /\ Changed(r).tuning = Recommended(machine, Load.tuning)
         /\ r.op \in {"address", "wallet"} => Changed(r).tuning = mem.tuning
<1>1. mem \in Configs /\ mem.worker \in Workers /\ mem.tuning \in Tunings
  BY DEF Typed, Configs
<1>2. CASE r.op = "save"
  <2> DEFINE a == [mem EXCEPT !.worker = r.data.worker]
             b == [a EXCEPT !.tuning = r.data.tuning]
  <2>1. r.data.worker \in Workers /\ r.data.tuning \in Tunings
    BY <1>2 DEF Request, Configs
  <2>2. Changed(r) = b
    BY <1>2 DEF Changed, ApplyTo
  <2>3. a \in Configs
    BY <1>1, <2>1, WorkerSet
  <2> HIDE DEF a
  <2>4. b \in Configs
    BY <2>1, <2>3, TuningSet
  <2> QED
    BY <1>2, <2>2, <2>4
<1>3. CASE r.op = "auto"
  <2> DEFINE t == Recommended(machine, Load.tuning)
  <2>1. t \in Tunings /\ Load \in Configs /\ Load.worker \in Workers
    BY Loaded, RecommendedTuning
  <2>2. Changed(r) = [Load EXCEPT !.tuning = t]
    BY <1>3 DEF Changed, Recommend
  <2> HIDE DEF t
  <2>3. Changed(r) \in Configs /\ Changed(r).tuning = t /\ Changed(r).worker = Load.worker
    BY <2>1, <2>2, TuningSet
  <2> QED
    BY <1>3, <2>3 DEF t
<1>4. ASSUME NEW w \in Workers, Changed(r) = SetWorker(mem, w)
      PROVE  Changed(r) \in Configs /\ Changed(r).tuning = mem.tuning
  BY <1>1, <1>4, WorkerSet DEF SetWorker
<1>5. CASE r.op = "address"
  <2>1. r.data \in Workers /\ Changed(r) = SetWorker(mem, r.data)
    BY <1>5 DEF Request, Changed, Workers, Addresses
  <2> QED
    BY <1>4, <1>5, <2>1
<1>6. CASE r.op = "wallet"
  <2>1. r.data[1] \in Phrases
    BY <1>6 DEF Request, Gifts
  <2>2. DeriveAddress(r.data[1]) \in Workers
    BY <2>1 DEF Workers, Addresses
  <2>3. Changed(r) = SetWorker(mem, DeriveAddress(r.data[1]))
    BY <1>6 DEF Changed
  <2> QED
    BY <1>4, <1>6, <2>2, <2>3
<1> QED
  BY <1>2, <1>3, <1>5, <1>6 DEF Request

LEMMA SnapshotTaken ==
  ASSUME Typed, NEW h \in Handlers, Snapshot(h)
  PROVE  /\ DOMAIN req' = Handlers /\ \A g \in Handlers : g # h => req'[g] = req[g]
         /\ Request(req'[h]) /\ req'[h] # Idle
         /\ req'[h].op = req[h].op /\ req'[h].at = "save" /\ req'[h].data = req[h].data
         /\ req'[h].config = Changed(req[h])
<1> DEFINE r == req[h]
           s == [op |-> r.op, at |-> "save", data |-> r.data, config |-> Changed(r)]
<1>1. Request(r) /\ DOMAIN req = Handlers
  BY AtRequest DEF Snapshot, Typed
<1>2. Changed(r) \in Configs
  BY <1>1, ChangedConfig
<1>3. s.op = r.op /\ s.at = "save" /\ s.data = r.data /\ s.config = Changed(r)
  OBVIOUS
<1>4. s = [op |-> s.op, at |-> s.at, data |-> s.data, config |-> s.config]
  BY <1>3
<1>5. req' = [req EXCEPT ![h] = s]
  BY DEF Snapshot
<1> HIDE DEF s
<1>6. Request(s)
  BY <1>1, <1>2, <1>3, <1>4 DEF Request, Late
<1>7. s # Idle
  BY <1>6, RequestBusy
<1> QED
  BY <1>1, <1>3, <1>5, <1>6, <1>7

LEMMA Received ==
  ASSUME Typed, NEW h \in Handlers,
         ConfigSave(h) \/ SetAddress(h) \/ MakeWallet(h) \/ AutoConfigureRequest(h)
  PROVE  /\ up /\ req[h] = Idle
         /\ DOMAIN req' = Handlers /\ \A g \in Handlers : g # h => req'[g] = req[g]
         /\ Request(req'[h]) /\ req'[h] # Idle
         /\ req'[h].at = IF req'[h].op = "wallet" THEN "wallet" ELSE "snapshot"
         /\ UNCHANGED <<machine, file, wallet, up, mem, mining, form, history>>
<1>1. ASSUME NEW op \in {"save", "address", "wallet", "auto"}, NEW data,
             Receive(h, op, IF op = "wallet" THEN "wallet" ELSE "snapshot", data),
             op = "save" => data \in Configs,
             op = "address" => data \in External,
             op = "wallet" => data \in Gifts
      PROVE  /\ up /\ req[h] = Idle
             /\ DOMAIN req' = Handlers /\ \A g \in Handlers : g # h => req'[g] = req[g]
             /\ Request(req'[h]) /\ req'[h] # Idle
             /\ req'[h].at = IF req'[h].op = "wallet" THEN "wallet" ELSE "snapshot"
             /\ UNCHANGED <<machine, file, wallet, up, mem, mining, form, history>>
  <2> DEFINE point == IF op = "wallet" THEN "wallet" ELSE "snapshot"
             s == [op |-> op, at |-> point, data |-> data]
  <2>1. /\ up /\ req[h] = Idle /\ op \in Operations /\ req' = [req EXCEPT ![h] = s]
        /\ UNCHANGED <<machine, file, wallet, up, mem, mining, form, history>>
    BY <1>1 DEF Receive
  <2>2. s.op = op /\ s.at = point /\ s.data = data /\ point \in Early
        /\ (point # "snapshot" => op = "wallet")
    BY DEF Early
  <2>3. s = [op |-> s.op, at |-> s.at, data |-> s.data]
    BY <2>2
  <2> HIDE DEF s
  <2>4. Request(s)
    BY <1>1, <2>1, <2>2, <2>3 DEF Request
  <2>5. s # Idle
    BY <2>4, RequestBusy
  <2>6. req'[h] = s /\ DOMAIN req' = Handlers /\ \A g \in Handlers : g # h => req'[g] = req[g]
    BY <2>1 DEF Typed
  <2> QED
    BY <2>1, <2>2, <2>4, <2>5, <2>6
<1>2. CASE ConfigSave(h)
  <2>1. PICK tuning \in FormTunings :
          Receive(h, "save", "snapshot", [form EXCEPT !.tuning = tuning])
    BY <1>2 DEF ConfigSave
  <2>2. [form EXCEPT !.tuning = tuning] \in Configs
    BY TuningSet, SettingsAssumption DEF Typed
  <2> QED
    BY <1>1, <2>1, <2>2
<1>3. CASE SetAddress(h)
  BY <1>1, <1>3 DEF SetAddress
<1>4. CASE MakeWallet(h)
  <2>1. PICK phrase \in Phrases, passphrase \in Passphrases :
          Receive(h, "wallet", "wallet", <<phrase, passphrase>>)
    BY <1>4 DEF MakeWallet
  <2>2. <<phrase, passphrase>> \in Gifts
    BY DEF Gifts
  <2> QED
    BY <1>1, <2>1, <2>2
<1>5. CASE AutoConfigureRequest(h)
  BY <1>1, <1>5 DEF AutoConfigureRequest
<1> QED
  BY <1>2, <1>3, <1>4, <1>5

LEMMA Written ==
  ASSUME Typed, NEW h \in Handlers, Write(h)
  PROVE  /\ Request(req[h]) /\ req[h].at = "write" /\ req[h].config \in Configs
         /\ file' = req[h].config
         /\ advised' = (req[h].op = "auto")
         /\ chosen' = IF req[h].op = "auto" THEN chosen ELSE req[h].config.worker
         /\ DOMAIN req' = Handlers /\ \A g \in Handlers : g # h => req'[g] = req[g]
         /\ req[h].op = "auto" =>
              /\ req'[h] = Idle /\ apart' = TRUE
              /\ form' = req[h].config /\ tuned' = req[h].config.tuning
         /\ req[h].op # "auto" =>
              /\ Request(req'[h]) /\ req'[h] # Idle /\ req'[h].op = req[h].op
              /\ req'[h].at = "swap" /\ req'[h].data = req[h].data
              /\ req'[h].config = req[h].config
              /\ UNCHANGED <<form, tuned, apart>>
         /\ UNCHANGED <<machine, wallet, up, mem, mining, given>>
<1>1. Request(req[h]) /\ req[h].at = "write" /\ At(h, "write")
  BY AtRequest DEF Write
<1>2. req[h].config \in Configs
  BY <1>1 DEF Request, Early
<1>3. /\ file' = req[h].config /\ advised' = (req[h].op = "auto")
      /\ chosen' = IF req[h].op = "auto" THEN chosen ELSE req[h].config.worker
      /\ UNCHANGED <<machine, wallet, up, mem, mining>>
  BY DEF Write
<1>4. CASE req[h].op = "auto"
  <2>1. AutoAnswer(h)
    BY <1>4 DEF Write
  <2>2. Done(h) /\ form' = req[h].config /\ tuned' = req[h].config.tuning /\ apart' = TRUE
        /\ given' = given
    BY <2>1 DEF AutoAnswer
  <2> QED
    BY <1>1, <1>2, <1>3, <1>4, <2>2, Ends
<1>5. CASE req[h].op # "auto"
  <2>1. ToPoint(h, "swap") /\ UNCHANGED <<form, tuned, given, apart>>
    BY <1>5 DEF Write
  <2>2. "write" \in Late /\ "swap" \in Late
    BY DEF Late
  <2>3. /\ DOMAIN req' = Handlers /\ \A g \in Handlers : g # h => req'[g] = req[g]
        /\ Request(req'[h]) /\ req'[h] # Idle /\ req'[h].op = req[h].op
        /\ req'[h].at = "swap" /\ req'[h].data = req[h].data
        /\ req'[h].config = req[h].config
    BY <1>1, <1>5, <2>1, <2>2, Moves
  <2> QED
    BY <1>1, <1>2, <1>3, <1>5, <2>1, <2>3
<1> QED
  BY <1>4, <1>5

LEMMA Swapped ==
  ASSUME Typed, NEW h \in Handlers, Swap(h)
  PROVE  /\ Request(req[h]) /\ req[h].at = "swap" /\ req[h].config \in Configs
         /\ req[h].op \in {"save", "address", "wallet"}
         /\ DOMAIN req' = Handlers /\ req'[h] = Idle
         /\ \A g \in Handlers : g # h => req'[g] = req[g]
         /\ mem' = req[h].config /\ form' = req[h].config
         /\ tuned' = IF req[h].op = "save" THEN req[h].config.tuning ELSE tuned
         /\ req[h].op = "save" => apart' = FALSE
         /\ req[h].op # "save" => apart' = apart
         /\ given' = IF req[h].op = "wallet" THEN req[h].data ELSE given
         /\ UNCHANGED <<machine, file, wallet, up, mining, chosen, advised>>
<1>1. Request(req[h]) /\ req[h].at = "swap"
  BY AtRequest DEF Swap
<1>2. req[h].config \in Configs /\ req[h].op \in {"save", "address", "wallet"}
  BY <1>1 DEF Request, Early
<1>3. mem' = req[h].config /\ UNCHANGED <<machine, file, wallet, up, mining, chosen, advised>>
  BY DEF Swap, NewLive
<1>4. /\ Done(h) /\ form' = req[h].config
      /\ tuned' = IF req[h].op = "save" THEN req[h].config.tuning ELSE tuned
      /\ given' = IF req[h].op = "wallet" THEN req[h].data ELSE given
  BY <1>3 DEF Swap, SaveAnswer, AddressAnswer, WalletAnswer
<1>5. /\ req[h].op = "save" => apart' = FALSE
      /\ req[h].op # "save" => apart' = apart
  BY DEF Swap, SaveAnswer, AddressAnswer, WalletAnswer
<1> QED
  BY <1>1, <1>2, <1>3, <1>4, <1>5, Ends

LEMMA Failed ==
  ASSUME Typed, NEW h \in Handlers, SaveFails(h)
  PROVE  /\ Request(req[h])
         /\ DOMAIN req' = Handlers /\ req'[h] = Idle
         /\ \A g \in Handlers : g # h => req'[g] = req[g]
         /\ \/ /\ At(h, "wallet") \/ (At(h, "save") /\ req[h].op # "wallet")
               /\ given' = given /\ form' = form
            \/ /\ At(h, "save") /\ req[h].op = "wallet"
               /\ given' = req[h].data /\ form' = mem
         /\ UNCHANGED <<machine, file, wallet, up, mem, mining, chosen, tuned, advised, apart>>
<1>1. Done(h) /\ (At(h, "wallet") \/ At(h, "save"))
  BY DEF SaveFails, ErrorAnswer, WalletAnswer
<1>2. Request(req[h])
  BY <1>1, AtRequest
<1>3. mem' = mem
  BY DEF SaveFails
<1>4. /\ \/ /\ At(h, "wallet") \/ (At(h, "save") /\ req[h].op # "wallet")
            /\ given' = given /\ form' = form
         \/ /\ At(h, "save") /\ req[h].op = "wallet"
            /\ given' = req[h].data /\ form' = mem
      /\ UNCHANGED <<machine, file, wallet, up, mem, mining, chosen, tuned, advised, apart>>
  BY <1>3 DEF SaveFails, ErrorAnswer, WalletAnswer
<1> QED
  BY <1>1, <1>2, <1>4, Ends

(* The worker a run starts with.                                           *)
LEMMA SyncedTyped ==
  ASSUME Typed, NEW w \in Workers
  PROVE  SyncedWorker(w) \in Workers
<1>1. CASE WalletAddress(wallet) = Nobody
  BY <1>1 DEF SyncedWorker
<1>2. CASE WalletAddress(wallet) # Nobody
  <2>1. SyncedWorker(w) = wallet.address /\ wallet \in Wallets
    BY <1>2 DEF SyncedWorker, WalletAddress, Typed
  <2>2. wallet.address \in Addresses
    <3>1. CASE wallet \in Legacies
      <4>1. PICK p \in Phrases, n \in BOOLEAN : wallet = Legacy(p, n)
        BY <3>1, SettingsAssumption
      <4> QED
        BY <4>1 DEF Legacy, Addresses
    <3>2. CASE \E p \in Phrases, q \in Passphrases : wallet = Sealed(p, q)
      BY <3>2 DEF Sealed, Addresses
    <3> QED
      BY <2>1, <3>1, <3>2 DEF Wallets
  <2> QED
    BY <2>1, <2>2 DEF Workers
<1> QED
  BY <1>1, <1>2

LEMMA Started ==
  ASSUME Typed, NEW flags \in Flags, Start(flags)
  PROVE  /\ mem' \in Configs /\ mem'.worker = SyncedWorker(Load.worker)
         /\ mem'.tuning # Load.tuning => apart'
         /\ apart => apart'
         /\ form' = mem' /\ ~up /\ up' /\ AllIdle
         /\ mining' = Payee(mem'.worker)
<1> DEFINE w == SyncedWorker(Load.worker)
           t == StartTuning(machine, Load.tuning, flags)
<1>1. flags \in FlagRecords
  BY SettingsAssumption
<1>2. w \in Workers /\ t \in Tunings
  BY <1>1, Loaded, SyncedTyped, StartTyped
<1>3. mem' = [worker |-> w, tuning |-> t]
  BY DEF Start
<1> HIDE DEF w, t
<1>4. mem' \in Configs /\ mem'.worker = w /\ mem'.tuning = t
  BY <1>2, <1>3 DEF Configs
<1>5. (mem'.tuning # Load.tuning => apart') /\ (apart => apart')
  <2>1. apart' = (apart \/ mem'.tuning # Load.tuning)
    BY DEF Start
  <2> QED
    BY <2>1, Zenon
<1>6. form' = mem' /\ ~up /\ up' /\ AllIdle
  BY DEF Start, Typed
<1>7. mining' = Payee(mem'.worker)
  BY DEF Start
<1> QED
  BY <1>4, <1>5, <1>6, <1>7 DEF w

(* Each action names the requests it leaves alone and the one it moves.    *)
LEMMA TypedInit ==
  Init => Typed
<1> SUFFICES ASSUME Init PROVE Typed
  OBVIOUS
<1>1. machine \in MachineRecords
  BY SettingsAssumption DEF Init
<1>2. DefaultTuning(machine) \in Tunings /\ DefaultConfig(machine) \in Configs
  BY <1>1, DefaultTyped DEF DefaultConfig, Configs, Workers
<1>3. AllIdle
  BY DEF Init, AllIdle
<1> QED
  BY <1>2, <1>3 DEF Init, Typed, Wallets, Workers

LEMMA TypedStep ==
  ASSUME Typed, [Next]_vars
  PROVE  Typed'
<1> USE DEF Typed
<1>1. ASSUME NEW flags \in Flags, Start(flags)
      PROVE  Typed'
  <2>1. mem' \in Configs /\ form' = mem' /\ up'
    BY <1>1, Started
  <2> QED
    BY <1>1, <2>1 DEF Start
<1>2. CASE Stop
  BY <1>2 DEF Stop, Down, history, AllIdle
<1>3. CASE Kill
  <2>1. AllIdle' /\ DOMAIN req' = Handlers /\ \A h \in Handlers : req'[h] = Idle
    BY <1>3 DEF Kill, AllIdle
  <2>2. chosen' \in Workers /\ tuned' \in Tunings /\ given' \in Gifts \cup {NoGift}
    BY <1>3, Loaded DEF Kill
  <2> QED
    BY <1>3, <2>1, <2>2 DEF Kill
<1>4. CASE GenerateConfig
  <2>1. DefaultConfig(machine) \in Configs /\ DefaultTuning(machine) \in Tunings
    BY Loaded, DefaultTyped
  <2> QED
    BY <1>4, <2>1 DEF GenerateConfig, Workers, AllIdle
<1>5. ASSUME NEW phrase \in Phrases, NEW passphrase \in Passphrases,
             GenerateWallet(phrase, passphrase)
      PROVE  Typed'
  BY <1>5 DEF GenerateWallet, Wallets, Gifts, AllIdle
<1>6. ASSUME NEW h \in Handlers, NEW p, At(h, p)
      PROVE  up
  BY <1>6 DEF AllIdle, At
<1>7. ASSUME NEW h \in Handlers, req'[h] = Idle \/ Request(req'[h]), DOMAIN req' = Handlers,
             \A g \in Handlers : g # h => req'[g] = req[g]
      PROVE  \A g \in Handlers : req'[g] = Idle \/ Request(req'[g])
  BY <1>7
<1>8. ASSUME NEW h \in Handlers,
             ConfigSave(h) \/ SetAddress(h) \/ MakeWallet(h) \/ AutoConfigureRequest(h)
      PROVE  Typed'
  <2>1. /\ up /\ DOMAIN req' = Handlers /\ \A g \in Handlers : g # h => req'[g] = req[g]
        /\ Request(req'[h])
        /\ UNCHANGED <<machine, file, wallet, up, mem, mining, form, history>>
    BY <1>8, Received
  <2>2. \A g \in Handlers : req'[g] = Idle \/ Request(req'[g])
    BY <1>7, <2>1
  <2> QED
    BY <2>1, <2>2 DEF history
<1>9. ASSUME NEW h \in Handlers, TruncateWallet(h)
      PROVE  Typed'
  <2>1. At(h, "wallet") /\ ToPoint(h, "seal") /\ req[h].op = "wallet"
    BY <1>9, AtRequest DEF TruncateWallet, Request, Early, Late
  <2>2. /\ DOMAIN req' = Handlers /\ \A g \in Handlers : g # h => req'[g] = req[g]
        /\ Request(req'[h])
    BY <2>1, Moves DEF Early
  <2>3. \A g \in Handlers : req'[g] = Idle \/ Request(req'[g])
    BY <1>7, <2>2
  <2> QED
    BY <1>6, <1>9, <2>1, <2>2, <2>3 DEF TruncateWallet, history
<1>10. ASSUME NEW h \in Handlers, WriteWallet(h)
       PROVE  Typed'
  <2>1. At(h, "seal") /\ ToPoint(h, "snapshot") /\ req[h].op = "wallet" /\ Request(req[h])
    BY <1>10, AtRequest DEF WriteWallet, Request, Early, Late
  <2>2. /\ DOMAIN req' = Handlers /\ \A g \in Handlers : g # h => req'[g] = req[g]
        /\ Request(req'[h])
    BY <2>1, Moves DEF Early
  <2>3. \A g \in Handlers : req'[g] = Idle \/ Request(req'[g])
    BY <1>7, <2>2
  <2>4. wallet' \in Wallets
    BY <1>10, <2>1 DEF WriteWallet, NewWallet, Wallets, Request, Gifts
  <2> QED
    BY <1>6, <1>10, <2>1, <2>2, <2>3, <2>4 DEF WriteWallet, history
<1>11. ASSUME NEW h \in Handlers, Snapshot(h)
       PROVE  Typed'
  <2>1. /\ DOMAIN req' = Handlers /\ \A g \in Handlers : g # h => req'[g] = req[g]
        /\ Request(req'[h])
    BY <1>11, SnapshotTaken
  <2>2. \A g \in Handlers : req'[g] = Idle \/ Request(req'[g])
    BY <1>7, <2>1
  <2>3. up
    BY <1>6, <1>11 DEF Snapshot
  <2> QED
    BY <1>11, <2>1, <2>2, <2>3 DEF Snapshot, history
<1>12. ASSUME NEW h \in Handlers, Truncate(h)
       PROVE  Typed'
  <2>1. At(h, "save") /\ ToPoint(h, "write")
    BY <1>12 DEF Truncate
  <2>2. /\ DOMAIN req' = Handlers /\ \A g \in Handlers : g # h => req'[g] = req[g]
        /\ Request(req'[h])
    BY <2>1, Moves DEF Late
  <2>3. \A g \in Handlers : req'[g] = Idle \/ Request(req'[g])
    BY <1>7, <2>2
  <2> QED
    BY <1>6, <1>12, <2>1, <2>2, <2>3 DEF Truncate, history
<1>13. ASSUME NEW h \in Handlers, Write(h)
       PROVE  Typed'
  <2>1. /\ req[h].config \in Configs /\ file' = req[h].config
        /\ chosen' = IF req[h].op = "auto" THEN chosen ELSE req[h].config.worker
        /\ DOMAIN req' = Handlers /\ \A g \in Handlers : g # h => req'[g] = req[g]
        /\ req'[h] = Idle \/ Request(req'[h])
        /\ form' \in {form, req[h].config} /\ tuned' \in {tuned, req[h].config.tuning}
        /\ UNCHANGED <<machine, wallet, up, mem, given>>
    BY <1>13, Written
  <2>2. req[h].config.worker \in Workers /\ req[h].config.tuning \in Tunings
    BY <2>1 DEF Configs
  <2>3. \A g \in Handlers : req'[g] = Idle \/ Request(req'[g])
    BY <1>7, <2>1
  <2>4. up
    BY <1>6, <1>13 DEF Write
  <2> QED
    BY <2>1, <2>2, <2>3, <2>4
<1>14. ASSUME NEW h \in Handlers, SaveFails(h)
       PROVE  Typed'
  <2>1. /\ DOMAIN req' = Handlers /\ \A g \in Handlers : g # h => req'[g] = req[g]
        /\ req'[h] = Idle /\ Request(req[h])
        /\ form' \in {form, mem}
        /\ given' = given \/ (req[h].op = "wallet" /\ given' = req[h].data)
        /\ UNCHANGED <<machine, file, wallet, up, mem, chosen, tuned>>
    BY <1>14, Failed
  <2>2. given' \in Gifts \cup {NoGift}
    BY <2>1 DEF Request
  <2>3. \A g \in Handlers : req'[g] = Idle \/ Request(req'[g])
    BY <1>7, <2>1
  <2>4. up
    BY <1>6, <1>14 DEF SaveFails
  <2> QED
    BY <2>1, <2>2, <2>3, <2>4
<1>15. ASSUME NEW h \in Handlers, Swap(h)
       PROVE  Typed'
  <2>1. /\ Request(req[h]) /\ req[h].config \in Configs
        /\ DOMAIN req' = Handlers /\ req'[h] = Idle
        /\ \A g \in Handlers : g # h => req'[g] = req[g]
        /\ mem' = req[h].config /\ form' = req[h].config
        /\ tuned' = IF req[h].op = "save" THEN req[h].config.tuning ELSE tuned
        /\ given' = IF req[h].op = "wallet" THEN req[h].data ELSE given
        /\ UNCHANGED <<machine, file, wallet, up, chosen>>
    BY <1>15, Swapped
  <2>2. given' \in Gifts \cup {NoGift} /\ tuned' \in Tunings
    BY <2>1 DEF Request, Configs
  <2>3. \A g \in Handlers : req'[g] = Idle \/ Request(req'[g])
    BY <1>7, <2>1
  <2>4. up
    BY <1>6, <1>15 DEF Swap
  <2> QED
    BY <2>1, <2>2, <2>3, <2>4
<1>16. CASE UNCHANGED vars
  BY <1>16 DEF vars, history, AllIdle
<1> QED
  BY <1>1, <1>2, <1>3, <1>4, <1>5, <1>8, <1>9, <1>10, <1>11, <1>12, <1>13, <1>14, <1>15,
     <1>16 DEF Next

(* What the files, the live configuration, the form and the requests in    *)
(* progress hold: configurations, wallets and phrases that are such, and   *)
(* requests only while the miner runs.                                     *)
THEOREM SettingsTyped == Spec => []Typed
<1>1. Typed /\ [Next]_vars => Typed'
  BY TypedStep
<1> QED
  BY <1>1, TypedInit, PTL DEF Spec

-----------------------------------------------------------------------------
(* The address and the advice.  While the file is truncated it holds       *)
(* neither; an auto-configuration carries both from its snapshot on.       *)

Writing == \E h \in Handlers : At(h, "write")

Configuring(h) == req[h] # Idle /\ req[h].op = "auto" /\ req[h].at \in Late

OneHandler == \A g, h \in Handlers : g = h

Advised(tuning) == \E t \in Tunings : tuning = Recommended(machine, t)

AddressInv ==
  /\ ~Writing => Load.worker = chosen
  /\ \A h \in Handlers : Configuring(h) => req[h].config.worker = chosen

AdviceInv ==
  /\ (advised /\ ~Writing) => Advised(Load.tuning)
  /\ \A h \in Handlers : Configuring(h) => Advised(req[h].config.tuning)

(* What a request leaves alone at the points where it does not save.       *)
LEMMA Quiet ==
  ASSUME Typed, NEW h \in Handlers,
         \/ ConfigSave(h) \/ SetAddress(h) \/ MakeWallet(h) \/ AutoConfigureRequest(h)
         \/ TruncateWallet(h) \/ WriteWallet(h) \/ SaveFails(h) \/ Swap(h)
  PROVE  /\ \A g \in Handlers : At(g, "write")' <=> At(g, "write")
         /\ \A g \in Handlers : Configuring(g)' => Configuring(g) /\ req'[g].config = req[g].config
         /\ UNCHANGED <<machine, file, chosen, advised>>
<1>1. ASSUME \A g \in Handlers : g # h => req'[g] = req[g],
             ~At(h, "write"), ~At(h, "write")', ~Configuring(h)'
      PROVE  /\ \A g \in Handlers : At(g, "write")' <=> At(g, "write")
             /\ \A g \in Handlers : Configuring(g)' => Configuring(g) /\ req'[g].config = req[g].config
  BY <1>1 DEF At, Configuring
<1>2. CASE ConfigSave(h) \/ SetAddress(h) \/ MakeWallet(h) \/ AutoConfigureRequest(h)
  <2>1. /\ req[h] = Idle /\ req'[h].at \in Early
        /\ \A g \in Handlers : g # h => req'[g] = req[g]
        /\ UNCHANGED <<machine, file, chosen, advised>>
    BY <1>2, Received DEF Early, history
  <2> QED
    BY <1>1, <2>1 DEF At, Configuring, Early, Late
<1>3. CASE TruncateWallet(h)
  <2>1. At(h, "wallet") /\ ToPoint(h, "seal")
    BY <1>3 DEF TruncateWallet
  <2>2. req[h].op = "wallet"
    BY <2>1, AtRequest, WalletRequest
  <2>3. req'[h].at = "seal" /\ \A g \in Handlers : g # h => req'[g] = req[g]
    BY <2>1, <2>2, Moves DEF Early
  <2> QED
    BY <1>1, <1>3, <2>1, <2>3 DEF At, Configuring, Late, TruncateWallet, history
<1>4. CASE WriteWallet(h)
  <2>1. At(h, "seal") /\ ToPoint(h, "snapshot")
    BY <1>4 DEF WriteWallet
  <2>2. req[h].op = "wallet"
    BY <2>1, AtRequest, WalletRequest
  <2>3. req'[h].at = "snapshot" /\ \A g \in Handlers : g # h => req'[g] = req[g]
    BY <2>1, <2>2, Moves DEF Early
  <2> QED
    BY <1>1, <1>4, <2>1, <2>3 DEF At, Configuring, Late, WriteWallet, history
<1>5. CASE SaveFails(h)
  <2>1. /\ req'[h] = Idle /\ \A g \in Handlers : g # h => req'[g] = req[g]
        /\ At(h, "wallet") \/ At(h, "save")
        /\ UNCHANGED <<machine, file, chosen, advised>>
    BY <1>5, Failed
  <2> QED
    BY <1>1, <2>1 DEF At, Configuring
<1>6. CASE Swap(h)
  <2>1. /\ req'[h] = Idle /\ \A g \in Handlers : g # h => req'[g] = req[g]
        /\ At(h, "swap")
        /\ UNCHANGED <<machine, file, chosen, advised>>
    BY <1>6, Swapped DEF Swap
  <2> QED
    BY <1>1, <2>1 DEF At, Configuring
<1> QED
  BY <1>2, <1>3, <1>4, <1>5, <1>6

(* Between requests nobody writes, and no auto-configuration is under way. *)
LEMMA NobodyWrites ==
  ASSUME AllIdle
  PROVE  ~Writing /\ \A h \in Handlers : ~Configuring(h)
BY DEF AllIdle, Writing, Configuring, At

(* What the commands of the CLI, the starts and the ends of the miner      *)
(* leave alone.                                                            *)
LEMMA Outside ==
  ASSUME Typed,
         \/ \E flags \in Flags : Start(flags)
         \/ Stop \/ UNCHANGED vars
         \/ \E phrase \in Phrases, passphrase \in Passphrases : GenerateWallet(phrase, passphrase)
  PROVE  UNCHANGED <<machine, file, req, chosen, tuned, advised>>
BY DEF Start, Stop, vars, history, GenerateWallet

LEMMA AddressStep ==
  ASSUME Typed, AddressInv, [Next]_vars, OneHandler \/ "auto" \notin Operations
  PROVE  AddressInv'
<1>1. ASSUME UNCHANGED <<machine, file, chosen>>,
             \A g \in Handlers : At(g, "write")' <=> At(g, "write"),
             \A g \in Handlers : Configuring(g)' => Configuring(g) /\ req'[g].config = req[g].config
      PROVE  AddressInv'
  <2>1. Load' = Load /\ (Writing' <=> Writing)
    BY <1>1 DEF Load, Writing
  <2> QED
    BY <1>1, <2>1 DEF AddressInv
<1>2. ASSUME NEW c \in Configs, file' = c PROVE Load' = c
  BY <1>2, SettingsAssumption DEF Load
<1>3. CASE \/ \E flags \in Flags : Start(flags)
           \/ Stop \/ UNCHANGED vars
           \/ \E phrase \in Phrases, passphrase \in Passphrases : GenerateWallet(phrase, passphrase)
  <2>1. UNCHANGED <<machine, file, req, chosen>>
    BY <1>3, Outside
  <2>2. \A g \in Handlers : At(g, "write")' <=> At(g, "write")
    BY <2>1 DEF At
  <2>3. \A g \in Handlers : Configuring(g)' => Configuring(g) /\ req'[g].config = req[g].config
    BY <2>1 DEF Configuring
  <2> QED
    BY <1>1, <2>1, <2>2, <2>3
<1>4. CASE Kill
  <2>1. /\ UNCHANGED <<machine, file>> /\ AllIdle'
        /\ chosen' = IF Writing THEN Load.worker ELSE chosen
    BY <1>4 DEF Kill, AllIdle, Typed, Writing
  <2>2. Load' = Load /\ \A h \in Handlers : ~Configuring(h)'
    BY <2>1 DEF Load, AllIdle, Configuring
  <2> QED
    BY <2>1, <2>2 DEF AddressInv
<1>5. CASE GenerateConfig
  <2>1. AllIdle /\ req' = req /\ DefaultConfig(machine) \in Configs
    BY <1>5, Loaded DEF GenerateConfig, Typed
  <2>2. Load' = DefaultConfig(machine) /\ chosen' = Placeholder
    BY <1>2, <1>5, <2>1 DEF GenerateConfig
  <2>3. \A h \in Handlers : ~Configuring(h)'
    BY <2>1 DEF AllIdle, Configuring
  <2> QED
    BY <2>2, <2>3 DEF AddressInv, DefaultConfig
<1>6. ASSUME NEW h \in Handlers,
             \/ ConfigSave(h) \/ SetAddress(h) \/ MakeWallet(h) \/ AutoConfigureRequest(h)
             \/ TruncateWallet(h) \/ WriteWallet(h) \/ SaveFails(h) \/ Swap(h)
      PROVE  AddressInv'
  BY <1>1, <1>6, Quiet
<1>7. ASSUME NEW h \in Handlers, Request(req[h]), req[h].op = "auto"
      PROVE  OneHandler
  BY <1>7 DEF Request
<1>8. ASSUME NEW h \in Handlers, Snapshot(h)
      PROVE  AddressInv'
  <2>1. /\ \A g \in Handlers : g # h => req'[g] = req[g]
        /\ Request(req[h]) /\ req'[h].op = req[h].op /\ req'[h].at = "save"
        /\ req'[h].config = Changed(req[h])
    BY <1>8, SnapshotTaken, AtRequest DEF Snapshot
  <2>2. At(h, "snapshot") /\ UNCHANGED <<machine, file, chosen>>
    BY <1>8 DEF Snapshot, history
  <2>3. Load' = Load /\ (Writing' <=> Writing)
    BY <2>1, <2>2 DEF Load, Writing, At
  <2>4. ASSUME req[h].op = "auto" PROVE req'[h].config.worker = chosen'
    <3>1. ~Writing
      BY <1>7, <2>1, <2>2, <2>4 DEF OneHandler, Writing, At
    <3> QED
      BY <2>1, <2>2, <2>4, <3>1, ChangedConfig DEF AddressInv
  <2>5. ASSUME NEW g \in Handlers, Configuring(g)' PROVE req'[g].config.worker = chosen'
    BY <2>1, <2>2, <2>4, <2>5 DEF Configuring, AddressInv
  <2> QED
    BY <2>2, <2>3, <2>5 DEF AddressInv
<1>9. ASSUME NEW h \in Handlers, Truncate(h)
      PROVE  AddressInv'
  <2>1. At(h, "save") /\ ToPoint(h, "write") /\ chosen' = chosen
    BY <1>9 DEF Truncate, history
  <2>2. /\ \A g \in Handlers : g # h => req'[g] = req[g]
        /\ req'[h] # Idle /\ req'[h].op = req[h].op /\ req'[h].at = "write"
        /\ req'[h].config = req[h].config
    BY <2>1, Moves DEF Late
  <2>3. Writing'
    BY <2>2 DEF Writing, At
  <2>4. \A g \in Handlers : Configuring(g)' => Configuring(g) /\ req'[g].config = req[g].config
    BY <2>1, <2>2 DEF Configuring, At, Late
  <2> QED
    BY <2>1, <2>3, <2>4 DEF AddressInv
<1>10. ASSUME NEW h \in Handlers, Write(h)
       PROVE  AddressInv'
  <2>1. /\ Request(req[h]) /\ req[h].at = "write" /\ req[h].config \in Configs
        /\ file' = req[h].config
        /\ chosen' = IF req[h].op = "auto" THEN chosen ELSE req[h].config.worker
        /\ \A g \in Handlers : g # h => req'[g] = req[g]
        /\ req[h].op = "auto" => req'[h] = Idle
        /\ req[h].op # "auto" => req'[h].op # "auto"
    BY <1>10, Written
  <2>2. Load' = req[h].config
    BY <1>2, <2>1
  <2>3. Load'.worker = chosen'
    <3>1. req[h].op = "auto" => Configuring(h)
      BY <2>1, RequestBusy DEF Configuring, Late
    <3> QED
      BY <2>1, <2>2, <3>1 DEF AddressInv
  <2>4. ASSUME NEW g \in Handlers, Configuring(g)' PROVE FALSE
    <3>1. g # h /\ req'[g] = req[g] /\ req[g] # Idle /\ req[g].op = "auto"
      BY <2>1, <2>4 DEF Configuring
    <3>2. OneHandler
      BY <1>7, <3>1 DEF Typed
    <3> QED
      BY <3>1, <3>2 DEF OneHandler
  <2> QED
    BY <2>3, <2>4 DEF AddressInv
<1> QED
  BY <1>3, <1>4, <1>5, <1>6, <1>8, <1>9, <1>10 DEF Next

LEMMA AddressInit ==
  Init => AddressInv
<1> SUFFICES ASSUME Init PROVE AddressInv
  OBVIOUS
<1>1. Load.worker = chosen
  BY DEF Init, Load, DefaultConfig
<1>2. \A h \in Handlers : ~Configuring(h)
  BY DEF Init, Configuring
<1> QED
  BY <1>1, <1>2 DEF AddressInv

(* Settings.AddressKept, for requests that overlap as long as none of them *)
(* is an auto-configuration, and for all that do not.  (An auto-           *)
(* configuration writes back the address of its snapshot of the file.)     *)
THEOREM AddressKeptHolds ==
  ASSUME OneHandler \/ "auto" \notin Operations
  PROVE  Spec => []AddressKept
<1>1. Typed /\ Typed' /\ AddressInv /\ [Next]_vars => AddressInv'
  BY AddressStep
<1>2. AddressInv => AddressKept
  BY NobodyWrites DEF AddressInv, AddressKept
<1> QED
  BY <1>1, <1>2, AddressInit, SettingsTyped, PTL DEF Spec

LEMMA AdviceStep ==
  ASSUME Typed, AdviceInv, [Next]_vars
  PROVE  AdviceInv'
<1>1. ASSUME machine' = machine, NEW t PROVE Advised(t)' <=> Advised(t)
  BY <1>1 DEF Advised
<1>2. ASSUME UNCHANGED <<machine, file, advised>>,
             \A g \in Handlers : At(g, "write")' <=> At(g, "write"),
             \A g \in Handlers : Configuring(g)' => Configuring(g) /\ req'[g].config = req[g].config
      PROVE  AdviceInv'
  <2>1. Load' = Load /\ (Writing' <=> Writing)
    BY <1>2 DEF Load, Writing
  <2>2. (advised /\ ~Writing) => Advised(Load.tuning)'
    BY <1>2, <2>1 DEF AdviceInv, Advised
  <2>3. \A h \in Handlers : Configuring(h)' => Advised(req[h].config.tuning)'
    BY <1>2 DEF AdviceInv, Advised
  <2> QED
    BY <1>2, <2>1, <2>2, <2>3 DEF AdviceInv
<1>3. CASE \/ \E flags \in Flags : Start(flags)
           \/ Stop \/ UNCHANGED vars
           \/ \E phrase \in Phrases, passphrase \in Passphrases : GenerateWallet(phrase, passphrase)
  <2>1. UNCHANGED <<machine, file, req, advised>>
    BY <1>3, Outside
  <2>2. \A g \in Handlers : At(g, "write")' <=> At(g, "write")
    BY <2>1 DEF At
  <2>3. \A g \in Handlers : Configuring(g)' => Configuring(g) /\ req'[g].config = req[g].config
    BY <2>1 DEF Configuring
  <2> QED
    BY <1>2, <2>1, <2>2, <2>3
<1>4. CASE Kill
  <2>1. /\ UNCHANGED <<machine, file>> /\ AllIdle'
        /\ advised' => advised /\ ~Writing
    BY <1>4 DEF Kill, AllIdle, Typed, Writing
  <2>2. Load' = Load /\ \A h \in Handlers : ~Configuring(h)'
    BY <2>1 DEF Load, AllIdle, Configuring
  <2>3. advised' => Advised(Load.tuning)'
    BY <2>1, <2>2 DEF AdviceInv, Advised
  <2> QED
    BY <2>2, <2>3 DEF AdviceInv
<1>5. CASE GenerateConfig
  <2>1. AllIdle /\ req' = req /\ ~advised'
    BY <1>5 DEF GenerateConfig, Typed
  <2>2. \A h \in Handlers : ~Configuring(h)'
    BY <2>1 DEF AllIdle, Configuring
  <2> QED
    BY <2>1, <2>2 DEF AdviceInv
<1>6. ASSUME NEW h \in Handlers,
             \/ ConfigSave(h) \/ SetAddress(h) \/ MakeWallet(h) \/ AutoConfigureRequest(h)
             \/ TruncateWallet(h) \/ WriteWallet(h) \/ SaveFails(h) \/ Swap(h)
      PROVE  AdviceInv'
  BY <1>2, <1>6, Quiet
<1>7. ASSUME NEW h \in Handlers, Snapshot(h)
      PROVE  AdviceInv'
  <2>1. /\ \A g \in Handlers : g # h => req'[g] = req[g]
        /\ Request(req[h]) /\ req'[h].op = req[h].op /\ req'[h].at = "save"
        /\ req'[h].config = Changed(req[h])
    BY <1>7, SnapshotTaken, AtRequest DEF Snapshot
  <2>2. At(h, "snapshot") /\ UNCHANGED <<machine, file, advised>>
    BY <1>7 DEF Snapshot, history
  <2>3. Load' = Load /\ (Writing' <=> Writing)
    BY <2>1, <2>2 DEF Load, Writing, At
  <2>4. ASSUME req[h].op = "auto" PROVE Advised(req[h].config.tuning)'
    BY <2>1, <2>2, <2>4, ChangedConfig, Loaded DEF Advised
  <2>5. ASSUME NEW g \in Handlers, Configuring(g)' PROVE Advised(req[g].config.tuning)'
    <3>1. CASE g = h
      BY <2>1, <2>4, <2>5, <3>1 DEF Configuring
    <3>2. CASE g # h
      BY <2>1, <2>2, <2>5, <3>2 DEF Configuring, AdviceInv, Advised
    <3> QED
      BY <3>1, <3>2
  <2>6. (advised' /\ ~Writing') => Advised(Load.tuning)'
    BY <2>2, <2>3 DEF AdviceInv, Advised
  <2> QED
    BY <2>5, <2>6 DEF AdviceInv
<1>8. ASSUME NEW h \in Handlers, Truncate(h)
      PROVE  AdviceInv'
  <2>1. At(h, "save") /\ ToPoint(h, "write") /\ machine' = machine
    BY <1>8 DEF Truncate
  <2>2. /\ \A g \in Handlers : g # h => req'[g] = req[g]
        /\ req'[h] # Idle /\ req'[h].op = req[h].op /\ req'[h].at = "write"
        /\ req'[h].config = req[h].config
    BY <2>1, Moves DEF Late
  <2>3. Writing'
    BY <2>2 DEF Writing, At
  <2>4. \A g \in Handlers : Configuring(g)' => Configuring(g) /\ req'[g].config = req[g].config
    BY <2>1, <2>2 DEF Configuring, At, Late
  <2>5. \A g \in Handlers : Configuring(g)' => Advised(req[g].config.tuning)'
    BY <2>1, <2>4 DEF AdviceInv, Advised
  <2> QED
    BY <2>3, <2>5 DEF AdviceInv
<1>9. ASSUME NEW h \in Handlers, Write(h)
      PROVE  AdviceInv'
  <2>1. /\ Request(req[h]) /\ req[h].at = "write" /\ req[h].config \in Configs
        /\ file' = req[h].config /\ machine' = machine
        /\ advised' = (req[h].op = "auto")
        /\ \A g \in Handlers : g # h => req'[g] = req[g]
        /\ req[h].op = "auto" => req'[h] = Idle
        /\ req[h].op # "auto" => req'[h].op # "auto"
    BY <1>9, Written
  <2>2. Load' = req[h].config
    BY <2>1, SettingsAssumption DEF Load
  <2>3. req[h].op = "auto" => Configuring(h)
    BY <2>1, RequestBusy DEF Configuring, Late
  <2>4. advised' => Advised(Load.tuning)'
    BY <2>1, <2>2, <2>3 DEF AdviceInv, Advised
  <2>5. ASSUME NEW g \in Handlers, Configuring(g)' PROVE Advised(req[g].config.tuning)'
    BY <2>1, <2>5 DEF Configuring, AdviceInv, Advised
  <2> QED
    BY <2>4, <2>5 DEF AdviceInv
<1> QED
  BY <1>3, <1>4, <1>5, <1>6, <1>7, <1>8, <1>9 DEF Next

(* Settings.AdviceHolds, however many requests overlap.                    *)
THEOREM AdviceHoldsAlways == Spec => []AdviceHolds
<1>1. Init => AdviceInv
  BY DEF Init, AdviceInv, Configuring
<1>2. Typed /\ Typed' /\ AdviceInv /\ [Next]_vars => AdviceInv'
  BY AdviceStep
<1>3. Typed /\ AdviceInv => AdviceHolds
  <2> SUFFICES ASSUME Typed, AdviceInv, AllIdle, advised PROVE AdviceHolds
    BY DEF AdviceHolds
  <2>1. PICK t \in Tunings : Load.tuning = Recommended(machine, t)
    BY NobodyWrites DEF AdviceInv, Advised
  <2>2. machine \in MachineRecords
    BY Loaded
  <2> QED
    BY <2>1, <2>2, RecommendationHolds DEF AdviceHolds, OptimizationCheck
<1> QED
  BY <1>1, <1>2, <1>3, SettingsTyped, PTL DEF Spec

-----------------------------------------------------------------------------
(* The wallet.  While a request is making one the file may be truncated,   *)
(* or hold a wallet that the user has not been given yet.                  *)

Making(h) == req[h] # Idle /\ req[h].op = "wallet"

WalletInv ==
  /\ (\A h \in Handlers : Making(h) => At(h, "wallet")) =>
       (given # NoGift => wallet = Sealed(given[1], given[2]))
  /\ \A h \in Handlers :
       Making(h) /\ ~At(h, "wallet") /\ ~At(h, "seal") =>
         wallet = Sealed(req[h].data[1], req[h].data[2])

LEMMA WalletStep ==
  ASSUME Typed, WalletInv, [Next]_vars, OneHandler
  PROVE  WalletInv'
<1>1. ASSUME AllIdle', given' # NoGift => wallet' = Sealed(given[1], given[2])'
      PROVE  WalletInv'
  BY <1>1 DEF AllIdle, WalletInv, Making
<1>2. ASSUME AllIdle, given # NoGift PROVE wallet = Sealed(given[1], given[2])
  BY <1>2 DEF AllIdle, WalletInv, Making
<1>3. CASE \/ \E flags \in Flags : Start(flags)
           \/ Stop \/ GenerateConfig \/ UNCHANGED vars
  <2>1. UNCHANGED <<wallet, given, req>>
    BY <1>3 DEF Start, Stop, GenerateConfig, vars, history
  <2> QED
    BY <2>1 DEF WalletInv, Making, At
<1>4. CASE Kill
  <2>1. AllIdle' /\ wallet' = wallet
    BY <1>4 DEF Kill, AllIdle, Typed
  <2>2. given' # NoGift =>
          given' = given /\ \A h \in Handlers : Making(h) => At(h, "wallet")
    BY <1>4 DEF Kill, Making
  <2> QED
    BY <1>1, <2>1, <2>2 DEF WalletInv
<1>5. ASSUME NEW phrase \in Phrases, NEW passphrase \in Passphrases,
             GenerateWallet(phrase, passphrase)
      PROVE  WalletInv'
  <2>1. /\ AllIdle /\ req' = req /\ wallet' = Sealed(phrase, passphrase)
        /\ given' = <<phrase, passphrase>>
    BY <1>5 DEF GenerateWallet
  <2> QED
    BY <1>1, <2>1 DEF AllIdle
<1>6. ASSUME NEW h \in Handlers, req'[h] # Idle, wallet' = wallet, given' = given,
             req'[h].op = req[h].op, req'[h].data = req[h].data, req[h] # Idle,
             req'[h].op = "wallet" =>
               /\ req'[h].at \notin {"wallet", "seal"}
               /\ req[h].at \notin {"wallet", "seal"}
      PROVE  WalletInv'
  <2>1. \A g \in Handlers : g = h
    BY DEF OneHandler
  <2>2. Making(h)' <=> Making(h)
    BY <1>6 DEF Making
  <2>3. Making(h) => /\ ~At(h, "wallet") /\ ~At(h, "seal")
                     /\ ~At(h, "wallet")' /\ ~At(h, "seal")'
    BY <1>6 DEF Making, At
  <2> QED
    BY <1>6, <2>1, <2>2, <2>3 DEF WalletInv
<1>7. ASSUME NEW h \in Handlers, req'[h] = Idle
      PROVE  AllIdle'
  BY <1>7 DEF AllIdle, OneHandler
<1>8. ASSUME NEW h \in Handlers,
             ConfigSave(h) \/ SetAddress(h) \/ MakeWallet(h) \/ AutoConfigureRequest(h)
      PROVE  WalletInv'
  <2>1. /\ req[h] = Idle /\ UNCHANGED <<wallet, given>>
        /\ req'[h] # Idle /\ (req'[h].op = "wallet" => req'[h].at = "wallet")
    BY <1>8, Received DEF history
  <2>2. \A g \in Handlers : g = h
    BY DEF OneHandler
  <2>3. AllIdle
    BY <2>1, <2>2 DEF AllIdle
  <2>4. Making(h)' => At(h, "wallet")'
    BY <2>1 DEF Making, At
  <2> QED
    BY <1>2, <2>1, <2>2, <2>3, <2>4 DEF WalletInv
<1>9. ASSUME NEW h \in Handlers, TruncateWallet(h)
      PROVE  WalletInv'
  <2>1. At(h, "wallet") /\ ToPoint(h, "seal")
    BY <1>9 DEF TruncateWallet
  <2>2. req[h].op = "wallet"
    BY <2>1, AtRequest, WalletRequest
  <2>3. req'[h] # Idle /\ req'[h].at = "seal" /\ req'[h].op = "wallet"
    BY <2>1, <2>2, Moves DEF Early
  <2>4. Making(h)' /\ At(h, "seal")' /\ ~At(h, "wallet")'
    BY <2>3 DEF Making, At
  <2> QED
    BY <2>4 DEF WalletInv, OneHandler
<1>10. ASSUME NEW h \in Handlers, WriteWallet(h)
       PROVE  WalletInv'
  <2>1. /\ At(h, "seal") /\ ToPoint(h, "snapshot")
        /\ wallet' = Sealed(req[h].data[1], req[h].data[2])
    BY <1>10 DEF WriteWallet, NewWallet
  <2>2. req[h].op = "wallet"
    BY <2>1, AtRequest, WalletRequest
  <2>3. /\ req'[h] # Idle /\ req'[h].at = "snapshot" /\ req'[h].op = "wallet"
        /\ req'[h].data = req[h].data
    BY <2>1, <2>2, Moves DEF Early
  <2>4. Making(h)' /\ ~At(h, "wallet")'
    BY <2>3 DEF Making, At
  <2> QED
    BY <2>1, <2>3, <2>4 DEF WalletInv, OneHandler
<1>11. ASSUME NEW h \in Handlers, Snapshot(h)
       PROVE  WalletInv'
  <2>1. req[h] # Idle /\ req[h].at = "snapshot" /\ UNCHANGED <<wallet, given>>
    BY <1>11 DEF Snapshot, At, history
  <2>2. /\ req'[h] # Idle /\ req'[h].at = "save" /\ req'[h].op = req[h].op
        /\ req'[h].data = req[h].data
    BY <1>11, SnapshotTaken
  <2> QED
    BY <1>6, <2>1, <2>2
<1>12. ASSUME NEW h \in Handlers, Truncate(h)
       PROVE  WalletInv'
  <2>1. At(h, "save") /\ ToPoint(h, "write") /\ UNCHANGED <<wallet, given>>
    BY <1>12 DEF Truncate, history
  <2>2. /\ req'[h] # Idle /\ req'[h].at = "write" /\ req'[h].op = req[h].op
        /\ req'[h].data = req[h].data
    BY <2>1, Moves DEF Late
  <2>3. req[h] # Idle /\ req[h].at = "save"
    BY <2>1 DEF At
  <2> QED
    BY <1>6, <2>1, <2>2, <2>3
<1>13. ASSUME NEW h \in Handlers, Write(h)
       PROVE  WalletInv'
  <2>1. At(h, "write") /\ wallet' = wallet
    BY <1>13 DEF Write
  <2>2. req[h] # Idle /\ req[h].at = "write"
    BY <2>1 DEF At
  <2>3. CASE req[h].op = "auto"
    <3>1. given' = given
      BY <1>13, <2>3 DEF Write, AutoAnswer
    <3>2. AllIdle'
      BY <1>7, <1>13, <2>3, Written
    <3>3. ~Making(h)
      BY <2>3 DEF Making
    <3> QED
      BY <1>1, <2>1, <3>1, <3>2, <3>3 DEF WalletInv, OneHandler
  <2>4. CASE req[h].op # "auto"
    <3>1. /\ req'[h] # Idle /\ req'[h].op = req[h].op
          /\ req'[h].at = "swap" /\ req'[h].data = req[h].data
      BY <1>13, <2>4, Written
    <3>2. given' = given
      BY <1>13, <2>4 DEF Write
    <3> QED
      BY <1>6, <2>1, <2>2, <3>1, <3>2
  <2> QED
    BY <2>3, <2>4
<1>14. ASSUME NEW h \in Handlers, SaveFails(h)
       PROVE  WalletInv'
  <2>1. /\ Request(req[h]) /\ req'[h] = Idle /\ wallet' = wallet
        /\ \/ At(h, "wallet") /\ given' = given
           \/ At(h, "save") /\ req[h].op # "wallet" /\ given' = given
           \/ At(h, "save") /\ req[h].op = "wallet" /\ given' = req[h].data
    BY <1>14, Failed
  <2>2. AllIdle'
    BY <1>7, <2>1
  <2>3. CASE At(h, "wallet") /\ given' = given
    BY <1>1, <2>1, <2>2, <2>3 DEF WalletInv, OneHandler
  <2>4. CASE At(h, "save") /\ req[h].op # "wallet" /\ given' = given
    <3>1. ~Making(h)
      BY <2>4 DEF Making
    <3> QED
      BY <1>1, <2>1, <2>2, <2>4, <3>1 DEF WalletInv, OneHandler
  <2>5. CASE At(h, "save") /\ req[h].op = "wallet" /\ given' = req[h].data
    <3>1. Making(h) /\ ~At(h, "wallet") /\ ~At(h, "seal")
      BY <2>5 DEF Making, At
    <3> QED
      BY <1>1, <2>1, <2>2, <2>5, <3>1 DEF WalletInv
  <2> QED
    BY <2>1, <2>3, <2>4, <2>5
<1>15. ASSUME NEW h \in Handlers, Swap(h)
       PROVE  WalletInv'
  <2>1. /\ Request(req[h]) /\ req'[h] = Idle /\ wallet' = wallet /\ req[h].at = "swap"
        /\ given' = IF req[h].op = "wallet" THEN req[h].data ELSE given
    BY <1>15, Swapped
  <2>2. AllIdle'
    BY <1>7, <2>1
  <2>3. CASE req[h].op # "wallet"
    <3>1. ~Making(h)
      BY <2>3 DEF Making
    <3> QED
      BY <1>1, <2>1, <2>2, <2>3, <3>1 DEF WalletInv, OneHandler
  <2>4. CASE req[h].op = "wallet"
    <3>1. Making(h) /\ ~At(h, "wallet") /\ ~At(h, "seal")
      BY <2>1, <2>4, RequestBusy DEF Making, At
    <3> QED
      BY <1>1, <2>1, <2>2, <2>4, <3>1 DEF WalletInv
  <2> QED
    BY <2>3, <2>4
<1> QED
  BY <1>3, <1>4, <1>5, <1>8, <1>9, <1>10, <1>11, <1>12, <1>13, <1>14, <1>15 DEF Next

LEMMA WalletAlways ==
  ASSUME OneHandler
  PROVE  Spec => [](Typed /\ WalletInv)
<1>1. Init => WalletInv
  BY DEF Init, WalletInv, Making
<1>2. Typed /\ Typed' /\ WalletInv /\ [Next]_vars => WalletInv'
  BY WalletStep
<1> QED
  BY <1>1, <1>2, SettingsTyped, PTL DEF Spec

(* What the wallet that was given to the user is to the miner and to the   *)
(* dashboard.                                                              *)
LEMMA GivenWallet ==
  ASSUME NEW gift \in Gifts
  PROVE  LET w == Sealed(gift[1], gift[2]) IN
           /\ w # NoWallet /\ ~IsLegacy(w) /\ w.network
           /\ WalletAddress(w) = DeriveAddress(gift[1])
           /\ DeriveAddress(gift[1]) \in Addresses
           /\ w.encrypted # NoSeal
           /\ w.encrypted = Encrypt(gift[1], gift[2])
<1>1. gift[1] \in Phrases /\ gift[2] \in Passphrases /\ gift[1] # NoPhrase
  BY SettingsAssumption DEF Gifts
<1> DEFINE w == Sealed(gift[1], gift[2])
<1>2. w # NoWallet
  BY <1>1, SettingsAssumption DEF Wallets
<1>3. /\ w.mnemonic = NoPhrase /\ w.network = TRUE /\ w.address = DeriveAddress(gift[1])
      /\ w.encrypted = Encrypt(gift[1], gift[2])
  BY DEF Sealed
<1>4. Encrypt(gift[1], gift[2]) # NoSeal
  <2>1. Encrypt(gift[1], gift[2]).ciphertext # NoSeal.ciphertext
    BY <1>1 DEF Encrypt, NoSeal
  <2> QED
    BY <2>1
<1> HIDE DEF w
<1>5. WalletAddress(w) = DeriveAddress(gift[1])
  BY <1>2, <1>3 DEF WalletAddress
<1>6. DeriveAddress(gift[1]) \in Addresses
  BY <1>1 DEF Addresses
<1> QED
  BY <1>2, <1>3, <1>4, <1>5, <1>6 DEF w, IsLegacy

(* Settings.PhraseKept, for requests that do not overlap.                  *)
THEOREM PhraseKeptHolds ==
  ASSUME OneHandler
  PROVE  Spec => []PhraseKept
<1>1. Typed /\ WalletInv => PhraseKept
  <2> SUFFICES ASSUME Typed, WalletInv, AllIdle, given # NoGift PROVE PhraseKept
    BY DEF PhraseKept
  <2>1. given \in Gifts /\ wallet = Sealed(given[1], given[2])
    BY DEF Typed, WalletInv, AllIdle, Making
  <2>2. /\ wallet # NoWallet /\ ~IsLegacy(wallet) /\ wallet.network
        /\ WalletAddress(wallet) = DeriveAddress(given[1])
        /\ DeriveAddress(given[1]) # Nobody
        /\ wallet.encrypted # NoSeal
        /\ wallet.encrypted = Encrypt(given[1], given[2])
    BY <2>1, GivenWallet, SettingsAssumption DEF Workers
  <2>3. given[1] \in Phrases /\ given[1] # NoPhrase
    BY <2>1, SettingsAssumption DEF Gifts
  <2>4. ASSUME NEW p \in Passphrases
        PROVE  GetMnemonic(wallet, p) = IF p = given[2] THEN given[1] ELSE NoPhrase
    BY <2>2 DEF GetMnemonic, Decrypt, Encrypt
  <2>5. ASSUME NEW p \in Passphrases
        PROVE  WalletMnemonic(wallet, p) =
                 IF p = given[2]
                   THEN [mnemonic |-> given[1], address |-> DeriveAddress(given[1])]
                   ELSE [mnemonic |-> NoPhrase, address |-> Nobody]
    BY <2>2, <2>3, <2>4 DEF WalletMnemonic
  <2>6. HasEncryptedMnemonic(wallet)
    BY <2>2 DEF HasEncryptedMnemonic
  <2>7. WalletStatus(wallet) = [address |-> DeriveAddress(given[1]), hasMnemonic |-> TRUE]
    BY <2>2, <2>6, Zenon DEF WalletStatus
  <2> QED
    BY <2>5, <2>7 DEF PhraseKept
<1> QED
  BY <1>1, WalletAlways, PTL

(* Settings.GeneratedWalletMined, for requests that do not overlap.        *)
THEOREM GeneratedWalletMinedHolds ==
  ASSUME OneHandler
  PROVE  Spec => GeneratedWalletMined
<1>1. Typed /\ WalletInv /\ [Next]_vars =>
        [(~up /\ up' /\ given # NoGift) => mining' = DeriveAddress(given[1])]_vars
  <2> SUFFICES ASSUME Typed, WalletInv, Next, ~up, up', given # NoGift
               PROVE  mining' = DeriveAddress(given[1])
    OBVIOUS
  <2>1. AllIdle
    BY DEF Typed
  <2>2. \A h \in Handlers : \A p : ~At(h, p)
    BY <2>1 DEF AllIdle, At
  <2>3. PICK flags \in Flags : Start(flags)
    BY <2>2 DEF Next, Stop, Kill, Down, GenerateConfig, GenerateWallet, ConfigSave, SetAddress,
       MakeWallet, AutoConfigureRequest, Receive, TruncateWallet, WriteWallet, Snapshot, Truncate,
       Write, SaveFails, Swap
  <2>4. given \in Gifts /\ wallet = Sealed(given[1], given[2])
    BY <2>1 DEF Typed, WalletInv, AllIdle, Making
  <2>5. /\ WalletAddress(wallet) = DeriveAddress(given[1])
        /\ DeriveAddress(given[1]) \in Addresses
    BY <2>4, GivenWallet
  <2>6. DeriveAddress(given[1]) # Nobody /\ DeriveAddress(given[1]) # Placeholder
    BY <2>5, SettingsAssumption DEF Workers
  <2>7. mining' = Payee(SyncedWorker(Load.worker))
    BY <2>3, Started
  <2> QED
    BY <2>5, <2>6, <2>7 DEF SyncedWorker, Payee
<1> QED
  BY <1>1, WalletAlways, PTL DEF Spec, GeneratedWalletMined

-----------------------------------------------------------------------------
(* The tuning.  While a request saves, the file is truncated or ahead of   *)
(* the live configuration.                                                 *)

Saving == \E h \in Handlers : At(h, "write") \/ At(h, "swap")

TuningInv ==
  /\ (~apart /\ ~Saving) => Load.tuning = tuned
  /\ (up /\ ~apart) => mem.tuning = tuned
  /\ \A h \in Handlers :
       /\ At(h, "swap") => file = req[h].config
       /\ (req[h] # Idle /\ req[h].at \in Late /\ req[h].op \in {"address", "wallet"}) =>
            req[h].config.tuning = mem.tuning

(* Between requests nothing is being saved.                                *)
LEMMA NobodySaves ==
  ASSUME AllIdle
  PROVE  ~Saving /\ \A h \in Handlers : ~Configuring(h) /\ req[h] = Idle /\ \A p : ~At(h, p)
BY DEF AllIdle, Saving, Configuring, At

LEMMA NobodySavesNext ==
  ASSUME AllIdle'
  PROVE  ~Saving' /\ \A h \in Handlers : ~Configuring(h)' /\ req'[h] = Idle /\ \A p : ~At(h, p)'
BY DEF AllIdle, Saving, Configuring, At

(* A request on its way to its snapshot, when it is the only one.          *)
LEMMA EarlyStep ==
  ASSUME Typed, OneHandler, NEW h \in Handlers,
         \/ ConfigSave(h) \/ SetAddress(h) \/ MakeWallet(h) \/ AutoConfigureRequest(h)
         \/ TruncateWallet(h) \/ WriteWallet(h)
  PROVE  /\ ~Saving /\ ~Saving'
         /\ \A g \in Handlers : /\ ~At(g, "swap")' /\ ~Configuring(g)'
                                /\ req'[g].at \notin Late
         /\ UNCHANGED <<machine, file, up, mem, tuned, apart>>
<1>1. \A g \in Handlers : g = h
  BY DEF OneHandler
<1>2. ASSUME ~At(h, "write"), ~At(h, "swap"), req'[h].at \notin Late
      PROVE  /\ ~Saving /\ ~Saving'
             /\ \A g \in Handlers : /\ ~At(g, "swap")' /\ ~Configuring(g)'
                                    /\ req'[g].at \notin Late
  BY <1>1, <1>2 DEF Saving, At, Configuring, Late
<1>3. CASE ConfigSave(h) \/ SetAddress(h) \/ MakeWallet(h) \/ AutoConfigureRequest(h)
  <2>1. /\ req[h] = Idle /\ req'[h].at \in {"wallet", "snapshot"}
        /\ UNCHANGED <<machine, file, up, mem, tuned, apart>>
    BY <1>3, Received DEF history
  <2> QED
    BY <1>2, <2>1 DEF At, Late
<1>4. CASE TruncateWallet(h)
  <2>1. At(h, "wallet") /\ ToPoint(h, "seal")
        /\ UNCHANGED <<machine, file, up, mem, tuned, apart>>
    BY <1>4 DEF TruncateWallet, history
  <2>2. req[h].op = "wallet"
    BY <2>1, AtRequest, WalletRequest
  <2>3. req'[h].at = "seal"
    BY <2>1, <2>2, Moves DEF Early
  <2> QED
    BY <1>2, <2>1, <2>3 DEF At, Late
<1>5. CASE WriteWallet(h)
  <2>1. At(h, "seal") /\ ToPoint(h, "snapshot")
        /\ UNCHANGED <<machine, file, up, mem, tuned, apart>>
    BY <1>5 DEF WriteWallet, history
  <2>2. req[h].op = "wallet"
    BY <2>1, AtRequest, WalletRequest
  <2>3. req'[h].at = "snapshot"
    BY <2>1, <2>2, Moves DEF Early
  <2> QED
    BY <1>2, <2>1, <2>3 DEF At, Late
<1> QED
  BY <1>3, <1>4, <1>5

(* The points from the snapshot to the end, for the one request there is.  *)
LEMMA LateStep ==
  ASSUME Typed, OneHandler, NEW h \in Handlers
  PROVE  /\ Snapshot(h) => /\ ~Saving /\ ~Saving'
                           /\ req'[h] # Idle /\ req'[h].at = "save" /\ req'[h].op = req[h].op
                           /\ req'[h].config = Changed(req[h])
         /\ Truncate(h) => /\ Saving'
                           /\ req[h] # Idle /\ req[h].at = "save"
                           /\ req'[h].at = "write" /\ req'[h].op = req[h].op
                           /\ req'[h].config = req[h].config
         /\ Write(h) => /\ req[h] # Idle /\ req[h].at = "write"
                        /\ req[h].op = "auto" => AllIdle'
                        /\ req[h].op # "auto" => Saving'
         /\ SaveFails(h) => /\ ~Saving /\ AllIdle'
         /\ Swap(h) => AllIdle' /\ At(h, "swap")
<1>1. \A g \in Handlers : g = h
  BY DEF OneHandler
<1>2. req'[h] = Idle => AllIdle'
  BY <1>1 DEF AllIdle
<1>3. ASSUME Snapshot(h)
      PROVE  /\ ~Saving /\ ~Saving'
             /\ req'[h] # Idle /\ req'[h].at = "save" /\ req'[h].op = req[h].op
             /\ req'[h].config = Changed(req[h])
  <2>1. /\ req'[h] # Idle /\ req'[h].at = "save" /\ req'[h].op = req[h].op
        /\ req'[h].config = Changed(req[h])
    BY <1>3, SnapshotTaken
  <2>2. At(h, "snapshot")
    BY <1>3 DEF Snapshot
  <2> QED
    BY <1>1, <2>1, <2>2 DEF Saving, At
<1>4. ASSUME Truncate(h)
      PROVE  /\ Saving' /\ req[h] # Idle /\ req[h].at = "save"
             /\ req'[h].at = "write" /\ req'[h].op = req[h].op
             /\ req'[h].config = req[h].config
  <2>1. At(h, "save") /\ ToPoint(h, "write")
    BY <1>4 DEF Truncate
  <2>2. /\ req'[h] # Idle /\ req'[h].at = "write" /\ req'[h].op = req[h].op
        /\ req'[h].config = req[h].config
    BY <2>1, Moves DEF Late
  <2> QED
    BY <2>1, <2>2 DEF Saving, At
<1>5. ASSUME Write(h)
      PROVE  /\ req[h] # Idle /\ req[h].at = "write"
             /\ req[h].op = "auto" => AllIdle'
             /\ req[h].op # "auto" => Saving'
  <2>1. At(h, "write")
    BY <1>5 DEF Write
  <2>2. req[h].op = "auto" => AllIdle'
    BY <1>2, <1>5, Written
  <2>3. req[h].op # "auto" => Saving'
    <3>1. req[h].op # "auto" => req'[h] # Idle /\ req'[h].at = "swap"
      BY <1>5, Written
    <3> QED
      BY <3>1 DEF Saving, At
  <2> QED
    BY <2>1, <2>2, <2>3 DEF At
<1>6. ASSUME SaveFails(h) PROVE ~Saving /\ AllIdle'
  <2>1. req'[h] = Idle /\ (At(h, "wallet") \/ At(h, "save"))
    BY <1>6, Failed
  <2> QED
    BY <1>1, <1>2, <2>1 DEF Saving, At
<1>7. ASSUME Swap(h) PROVE AllIdle' /\ At(h, "swap")
  BY <1>2, <1>7, Swapped DEF Swap
<1> QED
  BY <1>3, <1>4, <1>5, <1>6, <1>7

LEMMA TuningStep ==
  ASSUME Typed, TuningInv, [Next]_vars, OneHandler
  PROVE  TuningInv'
<1>1. ASSUME AllIdle', ~apart' => Load'.tuning = tuned', (up' /\ ~apart') => mem'.tuning = tuned'
      PROVE  TuningInv'
  BY <1>1, NobodySavesNext DEF TuningInv
<1>2. ASSUME NEW c \in Configs, file' = c PROVE Load' = c
  BY <1>2, SettingsAssumption DEF Load
<1>3. ASSUME NEW flags \in Flags, Start(flags) PROVE TuningInv'
  <2>1. AllIdle /\ AllIdle' /\ UNCHANGED <<machine, file, tuned>>
    BY <1>3, Started DEF Start, AllIdle
  <2>2. Load' = Load /\ ~Saving
    BY <2>1, NobodySaves DEF Load
  <2>3. ~apart' => ~apart /\ mem'.tuning = Load.tuning
    BY <1>3, Started
  <2> QED
    BY <1>1, <2>1, <2>2, <2>3 DEF TuningInv
<1>4. CASE Stop
  <2>1. AllIdle /\ AllIdle' /\ ~up' /\ UNCHANGED <<machine, file, tuned, apart>>
    BY <1>4 DEF Stop, Down, AllIdle, history
  <2>2. Load' = Load /\ ~Saving
    BY <2>1, NobodySaves DEF Load
  <2> QED
    BY <1>1, <2>1, <2>2 DEF TuningInv
<1>5. CASE Kill
  <2>1. AllIdle' /\ ~up' /\ UNCHANGED <<machine, file, apart>>
    BY <1>5 DEF Kill, Down, AllIdle, Typed
  <2>2. tuned' = IF Saving THEN Load.tuning ELSE tuned
    BY <1>5 DEF Kill, Saving
  <2>3. Load' = Load
    BY <2>1 DEF Load
  <2> QED
    BY <1>1, <2>1, <2>2, <2>3 DEF TuningInv
<1>6. CASE GenerateConfig
  <2>1. AllIdle' /\ ~up' /\ file' = DefaultConfig(machine) /\ tuned' = DefaultTuning(machine)
    BY <1>6 DEF GenerateConfig, AllIdle, Typed
  <2>2. Load' = DefaultConfig(machine)
    BY <1>2, <2>1, Loaded
  <2> QED
    BY <1>1, <2>1, <2>2 DEF DefaultConfig
<1>7. CASE \/ UNCHANGED vars
           \/ \E phrase \in Phrases, passphrase \in Passphrases : GenerateWallet(phrase, passphrase)
  <2>1. UNCHANGED <<machine, file, up, mem, req, tuned, apart>>
    BY <1>7 DEF GenerateWallet, vars, history
  <2>2. Load' = Load /\ (Saving' <=> Saving)
    BY <2>1 DEF Load, Saving, At
  <2> QED
    BY <2>1, <2>2 DEF TuningInv, At
<1>8. ASSUME NEW h \in Handlers,
             \/ ConfigSave(h) \/ SetAddress(h) \/ MakeWallet(h) \/ AutoConfigureRequest(h)
             \/ TruncateWallet(h) \/ WriteWallet(h)
      PROVE  TuningInv'
  <2>1. Load' = Load
    BY <1>8, EarlyStep DEF Load
  <2> QED
    BY <1>8, <2>1, EarlyStep DEF TuningInv
<1>9. ASSUME NEW h \in Handlers, Snapshot(h)
      PROVE  TuningInv'
  <2>1. UNCHANGED <<machine, file, up, mem, tuned, apart>>
    BY <1>9 DEF Snapshot, history
  <2>2. /\ ~Saving /\ ~Saving' /\ Load' = Load
        /\ req'[h].at = "save" /\ req'[h].op = req[h].op
        /\ req'[h].config = Changed(req[h])
    BY <1>9, <2>1, LateStep DEF Load
  <2>3. Request(req[h])
    BY <1>9, AtRequest DEF Snapshot
  <2>4. req'[h].op \in {"address", "wallet"} => req'[h].config.tuning = mem.tuning
    BY <2>2, <2>3, ChangedConfig
  <2>5. ~At(h, "swap")'
    BY <2>2 DEF At
  <2> QED
    BY <2>1, <2>2, <2>4, <2>5 DEF TuningInv, OneHandler
<1>10. ASSUME NEW h \in Handlers, Truncate(h)
       PROVE  TuningInv'
  <2>1. UNCHANGED <<up, mem, tuned, apart>>
    BY <1>10 DEF Truncate, history
  <2>2. /\ Saving' /\ req[h] # Idle /\ req[h].at = "save"
        /\ req'[h].at = "write" /\ req'[h].op = req[h].op /\ req'[h].config = req[h].config
    BY <1>10, LateStep
  <2>3. ~At(h, "swap")' /\ req[h].at \in Late
    BY <2>2 DEF At, Late
  <2> QED
    BY <2>1, <2>2, <2>3 DEF TuningInv, OneHandler
<1>11. ASSUME NEW h \in Handlers, Write(h)
       PROVE  TuningInv'
  <2>1. /\ req[h].config \in Configs /\ file' = req[h].config
        /\ UNCHANGED <<up, mem>>
    BY <1>11, Written
  <2>2. /\ req[h] # Idle /\ req[h].at = "write" /\ req[h].at \in Late
        /\ req[h].op = "auto" => AllIdle'
        /\ req[h].op # "auto" => Saving'
    BY <1>11, LateStep DEF Late
  <2>3. CASE req[h].op = "auto"
    <3>1. apart'
      BY <1>11, <2>3, Written
    <3> QED
      BY <1>1, <2>2, <2>3, <3>1
  <2>4. CASE req[h].op # "auto"
    <3>1. /\ req'[h].op = req[h].op /\ req'[h].config = req[h].config
          /\ UNCHANGED <<tuned, apart>>
      BY <1>11, <2>4, Written
    <3> QED
      BY <2>1, <2>2, <2>4, <3>1 DEF TuningInv, OneHandler
  <2> QED
    BY <2>3, <2>4
<1>12. ASSUME NEW h \in Handlers, SaveFails(h)
       PROVE  TuningInv'
  <2>1. ~Saving /\ AllIdle'
    BY <1>12, LateStep
  <2>2. UNCHANGED <<machine, file, up, mem, tuned, apart>>
    BY <1>12, Failed
  <2>3. Load' = Load
    BY <2>2 DEF Load
  <2> QED
    BY <1>1, <2>1, <2>2, <2>3 DEF TuningInv
<1>13. ASSUME NEW h \in Handlers, Swap(h)
       PROVE  TuningInv'
  <2>1. AllIdle' /\ At(h, "swap")
    BY <1>13, LateStep
  <2>2. /\ Request(req[h]) /\ req[h].config \in Configs /\ mem' = req[h].config
        /\ req[h].op \in {"save", "address", "wallet"}
        /\ tuned' = IF req[h].op = "save" THEN req[h].config.tuning ELSE tuned
        /\ UNCHANGED <<file, up>>
    BY <1>13, Swapped
  <2>3. Load' = req[h].config
    BY <1>2, <2>1, <2>2 DEF TuningInv
  <2>4. CASE req[h].op = "save"
    BY <1>1, <2>1, <2>2, <2>3, <2>4
  <2>5. CASE req[h].op # "save"
    <3>1. req[h].config.tuning = mem.tuning
      BY <2>1, <2>2, <2>5 DEF TuningInv, At, Late
    <3>2. up /\ apart' = apart
      BY <1>13, <2>1, <2>5, Swapped, NobodySaves DEF Typed
    <3> QED
      BY <1>1, <2>1, <2>2, <2>3, <2>5, <3>1, <3>2 DEF TuningInv
  <2> QED
    BY <2>4, <2>5
<1> QED
  BY <1>3, <1>4, <1>5, <1>6, <1>7, <1>8, <1>9, <1>10, <1>11, <1>12, <1>13 DEF Next

(* Settings.TuningKept, for requests that do not overlap.                  *)
THEOREM TuningKeptHolds ==
  ASSUME OneHandler
  PROVE  Spec => []TuningKept
<1>1. Init => TuningInv
  BY DEF Init, TuningInv, At, Load, DefaultConfig
<1>2. Typed /\ Typed' /\ TuningInv /\ [Next]_vars => TuningInv'
  BY TuningStep
<1>3. TuningInv => TuningKept
  BY NobodySaves DEF TuningInv, TuningKept
<1> QED
  BY <1>1, <1>2, <1>3, SettingsTyped, PTL DEF Spec
=============================================================================
