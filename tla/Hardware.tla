------------------------------ MODULE Hardware ------------------------------
(***************************************************************************)
(* What the miner finds out about the machine, what it recommends for it,  *)
(* what it warns of, and on what it then mines.                            *)
(*                                                                         *)
(* A machine is a record of the answers it gives: macos; cores, from       *)
(* available_parallelism(); fast, the performance cores that sysctl tells, *)
(* or 0 when it does not; tools, TRUE when xcrun finds the Metal compiler; *)
(* beside, TRUE when sha256d.metallib lies next to the binary; built, what *)
(* has become of the one whose path the build put into the binary: "none", *)
(* "there" or "gone"; named, TRUE when the GPU can be named.               *)
(*                                                                         *)
(* A tuning is a record of the settings that depend on the hardware.       *)
(* Intensities are percentages.  Left out: memory and platform, which are  *)
(* displayed only, the batch size, and the Metal device and pipeline,      *)
(* which are taken to be there when their library is.                      *)
(***************************************************************************)
EXTENDS Naturals

MachineRecords ==
  [macos : BOOLEAN, cores : Nat \ {0}, fast : Nat, tools : BOOLEAN, beside : BOOLEAN,
   built : {"none", "there", "gone"}, named : BOOLEAN]

Tunings ==
  [threads : Nat, cpuOnly : BOOLEAN, gpuOnly : BOOLEAN, gpu : BOOLEAN, intensity : Nat,
   throttled : BOOLEAN, minThreads : Nat]

AtLeastOne(n) == IF n = 0 THEN 1 ELSE n

Less(m, n) == IF m < n THEN 0 ELSE m - n

(***************************************************************************)
(* Detection.  The default configuration and detect() count the fast       *)
(* cores each in a way of its own when the system does not tell.           *)
(***************************************************************************)
Told(m) == m.macos /\ m.fast # 0

DetectPCores(m) == IF Told(m) THEN m.fast ELSE AtLeastOne((m.cores * 3) \div 4)

NumPCores(m) == IF Told(m) THEN m.fast ELSE AtLeastOne(Less(m.cores, 4))

DetectGpu(m) == m.macos /\ (m.beside \/ m.tools)

Detect(m) ==
  [total |-> m.cores, performance |-> DetectPCores(m),
   gpu |-> DetectGpu(m), named |-> m.macos /\ m.named]

DefaultTuning(m) ==
  [threads |-> NumPCores(m), cpuOnly |-> FALSE, gpuOnly |-> FALSE, gpu |-> TRUE,
   intensity |-> 100, throttled |-> TRUE, minThreads |-> 1]

-----------------------------------------------------------------------------
\* Mutant: a thread for each core.
AutoConfigureAllCores(m) ==
  [DefaultTuning(m) EXCEPT !.threads = m.cores, !.gpu = DetectGpu(m), !.cpuOnly = ~DetectGpu(m),
                           !.minThreads = AtLeastOne(m.cores \div 4)]

AutoConfigure(m) ==
  LET hw == Detect(m) IN
    [DefaultTuning(m) EXCEPT !.threads = hw.performance, !.gpu = hw.gpu, !.cpuOnly = ~hw.gpu,
                             !.minThreads = AtLeastOne(hw.performance \div 4)]

\* auto_configure() of routes.rs: everything but whether the activity throttles.
Recommended(m, tuning) ==
  [AutoConfigure(m) EXCEPT !.gpuOnly = FALSE, !.throttled = tuning.throttled]

CheckOptimization(m, t) ==
  LET hw == Detect(m)
      Applies ==
        [idleGpu    |-> hw.gpu /\ ~t.gpu,
         noShader   |-> ~hw.gpu /\ hw.named,
         idleCores  |-> t.threads < hw.performance /\ ~t.gpuOnly,
         slowCores  |-> t.threads > hw.performance /\ hw.performance < hw.total,
         weakGpu    |-> t.gpu /\ t.intensity < 90,
         throttling |-> t.throttled /\ t.minThreads < hw.performance]
  IN {w \in DOMAIN Applies : Applies[w]}

-----------------------------------------------------------------------------
(***************************************************************************)
(* main(): the flags of the command line, and what is done about a GPU     *)
(* that is enabled and not there.                                          *)
(***************************************************************************)
FlagRecords == [cpuOnly : BOOLEAN, gpuOnly : BOOLEAN, threads : Nat]

NoFlags == [cpuOnly |-> FALSE, gpuOnly |-> FALSE, threads |-> 0]

Override(t, flags) ==
  [t EXCEPT !.gpu     = @ /\ ~flags.cpuOnly,
            !.cpuOnly = @ \/ flags.cpuOnly,
            !.gpuOnly = @ \/ flags.gpuOnly,
            !.threads = IF flags.threads = 0 THEN @ ELSE flags.threads]

FallBack(m, t, flags) ==
  IF ~flags.cpuOnly /\ ~flags.gpuOnly /\ t.gpu /\ ~DetectGpu(m)
    THEN [t EXCEPT !.gpu = FALSE, !.cpuOnly = TRUE]
    ELSE t

StartTuning(m, t, flags) == FallBack(m, Override(t, flags), flags)

\* GpuManager::new() looks in other places than detect_gpu() does.
ManagerAvailable(m) ==
  /\ m.macos
  /\ m.built = "there" \/ (m.built = "none" /\ m.beside)

\* run(): the GPU thread and the CPU pool, and the threads of the latter.
MinesOnGpu(m, t) == t.gpu /\ ~t.cpuOnly /\ ManagerAvailable(m)

CpuThreads(t) == IF t.gpuOnly THEN 0 ELSE t.threads
=============================================================================
