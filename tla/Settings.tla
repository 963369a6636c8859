------------------------------ MODULE Settings ------------------------------
(***************************************************************************)
(* The settings: config.toml, wallet.json, the LiveConfig of a running     *)
(* miner, and the handlers of routes.rs through which the dashboard        *)
(* changes them.                                                           *)
(*                                                                         *)
(* Of a MinerConfig two parts are told apart: worker, the address that     *)
(* mining pays, and tuning, the settings of the hardware (see Hardware).   *)
(* A handler runs on a thread of its own, without a lock: it takes a       *)
(* snapshot of the live config, saves the changed one, which truncates the *)
(* file before it writes it, and swaps the live one.  auto_configure()     *)
(* works on the file instead and leaves the live config alone.  The        *)
(* settings form of the dashboard holds a copy of its own, which a save    *)
(* sends whole.                                                            *)
(*                                                                         *)
(* A config.toml that is missing or empty is the default configuration:    *)
(* every section of it has a serde default.  A wallet.json that is missing *)
(* or empty is no wallet.                                                  *)
(*                                                                         *)
(* The process may be killed in the middle of a handler.  Left out: a      *)
(* config.toml that does not parse, changes made with an editor, a write   *)
(* that fails once the file is open, and the answers that refuse a request *)
(* before it has changed anything (empty passphrase, bad phrase, bad       *)
(* address, random numbers that cannot be had).  Commands of the CLI run   *)
(* between the requests.                                                   *)
(***************************************************************************)
EXTENDS Hardware

CONSTANTS
  External,    \* Bitcoin addresses of other wallets
  Phrases,     \* recovery phrases
  Passphrases, \* passphrases that are not empty
  Legacies,    \* wallet files of earlier versions
  Placeholder, \* the worker of the default configuration
  Machines,    \* what the miner may run on
  FormTunings, \* the tunings the user enters in the form
  Flags,       \* the flags it may be started with
  Handlers,    \* the requests that may overlap
  Operations,  \* the requests made
  SavesFail,   \* TRUE: config.toml or wallet.json may fail to open for writing
  MaxRequests, \* bound: requests, commands and starts
  NoConfig,    \* config.toml is missing or empty
  NoWallet,    \* wallet.json is missing or empty
  Nobody,      \* no address
  NoPhrase     \* no recovery phrase

-----------------------------------------------------------------------------
(***************************************************************************)
(* The wallet.  The derivation of addresses and the encryption are         *)
(* symbolic: a phrase has an address of its own, and what was encrypted    *)
(* with a passphrase can be decrypted with that one alone.                 *)
(***************************************************************************)
DeriveAddress(phrase) == [derived |-> phrase]

Addresses == External \cup {DeriveAddress(p) : p \in Phrases}

Encrypt(phrase, passphrase) == [ciphertext |-> phrase, key |-> passphrase]

Decrypt(blob, passphrase) ==
  IF blob.key = passphrase THEN blob.ciphertext ELSE NoPhrase

(***************************************************************************)
(* A wallet file: what the keys mnemonic and encrypted_mnemonic hold, and  *)
(* whether the key network is there, without which a file is not parsed as *)
(* a WalletFile.  Files of earlier versions hold the phrase in the clear.  *)
(***************************************************************************)
Sealed(phrase, passphrase) ==
  [address |-> DeriveAddress(phrase), mnemonic |-> NoPhrase,
   encrypted |-> Encrypt(phrase, passphrase), network |-> TRUE]

NoSeal == Encrypt(NoPhrase, NoPhrase)

Legacy(phrase, network) ==
  [address |-> DeriveAddress(phrase), mnemonic |-> phrase, encrypted |-> NoSeal,
   network |-> network]

Wallets == Legacies \cup {Sealed(p, q) : p \in Phrases, q \in Passphrases}

IsLegacy(w) == w.mnemonic # NoPhrase

\* load_wallet(): the address, or nobody's when it fails.
WalletAddress(w) ==
  IF w # NoWallet /\ (IsLegacy(w) \/ w.network) THEN w.address ELSE Nobody

GetMnemonic(w, passphrase) ==
  IF w = NoWallet THEN NoPhrase
  ELSE IF IsLegacy(w) THEN w.mnemonic
  ELSE IF w.network /\ w.encrypted # NoSeal THEN Decrypt(w.encrypted, passphrase)
  ELSE NoPhrase

\* A file of an earlier version has one only if it does not parse as a newer one.
HasEncryptedMnemonic(w) ==
  /\ w # NoWallet
  /\ IF w.network THEN w.encrypted # NoSeal ELSE IsLegacy(w)

\* What wallet_status() and wallet_mnemonic() answer.
WalletStatus(w) ==
  [address |-> WalletAddress(w),
   hasMnemonic |-> WalletAddress(w) # Nobody /\ HasEncryptedMnemonic(w)]

WalletMnemonic(w, passphrase) ==
  LET phrase == GetMnemonic(w, passphrase) IN
    [mnemonic |-> phrase, address |-> IF phrase = NoPhrase THEN Nobody ELSE WalletAddress(w)]

-----------------------------------------------------------------------------
Workers == Addresses \cup {Placeholder}

Configs == [worker : Workers, tuning : Tunings]

DefaultConfig(m) == [worker |-> Placeholder, tuning |-> DefaultTuning(m)]

ASSUME SettingsAssumption ==
  /\ Placeholder \notin Addresses /\ Nobody \notin Workers
  /\ NoPhrase \notin Phrases /\ NoWallet \notin Wallets
  /\ Legacies \subseteq {Legacy(p, n) : p \in Phrases, n \in BOOLEAN}
  /\ Machines \subseteq MachineRecords /\ Flags \subseteq FlagRecords
  /\ FormTunings \subseteq Tunings /\ NoConfig \notin Configs
  /\ Operations \subseteq {"save", "address", "wallet", "auto"}
  /\ SavesFail \in BOOLEAN
  /\ MaxRequests \in Nat

VARIABLES
  machine, \* the machine
  file,    \* config.toml
  wallet,  \* wallet.json
  up,      \* the miner runs
  mem,     \* its LiveConfig
  mining,  \* the address its Stratum client authorized
  req,     \* the requests in progress
  form,    \* the settings form of the dashboard
  served,  \* number of requests, commands and starts so far
  chosen,  \* history: the worker in the last save that succeeded
  tuned,   \* history: the tuning the user last saw saved
  given,   \* history: the wallet the user was last given, phrase and passphrase
  advised, \* history: the tuning in the file is that of an auto-configuration
  apart    \* history: the live tuning was set apart from the user's since a form was saved

history == <<chosen, tuned, given, advised, apart>>
vars    == <<machine, file, wallet, up, mem, mining, req, form, served, history>>

Idle == [at |-> "idle"]

NoGift == <<NoPhrase, NoPhrase>>

Init ==
  /\ machine \in Machines
  /\ file = NoConfig /\ wallet \in Legacies \cup {NoWallet}
  /\ up = FALSE /\ mining = Nobody
  /\ mem = DefaultConfig(machine) /\ form = DefaultConfig(machine)
  /\ req = [h \in Handlers |-> Idle]
  /\ served = 0
  /\ chosen = Placeholder /\ tuned = DefaultTuning(machine)
  /\ given = NoGift /\ advised = FALSE /\ apart = FALSE

-----------------------------------------------------------------------------
(***************************************************************************)
(* main(): the configuration a run starts from.                            *)
(***************************************************************************)
Load == IF file = NoConfig THEN DefaultConfig(machine) ELSE file

\* optimization_check: what the dashboard says of the file's tuning.
OptimizationCheck == CheckOptimization(machine, Load.tuning)

\* Mutant: the worker is taken from the file.
FileWorker(worker) == worker

\* The wallet, when there is one, overrules the file.
SyncedWorker(worker) ==
  IF WalletAddress(wallet) # Nobody THEN WalletAddress(wallet) ELSE worker

Payee(worker) == IF worker = Placeholder THEN Nobody ELSE worker

AllIdle == \A h \in Handlers : req[h] = Idle

Start(flags) ==
  /\ ~up /\ served < MaxRequests
  /\ up' = TRUE
  /\ mem' = [worker |-> SyncedWorker(Load.worker),
             tuning |-> StartTuning(machine, Load.tuning, flags)]
  /\ mining' = Payee(mem'.worker)
  /\ form' = mem'
  /\ apart' = (apart \/ mem'.tuning # Load.tuning)
  /\ served' = served + 1
  /\ UNCHANGED <<machine, file, wallet, req, chosen, tuned, given, advised>>

Down == up' = FALSE /\ mining' = Nobody

\* A handler has no point at which the end of the runtime could cancel it.
Stop ==
  /\ up /\ AllIdle
  /\ Down
  /\ UNCHANGED <<machine, file, wallet, mem, req, form, served, history>>

At(h, point) == req[h] # Idle /\ req[h].at = point

(***************************************************************************)
(* A process that is killed in a handler leaves the files as they are.     *)
(* What the user may count on afterwards: a wallet that was being replaced *)
(* is not there any more, a configuration that was being written may be    *)
(* the default one.                                                        *)
(***************************************************************************)
Kill ==
  /\ up /\ ~AllIdle
  /\ Down
  /\ req' = [h \in Handlers |-> Idle]
  /\ LET Writing  == \E h \in Handlers : At(h, "write")
         Unsure   == Writing \/ \E h \in Handlers : At(h, "swap")
         Replaced == \E h \in Handlers :
                       req[h] # Idle /\ req[h].op = "wallet" /\ ~At(h, "wallet")
     IN /\ chosen' = IF Writing THEN Load.worker ELSE chosen
        /\ tuned' = IF Unsure THEN Load.tuning ELSE tuned
        /\ advised' = (advised /\ ~Unsure)
        /\ given' = IF Replaced THEN NoGift ELSE given
  /\ UNCHANGED <<machine, file, wallet, mem, form, served, apart>>

(***************************************************************************)
(* --generate-wallet and --generate-config, between requests; the latter   *)
(* while the miner is down.                                                *)
(***************************************************************************)
GenerateWallet(phrase, passphrase) ==
  /\ AllIdle /\ served < MaxRequests
  /\ wallet' = Sealed(phrase, passphrase) /\ given' = <<phrase, passphrase>>
  /\ served' = served + 1
  /\ UNCHANGED <<machine, file, up, mem, mining, req, form, chosen, tuned, advised, apart>>

GenerateConfig ==
  /\ ~up /\ served < MaxRequests
  /\ file' = DefaultConfig(machine)
  /\ chosen' = Placeholder /\ tuned' = DefaultTuning(machine)
  /\ advised' = FALSE
  /\ served' = served + 1
  /\ UNCHANGED <<machine, wallet, up, mem, mining, req, form, given, apart>>

-----------------------------------------------------------------------------
(***************************************************************************)
(* The handlers.  config_save() gets the form with the tuning the user     *)
(* entered, wallet_set_address() an address that passes its test,          *)
(* wallet_generate() and wallet_restore() a phrase and a passphrase.       *)
(***************************************************************************)
Receive(h, op, point, data) ==
  /\ up /\ req[h] = Idle /\ served < MaxRequests
  /\ op \in Operations
  /\ served' = served + 1
  /\ req' = [req EXCEPT ![h] = [op |-> op, at |-> point, data |-> data]]
  /\ UNCHANGED <<machine, file, wallet, up, mem, mining, form, history>>

ConfigSave(h) ==
  \E tuning \in FormTunings :
    Receive(h, "save", "snapshot", [form EXCEPT !.tuning = tuning])

SetAddress(h) ==
  \E address \in External : Receive(h, "address", "snapshot", address)

MakeWallet(h) ==
  \E phrase \in Phrases, passphrase \in Passphrases :
    Receive(h, "wallet", "wallet", <<phrase, passphrase>>)

AutoConfigureRequest(h) == Receive(h, "auto", "snapshot", machine)

ToPoint(h, point) == req' = [req EXCEPT ![h].at = point]

\* save_wallet_file(), before anything is done to the configuration.
TruncateWallet(h) ==
  /\ At(h, "wallet")
  /\ wallet' = NoWallet
  /\ ToPoint(h, "seal")
  /\ UNCHANGED <<machine, file, up, mem, mining, form, served, history>>

\* Mutant: a wallet is written in place of none, and kept otherwise.
NewWalletOnce(h) ==
  IF given = NoGift THEN Sealed(req[h].data[1], req[h].data[2]) ELSE Sealed(given[1], given[2])

\* The file that wallet_generate() and wallet_restore() make of their request.
NewWallet(h) == Sealed(req[h].data[1], req[h].data[2])

WriteWallet(h) ==
  /\ At(h, "seal")
  /\ wallet' = NewWallet(h)
  /\ ToPoint(h, "snapshot")
  /\ UNCHANGED <<machine, file, up, mem, mining, form, served, history>>

\* ConfigData::apply_to(): every setting of the form replaces that of the snapshot.
ApplyTo(c, data) == [c EXCEPT !.worker = data.worker, !.tuning = data.tuning]

\* Mutant: a change of address starts from the default configuration.
WorkerOnly(c, address) == [DefaultConfig(machine) EXCEPT !.worker = address]

SetWorker(c, address) == [c EXCEPT !.worker = address]

\* Mutant: auto_configure() writes what it recommends, and nothing else.
RecommendedOnly(c) ==
  [DefaultConfig(machine) EXCEPT !.tuning = Recommended(machine, c.tuning)]

Recommend(c) == [c EXCEPT !.tuning = Recommended(machine, @)]

\* auto_configure() starts from the file, the others from the live configuration.
Changed(r) ==
  CASE r.op = "save"    -> ApplyTo(mem, r.data)
    [] r.op = "auto"    -> Recommend(Load)
    [] r.op = "address" -> SetWorker(mem, r.data)
    [] r.op = "wallet"  -> SetWorker(mem, DeriveAddress(r.data[1]))

Snapshot(h) ==
  /\ At(h, "snapshot")
  /\ req' = [req EXCEPT ![h] = [op |-> @.op, at |-> "save", data |-> @.data,
                                config |-> Changed(@)]]
  /\ UNCHANGED <<machine, file, wallet, up, mem, mining, form, served, history>>

\* MinerConfig::save(): the file is truncated, then written.
Truncate(h) ==
  /\ At(h, "save")
  /\ file' = NoConfig
  /\ ToPoint(h, "write")
  /\ UNCHANGED <<machine, wallet, up, mem, mining, form, served, history>>

(***************************************************************************)
(* What the user is told, and what the dashboard does then: it shows the   *)
(* configuration of the answer, or fetches the live one again.             *)
(***************************************************************************)
Done(h) == req' = [req EXCEPT ![h] = Idle]

SaveAnswer(h) ==
  /\ Done(h)
  /\ form' = req[h].config /\ tuned' = req[h].config.tuning
  /\ apart' = FALSE
  /\ UNCHANGED given

AutoAnswer(h) ==
  /\ Done(h)
  /\ form' = req[h].config /\ tuned' = req[h].config.tuning
  /\ apart' = TRUE
  /\ UNCHANGED given

AddressAnswer(h) ==
  /\ Done(h)
  /\ form' = mem'
  /\ UNCHANGED <<tuned, given, apart>>

WalletAnswer(h) ==
  /\ Done(h)
  /\ form' = mem' /\ given' = req[h].data
  /\ UNCHANGED <<tuned, apart>>

ErrorAnswer(h) ==
  /\ Done(h)
  /\ UNCHANGED <<form, tuned, given, apart>>

Write(h) ==
  /\ At(h, "write")
  /\ file' = req[h].config
  /\ advised' = (req[h].op = "auto")
  /\ chosen' = IF req[h].op = "auto" THEN chosen ELSE req[h].config.worker
  /\ IF req[h].op = "auto"
       THEN AutoAnswer(h)
       ELSE ToPoint(h, "swap") /\ UNCHANGED <<form, tuned, given, apart>>
  /\ UNCHANGED <<machine, wallet, up, mem, mining, served>>

\* A save that fails is an error to the user, unless a wallet was made or restored.
SaveFails(h) ==
  /\ SavesFail
  /\ UNCHANGED <<machine, file, wallet, up, mem, mining, served, chosen, advised>>
  /\ \/ At(h, "wallet") /\ ErrorAnswer(h)
     \/ At(h, "save") /\ IF req[h].op = "wallet" THEN WalletAnswer(h) ELSE ErrorAnswer(h)

NewLive(h) == req[h].config

Swap(h) ==
  /\ At(h, "swap")
  /\ mem' = NewLive(h)
  /\ \/ req[h].op = "save" /\ SaveAnswer(h)
     \/ req[h].op = "address" /\ AddressAnswer(h)
     \/ req[h].op = "wallet" /\ WalletAnswer(h)
  /\ UNCHANGED <<machine, file, wallet, up, mining, served, chosen, advised>>

Next ==
  \/ \E flags \in Flags : Start(flags)
  \/ Stop \/ Kill \/ GenerateConfig
  \/ \E phrase \in Phrases, passphrase \in Passphrases : GenerateWallet(phrase, passphrase)
  \/ \E h \in Handlers :
       \/ ConfigSave(h) \/ SetAddress(h) \/ MakeWallet(h) \/ AutoConfigureRequest(h)
       \/ TruncateWallet(h) \/ WriteWallet(h) \/ Snapshot(h) \/ Truncate(h)
       \/ Write(h) \/ SaveFails(h) \/ Swap(h)

Spec == Init /\ [][Next]_vars

-----------------------------------------------------------------------------
(***************************************************************************)
(* A miner started after a wallet was given to the user mines for that     *)
(* wallet, even if the configuration could not be saved and whatever else  *)
(* was saved since.                                                        *)
(***************************************************************************)
GeneratedWalletMined ==
  [][(~up /\ up' /\ given # NoGift) => mining' = DeriveAddress(given[1])]_vars

(***************************************************************************)
(* Between requests the passphrase of the wallet that the user was last    *)
(* given shows its phrase, next to the address derived from it, and the    *)
(* dashboard offers to show it: no change of the settings, failure or      *)
(* restart separates the three, and no other passphrase shows it.          *)
(***************************************************************************)
PhraseKept ==
  (AllIdle /\ given # NoGift) =>
    /\ \A p \in Passphrases :
         WalletMnemonic(wallet, p) =
           IF p = given[2]
             THEN [mnemonic |-> given[1], address |-> DeriveAddress(given[1])]
             ELSE [mnemonic |-> NoPhrase, address |-> Nobody]
    /\ WalletStatus(wallet) = [address |-> DeriveAddress(given[1]), hasMnemonic |-> TRUE]

(***************************************************************************)
(* Between requests the file holds the worker of the last save that        *)
(* succeeded: auto_configure() keeps the address though it replaces the    *)
(* file, and a failed save, or a process killed anywhere but between       *)
(* truncating and writing, leaves it alone.                                *)
(***************************************************************************)
AddressKept == AllIdle => Load.worker = chosen

(***************************************************************************)
(* Between requests the file holds the tuning that the user last saw       *)
(* saved, whatever addresses and wallets were set since, and over          *)
(* restarts, unless auto_configure(), a flag of the command line or a GPU  *)
(* that is not there has set the file and the live configuration apart.    *)
(***************************************************************************)
TuningKept == (AllIdle /\ ~apart) => Load.tuning = tuned

(***************************************************************************)
(* Once auto_configure() has answered, and until another save or a change  *)
(* of the file, the optimization check finds nothing left to tune, and a   *)
(* start without flags mines on as many threads as there are performance   *)
(* cores and on every GPU that both the detection and the manager see.     *)
(***************************************************************************)
AdviceHolds ==
  (AllIdle /\ advised) =>
    LET run == StartTuning(machine, Load.tuning, NoFlags) IN
      /\ OptimizationCheck \subseteq {"noShader", "throttling"}
      /\ CpuThreads(run) = DetectPCores(machine)
      /\ MinesOnGpu(machine, run) = (DetectGpu(machine) /\ ManagerAvailable(machine))
=============================================================================
