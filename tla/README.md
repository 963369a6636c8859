# mi-miner in TLA+

Models of mi-miner, a solo Bitcoin miner in Rust, with the TLC configurations
that check them and proofs for TLAPS. Every definition is translated from the
source under `src/`; `PROJECT.json` maps each to its lines. Paths below are
relative to `src/crates/` (and `main.rs` is `src/src/main.rs`).

To repeat a check: `tlc -workers 2 -config Pool.cfg MCMiningPool`;
to repeat the one on shares: `tlc -workers 2 -config Share.cfg MCShareJourney`;
to repeat a proof: `tlapm MiningPoolProofs.tla` (`ShareJourneyProofs` takes some
minutes, the others one or less).

## 1. The system

One process. Tokio tasks talk to the pool, watch the user and serve the
dashboard; operating system threads hash. They share `MiningStats`, a record of
atomics read and written with `Relaxed` order, two `SharedWork` cells (CPU and
GPU), a channel of shares, and the live configuration.

```
            mining.notify                on_work: SharedWork::update
   pool <----------------> StratumClient ------------------------+------------+
            mining.submit        ^                               v            v
                                 |  channel of 64 shares     CPU workers   GPU thread
                                 +-------------------------------+------------+
   dashboard --HTTP--> handlers --paused, should_stop--> MiningStats --> all threads
                          |                                   ^
                          +--> LiveConfig, config.toml        | active_cpu_threads,
                               wallet.json                    | GPU intensity
   user, other programs ------------------> ActivityMonitor --+
```

| Component | State | Operations | Hard because | Correct when |
|---|---|---|---|---|
| Shared work and CPU pool (`mi-mining/src/worker.rs`, `pool.rs`) | work, generation; per worker: generation seen, job, nonce, place in four nested loops | `update`, `get_if_new`, `mining_worker`, `with_shared_work`, `shutdown` | two statements of `update` against two reads of `get_if_new`; flags read at some places only; a job replaced in mid batch | no worker misses a job, hashes another's nonces, loses or misattributes a win; stop ends all |
| Hash loops (`hasher.rs`) | nonce, countdown, unreported hashes | `hash_range_midstate`, `hash_range_simple` | three exits and a countdown that must agree; `should_stop` at any time | counts equal hashes; a range reported exhausted was tried |
| Stratum client (`mi-network/src/stratum/client.rs`, `session.rs`) | connection, extranonce1, difficulty, request id, half-read line | connect, handshake, read, submit, reconnect, stop | `select!` drops a half-read line; connections are lost at any step; ids restart | jobs are handed on with the right extranonce1 and difficulty; shares and answers are counted once |
| GPU thread (`main.rs` 286-419, `mi-gpu`) | generation seen, job, 32-bit nonce, intensity | one turn of the loop, a batch of the kernel | work read twice; two notions of batch size; wrap-around | no job missed, no nonce skipped or repeated |
| Run and statistics (`main.rs`, `mi-core/src/stats.rs`) | counters, `stats.json`, PID file | start, Ctrl+C, `--stop`, shutdown, save | threads still counting while the counters are saved; death at any step; overlapping runs | nothing counted is lost |
| Settings (`mi-core/src/live_config.rs`, `config.rs`, `wallet.rs`, `mi-web/src/routes.rs`) | `config.toml`, `wallet.json`, live config, form | save, set address, generate and restore a wallet, auto-configure, start | several copies of the same fact, updated in steps and without a common lock | what the user saved is what is used |
| Activity and throttle (`mi-activity`) | idle time, CPU load, decision | sample, decide, apply | the decision changes what it is based on | the user comes first; full power otherwise |
| Sleep inhibitor, self-check, power sampler (`mi-activity/src/platform/macos.rs`, `main.rs` 455-478, 541-559) | assertion, last state seen; previous sample | enable, disable; pause; sample | `paused` read twice; refusals not retried; a sample without a delta | the machine is awake while mining only; no energy is shown twice |
| Target arithmetic (`session.rs` 106-137, `mi-core/src/bitcoin_util.rs`) and the tests of a hash (`hasher.rs`, `shader.metal`) | none | difficulty to target; early exit, byte-wise and word-wise comparison | carries, truncation, rounding, byte order | the quotient, up to what the floats round; all tests accept the same hashes |
| Block building and submission (`block.rs`, `bitcoin_util.rs`, `session.rs`, `messages.rs`, `client.rs`) | none | template, coinbase, merkle root, header, midstate, `mining.submit` | five layouts of the same bytes, each field in an order of its own | the pool rebuilds the header that was hashed |
| Hardware detection and advice (`mi-core/src/hardware.rs`, `config.rs`, `main.rs` 113-136) | none | detect, auto-configure, check, flags and fallback | three places decide on the same facts | the advice is what the start does |
| Web server, SSE, dashboard page | none of their own | read endpoints, events | - | - |
| RPC placeholder, benchmark, Metal bindings, errors | none | - | - | - |

## 2. Modules

| Module | Models | State and actions against the code |
|---|---|---|
| `SharedWork` | `SharedWork` of `worker.rs` | `work`, `generation`; `update()` as two steps, `UpdateStore` and `UpdateBump` |
| `MiningPool` (extends it) | `mining_worker`, `MiningPool`, and the callers that set its flags | `pc[w]` is the place in the loops, `Top`, `PauseWait`, `ThrottleWait`, `LoadGeneration`, `CloneWork`, `StopCheck`, `GenCheck`, `ThrottleCheck`, `EndBatch` the statements between two accesses to shared memory; `StoreThreadCount`, `Shutdown`, `JoinAll` the owner |
| `MiningPoolProofs` | | theorems about `MiningPool` |
| `HashRange` | the hash loops | one step for the countdown and the test of `should_stop`, one for the hash |
| `HashCall` | what a caller may expect of them | the abstract specification: one step, to Found, Exhausted or Stopped |
| `HashRangeProofs` | | theorems, with the refinement of `HashCall` by `HashRange` |
| `StratumClient` | the client and its session | each branch of `select!` is an action, with the test of `should_stop` behind it; the pool and the socket are external |
| `GpuMiner` (extends `SharedWork`) | the GPU thread with its batch | one action per statement that reads shared memory |
| `Lifecycle` | a run from start to save, `--stop`, crashes | `pc[i]` is the place in `run()`; `disk` and `torn` are `stats.json` |
| `Hardware` | detection, advice, optimization check, flags and fallback | operators on a record of what the machine answers and a record of the settings that depend on it |
| `Settings` (extends it) | the handlers and commands that change settings or the wallet, the start | `req[h].at` is the place in the handler; `file`, `wallet`, `mem`, `form` are the copies; `Truncate` and `Write` are the two halves of a save, `Kill` comes between any two steps |
| `BlockHash` | coinbase, merkle trees, header, the five ways to hash a header with a nonce | operators on sequences of bytes, over a compression function of which nothing is known but that it is injective |
| `ShareTarget` (extends it) | targets and the tests of a hash | operators on sequences of digits; a difficulty is a float, and every operation of the division is rounded to the bits of a mantissa; the widths of bytes, words, digests and mantissas are constants |
| `ShareJourney` (extends it) | a job on its way to the devices, a share on its way to the pool | `Notify` is `process_notify` and `on_work`, `Find` a device, `Submit` the client's branch; `PoolHeader` is what the pool makes of a submission |
| `ActivityThrottle` | monitor, decision, application | `decision` and `unseen` are the watch channel |
| `PowerTasks` (extends it) | the same with the sleep inhibitor, the self-check and the power sampler beside it, under one `should_stop` | `phase` is the place of the inhibitor's task, `assertions` what the system holds for the process, `assertionId` what the code knows of it; `previous` is `prev_sample` |
| `GpuMinerProofs`, `LifecycleProofs`, `StratumClientProofs`, `PowerTasksProofs`, `SettingsProofs`, `ShareJourneyProofs` | | theorems about the module named, and about the ones it extends |
| `MCMiningPool`, `MCGpuMiner`, `MCLifecycle`, `MCSettings`, `MCShareJourney` | | the wins, machines, tunings and jobs of the instances that TLC checks; the symmetry of the processes |

A batch of the pool is one step in `MiningPool`; that a batch may be taken so
is what `HashRange` refining `HashCall` shows: Exhausted means all of it was
hashed, Found means nothing before the find was a win.

Definitions marked *Mutant* are faulty versions of the definition after them.
They are used by no specification; each property is checked to fail when its
mutant takes the place of the original.

### Abstractions

* A hash is a lookup in `Winning`, a fixed set of pairs of job and nonce. Jobs
  are numbered in the order of their publication.
* `Relaxed` loads and stores of single atomics are steps in some order. No
  property here depends on reads of two different atomics being seen out of
  order, except for the work and the generation, which the code orders with a
  lock and Release/Acquire.
* A turn of a loop that sleeps and polls is one step.
* A line of JSON is a tagged value. A line that was cut parses as nothing
  (`Garbage`) or is not there; the pool may send lines that do not parse as well.
* A configuration is an address and a *tuning*, the fields that depend on the
  hardware.
* Encryption is perfect: what was encrypted with a passphrase is decrypted with
  that one alone. Phrases have distinct addresses.
* In `BlockHash` the compression of SHA-256 is a free constructor: two hashes
  are equal only when the same blocks went in, in the same order. `hasher.rs`,
  `bitcoin_util.rs` and `shader.metal` each have their own; their 64 rounds are
  taken to be SHA-256 (unit tests and `validate_hasher` have the vectors).
* A float of `ShareTarget` is a fraction over a power of two, and the result of
  each operation is the nearest one whose mantissa has `Precision` bits (53 in an
  `f64`), the even one of two. There are no infinities and no subnormals. The
  conversion to `u32` saturates at both ends, the additions of `u32` wrap around.

## 3. Runs

Bounds are the constants of the `.cfg` files; each is named in its module.

A run named as violated checks a property that the documents state and the code
breaks; all others pass. The type invariants and the inductive invariants are
not in the runs: the first only catch slips of the models, the others are
proved. Every safety property that a passing run checks is a theorem as well,
but for `TargetIsNear` (section 4): the run shows what a reachable case looks
like and that a plausible bug breaks it, the theorem that it holds beyond the
bounds.

### CPU pool

| Run | Shows |
|---|---|
| `Pool` | two workers, two jobs, slices of one full batch and of one full and one cut batch, all flags toggling: `FreshWork`, `StaleBatchBound`, `WinsReported`, `QuietWhenDown`; `EachNonceOnce`: no nonce of a job is hashed by both workers, and when both are through none is left out; a stop ends every worker and `shutdown()`; every job announced, or a later one, reaches every worker, throttled ones included; `LastJobSearched`: a worker that is not throttled while it holds the current job goes through its slice of the last one, and that stays so |

Two workers are enough for what relates workers (disjointness, the remainder
slice), two jobs for a replacement, two batches per slice for a job that is
replaced in one batch and noticed before the next. A worker may hold no work,
the first job or the second, which are all the relations between its generation
and the shared one that the code can tell apart. The theorems remove the bounds.

### Hash loops

`HashRange` runs every range of five nonces, every set of wins, a check
interval of two and a stop request at any step, or before the call. The range
crosses the check interval twice and includes empty ranges and the largest
nonce. `HashesAccounted`: what a call returns and reports is what it hashed;
`StopReaction`: a stop is obeyed within one check interval; `LoopImplementsCall`
and the end of a thread that is told to stop. `ReportLag` and
`ExhaustedMeansAll` follow from `HashInv` and are proved only.

### Stratum client

| Run | Shows |
|---|---|
| `Stratum` | what the miner is given: `WorkCarriesExtranonce`, `WorkHasDifficulty`, `WholeJobPublished`, over a reconnection, with lines in pieces and reads that a submission cancels; the history variable `cut` names the kinds of lines that lost a part, and each property holds but for those it depends on |
| `StratumShares` | what becomes of the shares: the counters balance, a queued share is submitted over reconnections, a stop closes the client |
| `StratumCutNotify` (violated) | a cancelled read loses a job |

Two connections show what is carried over and what starts anew; two
difficulties and two jobs, a job before and after a change; one share is enough
to cut a line, in each connection. `StratumShares` has two shares and a channel
for one: one can be submitted while another waits, or is dropped. Two lines on
their way let a cut line be followed by a whole one; in `StratumShares` one line
at a time is enough, as the replies to shares are told apart by their ids. The
pool may send lines that do not parse at any time. A stop closes the client
unless it does so for ever.

### GPU thread

| Run | Shows |
|---|---|
| `Gpu` | the work mined is as new as the generation recorded, shares are wins of their job; stop ends the thread; each job announced is mined, or its successor |
| `GpuSkips` (violated) | below full intensity nonces are skipped |

Eight nonces are two batches, after which the nonce wraps; at a quarter of the
intensity the smallest batch (`MinBatch`) takes effect.

### Run and statistics

`Lifecycle` has two runs, one after the other or side by side, each ended by a
stop or killed, forced to exit or stopped by `--stop` at any step. The history
variable `mishaps` tells whether a run died before its save was done, or was not
alone. `SavedBalance` (never more accepted shares than submitted ones on disk)
and `SavedWorkWasDone` (no batch told of twice) hold whatever happens;
`CpuAccounted` when nothing did; `HistoryKept` unless two runs overlapped or one
died between truncating and writing (any of them, not the last: a run that starts
after such a death starts from nothing, and what it saves does not bring the
totals back); `StopFindsRun` unless runs, or a run and a
stop command, overlapped. Two runs show that totals are added once and carried
over; one batch and one share of each kind are enough to be lost or counted
twice.

### Settings

`Settings` has all requests, one at a time, on four machines: Macs where the
detection and the GPU manager both find a shader, where neither does, and where
the shader lies next to the binary, and a Linux machine. A save may fail to open
its file, the process may be killed between any two steps of a handler, commands
of the CLI come between, and the start has flags.

* `PhraseKept`: the wallet last given to the user can be read back with its
  passphrase, next to its address, and with no other passphrase.
* `GeneratedWalletMined`: the next start mines for it.
* `AddressKept`, `TuningKept`: the file holds what was last saved. The latter
  excepts runs in which auto-configuration, a flag or a missing GPU (history
  variable `apart`) has set file and live configuration apart.
* `AdviceHolds`: after auto-configuration the check of the configuration finds
  nothing to improve, and a start uses the cores and the GPU as advised.

A kill in the middle of a request gives up what the user may count on no further
than the step says: a wallet being replaced, a file truncated and not written.
Five requests, commands and starts allow start, request, stop, start and another
request after each kind of request. Two tunings from the form (GPU alone, a
little of everything), three sets of flags, two phrases, two passphrases and one
address that belongs to neither phrase: each place can hold the old value, the
new one or another's.

### Activity and power

`Activity` runs the monitor, the throttle task, the sleep inhibitor, the
self-check and the power sampler together. It has the defaults, 12 threads on 16
cores and a threshold of 50 %, so that the miner at full power is over the
threshold by itself and at half power is not, unless other programs run. A user
at work gets the minimum of threads, whatever the load; the minimum may be 0 or
larger than the pool. `FullPowerReturns`: a machine the user has left is mined on
with half of the threads at least, in the end, and if nothing else runs the miner
is at full power again and again. It does not stay there (section 5).
`SleepFollowsMining`: when mining goes on for ever the
process holds one assertion in the end, when it stays paused, or after a stop,
none; but for an assertion the system refused (`refused`), and for a change of
`paused` between the two first reads of it (`surprised`). `EnergyShownOnce`: the
readings never add up to more than the energy up to the last sample.

Two changes of `paused` are one between the two reads and one after them, or a
pause and a resume; one change of load or settings falls before or after each
decision; one unit of energy can be in the sample, before it or after it.

### Shares

| Run | Shows |
|---|---|
| `Share` | `PoolRebuildsHeader`: the pool, which knows its block and gets an extranonce2, a time and a nonce, rebuilds the header that was hashed, the merkle root of all transactions included; `HashesAgree`: the midstate loop, the plain one, the helper, and the kernel hash that header; `TestsAgree`: the early exit, the byte-wise and the word-wise comparison accept the same hashes; `TargetIsQuotient`: the long division, digits wider than a byte and carries included, gives the quotient rounded down when no operation is rounded; `TargetIsNear`: with roundings it is off by less than two units of the first digit below those of the target of difficulty 1 |
| `ShareOrder` (violated) | the hashes accepted are not those that the protocol means: the comparison starts at the wrong end of the hash |

A byte has 4 values, a word 3 bytes and a digest 3 words: the least at which a
swap of the bytes of a word, of the words, and of the whole give three different
results, and the tail of a header with its padding fits in one block, as in the
code. The nonce 27 is no palindrome. Sizes 2 and 3 of the extranonce2 are the
size of the counter and one more: with the latter the client's task panics on
submission. Three jobs have no other transaction, two (an odd tree), and a
version that does not parse. Two sessions let a share of the first be sent in
the second. A mantissa has 8 bits. The difficulties are negative, three and a
half, an eighth, whose target has a first word that is not zero and carries into
it, the float nearest to 0.7, by which the division rounds, and one (165/1024)
by which it rounds a quotient up to an integer, so that a remainder becomes
negative; those for which a quotient digit leaves the u32 are excepted
(`InRange`, see section 5). A target is compared with the hashes that first
differ from it at each digit.

### Fairness

* Workers, the GPU thread and the owner of the pool: weak fairness. They are
  operating system threads, their sleeps are finite and they hold no lock while
  waiting. An `update()` that was begun is finished; nobody has to publish,
  pause, resume or stop.
* Stratum client: weak fairness of its task at each wait (tokio polls it, timers
  fire): a connection attempt ends, the 5 s pass, and a turn of the loop ends, with
  a line, a share or the timeout (`Turn`). The timeout alone is not fair: its
  300 s start anew with each turn, so lines and shares put it off. Strong fairness
  of `Submit`, since `select!` polls its branches in random order and a waiting
  share cannot lose for ever. None for the pool.
* Activity: weak fairness of the monitor's turns and of the inhibitor's (interval
  timers), of the creation of the sampler before the first turn, and of the task
  that applies the decisions. The idle time need not grow: on Linux it is 0
  until the first input event. Nobody has to pause, resume or stop.
* `Lifecycle`, `Settings` and `ShareJourney` have safety properties only.

Deadlock is not checked where the system may stop, which all models can: a
miner that was shut down, or a bound that is reached.

## 4. Proofs

Theorems hold for every value of the constants that satisfies the assumptions of
the module. These say no more than the types and that what must be positive is
(numbers of workers, intervals, batches, the capacity of a channel); those worth
a word are named below. `PROJECT.json` "theorems" lists the results. An
invariant that a run checks is seldom inductive; what follows are the
strengthenings, and why they are needed.

**`MiningPoolProofs`.** `PoolInv` is inductive. The safety properties are not:

* `FreshWork` needs to know that the generation never runs ahead of the work
  (`GenerationCountsWork`: behind by one within `update()`, else equal) and that
  what a worker recorded it had loaded before it cloned the work
  (`KnownGenerations`).
* `StaleBatchBound` needs `StaleWorkerLeaves`: a worker with a stale batch is at
  a place from which it meets the test of the generation before the next batch.
* `EachNonceOnce` has two halves. That no nonce is hashed by two workers follows
  from `WithinSlice` and from a lemma that the slices of two workers do not meet,
  whatever the division leaves over. That none is left out when all are through
  (it was hashed, or lies behind a find in its batch) takes that the slices cover
  the nonce space (`SlicesCover`) and that a worker has searched what it has passed
  (`ThroughInv`).
* `WinsReported` is a conjunct: batch by batch the wins in what is added to
  `hashed` are what is added to `shares`.
* `QuietWhenDown` needs that the owner is down only when all workers have
  exited.

The proof that a step preserves it goes action by action, with lemmas for the
bounds of the slices, the batches and the wins in them.

**`HashRangeProofs`.** `HashInv` is inductive: `CountsAgree` relates the tally,
the reports and the position, `NoWinPassed` says that no win lies behind the
position, `CountdownBounds` bounds what is unreported by how far the countdown
is. From it follow `HashesAccounted`, `ReportLag`, `ExhaustedMeansAll` and
`LoopImplementsCall`, the refinement: the last step of the loop is a step of
`HashCall`, every other one a stutter. `StopReaction` needs `SimpleBounds` in
addition: the plain loop tests the flag at multiples of the interval, so what it
hashed since a stop is at most the remainder of what it has hashed at all.

**`GpuMinerProofs`.** `MailboxInv` ties together work, generation, the
generation recorded and the job: work is stored before the generation is raised,
and the thread records the generation before it clones the work. So the job is
at least as new as the record, and no replacement goes unnoticed.

**`LifecycleProofs`**, for any number of runs, processes, batches and shares:

* `BalanceInv` for `SavedBalance`. `save_persistent()` reads the submitted shares
  first and the accepted ones later, while the client may still count. That
  nothing goes wrong rests on what the client does after `should_stop` is set:
  it handles one more event. So what may still be added to the accepted
  shares is bounded by the replies outstanding for shares already read.
* `OriginInv` for `SavedWorkWasDone`: no copy of a counter is ahead of the work.
* `AloneInv`, `PidInv` for `StopFindsRun`: without an overlap one process is up,
  the PID file names it, and no command is about to remove the file.
* `TornInv`, `AccountInv` for `CpuAccounted`, and `HistoryInv` for `HistoryKept`:
  a truncated file has a process that is about to write it, and each of the
  places a total passes through (counter, snapshot, disk) holds it in turn.

A history variable that told only how the last run ended would make
`HistoryKept` false from the third run on, which two runs cannot show; the
attempt to prove `HistoryInv` did. `mishaps` therefore keeps what happened to any
run.

**`StratumClientProofs`**, for any number of connections, jobs, shares and lines
on their way:

* `DifficultyInv`: the lines that have not been read lead from the difficulty of
  the session to that of the pool (`LeadsTo`), each job among them with the
  difficulty it was announced under. A reconnection starts both ends from the
  same default.
* `ExtranonceInv`: the reply that assigns the extranonce1 is ahead of every job on
  the wire, or has been read.
* `JobInv`: jobs are on the wire in order, the last of them behind all others, or
  handed on when none is there.
* `AccountsInv` for `AccountsBalance` follows a share from the channel
  (`QueueInv`) to the request with its rising id (`RequestInv`), to the reply
  (`AnswerInv`) and to the counter (`BooksInv`), in one place at a time. Ids start
  anew with each connection, and only that the lines of the old one are gone by
  then keeps an answer from being counted for another request.

Each says what it says only for as long as no line of the kind was cut (`cut`),
as the properties do.

**`PowerTasksProofs`.** `DecisionInv` for `UserComesFirst`: a decision made since
the last input is the one for a user at work. It is proved of `ActivityThrottle`;
`PowerImplementsThrottle` shows that with all other tasks running every step is
one of its steps or leaves its state alone, and the result carries over.
`EnergyInv` for `EnergyShownOnce`: a failed sample moves the reference without
showing anything, never back. `AssertionInv` for `NoAssertionLeaks`, which is only
proved: the code's identifier is set exactly when the system holds one assertion.

**`SettingsProofs`**, over every machine, set of addresses, phrases, passphrases,
flags and tunings:

* `SettingsTyped`, and `AdviceHolds`, however many requests overlap. The advice
  needs no history: on every machine the recommendation, the check and the start
  take the same cores and the same GPU (`RecommendationHolds`), and a request
  that changes something else carries on what was recommended (`AdviceInv`).
* `AddressKept` for requests that overlap as well, provided auto-configuration is
  not one of them, or none overlap. It writes back a whole configuration it
  read before another request stored a new address.
* `PhraseKept`, `GeneratedWalletMined`, `TuningKept` for requests
  that do not overlap (`OneHandler`). This is a hypothesis of the theorems and
  not an assumption of the model. The handlers take no lock over their steps, and
  with two of them the invariants do not hold (section 5); the dashboard, which
  is one page and waits for each answer, is what makes the hypothesis the usual
  case. Kills between any two steps, failing saves, commands and starts are
  in the theorems.

The invariants say what `file`, `wallet` and `mem` hold between requests, and at
which points of a request which of them is behind (`WalletInv`, `TuningInv`).

**`ShareJourneyProofs`** is about data. For every base, width of words and
digests, set of jobs and difficulties:

* `TargetIsQuotient`, for the difficulties that are `Exact`: whole numbers below
  2^44 and fractions of few bits among them. There no value of the division
  exceeds a mantissa, so no operation is rounded (`FloorIsExact`,
  `RoundedIsExact`, `DividendFits`). On top of it: the invariant of the long
  division (dividend so far = quotient so far times divisor plus remainder), that
  the carries move value from one digit to the next and lose none, and that
  within `InRange` no digit leaves its u32, no sum wraps around, and the carry
  left over at the top is zero. What the roundings do to the other difficulties
  is model-checked (`TargetIsNear`).
* `TestsAgree`: comparing digit by digit from the first is comparing numbers; the
  early exit compares the first words, and a hash with a larger first word is a
  larger number, whatever the target; the kernel's words compare as their bytes
  do.
* `HashesAgree`: header and padding fill two blocks, the first of which is all
  that the midstate depends on; the byte and word swaps of the kernel and of
  `from_midstate` undo each other.
* `PoolRebuildsHeader`: `JourneyInv` says that what a device holds and what waits
  in the channel are headers of the pool's jobs, with the extranonce1 of the
  session they were built in. On top of it: folding the branches of the
  tree without the coinbase over the coinbase's hash gives the root of the whole
  tree, for every number of transactions, odd levels with their repeated last
  hash included (`BranchesLeadToRoot`); a number written as bytes reads back as
  the same number; swapping the words of the previous hash twice restores it.

Two assumptions there are facts rather than choices. `PowersOfBase` and
`PowersOfTwo` state what `^` is, for the exponents used, as tlapm knows nothing
about it; TLC evaluates them in `Share`. That the target of difficulty 1 begins
with a word of zeros is part of `ShareTargetAssumption`; those of lower
difficulties need not. It is what leaves no carry at the top in `InRange`.

These are inductions over digits, blocks, levels and branches. The library's
induction theorems take an operator and cannot be cited, so `Induction` is stated
for the set of the numbers a claim holds for, from the order of the natural
numbers being well-founded; and what a recursive function computes is stated as
a predicate on a function (`ValueSteps`, `LevelSteps`, `RootSteps`), of which there
is exactly one. The models use recursive functions where they might use folds,
since a fold of the community modules is a function of an operator.

### Only model-checked

Liveness and the fairness it rests on are out of the prover's reach:
`StopLeadsToDown`, `AnnouncedWorkFetched`, `LastJobSearched`,
`StopClosesClient`, `QueuedShareSubmitted`, `StopEndsThread`, `AnnouncedWorkMined`,
`FullPowerReturns`, `SleepFollowsMining`, and the fairness of `HashCall` in
`ImplementsCall`, of which the safety part is proved. So is `TargetIsNear`, whose
error bound would take an analysis of each rounding. The three violated runs are
counterexamples.


## 5. Where code and documents disagree

The violated runs above, with the quoted lines in `PROJECT.json` "findings".
The same models show more, which are not kept as runs:

* `MiningPool`: a worker throttled in its slice leaves it and forgets its
  nonce (`worker.rs` 125); it has recorded the generation, so that at full
  power it waits for the next job; README.md:78: "user idle + system idle =
  full power". `paused` is not read in the inner loop (`worker.rs` 114), so a
  paused worker goes on to the end of its slice; README: "Single mining thread
  with pause/stop support". After a find the rest of the batch is not hashed
  (`worker.rs` 157). A worker that fetches between the two statements of
  `update()` fetches the same work again. Workers that have gone through their
  slices wait for the pool; README: "On nonce exhaustion, the extranonce is
  incremented". The GPU thread wraps and offers the same shares again.
* `StratumClient`: a line that does not parse skips the test of `should_stop`
  and makes the 300 s timer anew (`client.rs` 124-130, 162), so that a client
  told to stop stays connected to a pool that goes on sending such lines. A
  share left over from an earlier connection can cut the reply to
  `mining.subscribe`, and every job of the connection is then built without the
  extranonce1. Each accepted share counts as a block found; comment in
  `client.rs`: "on solo pools, this IS a block find".
* `Lifecycle`: the GPU thread is not joined, and its last batch may be counted
  after the save. `--stop` sends SIGTERM, for which there is no handler: the
  counters of the run are lost. A death between truncating and writing
  `stats.json` loses the history of all runs. A run removes the PID file of
  another.
* `Settings`: `auto_configure()` saves to the file and leaves the live config
  alone (`routes.rs` 415), so that the next change of the address writes the old
  tuning back; page (index.html:584): "Detect hardware and set optimal mining
  configuration automatically". A flag of the command line, or the fallback from
  a missing GPU, reaches the file with the next save in the same way. A wallet
  file with the phrase in the clear and a network in it is taken for one without
  a phrase, and not offered for display. Nothing keeps two requests apart: with
  two `Handlers` the model shows one configuration in the file and the other in
  memory, and a setting undone by a request that began before it was saved. The
  run takes requests one at a time; what holds without that is in section 4
  (`SettingsProofs`). An address set after a wallet was made is replaced by the
  wallet's at the next start; page: "Address saved. Restart miner to use it."
* `ActivityThrottle`: the load is that of the whole system, the miner included,
  though `compute_throttle` calls it `external_cpu_pct`. With the default of 12
  threads on 16 cores it exceeds the threshold at full power and not at half
  power, and the miner swings between 12 and 6 threads on a machine that nobody
  uses; README.md:78: "user idle + system idle = full power". The threads go
  from the minimum to full power in one step; README: "Configurable ramp-up".
* `PowerTasks`: a change of `paused` between main's read of it and the task's
  leaves the assertion as main found it, until the next change; an assertion
  that was refused is not asked for again before a pause. A reading after a
  failed sample covers two seconds and is shown as the energy of one.
* `ShareJourney`: an `extranonce2_size` over 8 panics the client's task at the
  first share, and at 0 the CPU and the GPU work on the same header (`main.rs`
  251-252: "completely independent hash spaces"). A job whose version has the
  top bit set ends the connection.
* `ShareTarget`: below difficulty 2^-24 the digits of the quotient saturate at
  the largest u32 and the additions of the carries wrap around. A float just
  below an integer is rounded up to it in a quotient; the remainder is then
  negative, the next digits are -1, and `as u32` makes them 0: with difficulty
  1872.4285714285716 the target is 256^25 too large, a ten-thousandth of it. With
  most difficulties the error is that of one rounding, 2^-53 of the target.
* `Hardware`: `detect_gpu()` takes a compiler for a GPU that can be used; the
  comment there says "in the same places the GPU manager checks at runtime";
  the manager looks at the path built into the binary as well. With `gpu_only`
  and no shader the start falls back to nothing: `main.rs` 211 logs "falling
  back to CPU-only", and no thread mines. Without sysctl the default of
  threads is four cores less, the advice three quarters of them.

Read in the code, and not modelled:

* `--show-wallet` prints an empty phrase (`main.rs` 55; README.md:159), since
  the file holds it encrypted. `wallet_mnemonic` reads `wallet.json` twice,
  and may answer with the phrase of one wallet and the address of the next.

* README: "exponential backoff"; the client waits 5 s each time (`client.rs`
  60-61). README: SSE every second; it is two (`sse.rs`). README: threads are
  controlled "via crossbeam channels"; they poll an atomic.
* README on nonce distribution: the CPU and the GPU share the nonce space 90
  to 10; they work on different extranonces, each with the whole space
  (`main.rs` 250-283).
* `gpu.intensity` of the configuration is the initial value of the watch
  channel and never applied: only a *change* is (`main.rs` 482-487, 503).
* `config_save()` logs "Config saved and applied live"; threads, pool and
  worker of a running miner stay as they are.

## 6. Not modelled

* The rounds of SHA-256, the derivation of addresses, encryption: pure data
  with known test vectors, or a library.
* Infinities and subnormals of `f64`; `nbits_to_difficulty`, which is displayed
  only.
* The web server, SSE, the endpoints that only read (statistics, hardware,
  pool presets, QR code), the connection test and the benchmark, the page: no
  state that other parts depend on.
* The RPC client (a placeholder), the Metal bindings and the build of the
  shader, the idle clocks of the platforms, the hashrate shown each second,
  logging.
* `daemonize()`: see the plan.

## 7. Plan

Written in this order, the most important behaviour first: `SharedWork`,
`MiningPool`, its proofs, `HashRange` with `HashCall` and the refinement,
`StratumClient`, `GpuMiner`, `Lifecycle`, `Settings`, `ActivityThrottle`; then
`PowerTasks`, `Hardware`, `BlockHash`, `ShareTarget`, `ShareJourney`; then the
proofs of every safety property. To come:

1. Proofs: `SharedWork` as an implementation of a register with a version, and
   `MiningPool` and `GpuMiner` as users of it; that a batch of `MiningPool` is a
   call of `HashCall`.
2. `AddressKept` and its neighbours under the weakest condition on overlapping
   requests that the handlers satisfy.
3. `Miner`: a composition of `SharedWork` for the CPU and the GPU with the client
   and the channel.
4. `Lifecycle` with `daemonize()`.
