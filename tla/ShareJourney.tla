---------------------------- MODULE ShareJourney ----------------------------
(***************************************************************************)
(* A share from the pool and back: the session turns a mining.notify into  *)
(* a template (session.rs), on_work builds a header for each device        *)
(* (main.rs, block.rs), a device finds a nonce, the client submits it      *)
(* (client.rs), and the pool rebuilds the header from what it is told.     *)
(*                                                                         *)
(* The pool's own view is modelled from the protocol the code speaks.  The *)
(* two updates of on_work are one step: MiningPool and GpuMiner show what  *)
(* each device makes of its own.                                           *)
(***************************************************************************)
EXTENDS ShareTarget

CONSTANTS
  Jobs,           \* the jobs of the pool, a sequence of records
  Difficulties,   \* the difficulties it may set
  Sizes,          \* the extranonce2 sizes it may ask for
  Nonces,         \* the nonces that may win
  MaxSessions,    \* bound on connections
  QueueCap        \* bound on waiting shares (64 in the code)

ASSUME ShareJourneyAssumption ==
  /\ Jobs \in Seq([version   : 0 .. MaxU32,
                   prevHash  : [1 .. DigestLen -> Digits],
                   coinbase1 : Seq(Digits),
                   coinbase2 : Seq(Digits),
                   others    : Seq([1 .. DigestLen -> Digits]),
                   bits      : 0 .. MaxU32,
                   timestamp : 0 .. MaxU32])
  /\ Sizes \subseteq Nat
  /\ \A d \in Difficulties : IsFloat(d)
  /\ Nonces \subseteq 0 .. MaxU32
  /\ MaxSessions \in Nat \ {0} /\ QueueCap \in Nat \ {0}

VARIABLES
  session,        \* the number of the connection
  online,         \* it is up
  extranonce1,    \* of the session
  size,           \* extranonce2_size
  difficulty,     \* current_difficulty
  work,           \* the Work of each device, or NoWork
  queue,          \* the channel of shares found
  sent,           \* the last share submitted, or NoShare
  panicked        \* the client's task has panicked

vars == <<session, online, extranonce1, size, difficulty, work, queue, sent, panicked>>

Devices == {"cpu", "gpu"}
NoWork  == [job |-> 0]
NoShare == [session |-> 0]

Init ==
  /\ session = 0 /\ online = FALSE
  /\ extranonce1 = <<>> /\ size = 0
  /\ difficulty = <<1, 1>>
  /\ work = [d \in Devices |-> NoWork]
  /\ queue = <<>>
  /\ sent = NoShare
  /\ panicked = FALSE

-----------------------------------------------------------------------------
\* The extranonce1 the pool gives to a connection, in its answer to mining.subscribe.
Extranonce1(s) == Lit(<<Base - 1, s>>)

SubscribeAnswer(s, n) == <<{}, Extranonce1(s), n>>

\* SubscribeResult::from_result()
FromResult(result) == [extranonce1 |-> result[2], size |-> result[3]]

(* A connection whose subscription was answered: a new session, with the   *)
(* extranonce1 and the size the pool chose and difficulty 1.  Both devices *)
(* go on with the work they have.                                          *)
Connect(n) ==
  LET answer == FromResult(SubscribeAnswer(session + 1, n))
  IN  /\ ~panicked
      /\ session < MaxSessions
      /\ session' = session + 1
      /\ online' = TRUE
      /\ extranonce1' = answer.extranonce1
      /\ size' = answer.size
      /\ difficulty' = <<1, 1>>
      /\ UNCHANGED <<work, queue, sent, panicked>>

ConnectionLost ==
  /\ online
  /\ online' = FALSE
  /\ UNCHANGED <<session, extranonce1, size, difficulty, work, queue, sent, panicked>>

SetDifficulty(d) ==
  /\ online
  /\ difficulty' = d
  /\ UNCHANGED <<session, online, extranonce1, size, work, queue, sent, panicked>>

\* The previous hash as announced: the bytes of each word are reversed.
SwapWords(bytes) == FlattenSeq([i \in 1 .. DigestWords |-> Reverse(Words(bytes)[i])])

\* The hashes of a block's other transactions.
Others(job) == [i \in DOMAIN job.others |-> Lit(job.others[i])]

(* The branches a pool sends with a job: the hashes that the one of the    *)
(* coinbase meets on its way up the tree.                                  *)
Branches(others) ==
  LET level[i \in 0 .. Len(others)] ==
        IF i = 0 THEN [branches |-> <<>>, rest |-> others]
        ELSE IF level[i - 1].rest = <<>> THEN level[i - 1]
        ELSE [branches |-> Append(level[i - 1].branches, Head(level[i - 1].rest)),
              rest     |-> NextLevel(Tail(level[i - 1].rest))]
  IN  level[Len(others)].branches

\* The parameters of its mining.notify.
Announced(j) ==
  LET job == Jobs[j]
  IN  <<j, SwapWords(Lit(job.prevHash)), Lit(job.coinbase1), Lit(job.coinbase2),
        Branches(Others(job)), job.version, job.bits, job.timestamp, TRUE>>

\* MiningNotify::from_params()
FromParams(params) ==
  [jobId |-> params[1], prevHash |-> params[2], coinbase1 |-> params[3],
   coinbase2 |-> params[4], branches |-> params[5], version |-> params[6],
   nbits |-> params[7], ntime |-> params[8]]

Template(notify) ==
  [jobId      |-> notify.jobId,
   version    |-> notify.version,
   prevHash   |-> SwapWords(notify.prevHash),
   coinbase1  |-> notify.coinbase1 \o extranonce1,
   coinbase2  |-> notify.coinbase2,
   branches   |-> notify.branches,
   bits       |-> notify.nbits,
   timestamp  |-> notify.ntime,
   extranonceSize |-> size]

\* A version that sets the top bit does not parse as an i32.
VersionParses(version) == version <= MaxU32 \div 2

Extranonce2(device) == IF device = "cpu" THEN 0 ELSE 1

(* on_work.  The fields from session on are history.                       *)
WorkOf(device, template) ==
  [job        |-> template.jobId,
   header     |-> BuildHeader(template, Extranonce2(device)),
   target     |-> DifficultyToTarget(difficulty),
   extranonce |-> Extranonce2(device),
   ntime      |-> ToBE(template.timestamp, WordLen),
   session    |-> session,
   size       |-> size,
   difficulty |-> difficulty]

(* A notify that the session cannot process ends the connection.           *)
Notify(j) ==
  /\ online
  /\ LET notify == FromParams(Announced(j))
     IN  IF VersionParses(notify.version)
           THEN /\ work' = [d \in Devices |-> WorkOf(d, Template(notify))]
                /\ UNCHANGED online
           ELSE online' = FALSE /\ UNCHANGED work
  /\ UNCHANGED <<session, extranonce1, size, difficulty, queue, sent, panicked>>

-----------------------------------------------------------------------------
(* A device finds a nonce whose hash passes its test: which ones do is up  *)
(* to SHA-256.  The header hashed and the session it was mined in are      *)
(* history.  A share that finds the queue full is dropped.                 *)
Find(device, nonce) ==
  LET w == work[device]
  IN  /\ w # NoWork
      /\ Len(queue) < QueueCap
      /\ queue' = Append(queue,
           [job        |-> w.job,
            extranonce |-> w.extranonce,
            ntime      |-> w.ntime,
            nonce      |-> nonce,
            hashed     |-> WithNonce(w.header, nonce),
            session    |-> w.session])
      /\ UNCHANGED <<session, online, extranonce1, size, difficulty, work, sent, panicked>>

-----------------------------------------------------------------------------
\* Mutant: the extranonce2 is sent most significant byte first.
SentExtranonceBE(share) == ToBE(share.extranonce, size)

SentExtranonce(share) == SubSeq(ToLE(share.extranonce, CounterLen), 1, size)

\* The parameters of mining.submit.
BuildSubmit(share) ==
  <<"worker", share.job, SentExtranonce(share), share.ntime, ToBE(share.nonce, WordLen)>>

(* The share is sent under the session of now, whichever it was mined in.  *)
(* The slice of the counter panics when the pool's size exceeds it.        *)
Submit ==
  /\ online
  /\ queue # <<>>
  /\ queue' = Tail(queue)
  /\ IF size > CounterLen
       THEN panicked' = TRUE /\ online' = FALSE /\ UNCHANGED sent
       ELSE /\ sent' = [params  |-> BuildSubmit(Head(queue)),
                        session |-> session,
                        share   |-> Head(queue)]
            /\ UNCHANGED <<online, panicked>>
  /\ UNCHANGED <<session, extranonce1, size, difficulty, work>>

Next ==
  \/ \E n \in Sizes : Connect(n)
  \/ ConnectionLost
  \/ \E d \in Difficulties : SetDifficulty(d)
  \/ \E j \in DOMAIN Jobs : Notify(j)
  \/ \E device \in Devices, nonce \in Nonces : Find(device, nonce)
  \/ Submit

Spec == Init /\ [][Next]_vars

-----------------------------------------------------------------------------
\* The number that bytes written most significant first stand for.
FromBE(bytes) == Value([i \in DOMAIN bytes |-> bytes[i][1]])

(* The header of the block the pool made the job of: its transactions are  *)
(* the coinbase, with the extranonce1 of the connection and the submitted  *)
(* extranonce2, and the others.                                            *)
PoolHeader(s) ==
  LET job == Jobs[s.params[2]]
      coinbase == Lit(job.coinbase1) \o Extranonce1(s.session)
                    \o s.params[3] \o Lit(job.coinbase2)
  IN  Serialize([version    |-> job.version,
                 prevHash   |-> Lit(job.prevHash),
                 merkleRoot |-> ComputeMerkleRoot(<<Sha256d(coinbase)>> \o Others(job)),
                 timestamp  |-> FromBE(s.params[4]),
                 bits       |-> job.bits,
                 nonce      |-> FromBE(s.params[5])])

(* A share submitted in the session it was mined in names the very header  *)
(* that was hashed: the pool, which knows its block and is sent an         *)
(* extranonce2, a time and a nonce, rebuilds it byte for byte, the root of *)
(* the tree of all the transactions included (build_header, which folds    *)
(* branches, against compute_merkle_root and the submission).              *)
PoolRebuildsHeader ==
  sent # NoShare /\ sent.session = sent.share.session
    => PoolHeader(sent) = sent.share.hashed

(* The midstate loop, the plain loop, the helper on a midstate and the     *)
(* Metal kernel compute the double SHA-256 of the same 80 bytes, which is  *)
(* the hash of the header with that nonce.                                 *)
HashesAgree ==
  \A device \in Devices : work[device] # NoWork =>
    \A nonce \in Nonces :
      LET header == work[device].header
          hash   == Sha256d(WithNonce(header, nonce))
      IN  /\ MidstateHash(header, nonce) = hash
          /\ SimpleHash(header, nonce) = hash
          /\ Sha256dFromMidstate(Midstate(header), Tail16(WithNonce(header, nonce))) = hash
          /\ GpuHash(header, nonce) = hash

(* The hashes worth trying against a target: those that first differ from  *)
(* it at digit i, and go on with the lowest or the highest one to the end. *)
Probes(target) ==
  {target} \cup
  {[k \in 1 .. DigestLen |-> IF k < i THEN target[k] ELSE IF k = i THEN x ELSE y] :
     i \in 1 .. DigestLen, x \in Digits, y \in {0, Base - 1}}

TargetsHeld == {work[d].target : d \in {e \in Devices : work[e] # NoWork}}

(* The early exit and the comparison of the CPU loop, the comparison       *)
(* alone and the word-wise one of the kernel accept the same hashes: those *)
(* that, read as big-endian numbers, do not exceed the target.             *)
TestsAgree ==
  \A target \in TargetsHeld :
    \A hash \in Probes(target) :
      LET low == Value(hash) <= Value(target)
      IN  /\ MeetsTargetBE(hash, target) <=> low
          /\ CpuAccepts(hash, target) <=> low
          /\ GpuAccepts(hash, target) <=> low

(* The difficulties whose quotient digits stay well inside a u32: those of *)
(* at least 2^-23 in the code.                                             *)
InRange(d) ==
  /\ d[1] > 0
  /\ 2 * (Base * d[1] + (Base - 1) * d[2]) <= MaxU32 * d[1]

(* The difficulties whose division is never rounded: those with few bits,  *)
(* as every whole number below 2^44 and every k / 1024 below 2^34.         *)
Exact(d) ==
  /\ Base * (d[1] - 1) + (Base - 1) * d[2] < Mantissas
  /\ Mantissas * d[1] <= 2 ^ MaxExponent

\* The target of difficulty 1 divided by the difficulty, rounded down.
Quotient(d) == (Value(Diff1Target) * d[2]) \div d[1]

(* For these the long division of difficulty_to_target, digits, carries    *)
(* and all, yields the target of difficulty 1 divided by the difficulty.   *)
TargetIsQuotient ==
  \A device \in Devices : work[device] # NoWork =>
    LET d == work[device].difficulty
    IN  InRange(d) /\ Exact(d) => Value(work[device].target) = Quotient(d)

(* For the others the roundings of its floats, which the next digit        *)
(* multiplies by the base, the quotients rounded up and the negative ones  *)
(* cut off at zero leave the target within two units of the first digit    *)
(* below those of the target of difficulty 1.                              *)
TargetIsNear ==
  \A device \in Devices : work[device] # NoWork =>
    LET d == work[device].difficulty
    IN  InRange(d) =>
          Magnitude(Value(work[device].target) - Quotient(d))
            < 2 * Base ^ (Diff1Exponent - 4)

(* A hash as a number, in the protocol: its last byte is the most          *)
(* significant one.                                                        *)
HashValue(hash) == Value(Reverse(hash))

(* A hash that the CPU loop takes for a share is low enough for the pool   *)
(* (meets_target_be against the byte order validate_hasher expects).       *)
FoundIsLowEnough ==
  \A target \in TargetsHeld :
    \A hash \in Probes(target) :
      CpuAccepts(hash, target) => HashValue(hash) <= Value(target)
=============================================================================
