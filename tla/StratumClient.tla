--------------------------- MODULE StratumClient ----------------------------
(***************************************************************************)
(* The Stratum v1 client: crates/mi-network/src/stratum/client.rs and      *)
(* session.rs.                                                             *)
(*                                                                         *)
(* One asynchronous task connects, subscribes and authorizes, and then     *)
(* waits in a select! for the next line from the pool, the next share from *)
(* the miner or a 300 s timeout, whichever comes first.  The bodies of its *)
(* branches do not interleave with anything that touches the session, so   *)
(* each is one step, together with the test of should_stop after it.  What *)
(* does interleave is the socket, the channel of shares and the stop flag. *)
(*                                                                         *)
(* A branch that wins the select! drops the other futures.  read_line() is *)
(* not cancellation safe: the bytes of an unfinished line that it has      *)
(* taken from the socket are lost, and what comes of the rest of that line *)
(* does not parse.  The pool and the miner are external; the connections   *)
(* are numbered, and the number stands for the extranonce1 that the pool   *)
(* assigns to the connection.                                              *)
(***************************************************************************)
EXTENDS Naturals, Sequences, FiniteSets

CONSTANTS
  ChannelCap,      \* capacity of the submission channel, 64 in main.rs
  Difficulties,    \* the difficulties a pool may set
  MaxConns,        \* bound: connections made
  MaxJobs,         \* bound: jobs announced per connection
  MaxShares,       \* bound: shares found
  WireCap          \* bound: lines on their way to the client

DefaultDifficulty == 1

ASSUME StratumAssumption ==
  /\ ChannelCap \in Nat \ {0}
  /\ DefaultDifficulty \in Difficulties
  /\ MaxConns \in Nat /\ MaxJobs \in Nat /\ MaxShares \in Nat
  /\ WireCap \in Nat \ {0}

VARIABLES
  phase,      \* where the task is: connecting, open, waiting, closed
  conn,       \* number of connections made
  session,    \* StratumSession: extranonce1 and current_difficulty
  reqId,      \* request_id, the id of the next request
  partial,    \* read_line() holds a part of the first line of toClient
  toPool,     \* requests the pool has not answered
  toClient,   \* lines the client has not read
  pool,       \* the pool's end: up, subscribed, difficulty, last job
  queue,      \* the submission channel
  work,       \* the last work passed to on_work
  stop,       \* stats.should_stop
  stats,      \* the share counters of MiningStats
  fate,       \* history: what became of each share
  cut         \* history: the kinds of the lines that lost a part

wire   == <<toPool, toClient, partial>>
client == <<conn, session, reqId>>
miner  == <<queue, fate>>
vars   == <<phase, client, wire, pool, miner, work, stop, stats, cut>>

Shares  == 1 .. MaxShares
NoExtranonce == 0
NoJob   == 0
NoWork  == [conn |-> 0, job |-> NoJob, en1 |-> NoExtranonce,
            diff |-> DefaultDifficulty, due |-> DefaultDifficulty]
NewSession == [en1 |-> NoExtranonce, diff |-> DefaultDifficulty]

Verdicts == {"ok", "error", "false"}

(* Requests: ids 1 and 2 are mining.subscribe and mining.authorize.        *)
Request(id, share) == [id |-> id, share |-> share]
NoShare == 0

(* Lines from the pool.                                                    *)
Reply(id, verdict)  == [kind |-> "reply", id |-> id, verdict |-> verdict]
Notify(job, diff)   == [kind |-> "notify", job |-> job, diff |-> diff]
SetDifficulty(diff) == [kind |-> "difficulty", diff |-> diff]
Malformed           == [kind |-> "malformed"]
Garbage             == [kind |-> "garbage"]

Lines ==
  [kind : {"reply"}, id : 1 .. 2 + MaxShares, verdict : Verdicts]
  \cup [kind : {"notify"}, job : 1 .. MaxJobs, diff : Difficulties]
  \cup [kind : {"difficulty"}, diff : Difficulties]
  \cup {Malformed, Garbage}

TypeOK ==
  /\ phase \in {"connecting", "open", "waiting", "closed"}
  /\ conn \in 0 .. MaxConns
  /\ session \in [en1 : 0 .. MaxConns, diff : Difficulties]
  /\ reqId \in 1 .. 3 + MaxShares
  /\ partial \in BOOLEAN
  /\ toPool \in Seq([id : 1 .. 2 + MaxShares, share : Shares \cup {NoShare}])
  /\ toClient \in Seq(Lines)
  /\ pool \in [up : BOOLEAN, subscribed : BOOLEAN, diff : Difficulties,
               job : 0 .. MaxJobs]
  /\ queue \in Seq(Shares)
  /\ work \in [conn : 0 .. MaxConns, job : 0 .. MaxJobs, en1 : 0 .. MaxConns,
               diff : Difficulties, due : Difficulties]
  /\ stop \in BOOLEAN
  /\ stats \in [submitted : Nat, accepted : Nat, rejected : Nat, blocks : Nat]
  /\ fate \in [Shares -> {"unfound", "dropped", "queued", "sent"} \cup Verdicts]
  /\ cut \subseteq {line.kind : line \in Lines}

Init ==
  /\ phase = "connecting"
  /\ conn = 0
  /\ session = NewSession
  /\ reqId = 1
  /\ partial = FALSE
  /\ toPool = <<>>
  /\ toClient = <<>>
  /\ pool = [up |-> FALSE, subscribed |-> FALSE, diff |-> DefaultDifficulty,
             job |-> NoJob]
  /\ queue = <<>>
  /\ work = NoWork
  /\ stop = FALSE
  /\ stats = [submitted |-> 0, accepted |-> 0, rejected |-> 0, blocks |-> 0]
  /\ fate = [s \in Shares |-> "unfound"]
  /\ cut = {}

-----------------------------------------------------------------------------
(* The end of connect_and_run(): after each event of the loop, and when a  *)
(* connection fails, should_stop decides.                                  *)

AfterEvent == phase' = IF stop THEN "closed" ELSE "open"

Fail == phase' = IF stop THEN "closed" ELSE "waiting"

(* A new connection has a session of its own; mining.subscribe and         *)
(* mining.authorize are written before anything is read.                   *)
Connect ==
  /\ phase = "connecting"
  /\ conn < MaxConns
  /\ phase' = "open"
  /\ conn' = conn + 1
  /\ session' = NewSession
  /\ reqId' = 3
  /\ partial' = FALSE
  /\ toPool' = <<Request(1, NoShare), Request(2, NoShare)>>
  /\ toClient' = <<>>
  /\ pool' = [up |-> TRUE, subscribed |-> FALSE, diff |-> DefaultDifficulty,
              job |-> NoJob]
  /\ UNCHANGED <<miner, work, stop, stats, cut>>

\* Mutant: a failed connection attempt is always retried.
ConnectFailsForever ==
  /\ phase = "connecting"
  /\ phase' = "waiting"
  /\ UNCHANGED <<client, wire, pool, miner, work, stop, stats, cut>>

ConnectFails ==
  /\ phase = "connecting"
  /\ Fail
  /\ UNCHANGED <<client, wire, pool, miner, work, stop, stats, cut>>

(* The fixed 5 s pause before the next attempt; should_stop is not read.   *)
Wake ==
  /\ phase = "waiting"
  /\ phase' = "connecting"
  /\ UNCHANGED <<client, wire, pool, miner, work, stop, stats, cut>>

-----------------------------------------------------------------------------
(* The loop: a line is read.                                               *)

(* The first bytes of a line arrive and read_line() takes them.            *)
Segment ==
  /\ phase = "open"
  /\ toClient # <<>>
  /\ ~partial
  /\ partial' = TRUE
  /\ UNCHANGED <<phase, client, toPool, toClient, pool, miner, work, stop, stats, cut>>

Read(kind) ==
  /\ phase = "open"
  /\ toClient # <<>>
  /\ Head(toClient).kind = kind
  /\ toClient' = Tail(toClient)
  /\ partial' = FALSE
  /\ UNCHANGED <<toPool, pool, miner, stop, cut>>

(* What does not parse, cut or sent so, is skipped, and the test of        *)
(* should_stop with it.                                                    *)
ReadGarbage ==
  /\ Read("garbage")
  /\ UNCHANGED <<phase, client, work, stats>>

(* A notify or a subscribe result of the wrong form ends the connection.   *)
ReadMalformed ==
  /\ Read("malformed")
  /\ Fail
  /\ UNCHANGED <<client, work, stats>>

\* Mutant: a difficulty waits for the connection's first job.
ReadDifficultyAfterJob ==
  /\ Read("difficulty")
  /\ session' = IF work.conn = conn
                  THEN [session EXCEPT !.diff = Head(toClient).diff]
                  ELSE session
  /\ AfterEvent
  /\ UNCHANGED <<conn, reqId, work, stats>>

ReadDifficulty ==
  /\ Read("difficulty")
  /\ session' = [session EXCEPT !.diff = Head(toClient).diff]
  /\ AfterEvent
  /\ UNCHANGED <<conn, reqId, work, stats>>

(* process_notify(): the template is built with the session's extranonce1, *)
(* and comes with the target of the session's difficulty.  The field due   *)
(* is history: the difficulty the pool meant for the job.                  *)
NewWork(line) ==
  [conn |-> conn, job |-> line.job, en1 |-> session.en1,
   diff |-> session.diff, due |-> line.diff]

\* Mutant: only the first job of a connection is handed on.
ReadNotifyOnce ==
  /\ Read("notify")
  /\ work' = IF work.conn = conn THEN work ELSE NewWork(Head(toClient))
  /\ AfterEvent
  /\ UNCHANGED <<client, stats>>

\* on_work hands the job on.
ReadNotify ==
  /\ Read("notify")
  /\ work' = NewWork(Head(toClient))
  /\ AfterEvent
  /\ UNCHANGED <<client, stats>>

\* Mutant: the reply to mining.subscribe is only logged.
SubscribeReplyLogged ==
  /\ Read("reply")
  /\ Head(toClient).id = 1
  /\ AfterEvent
  /\ UNCHANGED <<client, work, stats>>

SetExtranonce(id) == [session EXCEPT !.en1 = id]

(* A reply to mining.subscribe sets the extranonce1; one to                *)
(* mining.authorize is only logged; any other answers a share.  A result   *)
(* false that is not an error counts for nothing.                          *)
SubscribeReply ==
  /\ Read("reply")
  /\ Head(toClient).id = 1
  /\ session' = IF Head(toClient).verdict = "ok"
                  THEN SetExtranonce(conn) ELSE session
  /\ AfterEvent
  /\ UNCHANGED <<conn, reqId, work, stats>>

IsShareId(id) == id >= 3

AuthorizeReply ==
  /\ Read("reply")
  /\ Head(toClient).id = 2 /\ ~IsShareId(2)
  /\ AfterEvent
  /\ UNCHANGED <<client, work, stats>>

ShareReply ==
  /\ Read("reply")
  /\ IsShareId(Head(toClient).id)
  /\ \/ /\ Head(toClient).verdict = "ok"
        /\ stats' = [stats EXCEPT !.accepted = @ + 1, !.blocks = @ + 1]
     \/ /\ Head(toClient).verdict = "error"
        /\ stats' = [stats EXCEPT !.rejected = @ + 1]
     \/ /\ Head(toClient).verdict = "false"
        /\ UNCHANGED stats
  /\ AfterEvent
  /\ UNCHANGED <<client, work>>

\* Mutant: a connection closed by the pool ends the client.
LostForGood ==
  /\ phase = "open"
  /\ ~pool.up
  /\ phase' = "closed"
  /\ UNCHANGED <<client, wire, pool, miner, work, stop, stats, cut>>

(* End of file, or a read error, after the pool closed the connection.     *)
ConnectionLost ==
  /\ phase = "open"
  /\ ~pool.up
  /\ Fail
  /\ UNCHANGED <<client, wire, pool, miner, work, stop, stats, cut>>

(* 300 s without a line or a share.  The timer is made anew for each turn  *)
(* of the loop: every line and every share puts the timeout off.           *)
Timeout ==
  /\ phase = "open"
  /\ Fail
  /\ UNCHANGED <<client, wire, pool, miner, work, stop, stats, cut>>

-----------------------------------------------------------------------------
(* The loop: a share is taken from the channel.  The line being read loses *)
(* its first part.  The request is counted before it is written, and the   *)
(* write may fail once the pool has closed the connection.                 *)

CancelRead ==
  /\ partial' = FALSE
  /\ IF partial
       THEN /\ toClient' = [toClient EXCEPT ![1] = Garbage]
            /\ cut' = cut \cup {Head(toClient).kind}
       ELSE UNCHANGED <<toClient, cut>>

\* Mutant: a share whose write failed stays in the channel.
SubmitRequeues ==
  /\ phase = "open"
  /\ queue # <<>>
  /\ fate' = [fate EXCEPT ![Head(queue)] = "sent"]
  /\ CancelRead
  /\ reqId' = reqId + 1
  /\ stats' = [stats EXCEPT !.submitted = @ + 1]
  /\ \/ /\ toPool' = Append(toPool, Request(reqId, Head(queue)))
        /\ queue' = Tail(queue)
        /\ AfterEvent
     \/ /\ ~pool.up
        /\ Fail
        /\ UNCHANGED <<toPool, queue>>
  /\ UNCHANGED <<conn, session, pool, work, stop>>

Submit ==
  /\ phase = "open"
  /\ queue # <<>>
  /\ queue' = Tail(queue)
  /\ fate' = [fate EXCEPT ![Head(queue)] = "sent"]
  /\ CancelRead
  /\ reqId' = reqId + 1
  /\ stats' = [stats EXCEPT !.submitted = @ + 1]
  /\ \/ /\ toPool' = Append(toPool, Request(reqId, Head(queue)))
        /\ AfterEvent
     \/ /\ ~pool.up
        /\ Fail
        /\ UNCHANGED toPool
  /\ UNCHANGED <<conn, session, pool, work, stop>>

-----------------------------------------------------------------------------
(* The miner, external: on_found of main.rs offers a share with try_send,  *)
(* which drops it when the channel is full, or closed with the client.     *)

Find(s) ==
  /\ work # NoWork
  /\ fate[s] = "unfound"
  /\ \A t \in 1 .. s - 1 : fate[t] # "unfound"
  /\ IF Len(queue) < ChannelCap /\ phase # "closed"
       THEN /\ queue' = Append(queue, s)
            /\ fate' = [fate EXCEPT ![s] = "queued"]
       ELSE /\ fate' = [fate EXCEPT ![s] = "dropped"]
            /\ UNCHANGED queue
  /\ UNCHANGED <<phase, client, wire, pool, work, stop, stats, cut>>

RequestStop ==
  /\ ~stop
  /\ stop' = TRUE
  /\ UNCHANGED <<phase, client, wire, pool, miner, work, stats, cut>>

-----------------------------------------------------------------------------
(* The pool, external.  It answers requests in order, announces jobs to a  *)
(* subscribed client, and may close the connection.  A change of           *)
(* difficulty is for the jobs announced after it.                          *)

PoolUp == phase = "open" /\ pool.up

Send(line) ==
  /\ PoolUp
  /\ Len(toClient) < WireCap
  /\ toClient' = Append(toClient, line)

PoolAnswers ==
  /\ toPool # <<>>
  /\ \E verdict \in Verdicts :
       /\ Head(toPool).id = 1 => verdict = "ok"
       /\ Send(Reply(Head(toPool).id, verdict))
       /\ fate' = IF Head(toPool).share = NoShare THEN fate
                  ELSE [fate EXCEPT ![Head(toPool).share] = verdict]
  /\ toPool' = Tail(toPool)
  /\ pool' = [pool EXCEPT !.subscribed = TRUE]
  /\ UNCHANGED <<phase, client, partial, queue, work, stop, stats, cut>>

PoolNotifies ==
  /\ pool.subscribed
  /\ pool.job < MaxJobs
  /\ Send(Notify(pool.job + 1, pool.diff))
  /\ pool' = [pool EXCEPT !.job = @ + 1]
  /\ UNCHANGED <<phase, client, partial, toPool, miner, work, stop, stats, cut>>

PoolSetsDifficulty ==
  /\ pool.subscribed
  /\ \E diff \in Difficulties \ {pool.diff} :
       /\ Send(SetDifficulty(diff))
       /\ pool' = [pool EXCEPT !.diff = diff]
  /\ UNCHANGED <<phase, client, partial, toPool, miner, work, stop, stats, cut>>

PoolSendsMalformed ==
  /\ Send(Malformed)
  /\ UNCHANGED <<phase, client, partial, toPool, pool, miner, work, stop, stats, cut>>

PoolSendsGarbage ==
  /\ Send(Garbage)
  /\ UNCHANGED <<phase, client, partial, toPool, pool, miner, work, stop, stats, cut>>

PoolCloses ==
  /\ PoolUp
  /\ pool' = [pool EXCEPT !.up = FALSE]
  /\ UNCHANGED <<phase, client, wire, miner, work, stop, stats, cut>>

-----------------------------------------------------------------------------
ReadNext ==
  \/ ReadGarbage \/ ReadMalformed \/ ReadDifficulty \/ ReadNotify
  \/ SubscribeReply \/ AuthorizeReply \/ ShareReply \/ ConnectionLost

\* One turn of the loop: the branch of select! that was ready first.
Turn == ReadNext \/ Submit \/ Timeout

Client == Connect \/ ConnectFails \/ Wake \/ Turn

Pool ==
  \/ PoolAnswers \/ PoolNotifies \/ PoolSetsDifficulty
  \/ PoolSendsMalformed \/ PoolSendsGarbage \/ PoolCloses

Next == Client \/ Segment \/ (\E s \in Shares : Find(s)) \/ RequestStop \/ Pool

(***************************************************************************)
(* The runtime polls the task: a connection attempt ends, the 5 s pass, a  *)
(* turn of the loop ends with a line, a share or after 300 s of silence;   *)
(* with which of them is not said, as lines and shares put the timeout     *)
(* off.  select! polls its branches in random order, so a share that waits *)
(* is taken in the end even if lines keep arriving: strong fairness.  The  *)
(* pool owes nothing.                                                      *)
(***************************************************************************)
Fairness ==
  /\ WF_vars(Connect \/ ConnectFails)
  /\ WF_vars(Wake)
  /\ WF_vars(Turn)
  /\ SF_vars(Submit)

Spec == Init /\ [][Next]_vars /\ Fairness

-----------------------------------------------------------------------------
(* Safety.                                                                 *)

CountOf(verdict) == Cardinality({s \in Shares : fate[s] = verdict})

(* The counters of the dashboard against what happened, whatever became of *)
(* the connections: each share written or lost in the write was submitted  *)
(* once, no answer of the pool is counted twice, or as something else, and *)
(* a client that has read all its first connection sent has missed none    *)
(* but those whose reply was cut.                                          *)
AccountsBalance ==
  /\ stats.submitted =
       Cardinality({s \in Shares : fate[s] \in {"sent"} \cup Verdicts})
  /\ stats.accepted <= CountOf("ok")
  /\ stats.rejected <= CountOf("error")
  /\ (conn = 1 /\ phase = "open" /\ toClient = <<>> /\ "reply" \notin cut) =>
       stats.accepted = CountOf("ok") /\ stats.rejected = CountOf("error")

(* "Build coinbase with extranonce1 prepended" (session.rs): the work      *)
(* handed to the miner is built with the extranonce1 that the pool         *)
(* assigned to the connection the job came from, unless the reply with it  *)
(* may have been lost.                                                     *)
WorkCarriesExtranonce ==
  (work # NoWork /\ "reply" \notin cut) => work.en1 = work.conn

(* The target of a work is that of the difficulty in force when the pool   *)
(* announced the job, across reconnections as well, unless a change of     *)
(* difficulty was lost.                                                    *)
WorkHasDifficulty == "difficulty" \notin cut => work.diff = work.due

(* on_work is called "whenever new mining work is available" (client.rs):  *)
(* a client that has read everything has handed on the last job.           *)
LatestJobPublished ==
  (phase = "open" /\ toClient = <<>> /\ pool.job # NoJob) =>
    work.conn = conn /\ work.job = pool.job

(* It does so at least as long as the reading of a notify has never been   *)
(* cancelled.                                                              *)
WholeJobPublished == "notify" \notin cut => LatestJobPublished

-----------------------------------------------------------------------------
(* Liveness.                                                               *)

(* A stop request ends the client, whatever it waits for, unless the pool  *)
(* goes on for ever to send lines that do not parse: each of them puts the *)
(* timeout off and skips the test of should_stop.                          *)
StopClosesClient ==
  <>[][~PoolSendsGarbage]_vars => (stop ~> phase = "closed")

(* If not every connection attempt fails from some time on, a share in the *)
(* channel is submitted, over as many reconnections as it takes, unless    *)
(* the client is stopped or the bound on connections is reached.           *)
NoMoreConnections == conn = MaxConns /\ phase # "open"

QueuedShareSubmitted ==
  (~<>[](phase \in {"connecting", "waiting"} /\ conn < MaxConns)) =>
    \A s \in Shares :
      fate[s] = "queued" ~> (fate[s] # "queued" \/ NoMoreConnections \/ stop)
=============================================================================
