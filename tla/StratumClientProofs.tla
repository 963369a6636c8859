-------------------------- MODULE StratumClientProofs -------------------------
(***************************************************************************)
(* Proofs about StratumClient, for every capacity of the channel and of    *)
(* the wire, every set of difficulties and any number of connections, jobs *)
(* and shares.                                                             *)
(***************************************************************************)
EXTENDS StratumClient, FiniteSetTheorems, TLAPS

(* Facts about sequences, in the form the proofs below use them.           *)

LEMMA ReadFirst ==
  ASSUME NEW S, NEW s \in Seq(S), s # <<>>
  PROVE  /\ Len(s) \in Nat \ {0} /\ s[1] \in S /\ Head(s) = s[1]
         /\ Tail(s) \in Seq(S) /\ Len(Tail(s)) = Len(s) - 1
         /\ \A k \in 1 .. Len(s) - 1 : Tail(s)[k] = s[k + 1]
OBVIOUS

LEMMA AppendLast ==
  ASSUME NEW S, NEW s \in Seq(S), NEW x \in S
  PROVE  /\ Append(s, x) \in Seq(S) /\ Len(Append(s, x)) = Len(s) + 1
         /\ \A k \in 1 .. Len(s) : Append(s, x)[k] = s[k]
         /\ Append(s, x)[Len(s) + 1] = x
OBVIOUS

LEMMA ReplaceFirst ==
  ASSUME NEW S, NEW s \in Seq(S), s # <<>>, NEW x \in S
  PROVE  /\ [s EXCEPT ![1] = x] \in Seq(S) /\ Len([s EXCEPT ![1] = x]) = Len(s)
         /\ [s EXCEPT ![1] = x][1] = x
         /\ \A k \in 2 .. Len(s) : [s EXCEPT ![1] = x][k] = s[k]
OBVIOUS

LEMMA EmptySequence ==
  ASSUME NEW S
  PROVE  <<>> \in Seq(S) /\ Len(<<>>) = 0
OBVIOUS

-----------------------------------------------------------------------------
(* Types, with the bounds left out; and a line that read_line() holds a    *)
(* part of is there.                                                       *)

Line ==
  [kind : {"reply"}, id : Nat, verdict : Verdicts]
  \cup [kind : {"notify"}, job : Nat, diff : Difficulties]
  \cup [kind : {"difficulty"}, diff : Difficulties]
  \cup {Malformed, Garbage}

Asked == [id : Nat, share : Shares \cup {NoShare}]

Counters == [submitted : Nat, accepted : Nat, rejected : Nat, blocks : Nat]

PoolEnd == [up : BOOLEAN, subscribed : BOOLEAN, diff : Difficulties, job : Nat]

Fates == {"unfound", "dropped", "queued", "sent"} \cup Verdicts

Typed ==
  /\ phase \in {"connecting", "open", "waiting", "closed"}
  /\ conn \in Nat /\ reqId \in Nat
  /\ session \in [en1 : Nat, diff : Difficulties]
  /\ toPool \in Seq(Asked) /\ toClient \in Seq(Line)
  /\ partial => toClient # <<>>
  /\ pool \in PoolEnd
  /\ queue \in Seq(Shares)
  /\ work \in [conn : Nat, job : Nat, en1 : Nat, diff : Difficulties, due : Difficulties]
  /\ stats \in Counters
  /\ fate \in [Shares -> Fates]

LEMMA StratumInitTyped == Init => Typed
BY StratumAssumption, EmptySequence
DEF Init, Typed, NewSession, NoWork, NoExtranonce, NoJob, Fates, Counters, PoolEnd

(* What a line of each kind carries.                                       *)
LEMMA LineParts ==
  ASSUME NEW line \in Line
  PROVE  /\ line.kind \in {"reply", "notify", "difficulty", "malformed", "garbage"}
         /\ line.kind = "reply" => line.id \in Nat /\ line.verdict \in Verdicts
         /\ line.kind = "notify" => line.job \in Nat /\ line.diff \in Difficulties
         /\ line.kind = "difficulty" => line.diff \in Difficulties
BY DEF Line, Malformed, Garbage

(* The lines the pool sends, and the one that is left of a line cut off.   *)
LEMMA PoolLines ==
  /\ Garbage \in Line /\ Garbage.kind = "garbage"
  /\ Malformed \in Line /\ Malformed.kind = "malformed"
  /\ \A id \in Nat, verdict \in Verdicts :
       /\ Reply(id, verdict) \in Line /\ Reply(id, verdict).kind = "reply"
       /\ Reply(id, verdict).id = id /\ Reply(id, verdict).verdict = verdict
  /\ \A job \in Nat, diff \in Difficulties :
       /\ Notify(job, diff) \in Line /\ Notify(job, diff).kind = "notify"
       /\ Notify(job, diff).job = job /\ Notify(job, diff).diff = diff
  /\ \A diff \in Difficulties :
       /\ SetDifficulty(diff) \in Line /\ SetDifficulty(diff).kind = "difficulty"
       /\ SetDifficulty(diff).diff = diff
BY DEF Line, Garbage, Malformed, Reply, Notify, SetDifficulty

(* Counting, and what the pool remembers.                                  *)
LEMMA SubmittedUp ==
  ASSUME NEW c \in Counters
  PROVE  [c EXCEPT !.submitted = @ + 1] \in Counters
BY DEF Counters

LEMMA AcceptedUp ==
  ASSUME NEW c \in Counters
  PROVE  [c EXCEPT !.accepted = @ + 1, !.blocks = @ + 1] \in Counters
<1> DEFINE b == [c EXCEPT !.accepted = @ + 1]
<1>1. b \in Counters /\ b.blocks = c.blocks /\ c.blocks \in Nat
  BY DEF Counters
<1>2. [c EXCEPT !.accepted = @ + 1, !.blocks = @ + 1] = [b EXCEPT !.blocks = c.blocks + 1]
  BY DEF Counters
<1> HIDE DEF b
<1>3. [b EXCEPT !.blocks = c.blocks + 1] \in Counters
  BY <1>1 DEF Counters
<1> QED
  BY <1>2, <1>3

LEMMA RejectedUp ==
  ASSUME NEW c \in Counters
  PROVE  [c EXCEPT !.rejected = @ + 1] \in Counters
BY DEF Counters

LEMMA PoolRemembers ==
  ASSUME NEW p \in PoolEnd
  PROVE  /\ [p EXCEPT !.subscribed = TRUE] \in PoolEnd /\ [p EXCEPT !.up = FALSE] \in PoolEnd
         /\ [p EXCEPT !.job = @ + 1] \in PoolEnd
         /\ \A diff \in Difficulties : [p EXCEPT !.diff = diff] \in PoolEnd
<1>1. [p EXCEPT !.subscribed = TRUE] \in PoolEnd
  BY DEF PoolEnd
<1>2. [p EXCEPT !.up = FALSE] \in PoolEnd
  BY DEF PoolEnd
<1>3. [p EXCEPT !.job = @ + 1] \in PoolEnd
  BY DEF PoolEnd
<1>4. \A diff \in Difficulties : [p EXCEPT !.diff = diff] \in PoolEnd
  BY DEF PoolEnd
<1> QED
  BY <1>1, <1>2, <1>3, <1>4

(* The request the pool answers next.                                      *)
LEMMA FirstRequest ==
  ASSUME Typed, toPool # <<>>
  PROVE  /\ Head(toPool).id \in Nat /\ Head(toPool).share \in Shares \cup {NoShare}
         /\ Tail(toPool) \in Seq(Asked)
<1>1. toPool \in Seq(Asked)
  BY DEF Typed
<1>2. Head(toPool) \in Asked /\ Tail(toPool) \in Seq(Asked)
  BY <1>1, ReadFirst
<1> QED
  BY <1>2 DEF Asked

LEMMA StratumTypes == Typed /\ [Next]_vars => Typed'
<1> SUFFICES ASSUME Typed, [Next]_vars
             PROVE  Typed'
  OBVIOUS
<1> USE DEF Typed, client, wire, miner
<1>1. ASSUME Connect  PROVE Typed'
  <2>1. toPool' \in Seq(Asked) /\ toClient' \in Seq(Line) /\ ~partial'
    BY <1>1, EmptySequence DEF Connect, Request, Asked, NoShare
  <2> QED
    BY <1>1, <2>1, StratumAssumption DEF Connect, NewSession, NoExtranonce, NoJob, PoolEnd
<1>2. ASSUME ConnectFails \/ Wake \/ ConnectionLost \/ Timeout  PROVE Typed'
  BY <1>2 DEF ConnectFails, Wake, ConnectionLost, Timeout, Fail
<1>3. ASSUME Segment  PROVE Typed'
  BY <1>3 DEF Segment
<1>4. ASSUME NEW kind, Read(kind)
      PROVE  /\ toClient' \in Seq(Line) /\ ~partial' /\ Head(toClient) \in Line
             /\ UNCHANGED <<toPool, pool, queue, fate>>
  BY <1>4, ReadFirst DEF Read
<1>5. ASSUME ReadGarbage \/ ReadMalformed \/ AuthorizeReply  PROVE Typed'
  BY <1>4, <1>5 DEF ReadGarbage, ReadMalformed, AuthorizeReply, Fail, AfterEvent
<1>6. ASSUME ReadDifficulty  PROVE Typed'
  <2>1. Head(toClient).diff \in Difficulties
    BY <1>4, <1>6, LineParts DEF ReadDifficulty, Read
  <2> QED
    BY <1>4, <1>6, <2>1 DEF ReadDifficulty, AfterEvent
<1>7. ASSUME ReadNotify  PROVE Typed'
  <2>1. Head(toClient).diff \in Difficulties /\ Head(toClient).job \in Nat
    BY <1>4, <1>7, LineParts DEF ReadNotify, Read
  <2> QED
    BY <1>4, <1>7, <2>1 DEF ReadNotify, AfterEvent, NewWork
<1>8. ASSUME SubscribeReply  PROVE Typed'
  BY <1>4, <1>8 DEF SubscribeReply, AfterEvent, SetExtranonce
<1>9. ASSUME ShareReply  PROVE Typed'
  <2>1. stats' \in Counters
    BY <1>9, AcceptedUp, RejectedUp DEF ShareReply
  <2> QED
    BY <1>4, <1>9, <2>1 DEF ShareReply, AfterEvent
<1>10. ASSUME Submit  PROVE Typed'
  <2>1. queue' \in Seq(Shares) /\ Head(queue) \in Shares
    BY <1>10, ReadFirst DEF Submit
  <2>2. fate' \in [Shares -> Fates]
    BY <1>10, <2>1 DEF Submit, Fates
  <2>3. toPool' \in Seq(Asked)
    <3>1. Request(reqId, Head(queue)) \in Asked
      BY <2>1 DEF Request, Asked
    <3> QED
      <4>1. toPool' = toPool \/ toPool' = Append(toPool, Request(reqId, Head(queue)))
        BY <1>10 DEF Submit
      <4>2. toPool \in Seq(Asked)
        OBVIOUS
      <4> HIDE DEF Typed
      <4> QED
        BY <3>1, <4>1, <4>2, AppendLast
  <2>4. toClient' \in Seq(Line) /\ ~partial'
    <3>1. CancelRead
      BY <1>10 DEF Submit
    <3>2. toClient \in Seq(Line) /\ (partial => toClient # <<>>) /\ Garbage \in Line
      BY PoolLines
    <3>3. ~partial' /\ (toClient' = toClient \/ (partial /\ toClient' = [toClient EXCEPT ![1] = Garbage]))
      BY <3>1 DEF CancelRead
    <3> HIDE DEF Typed
    <3> QED
      BY <3>2, <3>3, ReplaceFirst
  <2>5. stats' \in Counters /\ reqId' \in Nat
    BY <1>10, SubmittedUp DEF Submit
  <2>6. /\ phase' \in {"connecting", "open", "waiting", "closed"}
        /\ UNCHANGED <<conn, session, pool, work>>
    BY <1>10 DEF Submit, AfterEvent, Fail
  <2> QED
    BY <2>1, <2>2, <2>3, <2>4, <2>5, <2>6
<1>11. ASSUME NEW s \in Shares, Find(s)  PROVE Typed'
  <2>1. Append(queue, s) \in Seq(Shares)
    BY AppendLast
  <2> QED
    BY <1>11, <2>1 DEF Find, Fates
<1>12. ASSUME RequestStop  PROVE Typed'
  BY <1>12 DEF RequestStop
<1>13. ASSUME NEW line \in Line, Send(line)
       PROVE  toClient' \in Seq(Line) /\ toClient' # <<>>
  <2>1. toClient \in Seq(Line)
    OBVIOUS
  <2>2. /\ Append(toClient, line) \in Seq(Line)
        /\ Len(Append(toClient, line)) = Len(toClient) + 1 /\ Len(toClient) \in Nat
    BY <2>1, AppendLast
  <2> DEFINE q == Append(toClient, line)
  <2> HIDE DEF q
  <2>3. q # <<>>
    <3>1. Len(q) = Len(toClient) + 1 /\ Len(toClient) \in Nat
      BY <2>2 DEF q
    <3>2. Len(<<>>) = 0
      BY ONLY EmptySequence
    <3>3. Len(q) # Len(<<>>)
      BY ONLY <3>1, <3>2
    <3> QED
      BY ONLY <3>3
  <2>4. toClient' = Append(toClient, line)
    BY <1>13 DEF Send
  <2> QED
    BY ONLY <2>2, <2>3, <2>4 DEF q
<1>14. ASSUME PoolAnswers  PROVE Typed'
  <2>1. PICK verdict \in Verdicts :
          /\ Send(Reply(Head(toPool).id, verdict))
          /\ fate' = IF Head(toPool).share = NoShare THEN fate
                     ELSE [fate EXCEPT ![Head(toPool).share] = verdict]
    BY <1>14 DEF PoolAnswers
  <2>2. Head(toPool) \in Asked /\ toPool' \in Seq(Asked)
    BY <1>14, ReadFirst DEF PoolAnswers
  <2>3. toClient' \in Seq(Line) /\ toClient' # <<>>
    BY <1>13, <2>1, <2>2, PoolLines DEF Asked
  <2>4. fate' \in [Shares -> Fates]
    BY <2>1, <2>2 DEF Asked, Fates
  <2> QED
    BY <1>14, <2>2, <2>3, <2>4, PoolRemembers DEF PoolAnswers
<1>15. ASSUME PoolNotifies  PROVE Typed'
  <2>1. toClient' \in Seq(Line) /\ toClient' # <<>>
    <3>1. pool.job + 1 \in Nat /\ pool.diff \in Difficulties
      BY DEF PoolEnd
    <3>2. Send(Notify(pool.job + 1, pool.diff))
      BY <1>15 DEF PoolNotifies
    <3>3. Notify(pool.job + 1, pool.diff) \in Line
      BY <3>1, PoolLines
    <3> QED
      BY <1>13, <3>2, <3>3
  <2> QED
    BY <1>15, <2>1, PoolRemembers DEF PoolNotifies
<1>16. ASSUME PoolSetsDifficulty  PROVE Typed'
  <2>1. PICK diff \in Difficulties : Send(SetDifficulty(diff)) /\ pool' = [pool EXCEPT !.diff = diff]
    BY <1>16 DEF PoolSetsDifficulty
  <2>2. toClient' \in Seq(Line) /\ toClient' # <<>>
    BY <1>13, <2>1, PoolLines
  <2> QED
    BY <1>16, <2>1, <2>2, PoolRemembers DEF PoolSetsDifficulty
<1>17. ASSUME PoolSendsMalformed \/ PoolSendsGarbage  PROVE Typed'
  <2>1. toClient' \in Seq(Line) /\ toClient' # <<>>
    BY <1>13, <1>17, PoolLines DEF PoolSendsMalformed, PoolSendsGarbage
  <2> QED
    BY <1>17, <2>1 DEF PoolSendsMalformed, PoolSendsGarbage
<1>18. ASSUME PoolCloses  PROVE Typed'
  BY <1>18, PoolRemembers DEF PoolCloses
<1>19. CASE UNCHANGED vars
  BY <1>19 DEF vars
<1> QED
  BY <1>1, <1>2, <1>3, <1>5, <1>6, <1>7, <1>8, <1>9, <1>10, <1>11, <1>12, <1>14, <1>15,
     <1>16, <1>17, <1>18, <1>19 DEF Next, Client, Turn, ReadNext, Pool

(* Every reachable state is well typed, and a line half read is a line.    *)
LEMMA TypedCorrect == Spec => []Typed
BY StratumInitTyped, StratumTypes, PTL DEF Spec

(* The kinds of the lines that lost a part are remembered.                 *)
LEMMA CutStays == [Next]_vars => cut \subseteq cut'
BY DEF Next, Client, Turn, ReadNext, Pool, vars, Connect, ConnectFails, Wake, Segment, Read,
       ReadGarbage, ReadMalformed, ReadDifficulty, ReadNotify, SubscribeReply, AuthorizeReply, ShareReply,
       ConnectionLost, Timeout, Submit, CancelRead, Find, RequestStop, Send, PoolAnswers,
       PoolNotifies, PoolSetsDifficulty, PoolSendsMalformed, PoolSendsGarbage, PoolCloses

-----------------------------------------------------------------------------
(* Difficulty.  A sequence of lines leads from one difficulty to another   *)
(* if along it the difficulty changes at the lines that set one, and every *)
(* job is announced for the difficulty in force where it stands.           *)

AfterLine(line, d) == IF line.kind = "difficulty" THEN line.diff ELSE d

LeadsTo(s, from, to) ==
  \E inForce \in [1 .. Len(s) + 1 -> Difficulties] :
    /\ inForce[1] = from /\ inForce[Len(s) + 1] = to
    /\ \A k \in 1 .. Len(s) :
         /\ inForce[k + 1] = AfterLine(s[k], inForce[k])
         /\ s[k].kind = "notify" => s[k].diff = inForce[k]

LEMMA LeadsToItself ==
  ASSUME NEW d \in Difficulties
  PROVE  LeadsTo(<<>>, d, d)
<1> DEFINE s == <<>>
           f == [k \in 1 .. Len(s) + 1 |-> d]
<1>1. Len(s) = 0
  OBVIOUS
<1> HIDE DEF s
<1>2. f \in [1 .. Len(s) + 1 -> Difficulties] /\ f[1] = d /\ f[Len(s) + 1] = d
  BY <1>1
<1> HIDE DEF f
<1>3. LeadsTo(s, d, d)
  BY <1>1, <1>2 DEF LeadsTo
<1> QED
  BY <1>3 DEF s

(* The first line is read.                                                 *)
LEMMA LeadsToRead ==
  ASSUME NEW s \in Seq(Line), s # <<>>, NEW from, NEW to, LeadsTo(s, from, to)
  PROVE  /\ LeadsTo(Tail(s), AfterLine(Head(s), from), to)
         /\ Head(s).kind = "notify" => Head(s).diff = from
<1>1. PICK f \in [1 .. Len(s) + 1 -> Difficulties] :
        /\ f[1] = from /\ f[Len(s) + 1] = to
        /\ \A k \in 1 .. Len(s) :
             /\ f[k + 1] = AfterLine(s[k], f[k])
             /\ s[k].kind = "notify" => s[k].diff = f[k]
  BY DEF LeadsTo
<1>2. /\ Len(s) \in Nat \ {0} /\ Head(s) = s[1] /\ Len(Tail(s)) = Len(s) - 1
      /\ \A k \in 1 .. Len(s) - 1 : Tail(s)[k] = s[k + 1]
  BY ReadFirst
<1> DEFINE g == [k \in 1 .. Len(Tail(s)) + 1 |-> f[k + 1]]
<1>3. g \in [1 .. Len(Tail(s)) + 1 -> Difficulties]
  BY <1>1, <1>2
<1>4. g[1] = AfterLine(Head(s), from) /\ g[Len(Tail(s)) + 1] = to
  BY <1>1, <1>2
<1>5. ASSUME NEW k \in 1 .. Len(Tail(s))
      PROVE  /\ g[k + 1] = AfterLine(Tail(s)[k], g[k])
             /\ Tail(s)[k].kind = "notify" => Tail(s)[k].diff = g[k]
  <2>1. k + 1 \in 1 .. Len(s) /\ Tail(s)[k] = s[k + 1] /\ g[k] = f[k + 1] /\ g[k + 1] = f[(k + 1) + 1]
    BY <1>2
  <2> QED
    BY <1>1, <2>1
<1> HIDE DEF g
<1>6. LeadsTo(Tail(s), AfterLine(Head(s), from), to)
  BY <1>3, <1>4, <1>5 DEF LeadsTo
<1> QED
  BY <1>1, <1>2, <1>6

(* A line is added at the end.                                             *)
LEMMA LeadsToAppend ==
  ASSUME NEW s \in Seq(Line), NEW from, NEW to, LeadsTo(s, from, to),
         NEW line \in Line, line.kind = "notify" => line.diff = to
  PROVE  LeadsTo(Append(s, line), from, AfterLine(line, to))
<1> DEFINE t == Append(s, line)
<1>1. PICK f \in [1 .. Len(s) + 1 -> Difficulties] :
        /\ f[1] = from /\ f[Len(s) + 1] = to
        /\ \A k \in 1 .. Len(s) :
             /\ f[k + 1] = AfterLine(s[k], f[k])
             /\ s[k].kind = "notify" => s[k].diff = f[k]
  BY DEF LeadsTo
<1>2. /\ Len(s) \in Nat /\ Len(t) = Len(s) + 1 /\ t[Len(s) + 1] = line
      /\ \A k \in 1 .. Len(s) : t[k] = s[k]
  BY AppendLast
<1>3. AfterLine(line, to) \in Difficulties
  BY <1>1, <1>2, LineParts DEF AfterLine
<1> DEFINE g == [k \in 1 .. Len(t) + 1 |-> IF k = Len(t) + 1 THEN AfterLine(line, to) ELSE f[k]]
<1> HIDE DEF t
<1>4. g \in [1 .. Len(t) + 1 -> Difficulties] /\ g[1] = from /\ g[Len(t) + 1] = AfterLine(line, to)
  BY <1>1, <1>2, <1>3
<1>5. ASSUME NEW k \in 1 .. Len(t)
      PROVE  /\ g[k + 1] = AfterLine(t[k], g[k])
             /\ t[k].kind = "notify" => t[k].diff = g[k]
  <2>1. CASE k = Len(s) + 1
    BY <1>1, <1>2, <2>1
  <2>2. CASE k \in 1 .. Len(s)
    <3>1. t[k] = s[k] /\ g[k] = f[k] /\ g[k + 1] = f[k + 1]
      BY <1>2, <2>2
    <3> QED
      BY <1>1, <2>2, <3>1
  <2> QED
    BY <1>2, <2>1, <2>2
<1> HIDE DEF g
<1>6. LeadsTo(t, from, AfterLine(line, to))
  BY <1>4, <1>5 DEF LeadsTo
<1> QED
  BY <1>6 DEF t

(* The first line loses a part.                                            *)
LEMMA LeadsToCut ==
  ASSUME NEW s \in Seq(Line), s # <<>>, NEW from, NEW to, LeadsTo(s, from, to),
         Head(s).kind # "difficulty"
  PROVE  LeadsTo([s EXCEPT ![1] = Garbage], from, to)
<1> DEFINE t == [s EXCEPT ![1] = Garbage]
<1>1. PICK f \in [1 .. Len(s) + 1 -> Difficulties] :
        /\ f[1] = from /\ f[Len(s) + 1] = to
        /\ \A k \in 1 .. Len(s) :
             /\ f[k + 1] = AfterLine(s[k], f[k])
             /\ s[k].kind = "notify" => s[k].diff = f[k]
  BY DEF LeadsTo
<1>2. /\ Len(s) \in Nat \ {0} /\ Head(s) = s[1] /\ Len(t) = Len(s) /\ t[1] = Garbage
      /\ \A k \in 2 .. Len(s) : t[k] = s[k]
  BY ReadFirst, ReplaceFirst, PoolLines
<1> HIDE DEF t
<1>3. ASSUME NEW k \in 1 .. Len(t)
      PROVE  /\ f[k + 1] = AfterLine(t[k], f[k])
             /\ t[k].kind = "notify" => t[k].diff = f[k]
  <2>1. CASE k = 1
    BY <1>1, <1>2, <2>1, PoolLines DEF AfterLine
  <2>2. CASE k \in 2 .. Len(s)
    BY <1>1, <1>2, <2>2
  <2> QED
    BY <1>2, <2>1, <2>2
<1>4. LeadsTo(t, from, to)
  BY <1>1, <1>2, <1>3 DEF LeadsTo
<1> QED
  BY <1>4 DEF t

DifficultyInv ==
  "difficulty" \notin cut =>
    /\ LeadsTo(toClient, session.diff, pool.diff)
    /\ work.diff = work.due

LEMMA DifficultyStep == Typed /\ DifficultyInv /\ [Next]_vars => DifficultyInv'
<1> SUFFICES ASSUME Typed, DifficultyInv, [Next]_vars, "difficulty" \notin cut'
             PROVE  LeadsTo(toClient, session.diff, pool.diff)' /\ work'.diff = work'.due
  BY DEF DifficultyInv
<1> DEFINE Kept == LeadsTo(toClient, session.diff, pool.diff) /\ work.diff = work.due
<1>0. /\ toClient \in Seq(Line) /\ toClient' \in Seq(Line)
      /\ session \in [en1 : Nat, diff : Difficulties] /\ pool \in PoolEnd
  BY StratumTypes DEF Typed
<1>1. "difficulty" \notin cut
  BY CutStays
<1>2. Kept
  BY <1>1 DEF DifficultyInv
<1>3. ASSUME Connect  PROVE Kept'
  <2>1. LeadsTo(<<>>, DefaultDifficulty, DefaultDifficulty)
    BY LeadsToItself, StratumAssumption
  <2> QED
    BY <1>2, <1>3, <2>1 DEF Connect, NewSession
<1>4. ASSUME NEW kind, Read(kind)
      PROVE  /\ toClient # <<>> /\ toClient' = Tail(toClient) /\ pool' = pool
             /\ LeadsTo(toClient', AfterLine(Head(toClient), session.diff), pool.diff)
             /\ Head(toClient).kind = kind
             /\ kind = "notify" => Head(toClient).diff = session.diff
  BY <1>0, <1>2, <1>4, LeadsToRead DEF Read
<1>5. ASSUME ReadGarbage \/ ReadMalformed \/ AuthorizeReply \/ ShareReply  PROVE Kept'
  <2>1. PICK kind \in {"garbage", "malformed", "reply"} : Read(kind)
    BY <1>5 DEF ReadGarbage, ReadMalformed, AuthorizeReply, ShareReply
  <2>2. UNCHANGED <<session, work>>
    BY <1>5 DEF ReadGarbage, ReadMalformed, AuthorizeReply, ShareReply, client
  <2> QED
    BY <1>2, <1>4, <2>1, <2>2 DEF AfterLine
<1>6. ASSUME SubscribeReply  PROVE Kept'
  <2>1. session'.diff = session.diff /\ work' = work /\ Read("reply")
    BY <1>0, <1>6 DEF SubscribeReply, SetExtranonce
  <2> QED
    BY <1>2, <1>4, <2>1 DEF AfterLine
<1>7. ASSUME ReadDifficulty  PROVE Kept'
  <2>1. session'.diff = Head(toClient).diff /\ work' = work /\ Read("difficulty")
    BY <1>0, <1>7 DEF ReadDifficulty
  <2> QED
    BY <1>2, <1>4, <2>1 DEF AfterLine
<1>8. ASSUME ReadNotify  PROVE Kept'
  <2>1. session' = session /\ work' = NewWork(Head(toClient)) /\ Read("notify")
    BY <1>8 DEF ReadNotify, client
  <2>2. work'.diff = session.diff /\ work'.due = Head(toClient).diff
    BY <2>1 DEF NewWork
  <2> QED
    BY <1>4, <2>1, <2>2 DEF AfterLine
<1>9. ASSUME Submit  PROVE Kept'
  <2>1. CancelRead /\ UNCHANGED <<session, pool, work>>
    BY <1>9 DEF Submit
  <2>2. CASE partial
    <3>1. toClient # <<>> /\ Head(toClient).kind # "difficulty"
      BY <2>1, <2>2 DEF CancelRead, Typed
    <3>2. toClient' = [toClient EXCEPT ![1] = Garbage]
      BY <2>1, <2>2 DEF CancelRead
    <3> QED
      BY <1>0, <1>2, <2>1, <3>1, <3>2, LeadsToCut
  <2>3. CASE ~partial
    BY <1>2, <2>1, <2>3 DEF CancelRead
  <2> QED
    BY <2>2, <2>3
<1>10. ASSUME NEW line \in Line, Send(line), line.kind = "notify" => line.diff = pool.diff,
              pool'.diff = AfterLine(line, pool.diff), UNCHANGED <<session, work>>
       PROVE  Kept'
  <2>1. toClient' = Append(toClient, line)
    BY <1>10 DEF Send
  <2> QED
    BY <1>0, <1>2, <1>10, <2>1, LeadsToAppend
<1>11. ASSUME PoolAnswers  PROVE Kept'
  <2>1. PICK verdict \in Verdicts : Send(Reply(Head(toPool).id, verdict))
    BY <1>11 DEF PoolAnswers
  <2>2. Head(toPool).id \in Nat
    BY <1>11, FirstRequest DEF PoolAnswers
  <2>3. pool'.diff = pool.diff /\ UNCHANGED <<session, work>>
    BY <1>0, <1>11 DEF PoolAnswers, PoolEnd, client
  <2> DEFINE line == Reply(Head(toPool).id, verdict)
  <2>4. line \in Line /\ line.kind = "reply"
    BY <2>2, PoolLines
  <2> QED
    BY <1>10, <2>1, <2>3, <2>4 DEF AfterLine
<1>12. ASSUME PoolNotifies  PROVE Kept'
  <2> DEFINE line == Notify(pool.job + 1, pool.diff)
  <2>1. Send(line)
    BY <1>12 DEF PoolNotifies
  <2>2. pool.job + 1 \in Nat /\ pool.diff \in Difficulties
    BY <1>0 DEF PoolEnd
  <2>3. line \in Line /\ line.kind = "notify" /\ line.diff = pool.diff
    BY <2>2, PoolLines
  <2>4. pool'.diff = pool.diff /\ UNCHANGED <<session, work>>
    BY <1>0, <1>12 DEF PoolNotifies, PoolEnd, client
  <2> QED
    BY <1>10, <2>1, <2>3, <2>4 DEF AfterLine
<1>13. ASSUME PoolSetsDifficulty  PROVE Kept'
  <2>1. PICK diff \in Difficulties : Send(SetDifficulty(diff)) /\ pool' = [pool EXCEPT !.diff = diff]
    BY <1>13 DEF PoolSetsDifficulty
  <2>2. /\ SetDifficulty(diff) \in Line /\ SetDifficulty(diff).kind = "difficulty"
        /\ SetDifficulty(diff).diff = diff
    BY PoolLines
  <2>3. pool'.diff = diff /\ UNCHANGED <<session, work>>
    BY <1>0, <1>13, <2>1 DEF PoolSetsDifficulty, PoolEnd, client
  <2> QED
    BY <1>10, <2>1, <2>2, <2>3 DEF AfterLine
<1>14. ASSUME PoolSendsMalformed \/ PoolSendsGarbage  PROVE Kept'
  BY <1>10, <1>14, PoolLines DEF PoolSendsMalformed, PoolSendsGarbage, AfterLine, client
<1>15. ASSUME PoolCloses  PROVE Kept'
  <2>1. pool'.diff = pool.diff /\ UNCHANGED <<session, work, toClient>>
    BY <1>0, <1>15 DEF PoolCloses, PoolEnd, client, wire
  <2> QED
    BY <1>2, <2>1
<1>16. CASE UNCHANGED <<toClient, session, pool, work>>
  BY <1>2, <1>16
<1> QED
  BY <1>3, <1>5, <1>6, <1>7, <1>8, <1>9, <1>11, <1>12, <1>13, <1>14, <1>15, <1>16
  DEF Next, Client, Turn, ReadNext, Pool, vars, client, wire, ConnectFails, Wake, Segment,
      ConnectionLost, Timeout, Find, RequestStop

(* Across reconnections and changes of difficulty, the target of a work is *)
(* the one the pool meant for the job, unless a change was lost.           *)
THEOREM WorkHasDifficultyHolds == Spec => []WorkHasDifficulty
<1>1. Init => DifficultyInv
  <2>1. LeadsTo(<<>>, DefaultDifficulty, DefaultDifficulty)
    BY LeadsToItself, StratumAssumption
  <2> QED
    BY <2>1 DEF Init, DifficultyInv, NewSession, NoWork
<1>2. DifficultyInv => WorkHasDifficulty
  BY DEF DifficultyInv, WorkHasDifficulty
<1> QED
  BY <1>1, <1>2, TypedCorrect, DifficultyStep, PTL DEF Spec

-----------------------------------------------------------------------------
(* What reading, cutting and sending do to the lines on the wire.          *)

LEMMA ReadEffect ==
  ASSUME Typed, NEW kind, Read(kind)
  PROVE  /\ Len(toClient) \in Nat \ {0} /\ Len(toClient') = Len(toClient) - 1
         /\ Head(toClient) = toClient[1] /\ toClient[1] \in Line /\ toClient[1].kind = kind
         /\ \A k \in 1 .. Len(toClient') : toClient'[k] = toClient[k + 1]
         /\ UNCHANGED <<toPool, pool, cut>>
<1>1. toClient \in Seq(Line) /\ toClient # <<>> /\ toClient' = Tail(toClient)
  BY DEF Typed, Read
<1>2. Head(toClient).kind = kind /\ UNCHANGED <<toPool, pool, cut>>
  BY DEF Read
<1> QED
  BY <1>1, <1>2, ReadFirst

LEMMA CutEffect ==
  ASSUME Typed, Submit
  PROVE  /\ Len(toClient) \in Nat /\ Len(toClient') = Len(toClient)
         /\ \A k \in 2 .. Len(toClient) : toClient'[k] = toClient[k]
         /\ \/ UNCHANGED <<toClient, cut>>
            \/ /\ Len(toClient) # 0 /\ toClient'[1] = Garbage
               /\ cut' = cut \cup {toClient[1].kind}
<1>1. toClient \in Seq(Line) /\ (partial => toClient # <<>>)
  BY DEF Typed
<1>2. CASE partial
  <2>1. toClient # <<>> /\ toClient' = [toClient EXCEPT ![1] = Garbage]
        /\ cut' = cut \cup {Head(toClient).kind}
    BY <1>1, <1>2 DEF Submit, CancelRead
  <2> QED
    BY <1>1, <2>1, ReadFirst, ReplaceFirst, PoolLines
<1>3. CASE ~partial
  <2>1. toClient' = toClient /\ cut' = cut
    BY <1>3 DEF Submit, CancelRead
  <2>2. Len(toClient) \in Nat
    BY <1>1
  <2> QED
    BY <2>1, <2>2
<1> QED
  BY <1>2, <1>3

LEMMA SendEffect ==
  ASSUME Typed, NEW line \in Line, Send(line)
  PROVE  /\ Len(toClient) \in Nat /\ Len(toClient') = Len(toClient) + 1
         /\ \A k \in 1 .. Len(toClient) : toClient'[k] = toClient[k]
         /\ toClient'[Len(toClient) + 1] = line
         /\ PoolUp
<1>1. toClient \in Seq(Line)
  BY DEF Typed
<1> QED
  BY <1>1, AppendLast DEF Send

LEMMA AnswerSent ==
  ASSUME Typed, PoolAnswers
  PROVE  \E verdict \in Verdicts :
           LET line == Reply(Head(toPool).id, verdict) IN
             /\ Send(line) /\ line \in Line /\ line.kind = "reply" /\ toPool # <<>>
             /\ line.id = Head(toPool).id /\ line.verdict = verdict
             /\ Head(toPool).id = 1 => verdict = "ok"
             /\ fate' = IF Head(toPool).share = NoShare THEN fate
                        ELSE [fate EXCEPT ![Head(toPool).share] = verdict]
<1>1. PICK verdict \in Verdicts :
        /\ Head(toPool).id = 1 => verdict = "ok"
        /\ Send(Reply(Head(toPool).id, verdict))
        /\ fate' = IF Head(toPool).share = NoShare THEN fate
                   ELSE [fate EXCEPT ![Head(toPool).share] = verdict]
  BY DEF PoolAnswers
<1>2. toPool # <<>> /\ Head(toPool).id \in Nat
  BY FirstRequest DEF PoolAnswers
<1>3. /\ Reply(Head(toPool).id, verdict) \in Line
      /\ Reply(Head(toPool).id, verdict).kind = "reply"
      /\ Reply(Head(toPool).id, verdict).id = Head(toPool).id
      /\ Reply(Head(toPool).id, verdict).verdict = verdict
  BY <1>2, PoolLines
<1> QED
  BY <1>1, <1>2, <1>3

LEMMA NotifySent ==
  ASSUME Typed, PoolNotifies
  PROVE  \E line \in Line :
           /\ Send(line) /\ line.kind = "notify" /\ line.job = pool.job + 1
           /\ pool.job \in Nat /\ pool'.job = pool.job + 1
<1>1. pool \in PoolEnd
  BY DEF Typed
<1>2. pool.job \in Nat /\ pool.job + 1 \in Nat /\ pool.diff \in Difficulties
  BY <1>1 DEF PoolEnd
<1>3. Notify(pool.job + 1, pool.diff) \in Line
  BY <1>2, PoolLines
<1>4. Send(Notify(pool.job + 1, pool.diff)) /\ pool'.job = pool.job + 1
  BY <1>1 DEF PoolNotifies, PoolEnd
<1>5. /\ Notify(pool.job + 1, pool.diff).kind = "notify"
      /\ Notify(pool.job + 1, pool.diff).job = pool.job + 1
  BY DEF Notify
<1> QED
  BY <1>2, <1>3, <1>4, <1>5

LEMMA OtherLineSent ==
  ASSUME Typed, PoolSetsDifficulty \/ PoolSendsMalformed \/ PoolSendsGarbage
  PROVE  /\ \E line \in Line : Send(line) /\ line.kind \in {"difficulty", "malformed", "garbage"}
         /\ pool'.job = pool.job /\ pool'.subscribed = pool.subscribed /\ pool'.up = pool.up
<1>1. pool \in PoolEnd
  BY DEF Typed
<1>2. CASE PoolSetsDifficulty
  <2>1. PICK diff \in Difficulties : Send(SetDifficulty(diff)) /\ pool' = [pool EXCEPT !.diff = diff]
    BY <1>2 DEF PoolSetsDifficulty
  <2>2. SetDifficulty(diff) \in Line /\ SetDifficulty(diff).kind = "difficulty"
    BY PoolLines
  <2> QED
    BY <1>1, <2>1, <2>2 DEF PoolEnd
<1>3. CASE PoolSendsMalformed \/ PoolSendsGarbage
  BY <1>3, PoolLines DEF PoolSendsMalformed, PoolSendsGarbage
<1> QED
  BY <1>2, <1>3

-----------------------------------------------------------------------------
(* The extranonce1.  The pool answers mining.subscribe before it announces *)
(* a job, so the line that assigns the extranonce1 is ahead of every       *)
(* notify, or was read.                                                    *)

Assigns(line) == line.kind = "reply" /\ line.id = 1 /\ line.verdict = "ok"

ExtranonceInv ==
  "reply" \notin cut =>
    /\ work # NoWork => work.en1 = work.conn
    /\ pool.up /\ ~pool.subscribed => toPool # <<>> /\ Head(toPool).id = 1
    /\ pool.subscribed =>
         session.en1 = conn \/ \E j \in 1 .. Len(toClient) : Assigns(toClient[j])
    /\ \A k \in 1 .. Len(toClient) :
         toClient[k].kind = "notify" =>
           session.en1 = conn \/ \E j \in 1 .. k - 1 : Assigns(toClient[j])

LEMMA ExtranonceStep == Typed /\ ExtranonceInv /\ [Next]_vars => ExtranonceInv'
<1> SUFFICES ASSUME Typed, ExtranonceInv, [Next]_vars, "reply" \notin cut'
             PROVE  ExtranonceInv'
  BY DEF ExtranonceInv
<1>0. /\ "reply" \notin cut /\ Len(toClient) \in Nat /\ Len(toClient') \in Nat
      /\ session \in [en1 : Nat, diff : Difficulties] /\ pool \in PoolEnd
  <2>1. toClient \in Seq(Line) /\ toClient' \in Seq(Line)
    BY StratumTypes DEF Typed
  <2> QED
    BY <2>1, CutStays DEF Typed
<1> USE <1>0 DEF ExtranonceInv
<1>1. ASSUME Connect  PROVE ExtranonceInv'
  <2>1. Len(toClient') = 0 /\ pool'.subscribed = FALSE /\ work' = work
    BY <1>1 DEF Connect
  <2>2. toPool' # <<>> /\ Head(toPool').id = 1
    BY <1>1 DEF Connect, Request
  <2> QED
    BY <2>1, <2>2
<1>2. ASSUME NEW kind, Read(kind), ~Assigns(toClient[1]),
             session'.en1 = session.en1, conn' = conn,
             work' # NoWork => work'.en1 = work'.conn
      PROVE  ExtranonceInv'
  <2>1. /\ UNCHANGED <<toPool, pool>> /\ Len(toClient') = Len(toClient) - 1
        /\ \A k \in 1 .. Len(toClient') : toClient'[k] = toClient[k + 1]
    BY <1>2, ReadEffect
  <2>2. ASSUME session.en1 # conn, NEW n \in 1 .. Len(toClient) + 1,
               \E j \in 1 .. n - 1 : Assigns(toClient[j])
        PROVE  \E j \in 1 .. n - 2 : Assigns(toClient'[j])
    <3>1. PICK j \in 1 .. n - 1 : Assigns(toClient[j])
      BY <2>2
    <3>2. j - 1 \in 1 .. n - 2 /\ toClient'[j - 1] = toClient[j]
      BY <1>2, <2>1, <3>1
    <3> QED
      BY <3>1, <3>2
  <2>3. pool'.subscribed =>
          session'.en1 = conn' \/ \E j \in 1 .. Len(toClient') : Assigns(toClient'[j])
    <3>1. Len(toClient) + 1 \in 1 .. Len(toClient) + 1
      OBVIOUS
    <3> QED
      BY <1>2, <2>1, <2>2, <3>1
  <2>4. ASSUME NEW k \in 1 .. Len(toClient'), toClient'[k].kind = "notify"
        PROVE  session'.en1 = conn' \/ \E j \in 1 .. k - 1 : Assigns(toClient'[j])
    <3>1. k + 1 \in 1 .. Len(toClient) /\ toClient[k + 1].kind = "notify"
      BY <2>1, <2>4
    <3> QED
      BY <1>2, <2>2, <3>1
  <2> QED
    BY <1>2, <2>1, <2>3, <2>4
<1>3. ASSUME ReadGarbage \/ ReadMalformed \/ ReadDifficulty \/ AuthorizeReply \/ ShareReply
      PROVE  ExtranonceInv'
  <2>1. PICK kind : Read(kind) /\ (kind = "reply" => Head(toClient).id # 1)
    BY <1>3 DEF ReadGarbage, ReadMalformed, ReadDifficulty, AuthorizeReply, ShareReply, IsShareId
  <2>2. ~Assigns(toClient[1])
    BY <2>1, ReadEffect DEF Assigns
  <2>3. session'.en1 = session.en1 /\ conn' = conn /\ work' = work
    BY <1>3 DEF ReadGarbage, ReadMalformed, ReadDifficulty, AuthorizeReply, ShareReply, client
  <2> QED
    BY <1>2, <2>1, <2>2, <2>3
<1>4. ASSUME ReadNotify  PROVE ExtranonceInv'
  <2>1. Read("notify") /\ UNCHANGED client /\ work' = NewWork(Head(toClient))
    BY <1>4 DEF ReadNotify
  <2>2. toClient[1].kind = "notify" /\ 1 \in 1 .. Len(toClient)
    BY <2>1, ReadEffect
  <2>3. session.en1 = conn
    BY <2>2
  <2>4. work'.en1 = work'.conn /\ ~Assigns(toClient[1])
    BY <2>1, <2>2, <2>3 DEF NewWork, Assigns
  <2> QED
    BY <1>2, <2>1, <2>4 DEF client
<1>5. ASSUME SubscribeReply  PROVE ExtranonceInv'
  <2>1. Read("reply") /\ conn' = conn /\ work' = work
    BY <1>5 DEF SubscribeReply
  <2>2. CASE Head(toClient).verdict = "ok"
    <3>1. session'.en1 = conn'
      BY <1>5, <2>1, <2>2 DEF SubscribeReply, SetExtranonce
    <3>2. UNCHANGED <<toPool, pool>>
      BY <2>1, ReadEffect
    <3> QED
      BY <2>1, <3>1, <3>2
  <2>3. CASE Head(toClient).verdict # "ok"
    <3>1. session' = session
      BY <1>5, <2>3 DEF SubscribeReply
    <3>2. ~Assigns(toClient[1])
      BY <2>1, <2>3, ReadEffect DEF Assigns
    <3> QED
      BY <1>2, <2>1, <3>1, <3>2
  <2> QED
    BY <2>2, <2>3
<1>6. ASSUME Submit  PROVE ExtranonceInv'
  <2>1. UNCHANGED <<conn, session, pool, work>>
    BY <1>6 DEF Submit
  <2>2. /\ Len(toClient') = Len(toClient)
        /\ \A k \in 1 .. Len(toClient) :
             \/ toClient'[k] = toClient[k]
             \/ toClient[k].kind # "reply" /\ toClient'[k].kind = "garbage"
    BY <1>6, CutEffect, PoolLines
  <2>3. \A k \in 1 .. Len(toClient) : Assigns(toClient[k]) => Assigns(toClient'[k])
    BY <2>2 DEF Assigns
  <2>4. toPool # <<>> => toPool' # <<>> /\ Head(toPool') = Head(toPool)
    <3>1. toPool \in Seq(Asked) /\ (toPool' = toPool \/ toPool' = Append(toPool, Request(reqId, Head(queue))))
      BY <1>6 DEF Submit, Typed
    <3> QED
      BY <3>1
  <2> QED
    BY <2>1, <2>2, <2>3, <2>4
<1>7. ASSUME NEW line \in Line, Send(line), UNCHANGED <<conn, session, work>>,
             pool'.subscribed =>
               \/ session.en1 = conn \/ Assigns(line)
               \/ \E j \in 1 .. Len(toClient) : Assigns(toClient[j]),
             line.kind = "notify" => pool.subscribed,
             pool'.up /\ ~pool'.subscribed => toPool' # <<>> /\ Head(toPool').id = 1
      PROVE  ExtranonceInv'
  <2>1. /\ Len(toClient') = Len(toClient) + 1
        /\ \A k \in 1 .. Len(toClient) : toClient'[k] = toClient[k]
        /\ toClient'[Len(toClient) + 1] = line
    BY <1>7, SendEffect
  <2>2. ASSUME NEW k \in 1 .. Len(toClient'), toClient'[k].kind = "notify"
        PROVE  session'.en1 = conn' \/ \E j \in 1 .. k - 1 : Assigns(toClient'[j])
    <3>1. CASE k \in 1 .. Len(toClient)
      BY <1>7, <2>1, <2>2, <3>1
    <3>2. CASE k = Len(toClient) + 1
      BY <1>7, <2>1, <2>2, <3>2
    <3> QED
      BY <2>1, <3>1, <3>2
  <2>3. pool'.subscribed =>
          session'.en1 = conn' \/ \E j \in 1 .. Len(toClient') : Assigns(toClient'[j])
    <3>1. Len(toClient) + 1 \in 1 .. Len(toClient')
      BY <2>1
    <3> QED
      BY <1>7, <2>1, <3>1
  <2> QED
    BY <1>7, <2>2, <2>3
<1>8. ASSUME PoolAnswers  PROVE ExtranonceInv'
  <2>1. PICK verdict \in Verdicts :
          LET line == Reply(Head(toPool).id, verdict) IN
             /\ Send(line) /\ line \in Line /\ line.kind = "reply" /\ toPool # <<>>
             /\ line.id = Head(toPool).id /\ line.verdict = verdict
             /\ Head(toPool).id = 1 => verdict = "ok"
    BY <1>8, AnswerSent
  <2> DEFINE line == Reply(Head(toPool).id, verdict)
  <2>2. pool.up
    BY <2>1, SendEffect DEF PoolUp
  <2>3. ~pool.subscribed => Assigns(line)
    BY <2>1, <2>2 DEF Assigns
  <2>4. UNCHANGED <<conn, session, work>>
    BY <1>8 DEF PoolAnswers, client
  <2>5. pool'.subscribed
    BY <1>8 DEF PoolAnswers, PoolEnd
  <2> HIDE DEF line
  <2>6. Send(line) /\ line \in Line /\ line.kind # "notify"
    BY <2>1 DEF line
  <2> QED
    BY <1>7, <2>3, <2>4, <2>5, <2>6
<1>9. ASSUME PoolNotifies  PROVE ExtranonceInv'
  <2>1. PICK line \in Line : Send(line)
    BY <1>9, NotifySent
  <2>2. pool.subscribed /\ pool'.subscribed /\ UNCHANGED <<conn, session, work, toPool>>
    BY <1>9 DEF PoolNotifies, PoolEnd, client
  <2> QED
    BY <1>7, <2>1, <2>2
<1>10. ASSUME PoolSetsDifficulty \/ PoolSendsMalformed \/ PoolSendsGarbage  PROVE ExtranonceInv'
  <2>1. PICK line \in Line : Send(line) /\ line.kind \in {"difficulty", "malformed", "garbage"}
    BY <1>10, OtherLineSent
  <2>2. UNCHANGED <<conn, session, work, toPool>>
    BY <1>10 DEF PoolSetsDifficulty, PoolSendsMalformed, PoolSendsGarbage, client
  <2>3. pool'.up = pool.up /\ pool'.subscribed = pool.subscribed
    BY <1>10, OtherLineSent
  <2> QED
    BY <1>7, <2>1, <2>2, <2>3
<1>11. ASSUME PoolCloses  PROVE ExtranonceInv'
  <2>1. pool'.up = FALSE /\ pool'.subscribed = pool.subscribed
    BY <1>11 DEF PoolCloses, PoolEnd
  <2>2. UNCHANGED <<conn, session, work, toClient>>
    BY <1>11 DEF PoolCloses, client, wire
  <2> QED
    BY <2>1, <2>2
<1>12. CASE UNCHANGED <<conn, session, work, toClient, toPool, pool>>
  BY <1>12
<1> QED
  BY <1>1, <1>3, <1>4, <1>5, <1>6, <1>8, <1>9, <1>10, <1>11, <1>12
  DEF Next, Client, Turn, ReadNext, Pool, vars, client, wire, ConnectFails, Wake, Segment,
      ConnectionLost, Timeout, Find, RequestStop

(* The work handed to the miner is built with the extranonce1 of the       *)
(* connection its job came from, unless a reply was lost.                  *)
THEOREM WorkCarriesExtranonceHolds == Spec => []WorkCarriesExtranonce
<1>1. Init => ExtranonceInv
  BY DEF Init, ExtranonceInv, NoWork
<1>2. ExtranonceInv => WorkCarriesExtranonce
  BY DEF ExtranonceInv, WorkCarriesExtranonce
<1> QED
  BY <1>1, <1>2, TypedCorrect, ExtranonceStep, PTL DEF Spec

-----------------------------------------------------------------------------
(* The jobs.  They are announced in order, so the last one is on the wire, *)
(* behind all others, or has been handed on and no other is on the wire.   *)

Announces(line) == line.kind = "notify"

JobInv ==
  "notify" \notin cut =>
    /\ \A k \in 1 .. Len(toClient) :
         Announces(toClient[k]) => toClient[k].job \in 1 .. pool.job
    /\ \A j, k \in 1 .. Len(toClient) :
         j < k /\ Announces(toClient[j]) /\ Announces(toClient[k]) =>
           toClient[j].job < toClient[k].job
    /\ \/ pool.job = NoJob
       \/ \E k \in 1 .. Len(toClient) : Announces(toClient[k]) /\ toClient[k].job = pool.job
       \/ /\ work.conn = conn /\ work.job = pool.job
          /\ \A k \in 1 .. Len(toClient) : ~Announces(toClient[k])

LEMMA JobStep == Typed /\ JobInv /\ [Next]_vars => JobInv'
<1> SUFFICES ASSUME Typed, JobInv, [Next]_vars, "notify" \notin cut'
             PROVE  JobInv'
  BY DEF JobInv
<1>0. /\ "notify" \notin cut /\ Len(toClient) \in Nat /\ Len(toClient') \in Nat
      /\ pool \in PoolEnd /\ pool.job \in Nat
  <2>1. toClient \in Seq(Line) /\ toClient' \in Seq(Line) /\ pool \in PoolEnd
    BY StratumTypes DEF Typed
  <2>2. pool.job \in Nat
    BY <2>1 DEF PoolEnd
  <2> QED
    BY <2>1, <2>2, CutStays
<1> USE <1>0 DEF JobInv, NoJob
<1>1. ASSUME Connect  PROVE JobInv'
  <2>1. Len(toClient') = 0 /\ pool'.job = NoJob
    BY <1>1 DEF Connect
  <2> QED
    BY <2>1
<1>2. ASSUME NEW kind, Read(kind)
      PROVE  /\ Len(toClient') = Len(toClient) - 1 /\ pool' = pool
             /\ Announces(toClient[1]) <=> kind = "notify"
             /\ 1 \in 1 .. Len(toClient) /\ Head(toClient) = toClient[1]
             /\ \A k \in 1 .. Len(toClient') :
                  k + 1 \in 2 .. Len(toClient) /\ toClient'[k] = toClient[k + 1]
             /\ \A k \in 2 .. Len(toClient) :
                  k - 1 \in 1 .. Len(toClient') /\ toClient'[k - 1] = toClient[k]
  BY <1>2, ReadEffect DEF Announces
<1>3. ASSUME NEW kind, Read(kind)
      PROVE  /\ \A k \in 1 .. Len(toClient') :
                  Announces(toClient'[k]) => toClient'[k].job \in 1 .. pool'.job
             /\ \A j, k \in 1 .. Len(toClient') :
                  j < k /\ Announces(toClient'[j]) /\ Announces(toClient'[k]) =>
                    toClient'[j].job < toClient'[k].job
  <2>1. /\ Len(toClient') = Len(toClient) - 1 /\ pool' = pool
        /\ \A k \in 1 .. Len(toClient') :
             k + 1 \in 2 .. Len(toClient) /\ toClient'[k] = toClient[k + 1]
    BY <1>2, <1>3
  <2>2. ASSUME NEW k \in 1 .. Len(toClient'), Announces(toClient'[k])
        PROVE  toClient'[k].job \in 1 .. pool'.job
    <3>1. k + 1 \in 1 .. Len(toClient) /\ toClient'[k] = toClient[k + 1]
      BY <2>1
    <3> QED
      BY <2>1, <2>2, <3>1
  <2>3. ASSUME NEW j \in 1 .. Len(toClient'), NEW k \in 1 .. Len(toClient'), j < k,
               Announces(toClient'[j]), Announces(toClient'[k])
        PROVE  toClient'[j].job < toClient'[k].job
    <3>1. /\ j + 1 \in 1 .. Len(toClient) /\ toClient'[j] = toClient[j + 1]
          /\ k + 1 \in 1 .. Len(toClient) /\ toClient'[k] = toClient[k + 1]
          /\ j + 1 < k + 1
      BY <2>1, <2>3
    <3> QED
      BY <2>3, <3>1
  <2> QED
    BY <2>2, <2>3
<1>4. ASSUME ReadGarbage \/ ReadMalformed \/ ReadDifficulty \/ SubscribeReply \/ AuthorizeReply
             \/ ShareReply
      PROVE  JobInv'
  <2>1. PICK kind : Read(kind) /\ kind # "notify"
    BY <1>4 DEF ReadGarbage, ReadMalformed, ReadDifficulty, SubscribeReply, AuthorizeReply,
                ShareReply
  <2>2. work' = work /\ conn' = conn
    BY <1>4 DEF ReadGarbage, ReadMalformed, ReadDifficulty, SubscribeReply, AuthorizeReply,
                ShareReply, client
  <2>3. CASE \E k \in 1 .. Len(toClient) : Announces(toClient[k]) /\ toClient[k].job = pool.job
    <3>1. PICK k \in 1 .. Len(toClient) : Announces(toClient[k]) /\ toClient[k].job = pool.job
      BY <2>3
    <3>2. k \in 2 .. Len(toClient)
      BY <1>2, <2>1, <3>1
    <3> QED
      BY <1>2, <1>3, <2>1, <3>1, <3>2
  <2>4. CASE /\ work.conn = conn /\ work.job = pool.job
             /\ \A k \in 1 .. Len(toClient) : ~Announces(toClient[k])
    BY <1>2, <1>3, <2>1, <2>2, <2>4
  <2>5. CASE pool.job = NoJob
    BY <1>2, <1>3, <2>1, <2>5
  <2> QED
    BY <2>3, <2>4, <2>5
<1>5. ASSUME ReadNotify  PROVE JobInv'
  <2>1. Read("notify") /\ UNCHANGED client /\ work' = NewWork(Head(toClient))
    BY <1>5 DEF ReadNotify
  <2>2. Announces(toClient[1]) /\ work'.conn = conn' /\ work'.job = toClient[1].job
    BY <1>2, <2>1 DEF NewWork, client
  <2>3. CASE toClient[1].job = pool.job
    <3>1. \A k \in 2 .. Len(toClient) : ~Announces(toClient[k])
      <4>1. SUFFICES ASSUME NEW k \in 2 .. Len(toClient), Announces(toClient[k])
                     PROVE  FALSE
        OBVIOUS
      <4>2. toClient[1].job < toClient[k].job /\ toClient[k].job \in 1 .. pool.job
        BY <2>2, <4>1
      <4> QED
        BY <2>3, <4>2
    <3> QED
      BY <1>2, <1>3, <2>1, <2>2, <2>3, <3>1
  <2>4. CASE toClient[1].job # pool.job
    <3>1. toClient[1].job \in 1 .. pool.job
      BY <1>2, <2>1, <2>2
    <3>2. \E k \in 2 .. Len(toClient) : Announces(toClient[k]) /\ toClient[k].job = pool.job
      BY <1>2, <2>1, <2>2, <2>4, <3>1
    <3>3. PICK k \in 2 .. Len(toClient) : Announces(toClient[k]) /\ toClient[k].job = pool.job
      BY <3>2
    <3> QED
      BY <1>2, <1>3, <2>1, <3>3
  <2> QED
    BY <2>3, <2>4
<1>6. ASSUME Submit  PROVE JobInv'
  <2>1. UNCHANGED <<conn, pool, work>>
    BY <1>6 DEF Submit
  <2>2. /\ Len(toClient') = Len(toClient)
        /\ \A k \in 1 .. Len(toClient) :
             \/ toClient'[k] = toClient[k]
             \/ ~Announces(toClient[k]) /\ ~Announces(toClient'[k])
    BY <1>6, CutEffect, PoolLines DEF Announces
  <2> QED
    BY <2>1, <2>2
<1>7. ASSUME NEW line \in Line, Send(line), ~Announces(line),
             pool'.job = pool.job, UNCHANGED <<conn, work>>
      PROVE  JobInv'
  <2>1. /\ Len(toClient') = Len(toClient) + 1
        /\ \A k \in 1 .. Len(toClient) : toClient'[k] = toClient[k]
        /\ ~Announces(toClient'[Len(toClient) + 1])
    BY <1>7, SendEffect
  <2>2. \A k \in 1 .. Len(toClient') :
          Announces(toClient'[k]) => k \in 1 .. Len(toClient) /\ toClient'[k] = toClient[k]
    BY <2>1
  <2>3. /\ \A k \in 1 .. Len(toClient') :
             Announces(toClient'[k]) => toClient'[k].job \in 1 .. pool'.job
        /\ \A j, k \in 1 .. Len(toClient') :
             j < k /\ Announces(toClient'[j]) /\ Announces(toClient'[k]) =>
               toClient'[j].job < toClient'[k].job
    BY <1>7, <2>2
  <2>4. \A k \in 1 .. Len(toClient) : k \in 1 .. Len(toClient') /\ toClient'[k] = toClient[k]
    BY <2>1
  <2>5. CASE pool.job = NoJob
    BY <1>7, <2>3, <2>5
  <2>6. CASE \E k \in 1 .. Len(toClient) : Announces(toClient[k]) /\ toClient[k].job = pool.job
    BY <1>7, <2>3, <2>4, <2>6
  <2>7. CASE /\ work.conn = conn /\ work.job = pool.job
             /\ \A k \in 1 .. Len(toClient) : ~Announces(toClient[k])
    BY <1>7, <2>2, <2>3, <2>7
  <2> QED
    BY <2>5, <2>6, <2>7
<1>8. ASSUME PoolAnswers  PROVE JobInv'
  <2>1. PICK line \in Line : Send(line) /\ ~Announces(line)
    BY <1>8, AnswerSent DEF Announces
  <2>2. pool'.job = pool.job /\ UNCHANGED <<conn, work>>
    BY <1>8 DEF PoolAnswers, PoolEnd, client
  <2> QED
    BY <1>7, <2>1, <2>2
<1>9. ASSUME PoolNotifies  PROVE JobInv'
  <2>1. PICK line \in Line :
          /\ Send(line) /\ Announces(line) /\ line.job = pool.job + 1
          /\ pool'.job = pool.job + 1
    BY <1>9, NotifySent DEF Announces
  <2>2. /\ Len(toClient') = Len(toClient) + 1
        /\ \A k \in 1 .. Len(toClient) : toClient'[k] = toClient[k]
        /\ toClient'[Len(toClient) + 1] = line /\ Len(toClient) + 1 \in 1 .. Len(toClient')
    BY <2>1, SendEffect
  <2>3. \A k \in 1 .. Len(toClient') : k = Len(toClient) + 1 \/ k \in 1 .. Len(toClient)
    BY <2>2
  <2>4. \A k \in 1 .. Len(toClient') :
          Announces(toClient'[k]) => toClient'[k].job \in 1 .. pool'.job
    BY <2>1, <2>2, <2>3
  <2>5. ASSUME NEW j \in 1 .. Len(toClient'), NEW k \in 1 .. Len(toClient'), j < k,
               Announces(toClient'[j]), Announces(toClient'[k])
        PROVE  toClient'[j].job < toClient'[k].job
    <3>1. j \in 1 .. Len(toClient)
      BY <2>2, <2>5
    <3>2. CASE k = Len(toClient) + 1
      <4>1. toClient'[j].job \in 1 .. pool.job
        BY <2>2, <2>5, <3>1
      <4> QED
        BY <2>1, <2>2, <3>2, <4>1
    <3>3. CASE k \in 1 .. Len(toClient)
      BY <2>2, <2>5, <3>1, <3>3
    <3> QED
      BY <2>3, <3>2, <3>3
  <2> QED
    BY <2>1, <2>2, <2>4, <2>5
<1>10. ASSUME PoolSetsDifficulty \/ PoolSendsMalformed \/ PoolSendsGarbage  PROVE JobInv'
  <2>1. PICK line \in Line : Send(line) /\ ~Announces(line)
    BY <1>10, OtherLineSent DEF Announces
  <2>2. UNCHANGED <<conn, work>> /\ pool'.job = pool.job
    BY <1>10, OtherLineSent DEF PoolSetsDifficulty, PoolSendsMalformed, PoolSendsGarbage, client
  <2> QED
    BY <1>7, <2>1, <2>2
<1>11. ASSUME PoolCloses  PROVE JobInv'
  <2>1. pool'.job = pool.job /\ UNCHANGED <<conn, work, toClient>>
    BY <1>11 DEF PoolCloses, PoolEnd, client, wire
  <2> QED
    BY <2>1
<1>12. CASE UNCHANGED <<conn, work, toClient, pool>>
  BY <1>12
<1> QED
  BY <1>1, <1>4, <1>5, <1>6, <1>8, <1>9, <1>10, <1>11, <1>12
  DEF Next, Client, Turn, ReadNext, Pool, vars, client, wire, ConnectFails, Wake, Segment,
      ConnectionLost, Timeout, Find, RequestStop

(* A client that has read everything has handed on the last job, unless    *)
(* the reading of a notify was cancelled.                                  *)
THEOREM WholeJobPublishedHolds == Spec => []WholeJobPublished
<1>1. Init => JobInv
  BY DEF Init, JobInv, NoJob
<1>2. JobInv => WholeJobPublished
  BY DEF JobInv, WholeJobPublished, LatestJobPublished
<1> QED
  BY <1>1, <1>2, TypedCorrect, JobStep, PTL DEF Spec

-----------------------------------------------------------------------------
(* The counters of the dashboard.  A share is followed from the channel of *)
(* submissions to the request, to the reply and to the counter, and is in  *)
(* one of these places at a time.                                          *)

(* The shares in the channel wait there, each once.                        *)
QueueInv ==
  /\ \A k \in 1 .. Len(queue) : fate[queue[k]] = "queued"
  /\ \A j, k \in 1 .. Len(queue) : j < k => queue[j] # queue[k]

(* The requests have rising ids, and each carries a share of its own.      *)
RequestInv ==
  /\ phase = "open" => conn # 0
  /\ conn # 0 => reqId >= 3
  /\ conn = 0 => toPool = <<>> /\ toClient = <<>>
  /\ \A k \in 1 .. Len(toPool) :
       /\ toPool[k].id < reqId
       /\ toPool[k].share = NoShare <=> ~IsShareId(toPool[k].id)
       /\ toPool[k].share # NoShare => fate[toPool[k].share] = "sent"
  /\ \A j, k \in 1 .. Len(toPool) :
       j < k => /\ toPool[j].id < toPool[k].id
                /\ toPool[k].share # NoShare => toPool[j].share # toPool[k].share

Answers(line) == line.kind = "reply"

(* The replies have the ids of requests answered, in their order.          *)
AnswerInv ==
  /\ \A j \in 1 .. Len(toClient) : Answers(toClient[j]) =>
       /\ toClient[j].id < reqId
       /\ \A k \in 1 .. Len(toPool) : toClient[j].id < toPool[k].id
  /\ \A j, k \in 1 .. Len(toClient) :
       j < k /\ Answers(toClient[j]) /\ Answers(toClient[k]) =>
         toClient[j].id < toClient[k].id

Submitted   == {s \in Shares : fate[s] \in {"sent"} \cup Verdicts}
Answered(v) == {s \in Shares : fate[s] = v}

AnswersShare(line, v) == Answers(line) /\ IsShareId(line.id) /\ line.verdict = v

Unread(v) ==
  {id \in Nat : \E k \in 1 .. Len(toClient) : AnswersShare(toClient[k], v) /\ toClient[k].id = id}

Counted(v) == IF v = "ok" THEN stats.accepted ELSE stats.rejected

Tallied == {"ok", "error"}

(* The books: what is counted and what is still to be read do not exceed   *)
(* what the pool has answered, and are all of it on the first connection   *)
(* as long as no reply was cut.                                            *)
BooksInv ==
  /\ stats.submitted = Cardinality(Submitted)
  /\ \A v \in Tallied :
       /\ Counted(v) + Cardinality(Unread(v)) <= Cardinality(Answered(v))
       /\ conn <= 1 /\ "reply" \notin cut =>
            Counted(v) + Cardinality(Unread(v)) = Cardinality(Answered(v))

-----------------------------------------------------------------------------
(* The steps, by what they do to shares, requests and replies.             *)

Idle ==
  /\ UNCHANGED <<conn, reqId, toPool, toClient, queue, fate, stats, cut>>
  /\ phase' = "open" => phase = "open"

Takes ==
  /\ \E kind : Read(kind)
  /\ UNCHANGED <<conn, reqId, toPool, queue, fate, cut>>
  /\ stats'.submitted = stats.submitted
  /\ \A v \in Tallied :
       Counted(v)' = IF AnswersShare(toClient[1], v) THEN Counted(v) + 1 ELSE Counted(v)

Tells ==
  /\ \E line \in Line : Send(line) /\ ~Answers(line)
  /\ UNCHANGED <<phase, conn, reqId, toPool, queue, fate, stats, cut>>

Replies ==
  /\ toPool # <<>>
  /\ \E verdict \in Verdicts :
       /\ Send(Reply(Head(toPool).id, verdict)) /\ Reply(Head(toPool).id, verdict) \in Line
       /\ fate' = IF Head(toPool).share = NoShare THEN fate
                  ELSE [fate EXCEPT ![Head(toPool).share] = verdict]
  /\ toPool' = Tail(toPool)
  /\ UNCHANGED <<phase, conn, reqId, queue, stats, cut>>

(* What reading a line does to the counters.                               *)
LEMMA ShareReplyCounts ==
  ASSUME Typed, ShareReply
  PROVE  Takes
<1>1. stats \in Counters /\ toClient[1] = Head(toClient)
  BY ReadEffect DEF Typed, ShareReply
<1>2. /\ \E kind : Read(kind)
      /\ UNCHANGED <<conn, reqId, toPool, queue, fate, cut>>
      /\ Answers(toClient[1]) /\ IsShareId(toClient[1].id)
  BY <1>1 DEF ShareReply, Read, client, miner, Answers
<1>3. CASE toClient[1].verdict = "ok"
  <2>1. stats' = [stats EXCEPT !.accepted = @ + 1, !.blocks = @ + 1]
    BY <1>1, <1>3 DEF ShareReply
  <2>2. /\ stats'.submitted = stats.submitted /\ stats'.rejected = stats.rejected
        /\ stats'.accepted = stats.accepted + 1
    BY <1>1, <2>1 DEF Counters
  <2> QED
    BY <1>2, <1>3, <2>2 DEF Takes, Tallied, Counted, AnswersShare
<1>4. CASE toClient[1].verdict = "error"
  <2>1. stats' = [stats EXCEPT !.rejected = @ + 1]
    BY <1>1, <1>4 DEF ShareReply
  <2>2. /\ stats'.submitted = stats.submitted /\ stats'.accepted = stats.accepted
        /\ stats'.rejected = stats.rejected + 1
    BY <1>1, <2>1 DEF Counters
  <2> QED
    BY <1>2, <1>4, <2>2 DEF Takes, Tallied, Counted, AnswersShare
<1>5. CASE toClient[1].verdict \notin Tallied
  <2>1. stats' = stats
    BY <1>1, <1>5 DEF ShareReply, Tallied
  <2> QED
    BY <1>2, <1>5, <2>1 DEF Takes, Tallied, Counted, AnswersShare
<1> QED
  BY <1>3, <1>4, <1>5 DEF Tallied

LEMMA OtherReads ==
  ASSUME Typed, ReadGarbage \/ ReadMalformed \/ ReadDifficulty \/ ReadNotify
                \/ SubscribeReply \/ AuthorizeReply
  PROVE  Takes
<1>1. PICK kind : /\ Read(kind)
                  /\ kind = "reply" => Head(toClient).id \in {1, 2}
  BY DEF ReadGarbage, ReadMalformed, ReadDifficulty, ReadNotify, SubscribeReply, AuthorizeReply
<1>2. UNCHANGED <<conn, reqId, toPool, queue, fate, cut, stats>>
  BY DEF ReadGarbage, ReadMalformed, ReadDifficulty, ReadNotify, SubscribeReply, AuthorizeReply,
         Read, client, miner
<1>3. \A v \in Tallied : ~AnswersShare(toClient[1], v)
  BY <1>1, ReadEffect DEF AnswersShare, Answers, IsShareId
<1> QED
  BY <1>1, <1>2, <1>3 DEF Takes, Counted

LEMMA StepKinds ==
  ASSUME Typed, [Next]_vars
  PROVE  Idle \/ Connect \/ Takes \/ Submit \/ (\E s \in Shares : Find(s)) \/ Tells \/ Replies
<1>1. ASSUME ConnectFails \/ Wake \/ Segment \/ ConnectionLost \/ Timeout \/ RequestStop
             \/ PoolCloses \/ UNCHANGED vars
      PROVE  Idle
  <2>1. UNCHANGED <<conn, reqId, toPool, toClient, queue, fate, stats, cut>>
    BY <1>1 DEF ConnectFails, Wake, Segment, ConnectionLost, Timeout, RequestStop, PoolCloses,
                vars, client, wire, miner
  <2>2. phase' = "open" => phase = "open"
    BY <1>1 DEF ConnectFails, Wake, Segment, ConnectionLost, Timeout, RequestStop, PoolCloses,
                Fail, vars
  <2> QED
    BY <2>1, <2>2 DEF Idle
<1>2. ASSUME PoolAnswers  PROVE Replies
  <2>1. PICK verdict \in Verdicts :
          /\ Send(Reply(Head(toPool).id, verdict))
          /\ fate' = IF Head(toPool).share = NoShare THEN fate
                     ELSE [fate EXCEPT ![Head(toPool).share] = verdict]
    BY <1>2 DEF PoolAnswers
  <2>2. Reply(Head(toPool).id, verdict) \in Line
    BY <1>2, FirstRequest, PoolLines DEF PoolAnswers
  <2> QED
    BY <1>2, <2>1, <2>2 DEF PoolAnswers, Replies, client
<1>3. ASSUME PoolNotifies \/ PoolSetsDifficulty \/ PoolSendsMalformed \/ PoolSendsGarbage
      PROVE  Tells
  <2>1. PICK line \in Line : Send(line) /\ ~Answers(line)
    BY <1>3, NotifySent, OtherLineSent DEF Answers
  <2>2. UNCHANGED <<phase, conn, reqId, toPool, queue, fate, stats, cut>>
    BY <1>3 DEF PoolNotifies, PoolSetsDifficulty, PoolSendsMalformed, PoolSendsGarbage,
                client, miner
  <2> QED
    BY <2>1, <2>2 DEF Tells
<1>4. ReadNext => Takes \/ Idle
  BY <1>1, ShareReplyCounts, OtherReads DEF ReadNext
<1>5. Client => Idle \/ Connect \/ Takes \/ Submit
  BY <1>1, <1>4 DEF Client, Turn
<1>6. Pool => Idle \/ Tells \/ Replies
  BY <1>1, <1>2, <1>3 DEF Pool
<1> QED
  BY <1>1, <1>5, <1>6 DEF Next

-----------------------------------------------------------------------------
(* Two facts about Submit and the pool's replies used below.               *)

LEMMA SubmitTakes ==
  ASSUME Typed, Submit
  PROVE  /\ Head(queue) = queue[1] /\ queue[1] \in Shares /\ Len(queue) \in Nat \ {0}
         /\ Len(queue') = Len(queue) - 1
         /\ \A k \in 1 .. Len(queue') : queue'[k] = queue[k + 1]
         /\ fate' = [fate EXCEPT ![queue[1]] = "sent"]
         /\ phase = "open" /\ conn' = conn /\ reqId' = reqId + 1 /\ reqId \in Nat
         /\ stats'.submitted = stats.submitted + 1
         /\ UNCHANGED <<stats.accepted, stats.rejected>>
<1>1. queue \in Seq(Shares) /\ queue # <<>> /\ stats \in Counters /\ reqId \in Nat
  BY DEF Submit, Typed
<1>2. /\ queue' = Tail(queue) /\ fate' = [fate EXCEPT ![Head(queue)] = "sent"]
      /\ phase = "open" /\ conn' = conn /\ reqId' = reqId + 1
      /\ stats' = [stats EXCEPT !.submitted = @ + 1]
  BY DEF Submit
<1>3. /\ stats'.submitted = stats.submitted + 1
      /\ UNCHANGED <<stats.accepted, stats.rejected>>
  BY <1>1, <1>2 DEF Counters
<1> QED
  BY <1>1, <1>2, <1>3, ReadFirst

(* The request of a share is the last one, unless the write failed.        *)
LEMMA SubmitAsks ==
  ASSUME Typed, Submit
  PROVE  /\ Len(toPool) \in Nat
         /\ \A k \in 1 .. Len(toPool) : toPool'[k] = toPool[k]
         /\ \/ Len(toPool') = Len(toPool)
            \/ /\ Len(toPool') = Len(toPool) + 1
               /\ toPool'[Len(toPool) + 1].id = reqId
               /\ toPool'[Len(toPool) + 1].share = queue[1]
<1> DEFINE request == Request(reqId, queue[1])
<1>1. request \in Asked /\ request.id = reqId /\ request.share = queue[1]
  BY SubmitTakes DEF Request, Asked
<1>2. toPool \in Seq(Asked) /\ (toPool' = toPool \/ toPool' = Append(toPool, request))
  BY SubmitTakes DEF Submit, Typed
<1> HIDE DEF request
<1>3. CASE toPool' = toPool
  BY <1>2, <1>3
<1>4. CASE toPool' = Append(toPool, request)
  BY <1>1, <1>2, <1>4, AppendLast
<1> QED
  BY <1>2, <1>3, <1>4

LEMMA RepliesTo ==
  ASSUME Typed, Replies
  PROVE  \E verdict \in Verdicts, line \in Line :
           /\ Send(line) /\ line.kind = "reply" /\ line.id = toPool[1].id
           /\ line.verdict = verdict
           /\ fate' = IF toPool[1].share = NoShare THEN fate
                      ELSE [fate EXCEPT ![toPool[1].share] = verdict]
           /\ toPool[1].id \in Nat /\ toPool[1].share \in Shares \cup {NoShare}
           /\ Len(toPool) \in Nat \ {0} /\ Len(toPool') = Len(toPool) - 1
           /\ \A k \in 1 .. Len(toPool') : toPool'[k] = toPool[k + 1]
<1>1. PICK verdict \in Verdicts :
        /\ Send(Reply(Head(toPool).id, verdict)) /\ Reply(Head(toPool).id, verdict) \in Line
        /\ fate' = IF Head(toPool).share = NoShare THEN fate
                   ELSE [fate EXCEPT ![Head(toPool).share] = verdict]
  BY DEF Replies
<1>2. toPool \in Seq(Asked) /\ toPool # <<>> /\ toPool' = Tail(toPool)
  BY DEF Replies, Typed
<1>3. /\ Head(toPool) = toPool[1] /\ toPool[1] \in Asked
      /\ Len(toPool) \in Nat \ {0} /\ Len(toPool') = Len(toPool) - 1
      /\ \A k \in 1 .. Len(toPool') : toPool'[k] = toPool[k + 1]
  BY <1>2, ReadFirst
<1>4. toPool[1].id \in Nat /\ toPool[1].share \in Shares \cup {NoShare}
  BY <1>3 DEF Asked
<1>5. /\ Reply(toPool[1].id, verdict).kind = "reply"
      /\ Reply(toPool[1].id, verdict).id = toPool[1].id
      /\ Reply(toPool[1].id, verdict).verdict = verdict
  BY DEF Reply
<1> QED
  BY <1>1, <1>3, <1>4, <1>5

-----------------------------------------------------------------------------
LEMMA QueueStep == Typed /\ QueueInv /\ RequestInv /\ [Next]_vars => QueueInv'
<1> SUFFICES ASSUME Typed, QueueInv, RequestInv, [Next]_vars
             PROVE  QueueInv'
  OBVIOUS
<1>0. queue \in Seq(Shares) /\ Len(queue) \in Nat /\ fate \in [Shares -> Fates]
      /\ \A k \in 1 .. Len(queue) : queue[k] \in Shares
  BY DEF Typed
<1>1. CASE Idle \/ Connect \/ Takes \/ Tells
  BY <1>1 DEF QueueInv, Idle, Connect, Takes, Tells, miner
<1>2. CASE Submit
  <2>1. /\ Len(queue') = Len(queue) - 1 /\ queue[1] \in Shares
        /\ \A k \in 1 .. Len(queue') : queue'[k] = queue[k + 1]
        /\ fate' = [fate EXCEPT ![queue[1]] = "sent"]
    BY <1>2, SubmitTakes
  <2>2. \A k \in 1 .. Len(queue') : k + 1 \in 2 .. Len(queue) /\ 1 \in 1 .. Len(queue)
    BY <1>0, <2>1
  <2>3. ASSUME NEW k \in 1 .. Len(queue')  PROVE fate'[queue'[k]] = "queued"
    <3>1. queue[k + 1] # queue[1] /\ fate[queue[k + 1]] = "queued"
      BY <2>2 DEF QueueInv
    <3> QED
      BY <1>0, <2>1, <2>2, <3>1
  <2>4. ASSUME NEW j \in 1 .. Len(queue'), NEW k \in 1 .. Len(queue'), j < k
        PROVE  queue'[j] # queue'[k]
    <3>1. j + 1 \in 1 .. Len(queue) /\ k + 1 \in 1 .. Len(queue) /\ j + 1 < k + 1
      BY <2>2, <2>4
    <3> QED
      BY <2>1, <3>1 DEF QueueInv
  <2> QED
    BY <2>3, <2>4 DEF QueueInv
<1>3. ASSUME NEW s \in Shares, Find(s)  PROVE QueueInv'
  <2>1. fate[s] = "unfound" /\ \A k \in 1 .. Len(queue) : queue[k] # s
    BY <1>3 DEF Find, QueueInv
  <2>2. CASE queue' = queue /\ fate' = [fate EXCEPT ![s] = "dropped"]
    BY <1>0, <2>1, <2>2 DEF QueueInv
  <2>3. CASE queue' = Append(queue, s) /\ fate' = [fate EXCEPT ![s] = "queued"]
    <3>1. /\ Len(queue') = Len(queue) + 1 /\ queue'[Len(queue) + 1] = s
          /\ \A k \in 1 .. Len(queue) : queue'[k] = queue[k]
      BY <1>0, <2>3, AppendLast
    <3>2. \A k \in 1 .. Len(queue') : k \in 1 .. Len(queue) \/ k = Len(queue) + 1
      BY <1>0, <3>1
    <3>3. \A k \in 1 .. Len(queue') : fate'[queue'[k]] = "queued"
      BY <1>0, <2>1, <2>3, <3>1, <3>2 DEF QueueInv
    <3>4. ASSUME NEW j \in 1 .. Len(queue'), NEW k \in 1 .. Len(queue'), j < k
          PROVE  queue'[j] # queue'[k]
      <4>1. j \in 1 .. Len(queue)
        BY <1>0, <3>1, <3>4
      <4> QED
        BY <2>1, <3>1, <3>2, <3>4, <4>1 DEF QueueInv
    <3> QED
      BY <3>3, <3>4 DEF QueueInv
  <2> QED
    BY <1>3, <2>2, <2>3 DEF Find
<1>4. CASE Replies
  <2>1. PICK verdict \in Verdicts :
          /\ fate' = IF toPool[1].share = NoShare THEN fate
                     ELSE [fate EXCEPT ![toPool[1].share] = verdict]
          /\ Len(toPool) \in Nat \ {0}
    BY <1>4, RepliesTo
  <2>2. toPool[1].share # NoShare => fate[toPool[1].share] = "sent"
    BY <2>1 DEF RequestInv
  <2>3. \A k \in 1 .. Len(queue) : fate'[queue[k]] = fate[queue[k]]
    BY <1>0, <2>1, <2>2 DEF QueueInv
  <2>4. queue' = queue
    BY <1>4 DEF Replies
  <2> QED
    BY <2>3, <2>4 DEF QueueInv
<1> QED
  BY <1>1, <1>2, <1>3, <1>4, StepKinds

LEMMA RequestStep == Typed /\ QueueInv /\ RequestInv /\ [Next]_vars => RequestInv'
<1> SUFFICES ASSUME Typed, QueueInv, RequestInv, [Next]_vars
             PROVE  RequestInv'
  OBVIOUS
<1>0. /\ toPool \in Seq(Asked) /\ Len(toPool) \in Nat /\ fate \in [Shares -> Fates]
      /\ conn \in Nat /\ reqId \in Nat
      /\ \A k \in 1 .. Len(toPool) : toPool[k] \in Asked
  BY DEF Typed
<1>1. \A k \in 1 .. Len(toPool) :
        toPool[k].id \in Nat /\ toPool[k].share \in Shares \cup {NoShare}
  BY <1>0 DEF Asked
<1>2. CASE Idle
  BY <1>2 DEF Idle, RequestInv
<1>3. CASE Connect
  <2>1. /\ toPool' = <<Request(1, NoShare), Request(2, NoShare)>>
        /\ reqId' = 3 /\ conn' = conn + 1
    BY <1>3 DEF Connect
  <2>2. /\ Len(toPool') = 2 /\ toPool'[1].id = 1 /\ toPool'[2].id = 2
        /\ toPool'[1].share = NoShare /\ toPool'[2].share = NoShare
    BY <2>1 DEF Request
  <2>3. \A k \in 1 .. Len(toPool') : k = 1 \/ k = 2
    BY <2>2
  <2> QED
    BY <1>0, <2>1, <2>2, <2>3 DEF RequestInv, IsShareId
<1>4. CASE Takes
  <2>1. PICK kind : Read(kind)
    BY <1>4 DEF Takes
  <2>2. phase = "open" /\ UNCHANGED <<conn, reqId, toPool, fate>>
    BY <1>4, <2>1 DEF Takes, Read
  <2> QED
    BY <2>2 DEF RequestInv
<1>5. CASE Submit
  <2>1. /\ \A k \in 1 .. Len(toPool) : toPool'[k] = toPool[k]
        /\ \/ Len(toPool') = Len(toPool)
           \/ /\ Len(toPool') = Len(toPool) + 1
              /\ toPool'[Len(toPool) + 1].id = reqId
              /\ toPool'[Len(toPool) + 1].share = queue[1]
    BY <1>5, SubmitAsks
  <2>2. /\ queue[1] \in Shares /\ Len(queue) \in Nat \ {0}
        /\ fate' = [fate EXCEPT ![queue[1]] = "sent"]
        /\ phase = "open" /\ conn' = conn /\ reqId' = reqId + 1
    BY <1>5, SubmitTakes
  <2>3. queue[1] # NoShare /\ fate[queue[1]] = "queued" /\ conn # 0 /\ reqId >= 3
    BY <2>2 DEF QueueInv, RequestInv, NoShare, Shares
  <2>4. \A k \in 1 .. Len(toPool') :
          \/ k \in 1 .. Len(toPool)
          \/ /\ k = Len(toPool) + 1 /\ toPool'[k].id = reqId /\ toPool'[k].share = queue[1]
    BY <1>0, <2>1
  <2>5. ASSUME NEW k \in 1 .. Len(toPool')
        PROVE  /\ toPool'[k].id < reqId'
               /\ toPool'[k].share = NoShare <=> ~IsShareId(toPool'[k].id)
               /\ toPool'[k].share # NoShare => fate'[toPool'[k].share] = "sent"
    <3>1. CASE k \in 1 .. Len(toPool)
      BY <1>0, <1>1, <2>1, <2>2, <3>1 DEF RequestInv
    <3>2. CASE k = Len(toPool) + 1 /\ toPool'[k].id = reqId /\ toPool'[k].share = queue[1]
      BY <1>0, <2>2, <2>3, <3>2 DEF IsShareId
    <3> QED
      BY <2>4, <3>1, <3>2
  <2>6. ASSUME NEW j \in 1 .. Len(toPool'), NEW k \in 1 .. Len(toPool'), j < k
        PROVE  /\ toPool'[j].id < toPool'[k].id
               /\ toPool'[k].share # NoShare => toPool'[j].share # toPool'[k].share
    <3>1. j \in 1 .. Len(toPool)
      BY <1>0, <2>1, <2>6
    <3>2. CASE k \in 1 .. Len(toPool)
      BY <2>1, <2>6, <3>1, <3>2 DEF RequestInv
    <3>3. CASE k = Len(toPool) + 1 /\ toPool'[k].id = reqId /\ toPool'[k].share = queue[1]
      <4>1. toPool'[j].id < reqId /\ toPool'[j].share # queue[1]
        BY <2>1, <2>3, <3>1 DEF RequestInv
      <4> QED
        BY <3>3, <4>1
    <3> QED
      BY <2>4, <3>2, <3>3
  <2> QED
    BY <1>0, <2>2, <2>3, <2>5, <2>6 DEF RequestInv
<1>6. ASSUME NEW s \in Shares, Find(s)  PROVE RequestInv'
  <2>1. /\ fate[s] = "unfound" /\ UNCHANGED <<phase, conn, reqId, toPool, toClient>>
        /\ \E f \in {"queued", "dropped"} : fate' = [fate EXCEPT ![s] = f]
    BY <1>6 DEF Find, client, wire
  <2> QED
    BY <1>0, <1>1, <2>1 DEF RequestInv
<1>7. CASE Tells
  <2>1. UNCHANGED <<phase, conn, reqId, toPool, fate>> /\ phase = "open"
    BY <1>7 DEF Tells, Send, PoolUp
  <2> QED
    BY <2>1 DEF RequestInv
<1>8. CASE Replies
  <2>1. PICK verdict \in Verdicts, line \in Line :
          /\ Send(line)
          /\ fate' = IF toPool[1].share = NoShare THEN fate
                     ELSE [fate EXCEPT ![toPool[1].share] = verdict]
          /\ Len(toPool) \in Nat \ {0} /\ Len(toPool') = Len(toPool) - 1
          /\ \A k \in 1 .. Len(toPool') : toPool'[k] = toPool[k + 1]
    BY <1>8, RepliesTo
  <2>2. UNCHANGED <<phase, conn, reqId>> /\ phase = "open"
    BY <1>8, <2>1 DEF Replies, Send, PoolUp
  <2>3. \A k \in 1 .. Len(toPool') :
          k + 1 \in 2 .. Len(toPool) /\ 1 \in 1 .. Len(toPool) /\ toPool'[k] = toPool[k + 1]
    BY <2>1
  <2>4. ASSUME NEW k \in 1 .. Len(toPool'), toPool'[k].share # NoShare
        PROVE  fate'[toPool'[k].share] = "sent"
    <3>1. /\ toPool[k + 1].share # toPool[1].share /\ fate[toPool[k + 1].share] = "sent"
          /\ toPool[k + 1].share \in Shares
      BY <1>1, <2>3, <2>4 DEF RequestInv
    <3>2. \A t \in Shares : t # toPool[1].share => fate'[t] = fate[t]
      BY <1>0, <2>1
    <3> QED
      BY <2>3, <3>1, <3>2
  <2>5. \A k \in 1 .. Len(toPool') :
          /\ toPool'[k].id < reqId'
          /\ toPool'[k].share = NoShare <=> ~IsShareId(toPool'[k].id)
    BY <2>2, <2>3 DEF RequestInv
  <2>6. ASSUME NEW j \in 1 .. Len(toPool'), NEW k \in 1 .. Len(toPool'), j < k
        PROVE  /\ toPool'[j].id < toPool'[k].id
               /\ toPool'[k].share # NoShare => toPool'[j].share # toPool'[k].share
    <3>1. j + 1 \in 1 .. Len(toPool) /\ k + 1 \in 1 .. Len(toPool) /\ j + 1 < k + 1
      BY <2>3, <2>6
    <3>2. /\ toPool[j + 1].id < toPool[k + 1].id
          /\ toPool[k + 1].share # NoShare => toPool[j + 1].share # toPool[k + 1].share
      BY <3>1 DEF RequestInv
    <3>3. toPool'[j] = toPool[j + 1] /\ toPool'[k] = toPool[k + 1]
      BY <2>3
    <3> QED
      BY <3>2, <3>3
  <2> QED
    BY <2>2, <2>4, <2>5, <2>6 DEF RequestInv
<1> QED
  BY <1>2, <1>3, <1>4, <1>5, <1>6, <1>7, <1>8, StepKinds

LEMMA AnswerStep == Typed /\ RequestInv /\ AnswerInv /\ [Next]_vars => AnswerInv'
<1> SUFFICES ASSUME Typed, RequestInv, AnswerInv, [Next]_vars
             PROVE  AnswerInv'
  OBVIOUS
<1>0. /\ Len(toClient) \in Nat /\ Len(toPool) \in Nat /\ reqId \in Nat
      /\ \A k \in 1 .. Len(toClient) : Answers(toClient[k]) => toClient[k].id \in Nat
      /\ \A k \in 1 .. Len(toPool) : toPool[k].id \in Nat
  <2>1. toClient \in Seq(Line) /\ toPool \in Seq(Asked) /\ reqId \in Nat
    BY DEF Typed
  <2>2. \A k \in 1 .. Len(toClient) : toClient[k] \in Line
    BY <2>1
  <2>3. \A k \in 1 .. Len(toPool) : toPool[k] \in Asked
    BY <2>1
  <2> QED
    BY <2>1, <2>2, <2>3, LineParts DEF Answers, Asked
<1>1. CASE Idle
  BY <1>1 DEF Idle, AnswerInv
<1>2. CASE Connect
  <2>1. Len(toClient') = 0
    BY <1>2 DEF Connect
  <2> QED
    BY <2>1 DEF AnswerInv
<1>3. CASE Takes
  <2>1. /\ Len(toClient') = Len(toClient) - 1
        /\ \A k \in 1 .. Len(toClient') : toClient'[k] = toClient[k + 1]
    BY <1>3, ReadEffect DEF Takes
  <2>2. \A k \in 1 .. Len(toClient') : k + 1 \in 1 .. Len(toClient)
    BY <1>0, <2>1
  <2>3. UNCHANGED <<toPool, reqId>>
    BY <1>3 DEF Takes
  <2>4. ASSUME NEW j \in 1 .. Len(toClient'), Answers(toClient'[j])
        PROVE  /\ toClient'[j].id < reqId'
               /\ \A k \in 1 .. Len(toPool') : toClient'[j].id < toPool'[k].id
    BY <2>1, <2>2, <2>3, <2>4 DEF AnswerInv
  <2>5. ASSUME NEW j \in 1 .. Len(toClient'), NEW k \in 1 .. Len(toClient'), j < k,
               Answers(toClient'[j]), Answers(toClient'[k])
        PROVE  toClient'[j].id < toClient'[k].id
    <3>1. j + 1 < k + 1 /\ Answers(toClient[j + 1]) /\ Answers(toClient[k + 1])
      BY <2>1, <2>5
    <3>2. toClient[j + 1].id < toClient[k + 1].id
      BY <2>2, <3>1 DEF AnswerInv
    <3> QED
      BY <2>1, <3>2
  <2> QED
    BY <2>4, <2>5 DEF AnswerInv
<1>4. CASE Submit
  <2>1. /\ Len(toClient') = Len(toClient)
        /\ \A k \in 1 .. Len(toClient) : Answers(toClient'[k]) => toClient'[k] = toClient[k]
    BY <1>4, CutEffect, PoolLines DEF Answers
  <2>2. /\ \A k \in 1 .. Len(toPool) : toPool'[k] = toPool[k]
        /\ \/ Len(toPool') = Len(toPool)
           \/ /\ Len(toPool') = Len(toPool) + 1
              /\ toPool'[Len(toPool) + 1].id = reqId
        /\ reqId' = reqId + 1
    BY <1>4, SubmitAsks, SubmitTakes
  <2>3. \A k \in 1 .. Len(toPool') :
          \/ k \in 1 .. Len(toPool) /\ toPool'[k].id = toPool[k].id
          \/ toPool'[k].id = reqId
    BY <1>0, <2>2
  <2>4. ASSUME NEW j \in 1 .. Len(toClient'), Answers(toClient'[j])
        PROVE  /\ toClient'[j].id < reqId'
               /\ \A k \in 1 .. Len(toPool') : toClient'[j].id < toPool'[k].id
    <3>1. j \in 1 .. Len(toClient) /\ Answers(toClient[j]) /\ toClient'[j].id = toClient[j].id
      BY <2>1, <2>4
    <3>2. toClient[j].id < reqId /\ \A k \in 1 .. Len(toPool) : toClient[j].id < toPool[k].id
      BY <3>1 DEF AnswerInv
    <3> QED
      BY <1>0, <2>2, <2>3, <3>1, <3>2
  <2>5. \A j, k \in 1 .. Len(toClient') :
          j < k /\ Answers(toClient'[j]) /\ Answers(toClient'[k]) =>
            toClient'[j].id < toClient'[k].id
    BY <2>1 DEF AnswerInv
  <2> QED
    BY <2>4, <2>5 DEF AnswerInv
<1>5. CASE \E s \in Shares : Find(s)
  <2>1. UNCHANGED <<toClient, toPool, reqId>>
    BY <1>5 DEF Find, client, wire
  <2> QED
    BY <2>1 DEF AnswerInv
<1>6. CASE Tells
  <2>1. PICK line \in Line : Send(line) /\ ~Answers(line)
    BY <1>6 DEF Tells
  <2>2. /\ Len(toClient') = Len(toClient) + 1
        /\ \A k \in 1 .. Len(toClient) : toClient'[k] = toClient[k]
        /\ ~Answers(toClient'[Len(toClient) + 1])
        /\ UNCHANGED <<toPool, reqId>>
    BY <1>6, <2>1, SendEffect DEF Tells
  <2>3. \A k \in 1 .. Len(toClient') :
          Answers(toClient'[k]) => k \in 1 .. Len(toClient) /\ toClient'[k] = toClient[k]
    BY <1>0, <2>2
  <2> QED
    BY <2>2, <2>3 DEF AnswerInv
<1>7. CASE Replies
  <2>1. PICK line \in Line :
          /\ Send(line) /\ line.kind = "reply" /\ line.id = toPool[1].id
          /\ Len(toPool) \in Nat \ {0} /\ Len(toPool') = Len(toPool) - 1
          /\ \A k \in 1 .. Len(toPool') : toPool'[k] = toPool[k + 1]
    BY <1>7, RepliesTo
  <2>2. /\ Len(toClient') = Len(toClient) + 1
        /\ \A k \in 1 .. Len(toClient) : toClient'[k] = toClient[k]
        /\ toClient'[Len(toClient) + 1] = line
    BY <2>1, SendEffect
  <2>3. /\ \A k \in 1 .. Len(toClient') : k \in 1 .. Len(toClient) \/ k = Len(toClient) + 1
        /\ \A k \in 1 .. Len(toPool') : k + 1 \in 1 .. Len(toPool) /\ 1 < k + 1
        /\ 1 \in 1 .. Len(toPool)
    BY <1>0, <2>1, <2>2
  <2>4. reqId' = reqId
    BY <1>7 DEF Replies
  <2>5. toPool[1].id < reqId /\ \A k \in 1 .. Len(toPool') : toPool[1].id < toPool'[k].id
    BY <2>1, <2>3 DEF RequestInv
  <2>6. \A j \in 1 .. Len(toClient) : Answers(toClient[j]) => toClient[j].id < toPool[1].id
    BY <2>3 DEF AnswerInv
  <2>7. ASSUME NEW j \in 1 .. Len(toClient'), Answers(toClient'[j])
        PROVE  /\ toClient'[j].id < reqId'
               /\ \A k \in 1 .. Len(toPool') : toClient'[j].id < toPool'[k].id
    <3>1. CASE j \in 1 .. Len(toClient)
      BY <2>1, <2>2, <2>3, <2>4, <2>7, <3>1 DEF AnswerInv
    <3>2. CASE j = Len(toClient) + 1
      BY <2>1, <2>2, <2>4, <2>5, <3>2
    <3> QED
      BY <2>3, <3>1, <3>2
  <2>8. ASSUME NEW j \in 1 .. Len(toClient'), NEW k \in 1 .. Len(toClient'), j < k,
               Answers(toClient'[j]), Answers(toClient'[k])
        PROVE  toClient'[j].id < toClient'[k].id
    <3>1. j \in 1 .. Len(toClient)
      BY <1>0, <2>2, <2>8
    <3>2. CASE k \in 1 .. Len(toClient)
      BY <2>2, <2>8, <3>1, <3>2 DEF AnswerInv
    <3>3. CASE k = Len(toClient) + 1
      BY <2>1, <2>2, <2>6, <2>8, <3>1, <3>3
    <3> QED
      BY <2>3, <3>2, <3>3
  <2> QED
    BY <2>7, <2>8 DEF AnswerInv
<1> QED
  BY <1>1, <1>2, <1>3, <1>4, <1>5, <1>6, <1>7, StepKinds

-----------------------------------------------------------------------------
(* The sets that are counted, and how the steps change them.               *)

LEMMA CountedSetsFinite ==
  ASSUME Typed, AnswerInv
  PROVE  /\ IsFiniteSet(Submitted) /\ \A v : IsFiniteSet(Answered(v)) /\ IsFiniteSet(Unread(v))
         /\ \A v \in Tallied : Counted(v) \in Nat
<1>1. IsFiniteSet(Shares)
  BY StratumAssumption, FS_Interval DEF Shares
<1>2. IsFiniteSet(Submitted)
  <2>1. Submitted \in SUBSET Shares
    BY DEF Submitted
  <2> QED
    BY <1>1, <2>1, FS_Subset
<1>3. ASSUME NEW v  PROVE IsFiniteSet(Answered(v))
  <2>1. Answered(v) \in SUBSET Shares
    BY DEF Answered
  <2> QED
    BY <1>1, <2>1, FS_Subset
<1>4. ASSUME NEW v  PROVE IsFiniteSet(Unread(v))
  <2>1. reqId \in Nat
    BY DEF Typed
  <2>2. Unread(v) \in SUBSET Nat
    BY DEF Unread
  <2>3. \A id \in Unread(v) : id <= reqId
    BY <2>1 DEF Unread, AnswersShare, AnswerInv
  <2> QED
    BY <2>1, <2>2, <2>3, FS_BoundedSetOfNaturals
<1>5. \A v \in Tallied : Counted(v) \in Nat
  BY DEF Typed, Counters, Counted
<1> QED
  BY <1>2, <1>3, <1>4, <1>5

LEMMA UnreadWhenTaken ==
  ASSUME Typed, AnswerInv, Takes, NEW v
  PROVE  /\ AnswersShare(toClient[1], v) =>
              toClient[1].id \in Unread(v) /\ Unread(v)' = Unread(v) \ {toClient[1].id}
         /\ ~AnswersShare(toClient[1], v) => Unread(v)' = Unread(v)
<1>1. /\ Len(toClient) \in Nat \ {0} /\ Len(toClient') = Len(toClient) - 1
      /\ toClient[1] \in Line
      /\ \A k \in 1 .. Len(toClient') : toClient'[k] = toClient[k + 1]
  BY ReadEffect DEF Takes
<1>2. /\ \A k \in 1 .. Len(toClient') : k + 1 \in 1 .. Len(toClient) /\ 1 < k + 1
      /\ \A k \in 1 .. Len(toClient) :
           k = 1 \/ (k - 1 \in 1 .. Len(toClient') /\ toClient'[k - 1] = toClient[k])
      /\ 1 \in 1 .. Len(toClient)
  BY <1>1
<1>3. ASSUME NEW id \in Nat
      PROVE  id \in Unread(v)' <=>
               \E k \in 1 .. Len(toClient) :
                 k # 1 /\ AnswersShare(toClient[k], v) /\ toClient[k].id = id
  BY <1>1, <1>2 DEF Unread
<1>4. ASSUME NEW id \in Nat
      PROVE  id \in Unread(v) <=>
               \/ AnswersShare(toClient[1], v) /\ toClient[1].id = id
               \/ id \in Unread(v)'
  BY <1>2, <1>3 DEF Unread
<1>5. Unread(v) \subseteq Nat /\ Unread(v)' \subseteq Nat
  BY DEF Unread
<1>6. CASE AnswersShare(toClient[1], v)
  <2>1. toClient[1].id \in Nat
    BY <1>1, <1>6, LineParts DEF AnswersShare, Answers
  <2>2. toClient[1].id \notin Unread(v)'
    <3>1. SUFFICES ASSUME NEW k \in 1 .. Len(toClient), k # 1, AnswersShare(toClient[k], v),
                          toClient[k].id = toClient[1].id
                   PROVE  FALSE
      BY <1>3, <2>1
    <3>2. 1 < k /\ Answers(toClient[1]) /\ Answers(toClient[k])
      BY <1>6, <3>1 DEF AnswersShare
    <3>3. toClient[1].id < toClient[k].id
      BY <1>2, <3>2 DEF AnswerInv
    <3> QED
      BY <2>1, <3>1, <3>3
  <2>3. toClient[1].id \in Unread(v)
    BY <1>4, <1>6, <2>1
  <2> QED
    BY <1>4, <1>5, <1>6, <2>2, <2>3
<1>7. CASE ~AnswersShare(toClient[1], v)
  BY <1>4, <1>5, <1>7
<1> QED
  BY <1>6, <1>7

(* A line that is cut is lost, and if it was a reply, it is remembered.    *)
LEMMA UnreadWhenCut ==
  ASSUME Typed, Submit, NEW v
  PROVE  /\ Unread(v)' \subseteq Unread(v)
         /\ "reply" \notin cut' => Unread(v)' = Unread(v)
<1>1. /\ Len(toClient') = Len(toClient)
      /\ \A k \in 1 .. Len(toClient) : Answers(toClient'[k]) => toClient'[k] = toClient[k]
      /\ "reply" \notin cut' =>
           \A k \in 1 .. Len(toClient) : Answers(toClient[k]) => toClient'[k] = toClient[k]
  BY CutEffect, PoolLines DEF Answers
<1> QED
  BY <1>1 DEF Unread, AnswersShare

LEMMA UnreadWhenSent ==
  ASSUME Typed, NEW line \in Line, Send(line), NEW v
  PROVE  /\ AnswersShare(line, v) => Unread(v)' = Unread(v) \cup {line.id}
         /\ ~AnswersShare(line, v) => Unread(v)' = Unread(v)
<1>1. /\ Len(toClient) \in Nat /\ Len(toClient') = Len(toClient) + 1
      /\ \A k \in 1 .. Len(toClient) : toClient'[k] = toClient[k]
      /\ toClient'[Len(toClient) + 1] = line
  BY SendEffect
<1>2. /\ \A k \in 1 .. Len(toClient') : k \in 1 .. Len(toClient) \/ k = Len(toClient) + 1
      /\ \A k \in 1 .. Len(toClient) : k \in 1 .. Len(toClient')
      /\ Len(toClient) + 1 \in 1 .. Len(toClient')
  BY <1>1
<1>3. ASSUME NEW id \in Nat
      PROVE  id \in Unread(v)' <=> id \in Unread(v) \/ (AnswersShare(line, v) /\ line.id = id)
  BY <1>1, <1>2 DEF Unread
<1>4. Unread(v) \subseteq Nat /\ Unread(v)' \subseteq Nat
  BY DEF Unread
<1>5. AnswersShare(line, v) => line.id \in Nat
  BY LineParts DEF AnswersShare, Answers
<1> QED
  BY <1>3, <1>4, <1>5

(* The pool's verdict on a share.                                          *)
LEMMA VerdictGiven ==
  ASSUME Typed, NEW s \in Shares, fate[s] = "sent", NEW verdict \in Verdicts,
         fate' = [fate EXCEPT ![s] = verdict]
  PROVE  /\ Submitted' = Submitted
         /\ s \notin Answered(verdict) /\ Answered(verdict)' = Answered(verdict) \cup {s}
         /\ \A v \in Verdicts \ {verdict} : Answered(v)' = Answered(v)
<1>1. fate \in [Shares -> Fates]
  BY DEF Typed
<1>2. fate'[s] = verdict /\ \A t \in Shares : t # s => fate'[t] = fate[t]
  BY <1>1
<1>3. Submitted' = Submitted
  BY <1>2 DEF Submitted
<1>4. s \notin Answered(verdict) /\ Answered(verdict)' = Answered(verdict) \cup {s}
  BY <1>2 DEF Answered, Verdicts
<1>5. \A v \in Verdicts \ {verdict} : Answered(v)' = Answered(v)
  BY <1>2 DEF Answered, Verdicts
<1> QED
  BY <1>3, <1>4, <1>5

(* A share that leaves the channel is submitted, and was not before.       *)
LEMMA ShareSubmitted ==
  ASSUME Typed, QueueInv, Submit
  PROVE  /\ queue[1] \notin Submitted /\ Submitted' = Submitted \cup {queue[1]}
         /\ \A v \in Verdicts : Answered(v)' = Answered(v)
<1>1. /\ fate \in [Shares -> Fates] /\ queue[1] \in Shares /\ Len(queue) \in Nat \ {0}
      /\ fate' = [fate EXCEPT ![queue[1]] = "sent"]
  BY SubmitTakes DEF Typed
<1>2. fate[queue[1]] = "queued"
  BY <1>1 DEF QueueInv
<1>3. fate'[queue[1]] = "sent" /\ \A t \in Shares : t # queue[1] => fate'[t] = fate[t]
  BY <1>1
<1>4. queue[1] \notin Submitted /\ Submitted' = Submitted \cup {queue[1]}
  BY <1>1, <1>2, <1>3 DEF Submitted, Verdicts
<1>5. \A v \in Verdicts : Answered(v)' = Answered(v)
  BY <1>1, <1>2, <1>3 DEF Answered, Verdicts
<1> QED
  BY <1>4, <1>5

LEMMA ShareFound ==
  ASSUME Typed, NEW s \in Shares, Find(s)
  PROVE  /\ Submitted' = Submitted
         /\ \A v \in Verdicts : Answered(v)' = Answered(v)
<1>1. /\ fate \in [Shares -> Fates] /\ fate[s] = "unfound"
      /\ \E f \in {"queued", "dropped"} : fate' = [fate EXCEPT ![s] = f]
  BY DEF Typed, Find
<1>2. fate'[s] \in {"queued", "dropped"} /\ \A t \in Shares : t # s => fate'[t] = fate[t]
  BY <1>1
<1> QED
  BY <1>1, <1>2 DEF Submitted, Answered, Verdicts

-----------------------------------------------------------------------------
(* The books are kept.                                                     *)

AccountsInv == QueueInv /\ RequestInv /\ AnswerInv /\ BooksInv

LEMMA BooksStep == Typed /\ AccountsInv /\ [Next]_vars => BooksInv'
<1> SUFFICES ASSUME Typed, AccountsInv, [Next]_vars
             PROVE  BooksInv'
  OBVIOUS
<1>0. QueueInv /\ RequestInv /\ AnswerInv /\ BooksInv /\ conn \in Nat
  BY DEF AccountsInv, Typed
<1>1. /\ IsFiniteSet(Submitted)
      /\ \A v \in Tallied : IsFiniteSet(Answered(v)) /\ IsFiniteSet(Unread(v))
      /\ \A v \in Tallied : Cardinality(Answered(v)) \in Nat /\ Cardinality(Unread(v)) \in Nat
      /\ \A v \in Tallied : Counted(v) \in Nat
  <2>1. /\ IsFiniteSet(Submitted) /\ \A v : IsFiniteSet(Answered(v)) /\ IsFiniteSet(Unread(v))
        /\ \A v \in Tallied : Counted(v) \in Nat
    BY <1>0, CountedSetsFinite
  <2> QED
    BY <2>1, FS_CardinalityType
<1>2. cut \subseteq cut'
  BY CutStays
<1> DEFINE Balance(v) ==
             /\ Counted(v) + Cardinality(Unread(v)) <= Cardinality(Answered(v))
             /\ conn <= 1 /\ "reply" \notin cut =>
                  Counted(v) + Cardinality(Unread(v)) = Cardinality(Answered(v))
<1>3. stats.submitted = Cardinality(Submitted) /\ \A v \in Tallied : Balance(v)
  BY <1>0 DEF BooksInv
<1>4. ASSUME stats'.submitted = Cardinality(Submitted'), \A v \in Tallied : Balance(v)'
      PROVE  BooksInv'
  BY <1>4 DEF BooksInv
<1>5. Tallied \subseteq Verdicts
  BY DEF Tallied, Verdicts
<1>6. CASE Idle
  <2>1. UNCHANGED <<conn, toClient, fate, stats, cut>>
    BY <1>6 DEF Idle
  <2> QED
    BY <1>0, <2>1 DEF BooksInv, Submitted, Answered, Unread, Counted
<1>7. CASE Connect
  <2>1. UNCHANGED <<fate, stats, cut>> /\ conn' = conn + 1 /\ toClient' = <<>>
    BY <1>7 DEF Connect, miner
  <2>2. /\ Submitted' = Submitted
        /\ \A v \in Tallied : /\ Answered(v)' = Answered(v) /\ Counted(v)' = Counted(v)
                              /\ Unread(v)' = {}
    BY <2>1 DEF Submitted, Answered, Counted, Unread
  <2>3. \A v \in Tallied : Cardinality(Unread(v)') = 0
    BY <2>2, FS_EmptySet
  <2>4. conn' <= 1 => conn = 0 /\ \A v \in Tallied : Cardinality(Unread(v)) = 0
    <3>1. SUFFICES ASSUME conn = 0  PROVE \A v \in Tallied : Unread(v) = {}
      BY <1>0, <2>1, FS_EmptySet
    <3>2. toClient = <<>>
      BY <1>0, <3>1 DEF RequestInv
    <3> QED
      BY <3>2 DEF Unread
  <2>5. ASSUME NEW v \in Tallied  PROVE Balance(v)'
    BY <1>1, <1>3, <2>1, <2>2, <2>3, <2>4
  <2> QED
    BY <1>3, <1>4, <2>1, <2>2, <2>5
<1>8. CASE Takes
  <2>1. /\ UNCHANGED <<conn, fate, cut>> /\ stats'.submitted = stats.submitted
        /\ \A v \in Tallied :
             Counted(v)' = IF AnswersShare(toClient[1], v) THEN Counted(v) + 1 ELSE Counted(v)
    BY <1>8 DEF Takes
  <2>2. Submitted' = Submitted /\ \A v : Answered(v)' = Answered(v)
    BY <2>1 DEF Submitted, Answered
  <2>3. ASSUME NEW v \in Tallied  PROVE Balance(v)'
    <3>1. CASE AnswersShare(toClient[1], v)
      <4>1. /\ toClient[1].id \in Unread(v)
            /\ Unread(v)' = Unread(v) \ {toClient[1].id}
        BY <1>0, <1>8, <3>1, UnreadWhenTaken
      <4>2. Cardinality(Unread(v)') = Cardinality(Unread(v)) - 1
        <5>1. \A x \in Unread(v) : Cardinality(Unread(v) \ {x}) = Cardinality(Unread(v)) - 1
          BY <1>1, FS_RemoveElement
        <5> QED
          BY <4>1, <5>1
      <4> QED
        BY <1>1, <1>3, <2>1, <2>2, <3>1, <4>2
    <3>2. CASE ~AnswersShare(toClient[1], v)
      <4>1. Unread(v)' = Unread(v)
        BY <1>0, <1>8, <3>2, UnreadWhenTaken
      <4> QED
        BY <1>1, <1>3, <2>1, <2>2, <3>2, <4>1
    <3> QED
      BY <3>1, <3>2
  <2> QED
    BY <1>3, <1>4, <2>1, <2>2, <2>3
<1>9. CASE Submit
  <2>1. /\ queue[1] \notin Submitted /\ Submitted' = Submitted \cup {queue[1]}
        /\ \A v \in Tallied : Answered(v)' = Answered(v)
    BY <1>0, <1>5, <1>9, ShareSubmitted
  <2>2. /\ stats'.submitted = stats.submitted + 1 /\ conn' = conn
        /\ UNCHANGED <<stats.accepted, stats.rejected>>
    BY <1>9, SubmitTakes
  <2>3. stats'.submitted = Cardinality(Submitted')
    <3>1. Cardinality(Submitted \cup {queue[1]}) = Cardinality(Submitted) + 1
      BY <1>1, <2>1, FS_AddElement
    <3> QED
      BY <1>3, <2>1, <2>2, <3>1
  <2>4. ASSUME NEW v \in Tallied  PROVE Balance(v)'
    <3>1. Counted(v)' = Counted(v)
      BY <2>2 DEF Counted
    <3>2. Unread(v)' \in SUBSET Unread(v) /\ ("reply" \notin cut' => Unread(v)' = Unread(v))
      BY <1>9, UnreadWhenCut
    <3>3. /\ Cardinality(Unread(v)') <= Cardinality(Unread(v))
          /\ Cardinality(Unread(v)') \in Nat
      BY <1>1, <3>2, FS_Subset, FS_CardinalityType
    <3> QED
      BY <1>1, <1>2, <1>3, <2>1, <2>2, <3>1, <3>2, <3>3
  <2> QED
    BY <1>4, <2>3, <2>4
<1>10. ASSUME NEW s \in Shares, Find(s)  PROVE BooksInv'
  <2>1. UNCHANGED <<conn, toClient, stats, cut>>
    BY <1>10 DEF Find, client, wire
  <2>2. Submitted' = Submitted /\ \A v \in Tallied : Answered(v)' = Answered(v)
    BY <1>5, <1>10, ShareFound
  <2>3. \A v \in Tallied : Unread(v)' = Unread(v) /\ Counted(v)' = Counted(v)
    BY <2>1 DEF Unread, Counted
  <2>4. ASSUME NEW v \in Tallied  PROVE Balance(v)'
    BY <1>3, <2>1, <2>2, <2>3
  <2> QED
    BY <1>3, <1>4, <2>1, <2>2, <2>4
<1>11. CASE Tells
  <2>1. PICK line \in Line : Send(line) /\ ~Answers(line)
    BY <1>11 DEF Tells
  <2>2. UNCHANGED <<conn, fate, stats, cut>>
    BY <1>11 DEF Tells
  <2>3. /\ Submitted' = Submitted
        /\ \A v \in Tallied : Answered(v)' = Answered(v) /\ Counted(v)' = Counted(v)
    BY <2>2 DEF Submitted, Answered, Counted
  <2>4. \A v \in Tallied : Unread(v)' = Unread(v)
    BY <2>1, UnreadWhenSent DEF AnswersShare
  <2>5. ASSUME NEW v \in Tallied  PROVE Balance(v)'
    BY <1>3, <2>2, <2>3, <2>4
  <2> QED
    BY <1>3, <1>4, <2>2, <2>3, <2>5
<1>12. CASE Replies
  <2>1. PICK verdict \in Verdicts, line \in Line :
          /\ Send(line) /\ line.kind = "reply" /\ line.id = toPool[1].id
          /\ line.verdict = verdict
          /\ fate' = IF toPool[1].share = NoShare THEN fate
                     ELSE [fate EXCEPT ![toPool[1].share] = verdict]
          /\ toPool[1].id \in Nat /\ toPool[1].share \in Shares \cup {NoShare}
          /\ Len(toPool) \in Nat \ {0}
    BY <1>12, RepliesTo
  <2>2. UNCHANGED <<conn, stats, cut>> /\ \A v \in Tallied : Counted(v)' = Counted(v)
    BY <1>12 DEF Replies, Counted
  <2>3. 1 \in 1 .. Len(toPool)
    BY <2>1
  <2>4. CASE toPool[1].share = NoShare
    <3>1. \A v \in Tallied : ~AnswersShare(line, v)
      BY <1>0, <2>1, <2>3, <2>4 DEF AnswersShare, RequestInv
    <3>2. \A v \in Tallied : Unread(v)' = Unread(v)
      BY <2>1, <3>1, UnreadWhenSent
    <3>3. fate' = fate
      BY <2>1, <2>4
    <3>4. Submitted' = Submitted /\ \A v \in Tallied : Answered(v)' = Answered(v)
      BY <3>3 DEF Submitted, Answered
    <3>5. ASSUME NEW v \in Tallied  PROVE Balance(v)'
      BY <1>3, <2>2, <3>2, <3>4
    <3> QED
      BY <1>3, <1>4, <2>2, <3>4, <3>5
  <2>5. CASE toPool[1].share # NoShare
    <3> DEFINE s == toPool[1].share
    <3>1. s \in Shares /\ fate[s] = "sent" /\ IsShareId(line.id)
      BY <1>0, <2>1, <2>3, <2>5 DEF RequestInv
    <3>2. fate' = [fate EXCEPT ![s] = verdict]
      BY <2>1, <2>5
    <3>3. /\ Submitted' = Submitted
          /\ s \notin Answered(verdict) /\ Answered(verdict)' = Answered(verdict) \cup {s}
          /\ \A v \in Verdicts \ {verdict} : Answered(v)' = Answered(v)
      BY <3>1, <3>2, VerdictGiven
    <3>4. line.id \notin Unread(verdict)
      BY <1>0, <2>1, <2>3 DEF Unread, AnswersShare, AnswerInv
    <3>5. ASSUME NEW v \in Tallied  PROVE Balance(v)'
      <4>1. CASE v = verdict
        <5>1. AnswersShare(line, v)
          BY <2>1, <3>1, <4>1 DEF AnswersShare, Answers
        <5>2. Unread(v)' = Unread(v) \cup {line.id} /\ line.id \notin Unread(v)
          BY <2>1, <3>4, <4>1, <5>1, UnreadWhenSent
        <5>3. Cardinality(Unread(v)') = Cardinality(Unread(v)) + 1
          BY <1>1, <5>2, FS_AddElement
        <5>4. Cardinality(Answered(v)') = Cardinality(Answered(v)) + 1
          BY <1>1, <3>3, <4>1, FS_AddElement
        <5> QED
          BY <1>1, <1>3, <2>2, <5>3, <5>4
      <4>2. CASE v # verdict
        <5>1. Unread(v)' = Unread(v)
          BY <2>1, <4>2, UnreadWhenSent DEF AnswersShare
        <5>2. Answered(v)' = Answered(v)
          BY <1>5, <3>3, <4>2
        <5> QED
          BY <1>3, <2>2, <5>1, <5>2
      <4> QED
        BY <4>1, <4>2
    <3> QED
      BY <1>3, <1>4, <2>2, <3>3, <3>5
  <2> QED
    BY <2>4, <2>5
<1> QED
  BY <1>6, <1>7, <1>8, <1>9, <1>10, <1>11, <1>12, StepKinds

LEMMA AccountsInit == Init => AccountsInv
<1> SUFFICES ASSUME Init  PROVE AccountsInv
  OBVIOUS
<1>1. /\ phase = "connecting" /\ conn = 0 /\ toPool = <<>> /\ toClient = <<>> /\ queue = <<>>
      /\ fate = [s \in Shares |-> "unfound"]
      /\ stats = [submitted |-> 0, accepted |-> 0, rejected |-> 0, blocks |-> 0]
  BY DEF Init
<1>2. QueueInv /\ RequestInv /\ AnswerInv
  BY <1>1 DEF QueueInv, RequestInv, AnswerInv
<1>3. Submitted = {} /\ \A v \in Tallied : Answered(v) = {} /\ Unread(v) = {}
  BY <1>1 DEF Submitted, Answered, Unread, Verdicts, Tallied
<1>4. /\ Cardinality(Submitted) = 0
      /\ \A v \in Tallied : Cardinality(Answered(v)) = 0 /\ Cardinality(Unread(v)) = 0
  BY <1>3, FS_EmptySet
<1>5. stats.submitted = 0 /\ \A v \in Tallied : Counted(v) = 0
  BY <1>1 DEF Counted
<1> QED
  BY <1>2, <1>4, <1>5 DEF AccountsInv, BooksInv

(* The counters of the dashboard balance: every share written, or lost in  *)
(* the write, is submitted once; no answer of the pool is counted twice or *)
(* as another; and a client that has read all that its first connection    *)
(* sent has counted every answer whose reply was not cut.                  *)
THEOREM AccountsBalanceHolds == Spec => []AccountsBalance
<1>1. Typed /\ AccountsInv /\ [Next]_vars => AccountsInv'
  BY QueueStep, RequestStep, AnswerStep, BooksStep DEF AccountsInv
<1>2. ASSUME Typed, AccountsInv  PROVE AccountsBalance
  <2>1. /\ stats.submitted = Cardinality(Submitted)
        /\ \A v \in Tallied :
             /\ Counted(v) + Cardinality(Unread(v)) <= CountOf(v)
             /\ conn <= 1 /\ "reply" \notin cut =>
                  Counted(v) + Cardinality(Unread(v)) = CountOf(v)
             /\ Counted(v) \in Nat /\ Cardinality(Unread(v)) \in Nat /\ CountOf(v) \in Nat
    BY <1>2, CountedSetsFinite, FS_CardinalityType DEF AccountsInv, BooksInv, CountOf, Answered
  <2>2. "ok" \in Tallied /\ "error" \in Tallied
        /\ Counted("ok") = stats.accepted /\ Counted("error") = stats.rejected
    BY DEF Tallied, Counted
  <2>3. stats.accepted <= CountOf("ok") /\ stats.rejected <= CountOf("error")
    BY <2>1, <2>2
  <2>4. ASSUME conn = 1, toClient = <<>>, "reply" \notin cut
        PROVE  stats.accepted = CountOf("ok") /\ stats.rejected = CountOf("error")
    <3>1. \A v \in Tallied : Unread(v) = {}
      BY <2>4 DEF Unread
    <3>2. \A v \in Tallied : Cardinality(Unread(v)) = 0
      BY <3>1, FS_EmptySet
    <3> QED
      BY <2>1, <2>2, <2>4, <3>2
  <2> QED
    BY <2>1, <2>3, <2>4 DEF AccountsBalance, Submitted
<1> QED
  BY <1>1, <1>2, AccountsInit, TypedCorrect, PTL DEF Spec
=============================================================================
