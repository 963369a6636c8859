--------------------------- MODULE LifecycleProofs ----------------------------
(***************************************************************************)
(* Proofs about Lifecycle, for every set of processes, number of runs,     *)
(* batches and shares, and every set of ways to die.                       *)
(***************************************************************************)
EXTENDS Lifecycle, TLAPS

(* A process may end by itself, be killed, be forced or be terminated;     *)
(* `mi-miner --stop` may also find nobody to terminate.                    *)
LEMMA Ends ==
  ASSUME TypeOK, NEW i \in Instances, Exit(i) \/ Kill(i) \/ ForcedExit(i)
  PROVE  Die(i) /\ pc[i] # "off" /\ UNCHANGED <<pidFile, cli, removing>>
BY DEF Exit, Kill, ForcedExit

LEMMA Terminates ==
  ASSUME TypeOK, Terminate
  PROVE  /\ cli \in Instances /\ cli' = NoPid /\ removing' = TRUE /\ pidFile' = pidFile
         /\ \/ pc[cli] # "off" /\ Die(cli)
            \/ pc[cli] = "off" /\ UNCHANGED <<disk, torn, runs, run, worked, best, mishaps>>
BY DEF Terminate, TypeOK

-----------------------------------------------------------------------------
(* Types.                                                                  *)

LEMMA LifecycleInitTypes == Init => TypeOK
<1> SUFFICES ASSUME Init
             PROVE  TypeOK
  OBVIOUS
<1>1. Zero \in [Fields -> Nat]
  BY DEF Zero
<1>2. /\ runs \in 0 .. MaxRuns /\ [f \in {"cpu", "gpu"} |-> 0] \in [{"cpu", "gpu"} -> Nat]
      /\ [i \in Instances |-> 0] \in [Instances -> Nat]
  BY LifecycleAssumption DEF Init
<1>3. torn \in BOOLEAN /\ removing \in BOOLEAN
  BY Zenon DEF Init
<1> QED
  BY <1>1, <1>2, <1>3, Zenon DEF Init, TypeOK, Steps

LEMMA LoadedTypes ==
  ASSUME TypeOK
  PROVE  Loaded \in [Fields -> Nat] /\ LoadPersistent(Zero) = Loaded
<1>1. Zero \in [Fields -> Nat] /\ \A f \in Fields : Zero[f] = 0
  BY DEF Zero
<1>2. Loaded \in [Fields -> Nat]
  BY <1>1 DEF Loaded, TypeOK
<1>3. \A f \in Fields : Zero[f] + Loaded[f] = Loaded[f]
  BY <1>1, <1>2
<1> QED
  BY <1>2, <1>3 DEF LoadPersistent

LEMMA LifecycleTypes == TypeOK /\ [Next]_vars => TypeOK'
<1> SUFFICES ASSUME TypeOK, [Next]_vars
             PROVE  TypeOK'
  OBVIOUS
<1> USE DEF TypeOK, run
<1>1. ASSUME NEW i \in Instances, Load(i)  PROVE TypeOK'
  <2>1. counters' \in [Instances -> [Fields -> Nat]]
    BY <1>1, LoadedTypes DEF Load
  <2>2. runs' \in 0 .. MaxRuns /\ pc' \in [Instances -> Steps]
    BY <1>1, LifecycleAssumption DEF Load, Steps
  <2> QED
    BY <1>1, <2>1, <2>2 DEF Load, Note
<1>2. ASSUME NEW i \in Instances, WritePid(i)  PROVE TypeOK'
  BY <1>2 DEF WritePid, Names, Note, Steps
<1>3. ASSUME NEW i \in Instances, CpuBatch(i)  PROVE TypeOK'
  BY <1>3 DEF CpuBatch, CountHashes, Fields
<1>4. ASSUME NEW i \in Instances, GpuBatch(i)  PROVE TypeOK'
  BY <1>4 DEF GpuBatch, CountHashes, Fields
<1>5. ASSUME NEW i \in Instances, Submit(i)  PROVE TypeOK'
  BY <1>5 DEF Submit, AfterEvent, Fields
<1>6. ASSUME NEW i \in Instances, Accepted(i)  PROVE TypeOK'
  BY <1>6 DEF Accepted, Answered, AfterEvent, Fields
<1>7. ASSUME NEW i \in Instances, RequestStop(i)  PROVE TypeOK'
  BY <1>7 DEF RequestStop
<1>8. ASSUME NEW i \in Instances, Join(i) \/ Unlink(i) \/ Truncate(i)  PROVE TypeOK'
  BY <1>8 DEF Join, Unlink, Truncate, Goto, Steps
<1>9. ASSUME NEW i \in Instances, ReadCounters(i) \/ ReadAccepted(i)  PROVE TypeOK'
  <2>1. \A c \in [Fields -> Nat], n \in Nat : [c EXCEPT !["accepted"] = n] \in [Fields -> Nat]
    BY DEF Fields
  <2>2. snap' \in [Instances -> [Fields -> Nat]]
    <3>1. CASE ReadCounters(i)
      <4>1. [counters[i] EXCEPT !["accepted"] = 0] \in [Fields -> Nat]
        BY <2>1
      <4> QED
        BY <3>1, <4>1 DEF ReadCounters
    <3>2. CASE ReadAccepted(i)
      <4>1. [snap[i] EXCEPT !["accepted"] = counters[i]["accepted"]] \in [Fields -> Nat]
        BY <2>1 DEF Fields
      <4> QED
        BY <3>2, <4>1 DEF ReadAccepted
    <3> QED
      BY <1>9, <3>1, <3>2
  <2> QED
    BY <1>9, <2>2 DEF ReadCounters, ReadAccepted, Goto, Steps
<1>10. ASSUME NEW i \in Instances, WriteOut(i)  PROVE TypeOK'
  BY <1>10 DEF WriteOut, Totals, Goto, Steps
<1>11. ASSUME NEW i \in Instances, Die(i), pidFile' = pidFile,
              cli' \in Instances \cup {NoPid}, removing' \in BOOLEAN
       PROVE  TypeOK'
  <2>1. Zero \in [Fields -> Nat]
    BY DEF Zero
  <2> QED
    BY <1>11, <2>1 DEF Die, Note, Steps
<1>12. ASSUME NEW i \in Instances, Exit(i) \/ Kill(i) \/ ForcedExit(i)  PROVE TypeOK'
  BY <1>11, <1>12, Ends
<1>13. ASSUME Terminate  PROVE TypeOK'
  BY <1>11, <1>13, Terminates
<1>14. ASSUME ReadPid \/ RemovePid  PROVE TypeOK'
  BY <1>14 DEF ReadPid, RemovePid
<1>15. CASE UNCHANGED vars
  BY <1>15 DEF vars
<1> QED
  BY <1>1, <1>2, <1>3, <1>4, <1>5, <1>6, <1>7, <1>8, <1>9, <1>10, <1>12, <1>13, <1>14,
     <1>15 DEF Next

(* Every reachable state is well typed; in particular the pool answers no  *)
(* share twice.                                                            *)
THEOREM TypeCorrect == Spec => []TypeOK
BY LifecycleInitTypes, LifecycleTypes, PTL DEF Spec

-----------------------------------------------------------------------------
(* What the actions do to the counters, field by field.                    *)

LEMMA FieldNames == {"cpu", "gpu", "submitted", "accepted"} \subseteq Fields
BY DEF Fields

LEMMA LoadSets ==
  ASSUME TypeOK, NEW i \in Instances, Load(i)
  PROVE  /\ counters'[i] = Loaded /\ pc'[i] = "loaded"
         /\ \A j \in Instances \ {i} : counters'[j] = counters[j] /\ pc'[j] = pc[j]
BY LoadedTypes DEF Load, TypeOK

LEMMA HashesCounted ==
  ASSUME TypeOK, NEW i \in Instances, NEW f \in {"cpu", "gpu"}, CountHashes(i, f)
  PROVE  /\ \A g \in {"cpu", "gpu"} : worked'[g] = IF g = f THEN worked[g] + 1 ELSE worked[g]
         /\ \A j \in Instances, g \in Fields :
              counters'[j][g] = IF j = i /\ g = f THEN counters[j][g] + 1 ELSE counters[j][g]
BY FieldNames DEF CountHashes, TypeOK

LEMMA SharesCounted ==
  ASSUME TypeOK, NEW i \in Instances, Submit(i) \/ Accepted(i)
  PROVE  /\ \A j \in Instances : /\ counters'[j]["cpu"] = counters[j]["cpu"]
                                /\ counters'[j]["gpu"] = counters[j]["gpu"]
         /\ \A j \in Instances, g \in Fields : counters'[j][g] >= counters[j][g]
<1>0. PICK f \in {"submitted", "accepted"} : counters' = [counters EXCEPT ![i][f] = @ + 1]
  BY DEF Submit, Accepted
<1>1. counters \in [Instances -> [Fields -> Nat]]
  BY DEF TypeOK
<1>2. \A j \in Instances, g \in Fields :
        counters'[j][g] = IF j = i /\ g = f THEN counters[j][g] + 1 ELSE counters[j][g]
  BY <1>0, <1>1, FieldNames
<1>3. \A j \in Instances, g \in Fields : counters[j][g] \in Nat
  BY <1>1
<1> QED
  BY <1>0, <1>2, <1>3, FieldNames

LEMMA CountersRead ==
  ASSUME TypeOK, NEW i \in Instances, ReadCounters(i)
  PROVE  /\ \A g \in Fields \ {"accepted"} : snap'[i][g] = counters[i][g]
         /\ snap'[i]["accepted"] = 0
         /\ \A j \in Instances \ {i} : snap'[j] = snap[j]
BY FieldNames DEF ReadCounters, TypeOK

LEMMA AcceptedRead ==
  ASSUME TypeOK, NEW i \in Instances, ReadAccepted(i)
  PROVE  /\ \A g \in Fields \ {"accepted"} : snap'[i][g] = snap[i][g]
         /\ snap'[i]["accepted"] = counters[i]["accepted"]
         /\ \A j \in Instances \ {i} : snap'[j] = snap[j]
BY FieldNames DEF ReadAccepted, TypeOK

(* A process that has ended keeps no share, batch or flag.                 *)
LEMMA DieClears ==
  ASSUME TypeOK, NEW i \in Instances, Die(i)
  PROVE  /\ \A f \in Fields : counters'[i][f] = 0 /\ snap'[i][f] = 0
         /\ asked'[i] = 0 /\ pc'[i] = "off" /\ ~client'[i]
         /\ \A j \in Instances \ {i} :
              /\ pc'[j] = pc[j] /\ stop'[j] = stop[j] /\ client'[j] = client[j]
              /\ counters'[j] = counters[j] /\ snap'[j] = snap[j] /\ asked'[j] = asked[j]
         /\ UNCHANGED <<disk, torn, worked, best>>
BY DEF Die, TypeOK, Zero

-----------------------------------------------------------------------------
(* What the pool has accepted and may still accept was submitted.  Once    *)
(* should_stop is set the client handles one event more, so between the    *)
(* two reads of save_persistent() the accepted shares can grow by no more  *)
(* than the pool owes for the submitted shares already read.               *)
BalanceOf(i) ==
  /\ pc[i] \in {"off", "loaded"} => asked[i] = 0 /\ ~client[i]
  /\ counters[i]["accepted"] + asked[i] <= counters[i]["submitted"]
  /\ pc[i] \notin {"off", "loaded", "run"} => stop[i]
  /\ pc[i] = "half" =>
       counters[i]["accepted"] + (IF client[i] THEN asked[i] ELSE 0) <= snap[i]["submitted"]
  /\ pc[i] \in {"read", "torn"} => snap[i]["accepted"] <= snap[i]["submitted"]

BalanceInv ==
  /\ disk["accepted"] <= disk["submitted"]
  /\ \A i \in Instances : BalanceOf(i)

LEMMA BalanceStep == TypeOK /\ BalanceInv /\ [Next]_vars => BalanceInv'
<1> SUFFICES ASSUME TypeOK, BalanceInv, [Next]_vars
             PROVE  BalanceInv'
  OBVIOUS
<1>0. /\ counters \in [Instances -> [Fields -> Nat]] /\ snap \in [Instances -> [Fields -> Nat]]
      /\ asked \in [Instances -> Nat] /\ disk \in [Fields -> Nat]
      /\ pc \in [Instances -> Steps]
      /\ "cpu" \in Fields /\ "gpu" \in Fields
      /\ "accepted" \in Fields /\ "submitted" \in Fields
      /\ stop \in [Instances -> BOOLEAN] /\ client \in [Instances -> BOOLEAN]
  BY DEF TypeOK, Fields
<1> USE <1>0 DEF BalanceInv, BalanceOf, run
<1>1. ASSUME NEW i \in Instances, Load(i)  PROVE BalanceInv'
  <2>1. counters' = [counters EXCEPT ![i] = Loaded]
    BY <1>1, LoadedTypes DEF Load
  <2>2. Loaded["accepted"] <= Loaded["submitted"]
    BY DEF Loaded, Zero
  <2>3. asked[i] = 0 /\ ~client[i] /\ pc' = [pc EXCEPT ![i] = "loaded"]
        /\ UNCHANGED <<disk, asked, stop, client, snap>>
    BY <1>1 DEF Load
  <2>4. ASSUME NEW j \in Instances  PROVE BalanceOf(j)'
    <3>1. CASE j = i
      <4>1. counters'[i] = Loaded /\ pc'[i] = "loaded" /\ asked'[i] = 0 /\ ~client'[i]
        BY <2>1, <2>3
      <4>2. Loaded["accepted"] \in Nat /\ Loaded["submitted"] \in Nat
        BY LoadedTypes
      <4> QED
        BY <3>1, <4>1, <4>2, <2>2
    <3>2. CASE j # i
      <4>1. counters'[j] = counters[j] /\ pc'[j] = pc[j]
        BY <2>1, <2>3, <3>2
      <4> QED
        BY <2>3, <4>1
    <3> QED
      BY <3>1, <3>2
  <2> QED
    BY <2>3, <2>4
<1>2. ASSUME NEW i \in Instances, WritePid(i)  PROVE BalanceInv'
  <2>1. \A j \in Instances :
          (pc'[j] = pc[j] /\ client'[j] = client[j]) \/ (j = i /\ pc'[j] = "run")
    <3>1. PICK hasPool \in BOOLEAN : client' = [client EXCEPT ![i] = hasPool]
      <4>1. \E hasGpu, hasPool \in BOOLEAN : client' = [client EXCEPT ![i] = hasPool]
        BY <1>2, Zenon DEF WritePid
      <4> QED
        BY <4>1, Zenon
    <3>2. pc' = [pc EXCEPT ![i] = "run"]
      BY <1>2 DEF WritePid
    <3> QED
      BY <3>1, <3>2
  <2>2. UNCHANGED <<disk, counters, stop, asked, snap>>
    BY <1>2 DEF WritePid
  <2> QED
    BY <2>1, <2>2
<1>3. ASSUME NEW i \in Instances, CpuBatch(i) \/ GpuBatch(i)  PROVE BalanceInv'
  <2>1. PICK f \in {"cpu", "gpu"} : CountHashes(i, f)
    BY <1>3 DEF CpuBatch, GpuBatch
  <2>2. \A j \in Instances :
          counters'[j] = counters[j] \/ counters'[j] = [counters[j] EXCEPT ![f] = @ + 1]
    BY <2>1 DEF CountHashes
  <2>3. \A j \in Instances : /\ counters'[j]["accepted"] = counters[j]["accepted"]
                             /\ counters'[j]["submitted"] = counters[j]["submitted"]
    <3>1. ASSUME NEW c \in [Fields -> Nat], NEW n \in Nat
          PROVE  /\ [c EXCEPT ![f] = n]["accepted"] = c["accepted"]
                 /\ [c EXCEPT ![f] = n]["submitted"] = c["submitted"]
      BY <2>1
    <3>2. \A j \in Instances : counters[j] \in [Fields -> Nat] /\ counters[j][f] + 1 \in Nat
      BY <2>1
    <3>3. ASSUME NEW j \in Instances
          PROVE  /\ counters'[j]["accepted"] = counters[j]["accepted"]
                 /\ counters'[j]["submitted"] = counters[j]["submitted"]
      <4> DEFINE c == counters[j]
                 n == c[f] + 1
                 d == counters'[j]
      <4>1. c \in [Fields -> Nat] /\ n \in Nat /\ (d = c \/ d = [c EXCEPT ![f] = n])
        BY <2>2, <3>2
      <4> HIDE DEF c, n, d
      <4>2. d["accepted"] = c["accepted"] /\ d["submitted"] = c["submitted"]
        BY ONLY <3>1, <4>1
      <4> QED
        BY <4>2 DEF c, d
    <3> QED
      BY <3>3
  <2>4. UNCHANGED <<disk, pc, asked, stop, client, snap>>
    BY <2>1 DEF CountHashes
  <2> QED
    BY <2>3, <2>4
<1>4. ASSUME NEW i \in Instances, Submit(i)  PROVE BalanceInv'
  <2>1. /\ client[i] /\ UNCHANGED <<disk, pc, stop, snap>>
        /\ counters' = [counters EXCEPT ![i]["submitted"] = @ + 1]
        /\ asked' = [asked EXCEPT ![i] = @ + 1]
    BY <1>4 DEF Submit
  <2>2. /\ client'[i] => ~stop[i]
        /\ \A j \in Instances \ {i} : client'[j] = client[j]
    BY <1>0, <1>4, Zenon DEF Submit, AfterEvent
  <2>3. BalanceOf(i)'
    <3>1. /\ counters'[i]["submitted"] = counters[i]["submitted"] + 1
          /\ counters'[i]["accepted"] = counters[i]["accepted"]
          /\ asked'[i] = asked[i] + 1
      BY <2>1
    <3> QED
      BY <2>1, <2>2, <3>1
  <2>4. \A j \in Instances \ {i} : BalanceOf(j)'
    BY <2>1, <2>2
  <2> QED
    BY <2>1, <2>3, <2>4
<1>5. ASSUME NEW i \in Instances, Accepted(i)  PROVE BalanceInv'
  BY <1>5 DEF Accepted, Answered, AfterEvent
<1>6. ASSUME NEW i \in Instances, RequestStop(i)  PROVE BalanceInv'
  BY <1>6 DEF RequestStop
<1>7. ASSUME NEW i \in Instances, Join(i) \/ Unlink(i) \/ Truncate(i)  PROVE BalanceInv'
  BY <1>7 DEF Join, Unlink, Truncate, Goto
<1>8. ASSUME NEW i \in Instances, ReadCounters(i)  PROVE BalanceInv'
  BY <1>8 DEF ReadCounters, Goto
<1>9. ASSUME NEW i \in Instances, ReadAccepted(i)  PROVE BalanceInv'
  BY <1>9 DEF ReadAccepted, Goto
<1>10. ASSUME NEW i \in Instances, WriteOut(i)  PROVE BalanceInv'
  BY <1>10 DEF WriteOut, Totals, Goto
<1>11. ASSUME NEW i \in Instances, Die(i)  PROVE BalanceInv'
  BY <1>11, DieClears
<1>12. ASSUME NEW i \in Instances, Exit(i) \/ Kill(i) \/ ForcedExit(i)  PROVE BalanceInv'
  BY <1>11, <1>12, Ends
<1>13. ASSUME Terminate  PROVE BalanceInv'
  BY <1>11, <1>13, Terminates
<1>14. ASSUME ReadPid \/ RemovePid  PROVE BalanceInv'
  BY <1>14 DEF ReadPid, RemovePid
<1>15. CASE UNCHANGED vars
  BY <1>15 DEF vars
<1> QED
  BY <1>1, <1>2, <1>3, <1>4, <1>5, <1>6, <1>7, <1>8, <1>9, <1>10, <1>12, <1>13, <1>14,
     <1>15 DEF Next

(* stats.json never tells of more accepted shares than submitted ones.     *)
THEOREM SavedBalanceHolds == Spec => []SavedBalance
<1>1. Init => BalanceInv
  BY FieldNames DEF Init, Zero, BalanceInv, BalanceOf
<1>2. BalanceInv => SavedBalance
  BY DEF BalanceInv, SavedBalance
<1> QED
  BY <1>1, <1>2, TypeCorrect, BalanceStep, PTL DEF Spec

-----------------------------------------------------------------------------
(* The hashes a process counts, or has read in order to save them, were    *)
(* done.                                                                   *)
OriginInv ==
  \A f \in {"cpu", "gpu"} :
    /\ disk[f] <= worked[f]
    /\ \A i \in Instances : counters[i][f] <= worked[f] /\ snap[i][f] <= worked[f]

LEMMA OriginStep == TypeOK /\ OriginInv /\ [Next]_vars => OriginInv'
<1> SUFFICES ASSUME TypeOK, OriginInv, [Next]_vars
             PROVE  OriginInv'
  OBVIOUS
<1>0. /\ counters \in [Instances -> [Fields -> Nat]] /\ snap \in [Instances -> [Fields -> Nat]]
      /\ disk \in [Fields -> Nat] /\ worked \in [{"cpu", "gpu"} -> Nat]
      /\ {"cpu", "gpu", "submitted", "accepted"} \subseteq Fields
  BY FieldNames DEF TypeOK
<1> USE <1>0 DEF OriginInv, run
<1>1. ASSUME NEW i \in Instances, Load(i)  PROVE OriginInv'
  <2>1. \A f \in {"cpu", "gpu"} : Loaded[f] <= worked[f]
    BY DEF Loaded, Zero
  <2> QED
    BY <1>1, <2>1, LoadSets DEF Load
<1>2. ASSUME NEW i \in Instances, CpuBatch(i) \/ GpuBatch(i)  PROVE OriginInv'
  <2>1. PICK f \in {"cpu", "gpu"} : CountHashes(i, f)
    BY <1>2 DEF CpuBatch, GpuBatch
  <2>2. UNCHANGED <<disk, snap>>
    BY <2>1 DEF CountHashes
  <2> QED
    BY <2>1, <2>2, HashesCounted
<1>3. ASSUME NEW i \in Instances, Submit(i) \/ Accepted(i)  PROVE OriginInv'
  BY <1>3, SharesCounted DEF Submit, Accepted
<1>4. ASSUME NEW i \in Instances, ReadCounters(i)  PROVE OriginInv'
  BY <1>4, CountersRead DEF ReadCounters
<1>5. ASSUME NEW i \in Instances, ReadAccepted(i)  PROVE OriginInv'
  BY <1>5, AcceptedRead DEF ReadAccepted
<1>6. ASSUME NEW i \in Instances, WriteOut(i)  PROVE OriginInv'
  <2>1. disk' = snap[i] /\ UNCHANGED <<counters, snap, worked>>
    BY <1>6 DEF WriteOut, Totals
  <2> QED
    BY <2>1
<1>7. ASSUME NEW i \in Instances, Die(i)  PROVE OriginInv'
  <2>1. UNCHANGED <<disk, worked>>
    BY <1>7, DieClears
  <2>2. \A f \in {"cpu", "gpu"} : counters'[i][f] = 0 /\ snap'[i][f] = 0
    BY <1>7, DieClears
  <2>3. \A j \in Instances \ {i} : counters'[j] = counters[j] /\ snap'[j] = snap[j]
    BY <1>7, DieClears
  <2> QED
    BY <2>1, <2>2, <2>3
<1>8. ASSUME NEW i \in Instances, Exit(i) \/ Kill(i) \/ ForcedExit(i)  PROVE OriginInv'
  BY <1>7, <1>8, Ends
<1>9. ASSUME Terminate  PROVE OriginInv'
  BY <1>7, <1>9, Terminates
<1>10. CASE UNCHANGED <<disk, counters, snap, worked>>
  BY <1>10
<1> QED
  BY <1>1, <1>2, <1>3, <1>4, <1>5, <1>6, <1>8, <1>9, <1>10
  DEF Next, vars, WritePid, RequestStop, Join, Unlink, Truncate, ReadPid, RemovePid

(* No batch is told of twice: what is saved was hashed, however runs       *)
(* overlap or die.                                                         *)
THEOREM SavedWorkWasDoneHolds == Spec => []SavedWorkWasDone
<1>1. Init => OriginInv
  BY FieldNames DEF Init, Zero, OriginInv
<1>2. OriginInv => SavedWorkWasDone
  BY DEF OriginInv, SavedWorkWasDone
<1> QED
  BY <1>1, <1>2, TypeCorrect, OriginStep, PTL DEF Spec

-----------------------------------------------------------------------------
(* What has happened is not forgotten.                                     *)
LEMMA MishapsStay == TypeOK /\ [Next]_vars => mishaps \subseteq mishaps'
BY DEF TypeOK, Next, vars, run, Load, WritePid, CpuBatch, GpuBatch, CountHashes, Submit,
       Accepted, RequestStop, Join, Unlink, ReadCounters, ReadAccepted, Truncate, WriteOut,
       Exit, Kill, ForcedExit, Die, ReadPid, Terminate, RemovePid, Note

(* Unless runs overlap there is one process at a time, and ...             *)
AloneInv ==
  "overlap" \notin mishaps =>
    \A i, j \in Instances : pc[i] # "off" /\ pc[j] # "off" => i = j

LEMMA AloneStep == TypeOK /\ AloneInv /\ [Next]_vars => AloneInv'
<1> SUFFICES ASSUME TypeOK, AloneInv, [Next]_vars, "overlap" \notin mishaps'
             PROVE  \A i, j \in Instances : pc'[i] # "off" /\ pc'[j] # "off" => i = j
  BY DEF AloneInv
<1> USE DEF AloneInv, run
<1>0. pc \in [Instances -> Steps]
  BY DEF TypeOK
<1>1. ASSUME NEW i \in Instances, Load(i)
      PROVE  \A k, j \in Instances : pc'[k] # "off" /\ pc'[j] # "off" => k = j
  <2>1. \A j \in Instances : pc[j] = "off"
    BY <1>1 DEF Load, Note, AllOff
  <2> QED
    BY <1>1, <2>1, LoadSets
<1>2. "overlap" \notin mishaps
  BY MishapsStay
<1>3. ASSUME \A j \in Instances : pc'[j] = "off" \/ pc[j] # "off"
      PROVE  \A i, j \in Instances : pc'[i] # "off" /\ pc'[j] # "off" => i = j
  BY <1>2, <1>3
<1>4. CASE \E i \in Instances : Load(i)
  BY <1>1, <1>4
<1>5. CASE ~\E i \in Instances : Load(i)
  <2>1. \A j \in Instances : pc'[j] = "off" \/ pc[j] # "off"
    BY <1>0, <1>5
    DEF TypeOK, Next, vars, WritePid, CpuBatch, GpuBatch, CountHashes, Submit, Accepted,
        RequestStop, Join, Unlink, ReadCounters, ReadAccepted, Truncate, WriteOut, Exit, Kill,
        ForcedExit, Die, ReadPid, Terminate, RemovePid, Goto
  <2> QED
    BY <1>3, <2>1
<1> QED
  BY <1>4, <1>5

(* ... the PID file names it while it mines, since a process that ended    *)
(* took nobody else's file away and no stop command is about to.           *)
PidInv ==
  "overlap" \notin mishaps =>
    \A i \in Instances : pc[i] = "run" => pidFile = i /\ ~removing /\ cli \in {NoPid, i}

LEMMA PidStep == TypeOK /\ AloneInv /\ AloneInv' /\ PidInv /\ [Next]_vars => PidInv'
<1> SUFFICES ASSUME TypeOK, AloneInv, AloneInv', PidInv, [Next]_vars,
                    "overlap" \notin mishaps'
             PROVE  \A i \in Instances :
                      pc'[i] = "run" => pidFile' = i /\ ~removing' /\ cli' \in {NoPid, i}
  BY DEF PidInv
<1> DEFINE Named == \A i \in Instances :
                      pc[i] = "run" => pidFile = i /\ ~removing /\ cli \in {NoPid, i}
<1>0. /\ "overlap" \notin mishaps /\ pc \in [Instances -> Steps] /\ Named
      /\ \A i, j \in Instances : pc[i] # "off" /\ pc[j] # "off" => i = j
      /\ \A i, j \in Instances : pc'[i] # "off" /\ pc'[j] # "off" => i = j
  BY MishapsStay DEF TypeOK, PidInv, AloneInv
<1> USE <1>0
<1>1. ASSUME NEW i \in Instances, WritePid(i)  PROVE Named'
  <2>1. pidFile' = i /\ pc' = [pc EXCEPT ![i] = "run"] /\ UNCHANGED <<cli, removing>>
    BY <1>1 DEF WritePid, Names
  <2>2. cli = NoPid /\ ~removing
    BY <1>1 DEF WritePid, Note
  <2>3. \A j \in Instances : pc'[j] = "run" => j = i
    BY <2>1
  <2> QED
    BY <2>1, <2>2, <2>3
<1>2. ASSUME NEW i \in Instances, pc[i] # "off", Die(i)  PROVE \A j \in Instances : pc'[j] = "off"
  <2>1. pc'[i] = "off" /\ \A j \in Instances \ {i} : pc'[j] = pc[j]
    BY <1>2 DEF Die
  <2> QED
    BY <1>2, <2>1
<1>3. ASSUME NEW i \in Instances, Exit(i) \/ Kill(i) \/ ForcedExit(i)  PROVE Named'
  BY <1>2, <1>3, Ends
<1>4. ASSUME Terminate  PROVE Named'
  <2>1. CASE pc[cli] # "off"
    BY <1>2, <1>4, <2>1, Terminates
  <2>2. CASE pc[cli] = "off"
    <3>1. cli \in Instances /\ pc' = pc
      BY <1>4, <2>2, Terminates DEF run
    <3>2. \A j \in Instances : pc[j] # "run"
      BY <2>2, <3>1, LifecycleAssumption
    <3> QED
      BY <3>1, <3>2
  <2> QED
    BY <2>1, <2>2
<1>5. ASSUME NEW i \in Instances, Unlink(i)  PROVE Named'
  <2>1. pc[i] = "joined" /\ pc' = [pc EXCEPT ![i] = "unlinked"]
    BY <1>5 DEF Unlink, Goto
  <2>2. \A j \in Instances : pc'[j] # "run"
    BY <2>1
  <2> QED
    BY <2>2
<1>6. ASSUME NEW i \in Instances,
             Load(i) \/ Join(i) \/ ReadCounters(i) \/ ReadAccepted(i) \/ Truncate(i) \/ WriteOut(i)
      PROVE  Named'
  <2>1. UNCHANGED <<pidFile, cli, removing>>
    BY <1>6 DEF Load, Join, ReadCounters, ReadAccepted, Truncate, WriteOut
  <2>2. \A j \in Instances : pc'[j] = "run" => pc[j] = "run"
    BY <1>6 DEF Load, Join, ReadCounters, ReadAccepted, Truncate, WriteOut, Goto
  <2> QED
    BY <2>1, <2>2
<1>7. ASSUME ReadPid  PROVE Named'
  BY <1>7 DEF ReadPid, run
<1>8. ASSUME RemovePid  PROVE Named'
  BY <1>8 DEF RemovePid, run
<1>9. CASE UNCHANGED <<pc, pidFile, cli, removing>>
  BY <1>9
<1> QED
  BY <1>1, <1>3, <1>4, <1>5, <1>6, <1>7, <1>8, <1>9
  DEF Next, vars, run, CpuBatch, GpuBatch, CountHashes, Submit, Accepted, RequestStop

(* Whatever earlier runs that died left behind, a run that mines is the    *)
(* one `mi-miner --stop` finds.                                            *)
THEOREM StopFindsRunHolds == Spec => []StopFindsRun
<1>1. Init => AloneInv /\ PidInv
  BY DEF Init, AloneInv, PidInv
<1>2. PidInv => StopFindsRun
  BY DEF PidInv, StopFindsRun
<1> QED
  BY <1>1, <1>2, TypeCorrect, AloneStep, PidStep, PTL DEF Spec

-----------------------------------------------------------------------------
(* stats.json is truncated only while some process is about to write it.   *)
Lossless == mishaps \cap {"overlap", "loss"} = {}

TornInv == Lossless => (torn => \E i \in Instances : pc[i] = "torn")

LEMMA LosslessBefore == TypeOK /\ [Next]_vars /\ Lossless' => Lossless /\ "overlap" \notin mishaps
BY MishapsStay DEF Lossless

(* With one process at a time, every other process is off.                 *)
LEMMA Alone ==
  ASSUME AloneInv, "overlap" \notin mishaps, NEW i \in Instances, pc[i] # "off"
  PROVE  \A j \in Instances \ {i} : pc[j] = "off"
BY DEF AloneInv

LEMMA TornStep == TypeOK /\ AloneInv /\ TornInv /\ [Next]_vars => TornInv'
<1> SUFFICES ASSUME TypeOK, AloneInv, TornInv, [Next]_vars, Lossless', torn'
             PROVE  \E i \in Instances : pc'[i] = "torn"
  BY DEF TornInv
<1>0. /\ Lossless /\ "overlap" \notin mishaps /\ pc \in [Instances -> Steps]
      /\ torn => \E i \in Instances : pc[i] = "torn"
  BY LosslessBefore DEF TypeOK, TornInv
<1> USE <1>0
<1>1. ASSUME NEW i \in Instances, Truncate(i)  PROVE pc'[i] = "torn"
  BY <1>1 DEF Truncate, Goto
<1>2. ASSUME NEW i \in Instances, Die(i), torn, pc[i] # "off"  PROVE FALSE
  <2>1. pc[i] = "torn"
    BY <1>2, Alone
  <2>2. "loss" \in mishaps'
    BY <1>2, <2>1 DEF Die, Note
  <2> QED
    BY <2>2 DEF Lossless
<1>3. ASSUME NEW i \in Instances, Exit(i) \/ Kill(i) \/ ForcedExit(i)  PROVE FALSE
  BY <1>2, <1>3, Ends DEF Die
<1>4. CASE Terminate
  BY <1>2, <1>4, Terminates DEF Die, run
<1>5. ASSUME NEW i \in Instances,
             \/ Load(i) \/ WritePid(i) \/ Join(i) \/ Unlink(i) \/ ReadCounters(i) \/ ReadAccepted(i)
      PROVE  \E j \in Instances : pc'[j] = "torn"
  <2>1. torn /\ pc[i] # "torn" /\ \A j \in Instances \ {i} : pc'[j] = pc[j]
    BY <1>5 DEF Load, WritePid, Join, Unlink, ReadCounters, ReadAccepted, Goto
  <2> QED
    BY <2>1
<1>6. ASSUME NEW i \in Instances, WriteOut(i)  PROVE FALSE
  BY <1>6 DEF WriteOut
<1>7. CASE UNCHANGED <<pc, torn>>
  BY <1>7
<1> QED
  BY <1>1, <1>3, <1>4, <1>5, <1>6, <1>7
  DEF Next, vars, run, CpuBatch, GpuBatch, CountHashes, Submit, Accepted, RequestStop, ReadPid,
      RemovePid

(* A run that is alone and undisturbed carries the CPU batches of all runs *)
(* from the file to its counters, and from these through the copy it saves *)
(* back to the file.                                                       *)
Counting == {"loaded", "run", "joined", "unlinked"}
Saving   == {"half", "read", "torn"}

AccountInv ==
  mishaps = {} =>
    /\ AllOff => disk["cpu"] = worked["cpu"]
    /\ \A i \in Instances :
         /\ pc[i] \in Counting => counters[i]["cpu"] = worked["cpu"]
         /\ pc[i] \in Saving => snap[i]["cpu"] = worked["cpu"]
         /\ pc[i] = "saved" => disk["cpu"] = worked["cpu"]

LEMMA AccountStep == TypeOK /\ AloneInv /\ TornInv /\ AccountInv /\ [Next]_vars => AccountInv'
<1> SUFFICES ASSUME TypeOK, AloneInv, TornInv, AccountInv, [Next]_vars, mishaps' = {}
             PROVE  AccountInv'
  BY DEF AccountInv
<1>0. /\ mishaps = {} /\ pc \in [Instances -> Steps]
      /\ counters \in [Instances -> [Fields -> Nat]] /\ snap \in [Instances -> [Fields -> Nat]]
      /\ worked \in [{"cpu", "gpu"} -> Nat]
      /\ "cpu" \in Fields /\ "gpu" \in Fields
  BY MishapsStay, FieldNames DEF TypeOK
<1> USE <1>0 DEF AccountInv, Counting, Saving, run
<1>1. ASSUME NEW i \in Instances, Load(i)  PROVE AccountInv'
  <2>1. AllOff
    BY <1>1 DEF Load, Note
  <2>2. ~torn
    BY <2>1 DEF TornInv, Lossless, AllOff
  <2>3. Loaded["cpu"] = worked["cpu"]
    BY <2>1, <2>2 DEF Loaded
  <2>4. \A j \in Instances \ {i} : pc'[j] = "off"
    BY <1>1, <2>1, LoadSets DEF AllOff
  <2>5. pc'[i] = "loaded" /\ counters'[i] = Loaded /\ worked' = worked
    BY <1>1, LoadSets DEF Load
  <2> QED
    BY <2>3, <2>4, <2>5 DEF AllOff
<1>2. ASSUME NEW i \in Instances, CpuBatch(i)  PROVE AccountInv'
  <2>1. CountHashes(i, "cpu") /\ pc[i] = "run" /\ pc' = pc
    BY <1>2 DEF CpuBatch, Hashing, CountHashes
  <2>2. \A j \in Instances \ {i} : pc[j] = "off"
    BY <2>1, Alone
  <2>3. counters'[i]["cpu"] = worked'["cpu"]
    BY <2>1, HashesCounted
  <2> QED
    BY <2>1, <2>2, <2>3 DEF AllOff
<1>3. ASSUME NEW i \in Instances, GpuBatch(i)  PROVE AccountInv'
  <2>1. CountHashes(i, "gpu") /\ pc' = pc /\ snap' = snap /\ disk' = disk
    BY <1>3 DEF GpuBatch, CountHashes
  <2>2. worked'["cpu"] = worked["cpu"] /\ \A j \in Instances : counters'[j]["cpu"] = counters[j]["cpu"]
    BY <2>1, HashesCounted
  <2> QED
    BY <2>1, <2>2 DEF AllOff
<1>4. ASSUME NEW i \in Instances, Submit(i) \/ Accepted(i)  PROVE AccountInv'
  <2>1. UNCHANGED <<pc, snap, disk, worked>>
    BY <1>4 DEF Submit, Accepted
  <2> QED
    BY <1>4, <2>1, SharesCounted DEF AllOff
<1>5. ASSUME NEW i \in Instances, WritePid(i) \/ Join(i) \/ Unlink(i)  PROVE AccountInv'
  <2>1. /\ pc[i] \in Counting /\ pc'[i] \in Counting /\ \A j \in Instances \ {i} : pc'[j] = pc[j]
        /\ UNCHANGED <<counters, snap, disk, worked>>
    BY <1>5 DEF WritePid, Join, Unlink, Goto
  <2> QED
    BY <2>1 DEF AllOff
<1>6. ASSUME NEW i \in Instances, ReadCounters(i)  PROVE AccountInv'
  <2>1. /\ pc[i] = "unlinked" /\ pc'[i] = "half" /\ \A j \in Instances \ {i} : pc'[j] = pc[j]
        /\ UNCHANGED <<counters, disk, worked>>
    BY <1>6 DEF ReadCounters, Goto
  <2> QED
    BY <1>6, <2>1, CountersRead DEF AllOff
<1>7. ASSUME NEW i \in Instances, ReadAccepted(i)  PROVE AccountInv'
  <2>1. /\ pc[i] = "half" /\ pc'[i] = "read" /\ \A j \in Instances \ {i} : pc'[j] = pc[j]
        /\ UNCHANGED <<counters, disk, worked>>
    BY <1>7 DEF ReadAccepted, Goto
  <2> QED
    BY <1>7, <2>1, AcceptedRead DEF AllOff
<1>8. ASSUME NEW i \in Instances, Truncate(i)  PROVE AccountInv'
  <2>1. /\ pc[i] = "read" /\ pc'[i] = "torn" /\ \A j \in Instances \ {i} : pc'[j] = pc[j]
        /\ UNCHANGED <<counters, snap, disk, worked>>
    BY <1>8 DEF Truncate, Goto
  <2> QED
    BY <2>1 DEF AllOff
<1>9. ASSUME NEW i \in Instances, WriteOut(i)  PROVE AccountInv'
  <2>1. /\ pc[i] = "torn" /\ pc'[i] = "saved" /\ disk' = snap[i]
        /\ UNCHANGED <<counters, snap, worked>>
        /\ \A j \in Instances \ {i} : pc'[j] = pc[j]
    BY <1>9 DEF WriteOut, Totals, Goto
  <2>2. \A j \in Instances \ {i} : pc'[j] = "off"
    BY <2>1, Alone
  <2> QED
    BY <2>1, <2>2 DEF AllOff
<1>10. ASSUME NEW i \in Instances, Die(i), pc[i] # "off"  PROVE AccountInv'
  <2>1. pc[i] = "saved"
    BY <1>10 DEF Die, Note
  <2>2. \A j \in Instances : pc'[j] = "off"
    BY <1>10, Alone, DieClears
  <2> QED
    BY <1>10, <2>1, <2>2, DieClears
<1>11. ASSUME NEW i \in Instances, Exit(i) \/ Kill(i) \/ ForcedExit(i)  PROVE AccountInv'
  BY <1>10, <1>11, Ends
<1>12. CASE UNCHANGED <<pc, counters, snap, disk, worked>>
  BY <1>12 DEF AllOff
<1>13. ASSUME Terminate  PROVE AccountInv'
  BY <1>10, <1>12, <1>13, Terminates
<1> QED
  BY <1>1, <1>2, <1>3, <1>4, <1>5, <1>6, <1>7, <1>8, <1>9, <1>11, <1>12, <1>13
  DEF Next, vars, RequestStop, ReadPid, RemovePid

(* When no run is left stats.json tells of every batch the CPU threads     *)
(* hashed, over all the runs there were, if each ran alone and to its end. *)
THEOREM CpuAccountedHolds == Spec => []CpuAccounted
<1>1. Init => AloneInv /\ TornInv /\ AccountInv
  BY FieldNames DEF Init, Zero, AloneInv, TornInv, AccountInv, AllOff, Counting, Saving
<1>2. TornInv /\ AccountInv => CpuAccounted
  BY DEF TornInv, Lossless, AccountInv, CpuAccounted, Loaded, AllOff
<1> QED
  BY <1>1, <1>2, TypeCorrect, AloneStep, TornStep, AccountStep, PTL DEF Spec

(* The totals in use are never smaller than the most that was ever saved.  *)
HistoryInv ==
  Lossless =>
    \A f \in Fields :
      /\ disk[f] >= best[f]
      /\ \A i \in Instances :
           /\ pc[i] \in Counting \cup {"half"} => counters[i][f] >= best[f]
           /\ pc[i] = "half" /\ f # "accepted" => snap[i][f] >= best[f]
           /\ pc[i] \in {"read", "torn"} => snap[i][f] >= best[f]

LEMMA HistoryStep == TypeOK /\ AloneInv /\ TornInv /\ HistoryInv /\ [Next]_vars => HistoryInv'
<1> SUFFICES ASSUME TypeOK, AloneInv, TornInv, HistoryInv, [Next]_vars, Lossless'
             PROVE  HistoryInv'
  BY DEF HistoryInv
<1>0. /\ Lossless /\ "overlap" \notin mishaps /\ pc \in [Instances -> Steps]
      /\ counters \in [Instances -> [Fields -> Nat]] /\ snap \in [Instances -> [Fields -> Nat]]
      /\ disk \in [Fields -> Nat] /\ best \in [Fields -> Nat]
  BY LosslessBefore DEF TypeOK
<1> USE <1>0 DEF HistoryInv, Counting, run
<1>1. ASSUME NEW i \in Instances, Load(i)  PROVE HistoryInv'
  <2>1. AllOff
    BY <1>1 DEF Load, Note, Lossless
  <2>2. ~torn
    BY <2>1 DEF TornInv, AllOff
  <2>3. \A f \in Fields : Loaded[f] >= best[f]
    BY <2>2 DEF Loaded
  <2>4. \A j \in Instances \ {i} : pc'[j] = "off"
    BY <1>1, <2>1, LoadSets DEF AllOff
  <2>5. pc'[i] = "loaded" /\ counters'[i] = Loaded /\ UNCHANGED <<disk, best>>
    BY <1>1, LoadSets DEF Load
  <2> QED
    BY <2>3, <2>4, <2>5
<1>2. ASSUME UNCHANGED <<pc, disk, best, snap>>,
             \A j \in Instances, g \in Fields : counters'[j][g] >= counters[j][g],
             counters' \in [Instances -> [Fields -> Nat]]
      PROVE  HistoryInv'
  BY <1>2
<1>3. ASSUME NEW i \in Instances, CpuBatch(i) \/ GpuBatch(i)  PROVE HistoryInv'
  <2>1. PICK f \in {"cpu", "gpu"} : CountHashes(i, f)
    BY <1>3 DEF CpuBatch, GpuBatch
  <2>2. UNCHANGED <<pc, disk, best, snap>>
    BY <2>1 DEF CountHashes
  <2>3. \A j \in Instances, g \in Fields : counters'[j][g] >= counters[j][g]
    <3>1. \A j \in Instances, g \in Fields : counters[j][g] \in Nat
      BY <1>0
    <3>2. \A j \in Instances, g \in Fields :
            counters'[j][g] = IF j = i /\ g = f THEN counters[j][g] + 1 ELSE counters[j][g]
      BY <2>1, HashesCounted
    <3>3. ASSUME NEW j \in Instances, NEW g \in Fields PROVE counters'[j][g] >= counters[j][g]
      <4> DEFINE n == counters[j][g]
                 m == counters'[j][g]
      <4>1. n \in Nat /\ (m = n + 1 \/ m = n)
        BY <3>1, <3>2
      <4> HIDE DEF n, m
      <4>2. m >= n
        BY ONLY <4>1
      <4> QED
        BY <4>2 DEF n, m
    <3> QED
      BY <3>3
  <2>4. counters' \in [Instances -> [Fields -> Nat]]
    BY LifecycleTypes DEF TypeOK
  <2> QED
    BY <1>2, <2>2, <2>3, <2>4
<1>4. ASSUME NEW i \in Instances, Submit(i) \/ Accepted(i)  PROVE HistoryInv'
  <2>1. UNCHANGED <<pc, disk, best, snap>>
    BY <1>4 DEF Submit, Accepted
  <2>2. counters' \in [Instances -> [Fields -> Nat]]
    BY LifecycleTypes DEF TypeOK
  <2> QED
    BY <1>2, <1>4, <2>1, <2>2, SharesCounted
<1>5. ASSUME NEW i \in Instances, WritePid(i) \/ Join(i) \/ Unlink(i)  PROVE HistoryInv'
  <2>1. /\ pc[i] \in Counting /\ pc'[i] \in Counting /\ \A j \in Instances \ {i} : pc'[j] = pc[j]
        /\ UNCHANGED <<counters, snap, disk, best>>
    BY <1>5 DEF WritePid, Join, Unlink, Goto
  <2> QED
    BY <2>1
<1>6. ASSUME NEW i \in Instances, ReadCounters(i)  PROVE HistoryInv'
  <2>1. /\ pc[i] = "unlinked" /\ pc'[i] = "half" /\ \A j \in Instances \ {i} : pc'[j] = pc[j]
        /\ UNCHANGED <<counters, disk, best>>
    BY <1>6 DEF ReadCounters, Goto
  <2> QED
    BY <1>6, <2>1, CountersRead
<1>7. ASSUME NEW i \in Instances, ReadAccepted(i)  PROVE HistoryInv'
  <2>1. /\ pc[i] = "half" /\ pc'[i] = "read" /\ \A j \in Instances \ {i} : pc'[j] = pc[j]
        /\ UNCHANGED <<counters, disk, best>>
    BY <1>7 DEF ReadAccepted, Goto
  <2> QED
    BY <1>7, <2>1, AcceptedRead
<1>8. ASSUME NEW i \in Instances, Truncate(i)  PROVE HistoryInv'
  <2>1. /\ pc[i] = "read" /\ pc'[i] = "torn" /\ \A j \in Instances \ {i} : pc'[j] = pc[j]
        /\ UNCHANGED <<counters, snap, disk, best>>
    BY <1>8 DEF Truncate, Goto
  <2> QED
    BY <2>1
<1>9. ASSUME NEW i \in Instances, WriteOut(i)  PROVE HistoryInv'
  <2>1. /\ pc[i] = "torn" /\ pc'[i] = "saved" /\ disk' = snap[i]
        /\ \A j \in Instances \ {i} : pc'[j] = pc[j]
    BY <1>9 DEF WriteOut, Totals, Goto
  <2>2. \A j \in Instances \ {i} : pc'[j] = "off"
    BY <2>1, Alone
  <2>3. \A f \in Fields : disk'[f] >= best'[f]
    BY <1>9, <2>1 DEF WriteOut
  <2> QED
    BY <2>1, <2>2, <2>3
<1>10. ASSUME NEW i \in Instances, Die(i), pc[i] # "off"  PROVE HistoryInv'
  <2>1. \A j \in Instances : pc'[j] = "off"
    BY <1>10, Alone, DieClears
  <2> QED
    BY <1>10, <2>1, DieClears
<1>11. ASSUME NEW i \in Instances, Exit(i) \/ Kill(i) \/ ForcedExit(i)  PROVE HistoryInv'
  BY <1>10, <1>11, Ends
<1>12. CASE UNCHANGED <<pc, counters, snap, disk, best>>
  BY <1>12
<1>13. ASSUME Terminate  PROVE HistoryInv'
  BY <1>10, <1>12, <1>13, Terminates
<1> QED
  BY <1>1, <1>3, <1>4, <1>5, <1>6, <1>7, <1>8, <1>9, <1>11, <1>12, <1>13
  DEF Next, vars, RequestStop, ReadPid, RemovePid

(* However runs end, the totals a next run would load are no smaller than  *)
(* those once saved, unless two runs overlapped or one died while it was   *)
(* writing the file.                                                       *)
THEOREM HistoryKeptHolds == Spec => []HistoryKept
<1>1. Init => AloneInv /\ TornInv /\ HistoryInv
  BY DEF Init, Zero, AloneInv, TornInv, HistoryInv, Counting
<1>2. TornInv /\ HistoryInv => HistoryKept
  BY DEF TornInv, Lossless, HistoryInv, HistoryKept, Loaded, AllOff
<1> QED
  BY <1>1, <1>2, TypeCorrect, AloneStep, TornStep, HistoryStep, PTL DEF Spec
=============================================================================
