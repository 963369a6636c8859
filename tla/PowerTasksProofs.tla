-------------------------- MODULE PowerTasksProofs ---------------------------
(***************************************************************************)
(* Proofs about ActivityThrottle and PowerTasks, for every machine, every  *)
(* setting of the thresholds, every load of other programs and any number  *)
(* of changes, pauses and units of energy.  The tasks of PowerTasks leave  *)
(* the throttle alone: what is proved of ActivityThrottle holds of both.   *)
(***************************************************************************)
EXTENDS PowerTasks, TLAPS

-----------------------------------------------------------------------------
(* The throttle.                                                           *)

ThrottleSteps == Init /\ [][Next]_vars

(* The decision is one of the levels, and at least one thread.             *)
LEMMA DecisionIsLevel ==
  ASSUME NEW min \in MinThreads
  PROVE  ComputeThrottle(min) \in Levels \ {0}
<1>1. min \in Nat /\ MaxThreads \in Nat \ {0} /\ MaxThreads \div 2 \in Nat
  BY ActivityAssumption
<1>2. \A a, b \in Levels \cap Nat : AtLeast(a, b) \in Levels \cap Nat
  BY DEF AtLeast
<1>3. \A a \in Levels \cap Nat : AtLeast(a, 1) \in Levels \ {0}
  BY DEF AtLeast, Levels
<1>4. {min, MaxThreads, MaxThreads \div 2} \subseteq Levels \cap Nat
  BY <1>1 DEF Levels
<1>5. /\ AtLeast(min, 1) \in Levels \ {0} /\ MaxThreads \in Levels \ {0}
      /\ AtLeast(AtLeast(MaxThreads \div 2, min), 1) \in Levels \ {0}
  BY <1>1, <1>2, <1>3, <1>4
<1> QED
  BY <1>5 DEF ComputeThrottle

LEMMA ThrottleInitTyped == Init => TypeOK
<1>1. MaxThreads \in Levels \ {0} /\ IdleTimeout \in Nat \ {0} /\ MaxChanges \in Nat
  BY ActivityAssumption DEF Levels
<1>2. Init => unseen \in BOOLEAN /\ heard \in BOOLEAN /\ stop \in BOOLEAN
  BY Zenon DEF Init
<1>3. Init => /\ idle \in 0 .. IdleTimeout /\ load \in Loads /\ minThreads \in MinThreads
              /\ {active, decision} \subseteq Levels \ {0} /\ changes \in 0 .. MaxChanges
  BY <1>1 DEF Init
<1> QED
  BY <1>2, <1>3 DEF TypeOK

LEMMA ThrottleTypes == TypeOK /\ [Next]_vars => TypeOK'
<1> SUFFICES ASSUME TypeOK, [Next]_vars
             PROVE  TypeOK'
  OBVIOUS
<1> USE DEF TypeOK
<1>1. CASE Decide
  BY <1>1, DecisionIsLevel DEF Decide
<1>2. CASE Apply
  BY <1>2 DEF Apply, Applied
<1>3. CASE Second
  <2>1. idle' \in 0 .. IdleTimeout
    BY <1>3, ActivityAssumption DEF Second
  <2>2. heard' \in BOOLEAN
    BY <1>3 DEF Second
  <2>3. UNCHANGED <<load, minThreads, active, decision, unseen, stop, changes>>
    BY <1>3 DEF Second
  <2> QED
    BY <2>1, <2>2, <2>3
<1>4. CASE Input
  <2>1. heard' \in BOOLEAN
    BY <1>4, Zenon DEF Input
  <2>2. idle' = 0 /\ UNCHANGED <<load, minThreads, active, decision, unseen, stop, changes>>
    BY <1>4 DEF Input
  <2> QED
    BY <2>1, <2>2, ActivityAssumption
<1>5. CASE ChangeLoad
  BY <1>5, ActivityAssumption DEF ChangeLoad
<1>6. CASE SaveSettings
  <2>1. heard' \in BOOLEAN
    BY <1>6, Zenon DEF SaveSettings
  <2>2. /\ minThreads' \in MinThreads /\ changes < MaxChanges /\ changes' = changes + 1
        /\ UNCHANGED <<idle, load, active, decision, unseen, stop>>
    BY <1>6 DEF SaveSettings
  <2> QED
    BY <2>1, <2>2, ActivityAssumption
<1>7. CASE RequestStop
  BY <1>7 DEF RequestStop
<1>8. CASE UNCHANGED vars
  BY <1>8 DEF vars
<1> QED
  BY <1>1, <1>2, <1>3, <1>4, <1>5, <1>6, <1>7, <1>8 DEF Next

(* The threads asked for are always one of the levels the decision knows,  *)
(* and never none.                                                         *)
THEOREM ThrottleTypeCorrect == ThrottleSteps => []TypeOK
BY ThrottleInitTyped, ThrottleTypes, PTL DEF ThrottleSteps

(* What was decided since the last input is for a user at work as long as  *)
(* the user is, and the threads are what was decided once it is applied.   *)
DecisionInv ==
  /\ heard /\ UserActive => decision = AtLeast(minThreads, 1)
  /\ ~unseen => active = decision

LEMMA DecisionStep == TypeOK /\ DecisionInv /\ [Next]_vars => DecisionInv'
<1> SUFFICES ASSUME TypeOK, DecisionInv, [Next]_vars
             PROVE  DecisionInv'
  OBVIOUS
<1> USE DEF DecisionInv, UserActive
<1>1. CASE Decide
  <2>1. decision' = ComputeThrottle(minThreads) /\ unseen' = TRUE
        /\ UNCHANGED <<idle, minThreads>>
    BY <1>1 DEF Decide
  <2>2. UserActive => ComputeThrottle(minThreads) = AtLeast(minThreads, 1)
    BY DEF ComputeThrottle
  <2> QED
    BY <2>1, <2>2
<1>2. CASE Apply
  BY <1>2 DEF Apply, Applied
<1>3. CASE Second
  <2>1. idle < IdleTimeout /\ (heard' => heard)
    BY <1>3, Zenon DEF Second
  <2>2. UNCHANGED <<minThreads, active, decision, unseen>>
    BY <1>3 DEF Second
  <2> QED
    BY <2>1, <2>2
<1>4. CASE Input \/ ChangeLoad \/ SaveSettings \/ RequestStop
  BY <1>4 DEF Input, ChangeLoad, SaveSettings, RequestStop
<1>5. CASE UNCHANGED vars
  BY <1>5 DEF vars
<1> QED
  BY <1>1, <1>2, <1>3, <1>4, <1>5 DEF Next

(* A user at work is left alone, whatever else the machine does.           *)
THEOREM ThrottleUserComesFirst == ThrottleSteps => []UserComesFirst
<1>1. Init => DecisionInv
  BY DEF Init, DecisionInv
<1>2. DecisionInv => UserComesFirst
  BY DEF DecisionInv, UserComesFirst
<1> QED
  BY <1>1, <1>2, ThrottleTypeCorrect, DecisionStep, PTL DEF ThrottleSteps

-----------------------------------------------------------------------------
(* The tasks beside the monitor do not disturb the throttle: every step of *)
(* PowerTasks is one of ActivityThrottle, or leaves its state as it is.    *)
THEOREM PowerImplementsThrottle == PowerSpec => ThrottleSteps
<1>1. PowerInit => Init
  BY DEF PowerInit
<1>2. [PowerNext]_allVars => [Next]_vars
  BY DEF PowerNext, MonitorTurn, Next, allVars
<1> QED
  BY <1>1, <1>2, PTL DEF PowerSpec, ThrottleSteps

(* A user at work is left alone, with all tasks of the process running.    *)
THEOREM UserComesFirstHolds == PowerSpec => []UserComesFirst
BY PowerImplementsThrottle, ThrottleUserComesFirst, PTL

-----------------------------------------------------------------------------
(* The readings.  A sample is never ahead of the meter.                    *)

EnergyInv ==
  /\ meter \in Nat /\ previous \in Nat /\ shown \in Nat
  /\ shown <= previous /\ previous <= meter

LEMMA EnergyStep == EnergyInv /\ [PowerNext]_allVars => EnergyInv'
<1> SUFFICES ASSUME EnergyInv, [PowerNext]_allVars
             PROVE  EnergyInv'
  OBVIOUS
<1> USE DEF EnergyInv
<1>1. CASE MonitorTurn
  <2>1. CASE Sample
    <3>1. meter' = meter /\ \/ UNCHANGED <<previous, shown>>
                            \/ previous' = meter /\ UNCHANGED shown
                            \/ previous' = meter /\ shown' = shown + meter - previous
      BY <2>1 DEF Sample, NextPrevious
    <3> QED
      BY <3>1
  <2>2. CASE UNCHANGED samplerVars
    BY <2>2 DEF samplerVars
  <2> QED
    BY <1>1, <2>1, <2>2 DEF MonitorTurn
<1>2. CASE NewSampler \/ DropSampler \/ UseEnergy
  BY <1>2 DEF NewSampler, DropSampler, UseEnergy
<1>3. CASE UNCHANGED samplerVars
  BY <1>3 DEF samplerVars
<1> QED
  BY <1>1, <1>2, <1>3 DEF PowerNext, powerVars, allVars

(* No energy is shown twice, whichever samples and deltas fail.            *)
THEOREM EnergyShownOnceHolds == PowerSpec => []EnergyShownOnce
<1>1. PowerInit => EnergyInv
  BY DEF PowerInit, EnergyInv
<1>2. EnergyInv => EnergyShownOnce
  BY DEF EnergyInv, EnergyShownOnce
<1> QED
  BY <1>1, <1>2, EnergyStep, PTL DEF PowerSpec

-----------------------------------------------------------------------------
(* The assertions.  The process holds the one the inhibitor knows of, and  *)
(* none when the inhibitor has gone.                                       *)

AssertionInv ==
  /\ assertionId \in BOOLEAN
  /\ assertions = IF assertionId THEN 1 ELSE 0
  /\ phase = "gone" => ~assertionId

(* What the inhibitor promises: at most one assertion, given back by the   *)
(* time it ends.                                                           *)
NoAssertionLeaks == assertions \in {0, 1} /\ (phase = "gone" => assertions = 0)

LEMMA EnableKeeps ==
  ASSUME AssertionInv, Enable
  PROVE  assertionId' \in BOOLEAN /\ assertions' = IF assertionId' THEN 1 ELSE 0
<1>1. CASE UNCHANGED <<assertions, assertionId>>
  BY <1>1 DEF AssertionInv
<1>2. CASE ~assertionId /\ assertionId' = TRUE /\ assertions' = assertions + 1
  <2>1. assertions = 0
    BY <1>2 DEF AssertionInv
  <2>2. assertions' = 1
    BY <1>2, <2>1
  <2> QED
    BY <1>2, <2>2, Zenon
<1> QED
  BY <1>1, <1>2, Zenon DEF Enable

LEMMA DisableKeeps ==
  ASSUME AssertionInv, Disable
  PROVE  ~assertionId' /\ assertionId' \in BOOLEAN /\ assertions' = 0
<1>1. assertionId' = FALSE
  BY DEF Disable
<1>2. CASE assertionId
  <2>1. assertions = 1 /\ assertions' = assertions - 1
    BY <1>2 DEF AssertionInv, Disable
  <2>2. assertions' = 0
    BY <2>1
  <2> QED
    BY <1>1, <2>2, Zenon
<1>3. CASE ~assertionId
  <2>1. assertions = 0 /\ assertions' = assertions
    BY <1>3 DEF AssertionInv, Disable
  <2> QED
    BY <1>1, <2>1
<1> QED
  BY <1>2, <1>3

LEMMA AssertionStep == AssertionInv /\ [PowerNext]_allVars => AssertionInv'
<1> SUFFICES ASSUME AssertionInv, [PowerNext]_allVars
             PROVE  AssertionInv'
  OBVIOUS
<1>1. ASSUME UNCHANGED <<assertions, assertionId>>, phase' = "gone" => phase = "gone"
      PROVE  AssertionInv'
  BY <1>1 DEF AssertionInv
<1>2. ASSUME Enable, phase' # "gone"  PROVE AssertionInv'
  BY <1>2, EnableKeeps DEF AssertionInv
<1>3. ASSUME Disable  PROVE AssertionInv'
  BY <1>3, DisableKeeps DEF AssertionInv
<1>4. CASE Boot
  <2>1. Enable \/ UNCHANGED <<assertions, assertionId>>
    BY <1>4 DEF Boot
  <2>2. phase' # "gone"
    BY <1>4 DEF Boot
  <2> QED
    BY <1>1, <1>2, <2>1, <2>2
<1>5. CASE FirstPoll
  BY <1>1, <1>5 DEF FirstPoll
<1>6. CASE Turn
  <2>1. CASE stop
    BY <1>3, <1>6, <2>1 DEF Turn
  <2>2. CASE ~stop
    <3>1. phase' # "gone"
      BY <1>6, <2>2 DEF Turn
    <3>2. Enable \/ Disable \/ UNCHANGED <<assertions, assertionId>>
      BY <1>6, <2>2 DEF Turn, Switch
    <3> QED
      BY <1>1, <1>2, <1>3, <3>1, <3>2
  <2> QED
    BY <2>1, <2>2
<1>7. CASE Dropped
  BY <1>3, <1>7 DEF Dropped
<1>8. CASE SelfCheckFails \/ \E p \in BOOLEAN : SetPaused(p)
  BY <1>1, <1>8 DEF SelfCheckFails, SetPaused
<1>9. CASE UNCHANGED inhibitorVars
  BY <1>1, <1>9 DEF inhibitorVars
<1> QED
  BY <1>4, <1>5, <1>6, <1>7, <1>8, <1>9 DEF PowerNext, powerVars, allVars

(* The process never holds two assertions, and holds none any more when    *)
(* the inhibitor has ended, by its turn after a stop or by being dropped.  *)
THEOREM NoAssertionLeaksHolds == PowerSpec => []NoAssertionLeaks
<1>1. PowerInit => AssertionInv
  BY DEF PowerInit, AssertionInv
<1>2. AssertionInv => NoAssertionLeaks
  BY DEF AssertionInv, NoAssertionLeaks
<1> QED
  BY <1>1, <1>2, AssertionStep, PTL DEF PowerSpec
=============================================================================
