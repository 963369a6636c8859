-------------------------- MODULE ActivityThrottle --------------------------
(***************************************************************************)
(* The activity monitor (monitor.rs), the throttle decision it takes every *)
(* second (throttle.rs) and the task of main.rs that applies it.           *)
(*                                                                         *)
(* The decision goes through a watch channel, which holds the last one     *)
(* only.  The CPU usage it depends on is that of the whole system, the     *)
(* miner's own threads included: each is taken to keep one core busy, as   *)
(* is each unit of the load of other programs.  On Linux the idle time is  *)
(* 0 until the first input event, so that it need not ever grow.           *)
(*                                                                         *)
(* Left out: is_ramping (nobody reads it) and the intensity of the GPU,    *)
(* which goes the way of the threads.  The power samples are in PowerTasks.*)
(***************************************************************************)
EXTENDS Naturals

CONSTANTS
  Cores,       \* cores of the machine
  MaxThreads,  \* mining.threads, the workers there are
  Threshold,   \* activity.cpu_threshold, in percent
  IdleTimeout, \* activity.idle_timeout_secs
  MinThreads,  \* the values of activity.min_threads the user saves
  Loads,       \* cores that other programs keep busy
  MaxChanges   \* bound: changes of the settings and of that load

ASSUME ActivityAssumption ==
  /\ Cores \in Nat \ {0} /\ MaxThreads \in Nat \ {0}
  /\ Threshold \in 0 .. 100 /\ IdleTimeout \in Nat \ {0}
  /\ MinThreads \subseteq Nat /\ MinThreads # {}
  /\ Loads \subseteq Nat /\ 0 \in Loads
  /\ MaxChanges \in Nat

VARIABLES
  idle,       \* seconds since the last input, up to the timeout
  load,       \* cores busy with other programs
  minThreads, \* activity.min_threads in the live config
  active,     \* active_cpu_threads
  decision,   \* the threads in the watch channel
  unseen,     \* it has not been applied
  stop,       \* should_stop
  changes,    \* number of changes so far
  heard       \* history: no input, setting or stop since the last decision

vars == <<idle, load, minThreads, active, decision, unseen, stop, changes, heard>>

Levels == {MaxThreads, MaxThreads \div 2, 1} \cup MinThreads

\* The threads asked for are one of the levels the decision knows, and at least one.
TypeOK ==
  /\ idle \in 0 .. IdleTimeout /\ load \in Loads
  /\ minThreads \in MinThreads
  /\ {active, decision} \subseteq Levels \ {0}
  /\ unseen \in BOOLEAN /\ stop \in BOOLEAN /\ heard \in BOOLEAN
  /\ changes \in 0 .. MaxChanges

Init ==
  /\ idle \in {0, IdleTimeout} /\ load \in Loads
  /\ minThreads \in MinThreads
  /\ active = MaxThreads /\ decision = MaxThreads
  /\ unseen = FALSE /\ heard = FALSE /\ stop = FALSE
  /\ changes = 0

(***************************************************************************)
(* compute_throttle().                                                     *)
(***************************************************************************)
AtLeast(a, b) == IF a >= b THEN a ELSE b
AtMost(a, b)  == IF a <= b THEN a ELSE b

UserActive == idle < IdleTimeout

Working     == AtMost(active, MaxThreads)
SystemBusy  == 100 * AtMost(Cores, Working + load) > Threshold * Cores

\* Mutant: the load is looked at first, and the user only on a quiet system.
ComputeLoadFirst(min) ==
  CASE SystemBusy                -> AtLeast(AtLeast(MaxThreads \div 2, min), 1)
    [] ~SystemBusy /\ UserActive -> AtLeast(min, 1)
    [] OTHER                     -> MaxThreads

ComputeThrottle(min) ==
  CASE UserActive                -> AtLeast(min, 1)
    [] ~UserActive /\ SystemBusy -> AtLeast(AtLeast(MaxThreads \div 2, min), 1)
    [] OTHER                     -> MaxThreads

(***************************************************************************)
(* The two tasks.                                                          *)
(***************************************************************************)
Decide ==
  /\ ~stop
  /\ decision' = ComputeThrottle(minThreads)
  /\ unseen' = TRUE /\ heard' = TRUE
  /\ UNCHANGED <<idle, load, minThreads, active, stop, changes>>

\* Mutant: a decision is applied only when it lowers the number of threads.
ApplyDown == IF decision < active THEN decision ELSE active

Applied ==
  decision

Apply ==
  /\ unseen
  /\ active' = Applied
  /\ unseen' = FALSE
  /\ UNCHANGED <<idle, load, minThreads, decision, stop, changes, heard>>

(***************************************************************************)
(* What they watch.                                                        *)
(***************************************************************************)
Second ==
  /\ idle < IdleTimeout
  /\ idle' = idle + 1
  /\ heard' = (heard /\ idle' < IdleTimeout)
  /\ UNCHANGED <<load, minThreads, active, decision, unseen, stop, changes>>

Input ==
  /\ idle' = 0
  /\ heard' = FALSE
  /\ UNCHANGED <<load, minThreads, active, decision, unseen, stop, changes>>

ChangeLoad ==
  /\ changes < MaxChanges
  /\ load' \in Loads \ {load}
  /\ changes' = changes + 1
  /\ UNCHANGED <<idle, minThreads, active, decision, unseen, stop, heard>>

SaveSettings ==
  /\ changes < MaxChanges
  /\ minThreads' \in MinThreads \ {minThreads}
  /\ changes' = changes + 1
  /\ heard' = FALSE
  /\ UNCHANGED <<idle, load, active, decision, unseen, stop>>

RequestStop ==
  /\ ~stop
  /\ stop' = TRUE
  /\ UNCHANGED <<idle, load, minThreads, active, decision, unseen, changes, heard>>

Next ==
  \/ Decide \/ Apply
  \/ Second \/ Input \/ ChangeLoad \/ SaveSettings \/ RequestStop

\* The interval ticks, and the task that waits for a change is woken.
Fairness == WF_vars(Decide) /\ WF_vars(Apply)

Spec == Init /\ [][Next]_vars /\ Fairness

-----------------------------------------------------------------------------
(***************************************************************************)
(* A user at work is left alone: when a decision has been taken since the  *)
(* last input or change of the settings, and applied, no more workers run  *)
(* than the settings allow, whatever the load.                             *)
(***************************************************************************)
UserComesFirst ==
  (heard /\ ~unseen /\ UserActive) => active = AtLeast(minThreads, 1)

(***************************************************************************)
(* The miner's own load feeds back into the decision: at full power it may *)
(* keep the system busy, and at half power no longer.  A machine that the  *)
(* user has left is mined on with at least half of the threads, whatever   *)
(* runs beside, and with nothing else running the miner comes back to full *)
(* power again and again.  (It need not stay there.)                       *)
(***************************************************************************)
Left  == idle = IdleTimeout /\ ~stop
Alone == Left /\ load = 0

FullPowerReturns ==
  /\ <>[]Left  => <>[](active >= MaxThreads \div 2)
  /\ <>[]Alone => []<>(active >= MaxThreads)
=============================================================================
