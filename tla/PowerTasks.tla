----------------------------- MODULE PowerTasks -----------------------------
(***************************************************************************)
(* The tasks that run beside the activity monitor and share should_stop    *)
(* with it: the sleep inhibitor of main.rs, which holds a macOS power      *)
(* assertion while mining is not paused, and the sampler of macos.rs,      *)
(* which the monitor asks for a power reading in each of its turns.        *)
(*                                                                         *)
(* Of the readings, only the energy they show in all is modelled.  The web *)
(* server's requests and a failed self-check are what changes paused.      *)
(***************************************************************************)
EXTENDS ActivityThrottle

CONSTANTS
  MaxPauses,  \* bound: changes of paused
  MaxEnergy   \* bound: energy used

ASSUME PowerAssumption == MaxPauses \in Nat /\ MaxEnergy \in Nat

VARIABLES
  needsWallet,    \* there is no address to mine for
  paused,         \* stats.paused
  phase,          \* of the inhibitor: "boot", "spawned", "running", "gone"
  assertions,     \* assertions the process holds
  assertionId,    \* the inhibitor knows of one
  wasActive,      \* was_active; before that, what main read
  refused,        \* history: an assertion was asked for and not given
  surprised,      \* history: main and the task read paused differently
  pauses,         \* number of changes of paused
  sampler,        \* of the monitor: "none", "ready", "gone"
  meter,          \* energy used, as IOReport adds it up
  previous,       \* prev_sample: the meter when it was taken
  shown           \* history: the energy in all readings

inhibitorVars == <<needsWallet, paused, phase, assertions, assertionId, wasActive,
                   refused, surprised, pauses>>
samplerVars   == <<sampler, meter, previous, shown>>
powerVars     == <<inhibitorVars, samplerVars>>
allVars       == <<vars, powerVars>>

PowerInit ==
  /\ Init
  /\ needsWallet \in BOOLEAN
  /\ paused = needsWallet
  /\ phase = "boot"
  /\ assertions = 0
  /\ assertionId = FALSE
  /\ wasActive = FALSE
  /\ refused = FALSE /\ surprised = FALSE
  /\ pauses = 0
  /\ sampler = "none" /\ meter = 0 /\ previous = 0 /\ shown = 0

-----------------------------------------------------------------------------
\* The sleep inhibitor

(* enable(): nothing when one is held; creating one may fail, and is not   *)
(* tried again until mining has been paused and resumed.                   *)
Enable ==
  IF assertionId
    THEN UNCHANGED <<assertions, assertionId, refused>>
    ELSE \/ /\ assertionId' = TRUE
            /\ assertions' = assertions + 1
            /\ UNCHANGED refused
         \/ /\ refused' = TRUE
            /\ UNCHANGED <<assertions, assertionId>>

Disable ==
  /\ assertionId' = FALSE
  /\ assertions' = IF assertionId THEN assertions - 1 ELSE assertions
  /\ UNCHANGED refused

Boot ==
  /\ phase = "boot"
  /\ IF ~needsWallet /\ ~paused
       THEN Enable
       ELSE UNCHANGED <<assertions, assertionId, refused>>
  /\ wasActive' = ~paused
  /\ phase' = "spawned"
  /\ UNCHANGED <<needsWallet, paused, surprised, pauses>>

(* The task reads paused for itself when it is first polled: the web       *)
(* server may be up by then and have changed it.                           *)
FirstPoll ==
  /\ phase = "spawned"
  /\ wasActive' = ~paused
  /\ surprised' = (wasActive = paused)
  /\ phase' = "running"
  /\ UNCHANGED <<needsWallet, paused, assertions, assertionId, refused, pauses>>

\* Mutant: a turn that finds mining paused leaves the assertion alone.
SwitchUpOnly ==
  IF ~paused /\ ~wasActive
    THEN Enable
    ELSE UNCHANGED <<assertions, assertionId, refused>>

\* What a turn does when paused has changed since the one before.
Switch ==
  CASE ~paused /\ ~wasActive -> Enable
    [] paused /\ wasActive   -> Disable
    [] OTHER                 -> UNCHANGED <<assertions, assertionId, refused>>

\* A turn of the task, every 2 s.
Turn ==
  /\ phase = "running"
  /\ IF stop
       THEN Disable /\ phase' = "gone" /\ UNCHANGED wasActive
       ELSE Switch /\ wasActive' = ~paused /\ UNCHANGED phase
  /\ UNCHANGED <<needsWallet, paused, surprised, pauses>>

(* main() may return before the task has seen should_stop: the inhibitor   *)
(* is dropped with the task, and its drop() disables it.                   *)
Dropped ==
  /\ stop
  /\ phase \in {"spawned", "running"}
  /\ Disable
  /\ phase' = "gone"
  /\ UNCHANGED <<needsWallet, paused, wasActive, surprised, pauses>>

\* mining_pause and mining_resume, once main has started the web server.
SetPaused(p) ==
  /\ phase # "boot"
  /\ pauses < MaxPauses
  /\ paused' = p
  /\ pauses' = pauses + 1
  /\ UNCHANGED <<needsWallet, phase, assertions, assertionId, wasActive, refused, surprised>>

(* main's self-check of the hasher, every 60 s until a stop: a failed one  *)
(* pauses mining, which may be resumed all the same.                       *)
SelfCheckFails ==
  /\ ~stop
  /\ SetPaused(TRUE)

-----------------------------------------------------------------------------
\* The power sampler

\* new(): it may be refused, and the monitor then does without readings.
NewSampler ==
  /\ sampler = "none"
  /\ sampler' \in {"ready", "gone"}
  /\ previous' = meter
  /\ UNCHANGED <<meter, shown>>

\* Mutant: the sample a delta was taken to does not replace the previous one.
PreviousKept(delta) == IF delta THEN previous ELSE meter

\* The sample the next delta starts from: the new one, delta or no delta.
NextPrevious(delta) == meter

(* sample(), in the monitor's turn: there may be no sample, or a sample    *)
(* and no delta; with a delta, the energy of it is shown.                  *)
Sample ==
  /\ sampler = "ready"
  /\ \/ UNCHANGED <<previous, shown>>
     \/ previous' = NextPrevious(FALSE) /\ UNCHANGED shown
     \/ previous' = NextPrevious(TRUE) /\ shown' = shown + meter - previous
  /\ UNCHANGED <<sampler, meter>>

\* The monitor's turn as a whole.
MonitorTurn ==
  /\ Decide
  /\ sampler # "none"
  /\ IF sampler = "ready" THEN Sample ELSE UNCHANGED samplerVars

DropSampler ==
  /\ stop
  /\ sampler = "ready"
  /\ sampler' = "gone"
  /\ UNCHANGED <<meter, previous, shown>>

\* The machine uses energy, which IOReport adds up.
UseEnergy ==
  /\ meter < MaxEnergy
  /\ meter' = meter + 1
  /\ UNCHANGED <<sampler, previous, shown>>

-----------------------------------------------------------------------------
PowerNext ==
  \/ MonitorTurn /\ UNCHANGED inhibitorVars
  \/ (Apply \/ Second \/ Input \/ ChangeLoad \/ SaveSettings \/ RequestStop)
       /\ UNCHANGED powerVars
  \/ (Boot \/ FirstPoll \/ Turn \/ Dropped) /\ UNCHANGED <<vars, samplerVars>>
  \/ (SelfCheckFails \/ \E p \in BOOLEAN : SetPaused(p)) /\ UNCHANGED <<vars, samplerVars>>
  \/ (NewSampler \/ DropSampler \/ UseEnergy) /\ UNCHANGED <<vars, inhibitorVars>>

\* The tasks are polled and their intervals tick; requests need not come.
PowerFairness ==
  /\ WF_allVars(MonitorTurn /\ UNCHANGED inhibitorVars)
  /\ WF_allVars(NewSampler /\ UNCHANGED <<vars, inhibitorVars>>)
  /\ WF_allVars(Apply /\ UNCHANGED powerVars)
  /\ WF_allVars((Boot \/ FirstPoll \/ Turn) /\ UNCHANGED <<vars, samplerVars>>)

PowerSpec == PowerInit /\ [][PowerNext]_allVars /\ PowerFairness

-----------------------------------------------------------------------------
(* Whatever pauses and resumes came before: mining that is not paused any  *)
(* more keeps the machine awake, unless the system refuses an assertion;   *)
(* mining that stays paused lets it sleep, provided that main and the task *)
(* found paused the same when they first looked; and a stop request always *)
(* does.  No assertion is acquired that is not given back.                 *)
Mining == ~needsWallet /\ ~paused /\ ~refused /\ ~stop

SleepFollowsMining ==
  /\ <>[]Mining => <>[](assertions = 1)
  /\ <>[]((paused /\ ~surprised) \/ stop) => <>[](assertions = 0)

(* No energy is shown twice: the readings cover the time up to the sample  *)
(* the next one starts from, and no more.                                  *)
EnergyShownOnce == shown <= previous
=============================================================================
