---------------------------- MODULE PlanActivation ----------------------------
(***************************************************************************)
(* How a committed configuration replaces the plan the signal engine runs. *)
(*   src/CPM/CP/App/Domain/Intersection/IntersectionActivationService.c    *)
(*   src/CPM/CP/App/Domain/Intersection/IntersectionController.c           *)
(*   src/CPM/CP/App/Adapters/STM32/LWIPSNMPAdapter.c                       *)
(* A commit stages the configuration as a plan in the slot that is not     *)
(* active.  The control task, once per period, then waits while the unit   *)
(* is under remote manual control, forces all channels red, waits until    *)
(* they are reported red in HoldTicks consecutive periods, loads the plan  *)
(* and releases them.  It is also written to wait for the end of a preempt *)
(* but does not: see PreemptHoldsOffActivation.                            *)
(*                                                                         *)
(* SNMP requests are handled in the thread of lwIP, which outranks the     *)
(* control task, and nothing is locked: a commit, or a request for remote  *)
(* manual control, comes between any two memory accesses of the control    *)
(* task, but is never interrupted by it.  So each of them is one action,   *)
(* and a step of the control task is split where they make a difference.   *)
(*                                                                         *)
(* The engine is one signal channel, which flashes only on startup and has *)
(* no backup timer; when it serves a preempt is its own choice.  Telemetry *)
(* of the lamps comes with any delay.  Every configuration is accepted:    *)
(* verification before the commit applies the checks that compiling the    *)
(* plan repeats.                                                           *)
(***************************************************************************)
EXTENDS Naturals

CONSTANTS
  Config,       \* contents of configurations
  InitialConfig,
  HoldTicks,    \* INTERSECTION_ACTIVATION_ALL_RED_HOLD_TICKS
  MinYellow,    \* periods a yellow lasts at least
  ManualTimeout, \* engine ticks for which remote manual control is asked, at most
  MaxCommits,   \* bounds on the commits, the requests for manual control,
  MaxManuals,   \* and on how often a module's telemetry fails
  MaxGaps

ASSUME ConfigAssumption == InitialConfig \in Config
ASSUME HoldTicksAssumption == HoldTicks \in Nat \ {0}
ASSUME MinYellowAssumption == MinYellow \in Nat \ {0}
ASSUME BoundsAssumption == {ManualTimeout, MaxCommits, MaxManuals, MaxGaps} \subseteq Nat

VARIABLES
  committed,     \* the plan compiled from the active configuration
  service,       \* IntersectionActivationService_t
  engine,        \* the contents its configuration was copied from
  aspect,        \* what the engine asks for
  yellowTicks,   \* how long it has asked for yellow
  serving,       \* the engine serves a preempt (preemptStates)
  manual,        \* remoteManualControlTimeout, in engine ticks
  runtime,       \* of IntersectionRuntime_t: mode and unitControlStatus
  forceAllRed,   \* of the MMU adapter
  lamp,          \* the aspect applied to the channel
  measured,      \* the lamps lit according to the last telemetry, or NONE
  configEpoch,   \* the set id given to the module bus and the output driver
  pc, seen,      \* where the control task is, and the state it acts upon
  feedback,      \* the step's copy of the telemetry, until it is looked at
  redTicks,      \* history: periods the lamp, commanded red, was reported red
  disturbed,     \* history: a commit came at a moment when it breaks an activation
  commits, manuals, gaps

control == <<service, forceAllRed, pc, seen, feedback>>
signals == <<engine, aspect, yellowTicks, serving, manual, runtime, lamp>>
env     == <<measured, commits, manuals, gaps>>
vars == <<committed, service, engine, aspect, yellowTicks, serving, manual, runtime, forceAllRed,
          lamp, measured, configEpoch, pc, seen, feedback, redTicks, disturbed, commits, manuals, gaps>>

SetId  == 1..(MaxCommits + 1)
Plan   == [config : Config, setId : SetId]
Aspect == {"GREEN", "YELLOW", "RED", "FLASH"}
State  == {"IDLE", "STAGED", "WAIT_SAFE_PRECONDITIONS", "WAIT_ALL_RED_FEEDBACK",
           "SWITCH_PLAN", "RELEASE_STARTUP", "FAILED"}
Runtime == [mode : {"PREEMPT", "OTHER"}, unitControlStatus : {"REMOTE_MANUAL_CONTROL", "OTHER"}]

TypeOK ==
  /\ committed \in Plan
  /\ service \in [state : State, plans : [{0, 1} -> Plan], active : {0, 1},
                  stagedValid : BOOLEAN, stable : 0..HoldTicks,
                  live : SetId, pending : SetId \cup {0}]
  /\ engine \in SUBSET Config
  /\ aspect \in Aspect /\ lamp \in Aspect /\ measured \in Aspect \cup {"NONE"}
  /\ yellowTicks \in 0..MinYellow
  /\ {serving, forceAllRed, disturbed} \subseteq BOOLEAN
  /\ manual \in 0..ManualTimeout /\ runtime \in Runtime
  /\ configEpoch \in SetId
  /\ pc \in {"start", "tick", "force", "decide", "load", "publish", "finish"}
  /\ seen \in State /\ feedback \in Aspect \cup {"NONE"}
  /\ redTicks \in 0..HoldTicks
  /\ commits \in 0..MaxCommits /\ manuals \in 0..MaxManuals /\ gaps \in 0..MaxGaps

-----------------------------------------------------------------------------

Least(a, b) == IF a < b THEN a ELSE b

\* Init, then LoadCommittedLivePlan at start-up; the engine has loaded the same.
Init ==
  LET plan == [config |-> InitialConfig, setId |-> 1] IN
  /\ committed = plan
  /\ service = [state |-> "IDLE", plans |-> [i \in {0, 1} |-> plan], active |-> 0,
                stagedValid |-> FALSE, stable |-> 0, live |-> 1, pending |-> 0]
  /\ engine = {InitialConfig}
  /\ aspect = "RED" /\ yellowTicks = 0 /\ lamp = "RED" /\ measured = "NONE"
  /\ serving = FALSE /\ manual = 0
  /\ runtime = [mode |-> "OTHER", unitControlStatus |-> "OTHER"]
  /\ forceAllRed = FALSE
  /\ configEpoch = 1
  /\ pc = "start" /\ seen = "IDLE" /\ feedback = "NONE"
  /\ redTicks = 0 /\ disturbed = FALSE
  /\ commits = 0 /\ manuals = 0 /\ gaps = 0

-----------------------------------------------------------------------------
(* Staging, in the thread that commits.                                    *)

\* Wrong: the plan is compiled over the active one.
StagingSlotActive == service.active

StagingSlot == 1 - service.active

\* Wrong: compared with the plan staged before.
EquivalentToStaged(plan) == service.plans[StagingSlot].config = plan.config

\* PlansAreControlEquivalent: by a hash over the contents, without the set id.
Equivalent(plan) == service.plans[service.active].config = plan.config

\* IntersectionActivationServiceStageCommittedConfig
Staged(plan) ==
  LET compiled == [service EXCEPT !.plans[StagingSlot] = plan]
  IN  IF Equivalent(plan)
      THEN [compiled EXCEPT !.state = "IDLE", !.stagedValid = FALSE, !.pending = 0]
      ELSE [compiled EXCEPT !.state = "STAGED", !.stagedValid = TRUE, !.stable = 0,
                            !.pending = plan.setId]

\* A commit breaks an activation: the live plan's contents come back while the
\* channels are held red or are about to be, the plan being loaded is
\* overwritten, or the control task is about to write IDLE over STAGED.
Breaks(plan) ==
  \/ Equivalent(plan) /\ \/ forceAllRed
                         \/ /\ pc \in {"tick", "force"}
                            /\ seen \in {"STAGED", "WAIT_SAFE_PRECONDITIONS"}
  \/ pc \in {"load", "publish", "finish"}
  \/ pc = "tick" /\ seen = "RELEASE_STARTUP" /\ ~Equivalent(plan)

\* ConfigurationServiceCommit succeeded; the commit observer stages the result.
Commit(config) ==
  LET plan == [config |-> config, setId |-> committed.setId + 1] IN
  /\ commits < MaxCommits
  /\ commits' = commits + 1
  /\ committed' = plan
  /\ service' = Staged(plan)
  /\ disturbed' = (disturbed \/ Breaks(plan))
  /\ UNCHANGED <<signals, forceAllRed, configEpoch, pc, seen, feedback, redTicks,
                 measured, manuals, gaps>>

-----------------------------------------------------------------------------
(* Remote manual control, in the thread of SNMP.                           *)

\* Computed anew each time.  The mode is that of the coordination, never PREEMPT; the
\* startup flash hides remote manual control.
UpdateCoordinationRuntime(timeout, asked) ==
  [mode |-> "OTHER",
   unitControlStatus |-> IF timeout # 0 /\ asked # "FLASH" THEN "REMOTE_MANUAL_CONTROL"
                         ELSE "OTHER"]

\* Wrong: the status shows it from the next period on only.
SetTimeoutUnshown(timeout) ==
  /\ manuals < MaxManuals /\ pc # "load"
  /\ manuals' = manuals + 1
  /\ manual' = timeout
  /\ UNCHANGED <<committed, control, engine, aspect, yellowTicks, serving, runtime, lamp,
                 configEpoch, redTicks, disturbed, measured, commits, gaps>>

\* IntersectionEngineSetRemoteManualControlTimeout; refused, or undone, while the
\* engine loads a configuration.
SetRemoteManualControlTimeout(timeout) ==
  /\ manuals < MaxManuals /\ pc # "load"
  /\ manuals' = manuals + 1
  /\ manual' = timeout
  /\ runtime' = UpdateCoordinationRuntime(timeout, aspect)
  /\ UNCHANGED <<committed, control, engine, aspect, yellowTicks, serving, lamp,
                 configEpoch, redTicks, disturbed, measured, commits, gaps>>

-----------------------------------------------------------------------------
(* IntersectionControllerStep, in the control task.                        *)

\* The lamp's history at the beginning of a period.
RedTicks ==
  IF lamp # "RED" THEN 0
  ELSE IF measured = "RED" THEN Least(redTicks + 1, HoldTicks)
  ELSE IF redTicks = HoldTicks THEN HoldTicks ELSE 0

\* The step begins with IntersectionEngineSetMmuFlashControl, which updates the
\* runtime; then the activation service's switch reads the state.
Begin ==
  /\ pc = "start"
  /\ pc' = "tick"
  /\ seen' = service.state
  /\ feedback' = IF service.state = "WAIT_ALL_RED_FEEDBACK" THEN measured ELSE "NONE"
  /\ redTicks' = RedTicks
  /\ runtime' = UpdateCoordinationRuntime(manual, aspect)
  /\ UNCHANGED <<committed, service, engine, aspect, yellowTicks, serving, manual, lamp,
                 forceAllRed, configEpoch, disturbed, env>>

\* IntersectionOutputDispatcherDispatch through the filter of the MMU adapter.
Dispatch ==
  /\ lamp' = IF forceAllRed' THEN "RED" ELSE aspect'
  /\ pc' = "start"
  /\ seen' = "IDLE" /\ feedback' = "NONE"

\* The activation service did not handle the step: the engine does.  It gives a
\* yellow its time, counts the time of remote manual control, and serves a preempt or
\* not, which sets the mode (HandlePreemptStateMachine) until the next update.
EngineTick ==
  /\ aspect' \in CASE aspect = "GREEN"  -> {"GREEN", "YELLOW"}
                   [] aspect = "YELLOW" -> {"YELLOW"} \cup (IF yellowTicks = MinYellow
                                                            THEN {"RED"} ELSE {})
                   [] aspect = "RED"    -> {"RED", "GREEN"}
                   [] aspect = "FLASH"  -> {"FLASH", "RED"}
  /\ yellowTicks' = IF aspect' = "YELLOW" THEN Least(yellowTicks + 1, MinYellow) ELSE 0
  /\ manual' = IF manual = 0 THEN 0 ELSE manual - 1
  /\ serving' \in BOOLEAN
  /\ runtime' = LET updated == UpdateCoordinationRuntime(manual', aspect')
                IN  IF serving' THEN [updated EXCEPT !.mode = "PREEMPT"] ELSE updated
  /\ Dispatch
  /\ UNCHANGED <<committed, engine, configEpoch, redTicks, disturbed, env>>

\* The activation service handled the step: the engine stands still.
EngineHeld ==
  /\ UNCHANGED <<committed, engine, aspect, yellowTicks, serving, manual, runtime,
                 configEpoch, redTicks, disturbed, env>>
  /\ Dispatch

\* IDLE, FAILED and RELEASE_STARTUP
TickPasses ==
  /\ pc = "tick" /\ seen \in {"IDLE", "FAILED", "RELEASE_STARTUP"}
  /\ service' = IF seen = "RELEASE_STARTUP" THEN [service EXCEPT !.state = "IDLE"] ELSE service
  /\ UNCHANGED forceAllRed
  /\ EngineTick

TickStaged ==
  /\ pc = "tick" /\ seen = "STAGED"
  /\ service' = [service EXCEPT !.stable = 0, !.state = "WAIT_SAFE_PRECONDITIONS"]
  /\ UNCHANGED forceAllRed
  /\ EngineHeld

SafeToStartActivation ==
  runtime.mode # "PREEMPT" /\ runtime.unitControlStatus # "REMOTE_MANUAL_CONTROL"

TickWaitsForSafe ==
  /\ pc = "tick" /\ seen = "WAIT_SAFE_PRECONDITIONS"
  /\ ~SafeToStartActivation
  /\ UNCHANGED <<service, forceAllRed>>
  /\ EngineTick

\* WAIT_SAFE_PRECONDITIONS up to the check
TickFindsSafe ==
  /\ pc = "tick" /\ seen = "WAIT_SAFE_PRECONDITIONS"
  /\ SafeToStartActivation
  /\ pc' = "force"
  /\ UNCHANGED <<committed, service, signals, forceAllRed, configEpoch, seen, feedback,
                 redTicks, disturbed, env>>

\* and what follows it
TickForcesRed ==
  /\ pc = "force"
  /\ forceAllRed' = TRUE
  /\ service' = [service EXCEPT !.stable = 0, !.state = "WAIT_ALL_RED_FEEDBACK"]
  /\ EngineHeld

\* Wrong: a period in which the channels are not reported red does not count,
\* nor does it start the count again.
CountedOnAndOff == IF feedback = "RED" THEN service.stable + 1 ELSE service.stable

\* The counter of periods in which the feedback was red; it never gets to where it
\* would saturate.
Counted == IF feedback = "RED" THEN service.stable + 1 ELSE 0

\* Wrong: one period too many.
HeldLonger == Counted > HoldTicks

HeldLongEnough == Counted >= HoldTicks

\* WAIT_ALL_RED_FEEDBACK up to the comparison with HoldTicks
TickCountsRed ==
  /\ pc = "tick" /\ seen = "WAIT_ALL_RED_FEEDBACK"
  /\ forceAllRed' = TRUE
  /\ service' = [service EXCEPT !.state = "WAIT_ALL_RED_FEEDBACK", !.stable = Counted]
  /\ IF HeldLongEnough
     THEN pc' = "decide" /\ UNCHANGED <<signals, seen, feedback>>
     ELSE UNCHANGED <<engine, aspect, yellowTicks, serving, manual, runtime>> /\ Dispatch
  /\ UNCHANGED <<committed, configEpoch, redTicks, disturbed, env>>

\* and what follows it
TickDecides ==
  /\ pc = "decide"
  /\ service' = [service EXCEPT !.state = "SWITCH_PLAN"]
  /\ UNCHANGED forceAllRed
  /\ EngineHeld

\* SWITCH_PLAN without a staged plan
TickFails ==
  /\ pc = "tick" /\ seen = "SWITCH_PLAN" /\ ~service.stagedValid
  /\ service' = [service EXCEPT !.state = "FAILED"]
  /\ UNCHANGED forceAllRed
  /\ EngineTick

stagedPlan == service.plans[StagingSlot]

\* IntersectionEngineLoadConfig: the engine is cleared, and the copy is half way.
LoadBegins ==
  /\ pc = "tick" /\ seen = "SWITCH_PLAN" /\ service.stagedValid
  /\ engine' = {stagedPlan.config}
  /\ serving' = FALSE /\ manual' = 0
  /\ runtime' = UpdateCoordinationRuntime(0, aspect)
  /\ pc' = "load"
  /\ UNCHANGED <<committed, service, aspect, yellowTicks, lamp, forceAllRed, seen, feedback,
                 configEpoch, redTicks, disturbed, env>>

\* The rest of the copy, and the engine starts over.
LoadEnds ==
  /\ pc = "load"
  /\ engine' = engine \cup {stagedPlan.config}
  /\ aspect' \in {"RED", "FLASH"}
  /\ yellowTicks' = 0
  /\ pc' = "publish"
  /\ UNCHANGED <<committed, service, serving, manual, runtime, lamp, forceAllRed, seen,
                 feedback, configEpoch, redTicks, disturbed, env>>

\* Wrong: the channels are not released.
PublishLiveSetIdKeepingRed ==
  /\ pc = "publish"
  /\ configEpoch' = stagedPlan.setId
  /\ pc' = "finish"
  /\ UNCHANGED <<committed, service, signals, forceAllRed, seen, feedback, redTicks, disturbed, env>>

\* PublishLiveSetId, MmuSetForceAllRed
PublishLiveSetId ==
  /\ pc = "publish"
  /\ configEpoch' = stagedPlan.setId
  /\ forceAllRed' = FALSE
  /\ pc' = "finish"
  /\ UNCHANGED <<committed, service, signals, seen, feedback, redTicks, disturbed, env>>

SwitchEnds ==
  /\ pc = "finish"
  /\ service' = [service EXCEPT !.active = StagingSlot, !.stagedValid = FALSE, !.stable = 0,
                                !.live = stagedPlan.setId, !.pending = 0,
                                !.state = "RELEASE_STARTUP"]
  /\ UNCHANGED forceAllRed
  /\ EngineHeld

ControlStep ==
  \/ Begin
  \/ TickPasses
  \/ TickStaged
  \/ TickWaitsForSafe
  \/ TickFindsSafe
  \/ TickForcesRed
  \/ TickCountsRed
  \/ TickDecides
  \/ TickFails
  \/ LoadBegins
  \/ LoadEnds
  \/ PublishLiveSetId
  \/ SwitchEnds

-----------------------------------------------------------------------------
(* The field.                                                              *)

unchangedByField == <<committed, control, signals, configEpoch, redTicks, disturbed, commits,
                      manuals>>

\* Telemetry of the lamps arrives.
Telemetry ==
  /\ measured # lamp
  /\ measured' = lamp
  /\ UNCHANGED <<unchangedByField, gaps>>

\* A module is late, or its lamps are not lit as they should be.
TelemetryFails ==
  /\ gaps < MaxGaps /\ measured # "NONE"
  /\ measured' = "NONE"
  /\ gaps' = gaps + 1
  /\ UNCHANGED unchangedByField

Next ==
  \/ ControlStep
  \/ \E config \in Config : Commit(config)
  \/ \E timeout \in 0..ManualTimeout : SetRemoteManualControlTimeout(timeout)
  \/ Telemetry
  \/ TelemetryFails

\* The task runs every period, and modules report.
Fairness == WF_vars(ControlStep) /\ WF_vars(Telemetry)

Spec == Init /\ [][Next]_vars /\ Fairness

-----------------------------------------------------------------------------

\* The engine's configuration is exchanged only while all channels are commanded
\* red, and after they were reported red in HoldTicks consecutive periods without
\* a command to leave red in between -- whenever commits come (SWITCH_PLAN).
SwitchedAfterRed ==
  [][engine' # engine \/ configEpoch' # configEpoch
     => forceAllRed /\ lamp = "RED" /\ redTicks = HoldTicks]_vars

\* Between two steps the engine runs the plan the service calls active, all of it
\* and nothing else, and the set id reported as live and expected of the modules is
\* that plan's: staging never touches the active slot (StageCommittedConfig).
EngineMatchesLive ==
  pc = "start" /\ ~disturbed =>
    LET plan == service.plans[service.active] IN
    /\ engine = {plan.config}
    /\ service.live = plan.setId /\ configEpoch = plan.setId

\* An activation does not start under remote manual control, at whatever point of the
\* control step that is set or runs out: what SafeToStartActivation reads was derived
\* earlier, by either thread, and must hold still.  The startup flash hides it.
ManualHoldsOffActivation ==
  [][pc = "tick" /\ pc' = "force" => manual = 0 \/ aspect = "FLASH"]_vars

\* SafeToStartActivation requires "runtime->mode != INTERSECTION_CONTROL_MODE_PREEMPT"
\* (IntersectionActivationService.c:125): no activation forces the channels red that
\* serve a preempt.
PreemptHoldsOffActivation ==
  [][~forceAllRed /\ forceAllRed' => ~serving]_vars

\* Whatever was committed last is what the engine runs in the end, unless a commit
\* came at one of the moments named in Breaks.
SettlesOnCommitted == <>[](disturbed \/ engine = {committed.config})

\* When the service has nothing to do, it does not hold the channels red, so that the
\* reload is a controlled one (IntersectionActivationService.c:3): undisturbed, every
\* way out of an activation releases them.  A commit of the live contents during the
\* hold does not (Breaks).
IdleReleases == pc = "start" /\ service.state = "IDLE" /\ ~disturbed => ~forceAllRed
=============================================================================
