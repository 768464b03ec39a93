------------------------- MODULE PlanActivationProofs -------------------------
(***************************************************************************)
(* Proofs about PlanActivation, for all contents, hold times and bounds.   *)
(* They follow the state through one step of the control task: a commit    *)
(* can change it to STAGED or IDLE only, and what the step writes over     *)
(* that is harmless but at the moments named in Breaks.                    *)
(***************************************************************************)
EXTENDS PlanActivation, TLAPS

-----------------------------------------------------------------------------
(* The inductive invariant *)

Forcing    == {"WAIT_ALL_RED_FEEDBACK", "SWITCH_PLAN"}
InProgress == {"STAGED", "WAIT_SAFE_PRECONDITIONS"} \cup Forcing

\* Set ids are not used up: there is one for every commit.
SetIdsLeft == committed.setId = commits + 1

\* The configuration the engine was loaded with, through the whole switch.
EngineFollows ==
  ~disturbed =>
    LET live == service.plans[service.active] IN
    /\ pc \in {"start", "tick", "force", "decide"} =>
         engine = {live.config} /\ service.live = live.setId /\ configEpoch = live.setId
    /\ pc \in {"load", "publish", "finish"} => engine = {stagedPlan.config}
    /\ pc = "finish" => configEpoch = stagedPlan.setId

\* Within a step only commits change the state.
SeenIsCurrent ==
  /\ pc \in {"tick", "force"} => service.state \in {seen, "IDLE", "STAGED"}
  /\ pc = "force" => seen = "WAIT_SAFE_PRECONDITIONS"

\* What the check for remote manual control goes by is true when it is looked at.
StatusIsCurrent == pc = "tick" => runtime = UpdateCoordinationRuntime(manual, aspect)

\* While the state says so, the channels are forced red; and they are red.
RedIsForced ==
  /\ pc # "finish" /\ service.state \in Forcing => forceAllRed
  /\ pc = "tick" /\ seen \in Forcing => forceAllRed
  /\ pc \in {"decide", "load", "publish"} => forceAllRed
  /\ pc = "finish" => ~forceAllRed
  /\ forceAllRed => lamp = "RED"

\* The activation counts no period that the history does not.
CountIsHistory ==
  /\ pc = "start" /\ service.state = "WAIT_ALL_RED_FEEDBACK" =>
       service.stable <= redTicks /\ service.stable < HoldTicks
  /\ pc = "tick" /\ seen = "WAIT_ALL_RED_FEEDBACK" /\ feedback = "RED" =>
       service.stable + 1 <= redTicks
  /\ pc = "start" /\ service.state = "SWITCH_PLAN" => redTicks = HoldTicks
  /\ pc = "tick" /\ seen = "SWITCH_PLAN" => redTicks = HoldTicks
  /\ pc \in {"decide", "load", "publish"} => redTicks = HoldTicks

\* Undisturbed, an activation has its plan, and forced red means an activation.
ActivationHasPlan ==
  ~disturbed =>
    /\ service.state \in InProgress => service.stagedValid
    /\ pc \in {"tick", "force"} /\ seen \in InProgress =>
         service.stagedValid /\ service.state \in InProgress
    /\ pc = "decide" => service.stagedValid
    /\ forceAllRed /\ pc = "start" => service.state \in InProgress
    /\ forceAllRed /\ pc = "tick"  => seen \in InProgress

IInv ==
  /\ TypeOK /\ SetIdsLeft /\ EngineFollows /\ SeenIsCurrent /\ RedIsForced
  /\ CountIsHistory /\ ActivationHasPlan /\ StatusIsCurrent

-----------------------------------------------------------------------------
(* Staging *)

ServiceState ==
  [state : State, plans : [{0, 1} -> Plan], active : {0, 1}, stagedValid : BOOLEAN,
   stable : 0..HoldTicks, live : SetId, pending : SetId \cup {0}]

\* StageCommittedConfig changes the slot that is not active, and the state to STAGED
\* or IDLE, whether or not the plan's contents are those of the live one.
LEMMA StagedProperties ==
  ASSUME service \in ServiceState, NEW plan \in Plan
  PROVE  /\ Staged(plan) \in ServiceState
         /\ Staged(plan).active = service.active
         /\ Staged(plan).live = service.live
         /\ Staged(plan).plans[service.active] = service.plans[service.active]
         /\ Equivalent(plan) => /\ Staged(plan).state = "IDLE"
                                /\ ~Staged(plan).stagedValid
                                /\ Staged(plan).stable = service.stable
         /\ ~Equivalent(plan) => /\ Staged(plan).state = "STAGED"
                                 /\ Staged(plan).stagedValid
                                 /\ Staged(plan).stable = 0
<1> USE HoldTicksAssumption DEF ServiceState
<1> DEFINE compiled == [service EXCEPT !.plans[StagingSlot] = plan]
<1>1. StagingSlot \in {0, 1} /\ StagingSlot # service.active
  BY DEF StagingSlot
<1>2. /\ compiled \in ServiceState
      /\ compiled.plans[service.active] = service.plans[service.active]
      /\ compiled.active = service.active /\ compiled.live = service.live
      /\ compiled.stable = service.stable
  BY <1>1
<1>3. plan.setId \in SetId
  BY DEF Plan
<1>4. CASE Equivalent(plan)
  <2>1. Staged(plan) = [compiled EXCEPT !.state = "IDLE", !.stagedValid = FALSE, !.pending = 0]
    BY <1>4 DEF Staged
  <2> QED
    BY <1>2, <1>4, <2>1 DEF State
<1>5. CASE ~Equivalent(plan)
  <2>1. Staged(plan) = [compiled EXCEPT !.state = "STAGED", !.stagedValid = TRUE, !.stable = 0,
                                        !.pending = plan.setId]
    BY <1>5 DEF Staged
  <2>2. "STAGED" \in State /\ 0 \in 0..HoldTicks /\ plan.setId \in SetId \cup {0}
    BY <1>3 DEF State
  <2> QED
    BY <1>2, <1>5, <2>1, <2>2
<1> QED
  BY <1>4, <1>5

\* What an activation in progress makes of a commit.
LEMMA CommitKeeps ==
  ASSUME IInv, NEW config \in Config, Commit(config)
  PROVE  IInv'
<1> DEFINE plan == [config |-> config, setId |-> committed.setId + 1]
<1> USE HoldTicksAssumption, BoundsAssumption
<1>1. plan \in Plan /\ commits' \in 0..MaxCommits
  BY DEF IInv, TypeOK, SetIdsLeft, Commit, Plan, SetId
<1>2. service \in ServiceState
  BY DEF IInv, TypeOK, ServiceState
<1>3. /\ service' = Staged(plan) /\ committed' = plan
      /\ disturbed' = (disturbed \/ Breaks(plan))
  BY DEF Commit
<1>4. TypeOK' /\ SetIdsLeft'
  BY <1>1, <1>2, <1>3, StagedProperties
     DEF IInv, TypeOK, SetIdsLeft, Commit, signals, ServiceState, Plan
<1>5. EngineFollows'
  BY <1>1, <1>2, <1>3, StagedProperties DEF IInv, EngineFollows, TypeOK, Commit, signals, Breaks
<1>6. SeenIsCurrent' /\ RedIsForced'
  BY <1>1, <1>2, <1>3, StagedProperties
     DEF IInv, SeenIsCurrent, RedIsForced, Commit, signals, Forcing
<1>7. CountIsHistory'
  BY <1>1, <1>2, <1>3, StagedProperties DEF IInv, CountIsHistory, TypeOK, Commit
<1>8. ActivationHasPlan'
  BY <1>1, <1>2, <1>3, StagedProperties
     DEF IInv, ActivationHasPlan, SeenIsCurrent, RedIsForced, Commit, Breaks, InProgress, Forcing
<1>9. StatusIsCurrent'
  BY DEF IInv, StatusIsCurrent, Commit, signals
<1> QED
  BY <1>4, <1>5, <1>6, <1>7, <1>8, <1>9 DEF IInv

-----------------------------------------------------------------------------
(* The control task *)

LEMMA StagedPlanType ==
  ASSUME TypeOK
  PROVE  StagingSlot \in {0, 1} /\ stagedPlan.config \in Config /\ stagedPlan.setId \in SetId
<1>1. StagingSlot \in {0, 1}
  BY DEF TypeOK, StagingSlot
<1> QED
  BY <1>1 DEF TypeOK, stagedPlan, Plan

\* What a step asks the channel for goes through the filter of the MMU adapter.
LEMMA DispatchProperties ==
  ASSUME Dispatch, aspect' \in Aspect
  PROVE  /\ pc' = "start" /\ seen' = "IDLE" /\ feedback' = "NONE"
         /\ lamp' \in Aspect
         /\ forceAllRed' => lamp' = "RED"
BY DEF Dispatch, Aspect

LEMMA RuntimeType ==
  ASSUME NEW timeout, NEW asked
  PROVE  UpdateCoordinationRuntime(timeout, asked) \in Runtime
BY DEF UpdateCoordinationRuntime, Runtime

LEMMA EngineTickProperties ==
  ASSUME IInv, EngineTick
  PROVE  /\ pc' = "start" /\ seen' = "IDLE" /\ feedback' = "NONE"
         /\ aspect' \in Aspect /\ lamp' \in Aspect
         /\ yellowTicks' \in 0..MinYellow
         /\ forceAllRed' => lamp' = "RED"
         /\ serving' \in BOOLEAN /\ manual' \in 0..ManualTimeout /\ runtime' \in Runtime
         /\ UNCHANGED <<committed, engine, configEpoch, redTicks, disturbed,
                        measured, commits, manuals, gaps>>
<1>1. aspect' \in Aspect
  <2>1. aspect \in Aspect
    BY DEF IInv, TypeOK
  <2>2. CASE aspect = "GREEN"
    BY <2>2 DEF EngineTick, Aspect
  <2>3. CASE aspect = "YELLOW"
    BY <2>3 DEF EngineTick, Aspect
  <2>4. CASE aspect = "RED"
    BY <2>4 DEF EngineTick, Aspect
  <2>5. CASE aspect = "FLASH"
    BY <2>5 DEF EngineTick, Aspect
  <2> QED
    BY <2>1, <2>2, <2>3, <2>4, <2>5 DEF Aspect
<1>2. yellowTicks' \in 0..MinYellow
  BY MinYellowAssumption DEF IInv, TypeOK, EngineTick, Least
<1>3. serving' \in BOOLEAN /\ manual' \in 0..ManualTimeout
  BY BoundsAssumption DEF IInv, TypeOK, EngineTick
<1>4. runtime' \in Runtime
  BY DEF EngineTick, UpdateCoordinationRuntime, Runtime
<1> QED
  BY <1>1, <1>2, <1>3, <1>4, DispatchProperties DEF EngineTick, env

LEMMA EngineHeldProperties ==
  ASSUME IInv, EngineHeld
  PROVE  /\ pc' = "start" /\ seen' = "IDLE" /\ feedback' = "NONE"
         /\ lamp' \in Aspect
         /\ forceAllRed' => lamp' = "RED"
         /\ UNCHANGED <<committed, engine, aspect, yellowTicks, serving, manual, runtime,
                        configEpoch, redTicks, disturbed, measured, commits, manuals, gaps>>
<1>1. aspect' \in Aspect
  BY DEF IInv, TypeOK, EngineHeld
<1> QED
  BY <1>1, DispatchProperties DEF EngineHeld, env

\* The step looks at the state and at the telemetry.
LEMMA BeginKeeps ==
  ASSUME IInv, Begin
  PROVE  IInv'
<1> USE HoldTicksAssumption DEF IInv, Begin, env, RedTicks, Least
<1>1. TypeOK' /\ SetIdsLeft'
  BY RuntimeType DEF TypeOK, SetIdsLeft, State, ServiceState
<1>2. EngineFollows'
  BY DEF TypeOK, EngineFollows, stagedPlan, StagingSlot
<1>3. SeenIsCurrent' /\ RedIsForced'
  BY DEF SeenIsCurrent, RedIsForced, Forcing
<1>4. CountIsHistory'
  BY DEF TypeOK, SeenIsCurrent, RedIsForced, CountIsHistory, Forcing
<1>5. ActivationHasPlan' /\ StatusIsCurrent'
  BY DEF SeenIsCurrent, RedIsForced, ActivationHasPlan, StatusIsCurrent,
     InProgress, Forcing
<1> QED
  BY <1>1, <1>2, <1>3, <1>4, <1>5

\* Undisturbed, the channels are not forced red when the engine goes on.
LEMMA TickPassesKeeps ==
  ASSUME IInv, TickPasses
  PROVE  IInv'
<1> USE HoldTicksAssumption DEF IInv, TickPasses
<1>1. TypeOK' /\ SetIdsLeft'
  BY EngineTickProperties DEF TypeOK, SetIdsLeft, State, ServiceState
<1>2. EngineFollows'
  BY EngineTickProperties DEF TypeOK, EngineFollows, stagedPlan, StagingSlot
<1>3. SeenIsCurrent' /\ RedIsForced'
  BY EngineTickProperties DEF SeenIsCurrent, RedIsForced, Forcing
<1>4. CountIsHistory'
  BY EngineTickProperties DEF TypeOK, SeenIsCurrent, RedIsForced, CountIsHistory, Forcing
<1>5. ActivationHasPlan' /\ StatusIsCurrent'
  BY EngineTickProperties DEF SeenIsCurrent, RedIsForced, ActivationHasPlan, StatusIsCurrent,
     InProgress, Forcing
<1> QED
  BY <1>1, <1>2, <1>3, <1>4, <1>5

\* The activation gets under way.
LEMMA TickStagedKeeps ==
  ASSUME IInv, TickStaged
  PROVE  IInv'
<1> USE HoldTicksAssumption DEF IInv, TickStaged
<1>1. TypeOK' /\ SetIdsLeft'
  <2>1. service \in ServiceState
    BY DEF TypeOK, ServiceState
  <2>2. service' = [service EXCEPT !.stable = 0, !.state = "WAIT_SAFE_PRECONDITIONS"]
    OBVIOUS
  <2>3. "WAIT_SAFE_PRECONDITIONS" \in State /\ "IDLE" \in State /\ 0 \in 0..HoldTicks
    BY DEF State
  <2>4. service' \in ServiceState
    BY ONLY <2>1, <2>2, <2>3 DEF ServiceState
  <2> QED
    BY <2>3, <2>4, EngineHeldProperties DEF TypeOK, SetIdsLeft, ServiceState
<1>2. EngineFollows'
  BY EngineHeldProperties DEF TypeOK, EngineFollows, stagedPlan, StagingSlot
<1>3. SeenIsCurrent' /\ RedIsForced'
  BY EngineHeldProperties DEF SeenIsCurrent, RedIsForced, Forcing
<1>4. CountIsHistory'
  BY EngineHeldProperties DEF TypeOK, SeenIsCurrent, RedIsForced, CountIsHistory, Forcing
<1>5. ActivationHasPlan' /\ StatusIsCurrent'
  BY EngineHeldProperties DEF SeenIsCurrent, RedIsForced, ActivationHasPlan, StatusIsCurrent,
     InProgress, Forcing
<1> QED
  BY <1>1, <1>2, <1>3, <1>4, <1>5

\* Under remote manual control the engine goes on.
LEMMA TickWaitsForSafeKeeps ==
  ASSUME IInv, TickWaitsForSafe
  PROVE  IInv'
<1> USE HoldTicksAssumption DEF IInv, TickWaitsForSafe, SafeToStartActivation
<1>1. TypeOK' /\ SetIdsLeft'
  BY EngineTickProperties DEF TypeOK, SetIdsLeft, State, ServiceState
<1>2. EngineFollows'
  BY EngineTickProperties DEF TypeOK, EngineFollows, stagedPlan, StagingSlot
<1>3. SeenIsCurrent' /\ RedIsForced'
  BY EngineTickProperties DEF SeenIsCurrent, RedIsForced, Forcing
<1>4. CountIsHistory'
  BY EngineTickProperties DEF TypeOK, SeenIsCurrent, RedIsForced, CountIsHistory, Forcing
<1>5. ActivationHasPlan' /\ StatusIsCurrent'
  BY EngineTickProperties DEF SeenIsCurrent, RedIsForced, ActivationHasPlan, StatusIsCurrent,
     InProgress, Forcing
<1> QED
  BY <1>1, <1>2, <1>3, <1>4, <1>5

\* The check lets the activation pass.
LEMMA TickFindsSafeKeeps ==
  ASSUME IInv, TickFindsSafe
  PROVE  IInv'
<1> USE HoldTicksAssumption DEF IInv, TickFindsSafe, signals, env
<1>1. TypeOK' /\ SetIdsLeft'
  BY DEF TypeOK, SetIdsLeft
<1>2. EngineFollows'
  BY DEF TypeOK, EngineFollows, stagedPlan, StagingSlot
<1>3. SeenIsCurrent' /\ RedIsForced'
  BY DEF SeenIsCurrent, RedIsForced, Forcing
<1>4. CountIsHistory'
  BY DEF TypeOK, SeenIsCurrent, RedIsForced, CountIsHistory, Forcing
<1>5. ActivationHasPlan' /\ StatusIsCurrent'
  BY DEF SeenIsCurrent, RedIsForced, ActivationHasPlan, StatusIsCurrent,
     InProgress, Forcing
<1> QED
  BY <1>1, <1>2, <1>3, <1>4, <1>5

\* The channels are forced red, whatever came since the check.
LEMMA TickForcesRedKeeps ==
  ASSUME IInv, TickForcesRed
  PROVE  IInv'
<1> USE HoldTicksAssumption DEF IInv, TickForcesRed
<1>1. TypeOK' /\ SetIdsLeft'
  <2>1. service \in ServiceState
    BY DEF TypeOK, ServiceState
  <2>2. service' = [service EXCEPT !.stable = 0, !.state = "WAIT_ALL_RED_FEEDBACK"]
    OBVIOUS
  <2>3. "WAIT_ALL_RED_FEEDBACK" \in State /\ "IDLE" \in State /\ 0 \in 0..HoldTicks
    BY DEF State
  <2>4. service' \in ServiceState
    BY ONLY <2>1, <2>2, <2>3 DEF ServiceState
  <2> QED
    BY <2>3, <2>4, EngineHeldProperties DEF TypeOK, SetIdsLeft, ServiceState
<1>2. EngineFollows'
  BY EngineHeldProperties DEF TypeOK, EngineFollows, stagedPlan, StagingSlot
<1>3. SeenIsCurrent' /\ RedIsForced'
  BY EngineHeldProperties DEF SeenIsCurrent, RedIsForced, Forcing
<1>4. CountIsHistory'
  BY EngineHeldProperties DEF TypeOK, SeenIsCurrent, RedIsForced, CountIsHistory, Forcing
<1>5. ActivationHasPlan' /\ StatusIsCurrent'
  BY EngineHeldProperties DEF SeenIsCurrent, RedIsForced, ActivationHasPlan, StatusIsCurrent,
     InProgress, Forcing
<1> QED
  BY <1>1, <1>2, <1>3, <1>4, <1>5

\* The plan may be switched.
LEMMA TickDecidesKeeps ==
  ASSUME IInv, TickDecides
  PROVE  IInv'
<1> USE HoldTicksAssumption DEF IInv, TickDecides
<1>1. TypeOK' /\ SetIdsLeft'
  BY EngineHeldProperties DEF TypeOK, SetIdsLeft, State, ServiceState
<1>2. EngineFollows'
  BY EngineHeldProperties DEF TypeOK, EngineFollows, stagedPlan, StagingSlot
<1>3. SeenIsCurrent' /\ RedIsForced'
  BY EngineHeldProperties DEF SeenIsCurrent, RedIsForced, Forcing
<1>4. CountIsHistory'
  BY EngineHeldProperties DEF TypeOK, SeenIsCurrent, RedIsForced, CountIsHistory, Forcing
<1>5. ActivationHasPlan' /\ StatusIsCurrent'
  BY EngineHeldProperties DEF SeenIsCurrent, RedIsForced, ActivationHasPlan, StatusIsCurrent,
     InProgress, Forcing
<1> QED
  BY <1>1, <1>2, <1>3, <1>4, <1>5

\* Without a staged plan there is no switch; undisturbed there is one.
LEMMA TickFailsKeeps ==
  ASSUME IInv, TickFails
  PROVE  IInv'
<1> USE HoldTicksAssumption DEF IInv, TickFails
<1>1. TypeOK' /\ SetIdsLeft'
  BY EngineTickProperties DEF TypeOK, SetIdsLeft, State, ServiceState
<1>2. EngineFollows'
  BY EngineTickProperties DEF TypeOK, EngineFollows, stagedPlan, StagingSlot
<1>3. SeenIsCurrent' /\ RedIsForced'
  BY EngineTickProperties DEF SeenIsCurrent, RedIsForced, Forcing
<1>4. CountIsHistory'
  BY EngineTickProperties DEF TypeOK, SeenIsCurrent, RedIsForced, CountIsHistory, Forcing
<1>5. ActivationHasPlan' /\ StatusIsCurrent'
  BY EngineTickProperties DEF SeenIsCurrent, RedIsForced, ActivationHasPlan, StatusIsCurrent,
     InProgress, Forcing
<1> QED
  BY <1>1, <1>2, <1>3, <1>4, <1>5

\* The first half of the copy.
LEMMA LoadBeginsKeeps ==
  ASSUME IInv, LoadBegins
  PROVE  IInv'
<1> USE HoldTicksAssumption DEF IInv, LoadBegins, env
<1>1. TypeOK' /\ SetIdsLeft'
  <2>1. engine' \in SUBSET Config
    BY StagedPlanType
  <2>2. manual' \in 0..ManualTimeout
    <3>1. ManualTimeout \in Nat
      BY BoundsAssumption
    <3> QED
      BY <3>1
  <2>3. runtime' \in Runtime
    BY RuntimeType
  <2> QED
    BY <2>1, <2>2, <2>3 DEF TypeOK, SetIdsLeft
<1>2. EngineFollows'
  BY DEF TypeOK, EngineFollows, stagedPlan, StagingSlot
<1>3. SeenIsCurrent' /\ RedIsForced'
  BY DEF SeenIsCurrent, RedIsForced, Forcing
<1>4. CountIsHistory'
  BY DEF TypeOK, SeenIsCurrent, RedIsForced, CountIsHistory, Forcing
<1>5. ActivationHasPlan' /\ StatusIsCurrent'
  BY DEF SeenIsCurrent, RedIsForced, ActivationHasPlan, StatusIsCurrent,
     InProgress, Forcing
<1> QED
  BY <1>1, <1>2, <1>3, <1>4, <1>5

\* The second half: the plan is the same unless a commit overwrote it.
LEMMA LoadEndsKeeps ==
  ASSUME IInv, LoadEnds
  PROVE  IInv'
<1> USE HoldTicksAssumption DEF IInv, LoadEnds, env
<1>1. TypeOK' /\ SetIdsLeft'
  <2>1. engine' \in SUBSET Config
    BY StagedPlanType DEF TypeOK
  <2>2. aspect' \in Aspect /\ yellowTicks' \in 0..MinYellow
    <3>1. 0 \in 0..MinYellow
      BY MinYellowAssumption
    <3>2. {"RED", "FLASH"} \subseteq Aspect
      BY DEF Aspect
    <3> QED
      BY <3>1, <3>2
  <2> QED
    BY <2>1, <2>2 DEF TypeOK, SetIdsLeft
<1>2. EngineFollows'
  BY DEF TypeOK, EngineFollows, stagedPlan, StagingSlot
<1>3. SeenIsCurrent' /\ RedIsForced'
  BY DEF SeenIsCurrent, RedIsForced, Forcing
<1>4. CountIsHistory'
  BY DEF TypeOK, SeenIsCurrent, RedIsForced, CountIsHistory, Forcing
<1>5. ActivationHasPlan' /\ StatusIsCurrent'
  BY DEF SeenIsCurrent, RedIsForced, ActivationHasPlan, StatusIsCurrent,
     InProgress, Forcing
<1> QED
  BY <1>1, <1>2, <1>3, <1>4, <1>5

\* The set id is that of the plan loaded unless a commit overwrote it.
LEMMA PublishKeeps ==
  ASSUME IInv, PublishLiveSetId
  PROVE  IInv'
<1> USE HoldTicksAssumption DEF IInv, PublishLiveSetId, signals, env
<1>1. TypeOK' /\ SetIdsLeft'
  BY StagedPlanType DEF TypeOK, SetIdsLeft
<1>2. EngineFollows'
  BY DEF TypeOK, EngineFollows, stagedPlan, StagingSlot
<1>3. SeenIsCurrent' /\ RedIsForced'
  BY DEF SeenIsCurrent, RedIsForced, Forcing
<1>4. CountIsHistory'
  BY DEF TypeOK, SeenIsCurrent, RedIsForced, CountIsHistory, Forcing
<1>5. ActivationHasPlan' /\ StatusIsCurrent'
  BY DEF SeenIsCurrent, RedIsForced, ActivationHasPlan, StatusIsCurrent,
     InProgress, Forcing
<1> QED
  BY <1>1, <1>2, <1>3, <1>4, <1>5

\* The slots change places.
LEMMA SwitchEndsKeeps ==
  ASSUME IInv, SwitchEnds
  PROVE  IInv'
<1> USE HoldTicksAssumption DEF IInv, SwitchEnds
<1>1. TypeOK' /\ SetIdsLeft'
  <2>1. "RELEASE_STARTUP" \in State /\ "IDLE" \in State
    BY DEF State
  <2>2. StagingSlot \in {0, 1} /\ stagedPlan.setId \in SetId
    BY StagedPlanType
  <2>3. service \in ServiceState
    BY DEF TypeOK, ServiceState
  <2>4. /\ service' = [service EXCEPT !.active = StagingSlot, !.stagedValid = FALSE,
                         !.stable = 0, !.live = stagedPlan.setId, !.pending = 0,
                         !.state = "RELEASE_STARTUP"]
        /\ 0 \in 0..HoldTicks
    OBVIOUS
  <2>5. service' \in ServiceState
    BY ONLY <2>1, <2>2, <2>3, <2>4 DEF ServiceState
  <2> QED
    BY <2>1, <2>5, EngineHeldProperties DEF SwitchEnds, TypeOK, SetIdsLeft, ServiceState
<1>2. EngineFollows'
  BY EngineHeldProperties DEF TypeOK, EngineFollows, stagedPlan, StagingSlot
<1>3. SeenIsCurrent' /\ RedIsForced'
  BY EngineHeldProperties DEF SeenIsCurrent, RedIsForced, Forcing
<1>4. CountIsHistory'
  BY EngineHeldProperties DEF TypeOK, SeenIsCurrent, RedIsForced, CountIsHistory, Forcing
<1>5. ActivationHasPlan' /\ StatusIsCurrent'
  BY EngineHeldProperties DEF SeenIsCurrent, RedIsForced, ActivationHasPlan, StatusIsCurrent,
     InProgress, Forcing
<1> QED
  BY <1>1, <1>2, <1>3, <1>4, <1>5

\* One more period is counted, and when they are enough the step goes on.
LEMMA TickCountsRedKeeps ==
  ASSUME IInv, TickCountsRed
  PROVE  IInv'
<1> USE HoldTicksAssumption DEF IInv, TickCountsRed
<1>1. /\ forceAllRed /\ lamp = "RED" /\ Counted \in Nat
      /\ Counted <= redTicks /\ redTicks <= HoldTicks
      /\ ~disturbed => service.stagedValid
  BY DEF TypeOK, RedIsForced, CountIsHistory, ActivationHasPlan, Counted, Forcing, InProgress
<1>2. /\ service' = [service EXCEPT !.state = "WAIT_ALL_RED_FEEDBACK", !.stable = Counted]
      /\ forceAllRed'
      /\ UNCHANGED <<committed, engine, aspect, yellowTicks, serving, manual, runtime, configEpoch,
                     redTicks, disturbed, measured, commits, manuals, gaps>>
  BY DEF signals, env
<1>3. \/ HeldLongEnough /\ pc' = "decide" /\ seen' = seen /\ feedback' = feedback /\ lamp' = lamp
      \/ ~HeldLongEnough /\ pc' = "start" /\ seen' = "IDLE" /\ feedback' = "NONE" /\ lamp' = "RED"
  BY <1>2 DEF signals, Dispatch
<1> USE <1>1, <1>2, <1>3
<1>4. TypeOK' /\ SetIdsLeft'
  <2>1. "WAIT_ALL_RED_FEEDBACK" \in State /\ "IDLE" \in State /\ "RED" \in Aspect
    BY DEF State, Aspect
  <2>2. Counted \in 0..HoldTicks
    BY DEF TypeOK
  <2>3. service' \in ServiceState
    BY <2>1, <2>2 DEF TypeOK, ServiceState
  <2> HIDE DEF TickCountsRed
  <2> QED
    BY <2>1, <2>3 DEF TypeOK, SetIdsLeft, ServiceState
<1>5. EngineFollows'
  BY DEF TypeOK, EngineFollows
<1>6. SeenIsCurrent' /\ RedIsForced'
  BY DEF SeenIsCurrent, RedIsForced, Forcing
<1>7. CountIsHistory'
  BY DEF TypeOK, CountIsHistory, HeldLongEnough
<1>8. ActivationHasPlan' /\ StatusIsCurrent'
  BY DEF TypeOK, ActivationHasPlan, StatusIsCurrent, InProgress, Forcing
<1> QED
  BY <1>4, <1>5, <1>6, <1>7, <1>8

\* A request for remote manual control changes what the check goes by at once.
LEMMA ManualKeeps ==
  ASSUME IInv, NEW timeout \in 0..ManualTimeout, SetRemoteManualControlTimeout(timeout)
  PROVE  IInv'
<1> USE DEF IInv, SetRemoteManualControlTimeout, control
<1>1. TypeOK' /\ SetIdsLeft'
  <2>1. runtime' \in Runtime /\ manuals' \in 0..MaxManuals
    BY RuntimeType, BoundsAssumption DEF TypeOK
  <2> QED
    BY <2>1 DEF TypeOK, SetIdsLeft
<1>2. EngineFollows' /\ SeenIsCurrent' /\ RedIsForced'
  BY DEF EngineFollows, SeenIsCurrent, RedIsForced, stagedPlan, StagingSlot
<1>3. CountIsHistory' /\ ActivationHasPlan'
  BY DEF CountIsHistory, ActivationHasPlan
<1>4. StatusIsCurrent'
  BY DEF StatusIsCurrent
<1> QED
  BY <1>1, <1>2, <1>3, <1>4

\* The field changes neither the control task nor what it goes by.
LEMMA FieldKeeps ==
  ASSUME IInv, Telemetry \/ TelemetryFails
  PROVE  IInv'
<1>1. UNCHANGED unchangedByField
  BY DEF Telemetry, TelemetryFails
<1>2. measured' \in Aspect \cup {"NONE"} /\ gaps' \in 0..MaxGaps
  BY BoundsAssumption DEF IInv, TypeOK, Telemetry, TelemetryFails
<1>3. TypeOK' /\ SetIdsLeft'
  BY <1>1, <1>2 DEF IInv, TypeOK, SetIdsLeft, unchangedByField, control, signals
<1>4. EngineFollows' /\ SeenIsCurrent' /\ RedIsForced'
  BY <1>1 DEF IInv, EngineFollows, SeenIsCurrent, RedIsForced, stagedPlan, StagingSlot,
              unchangedByField, control, signals
<1>5. CountIsHistory' /\ ActivationHasPlan' /\ StatusIsCurrent'
  BY <1>1 DEF IInv, CountIsHistory, ActivationHasPlan, StatusIsCurrent,
              unchangedByField, control, signals
<1> QED
  BY <1>3, <1>4, <1>5 DEF IInv

-----------------------------------------------------------------------------
(* Theorems *)

LEMMA InitEstablishes == Init => IInv
<1> SUFFICES ASSUME Init PROVE IInv
  OBVIOUS
<1> USE ConfigAssumption, HoldTicksAssumption, MinYellowAssumption, BoundsAssumption DEF Init
<1> DEFINE plan == [config |-> InitialConfig, setId |-> 1]
<1>1. TypeOK /\ SetIdsLeft
  <2>1. plan \in Plan /\ 1 \in SetId
    BY DEF Plan, SetId
  <2>2. service \in ServiceState /\ committed = plan
    BY <2>1 DEF ServiceState, State
  <2>3. SetIdsLeft /\ engine \in SUBSET Config
    BY DEF SetIdsLeft
  <2>4. "IDLE" \in State /\ "RED" \in Aspect /\ runtime \in Runtime
    BY DEF State, Aspect, Runtime
  <2> QED
    BY <2>1, <2>2, <2>3, <2>4, 0 \in 0..HoldTicks, 0 \in 0..MinYellow, 0 \in 0..MaxCommits,
       0 \in 0..MaxManuals, 0 \in 0..MaxGaps, 0 \in 0..ManualTimeout
       DEF TypeOK, ServiceState
<1>2. EngineFollows /\ SeenIsCurrent /\ RedIsForced
  BY DEF EngineFollows, SeenIsCurrent, RedIsForced, Forcing
<1>3. CountIsHistory /\ ActivationHasPlan /\ StatusIsCurrent
  BY DEF CountIsHistory, ActivationHasPlan, StatusIsCurrent, InProgress, Forcing
<1> QED
  BY <1>1, <1>2, <1>3 DEF IInv

LEMMA NextKeeps == IInv /\ [Next]_vars => IInv'
<1> SUFFICES ASSUME IInv, [Next]_vars PROVE IInv'
  OBVIOUS
<1>1. CASE ControlStep
  BY <1>1, BeginKeeps, TickPassesKeeps, TickStagedKeeps, TickWaitsForSafeKeeps,
     TickFindsSafeKeeps, TickForcesRedKeeps, TickCountsRedKeeps, TickDecidesKeeps, TickFailsKeeps,
     LoadBeginsKeeps, LoadEndsKeeps, PublishKeeps, SwitchEndsKeeps DEF ControlStep
<1>2. CASE \E config \in Config : Commit(config)
  BY <1>2, CommitKeeps
<1>3. CASE \E timeout \in 0..ManualTimeout : SetRemoteManualControlTimeout(timeout)
  BY <1>3, ManualKeeps
<1>4. CASE Telemetry \/ TelemetryFails
  BY <1>4, FieldKeeps
<1>5. CASE UNCHANGED vars
  <2>1. TypeOK' /\ SetIdsLeft'
    BY <1>5 DEF IInv, TypeOK, SetIdsLeft, vars
  <2>2. EngineFollows' /\ SeenIsCurrent' /\ RedIsForced'
    BY <1>5 DEF IInv, EngineFollows, SeenIsCurrent, RedIsForced, stagedPlan, StagingSlot, vars
  <2>3. CountIsHistory' /\ ActivationHasPlan' /\ StatusIsCurrent'
    BY <1>5 DEF IInv, CountIsHistory, ActivationHasPlan, StatusIsCurrent, vars
  <2> QED
    BY <2>1, <2>2, <2>3 DEF IInv
<1> QED
  BY <1>1, <1>2, <1>3, <1>4, <1>5 DEF Next

\* The invariant holds in every behaviour, with any number of commits within the
\* bound and wherever in the control task's step they come.
THEOREM ActivationInvariant == Spec => []IInv
<1> QED
  BY InitEstablishes, NextKeeps, PTL DEF Spec

\* The engine runs the active plan between two steps, unless a commit broke an
\* activation (IntersectionActivationServiceTick, StageCommittedConfig).
THEOREM EngineRunsActivePlan == Spec => []EngineMatchesLive
<1>1. IInv => EngineMatchesLive
  BY DEF IInv, EngineFollows, EngineMatchesLive
<1> QED
  BY <1>1, ActivationInvariant, PTL

\* An activation does not get past SafeToStartActivation under remote manual control,
\* wherever in the control step that is asked for, taken back or runs out.
THEOREM ManualDelaysActivation == Spec => ManualHoldsOffActivation
<1> DEFINE HeldOff == pc = "tick" /\ pc' = "force" => manual = 0 \/ aspect = "FLASH"
<1>1. IInv /\ [Next]_vars => [HeldOff]_vars
  <2> SUFFICES ASSUME IInv, Next, pc = "tick", pc' = "force"
               PROVE  manual = 0 \/ aspect = "FLASH"
    OBVIOUS
  <2>1. TickFindsSafe
    BY DEF Next, ControlStep, Begin, TickPasses, TickStaged, TickWaitsForSafe, TickForcesRed,
           TickCountsRed, TickDecides, TickFails, LoadBegins, LoadEnds, PublishLiveSetId,
           SwitchEnds, EngineTick, EngineHeld, Dispatch, Commit, Telemetry, TelemetryFails,
           SetRemoteManualControlTimeout, control, unchangedByField
  <2>2. runtime = UpdateCoordinationRuntime(manual, aspect)
    BY DEF IInv, StatusIsCurrent
  <2> QED
    BY <2>1, <2>2 DEF TickFindsSafe, SafeToStartActivation, UpdateCoordinationRuntime
<1> QED
  BY <1>1, ActivationInvariant, PTL DEF Spec, ManualHoldsOffActivation

\* A plan is switched under red lamps that were reported red for the whole hold
\* time, whatever commits come in between (the SWITCH_PLAN state).
THEOREM SwitchUnderRed == Spec => SwitchedAfterRed
<1> DEFINE Red == forceAllRed /\ lamp = "RED" /\ redTicks = HoldTicks
<1>1. IInv /\ [Next]_vars => [engine' # engine \/ configEpoch' # configEpoch => Red]_vars
  <2> SUFFICES ASSUME IInv, Next, engine' # engine \/ configEpoch' # configEpoch
               PROVE  Red
    BY DEF vars
  <2>1. LoadBegins \/ LoadEnds \/ PublishLiveSetId
    BY DEF Next, ControlStep, Begin, TickPasses, TickStaged, TickWaitsForSafe, TickFindsSafe,
           TickForcesRed, TickCountsRed, TickDecides, TickFails, SwitchEnds, EngineTick,
           EngineHeld, Commit, SetRemoteManualControlTimeout, Telemetry, TelemetryFails,
           signals, unchangedByField
  <2>2. CASE LoadBegins
    BY <2>2 DEF LoadBegins, IInv, RedIsForced, CountIsHistory, Forcing
  <2>3. CASE LoadEnds
    BY <2>3 DEF LoadEnds, IInv, RedIsForced, CountIsHistory
  <2>4. CASE PublishLiveSetId
    BY <2>4 DEF PublishLiveSetId, IInv, RedIsForced, CountIsHistory
  <2> QED
    BY <2>1, <2>2, <2>3, <2>4
<1> QED
  BY <1>1, ActivationInvariant, PTL DEF Spec, SwitchedAfterRed

\* The types of the service and of all that it works with.
THEOREM ActivationTypes == Spec => []TypeOK
<1>1. IInv => TypeOK
  BY DEF IInv
<1> QED
  BY <1>1, ActivationInvariant, PTL

\* An idle service holds no channel red (PublishLiveSetId and MmuSetForceAllRed in
\* SWITCH_PLAN), unless a commit broke an activation.
THEOREM IdleReleasesRed == Spec => []IdleReleases
<1>1. IInv => IdleReleases
  BY DEF IInv, ActivationHasPlan, IdleReleases, InProgress, Forcing
<1> QED
  BY <1>1, ActivationInvariant, PTL
=============================================================================
