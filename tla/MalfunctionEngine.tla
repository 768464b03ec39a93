-------------------------- MODULE MalfunctionEngine --------------------------
(***************************************************************************)
(* The malfunction monitor of the Malfunction-monitor Processor (MP), and  *)
(* the safety relay it commands.                                           *)
(*   src/CPM/MP/App/Domain/Malfunction/MalfunctionEngine.c                 *)
(*   src/CPM/MP/App/Domain/Malfunction/ModuleHealthMonitor.c               *)
(*   src/CPM/MP/App/Domain/Malfunction/PowerSupplyMonitor.c                *)
(*   src/CPM/MP/App/Domain/Malfunction/SafetyDecisionService.c             *)
(* One task runs, every 10 ms, ControlBusAdapterStep (frames from CP, which*)
(* may put a configuration in force), FieldBusRxAdapterCommit with         *)
(* MalfunctionEngineTick, and CpMpLinkServiceStep; then it sleeps.  pc     *)
(* names the next of the three.                                            *)
(*                                                                         *)
(* The environment chooses which modules were heard on the field bus in a  *)
(* window, what they measured, and which faults the channel monitors       *)
(* (conflict, dual indication, ...) find: they run only once a             *)
(* configuration is in force, and what they compute is left open.  The     *)
(* faults of one tick are a set; Precedes gives the order they are         *)
(* published in where that order shows.  MP restarts at any point.         *)
(*                                                                         *)
(* ConfigurationService knows only "configured" here: an image that        *)
(* BuildIntersectionConfig accepts always passes ConfigurationService-     *)
(* Validate, so CONFIG_STATE_INVALID is never entered.  The relay is shown *)
(* after each handler; the pulse to OPEN inside every tick is not.         *)
(***************************************************************************)
EXTENDS Integers, FiniteSets

CONSTANTS
  Cp, Psm, Ssm,                            \* the modules on the field bus
  CpThreshold, PsmThreshold, SsmThreshold, \* windows of silence allowed
  Supplies,                \* the quantities of a PSM that are watched
  Sensors,                 \* MP's own: BATTERY_LOW, TEMPERATURE_HIGH
  SamplePeriod,            \* ticks between two samples of a sensor
  ConsecutiveSamples,      \* samples that agree before a sensor switches
  MonitorFaults,           \* faults the channel monitors may find
  ErrorSeverityDropsRelay  \* never set outside the unit tests

Module == {Cp} \cup Psm \cup Ssm

ASSUME ModulesAssumption ==
  /\ IsFiniteSet(Psm) /\ IsFiniteSet(Ssm)
  /\ Cp \notin Psm \cup Ssm
  /\ Psm \cap Ssm = {}
ASSUME ThresholdsAssumption ==
  {CpThreshold, PsmThreshold, SsmThreshold} \subseteq Nat \ {0}
ASSUME SamplingAssumption ==
  {SamplePeriod, ConsecutiveSamples} \subseteq Nat \ {0}

Threshold(m) == IF m = Cp THEN CpThreshold
                ELSE IF m \in Psm THEN PsmThreshold ELSE SsmThreshold

-----------------------------------------------------------------------------
(* Fault codes, and what they ask for *)

MissingCode(m) == IF m = Cp THEN "MODULE_CP_MISSING"
                  ELSE IF m \in Psm THEN "MODULE_PSM_MISSING"
                  ELSE "MODULE_SSM_MISSING"
MissingCodes == {"MODULE_CP_MISSING", "MODULE_PSM_MISSING", "MODULE_SSM_MISSING"}

\* All of them CRITICAL except the last two, which are ERROR and report-only.
ChannelFaults == {"CONFLICT", "DUAL_INDICATION", "DARK_CHANNEL", "RED_FAIL",
                  "MIN_YELLOW_SHORT", "CLEARANCE_SHORT",
                  "SIGNAL_SEQUENCE", "LAMP_FAULT"}
ReportOnly   == {"SIGNAL_SEQUENCE", "LAMP_FAULT"}
LineSupplies == {"LINE_VOLTAGE", "FREQUENCY"}
AllSupplies  == LineSupplies \cup {"RAIL_24V", "RAIL_5V"}
AllSensors   == {"BATTERY_LOW", "TEMPERATURE_HIGH"}
Code == MissingCodes \cup ChannelFaults \cup AllSupplies \cup AllSensors

ASSUME FaultsAssumption ==
  /\ MonitorFaults \subseteq ChannelFaults
  /\ Supplies \subseteq AllSupplies
  /\ Sensors \subseteq AllSensors
  /\ ErrorSeverityDropsRelay \in BOOLEAN

\* DefaultActionForCode
DarkCodes  == MissingCodes \cup (ChannelFaults \ ReportOnly)
FlashCodes == LineSupplies      \* always published with severity ERROR

\* The order MalfunctionEngineTick runs the monitors in.
PublishOrder(c) ==
  CASE c = "MODULE_CP_MISSING"  -> 1 [] c = "MODULE_PSM_MISSING" -> 2
    [] c = "MODULE_SSM_MISSING" -> 3 [] c \in AllSupplies -> 4
    [] c \in AllSensors -> 5         [] c = "CONFLICT" -> 6
    [] c = "DUAL_INDICATION" -> 7    [] c = "DARK_CHANNEL" -> 8
    [] c = "RED_FAIL" -> 9           [] c = "MIN_YELLOW_SHORT" -> 10
    [] c = "CLEARANCE_SHORT" -> 11   [] OTHER -> 12

-----------------------------------------------------------------------------
VARIABLES
  pc,          \* the handler the task runs next
  configured,  \* ConfigurationService holds a configuration
  required,    \* SSMs its output mapping uses
  linkReady,   \* CurrentConfigReady of the control-bus link
  heard,       \* alive flags of the last snapshot
  stale,       \* ModuleHealthMonitor: windows of silence, per module
  missing,     \* ModuleHealthMonitor: modules reported missing
  outOfBand,   \* PowerSupplyMonitor: <<psm, quantity>> whose fault is latched
  sensor,      \* self monitor: [active, run] per sensor
  sinceSample, \* tickCount modulo SamplePeriod
  emitted,     \* faults published in this period, as <<code, source>>
  safety       \* SafetyDecisionService_t

inputVars == <<configured, required, linkReady>>
monitorVars == <<heard, stale, missing, outOfBand, sensor, sinceSample>>
vars == <<pc, inputVars, monitorVars, emitted, safety>>

SafetyState ==
  [latched : {"NONE", "FLASH", "DARK"}, code : Code \cup {"NONE"},
   configReady : BOOLEAN, requiredSsmHealthy : BOOLEAN, relay : {"OPEN", "CLOSED"}]
SensorState == [active : BOOLEAN, run : 0..(ConsecutiveSamples - 1)]

Latched == safety.latched
Relay   == safety.relay

TypeOK ==
  /\ pc \in {"control", "field", "link"}
  /\ configured \in BOOLEAN /\ linkReady \in BOOLEAN
  /\ required \subseteq Ssm
  /\ heard \subseteq Module /\ missing \subseteq Module
  /\ stale \in [Module -> Nat]
  /\ \A m \in Module : stale[m] <= Threshold(m) + 1
  /\ outOfBand \subseteq Psm \X Supplies
  /\ sensor \in [Sensors -> SensorState]
  /\ sinceSample \in 0..(SamplePeriod - 1)
  /\ \A e \in emitted : e[1] \in Code
  /\ safety \in SafetyState

-----------------------------------------------------------------------------
(* SafetyDecisionService *)

\* Wrong: once open, the relay stays open.
RefreshRelayStateOneWay(s) ==
  [s EXCEPT !.relay =
     IF s.relay = "CLOSED" /\ s.configReady /\ s.requiredSsmHealthy /\ s.latched # "DARK"
     THEN "CLOSED" ELSE "OPEN"]

RefreshRelayState(s) ==
  [s EXCEPT !.relay =
     IF s.configReady /\ s.requiredSsmHealthy /\ s.latched # "DARK"
     THEN "CLOSED" ELSE "OPEN"]

SetConfigReady(s, ready) == RefreshRelayState([s EXCEPT !.configReady = ready])

\* Wrong: the severity of a fault is not looked at.
LatchingUnweighed(c) ==
  IF c \in DarkCodes THEN "DARK" ELSE IF c \in FlashCodes THEN "FLASH" ELSE "NONE"

\* What a fault may latch: its action, unless it is an ERROR that asks for less
\* than DARK.
Latching(c) ==
  IF c \in DarkCodes THEN "DARK"
  ELSE IF c \in FlashCodes /\ ErrorSeverityDropsRelay THEN "FLASH" ELSE "NONE"

Strongest(action, codes) ==
  LET Asked(a) == action = a \/ \E c \in codes : Latching(c) = a
  IN  IF Asked("DARK") THEN "DARK" ELSE IF Asked("FLASH") THEN "FLASH" ELSE "NONE"

\* Wrong: the last fault published is kept instead of the one that latched.
OnFaultsLast(s, codes) ==
  LET action == Strongest(s.latched, codes)
  IN  RefreshRelayState(
        [s EXCEPT !.latched = action,
           !.code = IF codes = {} THEN @
                    ELSE CHOOSE c \in codes :
                           \A d \in codes : PublishOrder(d) <= PublishOrder(c)])

\* SafetyDecisionServiceOnFault for every fault of a tick: the code kept is that
\* of the first fault published that asks for the action latched in the end.
OnFaults(s, codes) ==
  LET action    == Strongest(s.latched, codes)
      decisive  == {c \in codes : Latching(c) = action}
  IN  RefreshRelayState(
        [s EXCEPT !.latched = action,
           !.code = IF action = s.latched THEN @
                    ELSE CHOOSE c \in decisive :
                           \A d \in decisive : PublishOrder(c) <= PublishOrder(d)])

-----------------------------------------------------------------------------
(* The monitors; seen is the set of modules heard in the window *)

\* UpdateSingle; the counter is only ever compared with the threshold, so that
\* values beyond it are one.
Silent(m) == IF stale[m] > Threshold(m) THEN stale[m] ELSE stale[m] + 1

StaleAfter(seen) == [m \in Module |-> IF m \in seen THEN 0 ELSE Silent(m)]

\* Wrong: a module is reported again in every window it stays silent.
NewlyMissingRepeated(seen) ==
  {m \in Module \ seen : Silent(m) >= Threshold(m)}

\* Wrong: the threshold is passed before the module is reported.
NewlyMissingLate(seen) ==
  {m \in (Module \ missing) \ seen : Silent(m) = Threshold(m) + 1}

NewlyMissing(seen) ==
  {m \in (Module \ missing) \ seen : Silent(m) = Threshold(m)}

\* PowerSupplyMonitor's Evaluate and its two rail checks; "margin" is inside the
\* limits and outside the hysteresis.
Reading == [LINE_VOLTAGE |-> {"low", "high", "margin", "ok"},
            FREQUENCY    |-> {"low", "high", "ok"},
            RAIL_24V     |-> {"low", "margin", "ok"},
            RAIL_5V      |-> {"low", "margin", "ok"}]
Readings(seen) ==
  {r \in [(seen \cap Psm) \X Supplies -> {"low", "high", "margin", "ok"}] :
     \A x \in DOMAIN r : r[x] \in Reading[x[2]]}

SupplyFaults(r) == {x \in DOMAIN r \ outOfBand : r[x] \in {"low", "high"}}
OutOfBandAfter(r) == (outOfBand \cup SupplyFaults(r)) \ {x \in DOMAIN r : r[x] = "ok"}

\* Wrong: the count of agreeing samples is not reset when the sensor switches.
SensorAfterNoReset(s, sample) ==
  LET run == IF sample = (IF s.active THEN "good" ELSE "bad") THEN s.run + 1 ELSE 0
  IN  [active |-> IF run = ConsecutiveSamples THEN ~s.active ELSE s.active,
       run |-> IF sample = "none" THEN s.run ELSE run]

\* TickSystemMonitor.  The code counts bad samples while the sensor is good and
\* good ones while it is bad; the other count is zero, so one count is enough.
SensorAfter(s, sample) ==
  LET run == IF sample = (IF s.active THEN "good" ELSE "bad") THEN s.run + 1 ELSE 0
  IN  CASE sample = "none" -> s
        [] sample # "none" /\ run = ConsecutiveSamples -> [active |-> ~s.active, run |-> 0]
        [] OTHER -> [s EXCEPT !.run = run]
SensorFaults(after) == {n \in Sensors : after[n].active /\ ~sensor[n].active}

\* Wrong: a mapping that uses no SSM is healthy.
RequiredSsmHealthyEmpty(seen) == configured /\ required \subseteq seen

RequiredSsmHealthy(seen) == configured /\ required # {} /\ required \subseteq seen

-----------------------------------------------------------------------------
(* Actions *)

BootedSensors == [n \in Sensors |-> [active |-> FALSE, run |-> 0]]
BootedSafety  == [latched |-> "NONE", code |-> "NONE", configReady |-> FALSE,
                  requiredSsmHealthy |-> FALSE, relay |-> "OPEN"]

\* MainApplication_Init: every service starts from memset.
Init ==
  /\ pc = "control"
  /\ configured = FALSE /\ required = {} /\ linkReady = FALSE
  /\ heard = {} /\ stale = [m \in Module |-> 0] /\ missing = {}
  /\ outOfBand = {} /\ sensor = BootedSensors /\ sinceSample = 0
  /\ emitted = {} /\ safety = BootedSafety

\* The control bus: an image may be applied, with any mapping; the link may be
\* ready only with an image in force.
ControlBusStep ==
  /\ pc = "control" /\ pc' = "field"
  /\ \/ configured' = TRUE /\ required' \in SUBSET Ssm
     \/ UNCHANGED <<configured, required>>
  /\ linkReady' \in BOOLEAN
  /\ linkReady' => configured'
  /\ UNCHANGED <<monitorVars, emitted, safety>>

\* The window is committed and MalfunctionEngineTick runs.
Tick(seen, reading, samples, found) ==
  LET now == (sinceSample + 1) % SamplePeriod
      sensorAfter == IF now = 0 THEN [n \in Sensors |-> SensorAfter(sensor[n], samples[n])]
                     ELSE sensor
      faults == {<<MissingCode(m), m>> : m \in NewlyMissing(seen)}
                \cup {<<x[2], x[1]>> : x \in SupplyFaults(reading)}
                \cup {<<n, "MP">> : n \in SensorFaults(sensorAfter)}
                \cup (IF configured THEN {<<c, "CHANNEL">> : c \in found} ELSE {})
  IN  /\ pc = "field" /\ pc' = "link"
      /\ heard' = seen
      /\ stale' = StaleAfter(seen)
      /\ missing' = (missing \ seen) \cup NewlyMissing(seen)
      /\ outOfBand' = OutOfBandAfter(reading)
      /\ sensor' = sensorAfter
      /\ sinceSample' = now
      /\ emitted' = faults
      /\ safety' = OnFaults([safety EXCEPT !.requiredSsmHealthy = RequiredSsmHealthy(seen)],
                            {e[1] : e \in faults})
      /\ UNCHANGED inputVars

\* What the sensors read, when they are sampled.
Samples == IF (sinceSample + 1) % SamplePeriod = 0
           THEN [Sensors -> {"bad", "between", "good", "none"}]
           ELSE [Sensors -> {"none"}]

MalfunctionEngineTick ==
  \E seen \in SUBSET Module : \E reading \in Readings(seen) :
  \E samples \in Samples :
  \E found \in SUBSET MonitorFaults : Tick(seen, reading, samples, found)

\* CpMpLinkServiceStep tells the safety service whether the link is ready.
LinkStep ==
  /\ pc = "link" /\ pc' = "control"
  /\ safety' = SetConfigReady(safety, linkReady)
  /\ emitted' = {}
  /\ UNCHANGED <<inputVars, monitorVars>>

\* MP restarts at any point; nothing it held survives.
Restart ==
  /\ pc' = "control"
  /\ configured' = FALSE /\ required' = {} /\ linkReady' = FALSE
  /\ heard' = {} /\ stale' = [m \in Module |-> 0] /\ missing' = {}
  /\ outOfBand' = {} /\ sensor' = BootedSensors /\ sinceSample' = 0
  /\ emitted' = {} /\ safety' = BootedSafety

Next == ControlBusStep \/ MalfunctionEngineTick \/ LinkStep \/ Restart

Spec == Init /\ [][Next]_vars

\* The task never blocks: it is the highest in priority and every port call in it
\* returns.  The steps that move pc like this are the task's; only a restart between
\* its last handler and its first does too.
Fairness == WF_pc(pc' = [control |-> "field", field |-> "link", link |-> "control"][pc])

FairSpec == Spec /\ Fairness

-----------------------------------------------------------------------------
(* Properties *)

\* While the task sleeps, a closed relay means that the link and a configuration
\* are ready, every SSM the mapping needs was heard in the last window, no module
\* has been silent for its threshold and nothing is latched DARK, whatever order
\* images, windows and link steps came in.
PermitJustified ==
  (pc = "control" /\ Relay = "CLOSED") =>
    /\ linkReady /\ configured
    /\ required # {} /\ required \subseteq heard
    /\ Latched # "DARK"
    /\ \A m \in Module : stale[m] < Threshold(m)

\* The relay that opened for a module late in one window closes again when the
\* modules it needs are heard and nothing was latched.
MayPermit ==
  linkReady /\ required # {} /\ required \subseteq heard /\ Latched # "DARK"
PermitReturns == <>[]MayPermit => <>[](pc = "control" => Relay = "CLOSED")

\* SafetyDecisionService.h: errors are logged and do not drop the relay.  A tick
\* whose faults are all out-of-band supplies, sensors, lamps or sequence errors
\* latches nothing and leaves the relay closed if the modules needed were heard.
ErrorsNeverDrop ==
  [][/\ pc = "field" /\ pc' = "link"
     /\ \A e \in emitted' : e[1] \notin DarkCodes
     => /\ Latched' = Latched
        /\ /\ safety.configReady /\ configured /\ Latched # "DARK"
           /\ required # {} /\ required \subseteq heard'
           => Relay' = "CLOSED"]_vars

=============================================================================
