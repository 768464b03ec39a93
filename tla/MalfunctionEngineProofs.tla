----------------------- MODULE MalfunctionEngineProofs -----------------------
(***************************************************************************)
(* Proofs about MalfunctionEngine and OutageHistory, for every number of   *)
(* modules, threshold, sampling period, supply, sensor and channel fault.  *)
(* The relay is a function of the other fields of the safety service; a    *)
(* counter reaches its threshold only in the tick that reports the module  *)
(* missing, and that tick latches DARK, which nothing but a restart undoes.*)
(* What one tick publishes decides the rest: only what was published can   *)
(* be the reason of the latch, and codes that latch nothing leave the relay*)
(* to its other two conditions.                                            *)
(***************************************************************************)
EXTENDS OutageHistory, TLAPS

-----------------------------------------------------------------------------
(* The inductive invariant *)

\* The relay is what RefreshRelayState made it.
RelayFollows ==
  Relay = IF safety.configReady /\ safety.requiredSsmHealthy /\ Latched # "DARK"
          THEN "CLOSED" ELSE "OPEN"

\* A module at or beyond its threshold was reported, and the report latched DARK.
OverdueReported ==
  /\ \A m \in Module : stale[m] >= Threshold(m) => m \in missing
  /\ missing # {} => Latched = "DARK"

\* Only a module at or beyond its threshold is kept as missing.
MissingOverdue == \A m \in missing : stale[m] >= Threshold(m)

\* What the safety service was told last, between the handlers that tell it.
ReadyConfigured == linkReady => configured
ReadyTold       == pc = "control" => safety.configReady = linkReady
HealthTold      == pc # "field" => safety.requiredSsmHealthy = RequiredSsmHealthy(heard)

IInv ==
  /\ TypeOK /\ RelayFollows /\ OverdueReported /\ MissingOverdue
  /\ ReadyConfigured /\ ReadyTold /\ HealthTold

-----------------------------------------------------------------------------
(* The safety service *)

\* A non-empty set of the twelve publishing positions has a first one.
LEMMA FirstPosition ==
  ASSUME NEW S \in SUBSET (1..12), S # {}
  PROVE  \E k \in S : \A j \in S : k <= j
<1>1. CASE \E k \in S : k <= 4
  BY <1>1
<1>2. CASE ~(\E k \in S : k <= 4) /\ \E k \in S : k <= 8
  BY <1>2
<1>3. CASE ~(\E k \in S : k <= 8)
  <2>1. S \subseteq 9..12
    BY <1>3
  <2>2. CASE 9 \in S
    BY <2>1, <2>2
  <2>3. CASE 9 \notin S /\ 10 \in S
    BY <2>1, <2>3
  <2>4. CASE 9 \notin S /\ 10 \notin S /\ 11 \in S
    BY <2>1, <2>4
  <2>5. CASE 9 \notin S /\ 10 \notin S /\ 11 \notin S
    <3>1. \A j \in S : j = 12
      BY <2>1, <2>5
    <3>2. PICK k \in S : TRUE
      OBVIOUS
    <3> QED
      BY <3>1, <3>2
  <2> QED
    BY <2>2, <2>3, <2>4, <2>5
<1> QED
  BY <1>1, <1>2, <1>3

LEMMA PublishOrderRange == \A c : PublishOrder(c) \in 1..12
BY DEF PublishOrder

\* Of several faults one is published first.
LEMMA FirstPublished ==
  ASSUME NEW C, C # {}
  PROVE  \E c \in C : \A d \in C : PublishOrder(c) <= PublishOrder(d)
<1> DEFINE S == {PublishOrder(c) : c \in C}
<1>1. S \in SUBSET (1..12) /\ S # {}
  BY PublishOrderRange
<1>2. PICK k \in S : \A j \in S : k <= j
  BY <1>1, FirstPosition
<1> QED
  BY <1>2

\* What SafetyDecisionServiceOnFault does with the faults of one tick.
LEMMA OnFaultsProperties ==
  ASSUME NEW s \in SafetyState,
         NEW codes \in SUBSET Code
  PROVE  /\ OnFaults(s, codes) \in SafetyState
         /\ OnFaults(s, codes).latched = Strongest(s.latched, codes)
         /\ OnFaults(s, codes).configReady = s.configReady
         /\ OnFaults(s, codes).requiredSsmHealthy = s.requiredSsmHealthy
         /\ OnFaults(s, codes).relay =
              IF /\ s.configReady /\ s.requiredSsmHealthy
                 /\ OnFaults(s, codes).latched # "DARK"
              THEN "CLOSED" ELSE "OPEN"
         /\ IF Strongest(s.latched, codes) = s.latched
            THEN OnFaults(s, codes).code = s.code
            ELSE /\ OnFaults(s, codes).code \in codes
                 /\ Latching(OnFaults(s, codes).code) = Strongest(s.latched, codes)
<1> DEFINE action   == Strongest(s.latched, codes)
           decisive == {c \in codes : Latching(c) = action}
           first    == CHOOSE c \in decisive :
                         \A d \in decisive : PublishOrder(c) <= PublishOrder(d)
           code     == IF action = s.latched THEN s.code ELSE first
<1>1. action \in {"NONE", "FLASH", "DARK"}
  BY DEF Strongest
<1>2. action # s.latched => decisive # {}
  <2>1. s.latched \in {"NONE", "FLASH", "DARK"}
    BY DEF SafetyState
  <2> QED
    BY <2>1 DEF Strongest
<1>3. action # s.latched => first \in decisive
  BY <1>2, FirstPublished
<1>4. code \in Code \cup {"NONE"}
  BY <1>3 DEF SafetyState
<1>5. OnFaults(s, codes) =
        RefreshRelayState([s EXCEPT !.latched = action, !.code = code])
  BY DEF OnFaults
<1>6. action # s.latched => code \in codes /\ Latching(code) = action
  BY <1>3
<1>7. action = s.latched => code = s.code
  OBVIOUS
<1> HIDE DEF action, decisive, first, code
<1> QED
  BY <1>1, <1>4, <1>5, <1>6, <1>7 DEF RefreshRelayState, SafetyState, action

-----------------------------------------------------------------------------
(* The monitors *)

LEMMA StaleAfterProperties ==
  ASSUME NEW seen \in SUBSET Module, TypeOK
  PROVE  /\ StaleAfter(seen) \in [Module -> Nat]
         /\ \A m \in Module : StaleAfter(seen)[m] <= Threshold(m) + 1
         /\ \A m \in seen : StaleAfter(seen)[m] = 0
         /\ \A m \in Module \ seen : StaleAfter(seen)[m] = Silent(m)
<1>1. \A m \in Module : Threshold(m) \in Nat \ {0}
  BY ThresholdsAssumption DEF Threshold
<1>2. \A m \in Module : Silent(m) \in Nat /\ Silent(m) <= Threshold(m) + 1
  BY <1>1 DEF Silent, TypeOK
<1> QED
  BY <1>1, <1>2 DEF StaleAfter

\* A module at its threshold after a tick is one that was or is now missing.
LEMMA OverdueAfterTick ==
  ASSUME NEW seen \in SUBSET Module, TypeOK, OverdueReported, NEW m \in Module,
         StaleAfter(seen)[m] >= Threshold(m)
  PROVE  m \in (missing \ seen) \cup NewlyMissing(seen)
<1>1. Threshold(m) \in Nat \ {0}
  BY ThresholdsAssumption DEF Threshold
<1>2. m \notin seen /\ Silent(m) >= Threshold(m)
  BY <1>1, StaleAfterProperties
<1>3. CASE stale[m] >= Threshold(m)
  BY <1>2, <1>3 DEF OverdueReported
<1>4. CASE ~(stale[m] >= Threshold(m))
  BY <1>1, <1>2, <1>4 DEF NewlyMissing, Silent, TypeOK
<1> QED
  BY <1>3, <1>4

LEMMA SensorAfterType ==
  ASSUME NEW s \in SensorState, NEW sample
  PROVE  SensorAfter(s, sample) \in SensorState
<1>1. ConsecutiveSamples \in Nat \ {0}
  BY SamplingAssumption
<1> QED
  BY <1>1 DEF SensorAfter, SensorState

-----------------------------------------------------------------------------
(* The tick *)

\* What a tick publishes, and what it latches.
LEMMA TickFaults ==
  ASSUME TypeOK, NEW seen \in SUBSET Module, NEW reading \in Readings(seen),
         NEW samples, NEW found \in SUBSET MonitorFaults,
         Tick(seen, reading, samples, found)
  PROVE  /\ \A e \in emitted' : e[1] \in Code
         /\ \A m \in NewlyMissing(seen) : <<MissingCode(m), m>> \in emitted'
         /\ safety' = OnFaults([safety EXCEPT !.requiredSsmHealthy = RequiredSsmHealthy(seen)],
                               {e[1] : e \in emitted'})
<1>1. \A m \in Module : MissingCode(m) \in Code
  BY DEF MissingCode, MissingCodes, Code
<1>2. \A x \in SupplyFaults(reading) : x[2] \in Code
  BY FaultsAssumption DEF SupplyFaults, Readings, Code
<1>3. Sensors \subseteq Code /\ MonitorFaults \subseteq Code
  BY FaultsAssumption DEF Code
<1>4. NewlyMissing(seen) \subseteq Module
  BY DEF NewlyMissing
<1>5. \A sensorAfter : SensorFaults(sensorAfter) \subseteq Sensors
  BY DEF SensorFaults
<1>6. \A e \in emitted' : e[1] \in Code
  <2> SUFFICES ASSUME NEW e \in emitted' PROVE e[1] \in Code
    OBVIOUS
  <2>1. \/ \E m \in NewlyMissing(seen) : e = <<MissingCode(m), m>>
        \/ \E x \in SupplyFaults(reading) : e = <<x[2], x[1]>>
        \/ \E sensorAfter : \E n \in SensorFaults(sensorAfter) : e = <<n, "MP">>
        \/ \E c \in found : e = <<c, "CHANNEL">>
    BY DEF Tick
  <2> QED
    BY <1>1, <1>2, <1>3, <1>4, <1>5, <2>1
<1>7. \A m \in NewlyMissing(seen) : <<MissingCode(m), m>> \in emitted'
  BY DEF Tick
<1> QED
  BY <1>6, <1>7 DEF Tick

\* Where a fault that a tick publishes comes from.
LEMMA EmittedFaults ==
  ASSUME NEW seen \in SUBSET Module, NEW reading \in Readings(seen),
         NEW samples, NEW found \in SUBSET MonitorFaults,
         Tick(seen, reading, samples, found), NEW e \in emitted'
  PROVE  \/ \E m \in NewlyMissing(seen) : e = <<MissingCode(m), m>>
         \/ e[1] \in AllSupplies \cup AllSensors
         \/ \E c \in ChannelFaults : e = <<c, "CHANNEL">>
<1>1. \/ \E m \in NewlyMissing(seen) : e = <<MissingCode(m), m>>
      \/ \E x \in SupplyFaults(reading) : e = <<x[2], x[1]>>
      \/ \E sensorAfter : \E n \in SensorFaults(sensorAfter) : e = <<n, "MP">>
      \/ \E c \in found : e = <<c, "CHANNEL">>
  BY DEF Tick
<1>2. \A x \in SupplyFaults(reading) : x[2] \in AllSupplies
  BY FaultsAssumption DEF SupplyFaults, Readings
<1>3. \A sensorAfter : SensorFaults(sensorAfter) \subseteq AllSensors
  BY FaultsAssumption DEF SensorFaults
<1>4. found \subseteq ChannelFaults
  BY FaultsAssumption
<1> QED
  BY <1>1, <1>2, <1>3, <1>4

\* What the counters and the list of missing modules become.
LEMMA TickMissing ==
  ASSUME TypeOK, MissingOverdue, NEW seen \in SUBSET Module, NEW reading \in Readings(seen),
         NEW samples, NEW found \in SUBSET MonitorFaults,
         Tick(seen, reading, samples, found)
  PROVE  MissingOverdue'
<1> SUFFICES ASSUME NEW m \in missing' PROVE stale'[m] >= Threshold(m)
  BY DEF MissingOverdue
<1>1. stale' = StaleAfter(seen) /\ missing' = (missing \ seen) \cup NewlyMissing(seen)
  BY DEF Tick
<1>2. m \in Module \ seen /\ stale'[m] = Silent(m)
  BY <1>1, StaleAfterProperties DEF NewlyMissing, TypeOK
<1>3. Threshold(m) \in Nat \ {0} /\ stale[m] \in Nat
  BY <1>2, ThresholdsAssumption DEF Threshold, TypeOK
<1>4. CASE m \in missing
  BY <1>2, <1>3, <1>4 DEF MissingOverdue, Silent
<1>5. CASE m \in NewlyMissing(seen)
  BY <1>2, <1>3, <1>5 DEF NewlyMissing
<1> QED
  BY <1>1, <1>4, <1>5

\* What the faults of a tick make of the safety service.
EmittedCodes == {e[1] : e \in emitted}

LEMMA TickSafety ==
  ASSUME TypeOK, NEW seen \in SUBSET Module, NEW reading \in Readings(seen),
         NEW samples, NEW found \in SUBSET MonitorFaults,
         Tick(seen, reading, samples, found)
  PROVE  /\ safety' \in SafetyState
         /\ Latched' = Strongest(Latched, EmittedCodes')
         /\ safety'.configReady = safety.configReady
         /\ safety'.requiredSsmHealthy = RequiredSsmHealthy(seen)
         /\ RelayFollows'
         /\ IF Latched' = Latched
            THEN safety'.code = safety.code
            ELSE safety'.code \in EmittedCodes' /\ Latching(safety'.code) = Latched'
<1> DEFINE told == [safety EXCEPT !.requiredSsmHealthy = RequiredSsmHealthy(seen)]
<1>1. EmittedCodes' \in SUBSET Code /\ safety' = OnFaults(told, EmittedCodes')
  BY TickFaults DEF EmittedCodes
<1>2. /\ told \in SafetyState /\ told.latched = Latched
      /\ told.configReady = safety.configReady /\ told.code = safety.code
      /\ told.requiredSsmHealthy = RequiredSsmHealthy(seen)
  BY DEF TypeOK, SafetyState, RequiredSsmHealthy, Latched
<1> HIDE DEF told
<1> QED
  BY <1>1, <1>2, OnFaultsProperties DEF RelayFollows, Relay, Latched

LEMMA TickPreserves ==
  ASSUME IInv, NEW seen \in SUBSET Module, NEW reading \in Readings(seen),
         NEW samples, NEW found \in SUBSET MonitorFaults,
         Tick(seen, reading, samples, found)
  PROVE  IInv'
<1> USE DEF IInv
<1>1. /\ safety' \in SafetyState
      /\ Latched' = Strongest(Latched, EmittedCodes')
      /\ safety'.configReady = safety.configReady
      /\ safety'.requiredSsmHealthy = RequiredSsmHealthy(seen)
      /\ RelayFollows'
  BY TickSafety
<1>2. TypeOK'
  <2>1. stale' \in [Module -> Nat] /\ \A m \in Module : stale'[m] <= Threshold(m) + 1
    BY StaleAfterProperties DEF Tick
  <2>2. missing' \subseteq Module /\ heard' \subseteq Module
    BY DEF Tick, TypeOK, NewlyMissing
  <2>3. outOfBand' \subseteq Psm \X Supplies
    BY DEF Tick, TypeOK, OutOfBandAfter, SupplyFaults, Readings
  <2>4. sensor' \in [Sensors -> SensorState]
    BY SensorAfterType DEF Tick, TypeOK
  <2>5. sinceSample' \in 0..(SamplePeriod - 1)
    BY SamplingAssumption DEF Tick, TypeOK
  <2>6. \A e \in emitted' : e[1] \in Code
    BY TickFaults
  <2> QED
    BY <1>1, <2>1, <2>2, <2>3, <2>4, <2>5, <2>6 DEF TypeOK, Tick, inputVars
<1>3. OverdueReported'
  <2>1. \A m \in Module : stale'[m] >= Threshold(m) => m \in missing'
    BY OverdueAfterTick DEF Tick
  <2>2. NewlyMissing(seen) # {} => Latched' = "DARK"
    <3> SUFFICES ASSUME NEW m \in NewlyMissing(seen)
                 PROVE  Latched' = "DARK"
      OBVIOUS
    <3>1. MissingCode(m) \in EmittedCodes'
      <4>1. <<MissingCode(m), m>> \in emitted'
        BY TickFaults
      <4> QED
        BY <4>1 DEF EmittedCodes
    <3>2. Latching(MissingCode(m)) = "DARK"
      BY DEF Latching, DarkCodes, MissingCode, MissingCodes
    <3> QED
      BY <1>1, <3>1, <3>2 DEF Strongest
  <2>3. Latched = "DARK" => Latched' = "DARK"
    BY <1>1 DEF Strongest
  <2>4. missing' \subseteq missing \cup NewlyMissing(seen)
    BY DEF Tick
  <2> QED
    BY <2>1, <2>2, <2>3, <2>4 DEF OverdueReported
<1>4. MissingOverdue'
  BY TickMissing
<1>5. ReadyConfigured' /\ ReadyTold' /\ HealthTold'
  BY <1>1 DEF Tick, inputVars, ReadyConfigured, ReadyTold, HealthTold, RequiredSsmHealthy
<1> QED
  BY <1>1, <1>2, <1>3, <1>4, <1>5

-----------------------------------------------------------------------------
(* MalfunctionEngine *)

LEMMA BootedSensorsType == BootedSensors \in [Sensors -> SensorState]
<1>1. 0 \in 0..(ConsecutiveSamples - 1)
  BY SamplingAssumption
<1>2. [active |-> FALSE, run |-> 0] \in SensorState
  BY <1>1 DEF SensorState
<1> QED
  BY <1>2 DEF BootedSensors

LEMMA InitInvariant == Init => IInv
<1> SUFFICES ASSUME Init PROVE IInv
  OBVIOUS
<1>1. \A m \in Module : Threshold(m) \in Nat \ {0}
  BY ThresholdsAssumption DEF Threshold
<1>2. TypeOK
  <2>1. stale \in [Module -> Nat] /\ \A m \in Module : stale[m] <= Threshold(m) + 1
    BY <1>1 DEF Init
  <2>2. sensor \in [Sensors -> SensorState]
    BY BootedSensorsType DEF Init
  <2>3. sinceSample \in 0..(SamplePeriod - 1)
    BY SamplingAssumption DEF Init
  <2>4. safety \in SafetyState
    BY DEF Init, BootedSafety, SafetyState
  <2>5. \A e \in emitted : e[1] \in Code
    BY DEF Init
  <2> QED
    BY <2>1, <2>2, <2>3, <2>4, <2>5 DEF Init, TypeOK
<1>3. RelayFollows /\ OverdueReported /\ MissingOverdue
  BY <1>1 DEF Init, RelayFollows, OverdueReported, MissingOverdue, BootedSafety, Relay, Latched
<1>4. ReadyConfigured /\ ReadyTold /\ HealthTold
  BY DEF Init, ReadyConfigured, ReadyTold, HealthTold, BootedSafety, RequiredSsmHealthy
<1> QED
  BY <1>2, <1>3, <1>4 DEF IInv

LEMMA ControlBusPreserves == IInv /\ ControlBusStep => IInv'
<1> SUFFICES ASSUME IInv, ControlBusStep PROVE IInv'
  OBVIOUS
<1> USE DEF IInv, ControlBusStep, monitorVars
<1>1. TypeOK'
  BY DEF TypeOK
<1>2. RelayFollows' /\ OverdueReported' /\ MissingOverdue'
  BY DEF RelayFollows, OverdueReported, MissingOverdue, Relay, Latched
<1>3. ReadyConfigured' /\ ReadyTold' /\ HealthTold'
  BY DEF ReadyConfigured, ReadyTold, HealthTold
<1> QED
  BY <1>1, <1>2, <1>3

LEMMA LinkPreserves == IInv /\ LinkStep => IInv'
<1> SUFFICES ASSUME IInv, LinkStep PROVE IInv'
  OBVIOUS
<1> USE DEF IInv, LinkStep, monitorVars, inputVars
<1>1. /\ safety' \in SafetyState
      /\ Latched' = Latched
      /\ safety'.configReady = linkReady
      /\ safety'.requiredSsmHealthy = safety.requiredSsmHealthy
      /\ RelayFollows'
  BY DEF TypeOK, SafetyState, SetConfigReady, RefreshRelayState, RelayFollows, Relay, Latched
<1>2. TypeOK'
  BY <1>1 DEF TypeOK
<1>3. OverdueReported' /\ MissingOverdue'
  BY <1>1 DEF OverdueReported, MissingOverdue
<1>4. ReadyConfigured' /\ ReadyTold' /\ HealthTold'
  BY <1>1 DEF ReadyConfigured, ReadyTold, HealthTold, RequiredSsmHealthy
<1> QED
  BY <1>1, <1>2, <1>3, <1>4

LEMMA RestartPreserves == Restart => IInv'
<1> SUFFICES ASSUME Restart PROVE IInv'
  OBVIOUS
<1>1. \A m \in Module : Threshold(m) \in Nat \ {0}
  BY ThresholdsAssumption DEF Threshold
<1>2. TypeOK'
  <2>1. stale' \in [Module -> Nat] /\ \A m \in Module : stale'[m] <= Threshold(m) + 1
    BY <1>1 DEF Restart
  <2>2. sensor' \in [Sensors -> SensorState]
    BY BootedSensorsType DEF Restart
  <2>3. sinceSample' \in 0..(SamplePeriod - 1)
    BY SamplingAssumption DEF Restart
  <2>4. safety' \in SafetyState
    BY DEF Restart, BootedSafety, SafetyState
  <2>5. \A e \in emitted' : e[1] \in Code
    BY DEF Restart
  <2> QED
    BY <2>1, <2>2, <2>3, <2>4, <2>5 DEF Restart, TypeOK
<1>3. RelayFollows' /\ OverdueReported' /\ MissingOverdue'
  BY <1>1 DEF Restart, RelayFollows, OverdueReported, MissingOverdue, BootedSafety, Relay,
              Latched
<1>4. ReadyConfigured' /\ ReadyTold' /\ HealthTold'
  BY DEF Restart, ReadyConfigured, ReadyTold, HealthTold, BootedSafety, RequiredSsmHealthy
<1> QED
  BY <1>2, <1>3, <1>4 DEF IInv

LEMMA StutterPreserves == IInv /\ UNCHANGED vars => IInv'
BY DEF IInv, vars, inputVars, monitorVars, TypeOK, RelayFollows, OverdueReported,
       MissingOverdue, ReadyConfigured, ReadyTold, HealthTold, Relay, Latched, RequiredSsmHealthy

LEMMA NextPreserves == IInv /\ [Next]_vars => IInv'
<1> SUFFICES ASSUME IInv, [Next]_vars PROVE IInv'
  OBVIOUS
<1>1. CASE ControlBusStep
  BY <1>1, ControlBusPreserves
<1>2. CASE MalfunctionEngineTick
  BY <1>2, TickPreserves DEF MalfunctionEngineTick
<1>3. CASE LinkStep
  BY <1>3, LinkPreserves
<1>4. CASE Restart
  BY <1>4, RestartPreserves
<1>5. CASE UNCHANGED vars
  BY <1>5, StutterPreserves
<1> QED
  BY <1>1, <1>2, <1>3, <1>4, <1>5 DEF Next

\* The invariant the other theorems rest on.
THEOREM EngineInvariant == Spec => []IInv
<1>1. IInv /\ [Next]_vars => IInv'
  BY NextPreserves
<1> QED
  BY InitInvariant, <1>1, PTL DEF Spec

\* Every variable of the engine keeps its type.
THEOREM EngineTypes == Spec => []TypeOK
<1>1. IInv => TypeOK
  BY DEF IInv
<1> QED
  BY EngineInvariant, <1>1, PTL

\* A relay closed while the task sleeps is closed for good reasons: link and
\* configuration ready, every needed SSM heard, no module overdue, no DARK latch.
THEOREM PermitIsJustified == Spec => []PermitJustified
<1>1. IInv => PermitJustified
  <2> SUFFICES ASSUME IInv, pc = "control", Relay = "CLOSED" PROVE
        /\ linkReady /\ configured
        /\ required # {} /\ required \subseteq heard
        /\ Latched # "DARK"
        /\ \A m \in Module : stale[m] < Threshold(m)
    BY DEF PermitJustified
  <2> USE DEF IInv
  <2>1. safety.configReady /\ safety.requiredSsmHealthy /\ Latched # "DARK"
    BY DEF RelayFollows
  <2>2. linkReady /\ RequiredSsmHealthy(heard)
    BY <2>1 DEF ReadyTold, HealthTold, TypeOK
  <2>3. missing = {}
    BY <2>1 DEF OverdueReported
  <2>4. \A m \in Module : stale[m] \in Nat /\ Threshold(m) \in Nat
    BY ThresholdsAssumption DEF TypeOK, Threshold
  <2> QED
    BY <2>1, <2>2, <2>3, <2>4 DEF OverdueReported, RequiredSsmHealthy
<1> QED
  BY EngineInvariant, <1>1, PTL

-----------------------------------------------------------------------------
(* Errors *)

\* While errors may not latch, a tick without DARK codes latches nothing.
LEMMA OnlyErrors ==
  ASSUME ErrorSeverityDropsRelay = FALSE,
         NEW action \in {"NONE", "FLASH", "DARK"}, NEW codes, codes \cap DarkCodes = {}
  PROVE  Strongest(action, codes) = action
BY DEF Strongest, Latching

\* As the program is built, where an ERROR drops no relay: a tick whose faults are
\* all out-of-band supplies, sensors, lamps or sequence errors latches nothing and
\* leaves the relay closed if configuration and modules are there.
THEOREM ErrorsKeepRelay ==
  ASSUME ErrorSeverityDropsRelay = FALSE
  PROVE  Spec => ErrorsNeverDrop
<1> DEFINE Step == /\ pc = "field" /\ pc' = "link"
                   /\ \A e \in emitted' : e[1] \notin DarkCodes
           Kept == /\ Latched' = Latched
                   /\ /\ safety.configReady /\ configured /\ Latched # "DARK"
                      /\ required # {} /\ required \subseteq heard'
                      => Relay' = "CLOSED"
<1>1. IInv /\ [Next]_vars => [Step => Kept]_vars
  <2> SUFFICES ASSUME IInv, [Next]_vars, Step PROVE Kept
    OBVIOUS
  <2>1. MalfunctionEngineTick
    BY DEF Next, ControlBusStep, LinkStep, Restart, vars
  <2>2. PICK seen \in SUBSET Module : \E reading \in Readings(seen) :
        \E samples \in Samples :
        \E found \in SUBSET MonitorFaults : Tick(seen, reading, samples, found)
    BY <2>1 DEF MalfunctionEngineTick
  <2>3. TypeOK /\ Latched \in {"NONE", "FLASH", "DARK"}
    BY DEF IInv, TypeOK, SafetyState, Latched
  <2>4. EmittedCodes' \cap DarkCodes = {}
    BY DEF EmittedCodes
  <2>5. /\ Latched' = Latched /\ RelayFollows'
        /\ safety'.configReady = safety.configReady
        /\ safety'.requiredSsmHealthy = RequiredSsmHealthy(seen)
    BY <2>2, <2>3, <2>4, TickSafety, OnlyErrors
  <2>6. heard' = seen
    BY <2>2 DEF Tick
  <2> QED
    BY <2>5, <2>6 DEF RelayFollows, RequiredSsmHealthy
<1> QED
  BY EngineInvariant, <1>1, PTL DEF Spec, ErrorsNeverDrop

-----------------------------------------------------------------------------
(* OutageHistory *)

\* The counter of the monitor is the silence recorded, as far as that is kept.
SilenceCounted ==
  \A m \in Module : silence[m] = IF stale[m] > Threshold(m) THEN Threshold(m) ELSE stale[m]

\* An outage that happened was reported, or the module was heard since; either way
\* it latched DARK.
OutageLatched == outages # {} => Latched = "DARK"

HInv == /\ IInv /\ SilenceCounted /\ OutageLatched
        /\ DarkExplained /\ ReportedOnce

LEMMA HInitInvariant == HInit => HInv
<1> SUFFICES ASSUME HInit PROVE HInv
  OBVIOUS
<1>1. \A m \in Module : Threshold(m) \in Nat \ {0}
  BY ThresholdsAssumption DEF Threshold
<1>2. SilenceCounted /\ OutageLatched /\ ReportedOnce
  BY <1>1 DEF HInit, Init, SilenceCounted, OutageLatched, ReportedOnce
<1>3. DarkExplained
  BY DEF HInit, Init, BootedSafety, Latched, DarkExplained
<1> QED
  BY <1>2, <1>3, InitInvariant DEF HInit, HInv

\* A module that becomes missing has been silent for exactly its threshold, and
\* until then it was not.
LEMMA NewlySilent ==
  ASSUME HInv, NEW seen \in SUBSET Module, NEW reading \in Readings(seen),
         NEW samples, NEW found \in SUBSET MonitorFaults,
         Tick(seen, reading, samples, found), Observe, NEW m \in Module \ seen
  PROVE  IF m \in NewlyMissing(seen)
         THEN silence[m] # Threshold(m) /\ silence'[m] = Threshold(m)
         ELSE silence[m] = Threshold(m) <=> silence'[m] = Threshold(m)
<1>1. Threshold(m) \in Nat \ {0} /\ stale[m] \in Nat
  BY ThresholdsAssumption DEF Threshold, HInv, IInv, TypeOK
<1>2. silence'[m] = OneMore(silence[m], Threshold(m))
  BY DEF Observe, Tick
<1>3. silence[m] = IF stale[m] > Threshold(m) THEN Threshold(m) ELSE stale[m]
  BY DEF HInv, SilenceCounted
<1>4. m \in missing <=> stale[m] >= Threshold(m)
  BY DEF HInv, IInv, OverdueReported, MissingOverdue
<1> QED
  BY <1>1, <1>2, <1>3, <1>4 DEF NewlyMissing, Silent, OneMore

\* A module is reported in the tick in which it becomes missing, and in no other.
LEMMA ReportedWhenMissing ==
  ASSUME TypeOK, NEW seen \in SUBSET Module, NEW reading \in Readings(seen),
         NEW samples, NEW found \in SUBSET MonitorFaults,
         Tick(seen, reading, samples, found), NEW m \in Module
  PROVE  ReportedMissing(m) <=> m \in NewlyMissing(seen)
<1>1. m \in NewlyMissing(seen) => ReportedMissing(m)
  BY TickFaults DEF ReportedMissing
<1>2. ASSUME ReportedMissing(m) PROVE m \in NewlyMissing(seen)
  <2> DEFINE e == <<MissingCode(m), m>>
  <2>1. \/ \E n \in NewlyMissing(seen) : e = <<MissingCode(n), n>>
        \/ e[1] \in AllSupplies \cup AllSensors
        \/ \E c \in ChannelFaults : e = <<c, "CHANNEL">>
    BY <1>2, EmittedFaults DEF ReportedMissing
  <2>2. e[1] \in MissingCodes
    BY DEF MissingCode, MissingCodes
  <2>3. e[1] \notin AllSupplies \cup AllSensors \cup ChannelFaults
    BY <2>2 DEF MissingCodes, AllSupplies, LineSupplies, AllSensors, ChannelFaults
  <2> QED
    BY <2>1, <2>3
<1> QED
  BY <1>1, <1>2

\* The fault that latches DARK in a tick is an outage or a channel fault.
LEMMA DarkStaysExplained ==
  ASSUME HInv, NEW seen \in SUBSET Module, NEW reading \in Readings(seen),
         NEW samples, NEW found \in SUBSET MonitorFaults,
         Tick(seen, reading, samples, found), Observe
  PROVE  DarkExplained'
<1> SUFFICES ASSUME Latched' = "DARK"
             PROVE  \/ \E m \in outages' : safety'.code = MissingCode(m)
                    \/ safety'.code \in tripped' \cap DarkCodes
  BY DEF DarkExplained
<1>1. outages \subseteq outages' /\ tripped \subseteq tripped'
  BY DEF Observe
<1>2. CASE Latched = "DARK"
  <2>1. safety'.code = safety.code
    BY <1>2, TickSafety DEF HInv, IInv
  <2> QED
    BY <1>1, <1>2, <2>1 DEF HInv, DarkExplained
<1>3. CASE Latched # "DARK"
  <2>1. safety'.code \in EmittedCodes' /\ Latching(safety'.code) = "DARK"
    BY <1>3, TickSafety DEF HInv, IInv
  <2>2. safety'.code \in DarkCodes
    BY <2>1 DEF Latching
  <2>3. PICK e \in emitted' : safety'.code = e[1]
    BY <2>1 DEF EmittedCodes
  <2>4. DarkCodes \cap (AllSupplies \cup AllSensors) = {}
    BY DEF DarkCodes, MissingCodes, ChannelFaults, AllSupplies, LineSupplies, AllSensors
  <2>5. \/ \E m \in NewlyMissing(seen) : e = <<MissingCode(m), m>>
        \/ \E c \in ChannelFaults : e = <<c, "CHANNEL">>
    BY <2>2, <2>3, <2>4, EmittedFaults
  <2>6. ASSUME NEW m \in NewlyMissing(seen), e = <<MissingCode(m), m>>
        PROVE  m \in outages' /\ safety'.code = MissingCode(m)
    <3>1. m \in Module \ seen
      BY DEF NewlyMissing
    <3>2. silence'[m] = Threshold(m)
      BY <3>1, NewlySilent
    <3> QED
      BY <2>3, <2>6, <3>1, <3>2 DEF Observe
  <2>7. ASSUME NEW c \in ChannelFaults, e = <<c, "CHANNEL">>
        PROVE  safety'.code \in tripped'
    BY <2>3, <2>7 DEF Observe
  <2> QED
    BY <2>2, <2>5, <2>6, <2>7
<1> QED
  BY <1>2, <1>3

LEMMA ReportsStayCounted ==
  ASSUME HInv, NEW seen \in SUBSET Module, NEW reading \in Readings(seen),
         NEW samples, NEW found \in SUBSET MonitorFaults,
         Tick(seen, reading, samples, found), Observe
  PROVE  ReportedOnce'
<1> SUFFICES ASSUME NEW m \in Module
             PROVE  reports'[m] = IF silence'[m] = Threshold(m) THEN 1 ELSE 0
  BY DEF ReportedOnce
<1>1. Threshold(m) \in Nat \ {0}
  BY ThresholdsAssumption DEF Threshold
<1>2. reports[m] = IF silence[m] = Threshold(m) THEN 1 ELSE 0
  BY DEF HInv, ReportedOnce
<1>3. heard' = seen
  BY DEF Tick
<1>4. CASE m \in seen
  BY <1>1, <1>3, <1>4 DEF Observe
<1>5. CASE m \notin seen
  <2>1. reports'[m] = IF ReportedMissing(m) THEN OneMore(reports[m], 2) ELSE reports[m]
    BY <1>3, <1>5 DEF Observe
  <2>2. ReportedMissing(m) <=> m \in NewlyMissing(seen)
    BY ReportedWhenMissing DEF HInv, IInv
  <2> QED
    BY <1>2, <1>5, <2>1, <2>2, NewlySilent DEF OneMore
<1> QED
  BY <1>4, <1>5

LEMMA ObservePreserves == HInv /\ MalfunctionEngineTick /\ Observe => HInv'
<1> SUFFICES ASSUME HInv, NEW seen \in SUBSET Module, NEW reading \in Readings(seen),
                    NEW samples, NEW found \in SUBSET MonitorFaults,
                    Tick(seen, reading, samples, found), Observe
             PROVE  HInv'
  BY DEF MalfunctionEngineTick
<1> USE DEF HInv
<1>1. IInv'
  BY TickPreserves
<1>2. \A m \in Module : Threshold(m) \in Nat \ {0} /\ stale[m] \in Nat
  BY ThresholdsAssumption DEF Threshold, IInv, TypeOK
<1>3. heard' = seen /\ stale' = StaleAfter(seen)
  BY DEF Tick
<1>4. \A m \in Module :
        silence'[m] = IF m \in seen THEN 0 ELSE OneMore(silence[m], Threshold(m))
  BY <1>3 DEF Observe
<1>5. SilenceCounted'
  BY <1>2, <1>3, <1>4, StaleAfterProperties
  DEF SilenceCounted, OneMore, Silent, IInv
<1>6. Latched = "DARK" => Latched' = "DARK"
  BY TickSafety DEF IInv, Strongest
<1>7. (\E m \in Module : silence'[m] = Threshold(m)) => Latched' = "DARK"
  <2> SUFFICES ASSUME NEW m \in Module, silence'[m] = Threshold(m)
               PROVE  Latched' = "DARK"
    OBVIOUS
  <2>1. stale'[m] >= Threshold(m)
    BY <1>2, <1>5, <1>1 DEF SilenceCounted, IInv, TypeOK
  <2> QED
    BY <1>1, <2>1 DEF IInv, OverdueReported
<1>8. OutageLatched'
  BY <1>6, <1>7 DEF OutageLatched, Observe
<1>9. DarkExplained' /\ ReportedOnce'
  BY DarkStaysExplained, ReportsStayCounted
<1> QED
  BY <1>1, <1>5, <1>8, <1>9

LEMMA HNextPreserves == HInv /\ [HNext]_hvars => HInv'
<1> SUFFICES ASSUME HInv, [HNext]_hvars PROVE HInv'
  OBVIOUS
<1>1. CASE MalfunctionEngineTick /\ Observe
  BY <1>1, ObservePreserves
<1>2. CASE (ControlBusStep \/ LinkStep) /\ UNCHANGED historyVars
  <2>1. IInv'
    BY <1>2, ControlBusPreserves, LinkPreserves DEF HInv
  <2>2. stale' = stale /\ Latched' = Latched /\ safety'.code = safety.code
    BY <1>2 DEF ControlBusStep, LinkStep, monitorVars, SetConfigReady,
                RefreshRelayState, Latched, HInv, IInv, TypeOK, SafetyState
  <2>3. SilenceCounted' /\ OutageLatched' /\ ReportedOnce'
    BY <1>2, <2>2 DEF HInv, historyVars, SilenceCounted, OutageLatched, ReportedOnce
  <2>4. DarkExplained'
    BY <1>2, <2>2 DEF HInv, historyVars, DarkExplained
  <2> QED
    BY <2>1, <2>3, <2>4 DEF HInv
<1>3. CASE /\ Restart
           /\ silence' = [m \in Module |-> 0] /\ outages' = {}
           /\ reports' = [m \in Module |-> 0] /\ tripped' = {}
  <2>1. \A m \in Module : Threshold(m) \in Nat \ {0}
    BY ThresholdsAssumption DEF Threshold
  <2>2. stale' = [m \in Module |-> 0] /\ Latched' = "NONE"
    BY <1>3 DEF Restart, BootedSafety, Latched
  <2>3. SilenceCounted' /\ OutageLatched' /\ ReportedOnce'
    BY <1>3, <2>1, <2>2 DEF SilenceCounted, OutageLatched, ReportedOnce
  <2> QED
    BY <1>3, <2>2, <2>3, RestartPreserves DEF HInv, DarkExplained
<1>4. CASE UNCHANGED hvars
  <2>1. IInv'
    BY <1>4, StutterPreserves DEF hvars, HInv
  <2>2. UNCHANGED <<stale, safety, silence, outages, reports, tripped>>
    BY <1>4 DEF hvars, vars, monitorVars, historyVars
  <2> QED
    BY <2>1, <2>2 DEF HInv, SilenceCounted, OutageLatched, ReportedOnce, DarkExplained, Latched
<1> QED
  BY <1>1, <1>2, <1>3, <1>4 DEF HNext

\* What the history records and what the engine holds agree: the invariant of the
\* three theorems below.
THEOREM HistoryInvariant == HSpec => []HInv
<1>1. HInv /\ [HNext]_hvars => HInv'
  BY HNextPreserves
<1> QED
  BY HInitInvariant, <1>1, PTL DEF HSpec

\* Whichever module was silent for its threshold, and however long ago, the relay
\* is open and stays so until MP restarts.
THEOREM OutagesDarken == HSpec => []OutageDarkens
<1>1. HInv => OutageDarkens
  BY DEF HInv, OutageLatched, OutageDarkens, IInv, RelayFollows
<1> QED
  BY HistoryInvariant, <1>1, PTL

\* MP goes DARK only for a cause, and the code it reports to CP as the reason names
\* a module that was silent for its threshold or a channel fault that was found.
THEOREM DarkHasCause == HSpec => []DarkExplained
<1>1. HInv => DarkExplained
  BY DEF HInv
<1> QED
  BY HistoryInvariant, <1>1, PTL

\* A module that falls silent is reported in the window its silence reaches the
\* threshold, and never again before it was heard.
THEOREM OutagesReportedOnce == HSpec => []ReportedOnce
<1>1. HInv => ReportedOnce
  BY DEF HInv
<1> QED
  BY HistoryInvariant, <1>1, PTL

\* The history only watches: what is proved of the engine holds also beside it.
THEOREM HistoryWatchesEngine == HSpec => Spec
<1>1. HInit => Init
  BY DEF HInit
<1>2. [HNext]_hvars => [Next]_vars
  BY DEF HNext, Next, hvars
<1> QED
  BY <1>1, <1>2, PTL DEF HSpec, Spec

=============================================================================
