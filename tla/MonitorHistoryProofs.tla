------------------------- MODULE MonitorHistoryProofs -------------------------
(***************************************************************************)
(* Theorems of ChannelMonitors and MonitorHistory, for any channels, maps, *)
(* configurations and times.                                               *)
(***************************************************************************)
EXTENDS MonitorHistory, FiniteSetTheorems, TLAPS

HTypeOK ==
  /\ TypeOK
  /\ together \in [Pair -> 0..ConflictDwell]
  /\ alarmed \subseteq Pair
  /\ shown \in [Channel -> SUBSET Color] /\ before \in [Channel -> SUBSET Color]
  /\ age \in [Channel -> 0..MaxAge]
  /\ replaced \in BOOLEAN /\ lawful \in BOOLEAN

\* A pair is counted by the monitor for at least as long as its lamps were lit
\* together, and for exactly as long while the configuration has not been replaced.
ConflictInv ==
  \A p \in Pair :
    LET count == dwell[<<"CONFLICT", p>>]
    IN  /\ together[p] <= count
        /\ count = ConflictDwell => p \in alarmed
        /\ ~replaced => together[p] = count
        /\ ~replaced /\ (config = NotConfigured \/ p \notin config.conflicts) => count = 0

-----------------------------------------------------------------------------
(* The operators *)

LEMMA ConstantTypes ==
  /\ ConflictDwell \in Nat \ {0} /\ DualDwell \in Nat \ {0} /\ DarkDwell \in Nat \ {0}
  /\ RedDwell \in Nat \ {0} /\ LampDwell \in Nat \ {0} /\ MaxYellow \in Nat \ {0}
  /\ MaxAge \in Nat
BY DwellAssumption, MaxAgeAssumption

LEMMA ThresholdType ==
  ASSUME NEW w \in Watch
  PROVE  Threshold(w) \in Nat \ {0}
BY ConstantTypes DEF Threshold

LEMMA PairIsWatched ==
  ASSUME NEW p \in Pair
  PROVE  <<"CONFLICT", p>> \in Watch /\ Threshold(<<"CONFLICT", p>>) = ConflictDwell
BY DEF Watch, Threshold

\* What is lit of an image: an indication is in it when an output that shows it, and
\* that no later one hides, is lit.
LEMMA ResolveShows ==
  ASSUME NEW ACTION image, NEW c, NEW k
  PROVE  <<c, k>> \in Resolve(image) <=>
           \E o \in image : Seen(o) /\ config.map[o] = <<c, k>>
<1>1. <<c, k>> # Unassigned
  BY DEF Unassigned
<1>2. QED
  BY <1>1 DEF Resolve, Seen

LEMMA PermissiveMeans ==
  ASSUME NEW ACTION show, NEW c
  PROVE  Permissive(show, c) <=> <<c, "GREEN">> \in show \/ <<c, "YELLOW">> \in show
BY DEF Permissive, Dominant

LEMMA ConflictsAreTogether ==
  ASSUME NEW p \in Pair
  PROVE  p \in Conflicts(Resolve(voltage')) <=> p \in config.conflicts /\ LitTogether(p)
<1>1. ASSUME NEW c
      PROVE  Permissive(Resolve(voltage'), c) <=>
               \E o \in voltage' : Seen(o) /\ config.map[o] \in {<<c, "YELLOW">>, <<c, "GREEN">>}
  <2>1. ASSUME NEW k
        PROVE  <<c, k>> \in Resolve(voltage') <=>
                 \E o \in voltage' : Seen(o) /\ config.map[o] = <<c, k>>
    BY ResolveShows
  <2>2. QED
    BY <2>1, PermissiveMeans
<1>2. QED
  BY <1>1 DEF Conflicts, LitTogether

\* The count of a pair after a period.
LEMMA CountOfPair ==
  ASSUME NEW p \in Pair, NEW heard,
         NEW ACTION want, NEW ACTION show, NEW ACTION cmd, NEW ACTION lit
  PROVE  DwellAfter(Found(want, show, cmd, lit), PassedOver(heard))[<<"CONFLICT", p>>]
           = IF p \notin config.conflicts THEN dwell[<<"CONFLICT", p>>]
             ELSE IF p \in Conflicts(show)
             THEN Least(dwell[<<"CONFLICT", p>>] + 1, ConflictDwell)
             ELSE 0
<1>1. <<"CONFLICT", p>> \in Found(want, show, cmd, lit) <=> p \in Conflicts(show)
  BY DEF Found, LampFaults
<1>2. <<"CONFLICT", p>> \in PassedOver(heard) <=> p \notin config.conflicts
  BY DEF PassedOver
<1>3. QED
  BY <1>1, <1>2, PairIsWatched DEF DwellAfter

-----------------------------------------------------------------------------
(* Types *)

LEMMA NoDwellType ==
  NoDwell \in [Watch -> Nat] /\ \A w \in Watch : NoDwell[w] <= Threshold(w)
BY ThresholdType DEF NoDwell

LEMMA InitialTypes ==
  /\ NoTime \in [Channel -> 0..MaxYellow]
  /\ NoTime \in [Channel -> Nat]
  /\ NoTime \in [Channel -> 0..MaxAge]
  /\ NoColor \in [Channel -> Color \cup {"NONE"}]
  /\ NotTogether \in [Pair -> 0..ConflictDwell]
  /\ NoColors \in [Channel -> SUBSET Color]
<1>1. 0 \in 0..MaxYellow /\ 0 \in 0..MaxAge /\ 0 \in 0..ConflictDwell
  BY ConstantTypes
<1>2. QED
  BY <1>1 DEF NoTime, NoColor, NotTogether, NoColors

LEMMA TypeInit == HInit => HTypeOK
<1> SUFFICES ASSUME HInit PROVE HTypeOK
  OBVIOUS
<1>1. TypeOK
  BY NoDwellType, InitialTypes DEF HInit, Init, TypeOK
<1>2. QED
  BY <1>1, InitialTypes DEF HTypeOK, HInit

LEMMA ConfigTypes ==
  ASSUME TypeOK, config # NotConfigured
  PROVE  /\ config \in Configs
         /\ config.redClear \in [Channel -> Nat]
         /\ config.minYellow \in [Channel -> 0..MaxYellow]
         /\ config.map \in [Output -> (Channel \X Color) \cup {Unassigned}]
BY ConfigAssumption DEF TypeOK

LEMMA DwellAfterType ==
  ASSUME TypeOK, NEW ACTION found, NEW passed
  PROVE  /\ DwellAfter(found, passed) \in [Watch -> Nat]
         /\ \A w \in Watch : DwellAfter(found, passed)[w] <= Threshold(w)
<1>1. ASSUME NEW w \in Watch
      PROVE  LET d == IF w \in passed THEN dwell[w]
                      ELSE IF w \in found THEN Least(dwell[w] + 1, Threshold(w)) ELSE 0
             IN  d \in Nat /\ d <= Threshold(w)
  BY ThresholdType DEF TypeOK, Least
<1>2. QED
  BY <1>1 DEF DwellAfter

LEMMA MonitorType ==
  ASSUME TypeOK, config # NotConfigured, NEW heard, Monitor(heard)
  PROVE  /\ dwell' \in [Watch -> Nat] /\ \A w \in Watch : dwell'[w] <= Threshold(w)
         /\ yellowTicks' \in [Channel -> 0..MaxYellow]
         /\ clearance' \in [Channel -> Nat]
         /\ lastColor' \in [Channel -> Color \cup {"NONE"}]
         /\ initialized' \in BOOLEAN
<1>1. PICK want \in {Resolve(commanded')}, show \in {Resolve(voltage')} :
      \E found \in {Found(want, show, commanded', voltage')}, passed \in {PassedOver(heard)} :
        /\ dwell' = DwellAfter(found, passed)
        /\ yellowTicks' = YellowAfter(show)
        /\ lastColor' = [c \in Channel |-> Dominant(show, c)]
        /\ initialized' = TRUE
        /\ clearance' = IF initialized THEN ClearanceAfter(show) ELSE clearance
  BY DEF Monitor
<1>2. dwell' \in [Watch -> Nat] /\ \A w \in Watch : dwell'[w] <= Threshold(w)
  BY <1>1, DwellAfterType
<1>3. yellowTicks' \in [Channel -> 0..MaxYellow]
  <2>1. ASSUME NEW c \in Channel
        PROVE  Least(yellowTicks[c] + 1, MaxYellow) \in 0..MaxYellow /\ 0 \in 0..MaxYellow
    BY ConstantTypes DEF TypeOK, Least
  <2>2. QED
    BY <1>1, <2>1 DEF YellowAfter
<1>4. clearance' \in [Channel -> Nat]
  <2>1. ASSUME NEW c \in Channel
        PROVE  /\ config.redClear[c] \in Nat
               /\ (IF clearance[c] > 0 THEN clearance[c] - 1 ELSE 0) \in Nat
    BY ConfigTypes DEF TypeOK
  <2>2. ClearanceAfter(show) \in [Channel -> Nat]
    BY <2>1 DEF ClearanceAfter
  <2>3. QED
    BY <1>1, <2>2 DEF TypeOK
<1>5. lastColor' \in [Channel -> Color \cup {"NONE"}]
  BY <1>1 DEF Dominant, Color
<1>6. QED
  BY <1>1, <1>2, <1>3, <1>4, <1>5

LEMMA WindowType ==
  ASSUME TypeOK, NEW heard, Window(heard)
  PROVE  commanded' \in Image \cup {{}} /\ voltage' \subseteq Output
BY DEF TypeOK, Window

LEMMA TypeNext == HTypeOK /\ [HNext]_hvars => HTypeOK'
<1> SUFFICES ASSUME HTypeOK, [HNext]_hvars PROVE HTypeOK'
  OBVIOUS
<1>1. ASSUME Tick, Record PROVE HTypeOK'
  <2>1. PICK heard \in SUBSET Ssm : Window(heard) /\ Monitor(heard) /\ UNCHANGED config
    BY <1>1 DEF Tick
  <2>2. config # NotConfigured
    BY <1>1 DEF Tick
  <2>3. TypeOK'
    BY <2>1, <2>2, WindowType, MonitorType DEF HTypeOK, TypeOK
  <2>4. together' \in [Pair -> 0..ConflictDwell]
    <3>1. ASSUME NEW p \in Pair
          PROVE  Least(together[p] + 1, ConflictDwell) \in 0..ConflictDwell
                 /\ 0 \in 0..ConflictDwell
      BY ConstantTypes DEF HTypeOK, Least
    <3>2. QED
      BY <1>1, <3>1 DEF Record
  <2>5. alarmed' \subseteq Pair
    BY <1>1 DEF Record, HTypeOK
  <2>6. shown' \in [Channel -> SUBSET Color]
    BY <1>1 DEF Record, Lit
  <2>7. before' \in [Channel -> SUBSET Color]
    BY <1>1 DEF Record, HTypeOK
  <2>8. age' \in [Channel -> 0..MaxAge]
    <3>1. ASSUME NEW c \in Channel
          PROVE  Least(age[c] + 1, MaxAge) \in 0..MaxAge /\ 1 \in 0..MaxAge
      BY ConstantTypes, MaxAgeAssumption DEF HTypeOK, Least
    <3>2. QED
      BY <1>1, <3>1 DEF Record
  <2>9. replaced' \in BOOLEAN /\ lawful' \in BOOLEAN
    <3>1. lawful' \in BOOLEAN
      BY <1>1 DEF Record
    <3>2. QED
      BY <1>1, <3>1 DEF Record, HTypeOK
  <2>10. QED
    BY <2>3, <2>4, <2>5, <2>6, <2>7, <2>8, <2>9 DEF HTypeOK
<1>2. ASSUME TickUnconfigured, UNCHANGED historyVars PROVE HTypeOK'
  BY <1>2, WindowType DEF TickUnconfigured, HTypeOK, TypeOK, historyVars
<1>3. ASSUME ApplyConfig, replaced' = (replaced \/ config # NotConfigured),
             UNCHANGED <<together, alarmed, shown, before, age, lawful>>
      PROVE  HTypeOK'
  BY <1>3 DEF ApplyConfig, busVars, monitorVars, HTypeOK, TypeOK
<1>4. ASSUME Restart, together' = NotTogether, alarmed' = {},
             shown' = NoColors, before' = NoColors, age' = NoTime,
             replaced' = FALSE, lawful' = TRUE
      PROVE  HTypeOK'
  <2>1. TypeOK'
    BY <1>4, NoDwellType, InitialTypes DEF Restart, TypeOK
  <2>2. QED
    BY <1>4, <2>1, InitialTypes DEF HTypeOK
<1>5. CASE UNCHANGED hvars
  BY <1>5 DEF hvars, vars, busVars, monitorVars, historyVars, HTypeOK, TypeOK
<1>6. QED
  BY <1>1, <1>2, <1>3, <1>4, <1>5 DEF HNext

\* The types of all variables, for any instance (all of ChannelMonitors).
THEOREM MonitorTypes == HSpec => []TypeOK
<1>1. HTypeOK => TypeOK
  BY DEF HTypeOK
<1>2. QED
  BY <1>1, TypeInit, TypeNext, PTL DEF HSpec

-----------------------------------------------------------------------------
(* Conflicts *)

\* What a period does to a pair's count, and what it reports of the pair.
LEMMA TickOnPair ==
  ASSUME HTypeOK, Tick, Record, NEW p \in Pair
  PROVE  LET count == dwell[<<"CONFLICT", p>>]
         IN  /\ count' = IF p \notin config.conflicts THEN count
                         ELSE IF LitTogether(p) THEN Least(count + 1, ConflictDwell)
                         ELSE 0
             /\ together'[p] = IF p \in config.conflicts /\ LitTogether(p)
                               THEN Least(together[p] + 1, ConflictDwell) ELSE 0
             /\ p \in alarmed' <=>
                  p \in alarmed \/ (count < ConflictDwell /\ count' = ConflictDwell)
<1> DEFINE w == <<"CONFLICT", p>>
<1>1. PICK heard \in SUBSET Ssm : Monitor(heard)
  BY DEF Tick
<1>2. dwell' = DwellAfter(Found(Resolve(commanded'), Resolve(voltage'), commanded', voltage'),
                          PassedOver(heard))
  BY <1>1 DEF Monitor
<1>3. dwell'[w] = IF p \notin config.conflicts THEN dwell[w]
                  ELSE IF p \in Conflicts(Resolve(voltage'))
                  THEN Least(dwell[w] + 1, ConflictDwell) ELSE 0
  BY <1>2, CountOfPair
<1>4. dwell'[w] = IF p \notin config.conflicts THEN dwell[w]
                  ELSE IF LitTogether(p) THEN Least(dwell[w] + 1, ConflictDwell) ELSE 0
  BY <1>3, ConflictsAreTogether
<1>5. w \in emitted' <=> w \in Reached
  BY <1>1 DEF Monitor
<1>6. w \in Reached <=> dwell[w] < ConflictDwell /\ dwell'[w] = ConflictDwell
  BY PairIsWatched DEF Reached
<1>7. p \in alarmed' <=> p \in alarmed \/ w \in emitted'
  BY DEF Record
<1>8. together'[p] = IF p \in config.conflicts /\ LitTogether(p)
                     THEN Least(together[p] + 1, ConflictDwell) ELSE 0
  BY DEF Record
<1>9. QED
  BY <1>4, <1>5, <1>6, <1>7, <1>8

\* Before the first configuration nothing is counted.
LEMMA ConflictInit == HInit => ConflictInv
<1>1. ASSUME HInit, NEW p \in Pair
      PROVE  together[p] = 0 /\ dwell[<<"CONFLICT", p>>] = 0
  BY <1>1, PairIsWatched DEF HInit, Init, NotTogether, NoDwell
<1>2. ConflictDwell # 0 /\ 0 <= 0
  BY ConstantTypes
<1>3. QED
  BY <1>1, <1>2 DEF ConflictInv

LEMMA ConflictNext ==
  HTypeOK /\ ConflictInv /\ [HNext]_hvars => ConflictInv'
<1> SUFFICES ASSUME HTypeOK, ConflictInv, [HNext]_hvars PROVE ConflictInv'
  OBVIOUS
<1>1. ASSUME Tick, Record PROVE ConflictInv'
  <2> SUFFICES ASSUME NEW p \in Pair
               PROVE  LET count == dwell'[<<"CONFLICT", p>>]
                      IN  /\ together'[p] <= count
                          /\ count = ConflictDwell => p \in alarmed'
                          /\ ~replaced' => together'[p] = count
                          /\ ~replaced' /\ (config' = NotConfigured \/ p \notin config'.conflicts)
                             => count = 0
    BY DEF ConflictInv
  <2> DEFINE count == dwell[<<"CONFLICT", p>>]
  <2>1. config' = config /\ config # NotConfigured /\ replaced' = replaced
    BY <1>1 DEF Tick, Record
  <2>2. /\ dwell'[<<"CONFLICT", p>>]
              = IF p \notin config.conflicts THEN count
                ELSE IF LitTogether(p) THEN Least(count + 1, ConflictDwell) ELSE 0
        /\ together'[p] = IF p \in config.conflicts /\ LitTogether(p)
                          THEN Least(together[p] + 1, ConflictDwell) ELSE 0
        /\ p \in alarmed' <=>
             p \in alarmed \/ (count < ConflictDwell /\ dwell'[<<"CONFLICT", p>>] = ConflictDwell)
    BY <1>1, TickOnPair
  <2>3. /\ count \in Nat /\ count <= ConflictDwell
        /\ together[p] \in Nat
        /\ ConflictDwell \in Nat \ {0}
    BY PairIsWatched, ConstantTypes DEF HTypeOK, TypeOK
  <2>4. /\ together[p] <= count
        /\ count = ConflictDwell => p \in alarmed
        /\ ~replaced => together[p] = count
        /\ ~replaced /\ (config = NotConfigured \/ p \notin config.conflicts) => count = 0
    BY DEF ConflictInv
  <2> HIDE DEF count
  <2>5. QED
    BY <2>1, <2>2, <2>3, <2>4 DEF Least
<1>2. ASSUME TickUnconfigured, UNCHANGED historyVars PROVE ConflictInv'
  BY <1>2 DEF TickUnconfigured, historyVars, ConflictInv
<1>3. ASSUME ApplyConfig, replaced' = (replaced \/ config # NotConfigured),
             UNCHANGED <<together, alarmed, shown, before, age, lawful>>
      PROVE  ConflictInv'
  BY <1>3 DEF ApplyConfig, monitorVars, ConflictInv
<1>4. ASSUME Restart, together' = NotTogether
      PROVE  ConflictInv'
  <2>1. \A p \in Pair : together'[p] = 0 /\ dwell'[<<"CONFLICT", p>>] = 0
    BY <1>4, PairIsWatched DEF Restart, NotTogether, NoDwell
  <2>2. ConflictDwell # 0 /\ 0 <= 0
    BY ConstantTypes
  <2>3. QED
    BY <2>1, <2>2 DEF ConflictInv
<1>5. CASE UNCHANGED hvars
  BY <1>5 DEF hvars, vars, monitorVars, historyVars, ConflictInv
<1>6. QED
  BY <1>1, <1>2, <1>3, <1>4, <1>5 DEF HNext

\* Every conflict that lasts is caught, whatever configurations were replaced and
\* whatever the cards reported (ConflictMonitorTick).
THEOREM ConflictsAreCaught == HSpec => []ConflictCaught
<1>1. HTypeOK /\ ConflictInv => ConflictCaught
  <2> SUFFICES ASSUME HTypeOK, ConflictInv, NEW p \in Pair, together[p] = ConflictDwell
               PROVE  p \in alarmed
    BY DEF ConflictCaught
  <2>1. /\ together[p] <= dwell[<<"CONFLICT", p>>]
        /\ dwell[<<"CONFLICT", p>>] \in Nat /\ dwell[<<"CONFLICT", p>>] <= ConflictDwell
    BY PairIsWatched DEF ConflictInv, HTypeOK, TypeOK
  <2>2. QED
    BY <2>1, ConstantTypes DEF ConflictInv
<1>2. QED
  BY <1>1, TypeInit, TypeNext, ConflictInit, ConflictNext, PTL DEF HSpec

\* No pair is reported that was not lit together for as long, unless a configuration
\* was replaced (ConflictMonitorTick).
THEOREM ConflictsAreJustified == HSpec => ConflictJustified
<1> DEFINE Justified == \A p \in alarmed' \ alarmed : together'[p] = ConflictDwell \/ replaced
<1>1. HTypeOK /\ ConflictInv /\ ConflictInv' /\ [HNext]_hvars => [Justified]_hvars
  <2> SUFFICES ASSUME HTypeOK, ConflictInv, ConflictInv', HNext,
                      NEW p \in alarmed' \ alarmed, ~replaced
               PROVE  together'[p] = ConflictDwell
    BY DEF Justified
  <2>1. CASE Tick /\ Record
    <3>1. p \in Pair
      BY <2>1 DEF Record, HTypeOK
    <3>2. dwell'[<<"CONFLICT", p>>] = ConflictDwell
      BY <2>1, <3>1, TickOnPair
    <3>3. ~replaced'
      BY <2>1 DEF Record
    <3>4. QED
      BY <3>1, <3>2, <3>3 DEF ConflictInv
  <2>2. CASE ~(Tick /\ Record)
    BY <2>2 DEF HNext, historyVars
  <2>3. QED
    BY <2>1, <2>2
<1> HIDE DEF Justified
<1>2. HSpec => [][Justified]_hvars
  BY <1>1, TypeInit, TypeNext, ConflictInit, ConflictNext, PTL DEF HSpec
<1>3. QED
  BY <1>2 DEF Justified, ConflictJustified

-----------------------------------------------------------------------------
(* Times *)

\* The dominant colour of a set of colours
Strongest(colors) == IF "GREEN" \in colors THEN "GREEN"
                     ELSE IF "YELLOW" \in colors THEN "YELLOW"
                     ELSE IF "RED" \in colors THEN "RED" ELSE "NONE"

\* While the configuration has not been replaced, the monitors' times are the ages of
\* what the channels show: of a yellow, and of a red that follows a yellow.
TimesOf(c) ==
  /\ lastColor[c] = Strongest(shown[c])
  /\ yellowTicks[c] = IF shown[c] = {"YELLOW"} THEN Least(age[c], MaxYellow) ELSE 0
  /\ shown[c] = {"YELLOW"} => age[c] >= 1
  /\ shown[c] = {"RED"} /\ before[c] = {"YELLOW"} =>
       /\ age[c] >= 1
       /\ clearance[c] = IF age[c] <= config.redClear[c]
                         THEN config.redClear[c] + 1 - age[c] ELSE 0

\* Before the first period no channel shows anything and no time runs.
TimingInv ==
  /\ config = NotConfigured => ~initialized
  /\ ~initialized => shown = NoColors /\ yellowTicks = NoTime
                     /\ clearance = NoTime /\ lastColor = NoColor
  /\ ~replaced => \A c \in Channel : TimesOf(c)

LEMMA DominantIsStrongest ==
  ASSUME NEW ACTION show, NEW c
  PROVE  /\ Dominant(show, c) = Strongest(Lit(show, c))
         /\ Permissive(show, c) <=> Lit(show, c) \cap {"GREEN", "YELLOW"} # {}
BY DEF Dominant, Permissive, Strongest, Lit, Color

LEMMA StrongestOf ==
  ASSUME NEW colors \in SUBSET Color
  PROVE  /\ Strongest(colors) = "NONE" <=> colors = {}
         /\ Strongest(colors) = "RED" <=> colors = {"RED"}
         /\ colors = {"YELLOW"} => Strongest(colors) = "YELLOW"
         /\ Strongest({}) = "NONE" /\ Strongest({"RED"}) = "RED"
         /\ Strongest({"YELLOW"}) = "YELLOW" /\ Strongest({"GREEN"}) = "GREEN"
BY DEF Strongest, Color

\* A period of monitoring and of its record, the parts that are about times.
LEMMA TickOnChannel ==
  ASSUME Tick, Record, NEW c \in Channel
  PROVE  LET now == Lit(Resolve(voltage'), c)
         IN  /\ now \in SUBSET Color
             /\ shown'[c] = now
             /\ before'[c] = IF now = shown[c] THEN before[c] ELSE shown[c]
             /\ age'[c] = IF now = shown[c] THEN Least(age[c] + 1, MaxAge) ELSE 1
             /\ lastColor'[c] = Strongest(now)
             /\ yellowTicks'[c] = IF now = {"YELLOW"} THEN Least(yellowTicks[c] + 1, MaxYellow)
                                  ELSE 0
             /\ clearance'[c] =
                  IF ~initialized THEN clearance[c]
                  ELSE IF lastColor[c] = "YELLOW" /\ Strongest(now) = "RED"
                  THEN config.redClear[c]
                  ELSE IF clearance[c] > 0 THEN clearance[c] - 1 ELSE 0
<1> DEFINE show == Resolve(voltage')
           now == Lit(show, c)
<1>1. PICK heard \in SUBSET Ssm : Monitor(heard)
  BY DEF Tick
<1>2. /\ yellowTicks' = YellowAfter(show)
      /\ lastColor' = [d \in Channel |-> Dominant(show, d)]
      /\ clearance' = IF initialized THEN ClearanceAfter(show) ELSE clearance
  BY <1>1 DEF Monitor
<1>3. Dominant(show, c) = Strongest(now)
  BY DominantIsStrongest
<1>4. shown'[c] = now
  BY DEF Record
<1>5. /\ before'[c] = IF now = shown[c] THEN before[c] ELSE shown[c]
      /\ age'[c] = IF now = shown[c] THEN Least(age[c] + 1, MaxAge) ELSE 1
  BY <1>4 DEF Record
<1>6. now \in SUBSET Color
  BY DEF Lit
<1>7. yellowTicks'[c] = IF now = {"YELLOW"} THEN Least(yellowTicks[c] + 1, MaxYellow) ELSE 0
  BY <1>2 DEF YellowAfter
<1>8. lastColor'[c] = Strongest(now)
  BY <1>2, <1>3
<1>9. clearance'[c] =
        IF ~initialized THEN clearance[c]
        ELSE IF lastColor[c] = "YELLOW" /\ Strongest(now) = "RED" THEN config.redClear[c]
        ELSE IF clearance[c] > 0 THEN clearance[c] - 1 ELSE 0
  BY <1>2, <1>3 DEF ClearanceAfter
<1>10. QED
  BY <1>4, <1>5, <1>6, <1>7, <1>8, <1>9

LEMMA NothingShownYet ==
  ASSUME shown = NoColors, yellowTicks = NoTime, clearance = NoTime, lastColor = NoColor,
         NEW c \in Channel
  PROVE  TimesOf(c)
<1>1. shown[c] = {} /\ yellowTicks[c] = 0 /\ lastColor[c] = "NONE"
  BY DEF NoColors, NoTime, NoColor
<1>2. QED
  BY <1>1, StrongestOf DEF TimesOf

LEMMA TimingInit == HInit => TimingInv
BY NothingShownYet DEF HInit, Init, TimingInv

LEMMA TimesOfNext ==
  ASSUME HTypeOK, TimingInv, Tick, Record, ~replaced, NEW c \in Channel
  PROVE  TimesOf(c)'
<1> DEFINE now == Lit(Resolve(voltage'), c)
           colour == shown[c]
           old == before[c]
           ticks == yellowTicks[c]
           years == age[c]
           left == clearance[c]
           clear == config.redClear[c]
           last == lastColor[c]
<1>1. /\ now \in SUBSET Color
      /\ shown'[c] = now
      /\ before'[c] = IF now = colour THEN old ELSE colour
      /\ age'[c] = IF now = colour THEN Least(years + 1, MaxAge) ELSE 1
      /\ lastColor'[c] = Strongest(now)
      /\ yellowTicks'[c] = IF now = {"YELLOW"} THEN Least(ticks + 1, MaxYellow) ELSE 0
      /\ clearance'[c] = IF ~initialized THEN left
                         ELSE IF last = "YELLOW" /\ Strongest(now) = "RED" THEN clear
                         ELSE IF left > 0 THEN left - 1 ELSE 0
  BY TickOnChannel
<1>2. /\ colour \in SUBSET Color
      /\ years \in 0..MaxAge /\ left \in Nat /\ ticks \in Nat
      /\ MaxAge \in Nat /\ MaxYellow \in Nat \ {0} /\ MaxYellow <= MaxAge
  BY ConstantTypes, MaxAgeAssumption DEF HTypeOK, TypeOK
<1>3. config' = config /\ config \in Configs /\ clear \in Nat /\ clear < MaxAge
  BY ConfigTypes, MaxAgeAssumption DEF Tick, HTypeOK
<1>4. /\ last = Strongest(colour)
      /\ ticks = IF colour = {"YELLOW"} THEN Least(years, MaxYellow) ELSE 0
      /\ colour = {"YELLOW"} => years >= 1
      /\ colour = {"RED"} /\ old = {"YELLOW"} =>
           years >= 1 /\ left = IF years <= clear THEN clear + 1 - years ELSE 0
      /\ ~initialized => colour = {}
  BY DEF TimingInv, TimesOf, NoColors
<1>5. /\ Strongest(colour) = "RED" <=> colour = {"RED"}
      /\ Strongest(now) = "RED" <=> now = {"RED"}
      /\ colour = {"YELLOW"} => Strongest(colour) = "YELLOW"
  BY <1>1, <1>2, StrongestOf
<1> HIDE DEF now, colour, old, ticks, years, left, clear, last
<1>6. lastColor'[c] = Strongest(shown'[c])
  BY <1>1
<1>7. /\ yellowTicks'[c] = IF shown'[c] = {"YELLOW"} THEN Least(age'[c], MaxYellow) ELSE 0
      /\ shown'[c] = {"YELLOW"} => age'[c] >= 1
  <2>1. CASE now # {"YELLOW"}
    BY <2>1, <1>1
  <2>2. CASE now = {"YELLOW"} /\ colour = now
    BY <2>2, <1>1, <1>2, <1>4 DEF Least
  <2>3. CASE now = {"YELLOW"} /\ colour # now
    BY <2>3, <1>1, <1>2, <1>4 DEF Least
  <2>4. QED
    BY <2>1, <2>2, <2>3
<1>8. ASSUME shown'[c] = {"RED"}, before'[c] = {"YELLOW"}
      PROVE  /\ age'[c] >= 1
             /\ clearance'[c] = IF age'[c] <= clear THEN clear + 1 - age'[c] ELSE 0
  <2>1. now = {"RED"} /\ Strongest(now) = "RED"
    BY <1>1, <1>5, <1>8
  <2>2. CASE colour = now
    <3>1. old = {"YELLOW"} /\ last # "YELLOW" /\ initialized
      BY <2>1, <2>2, <1>1, <1>4, <1>5, <1>8
    <3>2. /\ age'[c] = Least(years + 1, MaxAge)
          /\ clearance'[c] = IF left > 0 THEN left - 1 ELSE 0
          /\ years >= 1 /\ left = IF years <= clear THEN clear + 1 - years ELSE 0
      BY <2>1, <2>2, <3>1, <1>1, <1>4
    <3>3. QED
      BY <3>2, <1>2, <1>3 DEF Least
  <2>3. CASE colour # now
    <3>1. colour = {"YELLOW"} /\ last = "YELLOW" /\ initialized /\ age'[c] = 1
      BY <2>3, <1>1, <1>4, <1>5, <1>8
    <3>2. clearance'[c] = clear
      BY <2>1, <3>1, <1>1
    <3>3. QED
      BY <3>1, <3>2, <1>3
  <2>4. QED
    BY <2>2, <2>3
<1>9. config'.redClear[c] = clear
  BY <1>3 DEF clear
<1>10. QED
  BY <1>6, <1>7, <1>8, <1>9 DEF TimesOf

LEMMA TimingNext == HTypeOK /\ TimingInv /\ [HNext]_hvars => TimingInv'
<1> SUFFICES ASSUME HTypeOK, TimingInv, [HNext]_hvars PROVE TimingInv'
  OBVIOUS
<1>1. ASSUME Tick, Record PROVE TimingInv'
  <2>1. config' # NotConfigured /\ initialized' /\ replaced' = replaced
    BY <1>1 DEF Tick, Monitor, Record
  <2>2. ~replaced' => \A c \in Channel : TimesOf(c)'
    BY <1>1, <2>1, TimesOfNext
  <2>3. QED
    BY <2>1, <2>2 DEF TimingInv
<1>2. ASSUME TickUnconfigured, UNCHANGED historyVars PROVE TimingInv'
  BY <1>2 DEF TickUnconfigured, historyVars, TimingInv, TimesOf
<1>3. ASSUME ApplyConfig, replaced' = (replaced \/ config # NotConfigured),
             UNCHANGED <<together, alarmed, shown, before, age, lawful>>
      PROVE  TimingInv'
  <2>1. UNCHANGED <<yellowTicks, clearance, lastColor, initialized>>
    BY <1>3 DEF ApplyConfig, monitorVars
  <2>2. ~replaced' => ~initialized
    BY <1>3 DEF TimingInv, HTypeOK
  <2>3. config' # NotConfigured
    BY <1>3, NotConfiguredAssumption DEF ApplyConfig
  <2>4. ~initialized' => /\ shown' = NoColors /\ yellowTicks' = NoTime
                         /\ clearance' = NoTime /\ lastColor' = NoColor
    BY <2>1, <1>3 DEF TimingInv
  <2>5. ~replaced' => \A c \in Channel : TimesOf(c)'
    <3>1. ASSUME ~replaced', NEW c \in Channel PROVE TimesOf(c)'
      <4>1. shown'[c] = {} /\ yellowTicks'[c] = 0 /\ lastColor'[c] = "NONE"
        BY <3>1, <2>1, <2>2, <2>4 DEF NoColors, NoTime, NoColor
      <4>2. QED
        BY <4>1, StrongestOf DEF TimesOf
    <3>2. QED
      BY <3>1
  <2>6. QED
    BY <2>3, <2>4, <2>5 DEF TimingInv
<1>4. ASSUME Restart, shown' = NoColors PROVE TimingInv'
  <2>1. /\ yellowTicks' = NoTime /\ clearance' = NoTime /\ lastColor' = NoColor
        /\ initialized' = FALSE
    BY <1>4 DEF Restart
  <2>2. ASSUME NEW c \in Channel PROVE TimesOf(c)'
    <3>1. shown'[c] = {} /\ yellowTicks'[c] = 0 /\ lastColor'[c] = "NONE"
      BY <1>4, <2>1 DEF NoColors, NoTime, NoColor
    <3>2. QED
      BY <3>1, StrongestOf DEF TimesOf
  <2>3. QED
    BY <1>4, <2>1, <2>2 DEF TimingInv
<1>5. CASE UNCHANGED hvars
  BY <1>5 DEF hvars, vars, monitorVars, historyVars, TimingInv, TimesOf
<1>6. QED
  BY <1>1, <1>2, <1>3, <1>4, <1>5 DEF HNext

\* Short yellows and short clearances are reported (MinYellowMonitorTick,
\* ClearanceMonitorTick), whatever the times of the configuration.
THEOREM TimingIsCaught == HSpec => TimingCaught
<1> DEFINE Short(c) == /\ shown[c] = {"YELLOW"} /\ shown'[c] # {"YELLOW"}
                       /\ age[c] < config.minYellow[c]
           Soon(c, d) == /\ before'[c] = {"YELLOW"} /\ shown'[c] = {"RED"}
                         /\ age'[c] <= config.redClear[c]
                         /\ shown'[d] \cap {"GREEN", "YELLOW"} # {}
           Caught ==
             shown' # shown \/ age' # age =>
               \A c \in Channel : ~replaced /\ initialized /\ initialized' =>
                 /\ /\ shown[c] = {"YELLOW"} /\ shown'[c] # {"YELLOW"}
                    /\ age[c] < config.minYellow[c]
                    => <<"MIN_YELLOW_SHORT", c>> \in emitted'
                 /\ \A p \in config.conflicts \cap Pair : \A d \in p \ {c} :
                      /\ c \in p /\ before'[c] = {"YELLOW"} /\ shown'[c] = {"RED"}
                      /\ age'[c] <= config.redClear[c] /\ shown'[d] \cap {"GREEN", "YELLOW"} # {}
                      => <<"CLEARANCE_SHORT", p>> \in emitted'
<1>1. HTypeOK /\ HTypeOK' /\ TimingInv /\ TimingInv' /\ [HNext]_hvars => [Caught]_hvars
  <2> SUFFICES ASSUME HTypeOK, HTypeOK', TimingInv, TimingInv', HNext,
                      shown' # shown \/ age' # age,
                      NEW c \in Channel, ~replaced, initialized, initialized'
               PROVE  /\ Short(c) => <<"MIN_YELLOW_SHORT", c>> \in emitted'
                      /\ \A p \in config.conflicts \cap Pair : \A d \in p \ {c} :
                           c \in p /\ Soon(c, d) => <<"CLEARANCE_SHORT", p>> \in emitted'
    OBVIOUS
  <2>1. Tick /\ Record
    BY DEF HNext, historyVars, Restart
  <2>2. PICK heard \in SUBSET Ssm : Monitor(heard)
    BY <2>1 DEF Tick
  <2> DEFINE show == Resolve(voltage')
  <2>3. /\ ({"MIN_YELLOW_SHORT"} \X ShortYellows(show)) \subseteq emitted'
        /\ ({"CLEARANCE_SHORT"} \X ShortClearances(show)) \subseteq emitted'
    BY <2>2 DEF Monitor
  <2>4. config' = config /\ config # NotConfigured /\ ~replaced'
    BY <2>1 DEF Tick, Record
  <2>5. ASSUME Short(c) PROVE <<"MIN_YELLOW_SHORT", c>> \in emitted'
    <3>1. yellowTicks[c] = Least(age[c], MaxYellow) /\ age[c] >= 1 /\ age[c] \in Nat
      BY <2>5 DEF TimingInv, TimesOf, HTypeOK
    <3>2. config.minYellow[c] \in 0..MaxYellow /\ MaxYellow \in Nat \ {0}
      BY <2>4, ConfigTypes, ConstantTypes DEF HTypeOK
    <3>3. yellowTicks[c] > 0 /\ yellowTicks[c] < config.minYellow[c]
      BY <2>5, <3>1, <3>2 DEF Least
    <3>4. Lit(show, c) # {"YELLOW"}
      BY <2>1, <2>5, TickOnChannel
    <3>5. c \in ShortYellows(show)
      BY <3>3, <3>4 DEF ShortYellows
    <3>6. QED
      BY <2>3, <3>5
  <2>6. ASSUME NEW p \in config.conflicts \cap Pair, NEW d \in p \ {c}, c \in p, Soon(c, d)
        PROVE  <<"CLEARANCE_SHORT", p>> \in emitted'
    <3>1. d \in Channel
      BY DEF Pair
    <3>2. age'[c] \in Nat /\ config.redClear[c] \in Nat
      BY <2>4, ConfigTypes DEF HTypeOK
    <3>3. clearance'[c] = config.redClear[c] + 1 - age'[c]
      BY <2>4, <2>6 DEF TimingInv, TimesOf
    <3>4. clearance'[c] > 0
      BY <3>2, <3>3, <2>6
    <3>5. Permissive(show, d)
      BY <2>1, <2>6, <3>1, TickOnChannel, DominantIsStrongest
    <3>6. p \in ShortClearances(show)
      BY <2>6, <3>4, <3>5 DEF ShortClearances
    <3>7. QED
      BY <2>3, <3>6
  <2>7. QED
    BY <2>5, <2>6
<1> HIDE DEF Caught
<1>2. HSpec => [][Caught]_hvars
  BY <1>1, TypeInit, TypeNext, TimingInit, TimingNext, PTL DEF HSpec
<1>3. QED
  BY <1>2 DEF Caught, TimingCaught

-----------------------------------------------------------------------------
(* Lawful signals *)

\* While the signals are as they should be, each channel shows one colour once it has
\* shown any, and no clearance runs for a red that no yellow preceded.
LawfulOf(c) ==
  /\ shown[c] = {} \/ \E k \in Color : shown[c] = {k}
  /\ shown[c] = {} => clearance[c] = 0
  /\ shown[c] = {"RED"} /\ before[c] # {"YELLOW"} => clearance[c] = 0

LawfulInv ==
  lawful /\ ~replaced => emitted = {} /\ \A c \in Channel : LawfulOf(c)

LEMMA LawfulInit == HInit => LawfulInv
BY DEF HInit, Init, LawfulInv, LawfulOf, NoColors, NoTime

LEMMA LawfulOfNext ==
  ASSUME HTypeOK, TimingInv, LawfulInv, Tick, Record, ~replaced, lawful', NEW c \in Channel
  PROVE  LawfulOf(c)'
<1> DEFINE now == Lit(Resolve(voltage'), c)
           left == clearance[c]
<1>1. /\ now \in SUBSET Color
      /\ shown'[c] = now
      /\ before'[c] = IF now = shown[c] THEN before[c] ELSE shown[c]
      /\ clearance'[c] = IF ~initialized THEN left
                         ELSE IF lastColor[c] = "YELLOW" /\ Strongest(now) = "RED"
                         THEN config.redClear[c]
                         ELSE IF left > 0 THEN left - 1 ELSE 0
  BY TickOnChannel
<1>2. lawful /\ LawfulPeriod(Resolve(voltage'))
  BY DEF Record
<1>3. /\ (\E k \in Color : now = {k}) \/ (now = {} /\ shown[c] = {})
      /\ now # shown[c] => <<lastColor[c], Strongest(now)>> \in LegalTransition
  BY <1>2, DominantIsStrongest DEF LawfulPeriod
<1>4. LawfulOf(c)
  BY <1>2 DEF LawfulInv
<1>5. lastColor[c] = Strongest(shown[c]) /\ shown[c] \in SUBSET Color /\ left \in Nat
  BY DEF TimingInv, TimesOf, HTypeOK, TypeOK
<1> HIDE DEF now, left
<1>6. shown[c] = {} \/ shown[c] = {"RED"} => lastColor[c] # "YELLOW"
  BY <1>5, StrongestOf
<1>7. ASSUME shown[c] = {} PROVE clearance'[c] = 0
  BY <1>1, <1>4, <1>5, <1>6, <1>7 DEF LawfulOf, left
<1>8. ASSUME now = {"RED"}, before'[c] # {"YELLOW"} PROVE clearance'[c] = 0
  <2>1. CASE shown[c] = {}
    BY <1>7, <2>1
  <2>2. CASE shown[c] = {"RED"}
    <3>1. left = 0
      BY <1>1, <1>4, <1>8, <2>2 DEF LawfulOf, left
    <3>2. QED
      BY <1>1, <1>5, <1>6, <2>2, <3>1
  <2>3. shown[c] # {"YELLOW"}
    BY <1>1, <1>8
  <2>4. shown[c] # {"GREEN"}
    <3>1. SUFFICES ASSUME shown[c] = {"GREEN"} PROVE FALSE
      OBVIOUS
    <3>2. lastColor[c] = "GREEN" /\ Strongest(now) = "RED" /\ now # shown[c]
      BY <1>5, <1>8, <3>1, StrongestOf
    <3>3. <<"GREEN", "RED">> \in LegalTransition
      BY <1>3, <3>2
    <3>4. QED
      BY <3>3 DEF LegalTransition, Color
  <2>5. QED
    BY <2>1, <2>2, <2>3, <2>4, <1>4 DEF LawfulOf, Color
<1>9. QED
  BY <1>1, <1>3, <1>7, <1>8 DEF LawfulOf

\* In a lawful period no condition is found,
LEMMA LawfulFindsNothing ==
  ASSUME Tick, LawfulPeriod(Resolve(voltage'))
  PROVE  Found(Resolve(commanded'), Resolve(voltage'), commanded', voltage') = {}
<1> DEFINE show == Resolve(voltage')
<1>1. voltage' = commanded'
  BY DEF LawfulPeriod
<1>2. Conflicts(show) = {}
  <2>1. SUFFICES ASSUME NEW p \in Conflicts(show) PROVE FALSE
    OBVIOUS
  <2>2. p \in config.conflicts \cap Pair /\ \A c \in p : Permissive(show, c)
    BY DEF Conflicts
  <2>3. PICK c \in p, d \in p : c # d
    BY <2>2 DEF Pair
  <2>4. ~Permissive(show, c)
    BY <2>2, <2>3 DEF LawfulPeriod
  <2>5. QED
    BY <2>2, <2>4
<1>3. DualIndications(show) = {}
  <2>1. SUFFICES ASSUME NEW c \in Channel, Cardinality(Lit(show, c)) >= 2 PROVE FALSE
    BY DEF DualIndications
  <2>2. CASE \E k \in Color : Lit(show, c) = {k}
    <3>1. Cardinality(Lit(show, c)) = 1
      BY <2>2, FS_Singleton
    <3>2. QED
      BY <2>1, <3>1
  <2>3. CASE Lit(show, c) = {}
    <3>1. Cardinality(Lit(show, c)) = 0
      BY <2>3, FS_EmptySet
    <3>2. QED
      BY <2>1, <3>1
  <2>4. QED
    BY <2>2, <2>3 DEF LawfulPeriod
<1>4. RedFails(Resolve(commanded'), show) = {}
  BY <1>1 DEF RedFails, Lit
<1>5. DarkChannels(Resolve(commanded'), show) = {}
  BY <1>1 DEF DarkChannels
<1>6. LampFaults(commanded', voltage') = {}
  BY <1>1 DEF LampFaults
<1> HIDE DEF show
<1>7. Found(Resolve(commanded'), show, commanded', voltage') = {}
  BY <1>2, <1>3, <1>4, <1>5, <1>6 DEF Found
<1>8. QED
  BY <1>7 DEF show

\* no count is reached, no yellow, clearance or sequence is wrong: nothing is reported.
LEMMA LawfulPeriodIsSilent ==
  ASSUME HTypeOK, TimingInv, LawfulInv, Tick, Record, ~replaced, lawful'
  PROVE  emitted' = {}
<1> DEFINE show == Resolve(voltage')
<1>1. PICK heard \in SUBSET Ssm : Monitor(heard)
  BY DEF Tick
<1>2. /\ dwell' = DwellAfter(Found(Resolve(commanded'), show, commanded', voltage'),
                             PassedOver(heard))
      /\ emitted' = Reached \cup ({"MIN_YELLOW_SHORT"} \X ShortYellows(show))
                    \cup (IF ~initialized THEN {}
                          ELSE ({"CLEARANCE_SHORT"} \X ShortClearances(show))
                               \cup ({"SIGNAL_SEQUENCE"} \X IllegalSequences(show)))
  BY <1>1 DEF Monitor
<1>3. lawful /\ LawfulPeriod(show)
  BY DEF Record
<1>4. \A c \in Channel : LawfulOf(c) /\ TimesOf(c)
  BY <1>3 DEF LawfulInv, TimingInv
<1>5. config # NotConfigured
  BY DEF Tick
<1>6. Reached = {}
  <2>1. SUFFICES ASSUME NEW w \in Watch, dwell[w] < Threshold(w), dwell'[w] = Threshold(w)
                 PROVE  FALSE
    BY DEF Reached
  <2>2. dwell'[w] = IF w \in PassedOver(heard) THEN dwell[w] ELSE 0
    BY <1>2, <1>3, LawfulFindsNothing DEF DwellAfter
  <2>3. Threshold(w) \in Nat \ {0} /\ dwell[w] \in Nat
    BY ThresholdType DEF HTypeOK, TypeOK
  <2>4. QED
    BY <2>1, <2>2, <2>3
<1>7. ShortYellows(show) = {}
  <2>1. SUFFICES ASSUME NEW c \in Channel, Lit(show, c) # {"YELLOW"}, yellowTicks[c] > 0,
                        yellowTicks[c] < config.minYellow[c]
                 PROVE  FALSE
    BY DEF ShortYellows
  <2>2. shown[c] = {"YELLOW"} /\ yellowTicks[c] = Least(age[c], MaxYellow)
    BY <2>1, <1>4 DEF TimesOf
  <2>3. age[c] >= config.minYellow[c]
    BY <2>1, <2>2, <1>3 DEF LawfulPeriod
  <2>4. config.minYellow[c] \in 0..MaxYellow /\ MaxYellow \in Nat \ {0} /\ age[c] \in Nat
    BY <1>5, ConfigTypes, ConstantTypes DEF HTypeOK
  <2>5. QED
    BY <2>1, <2>2, <2>3, <2>4 DEF Least
<1>8. ASSUME initialized PROVE ShortClearances(show) = {}
  <2>1. SUFFICES ASSUME NEW p \in config.conflicts \cap Pair, NEW c \in p, clearance'[c] > 0,
                        NEW d \in p \ {c}, Permissive(show, d)
                 PROVE  FALSE
    BY DEF ShortClearances
  <2>2. c \in Channel
    BY DEF Pair
  <2>3. /\ ~Permissive(show, c)
        /\ shown[c] = {"YELLOW"} => config.redClear[c] = 0
        /\ before[c] = {"YELLOW"} => age[c] >= config.redClear[c]
    BY <2>1, <1>3 DEF LawfulPeriod
  <2> DEFINE now == Lit(show, c)
  <2>4. /\ now \in SUBSET Color
        /\ clearance'[c] = IF lastColor[c] = "YELLOW" /\ Strongest(now) = "RED"
                           THEN config.redClear[c]
                           ELSE IF clearance[c] > 0 THEN clearance[c] - 1 ELSE 0
    BY <1>8, <2>2, TickOnChannel
  <2>5. /\ shown[c] = {} \/ \E k \in Color : shown[c] = {k}
        /\ shown[c] = {} => clearance[c] = 0
        /\ shown[c] = {"RED"} /\ before[c] # {"YELLOW"} => clearance[c] = 0
        /\ lastColor[c] = Strongest(shown[c])
        /\ shown[c] = {"RED"} /\ before[c] = {"YELLOW"} =>
             clearance[c] = IF age[c] <= config.redClear[c]
                            THEN config.redClear[c] + 1 - age[c] ELSE 0
    BY <1>4, <2>2 DEF LawfulOf, TimesOf
  <2>6. clearance[c] \in Nat /\ age[c] \in Nat /\ config.redClear[c] \in Nat
    BY <1>5, <2>2, ConfigTypes DEF HTypeOK, TypeOK
  <2>7. \/ now = {} /\ shown[c] = {}
        \/ now = {"RED"}
    <3>1. now \cap {"GREEN", "YELLOW"} = {}
      BY <2>3, DominantIsStrongest
    <3>2. (\E k \in Color : now = {k}) \/ (now = {} /\ shown[c] = {})
      BY <1>3, <2>2 DEF LawfulPeriod
    <3>3. QED
      BY <3>1, <3>2 DEF Color
  <2>8. shown[c] # {"GREEN"}
    <3>1. SUFFICES ASSUME shown[c] = {"GREEN"} PROVE FALSE
      OBVIOUS
    <3>2. now = {"RED"} /\ lastColor[c] = "GREEN" /\ Dominant(show, c) = "RED"
      BY <2>5, <2>7, <3>1, StrongestOf, DominantIsStrongest
    <3>3. <<"GREEN", "RED">> \in LegalTransition
      BY <1>3, <2>2, <3>1, <3>2 DEF LawfulPeriod
    <3>4. QED
      BY <3>3 DEF LegalTransition, Color
  <2> HIDE DEF now
  <2>9. CASE shown[c] = {"YELLOW"}
    <3>1. now = {"RED"} /\ lastColor[c] = "YELLOW" /\ Strongest(now) = "RED"
      BY <2>5, <2>7, <2>9, StrongestOf
    <3>2. QED
      BY <2>1, <2>3, <2>4, <2>9, <3>1
  <2>10. CASE shown[c] = {}
    <3>1. lastColor[c] # "YELLOW" /\ clearance[c] = 0
      BY <2>5, <2>10, StrongestOf
    <3>2. QED
      BY <2>1, <2>4, <3>1
  <2>11. CASE shown[c] = {"RED"}
    <3>1. lastColor[c] # "YELLOW" /\ clearance[c] <= 1
      BY <2>3, <2>5, <2>6, <2>11, StrongestOf
    <3>2. QED
      BY <2>1, <2>4, <2>6, <3>1
  <2>12. QED
    BY <2>5, <2>8, <2>9, <2>10, <2>11 DEF Color
<1>9. IllegalSequences(show) = {}
  <2>1. SUFFICES ASSUME NEW c \in Channel, Dominant(show, c) # lastColor[c],
                        <<lastColor[c], Dominant(show, c)>> \notin LegalTransition
                 PROVE  FALSE
    BY DEF IllegalSequences
  <2>2. Lit(show, c) # shown[c]
    BY <2>1, <1>4, DominantIsStrongest DEF TimesOf
  <2>3. QED
    BY <2>1, <2>2, <1>3 DEF LawfulPeriod
<1> HIDE DEF show
<1>10. QED
  BY <1>2, <1>6, <1>7, <1>8, <1>9

LEMMA LawfulNext ==
  HTypeOK /\ TimingInv /\ LawfulInv /\ [HNext]_hvars => LawfulInv'
<1> SUFFICES ASSUME HTypeOK, TimingInv, LawfulInv, [HNext]_hvars PROVE LawfulInv'
  OBVIOUS
<1>1. ASSUME Tick, Record PROVE LawfulInv'
  <2>1. replaced' = replaced
    BY <1>1 DEF Record
  <2>2. lawful' /\ ~replaced => emitted' = {} /\ \A c \in Channel : LawfulOf(c)'
    BY <1>1, LawfulPeriodIsSilent, LawfulOfNext
  <2>3. QED
    BY <2>1, <2>2 DEF LawfulInv
<1>2. ASSUME TickUnconfigured, UNCHANGED historyVars PROVE LawfulInv'
  BY <1>2 DEF TickUnconfigured, historyVars, LawfulInv, LawfulOf
<1>3. ASSUME ApplyConfig, replaced' = (replaced \/ config # NotConfigured),
             UNCHANGED <<together, alarmed, shown, before, age, lawful>>
      PROVE  LawfulInv'
  BY <1>3 DEF ApplyConfig, monitorVars, LawfulInv, LawfulOf, HTypeOK
<1>4. ASSUME Restart, shown' = NoColors, before' = NoColors PROVE LawfulInv'
  BY <1>4 DEF Restart, LawfulInv, LawfulOf, NoColors, NoTime
<1>5. CASE UNCHANGED hvars
  BY <1>5 DEF hvars, vars, monitorVars, historyVars, LawfulInv, LawfulOf
<1>6. QED
  BY <1>1, <1>2, <1>3, <1>4, <1>5 DEF HNext

\* Signals that are as they should be are never reported, whatever the times of the
\* configuration: the counts of all eight monitors agree with them to the period.
THEOREM LawfulSignalsAreSilent == HSpec => []LawfulIsSilent
<1>1. LawfulInv => LawfulIsSilent
  BY DEF LawfulInv, LawfulIsSilent
<1>2. QED
  BY <1>1, TypeInit, TypeNext, TimingInit, TimingNext, LawfulInit, LawfulNext, PTL DEF HSpec
=============================================================================
