--------------------------- MODULE ChannelMonitors ---------------------------
(***************************************************************************)
(* The monitors of the signal channels in MP: eight of them look, once per *)
(* period, at the lamps CP commands and at those the signal cards (SSM)    *)
(* report lit.                                                             *)
(*   src/CPM/MP/App/Domain/Malfunction/{Conflict,DualIndication,           *)
(*     DarkChannel,RedFail,MinYellow,Clearance,SignalSequence,LampFault}-  *)
(*     Monitor.c                                                           *)
(*   src/CPM/MP/App/Domain/Intersection/ChannelStateResolver.c             *)
(*   src/CPM/MP/App/Domain/Malfunction/MalfunctionEngine.c (from line 265) *)
(* MalfunctionEngine takes what they find as an input; here it is          *)
(* computed.  Configurations are put in force between two periods, and the *)
(* monitors are not told.  The field bus brings commands and reports in    *)
(* any window; what it does not bring keeps its last value.                *)
(*                                                                         *)
(* A lamp output shows one colour of one channel, and several may show the *)
(* same.  The three codes of a conflict are one here, and so are the two   *)
(* directions in which a clearance can be too short.                       *)
(***************************************************************************)
EXTENDS Integers, FiniteSets

CONSTANTS
  Channel,
  Output,        \* indices of lamp outputs
  Ssm,           \* the signal cards
  CardOf,        \* the card an output belongs to
  Image,         \* the images that CP sends (sets of outputs); as it takes two
                 \* frames, mixtures of two are images as well
  Configs,       \* what MP may be given; see ConfigAssumption
  NotConfigured,
  ConflictDwell, DualDwell, DarkDwell, RedDwell, LampDwell,
  MaxYellow      \* no configuration asks for a longer yellow

Color == {"RED", "YELLOW", "GREEN"}
Unassigned == <<>>

ASSUME OutputsAssumption ==
  Output \subseteq Nat /\ IsFiniteSet(Output) /\ CardOf \in [Output -> Ssm]
ASSUME ImageAssumption == Image \subseteq SUBSET Output
ASSUME DwellAssumption ==
  {ConflictDwell, DualDwell, DarkDwell, RedDwell, LampDwell, MaxYellow} \subseteq Nat \ {0}

\* conflicts is symmetric (LoadConflictMatrixFromMasks); times are in periods.
ASSUME ConfigAssumption ==
  Configs \subseteq
    [map       : [Output -> (Channel \X Color) \cup {Unassigned}],
     conflicts : SUBSET {{c, d} : c \in Channel, d \in Channel},
     minYellow : [Channel -> 0..MaxYellow],
     redClear  : [Channel -> Nat]]

ASSUME NotConfiguredAssumption == NotConfigured \notin Configs

\* What is watched for a time: a condition and the pair, channel or output it is about.
Pair  == {p \in SUBSET Channel : \E c, d \in p : c # d /\ p = {c, d}}
Watch == ({"CONFLICT"} \X Pair)
         \cup ({"DUAL_INDICATION", "DARK_CHANNEL", "RED_FAIL"} \X Channel)
         \cup ({"LAMP_OPEN", "LAMP_DRIVEN"} \X Output)

Threshold(w) == CASE w[1] = "CONFLICT"        -> ConflictDwell
                  [] w[1] = "DUAL_INDICATION" -> DualDwell
                  [] w[1] = "DARK_CHANNEL"    -> DarkDwell
                  [] w[1] = "RED_FAIL"        -> RedDwell
                  [] OTHER                    -> LampDwell

VARIABLES
  config,       \* in force, or NotConfigured
  commanded,    \* the image CP sent last
  voltage,      \* outputs reported lit, each by the last report of its card
  dwell,        \* periods in a row a condition was found, up to its threshold
  yellowTicks,  \* MinYellowMonitor: periods of yellow, up to MaxYellow
  clearance,    \* ClearanceMonitor: periods of red still required
  lastColor,    \* dominant colours of the period before; NONE at first
  initialized,  \* there was a period before
  emitted       \* faults found in the last period, as <<code, source>>

busVars == <<commanded, voltage>>
monitorVars == <<dwell, yellowTicks, clearance, lastColor, initialized, emitted>>
vars == <<config, busVars, monitorVars>>

Least(a, b) == IF a < b THEN a ELSE b

-----------------------------------------------------------------------------
(* ChannelStateResolver *)

\* Wrong: the first of several outputs that show the same counts.
ResolveFirst(image) ==
  {config.map[o] : o \in {q \in image : /\ config.map[q] # Unassigned
                                        /\ \A r \in Output : r < q => config.map[r] # config.map[q]}}

\* The indications of an image, as <<channel, color>>.  Of several outputs with the
\* same indication the one with the highest index counts: each overwrites the bit.
Resolve(image) ==
  {config.map[o] : o \in {q \in image : /\ config.map[q] # Unassigned
                                        /\ \A r \in Output : r > q => config.map[r] # config.map[q]}}

Lit(show, c) == {k \in Color : <<c, k>> \in show}

Dominant(show, c) == IF <<c, "GREEN">> \in show THEN "GREEN"
                     ELSE IF <<c, "YELLOW">> \in show THEN "YELLOW"
                     ELSE IF <<c, "RED">> \in show THEN "RED" ELSE "NONE"

Permissive(show, c) == Dominant(show, c) \in {"GREEN", "YELLOW"}

-----------------------------------------------------------------------------
(* The monitors; want and show are the indications commanded and reported, *)
(* cmd and lit the outputs                                                 *)

\* Wrong: two yellows do not conflict.
ConflictsGreen(show) ==
  {p \in config.conflicts \cap Pair :
     /\ \A c \in p : Permissive(show, c)
     /\ \E c \in p : Dominant(show, c) = "GREEN"}

\* ClassifyConflict
Conflicts(show) == {p \in config.conflicts \cap Pair : \A c \in p : Permissive(show, c)}

DualIndications(show)    == {c \in Channel : Cardinality(Lit(show, c)) >= 2}
DarkChannels(want, show) == {c \in Channel : Lit(want, c) # {} /\ Lit(show, c) = {}}
RedFails(want, show)     == {c \in Channel : Lit(want, c) = {"RED"} /\ <<c, "RED">> \notin show}
LampFaults(cmd, lit)     == ({"LAMP_OPEN"} \X (cmd \ lit)) \cup ({"LAMP_DRIVEN"} \X (lit \ cmd))

\* The conditions that hold in this period.
Found(want, show, cmd, lit) ==
  ({"CONFLICT"} \X Conflicts(show))
  \cup ({"DUAL_INDICATION"} \X DualIndications(show))
  \cup ({"DARK_CHANNEL"} \X DarkChannels(want, show))
  \cup ({"RED_FAIL"} \X RedFails(want, show))
  \cup LampFaults(cmd, lit)

\* Conditions that are passed over, their counts kept: of pairs that do not conflict
\* and of outputs whose card was not heard in the window.
PassedOver(heard) ==
  ({"CONFLICT"} \X (Pair \ config.conflicts))
  \cup ({"LAMP_OPEN", "LAMP_DRIVEN"} \X {o \in Output : CardOf[o] \notin heard})

\* Wrong: the count is not started again when the condition is gone.
DwellAfterKept(found, passed) ==
  [w \in Watch |-> IF w \in passed \/ w \notin found THEN dwell[w]
                   ELSE Least(dwell[w] + 1, Threshold(w))]

\* A count beyond its threshold is never equal to it again.
DwellAfter(found, passed) ==
  [w \in Watch |-> IF w \in passed THEN dwell[w]
                   ELSE IF w \in found THEN Least(dwell[w] + 1, Threshold(w))
                   ELSE 0]

Reached == {w \in Watch : dwell[w] < Threshold(w) /\ dwell'[w] = Threshold(w)}

\* MinYellowMonitorTick: yellow alone is timed, and judged by the configuration in
\* force when it ends, whatever follows it.
YellowAfter(show) ==
  [c \in Channel |-> IF Lit(show, c) = {"YELLOW"} THEN Least(yellowTicks[c] + 1, MaxYellow)
                     ELSE 0]

\* Wrong: a yellow of exactly the minimum is too short.
ShortYellowsStrict(show) ==
  {c \in Channel : Lit(show, c) # {"YELLOW"} /\ yellowTicks[c] > 0
                   /\ yellowTicks[c] <= config.minYellow[c]}

ShortYellows(show) ==
  {c \in Channel : Lit(show, c) # {"YELLOW"} /\ yellowTicks[c] > 0
                   /\ yellowTicks[c] < config.minYellow[c]}

\* Wrong: the period in which the channel turns red is counted already.
ClearanceAfterEarly(show) ==
  [c \in Channel |->
     IF lastColor[c] = "YELLOW" /\ Dominant(show, c) = "RED"
     THEN IF config.redClear[c] > 0 THEN config.redClear[c] - 1 ELSE 0
     ELSE IF clearance[c] > 0 THEN clearance[c] - 1 ELSE 0]

\* Wrong: the count is not kept from passing zero.
ClearanceAfterBelow(show) ==
  [c \in Channel |->
     IF lastColor[c] = "YELLOW" /\ Dominant(show, c) = "RED" THEN config.redClear[c]
     ELSE clearance[c] - 1]

\* ClearanceMonitorTick; its first call only takes the colours down.
ClearanceAfter(show) ==
  [c \in Channel |->
     IF lastColor[c] = "YELLOW" /\ Dominant(show, c) = "RED" THEN config.redClear[c]
     ELSE IF clearance[c] > 0 THEN clearance[c] - 1 ELSE 0]

ShortClearances(show) ==
  {p \in config.conflicts \cap Pair :
     \E c \in p : clearance'[c] > 0 /\ \E d \in p \ {c} : Permissive(show, d)}

\* IsLegalTransition, between different colours
LegalTransition == {<<"RED", "GREEN">>, <<"GREEN", "YELLOW">>, <<"YELLOW", "RED">>}
                   \cup (Color \X {"NONE"}) \cup ({"NONE"} \X Color)

IllegalSequences(show) ==
  {c \in Channel : LET now == Dominant(show, c)
                   IN  now # lastColor[c] /\ <<lastColor[c], now>> \notin LegalTransition}

-----------------------------------------------------------------------------
(* Actions *)

NoDwell == [w \in Watch |-> 0]
NoTime  == [c \in Channel |-> 0]
NoColor == [c \in Channel |-> "NONE"]

\* MalfunctionEngineInit
Init ==
  /\ config = NotConfigured
  /\ commanded = {} /\ voltage = {}
  /\ dwell = NoDwell /\ yellowTicks = NoTime /\ clearance = NoTime
  /\ lastColor = NoColor /\ initialized = FALSE
  /\ emitted = {}

\* The window: cards heard report any lamps, and CP may send an image.
Window(heard) ==
  /\ commanded' \in {commanded} \cup Image
  /\ \E report \in SUBSET {o \in Output : CardOf[o] \in heard} :
       voltage' = report \cup {o \in voltage : CardOf[o] \notin heard}

\* MalfunctionEngineTick without a configuration in force: the monitors stand still.
TickUnconfigured ==
  /\ config = NotConfigured
  /\ \E heard \in SUBSET Ssm : Window(heard)
  /\ emitted' = {}
  /\ UNCHANGED <<config, dwell, yellowTicks, clearance, lastColor, initialized>>

\* MalfunctionEngineTick with one.  What the monitors look at is bound here once.
Monitor(heard) ==
  \E want \in {Resolve(commanded')}, show \in {Resolve(voltage')} :
    \E found \in {Found(want, show, commanded', voltage')}, passed \in {PassedOver(heard)} :
      /\ dwell' = DwellAfter(found, passed)
      /\ yellowTicks' = YellowAfter(show)
      /\ lastColor' = [c \in Channel |-> Dominant(show, c)]
      /\ initialized' = TRUE
      /\ clearance' = IF initialized THEN ClearanceAfter(show) ELSE clearance
      /\ emitted' =
           Reached
           \cup ({"MIN_YELLOW_SHORT"} \X ShortYellows(show))
           \cup (IF ~initialized THEN {}
                 ELSE ({"CLEARANCE_SHORT"} \X ShortClearances(show))
                      \cup ({"SIGNAL_SEQUENCE"} \X IllegalSequences(show)))

Tick ==
  /\ config # NotConfigured
  /\ \E heard \in SUBSET Ssm : Window(heard) /\ Monitor(heard)
  /\ UNCHANGED config

\* ApplyConfigImage: CP's image replaces the configuration.  One that does not pass is
\* refused by BuildIntersectionConfig, before anything is replaced.
ApplyConfig ==
  /\ config' \in Configs \ {config}
  /\ UNCHANGED <<busVars, monitorVars>>

\* MP restarts.
Restart ==
  /\ config' = NotConfigured
  /\ commanded' = {} /\ voltage' = {}
  /\ dwell' = NoDwell /\ yellowTicks' = NoTime /\ clearance' = NoTime
  /\ lastColor' = NoColor /\ initialized' = FALSE
  /\ emitted' = {}

Next == Tick \/ TickUnconfigured \/ ApplyConfig \/ Restart

Spec == Init /\ [][Next]_vars

TypeOK ==
  /\ config \in Configs \cup {NotConfigured}
  /\ commanded \in Image \cup {{}} /\ voltage \subseteq Output
  /\ dwell \in [Watch -> Nat] /\ \A w \in Watch : dwell[w] <= Threshold(w)
  /\ yellowTicks \in [Channel -> 0..MaxYellow]
  /\ clearance \in [Channel -> Nat]
  /\ lastColor \in [Channel -> Color \cup {"NONE"}]
  /\ initialized \in BOOLEAN
=============================================================================
