---------------------------- MODULE MonitorHistory ----------------------------
(***************************************************************************)
(* What the lamps showed since MP started, recorded beside ChannelMonitors *)
(* without influencing it: how long conflicting channels were lit          *)
(* together, how long each channel has its present colours, and whether    *)
(* all of them went through their cycle as a controller should make them.  *)
(***************************************************************************)
EXTENDS ChannelMonitors

CONSTANT MaxAge   \* ages beyond are one; no time of a configuration is longer

ASSUME MaxAgeAssumption ==
  /\ MaxAge \in Nat /\ MaxYellow <= MaxAge
  /\ \A k \in Configs : \A c \in Channel : k.redClear[c] < MaxAge

VARIABLES
  together,  \* periods in a row a pair, conflicting, was lit together, up to ConflictDwell
  alarmed,   \* pairs reported as in conflict
  shown,     \* the colours each channel shows,
  before,    \* those it showed before them,
  age,       \* and for how many periods it has shown them
  replaced,  \* a configuration was replaced
  lawful     \* the signals have been as they should

historyVars == <<together, alarmed, shown, before, age, replaced, lawful>>
hvars == <<vars, historyVars>>

NotTogether == [p \in Pair |-> 0]
NoColors    == [c \in Channel |-> {}]

HInit ==
  /\ Init
  /\ together = NotTogether /\ alarmed = {}
  /\ shown = NoColors /\ before = NoColors /\ age = NoTime
  /\ replaced = FALSE /\ lawful = TRUE

\* An output that no other with the same meaning hides.
Seen(o) == \A q \in Output : q > o => config.map[q] # config.map[o]

\* The lamps of a pair that give way are lit, by what the cards reported last.
LitTogether(p) ==
  \A c \in p : \E o \in voltage' :
    Seen(o) /\ config.map[o] \in {<<c, "YELLOW">>, <<c, "GREEN">>}

\* In this period all lamps are as commanded, every channel shows one colour (or
\* none, from the start), in the order red, green, yellow, red, a yellow for its time,
\* and no channel gives way with or too shortly after one it conflicts with.
LawfulPeriod(now) ==
  /\ voltage' = commanded'
  /\ \A c \in Channel :
       \/ \E k \in Color : Lit(now, c) = {k}
       \/ Lit(now, c) = {} /\ shown[c] = {}
  /\ \A c \in Channel : Lit(now, c) # shown[c] =>
       /\ <<lastColor[c], Dominant(now, c)>> \in LegalTransition
       /\ shown[c] = {"YELLOW"} => age[c] >= config.minYellow[c]
  /\ \A p \in config.conflicts \cap Pair : \A c \in p : \A d \in p \ {c} :
       Permissive(now, d) =>
         /\ ~Permissive(now, c)
         /\ shown[c] = {"YELLOW"} => config.redClear[c] = 0
         /\ before[c] = {"YELLOW"} => age[c] >= config.redClear[c]

Record ==
  LET now == Resolve(voltage')
  IN  /\ together' = [p \in Pair |->
                        IF p \in config.conflicts /\ LitTogether(p)
                        THEN Least(together[p] + 1, ConflictDwell) ELSE 0]
      /\ alarmed' = alarmed \cup {p \in Pair : <<"CONFLICT", p>> \in emitted'}
      /\ shown' = [c \in Channel |-> Lit(now, c)]
      /\ before' = [c \in Channel |-> IF shown'[c] = shown[c] THEN before[c] ELSE shown[c]]
      /\ age' = [c \in Channel |-> IF shown'[c] = shown[c] THEN Least(age[c] + 1, MaxAge) ELSE 1]
      /\ lawful' = (lawful /\ LawfulPeriod(now))
      /\ UNCHANGED replaced

HNext ==
  \/ Tick /\ Record
  \/ TickUnconfigured /\ UNCHANGED historyVars
  \/ /\ ApplyConfig
     /\ replaced' = (replaced \/ config # NotConfigured)
     /\ UNCHANGED <<together, alarmed, shown, before, age, lawful>>
  \/ /\ Restart
     /\ together' = NotTogether /\ alarmed' = {}
     /\ shown' = NoColors /\ before' = NoColors /\ age' = NoTime
     /\ replaced' = FALSE /\ lawful' = TRUE

HSpec == HInit /\ [][HNext]_hvars

-----------------------------------------------------------------------------

\* Conflicting channels lit together for ConflictDwell periods have been reported,
\* also when configurations were replaced in between, whichever lamps of the two they
\* were, and whatever the cards did not report (ConflictMonitorTick).
ConflictCaught == \A p \in Pair : together[p] = ConflictDwell => p \in alarmed

\* A pair is reported only when it was lit together for ConflictDwell periods
\* (ConflictMonitor.h), unless a configuration was replaced: the count of a pair that
\* does not conflict for a while is kept meanwhile.
ConflictJustified ==
  [][\A p \in alarmed' \ alarmed : together'[p] = ConflictDwell \/ replaced]_hvars

\* A yellow that ends before its time is reported when it ends, and a channel that
\* gives way before the clearance of a conflicting one is over is reported in every
\* period of it, as long as the configuration stays (MinYellowMonitorTick,
\* ClearanceMonitorTick).
TimingCaught ==
  [][shown' # shown \/ age' # age =>
     \A c \in Channel : ~replaced /\ initialized /\ initialized' =>
       /\ /\ shown[c] = {"YELLOW"} /\ shown'[c] # {"YELLOW"}
          /\ age[c] < config.minYellow[c]
          => <<"MIN_YELLOW_SHORT", c>> \in emitted'
       /\ \A p \in config.conflicts \cap Pair : \A d \in p \ {c} :
            /\ c \in p /\ before'[c] = {"YELLOW"} /\ shown'[c] = {"RED"}
            /\ age'[c] <= config.redClear[c] /\ shown'[d] \cap {"GREEN", "YELLOW"} # {}
            => <<"CLEARANCE_SHORT", p>> \in emitted']_hvars

\* Signals that go through their cycle as they should, to the period, are never
\* reported: MP's counts agree with the times CP was configured with.
LawfulIsSilent == lawful /\ ~replaced => emitted = {}
=============================================================================
