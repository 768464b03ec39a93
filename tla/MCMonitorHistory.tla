--------------------------- MODULE MCMonitorHistory ---------------------------
(***************************************************************************)
(* Two channels and three lamps of one card.  In the first map channel a   *)
(* has a yellow and a red lamp and b a green one; in the second b has two  *)
(* yellow ones, of which output 3 hides output 2.  The channels conflict   *)
(* in two configurations, one for each map, and not in the third.          *)
(***************************************************************************)
EXTENDS MonitorHistory

CONSTANTS a, b, m1

MCChannel == {a, b}
MCOutput  == 1..3
MCSsm     == {m1}
MCCardOf  == <<m1, m1, m1>>
MCImage   == {{1}, {2}, {2, 3}}

MCMap     == <<<<a, "YELLOW">>, <<a, "RED">>, <<b, "GREEN">>>>
MCMapDup  == <<<<a, "YELLOW">>, <<b, "YELLOW">>, <<b, "YELLOW">>>>
MCConfigs ==
  {[map |-> MCMap, conflicts |-> {{a, b}}, minYellow |-> [c \in MCChannel |-> 2],
    redClear |-> [c \in MCChannel |-> 1]],
   [map |-> MCMapDup, conflicts |-> {{a, b}}, minYellow |-> [c \in MCChannel |-> 1],
    redClear |-> [c \in MCChannel |-> 0]],
   [map |-> MCMap, conflicts |-> {}, minYellow |-> [c \in MCChannel |-> 1],
    redClear |-> [c \in MCChannel |-> 1]]}
=============================================================================
