---------------------------- MODULE OutageHistory ----------------------------
(***************************************************************************)
(* What really happened on the field bus since MP started, recorded beside *)
(* MalfunctionEngine without influencing it, and what the safety decision  *)
(* and the fault reports have to do with it.                               *)
(***************************************************************************)
EXTENDS MalfunctionEngine

VARIABLES
  silence,  \* windows in a row without a frame of the module, up to its threshold
  outages,  \* modules that were silent for their threshold since MP started
  reports,  \* "missing" reports since the module was last heard, up to two
  tripped   \* channel faults found since MP started

historyVars == <<silence, outages, reports, tripped>>
hvars == <<vars, historyVars>>

HInit ==
  /\ Init
  /\ silence = [m \in Module |-> 0] /\ outages = {}
  /\ reports = [m \in Module |-> 0] /\ tripped = {}

OneMore(n, cap) == IF n < cap THEN n + 1 ELSE n
ReportedMissing(m) == <<MissingCode(m), m>> \in emitted'

Observe ==
  /\ silence' = [m \in Module |->
                   IF m \in heard' THEN 0 ELSE OneMore(silence[m], Threshold(m))]
  /\ outages' = outages \cup {m \in Module : silence'[m] = Threshold(m)}
  /\ reports' = [m \in Module |->
                   IF m \in heard' THEN 0
                   ELSE IF ReportedMissing(m) THEN OneMore(reports[m], 2) ELSE reports[m]]
  /\ tripped' = tripped \cup {c \in ChannelFaults : <<c, "CHANNEL">> \in emitted'}

HNext ==
  \/ MalfunctionEngineTick /\ Observe
  \/ (ControlBusStep \/ LinkStep) /\ UNCHANGED historyVars
  \/ /\ Restart
     /\ silence' = [m \in Module |-> 0] /\ outages' = {}
     /\ reports' = [m \in Module |-> 0] /\ tripped' = {}

HSpec == HInit /\ [][HNext]_hvars

\* The task is as fair as without the history (FairSpec).
HFairSpec == HSpec /\ Fairness

\* A module that was silent for its threshold, at any time since MP started and
\* whether or not a configuration is in force, has opened the relay for good.
OutageDarkens == outages # {} => Latched = "DARK" /\ Relay = "OPEN"

\* MP goes DARK only for a cause, and the code it keeps, which it reports to CP as
\* the reason, names one: a module of that kind was silent for its threshold or
\* the channel monitors found that fault.
DarkExplained ==
  Latched = "DARK" =>
    \/ \E m \in outages : safety.code = MissingCode(m)
    \/ safety.code \in tripped \cap DarkCodes

\* An outage is reported exactly once, when it reaches the threshold, and again
\* only after the module came back.
ReportedOnce ==
  \A m \in Module : reports[m] = IF silence[m] = Threshold(m) THEN 1 ELSE 0

=============================================================================
