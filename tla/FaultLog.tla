------------------------------- MODULE FaultLog -------------------------------
(***************************************************************************)
(* What the event stream from MP to CP promises: the faults MP records are *)
(* numbered as they occur; CP's log holds each at most once and in their   *)
(* order; MP forgets a fault when it is in the log, or when so many have   *)
(* been recorded that the trace can no longer hold them.                   *)
(***************************************************************************)
EXTENDS Naturals, FiniteSets, SequencesExt

CONSTANTS Capacity  \* FAULT_MONITOR_TRACE_CAPACITY

VARIABLES
  recorded,  \* number of faults recorded
  kept,      \* the faults MP still holds or owes to CP
  log        \* the faults CP logged

vars == <<recorded, kept, log>>

Init == recorded = 0 /\ kept = {} /\ log = <<>>

Record ==
  /\ recorded' = recorded + 1
  /\ kept' = kept \cup {recorded + 1}
  /\ UNCHANGED log

\* The oldest fault owed is logged unless it is the last one logged.
Log ==
  \E e \in kept :
    /\ \A f \in kept : e <= f
    /\ log # <<>> => Last(log) < e
    /\ log' = Append(log, e)
    /\ UNCHANGED <<recorded, kept>>

Forget ==
  \E e \in kept :
    /\ \A f \in kept : e <= f
    /\ log # <<>> /\ Last(log) = e
    /\ kept' = kept \ {e}
    /\ UNCHANGED <<recorded, log>>

\* More faults are owed than the trace holds: all from some one on are lost.
Overrun ==
  \E e \in kept :
    /\ Cardinality({f \in kept : e <= f}) > Capacity
    /\ kept' = {f \in kept : f < e}
    /\ UNCHANGED <<recorded, log>>

Next == Record \/ Log \/ Forget \/ Overrun

Spec == Init /\ [][Next]_vars

=============================================================================
