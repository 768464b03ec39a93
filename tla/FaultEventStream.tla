--------------------------- MODULE FaultEventStream ---------------------------
(***************************************************************************)
(* How the faults MP records become entries of CP's event log.             *)
(*   MP: src/CPM/MP/App/Domain/FaultMonitor/FaultMonitorService.c          *)
(*       src/CPM/MP/App/Domain/FaultMonitor/FaultMonitorTrace.c            *)
(*       src/CPM/MP/App/Domain/Intersection/CpMpLinkService.c              *)
(*   CP: src/CPM/CP/App/Domain/Intersection/CpMpLinkService.c              *)
(* MP numbers the faults from 1 and keeps the last Capacity of them in a   *)
(* trace.  Its link copies them to a queue, takes the oldest as the        *)
(* pending event and sends that every period until CP acknowledges its     *)
(* number.  CP logs an event whose number is not that of the last one it   *)
(* received, and acknowledges every one.                                   *)
(*                                                                         *)
(* A fault is known here by its place among all recorded since the first   *)
(* boot (event); the code knows its number since the last boot (sequence). *)
(* The 32-bit numbers do not wrap.  The log survives a restart of CP.      *)
(*                                                                         *)
(* The software queues of both ControlBusAdapters may drop a frame, and,   *)
(* when the CAN controller has no room, put the oldest back at the tail,   *)
(* behind frames queued later; so any frame on its way may go to the end.  *)
(***************************************************************************)
EXTENDS Naturals, SequencesExt

CONSTANTS
  Capacity,       \* FAULT_MONITOR_TRACE_CAPACITY: of the trace and of the queue
  MaxFaults,      \* bound on the faults recorded
  MaxFlight,      \* bound on the frames on their way, in each direction
  MaxRequeues,    \* bound on the frames that are put back at the tail
  MaxMpRestarts,  \* bounds on the restarts
  MaxCpRestarts

ASSUME CapacityAssumption == Capacity \in Nat \ {0}
ASSUME BoundsAssumption ==
  {MaxFaults, MaxFlight, MaxRequeues, MaxMpRestarts, MaxCpRestarts} \subseteq Nat

VARIABLES
  earlier,      \* faults recorded before MP's last boot
  totalFaults,  \* faults recorded since
  nextEventSequenceToQueue,
  eventQueue,   \* sequences of the queued events
  pendingEvent, \* sequence of the pending event, 0 if there is none
  toCp,         \* event frames on their way
  toMp,         \* acknowledgements on their way
  lastReceivedEventSequence,
  log,          \* events CP logged
  acked,        \* history: events MP dropped because they were acknowledged
  requeues, mpRestarts, cpRestarts

mpVars == <<earlier, totalFaults, nextEventSequenceToQueue, eventQueue, pendingEvent, acked>>
cpVars == <<lastReceivedEventSequence, log>>
envVars == <<requeues, mpRestarts, cpRestarts>>
vars == <<mpVars, cpVars, toCp, toMp, envVars>>

recorded == earlier + totalFaults
Event    == 1..MaxFaults

TypeOK ==
  /\ earlier \in 0..MaxFaults /\ totalFaults \in 0..MaxFaults
  /\ recorded <= MaxFaults
  /\ nextEventSequenceToQueue \in 1..(totalFaults + 1)
  /\ eventQueue \in Seq(1..totalFaults) /\ Len(eventQueue) <= Capacity
  /\ pendingEvent \in 0..totalFaults
  /\ toCp \in Seq([event : Event, sequence : Event]) /\ Len(toCp) <= MaxFlight
  /\ toMp \in Seq(Event) /\ Len(toMp) <= MaxFlight
  /\ lastReceivedEventSequence \in 0..MaxFaults
  /\ log \in Seq(Event)
  /\ acked \subseteq Event
  /\ requeues \in 0..MaxRequeues
  /\ mpRestarts \in 0..MaxMpRestarts /\ cpRestarts \in 0..MaxCpRestarts

-----------------------------------------------------------------------------

Least(a, b) == IF a < b THEN a ELSE b
Numbers(first, n) == [i \in 1..n |-> first + i - 1]

\* A sending handler queues its frame, or the adapter drops it.
Sent(frames, frame) == {frames} \cup (IF Len(frames) < MaxFlight
                                      THEN {Append(frames, frame)} ELSE {})

\* Wrong: the oldest event in the trace is not found.
EarliestTracedTooLate == totalFaults - Least(totalFaults, Capacity) + 2

\* FaultMonitorServiceGetEventBySequence finds this event and the later ones.
EarliestTraced == totalFaults - Least(totalFaults, Capacity) + 1

\* Wrong: the queue is not asked for room.
CapturedWithoutRoom ==
  [queue |-> eventQueue \o Numbers(nextEventSequenceToQueue,
                                  totalFaults + 1 - nextEventSequenceToQueue),
   next |-> totalFaults + 1]

\* CaptureFaultEvents, its loop as a whole: either the next event is no longer in
\* the trace and all of them are given up, or they are queued as long as there is
\* room.
Captured ==
  LET waiting == totalFaults + 1 - nextEventSequenceToQueue
      n       == Least(waiting, Capacity - Len(eventQueue))
  IN  IF n > 0 /\ nextEventSequenceToQueue < EarliestTraced
      THEN [queue |-> eventQueue, next |-> totalFaults + 1]
      ELSE [queue |-> eventQueue \o Numbers(nextEventSequenceToQueue, n),
            next |-> nextEventSequenceToQueue + n]

\* LoadNextPendingEvent
Loaded(pending, queue) ==
  IF pending = 0 /\ queue # <<>> THEN [pending |-> Head(queue), queue |-> Tail(queue)]
  ELSE [pending |-> pending, queue |-> queue]

-----------------------------------------------------------------------------

Init ==
  /\ earlier = 0 /\ totalFaults = 0
  /\ nextEventSequenceToQueue = 1
  /\ eventQueue = <<>> /\ pendingEvent = 0
  /\ toCp = <<>> /\ toMp = <<>>
  /\ lastReceivedEventSequence = 0 /\ log = <<>>
  /\ acked = {}
  /\ requeues = 0 /\ mpRestarts = 0 /\ cpRestarts = 0

\* FaultMonitorServiceOnFault, any number of times in a period.
OnFault ==
  /\ recorded < MaxFaults
  /\ totalFaults' = totalFaults + 1
  /\ UNCHANGED <<earlier, nextEventSequenceToQueue, eventQueue, pendingEvent, acked,
                 cpVars, toCp, toMp, envVars>>

\* CaptureFaultEvents and SendPendingEvent in CpMpLinkServiceStep.
MpStep ==
  LET captured == Captured
      loaded   == Loaded(pendingEvent, captured.queue)
  IN  /\ nextEventSequenceToQueue' = captured.next
      /\ eventQueue' = loaded.queue
      /\ pendingEvent' = loaded.pending
      /\ IF loaded.pending = 0 THEN UNCHANGED toCp
         ELSE toCp' \in Sent(toCp, [event |-> earlier + loaded.pending,
                                    sequence |-> loaded.pending])
      /\ UNCHANGED <<earlier, totalFaults, acked, cpVars, toMp, envVars>>

\* Wrong: the sequence that is acknowledged is not looked at.
AckMatchesAny(sequence) == pendingEvent # 0

AckMatches(sequence) == pendingEvent # 0 /\ sequence = pendingEvent

MpRxEventAck ==
  LET loaded == Loaded(0, eventQueue)
  IN  /\ toMp # <<>> /\ toMp' = Tail(toMp)
      /\ IF AckMatches(Head(toMp))
         THEN /\ pendingEvent' = loaded.pending
              /\ eventQueue' = loaded.queue
              /\ acked' = acked \cup {earlier + pendingEvent}
         ELSE UNCHANGED <<pendingEvent, eventQueue, acked>>
      /\ UNCHANGED <<earlier, totalFaults, nextEventSequenceToQueue, cpVars, toCp, envVars>>

\* Wrong: an event is logged as often as it is received.
IsNewAlways(sequence) == TRUE

IsNew(sequence) == sequence # lastReceivedEventSequence

CpRxEvent ==
  LET frame == Head(toCp)
  IN  /\ toCp # <<>> /\ toCp' = Tail(toCp)
      /\ IF IsNew(frame.sequence)
         THEN /\ lastReceivedEventSequence' = frame.sequence
              /\ log' = Append(log, frame.event)
         ELSE UNCHANGED cpVars
      /\ toMp' \in Sent(toMp, frame.sequence)
      /\ UNCHANGED <<mpVars, envVars>>

\* A frame is lost on the bus or with the processor that held it.
LoseFrame ==
  /\ \/ \E i \in DOMAIN toCp : toCp' = RemoveAt(toCp, i) /\ UNCHANGED toMp
     \/ \E i \in DOMAIN toMp : toMp' = RemoveAt(toMp, i) /\ UNCHANGED toCp
  /\ UNCHANGED <<mpVars, cpVars, envVars>>

\* ControlBusAdapterStep found no room for a frame.
Requeue ==
  /\ requeues < MaxRequeues /\ requeues' = requeues + 1
  /\ \/ \E i \in DOMAIN toCp : toCp' = Append(RemoveAt(toCp, i), toCp[i]) /\ UNCHANGED toMp
     \/ \E i \in DOMAIN toMp : toMp' = Append(RemoveAt(toMp, i), toMp[i]) /\ UNCHANGED toCp
  /\ UNCHANGED <<mpVars, cpVars, mpRestarts, cpRestarts>>

MpRestart ==
  /\ mpRestarts < MaxMpRestarts /\ mpRestarts' = mpRestarts + 1
  /\ earlier' = recorded /\ totalFaults' = 0
  /\ nextEventSequenceToQueue' = 1
  /\ eventQueue' = <<>> /\ pendingEvent' = 0
  /\ UNCHANGED <<acked, cpVars, toCp, toMp, requeues, cpRestarts>>

CpRestart ==
  /\ cpRestarts < MaxCpRestarts /\ cpRestarts' = cpRestarts + 1
  /\ lastReceivedEventSequence' = 0
  /\ UNCHANGED <<mpVars, log, toCp, toMp, requeues, mpRestarts>>

Next ==
  \/ OnFault \/ MpStep \/ MpRxEventAck \/ CpRxEvent
  \/ LoseFrame \/ Requeue \/ MpRestart \/ CpRestart

Spec == Init /\ [][Next]_vars

-----------------------------------------------------------------------------
(* Properties *)

\* What is acknowledged is kept (OnRxFrame of both link services): until MP restarts and
\* numbers its events from 1 again, no event is dropped that is not in CP's log, with
\* frames and acknowledgements lost, repeated and overtaken and CP restarting.
AckedIsLoggedThisBoot == mpRestarts = 0 => acked \subseteq Range(log)

\* However often an event is sent and however often MP restarts, the log repeats an
\* event only because CP restarted and forgot the last number (CpRxEvent compares with
\* that one alone): one event for each restart, unless a frame is overtaken.
RepeatsNeedRestarts ==
  requeues = 0 => Len(log) <= Cardinality(Range(log)) + cpRestarts

\* Until a processor restarts or a frame overtakes another, the stream is the log
\* it promises to be, complete and in order unless the trace overflows.
Promise == INSTANCE FaultLog WITH
  kept <- ({pendingEvent} \ {0}) \cup Range(eventQueue)
          \cup nextEventSequenceToQueue..totalFaults
Undisturbed == requeues = 0 /\ mpRestarts = 0 /\ cpRestarts = 0
KeepsPromise == Promise!Init /\ [][Undisturbed' => Promise!Next]_(Promise!vars)

=============================================================================
