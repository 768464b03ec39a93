--------------------------- MODULE ControlBusEgress ---------------------------
(***************************************************************************)
(* How MP's frames reach the control bus.                                  *)
(*   src/CPM/MP/App/Adapters/STM32/ControlBusAdapter.c                     *)
(*   src/CPM/MP/App/Domain/Intersection/CpMpLinkService.c                  *)
(*   src/CPM/MP/Core/Src/fdcan.c, the HAL's three-element transmit FIFO    *)
(* Once per period ControlBusAdapterStep moves frames from the software    *)
(* queue to the FIFO of the CAN controller until that is full, and         *)
(* CpMpLinkServiceStep queues a heartbeat, the configuration status, the   *)
(* safety status, the fault status and, while CP has not acknowledged the  *)
(* pending event, the event.  The bus takes frames out of the FIFO; the    *)
(* two steps take microseconds of the 10 ms, and the bus is shown as one   *)
(* action between them.                                                    *)
(*                                                                         *)
(* A frame is what it carries (kind) and how many periods ago it was made  *)
(* (age).  CP acknowledges every event it receives; the acknowledgement is *)
(* queued by CP in one period and on the bus in the next.  An event frame  *)
(* that is still on its way when MP goes on to another event is an old one.*)
(***************************************************************************)
EXTENDS Integers, SequencesExt

CONSTANTS
  TxDepth,      \* CONTROL_BUS_ADAPTER_TX_DEPTH, 16 on the target
  FifoDepth,    \* SRAMCAN_TFQ_NBR, 3 on the target
  MaxSlow,      \* bound on the periods in which the bus takes fewer than FifoDepth
  PeerTimeout,  \* CPMP_PEER_TIMEOUT_TICKS
  MaxAge        \* age beyond which a frame's age is not told apart

ASSUME DepthsAssumption == {TxDepth, FifoDepth} \subseteq Nat \ {0}
ASSUME SlowAssumption == MaxSlow \in Nat
ASSUME AgesAssumption == {PeerTimeout, MaxAge} \subseteq Nat \ {0}

VARIABLES
  pc,            \* what happens next in the period
  txQueue,       \* frames MP queued, ControlBusAdapterCtx_t.txQueue
  txFifo,        \* frames in the CAN controller
  pendingEvent,  \* CpMpLinkService_t.pendingEventValid
  ack,           \* where CP's acknowledgement of the pending event is
  heartbeatAge,  \* CP: periods since a heartbeat of MP arrived
  statusAge,     \* CP: age of the frame its lastSafetyAction was taken from
  slow           \* periods in which the bus took fewer frames than it could

cpVars == <<heartbeatAge, statusAge>>
vars == <<pc, txQueue, txFifo, pendingEvent, ack, cpVars, slow>>

Kind  == {"HEARTBEAT", "CONFIG_STATUS", "SAFETY", "FAULTS", "EVENT", "OLD_EVENT"}
Frame == [kind : Kind, age : 0..MaxAge]
\* The frames CP takes its lastSafetyAction from.
Status == {"HEARTBEAT", "SAFETY", "FAULTS"}

TypeOK ==
  /\ pc \in {"bus", "adapter", "link"}
  /\ txQueue \in Seq(Frame) /\ Len(txQueue) <= TxDepth
  /\ txFifo \in Seq(Frame) /\ Len(txFifo) <= FifoDepth
  /\ pendingEvent \in BOOLEAN
  /\ ack \in {"none", "queued", "bus"}
  /\ heartbeatAge \in 0..MaxAge
  /\ statusAge \in 0..MaxAge
  /\ slow \in 0..MaxSlow

-----------------------------------------------------------------------------

Least(a, b) == IF a < b THEN a ELSE b
Older(n) == Least(n + 1, MaxAge)
Aged(frames) == [i \in 1..Len(frames) |-> [frames[i] EXCEPT !.age = Older(@)]]

\* Wrong: the frame that found the FIFO full is freed.
AfterRefusalDropped(rest) == Tail(rest)

\* Wrong: it goes to the tail, and the loop goes on once more.
AfterRefusalTwice(rest) ==
  IF Len(rest) = 1 THEN rest ELSE SubSeq(rest, 3, Len(rest)) \o SubSeq(rest, 1, 2)

\* The frame that found the FIFO full was already taken out of the queue and is put
\* back at its tail.
AfterRefusal(rest) == Append(Tail(rest), Head(rest))

\* Wrong: the queue takes one frame more than it has room for.
QueuedOnePast(queue, kinds) ==
  queue \o [i \in 1..Least(Len(kinds), TxDepth + 1 - Len(queue)) |->
              [kind |-> kinds[i], age |-> 0]]

\* AdapterSendFrame: a frame that finds the queue full is dropped.
Queued(queue, kinds) ==
  queue \o [i \in 1..Least(Len(kinds), TxDepth - Len(queue)) |->
              [kind |-> kinds[i], age |-> 0]]

StepFrames(pending) ==
  <<"HEARTBEAT", "CONFIG_STATUS", "SAFETY", "FAULTS">>
  \o (IF pending THEN <<"EVENT">> ELSE <<>>)

-----------------------------------------------------------------------------

\* Both processors have just started: CP has heard nothing and does not trust it.
Init ==
  /\ pc = "bus"
  /\ txQueue = <<>> /\ txFifo = <<>>
  /\ pendingEvent = FALSE /\ ack = "none"
  /\ heartbeatAge = 0 /\ statusAge = 0
  /\ slow = 0

\* A period passes on the bus; CP handles what arrived, in OnRxFrame.
BusTakes(n) ==
  LET taken  == Aged(SubSeq(txFifo, 1, n))
      Got(k) == \E i \in 1..n : taken[i].kind = k
  IN  /\ pc = "bus" /\ pc' = "adapter"
      /\ txFifo' = Aged(SubSeq(txFifo, n + 1, Len(txFifo)))
      /\ txQueue' = Aged(txQueue)
      /\ heartbeatAge' = IF Got("HEARTBEAT") THEN 0 ELSE Older(heartbeatAge)
      /\ \/ \E i \in 1..n :
              /\ taken[i].kind \in Status
              /\ \A j \in i + 1..n : taken[j].kind \notin Status
              /\ statusAge' = taken[i].age
         \/ /\ \A i \in 1..n : taken[i].kind \notin Status
            /\ statusAge' = Older(statusAge)
      /\ ack' = CASE ack = "queued" -> "bus"
                  [] ack = "none" /\ Got("EVENT") -> "queued"
                  [] OTHER -> ack
      /\ UNCHANGED pendingEvent

Bus ==
  \/ BusTakes(Len(txFifo)) /\ UNCHANGED slow
  \/ /\ slow < MaxSlow /\ slow' = slow + 1
     /\ \E n \in 0..(Len(txFifo) - 1) : BusTakes(n)

Superseded(frames) ==
  [i \in 1..Len(frames) |-> [frames[i] EXCEPT !.kind = IF @ = "EVENT" THEN "OLD_EVENT" ELSE @]]

\* ControlBusAdapterStep: what was received is handled, then the FIFO is filled.
AdapterStep ==
  LET queue == IF ack = "bus" THEN Superseded(txQueue) ELSE txQueue
      fifo  == IF ack = "bus" THEN Superseded(txFifo) ELSE txFifo
      n     == Least(FifoDepth - Len(fifo), Len(queue))
      rest  == SubSeq(queue, n + 1, Len(queue))
  IN  /\ pc = "adapter" /\ pc' = "link"
      /\ txFifo' = fifo \o SubSeq(queue, 1, n)
      /\ txQueue' = IF rest = <<>> THEN rest ELSE AfterRefusal(rest)
      /\ pendingEvent' = (pendingEvent /\ ack # "bus")
      /\ ack' = IF ack = "bus" THEN "none" ELSE ack
      /\ UNCHANGED <<cpVars, slow>>

\* CpMpLinkServiceStep; a fault may have been recorded since the last one.
LinkStep ==
  \E pending \in BOOLEAN :
    /\ pc = "link" /\ pc' = "bus"
    /\ pendingEvent => pending
    /\ pendingEvent' = pending
    /\ txQueue' = Queued(txQueue, StepFrames(pending))
    /\ UNCHANGED <<txFifo, ack, cpVars, slow>>

Next == Bus \/ AdapterStep \/ LinkStep

Spec == Init /\ [][Next]_vars

\* Neither the task nor the bus ever stops.
FairSpec == Spec /\ WF_vars(Bus) /\ WF_vars(AdapterStep) /\ WF_vars(LinkStep)

-----------------------------------------------------------------------------
(* Properties *)

\* However the queue fills up and its frames overtake each other, a heartbeat gets
\* through before CP takes MP for gone.
HeartbeatsGetThrough == heartbeatAge <= PeerTimeout

\* The safety action CP goes by is never as old as MaxAge: frames that are put back
\* at the tail of the queue do not stay there, and a status that overtook an older
\* one is not outdated for long.
StatusIsRecent == statusAge < MaxAge

\* MP streams an event until CP acknowledges it, and CP does.
EventsDelivered == pendingEvent ~> ~pendingEvent

==============================================================================
