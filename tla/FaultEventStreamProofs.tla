------------------------ MODULE FaultEventStreamProofs ------------------------
(***************************************************************************)
(* Proofs about FaultEventStream, for every capacity and every bound on    *)
(* faults, frames, losses, reorderings and restarts.                       *)
(*                                                                         *)
(* That an event MP drops is in the log is proved until MP restarts: what  *)
(* CP acknowledges, and what it takes for a repetition, is in the log till *)
(* then.  How often an event is logged rests on the order of the stream:   *)
(* log, frames on their way, pending event, queue and the events not yet   *)
(* queued follow each other, and so an event received again is the last    *)
(* one logged, whose number CP remembers unless it has restarted.  With    *)
(* both the stream implements FaultLog until it is disturbed.              *)
(***************************************************************************)
EXTENDS FaultEventStream, SequenceTheorems, FiniteSetTheorems, TLAPS

Frame == [event : Event, sequence : Event]

\* Frames of events recorded since the first boot: both numbers agree.
OwnFrame == {f \in Frame : f.event = f.sequence}

-----------------------------------------------------------------------------
(* Sequences *)

\* Removing one element keeps the others, in order.
LEMMA RemoveAtProperties ==
  ASSUME NEW S, NEW s \in Seq(S), NEW k \in 1..Len(s)
  PROVE  /\ RemoveAt(s, k) \in Seq(S)
         /\ Len(RemoveAt(s, k)) = Len(s) - 1
         /\ \A i \in 1..Len(s) - 1 :
              RemoveAt(s, k)[i] = IF i < k THEN s[i] ELSE s[i + 1]
<1> DEFINE a == SubSeq(s, 1, k - 1)
           b == SubSeq(s, k + 1, Len(s))
<1>1. Len(s) \in Nat
  BY LenProperties
<1>2. /\ a \in Seq(S) /\ Len(a) = k - 1
      /\ \A i \in 1..k - 1 : a[i] = s[i]
  <2>1. \A i \in 1..k - 1 : s[i] \in S
    BY <1>1, ElementOfSeq
  <2>2. /\ a \in Seq(S)
        /\ Len(a) = IF 1 <= k - 1 THEN (k - 1) - 1 + 1 ELSE 0
        /\ \A i \in 1..(k - 1) - 1 + 1 : a[i] = s[1 + i - 1]
    BY <1>1, <2>1, SubSeqProperties
  <2> QED
    BY <1>1, <2>2
<1>3. /\ b \in Seq(S) /\ Len(b) = Len(s) - k
      /\ \A i \in 1..Len(s) - k : b[i] = s[k + i]
  <2>1. \A i \in k + 1..Len(s) : s[i] \in S
    BY <1>1, ElementOfSeq
  <2>2. /\ b \in Seq(S)
        /\ Len(b) = IF k + 1 <= Len(s) THEN Len(s) - (k + 1) + 1 ELSE 0
        /\ \A i \in 1..Len(s) - (k + 1) + 1 : b[i] = s[(k + 1) + i - 1]
    BY <1>1, <2>1, SubSeqProperties
  <2> QED
    BY <1>1, <2>2
<1>4. /\ a \o b \in Seq(S)
      /\ Len(a \o b) = Len(a) + Len(b)
      /\ \A i \in 1..Len(a) + Len(b) :
           (a \o b)[i] = IF i <= Len(a) THEN a[i] ELSE b[i - Len(a)]
  BY <1>2, <1>3, ConcatProperties
<1> HIDE DEF a, b
<1>5. Len(a) + Len(b) = Len(s) - 1
  BY <1>1, <1>2, <1>3
<1>6. \A i \in 1..Len(s) - 1 : (a \o b)[i] = IF i < k THEN s[i] ELSE s[i + 1]
  <2> TAKE i \in 1..Len(s) - 1
  <2>1. CASE i < k
    BY <1>1, <1>2, <1>4, <1>5, <2>1
  <2>2. CASE ~(i < k)
    <3>1. i - Len(a) \in 1..Len(s) - k /\ ~(i <= Len(a)) /\ k + (i - Len(a)) = i + 1
      BY <1>1, <1>2, <2>2
    <3> QED
      BY <1>3, <1>4, <1>5, <2>2, <3>1
  <2> QED
    BY <2>1, <2>2
<1> QED
  BY <1>4, <1>5, <1>6 DEF RemoveAt, a, b

LEMMA NumbersProperties ==
  ASSUME NEW first \in Nat, NEW n \in Nat, NEW S,
         \A i \in 1..n : first + i - 1 \in S
  PROVE  Numbers(first, n) \in Seq(S) /\ Len(Numbers(first, n)) = n
<1>1. Numbers(first, n) \in [1..n -> S]
  BY DEF Numbers
<1> QED
  BY <1>1, IsASeq, LenProperties

LEMMA SentProperties ==
  ASSUME NEW S, NEW frames \in Seq(S), NEW frame \in S,
         Len(frames) <= MaxFlight,
         NEW after \in Sent(frames, frame)
  PROVE  after \in Seq(S) /\ Len(after) <= MaxFlight
<1>1. Len(frames) \in Nat /\ MaxFlight \in Nat
  BY LenProperties, BoundsAssumption
<1>2. CASE after = frames
  BY <1>2
<1>3. CASE after = Append(frames, frame) /\ Len(frames) < MaxFlight
  BY <1>1, <1>3, AppendProperties
<1> QED
  BY <1>2, <1>3 DEF Sent

\* What a channel may do with the frames on their way.
LEMMA RequeueProperties ==
  ASSUME NEW S, NEW frames \in Seq(S), Len(frames) <= MaxFlight, NEW i \in DOMAIN frames
  PROVE  /\ RemoveAt(frames, i) \in Seq(S) /\ Len(RemoveAt(frames, i)) <= MaxFlight
         /\ Append(RemoveAt(frames, i), frames[i]) \in Seq(S)
         /\ Len(Append(RemoveAt(frames, i), frames[i])) <= MaxFlight
<1>1. Len(frames) \in Nat /\ i \in 1..Len(frames) /\ frames[i] \in S
  BY LenProperties, ElementOfSeq
<1>2. RemoveAt(frames, i) \in Seq(S) /\ Len(RemoveAt(frames, i)) = Len(frames) - 1
  BY <1>1, RemoveAtProperties
<1>3. MaxFlight \in Nat
  BY BoundsAssumption
<1> QED
  BY <1>1, <1>2, <1>3, AppendProperties

LEMMA TailProperties ==
  ASSUME NEW S, NEW frames \in Seq(S), frames # <<>>
  PROVE  /\ Head(frames) \in S /\ Tail(frames) \in Seq(S)
         /\ Len(Tail(frames)) = Len(frames) - 1 /\ Len(frames) \in Nat
BY HeadTailProperties, LenProperties

-----------------------------------------------------------------------------
(* MP's queue *)

QueueType(queue) == queue \in Seq(1..totalFaults) /\ Len(queue) <= Capacity

LEMMA CapturedProperties ==
  ASSUME TypeOK
  PROVE  /\ QueueType(Captured.queue)
         /\ Captured.next \in 1..(totalFaults + 1)
<1> DEFINE waiting == totalFaults + 1 - nextEventSequenceToQueue
           n == Least(waiting, Capacity - Len(eventQueue))
           taken == Numbers(nextEventSequenceToQueue, n)
<1>1. /\ totalFaults \in Nat /\ nextEventSequenceToQueue \in 1..(totalFaults + 1)
      /\ Capacity \in Nat /\ Len(eventQueue) \in Nat /\ Len(eventQueue) <= Capacity
      /\ eventQueue \in Seq(1..totalFaults)
  BY CapacityAssumption, LenProperties DEF TypeOK
<1>2. n \in Nat /\ n <= waiting /\ n <= Capacity - Len(eventQueue)
  BY <1>1 DEF Least
<1>3. taken \in Seq(1..totalFaults) /\ Len(taken) = n
  <2>1. \A i \in 1..n : nextEventSequenceToQueue + i - 1 \in 1..totalFaults
    BY <1>1, <1>2
  <2> HIDE DEF n
  <2> QED
    BY <1>1, <1>2, <2>1, NumbersProperties
<1>4. eventQueue \o taken \in Seq(1..totalFaults)
      /\ Len(eventQueue \o taken) = Len(eventQueue) + n
  BY <1>1, <1>3, ConcatProperties
<1>5. QueueType(eventQueue \o taken) /\ QueueType(eventQueue)
  BY <1>1, <1>2, <1>4 DEF QueueType
<1>6. nextEventSequenceToQueue + n \in 1..(totalFaults + 1)
  BY <1>1, <1>2
<1> QED
  BY <1>1, <1>5, <1>6 DEF Captured

LEMMA LoadedProperties ==
  ASSUME NEW pending \in 0..totalFaults, NEW queue, QueueType(queue),
         totalFaults \in Nat
  PROVE  /\ Loaded(pending, queue).pending \in 0..totalFaults
         /\ QueueType(Loaded(pending, queue).queue)
<1>1. CASE pending = 0 /\ queue # <<>>
  <2>1. /\ Head(queue) \in 1..totalFaults /\ Tail(queue) \in Seq(1..totalFaults)
        /\ Len(Tail(queue)) = Len(queue) - 1 /\ Len(queue) \in Nat
    BY <1>1, TailProperties DEF QueueType
  <2> QED
    BY <1>1, <2>1, CapacityAssumption DEF Loaded, QueueType
<1>2. CASE ~(pending = 0 /\ queue # <<>>)
  BY <1>2 DEF Loaded
<1> QED
  BY <1>1, <1>2

-----------------------------------------------------------------------------
(* Types *)

LEMMA InitTypes == Init => TypeOK
<1> SUFFICES ASSUME Init PROVE TypeOK
  OBVIOUS
<1>1. \A S : <<>> \in Seq(S) /\ Len(<<>>) = 0
  BY EmptySeq
<1> QED
  BY <1>1, CapacityAssumption, BoundsAssumption DEF Init, TypeOK, recorded

LEMMA MpStepTypes == TypeOK /\ MpStep => TypeOK'
<1> SUFFICES ASSUME TypeOK, MpStep PROVE TypeOK'
  OBVIOUS
<1> DEFINE loaded == Loaded(pendingEvent, Captured.queue)
           frame  == [event |-> earlier + loaded.pending, sequence |-> loaded.pending]
<1>1. /\ totalFaults \in Nat /\ earlier \in Nat /\ MaxFaults \in Nat
      /\ earlier + totalFaults <= MaxFaults /\ pendingEvent \in 0..totalFaults
      /\ toCp \in Seq(Frame) /\ Len(toCp) <= MaxFlight
  BY BoundsAssumption DEF TypeOK, recorded, Frame
<1>2. /\ loaded.pending \in 0..totalFaults /\ QueueType(loaded.queue)
      /\ Captured.next \in 1..(totalFaults + 1)
  BY <1>1, CapturedProperties, LoadedProperties
<1>3. toCp' \in Seq(Frame) /\ Len(toCp') <= MaxFlight
  <2>1. CASE loaded.pending = 0
    BY <1>1, <2>1 DEF MpStep
  <2>2. CASE loaded.pending # 0
    <3> HIDE DEF loaded
    <3>1. loaded.pending \in Event /\ earlier + loaded.pending \in Event
      BY <1>1, <1>2, <2>2 DEF Event
    <3>2. frame \in Frame
      BY <3>1 DEF Frame
    <3>3. toCp' \in Sent(toCp, frame)
      BY <2>2 DEF MpStep, loaded
    <3> QED
      BY <1>1, <3>2, <3>3, SentProperties
  <2> QED
    BY <2>1, <2>2
<1>4. /\ nextEventSequenceToQueue' \in 1..(totalFaults + 1)
      /\ QueueType(eventQueue') /\ pendingEvent' \in 0..totalFaults
      /\ UNCHANGED <<earlier, totalFaults, acked, cpVars, toMp, envVars>>
  BY <1>2 DEF MpStep
<1> QED
  BY <1>3, <1>4 DEF TypeOK, recorded, QueueType, Frame, cpVars, envVars

LEMMA MpRxEventAckTypes == TypeOK /\ MpRxEventAck => TypeOK'
<1> SUFFICES ASSUME TypeOK, MpRxEventAck PROVE TypeOK'
  OBVIOUS
<1> DEFINE loaded == Loaded(0, eventQueue)
<1>1. /\ totalFaults \in Nat /\ earlier \in Nat /\ MaxFaults \in Nat
      /\ earlier + totalFaults <= MaxFaults /\ pendingEvent \in 0..totalFaults
      /\ QueueType(eventQueue)
      /\ toMp \in Seq(Event) /\ Len(toMp) <= MaxFlight /\ acked \subseteq Event
  BY BoundsAssumption DEF TypeOK, recorded, QueueType
<1>2. loaded.pending \in 0..totalFaults /\ QueueType(loaded.queue)
  BY <1>1, LoadedProperties
<1>3. toMp' \in Seq(Event) /\ Len(toMp') <= MaxFlight
  BY <1>1, TailProperties, BoundsAssumption DEF MpRxEventAck
<1>4. pendingEvent' \in 0..totalFaults /\ QueueType(eventQueue') /\ acked' \subseteq Event
  <2>1. CASE AckMatches(Head(toMp))
    <3>1. earlier + pendingEvent \in Event
      BY <1>1, <2>1 DEF AckMatches, Event
    <3> QED
      BY <1>1, <1>2, <2>1, <3>1 DEF MpRxEventAck
  <2>2. CASE ~AckMatches(Head(toMp))
    BY <1>1, <2>2 DEF MpRxEventAck
  <2> QED
    BY <2>1, <2>2
<1>5. UNCHANGED <<earlier, totalFaults, nextEventSequenceToQueue, cpVars, toCp, envVars>>
  BY DEF MpRxEventAck
<1> QED
  BY <1>3, <1>4, <1>5 DEF TypeOK, recorded, QueueType, cpVars, envVars

LEMMA CpRxEventTypes == TypeOK /\ CpRxEvent => TypeOK'
<1> SUFFICES ASSUME TypeOK, CpRxEvent PROVE TypeOK'
  OBVIOUS
<1>1. /\ toCp # <<>> /\ toCp \in Seq(Frame) /\ Len(toCp) <= MaxFlight
      /\ toMp \in Seq(Event) /\ Len(toMp) <= MaxFlight /\ log \in Seq(Event)
      /\ lastReceivedEventSequence \in 0..MaxFaults
  BY DEF CpRxEvent, TypeOK, Frame
<1>2. /\ Head(toCp) \in Frame /\ Tail(toCp) \in Seq(Frame)
      /\ Len(Tail(toCp)) <= MaxFlight
  BY <1>1, TailProperties, BoundsAssumption
<1>3. Head(toCp).event \in Event /\ Head(toCp).sequence \in Event
  BY <1>2 DEF Frame
<1>4. toMp' \in Seq(Event) /\ Len(toMp') <= MaxFlight
  BY <1>1, <1>3, SentProperties DEF CpRxEvent
<1>5. Append(log, Head(toCp).event) \in Seq(Event)
  BY <1>1, <1>3, AppendProperties
<1>6. log' \in Seq(Event)
  BY <1>1, <1>5 DEF CpRxEvent, cpVars
<1>7. lastReceivedEventSequence' \in 0..MaxFaults
  <2>1. \/ lastReceivedEventSequence' = Head(toCp).sequence
        \/ lastReceivedEventSequence' = lastReceivedEventSequence
    BY DEF CpRxEvent, cpVars
  <2> QED
    BY <1>1, <1>3, <2>1 DEF Event
<1>8. toCp' = Tail(toCp) /\ UNCHANGED <<mpVars, envVars>>
  BY DEF CpRxEvent
<1> QED
  BY <1>2, <1>4, <1>6, <1>7, <1>8 DEF TypeOK, recorded, Frame, mpVars, envVars

LEMMA NextTypes == TypeOK /\ [Next]_vars => TypeOK'
<1> SUFFICES ASSUME TypeOK, [Next]_vars PROVE TypeOK'
  OBVIOUS
<1> USE BoundsAssumption DEF TypeOK, recorded, mpVars, cpVars, envVars
<1>1. CASE OnFault
  <2>1. 1..totalFaults \subseteq 1..(totalFaults + 1)
    BY DEF TypeOK
  <2>2. eventQueue \in Seq(1..(totalFaults + 1))
    BY <2>1, SeqMonotonic
  <2> QED
    BY <1>1, <2>2 DEF OnFault
<1>2. CASE MpStep
  BY <1>2, MpStepTypes
<1>3. CASE MpRxEventAck
  BY <1>3, MpRxEventAckTypes
<1>4. CASE CpRxEvent
  BY <1>4, CpRxEventTypes
<1>5. CASE LoseFrame
  <2>1. toCp \in Seq(Frame) /\ toMp \in Seq(Event)
    BY DEF Frame
  <2>2. toCp' \in Seq(Frame) /\ Len(toCp') <= MaxFlight
    BY <1>5, <2>1, RequeueProperties DEF LoseFrame
  <2>3. toMp' \in Seq(Event) /\ Len(toMp') <= MaxFlight
    BY <1>5, <2>1, RequeueProperties DEF LoseFrame
  <2>4. /\ UNCHANGED <<mpVars, cpVars, mpRestarts, cpRestarts>>
        /\ requeues' \in 0..MaxRequeues
    BY <1>5 DEF LoseFrame
  <2> QED
    BY <2>2, <2>3, <2>4 DEF Frame
<1>6. CASE Requeue
  <2>1. toCp \in Seq(Frame) /\ toMp \in Seq(Event)
    BY DEF Frame
  <2>2. toCp' \in Seq(Frame) /\ Len(toCp') <= MaxFlight
    BY <1>6, <2>1, RequeueProperties DEF Requeue
  <2>3. toMp' \in Seq(Event) /\ Len(toMp') <= MaxFlight
    BY <1>6, <2>1, RequeueProperties DEF Requeue
  <2>4. /\ UNCHANGED <<mpVars, cpVars, mpRestarts, cpRestarts>>
        /\ requeues' \in 0..MaxRequeues
    BY <1>6 DEF Requeue
  <2> QED
    BY <2>2, <2>3, <2>4 DEF Frame
<1>7. CASE MpRestart
  <2>1. <<>> \in Seq(1..0) /\ Len(<<>>) = 0
    BY EmptySeq
  <2> QED
    BY <1>7, <2>1, CapacityAssumption DEF MpRestart
<1>8. CASE CpRestart
  BY <1>8 DEF CpRestart
<1>9. CASE UNCHANGED vars
  BY <1>9 DEF vars
<1> QED
  BY <1>1, <1>2, <1>3, <1>4, <1>5, <1>6, <1>7, <1>8, <1>9 DEF Next

\* Every variable of the stream keeps its type, whoever restarts.
THEOREM StreamTypes == Spec => []TypeOK
BY InitTypes, NextTypes, PTL DEF Spec

-----------------------------------------------------------------------------
(* What is acknowledged is in the log *)

InLog ==
  /\ earlier = 0
  /\ toCp \in Seq(OwnFrame)
  /\ toMp \in Seq(Range(log))
  /\ lastReceivedEventSequence # 0 => lastReceivedEventSequence \in Range(log)
  /\ acked \subseteq Range(log)

IInv == TypeOK /\ (mpRestarts = 0 => InLog)

LEMMA NextKeeps ==
  ASSUME TypeOK, InLog, [Next]_vars, mpRestarts' = 0
  PROVE  InLog'
<1> USE BoundsAssumption DEF InLog, mpVars, cpVars, envVars
<1>1. TypeOK'
  BY NextTypes
<1>2. CASE OnFault
  BY <1>1, <1>2 DEF OnFault
<1>3. CASE MpStep
  <2> DEFINE pending == Loaded(pendingEvent, Captured.queue).pending
  <2>1. pending \in 0..totalFaults /\ totalFaults \in 0..MaxFaults /\ Len(toCp) <= MaxFlight
    BY CapturedProperties, LoadedProperties DEF TypeOK
  <2>2. CASE pending = 0
    BY <1>1, <1>3, <2>2 DEF MpStep
  <2>3. CASE pending # 0
    <3>1. [event |-> earlier + pending, sequence |-> pending] \in OwnFrame
      BY <2>1, <2>3 DEF OwnFrame, Frame, Event
    <3>2. toCp' \in Seq(OwnFrame)
      BY <1>3, <2>1, <2>3, <3>1, SentProperties DEF MpStep
    <3> QED
      BY <1>1, <1>3, <3>2 DEF MpStep
  <2> QED
    BY <2>2, <2>3
<1>4. CASE MpRxEventAck
  <2>1. Head(toMp) \in Range(log) /\ toMp' \in Seq(Range(log))
    BY <1>4, TailProperties DEF MpRxEventAck
  <2>2. acked' \subseteq Range(log)
    BY <1>4, <2>1 DEF MpRxEventAck, AckMatches, TypeOK
  <2> QED
    BY <1>1, <1>4, <2>1, <2>2 DEF MpRxEventAck
<1>5. CASE CpRxEvent
  <2> DEFINE frame == Head(toCp)
  <2>1. /\ frame \in OwnFrame /\ toCp' \in Seq(OwnFrame)
        /\ frame.sequence \in Event /\ frame.sequence # 0 /\ frame.event = frame.sequence
    BY <1>5, TailProperties DEF CpRxEvent, OwnFrame, Frame, Event
  <2>2. log \in Seq(Event) /\ Len(toMp) <= MaxFlight
    BY DEF TypeOK
  <2>3. Range(log) \subseteq Range(log') /\ frame.sequence \in Range(log')
    <3>1. CASE IsNew(frame.sequence)
      <4>1. log' = Append(log, frame.event)
        BY <1>5, <3>1 DEF CpRxEvent
      <4>2. Range(log) = {log[i] : i \in 1..Len(log)}
        BY <2>2, RangeEquality
      <4>3. Range(log') = {log'[i] : i \in 1..Len(log')}
        BY <1>1, RangeEquality DEF TypeOK
      <4>4. /\ Len(log) \in Nat /\ Len(log') = Len(log) + 1
            /\ \A i \in 1..Len(log) : log'[i] = log[i]
            /\ log'[Len(log) + 1] = frame.sequence
        BY <2>1, <2>2, <4>1, AppendProperties, LenProperties
      <4>5. \A i \in 1..Len(log) : i \in 1..Len(log') /\ log[i] = log'[i]
        BY <4>4
      <4>6. Len(log) + 1 \in 1..Len(log')
        BY <4>4
      <4> QED
        BY <4>2, <4>3, <4>4, <4>5, <4>6
    <3>2. CASE ~IsNew(frame.sequence)
      BY <1>5, <2>1, <3>2 DEF CpRxEvent, IsNew
    <3> QED
      BY <3>1, <3>2
  <2>4. toMp \in Seq(Range(log'))
    BY <2>3, SeqMonotonic
  <2>5. toMp' \in Seq(Range(log'))
    BY <1>5, <2>2, <2>3, <2>4, SentProperties DEF CpRxEvent
  <2>6. lastReceivedEventSequence' # 0 => lastReceivedEventSequence' \in Range(log')
    BY <1>5, <2>3 DEF CpRxEvent
  <2> QED
    BY <1>1, <1>5, <2>1, <2>3, <2>5, <2>6 DEF CpRxEvent
<1>6. CASE LoseFrame
  <2> Len(toCp) <= MaxFlight /\ Len(toMp) <= MaxFlight
    BY DEF TypeOK
  <2>1. toCp' \in Seq(OwnFrame) /\ toMp' \in Seq(Range(log))
    BY <1>6, RequeueProperties DEF LoseFrame
  <2> QED
    BY <1>1, <1>6, <2>1 DEF LoseFrame
<1>7. CASE Requeue
  <2> Len(toCp) <= MaxFlight /\ Len(toMp) <= MaxFlight
    BY DEF TypeOK
  <2>1. toCp' \in Seq(OwnFrame) /\ toMp' \in Seq(Range(log))
    BY <1>7, RequeueProperties DEF Requeue
  <2> QED
    BY <1>1, <1>7, <2>1 DEF Requeue
<1>8. CASE MpRestart
  BY <1>8 DEF MpRestart, TypeOK
<1>9. CASE CpRestart
  BY <1>1, <1>9 DEF CpRestart
<1>10. CASE UNCHANGED vars
  BY <1>1, <1>10 DEF vars
<1> QED
  BY <1>2, <1>3, <1>4, <1>5, <1>6, <1>7, <1>8, <1>9, <1>10 DEF Next

LEMMA InvariantKept == IInv /\ [Next]_vars => IInv'
<1> SUFFICES ASSUME IInv, [Next]_vars PROVE IInv'
  OBVIOUS
<1>1. TypeOK /\ TypeOK'
  BY NextTypes DEF IInv
<1>2. ASSUME mpRestarts' = 0 PROVE mpRestarts = 0
  <2>1. mpRestarts' = mpRestarts \/ mpRestarts' = mpRestarts + 1
    BY DEF Next, OnFault, MpStep, MpRxEventAck, CpRxEvent, LoseFrame, Requeue, MpRestart,
           CpRestart, vars, envVars
  <2> QED
    BY <1>1, <1>2, <2>1 DEF TypeOK
<1> QED
  BY <1>1, <1>2, NextKeeps DEF IInv

\* Until MP restarts, an event it drops as acknowledged is in CP's log, whatever is
\* lost, repeated or overtaken and however often CP restarts.
THEOREM AcknowledgedEventsAreLogged == Spec => []AckedIsLoggedThisBoot
<1>1. Init => IInv
  <2> SUFFICES ASSUME Init PROVE IInv
    OBVIOUS
  <2>1. \A S : <<>> \in Seq(S)
    BY EmptySeq
  <2> QED
    BY <2>1, InitTypes DEF Init, IInv, InLog
<1>2. IInv => AckedIsLoggedThisBoot
  BY DEF IInv, InLog, AckedIsLoggedThisBoot
<1> QED
  BY <1>1, <1>2, InvariantKept, PTL DEF Spec

-----------------------------------------------------------------------------
(* Events are handled in the order they were recorded in *)

Increasing(s)    == \A i, j \in 1..Len(s) : i < j => s[i] < s[j]
NotDecreasing(s) == \A i, j \in 1..Len(s) : i <= j => s[i] <= s[j]

\* What MP still owes after taking event p: its queue q, then the events from
\* number n on.
Ordered(p, q, n) ==
  /\ Increasing(q)
  /\ \A i \in 1..Len(q) : q[i] < n
  /\ p # 0 => p < n /\ \A i \in 1..Len(q) : p < q[i]

\* Event e comes before all of them; it may be the pending one.  MP's numbers
\* count from b.
Before(e, b, p, q, n) ==
  /\ p # 0 => e <= b + p
  /\ \A i \in 1..Len(q) : e < b + q[i]
  /\ e < b + n

QueueInOrder == Ordered(pendingEvent, eventQueue, nextEventSequenceToQueue)
Past(e)      == Before(e, earlier, pendingEvent, eventQueue, nextEventSequenceToQueue)
PastNext(e)  == Before(e, earlier', pendingEvent', eventQueue', nextEventSequenceToQueue')

\* The loop of CaptureFaultEvents keeps the order and passes no event.
LEMMA CapturedInOrder ==
  ASSUME TypeOK, QueueInOrder
  PROVE  /\ Ordered(pendingEvent, Captured.queue, Captured.next)
         /\ \A e \in Nat : Past(e) => Before(e, earlier, pendingEvent, Captured.queue, Captured.next)
<1> DEFINE next    == nextEventSequenceToQueue
           waiting == totalFaults + 1 - next
           n       == Least(waiting, Capacity - Len(eventQueue))
           taken   == Numbers(next, n)
           queue   == eventQueue \o taken
<1>1. /\ totalFaults \in Nat /\ earlier \in Nat /\ pendingEvent \in Nat
      /\ next \in 1..(totalFaults + 1)
      /\ Capacity \in Nat /\ Len(eventQueue) \in Nat /\ Len(eventQueue) <= Capacity
      /\ eventQueue \in Seq(1..totalFaults)
  BY CapacityAssumption, LenProperties DEF TypeOK
<1>2. n \in Nat /\ n <= waiting
  BY <1>1 DEF Least
<1> HIDE DEF n
<1>3. taken \in Seq(1..totalFaults) /\ Len(taken) = n
      /\ \A i \in 1..n : taken[i] = next + i - 1
  <2>1. \A i \in 1..n : next + i - 1 \in 1..totalFaults
    BY <1>1, <1>2
  <2> QED
    BY <1>1, <1>2, <2>1, NumbersProperties DEF Numbers
<1> HIDE DEF taken
<1>4. /\ Len(queue) = Len(eventQueue) + n
      /\ \A i \in 1..Len(eventQueue) + n :
           queue[i] = IF i <= Len(eventQueue) THEN eventQueue[i]
                      ELSE next + (i - Len(eventQueue)) - 1
  <2>1. /\ Len(queue) = Len(eventQueue) + Len(taken)
        /\ \A i \in 1..Len(eventQueue) + Len(taken) :
             queue[i] = IF i <= Len(eventQueue) THEN eventQueue[i]
                        ELSE taken[i - Len(eventQueue)]
    BY <1>1, <1>3, ConcatProperties
  <2> QED
    BY <1>1, <1>2, <1>3, <2>1
<1> HIDE DEF queue
<1>5. \A i \in 1..Len(eventQueue) : eventQueue[i] \in Nat
  BY <1>1, ElementOfSeq
<1>6. Ordered(pendingEvent, queue, next + n)
  <2> DEFINE k == Len(eventQueue)
  <2>1. /\ \A i, j \in 1..k : i < j => eventQueue[i] < eventQueue[j]
        /\ \A i \in 1..k : eventQueue[i] < next
        /\ pendingEvent # 0 => pendingEvent < next /\ \A i \in 1..k : pendingEvent < eventQueue[i]
    BY DEF QueueInOrder, Ordered, Increasing
  <2>2. \A i \in 1..k + n : i \in 1..k \/ (~(i <= k) /\ i - k \in 1..n)
    BY <1>1, <1>2
  <2>3. k \in Nat /\ next \in Nat /\ next + n \in Nat
    BY <1>1, <1>2
  <2> HIDE DEF k, next
  <2>4. \A i \in 1..k + n : queue[i] = IF i <= k THEN eventQueue[i] ELSE next + (i - k) - 1
    BY <1>4 DEF k
  <2>5. ASSUME NEW i \in 1..k + n, NEW j \in 1..k + n, i < j PROVE queue[i] < queue[j]
    <3>1. CASE j \in 1..k
      BY <1>5, <2>1, <2>3, <2>4, <2>5, <3>1
    <3>2. CASE i \in 1..k /\ ~(j <= k)
      BY <1>5, <2>1, <2>2, <2>3, <2>4, <2>5, <3>2 DEF k
    <3>3. CASE ~(i <= k) /\ ~(j <= k)
      BY <2>3, <2>4, <2>5, <3>3
    <3> QED
      BY <2>2, <2>3, <2>5, <3>1, <3>2, <3>3
  <2>6. ASSUME NEW i \in 1..k + n
        PROVE  queue[i] < next + n /\ (pendingEvent # 0 => pendingEvent < queue[i])
    <3>1. CASE i \in 1..k
      BY <1>1, <1>2, <1>5, <2>1, <2>3, <2>4, <3>1 DEF k
    <3>2. CASE ~(i <= k) /\ i - k \in 1..n
      BY <1>1, <1>2, <2>1, <2>3, <2>4, <3>2
    <3> QED
      BY <2>2, <3>1, <3>2
  <2>7. pendingEvent # 0 => pendingEvent < next + n
    BY <1>1, <1>2, <2>1, <2>3
  <2> QED
    BY <1>4, <2>5, <2>6, <2>7 DEF Ordered, Increasing, k
<1>7. \A e \in Nat : Past(e) => Before(e, earlier, pendingEvent, queue, next + n)
  BY <1>1, <1>2, <1>4, <1>5 DEF Past, Before
<1>8. Ordered(pendingEvent, eventQueue, totalFaults + 1)
  BY <1>1, <1>5 DEF QueueInOrder, Ordered
<1>9. \A e \in Nat : Past(e) => Before(e, earlier, pendingEvent, eventQueue, totalFaults + 1)
  BY <1>1 DEF Past, Before
<1>10. \/ Captured = [queue |-> eventQueue, next |-> totalFaults + 1]
       \/ Captured = [queue |-> queue, next |-> next + n]
  BY DEF Captured, n, taken, queue
<1> QED
  BY <1>6, <1>7, <1>8, <1>9, <1>10

\* Taking the head of the queue as the pending event keeps the order.
LEMMA LoadedInOrder ==
  ASSUME NEW p \in Nat, NEW q \in Seq(Nat \ {0}), NEW n \in Nat, Ordered(p, q, n),
         earlier \in Nat
  PROVE  LET loaded == Loaded(p, q)
         IN  /\ Ordered(loaded.pending, loaded.queue, n)
             /\ \A e \in Nat : Before(e, earlier, p, q, n) => Before(e, earlier, loaded.pending, loaded.queue, n)
             /\ p # 0 => loaded.pending = p
<1>1. CASE p = 0 /\ q # <<>>
  <2>1. /\ Len(q) \in Nat /\ Len(q) > 0 /\ Head(q) = q[1]
        /\ Len(Tail(q)) = Len(q) - 1
        /\ \A i \in 1..Len(Tail(q)) : Tail(q)[i] = q[i + 1]
    BY <1>1, HeadTailProperties, LenProperties, EmptySeq
  <2>2. \A i \in 1..Len(q) : q[i] \in Nat \ {0}
    BY ElementOfSeq
  <2>3. Ordered(q[1], Tail(q), n)
    BY <2>1, <2>2 DEF Ordered, Increasing
  <2>4. \A e \in Nat : Before(e, earlier, p, q, n) => Before(e, earlier, q[1], Tail(q), n)
    BY <2>1, <2>2 DEF Before
  <2> QED
    BY <1>1, <2>1, <2>3, <2>4 DEF Loaded
<1>2. CASE ~(p = 0 /\ q # <<>>)
  BY <1>2 DEF Loaded
<1> QED
  BY <1>1, <1>2

\* While no frame is overtaken, the log and then the frames on their way are in the
\* order of the events, and all come before what MP owes.
StreamInOrder ==
  /\ \A i \in 1..Len(log) : Past(log[i])
  /\ NotDecreasing(log)
  /\ \A j \in 1..Len(toCp) : Past(toCp[j].event)
  /\ \A i, j \in 1..Len(toCp) : i <= j => toCp[i].event <= toCp[j].event
  /\ \A i \in 1..Len(log), j \in 1..Len(toCp) : log[i] <= toCp[j].event

\* Two frames of one event have one number, and that of the last event logged is
\* the number CP remembers, if it has not restarted since.
SameNumber ==
  /\ \A i \in 1..Len(toCp) :
       toCp[i].event > earlier => toCp[i].event = earlier + toCp[i].sequence
  /\ \A i, j \in 1..Len(toCp) :
       toCp[i].event = toCp[j].event => toCp[i].sequence = toCp[j].sequence
  /\ log # <<>> /\ lastReceivedEventSequence # 0 =>
       /\ Last(log) > earlier => Last(log) = earlier + lastReceivedEventSequence
       /\ \A j \in 1..Len(toCp) :
            toCp[j].event = Last(log) => toCp[j].sequence = lastReceivedEventSequence

\* Only a restart makes CP forget the number of the last event it logged.
Remembers == cpRestarts = 0 /\ log # <<>> => lastReceivedEventSequence # 0

OrderInv ==
  /\ TypeOK /\ QueueInOrder /\ Remembers
  /\ requeues = 0 => StreamInOrder /\ SameNumber

\* The elements of after are elements of before, in that order.
Thinned(after, before) ==
  \A i, j \in 1..Len(after) : i <= j =>
    \E k, l \in 1..Len(before) : k <= l /\ after[i] = before[k] /\ after[j] = before[l]

LEMMA ThinnedProperties ==
  ASSUME NEW S, NEW s \in Seq(S)
  PROVE  /\ Thinned(s, s)
         /\ s # <<>> => Thinned(Tail(s), s)
         /\ \A k \in DOMAIN s : Thinned(RemoveAt(s, k), s)
<1>1. Len(s) \in Nat /\ DOMAIN s = 1..Len(s)
  BY LenProperties
<1>2. Thinned(s, s)
  BY DEF Thinned
<1>3. ASSUME s # <<>> PROVE Thinned(Tail(s), s)
  <2>1. /\ Len(Tail(s)) = Len(s) - 1
        /\ \A i \in 1..Len(Tail(s)) : Tail(s)[i] = s[i + 1]
    BY <1>3, HeadTailProperties
  <2> SUFFICES ASSUME NEW i \in 1..Len(Tail(s)), NEW j \in 1..Len(Tail(s)), i <= j
               PROVE  \E k, l \in 1..Len(s) :
                        k <= l /\ Tail(s)[i] = s[k] /\ Tail(s)[j] = s[l]
    BY DEF Thinned
  <2>2. i + 1 \in 1..Len(s) /\ j + 1 \in 1..Len(s) /\ i + 1 <= j + 1
    BY <1>1, <2>1
  <2> QED
    BY <2>1, <2>2
<1>4. ASSUME NEW r \in DOMAIN s PROVE Thinned(RemoveAt(s, r), s)
  <2> DEFINE after == RemoveAt(s, r)
             from(i) == IF i < r THEN i ELSE i + 1
  <2>1. /\ Len(after) = Len(s) - 1
        /\ \A i \in 1..Len(s) - 1 : after[i] = IF i < r THEN s[i] ELSE s[i + 1]
    BY <1>1, RemoveAtProperties
  <2> HIDE DEF after
  <2>2. \A i \in 1..Len(after) : from(i) \in 1..Len(s) /\ after[i] = s[from(i)]
    BY <1>1, <2>1
  <2>3. \A i, j \in 1..Len(after) : i <= j => from(i) <= from(j)
    BY <1>1, <2>1
  <2> HIDE DEF from
  <2>4. Thinned(after, s)
    BY <2>2, <2>3 DEF Thinned
  <2> QED
    BY <2>4 DEF after
<1> QED
  BY <1>2, <1>3, <1>4

LEMMA FrameTypes ==
  ASSUME TypeOK
  PROVE  /\ toCp \in Seq(Frame) /\ Len(toCp) \in Nat
         /\ \A i \in 1..Len(toCp) :
              toCp[i] \in Frame /\ toCp[i].event \in Nat /\ toCp[i].sequence \in Nat
         /\ log \in Seq(Event) /\ Len(log) \in Nat
         /\ \A i \in 1..Len(log) : log[i] \in Nat
         /\ log # <<>> => Len(log) \in 1..Len(log) /\ Last(log) = log[Len(log)]
         /\ earlier \in Nat /\ totalFaults \in Nat /\ pendingEvent \in 0..totalFaults
         /\ nextEventSequenceToQueue \in 1..(totalFaults + 1)
         /\ eventQueue \in Seq(1..totalFaults)
         /\ lastReceivedEventSequence \in Nat
<1>1. toCp \in Seq(Frame) /\ log \in Seq(Event)
  BY DEF TypeOK, Frame
<1>2. /\ Len(toCp) \in Nat /\ \A i \in 1..Len(toCp) : toCp[i] \in Frame
      /\ Len(log) \in Nat /\ \A i \in 1..Len(log) : log[i] \in Event
  BY <1>1, LenProperties, ElementOfSeq
<1>3. \A f \in Frame : f.event \in Nat /\ f.sequence \in Nat
  BY DEF Frame, Event
<1>4. log # <<>> => Len(log) > 0
  BY <1>1, EmptySeq
<1>5. /\ earlier \in Nat /\ totalFaults \in Nat /\ pendingEvent \in 0..totalFaults
      /\ nextEventSequenceToQueue \in 1..(totalFaults + 1)
      /\ eventQueue \in Seq(1..totalFaults) /\ lastReceivedEventSequence \in Nat
  BY BoundsAssumption DEF TypeOK
<1> QED
  BY <1>1, <1>2, <1>3, <1>4, <1>5 DEF Event, Last

\* Frames are lost, MP's queue moves on: the log stands.
LEMMA StreamThinned ==
  ASSUME TypeOK, StreamInOrder, SameNumber, Thinned(toCp', toCp),
         UNCHANGED <<earlier, cpVars>>, \A e \in Nat : Past(e) => PastNext(e)
  PROVE  StreamInOrder' /\ SameNumber'
<1> USE FrameTypes DEF cpVars
<1>1. \A j \in 1..Len(toCp') : \E l \in 1..Len(toCp) : toCp'[j] = toCp[l]
  <2> TAKE j \in 1..Len(toCp')
  <2>1. j <= j
    BY LenProperties
  <2> QED
    BY <2>1 DEF Thinned
<1>2. StreamInOrder'
  <2>1. \A i \in 1..Len(log') : PastNext(log'[i])
    BY DEF StreamInOrder
  <2>2. NotDecreasing(log')
    BY DEF StreamInOrder
  <2>3. \A j \in 1..Len(toCp') : PastNext(toCp'[j].event)
    BY <1>1 DEF StreamInOrder
  <2>4. \A i, j \in 1..Len(toCp') : i <= j => toCp'[i].event <= toCp'[j].event
    BY DEF StreamInOrder, Thinned
  <2>5. \A i \in 1..Len(log'), j \in 1..Len(toCp') : log'[i] <= toCp'[j].event
    BY <1>1 DEF StreamInOrder
  <2> QED
    BY <2>1, <2>2, <2>3, <2>4, <2>5 DEF StreamInOrder, Past, PastNext
<1>3. SameNumber'
  <2>1. \A i \in 1..Len(toCp') :
          toCp'[i].event > earlier => toCp'[i].event = earlier + toCp'[i].sequence
    BY <1>1 DEF SameNumber
  <2>2. \A i, j \in 1..Len(toCp') :
          toCp'[i].event = toCp'[j].event => toCp'[i].sequence = toCp'[j].sequence
    <3> TAKE i, j \in 1..Len(toCp')
    <3>1. PICK k \in 1..Len(toCp) : toCp'[i] = toCp[k]
      BY <1>1
    <3>2. PICK l \in 1..Len(toCp) : toCp'[j] = toCp[l]
      BY <1>1
    <3> QED
      BY <3>1, <3>2 DEF SameNumber
  <2>3. log # <<>> /\ lastReceivedEventSequence # 0 =>
          \A j \in 1..Len(toCp') :
            toCp'[j].event = Last(log) => toCp'[j].sequence = lastReceivedEventSequence
    <3> SUFFICES ASSUME log # <<>>, lastReceivedEventSequence # 0,
                        NEW j \in 1..Len(toCp'), toCp'[j].event = Last(log)
                 PROVE  toCp'[j].sequence = lastReceivedEventSequence
      OBVIOUS
    <3>1. PICK l \in 1..Len(toCp) : toCp'[j] = toCp[l]
      BY <1>1
    <3> QED
      BY <3>1 DEF SameNumber
  <2> QED
    BY <2>1, <2>2, <2>3 DEF SameNumber
<1> QED
  BY <1>2, <1>3

\* The pending event is sent, again or for the first time.
LEMMA StreamSent ==
  ASSUME TypeOK, QueueInOrder', StreamInOrder, SameNumber,
         NEW p \in Nat \ {0}, pendingEvent' = p,
         eventQueue' \in Seq(Nat),
         NEW next \in Nat, nextEventSequenceToQueue' = next,
         NEW frame \in Frame,
         frame.event = earlier + p, frame.sequence = p,
         toCp' = Append(toCp, frame),
         UNCHANGED <<earlier, cpVars>>, \A e \in Nat : Past(e) => PastNext(e)
  PROVE  StreamInOrder' /\ SameNumber'
<1> DEFINE n == Len(toCp)
<1>0. /\ toCp \in Seq(Frame) /\ n \in Nat
      /\ \A i \in 1..n : toCp[i].event \in Nat /\ toCp[i].sequence \in Nat
      /\ \A i \in 1..Len(log) : log[i] \in Nat
      /\ log # <<>> => Last(log) \in Nat
      /\ earlier \in Nat /\ lastReceivedEventSequence \in Nat
      /\ earlier' = earlier /\ log' = log
      /\ lastReceivedEventSequence' = lastReceivedEventSequence
  BY FrameTypes DEF cpVars
<1>1. /\ Len(toCp') = n + 1 /\ n \in Nat
      /\ \A i \in 1..n : toCp'[i] = toCp[i]
      /\ toCp'[n + 1] = frame
  BY <1>0, AppendProperties
<1>2. frame.event \in Nat /\ frame.sequence \in Nat
  BY DEF Frame, Event
<1>3. PastNext(frame.event)
  <2>1. \A i \in 1..Len(eventQueue') : eventQueue'[i] \in Nat /\ p < eventQueue'[i]
    BY <1>0, ElementOfSeq DEF QueueInOrder, Ordered
  <2>2. p < next
    BY <1>0 DEF QueueInOrder, Ordered
  <2>3. \A i \in 1..Len(eventQueue') : earlier + p < earlier + eventQueue'[i]
    BY <1>0, <2>1
  <2>4. earlier + p < earlier + next
    BY <1>0, <2>2
  <2> QED
    BY <1>0, <2>3, <2>4 DEF PastNext, Before
<1>4. \A e \in Nat : PastNext(e) => e <= frame.event
  BY <1>0, <1>2 DEF PastNext, Before
<1> HIDE DEF n
<1>5. \A i \in 1..n + 1 : i \in 1..n \/ i = n + 1
  BY <1>0, <1>1
<1>6. /\ \A i \in 1..n : PastNext(toCp[i].event)
      /\ \A i \in 1..Len(log) : PastNext(log[i])
  BY <1>0 DEF StreamInOrder, n
<1>7. StreamInOrder'
  <2>1. NotDecreasing(log')
    BY <1>0 DEF StreamInOrder
  <2>2. \A j \in 1..n + 1 : PastNext(toCp'[j].event)
    BY <1>0, <1>1, <1>3, <1>5, <1>6
  <2>3. \A i, j \in 1..n + 1 : i <= j => toCp'[i].event <= toCp'[j].event
    <3> SUFFICES ASSUME NEW i \in 1..n + 1, NEW j \in 1..n + 1, i <= j
                 PROVE  toCp'[i].event <= toCp'[j].event
      OBVIOUS
    <3>1. CASE j \in 1..n
      <4>1. i \in 1..n
        BY <1>0, <1>1, <3>1
      <4> QED
        BY <1>0, <1>1, <3>1, <4>1 DEF StreamInOrder, n
    <3>2. CASE i \in 1..n /\ j = n + 1
      BY <1>0, <1>1, <1>4, <1>6, <3>2 DEF n
    <3>3. CASE i = n + 1 /\ j = n + 1
      BY <1>0, <1>1, <1>2, <3>3
    <3> QED
      BY <1>0, <1>1, <1>5, <3>1, <3>2, <3>3
  <2>4. \A i \in 1..Len(log), j \in 1..n + 1 : log[i] <= toCp'[j].event
    <3> TAKE i \in 1..Len(log), j \in 1..n + 1
    <3>1. CASE j \in 1..n
      BY <1>0, <1>1, <3>1 DEF StreamInOrder, n
    <3>2. CASE j = n + 1
      BY <1>0, <1>1, <1>4, <1>6, <3>2
    <3> QED
      BY <1>0, <1>5, <3>1, <3>2
  <2> QED
    BY <1>0, <1>1, <1>6, <2>1, <2>2, <2>3, <2>4 DEF StreamInOrder, Past, PastNext
<1>8. SameNumber'
  <2>1. \A i \in 1..n + 1 : toCp'[i].event \in Nat
          /\ (toCp'[i].event > earlier => toCp'[i].event = earlier + toCp'[i].sequence)
    BY <1>0, <1>1, <1>2, <1>5 DEF SameNumber, n
  <2>2. frame.event > earlier
    BY <1>0, <1>2
  <2>3. \A i \in 1..n + 1 : toCp'[i].sequence \in Nat
    BY <1>0, <1>1, <1>2, <1>5 DEF n
  <2>4. \A i \in 1..n + 1 : toCp'[i].event = frame.event => toCp'[i].sequence = frame.sequence
    <3> TAKE i \in 1..n + 1
    <3> HAVE toCp'[i].event = frame.event
    <3>1. earlier + toCp'[i].sequence = earlier + p
      BY <1>0, <1>2, <2>1, <2>2
    <3>2. toCp'[i].sequence \in Nat
      BY <2>3
    <3>3. toCp'[i].sequence = p
      BY ONLY <1>0, <3>1, <3>2, p \in Nat \ {0}
    <3> QED
      BY <3>3
  <2>5. \A i, j \in 1..n + 1 :
          toCp'[i].event = toCp'[j].event => toCp'[i].sequence = toCp'[j].sequence
    <3> TAKE i, j \in 1..n + 1
    <3>1. CASE i \in 1..n /\ j \in 1..n
      BY <1>0, <1>1, <3>1 DEF SameNumber, n
    <3>2. CASE i = n + 1
      BY <1>0, <1>1, <2>4, <3>2
    <3>3. CASE j = n + 1
      BY <1>0, <1>1, <2>4, <3>3
    <3> QED
      BY <1>0, <1>5, <3>1, <3>2, <3>3
  <2>6. log # <<>> /\ lastReceivedEventSequence # 0 => \A j \in 1..n + 1 :
          toCp'[j].event = Last(log) => toCp'[j].sequence = lastReceivedEventSequence
    <3> SUFFICES ASSUME log # <<>>, lastReceivedEventSequence # 0,
                        NEW j \in 1..n + 1, toCp'[j].event = Last(log)
                 PROVE  toCp'[j].sequence = lastReceivedEventSequence
      OBVIOUS
    <3>1. CASE j \in 1..n
      BY <1>0, <1>1, <3>1 DEF SameNumber, n
    <3>2. CASE j = n + 1
      <4>1. Last(log) = frame.event
        BY <1>0, <1>1, <3>2
      <4>2. Last(log) = earlier + lastReceivedEventSequence
        BY <1>0, <2>2, <4>1 DEF SameNumber
      <4> QED
        BY <1>0, <1>1, <1>2, <3>2, <4>1, <4>2
    <3> QED
      BY <1>0, <1>5, <3>1, <3>2
  <2>7. \A i \in 1..Len(toCp') :
          toCp'[i].event > earlier' => toCp'[i].event = earlier' + toCp'[i].sequence
    BY <1>0, <1>1, <2>1
  <2>8. \A i, j \in 1..Len(toCp') :
          toCp'[i].event = toCp'[j].event => toCp'[i].sequence = toCp'[j].sequence
    BY <1>1, <2>5
  <2>9. log # <<>> /\ lastReceivedEventSequence # 0 =>
          (Last(log) > earlier' => Last(log) = earlier' + lastReceivedEventSequence)
    BY <1>0 DEF SameNumber
  <2>10. log # <<>> /\ lastReceivedEventSequence # 0 =>
           \A j \in 1..Len(toCp') :
             toCp'[j].event = Last(log) => toCp'[j].sequence = lastReceivedEventSequence
    BY <1>1, <2>6
  <2>11. log' = log /\ lastReceivedEventSequence' = lastReceivedEventSequence
    BY <1>0
  <2> QED
    BY ONLY <2>7, <2>8, <2>9, <2>10, <2>11 DEF SameNumber
<1> QED
  BY <1>0, <1>7, <1>8

\* An event CP logs comes after every one in its log, if it remembers the last.
LEMMA NewIsLater ==
  ASSUME TypeOK, StreamInOrder, SameNumber, toCp # <<>>, IsNew(Head(toCp).sequence),
         log # <<>> => lastReceivedEventSequence # 0
  PROVE  \A i \in 1..Len(log) : log[i] < Head(toCp).event
<1>1. /\ Len(toCp) \in Nat /\ 1 \in 1..Len(toCp) /\ Head(toCp) = toCp[1]
      /\ toCp[1].event \in Nat
  BY FrameTypes, EmptySeq
<1>2. /\ Len(log) \in Nat /\ \A i \in 1..Len(log) : log[i] \in Nat
      /\ log # <<>> => Len(log) \in 1..Len(log) /\ Last(log) = log[Len(log)]
  BY FrameTypes
<1>3. \A i \in 1..Len(log) : log[i] <= toCp[1].event
  BY <1>1 DEF StreamInOrder
<1>4. log # <<>> => log[Len(log)] # toCp[1].event
  BY <1>1, <1>2 DEF SameNumber, IsNew
<1> SUFFICES ASSUME NEW i \in 1..Len(log) PROVE log[i] < toCp[1].event
  BY <1>1
<1>5. log # <<>>
  BY <1>2
<1>6. log[i] <= log[Len(log)]
  BY <1>2, <1>5 DEF StreamInOrder, NotDecreasing
<1> QED
  BY <1>1, <1>2, <1>3, <1>4, <1>5, <1>6

LEMMA StreamLogged ==
  ASSUME TypeOK, StreamInOrder, SameNumber, CpRxEvent, IsNew(Head(toCp).sequence)
  PROVE  StreamInOrder' /\ SameNumber'
<1> DEFINE n == Len(toCp)
           m == Len(log)
<1>1. /\ toCp \in Seq(Frame) /\ n \in Nat /\ log \in Seq(Event) /\ m \in Nat
      /\ \A i \in 1..n :
           toCp[i] \in Frame /\ toCp[i].event \in Nat /\ toCp[i].sequence \in Nat
      /\ \A i \in 1..m : log[i] \in Nat
      /\ earlier \in Nat
  BY FrameTypes
<1>2. /\ toCp # <<>> /\ toCp' = Tail(toCp) /\ log' = Append(log, Head(toCp).event)
      /\ lastReceivedEventSequence' = Head(toCp).sequence
      /\ earlier' = earlier /\ pendingEvent' = pendingEvent /\ eventQueue' = eventQueue
      /\ nextEventSequenceToQueue' = nextEventSequenceToQueue
  BY DEF CpRxEvent, mpVars
<1>3. /\ 1 \in 1..n /\ Head(toCp) = toCp[1]
      /\ Len(toCp') = n - 1 /\ \A i \in 1..n - 1 : toCp'[i] = toCp[i + 1]
  BY <1>1, <1>2, EmptySeq, HeadTailProperties
<1>4. toCp[1].event \in Event
  BY <1>1, <1>3 DEF Frame
<1>5. /\ Len(log') = m + 1 /\ \A i \in 1..m : log'[i] = log[i]
      /\ log'[m + 1] = toCp[1].event
  BY <1>1, <1>2, <1>3, <1>4, AppendProperties
<1>6. Last(log') = toCp[1].event
  BY <1>5 DEF Last
<1>7. \A i \in 1..m : log[i] <= toCp[1].event
  BY <1>3 DEF StreamInOrder
<1> HIDE DEF n, m
<1>8. \A i \in 1..m + 1 : i \in 1..m \/ i = m + 1
  BY <1>1
<1>9. \A j \in 1..n - 1 : j + 1 \in 1..n /\ toCp[1].event <= toCp[j + 1].event
  <2> TAKE j \in 1..n - 1
  <2>1. j + 1 \in 1..n /\ 1 <= j + 1
    BY <1>1
  <2> QED
    BY <1>3, <2>1 DEF StreamInOrder, n
<1>10. StreamInOrder'
  <2>1. \A i \in 1..m + 1 : Past(log'[i])
    <3>1. \A i \in 1..m : Past(log[i])
      BY DEF StreamInOrder, m
    <3>2. Past(toCp[1].event)
      BY <1>3 DEF StreamInOrder, n
    <3> QED
      BY <1>5, <1>8, <3>1, <3>2
  <2>2. \A i, j \in 1..m + 1 : i <= j => log'[i] <= log'[j]
    <3> SUFFICES ASSUME NEW i \in 1..m + 1, NEW j \in 1..m + 1, i <= j
                 PROVE  log'[i] <= log'[j]
      OBVIOUS
    <3>1. CASE j \in 1..m
      <4>1. i \in 1..m
        BY <1>1, <3>1
      <4> QED
        BY <1>5, <3>1, <4>1 DEF StreamInOrder, NotDecreasing, m
    <3>2. CASE i \in 1..m /\ j = m + 1
      BY <1>5, <1>7, <3>2
    <3>3. CASE i = m + 1 /\ j = m + 1
      BY <1>1, <1>3, <1>5, <3>3
    <3> QED
      BY <1>1, <1>8, <3>1, <3>2, <3>3
  <2>3. \A j \in 1..n - 1 : Past(toCp'[j].event)
    BY <1>3, <1>9 DEF StreamInOrder, n
  <2>4. \A i, j \in 1..n - 1 : i <= j => toCp'[i].event <= toCp'[j].event
    <3> SUFFICES ASSUME NEW i \in 1..n - 1, NEW j \in 1..n - 1, i <= j
                 PROVE  toCp[i + 1].event <= toCp[j + 1].event
      BY <1>3
    <3>1. i + 1 <= j + 1 /\ i + 1 \in 1..n /\ j + 1 \in 1..n
      BY <1>1
    <3> QED
      BY <3>1 DEF StreamInOrder, n
  <2>5. \A i \in 1..m + 1, j \in 1..n - 1 : log'[i] <= toCp'[j].event
    <3> TAKE i \in 1..m + 1, j \in 1..n - 1
    <3>1. toCp[1].event <= toCp'[j].event /\ toCp'[j].event \in Nat
      BY <1>1, <1>3, <1>9
    <3>2. CASE i \in 1..m
      <4>1. log'[i] = log[i] /\ log[i] \in Nat /\ log[i] <= toCp[1].event
        BY <1>1, <1>5, <1>7, <3>2
      <4>2. toCp[1].event \in Nat
        BY <1>1, <1>3
      <4>3. log[i] <= toCp'[j].event
        BY ONLY <3>1, <4>1, <4>2
      <4> QED
        BY <4>1, <4>3
    <3>3. CASE i = m + 1
      BY <1>5, <3>1, <3>3
    <3> QED
      BY <1>8, <3>2, <3>3
  <2> QED
    BY <1>2, <1>3, <1>5, <2>1, <2>2, <2>3, <2>4, <2>5 DEF StreamInOrder, Past, NotDecreasing
<1>11. SameNumber'
  <2>1. \A i \in 1..Len(toCp') :
          toCp'[i].event > earlier' => toCp'[i].event = earlier' + toCp'[i].sequence
    BY <1>2, <1>3, <1>9 DEF SameNumber, n
  <2>2. \A i, j \in 1..Len(toCp') :
          toCp'[i].event = toCp'[j].event => toCp'[i].sequence = toCp'[j].sequence
    <3> SUFFICES ASSUME NEW i \in 1..n - 1, NEW j \in 1..n - 1,
                        toCp[i + 1].event = toCp[j + 1].event
                 PROVE  toCp[i + 1].sequence = toCp[j + 1].sequence
      BY <1>3
    <3>1. i + 1 \in 1..n /\ j + 1 \in 1..n
      BY <1>1
    <3> QED
      BY <3>1 DEF SameNumber, n
  <2>3. Last(log') > earlier' => Last(log') = earlier' + lastReceivedEventSequence'
    BY <1>2, <1>3, <1>6 DEF SameNumber, n
  <2>4. \A j \in 1..Len(toCp') :
          toCp'[j].event = Last(log') => toCp'[j].sequence = lastReceivedEventSequence'
    BY <1>2, <1>3, <1>6, <1>9 DEF SameNumber, n
  <2> QED
    BY ONLY <2>1, <2>2, <2>3, <2>4 DEF SameNumber
<1> QED
  BY <1>10, <1>11

\* The steps of MP leave its queue in order and pass no event.
LEMMA MpStepInOrder ==
  ASSUME TypeOK, QueueInOrder, MpStep
  PROVE  QueueInOrder' /\ \A e \in Nat : Past(e) => PastNext(e)
<1> DEFINE loaded == Loaded(pendingEvent, Captured.queue)
<1>1. /\ Ordered(pendingEvent, Captured.queue, Captured.next)
      /\ \A e \in Nat : Past(e) => Before(e, earlier, pendingEvent, Captured.queue, Captured.next)
  BY CapturedInOrder
<1>2. /\ Captured.queue \in Seq(Nat \ {0}) /\ Captured.next \in Nat
      /\ pendingEvent \in Nat /\ earlier \in Nat
  <2>1. Captured.queue \in Seq(1..totalFaults) /\ Captured.next \in 1..(totalFaults + 1)
    BY CapturedProperties DEF QueueType
  <2>2. totalFaults \in Nat /\ pendingEvent \in Nat /\ earlier \in Nat
    BY FrameTypes
  <2>3. 1..totalFaults \subseteq Nat \ {0}
    OBVIOUS
  <2>4. Captured.queue \in Seq(Nat \ {0})
    BY <2>1, <2>3, SeqMonotonic
  <2> QED
    BY <2>1, <2>2, <2>4
<1>3. /\ Ordered(loaded.pending, loaded.queue, Captured.next)
      /\ \A e \in Nat :
           Before(e, earlier, pendingEvent, Captured.queue, Captured.next)
           => Before(e, earlier, loaded.pending, loaded.queue, Captured.next)
  BY <1>1, <1>2, LoadedInOrder
<1>4. /\ nextEventSequenceToQueue' = Captured.next /\ eventQueue' = loaded.queue
      /\ pendingEvent' = loaded.pending /\ earlier' = earlier
  BY DEF MpStep
<1> HIDE DEF loaded
<1> QED
  BY <1>1, <1>3, <1>4 DEF QueueInOrder, PastNext

LEMMA MpRxEventAckInOrder ==
  ASSUME TypeOK, QueueInOrder, MpRxEventAck
  PROVE  QueueInOrder' /\ \A e \in Nat : Past(e) => PastNext(e)
<1> DEFINE loaded == Loaded(0, eventQueue)
<1>1. Ordered(0, eventQueue, nextEventSequenceToQueue)
  BY DEF QueueInOrder, Ordered
<1>2. \A e \in Nat : Past(e) => Before(e, earlier, 0, eventQueue, nextEventSequenceToQueue)
  BY DEF Past, Before
<1>3. eventQueue \in Seq(Nat \ {0}) /\ nextEventSequenceToQueue \in Nat /\ earlier \in Nat
  <2>1. eventQueue \in Seq(1..totalFaults) /\ earlier \in Nat
        /\ nextEventSequenceToQueue \in 1..(totalFaults + 1) /\ totalFaults \in Nat
    BY FrameTypes
  <2>2. 1..totalFaults \subseteq Nat \ {0}
    OBVIOUS
  <2>3. eventQueue \in Seq(Nat \ {0})
    BY <2>1, <2>2, SeqMonotonic
  <2> QED
    BY <2>1, <2>3
<1>4. /\ Ordered(loaded.pending, loaded.queue, nextEventSequenceToQueue)
      /\ \A e \in Nat :
           Before(e, earlier, 0, eventQueue, nextEventSequenceToQueue)
           => Before(e, earlier, loaded.pending, loaded.queue, nextEventSequenceToQueue)
  BY <1>1, <1>3, LoadedInOrder
<1>5. /\ nextEventSequenceToQueue' = nextEventSequenceToQueue /\ earlier' = earlier
      /\ \/ pendingEvent' = loaded.pending /\ eventQueue' = loaded.queue
         \/ pendingEvent' = pendingEvent /\ eventQueue' = eventQueue
  BY DEF MpRxEventAck
<1> HIDE DEF loaded
<1> QED
  BY <1>2, <1>4, <1>5 DEF QueueInOrder, Past, PastNext

\* An event of an earlier boot of MP stays before everything it owes.
LEMMA MpRestartInOrder ==
  ASSUME TypeOK, MpRestart
  PROVE  /\ QueueInOrder'
         /\ \A e \in Nat : Past(e) => PastNext(e) /\ e <= earlier'
<1>1. /\ earlier' = earlier + totalFaults /\ nextEventSequenceToQueue' = 1
      /\ eventQueue' = <<>> /\ pendingEvent' = 0 /\ Len(<<>>) = 0
  BY EmptySeq DEF MpRestart, recorded
<1>2. \A e \in Nat : Past(e) => e <= earlier + totalFaults
  BY FrameTypes DEF Past, Before
<1>3. \A e \in Nat : e <= earlier + totalFaults => Before(e, earlier + totalFaults, 0, <<>>, 1)
  BY <1>1, FrameTypes DEF Before
<1>4. Ordered(0, <<>>, 1)
  BY <1>1 DEF Ordered, Increasing
<1> QED
  BY ONLY <1>1, <1>2, <1>3, <1>4 DEF QueueInOrder, PastNext

LEMMA OrderMpStep == OrderInv /\ MpStep => OrderInv'
<1> SUFFICES ASSUME OrderInv, MpStep PROVE OrderInv'
  OBVIOUS
<1> DEFINE loaded == Loaded(pendingEvent, Captured.queue)
           frame  == [event |-> earlier + loaded.pending, sequence |-> loaded.pending]
<1>1. TypeOK /\ QueueInOrder /\ TypeOK'
  BY MpStepTypes DEF OrderInv
<1>2. QueueInOrder' /\ \A e \in Nat : Past(e) => PastNext(e)
  BY <1>1, MpStepInOrder
<1>3. UNCHANGED <<earlier, cpVars, requeues, cpRestarts>>
  BY DEF MpStep, envVars
<1> SUFFICES ASSUME StreamInOrder, SameNumber PROVE StreamInOrder' /\ SameNumber'
  BY <1>1, <1>2, <1>3 DEF OrderInv, Remembers, cpVars
<1>4. CASE toCp' = toCp
  <2>1. Thinned(toCp', toCp)
    BY <1>4, <1>1, FrameTypes, ThinnedProperties
  <2> QED
    BY <1>1, <1>2, <1>3, <2>1, StreamThinned
<1>5. CASE loaded.pending # 0 /\ toCp' = Append(toCp, frame)
  <2>1. /\ totalFaults \in Nat /\ earlier \in Nat /\ earlier + totalFaults <= MaxFaults
        /\ MaxFaults \in Nat /\ pendingEvent \in 0..totalFaults
    BY <1>1, FrameTypes, BoundsAssumption DEF TypeOK, recorded
  <2>2. loaded.pending \in 0..totalFaults /\ QueueType(loaded.queue)
        /\ Captured.next \in 1..(totalFaults + 1)
    BY <1>1, <2>1, CapturedProperties, LoadedProperties
  <2> HIDE DEF loaded
  <2>3. loaded.pending \in Nat \ {0} /\ frame \in Frame /\ Captured.next \in Nat
    BY <1>5, <2>1, <2>2 DEF Frame, Event
  <2>4. loaded.queue \in Seq(Nat)
    <3>1. 1..totalFaults \subseteq Nat
      OBVIOUS
    <3> QED
      BY <2>2, <3>1, SeqMonotonic DEF QueueType
  <2>5. frame.event = earlier + loaded.pending /\ frame.sequence = loaded.pending
    OBVIOUS
  <2> HIDE DEF frame
  <2>6. /\ pendingEvent' = loaded.pending /\ eventQueue' = loaded.queue
        /\ nextEventSequenceToQueue' = Captured.next
    BY DEF MpStep, loaded
  <2> QED
    BY <1>1, <1>2, <1>3, <1>5, <2>3, <2>4, <2>5, <2>6, StreamSent
<1>6. toCp' = toCp \/ (loaded.pending # 0 /\ toCp' = Append(toCp, frame))
  BY DEF MpStep, Sent
<1> QED
  BY <1>4, <1>5, <1>6

LEMMA OrderCpRxEvent == OrderInv /\ CpRxEvent => OrderInv'
<1> SUFFICES ASSUME OrderInv, CpRxEvent PROVE OrderInv'
  OBVIOUS
<1>1. TypeOK /\ TypeOK' /\ toCp # <<>> /\ toCp' = Tail(toCp)
  BY CpRxEventTypes DEF OrderInv, CpRxEvent
<1>2. UNCHANGED <<earlier, pendingEvent, eventQueue, nextEventSequenceToQueue,
                  requeues, cpRestarts>>
  BY DEF CpRxEvent, mpVars, envVars
<1>3. QueueInOrder' /\ Remembers'
  <2>1. Head(toCp).sequence # 0
    <3>1. /\ Len(toCp) \in Nat /\ 1 \in 1..Len(toCp) /\ Head(toCp) = toCp[1]
          /\ \A i \in 1..Len(toCp) : toCp[i] \in Frame
      BY <1>1, FrameTypes, EmptySeq
    <3>2. Head(toCp) \in Frame
      BY <3>1
    <3> QED
      BY <3>2, BoundsAssumption DEF Frame, Event
  <2>2. \/ lastReceivedEventSequence' = Head(toCp).sequence
        \/ UNCHANGED cpVars
    BY DEF CpRxEvent
  <2> QED
    BY <1>2, <2>1, <2>2 DEF OrderInv, QueueInOrder, Remembers, cpVars
<1> SUFFICES ASSUME StreamInOrder, SameNumber PROVE StreamInOrder' /\ SameNumber'
  BY <1>1, <1>2, <1>3 DEF OrderInv
<1>4. CASE IsNew(Head(toCp).sequence)
  BY <1>1, <1>4, StreamLogged
<1>5. CASE ~IsNew(Head(toCp).sequence)
  <2>1. UNCHANGED cpVars
    BY <1>5 DEF CpRxEvent
  <2>2. Thinned(toCp', toCp)
    BY <1>1, FrameTypes, ThinnedProperties
  <2>3. \A e \in Nat : Past(e) => PastNext(e)
    BY <1>2 DEF Past, PastNext
  <2> QED
    BY <1>1, <1>2, <2>1, <2>2, <2>3, StreamThinned
<1> QED
  BY <1>4, <1>5

LEMMA OrderMpRestart == OrderInv /\ MpRestart => OrderInv'
<1> SUFFICES ASSUME OrderInv, MpRestart PROVE OrderInv'
  OBVIOUS
<1>1. TypeOK /\ TypeOK'
  BY NextTypes DEF OrderInv, Next
<1>2. QueueInOrder' /\ \A e \in Nat : Past(e) => PastNext(e) /\ e <= earlier'
  BY <1>1, MpRestartInOrder
<1>3. UNCHANGED <<toCp, log, lastReceivedEventSequence, requeues, cpRestarts>>
  BY DEF MpRestart, cpVars
<1> SUFFICES ASSUME StreamInOrder, SameNumber PROVE StreamInOrder' /\ SameNumber'
  BY <1>1, <1>2, <1>3 DEF OrderInv, Remembers
<1>4. /\ \A j \in 1..Len(toCp) : PastNext(toCp[j].event) /\ toCp[j].event <= earlier'
      /\ \A i \in 1..Len(log) : PastNext(log[i]) /\ log[i] <= earlier'
  BY <1>1, <1>2, FrameTypes DEF StreamInOrder
<1>5. StreamInOrder'
  BY <1>3, <1>4 DEF StreamInOrder, Past, PastNext
<1>6. SameNumber'
  <2> DEFINE base == earlier + totalFaults
  <2>1. earlier' = base /\ base \in Nat
    BY <1>1, FrameTypes DEF MpRestart, recorded
  <2> HIDE DEF base
  <2>2. \A i \in 1..Len(toCp) : ~(toCp[i].event > base)
    BY <1>1, <1>4, <2>1, FrameTypes
  <2>3. log # <<>> => ~(Last(log) > base)
    BY <1>1, <1>4, <2>1, FrameTypes
  <2> QED
    BY <1>3, <2>1, <2>2, <2>3 DEF SameNumber
<1> QED
  BY <1>5, <1>6

LEMMA OrderKept == OrderInv /\ [Next]_vars => OrderInv'
<1> SUFFICES ASSUME OrderInv, [Next]_vars PROVE OrderInv'
  OBVIOUS
<1>1. TypeOK /\ TypeOK' /\ toCp \in Seq(Frame)
  BY NextTypes, FrameTypes DEF OrderInv
<1>2. ASSUME QueueInOrder', \A e \in Nat : Past(e) => PastNext(e), Thinned(toCp', toCp),
             UNCHANGED <<earlier, cpVars, requeues, cpRestarts>>
      PROVE  OrderInv'
  BY <1>1, <1>2, StreamThinned DEF OrderInv, Remembers, cpVars
<1>3. ASSUME UNCHANGED <<earlier, pendingEvent, eventQueue, nextEventSequenceToQueue,
                         cpVars, requeues, cpRestarts>>,
             Thinned(toCp', toCp)
      PROVE  OrderInv'
  BY <1>2, <1>3 DEF OrderInv, QueueInOrder, Past, PastNext
<1>4. CASE OnFault
  BY <1>1, <1>3, <1>4, ThinnedProperties DEF OnFault, envVars
<1>5. CASE MpStep
  BY <1>5, OrderMpStep
<1>6. CASE MpRxEventAck
  BY <1>1, <1>2, <1>6, MpRxEventAckInOrder, ThinnedProperties DEF MpRxEventAck, envVars, OrderInv
<1>7. CASE CpRxEvent
  BY <1>7, OrderCpRxEvent
<1>8. CASE LoseFrame
  <2>1. Thinned(toCp', toCp)
    BY <1>1, <1>8, ThinnedProperties DEF LoseFrame
  <2> QED
    BY <1>3, <1>8, <2>1 DEF LoseFrame, mpVars, envVars
<1>9. CASE Requeue
  <2>1. requeues' # 0 /\ UNCHANGED <<mpVars, cpVars, cpRestarts>>
    BY <1>1, <1>9 DEF Requeue, TypeOK
  <2> QED
    BY <1>1, <2>1 DEF OrderInv, QueueInOrder, Remembers, mpVars, cpVars
<1>10. CASE MpRestart
  BY <1>10, OrderMpRestart
<1>11. CASE CpRestart
  <2>1. /\ cpRestarts' # 0 /\ lastReceivedEventSequence' = 0
        /\ UNCHANGED <<mpVars, toCp, log, requeues>>
    BY <1>1, <1>11 DEF CpRestart, TypeOK
  <2> QED
    BY <1>1, <2>1 DEF OrderInv, QueueInOrder, Remembers, StreamInOrder, SameNumber, Past, mpVars
<1>12. CASE UNCHANGED vars
  BY <1>1, <1>3, <1>12, ThinnedProperties DEF vars, mpVars, envVars
<1> QED
  BY <1>4, <1>5, <1>6, <1>7, <1>8, <1>9, <1>10, <1>11, <1>12 DEF Next

LEMMA OrderInitially == Init => OrderInv
<1> SUFFICES ASSUME Init PROVE OrderInv
  OBVIOUS
<1>1. Len(<<>>) = 0
  BY EmptySeq
<1> QED
  BY <1>1, InitTypes DEF Init, OrderInv, QueueInOrder, Ordered, Increasing, NotDecreasing,
                         StreamInOrder, SameNumber, Remembers

\* The order of the stream, on which the two theorems below rest.
THEOREM StreamOrder == Spec => []OrderInv
BY OrderInitially, OrderKept, PTL DEF Spec

-----------------------------------------------------------------------------
(* The events the log repeats *)

\* An event the log may yet repeat: the last one, once CP has forgotten its number.
Repeatable == IF log # <<>> /\ lastReceivedEventSequence = 0 THEN 1 ELSE 0

\* The events repeated, and the one that may be, are no more than the restarts.
RepeatsCounted ==
  requeues = 0 => Len(log) + Repeatable <= Cardinality(Range(log)) + cpRestarts

RepeatsInv == OrderInv /\ RepeatsCounted

LEMMA FiniteRange ==
  ASSUME NEW S, NEW s \in Seq(S)
  PROVE  IsFiniteSet(Range(s)) /\ Cardinality(Range(s)) \in Nat
<1> DEFINE f == [i \in 1..Len(s) |-> s[i]]
<1>1. IsFiniteSet(1..Len(s))
  BY LenProperties, FS_Interval
<1>2. f \in Surjection(1..Len(s), Range(s))
  BY RangeEquality DEF Surjection
<1>3. IsFiniteSet(Range(s))
  BY <1>1, <1>2, FS_Surjection
<1> QED
  BY <1>3, FS_CardinalityType

\* Appending an element adds it to the set of the elements.
LEMMA RangeOfAppend ==
  ASSUME NEW S, NEW s \in Seq(S), NEW e \in S
  PROVE  Range(Append(s, e)) = Range(s) \cup {e}
<1>1. /\ Append(s, e) \in Seq(S) /\ Len(s) \in Nat /\ Len(Append(s, e)) = Len(s) + 1
      /\ \A i \in 1..Len(s) : Append(s, e)[i] = s[i]
      /\ Append(s, e)[Len(s) + 1] = e
  BY AppendProperties, LenProperties
<1>2. /\ Range(s) = {s[i] : i \in 1..Len(s)}
      /\ Range(Append(s, e)) = {Append(s, e)[i] : i \in 1..Len(s) + 1}
  BY <1>1, RangeEquality
<1>3. \A i \in 1..Len(s) + 1 : i \in 1..Len(s) \/ i = Len(s) + 1
  BY <1>1
<1>4. 1..Len(s) \subseteq 1..Len(s) + 1 /\ Len(s) + 1 \in 1..Len(s) + 1
  BY <1>1
<1>5. Range(Append(s, e)) \subseteq Range(s) \cup {e}
  BY <1>1, <1>2, <1>3
<1>6. Range(s) \cup {e} \subseteq Range(Append(s, e))
  BY <1>1, <1>2, <1>4
<1> QED
  BY <1>5, <1>6

\* What CP logs is new to the log, unless it has forgotten the number of the last.
LEMMA LoggedAgain ==
  ASSUME TypeOK, StreamInOrder, SameNumber, toCp # <<>>, IsNew(Head(toCp).sequence),
         Head(toCp).event \in Range(log)
  PROVE  Repeatable = 1
<1>1. /\ log \in Seq(Event) /\ \A i \in 1..Len(log) : log[i] \in Nat
      /\ Len(log) \in Nat
  BY FrameTypes
<1>2. PICK i \in 1..Len(log) : log[i] = Head(toCp).event
  BY <1>1, RangeEquality
<1>3. log # <<>>
  BY <1>1, <1>2, EmptySeq
<1>4. ASSUME lastReceivedEventSequence # 0 PROVE FALSE
  <2>1. log[i] < Head(toCp).event
    BY <1>4, NewIsLater
  <2> QED
    BY <1>1, <1>2, <2>1
<1> QED
  BY <1>3, <1>4 DEF Repeatable

LEMMA CountCpRxEvent ==
  ASSUME RepeatsInv, CpRxEvent
  PROVE  RepeatsCounted'
<1>1. /\ TypeOK /\ toCp # <<>> /\ UNCHANGED <<requeues, cpRestarts>>
      /\ cpRestarts \in Nat
  BY DEF RepeatsInv, OrderInv, TypeOK, CpRxEvent, envVars
<1> SUFFICES ASSUME requeues = 0
             PROVE  Len(log') + Repeatable' <= Cardinality(Range(log')) + cpRestarts
  BY <1>1 DEF RepeatsCounted
<1>2. /\ StreamInOrder /\ SameNumber
      /\ Len(log) + Repeatable <= Cardinality(Range(log)) + cpRestarts
  BY DEF RepeatsInv, OrderInv, RepeatsCounted
<1>3. CASE ~IsNew(Head(toCp).sequence)
  BY <1>2, <1>3 DEF CpRxEvent, cpVars, Repeatable
<1>4. CASE IsNew(Head(toCp).sequence)
  <2> DEFINE e == Head(toCp).event
  <2>1. log \in Seq(Event) /\ Len(log) \in Nat
    BY <1>1, FrameTypes
  <2>2. e \in Event /\ Head(toCp).sequence # 0
    <3>1. /\ Len(toCp) \in Nat /\ 1 \in 1..Len(toCp) /\ Head(toCp) = toCp[1]
          /\ \A i \in 1..Len(toCp) : toCp[i] \in Frame
      BY <1>1, FrameTypes, EmptySeq
    <3>2. Head(toCp) \in Frame
      BY <3>1
    <3> QED
      BY <3>2, BoundsAssumption DEF Frame, Event
  <2>3. log' = Append(log, e) /\ lastReceivedEventSequence' # 0
    BY <1>4, <2>2 DEF CpRxEvent
  <2>4. Repeatable' = 0 /\ Repeatable \in {0, 1}
    BY <2>3 DEF Repeatable
  <2> DEFINE c == Cardinality(Range(log))
             r == Repeatable
  <2>5. /\ Len(log') = Len(log) + 1 /\ c \in Nat
        /\ Cardinality(Range(log')) = IF e \in Range(log) THEN c ELSE c + 1
    <3>1. Len(log') = Len(log) + 1
      BY <2>1, <2>2, <2>3, AppendProperties
    <3> HIDE DEF e
    <3>2. Range(log') = Range(log) \cup {e}
      <4>1. Range(Append(log, e)) = Range(log) \cup {e}
        BY <2>1, <2>2, RangeOfAppend
      <4> QED
        BY <2>3, <4>1
    <3>3. Cardinality(Range(log) \cup {e}) = IF e \in Range(log) THEN c ELSE c + 1
      BY <2>1, FiniteRange, FS_AddElement
    <3> QED
      BY <2>1, <3>1, <3>2, <3>3, FiniteRange
  <2>6. e \in Range(log) => r = 1
    BY <1>1, <1>2, <1>4, LoggedAgain
  <2>7. Len(log) + r <= c + cpRestarts /\ r \in {0, 1}
    BY <1>2, <2>4
  <2> HIDE DEF c, r, e
  <2>8. CASE e \in Range(log)
    <3>1. r = 1 /\ Cardinality(Range(log')) = c
      BY <2>5, <2>6, <2>8
    <3> QED
      BY <1>1, <2>1, <2>4, <2>5, <2>7, <3>1
  <2>9. CASE e \notin Range(log)
    <3>1. Cardinality(Range(log')) = c + 1
      BY <2>5, <2>9
    <3> QED
      BY <1>1, <2>1, <2>4, <2>5, <2>7, <3>1
  <2> QED
    BY <2>8, <2>9
<1> QED
  BY <1>3, <1>4

LEMMA CountCpRestart ==
  ASSUME RepeatsInv, CpRestart
  PROVE  RepeatsCounted'
<1>1. /\ UNCHANGED <<requeues, log>> /\ cpRestarts' = cpRestarts + 1 /\ cpRestarts \in Nat
      /\ log \in Seq(Event) /\ Len(log) \in Nat
  BY FrameTypes DEF RepeatsInv, OrderInv, TypeOK, CpRestart
<1>2. Cardinality(Range(log)) \in Nat
  BY <1>1, FiniteRange
<1>3. Repeatable \in {0, 1} /\ Repeatable' \in {0, 1}
  BY DEF Repeatable
<1> SUFFICES ASSUME requeues = 0
             PROVE  Len(log) + Repeatable' <= Cardinality(Range(log)) + (cpRestarts + 1)
  BY <1>1 DEF RepeatsCounted
<1>4. Len(log) + Repeatable <= Cardinality(Range(log)) + cpRestarts
  BY DEF RepeatsInv, RepeatsCounted
<1>5. \A l, c, k \in Nat, r, s \in {0, 1} : l + r <= c + k => l + s <= c + (k + 1)
  OBVIOUS
<1> QED
  BY <1>1, <1>2, <1>3, <1>4, <1>5

LEMMA RepeatsKept == RepeatsInv /\ [Next]_vars => RepeatsInv'
<1> SUFFICES ASSUME RepeatsInv, [Next]_vars PROVE RepeatsInv'
  OBVIOUS
<1>1. OrderInv'
  BY OrderKept DEF RepeatsInv
<1>2. ASSUME UNCHANGED <<cpVars, requeues, cpRestarts>> PROVE RepeatsCounted'
  BY <1>2 DEF RepeatsInv, RepeatsCounted, Repeatable, cpVars
<1>3. CASE CpRxEvent
  BY <1>1, <1>3, CountCpRxEvent DEF RepeatsInv
<1>4. CASE CpRestart
  BY <1>1, <1>4, CountCpRestart DEF RepeatsInv
<1>5. CASE Requeue
  <2>1. requeues' # 0
    BY <1>5 DEF Requeue, RepeatsInv, OrderInv, TypeOK
  <2> QED
    BY <1>1, <2>1 DEF RepeatsInv, RepeatsCounted
<1>6. CASE OnFault \/ MpStep \/ MpRxEventAck \/ LoseFrame \/ MpRestart \/ UNCHANGED vars
  BY <1>1, <1>2, <1>6 DEF OnFault, MpStep, MpRxEventAck, LoseFrame, MpRestart, vars,
                          envVars, RepeatsInv
<1> QED
  BY <1>3, <1>4, <1>5, <1>6 DEF Next

\* CP logs an event of MP at most once for the first time and once more for each of
\* its restarts, however often it is sent, whatever frames are lost and however often
\* MP restarts and numbers its events anew, as long as no frame is overtaken.
THEOREM EventsRepeatedByRestarts == Spec => []RepeatsNeedRestarts
<1>1. Init => RepeatsInv
  <2> SUFFICES ASSUME Init PROVE RepeatsInv
    OBVIOUS
  <2>1. log = <<>> /\ cpRestarts = 0 /\ Len(<<>>) = 0 /\ <<>> \in Seq(Event)
    BY EmptySeq DEF Init
  <2>2. Cardinality(Range(log)) \in Nat
    BY <2>1, FiniteRange
  <2>3. Repeatable = 0
    BY <2>1 DEF Repeatable
  <2> QED
    BY <2>1, <2>2, <2>3, OrderInitially DEF RepeatsInv, RepeatsCounted
<1>2. RepeatsInv => RepeatsNeedRestarts
  <2> SUFFICES ASSUME RepeatsInv, requeues = 0
               PROVE  Len(log) <= Cardinality(Range(log)) + cpRestarts
    BY DEF RepeatsNeedRestarts
  <2>1. Repeatable \in {0, 1} /\ Len(log) \in Nat /\ cpRestarts \in Nat
    BY FrameTypes DEF Repeatable, RepeatsInv, OrderInv, TypeOK
  <2>2. Len(log) + Repeatable <= Cardinality(Range(log)) + cpRestarts
    BY DEF RepeatsInv, RepeatsCounted
  <2>3. Cardinality(Range(log)) \in Nat
    BY FrameTypes, FiniteRange DEF RepeatsInv, OrderInv
  <2> QED
    BY <2>1, <2>2, <2>3
<1> QED
  BY <1>1, <1>2, RepeatsKept, PTL DEF Spec

-----------------------------------------------------------------------------
(* The stream keeps the promise of FaultLog *)

\* What MP owes while p is pending, q is queued and n is the next event to queue.
Owed(p, q, n) == ({p} \ {0}) \cup Range(q) \cup n..totalFaults
Kept          == Owed(pendingEvent, eventQueue, nextEventSequenceToQueue)

\* Taking the head of the queue as the pending event owes the same events.
LEMMA LoadedOwes ==
  ASSUME NEW p \in Nat, NEW q \in Seq(Nat \ {0}), NEW n \in Nat
  PROVE  Owed(Loaded(p, q).pending, Loaded(p, q).queue, n) = Owed(p, q, n)
<1>1. CASE p = 0 /\ q # <<>>
  <2>1. /\ Len(q) \in Nat /\ 1 \in 1..Len(q) /\ Head(q) = q[1] /\ q[1] # 0
        /\ Tail(q) \in Seq(Nat \ {0}) /\ Len(Tail(q)) = Len(q) - 1
        /\ \A i \in 1..Len(Tail(q)) : Tail(q)[i] = q[i + 1]
    <3>1. Len(q) \in Nat /\ 1 \in 1..Len(q)
      BY <1>1, LenProperties, EmptySeq
    <3> QED
      BY <1>1, <3>1, HeadTailProperties, ElementOfSeq
  <2>2. /\ Range(q) = {q[i] : i \in 1..Len(q)}
        /\ Range(Tail(q)) = {Tail(q)[i] : i \in 1..Len(Tail(q))}
    BY <2>1, RangeEquality
  <2>3. \A i \in 1..Len(q) : i = 1 \/ (i - 1 \in 1..Len(Tail(q)) /\ q[i] = Tail(q)[i - 1])
    BY <2>1
  <2>4. \A i \in 1..Len(Tail(q)) : i + 1 \in 1..Len(q) /\ Tail(q)[i] = q[i + 1]
    BY <2>1
  <2>5. Range(q) \subseteq {q[1]} \cup Range(Tail(q))
    BY <2>2, <2>3
  <2>6. {q[1]} \cup Range(Tail(q)) \subseteq Range(q)
    BY <2>1, <2>2, <2>4
  <2>7. Range(q) = {q[1]} \cup Range(Tail(q))
    BY <2>5, <2>6
  <2>8. Loaded(p, q).pending = q[1] /\ Loaded(p, q).queue = Tail(q)
    BY <1>1, <2>1 DEF Loaded
  <2> QED
    BY <1>1, <2>1, <2>7, <2>8 DEF Owed
<1>2. CASE ~(p = 0 /\ q # <<>>)
  BY <1>2 DEF Loaded
<1> QED
  BY <1>1, <1>2

\* The loop of CaptureFaultEvents owes the same events, or gives up more than the
\* trace holds.
LEMMA CapturedOwes ==
  ASSUME TypeOK, QueueInOrder
  PROVE  LET next  == nextEventSequenceToQueue
             after == Owed(pendingEvent, Captured.queue, Captured.next)
         IN  \/ after = Kept
             \/ /\ next \in Kept /\ {f \in Kept : next <= f} = next..totalFaults
                /\ totalFaults - next + 1 > Capacity
                /\ after = {f \in Kept : f < next}
<1> DEFINE next    == nextEventSequenceToQueue
           waiting == totalFaults + 1 - next
           n       == Least(waiting, Capacity - Len(eventQueue))
           taken   == Numbers(next, n)
           queue   == eventQueue \o taken
<1>1. /\ totalFaults \in Nat /\ pendingEvent \in Nat
      /\ next \in 1..(totalFaults + 1)
      /\ Capacity \in Nat /\ Len(eventQueue) \in Nat /\ Len(eventQueue) <= Capacity
      /\ eventQueue \in Seq(1..totalFaults)
  BY CapacityAssumption, LenProperties DEF TypeOK
<1>2. n \in Nat /\ n <= waiting
  BY <1>1 DEF Least
<1>3. Range(eventQueue) = {eventQueue[i] : i \in 1..Len(eventQueue)}
  BY <1>1, RangeEquality
<1>4. \A f \in Range(eventQueue) : f \in Nat /\ f < next
  BY <1>1, <1>3, ElementOfSeq DEF QueueInOrder, Ordered
<1>5. \A f \in {pendingEvent} \ {0} : f \in Nat /\ f < next
  BY <1>1 DEF QueueInOrder, Ordered
<1>6. CASE n > 0 /\ next < EarliestTraced
  <2>1. Captured.queue = eventQueue /\ Captured.next = totalFaults + 1
    BY <1>6 DEF Captured
  <2>2. next <= totalFaults /\ totalFaults - next + 1 > Capacity
    BY <1>1, <1>2, <1>6 DEF EarliestTraced, Least
  <2>3. Owed(pendingEvent, eventQueue, totalFaults + 1) = ({pendingEvent} \ {0}) \cup Range(eventQueue)
    BY <1>1 DEF Owed
  <2> DEFINE held == ({pendingEvent} \ {0}) \cup Range(eventQueue)
  <2>4. \A f \in held : f \in Nat /\ f < next
    BY <1>4, <1>5
  <2>5. Kept = held \cup next..totalFaults
    BY DEF Kept, Owed
  <2> HIDE DEF held
  <2>6. {f \in Kept : next <= f} = next..totalFaults
    BY <1>1, <2>4, <2>5
  <2>7. held = {f \in Kept : f < next}
    BY <1>1, <2>4, <2>5
  <2>8. next \in Kept
    BY <1>1, <2>2, <2>5
  <2> QED
    BY <2>1, <2>2, <2>3, <2>6, <2>7, <2>8 DEF held
<1>7. CASE ~(n > 0 /\ next < EarliestTraced)
  <2>1. Captured.queue = queue /\ Captured.next = next + n
    BY <1>7 DEF Captured
  <2> HIDE DEF n
  <2>2. taken \in Seq(1..totalFaults) /\ Len(taken) = n
        /\ \A i \in 1..n : taken[i] = next + i - 1
    <3>1. \A i \in 1..n : next + i - 1 \in 1..totalFaults
      BY <1>1, <1>2
    <3> QED
      BY <1>1, <1>2, <3>1, NumbersProperties DEF Numbers
  <2> HIDE DEF taken
  <2>3. Range(queue) = Range(eventQueue) \cup Range(taken)
    BY <1>1, <2>2, RangeConcatenation
  <2>4. Range(taken) = {taken[i] : i \in 1..n}
    BY <2>2, RangeEquality
  <2>5. Range(taken) = next..(next + n - 1)
    <3>1. Range(taken) \subseteq next..(next + n - 1)
      BY <1>1, <1>2, <2>2, <2>4
    <3>2. \A f \in next..(next + n - 1) : f - next + 1 \in 1..n /\ taken[f - next + 1] = f
      BY <1>1, <1>2, <2>2
    <3> QED
      BY <2>4, <3>1, <3>2
  <2>6. next..totalFaults = next..(next + n - 1) \cup (next + n)..totalFaults
    BY <1>1, <1>2
  <2> HIDE DEF queue
  <2>7. Owed(pendingEvent, queue, next + n) = Kept
    BY <2>3, <2>5, <2>6 DEF Owed, Kept
  <2> QED
    BY <2>1, <2>7
<1> QED
  BY <1>6, <1>7

\* A frame on its way is of the event MP is sending or of the last one CP logged.
Current ==
  \A j \in 1..Len(toCp) :
    \/ pendingEvent # 0 /\ toCp[j].event = pendingEvent
    \/ log # <<>> /\ toCp[j].event = Last(log)

PromiseInv == OrderInv /\ IInv /\ (Undisturbed => Current)

\* What holds while nothing has been disturbed.
Calm ==
  /\ TypeOK /\ QueueInOrder /\ StreamInOrder /\ SameNumber
  /\ log # <<>> => lastReceivedEventSequence # 0
  /\ InLog /\ Current

LEMMA CalmWhileUndisturbed == PromiseInv /\ Undisturbed => Calm
BY DEF PromiseInv, Undisturbed, OrderInv, Remembers, IInv, Calm

LEMMA UndisturbedBefore == TypeOK /\ [Next]_vars /\ Undisturbed' => Undisturbed
<1> SUFFICES ASSUME TypeOK, [Next]_vars, Undisturbed' PROVE Undisturbed
  OBVIOUS
<1>1. /\ requeues' = requeues \/ requeues' = requeues + 1
      /\ mpRestarts' = mpRestarts \/ mpRestarts' = mpRestarts + 1
      /\ cpRestarts' = cpRestarts \/ cpRestarts' = cpRestarts + 1
  BY DEF Next, OnFault, MpStep, MpRxEventAck, CpRxEvent, LoseFrame, Requeue, MpRestart,
         CpRestart, vars, envVars
<1> QED
  BY <1>1 DEF TypeOK, Undisturbed

LEMMA KeptUnchanged ==
  ASSUME UNCHANGED <<earlier, totalFaults, log>>, Kept' = Kept
  PROVE  UNCHANGED Promise!vars
BY DEF Promise!vars, recorded, Kept, Owed

\* A frame that stays on its way stays current.
LEMMA CurrentThinned ==
  ASSUME Calm, Thinned(toCp', toCp), UNCHANGED <<pendingEvent, log>>
  PROVE  Current'
<1> SUFFICES ASSUME NEW j \in 1..Len(toCp')
             PROVE  \/ pendingEvent # 0 /\ toCp'[j].event = pendingEvent
                    \/ log # <<>> /\ toCp'[j].event = Last(log)
  BY DEF Current
<1>1. PICK l \in 1..Len(toCp) : toCp'[j] = toCp[l]
  BY DEF Thinned
<1> QED
  BY <1>1 DEF Calm, Current

LEMMA PromiseOnFault == Calm /\ OnFault => Promise!Record /\ Current'
<1> SUFFICES ASSUME Calm, OnFault PROVE Promise!Record /\ Current'
  OBVIOUS
<1>1. /\ totalFaults \in Nat /\ earlier = 0
      /\ nextEventSequenceToQueue \in 1..(totalFaults + 1)
  BY FrameTypes DEF Calm, InLog
<1>2. /\ totalFaults' = totalFaults + 1
      /\ UNCHANGED <<earlier, nextEventSequenceToQueue, eventQueue, pendingEvent, log, toCp>>
  BY DEF OnFault, cpVars
<1>3. nextEventSequenceToQueue..(totalFaults + 1)
      = nextEventSequenceToQueue..totalFaults \cup {totalFaults + 1}
  BY <1>1
<1>4. Kept' = Kept \cup {recorded + 1}
  BY <1>1, <1>2, <1>3 DEF Kept, Owed, recorded
<1>5. Promise!Record
  BY <1>1, <1>2, <1>4 DEF Promise!Record, recorded, Kept, Owed
<1> QED
  BY <1>2, <1>5 DEF Calm, Current

\* FaultLog uses operators of its own instances of the library modules.
LEMMA PromiseCounts == \A S : Promise!Cardinality(S) = Cardinality(S)
BY Zenon DEF Promise!Cardinality, Cardinality

LEMMA PromiseLast == \A s : Promise!Last(s) = Last(s)
BY DEF Promise!Last, Last

LEMMA PromiseMpStep ==
  Calm /\ MpStep => (Promise!Overrun \/ UNCHANGED Promise!vars) /\ Current'
<1> SUFFICES ASSUME Calm, MpStep PROVE (Promise!Overrun \/ UNCHANGED Promise!vars) /\ Current'
  OBVIOUS
<1> DEFINE loaded == Loaded(pendingEvent, Captured.queue)
           next   == nextEventSequenceToQueue
           after  == Owed(pendingEvent, Captured.queue, Captured.next)
<1>1. /\ totalFaults \in Nat /\ earlier = 0 /\ pendingEvent \in Nat
      /\ next \in 1..(totalFaults + 1) /\ toCp \in Seq(Frame)
  BY FrameTypes DEF Calm, InLog
<1>2. Captured.queue \in Seq(Nat \ {0}) /\ Captured.next \in Nat
  <2>1. Captured.queue \in Seq(1..totalFaults) /\ Captured.next \in 1..(totalFaults + 1)
    BY CapturedProperties DEF QueueType, Calm
  <2>2. 1..totalFaults \subseteq Nat \ {0}
    OBVIOUS
  <2>3. Captured.queue \in Seq(Nat \ {0})
    BY <2>1, <2>2, SeqMonotonic
  <2> QED
    BY <1>1, <2>1, <2>3
<1>3. /\ nextEventSequenceToQueue' = Captured.next /\ eventQueue' = loaded.queue
      /\ pendingEvent' = loaded.pending
      /\ UNCHANGED <<earlier, totalFaults, log, lastReceivedEventSequence>>
  BY DEF MpStep, cpVars
<1>4. Owed(loaded.pending, loaded.queue, Captured.next) = after
  BY <1>1, <1>2, LoadedOwes
<1>5. Kept' = after
  <2>1. Owed(loaded.pending, loaded.queue, Captured.next)
        = ({loaded.pending} \ {0}) \cup Range(loaded.queue) \cup Captured.next..totalFaults
    BY DEF Owed
  <2> HIDE DEF loaded, after
  <2> QED
    BY <1>3, <1>4, <2>1 DEF Kept, Owed
<1> HIDE DEF after
<1>6. \/ after = Kept
      \/ /\ next \in Kept /\ {f \in Kept : next <= f} = next..totalFaults
         /\ totalFaults - next + 1 > Capacity
         /\ after = {f \in Kept : f < next}
  BY CapturedOwes DEF Calm, after
<1>7. ASSUME after = Kept PROVE UNCHANGED Promise!vars
  BY <1>3, <1>5, <1>7, KeptUnchanged
<1>8. ASSUME /\ next \in Kept /\ {f \in Kept : next <= f} = next..totalFaults
             /\ totalFaults - next + 1 > Capacity
             /\ after = {f \in Kept : f < next}
      PROVE  Promise!Overrun
  <2>1. Cardinality(next..totalFaults) = totalFaults - next + 1
    <3>1. Cardinality(next..totalFaults) = IF next > totalFaults THEN 0 ELSE totalFaults - next + 1
      BY <1>1, FS_Interval
    <3> QED
      BY <1>1, <1>8, <3>1, CapacityAssumption
  <2>2. \E e \in Kept :
          /\ Cardinality({f \in Kept : e <= f}) > Capacity
          /\ Kept' = {f \in Kept : f < e}
          /\ UNCHANGED <<recorded, log>>
    BY <1>3, <1>5, <1>8, <2>1 DEF recorded
  <2> QED
    BY <2>2, PromiseCounts, Zenon DEF Promise!Overrun, Kept, Owed
<1>9. Current'
  <2>1. pendingEvent # 0 => loaded.pending = pendingEvent
    BY DEF Loaded
  <2> DEFINE frame == [event |-> earlier + loaded.pending, sequence |-> loaded.pending]
  <2>2. toCp' = toCp \/ (loaded.pending # 0 /\ toCp' = Append(toCp, frame))
    BY DEF MpStep, Sent
  <2>3. \A j \in 1..Len(toCp) :
          \/ loaded.pending # 0 /\ toCp[j].event = loaded.pending
          \/ log # <<>> /\ toCp[j].event = Last(log)
    BY <2>1 DEF Calm, Current
  <2> HIDE DEF loaded
  <2>4. CASE toCp' = toCp
    BY <1>3, <2>3, <2>4 DEF Current, loaded
  <2>5. CASE loaded.pending # 0 /\ toCp' = Append(toCp, frame)
    <3>0. loaded.pending \in Nat
      <4>1. QueueType(Captured.queue) /\ pendingEvent \in 0..totalFaults
        BY CapturedProperties, FrameTypes DEF Calm
      <4> QED
        BY <1>1, <4>1, LoadedProperties DEF loaded
    <3>1. frame.event = loaded.pending /\ frame \in [event : Nat, sequence : Nat]
      BY <1>1, <3>0
    <3> HIDE DEF frame
    <3>2. /\ Len(toCp') = Len(toCp) + 1 /\ Len(toCp) \in Nat
          /\ \A j \in 1..Len(toCp) : toCp'[j] = toCp[j]
          /\ toCp'[Len(toCp) + 1] = frame
      <4>1. Frame \subseteq [event : Nat, sequence : Nat]
        BY DEF Frame, Event
      <4>2. toCp \in Seq([event : Nat, sequence : Nat])
        BY <1>1, <4>1, SeqMonotonic
      <4> QED
        BY <2>5, <3>1, <4>2, AppendProperties, LenProperties
    <3>3. \A j \in 1..Len(toCp') : j \in 1..Len(toCp) \/ j = Len(toCp) + 1
      BY <3>2
    <3> SUFFICES ASSUME NEW j \in 1..Len(toCp')
                 PROVE  \/ pendingEvent' # 0 /\ toCp'[j].event = pendingEvent'
                        \/ log' # <<>> /\ toCp'[j].event = Last(log')
      BY DEF Current
    <3>4. pendingEvent' = loaded.pending /\ log' = log
      BY <1>3
    <3>5. CASE j \in 1..Len(toCp)
      BY <2>3, <3>2, <3>4, <3>5
    <3>6. CASE j = Len(toCp) + 1
      BY <2>5, <3>1, <3>2, <3>4, <3>6
    <3> QED
      BY <3>3, <3>5, <3>6
  <2> QED
    BY <2>2, <2>4, <2>5
<1> QED
  BY <1>6, <1>7, <1>8, <1>9

\* The pending event is the oldest one owed, and owed once.
LEMMA PendingIsOldest ==
  ASSUME TypeOK, QueueInOrder, pendingEvent # 0
  PROVE  /\ pendingEvent \in Kept /\ \A f \in Kept : pendingEvent <= f
         /\ Owed(0, eventQueue, nextEventSequenceToQueue) = Kept \ {pendingEvent}
<1>1. /\ totalFaults \in Nat /\ pendingEvent \in Nat
      /\ nextEventSequenceToQueue \in 1..(totalFaults + 1) /\ eventQueue \in Seq(1..totalFaults)
  BY FrameTypes
<1>2. Range(eventQueue) = {eventQueue[i] : i \in 1..Len(eventQueue)}
  BY <1>1, RangeEquality
<1>3. \A f \in Range(eventQueue) : f \in Nat /\ pendingEvent < f
  BY <1>1, <1>2, ElementOfSeq DEF QueueInOrder, Ordered
<1>4. \A f \in nextEventSequenceToQueue..totalFaults : f \in Nat /\ pendingEvent < f
  BY <1>1 DEF QueueInOrder, Ordered
<1> DEFINE later == Range(eventQueue) \cup nextEventSequenceToQueue..totalFaults
<1>5. \A f \in later : f \in Nat /\ pendingEvent < f
  BY <1>3, <1>4
<1>6. Kept = {pendingEvent} \cup later
  BY DEF Kept, Owed
<1>7. Owed(0, eventQueue, nextEventSequenceToQueue) = later
  BY DEF Owed
<1> HIDE DEF later
<1> QED
  BY <1>1, <1>5, <1>6, <1>7

\* An event that is acknowledged is the last one in the log.
LEMMA AcknowledgedIsLast ==
  ASSUME Calm, toMp # <<>>, AckMatches(Head(toMp))
  PROVE  pendingEvent # 0 /\ log # <<>> /\ Last(log) = pendingEvent
<1>1. /\ pendingEvent \in Nat /\ log \in Seq(Event) /\ Len(log) \in Nat /\ earlier = 0
      /\ \A i \in 1..Len(log) : log[i] \in Nat
      /\ log # <<>> => Len(log) \in 1..Len(log) /\ Last(log) = log[Len(log)]
  BY FrameTypes DEF Calm, InLog
<1>2. pendingEvent # 0 /\ pendingEvent \in Range(log)
  BY TailProperties DEF AckMatches, Calm, InLog
<1>3. PICK i \in 1..Len(log) : log[i] = pendingEvent
  BY <1>1, <1>2, RangeEquality
<1>4. log # <<>>
  BY <1>1, <1>3, EmptySeq
<1>5. log[Len(log)] <= pendingEvent
  BY <1>1, <1>2, <1>4 DEF Calm, StreamInOrder, Past, Before
<1>6. log[i] <= log[Len(log)]
  BY <1>1, <1>4 DEF Calm, StreamInOrder, NotDecreasing
<1> QED
  BY <1>1, <1>2, <1>3, <1>4, <1>5, <1>6

LEMMA PromiseMpRxEventAck ==
  Calm /\ MpRxEventAck => (Promise!Forget \/ UNCHANGED Promise!vars) /\ Current'
<1> SUFFICES ASSUME Calm, MpRxEventAck
             PROVE  (Promise!Forget \/ UNCHANGED Promise!vars) /\ Current'
  OBVIOUS
<1> DEFINE loaded == Loaded(0, eventQueue)
           next   == nextEventSequenceToQueue
<1>1. /\ toMp # <<>>
      /\ UNCHANGED <<earlier, totalFaults, nextEventSequenceToQueue, log, toCp>>
  BY DEF MpRxEventAck, cpVars
<1>2. ASSUME AckMatches(Head(toMp))
      PROVE  Promise!Forget /\ Current'
  <2>1. pendingEvent # 0 /\ log # <<>> /\ Last(log) = pendingEvent
    BY <1>1, <1>2, AcknowledgedIsLast
  <2>2. /\ pendingEvent \in Kept /\ \A f \in Kept : pendingEvent <= f
        /\ Owed(0, eventQueue, next) = Kept \ {pendingEvent}
    BY <2>1, PendingIsOldest DEF Calm
  <2>3. eventQueue \in Seq(Nat \ {0}) /\ next \in Nat
    <3>1. eventQueue \in Seq(1..totalFaults) /\ totalFaults \in Nat
          /\ next \in 1..(totalFaults + 1)
      BY FrameTypes DEF Calm
    <3>2. 1..totalFaults \subseteq Nat \ {0}
      OBVIOUS
    <3>3. eventQueue \in Seq(Nat \ {0})
      BY <3>1, <3>2, SeqMonotonic
    <3> QED
      BY <3>1, <3>3
  <2>4. Owed(loaded.pending, loaded.queue, next) = Kept \ {pendingEvent}
    BY <2>2, <2>3, LoadedOwes
  <2>5. pendingEvent' = loaded.pending /\ eventQueue' = loaded.queue
    BY <1>2 DEF MpRxEventAck
  <2> HIDE DEF loaded
  <2>6. Kept' = Kept \ {pendingEvent}
    BY <1>1, <2>4, <2>5 DEF Kept, Owed
  <2>7. \E e \in Kept :
          /\ \A f \in Kept : e <= f
          /\ log # <<>> /\ Last(log) = e
          /\ Kept' = Kept \ {e}
          /\ UNCHANGED <<recorded, log>>
    BY <1>1, <2>1, <2>2, <2>6 DEF recorded
  <2>8. Promise!Forget
    BY <2>7, PromiseLast DEF Promise!Forget, Kept, Owed
  <2>9. Current'
    BY <1>1, <2>1 DEF Calm, Current
  <2> QED
    BY <2>8, <2>9
<1>3. ASSUME ~AckMatches(Head(toMp))
      PROVE  UNCHANGED Promise!vars /\ Current'
  <2>1. UNCHANGED <<pendingEvent, eventQueue>>
    BY <1>3 DEF MpRxEventAck
  <2>2. Kept' = Kept
    BY <1>1, <2>1 DEF Kept, Owed
  <2> QED
    BY <1>1, <2>1, <2>2, KeptUnchanged DEF Calm, Current
<1> QED
  BY <1>2, <1>3

LEMMA PromiseCpRxEvent ==
  Calm /\ CpRxEvent => (Promise!Log \/ UNCHANGED Promise!vars) /\ Current'
<1> SUFFICES ASSUME Calm, CpRxEvent
             PROVE  (Promise!Log \/ UNCHANGED Promise!vars) /\ Current'
  OBVIOUS
<1> DEFINE e == Head(toCp).event
<1>1. /\ toCp # <<>> /\ toCp' = Tail(toCp)
      /\ UNCHANGED <<earlier, totalFaults, nextEventSequenceToQueue, eventQueue, pendingEvent>>
  BY DEF CpRxEvent, mpVars
<1>2. /\ toCp \in Seq(Frame) /\ Len(toCp) \in Nat /\ 1 \in 1..Len(toCp) /\ Head(toCp) = toCp[1]
      /\ \A i \in 1..Len(toCp) : toCp[i].event \in Nat
      /\ Len(toCp') = Len(toCp) - 1
      /\ \A j \in 1..Len(toCp) - 1 : toCp'[j] = toCp[j + 1]
  BY <1>1, FrameTypes, EmptySeq, HeadTailProperties DEF Calm
<1>3. Kept' = Kept
  BY <1>1 DEF Kept, Owed
<1>4. ASSUME IsNew(Head(toCp).sequence)
      PROVE  Promise!Log /\ Current'
  <2>1. log' = Append(log, e)
    BY <1>4 DEF CpRxEvent
  <2>2. log # <<>> => Last(log) \in Nat /\ Last(log) < e
    <3>1. \A i \in 1..Len(log) : log[i] < e
      BY <1>1, <1>4, NewIsLater DEF Calm
    <3>2. /\ log # <<>> => Len(log) \in 1..Len(log) /\ Last(log) = log[Len(log)]
          /\ \A i \in 1..Len(log) : log[i] \in Nat
      BY FrameTypes DEF Calm
    <3> QED
      BY <3>1, <3>2
  <2>3. e \in Nat
    BY <1>2
  <2>4. ASSUME NEW j \in 1..Len(toCp)
        PROVE  pendingEvent # 0 /\ toCp[j].event = pendingEvent
    <3>1. e <= toCp[j].event
      BY <1>2 DEF Calm, StreamInOrder
    <3>2. toCp[j].event \in Nat
      BY <1>2
    <3> HIDE DEF e
    <3>3. log # <<>> => toCp[j].event # Last(log)
      BY <2>2, <2>3, <3>1, <3>2
    <3> QED
      BY <3>3 DEF Calm, Current
  <2>5. e = pendingEvent /\ pendingEvent # 0
    BY <1>2, <2>4
  <2>6. e \in Kept /\ \A f \in Kept : e <= f
    BY <2>5, PendingIsOldest DEF Calm
  <2> HIDE DEF e
  <2>7. \E x \in Kept :
          /\ \A f \in Kept : x <= f
          /\ log # <<>> => Last(log) < x
          /\ log' = Append(log, x)
          /\ recorded' = recorded /\ Kept' = Kept
    BY <1>1, <1>3, <2>1, <2>2, <2>6 DEF recorded
  <2>8. Promise!Log
    BY <2>7, PromiseLast DEF Promise!Log, Kept, Owed
  <2>9. \A j \in 1..Len(toCp') : j + 1 \in 1..Len(toCp) /\ toCp'[j] = toCp[j + 1]
    BY <1>2
  <2>10. Current'
    BY <1>1, <2>4, <2>9 DEF Current
  <2> QED
    BY <2>8, <2>10
<1>5. ASSUME ~IsNew(Head(toCp).sequence)
      PROVE  UNCHANGED Promise!vars /\ Current'
  <2>1. log' = log
    BY <1>5 DEF CpRxEvent, cpVars
  <2>2. Thinned(toCp', toCp)
    BY <1>1, <1>2, ThinnedProperties
  <2> QED
    BY <1>1, <1>3, <2>1, <2>2, KeptUnchanged, CurrentThinned
<1> QED
  BY <1>4, <1>5

LEMMA PromiseStutter ==
  ASSUME Calm, Thinned(toCp', toCp),
         UNCHANGED <<earlier, totalFaults, nextEventSequenceToQueue, eventQueue, pendingEvent, log>>
  PROVE  UNCHANGED Promise!vars /\ Current'
<1>1. Kept' = Kept
  BY DEF Kept, Owed
<1> QED
  BY <1>1, KeptUnchanged, CurrentThinned

\* Every step of the stream is one of the log it promises, or none.
LEMMA PromiseStep ==
  PromiseInv /\ [Next]_vars /\ Undisturbed'
  => (Promise!Next \/ UNCHANGED Promise!vars) /\ Current'
<1> SUFFICES ASSUME PromiseInv, [Next]_vars, Undisturbed'
             PROVE  (Promise!Next \/ UNCHANGED Promise!vars) /\ Current'
  OBVIOUS
<1>1. Undisturbed /\ Calm
  <2>1. TypeOK
    BY DEF PromiseInv, OrderInv
  <2> QED
    BY <2>1, UndisturbedBefore, CalmWhileUndisturbed
<1>2. toCp \in Seq(Frame)
  BY <1>1, FrameTypes DEF Calm
<1>3. CASE OnFault
  BY <1>1, <1>3, PromiseOnFault DEF Promise!Next
<1>4. CASE MpStep
  BY <1>1, <1>4, PromiseMpStep DEF Promise!Next
<1>5. CASE MpRxEventAck
  BY <1>1, <1>5, PromiseMpRxEventAck DEF Promise!Next
<1>6. CASE CpRxEvent
  BY <1>1, <1>6, PromiseCpRxEvent DEF Promise!Next
<1>7. CASE LoseFrame
  <2>1. Thinned(toCp', toCp)
    BY <1>2, <1>7, ThinnedProperties DEF LoseFrame
  <2>2. UNCHANGED <<earlier, totalFaults, nextEventSequenceToQueue, eventQueue, pendingEvent, log>>
    BY <1>7 DEF LoseFrame, mpVars, cpVars
  <2> QED
    BY <1>1, <2>1, <2>2, PromiseStutter
<1>8. CASE Requeue \/ MpRestart \/ CpRestart
  <2>1. TypeOK
    BY <1>1 DEF Calm
  <2> QED
    BY <1>8, <2>1 DEF Requeue, MpRestart, CpRestart, TypeOK, Undisturbed
<1>9. CASE UNCHANGED vars
  <2>1. Thinned(toCp', toCp)
    BY <1>2, <1>9, ThinnedProperties DEF vars
  <2>2. UNCHANGED <<earlier, totalFaults, nextEventSequenceToQueue, eventQueue, pendingEvent, log>>
    BY <1>9 DEF vars, mpVars, cpVars
  <2> QED
    BY <1>1, <2>1, <2>2, PromiseStutter
<1> QED
  BY <1>3, <1>4, <1>5, <1>6, <1>7, <1>8, <1>9 DEF Next

\* Until a processor restarts or a frame overtakes another, the stream implements
\* the log of FaultLog: every event is kept until it is logged, it is logged once
\* and in its order, and only an overrun of the trace gives events up.
THEOREM StreamKeepsPromise == Spec => KeepsPromise
<1>1. Init => PromiseInv /\ Promise!Init
  <2> SUFFICES ASSUME Init PROVE PromiseInv /\ Promise!Init
    OBVIOUS
  <2>1. (\A S : <<>> \in Seq(S)) /\ Len(<<>>) = 0
    BY EmptySeq
  <2>2. IInv
    BY <2>1, InitTypes DEF Init, IInv, InLog
  <2>3. Current
    BY <2>1 DEF Init, Current
  <2>4. Range(eventQueue) = {}
    <3>1. eventQueue \in Seq(Nat) /\ Len(eventQueue) = 0
      BY <2>1 DEF Init
    <3>2. Range(eventQueue) = {eventQueue[i] : i \in 1..Len(eventQueue)}
      BY <3>1, RangeEquality
    <3> QED
      BY <3>1, <3>2
  <2>5. recorded = 0 /\ Kept = {} /\ log = <<>>
    BY <2>4 DEF Init, recorded, Kept, Owed
  <2>6. Promise!Init
    BY <2>5 DEF Promise!Init, Kept, Owed
  <2> QED
    BY <2>2, <2>3, <2>6, OrderInitially DEF PromiseInv
<1>2. PromiseInv /\ [Next]_vars => PromiseInv'
  <2>1. PromiseInv /\ [Next]_vars => OrderInv' /\ IInv'
    BY OrderKept, InvariantKept DEF PromiseInv
  <2> QED
    BY <2>1, PromiseStep DEF PromiseInv
<1>3. PromiseInv /\ [Next]_vars => [Undisturbed' => Promise!Next]_(Promise!vars)
  BY PromiseStep
<1> QED
  BY <1>1, <1>2, <1>3, PTL DEF Spec, KeepsPromise

=============================================================================
