------------------------ MODULE ControlBusEgressProofs ------------------------
(***************************************************************************)
(* Proofs about ControlBusEgress, for every depth of the queue and of the  *)
(* FIFO and however often the bus takes less than it could.                *)
(*                                                                         *)
(* In a period in which the bus empties the FIFO, the FifoDepth first      *)
(* frames of the queue move on and the next one is put back at its tail.   *)
(* So a frame comes closer to the front by Turn places a period, and is    *)
(* put back only if its place is a multiple of Turn.  A heartbeat that is  *)
(* put back and the one queued after it have neighbouring places, of which *)
(* one at most is such a multiple: the other one gets through.             *)
(***************************************************************************)
EXTENDS ControlBusEgress, SequenceTheorems, TLAPS

-----------------------------------------------------------------------------
(* Frames and queues *)

LEMMA ConstantTypes ==
  /\ TxDepth \in Nat \ {0} /\ FifoDepth \in Nat \ {0} /\ MaxSlow \in Nat
  /\ PeerTimeout \in Nat \ {0} /\ MaxAge \in Nat \ {0}
BY DepthsAssumption, SlowAssumption, AgesAssumption

LEMMA OlderType ==
  ASSUME NEW n \in 0..MaxAge
  PROVE  Older(n) \in 0..MaxAge /\ Older(n) <= n + 1
BY ConstantTypes DEF Older, Least

LEMMA AgedProperties ==
  ASSUME NEW s \in Seq(Frame)
  PROVE  /\ Aged(s) \in Seq(Frame) /\ Len(Aged(s)) = Len(s)
         /\ \A i \in 1..Len(s) : Aged(s)[i].kind = s[i].kind
<1>1. Len(s) \in Nat /\ \A i \in 1..Len(s) : s[i] \in Frame
  BY LenProperties, ElementOfSeq
<1>2. \A f \in Frame : /\ [f EXCEPT !.age = Older(@)] \in Frame
                       /\ [f EXCEPT !.age = Older(@)].kind = f.kind
  BY OlderType DEF Frame
<1>3. Aged(s) \in [1..Len(s) -> Frame]
  BY <1>1, <1>2 DEF Aged
<1>4. Aged(s) \in Seq(Frame) /\ Len(Aged(s)) = Len(s)
  BY <1>1, <1>3, SeqDef, LenProperties
<1>5. \A i \in 1..Len(s) : Aged(s)[i].kind = s[i].kind
  BY <1>1, <1>2 DEF Aged
<1> QED
  BY <1>4, <1>5

LEMMA SupersededProperties ==
  ASSUME NEW s \in Seq(Frame)
  PROVE  /\ Superseded(s) \in Seq(Frame) /\ Len(Superseded(s)) = Len(s)
         /\ \A i \in 1..Len(s) :
              s[i].kind = "HEARTBEAT" => Superseded(s)[i].kind = "HEARTBEAT"
<1> DEFINE old(f) == [f EXCEPT !.kind = IF @ = "EVENT" THEN "OLD_EVENT" ELSE @]
<1>1. Len(s) \in Nat /\ \A i \in 1..Len(s) : s[i] \in Frame
  BY LenProperties, ElementOfSeq
<1>2. \A f \in Frame : old(f) \in Frame /\ (f.kind = "HEARTBEAT" => old(f).kind = "HEARTBEAT")
  BY DEF Frame, Kind
<1>3. Superseded(s) = [i \in 1..Len(s) |-> old(s[i])]
  BY DEF Superseded
<1> HIDE DEF old
<1>4. Superseded(s) \in [1..Len(s) -> Frame]
  BY <1>1, <1>2, <1>3
<1>5. Superseded(s) \in Seq(Frame) /\ Len(Superseded(s)) = Len(s)
  BY <1>1, <1>4, SeqDef, LenProperties
<1> QED
  BY <1>1, <1>2, <1>3, <1>5

\* The frames of a period: the heartbeat is the first.
LEMMA StepFramesProperties ==
  ASSUME NEW pending \in BOOLEAN
  PROVE  /\ StepFrames(pending) \in Seq(Kind)
         /\ Len(StepFrames(pending)) \in Nat \ {0}
         /\ StepFrames(pending)[1] = "HEARTBEAT"
<1> DEFINE four == <<"HEARTBEAT", "CONFIG_STATUS", "SAFETY", "FAULTS">>
           last == IF pending THEN <<"EVENT">> ELSE <<>>
<1>1. four \in Seq(Kind) /\ Len(four) = 4 /\ four[1] = "HEARTBEAT"
  BY DEF Kind
<1>2. last \in Seq(Kind) /\ Len(last) \in Nat
  <2>1. <<"EVENT">> \in Seq(Kind) /\ Len(<<"EVENT">>) = 1
    BY DEF Kind
  <2>2. <<>> \in Seq(Kind) /\ Len(<<>>) = 0
    BY EmptySeq
  <2> QED
    BY <2>1, <2>2
<1>3. StepFrames(pending) = four \o last
  BY DEF StepFrames
<1> HIDE DEF four, last
<1>4. /\ four \o last \in Seq(Kind) /\ Len(four \o last) = 4 + Len(last)
      /\ (four \o last)[1] = four[1]
  <2>1. 1 \in 1..Len(four) + Len(last) /\ 1 <= Len(four)
    BY <1>1, <1>2
  <2> QED
    BY <1>1, <1>2, <2>1, ConcatProperties
<1> QED
  BY <1>1, <1>2, <1>3, <1>4

\* Queueing frames keeps those that are in the queue where they are, and the first
\* of the new ones comes next if there is room for it.
LEMMA QueuedProperties ==
  ASSUME NEW queue \in Seq(Frame), Len(queue) <= TxDepth,
         NEW kinds \in Seq(Kind), Len(kinds) # 0
  PROVE  /\ Queued(queue, kinds) \in Seq(Frame)
         /\ Len(Queued(queue, kinds)) <= TxDepth
         /\ Len(queue) <= Len(Queued(queue, kinds))
         /\ \A i \in 1..Len(queue) : Queued(queue, kinds)[i] = queue[i]
         /\ Len(queue) < TxDepth =>
              /\ Len(queue) < Len(Queued(queue, kinds))
              /\ Queued(queue, kinds)[Len(queue) + 1].kind = kinds[1]
<1> DEFINE m   == Least(Len(kinds), TxDepth - Len(queue))
           new == [i \in 1..m |-> [kind |-> kinds[i], age |-> 0]]
<1>1. Len(queue) \in Nat /\ Len(kinds) \in Nat /\ TxDepth \in Nat /\ MaxAge \in Nat
  BY ConstantTypes, LenProperties
<1>2. /\ m \in Nat /\ m <= Len(kinds) /\ Len(queue) + m <= TxDepth
      /\ Len(queue) < TxDepth => m > 0
  BY <1>1 DEF Least
<1> HIDE DEF m
<1>3. \A i \in 1..m : [kind |-> kinds[i], age |-> 0] \in Frame
  <2>1. \A i \in 1..m : kinds[i] \in Kind
    BY <1>1, <1>2, ElementOfSeq
  <2> QED
    BY <1>1, <2>1 DEF Frame
<1>4. new \in [1..m -> Frame]
  BY <1>3
<1>5. new \in Seq(Frame) /\ Len(new) = m
  BY <1>2, <1>4, SeqDef, LenProperties
<1>6. m > 0 => new[1].kind = kinds[1]
  BY <1>2
<1> HIDE DEF new
<1>7. Queued(queue, kinds) = queue \o new
  BY DEF Queued, new, m
<1>8. /\ queue \o new \in Seq(Frame) /\ Len(queue \o new) = Len(queue) + m
      /\ \A i \in 1..Len(queue) + m :
           (queue \o new)[i] = IF i <= Len(queue) THEN queue[i] ELSE new[i - Len(queue)]
  BY <1>5, ConcatProperties
<1>9. \A i \in 1..Len(queue) : (queue \o new)[i] = queue[i]
  BY <1>1, <1>2, <1>8
<1>10. m > 0 => (queue \o new)[Len(queue) + 1] = new[1]
  BY <1>1, <1>2, <1>8
<1> QED
  BY <1>1, <1>2, <1>6, <1>7, <1>8, <1>9, <1>10

-----------------------------------------------------------------------------
(* The steps of ControlBusAdapterStep *)

\* What the adapter finds: an acknowledgement may make an event an old one.
FoundQueue == IF ack = "bus" THEN Superseded(txQueue) ELSE txQueue
FoundFifo  == IF ack = "bus" THEN Superseded(txFifo) ELSE txFifo
Moved      == Least(FifoDepth - Len(txFifo), Len(txQueue))

LEMMA FoundProperties ==
  ASSUME TypeOK
  PROVE  /\ FoundQueue \in Seq(Frame) /\ Len(FoundQueue) = Len(txQueue)
         /\ FoundFifo \in Seq(Frame) /\ Len(FoundFifo) = Len(txFifo)
         /\ \A i \in 1..Len(txQueue) :
              txQueue[i].kind = "HEARTBEAT" => FoundQueue[i].kind = "HEARTBEAT"
         /\ \A i \in 1..Len(txFifo) :
              txFifo[i].kind = "HEARTBEAT" => FoundFifo[i].kind = "HEARTBEAT"
<1>1. txQueue \in Seq(Frame) /\ txFifo \in Seq(Frame)
  BY DEF TypeOK
<1> QED
  BY <1>1, SupersededProperties DEF FoundQueue, FoundFifo

LEMMA MovedProperties ==
  ASSUME TypeOK
  PROVE  /\ Moved \in Nat /\ Moved <= Len(txQueue) /\ Len(txFifo) + Moved <= FifoDepth
         /\ Moved = Len(txQueue) \/ Len(txFifo) + Moved = FifoDepth
         /\ Len(txQueue) \in Nat /\ Len(txFifo) \in Nat
<1>1. /\ Len(txFifo) \in Nat /\ Len(txQueue) \in Nat /\ FifoDepth \in Nat
      /\ Len(txFifo) <= FifoDepth
  BY ConstantTypes, LenProperties DEF TypeOK
<1> QED
  BY <1>1 DEF Moved, Least

\* The first frames of the queue go to the FIFO; the next one is put back at the tail
\* and the others move up.
LEMMA AdapterMoves ==
  ASSUME TypeOK, AdapterStep
  PROVE  /\ txFifo' \in Seq(Frame) /\ Len(txFifo') = Len(txFifo) + Moved
         /\ \A i \in 1..Len(txFifo) : txFifo'[i] = FoundFifo[i]
         /\ \A i \in 1..Moved : txFifo'[Len(txFifo) + i] = FoundQueue[i]
         /\ txQueue' \in Seq(Frame) /\ Len(txQueue') = Len(txQueue) - Moved
         /\ \A i \in 1..Len(txQueue) :
              i > Moved + 1 => txQueue'[i - Moved - 1] = FoundQueue[i]
         /\ Moved < Len(txQueue) => txQueue'[Len(txQueue')] = FoundQueue[Moved + 1]
<1> DEFINE q == FoundQueue
           f == FoundFifo
           n == Moved
           rest == SubSeq(q, n + 1, Len(q))
           head == SubSeq(q, 1, n)
<1>1. /\ q \in Seq(Frame) /\ Len(q) = Len(txQueue) /\ f \in Seq(Frame)
      /\ Len(f) = Len(txFifo) /\ Len(q) \in Nat /\ Len(f) \in Nat
      /\ n \in Nat /\ n <= Len(q)
  BY FoundProperties, MovedProperties
<1>2. /\ txFifo' = f \o head
      /\ txQueue' = IF rest = <<>> THEN rest ELSE AfterRefusal(rest)
  <2> DEFINE m     == Least(FifoDepth - Len(f), Len(q))
             rest_m == SubSeq(q, m + 1, Len(q))
  <2>1. /\ txFifo' = f \o SubSeq(q, 1, m)
        /\ txQueue' = IF rest_m = <<>> THEN rest_m ELSE AfterRefusal(rest_m)
    BY DEF AdapterStep, FoundQueue, FoundFifo
  <2>2. m = n
    BY <1>1 DEF Moved
  <2> HIDE DEF m
  <2> QED
    BY <2>1, <2>2
<1> HIDE DEF q, f, n
<1>3. \A i \in 1..Len(q) : q[i] \in Frame
  BY <1>1, ElementOfSeq
<1>4. /\ head \in Seq(Frame) /\ Len(head) = n
      /\ \A i \in 1..n : head[i] = q[i]
  <2>1. \A i \in 1..n : q[i] \in Frame
    BY <1>1, <1>3
  <2>2. /\ head \in Seq(Frame)
        /\ Len(head) = IF 1 <= n THEN n - 1 + 1 ELSE 0
        /\ \A i \in 1..n - 1 + 1 : head[i] = q[1 + i - 1]
    BY <1>1, <2>1, SubSeqProperties
  <2> QED
    BY <1>1, <2>2
<1>5. /\ rest \in Seq(Frame) /\ Len(rest) = Len(q) - n
      /\ \A i \in 1..Len(q) - n : rest[i] = q[n + i]
  <2>1. \A i \in n + 1..Len(q) : q[i] \in Frame
    BY <1>1, <1>3
  <2>2. /\ rest \in Seq(Frame)
        /\ Len(rest) = IF n + 1 <= Len(q) THEN Len(q) - (n + 1) + 1 ELSE 0
        /\ \A i \in 1..Len(q) - (n + 1) + 1 : rest[i] = q[(n + 1) + i - 1]
    BY <1>1, <2>1, SubSeqProperties
  <2> QED
    BY <1>1, <2>2
<1> HIDE DEF head, rest
<1>6. /\ txFifo' \in Seq(Frame) /\ Len(txFifo') = Len(f) + n
      /\ \A i \in 1..Len(f) : txFifo'[i] = f[i]
      /\ \A i \in 1..n : txFifo'[Len(f) + i] = q[i]
  <2>1. /\ f \o head \in Seq(Frame) /\ Len(f \o head) = Len(f) + n
        /\ \A i \in 1..Len(f) + n :
             (f \o head)[i] = IF i <= Len(f) THEN f[i] ELSE head[i - Len(f)]
    <3>1. /\ f \o head \in Seq(Frame) /\ Len(f \o head) = Len(f) + Len(head)
          /\ \A i \in 1..Len(f) + Len(head) :
               (f \o head)[i] = IF i <= Len(f) THEN f[i] ELSE head[i - Len(f)]
      <4>1. f \in Seq(Frame) /\ head \in Seq(Frame)
        BY <1>1, <1>4
      <4> QED
        BY <4>1, ConcatProperties
    <3> QED
      BY <1>4, <3>1
  <2>2. \A i \in 1..Len(f) : i \in 1..Len(f) + n /\ i <= Len(f)
    BY <1>1
  <2>3. \A i \in 1..n : Len(f) + i \in 1..Len(f) + n /\ ~(Len(f) + i <= Len(f))
                        /\ Len(f) + i - Len(f) = i
    BY <1>1
  <2> QED
    BY <1>2, <1>4, <2>1, <2>2, <2>3
<1>7. CASE rest = <<>>
  <2>1. Len(q) = n
    BY <1>1, <1>5, <1>7, EmptySeq
  <2> QED
    BY <1>1, <1>2, <1>5, <1>6, <1>7, <2>1 DEF n, q, f
<1>8. CASE rest # <<>>
  <2>1. /\ Len(rest) > 0 /\ Head(rest) = rest[1] /\ Head(rest) \in Frame
        /\ Tail(rest) \in Seq(Frame) /\ Len(Tail(rest)) = Len(rest) - 1
        /\ \A i \in 1..Len(rest) - 1 : Tail(rest)[i] = rest[i + 1]
    BY <1>1, <1>5, <1>8, EmptySeq, HeadTailProperties, ElementOfSeq
  <2>2. txQueue' = Append(Tail(rest), rest[1])
    BY <1>2, <1>8, <2>1 DEF AfterRefusal
  <2>3. /\ txQueue' \in Seq(Frame) /\ Len(txQueue') = Len(rest)
        /\ \A i \in 1..Len(rest) - 1 : txQueue'[i] = rest[i + 1]
        /\ txQueue'[Len(rest)] = rest[1]
    <3>1. /\ Append(Tail(rest), rest[1]) \in Seq(Frame)
          /\ Len(Append(Tail(rest), rest[1])) = Len(Tail(rest)) + 1
          /\ \A i \in 1..Len(Tail(rest)) :
               Append(Tail(rest), rest[1])[i] = Tail(rest)[i]
          /\ Append(Tail(rest), rest[1])[Len(Tail(rest)) + 1] = rest[1]
      BY <2>1, AppendProperties
    <3>2. Len(rest) \in Nat
      BY <1>1, <1>5
    <3> QED
      BY <2>1, <2>2, <3>1, <3>2
  <2>4. \A i \in 1..Len(q) : i > n + 1 => txQueue'[i - n - 1] = q[i]
    <3> SUFFICES ASSUME NEW i \in 1..Len(q), i > n + 1 PROVE txQueue'[i - n - 1] = q[i]
      OBVIOUS
    <3>1. /\ i - n - 1 \in 1..Len(rest) - 1 /\ (i - n - 1) + 1 = i - n
          /\ i - n \in 1..Len(q) - n /\ n + (i - n) = i
      BY <1>1, <1>5
    <3> QED
      BY <1>5, <2>3, <3>1
  <2>5. txQueue'[Len(rest)] = q[n + 1]
    <3>1. 1 \in 1..Len(q) - n
      BY <1>1, <1>5, <2>1
    <3> QED
      BY <1>5, <2>3, <3>1
  <2> QED
    BY <1>1, <1>5, <1>6, <2>3, <2>4, <2>5 DEF n, q, f
<1> QED
  BY <1>7, <1>8

-----------------------------------------------------------------------------
(* The bus, and the types *)

\* A part of the FIFO, a period later.
LEMMA AgedPart ==
  ASSUME NEW s \in Seq(Frame), NEW a \in 1..Len(s) + 1, NEW b \in 0..Len(s), a <= b + 1
  PROVE  /\ Aged(SubSeq(s, a, b)) \in Seq(Frame)
         /\ Len(Aged(SubSeq(s, a, b))) = b - a + 1
         /\ \A i \in 1..b - a + 1 : Aged(SubSeq(s, a, b))[i].kind = s[a + i - 1].kind
<1> DEFINE part == SubSeq(s, a, b)
<1>1. Len(s) \in Nat
  BY LenProperties
<1>2. \A i \in a..b : s[i] \in Frame
  BY <1>1, ElementOfSeq
<1>3. /\ part \in Seq(Frame)
      /\ Len(part) = IF a <= b THEN b - a + 1 ELSE 0
      /\ \A i \in 1..b - a + 1 : part[i] = s[a + i - 1]
  BY <1>1, <1>2, SubSeqProperties
<1>4. Len(part) = b - a + 1
  BY <1>1, <1>3
<1> HIDE DEF part
<1>5. /\ Aged(part) \in Seq(Frame) /\ Len(Aged(part)) = Len(part)
      /\ \A i \in 1..Len(part) : Aged(part)[i].kind = part[i].kind
  BY <1>3, AgedProperties
<1>6. \A i \in 1..b - a + 1 : Aged(part)[i].kind = s[a + i - 1].kind
  BY <1>3, <1>4, <1>5
<1> QED
  BY <1>4, <1>5, <1>6 DEF part

LEMMA BusMoves ==
  ASSUME TypeOK, NEW n \in 0..Len(txFifo), BusTakes(n)
  PROVE  /\ txFifo' \in Seq(Frame) /\ Len(txFifo') = Len(txFifo) - n
         /\ \A i \in 1..Len(txFifo) - n : txFifo'[i].kind = txFifo[n + i].kind
         /\ txQueue' \in Seq(Frame) /\ Len(txQueue') = Len(txQueue)
         /\ \A i \in 1..Len(txQueue) : txQueue'[i].kind = txQueue[i].kind
         /\ heartbeatAge' = IF \E i \in 1..n : txFifo[i].kind = "HEARTBEAT"
                            THEN 0 ELSE Older(heartbeatAge)
         /\ statusAge' \in 0..MaxAge
<1> DEFINE taken == Aged(SubSeq(txFifo, 1, n))
<1>1. /\ txFifo \in Seq(Frame) /\ txQueue \in Seq(Frame) /\ Len(txFifo) \in Nat
      /\ statusAge \in 0..MaxAge
  BY LenProperties DEF TypeOK
<1>2. /\ taken \in Seq(Frame) /\ Len(taken) = n
      /\ \A i \in 1..n : taken[i].kind = txFifo[i].kind
  <2>1. 1 \in 1..Len(txFifo) + 1 /\ 1 <= n + 1 /\ n - 1 + 1 = n
    BY <1>1
  <2>2. /\ taken \in Seq(Frame) /\ Len(taken) = n - 1 + 1
        /\ \A i \in 1..n - 1 + 1 : taken[i].kind = txFifo[1 + i - 1].kind
    BY <1>1, <2>1, AgedPart
  <2> QED
    BY <1>1, <2>2
<1>3. /\ txFifo' \in Seq(Frame) /\ Len(txFifo') = Len(txFifo) - n
      /\ \A i \in 1..Len(txFifo) - n : txFifo'[i].kind = txFifo[n + i].kind
  <2> DEFINE l == Len(txFifo)
             left == Aged(SubSeq(txFifo, n + 1, l))
  <2>1. n + 1 \in 1..l + 1 /\ l \in 0..l /\ n + 1 <= l + 1
    BY <1>1
  <2>2. /\ left \in Seq(Frame) /\ Len(left) = l - (n + 1) + 1
        /\ \A i \in 1..l - (n + 1) + 1 : left[i].kind = txFifo[(n + 1) + i - 1].kind
    BY <1>1, <2>1, AgedPart
  <2>3. txFifo' = left
    BY DEF BusTakes
  <2> HIDE DEF left
  <2> QED
    BY <1>1, <2>2, <2>3
<1>4. /\ txQueue' \in Seq(Frame) /\ Len(txQueue') = Len(txQueue)
      /\ \A i \in 1..Len(txQueue) : txQueue'[i].kind = txQueue[i].kind
  BY <1>1, AgedProperties DEF BusTakes
<1>5. /\ heartbeatAge' = IF \E i \in 1..n : taken[i].kind = "HEARTBEAT"
                         THEN 0 ELSE Older(heartbeatAge)
      /\ \/ \E i \in 1..n : statusAge' = taken[i].age
         \/ statusAge' = Older(statusAge)
  BY DEF BusTakes
<1> HIDE DEF taken
<1>6. heartbeatAge' = IF \E i \in 1..n : txFifo[i].kind = "HEARTBEAT"
                      THEN 0 ELSE Older(heartbeatAge)
  BY <1>2, <1>5
<1>7. statusAge' \in 0..MaxAge
  <2>1. CASE \E i \in 1..n : statusAge' = taken[i].age
    <3>1. PICK i \in 1..n : statusAge' = taken[i].age
      BY <2>1
    <3>2. taken[i] \in Frame
      BY <1>2, ElementOfSeq
    <3> QED
      BY <3>1, <3>2 DEF Frame
  <2>2. CASE statusAge' = Older(statusAge)
    BY <1>1, <2>2, OlderType
  <2> QED
    BY <1>5, <2>1, <2>2
<1> QED
  BY <1>3, <1>4, <1>6, <1>7

LEMMA BusCases ==
  ASSUME TypeOK, Bus
  PROVE  \E n \in 0..Len(txFifo) :
           /\ BusTakes(n)
           /\ \/ n = Len(txFifo) /\ slow' = slow
              \/ n < Len(txFifo) /\ slow < MaxSlow /\ slow' = slow + 1
<1>1. Len(txFifo) \in Nat
  BY LenProperties DEF TypeOK
<1>2. CASE BusTakes(Len(txFifo)) /\ UNCHANGED slow
  <2>1. Len(txFifo) \in 0..Len(txFifo)
    BY <1>1
  <2> QED
    BY <1>2, <2>1
<1>3. CASE slow < MaxSlow /\ slow' = slow + 1 /\ \E n \in 0..(Len(txFifo) - 1) : BusTakes(n)
  <2>1. PICK n \in 0..(Len(txFifo) - 1) : BusTakes(n)
    BY <1>3
  <2>2. n \in 0..Len(txFifo) /\ n < Len(txFifo)
    BY <1>1
  <2> QED
    BY <1>3, <2>1, <2>2
<1> QED
  BY <1>2, <1>3 DEF Bus

LEMMA BusTypes == TypeOK /\ Bus => TypeOK'
<1> SUFFICES ASSUME TypeOK, Bus PROVE TypeOK'
  OBVIOUS
<1>1. PICK n \in 0..Len(txFifo) :
        /\ BusTakes(n)
        /\ \/ n = Len(txFifo) /\ slow' = slow
           \/ n < Len(txFifo) /\ slow < MaxSlow /\ slow' = slow + 1
  BY BusCases
<1>2. /\ txFifo' \in Seq(Frame) /\ Len(txFifo') = Len(txFifo) - n
      /\ txQueue' \in Seq(Frame) /\ Len(txQueue') = Len(txQueue)
      /\ heartbeatAge' \in {0, Older(heartbeatAge)}
      /\ statusAge' \in 0..MaxAge
  BY <1>1, BusMoves
<1>3. /\ Len(txFifo) \in Nat /\ Len(txFifo) <= FifoDepth /\ FifoDepth \in Nat
      /\ Len(txQueue) <= TxDepth /\ MaxSlow \in Nat /\ slow \in 0..MaxSlow
      /\ heartbeatAge \in 0..MaxAge /\ ack \in {"none", "queued", "bus"}
      /\ pendingEvent \in BOOLEAN /\ MaxAge \in Nat
  BY ConstantTypes, LenProperties DEF TypeOK
<1>4. heartbeatAge' \in 0..MaxAge
  <2>1. Older(heartbeatAge) \in 0..MaxAge /\ 0 \in 0..MaxAge
    <3>1. heartbeatAge \in 0..MaxAge /\ 0 \in 0..MaxAge
      BY <1>3
    <3> QED
      BY <3>1, OlderType
  <2> QED
    BY <1>2, <2>1
<1>5. /\ pc' = "adapter" /\ pendingEvent' = pendingEvent
      /\ ack' \in {ack, "queued", "bus"}
  BY <1>1 DEF BusTakes
<1>6. Len(txFifo') <= FifoDepth
  BY <1>2, <1>3
<1>7. slow' \in 0..MaxSlow
  BY <1>1, <1>3
<1> QED
  BY <1>2, <1>3, <1>4, <1>5, <1>6, <1>7 DEF TypeOK

LEMMA AdapterTypes == TypeOK /\ AdapterStep => TypeOK'
<1> SUFFICES ASSUME TypeOK, AdapterStep PROVE TypeOK'
  OBVIOUS
<1>1. /\ txFifo' \in Seq(Frame) /\ Len(txFifo') = Len(txFifo) + Moved
      /\ txQueue' \in Seq(Frame) /\ Len(txQueue') = Len(txQueue) - Moved
  BY AdapterMoves
<1>2. Len(txFifo') <= FifoDepth /\ Len(txQueue') <= TxDepth
  BY <1>1, MovedProperties, ConstantTypes DEF TypeOK
<1>3. /\ pc' = "link" /\ ack' \in {ack, "none"} /\ pendingEvent' \in BOOLEAN
      /\ UNCHANGED <<cpVars, slow>>
  BY DEF AdapterStep
<1> QED
  BY <1>1, <1>2, <1>3 DEF TypeOK, cpVars

LEMMA LinkTypes == TypeOK /\ LinkStep => TypeOK'
<1> SUFFICES ASSUME TypeOK, LinkStep PROVE TypeOK'
  OBVIOUS
<1>1. PICK pending \in BOOLEAN :
        /\ pc' = "bus" /\ pendingEvent' = pending
        /\ txQueue' = Queued(txQueue, StepFrames(pending))
        /\ UNCHANGED <<txFifo, ack, cpVars, slow>>
  BY DEF LinkStep
<1>2. txQueue \in Seq(Frame) /\ Len(txQueue) <= TxDepth
  BY DEF TypeOK
<1>3. StepFrames(pending) \in Seq(Kind) /\ Len(StepFrames(pending)) # 0
  BY StepFramesProperties
<1>4. txQueue' \in Seq(Frame) /\ Len(txQueue') <= TxDepth
  BY <1>1, <1>2, <1>3, QueuedProperties
<1> QED
  BY <1>1, <1>4 DEF TypeOK, cpVars

LEMMA NextTypes == TypeOK /\ [Next]_vars => TypeOK'
<1> SUFFICES ASSUME TypeOK, [Next]_vars PROVE TypeOK'
  OBVIOUS
<1>1. CASE UNCHANGED vars
  BY <1>1 DEF TypeOK, vars, cpVars
<1> QED
  BY <1>1, BusTypes, AdapterTypes, LinkTypes DEF Next

LEMMA InitTypes == Init => TypeOK
<1> SUFFICES ASSUME Init PROVE TypeOK
  OBVIOUS
<1>1. <<>> \in Seq(Frame) /\ Len(<<>>) = 0
  BY EmptySeq
<1>2. 0 <= TxDepth /\ 0 <= FifoDepth /\ 0 \in 0..MaxAge /\ 0 \in 0..MaxSlow
  BY ConstantTypes
<1> QED
  BY <1>1, <1>2 DEF Init, TypeOK

\* Neither the queue of the adapter nor the FIFO of the CAN controller ever holds
\* more frames than it has room for, whatever the bus takes.
THEOREM EgressTypes == Spec => []TypeOK
BY InitTypes, NextTypes, PTL DEF Spec

-----------------------------------------------------------------------------
(* No heartbeat is starved *)

\* The places by which a frame moves up in a period in which the bus takes FifoDepth.
Turn == FifoDepth + 1

LEMMA OneTurnLess ==
  ASSUME NEW k \in Nat \ {0}
  PROVE  k - 1 \in Nat /\ (k - 1) * Turn \in Nat /\ k * Turn = (k - 1) * Turn + Turn
<1> DEFINE d == k - 1
<1>1. d \in Nat /\ k = d + 1
  OBVIOUS
<1>2. Turn \in Nat
  BY ConstantTypes DEF Turn
<1> HIDE DEF d
<1>3. \A t \in Nat : d * t \in Nat /\ (d + 1) * t = d * t + t
  BY <1>1
<1>4. d * Turn \in Nat /\ k * Turn = d * Turn + Turn
  BY <1>1, <1>2, <1>3
<1> QED
  BY <1>1, <1>4 DEF d

\* Every place is so many turns from the front and some places.
LEMMA Places ==
  ASSUME NEW q \in Nat
  PROVE  \E k \in Nat, j \in 0..FifoDepth : q = k * Turn + j
<1>1. Turn \in Nat \ {0} /\ Turn - 1 = FifoDepth
  BY ConstantTypes DEF Turn
<1>2. q \div Turn \in Int /\ q \div Turn >= 0
  BY <1>1
<1>3. q - Turn * (q \div Turn) \in 0..Turn - 1
  BY <1>1
<1> DEFINE k == q \div Turn
<1>4. k \in Nat
  BY <1>2
<1>5. q - Turn * k \in 0..FifoDepth
  BY <1>1, <1>3
<1> HIDE DEF k
<1>6. q = k * Turn + (q - Turn * k)
  BY <1>1, <1>4
<1> QED
  BY <1>4, <1>5, <1>6

\* A place in the queue that is no multiple of Turn is less than r turns away, if
\* the queue holds no more than r turns.
LEMMA TurnsBound ==
  ASSUME NEW k \in Nat, NEW j \in Nat \ {0}, NEW r \in Nat, k * Turn + j <= r * Turn
  PROVE  k + 1 <= r
<1>1. Turn \in Nat
  BY ConstantTypes DEF Turn
<1> SUFFICES ASSUME k >= r PROVE FALSE
  OBVIOUS
<1> DEFINE d == k - r
<1>2. d \in Nat /\ k = r + d
  OBVIOUS
<1> HIDE DEF d
<1>3. d * Turn \in Nat /\ (r + d) * Turn = r * Turn + d * Turn /\ r * Turn \in Nat
  BY <1>1, <1>2
<1>4. r * Turn + d * Turn + j <= r * Turn
  BY <1>2, <1>3
<1> QED
  BY <1>3, <1>4

LEMMA TurnsBoundMultiple ==
  ASSUME NEW k \in Nat, NEW r \in Nat, k * Turn <= r * Turn
  PROVE  k <= r
<1>1. Turn \in Nat \ {0}
  BY ConstantTypes DEF Turn
<1> SUFFICES ASSUME k >= r + 1 PROVE FALSE
  OBVIOUS
<1> DEFINE d == k - (r + 1)
<1>2. d \in Nat /\ k = (r + 1) + d
  OBVIOUS
<1> HIDE DEF d
<1>3. /\ d * Turn \in Nat /\ r * Turn \in Nat
      /\ ((r + 1) + d) * Turn = r * Turn + Turn + d * Turn
  BY <1>1, <1>2
<1> QED
  BY <1>1, <1>2, <1>3

Heartbeat(frames, i) == i \in 1..Len(frames) /\ frames[i].kind = "HEARTBEAT"

\* A heartbeat arrives within w periods, if the bus empties the FIFO in each of them:
\* it is in the FIFO, or no multiple of Turn from the front, or will be put back.
\* The queue holds no more than r turns.
DueIn(fifo, queue, w, r) ==
  \/ w >= 1 /\ \E i \in Nat : Heartbeat(fifo, i)
  \/ \E k \in Nat, j \in 1..FifoDepth : Heartbeat(queue, k * Turn + j) /\ w >= k + 2
  \/ \E k \in Nat \ {0} : Heartbeat(queue, k * Turn) /\ w >= k + r + 1

Due(w, r) == DueIn(txFifo, txQueue, w, r)

\* The same between Bus and AdapterStep, after a period in which the bus emptied the
\* FIFO.
DueAtAdapter(w, r) ==
  /\ txFifo = <<>>
  /\ \/ txQueue = <<>> /\ w >= 2
     \/ \E k \in Nat, j \in 1..FifoDepth : Heartbeat(txQueue, k * Turn + j) /\ w >= k + 1
     \/ \E k \in Nat \ {0} : Heartbeat(txQueue, k * Turn) /\ w >= k + r

\* The heartbeat that is about to be queued arrives within w periods.
NextDue(w, r) ==
  /\ Len(txQueue) < TxDepth
  /\ \/ w >= 2 * r + 1
     \/ \E k \in Nat, j \in 1..FifoDepth : Len(txQueue) + 1 = k * Turn + j /\ w >= k + 2

\* There is a heartbeat on its way, or there will be one after the next LinkStep.
OnItsWay == (\E i \in Nat : Heartbeat(txFifo, i)) \/ (\E i \in Nat : Heartbeat(txQueue, i))

\* What is known of the next heartbeat at each point of the period.
Expected(w, r) ==
  /\ pc = "bus"     => Due(w, r) \/ (txQueue = <<>> /\ txFifo = <<>> /\ w >= 3)
  /\ pc = "adapter" => \/ DueAtAdapter(w, r)
                       \/ w >= 2 * r + 1 /\ (OnItsWay \/ Len(txFifo) < FifoDepth)
  /\ pc = "link"    => Due(w, r) \/ NextDue(w, r)

\* Each period in which the bus takes less starts the wait anew.
Awaited(r) ==
  \E w \in Nat \ {0} : heartbeatAge + w <= (slow + 1) * (2 * r + 1) /\ Expected(w, r)

WaitInv(r) == TypeOK /\ Awaited(r)

\* A heartbeat in the queue arrives within two rounds of the queue.
LEMMA QueuedIsDue ==
  ASSUME NEW fifo, NEW queue, NEW q \in 1..TxDepth, Heartbeat(queue, q),
         NEW r \in Nat, TxDepth <= r * Turn,
         NEW w \in Nat, w >= 2 * r + 1
  PROVE  DueIn(fifo, queue, w, r)
<1>1. TxDepth \in Nat /\ q \in Nat /\ q > 0 /\ q <= TxDepth /\ FifoDepth \in Nat \ {0}
      /\ Turn \in Nat
  BY ConstantTypes DEF Turn
<1>2. PICK k \in Nat, j \in 0..FifoDepth : q = k * Turn + j
  BY <1>1, Places
<1>3. r * Turn \in Nat /\ k * Turn \in Nat
  BY <1>1
<1>4. CASE j = 0
  <2>1. q = k * Turn /\ k * Turn <= r * Turn
    BY <1>1, <1>2, <1>3, <1>4
  <2>2. k <= r
    BY <2>1, TurnsBoundMultiple
  <2>3. k # 0
    BY <1>1, <2>1
  <2>4. w >= k + r + 1
    BY <2>2
  <2> QED
    BY <2>1, <2>3, <2>4 DEF DueIn
<1>5. CASE j # 0
  <2>1. j \in 1..FifoDepth /\ j \in Nat \ {0} /\ k * Turn + j <= r * Turn
    BY <1>1, <1>2, <1>3, <1>5
  <2>2. k + 1 <= r
    BY <2>1, TurnsBound
  <2>3. w >= k + 2
    BY <2>1, <2>2
  <2> QED
    BY <1>2, <2>1, <2>3 DEF DueIn
<1> QED
  BY <1>4, <1>5

LEMMA AwaitLink ==
  ASSUME NEW r \in Nat, TxDepth <= r * Turn, WaitInv(r), LinkStep
  PROVE  Awaited(r)'
<1>1. /\ TypeOK /\ txQueue \in Seq(Frame) /\ Len(txQueue) <= TxDepth /\ Len(txQueue) \in Nat
      /\ TxDepth \in Nat
  BY ConstantTypes, LenProperties DEF WaitInv, TypeOK
<1>2. PICK pending \in BOOLEAN :
        /\ pc = "link" /\ pc' = "bus"
        /\ txQueue' = Queued(txQueue, StepFrames(pending))
        /\ UNCHANGED <<txFifo, cpVars, slow>>
  BY DEF LinkStep
<1>3. PICK w \in Nat \ {0} :
        heartbeatAge + w <= (slow + 1) * (2 * r + 1) /\ (Due(w, r) \/ NextDue(w, r))
  BY <1>2 DEF WaitInv, Awaited, Expected
<1>4. /\ \A i \in 1..Len(txQueue) : txQueue'[i] = txQueue[i]
      /\ Len(txQueue) <= Len(txQueue') /\ Len(txQueue') \in Nat
      /\ Len(txQueue) < TxDepth => Heartbeat(txQueue', Len(txQueue) + 1)
  <2>1. /\ StepFrames(pending) \in Seq(Kind) /\ Len(StepFrames(pending)) # 0
        /\ StepFrames(pending)[1] = "HEARTBEAT"
    BY StepFramesProperties
  <2>2. /\ txQueue' \in Seq(Frame) /\ Len(txQueue) <= Len(txQueue')
        /\ \A i \in 1..Len(txQueue) : txQueue'[i] = txQueue[i]
        /\ Len(txQueue) < TxDepth =>
             /\ Len(txQueue) < Len(txQueue')
             /\ txQueue'[Len(txQueue) + 1].kind = "HEARTBEAT"
    BY <1>1, <1>2, <2>1, QueuedProperties
  <2>3. Len(txQueue') \in Nat
    BY <2>2, LenProperties
  <2> QED
    BY <1>1, <2>2, <2>3 DEF Heartbeat
<1>5. \A i : Heartbeat(txQueue, i) => Heartbeat(txQueue', i)
  BY <1>1, <1>4 DEF Heartbeat
<1>6. DueIn(txFifo', txQueue', w, r)
  <2>1. CASE Due(w, r)
    BY <1>2, <1>5, <2>1 DEF Due, DueIn
  <2>2. CASE NextDue(w, r)
    <3>1. Heartbeat(txQueue', Len(txQueue) + 1) /\ Len(txQueue) + 1 \in 1..TxDepth
      BY <1>1, <1>4, <2>2 DEF NextDue
    <3>2. CASE w >= 2 * r + 1
      BY <3>1, <3>2, QueuedIsDue
    <3>3. CASE \E k \in Nat, j \in 1..FifoDepth : Len(txQueue) + 1 = k * Turn + j /\ w >= k + 2
      BY <3>1, <3>3 DEF DueIn
    <3> QED
      BY <2>2, <3>2, <3>3 DEF NextDue
  <2> QED
    BY <1>3, <2>1, <2>2
<1> QED
  BY <1>2, <1>3, <1>6 DEF Awaited, Expected, Due, cpVars

\* A heartbeat no multiple of Turn from the front comes closer, or gets into the FIFO.
LEMMA AdapterAdvances ==
  ASSUME TypeOK, AdapterStep, txFifo = <<>>, NEW r \in Nat, NEW w \in Nat \ {0},
         NEW k \in Nat, NEW j \in 1..FifoDepth, Heartbeat(txQueue, k * Turn + j), w >= k + 1
  PROVE  DueIn(txFifo', txQueue', w, r)
<1> DEFINE q == k * Turn + j
<1>1. /\ Moved \in Nat /\ Moved <= Len(txQueue) /\ Moved <= FifoDepth
      /\ Moved = Len(txQueue) \/ Moved = FifoDepth
      /\ Len(txQueue) \in Nat /\ Len(txFifo) = 0 /\ FifoDepth \in Nat \ {0}
  BY MovedProperties, ConstantTypes, EmptySeq
<1>2. /\ Len(txFifo') = Moved
      /\ \A i \in 1..Moved : txFifo'[i] = FoundQueue[i]
      /\ Len(txQueue') = Len(txQueue) - Moved
      /\ \A i \in 1..Len(txQueue) : i > Moved + 1 => txQueue'[i - Moved - 1] = FoundQueue[i]
  <2>1. \A i \in 1..Moved : Len(txFifo) + i = i
    BY <1>1
  <2> QED
    BY <1>1, <2>1, AdapterMoves
<1>3. q \in 1..Len(txQueue) /\ FoundQueue[q].kind = "HEARTBEAT"
  BY FoundProperties DEF Heartbeat
<1>4. Turn = FifoDepth + 1 /\ Turn \in Nat /\ k * Turn \in Nat
  BY <1>1 DEF Turn
<1>5. CASE k = 0
  <2>1. q = j
    BY <1>4, <1>5
  <2> HIDE DEF q
  <2>2. q \in 1..Moved /\ q \in Nat
    BY <1>1, <1>3, <2>1
  <2>3. Heartbeat(txFifo', q)
    BY <1>2, <1>3, <2>2 DEF Heartbeat
  <2> QED
    BY <2>2, <2>3 DEF DueIn
<1>6. CASE k # 0
  <2>1. k - 1 \in Nat /\ (k - 1) * Turn = k * Turn - Turn /\ k * Turn >= Turn
    <3>1. /\ k - 1 \in Nat /\ (k - 1) * Turn \in Nat
          /\ k * Turn = (k - 1) * Turn + Turn
      BY <1>6, OneTurnLess
    <3> DEFINE a == k * Turn
               b == (k - 1) * Turn
    <3>2. a = b + Turn /\ b \in Nat
      BY <3>1
    <3> HIDE DEF a, b
    <3>3. b = a - Turn /\ a >= Turn
      BY <1>4, <3>2
    <3> QED
      BY <3>1, <3>3 DEF a, b
  <2>2. Moved = FifoDepth
    BY <1>1, <1>3, <1>4, <2>1
  <2>3. q - Moved - 1 = (k - 1) * Turn + j /\ q > Moved + 1
    BY <1>1, <1>4, <2>1, <2>2
  <2>4. (k - 1) * Turn + j \in 1..Len(txQueue')
    BY <1>1, <1>2, <1>3, <1>4, <2>1, <2>2
  <2> HIDE DEF q
  <2>5. txQueue'[(k - 1) * Turn + j].kind = "HEARTBEAT"
    BY <1>2, <1>3, <2>3
  <2>6. Heartbeat(txQueue', (k - 1) * Turn + j) /\ w >= (k - 1) + 2
    BY <2>1, <2>4, <2>5 DEF Heartbeat
  <2> QED
    BY <2>1, <2>6 DEF DueIn
<1> QED
  BY <1>5, <1>6

\* A heartbeat that is put back is at the tail: it or the one queued next to it is no
\* multiple of Turn from the front.
LEMMA TailOrNext ==
  ASSUME NEW fifo, NEW l \in Nat, l >= 1, l + 1 <= TxDepth, Heartbeat(txQueue', l),
         Len(txQueue') = l, NEW r \in Nat, TxDepth <= r * Turn,
         NEW w \in Nat, w >= r + 1
  PROVE  DueIn(fifo, txQueue', w, r) \/ NextDue(w, r)'
<1>1. TxDepth \in Nat /\ FifoDepth \in Nat \ {0} /\ Turn = FifoDepth + 1 /\ Turn \in Nat
      /\ r * Turn \in Nat
  BY ConstantTypes DEF Turn
<1>2. PICK k \in Nat, j \in 0..FifoDepth : l = k * Turn + j
  BY Places
<1>3. k * Turn \in Nat
  BY <1>1
<1>4. CASE j # 0
  <2>1. j \in 1..FifoDepth /\ j \in Nat \ {0} /\ k * Turn + j <= r * Turn
    BY <1>1, <1>2, <1>3, <1>4
  <2>2. k + 1 <= r
    BY <2>1, TurnsBound
  <2>3. w >= k + 2
    BY <2>1, <2>2
  <2> QED
    BY <1>2, <2>1, <2>3 DEF DueIn
<1>5. CASE j = 0
  <2>1. 1 \in 1..FifoDepth /\ l + 1 = k * Turn + 1 /\ k * Turn + 1 <= r * Turn
    BY <1>1, <1>2, <1>3, <1>5
  <2>2. k + 1 <= r
    BY <2>1, TurnsBound
  <2>3. w >= k + 2
    BY <2>2
  <2>4. Len(txQueue') < TxDepth
    BY <1>1
  <2>5. \E m \in Nat, i \in 1..FifoDepth : Len(txQueue') + 1 = m * Turn + i /\ w >= m + 2
    BY <2>1, <2>3
  <2> QED
    BY <2>4, <2>5 DEF NextDue, Turn
<1> QED
  BY <1>4, <1>5

\* A heartbeat a multiple of Turn from the front comes closer, or is put back.
LEMMA AdapterPutsBack ==
  ASSUME TypeOK, AdapterStep, txFifo = <<>>, NEW r \in Nat, TxDepth <= r * Turn,
         NEW w \in Nat \ {0},
         NEW k \in Nat \ {0}, Heartbeat(txQueue, k * Turn), w >= k + r
  PROVE  DueIn(txFifo', txQueue', w, r) \/ NextDue(w, r)'
<1> DEFINE q == k * Turn
<1>1. /\ Moved \in Nat /\ Moved <= Len(txQueue) /\ Moved <= FifoDepth
      /\ Moved = Len(txQueue) \/ Moved = FifoDepth
      /\ Len(txQueue) \in Nat /\ FifoDepth \in Nat \ {0} /\ TxDepth \in Nat
      /\ Len(txQueue) <= TxDepth
  BY MovedProperties, ConstantTypes, EmptySeq DEF TypeOK
<1>2. /\ Len(txQueue') = Len(txQueue) - Moved
      /\ \A i \in 1..Len(txQueue) : i > Moved + 1 => txQueue'[i - Moved - 1] = FoundQueue[i]
      /\ Moved < Len(txQueue) => txQueue'[Len(txQueue')] = FoundQueue[Moved + 1]
  BY AdapterMoves
<1>3. q \in 1..Len(txQueue) /\ FoundQueue[q].kind = "HEARTBEAT"
  BY FoundProperties DEF Heartbeat
<1>4. /\ Turn = FifoDepth + 1 /\ Turn \in Nat /\ k - 1 \in Nat
      /\ (k - 1) * Turn \in Nat /\ k * Turn = (k - 1) * Turn + Turn
  <2>1. Turn = FifoDepth + 1 /\ Turn \in Nat
    BY <1>1 DEF Turn
  <2> QED
    BY <2>1, OneTurnLess
<1>5. Moved = FifoDepth /\ Moved < Len(txQueue)
  BY <1>1, <1>3, <1>4
<1>6. CASE k = 1
  <2>1. q = Moved + 1
    BY <1>4, <1>5, <1>6
  <2> DEFINE l == Len(txQueue')
  <2>2. l \in Nat /\ l >= 1 /\ l + 1 <= TxDepth
    BY <1>1, <1>2, <1>5
  <2> HIDE DEF q
  <2>3. Heartbeat(txQueue', l)
    BY <1>2, <1>3, <1>5, <2>1, <2>2 DEF Heartbeat
  <2>4. w >= r + 1
    BY <1>6
  <2> QED
    BY <2>2, <2>3, <2>4, TailOrNext
<1>7. CASE k # 1
  <2>1. k - 1 \in Nat \ {0} /\ (k - 1) * Turn >= 1
    <3> DEFINE m == k - 1
    <3>1. m \in Nat \ {0}
      BY <1>7
    <3> HIDE DEF m
    <3>2. (m - 1) * Turn \in Nat /\ m * Turn = (m - 1) * Turn + Turn
      BY <3>1, OneTurnLess
    <3> DEFINE a == m * Turn
               b == (m - 1) * Turn
    <3>3. b \in Nat /\ a = b + Turn
      BY <3>2
    <3> HIDE DEF a, b
    <3>4. a >= 1
      BY <1>1, <1>4, <3>3
    <3> QED
      BY <3>1, <3>4 DEF a, m
  <2>2. q - Moved - 1 = (k - 1) * Turn /\ q > Moved + 1
    <3> DEFINE a == (k - 1) * Turn
    <3>1. q = a + Turn /\ a \in Nat /\ a >= 1
      BY <1>4, <2>1
    <3> HIDE DEF a, q
    <3>2. q - Moved - 1 = a /\ q > Moved + 1
      BY <1>1, <1>4, <1>5, <3>1
    <3> QED
      BY <3>2 DEF a
  <2>3. (k - 1) * Turn \in 1..Len(txQueue')
    BY <1>1, <1>2, <1>3, <1>4, <1>5, <2>1
  <2> HIDE DEF q
  <2>4. txQueue'[(k - 1) * Turn].kind = "HEARTBEAT"
    BY <1>2, <1>3, <2>2
  <2>5. Heartbeat(txQueue', (k - 1) * Turn) /\ w >= (k - 1) + r + 1
    BY <2>3, <2>4 DEF Heartbeat
  <2> QED
    BY <2>1, <2>5 DEF DueIn
<1> QED
  BY <1>6, <1>7

\* Whatever the bus took, a heartbeat that was on its way still is, and if none was
\* there is room for the next one.
LEMMA AdapterKeeps ==
  ASSUME TypeOK, AdapterStep, OnItsWay \/ Len(txFifo) < FifoDepth,
         NEW r \in Nat, TxDepth <= r * Turn, NEW w \in Nat \ {0}, w >= 2 * r + 1
  PROVE  DueIn(txFifo', txQueue', w, r) \/ NextDue(w, r)'
<1>1. /\ Moved \in Nat /\ Moved <= Len(txQueue) /\ Len(txFifo) + Moved <= FifoDepth
      /\ Moved = Len(txQueue) \/ Len(txFifo) + Moved = FifoDepth
      /\ Len(txQueue) \in Nat /\ Len(txFifo) \in Nat
      /\ FifoDepth \in Nat \ {0} /\ TxDepth \in Nat \ {0} /\ Len(txQueue) <= TxDepth
  BY MovedProperties, ConstantTypes DEF TypeOK
<1>2. /\ Len(txFifo') = Len(txFifo) + Moved
      /\ \A i \in 1..Len(txFifo) : txFifo'[i] = FoundFifo[i]
      /\ \A i \in 1..Moved : txFifo'[Len(txFifo) + i] = FoundQueue[i]
      /\ Len(txQueue') = Len(txQueue) - Moved
      /\ \A i \in 1..Len(txQueue) : i > Moved + 1 => txQueue'[i - Moved - 1] = FoundQueue[i]
      /\ Moved < Len(txQueue) => txQueue'[Len(txQueue')] = FoundQueue[Moved + 1]
  BY AdapterMoves
<1>3. CASE \E i \in Nat : Heartbeat(txFifo, i)
  <2>1. PICK i \in Nat : Heartbeat(txFifo, i)
    BY <1>3
  <2>2. Heartbeat(txFifo', i)
    BY <1>1, <1>2, <2>1, FoundProperties DEF Heartbeat
  <2> QED
    BY <2>2 DEF DueIn
<1>4. CASE \E i \in Nat : Heartbeat(txQueue, i)
  <2>1. PICK i \in Nat : Heartbeat(txQueue, i)
    BY <1>4
  <2>2. i \in 1..Len(txQueue) /\ FoundQueue[i].kind = "HEARTBEAT"
    BY <2>1, FoundProperties DEF Heartbeat
  <2>3. CASE i <= Moved
    <3>1. i \in 1..Moved /\ Len(txFifo) + i \in 1..Len(txFifo')
      BY <1>1, <1>2, <2>2, <2>3
    <3>2. Heartbeat(txFifo', Len(txFifo) + i) /\ Len(txFifo) + i \in Nat
      BY <1>1, <1>2, <2>2, <3>1 DEF Heartbeat
    <3> QED
      BY <3>2 DEF DueIn
  <2>4. CASE i > Moved + 1
    <3>1. i - Moved - 1 \in 1..Len(txQueue') /\ i - Moved - 1 \in 1..TxDepth
      BY <1>1, <1>2, <2>2, <2>4
    <3>2. Heartbeat(txQueue', i - Moved - 1)
      BY <1>2, <2>2, <2>4, <3>1 DEF Heartbeat
    <3> QED
      BY <3>1, <3>2, QueuedIsDue
  <2>5. CASE i = Moved + 1
    <3> DEFINE l == Len(txQueue')
    <3>1. l \in 1..l /\ l \in 1..TxDepth /\ Moved < Len(txQueue)
      BY <1>1, <1>2, <2>2, <2>5
    <3>2. Heartbeat(txQueue', l)
      BY <1>2, <2>2, <2>5, <3>1 DEF Heartbeat
    <3> HIDE DEF l
    <3> QED
      BY <3>1, <3>2, QueuedIsDue
  <2> QED
    BY <1>1, <2>2, <2>3, <2>4, <2>5
<1>5. CASE Len(txFifo) < FifoDepth
  <2>1. Len(txQueue') < TxDepth
    BY <1>1, <1>2, <1>5
  <2> QED
    BY <2>1 DEF NextDue
<1> QED
  BY <1>3, <1>4, <1>5 DEF OnItsWay

LEMMA AwaitAdapter ==
  ASSUME NEW r \in Nat, TxDepth <= r * Turn, WaitInv(r), AdapterStep
  PROVE  Awaited(r)'
<1>1. /\ TypeOK /\ pc = "adapter" /\ pc' = "link" /\ UNCHANGED <<cpVars, slow>>
      /\ FifoDepth \in Nat \ {0} /\ TxDepth \in Nat \ {0}
  BY ConstantTypes DEF WaitInv, AdapterStep
<1>2. PICK w \in Nat \ {0} :
        /\ heartbeatAge + w <= (slow + 1) * (2 * r + 1)
        /\ \/ DueAtAdapter(w, r)
           \/ w >= 2 * r + 1 /\ (OnItsWay \/ Len(txFifo) < FifoDepth)
  BY <1>1 DEF WaitInv, Awaited, Expected
<1>3. DueIn(txFifo', txQueue', w, r) \/ NextDue(w, r)'
  <2>1. CASE w >= 2 * r + 1 /\ (OnItsWay \/ Len(txFifo) < FifoDepth)
    BY <1>1, <2>1, AdapterKeeps
  <2>2. ASSUME txFifo = <<>>, txQueue = <<>>, w >= 2
        PROVE  NextDue(w, r)'
    <3>1. Len(txQueue) = 0
      BY <2>2, EmptySeq
    <3>2. Len(txQueue') = 0
      BY <1>1, <3>1, AdapterMoves, MovedProperties
    <3>3. /\ 1 \in 1..FifoDepth /\ 0 \in Nat /\ 0 * Turn + 1 = 1 /\ w >= 0 + 2
      BY <1>1, <2>2 DEF Turn
    <3>4. Len(txQueue') + 1 = 0 * Turn + 1 /\ Len(txQueue') < TxDepth
      BY <1>1, <3>2, <3>3
    <3>5. \E k \in Nat, j \in 1..FifoDepth : Len(txQueue') + 1 = k * Turn + j /\ w >= k + 2
      BY <3>3, <3>4
    <3> QED
      BY <3>4, <3>5 DEF NextDue, Turn
  <2>3. ASSUME txFifo = <<>>, NEW k \in Nat, NEW j \in 1..FifoDepth,
               Heartbeat(txQueue, k * Turn + j), w >= k + 1
        PROVE  DueIn(txFifo', txQueue', w, r)
    BY <1>1, <2>3, AdapterAdvances
  <2>4. ASSUME txFifo = <<>>, NEW k \in Nat \ {0}, Heartbeat(txQueue, k * Turn), w >= k + r
        PROVE  DueIn(txFifo', txQueue', w, r) \/ NextDue(w, r)'
    BY <1>1, <2>4, AdapterPutsBack
  <2> QED
    BY <1>2, <2>1, <2>2, <2>3, <2>4 DEF DueAtAdapter
<1> QED
  BY <1>1, <1>2, <1>3 DEF Awaited, Expected, Due, cpVars

\* The bus takes all that is in the FIFO: the next heartbeat is a period closer, or
\* has arrived.
LEMMA AwaitFullBus ==
  ASSUME NEW r \in Nat, r >= 1, WaitInv(r), pc = "bus",
         BusTakes(Len(txFifo)), slow' = slow
  PROVE  Awaited(r)'
<1> DEFINE k2 == 2 * r + 1
<1>1. /\ TypeOK /\ Len(txFifo) \in Nat /\ FifoDepth \in Nat \ {0}
      /\ heartbeatAge \in 0..MaxAge /\ slow \in Nat
  BY ConstantTypes, LenProperties DEF WaitInv, TypeOK
<1>2. pc' = "adapter"
  BY DEF BusTakes
<1>3. /\ Len(txFifo') = 0 /\ txFifo' \in Seq(Frame)
      /\ txQueue' \in Seq(Frame) /\ Len(txQueue') = Len(txQueue)
      /\ \A i \in 1..Len(txQueue) : txQueue'[i].kind = txQueue[i].kind
      /\ heartbeatAge' = IF \E i \in 1..Len(txFifo) : txFifo[i].kind = "HEARTBEAT"
                         THEN 0 ELSE Older(heartbeatAge)
  <2>1. Len(txFifo) \in 0..Len(txFifo)
    BY <1>1
  <2> QED
    BY <1>1, <2>1, BusMoves
<1>4. txFifo' = <<>>
  BY <1>3, EmptySeq
<1>5. \A i : Heartbeat(txQueue, i) => Heartbeat(txQueue', i)
  BY <1>3 DEF Heartbeat
<1>6. PICK w \in Nat \ {0} :
        /\ heartbeatAge + w <= (slow + 1) * k2
        /\ Due(w, r) \/ (txQueue = <<>> /\ txFifo = <<>> /\ w >= 3)
  BY DEF WaitInv, Awaited, Expected
<1>7. CASE \E i \in 1..Len(txFifo) : txFifo[i].kind = "HEARTBEAT"
  <2>1. heartbeatAge' = 0
    BY <1>3, <1>7
  <2>2. k2 \in Nat \ {0} /\ slow + 1 \in Nat
    BY <1>1
  <2> HIDE DEF k2
  <2>3. 0 + k2 <= (slow + 1) * k2
    <3>1. slow * k2 \in Nat /\ (slow + 1) * k2 = slow * k2 + k2
      BY <1>1, <2>2
    <3> QED
      BY <2>2, <3>1
  <2>4. heartbeatAge' + k2 <= (slow' + 1) * k2
    BY <2>1, <2>3
  <2>5. Len(txFifo') < FifoDepth
    BY <1>1, <1>3
  <2> QED
    BY <1>2, <2>2, <2>4, <2>5 DEF Awaited, Expected, k2
<1>8. CASE ~ \E i \in 1..Len(txFifo) : txFifo[i].kind = "HEARTBEAT"
  <2>1. heartbeatAge' <= heartbeatAge + 1 /\ heartbeatAge' \in Nat
    BY <1>1, <1>3, <1>8, OlderType
  <2>2. w - 1 \in Nat \ {0} /\ DueAtAdapter(w - 1, r)'
    <3>1. ~ \E i \in Nat : Heartbeat(txFifo, i)
      BY <1>8 DEF Heartbeat
    <3>2. ASSUME NEW k \in Nat, NEW j \in 1..FifoDepth,
                 Heartbeat(txQueue, k * Turn + j), w >= k + 2
          PROVE  w - 1 \in Nat \ {0} /\ DueAtAdapter(w - 1, r)'
      <4>1. w - 1 >= k + 1 /\ w - 1 \in Nat \ {0}
        BY <3>2
      <4>2. Heartbeat(txQueue', k * Turn + j)
        BY <1>5, <3>2
      <4> QED
        BY <1>4, <4>1, <4>2 DEF DueAtAdapter, Turn
    <3>3. ASSUME NEW k \in Nat \ {0}, Heartbeat(txQueue, k * Turn), w >= k + r + 1
          PROVE  w - 1 \in Nat \ {0} /\ DueAtAdapter(w - 1, r)'
      <4>1. w - 1 >= k + r /\ w - 1 \in Nat \ {0}
        BY <3>3
      <4>2. Heartbeat(txQueue', k * Turn)
        BY <1>5, <3>3
      <4> QED
        BY <1>4, <4>1, <4>2 DEF DueAtAdapter, Turn
    <3>4. ASSUME txQueue = <<>>, w >= 3
          PROVE  w - 1 \in Nat \ {0} /\ DueAtAdapter(w - 1, r)'
      <4>1. w - 1 >= 2 /\ w - 1 \in Nat \ {0}
        BY <3>4
      <4>2. txQueue' = <<>>
        BY <1>3, <3>4, EmptySeq
      <4> QED
        BY <1>4, <4>1, <4>2 DEF DueAtAdapter
    <3> QED
      BY <1>6, <3>1, <3>2, <3>3, <3>4 DEF Due, DueIn
  <2>3. heartbeatAge' + (w - 1) <= (slow' + 1) * k2
    <3>1. k2 \in Nat
      OBVIOUS
    <3> HIDE DEF k2
    <3>2. (slow + 1) * k2 \in Nat
      BY <1>1, <3>1
    <3>3. \A b, h, a \in Nat, v \in Nat \ {0} :
            a + v <= b /\ h <= a + 1 => h + (v - 1) <= b
      OBVIOUS
    <3>4. heartbeatAge \in Nat /\ heartbeatAge + w <= (slow + 1) * k2
      BY <1>1, <1>6
    <3>5. heartbeatAge' + (w - 1) <= (slow + 1) * k2
      BY <2>1, <3>2, <3>3, <3>4
    <3> QED
      BY <3>5
  <2> QED
    BY <1>2, <2>2, <2>3 DEF Awaited, Expected
<1> QED
  BY <1>7, <1>8

\* The bus leaves something in the FIFO: the wait starts anew.
LEMMA AwaitSlowBus ==
  ASSUME NEW r \in Nat, r >= 1, WaitInv(r), pc = "bus",
         NEW n \in 0..Len(txFifo), BusTakes(n), n < Len(txFifo), slow' = slow + 1
  PROVE  Awaited(r)'
<1> DEFINE k2 == 2 * r + 1
<1>1. /\ TypeOK /\ Len(txFifo) \in Nat /\ Len(txFifo) <= FifoDepth /\ FifoDepth \in Nat \ {0}
      /\ heartbeatAge \in 0..MaxAge /\ slow \in Nat
  BY ConstantTypes, LenProperties DEF WaitInv, TypeOK
<1>2. pc' = "adapter"
  BY DEF BusTakes
<1>3. /\ Len(txFifo') = Len(txFifo) - n
      /\ \A i \in 1..Len(txFifo) - n : txFifo'[i].kind = txFifo[n + i].kind
      /\ Len(txQueue') = Len(txQueue)
      /\ \A i \in 1..Len(txQueue) : txQueue'[i].kind = txQueue[i].kind
      /\ heartbeatAge' \in {0, Older(heartbeatAge)}
  BY <1>1, BusMoves
<1>4. PICK w \in Nat \ {0} :
        /\ heartbeatAge + w <= (slow + 1) * k2
        /\ Due(w, r) \/ (txQueue = <<>> /\ txFifo = <<>> /\ w >= 3)
  BY DEF WaitInv, Awaited, Expected
<1>5. Due(w, r)
  BY <1>1, <1>4, EmptySeq
<1>6. OnItsWay' \/ Len(txFifo') < FifoDepth
  <2>1. CASE n > 0
    BY <1>1, <1>3, <2>1
  <2>2. CASE n = 0
    <3>1. \A i : Heartbeat(txQueue, i) => Heartbeat(txQueue', i)
      BY <1>3 DEF Heartbeat
    <3>2. \A i \in Nat : Heartbeat(txFifo, i) => Heartbeat(txFifo', i)
      BY <1>1, <1>3, <2>2 DEF Heartbeat
    <3>3. OnItsWay
      <4>1. \A k \in Nat, j \in 1..FifoDepth : k * Turn + j \in Nat /\ k * Turn \in Nat
        BY <1>1 DEF Turn
      <4>2. CASE \E i \in Nat : Heartbeat(txFifo, i)
        BY <4>2 DEF OnItsWay
      <4>3. CASE \E k \in Nat, j \in 1..FifoDepth : Heartbeat(txQueue, k * Turn + j)
        BY <4>1, <4>3 DEF OnItsWay
      <4>4. CASE \E k \in Nat \ {0} : Heartbeat(txQueue, k * Turn)
        <5>1. \A k \in Nat : k * Turn \in Nat
          BY <1>1 DEF Turn
        <5> QED
          BY <4>4, <5>1 DEF OnItsWay
      <4> QED
        BY <1>5, <4>2, <4>3, <4>4 DEF Due, DueIn
    <3> QED
      BY <3>1, <3>2, <3>3 DEF OnItsWay
  <2> QED
    BY <1>1, <2>1, <2>2
<1>7. heartbeatAge' + k2 <= (slow' + 1) * k2
  <2>1. heartbeatAge' \in Nat /\ heartbeatAge' <= heartbeatAge + 1
    BY <1>1, <1>3, OlderType
  <2>2. k2 \in Nat
    OBVIOUS
  <2>3. heartbeatAge + w <= (slow + 1) * k2
    BY <1>4
  <2> HIDE DEF k2
  <2>4. (slow + 1) * k2 \in Nat /\ ((slow + 1) + 1) * k2 = (slow + 1) * k2 + k2
    BY <1>1, <2>2
  <2>5. heartbeatAge' <= (slow + 1) * k2
    BY <1>1, <2>1, <2>3, <2>4
  <2>6. heartbeatAge' + k2 <= (slow + 1) * k2 + k2
    BY <2>1, <2>2, <2>4, <2>5
  <2> QED
    BY <2>4, <2>6
<1>8. k2 \in Nat \ {0}
  OBVIOUS
<1> QED
  BY <1>2, <1>6, <1>7, <1>8 DEF Awaited, Expected

LEMMA WaitKept ==
  ASSUME NEW r \in Nat, TxDepth <= r * Turn
  PROVE  WaitInv(r) /\ [Next]_vars => WaitInv(r)'
<1> SUFFICES ASSUME WaitInv(r), [Next]_vars PROVE WaitInv(r)'
  OBVIOUS
<1>1. TypeOK /\ TypeOK'
  BY NextTypes DEF WaitInv
<1>2. r >= 1
  <2>1. TxDepth \in Nat \ {0} /\ Turn \in Nat
    BY ConstantTypes DEF Turn
  <2>2. ASSUME r = 0 PROVE FALSE
    <3>1. TxDepth <= 0 * Turn
      BY <2>2
    <3>2. 0 * Turn = 0
      BY <2>1
    <3> QED
      BY <2>1, <3>1, <3>2
  <2> QED
    BY <2>2
<1>3. CASE Bus
  <2>1. PICK n \in 0..Len(txFifo) :
          /\ BusTakes(n)
          /\ \/ n = Len(txFifo) /\ slow' = slow
             \/ n < Len(txFifo) /\ slow < MaxSlow /\ slow' = slow + 1
    BY <1>1, <1>3, BusCases
  <2>2. pc = "bus"
    BY <2>1 DEF BusTakes
  <2>3. Awaited(r)'
    BY <1>2, <2>1, <2>2, AwaitFullBus, AwaitSlowBus
  <2> QED
    BY <1>1, <2>3 DEF WaitInv
<1>4. CASE AdapterStep
  BY <1>1, <1>4, AwaitAdapter DEF WaitInv
<1>5. CASE LinkStep
  BY <1>1, <1>5, AwaitLink DEF WaitInv
<1>6. CASE UNCHANGED vars
  BY <1>1, <1>6 DEF WaitInv, Awaited, Expected, Due, DueIn, DueAtAdapter, NextDue, OnItsWay,
                    vars, cpVars
<1> QED
  BY <1>3, <1>4, <1>5, <1>6 DEF Next

\* CP is never without a heartbeat for more than two rounds of the queue, and as long
\* again for each period in which the bus took less than it could: none is starved by
\* the frames that overtake it, for whatever depth of queue and FIFO.  The queue holds
\* at most r times what leaves its front in a period.
THEOREM HeartbeatsNeverStarve ==
  ASSUME NEW r \in Nat, TxDepth <= r * (FifoDepth + 1)
  PROVE  Spec => [](heartbeatAge < (slow + 1) * (2 * r + 1))
<1>1. TxDepth <= r * Turn
  BY DEF Turn
<1>2. Init => WaitInv(r)
  <2> SUFFICES ASSUME Init PROVE WaitInv(r)
    OBVIOUS
  <2>1. r # 0 /\ r >= 1
    BY ConstantTypes
  <2>2. 0 + 3 <= (0 + 1) * (2 * r + 1)
    BY <2>1
  <2> QED
    BY <2>2, InitTypes DEF Init, WaitInv, Awaited, Expected
<1>3. WaitInv(r) => heartbeatAge < (slow + 1) * (2 * r + 1)
  <2> SUFFICES ASSUME WaitInv(r) PROVE heartbeatAge < (slow + 1) * (2 * r + 1)
    OBVIOUS
  <2>1. heartbeatAge \in Nat /\ slow \in Nat
    BY ConstantTypes DEF WaitInv, TypeOK
  <2>2. PICK w \in Nat \ {0} : heartbeatAge + w <= (slow + 1) * (2 * r + 1)
    BY DEF WaitInv, Awaited
  <2> DEFINE b == (slow + 1) * (2 * r + 1)
  <2>3. b \in Nat
    BY <2>1
  <2> HIDE DEF b
  <2>4. heartbeatAge + w <= b
    BY <2>2 DEF b
  <2>5. heartbeatAge < b
    BY <2>1, <2>3, <2>4
  <2> QED
    BY <2>5 DEF b
<1>4. WaitInv(r) /\ [Next]_vars => WaitInv(r)'
  BY <1>1, WaitKept
<1> QED
  BY <1>2, <1>3, <1>4, PTL DEF Spec

=============================================================================
