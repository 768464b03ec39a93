--------------------------- MODULE CpMpLinkProofs ---------------------------
(***************************************************************************)
(* Proofs about CpMpLink, for every number of chunks, generations, losses  *)
(* and restarts.  The argument rests on one fact: the generations carried  *)
(* by the frames between CP and MP never decrease along the wire and CP's  *)
(* queue, so what MP received between a BEGIN and a COMMIT of the same     *)
(* generation is sandwiched between the two.  The last part bounds the age *)
(* of what CP knows of MP, with the history of LinkFreshness.              *)
(***************************************************************************)
EXTENDS LinkFreshness, SequenceTheorems, TLAPS

-----------------------------------------------------------------------------
(* The inductive invariant *)

\* The generations of a sequence of frames never decrease.
Ordered(s) == \A i, j \in 1..Len(s) : i <= j => s[i].gen <= s[j].gen

AtMost(s, g)  == \A i \in 1..Len(s) : s[i].gen <= g
AtLeast(s, g) == \A i \in 1..Len(s) : g <= s[i].gen

\* Nothing on its way to MP, and nothing CP will still send, is older than g.
NotAfterFlight(g) ==
  g <= cp.configGeneration /\ AtLeast(toMp, g) /\ AtLeast(cpTxQueue, g)

FlightOrdered ==
  /\ Ordered(toMp) /\ Ordered(cpTxQueue)
  /\ \A i \in 1..Len(toMp) : AtLeast(cpTxQueue, toMp[i].gen)
  /\ AtMost(toMp, cp.configGeneration) /\ AtMost(cpTxQueue, cp.configGeneration)
  /\ cp.configGeneration <= activeGeneration

\* The next chunk CP sends exists.
NextChunkExists ==
  /\ cp.tx = "BEGIN" => cp.nextChunk = 0
  /\ cp.tx = "CHUNKS" => cp.nextChunk \in Chunk

\* What MP has loaded lies between the BEGIN it accepted and what is to come.
LoadSandwich ==
  /\ NotAfterFlight(mp.loading)
  /\ \A i \in mp.received : mp.loading <= mp.image[i] /\ NotAfterFlight(mp.image[i])

ActiveBeforeFlight == \A i \in Chunk : NotAfterFlight(activeImage[i])

IInv ==
  /\ TypeOK /\ FlightOrdered /\ NextChunkExists
  /\ LoadSandwich /\ ActiveBeforeFlight /\ AppliedImagePure

-----------------------------------------------------------------------------
(* Lemmas about sequences of frames *)

\* Removing one element keeps the others, in order.
LEMMA RemoveAtProperties ==
  ASSUME NEW S, NEW s \in Seq(S), NEW k \in 1..Len(s)
  PROVE  /\ RemoveAt(s, k) \in Seq(S)
         /\ Len(RemoveAt(s, k)) = Len(s) - 1
         /\ \A i \in 1..Len(s) - 1 :
              RemoveAt(s, k)[i] = IF i < k THEN s[i] ELSE s[i + 1]
<1> DEFINE a == SubSeq(s, 1, k - 1)
           b == SubSeq(s, k + 1, Len(s))
<1>1. Len(s) \in Nat
  BY LenProperties
<1>2. /\ a \in Seq(S) /\ Len(a) = k - 1
      /\ \A i \in 1..k - 1 : a[i] = s[i]
  <2>1. \A i \in 1..k - 1 : s[i] \in S
    BY <1>1, ElementOfSeq
  <2>2. /\ a \in Seq(S)
        /\ Len(a) = IF 1 <= k - 1 THEN (k - 1) - 1 + 1 ELSE 0
        /\ \A i \in 1..(k - 1) - 1 + 1 : a[i] = s[1 + i - 1]
    BY <1>1, <2>1, SubSeqProperties
  <2> QED
    BY <1>1, <2>2
<1>3. /\ b \in Seq(S) /\ Len(b) = Len(s) - k
      /\ \A i \in 1..Len(s) - k : b[i] = s[k + i]
  <2>1. \A i \in k + 1..Len(s) : s[i] \in S
    BY <1>1, ElementOfSeq
  <2>2. /\ b \in Seq(S)
        /\ Len(b) = IF k + 1 <= Len(s) THEN Len(s) - (k + 1) + 1 ELSE 0
        /\ \A i \in 1..Len(s) - (k + 1) + 1 : b[i] = s[(k + 1) + i - 1]
    BY <1>1, <2>1, SubSeqProperties
  <2> QED
    BY <1>1, <2>2
<1>4. /\ a \o b \in Seq(S)
      /\ Len(a \o b) = Len(a) + Len(b)
      /\ \A i \in 1..Len(a) + Len(b) :
           (a \o b)[i] = IF i <= Len(a) THEN a[i] ELSE b[i - Len(a)]
  BY <1>2, <1>3, ConcatProperties
<1> HIDE DEF a, b
<1>5. Len(a) + Len(b) = Len(s) - 1
  BY <1>1, <1>2, <1>3
<1>6. \A i \in 1..Len(s) - 1 : (a \o b)[i] = IF i < k THEN s[i] ELSE s[i + 1]
  <2> TAKE i \in 1..Len(s) - 1
  <2>1. CASE i < k
    BY <1>1, <1>2, <1>4, <1>5, <2>1
  <2>2. CASE ~(i < k)
    <3>1. i - Len(a) \in 1..Len(s) - k /\ ~(i <= Len(a)) /\ k + (i - Len(a)) = i + 1
      BY <1>1, <1>2, <2>2
    <3> QED
      BY <1>3, <1>4, <1>5, <2>2, <3>1
  <2> QED
    BY <2>1, <2>2
<1> QED
  BY <1>4, <1>5, <1>6 DEF RemoveAt, a, b

\* t keeps some of the frames of s, in the order of s.
Thins(t, s) ==
  /\ t \in Seq(CpFrame)
  /\ \A i \in 1..Len(t) : \E k \in 1..Len(s) : t[i] = s[k]
  /\ Ordered(s) => Ordered(t)

LEMMA TailThins ==
  ASSUME NEW s \in Seq(CpFrame), s # << >>
  PROVE  Thins(Tail(s), s)
<1>1. Len(s) \in Nat /\ Len(Tail(s)) = Len(s) - 1 /\ Tail(s) \in Seq(CpFrame)
  BY HeadTailProperties, LenProperties
<1>2. \A i \in 1..Len(s) - 1 : Tail(s)[i] = s[i + 1]
  BY <1>1, HeadTailProperties
<1>3. \A i \in 1..Len(s) - 1 : i + 1 \in 1..Len(s)
  BY <1>1
<1> QED
  BY <1>1, <1>2, <1>3 DEF Thins, Ordered

LEMMA RemoveAtThins ==
  ASSUME NEW s \in Seq(CpFrame), NEW k \in 1..Len(s)
  PROVE  Thins(RemoveAt(s, k), s)
<1> DEFINE t == RemoveAt(s, k)
           at(i) == IF i < k THEN i ELSE i + 1
<1>1. Len(s) \in Nat /\ t \in Seq(CpFrame) /\ Len(t) = Len(s) - 1
  BY RemoveAtProperties, LenProperties
<1>2. \A i \in 1..Len(s) - 1 : t[i] = s[at(i)] /\ at(i) \in 1..Len(s)
  <2>1. \A i \in 1..Len(s) - 1 : t[i] = IF i < k THEN s[i] ELSE s[i + 1]
    BY RemoveAtProperties
  <2>2. \A i \in 1..Len(s) - 1 : at(i) \in 1..Len(s)
    BY <1>1
  <2> QED
    BY <2>1, <2>2
<1>3. \A i, j \in 1..Len(s) - 1 : i <= j => at(i) <= at(j)
  BY <1>1
<1> HIDE DEF t, at
<1>4. Ordered(s) => Ordered(t)
  BY <1>1, <1>2, <1>3 DEF Ordered
<1> QED
  BY <1>1, <1>2, <1>4 DEF Thins, t

LEMMA EmptyThins ==
  ASSUME NEW s
  PROVE  Thins(<< >>, s)
BY EmptySeq DEF Thins, Ordered

\* The frames one step queues all carry the generation CP runs.
LEMMA QueuedFrames ==
  ASSUME NEW c \in CpState, c.tx = "CHUNKS" => c.nextChunk \in Chunk,
         NumChunks \in Nat \ {0}
  PROVE  LET q == << ToMpFrame("HEARTBEAT", c.configGeneration, 0) >> \o ConfigFrames(c)
         IN  /\ q \in Seq(CpFrame)
             /\ \A i \in 1..Len(q) : q[i].gen = c.configGeneration
<1>1. 0 \in Chunk /\ c.configGeneration \in Generation
  BY DEF Chunk, CpState
<1>2. \A type \in {"HEARTBEAT", "BEGIN", "CHUNK", "COMMIT"}, i \in Chunk :
        /\ ToMpFrame(type, c.configGeneration, i) \in CpFrame
        /\ ToMpFrame(type, c.configGeneration, i).gen = c.configGeneration
  BY <1>1 DEF ToMpFrame, CpFrame
<1> DEFINE h == ToMpFrame("HEARTBEAT", c.configGeneration, 0)
<1>3. h \in CpFrame /\ h.gen = c.configGeneration
  BY <1>1, <1>2
<1>4. \/ ConfigFrames(c) = << >>
      \/ \E f \in CpFrame : ConfigFrames(c) = << f >> /\ f.gen = c.configGeneration
  BY <1>1, <1>2 DEF ConfigFrames, CpState, TxState
<1> HIDE DEF h
<1>5. CASE ConfigFrames(c) = << >>
  BY <1>3, <1>5 DEF h
<1>6. CASE \E f \in CpFrame : ConfigFrames(c) = << f >> /\ f.gen = c.configGeneration
  <2>1. PICK f \in CpFrame : ConfigFrames(c) = << f >> /\ f.gen = c.configGeneration
    BY <1>6
  <2>2. << h >> \in Seq(CpFrame) /\ << f >> \in Seq(CpFrame)
    BY <1>3
  <2>3. /\ << h >> \o << f >> \in Seq(CpFrame)
        /\ Len(<< h >> \o << f >>) = 2
        /\ \A i \in 1..2 : (<< h >> \o << f >>)[i] = IF i <= 1 THEN h ELSE << f >>[i - 1]
    BY <2>2, ConcatProperties
  <2> QED
    BY <1>3, <2>1, <2>3 DEF h
<1> QED
  BY <1>4, <1>5, <1>6

-----------------------------------------------------------------------------
(* Lemmas about the steps *)

\* A restarted or continued transfer is a state of the service, and CP runs the
\* active generation after it.
LEMMA RestartTransferType ==
  ASSUME NEW c \in CpState, activeGeneration \in Generation,
         c.tx = "BEGIN" => c.nextChunk = 0,
         c.tx = "CHUNKS" => c.nextChunk \in Chunk,
         NumChunks \in Nat \ {0}
  PROVE  LET d == RestartTransfer(c)
         IN  /\ d \in CpState
             /\ d.configGeneration = activeGeneration
             /\ d.tx = "BEGIN" => d.nextChunk = 0
             /\ d.tx = "CHUNKS" => d.nextChunk \in Chunk
<1>1. ASSUME NEW e \in CpState
      PROVE  /\ QueueConfigTransfer(e) \in CpState
             /\ QueueConfigTransfer(e).configGeneration = activeGeneration
             /\ QueueConfigTransfer(e).tx = "BEGIN"
             /\ QueueConfigTransfer(e).nextChunk = 0
  <2>1. "BEGIN" \in TxState /\ 0 \in 0..NumChunks
    BY DEF TxState
  <2>2. QueueConfigTransfer(e) \in CpState
    BY <2>1 DEF QueueConfigTransfer, CpState
  <2> QED
    BY <2>2 DEF QueueConfigTransfer, CpState
<1> DEFINE changed == IF c.configGeneration # activeGeneration
                      THEN QueueConfigTransfer(c) ELSE c
<1>2. /\ changed \in CpState
      /\ changed.configGeneration = activeGeneration
      /\ changed.tx = "BEGIN" => changed.nextChunk = 0
      /\ changed.tx = "CHUNKS" => changed.nextChunk \in Chunk
  BY <1>1
<1> HIDE DEF changed
<1>3. RestartTransfer(c) = IF changed.tx = "IDLE" /\ ~AuthorityReady(changed)
                           THEN QueueConfigTransfer(changed) ELSE changed
  BY DEF RestartTransfer, changed
<1> QED
  BY <1>1, <1>2, <1>3

LEMMA AdvanceTransferType ==
  ASSUME NEW c \in CpState, NEW a \in SafetyAction,
         c.tx = "BEGIN" => c.nextChunk = 0,
         c.tx = "CHUNKS" => c.nextChunk \in Chunk,
         NumChunks \in Nat \ {0}
  PROVE  LET d == [AdvanceTransfer(c) EXCEPT !.safetyAction = a]
         IN  /\ d \in CpState
             /\ d.configGeneration = c.configGeneration
             /\ d.tx = "BEGIN" => d.nextChunk = 0
             /\ d.tx = "CHUNKS" => d.nextChunk \in Chunk
<1>1. CASE c.tx = "BEGIN"
  <2>1. AdvanceTransfer(c) = [c EXCEPT !.tx = "CHUNKS"] /\ "CHUNKS" \in TxState
    BY <1>1 DEF AdvanceTransfer, TxState
  <2>2. c.nextChunk = 0 /\ 0 \in Chunk
    BY <1>1 DEF Chunk
  <2> DEFINE d == [c EXCEPT !.tx = "CHUNKS", !.safetyAction = a]
  <2>3. [AdvanceTransfer(c) EXCEPT !.safetyAction = a] = d
    BY <2>1 DEF CpState
  <2>4. d \in CpState
    BY <2>1 DEF CpState
  <2>5. d.configGeneration = c.configGeneration /\ d.tx = "CHUNKS" /\ d.nextChunk = 0
    BY <2>2 DEF CpState
  <2> HIDE DEF d
  <2> QED
    BY <2>2, <2>3, <2>4, <2>5
<1>2. CASE c.tx = "CHUNKS"
  <2>1. c.nextChunk + 1 \in 0..NumChunks
        /\ (c.nextChunk + 1 < NumChunks => c.nextChunk + 1 \in Chunk)
    BY <1>2 DEF Chunk
  <2>2. CASE c.nextChunk + 1 >= NumChunks
    <3>1. AdvanceTransfer(c) = [c EXCEPT !.nextChunk = c.nextChunk + 1, !.tx = "COMMIT"]
          /\ "COMMIT" \in TxState
      BY <1>2, <2>2 DEF AdvanceTransfer, TxState
    <3> QED
      BY <2>1, <3>1 DEF CpState
  <2>3. CASE ~(c.nextChunk + 1 >= NumChunks)
    <3>1. AdvanceTransfer(c) = [c EXCEPT !.nextChunk = c.nextChunk + 1, !.tx = "CHUNKS"]
          /\ "CHUNKS" \in TxState /\ c.nextChunk + 1 \in Chunk
      <4>1. c.nextChunk + 1 < NumChunks
        BY <2>1, <2>3
      <4> QED
        BY <1>2, <2>1, <2>3, <4>1 DEF AdvanceTransfer, TxState
    <3> QED
      BY <2>1, <3>1 DEF CpState
  <2> QED
    BY <2>2, <2>3
<1>3. CASE c.tx = "COMMIT"
  BY <1>3 DEF AdvanceTransfer, CpState, TxState
<1>4. CASE c.tx = "IDLE"
  BY <1>4 DEF AdvanceTransfer, CpState, TxState
<1> QED
  BY <1>1, <1>2, <1>3, <1>4 DEF CpState, TxState

LEMMA OlderType ==
  ASSUME NEW a \in Age, PeerTimeout \in Nat \ {0}
  PROVE  Older(a) \in Age
BY DEF Older, Age

\* What one step of CP does to its state and its queue.
LEMMA CpStepEffect ==
  ASSUME TypeOK, NextChunkExists, CpStep, NumChunksAssumption, BoundsAssumption
  PROVE  /\ cp' \in CpState
         /\ NextChunkExists'
         /\ cp'.configGeneration = activeGeneration
         /\ cpTxQueue' \in Seq(CpFrame)
         /\ \A i \in 1..Len(cpTxQueue') : cpTxQueue'[i].gen = activeGeneration
<1> DEFINE o == [cp EXCEPT !.age = Older(@)]
           c == RestartTransfer(o)
<1>1. NumChunks \in Nat \ {0} /\ cp \in CpState /\ activeGeneration \in Generation
  BY DEF TypeOK, NumChunksAssumption
<1>2. /\ o \in CpState
      /\ o.tx = "BEGIN" => o.nextChunk = 0
      /\ o.tx = "CHUNKS" => o.nextChunk \in Chunk
  <2>1. Older(cp.age) \in Age
    BY <1>1, OlderType DEF CpState, BoundsAssumption
  <2> QED
    BY <1>1, <2>1 DEF CpState, NextChunkExists
<1> HIDE DEF o
<1>3. /\ c \in CpState
      /\ c.configGeneration = activeGeneration
      /\ c.tx = "BEGIN" => c.nextChunk = 0
      /\ c.tx = "CHUNKS" => c.nextChunk \in Chunk
  BY <1>1, <1>2, RestartTransferType
<1>4. /\ cp' = [AdvanceTransfer(c) EXCEPT !.safetyAction = EffectiveSafetyAction(c)]
      /\ cpTxQueue' = << ToMpFrame("HEARTBEAT", c.configGeneration, 0) >>
                      \o ConfigFrames(c)
  BY DEF CpStep, c, o
<1> HIDE DEF c
<1>5. EffectiveSafetyAction(c) \in SafetyAction
  BY <1>3 DEF EffectiveSafetyAction, CpState, SafetyAction
<1>6. /\ cp' \in CpState
      /\ cp'.configGeneration = c.configGeneration
      /\ cp'.tx = "BEGIN" => cp'.nextChunk = 0
      /\ cp'.tx = "CHUNKS" => cp'.nextChunk \in Chunk
  BY <1>1, <1>3, <1>4, <1>5, AdvanceTransferType
<1>7. /\ cpTxQueue' \in Seq(CpFrame)
      /\ \A i \in 1..Len(cpTxQueue') : cpTxQueue'[i].gen = c.configGeneration
  BY <1>1, <1>3, <1>4, QueuedFrames
<1> QED
  BY <1>3, <1>6, <1>7 DEF NextChunkExists

\* What MP sends has the type of a report.
LEMMA ReportType ==
  ASSUME NEW m \in MpState, latchedAction \in {"NONE", "FLASH", "DARK"},
         NEW type \in {"HEARTBEAT", "CFG_STATUS", "SAFETY"}
  PROVE  ToCpFrame(type, m) \in MpFrame
<1>1. CurrentReportedGeneration(m) \in Generation
  BY DEF CurrentReportedGeneration, MpState
<1>2. CurrentSafetyAction(m) \in SafetyAction
  BY DEF CurrentSafetyAction, SafetyAction
<1> QED
  BY <1>1, <1>2 DEF ToCpFrame, MpFrame, MpState

LEMMA BootedTypes ==
  ASSUME NumChunksAssumption, BoundsAssumption, activeGeneration \in Generation,
         NEW up \in BOOLEAN
  PROVE  CpBooted(up) \in CpState /\ MpBooted(up) \in MpState
         /\ NoImage \in [Chunk -> Generation]
<1>1. /\ PeerTimeout + 1 \in Age /\ 0 \in Age /\ 0 \in Generation /\ 0 \in 0..NumChunks
      /\ NoImage \in [Chunk -> Generation] /\ {} \in SUBSET Chunk
  BY DEF Age, Generation, NoImage, Image, BoundsAssumption, NumChunksAssumption
<1>2. CpBooted(up) \in CpState
  BY <1>1 DEF CpBooted, CpState, TxState, ConfigState, SafetyAction
<1>3. MpBooted(up) \in MpState
  BY <1>1 DEF MpBooted, MpState, ConfigState
<1> QED
  BY <1>1, <1>2, <1>3

LEMMA ResetType ==
  ASSUME NumChunksAssumption, BoundsAssumption, NEW m \in MpState
  PROVE  /\ ResetLoadingState(m) \in MpState
         /\ ResetLoadingState(m).config = m.config
         /\ ResetLoadingState(m).applied = m.applied
         /\ ResetLoadingState(m).received = {}
         /\ ResetLoadingState(m).loading = 0
<1>1. NoImage \in [Chunk -> Generation] /\ 0 \in Generation /\ {} \in SUBSET Chunk
  BY DEF NoImage, Image, Generation, BoundsAssumption
<1> QED
  BY <1>1 DEF ResetLoadingState, MpState

-----------------------------------------------------------------------------
(* Types *)

\* A frame handler keeps the link state of its processor well typed.
LEMMA MpReceivesType ==
  ASSUME NumChunksAssumption, BoundsAssumption, TypeOK, MpReceives
  PROVE  /\ mp' \in MpState /\ activeImage' \in [Chunk -> Generation]
         /\ toMp # << >> /\ toMp' = Tail(toMp) /\ Head(toMp) \in CpFrame
         /\ UNCHANGED <<activeGeneration, cpVars, latchedAction, mpTxQueue, toCp, envVars>>
<1> USE DEF MpReceives
<1>1. /\ toMp # << >> /\ toMp' = Tail(toMp)
      /\ UNCHANGED <<activeGeneration, cpVars, latchedAction, mpTxQueue, toCp, envVars>>
  BY DEF MpRxHeartbeat, MpRxConfigBegin, MpRxConfigChunk, MpRxConfigCommit, MpRx
<1>2. /\ Head(toMp) \in CpFrame /\ mp \in MpState /\ activeImage \in [Chunk -> Generation]
      /\ 0 \in Age
  BY <1>1, HeadTailProperties DEF TypeOK, Age, BoundsAssumption
<1>3. Head(toMp).gen \in Generation /\ Head(toMp).index \in Chunk
  BY <1>2 DEF CpFrame
<1>4. /\ ResetLoadingState(mp) \in MpState
      /\ \A g \in Generation : \A m \in MpState : [m EXCEPT !.applied = g] \in MpState
      /\ \A c \in ConfigState : \A m \in MpState : [m EXCEPT !.config = c] \in MpState
  BY <1>2, ResetType DEF MpState
<1>5. CASE MpRxHeartbeat
  BY <1>1, <1>2, <1>3, <1>5 DEF MpRxHeartbeat, MpState
<1>6. CASE MpRxConfigBegin
  BY <1>1, <1>2, <1>3, <1>4, <1>6 DEF MpRxConfigBegin, MpState, ConfigState
<1>7. CASE MpRxConfigChunk
  <2>1. /\ [mp.image EXCEPT ![Head(toMp).index] = Head(toMp).gen] \in [Chunk -> Generation]
        /\ mp.received \cup {Head(toMp).index} \in SUBSET Chunk
    BY <1>2, <1>3 DEF MpState
  <2> QED
    BY <1>1, <1>2, <2>1, <1>3, <1>7 DEF MpRxConfigChunk, MpState
<1>8. CASE MpRxConfigCommit
  <2>1. CASE mp.config # "LOADING"
    BY <1>1, <1>2, <1>3, <1>8, <2>1 DEF MpRxConfigCommit
  <2>2. CASE mp.config = "LOADING" /\ CommitAccepted(mp, Head(toMp).gen)
    <3> DEFINE m == [mp EXCEPT !.config = "APPLIED", !.applied = mp.loading]
    <3>1. m \in MpState /\ mp.image \in [Chunk -> Generation]
      BY <1>2 DEF MpState, ConfigState
    <3>2. mp' = ResetLoadingState(m) /\ activeImage' = mp.image
      BY <1>8, <2>2 DEF MpRxConfigCommit
    <3> HIDE DEF m
    <3> QED
      BY <1>1, <1>2, <3>1, <3>2, ResetType
  <2>3. CASE mp.config = "LOADING" /\ ~CommitAccepted(mp, Head(toMp).gen)
    <3> DEFINE m == [mp EXCEPT !.config = "INVALID"]
    <3>1. m \in MpState
      BY <1>2 DEF MpState, ConfigState
    <3>2. mp' = ResetLoadingState(m) /\ activeImage' = activeImage
      BY <1>8, <2>3 DEF MpRxConfigCommit
    <3> HIDE DEF m
    <3> QED
      BY <1>1, <1>2, <3>1, <3>2, ResetType
  <2> QED
    BY <2>1, <2>2, <2>3
<1> QED
  BY <1>5, <1>6, <1>7, <1>8

LEMMA CpReceivesType ==
  ASSUME BoundsAssumption, TypeOK, CpReceives
  PROVE  /\ cp' \in CpState /\ toCp' \in Seq(MpFrame)
         /\ cp'.tx = cp.tx /\ cp'.nextChunk = cp.nextChunk
         /\ cp'.configGeneration = cp.configGeneration
         /\ UNCHANGED <<activeGeneration, cpTxQueue, toMp, mpVars, envVars>>
<1> USE DEF CpReceives
<1>1. /\ toCp # << >> /\ toCp' = Tail(toCp)
      /\ UNCHANGED <<activeGeneration, cpTxQueue, toMp, mpVars, envVars>>
  BY DEF CpRxHeartbeat, CpRxConfigStatus, CpRxSafety, CpRx
<1>2. /\ Head(toCp) \in MpFrame /\ Tail(toCp) \in Seq(MpFrame)
      /\ cp \in CpState /\ 0 \in Age
  BY <1>1, HeadTailProperties DEF TypeOK, Age, BoundsAssumption
<1>3. /\ Head(toCp).config \in ConfigState /\ Head(toCp).gen \in Generation
      /\ Head(toCp).action \in SafetyAction
  BY <1>2 DEF MpFrame
<1>4. CASE CpRxHeartbeat
  BY <1>1, <1>2, <1>3, <1>4 DEF CpRxHeartbeat, CpState
<1>5. CASE CpRxConfigStatus
  BY <1>1, <1>2, <1>3, <1>5 DEF CpRxConfigStatus, CpState
<1>6. CASE CpRxSafety
  BY <1>1, <1>2, <1>3, <1>6 DEF CpRxSafety, CpState
<1> QED
  BY <1>4, <1>5, <1>6

LEMMA MpStepType ==
  ASSUME NumChunksAssumption, BoundsAssumption, TypeOK, MpStep
  PROVE  /\ mp' \in MpState
         /\ mp'.config = mp.config /\ mp'.applied = mp.applied /\ mp'.loading = mp.loading
         /\ mp'.image = mp.image /\ mp'.received = mp.received
         /\ mpTxQueue' \in Seq(MpFrame) /\ toCp' \in Seq(MpFrame)
<1> DEFINE m == [mp EXCEPT !.age = Older(@)]
<1>1. m \in MpState
  <2>1. mp \in MpState /\ Older(mp.age) \in Age
    BY OlderType DEF TypeOK, MpState, BoundsAssumption
  <2> QED
    BY <2>1 DEF MpState
<1>2. CurrentConfigReady(m) \in BOOLEAN
  BY DEF CurrentConfigReady
<1>3. /\ mp' = [m EXCEPT !.configReady = CurrentConfigReady(m)]
      /\ mpTxQueue' = << ToCpFrame("HEARTBEAT", m), ToCpFrame("CFG_STATUS", m),
                         ToCpFrame("SAFETY", m) >>
      /\ toCp' = IF cp.up THEN mpTxQueue ELSE << >>
  BY DEF MpStep
<1>4. m.config = mp.config /\ m.applied = mp.applied /\ m.loading = mp.loading
      /\ m.image = mp.image /\ m.received = mp.received
  BY DEF TypeOK, MpState
<1> HIDE DEF m
<1>5. \A type \in {"HEARTBEAT", "CFG_STATUS", "SAFETY"} : ToCpFrame(type, m) \in MpFrame
  BY <1>1, ReportType DEF TypeOK
<1>6. mpTxQueue' \in Seq(MpFrame) /\ toCp' \in Seq(MpFrame)
  BY <1>3, <1>5 DEF TypeOK
<1>7. /\ mp' \in MpState
      /\ mp'.config = m.config /\ mp'.applied = m.applied /\ mp'.loading = m.loading
      /\ mp'.image = m.image /\ mp'.received = m.received
  BY <1>1, <1>2, <1>3 DEF MpState
<1> QED
  BY <1>4, <1>6, <1>7

LEMMA LeadType ==
  ASSUME BoundsAssumption, lead \in (0..MaxLead) \X (0..MaxLead)
  PROVE  /\ CpStep => lead' \in (0..MaxLead) \X (0..MaxLead)
         /\ MpStep => lead' \in (0..MaxLead) \X (0..MaxLead)
         /\ <<0, 0>> \in (0..MaxLead) \X (0..MaxLead)
<1>1. MaxLead \in Nat /\ lead[1] \in 0..MaxLead /\ lead[2] \in 0..MaxLead
  BY DEF BoundsAssumption
<1>2. <<0, 0>> \in (0..MaxLead) \X (0..MaxLead)
  BY <1>1
<1>3. ASSUME CpStep PROVE lead' \in (0..MaxLead) \X (0..MaxLead)
  <2>1. CASE ~mp.up
    BY <1>2, <1>3, <2>1 DEF CpStep
  <2>2. CASE mp.up /\ lead[2] > 0
    BY <1>1, <1>3, <2>2 DEF CpStep
  <2>3. CASE mp.up /\ ~(lead[2] > 0)
    BY <1>1, <1>3, <2>3 DEF CpStep
  <2> QED
    BY <2>1, <2>2, <2>3
<1>4. ASSUME MpStep PROVE lead' \in (0..MaxLead) \X (0..MaxLead)
  <2>1. CASE ~cp.up
    BY <1>2, <1>4, <2>1 DEF MpStep
  <2>2. CASE cp.up /\ lead[1] > 0
    BY <1>1, <1>4, <2>2 DEF MpStep
  <2>3. CASE cp.up /\ ~(lead[1] > 0)
    BY <1>1, <1>4, <2>3 DEF MpStep
  <2> QED
    BY <2>1, <2>2, <2>3
<1> QED
  BY <1>2, <1>3, <1>4

\* What is on the wire to MP is thinned by every action but CP's step, which
\* moves CP's queue there.
LEMMA WireToMp ==
  ASSUME TypeOK, [Next]_vars
  PROVE  Thins(toMp', toMp) \/ (CpStep /\ (toMp' = cpTxQueue \/ toMp' = << >>))
<1>1. toMp \in Seq(CpFrame) /\ Thins(toMp, toMp) /\ Thins(<< >>, toMp)
  BY EmptyThins DEF TypeOK, Thins
<1>2. CASE CpStep
  BY <1>2 DEF CpStep
<1>3. CASE MpReceives
  BY <1>1, <1>3, TailThins
     DEF MpReceives, MpRxHeartbeat, MpRxConfigBegin, MpRxConfigChunk, MpRxConfigCommit, MpRx
<1>4. CASE LoseFrame
  <2>1. CASE \E i \in DOMAIN toMp : toMp' = RemoveAt(toMp, i)
    <3>1. PICK i \in DOMAIN toMp : toMp' = RemoveAt(toMp, i)
      BY <2>1
    <3>2. i \in 1..Len(toMp)
      BY <1>1, LenProperties
    <3> QED
      BY <1>1, <3>1, <3>2, RemoveAtThins
  <2>2. CASE toMp' = toMp
    BY <1>1, <2>2
  <2> QED
    BY <1>4, <2>1, <2>2 DEF LoseFrame
<1>5. CASE MpCrash
  BY <1>1, <1>5 DEF MpCrash
<1>6. CASE CpReceives \/ EditConfig \/ MpStep \/ CpCrash \/ CpBoot \/ MpBoot
           \/ \E action \in FaultActions : LatchFault(action)
  BY <1>1, <1>6 DEF CpReceives, CpRxHeartbeat, CpRxConfigStatus, CpRxSafety, CpRx,
     EditConfig, MpStep, CpCrash, CpBoot, MpBoot, LatchFault
<1>7. CASE UNCHANGED vars
  BY <1>1, <1>7 DEF vars
<1> QED
  BY <1>2, <1>3, <1>4, <1>5, <1>6, <1>7 DEF Next

THEOREM TypeStep ==
  ASSUME NumChunksAssumption, BoundsAssumption, FaultActionsAssumption,
         TypeOK, NextChunkExists, [Next]_vars
  PROVE  TypeOK' /\ NextChunkExists'
<1>1. /\ activeGeneration \in Generation /\ cp \in CpState /\ mp \in MpState
      /\ << >> \in Seq(CpFrame) /\ << >> \in Seq(MpFrame)
      /\ cpTxQueue \in Seq(CpFrame) /\ mpTxQueue \in Seq(MpFrame) /\ toCp \in Seq(MpFrame)
      /\ lead \in (0..MaxLead) \X (0..MaxLead) /\ <<0, 0>> \in (0..MaxLead) \X (0..MaxLead)
      /\ losses \in 0..MaxLosses /\ crashes \in 0..MaxCrashes
      /\ activeImage \in [Chunk -> Generation]
      /\ latchedAction \in {"NONE", "FLASH", "DARK"}
  BY LeadType, EmptySeq DEF TypeOK
<1>2. \A up \in BOOLEAN : CpBooted(up) \in CpState /\ MpBooted(up) \in MpState
        /\ NoImage \in [Chunk -> Generation]
  BY <1>1, BootedTypes
<1>3. toMp' \in Seq(CpFrame)
  BY <1>1, WireToMp DEF Thins
<1>4. CASE CpStep
  BY <1>1, <1>3, <1>4, CpStepEffect, LeadType DEF CpStep, mpVars, TypeOK
<1>5. CASE CpReceives
  BY <1>1, <1>3, <1>5, CpReceivesType DEF mpVars, envVars, TypeOK, NextChunkExists
<1>6. CASE EditConfig
  <2>1. activeGeneration' \in Generation
    BY <1>1, <1>6 DEF EditConfig, Generation, BoundsAssumption
  <2> QED
    BY <1>1, <1>3, <1>6, <2>1
       DEF EditConfig, cpVars, mpVars, envVars, TypeOK, NextChunkExists
<1>7. CASE MpStep
  BY <1>1, <1>3, <1>7, MpStepType, LeadType DEF MpStep, cpVars, TypeOK, NextChunkExists
<1>8. CASE MpReceives
  BY <1>1, <1>3, <1>8, MpReceivesType DEF cpVars, envVars, TypeOK, NextChunkExists
<1>9. CASE \E action \in FaultActions : LatchFault(action)
  <2>1. latchedAction' \in {"NONE", "FLASH", "DARK"}
    BY <1>9 DEF LatchFault, FaultActionsAssumption
  <2> QED
    BY <1>1, <1>3, <1>9, <2>1 DEF LatchFault, cpVars, envVars, TypeOK, NextChunkExists
<1>10. CASE LoseFrame
  <2>1. toCp' \in Seq(MpFrame)
    BY <1>1, <1>10, RemoveAtProperties, LenProperties DEF LoseFrame
  <2>2. losses' \in 0..MaxLosses
    BY <1>1, <1>10 DEF LoseFrame, BoundsAssumption
  <2> QED
    BY <1>1, <1>3, <1>10, <2>1, <2>2 DEF LoseFrame, cpVars, mpVars, TypeOK, NextChunkExists
<1>11. CASE CpCrash \/ MpCrash
  <2>1. crashes' \in 0..MaxCrashes
    <3>1. crashes < MaxCrashes /\ crashes' = crashes + 1
      BY <1>11 DEF CpCrash, MpCrash
    <3> QED
      BY <1>1, <3>1 DEF BoundsAssumption
  <2>2. CASE CpCrash
    BY <1>1, <1>2, <1>3, <2>1, <2>2
       DEF CpCrash, mpVars, TypeOK, NextChunkExists, CpBooted
  <2>3. CASE MpCrash
    BY <1>1, <1>2, <1>3, <2>1, <2>3 DEF MpCrash, cpVars, TypeOK, NextChunkExists
  <2> QED
    BY <1>11, <2>2, <2>3
<1>12. CASE CpBoot
  BY <1>1, <1>2, <1>3, <1>12
     DEF CpBoot, mpVars, envVars, TypeOK, NextChunkExists, CpBooted
<1>13. CASE MpBoot
  BY <1>1, <1>2, <1>3, <1>13 DEF MpBoot, cpVars, envVars, TypeOK, NextChunkExists
<1>14. CASE UNCHANGED vars
  BY <1>1, <1>3, <1>14 DEF vars, cpVars, mpVars, envVars, TypeOK, NextChunkExists
<1> QED
  BY <1>4, <1>5, <1>6, <1>7, <1>8, <1>9, <1>10, <1>11, <1>12, <1>13, <1>14 DEF Next

-----------------------------------------------------------------------------
(* Generations never decrease along the way to MP *)

\* A bound from below on everything CP has sent, queued or will send stays one.
LEMMA FlightStep ==
  ASSUME NumChunksAssumption, BoundsAssumption, TypeOK, TypeOK', NextChunkExists,
         FlightOrdered, [Next]_vars
  PROVE  /\ FlightOrdered'
         /\ \A g \in Generation : NotAfterFlight(g) => NotAfterFlight(g)'
<1>1. /\ toMp \in Seq(CpFrame) /\ cpTxQueue \in Seq(CpFrame)
      /\ cp.configGeneration \in Nat /\ activeGeneration \in Nat
      /\ cp'.configGeneration \in Nat /\ activeGeneration' \in Nat
  BY DEF TypeOK, CpState, Generation
<1>2. /\ \A i \in 1..Len(toMp) : toMp[i].gen \in Nat
      /\ \A i \in 1..Len(cpTxQueue) : cpTxQueue[i].gen \in Nat
  <2>1. \A f \in CpFrame : f.gen \in Nat
    BY DEF CpFrame, Generation
  <2>2. /\ \A i \in 1..Len(toMp) : toMp[i] \in CpFrame
        /\ \A i \in 1..Len(cpTxQueue) : cpTxQueue[i] \in CpFrame
    BY <1>1, ElementOfSeq
  <2> QED
    BY <2>1, <2>2
<1>3. CASE CpStep
  <2>1. /\ cp'.configGeneration = activeGeneration /\ activeGeneration' = activeGeneration
        /\ \A i \in 1..Len(cpTxQueue') : cpTxQueue'[i].gen = activeGeneration
        /\ toMp' = cpTxQueue \/ toMp' = << >>
    BY <1>3, CpStepEffect DEF CpStep
  <2>2. Ordered(cpTxQueue') /\ AtMost(cpTxQueue', cp'.configGeneration)
    BY <1>1, <2>1 DEF Ordered, AtMost
  <2>3. \A g \in Nat : g <= activeGeneration => AtLeast(cpTxQueue', g)
    BY <2>1 DEF AtLeast
  <2>4. /\ \A i \in 1..Len(toMp') : toMp'[i].gen \in Nat /\ toMp'[i].gen <= activeGeneration
        /\ Ordered(toMp') /\ AtMost(toMp', activeGeneration)
    <3>1. CASE toMp' = << >>
      BY <3>1, EmptySeq DEF Ordered, AtMost
    <3>2. CASE toMp' = cpTxQueue
      BY <1>1, <1>2, <3>2 DEF FlightOrdered, AtMost
    <3> QED
      BY <2>1, <3>1, <3>2
  <2>5. FlightOrdered'
    BY <1>1, <2>1, <2>2, <2>3, <2>4 DEF FlightOrdered
  <2>6. ASSUME NEW g \in Generation, NotAfterFlight(g) PROVE NotAfterFlight(g)'
    <3>1. g \in Nat /\ g <= activeGeneration
      BY <1>1, <2>6 DEF NotAfterFlight, FlightOrdered, Generation
    <3>2. AtLeast(toMp', g)
      BY <2>1, <2>6, EmptySeq DEF NotAfterFlight, AtLeast
    <3> QED
      BY <2>1, <2>3, <3>1, <3>2 DEF NotAfterFlight
  <2> QED
    BY <2>5, <2>6
<1>4. CASE ~CpStep
  <2>1. Thins(toMp', toMp)
    BY <1>4, WireToMp
  <2>2. /\ cpTxQueue' = cpTxQueue \/ cpTxQueue' = << >>
        /\ \/ cp'.configGeneration = cp.configGeneration
           \/ cp'.configGeneration = activeGeneration
        /\ activeGeneration' = activeGeneration \/ activeGeneration' = activeGeneration + 1
    <3>1. CASE CpReceives
      BY <3>1, CpReceivesType
    <3>2. CASE MpReceives
      BY <3>2, MpReceivesType DEF cpVars
    <3>3. CASE EditConfig \/ MpStep \/ LoseFrame \/ MpCrash \/ MpBoot
               \/ \E action \in FaultActions : LatchFault(action)
      BY <3>3 DEF EditConfig, MpStep, LoseFrame, MpCrash, MpBoot, LatchFault, cpVars
    <3>4. CASE CpCrash \/ CpBoot
      BY <3>4 DEF CpCrash, CpBoot, CpBooted
    <3>5. CASE UNCHANGED vars
      BY <3>5 DEF vars, cpVars
    <3> QED
      BY <1>4, <3>1, <3>2, <3>3, <3>4, <3>5 DEF Next
  <2>3. cp.configGeneration <= cp'.configGeneration
        /\ cp'.configGeneration <= activeGeneration'
    <3>1. cp'.configGeneration <= activeGeneration
      BY <1>1, <2>2 DEF FlightOrdered
    <3> QED
      BY <1>1, <2>2, <3>1 DEF FlightOrdered
  <2>4. \A i \in 1..Len(cpTxQueue') : i \in 1..Len(cpTxQueue) /\ cpTxQueue'[i] = cpTxQueue[i]
    BY <2>2, EmptySeq
  <2>5. \A i \in 1..Len(toMp') : \E k \in 1..Len(toMp) : toMp'[i] = toMp[k]
    BY <2>1 DEF Thins
  <2>6. Ordered(toMp') /\ Ordered(cpTxQueue')
    BY <2>1, <2>2, EmptySeq DEF FlightOrdered, Thins, Ordered
  <2>7. AtMost(toMp', cp'.configGeneration)
    <3> SUFFICES ASSUME NEW i \in 1..Len(toMp')
                 PROVE  toMp'[i].gen <= cp'.configGeneration
      BY DEF AtMost
    <3>1. PICK k \in 1..Len(toMp) : toMp'[i] = toMp[k]
      BY <2>5
    <3>2. toMp[k].gen \in Nat /\ toMp[k].gen <= cp.configGeneration
      BY <1>2 DEF FlightOrdered, AtMost
    <3> QED
      BY <1>1, <2>3, <3>1, <3>2
  <2>8. AtMost(cpTxQueue', cp'.configGeneration)
    BY <1>1, <1>2, <2>3, <2>4 DEF FlightOrdered, AtMost
  <2>9. \A i \in 1..Len(toMp') : AtLeast(cpTxQueue', toMp'[i].gen)
    BY <2>4, <2>5 DEF FlightOrdered, AtLeast
  <2>10. FlightOrdered'
    BY <2>3, <2>6, <2>7, <2>8, <2>9 DEF FlightOrdered
  <2>11. ASSUME NEW g \in Generation, NotAfterFlight(g) PROVE NotAfterFlight(g)'
    <3>1. AtLeast(toMp', g)
      BY <2>5, <2>11 DEF NotAfterFlight, AtLeast
    <3>2. AtLeast(cpTxQueue', g)
      BY <2>4, <2>11 DEF NotAfterFlight, AtLeast
    <3>3. g <= cp'.configGeneration
      BY <1>1, <2>3, <2>11 DEF NotAfterFlight, Generation
    <3> QED
      BY <3>1, <3>2, <3>3 DEF NotAfterFlight
  <2> QED
    BY <2>10, <2>11
<1> QED
  BY <1>3, <1>4

-----------------------------------------------------------------------------
(* The inductive invariant is kept *)

\* The frame about to arrive is the oldest MP will still see.
LEMMA HeadFirst ==
  ASSUME TypeOK, FlightOrdered, toMp # << >>
  PROVE  /\ Head(toMp) \in CpFrame /\ Head(toMp).gen \in Generation
         /\ Head(toMp).index \in Chunk
         /\ NotAfterFlight(Head(toMp).gen)
         /\ \A g \in Generation : NotAfterFlight(g) => g <= Head(toMp).gen
<1>1. /\ toMp \in Seq(CpFrame) /\ Len(toMp) \in Nat \ {0} /\ Head(toMp) = toMp[1]
      /\ Head(toMp) \in CpFrame /\ 1 \in 1..Len(toMp)
  BY EmptySeq, HeadTailProperties DEF TypeOK
<1>2. Head(toMp).gen \in Generation /\ Head(toMp).index \in Chunk
  BY <1>1 DEF CpFrame
<1>3. AtLeast(toMp, Head(toMp).gen)
  BY <1>1 DEF FlightOrdered, Ordered, AtLeast
<1>4. AtLeast(cpTxQueue, Head(toMp).gen) /\ Head(toMp).gen <= cp.configGeneration
  BY <1>1 DEF FlightOrdered, AtMost
<1> QED
  BY <1>1, <1>2, <1>3, <1>4 DEF NotAfterFlight, AtLeast

\* A COMMIT that MP accepts installs one configuration in every chunk, and none
\* older than the one it replaces.
LEMMA CommitInstallsOne ==
  ASSUME IInv, MpRxConfigCommit, mp.config = "LOADING",
         CommitAccepted(mp, Head(toMp).gen)
  PROVE  /\ activeImage' = Image(mp.loading)
         /\ mp' = ResetLoadingState([mp EXCEPT !.config = "APPLIED", !.applied = mp.loading])
         /\ \A i \in Chunk : activeImage[i] <= activeImage'[i]
<1>1. /\ activeImage' = mp.image /\ Head(toMp).gen = mp.loading /\ mp.received = Chunk
      /\ mp' = ResetLoadingState([mp EXCEPT !.config = "APPLIED", !.applied = mp.loading])
  BY DEF MpRxConfigCommit, CommitAccepted
<1>2. toMp \in Seq(CpFrame) /\ toMp # << >> /\ Len(toMp) \in Nat \ {0} /\ Head(toMp) = toMp[1]
  BY EmptySeq DEF MpRxConfigCommit, MpRx, IInv, TypeOK
<1>3. /\ mp.image \in [Chunk -> Generation] /\ activeImage \in [Chunk -> Generation]
      /\ mp.loading \in Nat /\ \A i \in Chunk : mp.image[i] \in Nat
  BY DEF IInv, TypeOK, MpState, Generation
<1>4. \A i \in Chunk : mp.loading <= mp.image[i] /\ mp.image[i] <= mp.loading
  BY <1>1, <1>2 DEF IInv, LoadSandwich, NotAfterFlight, AtLeast
<1>5. \A i \in Chunk : mp.image[i] = mp.loading
  BY <1>3, <1>4
<1>6. mp.image = Image(mp.loading)
  BY <1>3, <1>5 DEF Image
<1>7. \A i \in Chunk : activeImage[i] <= mp.loading
  BY <1>1, <1>2 DEF IInv, ActiveBeforeFlight, NotAfterFlight, AtLeast
<1> QED
  BY <1>1, <1>5, <1>6, <1>7

\* What MP received before this step, and what it receives in this step, lies in
\* the sandwich after it.
LEMMA SandwichStep ==
  ASSUME NumChunksAssumption, BoundsAssumption, FaultActionsAssumption,
         IInv, TypeOK', FlightOrdered', [Next]_vars,
         \A g \in Generation : NotAfterFlight(g) => NotAfterFlight(g)'
  PROVE  LoadSandwich' /\ ActiveBeforeFlight' /\ AppliedImagePure'
<1>1. /\ mp \in MpState /\ mp.loading \in Generation
      /\ activeImage \in [Chunk -> Generation] /\ mp.image \in [Chunk -> Generation]
      /\ mp.received \subseteq Chunk
  BY DEF IInv, TypeOK, MpState
<1>2. NotAfterFlight(0)'
  <2>1. \A f \in CpFrame : 0 <= f.gen
    BY DEF CpFrame, Generation
  <2>2. AtLeast(toMp, 0) /\ AtLeast(cpTxQueue, 0)
    BY <2>1, ElementOfSeq DEF IInv, TypeOK, AtLeast
  <2>3. 0 <= cp.configGeneration /\ 0 \in Generation
    BY DEF IInv, TypeOK, CpState, Generation, BoundsAssumption
  <2> QED
    BY <2>2, <2>3 DEF NotAfterFlight
<1>3. ASSUME mp'.loading = mp.loading, mp'.image = mp.image, mp'.received = mp.received
      PROVE  LoadSandwich'
  BY <1>1, <1>3 DEF IInv, LoadSandwich
<1>4. ASSUME mp'.loading = 0, mp'.received = {}
      PROVE  LoadSandwich'
  BY <1>2, <1>4 DEF LoadSandwich
<1>5. ASSUME activeImage' = activeImage PROVE ActiveBeforeFlight'
  BY <1>1, <1>5 DEF IInv, ActiveBeforeFlight
<1>6. ASSUME activeImage' = activeImage, mp'.config = mp.config, mp'.applied = mp.applied
      PROVE  AppliedImagePure'
  BY <1>6 DEF IInv, AppliedImagePure
<1>7. CASE UNCHANGED <<mp, activeImage>>
  BY <1>3, <1>5, <1>6, <1>7
<1>8. CASE MpStep
  BY <1>3, <1>5, <1>6, <1>8, MpStepType DEF MpStep, IInv
<1>9. CASE MpRxHeartbeat
  BY <1>1, <1>3, <1>5, <1>6, <1>9 DEF MpRxHeartbeat, MpState
<1>10. CASE MpRxConfigBegin
  <2>1. /\ mp' = [ResetLoadingState(mp) EXCEPT !.config = "LOADING", !.loading = Head(toMp).gen]
        /\ activeImage' = activeImage
    BY <1>10 DEF MpRxConfigBegin
  <2>2. ResetLoadingState(mp) \in MpState /\ ResetLoadingState(mp).received = {}
    BY <1>1, ResetType
  <2>3. mp'.config = "LOADING" /\ mp'.loading = Head(toMp).gen /\ mp'.received = {}
    BY <2>1, <2>2 DEF MpState
  <2>4. Head(toMp).gen \in Generation /\ NotAfterFlight(Head(toMp).gen)
    BY <1>10, HeadFirst DEF IInv, MpRxConfigBegin, MpRx
  <2> QED
    BY <1>5, <2>1, <2>3, <2>4 DEF LoadSandwich, AppliedImagePure
<1>11. CASE MpRxConfigChunk
  <2>1. CASE mp.config # "LOADING"
    BY <1>7, <1>11, <2>1 DEF MpRxConfigChunk
  <2>2. CASE mp.config = "LOADING"
    <3> DEFINE k == Head(toMp).index
               g == Head(toMp).gen
    <3>1. /\ mp' = [mp EXCEPT !.image[k] = g, !.received = @ \cup {k}]
          /\ activeImage' = activeImage
      BY <1>11, <2>2 DEF MpRxConfigChunk
    <3>2. /\ g \in Generation /\ k \in Chunk /\ NotAfterFlight(g) /\ mp.loading <= g
      BY <1>1, <1>11, HeadFirst DEF IInv, MpRxConfigChunk, MpRx, LoadSandwich
    <3> HIDE DEF k, g
    <3>3. /\ mp'.config = mp.config /\ mp'.applied = mp.applied /\ mp'.loading = mp.loading
          /\ mp'.received = mp.received \cup {k}
          /\ mp'.image = [mp.image EXCEPT ![k] = g]
      BY <1>1, <3>1 DEF MpState
    <3>4. NotAfterFlight(mp.loading)'
      BY <1>1, <3>3 DEF IInv, LoadSandwich
    <3>5. ASSUME NEW i \in mp.received \cup {k}
          PROVE  mp'.loading <= mp'.image[i] /\ NotAfterFlight(mp.image[i])'
      <4>1. CASE i = k
        BY <1>1, <3>2, <3>3, <4>1
      <4>2. CASE i # k
        <5>1. i \in mp.received /\ i \in Chunk /\ mp.image[i] \in Generation
          BY <1>1, <4>2, <3>5
        <5> QED
          BY <1>1, <3>3, <4>2, <5>1 DEF IInv, LoadSandwich
      <4> QED
        BY <4>1, <4>2
    <3> QED
      BY <1>5, <1>6, <3>1, <3>3, <3>4, <3>5 DEF LoadSandwich
  <2> QED
    BY <2>1, <2>2
<1>12. CASE MpRxConfigCommit
  <2>1. CASE mp.config # "LOADING"
    BY <1>7, <1>12, <2>1 DEF MpRxConfigCommit
  <2>2. CASE mp.config = "LOADING" /\ CommitAccepted(mp, Head(toMp).gen)
    <3> DEFINE m == [mp EXCEPT !.config = "APPLIED", !.applied = mp.loading]
    <3>1. activeImage' = Image(mp.loading) /\ mp' = ResetLoadingState(m)
      BY <1>12, <2>2, CommitInstallsOne
    <3>2. m \in MpState /\ m.config = "APPLIED" /\ m.applied = mp.loading
      BY <1>1 DEF MpState, ConfigState
    <3> HIDE DEF m
    <3>3. /\ mp'.config = "APPLIED" /\ mp'.applied = mp.loading
          /\ mp'.received = {} /\ mp'.loading = 0
      BY <3>1, <3>2, ResetType
    <3>4. ActiveBeforeFlight'
      BY <1>1, <3>1 DEF IInv, LoadSandwich, ActiveBeforeFlight, Image
    <3> QED
      BY <1>4, <3>1, <3>3, <3>4 DEF AppliedImagePure
  <2>3. CASE mp.config = "LOADING" /\ ~CommitAccepted(mp, Head(toMp).gen)
    <3> DEFINE m == [mp EXCEPT !.config = "INVALID"]
    <3>1. m \in MpState /\ m.config = "INVALID"
      BY <1>1 DEF MpState, ConfigState
    <3>2. mp' = ResetLoadingState(m) /\ activeImage' = activeImage
      BY <1>12, <2>3 DEF MpRxConfigCommit
    <3> HIDE DEF m
    <3>3. mp'.config = "INVALID" /\ mp'.received = {} /\ mp'.loading = 0
      BY <3>1, <3>2, ResetType
    <3> QED
      BY <1>4, <1>5, <3>2, <3>3 DEF AppliedImagePure
  <2> QED
    BY <2>1, <2>2, <2>3
<1>13. CASE MpCrash
  <2>1. /\ activeImage' = NoImage /\ mp'.loading = 0 /\ mp'.received = {}
        /\ mp'.config = "EMPTY"
    BY <1>13 DEF MpCrash, MpBooted
  <2>2. ActiveBeforeFlight'
    BY <1>2, <2>1 DEF ActiveBeforeFlight, NoImage, Image
  <2> QED
    BY <1>4, <2>1, <2>2 DEF AppliedImagePure
<1>14. CASE MpBoot
  <2>1. /\ activeImage' = activeImage /\ mp'.loading = 0 /\ mp'.received = {}
        /\ mp'.config = "EMPTY"
    BY <1>14 DEF MpBoot, MpBooted
  <2> QED
    BY <1>4, <1>5, <2>1 DEF AppliedImagePure
<1>15. CASE CpStep \/ CpReceives \/ EditConfig \/ LoseFrame \/ CpCrash \/ CpBoot
            \/ (\E action \in FaultActions : LatchFault(action)) \/ UNCHANGED vars
  <2>1. CASE CpReceives
    BY <1>7, <2>1, CpReceivesType DEF IInv, mpVars
  <2> QED
    BY <1>7, <1>15, <2>1
       DEF CpStep, EditConfig, LoseFrame, CpCrash, CpBoot, LatchFault, vars, mpVars
<1> QED
  BY <1>8, <1>9, <1>10, <1>11, <1>12, <1>13, <1>14, <1>15 DEF Next, MpReceives

LEMMA Initially ==
  ASSUME NumChunksAssumption, BoundsAssumption, Init
  PROVE  IInv
<1>1. activeGeneration \in Generation /\ activeGeneration \in Nat
  BY DEF Init, Generation, BoundsAssumption
<1>2. cp \in CpState /\ mp \in MpState /\ activeImage \in [Chunk -> Generation]
  BY <1>1, BootedTypes DEF Init
<1>3. << >> \in Seq(CpFrame) /\ << >> \in Seq(MpFrame) /\ Len(<< >>) = 0
  BY EmptySeq
<1>4. TypeOK
  <2>1. 0 \in 0..MaxLead /\ 0 \in 0..MaxLosses /\ 0 \in 0..MaxCrashes
    BY DEF BoundsAssumption
  <2>2. lead \in (0..MaxLead) \X (0..MaxLead)
    BY <2>1 DEF Init
  <2> QED
    BY <1>1, <1>2, <1>3, <2>1, <2>2 DEF Init, TypeOK
<1>5. FlightOrdered
  BY <1>1, <1>3 DEF Init, FlightOrdered, Ordered, AtMost, AtLeast, CpBooted
<1>6. NextChunkExists
  BY DEF Init, NextChunkExists, CpBooted
<1>7. NotAfterFlight(0)
  BY <1>1, <1>3 DEF Init, NotAfterFlight, AtLeast, CpBooted
<1>8. LoadSandwich /\ ActiveBeforeFlight /\ AppliedImagePure
  BY <1>7 DEF Init, LoadSandwich, ActiveBeforeFlight, AppliedImagePure,
              MpBooted, NoImage, Image
<1> QED
  BY <1>4, <1>5, <1>6, <1>8 DEF IInv

LEMMA Inductive ==
  ASSUME NumChunksAssumption, BoundsAssumption, FaultActionsAssumption,
         IInv, [Next]_vars
  PROVE  IInv'
<1>1. TypeOK' /\ NextChunkExists'
  BY TypeStep DEF IInv
<1>2. FlightOrdered' /\ \A g \in Generation : NotAfterFlight(g) => NotAfterFlight(g)'
  BY <1>1, FlightStep DEF IInv
<1>3. LoadSandwich' /\ ActiveBeforeFlight' /\ AppliedImagePure'
  BY <1>1, <1>2, SandwichStep
<1> QED
  BY <1>1, <1>2, <1>3 DEF IInv

-----------------------------------------------------------------------------
(* Theorems *)

\* The strengthening holds in every reachable state of the link.
THEOREM InvariantHolds == Spec => []IInv
<1>1. Init => IInv
  BY Initially, NumChunksAssumption, BoundsAssumption
<1>2. IInv /\ [Next]_vars => IInv'
  BY Inductive, NumChunksAssumption, BoundsAssumption, FaultActionsAssumption
<1> QED
  BY <1>1, <1>2, PTL DEF Spec

\* Frames, service states, images and counters keep their types.
THEOREM TypeCorrect == Spec => []TypeOK
<1>1. IInv => TypeOK
  BY DEF IInv
<1> QED
  BY <1>1, InvariantHolds, PTL

\* No image is ever put together from two configurations: an MP in state APPLIED
\* enforces the generation it reports in every chunk.
THEOREM AppliedIsPure == Spec => []AppliedImagePure
<1>1. IInv => AppliedImagePure
  BY DEF IInv
<1> QED
  BY <1>1, InvariantHolds, PTL

\* A running MP never goes back to an older configuration in any chunk.
THEOREM NeverRegresses == Spec => AppliedNeverRegresses
<1> DEFINE Keeps == mp.up /\ mp'.up => \A i \in Chunk : activeImage[i] <= activeImage'[i]
<1>1. IInv /\ [Next]_vars => [Keeps]_vars
  <2> SUFFICES ASSUME IInv, Next, mp.up, mp'.up, NEW i \in Chunk
               PROVE  activeImage[i] <= activeImage'[i]
    OBVIOUS
  <2>1. activeImage[i] \in Nat /\ activeImage[i] <= activeImage[i]
    BY DEF IInv, TypeOK, Generation
  <2>2. CASE MpRxConfigCommit
    <3>1. activeImage' = activeImage \/ (mp.config = "LOADING" /\ CommitAccepted(mp, Head(toMp).gen))
      BY <2>2 DEF MpRxConfigCommit
    <3> QED
      BY <2>1, <2>2, <3>1, CommitInstallsOne
  <2>3. CASE MpCrash
    BY <2>3 DEF MpCrash, MpBooted
  <2>4. CASE MpStep \/ MpRxHeartbeat \/ MpRxConfigBegin \/ MpRxConfigChunk \/ MpBoot
             \/ (\E action \in FaultActions : LatchFault(action))
    BY <2>1, <2>4
       DEF MpStep, MpRxHeartbeat, MpRxConfigBegin, MpRxConfigChunk, MpBoot, LatchFault
  <2>5. CASE CpStep \/ EditConfig \/ LoseFrame \/ CpCrash \/ CpBoot
    BY <2>1, <2>5 DEF CpStep, EditConfig, LoseFrame, CpCrash, CpBoot, mpVars
  <2>6. CASE CpReceives
    BY <2>1, <2>6
       DEF CpReceives, CpRxHeartbeat, CpRxConfigStatus, CpRxSafety, CpRx, mpVars
  <2> QED
    BY <2>2, <2>3, <2>4, <2>5, <2>6 DEF Next, MpReceives
<1> QED
  BY <1>1, InvariantHolds, PTL DEF Spec, AppliedNeverRegresses

-----------------------------------------------------------------------------
(* How old what CP knows of MP can be                                      *)
(*                                                                         *)
(* A report is made with its evidence fresh, leaves MP's queue with MP's   *)
(* next step and is taken off the wire before the one after it.  CP's      *)
(* periods meanwhile are what its lead over MP grows by; a restart sets    *)
(* the lead back and leaves reports on the wire, so it adds MaxLead.       *)

Delay == (crashes + 1) * MaxLead

\* What the report f vouches for held at most d periods ago, beyond CP's lead.
Dated(f, d) ==
  /\ f.action = "NORMAL" => sinceUnlatched + lead[2] <= lead[1] + d
  /\ f.config = "APPLIED" =>
       /\ f.gen <= activeGeneration
       /\ f.gen = activeGeneration => sinceEnforcing + lead[2] <= lead[1] + d

AllDated(reports, d) == \A i \in 1..Len(reports) : Dated(reports[i], d)

\* What CP took over from the reports ages with its last heartbeat.
CpDated ==
  /\ cp.mpConfig = "APPLIED" => cp.mpGeneration <= activeGeneration
  /\ Fresh(cp.age) =>
       /\ cp.lastAction = "NORMAL" => sinceUnlatched <= cp.age + MaxLead + Delay + 1
       /\ cp.mpConfig = "APPLIED" /\ cp.mpGeneration = activeGeneration =>
            sinceEnforcing <= cp.age + MaxLead + Delay + 1

Counts == sinceUnlatched \in Nat /\ sinceEnforcing \in Nat

Evidence ==
  /\ Counts
  /\ lead[2] > 0 => lead[1] = 0
  /\ ~mp.up => mpTxQueue = << >>
  /\ AllDated(mpTxQueue, Delay)
  /\ AllDated(toCp, Delay + 1)
  /\ CpDated

FreshInv == IInv /\ Evidence /\ NormalIsFresh

\* MaxStale is no less than what timeout, leads and restarts add up to.
StaleBound == PeerTimeout + (MaxCrashes + 2) * MaxLead + 1 <= MaxStale

\* The counters grow by at most k, and CP may come to run the next generation.
Ages(k) ==
  /\ sinceUnlatched' <= sinceUnlatched + k /\ sinceEnforcing' <= sinceEnforcing + k
  /\ activeGeneration' = activeGeneration \/ activeGeneration' = activeGeneration + 1

LEMMA Leads ==
  ASSUME BoundsAssumption, TypeOK
  PROVE  /\ lead[1] \in Nat /\ lead[1] <= MaxLead /\ lead[2] \in Nat /\ lead[2] <= MaxLead
         /\ MaxLead \in Nat /\ Delay \in Nat /\ MaxLead <= Delay
         /\ activeGeneration \in Nat
<1>1. /\ MaxLead \in Nat /\ lead[1] \in 0..MaxLead /\ lead[2] \in 0..MaxLead
      /\ crashes \in Nat /\ activeGeneration \in Nat
  BY DEF BoundsAssumption, TypeOK, Generation
<1>2. \A n \in Nat : (n + 1) * MaxLead \in Nat /\ MaxLead <= (n + 1) * MaxLead
  BY <1>1
<1> QED
  BY <1>1, <1>2 DEF Delay

\* A report stays dated when what its evidence ages by is made up for by the leads
\* or by a larger bound.
LEMMA StaysDated ==
  ASSUME BoundsAssumption, TypeOK, TypeOK', Counts, Counts', NEW k \in Nat, Ages(k)
  PROVE  \A f \in MpFrame : \A d, e \in Nat :
           /\ Dated(f, d)
           /\ lead[1] + d + lead'[2] + k <= lead'[1] + e + lead[2]
           => Dated(f, e)'
<1> SUFFICES ASSUME NEW f \in MpFrame, NEW d \in Nat, NEW e \in Nat, Dated(f, d),
                    lead[1] + d + lead'[2] + k <= lead'[1] + e + lead[2]
             PROVE  Dated(f, e)'
  OBVIOUS
<1>1. /\ lead[1] \in Nat /\ lead[2] \in Nat /\ activeGeneration \in Nat
      /\ lead'[1] \in Nat /\ lead'[2] \in Nat /\ activeGeneration' \in Nat
  BY DEF TypeOK, Generation, BoundsAssumption
<1>2. f.gen \in Nat
  BY DEF MpFrame, Generation
<1>3. \A n, m \in Nat : n + lead[2] <= lead[1] + d /\ m <= n + k
                          => m + lead'[2] <= lead'[1] + e
  BY <1>1
<1>4. /\ sinceUnlatched \in Nat /\ sinceUnlatched' \in Nat
      /\ sinceEnforcing \in Nat /\ sinceEnforcing' \in Nat
      /\ sinceUnlatched' <= sinceUnlatched + k /\ sinceEnforcing' <= sinceEnforcing + k
  BY DEF Counts, Ages
<1>5. f.action = "NORMAL" => sinceUnlatched' + lead'[2] <= lead'[1] + e
  BY <1>3, <1>4 DEF Dated
<1>6. ASSUME f.config = "APPLIED"
      PROVE  /\ f.gen <= activeGeneration'
             /\ f.gen = activeGeneration' => sinceEnforcing' + lead'[2] <= lead'[1] + e
  <2>1. f.gen <= activeGeneration
    BY <1>6 DEF Dated
  <2>2. activeGeneration' = activeGeneration \/ activeGeneration' = activeGeneration + 1
    BY DEF Ages
  <2>3. f.gen <= activeGeneration' /\ (f.gen = activeGeneration' => f.gen = activeGeneration)
    BY <1>1, <1>2, <2>1, <2>2
  <2> QED
    BY <1>3, <1>4, <1>6, <2>3 DEF Dated
<1> QED
  BY <1>5, <1>6 DEF Dated

\* The same for what is left of a queue, with all its reports.
LEMMA QueueStaysDated ==
  ASSUME BoundsAssumption, TypeOK, TypeOK', Counts, Counts', NEW k \in Nat, Ages(k),
         NEW s \in Seq(MpFrame), NEW t, NEW d \in Nat, NEW e \in Nat,
         \A i \in 1..Len(t) : \E j \in 1..Len(s) : t[i] = s[j],
         AllDated(s, d),
         lead[1] + d + lead'[2] + k <= lead'[1] + e + lead[2]
  PROVE  \A i \in 1..Len(t) : Dated(t[i], e)'
<1> TAKE i \in 1..Len(t)
<1>1. PICK j \in 1..Len(s) : t[i] = s[j]
  OBVIOUS
<1>2. s[j] \in MpFrame /\ Dated(s[j], d)
  BY ElementOfSeq DEF AllDated
<1>3. Dated(s[j], e)'
  BY <1>2, StaysDated
<1> QED
  BY <1>1, <1>3

\* MP reports NORMAL only unlatched, and a generation as APPLIED only when it
\* enforces that; so the counters restart when it makes the report.
LEMMA ReportsDated ==
  ASSUME NumChunksAssumption, BoundsAssumption, IInv, TypeOK', Counts, MpStep,
         Observe(sinceUnlatched, sinceEnforcing)
  PROVE  AllDated(mpTxQueue, Delay)'
<1> DEFINE m == [mp EXCEPT !.age = Older(@)]
<1>1. /\ mpTxQueue' = << ToCpFrame("HEARTBEAT", m), ToCpFrame("CFG_STATUS", m),
                         ToCpFrame("SAFETY", m) >>
      /\ mp.up /\ mp'.up
      /\ UNCHANGED <<activeGeneration, activeImage, latchedAction>>
  BY DEF MpStep, IInv, TypeOK, MpState
<1>2. m.config = mp.config /\ m.applied = mp.applied
  BY DEF IInv, TypeOK, MpState
<1> HIDE DEF m
<1>3. /\ lead'[1] \in Nat /\ lead'[2] \in Nat /\ lead'[2] <= MaxLead
      /\ MaxLead \in Nat /\ Delay' \in Nat /\ MaxLead <= Delay'
  <2>1. lead'[1] \in 0..MaxLead /\ lead'[2] \in 0..MaxLead /\ MaxLead \in Nat
    BY DEF TypeOK, BoundsAssumption
  <2>2. crashes' = crashes
    BY DEF MpStep
  <2>3. Delay' = Delay
    BY <2>2 DEF Delay
  <2> QED
    BY <2>1, <2>3, Leads DEF IInv
<1>4. ASSUME mp.config = "APPLIED"
      PROVE  activeImage = Image(mp.applied) /\ mp.applied <= activeGeneration
  <2>1. activeImage = Image(mp.applied)
    BY <1>4 DEF IInv, AppliedImagePure
  <2>2. 0 \in Chunk
    BY DEF Chunk, NumChunksAssumption
  <2>3. mp.applied <= cp.configGeneration
    BY <2>1, <2>2 DEF IInv, ActiveBeforeFlight, NotAfterFlight, Image
  <2>4. /\ mp.applied \in Nat /\ cp.configGeneration \in Nat /\ activeGeneration \in Nat
        /\ cp.configGeneration <= activeGeneration
    BY DEF IInv, TypeOK, MpState, CpState, Generation, FlightOrdered
  <2> QED
    BY <2>1, <2>3, <2>4
<1> PICK e \in Nat : e = Delay'
  BY <1>3
<1>5. ASSUME NEW type, NEW f, f = ToCpFrame(type, m)
      PROVE  Dated(f, e)'
  <2>1. f.action = CurrentSafetyAction(m) /\ f.config = mp.config
    BY <1>2, <1>5 DEF ToCpFrame
  <2>2. f.action = "NORMAL" => sinceUnlatched' = 0
    <3>1. CurrentSafetyAction(m) = "NORMAL" => latchedAction = "NONE"
      BY DEF CurrentSafetyAction, IInv, TypeOK
    <3> QED
      BY <1>1, <2>1, <3>1 DEF Observe, Unlatched
  <2>3. ASSUME mp.config = "APPLIED"
        PROVE  /\ f.gen <= activeGeneration'
               /\ f.gen = activeGeneration' => sinceEnforcing' = 0
    <3>1. f.gen = mp.applied
      BY <1>2, <1>5, <2>3 DEF ToCpFrame, CurrentReportedGeneration
    <3> QED
      BY <1>1, <1>4, <2>3, <3>1 DEF Observe, Enforcing
  <2>4. 0 + lead'[2] <= lead'[1] + Delay'
    BY <1>3
  <2> QED
    BY <2>1, <2>2, <2>3, <2>4 DEF Dated
<1>6. Len(mpTxQueue') = 3 /\ \A i \in 1..3 : \E type : mpTxQueue'[i] = ToCpFrame(type, m)
  BY <1>1
<1>7. ASSUME NEW i \in 1..Len(mpTxQueue'), NEW f, f = mpTxQueue'[i]
      PROVE  Dated(f, e)'
  BY <1>5, <1>6, <1>7
<1> QED
  BY <1>7 DEF AllDated

\* What CP takes from the report it receives is as old as the report.
LEMMA ReceivedDated ==
  ASSUME BoundsAssumption, IInv, Evidence, TypeOK', Counts', CpReceives, Ages(0)
  PROVE  CpDated'
<1> DEFINE f == Head(toCp)
<1>1. /\ toCp # << >> /\ toCp \in Seq(MpFrame)
      /\ UNCHANGED <<activeGeneration, mp, lead, crashes>>
  BY DEF CpReceives, CpRxHeartbeat, CpRxConfigStatus, CpRxSafety, CpRx, mpVars, envVars,
         IInv, TypeOK
<1>2. f \in MpFrame /\ Dated(f, Delay + 1)
  <2>1. 1 \in 1..Len(toCp) /\ f = toCp[1] /\ f \in MpFrame
    BY <1>1, EmptySeq, HeadTailProperties
  <2> QED
    BY <2>1 DEF Evidence, AllDated
<1>3. /\ lead[1] \in Nat /\ lead[1] <= MaxLead /\ lead[2] \in Nat
      /\ MaxLead \in Nat /\ Delay \in Nat /\ activeGeneration \in Nat
  BY Leads DEF IInv
<1>4. Delay' = Delay
  BY <1>1 DEF Delay
<1>5. /\ sinceUnlatched \in Nat /\ sinceUnlatched' \in Nat
      /\ sinceEnforcing \in Nat /\ sinceEnforcing' \in Nat
      /\ sinceUnlatched' <= sinceUnlatched /\ sinceEnforcing' <= sinceEnforcing
  BY DEF Evidence, Counts, Ages
<1>6. cp \in CpState /\ cp.age \in Nat
  BY DEF IInv, TypeOK, CpState, Age, BoundsAssumption
<1>7. \A n \in Nat : n + lead[2] <= lead[1] + (Delay + 1) => n <= MaxLead + Delay + 1
  BY <1>3
<1>8. /\ f.action = "NORMAL" => sinceUnlatched' <= MaxLead + Delay + 1
      /\ f.config = "APPLIED" =>
           /\ f.gen <= activeGeneration
           /\ f.gen = activeGeneration => sinceEnforcing' <= MaxLead + Delay + 1
  BY <1>2, <1>3, <1>5, <1>7 DEF Dated
<1>9. \A n, a \in Nat : n <= MaxLead + Delay + 1 => n <= a + MaxLead + Delay + 1
  BY <1>3
<1>10. /\ cp.mpConfig = "APPLIED" => cp.mpGeneration <= activeGeneration
       /\ Fresh(cp.age) /\ cp.lastAction = "NORMAL"
            => sinceUnlatched' <= cp.age + MaxLead + Delay + 1
       /\ Fresh(cp.age) /\ cp.mpConfig = "APPLIED" /\ cp.mpGeneration = activeGeneration
            => sinceEnforcing' <= cp.age + MaxLead + Delay + 1
  BY <1>3, <1>5, <1>6 DEF Evidence, CpDated
<1>11. CASE CpRxHeartbeat
  <2>1. /\ cp'.mpConfig = f.config /\ cp'.mpGeneration = f.gen
        /\ cp'.lastAction = f.action /\ cp'.age = 0
    BY <1>6, <1>11 DEF CpRxHeartbeat, CpState
  <2> QED
    BY <1>1, <1>4, <1>5, <1>8, <1>9, <2>1 DEF CpDated
<1>12. CASE CpRxConfigStatus
  <2>1. /\ cp'.mpConfig = f.config /\ cp'.mpGeneration = f.gen
        /\ cp'.lastAction = cp.lastAction /\ cp'.age = cp.age
    BY <1>6, <1>12 DEF CpRxConfigStatus, CpState
  <2> QED
    BY <1>1, <1>4, <1>5, <1>6, <1>8, <1>9, <1>10, <2>1 DEF CpDated
<1>13. CASE CpRxSafety
  <2>1. /\ cp'.mpConfig = cp.mpConfig /\ cp'.mpGeneration = cp.mpGeneration
        /\ cp'.lastAction = f.action /\ cp'.age = cp.age
    BY <1>6, <1>13 DEF CpRxSafety, CpState
  <2> QED
    BY <1>1, <1>4, <1>5, <1>6, <1>8, <1>9, <1>10, <2>1 DEF CpDated
<1> QED
  BY <1>11, <1>12, <1>13 DEF CpReceives

\* Every action leaves the counters alone or restarts them, CP's step lets them
\* grow by one.
LEMMA CountersStep ==
  ASSUME NumChunksAssumption, BoundsAssumption, FreshnessAssumption,
         IInv, Evidence, FreshNext
  PROVE  /\ Counts'
         /\ CpStep => Ages(1)
         /\ ~CpStep => Ages(0) /\ Next /\ Observe(sinceUnlatched, sinceEnforcing)
<1>1. sinceUnlatched \in Nat /\ sinceEnforcing \in Nat /\ MaxStale \in Nat
  BY DEF Evidence, Counts, FreshnessAssumption
<1>2. \A n \in Nat : Count(n) \in Nat /\ Count(n) <= n + 1
  BY <1>1 DEF Count
<1>3. CASE CpStep
  <2>1. Observe(Count(sinceUnlatched), Count(sinceEnforcing)) /\ activeGeneration' = activeGeneration
    BY <1>3 DEF FreshNext, CpStep
  <2> QED
    BY <1>1, <1>2, <1>3, <2>1 DEF Observe, Counts, Ages
<1>4. CASE ~CpStep
  <2>1. Next /\ Observe(sinceUnlatched, sinceEnforcing)
    BY <1>4 DEF FreshNext
  <2>2. activeGeneration' = activeGeneration \/ activeGeneration' = activeGeneration + 1
    BY <1>4, <2>1, CpReceivesType, MpReceivesType
       DEF Next, IInv, EditConfig, MpStep, LoseFrame, CpCrash, CpBoot, MpCrash, MpBoot,
           LatchFault
  <2> QED
    BY <1>1, <1>4, <2>1, <2>2 DEF Observe, Counts, Ages
<1> QED
  BY <1>3, <1>4

\* The queues stay dated in a step that only takes reports out of them, if lead and
\* delay make up for the growth of the counters.
LEMMA QueuesStep ==
  ASSUME BoundsAssumption, IInv, TypeOK', Evidence, Counts', NEW k \in Nat, Ages(k),
         lead[1] + Delay + lead'[2] + k <= lead'[1] + Delay' + lead[2],
         mpTxQueue' = mpTxQueue \/ mpTxQueue' = << >>,
         \A i \in 1..Len(toCp') : \E j \in 1..Len(toCp) : toCp'[i] = toCp[j]
  PROVE  AllDated(mpTxQueue, Delay)' /\ AllDated(toCp, Delay + 1)'
<1>1. /\ Delay \in Nat /\ Delay + 1 \in Nat /\ lead[1] \in Nat /\ lead[2] \in Nat
      /\ lead'[1] \in Nat /\ lead'[2] \in Nat
  <2>1. lead'[1] \in 0..MaxLead /\ lead'[2] \in 0..MaxLead
    BY DEF TypeOK
  <2> QED
    BY <2>1, Leads DEF IInv
<1>2. Delay' \in Nat
  <2>1. MaxLead \in Nat
    BY DEF BoundsAssumption
  <2>2. \A n \in Nat : (n + 1) * MaxLead \in Nat
    BY <2>1
  <2>3. crashes' \in Nat
    BY DEF TypeOK
  <2> QED
    BY ONLY <2>2, <2>3 DEF Delay
<1> DEFINE Room(d, e) == lead[1] + d + lead'[2] + k <= lead'[1] + e + lead[2]
<1>0. \A e \in Nat : e + 1 \in Nat /\ (Room(Delay, e) => Room(Delay + 1, e + 1))
  <2>1. \A a, b, c, r, n, e \in Nat :
          /\ e + 1 \in Nat
          /\ a + n + b + k <= c + e + r => a + (n + 1) + b + k <= c + (e + 1) + r
    BY ONLY k \in Nat
  <2> QED
    BY <1>1, <2>1
<1> HIDE DEF Room
<1> PICK d \in Nat : d = Delay'
  BY <1>2
<1>3. d + 1 \in Nat /\ Room(Delay, d) /\ Room(Delay + 1, d + 1)
  <2>1. Room(Delay, d)
    BY DEF Room
  <2> QED
    BY <1>0, <2>1
<1> USE DEF Room
<1>4. TypeOK /\ Counts /\ mpTxQueue \in Seq(MpFrame) /\ toCp \in Seq(MpFrame)
      /\ AllDated(mpTxQueue, Delay) /\ AllDated(toCp, Delay + 1)
  BY DEF IInv, TypeOK, Evidence
<1>5. ASSUME NEW t, t = mpTxQueue' PROVE \A i \in 1..Len(t) : Dated(t[i], d)'
  <2>1. \A i \in 1..Len(t) : \E j \in 1..Len(mpTxQueue) : t[i] = mpTxQueue[j]
    BY <1>5, EmptySeq
  <2> QED
    BY <1>1, <1>3, <1>4, <2>1, QueueStaysDated
<1>6. ASSUME NEW t, t = toCp' PROVE \A i \in 1..Len(t) : Dated(t[i], d + 1)'
  <2>1. \A i \in 1..Len(t) : \E j \in 1..Len(toCp) : t[i] = toCp[j]
    BY <1>6
  <2> QED
    BY <1>1, <1>3, <1>4, <2>1, QueueStaysDated
<1> QED
  BY <1>5, <1>6 DEF AllDated

\* What CP knows stays dated while it keeps it, and boots with nothing.
LEMMA KnownStaysDated ==
  ASSUME BoundsAssumption, IInv, TypeOK', Evidence, Counts', Ages(0),
         Delay' \in Nat, Delay <= Delay',
         \/ cp' = cp
         \/ cp' = CpBooted(TRUE) \/ cp' = CpBooted(FALSE)
  PROVE  CpDated'
<1>1. /\ activeGeneration \in Nat /\ activeGeneration' \in Nat /\ MaxLead \in Nat
      /\ Delay \in Nat /\ cp \in CpState /\ cp.age \in Nat /\ cp.mpGeneration \in Nat
  <2>1. activeGeneration \in Nat /\ MaxLead \in Nat /\ Delay \in Nat
    BY Leads DEF IInv
  <2>2. activeGeneration' \in Nat /\ cp \in CpState
    BY DEF IInv, TypeOK, Generation
  <2> QED
    BY <2>1, <2>2 DEF CpState, Generation, Age, BoundsAssumption
<1>2. CASE cp' = cp
  <2>1. /\ sinceUnlatched \in Nat /\ sinceUnlatched' \in Nat
        /\ sinceEnforcing \in Nat /\ sinceEnforcing' \in Nat
        /\ sinceUnlatched' <= sinceUnlatched /\ sinceEnforcing' <= sinceEnforcing
        /\ activeGeneration' = activeGeneration \/ activeGeneration' = activeGeneration + 1
    BY DEF Evidence, Counts, Ages
  <2>2. \A n \in Nat : n <= cp.age + MaxLead + Delay + 1 => n <= cp.age + MaxLead + Delay' + 1
    BY <1>1
  <2>3. /\ cp.mpConfig = "APPLIED" => cp.mpGeneration <= activeGeneration
        /\ Fresh(cp.age) /\ cp.lastAction = "NORMAL"
             => sinceUnlatched <= cp.age + MaxLead + Delay + 1
        /\ Fresh(cp.age) /\ cp.mpConfig = "APPLIED" /\ cp.mpGeneration = activeGeneration
             => sinceEnforcing <= cp.age + MaxLead + Delay + 1
    BY DEF Evidence, CpDated
  <2>4. cp.mpConfig = "APPLIED" =>
          /\ cp.mpGeneration <= activeGeneration'
          /\ cp.mpGeneration = activeGeneration' => cp.mpGeneration = activeGeneration
    BY <1>1, <2>1, <2>3
  <2>5. Fresh(cp.age) /\ cp.lastAction = "NORMAL"
          => sinceUnlatched' <= cp.age + MaxLead + Delay' + 1
    <3>1. \A n, m \in Nat : n <= cp.age + MaxLead + Delay + 1 /\ m <= n
            => m <= cp.age + MaxLead + Delay' + 1
      BY <1>1
    <3> QED
      BY <2>1, <2>3, <3>1
  <2>6. Fresh(cp.age) /\ cp.mpConfig = "APPLIED" /\ cp.mpGeneration = activeGeneration'
          => sinceEnforcing' <= cp.age + MaxLead + Delay' + 1
    <3>1. \A n, m \in Nat : n <= cp.age + MaxLead + Delay + 1 /\ m <= n
            => m <= cp.age + MaxLead + Delay' + 1
      BY <1>1
    <3> QED
      BY <2>1, <2>3, <2>4, <3>1
  <2> QED
    BY <1>2, <2>4, <2>5, <2>6 DEF CpDated
<1>3. CASE cp' = CpBooted(TRUE) \/ cp' = CpBooted(FALSE)
  <2>1. cp'.age = PeerTimeout + 1 /\ cp'.mpConfig = "EMPTY"
    BY <1>3 DEF CpBooted
  <2>2. ~Fresh(cp'.age)
    BY <2>1 DEF Fresh, BoundsAssumption
  <2> QED
    BY <2>1, <2>2 DEF CpDated
<1> QED
  BY <1>2, <1>3

\* CP's step ages its heartbeat and keeps what the reports said; NORMAL takes a fresh
\* heartbeat, the active generation reported as applied and NORMAL reported.
LEMMA CpStepJudges ==
  ASSUME NumChunksAssumption, BoundsAssumption, TypeOK, NextChunkExists, CpStep
  PROVE  /\ cp'.age = Older(cp.age)
         /\ cp'.mpConfig = cp.mpConfig /\ cp'.mpGeneration = cp.mpGeneration
         /\ cp'.lastAction = cp.lastAction
         /\ cp'.safetyAction = "NORMAL" =>
              /\ Fresh(cp'.age) /\ cp'.lastAction = "NORMAL"
              /\ cp'.mpConfig = "APPLIED" /\ cp'.mpGeneration = activeGeneration
<1> DEFINE o == [cp EXCEPT !.age = Older(@)]
           c == RestartTransfer(o)
           Same(x, y) == /\ x.age = y.age /\ x.mpConfig = y.mpConfig
                         /\ x.mpGeneration = y.mpGeneration /\ x.lastAction = y.lastAction
<1>1. /\ o \in CpState /\ NumChunks \in Nat \ {0} /\ activeGeneration \in Generation
      /\ o.tx = "BEGIN" => o.nextChunk = 0
      /\ o.tx = "CHUNKS" => o.nextChunk \in Chunk
      /\ o.age = Older(cp.age) /\ o.mpConfig = cp.mpConfig
      /\ o.mpGeneration = cp.mpGeneration /\ o.lastAction = cp.lastAction
  <2>1. Older(cp.age) \in Age /\ cp \in CpState
    BY OlderType DEF TypeOK, CpState, BoundsAssumption
  <2> QED
    BY <2>1 DEF TypeOK, CpState, NextChunkExists, NumChunksAssumption
<1>2. cp' = [AdvanceTransfer(c) EXCEPT !.safetyAction = EffectiveSafetyAction(c)]
  BY DEF CpStep
<1> HIDE DEF o
<1>3. c \in CpState /\ c.configGeneration = activeGeneration
  BY <1>1, RestartTransferType
<1>4. Same(c, o)
  <2>1. \A e \in CpState : QueueConfigTransfer(e) \in CpState /\ Same(QueueConfigTransfer(e), e)
    <3> TAKE e \in CpState
    <3>1. "BEGIN" \in TxState /\ 0 \in 0..NumChunks
      BY <1>1 DEF TxState
    <3>2. QueueConfigTransfer(e) \in CpState
      BY <1>1, <3>1 DEF QueueConfigTransfer, CpState
    <3> QED
      BY <3>2 DEF QueueConfigTransfer, CpState
  <2> DEFINE changed == IF o.configGeneration # activeGeneration
                        THEN QueueConfigTransfer(o) ELSE o
  <2>2. changed \in CpState /\ Same(changed, o)
    BY <1>1, <2>1
  <2> HIDE DEF changed
  <2>3. c = changed \/ c = QueueConfigTransfer(changed)
    BY DEF RestartTransfer, changed
  <2> QED
    BY <2>1, <2>2, <2>3
<1> HIDE DEF c
<1>5. Same(cp', c) /\ cp'.safetyAction = EffectiveSafetyAction(c)
  <2>1. CASE c.tx = "BEGIN"
    BY <1>2, <1>3, <2>1 DEF AdvanceTransfer, CpState
  <2>2. CASE c.tx = "CHUNKS"
    BY <1>2, <1>3, <2>2 DEF AdvanceTransfer, CpState
  <2>3. CASE c.tx = "COMMIT"
    BY <1>2, <1>3, <2>3 DEF AdvanceTransfer, CpState
  <2>4. CASE c.tx = "IDLE"
    BY <1>2, <1>3, <2>4 DEF AdvanceTransfer, CpState
  <2> QED
    BY <1>3, <2>1, <2>2, <2>3, <2>4 DEF CpState, TxState
<1>6. EffectiveSafetyAction(c) = "NORMAL" =>
        /\ Fresh(c.age) /\ c.lastAction = "NORMAL"
        /\ c.mpConfig = "APPLIED" /\ c.mpGeneration = activeGeneration
  BY <1>3 DEF EffectiveSafetyAction, AuthorityReady, PeerHealthy
<1> QED
  BY <1>1, <1>4, <1>5, <1>6

\* Restarts add to the delay what they may add to CP's lead.
LEMMA DelayStep ==
  ASSUME BoundsAssumption, TypeOK
  PROVE  /\ crashes' = crashes => Delay' = Delay
         /\ crashes' = crashes + 1 => Delay' = Delay + MaxLead
<1>1. crashes \in Nat /\ MaxLead \in Nat
  BY DEF TypeOK, BoundsAssumption
<1>2. \A n \in Nat : (n + 1 + 1) * MaxLead = (n + 1) * MaxLead + MaxLead
  BY <1>1
<1> QED
  BY <1>1, <1>2 DEF Delay

LEMMA CpStepFresh ==
  ASSUME NumChunksAssumption, BoundsAssumption, FreshnessAssumption, StaleBound,
         FreshInv, TypeOK', Counts', Ages(1), CpStep
  PROVE  Evidence' /\ NormalIsFresh'
<1>1. /\ cp'.age = Older(cp.age)
      /\ cp'.mpConfig = cp.mpConfig /\ cp'.mpGeneration = cp.mpGeneration
      /\ cp'.lastAction = cp.lastAction
      /\ cp'.safetyAction = "NORMAL" =>
           /\ Fresh(cp'.age) /\ cp'.lastAction = "NORMAL"
           /\ cp'.mpConfig = "APPLIED" /\ cp'.mpGeneration = activeGeneration
  BY CpStepJudges DEF FreshInv, IInv
<1>2. /\ UNCHANGED <<activeGeneration, mp, mpTxQueue, toCp, crashes>>
      /\ ~mp.up => toCp = << >>
  BY DEF CpStep, mpVars
<1>3. /\ lead[1] \in Nat /\ lead[1] <= MaxLead /\ lead[2] \in Nat
      /\ MaxLead \in Nat /\ Delay \in Nat /\ Delay' = Delay
      /\ cp.age \in Nat /\ PeerTimeout \in Nat
  <2>1. cp.age \in Nat /\ PeerTimeout \in Nat
    BY DEF FreshInv, IInv, TypeOK, CpState, Age, BoundsAssumption
  <2> QED
    BY <1>2, <2>1, Leads, DelayStep DEF FreshInv, IInv
<1>4. AllDated(mpTxQueue, Delay)' /\ AllDated(toCp, Delay + 1)'
  <2>1. CASE mp.up
    <3>1. lead[1] + Delay + lead'[2] + 1 <= lead'[1] + Delay' + lead[2]
      <4>1. \/ lead[2] > 0 /\ lead'[1] = 0 /\ lead'[2] = lead[2] - 1
            \/ ~(lead[2] > 0) /\ lead'[1] = lead[1] + 1 /\ lead'[2] = 0
        BY <2>1 DEF CpStep
      <4>2. lead[2] > 0 => lead[1] = 0
        BY DEF FreshInv, Evidence
      <4> QED
        BY <1>3, <4>1, <4>2
    <3> QED
      BY <1>2, <3>1, QueuesStep DEF FreshInv
  <2>2. CASE ~mp.up
    <3>1. mpTxQueue' = << >> /\ toCp' = << >>
      BY <1>2, <2>2 DEF FreshInv, Evidence
    <3> QED
      BY <3>1, EmptySeq DEF AllDated
  <2> QED
    BY <2>1, <2>2
<1>5. CpDated'
  <2>1. /\ sinceUnlatched \in Nat /\ sinceUnlatched' \in Nat
        /\ sinceEnforcing \in Nat /\ sinceEnforcing' \in Nat
        /\ sinceUnlatched' <= sinceUnlatched + 1 /\ sinceEnforcing' <= sinceEnforcing + 1
    BY DEF FreshInv, Evidence, Counts, Ages
  <2>2. Fresh(cp'.age) => Fresh(cp.age) /\ cp'.age = cp.age + 1
    BY <1>1, <1>3 DEF Fresh, Older
  <2>3. \A n, m \in Nat : n <= cp.age + MaxLead + Delay + 1 /\ m <= n + 1
          => m <= (cp.age + 1) + MaxLead + Delay + 1
    BY <1>3
  <2> QED
    BY <1>1, <1>2, <1>3, <2>1, <2>2, <2>3 DEF FreshInv, Evidence, CpDated
<1>6. NormalIsFresh'
  <2> SUFFICES ASSUME cp'.safetyAction = "NORMAL"
               PROVE  sinceUnlatched' <= MaxStale /\ sinceEnforcing' <= MaxStale
    BY DEF NormalIsFresh
  <2> DEFINE n == cp'.age + MaxLead + Delay' + 1
  <2>1. sinceUnlatched' <= n /\ sinceEnforcing' <= n
    BY <1>1, <1>2, <1>5 DEF CpDated
  <2>2. n <= MaxStale /\ n \in Nat /\ MaxStale \in Nat
    <3>1. cp'.age \in Nat /\ cp'.age <= PeerTimeout
      BY <1>1, <1>3 DEF Fresh, Older
    <3>2. Delay <= (MaxCrashes + 1) * MaxLead
      <4>1. crashes \in Nat /\ MaxCrashes \in Nat /\ crashes <= MaxCrashes
        BY DEF FreshInv, IInv, TypeOK, BoundsAssumption
      <4> QED
        BY <1>3, <4>1 DEF Delay
    <3>3. (MaxCrashes + 2) * MaxLead = (MaxCrashes + 1) * MaxLead + MaxLead
          /\ (MaxCrashes + 1) * MaxLead \in Nat
      BY <1>3 DEF BoundsAssumption
    <3>4. MaxStale \in Nat /\ PeerTimeout + (MaxCrashes + 2) * MaxLead + 1 <= MaxStale
      BY DEF StaleBound, FreshnessAssumption
    <3>5. \A a, b, d \in Nat : a <= PeerTimeout /\ d <= b /\ PeerTimeout + (b + MaxLead) + 1 <= MaxStale
            => a + MaxLead + d + 1 <= MaxStale
      BY <1>3, <3>4
    <3> QED
      BY <1>3, <3>1, <3>2, <3>3, <3>4, <3>5
  <2>3. sinceUnlatched' \in Nat /\ sinceEnforcing' \in Nat
    BY DEF Counts
  <2> HIDE DEF n
  <2> QED
    BY <2>1, <2>2, <2>3
<1>7. lead'[2] > 0 => lead'[1] = 0
  BY <1>3 DEF CpStep
<1> QED
  BY <1>2, <1>4, <1>5, <1>6, <1>7 DEF FreshInv, Evidence

\* In every other step nothing ages, and CP judges nothing.
LEMMA OtherStepFresh ==
  ASSUME NumChunksAssumption, BoundsAssumption, FreshnessAssumption,
         FreshInv, TypeOK', Counts', Ages(0),
         Next, ~CpStep, Observe(sinceUnlatched, sinceEnforcing)
  PROVE  Evidence' /\ NormalIsFresh'
<1>1. /\ lead[1] \in Nat /\ lead[1] <= MaxLead /\ lead[2] \in Nat
      /\ MaxLead \in Nat /\ Delay \in Nat /\ Delay + MaxLead \in Nat /\ cp \in CpState
      /\ toCp \in Seq(MpFrame)
      /\ crashes' = crashes => Delay' = Delay
      /\ crashes' = crashes + 1 => Delay' = Delay + MaxLead
  <2>1. /\ lead[1] \in Nat /\ lead[1] <= MaxLead /\ lead[2] \in Nat
        /\ MaxLead \in Nat /\ Delay \in Nat
        /\ crashes' = crashes => Delay' = Delay
        /\ crashes' = crashes + 1 => Delay' = Delay + MaxLead
    BY Leads, DelayStep DEF FreshInv, IInv
  <2> QED
    BY <2>1 DEF FreshInv, IInv, TypeOK
<1>2. ASSUME cp'.safetyAction = cp.safetyAction \/ cp'.safetyAction = "FLASH"
      PROVE  NormalIsFresh'
  <2>1. /\ sinceUnlatched \in Nat /\ sinceUnlatched' \in Nat
        /\ sinceEnforcing \in Nat /\ sinceEnforcing' \in Nat
        /\ sinceUnlatched' <= sinceUnlatched /\ sinceEnforcing' <= sinceEnforcing
    BY DEF FreshInv, Evidence, Counts, Ages
  <2>2. Observe(sinceUnlatched, sinceEnforcing)
    OBVIOUS
  <2>3. /\ sinceUnlatched' = 0 \/ sinceUnlatched' = sinceUnlatched
        /\ sinceEnforcing' = 0 \/ sinceEnforcing' = sinceEnforcing
    BY <2>2 DEF Observe
  <2>4. MaxStale \in Nat
    BY DEF FreshnessAssumption
  <2> QED
    BY <1>2, <2>1, <2>3, <2>4 DEF FreshInv, NormalIsFresh
<1>3. CASE CpReceives
  <2>1. /\ UNCHANGED <<lead, crashes, mp, mpTxQueue>> /\ toCp # << >> /\ toCp' = Tail(toCp)
    BY <1>3 DEF CpReceives, CpRxHeartbeat, CpRxConfigStatus, CpRxSafety, CpRx, mpVars, envVars
  <2>2. CpDated'
    BY <1>3, ReceivedDated DEF FreshInv
  <2>3. \A i \in 1..Len(toCp') : \E j \in 1..Len(toCp) : toCp'[i] = toCp[j]
    <3>1. Len(toCp) \in Nat /\ Len(Tail(toCp)) = Len(toCp) - 1
          /\ \A i \in 1..Len(toCp) - 1 : Tail(toCp)[i] = toCp[i + 1]
      BY <1>1, <2>1, HeadTailProperties, LenProperties
    <3>2. \A i \in 1..Len(toCp) - 1 : i + 1 \in 1..Len(toCp)
      BY <3>1
    <3> QED
      BY <2>1, <3>1, <3>2
  <2>4. lead[1] + Delay + lead'[2] + 0 <= lead'[1] + Delay' + lead[2]
    BY <1>1, <2>1
  <2>5. AllDated(mpTxQueue, Delay)' /\ AllDated(toCp, Delay + 1)'
    BY <2>1, <2>3, <2>4, QueuesStep DEF FreshInv
  <2>6. cp'.safetyAction = cp.safetyAction
    BY <1>1, <1>3 DEF CpReceives, CpRxHeartbeat, CpRxConfigStatus, CpRxSafety, CpState
  <2> QED
    BY <1>2, <2>1, <2>2, <2>5, <2>6 DEF FreshInv, Evidence
<1>4. CASE MpStep
  <2>1. UNCHANGED <<activeGeneration, cp, crashes>> /\ mp.up /\ mp'.up
    BY <1>4 DEF MpStep, cpVars, FreshInv, IInv, TypeOK, MpState
  <2>2. Delay' = Delay
    BY <1>1, <2>1
  <2>3. CpDated'
    <3>1. Delay' \in Nat /\ Delay <= Delay'
      BY <1>1, <2>2
    <3> QED
      BY <2>1, <3>1, KnownStaysDated DEF FreshInv
  <2>4. AllDated(mpTxQueue, Delay)'
    BY <1>4, ReportsDated DEF FreshInv, Evidence
  <2>5. AllDated(toCp, Delay + 1)'
    <3>1. CASE cp.up
      <4>1. \/ lead[1] > 0 /\ lead'[1] = lead[1] - 1 /\ lead'[2] = 0
            \/ ~(lead[1] > 0) /\ lead'[1] = 0 /\ lead'[2] = lead[2] + 1
        BY <1>4, <3>1 DEF MpStep
      <4>2. lead[2] > 0 => lead[1] = 0
        BY DEF FreshInv, Evidence
      <4>3. toCp' = mpTxQueue
        BY <1>4, <3>1 DEF MpStep
      <4>4. lead[1] + Delay + lead'[2] + 0 <= lead'[1] + (Delay + 1) + lead[2]
        <5> DEFINE a == lead[1]
                   b == lead[2]
                   x == lead'[1]
                   y == lead'[2]
                   d == Delay
        <5>1. /\ a \in Nat /\ b \in Nat /\ d \in Nat
              /\ \/ a > 0 /\ x = a - 1 /\ y = 0
                 \/ ~(a > 0) /\ x = 0 /\ y = b + 1
          BY <1>1, <4>1
        <5> HIDE DEF a, b, x, y, d
        <5>2. a + d + y + 0 <= x + (d + 1) + b
          BY <5>1
        <5> QED
          BY <5>2 DEF a, b, x, y, d
      <4>5. ASSUME NEW s, s = mpTxQueue, NEW e, e = Delay + 1
            PROVE  \A i \in 1..Len(s) : Dated(s[i], e)'
        <5>1. /\ TypeOK /\ Counts /\ s \in Seq(MpFrame) /\ e \in Nat /\ Delay \in Nat
              /\ \A i \in 1..Len(s) : \E j \in 1..Len(s) : s[i] = s[j]
              /\ AllDated(s, Delay)
          <6>1. s \in Seq(MpFrame) /\ TypeOK /\ Counts /\ AllDated(s, Delay)
            BY <4>5 DEF FreshInv, IInv, TypeOK, Evidence
          <6>2. e \in Nat /\ Delay \in Nat
            BY <1>1, <4>5
          <6> QED
            BY <6>1, <6>2
        <5>2. lead[1] + Delay + lead'[2] + 0 <= lead'[1] + e + lead[2]
          BY <4>4, <4>5
        <5> QED
          BY <5>1, <5>2, QueueStaysDated
      <4> QED
        BY <2>2, <4>3, <4>5 DEF AllDated
    <3>2. CASE ~cp.up
      BY <1>4, <3>2, EmptySeq DEF MpStep, AllDated
    <3> QED
      BY <3>1, <3>2
  <2>6. lead'[2] > 0 => lead'[1] = 0
    BY <1>1, <1>4 DEF MpStep
  <2> QED
    BY <1>2, <2>1, <2>3, <2>4, <2>5, <2>6 DEF FreshInv, Evidence
<1>5. CASE CpCrash \/ MpCrash
  <2>1. /\ crashes' = crashes + 1 /\ lead' = <<0, 0>>
        /\ toCp' = toCp \/ toCp' = << >>
        /\ (mpTxQueue' = mpTxQueue /\ mp' = mp) \/ mpTxQueue' = << >>
        /\ cp' = cp \/ cp' = CpBooted(FALSE)
    BY <1>5 DEF CpCrash, MpCrash, cpVars, mpVars
  <2>2. Delay' = Delay + MaxLead
    BY <1>1, <2>1
  <2>3. CpDated'
    <3>1. Delay' \in Nat /\ Delay <= Delay'
      BY <1>1, <2>2
    <3> QED
      BY <2>1, <3>1, KnownStaysDated DEF FreshInv
  <2>4. lead[1] + Delay + lead'[2] + 0 <= lead'[1] + Delay' + lead[2]
    <3>1. lead'[1] = 0 /\ lead'[2] = 0
      BY <2>1
    <3> QED
      BY <1>1, <2>2, <3>1
  <2>5. \A i \in 1..Len(toCp') : \E j \in 1..Len(toCp) : toCp'[i] = toCp[j]
    BY <2>1, EmptySeq
  <2>6. AllDated(mpTxQueue, Delay)' /\ AllDated(toCp, Delay + 1)'
    BY <2>1, <2>4, <2>5, QueuesStep DEF FreshInv
  <2>7. cp'.safetyAction = cp.safetyAction \/ cp'.safetyAction = "FLASH"
    BY <2>1 DEF CpBooted
  <2> QED
    BY <1>2, <2>1, <2>3, <2>6, <2>7 DEF FreshInv, Evidence
<1>6. CASE EditConfig \/ MpReceives \/ LoseFrame \/ CpBoot \/ MpBoot
           \/ \E action \in FaultActions : LatchFault(action)
  <2>1. UNCHANGED <<lead, crashes, mpTxQueue>> /\ (mp'.up \/ mp'.up = mp.up)
    <3>1. CASE MpReceives
      <4>1. mp \in MpState
        BY DEF FreshInv, IInv, TypeOK
      <4>2. UNCHANGED <<lead, crashes, mpTxQueue>>
        BY <3>1, MpReceivesType DEF envVars, FreshInv, IInv
      <4>3. mp.up
        BY <3>1 DEF MpReceives, MpRxHeartbeat, MpRxConfigBegin, MpRxConfigChunk,
                    MpRxConfigCommit, MpRx
      <4>4. mp'.up = mp.up
        BY <3>1, <4>1 DEF MpReceives, MpRxHeartbeat, MpRxConfigBegin, MpRxConfigChunk,
                    MpRxConfigCommit, ResetLoadingState, MpState
      <4> QED
        BY <4>2, <4>4
    <3>2. CASE EditConfig \/ LoseFrame \/ CpBoot
      BY <3>2 DEF EditConfig, LoseFrame, CpBoot, mpVars, envVars
    <3>3. CASE MpBoot
      BY <3>3 DEF MpBoot, envVars, MpBooted
    <3>4. CASE \E action \in FaultActions : LatchFault(action)
      BY <3>4 DEF LatchFault, envVars
    <3> QED
      BY <1>6, <3>1, <3>2, <3>3, <3>4
  <2>2. cp' = cp \/ cp' = CpBooted(TRUE)
    BY <1>6, MpReceivesType DEF EditConfig, LoseFrame, CpBoot, MpBoot, LatchFault, cpVars,
       FreshInv, IInv
  <2>3. \A i \in 1..Len(toCp') : \E j \in 1..Len(toCp) : toCp'[i] = toCp[j]
    <3>1. CASE LoseFrame /\ toCp' # toCp
      <4>1. PICK k \in DOMAIN toCp : toCp' = RemoveAt(toCp, k)
        BY <3>1 DEF LoseFrame
      <4>2. /\ k \in 1..Len(toCp) /\ Len(toCp) \in Nat
            /\ Len(toCp') = Len(toCp) - 1
            /\ \A i \in 1..Len(toCp) - 1 :
                 toCp'[i] = IF i < k THEN toCp[i] ELSE toCp[i + 1]
        BY <1>1, <4>1, RemoveAtProperties, LenProperties
      <4> QED
        BY <4>2
    <3>2. CASE toCp' = toCp
      BY <3>2
    <3> QED
      BY <1>6, <3>1, <3>2, MpReceivesType DEF EditConfig, LoseFrame, CpBoot, MpBoot, LatchFault,
         FreshInv, IInv
  <2>4. Delay' = Delay
    BY <1>1, <2>1
  <2>5. CpDated'
    <3>1. Delay' \in Nat /\ Delay <= Delay'
      BY <1>1, <2>4
    <3> QED
      BY <2>2, <3>1, KnownStaysDated DEF FreshInv
  <2>6. lead[1] + Delay + lead'[2] + 0 <= lead'[1] + Delay' + lead[2]
    BY <1>1, <2>1, <2>4
  <2>7. AllDated(mpTxQueue, Delay)' /\ AllDated(toCp, Delay + 1)'
    BY <2>1, <2>3, <2>6, QueuesStep DEF FreshInv
  <2>8. cp'.safetyAction = cp.safetyAction \/ cp'.safetyAction = "FLASH"
    BY <2>2 DEF CpBooted
  <2> QED
    BY <1>2, <2>1, <2>5, <2>7, <2>8 DEF FreshInv, Evidence
<1> QED
  BY <1>3, <1>4, <1>5, <1>6 DEF Next

\* CP's NORMAL rests on evidence no older than the timeout, the leads and what the
\* restarts add to them: the timeout alone does not bound it, since the age of a
\* heartbeat is counted from its arrival (CpMpLinkServicePeerHealthy).
THEOREM EvidenceIsFresh ==
  ASSUME StaleBound PROVE FreshSpec => []NormalIsFresh
<1> DEFINE freshVars == <<vars, sinceUnlatched, sinceEnforcing>>
<1>1. FreshInit => FreshInv
  <2> SUFFICES ASSUME FreshInit PROVE FreshInv
    OBVIOUS
  <2>1. IInv
    BY Initially, NumChunksAssumption, BoundsAssumption DEF FreshInit
  <2>2. /\ sinceUnlatched \in Nat /\ sinceEnforcing \in Nat
        /\ lead[2] = 0 /\ mpTxQueue = << >> /\ toCp = << >> /\ cp = CpBooted(TRUE)
    BY FreshnessAssumption DEF FreshInit, Init, FreshnessAssumption
  <2>3. ~Fresh(cp.age) /\ cp.mpConfig = "EMPTY" /\ cp.safetyAction = "FLASH"
    BY <2>2, BoundsAssumption DEF CpBooted, Fresh, BoundsAssumption
  <2>4. ~(lead[2] > 0) /\ AllDated(mpTxQueue, Delay) /\ AllDated(toCp, Delay + 1)
    BY <2>2, EmptySeq DEF AllDated
  <2>5. CpDated /\ NormalIsFresh
    BY <2>3 DEF CpDated, NormalIsFresh
  <2> QED
    BY <2>1, <2>2, <2>4, <2>5 DEF FreshInv, Evidence, Counts
<1>2. FreshInv /\ [FreshNext]_freshVars => FreshInv'
  <2> SUFFICES ASSUME FreshInv, [FreshNext]_freshVars PROVE FreshInv'
    OBVIOUS
  <2>1. CASE FreshNext
    <3>1. [Next]_vars
      BY <2>1 DEF FreshNext, Next
    <3>2. IInv' /\ TypeOK'
      BY <3>1, Inductive, NumChunksAssumption, BoundsAssumption, FaultActionsAssumption
         DEF FreshInv, IInv
    <3>3. /\ Counts'
          /\ CpStep => Ages(1)
          /\ ~CpStep => Ages(0) /\ Next /\ Observe(sinceUnlatched, sinceEnforcing)
      BY <2>1, CountersStep, NumChunksAssumption, BoundsAssumption, FreshnessAssumption
         DEF FreshInv
    <3>4. CASE CpStep
      BY <3>2, <3>3, <3>4, CpStepFresh, NumChunksAssumption, BoundsAssumption,
         FreshnessAssumption DEF FreshInv
    <3>5. CASE ~CpStep
      BY <3>2, <3>3, <3>5, OtherStepFresh, NumChunksAssumption, BoundsAssumption,
         FreshnessAssumption DEF FreshInv
    <3> QED
      BY <3>4, <3>5
  <2>2. CASE UNCHANGED freshVars
    <3>1. [Next]_vars
      BY <2>2
    <3>2. IInv'
      BY <3>1, Inductive, NumChunksAssumption, BoundsAssumption, FaultActionsAssumption
         DEF FreshInv
    <3>3. UNCHANGED <<activeGeneration, cp, mp, mpTxQueue, toCp, lead, crashes,
                      sinceUnlatched, sinceEnforcing>>
      BY <2>2 DEF vars, cpVars, mpVars, envVars
    <3> QED
      BY <3>2, <3>3 DEF FreshInv, Evidence, Counts, AllDated, Dated, CpDated, Delay, NormalIsFresh
  <2> QED
    BY <2>1, <2>2
<1>3. FreshInv => NormalIsFresh
  BY DEF FreshInv
<1> QED
  BY <1>1, <1>2, <1>3, PTL DEF FreshSpec

\* The history only watches: what is proved of the link holds also beside it, as in
\* the run that checks both together.
THEOREM HistoryWatchesLink == FreshSpec => Spec
<1>1. FreshInit => Init
  BY DEF FreshInit
<1>2. [FreshNext]_<<vars, sinceUnlatched, sinceEnforcing>> => [Next]_vars
  BY DEF FreshNext, Next
<1> QED
  BY <1>1, <1>2, PTL DEF FreshSpec, Spec

=============================================================================
