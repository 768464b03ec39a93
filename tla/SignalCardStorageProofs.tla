----------------------- MODULE SignalCardStorageProofs -----------------------
(***************************************************************************)
(* The journal of a signal card: whatever the number of patterns, failures *)
(* and power losses and whatever the width of the sequence number, a saved *)
(* pattern replaces the old one at once, and the card knows which it is.   *)
(***************************************************************************)
EXTENDS SignalCardStorage, TLAPS

\* A queued request is the one its client waits for.
AskedFor(o) ==
  /\ flag[o.from] = "none"
  /\ \/ o.op = "read" /\ o.slot = 0 /\ pc[o.from] = "read"
     \/ o.op = "read" /\ o.slot = 1 /\ pc[o.from] = "readNext"
     \/ /\ o.op = "write" /\ o.from = "parser" /\ pc["parser"] = "write"
        /\ o.slot = TargetSlot(records["parser"])

QueueMatches ==
  ~late => \A i \in 1..Len(queue) :
             /\ AskedFor(queue[i])
             /\ \A j \in 1..Len(queue) : i # j => queue[i].from # queue[j].from

\* Only a card that knows its pattern saves, and it boots once.
SavesWhenKnown ==
  /\ ~known => pc["parser"] \in {"idle", "snapshot", "compare"}
  /\ ~known => \A i \in 1..Len(queue) : queue[i].op = "read"
  /\ known => pc["boot"] = "done"
  /\ erased => Len(queue) > 0 /\ queue[1].op = "write"
  /\ pc["boot"] \in {"ask", "read", "askNext", "readNext", "select", "loaded", "done"}
  /\ pc["parser"] \notin {"loaded", "done"}

\* What a client has read is what the pages hold.
ReadsHold(c) ==
  /\ pc[c] = "read" /\ flag[c] # "none" => flag[c] = "ok" /\ records[c][0] = slots[0]
  /\ pc[c] \in {"askNext", "readNext", "select"} => records[c][0] = slots[0]
  /\ pc[c] = "readNext" /\ flag[c] # "none" => flag[c] = "ok" /\ records[c][1] = slots[1]
  /\ pc[c] = "select" => records[c][1] = slots[1]

\* How far a save has come, told from its answer.
Kept == records["parser"]
WriteHolds ==
  pc["parser"] = "write" =>
    /\ newRecord = RecordBuild(NextSequence(Kept), newCfg)
    /\ flag["parser"] = "none" =>
         slots = IF erased THEN [Kept EXCEPT ![TargetSlot(Kept)] = Blank] ELSE Kept
    /\ flag["parser"] = "ok" => slots = [Kept EXCEPT ![TargetSlot(Kept)] = newRecord]
    /\ flag["parser"] = "error" => slots \in {Kept, [Kept EXCEPT ![TargetSlot(Kept)] = Blank]}

SavedHolds ==
  /\ known => (IF pc["parser"] = "write" THEN StoredIn(Kept) ELSE StoredPattern) = {lastSaved}
  /\ pc["boot"] = "loaded" => StoredPattern = {loaded}

InTime == ReadsHold("boot") /\ ReadsHold("parser") /\ WriteHolds /\ SavedHolds

IInv == TypeOK /\ SavesWhenKnown /\ QueueMatches /\ (~late => InTime)

-----------------------------------------------------------------------------
(* The journal *)

\* The sequence number after s is newer than s, and s is not newer than it,
\* also where the numbers wrap (SelectLatest compares differences modulo 2^32).
LEMMA Successor ==
  ASSUME NEW s \in 0..(SeqMod - 1), NEW a, NEW b,
         a.sequence = s, b.sequence = (s + 1) % SeqMod
  PROVE  Newer(b, a) /\ ~Newer(a, b)
<1>1. SeqMod \in Nat /\ SeqMod >= 4
  BY StorageAssumption
<1>2. 1 < SeqMod \div 2 /\ ~(SeqMod - 1 < SeqMod \div 2)
  BY <1>1
<1>3. CASE s = SeqMod - 1
  <2>1. (s + 1) % SeqMod = 0
    BY <1>1, <1>3
  <2>2. (0 + SeqMod - s) % SeqMod = 1 /\ (s + SeqMod - 0) % SeqMod = SeqMod - 1
    <3>1. 0 + SeqMod - s = 1 /\ 1 % SeqMod = 1
      BY <1>1, <1>3
    <3>2. s + SeqMod - 0 = SeqMod + (SeqMod - 1) /\ (SeqMod + (SeqMod - 1)) % SeqMod = SeqMod - 1
      BY <1>1, <1>3
    <3> QED BY <3>1, <3>2
  <2> QED BY <1>2, <2>1, <2>2 DEF Newer
<1>4. CASE s # SeqMod - 1
  <2>1. (s + 1) % SeqMod = s + 1
    BY <1>1, <1>4
  <2>2. ((s + 1) + SeqMod - s) % SeqMod = 1 /\ (s + SeqMod - (s + 1)) % SeqMod = SeqMod - 1
    <3>1. (s + 1) + SeqMod - s = SeqMod + 1 /\ (SeqMod + 1) % SeqMod = 1
      BY <1>1
    <3>2. s + SeqMod - (s + 1) = SeqMod - 1 /\ (SeqMod - 1) % SeqMod = SeqMod - 1
      BY <1>1
    <3> QED BY <3>1, <3>2
  <2> QED BY <1>2, <2>1, <2>2 DEF Newer
<1> QED BY <1>3, <1>4

\* Which record is chosen, which slot is written next and with which number.
LEMMA Choice ==
  ASSUME NEW r \in [Slot -> Record]
  PROVE  /\ SelectLatest(r) \in 0..2 /\ TargetSlot(r) \in Slot
         /\ SelectLatest(r) # NoSlot => SelectLatest(r) \in Slot /\ r[SelectLatest(r)].valid
         /\ NextSequence(r) \in 0..(SeqMod - 1)
BY StorageAssumption DEF SelectLatest, TargetSlot, NextSequence, Slot, NoSlot, Record

\* Erasing the target leaves the pattern a boot would load.
LEMMA Erasing ==
  ASSUME NEW r \in [Slot -> Record]
  PROVE  StoredIn([r EXCEPT ![TargetSlot(r)] = Blank]) = StoredIn(r)
BY DEF StoredIn, SelectLatest, TargetSlot, Slot, NoSlot, Record, Blank

\* Programming it replaces that pattern.
LEMMA Programming ==
  ASSUME NEW r \in [Slot -> Record], NEW p \in Patterns
  PROVE  StoredIn([r EXCEPT ![TargetSlot(r)] = RecordBuild(NextSequence(r), p)]) = {p}
<1> DEFINE new == RecordBuild(NextSequence(r), p)
           after == [r EXCEPT ![TargetSlot(r)] = new]
<1>1. new.valid /\ new.pattern = p /\ new.sequence = NextSequence(r)
  BY DEF RecordBuild
<1>2. SelectLatest(r) \in Slot => Newer(new, r[SelectLatest(r)]) /\ ~Newer(r[SelectLatest(r)], new)
  <2> HAVE SelectLatest(r) \in Slot
  <2>1. r[SelectLatest(r)].sequence \in 0..(SeqMod - 1)
    BY DEF Record
  <2>2. new.sequence = (r[SelectLatest(r)].sequence + 1) % SeqMod
    BY <1>1 DEF NextSequence, Slot, NoSlot
  <2> QED BY <2>1, <2>2, Successor
<1> HIDE DEF new
<1>3. SelectLatest(after) = TargetSlot(r) /\ after[TargetSlot(r)] = new
  BY <1>1, <1>2 DEF SelectLatest, TargetSlot, Slot, NoSlot, Record
<1>4. TargetSlot(r) # NoSlot
  BY DEF TargetSlot, NoSlot
<1> QED BY <1>1, <1>3, <1>4 DEF StoredIn, new

-----------------------------------------------------------------------------
(* Types, and who saves when *)

\* A card starts with a journal that is blank or was written before.
LEMMA InitHolds == Init => IInv
<1> SUFFICES ASSUME Init PROVE IInv
  OBVIOUS
<1>1. Blank \in Record /\ \A p \in Patterns : RecordBuild(SeqMod - 1, p) \in Record
  BY StorageAssumption DEF Blank, Record, RecordBuild
<1>2. TypeOK
  <2>1. slots \in [Slot -> Record]
    BY <1>1 DEF Init
  <2>2. queue \in Seq(Operation) /\ changes \in 0..MaxChanges /\ faults \in 0..MaxFaults
    BY StorageAssumption DEF Init
  <2> QED BY <1>1, <2>1, <2>2, StorageAssumption DEF Init, TypeOK, Client
<1>3. SavesWhenKnown /\ QueueMatches
  BY DEF Init, SavesWhenKnown, QueueMatches, Client
<1>4. InTime
  BY DEF Init, InTime, ReadsHold, WriteHolds, SavedHolds, Client
<1> QED BY <1>2, <1>3, <1>4 DEF IInv

\* The first request of the queue, and what is left when it is answered.
LEMMA QueueFacts ==
  ASSUME TypeOK, Len(queue) > 0
  PROVE  /\ Head(queue) = queue[1] /\ Head(queue) \in Operation
         /\ Tail(queue) \in Seq(Operation) /\ Len(Tail(queue)) = Len(queue) - 1
         /\ \A i \in 1..Len(Tail(queue)) : Tail(queue)[i] = queue[i + 1]
BY DEF TypeOK

\* What asking, returning and answering do to the queue and the flags.
LEMMA RequestTypes ==
  ASSUME TypeOK, NEW c \in Client, NEW op \in {"read", "write"}, NEW s \in Slot,
         Request(c, op, s)
  PROVE  /\ queue' \in Seq(Operation)
         /\ flag' \in [Client -> {"none", "ok", "error"}]
         /\ Len(queue') = Len(queue) + 1
         /\ queue'[Len(queue) + 1] = [from |-> c, op |-> op, slot |-> s]
         /\ \A i \in 1..Len(queue) : queue'[i] = queue[i]
         /\ erased' = erased /\ late' = late /\ faults' = faults
<1>1. [from |-> c, op |-> op, slot |-> s] \in Operation
  BY DEF Operation
<1> QED BY <1>1 DEF Request, TypeOK

LEMMA ReturnsTypes ==
  ASSUME TypeOK, NEW c \in Client, NEW ok \in BOOLEAN, Returns(c, ok)
  PROVE  /\ flag' \in [Client -> {"none", "ok", "error"}]
         /\ late' \in BOOLEAN /\ faults' \in 0..MaxFaults
         /\ queue' = queue /\ erased' = erased
         /\ ~late' => late' = late /\ flag[c] = IF ok THEN "ok" ELSE "error"
         /\ late => late'
<1>1. flag' = [flag EXCEPT ![c] = "none"] /\ queue' = queue /\ erased' = erased
  BY DEF Returns
<1>2. flag' \in [Client -> {"none", "ok", "error"}]
  BY <1>1 DEF TypeOK
<1>3. CASE flag[c] = (IF ok THEN "ok" ELSE "error") /\ UNCHANGED <<late, faults>>
  BY <1>1, <1>2, <1>3 DEF TypeOK
<1>4. CASE flag[c] = "none" /\ faults < MaxFaults /\ late' = TRUE /\ faults' = faults + 1
  <2>1. faults' \in 0..MaxFaults
    BY <1>4, StorageAssumption DEF TypeOK
  <2> QED BY <1>1, <1>2, <1>4, <2>1
<1> QED BY <1>3, <1>4 DEF Returns

LEMMA AnswerTypes ==
  ASSUME TypeOK, Len(queue) > 0, NEW result \in {"ok", "error"}, Answer(result)
  PROVE  /\ flag' \in [Client -> {"none", "ok", "error"}]
         /\ queue' \in Seq(Operation) /\ erased' = FALSE
BY QueueFacts DEF Answer, TypeOK

\* The two reads of a client, one by one.
LEMMA AskReadCases ==
  ASSUME NEW c \in Client, AskRead(c)
  PROVE  /\ \/ pc[c] = "ask" /\ Request(c, "read", 0) /\ pc' = [pc EXCEPT ![c] = "read"]
            \/ pc[c] = "askNext" /\ Request(c, "read", 1) /\ pc' = [pc EXCEPT ![c] = "readNext"]
         /\ UNCHANGED <<card, commanded, stack, changes>>
<1>1. PICK s \in 0..1 :
        /\ pc[c] = <<"ask", "askNext">>[s + 1]
        /\ Request(c, "read", s)
        /\ pc' = [pc EXCEPT ![c] = <<"read", "readNext">>[s + 1]]
  BY Zenon DEF AskRead, Goes, Slot
<1>2. CASE s = 0
  BY <1>1, <1>2 DEF AskRead
<1>3. CASE s = 1
  BY <1>1, <1>3 DEF AskRead
<1> QED BY <1>2, <1>3

LEMMA TakeReadCases ==
  ASSUME NEW c \in Client, TakeRead(c)
  PROVE  /\ \E ok \in BOOLEAN, s \in Slot :
              /\ Returns(c, ok)
              /\ records' = IF ok THEN records ELSE [records EXCEPT ![c][s] = Blank]
              /\ \/ s = 0 /\ pc[c] = "read" /\ pc' = [pc EXCEPT ![c] = "askNext"]
                 \/ s = 1 /\ pc[c] = "readNext" /\ pc' = [pc EXCEPT ![c] = "select"]
         /\ UNCHANGED <<card, commanded, newCfg, newRecord, loaded, changes>>
<1>1. PICK s \in 0..1, ok \in BOOLEAN :
        /\ pc[c] = <<"read", "readNext">>[s + 1]
        /\ Returns(c, ok)
        /\ records' = IF ok THEN records ELSE [records EXCEPT ![c][s] = Blank]
        /\ pc' = [pc EXCEPT ![c] = <<"askNext", "select">>[s + 1]]
  BY Zenon DEF TakeRead, Goes, Slot
<1>2. \/ s = 0 /\ pc[c] = "read" /\ pc' = [pc EXCEPT ![c] = "askNext"]
      \/ s = 1 /\ pc[c] = "readNext" /\ pc' = [pc EXCEPT ![c] = "select"]
  <2>1. CASE s = 0
    BY <1>1, <2>1
  <2>2. CASE s = 1
    BY <1>1, <2>2
  <2> QED BY <2>1, <2>2
<1>3. UNCHANGED <<card, commanded, newCfg, newRecord, loaded, changes>>
  BY DEF TakeRead
<1> QED BY <1>1, <1>2, <1>3, Zenon DEF Slot

\* Every action keeps the types.
LEMMA TypeStep ==
  ASSUME TypeOK, SavesWhenKnown, Next
  PROVE  TypeOK'
<1> USE DEF TypeOK
<1>0. Blank \in Record /\ Steady \in Patterns /\ {"parser", "boot"} = Client
  BY StorageAssumption DEF Blank, Record, Client
<1>1. CASE FlashFrame \/ OutputFrame
  BY <1>0, <1>1 DEF FlashFrame, OutputFrame, Goes, card, stack, storage
<1>2. ASSUME NEW c \in Client, AskRead(c) PROVE TypeOK'
  <2>1. UNCHANGED <<card, commanded, stack, changes>>
    BY <1>2, AskReadCases
  <2>2. PICK s \in Slot : Request(c, "read", s) /\ pc' \in {[pc EXCEPT ![c] = "read"], [pc EXCEPT ![c] = "readNext"]}
    BY <1>2, AskReadCases DEF Slot
  <2>3. queue' \in Seq(Operation) /\ flag' \in [Client -> {"none", "ok", "error"}]
        /\ erased' = erased /\ late' = late /\ faults' = faults
    BY <2>2, RequestTypes
  <2> QED BY <2>1, <2>2, <2>3 DEF card, stack
<1>3. ASSUME NEW c \in Client, TakeRead(c) PROVE TypeOK'
  <2>1. PICK ok \in BOOLEAN, s \in Slot :
          /\ Returns(c, ok)
          /\ records' = IF ok THEN records ELSE [records EXCEPT ![c][s] = Blank]
          /\ pc' \in {[pc EXCEPT ![c] = "askNext"], [pc EXCEPT ![c] = "select"]}
    BY <1>3, TakeReadCases
  <2>2. records' \in [Client -> [Slot -> Record]]
    BY <1>0, <2>1
  <2>3. flag' \in [Client -> {"none", "ok", "error"}] /\ late' \in BOOLEAN
        /\ faults' \in 0..MaxFaults /\ queue' = queue /\ erased' = erased
    BY <2>1, ReturnsTypes
  <2>4. UNCHANGED <<card, commanded, newCfg, newRecord, loaded, changes>>
    BY <1>3, TakeReadCases
  <2> QED BY <2>1, <2>2, <2>3, <2>4 DEF card
<1>4. CASE Snapshot
  BY <1>4 DEF Snapshot, Goes, card, storage
<1>5. CASE CompareWithSaved
  <2>1. records' \in [Client -> [Slot -> Record]]
    BY <1>0, <1>5 DEF CompareWithSaved
  <2> QED BY <1>5, <2>1 DEF CompareWithSaved, Goes, card, storage
<1>6. CASE BuildAndWrite
  <2>1. records["parser"] \in [Slot -> Record]
    BY <1>0
  <2>2. newRecord' \in Record
    BY <1>6, <2>1, Choice DEF BuildAndWrite, RecordBuild, Record
  <2>3. queue' \in Seq(Operation) /\ flag' \in [Client -> {"none", "ok", "error"}]
        /\ erased' = erased /\ late' = late /\ faults' = faults
    BY <1>0, <1>6, <2>1, Choice, RequestTypes DEF BuildAndWrite
  <2> QED BY <1>6, <2>2, <2>3 DEF BuildAndWrite, Goes, card
<1>7. CASE SaveEnds
  <2>1. PICK ok \in BOOLEAN :
          Returns("parser", ok) /\ lastSaved' = IF ok THEN newCfg ELSE lastSaved
    BY <1>7 DEF SaveEnds
  <2>2. flag' \in [Client -> {"none", "ok", "error"}] /\ late' \in BOOLEAN
        /\ faults' \in 0..MaxFaults /\ queue' = queue /\ erased' = erased
    BY <1>0, <2>1, ReturnsTypes
  <2> QED BY <1>7, <2>1, <2>2 DEF SaveEnds, Goes, stack
<1>8. CASE ApplyLoaded
  <2>1. records["boot"] \in [Slot -> Record]
    BY <1>0
  <2>2. SelectLatest(records["boot"]) # NoSlot =>
          records["boot"][SelectLatest(records["boot"])].pattern \in Patterns
    BY <2>1, Choice DEF Record
  <2> QED BY <1>0, <1>8, <2>2 DEF ApplyLoaded, Goes, storage
<1>9. CASE RememberLoaded
  BY <1>9 DEF RememberLoaded, Goes, stack, storage
<1>10. CASE ServeRead
  <2>1. Len(queue) > 0
    BY <1>10 DEF ServeRead
  <2>2. Head(queue) \in Operation
    BY <2>1, QueueFacts
  <2>3. records' \in [Client -> [Slot -> Record]]
    BY <1>10, <2>2 DEF ServeRead, Operation
  <2>4. flag' \in [Client -> {"none", "ok", "error"}] /\ queue' \in Seq(Operation) /\ erased' = FALSE
    BY <1>10, <2>1, AnswerTypes DEF ServeRead
  <2> QED BY <1>10, <2>3, <2>4 DEF ServeRead, card
<1>11. CASE ErasePage
  <2>1. slots' \in [Slot -> Record]
    BY <1>0, <1>11 DEF ErasePage
  <2> QED BY <1>11, <2>1 DEF ErasePage, stack
<1>12. CASE ProgramRecord
  <2>1. Len(queue) > 0
    BY <1>12 DEF ProgramRecord, SavesWhenKnown
  <2>2. OnStack \subseteq Record
    BY <1>0 DEF OnStack
  <2>3. slots' \in [Slot -> Record]
    BY <1>12, <2>2 DEF ProgramRecord
  <2>4. flag' \in [Client -> {"none", "ok", "error"}] /\ queue' \in Seq(Operation) /\ erased' = FALSE
    BY <1>12, <2>1, AnswerTypes DEF ProgramRecord
  <2> QED BY <1>12, <2>3, <2>4 DEF ProgramRecord, stack
<1>13. CASE FailWrite
  <2>1. Len(queue) > 0
    BY <1>13 DEF FailWrite
  <2>2. flag' \in [Client -> {"none", "ok", "error"}] /\ queue' \in Seq(Operation) /\ erased' = FALSE
    BY <1>13, <2>1, AnswerTypes DEF FailWrite
  <2>3. faults' \in 0..MaxFaults
    BY <1>13, StorageAssumption DEF FailWrite
  <2> QED BY <1>13, <2>2, <2>3 DEF FailWrite, card, stack
<1>14. CASE CpCommands
  <2>1. changes' \in 0..MaxChanges
    BY <1>14, StorageAssumption DEF CpCommands
  <2> QED BY <1>14, <2>1 DEF CpCommands, card, stack, storage
<1>15. CASE PowerLoss
  <2>1. faults' \in 0..MaxFaults
    BY <1>15, StorageAssumption DEF PowerLoss
  <2>2. queue' \in Seq(Operation)
    BY <1>15 DEF PowerLoss
  <2> QED BY <1>0, <1>15, <2>1, <2>2 DEF PowerLoss
<1> QED
  BY <1>0, <1>1, <1>2, <1>3, <1>4, <1>5, <1>6, <1>7, <1>8, <1>9, <1>10, <1>11, <1>12, <1>13,
     <1>14, <1>15 DEF Next, ParserStep, BootStep, StorageStep

\* Every action keeps who may save when.
LEMMA SavesStep ==
  ASSUME TypeOK, SavesWhenKnown, Next
  PROVE  SavesWhenKnown'
<1> USE DEF SavesWhenKnown
<1>0. {"parser", "boot"} = Client /\ pc \in [Client -> {"idle", "snapshot", "compare", "ask",
        "read", "askNext", "readNext", "select", "write", "loaded", "done"}]
      /\ Len(queue) \in Nat
  BY DEF TypeOK, Client
<1>1. CASE FlashFrame \/ OutputFrame \/ Snapshot \/ CompareWithSaved
  BY <1>0, <1>1 DEF FlashFrame, OutputFrame, Snapshot, CompareWithSaved, Goes, card, stack, storage
<1>2. ASSUME NEW c \in Client, AskRead(c) PROVE SavesWhenKnown'
  <2>1. UNCHANGED <<card, commanded, stack, changes>>
    BY <1>2, AskReadCases
  <2>2. PICK s \in Slot :
          /\ Request(c, "read", s)
          /\ \/ pc[c] = "ask" /\ pc' = [pc EXCEPT ![c] = "read"]
             \/ pc[c] = "askNext" /\ pc' = [pc EXCEPT ![c] = "readNext"]
    BY <1>2, AskReadCases DEF Slot
  <2>3. /\ Len(queue') = Len(queue) + 1 /\ erased' = erased
        /\ queue'[Len(queue) + 1] = [from |-> c, op |-> "read", slot |-> s]
        /\ \A i \in 1..Len(queue) : queue'[i] = queue[i]
    BY <2>2, RequestTypes
  <2>4. ASSUME NEW i \in 1..Len(queue')
        PROVE  queue'[i].op = "read" \/ (i \in 1..Len(queue) /\ queue'[i] = queue[i])
    <3>1. i = Len(queue) + 1 \/ i \in 1..Len(queue)
      BY <1>0, <2>3
    <3> QED BY <2>3, <3>1
  <2>5. erased' => Len(queue') > 0 /\ queue'[1].op = "write"
    BY <1>0, <2>3
  <2> QED BY <1>0, <2>1, <2>2, <2>4, <2>5 DEF card
<1>3. ASSUME NEW c \in Client, TakeRead(c) PROVE SavesWhenKnown'
  <2>1. PICK ok \in BOOLEAN :
          /\ Returns(c, ok)
          /\ \/ pc[c] = "read" /\ pc' = [pc EXCEPT ![c] = "askNext"]
             \/ pc[c] = "readNext" /\ pc' = [pc EXCEPT ![c] = "select"]
    BY <1>3, TakeReadCases
  <2>2. queue' = queue /\ erased' = erased
    BY <2>1 DEF Returns
  <2>3. UNCHANGED <<card, commanded, newCfg, newRecord, loaded, changes>>
    BY <1>3, TakeReadCases
  <2> QED BY <1>0, <2>1, <2>2, <2>3 DEF card
<1>4. CASE BuildAndWrite
  <2>1. records["parser"] \in [Slot -> Record]
    BY <1>0 DEF TypeOK
  <2>2. known /\ UNCHANGED card /\ pc["parser"] = "select" /\ pc' = [pc EXCEPT !["parser"] = "write"]
    BY <1>4 DEF BuildAndWrite, Goes
  <2>3. /\ Len(queue') = Len(queue) + 1 /\ erased' = erased
        /\ \A i \in 1..Len(queue) : queue'[i] = queue[i]
    BY <1>0, <1>4, <2>1, Choice, RequestTypes DEF BuildAndWrite
  <2> QED BY <1>0, <2>2, <2>3 DEF card
<1>5. CASE SaveEnds
  BY <1>0, <1>5 DEF SaveEnds, Returns, Goes, stack
<1>6. CASE ApplyLoaded
  BY <1>0, <1>6 DEF ApplyLoaded, Goes, storage
<1>7. CASE RememberLoaded
  BY <1>0, <1>7 DEF RememberLoaded, Goes, stack, storage
<1>8. CASE ServeRead \/ ProgramRecord \/ FailWrite
  <2>1. Len(queue) > 0
    <3>1. CASE ServeRead \/ FailWrite
      BY <3>1 DEF ServeRead, FailWrite, TypeOK
    <3>2. CASE ProgramRecord
      BY <3>2 DEF ProgramRecord
    <3> QED BY <1>8, <3>1, <3>2
  <2>2. queue' = Tail(queue) /\ erased' = FALSE
    BY <1>8 DEF ServeRead, ProgramRecord, FailWrite, Answer
  <2>3. \A i \in 1..Len(queue') : queue'[i] = queue[i + 1] /\ i + 1 \in 1..Len(queue)
    BY <1>0, <2>1, <2>2, QueueFacts
  <2>4. UNCHANGED <<known, pc>>
    BY <1>8 DEF ServeRead, ProgramRecord, FailWrite, card
  <2> QED BY <1>0, <2>2, <2>3, <2>4
<1>9. CASE ErasePage
  <2>1. Len(queue) > 0 /\ queue[1].op = "write"
    BY <1>9, QueueFacts DEF ErasePage, TypeOK
  <2> QED BY <1>9, <2>1 DEF ErasePage
<1>10. CASE CpCommands
  BY <1>10 DEF CpCommands, card, storage
<1>11. CASE PowerLoss
  BY <1>0, <1>11 DEF PowerLoss
<1> QED
  BY <1>0, <1>1, <1>2, <1>3, <1>4, <1>5, <1>6, <1>7, <1>8, <1>9, <1>10, <1>11
  DEF Next, ParserStep, BootStep, StorageStep

\* The state keeps its types, also where requests are carried out late.
THEOREM TypeCorrect == Spec => []TypeOK
<1>1. Init => TypeOK /\ SavesWhenKnown
  BY InitHolds DEF IInv
<1>2. TypeOK /\ SavesWhenKnown /\ [Next]_vars => (TypeOK /\ SavesWhenKnown)'
  <2> SUFFICES ASSUME TypeOK, SavesWhenKnown, [Next]_vars PROVE (TypeOK /\ SavesWhenKnown)'
    OBVIOUS
  <2>1. CASE Next
    BY <2>1, TypeStep, SavesStep
  <2>2. CASE UNCHANGED vars
    BY <2>2 DEF TypeOK, SavesWhenKnown, vars, card, stack, storage
  <2> QED BY <2>1, <2>2
<1> QED BY <1>1, <1>2, PTL DEF Spec

-----------------------------------------------------------------------------
(* While no wait has expired, what is queued is what is waited for *)

\* Where a client waits for an answer.
Asking == {"read", "readNext", "write"}

\* The same, of the next state.
AskedForNext(i) ==
  /\ flag'[queue'[i].from] = "none"
  /\ \/ queue'[i].op = "read" /\ queue'[i].slot = 0 /\ pc'[queue'[i].from] = "read"
     \/ queue'[i].op = "read" /\ queue'[i].slot = 1 /\ pc'[queue'[i].from] = "readNext"
     \/ /\ queue'[i].op = "write" /\ queue'[i].from = "parser" /\ pc'["parser"] = "write"
        /\ queue'[i].slot = TargetSlot(records'["parser"])

\* A client that goes on after its answer, or without one to wait for.
LEMMA QueueKept ==
  ASSUME TypeOK, QueueMatches, ~late, NEW c \in Client, NEW x,
         pc[c] \notin Asking \/ flag[c] # "none",
         \A d \in Client \ {c} : flag'[d] = flag[d] /\ records'[d] = records[d],
         queue' = queue, pc' = [pc EXCEPT ![c] = x]
  PROVE  QueueMatches'
<1> SUFFICES ASSUME NEW i \in 1..Len(queue) PROVE AskedFor(queue[i])'
  BY DEF QueueMatches
<1>1. AskedFor(queue[i]) /\ queue[i] \in Operation
  BY DEF QueueMatches, TypeOK
<1>2. queue[i].from \in Client /\ queue[i].from # c
  BY <1>1 DEF AskedFor, Asking, Operation
<1>3. /\ pc'[queue[i].from] = pc[queue[i].from] /\ flag'[queue[i].from] = flag[queue[i].from]
      /\ records'[queue[i].from] = records[queue[i].from]
  BY <1>2 DEF TypeOK
<1> QED BY <1>1, <1>2, <1>3 DEF AskedFor

\* A client that asks.
LEMMA QueueAsked ==
  ASSUME TypeOK, QueueMatches, ~late, NEW c \in Client, NEW x,
         NEW op \in {"read", "write"}, NEW s \in Slot, Request(c, op, s),
         pc[c] \notin Asking, pc' = [pc EXCEPT ![c] = x], records' = records,
         \/ op = "read" /\ s = 0 /\ x = "read"
         \/ op = "read" /\ s = 1 /\ x = "readNext"
         \/ op = "write" /\ c = "parser" /\ x = "write" /\ s = TargetSlot(records["parser"])
  PROVE  QueueMatches'
<1>1. /\ Len(queue) \in Nat /\ Len(queue') = Len(queue) + 1
      /\ queue'[Len(queue) + 1] = [from |-> c, op |-> op, slot |-> s]
      /\ \A i \in 1..Len(queue) : queue'[i] = queue[i]
  BY RequestTypes DEF TypeOK
<1>2. flag'[c] = "none" /\ pc'[c] = x
  BY DEF Request, TypeOK
<1>3. AskedForNext(Len(queue) + 1)
  BY <1>1, <1>2 DEF AskedForNext
<1>4. ASSUME NEW i \in 1..Len(queue) PROVE queue[i].from # c /\ AskedForNext(i)
  <2>1. AskedFor(queue[i]) /\ queue[i] \in Operation
    BY DEF QueueMatches, TypeOK
  <2>2. queue[i].from \in Client /\ queue[i].from # c
    BY <2>1 DEF AskedFor, Asking, Operation
  <2>3. pc'[queue[i].from] = pc[queue[i].from] /\ flag'[queue[i].from] = flag[queue[i].from]
    BY <2>2 DEF TypeOK, Request
  <2> QED BY <1>1, <2>1, <2>2, <2>3 DEF AskedFor, AskedForNext
<1>5. ASSUME NEW i \in 1..Len(queue') PROVE i = Len(queue) + 1 \/ i \in 1..Len(queue)
  BY <1>1
<1>6. \A i \in 1..Len(queue') : AskedForNext(i)
  BY <1>3, <1>4, <1>5
<1>7. \A i, j \in 1..Len(queue') : i # j => queue'[i].from # queue'[j].from
  BY <1>1, <1>4, <1>5 DEF QueueMatches
<1> QED BY <1>6, <1>7 DEF QueueMatches, AskedFor, AskedForNext

\* A request that is answered.
LEMMA QueueAnswered ==
  ASSUME TypeOK, QueueMatches, ~late, Len(queue) > 0, NEW result, Answer(result), pc' = pc,
         \A d \in Client \ {queue[1].from} : records'[d] = records[d]
  PROVE  QueueMatches'
<1>1. /\ Len(queue) \in Nat /\ Len(queue') = Len(queue) - 1
      /\ \A i \in 1..Len(queue') : queue'[i] = queue[i + 1] /\ i + 1 \in 1..Len(queue)
  BY QueueFacts DEF Answer, TypeOK
<1>2. ASSUME NEW i \in 1..Len(queue') PROVE AskedForNext(i)
  <2>1. /\ AskedFor(queue[i + 1]) /\ queue[i + 1] \in Operation
        /\ queue[i + 1].from # queue[1].from
    BY <1>1 DEF QueueMatches, TypeOK
  <2>2. queue[i + 1].from \in Client \ {queue[1].from}
    BY <2>1 DEF Operation
  <2>3. /\ flag'[queue[i + 1].from] = flag[queue[i + 1].from]
        /\ records'[queue[i + 1].from] = records[queue[i + 1].from]
    BY <2>2, QueueFacts DEF Answer, TypeOK
  <2> QED BY <1>1, <2>1, <2>2, <2>3 DEF AskedFor, AskedForNext
<1>4. \A i, j \in 1..Len(queue') : i # j => queue'[i].from # queue'[j].from
  BY <1>1 DEF QueueMatches
<1> QED BY <1>2, <1>4 DEF QueueMatches, AskedFor, AskedForNext

\* The request at the head, while no wait has expired.
LEMMA HeadFacts ==
  ASSUME TypeOK, QueueMatches, ~late, Len(queue) > 0
  PROVE  /\ Head(queue) = queue[1] /\ AskedFor(queue[1]) /\ queue[1] \in Operation
         /\ queue[1].op = "write" => queue[1].from = "parser"
BY QueueFacts DEF QueueMatches, AskedFor, TypeOK

\* Every action keeps the queue in step with its clients.
LEMMA QueueStep ==
  ASSUME TypeOK, SavesWhenKnown, QueueMatches, Next
  PROVE  QueueMatches'
<1> SUFFICES ASSUME ~late' PROVE QueueMatches'
  BY DEF QueueMatches
<1>0. {"parser", "boot"} = Client /\ pc \in [Client -> {"idle", "snapshot", "compare", "ask",
        "read", "askNext", "readNext", "select", "write", "loaded", "done"}]
      /\ Len(queue) \in Nat /\ records \in [Client -> [Slot -> Record]]
      /\ flag \in [Client -> {"none", "ok", "error"}]
  BY DEF TypeOK, Client
<1>1. CASE PowerLoss
  BY <1>1 DEF PowerLoss, QueueMatches
<1> SUFFICES ASSUME ~PowerLoss PROVE QueueMatches'
  BY <1>1
<1>2. ~late
  <2>1. ASSUME NEW c \in Client, TakeRead(c) PROVE ~late
    BY <2>1, TakeReadCases, ReturnsTypes
  <2>2. CASE SaveEnds
    BY <1>0, <2>2, ReturnsTypes DEF SaveEnds
  <2>3. ASSUME NEW c \in Client, AskRead(c) PROVE ~late
    BY <2>3 DEF AskRead, Request
  <2> QED
    BY <1>0, <2>1, <2>2, <2>3
    DEF Next, ParserStep, BootStep, StorageStep, FlashFrame, OutputFrame, Snapshot,
        CompareWithSaved, BuildAndWrite, Request, ApplyLoaded, RememberLoaded, ServeRead,
        ErasePage, ProgramRecord, FailWrite, CpCommands
<1>3. CASE FlashFrame \/ OutputFrame \/ Snapshot \/ CompareWithSaved
  <2>1. /\ pc["parser"] \in {"idle", "snapshot", "compare"} /\ queue' = queue /\ flag' = flag
        /\ records'["boot"] = records["boot"]
    BY <1>0, <1>3 DEF FlashFrame, OutputFrame, Snapshot, CompareWithSaved, storage, stack
  <2>2. \E x : pc' = [pc EXCEPT !["parser"] = x]
    BY <1>3 DEF FlashFrame, OutputFrame, Snapshot, CompareWithSaved, Goes
  <2> QED BY <1>0, <1>2, <2>1, <2>2, QueueKept DEF Asking
<1>4. ASSUME NEW c \in Client, AskRead(c) PROVE QueueMatches'
  <2>0. records' = records /\ 0 \in Slot /\ 1 \in Slot
    BY <1>4 DEF AskRead, stack, Slot
  <2>1. CASE pc[c] = "ask" /\ Request(c, "read", 0) /\ pc' = [pc EXCEPT ![c] = "read"]
    BY <1>2, <2>0, <2>1, QueueAsked DEF Asking
  <2>2. CASE pc[c] = "askNext" /\ Request(c, "read", 1) /\ pc' = [pc EXCEPT ![c] = "readNext"]
    BY <1>2, <2>0, <2>2, QueueAsked DEF Asking
  <2> QED BY <1>4, <2>1, <2>2, AskReadCases
<1>5. ASSUME NEW c \in Client, TakeRead(c) PROVE QueueMatches'
  <2>1. PICK ok \in BOOLEAN, s \in Slot :
          /\ Returns(c, ok)
          /\ records' = IF ok THEN records ELSE [records EXCEPT ![c][s] = Blank]
          /\ pc' \in {[pc EXCEPT ![c] = "askNext"], [pc EXCEPT ![c] = "select"]}
    BY <1>5, TakeReadCases
  <2>2. flag[c] # "none" /\ queue' = queue /\ flag' = [flag EXCEPT ![c] = "none"]
    BY <2>1, ReturnsTypes DEF Returns
  <2>3. \A d \in Client \ {c} : flag'[d] = flag[d] /\ records'[d] = records[d]
    BY <1>0, <2>1, <2>2
  <2> QED BY <1>2, <2>1, <2>2, <2>3, QueueKept
<1>6. CASE BuildAndWrite
  <2>1. /\ Request("parser", "write", TargetSlot(records["parser"])) /\ records' = records
        /\ pc["parser"] = "select" /\ pc' = [pc EXCEPT !["parser"] = "write"]
    BY <1>6 DEF BuildAndWrite, Goes
  <2> QED BY <1>0, <1>2, <2>1, Choice, QueueAsked DEF Asking
<1>7. CASE SaveEnds
  <2>1. PICK ok \in BOOLEAN : Returns("parser", ok)
    BY <1>7 DEF SaveEnds
  <2>2. flag["parser"] # "none" /\ queue' = queue /\ flag' = [flag EXCEPT !["parser"] = "none"]
    BY <1>0, <2>1, ReturnsTypes DEF Returns
  <2>3. records' = records /\ pc' = [pc EXCEPT !["parser"] = "idle"]
    BY <1>7 DEF SaveEnds, Goes, stack
  <2> QED BY <1>0, <1>2, <2>2, <2>3, QueueKept
<1>8. CASE ApplyLoaded \/ RememberLoaded
  <2>1. /\ pc["boot"] \in {"select", "loaded"} /\ queue' = queue /\ flag' = flag /\ records' = records
    BY <1>0, <1>8 DEF ApplyLoaded, RememberLoaded, storage, stack
  <2>2. \E x : pc' = [pc EXCEPT !["boot"] = x]
    BY <1>8 DEF ApplyLoaded, RememberLoaded, Goes
  <2> QED BY <1>0, <1>2, <2>1, <2>2, QueueKept DEF Asking
<1>9. CASE ServeRead
  <2>1. Len(queue) > 0 /\ Answer("ok") /\ pc' = pc
    BY <1>9 DEF ServeRead, TypeOK
  <2>2. \A d \in Client \ {queue[1].from} : records'[d] = records[d]
    BY <1>0, <1>9, <2>1, QueueFacts DEF ServeRead
  <2> QED BY <1>2, <2>1, <2>2, QueueAnswered
<1>10. CASE ProgramRecord \/ FailWrite
  <2>1. Len(queue) > 0 /\ pc' = pc /\ records' = records
    BY <1>10 DEF ProgramRecord, FailWrite, SavesWhenKnown, TypeOK, stack
  <2>2. \E result : Answer(result)
    BY <1>10 DEF ProgramRecord, FailWrite
  <2> QED BY <1>2, <2>1, <2>2, QueueAnswered
<1>11. CASE ErasePage \/ CpCommands
  BY <1>11 DEF ErasePage, CpCommands, QueueMatches, AskedFor, stack, storage
<1> QED
  BY <1>0, <1>3, <1>4, <1>5, <1>6, <1>7, <1>8, <1>9, <1>10, <1>11
  DEF Next, ParserStep, BootStep, StorageStep

-----------------------------------------------------------------------------
(* What has been read, and what is being saved *)

\* Every action keeps what is known of the reads and of the save.
LEMMA InTimeStep ==
  ASSUME TypeOK, SavesWhenKnown, QueueMatches, ~late => InTime, Next
  PROVE  ~late' => InTime'
<1> SUFFICES ASSUME ~late' PROVE InTime'
  OBVIOUS
<1>0. {"parser", "boot"} = Client /\ pc \in [Client -> {"idle", "snapshot", "compare", "ask",
        "read", "askNext", "readNext", "select", "write", "loaded", "done"}]
      /\ Len(queue) \in Nat /\ records \in [Client -> [Slot -> Record]]
      /\ flag \in [Client -> {"none", "ok", "error"}]
      /\ "parser" # "boot" /\ slots \in [Slot -> Record] /\ Slot = {0, 1}
  BY DEF TypeOK, Client, Slot
<1>1. CASE PowerLoss
  BY <1>0, <1>1 DEF PowerLoss, InTime, ReadsHold, WriteHolds, SavedHolds
<1> SUFFICES ASSUME ~PowerLoss PROVE InTime'
  BY <1>1
<1>2. ~late /\ InTime
  <2>1. ASSUME NEW c \in Client, TakeRead(c) PROVE ~late
    BY <2>1, TakeReadCases, ReturnsTypes
  <2>2. CASE SaveEnds
    BY <1>0, <2>2, ReturnsTypes DEF SaveEnds
  <2>3. ASSUME NEW c \in Client, AskRead(c) PROVE ~late
    BY <2>3 DEF AskRead, Request
  <2> QED
    BY <1>0, <2>1, <2>2, <2>3
    DEF Next, ParserStep, BootStep, StorageStep, FlashFrame, OutputFrame, Snapshot,
        CompareWithSaved, BuildAndWrite, Request, ApplyLoaded, RememberLoaded, ServeRead,
        ErasePage, ProgramRecord, FailWrite, CpCommands
<1> USE DEF InTime, ReadsHold, WriteHolds, SavedHolds, StoredPattern, Kept
<1>3. CASE FlashFrame \/ OutputFrame \/ Snapshot \/ CompareWithSaved
  BY <1>0, <1>2, <1>3
  DEF FlashFrame, OutputFrame, Snapshot, CompareWithSaved, Goes, card, storage, stack
<1>4. ASSUME NEW c \in Client, AskRead(c) PROVE InTime'
  <2>1. UNCHANGED <<card, commanded, stack, changes>> /\ flag' = [flag EXCEPT ![c] = "none"]
    BY <1>4, AskReadCases DEF Request
  <2>2. \/ pc[c] = "ask" /\ pc' = [pc EXCEPT ![c] = "read"]
        \/ pc[c] = "askNext" /\ pc' = [pc EXCEPT ![c] = "readNext"]
    BY <1>4, AskReadCases
  <2>3. erased' = erased
    BY <1>4 DEF AskRead, Request
  <2>4. CASE c = "parser"
    BY <1>0, <1>2, <2>1, <2>2, <2>3, <2>4 DEF card, stack
  <2>5. CASE c = "boot"
    BY <1>0, <1>2, <2>1, <2>2, <2>3, <2>5 DEF card, stack
  <2> QED BY <1>0, <2>4, <2>5
<1>5. ASSUME NEW c \in Client, TakeRead(c) PROVE InTime'
  <2>1. PICK ok \in BOOLEAN, s \in Slot :
          /\ Returns(c, ok)
          /\ records' = IF ok THEN records ELSE [records EXCEPT ![c][s] = Blank]
          /\ \/ s = 0 /\ pc[c] = "read" /\ pc' = [pc EXCEPT ![c] = "askNext"]
             \/ s = 1 /\ pc[c] = "readNext" /\ pc' = [pc EXCEPT ![c] = "select"]
    BY <1>5, TakeReadCases
  <2>2. flag[c] = (IF ok THEN "ok" ELSE "error") /\ flag' = [flag EXCEPT ![c] = "none"] /\ erased' = erased
    BY <2>1, ReturnsTypes DEF Returns
  <2>3. ok /\ records' = records
    BY <1>0, <1>2, <2>1, <2>2
  <2>4. UNCHANGED <<card, commanded, newCfg, newRecord, loaded, changes>>
    BY <1>5, TakeReadCases
  <2>5. CASE c = "parser"
    BY <1>0, <1>2, <2>1, <2>2, <2>3, <2>4, <2>5 DEF card
  <2>6. CASE c = "boot"
    BY <1>0, <1>2, <2>1, <2>2, <2>3, <2>4, <2>6 DEF card
  <2> QED BY <1>0, <2>5, <2>6
<1>6. CASE BuildAndWrite
  <2>1. /\ UNCHANGED <<card, records, loaded, newCfg, erased>> /\ pc["parser"] = "select"
        /\ pc' = [pc EXCEPT !["parser"] = "write"] /\ flag' = [flag EXCEPT !["parser"] = "none"]
        /\ newRecord' = RecordBuild(NextSequence(records["parser"]), newCfg)
    BY <1>6 DEF BuildAndWrite, Goes, Request
  <2>2. records["parser"] = slots
    BY <1>0, <1>2, <2>1
  <2>3. ~erased
    <3> SUFFICES ASSUME erased PROVE FALSE
      OBVIOUS
    <3>1. Len(queue) > 0 /\ queue[1].op = "write"
      BY DEF SavesWhenKnown
    <3> QED BY <1>2, <2>1, <3>1, HeadFacts DEF AskedFor
  <2> QED BY <1>0, <1>2, <2>1, <2>2, <2>3 DEF card
<1>7. CASE SaveEnds
  <2>1. PICK ok \in BOOLEAN :
          Returns("parser", ok) /\ lastSaved' = IF ok THEN newCfg ELSE lastSaved
    BY <1>7 DEF SaveEnds
  <2>2. flag["parser"] = (IF ok THEN "ok" ELSE "error")
        /\ flag' = [flag EXCEPT !["parser"] = "none"] /\ erased' = erased
    BY <1>0, <2>1, ReturnsTypes DEF Returns
  <2>3. /\ UNCHANGED <<slots, runtime, known, commanded, stack, changes>>
        /\ pc["parser"] = "write" /\ pc' = [pc EXCEPT !["parser"] = "idle"]
    BY <1>7 DEF SaveEnds, Goes
  <2>4. records["parser"] \in [Slot -> Record] /\ newCfg \in Patterns
    BY <1>0 DEF TypeOK
  <2>5. known
    BY <2>3 DEF SavesWhenKnown
  <2>6. StoredIn(slots) = {lastSaved'}
    <3>1. CASE ok
      BY <1>2, <2>1, <2>2, <2>3, <2>4, <3>1, Programming
    <3>2. CASE ~ok
      BY <1>2, <2>1, <2>2, <2>3, <2>4, <2>5, <3>2, Erasing
    <3> QED BY <3>1, <3>2
  <2> QED BY <1>0, <1>2, <2>2, <2>3, <2>5, <2>6 DEF stack, SavesWhenKnown
<1>8. CASE ApplyLoaded
  <2>1. records["boot"] = slots
    BY <1>0, <1>2, <1>8 DEF ApplyLoaded
  <2> QED BY <1>0, <1>2, <1>8, <2>1 DEF ApplyLoaded, Goes, storage, StoredIn, SavesWhenKnown
<1>9. CASE RememberLoaded
  BY <1>0, <1>2, <1>9 DEF RememberLoaded, Goes, stack, storage, SavesWhenKnown
<1>10. CASE ServeRead
  <2>1. Len(queue) > 0 /\ Head(queue) = queue[1] /\ AskedFor(queue[1]) /\ queue[1] \in Operation
        /\ queue[1].op = "read"
    BY <1>2, <1>10, HeadFacts DEF ServeRead, TypeOK
  <2>2. PICK c \in Client : c = queue[1].from
    BY <2>1 DEF Operation
  <2>3. PICK s \in Slot : s = queue[1].slot
    BY <2>1 DEF Operation
  <2>4. \/ s = 0 /\ pc[c] = "read"
        \/ s = 1 /\ pc[c] = "readNext"
    BY <2>1, <2>2, <2>3 DEF AskedFor
  <2>5. /\ records' = [records EXCEPT ![c][s] = slots[s]] /\ flag' = [flag EXCEPT ![c] = "ok"]
        /\ UNCHANGED <<card, pc, newCfg, newRecord, loaded>>
    BY <1>10, <2>1, <2>2, <2>3 DEF ServeRead, Answer
  <2>6. CASE c = "parser"
    BY <1>0, <1>2, <2>4, <2>5, <2>6 DEF card
  <2>7. CASE c = "boot"
    <3>1. ~known
      BY <2>4, <2>7 DEF SavesWhenKnown
    <3> QED BY <1>0, <1>2, <2>4, <2>5, <2>7, <3>1 DEF card, SavesWhenKnown
  <2> QED BY <1>0, <2>6, <2>7
<1>11. CASE ErasePage \/ ProgramRecord \/ FailWrite
  <2>1. Len(queue) > 0 /\ queue[1].op = "write"
    BY <1>11, QueueFacts DEF ErasePage, ProgramRecord, FailWrite, SavesWhenKnown, TypeOK
  <2>2. /\ Head(queue) = queue[1] /\ queue[1].from = "parser" /\ AskedFor(queue[1])
    BY <1>2, <2>1, HeadFacts
  <2>3. /\ flag["parser"] = "none" /\ pc["parser"] = "write"
        /\ queue[1].slot = TargetSlot(records["parser"])
    BY <2>1, <2>2 DEF AskedFor
  <2>4. known /\ pc["boot"] = "done"
    BY <2>3 DEF SavesWhenKnown
  <2>5. records["parser"] \in [Slot -> Record] /\ TargetSlot(records["parser"]) \in Slot
    BY <1>0, Choice
  <2>6. CASE ErasePage
    BY <1>0, <1>2, <2>2, <2>3, <2>4, <2>5, <2>6 DEF ErasePage, stack
  <2>7. CASE ProgramRecord
    <3>1. OnStack = {newRecord}
      <4>1. \A i \in 2..Len(queue) : queue[i].op = "read"
        <5> SUFFICES ASSUME NEW i \in 2..Len(queue), queue[i].op # "read" PROVE FALSE
          OBVIOUS
        <5>1. AskedFor(queue[i]) /\ queue[i].from # queue[1].from
          BY <1>2 DEF QueueMatches
        <5> QED BY <2>2, <5>1 DEF AskedFor
      <4> QED BY <2>3, <4>1 DEF OnStack
    <3>2. slots' = [slots EXCEPT ![TargetSlot(records["parser"])] = newRecord]
      BY <2>2, <2>3, <2>7, <3>1 DEF ProgramRecord
    <3>3. slots = [records["parser"] EXCEPT ![TargetSlot(records["parser"])] = Blank]
      BY <1>2, <2>3, <2>7 DEF ProgramRecord
    <3>4. slots' = [records["parser"] EXCEPT ![TargetSlot(records["parser"])] = newRecord]
      BY <1>0, <2>5, <3>2, <3>3
    <3>5. /\ flag' = [flag EXCEPT !["parser"] = "ok"]
          /\ UNCHANGED <<lastSaved, known, pc, records, newCfg, newRecord, loaded>>
      BY <2>2, <2>7 DEF ProgramRecord, Answer, stack
    <3> QED BY <1>0, <1>2, <2>3, <2>4, <3>4, <3>5
  <2>8. CASE FailWrite
    <3>1. slots \in {records["parser"], [records["parser"] EXCEPT ![TargetSlot(records["parser"])] = Blank]}
      BY <1>2, <2>3
    <3>2. /\ flag' = [flag EXCEPT !["parser"] = "error"]
          /\ UNCHANGED <<slots, lastSaved, known, pc, records, newCfg, newRecord, loaded>>
      BY <2>2, <2>8 DEF FailWrite, Answer, stack, card
    <3> QED BY <1>0, <1>2, <2>3, <2>4, <3>1, <3>2
  <2> QED BY <1>11, <2>6, <2>7, <2>8
<1>12. CASE CpCommands
  BY <1>0, <1>2, <1>12 DEF CpCommands, card, stack, storage
<1> QED
  BY <1>0, <1>3, <1>4, <1>5, <1>6, <1>7, <1>8, <1>9, <1>10, <1>11, <1>12
  DEF Next, ParserStep, BootStep, StorageStep

-----------------------------------------------------------------------------
(* The theorems *)

\* The strengthening is inductive.
LEMMA InvariantStep == IInv /\ [Next]_vars => IInv'
<1> SUFFICES ASSUME IInv, [Next]_vars PROVE IInv'
  OBVIOUS
<1>1. CASE Next
  BY <1>1, TypeStep, SavesStep, QueueStep, InTimeStep DEF IInv
<1>2. CASE UNCHANGED vars
  <2> USE <1>2 DEF IInv, vars, card, stack, storage
  <2>1. TypeOK'
    BY DEF TypeOK
  <2>2. SavesWhenKnown' /\ QueueMatches'
    BY DEF SavesWhenKnown, QueueMatches, AskedFor
  <2>3. ~late' => InTime'
    BY DEF InTime, ReadsHold, WriteHolds, SavedHolds, StoredPattern, Kept
  <2> QED BY <2>1, <2>2, <2>3
<1> QED BY <1>1, <1>2

\* The strengthening: the queue holds what is waited for, and a client's reads and
\* the progress of a save can be told from its position and its answer.
THEOREM InvariantHolds == Spec => []IInv
BY InitHolds, InvariantStep, PTL DEF Spec

\* While a card knows its pattern and no wait expired, what it takes for saved is
\* what it would load, or a save is about to be acknowledged.
THEOREM SavedIsKnown == Spec => []SavedIsStored
<1>1. IInv => SavedIsStored
  <2> SUFFICES ASSUME IInv, known, ~late
               PROVE  \/ StoredPattern = {lastSaved}
                      \/ pc["parser"] = "write" /\ StoredPattern = {newCfg}
    BY DEF SavedIsStored
  <2>1. InTime /\ records["parser"] \in [Slot -> Record] /\ newCfg \in Patterns
        /\ flag["parser"] \in {"none", "ok", "error"}
    BY DEF IInv, TypeOK, Client
  <2>2. CASE pc["parser"] # "write"
    BY <2>1, <2>2 DEF InTime, SavedHolds
  <2>3. CASE pc["parser"] = "write"
    <3>1. StoredIn(records["parser"]) = {lastSaved}
      BY <2>1, <2>3 DEF InTime, SavedHolds, Kept
    <3>2. \/ slots = records["parser"]
          \/ slots = [records["parser"] EXCEPT ![TargetSlot(records["parser"])] = Blank]
          \/ slots = [records["parser"] EXCEPT ![TargetSlot(records["parser"])] =
                        RecordBuild(NextSequence(records["parser"]), newCfg)]
      BY <2>1, <2>3 DEF InTime, WriteHolds, Kept
    <3> QED BY <2>1, <2>3, <3>1, <3>2, Erasing, Programming DEF StoredPattern
  <2> QED BY <2>2, <2>3
<1> QED BY <1>1, InvariantHolds, PTL

\* A step changes the pattern a boot would load only to the one being saved, and
\* only on a card that loaded one: erasing, a failed write and a power loss keep it.
ChangesAtOnce ==
  \/ StoredPattern' = StoredPattern
  \/ known /\ (late \/ (pc["parser"] = "write" /\ StoredPattern' = {newCfg}))

THEOREM SavingIsAtomic == Spec => PatternChangesAtOnce
<1>1. IInv /\ [Next]_vars => [ChangesAtOnce]_vars
  <2> SUFFICES ASSUME IInv, Next PROVE ChangesAtOnce
    OBVIOUS
  <2>1. CASE slots' = slots
    BY <2>1 DEF ChangesAtOnce, StoredPattern
  <2> SUFFICES ASSUME slots' # slots PROVE ChangesAtOnce
    BY <2>1
  <2>2. ErasePage \/ ProgramRecord
    BY AskReadCases, TakeReadCases
    DEF Next, ParserStep, BootStep, StorageStep, FlashFrame, OutputFrame, Snapshot, Client,
        CompareWithSaved, BuildAndWrite, SaveEnds, ApplyLoaded, RememberLoaded, ServeRead,
        FailWrite, CpCommands, PowerLoss, card
  <2>3. TypeOK /\ SavesWhenKnown /\ QueueMatches /\ (~late => InTime)
    BY DEF IInv
  <2>4. Len(queue) > 0 /\ queue[1].op = "write"
    BY <2>2, <2>3, QueueFacts DEF ErasePage, ProgramRecord, SavesWhenKnown, TypeOK
  <2>5. known
    BY <2>3, <2>4 DEF SavesWhenKnown, TypeOK
  <2> SUFFICES ASSUME ~late PROVE ChangesAtOnce
    BY <2>5 DEF ChangesAtOnce
  <2>6. /\ Head(queue) = queue[1] /\ pc["parser"] = "write" /\ flag["parser"] = "none"
        /\ queue[1].from = "parser" /\ queue[1].slot = TargetSlot(records["parser"])
    BY <2>3, <2>4, HeadFacts DEF AskedFor
  <2>7. records["parser"] \in [Slot -> Record] /\ newCfg \in Patterns
        /\ slots \in [Slot -> Record] /\ TargetSlot(records["parser"]) \in Slot
    <3>1. records["parser"] \in [Slot -> Record]
      BY <2>3 DEF TypeOK, Client
    <3> QED BY <2>3, <3>1, Choice DEF TypeOK
  <2>8. CASE ~erased
    <3>1. slots = records["parser"]
      BY <2>3, <2>6, <2>8 DEF InTime, WriteHolds, Kept
    <3>2. slots' = [records["parser"] EXCEPT ![TargetSlot(records["parser"])] = Blank]
      BY <2>2, <2>6, <2>8, <3>1 DEF ErasePage, ProgramRecord
    <3> QED BY <2>7, <3>1, <3>2, Erasing DEF ChangesAtOnce, StoredPattern
  <2>9. CASE erased
    <3>1. /\ slots = [records["parser"] EXCEPT ![TargetSlot(records["parser"])] = Blank]
          /\ newRecord = RecordBuild(NextSequence(records["parser"]), newCfg)
      BY <2>3, <2>6, <2>9 DEF InTime, WriteHolds, Kept
    <3>2. \A i \in 2..Len(queue) : queue[i].op = "read"
      <4> SUFFICES ASSUME NEW i \in 2..Len(queue), queue[i].op # "read" PROVE FALSE
        OBVIOUS
      <4>1. AskedFor(queue[i]) /\ queue[i].from # queue[1].from
        BY <2>3, <2>4 DEF QueueMatches
      <4> QED BY <2>6, <4>1 DEF AskedFor
    <3>3. OnStack = {newRecord}
      BY <2>6, <3>2 DEF OnStack
    <3>4. slots' = [slots EXCEPT ![TargetSlot(records["parser"])] = newRecord]
      BY <2>2, <2>6, <2>9, <3>3 DEF ErasePage, ProgramRecord
    <3>5. slots' = [records["parser"] EXCEPT ![TargetSlot(records["parser"])] = newRecord]
      BY <2>7, <3>1, <3>4
    <3> QED BY <2>5, <2>6, <2>7, <3>1, <3>5, Programming DEF ChangesAtOnce, StoredPattern
  <2> QED BY <2>8, <2>9
<1>2. Spec => [][ChangesAtOnce]_vars
  BY <1>1, InvariantHolds, PTL DEF Spec
<1> QED BY <1>2 DEF PatternChangesAtOnce, ChangesAtOnce

=============================================================================
