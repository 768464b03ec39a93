------------------------- MODULE SignalCardStorage -------------------------
(***************************************************************************)
(* The flash pattern of a signal card (SSM): which of its lamps flash when *)
(* the control bus falls silent.  CP commands it over and over; the card   *)
(* keeps it in a journal of two flash pages and loads it when it boots.    *)
(* Three tasks of equal priority take part:                                *)
(*   "parser"  takes CP's frames and saves the pattern (can_msg_parser.c), *)
(*   "boot"    the measurement task, which first loads it (measurement.c), *)
(*   storage   reads, erases and programs for the two (storage.c, flash.c).*)
(* A client waits at most a second for an answer; a request it gave up     *)
(* stays queued, and is later carried out on the client's stack.           *)
(***************************************************************************)
EXTENDS Naturals, Sequences

CONSTANTS
  Patterns,     \* which of the twelve outputs flash
  Steady,       \* none of them does
  SeqMod,       \* sequence numbers are modulo 2^32 in the code
  MaxChanges,   \* bound on the patterns CP commands
  MaxFaults     \* bound on power losses, failed writes and expired waits

ASSUME StorageAssumption ==
  /\ Steady \in Patterns
  /\ SeqMod \in {n \in Nat : n >= 4 /\ n % 2 = 0}
  /\ {MaxChanges, MaxFaults} \subseteq Nat

Slot == 0..1
NoSlot == 2
Client == {"parser", "boot"}

\* A slot whose magic, commit byte or CRC is wrong, erased and torn ones included, is invalid.
Record == [valid : BOOLEAN, sequence : 0..(SeqMod - 1), pattern : Patterns]
Blank == [valid |-> FALSE, sequence |-> 0, pattern |-> Steady]

RecordBuild(sequence, pattern) ==
  [valid |-> TRUE, sequence |-> sequence, pattern |-> pattern]

\* Wrong: forgets that sequence numbers wrap.
NewerWithoutWrap(b, a) == b.sequence > a.sequence

Newer(b, a) == (b.sequence + SeqMod - a.sequence) % SeqMod < SeqMod \div 2

SelectLatest(r) ==
  IF r[1].valid /\ (r[0].valid => Newer(r[1], r[0])) THEN 1
  ELSE IF r[0].valid THEN 0 ELSE NoSlot

\* Wrong: overwrites the record that is in force.
TargetSlotOfLatest(r) == IF SelectLatest(r) = 1 THEN 1 ELSE 0

TargetSlot(r) == IF SelectLatest(r) = 0 THEN 1 ELSE 0

NextSequence(r) ==
  IF SelectLatest(r) = NoSlot THEN 1 ELSE (r[SelectLatest(r)].sequence + 1) % SeqMod

VARIABLES
  slots,      \* the two flash pages
  commanded,  \* the pattern CP sends, over and over
  runtime,    \* signalOutputGroups[..].isFlashing
  lastSaved,  \* lastSavedFlashCfg
  known,      \* flashCfgKnown
  pc,         \* where each client is
  newCfg,     \* the parser's snapshot of runtime
  records,    \* each client's two records, on its stack
  newRecord,  \* the record the parser writes, on its stack
  loaded,     \* the pattern the boot loaded
  queue,      \* StorageReqsQueue
  flag,       \* each client's thread flags: the answer it has got
  erased,     \* storage has erased the page of the request it is serving
  late,       \* some wait expired since the card was powered
  changes, faults

card == <<slots, runtime, lastSaved, known>>
stack == <<newCfg, records, newRecord, loaded>>
storage == <<queue, flag, erased>>
vars == <<card, commanded, pc, stack, storage, late, changes, faults>>

Init ==
  /\ slots \in {[s \in Slot |-> Blank]}
       \cup {[s \in Slot |-> IF s = 0 THEN RecordBuild(SeqMod - 1, p) ELSE Blank] : p \in Patterns}
  /\ commanded \in Patterns
  /\ runtime = Steady /\ lastSaved = Steady /\ known = FALSE
  /\ pc = [c \in Client |-> IF c = "boot" THEN "ask" ELSE "idle"]
  /\ newCfg = Steady /\ newRecord = Blank /\ loaded = Steady
  /\ records = [c \in Client |-> [s \in Slot |-> Blank]]
  /\ queue = <<>> /\ flag = [c \in Client |-> "none"] /\ erased = FALSE
  /\ late = FALSE /\ changes = 0 /\ faults = 0

-----------------------------------------------------------------------------
(* Asking the storage task *)

Goes(c, to) == pc' = [pc EXCEPT ![c] = to]

\* StorageRequest clears the caller's flags, then queues. Its pool of sixteen
\* requests is never empty within MaxFaults.
Request(c, op, s) ==
  /\ queue' = Append(queue, [from |-> c, op |-> op, slot |-> s])
  /\ flag' = [flag EXCEPT ![c] = "none"]
  /\ UNCHANGED <<erased, late, faults>>

\* What StorageRequest returns: an answer, whichever request it was given to, or
\* FALSE when the wait expires; the request then stays queued.
Returns(c, ok) ==
  /\ \/ flag[c] = (IF ok THEN "ok" ELSE "error") /\ UNCHANGED <<late, faults>>
     \/ flag[c] = "none" /\ ~ok /\ faults < MaxFaults /\ late' = TRUE /\ faults' = faults + 1
  /\ flag' = [flag EXCEPT ![c] = "none"]
  /\ UNCHANGED <<queue, erased>>

\* The two reads AdapterRead and AdapterWrite begin with: slot 0, then slot 1.
AskRead(c) ==
  /\ \E s \in Slot :
       /\ pc[c] = <<"ask", "askNext">>[s + 1]
       /\ Request(c, "read", s)
       /\ Goes(c, <<"read", "readNext">>[s + 1])
  /\ UNCHANGED <<card, commanded, stack, changes>>

\* RecordReadOrZero: a read that failed counts as an invalid record.
TakeRead(c) ==
  /\ \E s \in Slot, ok \in BOOLEAN :
       /\ pc[c] = <<"read", "readNext">>[s + 1]
       /\ Returns(c, ok)
       /\ records' = IF ok THEN records ELSE [records EXCEPT ![c][s] = Blank]
       /\ Goes(c, <<"askNext", "select">>[s + 1])
  /\ UNCHANGED <<card, commanded, newCfg, newRecord, loaded, changes>>

-----------------------------------------------------------------------------
(* The parser: CP's frames *)

\* A frame of the pattern, repeated every 500 ms, or of the active outputs.
FlashFrame ==
  /\ pc["parser"] = "idle"
  /\ runtime' = commanded
  /\ Goes("parser", "snapshot")
  /\ UNCHANGED <<slots, lastSaved, known, commanded, stack, storage, late, changes, faults>>

OutputFrame ==
  /\ pc["parser"] = "idle"
  /\ Goes("parser", "snapshot")
  /\ UNCHANGED <<card, commanded, stack, storage, late, changes, faults>>

\* SignalOutputFlashConfigSet: the critical section ends before flashCfgKnown is read.
Snapshot ==
  /\ pc["parser"] = "snapshot"
  /\ newCfg' = runtime
  /\ Goes("parser", "compare")
  /\ UNCHANGED <<card, commanded, records, newRecord, loaded, storage, late, changes, faults>>

\* AdapterWrite finds in its records what an earlier call left on the stack, or something else.
CompareWithSaved ==
  /\ pc["parser"] = "compare"
  /\ IF known /\ newCfg # lastSaved
     THEN /\ Goes("parser", "ask")
          /\ \E r \in {records["parser"], [s \in Slot |-> Blank]} :
               records' = [records EXCEPT !["parser"] = r]
     ELSE Goes("parser", "idle") /\ UNCHANGED records
  /\ UNCHANGED <<card, commanded, newCfg, newRecord, loaded, storage, late, changes, faults>>

BuildAndWrite ==
  /\ pc["parser"] = "select"
  /\ newRecord' = RecordBuild(NextSequence(records["parser"]), newCfg)
  /\ Request("parser", "write", TargetSlot(records["parser"]))
  /\ Goes("parser", "write")
  /\ UNCHANGED <<card, commanded, newCfg, records, loaded, changes>>

SaveEnds ==
  /\ pc["parser"] = "write"
  /\ \E ok \in BOOLEAN :
       /\ Returns("parser", ok)
       /\ lastSaved' = IF ok THEN newCfg ELSE lastSaved
  /\ Goes("parser", "idle")
  /\ UNCHANGED <<slots, runtime, known, commanded, stack, changes>>

ParserStep ==
  \/ AskRead("parser") \/ TakeRead("parser")
  \/ Snapshot \/ CompareWithSaved \/ BuildAndWrite \/ SaveEnds

-----------------------------------------------------------------------------
(* The measurement task, once: CANSignalOutputFlashConfigCheck *)

\* What was loaded replaces whatever CP commanded meanwhile; a failed load sets all steady.
ApplyLoaded ==
  /\ pc["boot"] = "select"
  /\ LET latest == SelectLatest(records["boot"])
     IN IF latest = NoSlot
        THEN runtime' = Steady /\ Goes("boot", "done") /\ UNCHANGED loaded
        ELSE /\ runtime' = records["boot"][latest].pattern
             /\ loaded' = records["boot"][latest].pattern
             /\ Goes("boot", "loaded")
  /\ UNCHANGED <<slots, lastSaved, known, commanded, newCfg, records, newRecord, storage,
                 late, changes, faults>>

\* Wrong: remembers what is in effect, which a frame may have changed since.
RememberRuntime ==
  /\ pc["boot"] = "loaded"
  /\ lastSaved' = runtime
  /\ known' = TRUE
  /\ Goes("boot", "done")
  /\ UNCHANGED <<slots, runtime, commanded, stack, storage, late, changes, faults>>

RememberLoaded ==
  /\ pc["boot"] = "loaded"
  /\ lastSaved' = loaded
  /\ known' = TRUE
  /\ Goes("boot", "done")
  /\ UNCHANGED <<slots, runtime, commanded, stack, storage, late, changes, faults>>

BootStep == AskRead("boot") \/ TakeRead("boot") \/ ApplyLoaded \/ RememberLoaded

-----------------------------------------------------------------------------
(* The storage task *)

Answer(result) ==
  /\ flag' = [flag EXCEPT ![Head(queue).from] = result]
  /\ queue' = Tail(queue)
  /\ erased' = FALSE

ServeRead ==
  /\ queue # <<>> /\ Head(queue).op = "read"
  /\ LET c == Head(queue).from
         s == Head(queue).slot
     IN records' = [records EXCEPT ![c][s] = slots[s]]
  /\ Answer("ok")
  /\ UNCHANGED <<card, commanded, pc, newCfg, newRecord, loaded, late, changes, faults>>

\* FlashWrite: erase the page, then program the record word by word.
ErasePage ==
  /\ queue # <<>> /\ Head(queue).op = "write" /\ ~erased
  /\ slots' = [slots EXCEPT ![Head(queue).slot] = Blank]
  /\ erased' = TRUE
  /\ UNCHANGED <<runtime, lastSaved, known, commanded, pc, stack, queue, flag, late, changes, faults>>

\* The record still stands only while its own request is the one waited for.
OnStack ==
  IF pc["parser"] = "write" /\ \A i \in 2..Len(queue) : queue[i].op = "read"
  THEN {newRecord} ELSE {newRecord, Blank}

ProgramRecord ==
  /\ erased
  /\ \E r \in OnStack : slots' = [slots EXCEPT ![Head(queue).slot] = r]
  /\ Answer("ok")
  /\ UNCHANGED <<runtime, lastSaved, known, commanded, pc, stack, late, changes, faults>>

\* Erasing fails and leaves the page as it is, or programming leaves a torn record.
FailWrite ==
  /\ queue # <<>> /\ Head(queue).op = "write" /\ faults < MaxFaults
  /\ Answer("error")
  /\ faults' = faults + 1
  /\ UNCHANGED <<card, commanded, pc, stack, late, changes>>

StorageStep == ServeRead \/ ErasePage \/ ProgramRecord \/ FailWrite

-----------------------------------------------------------------------------
(* CP and the power *)

CpCommands ==
  /\ changes < MaxChanges
  /\ commanded' \in Patterns \ {commanded}
  /\ changes' = changes + 1
  /\ UNCHANGED <<card, pc, stack, storage, late, faults>>

\* The card restarts with what is in its flash.
PowerLoss ==
  /\ faults < MaxFaults
  /\ faults' = faults + 1
  /\ runtime' = Steady /\ lastSaved' = Steady /\ known' = FALSE
  /\ pc' = [c \in Client |-> IF c = "boot" THEN "ask" ELSE "idle"]
  /\ newCfg' = Steady /\ newRecord' = Blank /\ loaded' = Steady
  /\ records' = [c \in Client |-> [s \in Slot |-> Blank]]
  /\ queue' = <<>> /\ flag' = [c \in Client |-> "none"] /\ erased' = FALSE
  /\ late' = FALSE
  /\ UNCHANGED <<slots, commanded, changes>>

Next ==
  \/ FlashFrame \/ OutputFrame \/ ParserStep
  \/ BootStep \/ StorageStep
  \/ CpCommands \/ PowerLoss

\* The tasks are never starved, and CP repeats the pattern for ever.
Fairness ==
  /\ WF_vars(ParserStep) /\ WF_vars(BootStep)
  /\ WF_vars(ServeRead \/ ErasePage \/ ProgramRecord)
  /\ SF_vars(FlashFrame)

Spec == Init /\ [][Next]_vars

FairSpec == Spec /\ Fairness

-----------------------------------------------------------------------------
(* What the card promises *)

\* What a card loads that boots with these pages, if anything.
StoredIn(r) ==
  IF SelectLatest(r) = NoSlot THEN {} ELSE {r[SelectLatest(r)].pattern}

StoredPattern == StoredIn(slots)

Operation == [from : Client, op : {"read", "write"}, slot : Slot]

TypeOK ==
  /\ slots \in [Slot -> Record]
  /\ {commanded, runtime, lastSaved, newCfg, loaded} \subseteq Patterns
  /\ known \in BOOLEAN /\ erased \in BOOLEAN /\ late \in BOOLEAN
  /\ pc \in [Client -> {"idle", "snapshot", "compare", "ask", "read", "askNext",
                        "readNext", "select", "write", "loaded", "done"}]
  /\ records \in [Client -> [Slot -> Record]] /\ newRecord \in Record
  /\ queue \in Seq(Operation)
  /\ flag \in [Client -> {"none", "ok", "error"}]
  /\ changes \in 0..MaxChanges /\ faults \in 0..MaxFaults

\* Whatever fails or loses power, and however sequence numbers wrap, the pattern
\* a boot would load stays the old one until it is the one being saved
\* (AdapterWrite: "a new commit never erases the previously valid record first");
\* nothing is claimed of that once a wait expired. A card that has loaded nothing
\* leaves its journal alone in any case (flashCfgKnown).
PatternChangesAtOnce ==
  [][\/ StoredPattern' = StoredPattern
     \/ known /\ (late \/ (pc["parser"] = "write" /\ StoredPattern' = {newCfg}))]_vars

\* The card's belief in what is stored, on which it skips writing, is right:
\* lastSavedFlashCfg follows the journal through failed writes and restarts.
SavedIsStored ==
  known /\ ~late =>
    \/ StoredPattern = {lastSaved}
    \/ pc["parser"] = "write" /\ StoredPattern = {newCfg}

\* The pattern CP goes on commanding ends up in flash, whenever the card could
\* load one and no wait expired: each failure is repaired by a later frame.
CommandIsStored == <>[](known /\ ~late => StoredPattern = {commanded})

=============================================================================
