------------------------- MODULE ConfigTransaction -------------------------
(***************************************************************************)
(* How CP changes its stored configuration: one candidate, edited through  *)
(* the NTCIP database transaction by SNMP sessions (the lwIP thread) and   *)
(* by the operator panel (the control task), and beside the transaction by *)
(* the panel's local settings; a commit that erases and writes the flash   *)
(* slot not in use while the other thread goes on; the load at start; and  *)
(* the factory reset.  The lwIP thread has the higher priority: its        *)
(* requests are one step unless they wait for the flash, those of the      *)
(* control task can be cut in two.  Power may fail in any state, with the  *)
(* flash operation under way half done.                                    *)
(***************************************************************************)
EXTENDS Naturals

CONSTANTS
  Snmp, Mmi,      \* sessions of the database transaction, by the thread that serves them
  Plan,           \* what a configuration may say
  Valid,          \* those IntersectionConfigValidate accepts
  Supported,      \* and those IntersectionConfigValidateRuntimeSupport accepts as well
  DefaultPlan,    \* IntersectionConfigInitDefaults
  Repository,     \* the adapter behind IConfigRepositoryPort: "MOCK" or "STM32"
  MaxGeneration,  \* bound on the generation a change is begun at
  MaxCollided,    \* the same once two writers have collided
  MaxDisturbances \* bound on failing flash operations, power losses and collisions together

ASSUME ConfigAssumption ==
  /\ DefaultPlan \in Supported /\ Supported \subseteq Valid /\ Valid \subseteq Plan
  /\ {"NO CHANGE", "JUNK"} \cap Plan = {}
  /\ Snmp \cap Mmi = {}
  /\ {"LOCAL", "NOBODY"} \cap (Snmp \cup Mmi) = {}
  /\ Repository \in {"MOCK", "STM32"}
  /\ {MaxGeneration, MaxCollided, MaxDisturbances} \subseteq Nat

Session == Snmp \cup Mmi
Thread  == {"lwip", "control"}
Slot    == {"A", "B"}

VARIABLES
  powered,    \* CP runs; otherwise it has lost power or reset and not yet loaded
  candidate,  \* ConfigurationCandidate_t: in use, and what it changes, if anything
  active,     \* activeConfig, activeGeneration and activeSlot
  db,         \* NtcipDbTransactionService_t: state, owner, and whether verify succeeded
  job,        \* per thread, the operation it is in the middle of
  flash,      \* the two slots
  disturbances,  \* flash operations that failed, and power losses
  \* history
  collided,   \* two writers took the candidate at once
  wiped,      \* a factory reset has begun to erase since the last start
  stranded    \* a commit of the local settings failed since the last start

ramVars == <<candidate, active, db>>
history == <<collided, wiped, stranded>>
vars    == <<powered, ramVars, job, flash, disturbances, history>>

NoChange  == "NO CHANGE"   \* an overlay that sets nothing
Junk      == "JUNK"        \* a payload that is blank or half written

Step ==
  {"idle", "take", "change", "commit",
   "erase", "header", "payload", "compare", "mark", "confirm",
   "wipeA", "wipeB", "journal"}
FlashStep == {"erase", "header", "payload", "compare", "mark", "confirm",
              "wipeA", "wipeB", "journal"}

Job == [step : Step, by : Session \cup {"LOCAL", "NOBODY"}, plan : Plan,
        generation : Nat, target : Slot]
Idle == [step |-> "idle", by |-> "NOBODY", plan |-> DefaultPlan,
         generation |-> 0, target |-> "A"]

\* A slot as the code reads it: the generation of a header whose magic, schema and
\* CRC are right (0 otherwise), the plan that header's payload CRC was made of, the
\* state word, which the header CRC leaves out, and the payload.
SlotContent == [header : Nat, plan : Plan, state : {"ERASED", "WRITING", "VALID"},
                payload : Plan \cup {Junk}]
Blank == [header |-> 0, plan |-> DefaultPlan, state |-> "ERASED", payload |-> Junk]

TypeOK ==
  /\ powered \in BOOLEAN
  /\ candidate \in [inUse : BOOLEAN, overlay : Plan \cup {NoChange}]
  /\ active \in [slot : Slot \cup {"NONE"}, generation : Nat, plan : Plan]
  /\ db \in [state : {"NORMAL", "TRANSACTION", "DONE"},
             owner : Session \cup {"NOBODY"}, verified : BOOLEAN]
  /\ job \in [Thread -> Job]
  /\ flash \in [Slot -> SlotContent]
  /\ disturbances \in 0..MaxDisturbances
  /\ {collided, wiped, stranded} \subseteq BOOLEAN

-----------------------------------------------------------------------------
(* ConfigurationService: the candidate and the slots *)

Cleared == [inUse |-> FALSE, overlay |-> NoChange]
Taken   == [inUse |-> TRUE, overlay |-> NoChange]

\* MaterializeCandidate.
Materialized == IF candidate.overlay = NoChange THEN active.plan ELSE candidate.overlay

\* LoadSlot.
SlotValid(s) ==
  /\ s.header # 0 /\ s.state = "VALID"
  /\ s.payload = s.plan /\ s.plan \in Valid

\* Wrong: slot A is good enough.
SelectedSlotFirst(f) ==
  IF SlotValid(f["A"]) THEN "A" ELSE IF SlotValid(f["B"]) THEN "B" ELSE "NONE"

\* ConfigurationServiceLoad: slot B only if its generation is the higher one.
SelectedSlot(f) ==
  IF /\ SlotValid(f["B"])
     /\ SlotValid(f["A"]) => f["B"].header > f["A"].header
  THEN "B"
  ELSE IF SlotValid(f["A"]) THEN "A" ELSE "NONE"

Loaded(f) ==
  LET slot == SelectedSlot(f)
  IN  IF slot = "NONE" THEN [slot |-> "NONE", generation |-> 0, plan |-> DefaultPlan]
      ELSE [slot |-> slot, generation |-> f[slot].header, plan |-> f[slot].plan]

\* Wrong: the slot in force is written over.
CommitTargetInForce == IF active.slot = "NONE" THEN "B" ELSE active.slot

\* Wrong: the same, and the first commit has none.
CommitTargetUnset == active.slot

\* SelectCommitTarget.
CommitTarget == IF active.slot = "B" THEN "A" ELSE "B"

-----------------------------------------------------------------------------
(* NtcipDbTransactionService *)

Normal == [state |-> "NORMAL", owner |-> "NOBODY", verified |-> FALSE]
Opened(s) == [state |-> "TRANSACTION", owner |-> s, verified |-> FALSE]

ThreadOf(s) == IF s \in Snmp THEN "lwip" ELSE "control"

\* A thread serves a request when it is done with the one before.
Serving(t) == powered /\ job[t].step = "idle"

Requests(s, state) ==
  /\ Serving(ThreadOf(s))
  /\ db.state = state /\ db.owner = s

\* The bounds on new changes.
WithinBounds ==
  active.generation < IF collided THEN MaxCollided ELSE MaxGeneration

Colliding == job["control"].step = "take" /\ candidate.inUse

\* The bound on what goes wrong: one more thing may.
Disturbed ==
  disturbances + (IF collided \/ Colliding THEN 1 ELSE 0) < MaxDisturbances

\* dbCreateTransaction := transaction from SNMP; the control task cannot run between
\* the check of inUse and its assignment.
SnmpCreate(s) ==
  /\ Serving("lwip") /\ db.state = "NORMAL" /\ ~candidate.inUse
  /\ WithinBounds /\ (job["control"].step = "take" => Disturbed)
  /\ candidate' = Taken /\ db' = Opened(s)
  /\ UNCHANGED <<powered, active, job, flash, disturbances, history>>

\* The control task, for a panel session or for a local setting, finds the
\* candidate free...
ControlFindsFree(by) ==
  /\ Serving("control") /\ ~candidate.inUse /\ WithinBounds
  /\ by \in Mmi => db.state = "NORMAL"
  /\ job' = [job EXCEPT !["control"] = [Idle EXCEPT !.step = "take", !.by = by]]
  /\ UNCHANGED <<powered, ramVars, flash, disturbances, history>>

\* ...and takes it, though lwIP may have taken it in between.
ControlTakes ==
  LET by == job["control"].by IN
  /\ job["control"].step = "take"
  /\ candidate' = Taken
  /\ db' = IF by \in Mmi THEN Opened(by) ELSE db
  /\ job' = [job EXCEPT !["control"] =
               IF by \in Mmi THEN Idle ELSE [@ EXCEPT !.step = "change"]]
  /\ collided' = (collided \/ Colliding)
  /\ UNCHANGED <<powered, active, flash, disturbances, wiped, stranded>>

\* Wrong: the state of the transaction is not looked at.
EditAnyTime(s, p) ==
  /\ Serving(ThreadOf(s)) /\ db.owner = s /\ candidate.inUse
  /\ candidate' = [candidate EXCEPT !.overlay = p]
  /\ UNCHANGED <<powered, active, db, job, flash, disturbances, history>>

\* A database object is written; ValidateDatabaseWrite lets only the owner through.
Edit(s, p) ==
  /\ Requests(s, "TRANSACTION") /\ candidate.inUse
  /\ candidate' = [candidate EXCEPT !.overlay = p]
  /\ UNCHANGED <<powered, active, db, job, flash, disturbances, history>>

\* dbCreateTransaction := verify.
Verify(s) ==
  /\ Requests(s, "TRANSACTION")
  /\ db' = [db EXCEPT !.state = "DONE",
              !.verified = candidate.inUse /\ Materialized \in Supported]
  /\ UNCHANGED <<powered, candidate, active, job, flash, disturbances, history>>

\* dbCreateTransaction := normal before verify, or after a verify that failed.
Rollback(s) ==
  /\ Requests(s, "TRANSACTION") \/ (Requests(s, "DONE") /\ ~db.verified)
  /\ candidate' = Cleared /\ db' = Normal
  /\ UNCHANGED <<powered, active, job, flash, disturbances, history>>

\* dbCreateTransaction := transaction after verify: back to editing.
Reopen(s) ==
  /\ Requests(s, "DONE")
  /\ db' = [db EXCEPT !.state = "TRANSACTION", !.verified = FALSE]
  /\ UNCHANGED <<powered, candidate, active, job, flash, disturbances, history>>
\* MmiLocalSettingsService writes its value into the candidate and verifies it.
LocalChange(p) ==
  LET passes == candidate.inUse /\ p \in Supported IN
  /\ job["control"].step = "change"
  /\ candidate' = IF passes THEN [candidate EXCEPT !.overlay = p] ELSE Cleared
  /\ job' = [job EXCEPT !["control"] = IF passes THEN [@ EXCEPT !.step = "commit"] ELSE Idle]
  /\ UNCHANGED <<powered, active, db, flash, disturbances, history>>

-----------------------------------------------------------------------------
(* ConfigurationServiceCommit *)

\* Wrong: nobody rolls back.
FailJobKeeping(t) ==
  /\ job' = [job EXCEPT ![t] = Idle]
  /\ db' = IF job[t].by \in Session THEN Normal ELSE db
  /\ UNCHANGED <<candidate, active, collided, stranded>>

\* The session's or the local setting's answer to a commit that fails: a session
\* rolls back, a local setting returns.
FailJob(t) ==
  LET by == job[t].by IN
  /\ job' = [job EXCEPT ![t] = Idle]
  /\ IF by \in Session THEN candidate' = Cleared /\ db' = Normal
     ELSE UNCHANGED <<candidate, db>>
  /\ stranded' = (stranded \/ (by = "LOCAL" /\ job[t].step \notin {"wipeA", "wipeB", "journal"}))
  /\ UNCHANGED <<active, collided>>

\* Wrong: the generation in force is used again.
CommitsAgain(by) ==
  [step |-> "erase", by |-> by, plan |-> Materialized,
   generation |-> IF active.generation = 0 THEN 1 ELSE active.generation,
   target |-> CommitTarget]

\* What the commit will write is fixed here: the candidate may change later.
Commits(by) ==
  [step |-> "erase", by |-> by, plan |-> Materialized,
   generation |-> active.generation + 1, target |-> CommitTarget]

MayCommit == candidate.inUse /\ Materialized \in Valid

\* dbCreateTransaction := normal after a verify that succeeded; the panel's
\* COMMIT and its ROLLBACK both come to this.
Finish(s) ==
  /\ Requests(s, "DONE") /\ db.verified
  /\ IF MayCommit
     THEN job' = [job EXCEPT ![ThreadOf(s)] = Commits(s)] /\ UNCHANGED <<candidate, db>>
     ELSE job' = job /\ candidate' = Cleared /\ db' = Normal
  /\ UNCHANGED <<powered, active, flash, disturbances, history>>

LocalCommit ==
  /\ job["control"].step = "commit"
  /\ IF MayCommit
     THEN job' = [job EXCEPT !["control"] = Commits("LOCAL")]
          /\ UNCHANGED <<candidate, active, db, history>>
     ELSE FailJob("control") /\ UNCHANGED wiped
  /\ UNCHANGED <<powered, flash, disturbances>>

-----------------------------------------------------------------------------
(* The flash: one storage task serves the threads' requests one after another *)

\* FlashWrite of the target takes whole flash words only; the mock takes anything.
Aligned(offset) == Repository = "MOCK" \/ offset % 32 = 0

\* FlashErase of the target refuses a range that ends with the last byte of the
\* memory, which slot B does; the journal lies in EEPROM and cannot be erased.
Erasable(slot) == Repository = "MOCK" \/ slot # "B"

Accepted(t) ==
  CASE job[t].step = "erase"   -> Erasable(job[t].target)
    [] job[t].step = "header"  -> Aligned(0)
    [] job[t].step = "payload" -> Aligned(40)
    [] job[t].step = "mark"    -> Aligned(24)
    [] job[t].step = "wipeB"   -> Erasable("B")
    [] job[t].step = "journal" -> Repository = "MOCK"
    [] OTHER -> TRUE

TouchedSlot(t) ==
  CASE job[t].step = "wipeA" -> "A" [] job[t].step = "wipeB" -> "B" [] OTHER -> job[t].target

\* What the operation leaves in its slot when it completes.
Complete(t, s) ==
  CASE job[t].step \in {"erase", "wipeA", "wipeB"} -> Blank
    [] job[t].step = "header" ->
         [s EXCEPT !.header = job[t].generation, !.plan = job[t].plan, !.state = "WRITING"]
    [] job[t].step = "payload" -> [s EXCEPT !.payload = job[t].plan]
    [] job[t].step = "mark" -> [s EXCEPT !.state = "VALID"]
    [] OTHER -> s

\* What it may leave besides when it is cut short.
Halfway(t, s) ==
  CASE job[t].step \in {"erase", "wipeA", "wipeB"} ->
         {Blank, [s EXCEPT !.payload = Junk], [s EXCEPT !.state = "ERASED"]}
    [] job[t].step = "header" ->
         {[s EXCEPT !.header = 0, !.plan = DefaultPlan, !.state = "WRITING"]}
    [] job[t].step = "payload" -> {[s EXCEPT !.payload = Junk]}
    [] OTHER -> {}

Torn(t, s) == {s, Complete(t, s)} \cup Halfway(t, s)

\* flash after the operation of t was cut short.
CutShort(t) ==
  {[flash EXCEPT ![TouchedSlot(t)] = r] : r \in Torn(t, flash[TouchedSlot(t)])}

Wipes(t) == job[t].step \in {"wipeA", "wipeB"}

Following(step) ==
  CASE step = "erase" -> "header" [] step = "header" -> "payload"
    [] step = "payload" -> "compare" [] step = "mark" -> "confirm"
    [] step = "wipeA" -> "wipeB"  [] step = "wipeB" -> "journal"

Writes(t) ==
  /\ powered /\ job[t].step \in {"erase", "header", "payload", "mark", "wipeA", "wipeB"}
  /\ Accepted(t)
  /\ flash' = [flash EXCEPT ![TouchedSlot(t)] = Complete(t, @)]
  /\ job' = [job EXCEPT ![t].step = Following(@)]
  /\ wiped' = (wiped \/ Wipes(t))
  /\ UNCHANGED <<powered, ramVars, disturbances, collided, stranded>>

\* Wrong: the comparison is repeated until it succeeds.
ComparesAgain(t) ==
  /\ powered /\ job[t].step = "compare"
  /\ job' = [job EXCEPT ![t].step =
               IF flash[job[t].target].payload = job[t].plan THEN "mark" ELSE @]
  /\ UNCHANGED <<powered, ramVars, flash, disturbances, history>>

\* The payload is read back and compared.
Compares(t) ==
  /\ powered /\ job[t].step = "compare"
  /\ IF flash[job[t].target].payload = job[t].plan
     THEN /\ job' = [job EXCEPT ![t].step = "mark"]
          /\ UNCHANGED <<ramVars, history>>
     ELSE FailJob(t) /\ UNCHANGED wiped
  /\ UNCHANGED <<powered, flash, disturbances>>

\* The mark is read back: the commit takes effect and the candidate is released.
Confirms(t) ==
  /\ powered /\ job[t].step = "confirm"
  /\ IF flash[job[t].target].state = "VALID"
     THEN /\ active' = [slot |-> job[t].target, generation |-> job[t].generation,
                        plan |-> job[t].plan]
          /\ candidate' = Cleared
          /\ db' = IF job[t].by \in Session THEN Normal ELSE db
          /\ job' = [job EXCEPT ![t] = Idle]
          /\ UNCHANGED history
     ELSE FailJob(t) /\ UNCHANGED wiped
  /\ UNCHANGED <<powered, flash, disturbances>>

\* The storage task refuses an operation, or one fails part of the way.
FlashFails(t) ==
  /\ powered /\ job[t].step \in FlashStep
  /\ \/ ~Accepted(t) /\ UNCHANGED <<flash, disturbances, wiped>>
     \/ /\ Disturbed /\ disturbances' = disturbances + 1
        /\ flash' \in CutShort(t)
        /\ wiped' = (wiped \/ Wipes(t))
  /\ FailJob(t)
  /\ UNCHANGED powered

-----------------------------------------------------------------------------
(* Factory reset and restarts *)

\* RequestFactoryReset, from the panel.
FactoryReset ==
  /\ Serving("control")
  /\ job' = [job EXCEPT !["control"] = [Idle EXCEPT !.step = "wipeA"]]
  /\ UNCHANGED <<powered, ramVars, flash, disturbances, history>>

\* The last of the three erasures: the defaults are loaded and CP resets.
Resets ==
  /\ powered /\ job["control"].step = "journal" /\ Accepted("control")
  /\ powered' = FALSE
  /\ active' = Loaded(flash)
  /\ candidate' = Cleared /\ db' = Normal /\ job' = [t \in Thread |-> Idle]
  /\ stranded' = FALSE
  /\ UNCHANGED <<flash, disturbances, collided, wiped>>

PowerLoss ==
  /\ powered /\ Disturbed
  /\ powered' = FALSE /\ disturbances' = disturbances + 1
  /\ flash' \in {flash} \cup UNION {CutShort(t) : t \in Thread}
  /\ wiped' = (wiped \/ \E t \in Thread : Wipes(t))
  /\ candidate' = Cleared /\ db' = Normal /\ job' = [t \in Thread |-> Idle]
  /\ stranded' = FALSE
  /\ UNCHANGED <<active, collided>>

\* What is in RAM is gone with the power, but for active, which only Boot replaces.
\* ConfigurationServiceInit loads; NtcipDbTransactionServiceInit starts NORMAL.
Boot ==
  /\ ~powered /\ powered' = TRUE
  /\ active' = Loaded(flash)
  /\ wiped' = FALSE
  /\ UNCHANGED <<candidate, db, job, flash, disturbances, collided, stranded>>

-----------------------------------------------------------------------------
\* A new controller: both slots blank, defaults in force.
Init ==
  /\ powered = TRUE
  /\ candidate = Cleared /\ db = Normal
  /\ active = [slot |-> "NONE", generation |-> 0, plan |-> DefaultPlan]
  /\ job = [t \in Thread |-> Idle]
  /\ flash = [s \in Slot |-> Blank]
  /\ disturbances = 0
  /\ collided = FALSE /\ wiped = FALSE /\ stranded = FALSE

Proceeds(t) == Writes(t) \/ Compares(t) \/ Confirms(t)

Next ==
  \/ \E s \in Snmp : SnmpCreate(s)
  \/ \E by \in Mmi \cup {"LOCAL"} : ControlFindsFree(by)
  \/ ControlTakes
  \/ \E s \in Session : \/ \E p \in Plan : Edit(s, p)
                       \/ Verify(s) \/ Rollback(s) \/ Reopen(s) \/ Finish(s)
  \/ \E p \in Plan : LocalChange(p)
  \/ LocalCommit
  \/ \E t \in Thread : Proceeds(t) \/ FlashFails(t)
  \/ FactoryReset \/ Resets \/ PowerLoss \/ Boot

Spec == Init /\ [][Next]_vars

\* The storage task serves every request and answers it, and the control task goes
\* on with what it has begun.
FairSpec ==
  /\ Spec
  /\ \A t \in Thread : WF_vars(Proceeds(t) \/ FlashFails(t))
  /\ WF_vars(ControlTakes) /\ WF_vars(\E p \in Plan : LocalChange(p))
  /\ WF_vars(LocalCommit) /\ WF_vars(Resets) /\ WF_vars(Boot)

-----------------------------------------------------------------------------
(* Properties *)

StoredImage == [generation |-> Loaded(flash).generation, plan |-> Loaded(flash).plan]
RunImage    == [generation |-> active.generation, plan |-> active.plan]

Store == INSTANCE ConfigStore WITH durable <- StoredImage, inForce <- RunImage

Undisturbed == ~collided /\ ~wiped

\* Whatever operation power fails in, and whichever operations fail, the next start
\* loads the configuration in force or, whole, the one being committed: apart from
\* factory resets and two writers at once, the slots behave like a store that is
\* replaced in one step (ConfigurationServiceCommit, ConfigurationServiceLoad).
KeepsStore == Store!Init /\ [][Undisturbed' => Store!Next]_<<StoredImage, RunImage>>

\* No start brings back a configuration older than the one that ran: what fails or
\* is cut short costs at most the commit under way, unless a factory reset erased.
NeverOlder == [][Undisturbed /\ Undisturbed' => active'.generation >= active.generation]_active

\* The start never has to choose between two images of one generation, whatever was
\* cut short, reset or written by two threads at once.
BootIsUnambiguous ==
  SlotValid(flash["A"]) /\ SlotValid(flash["B"]) => flash["A"].header # flash["B"].header

\* No configuration runs that verify would have refused, although commit and load
\* check less than verify does: what was verified is what is committed.
InForceIsSupported == ~collided => active.plan \in Supported

\* The candidate is in use only while somebody can still release it: an open
\* transaction or a local setting under way.  The exception is a local setting
\* whose commit failed.
CandidateIsReleased ==
  powered /\ candidate.inUse =>
    \/ db.state # "NORMAL"
    \/ job["control"].by = "LOCAL" /\ job["control"].step # "take"
    \/ stranded

\* An operation that waits for the flash gets its answer.
OperationsEnd ==
  \A t \in Thread : job[t].step # "idle" ~> job[t].step = "idle"

-----------------------------------------------------------------------------
(* What the documents say and the target does not do *)

\* A commit that nothing disturbs takes effect (Validation/Conformance/README.md:16,
\* "verify/commit persists").
CommitPersists ==
  \A t \in Thread : \A p \in Plan :
    (job[t].step = "erase" /\ job[t].plan = p) ~> (active.plan = p)

=============================================================================
