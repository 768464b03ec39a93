---------------------- MODULE ConfigTransactionProofs ----------------------
(***************************************************************************)
(* Proofs about ConfigTransaction, for all sessions, contents and bounds,  *)
(* and for both repositories.  Three things carry them: generations and    *)
(* slots go by parity; as long as two writers have not collided, whoever   *)
(* has the candidate has it alone; and a commit only ever touches the slot *)
(* that is not in force.                                                   *)
(***************************************************************************)
EXTENDS ConfigTransaction, TLAPS

-----------------------------------------------------------------------------
(* The inductive invariant *)

CommitStep == {"erase", "header", "payload", "compare", "mark", "confirm"}
WipeStep   == {"wipeA", "wipeB", "journal"}

Committing(t) == job[t].step \in CommitStep

\* A local setting holds the candidate.
LocalUses == job["control"].by = "LOCAL" /\ job["control"].step # "take"

\* Which thread does what, and for whom.
JobShape ==
  /\ job["lwip"].step \in {"idle"} \cup CommitStep
  /\ job["lwip"].by # "LOCAL"
  /\ job["control"].step \in {"change", "commit"} => job["control"].by = "LOCAL"
  /\ \A t \in Thread :
       /\ job[t].by = "NOBODY" <=> job[t].step \in {"idle"} \cup WipeStep
       /\ job[t].by \in Session => ThreadOf(job[t].by) = t
       /\ job[t].step \in {"wipeB", "journal"} => wiped
  /\ ~powered => /\ candidate = Cleared /\ db = Normal
                 /\ \A t \in Thread : job[t] = Idle

\* Slot B holds the odd generations.
OfSlot(s, n) == n # 0 /\ (s = "B" <=> n % 2 = 1)

Parity ==
  /\ \A s \in Slot : flash[s].header # 0 => OfSlot(s, flash[s].header)
  /\ \A t \in Thread : Committing(t) => OfSlot(job[t].target, job[t].generation)
  /\ IF active.slot = "NONE" THEN active.generation = 0
     ELSE OfSlot(active.slot, active.generation)

\* One at a time: a transaction or a local setting, and one of the sessions.
Exclusive ==
  ~collided =>
    /\ db.state # "NORMAL" => candidate.inUse
    /\ LocalUses => candidate.inUse /\ db.state = "NORMAL"
    /\ \A t \in Thread : Committing(t) /\ job[t].by \in Session =>
         db.state = "DONE" /\ db.owner = job[t].by

\* What verify has accepted stays as it was, on its way into a slot and into force.
Verified == candidate.overlay \in Supported \cup {NoChange}

StaysVerified ==
  ~collided =>
    /\ active.plan \in Supported
    /\ \A s \in Slot : flash[s].header # 0 => flash[s].plan \in Supported
    /\ \A t \in Thread : Committing(t) => job[t].plan \in Supported
    /\ db.state = "DONE" /\ db.verified => Verified
    /\ job["control"].step = "commit" => Verified

\* The image in force is in its slot, or there is none...
InForceIsStored ==
  IF active.slot = "NONE" THEN active.plan = DefaultPlan /\ ~SlotValid(flash["A"])
  ELSE /\ SlotValid(flash[active.slot])
       /\ flash[active.slot].header = active.generation
       /\ flash[active.slot].plan = active.plan

\* ...and the slot a commit writes holds what it has written so far, which is an
\* image only once it is marked.
TargetHoldsCommit ==
  \A t \in Thread : Committing(t) =>
    LET s == flash[CommitTarget] IN
    /\ job[t].target = CommitTarget
    /\ job[t].generation = active.generation + 1
    /\ job[t].step = "header" => s.header = 0
    /\ job[t].step \in {"payload", "compare", "mark", "confirm"} =>
         s.header = job[t].generation /\ s.plan = job[t].plan
    /\ job[t].step \in {"payload", "compare", "mark"} => s.state # "VALID"
    /\ job[t].step \in {"compare", "mark", "confirm"} => s.payload = job[t].plan
    /\ job[t].step = "confirm" => s.state = "VALID"

Kept ==
  Undisturbed =>
    /\ InForceIsStored
    /\ TargetHoldsCommit
    /\ SlotValid(flash[CommitTarget]) =>
         flash[CommitTarget].header <= active.generation + 1

IInv ==
  /\ TypeOK /\ JobShape /\ Parity /\ Exclusive /\ StaysVerified /\ Kept
  /\ CandidateIsReleased

-----------------------------------------------------------------------------
(* Loading, and operations cut short *)

ActiveState == [slot : Slot \cup {"NONE"}, generation : Nat, plan : Plan]

\* The parts of the assumption, one by one.
LEMMA Constants ==
  /\ DefaultPlan \in Plan /\ DefaultPlan \in Supported
  /\ Supported \subseteq Plan /\ Valid \subseteq Plan /\ Supported \subseteq Valid
  /\ NoChange \notin Plan /\ Junk \notin Plan
  /\ "NOBODY" \notin Session /\ "LOCAL" \notin Session
  /\ \A s \in Mmi : s \notin Snmp
  /\ MaxDisturbances \in Nat
  BY ConfigAssumption DEF Session, NoChange, Junk

\* What is loaded is the contents of a valid slot, or the defaults.
LEMMA LoadedProperties ==
  ASSUME NEW f \in [Slot -> SlotContent]
  PROVE  /\ Loaded(f) \in ActiveState
         /\ Loaded(f).slot = "NONE" =>
              /\ Loaded(f).generation = 0 /\ Loaded(f).plan = DefaultPlan
              /\ ~SlotValid(f["A"]) /\ ~SlotValid(f["B"])
         /\ Loaded(f).slot # "NONE" =>
              /\ Loaded(f).slot \in Slot
              /\ SlotValid(f[Loaded(f).slot])
              /\ Loaded(f).generation = f[Loaded(f).slot].header
              /\ Loaded(f).plan = f[Loaded(f).slot].plan
              /\ \A s \in Slot : SlotValid(f[s]) => f[s].header <= Loaded(f).generation
<1>1. /\ f["A"] \in SlotContent /\ f["B"] \in SlotContent
      /\ f["A"].header \in Nat /\ f["B"].header \in Nat
      /\ f["A"].plan \in Plan /\ f["B"].plan \in Plan
  BY DEF Slot, SlotContent
<1>2. DefaultPlan \in Plan
  BY Constants
<1>3. CASE SelectedSlot(f) = "NONE"
  <2>1. ~SlotValid(f["A"]) /\ ~SlotValid(f["B"])
    BY <1>1, <1>3 DEF SelectedSlot, SlotValid
  <2>2. Loaded(f) = [slot |-> "NONE", generation |-> 0, plan |-> DefaultPlan]
    BY <1>3 DEF Loaded
  <2> QED
    BY <1>2, <2>1, <2>2 DEF ActiveState
<1>4. CASE SelectedSlot(f) = "A"
  <2>1. SlotValid(f["A"]) /\ (SlotValid(f["B"]) => f["B"].header <= f["A"].header)
    BY <1>1, <1>4 DEF SelectedSlot, SlotValid
  <2>2. Loaded(f) = [slot |-> "A", generation |-> f["A"].header, plan |-> f["A"].plan]
    BY <1>4 DEF Loaded
  <2> QED
    BY <1>1, <2>1, <2>2 DEF ActiveState, Slot
<1>5. CASE SelectedSlot(f) = "B"
  <2>1. SlotValid(f["B"]) /\ (SlotValid(f["A"]) => f["A"].header <= f["B"].header)
    BY <1>1, <1>5 DEF SelectedSlot, SlotValid
  <2>2. Loaded(f) = [slot |-> "B", generation |-> f["B"].header, plan |-> f["B"].plan]
    BY <1>5 DEF Loaded
  <2> QED
    BY <1>1, <2>1, <2>2 DEF ActiveState, Slot
<1> QED
  BY <1>3, <1>4, <1>5 DEF SelectedSlot

\* An operation touches one slot and leaves in it a slot's content.
LEMMA TornTypes ==
  ASSUME TypeOK, NEW t \in Thread, NEW s \in SlotContent
  PROVE  /\ TouchedSlot(t) \in Slot
         /\ Complete(t, s) \in SlotContent
         /\ Torn(t, s) \subseteq SlotContent
<1> USE Constants DEF SlotContent
<1>1. job[t] \in Job
  BY DEF TypeOK
<1>2. TouchedSlot(t) \in Slot
  BY <1>1 DEF TouchedSlot, Job, Slot
<1>3. Complete(t, s) \in SlotContent
  BY <1>1 DEF Complete, Blank, Job
<1>4. Halfway(t, s) \subseteq SlotContent
  <2>1. [s EXCEPT !.header = 0, !.plan = DefaultPlan, !.state = "WRITING"] \in SlotContent
    OBVIOUS
  <2>2. Blank \in SlotContent
    BY DEF Blank
  <2>3. [s EXCEPT !.payload = Junk] \in SlotContent
    OBVIOUS
  <2>4. [s EXCEPT !.state = "ERASED"] \in SlotContent
    OBVIOUS
  <2> HIDE DEF SlotContent
  <2> QED
    BY <2>1, <2>2, <2>3, <2>4 DEF Halfway
<1> QED
  BY <1>2, <1>3, <1>4 DEF Torn

\* Only the slot touched can change, to one of the contents listed in Torn.
LEMMA CutShortTypes ==
  ASSUME TypeOK, NEW t \in Thread
  PROVE  CutShort(t) \subseteq [Slot -> SlotContent]
<1>1. flash[TouchedSlot(t)] \in SlotContent
  BY TornTypes, flash["A"] \in SlotContent DEF TypeOK, Slot
<1>2. Torn(t, flash[TouchedSlot(t)]) \subseteq SlotContent
  BY <1>1, TornTypes
<1> QED
  BY <1>2 DEF CutShort, TypeOK

\* What verify, edits and commits are given has the right type.
LEMMA DataTypes ==
  ASSUME TypeOK
  PROVE  /\ Materialized \in Plan
         /\ CommitTarget \in Slot
         /\ \A by \in Session \cup {"LOCAL"} : Commits(by) \in Job
         /\ Idle \in Job
<1> USE Constants
<1>1. Materialized \in Plan
  BY DEF Materialized, TypeOK
<1>2. CommitTarget \in Slot
  BY DEF CommitTarget, Slot
<1>3. \A by \in Session \cup {"LOCAL"} : Commits(by) \in Job
  <2>1. active.generation \in Nat
    BY DEF TypeOK
  <2>2. "erase" \in Step
    BY DEF Step
  <2> SUFFICES ASSUME NEW by \in Session \cup {"LOCAL"} PROVE Commits(by) \in Job
    OBVIOUS
  <2> DEFINE generation == active.generation + 1
  <2>3. generation \in Nat
    BY <2>1
  <2>4. Commits(by) = [step |-> "erase", by |-> by, plan |-> Materialized,
                       generation |-> generation, target |-> CommitTarget]
    BY DEF Commits
  <2> HIDE DEF generation
  <2> QED
    BY <1>1, <1>2, <2>2, <2>3, <2>4 DEF Job
<1>4. Idle \in Job
  BY DEF Idle, Job, Step, Slot
<1> QED
  BY <1>1, <1>2, <1>3, <1>4

-----------------------------------------------------------------------------
(* Types *)

\* There is room for one more disturbance.
LEMMA DisturbedBound ==
  ASSUME TypeOK, Disturbed
  PROVE  disturbances + 1 \in 0..MaxDisturbances
<1> DEFINE reserved == IF collided \/ Colliding THEN 1 ELSE 0
<1>1. reserved \in {0, 1}
  OBVIOUS
<1>2. disturbances + reserved < MaxDisturbances
  BY Zenon DEF Disturbed
<1>3. MaxDisturbances \in Nat
  BY Constants
<1>4. disturbances \in Nat
  BY <1>3 DEF TypeOK
<1> HIDE DEF reserved
<1> QED
  BY <1>1, <1>2, <1>3, <1>4

LEMMA FailJobTypes ==
  ASSUME TypeOK, NEW t \in Thread, FailJob(t)
  PROVE  /\ candidate' \in [inUse : BOOLEAN, overlay : Plan \cup {NoChange}]
         /\ active' = active
         /\ db' \in [state : {"NORMAL", "TRANSACTION", "DONE"},
                    owner : Session \cup {"NOBODY"}, verified : BOOLEAN]
         /\ job' \in [Thread -> Job]
         /\ {collided, stranded}' \subseteq BOOLEAN
<1>1. Idle \in Job
  BY DataTypes
<1>2. job' \in [Thread -> Job]
  BY <1>1 DEF FailJob, TypeOK
<1>3. CASE job[t].by \in Session
  <2>1. candidate' = Cleared /\ db' = Normal
    BY <1>3 DEF FailJob
  <2> QED
    BY <1>2, <2>1 DEF FailJob, TypeOK, Cleared, Normal
<1>4. CASE job[t].by \notin Session
  BY <1>2, <1>4 DEF FailJob, TypeOK
<1> QED
  BY <1>3, <1>4

LEMMA TypesKept == TypeOK /\ [Next]_vars => TypeOK'
<1> SUFFICES ASSUME TypeOK, [Next]_vars PROVE TypeOK'
  OBVIOUS
<1> USE Constants DEF TypeOK
<1>0. CASE UNCHANGED vars
  BY <1>0 DEF vars, ramVars, history
<1>1. ASSUME NEW s \in Snmp, SnmpCreate(s) PROVE TypeOK'
  BY <1>1 DEF SnmpCreate, Taken, Opened, history, Session
<1>2. ASSUME NEW by \in Mmi \cup {"LOCAL"}, ControlFindsFree(by) PROVE TypeOK'
  <2>1. [Idle EXCEPT !.step = "take", !.by = by] \in Job
    BY DEF Idle, Job, Step, Slot, Session
  <2> QED
    BY <1>2, <2>1 DEF ControlFindsFree, ramVars, history
<1>3. CASE ControlTakes
  <2>1. [job["control"] EXCEPT !.step = "change"] \in Job /\ Idle \in Job
    BY DataTypes DEF Job, Step, Thread
  <2>2. job' \in [Thread -> Job]
    BY <1>3, <2>1 DEF ControlTakes, Thread
  <2> QED
    BY <1>3, <2>2 DEF ControlTakes, Taken, Opened, Session, Colliding
<1>4. ASSUME NEW s \in Session, NEW p \in Plan, Edit(s, p) PROVE TypeOK'
  BY <1>4 DEF Edit, history
<1>5. ASSUME NEW s \in Session, Verify(s) PROVE TypeOK'
  BY <1>5 DEF Verify, history
<1>6. ASSUME NEW s \in Session, Rollback(s) PROVE TypeOK'
  BY <1>6 DEF Rollback, Cleared, Normal, history
<1>7. ASSUME NEW s \in Session, Reopen(s) PROVE TypeOK'
  BY <1>7 DEF Reopen, history
<1>8. ASSUME NEW s \in Session, Finish(s) PROVE TypeOK'
  <2>1. Commits(s) \in Job /\ ThreadOf(s) \in Thread
    BY DataTypes DEF ThreadOf, Thread
  <2>2. job' \in [Thread -> Job]
    BY <1>8, <2>1 DEF Finish
  <2>3. CASE MayCommit
    BY <1>8, <2>2, <2>3 DEF Finish, history
  <2>4. CASE ~MayCommit
    <3>1. candidate' = Cleared /\ db' = Normal
      BY <1>8, <2>4 DEF Finish
    <3> QED
      BY <1>8, <2>2, <3>1 DEF Finish, Cleared, Normal, history
  <2> QED
    BY <2>3, <2>4
<1>9. ASSUME NEW p \in Plan, LocalChange(p) PROVE TypeOK'
  <2>1. [job["control"] EXCEPT !.step = "commit"] \in Job /\ Idle \in Job
    BY DataTypes DEF Job, Step, Thread
  <2>2. job' \in [Thread -> Job]
    BY <1>9, <2>1 DEF LocalChange, Thread
  <2> QED
    BY <1>9, <2>2 DEF LocalChange, Cleared, history
<1>10. CASE LocalCommit
  <2>1. "control" \in Thread /\ Commits("LOCAL") \in Job
    BY DataTypes DEF Thread
  <2>2. CASE MayCommit
    <3>1. job' \in [Thread -> Job]
      BY <1>10, <2>1, <2>2 DEF LocalCommit
    <3> QED
      BY <1>10, <2>2, <3>1 DEF LocalCommit, history
  <2>3. CASE ~MayCommit
    BY <1>10, <2>1, <2>3, FailJobTypes DEF LocalCommit
  <2> QED
    BY <2>2, <2>3
<1>11. ASSUME NEW t \in Thread, Writes(t) PROVE TypeOK'
  <2>1. /\ TouchedSlot(t) \in Slot
        /\ Complete(t, flash[TouchedSlot(t)]) \in SlotContent
    BY TornTypes, flash["A"] \in SlotContent DEF Slot
  <2>2. flash' \in [Slot -> SlotContent]
    BY <1>11, <2>1 DEF Writes
  <2>3. Following(job[t].step) \in Step
    BY <1>11 DEF Writes, Following, Step
  <2>4. [job[t] EXCEPT !.step = Following(@)] \in Job
    <3>1. job[t] \in Job
      OBVIOUS
    <3> HIDE DEF TypeOK
    <3> QED
      BY <2>3, <3>1 DEF Job
  <2>5. job' \in [Thread -> Job]
    BY <1>11, <2>4 DEF Writes
  <2> QED
    BY <1>11, <2>2, <2>5 DEF Writes, ramVars, Wipes
<1>12. ASSUME NEW t \in Thread, Compares(t) PROVE TypeOK'
  <2>1. CASE flash[job[t].target].payload = job[t].plan
    <3>0. [job[t] EXCEPT !.step = "mark"] \in Job
      <4>1. job[t] \in Job
        OBVIOUS
      <4> HIDE DEF TypeOK
      <4> QED
        BY <4>1 DEF Job, Step
    <3>1. job' \in [Thread -> Job]
      BY <1>12, <2>1, <3>0 DEF Compares
    <3> QED
      BY <1>12, <2>1, <3>1 DEF Compares, ramVars, history
  <2>2. CASE flash[job[t].target].payload # job[t].plan
    BY <1>12, <2>2, FailJobTypes DEF Compares
  <2> QED
    BY <2>1, <2>2
<1>13. ASSUME NEW t \in Thread, Confirms(t) PROVE TypeOK'
  <2>1. CASE flash[job[t].target].state = "VALID"
    <3>1. job' \in [Thread -> Job]
      BY <1>13, <2>1, DataTypes DEF Confirms
    <3>2. job[t].target \in Slot /\ job[t].generation \in Nat /\ job[t].plan \in Plan
      BY DEF Job
    <3>3. active' = [slot |-> job[t].target, generation |-> job[t].generation,
                     plan |-> job[t].plan]
      BY <1>13, <2>1 DEF Confirms
    <3>4. db' = Normal \/ db' = db
      BY <1>13, <2>1 DEF Confirms
    <3>5. candidate' = Cleared /\ UNCHANGED <<powered, flash, disturbances, history>>
      BY <1>13, <2>1 DEF Confirms
    <3>6. active' \in ActiveState
      BY <3>2, <3>3 DEF ActiveState
    <3>7. powered' \in BOOLEAN /\ flash' \in [Slot -> SlotContent]
      BY <3>5
    <3>8. db' \in [state : {"NORMAL", "TRANSACTION", "DONE"},
                  owner : Session \cup {"NOBODY"}, verified : BOOLEAN]
      <4>1. Normal \in [state : {"NORMAL", "TRANSACTION", "DONE"},
                        owner : Session \cup {"NOBODY"}, verified : BOOLEAN]
        BY DEF Normal
      <4> QED
        BY <3>4, <4>1
    <3>9. candidate' \in [inUse : BOOLEAN, overlay : Plan \cup {NoChange}]
      BY <3>5 DEF Cleared
    <3> QED
      BY <3>1, <3>5, <3>6, <3>7, <3>8, <3>9 DEF history, ActiveState
  <2>2. CASE flash[job[t].target].state # "VALID"
    BY <1>13, <2>2, FailJobTypes DEF Confirms
  <2> QED
    BY <2>1, <2>2
<1>14. ASSUME NEW t \in Thread, FlashFails(t) PROVE TypeOK'
  <2>1. flash' \in [Slot -> SlotContent]
    BY <1>14, CutShortTypes DEF FlashFails
  <2>2. disturbances' \in 0..MaxDisturbances
    BY <1>14, DisturbedBound DEF FlashFails
  <2>3. wiped' \in BOOLEAN
    BY <1>14 DEF FlashFails, Wipes
  <2> QED
    BY <1>14, <2>1, <2>2, <2>3, FailJobTypes DEF FlashFails
<1>15. CASE FactoryReset
  <2>1. [Idle EXCEPT !.step = "wipeA"] \in Job
    BY DEF Idle, Job, Step, Slot
  <2> QED
    BY <1>15, <2>1 DEF FactoryReset, ramVars, history
<1>16. CASE Resets
  BY <1>16, DataTypes, LoadedProperties DEF Resets, Cleared, Normal, ActiveState
<1>17. CASE PowerLoss
  <2>1. flash' \in [Slot -> SlotContent]
    <3>1. flash' = flash \/ \E t \in Thread : flash' \in CutShort(t)
      <4>1. flash' \in {flash} \cup UNION {CutShort(t) : t \in Thread}
        BY <1>17 DEF PowerLoss
      <4> HIDE DEF TypeOK
      <4> QED
        BY <4>1
    <3> QED
      BY <3>1, CutShortTypes
  <2>2. disturbances' \in 0..MaxDisturbances
    BY <1>17, DisturbedBound DEF PowerLoss
  <2> QED
    BY <1>17, <2>1, <2>2, DataTypes DEF PowerLoss, Cleared, Normal, Wipes
<1>18. CASE Boot
  BY <1>18, LoadedProperties DEF Boot, ActiveState
<1> QED
  BY <1>0, <1>1, <1>2, <1>3, <1>4, <1>5, <1>6, <1>7, <1>8, <1>9, <1>10, <1>11, <1>12,
     <1>13, <1>14, <1>15, <1>16, <1>17, <1>18 DEF Next, Proceeds

-----------------------------------------------------------------------------
(* Who does what *)

\* A job that ends, in whatever way, leaves its thread idle and the other alone.
LEMMA FailJobShape ==
  ASSUME TypeOK, JobShape, NEW t \in Thread, FailJob(t), job[t].step # "idle",
         powered, powered' = powered, wiped => wiped'
  PROVE  JobShape'
<1>1. /\ job'[t] = Idle
      /\ \A u \in Thread : u # t => job'[u] = job[u]
  BY DEF FailJob, TypeOK
<1>2. Idle.step = "idle" /\ Idle.by = "NOBODY" /\ "NOBODY" \notin Session
  BY Constants DEF Idle
<1> QED
  BY <1>1, <1>2 DEF JobShape, Thread, CommitStep, WipeStep

\* While there is no power nobody does anything.
LEMMA Working ==
  ASSUME JobShape
  PROVE  /\ \A t \in Thread : job[t].step # "idle" => powered
         /\ db.state # "NORMAL" => powered
         /\ candidate.inUse => powered
<1> QED
  BY DEF JobShape, Idle, Normal, Cleared

LEMMA ShapeKept == TypeOK /\ JobShape /\ [Next]_vars => JobShape'
<1> SUFFICES ASSUME TypeOK, JobShape, [Next]_vars PROVE JobShape'
  OBVIOUS
<1>0. CASE UNCHANGED vars
  BY <1>0 DEF vars, ramVars, history, JobShape
<1>1. ASSUME NEW s \in Snmp, SnmpCreate(s) PROVE JobShape'
  BY <1>1 DEF SnmpCreate, Serving, history, JobShape
<1>2. ASSUME NEW by \in Mmi \cup {"LOCAL"}, ControlFindsFree(by) PROVE JobShape'
  <2>1. /\ job'["control"].step = "take" /\ job'["control"].by = by
        /\ job'["lwip"] = job["lwip"] /\ powered' /\ wiped' = wiped
    BY <1>2 DEF ControlFindsFree, Serving, Idle, TypeOK, Thread, history
  <2>2. by # "NOBODY" /\ (by \in Session => ThreadOf(by) = "control")
    BY Constants DEF ThreadOf, Session
  <2> QED
    BY <2>1, <2>2 DEF JobShape, Thread, WipeStep
<1>3. CASE ControlTakes
  <2>1. powered
    BY <1>3, Working DEF ControlTakes, Thread
  <2>2. \/ job'["control"] = Idle
        \/ /\ job'["control"].step = "change" /\ job["control"].by \notin Mmi
           /\ job'["control"].by = job["control"].by
    BY <1>3 DEF ControlTakes, TypeOK, Thread, Job
  <2>3. job["control"].by \in Session \cup {"LOCAL", "NOBODY"}
    BY DEF TypeOK, Thread, Job
  <2>4. job["control"].by \notin Mmi => job["control"].by = "LOCAL"
    BY <1>3, <2>3 DEF ControlTakes, JobShape, Thread, WipeStep, Session, ThreadOf
  <2>5. /\ job'["lwip"] = job["lwip"] /\ powered' /\ wiped' = wiped
    BY <1>3, <2>1 DEF ControlTakes, TypeOK, Thread
  <2>6. Idle.step = "idle" /\ Idle.by = "NOBODY" /\ "NOBODY" \notin Session /\ "LOCAL" \notin Session
    BY Constants DEF Idle
  <2> QED
    BY <2>2, <2>4, <2>5, <2>6 DEF JobShape, Thread, WipeStep
<1>4. ASSUME NEW s \in Session, NEW p \in Plan, Edit(s, p) PROVE JobShape'
  BY <1>4 DEF Edit, Requests, Serving, history, JobShape
<1>5. ASSUME NEW s \in Session, Verify(s) PROVE JobShape'
  BY <1>5 DEF Verify, Requests, Serving, history, JobShape
<1>6. ASSUME NEW s \in Session, Rollback(s) PROVE JobShape'
  BY <1>6 DEF Rollback, Requests, Serving, history, JobShape
<1>7. ASSUME NEW s \in Session, Reopen(s) PROVE JobShape'
  BY <1>7 DEF Reopen, Requests, Serving, history, JobShape
<1>8. ASSUME NEW s \in Session, Finish(s) PROVE JobShape'
  <2>1. CASE MayCommit
    <3>1. /\ powered' /\ wiped' = wiped /\ ThreadOf(s) \in Thread
          /\ job'[ThreadOf(s)] = Commits(s)
          /\ \A u \in Thread : u # ThreadOf(s) => job'[u] = job[u]
      BY <1>8, <2>1 DEF Finish, Requests, Serving, TypeOK, Thread, ThreadOf, history
    <3>2. Commits(s).step = "erase" /\ Commits(s).by = s
      BY DEF Commits
    <3>3. s # "NOBODY" /\ s # "LOCAL"
      BY Constants
    <3> QED
      BY <3>1, <3>2, <3>3 DEF JobShape, Thread, ThreadOf, WipeStep, CommitStep
  <2>2. CASE ~MayCommit
    BY <1>8, <2>2 DEF Finish, Requests, Serving, history, JobShape
  <2> QED
    BY <2>1, <2>2
<1>9. ASSUME NEW p \in Plan, LocalChange(p) PROVE JobShape'
  <2>1. powered
    BY <1>9, Working DEF LocalChange, Thread
  <2>2. \/ job'["control"] = Idle
        \/ job'["control"].step = "commit" /\ job'["control"].by = job["control"].by
    BY <1>9 DEF LocalChange, TypeOK, Thread, Job
  <2>3. /\ job'["lwip"] = job["lwip"] /\ powered' /\ wiped' = wiped
    BY <1>9, <2>1 DEF LocalChange, TypeOK, Thread, history
  <2>4. job["control"].by = "LOCAL"
    BY <1>9 DEF LocalChange, JobShape
  <2>5. Idle.step = "idle" /\ Idle.by = "NOBODY" /\ "NOBODY" \notin Session /\ "LOCAL" \notin Session
    BY Constants DEF Idle
  <2> QED
    BY <2>2, <2>3, <2>4, <2>5 DEF JobShape, Thread, WipeStep
<1>10. CASE LocalCommit
  <2>1. powered /\ job["control"].step = "commit" /\ job["control"].by = "LOCAL"
    BY <1>10, Working DEF LocalCommit, Thread, JobShape
  <2>2. CASE MayCommit
    <3>1. /\ job'["control"] = Commits("LOCAL") /\ job'["lwip"] = job["lwip"]
          /\ powered' /\ wiped' = wiped
      BY <1>10, <2>1, <2>2 DEF LocalCommit, TypeOK, Thread, history
    <3>2. Commits("LOCAL").step = "erase" /\ Commits("LOCAL").by = "LOCAL"
      BY DEF Commits
    <3> QED
      BY <3>1, <3>2, Constants DEF JobShape, Thread, WipeStep
  <2>3. CASE ~MayCommit
    BY <1>10, <2>1, <2>3, FailJobShape DEF LocalCommit, Thread
  <2> QED
    BY <2>2, <2>3
<1>11. ASSUME NEW t \in Thread, Writes(t) PROVE JobShape'
  <2>1. /\ job'[t].step = Following(job[t].step) /\ job'[t].by = job[t].by
        /\ \A u \in Thread : u # t => job'[u] = job[u]
        /\ powered' /\ wiped' = (wiped \/ Wipes(t))
    BY <1>11 DEF Writes, TypeOK, Job
  <2>2. /\ job[t].step \in {"erase", "header", "payload", "mark"} =>
             Following(job[t].step) \in CommitStep /\ Following(job[t].step) # "idle"
        /\ job[t].step \in {"wipeA", "wipeB"} => Following(job[t].step) \in {"wipeB", "journal"}
    BY DEF Following, CommitStep
  <2>3. job[t].step \in {"erase", "header", "payload", "mark", "wipeA", "wipeB"}
    BY <1>11 DEF Writes
  <2> QED
    BY <2>1, <2>2, <2>3 DEF JobShape, Thread, CommitStep, WipeStep, Wipes
<1>12. ASSUME NEW t \in Thread, Compares(t) PROVE JobShape'
  <2>1. CASE flash[job[t].target].payload = job[t].plan
    <3>1. /\ job'[t].step = "mark" /\ job'[t].by = job[t].by
          /\ \A u \in Thread : u # t => job'[u] = job[u]
          /\ powered' /\ wiped' = wiped
      BY <1>12, <2>1 DEF Compares, TypeOK, Job, history
    <3> QED
      BY <1>12, <3>1 DEF Compares, JobShape, Thread, CommitStep, WipeStep
  <2>2. CASE flash[job[t].target].payload # job[t].plan
    BY <1>12, <2>2, FailJobShape DEF Compares
  <2> QED
    BY <2>1, <2>2
<1>13. ASSUME NEW t \in Thread, Confirms(t) PROVE JobShape'
  <2>1. CASE flash[job[t].target].state = "VALID"
    <3>1. /\ job'[t] = Idle
          /\ \A u \in Thread : u # t => job'[u] = job[u]
          /\ powered' /\ wiped' = wiped
      BY <1>13, <2>1 DEF Confirms, TypeOK, history
    <3>2. Idle.step = "idle" /\ Idle.by = "NOBODY" /\ "NOBODY" \notin Session
      BY Constants DEF Idle
    <3> QED
      BY <3>1, <3>2 DEF JobShape, Thread, CommitStep, WipeStep
  <2>2. CASE flash[job[t].target].state # "VALID"
    BY <1>13, <2>2, FailJobShape DEF Confirms
  <2> QED
    BY <2>1, <2>2
<1>14. ASSUME NEW t \in Thread, FlashFails(t) PROVE JobShape'
  <2>1. wiped => wiped'
    BY <1>14 DEF FlashFails
  <2> QED
    BY <1>14, <2>1, FailJobShape DEF FlashFails, FlashStep
<1>15. CASE FactoryReset
  <2>1. /\ job'["control"].step = "wipeA" /\ job'["control"].by = "NOBODY"
        /\ job'["lwip"] = job["lwip"] /\ powered' /\ wiped' = wiped
    BY <1>15 DEF FactoryReset, Serving, Idle, TypeOK, Thread, history
  <2> QED
    BY <2>1, Constants DEF JobShape, Thread, WipeStep
<1>16. CASE Resets
  BY <1>16, Constants DEF Resets, JobShape, Idle, Thread
<1>17. CASE PowerLoss
  BY <1>17, Constants DEF PowerLoss, JobShape, Idle, Thread
<1>18. CASE Boot
  <2>1. \A t \in Thread : job'[t] = Idle
    BY <1>18 DEF Boot, JobShape
  <2> QED
    BY <1>18, <2>1, Constants DEF Boot, JobShape, Idle, Thread
<1> QED
  BY <1>0, <1>1, <1>2, <1>3, <1>4, <1>5, <1>6, <1>7, <1>8, <1>9, <1>10, <1>11, <1>12,
     <1>13, <1>14, <1>15, <1>16, <1>17, <1>18 DEF Next, Proceeds

-----------------------------------------------------------------------------
(* Slots and generations *)

\* What an operation, complete or cut short, makes of a slot.
LEMMA TornCases ==
  ASSUME TypeOK, NEW t \in Thread, NEW s \in SlotContent, NEW r \in Torn(t, s)
  PROVE  \/ r = s
         \/ r.header = 0
         \/ r.header = s.header /\ r.plan = s.plan /\ ~SlotValid(r)
         \/ /\ job[t].step = "header"
            /\ r.header = job[t].generation /\ r.plan = job[t].plan /\ r.state = "WRITING"
         \/ job[t].step = "payload" /\ r = [s EXCEPT !.payload = job[t].plan]
         \/ job[t].step = "mark" /\ r = [s EXCEPT !.state = "VALID"]
<1>1. Blank.header = 0
  BY DEF Blank
<1>2. ~SlotValid([s EXCEPT !.payload = Junk])
  BY Constants DEF SlotValid, SlotContent
<1>3. ~SlotValid([s EXCEPT !.state = "ERASED"])
  BY DEF SlotValid, SlotContent
<1>4. r = s \/ r = Complete(t, s) \/ r \in Halfway(t, s)
  BY DEF Torn
<1>5. CASE r = Complete(t, s)
  BY <1>1, <1>5 DEF Complete, SlotContent
<1>6. CASE r \in Halfway(t, s)
  <2>1. \/ r = Blank \/ r = [s EXCEPT !.payload = Junk] \/ r = [s EXCEPT !.state = "ERASED"]
        \/ r = [s EXCEPT !.header = 0, !.plan = DefaultPlan, !.state = "WRITING"]
    BY <1>6 DEF Halfway
  <2> QED
    BY <1>1, <1>2, <1>3, <2>1 DEF SlotContent
<1> QED
  BY <1>4, <1>5, <1>6

\* A step of one thread's operation, complete or cut short, as a step of the flash.
Touches(t, f) ==
  \E r \in Torn(t, flash[TouchedSlot(t)]) : f = [flash EXCEPT ![TouchedSlot(t)] = r]

\* The flash changes by operations only.
LEMMA FlashChanges ==
  ASSUME TypeOK, [Next]_vars
  PROVE  flash' = flash \/ \E t \in Thread : Touches(t, flash')
<1>1. ASSUME NEW t \in Thread, Writes(t) PROVE Touches(t, flash')
  BY <1>1 DEF Writes, Touches, Torn
<1>2. ASSUME NEW t \in Thread, FlashFails(t) PROVE flash' = flash \/ Touches(t, flash')
  BY <1>2 DEF FlashFails, Touches, CutShort
<1>3. CASE PowerLoss
  <2>1. flash' \in {flash} \cup UNION {CutShort(t) : t \in Thread}
    BY <1>3 DEF PowerLoss
  <2>2. flash' = flash \/ \E t \in Thread : flash' \in CutShort(t)
    BY <2>1
  <2> QED
    BY <2>2 DEF CutShort, Touches
<1>4. CASE UNCHANGED vars
  BY <1>4 DEF vars
<1> QED
  BY <1>1, <1>2, <1>3, <1>4
  DEF Next, SnmpCreate, ControlFindsFree, ControlTakes, Edit, Verify, Rollback, Reopen,
      Finish, LocalChange, LocalCommit, Proceeds, Compares, Confirms, FactoryReset, Resets, Boot

\* The active configuration changes by a confirmed commit, or by a load.
LEMMA ActiveChanges ==
  ASSUME [Next]_vars
  PROVE  \/ active' = active
         \/ \E t \in Thread : /\ Confirms(t) /\ flash[job[t].target].state = "VALID"
                             /\ active' = [slot |-> job[t].target,
                                            generation |-> job[t].generation,
                                            plan |-> job[t].plan]
         \/ (Resets \/ Boot) /\ active' = Loaded(flash)
<1>1. CASE UNCHANGED vars
  BY <1>1 DEF vars, ramVars
<1>2. ASSUME NEW t \in Thread, Compares(t) PROVE active' = active
  BY <1>2 DEF Compares, ramVars, FailJob
<1>3. CASE LocalCommit
  BY <1>3 DEF LocalCommit, FailJob
<1>4. ASSUME NEW t \in Thread, Confirms(t)
      PROVE  \/ active' = active
             \/ /\ flash[job[t].target].state = "VALID"
                /\ active' = [slot |-> job[t].target, generation |-> job[t].generation,
                               plan |-> job[t].plan]
  BY <1>4 DEF Confirms, FailJob
<1>5. ASSUME NEW t \in Thread, FlashFails(t) PROVE active' = active
  BY <1>5 DEF FlashFails, FailJob
<1> QED
  BY <1>1, <1>2, <1>3, <1>4, <1>5
  DEF Next, SnmpCreate, ControlFindsFree, ControlTakes, Edit, Verify, Rollback, Reopen,
      Finish, LocalChange, Proceeds, Writes, FactoryReset, Resets, PowerLoss, Boot, ramVars

\* A thread commits because it did already, or because it has just begun to.
LEMMA JobChanges ==
  ASSUME TypeOK, [Next]_vars, NEW t \in Thread, Committing(t)'
  PROVE  \/ /\ Committing(t)
            /\ job'[t].by = job[t].by /\ job'[t].plan = job[t].plan
            /\ job'[t].generation = job[t].generation /\ job'[t].target = job[t].target
         \/ /\ UNCHANGED <<powered, active, flash, wiped, collided>>
            /\ MayCommit
            /\ \/ /\ LocalCommit /\ t = "control" /\ job' = [job EXCEPT ![t] = Commits("LOCAL")]
               \/ \E s \in Session : /\ Finish(s) /\ t = ThreadOf(s)
                                      /\ job' = [job EXCEPT ![t] = Commits(s)]
<1> DEFINE Same ==
      /\ Committing(t)
      /\ job'[t].by = job[t].by /\ job'[t].plan = job[t].plan
      /\ job'[t].generation = job[t].generation /\ job'[t].target = job[t].target
<1>0. Idle.step \notin CommitStep
  BY DEF Idle, CommitStep
<1>1. ASSUME job' = job PROVE Same
  BY <1>1 DEF Committing
<1>2. ASSUME NEW u \in Thread, NEW j, job' = [job EXCEPT ![u] = j], j.step \notin CommitStep
      PROVE  Same
  BY <1>2 DEF Committing, TypeOK
<1>3. ASSUME NEW u \in Thread, FailJob(u) PROVE Same
  BY <1>0, <1>2, <1>3 DEF FailJob
<1>4. ASSUME NEW by \in Mmi \cup {"LOCAL"}, ControlFindsFree(by) PROVE Same
  <2>1. [Idle EXCEPT !.step = "take", !.by = by].step \notin CommitStep
    BY DEF Idle, CommitStep
  <2> QED
    BY <1>2, <1>4, <2>1 DEF ControlFindsFree, Thread
<1>5. ASSUME ControlTakes PROVE Same
  <2>1. [job["control"] EXCEPT !.step = "change"].step \notin CommitStep
    BY DEF CommitStep, TypeOK, Thread, Job
  <2> QED
    BY <1>0, <1>2, <1>5, <2>1 DEF ControlTakes, Thread
<1>6. ASSUME NEW p \in Plan, LocalChange(p) PROVE Same
  <2>1. [job["control"] EXCEPT !.step = "commit"].step \notin CommitStep
    BY DEF CommitStep, TypeOK, Thread, Job
  <2> QED
    BY <1>0, <1>2, <1>6, <2>1 DEF LocalChange, Thread
<1>7. ASSUME FactoryReset PROVE Same
  <2>1. [Idle EXCEPT !.step = "wipeA"].step \notin CommitStep
    BY DEF Idle, CommitStep
  <2> QED
    BY <1>2, <1>7, <2>1 DEF FactoryReset, Thread
<1>8. ASSUME NEW u \in Thread, Writes(u) PROVE Same
  <2>1. /\ \A v \in Thread : v # u => job'[v] = job[v]
        /\ job'[u] = [job[u] EXCEPT !.step = Following(@)]
    BY <1>8 DEF Writes, TypeOK
  <2>2. job[u].step \in {"wipeA", "wipeB"} => Following(job[u].step) \notin CommitStep
    BY DEF Following, CommitStep
  <2>3. job[u] \in Job
    BY DEF TypeOK
  <2> QED
    BY <1>8, <2>1, <2>2, <2>3 DEF Writes, Committing, CommitStep, Job
<1>9. ASSUME NEW u \in Thread, Compares(u) PROVE Same
  <2>1. CASE flash[job[u].target].payload = job[u].plan
    <3>1. /\ \A v \in Thread : v # u => job'[v] = job[v]
          /\ job'[u] = [job[u] EXCEPT !.step = "mark"] /\ job[u].step = "compare"
      BY <1>9, <2>1 DEF Compares, TypeOK
    <3>2. job[u] \in Job
      BY DEF TypeOK
    <3> QED
      BY <3>1, <3>2 DEF Committing, CommitStep, Job
  <2> QED
    BY <1>3, <1>9, <2>1 DEF Compares
<1>10. ASSUME NEW u \in Thread, Confirms(u) PROVE Same
  BY <1>0, <1>2, <1>3, <1>10 DEF Confirms
<1>11. ASSUME Resets \/ PowerLoss PROVE Same
  BY <1>0, <1>11 DEF Resets, PowerLoss, Committing
<1>12. CASE LocalCommit
  <2>1. CASE MayCommit
    <3>1. UNCHANGED <<powered, active, flash, wiped, collided>>
      BY <1>12, <2>1 DEF LocalCommit, history
    <3>2. job' = [job EXCEPT !["control"] = Commits("LOCAL")]
      BY <1>12, <2>1 DEF LocalCommit
    <3>3. CASE t = "control"
      BY <1>12, <2>1, <3>1, <3>2, <3>3
    <3>4. CASE t # "control"
      BY <3>2, <3>4 DEF Committing, TypeOK
    <3> QED
      BY <3>3, <3>4
  <2> QED
    BY <1>3, <1>12, <2>1 DEF LocalCommit, Thread
<1>13. ASSUME NEW s \in Session, Finish(s)
       PROVE  \/ Same
              \/ /\ UNCHANGED <<powered, active, flash, wiped, collided>> /\ MayCommit
                 /\ t = ThreadOf(s) /\ job' = [job EXCEPT ![t] = Commits(s)]
  <2>1. CASE MayCommit
    <3>1. UNCHANGED <<powered, active, flash, wiped, collided>>
      BY <1>13, <2>1 DEF Finish, history
    <3>2. job' = [job EXCEPT ![ThreadOf(s)] = Commits(s)]
      BY <1>13, <2>1 DEF Finish
    <3>3. CASE t = ThreadOf(s)
      BY <2>1, <3>1, <3>2, <3>3
    <3>4. CASE t # ThreadOf(s)
      BY <3>2, <3>4 DEF Committing, TypeOK
    <3> QED
      BY <3>3, <3>4
  <2> QED
    BY <1>1, <1>13, <2>1 DEF Finish
<1>14. ASSUME UNCHANGED vars PROVE Same
  BY <1>1, <1>14 DEF vars
<1> HIDE DEF Same
<1>15. ASSUME NEW u \in Thread, FlashFails(u) PROVE Same
  BY <1>3, <1>15 DEF FlashFails
<1>16. ASSUME NEW s \in Snmp, SnmpCreate(s) PROVE job' = job
  BY <1>16 DEF SnmpCreate
<1>17. ASSUME NEW s \in Session, NEW p \in Plan, Edit(s, p) PROVE job' = job
  BY <1>17 DEF Edit
<1>18. ASSUME NEW s \in Session, Verify(s) \/ Rollback(s) \/ Reopen(s) PROVE job' = job
  BY <1>18 DEF Verify, Rollback, Reopen
<1>19. ASSUME Boot PROVE Same
  BY <1>1, <1>19 DEF Boot
<1>20. Same \/ LocalCommit \/ (\E s \in Session : Finish(s))
  <2> QED
    BY <1>1, <1>4, <1>5, <1>6, <1>7, <1>8, <1>9, <1>10, <1>11, <1>14, <1>15, <1>16, <1>17,
       <1>18, <1>19
    DEF Next, Proceeds
<1> QED
  BY <1>12, <1>13, <1>20 DEF Same

LEMMA NextGeneration ==
  ASSUME TypeOK, Parity
  PROVE  OfSlot(CommitTarget, active.generation + 1)
<1>1. active.generation \in Nat /\ active.slot \in Slot \cup {"NONE"}
  BY DEF TypeOK
<1>2. \A n \in Nat : n + 1 # 0 /\ (n % 2 = 1 <=> ~((n + 1) % 2 = 1))
  OBVIOUS
<1>3. 0 % 2 = 0 /\ 1 % 2 = 1
  OBVIOUS
<1> QED
  BY <1>1, <1>2, <1>3 DEF Parity, OfSlot, CommitTarget, Slot

LEMMA ParityKept == TypeOK /\ Parity /\ [Next]_vars => Parity'
<1> SUFFICES ASSUME TypeOK, Parity, [Next]_vars PROVE Parity'
  OBVIOUS
<1>1. ASSUME NEW s \in Slot, flash'[s].header # 0 PROVE OfSlot(s, flash'[s].header)
  <2>1. CASE flash' = flash
    BY <1>1, <2>1 DEF Parity
  <2>2. ASSUME NEW t \in Thread, Touches(t, flash') PROVE OfSlot(s, flash'[s].header)
    <3>1. PICK r \in Torn(t, flash[TouchedSlot(t)]) :
            flash' = [flash EXCEPT ![TouchedSlot(t)] = r]
      BY <2>2 DEF Touches
    <3>2. flash[s] \in SlotContent
      BY DEF TypeOK
    <3>3. CASE s = TouchedSlot(t)
      <4>1. flash'[s] = r
        BY <3>1, <3>3 DEF TypeOK
      <4>2. r.header = flash[s].header \/ (job[t].step = "header" /\ r.header = job[t].generation)
        BY <1>1, <3>2, <3>3, <4>1, TornCases DEF SlotContent
      <4>3. job[t].step = "header" => s = job[t].target /\ Committing(t)
        BY <3>3 DEF TouchedSlot, Committing, CommitStep
      <4> QED
        BY <1>1, <4>1, <4>2, <4>3 DEF Parity
    <3>4. CASE s # TouchedSlot(t)
      BY <1>1, <3>1, <3>4 DEF Parity, TypeOK
    <3> QED
      BY <3>3, <3>4
  <2> QED
    BY <2>1, <2>2, FlashChanges
<1>2. ASSUME NEW t \in Thread, Committing(t)'
      PROVE  OfSlot(job'[t].target, job'[t].generation)
  <2>1. ASSUME NEW by, job' = [job EXCEPT ![t] = Commits(by)]
        PROVE  OfSlot(job'[t].target, job'[t].generation)
    BY <2>1, NextGeneration DEF Commits, TypeOK
  <2> QED
    BY <1>2, <2>1, JobChanges DEF Parity
<1>3. IF active'.slot = "NONE" THEN active'.generation = 0
      ELSE OfSlot(active'.slot, active'.generation)
  <2>1. CASE active' = active
    BY <2>1 DEF Parity
  <2>2. ASSUME NEW t \in Thread, Confirms(t),
               active' = [slot |-> job[t].target, generation |-> job[t].generation,
                          plan |-> job[t].plan]
        PROVE  OfSlot(active'.slot, active'.generation) /\ active'.slot # "NONE"
    BY <2>2 DEF Confirms, Committing, CommitStep, Parity, TypeOK, Job, Slot
  <2>3. CASE active' = Loaded(flash)
    <3>1. flash \in [Slot -> SlotContent]
      BY DEF TypeOK
    <3> QED
      BY <2>3, <3>1, LoadedProperties DEF Parity, SlotValid
  <2> QED
    BY <2>1, <2>2, <2>3, ActiveChanges
<1> QED
  BY <1>1, <1>2, <1>3 DEF Parity

LEMMA InitEstablishes == Init => IInv
<1> SUFFICES ASSUME Init PROVE IInv
  OBVIOUS
<1>1. \A s \in Slot : flash[s] = Blank
  BY DEF Init
<1>2. Blank.header = 0 /\ Blank \in SlotContent /\ ~SlotValid(Blank)
  BY Constants DEF Blank, SlotContent, SlotValid
<1>3. \A t \in Thread : job[t] = Idle
  BY DEF Init
<1>4. Idle.step = "idle" /\ Idle.by = "NOBODY" /\ "NOBODY" \notin Session /\ Idle \in Job
  BY Constants DEF Idle, Job, Step, Slot
<1>5. TypeOK
  <2>1. flash \in [Slot -> SlotContent] /\ job \in [Thread -> Job]
    BY <1>2, <1>4 DEF Init
  <2>2. disturbances \in 0..MaxDisturbances
    BY Constants DEF Init
  <2>3. /\ candidate \in [inUse : BOOLEAN, overlay : Plan \cup {NoChange}]
        /\ db \in [state : {"NORMAL", "TRANSACTION", "DONE"},
                   owner : Session \cup {"NOBODY"}, verified : BOOLEAN]
    BY DEF Init, Cleared, Normal
  <2>4. active \in [slot : Slot \cup {"NONE"}, generation : Nat, plan : Plan]
    BY Constants DEF Init
  <2>5. powered \in BOOLEAN /\ {collided, wiped, stranded} \subseteq BOOLEAN
    BY DEF Init
  <2> QED
    BY <2>1, <2>2, <2>3, <2>4, <2>5 DEF TypeOK
<1>6. JobShape
  BY <1>3, <1>4 DEF Init, JobShape, Thread
<1>7. \A t \in Thread : ~Committing(t)
  BY <1>3, <1>4 DEF Committing, CommitStep
<1>8. Parity
  BY <1>1, <1>2, <1>7 DEF Parity, Init
<1>9. Exclusive
  BY <1>3, <1>4, <1>7 DEF Exclusive, Init, Normal, LocalUses, Thread
<1>10. StaysVerified
  BY <1>1, <1>2, <1>3, <1>4, <1>7, Constants DEF StaysVerified, Init, Normal, Thread
<1>11. Kept
  <2>1. InForceIsStored
    BY <1>1, <1>2 DEF Init, InForceIsStored, Slot
  <2>2. CommitTarget \in Slot
    BY DEF CommitTarget, Slot
  <2> QED
    BY <1>1, <1>2, <1>7, <2>1, <2>2 DEF Kept, TargetHoldsCommit
<1>12. CandidateIsReleased
  BY DEF Init, Cleared, CandidateIsReleased
<1> QED
  BY <1>5, <1>6, <1>8, <1>9, <1>10, <1>11, <1>12 DEF IInv

-----------------------------------------------------------------------------
(* One at a time *)

\* Two writers that have collided are not forgotten.
LEMMA CollidedStays ==
  ASSUME TypeOK, [Next]_vars, ~collided'
  PROVE  ~collided
<1>1. CASE UNCHANGED vars
  BY <1>1 DEF vars, history
<1>2. ASSUME NEW t \in Thread, Compares(t) PROVE ~collided
  BY <1>2 DEF Compares, history, FailJob
<1>3. CASE LocalCommit
  BY <1>3 DEF LocalCommit, history, FailJob
<1>4. ASSUME NEW t \in Thread, Confirms(t) PROVE ~collided
  BY <1>4 DEF Confirms, history, FailJob
<1>5. ASSUME NEW t \in Thread, FlashFails(t) PROVE ~collided
  BY <1>5 DEF FlashFails, FailJob
<1> QED
  BY <1>1, <1>2, <1>3, <1>4, <1>5
  DEF Next, SnmpCreate, ControlFindsFree, ControlTakes, Edit, Verify, Rollback, Reopen,
      Finish, LocalChange, Proceeds, Writes, FactoryReset, Resets, PowerLoss, Boot, history

\* While a session commits nobody else has the candidate or commits.
LEMMA SessionAlone ==
  ASSUME TypeOK, JobShape, Exclusive, ~collided,
         NEW t \in Thread, Committing(t), job[t].by \in Session
  PROVE  /\ ~LocalUses
         /\ \A u \in Thread : Committing(u) => u = t
         /\ db.state = "DONE" /\ db.owner = job[t].by
<1>1. db.state = "DONE" /\ db.owner = job[t].by
  BY DEF Exclusive
<1>2. ~LocalUses
  BY <1>1 DEF Exclusive
<1>3. ASSUME NEW u \in Thread, Committing(u) PROVE u = t
  <2>1. job[u].by # "NOBODY"
    BY <1>3 DEF Committing, CommitStep, JobShape, WipeStep
  <2>2. job[u].by # "LOCAL"
    BY <1>2, <1>3 DEF LocalUses, JobShape, Thread, Committing, CommitStep
  <2>3. job[u].by \in Session
    BY <2>1, <2>2 DEF TypeOK, Job
  <2>4. job[u].by = job[t].by
    BY <1>1, <1>3, <2>3 DEF Exclusive
  <2> QED
    BY <2>3, <2>4 DEF JobShape
<1> QED
  BY <1>1, <1>2, <1>3

\* While a local setting has the candidate no session commits.
LEMMA LocalAlone ==
  ASSUME TypeOK, JobShape, Exclusive, ~collided, LocalUses
  PROVE  /\ candidate.inUse /\ db.state = "NORMAL"
         /\ \A u \in Thread : Committing(u) => u = "control"
<1>1. candidate.inUse /\ db.state = "NORMAL"
  BY DEF Exclusive
<1>2. ASSUME NEW u \in Thread, Committing(u), u = "lwip" PROVE FALSE
  <2>1. job[u].by \in Session
    BY <1>2 DEF TypeOK, Job, JobShape, Committing, CommitStep, WipeStep
  <2> QED
    BY <1>1, <1>2, <2>1 DEF Exclusive
<1> QED
  BY <1>1, <1>2 DEF Thread

\* A session that is served commits nothing, nor does anybody else then.
LEMMA OwnerAlone ==
  ASSUME TypeOK, JobShape, Exclusive, ~collided,
         NEW s \in Session, Serving(ThreadOf(s)), db.owner = s, db.state # "NORMAL"
  PROVE  /\ ~LocalUses /\ candidate.inUse
         /\ \A u \in Thread : ~Committing(u)
<1>1. ~LocalUses /\ candidate.inUse
  BY DEF Exclusive
<1>2. ASSUME NEW u \in Thread, Committing(u) PROVE FALSE
  <2>1. job[u].by \in Session
    BY <1>1, <1>2 DEF TypeOK, Job, JobShape, Committing, CommitStep, WipeStep, LocalUses, Thread
  <2>2. job[u].by = s /\ ThreadOf(s) = u
    BY <1>2, <2>1 DEF Exclusive, JobShape
  <2> QED
    BY <1>2, <2>2 DEF Serving, Committing, CommitStep
<1> QED
  BY <1>1, <1>2

LEMMA FailJobExclusive ==
  ASSUME TypeOK, JobShape, Exclusive, ~collided, NEW t \in Thread, FailJob(t),
         job[t].step \in FlashStep \cup {"commit"}
  PROVE  Exclusive'
<1>1. /\ job'[t] = Idle
      /\ \A u \in Thread : u # t => job'[u] = job[u]
  BY DEF FailJob, TypeOK
<1>2. Idle.step \notin CommitStep /\ Idle.by # "LOCAL"
  BY DEF Idle, CommitStep
<1>3. CASE job[t].by \in Session
  <2>1. candidate' = Cleared /\ db' = Normal
    BY <1>3 DEF FailJob
  <2>2. Committing(t)
    BY <1>3, Constants DEF JobShape, Committing, CommitStep, FlashStep, WipeStep, Thread
  <2>3. /\ ~LocalUses
        /\ \A u \in Thread : Committing(u) => u = t
    BY <1>3, <2>2, SessionAlone
  <2>4. ~LocalUses' /\ \A u \in Thread : ~Committing(u)'
    BY <1>1, <1>2, <2>3 DEF LocalUses, Committing, Thread
  <2> QED
    BY <2>1, <2>4 DEF Exclusive, Normal
<1>4. CASE job[t].by \notin Session
  <2>1. candidate' = candidate /\ db' = db
    BY <1>4 DEF FailJob
  <2>2. LocalUses' => LocalUses
    BY <1>1, <1>2 DEF LocalUses, Thread
  <2>3. \A u \in Thread : Committing(u)' => Committing(u) /\ job'[u] = job[u]
    BY <1>1, <1>2 DEF Committing
  <2> QED
    BY <2>1, <2>2, <2>3 DEF Exclusive
<1> QED
  BY <1>3, <1>4

LEMMA ExclusiveKept == TypeOK /\ JobShape /\ Exclusive /\ [Next]_vars => Exclusive'
<1> SUFFICES ASSUME TypeOK, JobShape, Exclusive, [Next]_vars, ~collided' PROVE Exclusive'
  BY DEF Exclusive
<1>a. ~collided
  BY CollidedStays
<1>b. /\ Idle.step = "idle" /\ Idle.step \notin CommitStep
      /\ Idle.by = "NOBODY" /\ Idle.by # "LOCAL" /\ Idle.by \notin Session
  BY Constants DEF Idle, CommitStep
<1>0. CASE UNCHANGED vars
  BY <1>0 DEF vars, ramVars, history, Exclusive, Committing, LocalUses
<1>1. ASSUME NEW s \in Snmp, SnmpCreate(s) PROVE Exclusive'
  <2>1. ~LocalUses /\ \A t \in Thread : Committing(t) => job[t].by \notin Session
    BY <1>1, <1>a DEF SnmpCreate, Exclusive
  <2>2. candidate'.inUse /\ job' = job
    BY <1>1 DEF SnmpCreate, Taken
  <2> QED
    BY <2>1, <2>2 DEF Exclusive, Committing, LocalUses
<1>2. ASSUME NEW by \in Mmi \cup {"LOCAL"}, ControlFindsFree(by) PROVE Exclusive'
  <2>1. /\ job'["control"].step = "take" /\ job'["lwip"] = job["lwip"]
        /\ candidate' = candidate /\ db' = db
    BY <1>2 DEF ControlFindsFree, Idle, TypeOK, Thread, ramVars
  <2> QED
    BY <1>a, <2>1 DEF Exclusive, Committing, LocalUses, Thread, CommitStep
<1>3. CASE ControlTakes
  <2>1. ~candidate.inUse /\ candidate'.inUse /\ "take" \notin CommitStep
    BY <1>3 DEF ControlTakes, Colliding, Taken, CommitStep
  <2>2. db.state = "NORMAL" /\ \A t \in Thread : Committing(t) => job[t].by \notin Session
    BY <1>a, <2>1 DEF Exclusive
  <2>3. /\ job'["lwip"] = job["lwip"] /\ job["control"] \in Job
        /\ job["control"].step = "take"
    BY <1>3 DEF ControlTakes, TypeOK, Thread
  <2>4. CASE job["control"].by \in Mmi
    <3>1. job'["control"] = Idle
      BY <1>3, <2>4 DEF ControlTakes, TypeOK, Thread
    <3> QED
      BY <1>b, <2>1, <2>2, <2>3, <3>1 DEF Exclusive, Committing, LocalUses, Thread
  <2>5. CASE job["control"].by \notin Mmi
    <3>1. db' = db /\ job'["control"] = [job["control"] EXCEPT !.step = "change"]
      BY <1>3, <2>5 DEF ControlTakes, TypeOK, Thread
    <3>2. job'["control"].step \notin CommitStep
      BY <2>3, <3>1 DEF Job, CommitStep
    <3> QED
      BY <2>1, <2>2, <2>3, <3>1, <3>2 DEF Exclusive, Committing, LocalUses, Thread
  <2> QED
    BY <2>4, <2>5
<1>4. ASSUME NEW s \in Session, NEW p \in Plan, Edit(s, p) PROVE Exclusive'
  <2>1. candidate'.inUse = candidate.inUse /\ db' = db /\ job' = job
    BY <1>4 DEF Edit, TypeOK
  <2> QED
    BY <1>a, <2>1 DEF Exclusive, Committing, LocalUses
<1>5. ASSUME NEW s \in Session, Verify(s) PROVE Exclusive'
  <2>1. /\ db'.state = "DONE" /\ candidate' = candidate /\ job' = job
        /\ db.state = "TRANSACTION"
    BY <1>5 DEF Verify, Requests, TypeOK
  <2> QED
    BY <1>a, <2>1 DEF Exclusive, Committing, LocalUses
<1>6. ASSUME NEW s \in Session, Rollback(s) PROVE Exclusive'
  <2>1. ~LocalUses /\ \A u \in Thread : ~Committing(u)
    BY <1>6, <1>a, OwnerAlone DEF Rollback, Requests
  <2>2. candidate' = Cleared /\ db' = Normal /\ job' = job
    BY <1>6 DEF Rollback
  <2> QED
    BY <2>1, <2>2 DEF Exclusive, Committing, LocalUses, Normal
<1>7. ASSUME NEW s \in Session, Reopen(s) PROVE Exclusive'
  <2>1. ~LocalUses /\ candidate.inUse /\ \A u \in Thread : ~Committing(u)
    BY <1>7, <1>a, OwnerAlone DEF Reopen, Requests
  <2>2. candidate' = candidate /\ job' = job
    BY <1>7 DEF Reopen
  <2> QED
    BY <2>1, <2>2 DEF Exclusive, Committing, LocalUses
<1>8. ASSUME NEW s \in Session, Finish(s) PROVE Exclusive'
  <2>1. /\ ~LocalUses /\ candidate.inUse /\ \A u \in Thread : ~Committing(u)
        /\ db.state = "DONE" /\ db.owner = s
    BY <1>8, <1>a, OwnerAlone DEF Finish, Requests
  <2>2. CASE MayCommit
    <3>1. /\ job'[ThreadOf(s)] = Commits(s)
          /\ \A u \in Thread : u # ThreadOf(s) => job'[u] = job[u]
          /\ candidate' = candidate /\ db' = db
      BY <1>8, <2>2 DEF Finish, TypeOK, ThreadOf, Thread
    <3>2. Commits(s).by = s /\ s # "LOCAL"
      BY Constants DEF Commits
    <3>3. \A u \in Thread : Committing(u)' => job'[u].by = s
      BY <2>1, <3>1, <3>2 DEF Committing
    <3>4. ~LocalUses'
      BY <2>1, <3>1, <3>2 DEF LocalUses, Thread, ThreadOf
    <3> QED
      BY <2>1, <3>1, <3>3, <3>4 DEF Exclusive
  <2>3. CASE ~MayCommit
    <3>1. candidate' = Cleared /\ db' = Normal /\ job' = job
      BY <1>8, <2>3 DEF Finish
    <3> QED
      BY <2>1, <3>1 DEF Exclusive, Committing, LocalUses, Normal
  <2> QED
    BY <2>2, <2>3
<1>9. ASSUME NEW p \in Plan, LocalChange(p) PROVE Exclusive'
  <2>1. LocalUses /\ job["control"] \in Job /\ db' = db /\ job'["lwip"] = job["lwip"]
    BY <1>9 DEF LocalChange, JobShape, LocalUses, TypeOK, Thread
  <2>2. db.state = "NORMAL" /\ \A u \in Thread : Committing(u) => u = "control"
    BY <1>a, <2>1, LocalAlone
  <2>3. \/ job'["control"] = Idle
        \/ job'["control"] = [job["control"] EXCEPT !.step = "commit"] /\ candidate'.inUse
    BY <1>9 DEF LocalChange, TypeOK, Thread
  <2>4. "commit" \notin CommitStep
    BY DEF CommitStep
  <2> QED
    BY <1>b, <2>1, <2>2, <2>3, <2>4 DEF Exclusive, Committing, LocalUses, Thread, Job
<1>10. CASE LocalCommit
  <2>1. job["control"].by = "LOCAL" /\ job["control"].step = "commit"
    BY <1>10 DEF LocalCommit, JobShape
  <2>2. CASE MayCommit
    <3>1. LocalUses
      BY <2>1 DEF LocalUses
    <3>2. /\ candidate.inUse /\ db.state = "NORMAL"
          /\ \A u \in Thread : Committing(u) => u = "control"
      BY <1>a, <3>1, LocalAlone
    <3>3. /\ candidate' = candidate /\ db' = db
          /\ job'["control"] = Commits("LOCAL") /\ job'["lwip"] = job["lwip"]
      BY <1>10, <2>2 DEF LocalCommit, TypeOK, Thread
    <3>4. Commits("LOCAL").by = "LOCAL" /\ "LOCAL" \notin Session
      BY Constants DEF Commits
    <3> QED
      BY <3>2, <3>3, <3>4 DEF Exclusive, Committing, LocalUses, Thread
  <2>3. CASE ~MayCommit
    BY <1>10, <1>a, <2>1, <2>3, FailJobExclusive DEF LocalCommit, Thread
  <2> QED
    BY <2>2, <2>3
<1>11. ASSUME NEW t \in Thread, Writes(t) PROVE Exclusive'
  <2>1. /\ job'[t].by = job[t].by /\ candidate' = candidate /\ db' = db
        /\ \A u \in Thread : u # t => job'[u] = job[u]
    BY <1>11 DEF Writes, TypeOK, ramVars, Job
  <2>2. LocalUses' => LocalUses
    BY <1>11, <2>1 DEF Writes, LocalUses, Thread
  <2>3. \A u \in Thread : Committing(u)' => Committing(u)
    <3>1. job'[t].step = Following(job[t].step)
      BY <1>11 DEF Writes, TypeOK, Job
    <3>2. job[t].step \in {"wipeA", "wipeB"} => Following(job[t].step) \notin CommitStep
      BY DEF Following, CommitStep
    <3> QED
      BY <1>11, <2>1, <3>1, <3>2 DEF Writes, Committing, CommitStep
  <2> QED
    BY <1>a, <2>1, <2>2, <2>3 DEF Exclusive
<1>12. ASSUME NEW t \in Thread, Compares(t) PROVE Exclusive'
  <2>1. CASE flash[job[t].target].payload = job[t].plan
    <3>1. /\ job'[t].by = job[t].by /\ candidate' = candidate /\ db' = db
          /\ \A u \in Thread : u # t => job'[u] = job[u]
          /\ job[t].step = "compare"
      BY <1>12, <2>1 DEF Compares, TypeOK, ramVars, Job
    <3>2. LocalUses' => LocalUses
      BY <3>1 DEF LocalUses, Thread
    <3>3. \A u \in Thread : Committing(u)' => Committing(u)
      BY <3>1 DEF Committing, CommitStep
    <3> QED
      BY <1>a, <3>1, <3>2, <3>3 DEF Exclusive
  <2>2. CASE flash[job[t].target].payload # job[t].plan
    BY <1>12, <1>a, <2>2, FailJobExclusive DEF Compares, FlashStep
  <2> QED
    BY <2>1, <2>2
<1>13. ASSUME NEW t \in Thread, Confirms(t) PROVE Exclusive'
  <2>1. Committing(t) /\ job[t].step # "take"
    BY <1>13 DEF Confirms, Committing, CommitStep
  <2>2. CASE flash[job[t].target].state = "VALID"
    <3>1. /\ job'[t] = Idle /\ candidate' = Cleared
          /\ \A u \in Thread : u # t => job'[u] = job[u]
          /\ db' = IF job[t].by \in Session THEN Normal ELSE db
      BY <1>13, <2>2 DEF Confirms, TypeOK
    <3>2. CASE job[t].by \in Session
      <4>1. ~LocalUses /\ \A u \in Thread : Committing(u) => u = t
        BY <1>a, <2>1, <3>2, SessionAlone
      <4> QED
        BY <1>b, <3>1, <3>2, <4>1 DEF Exclusive, Committing, LocalUses, Normal, Thread
    <3>3. CASE job[t].by \notin Session
      <4>1. t = "control" /\ LocalUses
        BY <2>1, <3>3 DEF JobShape, LocalUses, Committing, CommitStep, WipeStep, TypeOK, Job, Thread
      <4>2. db.state = "NORMAL" /\ \A u \in Thread : Committing(u) => u = "control"
        BY <1>a, <4>1, LocalAlone
      <4> QED
        BY <1>b, <3>1, <3>3, <4>1, <4>2 DEF Exclusive, Committing, LocalUses, Thread
    <3> QED
      BY <3>2, <3>3
  <2>3. CASE flash[job[t].target].state # "VALID"
    BY <1>13, <1>a, <2>3, FailJobExclusive DEF Confirms, FlashStep
  <2> QED
    BY <2>2, <2>3
<1>14. ASSUME NEW t \in Thread, FlashFails(t) PROVE Exclusive'
  BY <1>14, <1>a, FailJobExclusive DEF FlashFails
<1>15. CASE FactoryReset
  <2>1. /\ job'["control"].step = "wipeA" /\ job'["control"].by = "NOBODY"
        /\ job'["lwip"] = job["lwip"] /\ candidate' = candidate /\ db' = db
    BY <1>15 DEF FactoryReset, Idle, TypeOK, Thread, ramVars
  <2> QED
    BY <1>a, <2>1 DEF Exclusive, Committing, LocalUses, Thread, CommitStep
<1>16. CASE Resets \/ PowerLoss
  <2>1. db' = Normal /\ \A u \in Thread : job'[u] = Idle
    BY <1>16 DEF Resets, PowerLoss
  <2> QED
    BY <1>b, <2>1 DEF Exclusive, Committing, LocalUses, Normal, Thread
<1>17. CASE Boot
  BY <1>17, <1>a DEF Boot, Exclusive, Committing, LocalUses
<1> QED
  BY <1>0, <1>1, <1>2, <1>3, <1>4, <1>5, <1>6, <1>7, <1>8, <1>9, <1>10, <1>11, <1>12,
     <1>13, <1>14, <1>15, <1>16, <1>17 DEF Next, Proceeds

-----------------------------------------------------------------------------
(* What was verified is what is committed *)

\* The candidate's contents change by edits and by local settings, or are dropped.
LEMMA OverlayChanges ==
  ASSUME TypeOK, [Next]_vars
  PROVE  \/ candidate'.overlay = candidate.overlay
         \/ candidate'.overlay = NoChange
         \/ \E s \in Session, p \in Plan : Edit(s, p)
         \/ \E p \in Supported : LocalChange(p) /\ candidate'.overlay = p
<1> DEFINE Dropped == candidate'.overlay = candidate.overlay \/ candidate'.overlay = NoChange
<1>0. Cleared.overlay = NoChange /\ Taken.overlay = NoChange
  BY DEF Cleared, Taken
<1>1. ASSUME NEW t \in Thread, FailJob(t) PROVE Dropped
  BY <1>0, <1>1 DEF FailJob
<1>2. ASSUME UNCHANGED vars PROVE Dropped
  BY <1>2 DEF vars, ramVars
<1>3. ASSUME NEW s \in Snmp, SnmpCreate(s) PROVE Dropped
  BY <1>0, <1>3 DEF SnmpCreate
<1>4. ASSUME NEW by \in Mmi \cup {"LOCAL"}, ControlFindsFree(by) PROVE Dropped
  BY <1>4 DEF ControlFindsFree, ramVars
<1>5. ASSUME ControlTakes PROVE Dropped
  BY <1>0, <1>5 DEF ControlTakes
<1>6. ASSUME NEW s \in Session, Verify(s) \/ Reopen(s) PROVE Dropped
  BY <1>6 DEF Verify, Reopen
<1>7. ASSUME NEW s \in Session, Rollback(s) PROVE Dropped
  BY <1>0, <1>7 DEF Rollback
<1>8. ASSUME NEW s \in Session, Finish(s) PROVE Dropped
  BY <1>0, <1>8 DEF Finish
<1> DEFINE Changed == \E p \in Supported : LocalChange(p) /\ candidate'.overlay = p
<1>9. ASSUME NEW p \in Plan, LocalChange(p) PROVE Dropped \/ Changed
  <2>1. Dropped \/ (p \in Supported /\ candidate'.overlay = p)
    BY <1>0, <1>9 DEF LocalChange, TypeOK
  <2> QED
    BY <1>9, <2>1
<1>10. ASSUME LocalCommit PROVE Dropped
  BY <1>1, <1>10 DEF LocalCommit, Thread
<1>11. ASSUME NEW t \in Thread, Writes(t) \/ Compares(t) \/ Confirms(t) \/ FlashFails(t)
       PROVE  Dropped
  BY <1>0, <1>1, <1>11 DEF Writes, Compares, Confirms, FlashFails, ramVars
<1>12. ASSUME FactoryReset \/ Resets \/ PowerLoss \/ Boot PROVE Dropped
  BY <1>0, <1>12 DEF FactoryReset, Resets, PowerLoss, Boot, ramVars
<1> DEFINE Edited == \E s \in Session, p \in Plan : Edit(s, p)
<1>13. ASSUME NEW s \in Session, NEW p \in Plan, Edit(s, p) PROVE Edited
  BY <1>13
<1> HIDE DEF Dropped, Changed, Edited
<1>14. Dropped \/ Edited \/ Changed
  BY <1>2, <1>3, <1>4, <1>5, <1>6, <1>7, <1>8, <1>9, <1>10, <1>11, <1>12, <1>13
  DEF Next, Proceeds
<1> QED
  BY <1>14 DEF Dropped, Changed, Edited

\* A transaction is verified by verify.
LEMMA VerifiedChanges ==
  ASSUME TypeOK, [Next]_vars, db'.state = "DONE", db'.verified
  PROVE  db' = db \/ \E s \in Session : Verify(s)
<1>0. Normal.state # "DONE" /\ \A s \in Session : Opened(s).state # "DONE"
  BY DEF Normal, Opened
<1>1. ASSUME NEW t \in Thread, FailJob(t) PROVE db' = db
  BY <1>0, <1>1 DEF FailJob
<1>2. CASE UNCHANGED vars
  BY <1>2 DEF vars, ramVars
<1>3. ASSUME NEW s \in Snmp, SnmpCreate(s) PROVE db' = db
  BY <1>0, <1>3 DEF SnmpCreate, Session
<1>4. ASSUME NEW by \in Mmi \cup {"LOCAL"}, ControlFindsFree(by) PROVE db' = db
  BY <1>4 DEF ControlFindsFree, ramVars
<1>5. ASSUME ControlTakes PROVE db' = db
  BY <1>0, <1>5 DEF ControlTakes, Session
<1>6. ASSUME NEW s \in Session, NEW p \in Plan, Edit(s, p) PROVE db' = db
  BY <1>6 DEF Edit
<1>7. ASSUME NEW s \in Session, Rollback(s) \/ Reopen(s) PROVE db' = db
  <2>1. CASE Rollback(s)
    BY <1>0, <2>1 DEF Rollback
  <2>2. CASE Reopen(s)
    BY <2>2 DEF Reopen, TypeOK
  <2> QED
    BY <1>7, <2>1, <2>2
<1>8. ASSUME NEW s \in Session, Finish(s) PROVE db' = db
  BY <1>0, <1>8 DEF Finish
<1>9. ASSUME NEW p \in Plan, LocalChange(p) PROVE db' = db
  BY <1>9 DEF LocalChange
<1>10. ASSUME LocalCommit PROVE db' = db
  BY <1>1, <1>10 DEF LocalCommit, Thread
<1>11. ASSUME NEW t \in Thread, Writes(t) \/ Compares(t) \/ Confirms(t) \/ FlashFails(t)
       PROVE  db' = db
  BY <1>0, <1>1, <1>11 DEF Writes, Compares, Confirms, FlashFails, ramVars
<1>12. ASSUME FactoryReset \/ Resets \/ PowerLoss \/ Boot PROVE db' = db
  BY <1>0, <1>12 DEF FactoryReset, Resets, PowerLoss, Boot, ramVars
<1> QED
  BY <1>2, <1>3, <1>4, <1>5, <1>6, <1>7, <1>8, <1>9, <1>10, <1>11, <1>12 DEF Next, Proceeds

\* A local setting comes to its commit by its change.
LEMMA LocalReaches ==
  ASSUME TypeOK, [Next]_vars, job'["control"].step = "commit"
  PROVE  \/ job["control"].step = "commit"
         \/ \E p \in Supported : LocalChange(p) /\ candidate'.overlay = p
<1> DEFINE Was == job["control"].step = "commit"
<1>0. Idle.step # "commit" /\ "control" \in Thread
  BY DEF Idle, Thread
<1>1. ASSUME NEW u \in Thread, NEW j, job' = [job EXCEPT ![u] = j], j.step # "commit" PROVE Was
  BY <1>0, <1>1 DEF TypeOK
<1>2. ASSUME NEW u \in Thread, FailJob(u) PROVE Was
  BY <1>0, <1>1, <1>2 DEF FailJob
<1>3. ASSUME job' = job PROVE Was
  BY <1>3
<1>4. ASSUME NEW by \in Mmi \cup {"LOCAL"}, ControlFindsFree(by) PROVE Was
  <2>1. [Idle EXCEPT !.step = "take", !.by = by].step # "commit"
    BY DEF Idle
  <2> QED
    BY <1>0, <1>1, <1>4, <2>1 DEF ControlFindsFree
<1>5. ASSUME ControlTakes PROVE Was
  <2>1. [job["control"] EXCEPT !.step = "change"].step # "commit"
    BY DEF TypeOK, Thread, Job
  <2> QED
    BY <1>0, <1>1, <1>5, <2>1 DEF ControlTakes
<1>6. ASSUME NEW s \in Session, Finish(s) PROVE Was
  <2>1. Commits(s).step # "commit" /\ ThreadOf(s) \in Thread
    BY DEF Commits, ThreadOf, Thread
  <2> QED
    BY <1>1, <1>3, <1>6, <2>1 DEF Finish
<1>7. ASSUME NEW p \in Plan, LocalChange(p)
      PROVE  Was \/ (p \in Supported /\ candidate'.overlay = p)
  BY <1>0, <1>7 DEF LocalChange, TypeOK
<1>8. ASSUME LocalCommit PROVE Was
  BY <1>8 DEF LocalCommit
<1>9. ASSUME NEW u \in Thread, Writes(u) PROVE Was
  <2>1. /\ \A v \in Thread : v # u => job'[v] = job[v]
        /\ job'[u].step = Following(job[u].step)
    BY <1>9 DEF Writes, TypeOK, Job
  <2>2. Following(job[u].step) # "commit"
    BY <1>9 DEF Writes, Following
  <2> QED
    BY <1>0, <2>1, <2>2
<1>10. ASSUME NEW u \in Thread, Compares(u) PROVE Was
  <2>1. CASE flash[job[u].target].payload = job[u].plan
    BY <1>0, <1>10, <2>1 DEF Compares, TypeOK, Job
  <2> QED
    BY <1>2, <1>10, <2>1 DEF Compares
<1>11. ASSUME NEW u \in Thread, Confirms(u) \/ FlashFails(u) PROVE Was
  BY <1>0, <1>1, <1>2, <1>11 DEF Confirms, FlashFails
<1>12. ASSUME FactoryReset PROVE Was
  <2>1. [Idle EXCEPT !.step = "wipeA"].step # "commit"
    BY DEF Idle
  <2> QED
    BY <1>0, <1>1, <1>12, <2>1 DEF FactoryReset
<1>13. ASSUME Resets \/ PowerLoss PROVE Was
  BY <1>0, <1>13 DEF Resets, PowerLoss
<1>14. ASSUME NEW s \in Snmp, SnmpCreate(s) PROVE job' = job
  BY <1>14 DEF SnmpCreate
<1>15. ASSUME NEW s \in Session, NEW p \in Plan, Edit(s, p) PROVE job' = job
  BY <1>15 DEF Edit
<1>16. ASSUME NEW s \in Session, Verify(s) \/ Rollback(s) \/ Reopen(s) PROVE job' = job
  BY <1>16 DEF Verify, Rollback, Reopen
<1>17. ASSUME Boot \/ UNCHANGED vars PROVE job' = job
  BY <1>17 DEF Boot, vars
<1> HIDE DEF Was
<1>18. Was \/ \E p \in Supported : LocalChange(p) /\ candidate'.overlay = p
  BY <1>3, <1>4, <1>5, <1>6, <1>7, <1>8, <1>9, <1>10, <1>11, <1>12, <1>13, <1>14, <1>15,
     <1>16, <1>17 DEF Next, Proceeds
<1> QED
  BY <1>18 DEF Was

LEMMA VerifiedKept ==
  TypeOK /\ JobShape /\ Exclusive /\ StaysVerified /\ [Next]_vars => StaysVerified'
<1> SUFFICES ASSUME TypeOK, JobShape, Exclusive, StaysVerified, [Next]_vars, ~collided'
             PROVE  StaysVerified'
  BY DEF StaysVerified
<1>0. ~collided
  BY CollidedStays
<1>1. active'.plan \in Supported
  <2>1. ASSUME NEW t \in Thread, Confirms(t) PROVE job[t].plan \in Supported
    BY <1>0, <2>1 DEF Confirms, Committing, CommitStep, StaysVerified
  <2>2. Loaded(flash).plan \in Supported
    <3>1. flash \in [Slot -> SlotContent]
      BY DEF TypeOK
    <3> QED
      BY <1>0, <3>1, LoadedProperties, Constants DEF StaysVerified, SlotValid
  <2> QED
    BY <1>0, <2>1, <2>2, ActiveChanges DEF StaysVerified
<1>2. ASSUME NEW s \in Slot, flash'[s].header # 0 PROVE flash'[s].plan \in Supported
  <2>1. ASSUME NEW t \in Thread, Touches(t, flash') PROVE flash'[s].plan \in Supported
    <3>1. PICK r \in Torn(t, flash[TouchedSlot(t)]) :
            flash' = [flash EXCEPT ![TouchedSlot(t)] = r]
      BY <2>1 DEF Touches
    <3>2. flash[s] \in SlotContent
      BY DEF TypeOK
    <3>3. CASE s = TouchedSlot(t)
      <4>1. flash'[s] = r
        BY <3>1, <3>3 DEF TypeOK
      <4>2. \/ r.header = flash[s].header /\ r.plan = flash[s].plan
            \/ job[t].step = "header" /\ r.plan = job[t].plan
        BY <1>2, <3>2, <3>3, <4>1, TornCases DEF SlotContent
      <4> QED
        BY <1>0, <1>2, <4>1, <4>2 DEF StaysVerified, Committing, CommitStep
    <3>4. CASE s # TouchedSlot(t)
      BY <1>0, <1>2, <3>1, <3>4 DEF StaysVerified, TypeOK
    <3> QED
      BY <3>3, <3>4
  <2> QED
    BY <1>0, <1>2, <2>1, FlashChanges DEF StaysVerified
<1>3. Verified => Materialized \in Supported
  BY <1>0, Constants DEF Verified, Materialized, StaysVerified
<1>4. ASSUME NEW t \in Thread, Committing(t)' PROVE job'[t].plan \in Supported
  <2>1. ASSUME NEW by, job' = [job EXCEPT ![t] = Commits(by)], Verified
        PROVE  job'[t].plan \in Supported
    BY <1>3, <2>1 DEF Commits, TypeOK
  <2>2. LocalCommit => Verified
    BY <1>0 DEF LocalCommit, StaysVerified
  <2>3. ASSUME NEW s \in Session, Finish(s) PROVE Verified
    BY <1>0, <2>3 DEF Finish, Requests, StaysVerified
  <2> QED
    BY <1>0, <1>4, <2>1, <2>2, <2>3, JobChanges DEF StaysVerified
<1>5. ASSUME db'.state = "DONE", db'.verified PROVE Verified'
  <2>1. CASE db' = db
    <3>1. Verified
      BY <1>0, <1>5, <2>1 DEF StaysVerified
    <3>2. ASSUME NEW s \in Session, NEW p \in Plan, Edit(s, p) PROVE FALSE
      BY <1>5, <2>1, <3>2 DEF Edit, Requests
    <3> QED
      BY <3>1, <3>2, OverlayChanges DEF Verified
  <2>2. ASSUME NEW s \in Session, Verify(s) PROVE Verified'
    BY <1>5, <2>2, Constants DEF Verify, Verified, Materialized, TypeOK
  <2> QED
    BY <1>5, <2>1, <2>2, VerifiedChanges
<1>6. ASSUME job'["control"].step = "commit" PROVE Verified'
  <2>1. CASE job["control"].step = "commit"
    <3>1. Verified /\ LocalUses
      BY <1>0, <2>1 DEF StaysVerified, LocalUses, JobShape
    <3>2. db.state = "NORMAL"
      BY <1>0, <3>1, LocalAlone
    <3>3. ASSUME NEW s \in Session, NEW p \in Plan, Edit(s, p) PROVE FALSE
      BY <3>2, <3>3 DEF Edit, Requests
    <3> QED
      BY <3>1, <3>3, OverlayChanges DEF Verified
  <2> QED
    BY <1>6, <2>1, LocalReaches DEF Verified
<1> QED
  BY <1>1, <1>2, <1>4, <1>5, <1>6 DEF StaysVerified

-----------------------------------------------------------------------------
(* Somebody can release the candidate *)

LEMMA FailJobReleases ==
  ASSUME TypeOK, JobShape, CandidateIsReleased, NEW t \in Thread, FailJob(t),
         powered, job[t].step \in FlashStep \cup {"commit"}
  PROVE  CandidateIsReleased'
<1>1. stranded => stranded'
  BY DEF FailJob
<1>2. CASE job[t].by \in Session
  BY <1>2 DEF FailJob, Cleared, CandidateIsReleased
<1>3. CASE job[t].by = "LOCAL"
  <2>1. job[t].step \notin {"wipeA", "wipeB", "journal"}
    BY <1>3, Constants DEF JobShape, WipeStep
  <2> QED
    BY <1>3, <2>1 DEF FailJob, CandidateIsReleased
<1>4. CASE job[t].by = "NOBODY"
  <2>1. t = "control" /\ job["control"].by = "NOBODY"
    BY <1>4 DEF JobShape, Thread, CommitStep, WipeStep, FlashStep
  <2>2. candidate' = candidate /\ db' = db
    BY <1>4, Constants DEF FailJob
  <2> QED
    BY <1>1, <2>1, <2>2 DEF CandidateIsReleased
<1> QED
  BY <1>2, <1>3, <1>4 DEF TypeOK, Job

LEMMA ReleasedKept ==
  TypeOK /\ JobShape /\ CandidateIsReleased /\ [Next]_vars => CandidateIsReleased'
<1> SUFFICES ASSUME TypeOK, JobShape, CandidateIsReleased, [Next]_vars
             PROVE  CandidateIsReleased'
  OBVIOUS
<1>0. CASE UNCHANGED vars
  BY <1>0 DEF vars, ramVars, history, CandidateIsReleased
<1>1. ASSUME NEW s \in Snmp, SnmpCreate(s) PROVE CandidateIsReleased'
  BY <1>1 DEF SnmpCreate, Opened, CandidateIsReleased
<1>2. ASSUME NEW by \in Mmi \cup {"LOCAL"}, ControlFindsFree(by) PROVE CandidateIsReleased'
  BY <1>2 DEF ControlFindsFree, ramVars, CandidateIsReleased
<1>3. CASE ControlTakes
  <2>1. CASE job["control"].by \in Mmi
    BY <1>3, <2>1 DEF ControlTakes, Opened, CandidateIsReleased
  <2>2. CASE job["control"].by \notin Mmi
    <3>1. /\ job'["control"].by = job["control"].by
          /\ job'["control"].step = "change"
      BY <1>3, <2>2 DEF ControlTakes, TypeOK, Thread, Job
    <3>2. job["control"].by = "LOCAL"
      BY <1>3, <2>2 DEF ControlTakes, JobShape, ThreadOf, TypeOK, Thread, Job, WipeStep, Session
    <3> QED
      BY <3>1, <3>2 DEF CandidateIsReleased
  <2> QED
    BY <2>1, <2>2
<1>4. ASSUME NEW s \in Session, NEW p \in Plan, Edit(s, p) PROVE CandidateIsReleased'
  BY <1>4 DEF Edit, Requests, history, CandidateIsReleased
<1>5. ASSUME NEW s \in Session, Verify(s) PROVE CandidateIsReleased'
  BY <1>5 DEF Verify, TypeOK, CandidateIsReleased
<1>6. ASSUME NEW s \in Session, Rollback(s) PROVE CandidateIsReleased'
  BY <1>6 DEF Rollback, Cleared, CandidateIsReleased
<1>7. ASSUME NEW s \in Session, Reopen(s) PROVE CandidateIsReleased'
  BY <1>7 DEF Reopen, TypeOK, CandidateIsReleased
<1>8. ASSUME NEW s \in Session, Finish(s) PROVE CandidateIsReleased'
  BY <1>8 DEF Finish, Requests, Cleared, CandidateIsReleased
<1>9. ASSUME NEW p \in Plan, LocalChange(p) PROVE CandidateIsReleased'
  <2>1. \/ candidate' = Cleared
        \/ job'["control"].step = "commit" /\ job'["control"].by = job["control"].by
    BY <1>9 DEF LocalChange, TypeOK, Thread, Job
  <2>2. job["control"].by = "LOCAL"
    BY <1>9 DEF LocalChange, JobShape
  <2> QED
    BY <2>1, <2>2 DEF CandidateIsReleased, Cleared
<1>10. CASE LocalCommit
  <2>1. CASE MayCommit
    <3>1. job'["control"] = Commits("LOCAL")
      BY <1>10, <2>1 DEF LocalCommit, TypeOK, Thread
    <3> QED
      BY <3>1 DEF Commits, CandidateIsReleased
  <2>2. CASE ~MayCommit
    <3>1. powered
      BY <1>10, Working DEF LocalCommit, Thread
    <3> QED
      BY <1>10, <2>2, <3>1, FailJobReleases DEF LocalCommit, Thread
  <2> QED
    BY <2>1, <2>2
<1>11. ASSUME NEW t \in Thread, Writes(t) PROVE CandidateIsReleased'
  <2>1. /\ job'[t].by = job[t].by /\ job'[t].step = Following(job[t].step)
        /\ \A u \in Thread : u # t => job'[u] = job[u]
    BY <1>11 DEF Writes, TypeOK, Job
  <2>2. Following(job[t].step) # "take"
    BY <1>11 DEF Writes, Following
  <2> QED
    BY <1>11, <2>1, <2>2 DEF Writes, ramVars, CandidateIsReleased, Thread
<1>12. ASSUME NEW t \in Thread, Compares(t) PROVE CandidateIsReleased'
  <2>1. CASE flash[job[t].target].payload = job[t].plan
    <3>1. /\ job'[t].by = job[t].by /\ job'[t].step = "mark"
          /\ \A u \in Thread : u # t => job'[u] = job[u]
      BY <1>12, <2>1 DEF Compares, TypeOK, Job
    <3> QED
      BY <1>12, <2>1, <3>1 DEF Compares, ramVars, history, CandidateIsReleased, Thread
  <2>2. CASE flash[job[t].target].payload # job[t].plan
    BY <1>12, <2>2, FailJobReleases DEF Compares, FlashStep
  <2> QED
    BY <2>1, <2>2
<1>13. ASSUME NEW t \in Thread, Confirms(t) PROVE CandidateIsReleased'
  <2>1. CASE flash[job[t].target].state = "VALID"
    BY <1>13, <2>1 DEF Confirms, Cleared, CandidateIsReleased
  <2>2. CASE flash[job[t].target].state # "VALID"
    BY <1>13, <2>2, FailJobReleases DEF Confirms, FlashStep
  <2> QED
    BY <2>1, <2>2
<1>14. ASSUME NEW t \in Thread, FlashFails(t) PROVE CandidateIsReleased'
  BY <1>14, FailJobReleases DEF FlashFails
<1>15. CASE FactoryReset
  <2>1. job["control"].by # "LOCAL"
    BY <1>15 DEF FactoryReset, Serving, JobShape, Thread
  <2> QED
    BY <1>15, <2>1 DEF FactoryReset, ramVars, history, CandidateIsReleased
<1>16. CASE Resets \/ PowerLoss
  BY <1>16 DEF Resets, PowerLoss, Cleared, CandidateIsReleased
<1>17. CASE Boot
  BY <1>17 DEF Boot, JobShape, Cleared, CandidateIsReleased
<1> QED
  BY <1>0, <1>1, <1>2, <1>3, <1>4, <1>5, <1>6, <1>7, <1>8, <1>9, <1>10, <1>11, <1>12,
     <1>13, <1>14, <1>15, <1>16, <1>17 DEF Next, Proceeds

-----------------------------------------------------------------------------
(* The image in force and the commit under way *)

\* A reset that has begun to erase is remembered until the next start.
LEMMA WipedStays ==
  ASSUME TypeOK, [Next]_vars, wiped, ~wiped'
  PROVE  Boot
<1>1. CASE UNCHANGED vars
  BY <1>1 DEF vars, history
<1>2. ASSUME NEW t \in Thread, Compares(t) PROVE FALSE
  BY <1>2 DEF Compares, history
<1>3. ASSUME LocalCommit PROVE FALSE
  BY <1>3 DEF LocalCommit, history
<1>4. ASSUME NEW t \in Thread, Confirms(t) PROVE FALSE
  BY <1>4 DEF Confirms, history
<1>5. ASSUME NEW t \in Thread, FlashFails(t) PROVE FALSE
  BY <1>5 DEF FlashFails
<1> QED
  BY <1>1, <1>2, <1>3, <1>4, <1>5
  DEF Next, SnmpCreate, ControlFindsFree, ControlTakes, Edit, Verify, Rollback, Reopen,
      Finish, LocalChange, Proceeds, Writes, FactoryReset, Resets, PowerLoss, history

LEMMA OneCommits ==
  ASSUME TypeOK, JobShape, Exclusive, ~collided,
         NEW t \in Thread, NEW u \in Thread, Committing(t), Committing(u)
  PROVE  u = t
<1>1. job[t].by \in Session \/ job[t].by = "LOCAL"
  BY DEF TypeOK, Job, JobShape, Committing, CommitStep, WipeStep
<1>2. job[t].by = "LOCAL" => LocalUses /\ t = "control"
  BY DEF LocalUses, JobShape, Committing, CommitStep, Thread
<1> QED
  BY <1>1, <1>2, SessionAlone, LocalAlone

\* An operation that does not write leaves the flash as it is.
LEMMA TornIdle ==
  ASSUME NEW t \in Thread, NEW s,
         job[t].step \notin {"erase", "header", "payload", "mark", "wipeA", "wipeB"}
  PROVE  Torn(t, s) = {s}
<1>1. Complete(t, s) = s
  BY DEF Complete
<1>2. Halfway(t, s) = {}
  BY DEF Halfway
<1> QED
  BY <1>1, <1>2 DEF Torn

\* While the slots and what runs stay, commits may begin and end.
LEMMA KeptBesides ==
  ASSUME TypeOK, Kept, Undisturbed, active' = active, flash' = flash,
         \A t \in Thread : Committing(t)' =>
           \/ job'[t] = job[t]
           \/ job'[t].step = "erase" /\ job'[t].target = CommitTarget
              /\ job'[t].generation = active.generation + 1
  PROVE  Kept'
<1>1. InForceIsStored' /\ CommitTarget' = CommitTarget
  BY DEF Kept, InForceIsStored, CommitTarget
<1>2. TargetHoldsCommit'
  <2> SUFFICES ASSUME NEW t \in Thread, Committing(t)'
               PROVE  LET s == flash'[CommitTarget'] IN
                 /\ job'[t].target = CommitTarget'
                 /\ job'[t].generation = active'.generation + 1
                 /\ job'[t].step = "header" => s.header = 0
                 /\ job'[t].step \in {"payload", "compare", "mark", "confirm"} =>
                      s.header = job'[t].generation /\ s.plan = job'[t].plan
                 /\ job'[t].step \in {"payload", "compare", "mark"} => s.state # "VALID"
                 /\ job'[t].step \in {"compare", "mark", "confirm"} =>
                      s.payload = job'[t].plan
                 /\ job'[t].step = "confirm" => s.state = "VALID"
    BY DEF TargetHoldsCommit
  <2>1. CASE job'[t] = job[t]
    <3>1. Committing(t)
      BY <2>1 DEF Committing
    <3> QED
      BY <1>1, <2>1, <3>1 DEF Kept, TargetHoldsCommit
  <2>2. CASE /\ job'[t].step = "erase" /\ job'[t].target = CommitTarget
             /\ job'[t].generation = active.generation + 1
    BY <1>1, <2>2
  <2> QED
    BY <2>1, <2>2
<1> QED
  BY <1>1, <1>2 DEF Kept

\* A commit's operation, complete or cut short, spoils neither the image in force
\* nor makes a later one than its own.
LEMMA KeptByTouch ==
  ASSUME TypeOK, JobShape, Parity, Kept, Undisturbed,
         active' = active, NEW t \in Thread, Committing(t),
         NEW r \in Torn(t, flash[CommitTarget]),
         flash' = [flash EXCEPT ![CommitTarget] = r]
  PROVE  /\ InForceIsStored'
         /\ SlotValid(flash'[CommitTarget']) =>
              flash'[CommitTarget'].header <= active'.generation + 1
<1>1. CommitTarget' = CommitTarget /\ CommitTarget \in Slot
  BY DEF CommitTarget, Slot
<1>2. flash'[CommitTarget] = r /\ \A s \in Slot : s # CommitTarget => flash'[s] = flash[s]
  BY <1>1 DEF TypeOK
<1>3. InForceIsStored'
  <2>1. CASE active.slot = "NONE"
    <3>1. flash'["A"] = flash["A"]
      BY <1>2, <2>1 DEF CommitTarget, Slot
    <3> QED
      BY <2>1, <3>1 DEF Kept, InForceIsStored
  <2>2. CASE active.slot # "NONE"
    <3>1. flash'[active.slot] = flash[active.slot]
      BY <1>2, <2>2 DEF CommitTarget, Slot, TypeOK
    <3> QED
      BY <2>2, <3>1 DEF Kept, InForceIsStored
  <2> QED
    BY <2>1, <2>2
<1>4. ASSUME SlotValid(r) PROVE r.header <= active.generation + 1
  <2> DEFINE s == flash[CommitTarget]
  <2>1. s \in SlotContent /\ active.generation \in Nat
    BY <1>1 DEF TypeOK
  <2>2. /\ job[t].generation = active.generation + 1
        /\ job[t].step \in {"payload", "mark"} => s.header = job[t].generation
    BY DEF Kept, TargetHoldsCommit
  <2>3. SlotValid(s) => s.header <= active.generation + 1
    BY DEF Kept
  <2> HIDE DEF s
  <2>4. r \in Torn(t, s)
    BY DEF s
  <2>5. \/ r = s
        \/ job[t].step = "payload" /\ r = [s EXCEPT !.payload = job[t].plan]
        \/ job[t].step = "mark" /\ r = [s EXCEPT !.state = "VALID"]
    BY <1>4, <2>1, <2>4, TornCases DEF SlotValid
  <2> QED
    BY <1>4, <2>1, <2>2, <2>3, <2>5 DEF SlotContent
<1> QED
  BY <1>1, <1>2, <1>3, <1>4

LEMMA KeptByFailure ==
  ASSUME TypeOK, JobShape, Parity, Exclusive, Kept, Undisturbed,
         active' = active, NEW t \in Thread, Touches(t, flash'), ~Wipes(t),
         job'[t] = Idle,
         \A u \in Thread : u # t => job'[u] = job[u] \/ job'[u] = Idle
  PROVE  Kept'
<1>0. Idle.step \notin CommitStep
  BY DEF Idle, CommitStep
<1>1. PICK r \in Torn(t, flash[TouchedSlot(t)]) :
        flash' = [flash EXCEPT ![TouchedSlot(t)] = r]
  BY DEF Touches
<1>2. CASE Committing(t)
  <2>1. \A u \in Thread : ~Committing(u)'
    BY <1>0, <1>2, OneCommits DEF Committing, Undisturbed
  <2>2. TouchedSlot(t) = CommitTarget
    BY <1>2 DEF TouchedSlot, Committing, CommitStep, Kept, TargetHoldsCommit
  <2>3. /\ InForceIsStored'
        /\ SlotValid(flash'[CommitTarget']) =>
             flash'[CommitTarget'].header <= active'.generation + 1
    BY <1>1, <1>2, <2>2, KeptByTouch
  <2> QED
    BY <2>1, <2>3 DEF Kept, TargetHoldsCommit
<1>3. CASE ~Committing(t)
  <2>1. job[t].step \notin {"erase", "header", "payload", "mark", "wipeA", "wipeB"}
    BY <1>3 DEF Committing, CommitStep, Wipes
  <2>2. r = flash[TouchedSlot(t)]
    BY <1>1, <2>1, TornIdle
  <2>3. flash' = flash
    BY <1>1, <2>2 DEF TypeOK
  <2>4. \A u \in Thread : Committing(u)' => job'[u] = job[u]
    BY <1>0 DEF Committing
  <2> QED
    BY <2>3, <2>4, KeptBesides
<1> QED
  BY <1>2, <1>3

LEMMA KeptByWrite ==
  ASSUME TypeOK, JobShape, Parity, Exclusive, Kept, Undisturbed, Undisturbed',
         NEW t \in Thread, Writes(t)
  PROVE  Kept'
<1> DEFINE s == flash[CommitTarget]
           r == Complete(t, s)
<1>1. ~Wipes(t) /\ active' = active
  BY DEF Undisturbed, Writes, ramVars
<1>2. Committing(t) /\ job[t].step \in {"erase", "header", "payload", "mark"}
  BY <1>1 DEF Writes, Wipes, Committing, CommitStep
<1>3. TouchedSlot(t) = CommitTarget /\ CommitTarget \in Slot
  BY <1>2 DEF TouchedSlot, Kept, TargetHoldsCommit, CommitTarget, Slot
<1>4. s \in SlotContent /\ job[t] \in Job /\ active.generation \in Nat
  BY <1>3 DEF TypeOK
<1>5. flash' = [flash EXCEPT ![CommitTarget] = r]
  BY <1>3 DEF Writes
<1>6. /\ InForceIsStored'
      /\ SlotValid(flash'[CommitTarget']) =>
           flash'[CommitTarget'].header <= active'.generation + 1
  <2>1. r \in Torn(t, flash[CommitTarget])
    BY DEF Torn
  <2> HIDE DEF r, s
  <2> QED
    BY <1>1, <1>2, <1>5, <2>1, KeptByTouch
<1>7. TargetHoldsCommit'
  <2>1. \A u \in Thread : u # t => ~Committing(u)'
    <3>1. \A u \in Thread : u # t => ~Committing(u) /\ job'[u] = job[u]
      BY <1>2, OneCommits DEF Undisturbed, Writes, TypeOK
    <3> QED
      BY <3>1 DEF Committing
  <2>2. job'[t] = [job[t] EXCEPT !.step = Following(@)]
    BY DEF Writes, TypeOK
  <2>3. /\ job'[t].target = job[t].target /\ job'[t].generation = job[t].generation
        /\ job'[t].plan = job[t].plan /\ job'[t].step = Following(job[t].step)
    BY <1>4, <2>2 DEF Job
  <2>4. CommitTarget' = CommitTarget /\ flash'[CommitTarget] = r
    BY <1>1, <1>3, <1>5 DEF CommitTarget, TypeOK
  <2>5. /\ job[t].target = CommitTarget /\ job[t].generation = active.generation + 1
        /\ job[t].step \in {"payload", "mark"} =>
             s.header = job[t].generation /\ s.plan = job[t].plan /\ s.state # "VALID"
        /\ job[t].step = "mark" => s.payload = job[t].plan
    BY <1>2 DEF Kept, TargetHoldsCommit
  <2>6. LET step == Following(job[t].step) IN
        /\ step \in {"header", "payload", "compare", "confirm"}
        /\ step = "header" => r.header = 0
        /\ step \in {"payload", "compare", "confirm"} =>
             r.header = job[t].generation /\ r.plan = job[t].plan
        /\ step \in {"payload", "compare"} => r.state # "VALID"
        /\ step \in {"compare", "confirm"} => r.payload = job[t].plan
        /\ step = "confirm" => r.state = "VALID"
    <3>1. CASE job[t].step = "erase"
      BY <3>1 DEF Complete, Following, Blank
    <3>2. CASE job[t].step = "header"
      BY <1>4, <3>2 DEF Complete, Following, SlotContent
    <3>3. CASE job[t].step = "payload"
      BY <1>4, <2>5, <3>3 DEF Complete, Following, SlotContent
    <3>4. CASE job[t].step = "mark"
      BY <1>4, <2>5, <3>4 DEF Complete, Following, SlotContent
    <3> QED
      BY <1>2, <3>1, <3>2, <3>3, <3>4
  <2> HIDE DEF s, r
  <2> QED
    BY <1>1, <2>1, <2>3, <2>4, <2>5, <2>6 DEF TargetHoldsCommit
<1> QED
  BY <1>6, <1>7 DEF Kept

LEMMA KeptByConfirm ==
  ASSUME TypeOK, JobShape, Parity, Exclusive, StaysVerified, Kept, Undisturbed,
         NEW t \in Thread, Confirms(t), flash[job[t].target].state = "VALID"
  PROVE  Kept'
<1> DEFINE s == flash[CommitTarget]
<1>1. Committing(t) /\ job[t].step = "confirm"
  BY DEF Confirms, Committing, CommitStep
<1>2. /\ job[t].target = CommitTarget /\ job[t].generation = active.generation + 1
      /\ s.header = job[t].generation /\ s.plan = job[t].plan
      /\ s.payload = job[t].plan /\ s.state = "VALID"
  BY <1>1 DEF Kept, TargetHoldsCommit
<1>3. active.generation \in Nat /\ CommitTarget \in Slot
  BY DEF TypeOK, CommitTarget, Slot
<1>4. job[t].plan \in Valid
  BY <1>1, Constants DEF Undisturbed, StaysVerified
<1>5. SlotValid(s) /\ s.header # 0
  BY <1>2, <1>3, <1>4 DEF SlotValid
<1>6. /\ flash' = flash
      /\ active'.slot = CommitTarget
      /\ active'.generation = active.generation + 1
      /\ active'.plan = job[t].plan
  BY <1>2 DEF Confirms
<1>7. InForceIsStored'
  BY <1>2, <1>3, <1>5, <1>6 DEF InForceIsStored, Slot
<1>8. \A u \in Thread : ~Committing(u)'
  <2>1. job'[t] = Idle /\ \A u \in Thread : u # t => job'[u] = job[u] /\ ~Committing(u)
    BY <1>1, OneCommits DEF Confirms, TypeOK, Undisturbed
  <2> QED
    BY <2>1 DEF Committing, CommitStep, Idle
<1>9. SlotValid(flash'[CommitTarget']) =>
        flash'[CommitTarget'].header <= active'.generation + 1
  <2>1. CASE active.slot = "NONE"
    <3>1. CommitTarget = "B" /\ CommitTarget' = "A"
      BY <1>6, <2>1 DEF CommitTarget
    <3> QED
      BY <1>6, <2>1, <3>1 DEF Kept, InForceIsStored
  <2>2. CASE active.slot # "NONE"
    <3>1. CommitTarget' = active.slot
      BY <1>6, <2>2 DEF CommitTarget, TypeOK, Slot
    <3>2. flash[active.slot].header = active.generation
      BY <2>2 DEF Kept, InForceIsStored
    <3> QED
      BY <1>3, <1>6, <3>1, <3>2
  <2> QED
    BY <2>1, <2>2
<1> QED
  BY <1>7, <1>8, <1>9 DEF Kept, TargetHoldsCommit

LEMMA KeptByLoad ==
  ASSUME TypeOK, flash' = flash, active' = Loaded(flash),
         \A t \in Thread : ~Committing(t)'
  PROVE  Kept'
<1>1. flash \in [Slot -> SlotContent] /\ active' \in ActiveState
  BY LoadedProperties DEF TypeOK
<1>2. InForceIsStored'
  BY <1>1, LoadedProperties DEF InForceIsStored
<1>3. SlotValid(flash'[CommitTarget']) =>
        flash'[CommitTarget'].header <= active'.generation + 1
  <2>1. CommitTarget' \in Slot /\ flash[CommitTarget'].header \in Nat /\ active'.generation \in Nat
    BY <1>1 DEF CommitTarget, Slot, SlotContent, ActiveState
  <2>2. CASE active'.slot = "NONE"
    BY <1>1, <2>1, <2>2, LoadedProperties DEF Slot
  <2>3. CASE active'.slot # "NONE"
    BY <1>1, <2>1, <2>3, LoadedProperties
  <2> QED
    BY <2>2, <2>3
<1> QED
  BY <1>2, <1>3 DEF Kept, TargetHoldsCommit

LEMMA KeptKept ==
  TypeOK /\ JobShape /\ Parity /\ Exclusive /\ StaysVerified /\ Kept /\ [Next]_vars => Kept'
<1> SUFFICES ASSUME TypeOK, JobShape, Parity, Exclusive, StaysVerified, Kept, [Next]_vars,
                    Undisturbed'
             PROVE  Kept'
  BY DEF Kept
<1>a. Undisturbed \/ Boot
  BY CollidedStays, WipedStays DEF Undisturbed
<1>b. Idle.step \notin CommitStep /\ "control" \in Thread
  BY DEF Idle, CommitStep, Thread
<1> DEFINE Besides == /\ active' = active /\ flash' = flash
                      /\ \A t \in Thread : Committing(t)' => job'[t] = job[t]
<1>c. ASSUME Besides PROVE Kept'
  <2>1. CASE Undisturbed
    BY <1>c, <2>1, KeptBesides
  <2>2. CASE Boot
    BY <1>c, <2>2, KeptByLoad, <1>b DEF Boot, JobShape, Committing
  <2> QED
    BY <1>a, <2>1, <2>2
<1>d. ASSUME NEW t \in Thread, NEW j, job' = [job EXCEPT ![t] = j], j.step \notin CommitStep
      PROVE  \A u \in Thread : Committing(u)' => job'[u] = job[u]
  BY <1>d DEF TypeOK, Committing
<1>e. ASSUME NEW t \in Thread, FailJob(t), flash' = flash PROVE Besides
  BY <1>b, <1>d, <1>e DEF FailJob
<1>0. ASSUME UNCHANGED vars PROVE Besides
  BY <1>0 DEF vars, ramVars
<1>1. ASSUME NEW s \in Snmp, SnmpCreate(s) PROVE Besides
  BY <1>1 DEF SnmpCreate
<1>2. ASSUME NEW by \in Mmi \cup {"LOCAL"}, ControlFindsFree(by) PROVE Besides
  <2>1. [Idle EXCEPT !.step = "take", !.by = by].step \notin CommitStep
    BY DEF Idle, CommitStep
  <2> QED
    BY <1>2, <1>b, <1>d, <2>1 DEF ControlFindsFree, ramVars
<1>3. ASSUME ControlTakes PROVE Besides
  <2>1. [job["control"] EXCEPT !.step = "change"].step \notin CommitStep
    BY <1>b DEF CommitStep, TypeOK, Job
  <2> QED
    BY <1>3, <1>b, <1>d, <2>1 DEF ControlTakes
<1>4. ASSUME NEW s \in Session, (\E p \in Plan : Edit(s, p)) \/ Verify(s) \/ Rollback(s) \/ Reopen(s)
      PROVE  Besides
  BY <1>4 DEF Edit, Verify, Rollback, Reopen
<1>5. ASSUME NEW p \in Plan, LocalChange(p) PROVE Besides
  <2>1. [job["control"] EXCEPT !.step = "commit"].step \notin CommitStep
    BY <1>b DEF CommitStep, TypeOK, Job
  <2> QED
    BY <1>5, <1>b, <1>d, <2>1 DEF LocalChange
<1>6. ASSUME FactoryReset PROVE Besides
  <2>1. [Idle EXCEPT !.step = "wipeA"].step \notin CommitStep
    BY DEF Idle, CommitStep
  <2> QED
    BY <1>6, <1>b, <1>d, <2>1 DEF FactoryReset, ramVars
<1>7. ASSUME NEW t \in Thread, Compares(t) PROVE Kept'
  <2>1. CASE flash[job[t].target].payload = job[t].plan
    <3>1. Undisturbed /\ job[t].step = "compare" /\ Committing(t) /\ job[t] \in Job
      BY <1>7, <1>a DEF Compares, Boot, Committing, CommitStep, TypeOK
    <3>2. /\ active' = active /\ flash' = flash /\ job' = [job EXCEPT ![t].step = "mark"]
      BY <1>7, <2>1 DEF Compares, ramVars
    <3>3. /\ job'[t].step = "mark" /\ job'[t].target = job[t].target
          /\ job'[t].generation = job[t].generation /\ job'[t].plan = job[t].plan
          /\ \A u \in Thread : u # t => job'[u] = job[u]
      BY <3>1, <3>2 DEF Job, TypeOK
    <3>4. \A u \in Thread : u # t => ~Committing(u)'
      BY <3>1, <3>3, OneCommits DEF Undisturbed, Committing
    <3>5. CommitTarget' = CommitTarget /\ InForceIsStored'
      BY <3>1, <3>2 DEF CommitTarget, Kept, InForceIsStored
    <3>6. TargetHoldsCommit'
      BY <2>1, <3>1, <3>2, <3>3, <3>4, <3>5 DEF Kept, TargetHoldsCommit
    <3> QED
      BY <3>1, <3>2, <3>5, <3>6 DEF Kept
  <2> QED
    BY <1>7, <1>c, <1>e, <2>1 DEF Compares
<1>8. ASSUME NEW t \in Thread, Confirms(t) PROVE Kept'
  <2>1. Undisturbed
    BY <1>8, <1>a DEF Confirms, Boot
  <2> QED
    BY <1>8, <1>c, <1>e, <2>1, KeptByConfirm DEF Confirms
<1>9. ASSUME NEW t \in Thread, Writes(t) PROVE Kept'
  BY <1>9, <1>a, KeptByWrite DEF Writes, Boot
<1>10. ASSUME NEW t \in Thread, FlashFails(t) PROVE Kept'
  <2>1. CASE flash' = flash
    BY <1>10, <1>c, <1>e, <2>1 DEF FlashFails
  <2>2. CASE flash' # flash
    <3>1. Undisturbed
      BY <1>10, <1>a DEF FlashFails, Boot
    <3>2. /\ Touches(t, flash') /\ ~Wipes(t)
      BY <1>10, <2>2 DEF FlashFails, CutShort, Touches, Undisturbed
    <3>3. /\ active' = active /\ job'[t] = Idle
          /\ \A u \in Thread : u # t => job'[u] = job[u]
      BY <1>10 DEF FlashFails, FailJob, TypeOK
    <3> QED
      BY <3>1, <3>2, <3>3, KeptByFailure
  <2> QED
    BY <2>1, <2>2
<1>11. ASSUME PowerLoss PROVE Kept'
  <2>1. Undisturbed /\ active' = active /\ \A t \in Thread : job'[t] = Idle
    BY <1>11, <1>a DEF PowerLoss, Boot
  <2>2. flash' = flash \/ \E t \in Thread : Touches(t, flash')
    BY FlashChanges
  <2>3. ASSUME NEW t \in Thread, Touches(t, flash') PROVE Kept'
    <3>1. ~Wipes(t)
      BY <1>11 DEF PowerLoss, Undisturbed
    <3> QED
      BY <2>1, <2>3, <3>1, KeptByFailure
  <2>4. CASE flash' = flash
    BY <1>b, <1>c, <2>1, <2>4 DEF Committing
  <2> QED
    BY <2>2, <2>3, <2>4
<1>12. ASSUME Resets PROVE FALSE
  BY <1>12 DEF Resets, JobShape, Undisturbed, Thread
<1>13. ASSUME Boot PROVE Kept'
  BY <1>13, <1>b, KeptByLoad DEF Boot, JobShape, Committing
<1>14. ASSUME NEW by, NEW t \in Thread, Undisturbed, active' = active, flash' = flash,
              job' = [job EXCEPT ![t] = Commits(by)]
       PROVE  Kept'
  <2>1. job'[t] = Commits(by) /\ \A u \in Thread : u # t => job'[u] = job[u]
    BY <1>14 DEF TypeOK
  <2>2. /\ Commits(by).step = "erase" /\ Commits(by).target = CommitTarget
        /\ Commits(by).generation = active.generation + 1
    BY DEF Commits
  <2> QED
    BY <1>14, <2>1, <2>2, KeptBesides
<1>15. ASSUME NEW s \in Session, Finish(s) PROVE Kept'
  <2>1. ThreadOf(s) \in Thread /\ active' = active /\ flash' = flash
    BY <1>15 DEF Finish, ThreadOf, Thread
  <2>2. Undisturbed
    BY <1>15, <1>a DEF Finish, Requests, Serving, Boot
  <2>3. CASE MayCommit
    BY <1>14, <1>15, <2>1, <2>2, <2>3 DEF Finish
  <2>4. CASE ~MayCommit
    BY <1>c, <1>15, <2>1, <2>4 DEF Finish
  <2> QED
    BY <2>3, <2>4
<1>16. ASSUME LocalCommit PROVE Kept'
  <2>1. Undisturbed
    BY <1>16, <1>a, <1>b, Working DEF LocalCommit, Boot
  <2>2. CASE MayCommit
    BY <1>14, <1>16, <1>b, <2>1, <2>2 DEF LocalCommit
  <2>3. CASE ~MayCommit
    BY <1>b, <1>c, <1>e, <1>16, <2>3 DEF LocalCommit
  <2> QED
    BY <2>2, <2>3
<1> HIDE DEF Besides
<1> QED
  BY <1>c, <1>0, <1>1, <1>2, <1>3, <1>4, <1>5, <1>6, <1>7, <1>8, <1>9, <1>10, <1>11, <1>12,
     <1>13, <1>15, <1>16 DEF Next, Proceeds

-----------------------------------------------------------------------------
(* What the next start loads *)

TargetIsStored ==
  /\ SlotValid(flash[CommitTarget])
  /\ flash[CommitTarget].header = active.generation + 1

\* The configuration in force or, once its image is whole, the one being committed.
StoredIsKept ==
  Undisturbed =>
    StoredImage = IF TargetIsStored
                  THEN [generation |-> active.generation + 1,
                        plan |-> flash[CommitTarget].plan]
                  ELSE RunImage

LEMMA StoredCases == TypeOK /\ Parity /\ Kept => StoredIsKept
<1> SUFFICES ASSUME TypeOK, Parity, Kept, Undisturbed
             PROVE  StoredImage = IF TargetIsStored
                                  THEN [generation |-> active.generation + 1,
                                        plan |-> flash[CommitTarget].plan]
                                  ELSE RunImage
  BY DEF StoredIsKept
<1>1. /\ flash["A"].header \in Nat /\ flash["B"].header \in Nat
      /\ active.generation \in Nat
  BY DEF TypeOK, Slot, SlotContent
<1>2. /\ InForceIsStored
      /\ SlotValid(flash[CommitTarget]) =>
           flash[CommitTarget].header <= active.generation + 1
  BY DEF Kept
<1>3. flash["A"].header # 0 /\ flash["B"].header # 0 => flash["A"].header # flash["B"].header
  BY DEF Parity, OfSlot, Slot
<1>4. CASE active.slot = "NONE"
  <2>1. /\ CommitTarget = "B" /\ active.plan = DefaultPlan /\ active.generation = 0
        /\ ~SlotValid(flash["A"])
    BY <1>2, <1>4 DEF CommitTarget, InForceIsStored, Parity
  <2>2. SlotValid(flash["B"]) => flash["B"].header = 1
    BY <1>1, <1>2, <2>1 DEF SlotValid
  <2>3. SelectedSlot(flash) = IF SlotValid(flash["B"]) THEN "B" ELSE "NONE"
    BY <2>1 DEF SelectedSlot
  <2> QED
    BY <2>1, <2>2, <2>3 DEF StoredImage, RunImage, Loaded, TargetIsStored
<1>5. CASE active.slot = "A"
  <2>1. /\ CommitTarget = "B" /\ SlotValid(flash["A"])
        /\ flash["A"].header = active.generation /\ flash["A"].plan = active.plan
    BY <1>2, <1>5 DEF CommitTarget, InForceIsStored
  <2>2. TargetIsStored <=> SlotValid(flash["B"]) /\ flash["B"].header > flash["A"].header
    BY <1>1, <1>2, <2>1 DEF TargetIsStored
  <2>3. SelectedSlot(flash) = IF TargetIsStored THEN "B" ELSE "A"
    BY <2>1, <2>2 DEF SelectedSlot
  <2> QED
    BY <2>1, <2>3 DEF StoredImage, RunImage, Loaded, TargetIsStored
<1>6. CASE active.slot = "B"
  <2>1. /\ CommitTarget = "A" /\ SlotValid(flash["B"])
        /\ flash["B"].header = active.generation /\ flash["B"].plan = active.plan
    BY <1>2, <1>6 DEF CommitTarget, InForceIsStored
  <2>2. TargetIsStored <=> SlotValid(flash["A"]) /\ ~(flash["B"].header > flash["A"].header)
    BY <1>1, <1>2, <1>3, <2>1 DEF TargetIsStored, SlotValid
  <2>3. SelectedSlot(flash) = IF TargetIsStored THEN "A" ELSE "B"
    BY <2>1, <2>2 DEF SelectedSlot, TargetIsStored
  <2> QED
    BY <2>1, <2>3 DEF StoredImage, RunImage, Loaded, TargetIsStored
<1> QED
  BY <1>4, <1>5, <1>6 DEF TypeOK, Slot

\* A whole image in the slot that is not in force stays as it is, or is erased.
LEMMA StoredTargetStays ==
  ASSUME TypeOK, Kept, Undisturbed, Undisturbed', [Next]_vars, active' = active,
         TargetIsStored, TargetIsStored'
  PROVE  flash'[CommitTarget].plan = flash[CommitTarget].plan
<1>1. CommitTarget' = CommitTarget /\ CommitTarget \in Slot
  BY DEF CommitTarget, Slot
<1> DEFINE s == flash[CommitTarget]
<1>2. ASSUME NEW t \in Thread, Touches(t, flash') PROVE flash'[CommitTarget].plan = s.plan
  <2>1. PICK r \in Torn(t, flash[TouchedSlot(t)]) :
          flash' = [flash EXCEPT ![TouchedSlot(t)] = r]
    BY <1>2 DEF Touches
  <2>2. CASE TouchedSlot(t) # CommitTarget
    BY <1>1, <2>1, <2>2 DEF TypeOK
  <2>3. CASE TouchedSlot(t) = CommitTarget
    <3>1. /\ flash'[CommitTarget] = r /\ r \in Torn(t, s) /\ s \in SlotContent
          /\ SlotValid(r)
      BY <1>1, <2>1, <2>3 DEF TypeOK, TargetIsStored
    <3>2. job[t].step \in {"payload", "mark"} => s.state # "VALID"
      BY DEF Kept, TargetHoldsCommit, Committing, CommitStep
    <3>3. job[t].step \notin {"payload", "mark"}
      BY <3>2 DEF TargetIsStored, SlotValid
    <3> HIDE DEF s
    <3>4. r = s
      BY <3>1, <3>3, TornCases DEF SlotValid
    <3> QED
      BY <3>1, <3>4
  <2> QED
    BY <2>2, <2>3
<1> QED
  BY <1>1, <1>2, FlashChanges

LEMMA StoreSteps ==
  ASSUME IInv, IInv', StoredIsKept, StoredIsKept', [Next]_vars
  PROVE  [Undisturbed' => Store!Next]_<<StoredImage, RunImage>>
<1> SUFFICES ASSUME Undisturbed'
             PROVE  Store!Next \/ UNCHANGED <<StoredImage, RunImage>>
  OBVIOUS
<1>a. Undisturbed \/ Boot
  BY CollidedStays, WipedStays DEF IInv, Undisturbed
<1>1. ASSUME Boot PROVE Store!Next
  <2>1. flash' = flash /\ active' = Loaded(flash)
    BY <1>1 DEF Boot
  <2>2. StoredImage' = StoredImage /\ RunImage' = StoredImage
    BY <2>1 DEF StoredImage, RunImage
  <2> QED
    BY <2>2 DEF Store!Next, Store!Adopt
<1>2. ASSUME Undisturbed, NEW t \in Thread, Confirms(t), flash[job[t].target].state = "VALID"
      PROVE  Store!Next
  <2>1. Committing(t) /\ job[t].step = "confirm"
    BY <1>2 DEF Confirms, Committing, CommitStep
  <2>2. /\ job[t].target = CommitTarget /\ job[t].generation = active.generation + 1
        /\ flash[CommitTarget].header = job[t].generation
        /\ flash[CommitTarget].plan = job[t].plan
        /\ flash[CommitTarget].payload = job[t].plan
        /\ flash[CommitTarget].state = "VALID"
    BY <1>2, <2>1 DEF IInv, Kept, TargetHoldsCommit
  <2>3. job[t].plan \in Valid /\ active.generation \in Nat
    BY <1>2, <2>1, Constants DEF IInv, Undisturbed, StaysVerified, TypeOK
  <2>4. TargetIsStored
    BY <2>2, <2>3 DEF TargetIsStored, SlotValid
  <2>5. StoredImage = [generation |-> job[t].generation, plan |-> job[t].plan]
    BY <1>2, <2>2, <2>4 DEF StoredIsKept
  <2>6. StoredImage' = StoredImage /\ RunImage' = StoredImage
    BY <1>2, <2>5 DEF Confirms, StoredImage, RunImage
  <2> QED
    BY <2>6 DEF Store!Next, Store!Adopt
<1>3. ASSUME Undisturbed, active' = active PROVE Store!Next \/ UNCHANGED <<StoredImage, RunImage>>
  <2>1. RunImage' = RunImage /\ CommitTarget' = CommitTarget
    BY <1>3 DEF RunImage, CommitTarget
  <2>2. CASE ~TargetIsStored'
    <3>1. StoredImage' = RunImage
      BY <2>1, <2>2 DEF StoredIsKept
    <3> QED
      BY <2>1, <3>1 DEF Store!Next, Store!Withdraw
  <2>3. CASE TargetIsStored' /\ ~TargetIsStored
    <3>1. StoredImage = RunImage
      BY <1>3, <2>3 DEF StoredIsKept
    <3>2. StoredImage' = [generation |-> active.generation + 1,
                          plan |-> flash'[CommitTarget].plan]
      BY <1>3, <2>1, <2>3 DEF StoredIsKept
    <3>3. flash'[CommitTarget].plan \in Plan /\ active.generation + 1 \in Nat
      BY <2>1 DEF IInv, TypeOK, SlotContent, CommitTarget, Slot
    <3>4. RunImage.generation = active.generation
      BY DEF RunImage
    <3> QED
      BY <2>1, <3>1, <3>2, <3>3, <3>4 DEF Store!Next, Store!Land, Store!Successor, Store!Image
  <2>4. CASE TargetIsStored' /\ TargetIsStored
    <3>1. flash'[CommitTarget].plan = flash[CommitTarget].plan
      BY <1>3, <2>4, StoredTargetStays DEF IInv
    <3>2. StoredImage' = StoredImage
      BY <1>3, <2>1, <2>4, <3>1 DEF StoredIsKept
    <3> QED
      BY <2>1, <3>2
  <2> QED
    BY <2>2, <2>3, <2>4
<1>4. ~Resets
  BY DEF Resets, IInv, JobShape, Undisturbed, Thread
<1> QED
  BY <1>a, <1>1, <1>2, <1>3, <1>4, ActiveChanges

-----------------------------------------------------------------------------
(* The theorems *)

LEMMA Inductive == IInv /\ [Next]_vars => IInv'
  BY TypesKept, ShapeKept, ParityKept, ExclusiveKept, VerifiedKept, KeptKept, ReleasedKept
  DEF IInv

LEMMA Invariance == Spec => []IInv
  BY InitEstablishes, Inductive, PTL DEF Spec

\* The candidate, the transaction, the jobs and the slots keep their types
\* (ConfigurationService.c, NtcipDbTransactionService.c).
THEOREM TypeCorrect == Spec => []TypeOK
<1>1. IInv => TypeOK
  BY DEF IInv
<1> QED
  BY <1>1, Invariance, PTL

\* Two valid slots never carry the same generation: the slot a commit is written to
\* fixes whether its generation is odd (SelectCommitTarget, ConfigurationServiceLoad).
THEOREM BootUnambiguous == Spec => []BootIsUnambiguous
<1>1. IInv => BootIsUnambiguous
  BY DEF IInv, Parity, OfSlot, Slot, SlotValid, BootIsUnambiguous
<1> QED
  BY <1>1, Invariance, PTL

\* Without a collision of two writers only configurations that verify accepts run
\* (ConfigurationServiceVerify, ConfigurationServiceCommit, LoadSlot).
THEOREM RunsSupported == Spec => []InForceIsSupported
<1>1. IInv => InForceIsSupported
  BY DEF IInv, StaysVerified, InForceIsSupported
<1> QED
  BY <1>1, Invariance, PTL

\* A candidate in use has somebody who can release it, but for a local setting whose
\* commit failed (CreateTransaction, NtcipDbTransactionServiceSetCreateTransactionValue).
THEOREM CandidateReleased == Spec => []CandidateIsReleased
<1>1. IInv => CandidateIsReleased
  BY DEF IInv
<1> QED
  BY <1>1, Invariance, PTL

\* The slots implement the store: whichever operation fails or power is lost in, the
\* next start loads what is in force or, whole, what is being committed
\* (ConfigurationServiceCommit, ConfigurationServiceLoad).
THEOREM StoreKept == Spec => KeepsStore
<1>1. Init => Store!Init
  <2> SUFFICES ASSUME Init PROVE Store!Init
    OBVIOUS
  <2>1. SelectedSlot(flash) = "NONE"
    BY DEF Init, SelectedSlot, SlotValid, Blank, Slot
  <2> QED
    BY <2>1 DEF Init, Store!Init, Store!FactoryImage, StoredImage, RunImage, Loaded
<1>2. IInv => StoredIsKept
  BY StoredCases DEF IInv
<1>3. IInv /\ IInv' /\ StoredIsKept /\ StoredIsKept' /\ [Next]_vars =>
        [Undisturbed' => Store!Next]_<<StoredImage, RunImage>>
  BY StoreSteps
<1> QED
  BY <1>1, <1>2, <1>3, Invariance, PTL DEF Spec, KeepsStore

\* While nothing is reset and nobody collides the generation in force never goes down,
\* restarts included (ConfigurationServiceLoad).
THEOREM GenerationsGrow == Spec => NeverOlder
<1>1. IInv => StoredIsKept
  BY StoredCases DEF IInv
<1>2. ASSUME IInv, StoredIsKept, [Next]_vars, Undisturbed
      PROVE  active'.generation >= active.generation
  <2>1. active.generation \in Nat
    BY <1>2 DEF IInv, TypeOK
  <2>2. ASSUME NEW t \in Thread, Confirms(t)
        PROVE  job[t].generation = active.generation + 1
    BY <1>2, <2>2 DEF IInv, Kept, TargetHoldsCommit, Confirms, Committing, CommitStep
  <2>3. Loaded(flash).generation \in {active.generation, active.generation + 1}
    BY <1>2 DEF StoredIsKept, StoredImage, RunImage
  <2> QED
    BY <1>2, <2>1, <2>2, <2>3, ActiveChanges
<1>3. IInv /\ StoredIsKept /\ [Next]_vars =>
        [Undisturbed /\ Undisturbed' => active'.generation >= active.generation]_active
  BY <1>2
<1> QED
  BY <1>1, <1>3, Invariance, PTL DEF Spec, NeverOlder

=============================================================================
