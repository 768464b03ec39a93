------------------------------ MODULE CpMpLink ------------------------------
(***************************************************************************)
(* The control-bus link between the Controller Processor (CP) and the      *)
(* Malfunction-monitor Processor (MP).                                     *)
(*   CP: src/CPM/CP/App/Domain/Intersection/CpMpLinkService.c              *)
(*   MP: src/CPM/MP/App/Domain/Intersection/CpMpLinkService.c              *)
(* Every 10 ms each processor drains the frames its interrupt handler has  *)
(* stored (ControlBusAdapterStep), gives the frames queued one period      *)
(* earlier to the CAN controller, and runs CpMpLinkServiceStep, which only *)
(* queues frames.  CP sends heartbeats and the configuration image (BEGIN, *)
(* chunks, COMMIT); MP answers with its configuration state, the           *)
(* generation it holds and its safety action.                              *)
(*                                                                         *)
(* A frame is handled when it arrives: the receive queue is drained before *)
(* the step of the same period and nothing else reads what the handlers    *)
(* write, so storing the frame first would change no later state.          *)
(*                                                                         *)
(* A generation stands for the pair <configSetId, configGeneration>, which *)
(* the code always reads, sends and compares together; the content of a    *)
(* configuration is named by the generation that published it.  Frames are *)
(* well formed (length and version tests pass).                            *)
(*                                                                         *)
(* Assumed of the bus: what a processor gives the wire in one period has   *)
(* arrived, in order, before its next but one step.  ControlBusEgress      *)
(* shows that MP's transmit queue does not live up to that: what CP knows  *)
(* of MP may be older by the delay of that queue.  What MP does with CP's  *)
(* frames is not concerned.                                                *)
(***************************************************************************)
EXTENDS Naturals, SequencesExt

CONSTANTS
  NumChunks,      \* chunks of one configuration image (12 on the target)
  MaxGeneration,  \* bound on the generations that are published
  PeerTimeout,    \* CPMP_PEER_TIMEOUT_TICKS: periods a heartbeat stays fresh
  MaxLead,        \* bound on the periods one processor runs ahead of the other
  MaxLosses,      \* bound on the frames lost on the bus
  MaxCrashes,     \* bound on the restarts of either processor
  Rejected,       \* generations whose image BuildIntersectionConfig refuses
  FaultActions    \* the actions the faults on MP can latch: FLASH, DARK

ASSUME NumChunksAssumption == NumChunks \in Nat \ {0}
ASSUME BoundsAssumption ==
  /\ MaxGeneration \in Nat \ {0}
  /\ PeerTimeout \in Nat \ {0}
  /\ MaxLead \in Nat \ {0}
  /\ MaxLosses \in Nat
  /\ MaxCrashes \in Nat
ASSUME RejectedAssumption == Rejected \subseteq 1..MaxGeneration
ASSUME FaultActionsAssumption == FaultActions \subseteq {"FLASH", "DARK"}

VARIABLES
  activeGeneration,   \* CP ConfigurationService: the committed configuration
  cp,                 \* CP CpMpLinkService_t
  cpTxQueue,          \* frames CP queued in its last step
  toMp,               \* frames on the wire to MP
  mp,                 \* MP CpMpLinkService_t
  activeImage,        \* MP ConfigurationService: the image being enforced
  latchedAction,      \* MP SafetyDecisionService: the latched action
  mpTxQueue, toCp,    \* the same two stages in the other direction
  lead,               \* <<CP, MP>>: steps taken beyond the other processor's
  losses, crashes     \* used up so far

cpVars  == <<cp, cpTxQueue>>
mpVars  == <<mp, activeImage, latchedAction, mpTxQueue>>
envVars == <<lead, losses, crashes>>
vars == <<activeGeneration, cpVars, toMp, mpVars, toCp, envVars>>

-----------------------------------------------------------------------------
(* Data *)

Generation   == 0..MaxGeneration      \* 0: never received, or cleared by memset
Chunk        == 0..(NumChunks - 1)
Age          == 0..(PeerTimeout + 1)  \* PeerTimeout + 1: expired
TxState      == {"IDLE", "BEGIN", "CHUNKS", "COMMIT"}
ConfigState  == {"EMPTY", "LOADING", "APPLIED", "INVALID"}
SafetyAction == {"NORMAL", "FLASH", "DARK"}

CpFrame == [type : {"HEARTBEAT", "BEGIN", "CHUNK", "COMMIT"},
            gen : Generation, index : Chunk]
MpFrame == [type : {"HEARTBEAT", "CFG_STATUS", "SAFETY"},
            config : ConfigState, gen : Generation, action : SafetyAction]

Image(g) == [i \in Chunk |-> g]

Older(age) == IF age > PeerTimeout THEN age ELSE age + 1
Fresh(age) == age <= PeerTimeout

CpState ==
  [up : BOOLEAN, tx : TxState, nextChunk : 0..NumChunks,
   configGeneration : Generation, age : Age, mpConfig : ConfigState,
   mpGeneration : Generation, lastAction : SafetyAction, safetyAction : SafetyAction]

MpState ==
  [up : BOOLEAN, config : ConfigState, expected : Generation,
   applied : Generation, loading : Generation, image : [Chunk -> Generation],
   received : SUBSET Chunk, age : Age, configReady : BOOLEAN]

-----------------------------------------------------------------------------
(* CP *)

\* CpMpLinkServiceInit; the image is built from the active configuration.
CpBooted(up) ==
  [up |-> up, tx |-> "BEGIN", nextChunk |-> 0, configGeneration |-> activeGeneration,
   age |-> PeerTimeout + 1, mpConfig |-> "EMPTY", mpGeneration |-> 0,
   lastAction |-> "FLASH", safetyAction |-> "FLASH"]

PeerHealthy(c) == Fresh(c.age)

\* Wrong: any applied configuration gives authority.
AuthorityReadyAnyGeneration(c) == PeerHealthy(c) /\ c.mpConfig = "APPLIED"

AuthorityReady(c) ==
  /\ PeerHealthy(c)
  /\ c.mpConfig = "APPLIED"
  /\ c.mpGeneration = c.configGeneration

EffectiveSafetyAction(c) == IF AuthorityReady(c) THEN c.lastAction ELSE "FLASH"

QueueConfigTransfer(c) ==
  [c EXCEPT !.tx = "BEGIN", !.nextChunk = 0, !.configGeneration = activeGeneration]

\* Wrong: a transfer that did not arrive is not repeated.
RestartTransferOnChangeOnly(c) ==
  IF c.configGeneration # activeGeneration THEN QueueConfigTransfer(c) ELSE c

\* The first half of CpMpLinkServiceStep: c is the state after tickCount++.
RestartTransfer(c) ==
  LET changed == IF c.configGeneration # activeGeneration
                 THEN QueueConfigTransfer(c) ELSE c
  IN  IF changed.tx = "IDLE" /\ ~AuthorityReady(changed)
      THEN QueueConfigTransfer(changed) ELSE changed

\* Wrong: the last chunk is followed by one more.
AdvanceTransferOnePastEnd(c) ==
  CASE c.tx = "BEGIN"  -> [c EXCEPT !.tx = "CHUNKS"]
    [] c.tx = "CHUNKS" -> [c EXCEPT !.nextChunk = @ + 1,
                             !.tx = IF c.nextChunk + 1 > NumChunks
                                    THEN "COMMIT" ELSE "CHUNKS"]
    [] c.tx = "COMMIT" -> [c EXCEPT !.tx = "IDLE"]
    [] OTHER           -> c

\* SendConfigBegin, SendConfigChunk and SendConfigCommit advance the transfer.
AdvanceTransfer(c) ==
  CASE c.tx = "BEGIN"  -> [c EXCEPT !.tx = "CHUNKS"]
    [] c.tx = "CHUNKS" -> [c EXCEPT !.nextChunk = @ + 1,
                             !.tx = IF c.nextChunk + 1 >= NumChunks
                                    THEN "COMMIT" ELSE "CHUNKS"]
    [] c.tx = "COMMIT" -> [c EXCEPT !.tx = "IDLE"]
    [] OTHER           -> c

ToMpFrame(type, g, i) == [type |-> type, gen |-> g, index |-> i]

ConfigFrames(c) ==
  CASE c.tx = "BEGIN"  -> << ToMpFrame("BEGIN", c.configGeneration, 0) >>
    [] c.tx = "CHUNKS" -> << ToMpFrame("CHUNK", c.configGeneration, c.nextChunk) >>
    [] c.tx = "COMMIT" -> << ToMpFrame("COMMIT", c.configGeneration, 0) >>
    [] OTHER           -> << >>

\* What a processor put on the wire a period ago has arrived.
CpStep ==
  /\ cp.up
  /\ IF mp.up THEN lead[1] < MaxLead /\ toMp = << >> ELSE toCp = << >>
  /\ LET c == RestartTransfer([cp EXCEPT !.age = Older(@)])
     IN  /\ cp' = [AdvanceTransfer(c) EXCEPT !.safetyAction = EffectiveSafetyAction(c)]
         /\ cpTxQueue' = << ToMpFrame("HEARTBEAT", c.configGeneration, 0) >>
                         \o ConfigFrames(c)
  \* ControlBusAdapterStep gave the older queue to the wire before this step.
  /\ toMp' = IF mp.up THEN cpTxQueue ELSE << >>
  /\ lead' = IF ~mp.up THEN <<0, 0>>
             ELSE IF lead[2] > 0 THEN <<0, lead[2] - 1>> ELSE <<lead[1] + 1, 0>>
  /\ UNCHANGED <<activeGeneration, mpVars, toCp, losses, crashes>>

\* OnRxFrame on CP, for the next frame to arrive.
CpRx(type) ==
  /\ cp.up /\ toCp # << >>
  /\ Head(toCp).type = type
  /\ toCp' = Tail(toCp)
  /\ UNCHANGED <<activeGeneration, cpTxQueue, toMp, mpVars, envVars>>

CpRxHeartbeat ==
  /\ CpRx("HEARTBEAT")
  /\ cp' = [cp EXCEPT !.mpConfig = Head(toCp).config, !.mpGeneration = Head(toCp).gen,
                      !.lastAction = Head(toCp).action, !.age = 0]

CpRxConfigStatus ==
  /\ CpRx("CFG_STATUS")
  /\ cp' = [cp EXCEPT !.mpConfig = Head(toCp).config, !.mpGeneration = Head(toCp).gen]

\* MP_SAFETY and MP_FAULTS carry the same action, queued one after the other.
CpRxSafety ==
  /\ CpRx("SAFETY")
  /\ cp' = [cp EXCEPT !.lastAction = Head(toCp).action]

\* A commit of the configuration database on CP publishes the next generation.
EditConfig ==
  /\ cp.up /\ activeGeneration < MaxGeneration
  /\ activeGeneration' = activeGeneration + 1
  /\ UNCHANGED <<cpVars, toMp, mpVars, toCp, envVars>>

-----------------------------------------------------------------------------
(* MP *)

NoImage == Image(0)   \* configImage after memset

\* CpMpLinkServiceInit on zeroed memory: the tick count and the tick of the
\* last heartbeat both start at 0.
MpBooted(up) ==
  [up |-> up, config |-> "EMPTY", expected |-> 0, applied |-> 0, loading |-> 0,
   image |-> NoImage, received |-> {}, age |-> 0, configReady |-> FALSE]

CurrentReportedGeneration(m) ==
  CASE m.config = "APPLIED" -> m.applied
    [] m.config = "LOADING" -> m.loading
    [] OTHER                -> m.expected

CurrentConfigReady(m) == m.config = "APPLIED" /\ m.applied = m.expected

CurrentSafetyAction(m) ==
  CASE latchedAction # "NONE"                      -> latchedAction
    [] ~Fresh(m.age) \/ ~CurrentConfigReady(m)     -> "FLASH"
    [] OTHER                                       -> "NORMAL"

ResetLoadingState(m) ==
  [m EXCEPT !.image = NoImage, !.received = {}, !.loading = 0]

ToCpFrame(type, m) ==
  [type |-> type, config |-> m.config, gen |-> CurrentReportedGeneration(m),
   action |-> CurrentSafetyAction(m)]

MpStep ==
  /\ mp.up
  /\ IF cp.up THEN lead[2] < MaxLead /\ toCp = << >> ELSE toMp = << >>
  /\ LET m == [mp EXCEPT !.age = Older(@)]
     IN  /\ mp' = [m EXCEPT !.configReady = CurrentConfigReady(m)]
         /\ mpTxQueue' = << ToCpFrame("HEARTBEAT", m), ToCpFrame("CFG_STATUS", m),
                            ToCpFrame("SAFETY", m) >>
  /\ toCp' = IF cp.up THEN mpTxQueue ELSE << >>
  /\ lead' = IF ~cp.up THEN <<0, 0>>
             ELSE IF lead[1] > 0 THEN <<lead[1] - 1, 0>> ELSE <<0, lead[2] + 1>>
  /\ UNCHANGED <<activeGeneration, cpVars, toMp, activeImage, latchedAction,
                 losses, crashes>>

\* OnRxFrame on MP, for the next frame to arrive.
MpRx(type) ==
  /\ mp.up /\ toMp # << >>
  /\ Head(toMp).type = type
  /\ toMp' = Tail(toMp)
  /\ UNCHANGED <<activeGeneration, cpVars, latchedAction, mpTxQueue, toCp, envVars>>

MpRxHeartbeat ==
  /\ MpRx("HEARTBEAT")
  /\ mp' = [mp EXCEPT !.expected = Head(toMp).gen, !.age = 0]
  /\ UNCHANGED activeImage

MpRxConfigBegin ==
  /\ MpRx("BEGIN")
  /\ mp' = [ResetLoadingState(mp) EXCEPT !.config = "LOADING", !.loading = Head(toMp).gen]
  /\ UNCHANGED activeImage

MpRxConfigChunk ==
  /\ MpRx("CHUNK")
  /\ mp' = IF mp.config # "LOADING" THEN mp
           ELSE [mp EXCEPT !.image[Head(toMp).index] = Head(toMp).gen,
                           !.received = @ \cup {Head(toMp).index}]
  /\ UNCHANGED activeImage

\* Wrong: chunks lost on the way are not missed.
CommitAcceptedIncomplete(m, g) == g = m.loading /\ \A i \in Chunk : m.image[i] \notin Rejected

\* Wrong: the generation of the COMMIT is not compared with that of the BEGIN.
CommitAcceptedAnyGeneration(m, g) ==
  m.received = Chunk /\ \A i \in Chunk : m.image[i] \notin Rejected

\* A COMMIT of another transfer, an incomplete image, or an image that
\* BuildIntersectionConfig refuses (it then leaves the enforced one alone).
CommitAccepted(m, g) ==
  /\ g = m.loading
  /\ m.received = Chunk
  /\ \A i \in Chunk : m.image[i] \notin Rejected

MpRxConfigCommit ==
  /\ MpRx("COMMIT")
  /\ \/ /\ mp.config # "LOADING"
        /\ UNCHANGED <<mp, activeImage>>
     \/ /\ mp.config = "LOADING" /\ CommitAccepted(mp, Head(toMp).gen)
        /\ mp' = ResetLoadingState([mp EXCEPT !.config = "APPLIED", !.applied = mp.loading])
        /\ activeImage' = mp.image
     \/ /\ mp.config = "LOADING" /\ ~CommitAccepted(mp, Head(toMp).gen)
        /\ mp' = ResetLoadingState([mp EXCEPT !.config = "INVALID"])
        /\ UNCHANGED activeImage

\* SafetyDecisionServiceOnFault: the latch only escalates (see MalfunctionEngine).
LatchFault(action) ==
  /\ mp.up
  /\ \/ latchedAction = "NONE"
     \/ latchedAction = "FLASH" /\ action = "DARK"
  /\ latchedAction' = action
  /\ UNCHANGED <<activeGeneration, cpVars, toMp, mp, activeImage, mpTxQueue, toCp, envVars>>

-----------------------------------------------------------------------------
(* The bus and the restarts *)

LoseFrame ==
  /\ losses < MaxLosses
  /\ losses' = losses + 1
  /\ \/ /\ \E i \in DOMAIN toMp : toMp' = RemoveAt(toMp, i)
        /\ UNCHANGED toCp
     \/ /\ \E i \in DOMAIN toCp : toCp' = RemoveAt(toCp, i)
        /\ UNCHANGED toMp
  /\ UNCHANGED <<activeGeneration, cpVars, mpVars, lead, crashes>>

\* A crash forgets everything but the committed configuration, and what was
\* queued in software; frames on the wire still arrive.
CpCrash ==
  /\ cp.up /\ crashes < MaxCrashes
  /\ crashes' = crashes + 1
  /\ cp' = CpBooted(FALSE)
  /\ cpTxQueue' = << >> /\ toCp' = << >>
  /\ lead' = <<0, 0>>
  /\ UNCHANGED <<activeGeneration, toMp, mpVars, losses>>

CpBoot ==
  /\ ~cp.up
  /\ cp' = CpBooted(TRUE)
  /\ UNCHANGED <<activeGeneration, cpTxQueue, toMp, mpVars, toCp, envVars>>

\* ConfigurationServiceInit on MP loads defaults, here the image of generation 0.
MpCrash ==
  /\ mp.up /\ crashes < MaxCrashes
  /\ crashes' = crashes + 1
  /\ mp' = MpBooted(FALSE)
  /\ activeImage' = NoImage
  /\ latchedAction' = "NONE"
  /\ mpTxQueue' = << >> /\ toMp' = << >>
  /\ lead' = <<0, 0>>
  /\ UNCHANGED <<activeGeneration, cpVars, toCp, losses>>

MpBoot ==
  /\ ~mp.up
  /\ mp' = MpBooted(TRUE)
  /\ UNCHANGED <<activeGeneration, cpVars, toMp, activeImage, latchedAction, mpTxQueue,
                 toCp, envVars>>

-----------------------------------------------------------------------------
Init ==
  /\ activeGeneration = 1
  /\ cp = CpBooted(TRUE)
  /\ mp = MpBooted(TRUE)
  /\ activeImage = NoImage
  /\ latchedAction = "NONE"
  /\ cpTxQueue = << >> /\ toMp = << >> /\ mpTxQueue = << >> /\ toCp = << >>
  /\ lead = <<0, 0>>
  /\ losses = 0 /\ crashes = 0

CpReceives == CpRxHeartbeat \/ CpRxConfigStatus \/ CpRxSafety
MpReceives == MpRxHeartbeat \/ MpRxConfigBegin \/ MpRxConfigChunk \/ MpRxConfigCommit

Next ==
  \/ CpStep \/ CpReceives \/ EditConfig
  \/ MpStep \/ MpReceives \/ \E action \in FaultActions : LatchFault(action)
  \/ LoseFrame \/ CpCrash \/ CpBoot \/ MpCrash \/ MpBoot

Spec == Init /\ [][Next]_vars

\* Each processor goes on: its super-loop steps and takes what arrives, and once it
\* resets it is restarted by its watchdog.
Fairness ==
  /\ WF_vars(CpStep \/ CpReceives \/ CpBoot)
  /\ WF_vars(MpStep \/ MpReceives \/ MpBoot)

FairSpec == Spec /\ Fairness

-----------------------------------------------------------------------------
(* What the link promises *)

TypeOK ==
  /\ activeGeneration \in Generation
  /\ cp \in CpState
  /\ mp \in MpState
  /\ activeImage \in [Chunk -> Generation]
  /\ latchedAction \in {"NONE", "FLASH", "DARK"}
  /\ cpTxQueue \in Seq(CpFrame) /\ toMp \in Seq(CpFrame)
  /\ mpTxQueue \in Seq(MpFrame) /\ toCp \in Seq(MpFrame)
  /\ lead \in (0..MaxLead) \X (0..MaxLead)
  /\ losses \in 0..MaxLosses /\ crashes \in 0..MaxCrashes

\* An MP that reports a generation as APPLIED enforces that generation in every
\* chunk, whatever edits, losses and restarts cut transfers short: no image is
\* ever put together from two configurations (CpMpLinkService.c of MP, BEGIN
\* resets, COMMIT compares generations and counts chunks).
AppliedImagePure == mp.config = "APPLIED" => activeImage = Image(mp.applied)

\* While MP runs, a late COMMIT of an interrupted transfer never puts an older
\* configuration back in force (QueueConfigTransfer restarts with BEGIN).
AppliedNeverRegresses ==
  [][mp.up /\ mp'.up => \A i \in Chunk : activeImage[i] <= activeImage'[i]]_vars

\* Once CP runs the last configuration and MP accepts it, MP comes to enforce it
\* for good: a transfer broken by a loss, an edit or a restart is repeated until
\* it succeeds (CpMpLinkServiceStep restarts while the peer does not match).
ImageCatchesUp ==
  <>[](activeGeneration \notin Rejected => activeImage = Image(activeGeneration))

-----------------------------------------------------------------------------
(* What the documents say and the code does not do *)

\* With both processors running, nothing lost and nothing edited, MP's APPLIED
\* and CP's authority settle (Validation/HIL/BringupRunbook.md:75-76).  CP goes
\* back to IDLE when it queues COMMIT, and its next step finds MP still LOADING
\* and starts over.
AuthoritySettles == <>[]AuthorityReady(cp)

=============================================================================
