# A verification of the CPM traffic-signal controller

The repository holds the firmware of a traffic-signal cabinet: the controller CPM (`src/CPM`), the
power supply module PSM (`src/PSM`) and the signal card SSM (`src/SSM`), of which a cabinet has
several. CPM consists of two processors. The *Controller Processor* (CP, STM32H7) runs the signal
engine and the interfaces to management stations and to the operator. The *malfunction-monitor
Processor* (MP, STM32G4) watches what the lamps really show and may force the intersection to FLASH
or DARK. They talk over a private CAN-FD bus, the control bus; both listen to the field bus, where
the PSM and the SSMs report their measurements and the SSMs take their commands.

The specifications in this directory are about the paths on which safety and recovery depend and
which unit tests, all of them single-threaded and with ports that never fail, hardly reach: the
transfer of the configuration from CP to MP and of MP's verdict back, MP's monitors of the signals
and its decision to withhold the output relay, the frames that compete for the control bus, the
record of faults, the stored configuration and how it is changed, the exchange of the running plan,
and the flash pattern a signal card stores.

All paths below are relative to `src/CPM` unless they begin with `src/`.

## 1. The system and its parts

### Inventory

| Part | State it keeps | Operations | Talks to |
|---|---|---|---|
| CP-MP link (`CP`, `MP/App/Domain/Intersection/CpMpLinkService.c`) | CP: transfer state, next chunk, generation sent, tick of the last heartbeat, MP's last report. MP: configuration state, expected, loading and applied generation, image being loaded, chunks received | step every 10 ms; one handler per frame type | control bus; CP's and MP's configuration services, MP's safety decision, CP's MMU adapter |
| Control bus adapters (`*/Adapters/STM32/ControlBusAdapter.c`) | 16-entry transmit queue, receive queue filled by the interrupt | step: hand received frames over, fill the CAN controller; queue a frame | link services; a three-frame hardware FIFO |
| Malfunction engine (`MP/App/Domain/Malfunction/MalfunctionEngine.c`) with module health, supply and sensor monitors | silence counters, reported modules, out-of-band latches, debounced sensors | tick every 10 ms | field-bus snapshot, safety decision, fault recording |
| Channel monitors (same directory) and `ChannelStateResolver.c` | dwell counters per channel or pair | tick on the resolved image | malfunction engine |
| Safety decision (`SafetyDecisionService.c`) | latched action and its code, configuration and module readiness | fault, readiness, relay refresh | MP's relay; reported to CP |
| Fault recording (`MP/App/Domain/FaultMonitor`) | trace of the last faults, numbered from 1 | record; find by number | the link streams it to CP's log |
| Configuration store (`CP/App/Domain/Intersection/ConfigurationService.c`) | active configuration and generation, candidate, two flash slots | create, set, verify, commit, roll back, load at start | SNMP, MMI, local settings; commit observer |
| Database transactions (`CP/App/Domain/NTCIP/Core/NtcipDbTransactionService.c`) | NORMAL, TRANSACTION, VERIFY, DONE | writes of `dbCreateTransaction` | SNMP thread, MMI |
| Plan activation (`CP/App/Domain/Intersection/IntersectionActivationService.c`) | state machine, two plan slots, red counter, live and pending set id | stage (from the commit), step (control task) | engine, MMU adapter, output driver, field-bus receiver |
| Signal engine (`IntersectionEngine.c`, `IntersectionConfig.c`) | phases, rings, overlaps, preempts, coordination | tick; load a plan | controller, dispatcher |
| Controller, dispatcher, MMU adapter, relay control, output test | force-all-red, safety action, configuration readiness, user's switch, test in progress | one controller step per 10 ms; commands from MMI and the panel | field-bus transmitter, CP's relay |
| Field-bus adapters (`FieldBusRxAdapter.c`, `FieldBusTxAdapter.c`) | last telemetry and its age per module, configuration epoch, flash-configuration upload | receive, step | SSMs, PSM; engine and activation |
| MMI, local settings, panel, events, detectors, time, NTCIP objects | caches, sessions, reports, clock | requests of people and stations | everything above |
| SSM (`src/SSM/App`) | output image, fallback flash pattern in a two-page journal, watchdog on the bus's flash pulse | CAN parser, measurement, storage tasks | field bus, flash |
| PSM (`src/PSM/App`) | mains measurement, frequency capture, common flash pulse | measurement, CAN and storage tasks | field bus |

`PROJECT.json` lists the same parts with their files and how far each is modelled.

### What is hard about it

* **Two processors that start, stop and lose frames independently.** A configuration image goes over
  in a BEGIN, twelve chunks and a COMMIT, any of which may be lost, or be overtaken by a commit of a
  newer configuration or by a restart of either side.
* **Evidence with an age.** CP operates NORMAL on reports that were queued one period, sent in
  another and stay valid for five. MP's relay follows a readiness of the previous period.
* **A saturated queue.** MP makes more frames in a period than its controller's FIFO takes.
* **Two threads on one service, without locks.** SNMP requests are handled in lwIP's thread, whose
  priority is above the control task's; a commit can stage a plan between any two accesses of the
  task that is activating another.
* **Histories.** Latches, counters that report at equality with a threshold, sequence numbers that
  restart with one processor and not with the other.
* **Flash.** Configuration slots and the SSM's journal are written in several steps and power may
  fail between any two.

The list of hazards in `PROJECT.json` names each at the line where it bites, with the properties
that would catch it, or with the reason why none does yet.

### What makes each part correct

| Part | Correct means |
|---|---|
| Link | MP never enforces a mixture of two configurations nor goes back to an older one; after any disturbance it comes to enforce the active one; NORMAL rests on recent evidence |
| Malfunction engine, safety decision | a closed relay is justified; every outage darkens, nothing else does, and the reason kept is a true one; errors never drop the relay; a relay opened without a latch closes again |
| Control bus | heartbeats and the safety status get through in time although the queue overflows |
| Fault stream | what is acknowledged is logged, once, in order |
| Plan activation | plans are exchanged under red only; the engine runs exactly the plan reported as live; remote manual control holds an activation off (so should a preempt; see section 3); the last commit gets into force; the channels are released |
| Configuration store | after a power loss at any point the old or the new configuration is loaded, entire; a reported commit survives; what runs was verified; the candidate is always released |
| SSM storage | the newest entire record is found after a power loss; the card is right about what it has stored; what CP commands gets stored |
| Channel monitors | a conflict is reported exactly when it lasted its time, a short yellow or clearance when it occurs; lawful signals never are |
| Output authority (planned) | no path, test or user switch lights a channel against MP's verdict; the relay is open while MP says DARK |

## 2. The modules

| Module | Models | Extends or composes |
|---|---|---|
| `CpMpLink` | both link services, the frames between them, edits, losses, restarts | - |
| `LinkFreshness` | history of what MP really did, beside the link | `CpMpLink` |
| `ChannelMonitors` | the resolver and the eight monitors of the signal channels | - |
| `MonitorHistory` | history of what the lamps showed, beside the monitors | `ChannelMonitors` |
| `MalfunctionEngine` | MP's 10 ms task: control bus input, tick with the monitors and the safety decision, link step | - |
| `OutageHistory` | history of what happened on the field bus, beside the engine | `MalfunctionEngine` |
| `ControlBusEgress` | MP's transmit queue and FIFO, CP's age of what it hears | - |
| `FaultLog` | abstract: what a fault log promises | - |
| `FaultEventStream` | trace, event queue, acknowledgements, CP's log, restarts | implements `FaultLog` |
| `PlanActivation` | activation service, controller step, commits and remote manual control of another thread, telemetry | - |
| `ConfigStore` | abstract: an atomic store of one configuration | - |
| `ConfigTransaction` | candidate, database transaction, flash slots, factory reset, power losses | implements `ConfigStore` |
| `SignalCardStorage` | the signal card's journal, its storage task and the two tasks that use it | - |
| `MCMonitorHistory` | the channels, lamps and configurations of the instance TLC checks | `MonitorHistory` |
| `*Proofs` | theorems | the module each is named for; `MalfunctionEngineProofs` also `OutageHistory`, `CpMpLinkProofs` also `LinkFreshness` |

Definitions whose comment begins with "Wrong:" are deliberate mistakes a programmer might make in
the definition that follows them. They are used nowhere in the specifications; substituting one for
its definition must break the property named with it in `PROJECT.json`, which shows that the property
depends on the code being as it is.

### CpMpLink

`cp` and `mp` are the two service structures, `cpTxQueue`, `toMp`, `mpTxQueue`, `toCp` the two stages
a frame passes in each direction: queued in one period, on the wire in the next. `CpStep` is
`CpMpLinkServiceStep` of CP: first `RestartTransfer` (changed generation, or idle without authority),
then `AdvanceTransfer` by one frame, the heartbeat, and the effective safety action. `MpStep` queues
MP's reports. `CpRx*` and `MpRx*` are the cases of the two `OnRxFrame` functions. `EditConfig` is a
commit on CP; `LatchFault` stands for the malfunction engine. Generations stand for the contents they
name and the configuration set id that goes with them, so an image is a function from chunks to
generations and *pure* means that it is constant.

The two processors run at the same rate but not in step: `lead` bounds how many steps one may run
ahead of the other. The bus delivers in order and within the period after next. `ControlBusEgress`
shows that in MP's direction this is too optimistic, so bounds on the age of what CP knows
(`NormalIsFresh`, `EvidenceIsFresh`) have to be read as *plus the delay of MP's transmit queue*. `AppliedImagePure` and
`AppliedNeverRegresses` concern the other direction only, and their proof does not use the timing.

`LinkFreshness` adds two counters that nothing in the program keeps: for how many periods MP has not
been unlatched, and has not enforced the configuration CP runs. CP learns of the two by different
frames, so it may join halves of two reports.

CP's image and its generation are read in one step here. The code reads them one after the other and
SNMP may preempt it; that interleaving is listed as a hazard and belongs to the plan below.

### MalfunctionEngine

One action per call in MP's task: `ControlBusStep`, `MalfunctionEngineTick`, `LinkStep`, in the order
of `pc`, and `Restart` at any point. Which modules were heard, the readings of the supplies, the
samples of MP's own sensors and the faults the channel monitors find are inputs, chosen freely in
every tick. The faults of one tick are a set; `PublishOrder` keeps the order in which the code would
publish them where it decides which one is remembered as the cause. `OutageHistory` records, without
influencing the engine, for how long each module has been silent and what was reported, so that the
properties can relate the engine's counters and latches to what really happened.

### ChannelMonitors and MonitorHistory

`Tick` is the order of `MalfunctionEngineTick` from its line 265 on: `ChannelStateResolver` turns the
commanded and the reported outputs into the colours of channels, the later of two outputs with the same
meaning hiding the other (`Resolve`); then five monitors count the periods for which what they look
for was `Found` (`dwell`), two compare times they keep (`ShortYellows`, `ShortClearances`), and one the
last colour (`IllegalSequences`). What is reported in a period is `emitted`. A new
configuration comes into force between two periods; the monitors keep their counters. CP's image
takes two frames, so mixtures of two images are commanded too; a card that is not heard keeps its last
report. `MonitorHistory` records beside it for how long a pair was lit together, which colours each
channel shows and showed before and for how long (`shown`, `before`, `age`), whether a configuration was
replaced, and whether all signals went through their cycle as a controller should make them (`lawful`).

### ControlBusEgress

A frame is its kind and its age. `AdapterStep` fills the FIFO from the queue; the frame that finds it
full has been taken out already and is put back at the *tail*. `LinkStep` queues four frames, five
while an event waits, of which those that find the queue full are dropped. `Bus` takes what is in
the FIFO, or less in a slow period. On the target the queue holds 16 frames and the FIFO three.

### FaultEventStream and FaultLog

Faults have a place in the history of the intersection (`event`) and a number since MP's last boot
(`sequence`); the code knows only the latter. `OnFault` records one; `MpStep` copies from the trace
to the queue, loads the pending event and sends it; `CpRxEvent` logs an event whose number is not
the one received last and acknowledges it; `MpRxEventAck` goes on to the next. Frames get lost at any
point and may fall behind others, as the adapters reorder them.

`FaultLog` says what this promises: faults are logged at most once and in their order, and are
forgotten only when they are in the log or when more of them wait than the trace holds. The mapping
is `kept <- pending event, queue, and whatever is still to be queued`.

### PlanActivation

A *plan* is the contents of a configuration and its set id. `Commit` is the whole of a commit in the
other thread, with the staging it triggers, and `SetRemoteManualControlTimeout` the whole of a request
for remote manual control; both may occur between any two actions. The step of the
control task is divided where one of them in between makes a difference: after the state is read
(`seen`), after the check for manual control (`force`), after the telemetry is read (`feedback`), in the
middle of copying the plan into the engine
(`load`), before and after publishing the set id (`publish`, `finish`). The engine is one signal
channel which chooses any legal next aspect and times its yellow; that is all that activation
can see of it. When it serves a preempt (`serving`) is its own choice in each tick.

The check of the activation service reads neither `serving` nor the timeout of remote manual control
(`manual`) but the two fields of `runtime` derived from them. `UpdateCoordinationRuntime` derives them,
and runs in three places: at the beginning of each control step, which is part of `Begin`
(`IntersectionController.c:447`, by way of `IntersectionEngineSetMmuFlashControl`), in the engine's tick,
and in SNMP's request. Only the engine's tick may then set the mode to PREEMPT. During the startup flash
`UpdateCoordinationRuntime` returns before it looks at manual control, so the flash hides it. The
backup timer, which hides it too, and the MMU's flash are left out.

`redTicks` counts, from the lamps' point of view, for how long they have been both
commanded and reported red.

The lock-free interleaving does break things at a few moments, and the module names them: `Breaks`
is the disjunction of the moments at which a commit spoils an activation under way (it overwrites the
plan being copied, its STAGED is overwritten by the task's IDLE, or it takes an activation back after
the channels were forced red). The properties hold in every behaviour in which no commit hits one of
those moments, wherever else it falls, and `SwitchedAfterRed` holds regardless.

### ConfigTransaction and ConfigStore

`candidate`, `active` and `db` are the fields of the two services; a configuration is one value, which
is supported, valid only, or neither. `job` is, for each of the two threads, the operation it is in the
middle of. lwIP's thread has the higher priority, so its requests are one action unless they wait for
the flash; those of the control task are cut wherever lwIP can get in between
(`ControlFindsFree`, `ControlTakes`). A commit is six flash operations, `erase`, `header`,
`payload`, `compare`, `mark`, `confirm`, each of them one request to the storage task; the factory
reset is three more. An operation may fail, leaving its slot in any state that `Torn` lists, and
`PowerLoss` may catch the operation under way in the same states. `Boot` is `ConfigurationServiceLoad`.
The constant `Repository` chooses between what the unit tests use, which takes any operation, and the
driver of the target with the addresses and alignments it refuses.

`ConfigStore` knows two variables, the image the next start will load and the image in force. It may
replace the first, whole, by a successor of the second (`Land`), bring the second up to the first
(`Adopt`), or give up what was never confirmed (`Withdraw`). The mapping takes `durable` to what
`Boot` would load. It holds until a factory reset begins to erase (`wiped`) and as long as no two
writers took the candidate at once (`collided`), which the check-then-set in
`ConfigurationService.c:4803-4816` permits; the bound `MaxCollided` limits what is explored after it.

### SignalCardStorage

The parser (`src/SSM/App/Platform/STM32/Tasks/can_msg_parser.c`) takes CP's frames and saves the flash
pattern when it differs from the one it believes stored; the measurement task loads the pattern once, at the start; a storage
task serves the reads, erasures and writes of both. The three have the same priority, so they
interleave between any two requests. The parser's snapshot is taken inside a critical section and
`flashCfgKnown` is read after it, hence `Snapshot` and `CompareWithSaved`. A client that waited for a
second gives up, its request stays queued and is later carried out on what is then on its stack
(`OnStack`), and the answer is taken for that of its next request; after that (`late`) nothing is claimed.
`SelectLatest` compares sequence numbers modulo `SeqMod`, as the code does modulo 2^32.

## 3. The runs

No run uses symmetry or state constraints; what is bounded is bounded in the guards, by the constants
whose names begin with Max.

| Run | Bounds | Shows |
|---|---|---|
| `link` | 2 chunks, 2 generations, heartbeats valid for 1 period, any 2 of edit, loss, restart, latch | `TypeOK`, `AppliedImagePure`, `AppliedNeverRegresses`, `ImageCatchesUp`; `NormalIsFresh` with 5 periods (4 would be violated) |
| `link_authority` | 2 chunks, nothing lost, no restart | `AuthoritySettles` is violated |
| `outages` | one module of each kind, thresholds 1, 1 and 2 (SSM), line voltage and battery, 2 agreeing samples of every other tick, a DARK channel fault | `TypeOK`, `PermitJustified`, `OutageDarkens`, `DarkExplained`, `ReportedOnce`, `ErrorsNeverDrop`, `PermitReturns` |
| `monitors` | 2 channels, 3 lamps, 3 configurations, a conflict's dwell 2, other dwells 1, yellows and ages to 2 | `TypeOK`, `ConflictCaught`, `LawfulIsSilent`, `ConflictJustified`, `TimingCaught` |
| `egress` | the target's depths, one slow bus period | `TypeOK`, `HeartbeatsGetThrough`, `StatusIsRecent` |
| `egress_events` | the target's depths, an undisturbed bus | `EventsDelivered` is violated |
| `stream` | trace of 2, 6 faults, 3 frames in flight, one restart of each side, one overtaking | `TypeOK`, `AckedIsLoggedThisBoot`, `RepeatsNeedRestarts`, `KeepsPromise` |
| `config` | one SNMP session, one panel session and local settings, 3 plans of which one is not supported, generations to 3, any 2 of failed operation, power loss, collision | `TypeOK`, `BootIsUnambiguous`, `InForceIsSupported`, `CandidateIsReleased`, `KeepsStore`, `NeverOlder`, `OperationsEnd` |
| `config_target` | the same sessions, the target's flash driver, no disturbance | `CommitPersists` is violated |
| `activation` | 3 contents, 3 commits, 2 requests for manual control of up to 2 ticks, one telemetry failure, 3 red periods, any number of preempts | `TypeOK`, `EngineMatchesLive`, `IdleReleases`, `SwitchedAfterRed`, `ManualHoldsOffActivation`, `SettlesOnCommitted` |
| `activation_preempt` | the same | `PreemptHoldsOffActivation` is violated |
| `card` | 2 patterns, sequence numbers modulo 4, 3 changes, any 2 of power loss, failed write, expired wait | `SavedIsStored`, `PatternChangesAtOnce`, `CommandIsStored` |

Why these bounds are enough to be interesting:

* *link*: with two chunks an image can be mixed; with two generations it can be mixed from, or go back
  to, another configuration. Two disturbances of different kinds can fall on any frame and any step, also
  one after the other in the same transfer or on the two halves of a report. The safety of three and
  more rests on the theorems, which bound nothing. The ages pass through the expiry of a heartbeat.
* *outages*: the SSM's threshold of two distinguishes "below", "at" and "beyond" the threshold and lets it
  miss a window unpunished, which is what opens a relay that must close again; the others, with one, put
  their reports and latches before and after it. All safety properties of this run are theorems for
  every threshold. Two agreeing samples of every other tick tell a count that is kept between samples from
  one that is not.
* *monitors*: two channels make a pair; of the maps one gives a channel two lamps of one colour, so
  that one hides the other; two configurations conflict with different times and the third does not,
  so that a replacement can begin and end a conflict and shorten a yellow. A dwell of two
  distinguishes a conflict that ends in time, and a counter that goes on after an interruption.
* *egress* uses the sizes of the target. The first overflow occurs in the thirteenth period; the
  state space is closed well beyond it. With a second slow period a gap of more than five periods
  between two heartbeats is possible, so one is the most the claim allows.
* *stream*: six faults overflow a trace of two while one event is pending and the queue is full;
  with three frames in flight an event, its repetition and its successor are under way together.
* *config*: three generations use each slot, and one of them again; three plans tell the old
  from the new and the supported from the unsupported; a second disturbance may hit the repair of the
  first. What follows a collision is bounded to none, as the claims exclude it; both the collision
  and its refusal occur.
* *activation*: three commits are enough for one to be activated while another is staged and a third
  takes it back. A hold time of three distinguishes a count that was interrupted. Manual control of two
  ticks spans a check and may run out before the next; the second request takes it back or prolongs it.
* *card*: the journal may begin with the last sequence number before the wrap, so that the first save
  wraps; three changes write each page, and one of them twice; two faults let a power loss
  follow a failed write. Its type invariant is proved and not run.

Deadlock is checked except in the run of the event stream, which stops when all faults the bound
allows have been recorded and dealt with.

### Fairness

* `CpMpLink`: both tasks run for ever, a frame that is on the wire arrives, and a processor that went
  down comes up again. The tasks are periodic (`osDelayUntil`), CAN repeats frames in hardware, and
  both processors are under a watchdog. Losses and restarts are not fair and bounded.
* `MalfunctionEngine`: MP's task runs for ever; it has the highest priority and calls nothing that
  waits. Stated as: `pc` goes on, which is cheaper to check. `Restart` is not fair and not bounded.
* `ControlBusEgress`: the bus and the task never stop.
* `ConfigTransaction`: the storage task serves or refuses every request, the control task goes on with
  what it began, a controller without power gets it back, and a reset ends. Sessions need not ask
  for anything. Failures and power losses are not fair and bounded.
* `SignalCardStorage`: the parser, the measurement task and the storage task go on. CP repeats its
  flash frame every 50 periods, so a parser that is idle again and again takes one: a frame is
  strongly fair. Failed writes, expired waits and power losses are not fair and bounded.
* `PlanActivation`: the control task runs in every period, and modules report their lamps. Manual control
  ends by the engine's own ticks. Commits, requests for manual control and telemetry failures are not
  fair and bounded.

### Where the program differs from what is said of it

`PROJECT.json` records the first four, each with the quotation and a run that exhibits it.

* **Authority never settles** (`link_authority`). CP returns to IDLE when it queues COMMIT. Its very
  next step finds that the peer does not match yet and begins again, which puts MP back to LOADING.
  The effective action, MP's readiness and so its relay change once per transfer, for ever.
* **Events never leave a busy MP** (`egress_events`). Four frames are made per period and three leave.
  From the thirteenth period on the fault status and the event are always the ones dropped.
* **No commit succeeds on the target** (`config_target`). Slot B ends with the last byte of the flash,
  which `FlashBanksGet` and `FlashSectorGet` refuse (`flash.c:33-117`); and the payload's offset 40
  and the mark's 24 are no multiples of the flash word of 32 bytes that `FlashWrite` demands
  (`flash.c:233-238`). `Validation/Conformance/README.md:16` requires that "verify/commit persists".

* **A preempt does not hold off an activation** (`activation_preempt`). `SafeToStartActivation` requires
  `runtime->mode != INTERSECTION_CONTROL_MODE_PREEMPT` (`IntersectionActivationService.c:125`), but in each
  control step `IntersectionEngineSetMmuFlashControl` (`IntersectionController.c:447`) has
  `UpdateCoordinationRuntime` (`IntersectionEngine.c:9963`) write the mode anew before the service reads it
  (`:472`). PREEMPT is set later, in the engine's tick (`:487`), and nobody sees it there. A commit
  during a served preempt forces all channels red, and the reload makes the engine forget the preempt.

The others were met while modelling; the properties exclude them explicitly or state what the code does.

Plan activation:

* A commit that takes a change back sets the state to IDLE (`IntersectionActivationService.c:225-230`). When the
  activation had already forced red, nobody releases the channels: they stay red until the next
  activation, whereas the only test (`CP/Tests/Unit/Test_IntersectionActivationService.c:470`) ends with them
  released. `Breaks` names the moment and `IdleReleases` excepts it.
* Remote manual control is checked once. A request after the check is accepted and reported, and lost when
  the plan is loaded (`IntersectionEngineLoadConfig` clears the engine) without a word to the operator.
* A commit that changes the plan again during the hold starts over at STAGED with the channels still
  forced red. If manual control is set by then, they stay so until it ends, while the engine runs its
  phases behind them.
* Activation forces red out of whatever the signals show (`:278`). MP takes a yellow
  shorter than its minimum for a critical fault (`MinYellowMonitor.h:3-4`) and latches DARK.

Fault events:

* CP compares numbers only (`CpMpLinkService.c:958`), and MP starts again at 1 after a restart: a new event
  with the number received last is acknowledged and not logged. An overtaken repetition, or a restart of CP
  between log and acknowledgement, logs an event twice.

Channel monitors (each is reachable in `ChannelMonitors`):

* A flashing yellow is commanded lamp by lamp (CP `FieldBusTxAdapter.c:10-11,49`), so MP sees yellows shorter than
  the minimum, although `MinYellowMonitor.h:3-6` speaks of yellow intervals and `SignalSequenceMonitor.c:35-45`
  tolerates flashing. Two conflicting channels that flash yellow are a conflict as well.
* The resolver lets the last output with a meaning win (`ChannelStateResolver.c:41-72`) and nothing
  refuses a map with duplicates, so a lit lamp may be hidden from the monitors.
* A yellow is judged to the period, without tolerance. A channel that goes dark between yellow and red
  never starts a clearance. A conflict's count survives a configuration under which the pair does not
  conflict (`ConflictMonitor.c:95`). A lamp fault's dwell counts only windows in which the card was heard.

Configuration:

* The panel's ROLLBACK after a successful VERIFY commits (`MmiCanAdapter.c:855-867`), contrary to
  `local-admin-protocol-v1-plan.md:56,129`.
* A failing commit of a local setting leaves the candidate taken (`MmiLocalSettingsService.c:525`); only a
  restart releases it (`stranded`). Nor does a session that has vanished ever time out.
* Two writers can take the candidate at once (`ConfigurationService.c:4803-4816`).
* If the mark was written and cannot be read back (`:4981`) the commit is reported as failed and the next
  start loads it. A factory reset that fails half-way may bring an older plan back.
* A commit in the control task holds up that task, and with it the heartbeats of the link.

Output:

* While the configurations do not match, CP applies FLASH even if MP reports DARK (`MmuAdapter.c:3-5`: CP
  "enforces the commanded `NORMAL` / `FLASH` / `DARK` action"; MP's own relay does open).
* A latched DARK does not recover without a restart of MP although
  `Validation/FaultInjection/Runbook.md:19-20,32-33` expects recovery; `OutageDarkens` states what the code does.

Signal card (`src/SSM`):

* `flashCfgKnown` becomes true only by a successful load (`can_msg_parser.c:376`), so a card without a valid
  record never stores a pattern; the comment at `can_msg_parser.c:38-42` says "successfully loaded ... or
  successfully saved one".
* A frame of the active outputs that is handled while the boot loads takes its snapshot before, and reads
  `flashCfgKnown` after the load: the default pattern is stored until CP's next flash frame, which the
  comment at `:117-120` means to exclude. The properties allow it, as what is stored is then what the card
  was told last; `CommandIsStored` shows it repaired.
* After an expired wait a read counts as failed, so that the next save may erase the only valid record
  (`FlashPersistenceAdapter.c:37-47,101-119`; its comment at 19-20: "a new commit never erases the previously valid
  record first"), a late write that lands leaves `lastSaved` wrong, and an answer is taken by the
  caller's next request (`storage.c:112`).

## 4. The theorems

TLC decides the small instances above; the following hold for *every* value of the constants allowed
by the named assumptions (`NumChunksAssumption`, `BoundsAssumption`, `ModulesAssumption`, ...), which
demand no more than that counts are natural numbers, thresholds positive, and module classes
disjoint.

| Theorem | States |
|---|---|
| `CpMpLinkProofs!TypeCorrect` | `Spec => []TypeOK` |
| `CpMpLinkProofs!AppliedIsPure` | `Spec => []AppliedImagePure` |
| `CpMpLinkProofs!NeverRegresses` | `Spec => AppliedNeverRegresses` |
| `CpMpLinkProofs!EvidenceIsFresh` | `FreshSpec => []NormalIsFresh`, if `PeerTimeout + (MaxCrashes + 2) * MaxLead + 1 <= MaxStale` |
| `CpMpLinkProofs!HistoryWatchesLink`, `MalfunctionEngineProofs!HistoryWatchesEngine` | `FreshSpec => Spec`, `HSpec => Spec`: the above and the next hold beside the histories too |
| `MalfunctionEngineProofs!EngineTypes`, `PermitIsJustified` | `Spec => []TypeOK`, `Spec => []PermitJustified` |
| `MalfunctionEngineProofs!ErrorsKeepRelay` | `Spec => ErrorsNeverDrop`, if `ErrorSeverityDropsRelay = FALSE` |
| `MalfunctionEngineProofs!OutagesDarken`, `DarkHasCause`, `OutagesReportedOnce` | `HSpec => []` of `OutageDarkens`, `DarkExplained`, `ReportedOnce` |
| `FaultEventStreamProofs!StreamTypes`, `AcknowledgedEventsAreLogged` | `Spec => []TypeOK`, `Spec => []AckedIsLoggedThisBoot` |
| `FaultEventStreamProofs!EventsRepeatedByRestarts`, `StreamKeepsPromise` | `Spec => []RepeatsNeedRestarts`, `Spec => KeepsPromise` (the refinement of `FaultLog`) |
| `ControlBusEgressProofs!EgressTypes` | `Spec => []TypeOK` |
| `ControlBusEgressProofs!HeartbeatsNeverStarve` | `Spec => [](heartbeatAge < (slow + 1) * (2 * r + 1))`, if `TxDepth <= r * (FifoDepth + 1)` |
| `PlanActivationProofs!SwitchUnderRed` | `Spec => SwitchedAfterRed` |
| `PlanActivationProofs!ActivationTypes`, `IdleReleasesRed` | `Spec => []TypeOK`, `Spec => []IdleReleases` |
| `PlanActivationProofs!EngineRunsActivePlan`, `ManualDelaysActivation` | `Spec => []EngineMatchesLive`, `Spec => ManualHoldsOffActivation` |
| `ConfigTransactionProofs!TypeCorrect`, `BootUnambiguous`, `RunsSupported`, `CandidateReleased` | `Spec => []` of `TypeOK`, `BootIsUnambiguous`, `InForceIsSupported`, `CandidateIsReleased` |
| `ConfigTransactionProofs!StoreKept`, `GenerationsGrow` | `Spec => KeepsStore` (the refinement of `ConfigStore`), `Spec => NeverOlder` |
| `MonitorHistoryProofs!MonitorTypes`, `ConflictsAreCaught`, `LawfulSignalsAreSilent` | `HSpec => []` of `TypeOK`, `ConflictCaught`, `LawfulIsSilent` |
| `MonitorHistoryProofs!ConflictsAreJustified`, `TimingIsCaught` | `HSpec => ConflictJustified`, `HSpec => TimingCaught` |
| `SignalCardStorageProofs!TypeCorrect`, `SavedIsKnown`, `SavingIsAtomic` | `Spec => []TypeOK`, `Spec => []SavedIsStored`, `Spec => PatternChangesAtOnce` |

Each proof goes by an inductive invariant, `IInv` unless another name is given below; none of the
properties is inductive by itself.

* **Link.** "APPLIED is pure" says nothing of what is on its way. The strengthening is a sandwich: the
  generations of frames never decrease along the wire, CP's queue and what CP will send next
  (`FlightOrdered`), and everything MP has loaded lies between the generation of the BEGIN it
  accepted and all of these (`LoadSandwich`). A COMMIT of that same generation therefore finds only
  chunks of that generation, although chunks carry no check of their own; and what is enforced is
  never newer than anything to come (`ActiveBeforeFlight`), whence no regression. Losing a frame
  thins a sequence and preserves its order (`Thins`).
* **Age of what CP knows.** `EvidenceIsFresh` bounds the evidence behind CP's NORMAL by more than the
  timeout, because CP counts a heartbeat's age from its arrival. The invariant `Evidence` gives every
  report a bound on what has happened since it was made, as a function of `lead`: while a report waits,
  CP's periods are what CP gains on MP, and it may gain `2 * MaxLead` in MP's queue and one more period
  on the wire (`Dated`). From its arrival on the bound grows with `cp.age` (`CpDated`), for each half of
  the pair separately: configuration and generation always come from one report, the safety action
  perhaps from another. A restart of MP sets `lead` back and leaves reports on the wire, so it may add
  `MaxLead` (`Delay`). The bound is exact on the instance checked, where 4 instead of 5 is violated; with
  the target's timeout of 5 (`CpMpProtocolShared.h:26`), a lead of 1 and no restart it is 8 periods. An edit
  makes every report of the old generation useless at once, since no report names a generation newer than
  the committed one; this part needs the link's invariant.
* **Malfunction engine.** The relay is a function of three flags (`RelayFollows`), each of which is
  up to date only at certain points of the period (`ReadyTold`, `HealthTold`), and a module at its
  threshold was reported and latched (`OverdueReported`) because the counter passes through equality.
  For `OutagesDarken` the history's silence is tied to the monitor's counter (`SilenceCounted`).
  `HInv` carries all three properties of the history: conversely a module stays reported only at its
  threshold (`MissingOverdue`), so the equality that reports it can hold again only after it was heard
  (`ReportedOnce`); and what a tick publishes is exactly what it found (`EmittedFaults`), so that the reason
  kept with a new latch is one of this tick's DARK codes, and a kept latch keeps its reason
  (`DarkExplained`). `ErrorsKeepRelay` assumes that ERROR drops no relay, which is how the program is built:
  `SafetyDecisionServiceInit` clears the flag (`SafetyDecisionService.c:88`) and only unit tests call
  `SafetyDecisionServiceConfigure`, which sets it. With the flag set the claim is false.
* **Event stream.** Until MP restarts all frames carry their own number, every acknowledgement on its
  way and the number CP remembers are in the log (`InLog`). The proof does not bound losses,
  repetitions or reorderings.
* **Order of the stream.** `OrderInv`: pending event, queue and what is still to be queued follow each
  other in the history, and, as long as nothing is overtaken, so do log and frames (`StreamInOrder`);
  all frames of an event carry one number, and the number CP remembers, if it does, is that of the last
  event logged (`SameNumber`). A repetition thus meets the number it carries, and anything else is newer
  than the log. Both processors may restart: MP's begins a new history, CP's forgets the number, so that the
  last event may be logged once more and no other (`Repeatable`). Each restart of CP pays for one repeated
  entry (`RepeatsCounted`), which gives `RepeatsNeedRestarts`; without a restart of CP every event is
  logged once. What an overtaking does remains open: the code compares numbers for equality only.
* **Refinement of the log.** With `InLog`, and until anything restarts or is overtaken, a frame on its way
  carries the pending event or the last one logged (`Current`). So a frame CP logs is the oldest fault the
  log still owes (`PendingIsOldest`), an acknowledgement that MP acts on is for the event just logged
  (`AcknowledgedIsLast`), and moving faults from trace to queue to pending event changes nothing in what is
  owed. Each step of the stream is a step of `FaultLog` or leaves its variables alone.
* **Egress.** Where the bus empties the FIFO, a frame in MP's queue moves up by `Turn = FifoDepth + 1` places
  a period, of which one is the frame put back; so only a place that is a multiple of `Turn` is ever put
  back (`Due`). A heartbeat that is put back and the heartbeat queued in the same period become neighbours in
  the queue. At most one of two neighbours is at a multiple of `Turn`, so the other arrives within a
  round of the queue, at most `r` periods (`NextDue`): two rounds in all. After a period
  in which the bus took less, the places are other ones, but a heartbeat is queued or finds room, and the
  wait starts anew (`Awaited`).
  The bound is for every size; `MaxAge`, the cap of the ages, is a constant like the others. At the target's
  sizes (16 and 3, `r = 4`) it is 9 periods for an undisturbed bus, and the timeout is 5: that the
  timeout holds there depends on the remainder of 16 by 4 and stays with TLC (`HeartbeatsGetThrough`).
* **Plan activation.** What the control task has read may be outdated in one way only: a commit has
  set IDLE or STAGED since (`SeenIsCurrent`). The service's counter never exceeds the history of red
  lamps (`CountIsHistory`); while the state or the task's position says so, the channels are forced
  red and are red (`RedIsForced`), so that, undisturbed, an idle service has released them
  (`IdleReleases`); and, undisturbed, the engine's contents follow the slots through
  each stage of the switch (`EngineFollows`, `ActivationHasPlan`). For `ManualDelaysActivation`, what the
  check reads agrees with the timeout whenever it is about to read it (`StatusIsCurrent`): the control step
  derives it at its beginning and SNMP with each request. The corresponding claim about preempts is false.
* **Configuration.** A slot fixes the parity of the generations it holds (`Parity`), so the two
  slots never tie, and a commit's generation exceeds what the other slot holds. A
  transaction and a local setting exclude each other (`Exclusive`), what they verified stays so until
  it is in force (`StaysVerified`),
  and at each of its steps the slot not being written is the one in force and entire, while the
  target is not yet loadable or holds exactly the successor (`Kept`, `JobShape`). From these each
  step is a step of `ConfigStore` or leaves both its variables alone, `PowerLoss` included, whatever the
  torn slot contains.
* **Channel monitors.** Each counter is tied to the history: a conflict's to `together`, a
  time to `age`, a remembered colour to `shown` and `before`. `ConflictJustified` then is the
  equality of counter and dwell; `LawfulIsSilent` is inductive together with the fact that, while
  the signals are lawful, no condition any monitor counts holds.
* **Signal card.** As long as no wait expired, a queued request is the one its client waits for
  (`QueueMatches`); hence the records a client selects from are those of the flash (`ReadsHold`),
  the page a write goes to is not the newest (`WriteHolds`), and a save is known to have happened or is
  still being waited for (`SavedHolds`). Lemmas about the journal say that writing the successor makes
  it the newest also across the wrap, and that erasing or tearing the other page changes nothing.

Only model-checked: all liveness (`ImageCatchesUp`, `PermitReturns`, `SettlesOnCommitted`,
`OperationsEnd`, `CommandIsStored`), which needs fairness and ENABLED and is beyond the prover; and
`HeartbeatsGetThrough` and `StatusIsRecent`. How soon a frame that is put back at the tail gets through
depends on the remainder of the queue's length by what leaves it in a period, so these two are claims
about particular sizes, and TLC decides them for the sizes of the target. No theorem rests on recursive
definitions or on induction over data, which the prover cannot treat either; the modules use none.

## 5. What is not modelled

* The contents of configurations, NTCIP objects, MMI requests, pages and messages: data whose
  handling is direct. The properties here only tell contents apart.
* The signal engine's choice of phases. It is the largest part of CP; the interface that activation
  uses is modelled, ring and barrier logic is not.
* Tick counters are not allowed to wrap (497 days); the hazard list names where that would show.
* The relay's two pulses within one tick (`MalfunctionEngine.c:277`), which no other step can observe.
* Frames are well formed; CAN delivers a frame unchanged or not at all.
* What a storage request that its client gave up does to a stack frame that has become another
  function's; the pool of sixteen storage requests, which the bounds do not reach.
* Indications for people (alarms, LEDs, pages), the modem, calendar arithmetic, the tables of the
  SNMP agent: data and presentation that feed nothing back into the modelled parts.
* Device drivers, RTOS, lwIP, mbedTLS, USB and generated start-up code: most of the repository's
  lines. What the models use of them (queue depths, priorities, the checks of `flash.c`) is taken
  from their use here.

## 6. What comes next

1. `OutputAuthority`: MP's verdict, configuration readiness, forced red, output test, user switch
   and epoch combined into the image and the relay of CP. To show: no lamp is lit against a verdict.
2. `FieldFlash`: PSM's pulse, SSM's watchdog and its fallback pattern: all cards flash together or
   not at all.
3. `CpMpLink` extended by the delay of MP's queue and by the two-step reading of image and
   generation (`CpMpLinkService.c:586`).
4. Proofs: a bound on the age of heartbeats and status reports that is exact for given depth and FIFO, as
   `HeartbeatsGetThrough` and `StatusIsRecent` are for the target's; what the log guarantees when frames
   are overtaken.
5. What still can be said of the signal card's journal after a wait expired.
