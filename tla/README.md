# ESPSomfy-RTS in TLA+

ESPSomfy-RTS is the firmware of an ESP32 board with a CC1101 radio that drives
Somfy RTS shades. It learns remotes, estimates where each shade is (RTS motors
never answer), takes orders from a web page, WebSockets, MQTT and physical
remotes, and transmits frames. This directory holds TLA+ modules of its
concurrent and failure-prone parts, TLC configurations that check them on small
instances, and TLAPS proofs of what matters most.

    tlc -config RadioQueue_transmit.cfg RadioQueueMC     # any run of PROJECT.json
    tlapm RadioQueueProofs.tla                        # any module of proofs

`PROJECT.json` lists the runs, for every property checked a mutant of the model
that breaks it, the source lines behind every definition, the disagreements
found between code and comments, the hazards and the theorems. Paths below are
relative to the repository (`src/...` is its `src/` directory).

## 1. The system

### Who runs

| context | what it runs |
|---|---|
| loop task (`SomfyController.ino`) | `SomfyShadeController::loop()`: receives, movement, saving; network, MQTT, sockets, update |
| web and socket handlers | orders, settings, uploads, file transfers, on the server's task |
| WiFi event task (`networkEvent()`) | writes the network's fields at any moment, without a lock |
| radio task (`radioTaskMain()`) | drains the transmit queue; highest priority on its core |
| interrupt (`handleReceive()`) | decodes pulses, fills the receive queue |

`SomfyGuard` (recursive, `SomfyLock.h`) makes handlers and loop take turns;
`SomfyUnlock` gives it up around a handshake. `g_radioLock` guards the CC1101,
`g_jobLock` the job table, the spinlock `rxMux` the receive queue's bookkeeping.
The radio task takes the last three but never SomfyGuard, so a handler may wait
for it while it holds SomfyGuard.

### Components

Each with its state, its operations, what makes it hard, and what makes it
correct. The modules are named in parentheses.

- **Transmit queue and radio task** (`Transceiver.cpp`; RadioQueue). State: job
  table, suspension flag, rxmode, per-remote gap, airtime, event queue.
  Operations: `enqueueJob()`, `queueRaw()`, `suspendTx()`, `apply()`, `radioStep()`. Hard: the table is
  unlocked while the task listens and transmits; stops overtake; gaps; scans,
  saves and flashes interrupt. Correct: a remote's orders are heard in order and
  once, events never precede their frames, the radio is tuned back, every order
  leaves, every handler returns.
- **Receive queue** (`Transceiver.cpp`, `Transceiver.h`; RxQueue). State: three
  slots and an index. Operations: the interrupt's overflow, reserve, copy and
  publish, the loop's `receive()` and `pop()`. Hard: copies outside the spinlock, and
  a slot that is free before it is cleared. Correct: no torn copy, no lost slot, every
  frame captured arrives once and in order but for what a full queue loses.
- **Shade movement** (`SomfyMovement.cpp`, `Somfy.cpp`; Shade, ShadeSystem, partly).
  State: estimates, targets, directions, clocks, positioning flags, the job waited for,
  the last frame. Operations: orders, remote and group frames, `checkMovement()`.
  Hard: time-based estimates anchored on events of another task; remotes between
  two steps of a sequence; 100 and 200 ms gaps. Correct: the estimate is where
  the motor is, a remote has the last word, favourites agree, shades come to rest.
- **Registry** (`SomfyController.cpp`, `SomfyJSON.cpp`, `WebRoutesShades.cpp`;
  Registry). State: slots of shades, groups and rooms, the rolling code of each
  address. Operations: propose, add, save, pair, link, delete, send, restore, upload,
  restart. Hard: ids and slots are reused and packed at a restart; dialogs are
  stale; old files come back. Correct: ids are distinct, members and rooms
  exist, the file is what is in memory, codes only rise.
- **Configuration files** (`ConfigFile.cpp`, `SomfyController.cpp:66-156`;
  ConfigStore, ConfigFormat). Write to `.tmp`, remove, rename; promote an
  orphan; set an unreadable file aside and fall back to the backup. Records of
  ten versions that are read, skipped or sought over. Correct: a reset at any
  step costs no completed save; every value is read from its own place.
- **Boot, rollback, recovery** (`Rollback.cpp`, `Recovery.cpp`, the sketch; Firmware).
  Counters in NVS that survive resets. Correct: a marked firmware that fails is
  left, a proven one never, only deliberate power cycles erase.
- **GitHub update** (`GitOTA.cpp`; Firmware). A status word between loop and
  handlers, the update at boot with its tries. Correct: what was asked for is
  scheduled, an update ends, a check ends.
- **Web server** (`WebAsync.cpp`; WebServer). The upload gate (owner, health,
  flash under way), the transfer slots and their queue. Hard: chunks of several
  requests interleave, clients stall, vanish and take over; requests are
  destroyed while they wait. Correct: one writer, deeds of the whole file only,
  every flash ends and leaves the shades and the radio as they were.
- **Network and MQTT** (`Network.cpp`, `MQTT.cpp`; Network, Mqtt). Attempts,
  events of another task, the fallback access point, scans that roam and return;
  a handshake without the lock. Correct: a device is never out of reach, finds
  its way back, leaves its guests alone, and uses the settings last saved.
- **Pulse decoder, frequency scan's phases, frame codec, sensors, login, sockets, SSDP,
  statistics, JSON, browser pages**: see 6.

### How the modelled parts interact

A handler calls `SomfyRemote::sendCommand()`, which stores the next rolling code
(Registry, ConfigStore), queues a job and processes the frame at once; the shade
then waits for that job (`txWaitJob`). The radio task sends it and posts an
event with the instant its first frame ended; the loop hands events to the
shades (`txAnchor()`), which start their clocks there. Frames of remotes go
interrupt → receive queue → loop → every shade. RadioQueue covers the first path
up to the events, RxQueue the second up to the loop, ShadeSystem both ends: it
takes from RadioQueue that a remote's orders are heard in order, that events do
not precede frames (OrderService, HeardBeforeReported) and that an event may be
lost.

An upload of an image suspends MQTT and the radio (Mqtt's Suspend, RadioQueue's
BeginFlash), locks the file system (ConfigStore's FlashBegin, Firmware's
UploadBegin) and ends in one of several ways; WebServer has all of them and the
requests that may come between, the other four what the flash does to them.
Registry writes a file in one step; ConfigStore shows what the steps of that are
worth, ConfigFormat what is read out of the file. Network contains Mqtt: the
loop runs both, and a link that is lost takes the session with it.

## 2. The modules

| module | models | uses |
|---|---|---|
| OrderService | what the transmit queue promises | |
| RadioQueue | transmit queue, radio task, scans, saves, flashes | OrderService |
| RadioQueueMC, RadioQueueProofs | instances; theorems | RadioQueue |
| FrameBuffer | what the receive queue promises | |
| RxQueue, RxQueueProofs | receive queue; theorems | FrameBuffer |
| Shade | a shade's handlers, frames and pass, as functions | |
| ShadeSystem, ShadeProofs | a shade with its radio, motor, remote and time; theorems | Shade |
| ShadeSystemMC | the shades of the runs | ShadeSystem |
| Registry, RegistryProofs | shades, groups, rooms, rolling codes, files loaded over them; theorems | |
| ConfigStore, ConfigStoreProofs | files under cuts, faults and flashes; theorems | |
| ConfigFormat | the records of files and the reader's cursor | |
| Firmware, FirmwareProofs | rollback, power cycles, update at boot, update status; theorems | |
| WebServer, WebServerProofs | uploads and file transfers; theorems | |
| Mqtt | the MQTT client | |
| Network, NetworkProofs | WiFi, fallback access point, event task, loop; theorems | Mqtt |

### RadioQueue

`jobs` is the table as a function from ids to jobs (the code breaks every tie by
id), `pc`, `cur`, `busy`, `train` are where `radioStep()` is. One action per
stretch of code between two lock operations: RadioCheck (head), RadioPick
(`pickJob()`), RadioListen (`channelBusy()`, no lock), RadioDefer or RadioCommit
(the second look under `g_jobLock`), RadioBegin, RadioFirst, RadioRepeat,
RadioEnd (under the radio lock, the event posted in the middle), RadioComplete.
Handlers are Enqueue, with RetryEnqueue and DropOrder for its wait on a full
table, BeginFrequencyScan, EndFrequencyScan, SaveRadio/ApplyRadio and
BeginFlash/SuspendRadio/FailFlash, whose second halves wait for the radio lock with
SomfyGuard held (`handler` says so). The loop has PopTxEvent and
LoopAbortScan. Tick moves every delay. `quiet` is history for GapRespected only.

OrderService has one variable of waiting orders and the one rule Hear(i): i is
the oldest of its remote. RadioQueue implements it with the orders in the table
that have not been heard.

### RxQueue

The interrupt's tail has three steps: Reserve (critical section: overflow and a
free slot), CopyIn (outside it), Publish (critical section). The loop's are
CheckLength (no lock), Claim (critical section), CopyOut, ClearPulses and
ClearRssi (`clear()` frees the slot before its last write). A slot is free when
its pulse count is zero. Captures are numbered, and what a frame says is its
number. FrameBuffer takes them in that order, each once, and hands them over the
same way; it loses the oldest when it is full and the new one when a full queue
has none but the slot that is being copied. Its Finish is what the code does
besides: each `clear()` may take the RSSI of one frame that has come into
its slot by then.

### Shade and ShadeSystem

A shade is a record with the fields of `SomfyShade` that movement reads or
writes, its frames in the radio queue and the events about them. Each handler is
a function from a shade to a shade: SendCommand, MoveToTarget,
MoveToTiltTarget, SendTiltCommand, SetMyPosition, GroupCommand,
ProcessRemoteFrame, ProcessWaitingFrame, TxHold, TxAnchor, CheckMovement; the
branches on the tilt type are the code's. Positions are travel times in ticks,
so the float division of the code is exact here. A job's id is any that no frame
and no event of the shade has; the code counts up.

ShadeSystem steps: Order and Press (under SomfyGuard, and on the remote),
Transmit (the motor hears the oldest frame of a remote; its event may be lost),
LoopPass (`SomfyShadeController::loop()`: frame or waiting frame, event, hold,
movement) and Tick. The motor is external: it does what the code's arithmetic
assumes of it. `Prompt = TRUE` means that orders are given only when nothing is
on its way and that radio and loop are done within a tick: then the estimate
must be exact. With `Prompt = FALSE` everything interleaves.

### Registry

`shades`, `groups` and `rooms` are the slots; an unused one has the id 255. One
action per handler of `WebRoutesShades.cpp` that changes them, each with the
save it ends in. Propose is a dialog that was given an address; Add and Save
take what a form says (an address, a room, or no room). Read is `loadFile()` and
`restoreFile()`, which share it: what the file has not got is cleared, kept or reset
by what they pass for it. A file, and a group's list after an unlink, is what is used, Packed in its
order: the k-th entry is that of the slot with rank k. `nvs` is the code of each address; `sent`, `stale`,
`unsaved` are history.

### ConfigStore and ConfigFormat

ConfigStore's steps are single operations on files. Boot is BootLoad (which
promotes an orphaned `.tmp`), BootDropBad, BootSetAside, BootFallback; a save is
Open, Write, Remove, Rename, for shades.cfg and for the backup alike, with
OpenFails, OpenFaulty and WriteFaulty. FlashBegin erases, FlashEnd writes the
shades of memory back. PowerCut comes between any two, Spoil makes a file
unreadable. A file's contents are the edit it holds and one rolling code.

ConfigFormat has what a file of each version holds, in order, and what
`restoreFile()` reads, one record a step, with the cursor where the code's
reads, skips and seeks leave it. `got` pairs every value read with the field it
was read for.

### Firmware

`nvs` has the rollback marker and its boots, the counted cycles, the scheduled
update and its tries; `bank` says which image works. setup() is CheckBoot, Rollback,
CountCycle, EndWait, FactoryReset, NetworkReset, Die (the firmware does not
work), Setup; an update at boot is BeginApp to CancelBootUpdate; then the loop
(Minute, Reboot, LoopFetch, DailyCheck, LoopStatus) runs beside the handlers
(AskReleases, Answer, GiveUp, Cancel, Recover, AskReboot) and an upload. PowerCut
and Crash come at any step.

### WebServer

`request` is what each request is for, how far it is and which disconnection
callback it has. Chunk is one call of an upload handler, with `uploadClaim()`,
`uploadOwned()` and `otaFinish()` as in the code; Respond its answer; Disconnect runs
the one callback the request has. AskFile, NextTransfer and LeaveQueue are the transfer
slots. The loop has AbortStalled and Reboot.

### Mqtt and Network

MqttLoop and Handshake are `loop()` and `connect()` before and after the lock is
given up; handlers come between them (`pc = "handshake"`) or between two passes
of the loop. Network::loop() is TakePending, SetConnected, Connect, Scan,
LoopMqtt; NetworkEvent takes the driver's events in order, at any moment,
without a lock. Joins, GetsAddress, LosesLink are the driver, AirChanges what
access points do: work, refuse, give no address, vanish.

## 3. The runs

| run | shows | bounds, and why they are enough |
|---|---|---|
| transmit | each remote's orders are heard once, in order, a gap apart; the picked job stays; whatever scans, saves, flashes do meanwhile: tuned back, receiver back, events not early | 3 orders and 3 disturbances, 4 in all, 2 remotes, 2 slots: a full table with retry and drop, two orders of a remote with a third in the way, any disturbance around a train |
| live | every order leaves, stops even with no airtime left, handlers get their lock back | 1 slot (always full), 2 orders, 1 disturbance; a larger table only shortens the waits |
| rx_handoff | no torn copy, no lost slot, a pop finds what it saw; every capture arrives once and in order but for what a full queue loses | the real 3 slots, 6 frames: the queue overflows twice around a pop, and a slot is filled again before its late write |
| shade_tracks | estimate and favourite are the motor's | 6 kinds of shades, travel of 3, tilt of 2, 3 orders, 2 presses: an order, its correction, a remote's frame and its reversal |
| shade_live | the estimate stands still for its job, a remote has the last word, a recording keeps its place and stores it or none, the shade comes to rest | 2 orders, 1 press, 1 lost event, everything in any order, for a lift that is positioned and records (each during the other) and a tilt motor |
| registry | ids, members, rooms and files stay consistent, codes rise | any 3 changes and 1 send on 2 shades, a group and a room, restarts anywhere: a delete, an add in its place, a file loaded over both |
| store | no completed save is lost, no code repeated, what is dirty is saved, a flash keeps the shades | 2 edits, sends, backups and cuts, 1 fault, 1 spoiled file, 1 flash: a cut in the recovery from a cut |
| format | every value is its field's; what is restored is what was asked for | 10 versions, one on each side of every test of the readers; 2 records of a kind; every choice of options |
| firmware | only power cycles reset, a proven firmware stays and a bad one is left, updates and checks end, a requested update is scheduled | the real 3 boots and 3 tries; 2 and 3 power cycles for the reset of the network and of everything; 3 cuts and requests |
| connect | the device is reachable, finds its way back, stays (unless it roams: then it comes back), leaves its guest alone; sessions follow settings and flashes, and come back | 2 access points, of which one fails once (any of them, in any way), that all work or all refuse at first; hidden and roaming networks (without MQTT); or 2 of: settings saved, a flash, a broker lost, no heap, moving shades; guests and the end of every failure are not bounded |
| uploads | one writer, whole deeds, every flash ends, waiting files are served | 3 requests, 2 of them uploads of 2 chunks, 1 slot and 1 waiting: a takeover, and a third that comes between |
| failed_start | a counterexample: see 5 | the smallest that shows it |

Deadlock is checked where CHECK_DEADLOCK is not FALSE; the others stop when
their bounds are used up. The bounds are in the guards (`MaxOrders`, `MaxPresses`,
`MaxDisturb`, `MaxLost`, `MaxFrames`, `MaxQueued`, `MaxChanges`, `MaxCuts`,
`MaxRequests`, ...); delays are one or two ticks, which orders them as the
code's milliseconds do. RemoteSym is sound: remotes are only compared, and the run
that uses it has no liveness property.

A run's NetworkSafe, SessionSafe, UploadsSafe, RegistrySound, BootSafe, HandoverSafe,
RadioComesBack and EstimatesExact are conjunctions of named invariants, each
stated where it is defined.

Properties are limited where the code cannot be exact. EstimatesExact (Tracks and FavoriteKnown)
speaks of moments when nothing is on its way. Orders that a moving motor answers
in its own way (steps, tilts, long presses) are given at rest in shade_tracks.
Integrated tilts get no position order there, groups no My and tilt-only motors
no recording. Where a property of Registry, Firmware or WebServer would fail for a known
reason (5), its comment names the case and history marks it.

### Fairness

RadioQueue: the radio task runs at the highest priority and needs no lock that a
waiting handler holds: WF. A handler waiting for a slot or for the radio lock
polls or blocks on it alone: WF of its second half. The loop and the end of an
upload compete for SomfyGuard with handlers that may come for ever, but each of
them gives it back and the mutex is fair among waiters of one priority: SF. Time
passes: WF of Tick. The airtime budget is not assumed to recover:
EveryOrderLeaves has that as a premise, StopsIgnoreBudget has not.

ShadeSystem: WF of the radio, the loop and time; nobody has to give an order.
Its WF of LoopPass is written out because TLC evaluates ENABLED of that action slowly.

ConfigStore: the device boots, a save runs on, the loop comes back to what is
dirty, a flash ends (`abortStalledOta()` sees to it). Firmware: the boot, the
loop, downloads and handlers go on (they all have timeouts); nobody has to ask
for anything, and firmware need not live to its minute. WebServer: the loop turns,
time passes, an answer is given and its connection closed; a client that
uploads may stay silent for ever with the connection open. Network: WF of the
tasks and of the driver, SF of time and of the end of a scan, which events may
put off again and again but not for ever.

## 4. The proofs

For all remotes, table sizes, delays and bounds (RadioAssumption: at least one
slot, positive delays, LbtRx the longest of the listening caps) RadioQueueProofs shows:

- TypeCorrect, PickedCorrect, HeardCorrect, from the invariant `IInv`. No one of
  them is inductive alone: that the picked job stays needs to know that handlers
  only add jobs (StepKinds, KeptJobs); that an event is not early needs
  TrainKind (which jobs are on the air); that order holds needs ChosenIsOldest,
  which survives the unlocked listening because new ids are larger.
- GapCorrect: `IInv` contains GapInv, which relates the history `quiet` to
  the code's two ages, the table of remotes and the age of `firstEnd`. It is
  needed because the gap is noted only after the whole train.
- Implementation: every step maps to a step of OrderService or a stutter.
- RadioControl: RadioComesBack, that is TunedBackAfterScan and
  ReceiverComesBack, strengthened by SuspendHolds.

For any number of slots from 2 to 254 (BufferAssumption; 255 marks an empty
index) RxQueueProofs shows TypeCorrect, ExclusiveCorrect, AccountCorrect and
PopCorrect, which HandoverCorrect joins as HandoverSafe, and Implementation. Its
invariant says which slots are queued, being filled and being copied, and that these
are disjoint and hold every used slot. HandoverSafe does not claim that nobody
else writes a slot: the late RSSI write of `clear()` does. Implementation bounds
it, since every step maps to one of FrameBuffer, whose Finish is all that write may
do. That a step keeps what the slots hold is HeldStays; that a frame is only
lost where FrameBuffer loses one is NoneFree, by counting slots.

For any numbers of edits, sends, backups, cuts, failures, spoiled files and
flashes (StoreAssumption: they are natural numbers, and there is at least one
rolling code) ConfigStoreProofs shows:

- TypeCorrect: TypeOK, which is inductive; it includes that the `.tmp` of a save
  that is written holds the shades as they are.
- SaveSurvivesCorrect: SaveSurvives speaks of the next boot only. Its invariant
  also has OnFlash (the promised edit is in shades.cfg, or in its `.tmp` and then
  only between the remove and the rename, or after a cut there), InMemory (what
  will be saved next is no older; a device that finds its file unreadable was
  promised nothing) and EditsMade (a new edit is newer than every promise).
- NeverBehindCorrect: for MaxSends < CodeSpan, from CodesSent: NVS has the number
  of codes sent, and no file, backup or shade has a larger one. Without the
  premise it is false (see 5).

For any numbers of slots, links, rooms, addresses, changes and sends
(RegistryAssumption: at least three slots of a kind, since the two last ids are
never given; ids below 255, which marks an empty slot; as many addresses as the
first shades and their group have) RegistryProofs shows RegistryCorrect,
RestartCorrect and CodesCorrect. Its invariant holds the slots and both files to
one standard: distinct ids, addresses that exist, lists of links without gaps
that name shades that are there, rooms that are there, and in a file nothing but
used entries (SlotsSound, FilesSound, AllHoused). A file saved from sound slots
is sound (ImageSound, from EveryNth: ranks count the used slots one by one), and
slots read from a sound file are sound and are saved again as that file
(Reading, Loaded, SavedAgain). Unlinked, that an empty slot has no links, is
needed because a new group keeps those of its slot. Codes rise because the
largest code counts (Largest, by well-founded induction over finite sets), and
SurvivesRestart compares all but the codes, which a frame changes without a save.

For any numbers of cuts, requests, tries and boots, with fewer cycles for the
reset of the network than for that of everything (FirmwareAssumption)
FirmwareProofs shows TypeCorrect, BootSafeCorrect and ProvenFirmwareCorrect.
What is counted in NVS never exceeds the power-ups in a row (Cycles), and falls
short of it between a power-up and the counting. A firmware about to be
marked, and one that is, is whole, is not the one that runs and has never run for a
minute (Fresh, Marker), so a rollback leaves none that has (Leaving); where the
code does not keep to it, history says that the marker has gone astray.

For any numbers of requests, chunks, transfer slots and waiting places
(WebServerAssumption: a stalled upload is given up no later than it may be taken
over) WebServerProofs shows TypeCorrect, UploadsCorrect and WholeDeedsCorrect.
A request being served is one with the callback that gives its slot back, and the counter
is their number (Callbacks, Counted); a waiting one is in the place it knows
(Places). The owner of the gate is an upload whose callback clears the gate, what
is flashed or stored is exactly what that owner has sent so far, and a success
is about all of it (GateInv): that a second upload, let in when the first stalls,
writes over its file, and that the first comes back and is refused, must
leave no mixture and no deed of a part.

For any access points, brokers, delays and events (NetworkAssumption,
MqttAssumption) NetworkProofs shows NetworkCorrect and SessionCorrect. That the
driver has no more than four events on their way needs EventInv: at most one lost
link, one address and one start of the soft AP, a lost link's only while the
link is not joined, and with its stops the loop's own occasions for
another counted (Due, Ups). SessionInv says what handlers may change
during a handshake, when the client is used without the lock: the TLS client stays,
and settings saved meanwhile leave a reconnection pending.

For any travel, delays, repeats, bounds and set of shades (ShadeAssumption,
SystemAssumption), with Prompt or without, ShadeProofs shows SystemIsSound,
TypesCorrect, StaysHeld and, each for the shades its premise names,
RemoteHasTheLastWordCorrect, RecordsAsOrderedCorrect and
LiftEstimatesExact. The lemmas say of every handler, frame and stage of the pass which fields it may change
(Only) and what it sends; SystemSound joins them:

- StaysHeld needs Still (a shade that waits for its command starts from where it
  is: an order of the same pass may have moved its start) and OneFrameEach (an
  event of another job is never taken for its own), which rests on FreshJob.
- RemoteHasTheLastWordCorrect needs Ended: once the last frame is a remote's,
  nothing of a positioning, recording or gap is left (Calm). LeavesTheWord is its
  premise: a simulated My of the remote makes the device send, and an
  integrated tilt ordered while the lift moves is sent when the lift arrives, whatever the
  remote did between.
- RecordsAsOrderedCorrect needs two things of a shade that records: it is Busy, so that
  a My is never taken for the start of a second recording, and Ended, so that a
  remote's frame that waits cannot aim it elsewhere. The lemmas of the frames and of the
  pass say that nothing else moves a target. The orders of a place (PositionOrdered) are
  left out of the property, against the code's comment (see 5), not of the shades:
  RecordsUntilted, its premise, only excludes tilt-target orders for a shade that records,
  which may take its way away without sending anything and leave it not Busy.

The shades of shade_live satisfy the premises of the properties it checks.

LiftEstimatesExact is EstimatesExact for every lift that does not tilt: whenever nothing is
on its way, moving or not, it is where the device says, and at rest a My would take it to the
favourite the device knows. Its premises are those of shade_tracks for its lifts:
Prompt, no lost event (MaxLost = 0), and LiftsAlone: no tilt orders, no group's My
(after it the shade never thinks itself idle, see 5) and no recording where the device
simulates the favourite. Travel, delays, repeats and the numbers of orders and
presses are any. EstimatesExact is far from inductive, for a motor hears a frame when it is
on the air, the device when its queue is read, and the favourite's repeats are
counted later still. LiftExact says how the two are related in between, next to SystemSound:

- Driving: no remote's frame is unread. The frame of the shade's own order, if any,
  waits or has just gone out (OnItsWay), and where it sends the motor (GoalToBe,
  MyToBe) is what the shade believes: both rest at the target, or the motor has gone from
  where the shade started for as long as the shade counts (Travels).
- Hearing: the motor has heard a press of which the loop has read nothing; the shade is
  what it was to the motor before, which Hearing has by an \E.
- Repeating: the loop has taken the press's first frame; the others ask for nothing more.
- Waiting: a My at rest counts its repeats, while the motor goes to its favourite
  or has stored where it stands; the shade starts to count its travel with what has passed.

Each order, frame, pass and tick leads from one of the four to one of the four
(OrderedCarries, HearsLift, PassLift, LiftTicks). The pass is the longest part: DrivesOn shows
that a lift travels on as its motor does, comes to its target in the same tick, and
stops a motor that would not stop by itself (settingPos) where it is.

Only model-checked: EstimatesExact of the shades that tilt (in an integrated tilt each
frame moves two axes that share one motor, in an order that depends on where the tilt is:
the four phases would have to say where both will be), ConfigFormat (its files are
concatenations of any number of records: where one begins is an induction over
data), and all liveness (also of the modules above: the
prover has no rules for fairness and ENABLED).

## 5. Where code and comments disagree

With a run that TLC finds violated:

- **failed_start**: `beginUpdate()` makes the new firmware the boot partition when its download
  ends and marks it only after the file system has been downloaded too
  (`GitOTA.cpp:611`): a crash or a cut in between boots it unmarked, and if it
  does not start, nothing rolls it back (`README.md:20`: "a firmware that fails
  to start rolls back on its own").

Seen while modelling, without a run of their own (some are exceptions that a property names):

- Radio: a scan or a flash that begins after `radioStep()` has read rxmode and
  the suspension flag is overtaken by the transmission (`Transceiver.cpp:1427`,
  `1428`, comments at 735 and 1149); a superseded order sends its repeats (1477,
  comment at 1305); a stop waits for an older order of its remote while others
  go (1256); `clear()` frees a receive slot before it writes the RSSI (`Transceiver.h:65`),
  so that a frame that comes into it may lose its sample, against the comments at
  172 ("writes pulseCount = 0 last") and 383 ("no concurrent writer exists").
- Shades: a group's My never moves the estimate (`Somfy.cpp:1008`, 1052); the
  tilt command held back for the gap is dropped when the arrival clears its flag
  (`SomfyMovement.cpp:124`, 284); orders of a position or of a tilt do not end a recording (807, 768, 782), which then
  stores their place, against the comment at 669 ("An external command supersedes a
  positioning or a My recording in progress"); a tilt-only favourite cannot be cleared (492, comment at 557); the gap
  before a long press runs from when the stop is queued (105).
- Files: the boot reads the file of a newer firmware, which a restore refuses
  (`ConfigFile.cpp:1052`, 627); `save()` and the delete handlers commit without marking, so a commit
  that fails is not retried (`SomfyController.cpp:111`); a first save that is
  cut leaves a partial `.tmp` that the next boot promotes, sets aside over an
  older `.bad`, and falls back from; a reset between setting aside and the
  fallback's commit starts clean; after the 16 bits of a code have wrapped, the
  larger of file and NVS is the older one (NeverBehind fails with CodeSpan 3).
- Registry: sort orders (`WebRoutesShades.cpp:817`) and repeaters
  (`SomfyController.cpp:373`) are neither saved nor marked; two open dialogs are
  proposed the same remote address; a restore keeps the rooms beyond the file's;
  `/setRollingCode` to a lower value is undone at the next boot; `clear()` of a
  shade keeps its room.
- Firmware: a failed recovery leaves the status COMPLETE, so that it cannot be
  asked for again (`GitOTA.cpp:644`); a marked upload that is overwritten before it has
  booted counts against the firmware that runs; a cut between marking and
  `cancelBootUpdate()` downloads again, over the bank to go back to
  (`Rollback.cpp:28`); cancelling a scheduled update has no effect; after
  CANCELLED or COMPLETE the daily check never runs again; a request for the releases
  overwrites an update that awaits its turn.
- Web: after a successful flash, a client gone or silent before its answer leaves radio
  and MQTT off and the device running (`WebAsync.cpp:481`); a recovery asked
  for during a file system upload unlocks it (`WebRoutesSystem.cpp:360`); an armed
  reboot does not wait for a flash (`SomfyController.ino:91`); a missing file
  that had to wait ends the chain of waiting transfers (`WebAsync.cpp:329`), and its callback can
  clear a slot that is another's by then (369).
- Network: a link lost between its address and `setConnected()` leaves a stale
  connType, and a device with a hidden network does not try again
  (`Network.cpp:94`, 515); a soft AP that was in use when the link came back is closed by nothing
  afterwards; the late drop after `changeAP()` does not restart the fallback timer;
  that all shades are idle is checked before the handshake, not during it (`MQTT.cpp:181`).

## 6. What is not modelled, and what is left

- Pulse decoder: pulse lengths, tolerances, a sequential filter. Its array
  bounds would be worth a model of their own, composed before RxQueue.
- Frequency scan's phases: choose a frequency from measured levels; the model
  has what they do to the radio.
- Sun and wind beside orders (`SomfyMovement.cpp:147-194`): timers of minutes
  beside movements of seconds multiply the states of ShadeSystem; a module with
  the motor abstracted to "at target" would do. Lift time and winding curve,
  toggles and dry contacts, flipped commands, held group commands.
- Frame codec, version parser, winding curve: pure arithmetic, checked by tests.
- Login throttle and sessions (`WebAuth.cpp`): sequential behind one task.
- WebSocket rooms, SSDP, statistics, JSON, publishing, browser pages: copies of
  state for others to read; nothing depends on them.
- Ethernet: the same state machine with other events.
- Files of sibling forks, which a restore knows by the size of their shade record
  (`ConfigFile.cpp:632`), and codes given with `/sendRemoteCommand`.

What the runs do not reach: in `live` the table has one slot, so StopsIgnoreBudget never
meets an older order of its remote (ImplementsOrderService does, with two); a
loop that is late by more than a tick moves no estimate while it waits (HeldStill), but
EstimatesExact is checked with a prompt one only; the ids of rooms after a restore over
rooms that were kept are no part of IdsDistinct; with one waiting place the order of
several waiting transfers is not exercised.

Next, in order: EstimatesExact of the shades that tilt, in ShadeProofs; ShadeSensors; RxDecoder.
