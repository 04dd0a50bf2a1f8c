------------------------------ MODULE Firmware ------------------------------
(***************************************************************************)
(* How the firmware gets onto the device, boots, is validated or rolled    *)
(* back: OTARollback, handlePowerCycleReset(), setup() and loop() of the   *)
(* sketch, GitUpdater's requests, its update at boot, and the upload of a  *)
(* firmware image, with power cuts anywhere and crashes.                   *)
(*                                                                         *)
(* Writes to NVS are steps where something may come between them.  The     *)
(* file system image is in ConfigStore; here it only succeeds or fails.    *)
(***************************************************************************)
EXTENDS Naturals

CONSTANTS
  MaxBoots,     \* ROLLBACK_MAX_BOOTS
  Tries,        \* BOOT_UPDATE_TRIES
  NetCycles, FullCycles,   \* NET_RECOVERY_CYCLES, FULL_FACTORY_CYCLES
  MaxCuts,      \* bound: power cuts
  MaxRequests   \* bound: what is asked of the web server

ASSUME FirmwareAssumption ==
  /\ MaxBoots \in Nat \ {0} /\ Tries \in Nat \ {0}
  /\ NetCycles \in Nat \ {0} /\ FullCycles \in Nat /\ NetCycles < FullCycles
  /\ MaxCuts \in Nat /\ MaxRequests \in Nat

VARIABLES
  nvs,        \* fw_rb (pending, boots), rst_logic (cycles), fw_boot (ver, tries)
  bank,       \* the images of the two OTA partitions
  bootBank, running,
  pc,         \* how far the boot, the loop or the boot update is
  why,        \* the reset reason
  armed,      \* rebootDelay.reboot
  status,     \* GitUpdater::status
  fetch,      \* fetchRequested, fetchDone, and what the loop is busy with
  ask,        \* the handler waiting for the releases
  upload,     \* the upload of an image
  cuts, requests,   \* counters of the bounds
  streak,     \* history: power-ups since the device got past the wait of its boot
  history     \* history: proven banks, a marker gone astray, what was asked last

web == <<status, fetch, ask, upload>>
device == <<nvs, bank, bootBank, running, pc, why, armed>>
bounds == <<cuts, requests>>
vars == <<device, web, bounds, streak, history>>

Banks == {1, 2}
Other(b) == 3 - b
Images == {"empty", "good", "bad"}
Clean == [pending |-> FALSE, boots |-> 0, cycles |-> 0, ver |-> FALSE, tries |-> 0]
NoFetch == [requested |-> FALSE, done |-> FALSE, busy |-> "no"]
Updating == {"update", "app", "fs", "mark", "marking", "marked", "tried"}

Init ==
  /\ nvs = Clean /\ bank = <<"good", "empty">> /\ bootBank = 1 /\ running = 1
  /\ pc = "off" /\ why = "power" /\ armed = FALSE
  /\ status = "ready" /\ fetch = NoFetch /\ ask = "none" /\ upload = "none"
  /\ cuts = 0 /\ requests = 0
  /\ streak = 1 /\ history = [proven |-> {1}, astray |-> FALSE, last |-> "none"]

Waiting == {"off", "rollback", "cycle", "wait"}

\* What a reset leaves.
Reset(reason) ==
  /\ pc' = "off" /\ why' = reason /\ armed' = FALSE
  /\ status' = "ready" /\ fetch' = NoFetch /\ ask' = "none" /\ upload' = "none"
  /\ streak' = (IF pc \in Waiting THEN streak ELSE 0) + (IF reason = "power" THEN 1 ELSE 0)
Remember(field, value) == history' = [history EXCEPT ![field] = value]

-----------------------------------------------------------------------------
(* setup(): the rollback, the power cycles, the update at boot.            *)

\* Bug: the count of boots is not stored.
CheckBootForgetting ==
  /\ pc = "off"
  /\ running' = IF bank[bootBank] = "empty" THEN Other(bootBank) ELSE bootBank
  /\ IF nvs.pending /\ nvs.boots + 1 > MaxBoots
     THEN nvs' = [nvs EXCEPT !.pending = FALSE, !.boots = 0] /\ pc' = "rollback"
     ELSE UNCHANGED nvs /\ pc' = "cycle"
  /\ UNCHANGED <<bank, bootBank, why, armed, web, bounds, streak, history>>

\* OTARollback::checkBoot(); the boot loader skips an image that is not whole.
CheckBoot ==
  /\ pc = "off"
  /\ running' = IF bank[bootBank] = "empty" THEN Other(bootBank) ELSE bootBank
  /\ IF nvs.pending /\ nvs.boots + 1 > MaxBoots
     THEN nvs' = [nvs EXCEPT !.pending = FALSE, !.boots = 0] /\ pc' = "rollback"
     ELSE nvs' = [nvs EXCEPT !.boots = IF nvs.pending THEN @ + 1 ELSE @] /\ pc' = "cycle"
  /\ UNCHANGED <<bank, bootBank, why, armed, web, bounds, streak, history>>

\* ... and the way back; a bank without an image is refused.
Rollback ==
  /\ pc = "rollback"
  /\ IF bank[Other(running)] # "empty"
     THEN bootBank' = Other(running) /\ Reset("software")
     ELSE pc' = "cycle" /\ UNCHANGED <<bootBank, why, armed, web, streak>>
  /\ UNCHANGED <<nvs, bank, running, bounds, history>>

\* Bug: any reset counts.
CountEveryReset ==
  /\ pc = "cycle"
  /\ nvs' = [nvs EXCEPT !.cycles = @ + 1] /\ pc' = "wait"
  /\ UNCHANGED <<bank, bootBank, running, why, armed, web, bounds, streak, history>>

\* handlePowerCycleReset(): only power-ups count, anything else starts afresh.
CountCycle ==
  /\ pc = "cycle"
  /\ IF why = "power"
     THEN nvs' = [nvs EXCEPT !.cycles = @ + 1] /\ pc' = "wait"
     ELSE nvs' = [nvs EXCEPT !.cycles = 0] /\ pc' = "setup"
  /\ UNCHANGED <<bank, bootBank, running, why, armed, web, bounds, streak, history>>

\* ... and the count ends with the wait.
EndWait ==
  /\ pc = "wait"
  /\ nvs' = [nvs EXCEPT !.cycles = 0]
  /\ pc' = CASE nvs.cycles >= FullCycles -> "factory"
             [] nvs.cycles = NetCycles -> "network"
             [] OTHER -> "setup"
  /\ UNCHANGED <<bank, bootBank, running, why, armed, web, bounds, streak, history>>

\* performFactoryReset() erases NVS, the markers with it.
FactoryReset ==
  /\ pc = "factory"
  /\ nvs' = Clean /\ Reset("software")
  /\ Remember("astray", history.astray \/ nvs.pending)
  /\ UNCHANGED <<bank, bootBank, running, bounds>>

NetworkReset ==
  /\ pc = "network" /\ Reset("software")
  /\ UNCHANGED <<nvs, bank, bootBank, running, bounds, history>>

\* A firmware that does not work dies before it serves anything.
Die ==
  /\ pc \in {"wait", "setup"} /\ bank[running] = "bad" /\ Reset("crash")
  /\ UNCHANGED <<nvs, bank, bootBank, running, bounds, history>>

\* Bug: a try is counted when it has failed.
SetupUncounted ==
  /\ pc = "setup" /\ bank[running] = "good"
  /\ IF nvs.ver /\ nvs.tries < Tries
     THEN pc' = "update" /\ UNCHANGED nvs
     ELSE pc' = "run" /\ nvs' = [nvs EXCEPT !.ver = FALSE, !.tries = 0]
  /\ UNCHANGED <<bank, bootBank, running, why, armed, web, bounds, streak, history>>

\* bootUpdatePending(): the try is counted before it is made.
Setup ==
  /\ pc = "setup" /\ bank[running] = "good"
  /\ IF nvs.ver /\ nvs.tries < Tries
     THEN nvs' = [nvs EXCEPT !.tries = @ + 1] /\ pc' = "update"
     ELSE nvs' = [nvs EXCEPT !.ver = FALSE, !.tries = 0] /\ pc' = "run"
  /\ UNCHANGED <<bank, bootBank, running, why, armed, web, bounds, streak, history>>

\* shades.cfg cannot be read: no update.
SetupUnreadable ==
  /\ pc = "setup" /\ bank[running] = "good" /\ nvs.ver /\ nvs.tries < Tries
  /\ nvs' = [nvs EXCEPT !.ver = FALSE, !.tries = 0] /\ Reset("software")
  /\ UNCHANGED <<bank, bootBank, running, bounds, history>>

-----------------------------------------------------------------------------
(* loop(): validation and reboots.                                         *)

\* Bug: the marker stays.
ValidKeepsMarker(n) == [n EXCEPT !.boots = 0]

\* OTARollback::markValid()
Valid(n) == IF n.pending /\ n.boots > 0 THEN [n EXCEPT !.pending = FALSE, !.boots = 0] ELSE n

\* A minute of loop (it does not turn during a download).
Minute ==
  /\ pc \in {"run", "update"} /\ (nvs # Valid(nvs) \/ running \notin history.proven)
  /\ nvs' = Valid(nvs)
  /\ history' = [history EXCEPT !.proven = @ \union {running}, !.astray = @ \/ upload = "marking"]
  /\ UNCHANGED <<bank, bootBank, running, pc, why, armed, web, bounds, streak>>

\* The armed reboot, which takes what runs for valid (not while a chunk of an
\* upload holds the lock, nor while the loop is busy).
Reboot ==
  /\ pc \in {"run", "update", "tried"} /\ armed /\ upload \notin {"mark", "marking"}
  /\ fetch.busy = "no"
  /\ nvs' = Valid(nvs) /\ Reset("software")
  /\ UNCHANGED <<bank, bootBank, running, bounds, history>>

-----------------------------------------------------------------------------
(* The update at boot: runBootUpdate(), beginUpdate(), downloadFile().     *)

\* No network or no clock for 90 s.
NoNetwork ==
  /\ pc = "update" /\ ~armed /\ armed' = TRUE
  /\ UNCHANGED <<nvs, bank, bootBank, running, pc, why, web, bounds, streak, history>>

\* The marker of a firmware that is overwritten before it has booted stays.
Overwrite ==
  /\ bank' = [bank EXCEPT ![Other(running)] = "empty"]
  /\ Remember("astray", history.astray \/ (nvs.pending /\ bootBank # running))

BeginApp ==
  /\ pc = "update" /\ pc' = "app" /\ Overwrite
  /\ UNCHANGED <<nvs, bootBank, running, why, armed, web, bounds, streak>>

\* The last byte is there: the new firmware boots next, and may work or not.
NewImage ==
  /\ \E i \in {"good", "bad"} : bank' = [bank EXCEPT ![Other(running)] = i]
  /\ bootBank' = Other(running)
  /\ Remember("proven", history.proven \ {Other(running)})

AppDownloaded ==
  /\ pc = "app" /\ pc' = "fs" /\ NewImage
  /\ UNCHANGED <<nvs, running, why, armed, web, bounds, streak>>

\* A failed download stays on the running firmware.
AppFails ==
  /\ pc = "app" /\ pc' = "tried" /\ armed' = TRUE
  /\ UNCHANGED <<nvs, bank, bootBank, running, why, web, bounds, streak, history>>

FsFails ==
  /\ pc = "fs" /\ bootBank' = running /\ pc' = "tried" /\ armed' = TRUE
  /\ UNCHANGED <<nvs, bank, running, why, web, bounds, streak, history>>

FsDownloaded ==
  /\ pc = "fs" /\ pc' = "mark"
  /\ UNCHANGED <<nvs, bank, bootBank, running, why, armed, web, bounds, streak, history>>

\* markPending() sets one key after the other.
MarkPending ==
  \/ /\ pc = "mark" /\ pc' = "marking"
     /\ nvs' = [nvs EXCEPT !.pending = TRUE] /\ UNCHANGED armed
  \/ /\ pc = "marking" /\ pc' = "marked"
     /\ nvs' = [nvs EXCEPT !.boots = 0] /\ armed' = TRUE
MarkUpdated ==
  /\ MarkPending
  /\ UNCHANGED <<bank, bootBank, running, why, web, bounds, streak, history>>

CancelBootUpdate ==
  /\ pc = "marked" /\ pc' = "tried"
  /\ nvs' = [nvs EXCEPT !.ver = FALSE, !.tries = 0]
  /\ UNCHANGED <<bank, bootBank, running, why, armed, web, bounds, streak, history>>

Crash ==
  /\ pc \in Updating /\ Reset("crash")
  /\ UNCHANGED <<nvs, bank, bootBank, running, bounds, history>>

-----------------------------------------------------------------------------
(* An uploaded image: asyncOtaUpload() and asyncOtaRespond().  The handlers *)
(* are not in the loop: it turns, and a reboot may come between two chunks. *)

Asked == pc = "run" /\ requests < MaxRequests /\ requests' = requests + 1

UploadBegin ==
  /\ Asked /\ upload = "none" /\ status # "updating"
  /\ Overwrite /\ upload' = "writing"
  /\ UNCHANGED <<nvs, bootBank, running, pc, why, armed, status, fetch, ask, cuts, streak>>

UploadFails ==
  /\ pc = "run" /\ upload = "writing" /\ upload' = "none"
  /\ UNCHANGED <<device, status, fetch, ask, bounds, streak, history>>

UploadEnd ==
  /\ pc = "run" /\ upload = "writing" /\ NewImage
  /\ upload' = "mark"
  /\ UNCHANGED <<nvs, running, pc, why, armed, status, fetch, ask, bounds, streak>>

\* The client gets its answer, or is gone.
MarkUploaded ==
  /\ pc = "run"
  /\ \/ /\ upload = "mark" /\ upload' = "marking"
        /\ nvs' = [nvs EXCEPT !.pending = TRUE] /\ UNCHANGED armed
     \/ /\ upload = "marking" /\ upload' = "none"
        /\ nvs' = [nvs EXCEPT !.boots = 0] /\ armed' \in {armed, TRUE}
  /\ UNCHANGED <<bank, bootBank, running, pc, why, status, fetch, ask, bounds, streak, history>>

-----------------------------------------------------------------------------
(* The releases, asked for by handlers, fetched by the loop; one handler at *)
(* a time.                                                                  *)

InWeb == pc = "run" /\ ask = "none" /\ upload \notin {"mark", "marking"}

\* /getReleases and /downloadFirmware: fetchReleases() refuses a second request.
AskReleases ==
  /\ InWeb /\ Asked
  /\ \E what \in {"list", "update"} :
       IF fetch.requested
       THEN status' = "ready" /\ UNCHANGED <<fetch, ask>>
       ELSE /\ status' = "check" /\ ask' = what
            /\ fetch' = [fetch EXCEPT !.requested = TRUE, !.done = FALSE]
  /\ Remember("last", "other")
  /\ UNCHANGED <<device, upload, cuts, streak>>

\* Bug: the handler leaves what it found.
AnsweredAsBefore(what) == "check"

\* The update goes to the loop, anything else gives the status back.
Answered(what) == IF what = "update" THEN "awaiting" ELSE "ready"

Answer ==
  /\ ask # "none" /\ fetch.done
  /\ status' \in {Answered(ask), "ready"}
  /\ Remember("last", IF status' = "awaiting" THEN "update" ELSE "other")
  /\ ask' = "none"
  /\ UNCHANGED <<device, fetch, upload, bounds, streak>>

GiveUp ==
  /\ ask # "none" /\ ~fetch.done
  /\ status' = "ready" /\ ask' = "none"
  /\ UNCHANGED <<device, fetch, upload, bounds, streak, history>>

Cancel ==
  /\ InWeb /\ Asked
  /\ status' = "cancelling" /\ Remember("last", "other")
  /\ UNCHANGED <<device, fetch, ask, upload, cuts, streak>>

\* A recovery of the file system holds the handler's task until it is over.
Recover ==
  /\ InWeb /\ status = "ready" /\ Asked
  /\ status' = "complete" /\ armed' \in {armed, TRUE}
  /\ Remember("last", "other")
  /\ UNCHANGED <<nvs, bank, bootBank, running, pc, why, fetch, ask, upload, cuts, streak>>

\* /reboot
AskReboot ==
  /\ InWeb /\ Asked /\ armed' = TRUE
  /\ UNCHANGED <<nvs, bank, bootBank, running, pc, why, web, cuts, streak, history>>

\* GitUpdater::loop(): the fetch and its two flags, one after the other; an armed
\* reboot keeps it from starting, not from ending ...
LoopFetch ==
  /\ pc = "run" /\ (armed => fetch.busy # "no")
  /\ fetch' \in
       CASE fetch.busy = "no" /\ fetch.requested -> {[fetch EXCEPT !.busy = "fetch"]}
         [] fetch.busy = "fetch" -> {[fetch EXCEPT !.busy = "fetched", !.requested = FALSE]}
         [] fetch.busy = "fetched" -> {[fetch EXCEPT !.busy = "no", !.done = TRUE]}
         [] OTHER -> {}
  /\ UNCHANGED <<device, status, ask, upload, bounds, streak, history>>

\* Bug: the daily check starts while a request is being answered.
DailyCheckAnyTime ==
  /\ pc = "run"
  /\ \/ /\ fetch.busy = "no" /\ ~fetch.requested /\ status = "ready" /\ ~armed
        /\ fetch' = [fetch EXCEPT !.busy = "check"] /\ status' = "check"
     \/ /\ fetch.busy = "check"
        /\ fetch' = [fetch EXCEPT !.busy = "no"] /\ status' = "ready"
  /\ UNCHANGED <<device, ask, upload, bounds, streak, history>>

\* ... the daily check, not within 15 s of a request ...
DailyCheck ==
  /\ pc = "run"
  /\ \/ /\ fetch.busy = "no" /\ ~fetch.requested /\ status = "ready" /\ ~armed /\ ask = "none"
        /\ fetch' = [fetch EXCEPT !.busy = "check"] /\ status' = "check"
     \/ /\ fetch.busy = "check"
        /\ fetch' = [fetch EXCEPT !.busy = "no"] /\ status' = "ready"
  /\ UNCHANGED <<device, ask, upload, bounds, streak, history>>

\* ... an update scheduled for the next boot, a cancellation.
LoopStatus ==
  /\ pc = "run" /\ fetch.busy = "no" /\ ~fetch.requested /\ ~armed
  /\ \/ /\ status = "awaiting" /\ status' = "updating" /\ armed' = TRUE
        /\ nvs' = [nvs EXCEPT !.ver = TRUE, !.tries = 0]
     \/ status = "cancelling" /\ status' = "cancelled" /\ UNCHANGED <<nvs, armed>>
  /\ UNCHANGED <<bank, bootBank, running, pc, why, fetch, ask, upload, bounds, streak, history>>

-----------------------------------------------------------------------------
PowerCut ==
  /\ pc # "off" /\ cuts < MaxCuts /\ cuts' = cuts + 1
  /\ Reset("power")
  /\ Remember("astray", history.astray \/ pc = "rollback")
  /\ UNCHANGED <<nvs, bank, bootBank, running, requests>>

Booting == CheckBoot \/ Rollback \/ CountCycle \/ EndWait \/ FactoryReset \/ NetworkReset \/ Die \/ Setup
AtBoot ==
  BeginApp \/ NoNetwork \/ AppDownloaded \/ AppFails \/ FsDownloaded \/ FsFails \/ MarkUpdated \/ CancelBootUpdate
Loop == Reboot \/ Minute \/ LoopFetch \/ LoopStatus
Handler == Answer \/ GiveUp \/ MarkUploaded
Next ==
  \/ Booting \/ SetupUnreadable \/ Crash \/ PowerCut \/ AtBoot \/ Loop \/ DailyCheck \/ Handler
  \/ UploadBegin \/ UploadFails \/ UploadEnd \/ AskReleases \/ Cancel \/ Recover \/ AskReboot

Spec == Init /\ [][Next]_vars

\* The boot goes on, the loop turns, a download or a handler comes to an end.
FairSpec ==
  /\ Spec
  /\ WF_vars(Booting) /\ WF_vars(AtBoot) /\ WF_vars(Reboot) /\ WF_vars(LoopFetch)
  /\ WF_vars(LoopStatus) /\ WF_vars(DailyCheck /\ fetch.busy = "check") /\ WF_vars(Handler)

-----------------------------------------------------------------------------
(* Properties.                                                             *)

TypeOK ==
  /\ nvs \in [pending : BOOLEAN, boots : 0 .. MaxBoots, cycles : 0 .. MaxCuts + 1,
              ver : BOOLEAN, tries : 0 .. Tries]
  /\ bank \in [Banks -> Images] /\ bootBank \in Banks /\ running \in Banks
  /\ pc \in Updating \union {"off", "rollback", "cycle", "wait", "factory", "network", "setup", "run"}
  /\ why \in {"power", "crash", "software"} /\ armed \in BOOLEAN
  /\ status \in {"ready", "check", "awaiting", "updating", "complete", "cancelling", "cancelled"}
  /\ fetch \in [requested : BOOLEAN, done : BOOLEAN, busy : {"no", "fetch", "fetched", "check"}]
  /\ ask \in {"none", "list", "update"} /\ upload \in {"none", "writing", "mark", "marking"}
  /\ cuts \in 0 .. MaxCuts /\ requests \in 0 .. MaxRequests /\ streak \in 0 .. MaxCuts + 1
  /\ history \in [proven : SUBSET Banks, astray : BOOLEAN, last : {"none", "update", "other"}]
  /\ bank[running] # "empty"

(* Everything is only erased, and the network only reset, after that many  *)
(* power-ups none of which got past the wait: crashes, watchdog resets and *)
(* restarts of the device itself never add up to it.                       *)
OnlyPowerCyclesReset ==
  /\ pc = "factory" => streak >= FullCycles
  /\ pc = "network" => streak >= NetCycles

(* ... with a firmware in the running bank all the while, and all types.   *)
BootSafe == TypeOK /\ OnlyPowerCyclesReset

(* A rollback never leaves a firmware that has run for a minute, whatever  *)
(* updates, half updates and quick restarts came before; unless the marked *)
(* firmware was overwritten before it had booted.                          *)
ProvenFirmwareStays ==
  [][(pc = "rollback" /\ bootBank' # bootBank) => (running \notin history.proven \/ history.astray)]_vars

(* A marked firmware that is booted and does not work is left for the one  *)
(* in the other bank; unless the marker goes astray: a cut between its end *)
(* and the switch, a factory reset, a validation just while it is set.     *)
BadFirmwareLeft ==
  (nvs.pending /\ running = bootBank /\ bank[running] = "bad" /\ bank[Other(running)] = "good")
    ~> (bank[bootBank] = "good" \/ history.astray)

(* A scheduled update comes to an end, carried out or given up, even when  *)
(* every try of it crashes ("a crash during the download must not loop     *)
(* forever"); unless a crash has left a firmware that does not work.       *)
UpdateEnds == nvs.ver ~> (~nvs.ver \/ bank[running] = "bad")

(* An update that was asked for is scheduled, unless something else is     *)
(* asked for before the loop has seen it, or the device restarts.          *)
RequestedUpdateScheduled ==
  (status = "awaiting") ~> (nvs.ver \/ history.last # "update" \/ pc # "run" \/ armed)

(* What the README says: "a firmware that fails to start rolls back on its *)
(* own" (where the other bank holds one that works).                       *)
FailedStartRollsBack ==
  (running = bootBank /\ bank[running] = "bad" /\ bank[Other(running)] = "good")
    ~> bank[bootBank] = "good"

(* The status comes back from a check, whether it is answered, fails, is   *)
(* given up or meets another: a check that never ends blocks all the rest. *)
ChecksEnd == (status = "check") ~> (status # "check")

=============================================================================
