---------------------------- MODULE FirmwareProofs -----------------------------
(***************************************************************************)
(* Firmware proved for any numbers of boots, tries, cycles, cuts and       *)
(* requests: the types, with a firmware in the running bank all the while, *)
(* that only power cycles reset anything, and that no rollback leaves a    *)
(* proven firmware.                                                        *)
(***************************************************************************)
EXTENDS Firmware, TLAPS

NewFirmware == pc \in {"fs", "mark", "marking", "marked"} \/ upload \in {"mark", "marking"}

\* An upload goes on in the loop alone, and a rollback has no marker left.
Phases ==
  /\ upload # "none" => pc = "run"
  /\ pc = "rollback" => ~nvs.pending

\* No more power-ups are counted than there were in a row.
Cycles ==
  /\ cuts \in 0 .. MaxCuts /\ streak \in 0 .. cuts + 1
  /\ pc \notin Waiting => nvs.cycles = 0
  /\ nvs.cycles <= streak
  /\ pc \in {"off", "rollback", "cycle"} /\ why = "power" => nvs.cycles < streak

\* From the last byte of a firmware to its marker it boots next, whole and untried.
Fresh ==
  NewFirmware =>
    /\ bootBank = Other(running) /\ bank[bootBank] # "empty" /\ bootBank \notin history.proven

\* A marker that has not gone astray is that of a whole firmware which has not run
\* for a minute; while another is downloaded it is that of the running one.
Marker ==
  nvs.pending /\ ~history.astray =>
    /\ bank[bootBank] # "empty" /\ bootBank \notin history.proven
    /\ pc \in {"app", "fs"} => running \notin history.proven /\ nvs.boots # 0
    /\ pc # "off" /\ nvs.boots = 0 => bootBank # running

\* So a rollback leaves one that has not.
Leaving == pc = "rollback" /\ ~history.astray => running \notin history.proven

\* The inductive invariant.
IInv == TypeOK /\ Phases /\ Cycles /\ OnlyPowerCyclesReset /\ Fresh /\ Marker /\ Leaving

-----------------------------------------------------------------------------
\* TypeOK in parts.
Nvs == [pending : BOOLEAN, boots : 0 .. MaxBoots, cycles : 0 .. MaxCuts + 1,
        ver : BOOLEAN, tries : 0 .. Tries]
Fetches == [requested : BOOLEAN, done : BOOLEAN, busy : {"no", "fetch", "fetched", "check"}]
WebTyped ==
  /\ armed \in BOOLEAN
  /\ status \in {"ready", "check", "awaiting", "updating", "complete", "cancelling", "cancelled"}
  /\ fetch \in Fetches
  /\ ask \in {"none", "list", "update"} /\ upload \in {"none", "writing", "mark", "marking"}
  /\ requests \in 0 .. MaxRequests
  /\ history \in [proven : SUBSET Banks, astray : BOOLEAN, last : {"none", "update", "other"}]

\* What other requests and the checks for releases do: an upload may end in
\* nothing, the marker, the banks and the boot stay as they are.
Aside ==
  /\ UNCHANGED <<nvs, bank, bootBank, running, pc, why, cuts, streak>>
  /\ history'.proven = history.proven /\ history'.astray = history.astray
  /\ upload' \in {upload, "none"} /\ WebTyped'

\* The steps that do more.
Step ==
  \/ CheckBoot \/ Rollback \/ CountCycle \/ EndWait \/ FactoryReset \/ NetworkReset
  \/ Die \/ Setup \/ SetupUnreadable \/ Crash \/ PowerCut \/ BeginApp
  \/ AppDownloaded \/ AppFails \/ FsDownloaded \/ FsFails \/ MarkUpdated \/ CancelBootUpdate
  \/ Reboot \/ Minute \/ LoopStatus \/ MarkUploaded \/ UploadBegin \/ UploadEnd

LEMMA Asides ==
  ASSUME TypeOK, \/ NoNetwork \/ LoopFetch \/ DailyCheck \/ Answer \/ GiveUp
                 \/ UploadFails \/ AskReleases \/ Cancel \/ Recover \/ AskReboot
  PROVE  Aside
<1> USE FirmwareAssumption DEF FirmwareAssumption, TypeOK, Aside, WebTyped, Fetches, device, web, bounds
<1>1. CASE NoNetwork
  BY <1>1 DEF NoNetwork
<1>2. CASE LoopFetch
  BY <1>2, ZenonT(40) DEF LoopFetch
<1>3. CASE DailyCheck
  BY <1>3 DEF DailyCheck
<1>4. CASE Answer
  BY <1>4 DEF Answer, Answered, Remember
<1>5. CASE GiveUp
  BY <1>5 DEF GiveUp
<1>6. CASE UploadFails
  BY <1>6 DEF UploadFails
<1>7. CASE AskReleases
  <2>1. [fetch EXCEPT !.requested = TRUE, !.done = FALSE] \in Fetches
    <3> DEFINE f == [fetch EXCEPT !.requested = TRUE]
    <3>1. f \in Fetches
      OBVIOUS
    <3>2. [f EXCEPT !.done = FALSE] \in Fetches
      BY <3>1
    <3>3. QED
      BY <3>2
  <2>2. fetch' \in Fetches /\ status' \in {"ready", "check"} /\ ask' \in {"none", "list", "update"}
    BY <1>7, <2>1 DEF AskReleases, InWeb
  <2>3. /\ UNCHANGED <<nvs, bank, bootBank, running, pc, why, armed, upload, cuts, streak>>
        /\ Remember("last", "other") /\ Asked
    BY <1>7 DEF AskReleases
  <2>4. QED
    BY <2>2, <2>3 DEF Asked, Remember
<1>8. CASE Cancel
  BY <1>8 DEF Cancel, Asked, Remember
<1>9. CASE Recover
  <2>1. armed' \in BOOLEAN
    BY <1>9, Zenon DEF Recover
  <2>2. /\ UNCHANGED <<nvs, bank, bootBank, running, pc, why, fetch, ask, upload, cuts, streak>>
        /\ status' = "complete" /\ Remember("last", "other") /\ Asked
    BY <1>9 DEF Recover
  <2>3. QED
    BY <2>1, <2>2 DEF Asked, Remember
<1>10. CASE AskReboot
  BY <1>10 DEF AskReboot, Asked
<1>11. QED
  BY <1>1, <1>2, <1>3, <1>4, <1>5, <1>6, <1>7, <1>8, <1>9, <1>10

\* Every step is one of them, or leaves everything alone.
LEMMA Steps == TypeOK /\ [Next]_vars => Step \/ Aside
<1>1. TypeOK /\ UNCHANGED vars => Aside
  BY DEF vars, device, web, bounds, TypeOK, WebTyped, Fetches, Aside
<1>2. QED
  BY Asides, <1>1 DEF Next, Booting, AtBoot, Loop, Handler, Step

\* What is written to NVS are counters in their ranges.
LEMMA Stored ==
  ASSUME NEW n \in Nvs
  PROVE  /\ \A b \in BOOLEAN : [n EXCEPT !.pending = b] \in Nvs /\ [n EXCEPT !.ver = b] \in Nvs
         /\ [n EXCEPT !.boots = 0] \in Nvs /\ [n EXCEPT !.tries = 0] \in Nvs
         /\ [n EXCEPT !.pending = FALSE, !.boots = 0] \in Nvs
         /\ \A b \in BOOLEAN : [n EXCEPT !.ver = b, !.tries = 0] \in Nvs
         /\ Valid(n) \in Nvs
<1>1. \A m \in Nvs, b \in BOOLEAN : [m EXCEPT !.pending = b] \in Nvs /\ [m EXCEPT !.ver = b] \in Nvs
  BY DEF Nvs
<1>2. \A m \in Nvs : [m EXCEPT !.boots = 0] \in Nvs /\ [m EXCEPT !.tries = 0] \in Nvs
  BY FirmwareAssumption DEF Nvs, FirmwareAssumption
<1>3. [n EXCEPT !.pending = FALSE, !.boots = 0] \in Nvs
  <2> DEFINE m == [n EXCEPT !.pending = FALSE]
  <2>1. m \in Nvs
    BY <1>1
  <2>2. [n EXCEPT !.pending = FALSE, !.boots = 0] = [m EXCEPT !.boots = 0]
    OBVIOUS
  <2>3. QED
    BY <2>1, <2>2, <1>2
<1>4. ASSUME NEW b \in BOOLEAN PROVE [n EXCEPT !.ver = b, !.tries = 0] \in Nvs
  <2> DEFINE m == [n EXCEPT !.ver = b]
  <2>1. m \in Nvs
    BY <1>1
  <2>2. [n EXCEPT !.ver = b, !.tries = 0] = [m EXCEPT !.tries = 0]
    OBVIOUS
  <2>3. QED
    BY <2>1, <2>2, <1>2
<1>5. Valid(n) \in Nvs
  BY <1>3 DEF Valid
<1>6. QED
  BY <1>1, <1>2, <1>3, <1>4, <1>5

LEMMA InitInv == Init => IInv
<1> SUFFICES ASSUME Init PROVE IInv
  OBVIOUS
<1>1. bank \in [Banks -> Images] /\ bank[1] = "good"
  BY DEF Init, Banks, Images
<1>2. TypeOK
  <2>1. nvs \in Nvs
    BY FirmwareAssumption DEF Init, Clean, Nvs, FirmwareAssumption
  <2>2. /\ bootBank \in Banks /\ running \in Banks /\ bank[running] # "empty"
        /\ cuts \in 0 .. MaxCuts /\ streak \in 0 .. MaxCuts + 1
    BY <1>1, FirmwareAssumption DEF Init, Banks, FirmwareAssumption
  <2>3. WebTyped
    <3>1. fetch \in Fetches /\ requests \in 0 .. MaxRequests
      BY FirmwareAssumption DEF Init, Fetches, NoFetch, FirmwareAssumption
    <3>2. history \in [proven : SUBSET Banks, astray : BOOLEAN, last : {"none", "update", "other"}]
      BY DEF Init, Banks
    <3>3. QED
      BY <3>1, <3>2 DEF Init, WebTyped
  <2>4. QED
    BY <1>1, <2>1, <2>2, <2>3 DEF Init, TypeOK, Nvs, WebTyped, Fetches
<1>3. QED
  BY <1>2, FirmwareAssumption
    DEF Init, IInv, Phases, Cycles, OnlyPowerCyclesReset, Fresh, Marker, Leaving, NewFirmware, Waiting, Clean,
        FirmwareAssumption

\* Uploads in the loop, no marker in a rollback.
LEMMA StepPhases == TypeOK /\ Phases /\ [Next]_vars => Phases'
<1> SUFFICES ASSUME TypeOK, Phases, [Next]_vars PROVE Phases'
  OBVIOUS
<1> USE DEF device, web, bounds, Phases, TypeOK
<1>1. CASE CheckBoot
  BY <1>1 DEF CheckBoot, Banks, Other
<1>2. CASE Rollback
  BY <1>2 DEF Rollback, Banks, Other, Reset, NoFetch
<1>3. CASE CountCycle
  BY <1>3 DEF CountCycle
<1>4. CASE EndWait
  BY <1>4 DEF EndWait
<1>5. CASE FactoryReset
  BY <1>5 DEF FactoryReset, Reset, NoFetch, Remember, Clean
<1>6. CASE NetworkReset
  BY <1>6 DEF NetworkReset, Reset, NoFetch
<1>7. CASE Die
  BY <1>7 DEF Die, Reset, NoFetch
<1>8. CASE Setup
  BY <1>8 DEF Setup
<1>9. CASE SetupUnreadable
  BY <1>9 DEF SetupUnreadable, Reset, NoFetch
<1>10. CASE Crash
  BY <1>10 DEF Crash, Reset, NoFetch, Updating
<1>11. CASE PowerCut
  BY <1>11 DEF PowerCut, Reset, NoFetch, Remember
<1>12. CASE BeginApp
  BY <1>12 DEF BeginApp, Banks, Other, Images, Overwrite, Remember
<1>13. CASE AppDownloaded
  BY <1>13 DEF AppDownloaded, Banks, Other, Images, NewImage, Remember
<1>14. CASE AppFails
  BY <1>14 DEF AppFails
<1>15. CASE FsDownloaded
  BY <1>15 DEF FsDownloaded
<1>16. CASE FsFails
  BY <1>16 DEF FsFails
<1>17. CASE MarkUpdated
  BY <1>17 DEF MarkUpdated, MarkPending
<1>18. CASE CancelBootUpdate
  BY <1>18 DEF CancelBootUpdate
<1>19. CASE Reboot
  BY <1>19 DEF Reboot, Reset, NoFetch, Valid
<1>20. CASE Minute
  BY <1>20 DEF Minute, Valid
<1>21. CASE LoopStatus
  BY <1>21 DEF LoopStatus
<1>22. CASE MarkUploaded
  BY <1>22 DEF MarkUploaded
<1>23. CASE UploadBegin
  BY <1>23 DEF UploadBegin, Banks, Other, Images, Asked, Overwrite, Remember
<1>24. CASE UploadEnd
  BY <1>24 DEF UploadEnd, Banks, Other, Images, NewImage, Remember
<1>25. CASE Aside
  BY <1>25 DEF Aside
<1>26. QED
  BY Steps, <1>1, <1>2, <1>3, <1>4, <1>5, <1>6, <1>7, <1>8, <1>9, <1>10, <1>11, <1>12,
    <1>13, <1>14, <1>15, <1>16, <1>17, <1>18, <1>19, <1>20, <1>21, <1>22, <1>23, <1>24,
    <1>25 DEF Step

\* The power-ups that are counted.
LEMMA StepCycles == TypeOK /\ Cycles /\ OnlyPowerCyclesReset /\ [Next]_vars => (Cycles /\ OnlyPowerCyclesReset)'
<1> SUFFICES ASSUME TypeOK, Cycles, OnlyPowerCyclesReset, [Next]_vars PROVE (Cycles /\ OnlyPowerCyclesReset)'
  OBVIOUS
<1> USE DEF device, web, bounds, Cycles, OnlyPowerCyclesReset
<1> USE FirmwareAssumption DEF FirmwareAssumption, Waiting, Updating, TypeOK
<1>1. CASE CheckBoot
  BY <1>1 DEF CheckBoot, Banks, Other
<1>2. CASE Rollback
  BY <1>2 DEF Rollback, Banks, Other, Reset, NoFetch
<1>3. CASE CountCycle
  BY <1>3 DEF CountCycle
<1>4. CASE EndWait
  BY <1>4 DEF EndWait
<1>5. CASE FactoryReset
  BY <1>5 DEF FactoryReset, Reset, NoFetch, Remember, Clean
<1>6. CASE NetworkReset
  BY <1>6 DEF NetworkReset, Reset, NoFetch
<1>7. CASE Die
  BY <1>7 DEF Die, Reset, NoFetch
<1>8. CASE Setup
  BY <1>8 DEF Setup
<1>9. CASE SetupUnreadable
  BY <1>9 DEF SetupUnreadable, Reset, NoFetch
<1>10. CASE Crash
  BY <1>10 DEF Crash, Reset, NoFetch, Updating
<1>11. CASE PowerCut
  BY <1>11 DEF PowerCut, Reset, NoFetch, Remember
<1>12. CASE BeginApp
  BY <1>12 DEF BeginApp, Banks, Other, Images, Overwrite, Remember
<1>13. CASE AppDownloaded
  BY <1>13 DEF AppDownloaded, Banks, Other, Images, NewImage, Remember
<1>14. CASE AppFails
  BY <1>14 DEF AppFails
<1>15. CASE FsDownloaded
  BY <1>15 DEF FsDownloaded
<1>16. CASE FsFails
  BY <1>16 DEF FsFails
<1>17. CASE MarkUpdated
  BY <1>17 DEF MarkUpdated, MarkPending
<1>18. CASE CancelBootUpdate
  BY <1>18 DEF CancelBootUpdate
<1>19. CASE Reboot
  BY <1>19 DEF Reboot, Reset, NoFetch, Valid
<1>20. CASE Minute
  BY <1>20 DEF Minute, Valid
<1>21. CASE LoopStatus
  BY <1>21 DEF LoopStatus
<1>22. CASE MarkUploaded
  BY <1>22 DEF MarkUploaded
<1>23. CASE UploadBegin
  BY <1>23 DEF UploadBegin, Banks, Other, Images, Asked, Overwrite, Remember
<1>24. CASE UploadEnd
  BY <1>24 DEF UploadEnd, Banks, Other, Images, NewImage, Remember
<1>25. CASE Aside
  BY <1>25 DEF Aside
<1>26. QED
  BY Steps, <1>1, <1>2, <1>3, <1>4, <1>5, <1>6, <1>7, <1>8, <1>9, <1>10, <1>11, <1>12,
    <1>13, <1>14, <1>15, <1>16, <1>17, <1>18, <1>19, <1>20, <1>21, <1>22, <1>23, <1>24,
    <1>25 DEF Step

\* A firmware that has just been written.
LEMMA StepFresh == TypeOK /\ Phases /\ Fresh /\ [Next]_vars => Fresh'
<1> SUFFICES ASSUME TypeOK, Phases, Fresh, [Next]_vars PROVE Fresh'
  OBVIOUS
<1> USE DEF device, web, bounds, Fresh, Phases, NewFirmware
<1> USE DEF TypeOK, Banks, Other
<1>1. CASE CheckBoot
  BY <1>1 DEF CheckBoot, Banks, Other
<1>2. CASE Rollback
  BY <1>2 DEF Rollback, Banks, Other, Reset, NoFetch
<1>3. CASE CountCycle
  BY <1>3 DEF CountCycle
<1>4. CASE EndWait
  BY <1>4 DEF EndWait
<1>5. CASE FactoryReset
  BY <1>5 DEF FactoryReset, Reset, NoFetch, Remember, Clean
<1>6. CASE NetworkReset
  BY <1>6 DEF NetworkReset, Reset, NoFetch
<1>7. CASE Die
  BY <1>7 DEF Die, Reset, NoFetch
<1>8. CASE Setup
  BY <1>8 DEF Setup
<1>9. CASE SetupUnreadable
  BY <1>9 DEF SetupUnreadable, Reset, NoFetch
<1>10. CASE Crash
  BY <1>10 DEF Crash, Reset, NoFetch, Updating
<1>11. CASE PowerCut
  BY <1>11 DEF PowerCut, Reset, NoFetch, Remember
<1>12. CASE BeginApp
  BY <1>12 DEF BeginApp, Banks, Other, Images, Overwrite, Remember
<1>13. CASE AppDownloaded
  BY <1>13 DEF AppDownloaded, Banks, Other, Images, NewImage, Remember
<1>14. CASE AppFails
  BY <1>14 DEF AppFails
<1>15. CASE FsDownloaded
  BY <1>15 DEF FsDownloaded
<1>16. CASE FsFails
  BY <1>16 DEF FsFails
<1>17. CASE MarkUpdated
  BY <1>17 DEF MarkUpdated, MarkPending
<1>18. CASE CancelBootUpdate
  BY <1>18 DEF CancelBootUpdate
<1>19. CASE Reboot
  BY <1>19 DEF Reboot, Reset, NoFetch, Valid
<1>20. CASE Minute
  BY <1>20 DEF Minute, Valid
<1>21. CASE LoopStatus
  BY <1>21 DEF LoopStatus
<1>22. CASE MarkUploaded
  BY <1>22 DEF MarkUploaded
<1>23. CASE UploadBegin
  BY <1>23 DEF UploadBegin, Banks, Other, Images, Asked, Overwrite, Remember
<1>24. CASE UploadEnd
  BY <1>24 DEF UploadEnd, Banks, Other, Images, NewImage, Remember
<1>25. CASE Aside
  BY <1>25 DEF Aside
<1>26. QED
  BY Steps, <1>1, <1>2, <1>3, <1>4, <1>5, <1>6, <1>7, <1>8, <1>9, <1>10, <1>11, <1>12,
    <1>13, <1>14, <1>15, <1>16, <1>17, <1>18, <1>19, <1>20, <1>21, <1>22, <1>23, <1>24,
    <1>25 DEF Step

\* The marker and the bank it is about.
LEMMA StepMarker == TypeOK /\ Phases /\ Fresh /\ Marker /\ Leaving /\ [Next]_vars => (Marker /\ Leaving)'
<1> SUFFICES ASSUME TypeOK, Phases, Fresh, Marker, Leaving, [Next]_vars PROVE (Marker /\ Leaving)'
  OBVIOUS
<1> USE DEF device, web, bounds, Marker, Leaving, Fresh, Phases, NewFirmware
<1> USE DEF TypeOK, Banks, Other
<1>1. CASE CheckBoot
  <2>1. /\ UNCHANGED <<bank, bootBank, history>> /\ pc = "off" /\ pc' # "app" /\ pc' # "fs"
        /\ bank[bootBank] # "empty" => running' = bootBank
    BY <1>1 DEF CheckBoot
  <2>2. CASE nvs.pending /\ nvs.boots + 1 > MaxBoots
    BY <1>1, <2>1, <2>2 DEF CheckBoot
  <2>3. CASE ~(nvs.pending /\ nvs.boots + 1 > MaxBoots)
    <3>1. pc' = "cycle" /\ nvs'.pending = nvs.pending /\ (nvs.pending => nvs'.boots # 0)
      BY <1>1, <2>3 DEF CheckBoot
    <3>2. QED
      BY <2>1, <3>1
  <2>4. QED
    BY <2>2, <2>3
<1>2. CASE Rollback
  BY <1>2 DEF Rollback, Banks, Other, Reset, NoFetch
<1>3. CASE CountCycle
  BY <1>3 DEF CountCycle
<1>4. CASE EndWait
  BY <1>4 DEF EndWait
<1>5. CASE FactoryReset
  BY <1>5 DEF FactoryReset, Reset, NoFetch, Remember, Clean
<1>6. CASE NetworkReset
  BY <1>6 DEF NetworkReset, Reset, NoFetch
<1>7. CASE Die
  BY <1>7 DEF Die, Reset, NoFetch
<1>8. CASE Setup
  BY <1>8 DEF Setup
<1>9. CASE SetupUnreadable
  BY <1>9 DEF SetupUnreadable, Reset, NoFetch
<1>10. CASE Crash
  BY <1>10 DEF Crash, Reset, NoFetch, Updating
<1>11. CASE PowerCut
  BY <1>11 DEF PowerCut, Reset, NoFetch, Remember
<1>12. CASE BeginApp
  BY <1>12 DEF BeginApp, Banks, Other, Images, Overwrite, Remember
<1>13. CASE AppDownloaded
  BY <1>13 DEF AppDownloaded, Banks, Other, Images, NewImage, Remember
<1>14. CASE AppFails
  BY <1>14 DEF AppFails
<1>15. CASE FsDownloaded
  BY <1>15 DEF FsDownloaded
<1>16. CASE FsFails
  <2>1. /\ UNCHANGED <<nvs, bank, running, history>> /\ pc = "fs" /\ pc' = "tried" /\ bootBank' = running
    BY <1>16 DEF FsFails
  <2>2. CASE nvs.pending /\ ~history.astray
    <3>1. running \notin history.proven /\ nvs.boots # 0
      BY <2>1, <2>2
    <3>2. QED
      BY <2>1, <3>1
  <2>3. QED
    BY <2>1, <2>2
<1>17. CASE MarkUpdated
  BY <1>17 DEF MarkUpdated, MarkPending
<1>18. CASE CancelBootUpdate
  BY <1>18 DEF CancelBootUpdate
<1>19. CASE Reboot
  BY <1>19 DEF Reboot, Reset, NoFetch, Valid
<1>20. CASE Minute
  BY <1>20 DEF Minute, Valid
<1>21. CASE LoopStatus
  BY <1>21 DEF LoopStatus
<1>22. CASE MarkUploaded
  <2>1. /\ UNCHANGED <<bank, bootBank, running, pc, history>> /\ pc = "run"
        /\ upload \in {"mark", "marking"} /\ nvs'.pending \in BOOLEAN
    BY <1>22 DEF MarkUploaded
  <2>2. bootBank # running
    BY <2>1
  <2>3. QED
    BY <2>1, <2>2
<1>23. CASE UploadBegin
  BY <1>23 DEF UploadBegin, Banks, Other, Images, Asked, Overwrite, Remember
<1>24. CASE UploadEnd
  BY <1>24 DEF UploadEnd, Banks, Other, Images, NewImage, Remember
<1>25. CASE Aside
  BY <1>25 DEF Aside
<1>26. QED
  BY Steps, <1>1, <1>2, <1>3, <1>4, <1>5, <1>6, <1>7, <1>8, <1>9, <1>10, <1>11, <1>12,
    <1>13, <1>14, <1>15, <1>16, <1>17, <1>18, <1>19, <1>20, <1>21, <1>22, <1>23, <1>24,
    <1>25 DEF Step

\* What is stored stays in its ranges.
LEMMA StepNvs == TypeOK /\ Cycles /\ [Next]_vars => nvs' \in Nvs
<1> SUFFICES ASSUME TypeOK, Cycles, [Next]_vars PROVE nvs' \in Nvs
  OBVIOUS
<1> USE DEF device, web, bounds
<1>0. nvs \in Nvs
  BY DEF TypeOK, Nvs
<1>1. CASE CheckBoot
  <2>1. \A m \in Nvs : m.boots + 1 <= MaxBoots => [m EXCEPT !.boots = @ + 1] \in Nvs
    BY FirmwareAssumption DEF Nvs, FirmwareAssumption
  <2>2. nvs.pending /\ ~(nvs.boots + 1 > MaxBoots) => nvs.boots + 1 <= MaxBoots
    BY <1>0, FirmwareAssumption DEF Nvs, FirmwareAssumption
  <2>3. ~nvs.pending => [nvs EXCEPT !.boots = @] = nvs
    BY <1>0 DEF Nvs
  <2>4. QED
    BY <1>1, <1>0, <2>1, <2>2, <2>3, Stored DEF CheckBoot
<1>2. CASE Rollback
  BY <1>0, Stored, <1>2 DEF Rollback, Banks, Other, Reset, NoFetch
<1>3. CASE CountCycle
  BY <1>3, <1>0, FirmwareAssumption DEF CountCycle, Nvs, Cycles, TypeOK, FirmwareAssumption
<1>4. CASE EndWait
  BY <1>4, <1>0, FirmwareAssumption DEF EndWait, Nvs, FirmwareAssumption
<1>5. CASE FactoryReset
  BY <1>5, FirmwareAssumption DEF FactoryReset, Clean, Nvs, FirmwareAssumption
<1>6. CASE NetworkReset
  BY <1>0, Stored, <1>6 DEF NetworkReset, Reset, NoFetch
<1>7. CASE Die
  BY <1>0, Stored, <1>7 DEF Die, Reset, NoFetch
<1>8. CASE Setup
  <2>1. nvs.tries < Tries => [nvs EXCEPT !.tries = @ + 1] \in Nvs
    BY <1>0, FirmwareAssumption DEF Nvs, FirmwareAssumption
  <2>2. QED
    BY <1>8, <1>0, <2>1, Stored DEF Setup
<1>9. CASE SetupUnreadable
  BY <1>0, Stored, <1>9 DEF SetupUnreadable, Reset, NoFetch
<1>10. CASE Crash
  BY <1>0, Stored, <1>10 DEF Crash, Reset, NoFetch, Updating
<1>11. CASE PowerCut
  BY <1>0, Stored, <1>11 DEF PowerCut, Reset, NoFetch, Remember
<1>12. CASE BeginApp
  BY <1>0, Stored, <1>12 DEF BeginApp, Banks, Other, Images, Overwrite, Remember
<1>13. CASE AppDownloaded
  BY <1>0, Stored, <1>13 DEF AppDownloaded, Banks, Other, Images, NewImage, Remember
<1>14. CASE AppFails
  BY <1>0, Stored, <1>14 DEF AppFails
<1>15. CASE FsDownloaded
  BY <1>0, Stored, <1>15 DEF FsDownloaded
<1>16. CASE FsFails
  BY <1>0, Stored, <1>16 DEF FsFails
<1>17. CASE MarkUpdated
  BY <1>0, Stored, <1>17 DEF MarkUpdated, MarkPending
<1>18. CASE CancelBootUpdate
  BY <1>0, Stored, <1>18 DEF CancelBootUpdate
<1>19. CASE Reboot
  BY <1>0, Stored, <1>19 DEF Reboot, Reset, NoFetch, Valid
<1>20. CASE Minute
  BY <1>0, Stored, <1>20 DEF Minute, Valid
<1>21. CASE LoopStatus
  BY <1>0, Stored, <1>21 DEF LoopStatus
<1>22. CASE MarkUploaded
  BY <1>0, Stored, <1>22 DEF MarkUploaded
<1>23. CASE UploadBegin
  BY <1>0, Stored, <1>23 DEF UploadBegin, Banks, Other, Images, Asked, Overwrite, Remember
<1>24. CASE UploadEnd
  BY <1>0, Stored, <1>24 DEF UploadEnd, Banks, Other, Images, NewImage, Remember
<1>25. CASE Aside
  BY <1>0, Stored, <1>25 DEF Aside, WebTyped
<1>26. QED
  BY Steps, <1>1, <1>2, <1>3, <1>4, <1>5, <1>6, <1>7, <1>8, <1>9, <1>10, <1>11, <1>12,
    <1>13, <1>14, <1>15, <1>16, <1>17, <1>18, <1>19, <1>20, <1>21, <1>22, <1>23, <1>24,
    <1>25 DEF Step

\* Every step keeps the types.
LEMMA StepTyped == TypeOK /\ Cycles /\ OnlyPowerCyclesReset /\ [Next]_vars => TypeOK'
<1> SUFFICES ASSUME TypeOK, Cycles, OnlyPowerCyclesReset, [Next]_vars PROVE TypeOK'
  OBVIOUS
<1> USE DEF device, web, bounds, TypeOK, Updating, Nvs
<1>0. nvs' \in Nvs /\ streak' \in 0 .. MaxCuts + 1
  BY StepNvs, StepCycles, FirmwareAssumption DEF Cycles, FirmwareAssumption
<1>1. CASE CheckBoot
  BY <1>0, <1>1 DEF CheckBoot, Banks, Other
<1>2. CASE Rollback
  <2>1. \A b \in Banks : Other(b) \in Banks
    BY DEF Banks, Other
  <2>2. bootBank' \in Banks /\ UNCHANGED <<bank, running, cuts, requests, history>>
    BY <1>2, <2>1 DEF Rollback
  <2>3. CASE pc' = "off"
    <3>1. Reset("software")
      BY <1>2, <2>3 DEF Rollback
    <3>2. nvs' = nvs
      BY <1>2 DEF Rollback
    <3>3. QED
      BY <1>0, <2>2, <3>1, <3>2 DEF Reset, NoFetch
  <2>4. CASE pc' # "off"
    BY <1>0, <1>2, <2>2, <2>4 DEF Rollback, Reset
  <2>5. QED
    BY <2>3, <2>4
<1>3. CASE CountCycle
  BY <1>0, <1>3 DEF CountCycle
<1>4. CASE EndWait
  BY <1>0, <1>4 DEF EndWait
<1>5. CASE FactoryReset
  BY <1>0, <1>5 DEF FactoryReset, Reset, NoFetch, Remember, Clean
<1>6. CASE NetworkReset
  BY <1>0, <1>6 DEF NetworkReset, Reset, NoFetch
<1>7. CASE Die
  BY <1>0, <1>7 DEF Die, Reset, NoFetch
<1>8. CASE Setup
  BY <1>0, <1>8 DEF Setup
<1>9. CASE SetupUnreadable
  BY <1>0, <1>9 DEF SetupUnreadable, Reset, NoFetch
<1>10. CASE Crash
  BY <1>0, <1>10 DEF Crash, Reset, NoFetch, Updating
<1>11. CASE PowerCut
  <2>1. cuts' \in 0 .. MaxCuts
    BY <1>11, FirmwareAssumption DEF PowerCut, FirmwareAssumption
  <2>2. history' \in [proven : SUBSET Banks, astray : BOOLEAN, last : {"none", "update", "other"}]
    BY <1>11 DEF PowerCut, Remember
  <2>3. QED
    BY <1>0, <1>11, <2>1, <2>2 DEF PowerCut, Reset, NoFetch
<1>12. CASE BeginApp
  BY <1>0, <1>12 DEF BeginApp, Banks, Other, Images, Overwrite, Remember
<1>13. CASE AppDownloaded
  BY <1>0, <1>13 DEF AppDownloaded, Banks, Other, Images, NewImage, Remember
<1>14. CASE AppFails
  BY <1>0, <1>14 DEF AppFails
<1>15. CASE FsDownloaded
  BY <1>0, <1>15 DEF FsDownloaded
<1>16. CASE FsFails
  BY <1>0, <1>16 DEF FsFails
<1>17. CASE MarkUpdated
  <2>1. armed' \in BOOLEAN /\ pc' \in Updating
    BY <1>17 DEF MarkUpdated, MarkPending
  <2>2. QED
    BY <1>0, <1>17, <2>1 DEF MarkUpdated
<1>18. CASE CancelBootUpdate
  BY <1>0, <1>18 DEF CancelBootUpdate
<1>19. CASE Reboot
  BY <1>0, <1>19 DEF Reboot, Reset, NoFetch, Valid
<1>20. CASE Minute
  <2>1. history' \in [proven : SUBSET Banks, astray : BOOLEAN, last : {"none", "update", "other"}]
    <3>1. history.proven \union {running} \in SUBSET Banks /\ history'.proven = history.proven \union {running}
      BY <1>20 DEF Minute
    <3>2. history'.astray = (history.astray \/ upload = "marking")
      BY <1>20 DEF Minute
    <3>3. DOMAIN history' = DOMAIN history /\ history'.last = history.last
      BY <1>20 DEF Minute
    <3>4. QED
      BY <3>1, <3>2, <3>3, <1>20 DEF Minute
  <2>2. QED
    BY <1>0, <1>20, <2>1 DEF Minute
<1>21. CASE LoopStatus
  BY <1>0, <1>21 DEF LoopStatus
<1>22. CASE MarkUploaded
  <2>1. armed' \in BOOLEAN /\ upload' \in {"none", "marking"}
    BY <1>22, Zenon DEF MarkUploaded
  <2>2. QED
    BY <1>0, <1>22, <2>1 DEF MarkUploaded
<1>23. CASE UploadBegin
  <2>1. bank' \in [Banks -> Images] /\ bank'[running] # "empty"
    BY <1>23 DEF UploadBegin, Overwrite, Banks, Other, Images
  <2>2. history' \in [proven : SUBSET Banks, astray : BOOLEAN, last : {"none", "update", "other"}]
    BY <1>23 DEF UploadBegin, Overwrite, Remember
  <2>3. requests' \in 0 .. MaxRequests
    BY <1>23, FirmwareAssumption DEF UploadBegin, Asked, FirmwareAssumption
  <2>4. QED
    BY <1>0, <1>23, <2>1, <2>2, <2>3 DEF UploadBegin, Asked
<1>24. CASE UploadEnd
  BY <1>0, <1>24 DEF UploadEnd, Banks, Other, Images, NewImage, Remember
<1>25. CASE Aside
  BY <1>0, <1>25 DEF Aside, WebTyped, Fetches
<1>26. QED
  BY Steps, <1>1, <1>2, <1>3, <1>4, <1>5, <1>6, <1>7, <1>8, <1>9, <1>10, <1>11, <1>12,
    <1>13, <1>14, <1>15, <1>16, <1>17, <1>18, <1>19, <1>20, <1>21, <1>22, <1>23, <1>24,
    <1>25 DEF Step

-----------------------------------------------------------------------------
\* The invariant, inductively.
LEMMA Inductive == Spec => []IInv
<1>1. IInv /\ [Next]_vars => IInv'
  BY StepPhases, StepCycles, StepFresh, StepMarker, StepTyped DEF IInv
<1>2. QED
  BY InitInv, <1>1, PTL DEF Spec

(* Firmware's variables stay well typed: counters in their ranges, and a   *)
(* firmware in the running bank whatever is cut, overwritten or refused.   *)
THEOREM TypeCorrect == Spec => []TypeOK
<1>1. IInv => TypeOK
  BY DEF IInv
<1>2. QED
  BY Inductive, <1>1, PTL

(* Nothing but that many power-ups in a row erases the device or resets    *)
(* its network.                                                            *)
THEOREM BootSafeCorrect == Spec => []BootSafe
<1>1. IInv => BootSafe
  BY DEF IInv, BootSafe
<1>2. QED
  BY Inductive, <1>1, PTL

(* No rollback leaves a firmware that has run for a minute, whatever       *)
(* updates, uploads, cuts and crashes came before, unless a marker has     *)
(* gone astray.                                                            *)
THEOREM ProvenFirmwareCorrect == Spec => ProvenFirmwareStays
<1>1. IInv => (pc = "rollback" => (running \notin history.proven \/ history.astray))
  BY DEF IInv, Leaving
<1>2. QED
  BY Inductive, <1>1, PTL DEF ProvenFirmwareStays, Spec

=============================================================================
