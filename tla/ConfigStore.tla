---------------------------- MODULE ConfigStore ----------------------------
(***************************************************************************)
(* The configuration files: how SomfyShadeController and ShadeConfigFile   *)
(* write, replace, recover and fall back, with power cuts between any two  *)
(* operations on the file system, failing writes, an unreadable file and   *)
(* the flash of a new file system image.                                   *)
(*                                                                         *)
(* Operations on files are the steps: LittleFS makes each of them atomic.  *)
(* SomfyGuard is held from the first to the last of a save, so nothing     *)
(* else changes the shades meanwhile; the rolling codes are in NVS.        *)
(*                                                                         *)
(* What is abstracted: the contents of a file are the number of the edit   *)
(* it holds and the rolling code of one remote.  A file that validate()    *)
(* refuses is torn, however it became so.                                  *)
(***************************************************************************)
EXTENDS Naturals

CONSTANTS
  CodeSpan,     \* rolling codes count modulo this
  MaxEdits,     \* bound: changes of the shades
  MaxSends,     \* bound: rolling codes used
  MaxBackups,   \* bound: backups downloaded or restored
  MaxCuts,      \* bound: power cuts and resets
  MaxFaults,    \* bound: opens and writes that fail
  MaxSpoiled,   \* bound: files that become unreadable on flash
  MaxFlashes    \* bound: flashes of the file system

ASSUME StoreAssumption ==
  /\ CodeSpan \in Nat \ {0} /\ MaxEdits \in Nat /\ MaxSends \in Nat /\ MaxBackups \in Nat
  /\ MaxCuts \in Nat /\ MaxFaults \in Nat /\ MaxSpoiled \in Nat /\ MaxFlashes \in Nat

VARIABLES
  disk,       \* the files
  mounted,    \* the file system is there
  nvs,        \* ShadeCodes: the stored rolling code
  shades,     \* the shades in memory: the edit and the code they hold
  isDirty, lockFS,
  pc, target, \* the operation under way and the file it replaces
  download,   \* the backup the user keeps
  count,      \* how often each bounded event happened
  kept,       \* history: the edit no power cut may fall behind
  trusted     \* history: shades.cfg was neither spoiled nor flashed over since

memory == <<shades, isDirty, lockFS>>
history == <<kept, trusted>>
vars == <<disk, mounted, nvs, memory, pc, target, download, count, history>>

Limit == [edit |-> MaxEdits, send |-> MaxSends, backup |-> MaxBackups, cut |-> MaxCuts,
          fault |-> MaxFaults, spoil |-> MaxSpoiled, flash |-> MaxFlashes]
Happens(e) == count[e] < Limit[e] /\ count' = [count EXCEPT ![e] = @ + 1]

Files == {"cfg", "cfg.tmp", "bad", "backup", "backup.tmp"}
Absent == [is |-> "absent", edit |-> 0, code |-> 0]
Torn == [is |-> "torn", edit |-> 0, code |-> 0]
Whole(s) == [is |-> "whole", edit |-> s.edit, code |-> s.code]
NoShades == [edit |-> 0, code |-> 0]
TmpOf(f) == IF f = "cfg" THEN "cfg.tmp" ELSE "backup.tmp"
Empty == [f \in Files |-> Absent]
Larger(a, b) == IF a < b THEN b ELSE a

Init ==
  /\ disk = Empty /\ mounted = TRUE /\ nvs = 0
  /\ shades = NoShades /\ isDirty = FALSE /\ lockFS = FALSE
  /\ pc = "off" /\ target = "cfg" /\ download = Absent
  /\ count = [e \in DOMAIN Limit |-> 0]
  /\ kept = 0 /\ trusted = TRUE

-----------------------------------------------------------------------------
(* Boot: SomfyShadeController::begin().                                    *)

\* Bug: the orphan stays a .tmp.
PromotedNever(d) == d

\* ShadeConfigFile::exists(): an orphaned .tmp becomes the file.
Promoted(d) ==
  IF d["cfg"].is = "absent" /\ d["cfg.tmp"].is # "absent"
  THEN [d EXCEPT !["cfg"] = d["cfg.tmp"], !["cfg.tmp"] = Absent] ELSE d

\* Bug: the code of the file replaces the one in NVS.
ReadCodeOfFile(file) ==
  /\ shades' = [edit |-> file.edit, code |-> file.code]
  /\ nvs' = file.code

\* readShadeRecord(): the larger of the two codes, stored when the file has it.
Read(file) ==
  /\ shades' = [edit |-> file.edit, code |-> Larger(nvs, file.code)]
  /\ nvs' = Larger(nvs, file.code)

\* Nothing to read, a file to use (a shade without a bit length makes begin()
\* commit at once), or one to set aside.
BootLoad ==
  /\ pc = "off" /\ mounted
  /\ disk' = Promoted(disk)
  /\ CASE disk'["cfg"].is = "absent" -> pc' = "run" /\ UNCHANGED <<shades, nvs>>
       [] disk'["cfg"].is = "whole" -> pc' \in {"run", "open"} /\ Read(disk'["cfg"])
       [] OTHER -> pc' = "unreadable" /\ UNCHANGED <<shades, nvs>>
  /\ target' = "cfg"
  /\ UNCHANGED <<mounted, isDirty, lockFS, download, count, history>>

\* The file system does not mount: the shades start empty.
BootUnmounted ==
  /\ pc = "off" /\ ~mounted
  /\ pc' = "run"
  /\ UNCHANGED <<disk, mounted, nvs, memory, target, download, count, history>>

BootDropBad ==
  /\ pc = "unreadable" /\ disk["bad"].is # "absent"
  /\ disk' = [disk EXCEPT !["bad"] = Absent]
  /\ UNCHANGED <<mounted, nvs, memory, pc, target, download, count, history>>

BootSetAside ==
  /\ pc = "unreadable" /\ disk["bad"].is = "absent"
  /\ disk' = [disk EXCEPT !["bad"] = disk["cfg"], !["cfg"] = Absent]
  /\ pc' = "fallback"
  /\ UNCHANGED <<mounted, nvs, memory, target, download, count, history>>

\* The backup, when there is one to read: restoreFile() commits it.
BootFallback ==
  /\ pc = "fallback"
  /\ IF disk["backup"].is = "whole"
     THEN Read(disk["backup"]) /\ pc' = "open"
     ELSE UNCHANGED <<shades, nvs>> /\ pc' = "run"
  /\ UNCHANGED <<disk, mounted, isDirty, lockFS, target, download, count, history>>

-----------------------------------------------------------------------------
(* What the shades go through in memory.                                   *)

\* A position or an added id is left to the loop, most handlers commit at once,
\* and some of those do not mark what they changed (save(), deleteShade()).
Edit ==
  /\ pc = "run" /\ Happens("edit")
  /\ shades' = [shades EXCEPT !.edit = count'["edit"]]
  /\ \/ isDirty' = TRUE /\ pc' = "run"
     \/ isDirty' \in {isDirty, TRUE} /\ pc' = "open"
  /\ target' = "cfg"
  /\ UNCHANGED <<disk, mounted, nvs, lockFS, download, history>>

\* getNextRollingCode(): the next code is in NVS before it is sent.
Send ==
  /\ pc = "run" /\ shades.edit > 0 /\ Happens("send")
  /\ nvs' = (nvs + 1) % CodeSpan
  /\ shades' = [shades EXCEPT !.code = nvs']
  /\ UNCHANGED <<disk, mounted, isDirty, lockFS, pc, target, download, history>>

\* The loop commits what is dirty (it does not run during a flash) ...
LoopCommit ==
  /\ pc = "run" /\ isDirty /\ ~lockFS
  /\ pc' = "open" /\ target' = "cfg"
  /\ UNCHANGED <<disk, mounted, nvs, memory, download, count, history>>

\* ... the download of a backup writes one ...
Backup ==
  /\ pc = "run" /\ Happens("backup")
  /\ pc' = "open" /\ target' = "backup"
  /\ UNCHANGED <<disk, mounted, nvs, memory, download, history>>

\* ... and a restore takes one over.
Restore ==
  /\ pc = "run" /\ ~lockFS /\ mounted /\ download.is = "whole" /\ Happens("backup")
  /\ Read(download)
  /\ pc' = "open" /\ target' = "cfg"
  /\ kept' = IF download.edit < kept THEN download.edit ELSE kept
  /\ UNCHANGED <<disk, mounted, isDirty, lockFS, download, trusted>>

-----------------------------------------------------------------------------
(* commit() and writeBackup(), both through ConfigFile.                    *)

\* ConfigFile::begin() for writing: not while the file system is flashed.
Open ==
  /\ pc = "open" /\ ~lockFS /\ mounted
  /\ disk' = [disk EXCEPT ![TmpOf(target)] = Torn]
  /\ pc' = "write"
  /\ UNCHANGED <<mounted, nvs, memory, target, download, count, history>>

\* What is dirty stays so.
OpenFails ==
  /\ pc = "open" /\ (lockFS \/ ~mounted)
  /\ pc' = "run"
  /\ UNCHANGED <<disk, mounted, nvs, memory, target, download, count, history>>

OpenFaulty ==
  /\ pc = "open" /\ ~lockFS /\ mounted /\ Happens("fault")
  /\ pc' = "run"
  /\ UNCHANGED <<disk, mounted, nvs, memory, target, download, history>>

\* save() or backup(), flush and close.
Write ==
  /\ pc = "write"
  /\ disk' = [disk EXCEPT ![TmpOf(target)] = Whole(shades)]
  /\ pc' = "written"
  /\ UNCHANGED <<mounted, nvs, memory, target, download, count, history>>

\* end() after a failed write drops the .tmp and keeps the file.
WriteFaulty ==
  /\ pc = "write" /\ Happens("fault")
  /\ disk' = [disk EXCEPT ![TmpOf(target)] = Absent]
  /\ pc' = "run"
  /\ UNCHANGED <<mounted, nvs, memory, target, download, history>>

\* end(): the file goes, the .tmp takes its name.
Remove ==
  /\ pc = "written"
  /\ disk' = [disk EXCEPT ![target] = Absent]
  /\ pc' = "removed"
  /\ UNCHANGED <<mounted, nvs, memory, target, download, count, history>>

\* Bug: a commit leaves its changes dirty.
RenameStillDirty ==
  /\ pc = "removed"
  /\ disk' = [disk EXCEPT ![target] = disk[TmpOf(target)], ![TmpOf(target)] = Absent]
  /\ pc' = "run"
  /\ IF target = "cfg"
     THEN kept' = shades.edit /\ trusted' = TRUE /\ UNCHANGED download
     ELSE download' = disk'["backup"] /\ UNCHANGED history
  /\ UNCHANGED <<mounted, nvs, memory, target, count>>

Rename ==
  /\ pc = "removed"
  /\ disk' = [disk EXCEPT ![target] = disk[TmpOf(target)], ![TmpOf(target)] = Absent]
  /\ pc' = "run"
  /\ IF target = "cfg"
     THEN isDirty' = FALSE /\ kept' = shades.edit /\ trusted' = TRUE /\ UNCHANGED download
     ELSE download' = disk'["backup"] /\ UNCHANGED <<isDirty, history>>
  /\ UNCHANGED <<mounted, nvs, shades, lockFS, target, count>>

-----------------------------------------------------------------------------
(* A new file system image: an upload, or a recovery from GitHub.          *)

FlashBegin ==
  /\ pc = "run" /\ ~lockFS /\ Happens("flash")
  /\ lockFS' = TRUE /\ disk' = Empty /\ mounted' = FALSE /\ trusted' = FALSE
  /\ UNCHANGED <<nvs, shades, isDirty, pc, target, download, kept>>

\* Bug: only what is dirty is written back.
FlashEndDirtyOnly ==
  /\ pc = "run" /\ lockFS
  /\ lockFS' = FALSE /\ mounted' = TRUE
  /\ UNCHANGED <<disk, nvs, shades, isDirty, pc, target, download, count, history>>

\* commitAfterFsFlash(): the new image, or a fresh file system when the flash
\* failed; neither holds shades, and those in memory are written into it.
FlashEnd ==
  /\ pc = "run" /\ lockFS
  /\ lockFS' = FALSE /\ mounted' = TRUE
  /\ pc' = "open" /\ target' = "cfg"
  /\ UNCHANGED <<disk, nvs, shades, isDirty, download, count, history>>

\* The format fails too.
FlashEndFaulty ==
  /\ pc = "run" /\ lockFS /\ Happens("fault")
  /\ lockFS' = FALSE
  /\ UNCHANGED <<disk, mounted, nvs, shades, isDirty, pc, target, download, history>>

-----------------------------------------------------------------------------
(* The environment.                                                        *)

\* A power cut or a reset, between any two steps; the image may be complete.
PowerCut ==
  /\ pc # "off" /\ Happens("cut")
  /\ pc' = "off" /\ shades' = NoShades /\ isDirty' = FALSE /\ lockFS' = FALSE
  /\ mounted' \in {mounted, mounted \/ lockFS}
  /\ UNCHANGED <<disk, nvs, target, download, history>>

\* A file becomes unreadable on flash.
Spoil ==
  /\ Happens("spoil")
  /\ \E f \in {"cfg", "backup"} :
       /\ disk[f].is = "whole" /\ disk' = [disk EXCEPT ![f] = Torn]
       /\ trusted' = (trusted /\ f # "cfg")
  /\ UNCHANGED <<mounted, nvs, memory, pc, target, download, kept>>

-----------------------------------------------------------------------------
Boot == BootLoad \/ BootUnmounted \/ BootDropBad \/ BootSetAside \/ BootFallback
Save == Open \/ OpenFails \/ Write \/ Remove \/ Rename
Fault == OpenFaulty \/ WriteFaulty \/ FlashEndFaulty \/ PowerCut \/ Spoil
Next ==
  \/ Boot \/ Save \/ Fault \/ Edit \/ Send \/ LoopCommit \/ Backup \/ Restore
  \/ FlashBegin \/ FlashEnd

Spec == Init /\ [][Next]_vars

\* The device boots, a save runs to its end, the loop comes back to what is
\* dirty, and a flash ends or is abandoned after 15 s (abortStalledOta()).
FairSpec ==
  /\ Spec
  /\ WF_vars(Boot) /\ WF_vars(Save) /\ WF_vars(LoopCommit) /\ WF_vars(FlashEnd)

-----------------------------------------------------------------------------
(* Properties.                                                             *)

Content == [is : {"absent", "torn", "whole"}, edit : 0 .. MaxEdits, code : 0 .. CodeSpan - 1]

TypeOK ==
  /\ disk \in [Files -> Content] /\ mounted \in BOOLEAN /\ nvs \in 0 .. CodeSpan - 1
  /\ shades \in [edit : 0 .. MaxEdits, code : 0 .. CodeSpan - 1]
  /\ isDirty \in BOOLEAN /\ lockFS \in BOOLEAN
  /\ pc \in {"off", "unreadable", "fallback", "run", "open", "write", "written", "removed"}
  /\ target \in {"cfg", "backup"} /\ download \in Content
  /\ count \in [DOMAIN Limit -> Nat] /\ \A e \in DOMAIN Limit : count[e] <= Limit[e]
  /\ kept \in 0 .. MaxEdits /\ trusted \in BOOLEAN
  /\ pc \in {"written", "removed"} => disk[TmpOf(target)] = Whole(shades)

\* The edit a device that boots now comes up with.
Bootable ==
  LET cfg == Promoted(disk)["cfg"] IN
  CASE ~mounted -> 0
    [] mounted /\ cfg.is = "torn" /\ disk["backup"].is = "whole" -> disk["backup"].edit
    [] OTHER -> cfg.edit

(* A power cut between any two steps of a save, of a boot or of a failed   *)
(* write never costs a save that was complete: whatever is on flash, the   *)
(* next boot finds that save or a later one (end(): "a power loss while    *)
(* writing leaves the previous file untouched").                           *)
SaveSurvives == trusted => Bootable >= kept

(* No rolling code is sent twice and none is skipped, through cuts between *)
(* a send and a save, restores of older backups and boots from whatever is *)
(* left ("Rolling codes come back as max(backup, NVS), never behind").     *)
NeverBehind == nvs = count["send"] % CodeSpan

(* What is dirty is saved in the end, although opens and writes may fail,  *)
(* backups and flashes come in between and commits are refused meanwhile;  *)
(* unless the device restarts or has no file system left.                  *)
DirtyIsSaved == isDirty ~> (~isDirty \/ ~mounted)

(* A flash of the file system, successful or not, ends with the shades of  *)
(* memory on it, those changed while commits were refused included, unless *)
(* it is cut or the new file system fails too.                             *)
FlashKeepsShades ==
  lockFS ~> (Bootable = shades.edit \/ pc = "off" \/ count["fault"] > 0)

=============================================================================
