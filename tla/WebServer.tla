----------------------------- MODULE WebServer ------------------------------
(***************************************************************************)
(* What lasts longer than one call in the asynchronous web server: uploads *)
(* of images and of configurations, one at a time, whose chunks interleave *)
(* with all other requests; and files, of which a few are sent at a time,  *)
(* the other requests waiting.  Its task runs one handler after the other; *)
(* the loop aborts a flash that stalls and reboots.                        *)
(*                                                                         *)
(* Every request is an authorised one with one file.  Time is counted in   *)
(* the 15 s of a stall.                                                    *)
(***************************************************************************)
EXTENDS Integers, FiniteSets

CONSTANTS
  Stall, Takeover,   \* 15 s, 30 s
  MaxXfer,      \* ASYNC_MAX_FILE_XFER
  MaxPending,   \* ASYNC_MAX_PENDING
  Chunks,       \* of an upload
  MaxRequests,  \* bound: requests of all clients
  MaxUploads    \* bound: uploads at a time

ASSUME WebServerAssumption ==
  /\ Stall \in Nat \ {0} /\ Takeover \in Nat /\ Stall <= Takeover
  /\ MaxXfer \in Nat \ {0} /\ MaxPending \in Nat /\ Chunks \in Nat \ {0} /\ MaxRequests \in Nat
  /\ MaxUploads \in Nat

VARIABLES
  request,      \* what for, how far, which disconnection callback
  active,       \* g_activeXfer
  pending,      \* g_pending
  gate,         \* g_uploadOwner, g_asyncUploadAuth, g_otaFlashing, g_otaIsFs, ...
  quiet,        \* time since the last chunk of the owner, if there is one
  device,       \* git.lockFS, otaInProgress, radio and MQTT at work, rebootDelay.reboot
  written,      \* the image and /shades.tmp: which requests wrote them, how many chunks
  kept,         \* the shades are in the file system
  count,        \* counter of the bound
  history       \* what the properties need to know of the past

files == <<active, pending>>
vars == <<request, files, gate, quiet, device, written, kept, count, history>>

Requests == 1 .. MaxRequests
Nobody == 0
Slots == 1 .. MaxPending
Images == {"firmware", "filesystem"}
Configs == {"shades", "restore"}
NoRequest == [for |-> "none", at |-> "none", then |-> "none", slot |-> 0, sent |-> 0]
Gate == [owner |-> Nobody, healthy |-> FALSE, flashing |-> FALSE, isFs |-> FALSE,
         success |-> FALSE]
Device == [lockFS |-> FALSE, inProgress |-> FALSE, works |-> TRUE, reboot |-> FALSE]
Nothing == [by |-> {}, chunks |-> 0]

Init ==
  /\ request = [c \in Requests |-> NoRequest] /\ active = 0 /\ pending = [i \in Slots |-> Nobody]
  /\ gate = Gate /\ quiet = 0 /\ device = Device
  /\ written = [image |-> Nothing, tmp |-> Nothing] /\ kept = TRUE /\ count = 0
  /\ history = [recovered |-> FALSE, unanswered |-> FALSE, missed |-> FALSE, cut |-> FALSE]

Flashes(g) == g.flashing /\ g.isFs

-----------------------------------------------------------------------------
(* Files.                                                                  *)

Put(c, r) == request' = [request EXCEPT ![c] = r]

\* startFileTransfer(): a file that is not there takes no slot, and leaves the
\* callback as it is.
Started(r) ==
  IF r.for = "missing" THEN [r EXCEPT !.at = "answered"] ELSE [r EXCEPT !.at = "serving", !.then = "done"]

Load(r) == IF r.for = "missing" THEN 0 ELSE 1

\* serveFileGated()
AskFile(c, r) ==
  LET free == {i \in Slots : pending[i] = Nobody}
  IN
  \/ (device.lockFS \/ (active >= MaxXfer /\ free = {})) /\ Put(c, [r EXCEPT !.at = "answered"])
     /\ UNCHANGED files
  \/ ~device.lockFS /\ active < MaxXfer /\ Put(c, Started(r)) /\ active' = active + Load(r)
     /\ UNCHANGED pending
  \/ /\ ~device.lockFS /\ active >= MaxXfer
     /\ \E i \in free :
          /\ \A j \in free : i <= j
          /\ pending' = [pending EXCEPT ![i] = c] /\ Put(c, [r EXCEPT !.at = "queued", !.then = "leave", !.slot = i])
     /\ UNCHANGED active

\* Bug: the first slot is never looked at.
WaitingButFirst == {i \in Slots : i > 1 /\ pending[i] # Nobody}

Waiting == {i \in Slots : pending[i] # Nobody}

\* onFileTransferDone()
NextTransfer(c) ==
  \/ Waiting = {} /\ active' = active - 1 /\ Put(c, NoRequest) /\ UNCHANGED pending
  \/ \E i \in Waiting :
       /\ \A j \in Waiting : i <= j
       /\ pending' = [pending EXCEPT ![i] = Nobody]
       /\ active' = active - 1 + Load(request[pending[i]])
       /\ request' = [request EXCEPT ![c] = NoRequest, ![pending[i]] = Started(request[pending[i]])]

-----------------------------------------------------------------------------
(* Uploads.                                                                *)

Claimable(c) == gate.owner \in {Nobody, c} \/ (~gate.flashing /\ quiet >= Takeover)

\* uploadClaim()
Claimed(c) == [gate EXCEPT !.owner = c, !.healthy = TRUE, !.success = FALSE]

\* uploadOwned()
Owned(g, c) == g.owner = c /\ g.healthy

Ended(g) == [g EXCEPT !.flashing = FALSE, !.isFs = FALSE]

\* Bug: a flash that fails leaves the device as one that succeeds does.
FinishAlike(g, ok) ==
  /\ device' = [device EXCEPT !.lockFS = FALSE, !.inProgress = FALSE, !.works = FALSE]
  /\ kept' = TRUE

\* otaFinish(): a flash of the file system ends with the shades written back,
\* one that failed with the radio and MQTT back at work.
Finish(g, ok) ==
  /\ device' = [device EXCEPT !.lockFS = IF g.isFs THEN FALSE ELSE @, !.inProgress = FALSE,
                              !.works = ~ok]
  /\ kept' = (kept \/ g.isFs)

Stored(where, c, r) ==
  LET w == IF r.sent = 0 THEN Nothing ELSE written[where]
  IN written' = [written EXCEPT ![where] = [by |-> w.by \union {c}, chunks |-> w.chunks + 1]]

\* Writing a chunk of an image, the end of the flash with the last.
Flash(g, c, r, dev, final) ==
  \/ /\ ~final /\ Stored("image", c, r) /\ gate' = g /\ device' = dev
     /\ kept' = (kept /\ ~g.isFs)
  \/ /\ final /\ Stored("image", c, r)
     /\ \E ok \in BOOLEAN :
          gate' = Ended([g EXCEPT !.healthy = ok, !.success = ok]) /\ Finish(g, ok)
  \/ UNCHANGED written /\ gate' = Ended([g EXCEPT !.healthy = FALSE]) /\ Finish(g, FALSE)

Busy(what) ==
  [device EXCEPT !.works = FALSE, !.inProgress = TRUE, !.lockFS = @ \/ what = "filesystem"]

\* asyncOtaUpload()
ImageChunk(c, r, final) ==
  LET first == r.sent = 0
      g == IF first THEN Claimed(c) ELSE gate
      begun == [g EXCEPT !.flashing = TRUE, !.isFs = r.for = "filesystem"]
  IN
  IF first
  THEN \/ gate' = [g EXCEPT !.healthy = FALSE] /\ UNCHANGED <<device, written, kept>>
       \/ ~gate.flashing /\ Flash(begun, c, r, Busy(r.for), final)
  ELSE IF Owned(gate, c) /\ gate.flashing THEN Flash(gate, c, r, device, final)
  ELSE UNCHANGED <<gate, device, written, kept>>

\* asyncShadeConfigUpload() and asyncRestoreUpload(): a chunk that cannot be
\* written spoils the upload.  A file of shades is loaded with its last chunk,
\* if it is whole; the other is kept for the answer.
ConfigChunk(c, r, final) ==
  LET g == IF r.sent = 0 THEN Claimed(c) ELSE gate
      spoilt == [g EXCEPT !.healthy = FALSE]
  IN
  /\ UNCHANGED <<device, kept>>
  /\ IF (r.sent = 0 /\ device.lockFS) \/ ~Owned(g, c)
     THEN gate' = (IF r.sent = 0 THEN spoilt ELSE g) /\ UNCHANGED written
     ELSE \/ Stored("tmp", c, r)
             /\ gate' = [g EXCEPT !.success = @ \/ (final /\ r.for = "restore")]
          \/ gate' = spoilt /\ UNCHANGED written

Chunk(c) ==
  LET r == request[c]
      final == r.sent + 1 = Chunks
      mine == r.sent = 0 /\ Claimable(c)
  IN
  /\ r.at = "sending"
  /\ Put(c, [r EXCEPT !.sent = @ + 1, !.at = IF final THEN "sent" ELSE @,
                      !.then = IF mine THEN "upload" ELSE @])
  /\ IF r.sent = 0 /\ ~mine
     THEN UNCHANGED <<gate, quiet, device, written, kept>>
     ELSE /\ IF r.for \in Images THEN ImageChunk(c, r, final) ELSE ConfigChunk(c, r, final)
          /\ quiet' = IF mine \/ Owned(gate, c) THEN 0 ELSE quiet
  /\ history' = [history EXCEPT
       !.unanswered = @ \/ (mine /\ ~device.works /\ ~device.reboot /\ ~gate.flashing)]
  /\ UNCHANGED <<files, count>>

\* Bug: a success is anybody's.
SucceededAny(c) == gate.success

Succeeded(c) == gate.owner = c /\ gate.success

\* asyncOtaRespond(), and the handler of /restore, which restores.
Respond(c) ==
  LET r == request[c]
      ok == r.for # "shades" /\ Succeeded(c)
  IN
  /\ r.at = "sent" /\ Put(c, [r EXCEPT !.at = "answered"])
  /\ device' = [device EXCEPT !.reboot = @ \/ ok]
  /\ UNCHANGED <<files, gate, quiet, written, kept, count, history>>

-----------------------------------------------------------------------------
(* The end of a connection, whoever ends it.                               *)

\* The callback of uploadClaim().  What is left of the gate without an owner is
\* not read again.
Dropped(c) ==
  IF gate.owner # c THEN UNCHANGED <<gate, device, kept>>
  ELSE /\ gate' = Gate
       /\ IF gate.flashing THEN Finish(gate, FALSE) ELSE UNCHANGED <<device, kept>>

\* Bug: who gives up waiting is forgotten by nobody.
LeaveQueueNot(i) == UNCHANGED pending

LeaveQueue(i) == pending' = [pending EXCEPT ![i] = Nobody]

Disconnect(c) ==
  LET r == request[c]
  IN
  /\ r.at # "none"
  /\ \/ r.then = "none" /\ Put(c, NoRequest) /\ UNCHANGED <<files, gate, device, kept>>
     \/ r.then = "done" /\ NextTransfer(c) /\ UNCHANGED <<gate, device, kept>>
     \/ r.then = "leave" /\ LeaveQueue(r.slot) /\ Put(c, NoRequest)
        /\ UNCHANGED <<active, gate, device, kept>>
     \/ r.then = "upload" /\ Dropped(c) /\ Put(c, NoRequest) /\ UNCHANGED files
  /\ history' = [history EXCEPT
       !.unanswered = @ \/ (r.at = "sent" /\ gate.success /\ gate.owner = c /\ ~device.works),
       !.missed = @ \/ (\E d \in Requests : request[d].for = "missing" /\ request[d].at = "queued")]
  /\ quiet' = IF gate'.owner = Nobody THEN 0 ELSE quiet
  /\ UNCHANGED <<written, count>>

-----------------------------------------------------------------------------
Ask(what) ==
  /\ count < MaxRequests /\ count' = count + 1
  /\ LET r == [NoRequest EXCEPT !.for = what]
     IN IF what \in {"file", "missing"} THEN AskFile(count', r)
        ELSE /\ Cardinality({c \in Requests : request[c].at \in {"sending", "sent"}}) < MaxUploads
             /\ Put(count', [r EXCEPT !.at = "sending"])
             /\ UNCHANGED files
  /\ UNCHANGED <<gate, quiet, device, written, kept, history>>

\* /recoverFilesystem, which does not look for an upload: the update it tries
\* then cannot begin, but the file system is unlocked and written to.
Recover ==
  /\ count < MaxRequests /\ count' = count + 1 /\ Flashes(gate)
  /\ device' = [device EXCEPT !.lockFS = FALSE]
  /\ history' = [history EXCEPT !.recovered = TRUE]
  /\ UNCHANGED <<request, files, gate, quiet, written, kept>>

\* /reboot
AskReboot ==
  /\ count < MaxRequests /\ count' = count + 1
  /\ ~device.reboot /\ device' = [device EXCEPT !.reboot = TRUE]
  /\ UNCHANGED <<request, files, gate, quiet, written, kept, history>>

Stalled == device.inProgress /\ gate.flashing /\ quiet >= Stall

\* abortStalledOta()
AbortStalled ==
  /\ Stalled
  /\ gate' = Ended([gate EXCEPT !.healthy = FALSE]) /\ Finish(gate, FALSE)
  /\ UNCHANGED <<request, files, quiet, written, count, history>>

\* The armed reboot comes, whatever goes on; nothing is asked for after it.
Reboot ==
  /\ device.reboot
  /\ request' = [c \in Requests |-> NoRequest] /\ active' = 0 /\ pending' = [i \in Slots |-> Nobody]
  /\ gate' = Gate /\ quiet' = 0 /\ device' = Device
  /\ written' = [image |-> Nothing, tmp |-> Nothing] /\ count' = MaxRequests
  /\ history' = [history EXCEPT !.cut = @ \/ Flashes(gate)]
  /\ UNCHANGED kept

Tick ==
  /\ quiet < Takeover /\ gate.owner # Nobody /\ quiet' = quiet + 1
  /\ UNCHANGED <<request, files, gate, device, written, kept, count, history>>

Next ==
  \/ \E c \in Requests : Chunk(c) \/ Respond(c) \/ Disconnect(c)
  \/ \E what \in Images \union Configs \union {"file", "missing"} : Ask(what)
  \/ Recover \/ AskReboot \/ AbortStalled \/ Reboot \/ Tick

Spec == Init /\ [][Next]_vars

\* The loop turns, time passes, answers are given and their connections closed;
\* a client that uploads may be silent for ever.
FairSpec ==
  /\ Spec /\ WF_vars(AbortStalled) /\ WF_vars(Reboot) /\ WF_vars(Tick)
  /\ WF_vars(\E c \in Requests :
               Respond(c) \/ (request[c].at \in {"serving", "answered"} /\ Disconnect(c)))

-----------------------------------------------------------------------------
(* Properties.                                                             *)

TypeOK ==
  /\ request \in [Requests -> [for : {"none", "file", "missing"} \union Images \union Configs,
                              at : {"none", "queued", "serving", "answered", "sending", "sent"},
                              then : {"none", "done", "upload", "leave"}, slot : 0 .. MaxPending,
                              sent : 0 .. Chunks]]
  /\ active \in 0 .. MaxXfer /\ pending \in [Slots -> Requests \union {Nobody}]
  /\ gate \in [owner : Requests \union {Nobody}, healthy : BOOLEAN, flashing : BOOLEAN,
               isFs : BOOLEAN, success : BOOLEAN]
  /\ quiet \in 0 .. Takeover /\ count \in 0 .. MaxRequests /\ kept \in BOOLEAN
  /\ device \in [lockFS : BOOLEAN, inProgress : BOOLEAN, works : BOOLEAN, reboot : BOOLEAN]
  /\ active = Cardinality({c \in Requests : request[c].at = "serving"})

(* What is flashed or stored comes from one request, however many send     *)
(* theirs, stall, take over and come back meanwhile.                       *)
OneWriter == \A w \in {"image", "tmp"} : Cardinality(written[w].by) <= 1

(* Shades are loaded with the last chunk of a request, and success is      *)
(* answered and a backup restored, only for the whole file of the request. *)
WholeFile(c) ==
  written'[IF request[c].for \in Images THEN "image" ELSE "tmp"] = [by |-> {c}, chunks |-> Chunks]
DeedsOfTheWhole ==
  [][\A c \in Requests :
       /\ request[c].for = "shades" /\ request[c].at = "sending" /\ request'[c].at = "sent"
            /\ Owned(gate', c) => WholeFile(c)
       /\ request[c].at = "sent" /\ request'[c].at = "answered" /\ device'.reboot # device.reboot
            => WholeFile(c)]_vars

(* However a flash of the file system ends, the shades are in it, unless   *)
(* the device was rebooted in the middle.                                  *)
ShadesKept == kept \/ Flashes(gate) \/ history.cut

(* A request that waits for its file is where the server looks for it, and *)
(* one that is gone is not: its object is destroyed and "must never be     *)
(* touched again".                                                         *)
NoneGoneIsWaiting == \A i \in Slots : pending[i] # Nobody => request[pending[i]].at = "queued"

(* No file is read or written while the file system is flashed ("... while *)
(* the LittleFS partition is rewritten"): it is locked to every save, but  *)
(* for a recovery asked for meanwhile, which unlocks it.                   *)
LockedWhileFlashing == Flashes(gate) => device.lockFS \/ history.recovered

(* Whatever requests, chunks and disconnections interleave.                *)
UploadsSafe == TypeOK /\ OneWriter /\ ShadesKept /\ NoneGoneIsWaiting /\ LockedWhileFlashing

(* Every upload of an image ends, also when its client falls silent with   *)
(* the connection open, and radio and MQTT come back, by the failure or by *)
(* the reboot; unless the client was gone, or silent until another took over,  *)
(* between its last byte and its answer.                                   *)
BackToWork == ~device.works ~> (device.works \/ device.reboot \/ history.unanswered)

(* Whoever waits for a file is served in the end, unless one that does    *)
(* not exist was waited for: it ends the chain.                            *)
Served ==
  <>[](history.missed \/ \A c \in Requests : request[c].at # "queued")

=============================================================================
