---------------------------- MODULE WebServerProofs ----------------------------
(***************************************************************************)
(* WebServer proved for any numbers of requests, chunks and slots: one     *)
(* writer, what is done for a whole file only, the shades kept and the     *)
(* file system locked, and no request that is gone waiting for a file.     *)
(***************************************************************************)
EXTENDS WebServer, FiniteSetTheorems, TLAPS

Uploads == Images \union Configs

\* The callback a request has, and how far its upload is.
Consistent(r) ==
  /\ r.then = "done" <=> r.at = "serving"
  /\ r.at = "queued" => r.then = "leave"
  /\ r.at = "sending" => r.sent < Chunks /\ r.for \in Uploads
  /\ r.at = "sent" => r.sent = Chunks

Callbacks == \A c \in Requests : Consistent(request[c]) /\ (c > count => request[c] = NoRequest)

\* A request that waits is in the slot it knows.
Places ==
  \A i \in Slots : pending[i] # Nobody =>
    request[pending[i]].at = "queued" /\ request[pending[i]].slot = i

Whole(c, n) == [by |-> {c}, chunks |-> n]

\* The owner of the gate has sent something and clears the gate when it is gone.
OwnerUploads ==
  gate.owner # Nobody =>
    /\ request[gate.owner].then = "upload" /\ request[gate.owner].sent > 0
    /\ request[gate.owner].for \in Uploads

\* What is flashed is what its owner has sent so far.
FlashesOwn ==
  gate.flashing =>
    /\ gate.owner # Nobody /\ gate.healthy /\ request[gate.owner].for \in Images
    /\ written["image"] = Whole(gate.owner, request[gate.owner].sent)

\* So is what is stored, as long as the upload is healthy.
StoresOwn ==
  gate.owner # Nobody /\ gate.healthy /\ request[gate.owner].for \in Configs =>
    written["tmp"] = Whole(gate.owner, request[gate.owner].sent)

\* A success is about the whole file.
SuccessWhole ==
  gate.owner # Nobody /\ gate.success =>
    /\ request[gate.owner].at # "sending" /\ ~gate.flashing
    /\ written[IF request[gate.owner].for \in Images THEN "image" ELSE "tmp"] = Whole(gate.owner, Chunks)

\* At most one request wrote it.
Single(w) == w.by = {} \/ \E c \in Requests : w.by = {c}

GateInv ==
  /\ OwnerUploads /\ FlashesOwn /\ StoresOwn /\ SuccessWhole
  /\ Single(written["image"]) /\ Single(written["tmp"])
  /\ ShadesKept /\ LockedWhileFlashing

\* What has been written and what the properties remember.
Writings == [by : SUBSET Requests, chunks : Nat]
Histories == [recovered : BOOLEAN, unanswered : BOOLEAN, missed : BOOLEAN, cut : BOOLEAN]
Past ==
  /\ written \in [{"image", "tmp"} -> Writings] /\ history \in Histories

\* The inductive invariant.
IInv == TypeOK /\ Past /\ Callbacks /\ Places /\ GateInv

-----------------------------------------------------------------------------
\* The types of TypeOK, named.
Request ==
  [for : {"none", "file", "missing"} \union Uploads,
   at : {"none", "queued", "serving", "answered", "sending", "sent"},
   then : {"none", "done", "upload", "leave"}, slot : 0 .. MaxPending, sent : 0 .. Chunks]
Gates ==
  [owner : Requests \union {Nobody}, healthy : BOOLEAN, flashing : BOOLEAN, isFs : BOOLEAN,
   success : BOOLEAN]
Devices == [lockFS : BOOLEAN, inProgress : BOOLEAN, works : BOOLEAN, reboot : BOOLEAN]
Serving == {c \in Requests : request[c].at = "serving"}

LEMMA Bounds ==
  /\ Stall \in Nat /\ Takeover \in Nat /\ MaxXfer \in Nat /\ MaxXfer > 0 /\ MaxPending \in Nat
  /\ Chunks \in Nat /\ Chunks > 0 /\ MaxRequests \in Nat
  /\ \A c \in Requests : c \in Nat /\ c # Nobody
BY WebServerAssumption DEF WebServerAssumption, Requests, Nobody

\* TypeOK in parts.
Typed ==
  /\ request \in [Requests -> Request] /\ pending \in [Slots -> Requests \union {Nobody}]
  /\ gate \in Gates /\ device \in Devices
  /\ quiet \in 0 .. Takeover /\ count \in 0 .. MaxRequests /\ kept \in BOOLEAN
Counted == active \in 0 .. MaxXfer /\ active = Cardinality(Serving)

LEMMA Parts == TypeOK <=> Typed /\ Counted
BY DEF TypeOK, Typed, Counted, Request, Uploads, Gates, Devices, Serving

\* How many are served, when one more or one less is.
LEMMA ServedOnes ==
  /\ IsFiniteSet(Serving) /\ Cardinality(Serving) \in Nat
  /\ IsFiniteSet(Serving') /\ Cardinality(Serving') \in Nat
<1>1. IsFiniteSet(Requests)
  BY Bounds, FS_Interval DEF Requests
<1>2. Serving \in SUBSET Requests /\ Serving' \in SUBSET Requests
  BY DEF Serving
<1>3. IsFiniteSet(Serving) /\ IsFiniteSet(Serving')
  BY <1>1, <1>2, FS_Subset
<1>4. QED
  BY <1>3, FS_CardinalityType

LEMMA InitInv == Init => IInv
<1> SUFFICES ASSUME Init PROVE IInv
  OBVIOUS
<1>1. Typed
  <2>1. NoRequest \in Request
    BY Bounds DEF NoRequest, Request
  <2>2. gate \in Gates /\ device \in Devices
    BY DEF Init, Gate, Gates, Device, Devices
  <2>3. QED
    BY <2>1, <2>2, Bounds DEF Init, Typed
<1>2. Counted
  <2>1. Serving = {}
    BY DEF Init, Serving, NoRequest
  <2>2. QED
    BY <2>1, FS_EmptySet, Bounds DEF Init, Counted
<1>3. Past
  <2>1. Nothing \in Writings /\ history \in Histories
    BY DEF Init, Nothing, Writings, Histories
  <2>2. QED
    BY <2>1 DEF Init, Past
<1>4. Callbacks /\ Places
  BY DEF Init, Callbacks, Consistent, Places, NoRequest
<1>5. GateInv
  BY DEF Init, GateInv, OwnerUploads, FlashesOwn, StoresOwn, SuccessWhole, Single, ShadesKept,
         LockedWhileFlashing, Flashes, Gate, Nothing
<1>6. QED
  BY <1>1, <1>2, <1>3, <1>4, <1>5, Parts DEF IInv

-----------------------------------------------------------------------------
(* The requests and their places.                                          *)

\* What a chunk does to its request.
LEMMA ChunkRequest ==
  ASSUME Typed, Callbacks, NEW c \in Requests, Chunk(c)
  PROVE  LET mine == request[c].sent = 0 /\ Claimable(c) IN
         /\ request[c].at = "sending" /\ request[c].sent < Chunks
         /\ request' \in [Requests -> Request] /\ \A d \in Requests : d # c => request'[d] = request[d]
         /\ request'[c].for = request[c].for /\ request'[c].slot = request[c].slot
         /\ request'[c].sent = request[c].sent + 1
         /\ request'[c].at = IF request[c].sent + 1 = Chunks THEN "sent" ELSE "sending"
         /\ request'[c].then = IF mine THEN "upload" ELSE request[c].then
         /\ UNCHANGED <<files, count>>
<1> DEFINE r == request[c]
           mine == r.sent = 0 /\ Claimable(c)
           final == r.sent + 1 = Chunks
           new == [r EXCEPT !.sent = @ + 1, !.at = IF final THEN "sent" ELSE @,
                            !.then = IF mine THEN "upload" ELSE @]
<1>1. r \in Request /\ r.at = "sending" /\ r.sent < Chunks /\ c \in DOMAIN request
  BY DEF Chunk, Callbacks, Consistent, Typed
<1>2. new \in Request
  <2> DEFINE one == [r EXCEPT !.sent = @ + 1]
             two == [one EXCEPT !.at = IF final THEN "sent" ELSE @]
             three == [two EXCEPT !.then = IF mine THEN "upload" ELSE @]
  <2>1. one \in Request
    <3>1. r.sent + 1 \in 0 .. Chunks
      BY <1>1, Bounds DEF Request
    <3>2. QED
      BY <1>1, <3>1 DEF Request
  <2>2. new = three
    BY <1>1 DEF Request
  <2> HIDE DEF one
  <2>3. two \in Request
    BY <2>1 DEF Request
  <2> HIDE DEF two
  <2>4. three \in Request
    BY <2>3 DEF Request
  <2>5. QED
    BY <2>2, <2>4
<1>3. request' = [request EXCEPT ![c] = new] /\ UNCHANGED <<files, count>>
  BY DEF Chunk, Put
<1>4. /\ new.for = r.for /\ new.slot = r.slot /\ new.sent = r.sent + 1
      /\ new.at = (IF final THEN "sent" ELSE "sending") /\ new.then = IF mine THEN "upload" ELSE r.then
  BY <1>1 DEF Request
<1> HIDE DEF new
<1>5. request' \in [Requests -> Request] /\ request'[c] = new /\ \A d \in Requests : d # c => request'[d] = request[d]
  BY <1>2, <1>3 DEF Typed
<1>6. QED
  BY <1>1, <1>3, <1>4, <1>5

\* What it means for one request to change.
LEMMA OneRequest ==
  ASSUME Typed, NEW c \in Requests, NEW r \in Request, request' = [request EXCEPT ![c] = r]
  PROVE  /\ request' \in [Requests -> Request] /\ request'[c] = r
         /\ \A d \in Requests : d # c => request'[d] = request[d]
BY DEF Typed

LEMMA OneServed ==
  ASSUME NEW c \in Requests, \A d \in Requests : d # c => request'[d] = request[d]
  PROVE  LET was == request[c].at = "serving"
             is == request'[c].at = "serving"
         IN /\ (was <=> is) => Cardinality(Serving') = Cardinality(Serving)
            /\ ~was /\ is => Cardinality(Serving') = Cardinality(Serving) + 1
            /\ was /\ ~is => Cardinality(Serving') = Cardinality(Serving) - 1
<1> DEFINE was == request[c].at = "serving"
           is == request'[c].at = "serving"
<1>1. ASSUME was <=> is PROVE Cardinality(Serving') = Cardinality(Serving)
  <2>1. Serving' = Serving
    BY <1>1 DEF Serving
  <2>2. QED
    BY <2>1
<1>2. ASSUME ~was, is PROVE Cardinality(Serving') = Cardinality(Serving) + 1
  <2>1. Serving' = Serving \union {c} /\ c \notin Serving
    BY <1>2 DEF Serving
  <2>2. QED
    BY <2>1, ServedOnes, FS_AddElement
<1>3. ASSUME was, ~is PROVE Cardinality(Serving') = Cardinality(Serving) - 1
  <2>1. Serving' = Serving \ {c} /\ c \in Serving
    BY <1>3 DEF Serving
  <2>2. QED
    BY <2>1, ServedOnes, FS_RemoveElement
<1>4. QED
  BY <1>1, <1>2, <1>3

\* The part of the invariant that is about requests and files.
Queue ==
  /\ request \in [Requests -> Request] /\ pending \in [Slots -> Requests \union {Nobody}]
  /\ count \in 0 .. MaxRequests /\ Counted /\ Callbacks /\ Places

\* A request that is in no slot goes on, served neither before nor after.
LEMMA GoesOn ==
  ASSUME Typed, Queue, NEW c \in Requests, request'[c] \in Request, request' \in [Requests -> Request],
         \A d \in Requests : d # c => request'[d] = request[d],
         request[c].at \notin {"none", "queued", "serving"}, request'[c].at # "serving",
         Consistent(request'[c]), UNCHANGED <<files, count>>
  PROVE  Queue'
<1>1. UNCHANGED <<active, pending, count>>
  BY DEF files
<1>2. Counted'
  BY <1>1, OneServed DEF Counted, Queue
<1>3. Callbacks'
  BY <1>1 DEF Callbacks, Queue, NoRequest
<1>4. Places'
  BY <1>1 DEF Places, Queue
<1>5. QED
  BY <1>1, <1>2, <1>3, <1>4 DEF Queue

LEMMA ChunkQueue == ASSUME Typed, Queue, NEW c \in Requests, Chunk(c) PROVE Queue'
<1>1. Callbacks
  BY DEF Queue
<1>2. request[c].then # "done" /\ request[c].for \in Uploads /\ request[c].sent \in Nat
  BY <1>1, ChunkRequest DEF Callbacks, Consistent, Typed, Request
<1>3. Consistent(request'[c])
  BY <1>1, <1>2, ChunkRequest, Bounds DEF Consistent
<1>4. QED
  BY <1>1, <1>3, ChunkRequest, GoesOn

LEMMA RespondQueue == ASSUME Typed, Queue, NEW c \in Requests, Respond(c) PROVE Queue'
<1> DEFINE r == [request[c] EXCEPT !.at = "answered"]
<1>1. request[c] \in Request /\ request[c].at = "sent" /\ request[c].then # "done"
  BY DEF Respond, Queue, Callbacks, Consistent
<1>2. r \in Request /\ r.at = "answered" /\ r.then = request[c].then
  BY <1>1 DEF Request
<1>3. request' = [request EXCEPT ![c] = r] /\ UNCHANGED <<files, count>>
  BY DEF Respond, Put
<1> HIDE DEF r
<1>4. Consistent(r)
  BY <1>1, <1>2 DEF Consistent
<1>5. QED
  BY <1>1, <1>2, <1>3, <1>4, OneRequest, GoesOn

LEMMA NoRequestFits == NoRequest \in Request /\ Consistent(NoRequest) /\ NoRequest.at = "none"
BY Bounds DEF NoRequest, Request, Consistent

\* A request that is not served is gone, from its slot too.
LEMMA Gone ==
  ASSUME Typed, Queue, NEW c \in Requests, request[c].at # "serving", Put(c, NoRequest),
         UNCHANGED <<active, count>>, pending' \in [Slots -> Requests \union {Nobody}],
         \A i \in Slots : pending'[i] # Nobody => pending'[i] = pending[i] /\ pending[i] # c
  PROVE  Queue'
<1>1. /\ request' \in [Requests -> Request] /\ request'[c] = NoRequest
      /\ \A d \in Requests : d # c => request'[d] = request[d]
  BY NoRequestFits, OneRequest DEF Put
<1>2. Counted'
  BY <1>1, NoRequestFits, OneServed DEF Counted, Queue
<1>3. Callbacks'
  BY <1>1, NoRequestFits DEF Callbacks, Queue
<1>4. Places'
  BY <1>1 DEF Places, Queue
<1>5. QED
  BY <1>1, <1>2, <1>3, <1>4 DEF Queue

\* What a transfer does to the request that starts.
LEMMA StartedFits ==
  ASSUME NEW r \in Request, r.then # "done"
  PROVE  /\ Started(r) \in Request /\ Consistent(Started(r))
         /\ Started(r).at = IF r.for = "missing" THEN "answered" ELSE "serving"
         /\ Load(r) = IF r.for = "missing" THEN 0 ELSE 1
<1>1. CASE r.for = "missing"
  BY <1>1 DEF Started, Request, Consistent, Load
<1>2. CASE r.for # "missing"
  <2> DEFINE one == [r EXCEPT !.at = "serving"]
             two == [one EXCEPT !.then = "done"]
  <2>1. one \in Request
    BY DEF Request
  <2>2. Started(r) = two
    BY <1>2 DEF Started, Request
  <2> HIDE DEF one
  <2>3. two \in Request
    BY <2>1 DEF Request
  <2>4. two.at = "serving" /\ two.then = "done"
    BY <1>2, <2>2 DEF Started, Request
  <2>5. QED
    BY <1>2, <2>2, <2>3, <2>4 DEF Consistent, Load
<1>3. QED
  BY <1>1, <1>2

\* The next transfer starts.
LEMMA NextQueue ==
  ASSUME Typed, Queue, NEW c \in Requests, request[c].then = "done", NextTransfer(c), UNCHANGED count
  PROVE  Queue'
<1>1. request[c].at = "serving" /\ active \in Nat /\ active = Cardinality(Serving) /\ active <= MaxXfer
  BY Bounds DEF Queue, Callbacks, Consistent, Counted
<1> DEFINE m == [request EXCEPT ![c] = NoRequest]
<1>2. /\ m \in [Requests -> Request] /\ m[c] = NoRequest
      /\ \A d \in Requests : d # c => m[d] = request[d]
  BY NoRequestFits DEF Typed
<1> DEFINE left == {d \in Requests : m[d].at = "serving"}
<1>3. left = Serving \ {c} /\ c \in Serving
  BY <1>1, <1>2, NoRequestFits DEF Serving
<1>4. IsFiniteSet(left) /\ Cardinality(left) = active - 1 /\ active - 1 \in Nat
  <2>1. IsFiniteSet(left) /\ Cardinality(left) = active - 1 /\ Cardinality(left) \in Nat
    BY <1>1, <1>3, ServedOnes, FS_RemoveElement, FS_CardinalityType
  <2>2. QED
    BY <2>1
<1> HIDE DEF m
<1>5. CASE Waiting = {} /\ active' = active - 1 /\ Put(c, NoRequest) /\ UNCHANGED pending
  <2>1. request' = m
    BY <1>5 DEF Put, m
  <2>2. Counted'
    <3>1. Serving' = left
      BY <2>1 DEF Serving
    <3>2. QED
      BY <1>1, <1>4, <1>5, <3>1, Bounds DEF Counted
  <2>3. Callbacks'
    BY <1>2, <2>1, NoRequestFits DEF Callbacks, Queue
  <2>4. Places'
    BY <1>5 DEF Places, Waiting
  <2>5. QED
    BY <1>2, <1>5, <2>1, <2>2, <2>3, <2>4 DEF Queue
<1>6. ASSUME NEW i \in Waiting, pending' = [pending EXCEPT ![i] = Nobody],
             active' = active - 1 + Load(request[pending[i]]),
             request' = [request EXCEPT ![c] = NoRequest,
                                        ![pending[i]] = Started(request[pending[i]])]
      PROVE  Queue'
  <2> DEFINE p == pending[i]
             s == Started(request[p])
  <2>1. i \in Slots /\ p \in Requests /\ request[p].at = "queued" /\ request[p].slot = i /\ p # c
    BY <1>1 DEF Waiting, Queue, Places
  <2>2. request[p] \in Request /\ request[p].then = "leave"
    BY <2>1 DEF Queue, Callbacks, Consistent
  <2>3. /\ s \in Request /\ Consistent(s) /\ s.at = IF Load(request[p]) = 1 THEN "serving" ELSE "answered"
        /\ Load(request[p]) \in {0, 1}
    BY <2>2, StartedFits
  <2>4. request' = [m EXCEPT ![p] = s]
    BY <1>6 DEF m
  <2>5. pending' \in [Slots -> Requests \union {Nobody}] /\ pending'[i] = Nobody
        /\ \A j \in Slots : j # i => pending'[j] = pending[j]
    BY <1>6, <2>1 DEF Queue
  <2>6. active' = active - 1 + Load(request[p])
    BY <1>6
  <2> HIDE DEF p, s
  <2>7. /\ request' \in [Requests -> Request] /\ request'[p] = s /\ request'[c] = NoRequest
        /\ \A d \in Requests : d # p /\ d # c => request'[d] = request[d]
    BY <1>2, <2>1, <2>3, <2>4
  <2>8. Counted'
    <3>1. p \notin left
      BY <1>2, <2>1
    <3>2. CASE Load(request[p]) = 1
      <4>1. Serving' = left \union {p}
        BY <1>2, <2>1, <2>3, <2>4, <3>2 DEF Serving
      <4>2. Cardinality(Serving') = active
        <5>1. Cardinality(Serving') = Cardinality(left) + 1
          BY <1>4, <3>1, <4>1, FS_AddElement
        <5>2. QED
          BY <1>1, <1>4, <5>1
      <4>3. QED
        BY <1>1, <2>6, <3>2, <4>2, Bounds DEF Counted
    <3>3. CASE Load(request[p]) = 0
      <4>1. Serving' = left
        BY <1>2, <2>1, <2>3, <2>4, <3>3 DEF Serving
      <4>2. QED
        BY <1>1, <1>4, <2>6, <3>3, <4>1, Bounds DEF Counted
    <3>4. QED
      BY <2>3, <3>2, <3>3
  <2>9. Callbacks'
    <3>1. ~(p > count) /\ ~(c > count)
      BY <1>1, <2>1, NoRequestFits DEF Queue, Callbacks
    <3>2. QED
      BY <2>3, <2>7, <3>1, NoRequestFits DEF Callbacks, Queue
  <2>10. Places'
    <3> SUFFICES ASSUME NEW j \in Slots, pending'[j] # Nobody
                 PROVE  request'[pending'[j]].at = "queued" /\ request'[pending'[j]].slot = j
      BY DEF Places
    <3>1. j # i /\ pending'[j] = pending[j] /\ pending[j] \in Requests
      BY <2>5 DEF Queue
    <3>2. request[pending[j]].at = "queued" /\ request[pending[j]].slot = j
      BY <3>1 DEF Queue, Places
    <3>3. pending[j] # p /\ pending[j] # c
      BY <1>1, <2>1, <3>1, <3>2
    <3>4. QED
      BY <2>7, <3>1, <3>2, <3>3
  <2>11. QED
    BY <2>5, <2>7, <2>8, <2>9, <2>10 DEF Queue
<1>7. QED
  BY <1>5, <1>6 DEF NextTransfer

LEMMA DisconnectQueue == ASSUME Typed, Queue, NEW c \in Requests, Disconnect(c) PROVE Queue'
<1> DEFINE r == request[c]
<1>1. UNCHANGED count
  BY DEF Disconnect
<1>2. Consistent(r) /\ (r.then # "done" => r.at # "serving")
  BY DEF Queue, Callbacks, Consistent
<1>3. r.then # "leave" => \A i \in Slots : pending[i] # Nobody => pending[i] # c
  BY <1>2 DEF Queue, Places, Consistent
<1>4. CASE r.then \in {"none", "upload"}
  <2>1. Put(c, NoRequest) /\ UNCHANGED files
    BY <1>4 DEF Disconnect
  <2>2. QED
    BY <1>1, <1>2, <1>3, <1>4, <2>1, Gone DEF files, Queue
<1>5. CASE r.then = "done"
  <2>1. NextTransfer(c)
    BY <1>5 DEF Disconnect
  <2>2. QED
    BY <1>1, <1>5, <2>1, NextQueue
<1>6. CASE r.then = "leave"
  <2>1. Put(c, NoRequest) /\ UNCHANGED active /\ pending' = [pending EXCEPT ![r.slot] = Nobody]
    BY <1>6 DEF Disconnect, LeaveQueue
  <2>2. /\ pending' \in [Slots -> Requests \union {Nobody}]
        /\ \A i \in Slots : pending'[i] # Nobody => pending'[i] = pending[i] /\ i # r.slot
    BY <2>1 DEF Queue
  <2>3. \A i \in Slots : pending'[i] # Nobody => pending[i] # c
    BY <2>2 DEF Queue, Places
  <2>4. QED
    BY <1>1, <1>2, <1>6, <2>1, <2>2, <2>3, Gone
<1>7. QED
  BY <1>4, <1>5, <1>6 DEF Queue, Request

\* What is asked for is nobody's before.
LEMMA NewRequest ==
  ASSUME Typed, Queue, count < MaxRequests, count' = count + 1, NEW r \in Request, Consistent(r),
         Put(count', r), active' = active + (IF r.at = "serving" THEN 1 ELSE 0), active' \in 0 .. MaxXfer,
         \/ UNCHANGED pending
         \/ \E i \in Slots : pending' = [pending EXCEPT ![i] = count'] /\ r.at = "queued" /\ r.slot = i
  PROVE  Queue'
<1>1. count' \in Requests /\ count \in Nat /\ request[count'] = NoRequest
  BY Bounds DEF Queue, Callbacks, Requests
<1>2. /\ request' \in [Requests -> Request] /\ request'[count'] = r
      /\ \A d \in Requests : d # count' => request'[d] = request[d]
  BY <1>1, OneRequest DEF Put
<1>3. Counted'
  <2>1. request[count'].at # "serving"
    BY <1>1, NoRequestFits
  <2>2. Cardinality(Serving') = Cardinality(Serving) + (IF r.at = "serving" THEN 1 ELSE 0)
    <3>1. CASE r.at = "serving"
      <4>1. request'[count'].at = "serving"
        BY <1>2, <3>1
      <4>2. Cardinality(Serving') = Cardinality(Serving) + 1
        BY <1>1, <1>2, <2>1, <4>1, OneServed
      <4>3. QED
        BY <3>1, <4>2
    <3>2. CASE r.at # "serving"
      <4>1. request'[count'].at # "serving"
        BY <1>2, <3>2
      <4>2. Cardinality(Serving') = Cardinality(Serving)
        BY <1>1, <1>2, <2>1, <4>1, OneServed
      <4>3. Cardinality(Serving) \in Nat
        BY ServedOnes
      <4>4. QED
        BY <3>2, <4>2, <4>3
    <3>3. QED
      BY <3>1, <3>2
  <2>3. QED
    BY <2>2 DEF Counted, Queue
<1>4. Callbacks'
  BY <1>1, <1>2, Bounds DEF Callbacks, Queue
<1>5. Places' /\ pending' \in [Slots -> Requests \union {Nobody}]
  <2>1. \A i \in Slots : pending[i] # Nobody => pending[i] # count'
    BY <1>1, NoRequestFits DEF Queue, Places
  <2>2. CASE UNCHANGED pending
    BY <1>2, <2>1, <2>2 DEF Queue, Places
  <2>3. ASSUME NEW i \in Slots, pending' = [pending EXCEPT ![i] = count'], r.at = "queued", r.slot = i
        PROVE  Places' /\ pending' \in [Slots -> Requests \union {Nobody}]
    <3>1. /\ pending' \in [Slots -> Requests \union {Nobody}] /\ pending'[i] = count'
          /\ \A j \in Slots : j # i => pending'[j] = pending[j]
      BY <1>1, <2>3 DEF Queue
    <3>2. QED
      <4> SUFFICES ASSUME NEW j \in Slots, pending'[j] # Nobody
                   PROVE  request'[pending'[j]].at = "queued" /\ request'[pending'[j]].slot = j
        BY <3>1 DEF Places
      <4>1. CASE j = i
        BY <1>2, <2>3, <3>1, <4>1
      <4>2. CASE j # i
        <5>1. pending'[j] = pending[j] /\ pending[j] \in Requests /\ pending[j] # count'
          BY <2>1, <3>1, <4>2 DEF Queue
        <5>2. request[pending[j]].at = "queued" /\ request[pending[j]].slot = j
          BY <5>1 DEF Queue, Places
        <5>3. QED
          BY <1>2, <5>1, <5>2
      <4>3. QED
        BY <4>1, <4>2
  <2>4. QED
    BY <2>2, <2>3
<1>6. QED
  BY <1>1, <1>2, <1>3, <1>4, <1>5, Bounds DEF Queue, Requests

LEMMA AskQueue ==
  ASSUME Typed, Queue, NEW what \in Uploads \union {"file", "missing"}, Ask(what) PROVE Queue'
<1> DEFINE r == [NoRequest EXCEPT !.for = what]
<1>1. /\ r \in Request /\ r.for = what /\ r.at = "none" /\ r.then = "none" /\ r.sent = 0
  BY Bounds DEF NoRequest, Request
<1>2. count < MaxRequests /\ count' = count + 1
  BY DEF Ask
<1>3. active \in 0 .. MaxXfer /\ active \in Nat
  BY Bounds DEF Queue, Counted
<1>4. CASE what \in {"file", "missing"}
  <2>1. AskFile(count', r)
    BY <1>4 DEF Ask
  <2> HIDE DEF r
  <2> DEFINE answered == [r EXCEPT !.at = "answered"]
  <2>2. CASE Put(count', answered) /\ UNCHANGED files
    <3>1. answered \in Request /\ Consistent(answered) /\ answered.at = "answered"
      BY <1>1 DEF Request, Consistent
    <3> HIDE DEF answered
    <3>2. QED
      BY <1>2, <1>3, <2>2, <3>1, NewRequest DEF files
  <2>3. CASE ~device.lockFS /\ active < MaxXfer /\ Put(count', Started(r))
             /\ active' = active + Load(r) /\ UNCHANGED pending
    <3>1. /\ Started(r) \in Request /\ Consistent(Started(r))
          /\ Load(r) = IF Started(r).at = "serving" THEN 1 ELSE 0
      BY <1>1, StartedFits
    <3>2. active' \in 0 .. MaxXfer
      BY <1>3, <2>3, <3>1, Bounds
    <3>3. QED
      BY <1>2, <2>3, <3>1, <3>2, NewRequest
  <2>4. ASSUME NEW i \in Slots, pending' = [pending EXCEPT ![i] = count'], UNCHANGED active,
               Put(count', [r EXCEPT !.at = "queued", !.then = "leave", !.slot = i])
        PROVE  Queue'
    <3> DEFINE one == [r EXCEPT !.at = "queued"]
               two == [one EXCEPT !.then = "leave"]
               three == [two EXCEPT !.slot = i]
    <3>1. one \in Request
      BY <1>1 DEF Request
    <3>2. Put(count', three)
      BY <1>1, <2>4 DEF Request
    <3>3. three.at = "queued" /\ three.then = "leave" /\ three.slot = i
      BY <1>1 DEF Request
    <3> HIDE DEF one
    <3>4. two \in Request
      BY <3>1 DEF Request
    <3> HIDE DEF two
    <3>5. three \in Request
      BY <3>4, Bounds DEF Request, Slots
    <3> HIDE DEF three
    <3>6. QED
      <4>1. Consistent(three) /\ three.at # "serving"
        BY <3>3 DEF Consistent
      <4>2. active' = active + (IF three.at = "serving" THEN 1 ELSE 0) /\ active' \in 0 .. MaxXfer
        BY <1>3, <2>4, <4>1
      <4>3. QED
        BY <1>2, <2>4, <3>2, <3>3, <3>5, <4>1, <4>2, NewRequest
  <2>5. QED
    BY <2>1, <2>2, <2>3, <2>4 DEF AskFile
<1>5. CASE what \in Uploads
  <2> DEFINE sending == [r EXCEPT !.at = "sending"]
  <2>1. Put(count', sending) /\ UNCHANGED files
    BY <1>5 DEF Ask, Uploads, Images, Configs
  <2> HIDE DEF r
  <2>2. sending \in Request /\ Consistent(sending) /\ sending.at = "sending"
    BY <1>1, <1>5, Bounds DEF Request, Consistent
  <2> HIDE DEF sending
  <2>3. QED
    BY <1>2, <1>3, <2>1, <2>2, NewRequest DEF files
<1>6. QED
  BY <1>4, <1>5

\* The queue of a device that starts, whatever was counted.
LEMMA EmptyQueue ==
  ASSUME request' = [c \in Requests |-> NoRequest], active' = 0,
         pending' = [i \in Slots |-> Nobody], count' \in 0 .. MaxRequests
  PROVE  Queue'
<1>1. request' \in [Requests -> Request] /\ \A c \in Requests : request'[c] = NoRequest
  BY NoRequestFits
<1>2. Counted'
  <2>1. Serving' = {}
    BY <1>1, NoRequestFits DEF Serving
  <2>2. QED
    BY <2>1, FS_EmptySet, Bounds DEF Counted
<1>3. Callbacks' /\ Places'
  BY <1>1, NoRequestFits DEF Callbacks, Places
<1>4. QED
  BY <1>1, <1>2, <1>3 DEF Queue

LEMMA QueueKept == ASSUME Typed, Queue, [Next]_vars PROVE Queue'
<1>1. ASSUME UNCHANGED <<request, files>>, count' \in 0 .. MaxRequests, count \in Nat, count' >= count
      PROVE  Queue'
  <2>1. UNCHANGED <<request, active, pending>>
    BY <1>1 DEF files
  <2>2. Counted' /\ Places'
    BY <2>1 DEF Queue, Counted, Places, Serving
  <2>3. Callbacks'
    BY <1>1, <2>1, Bounds DEF Queue, Callbacks, Requests
  <2>4. QED
    BY <1>1, <2>1, <2>2, <2>3 DEF Queue
<1>2. count \in 0 .. MaxRequests /\ count \in Nat
  BY Bounds DEF Queue
<1>3. ASSUME NEW c \in Requests, Chunk(c) \/ Respond(c) \/ Disconnect(c) PROVE Queue'
  BY <1>3, ChunkQueue, RespondQueue, DisconnectQueue
<1>4. ASSUME NEW what \in Images \union Configs \union {"file", "missing"}, Ask(what) PROVE Queue'
  BY <1>4, AskQueue DEF Uploads
<1>5. CASE Recover \/ AskReboot
  BY <1>1, <1>2, <1>5, Bounds DEF Recover, AskReboot
<1>6. CASE AbortStalled \/ Tick \/ UNCHANGED vars
  <2>1. UNCHANGED <<request, files, count>>
    BY <1>6 DEF AbortStalled, Tick, vars
  <2>2. QED
    BY <1>1, <1>2, <2>1
<1>7. CASE Reboot
  BY <1>7, EmptyQueue, Bounds DEF Reboot
<1>8. QED
  BY <1>3, <1>4, <1>5, <1>6, <1>7 DEF Next

-----------------------------------------------------------------------------
(* The gate.                                                               *)

\* What the operators on the gate return.
LEMMA HealthSet ==
  ASSUME NEW g \in Gates, NEW b \in BOOLEAN
  PROVE  LET h == [g EXCEPT !.healthy = b]
         IN /\ h \in Gates /\ h.owner = g.owner /\ h.healthy = b /\ h.flashing = g.flashing
            /\ h.isFs = g.isFs /\ h.success = g.success
BY DEF Gates

LEMMA SuccessSet ==
  ASSUME NEW g \in Gates, NEW b \in BOOLEAN
  PROVE  LET h == [g EXCEPT !.success = b]
         IN /\ h \in Gates /\ h.owner = g.owner /\ h.healthy = g.healthy /\ h.flashing = g.flashing
            /\ h.isFs = g.isFs /\ h.success = b
BY DEF Gates

LEMMA FlashSet ==
  ASSUME NEW g \in Gates, NEW b \in BOOLEAN, NEW f \in BOOLEAN
  PROVE  LET h == [g EXCEPT !.flashing = b, !.isFs = f]
         IN /\ h \in Gates /\ h.owner = g.owner /\ h.healthy = g.healthy /\ h.flashing = b
            /\ h.isFs = f /\ h.success = g.success
<1> DEFINE one == [g EXCEPT !.flashing = b]
           two == [one EXCEPT !.isFs = f]
<1>1. one \in Gates
  BY DEF Gates
<1>2. [g EXCEPT !.flashing = b, !.isFs = f] = two
  BY DEF Gates
<1>3. /\ one.owner = g.owner /\ one.healthy = g.healthy /\ one.flashing = b /\ one.success = g.success
  BY DEF Gates
<1> HIDE DEF one
<1>4. /\ two \in Gates /\ two.owner = one.owner /\ two.healthy = one.healthy
      /\ two.flashing = one.flashing /\ two.isFs = f /\ two.success = one.success
  BY <1>1 DEF Gates
<1>5. QED
  BY <1>2, <1>3, <1>4

LEMMA EndedFits ==
  ASSUME NEW g \in Gates
  PROVE  /\ Ended(g) \in Gates /\ Ended(g).owner = g.owner /\ Ended(g).healthy = g.healthy
         /\ ~Ended(g).flashing /\ Ended(g).success = g.success
BY FlashSet DEF Ended

LEMMA ClaimedFits ==
  ASSUME gate \in Gates, NEW c \in Requests
  PROVE  /\ Claimed(c) \in Gates /\ Claimed(c).owner = c /\ Claimed(c).healthy
         /\ Claimed(c).flashing = gate.flashing /\ ~Claimed(c).success
<1> DEFINE one == [gate EXCEPT !.owner = c]
           two == [one EXCEPT !.healthy = TRUE]
           three == [two EXCEPT !.success = FALSE]
<1>1. one \in Gates /\ one.owner = c /\ one.flashing = gate.flashing
  BY DEF Gates
<1>2. Claimed(c) = three
  BY DEF Claimed, Gates
<1> HIDE DEF one
<1>3. two \in Gates /\ two.owner = one.owner /\ two.flashing = one.flashing /\ two.healthy
  BY <1>1, HealthSet
<1> HIDE DEF two
<1>4. /\ three \in Gates /\ three.owner = two.owner /\ three.flashing = two.flashing
      /\ three.healthy = two.healthy /\ ~three.success
  BY <1>3, SuccessSet
<1>5. QED
  BY <1>1, <1>2, <1>3, <1>4

LEMMA FinishFits ==
  ASSUME device \in Devices, kept \in BOOLEAN, NEW g \in Gates, NEW ok \in BOOLEAN, Finish(g, ok)
  PROVE  device' \in Devices /\ kept' \in BOOLEAN /\ kept' = (kept \/ g.isFs)
<1> DEFINE lock == IF g.isFs THEN FALSE ELSE device.lockFS
           one == [device EXCEPT !.lockFS = lock]
           two == [one EXCEPT !.inProgress = FALSE]
           three == [two EXCEPT !.works = ~ok]
<1>1. lock \in BOOLEAN
  BY DEF Devices
<1>2. device' = three
  BY DEF Finish, Devices
<1> HIDE DEF lock
<1>3. one \in Devices
  BY <1>1 DEF Devices
<1> HIDE DEF one
<1>4. two \in Devices
  BY <1>3 DEF Devices
<1> HIDE DEF two
<1>5. (~ok) \in BOOLEAN
  OBVIOUS
<1>6. three \in Devices
  BY <1>4, <1>5 DEF Devices
<1>7. kept' = (kept \/ g.isFs) /\ (kept \/ g.isFs) \in BOOLEAN
  BY DEF Finish
<1>8. QED
  BY <1>2, <1>6, <1>7

LEMMA BusyFits ==
  ASSUME device \in Devices, NEW what
  PROVE  Busy(what) \in Devices /\ (what = "filesystem" => Busy(what).lockFS)
<1> DEFINE lock == device.lockFS \/ what = "filesystem"
           one == [device EXCEPT !.works = FALSE]
           two == [one EXCEPT !.inProgress = TRUE]
           three == [two EXCEPT !.lockFS = lock]
<1>1. lock \in BOOLEAN /\ (what = "filesystem" => lock)
  <2>1. device.lockFS \in BOOLEAN
    BY DEF Devices
  <2>2. CASE what = "filesystem"
    BY <2>2
  <2>3. CASE what # "filesystem"
    BY <2>1, <2>3
  <2>4. QED
    BY <2>2, <2>3
<1>2. Busy(what) = three
  BY DEF Busy, Devices
<1> HIDE DEF lock
<1>3. one \in Devices
  BY DEF Devices
<1> HIDE DEF one
<1>4. two \in Devices
  BY <1>3 DEF Devices
<1> HIDE DEF two
<1>5. three \in Devices /\ three.lockFS = lock
  BY <1>1, <1>4 DEF Devices
<1>6. QED
  BY <1>1, <1>2, <1>5

LEMMA StoredFits ==
  ASSUME Past, NEW w \in {"image", "tmp"}, NEW c \in Requests, NEW r \in Request, Stored(w, c, r)
  PROVE  /\ written' \in [{"image", "tmp"} -> Writings]
         /\ \A v \in {"image", "tmp"} : v # w => written'[v] = written[v]
         /\ r.sent = 0 \/ written[w] = Whole(c, r.sent) => written'[w] = Whole(c, r.sent + 1)
<1> DEFINE before == IF r.sent = 0 THEN Nothing ELSE written[w]
           now == [by |-> before.by \union {c}, chunks |-> before.chunks + 1]
<1>1. before \in Writings /\ before.by \subseteq Requests /\ before.chunks \in Nat
  BY DEF Past, Writings, Nothing
<1>2. now \in Writings
  BY <1>1 DEF Writings
<1>3. written' = [written EXCEPT ![w] = now]
  BY DEF Stored
<1>4. r.sent = 0 \/ written[w] = Whole(c, r.sent) => now = Whole(c, r.sent + 1)
  BY DEF Whole, Nothing
<1> HIDE DEF now
<1>5. QED
  BY <1>2, <1>3, <1>4 DEF Past

\* The rest of the types.
Rest ==
  /\ gate \in Gates /\ device \in Devices /\ quiet \in 0 .. Takeover /\ kept \in BOOLEAN /\ Past

Remembered == UNCHANGED <<history.recovered, history.cut>>

\* Nothing happens to the gate, and its owner sends nothing.
LEMMA GateSame ==
  ASSUME Rest, GateInv, UNCHANGED <<gate, written, kept>>, Remembered,
         UNCHANGED device.lockFS,
         gate.owner # Nobody =>
           LET o == request[gate.owner]
               n == request'[gate.owner]
           IN n.for = o.for /\ n.then = o.then /\ n.sent = o.sent /\ (n.at = "sending" => o.at = "sending")
  PROVE  GateInv'
<1>1. OwnerUploads'
  BY DEF GateInv, OwnerUploads
<1>2. FlashesOwn'
  BY DEF GateInv, FlashesOwn
<1>3. StoresOwn'
  BY DEF GateInv, StoresOwn
<1>4. SuccessWhole'
  BY DEF GateInv, SuccessWhole
<1>5. ShadesKept' /\ LockedWhileFlashing'
  BY DEF GateInv, ShadesKept, LockedWhileFlashing, Flashes, Remembered
<1>6. Single(written'["image"]) /\ Single(written'["tmp"])
  BY DEF GateInv, Single
<1>7. QED
  BY <1>1, <1>2, <1>3, <1>4, <1>5, <1>6 DEF GateInv

\* What the invariant says before a chunk of c: is it the owner's?
LEMMA BeforeChunk ==
  ASSUME Rest, GateInv, NEW c \in Requests, request[c].at = "sending"
  PROVE  /\ gate.owner = c => request[c].sent # 0 /\ request[c].then = "upload" /\ ~gate.success
         /\ request[c].sent = 0 /\ Claimable(c) => ~gate.flashing
<1>1. gate.owner = c => request[c].sent > 0 /\ request[c].then = "upload" /\ ~gate.success
  BY Bounds DEF GateInv, OwnerUploads, SuccessWhole
<1>2. gate.flashing => gate.owner # Nobody
  BY DEF GateInv, FlashesOwn
<1>3. QED
  BY <1>1, <1>2 DEF Claimable

\* The gate after a chunk of its owner c: what is left to show.
LEMMA AfterChunk ==
  ASSUME Rest, GateInv, Typed, Queue, NEW c \in Requests, Chunk(c), gate'.owner = c,
         request[c].sent = 0 => Claimable(c),
         gate'.flashing => gate'.healthy /\ request[c].for \in Images
                             /\ written'["image"] = Whole(c, request[c].sent + 1),
         gate'.healthy /\ request[c].for \in Configs => written'["tmp"] = Whole(c, request[c].sent + 1),
         gate'.success => request[c].sent + 1 = Chunks /\ ~gate'.flashing /\
           written'[IF request[c].for \in Images THEN "image" ELSE "tmp"] = Whole(c, Chunks),
         \A w \in {"image", "tmp"} : written'[w] = written[w] \/ written'[w].by = {c},
         ShadesKept', LockedWhileFlashing', request[c].sent # 0 => gate.owner = c
  PROVE  GateInv'
<1>1. /\ request'[c].for = request[c].for /\ request'[c].sent = request[c].sent + 1
      /\ request'[c].at = IF request[c].sent + 1 = Chunks THEN "sent" ELSE "sending"
      /\ request[c].for \in Uploads /\ request[c].sent \in Nat /\ request[c].at = "sending"
  BY ChunkRequest DEF Queue, Callbacks, Consistent, Typed, Request
<1>2. request'[c].then = "upload"
  BY ChunkRequest, BeforeChunk DEF Queue
<1>3. OwnerUploads' /\ FlashesOwn' /\ StoresOwn'
  <2>1. request'[c].sent > 0 /\ c # Nobody
    BY <1>1, Bounds
  <2>2. OwnerUploads'
    BY <1>1, <1>2, <2>1 DEF OwnerUploads
  <2>3. FlashesOwn'
    BY <1>1, <2>1 DEF FlashesOwn
  <2>4. StoresOwn'
    BY <1>1 DEF StoresOwn
  <2>5. QED
    BY <2>2, <2>3, <2>4
<1>4. SuccessWhole'
  BY <1>1 DEF SuccessWhole
<1>5. Single(written'["image"]) /\ Single(written'["tmp"])
  BY DEF GateInv, Single
<1>6. QED
  BY <1>3, <1>4, <1>5 DEF GateInv

\* The parts of the step of a chunk that are not about the gate.
LEMMA ChunkRest ==
  ASSUME Rest, NEW c \in Requests, Chunk(c)
  PROVE  quiet' \in 0 .. Takeover /\ history' \in Histories /\ Remembered
<1> DEFINE r == request[c]
           mine == r.sent = 0 /\ Claimable(c)
           b == history.unanswered \/ (mine /\ ~device.works /\ ~device.reboot /\ ~gate.flashing)
<1>1. quiet' \in {0, quiet}
  BY DEF Chunk
<1>2. b \in BOOLEAN
  <2>1. history.unanswered \in BOOLEAN
    BY DEF Rest, Past, Histories
  <2>2. QED
    BY <2>1
<1>3. history' = [history EXCEPT !.unanswered = b]
  BY DEF Chunk
<1> HIDE DEF b
<1>4. history' \in Histories /\ Remembered
  <2>1. history \in Histories
    BY DEF Rest, Past
  <2>2. /\ history' \in Histories /\ history'.recovered = history.recovered
        /\ history'.cut = history.cut
    BY <1>2, <1>3, <2>1 DEF Histories
  <2>3. QED
    BY <2>2 DEF Remembered
<1>5. QED
  BY <1>1, <1>4, Bounds DEF Rest

\* A chunk that changes nothing: not the owner's, or of an upload that failed.
LEMMA ChunkIgnored ==
  ASSUME Rest, GateInv, Typed, Queue, NEW c \in Requests, Chunk(c),
         UNCHANGED <<gate, device, written, kept>>,
         gate.owner = c => ~gate.flashing /\ (~gate.healthy \/ request[c].for \in Images)
  PROVE  Rest' /\ GateInv'
<1>1. Rest'
  BY ChunkRest DEF Rest, Past
<1>2. CASE gate.owner # c
  <2>1. gate.owner # Nobody => gate.owner \in Requests /\ request'[gate.owner] = request[gate.owner]
    BY <1>2, ChunkRequest DEF Rest, Gates, Queue
  <2>2. QED
    BY <1>1, <2>1, ChunkRest, GateSame
<1>3. CASE gate.owner = c
  <2>1. ~gate.success /\ request[c].sent # 0 /\ request[c].at = "sending"
    BY <1>3, ChunkRequest, BeforeChunk DEF Queue
  <2>2. request[c].for \in Images => request[c].for \notin Configs
    BY DEF Images, Configs
  <2>3. ShadesKept' /\ LockedWhileFlashing'
    BY ChunkRest DEF GateInv, ShadesKept, LockedWhileFlashing, Flashes, Remembered
  <2>4. QED
    BY <1>1, <1>3, <2>1, <2>2, <2>3, AfterChunk
<1>4. QED
  BY <1>1, <1>2, <1>3

\* The gate g as the owner c has it, at its first chunk or a later one.
OwnersGate(c, g) ==
  /\ g \in Gates /\ g.owner = c /\ g.healthy /\ ~g.success
  /\ IF request[c].sent = 0 THEN Claimable(c) /\ ~gate.flashing ELSE g = gate

LEMMA OwnersGateFits ==
  ASSUME Rest, GateInv, NEW c \in Requests, request[c].at = "sending",
         request[c].sent = 0 => Claimable(c), request[c].sent # 0 => Owned(gate, c)
  PROVE  LET g == IF request[c].sent = 0 THEN Claimed(c) ELSE gate
         IN OwnersGate(c, g) /\ (request[c].sent = 0 => ~g.flashing)
BY BeforeChunk, ClaimedFits DEF OwnersGate, Owned, Rest

\* A chunk that spoils the upload of c and leaves the rest alone.
LEMMA ChunkSpoils ==
  ASSUME Rest, GateInv, Typed, Queue, NEW c \in Requests, Chunk(c), UNCHANGED <<device, written, kept>>,
         NEW g, OwnersGate(c, g), ~gate.flashing, ~g.flashing, gate' = [g EXCEPT !.healthy = FALSE]
  PROVE  Rest' /\ GateInv'
<1>1. /\ gate' \in Gates /\ gate'.owner = c /\ ~gate'.healthy /\ ~gate'.flashing /\ ~gate'.success
  BY HealthSet DEF OwnersGate
<1>2. Rest'
  BY <1>1, ChunkRest DEF Rest, Past
<1>3. ShadesKept' /\ LockedWhileFlashing'
  BY <1>1, ChunkRest DEF GateInv, ShadesKept, LockedWhileFlashing, Flashes, Remembered
<1>4. QED
  BY <1>1, <1>2, <1>3, AfterChunk DEF OwnersGate

\* Chunks of configurations.
LEMMA ChunkOfConfig ==
  ASSUME Rest, GateInv, Typed, Queue, NEW c \in Requests, Chunk(c), request[c].for \in Configs,
         request[c].sent = 0 => Claimable(c), request[c].sent # 0 => Owned(gate, c),
         ConfigChunk(c, request[c], request[c].sent + 1 = Chunks)
  PROVE  Rest' /\ GateInv'
<1> DEFINE r == request[c]
           final == r.sent + 1 = Chunks
           g == IF r.sent = 0 THEN Claimed(c) ELSE gate
           spoilt == [g EXCEPT !.healthy = FALSE]
           done == g.success \/ (final /\ r.for = "restore")
<1>1. OwnersGate(c, g) /\ (r.sent = 0 => ~g.flashing) /\ r.at = "sending" /\ r \in Request
  BY ChunkRequest, OwnersGateFits DEF Queue
<1>2. r.for \notin Images
  BY DEF Images, Configs
<1>3. ~gate.flashing /\ ~g.flashing
  <2>1. gate.owner = c => ~gate.flashing
    BY <1>2 DEF GateInv, FlashesOwn
  <2>2. QED
    BY <1>1, <2>1 DEF OwnersGate
<1>4. UNCHANGED <<device, kept>>
  BY DEF ConfigChunk
<1>5. CASE gate' = spoilt /\ UNCHANGED written
  BY <1>1, <1>3, <1>4, <1>5, ChunkSpoils
<1>6. CASE Stored("tmp", c, r) /\ gate' = [g EXCEPT !.success = done]
  <2>1. /\ written' \in [{"image", "tmp"} -> Writings] /\ written'["image"] = written["image"]
        /\ r.sent = 0 \/ written["tmp"] = Whole(c, r.sent) => written'["tmp"] = Whole(c, r.sent + 1)
    BY <1>1, <1>6, StoredFits DEF Rest
  <2>2. written'["tmp"] = Whole(c, r.sent + 1)
    <3>1. r.sent # 0 => gate.owner = c /\ gate.healthy /\ gate.owner # Nobody
      BY Bounds DEF Owned
    <3>2. QED
      BY <2>1, <3>1 DEF GateInv, StoresOwn
  <2>3. done \in BOOLEAN /\ (done => final)
    BY <1>1 DEF OwnersGate
  <2> HIDE DEF done
  <2>4. /\ gate' \in Gates /\ gate'.owner = c /\ gate'.healthy /\ ~gate'.flashing
        /\ gate'.success => final
    <3>1. g \in Gates
      BY <1>1 DEF OwnersGate
    <3> HIDE DEF g
    <3>2. QED
      BY <1>1, <1>3, <1>6, <2>3, <3>1, SuccessSet DEF OwnersGate
  <2>5. Rest'
    BY <1>4, <2>1, <2>4, ChunkRest DEF Rest, Past
  <2>6. ShadesKept' /\ LockedWhileFlashing'
    BY <1>3, <1>4, <2>4, ChunkRest DEF GateInv, ShadesKept, LockedWhileFlashing, Flashes, Remembered
  <2>7. written'["tmp"].by = {c}
    BY <2>2 DEF Whole
  <2>8. QED
    BY <1>1, <1>2, <2>1, <2>2, <2>4, <2>5, <2>6, <2>7, AfterChunk DEF OwnersGate
<1>7. Owned(g, c)
  BY <1>1 DEF OwnersGate, Owned
<1>8. CASE r.sent = 0 /\ device.lockFS
  BY <1>5, <1>8 DEF ConfigChunk
<1>9. CASE ~(r.sent = 0 /\ device.lockFS)
  BY <1>5, <1>6, <1>7, <1>9 DEF ConfigChunk
<1>10. QED
  BY <1>8, <1>9

\* A chunk that is flashed, with the gate g and the device dev.
LEMMA ChunkFlashed ==
  ASSUME Rest, GateInv, Typed, Queue, NEW c \in Requests, Chunk(c), request[c].for \in Images,
         NEW g, OwnersGate(c, g), g.flashing, NEW dev \in Devices,
         kept \/ g.isFs \/ history.cut, g.isFs => dev.lockFS \/ history.recovered,
         Flash(g, c, request[c], dev, request[c].sent + 1 = Chunks)
  PROVE  Rest' /\ GateInv'
<1> DEFINE r == request[c]
           final == r.sent + 1 = Chunks
<1>1. r \in Request /\ r.at = "sending" /\ r.for \notin Configs /\ g \in Gates
  BY ChunkRequest DEF Queue, Images, Configs, OwnersGate
<1>2. g.owner = c /\ g.healthy /\ ~g.success /\ (r.sent = 0 => Claimable(c))
      /\ (r.sent # 0 => gate.owner = c /\ gate.flashing)
  BY DEF OwnersGate
<1>3. r.sent = 0 \/ written["image"] = Whole(c, r.sent)
  BY <1>2 DEF GateInv, FlashesOwn
<1>4. history' \in Histories /\ quiet' \in 0 .. Takeover /\ Remembered
  BY ChunkRest
<1>5. ASSUME Stored("image", c, r)
      PROVE  /\ written' \in [{"image", "tmp"} -> Writings] /\ written'["tmp"] = written["tmp"]
             /\ written'["image"] = Whole(c, r.sent + 1) /\ written'["image"].by = {c}
  BY <1>1, <1>3, <1>5, StoredFits DEF Rest, Whole
<1>6. ASSUME NEW ok \in BOOLEAN, Finish(g, ok)
      PROVE  device' \in Devices /\ kept' \in BOOLEAN /\ kept' = (kept \/ g.isFs)
  BY <1>1, <1>6, FinishFits DEF Rest
<1>7. CASE /\ ~final /\ Stored("image", c, r) /\ gate' = g /\ device' = dev
           /\ kept' = (kept /\ ~g.isFs)
  <2>1. kept' \in BOOLEAN
    BY <1>7 DEF Rest
  <2>2. Rest'
    BY <1>1, <1>4, <1>5, <1>7, <2>1 DEF Rest, Past
  <2>3. ShadesKept' /\ LockedWhileFlashing'
    BY <1>4, <1>7 DEF ShadesKept, LockedWhileFlashing, Flashes, Remembered
  <2>4. QED
    BY <1>1, <1>2, <1>5, <1>7, <2>2, <2>3, AfterChunk
<1>8. ASSUME final, Stored("image", c, r), NEW ok \in BOOLEAN,
             gate' = Ended([g EXCEPT !.healthy = ok, !.success = ok]), Finish(g, ok)
      PROVE  Rest' /\ GateInv'
  <2> DEFINE one == [g EXCEPT !.healthy = ok]
             two == [one EXCEPT !.success = ok]
  <2>1. one \in Gates /\ one.owner = c
    BY <1>1, <1>2, HealthSet
  <2>2. [g EXCEPT !.healthy = ok, !.success = ok] = two
    BY <1>1 DEF Gates
  <2> HIDE DEF one
  <2>3. two \in Gates /\ two.owner = c
    BY <2>1, SuccessSet
  <2> HIDE DEF two
  <2>4. gate' \in Gates /\ gate'.owner = c /\ ~gate'.flashing
    BY <1>8, <2>2, <2>3, EndedFits
  <2>5. Rest'
    BY <1>4, <1>5, <1>6, <1>8, <2>4 DEF Rest, Past
  <2>6. ShadesKept' /\ LockedWhileFlashing'
    BY <1>4, <1>6, <1>8, <2>4 DEF ShadesKept, LockedWhileFlashing, Flashes, Remembered
  <2>7. QED
    BY <1>1, <1>2, <1>5, <1>8, <2>4, <2>5, <2>6, AfterChunk
<1>9. CASE UNCHANGED written /\ gate' = Ended([g EXCEPT !.healthy = FALSE]) /\ Finish(g, FALSE)
  <2> DEFINE one == [g EXCEPT !.healthy = FALSE]
  <2>1. one \in Gates /\ one.owner = c /\ ~one.healthy /\ ~one.success
    BY <1>1, <1>2, HealthSet
  <2> HIDE DEF one
  <2>2. gate' \in Gates /\ gate'.owner = c /\ ~gate'.flashing /\ ~gate'.healthy /\ ~gate'.success
    BY <1>9, <2>1, EndedFits DEF one
  <2>3. Rest'
    BY <1>4, <1>6, <1>9, <2>2 DEF Rest, Past
  <2>4. ShadesKept' /\ LockedWhileFlashing'
    BY <1>4, <1>6, <1>9, <2>2 DEF ShadesKept, LockedWhileFlashing, Flashes, Remembered
  <2>5. QED
    BY <1>1, <1>2, <1>9, <2>2, <2>3, <2>4, AfterChunk
<1>10. QED
  BY <1>7, <1>8, <1>9 DEF Flash

LEMMA ChunkOfImage ==
  ASSUME Rest, GateInv, Typed, Queue, NEW c \in Requests, Chunk(c), request[c].for \in Images,
         request[c].sent = 0 => Claimable(c),
         ImageChunk(c, request[c], request[c].sent + 1 = Chunks)
  PROVE  Rest' /\ GateInv'
<1> DEFINE r == request[c]
           final == r.sent + 1 = Chunks
<1>1. r.at = "sending" /\ r.for \notin Configs
  BY ChunkRequest DEF Queue, Images, Configs
<1>2. kept \/ Flashes(gate) \/ history.cut
  BY DEF GateInv, ShadesKept
<1>3. CASE r.sent = 0
  <2> DEFINE g == Claimed(c)
             begun == [g EXCEPT !.flashing = TRUE, !.isFs = r.for = "filesystem"]
  <2>1. OwnersGate(c, g) /\ ~g.flashing /\ ~gate.flashing /\ g \in Gates
    BY <1>1, <1>3, OwnersGateFits DEF OwnersGate
  <2>2. CASE gate' = [g EXCEPT !.healthy = FALSE] /\ UNCHANGED <<device, written, kept>>
    BY <2>1, <2>2, ChunkSpoils
  <2>3. CASE Flash(begun, c, r, Busy(r.for), final)
    <3>1. (r.for = "filesystem") \in BOOLEAN
      OBVIOUS
    <3> HIDE DEF g
    <3>2. /\ begun \in Gates /\ begun.owner = g.owner /\ begun.healthy = g.healthy /\ begun.flashing
          /\ begun.isFs = (r.for = "filesystem") /\ begun.success = g.success
      BY <2>1, <3>1, FlashSet
    <3> HIDE DEF begun
    <3>3. OwnersGate(c, begun)
      BY <1>3, <2>1, <3>2 DEF OwnersGate
    <3>4. kept \/ begun.isFs \/ history.cut
      BY <1>2, <2>1 DEF Flashes
    <3>5. Busy(r.for) \in Devices /\ (begun.isFs => Busy(r.for).lockFS)
      BY <3>2, BusyFits DEF Rest
    <3>6. QED
      BY <2>3, <3>2, <3>3, <3>4, <3>5, ChunkFlashed
  <2>4. QED
    BY <1>3, <2>2, <2>3 DEF ImageChunk
<1>4. CASE r.sent # 0 /\ Owned(gate, c) /\ gate.flashing
  <2>1. OwnersGate(c, gate)
    BY <1>1, <1>4, OwnersGateFits
  <2>2. kept \/ gate.isFs \/ history.cut
    BY <1>2 DEF Flashes
  <2>3. gate.isFs => device.lockFS \/ history.recovered
    BY <1>4 DEF GateInv, LockedWhileFlashing, Flashes
  <2>4. Flash(gate, c, r, device, final)
    BY <1>4 DEF ImageChunk
  <2>5. QED
    BY <1>4, <2>1, <2>2, <2>3, <2>4, ChunkFlashed DEF Rest
<1>5. CASE r.sent # 0 /\ ~(Owned(gate, c) /\ gate.flashing)
  <2>1. UNCHANGED <<gate, device, written, kept>>
    BY <1>5 DEF ImageChunk
  <2>2. gate.owner = c => ~gate.flashing
    BY <1>5 DEF Owned, GateInv, FlashesOwn
  <2>3. QED
    BY <2>1, <2>2, ChunkIgnored
<1>6. QED
  BY <1>3, <1>4, <1>5

LEMMA ChunkGate ==
  ASSUME Rest, GateInv, Typed, Queue, NEW c \in Requests, Chunk(c) PROVE Rest' /\ GateInv'
<1> DEFINE r == request[c]
           mine == r.sent = 0 /\ Claimable(c)
           final == r.sent + 1 = Chunks
<1>1. r.at = "sending" /\ r.for \in Images \union Configs
  BY ChunkRequest DEF Queue, Callbacks, Consistent, Uploads
<1>2. CASE r.sent = 0 /\ ~mine
  <2>1. UNCHANGED <<gate, device, written, kept>>
    BY <1>2 DEF Chunk
  <2>2. gate.owner # c
    BY <1>2 DEF Claimable
  <2>3. QED
    BY <2>1, <2>2, ChunkIgnored
<1>3. CASE ~(r.sent = 0 /\ ~mine) /\ r.for \in Images
  <2>1. ImageChunk(c, r, final)
    BY <1>3 DEF Chunk
  <2>2. QED
    BY <1>3, <2>1, ChunkOfImage
<1>4. CASE ~(r.sent = 0 /\ ~mine) /\ r.for \in Configs
  <2>1. ConfigChunk(c, r, final)
    BY <1>4 DEF Chunk, Images, Configs
  <2>2. CASE r.sent # 0 /\ ~Owned(gate, c)
    <3>1. UNCHANGED <<gate, device, written, kept>>
      BY <2>1, <2>2 DEF ConfigChunk
    <3>2. gate.owner = c => ~gate.flashing /\ ~gate.healthy
      BY <2>2 DEF Owned, GateInv, FlashesOwn
    <3>3. QED
      BY <3>1, <3>2, ChunkIgnored
  <2>3. CASE ~(r.sent # 0 /\ ~Owned(gate, c))
    BY <1>4, <2>1, <2>3, ChunkOfConfig
  <2>4. QED
    BY <2>2, <2>3
<1>5. QED
  BY <1>1, <1>2, <1>3, <1>4

LEMMA RespondGate ==
  ASSUME Rest, GateInv, Typed, Queue, NEW c \in Requests, Respond(c) PROVE Rest' /\ GateInv'
<1> DEFINE ok == request[c].for # "shades" /\ Succeeded(c)
           b == device.reboot \/ ok
<1>1. /\ request' = [request EXCEPT ![c] = [request[c] EXCEPT !.at = "answered"]]
      /\ UNCHANGED <<gate, quiet, written, kept, history>>
  BY DEF Respond, Put
<1>2. device' = [device EXCEPT !.reboot = b] /\ b \in BOOLEAN
  <2>1. device.reboot \in BOOLEAN
    BY DEF Rest, Devices
  <2>2. QED
    BY <2>1 DEF Respond
<1> HIDE DEF b
<1>3. device' \in Devices /\ UNCHANGED device.lockFS
  BY <1>2 DEF Rest, Devices
<1>4. Rest'
  BY <1>1, <1>3 DEF Rest, Past
<1>5. ASSUME NEW o \in Requests
      PROVE  /\ request'[o].for = request[o].for /\ request'[o].then = request[o].then
             /\ request'[o].sent = request[o].sent
             /\ (request'[o].at = "sending" => request[o].at = "sending")
  <2>1. request[o] \in Request /\ o \in DOMAIN request
    BY DEF Typed
  <2>2. CASE o = c
    BY <1>1, <2>1, <2>2 DEF Request
  <2>3. CASE o # c
    BY <1>1, <2>1, <2>3
  <2>4. QED
    BY <2>2, <2>3
<1>6. gate.owner # Nobody => gate.owner \in Requests
  BY DEF Rest, Gates
<1>7. QED
  BY <1>1, <1>3, <1>4, <1>5, <1>6, GateSame DEF Remembered

LEMMA NextOwner ==
  ASSUME Rest, GateInv, Typed, Queue, NEW c \in Requests, request[c].then = "done", NextTransfer(c),
         gate.owner # Nobody
  PROVE  request'[gate.owner] = request[gate.owner]
<1>1. gate.owner \in Requests /\ request[gate.owner].then = "upload"
  BY DEF Rest, Gates, GateInv, OwnerUploads
<1>2. \A i \in Waiting : request[pending[i]].then = "leave" /\ pending[i] \in Requests
  BY DEF Waiting, Queue, Places, Callbacks, Consistent
<1>3. gate.owner # c /\ \A i \in Waiting : pending[i] # gate.owner
  BY <1>1, <1>2
<1>4. QED
  BY <1>1, <1>3 DEF NextTransfer, Put, Typed

\* The owner's connection ends, whatever it was doing.
LEMMA OwnerGone ==
  ASSUME Rest, GateInv, gate' = Gate, UNCHANGED written, Remembered, quiet' \in 0 .. Takeover,
         history' \in Histories,
         IF gate.flashing THEN Finish(gate, FALSE) ELSE UNCHANGED <<device, kept>>
  PROVE  Rest' /\ GateInv'
<1>1. Gate \in Gates /\ Gate.owner = Nobody /\ ~Gate.flashing
  BY DEF Gate, Gates
<1>2. device' \in Devices /\ kept' \in BOOLEAN /\ (kept \/ Flashes(gate) => kept')
  <2>1. CASE gate.flashing
    BY <2>1, FinishFits DEF Rest, Flashes
  <2>2. CASE ~gate.flashing
    BY <2>2 DEF Rest, Flashes
  <2>3. QED
    BY <2>1, <2>2
<1>3. Rest'
  BY <1>1, <1>2 DEF Rest, Past
<1>4. OwnerUploads' /\ FlashesOwn' /\ StoresOwn' /\ SuccessWhole'
  BY <1>1 DEF OwnerUploads, FlashesOwn, StoresOwn, SuccessWhole
<1>5. Single(written'["image"]) /\ Single(written'["tmp"])
  BY DEF GateInv, Single
<1>6. ShadesKept' /\ LockedWhileFlashing'
  BY <1>1, <1>2 DEF GateInv, ShadesKept, LockedWhileFlashing, Flashes, Remembered
<1>7. QED
  BY <1>3, <1>4, <1>5, <1>6 DEF GateInv

LEMMA DisconnectGate ==
  ASSUME Rest, GateInv, Typed, Queue, NEW c \in Requests, Disconnect(c) PROVE Rest' /\ GateInv'
<1> DEFINE r == request[c]
           u == history.unanswered \/
                  (r.at = "sent" /\ gate.success /\ gate.owner = c /\ ~device.works)
           m == history.missed \/
                  (\E d \in Requests : request[d].for = "missing" /\ request[d].at = "queued")
           one == [history EXCEPT !.unanswered = u]
           two == [one EXCEPT !.missed = m]
<1>1. history' \in Histories /\ Remembered
  <2>1. history \in Histories
    BY DEF Rest, Past
  <2>2. u \in BOOLEAN /\ m \in BOOLEAN
    <3>1. history.unanswered \in BOOLEAN /\ history.missed \in BOOLEAN
      BY <2>1 DEF Histories
    <3>2. QED
      BY <3>1
  <2>3. history' = [history EXCEPT !.unanswered = u, !.missed = m]
    BY DEF Disconnect
  <2> HIDE DEF u, m
  <2>4. history' = two
    BY <2>1, <2>3 DEF Histories
  <2>5. one \in Histories /\ one.recovered = history.recovered /\ one.cut = history.cut
    BY <2>1, <2>2 DEF Histories
  <2> HIDE DEF one
  <2>6. two \in Histories /\ two.recovered = one.recovered /\ two.cut = one.cut
    BY <2>2, <2>5 DEF Histories
  <2> HIDE DEF two
  <2>7. QED
    BY <2>4, <2>5, <2>6 DEF Remembered
<1>2. quiet' \in 0 .. Takeover /\ UNCHANGED written
  <2>1. quiet' \in {0, quiet} /\ UNCHANGED written
    BY DEF Disconnect
  <2>2. QED
    BY <2>1, Bounds DEF Rest
<1>3. gate.owner # Nobody => gate.owner \in Requests /\ request[gate.owner].then = "upload"
  BY DEF Rest, Gates, GateInv, OwnerUploads
<1>4. ASSUME UNCHANGED <<gate, device, kept>>,
             gate.owner # Nobody => request'[gate.owner] = request[gate.owner]
      PROVE  Rest' /\ GateInv'
  <2>1. Rest'
    BY <1>1, <1>2, <1>4 DEF Rest, Past
  <2>2. QED
    BY <1>1, <1>2, <1>4, <2>1, GateSame
<1>5. CASE r.then \in {"none", "leave"}
  <2>1. UNCHANGED <<gate, device, kept>> /\ Put(c, NoRequest)
    BY <1>5 DEF Disconnect
  <2>2. gate.owner # Nobody => request'[gate.owner] = request[gate.owner]
    BY <1>3, <1>5, <2>1 DEF Put, Typed
  <2>3. QED
    BY <1>4, <2>1, <2>2
<1>6. CASE r.then = "done"
  <2>1. UNCHANGED <<gate, device, kept>> /\ NextTransfer(c)
    BY <1>6 DEF Disconnect
  <2>2. QED
    BY <1>4, <1>6, <2>1, NextOwner
<1>7. CASE r.then = "upload"
  <2>1. Dropped(c) /\ Put(c, NoRequest)
    BY <1>7 DEF Disconnect
  <2>2. CASE gate.owner # c
    <3>1. UNCHANGED <<gate, device, kept>>
      BY <2>1, <2>2 DEF Dropped
    <3>2. gate.owner # Nobody => request'[gate.owner] = request[gate.owner]
      BY <1>3, <2>1, <2>2 DEF Put, Typed
    <3>3. QED
      BY <1>4, <3>1, <3>2
  <2>3. CASE gate.owner = c
    BY <1>1, <1>2, <2>1, <2>3, OwnerGone DEF Dropped
  <2>4. QED
    BY <2>2, <2>3
<1>8. QED
  BY <1>5, <1>6, <1>7 DEF Typed, Request

LEMMA AskGate ==
  ASSUME Rest, GateInv, Typed, Queue, NEW what, Ask(what) PROVE Rest' /\ GateInv'
<1>1. UNCHANGED <<gate, quiet, device, written, kept, history>>
  BY DEF Ask
<1>2. Rest'
  BY <1>1 DEF Rest, Past
<1>3. count + 1 \in Requests /\ request[count + 1] = NoRequest /\ count' = count + 1
  BY Bounds DEF Ask, Queue, Callbacks, Requests
<1>4. gate.owner # Nobody => gate.owner \in Requests /\ request[gate.owner].then = "upload"
  BY DEF Rest, Gates, GateInv, OwnerUploads
<1>5. gate.owner # Nobody => gate.owner # count'
  BY <1>3, <1>4 DEF NoRequest
<1>6. \E r : Put(count', r)
  BY DEF Ask, AskFile
<1>7. gate.owner # Nobody => request'[gate.owner] = request[gate.owner]
  BY <1>4, <1>5, <1>6 DEF Put, Typed
<1>8. QED
  BY <1>1, <1>2, <1>7, GateSame DEF Remembered

LEMMA AbortGate ==
  ASSUME Rest, GateInv, AbortStalled PROVE Rest' /\ GateInv'
<1> DEFINE one == [gate EXCEPT !.healthy = FALSE]
<1>1. gate.flashing /\ ~gate.success /\ gate \in Gates
  BY DEF AbortStalled, Stalled, GateInv, FlashesOwn, SuccessWhole, Rest
<1>2. one \in Gates /\ one.owner = gate.owner /\ ~one.healthy /\ ~one.success
  BY <1>1, HealthSet
<1>3. gate' = Ended(one) /\ UNCHANGED <<request, files, quiet, written, count, history>>
  BY DEF AbortStalled
<1> HIDE DEF one
<1>4. /\ gate' \in Gates /\ gate'.owner = gate.owner /\ ~gate'.healthy /\ ~gate'.flashing
      /\ ~gate'.success
  BY <1>2, <1>3, EndedFits
<1>5. device' \in Devices /\ kept' \in BOOLEAN /\ kept' = (kept \/ gate.isFs)
  BY <1>1, FinishFits DEF AbortStalled, Rest
<1>6. Rest'
  BY <1>3, <1>4, <1>5 DEF Rest, Past
<1>7. OwnerUploads' /\ FlashesOwn' /\ StoresOwn' /\ SuccessWhole'
  BY <1>3, <1>4 DEF GateInv, OwnerUploads, FlashesOwn, StoresOwn, SuccessWhole
<1>8. Single(written'["image"]) /\ Single(written'["tmp"])
  BY <1>3 DEF GateInv, Single
<1>9. ShadesKept' /\ LockedWhileFlashing'
  BY <1>3, <1>4, <1>5 DEF GateInv, ShadesKept, LockedWhileFlashing, Flashes
<1>10. QED
  BY <1>6, <1>7, <1>8, <1>9 DEF GateInv

LEMMA RebootGate ==
  ASSUME Rest, GateInv, Reboot PROVE Rest' /\ GateInv'
<1>1. Gate \in Gates /\ Gate.owner = Nobody /\ ~Gate.flashing /\ Device \in Devices
  BY DEF Gate, Gates, Device, Devices
<1>2. written' = [image |-> Nothing, tmp |-> Nothing] /\ Nothing \in Writings /\ Nothing.by = {}
  BY DEF Reboot, Nothing, Writings
<1>3. gate' = Gate /\ device' = Device /\ quiet' = 0 /\ UNCHANGED kept
  BY DEF Reboot
<1> DEFINE b == history.cut \/ Flashes(gate)
<1>4. history' = [history EXCEPT !.cut = b] /\ history \in Histories /\ b \in BOOLEAN
  <2>1. history.cut \in BOOLEAN /\ history \in Histories
    BY DEF Rest, Past, Histories
  <2>2. QED
    BY <2>1 DEF Reboot, Flashes
<1>5. b => history'.cut
  BY <1>4 DEF Histories
<1>6. history' \in Histories
  <2> HIDE DEF b
  <2>1. QED
    BY <1>4 DEF Histories
<1>7. Rest'
  BY <1>1, <1>2, <1>3, <1>6, Bounds DEF Rest, Past
<1>8. OwnerUploads' /\ FlashesOwn' /\ StoresOwn' /\ SuccessWhole'
  BY <1>1, <1>3 DEF OwnerUploads, FlashesOwn, StoresOwn, SuccessWhole
<1>9. Single(written'["image"]) /\ Single(written'["tmp"])
  BY <1>2 DEF Single
<1>10. ShadesKept' /\ LockedWhileFlashing'
  BY <1>1, <1>3, <1>5 DEF GateInv, ShadesKept, LockedWhileFlashing, Flashes
<1>11. QED
  BY <1>7, <1>8, <1>9, <1>10 DEF GateInv

LEMMA RecoverGate ==
  ASSUME Rest, GateInv, Typed, Recover PROVE Rest' /\ GateInv'
<1>1. UNCHANGED <<request, gate, quiet, written, kept>>
  BY DEF Recover
<1>2. device' \in Devices
  BY DEF Recover, Rest, Devices
<1>3. history' \in Histories /\ history'.recovered /\ UNCHANGED history.cut
  BY DEF Recover, Rest, Past, Histories
<1>4. Rest'
  BY <1>1, <1>2, <1>3 DEF Rest, Past
<1>5. OwnerUploads' /\ FlashesOwn' /\ StoresOwn' /\ SuccessWhole'
  BY <1>1 DEF GateInv, OwnerUploads, FlashesOwn, StoresOwn, SuccessWhole
<1>6. Single(written'["image"]) /\ Single(written'["tmp"])
  BY <1>1 DEF GateInv, Single
<1>7. ShadesKept' /\ LockedWhileFlashing'
  BY <1>1, <1>3 DEF GateInv, ShadesKept, LockedWhileFlashing, Flashes
<1>8. QED
  BY <1>4, <1>5, <1>6, <1>7 DEF GateInv

LEMMA GateKept == ASSUME Rest, GateInv, Typed, Queue, [Next]_vars PROVE Rest' /\ GateInv'
<1>1. ASSUME NEW c \in Requests, Chunk(c) \/ Respond(c) \/ Disconnect(c) PROVE Rest' /\ GateInv'
  BY <1>1, ChunkGate, RespondGate, DisconnectGate
<1>2. ASSUME NEW what \in Images \union Configs \union {"file", "missing"}, Ask(what)
      PROVE  Rest' /\ GateInv'
  BY <1>2, AskGate
<1>3. CASE AbortStalled \/ Reboot \/ Recover
  BY <1>3, AbortGate, RebootGate, RecoverGate
<1>4. CASE AskReboot \/ Tick \/ UNCHANGED vars
  <2>1. UNCHANGED <<request, gate, written, kept, history>>
    BY <1>4 DEF AskReboot, Tick, vars
  <2>2. device' \in Devices /\ UNCHANGED device.lockFS
    BY <1>4 DEF AskReboot, Tick, vars, Rest, Devices
  <2>3. quiet' \in 0 .. Takeover
    <3>1. quiet' = quiet \/ (quiet' = quiet + 1 /\ quiet < Takeover)
      BY <1>4 DEF AskReboot, Tick, vars
    <3>2. QED
      BY <3>1, Bounds DEF Rest
  <2>4. Rest'
    BY <2>1, <2>2, <2>3 DEF Rest, Past
  <2>5. QED
    BY <2>1, <2>2, <2>4, GateSame DEF Remembered
<1>5. QED
  BY <1>1, <1>2, <1>3, <1>4 DEF Next

-----------------------------------------------------------------------------
(* The theorems.                                                           *)

LEMMA InvParts == IInv <=> Typed /\ Queue /\ Rest /\ GateInv
BY Parts DEF IInv, Typed, Queue, Rest

LEMMA Inductive == IInv /\ [Next]_vars => IInv'
<1> SUFFICES ASSUME IInv, [Next]_vars PROVE IInv'
  OBVIOUS
<1>1. Queue' /\ Rest' /\ GateInv'
  BY InvParts, QueueKept, GateKept
<1>2. Typed' /\ Counted'
  BY <1>1 DEF Queue, Rest, Typed
<1>3. TypeOK'
  BY <1>2 DEF TypeOK, Typed, Counted, Request, Uploads, Gates, Devices, Serving
<1>4. QED
  BY <1>1, <1>3 DEF IInv, Queue, Rest

LEMMA Invariant == Spec => []IInv
BY InitInv, Inductive, PTL DEF Spec

\* The types, and active counts the files that are being sent.
THEOREM TypeCorrect == Spec => []TypeOK
<1>1. IInv => TypeOK
  BY DEF IInv
<1>2. QED
  BY <1>1, Invariant, PTL

\* One writer for what is flashed or stored, the shades in every file system a
\* flash leaves, no request waiting that is gone, no file touched while the
\* file system is flashed.
THEOREM UploadsCorrect == Spec => []UploadsSafe
<1>1. ASSUME IInv PROVE UploadsSafe
  <2>1. \A w \in {"image", "tmp"} : Cardinality(written[w].by) <= 1
    <3>1. ASSUME NEW w \in {"image", "tmp"} PROVE Single(written[w])
      BY <1>1 DEF IInv, GateInv
    <3>2. Cardinality({}) = 0 /\ \A c \in Requests : Cardinality({c}) = 1
      BY FS_EmptySet, FS_Singleton
    <3>3. ASSUME NEW w \in {"image", "tmp"} PROVE Cardinality(written[w].by) <= 1
      BY <3>1, <3>2 DEF Single
    <3>4. QED
      BY <3>3
  <2>2. NoneGoneIsWaiting
    BY <1>1 DEF IInv, Places, NoneGoneIsWaiting
  <2>3. QED
    BY <1>1, <2>1, <2>2 DEF IInv, GateInv, UploadsSafe, OneWriter
<1>2. QED
  BY <1>1, Invariant, PTL

\* The steps that end an upload and that answer it.
LEMMA WhoEnds ==
  ASSUME Typed, Queue, Next, NEW c \in Requests
  PROVE  /\ request[c].at = "sending" /\ request'[c].at = "sent" => Chunk(c)
         /\ request[c].at = "sent" /\ request'[c].at = "answered" => Respond(c)
<1> DEFINE old == request[c].at
           new == request'[c].at
<1> SUFFICES ASSUME old \in {"sending", "sent"}, new \in {"sent", "answered"}, new # old
             PROVE  Chunk(c) \/ (Respond(c) /\ old = "sent")
  <2>1. Chunk(c) => new # "answered"
    BY ChunkRequest DEF Queue
  <2>2. QED
    BY <2>1 DEF Respond
<1>1. ASSUME NEW d \in Requests, Chunk(d) PROVE d = c
  BY <1>1, ChunkRequest DEF Queue
<1>2. ASSUME NEW d \in Requests, Respond(d) PROVE d = c
  BY <1>2 DEF Respond, Put, Typed
<1>3. ASSUME NEW d \in Requests, Disconnect(d) PROVE FALSE
  <2>1. ASSUME Put(d, NoRequest) PROVE FALSE
    BY <2>1, NoRequestFits DEF Put, Typed
  <2>2. ASSUME NEW i \in Waiting,
               request' = [request EXCEPT ![d] = NoRequest,
                                          ![pending[i]] = Started(request[pending[i]])]
        PROVE  FALSE
    <3>1. pending[i] \in Requests /\ request[pending[i]].at = "queued"
      BY DEF Waiting, Queue, Places
    <3>2. pending[i] # c
      BY <3>1
    <3>3. QED
      BY <2>2, <3>1, <3>2, NoRequestFits DEF Typed
  <2>3. QED
    BY <1>3, <2>1, <2>2 DEF Disconnect, NextTransfer
<1>4. ASSUME NEW what, Ask(what) PROVE FALSE
  <2>1. \E r : Put(count', r)
    BY <1>4 DEF Ask, AskFile
  <2>2. count' \in Requests /\ request[count'] = NoRequest
    BY <1>4, Bounds DEF Ask, Queue, Callbacks, Requests
  <2>3. QED
    BY <2>1, <2>2, NoRequestFits DEF Put, Typed
<1>5. CASE Reboot
  BY <1>5, NoRequestFits DEF Reboot
<1>6. CASE Recover \/ AskReboot \/ AbortStalled \/ Tick
  BY <1>6 DEF Recover, AskReboot, AbortStalled, Tick
<1>7. QED
  BY <1>1, <1>2, <1>3, <1>4, <1>5, <1>6 DEF Next, Respond

\* Shades are loaded with the last chunk of a request, and success is answered
\* and a backup restored, only for the whole file of the request.
THEOREM WholeDeedsCorrect == Spec => DeedsOfTheWhole
<1> DEFINE Loads(c) ==
             request[c].for = "shades" /\ request[c].at = "sending" /\ request'[c].at = "sent"
               /\ Owned(gate', c)
           Answers(c) ==
             request[c].at = "sent" /\ request'[c].at = "answered" /\ device'.reboot # device.reboot
<1>1. ASSUME IInv, [Next]_vars
      PROVE  [\A c \in Requests :
                /\ request[c].for = "shades" /\ request[c].at = "sending" /\ request'[c].at = "sent"
                     /\ Owned(gate', c) => WholeFile(c)
                /\ request[c].at = "sent" /\ request'[c].at = "answered"
                     /\ device'.reboot # device.reboot => WholeFile(c)]_vars
  <2>1. Typed /\ Queue /\ Rest /\ GateInv /\ Typed' /\ Queue' /\ GateInv'
    <3>1. IInv'
      BY <1>1, Inductive
    <3>2. Typed' /\ Counted'
      BY <3>1 DEF IInv, TypeOK, Typed, Counted, Request, Uploads, Gates, Devices, Serving
    <3>3. QED
      BY <1>1, <3>1, <3>2, InvParts DEF IInv, Typed, Queue
  <2>2. ASSUME NEW c \in Requests, Next, Loads(c) PROVE WholeFile(c)
    <3>1. Chunk(c)
      BY <2>1, <2>2, WhoEnds
    <3>2. request'[c].for = "shades" /\ "shades" \in Configs /\ "shades" \notin Images
      BY <2>1, <2>2, <3>1, ChunkRequest DEF Queue, Images, Configs
    <3>3. written'["tmp"] = Whole(c, request'[c].sent)
      BY <2>1, <2>2, <3>2, Bounds DEF GateInv, StoresOwn, Owned
    <3>4. request'[c].sent = Chunks
      BY <2>1, <2>2 DEF Queue, Callbacks, Consistent
    <3>5. QED
      BY <2>2, <3>2, <3>3, <3>4 DEF WholeFile, Whole
  <2>3. ASSUME NEW c \in Requests, Next, Answers(c) PROVE WholeFile(c)
    <3>1. Respond(c)
      BY <2>1, <2>3, WhoEnds
    <3>2. Succeeded(c) /\ UNCHANGED written
      BY <2>1, <2>3, <3>1 DEF Respond, Rest, Devices
    <3>3. QED
      BY <2>1, <3>2, Bounds DEF Succeeded, GateInv, SuccessWhole, WholeFile, Whole
  <2>4. QED
    BY <1>1, <2>2, <2>3
<1>2. QED
  BY <1>1, Invariant, PTL DEF DeedsOfTheWhole, Spec

=============================================================================
