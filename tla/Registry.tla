------------------------------ MODULE Registry ------------------------------
(***************************************************************************)
(* The shades, groups and rooms of SomfyShadeController: the slots they    *)
(* occupy, their ids, remote addresses and rolling codes, as handlers add, *)
(* save, link and delete them, as files are saved, restored and uploaded,  *)
(* and as the device restarts at any moment.                               *)
(*                                                                         *)
(* Names, motors, positions and sort orders are left out, as are linked    *)
(* remotes and repeaters, which concern nothing but themselves.  A file is *)
(* whole and is written in one step (see ConfigStore).                     *)
(***************************************************************************)
EXTENDS Integers, Sequences, FiniteSetsExt

CONSTANTS
  MaxShades, MaxGroups, MaxRooms,  \* slots; the two last ids are never given
  MaxLinked,    \* SOMFY_MAX_GROUPED_SHADES
  Addresses,    \* of remotes; the device proposes its own from 1 on
  MaxChanges,   \* bound: requests that change the registry
  MaxSends      \* bound: frames sent

ASSUME RegistryAssumption ==
  /\ MaxShades \in 3 .. 255 /\ MaxGroups \in 3 .. MaxShades /\ MaxRooms \in Nat /\ MaxRooms >= 3
  /\ MaxLinked \in Nat \ {0} /\ IsFiniteSet(Addresses)
  /\ Addresses = 1 .. Cardinality(Addresses) /\ MaxShades - 1 \in Addresses
  /\ MaxChanges \in Nat /\ MaxSends \in Nat

VARIABLES
  shades, groups, rooms,  \* the slots
  nvs,          \* ShadeCodes: the rolling code of each address
  file, backup, \* shades.cfg and a file the user keeps
  proposed,     \* addresses proposed to a dialog that is still open
  sent,         \* history: the last code on the air from each address
  stale,        \* history: something was put in a room that was gone
  unsaved,      \* history: a file was loaded that nothing has saved since
  changes, sends

slots == <<shades, groups, rooms>>
history == <<sent, stale, unsaved>>
vars == <<slots, nvs, file, backup, proposed, history, changes, sends>>

Nobody == 255
NoRoom == 0
NoShade == [id |-> Nobody, address |-> 0, room |-> NoRoom, code |-> 0]
NoLinks == [i \in 1 .. MaxLinked |-> 0]
NoGroup == [id |-> Nobody, address |-> 0, room |-> NoRoom, code |-> 0, linked |-> NoLinks]
NoFile == [shades |-> <<>>, groups |-> <<>>, rooms |-> <<>>]

\* A device as it was set up: some shades, and one group and one room if any.
Init ==
  \E n \in 0 .. MaxShades - 2 :
    LET k == Min({n, 1}) IN
    /\ shades = [i \in 1 .. MaxShades |-> IF i <= n THEN [NoShade EXCEPT !.id = i, !.address = i] ELSE NoShade]
    /\ groups = [i \in 1 .. MaxGroups |->
         IF i <= k THEN [NoGroup EXCEPT !.id = i, !.address = n + 1] ELSE NoGroup]
    /\ rooms = [i \in 1 .. MaxRooms |-> IF i <= k THEN i ELSE NoRoom]
    /\ file = [shades |-> SubSeq(shades, 1, n), groups |-> SubSeq(groups, 1, k), rooms |-> SubSeq(rooms, 1, k)]
    /\ nvs = [a \in Addresses |-> 0] /\ backup = NoFile
    /\ proposed = {} /\ sent = [a \in Addresses |-> 0] /\ stale = FALSE /\ unsaved = FALSE
    /\ changes = 0 /\ sends = 0

-----------------------------------------------------------------------------
(* Slots and ids.                                                          *)

\* What a table has in some of its slots, in their order and without gaps.
Rank(at, i) == Cardinality({j \in at : j <= i})
Packed(table, at) ==
  [k \in 1 .. Cardinality(at) |-> table[CHOOSE i \in at : Rank(at, i) = k]]

Used(table) == {i \in DOMAIN table : table[i].id # Nobody}
UsedRooms(table) == {i \in DOMAIN table : table[i] # NoRoom}
IdsOf(table) == {table[i].id : i \in Used(table)}
RoomIds == {rooms[i] : i \in DOMAIN rooms} \ {NoRoom}

\* getNextShadeId(), getNextGroupId(), getNextRoomId(): the least free one.
FreeIds(ids, size) == (1 .. size - 2) \ ids

\* Bug: the slot of the id, whoever is in it.
SlotOfId(table, id) == {id}

\* The first slot that is empty, wherever its id would stand.
FreeSlot(table, id) == IF Used(table) = DOMAIN table THEN {} ELSE {Min(DOMAIN table \ Used(table))}

\* getNextRemoteAddress(): from the id's on, the first that nobody uses.
NextAddress(id) ==
  Min({a \in Addresses \union {Cardinality(Addresses) + 1} : a >= id}
      \ ({shades[i].address : i \in Used(shades)} \union {groups[i].address : i \in Used(groups)}))

\* clear(): a shade's slot keeps its room, a group's its code.
ClearedShade(s) == [NoShade EXCEPT !.room = s.room]
ClearedGroup(g) == [NoGroup EXCEPT !.code = g.code]

\* hasShadeId() stops at the first empty entry.
HasShade(g, id) ==
  \E i \in 1 .. MaxLinked : g.linked[i] = id /\ \A j \in 1 .. i : g.linked[j] # 0
InGroup(id) == \E i \in Used(groups) : HasShade(groups[i], id)

\* compressLinkedShadeIds()
Compressed(linked) ==
  LET ids == Packed(linked, {j \in DOMAIN linked : linked[j] # 0})
  IN [i \in 1 .. MaxLinked |-> IF i <= Len(ids) THEN ids[i] ELSE 0]

-----------------------------------------------------------------------------
(* Files: the used slots, packed.                                          *)

Image(s, g, r) ==
  [shades |-> Packed(s, Used(s)), groups |-> Packed(g, Used(g)), rooms |-> Packed(r, UsedRooms(r))]

\* commit()
Commit == file' = Image(shades', groups', rooms') /\ unsaved' = FALSE

\* Bug: the file's code counts, whatever has been sent since.
CodesOfFile(recs, i) == recs[i].code

\* readShadeRecord(), readGroupRecord(): the largest of the record's code and
\* the one NVS has by then, which the records before may have raised.
CodeRead(recs, i) ==
  Max({nvs[recs[i].address]} \union {recs[j].code : j \in {k \in 1 .. i : recs[k].address = recs[i].address}})

\* Records of a file into the slots, the codes into NVS; the slots beyond become
\* what is given for them.
Read(f, otherShades, otherGroups) ==
  LET recs == f.shades \o f.groups IN
  /\ shades' = [i \in DOMAIN shades |->
       IF i <= Len(f.shades) THEN [f.shades[i] EXCEPT !.code = CodeRead(recs, i)] ELSE otherShades[i]]
  /\ groups' = [i \in DOMAIN groups |->
       IF i <= Len(f.groups) THEN [f.groups[i] EXCEPT !.code = CodeRead(recs, Len(f.shades) + i)]
       ELSE otherGroups[i]]
  /\ nvs' = [a \in Addresses |->
       LET of == {i \in DOMAIN recs : recs[i].address = a}
       IN IF of = {} THEN nvs[a] ELSE CodeRead(recs, Max(of))]

RoomsOf(f, others) == [i \in DOMAIN rooms |-> IF i <= Len(f.rooms) THEN f.rooms[i] ELSE others[i]]

-----------------------------------------------------------------------------
(* Requests.  A form is as its browser last saw the registry.              *)

Changes == changes < MaxChanges /\ changes' = changes + 1 /\ UNCHANGED <<backup, sends>>
Rooms == 0 .. MaxRooms - 2
Unnamed == MaxRooms
Names(room) == stale' = (stale \/ room \notin RoomIds \union {NoRoom})

\* /getNextShade, /getNextGroup
Propose ==
  /\ \E ids \in {FreeIds(IdsOf(shades), MaxShades), FreeIds(IdsOf(groups), MaxGroups)} :
       /\ ids # {} /\ NextAddress(Min(ids)) \in Addresses
       /\ proposed' = proposed \union {NextAddress(Min(ids))} /\ proposed' # proposed
  /\ UNCHANGED <<slots, nvs, file, backup, history, changes, sends>>

\* fromJSON(): a form that names no room keeps the slot's.
Form(x, address, room) ==
  [x EXCEPT !.address = address, !.room = IF room = Unnamed THEN @ ELSE room]

\* addShade() and the form's values, saved.
AddShade(address, room) ==
  /\ Changes /\ FreeIds(IdsOf(shades), MaxShades) # {} /\ address \in proposed
  /\ LET id == Min(FreeIds(IdsOf(shades), MaxShades)) IN
     \E i \in FreeSlot(shades, id) :
       /\ shades' = [shades EXCEPT ![i] = Form([@ EXCEPT !.id = id], address, room)]
       /\ Names(shades'[i].room)
  /\ proposed' = proposed \ {address}
  /\ UNCHANGED <<groups, rooms, nvs, sent>> /\ Commit

AddGroup(address, room) ==
  /\ Changes /\ FreeIds(IdsOf(groups), MaxGroups) # {} /\ address \in proposed
  /\ LET id == Min(FreeIds(IdsOf(groups), MaxGroups)) IN
     \E i \in FreeSlot(groups, id) :
       groups' = [groups EXCEPT ![i] = Form([@ EXCEPT !.id = id], address, room)]
  /\ proposed' = proposed \ {address} /\ Names(room)
  /\ UNCHANGED <<shades, rooms, nvs, sent>> /\ Commit

AddRoom ==
  /\ Changes /\ FreeIds(RoomIds, MaxRooms) # {}
  /\ \E i \in DOMAIN rooms :
       /\ rooms[i] = NoRoom /\ \A j \in 1 .. i - 1 : rooms[j] # NoRoom
       /\ rooms' = [rooms EXCEPT ![i] = Min(FreeIds(RoomIds, MaxRooms))]
  /\ UNCHANGED <<shades, groups, nvs, proposed, sent, stale>> /\ Commit

SaveShade(i, address, room) ==
  /\ Changes /\ shades[i].id # Nobody
  /\ shades' = [shades EXCEPT ![i] = Form(@, address, room)] /\ Names(room)
  /\ UNCHANGED <<groups, rooms, nvs, proposed, sent>> /\ Commit

SaveGroup(i, address, room) ==
  /\ Changes /\ groups[i].id # Nobody
  /\ groups' = [groups EXCEPT ![i] = Form(@, address, room)] /\ Names(room)
  /\ UNCHANGED <<shades, rooms, nvs, proposed, sent>> /\ Commit

\* The name of a room, the pairing of a shade: nothing this module knows, saved.
SaveRoom ==
  /\ Changes /\ RoomIds # {}
  /\ UNCHANGED <<slots, nvs, proposed, sent, stale>> /\ Commit
SetPaired ==
  /\ Changes /\ Used(shades) # {}
  /\ UNCHANGED <<slots, nvs, proposed, sent, stale>> /\ Commit

DeleteShade(i) ==
  /\ Changes /\ shades[i].id # Nobody /\ ~InGroup(shades[i].id)
  /\ shades' = [s \in DOMAIN shades |-> IF shades[s].id = shades[i].id THEN ClearedShade(shades[s]) ELSE shades[s]]
  /\ UNCHANGED <<groups, rooms, nvs, proposed, sent, stale>> /\ Commit

DeleteGroup(i) ==
  /\ Changes /\ groups[i].id # Nobody
  /\ groups' = [g \in DOMAIN groups |-> IF groups[g].id = groups[i].id THEN ClearedGroup(groups[g]) ELSE groups[g]]
  /\ UNCHANGED <<shades, rooms, nvs, proposed, sent, stale>> /\ Commit

Leave(table, room) == [i \in DOMAIN table |-> IF table[i].room = room THEN [table[i] EXCEPT !.room = NoRoom] ELSE table[i]]

DeleteRoom(room) ==
  /\ Changes /\ room \in RoomIds
  /\ shades' = Leave(shades, room) /\ groups' = Leave(groups, room)
  /\ rooms' = [i \in DOMAIN rooms |-> IF rooms[i] = room THEN NoRoom ELSE rooms[i]]
  /\ UNCHANGED <<nvs, proposed, sent, stale>> /\ Commit

\* linkShade(): once, in the first empty entry, if there is one.
LinkToGroup(i, id) ==
  /\ Changes /\ groups[i].id # Nobody /\ id \in IdsOf(shades)
  /\ \A j \in 1 .. MaxLinked : groups[i].linked[j] # id
  /\ \E j \in 1 .. MaxLinked :
       /\ groups[i].linked[j] = 0 /\ \A k \in 1 .. j - 1 : groups[i].linked[k] # 0
       /\ groups' = [groups EXCEPT ![i].linked[j] = id]
  /\ UNCHANGED <<shades, rooms, nvs, proposed, sent, stale>> /\ Commit

\* Bug: unlinking is not saved.
UnlinkUnsaved(i, id) ==
  /\ Changes /\ groups[i].id # Nobody /\ id \in IdsOf(shades)
  /\ groups' = [groups EXCEPT ![i].linked = Compressed([j \in DOMAIN @ |-> IF @[j] = id THEN 0 ELSE @[j]])]
  /\ UNCHANGED <<shades, rooms, nvs, file, proposed, history>>

UnlinkFromGroup(i, id) ==
  /\ Changes /\ groups[i].id # Nobody /\ id \in IdsOf(shades)
  /\ id \in {groups[i].linked[j] : j \in 1 .. MaxLinked}
  /\ groups' = [groups EXCEPT ![i].linked = Compressed([j \in DOMAIN @ |-> IF @[j] = id THEN 0 ELSE @[j]])]
  /\ UNCHANGED <<shades, rooms, nvs, proposed, sent, stale>> /\ Commit

-----------------------------------------------------------------------------
(* Rolling codes.                                                          *)

NextCode(table, i) == nvs[table[i].address] + 1

SendFrom(a) ==
  /\ sends < MaxSends /\ sends' = sends + 1
  /\ nvs' = [nvs EXCEPT ![a] = @ + 1] /\ sent' = [sent EXCEPT ![a] = nvs'[a]]

SendShade(i) ==
  /\ shades[i].id # Nobody /\ SendFrom(shades[i].address)
  /\ shades' = [shades EXCEPT ![i].code = NextCode(shades, i)]
  /\ UNCHANGED <<groups, rooms, file, backup, proposed, stale, unsaved, changes>>

SendGroup(i) ==
  /\ groups[i].id # Nobody /\ SendFrom(groups[i].address)
  /\ groups' = [groups EXCEPT ![i].code = NextCode(groups, i)]
  /\ UNCHANGED <<shades, rooms, file, backup, proposed, stale, unsaved, changes>>

\* A Prog frame, then the shade is saved.
UnpairShade(i) ==
  /\ shades[i].id # Nobody /\ SendFrom(shades[i].address)
  /\ shades' = [shades EXCEPT ![i].code = NextCode(shades, i)]
  /\ UNCHANGED <<groups, rooms, backup, proposed, stale, changes>> /\ Commit

\* The user sets a later code by hand, which is not saved.  The code the shade
\* already has is not written to NVS.
SetRollingCode(i) ==
  /\ shades[i].id # Nobody /\ sends < MaxSends /\ sends' = sends + 1
  /\ LET code == NextCode(shades, i) + 1 IN
       /\ shades[i].code # code
       /\ shades' = [shades EXCEPT ![i].code = code]
       /\ nvs' = [nvs EXCEPT ![shades[i].address] = code]
  /\ UNCHANGED <<groups, rooms, file, backup, proposed, history, changes>>

-----------------------------------------------------------------------------
(* Files, and restarts.                                                    *)

Download ==
  /\ backup # Image(shades, groups, rooms) /\ backup' = Image(shades, groups, rooms)
  /\ UNCHANGED <<slots, nvs, file, proposed, history, changes, sends>>

\* What is beyond the file's shades and groups is cleared.
ReadBackup ==
  Read(backup, [i \in DOMAIN shades |-> ClearedShade(shades[i])],
               [i \in DOMAIN groups |-> ClearedGroup(groups[i])])

\* restoreFile() keeps the rooms beyond the file's, and commits.
Restore ==
  /\ Changes /\ backup # NoFile
  /\ ReadBackup
  /\ rooms' = RoomsOf(backup, rooms)
  /\ UNCHANGED <<proposed, sent, stale>> /\ Commit

\* /updateShadeConfig: loadFile(), and nothing is saved.
UploadConfig ==
  /\ Changes /\ backup # NoFile
  /\ ReadBackup
  /\ rooms' = RoomsOf(backup, [i \in DOMAIN rooms |-> NoRoom])
  /\ unsaved' = TRUE
  /\ UNCHANGED <<file, proposed, sent, stale>>

\* A restart, after a power cut or not.
Restart ==
  /\ Read(file, [i \in DOMAIN shades |-> NoShade], [i \in DOMAIN groups |-> NoGroup])
  /\ rooms' = RoomsOf(file, [i \in DOMAIN rooms |-> NoRoom]) /\ slots' # slots
  /\ unsaved' = FALSE
  /\ UNCHANGED <<file, backup, proposed, sent, stale, changes, sends>>

-----------------------------------------------------------------------------
Next ==
  \/ Propose \/ AddRoom \/ SaveRoom \/ SetPaired \/ Download \/ Restore \/ UploadConfig \/ Restart
  \/ \E a \in proposed, room \in Rooms : AddShade(a, room) \/ AddGroup(a, room)
  \/ \E a \in proposed : AddShade(a, Unnamed)
  \/ \E room \in Rooms : DeleteRoom(room)
  \/ \E i \in DOMAIN shades : DeleteShade(i) \/ SendShade(i) \/ UnpairShade(i) \/ SetRollingCode(i)
  \/ \E i \in DOMAIN groups : DeleteGroup(i) \/ SendGroup(i)
  \/ \E i \in DOMAIN shades, a \in Addresses, room \in Rooms : SaveShade(i, a, room)
  \/ \E i \in DOMAIN groups, a \in Addresses, room \in Rooms : SaveGroup(i, a, room)
  \/ \E i \in DOMAIN groups, id \in 1 .. MaxShades - 2 : LinkToGroup(i, id) \/ UnlinkFromGroup(i, id)

Spec == Init /\ [][Next]_vars

-----------------------------------------------------------------------------
(* Properties.                                                             *)

TypeOK ==
  /\ \A i \in DOMAIN shades : /\ shades[i].id \in (1 .. MaxShades - 2) \union {Nobody}
                              /\ shades[i].address \in Addresses \union {0} /\ shades[i].room \in Rooms
  /\ \A i \in DOMAIN groups : /\ groups[i].id \in (1 .. MaxGroups - 2) \union {Nobody}
                              /\ \A j \in 2 .. MaxLinked : groups[i].linked[j] # 0 => groups[i].linked[j - 1] # 0
  /\ \A i \in DOMAIN rooms : rooms[i] \in Rooms
  /\ proposed \subseteq Addresses

(* No two shades and no two groups ever have the same id, through adds     *)
(* after deletes, files that pack the slots, and restores over a running   *)
(* registry ("slot shadeId - 1 can hold another shade, which this used to  *)
(* overwrite").                                                            *)
IdsDistinct ==
  /\ \A i, j \in Used(shades) : shades[i].id = shades[j].id => i = j
  /\ \A i, j \in Used(groups) : groups[i].id = groups[j].id => i = j

(* What a group's entries name is a shade that is there: no shade that is  *)
(* added later joins a group because it was given the id of one that left. *)
MembersExist ==
  \A i \in Used(groups), j \in 1 .. MaxLinked : groups[i].linked[j] \in IdsOf(shades) \union {0}

(* A shade or a group is in no room or in one that is there, through       *)
(* deletes, restores and slots used again, unless it was put in a room     *)
(* that was gone: by a form opened before, or by one that names no room,   *)
(* for a slot whose last shade was cleared in that room.                   *)
RoomsExist ==
  stale \/ /\ \A i \in Used(shades) : shades[i].room \in RoomIds \union {NoRoom}
           /\ \A i \in Used(groups) : groups[i].room \in RoomIds \union {NoRoom}

(* All of it, through every change, restart and file.                      *)
RegistrySound == TypeOK /\ IdsDistinct /\ MembersExist /\ RoomsExist

(* The file has the registry as it is, so that a restart at any moment     *)
(* loses no shade, group, room or link.                                    *)
Known(r) == [r EXCEPT !.code = 0]
SurvivesRestart ==
  LET now == Image(shades, groups, rooms) IN
  unsaved \/ /\ [i \in DOMAIN file.shades |-> Known(file.shades[i])] = [i \in DOMAIN now.shades |-> Known(now.shades[i])]
             /\ [i \in DOMAIN file.groups |-> Known(file.groups[i])] = [i \in DOMAIN now.groups |-> Known(now.groups[i])]
             /\ file.rooms = now.rooms

(* NVS always has the last code that was on the air from an address, or a  *)
(* later one, so that the next frame's is later still: whatever shades and *)
(* groups have had the address, were moved to it, deleted, restored or     *)
(* read from an old file.                                                  *)
CodesRise ==
  [][\A a \in Addresses : sent'[a] >= sent[a] /\ nvs'[a] >= sent'[a]]_vars

=============================================================================
