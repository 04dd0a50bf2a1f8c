---------------------------- MODULE ConfigFormat ----------------------------
(***************************************************************************)
(* The layout of shades.cfg and of the backup: the records as they are     *)
(* written, and the cursor of ShadeConfigFile as it reads, skips and seeks *)
(* over files of this and of older versions, for any choice of what is to  *)
(* be restored.                                                            *)
(*                                                                         *)
(* A value is a token: what it says is left out, where it stands is all.   *)
(* Values that always come together (the linked remotes, the linked shades,*)
(* the repeaters) are one token.  The layouts of files older than this     *)
(* code's are external; the readers are the code's.                        *)
(***************************************************************************)
EXTENDS Integers, SequencesExt, FiniteSetsExt

CONSTANTS
  Versions,     \* of the files
  MaxRecords    \* bound: records of each kind

ASSUME FormatAssumption == Versions \subseteq 1 .. 99 /\ MaxRecords \in Nat

VARIABLES
  header,    \* version and numbers of records, and how the file departs from the writer
  file,      \* the tokens
  options,   \* restore_options_t
  at, stage, \* the cursor and the part that is read next
  got        \* what was read into what

vars == <<header, file, options, at, stage, got>>

HeaderVersion == 27
Kinds == {"room", "shade", "group", "repeater", "settings", "net", "trans"}

-----------------------------------------------------------------------------
(* What a file of version v holds, in order; v27 is what this code writes, *)
(* and a newer one is taken to append to the shade, as 26 and 27 did.      *)

Since(v, fields) == LET here == SelectSeq(fields, LAMBDA f : f[1] <= v)
                    IN [i \in DOMAIN here |-> here[i][2]]

WriteRoom(v) == Since(v, << <<19, "id">>, <<19, "name">>, <<19, "sort">> >>)

WriteShade(v) == Since(v, <<
  <<1, "id">>, <<1, "paired">>, <<1, "type">>, <<1, "address">>, <<1, "name">>, <<1, "tilt">>, <<7, "proto">>,
  <<2, "bits">>, <<1, "up">>, <<1, "down">>, <<1, "tiltTime">>, <<6, "step">>, <<1, "linked">>, <<1, "code">>,
  <<8, "flags">>, <<1, "my">>, <<4, "myTilt">>, <<1, "pos">>, <<1, "tiltPos">>, <<9, "flip">>, <<10, "flipPos">>,
  <<12, "repeats">>, <<13, "sort">>, <<15, "gpioUp">>, <<15, "gpioDown">>, <<16, "gpioMy">>, <<17, "gpioFlags">>,
  <<19, "room">>, <<26, "lift">>, <<27, "curve">>, <<28, "later">> >>)

WriteGroup(v) == Since(v, <<
  <<11, "id">>, <<11, "type">>, <<11, "address">>, <<11, "name">>, <<11, "proto">>, <<11, "bits">> >>)
  \o (IF v = 23 THEN <<"code">> ELSE <<>>)
  \o Since(v, << <<11, "linked">>, <<12, "repeats">>, <<13, "sort">>, <<18, "flip">>, <<19, "room">>, <<24, "code">> >>)

WriteRepeater(v) == <<"addresses">>

\* Some files of v25 hold an accent color, and only newer ones of the same
\* version the presets.
WriteSettings(v, departs) ==
  <<"firmware", "host", "ntp", "zone">>
  \o (IF v >= 26 \/ (v = 25 /\ "accent" \in departs) THEN <<"accent">> ELSE <<>>)
  \o Since(v, << <<14, "ssdp">>, <<20, "check">>, <<25, "language">> >>)
  \o (IF v >= 25 /\ "no presets" \notin departs THEN <<"presets">> ELSE <<>>)

WriteNet(v) ==
  <<"connection", "dhcp", "ip", "gateway", "subnet", "dns1", "dns2">>
  \o (IF v >= 22 THEN <<"protocol", "host", "port", "discovery", "topic", "discoTopic">> ELSE <<>>)
  \o <<"board", "phy", "clock", "phyAddress", "power", "mdc", "mdio">>

WriteTrans(v, departs) ==
  <<"enabled", "proto", "type">> \o (IF "other radio" \in departs THEN <<>> ELSE <<"board">>)
  \o <<"sck", "csn", "mosi", "miso", "tx", "rx", "frequency", "bandwidth", "deviation", "power">>
  \o (IF "other radio" \in departs THEN <<"noise">> ELSE <<>>)

Token(kind, n, field) == [kind |-> kind, n |-> n, field |-> field]
Record(kind, n, fields) ==
  [i \in DOMAIN fields |-> [value |-> Token(kind, n, fields[i]), last |-> i = Len(fields)]]
Records(kind, number, fields) == FlattenSeq([n \in 1 .. number |-> Record(kind, n, fields)])

\* backup(), and save(), which stops after the repeaters.
Written(h) ==
  LET v == h.version IN
  (IF v >= 19 THEN Records("room", h.room, WriteRoom(v)) ELSE <<>>)
  \o Records("shade", h.shade, WriteShade(v))
  \o (IF v > 10 THEN Records("group", h.group, WriteGroup(v)) ELSE <<>>)
  \o Records("repeater", h.repeater, WriteRepeater(v))
  \o (IF h.backup THEN Record("settings", 1, WriteSettings(v, h.departs)) \o Record("net", 1, WriteNet(v))
                       \o Record("trans", 1, WriteTrans(v, h.departs))
      ELSE <<>>)

\* "short": the settings record is declared shorter than it is; "same board":
\* the file is this device's own.
Departures == {"accent", "no presets", "short", "other radio", "same board"}
Options == SUBSET {"shades", "repeaters", "settings", "network", "mqtt", "transceiver"}

Headers ==
  [version : Versions, room : 0 .. MaxRecords, shade : 0 .. MaxRecords, group : 0 .. MaxRecords,
   repeater : {0, 1}, backup : BOOLEAN, departs : SUBSET Departures]

\* What older versions had not got, this one always has, or only matters together.
Sensible(h) ==
  /\ h.room > 0 => h.version >= 19
  /\ h.group > 0 => h.version > 10
  /\ h.repeater = 1 <=> h.version >= 21
  /\ h.backup => h.version > 13
  /\ "accent" \in h.departs => h.version = 25
  /\ "no presets" \in h.departs => h.version >= 25
  /\ h.departs # {} => h.backup

Init ==
  /\ header \in {h \in Headers : Sensible(h)} /\ file = Written(header)
  /\ options \in Options /\ (~header.backup => options = {"shades", "repeaters"})
  /\ at = 1 /\ stage = "rooms" /\ got = {}

-----------------------------------------------------------------------------
(* The cursor: at is the next token.                                       *)

Beyond == Token("none", 0, "none")
ValueAt(p) == IF p \in DOMAIN file THEN file[p].value ELSE Beyond

\* Fields read one after the other from p.
ReadFrom(p, kind, n, fields) == {<<Token(kind, n, fields[i]), ValueAt(p + i - 1)>> : i \in DOMAIN fields}

\* seekChar(CFG_REC_END)
SeekRecordEnd(p) ==
  LET ends == {q \in DOMAIN file : q >= p /\ file[q].last}
  IN IF ends = {} THEN Len(file) + 1 ELSE Min(ends) + 1

\* endRecord() stays when the last value read ended the record.
EndRecord(p) == IF p - 1 \in DOMAIN file /\ file[p - 1].last THEN p ELSE SeekRecordEnd(p)

-----------------------------------------------------------------------------
(* The readers, by version.                                                *)

If(c, fields) == IF c THEN fields ELSE <<>>

ReadRoomRecord == <<"id", "name", "sort">>

ReadShadeRecord ==
  LET v == header.version IN
  <<"id", "paired", "type", "address", "name", "tilt">> \o If(v > 6, <<"proto">>) \o If(v > 1, <<"bits">>)
  \o <<"up", "down", "tiltTime">> \o If(v > 5, <<"step">>) \o <<"linked", "code">> \o If(v > 7, <<"flags">>)
  \o <<"my">> \o If(v >= 4, <<"myTilt">>) \o <<"pos", "tiltPos">> \o If(v >= 9, <<"flip">>) \o If(v >= 10, <<"flipPos">>)
  \o If(v >= 12, <<"repeats">>) \o If(v >= 13, <<"sort">>) \o If(v > 14, <<"gpioUp", "gpioDown">>)
  \o If(v > 15, <<"gpioMy">>) \o If(v > 16, <<"gpioFlags">>) \o If(v >= 19, <<"room">>)
  \o If(v > 25, <<"lift">>) \o If(v > 26, <<"curve">>)

ReadGroupRecord ==
  LET v == header.version IN
  <<"id", "type", "address", "name", "proto", "bits">> \o If(v = 23, <<"code">>) \o <<"linked">>
  \o If(v >= 12, <<"repeats">>) \o If(v >= 13, <<"sort">>) \o If(v >= 18, <<"flip">>) \o If(v >= 19, <<"room">>)
  \o If(v >= 24, <<"code">>)

\* v25 files hold an accent color when the next value is quoted, and presets
\* follow a language that did not end the record.
HasAccent(p) == header.version >= 26 \/ (header.version = 25 /\ ValueAt(p).field = "accent")
HasPresets(p) == header.version >= 25 /\ ~file[p - 1].last
ReadSettingsRecord(p) ==
  LET v == header.version
      upTo == <<"firmware", "host", "ntp", "zone">> \o If(HasAccent(p + 4), <<"accent">>)
              \o <<"ssdp">> \o If(v >= 20, <<"check">>) \o If(v >= 25, <<"language">>)
  IN upTo \o If(HasPresets(p + Len(upTo)), <<"presets">>)

\* Bug: the Ethernet pins of another board.
AnyBoard == TRUE

SameBoard == "same board" \in header.departs

\* What is not asked for is skipped value by value.
NetFields == <<"connection", "dhcp", "ip", "gateway", "subnet", "dns1", "dns2">>
MqttFields == <<"protocol", "host", "port", "discovery", "topic", "discoTopic">>
PinFields == <<"board", "phy", "clock", "phyAddress", "power", "mdc", "mdio">>

ReadTransRecord ==
  <<"enabled", "proto", "type", "board", "sck", "csn", "mosi", "miso", "tx", "rx",
    "frequency", "bandwidth", "deviation", "power">>

-----------------------------------------------------------------------------
(* restoreFile(), one record a step; loadFile() is a restore of everything *)
(* save() writes.                                                          *)

Go(p, next, values) == at' = p /\ stage' = next /\ got' = got \union values /\ UNCHANGED <<header, file, options>>

\* A restore refuses a newer file.  The boot's loadFile() does not, and reads what a
\* newer firmware has left.  Files of other lineages, which the size of their shade
\* record gives away (632-639), are left out.
Newer == header.version > HeaderVersion
Refuse ==
  /\ stage = "rooms" /\ at = 1 /\ Newer
  /\ Go(at, "refused", {})

\* How far the records of one kind have been read.
ReadSoFar(kind) == Cardinality({n \in 1 .. MaxRecords : \E r \in got : r[1].kind = kind /\ r[1].n = n})

ReadRecords(kind, fields, next) ==
  LET n == ReadSoFar(kind) + 1 IN
  IF n > header[kind] THEN Go(at, next, {})
  ELSE Go(EndRecord(at + Len(fields)), stage, ReadFrom(at, kind, n, fields))

ReadRooms ==
  /\ stage = "rooms" /\ "shades" \in options /\ (Newer => ~header.backup)
  /\ ReadRecords("room", ReadRoomRecord, "shades")
ReadShades == stage = "shades" /\ ReadRecords("shade", ReadShadeRecord, "groups")
ReadGroups == stage = "groups" /\ ReadRecords("group", ReadGroupRecord, "repeaters")

\* The numbers of records times the sizes validate() has observed.
Skipped ==
  LET v == header.version IN
  Len(Records("shade", header.shade, WriteShade(v))) + Len(Records("group", header.group, WriteGroup(v)))
  + (IF v >= 19 THEN Len(Records("room", header.room, WriteRoom(v))) ELSE 0)

SkipShades ==
  /\ stage = "rooms" /\ "shades" \notin options /\ ~Newer
  /\ Go(at + Skipped, "repeaters", {})

ReadRepeaters ==
  /\ stage = "repeaters" /\ "repeaters" \in options
  /\ ReadRecords("repeater", <<"addresses">>, "settings")
SkipRepeaters ==
  /\ stage = "repeaters" /\ "repeaters" \notin options
  /\ Go(at + header.repeater, "settings", {})

\* Bug: the settings are skipped by the size they are declared with.
SkipSettingsBySize ==
  /\ stage = "settings" /\ header.backup /\ "settings" \notin options
  /\ Go(IF "short" \in header.departs THEN SeekRecordEnd(at) - 1 ELSE SeekRecordEnd(at), "net", {})

ReadSettings ==
  /\ stage = "settings" /\ header.backup /\ "settings" \in options
  /\ LET fields == ReadSettingsRecord(at)
     IN Go(EndRecord(at + Len(fields)), "net", ReadFrom(at, "settings", 1, fields))
SkipSettings ==
  /\ stage = "settings" /\ header.backup /\ "settings" \notin options
  /\ Go(SeekRecordEnd(at), "net", {})

\* readNetRecord(): the network's values, then MQTT's, then the pins.
ReadNet ==
  /\ stage = "net" /\ header.backup /\ options \intersect {"network", "mqtt"} # {}
  /\ LET mqtt == at + Len(NetFields)
         pins == mqtt + (IF header.version >= 22 THEN Len(MqttFields) ELSE 0)
         takesPins == "network" \in options /\ SameBoard
         values(asked, p, fields) == IF asked THEN ReadFrom(p, "net", 1, fields) ELSE {}
     IN Go(EndRecord(pins + (IF takesPins THEN Len(PinFields) ELSE 0)), "trans",
           values("network" \in options, at, NetFields)
           \union values("mqtt" \in options /\ header.version >= 22, mqtt, MqttFields)
           \union values(takesPins, pins, PinFields))
SkipNet ==
  /\ stage = "net" /\ header.backup /\ options \intersect {"network", "mqtt"} = {}
  /\ Go(SeekRecordEnd(at), "trans", {})

\* A transceiver record is only read when it has this code's size.
ReadTrans ==
  /\ stage = "trans" /\ header.backup
  /\ IF "transceiver" \in options /\ "other radio" \notin header.departs
     THEN Go(EndRecord(at + Len(ReadTransRecord)), "done", ReadFrom(at, "trans", 1, ReadTransRecord))
     ELSE Go(at, "done", {})

NoBackup == stage = "settings" /\ ~header.backup /\ Go(at, "done", {})

Next ==
  \/ Refuse \/ ReadRooms \/ ReadShades \/ ReadGroups \/ SkipShades \/ ReadRepeaters \/ SkipRepeaters
  \/ ReadSettings \/ SkipSettings \/ ReadNet \/ SkipNet \/ ReadTrans \/ NoBackup

Spec == Init /\ [][Next]_vars

-----------------------------------------------------------------------------
(* Properties.                                                             *)

(* Every value read is the value of its own field of its own record,       *)
(* whatever was restored or skipped before it ("every field after it read  *)
(* the value of the one before").                                          *)
Aligned == \A r \in got : r[1] = r[2]

OptionOf(value) ==
  CASE value.kind \in {"room", "shade", "group"} -> "shades"
    [] value.kind = "repeater" -> "repeaters"
    [] value.kind = "settings" -> "settings"
    [] value.kind = "net" -> IF value.field \in Range(MqttFields) THEN "mqtt" ELSE "network"
    [] OTHER -> "transceiver"

\* Values nothing takes over: another board's pins, another radio's record, and what
\* only a newer firmware knows.
Kept(value) ==
  \/ value.field = "later"
  \/ value.kind = "net" /\ value.field \in Range(PinFields) /\ "same board" \notin header.departs
  \/ value.kind = "trans" /\ "other radio" \in header.departs

(* A restore takes over every value the file has of what was asked for,    *)
(* and no other: no setting of what was left alone, no pin of another      *)
(* board, no record of another radio.                                      *)
RestoresWhatWasAsked ==
  stage = "done" =>
    {r[1] : r \in got} = {v \in {file[p].value : p \in DOMAIN file} : OptionOf(v) \in options /\ ~Kept(v)}

=============================================================================
