---------------------------- MODULE RegistryProofs ----------------------------
(***************************************************************************)
(* Registry proved for any numbers of slots, addresses, changes and sends: *)
(* ids, members and rooms stay sound, the file has what the memory has,    *)
(* and codes only rise.                                                    *)
(***************************************************************************)
EXTENDS Registry, FiniteSetTheorems, SequenceTheorems, WellFoundedInduction, TLAPS

LEMMA Sizes ==
  /\ MaxShades \in Nat /\ MaxShades >= 3 /\ MaxShades <= 255
  /\ MaxGroups \in Nat /\ MaxGroups >= 3 /\ MaxGroups <= MaxShades
  /\ MaxRooms \in Nat /\ MaxRooms >= 3 /\ MaxLinked \in Nat /\ MaxLinked > 0
  /\ IsFiniteSet(Addresses) /\ Cardinality(Addresses) \in Nat /\ Addresses = 1 .. Cardinality(Addresses)
  /\ MaxShades - 1 \in Addresses
BY RegistryAssumption, FS_CardinalityType DEF RegistryAssumption

-----------------------------------------------------------------------------
(* The largest and the least.                                              *)

LEMMA Largest ==
  ASSUME NEW S, IsFiniteSet(S), S # {}, S \subseteq Int
  PROVE  Max(S) \in S /\ \A y \in S : Max(S) >= y
<1> DEFINE above(x) == {y \in S : y > x}
           T == {above(x) : x \in S}
           R == StrictSubsetOrdering(S)
<1>1. IsWellFoundedOn(R, SUBSET S)
  BY FS_StrictSubsetOrderingWellFounded, FS_FiniteSubsetsOfFinite
<1>2. T \subseteq SUBSET S /\ T # {}
  OBVIOUS
<1>3. PICK t \in T : \A u \in T : ~(<<u, t>> \in R)
  <2> HIDE DEF T, R
  <2>1. QED
    BY <1>1, <1>2, WFMin
<1>4. PICK x \in S : t = above(x)
  OBVIOUS
<1>5. \A y \in S : x >= y
  <2> SUFFICES ASSUME NEW y \in S, ~(x >= y) PROVE FALSE
    OBVIOUS
  <2>1. y > x /\ x \in Int /\ y \in Int
    OBVIOUS
  <2>2. \A z \in S : z > y => z > x
    BY <2>1
  <2>3. above(y) \subseteq above(x) /\ y \in above(x) /\ y \notin above(y)
    <3>1. above(y) \subseteq above(x)
      BY <2>2
    <3>2. y \in above(x)
      BY <2>1
    <3>3. ~(y > y)
      BY <2>1
    <3>4. QED
      BY <3>1, <3>2, <3>3
  <2>4. <<above(y), above(x)>> \in R
    BY <2>3 DEF StrictSubsetOrdering
  <2>5. QED
    BY <1>3, <1>4, <2>4
<1>6. \E m \in S : \A y \in S : m >= y
  BY <1>5
<1> HIDE DEF T, R
<1>7. QED
  BY <1>6 DEF Max

LEMMA Least ==
  ASSUME NEW S, IsFiniteSet(S), S # {}, S \subseteq Int
  PROVE  Min(S) \in S /\ \A y \in S : Min(S) <= y
<1> DEFINE below(x) == {y \in S : y < x}
           T == {below(x) : x \in S}
           R == StrictSubsetOrdering(S)
<1>1. IsWellFoundedOn(R, SUBSET S)
  BY FS_StrictSubsetOrderingWellFounded, FS_FiniteSubsetsOfFinite
<1>2. T \subseteq SUBSET S /\ T # {}
  OBVIOUS
<1>3. PICK t \in T : \A u \in T : ~(<<u, t>> \in R)
  <2> HIDE DEF T, R
  <2>1. QED
    BY <1>1, <1>2, WFMin
<1>4. PICK x \in S : t = below(x)
  OBVIOUS
<1>5. \A y \in S : x <= y
  <2> SUFFICES ASSUME NEW y \in S, ~(x <= y) PROVE FALSE
    OBVIOUS
  <2>1. y < x /\ x \in Int /\ y \in Int
    OBVIOUS
  <2>2. \A z \in S : z < y => z < x
    BY <2>1
  <2>3. below(y) \subseteq below(x) /\ y \in below(x) /\ y \notin below(y)
    <3>1. below(y) \subseteq below(x)
      BY <2>2
    <3>2. y \in below(x)
      BY <2>1
    <3>3. ~(y < y)
      BY <2>1
    <3>4. QED
      BY <3>1, <3>2, <3>3
  <2>4. <<below(y), below(x)>> \in R
    BY <2>3 DEF StrictSubsetOrdering
  <2>5. QED
    BY <1>3, <1>4, <2>4
<1>6. \E m \in S : \A y \in S : m <= y
  BY <1>5
<1> HIDE DEF T, R
<1>7. QED
  BY <1>6 DEF Min

-----------------------------------------------------------------------------
(* Slots packed.                                                           *)

LEMMA Ranks ==
  ASSUME NEW n \in Nat, NEW at \in SUBSET (1 .. n)
  PROVE  /\ IsFiniteSet(at) /\ Cardinality(at) \in Nat /\ Cardinality(at) <= n
         /\ \A i \in at : Rank(at, i) \in 1 .. Cardinality(at)
         /\ \A i, j \in at : Rank(at, i) = Rank(at, j) => i = j
<1> DEFINE upTo(i) == {j \in at : j <= i}
<1>1. IsFiniteSet(1 .. n) /\ Cardinality(1 .. n) = n
  BY FS_Interval
<1>2. IsFiniteSet(at) /\ Cardinality(at) \in Nat /\ Cardinality(at) <= n
  BY <1>1, FS_Subset, FS_CardinalityType
<1>3. ASSUME NEW i \in at
      PROVE  /\ IsFiniteSet(upTo(i)) /\ Cardinality(upTo(i)) \in Nat /\ Cardinality(upTo(i)) <= Cardinality(at)
             /\ Cardinality(upTo(i)) # 0
  <2>1. upTo(i) \in SUBSET at /\ i \in upTo(i)
    OBVIOUS
  <2> HIDE DEF upTo
  <2>2. IsFiniteSet(upTo(i)) /\ Cardinality(upTo(i)) <= Cardinality(at)
    BY <1>2, <2>1, FS_Subset
  <2>3. QED
    BY <2>1, <2>2, FS_CardinalityType, FS_EmptySet
<1>4. \A i \in at : Rank(at, i) = Cardinality(upTo(i))
  BY DEF Rank
<1>5. ASSUME NEW i \in at, NEW j \in at, i < j PROVE Rank(at, i) # Rank(at, j)
  <2>1. \A k \in at : k <= i => k <= j
    BY <1>5
  <2>2. upTo(i) \in SUBSET upTo(j) /\ j \in upTo(j) /\ j \notin upTo(i)
    <3>1. upTo(i) \subseteq upTo(j)
      BY <2>1
    <3>2. j <= j /\ ~(j <= i)
      BY <1>5
    <3>3. QED
      BY <3>1, <3>2
  <2> HIDE DEF upTo
  <2>3. Cardinality(upTo(i)) # Cardinality(upTo(j))
    BY <1>3, <2>2, FS_Subset
  <2>4. QED
    BY <1>4, <2>3
<1>6. \A i \in at : Rank(at, i) \in 1 .. Cardinality(at)
  <2> HIDE DEF upTo
  <2>1. QED
    BY <1>2, <1>3, <1>4
<1>7. \A i, j \in at : i \in Int /\ j \in Int /\ (i # j => i < j \/ j < i)
  OBVIOUS
<1>8. QED
  BY <1>2, <1>5, <1>6, <1>7

\* The slot of the k-th.
Nth(at, k) == CHOOSE i \in at : Rank(at, i) = k

LEMMA EveryNth ==
  ASSUME NEW n \in Nat, NEW at \in SUBSET (1 .. n)
  PROVE  /\ \A k \in 1 .. Cardinality(at) : Nth(at, k) \in at /\ Rank(at, Nth(at, k)) = k
         /\ \A i \in at : Rank(at, i) \in 1 .. Cardinality(at) /\ Nth(at, Rank(at, i)) = i
<1> DEFINE size == Cardinality(at)
           f == [i \in at |-> Rank(at, i)]
<1>1. /\ IsFiniteSet(at) /\ size \in Nat
      /\ \A i \in at : Rank(at, i) \in 1 .. size
      /\ \A i, j \in at : Rank(at, i) = Rank(at, j) => i = j
  BY Ranks
<1>2. IsFiniteSet(1 .. size) /\ Cardinality(1 .. size) = size
  BY <1>1, FS_Interval
<1>3. f \in Injection(at, 1 .. size)
  <2>1. f \in [at -> 1 .. size]
    BY <1>1
  <2>2. \A i, j \in at : f[i] = f[j] => i = j
    BY <1>1
  <2> HIDE DEF f
  <2>3. QED
    BY <2>1, <2>2 DEF Injection, IsInjective
<1>4. f \in Surjection(at, 1 .. size)
  <2> HIDE DEF f
  <2>1. QED
    BY <1>2, <1>3, FS_Injection
<1>5. \A k \in 1 .. size : \E i \in at : Rank(at, i) = k
  <2>1. \A k \in 1 .. size : \E i \in at : f[i] = k
    <3> HIDE DEF f
    <3>1. QED
      BY <1>4 DEF Surjection
  <2>2. QED
    BY <2>1
<1>6. \A k \in 1 .. size : Nth(at, k) \in at /\ Rank(at, Nth(at, k)) = k
  BY <1>5 DEF Nth
<1>7. QED
  BY <1>1, <1>6

\* What is packed, by its slots.
LEMMA PackedWith ==
  ASSUME NEW n \in Nat, NEW table, NEW at \in SUBSET (1 .. n)
  PROVE  LET p == Packed(table, at)
         IN  /\ Len(p) = Cardinality(at) /\ Len(p) <= n /\ Len(p) \in Nat
             /\ DOMAIN p = 1 .. Len(p)
             /\ \A k \in 1 .. Len(p) : /\ Nth(at, k) \in at /\ p[k] = table[Nth(at, k)]
                                       /\ Rank(at, Nth(at, k)) = k
             /\ \A i \in at : Rank(at, i) \in 1 .. Len(p) /\ p[Rank(at, i)] = table[i]
<1> DEFINE p == Packed(table, at)
           size == Cardinality(at)
<1>1. size \in Nat /\ size <= n
  BY Ranks
<1>2. p = [k \in 1 .. size |-> table[Nth(at, k)]]
  BY DEF Packed, Nth
<1> HIDE DEF p
<1>3. Len(p) = size /\ DOMAIN p = 1 .. size /\ \A k \in 1 .. size : p[k] = table[Nth(at, k)]
  BY <1>1, <1>2
<1>4. QED
  BY <1>1, <1>3, EveryNth DEF p

LEMMA PackedSeq ==
  ASSUME NEW E, NEW n \in Nat, NEW table \in [1 .. n -> E], NEW at \in SUBSET (1 .. n)
  PROVE  Packed(table, at) \in Seq(E)
<1> DEFINE size == Cardinality(at)
<1>1. size \in Nat /\ \A k \in 1 .. size : Nth(at, k) \in at
  BY Ranks, EveryNth
<1>2. Packed(table, at) = [k \in 1 .. size |-> table[Nth(at, k)]]
  BY DEF Packed, Nth
<1>3. \A k \in 1 .. size : table[Nth(at, k)] \in E
  BY <1>1
<1> HIDE DEF size
<1>4. [k \in 1 .. size |-> table[Nth(at, k)]] \in [1 .. size -> E]
  BY <1>3
<1>5. QED
  BY <1>1, <1>2, <1>4

\* What fills the first slots is packed as it is.
LEMMA PackedPrefix ==
  ASSUME NEW n \in Nat, NEW m \in 0 .. n, NEW table
  PROVE  LET p == Packed(table, 1 .. m)
         IN  Len(p) = m /\ DOMAIN p = 1 .. m /\ \A k \in 1 .. m : p[k] = table[k]
<1>1. 1 .. m \in SUBSET (1 .. n) /\ IsFiniteSet(1 .. m) /\ Cardinality(1 .. m) = m
  BY FS_Interval
<1>2. ASSUME NEW k \in 1 .. m PROVE Rank(1 .. m, k) = k
  <2>1. {j \in 1 .. m : j <= k} = 1 .. k /\ k \in Int
    OBVIOUS
  <2>2. Cardinality(1 .. k) = k
    BY FS_Interval
  <2>3. QED
    BY <2>1, <2>2 DEF Rank
<1>3. QED
  BY <1>1, <1>2, PackedWith

-----------------------------------------------------------------------------
(* What is in the slots and in the files.                                  *)

ShadeRecs ==
  [id : (1 .. MaxShades - 2) \union {Nobody}, address : Addresses \union {0}, room : Rooms, code : Nat]
Links == [1 .. MaxLinked -> 0 .. MaxShades - 2]
GroupRecs ==
  [id : (1 .. MaxGroups - 2) \union {Nobody}, address : Addresses \union {0}, room : Rooms, code : Nat,
   linked : Links]

\* The used slots of a table, or a file, have addresses and distinct ids, and the
\* groups have shades that are there.
OwnIds(table) ==
  /\ \A i \in Used(table) : table[i].address \in Addresses
  /\ \A i, j \in Used(table) : table[i].id = table[j].id => i = j
There(id, s) == \E i \in Used(s) : s[i].id = id
Linked(s, g) ==
  \A i \in Used(g) :
    /\ \A j \in 1 .. MaxLinked : g[i].linked[j] = 0 \/ There(g[i].linked[j], s)
    /\ \A j, k \in 1 .. MaxLinked : j <= k /\ g[i].linked[k] # 0 => g[i].linked[j] # 0
Sound(s, g) == OwnIds(s) /\ OwnIds(g) /\ Linked(s, g)

\* They are in rooms that are there.
InRoom(x, r) == x.room = NoRoom \/ \E k \in DOMAIN r : r[k] = x.room
Housed(s, g, r) ==
  /\ \A i \in Used(s) : InRoom(s[i], r)
  /\ \A i \in Used(g) : InRoom(g[i], r)

\* A file has used slots only.
FileSound(f) ==
  /\ f.shades \in Seq(ShadeRecs) /\ Len(f.shades) <= MaxShades /\ Used(f.shades) = 1 .. Len(f.shades)
  /\ f.groups \in Seq(GroupRecs) /\ Len(f.groups) <= MaxGroups /\ Used(f.groups) = 1 .. Len(f.groups)
  /\ f.rooms \in Seq(Rooms) /\ Len(f.rooms) <= MaxRooms /\ UsedRooms(f.rooms) = 1 .. Len(f.rooms)
  /\ Sound(f.shades, f.groups)

Typed ==
  /\ shades \in [1 .. MaxShades -> ShadeRecs] /\ groups \in [1 .. MaxGroups -> GroupRecs]
  /\ rooms \in [1 .. MaxRooms -> Rooms]
Unlinked == \A i \in 1 .. MaxGroups : groups[i].id = Nobody => groups[i].linked = NoLinks

\* NVS is never behind the air.
Codes ==
  /\ nvs \in [Addresses -> Nat] /\ sent \in [Addresses -> Nat]
  /\ \A a \in Addresses : nvs[a] >= sent[a]

SlotsSound == Typed /\ Sound(shades, groups) /\ Unlinked
FilesSound == FileSound(file) /\ FileSound(backup)
AllHoused ==
  stale \/ /\ Housed(shades, groups, rooms)
           /\ Housed(file.shades, file.groups, file.rooms)
           /\ Housed(backup.shades, backup.groups, backup.rooms)
Rest == proposed \subseteq Addresses /\ stale \in BOOLEAN /\ unsaved \in BOOLEAN

\* The inductive invariant.
IInv == SlotsSound /\ FilesSound /\ AllHoused /\ Codes /\ Rest /\ SurvivesRestart

-----------------------------------------------------------------------------
(* What is saved.                                                          *)

LEMMA UsedOf ==
  /\ \A t \in [1 .. MaxShades -> ShadeRecs] : DOMAIN t = 1 .. MaxShades /\ Used(t) \in SUBSET (1 .. MaxShades)
  /\ \A t \in [1 .. MaxGroups -> GroupRecs] : DOMAIN t = 1 .. MaxGroups /\ Used(t) \in SUBSET (1 .. MaxGroups)
  /\ \A t \in [1 .. MaxRooms -> Rooms] : DOMAIN t = 1 .. MaxRooms /\ UsedRooms(t) \in SUBSET (1 .. MaxRooms)
BY DEF Used, UsedRooms

\* What is packed has what was used, at the ranks of its slots.
LEMMA ImageParts ==
  ASSUME NEW s \in [1 .. MaxShades -> ShadeRecs], NEW g \in [1 .. MaxGroups -> GroupRecs],
         NEW r \in [1 .. MaxRooms -> Rooms]
  PROVE  LET p == Packed(s, Used(s))
             q == Packed(g, Used(g))
             h == Packed(r, UsedRooms(r))
         IN  /\ p \in Seq(ShadeRecs) /\ Len(p) <= MaxShades /\ Used(p) = 1 .. Len(p)
             /\ \A k \in 1 .. Len(p) : Nth(Used(s), k) \in Used(s) /\ p[k] = s[Nth(Used(s), k)]
                                         /\ Rank(Used(s), Nth(Used(s), k)) = k
             /\ \A i \in Used(s) : Rank(Used(s), i) \in 1 .. Len(p) /\ p[Rank(Used(s), i)] = s[i]
             /\ q \in Seq(GroupRecs) /\ Len(q) <= MaxGroups /\ Used(q) = 1 .. Len(q)
             /\ \A k \in 1 .. Len(q) : Nth(Used(g), k) \in Used(g) /\ q[k] = g[Nth(Used(g), k)]
                                         /\ Rank(Used(g), Nth(Used(g), k)) = k
             /\ h \in Seq(Rooms) /\ Len(h) <= MaxRooms /\ UsedRooms(h) = 1 .. Len(h)
             /\ \A i \in UsedRooms(r) : Rank(UsedRooms(r), i) \in 1 .. Len(h) /\ h[Rank(UsedRooms(r), i)] = r[i]
<1> DEFINE p == Packed(s, Used(s))
           q == Packed(g, Used(g))
           h == Packed(r, UsedRooms(r))
<1>1. /\ p \in Seq(ShadeRecs) /\ Len(p) <= MaxShades /\ DOMAIN p = 1 .. Len(p)
      /\ \A k \in 1 .. Len(p) : Nth(Used(s), k) \in Used(s) /\ p[k] = s[Nth(Used(s), k)]
                                  /\ Rank(Used(s), Nth(Used(s), k)) = k
      /\ \A i \in Used(s) : Rank(Used(s), i) \in 1 .. Len(p) /\ p[Rank(Used(s), i)] = s[i]
  <2>1. MaxShades \in Nat /\ Used(s) \in SUBSET (1 .. MaxShades)
    BY Sizes, UsedOf
  <2>2. QED
    <3>1. p \in Seq(ShadeRecs)
      BY <2>1, PackedSeq
    <3>2. /\ Len(p) = Cardinality(Used(s)) /\ Len(p) <= MaxShades /\ Len(p) \in Nat
          /\ DOMAIN p = 1 .. Len(p)
          /\ \A k \in 1 .. Len(p) : /\ Nth(Used(s), k) \in Used(s) /\ p[k] = s[Nth(Used(s), k)]
                                    /\ Rank(Used(s), Nth(Used(s), k)) = k
          /\ \A i \in Used(s) : Rank(Used(s), i) \in 1 .. Len(p) /\ p[Rank(Used(s), i)] = s[i]
      BY <2>1, PackedWith, SMTT(30)
    <3> HIDE DEF p, q, h
    <3>3. QED
      BY <3>1, <3>2
<1>2. /\ q \in Seq(GroupRecs) /\ Len(q) <= MaxGroups /\ DOMAIN q = 1 .. Len(q)
      /\ \A k \in 1 .. Len(q) : Nth(Used(g), k) \in Used(g) /\ q[k] = g[Nth(Used(g), k)]
                                  /\ Rank(Used(g), Nth(Used(g), k)) = k
  <2>1. MaxGroups \in Nat /\ Used(g) \in SUBSET (1 .. MaxGroups)
    BY Sizes, UsedOf
  <2>2. QED
    <3>1. q \in Seq(GroupRecs)
      BY <2>1, PackedSeq
    <3>2. /\ Len(q) = Cardinality(Used(g)) /\ Len(q) <= MaxGroups /\ Len(q) \in Nat
          /\ DOMAIN q = 1 .. Len(q)
          /\ \A k \in 1 .. Len(q) : /\ Nth(Used(g), k) \in Used(g) /\ q[k] = g[Nth(Used(g), k)]
                                    /\ Rank(Used(g), Nth(Used(g), k)) = k
          /\ \A i \in Used(g) : Rank(Used(g), i) \in 1 .. Len(q) /\ q[Rank(Used(g), i)] = g[i]
      BY <2>1, PackedWith, SMTT(30)
    <3> HIDE DEF p, q, h
    <3>3. QED
      BY <3>1, <3>2
<1>3. /\ h \in Seq(Rooms) /\ Len(h) <= MaxRooms /\ DOMAIN h = 1 .. Len(h)
      /\ \A k \in 1 .. Len(h) : Nth(UsedRooms(r), k) \in UsedRooms(r) /\ h[k] = r[Nth(UsedRooms(r), k)]
                                  /\ Rank(UsedRooms(r), Nth(UsedRooms(r), k)) = k
      /\ \A i \in UsedRooms(r) : Rank(UsedRooms(r), i) \in 1 .. Len(h) /\ h[Rank(UsedRooms(r), i)] = r[i]
  <2>1. MaxRooms \in Nat /\ UsedRooms(r) \in SUBSET (1 .. MaxRooms)
    BY Sizes, UsedOf
  <2>2. QED
    <3>1. h \in Seq(Rooms)
      BY <2>1, PackedSeq
    <3>2. /\ Len(h) = Cardinality(UsedRooms(r)) /\ Len(h) <= MaxRooms /\ Len(h) \in Nat
          /\ DOMAIN h = 1 .. Len(h)
          /\ \A k \in 1 .. Len(h) : /\ Nth(UsedRooms(r), k) \in UsedRooms(r) /\ h[k] = r[Nth(UsedRooms(r), k)]
                                    /\ Rank(UsedRooms(r), Nth(UsedRooms(r), k)) = k
          /\ \A i \in UsedRooms(r) : Rank(UsedRooms(r), i) \in 1 .. Len(h) /\ h[Rank(UsedRooms(r), i)] = r[i]
      BY <2>1, PackedWith, SMTT(30)
    <3> HIDE DEF p, q, h
    <3>3. QED
      BY <3>1, <3>2
<1> HIDE DEF p, q, h
<1>4. \A i \in Used(s) : s[i].id # Nobody
  BY DEF Used
<1>5. \A i \in Used(g) : g[i].id # Nobody
  BY DEF Used
<1>6. Used(p) = 1 .. Len(p) /\ Used(q) = 1 .. Len(q) /\ UsedRooms(h) = 1 .. Len(h)
  <2>1. Used(p) = 1 .. Len(p) /\ Used(q) = 1 .. Len(q)
    BY <1>1, <1>2, <1>4, <1>5 DEF Used
  <2>2. \A i \in UsedRooms(r) : r[i] # NoRoom
    BY DEF UsedRooms
  <2>3. UsedRooms(h) = 1 .. Len(h)
    BY <1>3, <2>2 DEF UsedRooms
  <2>4. QED
    BY <2>1, <2>3
<1>7. QED
  BY <1>1, <1>2, <1>3, <1>6 DEF p, q, h

LEMMA ImageSound ==
  ASSUME NEW s \in [1 .. MaxShades -> ShadeRecs], NEW g \in [1 .. MaxGroups -> GroupRecs],
         NEW r \in [1 .. MaxRooms -> Rooms], Sound(s, g)
  PROVE  LET f == Image(s, g, r)
         IN  FileSound(f) /\ (Housed(s, g, r) => Housed(f.shades, f.groups, f.rooms))
<1> DEFINE p == Packed(s, Used(s))
           q == Packed(g, Used(g))
           h == Packed(r, UsedRooms(r))
<1>1. /\ p \in Seq(ShadeRecs) /\ Len(p) <= MaxShades /\ Used(p) = 1 .. Len(p)
      /\ \A k \in 1 .. Len(p) : Nth(Used(s), k) \in Used(s) /\ p[k] = s[Nth(Used(s), k)]
                                  /\ Rank(Used(s), Nth(Used(s), k)) = k
      /\ \A i \in Used(s) : Rank(Used(s), i) \in 1 .. Len(p) /\ p[Rank(Used(s), i)] = s[i]
      /\ q \in Seq(GroupRecs) /\ Len(q) <= MaxGroups /\ Used(q) = 1 .. Len(q)
      /\ \A k \in 1 .. Len(q) : Nth(Used(g), k) \in Used(g) /\ q[k] = g[Nth(Used(g), k)]
                                  /\ Rank(Used(g), Nth(Used(g), k)) = k
      /\ h \in Seq(Rooms) /\ Len(h) <= MaxRooms /\ UsedRooms(h) = 1 .. Len(h)
      /\ \A i \in UsedRooms(r) : Rank(UsedRooms(r), i) \in 1 .. Len(h) /\ h[Rank(UsedRooms(r), i)] = r[i]
  BY ImageParts
<1>2. Image(s, g, r).shades = p /\ Image(s, g, r).groups = q /\ Image(s, g, r).rooms = h
  BY DEF Image
<1> HIDE DEF p, q, h
<1>3. OwnIds(p)
  <2>1. \A k \in 1 .. Len(p) : p[k].address \in Addresses
    BY <1>1 DEF Sound, OwnIds
  <2>2. ASSUME NEW k \in 1 .. Len(p), NEW l \in 1 .. Len(p), p[k].id = p[l].id PROVE k = l
    <3>1. Nth(Used(s), k) = Nth(Used(s), l)
      BY <1>1, <2>2 DEF Sound, OwnIds
    <3>2. QED
      BY <1>1, <3>1
  <2>3. QED
    BY <1>1, <2>1, <2>2 DEF OwnIds
<1>4. OwnIds(q)
  <2>1. \A k \in 1 .. Len(q) : q[k].address \in Addresses
    BY <1>1 DEF Sound, OwnIds
  <2>2. ASSUME NEW k \in 1 .. Len(q), NEW l \in 1 .. Len(q), q[k].id = q[l].id PROVE k = l
    <3>1. Nth(Used(g), k) = Nth(Used(g), l)
      BY <1>1, <2>2, SMTT(30) DEF Sound, OwnIds
    <3>2. QED
      BY <1>1, <3>1
  <2>3. QED
    BY <1>1, <2>1, <2>2 DEF OwnIds
<1>5. \A id : There(id, s) => There(id, p)
  BY <1>1 DEF There
<1>6. Linked(p, q)
  BY <1>1, <1>5 DEF Sound, Linked
<1>7. ASSUME NEW x, InRoom(x, r) PROVE InRoom(x, h)
  <2>1. \A i \in DOMAIN r : r[i] # NoRoom => i \in UsedRooms(r)
    BY DEF UsedRooms
  <2>2. QED
    BY <1>1, <1>7, <2>1 DEF InRoom
<1>8. Housed(s, g, r) => Housed(p, q, h)
  BY <1>1, <1>7 DEF Housed
<1>9. FileSound(Image(s, g, r))
  BY <1>1, <1>2, <1>3, <1>4, <1>6 DEF FileSound, Sound
<1>10. QED
  BY <1>2, <1>8, <1>9

\* What a change of codes alone saves.
LEMMA KnownAlone ==
  ASSUME NEW n \in Nat, NEW s, NEW t, NEW at \in SUBSET (1 .. n),
         \A i \in at : Known(s[i]) = Known(t[i])
  PROVE  LET p == Packed(s, at)
             q == Packed(t, at)
         IN  /\ [i \in DOMAIN p |-> Known(p[i])] = [i \in DOMAIN q |-> Known(q[i])]
             /\ Len(p) <= n
<1> DEFINE p == Packed(s, at)
           q == Packed(t, at)
<1>1. /\ DOMAIN p = 1 .. Cardinality(at) /\ DOMAIN q = 1 .. Cardinality(at)
      /\ \A k \in 1 .. Cardinality(at) : Nth(at, k) \in at /\ p[k] = s[Nth(at, k)] /\ q[k] = t[Nth(at, k)]
      /\ Len(p) <= n
  <2>1. /\ DOMAIN p = 1 .. Len(p) /\ Len(p) = Cardinality(at) /\ Len(p) <= n
        /\ \A k \in 1 .. Len(p) : Nth(at, k) \in at /\ p[k] = s[Nth(at, k)]
    BY PackedWith, SMTT(30)
  <2>2. /\ DOMAIN q = 1 .. Len(q) /\ Len(q) = Cardinality(at)
        /\ \A k \in 1 .. Len(q) : q[k] = t[Nth(at, k)]
    BY PackedWith, SMTT(30)
  <2> HIDE DEF p, q
  <2>3. QED
    BY <2>1, <2>2
<1> HIDE DEF p, q
<1>2. \A k \in 1 .. Cardinality(at) : Known(p[k]) = Known(q[k])
  BY <1>1
<1>3. QED
  BY <1>1, <1>2 DEF p, q

-----------------------------------------------------------------------------
(* Records, but for their codes.                                           *)

Alike(s, t) ==
  /\ Used(s) = Used(t)
  /\ \A i \in Used(s) : s[i].id = t[i].id /\ s[i].address = t[i].address /\ s[i].room = t[i].room
AlikeGroups(g, h) == Alike(g, h) /\ \A i \in Used(g) : g[i].linked = h[i].linked

LEMMA SoundAlike ==
  ASSUME NEW s, NEW t, NEW g, NEW h, Alike(s, t), AlikeGroups(g, h), Sound(s, g)
  PROVE  Sound(t, h) /\ \A r : Housed(s, g, r) => Housed(t, h, r)
<1>1. OwnIds(t) /\ OwnIds(h)
  BY DEF Sound, OwnIds, Alike, AlikeGroups
<1>2. \A id : There(id, s) => There(id, t)
  BY DEF There, Alike
<1>3. Linked(t, h)
  BY <1>2 DEF Sound, Linked, Alike, AlikeGroups
<1>4. \A r : Housed(s, g, r) => Housed(t, h, r)
  BY DEF Housed, InRoom, Alike, AlikeGroups
<1>5. QED
  BY <1>1, <1>3, <1>4 DEF Sound

LEMMA RecodedShade ==
  ASSUME NEW x \in ShadeRecs, NEW c \in Nat
  PROVE  LET y == [x EXCEPT !.code = c]
         IN  y \in ShadeRecs /\ y.id = x.id /\ y.address = x.address /\ y.room = x.room
BY DEF ShadeRecs

LEMMA RecodedGroup ==
  ASSUME NEW x \in GroupRecs, NEW c \in Nat
  PROVE  LET y == [x EXCEPT !.code = c]
         IN  y \in GroupRecs /\ y.id = x.id /\ y.address = x.address /\ y.room = x.room /\ y.linked = x.linked
BY DEF GroupRecs

LEMMA KnownShade ==
  ASSUME NEW x \in ShadeRecs, NEW y \in ShadeRecs, x.id = y.id, x.address = y.address, x.room = y.room
  PROVE  Known(x) = Known(y)
<1>1. ASSUME NEW z \in ShadeRecs PROVE Known(z) = [id |-> z.id, address |-> z.address, room |-> z.room, code |-> 0]
  BY DEF ShadeRecs, Known
<1>2. QED
  BY <1>1

LEMMA KnownGroup ==
  ASSUME NEW x \in GroupRecs, NEW y \in GroupRecs, x.id = y.id, x.address = y.address, x.room = y.room,
         x.linked = y.linked
  PROVE  Known(x) = Known(y)
<1>1. ASSUME NEW z \in GroupRecs
      PROVE  Known(z) = [id |-> z.id, address |-> z.address, room |-> z.room, code |-> 0, linked |-> z.linked]
  BY DEF GroupRecs, Known
<1>2. QED
  BY <1>1

-----------------------------------------------------------------------------
(* What is read.                                                           *)

\* The code that counts is none below that of NVS.
LEMMA CodesRead ==
  ASSUME Codes, NEW recs, NEW n \in Nat,
         \A j \in 1 .. n : recs[j].address \in Addresses /\ recs[j].code \in Nat, NEW i \in 1 .. n
  PROVE  CodeRead(recs, i) \in Nat /\ CodeRead(recs, i) >= nvs[recs[i].address]
<1> DEFINE K == {k \in 1 .. i : recs[k].address = recs[i].address}
           f == [j \in K |-> recs[j].code]
           T == {recs[j].code : j \in K}
           own == nvs[recs[i].address]
<1>1. IsFiniteSet(K)
  <2>1. IsFiniteSet(1 .. i) /\ K \in SUBSET (1 .. i)
    BY FS_Interval
  <2>2. QED
    BY <2>1, FS_Subset
<1>2. f \in Surjection(K, T)
  BY DEF Surjection
<1>3. IsFiniteSet(T)
  <2> HIDE DEF K, T, f
  <2>1. QED
    BY <1>1, <1>2, FS_Surjection
<1>4. T \subseteq Nat /\ own \in Nat
  BY DEF Codes
<1>5. IsFiniteSet({own} \union T)
  <2>1. {own} \union T = T \union {own}
    OBVIOUS
  <2> HIDE DEF T, own
  <2>2. QED
    BY <1>3, <2>1, FS_AddElement
<1>6. CodeRead(recs, i) = Max({own} \union T)
  BY DEF CodeRead
<1> HIDE DEF K, T, f, own
<1>7. Max({own} \union T) \in {own} \union T /\ Max({own} \union T) >= own
  <2>1. own \in {own} \union T
    OBVIOUS
  <2>2. \A y \in {own} \union T : y \in Int
    BY <1>4
  <2>3. {own} \union T \subseteq Int /\ {own} \union T # {}
    BY <2>1, <2>2
  <2>4. QED
    BY <1>5, <2>1, <2>3, Largest
<1>8. QED
  BY <1>4, <1>6, <1>7 DEF own

\* The slots are as the file says, but for codes; what follows is unused.
LEMMA Reading ==
  ASSUME Typed, Codes, NEW f, FileSound(f),
         NEW s \in [1 .. MaxShades -> ShadeRecs], NEW g \in [1 .. MaxGroups -> GroupRecs],
         \A i \in 1 .. MaxShades : s[i].id = Nobody,
         \A i \in 1 .. MaxGroups : g[i].id = Nobody /\ g[i].linked = NoLinks,
         Read(f, s, g)
  PROVE  /\ shades' \in [1 .. MaxShades -> ShadeRecs] /\ groups' \in [1 .. MaxGroups -> GroupRecs]
         /\ Alike(f.shades, shades') /\ AlikeGroups(f.groups, groups') /\ Unlinked'
         /\ nvs' \in [Addresses -> Nat] /\ \A a \in Addresses : nvs'[a] >= nvs[a]
<1> DEFINE recs == f.shades \o f.groups
           m == Len(f.shades)
           n == Len(f.groups)
<1>1. /\ m \in Nat /\ n \in Nat /\ m <= MaxShades /\ n <= MaxGroups
      /\ Used(f.shades) = 1 .. m /\ Used(f.groups) = 1 .. n
      /\ \A i \in 1 .. m : f.shades[i] \in ShadeRecs /\ f.shades[i].address \in Addresses
      /\ \A i \in 1 .. n : f.groups[i] \in GroupRecs /\ f.groups[i].address \in Addresses
      /\ \A i \in 1 .. m : f.shades[i].id # Nobody
      /\ \A i \in 1 .. n : f.groups[i].id # Nobody
  <2>1. /\ f.shades \in Seq(ShadeRecs) /\ f.groups \in Seq(GroupRecs) /\ m <= MaxShades /\ n <= MaxGroups
        /\ Used(f.shades) = 1 .. m /\ Used(f.groups) = 1 .. n
    BY DEF FileSound
  <2>2. \A i \in Used(f.shades) : f.shades[i].id # Nobody /\ f.shades[i].address \in Addresses
    BY DEF FileSound, Sound, OwnIds, Used
  <2>3. \A i \in Used(f.groups) : f.groups[i].id # Nobody /\ f.groups[i].address \in Addresses
    BY DEF FileSound, Sound, OwnIds, Used
  <2>4. QED
    BY <2>1, <2>2, <2>3, SMTT(30)
<1>2. /\ \A i \in 1 .. m : recs[i] = f.shades[i]
      /\ \A i \in 1 .. n : recs[m + i] = f.groups[i]
      /\ DOMAIN recs = 1 .. m + n
  <2> DEFINE E == ShadeRecs \union GroupRecs
  <2>1. f.shades \in Seq(E) /\ f.groups \in Seq(E)
    <3>1. f.shades \in Seq(ShadeRecs) /\ f.groups \in Seq(GroupRecs)
      BY DEF FileSound
    <3>2. ShadeRecs \subseteq E /\ GroupRecs \subseteq E
      OBVIOUS
    <3> HIDE DEF E
    <3>3. QED
      BY <3>1, <3>2, SeqMonotonic
  <2> HIDE DEF E
  <2>2. /\ Len(recs) = m + n /\ recs \in Seq(E)
        /\ \A i \in 1 .. m + n : recs[i] = IF i <= m THEN f.shades[i] ELSE f.groups[i - m]
    BY <2>1, ConcatProperties
  <2>3. DOMAIN recs = 1 .. m + n
    BY <2>2
  <2> HIDE DEF recs, m, n
  <2>4. \A i \in 1 .. m : i \in 1 .. m + n /\ i <= m
    BY <1>1
  <2>5. \A i \in 1 .. n : m + i \in 1 .. m + n /\ ~(m + i <= m) /\ (m + i) - m = i
    BY <1>1
  <2>6. QED
    BY <2>2, <2>3, <2>4, <2>5
<1>3. \A j \in 1 .. m + n : recs[j].address \in Addresses /\ recs[j].code \in Nat
  <2>1. \A i \in 1 .. m : f.shades[i].code \in Nat
    BY <1>1 DEF ShadeRecs
  <2>2. \A i \in 1 .. n : f.groups[i].code \in Nat
    BY <1>1 DEF GroupRecs
  <2> HIDE DEF recs, m, n
  <2>3. \A j \in 1 .. m + n : j \in 1 .. m \/ \E i \in 1 .. n : j = m + i
    <3>1. ASSUME NEW j \in 1 .. m + n, ~(j <= m) PROVE j - m \in 1 .. n /\ j = m + (j - m)
      BY <1>1, <3>1
    <3>2. \A j \in 1 .. m + n : j <= m => j \in 1 .. m
      BY <1>1
    <3>3. QED
      BY <3>1, <3>2
  <2>4. \A j \in 1 .. m : recs[j].address \in Addresses /\ recs[j].code \in Nat
    BY <1>1, <1>2, <2>1
  <2>5. \A i \in 1 .. n : recs[m + i].address \in Addresses /\ recs[m + i].code \in Nat
    BY <1>1, <1>2, <2>2
  <2>6. QED
    BY <2>3, <2>4, <2>5
<1>4. \A i \in 1 .. m + n : CodeRead(recs, i) \in Nat /\ CodeRead(recs, i) >= nvs[recs[i].address]
  <2> HIDE DEF recs, m, n
  <2>1. m + n \in Nat
    BY <1>1
  <2>2. QED
    BY <1>3, <2>1, CodesRead
<1>5. /\ shades' = [i \in 1 .. MaxShades |->
           IF i <= m THEN [f.shades[i] EXCEPT !.code = CodeRead(recs, i)] ELSE s[i]]
      /\ groups' = [i \in 1 .. MaxGroups |->
           IF i <= n THEN [f.groups[i] EXCEPT !.code = CodeRead(recs, m + i)] ELSE g[i]]
      /\ nvs' = [a \in Addresses |->
           LET of == {i \in 1 .. m + n : recs[i].address = a}
           IN IF of = {} THEN nvs[a] ELSE CodeRead(recs, Max(of))]
  BY <1>2 DEF Read, Typed
<1> HIDE DEF recs, m, n
<1>6. ASSUME NEW i \in 1 .. m
      PROVE  /\ i \in 1 .. MaxShades /\ shades'[i] \in ShadeRecs /\ shades'[i].id = f.shades[i].id
             /\ shades'[i].address = f.shades[i].address /\ shades'[i].room = f.shades[i].room
  <2>1. i \in 1 .. MaxShades /\ i <= m /\ i \in 1 .. m + n
    BY <1>1, Sizes
  <2>2. shades'[i] = [f.shades[i] EXCEPT !.code = CodeRead(recs, i)]
    BY <1>5, <2>1
  <2>3. QED
    BY <1>1, <1>4, <2>1, <2>2, RecodedShade
<1>7. ASSUME NEW i \in 1 .. n
      PROVE  /\ i \in 1 .. MaxGroups /\ groups'[i] \in GroupRecs /\ groups'[i].id = f.groups[i].id
             /\ groups'[i].address = f.groups[i].address /\ groups'[i].room = f.groups[i].room
             /\ groups'[i].linked = f.groups[i].linked
  <2>1. i \in 1 .. MaxGroups /\ i <= n /\ m + i \in 1 .. m + n
    BY <1>1, Sizes
  <2>2. groups'[i] = [f.groups[i] EXCEPT !.code = CodeRead(recs, m + i)]
    BY <1>5, <2>1
  <2>3. QED
    BY <1>1, <1>4, <2>1, <2>2, RecodedGroup
<1>8. \A i \in 1 .. MaxShades : i \in 1 .. m \/ shades'[i] = s[i]
  BY <1>1, <1>5, Sizes
<1>9. \A i \in 1 .. MaxGroups : i \in 1 .. n \/ groups'[i] = g[i]
  BY <1>1, <1>5, Sizes
<1>10. /\ DOMAIN shades' = 1 .. MaxShades /\ shades' \in [1 .. MaxShades -> ShadeRecs]
       /\ Alike(f.shades, shades')
  <2>1. DOMAIN shades' = 1 .. MaxShades /\ shades' = [i \in 1 .. MaxShades |-> shades'[i]]
    BY <1>5
  <2>2. \A i \in 1 .. MaxShades : shades'[i] \in ShadeRecs
    BY <1>6, <1>8
  <2>3. Used(shades') = 1 .. m
    BY <1>1, <1>6, <1>8, <2>1 DEF Used
  <2>4. QED
    BY <1>1, <1>6, <2>1, <2>2, <2>3 DEF Alike
<1>11. /\ DOMAIN groups' = 1 .. MaxGroups /\ groups' \in [1 .. MaxGroups -> GroupRecs]
       /\ AlikeGroups(f.groups, groups')
  <2>1. DOMAIN groups' = 1 .. MaxGroups /\ groups' = [i \in 1 .. MaxGroups |-> groups'[i]]
    BY <1>5
  <2>2. \A i \in 1 .. MaxGroups : groups'[i] \in GroupRecs
    BY <1>7, <1>9
  <2>3. Used(groups') = 1 .. n
    BY <1>1, <1>7, <1>9, <2>1 DEF Used
  <2>4. QED
    BY <1>1, <1>7, <2>1, <2>2, <2>3 DEF Alike, AlikeGroups
<1>12. Unlinked'
  BY <1>1, <1>7, <1>9 DEF Unlinked
<1>13. nvs' \in [Addresses -> Nat] /\ \A a \in Addresses : nvs'[a] >= nvs[a]
  <2>1. ASSUME NEW a \in Addresses PROVE nvs'[a] \in Nat /\ nvs'[a] >= nvs[a]
    <3> DEFINE of == {i \in 1 .. m + n : recs[i].address = a}
    <3>1. CASE of = {}
      BY <1>5, <3>1 DEF Codes
    <3>2. CASE of # {}
      <4>1. IsFiniteSet(1 .. m + n) /\ of \in SUBSET (1 .. m + n)
        BY <1>1, FS_Interval
      <4>2. of \subseteq Int /\ IsFiniteSet(of)
        <5>1. of \subseteq Int
          BY <1>1
        <5> HIDE DEF of
        <5>2. QED
          BY <4>1, <5>1, FS_Subset
      <4>3. Max(of) \in of
        <5> HIDE DEF of
        <5>1. QED
          BY <3>2, <4>2, Largest
      <4>4. nvs'[a] = CodeRead(recs, Max(of))
        BY <1>5, <3>2
      <4>5. QED
        BY <1>4, <4>3, <4>4
    <3>3. QED
      BY <3>1, <3>2
  <2>2. QED
    BY <1>5, <2>1
<1>14. QED
  BY <1>10, <1>11, <1>12, <1>13

-----------------------------------------------------------------------------
(* One shade, or one group.                                                *)

LEMMA OneShade ==
  ASSUME SlotsSound, NEW i \in 1 .. MaxShades, NEW x \in ShadeRecs, x.id # Nobody, x.address \in Addresses,
         \A j \in Used(shades) : j # i => shades[j].id # x.id,
         i \in Used(shades) => shades[i].id = x.id,
         shades' = [shades EXCEPT ![i] = x], UNCHANGED <<groups, rooms>>
  PROVE  /\ SlotsSound' /\ Used(shades') = Used(shades) \union {i}
         /\ Housed(shades, groups, rooms) /\ InRoom(x, rooms) => Housed(shades', groups', rooms')
<1>1. /\ shades \in [1 .. MaxShades -> ShadeRecs] /\ shades' \in [1 .. MaxShades -> ShadeRecs]
      /\ shades'[i] = x /\ \A j \in 1 .. MaxShades : j # i => shades'[j] = shades[j]
  BY DEF SlotsSound, Typed
<1>2. DOMAIN shades = 1 .. MaxShades /\ DOMAIN shades' = 1 .. MaxShades
  BY <1>1
<1>3. Used(shades') = Used(shades) \union {i} /\ Used(shades) \subseteq 1 .. MaxShades
  BY <1>1, <1>2 DEF Used
<1>4. OwnIds(shades')
  <2>1. \A j \in Used(shades') : shades'[j].address \in Addresses
    BY <1>1, <1>3 DEF SlotsSound, Sound, OwnIds
  <2>2. ASSUME NEW j \in Used(shades'), NEW k \in Used(shades'), shades'[j].id = shades'[k].id PROVE j = k
    <3>1. CASE j = i \/ k = i
      BY <1>1, <1>3, <2>2, <3>1
    <3>2. CASE j # i /\ k # i
      BY <1>1, <1>3, <2>2, <3>2 DEF SlotsSound, Sound, OwnIds
    <3>3. QED
      BY <3>1, <3>2
  <2>3. QED
    BY <2>1, <2>2 DEF OwnIds
<1>5. \A id : There(id, shades) => There(id, shades')
  BY <1>1, <1>3 DEF There
<1>6. Linked(shades', groups)
  BY <1>5 DEF SlotsSound, Sound, Linked
<1>7. SlotsSound'
  <2>1. Typed'
    BY <1>1 DEF SlotsSound, Typed
  <2>2. Unlinked'
    BY DEF SlotsSound, Unlinked
  <2>3. QED
    BY <1>4, <1>6, <2>1, <2>2 DEF SlotsSound, Sound
<1>8. Housed(shades, groups, rooms) /\ InRoom(x, rooms) => Housed(shades', groups', rooms')
  BY <1>1, <1>3 DEF Housed
<1>9. QED
  BY <1>3, <1>7, <1>8

\* A group's links, as Linked has them.
LinksSound(links) ==
  /\ \A j \in 1 .. MaxLinked : links[j] = 0 \/ There(links[j], shades)
  /\ \A j, k \in 1 .. MaxLinked : j <= k /\ links[k] # 0 => links[j] # 0

LEMMA OneGroup ==
  ASSUME SlotsSound, NEW i \in 1 .. MaxGroups, NEW x \in GroupRecs, x.id # Nobody, x.address \in Addresses,
         \A j \in Used(groups) : j # i => groups[j].id # x.id,
         i \in Used(groups) => groups[i].id = x.id,
         LinksSound(x.linked),
         groups' = [groups EXCEPT ![i] = x], UNCHANGED <<shades, rooms>>
  PROVE  /\ SlotsSound' /\ Used(groups') = Used(groups) \union {i}
         /\ Housed(shades, groups, rooms) /\ InRoom(x, rooms) => Housed(shades', groups', rooms')
<1>1. /\ groups \in [1 .. MaxGroups -> GroupRecs] /\ groups' \in [1 .. MaxGroups -> GroupRecs]
      /\ groups'[i] = x /\ \A j \in 1 .. MaxGroups : j # i => groups'[j] = groups[j]
  BY DEF SlotsSound, Typed
<1>2. DOMAIN groups = 1 .. MaxGroups /\ DOMAIN groups' = 1 .. MaxGroups
  BY <1>1
<1>3. Used(groups') = Used(groups) \union {i} /\ Used(groups) \subseteq 1 .. MaxGroups
  BY <1>1, <1>2 DEF Used
<1>4. OwnIds(groups')
  <2>1. \A j \in Used(groups') : groups'[j].address \in Addresses
    BY <1>1, <1>3 DEF SlotsSound, Sound, OwnIds
  <2>2. ASSUME NEW j \in Used(groups'), NEW k \in Used(groups'), groups'[j].id = groups'[k].id PROVE j = k
    <3>1. CASE j = i \/ k = i
      BY <1>1, <1>3, <2>2, <3>1
    <3>2. CASE j # i /\ k # i
      BY <1>1, <1>3, <2>2, <3>2 DEF SlotsSound, Sound, OwnIds
    <3>3. QED
      BY <3>1, <3>2
  <2>3. QED
    BY <2>1, <2>2 DEF OwnIds
<1>5. Linked(shades, groups')
  <2>1. \A j \in Used(groups') : LinksSound(groups'[j].linked)
    BY <1>1, <1>3 DEF SlotsSound, Sound, Linked, LinksSound
  <2>2. QED
    BY <2>1 DEF Linked, LinksSound
<1>6. SlotsSound'
  <2>1. Typed'
    BY <1>1 DEF SlotsSound, Typed
  <2>2. Unlinked'
    BY <1>1 DEF SlotsSound, Unlinked
  <2>3. QED
    BY <1>4, <1>5, <2>1, <2>2 DEF SlotsSound, Sound
<1>7. Housed(shades, groups, rooms) /\ InRoom(x, rooms) => Housed(shades', groups', rooms')
  BY <1>1, <1>3 DEF Housed
<1>8. QED
  BY <1>3, <1>6, <1>7

\* A room is named that is there, or stale says so.
LEMMA NamedRoom ==
  ASSUME Typed, NEW x, x.room \in RoomIds \union {NoRoom} PROVE InRoom(x, rooms)
BY DEF Typed, RoomIds, InRoom

LEMMA FormFits ==
  ASSUME NEW a \in Addresses, NEW room \in Rooms \union {Unnamed}
  PROVE  /\ \A x \in ShadeRecs : LET y == Form(x, a, room)
                                 IN  y \in ShadeRecs /\ y.id = x.id /\ y.address = a
                                     /\ y.room = IF room = Unnamed THEN x.room ELSE room
         /\ \A x \in GroupRecs : LET y == Form(x, a, room)
                                 IN  y \in GroupRecs /\ y.id = x.id /\ y.address = a /\ y.linked = x.linked
                                     /\ y.room = IF room = Unnamed THEN x.room ELSE room
<1>1. ASSUME NEW x \in ShadeRecs
      PROVE  LET y == Form(x, a, room)
             IN  y \in ShadeRecs /\ y.id = x.id /\ y.address = a
                 /\ y.room = IF room = Unnamed THEN x.room ELSE room
  BY DEF Form, ShadeRecs
<1>2. ASSUME NEW x \in GroupRecs
      PROVE  LET y == Form(x, a, room)
             IN  y \in GroupRecs /\ y.id = x.id /\ y.address = a /\ y.linked = x.linked
                 /\ y.room = IF room = Unnamed THEN x.room ELSE room
  BY DEF Form, GroupRecs
<1>3. QED
  BY <1>1, <1>2

\* The id and the slot that a new shade or group is given are nobody's.
LEMMA FreeId ==
  ASSUME NEW n \in Nat, NEW ids, FreeIds(ids, n) # {}
  PROVE  Min(FreeIds(ids, n)) \in 1 .. n - 2 /\ Min(FreeIds(ids, n)) \notin ids
<1>1. FreeIds(ids, n) \in SUBSET (1 .. n - 2) /\ FreeIds(ids, n) \subseteq Int
  BY DEF FreeIds
<1>2. IsFiniteSet(FreeIds(ids, n))
  <2>1. 1 \in Int /\ n - 2 \in Int
    OBVIOUS
  <2>2. IsFiniteSet(1 .. n - 2)
    BY <2>1, FS_Interval
  <2>3. QED
    BY <1>1, <2>2, FS_Subset
<1>3. Min(FreeIds(ids, n)) \in FreeIds(ids, n)
  BY <1>1, <1>2, Least
<1>4. QED
  BY <1>3 DEF FreeIds

LEMMA FreeOne ==
  ASSUME NEW n \in Nat, NEW table, DOMAIN table = 1 .. n, NEW id, NEW i \in FreeSlot(table, id)
  PROVE  i \in 1 .. n /\ i \notin Used(table)
<1> DEFINE free == DOMAIN table \ Used(table)
<1>1. Used(table) # DOMAIN table /\ i = Min(free)
  BY DEF FreeSlot
<1>2. free \in SUBSET (1 .. n) /\ free \subseteq Int /\ free # {}
  BY <1>1 DEF Used
<1> HIDE DEF free
<1>3. IsFiniteSet(free)
  <2>1. IsFiniteSet(1 .. n)
    BY FS_Interval
  <2>2. QED
    BY <1>2, <2>1, FS_Subset
<1>4. i \in free
  BY <1>1, <1>2, <1>3, Least
<1>5. QED
  BY <1>2, <1>4 DEF free

-----------------------------------------------------------------------------
(* What requests do to the slots.                                          *)

HousedNow == stale \/ Housed(shades, groups, rooms)
Slots == SlotsSound /\ HousedNow

\* Id, room and names are all a slot gets.
LEMMA NamedShade ==
  ASSUME NEW x \in ShadeRecs, NEW id \in (1 .. MaxShades - 2) \union {Nobody}
  PROVE  LET y == [x EXCEPT !.id = id] IN y \in ShadeRecs /\ y.id = id /\ y.room = x.room
BY DEF ShadeRecs

LEMMA NamedGroup ==
  ASSUME NEW x \in GroupRecs, NEW id \in (1 .. MaxGroups - 2) \union {Nobody}
  PROVE  LET y == [x EXCEPT !.id = id] IN y \in GroupRecs /\ y.id = id /\ y.linked = x.linked
BY DEF GroupRecs

LEMMA Ids ==
  /\ \A id \in 1 .. MaxShades - 2 : id # Nobody /\ id # 0
  /\ \A id \in 1 .. MaxGroups - 2 : id # Nobody
  /\ Unnamed \notin Rooms /\ NoRoom \in Rooms
BY Sizes DEF Nobody, Unnamed, Rooms, NoRoom

LEMMA ShadeAdded ==
  ASSUME Slots, Rest, NEW a \in proposed, NEW room \in Rooms \union {Unnamed}, AddShade(a, room)
  PROVE  Slots'
<1> DEFINE id == Min(FreeIds(IdsOf(shades), MaxShades))
<1>1. a \in Addresses
  BY DEF Rest
<1>2. id \in 1 .. MaxShades - 2 /\ id \notin IdsOf(shades)
  BY Sizes, FreeId DEF AddShade
<1>3. PICK i \in FreeSlot(shades, id) :
        /\ shades' = [shades EXCEPT ![i] = Form([@ EXCEPT !.id = id], a, room)]
        /\ Names(shades'[i].room)
  BY DEF AddShade
<1>4. UNCHANGED <<groups, rooms>>
  BY DEF AddShade
<1> HIDE DEF id
<1>5. shades \in [1 .. MaxShades -> ShadeRecs] /\ DOMAIN shades = 1 .. MaxShades
  BY DEF Slots, SlotsSound, Typed
<1>6. i \in 1 .. MaxShades /\ i \notin Used(shades)
  BY <1>5, Sizes, FreeOne
<1> DEFINE y == [shades[i] EXCEPT !.id = id]
           x == Form(y, a, room)
<1>7. y \in ShadeRecs /\ y.id = id
  BY <1>2, <1>5, <1>6, NamedShade
<1>8. shades' = [shades EXCEPT ![i] = x]
  BY <1>3, <1>5, <1>6
<1> HIDE DEF y
<1>9. x \in ShadeRecs /\ x.id = id /\ x.address = a
  BY <1>1, <1>7, FormFits
<1> HIDE DEF x
<1>10. \A j \in Used(shades) : shades[j].id # id
  BY <1>2 DEF IdsOf
<1>11. shades'[i] = x
  BY <1>5, <1>6, <1>8
<1>12. x.id # Nobody /\ SlotsSound
  BY <1>2, <1>9, Ids DEF Slots
<1>13. /\ SlotsSound'
       /\ Housed(shades, groups, rooms) /\ InRoom(x, rooms) => Housed(shades', groups', rooms')
  BY <1>1, <1>4, <1>6, <1>8, <1>9, <1>10, <1>12, OneShade
<1>14. HousedNow'
  <2>1. stale' = (stale \/ x.room \notin RoomIds \union {NoRoom})
    BY <1>3, <1>11 DEF Names
  <2>2. CASE stale'
    BY <2>2 DEF HousedNow
  <2>3. CASE ~stale'
    <3>1. ~stale /\ InRoom(x, rooms)
      BY <1>12, <2>1, <2>3, NamedRoom DEF SlotsSound
    <3>2. QED
      BY <1>13, <3>1 DEF Slots, HousedNow
  <2>4. QED
    BY <2>2, <2>3
<1>15. QED
  BY <1>13, <1>14 DEF Slots

LEMMA NoLinksSound == LinksSound(NoLinks)
BY DEF LinksSound, NoLinks

LEMMA GroupAdded ==
  ASSUME Slots, Rest, NEW a \in proposed, NEW room \in Rooms, AddGroup(a, room)
  PROVE  Slots'
<1> DEFINE id == Min(FreeIds(IdsOf(groups), MaxGroups))
<1>1. a \in Addresses
  BY DEF Rest
<1>2. id \in 1 .. MaxGroups - 2 /\ id \notin IdsOf(groups)
  BY Sizes, FreeId DEF AddGroup
<1>3. PICK i \in FreeSlot(groups, id) : groups' = [groups EXCEPT ![i] = Form([@ EXCEPT !.id = id], a, room)]
  BY DEF AddGroup
<1>4. UNCHANGED <<shades, rooms>> /\ stale' = (stale \/ room \notin RoomIds \union {NoRoom})
  BY DEF AddGroup, Names
<1> HIDE DEF id
<1>5. groups \in [1 .. MaxGroups -> GroupRecs] /\ DOMAIN groups = 1 .. MaxGroups
  BY DEF Slots, SlotsSound, Typed
<1>6. i \in 1 .. MaxGroups /\ i \notin Used(groups)
  BY <1>5, Sizes, FreeOne
<1> DEFINE y == [groups[i] EXCEPT !.id = id]
           x == Form(y, a, room)
<1>7. y \in GroupRecs /\ y.id = id /\ y.linked = groups[i].linked
  BY <1>2, <1>5, <1>6, NamedGroup
<1>8. groups' = [groups EXCEPT ![i] = x]
  BY <1>3, <1>5, <1>6
<1> HIDE DEF y
<1>9. x \in GroupRecs /\ x.id = id /\ x.address = a /\ x.room = room /\ x.linked = groups[i].linked
  BY <1>1, <1>7, FormFits, Ids
<1> HIDE DEF x
<1>10. \A j \in Used(groups) : groups[j].id # id
  BY <1>2 DEF IdsOf
<1>11. LinksSound(x.linked)
  <2>1. groups[i].id = Nobody
    BY <1>5, <1>6 DEF Used
  <2>2. x.linked = NoLinks
    BY <1>6, <1>9, <2>1 DEF Slots, SlotsSound, Unlinked
  <2>3. QED
    BY <2>2, NoLinksSound
<1>12. x.id # Nobody /\ SlotsSound
  BY <1>2, <1>9, Ids DEF Slots
<1>13. /\ SlotsSound'
       /\ Housed(shades, groups, rooms) /\ InRoom(x, rooms) => Housed(shades', groups', rooms')
  BY <1>1, <1>4, <1>6, <1>8, <1>9, <1>10, <1>11, <1>12, OneGroup
<1>14. HousedNow'
  <2>1. CASE stale'
    BY <2>1 DEF HousedNow
  <2>2. CASE ~stale'
    <3>1. ~stale /\ InRoom(x, rooms)
      BY <1>4, <1>9, <1>12, <2>2, NamedRoom DEF SlotsSound
    <3>2. QED
      BY <1>13, <3>1 DEF Slots, HousedNow
  <2>3. QED
    BY <2>1, <2>2
<1>15. QED
  BY <1>13, <1>14 DEF Slots

LEMMA ShadeSaved ==
  ASSUME Slots, NEW i \in DOMAIN shades, NEW a \in Addresses, NEW room \in Rooms, SaveShade(i, a, room)
  PROVE  Slots'
<1> DEFINE x == Form(shades[i], a, room)
<1>1. /\ shades[i].id # Nobody /\ shades' = [shades EXCEPT ![i] = x] /\ UNCHANGED <<groups, rooms>>
      /\ stale' = (stale \/ room \notin RoomIds \union {NoRoom})
  BY DEF SaveShade, Names
<1>2. shades[i] \in ShadeRecs /\ i \in 1 .. MaxShades /\ i \in Used(shades)
  BY <1>1 DEF Slots, SlotsSound, Typed, Used
<1>3. x \in ShadeRecs /\ x.id = shades[i].id /\ x.address = a /\ x.room = room
  BY <1>2, FormFits, Ids
<1> HIDE DEF x
<1>4. \A j \in Used(shades) : j # i => shades[j].id # x.id
  BY <1>2, <1>3 DEF Slots, SlotsSound, Sound, OwnIds
<1>5. SlotsSound /\ x.id # Nobody
  BY <1>1, <1>3 DEF Slots
<1>6. /\ SlotsSound'
      /\ Housed(shades, groups, rooms) /\ InRoom(x, rooms) => Housed(shades', groups', rooms')
  BY <1>1, <1>2, <1>3, <1>4, <1>5, OneShade
<1>7. stale' \/ (~stale /\ InRoom(x, rooms))
  BY <1>1, <1>3, <1>5, NamedRoom DEF SlotsSound
<1>8. QED
  BY <1>6, <1>7 DEF Slots, HousedNow

\* The links of a group that is used are sound.
LEMMA OwnLinks ==
  ASSUME SlotsSound, NEW i \in Used(groups) PROVE LinksSound(groups[i].linked)
BY DEF SlotsSound, Sound, Linked, LinksSound

LEMMA GroupSaved ==
  ASSUME Slots, NEW i \in DOMAIN groups, NEW a \in Addresses, NEW room \in Rooms, SaveGroup(i, a, room)
  PROVE  Slots'
<1> DEFINE x == Form(groups[i], a, room)
<1>1. /\ groups[i].id # Nobody /\ groups' = [groups EXCEPT ![i] = x] /\ UNCHANGED <<shades, rooms>>
      /\ stale' = (stale \/ room \notin RoomIds \union {NoRoom})
  BY DEF SaveGroup, Names
<1>2. groups[i] \in GroupRecs /\ i \in 1 .. MaxGroups /\ i \in Used(groups)
  BY <1>1 DEF Slots, SlotsSound, Typed, Used
<1>3. x \in GroupRecs /\ x.id = groups[i].id /\ x.address = a /\ x.room = room /\ x.linked = groups[i].linked
  BY <1>2, FormFits, Ids
<1> HIDE DEF x
<1>4. \A j \in Used(groups) : j # i => groups[j].id # x.id
  BY <1>2, <1>3 DEF Slots, SlotsSound, Sound, OwnIds
<1>5. SlotsSound /\ x.id # Nobody
  BY <1>1, <1>3 DEF Slots
<1>6. LinksSound(x.linked)
  BY <1>2, <1>3, <1>5, OwnLinks
<1>7. /\ SlotsSound'
      /\ Housed(shades, groups, rooms) /\ InRoom(x, rooms) => Housed(shades', groups', rooms')
  BY <1>1, <1>2, <1>3, <1>4, <1>5, <1>6, OneGroup
<1>8. stale' \/ (~stale /\ InRoom(x, rooms))
  BY <1>1, <1>3, <1>5, NamedRoom DEF SlotsSound
<1>9. QED
  BY <1>7, <1>8 DEF Slots, HousedNow

LEMMA RoomAdded == ASSUME Slots, AddRoom PROVE Slots'
<1> DEFINE id == Min(FreeIds(RoomIds, MaxRooms))
<1>1. id \in 1 .. MaxRooms - 2
  BY Sizes, FreeId DEF AddRoom
<1>2. PICK i \in DOMAIN rooms : rooms[i] = NoRoom /\ rooms' = [rooms EXCEPT ![i] = id]
  BY DEF AddRoom
<1>3. UNCHANGED <<shades, groups, stale>>
  BY DEF AddRoom
<1> HIDE DEF id
<1>4. rooms' \in [1 .. MaxRooms -> Rooms] /\ DOMAIN rooms' = DOMAIN rooms
  BY <1>1, <1>2, Sizes DEF Slots, SlotsSound, Typed, Rooms
<1>5. SlotsSound'
  BY <1>3, <1>4 DEF Slots, SlotsSound, Typed, Unlinked
<1>6. \A x : InRoom(x, rooms) => InRoom(x, rooms')
  BY <1>2, <1>4 DEF InRoom
<1>7. HousedNow'
  BY <1>3, <1>6 DEF Slots, HousedNow, Housed
<1>8. QED
  BY <1>5, <1>7 DEF Slots

LEMMA Empty ==
  /\ NoShade \in ShadeRecs /\ NoShade.id = Nobody
  /\ NoGroup \in GroupRecs /\ NoGroup.id = Nobody /\ NoGroup.linked = NoLinks
<1>1. NoShade \in ShadeRecs /\ NoShade.id = Nobody
  BY Ids DEF NoShade, ShadeRecs
<1>2. NoLinks \in Links
  BY Sizes DEF NoLinks, Links
<1>3. NoGroup \in GroupRecs /\ NoGroup.id = Nobody /\ NoGroup.linked = NoLinks
  BY <1>2, Ids DEF NoGroup, GroupRecs
<1>4. QED
  BY <1>1, <1>3

LEMMA Clearing ==
  /\ \A x \in ShadeRecs : ClearedShade(x) \in ShadeRecs /\ ClearedShade(x).id = Nobody
  /\ \A x \in GroupRecs : /\ ClearedGroup(x) \in GroupRecs /\ ClearedGroup(x).id = Nobody
                          /\ ClearedGroup(x).linked = NoLinks
<1>1. ASSUME NEW x \in ShadeRecs PROVE ClearedShade(x) \in ShadeRecs /\ ClearedShade(x).id = Nobody
  <2>1. x.room \in Rooms
    BY DEF ShadeRecs
  <2>2. QED
    BY <2>1, Empty DEF ClearedShade, ShadeRecs
<1>2. ASSUME NEW x \in GroupRecs
      PROVE  ClearedGroup(x) \in GroupRecs /\ ClearedGroup(x).id = Nobody /\ ClearedGroup(x).linked = NoLinks
  <2>1. x.code \in Nat
    BY DEF GroupRecs
  <2>2. QED
    BY <2>1, Empty, RecodedGroup DEF ClearedGroup
<1>3. QED
  BY <1>1, <1>2

LEMMA ShadeDeleted == ASSUME Slots, NEW i \in DOMAIN shades, DeleteShade(i) PROVE Slots'
<1> DEFINE id == shades[i].id
<1>1. /\ id # Nobody /\ ~InGroup(id) /\ UNCHANGED <<groups, rooms, stale>>
      /\ shades' = [s \in DOMAIN shades |-> IF shades[s].id = id THEN ClearedShade(shades[s]) ELSE shades[s]]
  BY DEF DeleteShade
<1>2. shades \in [1 .. MaxShades -> ShadeRecs] /\ DOMAIN shades = 1 .. MaxShades /\ id \in 1 .. MaxShades - 2
  <2>1. shades \in [1 .. MaxShades -> ShadeRecs] /\ DOMAIN shades = 1 .. MaxShades
    BY DEF Slots, SlotsSound, Typed
  <2>2. QED
    BY <1>1, <2>1 DEF ShadeRecs
<1> HIDE DEF id
<1>3. /\ DOMAIN shades' = 1 .. MaxShades /\ shades' \in [1 .. MaxShades -> ShadeRecs]
      /\ \A s \in 1 .. MaxShades : IF shades[s].id = id THEN shades'[s].id = Nobody ELSE shades'[s] = shades[s]
  BY <1>1, <1>2, Clearing
<1>4. Used(shades') = {s \in Used(shades) : shades[s].id # id}
  BY <1>1, <1>2, <1>3 DEF Used
<1>5. \A s \in Used(shades') : s \in Used(shades) /\ shades'[s] = shades[s]
  BY <1>2, <1>3, <1>4 DEF Used
<1>6. OwnIds(shades')
  BY <1>5 DEF Slots, SlotsSound, Sound, OwnIds
<1>7. ASSUME NEW g \in Used(groups), NEW j \in 1 .. MaxLinked PROVE groups[g].linked[j] # id
  <2> SUFFICES ASSUME groups[g].linked[j] = id PROVE FALSE
    OBVIOUS
  <2>1. \A k \in 1 .. j : k \in 1 .. MaxLinked /\ k <= j
    BY Sizes
  <2>2. \A k \in 1 .. j : groups[g].linked[k] # 0
    BY <1>2, <2>1, Ids DEF Slots, SlotsSound, Sound, Linked
  <2>3. HasShade(groups[g], id)
    BY <2>2 DEF HasShade
  <2>4. QED
    BY <1>1, <2>3 DEF InGroup
<1>8. \A other : other # id /\ There(other, shades) => There(other, shades')
  BY <1>2, <1>3, <1>4 DEF There, Used
<1>9. Linked(shades', groups)
  BY <1>7, <1>8 DEF Slots, SlotsSound, Sound, Linked
<1>10. SlotsSound'
  BY <1>1, <1>3, <1>6, <1>9 DEF Slots, SlotsSound, Sound, Typed, Unlinked
<1>11. HousedNow'
  BY <1>1, <1>5 DEF Slots, HousedNow, Housed
<1>12. QED
  BY <1>10, <1>11 DEF Slots

LEMMA GroupDeleted == ASSUME Slots, NEW i \in DOMAIN groups, DeleteGroup(i) PROVE Slots'
<1> DEFINE id == groups[i].id
<1>1. /\ id # Nobody /\ UNCHANGED <<shades, rooms, stale>>
      /\ groups' = [g \in DOMAIN groups |-> IF groups[g].id = id THEN ClearedGroup(groups[g]) ELSE groups[g]]
  BY DEF DeleteGroup
<1>2. groups \in [1 .. MaxGroups -> GroupRecs] /\ DOMAIN groups = 1 .. MaxGroups
  BY DEF Slots, SlotsSound, Typed
<1> HIDE DEF id
<1>3. /\ DOMAIN groups' = 1 .. MaxGroups /\ groups' \in [1 .. MaxGroups -> GroupRecs]
      /\ \A g \in 1 .. MaxGroups :
           IF groups[g].id = id THEN groups'[g].id = Nobody /\ groups'[g].linked = NoLinks
           ELSE groups'[g] = groups[g]
  BY <1>1, <1>2, Clearing
<1>4. \A g \in Used(groups') : g \in Used(groups) /\ groups'[g] = groups[g]
  BY <1>2, <1>3 DEF Used
<1>5. OwnIds(groups') /\ Linked(shades, groups')
  BY <1>4 DEF Slots, SlotsSound, Sound, OwnIds, Linked
<1>6. Unlinked'
  BY <1>3 DEF Slots, SlotsSound, Unlinked
<1>7. SlotsSound'
  BY <1>1, <1>3, <1>5, <1>6 DEF Slots, SlotsSound, Sound, Typed
<1>8. HousedNow'
  BY <1>1, <1>4 DEF Slots, HousedNow, Housed
<1>9. QED
  BY <1>7, <1>8 DEF Slots

\* Who was in the room that is deleted is in none.
LEMMA LeavingShade ==
  ASSUME NEW x \in ShadeRecs
  PROVE  LET y == [x EXCEPT !.room = NoRoom]
         IN  y \in ShadeRecs /\ y.id = x.id /\ y.address = x.address /\ y.room = NoRoom
BY Ids DEF ShadeRecs

LEMMA LeavingGroup ==
  ASSUME NEW x \in GroupRecs
  PROVE  LET y == [x EXCEPT !.room = NoRoom]
         IN  y \in GroupRecs /\ y.id = x.id /\ y.address = x.address /\ y.linked = x.linked /\ y.room = NoRoom
BY Ids DEF GroupRecs

LEMMA RoomDeleted == ASSUME Slots, NEW room \in Rooms, DeleteRoom(room) PROVE Slots'
<1>1. /\ shades \in [1 .. MaxShades -> ShadeRecs] /\ DOMAIN shades = 1 .. MaxShades
      /\ groups \in [1 .. MaxGroups -> GroupRecs] /\ DOMAIN groups = 1 .. MaxGroups
      /\ rooms \in [1 .. MaxRooms -> Rooms] /\ DOMAIN rooms = 1 .. MaxRooms
  BY DEF Slots, SlotsSound, Typed
<1>2. /\ shades' = [i \in 1 .. MaxShades |->
           IF shades[i].room = room THEN [shades[i] EXCEPT !.room = NoRoom] ELSE shades[i]]
      /\ groups' = [i \in 1 .. MaxGroups |->
           IF groups[i].room = room THEN [groups[i] EXCEPT !.room = NoRoom] ELSE groups[i]]
      /\ rooms' = [i \in 1 .. MaxRooms |-> IF rooms[i] = room THEN NoRoom ELSE rooms[i]]
      /\ UNCHANGED stale
  BY <1>1 DEF DeleteRoom, Leave
<1>3. /\ DOMAIN shades' = 1 .. MaxShades /\ shades' \in [1 .. MaxShades -> ShadeRecs]
      /\ \A i \in 1 .. MaxShades :
           /\ shades'[i].id = shades[i].id /\ shades'[i].address = shades[i].address
           /\ shades'[i].room = NoRoom \/ (shades'[i].room = shades[i].room /\ shades[i].room # room)
  <2>1. ASSUME NEW i \in 1 .. MaxShades
        PROVE  /\ shades'[i] \in ShadeRecs
               /\ shades'[i].id = shades[i].id /\ shades'[i].address = shades[i].address
               /\ shades'[i].room = NoRoom \/ (shades'[i].room = shades[i].room /\ shades[i].room # room)
    BY <1>1, <1>2, LeavingShade
  <2>2. QED
    BY <1>2, <2>1
<1>4. /\ DOMAIN groups' = 1 .. MaxGroups /\ groups' \in [1 .. MaxGroups -> GroupRecs]
      /\ \A i \in 1 .. MaxGroups :
           /\ groups'[i].id = groups[i].id /\ groups'[i].address = groups[i].address
           /\ groups'[i].linked = groups[i].linked
           /\ groups'[i].room = NoRoom \/ (groups'[i].room = groups[i].room /\ groups[i].room # room)
  <2>1. ASSUME NEW i \in 1 .. MaxGroups
        PROVE  /\ groups'[i] \in GroupRecs
               /\ groups'[i].id = groups[i].id /\ groups'[i].address = groups[i].address
               /\ groups'[i].linked = groups[i].linked
               /\ groups'[i].room = NoRoom \/ (groups'[i].room = groups[i].room /\ groups[i].room # room)
    BY <1>1, <1>2, LeavingGroup
  <2>2. QED
    BY <1>2, <2>1
<1>5. rooms' \in [1 .. MaxRooms -> Rooms] /\ DOMAIN rooms' = 1 .. MaxRooms
      /\ \A i \in 1 .. MaxRooms : rooms[i] # room => rooms'[i] = rooms[i]
  BY <1>1, <1>2, Ids
<1>6. Used(shades') = Used(shades) /\ Used(groups') = Used(groups)
      /\ Used(shades) \subseteq 1 .. MaxShades /\ Used(groups) \subseteq 1 .. MaxGroups
  BY <1>1, <1>3, <1>4 DEF Used
<1>7. OwnIds(shades') /\ OwnIds(groups')
  <2>1. OwnIds(shades')
    BY <1>3, <1>6 DEF Slots, SlotsSound, Sound, OwnIds
  <2>2. OwnIds(groups')
    BY <1>4, <1>6 DEF Slots, SlotsSound, Sound, OwnIds
  <2>3. QED
    BY <2>1, <2>2
<1>8. \A id : There(id, shades) => There(id, shades')
  BY <1>3, <1>6 DEF There
<1>9. Linked(shades', groups')
  BY <1>4, <1>6, <1>8 DEF Slots, SlotsSound, Sound, Linked
<1>10. Unlinked'
  BY <1>4 DEF Slots, SlotsSound, Unlinked
<1>11. SlotsSound'
  BY <1>3, <1>4, <1>5, <1>7, <1>9, <1>10 DEF SlotsSound, Sound, Typed
<1>12. \A x : x.room # room /\ InRoom(x, rooms) => InRoom(x, rooms')
  BY <1>1, <1>5 DEF InRoom
<1>13. HousedNow'
  <2> SUFFICES ASSUME ~stale PROVE Housed(shades', groups', rooms')
    BY <1>2 DEF HousedNow
  <2>1. Housed(shades, groups, rooms)
    BY DEF Slots, HousedNow
  <2>2. ASSUME NEW i \in Used(shades) PROVE InRoom(shades'[i], rooms')
    <3>1. InRoom(shades[i], rooms)
      BY <2>1 DEF Housed
    <3>2. QED
      BY <1>3, <1>6, <1>12, <3>1 DEF InRoom
  <2>3. ASSUME NEW i \in Used(groups) PROVE InRoom(groups'[i], rooms')
    <3>1. InRoom(groups[i], rooms)
      BY <2>1 DEF Housed
    <3>2. QED
      BY <1>4, <1>6, <1>12, <3>1 DEF InRoom
  <2>4. QED
    BY <1>6, <2>2, <2>3 DEF Housed
<1>14. QED
  BY <1>11, <1>13 DEF Slots

\* One link more, and one less.
LEMMA Linking ==
  ASSUME SlotsSound, NEW l \in Links, LinksSound(l), NEW id \in IdsOf(shades), NEW j \in 1 .. MaxLinked,
         \A k \in 1 .. j - 1 : l[k] # 0
  PROVE  [l EXCEPT ![j] = id] \in Links /\ LinksSound([l EXCEPT ![j] = id])
<1> DEFINE new == [l EXCEPT ![j] = id]
<1>1. id \in 1 .. MaxShades - 2 /\ There(id, shades)
  <2>1. PICK i \in Used(shades) : shades[i].id = id
    BY DEF IdsOf
  <2>2. shades[i] \in ShadeRecs /\ shades[i].id # Nobody
    BY DEF SlotsSound, Typed, Used
  <2>3. QED
    BY <2>1, <2>2 DEF ShadeRecs, There
<1>2. id \in 0 .. MaxShades - 2 /\ id # 0
  BY <1>1, Sizes
<1>3. new \in Links /\ \A k \in 1 .. MaxLinked : new[k] = IF k = j THEN id ELSE l[k]
  BY <1>2 DEF Links
<1> HIDE DEF new
<1>4. \A k \in 1 .. MaxLinked : new[k] = 0 \/ There(new[k], shades)
  BY <1>1, <1>3 DEF LinksSound
<1>5. ASSUME NEW k \in 1 .. MaxLinked, NEW n \in 1 .. MaxLinked, k <= n, new[n] # 0 PROVE new[k] # 0
  <2>1. CASE k = j
    BY <1>2, <1>3, <2>1
  <2>2. CASE k # j /\ n = j
    <3>1. k \in 1 .. j - 1
      BY <1>5, <2>2, Sizes
    <3>2. QED
      BY <1>3, <2>2, <3>1
  <2>3. CASE k # j /\ n # j
    BY <1>3, <1>5, <2>3 DEF LinksSound
  <2>4. QED
    BY <2>1, <2>2, <2>3
<1>6. QED
  BY <1>3, <1>4, <1>5 DEF LinksSound, new

LEMMA Unlinking ==
  ASSUME NEW l \in Links, LinksSound(l), NEW id
  PROVE  LET c == Compressed([j \in DOMAIN l |-> IF l[j] = id THEN 0 ELSE l[j]])
         IN  c \in Links /\ LinksSound(c)
<1> DEFINE m == [j \in DOMAIN l |-> IF l[j] = id THEN 0 ELSE l[j]]
           at == {j \in DOMAIN m : m[j] # 0}
           ids == Packed(m, at)
           c == Compressed(m)
<1>1. /\ m \in Links /\ DOMAIN m = 1 .. MaxLinked
      /\ \A j \in 1 .. MaxLinked : m[j] = 0 \/ There(m[j], shades)
  BY Sizes DEF Links, LinksSound
<1> HIDE DEF m
<1>2. at \in SUBSET (1 .. MaxLinked) /\ \A j \in at : m[j] # 0
  BY <1>1
<1>3. c = [i \in 1 .. MaxLinked |-> IF i <= Len(ids) THEN ids[i] ELSE 0]
  BY DEF Compressed
<1> HIDE DEF at
<1>4. Len(ids) \in Nat /\ \A i \in 1 .. Len(ids) : Nth(at, i) \in at /\ ids[i] = m[Nth(at, i)]
  <2>1. MaxLinked \in Nat /\ at \in SUBSET (1 .. MaxLinked)
    BY <1>2, Sizes
  <2>2. /\ Len(ids) = Cardinality(at) /\ Len(ids) <= MaxLinked /\ Len(ids) \in Nat
        /\ \A k \in 1 .. Len(ids) : /\ Nth(at, k) \in at /\ ids[k] = m[Nth(at, k)]
                                     /\ Rank(at, Nth(at, k)) = k
    BY <2>1, PackedWith
  <2>3. QED
    BY <2>2
<1> HIDE DEF ids, c
<1>5. \A i \in 1 .. Len(ids) : /\ ids[i] \in 0 .. MaxShades - 2 /\ ids[i] # 0
                               /\ There(ids[i], shades)
  BY <1>1, <1>2, <1>4 DEF Links
<1>6. \A i \in 1 .. MaxLinked : i <= Len(ids) => i \in 1 .. Len(ids)
  BY <1>4, Sizes
<1>7. \A i \in 1 .. MaxLinked : /\ c[i] \in 0 .. MaxShades - 2
                                /\ c[i] = 0 \/ There(c[i], shades)
                                /\ c[i] # 0 <=> i <= Len(ids)
  BY <1>3, <1>5, <1>6, Sizes
<1>8. c \in Links
  BY <1>3, <1>7 DEF Links
<1>9. \A i, j \in 1 .. MaxLinked : i <= j /\ c[j] # 0 => c[i] # 0
  BY <1>4, <1>7
<1>10. QED
  BY <1>7, <1>8, <1>9 DEF LinksSound, m, c

LEMMA Relinked ==
  ASSUME NEW x \in GroupRecs, NEW l \in Links
  PROVE  LET y == [x EXCEPT !.linked = l]
         IN  y \in GroupRecs /\ y.id = x.id /\ y.address = x.address /\ y.room = x.room /\ y.linked = l
BY DEF GroupRecs

LEMMA LinksChanged ==
  ASSUME Slots, NEW i \in Used(groups), NEW l \in Links, LinksSound(l),
         groups' = [groups EXCEPT ![i].linked = l], UNCHANGED <<shades, rooms, stale>>
  PROVE  Slots'
<1> DEFINE x == [groups[i] EXCEPT !.linked = l]
<1>1. SlotsSound /\ i \in 1 .. MaxGroups /\ groups[i] \in GroupRecs /\ groups[i].id # Nobody
      /\ groups[i].address \in Addresses
  BY DEF Slots, SlotsSound, Typed, Used, Sound, OwnIds
<1>2. /\ x \in GroupRecs /\ x.id = groups[i].id /\ x.address = groups[i].address /\ x.room = groups[i].room
      /\ x.linked = l
  BY <1>1, Relinked
<1>3. groups' = [groups EXCEPT ![i] = x]
  OBVIOUS
<1> HIDE DEF x
<1>4. \A j \in Used(groups) : j # i => groups[j].id # x.id
  BY <1>1, <1>2 DEF SlotsSound, Sound, OwnIds
<1>5. /\ SlotsSound'
      /\ Housed(shades, groups, rooms) /\ InRoom(x, rooms) => Housed(shades', groups', rooms')
  BY <1>1, <1>2, <1>3, <1>4, OneGroup
<1>6. Housed(shades, groups, rooms) => InRoom(x, rooms)
  BY <1>2 DEF Housed, InRoom
<1>7. QED
  BY <1>5, <1>6 DEF Slots, HousedNow

LEMMA ShadeLinked ==
  ASSUME Slots, NEW i \in DOMAIN groups, NEW id \in 1 .. MaxShades - 2, LinkToGroup(i, id)
  PROVE  Slots'
<1>1. i \in Used(groups) /\ id \in IdsOf(shades) /\ UNCHANGED <<shades, rooms, stale>>
  BY DEF LinkToGroup, Used
<1>2. PICK j \in 1 .. MaxLinked :
        /\ \A k \in 1 .. j - 1 : groups[i].linked[k] # 0
        /\ groups' = [groups EXCEPT ![i].linked[j] = id]
  BY DEF LinkToGroup
<1>3. groups[i].linked \in Links /\ LinksSound(groups[i].linked) /\ SlotsSound
  <2>1. groups[i] \in GroupRecs
    BY DEF Slots, SlotsSound, Typed
  <2>2. QED
    BY <1>1, <2>1, OwnLinks DEF Slots, GroupRecs
<1> DEFINE l == [groups[i].linked EXCEPT ![j] = id]
<1>4. l \in Links /\ LinksSound(l)
  BY <1>1, <1>2, <1>3, Linking
<1>5. groups' = [groups EXCEPT ![i].linked = l]
  BY <1>2
<1> HIDE DEF l
<1>6. QED
  BY <1>1, <1>4, <1>5, LinksChanged

LEMMA ShadeUnlinked ==
  ASSUME Slots, NEW i \in DOMAIN groups, NEW id \in 1 .. MaxShades - 2, UnlinkFromGroup(i, id)
  PROVE  Slots'
<1> DEFINE old == groups[i].linked
           l == Compressed([j \in DOMAIN old |-> IF old[j] = id THEN 0 ELSE old[j]])
<1>1. i \in Used(groups) /\ UNCHANGED <<shades, rooms, stale>> /\ groups' = [groups EXCEPT ![i].linked = l]
  BY DEF UnlinkFromGroup, Used
<1>2. old \in Links /\ LinksSound(old)
  <2>1. groups[i] \in GroupRecs
    BY DEF Slots, SlotsSound, Typed
  <2>2. QED
    BY <1>1, <2>1, OwnLinks DEF Slots, GroupRecs
<1> HIDE DEF old
<1>3. l \in Links /\ LinksSound(l)
  BY <1>2, Unlinking
<1> HIDE DEF l
<1>4. QED
  BY <1>1, <1>3, LinksChanged

-----------------------------------------------------------------------------
(* Codes, and what a frame changes.                                        *)

Rising == \A a \in Addresses : sent'[a] >= sent[a] /\ nvs'[a] >= sent'[a]

LEMMA CodesKept ==
  ASSUME Codes, nvs' \in [Addresses -> Nat], \A a \in Addresses : nvs'[a] >= nvs[a], UNCHANGED sent
  PROVE  Codes' /\ Rising
<1>1. \A a \in Addresses : nvs[a] \in Nat /\ nvs'[a] \in Nat /\ sent[a] \in Nat /\ nvs[a] >= sent[a]
  BY DEF Codes
<1>2. \A a \in Addresses : nvs'[a] >= sent[a] /\ sent[a] >= sent[a]
  BY <1>1
<1>3. QED
  BY <1>2 DEF Codes, Rising

LEMMA CodeSent == ASSUME Codes, NEW a \in Addresses, SendFrom(a) PROVE Codes' /\ Rising
<1>1. nvs' = [nvs EXCEPT ![a] = @ + 1] /\ sent' = [sent EXCEPT ![a] = nvs'[a]]
  BY DEF SendFrom
<1>2. /\ nvs \in [Addresses -> Nat] /\ sent \in [Addresses -> Nat]
      /\ \A b \in Addresses : nvs[b] \in Nat /\ sent[b] \in Nat /\ nvs[b] >= sent[b]
  BY DEF Codes
<1>3. /\ nvs' \in [Addresses -> Nat]
      /\ \A b \in Addresses : nvs'[b] = IF b = a THEN nvs[b] + 1 ELSE nvs[b]
  BY <1>1, <1>2
<1>4. /\ sent' \in [Addresses -> Nat]
      /\ \A b \in Addresses : sent'[b] = IF b = a THEN nvs'[b] ELSE sent[b]
  BY <1>1, <1>2, <1>3
<1>5. \A b \in Addresses : sent'[b] >= sent[b] /\ nvs'[b] >= sent'[b]
  BY <1>2, <1>3, <1>4
<1>6. QED
  BY <1>3, <1>4, <1>5 DEF Codes, Rising

\* A shade's code, or a group's, is all that changes.
LEMMA ShadeRecoded ==
  ASSUME Slots, NEW i \in Used(shades), NEW c \in Nat, shades' = [shades EXCEPT ![i].code = c],
         UNCHANGED <<groups, rooms, stale>>
  PROVE  /\ Slots' /\ Used(shades') = Used(shades)
         /\ \A j \in Used(shades) : Known(shades'[j]) = Known(shades[j])
<1> DEFINE x == [shades[i] EXCEPT !.code = c]
<1>1. /\ SlotsSound /\ i \in 1 .. MaxShades /\ shades[i] \in ShadeRecs /\ shades[i].id # Nobody
      /\ shades[i].address \in Addresses /\ shades \in [1 .. MaxShades -> ShadeRecs]
  BY DEF Slots, SlotsSound, Typed, Used, Sound, OwnIds
<1>2. /\ x \in ShadeRecs /\ x.id = shades[i].id /\ x.address = shades[i].address /\ x.room = shades[i].room
      /\ shades' = [shades EXCEPT ![i] = x]
  BY <1>1, RecodedShade
<1> HIDE DEF x
<1>3. \A j \in Used(shades) : j # i => shades[j].id # x.id
  BY <1>1, <1>2 DEF SlotsSound, Sound, OwnIds
<1>4. /\ SlotsSound' /\ Used(shades') = Used(shades) \union {i}
      /\ Housed(shades, groups, rooms) /\ InRoom(x, rooms) => Housed(shades', groups', rooms')
  BY <1>1, <1>2, <1>3, OneShade
<1>5. Housed(shades, groups, rooms) => InRoom(x, rooms)
  BY <1>2 DEF Housed, InRoom
<1>6. Known(x) = Known(shades[i])
  BY <1>1, <1>2, KnownShade
<1>7. \A j \in 1 .. MaxShades : shades'[j] = IF j = i THEN x ELSE shades[j]
  BY <1>1, <1>2
<1>8. Used(shades) \subseteq 1 .. MaxShades
  BY <1>1 DEF Used
<1>9. QED
  BY <1>4, <1>5, <1>6, <1>7, <1>8 DEF Slots, HousedNow

LEMMA GroupRecoded ==
  ASSUME Slots, NEW i \in Used(groups), NEW c \in Nat, groups' = [groups EXCEPT ![i].code = c],
         UNCHANGED <<shades, rooms, stale>>
  PROVE  /\ Slots' /\ Used(groups') = Used(groups)
         /\ \A j \in Used(groups) : Known(groups'[j]) = Known(groups[j])
<1> DEFINE x == [groups[i] EXCEPT !.code = c]
<1>1. /\ SlotsSound /\ i \in 1 .. MaxGroups /\ groups[i] \in GroupRecs /\ groups[i].id # Nobody
      /\ groups[i].address \in Addresses /\ groups \in [1 .. MaxGroups -> GroupRecs]
  BY DEF Slots, SlotsSound, Typed, Used, Sound, OwnIds
<1>2. /\ x \in GroupRecs /\ x.id = groups[i].id /\ x.address = groups[i].address /\ x.room = groups[i].room
      /\ x.linked = groups[i].linked /\ groups' = [groups EXCEPT ![i] = x]
  BY <1>1, RecodedGroup
<1> HIDE DEF x
<1>3. \A j \in Used(groups) : j # i => groups[j].id # x.id
  BY <1>1, <1>2 DEF SlotsSound, Sound, OwnIds
<1>4. LinksSound(x.linked)
  BY <1>1, <1>2, OwnLinks
<1>5. /\ SlotsSound' /\ Used(groups') = Used(groups) \union {i}
      /\ Housed(shades, groups, rooms) /\ InRoom(x, rooms) => Housed(shades', groups', rooms')
  BY <1>1, <1>2, <1>3, <1>4, OneGroup
<1>6. Housed(shades, groups, rooms) => InRoom(x, rooms)
  BY <1>2 DEF Housed, InRoom
<1>7. Known(x) = Known(groups[i])
  BY <1>1, <1>2, KnownGroup
<1>8. \A j \in 1 .. MaxGroups : groups'[j] = IF j = i THEN x ELSE groups[j]
  BY <1>1, <1>2
<1>9. Used(groups) \subseteq 1 .. MaxGroups
  BY <1>1 DEF Used
<1>10. QED
  BY <1>5, <1>6, <1>7, <1>8, <1>9 DEF Slots, HousedNow

-----------------------------------------------------------------------------
(* What files have.                                                        *)

\* But for codes, a file has what the slots have.
KnownAs(f, h) ==
  /\ [i \in DOMAIN f.shades |-> Known(f.shades[i])] = [i \in DOMAIN h.shades |-> Known(h.shades[i])]
  /\ [i \in DOMAIN f.groups |-> Known(f.groups[i])] = [i \in DOMAIN h.groups |-> Known(h.groups[i])]
  /\ f.rooms = h.rooms

LEMMA Survives == SurvivesRestart <=> unsaved \/ KnownAs(file, Image(shades, groups, rooms))
BY DEF SurvivesRestart, KnownAs

LEMMA ImageOf ==
  ASSUME NEW s, NEW g, NEW r
  PROVE  /\ Image(s, g, r).shades = Packed(s, Used(s)) /\ Image(s, g, r).groups = Packed(g, Used(g))
         /\ Image(s, g, r).rooms = Packed(r, UsedRooms(r))
BY DEF Image

LEMMA RecodedSurvives ==
  ASSUME Typed, SurvivesRestart, UNCHANGED <<rooms, file, unsaved>>,
         Used(shades') = Used(shades), \A i \in Used(shades) : Known(shades'[i]) = Known(shades[i]),
         Used(groups') = Used(groups), \A i \in Used(groups) : Known(groups'[i]) = Known(groups[i])
  PROVE  SurvivesRestart'
<1> DEFINE p == Packed(shades, Used(shades))
           pp == Packed(shades', Used(shades))
           q == Packed(groups, Used(groups))
           qq == Packed(groups', Used(groups))
<1>1. [i \in DOMAIN p |-> Known(p[i])] = [i \in DOMAIN pp |-> Known(pp[i])] /\ Len(p) <= MaxShades
  <2>1. MaxShades \in Nat /\ Used(shades) \in SUBSET (1 .. MaxShades)
    BY Sizes DEF Typed, Used
  <2>2. QED
    BY <2>1, KnownAlone
<1>2. [i \in DOMAIN q |-> Known(q[i])] = [i \in DOMAIN qq |-> Known(qq[i])] /\ Len(q) <= MaxGroups
  <2>1. MaxGroups \in Nat /\ Used(groups) \in SUBSET (1 .. MaxGroups)
    BY Sizes DEF Typed, Used
  <2>2. QED
    BY <2>1, KnownAlone
<1> DEFINE now == Image(shades, groups, rooms)
           later == Image(shades', groups', rooms)
<1>3. /\ now.shades = p /\ now.groups = q /\ later.shades = pp /\ later.groups = qq
      /\ now.rooms = later.rooms
  BY ImageOf
<1> HIDE DEF p, pp, q, qq, now, later
<1>4. KnownAs(file, now) => KnownAs(file, later)
  BY <1>1, <1>2, <1>3 DEF KnownAs
<1>5. SurvivesRestart' <=> unsaved \/ KnownAs(file, later)
  BY DEF SurvivesRestart, KnownAs, later
<1>6. SurvivesRestart <=> unsaved \/ KnownAs(file, now)
  BY DEF SurvivesRestart, KnownAs, now
<1>7. QED
  BY <1>4, <1>5, <1>6

\* A commit leaves everything sound, if the slots are.
LEMMA Committed ==
  ASSUME Slots', FilesSound, AllHoused, Rest, UNCHANGED backup, stale' \in BOOLEAN, stale => stale', Commit
  PROVE  FilesSound' /\ AllHoused' /\ SurvivesRestart'
<1>1. file' = Image(shades', groups', rooms')
  BY DEF Commit
<1>2. /\ shades' \in [1 .. MaxShades -> ShadeRecs] /\ groups' \in [1 .. MaxGroups -> GroupRecs]
      /\ rooms' \in [1 .. MaxRooms -> Rooms] /\ Sound(shades', groups')
      /\ stale' \/ Housed(shades', groups', rooms')
  BY DEF Slots, SlotsSound, Typed, HousedNow
<1>3. /\ FileSound(file')
      /\ Housed(shades', groups', rooms') => Housed(file'.shades, file'.groups, file'.rooms)
  BY <1>1, <1>2, ImageSound
<1>4. FilesSound'
  BY <1>3 DEF FilesSound
<1>5. AllHoused'
  BY <1>2, <1>3 DEF AllHoused
<1>6. SurvivesRestart'
  BY <1>1 DEF SurvivesRestart
<1>7. QED
  BY <1>4, <1>5, <1>6

\* No file is written.
LEMMA FilesKept ==
  ASSUME Slots', FilesSound, AllHoused, UNCHANGED <<file, backup, stale>>
  PROVE  FilesSound' /\ AllHoused'
BY DEF Slots, HousedNow, FilesSound, AllHoused

\* A file that is sound makes the slots sound.
LEMMA Loaded ==
  ASSUME Typed, Codes, UNCHANGED stale, NEW f, FileSound(f), stale \/ Housed(f.shades, f.groups, f.rooms),
         NEW s \in [1 .. MaxShades -> ShadeRecs], NEW g \in [1 .. MaxGroups -> GroupRecs],
         NEW r \in [1 .. MaxRooms -> Rooms],
         \A i \in 1 .. MaxShades : s[i].id = Nobody,
         \A i \in 1 .. MaxGroups : g[i].id = Nobody /\ g[i].linked = NoLinks,
         Read(f, s, g), rooms' = RoomsOf(f, r)
  PROVE  /\ Slots' /\ Alike(f.shades, shades') /\ AlikeGroups(f.groups, groups')
         /\ nvs' \in [Addresses -> Nat] /\ \A a \in Addresses : nvs'[a] >= nvs[a]
<1>1. /\ shades' \in [1 .. MaxShades -> ShadeRecs] /\ groups' \in [1 .. MaxGroups -> GroupRecs]
      /\ Alike(f.shades, shades') /\ AlikeGroups(f.groups, groups') /\ Unlinked'
      /\ nvs' \in [Addresses -> Nat] /\ \A a \in Addresses : nvs'[a] >= nvs[a]
  BY Reading
<1>2. /\ Sound(shades', groups')
      /\ \A h : Housed(f.shades, f.groups, h) => Housed(shades', groups', h)
  BY <1>1, SoundAlike DEF FileSound
<1>3. DOMAIN rooms = 1 .. MaxRooms
  BY DEF Typed
<1>4. rooms' = [i \in 1 .. MaxRooms |-> IF i <= Len(f.rooms) THEN f.rooms[i] ELSE r[i]]
  BY <1>3 DEF RoomsOf
<1>5. /\ Len(f.rooms) \in Nat /\ Len(f.rooms) <= MaxRooms /\ DOMAIN f.rooms = 1 .. Len(f.rooms)
      /\ \A i \in 1 .. Len(f.rooms) : f.rooms[i] \in Rooms
  BY DEF FileSound
<1>6. \A i \in 1 .. MaxRooms : i <= Len(f.rooms) => i \in 1 .. Len(f.rooms)
  BY <1>5, Sizes
<1>7. rooms' \in [1 .. MaxRooms -> Rooms]
  BY <1>4, <1>5, <1>6
<1>8. \A i \in 1 .. Len(f.rooms) : i \in 1 .. MaxRooms /\ i <= Len(f.rooms)
  BY <1>5, Sizes
<1>9. \A i \in DOMAIN f.rooms : i \in DOMAIN rooms' /\ rooms'[i] = f.rooms[i]
  BY <1>4, <1>5, <1>8
<1>10. \A x : InRoom(x, f.rooms) => InRoom(x, rooms')
  BY <1>9 DEF InRoom
<1>11. Housed(shades', groups', f.rooms) => Housed(shades', groups', rooms')
  BY <1>10 DEF Housed
<1>12. SlotsSound'
  BY <1>1, <1>2, <1>7 DEF SlotsSound, Typed
<1>13. HousedNow'
  BY <1>2, <1>11 DEF HousedNow
<1>14. QED
  BY <1>1, <1>12, <1>13 DEF Slots

\* Slots that are as a file says, with nothing after, are saved as that file.
LEMMA SavedAgain ==
  ASSUME NEW f, FileSound(f),
         NEW s \in [1 .. MaxShades -> ShadeRecs], NEW g \in [1 .. MaxGroups -> GroupRecs],
         NEW r \in [1 .. MaxRooms -> Rooms], Alike(f.shades, s), AlikeGroups(f.groups, g),
         UsedRooms(r) = 1 .. Len(f.rooms), \A i \in 1 .. Len(f.rooms) : r[i] = f.rooms[i]
  PROVE  KnownAs(f, Image(s, g, r))
<1> DEFINE m == Len(f.shades)
           n == Len(f.groups)
           o == Len(f.rooms)
           p == Packed(s, 1 .. m)
           q == Packed(g, 1 .. n)
           h == Packed(r, 1 .. o)
<1>1. /\ m \in 0 .. MaxShades /\ Used(s) = 1 .. m /\ DOMAIN f.shades = 1 .. m
      /\ \A i \in 1 .. m : f.shades[i] \in ShadeRecs
      /\ \A i \in 1 .. m : s[i].id = f.shades[i].id /\ s[i].address = f.shades[i].address
                           /\ s[i].room = f.shades[i].room
  BY Sizes DEF FileSound, Alike
<1>2. /\ n \in 0 .. MaxGroups /\ Used(g) = 1 .. n /\ DOMAIN f.groups = 1 .. n
      /\ \A i \in 1 .. n : f.groups[i] \in GroupRecs
      /\ \A i \in 1 .. n : g[i].id = f.groups[i].id /\ g[i].address = f.groups[i].address
                           /\ g[i].room = f.groups[i].room /\ g[i].linked = f.groups[i].linked
  <2>1. /\ n \in 0 .. MaxGroups /\ Used(f.groups) = 1 .. n /\ DOMAIN f.groups = 1 .. n
        /\ \A i \in 1 .. n : f.groups[i] \in GroupRecs
    BY Sizes DEF FileSound
  <2>2. QED
    BY <2>1 DEF Alike, AlikeGroups
<1>3. o \in 0 .. MaxRooms /\ f.rooms = [i \in 1 .. o |-> f.rooms[i]]
  <2>1. f.rooms \in Seq(Rooms) /\ o <= MaxRooms
    BY DEF FileSound
  <2>2. o \in Nat /\ f.rooms \in [1 .. o -> Rooms]
    BY <2>1, LenProperties
  <2>3. QED
    BY <2>1, <2>2, Sizes
<1>4. Image(s, g, r).shades = p /\ Image(s, g, r).groups = q /\ Image(s, g, r).rooms = h
  BY <1>1, <1>2, ImageOf
<1>5. DOMAIN p = 1 .. m /\ \A i \in 1 .. m : p[i] = s[i]
  BY <1>1, Sizes, PackedPrefix
<1>6. DOMAIN q = 1 .. n /\ \A i \in 1 .. n : q[i] = g[i]
  BY <1>2, Sizes, PackedPrefix
<1>7. h = [i \in 1 .. o |-> r[i]]
  <2>1. Len(h) = o /\ DOMAIN h = 1 .. o /\ \A i \in 1 .. o : h[i] = r[i]
    <3>1. MaxRooms \in Nat /\ o \in 0 .. MaxRooms
      BY <1>3, Sizes
    <3> HIDE DEF o
    <3>2. QED
      BY <3>1, PackedPrefix
  <2>2. h = [i \in DOMAIN h |-> h[i]]
    BY DEF Packed
  <2> HIDE DEF h
  <2>3. QED
    BY <2>1, <2>2
<1> HIDE DEF m, n, o, p, q, h
<1>8. ASSUME NEW i \in 1 .. m PROVE Known(p[i]) = Known(f.shades[i])
  <2>1. s[i] \in ShadeRecs
    BY <1>1, Sizes
  <2>2. QED
    BY <1>1, <1>5, <2>1, KnownShade
<1>9. ASSUME NEW i \in 1 .. n PROVE Known(q[i]) = Known(f.groups[i])
  <2>1. g[i] \in GroupRecs
    BY <1>2, Sizes
  <2>2. QED
    BY <1>2, <1>6, <2>1, KnownGroup
<1>10. f.rooms = h
  BY <1>3, <1>7 DEF o
<1>11. [i \in DOMAIN f.shades |-> Known(f.shades[i])] = [i \in DOMAIN p |-> Known(p[i])]
  BY <1>1, <1>5, <1>8
<1>12. [i \in DOMAIN f.groups |-> Known(f.groups[i])] = [i \in DOMAIN q |-> Known(q[i])]
  BY <1>2, <1>6, <1>9
<1>13. QED
  BY <1>4, <1>10, <1>11, <1>12 DEF KnownAs

-----------------------------------------------------------------------------
(* Every step.                                                             *)

LEMMA Parts ==
  /\ IInv => Slots /\ SlotsSound /\ Typed /\ FilesSound /\ AllHoused /\ Codes /\ Rest /\ SurvivesRestart
  /\ Slots' /\ FilesSound' /\ AllHoused' /\ Codes' /\ Rest' /\ SurvivesRestart' => IInv'
BY DEF IInv, Slots, SlotsSound, HousedNow, AllHoused

\* A request that is saved, and leaves the slots sound.
LEMMA Requested ==
  ASSUME IInv, Slots', Rest', UNCHANGED <<nvs, sent, backup>>, stale => stale', Commit
  PROVE  IInv' /\ Rising
<1>1. FilesSound' /\ AllHoused' /\ SurvivesRestart'
  BY Parts, Committed DEF Rest
<1>2. Codes' /\ Rising
  <2>1. \A a \in Addresses : nvs[a] >= nvs[a]
    BY Parts DEF Codes
  <2>2. QED
    BY <2>1, Parts, CodesKept DEF Codes
<1>3. QED
  BY <1>1, <1>2, Parts

\* What it leaves of the proposals and of the history.
LEMMA Restless ==
  ASSUME IInv, proposed' \subseteq proposed, unsaved' \in BOOLEAN,
         stale' \in BOOLEAN
  PROVE  Rest'
BY Parts DEF Rest

LEMMA Adds ==
  ASSUME IInv, NEW a \in proposed, NEW room \in Rooms \union {Unnamed},
         AddShade(a, room) \/ (room \in Rooms /\ AddGroup(a, room))
  PROVE  IInv' /\ Rising
<1>1. Slots'
  BY Parts, ShadeAdded, GroupAdded
<1>2. UNCHANGED <<nvs, sent, backup>> /\ Commit /\ proposed' \subseteq proposed /\ unsaved' = FALSE
  BY DEF AddShade, AddGroup, Changes, Commit
<1>3. \E named : stale' = (stale \/ named \notin RoomIds \union {NoRoom})
  BY DEF AddShade, AddGroup, Names
<1>4. stale' \in BOOLEAN /\ (stale => stale')
  BY <1>3, Parts DEF Rest
<1>5. Rest'
  BY <1>2, <1>4, Restless
<1>6. QED
  BY <1>1, <1>2, <1>4, <1>5, Requested

LEMMA Saves ==
  ASSUME IInv, NEW a \in Addresses, NEW room \in Rooms,
         \/ \E i \in DOMAIN shades : SaveShade(i, a, room)
         \/ \E i \in DOMAIN groups : SaveGroup(i, a, room)
  PROVE  IInv' /\ Rising
<1>1. Slots'
  BY Parts, ShadeSaved, GroupSaved
<1>2. UNCHANGED <<nvs, sent, backup, proposed>> /\ Commit /\ unsaved' = FALSE
  BY DEF SaveShade, SaveGroup, Changes, Commit
<1>3. stale' = (stale \/ room \notin RoomIds \union {NoRoom})
  BY DEF SaveShade, SaveGroup, Names
<1>4. stale' \in BOOLEAN /\ (stale => stale')
  BY <1>3, Parts DEF Rest
<1>5. Rest'
  BY <1>2, <1>4, Restless
<1>6. QED
  BY <1>1, <1>2, <1>4, <1>5, Requested

\* What changes the slots and puts nobody in a room.
Deletes ==
  \/ \E i \in DOMAIN shades : DeleteShade(i)
  \/ \E i \in DOMAIN groups : DeleteGroup(i)
  \/ \E room \in Rooms : DeleteRoom(room)
LinkChanges ==
  \E i \in DOMAIN groups, id \in 1 .. MaxShades - 2 : LinkToGroup(i, id) \/ UnlinkFromGroup(i, id)

LEMMA Others ==
  ASSUME IInv, Deletes \/ LinkChanges \/ AddRoom \/ SaveRoom \/ SetPaired
  PROVE  IInv' /\ Rising
<1>1. Slots'
  <2>1. CASE Deletes
    BY <2>1, Parts, ShadeDeleted, GroupDeleted, RoomDeleted DEF Deletes
  <2>2. CASE LinkChanges
    BY <2>2, Parts, ShadeLinked, ShadeUnlinked DEF LinkChanges
  <2>3. CASE AddRoom
    BY <2>3, Parts, RoomAdded
  <2>4. CASE SaveRoom \/ SetPaired
    <3>1. UNCHANGED <<shades, groups, rooms, stale>>
      BY <2>4 DEF SaveRoom, SetPaired, slots
    <3>2. QED
      BY <3>1, Parts DEF Slots, SlotsSound, Typed, Unlinked, HousedNow
  <2>5. QED
    BY <2>1, <2>2, <2>3, <2>4
<1>2. UNCHANGED <<nvs, sent, backup, proposed, stale>> /\ Commit
  <2>1. CASE Deletes
    BY <2>1 DEF Deletes, DeleteShade, DeleteGroup, DeleteRoom, Changes
  <2>2. CASE LinkChanges
    BY <2>2 DEF LinkChanges, LinkToGroup, UnlinkFromGroup, Changes
  <2>3. CASE AddRoom \/ SaveRoom \/ SetPaired
    BY <2>3 DEF AddRoom, SaveRoom, SetPaired, Changes
  <2>4. QED
    BY <2>1, <2>2, <2>3
<1>3. unsaved' = FALSE /\ stale' \in BOOLEAN /\ (stale => stale')
  BY <1>2, Parts DEF Commit, Rest
<1>4. Rest'
  BY <1>2, <1>3, Restless
<1>5. QED
  BY <1>1, <1>2, <1>3, <1>4, Requested

LEMMA Proposed == ASSUME IInv, Propose PROVE IInv' /\ Rising
<1>1. PICK ids : /\ NextAddress(Min(ids)) \in Addresses
                 /\ proposed' = proposed \union {NextAddress(Min(ids))}
  BY DEF Propose
<1>2. UNCHANGED <<shades, groups, rooms, nvs, file, backup, sent, stale, unsaved>>
  BY DEF Propose, slots, history
<1>3. proposed' \subseteq Addresses
  BY <1>1, Parts DEF Rest
<1>4. Slots' /\ FilesSound' /\ AllHoused' /\ SurvivesRestart' /\ Rest'
  BY <1>2, <1>3, Parts
     DEF Slots, SlotsSound, Typed, Unlinked, HousedNow, FilesSound, AllHoused, SurvivesRestart, Rest
<1>5. Codes' /\ Rising
  <2>1. \A a \in Addresses : nvs[a] >= nvs[a]
    BY Parts DEF Codes
  <2>2. QED
    BY <1>2, <2>1, Parts, CodesKept DEF Codes
<1>6. QED
  BY <1>4, <1>5, Parts

LEMMA Downloaded == ASSUME IInv, Download PROVE IInv' /\ Rising
<1>1. /\ UNCHANGED <<shades, groups, rooms, nvs, file, proposed, sent, stale, unsaved>>
      /\ backup' = Image(shades, groups, rooms)
  BY DEF Download, slots, history
<1>2. /\ FileSound(backup')
      /\ Housed(shades, groups, rooms) => Housed(backup'.shades, backup'.groups, backup'.rooms)
  BY <1>1, Parts, ImageSound DEF SlotsSound, Typed
<1>3. FilesSound' /\ AllHoused'
  BY <1>1, <1>2, Parts DEF FilesSound, AllHoused
<1>4. Slots' /\ SurvivesRestart' /\ Rest'
  BY <1>1, Parts DEF Slots, SlotsSound, Typed, Unlinked, HousedNow, SurvivesRestart, Rest
<1>5. Codes' /\ Rising
  <2>1. \A a \in Addresses : nvs[a] >= nvs[a]
    BY Parts DEF Codes
  <2>2. QED
    BY <1>1, <2>1, Parts, CodesKept DEF Codes
<1>6. QED
  BY <1>3, <1>4, <1>5, Parts

LEMMA ShadeSends ==
  ASSUME IInv, NEW i \in DOMAIN shades, SendShade(i) \/ UnpairShade(i) PROVE IInv' /\ Rising
<1> DEFINE a == shades[i].address
           c == NextCode(shades, i)
<1>1. /\ i \in Used(shades) /\ SendFrom(a) /\ shades' = [shades EXCEPT ![i].code = c]
      /\ UNCHANGED <<groups, rooms, backup, proposed, stale>>
  BY DEF SendShade, UnpairShade, Used
<1>2. a \in Addresses
  BY <1>1, Parts DEF SlotsSound, Sound, OwnIds
<1>3. c \in Nat
  BY <1>2, Parts DEF NextCode, Codes
<1> HIDE DEF a, c
<1>4. /\ Slots' /\ Used(shades') = Used(shades)
      /\ \A j \in Used(shades) : Known(shades'[j]) = Known(shades[j])
  BY <1>1, <1>3, Parts, ShadeRecoded
<1>5. Codes' /\ Rising
  BY <1>1, <1>2, Parts, CodeSent
<1>6. CASE SendShade(i)
  <2>1. UNCHANGED <<file, unsaved>>
    BY <1>6 DEF SendShade
  <2>2. FilesSound' /\ AllHoused'
    BY <1>1, <1>4, <2>1, Parts, FilesKept
  <2>3. SurvivesRestart'
    <3>1. Used(groups') = Used(groups) /\ \A j \in Used(groups) : Known(groups'[j]) = Known(groups[j])
      BY <1>1
    <3>2. QED
      BY <1>1, <1>4, <2>1, <3>1, Parts, RecodedSurvives
  <2>4. Rest'
    BY <1>1, <2>1, Parts DEF Rest
  <2>5. QED
    BY <1>4, <1>5, <2>2, <2>3, <2>4, Parts
<1>7. CASE UnpairShade(i)
  <2>1. Commit
    BY <1>7 DEF UnpairShade
  <2>2. Rest'
    BY <1>1, <2>1, Parts DEF Rest, Commit
  <2>3. FilesSound' /\ AllHoused' /\ SurvivesRestart'
    BY <1>1, <1>4, <2>1, <2>2, Parts, Committed DEF Rest
  <2>4. QED
    BY <1>4, <1>5, <2>2, <2>3, Parts
<1>8. QED
  BY <1>6, <1>7

LEMMA GroupSends == ASSUME IInv, NEW i \in DOMAIN groups, SendGroup(i) PROVE IInv' /\ Rising
<1> DEFINE a == groups[i].address
           c == NextCode(groups, i)
<1>1. /\ i \in Used(groups) /\ SendFrom(a) /\ groups' = [groups EXCEPT ![i].code = c]
      /\ UNCHANGED <<shades, rooms, file, backup, proposed, stale, unsaved>>
  BY DEF SendGroup, Used
<1>2. a \in Addresses
  BY <1>1, Parts DEF SlotsSound, Sound, OwnIds
<1>3. c \in Nat
  BY <1>2, Parts DEF NextCode, Codes
<1> HIDE DEF a, c
<1>4. /\ Slots' /\ Used(groups') = Used(groups)
      /\ \A j \in Used(groups) : Known(groups'[j]) = Known(groups[j])
  BY <1>1, <1>3, Parts, GroupRecoded
<1>5. Codes' /\ Rising
  BY <1>1, <1>2, Parts, CodeSent
<1>6. FilesSound' /\ AllHoused'
  BY <1>1, <1>4, Parts, FilesKept
<1>7. SurvivesRestart'
  <2>1. Used(shades') = Used(shades) /\ \A j \in Used(shades) : Known(shades'[j]) = Known(shades[j])
    BY <1>1
  <2>2. QED
    BY <1>1, <1>4, <2>1, Parts, RecodedSurvives
<1>8. Rest'
  BY <1>1, Parts DEF Rest
<1>9. QED
  BY <1>4, <1>5, <1>6, <1>7, <1>8, Parts

LEMMA CodeSet == ASSUME IInv, NEW i \in DOMAIN shades, SetRollingCode(i) PROVE IInv' /\ Rising
<1> DEFINE a == shades[i].address
           c == NextCode(shades, i) + 1
<1>1. /\ i \in Used(shades) /\ shades' = [shades EXCEPT ![i].code = c] /\ nvs' = [nvs EXCEPT ![a] = c]
      /\ UNCHANGED <<groups, rooms, file, backup, proposed, sent, stale, unsaved>>
  BY DEF SetRollingCode, Used, history
<1>2. a \in Addresses
  BY <1>1, Parts DEF SlotsSound, Sound, OwnIds
<1>3. c \in Nat /\ c >= nvs[a] /\ nvs \in [Addresses -> Nat]
  BY <1>2, Parts DEF NextCode, Codes
<1> HIDE DEF a, c
<1>4. /\ Slots' /\ Used(shades') = Used(shades)
      /\ \A j \in Used(shades) : Known(shades'[j]) = Known(shades[j])
  BY <1>1, <1>3, Parts, ShadeRecoded
<1>5. Codes' /\ Rising
  <2>1. nvs' \in [Addresses -> Nat] /\ \A b \in Addresses : nvs'[b] >= nvs[b]
    BY <1>1, <1>2, <1>3
  <2>2. QED
    BY <1>1, <2>1, Parts, CodesKept
<1>6. FilesSound' /\ AllHoused'
  BY <1>1, <1>4, Parts, FilesKept
<1>7. SurvivesRestart'
  <2>1. Used(groups') = Used(groups) /\ \A j \in Used(groups) : Known(groups'[j]) = Known(groups[j])
    BY <1>1
  <2>2. QED
    BY <1>1, <1>4, <2>1, Parts, RecodedSurvives
<1>8. Rest'
  BY <1>1, Parts DEF Rest
<1>9. QED
  BY <1>4, <1>5, <1>6, <1>7, <1>8, Parts

LEMMA Restarted == ASSUME IInv, Restart PROVE IInv' /\ Rising
<1> DEFINE s == [i \in DOMAIN shades |-> NoShade]
           g == [i \in DOMAIN groups |-> NoGroup]
           r == [i \in DOMAIN rooms |-> NoRoom]
<1>1. /\ Read(file, s, g) /\ rooms' = RoomsOf(file, r) /\ unsaved' = FALSE
      /\ UNCHANGED <<file, backup, proposed, sent, stale>>
  BY DEF Restart
<1>2. DOMAIN shades = 1 .. MaxShades /\ DOMAIN groups = 1 .. MaxGroups /\ DOMAIN rooms = 1 .. MaxRooms
  BY Parts DEF Typed
<1>3. /\ NoShade \in ShadeRecs /\ NoShade.id = Nobody
      /\ NoGroup \in GroupRecs /\ NoGroup.id = Nobody /\ NoGroup.linked = NoLinks
  BY Empty
<1>4. /\ s \in [1 .. MaxShades -> ShadeRecs] /\ \A i \in 1 .. MaxShades : s[i].id = Nobody
      /\ g \in [1 .. MaxGroups -> GroupRecs]
      /\ \A i \in 1 .. MaxGroups : g[i].id = Nobody /\ g[i].linked = NoLinks
      /\ r \in [1 .. MaxRooms -> Rooms]
  BY <1>2, <1>3, Ids
<1>5. FileSound(file) /\ (stale \/ Housed(file.shades, file.groups, file.rooms))
  BY Parts DEF FilesSound, AllHoused
<1>6. rooms' = [i \in 1 .. MaxRooms |-> IF i <= Len(file.rooms) THEN file.rooms[i] ELSE NoRoom]
  BY <1>1, <1>2 DEF RoomsOf
<1> HIDE DEF s, g, r
<1>7. /\ Slots' /\ Alike(file.shades, shades') /\ AlikeGroups(file.groups, groups')
      /\ nvs' \in [Addresses -> Nat] /\ \A a \in Addresses : nvs'[a] >= nvs[a]
  BY <1>1, <1>4, <1>5, Parts, Loaded
<1>8. Codes' /\ Rising
  BY <1>1, <1>7, Parts, CodesKept
<1>9. FilesSound' /\ AllHoused'
  BY <1>1, <1>7, Parts, FilesKept
<1>10. UsedRooms(rooms') = 1 .. Len(file.rooms) /\ \A i \in 1 .. Len(file.rooms) : rooms'[i] = file.rooms[i]
  <2>1. /\ Len(file.rooms) \in Nat /\ Len(file.rooms) <= MaxRooms
        /\ UsedRooms(file.rooms) = 1 .. Len(file.rooms)
    BY <1>5 DEF FileSound
  <2>2. \A i \in 1 .. Len(file.rooms) : i \in 1 .. MaxRooms /\ i <= Len(file.rooms) /\ file.rooms[i] # NoRoom
    BY <2>1, Sizes DEF UsedRooms
  <2>3. \A i \in 1 .. Len(file.rooms) : i \in DOMAIN rooms' /\ rooms'[i] = file.rooms[i]
    BY <1>6, <2>2
  <2>4. \A i \in 1 .. MaxRooms : i \in 1 .. Len(file.rooms) \/ rooms'[i] = NoRoom
    BY <1>6, <2>1, Sizes
  <2>5. DOMAIN rooms' = 1 .. MaxRooms
    BY <1>6
  <2>6. QED
    BY <2>2, <2>3, <2>4, <2>5 DEF UsedRooms
<1>11. /\ shades' \in [1 .. MaxShades -> ShadeRecs] /\ groups' \in [1 .. MaxGroups -> GroupRecs]
       /\ rooms' \in [1 .. MaxRooms -> Rooms]
  BY <1>7 DEF Slots, SlotsSound, Typed
<1>12. SurvivesRestart'
  <2>1. KnownAs(file, Image(shades', groups', rooms'))
    BY <1>5, <1>7, <1>10, <1>11, SavedAgain
  <2>2. QED
    BY <1>1, <2>1 DEF SurvivesRestart, KnownAs
<1>13. Rest'
  BY <1>1, Parts DEF Rest
<1>14. QED
  BY <1>7, <1>8, <1>9, <1>12, <1>13, Parts

\* What a backup makes of the slots, whatever rooms stay beyond it.
LEMMA BackupRead ==
  ASSUME IInv, ReadBackup, UNCHANGED <<sent, stale>>, NEW r \in [1 .. MaxRooms -> Rooms],
         rooms' = RoomsOf(backup, r)
  PROVE  Slots' /\ Codes' /\ Rising
<1> DEFINE s == [i \in DOMAIN shades |-> ClearedShade(shades[i])]
           g == [i \in DOMAIN groups |-> ClearedGroup(groups[i])]
<1>1. Read(backup, s, g)
  BY DEF ReadBackup
<1>2. shades \in [1 .. MaxShades -> ShadeRecs] /\ groups \in [1 .. MaxGroups -> GroupRecs]
  BY Parts DEF Typed
<1>3. s \in [1 .. MaxShades -> ShadeRecs] /\ \A i \in 1 .. MaxShades : s[i].id = Nobody
  BY <1>2, Clearing
<1>4. /\ g \in [1 .. MaxGroups -> GroupRecs]
      /\ \A i \in 1 .. MaxGroups : g[i].id = Nobody /\ g[i].linked = NoLinks
  BY <1>2, Clearing
<1>5. FileSound(backup) /\ (stale \/ Housed(backup.shades, backup.groups, backup.rooms))
  BY Parts DEF FilesSound, AllHoused
<1> HIDE DEF s, g
<1>6. Slots' /\ nvs' \in [Addresses -> Nat] /\ \A a \in Addresses : nvs'[a] >= nvs[a]
  BY <1>1, <1>3, <1>4, <1>5, Parts, Loaded
<1>7. QED
  BY <1>6, Parts, CodesKept

LEMMA Restored == ASSUME IInv, Restore PROVE IInv' /\ Rising
<1>1. /\ ReadBackup /\ rooms' = RoomsOf(backup, rooms) /\ UNCHANGED <<backup, proposed, sent, stale>> /\ Commit
  BY DEF Restore, Changes
<1>2. rooms \in [1 .. MaxRooms -> Rooms]
  BY Parts DEF Typed
<1>3. Slots' /\ Codes' /\ Rising
  BY <1>1, <1>2, BackupRead
<1>4. Rest'
  BY <1>1, Parts DEF Rest, Commit
<1>5. FilesSound' /\ AllHoused' /\ SurvivesRestart'
  BY <1>1, <1>3, <1>4, Parts, Committed DEF Rest
<1>6. QED
  BY <1>3, <1>4, <1>5, Parts

LEMMA ConfigUploaded == ASSUME IInv, UploadConfig PROVE IInv' /\ Rising
<1> DEFINE r == [i \in DOMAIN rooms |-> NoRoom]
<1>1. /\ ReadBackup /\ rooms' = RoomsOf(backup, r) /\ unsaved' = TRUE
      /\ UNCHANGED <<file, backup, proposed, sent, stale>>
  BY DEF UploadConfig, Changes
<1>2. r \in [1 .. MaxRooms -> Rooms]
  BY Parts, Ids DEF Typed
<1> HIDE DEF r
<1>3. Slots' /\ Codes' /\ Rising
  BY <1>1, <1>2, BackupRead
<1>4. FilesSound' /\ AllHoused'
  BY <1>1, <1>3, Parts, FilesKept
<1>5. SurvivesRestart' /\ Rest'
  BY <1>1, Parts DEF SurvivesRestart, Rest
<1>6. QED
  BY <1>3, <1>4, <1>5, Parts

LEMMA Inductive == IInv /\ [Next]_vars => IInv' /\ [Rising]_vars
<1> SUFFICES ASSUME IInv, [Next]_vars PROVE IInv' /\ [Rising]_vars
  OBVIOUS
<1>1. CASE Propose \/ Download \/ Restore \/ UploadConfig \/ Restart
  BY <1>1, Proposed, Downloaded, Restored, ConfigUploaded, Restarted
<1>2. CASE AddRoom \/ SaveRoom \/ SetPaired \/ Deletes \/ LinkChanges
  BY <1>2, Others
<1>3. CASE \/ \E a \in proposed, room \in Rooms : AddShade(a, room) \/ AddGroup(a, room)
           \/ \E a \in proposed : AddShade(a, Unnamed)
  BY <1>3, Adds
<1>4. CASE \E i \in DOMAIN shades : SendShade(i) \/ UnpairShade(i) \/ SetRollingCode(i)
  BY <1>4, ShadeSends, CodeSet
<1>5. CASE \E i \in DOMAIN groups : SendGroup(i)
  BY <1>5, GroupSends
<1>6. CASE \/ \E i \in DOMAIN shades, a \in Addresses, room \in Rooms : SaveShade(i, a, room)
           \/ \E i \in DOMAIN groups, a \in Addresses, room \in Rooms : SaveGroup(i, a, room)
  BY <1>6, Saves
<1>7. CASE UNCHANGED vars
  <2>1. /\ UNCHANGED <<shades, groups, rooms, nvs, file, backup>>
        /\ UNCHANGED <<proposed, sent, stale, unsaved>>
    BY <1>7 DEF vars, slots, history
  <2>2. SlotsSound' /\ FilesSound' /\ AllHoused'
    BY <2>1 DEF IInv, SlotsSound, Typed, Unlinked, FilesSound, AllHoused
  <2>3. Codes' /\ Rest' /\ SurvivesRestart'
    BY <2>1 DEF IInv, Codes, Rest, SurvivesRestart
  <2>4. QED
    BY <1>7, <2>2, <2>3 DEF IInv
<1>8. QED
  <2>1. CASE Next
    BY <1>1, <1>2, <1>3, <1>4, <1>5, <1>6, <2>1 DEF Next, Deletes, LinkChanges
  <2>2. QED
    BY <1>7, <2>1

-----------------------------------------------------------------------------
(* The start.                                                              *)

\* What fills the first slots, and is saved.
LEMMA FirstSlots ==
  ASSUME NEW E, NEW size \in Nat, NEW table \in [1 .. size -> E], NEW n \in 0 .. size
  PROVE  LET part == SubSeq(table, 1, n)
         IN  /\ part \in Seq(E) /\ Len(part) = n /\ DOMAIN part = 1 .. n
             /\ \A i \in 1 .. n : part[i] = table[i]
<1> DEFINE part == SubSeq(table, 1, n)
<1>1. n \in Int /\ n \in Nat /\ 1 \in Int /\ \A i \in 1 .. n : table[i] \in E
  OBVIOUS
<1>2. /\ part \in Seq(E) /\ Len(part) = IF 1 <= n THEN n - 1 + 1 ELSE 0
      /\ \A i \in 1 .. n - 1 + 1 : part[i] = table[1 + i - 1]
  BY <1>1, SubSeqProperties
<1> HIDE DEF part
<1>3. Len(part) = n /\ n - 1 + 1 = n
  BY <1>1, <1>2
<1>4. \A i \in 1 .. n : part[i] = table[i]
  BY <1>1, <1>2, <1>3
<1>5. QED
  BY <1>2, <1>3, <1>4 DEF part

LEMMA NoFileSound == FileSound(NoFile) /\ Housed(NoFile.shades, NoFile.groups, NoFile.rooms)
<1>1. /\ NoFile.shades = <<>> /\ NoFile.groups = <<>> /\ NoFile.rooms = <<>>
      /\ Used(<<>>) = {} /\ UsedRooms(<<>>) = {} /\ Len(<<>>) = 0 /\ 1 .. 0 = {}
  BY DEF NoFile, Used, UsedRooms
<1>2. <<>> \in Seq(ShadeRecs) /\ <<>> \in Seq(GroupRecs) /\ <<>> \in Seq(Rooms)
  OBVIOUS
<1>3. Sound(<<>>, <<>>) /\ Housed(<<>>, <<>>, <<>>)
  BY <1>1 DEF Sound, OwnIds, Linked, Housed
<1>4. QED
  BY <1>1, <1>2, <1>3, Sizes DEF FileSound

LEMMA InitInv == Init => IInv
<1> SUFFICES ASSUME Init PROVE IInv
  OBVIOUS
<1>1. PICK n \in 0 .. MaxShades - 2 :
        LET k == Min({n, 1}) IN
        /\ shades = [i \in 1 .. MaxShades |->
             IF i <= n THEN [NoShade EXCEPT !.id = i, !.address = i] ELSE NoShade]
        /\ groups = [i \in 1 .. MaxGroups |->
             IF i <= k THEN [NoGroup EXCEPT !.id = i, !.address = n + 1] ELSE NoGroup]
        /\ rooms = [i \in 1 .. MaxRooms |-> IF i <= k THEN i ELSE NoRoom]
        /\ file = [shades |-> SubSeq(shades, 1, n), groups |-> SubSeq(groups, 1, k),
                   rooms |-> SubSeq(rooms, 1, k)]
        /\ nvs = [a \in Addresses |-> 0] /\ backup = NoFile
        /\ proposed = {} /\ sent = [a \in Addresses |-> 0] /\ stale = FALSE /\ unsaved = FALSE
  BY DEF Init
<1> DEFINE k == Min({n, 1})
<1>2. k \in 0 .. 1 /\ k <= n
  <2>1. IsFiniteSet({n, 1}) /\ {n, 1} # {} /\ {n, 1} \subseteq Int
    <3>1. IsFiniteSet({1})
      BY FS_Singleton
    <3>2. {n, 1} = {1} \union {n} /\ {n, 1} # {}
      OBVIOUS
    <3>3. {n, 1} \subseteq Int
      BY Sizes
    <3>4. IsFiniteSet({1} \union {n})
      BY <3>1, FS_AddElement
    <3>5. QED
      BY <3>2, <3>3, <3>4
  <2>2. k \in {n, 1} /\ k <= n /\ k <= 1
    BY <2>1, Least
  <2>3. n \in Nat
    BY Sizes
  <2> HIDE DEF k
  <2>4. QED
    BY <2>2, <2>3
<1> HIDE DEF k
<1>3. /\ n \in Nat /\ n <= MaxShades - 2 /\ n \in 0 .. MaxShades /\ k \in 0 .. MaxGroups /\ k \in 0 .. MaxRooms
      /\ n + 1 \in Addresses
      /\ \A i \in 1 .. n : i \in 1 .. MaxShades /\ i \in 1 .. MaxShades - 2 /\ i # Nobody /\ i \in Addresses
      /\ \A i \in 1 .. k : i \in 1 .. MaxGroups - 2 /\ i \in 1 .. MaxGroups /\ i # Nobody
                           /\ i \in Rooms /\ i \in 1 .. MaxRooms /\ i # NoRoom
  BY <1>2, Sizes DEF Nobody, Rooms, NoRoom
<1>4. \A i \in 1 .. n : LET x == [NoShade EXCEPT !.id = i, !.address = i]
                        IN  x \in ShadeRecs /\ x.id = i /\ x.address = i /\ x.room = NoRoom
  BY <1>3, Ids DEF NoShade, ShadeRecs
<1>5. \A i \in 1 .. k : LET x == [NoGroup EXCEPT !.id = i, !.address = n + 1]
                        IN  /\ x \in GroupRecs /\ x.id = i /\ x.address = n + 1 /\ x.room = NoRoom
                            /\ x.linked = NoLinks
  <2>1. NoLinks \in Links
    BY Sizes DEF NoLinks, Links
  <2>2. QED
    BY <1>3, <2>1, Ids DEF NoGroup, GroupRecs
<1>6. /\ shades \in [1 .. MaxShades -> ShadeRecs] /\ DOMAIN shades = 1 .. MaxShades /\ Used(shades) = 1 .. n
      /\ \A i \in 1 .. n : shades[i].id = i /\ shades[i].address = i /\ shades[i].room = NoRoom
  <2>1. shades = [i \in 1 .. MaxShades |->
             IF i <= n THEN [NoShade EXCEPT !.id = i, !.address = i] ELSE NoShade]
    BY <1>1
  <2>2. \A i \in 1 .. MaxShades : i <= n <=> i \in 1 .. n
    BY <1>3
  <2>3. shades \in [1 .. MaxShades -> ShadeRecs] /\ DOMAIN shades = 1 .. MaxShades
    BY <1>4, <2>1, <2>2, Empty
  <2>4. \A i \in 1 .. n : shades[i].id = i /\ shades[i].address = i /\ shades[i].room = NoRoom
    BY <1>3, <1>4, <2>1, <2>2
  <2>5. \A i \in 1 .. MaxShades : i \in 1 .. n \/ shades[i].id = Nobody
    BY <2>1, <2>2, Empty
  <2>6. QED
    BY <1>3, <2>3, <2>4, <2>5 DEF Used
<1>7. /\ groups \in [1 .. MaxGroups -> GroupRecs] /\ DOMAIN groups = 1 .. MaxGroups /\ Used(groups) = 1 .. k
      /\ \A i \in 1 .. k : groups[i].id = i /\ groups[i].address = n + 1 /\ groups[i].room = NoRoom
      /\ \A i \in 1 .. MaxGroups : groups[i].linked = NoLinks
  <2>1. groups = [i \in 1 .. MaxGroups |->
             IF i <= k THEN [NoGroup EXCEPT !.id = i, !.address = n + 1] ELSE NoGroup]
    BY <1>1 DEF k
  <2>2. \A i \in 1 .. MaxGroups : i <= k <=> i \in 1 .. k
    BY <1>2
  <2>3. groups \in [1 .. MaxGroups -> GroupRecs] /\ DOMAIN groups = 1 .. MaxGroups
    BY <1>5, <2>1, <2>2, Empty
  <2>4. \A i \in 1 .. k : groups[i].id = i /\ groups[i].address = n + 1 /\ groups[i].room = NoRoom
    BY <1>3, <1>5, <2>1, <2>2
  <2>5. \A i \in 1 .. MaxGroups : i \in 1 .. k \/ groups[i].id = Nobody
    BY <2>1, <2>2, Empty
  <2>6. \A i \in 1 .. MaxGroups : groups[i].linked = NoLinks
    BY <1>5, <2>1, <2>2, Empty
  <2>7. QED
    BY <1>3, <2>3, <2>4, <2>5, <2>6 DEF Used
<1>8. rooms \in [1 .. MaxRooms -> Rooms] /\ UsedRooms(rooms) = 1 .. k
  <2>1. rooms = [i \in 1 .. MaxRooms |-> IF i <= k THEN i ELSE NoRoom]
    BY <1>1 DEF k
  <2>2. \A i \in 1 .. MaxRooms : i <= k <=> i \in 1 .. k
    BY <1>2
  <2>3. rooms \in [1 .. MaxRooms -> Rooms] /\ DOMAIN rooms = 1 .. MaxRooms
    BY <1>3, <2>1, <2>2, Ids
  <2>4. \A i \in 1 .. MaxRooms : rooms[i] # NoRoom <=> i \in 1 .. k
    BY <1>3, <2>1, <2>2
  <2>5. QED
    BY <1>3, <2>3, <2>4 DEF UsedRooms
<1>9. /\ file.shades = SubSeq(shades, 1, n) /\ file.groups = SubSeq(groups, 1, k)
      /\ file.rooms = SubSeq(rooms, 1, k)
  BY <1>1 DEF k
<1>10. /\ file.shades \in Seq(ShadeRecs) /\ Len(file.shades) = n /\ DOMAIN file.shades = 1 .. n
       /\ \A i \in 1 .. n : file.shades[i] = shades[i]
  <2>1. MaxShades \in Nat /\ shades \in [1 .. MaxShades -> ShadeRecs] /\ n \in 0 .. MaxShades
    BY <1>3, <1>6, Sizes
  <2>2. QED
    BY <1>9, <2>1, FirstSlots
<1>11. /\ file.groups \in Seq(GroupRecs) /\ Len(file.groups) = k /\ DOMAIN file.groups = 1 .. k
       /\ \A i \in 1 .. k : file.groups[i] = groups[i]
  <2>1. MaxGroups \in Nat /\ groups \in [1 .. MaxGroups -> GroupRecs] /\ k \in 0 .. MaxGroups
    BY <1>3, <1>7, Sizes
  <2>2. QED
    BY <1>9, <2>1, FirstSlots
<1>12. /\ file.rooms \in Seq(Rooms) /\ Len(file.rooms) = k /\ DOMAIN file.rooms = 1 .. k
       /\ \A i \in 1 .. k : file.rooms[i] = rooms[i]
  <2>1. MaxRooms \in Nat /\ rooms \in [1 .. MaxRooms -> Rooms] /\ k \in 0 .. MaxRooms
    BY <1>3, <1>8, Sizes
  <2>2. QED
    BY <1>9, <2>1, FirstSlots
<1>13. /\ Used(file.shades) = 1 .. n /\ Used(file.groups) = 1 .. k /\ UsedRooms(file.rooms) = 1 .. k
       /\ Alike(file.shades, shades) /\ AlikeGroups(file.groups, groups)
       /\ Alike(shades, file.shades) /\ AlikeGroups(groups, file.groups)
  <2>1. Used(file.shades) = 1 .. n
    BY <1>3, <1>6, <1>10 DEF Used
  <2>2. Used(file.groups) = 1 .. k
    BY <1>3, <1>7, <1>11 DEF Used
  <2>3. UsedRooms(file.rooms) = 1 .. k
    BY <1>8, <1>12 DEF UsedRooms
  <2>4. QED
    BY <1>6, <1>7, <1>10, <1>11, <2>1, <2>2, <2>3 DEF Alike, AlikeGroups
<1>14. Sound(shades, groups) /\ Housed(shades, groups, rooms)
  <2>1. OwnIds(shades)
    BY <1>3, <1>6 DEF OwnIds
  <2>2. OwnIds(groups)
    BY <1>3, <1>7 DEF OwnIds
  <2>3. \A j \in 1 .. MaxLinked : NoLinks[j] = 0
    BY DEF NoLinks
  <2>4. Linked(shades, groups)
    BY <1>3, <1>7, <2>3 DEF Linked
  <2>5. Housed(shades, groups, rooms)
    BY <1>6, <1>7 DEF Housed, InRoom
  <2>6. QED
    BY <2>1, <2>2, <2>4, <2>5 DEF Sound
<1>15. Sound(file.shades, file.groups) /\ Housed(file.shades, file.groups, file.rooms)
  <2>1. Sound(file.shades, file.groups)
    BY <1>13, <1>14, SoundAlike
  <2>2. Housed(file.shades, file.groups, file.rooms)
    BY <1>6, <1>7, <1>10, <1>11, <1>13 DEF Housed, InRoom
  <2>3. QED
    BY <2>1, <2>2
<1>16. FileSound(file)
  BY <1>3, <1>10, <1>11, <1>12, <1>13, <1>15, Sizes DEF FileSound
<1>17. KnownAs(file, Image(shades, groups, rooms))
  BY <1>6, <1>7, <1>8, <1>12, <1>13, <1>16, SavedAgain
<1>18. SlotsSound
  BY <1>6, <1>7, <1>8, <1>14 DEF SlotsSound, Typed, Unlinked
<1>19. FilesSound /\ AllHoused
  BY <1>1, <1>14, <1>15, <1>16, NoFileSound DEF FilesSound, AllHoused
<1>20. Codes /\ Rest /\ SurvivesRestart
  <2>1. Codes
    <3>1. nvs = [a \in Addresses |-> 0] /\ sent = [a \in Addresses |-> 0]
      BY <1>1
    <3>2. QED
      BY <3>1 DEF Codes
  <2>2. Rest
    BY <1>1 DEF Rest
  <2>3. QED
    BY <1>17, <2>1, <2>2, Survives
<1>21. QED
  BY <1>18, <1>19, <1>20 DEF IInv

-----------------------------------------------------------------------------
LEMMA Invariant == Spec => []IInv
BY InitInv, Inductive, PTL DEF Spec

LEMMA SoundFromInv == IInv => RegistrySound
<1> SUFFICES ASSUME IInv PROVE RegistrySound
  OBVIOUS
<1>1. /\ Typed /\ OwnIds(shades) /\ OwnIds(groups) /\ Linked(shades, groups) /\ Unlinked
      /\ proposed \subseteq Addresses
  BY DEF IInv, SlotsSound, Sound, Rest
<1>2. TypeOK
  <2>1. ASSUME NEW i \in DOMAIN shades
        PROVE  /\ shades[i].id \in (1 .. MaxShades - 2) \union {Nobody}
               /\ shades[i].address \in Addresses \union {0} /\ shades[i].room \in Rooms
    BY <1>1 DEF Typed, ShadeRecs
  <2>2. ASSUME NEW i \in DOMAIN groups
        PROVE  groups[i].id \in (1 .. MaxGroups - 2) \union {Nobody}
    BY <1>1 DEF Typed, GroupRecs
  <2>3. ASSUME NEW i \in DOMAIN groups, NEW j \in 2 .. MaxLinked, groups[i].linked[j] # 0
        PROVE  groups[i].linked[j - 1] # 0
    <3>1. j \in 1 .. MaxLinked /\ j - 1 \in 1 .. MaxLinked /\ j - 1 <= j
      BY Sizes
    <3>2. i \in 1 .. MaxGroups
      BY <1>1 DEF Typed
    <3>3. i \in Used(groups)
      BY <1>1, <2>3, <3>1, <3>2 DEF Unlinked, NoLinks, Used
    <3>4. QED
      BY <1>1, <2>3, <3>1, <3>3 DEF Linked
  <2>4. \A i \in DOMAIN rooms : rooms[i] \in Rooms
    BY <1>1 DEF Typed
  <2>5. QED
    BY <1>1, <2>1, <2>2, <2>3, <2>4 DEF TypeOK
<1>3. IdsDistinct
  BY <1>1 DEF OwnIds, IdsDistinct
<1>4. MembersExist
  BY <1>1 DEF Linked, There, MembersExist, IdsOf
<1>5. RoomsExist
  <2>1. \A x : InRoom(x, rooms) => x.room \in RoomIds \union {NoRoom}
    BY DEF InRoom, RoomIds
  <2>2. QED
    BY <2>1 DEF IInv, AllHoused, Housed, RoomsExist
<1>6. QED
  BY <1>2, <1>3, <1>4, <1>5 DEF RegistrySound

(* The slots stay sound, through every change, restart and file: no two    *)
(* shades and no two groups of one id (getNextShadeId(), getNextGroupId()),*)
(* groups of shades that are there (linkShade(), deleteShade()), rooms     *)
(* that are there (deleteRoom()), for any numbers of slots.                *)
THEOREM RegistryCorrect == Spec => []RegistrySound
BY Invariant, SoundFromInv, PTL

(* The file always has the registry as it is: a restart at any moment      *)
(* loses no shade, group, room or link (commit(), ShadeConfigFile::save()).*)
THEOREM RestartCorrect == Spec => []SurvivesRestart
<1>1. IInv => SurvivesRestart
  BY DEF IInv
<1>2. QED
  BY <1>1, Invariant, PTL

(* NVS never falls behind the air, from any address (ShadeCodes and        *)
(* readShadeRecord(), readGroupRecord(), which keep the largest code).     *)
THEOREM CodesCorrect == Spec => CodesRise
<1>1. IInv /\ [Next]_vars => [\A a \in Addresses : sent'[a] >= sent[a] /\ nvs'[a] >= sent'[a]]_vars
  BY Inductive DEF Rising
<1>2. QED
  BY <1>1, Invariant, PTL DEF CodesRise, Spec

=============================================================================
