----------------------------- MODULE NetworkProofs -----------------------------
(***************************************************************************)
(* Network proved for any access points, brokers, time-outs and bounds: the *)
(* event queue stays short, nobody who uses the soft AP is thrown off it,  *)
(* and a session never has other settings than the saved ones for long.    *)
(***************************************************************************)
EXTENDS Network, FiniteSetTheorems, TLAPS

-----------------------------------------------------------------------------
(* How often an event is in a sequence.                                    *)

Places(s, e) == {i \in 1 .. Len(s) : s[i] = e}
Many(s, e) == Cardinality(Places(s, e))

LEMMA PlacesFinite ==
  ASSUME NEW E, NEW s \in Seq(E), NEW e
  PROVE  IsFiniteSet(Places(s, e)) /\ Many(s, e) \in Nat
<1>1. Len(s) \in Nat
  OBVIOUS
<1>2. IsFiniteSet(1 .. Len(s)) /\ Places(s, e) \in SUBSET (1 .. Len(s))
  BY <1>1, FS_Interval DEF Places
<1>3. IsFiniteSet(Places(s, e))
  BY <1>2, FS_Subset
<1>4. QED
  BY <1>3, FS_CardinalityType DEF Many

LEMMA ManyEmpty == \A e : Many(<<>>, e) = 0
BY FS_EmptySet DEF Many, Places

LEMMA ManyAppend ==
  ASSUME NEW E, NEW s \in Seq(E), NEW x \in E, NEW e
  PROVE  Many(Append(s, x), e) = IF x = e THEN Many(s, e) + 1 ELSE Many(s, e)
<1> DEFINE t == Append(s, x)
<1>1. Len(s) \in Nat /\ Len(t) = Len(s) + 1 /\ t[Len(s) + 1] = x /\ \A i \in 1 .. Len(s) : t[i] = s[i]
  OBVIOUS
<1> HIDE DEF t
<1>2. CASE x = e
  <2>1. Places(t, e) = Places(s, e) \union {Len(s) + 1} /\ Len(s) + 1 \notin Places(s, e)
    BY <1>1, <1>2 DEF Places
  <2>2. Cardinality(Places(t, e)) = Cardinality(Places(s, e)) + 1
    BY <2>1, PlacesFinite, FS_AddElement
  <2>3. QED
    BY <1>2, <2>2 DEF Many, t
<1>3. CASE x # e
  <2>1. Places(t, e) = Places(s, e)
    BY <1>1, <1>3 DEF Places
  <2>2. QED
    BY <1>3, <2>1 DEF Many, t
<1>4. QED
  BY <1>2, <1>3

LEMMA ManyTail ==
  ASSUME NEW E, NEW s \in Seq(E), s # <<>>, NEW e
  PROVE  Many(Tail(s), e) = IF Head(s) = e THEN Many(s, e) - 1 ELSE Many(s, e)
<1> DEFINE t == Tail(s)
           rest == Places(s, e) \ {1}
           f == [i \in rest |-> i - 1]
<1>1. /\ Len(s) \in Nat /\ Len(s) > 0 /\ Len(t) = Len(s) - 1 /\ Head(s) = s[1]
      /\ \A i \in 1 .. Len(t) : t[i] = s[i + 1]
  OBVIOUS
<1> HIDE DEF t
<1>2. rest \subseteq 2 .. Len(s) /\ \A i \in 2 .. Len(s) : i \in rest <=> s[i] = e
  BY <1>1 DEF Places
<1>3. f \in Bijection(rest, Places(t, e))
  <2>1. \A i \in rest : i - 1 \in Places(t, e)
    BY <1>1, <1>2 DEF Places
  <2>2. \A j \in Places(t, e) : j + 1 \in rest /\ f[j + 1] = j
    BY <1>1, <1>2 DEF Places
  <2>3. \A i, j \in rest : f[i] = f[j] => i = j
    BY <1>1, <1>2
  <2>4. f \in [rest -> Places(t, e)]
    BY <2>1
  <2>5. \A j \in Places(t, e) : \E i \in rest : f[i] = j
    BY <2>2
  <2> HIDE DEF rest, f
  <2>6. QED
    BY <2>3, <2>4, <2>5 DEF Bijection, Injection, IsInjective, Surjection
<1>4. IsFiniteSet(Places(s, e)) /\ Many(s, e) \in Nat
  BY PlacesFinite
<1>5. /\ IsFiniteSet(rest)
      /\ Cardinality(rest) = IF 1 \in Places(s, e) THEN Many(s, e) - 1 ELSE Many(s, e)
  BY <1>4, FS_RemoveElement DEF Many
<1>6. Cardinality(Places(t, e)) = Cardinality(rest)
  BY <1>3, <1>5, FS_Bijection DEF ExistsBijection
<1>7. 1 \in Places(s, e) <=> Head(s) = e
  BY <1>1 DEF Places
<1>8. QED
  BY <1>5, <1>6, <1>7 DEF Many, t

\* A sequence of few events is short.
LEMMA FewEvents ==
  ASSUME NEW s \in Seq({"drop", "ip", "apstart", "apstop"})
  PROVE  Len(s) <= Many(s, "drop") + Many(s, "ip") + Many(s, "apstart") + Many(s, "apstop")
<1> DEFINE P(e) == Places(s, e)
           one == P("drop") \union P("ip")
           two == one \union P("apstart")
           three == two \union P("apstop")
<1>1. Len(s) \in Nat /\ \A i \in 1 .. Len(s) : s[i] \in {"drop", "ip", "apstart", "apstop"}
  OBVIOUS
<1>2. 1 .. Len(s) = three
  BY <1>1 DEF Places
<1>3. \A e : IsFiniteSet(P(e)) /\ Cardinality(P(e)) = Many(s, e) /\ Many(s, e) \in Nat
  BY PlacesFinite DEF Many
<1> HIDE DEF P
<1>4. IsFiniteSet(one) /\ Cardinality(one) \in Nat /\ Cardinality(one) <= Many(s, "drop") + Many(s, "ip")
  <2>1. IsFiniteSet(one) /\ IsFiniteSet(P("drop") \intersect P("ip"))
    BY <1>3, FS_Union, FS_Intersection
  <2>2. Cardinality(P("drop") \intersect P("ip")) \in Nat /\ Cardinality(one) \in Nat
    BY <2>1, FS_CardinalityType
  <2>3. Cardinality(one) = Many(s, "drop") + Many(s, "ip") - Cardinality(P("drop") \intersect P("ip"))
    BY <1>3, FS_Union
  <2>4. QED
    BY <1>3, <2>1, <2>2, <2>3
<1> HIDE DEF one
<1>5. /\ IsFiniteSet(two) /\ Cardinality(two) \in Nat
      /\ Cardinality(two) <= Cardinality(one) + Many(s, "apstart")
  <2>1. IsFiniteSet(two) /\ IsFiniteSet(one \intersect P("apstart"))
    BY <1>3, <1>4, FS_Union, FS_Intersection
  <2>2. Cardinality(one \intersect P("apstart")) \in Nat /\ Cardinality(two) \in Nat
    BY <2>1, FS_CardinalityType
  <2>3. Cardinality(two) = Cardinality(one) + Many(s, "apstart") - Cardinality(one \intersect P("apstart"))
    BY <1>3, <1>4, FS_Union
  <2>4. QED
    BY <1>3, <1>4, <2>1, <2>2, <2>3
<1> HIDE DEF two
<1>6. Cardinality(three) \in Nat /\ Cardinality(three) <= Cardinality(two) + Many(s, "apstop")
  <2>1. IsFiniteSet(three) /\ IsFiniteSet(two \intersect P("apstop"))
    BY <1>3, <1>5, FS_Union, FS_Intersection
  <2>2. Cardinality(two \intersect P("apstop")) \in Nat /\ Cardinality(three) \in Nat
    BY <2>1, FS_CardinalityType
  <2>3. Cardinality(three) = Cardinality(two) + Many(s, "apstop") - Cardinality(two \intersect P("apstop"))
    BY <1>3, <1>5, FS_Union
  <2>4. QED
    BY <1>3, <1>5, <2>1, <2>2, <2>3
<1>7. Cardinality(three) = Len(s)
  <2>1. Cardinality(1 .. Len(s)) = IF 1 > Len(s) THEN 0 ELSE Len(s) - 1 + 1
    BY <1>1, FS_Interval
  <2>2. Cardinality(1 .. Len(s)) = Len(s)
    BY <1>1, <2>1
  <2> HIDE DEF three
  <2>3. QED
    BY <1>2, <2>2
<1> HIDE DEF three
<1>8. QED
  BY <1>1, <1>3, <1>4, <1>5, <1>6, <1>7

-----------------------------------------------------------------------------
(* The session.                                                            *)

\* What MqttTypeOK says of everything but the world.
SessionInv ==
  /\ MqttTypeOK /\ SettingsTakeEffect /\ QuietWhileFlashing
  /\ Connecting =>
       /\ session = None /\ (target \in TlsBrokers <=> tlsClient)
       /\ target # settings => reconnectPending

LEMMA SessionBounds == TlsBrokers \subseteq Brokers /\ Disabled \notin Brokers /\ MaxDelay \in Nat /\ MaxDelay > 0
BY MqttAssumption DEF MqttAssumption

LEMMA SessionInit == ASSUME MqttInit PROVE SessionInv
<1>1. MqttTypeOK
  <2>1. wait \in 0 .. MaxDelay /\ retryDelay \in 1 .. MaxDelay
    BY SessionBounds DEF MqttInit
  <2>2. settings \in Brokers \union {Disabled}
    BY SessionBounds DEF MqttInit
  <2>3. QED
    BY <2>1, <2>2 DEF MqttInit, MqttTypeOK
<1>2. QED
  BY <1>1 DEF MqttInit, SessionInv, SettingsTakeEffect, QuietWhileFlashing, Connecting

LEMMA SessionLoop ==
  ASSUME SessionInv, ~Connecting, NEW online \in BOOLEAN, MqttLoop(online)
  PROVE  SessionInv'
<1>1. CASE settings # Disabled /\ ~suspended /\ session' = None /\ online
           /\ (reconnectPending \/ wait = 0) /\ allIdle
  <2> DEFINE delay == IF reconnectPending THEN 1 ELSE retryDelay
  <2>1. Attempt(delay) /\ reconnectPending' = FALSE /\ UNCHANGED <<settings, suspended, world>>
    BY <1>1 DEF MqttLoop
  <2>2. delay \in 1 .. MaxDelay /\ delay \in 0 .. MaxDelay
    BY SessionBounds DEF SessionInv, MqttTypeOK
  <2> HIDE DEF delay
  <2>3. target' \in Brokers \union {None} /\ tlsClient' \in BOOLEAN
    BY <1>1, <2>1 DEF Attempt, SessionInv, MqttTypeOK
  <2>4. MqttTypeOK'
    BY <1>1, <2>1, <2>2, <2>3 DEF Attempt, SessionInv, MqttTypeOK, world
  <2>5. Connecting' => target' = settings /\ (target' \in TlsBrokers <=> tlsClient')
    BY <2>1 DEF Attempt, Connecting
  <2>6. QED
    BY <1>1, <2>1, <2>4, <2>5 DEF SessionInv, SettingsTakeEffect, QuietWhileFlashing, Connecting
<1>2. CASE ~(settings # Disabled /\ ~suspended /\ session' = None /\ online
             /\ (reconnectPending \/ wait = 0) /\ allIdle)
  <2>1. /\ UNCHANGED <<settings, suspended, world, target>> /\ reconnectPending' = FALSE
        /\ session' = (IF reconnectPending THEN None ELSE session)
        /\ wait' = (IF reconnectPending THEN 0 ELSE wait)
        /\ retryDelay' = (IF reconnectPending THEN 1 ELSE retryDelay)
        /\ tlsClient' = (IF reconnectPending THEN FALSE ELSE tlsClient)
    BY <1>2 DEF MqttLoop
  <2>2. wait' \in 0 .. MaxDelay /\ retryDelay' \in 1 .. MaxDelay /\ tlsClient' \in BOOLEAN
    <3>1. wait' \in 0 .. MaxDelay
      BY <2>1, SessionBounds DEF SessionInv, MqttTypeOK
    <3>2. retryDelay' \in 1 .. MaxDelay
      BY <2>1, SessionBounds DEF SessionInv, MqttTypeOK
    <3>3. tlsClient' \in BOOLEAN
      BY <2>1 DEF SessionInv, MqttTypeOK
    <3>4. QED
      BY <3>1, <3>2, <3>3
  <2>3. MqttTypeOK'
    BY <2>1, <2>2 DEF SessionInv, MqttTypeOK, world
  <2>4. QED
    BY <2>1, <2>3 DEF SessionInv, SettingsTakeEffect, QuietWhileFlashing, Connecting
<1>3. QED
  BY <1>1, <1>2

LEMMA SessionHandshake ==
  ASSUME SessionInv, NEW ok \in BOOLEAN, Handshake(ok) PROVE SessionInv'
<1>1. Backoff(retryDelay) \in 1 .. MaxDelay
  BY SessionBounds DEF Backoff, SessionInv, MqttTypeOK
<1>2. retryDelay' \in 1 .. MaxDelay
  BY <1>1, SessionBounds DEF Handshake
<1>3. /\ target' = None /\ UNCHANGED <<settings, suspended, reconnectPending, wait, brokersUp, tlsReady, allIdle>>
      /\ \/ session' = None /\ tlsClient' = FALSE
         \/ ~suspended /\ session' \in {target, settings} \ {Disabled} /\ UNCHANGED tlsClient
  BY DEF Handshake, flags, world
<1>4. MqttTypeOK'
  BY <1>2, <1>3 DEF SessionInv, MqttTypeOK
<1>5. Connecting /\ session = None /\ (target \in TlsBrokers <=> tlsClient)
      /\ (target # settings => reconnectPending) /\ tlsClient \in BOOLEAN
  BY DEF Handshake, SessionInv, MqttTypeOK
<1>6. SettingsTakeEffect'
  BY <1>3, <1>5 DEF SettingsTakeEffect
<1>7. QED
  BY <1>3, <1>4, <1>6 DEF SessionInv, QuietWhileFlashing, Connecting

LEMMA SessionHandlers ==
  ASSUME SessionInv,
         (\E s \in Brokers \union {Disabled} : SaveSettings(s)) \/ Suspend \/ Resume
  PROVE  SessionInv' /\ UNCHANGED target
<1>1. ASSUME NEW s \in Brokers \union {Disabled}, SaveSettings(s) PROVE SessionInv' /\ UNCHANGED target
  BY <1>1 DEF SaveSettings, SessionInv, MqttTypeOK, SettingsTakeEffect, QuietWhileFlashing, Connecting, world
<1>2. CASE Suspend
  BY <1>2 DEF Suspend, Disconnect, SessionInv, MqttTypeOK, SettingsTakeEffect, QuietWhileFlashing,
              Connecting, world
<1>3. CASE Resume
  BY <1>3 DEF Resume, SessionInv, MqttTypeOK, SettingsTakeEffect, QuietWhileFlashing, Connecting, world
<1>4. QED
  BY <1>1, <1>2, <1>3

LEMMA SessionWorld ==
  ASSUME SessionInv, (\E b \in Brokers : BrokerChanges(b)) \/ TlsChanges \/ ShadesMove
  PROVE  SessionInv' /\ UNCHANGED target
<1>1. ASSUME NEW b \in Brokers, BrokerChanges(b) PROVE SessionInv' /\ UNCHANGED target
  <2>1. brokersUp' \subseteq Brokers
    BY <1>1 DEF BrokerChanges, SessionInv, MqttTypeOK
  <2>2. QED
    BY <1>1, <2>1 DEF BrokerChanges, SessionInv, MqttTypeOK, SettingsTakeEffect, QuietWhileFlashing,
                      Connecting, flags
<1>2. CASE TlsChanges
  BY <1>2 DEF TlsChanges, SessionInv, MqttTypeOK, SettingsTakeEffect, QuietWhileFlashing, Connecting, flags
<1>3. CASE ShadesMove
  BY <1>3 DEF ShadesMove, SessionInv, MqttTypeOK, SettingsTakeEffect, QuietWhileFlashing, Connecting, flags
<1>4. QED
  BY <1>1, <1>2, <1>3

LEMMA SessionTick == ASSUME SessionInv, MqttTick PROVE SessionInv' /\ UNCHANGED target
<1>1. wait' \in 0 .. MaxDelay
  BY SessionBounds DEF MqttTick, SessionInv, MqttTypeOK
<1>2. QED
  BY <1>1 DEF MqttTick, SessionInv, MqttTypeOK, SettingsTakeEffect, QuietWhileFlashing, Connecting, flags, world

-----------------------------------------------------------------------------
(* The events on their way.                                                *)

Events == {"drop", "ip", "apstart", "apstop"}

\* The loop will find this often that the link has come up.
Due == (IF pending THEN 1 ELSE 0) + (IF pc = "connected" THEN 1 ELSE 0)

\* Addresses that are on their way or come to be dealt with, and what dealing
\* with them has put on its way.
Ups == Many(events, "ip") + Many(events, "apstop") + Due

\* At most one drop, one address and one start of the soft AP are on their way,
\* and never a stop of a soft AP that somebody uses.
EventInv ==
  /\ events \in Seq(Events) /\ Ups <= 3
  /\ Many(events, "drop") <= 1 /\ Many(events, "ip") <= 1 /\ Many(events, "apstart") <= 1
  /\ Many(events, "drop") > 0 =>
       /\ Ups <= 2 /\ link.phase # "joined"
       /\ link = Idle \/ StillConnecting \/ connType = "wifi"
  /\ Many(events, "apstart") > 0 => Ups <= 2 /\ down < Timeout
  /\ Many(events, "apstop") > 0 =>
       /\ connType = "wifi" \/ link.phase # "joined"
       /\ softAP # "open" => Ups <= 2
  /\ guest => Many(events, "apstop") = 0

\* The types of the rest.
TypeInv ==
  /\ hidden \in BOOLEAN /\ roaming \in BOOLEAN /\ guest \in BOOLEAN /\ status \in BOOLEAN
  /\ air \in [APs -> {"up", "refuses", "mute", "off"}]
  /\ link \in {Idle} \union [phase : {"joining", "joined"}, ap : APs \union {NoAP}]
  /\ connType \in {"unset", "wifi"} /\ softAP \in {"closed", "opening", "open"}
  /\ started \in 0 .. Timeout /\ down \in 0 .. Timeout
  /\ pc \in {"begin", "connected", "connect", "scan", "mqtt", "handshake"}

LEMMA NetworkBounds == NoAP \notin APs /\ Timeout \in Nat /\ Timeout > 0 /\ 0 \in 0 .. Timeout
BY NetworkAssumption DEF NetworkAssumption

LEMMA EventCounts ==
  ASSUME EventInv
  PROVE  /\ \A e : Many(events, e) \in Nat
         /\ Due \in 0 .. 2 /\ Due' \in 0 .. 2 /\ (pc # "connected" => Due <= 1)
         /\ ~pending /\ pc # "connected" => Due = 0
BY PlacesFinite DEF EventInv, Due

LEMMA NoEvents == ASSUME events = <<>> PROVE \A e : Many(events, e) = 0
BY ManyEmpty

LEMMA OneMore ==
  ASSUME EventInv, NEW x \in Events, events' = Append(events, x)
  PROVE  /\ events' \in Seq(Events)
         /\ \A e : Many(events', e) = IF x = e THEN Many(events, e) + 1 ELSE Many(events, e)
<1>1. events \in Seq(Events)
  BY DEF EventInv
<1>2. QED
  BY <1>1, ManyAppend

LEMMA OneLess ==
  ASSUME EventInv, events # <<>>, events' = Tail(events)
  PROVE  /\ events' \in Seq(Events) /\ Head(events) \in Events
         /\ \A e : Many(events', e) = IF Head(events) = e THEN Many(events, e) - 1 ELSE Many(events, e)
<1>1. events \in Seq(Events)
  BY DEF EventInv
<1>2. QED
  BY <1>1, ManyTail

\* Nothing is on its way.
LEMMA AllRead == ASSUME EventInv, events' = <<>> PROVE EventInv'
<1>1. \A e : Many(events', e) = 0
  BY ManyEmpty
<1>2. Due' \in 0 .. 2
  BY EventCounts
<1>3. Ups' = Due'
  BY <1>1, <1>2 DEF Ups
<1>4. QED
  BY <1>1, <1>2, <1>3 DEF EventInv

\* One thing is on its way, which had been read before.
LEMMA FirstOne ==
  ASSUME EventInv, events = <<>>, NEW x \in {"drop", "ip"}, events' = <<x>>,
         x = "drop" => link' = Idle \/ (link'.phase = "joining" /\ StillConnecting')
  PROVE  EventInv'
<1>1. events' = Append(events, x) /\ x \in Events
  BY DEF Events
<1>2. /\ events' \in Seq(Events)
      /\ \A e : Many(events', e) = IF x = e THEN 1 ELSE 0
  BY <1>1, OneMore, NoEvents
<1>3. PICK due \in 0 .. 2 : due = Due'
  BY EventCounts
<1>4. Ups' = Many(events', "ip") + Many(events', "apstop") + due
  BY <1>3 DEF Ups
<1>5. CASE x = "ip"
  <2>1. /\ events' \in Seq(Events) /\ Many(events', "drop") = 0 /\ Many(events', "apstart") = 0
        /\ Many(events', "apstop") = 0 /\ Many(events', "ip") = 1
    BY <1>2, <1>5
  <2>2. Ups' = 1 + due
    BY <2>1, <1>3, <1>4
  <2>3. Ups' <= 3
    <3>1. 1 + due <= 3
      OBVIOUS
    <3>2. QED
      BY <2>2, <3>1
  <2>4. QED
    BY <2>1, <2>3 DEF EventInv
<1>6. CASE x = "drop"
  <2>1. /\ events' \in Seq(Events) /\ Many(events', "drop") = 1 /\ Many(events', "apstart") = 0
        /\ Many(events', "apstop") = 0 /\ Many(events', "ip") = 0
    BY <1>2, <1>6
  <2>2. link'.phase # "joined" /\ (link' = Idle \/ StillConnecting')
    BY <1>6 DEF Idle
  <2>3. Ups' = due
    BY <2>1, <1>3, <1>4
  <2>4. Ups' <= 2 /\ Ups' <= 3
    <3>1. due <= 2 /\ due <= 3
      OBVIOUS
    <3>2. QED
      BY <2>3, <3>1
  <2>5. Many(events', "drop") > 0 =>
          /\ Ups' <= 2 /\ link'.phase # "joined"
          /\ link' = Idle \/ StillConnecting' \/ connType' = "wifi"
    BY <2>2, <2>4
  <2>6. Many(events', "drop") <= 1 /\ Many(events', "apstart") <= 1 /\ Many(events', "ip") <= 1
    BY <2>1
  <2>7. ~(Many(events', "apstart") > 0) /\ ~(Many(events', "apstop") > 0)
    BY <2>1
  <2>8. QED
    BY <2>1, <2>4, <2>5, <2>6, <2>7 DEF EventInv
<1>7. QED
  BY <1>5, <1>6

\* Events, their causes and the loop's place among them are as they were.
LEMMA EventsSame ==
  ASSUME EventInv, UNCHANGED <<events, link, connecting, started, connType, down, softAP>>,
         Due' <= Due, guest' => Many(events, "apstop") = 0
  PROVE  EventInv'
<1>1. Due \in 0 .. 2 /\ Due' \in 0 .. 2 /\ \A e : Many(events, e) \in Nat
  BY EventCounts
<1>2. Ups' <= Ups /\ Ups \in Nat /\ Ups' \in Nat
  BY <1>1 DEF Ups
<1>3. UNCHANGED StillConnecting
  BY DEF StillConnecting
<1>4. QED
  BY <1>2, <1>3 DEF EventInv

\* The station leaves, or begins to join another access point.
LEMMA StationEvents ==
  ASSUME TypeInv, EventInv, pc # "connected", pc' # "connected", UNCHANGED <<pending, guest, softAP, down>>,
         NEW a, \/ Leave /\ (guest \/ events = <<>>)
                \/ Begin(a) /\ connecting' = TRUE /\ started' = 0,
         Many(events, "drop") > 0 => link = Idle,
         Many(events, "apstop") > 0 => link.phase # "joined"
  PROVE  EventInv'
<1>1. Due' = Due /\ Due \in 0 .. 1 /\ \A e : Many(events, e) \in Nat
  BY EventCounts DEF Due
<1>2. link' = Idle \/ (link'.phase = "joining" /\ StillConnecting')
  BY NetworkBounds DEF Leave, Begin, StillConnecting
<1>3. link'.phase # "joined"
  BY <1>2 DEF Idle
<1>4. CASE UNCHANGED events
  <2>1. Ups' = Ups
    BY <1>1, <1>4 DEF Ups
  <2>2. QED
    BY <1>2, <1>3, <1>4, <2>1 DEF EventInv
<1>5. CASE events' = Append(events, "drop") /\ link # Idle
  <2>1. events' \in Seq(Events) /\ Many(events', "drop") = Many(events, "drop") + 1
        /\ Many(events', "ip") = Many(events, "ip") /\ Many(events', "apstart") = Many(events, "apstart")
        /\ Many(events', "apstop") = Many(events, "apstop")
    BY <1>5, OneMore DEF Events
  <2>2. Many(events, "drop") = 0
    BY <1>1, <1>5
  <2>3. Many(events, "apstop") = 0
    BY <1>1, <1>5, NoEvents DEF EventInv, Leave, Begin
  <2>4. Ups' = Ups /\ Ups <= 2
    BY <1>1, <2>1, <2>3 DEF Ups, EventInv
  <2>5. QED
    BY <1>2, <1>3, <2>1, <2>2, <2>3, <2>4 DEF EventInv
<1>6. UNCHANGED events \/ (events' = Append(events, "drop") /\ link # Idle)
  BY DEF Leave, Begin, Idle
<1>7. QED
  BY <1>4, <1>5, <1>6

LEMMA PendingEvents == ASSUME EventInv, TakePending PROVE EventInv'
<1>1. Due' <= Due
  BY DEF TakePending, Due
<1>2. QED
  BY <1>1, EventsSame DEF TakePending, wifi, EventInv

LEMMA ConnectedEvents == ASSUME TypeInv, EventInv, SetConnected PROVE EventInv'
<1>1. /\ pc = "connected" /\ pc' = "connect" /\ connType' = "wifi" /\ connecting' = FALSE
      /\ UNCHANGED <<link, pending, started, down, softAP, guest>>
      /\ \/ events' = Append(events, "apstop") /\ softAP = "open" /\ ~guest
         \/ UNCHANGED events
  BY DEF SetConnected
<1>2. Due \in 1 .. 2 /\ Due' = Due - 1 /\ \A e : Many(events, e) \in Nat
  BY <1>1, EventCounts DEF Due
<1>3. CASE UNCHANGED events
  <2>1. Ups' = Ups - 1 /\ Ups \in Nat
    BY <1>2, <1>3 DEF Ups
  <2>2. QED
    BY <1>1, <1>3, <2>1 DEF EventInv
<1>4. CASE events' = Append(events, "apstop") /\ softAP = "open" /\ ~guest
  <2>1. events' \in Seq(Events) /\ Many(events', "drop") = Many(events, "drop")
        /\ Many(events', "ip") = Many(events, "ip") /\ Many(events', "apstart") = Many(events, "apstart")
        /\ Many(events', "apstop") = Many(events, "apstop") + 1
    BY <1>4, OneMore DEF Events
  <2>2. Ups' = Ups /\ Ups \in Nat
    BY <1>2, <2>1 DEF Ups
  <2>3. QED
    BY <1>1, <1>4, <2>1, <2>2 DEF EventInv
<1>5. QED
  BY <1>1, <1>3, <1>4

LEMMA ConnectEvents == ASSUME TypeInv, EventInv, Connect PROVE EventInv'
<1> DEFINE overdue == ~Linked /\ down = Timeout
           seeks == hidden /\ connType # "wifi" /\ (overdue => softAP = "open")
           opens == overdue /\ softAP = "closed"
<1>1. pc = "connect" /\ pc' # "connected" /\ UNCHANGED <<pending, guest>>
  BY DEF Connect
<1>2. Due' = Due /\ Due \in 0 .. 1 /\ \A e : Many(events, e) \in Nat
  BY <1>1, EventCounts DEF Due
<1>3. CASE StillConnecting /\ UNCHANGED <<link, events, connType, connecting, started, down, softAP>>
  BY <1>1, <1>2, <1>3, EventsSame DEF EventInv
<1>4. CASE ~StillConnecting /\ opens /\ OpenSoftAP
  <2>1. /\ events' \in Seq(Events) /\ Many(events', "drop") = Many(events, "drop")
        /\ Many(events', "ip") = Many(events, "ip") /\ Many(events', "apstart") = Many(events, "apstart") + 1
        /\ Many(events', "apstop") = Many(events, "apstop")
    BY <1>4, OneMore DEF Events, OpenSoftAP
  <2>2. Ups' = Ups /\ Ups \in Nat /\ (Many(events, "apstop") = 0 => Ups <= 2)
    BY <1>2, <2>1 DEF Ups, EventInv
  <2>3. Ups <= 2
    BY <1>2, <1>4, <2>2 DEF EventInv
  <2>4. Many(events, "apstart") = 0
    BY <1>2, <1>4, NetworkBounds DEF EventInv
  <2>5. softAP' = "opening" /\ down' = 0 /\ connecting' = FALSE /\ UNCHANGED <<link, started, connType>>
    BY <1>4 DEF OpenSoftAP
  <2>6. Many(events', "drop") > 0 => link' = Idle \/ connType' = "wifi"
    BY <1>4, <2>1, <2>5 DEF EventInv
  <2>7. QED
    BY <1>1, <2>1, <2>2, <2>3, <2>4, <2>5, <2>6, NetworkBounds DEF EventInv
<1>5. ASSUME NEW a, ~StillConnecting, seeks, ConnectWiFi(a) PROVE EventInv'
  <2>1. Many(events, "drop") > 0 => link = Idle
    BY <1>5 DEF EventInv
  <2>2. Many(events, "apstop") > 0 => link.phase # "joined"
    BY <1>5 DEF EventInv
  <2>3. UNCHANGED <<softAP, down>>
    BY <1>5 DEF ConnectWiFi
  <2>4. \/ Leave /\ (guest \/ events = <<>>)
        \/ Begin(a) /\ connecting' = TRUE /\ started' = 0
    BY <1>5 DEF ConnectWiFi, GuestOnAP
  <2>5. QED
    BY <1>1, <2>1, <2>2, <2>3, <2>4, StationEvents
<1>6. CASE /\ ~StillConnecting /\ connecting' = FALSE
           /\ UNCHANGED <<link, events, connType, started, down, softAP>>
  <2>1. Ups' = Ups
    BY <1>2, <1>6 DEF Ups
  <2>2. QED
    BY <1>1, <1>6, <2>1 DEF EventInv
<1>7. QED
  BY <1>3, <1>4, <1>5, <1>6 DEF Connect

LEMMA ScanEvents == ASSUME TypeInv, EventInv, Scan PROVE EventInv'
<1>1. pc = "scan" /\ pc' = "mqtt" /\ UNCHANGED <<pending, guest>>
  BY DEF Scan
<1>2. Due' = Due /\ Due \in 0 .. 2
  BY <1>1, EventCounts DEF Due
<1>3. CASE UNCHANGED <<link, events, connType, connecting, started, down, softAP>>
  BY <1>1, <1>2, <1>3, EventsSame DEF EventInv
<1>4. ASSUME events = <<>>, NEW a, ConnectWiFi(a) \/ (ChangeAP(a) /\ UNCHANGED <<down, softAP>>)
      PROVE  EventInv'
  <2>1. /\ UNCHANGED <<softAP, down>>
        /\ \/ Leave /\ (guest \/ events = <<>>)
           \/ Begin(a) /\ connecting' = TRUE /\ started' = 0
    BY <1>4 DEF ConnectWiFi, ChangeAP
  <2>2. Many(events, "drop") = 0 /\ Many(events, "apstop") = 0
    BY <1>4, NoEvents
  <2>3. ~(Many(events, "drop") > 0) /\ ~(Many(events, "apstop") > 0)
    BY <2>2
  <2>4. pc # "connected" /\ pc' # "connected" /\ UNCHANGED <<pending, guest, softAP, down>>
    BY <1>1, <2>1
  <2>5. QED
    BY <2>1, <2>3, <2>4, StationEvents
<1>5. QED
  BY <1>3, <1>4 DEF Scan, ScanEnds

LEMMA NetworkEventEvents == ASSUME TypeInv, EventInv, NetworkEvent PROVE EventInv'
<1>1. events # <<>> /\ events' = Tail(events) /\ UNCHANGED <<link, started, guest, pc>>
  BY DEF NetworkEvent
<1>2. /\ events' \in Seq(Events) /\ Head(events) \in Events
      /\ \A e : Many(events', e) = IF Head(events) = e THEN Many(events, e) - 1 ELSE Many(events, e)
  BY <1>1, OneLess
<1>3. Due \in 0 .. 2 /\ Due' \in 0 .. 2 /\ \A e : Many(events, e) \in Nat /\ Many(events', e) \in Nat
  <2>1. \A e : Many(events', e) \in Nat
    BY <1>2, PlacesFinite
  <2>2. QED
    BY <2>1, EventCounts
<1>4. CASE Head(events) = "drop"
  <2>1. /\ Many(events', "drop") = Many(events, "drop") - 1 /\ Many(events', "ip") = Many(events, "ip")
        /\ Many(events', "apstart") = Many(events, "apstart")
        /\ Many(events', "apstop") = Many(events, "apstop")
    BY <1>2, <1>4
  <2>2. UNCHANGED <<pending, softAP>> /\ down' \in {0, down}
    BY <1>4 DEF NetworkEvent, DropTimer
  <2>3. Ups' = Ups /\ Due' = Due
    BY <1>1, <2>1, <2>2 DEF Ups, Due
  <2>4. Many(events, "drop") > 0 /\ Many(events', "drop") = 0
    BY <1>3, <2>1 DEF EventInv
  <2>5. QED
    BY <1>1, <1>2, <2>1, <2>2, <2>3, <2>4, NetworkBounds DEF EventInv
<1>5. CASE Head(events) = "ip"
  <2>1. /\ Many(events', "drop") = Many(events, "drop") /\ Many(events', "ip") = Many(events, "ip") - 1
        /\ Many(events', "apstart") = Many(events, "apstart")
        /\ Many(events', "apstop") = Many(events, "apstop")
    BY <1>2, <1>5
  <2>2. connType' = "wifi" /\ UNCHANGED <<connecting, down, softAP>>
    BY <1>5 DEF NetworkEvent
  <2>3. Due' <= Due + 1
    BY <1>1 DEF Due
  <2>4. Ups' <= Ups /\ Ups \in Nat /\ Ups' \in Nat
    BY <1>3, <2>1, <2>3 DEF Ups
  <2>5. Many(events', "drop") = Many(events, "drop") /\ Many(events', "ip") <= 1
    BY <1>3, <2>1 DEF EventInv
  <2>6. QED
    BY <1>1, <1>2, <2>1, <2>2, <2>4, <2>5 DEF EventInv
<1>6. CASE Head(events) = "apstart"
  <2>1. /\ Many(events', "drop") = Many(events, "drop") /\ Many(events', "ip") = Many(events, "ip")
        /\ Many(events', "apstart") = Many(events, "apstart") - 1
        /\ Many(events', "apstop") = Many(events, "apstop")
    BY <1>2, <1>6
  <2>2. softAP' = "open" /\ UNCHANGED <<status, connType, pending, connecting, down>>
    BY <1>6 DEF NetworkEvent
  <2>3. Ups' = Ups /\ UNCHANGED StillConnecting
    BY <1>1, <2>1, <2>2 DEF Ups, Due, StillConnecting
  <2>4. Many(events', "apstart") = 0
    BY <1>3, <2>1 DEF EventInv
  <2>5. QED
    BY <1>1, <1>2, <2>1, <2>2, <2>3, <2>4 DEF EventInv
<1>7. CASE Head(events) = "apstop"
  <2>1. /\ Many(events', "drop") = Many(events, "drop") /\ Many(events', "ip") = Many(events, "ip")
        /\ Many(events', "apstart") = Many(events, "apstart")
        /\ Many(events', "apstop") = Many(events, "apstop") - 1
    BY <1>2, <1>7
  <2>2. softAP' = "closed" /\ UNCHANGED <<status, connType, pending, connecting, down>>
    BY <1>7 DEF NetworkEvent
  <2>3. Ups' = Ups - 1 /\ UNCHANGED StillConnecting /\ Ups \in Nat
    BY <1>1, <1>3, <2>1, <2>2 DEF Ups, Due, StillConnecting
  <2>4. ~guest
    BY <1>3, <2>1 DEF EventInv
  <2>5. QED
    BY <1>1, <1>2, <1>3, <2>1, <2>2, <2>3, <2>4 DEF EventInv
<1>8. QED
  BY <1>2, <1>4, <1>5, <1>6, <1>7 DEF Events

LEMMA DriverEvents == ASSUME TypeInv, EventInv, Joins \/ GetsAddress \/ LosesLink PROVE EventInv'
<1>1. events = <<>>
  BY DEF Joins, GetsAddress, LosesLink
<1>2. events' = <<>> \/ events' = <<"ip">> \/ (events' = <<"drop">> /\ link' = Idle)
  BY <1>1 DEF Joins, GetsAddress, LosesLink, Leave
<1>3. QED
  BY <1>1, <1>2, AllRead, FirstOne

LEMMA TickEvents == ASSUME EventInv, Tick PROVE EventInv'
BY AllRead DEF Tick, wifi

LEMMA OtherEvents ==
  ASSUME EventInv, \/ LoopMqtt \/ HandshakeReturns \/ LosesSession \/ World \/ UNCHANGED vars
  PROVE  EventInv'
<1>1. CASE LoopMqtt \/ HandshakeReturns
  <2>1. /\ UNCHANGED <<events, link, connecting, started, connType, down, softAP, pending, guest>>
        /\ pc # "connected" /\ pc' # "connected"
    BY <1>1 DEF LoopMqtt, HandshakeReturns, wifi, fields
  <2>2. Due' = Due /\ Due \in 0 .. 2
    BY <2>1, EventCounts DEF Due
  <2>3. QED
    BY <2>1, <2>2, EventsSame DEF EventInv
<1>2. ASSUME UNCHANGED <<events, link, connecting, started, connType, down, softAP, pending, pc>>,
             guest' => Many(events, "apstop") = 0
      PROVE  EventInv'
  <2>1. Due' = Due /\ Due \in 0 .. 2
    BY <1>2, EventCounts DEF Due
  <2>2. QED
    BY <1>2, <2>1, EventsSame
<1>3. CASE LosesSession \/ Handler \/ WorldChanges \/ UNCHANGED vars
  <2>1. UNCHANGED networkVars
    BY <1>3 DEF LosesSession, Handler, WorldChanges, vars
  <2>2. QED
    BY <1>2, <2>1 DEF networkVars, wifi, fields, EventInv
<1>4. ASSUME NEW a \in APs, NEW how, AirChanges(a, how) PROVE EventInv'
  BY <1>2, <1>4 DEF AirChanges, wifi, fields, EventInv
<1>5. CASE GuestComes
  <2>1. Places(events, "apstop") = {}
    BY <1>5 DEF GuestComes, Places, EventInv
  <2>2. Many(events, "apstop") = 0
    BY <2>1, FS_EmptySet DEF Many
  <2>3. QED
    BY <1>2, <1>5, <2>2 DEF GuestComes, wifi, fields
<1>6. CASE GuestLeaves
  BY <1>2, <1>6 DEF GuestLeaves, wifi, fields
<1>7. CASE Cools
  BY <1>2, <1>7 DEF Cools, wifi, EventInv
<1>8. QED
  BY <1>1, <1>3, <1>4, <1>5, <1>6, <1>7 DEF World

LEMMA EventsKept == ASSUME TypeInv, EventInv, [Next]_vars PROVE EventInv'
<1>1. CASE Loop
  BY <1>1, PendingEvents, ConnectedEvents, ConnectEvents, ScanEvents, OtherEvents DEF Loop
<1>2. CASE Driver
  BY <1>2, DriverEvents, OtherEvents DEF Driver
<1>3. CASE NetworkEvent \/ Tick \/ World \/ UNCHANGED vars
  BY <1>3, NetworkEventEvents, TickEvents, OtherEvents
<1>4. QED
  BY <1>1, <1>2, <1>3 DEF Next

-----------------------------------------------------------------------------
(* The types, and the handshakes of the loop.                              *)

LEMMA StationTypes ==
  ASSUME TypeInv, NEW a \in APs \union {NoAP}, Leave \/ Begin(a)
  PROVE  link' \in {Idle} \union [phase : {"joining", "joined"}, ap : APs \union {NoAP}]
BY DEF Leave, Begin

LEMMA ConnectWiFiTypes ==
  ASSUME TypeInv, NEW a \in APs \union {NoAP},
         ConnectWiFi(a) \/ (ChangeAP(a) /\ UNCHANGED <<down, softAP>>)
  PROVE  /\ link' \in {Idle} \union [phase : {"joining", "joined"}, ap : APs \union {NoAP}]
         /\ connType' \in {"unset", "wifi"} /\ started' \in 0 .. Timeout
         /\ UNCHANGED <<down, softAP>>
BY StationTypes, NetworkBounds DEF ConnectWiFi, ChangeAP, TypeInv

LEMMA TypesKept == ASSUME TypeInv, [Next]_vars PROVE TypeInv'
<1>1. CASE TakePending \/ SetConnected
  BY <1>1 DEF TakePending, SetConnected, TypeInv, wifi
<1>2. CASE Connect
  <2>1. UNCHANGED <<hidden, roaming, air, status, guest>> /\ pc' \in {"begin", "scan"}
    BY <1>2 DEF Connect
  <2>2. CASE UNCHANGED <<link, connType, started, down, softAP>>
    BY <2>1, <2>2 DEF TypeInv
  <2>3. CASE OpenSoftAP
    BY <2>1, <2>3, NetworkBounds DEF TypeInv, OpenSoftAP
  <2>4. ASSUME NEW a \in APs \union {NoAP}, ConnectWiFi(a) PROVE TypeInv'
    BY <2>1, <2>4, ConnectWiFiTypes DEF TypeInv
  <2>5. QED
    BY <1>2, <2>2, <2>3, <2>4 DEF Connect, OnAir
<1>3. CASE Scan
  <2>1. UNCHANGED <<hidden, roaming, air, status, guest>> /\ pc' = "mqtt"
    BY <1>3 DEF Scan
  <2>2. CASE UNCHANGED <<link, connType, started, down, softAP>>
    BY <2>1, <2>2 DEF TypeInv
  <2>3. ASSUME NEW a \in APs, ConnectWiFi(a) \/ (ChangeAP(a) /\ UNCHANGED <<down, softAP>>)
        PROVE  TypeInv'
    BY <2>1, <2>3, ConnectWiFiTypes DEF TypeInv
  <2>4. QED
    BY <1>3, <2>2, <2>3 DEF Scan, ScanEnds, OnAir
<1>4. CASE LoopMqtt \/ HandshakeReturns
  BY <1>4 DEF LoopMqtt, HandshakeReturns, TypeInv, wifi, fields
<1>5. CASE NetworkEvent
  <2>1. down' \in 0 .. Timeout /\ UNCHANGED <<hidden, roaming, air, link, started, guest, pc>>
    BY <1>5, NetworkBounds DEF NetworkEvent, DropTimer, TypeInv
  <2>2. status' \in BOOLEAN /\ connType' \in {"unset", "wifi"} /\ softAP' \in {"closed", "opening", "open"}
    BY <1>5 DEF NetworkEvent, TypeInv
  <2>3. QED
    BY <2>1, <2>2 DEF TypeInv
<1>6. CASE Joins \/ GetsAddress \/ LosesLink
  <2>1. UNCHANGED <<hidden, roaming, air, status, connType, softAP, started, down, guest, pc>>
    BY <1>6 DEF Joins, GetsAddress, LosesLink, fields
  <2>2. link' \in {Idle} \union [phase : {"joining", "joined"}, ap : APs \union {NoAP}]
    BY <1>6 DEF Joins, GetsAddress, LosesLink, Leave, TypeInv, Idle
  <2>3. QED
    BY <2>1, <2>2 DEF TypeInv
<1>7. CASE Tick
  <2>1. /\ started' = (IF connecting THEN Later(started) ELSE 0) /\ down' = Later(down)
        /\ UNCHANGED <<hidden, roaming, air, link, status, connType, softAP, guest, pc>>
    BY <1>7 DEF Tick, wifi
  <2>2. started' \in 0 .. Timeout /\ down' \in 0 .. Timeout
    BY <2>1, NetworkBounds DEF TypeInv, Later
  <2>3. QED
    BY <2>1, <2>2 DEF TypeInv
<1>8. CASE LosesSession \/ Handler \/ WorldChanges \/ UNCHANGED vars
  BY <1>8 DEF LosesSession, Handler, WorldChanges, vars, networkVars, wifi, fields, TypeInv
<1>9. ASSUME NEW a \in APs, NEW how \in {"up", "refuses", "mute", "off"}, AirChanges(a, how)
      PROVE  TypeInv'
  BY <1>9 DEF AirChanges, wifi, fields, TypeInv
<1>10. CASE GuestComes \/ GuestLeaves \/ Cools
  BY <1>10 DEF GuestComes, GuestLeaves, Cools, wifi, fields, TypeInv
<1>11. QED
  BY <1>1, <1>2, <1>3, <1>4, <1>5, <1>6, <1>7, <1>8, <1>9, <1>10 DEF Next, Loop, Driver, World

\* The loop waits in the handshake while there is one.
Waits == pc = "handshake" <=> Connecting

LEMMA SessionKept ==
  ASSUME TypeInv, SessionInv, Waits, [Next]_vars PROVE SessionInv' /\ Waits'
<1>1. ASSUME UNCHANGED mqttVars, pc # "handshake", pc' # "handshake" \/ pc' = pc PROVE SessionInv' /\ Waits'
  BY <1>1 DEF mqttVars, flags, world, SessionInv, MqttTypeOK, SettingsTakeEffect, QuietWhileFlashing,
              Connecting, Waits
<1>2. ASSUME UNCHANGED mqttVars, UNCHANGED pc PROVE SessionInv' /\ Waits'
  BY <1>2 DEF mqttVars, flags, world, SessionInv, MqttTypeOK, SettingsTakeEffect, QuietWhileFlashing,
              Connecting, Waits
<1>3. ASSUME SessionInv', UNCHANGED target, UNCHANGED pc PROVE SessionInv' /\ Waits'
  BY <1>3 DEF Waits, Connecting
<1>4. CASE TakePending \/ SetConnected \/ Connect \/ Scan
  BY <1>1, <1>4 DEF TakePending, SetConnected, Connect, Scan
<1>5. CASE LoopMqtt
  <2>1. ~Connecting /\ MqttLoop(Connected) /\ (pc' = "handshake" <=> target' # None)
    BY <1>5 DEF LoopMqtt, Waits
  <2>2. Connected \in BOOLEAN
    BY DEF TypeInv, Connected, StillConnecting, Linked
  <2>3. QED
    BY <2>1, <2>2, SessionLoop DEF Waits, Connecting
<1>6. CASE HandshakeReturns
  <2>1. Handshake(status /\ target \in brokersUp) /\ pc' = "begin" /\ target' = None
    BY <1>6 DEF HandshakeReturns, Handshake
  <2>2. (status /\ target \in brokersUp) \in BOOLEAN
    BY DEF TypeInv
  <2>3. QED
    BY <2>1, <2>2, SessionHandshake DEF Waits, Connecting
<1>7. CASE NetworkEvent \/ Joins \/ GetsAddress \/ LosesLink \/ GuestComes \/ GuestLeaves \/ Cools
           \/ UNCHANGED vars
  BY <1>2, <1>7 DEF NetworkEvent, Joins, GetsAddress, LosesLink, GuestComes, GuestLeaves, Cools, vars,
                    networkVars
<1>8. ASSUME NEW a \in APs, NEW how, AirChanges(a, how) PROVE SessionInv' /\ Waits'
  BY <1>2, <1>8 DEF AirChanges
<1>9. CASE LosesSession
  <2>1. /\ session' = None /\ UNCHANGED pc
        /\ UNCHANGED <<settings, tlsClient, target, flags, wait, retryDelay, world>>
    BY <1>9 DEF LosesSession, networkVars
  <2>2. QED
    BY <2>1 DEF flags, world, SessionInv, MqttTypeOK, SettingsTakeEffect, QuietWhileFlashing, Connecting,
                Waits
<1>10. CASE Handler
  BY <1>3, <1>10, SessionHandlers DEF Handler, networkVars
<1>11. CASE WorldChanges
  BY <1>3, <1>11, SessionWorld DEF WorldChanges, networkVars
<1>12. CASE Tick
  BY <1>3, <1>12, SessionTick DEF Tick
<1>13. QED
  BY <1>4, <1>5, <1>6, <1>7, <1>8, <1>9, <1>10, <1>11, <1>12 DEF Next, Loop, Driver, World

-----------------------------------------------------------------------------
(* The theorems.                                                           *)

\* The inductive invariant.
IInv == TypeInv /\ EventInv /\ SessionInv /\ Waits

LEMMA InitInv == Init => IInv
<1> SUFFICES ASSUME Init PROVE IInv
  OBVIOUS
<1>1. TypeInv
  BY NetworkBounds DEF Init, TypeInv
<1>2. EventInv
  <2>1. events = <<>> /\ ~pending /\ pc # "connected"
    BY DEF Init
  <2>2. \A e : Many(events, e) = 0
    BY <2>1, NoEvents
  <2>3. Due = 0
    BY <2>1 DEF Due
  <2>4. Ups = 0
    BY <2>2, <2>3 DEF Ups
  <2>5. QED
    BY <2>1, <2>2, <2>4 DEF EventInv
<1>3. SessionInv
  BY SessionInit DEF Init
<1>4. Waits
  BY DEF Init, MqttInit, Waits, Connecting
<1>5. QED
  BY <1>1, <1>2, <1>3, <1>4 DEF IInv

LEMMA Inductive == IInv /\ [Next]_vars => IInv'
BY TypesKept, EventsKept, SessionKept DEF IInv

LEMMA Invariant == Spec => []IInv
BY InitInv, Inductive, PTL DEF Spec

\* Nobody who uses the soft AP is thrown off it, and the events on their way
\* are never more than four, however long the event task waits.
THEOREM NetworkCorrect == Spec => []NetworkSafe
<1>1. ASSUME IInv PROVE NetworkSafe
  <2>1. Len(events) <= 4
    <3>1. Len(events) <= Many(events, "drop") + Many(events, "ip") + Many(events, "apstart")
                           + Many(events, "apstop")
      BY <1>1, FewEvents DEF IInv, EventInv, Events
    <3>2. Due \in 0 .. 2 /\ \A e : Many(events, e) \in Nat
      BY <1>1, EventCounts DEF IInv
    <3>3. Len(events) \in Nat
      BY <1>1 DEF IInv, EventInv
    <3>4. Many(events, "ip") + Many(events, "apstop") <= Ups /\ Ups \in Nat
      BY <3>2 DEF Ups
    <3>5. QED
      BY <1>1, <3>1, <3>2, <3>3, <3>4 DEF IInv, EventInv
  <2>2. GuestStays
    <3>1. ASSUME guest PROVE Places(events, "apstop") = {}
      BY <1>1, <3>1, PlacesFinite, FS_EmptySet DEF IInv, EventInv, Many
    <3>2. DOMAIN events = 1 .. Len(events)
      BY <1>1 DEF IInv, EventInv
    <3>3. QED
      BY <3>1, <3>2 DEF GuestStays, Places
  <2>3. NetworkTypeOK
    BY <1>1, <2>1 DEF IInv, TypeInv, EventInv, Events, Waits, NetworkTypeOK
  <2>4. QED
    BY <2>2, <2>3 DEF NetworkSafe
<1>2. QED
  BY <1>1, Invariant, PTL

\* Whatever is saved and flashed during handshakes: no session outlives its
\* settings unnoticed, none is up while an image is flashed, and the TLS client
\* under a handshake stays.
THEOREM SessionCorrect == Spec => []SessionSafe
<1>1. IInv => SessionSafe
  BY DEF IInv, SessionInv, SessionSafe, TlsClientStays
<1>2. QED
  BY <1>1, Invariant, PTL

=============================================================================
