------------------------------ MODULE Network -------------------------------
(***************************************************************************)
(* The station, the fallback access point and the MQTT client of a device  *)
(* that is set up for WiFi.  The loop task runs Network::loop() a piece at *)
(* a time, holding the shared lock but for the handshake; the event task   *)
(* runs networkEvent() at any moment, lock or not; the driver joins and    *)
(* loses access points meanwhile.                                          *)
(*                                                                         *)
(* Ethernet, sockets and discovery are left out, and which of the access   *)
(* points is the strongest.  Time is counted as in Mqtt.                   *)
(***************************************************************************)
EXTENDS Mqtt, Sequences

CONSTANTS
  APs,          \* the access points of the user's network
  NoAP,
  Timeout,      \* CONNECT_TIMEOUT
  MaxEvents,    \* bound: access points that fail
  MaxRequests   \* bound: settings saved, flashes begun, brokers lost and the like

ASSUME NetworkAssumption ==
  NoAP \notin APs /\ Timeout \in Nat \ {0} /\ MaxEvents \in Nat /\ MaxRequests \in Nat

VARIABLES
  hidden, roaming,  \* settings.WIFI
  air,          \* what an access point does: "up", "refuses", "mute" (no address), "off"
  link,         \* the driver: "idle", "joining", "joined", and with whom
  status,       \* WiFi.status() is WL_CONNECTED
  events,       \* on their way to the event task
  connType, pending, connecting,   \* pending is connectedPending
  started, down,  \* time since connectStart and disconnectTime
  softAP,       \* "closed", "opening", "open"
  guest,        \* somebody uses it
  scanning,     \* _apScanning
  cooled,       \* no roaming in the last ten minutes
  pc,           \* of the loop
  budget, requests

wifi == <<link, status, events>>
fields == <<connType, pending, connecting, started, down, softAP, scanning, cooled>>
networkVars == <<hidden, roaming, air, wifi, fields, guest, pc>>
bounds == <<budget, requests>>
vars == <<networkVars, bounds, mqttVars>>

OnAir == {a \in APs : air[a] # "off"}
Idle == [phase |-> "idle", ap |-> NoAP]
Later(t) == IF t >= Timeout THEN Timeout ELSE t + 1

\* connecting(), once it has dealt with an attempt that takes too long, and
\* connected().
StillConnecting == connecting /\ started < Timeout
Linked == connType = "wifi" /\ status
Connected == ~StillConnecting /\ Linked
GuestOnAP == softAP = "open" /\ guest

NetworkTypeOK ==
  /\ hidden \in BOOLEAN /\ roaming \in BOOLEAN /\ guest \in BOOLEAN /\ status \in BOOLEAN
  /\ air \in [APs -> {"up", "refuses", "mute", "off"}]
  /\ link \in {Idle} \union [phase : {"joining", "joined"}, ap : APs \union {NoAP}]
  /\ events \in Seq({"drop", "ip", "apstart", "apstop"}) /\ Len(events) <= 4
  /\ connType \in {"unset", "wifi"} /\ softAP \in {"closed", "opening", "open"}
  /\ started \in 0 .. Timeout /\ down \in 0 .. Timeout
  /\ pc \in {"begin", "connected", "connect", "scan", "mqtt", "handshake"}
  /\ (pc = "handshake" <=> Connecting)

\* To keep the instances small, hidden and roaming networks come without MQTT,
\* and either access points fail or something happens to the client.
Init ==
  /\ hidden \in BOOLEAN /\ roaming \in BOOLEAN /\ ~(hidden /\ roaming)
  /\ \E how \in {"up", "refuses"} : air = [a \in APs |-> how]
  /\ link = Idle /\ status = FALSE /\ events = <<>>
  /\ connType = "unset" /\ pending = FALSE /\ connecting = FALSE /\ started = 0 /\ down = 0
  /\ softAP = "closed" /\ guest = FALSE /\ scanning = FALSE /\ cooled = TRUE /\ pc = "begin"
  /\ MqttInit
  /\ settings # Disabled => ~hidden /\ ~roaming
  /\ \/ budget = MaxEvents /\ requests = 0
     \/ settings # Disabled /\ budget = 0 /\ requests = MaxRequests

-----------------------------------------------------------------------------
(* What the driver is told.                                                *)

\* WiFi.begin()
Begin(a) ==
  /\ link' = [phase |-> "joining", ap |-> a]
  /\ events' = IF link.phase = "joined" THEN Append(events, "drop") ELSE events

\* WiFi.disconnect()
Leave ==
  link' = Idle /\ events' = IF link = Idle THEN events ELSE Append(events, "drop")

\* connectWiFi().  The access points have different channels, so that it is
\* never joined already; nor with a hidden network, for a status without its
\* connType, or an attempt still under way, does not get here (460-466 return then).
\* Nothing is done to the station while somebody uses the soft AP.
ConnectWiFi(a) ==
  /\ connType' = "unset"
  /\ IF GuestOnAP THEN Leave /\ connecting' = FALSE /\ UNCHANGED started
                  ELSE Begin(a) /\ connecting' = TRUE /\ started' = 0
  /\ UNCHANGED <<down, softAP>>

\* openSoftAP()
OpenSoftAP ==
  /\ softAP' = "opening" /\ events' = Append(events, "apstart") /\ down' = 0
  /\ connecting' = FALSE /\ UNCHANGED <<link, connType, started>>

\* changeAP().  Its mqtt.disconnect() has nothing to do: Init gives networks that
\* roam no broker.
ChangeAP(a) ==
  /\ Begin(a) /\ connType' = "unset" /\ connecting' = TRUE /\ started' = 0
  /\ cooled' = FALSE

-----------------------------------------------------------------------------
(* Network::loop()                                                         *)

TakePending ==
  /\ pc = "begin" /\ pending' = FALSE /\ pc' = IF pending THEN "connected" ELSE "connect"
  /\ UNCHANGED <<hidden, roaming, air, wifi, connType, connecting, started, down, softAP, scanning,
                 cooled, guest, bounds, mqttVars>>

\* Bug: the soft AP is closed, whoever uses it.
SetConnectedAlone ==
  /\ pc = "connected" /\ connType' = "wifi" /\ connecting' = FALSE /\ pc' = "connect"
  /\ events' = IF softAP = "open" THEN Append(events, "apstop") ELSE events
  /\ UNCHANGED <<hidden, roaming, air, link, status, pending, started, down, softAP, scanning,
                 cooled, guest, bounds, mqttVars>>

SetConnected ==
  /\ pc = "connected" /\ connType' = "wifi" /\ connecting' = FALSE /\ pc' = "connect"
  /\ events' = IF softAP = "open" /\ ~guest THEN Append(events, "apstop") ELSE events
  /\ UNCHANGED <<hidden, roaming, air, link, status, pending, started, down, softAP, scanning,
                 cooled, guest, bounds, mqttVars>>

\* connect(), and the bail-out while it connects.
Connect ==
  /\ pc = "connect"
  /\ LET overdue == ~Linked /\ down = Timeout
         seeks == hidden /\ connType # "wifi" /\ (overdue => softAP = "open")
         opens == overdue /\ softAP = "closed"
     IN \/ StillConnecting /\ UNCHANGED <<link, events, connType, connecting, started, down, softAP>>
        \/ ~StillConnecting /\ opens /\ OpenSoftAP
        \/ ~StillConnecting /\ seeks /\ \E a \in IF OnAir = {} THEN {NoAP} ELSE OnAir : ConnectWiFi(a)
        \/ /\ ~StillConnecting /\ ~opens /\ ~seeks /\ connecting' = FALSE
           /\ UNCHANGED <<link, events, connType, started, down, softAP>>
  /\ pc' = IF connecting' THEN "begin" ELSE "scan"
  /\ UNCHANGED <<hidden, roaming, air, status, pending, scanning, cooled, guest, bounds, mqttVars>>

\* What becomes of a scan: it is cancelled, goes on, or has found some access
\* point; without a link there is one if any is on the air.  It takes longer
\* than an event waits for its task.
ScanEnds ==
  LET cancel == hidden \/ (Connected /\ ~roaming) \/ GuestOnAP
      nothing == UNCHANGED <<link, events, connType, connecting, started, down, softAP, cooled>>
  IN \/ cancel /\ nothing
     \/ ~cancel /\ (Connected \/ OnAir = {}) /\ nothing
     \/ /\ ~cancel
        /\ \E a \in OnAir :
             IF link = [phase |-> "joined", ap |-> a] THEN nothing
             ELSE IF ~Connected THEN ConnectWiFi(a) /\ UNCHANGED cooled
             ELSE IF cooled THEN ChangeAP(a) /\ UNCHANGED <<down, softAP>>
             ELSE nothing

\* Bug: an open soft AP ends the search.
SeeksInVain == softAP # "open" /\ ~Connected

\* A new scan: until there is a link, for as long as a soft AP is open that
\* nobody uses, and now and then to roam.
Seeks == IF softAP = "open" THEN ~guest ELSE ~Connected
Roams == ~Seeks /\ Connected /\ roaming /\ cooled

Scan ==
  /\ pc = "scan" /\ pc' = "mqtt"
  /\ \/ /\ scanning /\ events = <<>> /\ ScanEnds
        /\ scanning' = (Seeks /\ ~hidden /\ ~connecting')
     \/ /\ (scanning => ~hidden /\ ~GuestOnAP)
        /\ \/ ~hidden /\ (Seeks \/ Roams) /\ scanning' = TRUE
           \/ (hidden \/ ~Seeks) /\ UNCHANGED scanning
        /\ UNCHANGED <<link, events, connType, connecting, started, down, softAP, cooled>>
  /\ UNCHANGED <<hidden, roaming, air, status, pending, guest, bounds, mqttVars>>

LoopMqtt ==
  /\ pc = "mqtt" /\ MqttLoop(Connected) /\ pc' = IF target' # None THEN "handshake" ELSE "begin"
  /\ UNCHANGED <<hidden, roaming, air, wifi, fields, guest, bounds>>

HandshakeReturns ==
  /\ pc = "handshake" /\ Handshake(status /\ target \in brokersUp) /\ pc' = "begin"
  /\ UNCHANGED <<hidden, roaming, air, wifi, fields, guest, bounds>>

-----------------------------------------------------------------------------
(* The event task.                                                         *)

\* Bug: every failed attempt puts the access point off.
DropStartsTimer == down' = 0

\* The fallback timer restarts only as an established link drops.
DropTimer == down' = IF connType = "wifi" THEN 0 ELSE down

NetworkEvent ==
  /\ events # <<>> /\ events' = Tail(events)
  /\ \/ /\ Head(events) = "drop" /\ DropTimer
        /\ status' = FALSE /\ connType' = "unset" /\ connecting' = FALSE
        /\ UNCHANGED <<pending, softAP>>
     \/ /\ Head(events) = "ip"
        /\ status' = TRUE /\ connType' = "wifi" /\ pending' = TRUE
        /\ UNCHANGED <<connecting, down, softAP>>
     \/ /\ Head(events) \in {"apstart", "apstop"}
        /\ softAP' = IF Head(events) = "apstart" THEN "open" ELSE "closed"
        /\ UNCHANGED <<status, connType, pending, connecting, down>>
  /\ UNCHANGED <<hidden, roaming, air, link, started, scanning, cooled, guest, pc, bounds, mqttVars>>

-----------------------------------------------------------------------------
(* The driver, and the world.                                              *)

Fails(a) == a = NoAP \/ (a \in APs /\ air[a] \in {"off", "refuses"})

Joins ==
  /\ link.phase = "joining" /\ events = <<>>
  /\ IF Fails(link.ap) THEN Leave
     ELSE link' = [link EXCEPT !.phase = "joined"] /\ events' = IF air[link.ap] = "up" THEN <<"ip">> ELSE <<>>
  /\ UNCHANGED <<hidden, roaming, air, status, fields, guest, pc, bounds, mqttVars>>

\* The address comes late.
GetsAddress ==
  /\ link.phase = "joined" /\ air[link.ap] = "up" /\ ~status /\ events = <<>>
  /\ events' = <<"ip">>
  /\ UNCHANGED <<hidden, roaming, air, link, status, fields, guest, pc, bounds, mqttVars>>

LosesLink ==
  /\ link.phase = "joined" /\ Fails(link.ap) /\ events = <<>> /\ Leave
  /\ UNCHANGED <<hidden, roaming, air, status, fields, guest, pc, bounds, mqttVars>>

LosesSession ==
  /\ session # None /\ ~status /\ ~Connecting /\ session' = None
  /\ UNCHANGED <<networkVars, bounds, settings, tlsClient, target, flags, wait, retryDelay, world>>

\* The event task is fast, and so is the driver with an access point that takes
\* the device; the loop may take its time.
Tick ==
  /\ events = <<>> /\ (link.phase = "joining" => Fails(link.ap))
  /\ started' = (IF connecting THEN Later(started) ELSE 0) /\ down' = Later(down)
  /\ MqttTick
  /\ <<started, down, wait>> # <<started', down', wait'>>
  /\ UNCHANGED <<hidden, roaming, air, wifi, connType, pending, connecting, softAP, scanning, cooled,
                 guest, pc, bounds>>

\* What goes wrong is bounded, what gets well again is not.
Spend == budget > 0 /\ budget' = budget - 1 /\ UNCHANGED requests
Request == requests > 0 /\ requests' = requests - 1 /\ UNCHANGED budget

AirChanges(a, how) ==
  /\ IF how = "up" THEN UNCHANGED bounds ELSE Spend
  /\ air[a] # how /\ air' = [air EXCEPT ![a] = how]
  /\ UNCHANGED <<hidden, roaming, wifi, fields, guest, pc, mqttVars>>

GuestComes ==
  /\ softAP = "open" /\ ~guest /\ \A i \in DOMAIN events : events[i] # "apstop"
  /\ guest' = TRUE
  /\ UNCHANGED <<hidden, roaming, air, wifi, fields, pc, bounds, mqttVars>>
GuestLeaves ==
  /\ guest /\ guest' = FALSE
  /\ UNCHANGED <<hidden, roaming, air, wifi, fields, pc, bounds, mqttVars>>

\* Ten minutes after a roam.
Cools ==
  /\ ~cooled /\ cooled' = TRUE
  /\ UNCHANGED <<hidden, roaming, air, wifi, connType, pending, connecting, started, down, softAP,
                 scanning, guest, pc, bounds, mqttVars>>

\* Handlers take the lock, which the loop has but during the handshake.
Handler ==
  /\ pc \in {"begin", "handshake"}
  /\ \/ \E s \in Brokers \union {Disabled} : SaveSettings(s) /\ Request
     \/ Suspend /\ Request
     \/ Resume /\ UNCHANGED bounds
  /\ UNCHANGED networkVars

WorldChanges ==
  /\ (\E b \in Brokers : BrokerChanges(b)) \/ TlsChanges \/ ShadesMove
  /\ IF brokersUp' = Brokers /\ tlsReady' /\ allIdle' THEN UNCHANGED bounds ELSE Request
  /\ UNCHANGED networkVars

-----------------------------------------------------------------------------
Loop == TakePending \/ SetConnected \/ Connect \/ Scan \/ LoopMqtt \/ HandshakeReturns
Driver == Joins \/ GetsAddress \/ LosesLink \/ LosesSession
World ==
  \/ \E a \in APs, how \in {"up", "refuses", "mute", "off"} : AirChanges(a, how)
  \/ GuestComes \/ GuestLeaves \/ Cools \/ Handler \/ WorldChanges

Next == Loop \/ NetworkEvent \/ Driver \/ Tick \/ World

\* The tasks and the driver go on, time passes, and a scan ends.
Fairness ==
  /\ WF_vars(TakePending) /\ WF_vars(SetConnected) /\ WF_vars(Connect) /\ WF_vars(Scan)
  /\ WF_vars(LoopMqtt) /\ WF_vars(HandshakeReturns) /\ WF_vars(NetworkEvent)
  /\ WF_vars(Joins) /\ WF_vars(GetsAddress) /\ WF_vars(LosesLink) /\ WF_vars(LosesSession) /\ SF_vars(Tick)
  /\ SF_vars(Scan /\ scanning /\ ~scanning')

Spec == Init /\ [][Next]_vars
FairSpec == Spec /\ Fairness

-----------------------------------------------------------------------------
(* Properties.                                                             *)

(* Without a link the device never stays out of reach: an access point     *)
(* that refuses it, gives it no address or is gone does not keep it from   *)
(* opening its own ("resetting the timer there kept a device whose router  *)
(* rejects it ... from ever reaching CONNECT_TIMEOUT").                    *)
Reachable == []<>(Connected \/ softAP = "open")

(* Once the access points work again and nobody uses the soft AP, a device *)
(* whose network is not hidden gets back to it, and stays if it does not   *)
(* roam; one that roams leaves only to come back.                          *)
Returns ==
  <>[](~hidden /\ ~guest /\ \A a \in APs : air[a] = "up")
    => []<>Connected /\ <>[](Connected \/ roaming)

(* Nobody who uses the soft AP is thrown off it by a link that comes back. *)
GuestStays == guest => \A i \in DOMAIN events : events[i] # "apstop"

(* The types of networkVars with it: events are never more than the driver *)
(* and the loop can have caused while the event task waits.                *)
NetworkSafe == NetworkTypeOK /\ GuestStays

(* Between handshakes, a session with other settings than the saved ones,  *)
(* or over another transport, is about to be dropped: whatever was saved   *)
(* during the handshake takes effect.                                      *)
SettingsTakeEffect ==
  session # None /\ ~Connecting /\ (session # settings \/ (session \in TlsBrokers) # tlsClient)
    => reconnectPending

(* No session is up while an image is flashed, also when the flash began   *)
(* during a handshake that then succeeds.                                  *)
QuietWhileFlashing == suspended /\ ~Connecting => session = None

(* The TLS client under a handshake is not freed by a handler.             *)
TlsClientStays == Connecting /\ target \in TlsBrokers => tlsClient

(* What sessions are promised at every moment.                             *)
SessionSafe == MqttTypeOK /\ SettingsTakeEffect /\ QuietWhileFlashing /\ TlsClientStays

(* When all is well for good, a session with the saved settings is there   *)
(* for good, whatever the retries had grown to.                            *)
Reconnects ==
  <>[](Connected /\ settings \in brokersUp /\ ~suspended /\ allIdle /\ tlsReady)
    => <>[](session = settings)

=============================================================================
