-------------------------------- MODULE Mqtt --------------------------------
(***************************************************************************)
(* The MQTT client.  The loop connects it, and hands the shared lock back  *)
(* for the handshake, in which handlers save other settings or begin to    *)
(* flash.                                                                  *)
(*                                                                         *)
(* What is published and received is left out: commands are orders (see    *)
(* Shade).  Time is counted in first retry delays.                         *)
(***************************************************************************)
EXTENDS Integers, FiniteSets

CONSTANTS
  Brokers,      \* the settings of a broker
  TlsBrokers,   \* those that say mqtts
  Disabled,     \* MQTT switched off
  MaxDelay      \* 5 minutes, in units of 10 seconds

ASSUME MqttAssumption ==
  TlsBrokers \subseteq Brokers /\ Disabled \notin Brokers /\ MaxDelay \in Nat \ {0}

VARIABLES
  settings,     \* settings.MQTT
  session,      \* the broker the client is connected to, if any
  tlsClient,    \* the 40 KB of a TLS session are allocated
  target,       \* during the handshake: the broker it began with
  suspended, reconnectPending,
  wait, retryDelay,   \* until the next attempt, and after the next one
  brokersUp,    \* those that answer
  tlsReady,     \* the clock is set and the heap is large enough
  allIdle       \* no shade moves

flags == <<suspended, reconnectPending>>
world == <<brokersUp, tlsReady, allIdle>>
mqttVars == <<settings, session, tlsClient, target, flags, wait, retryDelay, world>>

None == "none"
Connecting == target # None

MqttTypeOK ==
  /\ settings \in Brokers \union {Disabled} /\ session \in Brokers \union {None}
  /\ target \in Brokers \union {None} /\ tlsClient \in BOOLEAN
  /\ suspended \in BOOLEAN /\ reconnectPending \in BOOLEAN
  /\ retryDelay \in 1 .. MaxDelay /\ wait \in 0 .. MaxDelay
  /\ brokersUp \subseteq Brokers /\ tlsReady \in BOOLEAN /\ allIdle \in BOOLEAN

MqttInit ==
  /\ settings \in TlsBrokers \union {Disabled} /\ session = None /\ tlsClient = FALSE /\ target = None
  /\ suspended = FALSE /\ reconnectPending = FALSE /\ wait = 0 /\ retryDelay = 1
  /\ brokersUp = Brokers /\ tlsReady = TRUE /\ allIdle = TRUE

-----------------------------------------------------------------------------
(* The loop.                                                               *)

\* disconnect()
Disconnect ==
  IF Connecting
  THEN reconnectPending' = TRUE /\ UNCHANGED <<session, tlsClient>>
  ELSE session' = None /\ tlsClient' = FALSE /\ UNCHANGED reconnectPending

\* The attempt that connect() begins, if TLS is not out of reach for now.
Attempt(delay) ==
  /\ wait' = delay /\ retryDelay' = delay
  /\ \/ settings \notin TlsBrokers /\ target' = settings /\ tlsClient' = FALSE
     \/ settings \in TlsBrokers /\ tlsReady /\ target' = settings /\ tlsClient' = TRUE
     \/ settings \in TlsBrokers /\ ~tlsReady /\ UNCHANGED target
        /\ tlsClient' = (tlsClient /\ ~reconnectPending)

\* loop(), up to the handshake.
MqttLoop(online) ==
  LET delay == IF reconnectPending THEN 1 ELSE retryDelay
      due == reconnectPending \/ wait = 0
  IN
  /\ reconnectPending' = FALSE
  /\ session' = IF reconnectPending THEN None ELSE session
  /\ IF settings # Disabled /\ ~suspended /\ session' = None /\ online /\ due /\ allIdle
     THEN Attempt(delay)
     ELSE /\ wait' = (IF reconnectPending THEN 0 ELSE wait) /\ retryDelay' = delay
          /\ tlsClient' = (IF reconnectPending THEN FALSE ELSE tlsClient) /\ UNCHANGED target
  /\ UNCHANGED <<settings, suspended, world>>

Backoff(d) == IF 2 * d >= MaxDelay THEN MaxDelay ELSE 2 * d

\* Bug: connected is connected, what was asked for is forgotten.
HandshakeForgets(ok) ==
  /\ Connecting /\ target' = None
  /\ retryDelay' = IF ok THEN 1 ELSE Backoff(retryDelay)
  /\ reconnectPending' = FALSE
  /\ IF ok /\ ~suspended THEN session' \in {target, settings} \ {Disabled} /\ UNCHANGED tlsClient
                         ELSE session' = None /\ tlsClient' = FALSE
  /\ UNCHANGED <<settings, suspended, wait, world>>

\* The rest of connect().  The host name is read during the handshake, from
\* settings that may have changed since.
Handshake(ok) ==
  /\ Connecting /\ target' = None
  /\ retryDelay' = IF ok THEN 1 ELSE Backoff(retryDelay)
  /\ IF ok /\ ~suspended THEN session' \in {target, settings} \ {Disabled} /\ UNCHANGED tlsClient
                         ELSE session' = None /\ tlsClient' = FALSE
  /\ UNCHANGED <<settings, flags, wait, world>>

-----------------------------------------------------------------------------
(* Handlers.                                                               *)

\* Bug: settings apply when the connection is lost.
SaveOnly(s) ==
  settings' = s /\ UNCHANGED <<session, tlsClient, target, flags, wait, retryDelay, world>>

\* /connectmqtt
SaveSettings(s) ==
  /\ settings' = s /\ reconnectPending' = TRUE
  /\ UNCHANGED <<session, tlsClient, target, suspended, wait, retryDelay, world>>

\* end() as a flash begins, begin() when it fails.
Suspend ==
  /\ ~suspended /\ suspended' = TRUE /\ Disconnect
  /\ UNCHANGED <<settings, target, wait, retryDelay, world>>
Resume ==
  /\ suspended /\ suspended' = FALSE
  /\ UNCHANGED <<settings, session, tlsClient, target, reconnectPending, wait, retryDelay, world>>

-----------------------------------------------------------------------------
(* The world.  A connection is lost with its broker.                       *)

BrokerChanges(b) ==
  /\ brokersUp' = IF b \in brokersUp THEN brokersUp \ {b} ELSE brokersUp \union {b}
  /\ session' = IF session = b THEN None ELSE session
  /\ UNCHANGED <<settings, tlsClient, target, flags, wait, retryDelay, tlsReady, allIdle>>
TlsChanges ==
  /\ tlsReady' = ~tlsReady
  /\ UNCHANGED <<settings, session, tlsClient, target, flags, wait, retryDelay, brokersUp, allIdle>>
ShadesMove ==
  /\ allIdle' = ~allIdle
  /\ UNCHANGED <<settings, session, tlsClient, target, flags, wait, retryDelay, brokersUp, tlsReady>>

MqttTick ==
  /\ wait' = IF wait = 0 THEN 0 ELSE wait - 1
  /\ UNCHANGED <<settings, session, tlsClient, target, flags, retryDelay, world>>

=============================================================================
