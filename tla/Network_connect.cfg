\* Two access points and two brokers: one of the former fails, or two things happen
\* to the client; what gets well again is not bounded.
CONSTANTS
  Brokers = {b1, b2}
  TlsBrokers = {b1}
  Disabled = disabled
  MaxDelay = 2
  APs = {a1, a2}
  NoAP = noap
  Timeout = 1
  MaxEvents = 1
  MaxRequests = 2
SPECIFICATION FairSpec
INVARIANTS NetworkSafe SessionSafe
PROPERTIES Reachable Returns Reconnects
