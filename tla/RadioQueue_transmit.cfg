\* Up to three orders of two remotes and three disturbances, four in all: order,
\* gaps, events, scans, flashes, saves, a full budget.
CONSTANTS
  r1 = r1  r2 = r2  none = none
  Remotes = {r1, r2}
  NoRemote = none
  MaxJobs = 2
  Repeats = {1}
  SameRemoteGap = 1
  LbtCarrier = 1
  LbtUrgent = 1
  LbtRx = 1
  RelayDelay = 1
  MaxOrders = 3
  MaxDisturb = 3
  MaxEvents = 4
SPECIFICATION Spec
SYMMETRY RemoteSym
INVARIANTS PickedJobStays HeardBeforeReported RadioComesBack
PROPERTIES GapRespected ImplementsOrderService
