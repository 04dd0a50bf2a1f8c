\* A full table, one disturbance, a budget that may stay exhausted: every order,
\* every stop and every handler gets through.
CONSTANTS
  r1 = r1  r2 = r2  none = none
  Remotes = {r1, r2}
  NoRemote = none
  MaxJobs = 1
  Repeats = {1}
  SameRemoteGap = 1
  LbtCarrier = 1
  LbtUrgent = 1
  LbtRx = 1
  RelayDelay = 1
  MaxOrders = 2
  MaxDisturb = 1
  MaxEvents = 9
SPECIFICATION FairSpec
PROPERTIES EveryOrderLeaves StopsIgnoreBudget HandlersReturn
