SPECIFICATION MCSpec
CONSTANTS
  a1 = a1
  a2 = a2
  x = x
  y = y
  p1 = p1
  p2 = p2
  Agents = {a1, a2}
  Locals = {x, y}
  Platforms = {p1, p2}
  NoCopy = NoCopy
  NoTx = NoTx
  NoAnswer = NoAnswer
  NoPlatform = NoPlatform
  NoLease = NoLease
  TTL = 2
  RowRetention = 0
  SyncRetention = 2
  Quota = 1
  MaxRows = 2
  MaxBoots = 2
  MaxFence = 3
  LicenceTerm = 3
  LockWait = 1
  LeaseHorizon = 3
  MaxRequestAge = 3
  Bindings <- BindingsOf
  Settings <- Scenes
  d1 = d1
  d2 = d2
  Devices = {d1, d2}
  Native = {d1}
  NoReceipt = NoReceipt
  NoHandler = NoHandler
  NoAsk = NoAsk
  NoTold = NoTold
  NoFile = NoFile
  MaxDevices = 1
  Grace = 1
  LeaseTerm = 0
  KeyLife = 2
  MaxMinted = 3
  MaxUpsets = 1
  LicHorizon = 2
  MaxRequests <- RequestsOf
  Jobs = {j1, j2}
  Codes = {c1, c2}
  Requests = {r1, r2}
  HostedJobs = {}
  Wanted <- Choice
  InProcess = TRUE
  AtomicRequests = TRUE
  NoJob = NoJob
  NoPlan = NoPlan
  NoRequest = NoRequest
  MaxEdits = 3
INVARIANTS ScheduleMatchesTable HeldLeaseIsServed GrantsWithinQuota EpochGrantedOnce RevokedLeasesExpire SequenceNamesOneCredential ReplayableReceiptIsCurrent BusinessEndsAfterClosing
PROPERTIES ClosedStaysClosed
SYMMETRY JobSymmetry
CHECK_DEADLOCK FALSE
