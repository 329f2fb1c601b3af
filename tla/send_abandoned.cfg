\* An attempt that is dropped after its claim stays Sending.
SPECIFICATION LiveSpec
CONSTANTS
  r1 = r1
  r2 = r2
  NoPlatformId = NoPlatformId
  NoPolicy = NoPolicy
  NoTrigger = NoTrigger
  NoZone = NoZone
  NoDigest = NoDigest
  NoBatch = NoBatch
  NoReply = NoReply
  Accounts = {a1}
  PlatformIds = {p1}
  Policies <- NoPolicies
  DayLength = 2
  MaxScopes = 9
  Owners = {o1}
  MaxEpoch = 2
  MaxTime = 0
  LeaseEnds = {1}
  ManualTriggers = {m1}
  Events = {}
  Responses = {r1}
  SegmentCount <- OneSegment
  MaxSegments = 1
  MaxAttempts = 2
  PendingLimit = 9
  Digests = {d1}
  Streams = {}
  MaxGeneration = 1
  LiveGenerations = {}
  MaxCheckpoint = 1
  Hashes = {h1}
  MaxPending = 9
  NoticeTimes = {}
  Slack = 1
  FreshWindow = 1
  RiskRecheck = 2
  PairWindow = 1
  RetainClaims = 2
  MaxClaims = 9
  MaxWorks = 1
  Permissions = {"none", "all"}
INVARIANTS FailedAttemptIsUncertain
