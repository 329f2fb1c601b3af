\* A receipt reconciled after a credential rotation within one lease.
SPECIFICATION Spec
CONSTANTS
  r1 = r1
  r2 = r2
  NoPlatformId = NoPlatformId
  NoPolicy = NoPolicy
  NoTrigger = NoTrigger
  NoZone = NoZone
  NoDigest = NoDigest
  NoBatch = NoBatch
  NoReply = NoReply
  Accounts = {a1}
  PlatformIds = {p1}
  Policies <- NoPolicies
  DayLength = 2
  MaxScopes = 9
  Owners = {o1}
  MaxEpoch = 1
  MaxTime = 2
  LeaseEnds = {3}
  ManualTriggers = {m1}
  Events = {}
  Responses = {r1}
  SegmentCount <- OneSegment
  MaxSegments = 1
  MaxAttempts = 1
  PendingLimit = 9
  Digests = {d1, d2}
  Streams = {}
  MaxGeneration = 1
  LiveGenerations = {}
  MaxCheckpoint = 1
  Hashes = {h1}
  MaxPending = 9
  NoticeTimes = {}
  Slack = 0
  FreshWindow = 1
  RiskRecheck = 3
  PairWindow = 1
  RetainClaims = 2
  MaxClaims = 9
PROPERTY SendableForThisCredential
