\* Two owners and two epochs over a manual batch of two segments, each attempted up to twice, and two message ids.
SPECIFICATION Spec
CONSTANTS
  r1 = r1
  r2 = r2
  NoPlatformId = NoPlatformId
  NoPolicy = NoPolicy
  NoTrigger = NoTrigger
  NoZone = NoZone
  NoDigest = NoDigest
  NoBatch = NoBatch
  NoReply = NoReply
  Accounts = {a1}
  PlatformIds = {p1, p2}
  Policies <- NoPolicies
  DayLength = 2
  MaxScopes = 9
  Owners = {o1, o2}
  MaxEpoch = 2
  MaxTime = 1
  LeaseEnds = {1, 2}
  ManualTriggers = {m1}
  Events = {}
  Responses = {r2}
  SegmentCount <- TwoSegments
  MaxSegments = 2
  MaxAttempts = 2
  PendingLimit = 9
  Digests = {d1}
  Streams = {}
  MaxGeneration = 1
  LiveGenerations = {}
  MaxCheckpoint = 1
  Hashes = {h1}
  MaxPending = 9
  NoticeTimes = {}
  Slack = 0
  FreshWindow = 1
  RiskRecheck = 2
  PairWindow = 1
  RetainClaims = 2
  MaxClaims = 9
INVARIANTS SendingUnderCurrentFence BatchStatusAgrees
PROPERTIES EpochNamesOneOwner TerminalSegmentsFinal
