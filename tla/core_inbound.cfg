\* One event over two streams, two generations and two cursors, with two payloads it may have and two replies to it.
SPECIFICATION Spec
CONSTANTS
  r1 = r1
  r2 = r2
  NoPlatformId = NoPlatformId
  NoPolicy = NoPolicy
  NoTrigger = NoTrigger
  NoZone = NoZone
  NoDigest = NoDigest
  NoBatch = NoBatch
  NoReply = NoReply
  Accounts = {a1}
  PlatformIds = {p1}
  Policies <- PlainPolicies
  DayLength = 2
  MaxScopes = 9
  Owners = {o1}
  MaxEpoch = 1
  MaxTime = 0
  LeaseEnds = {1}
  ManualTriggers = {}
  Events = {e1}
  Responses = {r1, r2}
  SegmentCount <- TwoReplies
  MaxSegments = 1
  MaxAttempts = 1
  PendingLimit = 9
  Digests = {}
  Streams = {http, ws}
  MaxGeneration = 2
  LiveGenerations = {1, 2}
  MaxCheckpoint = 1
  Hashes = {h1, h2}
  MaxPending = 1
  NoticeTimes = {}
  Slack = 0
  FreshWindow = 1
  RiskRecheck = 2
  PairWindow = 1
  RetainClaims = 2
  MaxClaims = 9
INVARIANTS ReplyImpliesDecision
PROPERTIES CursorNeverRegresses ReceiptsKept EventDecidedOnce
CHECK_DEADLOCK FALSE
