\* Two replies in two conversations around a midnight, or three mutual-follow notices and no send, over a clock that goes both ways.
SPECIFICATION RepliesSpec
CONSTANTS
  r1 = r1
  r2 = r2
  NoPlatformId = NoPlatformId
  NoPolicy = NoPolicy
  NoTrigger = NoTrigger
  NoZone = NoZone
  NoDigest = NoDigest
  NoBatch = NoBatch
  NoReply = NoReply
  Accounts = {a1}
  PlatformIds = {p1}
  Policies <- ReplyPolicies
  DayLength = 2
  MaxScopes = 9
  Owners = {o1}
  MaxEpoch = 1
  MaxTime = 2
  LeaseEnds = {3}
  ManualTriggers = {}
  Events = {e1, e2, e3}
  Responses = {r1}
  SegmentCount <- OneSegment
  MaxSegments = 1
  MaxAttempts = 1
  PendingLimit = 9
  Digests = {}
  Streams = {http}
  MaxGeneration = 1
  LiveGenerations = {}
  MaxCheckpoint = 0
  Hashes = {h1}
  MaxPending = 9
  NoticeTimes = {1, 2, 3}
  Slack = 0
  FreshWindow = 1
  RiskRecheck = 2
  PairWindow = 1
  RetainClaims = 1
  MaxClaims = 9
SYMMETRY EventSymmetry
INVARIANTS TypeOK GuardLedger QuotaRespected PeerLimitRespected SpacingRespected PairedNoticeClaimedOnce
