SPECIFICATION MCSpec
CONSTANTS
  w1 = w1
  w2 = w2
  a1 = a1
  Workers = {w1, w2}
  Accts = {a1}
  Commands <- Published
  Deployments <- Fleets
  NoWorker = NoWorker
  NoStop = NoStop
  NoJob = NoJob
  NoBeat = NoBeat
  LeaseTTL = 2
  ClaimTTL = 1
  MaxClaims = 2
  Notices = {2}
  Quota = 2
  Confirm = 2
  Inboxes <- Traffic
  MaxSize = 3
  NoAccount = NoAccount
  Follows = {2}
  RawSize = 1
  ScanSize = 1
  Streams <- Feeds
  MaxStream = 3
  NoMessage = NoMessage
INVARIANTS ResultOfLatestClaim RepeatsOnlyUnrecorded CursorPassesOnlySeen HandedOnce
PROPERTIES DoubleHostingEnds PanelShowsTheHost ManagedAccountsAreHosted UnlicensedFleetStops StoredMessagesAreSettled EveryMessageIsSeen
CHECK_DEADLOCK FALSE
