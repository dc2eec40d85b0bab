SPECIFICATION FairSpec
CONSTANTS
  c1 = c1
  c2 = c2
  c3 = c3
  c4 = c4
  u1 = u1
  u2 = u2
  s1 = s1
  s2 = s2
  Calls = {c1, c2, c3, c4}
  Urls = {u1, u2}
  Shards = {s1, s2}
  UrlOf <- MCUrlOf
  ShardOf <- SharedShard
  MayFail = TRUE
  Collects = FALSE
INVARIANTS InProgressIsProcessed NoLostWakeup OneDownloadPerUrl
PROPERTIES ImplementsSingleFlight CallsReturnUnlessBlocked
CHECK_DEADLOCK FALSE
