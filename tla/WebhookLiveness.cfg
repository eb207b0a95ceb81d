\* Every stored delivery reaches an end and stays there, when no live worker outlives the stale cutoff.
SPECIFICATION PipelineSpec
CONSTANTS
  u1 = u1  u2 = u2  t1 = t1  m1 = m1  m2 = m2  s1 = s1  usd = usd  c1 = c1  i1 = i1  i2 = i2
  paidEv = paidEv  paidAgainEv = paidAgainEv  riskyEv = riskyEv  clearEv = clearEv
  refundEv = refundEv  disputeEv = disputeEv  topupEv = topupEv  topupBackEv = topupBackEv
  forgedEv = forgedEv  ignoredEv = ignoredEv  garbledEv = garbledEv  paid2Ev = paid2Ev  elevatedEv = elevatedEv  shortEv = shortEv  None = None
  Users = {u1, u2}  Orders = {m1, m2}  Skills = {s1}  Currencies = {usd}
  Requests = {p1}  Keys = {}  ProviderIds = {i1, i2}  Fingerprints = {c1}
  Topups = {}  WalletOrders = {}
  Owner <- MCOwner  Amount <- MCAmount  Currency <- MCCurrency  Members <- MCMembers
  VerifiedUsers = {u1, u2}  HighValue = 9  MaxPurchases = 3
  Rows = {r1, r2}  Workers = {v1, v2}  Events = {paidEv, paid2Ev, elevatedEv, shortEv, clearEv, refundEv, disputeEv, forgedEv, garbledEv, ignoredEv}  Event <- MCEvent
  MaxAttempts = 2  MaxAccountsPerFingerprint = 1  SlowWorkers = FALSE  MaxFaults = 2
PROPERTY RowsFinish
CHECK_DEADLOCK FALSE
