\* Two workers, late and repeated deliveries, slow workers, one fault.
SPECIFICATION PipelineSafety
CONSTANTS
  u1 = u1  u2 = u2  t1 = t1  m1 = m1  m2 = m2  s1 = s1  usd = usd  c1 = c1  i1 = i1  i2 = i2
  paidEv = paidEv  paidAgainEv = paidAgainEv  riskyEv = riskyEv  clearEv = clearEv
  refundEv = refundEv  disputeEv = disputeEv  topupEv = topupEv  topupBackEv = topupBackEv
  forgedEv = forgedEv  ignoredEv = ignoredEv  garbledEv = garbledEv  paid2Ev = paid2Ev  elevatedEv = elevatedEv  shortEv = shortEv  None = None
  Users = {u1, u2}  Orders = {m1, t1}  Skills = {s1}  Currencies = {usd}
  Requests = {p1}  Keys = {}  ProviderIds = {i1, i2}  Fingerprints = {c1}
  Topups = {t1}  WalletOrders = {}
  Owner <- MCOwner  Amount <- MCAmount  Currency <- MCCurrency  Members <- MCMembers
  VerifiedUsers = {u1, u2}  HighValue = 9  MaxPurchases = 3
  Rows = {r1, r2, r3}  Workers = {v1, v2}  Events = {paidAgainEv, riskyEv, clearEv, topupEv, topupBackEv}  Event <- MCEvent
  MaxAttempts = 2  MaxAccountsPerFingerprint = 1  SlowWorkers = TRUE  MaxFaults = 1
SYMMETRY RowSymmetry
INVARIANT NoDeliveryVanishes
PROPERTY ImplementsSettlement
CHECK_DEADLOCK FALSE
