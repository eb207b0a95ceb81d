\* One account spending, topping up and being clawed back, two requests at a time.
SPECIFICATION Spec
CONSTANTS
  u1 = u1  t1 = t1  t2 = t2  w1 = w1  w2 = w2  m1 = m1  m2 = m2
  s1 = s1  s2 = s2  usd = usd  None = None
  Users = {u1}  Orders = {t1, t2, w1, w2, m1}  Skills = {s1, s2}
  Currencies = {usd}  Requests = {p1, p2}  Keys = {k1}
  ProviderIds = {}  Fingerprints = {}
  Topups = {t1, t2}  WalletOrders = {w1, w2}
  Owner <- OneOwner  Amount <- OneAmount  Currency <- OneCurrency  Members <- OneMembers
  VerifiedUsers = {u1}  HighValue = 3  MaxPurchases = 4
INVARIANTS DeliveryIsSafe WalletIsSound ClawbackIsWalk
PROPERTIES LossNeedsReversal ImplementsLifecycle
CHECK_DEADLOCK FALSE
