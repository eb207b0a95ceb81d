\* One model whose publication changes, downloads that fail, stall, crash and are cancelled.
SPECIFICATION FairSpec
CONSTANTS
  m1 = m1  c1 = c1  bad = bad  None = None
  Models = {m1}  Contents = {c1, bad}  Trusted = {c1}
  SizeOf <- MCSizeOf  Requests <- MCRequests  Drivers = {d1, d2}
INVARIANTS BlocksInPlace OneDriver
PROPERTIES ImplementsModelStore DriverFinishes
