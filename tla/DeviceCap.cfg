\* Three fingerprints race for two slots, requests crash half-way, the reconciler
\* always runs and repairs what a crash leaked or it overwrote itself.
SPECIFICATION FairSpec
CONSTANTS
  None = None
  Fingerprints = {f1, f2, f3}  Requests = {q1, q2}  Savers = {v1}
  MaxActiveSlots = 2  MaxCalls = 3  MaxCrashes = 1
INVARIANT CapHolds
PROPERTY CounterHeals
CHECK_DEADLOCK FALSE
