\* A device-only and an emailed account, two commands at a time.
SPECIFICATION SessionSpec
CONSTANTS
  Families = {d1, e1}  DeviceFamilies = {d1}  Requests = {q1, q2}  MaxRows = 3  None = None
SYMMETRY CommandSymmetry
INVARIANTS ChainsAreSound LogoutIsFinal OneAccountInSession KeptTokenIsAccepted
PROPERTIES IdentityIsKept
