\* Two device_ensure commands at once.
SPECIFICATION SessionSpec
CONSTANTS
  Families = {d1, d2}  DeviceFamilies = {d1, d2}  Requests = {q1, q2}  MaxRows = 2  None = None
PROPERTY NeverASecondAccount
