\* A token is presented again after it was used.
SPECIFICATION Spec
CONSTANTS
  Families = {f1}  Requests = {q1}  MaxRows = 2  None = None
PROPERTY ReuseRevokesFamily
CHECK_DEADLOCK FALSE
