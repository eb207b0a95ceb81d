\* Composing agents from seven skills, and what their skills do to the shared store.
CONSTANTS
  Absent = Absent
  c1 = c1
  c2 = c2
  v1 = v1
  v2 = v2
  timer = timer
  list = list
  ToolRefs <- MCToolRefs
  EventNames <- MCEventNames
  FieldNames <- MCFieldNames
  Enums <- MCEnums
  U32Max = 10000000
  Manifests <- MCManifests
  Windows <- MCWindows
  Values <- MCValues
  MaxEnabled = 3
  MaxOps = 2
SPECIFICATION Spec
INVARIANTS OrderDoesNotMatter ReserveStaysFree SlotTypeSuitsAll OperationsCommute CanonicalIsFixpoint
CHECK_DEADLOCK FALSE
