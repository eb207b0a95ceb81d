\* Turns of the one worker beside cancels, direct commands and timers.
SPECIFICATION TurnSpec
CONSTANTS
  Timers = {t1}
  MaxDuration = 1
  MaxItemSeq = 0
  ListRequests <- MCListRequests
  Sessions = {s1}
  Calls <- MCCalls
  MaxToolHops = 2
  MaxJobs = 2
  None = None
INVARIANTS NoRepeatedCall TurnIsBounded CancelStopsTools
PROPERTIES JobsEnd
CHECK_DEADLOCK FALSE
