SPECIFICATION FairSpec
CONSTANTS
  Processes = {p1, p2}
  Logs = {a, b, x}
  Supported = {a, b}
  Times = {1}
  ReadTimes = {1, 2}
  BatchSize = 1
  MaxCrashes = 2
  MaxFailures = 1
INVARIANTS AtMostOnce BootCatchesUp
PROPERTIES ImplementsInbox EventuallyNotified
CHECK_DEADLOCK FALSE
