SPECIFICATION Spec
CONSTANTS
  Reports = {r1}
  MaxForgotten = 1
  Processes = {"worker", "consumer"}
  MaxConnects = 2
  MaxLaunches = 3
  MaxCount = 2
  MaxInbox = 1
  MaxEvents = 2
INVARIANTS TypeOK PublishFindsStream AckedAreCounted
PROPERTIES StartSettles Drains
CHECK_DEADLOCK FALSE
