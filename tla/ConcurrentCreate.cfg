SPECIFICATION LifecycleSpec
CONSTANTS
  Processes = {"api", "consumer"}
  MaxConnects = 2
  MaxLaunches = 2
PROPERTY ConcurrentCreateIsSafe
CHECK_DEADLOCK FALSE
