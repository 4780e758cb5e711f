SPECIFICATION ServerFairSpec
CONSTANTS
  MaxMessages = 5
  Parts = 2
  Absent = Absent
  Ports <- MCPorts
  ThreadNumbers <- MCThreadNumbers
  Cores <- MCCores
  MaxTasks = 2
INVARIANTS IInv StuckIffFailed Serving
PROPERTIES ImplementsChannel SentGoesOut NoUseAfterDestruction EventuallyDestroyed
CHECK_DEADLOCK FALSE
