SPECIFICATION MCSpec
CONSTANTS
  spd = spd
  Task = {main, spin, spd}
  Main = main
  Spinner = spin
  Queue = {}
  NoQueue = NoQueue
  CreateList = CreateList
  TicksPerMs = 2
  Priorities = {1, 2}
  MainPriority = 1
  Restartable = {spd}
  Suspendable = {main, spd}
  Timeouts <- MCTimeouts
INVARIANTS
  NeverReachThis
