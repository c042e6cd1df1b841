SPECIFICATION SemSpec
CONSTANTS
  main = main
  spd = spd
  aux = aux
  spin = spin
  Task = {main, spd, aux, spin}
  Main = main
  Spinner = spin
  Order <- MCOrder
  Queue = {sem}
  NoQueue = NoQueue
  CreateList = CreateList
  TicksPerMs = 2
  Priorities = {1}
  MainPriority = 1
  StartPriority = 1
  Restartable = {}
  StartCount = 1
  MaxCount = 2
  Suspendable = {main, spd, aux}
  Timeouts <- MCTwo
PROPERTIES
  TimeoutReported
