SPECIFICATION DQSpec
CONSTANTS
  main = main
  spd = spd
  spin = spin
  Task = {main, spd, spin}
  Main = main
  Spinner = spin
  Order <- MCOrder
  SendList = SendList
  ReceiveList = ReceiveList
  Queue = {SendList, ReceiveList}
  NoQueue = NoQueue
  CreateList = CreateList
  TicksPerMs = 2
  Priorities = {1}
  MainPriority = 1
  StartPriority = 1
  Restartable = {}
  Suspendable = {spd}
  Timeouts <- MCTimeouts
  Item = {a, b}
  NoItem = NoItem
  Sizes = {0, 1, 3}
SYMMETRY MCItems
INVARIANTS
  DQTypeOK
  NoneWaitsInVain
PROPERTIES
  ImplementsFifo
