SPECIFICATION MCSpec
CONSTANTS
  main = main
  spd = spd
  aux = aux
  spin = spin
  sem = sem
  event = event
  pool = pool
  m1 = m1
  m2 = m2
  b1 = b1
  b2 = b2
  Task = {main, spd, aux, spin}
  Main = main
  Spinner = spin
  Order <- MCOrder
  Queue = {sem, event, pool, m1, m2}
  NoQueue = NoQueue
  CreateList = CreateList
  TicksPerMs = 2
  Priorities = {1, 2}
  MainPriority = 1
  StartPriority = 1
  Restartable = {}
  Suspendable = {}
  Timeouts <- MCTimeouts
  StartCount = 1
  MaxCount = 1
  Sem = sem
  Applications <- MCApplications
  Event = event
  Bit = {b1, b2}
  Conditions <- MCConditions
  EventSetups <- MCEvents
  Pool = pool
  blk1 = blk1
  blk2 = blk2
  Block = {blk1, blk2}
  NoBlock = NoBlock
  Handlers = Handlers
  Mutex = {m1, m2}
  NoTask = NoTask
  MutexOrder <- MCMutexOrder
  Setups <- MCSetups
SYMMETRY MCSymmetry
INVARIANTS
  ObjTypeOK
  ObjListsMatch
  NoEventMissed
  BlocksConserved
  NoBlockIdle
  OneOwner
  WaitedForIsLocked
  BlockedTasksWait
PROPERTIES
  InterruptsLost
