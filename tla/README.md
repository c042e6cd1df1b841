# Verification of the XMC1404 firmware

The firmware drives the instrument side of a BMW CAN bus from an Infineon XMC1404
(Cortex-M0, one core). It brings its own preemptive kernel, in `src/kern`, derived
from TNKernel; drivers for CAN, UART, GPIO and the clocks; CAN diagnostic framing;
an AUTOSAR CRC; and a multiprecision library. This directory holds TLA+ models of
it, the TLC configurations that check them, and TLAPS proofs. The kernel comes first,
because everything else runs on it and because its faults are the ones a test on the
bench does not reproduce.

## 1. The system

| Component | State | Operations | How it meets the others |
|---|---|---|---|
| Lists (`kern_queue.c`) | `next`, `prev` of every node | reset, add, remove | ready list, timeout list, wait queues, list of created tasks, mutex lists |
| Scheduler core (`kern_tasks.c`, 783 on) | ready list, `kern_next_task_to_run`, timeout list, TCB fields | make (non-)runnable, begin and end a wait, choose the next task | called by every kernel object with interrupts disabled |
| Task calls (`kern_tasks.c`) | TCBs, `kern_create_queue` | create, suspend, resume, sleep, wake up, activate, release, exit, terminate, delete, change priority; variants for interrupts | scheduler core |
| Tick (`kern.c`, 226 on) | `us_count` | counts time, ends timed waits, scans semaphore and event waiters, rotates | interrupts every task every 100 us |
| Context switch (`kern_arch.s`) | current task, saved contexts, request flag | `kern_switch_context`, `PendSV_Handler` | takes the choice the scheduler made earlier |
| Semaphores, data queues, events, memory pools, mutexes | counts, buffers, wait queues | create, delete, acquire or receive, signal or send, polling and interrupt variants | scheduler core, tick |
| Heap (`kern.c`, 586 on) | page bitmap, pointer table | malloc, free | framing; a semaphore, if `debug_ready`, which nothing sets |
| CAN (`can.c`) | message objects of the controller | configure, send, receive by polling | tasks; the controller sets and clears the same bits |
| Framing (`can_lib.c`) | position, window, sequence number | send and receive a KWP or BMW frame in pieces | CAN, heap, a peer |
| Application (`main.c`) | speed, direction, counter | three tasks: create the others, send the speed frame, spin | kernel, CAN, GPIO |
| CRC, bignum | none | pure functions | application |
| GPIO, UART, SCU, strings | registers | register access, formatting | application |

What is hard. A call disables interrupts for its work on the lists, enables them, and
only then compares the next task with its caller and switches: ticks and other
interrupts come in between. Which task runs is decided at one time and carried out at
another. Tasks leave waits for several reasons (a signal, a timeout, a release, their
termination), possibly while suspended. Lists are walked while their entries are
unlinked. TCBs are reused. Sections 3 and 5 say what is checked of this, and the
hazards in `PROJECT.json` say where each bites and what is still open.

What makes each part correct, in a sentence: the links implement sequences; lists and
state words agree in every TCB; the next task is ready and nothing else runs; every
timed wait ends on time, and no ready task starves; a semaphore's units are conserved
and none lies idle while a task waits; a data queue is a bounded FIFO without
simultaneous room and waiting sender, or data and waiting receiver; an event wakes
whom it satisfies; a memory pool's block has one owner; a mutex has one holder, and who
waits for it gets it; a heap block is disjoint from the others and in the heap; a long
message arrives as it was sent; a CAN message that is sent or received is whole, and
none is forgotten; a pin keeps the level its task gave it.

## 2. Modules

| Module | Models |
|---|---|
| `KernLinks` | the operations of `kern_queue.c` on a record of links |
| `KernLists` | the abstract specification: one sequence per head |
| `KernListLinks` | the links as a state machine, shown to implement `KernLists` |
| `KernSched` | the scheduler core, as operators on a record `s` of the memory it touches |
| `KernWalk` | the loop of `find_next_task_to_run`, to compare with the closed form of `KernSched` |
| `KernTasks` | task calls, tick, context switch: the core state machine |
| `KernStart` | over `KernTasks`: `Main` creates the other tasks in the order of `main_task_func` |
| `KernSem` | semaphores and the tick's scan of their waiters, over `KernStart` |
| `KernFifo` | the abstract specification of a data queue: a bounded FIFO channel with timeouts |
| `KernDQueue` | data queues over `KernStart`, shown to implement `KernFifo` |
| `KernCalls` | what the calls of the kernel objects share: the test of the ID before interrupts are disabled, the second half of a wait, the deletion loop |
| `KernEvent`, `KernFmem`, `KernMutex` | events, memory pools and mutexes, over `KernCalls` |
| `KernObjects` | semaphores, events, pools and mutexes together, with one tick for all |
| `KernPool` | how `kern_fmem_create` cuts an area into blocks |
| `KernHeap` | `malloc` and `free` |
| `CanLists` | the message lists of `can.c` and `can_lib.c`, over `KernListLinks` |
| `CanFrames` | the exchange of long messages with a control unit |
| `BitTiming` | the searches of `can0_set_speed` and `us0_set_baud_rate` |
| `Crc8`, `Bignum` | checksum and multiprecision arithmetic, as operators |
| `Library` | the parts above that run by themselves, one at a time |
| `Programs` | register accesses, from which driver programs are built, and the shape of a program |
| `Gpio`, `Scu`, `Can`, `Uart` | the functions of the drivers, as programs |
| `Board` | tasks that execute programs access by access, and the peripherals |
| `Firmware` | the tasks of `main.c`, other uses of the drivers, what these applications have in common |
| `KernSchedProofs` | lemmas about the operators of `KernSched`; the loop of `KernWalk` is its closed form |
| `KernTasksProofs` | the inductive invariant of `KernTasks` and its theorems |
| `KernDQueueProofs` | the inductive invariants of `KernDQueue`, its theorems and its refinement of `KernFifo` |
| `KernSemProofs` | the inductive invariant of `KernSem` and its theorems |
| `KernMutexProofs` | lemmas about the operators of `KernMutex` |
| `KernObjectsProofs` | the inductive invariant of `KernObjects` and its theorems |
| `LibraryProofs` | the invariants and theorems of `CanFrames`, `KernHeap`, `KernPool`, `KernListLinks` and `CanLists` |
| `FirmwareProofs` | the invariants and theorems of `Board`, for every application that keeps the assumptions of `Firmware` |
| `MC...` | constants for TLC |

`KernSched` has no variables. A kernel call is atomic (it runs with interrupts
disabled), and several kernel objects compose the same operations, so each operation is
an operator from record to record, and an action is their composition. `KernTasks`
holds the variables of the kernel:

| Variable | Code |
|---|---|
| `k` | ready list, timeout list, wait queues, `kern_next_task_to_run`, TCB fields |
| `created` | the links of `create_queue` and `kern_create_queue` |
| `id_task` | whether a TCB holds `KERN_ID_TASK` |
| `curr`, `cpu`, `sp` | `kern_curr_run_task`, where the processor is in it, the contexts saved in the TCBs |
| `pend`, `request` | PendSV pending, `kern_context_switch_request` |
| `us_count` | `us_count`, modulo `TicksPerMs` |

`created` is kept as links, because the code resets entries that are linked
(`task_set_init_state`) and what a walk meets then is not a sequence. The other lists
are sequences, which `KernListLinks` justifies: used as the kernel uses them there, the
links are sequences.

There is one action per call, named as in the code, one per interrupt call, and
`TestNext` (the comparison a call makes after it has enabled interrupts),
`SwitchContext` (`kern_switch_context`), `PendSV` and `SysTick`. `cpu` is `"run"` in the
task's own code, `"test"` before the comparison, `"yield"` before
`kern_switch_context`, and `"exited"` in the branch that ends
`kern_switch_context_exit`. A step of a task needs `~pend`: a pending PendSV, whose
priority is the lowest, comes before the next instruction of a task, but after any
interrupt.

`KernSem` and `KernDQueue` add the variables of their object: `count`; or `dque` (the
`_DQUE`), `elem` (`data_elem` of the TCBs), `at` (which call's second half a task still
has to run) and `received` (what the step stored at `data_ptr`). A call that waits is two
actions: the first half ends in the switch, and `AfterWait` is what the task does when it
runs again, with interrupts enabled. In between anything may happen to its TCB, which
is what the refinement to `KernFifo` is about.

In `KernObjects` the calls have their places in the code. `at[t]` tells which part of a
call task `t` is at: `"entered"`, after the magic number was tested and before interrupts
are disabled; `"waited"`, in the second half of a wait; or one of the three places of a
deletion, whose loop enables interrupts between testing the queue and removing its head.
`exists` is the magic number. `irq` is `"masked"` while a deletion has left interrupts
disabled, and `"restored"` when a later one has enabled them again. While they are disabled
no handler, tick or PendSV comes, and the running task goes on: `kern_switch_context`
comes back to it (`SwitchReturns`), so a call that waits returns at once, with the task in
state WAIT and in its wait queue. The kernel promises nothing then, and most properties of
the objects are stated as long as `Undisturbed`, `irq = "enabled"`; `InterruptsLost` says
which deletions end that. Events add `evf`, `register` (what `io_addr` points to when it is not
the event's own word) and `ewait`; pools `free_list`, `fblkcnt`, `elem` and, to state
properties, `owned`; mutexes `setup`, `mx` (holders and the four lists) and `own`, the
locks callers believe they have. The variable `app` is the application: which objects it
has, with which attributes, who calls, who is suspended, with which priorities and
timeouts. The object that is deleted is deleted by the task that created it.

`Board` runs programs. A driver's function is a sequence of register accesses
(`Programs`); `r |= v` is two, a load and a store of the whole register. `at[t]` is the call a
task is in and what is left of it, `acc` what it has loaded, `mem` the registers, each a
record of the fields its users tell apart. The scheduler may switch before any access, and
between any two the peripherals act: the list panel of the CAN module takes its time,
frames start, go out, fail or are heard, a node leaves the bus, a byte arrives.

`Library` has a variable per part, of which only those of the chosen `part` change.
`CanFrames` has the call with its locals, the control unit (`peer`), the mailbox (`box`)
and what was sent (`wire`). `KernHeap` keeps the marked pages, the table, and the blocks
that callers hold. The calculations have no steps: `input` ranges over the inputs and the
properties compare the operators with reference definitions.

`find_next_task_to_run` is a loop that may go round the ready ring many times.
`KernSched` gives its result in closed form (`Winner`, `SkipAfter`), which can be proved
about; `WalkIsTheLoop` compares it with the loop in every state of a run, and
`WalkAlwaysTheLoop` proves that they agree.

### Abstractions

- An error return that changes nothing is a stuttering step and has no action.
- The two stores of `kern_switch_context` are one step. An interrupt between them makes
  no difference a tick or an interrupt after `TestNext` does not make.
- Time is the tick. `TicksPerMs` is 10 in the code, 2 in the runs, any number from 2 on
  in the proofs.
- The test of `id_task` is part of the call's step. In the code it comes just before
  interrupts are disabled, so a deletion by a third task could fall between the two. For
  the other kernel objects the two are separate steps (`KernCalls`).
- The mutex part of `task_wait_complete` is in `KernMutex`; those of `kern_task_exit` and
  `kern_task_terminate` are left out: no task ends in the compositions with mutexes.
- Unlocking a mutex that was deleted meanwhile, or deleting one that its holder has
  unlocked but that still names it (finding `ceiling`), unlinks an entry that is in no
  list. What that writes depends on stale links; `InLists` excludes it.
- `do_unlock_mutex` walks an empty `kern_blocked_tasks_list`. What it then reads depends
  on the layout of the memory; `KernMutex` says what that is in the map file of the build.
- An application takes mutexes in one order and unlocks what it has locked.
- A wait pattern is a set of bits; a block, a datum and a CAN message are values. The
  bytes of the speed frame are one word.
- Heap addresses are page numbers. The bits a search reads behind the bitmap are those
  of the first entry's size, for the sizes of `Requests`. `PastEnd` FALSE leaves out the
  requests that only such a search meets (finding `heap`).
- A long message is its length; its pieces are numbered. The control unit follows the
  protocol but may fall silent at any time, and a frame that comes before the last one was
  taken replaces it.
- The bits of a digit in `Bignum` are a constant; all algorithms are written in terms of
  the base.
- In `Board` the waits of the drivers for a bit with a timeout (`Poll`) may end at once,
  and those without (`Await`) wait. Writes to registers behind a closed gate or without
  CCE are lost where the hardware loses them. The controller stores a message whenever one
  comes, also while `can0_recv` reads the one before, and sets MSGLST if that was not taken.
- Registers of a port that one task alone uses (`Plan.own`) are updated in one step.
- `kern_enable_switch_context` is 1: nothing writes another value.
- `Spinner` is `odo_task_func`, which loops without a call (`src/main.c:279`). The kernel
  needs it or its like: with an empty ready list `find_next_task_to_run` leaves
  `kern_next_task_to_run` as it was. `MayStop` says that tasks stop only while `Spinner`
  is ready, and that it never stops. The application satisfies it.
- `Restartable` and `Suspendable` are the tasks that may end and start over, and be
  suspended. They bound the runs; the proofs hold for any such sets.
- `kern_task_exit(KERN_EXIT_AND_DELETE_TASK)` by a task with a counted activation makes the
  task ready and takes its ID (finding `deleted`). What follows is modelled, except one
  thing: a TCB that is still scheduled is not created anew (`kern_task_create`), which would
  reset links that are in use. That is the one contract of the application that invariants
  and theorems of `KernTasks` rest on.
- A task that waits does not begin a second wait (`MayWait`). It could while interrupts are
  disabled; it would be taken out of a wait queue as if that were the ready list, and the
  walk for the next task would count up words behind the object of that queue.
- Priorities are 1 to 30, as `kern_task_create` and `kern_task_change_priority` demand of
  tasks that are not the system's, and that of `Main` may be 31, as in `main.c`. With
  mutexes it may not (`MutexAssumption`): `do_unlock_mutex` would not find a waiter with
  priority 31 (`src/kern/kern_mutex.c:395`).
- The sums of `kern_fmem_create` do not wrap: 16 KB of RAM at 0x20000000 are far from 2^32.
- In the compositions with kernel objects tasks are created in one order and never end
  (`KernStart`), and `kern_task_release_wait` is left out.
- A datum that has been taken leaves `NoItem` behind in the ring and in `data_elem`,
  where the code leaves the old pointer. Using it twice would show as a violation of
  `DQTypeOK` or `ImplementsFifo`. For the same reason `received` stays `NoItem` when a
  receive times out, where the code stores a stale pointer along with `ERR_TIMEOUT`.
- The repository installs no interrupt handler besides SysTick's. The calls for handlers
  are part of the kernel's interface and are modelled as such; the handler is assumed to
  end with `kern_int_exit`.

## 3. Runs

| Run | Module | What it shows |
|---|---|---|
| `tasks` | `MCKernTasks` | tasks begin, end, are deleted, suspended, sleep and wake in every order, in two applications: one with a single priority and counted activations and wakeups, one with timeouts and different weights; safety and liveness |
| `units` | `MCKernSem` | a semaphore with 2 units, 1 at the start; 4 tasks, 3 of which use it and may be suspended |
| `data` | `MCKernDQueue` | a data queue of 0, 1 or 3 entries; two tasks, one of which may be suspended, and handlers send and receive, with and without timeouts |
| `objects` | `MCKernObjects` | eight applications with an event, a pool, a semaphore, one mutex or two, created, used by tasks and handlers, deleted while tasks wait, and used on behind a deletion that leaves interrupts disabled |
| `board` | `MCFirmware` | the application, a gateway, a console in two set-ups, and tasks that switch pins of each of the five ports |
| `library` | `MCLibrary` | lists, heap, exchange of long messages, and the calculations |
| `exit` | `MCKernTasks` | finding: "Never reach this" is reached |
| `created` | `MCKernTasks` | finding: the list of all created tasks is not |
| `deleted` | `MCKernTasks` | finding: a deleted task goes on being scheduled |
| `timeout` | `MCKernSem` | finding: a wait that times out reports success |
| `ceiling` | `MCKernObjects` | finding: a task waits for a mutex nobody holds |
| `heap` | `MCLibrary` | finding: a block lies behind the heap |

### Properties

- `ImplementsLists` (library): the links implement sequences, though entries come with
  links left from other lists, and are unlinked twice (`kern_sem_signal`, then
  `task_wait_complete`).
- `WalksAgree` (library): the emptiness tests, membership and disposal of all three
  copies of the list code say what the sequences say, and every walk comes back to the head. Of the sizes it asks only that they
  are zero together and not too large: `can_queue_size` counts one less than there are
  (`src/can.c:79`).
- `ListsMatchStates` (tasks), `ObjListsMatch` (objects): a task is once in the ready list if it is
  RUNNABLE and else not; likewise for the timeout list and the wait queues; a task that
  does not wait has no reason, time or queue left.
- `NextIsReady`, `RunsOnlyRunnable` (tasks): what is switched to, and what executes.
- `GhostsExitCounted` (tasks): a deleted TCB that is still scheduled comes from an exit that
  deletes its task with an activation counted, and from no other step. `DeletedIsDormant`,
  that there is none at all, is what the finding `deleted` refutes.
- `SuspensionHolds` (tasks): a suspension ends by resume or termination only.
- `TickEndsExpiredWaits`, `TimedWaitEnds` (tasks): which waits a tick ends, that it counts
  every other one down by one and once a millisecond, and that they end. (For sleeping tasks: see the finding for semaphore waiters.)
- `TurnsGoRound` (tasks): round robin starves nobody while the ready tasks only compute.
- `WalkIsTheLoop` (tasks): the closed form is the loop: the same task and the same skip
  counts.
- `NoUnitIdle`, `UnitsConserved`, `SignalsReachWaiters` (units).
- `ImplementsFifo` (data): data arrive once and in the order in which their senders
  came, waiting senders included; a send that reports success has had its datum accepted;
  one that reports a timeout has taken it back; a receive that reports success returns the
  datum it was handed, though timeouts, suspensions and other calls came before it ran
  again. The channel holds one datum less than `num_entries`, not `num_entries`, as the
  comment at `src/kern/kern_queue.c:177` ("Capacity of data queue") might suggest.
- `NoneWaitsInVain` (data): no sender waits while there is room, no receiver while there
  is a datum, and never both.
- `NoEventMissed` (objects): nobody waits for an event whose word satisfies the wait.
- `BlocksConserved`, `NoBlockIdle` (objects): every block of a pool is free, with one
  caller, or on its way to one; none is free while a task waits.
- `OneOwner`, `WaitedForIsLocked`, `BlockedTasksWait` (objects): what callers believe to
  have locked, what the mutexes say, and the lists of locked mutexes and blocked tasks agree,
  through hand-over, timeouts, suspension and deletion.
- `InterruptsLost` (objects): interrupts stay disabled behind the deletion of a semaphore or
  of a pool whose first waiter is suspended while another waits behind it, and behind no
  other, whatever ticks and signals come between its steps; and only a deletion enables them
  again. The properties of events, pools and mutexes are stated until then.
- `LevelsKept` (board): a pin has the level its task gave it last. Not on port 2, whose
  `gpio_2_set_pin` rewrites the port (`src/gpio.c:250`).
- `ClocksFirst`, `OnBusConfigured` (board): no register is touched before its clock runs, and
  a node on the bus has its timing and its pin.
- `MessagesWhole`, `NoFrameForgotten`, `FramesGoOn` (board): no frame that goes out mixes two
  messages, and `can0_recv` returns words of two only where MSGLST tells, at which it never
  looks;
  after a send its message is out, going out or requested, also when the call returns 0
  because of an earlier request; and the speed goes out again after every error.
- `HeapConsistent` (library): blocks are disjoint, marked and in the table.
- `FrameComplete` (library): a function that reports success has received the whole
  message, or sent all its pieces in order.
- `TimingFits`, `PoolsFit`, `Crc8Agrees`, `BignumAgrees` (library): the calculations
  against what they are for.
- `TypeOK`, `SemTypeOK`, `DQTypeOK`, `ObjTypeOK`: ranges; `us_count` starts over, the count stays within its
  maximum.

### Bounds

Three tasks are what the program creates, and enough for one task to act on a second
while a third is chosen; `units` has a fourth so that two can queue behind a suspended
one while the spinning task stays ready. Two ticks to a millisecond tell a tick that
counts from one that does not. A timeout of one millisecond expires during every
interleaving of a call; the proofs do not bound it. Weights
1 and 2 give walks of one and of two laps, and skip counts left over from a higher
weight. The two applications of `tasks` split the space between them: tasks with counts, and
tasks with timeouts. In both a task ends in every way it can and is started again. Five nodes in `library` give heads, middles and tails, and removed entries
that point at heads, at entries and at themselves. Semaphore waits in `units` are
infinite: a timed one may report success without a unit (finding `timeout`), which
would break `UnitsConserved` for that reason alone. In `data`, 0, 1 and 3 entries give a
queue without storage, one whose ring holds nothing, and one that wraps around with two
data; two tasks and a handler give waiting senders and receivers, one or two of them.

`objects` has one application per object and set of attributes, because objects of
different kinds meet only in the tick and in the tasks that wait for them; two callers
(the one that deletes among them), a third with the semaphore so that two queue behind one
another, and a task with a lower priority for the mutexes, so that it inherits and is
blocked by a ceiling. One application has a semaphore and a pool: the pool comes into play
only when the deletion of the semaphore has left interrupts disabled, and its deletion may
enable them again (`PoolBehindSem`). Two bits tell AND from OR, two blocks a pool that is empty from one
that is not.

`board` has two tasks at work in every application, the smallest number that can disturb
each other; two words that the bus or a task may send; pins 4, 5 and 6, which share a
register; and one of the pins that `main.c` enables. The heap of `library` has 24 pages in 3
bytes and requests of one page and of a whole byte's, so that blocks cross bytes and
the table fills up; `MaxLost` 0 excludes calls after pages were lost. The message lengths
take one frame, two, three, more than a block of 15 and more than the wrap-around of the
sequence number; one pending announcement and one replaced frame. Digits of 2 bits and
numbers of up to 3 digits meet every correction of a quotient digit.

### Fairness

`FairSpec` assumes that the processor goes on (`TestNext`, `SwitchContext`, `PendSV`)
and that the SysTick timer, which is periodic hardware, goes on ticking. No task is
assumed to call anything. `TurnsGoRound` assumes moreover that eventually only ticks
change the scheduler's record and that a tick's handler is shorter than the time to the
next, so that PendSV gets its turn: a call that changes a priority, or a tick that comes
before a pending switch, replaces the chosen task after its skip count was reset, and
repeated for ever that starves it. `SignalsReachWaiters` assumes no fairness; it is
conditional on signals that keep coming.

`BoardSpec` assumes that the processor goes on executing tasks (weak fairness of all tasks
together; which one is the scheduler's choice) and that the list panel finishes, both hardware
that does not stop. Strong fairness of starting and of finishing a frame says that a
request that stands again and again is taken up, between two calls of the speed task,
which sleeps for 50 ticks, and that not every frame fails.

### Findings

1. `exit`. `kern_task_exit` pends PendSV without a request, so no switch happens and the
   processor runs the branch behind `src/kern/kern_arch.s:95` "Never reach this" until a
   tick. That switch saves the branch as the task's context: activated again, the task
   resumes there instead of at its function.
2. `created`. `task_set_init_state` resets `create_queue` of a task that is linked
   (`src/kern/kern_tasks.c:1098`). `kern_create_queue`, "all created tasks"
   (`src/kern/kern.c:35`), is then a list from which a walk does not return.
3. `deleted`. A task that exits with `KERN_EXIT_AND_DELETE_TASK` while an activation of it is
   counted is made ready again (`src/kern/kern_tasks.c:612` "Cannot exit") and then deleted
   (`:618`). "Cannot delete not-terminated task" (`src/kern/kern_tasks.c:720`) says the
   deletion by another task, which looks at the state. The TCB without ID stays in the ready
   list and runs; `kern_task_create` takes it for unused and resets its links.
4. `timeout`. The tick scans semaphore waiters before the timeout list, and the scan's
   `task_wait_complete` leaves `ERR_NO_ERR`. `kern_sem_acquire` returns success with no
   unit; `src/kern/kern_types.h:109` promises `ERR_TIMEOUT`.
5. `ceiling`. A task locks the ceiling mutexes m1 and m2, and one with a lower priority
   waits for m1. When m1 is unlocked, the waiter may not have it yet, because of m2's
   ceiling; it joins `kern_blocked_tasks_list`, and m1 keeps its former holder
   (`src/kern/kern_mutex.c:433`). When m2 is unlocked, "try to lock another mutexes for
   tasks,that are now in block_queue" (`src/kern/kern_mutex.c:469`) finds m1 held and gives
   up. The task waits on, and m1 is lost. Mutexes unlocked in the reverse order are safe.
6. `heap`. With the last byte of the bitmap not full, `get_mem_window_size` reads on into the
   pointer table (`src/kern/kern.c:643`), and `malloc` returns a block that ends behind
   the heap, of which `src/kern/kern_types.h:16` says "8KB dinamiskai dalinama atmintis".

## 4. Proofs

A theorem holds for every value of the constants that meets the named assumptions of the
modules: any tasks, priorities, timeouts, weights, data, blocks, bits, mutexes and
applications. The scans and the walk are recursive functions or closed forms; there is no
RECURSIVE operator in the modules of the proofs. Per module there is one inductive
invariant, one lemma per action, a lemma that puts the actions together, and the
induction.

### The core: `KernTasksProofs`, over `KernSchedProofs`

Of `Spec`, assuming `TasksAssumption` and `NoQueueAssumption`:

| Theorem | States |
|---|---|
| `TypeCorrect` | `TypeOK` always |
| `ListsAlwaysMatch` | `ListsMatchStates` always |
| `NextAlwaysReady` | `NextIsReady` always |
| `RunsOnlyReady` | `RunsOnlyRunnable` always |
| `OnlyExitsMakeGhosts` | `GhostsExitCounted`, of every step |
| `SuspensionsHold` | `SuspensionHolds`, of every step |
| `TicksEndExpiredWaits` | `TickEndsExpiredWaits`, of every step |
| `WalkAlwaysTheLoop` | `WalkIsTheLoop` always |

All follow from one inductive invariant `IInv`, the conjunction of

- `VariablesOK`: types of the variables besides the record;
- `KernelOK`: the record is typed, its lists match its states, and the next task is ready;
- `UncreatedRest`: a task that cannot end and has not been created is dormant. (Of the others
  that is the contract of `kern_task_create`, which appends the TCB to the ready list without
  a look.) In the compositions nobody ends, so a task in a wait queue exists;
- `RunsReady`: unless a switch is both pending and requested, the processor in `"run"` is
  in a ready task. It is stronger than `RunsOnlyRunnable`, which says nothing while PendSV
  is pending: a PendSV without request returns to the same task.

None of the parts is inductive by itself. A call takes its caller off the ready list, so
it needs `RunsReady`; removing the caller leaves a next task only because another is
ready, which is `MayStop`; and `RunsReady` after `PendSV` or `TestNext` is `NextIsReady`
before it. `KernSchedProofs` states what each operator of `KernSched` does to a record in
order: where a task ends up, that duplicates do not arise, that the walk ends at a ready
task and that a scan of any length keeps all of it.

That the walk is the loop is an induction on its visits (`LoopIsTheWalk`). The v-th visit
is the o-th of a lap that has l whole laps behind it; until the loop has found its task it
has counted l or l + 1 into the skip count of each task, according to its place, which is
what `SkipAfter` says. A task is found on the first visit at which its count reaches its
weight, and `Winner` is the task for which that visit comes first.

### Data queues: `KernDQueueProofs`

Of `DQSpec`, for all data and every set of `num_entries`, assuming `StartAssumption` and
`DQueueAssumption` as well:

| Theorem | States |
|---|---|
| `DQTypeCorrect` | `DQTypeOK` always: the counters stay inside the ring |
| `NobodyEverWaitsInVain` | `NoneWaitsInVain` always |
| `QueueImplementsFifo` | `ImplementsFifo`: the queue is the channel of `KernFifo` |

The invariant `DQInv` is `IInv`, the types of the object (`ObjectOK`) and
`NoneWaitsInVain`. `IInv` is needed because a call acts on the first task of a wait queue,
which must exist and wait. Three facts carry the argument: only `task_curr_to_wait_action`
puts a task into a wait queue (`NobodyJoins` holds of every other step, ticks that end any
number of waits included); a sender and a receiver wait only in the states in which the
test of the call has just failed; and a receive that relieves a waiting sender leaves the
ring full again wherever its counters are (`RefillFills`), so that the senders behind it
still wait for a reason. `NobodyEnds` says that tasks do not exit here.

The refinement needs more, `FifoInv`, which adds `CallersOK`: a task that waits is in the
queue of the call it has made, one whose receive is over with `ERR_NO_ERR` has a datum in
`data_elem`, and only a task that exists is in a call. Without it the return codes and the
data in the TCBs could be those of an earlier wait, and the channel's `given` and `failed`
would say so. The argument has four parts:

- The ring as a sequence. `Channel` is what the ring holds, from `tail_cnt` to
  `header_cnt`, followed by what the waiting senders offer. A write appends
  (`StoringOffers`), a read takes the first (`ReadingTakes`), a read that is followed by
  the write of the first sender's datum takes the first and accepts one more
  (`RefillingTakes`), wherever the counters are in the ring; without storage the sender's
  own datum is taken (`DirectTakes`), and a sender that starts to wait offers its datum
  behind all others (`WaitingOffers`).
- The order of those who wait. A tick may end the waits of any number of tasks, in any
  places of the two queues; those who stay do not overtake each other (`KeepsOrder`, an
  induction along the timeout list). That is all `Leave`, the channel's word for it,
  demands (`WaitersLeave`), and what the leavers offered leaves the channel with them
  (`OfferersLeave`).
- The callers. A step leaves what the channel shows of a task alone (`SameCaller`) unless
  it begins, ends or returns from that task's wait.
- Each action of `DQNext` is then a step of the channel or leaves it as it is.

### Semaphores: `KernSemProofs`

Of `SemSpec`, assuming `StartAssumption` and `SemAssumption`:

| Theorem | States |
|---|---|
| `SemTypeCorrect`, `SemListsMatch` | `SemTypeOK`, `ListsMatchStates` always |
| `NoUnitEverIdle` | `NoUnitIdle` always: no unit is left while a task waits |
| `UnitsNeverLost` | `OnlyTicksInvent`: every step keeps the account of units and return codes, except that a tick can raise it |
| `UnitsAlwaysConserved` | with infinite waits only, `UnitsConserved` always |

The invariant adds to `IInv` the types of the count, `NoUnitIdle` and `SemWaiters`: who
waits in the queue waits for the semaphore and for nothing else. The tick's scan goes
along the queue while it ends waits; what holds of it up to the i-th waiter is an
induction on the natural numbers. Conservation splits in two because the code does:
`UnitsNeverLost` holds for all timeouts, and the other half, that a tick does not raise the
account by reporting a success without a unit, is false as soon as a wait can time out (finding `timeout`). Its
hypothesis `Timeouts = {Infinite}` is that of the run `units`.

### Events, pools and mutexes: `KernObjectsProofs`, over `KernMutexProofs`

Of `ObjSpec`, with all objects, deletion and the common tick, assuming
`ObjectsAssumption`, `EventAssumption`, `FmemAssumption`, `MutexAssumption` and
`SemAssumption` besides those of the core:

| Theorem | States |
|---|---|
| `EventsAndMutexesEnable` | `Undisturbed` always, in applications without semaphore and pool |
| `ObjectsTypeCorrect`, `ObjectsListsMatch` | `Undisturbed => ObjTypeOK`, `ObjListsMatch` always |
| `EventsNeverMissed` | `NoEventMissed` always |
| `BlocksNeverIdle`, `BlocksAlwaysConserved` | `NoBlockIdle`, `BlocksConserved` always |
| `AlwaysOneOwner`, `WaitersHaveHolders` | `OneOwner`, `WaitedForIsLocked` always |
| `BlockedListTrue` | `BlockedTasksWait` always |

These are all the invariants of the run `objects`. Each has the hypothesis `Undisturbed`,
until a deletion of a semaphore or a pool leaves interrupts disabled, which
`EventsAndMutexesEnable` discharges for all other applications. The theorem is therefore
`[](Undisturbed => ObjInv)`: interrupts once lost are never `"enabled"` again, only
`"restored"`, and a step that does not lose them keeps `ObjInv`. `ObjInv` is the conjunction of

- `BaseOK` is `IInv` and which call a waiting task is in: a task that waits in an object's
  queue is at the second half of a call of that very object, so what it is handed reaches
  the right call;
- `EventOK`: nobody waits whose condition holds;
- `PoolOK`: every block is in one of three places (`OnePlace`), the free list without
  duplicates, one owner, or one task it was handed to;
- `MutexOK`: a task has a mutex in its list if and only if it owns it or has just been
  handed it (`LockOK`); the lists of held, locked and blocked agree (`MutexesOK`);
- `AppOK`: the types of the application and of the semaphore's count.

Each object's part is disturbed by its own calls, by the calls of every other object, by
the tick and by deletions, which would make the proof the product of them. It is the sum
instead: every step `Keeps(Q)`, where `Q` are the objects that it concerns. It begins,
ends or takes up waits for objects in `Q` only, and takes back no deletion. The frames
(`EventFrame`, `PoolFrame`, `MutexFrame`) say that a step that does not concern an object
keeps its part of the invariant. For the object that is concerned the argument is its own.
For an event, a scan leaves nobody behind whose condition holds, and nobody joins whose
condition holds. For a pool, each of the steps moves one block from one place to another.
For a mutex, an unlock is a chain of operators, in which hand-over raises and lowers
priorities along a chain of holders and ends waits on the way; `Orderly` says what each
leaves in order, and `Does` that whoever leaves a wait on the way is given the mutex, or
told why not. A tick is the scans of semaphore, event and timeout list in the code's order
(`Scans`); the first two end waits for those objects only, and the third ends waits with
`TIMEOUT`.

A mutex that is deleted while it is locked, and one with a ceiling that keeps the name of
its former holder (finding `ceiling`), are the reason why `LockOK` is stated of mutexes
that are not deleted and why `WaitedForIsLocked` is stated of those without a ceiling.

### The library: `LibraryProofs`

| Theorem | States | For |
|---|---|---|
| `MessagesComplete` | `FrameComplete` always: of transfers that report success | messages of every length, a control unit that may fall silent or repeat itself |
| `LinksCircle` | the links of a list lead through its entries and back, in both directions, and no entry is in two lists | any entries and heads |
| `LinksImplementLists` | `ImplementsLists`, of the operations of `kern_queue.c` | any entries and heads |
| `CopiesImplementLists` | `ImplementsLists`, of the three copies of the list code mixed | any entries and heads |
| `WalksAlwaysAgree` | `WalksAgree` always | any entries and heads |
| `HeapStaysConsistent` | `HeapConsistent` always | heaps of any size, requests of up to nine pages |
| `PoolsAlwaysFit` | `PoolsFit` always | any area below the wrap-around, any size and number of blocks |

The specifications of the parts (`FramesSpec`, `ListsSpec`, `HeapSpec`, `PoolSpec`) are
defined in that module, since `Library`, whose steps they are, reaches RECURSIVE operators by
way of other parts.

*Messages.* `FramesInv` relates the position of the call to that of the control unit: it
counts pieces, not sequence numbers, which wrap around.

*Lists.* `LinksInv` says that the links show a sequence per head (`Shows`), and each
operation on links shows what the operation on sequences does. The copies are the kernel's
operations. For the walks, `WalkMeets`: a walk that begins at the k-th entry is at the
(k + i)-th after i steps, and at the head from there on. So it has met the entries behind the
k-th and no others. The count of the sizes begins with the second entry and is one short of
the length from two entries on. A disposal removes the tail of a list that is still shown, so
that the list is shorter by one each round.

*Heap.* `HeapInv`: the entries of the table that are in use and the blocks that callers
hold are the same, no two of them name the same address, the pages of a block are marked, and
no page is in two blocks. `malloc` finds a window of unmarked pages, which is apart from all
blocks for that reason; `free` unmarks the pages of one entry, which are those of the block it
was given because entries are unique. The theorem assumes `PastEnd = FALSE`. It is false
otherwise: a search that reads on behind the bitmap marks pages that are not there and
overwrites the table, which is finding `heap`. Nine pages is the bound of `HeapAssumption`: with
larger blocks such a search would read on behind the first size, which is not modelled.

*Pools.* Sizes are rounded up to words (`AlignUp`), and some number of blocks fits into
the area while the next does not.

### The board: `FirmwareProofs`

Of `BoardSpec`, for every set of applications with any tasks, calls and pins that keep
`ProgramsAssumption` and the assumption named:

| Theorem | States | Assuming |
|---|---|---|
| `LevelsAlwaysKept` | `LevelsKept` always | `PinsAssumption`: a task sets levels with `gpio_N_set_pin`, and no other task's call touches the pin's bits, unless it is a call of `gpio.c` for another pin of the port |
| `ClocksAlwaysFirst` | `ClocksFirst` always | `ClocksAssumption`: only one clock is needed, and the first call of the main task is one of the four init functions that open it; or none is |
| `OnBusAlwaysConfigured` | `OnBusConfigured` always | `BusAssumption`: a node whose control register is used at all is initialised by the first call of the main task, and no other call writes its timing or its pins |
| `NoFrameEverForgotten` | `NoFrameForgotten` always | `SetUpAssumption`: one task sends, from one mailbox on one node, and the main task creates it; from then on no other task writes to that mailbox, and nobody requests another one, withdraws a request or moves the mailbox to another node. The mailbox is configured by one call, of the sender before its first send or of the main task before it creates the sender; what runs after that leaves its identifier and direction as they are, and only send calls write its words, its length or a request. Where nothing is sent, nothing is requested |
| `MessagesAlwaysWhole` | `MessagesWhole` always | `SetUpAssumption`, and `ReceivesAssumption`: one task receives, from one mailbox whose words no access writes, which nobody requests and whose MSGLST nobody clears, and only its receive call marks the message as taken. Or nothing is received |

TLC evaluates the assumptions for the nine applications of the run `board`, the one of
`main.c` among them. The invariants are

- `Activities`: what a task has left to do is made of accesses of the call that it is in,
  and a load in it is followed by its store (`Paired`). So what a task stores is what it has
  loaded from that register, with some fields replaced. A lemma per shape of access
  (`Executes`) says what a step of a task does to memory, and the rest of the proofs argues
  about these effects only, not about programs;
- `PinsInv`: a pin has its level from the access on that sets it. Between a load
  and a store of another task anything may happen to the port, but the ports 0, 1, 3 and 4
  set their pins by a write to OMR, which names the bits it changes; the loads and stores are
  those of IOCR. That is why port 2, whose `gpio_2_set_pin` stores the whole of OUT, is not
  promised anything;
- `ClocksInv`: until the gate is open, the main task is in its first call at the access
  `k` of the opening sequence, which is behind the bit protection, no other task lives, no
  register behind the clock was written, no frame is under way and the peripherals are
  idle. Afterwards the gate stays open, since no call of the application closes it
  (`NeedsOnly`) and writes to CGATCLR0 open gates only;
- `BusInv`: a node is out of operation as long as nobody uses it, or as long as the main
  task, which is alone, is in the function that initialises it. `InitsOf` gives the function
  its shape: any number of accesses that leave the nodes alone, and behind them 19 to the
  registers of its node (`Settles`). `Facts` says for each of the 19 what is known before it:
  INIT is set, also in the value between a load and its store; CCE is set where a pin or the
  timing is about to be written, though the nested calls close it in between; from the ninth
  on the pin is right, from the sixteenth on the timing. Peripherals set INIT but never clear
  it, and change nothing else of these registers (`PeripheralsKeepNodes`). Only then other
  calls run, `can0_reset_init_bit` and the recovery of `speed_task_func` among them: they
  clear INIT when both are in place;
- `WholeInv`, of which both theorems about frames follow. For the sender it says:
  - while it is in a send function, it is at one of ten places in it (`Place`), and `Way` says
    what is known there: the mailbox is not valid from the first access to the one that makes
    it valid again; from then on its word is that of the call, which the controller does not
    write over, because the direction is that of a transmitter; and a frame in flight that is
    not of this message meets RTSEL = 0 or NEWDAT = 1 when it is out, so that the controller
    does not take the request back for it (`SentAndTraffic`). At the end the mailbox is
    requested or the message was the last one that went out; so the case in which the function
    finds an older request and adds none is covered;
  - `Traffic`: only this mailbox is ever requested, it is on the list of its node only, and a
    frame in flight is its own and still requested;
  - `InCalls` keeps the other tasks away: the sender lives only when the main task is behind
    the call that created it, and does not come back to what it configured before;
  - `Prepared`: within the configuring call the mailbox has its identifier and its direction
    from the access on that writes them, behind that call it keeps them, and a mailbox that is
    requested has them;
  - `Filling`: within a send call the length and the second word are those of the call from
    their accesses on. `Pending`: between the calls a requested mailbox has the words of one of
    the send calls, all three of them. A frame is fetched from a mailbox that is valid and
    requested, so never while the function is between the access that makes it invalid and the
    one that makes it valid again (`StartedWhole`), and `Frames` keeps what was fetched.

  For the receiver, `Idle` says that both words of its mailbox are equal, as a peer sends
  them, and that it is never requested. `Took` says that there is new data until the receiver
  itself clears it, and that the first word read is the one in the mailbox or MSGLST is set: a
  message stored meanwhile finds NEWDAT and sets it, since the function reads both words
  before it clears NEWDAT, and nobody clears MSGLST.

### Only model-checked

- Liveness and ENABLED, which the prover does not handle: `TimedWaitEnds`, `TurnsGoRound`,
  `SignalsReachWaiters`, `FramesGoOn`.
- `BignumAgrees`: its algorithms are RECURSIVE operators, and what they compute for numbers
  of every length is an induction over data. `Crc8Agrees` uses Bitwise. `TimingFits` is about
  quotients of variables, arithmetic which the SMT solver does not do.

## 5. Plan

Done: the lists, the scheduler core with its task calls, tick and switch; all kernel
objects, with deletion except that of data queues; heap, framing, checksum and
numbers; the drivers and the application on the board; theorems about the core, every
kernel object, the library and the board. What is left, in this order:

1. `kern_queue_delete`, the loop of `KernCalls` over the two wait queues of a data queue.
2. Tasks that end while they hold a mutex or wait in a call.
3. Two tasks in `malloc` at a time; the order of the boot.

## 6. Not modelled

- `kern_queue_delete`, and tasks that end while they hold a mutex: planned.
- Register definitions, vector table, clock set-up and compiler intrinsics (`XMC1400.h`,
  `core_cm0.h`, `system_XMC1400.c`, `startup_XMC1400.s`): vendor code. The registers that
  drivers use are named in `Can`, `Gpio`, `Scu` and `Uart`.
- `string.c`: pure helpers and formatted output. `kern_utils.c`: commented out. `srandom`
  and `random`: a recurrence nothing calls.
- `can0_configure_ext_mbox` and its twin, which differ from `configure_mbox` in the width of
  the identifier; the functions that enable and disable a mailbox, which are empty; the
  interrupts of CAN and UART, which nothing enables; `gpio_*_get_pin` and
  `us0_get_transmit_status`, which only read; the open functions, which fill tables of
  functions.
- The semaphore of `malloc` and `free`, which is taken only if `debug_ready` is set.
- The value of the speed, its direction and the frame's counter, one word here.
