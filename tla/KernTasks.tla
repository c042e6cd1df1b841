------------------------------ MODULE KernTasks ------------------------------
(***************************************************************************)
(* Task management: the API of src/kern/kern_tasks.c, the system tick of   *)
(* src/kern/kern.c and the context switch of src/kern/kern_arch.s.         *)
(*                                                                         *)
(* One processor. A kernel call runs with interrupts disabled, so it is    *)
(* one action of the running task. Between calls the tick, another         *)
(* interrupt and the pending context switch (PendSV) come in. A call that  *)
(* may want a switch enables interrupts first; then it compares            *)
(* kern_next_task_to_run with the caller, at "test", or calls              *)
(* kern_switch_context, at "yield".                                        *)
(***************************************************************************)
EXTENDS KernWalk, KernLinks, FiniteSets

CONSTANTS
  Main,         \* the task kern_start_system creates
  Spinner,      \* the application task that makes no kernel call (odo_task_func)
  Priorities,   \* the priorities tasks are created with or changed to
  MainPriority, \* that of Main
  Restartable,  \* the tasks that may exit, be terminated or deleted, and be activated
  Suspendable,  \* the tasks that may be suspended
  Timeouts,     \* the timeouts tasks sleep for, in milliseconds, or Infinite
  TicksPerMs,   \* ticks of the system timer to a millisecond (10 in the code)
  CreateList    \* the head kern_create_queue

\* The priorities are 0..31, and 0 and 31 are those of system tasks.
KERN_NUM_PRIORITY == 32

ASSUME TasksAssumption ==
  /\ Main \in Task /\ Spinner \in Task /\ Main # Spinner
  /\ CreateList \notin Task
  /\ Restartable \subseteq Task /\ Suspendable \subseteq Task
  /\ Priorities \subseteq 1..(KERN_NUM_PRIORITY - 2) /\ MainPriority \in 1..(KERN_NUM_PRIORITY - 1)
  /\ Timeouts \subseteq (Nat \ {0}) \cup {Infinite}
  /\ TicksPerMs \in Nat \ {0, 1}

VARIABLES
  k,        \* the scheduler's record, KernSched!Sched
  created,  \* the links of create_queue: kern_create_queue, "all created tasks"
  id_task,  \* whether a TCB holds KERN_ID_TASK, that is, the task exists
  curr,     \* kern_curr_run_task
  cpu,      \* where the processor is in the task curr
  sp,       \* where the context saved in a task's TCB resumes it
  pend,     \* PendSV is pending
  request,  \* kern_context_switch_request
  us_count  \* ticks since the last millisecond

vars == << k, created, id_task, curr, cpu, sp, pend, request, us_count >>

\* "run": in the task's own code. "test" and "yield": a call has enabled interrupts
\* and is about to look at kern_next_task_to_run, or to call kern_switch_context.
\* "exited": in the endless branch that ends kern_switch_context_exit.
Points == {"run", "test", "yield", "exited"}
-----------------------------------------------------------------------------
\* The state kern_start_system leaves: Main created, runnable and current.
InitialSched ==
  LET s == [ ready  |-> << >>, next |-> Main, timers |-> << >>,
             wq     |-> [q \in Queue |-> << >>],
             state  |-> [t \in Task |-> "DORMANT"],
             prio   |-> [t \in Task |-> IF t = Main THEN MainPriority ELSE 0],
             skip   |-> [t \in Task |-> 0],
             tick   |-> [t \in Task |-> Infinite],
             reason |-> [t \in Task |-> "NONE"],
             rc     |-> [t \in Task |-> "NO_ERR"],
             pwait  |-> [t \in Task |-> NoQueue],
             wake   |-> [t \in Task |-> 0],
             act    |-> [t \in Task |-> 0] ]
  IN  task_to_runnable(s, Main)

Self == [n \in Task \cup {CreateList} |-> n]

Init ==
  /\ k = InitialSched
  /\ created = queue_add_tail([next |-> Self, prev |-> Self], CreateList, Main)
  /\ id_task = [t \in Task |-> t = Main]
  /\ curr = Main /\ cpu = "run" /\ sp = [t \in Task |-> "run"]
  /\ pend = FALSE /\ request = FALSE /\ us_count = 0
-----------------------------------------------------------------------------
\* The task t is executing its own code and makes a call.
Calls(t) == curr = t /\ cpu = "run" /\ ~pend /\ t # Spinner

\* The call returns without switching, or once it has enabled interrupts switches
\* or, most calls, first tests whether the caller is still the next task to run.
Returns  == UNCHANGED << curr, cpu, sp, pend, request, us_count >>
Switches == cpu' = "yield" /\ UNCHANGED << curr, sp, pend, request, us_count >>
Tests    == cpu' = "test" /\ UNCHANGED << curr, sp, pend, request, us_count >>

\* What the application guarantees and the kernel needs: the ready list is never
\* emptied, because the spinning task is in it and stays there.
MayStop(t) == t # Spinner /\ k.state[Spinner] = "RUNNABLE"

UnchangedTasks == UNCHANGED << created, id_task >>

\* And what kern_task_create needs of the application: a TCB without an ID that is still
\* scheduled (see DeletedIsDormant) is not created anew, which would cut the list it is in.
kern_task_create(t, p, start) ==
  /\ Calls(curr) /\ ~id_task[t] /\ k.state[t] = "DORMANT"
  /\ LET s == [task_set_init_state(k, t) EXCEPT !.prio[t] = p, !.skip[t] = 0, !.act[t] = 0]
     IN  k' = IF start THEN task_to_runnable(s, t) ELSE s
  /\ created' = queue_add_tail(queue_reset(created, t), CreateList, t)
  /\ id_task' = [id_task EXCEPT ![t] = TRUE]
  /\ sp' = [sp EXCEPT ![t] = "run"]
  /\ UNCHANGED << curr, cpu, pend, request, us_count >>

kern_task_suspend(t) ==
  /\ Calls(curr) /\ id_task[t] /\ MayStop(t)
  /\ ~Suspended(k.state[t]) /\ k.state[t] # "DORMANT"
  /\ \/ /\ k.state[t] = "RUNNABLE"
        /\ k' = task_to_non_runnable([k EXCEPT !.state[t] = "SUSPEND"], t)
        /\ Tests
     \/ /\ k.state[t] = "WAIT"
        /\ k' = [k EXCEPT !.state[t] = "WAITSUSP"]
        /\ Returns
  /\ UnchangedTasks

kern_task_resume(t) ==
  /\ Calls(curr) /\ id_task[t]
  /\ \/ /\ k.state[t] = "SUSPEND"
        /\ k' = task_to_runnable(k, t)
        /\ Tests
     \/ /\ k.state[t] = "WAITSUSP"
        /\ k' = [k EXCEPT !.state[t] = "WAIT"]
        /\ Returns
  /\ UnchangedTasks

\* A counted wakeup is used up instead of sleeping.
kern_task_sleep(timeout) ==
  /\ Calls(curr)
  /\ \/ /\ k.wake[curr] > 0
        /\ k' = [k EXCEPT !.wake[curr] = @ - 1]
        /\ Returns
     \/ /\ k.wake[curr] = 0 /\ MayStop(curr)
        /\ k' = task_curr_to_wait_action(k, curr, NoQueue, "SLEEP", timeout)
        /\ Switches
  /\ UnchangedTasks

Sleeping(t) == Waiting(k.state[t]) /\ k.reason[t] = "SLEEP"

\* The wakeup of a task that is not sleeping is counted, but in the TCB of
\* kern_curr_run_task, and at most once.
CountWakeup ==
  k' = [k EXCEPT !.wake[curr] = 1]

kern_task_wakeup(t) ==
  /\ Calls(curr) /\ id_task[t] /\ k.state[t] # "DORMANT"
  /\ \/ /\ Sleeping(t)
        /\ k' = task_wait_complete(k, t)
        /\ IF Suspended(k.state[t]) THEN Returns ELSE Switches
     \/ /\ ~Sleeping(t) /\ CountWakeup /\ Returns
  /\ UnchangedTasks

kern_task_activate(t) ==
  /\ Calls(curr) /\ id_task[t]
  /\ \/ /\ k.state[t] = "DORMANT"
        /\ k' = task_to_runnable(k, t)
        /\ Tests
     \/ /\ k.state[t] # "DORMANT"
        /\ k' = [k EXCEPT !.act[t] = 1]
        /\ Returns
  /\ UnchangedTasks

kern_task_release_wait(t) ==
  /\ Calls(curr) /\ id_task[t] /\ Waiting(k.state[t])
  /\ k' = task_wait_complete(k, t)
  /\ IF Suspended(k.state[t]) THEN Returns ELSE Switches
  /\ UnchangedTasks

(***************************************************************************)
(* kern_task_exit: the caller's context is rebuilt in its TCB, but the     *)
(* processor goes on in kern_switch_context_exit, which pends PendSV       *)
(* without setting kern_context_switch_request. task_set_init_state has    *)
(* also linked the task's create_queue entry to itself. A task deleted     *)
(* with a counted activation is ready: it runs, and may exit, once more.   *)
(***************************************************************************)
Restarted(s, t) ==
  IF s.act[t] > 0 THEN task_to_runnable([s EXCEPT !.act[t] = @ - 1], t) ELSE s

kern_task_exit(delete) ==
  /\ Calls(curr) /\ MayStop(curr) /\ curr \in Restartable
  /\ k' = Restarted(task_set_init_state(task_to_non_runnable(k, curr), curr), curr)
  /\ LET l == queue_reset(created, curr)
     IN  created' = IF delete THEN queue_remove_entry(l, curr) ELSE l
  /\ id_task' = [id_task EXCEPT ![curr] = @ /\ ~delete]
  /\ sp' = [sp EXCEPT ![curr] = "run"]
  /\ cpu' = "exited" /\ pend' = TRUE
  /\ UNCHANGED << curr, request, us_count >>

\* (Wrong: a task that is ready would stay in the ready list.)
kern_task_terminate_StaysReady(t) ==
  /\ Calls(curr) /\ id_task[t] /\ MayStop(t)
  /\ k.state[t] # "DORMANT" /\ t # curr
  /\ k' = Restarted(task_set_init_state(LeaveQueues(k, t), t), t)
  /\ created' = queue_reset(created, t)
  /\ sp' = [sp EXCEPT ![t] = "run"]
  /\ UNCHANGED << id_task, curr, cpu, pend, request, us_count >>

kern_task_terminate(t) ==
  /\ Calls(curr) /\ id_task[t] /\ MayStop(t)
  /\ k.state[t] # "DORMANT" /\ t # curr
  /\ LET s == IF k.state[t] = "RUNNABLE" THEN task_to_non_runnable(k, t)
              ELSE LeaveQueues(k, t)
     IN  k' = Restarted(task_set_init_state(s, t), t)
  /\ created' = queue_reset(created, t)
  /\ sp' = [sp EXCEPT ![t] = "run"]
  /\ cpu' = IF k.act[t] > 0 THEN "test" ELSE cpu
  /\ UNCHANGED << id_task, curr, pend, request, us_count >>

\* (Wrong: a task could be deleted before it is terminated.)
kern_task_delete_NotTerminated(t) ==
  /\ Calls(curr) /\ id_task[t]
  /\ created' = queue_remove_entry(created, t)
  /\ id_task' = [id_task EXCEPT ![t] = FALSE]
  /\ Returns /\ UNCHANGED k

kern_task_delete(t) ==
  /\ Calls(curr) /\ id_task[t] /\ k.state[t] = "DORMANT"
  /\ created' = queue_remove_entry(created, t)
  /\ id_task' = [id_task EXCEPT ![t] = FALSE]
  /\ Returns /\ UNCHANGED k

\* A new priority of 0 stands for the one the task has.
kern_task_change_priority(t, new) ==
  /\ Calls(curr) /\ id_task[t] /\ k.state[t] # "DORMANT"
  /\ LET p == IF new = 0 THEN k.prio[t] ELSE new
     IN  IF k.state[t] = "RUNNABLE"
         THEN /\ k' = change_running_task_priority(k, t, p)
              /\ IF PriorityChangeSwitches(k, t, p) THEN Switches ELSE Returns
         ELSE k' = [k EXCEPT !.prio[t] = p] /\ Returns
  /\ UnchangedTasks
-----------------------------------------------------------------------------
\* The test that most calls end with; interrupts may have changed the next task.
\* (Wrong: the caller would go on although it is not ready.)
TestNext_Never ==
  /\ cpu = "test" /\ ~pend
  /\ cpu' = "run"
  /\ UNCHANGED << k, created, id_task, curr, sp, pend, request, us_count >>

TestNext ==
  /\ cpu = "test" /\ ~pend
  /\ cpu' = IF k.next # curr THEN "yield" ELSE "run"
  /\ UNCHANGED << k, created, id_task, curr, sp, pend, request, us_count >>

\* kern_switch_context.
SwitchContext ==
  /\ cpu = "yield" /\ ~pend
  /\ cpu' = "run" /\ pend' = TRUE /\ request' = TRUE
  /\ UNCHANGED << k, created, id_task, curr, sp, us_count >>

\* PendSV_Handler: with a request, save the context and restore that of the
\* next task; without one, go on where the interrupt came.
PendSV ==
  /\ pend /\ pend' = FALSE /\ request' = FALSE
  /\ IF request
     THEN /\ sp' = [sp EXCEPT ![curr] = cpu]
          /\ curr' = k.next
          /\ cpu' = sp'[k.next]
     ELSE UNCHANGED << sp, curr, cpu >>
  /\ UNCHANGED << k, created, id_task, us_count >>

\* SysTick_HandlerFunc. No task waits for a semaphore or an event here, so the
\* scan over kern_create_queue changes nothing.
\* (Wrong: the counter would not start over.)
Tick_NoReset == us_count' = us_count + 1

Tick == us_count' = (us_count + 1) % TicksPerMs

SysTick ==
  /\ Tick
  /\ k' = RotateUnless(ScanTimeouts(k, us_count' = 0), k.next)
  /\ pend' = TRUE /\ request' = TRUE
  /\ UNCHANGED << created, id_task, curr, cpu, sp >>

\* An interrupt handler that makes one call and leaves through kern_int_exit,
\* which pends PendSV.
InterruptExit == pend' = TRUE /\ UNCHANGED << created, id_task, curr, cpu, sp, us_count >>

kern_task_iwakeup(t) ==
  /\ id_task[t] /\ k.state[t] # "DORMANT"
  /\ \/ /\ Sleeping(t)
        /\ k' = task_wait_complete(k, t)
        /\ request' = (request \/ ~Suspended(k.state[t]))
     \/ /\ ~Sleeping(t) /\ CountWakeup /\ UNCHANGED request
  /\ InterruptExit

kern_task_iactivate(t) ==
  /\ id_task[t]
  /\ \/ /\ k.state[t] = "DORMANT"
        /\ k' = task_to_runnable(k, t)
        /\ request' = (request \/ k'.next # curr)
     \/ /\ k.state[t] # "DORMANT"
        /\ k' = [k EXCEPT !.act[t] = 1] /\ UNCHANGED request
  /\ InterruptExit

kern_task_irelease_wait(t) ==
  /\ id_task[t] /\ Waiting(k.state[t])
  /\ k' = task_wait_complete(k, t)
  /\ request' = (request \/ ~Suspended(k.state[t]))
  /\ InterruptExit
-----------------------------------------------------------------------------
TaskCall ==
  \/ \E t \in Task, p \in Priorities, start \in BOOLEAN : kern_task_create(t, p, start)
  \/ \E timeout \in Timeouts : kern_task_sleep(timeout)
  \/ \E t \in Suspendable : kern_task_suspend(t) \/ kern_task_resume(t)
  \/ \E t \in Task : \/ kern_task_wakeup(t)
                     \/ kern_task_release_wait(t)
  \/ \E t \in Restartable : \/ kern_task_activate(t)
                            \/ kern_task_terminate(t)
                            \/ kern_task_delete(t)
  \/ \E delete \in BOOLEAN : kern_task_exit(delete)
  \/ \E t \in Task, new \in Priorities \cup {0} : kern_task_change_priority(t, new)

Interrupt ==
  \/ \E t \in Task : kern_task_iwakeup(t) \/ kern_task_irelease_wait(t)
  \/ \E t \in Restartable : kern_task_iactivate(t)

Next == TaskCall \/ Interrupt \/ TestNext \/ SwitchContext \/ PendSV \/ SysTick

Spec == Init /\ [][Next]_vars

(***************************************************************************)
(* Fairness: the processor goes on executing (TestNext, SwitchContext and  *)
(* PendSV) and the hardware timer goes on ticking: a step of us_count is a *)
(* SysTick. Nothing makes a task call anything.                            *)
(***************************************************************************)
FairSpec == Spec /\ WF_vars(TestNext) /\ WF_vars(SwitchContext) /\ WF_vars(PendSV) /\ WF_us_count(Tick)
-----------------------------------------------------------------------------
(* Properties *)

\* Every variable holds a value of its C type, as far as it is modelled.
TypeOK ==
  /\ k \in Sched
  /\ created \in Links(Task \cup {CreateList})
  /\ id_task \in [Task -> BOOLEAN]
  /\ curr \in Task /\ cpu \in Points /\ sp \in [Task -> Points]
  /\ pend \in BOOLEAN /\ request \in BOOLEAN
  /\ us_count \in 0..TicksPerMs-1

\* The lists, the links and the state words agree in every TCB, whatever calls,
\* interrupts and timeouts came in what order: the ready list holds each RUNNABLE
\* task once, the timeout list each task waiting with a timeout once, and a task
\* that has left its wait leaves nothing behind.
ListsMatchStates == ReadyOK(k) /\ TimersOK(k) /\ WaitQueuesOK(k) /\ WaitFieldsOK(k)

\* kern_next_task_to_run is at all times a task that may run: a task that is
\* suspended, terminated or put to sleep while it is the chosen one is replaced.
NextIsReady == NextReady(k)

\* Beyond its own call to kern_switch_context no task executes code while it
\* is not RUNNABLE.
RunsOnlyRunnable == cpu = "run" /\ ~pend => k.state[curr] = "RUNNABLE"

\* Only kern_task_resume, or its termination, ends a task's suspension: neither
\* the end of its wait, a wakeup nor a timeout lets it run.
SuspensionHolds ==
  [][\A t \in Task : Suspended(k.state[t]) /\ ~Suspended(k'.state[t])
                       => kern_task_resume(t) \/ kern_task_terminate(t)]_vars

\* A tick ends exactly the waits whose last millisecond is over, all of them even
\* though the scan unlinks tasks from the list it walks, and reports ERR_TIMEOUT. Of
\* the other waits with a timeout it counts each down once when a millisecond is over,
\* and never otherwise. (Only a tick changes us_count.)
LastTick(t)  == us_count' = 0 /\ k.tick[t] = 1
CountsDown(t) == us_count' = 0 /\ k.tick[t] # Infinite

TickEndsExpiredWaits ==
  [][us_count' # us_count =>
       \A t \in Task : Waiting(k.state[t]) =>
         IF LastTick(t) THEN ~Waiting(k'.state[t]) /\ k'.rc[t] = "TIMEOUT"
         ELSE Waiting(k'.state[t]) /\ k'.tick[t] = k.tick[t] - (IF CountsDown(t) THEN 1 ELSE 0)]_vars

\* A wait with a timeout ends, also for a suspended task.
TimedWaitEnds ==
  \A t \in Task : Waiting(k.state[t]) /\ k.tick[t] # Infinite ~> ~Waiting(k.state[t])

\* Only ticks change the scheduler's record, and they leave the ready tasks as
\* they are. No tick comes before a pending switch: the tick's handler takes less
\* than the 100 us between two ticks.
Steady == UNCHANGED k \/ (us_count' # us_count /\ ~pend /\ UNCHANGED << k.ready, k.prio >>)

\* While the ready tasks only compute, each gets the processor again and again:
\* the weighted round robin and the tick that drives it starve no priority.
TurnsGoRound ==
  <>[][Steady]_vars => \A t \in Task : []<>(curr = t \/ k.state[t] # "RUNNABLE")

\* The closed form of the walk is the loop of find_next_task_to_run, for every
\* record the system reaches and every place a walk can start from.
WalkIsTheLoop ==
  \A start \in 0..Len(k.ready) : LoopWalk(k, start) = WalkFrom(k, start)

\* The scheduler has a TCB without an ID only if its task has exited and deleted itself
\* with an activation counted: no other deletion, restart, wakeup or interrupt, in
\* whatever order, makes it so, and an application that counts no activations may
\* create any deleted TCB anew.
Ghost(t) == ~id_task[t] /\ k.state[t] # "DORMANT"

GhostsExitCounted ==
  [][\A t \in Task : ~Ghost(t) /\ Ghost(t)' =>
       t = curr /\ k.act[t] > 0 /\ kern_task_exit(TRUE)]_vars

\* kern_tasks.c:720 "Cannot delete not-terminated task" and, of an exit with a counted
\* activation, kern_tasks.c:612 "Cannot exit": a TCB that is deleted is idle, nothing of
\* it is linked anywhere, and it can be created anew.
DeletedIsDormant == \A t \in Task : ~id_task[t] => k.state[t] = "DORMANT"

\* kern_arch.s:95 "Never reach this": the branch to itself after PendSV has been
\* pended by kern_switch_context_exit is never executed.
NeverReachThis == ~(cpu = "exited" /\ ~pend)

\* kern.c:35 "all created tasks": a walk along kern_create_queue meets exactly the
\* tasks that exist.
CreatedListComplete ==
  LET n     == Cardinality(Task)
      chain == Chain(created, CreateList, n)
  IN  /\ {chain[i] : i \in 0..n} \ {CreateList} = {t \in Task : id_task[t]}
      /\ chain[n] = CreateList
=============================================================================
