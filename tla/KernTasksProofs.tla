--------------------------- MODULE KernTasksProofs ---------------------------
(***************************************************************************)
(* The proof that KernTasks keeps its invariants, for every set of tasks,  *)
(* priorities and timeouts and every length of the millisecond. Every      *)
(* action is taken back to the facts KernSchedProofs states about the      *)
(* scheduler's operators.                                                  *)
(***************************************************************************)
EXTENDS KernTasks, KernSchedProofs

Nodes == Task \cup {CreateList}

\* The list operations keep the links of the nodes among the nodes.
LEMMA LinksKept ==
  ASSUME NEW l \in Links(Nodes), NEW h \in Nodes, NEW e \in Nodes
  PROVE  /\ queue_reset(l, e) \in Links(Nodes)
         /\ queue_add_tail(l, h, e) \in Links(Nodes)
         /\ queue_remove_entry(l, e) \in Links(Nodes)
<1>1. queue_reset(l, e) \in Links(Nodes)
  BY DEF queue_reset, Links
<1>2. queue_add_tail(l, h, e) \in Links(Nodes)
  BY DEF queue_add_tail, Links
<1>3. queue_remove_entry(l, e) \in Links(Nodes)
  <2> DEFINE nx == [l.next EXCEPT ![l.prev[e]] = l.next[e]]
  <2>1. nx \in [Nodes -> Nodes] /\ l.prev \in [Nodes -> Nodes]
    BY DEF Links
  <2> HIDE DEF nx
  <2>2. [l.prev EXCEPT ![nx[e]] = l.prev[e]] \in [Nodes -> Nodes]
    BY <2>1
  <2> QED BY <2>1, <2>2 DEF queue_remove_entry, Links, nx
<1> QED BY <1>1, <1>2, <1>3

-----------------------------------------------------------------------------
(***************************************************************************)
(* The inductive invariant. KernelOK, the record, needs that the processor,*)
(* when no switch is due, is in a ready task. Where no task ends, a task   *)
(* that does not exist yet is dormant, which the kernel's objects need.    *)
(***************************************************************************)
VariablesOK ==
  /\ created \in Links(Nodes)
  /\ id_task \in [Task -> BOOLEAN]
  /\ curr \in Task /\ cpu \in Points /\ sp \in [Task -> Points]
  /\ pend \in BOOLEAN /\ request \in BOOLEAN
  /\ us_count \in 0..TicksPerMs-1

KernelOK == SchedOK(k) /\ NextReady(k)

RunsReady == cpu = "run" /\ ~(pend /\ request) => k.state[curr] = "RUNNABLE"

UncreatedRest == \A t \in Task : t \notin Restartable /\ ~id_task[t] => k.state[t] = "DORMANT"

IInv == VariablesOK /\ KernelOK /\ UncreatedRest /\ RunsReady

\* The invariants TLC checks follow from it.
LEMMA IInvImplies ==
  IInv => TypeOK /\ ListsMatchStates /\ NextIsReady /\ RunsOnlyRunnable
BY DEF IInv, VariablesOK, KernelOK, SchedOK, RunsReady, TypeOK, ListsMatchStates,
       NextIsReady, RunsOnlyRunnable, Nodes

\* It holds in the state kern_start_system leaves.
LEMMA InitHolds == Init => IInv
<1> SUFFICES ASSUME Init PROVE IInv
  OBVIOUS
<1>1. /\ Main \in Task /\ CreateList \notin Task /\ MainPriority \in Nat
      /\ TicksPerMs \in Nat \ {0, 1}
  BY TasksAssumption
<1> DEFINE s == [ ready  |-> << >>, next |-> Main, timers |-> << >>,
             wq     |-> [q \in Queue |-> << >>],
             state  |-> [t \in Task |-> "DORMANT"],
             prio   |-> [t \in Task |-> IF t = Main THEN MainPriority ELSE 0],
             skip   |-> [t \in Task |-> 0],
             tick   |-> [t \in Task |-> Infinite],
             reason |-> [t \in Task |-> "NONE"],
             rc     |-> [t \in Task |-> "NO_ERR"],
             pwait  |-> [t \in Task |-> NoQueue],
             wake   |-> [t \in Task |-> 0],
             act    |-> [t \in Task |-> 0] ]
<1>2. s \in Sched
  BY <1>1 DEF Sched, States, Reasons, Codes
<1>3. /\ s.ready = << >> /\ s.timers = << >> /\ \A q \in Queue : s.wq[q] = << >>
      /\ \A t \in Task : /\ s.state[t] = "DORMANT" /\ s.tick[t] = Infinite
                         /\ s.reason[t] = "NONE" /\ s.pwait[t] = NoQueue
  OBVIOUS
<1>4. k = task_to_runnable(s, Main)
  BY DEF Init, InitialSched
<1> HIDE DEF s
<1>5. ToSet(<< >>) = {} /\ NoDuplicates(<< >>)
  BY DEF ToSet, NoDuplicates
<1>6. SchedOK(s)
  <2>1. ReadyOK(s) /\ TimersOK(s)
    BY <1>3, <1>5 DEF ReadyOK, TimersOK, Waiting
  <2>2. WaitQueuesOK(s)
    BY <1>3, <1>5, NoQueueAssumption DEF WaitQueuesOK
  <2>3. WaitFieldsOK(s)
    BY <1>3 DEF WaitFieldsOK, Waiting
  <2> QED BY <1>2, <2>1, <2>2, <2>3 DEF SchedOK
<1>7. SchedOK(k) /\ NextReady(k) /\ k.state = [s.state EXCEPT ![Main] = "RUNNABLE"]
  BY <1>1, <1>3, <1>4, <1>6, IdleStarts
<1>8. k.state[Main] = "RUNNABLE" /\ \A t \in Task \ {Main} : k.state[t] = "DORMANT"
  BY <1>1, <1>2, <1>3, <1>7 DEF Sched
<1>9. UncreatedRest /\ RunsReady
  BY <1>1, <1>8 DEF Init, UncreatedRest, RunsReady
<1>10. created \in Links(Nodes)
  <2> DEFINE l == [next |-> Self, prev |-> Self]
  <2>1. l \in Links(Nodes) /\ CreateList \in Nodes /\ Main \in Nodes
    BY <1>1 DEF Links, Self, Nodes
  <2>2. queue_add_tail(l, CreateList, Main) \in Links(Nodes)
    BY <2>1, LinksKept
  <2> QED BY <2>2 DEF Init
<1>11. VariablesOK
  <2>1. us_count \in 0..TicksPerMs-1
    BY <1>1 DEF Init
  <2>2. id_task \in [Task -> BOOLEAN] /\ pend \in BOOLEAN /\ request \in BOOLEAN
    BY DEF Init
  <2>3. curr \in Task /\ cpu \in Points /\ sp \in [Task -> Points]
    BY <1>1 DEF Init, Points
  <2> QED BY <1>10, <2>1, <2>2, <2>3 DEF VariablesOK
<1> QED BY <1>7, <1>9, <1>11 DEF IInv, KernelOK
-----------------------------------------------------------------------------
(* The steps of the running task *)

\* A task may stop only while another one, the spinning task, is ready.
LEMMA AnotherIsReady ==
  ASSUME IInv, NEW t \in Task, MayStop(t)
  PROVE  ToSet(k.ready) # {t}
<1>1. Spinner \in ToSet(k.ready) /\ Spinner # t
  BY TasksAssumption DEF IInv, KernelOK, SchedOK, ReadyOK, MayStop
<1> QED BY <1>1

\* The caller of a kernel function is ready.
LEMMA CallerIsReady ==
  ASSUME IInv, Calls(curr)
  PROVE  /\ curr \in Task /\ k.state[curr] = "RUNNABLE" /\ cpu = "run" /\ ~pend
         /\ SchedOK(k) /\ NextReady(k)
BY DEF IInv, VariablesOK, KernelOK, RunsReady, Calls

\* A call that creates and deletes no task keeps the invariant if it keeps the
\* record in order, leaves the tasks that do not exist dormant, and goes on to a
\* switch or the test for one when the caller is no longer ready.
LEMMA CallKeeps ==
  ASSUME IInv, Calls(curr), UnchangedTasks, Returns \/ Switches \/ Tests,
         SchedOK(k'), NextReady(k'),
         \A t \in Task : t \notin Restartable /\ ~id_task[t] => k'.state[t] = "DORMANT",
         Switches \/ Tests \/ k'.state[curr] = "RUNNABLE"
  PROVE  IInv'
<1>1. VariablesOK'
  BY DEF IInv, VariablesOK, UnchangedTasks, Returns, Switches, Tests, Points
<1>2. UncreatedRest'
  BY DEF UncreatedRest, UnchangedTasks
<1>3. RunsReady'
  <2>1. CASE Switches \/ Tests
    BY <2>1 DEF RunsReady, Switches, Tests
  <2>2. CASE Returns /\ k'.state[curr] = "RUNNABLE"
    BY <2>2 DEF RunsReady, Returns
  <2> QED BY <2>1, <2>2
<1> QED BY <1>1, <1>2, <1>3 DEF IInv, KernelOK

LEMMA SuspendKeeps ==
  ASSUME IInv, NEW t \in Task, kern_task_suspend(t)
  PROVE  IInv'
<1>1. /\ curr \in Task /\ k.state[curr] = "RUNNABLE" /\ SchedOK(k) /\ NextReady(k)
      /\ Calls(curr) /\ id_task[t] /\ UnchangedTasks
      /\ k.state \in [Task -> States]
  BY CallerIsReady DEF kern_task_suspend, SchedOK, Sched
<1>2. UncreatedRest
  BY DEF IInv
<1>3. CASE /\ k.state[t] = "RUNNABLE"
           /\ k' = task_to_non_runnable([k EXCEPT !.state[t] = "SUSPEND"], t)
           /\ Tests
  <2>1. ToSet(k.ready) # {t}
    BY AnotherIsReady DEF kern_task_suspend
  <2>2. SchedOK(k') /\ NextReady(k') /\ k'.state = [k.state EXCEPT ![t] = "SUSPEND"]
    BY <1>1, <1>3, <2>1, ReadySuspends
  <2>3. \A u \in Task : u \notin Restartable /\ ~id_task[u] => k'.state[u] = "DORMANT"
    BY <1>1, <1>2, <2>2 DEF UncreatedRest
  <2> QED BY <1>1, <1>3, <2>2, <2>3, CallKeeps
<1>4. CASE /\ k.state[t] = "WAIT"
           /\ k' = [k EXCEPT !.state[t] = "WAITSUSP"]
           /\ Returns
  <2>1. SchedOK(k') /\ NextReady(k') /\ k'.state = [k.state EXCEPT ![t] = "WAITSUSP"]
    BY <1>1, <1>4, WaitBitStays, ZenonT(40) DEF Waiting
  <2>2. \A u \in Task : u \notin Restartable /\ ~id_task[u] => k'.state[u] = "DORMANT"
    BY <1>1, <1>2, <2>1 DEF UncreatedRest
  <2>3. k'.state[curr] = "RUNNABLE"
    BY <1>1, <1>4, <2>1
  <2> QED BY <1>1, <1>4, <2>1, <2>2, <2>3, CallKeeps
<1> QED BY <1>3, <1>4 DEF kern_task_suspend

LEMMA ResumeKeeps ==
  ASSUME IInv, NEW t \in Task, kern_task_resume(t)
  PROVE  IInv'
<1>1. /\ curr \in Task /\ k.state[curr] = "RUNNABLE" /\ SchedOK(k) /\ NextReady(k)
      /\ Calls(curr) /\ id_task[t] /\ UnchangedTasks
      /\ k.state \in [Task -> States]
  BY CallerIsReady DEF kern_task_resume, SchedOK, Sched
<1>2. UncreatedRest
  BY DEF IInv
<1>3. CASE /\ k.state[t] = "SUSPEND"
           /\ k' = task_to_runnable(k, t)
           /\ Tests
  <2>1. SchedOK(k') /\ NextReady(k') /\ k'.state = [k.state EXCEPT ![t] = "RUNNABLE"]
    BY <1>1, <1>3, IdleStarts
  <2>2. \A u \in Task : u \notin Restartable /\ ~id_task[u] => k'.state[u] = "DORMANT"
    BY <1>1, <1>2, <2>1 DEF UncreatedRest
  <2> QED BY <1>1, <1>3, <2>1, <2>2, CallKeeps
<1>4. CASE /\ k.state[t] = "WAITSUSP"
           /\ k' = [k EXCEPT !.state[t] = "WAIT"]
           /\ Returns
  <2>1. SchedOK(k') /\ NextReady(k') /\ k'.state = [k.state EXCEPT ![t] = "WAIT"]
    BY <1>1, <1>4, WaitBitStays, ZenonT(40) DEF Waiting
  <2>2. \A u \in Task : u \notin Restartable /\ ~id_task[u] => k'.state[u] = "DORMANT"
    BY <1>1, <1>2, <2>1 DEF UncreatedRest
  <2>3. k'.state[curr] = "RUNNABLE"
    BY <1>1, <1>4, <2>1
  <2> QED BY <1>1, <1>4, <2>1, <2>2, <2>3, CallKeeps
<1> QED BY <1>3, <1>4 DEF kern_task_resume

\* task_curr_to_wait_action for a task that goes to sleep.
LEMMA CurrentSleeps ==
  ASSUME NEW s, SchedOK(s), NEW t \in Task, s.state[t] = "RUNNABLE", ToSet(s.ready) # {t},
         NEW timeout \in (Nat \ {0}) \cup {Infinite},
         NEW r, r = task_curr_to_wait_action(s, t, NoQueue, "SLEEP", timeout)
  PROVE  SchedOK(r) /\ NextReady(r) /\ r.state = [s.state EXCEPT ![t] = "WAIT"]
<1> DEFINE q == NoQueue
           reason == "SLEEP"
<1>1. q \in Queue \cup {NoQueue} /\ reason \in Reasons \ {"NONE"}
  BY DEF Reasons
<1>2. r = task_curr_to_wait_action(s, t, q, reason, timeout)
  OBVIOUS
<1> HIDE DEF q, reason
<1> QED BY <1>1, <1>2, CurrentWaits

LEMMA SleepKeeps ==
  ASSUME IInv, NEW timeout \in Timeouts, kern_task_sleep(timeout)
  PROVE  IInv'
<1>1. /\ curr \in Task /\ k.state[curr] = "RUNNABLE" /\ SchedOK(k) /\ NextReady(k)
      /\ Calls(curr) /\ UnchangedTasks
      /\ k.state \in [Task -> States] /\ k.wake[curr] \in {0, 1}
  BY CallerIsReady DEF kern_task_sleep, SchedOK, Sched
<1>2. UncreatedRest
  BY DEF IInv
<1>3. CASE k.wake[curr] > 0 /\ k' = [k EXCEPT !.wake[curr] = @ - 1] /\ Returns
  <2>1. k' = [k EXCEPT !.wake[curr] = 0]
    BY <1>1, <1>3
  <2>2. SchedOK(k') /\ NextReady(k') /\ k'.state = k.state
    BY <1>1, <2>1, WakeChanges
  <2>3. \A u \in Task : u \notin Restartable /\ ~id_task[u] => k'.state[u] = "DORMANT"
    BY <1>2, <2>2 DEF UncreatedRest
  <2> QED BY <1>1, <1>3, <2>2, <2>3, CallKeeps
<1>4. CASE /\ k.wake[curr] = 0 /\ MayStop(curr)
           /\ k' = task_curr_to_wait_action(k, curr, NoQueue, "SLEEP", timeout)
           /\ Switches
  <2>1. ToSet(k.ready) # {curr}
    BY <1>1, <1>4, AnotherIsReady
  <2>2. /\ timeout \in (Nat \ {0}) \cup {Infinite}
        /\ k' = task_curr_to_wait_action(k, curr, NoQueue, "SLEEP", timeout)
    BY <1>4, TasksAssumption
  <2>3. SchedOK(k') /\ NextReady(k') /\ k'.state = [k.state EXCEPT ![curr] = "WAIT"]
    BY <1>1, <2>1, <2>2, CurrentSleeps
  <2>4. \A u \in Task : u \notin Restartable /\ ~id_task[u] => k'.state[u] = "DORMANT"
    BY <1>1, <1>2, <2>3 DEF UncreatedRest
  <2> QED BY <1>1, <1>4, <2>3, <2>4, CallKeeps
<1> QED BY <1>3, <1>4 DEF kern_task_sleep

\* task_wait_complete for a record that is in order.
LEMMA OrderlyWaitCompletes ==
  ASSUME NEW s, SchedOK(s), NextReady(s), NEW t \in Task, Waiting(s.state[t]),
         NEW r, r = task_wait_complete(s, t)
  PROVE  /\ SchedOK(r) /\ NextReady(r)
         /\ r.state = [s.state EXCEPT ![t] = IF Suspended(s.state[t]) THEN "SUSPEND"
                                             ELSE "RUNNABLE"]
<1>1. /\ s \in Sched /\ ReadyOK(s) /\ TimersOK(s) /\ WaitQueuesOK(s)
      /\ \A u \in Task \ {t} : FieldsOK(s, u)
  BY DEF SchedOK, WaitFieldsOK, FieldsOK
<1> QED BY <1>1, WaitCompletes, ZenonT(40)

\* What the end of a wait does, by whatever call.
LEMMA WaitEnds ==
  ASSUME IInv, NEW t \in Task, id_task[t], Waiting(k.state[t]),
         k' = task_wait_complete(k, t)
  PROVE  /\ SchedOK(k') /\ NextReady(k')
         /\ k'.state = [k.state EXCEPT ![t] = IF Suspended(k.state[t]) THEN "SUSPEND"
                                              ELSE "RUNNABLE"]
         /\ \A u \in Task : u \notin Restartable /\ ~id_task[u] => k'.state[u] = "DORMANT"
<1>1. SchedOK(k) /\ NextReady(k) /\ k \in Sched
  BY DEF IInv, KernelOK, SchedOK
<1>2. /\ SchedOK(k') /\ NextReady(k')
      /\ k'.state = [k.state EXCEPT ![t] = IF Suspended(k.state[t]) THEN "SUSPEND"
                                           ELSE "RUNNABLE"]
  BY <1>1, OrderlyWaitCompletes
<1>3. k.state \in [Task -> States] /\ \A u \in Task : u \notin Restartable /\ ~id_task[u] => k.state[u] = "DORMANT"
  BY <1>1 DEF IInv, UncreatedRest, Sched
<1> QED BY <1>2, <1>3

\* What counting a wakeup does.
LEMMA CountKeeps ==
  ASSUME IInv, CountWakeup
  PROVE  /\ SchedOK(k') /\ NextReady(k') /\ k'.state = k.state
         /\ \A u \in Task : u \notin Restartable /\ ~id_task[u] => k'.state[u] = "DORMANT"
<1>1. SchedOK(k) /\ NextReady(k) /\ curr \in Task /\ k' = [k EXCEPT !.wake[curr] = 1]
  BY DEF IInv, KernelOK, VariablesOK, CountWakeup
<1>2. SchedOK(k') /\ NextReady(k') /\ k'.state = k.state
  BY <1>1, WakeChanges
<1> QED BY <1>2 DEF IInv, UncreatedRest

LEMMA WakeupKeeps ==
  ASSUME IInv, NEW t \in Task, kern_task_wakeup(t)
  PROVE  IInv'
<1>1. /\ curr \in Task /\ k.state[curr] = "RUNNABLE" /\ Calls(curr)
      /\ id_task[t] /\ UnchangedTasks /\ k.state \in [Task -> States]
  BY CallerIsReady DEF kern_task_wakeup, SchedOK, Sched
<1>2. CASE /\ Sleeping(t) /\ k' = task_wait_complete(k, t)
           /\ IF Suspended(k.state[t]) THEN Returns ELSE Switches
  <2>1. Waiting(k.state[t]) /\ k.state[t] # "RUNNABLE" /\ t # curr
    BY <1>1, <1>2 DEF Sleeping, Waiting
  <2>2. /\ SchedOK(k') /\ NextReady(k') /\ k'.state[curr] = "RUNNABLE"
        /\ \A u \in Task : u \notin Restartable /\ ~id_task[u] => k'.state[u] = "DORMANT"
    BY <1>1, <1>2, <2>1, WaitEnds, ZenonT(40)
  <2>3. Returns \/ Switches
    BY <1>2
  <2> QED BY <1>1, <2>2, <2>3, CallKeeps
<1>3. CASE CountWakeup /\ Returns
  <2>1. /\ SchedOK(k') /\ NextReady(k') /\ k'.state[curr] = "RUNNABLE"
        /\ \A u \in Task : u \notin Restartable /\ ~id_task[u] => k'.state[u] = "DORMANT"
    BY <1>1, <1>3, CountKeeps
  <2> QED BY <1>1, <1>3, <2>1, CallKeeps
<1> QED BY <1>2, <1>3 DEF kern_task_wakeup

LEMMA ReleaseKeeps ==
  ASSUME IInv, NEW t \in Task, kern_task_release_wait(t)
  PROVE  IInv'
<1>1. /\ curr \in Task /\ k.state[curr] = "RUNNABLE" /\ Calls(curr)
      /\ id_task[t] /\ UnchangedTasks /\ k.state \in [Task -> States]
      /\ Waiting(k.state[t]) /\ k' = task_wait_complete(k, t) /\ (Returns \/ Switches)
  BY CallerIsReady DEF kern_task_release_wait, SchedOK, Sched
<1>2. t # curr
  BY <1>1 DEF Waiting
<1>3. /\ SchedOK(k') /\ NextReady(k') /\ k'.state[curr] = "RUNNABLE"
      /\ \A u \in Task : u \notin Restartable /\ ~id_task[u] => k'.state[u] = "DORMANT"
  BY <1>1, <1>2, WaitEnds, ZenonT(40)
<1> QED BY <1>1, <1>3, CallKeeps

\* What starting a dormant task does, or counting the activation of another.
LEMMA StartKeeps ==
  ASSUME IInv, NEW t \in Task, id_task[t], k.state[t] = "DORMANT", k' = task_to_runnable(k, t)
  PROVE  /\ SchedOK(k') /\ NextReady(k') /\ k'.state = [k.state EXCEPT ![t] = "RUNNABLE"]
         /\ \A u \in Task : u \notin Restartable /\ ~id_task[u] => k'.state[u] = "DORMANT"
<1>1. /\ SchedOK(k) /\ k.state \in [Task -> States] /\ k.state[t] \in {"SUSPEND", "DORMANT"}
      /\ \A u \in Task : u \notin Restartable /\ ~id_task[u] => k.state[u] = "DORMANT"
  BY DEF IInv, KernelOK, SchedOK, Sched, UncreatedRest
<1>2. SchedOK(k') /\ NextReady(k') /\ k'.state = [k.state EXCEPT ![t] = "RUNNABLE"]
  BY <1>1, IdleStarts
<1> QED BY <1>1, <1>2

LEMMA ActivationCounted ==
  ASSUME IInv, NEW t \in Task, k' = [k EXCEPT !.act[t] = 1]
  PROVE  /\ SchedOK(k') /\ NextReady(k') /\ k'.state = k.state
         /\ \A u \in Task : u \notin Restartable /\ ~id_task[u] => k'.state[u] = "DORMANT"
<1>1. SchedOK(k) /\ NextReady(k)
  BY DEF IInv, KernelOK
<1>2. SchedOK(k') /\ NextReady(k') /\ k'.state = k.state
  BY <1>1, ActivationChanges
<1> QED BY <1>2 DEF IInv, UncreatedRest

LEMMA ActivateKeeps ==
  ASSUME IInv, NEW t \in Task, kern_task_activate(t)
  PROVE  IInv'
<1>1. /\ curr \in Task /\ k.state[curr] = "RUNNABLE" /\ Calls(curr)
      /\ id_task[t] /\ UnchangedTasks
  BY CallerIsReady DEF kern_task_activate
<1>2. CASE k.state[t] = "DORMANT" /\ k' = task_to_runnable(k, t) /\ Tests
  <2>1. /\ SchedOK(k') /\ NextReady(k')
        /\ \A u \in Task : u \notin Restartable /\ ~id_task[u] => k'.state[u] = "DORMANT"
    BY <1>1, <1>2, StartKeeps
  <2> QED BY <1>1, <1>2, <2>1, CallKeeps
<1>3. CASE k' = [k EXCEPT !.act[t] = 1] /\ Returns
  <2>1. /\ SchedOK(k') /\ NextReady(k') /\ k'.state[curr] = "RUNNABLE"
        /\ \A u \in Task : u \notin Restartable /\ ~id_task[u] => k'.state[u] = "DORMANT"
    BY <1>1, <1>3, ActivationCounted
  <2> QED BY <1>1, <1>3, <2>1, CallKeeps
<1> QED BY <1>2, <1>3 DEF kern_task_activate

LEMMA PriorityKeeps ==
  ASSUME IInv, NEW t \in Task, NEW new \in Priorities \cup {0},
         kern_task_change_priority(t, new)
  PROVE  IInv'
<1> DEFINE p == IF new = 0 THEN k.prio[t] ELSE new
<1>1. /\ curr \in Task /\ k.state[curr] = "RUNNABLE" /\ Calls(curr)
      /\ SchedOK(k) /\ NextReady(k) /\ UnchangedTasks
      /\ \A u \in Task : u \notin Restartable /\ ~id_task[u] => k.state[u] = "DORMANT"
  BY CallerIsReady DEF kern_task_change_priority, IInv, UncreatedRest
<1>2. p \in Nat
  BY <1>1, TasksAssumption DEF SchedOK, Sched
<1>3. \/ k.state[t] = "RUNNABLE" /\ k' = change_running_task_priority(k, t, p)
      \/ k' = [k EXCEPT !.prio[t] = p]
  BY DEF kern_task_change_priority
<1>4. Returns \/ Switches
  BY DEF kern_task_change_priority
<1> HIDE DEF p
<1>5. SchedOK(k') /\ NextReady(k') /\ k'.state = k.state
  BY <1>1, <1>2, <1>3, PriorityChanges, PriorityFieldChanges
<1> QED BY <1>1, <1>4, <1>5, CallKeeps
-----------------------------------------------------------------------------
(* Tasks that begin and end *)

\* The record kern_task_create leaves, before it starts the task.
CreatedTCB(s, t, p) ==
  [task_set_init_state(s, t) EXCEPT !.prio[t] = p, !.skip[t] = 0, !.act[t] = 0]

\* A TCB that is written anew is in no list, or in the ready list alone.
LEMMA InitStateStarts ==
  ASSUME NEW s, NEW t \in Task, Apart(s, t), NextReady(s),
         NEW p \in Nat, NEW start \in BOOLEAN,
         NEW r, r = CreatedTCB(s, t, p),
         NEW n, n = IF start THEN task_to_runnable(r, t) ELSE r
  PROVE  /\ SchedOK(n) /\ NextReady(n)
         /\ \A u \in Task \ {t} : n.state[u] = s.state[u]
<1> DEFINE i == task_set_init_state(s, t)
<1>1. /\ SchedOK(i) /\ i.ready = s.ready /\ i.next = s.next
      /\ i.state = [s.state EXCEPT ![t] = "DORMANT"]
  BY InitStateIdles
<1>2. r = [i EXCEPT !.prio[t] = p, !.skip[t] = 0, !.act[t] = 0]
  BY DEF CreatedTCB
<1> HIDE DEF i
<1>3. i \in Sched /\ s \in Sched /\ NextReady(i)
  <2>1. i \in Sched
    BY <1>1 DEF SchedOK
  <2>2. s \in Sched
    BY DEF Apart
  <2>3. NextReady(i)
    BY <1>1 DEF NextReady
  <2> QED BY <2>1, <2>2, <2>3
<1>4. r \in Sched
  <2>1. /\ [i.prio EXCEPT ![t] = p] \in [Task -> Nat]
        /\ [i.skip EXCEPT ![t] = 0] \in [Task -> Nat]
        /\ [i.act EXCEPT ![t] = 0] \in [Task -> {0, 1}]
    BY <1>3 DEF Sched
  <2>2. r = [i EXCEPT !.prio = [i.prio EXCEPT ![t] = p], !.skip = [i.skip EXCEPT ![t] = 0],
                      !.act = [i.act EXCEPT ![t] = 0]]
    BY <1>2
  <2> QED BY <1>3, <2>1, <2>2 DEF Sched
<1>5. /\ r.ready = i.ready /\ r.timers = i.timers /\ r.wq = i.wq /\ r.state = i.state
      /\ r.tick = i.tick /\ r.reason = i.reason /\ r.pwait = i.pwait /\ r.next = i.next
  BY <1>2, <1>3 DEF Sched
<1>6. SchedOK(r) /\ NextReady(r)
  BY <1>1, <1>3, <1>4, <1>5, OtherFieldsChange
<1>7. r.state[t] = "DORMANT" /\ \A u \in Task \ {t} : r.state[u] = s.state[u]
  BY <1>1, <1>3, <1>5 DEF Sched
<1>8. CASE start
  <2>1. r.state[t] \in {"SUSPEND", "DORMANT"} /\ n = task_to_runnable(r, t)
    BY <1>7, <1>8
  <2>2. SchedOK(n) /\ NextReady(n) /\ n.state = [r.state EXCEPT ![t] = "RUNNABLE"]
    BY <1>6, <2>1, IdleStarts
  <2>3. r.state \in [Task -> States]
    BY <1>4 DEF Sched
  <2>4. \A u \in Task \ {t} : n.state[u] = s.state[u]
    BY <1>7, <2>2, <2>3
  <2> QED BY <2>2, <2>4
<1>9. CASE ~start
  BY <1>6, <1>7, <1>9
<1> QED BY <1>8, <1>9

\* The end of a task: its TCB is reset, and started again if it was activated.
LEMMA Restarts ==
  ASSUME NEW s, NEW t \in Task, Apart(s, t),
         NextReady(s) \/ s.act[t] > 0,
         NEW r, r = Restarted(task_set_init_state(s, t), t)
  PROVE  /\ SchedOK(r) /\ NextReady(r)
         /\ r.state = [s.state EXCEPT ![t] = IF s.act[t] > 0 THEN "RUNNABLE" ELSE "DORMANT"]
<1> DEFINE i == task_set_init_state(s, t)
<1>1. /\ SchedOK(i) /\ i.ready = s.ready /\ i.next = s.next /\ i.act = s.act
      /\ i.state = [s.state EXCEPT ![t] = "DORMANT"]
  BY InitStateIdles
<1>2. r = Restarted(i, t)
  OBVIOUS
<1> HIDE DEF i
<1>3. i \in Sched /\ s \in Sched /\ i.state[t] = "DORMANT"
  <2>1. i \in Sched
    BY <1>1 DEF SchedOK
  <2>2. s \in Sched
    BY DEF Apart
  <2>3. s.state \in [Task -> States]
    BY <2>2 DEF Sched
  <2> QED BY <1>1, <2>1, <2>2, <2>3
<1>4. CASE i.act[t] > 0
  <2> DEFINE m == [i EXCEPT !.act[t] = i.act[t] - 1]
  <2>1. i.act \in [Task -> {0, 1}] /\ [i.act EXCEPT ![t] = i.act[t] - 1] \in [Task -> {0, 1}]
    BY <1>3, <1>4 DEF Sched
  <2>2. m = [i EXCEPT !.act = [i.act EXCEPT ![t] = i.act[t] - 1]]
    OBVIOUS
  <2>3. r = task_to_runnable(m, t)
    BY <1>2, <1>4 DEF Restarted
  <2> HIDE DEF m
  <2>4. /\ m \in Sched /\ m.ready = i.ready /\ m.timers = i.timers /\ m.wq = i.wq
        /\ m.state = i.state /\ m.tick = i.tick /\ m.reason = i.reason
        /\ m.pwait = i.pwait /\ m.next = i.next
    BY <1>3, <2>1, <2>2 DEF Sched
  <2>5. SchedOK(m) /\ m.state[t] \in {"SUSPEND", "DORMANT"}
    BY <1>1, <1>3, <2>4, OtherFieldsChange
  <2>6. SchedOK(r) /\ NextReady(r) /\ r.state = [m.state EXCEPT ![t] = "RUNNABLE"]
    BY <2>3, <2>5, IdleStarts
  <2> QED BY <1>1, <1>3, <1>4, <2>4, <2>6 DEF Sched
<1>5. CASE ~(i.act[t] > 0)
  <2>1. r = i
    BY <1>2, <1>5 DEF Restarted
  <2>2. NextReady(i)
    BY <1>1, <1>5 DEF NextReady
  <2> QED BY <1>1, <1>5, <2>1, <2>2
<1> QED BY <1>4, <1>5

LEMMA CreateKeeps ==
  ASSUME IInv, NEW t \in Task, NEW p \in Priorities, NEW start \in BOOLEAN,
         kern_task_create(t, p, start)
  PROVE  IInv'
<1>1. /\ curr \in Task /\ k.state[curr] = "RUNNABLE" /\ cpu = "run" /\ ~pend
      /\ SchedOK(k) /\ NextReady(k)
  BY CallerIsReady DEF kern_task_create
<1>2. k.state[t] = "DORMANT" /\ t # curr /\ p \in Nat
  BY <1>1, TasksAssumption DEF kern_task_create, IInv, UncreatedRest
<1>3. Apart(k, t)
  BY <1>1, <1>2, IdleIsApart DEF Waiting
<1>4. /\ SchedOK(k') /\ NextReady(k')
      /\ \A u \in Task \ {t} : k'.state[u] = k.state[u]
  <2> DEFINE r == [task_set_init_state(k, t) EXCEPT !.prio[t] = p, !.skip[t] = 0, !.act[t] = 0]
             n == IF start THEN task_to_runnable(r, t) ELSE r
  <2>1. k' = n
    BY DEF kern_task_create
  <2>2. /\ r = CreatedTCB(k, t, p)
        /\ n = IF start THEN task_to_runnable(r, t) ELSE r
    BY DEF CreatedTCB
  <2> HIDE DEF r, n
  <2>3. /\ SchedOK(n) /\ NextReady(n)
        /\ \A u \in Task \ {t} : n.state[u] = k.state[u]
    BY <1>1, <1>2, <1>3, <2>2, InitStateStarts
  <2> QED BY <2>1, <2>3
<1>5. created' \in Links(Nodes)
  <2>1. created \in Links(Nodes) /\ t \in Nodes /\ CreateList \in Nodes
    BY DEF IInv, VariablesOK, Nodes
  <2> QED BY <2>1, LinksKept DEF kern_task_create
<1>6. VariablesOK'
  BY <1>5 DEF IInv, VariablesOK, kern_task_create, Points
<1>7. UncreatedRest'
  BY <1>4 DEF IInv, UncreatedRest, VariablesOK, kern_task_create
<1>8. RunsReady'
  BY <1>1, <1>2, <1>4 DEF RunsReady, kern_task_create
<1> QED BY <1>4, <1>6, <1>7, <1>8 DEF IInv, KernelOK

LEMMA ExitKeeps ==
  ASSUME IInv, NEW delete \in BOOLEAN, kern_task_exit(delete)
  PROVE  IInv'
<1>1. /\ curr \in Task /\ k.state[curr] = "RUNNABLE" /\ SchedOK(k) /\ k \in Sched
      /\ curr \in ToSet(k.ready) /\ NoDuplicates(k.ready)
  BY CallerIsReady DEF kern_task_exit, SchedOK, ReadyOK
<1>2. ToSet(k.ready) # {curr}
  BY <1>1, AnotherIsReady DEF kern_task_exit
<1> DEFINE s == task_to_non_runnable(k, curr)
<1>3. Apart(s, curr)
  BY <1>1, StoppedIsApart
<1>4. NextReady(s) /\ s.state = k.state /\ s.act = k.act
  BY <1>1, <1>2, NonRunnableLeaves
<1>5. k' = Restarted(task_set_init_state(s, curr), curr)
  BY DEF kern_task_exit
<1> HIDE DEF s
<1>6. /\ SchedOK(k') /\ NextReady(k')
      /\ k'.state = [k.state EXCEPT ![curr] = IF k.act[curr] > 0 THEN "RUNNABLE"
                                              ELSE "DORMANT"]
  BY <1>1, <1>3, <1>4, <1>5, Restarts
<1>7. created' \in Links(Nodes)
  <2> DEFINE l == queue_reset(created, curr)
  <2>1. created \in Links(Nodes) /\ curr \in Nodes
    BY DEF IInv, VariablesOK, Nodes
  <2>2. l \in Links(Nodes) /\ created' = IF delete THEN queue_remove_entry(l, curr) ELSE l
    BY <2>1, LinksKept DEF kern_task_exit
  <2> HIDE DEF l
  <2> QED BY <2>1, <2>2, LinksKept
<1>8. VariablesOK'
  BY <1>7 DEF IInv, VariablesOK, kern_task_exit, Points
<1>9. UncreatedRest'
  <2>1. /\ k.state \in [Task -> States] /\ id_task \in [Task -> BOOLEAN] /\ curr \in Restartable
        /\ id_task' = [id_task EXCEPT ![curr] = @ /\ ~delete]
    BY <1>1 DEF IInv, VariablesOK, Sched, kern_task_exit
  <2>2. \A u \in Task \ {curr} : k'.state[u] = k.state[u] /\ id_task'[u] = id_task[u]
    BY <1>6, <2>1
  <2> QED BY <2>1, <2>2 DEF IInv, UncreatedRest
<1>10. RunsReady'
  BY DEF RunsReady, kern_task_exit
<1> QED BY <1>6, <1>8, <1>9, <1>10 DEF IInv, KernelOK

\* LeaveQueues for a record that is in order.
LEMMA UnreadyLeaves ==
  ASSUME NEW s, SchedOK(s), NEW t \in Task, s.state[t] # "RUNNABLE",
         NEW r, r = LeaveQueues(s, t)
  PROVE  /\ Apart(r, t) /\ r.state = s.state /\ r.act = s.act
         /\ r.ready = s.ready /\ r.next = s.next
<1>1. /\ s \in Sched /\ ReadyOK(s) /\ TimersOK(s) /\ WaitQueuesOK(s)
      /\ \A u \in Task \ {t} : FieldsOK(s, u)
  BY DEF SchedOK, WaitFieldsOK, FieldsOK
<1> DEFINE l == LeaveQueues(s, t)
<1>2. /\ Apart(l, t) /\ l.state = s.state /\ l.act = s.act
      /\ l.ready = s.ready /\ l.next = s.next
      /\ l.tick = [s.tick EXCEPT ![t] = Infinite]
      /\ l.pwait = [s.pwait EXCEPT ![t] = NoQueue]
      /\ l.reason = s.reason
      /\ l.rc = s.rc /\ l.prio = s.prio /\ l.wake = s.wake
  BY <1>1, LeaverIsApart
<1> HIDE DEF l
<1> QED BY <1>2 DEF l

\* A task that is terminated leaves every list it is in.
LEMMA LeavesEverything ==
  ASSUME NEW s, SchedOK(s), NextReady(s), NEW t \in Task, ToSet(s.ready) # {t},
         NEW r, r = IF s.state[t] = "RUNNABLE" THEN task_to_non_runnable(s, t)
                    ELSE LeaveQueues(s, t)
  PROVE  Apart(r, t) /\ NextReady(r) /\ r.state = s.state /\ r.act = s.act
<1>1. CASE s.state[t] = "RUNNABLE"
  <2>1. /\ t \in ToSet(s.ready) /\ NoDuplicates(s.ready) /\ s \in Sched
        /\ r = task_to_non_runnable(s, t)
    BY <1>1 DEF SchedOK, ReadyOK
  <2>2. Apart(r, t)
    BY <1>1, <2>1, StoppedIsApart
  <2>3. NextReady(r) /\ r.state = s.state /\ r.act = s.act
    BY <2>1, NonRunnableLeaves
  <2> QED BY <2>2, <2>3
<1>2. CASE s.state[t] # "RUNNABLE"
  <2>1. r = LeaveQueues(s, t)
    BY <1>2
  <2>2. /\ Apart(r, t) /\ r.state = s.state /\ r.act = s.act
        /\ r.ready = s.ready /\ r.next = s.next
    BY <1>2, <2>1, UnreadyLeaves
  <2> QED BY <2>2 DEF NextReady
<1> QED BY <1>1, <1>2

LEMMA TerminateKeeps ==
  ASSUME IInv, NEW t \in Task, kern_task_terminate(t)
  PROVE  IInv'
<1>1. /\ curr \in Task /\ k.state[curr] = "RUNNABLE" /\ cpu = "run" /\ ~pend
      /\ SchedOK(k) /\ NextReady(k) /\ k \in Sched /\ t # curr /\ id_task[t]
  BY CallerIsReady DEF kern_task_terminate, SchedOK
<1>2. ToSet(k.ready) # {t}
  BY AnotherIsReady DEF kern_task_terminate
<1> DEFINE s == IF k.state[t] = "RUNNABLE" THEN task_to_non_runnable(k, t)
                ELSE LeaveQueues(k, t)
<1>3. Apart(s, t) /\ NextReady(s) /\ s.state = k.state /\ s.act = k.act
  <2>1. s = IF k.state[t] = "RUNNABLE" THEN task_to_non_runnable(k, t) ELSE LeaveQueues(k, t)
    OBVIOUS
  <2> HIDE DEF s
  <2> QED BY <1>1, <1>2, <2>1, LeavesEverything
<1>4. k' = Restarted(task_set_init_state(s, t), t)
  BY DEF kern_task_terminate
<1> HIDE DEF s
<1>5. /\ SchedOK(k') /\ NextReady(k')
      /\ k'.state = [k.state EXCEPT ![t] = IF k.act[t] > 0 THEN "RUNNABLE" ELSE "DORMANT"]
  BY <1>3, <1>4, Restarts
<1>6. created' \in Links(Nodes)
  <2>1. created \in Links(Nodes) /\ t \in Nodes
    BY DEF IInv, VariablesOK, Nodes
  <2> QED BY <2>1, LinksKept DEF kern_task_terminate
<1>7. VariablesOK'
  BY <1>6 DEF IInv, VariablesOK, kern_task_terminate, Points
<1>8. \A u \in Task \ {t} : k'.state[u] = k.state[u]
  BY <1>1, <1>5 DEF Sched
<1>9. UncreatedRest'
  BY <1>1, <1>8 DEF IInv, UncreatedRest, kern_task_terminate
<1>10. RunsReady'
  BY <1>1, <1>8 DEF RunsReady, kern_task_terminate
<1> QED BY <1>5, <1>7, <1>9, <1>10 DEF IInv, KernelOK

LEMMA DeleteKeeps ==
  ASSUME IInv, NEW t \in Task, kern_task_delete(t)
  PROVE  IInv'
<1>1. k' = k /\ Returns /\ KernelOK' /\ RunsReady'
  BY DEF kern_task_delete, Returns, IInv, KernelOK, RunsReady
<1>2. created' \in Links(Nodes)
  <2>1. created \in Links(Nodes) /\ t \in Nodes
    BY DEF IInv, VariablesOK, Nodes
  <2> QED BY <2>1, LinksKept DEF kern_task_delete
<1>3. VariablesOK'
  BY <1>1, <1>2 DEF IInv, VariablesOK, kern_task_delete, Returns
<1>4. UncreatedRest'
  BY <1>1 DEF IInv, VariablesOK, UncreatedRest, kern_task_delete
<1> QED BY <1>1, <1>3, <1>4 DEF IInv
-----------------------------------------------------------------------------
(* The context switch, the tick and the other interrupts *)

\* A call that goes on without a switch has found its caller to be the next task.
LEMMA TestNextKeeps ==
  ASSUME IInv, TestNext
  PROVE  IInv'
<1>1. k' = k /\ id_task' = id_task /\ KernelOK' /\ UncreatedRest'
  BY DEF TestNext, IInv, KernelOK, UncreatedRest
<1>2. VariablesOK'
  BY DEF TestNext, IInv, VariablesOK, Points
<1>3. k.next = curr => k.state[curr] = "RUNNABLE"
  BY DEF IInv, VariablesOK, KernelOK, NextReady, SchedOK, ReadyOK
<1>4. RunsReady'
  BY <1>3 DEF TestNext, RunsReady
<1> QED BY <1>1, <1>2, <1>4 DEF IInv

LEMMA SwitchContextKeeps ==
  ASSUME IInv, SwitchContext
  PROVE  IInv'
<1>1. k' = k /\ id_task' = id_task /\ KernelOK' /\ UncreatedRest'
  BY DEF SwitchContext, IInv, KernelOK, UncreatedRest
<1>2. VariablesOK' /\ RunsReady'
  BY DEF SwitchContext, IInv, VariablesOK, RunsReady, Points
<1> QED BY <1>1, <1>2 DEF IInv

\* PendSV goes to kern_next_task_to_run, which is ready, or stays where it is.
LEMMA PendSVKeeps ==
  ASSUME IInv, PendSV
  PROVE  IInv'
<1>1. k' = k /\ id_task' = id_task /\ KernelOK' /\ UncreatedRest'
  BY DEF PendSV, IInv, KernelOK, UncreatedRest
<1>2. k.next \in Task /\ k.state[k.next] = "RUNNABLE"
  <2>1. k \in Sched /\ ReadyOK(k) /\ NextReady(k)
    BY DEF IInv, KernelOK, SchedOK
  <2>2. k.next \in Task
    BY <2>1 DEF Sched
  <2> QED BY <2>1, <2>2 DEF ReadyOK, NextReady
<1>3. VariablesOK'
  <2>1. curr \in Task /\ cpu \in Points /\ sp \in [Task -> Points]
    BY DEF IInv, VariablesOK
  <2>2. curr' \in Task /\ cpu' \in Points /\ sp' \in [Task -> Points]
    <3>1. CASE request
      <4>1. sp' = [sp EXCEPT ![curr] = cpu] /\ curr' = k.next /\ cpu' = sp'[k.next]
        BY <3>1 DEF PendSV
      <4>2. sp' \in [Task -> Points]
        BY <2>1, <4>1
      <4> QED BY <1>2, <4>1, <4>2
    <3>2. CASE ~request
      BY <2>1, <3>2 DEF PendSV
    <3> QED BY <3>1, <3>2
  <2>3. /\ created' \in Links(Nodes) /\ id_task' \in [Task -> BOOLEAN]
        /\ us_count' \in 0..TicksPerMs-1
    BY DEF PendSV, IInv, VariablesOK
  <2>4. pend' \in BOOLEAN /\ request' \in BOOLEAN
    BY DEF PendSV
  <2> QED BY <2>2, <2>3, <2>4 DEF VariablesOK
<1>4. RunsReady'
  <2>1. CASE request
    BY <1>1, <1>2, <2>1 DEF PendSV, RunsReady
  <2>2. CASE ~request
    BY <1>1, <2>2 DEF PendSV, IInv, RunsReady
  <2> QED BY <2>1, <2>2
<1> QED BY <1>1, <1>3, <1>4 DEF IInv

\* The tick, with whatever scans that keep the record in order and only end waits.
LEMMA TickKeeps ==
  ASSUME IInv, Tick, NEW s, SchedOK(s), NextReady(s), OnlyEndsWaits(k, s),
         k' = RotateUnless(s, k.next), pend' = TRUE, request' = TRUE,
         UNCHANGED << created, id_task, curr, cpu, sp >>
  PROVE  IInv' /\ OnlyEndsWaits(k, k')
<1>1. us_count' \in 0..TicksPerMs-1
  <2>1. us_count \in Nat /\ TicksPerMs \in Nat \ {0}
    BY TasksAssumption DEF IInv, VariablesOK
  <2> QED BY <2>1 DEF Tick
<1>2. VariablesOK'
  BY <1>1 DEF IInv, VariablesOK
<1>3. /\ SchedOK(k') /\ NextReady(k') /\ k'.state = s.state /\ k'.wq = s.wq
      /\ k'.pwait = s.pwait /\ k'.reason = s.reason
  BY RotateKeeps
<1>4. OnlyEndsWaits(k, k')
  BY <1>3 DEF OnlyEndsWaits, NobodyJoins
<1>5. UncreatedRest'
  BY <1>4 DEF IInv, UncreatedRest, OnlyEndsWaits
<1>6. RunsReady'
  BY DEF RunsReady
<1> QED BY <1>2, <1>3, <1>4, <1>5, <1>6 DEF IInv, KernelOK

LEMMA SysTickKeeps ==
  ASSUME IInv, SysTick
  PROVE  IInv' /\ OnlyEndsWaits(k, k')
<1> DEFINE ms == us_count' = 0
           s  == ScanTimeouts(k, ms)
<1>1. /\ SchedOK(k) /\ NextReady(k) /\ ms \in BOOLEAN
      /\ Tick /\ k' = RotateUnless(s, k.next) /\ pend' = TRUE /\ request' = TRUE
      /\ UNCHANGED << created, id_task, curr, cpu, sp >>
  BY DEF SysTick, IInv, KernelOK
<1> HIDE DEF ms
<1>2. SchedOK(s) /\ NextReady(s) /\ OnlyEndsWaits(k, s)
  BY <1>1, ScanKeeps
<1> HIDE DEF s
<1> QED BY <1>1, <1>2, TickKeeps

\* An interrupt keeps the invariant if it keeps the record in order, takes back no
\* request and leaves the task it interrupts ready.
LEMMA InterruptKeeps ==
  ASSUME IInv, InterruptExit, request' \in BOOLEAN, request => request',
         SchedOK(k'), NextReady(k'),
         \A t \in Task : t \notin Restartable /\ ~id_task[t] => k'.state[t] = "DORMANT",
         k.state[curr] = "RUNNABLE" => k'.state[curr] = "RUNNABLE"
  PROVE  IInv'
<1>1. VariablesOK'
  BY DEF IInv, VariablesOK, InterruptExit
<1>2. UncreatedRest'
  BY DEF UncreatedRest, InterruptExit
<1>3. RunsReady'
  BY DEF IInv, RunsReady, InterruptExit
<1> QED BY <1>1, <1>2, <1>3 DEF IInv, KernelOK

LEMMA InterruptWakeupKeeps ==
  ASSUME IInv, NEW t \in Task, kern_task_iwakeup(t)
  PROVE  IInv'
<1>1. /\ id_task[t] /\ InterruptExit /\ request \in BOOLEAN /\ curr \in Task
      /\ k.state \in [Task -> States]
  BY DEF kern_task_iwakeup, IInv, VariablesOK, KernelOK, SchedOK, Sched
<1>2. CASE /\ Sleeping(t) /\ k' = task_wait_complete(k, t)
           /\ request' = (request \/ ~Suspended(k.state[t]))
  <2>1. Waiting(k.state[t]) /\ k.state[t] # "RUNNABLE"
    BY <1>2 DEF Sleeping, Waiting
  <2>2. /\ SchedOK(k') /\ NextReady(k')
        /\ k.state[curr] = "RUNNABLE" => k'.state[curr] = "RUNNABLE"
        /\ \A u \in Task : u \notin Restartable /\ ~id_task[u] => k'.state[u] = "DORMANT"
    BY <1>1, <1>2, <2>1, WaitEnds, ZenonT(40)
  <2>3. request' \in BOOLEAN /\ (request => request')
    BY <1>2
  <2> QED BY <1>1, <2>2, <2>3, InterruptKeeps
<1>3. CASE CountWakeup /\ UNCHANGED request
  <2>1. /\ SchedOK(k') /\ NextReady(k') /\ k'.state = k.state
        /\ \A u \in Task : u \notin Restartable /\ ~id_task[u] => k'.state[u] = "DORMANT"
    BY <1>3, CountKeeps
  <2>2. request' \in BOOLEAN /\ (request => request')
    BY <1>1, <1>3
  <2> QED BY <1>1, <2>1, <2>2, InterruptKeeps
<1> QED BY <1>2, <1>3 DEF kern_task_iwakeup

LEMMA InterruptActivateKeeps ==
  ASSUME IInv, NEW t \in Task, kern_task_iactivate(t)
  PROVE  IInv'
<1>1. /\ id_task[t] /\ InterruptExit /\ request \in BOOLEAN /\ curr \in Task
      /\ k.state \in [Task -> States]
  BY DEF kern_task_iactivate, IInv, VariablesOK, KernelOK, SchedOK, Sched
<1>2. CASE /\ k.state[t] = "DORMANT" /\ k' = task_to_runnable(k, t)
           /\ request' = (request \/ k'.next # curr)
  <2>1. /\ SchedOK(k') /\ NextReady(k')
        /\ k.state[curr] = "RUNNABLE" => k'.state[curr] = "RUNNABLE"
        /\ \A u \in Task : u \notin Restartable /\ ~id_task[u] => k'.state[u] = "DORMANT"
    BY <1>1, <1>2, StartKeeps
  <2>2. request' \in BOOLEAN /\ (request => request')
    BY <1>2
  <2> QED BY <1>1, <2>1, <2>2, InterruptKeeps
<1>3. CASE k' = [k EXCEPT !.act[t] = 1] /\ UNCHANGED request
  <2>1. /\ SchedOK(k') /\ NextReady(k') /\ k'.state = k.state
        /\ \A u \in Task : u \notin Restartable /\ ~id_task[u] => k'.state[u] = "DORMANT"
    BY <1>3, ActivationCounted
  <2>2. request' \in BOOLEAN /\ (request => request')
    BY <1>1, <1>3
  <2> QED BY <1>1, <2>1, <2>2, InterruptKeeps
<1> QED BY <1>2, <1>3 DEF kern_task_iactivate

LEMMA InterruptReleaseKeeps ==
  ASSUME IInv, NEW t \in Task, kern_task_irelease_wait(t)
  PROVE  IInv'
<1>1. /\ id_task[t] /\ InterruptExit /\ request \in BOOLEAN /\ curr \in Task
      /\ k.state \in [Task -> States] /\ Waiting(k.state[t]) /\ k.state[t] # "RUNNABLE"
      /\ k' = task_wait_complete(k, t) /\ request' = (request \/ ~Suspended(k.state[t]))
  BY DEF kern_task_irelease_wait, IInv, VariablesOK, KernelOK, SchedOK, Sched, Waiting
<1>2. /\ SchedOK(k') /\ NextReady(k')
      /\ k.state[curr] = "RUNNABLE" => k'.state[curr] = "RUNNABLE"
      /\ \A u \in Task : u \notin Restartable /\ ~id_task[u] => k'.state[u] = "DORMANT"
  BY <1>1, WaitEnds, ZenonT(40)
<1>3. request' \in BOOLEAN /\ (request => request')
  BY <1>1
<1> QED BY <1>1, <1>2, <1>3, InterruptKeeps
-----------------------------------------------------------------------------
(* The wait queues of the kernel objects *)

\* Who is in a wait queue exists and waits.
LEMMA QueuedWaits ==
  ASSUME IInv, NEW q \in Queue, k.wq[q] # << >>
  PROVE  /\ Head(k.wq[q]) \in Task /\ Waiting(k.state[Head(k.wq[q])])
         /\ Restartable = {} => id_task[Head(k.wq[q])]
<1> DEFINE t == Head(k.wq[q])
<1>1. /\ k.wq[q] \in Seq(Task) /\ WaitQueuesOK(k) /\ WaitFieldsOK(k)
      /\ \A u \in Task : u \notin Restartable /\ ~id_task[u] => k.state[u] = "DORMANT"
  BY DEF IInv, KernelOK, SchedOK, Sched, UncreatedRest
<1>2. t \in Task /\ t \in ToSet(k.wq[q])
  BY <1>1 DEF ToSet
<1> HIDE DEF t
<1>3. k.pwait[t] = q /\ q # NoQueue
  BY <1>1, <1>2, NoQueueAssumption DEF WaitQueuesOK
<1>4. Waiting(k.state[t])
  BY <1>1, <1>2, <1>3 DEF WaitFieldsOK
<1> QED BY <1>1, <1>2, <1>4 DEF Waiting, t

\* What a call or a handler does to the scheduler's record when nobody starts to wait.
EndsWait == k' = k \/ \E t \in Task : Waiting(k.state[t]) /\ id_task[t] /\ k' = task_wait_complete(k, t)

LEMMA EndedWaitJoinsNone ==
  ASSUME IInv, EndsWait
  PROVE  NobodyJoins(k, k')
<1>1. "wq" \in DOMAIN k
  BY DEF IInv, KernelOK, SchedOK, Sched
<1>2. CASE k' = k
  BY <1>2 DEF NobodyJoins
<1>3. CASE \E t \in Task : k' = task_wait_complete(k, t)
  BY <1>1, <1>3, WaitEndJoinsNone
<1> QED BY <1>2, <1>3 DEF EndsWait

LEMMA EndedWaitKeeps ==
  ASSUME IInv, EndsWait
  PROVE  /\ SchedOK(k') /\ NextReady(k')
         /\ k.state[curr] = "RUNNABLE" => k'.state[curr] = "RUNNABLE"
         /\ \A u \in Task : u \notin Restartable /\ ~id_task[u] => k'.state[u] = "DORMANT"
<1>1. CASE k' = k
  BY <1>1 DEF IInv, KernelOK, UncreatedRest
<1>2. CASE \E t \in Task : Waiting(k.state[t]) /\ id_task[t] /\ k' = task_wait_complete(k, t)
  <2>1. PICK t \in Task : Waiting(k.state[t]) /\ id_task[t] /\ k' = task_wait_complete(k, t)
    BY <1>2
  <2>2. /\ SchedOK(k') /\ NextReady(k')
        /\ k'.state = [k.state EXCEPT ![t] = IF Suspended(k.state[t]) THEN "SUSPEND"
                                             ELSE "RUNNABLE"]
        /\ \A u \in Task : u \notin Restartable /\ ~id_task[u] => k'.state[u] = "DORMANT"
    BY <2>1, WaitEnds, ZenonT(40)
  <2>3. k.state \in [Task -> States] /\ curr \in Task /\ k.state[t] # "RUNNABLE"
    BY <2>1 DEF IInv, VariablesOK, KernelOK, SchedOK, Sched, Waiting
  <2>4. k.state[curr] = "RUNNABLE" => k'.state[curr] = "RUNNABLE"
    BY <2>2, <2>3
  <2> QED BY <2>2, <2>4
<1> QED BY <1>1, <1>2 DEF EndsWait

\* A call, or the handler of an interrupt, that ends a wait or changes nothing.
LEMMA EndingCallKeeps ==
  ASSUME IInv, Calls(curr), EndsWait, UnchangedTasks, Returns \/ Switches
  PROVE  IInv'
<1>1. /\ SchedOK(k') /\ NextReady(k') /\ k'.state[curr] = "RUNNABLE"
      /\ \A u \in Task : u \notin Restartable /\ ~id_task[u] => k'.state[u] = "DORMANT"
  BY EndedWaitKeeps, CallerIsReady
<1> QED BY <1>1, CallKeeps

LEMMA EndingHandlerKeeps ==
  ASSUME IInv, EndsWait, InterruptExit, request' \in BOOLEAN, request => request'
  PROVE  IInv'
<1>1. /\ SchedOK(k') /\ NextReady(k')
      /\ k.state[curr] = "RUNNABLE" => k'.state[curr] = "RUNNABLE"
      /\ \A u \in Task : u \notin Restartable /\ ~id_task[u] => k'.state[u] = "DORMANT"
  BY EndedWaitKeeps
<1> QED BY <1>1, InterruptKeeps

\* The caller starts to wait in a queue while another task is ready.
LEMMA CallerQueues ==
  ASSUME NEW s, SchedOK(s), NEW t \in Task, s.state[t] = "RUNNABLE", ToSet(s.ready) # {t},
         NEW q \in Queue, NEW reason \in Reasons \ {"NONE"}, NEW timeout \in Timeouts,
         NEW r, r = task_curr_to_wait_action(s, t, q, reason, timeout)
  PROVE  SchedOK(r) /\ NextReady(r) /\ r.state = [s.state EXCEPT ![t] = "WAIT"]
<1>1. timeout \in (Nat \ {0}) \cup {Infinite} /\ q \in Queue \cup {NoQueue}
  BY TasksAssumption
<1> QED BY <1>1, CurrentWaits

\* The caller of a kernel object starts to wait in the object's queue.
LEMMA QueueingKeeps ==
  ASSUME IInv, Calls(curr), MayStop(curr), Switches, UnchangedTasks,
         NEW q \in Queue, NEW reason \in Reasons \ {"NONE"}, NEW timeout \in Timeouts,
         k' = task_curr_to_wait_action(k, curr, q, reason, timeout)
  PROVE  /\ IInv'
         /\ \A x \in Queue \ {q} : k'.wq[x] = k.wq[x]
<1>1. /\ curr \in Task /\ k.state[curr] = "RUNNABLE" /\ SchedOK(k)
      /\ k.state \in [Task -> States] /\ "wq" \in DOMAIN k
  BY CallerIsReady DEF SchedOK, Sched
<1>2. ToSet(k.ready) # {curr}
  BY <1>1, AnotherIsReady
<1>3. SchedOK(k') /\ NextReady(k') /\ k'.state = [k.state EXCEPT ![curr] = "WAIT"]
  BY <1>1, <1>2, CallerQueues
<1>4. \A u \in Task : u \notin Restartable /\ ~id_task[u] => k'.state[u] = "DORMANT"
  BY <1>1, <1>3 DEF IInv, UncreatedRest
<1>5. IInv'
  BY <1>3, <1>4, CallKeeps
<1>6. \A x \in Queue \ {q} : k'.wq[x] = k.wq[x]
  BY <1>1, CurrentJoins
<1> QED BY <1>5, <1>6

\* A step that leaves all waits as they are: who waits, for what and how long.
SameWaits(s, r) ==
  /\ r.wq = s.wq /\ r.pwait = s.pwait /\ r.reason = s.reason /\ r.tick = s.tick
  /\ \A u \in Task : Waiting(r.state[u]) <=> Waiting(s.state[u])

\* A task that is created has not waited, and does not. No other's return code is written.
LEMMA CreationLeavesWaits ==
  ASSUME IInv, NEW t \in Task, NEW p, NEW start \in BOOLEAN, kern_task_create(t, p, start)
  PROVE  SameWaits(k, k') /\ \A u \in Task \ {t} : k'.rc[u] = k.rc[u]
<1> DEFINE s == [task_set_init_state(k, t) EXCEPT !.prio[t] = p, !.skip[t] = 0, !.act[t] = 0]
<1>1. /\ k \in Sched /\ DOMAIN k = Fields /\ k.state[t] = "DORMANT" /\ ~Waiting(k.state[t])
      /\ k.reason[t] = "NONE" /\ k.tick[t] = Infinite /\ k.pwait[t] = NoQueue
  <2>1. SchedOK(k) /\ k \in Sched /\ k.state[t] = "DORMANT"
    BY DEF IInv, KernelOK, SchedOK, UncreatedRest, kern_task_create
  <2>2. ~Waiting(k.state[t])
    BY <2>1 DEF Waiting
  <2> QED BY <2>1, <2>2, SchedFields DEF SchedOK, WaitFieldsOK
<1>2. /\ DOMAIN s = Fields /\ s.wq = k.wq /\ s.state = k.state
      /\ s.pwait = k.pwait /\ s.reason = k.reason /\ s.tick = k.tick
      /\ s.rc = [k.rc EXCEPT ![t] = "NO_ERR"]
  <2> DEFINE m == task_set_init_state(k, t)
  <2>1. /\ DOMAIN m = Fields /\ m.wq = k.wq
        /\ m.state = [k.state EXCEPT ![t] = "DORMANT"]
        /\ m.pwait = [k.pwait EXCEPT ![t] = NoQueue]
        /\ m.reason = [k.reason EXCEPT ![t] = "NONE"]
        /\ m.tick = [k.tick EXCEPT ![t] = Infinite]
        /\ m.rc = [k.rc EXCEPT ![t] = "NO_ERR"]
    BY <1>1 DEF task_set_init_state, Fields
  <2>2. /\ k.state \in [Task -> States] /\ k.pwait \in [Task -> Queue \cup {NoQueue}]
        /\ k.reason \in [Task -> Reasons] /\ k.tick \in [Task -> Nat \cup {Infinite}]
    BY <1>1 DEF Sched
  <2>3. /\ m.state = k.state /\ m.pwait = k.pwait /\ m.reason = k.reason /\ m.tick = k.tick
    BY <1>1, <2>1, <2>2
  <2> HIDE DEF m
  <2>4. s = [m EXCEPT !.prio[t] = p, !.skip[t] = 0, !.act[t] = 0]
    BY DEF m
  <2> HIDE DEF s
  <2> QED BY <2>1, <2>3, <2>4 DEF Fields
<1>3. k' = IF start THEN task_to_runnable(s, t) ELSE s
  BY DEF kern_task_create
<1> HIDE DEF s
<1>4. CASE start
  <2>1. /\ k'.state = [s.state EXCEPT ![t] = "RUNNABLE"]
        /\ k'.pwait = [s.pwait EXCEPT ![t] = NoQueue]
        /\ k'.wq = s.wq /\ k'.tick = s.tick /\ k'.reason = s.reason /\ k'.rc = s.rc
    <3>1. DOMAIN s = Fields /\ k' = task_to_runnable(s, t)
      BY <1>2, <1>3, <1>4
    <3>2. PICK r : r = task_to_runnable(s, t)
      OBVIOUS
    <3>3. /\ r.state = [s.state EXCEPT ![t] = "RUNNABLE"]
          /\ r.pwait = [s.pwait EXCEPT ![t] = NoQueue]
          /\ r.wq = s.wq /\ r.tick = s.tick /\ r.reason = s.reason /\ r.rc = s.rc
      BY <3>1, <3>2, RunnableEffects
    <3> QED BY <3>1, <3>2, <3>3
  <2>2. k'.pwait = k.pwait
    BY <1>1, <1>2, <2>1 DEF Sched
  <2>3. \A u \in Task : Waiting(k'.state[u]) <=> Waiting(k.state[u])
    BY <1>1, <1>2, <2>1 DEF Sched, Waiting
  <2> QED BY <1>1, <1>2, <2>1, <2>2, <2>3 DEF SameWaits, Sched
<1>5. CASE ~start
  BY <1>1, <1>2, <1>3, <1>5 DEF SameWaits, Sched
<1> QED BY <1>4, <1>5

\* A waiting task that is suspended or resumed goes on waiting.
LEMMA SuspensionLeavesWaits ==
  ASSUME IInv, NEW t \in Task, kern_task_suspend(t) \/ kern_task_resume(t)
  PROVE  SameWaits(k, k') /\ k'.rc = k.rc
<1>1. /\ k \in Sched /\ DOMAIN k = Fields
      /\ ~Waiting(k.state[t]) => k.pwait[t] = NoQueue
  <2>1. SchedOK(k) /\ k \in Sched
    BY DEF IInv, KernelOK, SchedOK
  <2> QED BY <2>1, SchedFields DEF SchedOK, WaitFieldsOK
<1>2. CASE /\ k.state[t] = "RUNNABLE"
           /\ k' = task_to_non_runnable([k EXCEPT !.state[t] = "SUSPEND"], t)
  <2> DEFINE s == [k EXCEPT !.state[t] = "SUSPEND"]
  <2>1. /\ DOMAIN s = Fields /\ s.state = [k.state EXCEPT ![t] = "SUSPEND"]
        /\ s.wq = k.wq /\ s.pwait = k.pwait /\ s.reason = k.reason /\ s.tick = k.tick
        /\ s.rc = k.rc
        /\ k' = task_to_non_runnable(s, t)
    BY <1>1, <1>2 DEF Fields
  <2> HIDE DEF s
  <2>2. /\ k'.state = s.state /\ k'.pwait = s.pwait
        /\ k'.wq = s.wq /\ k'.tick = s.tick /\ k'.reason = s.reason /\ k'.rc = s.rc
    BY <2>1, NonRunnableEffects
  <2>3. \A u \in Task : Waiting(k'.state[u]) <=> Waiting(k.state[u])
    BY <1>1, <1>2, <2>1, <2>2 DEF Sched, Waiting
  <2> QED BY <2>1, <2>2, <2>3 DEF SameWaits
<1>3. CASE k.state[t] = "SUSPEND" /\ k' = task_to_runnable(k, t)
  <2>1. /\ k'.state = [k.state EXCEPT ![t] = "RUNNABLE"]
        /\ k'.pwait = [k.pwait EXCEPT ![t] = NoQueue]
        /\ k'.wq = k.wq /\ k'.tick = k.tick /\ k'.reason = k.reason /\ k'.rc = k.rc
    BY <1>1, <1>3, RunnableEffects
  <2>2. k'.pwait = k.pwait
    BY <1>1, <1>3, <2>1 DEF Sched, Waiting
  <2>3. \A u \in Task : Waiting(k'.state[u]) <=> Waiting(k.state[u])
    BY <1>1, <1>3, <2>1 DEF Sched, Waiting
  <2> QED BY <2>1, <2>2, <2>3 DEF SameWaits
<1>4. CASE \E st \in {"WAIT", "WAITSUSP"} : Waiting(k.state[t]) /\ k' = [k EXCEPT !.state[t] = st]
  <2>1. PICK st \in {"WAIT", "WAITSUSP"} : k' = [k EXCEPT !.state[t] = st]
    BY <1>4
  <2>2. /\ k'.state = [k.state EXCEPT ![t] = st]
        /\ k'.pwait = k.pwait /\ k'.wq = k.wq /\ k'.tick = k.tick /\ k'.reason = k.reason
        /\ k'.rc = k.rc
    BY <1>1, <2>1 DEF Fields
  <2>3. \A u \in Task : Waiting(k'.state[u]) <=> Waiting(k.state[u])
    BY <1>1, <1>4, <2>2 DEF Sched, Waiting
  <2> QED BY <2>2, <2>3 DEF SameWaits
<1> QED BY <1>2, <1>3, <1>4 DEF kern_task_suspend, kern_task_resume, Waiting

\* The state kern_start_system leaves: nobody waits.
LEMMA NobodyWaitsAtFirst ==
  ASSUME Init
  PROVE  /\ k.wq = [q \in Queue |-> << >>]
         /\ \A t \in Task : k.pwait[t] = NoQueue /\ k.tick[t] = Infinite /\ ~Waiting(k.state[t])
<1> DEFINE s == [ ready  |-> << >>, next |-> Main, timers |-> << >>,
             wq     |-> [q \in Queue |-> << >>],
             state  |-> [t \in Task |-> "DORMANT"],
             prio   |-> [t \in Task |-> IF t = Main THEN MainPriority ELSE 0],
             skip   |-> [t \in Task |-> 0],
             tick   |-> [t \in Task |-> Infinite],
             reason |-> [t \in Task |-> "NONE"],
             rc     |-> [t \in Task |-> "NO_ERR"],
             pwait  |-> [t \in Task |-> NoQueue],
             wake   |-> [t \in Task |-> 0],
             act    |-> [t \in Task |-> 0] ]
<1>1. /\ DOMAIN s = Fields /\ s.wq = [q \in Queue |-> << >>]
      /\ s.state = [t \in Task |-> "DORMANT"] /\ s.pwait = [t \in Task |-> NoQueue]
      /\ s.tick = [t \in Task |-> Infinite]
  BY DEF Fields
<1>2. k = task_to_runnable(s, Main)
  BY DEF Init, InitialSched
<1> HIDE DEF s
<1>3. /\ k.state = [s.state EXCEPT ![Main] = "RUNNABLE"]
      /\ k.pwait = [s.pwait EXCEPT ![Main] = NoQueue]
      /\ k.wq = s.wq /\ k.tick = s.tick
  <2>1. DOMAIN s = Fields
    BY <1>1
  <2>2. ASSUME NEW x, DOMAIN x = Fields, NEW r, r = task_to_runnable(x, Main)
        PROVE  /\ r.state = [x.state EXCEPT ![Main] = "RUNNABLE"]
               /\ r.pwait = [x.pwait EXCEPT ![Main] = NoQueue]
               /\ r.wq = x.wq /\ r.tick = x.tick
    BY <2>2, RunnableEffects, SMTT(30)
  <2> QED BY <1>2, <2>1, <2>2
<1> QED BY <1>1, <1>3 DEF Waiting
-----------------------------------------------------------------------------
(* The invariant *)

\* Every step keeps it.
LEMMA NextKeeps ==
  ASSUME IInv, Next
  PROVE  IInv'
<1>1. CASE TaskCall
  <2>1. Restartable \subseteq Task /\ Suspendable \subseteq Task
    BY TasksAssumption
  <2>2. CASE \E t \in Task, p \in Priorities, start \in BOOLEAN : kern_task_create(t, p, start)
    BY <2>2, CreateKeeps
  <2>3. CASE \E timeout \in Timeouts : kern_task_sleep(timeout)
    BY <2>3, SleepKeeps
  <2>4. CASE \/ \E t \in Suspendable : kern_task_suspend(t) \/ kern_task_resume(t)
             \/ \E t \in Task : kern_task_wakeup(t) \/ kern_task_release_wait(t)
    BY <2>1, <2>4, SuspendKeeps, ResumeKeeps, WakeupKeeps, ReleaseKeeps
  <2>5. CASE \E t \in Restartable : \/ kern_task_activate(t)
                                   \/ kern_task_terminate(t)
                                   \/ kern_task_delete(t)
    BY <2>1, <2>5, ActivateKeeps, TerminateKeeps, DeleteKeeps
  <2>6. CASE \E delete \in BOOLEAN : kern_task_exit(delete)
    BY <2>6, ExitKeeps
  <2>7. CASE \E t \in Task, new \in Priorities \cup {0} : kern_task_change_priority(t, new)
    BY <2>7, PriorityKeeps
  <2> QED BY <1>1, <2>2, <2>3, <2>4, <2>5, <2>6, <2>7 DEF TaskCall
<1>2. CASE Interrupt
  <2>1. Restartable \subseteq Task
    BY TasksAssumption
  <2> QED BY <1>2, <2>1, InterruptWakeupKeeps, InterruptActivateKeeps, InterruptReleaseKeeps
          DEF Interrupt
<1>3. CASE TestNext \/ SwitchContext
  BY <1>3, TestNextKeeps, SwitchContextKeeps
<1>4. CASE PendSV
  BY <1>4, PendSVKeeps
<1>5. CASE SysTick
  BY <1>5, SysTickKeeps
<1> QED BY <1>1, <1>2, <1>3, <1>4, <1>5 DEF Next

\* Nor does a step that changes nothing break it.
LEMMA StutterKeeps ==
  ASSUME IInv, UNCHANGED vars
  PROVE  IInv'
BY DEF vars, IInv, VariablesOK, KernelOK, UncreatedRest, RunsReady

\* The invariant holds throughout.
LEMMA InvariantHolds ==
  Spec => []IInv
<1>1. Init => IInv
  BY InitHolds
<1>2. IInv /\ [Next]_vars => IInv'
  BY NextKeeps, StutterKeeps
<1> QED BY <1>1, <1>2, PTL DEF Spec

\* Every variable keeps a value of its type: in particular kern_next_task_to_run and
\* kern_curr_run_task are tasks, the lists hold tasks, and us_count starts over.
THEOREM TypeCorrect ==
  Spec => []TypeOK
<1>1. IInv => TypeOK
  BY IInvImplies
<1> QED BY <1>1, InvariantHolds, PTL

\* Whatever tasks, priorities and timeouts there are, and whatever calls, ticks and
\* interrupts come in what order, the ready list, the timeout list and the wait
\* queues agree with the TCBs.
THEOREM ListsAlwaysMatch ==
  Spec => []ListsMatchStates
<1>1. IInv => ListsMatchStates
  BY IInvImplies
<1> QED BY <1>1, InvariantHolds, PTL

\* kern_next_task_to_run, which PendSV will switch to, is always in the ready list.
THEOREM NextAlwaysReady ==
  Spec => []NextIsReady
<1>1. IInv => NextIsReady
  BY IInvImplies
<1> QED BY <1>1, InvariantHolds, PTL

\* The loop of find_next_task_to_run, which counts one task after the other, chooses the
\* task that WalkFrom names and leaves the counts that it gives, in every state and from
\* every entry of the ready list: for every number of tasks and all priorities.
THEOREM WalkAlwaysTheLoop ==
  Spec => []WalkIsTheLoop
<1>1. IInv => WalkIsTheLoop
  BY LoopIsTheWalk DEF IInv, KernelOK, SchedOK, ReadyOK, WalkIsTheLoop
<1> QED BY <1>1, InvariantHolds, PTL

\* The processor never executes the code of a task that is not RUNNABLE.
THEOREM RunsOnlyReady ==
  Spec => []RunsOnlyRunnable
<1>1. IInv => RunsOnlyRunnable
  BY IInvImplies
<1> QED BY <1>1, InvariantHolds, PTL
-----------------------------------------------------------------------------
(* What a step may never do *)

\* The end of a wait, and of an idle or running task's rest, ends no suspension.
LEMMA WaitEndSuspends ==
  ASSUME IInv, NEW t \in Task, k' = task_wait_complete(k, t), NEW u \in Task,
         Suspended(k.state[u])
  PROVE  Suspended(k'.state[u])
<1>1. k \in Sched
  BY DEF IInv, KernelOK, SchedOK
<1>2. /\ k'.state[t] = (IF Suspended(k.state[t]) THEN "SUSPEND" ELSE "RUNNABLE")
      /\ \A v \in Task \ {t} : k'.state[v] = k.state[v]
  BY <1>1, WaitEffects
<1> QED BY <1>2 DEF Suspended

LEMMA StartSuspends ==
  ASSUME IInv, NEW t \in Task, k' = task_to_runnable(k, t), NEW u \in Task \ {t},
         Suspended(k.state[u])
  PROVE  Suspended(k'.state[u])
<1>1. DOMAIN k = Fields /\ k.state \in [Task -> States]
  BY SchedFields DEF IInv, KernelOK, SchedOK, Sched
<1>2. \A v \in Task \ {t} : k'.state[v] = k.state[v]
  BY <1>1, OnlyOneRuns
<1> QED BY <1>2

\* Of the calls of tasks only kern_task_resume and kern_task_terminate end a suspension,
\* that of the task they are called for.
LEMMA CallSuspends ==
  ASSUME IInv, TaskCall, NEW u \in Task,
         Suspended(k.state[u]), ~Suspended(k'.state[u])
  PROVE  kern_task_resume(u) \/ kern_task_terminate(u)
<1>1. /\ k \in Sched /\ DOMAIN k = Fields /\ k.state \in [Task -> States]
      /\ Restartable \subseteq Task /\ Suspendable \subseteq Task /\ curr \in Task
  BY SchedFields, TasksAssumption DEF IInv, VariablesOK, KernelOK, SchedOK, Sched
<1>2. Calls(curr)
  BY DEF TaskCall, kern_task_create, kern_task_sleep, kern_task_suspend, kern_task_resume,
         kern_task_wakeup, kern_task_release_wait, kern_task_activate, kern_task_terminate,
         kern_task_delete, kern_task_exit, kern_task_change_priority
<1>3. k.state[curr] = "RUNNABLE" /\ u # curr /\ k.state[u] # "DORMANT"
  BY <1>2, CallerIsReady DEF Suspended
<1>4. ASSUME NEW t \in Task, NEW p \in Priorities, NEW start \in BOOLEAN,
             kern_task_create(t, p, start)
      PROVE  FALSE
  <2> DEFINE s == [task_set_init_state(k, t) EXCEPT !.prio[t] = p, !.skip[t] = 0, !.act[t] = 0]
  <2>1. k.state[t] = "DORMANT" /\ t # u
    BY <1>3, <1>4 DEF kern_task_create, IInv, UncreatedRest
  <2>2. DOMAIN s = Fields /\ s.state = k.state
    <3> DEFINE m == task_set_init_state(k, t)
    <3>1. DOMAIN m = Fields /\ m.state = [k.state EXCEPT ![t] = "DORMANT"]
      BY <1>1 DEF task_set_init_state, Fields
    <3>2. s = [m EXCEPT !.prio[t] = p, !.skip[t] = 0, !.act[t] = 0]
      OBVIOUS
    <3> HIDE DEF m, s
    <3> QED BY <1>1, <2>1, <3>1, <3>2 DEF Fields
  <2>3. k' = IF start THEN task_to_runnable(s, t) ELSE s
    BY <1>4 DEF kern_task_create
  <2> HIDE DEF s
  <2>4. \A v \in Task \ {t} : k'.state[v] = s.state[v]
    <3>1. CASE start
      <4>1. DOMAIN s = Fields /\ s.state \in [Task -> States] /\ k' = task_to_runnable(s, t)
        BY <1>1, <2>2, <2>3, <3>1
      <4> QED BY <4>1, OnlyOneRuns
    <3> QED BY <2>3, <3>1
  <2> QED BY <1>3, <2>1, <2>2, <2>4
<1>5. ASSUME NEW timeout \in Timeouts, kern_task_sleep(timeout)
      PROVE  FALSE
  <2>1. CASE k' = [k EXCEPT !.wake[curr] = @ - 1]
    BY <1>1, <2>1 DEF Fields
  <2>2. CASE k' = task_curr_to_wait_action(k, curr, NoQueue, "SLEEP", timeout)
    BY <1>1, <1>3, <2>2, CurrentWaitEffects
  <2> QED BY <1>5, <2>1, <2>2 DEF kern_task_sleep
<1>6. ASSUME NEW t \in Task, kern_task_suspend(t) \/ (kern_task_resume(t) /\ t # u)
      PROVE  FALSE
  <2>1. CASE k' = task_to_non_runnable([k EXCEPT !.state[t] = "SUSPEND"], t)
    <3> DEFINE s == [k EXCEPT !.state[t] = "SUSPEND"]
    <3>1. DOMAIN s = Fields /\ s.state = [k.state EXCEPT ![t] = "SUSPEND"]
          /\ k' = task_to_non_runnable(s, t)
      BY <1>1, <2>1 DEF Fields
    <3> HIDE DEF s
    <3>2. k'.state = s.state
      BY <3>1, NonRunnableEffects
    <3> QED BY <1>1, <3>1, <3>2 DEF Suspended
  <2>2. CASE k' = [k EXCEPT !.state[t] = "WAITSUSP"]
    BY <1>1, <2>2 DEF Suspended, Fields
  <2>3. CASE t # u /\ k' = task_to_runnable(k, t)
    BY <2>3, StartSuspends
  <2>4. CASE t # u /\ k' = [k EXCEPT !.state[t] = "WAIT"]
    BY <1>1, <2>4 DEF Fields
  <2> QED BY <1>6, <2>1, <2>2, <2>3, <2>4 DEF kern_task_suspend, kern_task_resume
<1>7. ASSUME NEW t \in Task, kern_task_wakeup(t) \/ kern_task_release_wait(t)
      PROVE  FALSE
  <2>1. CASE k' = task_wait_complete(k, t)
    BY <2>1, WaitEndSuspends
  <2>2. CASE k' = [k EXCEPT !.wake[curr] = 1]
    BY <1>1, <2>2 DEF Fields
  <2> QED BY <1>7, <2>1, <2>2 DEF kern_task_wakeup, kern_task_release_wait, CountWakeup
<1>8. ASSUME NEW t \in Task, kern_task_activate(t)
      PROVE  FALSE
  <2>1. CASE k.state[t] = "DORMANT" /\ k' = task_to_runnable(k, t)
    BY <1>3, <2>1, StartSuspends
  <2>2. CASE k' = [k EXCEPT !.act[t] = 1]
    BY <1>1, <2>2 DEF Fields
  <2> QED BY <1>8, <2>1, <2>2 DEF kern_task_activate
<1>9. ASSUME NEW t \in Task, kern_task_terminate(t)
      PROVE  t = u
  <2> DEFINE s == IF k.state[t] = "RUNNABLE" THEN task_to_non_runnable(k, t)
                  ELSE LeaveQueues(k, t)
  <2>1. /\ SchedOK(k) /\ NextReady(k) /\ ToSet(k.ready) # {t}
        /\ k' = Restarted(task_set_init_state(s, t), t)
    BY <1>9, AnotherIsReady DEF IInv, KernelOK, kern_task_terminate
  <2>2. s = IF k.state[t] = "RUNNABLE" THEN task_to_non_runnable(k, t) ELSE LeaveQueues(k, t)
    OBVIOUS
  <2> HIDE DEF s
  <2>3. Apart(s, t) /\ NextReady(s) /\ s.state = k.state
    BY <2>1, <2>2, LeavesEverything
  <2>4. k'.state = [k.state EXCEPT ![t] = IF s.act[t] > 0 THEN "RUNNABLE" ELSE "DORMANT"]
    BY <2>1, <2>3, Restarts
  <2> QED BY <1>1, <2>4
<1>10. ASSUME NEW delete \in BOOLEAN, kern_task_exit(delete)
      PROVE  FALSE
  <2> DEFINE s == task_to_non_runnable(k, curr)
  <2>1. /\ curr \in ToSet(k.ready) /\ NoDuplicates(k.ready) /\ ToSet(k.ready) # {curr}
        /\ SchedOK(k) /\ k' = Restarted(task_set_init_state(s, curr), curr)
    BY <1>1, <1>3, <1>10, AnotherIsReady
       DEF IInv, KernelOK, SchedOK, ReadyOK, kern_task_exit
  <2>2. Apart(s, curr)
    BY <1>1, <1>3, <2>1, StoppedIsApart
  <2>3. NextReady(s) /\ s.state = k.state
    BY <1>1, <2>1, NonRunnableLeaves
  <2> HIDE DEF s
  <2>4. k'.state = [k.state EXCEPT ![curr] = IF s.act[curr] > 0 THEN "RUNNABLE" ELSE "DORMANT"]
    BY <1>1, <2>1, <2>2, <2>3, Restarts
  <2> QED BY <1>1, <1>3, <2>4
<1>11. ASSUME NEW t \in Task, NEW new \in Priorities \cup {0}, kern_task_change_priority(t, new)
      PROVE  FALSE
  <2> DEFINE p == IF new = 0 THEN k.prio[t] ELSE new
  <2>1. p \in Nat /\ SchedOK(k) /\ NextReady(k)
    BY <1>1, TasksAssumption DEF IInv, KernelOK, Sched
  <2>2. \/ k.state[t] = "RUNNABLE" /\ k' = change_running_task_priority(k, t, p)
        \/ k' = [k EXCEPT !.prio[t] = p]
    BY <1>11 DEF kern_task_change_priority
  <2> HIDE DEF p
  <2>3. k'.state = k.state
    BY <2>1, <2>2, PriorityChanges, PriorityFieldChanges
  <2> QED BY <2>3
<1>12. ASSUME NEW t \in Task, kern_task_delete(t)
      PROVE  FALSE
  BY <1>12 DEF kern_task_delete
<1> QED BY <1>1, <1>4, <1>5, <1>6, <1>7, <1>8, <1>9, <1>10, <1>11, <1>12 DEF TaskCall

\* Nor do the interrupts, the tick and the switch.
LEMMA OthersSuspend ==
  ASSUME IInv, Interrupt \/ TestNext \/ SwitchContext \/ PendSV \/ SysTick, NEW u \in Task,
         Suspended(k.state[u])
  PROVE  Suspended(k'.state[u])
<1>1. DOMAIN k = Fields /\ Restartable \subseteq Task
  BY SchedFields, TasksAssumption DEF IInv, KernelOK, SchedOK
<1>2. CASE Interrupt
  <2>1. CASE \E t \in Task : k' = task_wait_complete(k, t)
    BY <2>1, WaitEndSuspends
  <2>2. CASE \E t \in Task : k.state[t] = "DORMANT" /\ k' = task_to_runnable(k, t)
    BY <2>2, StartSuspends DEF Suspended
  <2>3. CASE CountWakeup \/ \E t \in Task : k' = [k EXCEPT !.act[t] = 1]
    BY <1>1, <2>3 DEF CountWakeup, Fields
  <2> QED BY <1>1, <1>2, <2>1, <2>2, <2>3
          DEF Interrupt, kern_task_iwakeup, kern_task_iactivate, kern_task_irelease_wait
<1>3. CASE TestNext \/ SwitchContext \/ PendSV
  BY <1>3 DEF TestNext, SwitchContext, PendSV
<1>4. CASE SysTick
  BY <1>4, SysTickKeeps DEF OnlyEndsWaits, Suspended
<1> QED BY <1>2, <1>3, <1>4

\* Only kern_task_resume, or its termination, ends a task's suspension: neither the end
\* of its wait, by whatever call, nor a timeout, a wakeup or an activation.
THEOREM SuspensionsHold ==
  Spec => SuspensionHolds
<1>1. ASSUME IInv, [Next]_vars
      PROVE  [\A t \in Task : Suspended(k.state[t]) /\ ~Suspended(k'.state[t])
                                => kern_task_resume(t) \/ kern_task_terminate(t)]_vars
  <2>1. CASE TaskCall
    BY <1>1, <2>1, CallSuspends
  <2>2. CASE Interrupt \/ TestNext \/ SwitchContext \/ PendSV \/ SysTick
    BY <1>1, <2>2, OthersSuspend
  <2> QED BY <1>1, <2>1, <2>2 DEF Next
<1> QED BY <1>1, InvariantHolds, PTL DEF Spec, SuspensionHolds

\* A tick ends exactly the waits whose last millisecond is over, and reports ERR_TIMEOUT:
\* the scan of the timeout list misses none, although it unlinks tasks as it goes. Every
\* other wait goes on, and one with a timeout has been counted down by one when the tick
\* ended a millisecond, and not at all otherwise.
THEOREM TicksEndExpiredWaits ==
  Spec => TickEndsExpiredWaits
<1>1. ASSUME IInv, [Next]_vars
      PROVE  [us_count' # us_count =>
               \A t \in Task : Waiting(k.state[t]) =>
                 IF LastTick(t) THEN ~Waiting(k'.state[t]) /\ k'.rc[t] = "TIMEOUT"
                 ELSE Waiting(k'.state[t]) /\ k'.tick[t] = k.tick[t] - (IF CountsDown(t) THEN 1 ELSE 0)]_vars
  <2>1. CASE TaskCall
    BY <2>1 DEF TaskCall, kern_task_create, kern_task_sleep, kern_task_suspend, kern_task_resume,
           kern_task_wakeup, kern_task_release_wait, kern_task_activate, kern_task_terminate,
           kern_task_delete, kern_task_exit, kern_task_change_priority, Returns, Switches, Tests
  <2>2. CASE Interrupt \/ TestNext \/ SwitchContext \/ PendSV
    BY <2>2 DEF Interrupt, kern_task_iwakeup, kern_task_iactivate, kern_task_irelease_wait,
           InterruptExit, TestNext, SwitchContext, PendSV
  <2>3. CASE SysTick
    <3> DEFINE ms == us_count' = 0
               s  == ScanTimeouts(k, ms)
    <3>1. SchedOK(k) /\ NextReady(k) /\ ms \in BOOLEAN /\ k' = RotateUnless(s, k.next)
      BY <1>1, <2>3 DEF SysTick, IInv, KernelOK
    <3> HIDE DEF ms
    <3>2. /\ SchedOK(s) /\ NextReady(s)
          /\ \A u \in Task : Waiting(k.state[u]) =>
               /\ Waiting(s.state[u]) <=> ~(ms /\ k.tick[u] = 1)
               /\ ~Waiting(s.state[u]) => s.rc[u] = "TIMEOUT"
               /\ Waiting(s.state[u]) => s.tick[u] = CountedOnce(k, u, ms)
      BY <3>1, ScanKeeps
    <3> HIDE DEF s
    <3>3. k'.state = s.state /\ k'.rc = s.rc /\ k'.tick = s.tick
      BY <3>1, <3>2, RotateKeeps
    <3>4. ASSUME NEW t \in Task, Waiting(k.state[t])
          PROVE  IF LastTick(t) THEN ~Waiting(k'.state[t]) /\ k'.rc[t] = "TIMEOUT"
                 ELSE /\ Waiting(k'.state[t])
                      /\ k'.tick[t] = k.tick[t] - (IF CountsDown(t) THEN 1 ELSE 0)
      <4>1. LastTick(t) <=> ms /\ k.tick[t] = 1
        BY DEF LastTick, ms
      <4>2. CountedOnce(k, t, ms) = k.tick[t] - (IF CountsDown(t) THEN 1 ELSE 0)
        BY DEF CountedOnce, CountsDown, ms
      <4> QED BY <3>2, <3>3, <3>4, <4>1, <4>2
    <3> QED BY <3>4
  <2> QED BY <1>1, <2>1, <2>2, <2>3 DEF Next, vars
<1> QED BY <1>1, InvariantHolds, PTL DEF Spec, TickEndsExpiredWaits
-----------------------------------------------------------------------------
(* Deleted tasks *)

\* A deleted task that rests goes on resting until it is created anew, whatever the
\* running task calls: a call that starts, resumes or wakes a task wants its ID.
LEMMA CallLeavesDeleted ==
  ASSUME IInv, TaskCall, NEW u \in Task, k.state[u] = "DORMANT", ~id_task[u],
         ~\E delete \in BOOLEAN : kern_task_exit(delete)
  PROVE  id_task'[u] \/ k'.state[u] = "DORMANT"
<1>1. /\ k \in Sched /\ DOMAIN k = Fields /\ k.state \in [Task -> States]
      /\ Restartable \subseteq Task /\ Suspendable \subseteq Task /\ curr \in Task
      /\ id_task \in [Task -> BOOLEAN]
  BY SchedFields, TasksAssumption DEF IInv, VariablesOK, KernelOK, SchedOK, Sched
<1>2. Calls(curr)
  BY DEF TaskCall, kern_task_create, kern_task_sleep, kern_task_suspend, kern_task_resume,
         kern_task_wakeup, kern_task_release_wait, kern_task_activate, kern_task_terminate,
         kern_task_delete, kern_task_exit, kern_task_change_priority
<1>3. k.state[curr] = "RUNNABLE" /\ u # curr
  BY <1>2, CallerIsReady
<1>4. ASSUME NEW t \in Task, NEW p \in Priorities, NEW start \in BOOLEAN,
             kern_task_create(t, p, start)
      PROVE  id_task'[u] \/ k'.state[u] = "DORMANT"
  <2> DEFINE s == [task_set_init_state(k, t) EXCEPT !.prio[t] = p, !.skip[t] = 0, !.act[t] = 0]
  <2>1. k.state[t] = "DORMANT" /\ id_task' = [id_task EXCEPT ![t] = TRUE]
    BY <1>4 DEF kern_task_create
  <2>2. DOMAIN s = Fields /\ s.state = k.state
    <3> DEFINE m == task_set_init_state(k, t)
    <3>1. DOMAIN m = Fields /\ m.state = [k.state EXCEPT ![t] = "DORMANT"]
      BY <1>1 DEF task_set_init_state, Fields
    <3>2. s = [m EXCEPT !.prio[t] = p, !.skip[t] = 0, !.act[t] = 0]
      OBVIOUS
    <3> HIDE DEF m, s
    <3> QED BY <1>1, <2>1, <3>1, <3>2 DEF Fields
  <2>3. k' = IF start THEN task_to_runnable(s, t) ELSE s
    BY <1>4 DEF kern_task_create
  <2> HIDE DEF s
  <2>4. \A v \in Task \ {t} : k'.state[v] = s.state[v]
    <3>1. CASE start
      <4>1. DOMAIN s = Fields /\ s.state \in [Task -> States] /\ k' = task_to_runnable(s, t)
        BY <1>1, <2>2, <2>3, <3>1
      <4> QED BY <4>1, OnlyOneRuns
    <3> QED BY <2>3, <3>1
  <2> QED BY <1>1, <2>1, <2>2, <2>4
<1>5. ASSUME NEW timeout \in Timeouts, kern_task_sleep(timeout)
      PROVE  k'.state[u] = "DORMANT"
  <2>1. CASE k' = [k EXCEPT !.wake[curr] = @ - 1]
    BY <1>1, <2>1 DEF Fields
  <2>2. CASE k' = task_curr_to_wait_action(k, curr, NoQueue, "SLEEP", timeout)
    BY <1>1, <1>3, <2>2, CurrentWaitEffects
  <2> QED BY <1>5, <2>1, <2>2 DEF kern_task_sleep
<1>6. ASSUME NEW t \in Task, kern_task_suspend(t) \/ kern_task_resume(t)
      PROVE  k'.state[u] = "DORMANT"
  <2>1. t # u
    BY <1>6 DEF kern_task_suspend, kern_task_resume
  <2>2. CASE k' = task_to_non_runnable([k EXCEPT !.state[t] = "SUSPEND"], t)
    <3> DEFINE s == [k EXCEPT !.state[t] = "SUSPEND"]
    <3>1. DOMAIN s = Fields /\ s.state = [k.state EXCEPT ![t] = "SUSPEND"]
          /\ k' = task_to_non_runnable(s, t)
      BY <1>1, <2>2 DEF Fields
    <3> HIDE DEF s
    <3>2. k'.state = s.state
      BY <3>1, NonRunnableEffects
    <3> QED BY <1>1, <2>1, <3>1, <3>2
  <2>3. CASE k' = [k EXCEPT !.state[t] = "WAITSUSP"] \/ k' = [k EXCEPT !.state[t] = "WAIT"]
    BY <1>1, <2>1, <2>3 DEF Fields
  <2>4. CASE k' = task_to_runnable(k, t)
    BY <1>1, <2>1, <2>4, OnlyOneRuns
  <2> QED BY <1>6, <2>2, <2>3, <2>4 DEF kern_task_suspend, kern_task_resume
<1>7. ASSUME NEW t \in Task, kern_task_wakeup(t) \/ kern_task_release_wait(t)
      PROVE  k'.state[u] = "DORMANT"
  <2>1. CASE Waiting(k.state[t]) /\ k' = task_wait_complete(k, t)
    <3>1. t # u
      BY <2>1 DEF Waiting
    <3> QED BY <1>1, <2>1, <3>1, WaitEffects
  <2>2. CASE k' = [k EXCEPT !.wake[curr] = 1]
    BY <1>1, <2>2 DEF Fields
  <2> QED BY <1>7, <2>1, <2>2
          DEF kern_task_wakeup, kern_task_release_wait, CountWakeup, Sleeping
<1>8. ASSUME NEW t \in Task, kern_task_activate(t)
      PROVE  k'.state[u] = "DORMANT"
  <2>1. t # u
    BY <1>8 DEF kern_task_activate
  <2>2. CASE k' = task_to_runnable(k, t)
    BY <1>1, <2>1, <2>2, OnlyOneRuns
  <2>3. CASE k' = [k EXCEPT !.act[t] = 1]
    BY <1>1, <2>3 DEF Fields
  <2> QED BY <1>8, <2>2, <2>3 DEF kern_task_activate
<1>9. ASSUME NEW t \in Task, kern_task_terminate(t)
      PROVE  k'.state[u] = "DORMANT"
  <2> DEFINE s == IF k.state[t] = "RUNNABLE" THEN task_to_non_runnable(k, t)
                  ELSE LeaveQueues(k, t)
  <2>1. /\ SchedOK(k) /\ NextReady(k) /\ ToSet(k.ready) # {t} /\ t # u
        /\ k' = Restarted(task_set_init_state(s, t), t)
    BY <1>9, AnotherIsReady DEF IInv, KernelOK, kern_task_terminate
  <2>2. s = IF k.state[t] = "RUNNABLE" THEN task_to_non_runnable(k, t) ELSE LeaveQueues(k, t)
    OBVIOUS
  <2> HIDE DEF s
  <2>3. Apart(s, t) /\ NextReady(s) /\ s.state = k.state
    BY <2>1, <2>2, LeavesEverything
  <2>4. k'.state = [k.state EXCEPT ![t] = IF s.act[t] > 0 THEN "RUNNABLE" ELSE "DORMANT"]
    BY <2>1, <2>3, Restarts
  <2> QED BY <1>1, <2>1, <2>4
<1>10. ASSUME NEW t \in Task, NEW new \in Priorities \cup {0}, kern_task_change_priority(t, new)
       PROVE  k'.state[u] = "DORMANT"
  <2> DEFINE p == IF new = 0 THEN k.prio[t] ELSE new
  <2>1. p \in Nat /\ SchedOK(k) /\ NextReady(k)
    BY <1>1, TasksAssumption DEF IInv, KernelOK, Sched
  <2>2. \/ k.state[t] = "RUNNABLE" /\ k' = change_running_task_priority(k, t, p)
        \/ k' = [k EXCEPT !.prio[t] = p]
    BY <1>10 DEF kern_task_change_priority
  <2> HIDE DEF p
  <2>3. k'.state = k.state
    BY <2>1, <2>2, PriorityChanges, PriorityFieldChanges
  <2> QED BY <2>3
<1>11. ASSUME NEW t \in Task, kern_task_delete(t)
       PROVE  k'.state[u] = "DORMANT"
  BY <1>11 DEF kern_task_delete
<1> QED BY <1>1, <1>4, <1>5, <1>6, <1>7, <1>8, <1>9, <1>10, <1>11 DEF TaskCall

\* Nor does an interrupt, the tick or the switch start it.
LEMMA OthersLeaveDeleted ==
  ASSUME IInv, Interrupt \/ TestNext \/ SwitchContext \/ PendSV \/ SysTick, NEW u \in Task
  PROVE  /\ id_task' = id_task
         /\ k.state[u] = "DORMANT" /\ ~id_task[u] => k'.state[u] = "DORMANT"
<1>1. /\ k \in Sched /\ DOMAIN k = Fields /\ Restartable \subseteq Task
      /\ k.state \in [Task -> States]
  BY SchedFields, TasksAssumption DEF IInv, KernelOK, SchedOK, Sched
<1>2. CASE Interrupt
  <2> DEFINE Rests == k.state[u] = "DORMANT" /\ ~id_task[u] => k'.state[u] = "DORMANT"
  <2>1. ASSUME NEW t \in Task, Waiting(k.state[t]), k' = task_wait_complete(k, t)
        PROVE  Rests
    <3>1. k.state[u] = "DORMANT" => u # t
      BY <2>1 DEF Waiting
    <3>2. \A v \in Task \ {t} : k'.state[v] = k.state[v]
      BY <1>1, <2>1, WaitEffects
    <3> QED BY <3>1, <3>2
  <2>2. ASSUME NEW t \in Task, id_task[t], k' = task_to_runnable(k, t)
        PROVE  Rests
    <3>1. \A v \in Task \ {t} : k'.state[v] = k.state[v]
      BY <1>1, <2>2, OnlyOneRuns
    <3> QED BY <2>2, <3>1
  <2>3. ASSUME CountWakeup \/ \E t \in Task : k' = [k EXCEPT !.act[t] = 1]
        PROVE  Rests
    BY <1>1, <2>3 DEF CountWakeup, Fields
  <2>4. id_task' = id_task
    BY <1>2 DEF Interrupt, kern_task_iwakeup, kern_task_iactivate, kern_task_irelease_wait,
                InterruptExit
  <2> QED BY <1>1, <1>2, <2>1, <2>2, <2>3, <2>4
          DEF Interrupt, kern_task_iwakeup, kern_task_iactivate, kern_task_irelease_wait,
              Sleeping
<1>3. CASE TestNext \/ SwitchContext \/ PendSV
  BY <1>3 DEF TestNext, SwitchContext, PendSV
<1>4. CASE SysTick
  <2>1. k'.state[u] = k.state[u] \/ Waiting(k.state[u])
    BY <1>4, SysTickKeeps DEF OnlyEndsWaits, Waiting
  <2> QED BY <1>4, <2>1 DEF SysTick, Waiting
<1> QED BY <1>2, <1>3, <1>4

\* The exit of the running task concerns no other, and leaves a ghost behind only when
\* it deletes a task that is started again.
LEMMA ExitMakesGhost ==
  ASSUME IInv, NEW delete \in BOOLEAN, kern_task_exit(delete), NEW u \in Task,
         ~Ghost(u), ~id_task'[u], k'.state[u] # "DORMANT"
  PROVE  u = curr /\ k.act[u] > 0 /\ kern_task_exit(TRUE)
<1>1. /\ k \in Sched /\ DOMAIN k = Fields /\ k.state \in [Task -> States] /\ curr \in Task
      /\ id_task \in [Task -> BOOLEAN]
  BY SchedFields DEF IInv, VariablesOK, KernelOK, SchedOK, Sched
<1> DEFINE s == task_to_non_runnable(k, curr)
<1>2. k.state[curr] = "RUNNABLE"
  BY CallerIsReady DEF kern_task_exit
<1>3. /\ curr \in ToSet(k.ready) /\ NoDuplicates(k.ready) /\ ToSet(k.ready) # {curr}
      /\ SchedOK(k) /\ k' = Restarted(task_set_init_state(s, curr), curr)
  BY <1>1, <1>2, AnotherIsReady DEF IInv, KernelOK, SchedOK, ReadyOK, kern_task_exit
<1>4. Apart(s, curr) /\ s.act = k.act
  BY <1>1, <1>2, <1>3, StoppedIsApart, NonRunnableEffects
<1>5. NextReady(s) /\ s.state = k.state
  BY <1>1, <1>3, NonRunnableLeaves
<1> HIDE DEF s
<1>6. k'.state = [k.state EXCEPT ![curr] = IF s.act[curr] > 0 THEN "RUNNABLE" ELSE "DORMANT"]
  BY <1>1, <1>3, <1>4, <1>5, Restarts
<1>7. id_task' = [id_task EXCEPT ![curr] = @ /\ ~delete]
  BY DEF kern_task_exit
<1>8. u = curr
  BY <1>1, <1>6, <1>7 DEF Ghost
<1>9. s.act[curr] > 0
  BY <1>1, <1>6, <1>8
<1>10. id_task[curr]
  BY <1>2, <1>8 DEF Ghost
<1>11. delete
  BY <1>1, <1>7, <1>8, <1>10, Zenon
<1>12. kern_task_exit(TRUE)
  <2>1. delete = TRUE
    BY <1>11
  <2> QED BY <2>1
<1> QED BY <1>4, <1>8, <1>9, <1>12

\* The scheduler has a TCB without an ID only if its task has exited and deleted itself
\* with an activation counted. Every other deleted task rests, in no list, until it is
\* created anew.
THEOREM OnlyExitsMakeGhosts ==
  Spec => GhostsExitCounted
<1>1. ASSUME IInv, [Next]_vars
      PROVE  [\A t \in Task : ~Ghost(t) /\ Ghost(t)' =>
                t = curr /\ k.act[t] > 0 /\ kern_task_exit(TRUE)]_vars
  <2> SUFFICES ASSUME NEW t \in Task, ~Ghost(t), ~id_task'[t], k'.state[t] # "DORMANT", Next
               PROVE  t = curr /\ k.act[t] > 0 /\ kern_task_exit(TRUE)
    BY <1>1 DEF Ghost, vars
  <2>1. k.state[t] # "DORMANT" => id_task[t]
    BY DEF Ghost
  <2>2. CASE \E delete \in BOOLEAN : kern_task_exit(delete)
    BY <1>1, <2>2, ExitMakesGhost
  <2>3. CASE TaskCall /\ ~\E delete \in BOOLEAN : kern_task_exit(delete)
    <3>1. id_task[t]
      BY <1>1, <2>1, <2>3, CallLeavesDeleted
    <3>2. kern_task_delete(t)
      <4>1. id_task \in [Task -> BOOLEAN] /\ Restartable \subseteq Task
        BY <1>1, TasksAssumption DEF IInv, VariablesOK
      <4>2. PICK x \in Task : id_task' = id_task \/ id_task' = [id_task EXCEPT ![x] = TRUE]
                               \/ kern_task_delete(x)
        BY <2>3, <4>1
           DEF TaskCall, kern_task_create, kern_task_sleep, kern_task_suspend, kern_task_resume,
               kern_task_wakeup, kern_task_release_wait, kern_task_activate,
               kern_task_terminate, kern_task_change_priority, UnchangedTasks
      <4> QED BY <3>1, <4>1, <4>2 DEF kern_task_delete
    <3> QED BY <3>2 DEF kern_task_delete
  <2>4. CASE Interrupt \/ TestNext \/ SwitchContext \/ PendSV \/ SysTick
    BY <1>1, <2>1, <2>4, OthersLeaveDeleted
  <2> QED BY <2>2, <2>3, <2>4 DEF Next
<1> QED BY <1>1, InvariantHolds, PTL DEF Spec, GhostsExitCounted
=============================================================================
