------------------------------ MODULE KernSched ------------------------------
(***************************************************************************)
(* The scheduler core of src/kern/kern_tasks.c: the operations that move a *)
(* task between the ready list, the wait queues and the timeout list.      *)
(* They are operators on a record s, the part of the kernel's memory they  *)
(* touch, so that every kernel object composes them the way its C code     *)
(* calls them, inside one interrupts-disabled region:                      *)
(*                                                                         *)
(*   s.ready   kern_ready_list, head first                                 *)
(*   s.next    kern_next_task_to_run                                       *)
(*   s.timers  kern_wait_timeout_list, head first                          *)
(*   s.wq[q]   the wait queue of object q, head first                      *)
(*   s.state, s.prio, s.skip, s.tick, s.reason, s.rc, s.pwait, s.wake,     *)
(*   s.act     the TCB fields task_state, priority, skip_cnt, tick_count,  *)
(*             task_wait_reason, task_wait_rc, pwait_queue, wakeup_count,  *)
(*             activate_count, as functions of the task                    *)
(*                                                                         *)
(* The part of task_wait_complete that concerns mutexes is in KernMutex,   *)
(* which adds it to the operator of this module.                           *)
(***************************************************************************)
EXTENDS Integers, SequencesExt

CONSTANTS
  Task,      \* the task control blocks
  Queue,     \* the wait queues of the kernel objects of the composition
  NoQueue    \* pwait_queue = NULL

ASSUME NoQueueAssumption == NoQueue \notin Queue

\* KERN_WAIT_INFINITE is 0xFFFFFFFF and tick_count is an int.
Infinite == -1

States  == {"RUNNABLE", "WAIT", "SUSPEND", "WAITSUSP", "DORMANT"}
Reasons == {"NONE", "SLEEP", "SEM", "EVENT", "DQUE_WSEND", "DQUE_WRECEIVE", "WFIXMEM",
            "MUTEX_C", "MUTEX_C_BLK", "MUTEX_I"}
Codes   == {"NO_ERR", "TIMEOUT", "DLT"}

\* TSK_STATE_WAIT and TSK_STATE_SUSPEND are bits, WAITSUSP has both.
Waiting(st)   == st \in {"WAIT", "WAITSUSP"}
Suspended(st) == st \in {"SUSPEND", "WAITSUSP"}

Sched == [ ready  : Seq(Task),
           next   : Task,
           timers : Seq(Task),
           wq     : [Queue -> Seq(Task)],
           state  : [Task -> States],
           prio   : [Task -> Nat],
           skip   : [Task -> Nat],
           tick   : [Task -> Nat \cup {Infinite}],
           reason : [Task -> Reasons],
           rc     : [Task -> Codes],
           pwait  : [Task -> Queue \cup {NoQueue}],
           wake   : [Task -> {0, 1}],
           act    : [Task -> {0, 1}] ]

Position(q, t) == CHOOSE i \in DOMAIN q : q[i] = t

\* queue_remove_entry: the entry keeps its own links, its neighbours lose it.
\* An entry linked to itself alone (a sleeping task's) is in no list.
Unlinked(q, t) == IF t \in ToSet(q) THEN RemoveAt(q, Position(q, t)) ELSE q

(***************************************************************************)
(* find_next_task_to_run is a weighted round robin. It walks the ready     *)
(* ring from the successor of position `start`, adds one to skip_cnt of    *)
(* every task it visits, and stops at the first whose count has reached    *)
(* its priority, which it resets and makes kern_next_task_to_run. Laps(i)  *)
(* is the lap on which the i-th task would stop the walk, Offset(i) its    *)
(* place in a lap, so the walk ends at the task with the fewest visits     *)
(* before it. An empty list leaves everything as it was. (KernWalk has the *)
(* loop itself, and KernSchedProofs proves that the two are the same.)     *)
(***************************************************************************)
Laps(s, i) == LET t == s.ready[i]
              IN  IF s.skip[t] + 1 >= s.prio[t] THEN 1 ELSE s.prio[t] - s.skip[t]

\* (Wrong: the walk would begin with the start position itself.)
Offset_FromStart(s, start, i) == IF i >= start THEN i - start + 1 ELSE i - start + 1 + Len(s.ready)

Offset(s, start, i) == IF i > start THEN i - start ELSE i - start + Len(s.ready)

VisitsUntil(s, start, i) == (Laps(s, i) - 1) * Len(s.ready) + Offset(s, start, i)

Winner(s, start) ==
  CHOOSE i \in DOMAIN s.ready :
    \A j \in DOMAIN s.ready : VisitsUntil(s, start, i) <= VisitsUntil(s, start, j)

\* skip_cnt of the task at position i after a walk that ends at position w.
SkipAfter(s, start, w, i) ==
  IF i = w THEN 0
  ELSE s.skip[s.ready[i]] + Laps(s, w)
       - (IF Offset(s, start, i) < Offset(s, start, w) THEN 0 ELSE 1)

WalkFrom(s, start) ==
  IF s.ready = << >> THEN s
  ELSE LET w == Winner(s, start)
       IN  [s EXCEPT !.next = s.ready[w],
                     !.skip = [t \in Task |->
                                 IF t \in ToSet(s.ready)
                                 THEN SkipAfter(s, start, w, Position(s.ready, t))
                                 ELSE @[t]]]

\* find_next_task_to_run(t) for a task in the ready list.
find_next_task_to_run(s, t) == WalkFrom(s, Position(s.ready, t))

\* (Wrong: kern_next_task_to_run would go on naming the removed task.)
task_to_non_runnable_KeepsNext(s, t) == [s EXCEPT !.ready = RemoveAt(@, Position(@, t))]

\* The walk starts at the successor the removed entry still points to.
task_to_non_runnable(s, t) ==
  LET p == Position(s.ready, t)
  IN  WalkFrom([s EXCEPT !.ready = RemoveAt(@, p)], p - 1)

task_to_runnable(s, t) ==
  LET r == [s EXCEPT !.state[t] = "RUNNABLE",
                     !.pwait[t] = NoQueue,
                     !.ready = Append(@, t)]
  IN  WalkFrom(r, Len(r.ready))

(***************************************************************************)
(* The end of a wait, for whatever reason. Whether the caller has already  *)
(* unlinked the task from the wait queue (tqueue_remove_enable FALSE) or   *)
(* not, it is in no wait queue afterwards. A suspended task only loses its *)
(* WAIT bit. The C function returns whether the task became runnable,      *)
(* which is ~Suspended(s.state[t]).                                        *)
(***************************************************************************)
\* (Wrong: the task would stay in the timeout list.)
LeaveQueues_KeepsTimer(s, t) ==
  [s EXCEPT !.wq = [q \in Queue |-> IF q = s.pwait[t] THEN Unlinked(@[q], t) ELSE @[q]],
            !.pwait[t] = NoQueue, !.tick[t] = Infinite]

LeaveQueues(s, t) ==
  [s EXCEPT !.wq     = [q \in Queue |-> IF q = s.pwait[t] THEN Unlinked(@[q], t) ELSE @[q]],
            !.pwait[t] = NoQueue,
            !.timers = IF s.tick[t] # Infinite THEN Unlinked(@, t) ELSE @,
            !.tick[t]  = Infinite]

\* (Wrong: the end of the wait would end the suspension.)
task_wait_complete_Resumes(s, t) ==
  [task_to_runnable(LeaveQueues(s, t), t) EXCEPT !.rc[t] = "NO_ERR", !.reason[t] = "NONE"]

task_wait_complete(s, t) ==
  LET a == [LeaveQueues(s, t) EXCEPT !.rc[t] = "NO_ERR"]
      b == IF Suspended(s.state[t]) THEN [a EXCEPT !.state[t] = "SUSPEND"]
                                    ELSE task_to_runnable(a, t)
  IN  [b EXCEPT !.reason[t] = "NONE"]

\* (Wrong: the last to wait would be the first in the wait queue.)
task_curr_to_wait_action_AtHead(s, t, q, reason, timeout) ==
  LET r == task_to_non_runnable(s, t)
  IN  [r EXCEPT !.state[t] = "WAIT", !.reason[t] = reason, !.tick[t] = timeout, !.pwait[t] = q,
                !.wq = [x \in Queue |-> IF x = q THEN <<t>> \o @[x] ELSE @[x]],
                !.timers = IF timeout = Infinite THEN @ ELSE Append(@, t)]

\* task_curr_to_wait_action for the running task t; q is NoQueue for a sleep.
task_curr_to_wait_action(s, t, q, reason, timeout) ==
  LET r == task_to_non_runnable(s, t)
  IN  [r EXCEPT !.state[t]  = "WAIT",
                !.reason[t] = reason,
                !.tick[t]   = timeout,
                !.pwait[t]  = q,
                !.wq     = [x \in Queue |-> IF x = q THEN Append(@[x], t) ELSE @[x]],
                !.timers = IF timeout = Infinite THEN @ ELSE Append(@, t)]

\* The fields task_set_init_state resets (it also resets the links of create_queue).
task_set_init_state(s, t) ==
  [s EXCEPT !.state[t] = "DORMANT", !.pwait[t] = NoQueue, !.reason[t] = "NONE",
            !.rc[t] = "NO_ERR", !.tick[t] = Infinite, !.wake[t] = 0]

(***************************************************************************)
(* change_running_task_priority: the task goes to the tail of the ready    *)
(* list, and kern_next_task_to_run is reconsidered.                        *)
(***************************************************************************)
change_running_task_priority(s, t, p) ==
  LET r == [s EXCEPT !.ready = Append(RemoveAt(@, Position(@, t)), t), !.prio[t] = p]
  IN  IF s.next = t
      THEN IF p >= s.prio[t] THEN find_next_task_to_run(r, t) ELSE r
      ELSE IF p < s.prio[s.next] THEN [r EXCEPT !.next = t] ELSE r

\* Its return value: the caller has to switch context.
PriorityChangeSwitches(s, t, p) ==
  IF s.next = t THEN change_running_task_priority(s, t, p).next # t
                ELSE p < s.prio[s.next]

(***************************************************************************)
(* The timeout scan of kern_tick_int_processing. ms says that this tick    *)
(* completes a millisecond (us_count = 0). The scan visits every task that *)
(* was in the list when it began: a task it removes keeps its links.       *)
(***************************************************************************)
\* (Wrong: the last millisecond would never be counted down.)
TimerStep_StopsAtOne(s, t, ms) ==
  LET r == [s EXCEPT !.tick[t] = IF ms /\ @ > 1 THEN @ - 1 ELSE @]
  IN  IF s.tick[t] > 0 /\ r.tick[t] = 0
      THEN [task_wait_complete(r, t) EXCEPT !.rc[t] = "TIMEOUT"]
      ELSE r

TimerStep(s, t, ms) ==
  LET r == [s EXCEPT !.tick[t] = IF ms /\ @ > 0 THEN @ - 1 ELSE @]
  IN  IF s.tick[t] > 0 /\ r.tick[t] = 0
      THEN [task_wait_complete(r, t) EXCEPT !.rc[t] = "TIMEOUT"]
      ELSE r

\* (Wrong: the scan would end with the first task it unlinks.)
ScanTimeouts_StopsAtFirst(s, ms) ==
  LET q == s.timers
      scan[i \in 0..Len(q)] ==
        IF i = 0 THEN s
        ELSE IF Len(scan[i-1].timers) < Len(q) THEN scan[i-1] ELSE TimerStep(scan[i-1], q[i], ms)
  IN  scan[Len(q)]

ScanTimeouts(s, ms) ==
  LET q == s.timers
      scan[i \in 0..Len(q)] == IF i = 0 THEN s ELSE TimerStep(scan[i-1], q[i], ms)
  IN  scan[Len(q)]

\* (Wrong: the tick would not rotate.)
RotateUnless_Never(s, before) == s

\* The rotation at the end of the tick, unless the scans already chose a task.
RotateUnless(s, before) ==
  IF s.next = before THEN find_next_task_to_run(s, s.next) ELSE s
-----------------------------------------------------------------------------
(***************************************************************************)
(* What relates the parts of the record outside an interrupts-disabled     *)
(* region.                                                                 *)
(***************************************************************************)
NoDuplicates(q) == \A i, j \in DOMAIN q : q[i] = q[j] => i = j

ReadyOK(s) ==
  /\ NoDuplicates(s.ready)
  /\ \A t \in Task : t \in ToSet(s.ready) <=> s.state[t] = "RUNNABLE"

NextReady(s) == s.next \in ToSet(s.ready)

TimersOK(s) ==
  /\ NoDuplicates(s.timers)
  /\ \A t \in Task : t \in ToSet(s.timers) <=> Waiting(s.state[t]) /\ s.tick[t] # Infinite

WaitQueuesOK(s) ==
  \A q \in Queue :
    /\ NoDuplicates(s.wq[q])
    /\ \A t \in Task : t \in ToSet(s.wq[q]) <=> s.pwait[t] = q

\* A task waits for a reason and for a time that is not over; a task that does
\* not wait is in no queue and has no timeout.
WaitFieldsOK(s) ==
  \A t \in Task :
    IF Waiting(s.state[t]) THEN s.reason[t] # "NONE" /\ s.tick[t] # 0
    ELSE s.reason[t] = "NONE" /\ s.tick[t] = Infinite /\ s.pwait[t] = NoQueue
=============================================================================
