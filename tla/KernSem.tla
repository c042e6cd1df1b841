-------------------------------- MODULE KernSem --------------------------------
(***************************************************************************)
(* Semaphores: src/kern/kern_sem.c and the part of the system tick that    *)
(* looks after their waiters, scan_sem_state of src/kern/kern.c, over the  *)
(* scheduler and the context switch of KernTasks. Of the calls that manage *)
(* tasks, creation and suspension are here, because suspension changes     *)
(* what a signal does. Deletion is not.                                    *)
(***************************************************************************)
EXTENDS KernStart

CONSTANTS
  StartCount,   \* start_value and max_val of kern_sem_create
  MaxCount

ASSUME SemAssumption ==
  /\ StartCount \in Nat /\ MaxCount \in Nat \ {0} /\ StartCount <= MaxCount

VARIABLES
  count,  \* count[q] is the count of the semaphore q
  out     \* acquisitions less signals, as their return codes tell the callers

semvars == << vars, count, out >>

\* kern_sem_create has set the counts.
SemInit ==
  /\ Init
  /\ count = [q \in Queue |-> StartCount]
  /\ out = [q \in Queue |-> 0]
-----------------------------------------------------------------------------
WaitsFor(s, t, q) == Waiting(s.state[t]) /\ s.reason[t] = "SEM" /\ s.pwait[t] = q

\* The tasks whose acquisition of q succeeds when their wait ends in this step.
Granted(q) == {t \in Task : /\ WaitsFor(k, t, q)
                            /\ ~Waiting(k'.state[t]) /\ k'.rc[t] = "NO_ERR"}

\* The effect of a step on out: n acquisitions or, negative, signals of q besides
\* the waits that it ends.
Counts(q, n) ==
  out' = [x \in Queue |-> out[x] + Cardinality(Granted(x)) + IF x = q THEN n ELSE 0]

kern_sem_acquire(q, timeout) ==
  /\ Calls(curr)
  /\ \/ /\ count[q] >= 1
        /\ count' = [count EXCEPT ![q] = @ - 1]
        /\ Counts(q, 1)
        /\ UNCHANGED k /\ Returns
     \/ /\ count[q] = 0 /\ MayStop(curr)
        /\ k' = task_curr_to_wait_action(k, curr, q, "SEM", timeout)
        /\ Switches /\ UNCHANGED << count, out >>
  /\ UnchangedTasks

\* (Wrong: the unit would be taken without a look at the count.)
kern_sem_acquire_polling_NoTest(q) ==
  /\ Calls(curr)
  /\ count' = [count EXCEPT ![q] = @ - 1]
  /\ Counts(q, 1)
  /\ UNCHANGED k /\ Returns /\ UnchangedTasks

\* Without a unit to take they return ERR_TIMEOUT and change nothing.
kern_sem_acquire_polling(q) ==
  /\ Calls(curr) /\ count[q] >= 1
  /\ count' = [count EXCEPT ![q] = @ - 1]
  /\ Counts(q, 1)
  /\ UNCHANGED k /\ Returns /\ UnchangedTasks

kern_sem_acquire_ipolling(q) ==
  /\ count[q] >= 1
  /\ count' = [count EXCEPT ![q] = @ - 1]
  /\ Counts(q, 1)
  /\ UNCHANGED << k, request >> /\ InterruptExit

\* A signal makes a waiter runnable.
SignalWakes(q) == k.wq[q] # << >> /\ ~Suspended(k.state[Head(k.wq[q])])

\* (Wrong: the unit would be counted as well as handed to the waiter.)
Signal_CountsHandedUnit(q) ==
  /\ count[q] < MaxCount \/ k.wq[q] # << >>
  /\ k' = IF k.wq[q] # << >> THEN task_wait_complete(k, Head(k.wq[q])) ELSE k
  /\ count' = [count EXCEPT ![q] = @ + 1]

\* (Wrong: no unit would be handed to a suspended task.)
Signal_PassesSuspended(q) ==
  \/ /\ SignalWakes(q)
     /\ k' = task_wait_complete(k, Head(k.wq[q]))
     /\ UNCHANGED count
  \/ /\ ~SignalWakes(q) /\ count[q] < MaxCount
     /\ count' = [count EXCEPT ![q] = @ + 1]
     /\ UNCHANGED k

\* What both kinds of signal do: the first waiter gets the unit, or it is counted.
\* A signal of a full semaphore returns ERR_OVERFLOW and changes nothing.
Signal(q) ==
  \/ /\ k.wq[q] # << >>
     /\ k' = task_wait_complete(k, Head(k.wq[q]))
     /\ UNCHANGED count
  \/ /\ k.wq[q] = << >> /\ count[q] < MaxCount
     /\ count' = [count EXCEPT ![q] = @ + 1]
     /\ UNCHANGED k

kern_sem_signal(q) ==
  /\ Calls(curr)
  /\ Signal(q) /\ Counts(q, -1)
  /\ IF SignalWakes(q) THEN Switches ELSE Returns
  /\ UnchangedTasks

\* Its interrupt leaves through kern_int_exit, without a request to switch.
kern_sem_isignal(q) ==
  /\ Signal(q) /\ Counts(q, -1)
  /\ UNCHANGED request /\ InterruptExit
-----------------------------------------------------------------------------
(***************************************************************************)
(* scan_sem_state, for the wait queue of q: a loop over the waiters that   *)
(* counts their time down, too, and ends the wait of one whose time is     *)
(* over and of all behind it (fCond is not reset). task_wait_complete has  *)
(* left ERR_NO_ERR in task_wait_rc.                                        *)
(***************************************************************************)
scan_sem_state(s, q, ms) ==
  LET w == s.wq[q]
      scan[i \in 0..Len(w)] ==
        IF i = 0 THEN [s |-> s, fCond |-> FALSE]
        ELSE LET t == w[i]
                 r == [scan[i-1].s EXCEPT !.tick[t] = IF ms /\ @ > 0 THEN @ - 1 ELSE @]
                 c == scan[i-1].fCond \/ r.tick[t] = 0 \/ count[q] > 0
             IN  [s |-> IF c THEN task_wait_complete(r, t) ELSE r, fCond |-> c]
  IN  scan[Len(w)].s

\* The object a task of the create list waits for is scanned if it is a semaphore.
ScanOf(s, t, ms) ==
  IF t # CreateList /\ s.pwait[t] # NoQueue /\ s.reason[t] = "SEM"
  THEN scan_sem_state(s, s.pwait[t], ms)
  ELSE s

\* The loop over kern_create_queue begins behind its first task and ends after
\* two, because its test assigns: ptr_loop = ptr.
ScanCreated(s, ms) ==
  LET second == created.next[created.next[CreateList]]
      third  == created.next[second]
  IN  IF second = CreateList THEN s
      ELSE ScanOf(ScanOf(s, second, ms), third, ms)

\* SysTick_HandlerFunc with the scan of the semaphores.
SemSysTick ==
  /\ Tick
  /\ k' = RotateUnless(ScanTimeouts(ScanCreated(k, us_count' = 0), us_count' = 0), k.next)
  /\ pend' = TRUE /\ request' = TRUE
  /\ Counts(NoQueue, 0)
  /\ UNCHANGED << created, id_task, curr, cpu, sp, count >>
-----------------------------------------------------------------------------
SemUnchanged == UNCHANGED << count, out >>

SemNext ==
  \/ \E q \in Queue, timeout \in Timeouts : kern_sem_acquire(q, timeout)
  \/ \E q \in Queue : \/ kern_sem_acquire_polling(q)
                      \/ kern_sem_acquire_ipolling(q)
                      \/ kern_sem_signal(q)
                      \/ kern_sem_isignal(q)
  \/ CreatesNext /\ SemUnchanged
  \/ \E t \in Suspendable : kern_task_suspend(t) /\ SemUnchanged
  \/ \E t \in Suspendable : kern_task_resume(t) /\ SemUnchanged
  \/ TestNext /\ SemUnchanged
  \/ SwitchContext /\ SemUnchanged
  \/ PendSV /\ SemUnchanged
  \/ SemSysTick

SemSpec == SemInit /\ [][SemNext]_semvars
-----------------------------------------------------------------------------
(* Properties *)

SemTypeOK ==
  /\ TypeOK
  /\ count \in [Queue -> 0..MaxCount]
  /\ out \in [Queue -> Int]

\* No unit is left in the semaphore while a task waits for one, in whatever order
\* signals, suspensions and interrupts come: no wakeup is lost.
NoUnitIdle == \A q \in Queue : count[q] > 0 => k.wq[q] = << >>

\* The return codes the callers see account for every unit: an acquisition that
\* reports success has taken one, a unit handed to a waiter is not counted as well.
UnitsConserved == \A q \in Queue : count[q] + out[q] = StartCount

\* While signals keep coming each waiter gets a unit in the end: the wait queue
\* is first come first served, and suspended tasks keep their place.
SignalsReachWaiters ==
  \A q \in Queue :
    []<><<kern_sem_signal(q) \/ kern_sem_isignal(q)>>_semvars
      => \A t \in Task : k.pwait[t] = q ~> k.pwait[t] # q

\* kern_types.h:109 "Polling failure or timeout": a tick that ends the wait of a
\* task, with no unit to be had, makes its kern_sem_acquire return ERR_TIMEOUT.
TimeoutReported ==
  [][SemSysTick => \A q \in Queue, t \in Task :
       WaitsFor(k, t, q) /\ ~Waiting(k'.state[t]) /\ count[q] = 0 => k'.rc[t] = "TIMEOUT"]_semvars
=============================================================================
