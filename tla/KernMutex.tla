------------------------------- MODULE KernMutex -------------------------------
(***************************************************************************)
(* Mutexes: src/kern/kern_mutex.c, with set_current_priority and the mutex *)
(* part of task_wait_complete of src/kern/kern_tasks.c.                    *)
(*                                                                         *)
(* The operators work on a record x of the scheduler's record x.s, the     *)
(* mutexes' own lists x.m, and x.sw, whether the C functions have reported *)
(* that a switch is needed.                                                *)
(*                                                                         *)
(* do_unlock_mutex walks kern_blocked_tasks_list without testing whether   *)
(* it is empty. Then it takes the list's head for a task's block_queue and *)
(* reads, for its pwait_queue, the word 24 bytes behind it. By the linker  *)
(* map (Debug/List/xmc1404_test.map) that is one of gpio.c's pointers to a *)
(* table of functions. What it then takes for the holder of a mutex is one *)
(* of these functions, so the mutex is not free, and nothing happens.      *)
(***************************************************************************)
EXTENDS KernCalls

CONSTANTS
  Mutex,      \* the mutexes, named by their wait queues
  NoTask,     \* a pointer to a task that is NULL
  MutexOrder, \* the order in which the application takes mutexes it needs at a time
  Setups      \* what kern_mutex_create may have been told: attr and ceil_priority

ASSUME MutexAssumption ==
  /\ Mutex \subseteq Queue /\ NoTask \notin Task
  /\ MutexOrder \in Seq(Mutex) /\ ToSet(MutexOrder) = Mutex
  /\ Setups \subseteq [Mutex -> [attr : {"CEILING", "INHERIT"}, ceil : 1..(KERN_NUM_PRIORITY - 2)]]
  /\ Mutex # {} => MainPriority < KERN_NUM_PRIORITY - 1

VARIABLES
  setup, \* attr and ceil_priority of the mutexes
  mx,    \* holder of the mutexes, mutex_queue (held) and blk_task of the TCBs (blk),
         \* kern_locked_mutexes_list (locked), kern_blocked_tasks_list (blocked)
  own    \* own[t]: the mutexes the calls of t have locked, by their return codes

muvars == << setup, mx, own >>

MutexReasons == {"MUTEX_C", "MUTEX_C_BLK", "MUTEX_I"}

\* kern_mutex_create.
MutexInit(s) ==
  /\ setup = s
  /\ mx = [ holder  |-> [q \in Mutex |-> NoTask],
            held    |-> [t \in Task |-> << >>],
            locked  |-> << >>,
            blocked |-> << >>,
            blk     |-> [t \in Task |-> NoTask] ]
  /\ own = [t \in Task |-> {}]

Ceiling(q) == setup[q].attr = "CEILING"
-----------------------------------------------------------------------------
find_max_blocked_priority(s, q, ref) == Min({ref} \cup {s.prio[t] : t \in ToSet(s.wq[q])})

WaitsForMutex(s, t) == Waiting(s.state[t]) /\ s.reason[t] \in MutexReasons

Blocker(x, t) ==
  IF x.s.reason[t] = "MUTEX_C_BLK" THEN x.m.blk[t] ELSE x.m.holder[x.s.pwait[t]]

(***************************************************************************)
(* set_current_priority goes from a task that waits for a mutex to the one *)
(* that keeps it waiting, and changes the priority of the first that runs. *)
(* The tasks on the way keep theirs. One that stands still for another     *)
(* reason gives its new priority to the task the walk began with. (A walk  *)
(* visits no task twice, unless tasks wait for each other in a circle.)    *)
(***************************************************************************)
WalkEnd(x, t, p) ==
  LET s == x.s
      walk[i \in 0..Cardinality(Task)] ==
        IF i = 0 THEN [task |-> t, new |-> p]
        ELSE LET u == walk[i-1].task
                 n == walk[i-1].new
                 b == Blocker(x, u)
             IN  IF s.prio[u] = n \/ ~WaitsForMutex(s, u) THEN walk[i-1]
                 ELSE [task |-> b,
                       new  |-> IF s.prio[u] < n
                                THEN find_max_blocked_priority(s, s.pwait[u], s.prio[b])
                                ELSE n]
  IN  walk[Cardinality(Task)]

set_current_priority(x, t, p) ==
  LET end == WalkEnd(x, t, p)
  IN  IF x.s.prio[end.task] = end.new THEN x
      ELSE IF x.s.state[end.task] = "RUNNABLE"
           THEN [x EXCEPT !.s  = change_running_task_priority(@, end.task, end.new),
                          !.sw = @ \/ PriorityChangeSwitches(x.s, end.task, end.new)]
           ELSE [x EXCEPT !.s.prio[t] = end.new]

RemoveBlocked(m, t) == [m EXCEPT !.blocked = Unlinked(@, t)]

\* (Wrong: a task would stay in the list of those the ceilings block.)
mutex_wait_complete_StaysBlocked(x, t) ==
  [x EXCEPT !.s = task_wait_complete(@, t), !.sw = @ \/ ~Suspended(x.s.state[t])]

\* task_wait_complete, the whole of it.
mutex_wait_complete(x, t) ==
  LET b == Blocker(x, t)
      r == [ s  |-> task_wait_complete(x.s, t),
             m  |-> IF x.s.reason[t] = "MUTEX_C_BLK" THEN RemoveBlocked(x.m, t) ELSE x.m,
             sw |-> x.sw \/ ~Suspended(x.s.state[t]) ]
  IN  IF x.s.reason[t] \in MutexReasons /\ b # NoTask /\ r.s.prio[b] < r.s.prio[t]
      THEN set_current_priority(r, b, find_max_blocked_priority(r.s, x.s.pwait[t], r.s.prio[b]))
      ELSE r

\* The timeout scan of the tick with it.
MutexTimerStep(x, t, ms) ==
  LET r == [x EXCEPT !.s.tick[t] = IF ms /\ @ > 0 THEN @ - 1 ELSE @]
  IN  IF x.s.tick[t] > 0 /\ r.s.tick[t] = 0
      THEN [mutex_wait_complete(r, t) EXCEPT !.s.rc[t] = "TIMEOUT"]
      ELSE r

MutexScanTimeouts(x, ms) ==
  LET q == x.s.timers
      scan[i \in 0..Len(q)] == IF i = 0 THEN x ELSE MutexTimerStep(scan[i-1], q[i], ms)
  IN  scan[Len(q)]
-----------------------------------------------------------------------------
\* enable_lock_mutex: the locked ceiling mutexes of others that keep t from locking one.
Obstacles(x, t) ==
  {i \in DOMAIN x.m.locked : LET q == x.m.locked[i]
                             IN  Ceiling(q) /\ x.m.holder[q] # t /\ setup[q].ceil < x.s.prio[t]}

enable_lock_mutex(x, t) == Obstacles(x, t) = {}

\* blk_task: the holder of the first of them that has the lowest ceiling.
blk_task(x, t) ==
  LET ceil(i) == setup[x.m.locked[i]].ceil
  IN  x.m.holder[x.m.locked[CHOOSE i \in Obstacles(x, t) : \A j \in Obstacles(x, t) :
                              ceil(j) < ceil(i) \/ (ceil(j) = ceil(i) /\ i <= j)]]

\* t becomes the holder of q. (blk_task is not reset for an inheritance mutex.)
Locked(x, q, t) ==
  [x EXCEPT !.m.holder[q] = t,
            !.m.held[t]   = Append(@, q),
            !.m.locked    = Append(@, q),
            !.m.blk[t]    = IF Ceiling(q) THEN NoTask ELSE @]

\* A waiting task t gets the mutex q.
PassTo(x, q, t) ==
  Locked(mutex_wait_complete([x EXCEPT !.m = RemoveBlocked(@, t)], t), q, t)

try_lock_mutex(x, t) ==
  LET q == x.s.pwait[t]
  IN  IF x.m.holder[q] = NoTask /\ enable_lock_mutex(x, t) THEN PassTo(x, q, t) ELSE x

\* The tasks that are blocked by ceilings try again, except hi.
RetryBlocked(x, hi) ==
  LET b == x.m.blocked
      retry[i \in 0..Len(b)] ==
        IF i = 0 THEN x ELSE IF b[i] = hi THEN retry[i-1] ELSE try_lock_mutex(retry[i-1], b[i])
  IN  retry[Len(b)]

\* The first of the waiting tasks with the highest priority. (The code looks for one with a
\* priority before 31. Only Main can have 31, and MutexAssumption says that it does not.)
HighestWaiter(s, q) ==
  s.wq[q][CHOOSE i \in DOMAIN s.wq[q] : \A j \in DOMAIN s.wq[q] :
            s.prio[s.wq[q][i]] < s.prio[s.wq[q][j]]
            \/ (s.prio[s.wq[q][i]] = s.prio[s.wq[q][j]] /\ i <= j)]

\* The caller has one mutex less. With none left its priority is set to what it is.
PriorityAfterUnlock(x) ==
  LET pr == Min({x.s.prio[curr]} \cup
                {find_max_blocked_priority(x.s, q, x.s.prio[curr]) : q \in ToSet(x.m.held[curr])})
  IN  set_current_priority(x, curr, pr)

\* The ceiling protocol finds the task that waits with the highest priority blocked. The
\* code leaves the mutex to its old holder.
StaysLocked(x, q, t) ==
  IF t \in ToSet(x.m.blocked) THEN x
  ELSE [x EXCEPT !.m.blocked = Append(@, t), !.m.blk[t] = blk_task(x, t),
                 !.s.reason[t] = "MUTEX_C_BLK"]

Unlink(x, q) ==
  [x EXCEPT !.m.locked = Unlinked(@, q),
            !.m.held   = [t \in Task |-> Unlinked(@[t], q)]]

\* (Wrong: a mutex nobody waits for would keep its holder.)
HandsOn_KeepsHolder(x, q) ==
  IF x.s.wq[q] = << >> THEN x
  ELSE LET t == Head(x.s.wq[q]) IN PassTo(x, q, t)

HandsOn(x, q) ==
  IF x.s.wq[q] = << >>
  THEN LET r == [x EXCEPT !.m.holder[q] = NoTask]
       IN  IF Ceiling(q) THEN RetryBlocked(r, curr) ELSE r
  ELSE IF Ceiling(q)
  THEN LET t == HighestWaiter(x.s, q)
       IN  IF enable_lock_mutex(x, t) THEN PassTo(x, q, t) ELSE StaysLocked(x, q, t)
  ELSE PassTo(x, q, Head(x.s.wq[q]))

\* (Wrong: the mutex would stay in the lists of locked mutexes.)
do_unlock_mutex_StaysLinked(x, q) == HandsOn(PriorityAfterUnlock(x), q)

do_unlock_mutex(x, q) == HandsOn(PriorityAfterUnlock(Unlink(x, q)), q)
-----------------------------------------------------------------------------
Now == [s |-> k, m |-> mx, sw |-> FALSE]

Becomes(x) == k' = x.s /\ mx' = x.m

IllegalLock(q) ==
  mx.holder[q] = curr \/ (Ceiling(q) /\ k.prio[curr] < setup[q].ceil)

\* The application locks a mutex while it has others only in MutexOrder.
InOrder(q) ==
  \E i \in DOMAIN MutexOrder : MutexOrder[i] = q /\ own[curr] \subseteq ToSet(SubSeq(MutexOrder, 1, i))

CanLock(q) ==
  ~IllegalLock(q) /\ mx.holder[q] = NoTask /\ (Ceiling(q) => enable_lock_mutex(Now, curr))

LocksAtOnce(q) ==
  /\ CanLock(q)
  /\ Becomes(Locked(Now, q, curr))
  /\ own' = [own EXCEPT ![curr] = @ \cup {q}]
  /\ UNCHANGED setup

\* The task that keeps the caller waiting inherits its priority.
Inherits(t) ==
  IF k.prio[curr] < k.prio[t] THEN set_current_priority(Now, t, k.prio[curr]) ELSE Now

LockWaits(q, timeout) ==
  LET blocked == mx.holder[q] = NoTask
      b       == IF blocked THEN blk_task(Now, curr) ELSE mx.holder[q]
      reason  == IF blocked THEN "MUTEX_C_BLK" ELSE IF Ceiling(q) THEN "MUTEX_C" ELSE "MUTEX_I"
  IN  /\ At("entered", q) /\ MayWait
      /\ ~IllegalLock(q) /\ ~CanLock(q)
      /\ k' = task_curr_to_wait_action(Inherits(b).s, curr, q, reason, timeout)
      /\ mx' = IF blocked THEN [mx EXCEPT !.blocked = Append(@, curr), !.blk[curr] = b] ELSE mx
      /\ Goes("waited", q) /\ Switches /\ UnchangedTasks /\ SameObjects
      /\ UNCHANGED << setup, own >>

kern_mutex_lock(q, timeout) ==
  /\ InOrder(q)
  /\ \/ Quick(q) /\ Returns /\ LocksAtOnce(q)
     \/ LockWaits(q, timeout)
     \/ Quick(q) /\ Returns /\ IllegalLock(q) /\ UNCHANGED << k, muvars >>

\* Where kern_mutex_lock would wait it returns ERR_TIMEOUT.
kern_mutex_lock_polling(q) ==
  /\ Quick(q) /\ Returns
  /\ LocksAtOnce(q) \/ (~CanLock(q) /\ UNCHANGED << k, muvars >>)

\* queue_remove_entry is only good for an entry that is in a list. An unlock that races
\* a deletion, and the deletion of a mutex that StaysLocked, would follow stale links:
\* they are not modelled.
InLists(q) == mx.holder[q] = NoTask \/ q \in ToSet(mx.locked)

\* Only the holder's call does anything; the application unlocks what it has locked.
kern_mutex_unlock(q) ==
  LET x == do_unlock_mutex(Now, q)
  IN  /\ q \in own[curr] /\ mx.holder[q] = curr /\ InLists(q)
      /\ Quick(q) /\ Becomes(x)
      /\ IF x.sw THEN Switches ELSE Returns
      /\ own' = [own EXCEPT ![curr] = @ \ {q}]
      /\ UNCHANGED setup

\* The second half of kern_mutex_lock.
MutexWaited(q) ==
  /\ SecondHalf(q)
  /\ own' = IF k.rc[curr] = "NO_ERR" THEN [own EXCEPT ![curr] = @ \cup {q}] ELSE own
  /\ UNCHANGED << setup, mx >>
-----------------------------------------------------------------------------
\* remove_task_from_blocked_list is called before the wait ends.
EndForDeletion(x, t) ==
  mutex_wait_complete([s |-> x.s, m |-> RemoveBlocked(x.m, t), sw |-> FALSE], t)

MutexEndsForDeletion(q) ==
  LET w == k.wq[q]
      ends[i \in 0..Len(w)] ==
        IF i = 0 THEN Now
        ELSE IF ends[i-1].sw THEN ends[i-1] ELSE EndForDeletion(ends[i-1], w[i])
      x == ends[Len(w)]
      n == Len(w) - Len(x.s.wq[q])
  IN  IF x.sw THEN [x EXCEPT !.s.rc[w[n]] = "DLT"] ELSE x

\* When the waiters are gone a locked mutex leaves the lists; the field holder and the
\* holder's priority stay.
Vanishes(x, q) == IF x.m.holder[q] = NoTask THEN x ELSE Unlink(x, q)

kern_mutex_delete(q) ==
  /\ \/ (Deletes(q) \/ DeleteTest(q)) /\ UNCHANGED mx
     \/ LET x == MutexEndsForDeletion(q)
        IN  /\ InLists(q)
            /\ DeleteRemoves(q, Len(k.wq[q]) - Len(x.s.wq[q]), x.sw, FALSE)
            /\ Becomes(IF x.sw THEN x ELSE Vanishes(x, q))
     \/ InLists(q) /\ DeleteFinishes(q) /\ mx' = Vanishes(Now, q).m
  /\ UNCHANGED << setup, own >>

MutexNext(timeouts) ==
  \E q \in Mutex :
    \/ Enter(q) /\ UNCHANGED muvars
    \/ \E timeout \in timeouts : kern_mutex_lock(q, timeout)
    \/ kern_mutex_lock_polling(q)
    \/ kern_mutex_unlock(q)
    \/ MutexWaited(q)
    \/ kern_mutex_delete(q)
-----------------------------------------------------------------------------
(* Properties *)

MutexTypeOK ==
  /\ setup \in Setups
  /\ mx \in [ holder  : [Mutex -> Task \cup {NoTask}],
              held    : [Task -> Seq(Mutex)],
              locked  : Seq(Mutex),
              blocked : Seq(Task),
              blk     : [Task -> Task \cup {NoTask}] ]
  /\ own \in [Task -> SUBSET Mutex]

\* The tasks that have locked q by what its calls have told them, or are about to.
Owners(q) ==
  {t \in Task : \/ q \in own[t]
                \/ /\ at[t] = [part |-> "waited", obj |-> q]
                   /\ ~Waiting(k.state[t]) /\ k.rc[t] = "NO_ERR"}

\* At most one task has locked a mutex, it is the holder, and the mutex is in its list and
\* in that of all locked mutexes, whatever way it was handed on and whoever was suspended.
OneOwner ==
  Undisturbed => \A q \in Mutex : ~Deleted(q) =>
    /\ Cardinality(Owners(q)) <= 1
    /\ \A t \in Task : t \in Owners(q) <=> q \in ToSet(mx.held[t])
    /\ \A t \in Owners(q) : mx.holder[q] = t
    /\ q \in ToSet(mx.locked) <=> Owners(q) # {}

\* While a task waits for an inheritance mutex, another has it and will unlock it.
WaitedForIsLocked ==
  Undisturbed => \A q \in Mutex : ~Deleted(q) /\ ~Ceiling(q) /\ k.wq[q] # << >> => Owners(q) # {}

\* The list of blocked tasks holds tasks that wait for a mutex, once each.
BlockedTasksWait ==
  Undisturbed => /\ NoDuplicates(mx.blocked)
                 /\ \A t \in ToSet(mx.blocked) : Waiting(k.state[t]) /\ k.reason[t] = "MUTEX_C_BLK"

\* kern_mutex.c:468 "mutex now unlocked so lock condition may changed, try to lock another
\* mutexes for tasks,that are now in block_queue": with every mutex unlocked, and none deleted,
\* no task is kept waiting by a ceiling.
BlockedTasksRetried ==
  mx.locked = << >> /\ (\A q \in Mutex : ~Deleted(q)) => mx.blocked = << >>
=============================================================================
