---------------------------- MODULE KernMutexProofs ----------------------------
(***************************************************************************)
(* What the operators of KernMutex do to the scheduler's record and to the *)
(* lists of the mutexes, for every set of tasks and mutexes, all           *)
(* attributes and ceilings: KernObjectsProofs cites these facts.           *)
(***************************************************************************)
EXTENDS KernMutex, KernSemProofs

-----------------------------------------------------------------------------
(* Choices *)

\* The least of a set of priorities is one of them.
LEMMA MinIsOne ==
  ASSUME NEW S \in SUBSET Nat, S # {}
  PROVE  Min(S) \in Nat
<1>1. \E x \in S : \A y \in S : x <= y
  BY LeastNumber
<1>2. Min(S) \in S
  BY <1>1 DEF Min
<1> QED BY <1>2

\* Of the places whose values are largest there is a first.
LEMMA FirstOfLargest ==
  ASSUME NEW n \in Nat, NEW f, \A i \in 1..n : f[i] \in Int,
         NEW S \in SUBSET (1..n), S # {}
  PROVE  \E i \in S : \A j \in S : f[j] < f[i] \/ (f[j] = f[i] /\ i <= j)
<1> DEFINE Best(m) == \E i \in S : /\ i <= m
                                   /\ \A j \in S : j <= m => f[j] < f[i] \/ (f[j] = f[i] /\ i <= j)
           G == {m \in 0..n : (\E i \in S : i <= m) => Best(m)}
<1>1. 0 \in G
  OBVIOUS
<1>2. ASSUME NEW m \in 1..n, m-1 \in G
      PROVE  m \in G
  <2>0. SUFFICES ASSUME \E i \in S : i <= m PROVE Best(m)
    OBVIOUS
  <2>1. CASE m \notin S
    <3>1. \A i \in S : i <= m => i <= m-1
      BY <2>1
    <3>2. PICK i \in S : /\ i <= m-1
                         /\ \A j \in S : j <= m-1 => f[j] < f[i] \/ (f[j] = f[i] /\ i <= j)
      BY <1>2, <2>0, <3>1
    <3> QED BY <3>1, <3>2
  <2>2. CASE m \in S /\ ~\E i \in S : i <= m-1
    <3>1. \A j \in S : j <= m => j = m
      BY <2>2
    <3> QED BY <2>2, <3>1
  <2>3. CASE m \in S /\ \E i \in S : i <= m-1
    <3>1. PICK i \in S : /\ i <= m-1
                         /\ \A j \in S : j <= m-1 => f[j] < f[i] \/ (f[j] = f[i] /\ i <= j)
      BY <1>2, <2>3
    <3>2. \A j \in S : j <= m => j = m \/ j <= m-1
      OBVIOUS
    <3>3. i \in 1..n /\ m \in 1..n /\ f[i] \in Int /\ f[m] \in Int /\ \A j \in S : f[j] \in Int /\ j \in Int
      OBVIOUS
    <3>4. CASE f[m] <= f[i]
      <4>1. \A j \in S : j <= m => f[j] < f[i] \/ (f[j] = f[i] /\ i <= j)
        BY <3>1, <3>2, <3>3, <3>4
      <4> QED BY <3>1, <4>1
    <3>5. CASE f[i] < f[m]
      <4>1. \A j \in S : j <= m => f[j] < f[m] \/ (f[j] = f[m] /\ m <= j)
        BY <3>1, <3>2, <3>3, <3>5
      <4> QED BY <2>3, <4>1
    <3> QED BY <3>3, <3>4, <3>5
  <2> QED BY <2>1, <2>2, <2>3
<1> HIDE DEF G
<1>3. n \in G
  BY <1>1, <1>2, UpTo
<1>4. PICK s \in S : TRUE
  OBVIOUS
<1>5. Best(n)
  BY <1>3, <1>4 DEF G
<1> QED BY <1>5
-----------------------------------------------------------------------------
(***************************************************************************)
(* What relates the lists of the mutexes to each other and to the          *)
(* scheduler's record.                                                     *)
(***************************************************************************)
MutexLists == [ holder  : [Mutex -> Task \cup {NoTask}],
                held    : [Task -> Seq(Mutex)],
                locked  : Seq(Mutex),
                blocked : Seq(Task),
                blk     : [Task -> Task \cup {NoTask}] ]

\* Whoever waits for a mutex waits for a task: the one that blocks it, or the holder.
BlockersOK(s, m) ==
  \A t \in Task :
    /\ s.reason[t] \in MutexReasons <=> s.pwait[t] \in Mutex
    /\ s.reason[t] = "MUTEX_C_BLK" => m.blk[t] \in Task /\ Ceiling(s.pwait[t])
    /\ s.reason[t] \in {"MUTEX_C", "MUTEX_I"} => m.holder[s.pwait[t]] \in Task

\* The list of locked mutexes is that of all the tasks' own lists, and who has a mutex in
\* its list is its holder.
LocksOK(m) ==
  /\ NoDuplicates(m.locked)
  /\ \A t \in Task : NoDuplicates(m.held[t])
  /\ \A t \in Task : \A q \in ToSet(m.held[t]) : m.holder[q] = t /\ q \in ToSet(m.locked)
  /\ \A q \in ToSet(m.locked) : \E t \in Task : q \in ToSet(m.held[t])

BlockedOK(s, m) ==
  /\ NoDuplicates(m.blocked)
  /\ \A t \in ToSet(m.blocked) : Waiting(s.state[t]) /\ s.reason[t] = "MUTEX_C_BLK"

MutexesOK(s, m) == m \in MutexLists /\ BlockersOK(s, m) /\ LocksOK(m) /\ BlockedOK(s, m)

\* The records that the operators work on.
Triple(x) == x = [s |-> x.s, m |-> x.m, sw |-> x.sw]

Orderly(x) == Triple(x) /\ SchedOK(x.s) /\ NextReady(x.s) /\ MutexesOK(x.s, x.m)

\* The same but for priorities and the order of the ready list.
SamePlaces(s, r) ==
  /\ r.timers = s.timers /\ r.wq = s.wq /\ r.state = s.state /\ r.tick = s.tick
  /\ r.reason = s.reason /\ r.rc = s.rc /\ r.pwait = s.pwait

LEMMA SamePlacesKeep ==
  ASSUME NEW s, NEW r, NEW m, SamePlaces(s, r), MutexesOK(s, m)
  PROVE  MutexesOK(r, m)
BY DEF SamePlaces, MutexesOK, BlockersOK, BlockedOK
-----------------------------------------------------------------------------
(* set_current_priority *)

\* Whoever waits for a mutex has a blocker.
LEMMA BlockerIsTask ==
  ASSUME NEW x, x.s \in Sched, MutexesOK(x.s, x.m), NEW t \in Task,
         x.s.reason[t] \in MutexReasons
  PROVE  Blocker(x, t) \in Task /\ x.s.pwait[t] \in Mutex
BY DEF Blocker, MutexesOK, BlockersOK, MutexReasons

LEMMA WaitersPriority ==
  ASSUME NEW s \in Sched, NEW q \in Queue, NEW p \in Nat
  PROVE  find_max_blocked_priority(s, q, p) \in Nat
<1>1. s.wq[q] \in Seq(Task) /\ s.prio \in [Task -> Nat]
  BY DEF Sched
<1>2. \A t \in ToSet(s.wq[q]) : t \in Task
  BY <1>1 DEF ToSet
<1>3. {p} \cup {s.prio[t] : t \in ToSet(s.wq[q])} \in SUBSET Nat
  BY <1>1, <1>2
<1> QED BY <1>3, MinIsOne DEF find_max_blocked_priority

\* A step of the walk of set_current_priority, and the walk.
WalkStep(x, w) ==
  LET s == x.s
      b == Blocker(x, w.task)
  IN  IF s.prio[w.task] = w.new \/ ~WaitsForMutex(s, w.task) THEN w
      ELSE [task |-> b, new |-> IF s.prio[w.task] < w.new
                                THEN find_max_blocked_priority(s, s.pwait[w.task], s.prio[b])
                                ELSE w.new]

WalkUpTo(f, m, x, t, p) ==
  f = [i \in 0..m |-> IF i = 0 THEN [task |-> t, new |-> p] ELSE WalkStep(x, f[i-1])]

LEMMA WalkExists ==
  ASSUME NEW x, NEW t, NEW p, NEW n \in Nat
  PROVE  \E f : WalkUpTo(f, n, x, t, p)
<1> DEFINE G == {m \in 0..n : \E f : WalkUpTo(f, m, x, t, p)}
<1>1. 0 \in G
  <2>1. WalkUpTo([i \in 0..0 |-> [task |-> t, new |-> p]], 0, x, t, p)
    BY DEF WalkUpTo
  <2> QED BY <2>1
<1>2. ASSUME NEW m \in 1..n, m-1 \in G
      PROVE  m \in G
  <2>1. PICK f : WalkUpTo(f, m-1, x, t, p)
    BY <1>2
  <2> DEFINE g == [i \in 0..m |-> IF i = m THEN WalkStep(x, f[m-1]) ELSE f[i]]
  <2>2. ASSUME NEW i \in 0..m
        PROVE  g[i] = IF i = 0 THEN [task |-> t, new |-> p] ELSE WalkStep(x, g[i-1])
    <3>1. CASE i = m
      <4>1. m-1 \in 0..m /\ m-1 # m /\ m \in 0..m /\ m # 0
        OBVIOUS
      <4>2. g[m-1] = f[m-1] /\ g[m] = WalkStep(x, f[m-1])
        BY <4>1
      <4> QED BY <3>1, <4>1, <4>2
    <3>2. CASE i # m
      <4>1. i \in 0..(m-1) /\ (i # 0 => i-1 \in 0..(m-1))
        BY <3>2
      <4>2. g[i] = f[i] /\ (i # 0 => g[i-1] = f[i-1])
        BY <4>1
      <4>3. f[i] = IF i = 0 THEN [task |-> t, new |-> p] ELSE WalkStep(x, f[i-1])
        BY <2>1, <4>1 DEF WalkUpTo
      <4> QED BY <4>2, <4>3
    <3> QED BY <3>1, <3>2
  <2>3. WalkUpTo(g, m, x, t, p)
    BY <2>2 DEF WalkUpTo
  <2> QED BY <2>3
<1> HIDE DEF G
<1>3. n \in G
  BY <1>1, <1>2, UpTo
<1> QED BY <1>3 DEF G

\* The walk ends at a task, with a priority for it.
LEMMA WalkEndsAtTask ==
  ASSUME NEW x, x.s \in Sched, MutexesOK(x.s, x.m), NEW t \in Task, NEW p \in Nat
  PROVE  WalkEnd(x, t, p).task \in Task /\ WalkEnd(x, t, p).new \in Nat
<1> DEFINE n == Cardinality(Task)
           Ends == [task : Task, new : Nat]
<1>1. n \in Nat
  BY FiniteTasks, FS_CardinalityType
<1>2. ASSUME NEW w \in Ends PROVE WalkStep(x, w) \in Ends
  <2> DEFINE u == w.task
             b == Blocker(x, u)
  <2>1. u \in Task /\ w.new \in Nat /\ x.s.prio \in [Task -> Nat]
    BY DEF Sched
  <2>2. CASE ~WaitsForMutex(x.s, u) \/ x.s.prio[u] = w.new
    BY <2>2 DEF WalkStep
  <2>3. CASE WaitsForMutex(x.s, u) /\ x.s.prio[u] # w.new
    <3>1. b \in Task /\ x.s.pwait[u] \in Queue
      BY <2>1, <2>3, BlockerIsTask, MutexAssumption DEF WaitsForMutex
    <3> HIDE DEF b
    <3>2. x.s.prio[b] \in Nat
      BY <2>1, <3>1
    <3>3. find_max_blocked_priority(x.s, x.s.pwait[u], x.s.prio[b]) \in Nat
      BY <3>1, <3>2, WaitersPriority
    <3> QED BY <2>1, <2>3, <3>1, <3>3 DEF WalkStep, b
  <2> QED BY <2>2, <2>3
<1> HIDE DEF n
<1>3. PICK f : WalkUpTo(f, n, x, t, p)
  BY <1>1, WalkExists
<1> DEFINE walk == CHOOSE g : WalkUpTo(g, n, x, t, p)
<1>4. WalkUpTo(walk, n, x, t, p)
  BY <1>3
<1>5. WalkEnd(x, t, p) = walk[n]
  BY DEF WalkEnd, WalkUpTo, WalkStep, n
<1> HIDE DEF walk
<1> DEFINE G == {i \in 0..n : walk[i] \in Ends}
<1>6. 0 \in G
  BY <1>1, <1>4 DEF WalkUpTo
<1>7. ASSUME NEW i \in 1..n, i-1 \in G PROVE i \in G
  <2>1. walk[i] = WalkStep(x, walk[i-1])
    BY <1>1, <1>4 DEF WalkUpTo
  <2> QED BY <1>2, <1>7, <2>1
<1> HIDE DEF G
<1>8. n \in G
  BY <1>1, <1>6, <1>7, UpTo
<1> QED BY <1>5, <1>8 DEF G

\* What happens to a task whose priority changes while it runs concerns the ready list.
LEMMA PriorityLeavesPlaces ==
  ASSUME NEW s \in Sched, NEW t, NEW p, NEW r, r = change_running_task_priority(s, t, p)
  PROVE  SamePlaces(s, r)
<1> DEFINE m == [s EXCEPT !.ready = Append(RemoveAt(s.ready, Position(s.ready, t)), t),
                          !.prio[t] = p]
<1>1. DOMAIN m = Fields /\ SamePlaces(s, m)
  BY SchedFields DEF Fields, SamePlaces
<1>2. r = IF s.next = t
          THEN IF p >= s.prio[t] THEN find_next_task_to_run(m, t) ELSE m
          ELSE IF p < s.prio[s.next] THEN [m EXCEPT !.next = t] ELSE m
  BY DEF change_running_task_priority
<1> HIDE DEF m
<1>3. SamePlaces(m, find_next_task_to_run(m, t))
  BY <1>1 DEF find_next_task_to_run, WalkFrom, Fields, SamePlaces
<1>4. SamePlaces(m, [m EXCEPT !.next = t]) /\ SamePlaces(m, m)
  BY <1>1 DEF Fields, SamePlaces
<1>5. SamePlaces(m, r)
  BY <1>2, <1>3, <1>4
<1> QED BY <1>1, <1>5 DEF SamePlaces

\* A task's priority changes, or that of the task it waits for in the end.
LEMMA PriorityIsSet ==
  ASSUME NEW x, Orderly(x), NEW t \in Task, NEW p \in Nat,
         NEW r, r = set_current_priority(x, t, p)
  PROVE  Orderly(r) /\ SamePlaces(x.s, r.s) /\ r.m = x.m
<1> DEFINE u == WalkEnd(x, t, p).task
           n == WalkEnd(x, t, p).new
           sw == x.sw \/ PriorityChangeSwitches(x.s, u, n)
<1>1. x.s \in Sched /\ SchedOK(x.s) /\ NextReady(x.s) /\ Triple(x) /\ MutexesOK(x.s, x.m)
  BY DEF Orderly, SchedOK
<1>2. u \in Task /\ n \in Nat
  BY <1>1, WalkEndsAtTask
<1>3. r = IF x.s.prio[u] = n THEN x
          ELSE IF x.s.state[u] = "RUNNABLE"
               THEN [x EXCEPT !.s = change_running_task_priority(x.s, u, n), !.sw = sw]
               ELSE [x EXCEPT !.s.prio[t] = n]
  BY DEF set_current_priority
<1> HIDE DEF u, n, sw
<1>4. CASE r = x
  BY <1>1, <1>4 DEF SamePlaces
<1>5. CASE x.s.state[u] = "RUNNABLE"
           /\ r = [x EXCEPT !.s = change_running_task_priority(x.s, u, n), !.sw = sw]
  <2> DEFINE c == change_running_task_priority(x.s, u, n)
  <2>1. SchedOK(c) /\ NextReady(c) /\ SamePlaces(x.s, c)
    BY <1>1, <1>2, <1>5, PriorityChanges, PriorityLeavesPlaces
  <2> HIDE DEF c
  <2>2. r = [s |-> c, m |-> x.m, sw |-> sw]
    BY <1>1, <1>5 DEF Triple, c
  <2>3. MutexesOK(c, x.m)
    BY <1>1, <2>1, SamePlacesKeep
  <2> QED BY <2>1, <2>2, <2>3 DEF Orderly, Triple
<1>6. CASE r = [x EXCEPT !.s.prio[t] = n]
  <2> DEFINE c == [x.s EXCEPT !.prio[t] = n]
  <2>1. SchedOK(c) /\ NextReady(c)
    BY <1>1, <1>2, PriorityFieldChanges
  <2>2. SamePlaces(x.s, c)
    BY <1>1 DEF SamePlaces, Sched
  <2> HIDE DEF c
  <2>3. r = [s |-> c, m |-> x.m, sw |-> x.sw]
    BY <1>1, <1>6 DEF Triple, c
  <2>4. MutexesOK(c, x.m)
    BY <1>1, <2>2, SamePlacesKeep
  <2> QED BY <2>1, <2>2, <2>3, <2>4 DEF Orderly, Triple
<1> QED BY <1>3, <1>4, <1>5, <1>6
-----------------------------------------------------------------------------
(* task_wait_complete with its mutex part *)

\* The wait of t may end: all is as it should be, but perhaps its time is over.
Ending(s, t) ==
  /\ s \in Sched /\ ReadyOK(s) /\ TimersOK(s) /\ WaitQueuesOK(s) /\ NextReady(s)
  /\ Waiting(s.state[t])
  /\ \A u \in Task \ {t} : FieldsOK(s, u)

\* From x to r the wait of t ends with ERR_NO_ERR, and nobody else's.
WaitOver(x, r, t) ==
  /\ r.s.state[t] = (IF Suspended(x.s.state[t]) THEN "SUSPEND" ELSE "RUNNABLE")
  /\ r.s.pwait[t] = NoQueue /\ r.s.tick[t] = Infinite /\ r.s.reason[t] = "NONE"
  /\ r.s.rc[t] = "NO_ERR"
  /\ \A u \in Task \ {t} :
       /\ r.s.state[u] = x.s.state[u] /\ r.s.pwait[u] = x.s.pwait[u]
       /\ r.s.tick[u] = x.s.tick[u] /\ r.s.reason[u] = x.s.reason[u] /\ r.s.rc[u] = x.s.rc[u]
  /\ \A q \in Queue :
       r.s.wq[q] = IF q = x.s.pwait[t] THEN Unlinked(x.s.wq[q], t) ELSE x.s.wq[q]
  /\ r.m.holder = x.m.holder /\ r.m.held = x.m.held /\ r.m.locked = x.m.locked
  /\ r.m.blk = x.m.blk
  /\ ToSet(r.m.blocked) = ToSet(x.m.blocked) \ {t}

\* The list of blocked tasks without one of them.
LEMMA BlockedRemoved ==
  ASSUME NEW m \in MutexLists, NoDuplicates(m.blocked), NEW t \in Task,
         NEW r, r = RemoveBlocked(m, t)
  PROVE  /\ r \in MutexLists /\ NoDuplicates(r.blocked)
         /\ ToSet(r.blocked) = ToSet(m.blocked) \ {t}
         /\ r.holder = m.holder /\ r.held = m.held /\ r.locked = m.locked /\ r.blk = m.blk
<1> DEFINE b == Unlinked(m.blocked, t)
<1>1. b \in Seq(Task) /\ NoDuplicates(b) /\ ToSet(b) = ToSet(m.blocked) \ {t}
  BY UnlinkedElement DEF MutexLists
<1>2. r = [m EXCEPT !.blocked = b]
  BY DEF RemoveBlocked
<1> HIDE DEF b
<1> QED BY <1>1, <1>2 DEF MutexLists

LEMMA MutexWaitCompletes ==
  ASSUME NEW x, Triple(x), NEW t \in Task, Ending(x.s, t), MutexesOK(x.s, x.m),
         NEW r, r = mutex_wait_complete(x, t)
  PROVE  Orderly(r) /\ WaitOver(x, r, t)
<1> DEFINE b  == Blocker(x, t)
           c  == task_wait_complete(x.s, t)
           m  == IF x.s.reason[t] = "MUTEX_C_BLK" THEN RemoveBlocked(x.m, t) ELSE x.m
           sw == x.sw \/ ~Suspended(x.s.state[t])
           y  == [s |-> c, m |-> m, sw |-> sw]
<1>0. SchedOK(c) /\ NextReady(c)
  BY WaitCompletes DEF Ending
<1>1. /\ SchedOK(c) /\ NextReady(c)
      /\ c.state[t] = (IF Suspended(x.s.state[t]) THEN "SUSPEND" ELSE "RUNNABLE")
      /\ c.pwait[t] = NoQueue /\ c.tick[t] = Infinite /\ c.reason[t] = "NONE"
      /\ c.rc[t] = "NO_ERR"
      /\ \A u \in Task \ {t} :
           /\ c.state[u] = x.s.state[u] /\ c.pwait[u] = x.s.pwait[u] /\ c.tick[u] = x.s.tick[u]
           /\ c.reason[u] = x.s.reason[u] /\ c.rc[u] = x.s.rc[u]
      /\ \A q \in Queue :
           c.wq[q] = IF q = x.s.pwait[t] THEN Unlinked(x.s.wq[q], t) ELSE x.s.wq[q]
  BY <1>0, WaitEffects DEF Ending
<1>2. /\ m \in MutexLists /\ NoDuplicates(m.blocked)
      /\ m.holder = x.m.holder /\ m.held = x.m.held /\ m.locked = x.m.locked /\ m.blk = x.m.blk
      /\ ToSet(m.blocked) = ToSet(x.m.blocked) \ {t}
  BY BlockedRemoved DEF MutexesOK, BlockedOK
<1> HIDE DEF c, m, sw
<1>3. MutexesOK(c, m)
  <2>1. BlockersOK(c, m)
    <3> SUFFICES ASSUME NEW u \in Task
                 PROVE  /\ c.reason[u] \in MutexReasons <=> c.pwait[u] \in Mutex
                        /\ c.reason[u] = "MUTEX_C_BLK" => m.blk[u] \in Task /\ Ceiling(c.pwait[u])
                        /\ c.reason[u] \in {"MUTEX_C", "MUTEX_I"} => m.holder[c.pwait[u]] \in Task
      BY DEF BlockersOK
    <3>1. CASE u = t
      BY <1>1, <3>1, MutexAssumption, NoQueueAssumption DEF MutexReasons
    <3>2. CASE u # t
      BY <1>1, <1>2, <3>2 DEF MutexesOK, BlockersOK
    <3> QED BY <3>1, <3>2
  <2>2. LocksOK(m)
    BY <1>2 DEF MutexesOK, LocksOK
  <2>3. BlockedOK(c, m)
    <3>1. \A u \in ToSet(x.m.blocked) : u \in Task
      BY DEF MutexesOK, MutexLists, ToSet
    <3> QED BY <1>1, <1>2, <3>1 DEF MutexesOK, BlockedOK
  <2> QED BY <1>2, <2>1, <2>2, <2>3 DEF MutexesOK
<1>4. Orderly(y) /\ y.s = c /\ y.m = m
  BY <1>1, <1>3 DEF Orderly, Triple
<1>6. r = IF x.s.reason[t] \in MutexReasons /\ b # NoTask /\ y.s.prio[b] < y.s.prio[t]
          THEN set_current_priority(y, b, find_max_blocked_priority(y.s, x.s.pwait[t], y.s.prio[b]))
          ELSE y
  BY DEF mutex_wait_complete, c, m, sw, b, y
<1> HIDE DEF y
<1>7. Orderly(r) /\ SamePlaces(y.s, r.s) /\ r.m = y.m
  <2>1. CASE x.s.reason[t] \in MutexReasons /\ b # NoTask /\ y.s.prio[b] < y.s.prio[t]
    <3>1. x.s \in Sched /\ b \in Task /\ x.s.pwait[t] \in Queue
      BY <2>1, BlockerIsTask, MutexAssumption DEF Ending
    <3> HIDE DEF b
    <3>2. y.s \in Sched /\ y.s.prio[b] \in Nat
      BY <1>4, <3>1 DEF Orderly, SchedOK, Sched
    <3>3. find_max_blocked_priority(y.s, x.s.pwait[t], y.s.prio[b]) \in Nat
      BY <3>1, <3>2, WaitersPriority
    <3> QED BY <1>4, <1>6, <2>1, <3>1, <3>3, PriorityIsSet
  <2>2. CASE ~(x.s.reason[t] \in MutexReasons /\ b # NoTask /\ y.s.prio[b] < y.s.prio[t])
    BY <1>4, <1>6, <2>2 DEF SamePlaces
  <2> QED BY <2>1, <2>2
<1>8. WaitOver(x, r, t)
  BY <1>1, <1>2, <1>4, <1>7 DEF WaitOver, SamePlaces
<1> QED BY <1>7, <1>8
-----------------------------------------------------------------------------
(***************************************************************************)
(* What the operators do to the tasks that wait. From x to r the waits in  *)
(* the queues Q may end: with the mutex that is waited for ("hand"), with  *)
(* ERR_TIMEOUT ("timeout"), or otherwise ("delete").                       *)
(***************************************************************************)
Stays(x, r, t, how) ==
  /\ r.s.state[t] = x.s.state[t] /\ r.s.pwait[t] = x.s.pwait[t] /\ r.s.rc[t] = x.s.rc[t]
  /\ ToSet(r.m.held[t]) = ToSet(x.m.held[t])
  /\ \/ r.s.reason[t] = x.s.reason[t]
     \/ how = "hand" /\ r.s.reason[t] \in MutexReasons /\ x.s.reason[t] \in MutexReasons

Leaves(x, r, t, how, Q) ==
  /\ Waiting(x.s.state[t]) /\ x.s.pwait[t] \in Q
  /\ r.s.state[t] = (IF Suspended(x.s.state[t]) THEN "SUSPEND" ELSE "RUNNABLE")
  /\ r.s.pwait[t] = NoQueue /\ r.s.reason[t] = "NONE"
  /\ how = "hand" => /\ r.s.rc[t] = "NO_ERR"
                     /\ ToSet(r.m.held[t]) = ToSet(x.m.held[t]) \cup {x.s.pwait[t]}
  /\ how # "hand" => ToSet(r.m.held[t]) = ToSet(x.m.held[t])
  /\ how = "timeout" => r.s.rc[t] = "TIMEOUT"

\* A mutex without a ceiling that has a holder is in the list of locked mutexes.
Known(m, q) == ~Ceiling(q) /\ m.holder[q] # NoTask => q \in ToSet(m.locked)

Does(x, r, how, Q) ==
  /\ \A t \in Task : Stays(x, r, t, how) \/ Leaves(x, r, t, how, Q)
  /\ \A q \in Mutex : Known(x.m, q) => Known(r.m, q)

LEMMA NothingIsDone == \A x, how, Q : Does(x, x, how, Q)
BY DEF Does, Stays

LEMMA DoesOnAndOn ==
  ASSUME NEW x, NEW y, NEW r, NEW how, NEW Q, Does(x, y, how, Q), Does(y, r, how, Q)
  PROVE  Does(x, r, how, Q)
<1>1. ASSUME NEW t \in Task PROVE Stays(x, r, t, how) \/ Leaves(x, r, t, how, Q)
  <2>1. CASE Stays(x, y, t, how) /\ Stays(y, r, t, how)
    BY <2>1 DEF Stays
  <2>2. CASE Stays(x, y, t, how) /\ Leaves(y, r, t, how, Q)
    BY <2>2 DEF Stays, Leaves
  <2>3. CASE Leaves(x, y, t, how, Q)
    <3>1. ~Waiting(y.s.state[t]) /\ y.s.reason[t] \notin MutexReasons
      BY <2>3 DEF Leaves, Waiting, MutexReasons
    <3>2. Stays(y, r, t, how)
      BY <3>1 DEF Does, Leaves
    <3>3. r.s.reason[t] = y.s.reason[t]
      BY <3>1, <3>2 DEF Stays
    <3> QED BY <2>3, <3>2, <3>3 DEF Stays, Leaves
  <2> QED BY <2>1, <2>2, <2>3 DEF Does
<1> QED BY <1>1 DEF Does

\* Nothing happens to a task when priorities change.
LEMMA PlacesDo ==
  ASSUME NEW x, NEW r, SamePlaces(x.s, r.s), r.m = x.m, NEW how, NEW Q
  PROVE  Does(x, r, how, Q)
BY DEF SamePlaces, Does, Stays

\* The end of a wait without a mutex.
LEMMA WaitOverDoes ==
  ASSUME NEW x, NEW r, NEW t \in Task, WaitOver(x, r, t), Waiting(x.s.state[t]),
         NEW Q, x.s.pwait[t] \in Q
  PROVE  Does(x, r, "delete", Q)
<1>1. Leaves(x, r, t, "delete", Q)
  BY DEF WaitOver, Leaves
<1>2. \A u \in Task \ {t} : Stays(x, r, u, "delete")
  BY DEF WaitOver, Stays
<1> QED BY <1>1, <1>2 DEF Does, Known, WaitOver

\* Nobody but those that leave joins or leaves a wait.
LEMMA DoesEndsWaits ==
  ASSUME NEW x, NEW r, NEW how, how # "hand", NEW Q, Does(x, r, how, Q),
         x.s \in Sched, r.s \in Sched, WaitQueuesOK(x.s), WaitQueuesOK(r.s)
  PROVE  OnlyEndsWaits(x.s, r.s)
<1>1. ASSUME NEW u \in Task
      PROVE  \/ /\ r.s.state[u] = x.s.state[u] /\ r.s.pwait[u] = x.s.pwait[u]
                /\ r.s.reason[u] = x.s.reason[u]
             \/ /\ \/ x.s.state[u] = "WAIT" /\ r.s.state[u] = "RUNNABLE"
                   \/ x.s.state[u] = "WAITSUSP" /\ r.s.state[u] = "SUSPEND"
                /\ r.s.pwait[u] = NoQueue
  BY DEF Does, Stays, Leaves, Waiting, Suspended
<1>2. ASSUME NEW q \in Queue, x.s.wq[q] = << >> PROVE r.s.wq[q] = << >>
  <2>1. SUFFICES ASSUME r.s.wq[q] # << >> PROVE FALSE
    OBVIOUS
  <2>2. r.s.wq[q] \in Seq(Task) /\ x.s.wq[q] \in Seq(Task)
    BY DEF Sched
  <2>3. Head(r.s.wq[q]) \in Task /\ Head(r.s.wq[q]) \in ToSet(r.s.wq[q])
    BY <2>1, <2>2 DEF ToSet
  <2>4. r.s.pwait[Head(r.s.wq[q])] = q
    BY <2>3 DEF WaitQueuesOK
  <2>5. x.s.pwait[Head(r.s.wq[q])] = q
    BY <2>3, <2>4, <1>1, NoQueueAssumption
  <2>6. Head(r.s.wq[q]) \in ToSet(x.s.wq[q])
    BY <2>3, <2>5 DEF WaitQueuesOK
  <2> QED BY <2>6, <1>2 DEF ToSet
<1> QED BY <1>1, <1>2 DEF OnlyEndsWaits, NobodyJoins
-----------------------------------------------------------------------------
(* A mutex is handed on *)

\* A locked mutex has a holder, and an unlocked one is in nobody's list.
LEMMA LockedHasHolder ==
  ASSUME NEW m, m \in MutexLists, LocksOK(m), NEW q \in Mutex
  PROVE  /\ m.holder[q] = NoTask => q \notin ToSet(m.locked)
         /\ q \notin ToSet(m.locked) => \A t \in Task : q \notin ToSet(m.held[t])
BY MutexAssumption DEF LocksOK, MutexLists

LEMMA LockedKeeps ==
  ASSUME NEW x, Orderly(x), NEW q \in Mutex, NEW t \in Task, q \notin ToSet(x.m.locked),
         x.s.reason[t] \notin MutexReasons, NEW r, r = Locked(x, q, t)
  PROVE  /\ Orderly(r) /\ r.s = x.s
         /\ ToSet(r.m.held[t]) = ToSet(x.m.held[t]) \cup {q}
         /\ \A u \in Task \ {t} : r.m.held[u] = x.m.held[u]
         /\ \A p \in Mutex : p = q \/ Known(x.m, p) => Known(r.m, p)
<1> DEFINE m == [x.m EXCEPT !.holder[q] = t, !.held[t] = Append(@, q), !.locked = Append(@, q),
                            !.blk[t] = IF Ceiling(q) THEN NoTask ELSE @]
<1>0. /\ Triple(x) /\ SchedOK(x.s) /\ NextReady(x.s) /\ x.m \in MutexLists /\ BlockersOK(x.s, x.m)
      /\ LocksOK(x.m) /\ BlockedOK(x.s, x.m)
  BY DEF Orderly, MutexesOK
<1>1. r.s = x.s /\ r.m = m /\ Triple(r)
  BY <1>0 DEF Locked, Triple
<1>2. /\ m.holder = [x.m.holder EXCEPT ![q] = t]
      /\ m.held = [x.m.held EXCEPT ![t] = Append(x.m.held[t], q)]
      /\ m.locked = Append(x.m.locked, q) /\ m.blocked = x.m.blocked
      /\ m.blk = [x.m.blk EXCEPT ![t] = IF Ceiling(q) THEN NoTask ELSE @]
      /\ DOMAIN m = DOMAIN x.m
  BY <1>0 DEF MutexLists
<1>3. q \notin ToSet(x.m.locked) /\ \A u \in Task : q \notin ToSet(x.m.held[u])
  BY <1>0, LockedHasHolder
<1>4. /\ x.m.locked \in Seq(Mutex) /\ NoDuplicates(x.m.locked)
      /\ x.m.held[t] \in Seq(Mutex) /\ NoDuplicates(x.m.held[t])
  BY <1>0 DEF MutexLists, LocksOK
<1>5. /\ Append(x.m.locked, q) \in Seq(Mutex) /\ NoDuplicates(Append(x.m.locked, q))
      /\ ToSet(Append(x.m.locked, q)) = ToSet(x.m.locked) \cup {q}
      /\ Append(x.m.held[t], q) \in Seq(Mutex) /\ NoDuplicates(Append(x.m.held[t], q))
      /\ ToSet(Append(x.m.held[t], q)) = ToSet(x.m.held[t]) \cup {q}
  BY <1>3, <1>4, AppendElement
<1>6. m \in MutexLists
  BY <1>0, <1>5 DEF MutexLists
<1> HIDE DEF m
<1>7. BlockersOK(x.s, m)
  BY <1>0, <1>2 DEF BlockersOK, MutexLists, MutexReasons
<1>8. /\ m.held[t] = Append(x.m.held[t], q) /\ \A u \in Task \ {t} : m.held[u] = x.m.held[u]
      /\ m.holder[q] = t /\ \A p \in Mutex \ {q} : m.holder[p] = x.m.holder[p]
  BY <1>0, <1>2 DEF MutexLists
<1>9. LocksOK(m)
  <2>1. NoDuplicates(m.locked) /\ \A u \in Task : NoDuplicates(m.held[u])
    BY <1>0, <1>2, <1>5, <1>8 DEF LocksOK
  <2>2. ASSUME NEW u \in Task, NEW p \in ToSet(m.held[u])
        PROVE  m.holder[p] = u /\ p \in ToSet(m.locked)
    <3>1. CASE p = q
      <4>1. u = t
        BY <1>3, <1>8, <2>2, <3>1
      <4>2. q \in ToSet(m.locked)
        BY <1>2, <1>5
      <4> QED BY <1>8, <3>1, <4>1, <4>2
    <3>2. CASE p # q
      <4>0. ToSet(m.held[t]) = ToSet(x.m.held[t]) \cup {q} /\ (u # t => m.held[u] = x.m.held[u])
        BY <1>5, <1>8
      <4>1. p \in ToSet(x.m.held[u])
        BY <2>2, <3>2, <4>0
      <4>2. x.m.held[u] \in Seq(Mutex)
        BY <1>0 DEF MutexLists
      <4>3. p \in Mutex
        BY <4>1, <4>2 DEF ToSet
      <4>4. x.m.holder[p] = u /\ p \in ToSet(x.m.locked)
        BY <1>0, <4>1 DEF LocksOK
      <4> QED BY <1>2, <1>5, <1>8, <3>2, <4>3, <4>4
    <3> QED BY <3>1, <3>2
  <2>3. ASSUME NEW p \in ToSet(m.locked) PROVE \E u \in Task : p \in ToSet(m.held[u])
    <3>1. CASE p = q
      BY <1>5, <1>8, <3>1
    <3>2. CASE p # q
      <4>1. p \in ToSet(x.m.locked)
        BY <1>2, <1>5, <2>3, <3>2
      <4>2. PICK u \in Task : p \in ToSet(x.m.held[u])
        BY <1>0, <4>1 DEF LocksOK
      <4> QED BY <1>5, <1>8, <4>2
    <3> QED BY <3>1, <3>2
  <2> QED BY <2>1, <2>2, <2>3 DEF LocksOK
<1>10. BlockedOK(x.s, m)
  BY <1>0, <1>2 DEF BlockedOK
<1>11. Orderly(r)
  BY <1>0, <1>1, <1>6, <1>7, <1>9, <1>10 DEF Orderly, MutexesOK
<1>12. ASSUME NEW p \in Mutex, p = q \/ Known(x.m, p) PROVE Known(m, p)
  BY <1>2, <1>5, <1>8, <1>12 DEF Known
<1> QED BY <1>1, <1>5, <1>8, <1>11, <1>12

\* The wait of t ends with the mutex that it waits for, and no other task's wait.
LEMMA PassToKeeps ==
  ASSUME NEW x, Orderly(x), NEW t \in Task, Waiting(x.s.state[t]), x.s.pwait[t] \in Mutex,
         x.s.pwait[t] \notin ToSet(x.m.locked), NEW r, r = PassTo(x, x.s.pwait[t], t)
  PROVE  /\ Orderly(r) /\ Does(x, r, "hand", Mutex) /\ Known(r.m, x.s.pwait[t])
         /\ \A u \in Task \ {t} : /\ r.s.state[u] = x.s.state[u] /\ r.s.pwait[u] = x.s.pwait[u]
                                  /\ r.m.held[u] = x.m.held[u]
<1> DEFINE q == x.s.pwait[t]
           b == RemoveBlocked(x.m, t)
           y == [x EXCEPT !.m = b]
           z == mutex_wait_complete(y, t)
<1>0. /\ Triple(x) /\ SchedOK(x.s) /\ NextReady(x.s) /\ x.m \in MutexLists /\ BlockersOK(x.s, x.m)
      /\ LocksOK(x.m) /\ BlockedOK(x.s, x.m)
  BY DEF Orderly, MutexesOK
<1>1. /\ b \in MutexLists /\ NoDuplicates(b.blocked) /\ ToSet(b.blocked) = ToSet(x.m.blocked) \ {t}
      /\ b.holder = x.m.holder /\ b.held = x.m.held /\ b.locked = x.m.locked /\ b.blk = x.m.blk
  BY <1>0, BlockedRemoved DEF BlockedOK
<1> HIDE DEF b
<1>2. Triple(y) /\ y.s = x.s /\ y.m = b
  BY <1>0 DEF Triple
<1>3. MutexesOK(x.s, b)
  BY <1>0, <1>1 DEF MutexesOK, BlockersOK, LocksOK, BlockedOK
<1>4. Ending(x.s, t)
  BY <1>0 DEF Ending, SchedOK, WaitFieldsOK, FieldsOK
<1>5. r = Locked(z, q, t)
  BY DEF PassTo, b
<1> HIDE DEF y
<1>6. Orderly(z) /\ WaitOver(y, z, t)
  BY <1>2, <1>3, <1>4, MutexWaitCompletes
<1> HIDE DEF z
<1>7. z.m.locked = x.m.locked /\ z.m.held = x.m.held /\ z.m.holder = x.m.holder
      /\ z.s.reason[t] = "NONE"
  BY <1>1, <1>2, <1>6 DEF WaitOver
<1>8. q \notin ToSet(z.m.locked) /\ z.s.reason[t] \notin MutexReasons /\ q \in Mutex
  BY <1>7 DEF MutexReasons
<1> HIDE DEF q
<1>9. /\ Orderly(r) /\ r.s = z.s
      /\ ToSet(r.m.held[t]) = ToSet(z.m.held[t]) \cup {q}
      /\ \A u \in Task \ {t} : r.m.held[u] = z.m.held[u]
      /\ \A p \in Mutex : p = q \/ Known(z.m, p) => Known(r.m, p)
  BY <1>5, <1>6, <1>8, LockedKeeps
<1>10. Leaves(x, r, t, "hand", Mutex)
  BY <1>2, <1>6, <1>7, <1>9 DEF Leaves, WaitOver, q
<1>11. \A u \in Task \ {t} : Stays(x, r, u, "hand") /\ r.s.state[u] = x.s.state[u]
                              /\ r.s.pwait[u] = x.s.pwait[u] /\ r.m.held[u] = x.m.held[u]
  BY <1>2, <1>6, <1>7, <1>9 DEF Stays, WaitOver
<1>12. \A p \in Mutex : Known(x.m, p) => Known(r.m, p)
  BY <1>7, <1>9 DEF Known
<1>13. Known(r.m, q)
  BY <1>8, <1>9
<1> QED BY <1>9, <1>10, <1>11, <1>12, <1>13 DEF Does, q

LEMMA TryLockKeeps ==
  ASSUME NEW x, Orderly(x), NEW t \in Task, Waiting(x.s.state[t]), x.s.pwait[t] \in Mutex,
         NEW r, r = try_lock_mutex(x, t)
  PROVE  /\ Orderly(r) /\ Does(x, r, "hand", Mutex)
         /\ \A u \in Task \ {t} : r.s.state[u] = x.s.state[u] /\ r.s.pwait[u] = x.s.pwait[u]
<1>1. CASE r = x
  BY <1>1, NothingIsDone
<1>2. CASE x.m.holder[x.s.pwait[t]] = NoTask /\ r = PassTo(x, x.s.pwait[t], t)
  <2>1. x.s.pwait[t] \notin ToSet(x.m.locked)
    BY <1>2, LockedHasHolder DEF Orderly, MutexesOK
  <2> QED BY <1>2, <2>1, PassToKeeps
<1> QED BY <1>1, <1>2 DEF try_lock_mutex
-----------------------------------------------------------------------------
(***************************************************************************)
(* The loops over tasks: the timeout scan, the retries of the blocked      *)
(* tasks and the deletion. Each is a recursive function; there is such a   *)
(* function. `a` is the task, or the flag, that a loop needs.              *)
(***************************************************************************)
Round(loop, y, t, a) ==
  IF loop = "timeouts" THEN MutexTimerStep(y, t, a)
  ELSE IF loop = "retries" THEN IF t = a THEN y ELSE try_lock_mutex(y, t)
  ELSE IF y.sw THEN y ELSE EndForDeletion(y, t)

RoundsUpTo(f, m, loop, x, w, a) ==
  f = [i \in 0..m |-> IF i = 0 THEN x ELSE Round(loop, f[i-1], w[i], a)]

LEMMA RoundsExist ==
  ASSUME NEW loop, NEW x, NEW w, NEW a, NEW n \in Nat
  PROVE  \E f : RoundsUpTo(f, n, loop, x, w, a)
<1> DEFINE G == {m \in 0..n : \E f : RoundsUpTo(f, m, loop, x, w, a)}
<1>1. 0 \in G
  <2>1. RoundsUpTo([i \in 0..0 |-> x], 0, loop, x, w, a)
    BY DEF RoundsUpTo
  <2> QED BY <2>1
<1>2. ASSUME NEW m \in 1..n, m-1 \in G
      PROVE  m \in G
  <2>1. PICK f : RoundsUpTo(f, m-1, loop, x, w, a)
    BY <1>2
  <2> DEFINE g == [i \in 0..m |-> IF i = m THEN Round(loop, f[m-1], w[m], a) ELSE f[i]]
  <2>2. ASSUME NEW i \in 0..m
        PROVE  g[i] = IF i = 0 THEN x ELSE Round(loop, g[i-1], w[i], a)
    <3>1. CASE i = m
      <4>1. m-1 \in 0..m /\ m-1 # m /\ m \in 0..m /\ m # 0
        OBVIOUS
      <4>2. g[m-1] = f[m-1] /\ g[m] = Round(loop, f[m-1], w[m], a)
        BY <4>1
      <4> QED BY <3>1, <4>1, <4>2
    <3>2. CASE i # m
      <4>1. i \in 0..(m-1) /\ (i # 0 => i-1 \in 0..(m-1))
        BY <3>2
      <4>2. g[i] = f[i] /\ (i # 0 => g[i-1] = f[i-1])
        BY <4>1
      <4>3. f[i] = IF i = 0 THEN x ELSE Round(loop, f[i-1], w[i], a)
        BY <2>1, <4>1 DEF RoundsUpTo
      <4> QED BY <4>2, <4>3
    <3> QED BY <3>1, <3>2
  <2>3. RoundsUpTo(g, m, loop, x, w, a)
    BY <2>2 DEF RoundsUpTo
  <2> QED BY <2>3
<1> HIDE DEF G
<1>3. n \in G
  BY <1>1, <1>2, UpTo
<1> QED BY <1>3 DEF G

\* The last of the values of a loop, and the steps to it.
Rounds(loop, x, w, a) == CHOOSE f : RoundsUpTo(f, Len(w), loop, x, w, a)

LEMMA RoundsStep ==
  ASSUME NEW loop, NEW x, NEW w, NEW a, Len(w) \in Nat, NEW f, f = Rounds(loop, x, w, a)
  PROVE  f[0] = x /\ \A i \in 1..Len(w) : f[i] = Round(loop, f[i-1], w[i], a)
<1>1. RoundsUpTo(f, Len(w), loop, x, w, a)
  BY RoundsExist DEF Rounds
<1> QED BY <1>1 DEF RoundsUpTo

\* The tasks that a ceiling keeps waiting try again: some of them get their mutex.
LEMMA RetryKeeps ==
  ASSUME NEW x, Orderly(x), NEW hi, NEW r, r = RetryBlocked(x, hi)
  PROVE  Orderly(r) /\ Does(x, r, "hand", Mutex)
<1> DEFINE b == x.m.blocked
           n == Len(b)
           f == Rounds("retries", x, b, hi)
           G == {i \in 0..n : /\ Orderly(f[i]) /\ Does(x, f[i], "hand", Mutex)
                              /\ \A j \in (i+1)..n : /\ Waiting(f[i].s.state[b[j]])
                                                     /\ f[i].s.pwait[b[j]] \in Mutex}
<1>1. b \in Seq(Task) /\ n \in Nat /\ NoDuplicates(b) /\ \A j \in 1..n : b[j] \in Task
  BY DEF Orderly, MutexesOK, MutexLists, BlockedOK
<1>2. r = f[n]
  <2>1. r = LET retry[i \in 0..Len(b)] ==
                  IF i = 0 THEN x
                  ELSE IF b[i] = hi THEN retry[i-1] ELSE try_lock_mutex(retry[i-1], b[i])
            IN  retry[Len(b)]
    BY DEF RetryBlocked
  <2> HIDE DEF b
  <2> QED BY <2>1 DEF Rounds, RoundsUpTo, Round
<1>3. ASSUME NEW j \in 1..n PROVE Waiting(x.s.state[b[j]]) /\ x.s.pwait[b[j]] \in Mutex
  <2>1. b[j] \in ToSet(b) /\ b[j] \in Task
    BY <1>1 DEF ToSet
  <2> QED BY <2>1 DEF Orderly, MutexesOK, BlockersOK, BlockedOK, MutexReasons
<1> HIDE DEF b
<1>4. f[0] = x /\ \A i \in 1..n : f[i] = Round("retries", f[i-1], b[i], hi)
  BY <1>1, RoundsStep
<1> HIDE DEF f
<1>5. 0 \in G
  BY <1>1, <1>3, <1>4, NothingIsDone
<1>6. ASSUME NEW i \in 1..n, i-1 \in G PROVE i \in G
  <2> DEFINE y == f[i-1]
             z == f[i]
  <2>1. /\ Orderly(y) /\ Does(x, y, "hand", Mutex)
        /\ \A j \in i..n : Waiting(y.s.state[b[j]]) /\ y.s.pwait[b[j]] \in Mutex
    BY <1>1, <1>6
  <2>2. z = IF b[i] = hi THEN y ELSE try_lock_mutex(y, b[i])
    BY <1>4 DEF Round
  <2> HIDE DEF y, z
  <2>3. b[i] \in Task /\ Waiting(y.s.state[b[i]]) /\ y.s.pwait[b[i]] \in Mutex
    BY <1>1, <2>1
  <2>4. /\ Orderly(z) /\ Does(y, z, "hand", Mutex)
        /\ \A u \in Task \ {b[i]} : z.s.state[u] = y.s.state[u] /\ z.s.pwait[u] = y.s.pwait[u]
    <3>1. CASE z = y
      BY <2>1, <3>1, NothingIsDone
    <3>2. CASE z = try_lock_mutex(y, b[i])
      BY <2>1, <2>3, <3>2, TryLockKeeps
    <3> QED BY <2>2, <3>1, <3>2
  <2>5. Does(x, z, "hand", Mutex)
    BY <2>1, <2>4, DoesOnAndOn
  <2>6. ASSUME NEW j \in (i+1)..n PROVE Waiting(z.s.state[b[j]]) /\ z.s.pwait[b[j]] \in Mutex
    <3>1. j \in i..n /\ j \in 1..n /\ j # i
      BY <1>1
    <3>2. b[j] # b[i] /\ b[j] \in Task
      BY <1>1, <3>1 DEF NoDuplicates
    <3> QED BY <2>1, <2>4, <3>1, <3>2
  <2> QED BY <1>1, <2>4, <2>5, <2>6 DEF z
<1> HIDE DEF G
<1>7. n \in G
  BY <1>1, <1>5, <1>6, UpTo
<1> QED BY <1>2, <1>7 DEF G
-----------------------------------------------------------------------------
(* do_unlock_mutex *)

\* Who is in the queue of a mutex waits for it.
LEMMA InQueueWaits ==
  ASSUME NEW s, SchedOK(s), NEW q \in Queue, NEW t \in ToSet(s.wq[q])
  PROVE  t \in Task /\ Waiting(s.state[t]) /\ s.pwait[t] = q
<1>1. s.wq[q] \in Seq(Task)
  BY DEF SchedOK, Sched
<1>2. t \in Task
  BY <1>1 DEF ToSet
<1>3. s.pwait[t] = q
  BY <1>2 DEF SchedOK, WaitQueuesOK
<1> QED BY <1>2, <1>3, NoQueueAssumption DEF SchedOK, WaitFieldsOK

LEMMA HighestIsWaiter ==
  ASSUME NEW s, SchedOK(s), NEW q \in Queue, s.wq[q] # << >>
  PROVE  HighestWaiter(s, q) \in ToSet(s.wq[q]) /\ Head(s.wq[q]) \in ToSet(s.wq[q])
<1> DEFINE w == s.wq[q]
           n == Len(w)
           f == [i \in 1..n |-> -s.prio[w[i]]]
<1>1. w \in Seq(Task) /\ n \in Nat \ {0} /\ s.prio \in [Task -> Nat] /\ DOMAIN w = 1..n
      /\ \A i \in 1..n : w[i] \in Task /\ s.prio[w[i]] \in Nat
  BY DEF SchedOK, Sched
<1> HIDE DEF w, n
<1>2. \A i \in 1..n : f[i] = -s.prio[w[i]] /\ f[i] \in Int
  BY <1>1
<1> HIDE DEF f
<1>3. \E i \in 1..n : \A j \in 1..n : f[j] < f[i] \/ (f[j] = f[i] /\ i <= j)
  <2> DEFINE S == 1..n
  <2>1. S \in SUBSET (1..n) /\ 1 \in S /\ n \in Nat
    BY <1>1
  <2> HIDE DEF S
  <2>2. \E i \in S : \A j \in S : f[j] < f[i] \/ (f[j] = f[i] /\ i <= j)
    BY <1>2, <2>1, FirstOfLargest
  <2> QED BY <2>2 DEF S
<1>4. PICK i \in 1..n : \A j \in 1..n : f[j] < f[i] \/ (f[j] = f[i] /\ i <= j)
  BY <1>3
<1>5. ASSUME NEW j \in 1..n
      PROVE  s.prio[w[i]] < s.prio[w[j]] \/ (s.prio[w[i]] = s.prio[w[j]] /\ i <= j)
  <2>1. f[j] < f[i] \/ (f[j] = f[i] /\ i <= j)
    BY <1>4
  <2>2. f[i] = -s.prio[w[i]] /\ f[j] = -s.prio[w[j]] /\ s.prio[w[i]] \in Nat /\ s.prio[w[j]] \in Nat
    BY <1>1, <1>2
  <2> QED BY <2>1, <2>2
<1>6. \E h \in DOMAIN w : \A j \in DOMAIN w :
        s.prio[w[h]] < s.prio[w[j]] \/ (s.prio[w[h]] = s.prio[w[j]] /\ h <= j)
  BY <1>1, <1>5
<1> DEFINE c == CHOOSE h \in DOMAIN w : \A j \in DOMAIN w :
                  s.prio[w[h]] < s.prio[w[j]] \/ (s.prio[w[h]] = s.prio[w[j]] /\ h <= j)
<1>7. c \in DOMAIN w
  BY <1>6
<1>8. HighestWaiter(s, q) = w[c]
  BY DEF HighestWaiter, w
<1> HIDE DEF c
<1>9. HighestWaiter(s, q) \in ToSet(w) /\ Head(w) = w[1] /\ w[1] \in ToSet(w)
  BY <1>1, <1>7, <1>8 DEF ToSet
<1> QED BY <1>9 DEF w

\* The task that a ceiling keeps from locking has a blocker.
LEMMA BlockerChosen ==
  ASSUME NEW x, x.m \in MutexLists, LocksOK(x.m), setup \in Setups, NEW t, ~enable_lock_mutex(x, t)
  PROVE  blk_task(x, t) \in Task
<1> DEFINE l == x.m.locked
           n == Len(l)
           S == Obstacles(x, t)
           f == [i \in 1..n |-> setup[l[i]].ceil]
<1>1. l \in Seq(Mutex) /\ n \in Nat /\ DOMAIN l = 1..n /\ \A i \in 1..n : l[i] \in Mutex
  BY DEF MutexLists
<1>2. S \in SUBSET (1..n) /\ S # {}
  BY <1>1 DEF Obstacles, enable_lock_mutex
<1>3. \A i \in 1..n : setup[l[i]].ceil \in Nat
  BY <1>1, MutexAssumption
<1> HIDE DEF l, n, S
<1>4. \A i \in 1..n : f[i] = setup[l[i]].ceil /\ f[i] \in Int
  BY <1>3
<1> HIDE DEF f
<1>5. PICK i \in S : \A j \in S : f[j] < f[i] \/ (f[j] = f[i] /\ i <= j)
  BY <1>1, <1>2, <1>4, FirstOfLargest
<1>6. ASSUME NEW j \in S
      PROVE  setup[l[j]].ceil < setup[l[i]].ceil
             \/ (setup[l[j]].ceil = setup[l[i]].ceil /\ i <= j)
  <2>1. f[j] < f[i] \/ (f[j] = f[i] /\ i <= j)
    BY <1>5
  <2>2. /\ f[i] = setup[l[i]].ceil /\ f[j] = setup[l[j]].ceil
        /\ setup[l[i]].ceil \in Nat /\ setup[l[j]].ceil \in Nat
    BY <1>2, <1>3, <1>4
  <2> QED BY <2>1, <2>2
<1> DEFINE c == CHOOSE h \in Obstacles(x, t) : \A j \in Obstacles(x, t) :
                  setup[x.m.locked[j]].ceil < setup[x.m.locked[h]].ceil
                  \/ (setup[x.m.locked[j]].ceil = setup[x.m.locked[h]].ceil /\ h <= j)
<1>7. blk_task(x, t) = x.m.holder[x.m.locked[c]]
  BY DEF blk_task
<1>8. c \in 1..n
  <2>1. ASSUME NEW j \in Obstacles(x, t)
        PROVE  setup[x.m.locked[j]].ceil < setup[x.m.locked[i]].ceil
               \/ (setup[x.m.locked[j]].ceil = setup[x.m.locked[i]].ceil /\ i <= j)
    BY <1>6 DEF l, S
  <2>2. i \in Obstacles(x, t)
    BY DEF S
  <2>3. c \in Obstacles(x, t)
    BY <2>1, <2>2
  <2> QED BY <1>2, <2>3 DEF S
<1> HIDE DEF c
<1>9. l[c] \in ToSet(x.m.locked)
  BY <1>1, <1>8 DEF l, ToSet
<1>10. PICK u \in Task : l[c] \in ToSet(x.m.held[u])
  BY <1>9 DEF LocksOK
<1> QED BY <1>7, <1>10 DEF LocksOK, l

\* The highest waiter of a mutex with a ceiling is left blocked.
LEMMA StaysLockedKeeps ==
  ASSUME NEW x, Orderly(x), setup \in Setups, NEW q \in Mutex, Ceiling(q), NEW t \in Task,
         Waiting(x.s.state[t]), x.s.pwait[t] = q, ~enable_lock_mutex(x, t),
         NEW r, r = StaysLocked(x, q, t)
  PROVE  Orderly(r) /\ Does(x, r, "hand", Mutex)
<1>0. /\ Triple(x) /\ SchedOK(x.s) /\ NextReady(x.s) /\ x.m \in MutexLists /\ BlockersOK(x.s, x.m)
      /\ LocksOK(x.m) /\ BlockedOK(x.s, x.m) /\ x.s \in Sched
  BY DEF Orderly, MutexesOK, SchedOK
<1>1. CASE r = x
  BY <1>1, NothingIsDone
<1>2. CASE t \notin ToSet(x.m.blocked)
  <2> DEFINE b == blk_task(x, t)
             m == [x.m EXCEPT !.blocked = Append(@, t), !.blk[t] = b]
             s == [x.s EXCEPT !.reason[t] = "MUTEX_C_BLK"]
  <2>1. b \in Task
    BY <1>0, BlockerChosen
  <2> HIDE DEF b
  <2>2. r.s = s /\ r.m = m /\ Triple(r)
    BY <1>0, <1>2 DEF Triple, StaysLocked, b
  <2>3. /\ m.holder = x.m.holder /\ m.held = x.m.held /\ m.locked = x.m.locked
        /\ m.blocked = Append(x.m.blocked, t) /\ m.blk = [x.m.blk EXCEPT ![t] = b]
    BY <1>0 DEF MutexLists
  <2>4. x.m.blocked \in Seq(Task) /\ NoDuplicates(x.m.blocked)
    BY <1>0 DEF MutexLists, BlockedOK
  <2>5. /\ Append(x.m.blocked, t) \in Seq(Task) /\ NoDuplicates(Append(x.m.blocked, t))
        /\ ToSet(Append(x.m.blocked, t)) = ToSet(x.m.blocked) \cup {t}
    BY <1>2, <2>4, AppendElement
  <2>6. m \in MutexLists
    BY <1>0, <2>1, <2>5 DEF MutexLists
  <2>7. /\ s.reason = [x.s.reason EXCEPT ![t] = "MUTEX_C_BLK"] /\ s.state = x.s.state
        /\ s.pwait = x.s.pwait /\ s.rc = x.s.rc /\ s.ready = x.s.ready /\ s.timers = x.s.timers
        /\ s.wq = x.s.wq /\ s.tick = x.s.tick /\ s.next = x.s.next /\ s \in Sched
    BY <1>0 DEF Sched, Reasons
  <2> HIDE DEF m, s
  <2>8. /\ s.reason[t] = "MUTEX_C_BLK" /\ \A u \in Task \ {t} : s.reason[u] = x.s.reason[u]
        /\ m.blk[t] = b /\ \A u \in Task \ {t} : m.blk[u] = x.m.blk[u]
    BY <1>0, <2>3, <2>7 DEF Sched, MutexLists
  <2>9. SchedOK(s) /\ NextReady(s)
    <3>1. WaitFieldsOK(s)
      BY <1>0, <2>7, <2>8 DEF SchedOK, WaitFieldsOK
    <3> QED BY <1>0, <2>7, <3>1 DEF SchedOK, NextReady, ReadyOK, TimersOK, WaitQueuesOK
  <2>10. BlockersOK(s, m)
    <3> SUFFICES ASSUME NEW u \in Task
                 PROVE  /\ s.reason[u] \in MutexReasons <=> s.pwait[u] \in Mutex
                        /\ s.reason[u] = "MUTEX_C_BLK" => m.blk[u] \in Task /\ Ceiling(s.pwait[u])
                        /\ s.reason[u] \in {"MUTEX_C", "MUTEX_I"} => m.holder[s.pwait[u]] \in Task
      BY DEF BlockersOK
    <3>1. CASE u = t
      BY <2>1, <2>7, <2>8, <3>1 DEF MutexReasons
    <3>2. CASE u # t
      BY <1>0, <2>3, <2>7, <2>8, <3>2 DEF BlockersOK
    <3> QED BY <3>1, <3>2
  <2>11. LocksOK(m)
    BY <1>0, <2>3 DEF LocksOK
  <2>12. BlockedOK(s, m)
    <3>1. \A u \in ToSet(x.m.blocked) : u \in Task
      BY <2>4 DEF ToSet
    <3> QED BY <1>0, <2>3, <2>5, <2>7, <2>8, <3>1 DEF BlockedOK
  <2>13. Orderly(r)
    BY <2>2, <2>6, <2>9, <2>10, <2>11, <2>12 DEF Orderly, MutexesOK
  <2>14. x.s.reason[t] \in MutexReasons
    BY <1>0 DEF BlockersOK
  <2>15. ASSUME NEW u \in Task PROVE Stays(x, r, u, "hand")
    BY <2>2, <2>3, <2>7, <2>8, <2>14 DEF Stays, MutexReasons
  <2>16. \A p \in Mutex : Known(x.m, p) => Known(r.m, p)
    BY <2>2, <2>3 DEF Known
  <2> QED BY <2>13, <2>15, <2>16 DEF Does
<1> QED BY <1>1, <1>2 DEF StaysLocked

LEMMA PriorityAfterUnlockKeeps ==
  ASSUME NEW x, Orderly(x), curr \in Task, NEW r, r = PriorityAfterUnlock(x)
  PROVE  Orderly(r) /\ Does(x, r, "hand", Mutex) /\ r.m = x.m
<1> DEFINE S == {x.s.prio[curr]} \cup
                {find_max_blocked_priority(x.s, q, x.s.prio[curr]) : q \in ToSet(x.m.held[curr])}
           p == Min(S)
<1>1. x.s \in Sched /\ x.s.prio[curr] \in Nat /\ x.m.held[curr] \in Seq(Mutex)
  BY DEF Orderly, SchedOK, Sched, MutexesOK, MutexLists
<1>2. ASSUME NEW q \in ToSet(x.m.held[curr])
      PROVE  find_max_blocked_priority(x.s, q, x.s.prio[curr]) \in Nat
  <2>1. q \in Queue
    BY <1>1, MutexAssumption DEF ToSet
  <2> QED BY <1>1, <2>1, WaitersPriority
<1>3. S \in SUBSET Nat /\ S # {}
  BY <1>1, <1>2
<1>4. p \in Nat
  BY <1>3, MinIsOne
<1>5. r = set_current_priority(x, curr, p)
  BY DEF PriorityAfterUnlock
<1> HIDE DEF p
<1>6. Orderly(r) /\ SamePlaces(x.s, r.s) /\ r.m = x.m
  BY <1>4, <1>5, PriorityIsSet
<1> QED BY <1>6, PlacesDo

\* q leaves the lists of locked mutexes.
LEMMA UnlinkKeeps ==
  ASSUME NEW x, Orderly(x), NEW q \in Mutex, NEW r, r = Unlink(x, q)
  PROVE  /\ Orderly(r) /\ r.s = x.s /\ r.m.holder = x.m.holder
         /\ ToSet(r.m.locked) = ToSet(x.m.locked) \ {q}
         /\ \A t \in Task : ToSet(r.m.held[t]) = ToSet(x.m.held[t]) \ {q}
<1> DEFINE l == Unlinked(x.m.locked, q)
           h == [t \in Task |-> Unlinked(x.m.held[t], q)]
           m == [x.m EXCEPT !.locked = l, !.held = h]
<1>0. /\ Triple(x) /\ SchedOK(x.s) /\ NextReady(x.s) /\ x.m \in MutexLists /\ BlockersOK(x.s, x.m)
      /\ LocksOK(x.m) /\ BlockedOK(x.s, x.m)
  BY DEF Orderly, MutexesOK
<1>1. l \in Seq(Mutex) /\ NoDuplicates(l) /\ ToSet(l) = ToSet(x.m.locked) \ {q}
  BY <1>0, UnlinkedElement DEF MutexLists, LocksOK
<1>2. ASSUME NEW t \in Task
      PROVE  h[t] \in Seq(Mutex) /\ NoDuplicates(h[t]) /\ ToSet(h[t]) = ToSet(x.m.held[t]) \ {q}
  <2>1. x.m.held[t] \in Seq(Mutex) /\ NoDuplicates(x.m.held[t])
    BY <1>0 DEF MutexLists, LocksOK
  <2> QED BY <2>1, UnlinkedElement
<1>3. r.s = x.s /\ r.m = m /\ Triple(r)
  BY <1>0 DEF Unlink, Triple
<1>4. h \in [Task -> Seq(Mutex)]
  BY <1>2
<1> HIDE DEF l, h
<1>5. /\ m \in MutexLists /\ m.locked = l /\ m.held = h
      /\ m.holder = x.m.holder /\ m.blocked = x.m.blocked /\ m.blk = x.m.blk
  BY <1>0, <1>1, <1>4 DEF MutexLists
<1> HIDE DEF m
<1>6. BlockersOK(x.s, m) /\ BlockedOK(x.s, m)
  BY <1>0, <1>5 DEF BlockersOK, BlockedOK
<1>7. LocksOK(m)
  <2>1. NoDuplicates(m.locked) /\ \A t \in Task : NoDuplicates(m.held[t])
    BY <1>1, <1>2, <1>5
  <2>2. ASSUME NEW t \in Task, NEW p \in ToSet(m.held[t])
        PROVE  m.holder[p] = t /\ p \in ToSet(m.locked)
    <3>1. p \in ToSet(x.m.held[t]) /\ p # q
      BY <1>2, <1>5, <2>2
    <3> QED BY <1>0, <1>1, <1>5, <3>1 DEF LocksOK
  <2>3. ASSUME NEW p \in ToSet(m.locked) PROVE \E t \in Task : p \in ToSet(m.held[t])
    <3>1. p \in ToSet(x.m.locked) /\ p # q
      BY <1>1, <1>5, <2>3
    <3>2. PICK t \in Task : p \in ToSet(x.m.held[t])
      BY <1>0, <3>1 DEF LocksOK
    <3> QED BY <1>2, <1>5, <3>1, <3>2
  <2> QED BY <2>1, <2>2, <2>3 DEF LocksOK
<1> QED BY <1>0, <1>1, <1>2, <1>3, <1>5, <1>6, <1>7 DEF Orderly, MutexesOK

\* A mutex that nobody waits for has no holder any more.
LEMMA FreedKeeps ==
  ASSUME NEW x, Orderly(x), NEW q \in Mutex, q \notin ToSet(x.m.locked), x.s.wq[q] = << >>,
         NEW r, r = [x EXCEPT !.m.holder[q] = NoTask]
  PROVE  Orderly(r) /\ Does(x, r, "hand", Mutex) /\ Known(r.m, q)
<1> DEFINE m == [x.m EXCEPT !.holder[q] = NoTask]
<1>0. /\ Triple(x) /\ SchedOK(x.s) /\ NextReady(x.s) /\ x.m \in MutexLists /\ BlockersOK(x.s, x.m)
      /\ LocksOK(x.m) /\ BlockedOK(x.s, x.m) /\ \A t \in Task : q \notin ToSet(x.m.held[t])
  BY LockedHasHolder DEF Orderly, MutexesOK
<1>1. r.s = x.s /\ r.m = m /\ Triple(r)
  BY <1>0 DEF Triple
<1>2. /\ m \in MutexLists /\ m.locked = x.m.locked /\ m.held = x.m.held
      /\ m.holder[q] = NoTask /\ \A p \in Mutex \ {q} : m.holder[p] = x.m.holder[p]
      /\ m.blocked = x.m.blocked /\ m.blk = x.m.blk
  BY <1>0 DEF MutexLists
<1> HIDE DEF m
<1>3. \A t \in Task : x.s.pwait[t] # q
  BY <1>0, MutexAssumption DEF SchedOK, WaitQueuesOK, ToSet
<1>4. BlockersOK(x.s, m)
  BY <1>0, <1>2, <1>3 DEF BlockersOK, MutexReasons
<1>5. LocksOK(m)
  <2>1. ASSUME NEW t \in Task, NEW p \in ToSet(m.held[t])
        PROVE  m.holder[p] = t /\ p \in ToSet(m.locked)
    <3>1. p \in ToSet(x.m.held[t]) /\ x.m.held[t] \in Seq(Mutex)
      BY <1>0, <1>2, <2>1 DEF MutexLists
    <3>2. p \in Mutex \ {q}
      BY <1>0, <3>1 DEF ToSet
    <3> QED BY <1>0, <1>2, <3>1, <3>2 DEF LocksOK
  <2> QED BY <1>0, <1>2, <2>1 DEF LocksOK
<1>6. BlockedOK(x.s, m)
  BY <1>0, <1>2 DEF BlockedOK
<1>7. \A t \in Task : Stays(x, r, t, "hand")
  BY <1>1, <1>2 DEF Stays
<1>8. \A p \in Mutex : p = q \/ Known(x.m, p) => Known(m, p)
  BY <1>2 DEF Known
<1> QED BY <1>0, <1>1, <1>2, <1>4, <1>5, <1>6, <1>7, <1>8 DEF Orderly, MutexesOK, Does

\* A mutex that is in no list any more is handed on, stays as it is or is free. Without a
\* ceiling it does not stay as it is.
LEMMA HandsOnKeeps ==
  ASSUME NEW x, Orderly(x), setup \in Setups, NEW q \in Mutex, q \notin ToSet(x.m.locked),
         NEW r, r = HandsOn(x, q)
  PROVE  Orderly(r) /\ Does(x, r, "hand", Mutex) /\ Known(r.m, q)
<1>1. CASE x.s.wq[q] = << >>
  <2>1. PICK y : y = [x EXCEPT !.m.holder[q] = NoTask]
    OBVIOUS
  <2>2. Orderly(y) /\ Does(x, y, "hand", Mutex) /\ Known(y.m, q)
    BY <1>1, <2>1, FreedKeeps
  <2>3. r = IF Ceiling(q) THEN RetryBlocked(y, curr) ELSE y
    BY <1>1, <2>1 DEF HandsOn
  <2>4. CASE ~Ceiling(q)
    BY <2>2, <2>3, <2>4
  <2>5. CASE Ceiling(q)
    <3>1. Orderly(r) /\ Does(y, r, "hand", Mutex)
      BY <2>2, <2>3, <2>5, RetryKeeps
    <3> QED BY <2>2, <2>5, <3>1, DoesOnAndOn DEF Known
  <2> QED BY <2>4, <2>5
<1>2. CASE x.s.wq[q] # << >>
  <2>1. q \in Queue /\ SchedOK(x.s)
    BY MutexAssumption DEF Orderly
  <2>2. CASE ~Ceiling(q)
    <3>1. PICK t \in ToSet(x.s.wq[q]) : t = Head(x.s.wq[q])
      BY <1>2, <2>1, HighestIsWaiter
    <3>2. t \in Task /\ Waiting(x.s.state[t]) /\ x.s.pwait[t] = q
      BY <2>1, InQueueWaits
    <3>3. r = PassTo(x, q, t)
      BY <1>2, <2>2, <3>1 DEF HandsOn
    <3> QED BY <3>2, <3>3, PassToKeeps
  <2>3. CASE Ceiling(q)
    <3>1. PICK t \in ToSet(x.s.wq[q]) : t = HighestWaiter(x.s, q)
      BY <1>2, <2>1, HighestIsWaiter
    <3>2. t \in Task /\ Waiting(x.s.state[t]) /\ x.s.pwait[t] = q
      BY <2>1, InQueueWaits
    <3>3. r = IF enable_lock_mutex(x, t) THEN PassTo(x, q, t) ELSE StaysLocked(x, q, t)
      BY <1>2, <2>3, <3>1 DEF HandsOn
    <3>4. CASE enable_lock_mutex(x, t)
      BY <3>2, <3>3, <3>4, PassToKeeps
    <3>5. CASE ~enable_lock_mutex(x, t)
      BY <2>3, <3>2, <3>3, <3>5, StaysLockedKeeps DEF Known
    <3> QED BY <3>4, <3>5
  <2> QED BY <2>2, <2>3
<1> QED BY <1>1, <1>2

\* The whole of an unlock: the mutex leaves its holder's list, and what happens to the
\* waiting tasks is as Does says.
LEMMA UnlockKeeps ==
  ASSUME NEW x, Orderly(x), setup \in Setups, curr \in Task, NEW q \in Mutex,
         NEW r, r = do_unlock_mutex(x, q)
  PROVE  /\ Orderly(r) /\ Does(Unlink(x, q), r, "hand", Mutex)
         /\ \A p \in Mutex : p = q \/ Known(x.m, p) => Known(r.m, p)
<1> DEFINE y == Unlink(x, q)
           z == PriorityAfterUnlock(y)
<1>1. /\ Orderly(y) /\ y.s = x.s /\ y.m.holder = x.m.holder
      /\ ToSet(y.m.locked) = ToSet(x.m.locked) \ {q}
  BY UnlinkKeeps
<1>2. r = HandsOn(z, q)
  BY DEF do_unlock_mutex
<1> HIDE DEF y
<1>3. Orderly(z) /\ Does(y, z, "hand", Mutex) /\ z.m = y.m
  BY <1>1, PriorityAfterUnlockKeeps
<1> HIDE DEF z
<1>4. q \notin ToSet(z.m.locked)
  BY <1>1, <1>3
<1>5. Orderly(r) /\ Does(z, r, "hand", Mutex) /\ Known(r.m, q)
  BY <1>2, <1>3, <1>4, HandsOnKeeps
<1>6. Does(y, r, "hand", Mutex)
  BY <1>3, <1>5, DoesOnAndOn
<1>7. \A p \in Mutex \ {q} : Known(x.m, p) => Known(y.m, p)
  BY <1>1 DEF Known
<1> QED BY <1>5, <1>6, <1>7 DEF Does, y
-----------------------------------------------------------------------------
(* The tick *)

\* A return code is written.
WithCode(x, t, c) == [x EXCEPT !.s.rc[t] = c]

LEMMA CodeIsSet ==
  ASSUME NEW x, Orderly(x), NEW t \in Task, NEW c \in Codes, NEW r, r = WithCode(x, t, c)
  PROVE  /\ Orderly(r) /\ r.m = x.m /\ r.s.wq = x.s.wq
         /\ r.s.state = x.s.state /\ r.s.pwait = x.s.pwait /\ r.s.reason = x.s.reason
         /\ r.s.rc[t] = c /\ \A u \in Task \ {t} : r.s.rc[u] = x.s.rc[u]
<1> DEFINE s == [x.s EXCEPT !.rc = [x.s.rc EXCEPT ![t] = c]]
<1>0. Triple(x) /\ SchedOK(x.s) /\ NextReady(x.s) /\ MutexesOK(x.s, x.m) /\ x.s \in Sched
  BY DEF Orderly, SchedOK
<1>1. r.s = s /\ r.m = x.m /\ Triple(r)
  BY <1>0 DEF Triple, WithCode
<1>2. x.s.rc \in [Task -> Codes] /\ [x.s.rc EXCEPT ![t] = c] \in [Task -> Codes]
  BY <1>0 DEF Sched
<1>3. /\ s \in Sched /\ s.ready = x.s.ready /\ s.timers = x.s.timers /\ s.wq = x.s.wq
      /\ s.state = x.s.state /\ s.tick = x.s.tick /\ s.reason = x.s.reason
      /\ s.pwait = x.s.pwait /\ s.next = x.s.next /\ s.rc = [x.s.rc EXCEPT ![t] = c]
  BY <1>0, <1>2 DEF Sched
<1> HIDE DEF s
<1>4. SchedOK(s) /\ NextReady(s)
  BY <1>0, <1>3, OtherFieldsChange
<1>5. MutexesOK(s, x.m)
  BY <1>0, <1>3 DEF MutexesOK, BlockersOK, BlockedOK
<1> QED BY <1>1, <1>2, <1>3, <1>4, <1>5 DEF Orderly

\* A wait without a timeout is not counted.
LEMMA NotCounted ==
  ASSUME NEW s \in Sched, NEW t \in Task, s.tick[t] = Infinite, NEW ms \in BOOLEAN
  PROVE  CountedDown(s, t, ms) = s
BY DEF CountedDown, Sched, Infinite

\* One task of the scan: its wait ends with ERR_TIMEOUT or goes on.
LEMMA MutexTimerStepKeeps ==
  ASSUME NEW x, Orderly(x), NEW t \in Task, NEW ms \in BOOLEAN,
         NEW r, r = MutexTimerStep(x, t, ms)
  PROVE  Orderly(r) /\ Does(x, r, "timeout", Queue \cup {NoQueue})
<1> DEFINE n == CountedDown(x.s, t, ms)
           y == [x EXCEPT !.s.tick[t] = IF ms /\ @ > 0 THEN @ - 1 ELSE @]
           z == mutex_wait_complete(y, t)
<1>0. /\ Triple(x) /\ SchedOK(x.s) /\ NextReady(x.s) /\ MutexesOK(x.s, x.m) /\ x.s \in Sched
      /\ x.s.tick[t] \in Nat \cup {Infinite} /\ Infinite = -1
  BY DEF Orderly, SchedOK, Sched, Infinite
<1>1. y.s = n /\ y.m = x.m /\ Triple(y)
  BY <1>0 DEF Triple, CountedDown
<1>2. r = IF x.s.tick[t] > 0 /\ y.s.tick[t] = 0 THEN [z EXCEPT !.s.rc[t] = "TIMEOUT"] ELSE y
  BY DEF MutexTimerStep
<1> HIDE DEF y, z, n
<1>3. CASE ~Waiting(x.s.state[t])
  <2>1. x.s.tick[t] = Infinite
    BY <1>0, <1>3 DEF SchedOK, WaitFieldsOK
  <2>2. n = x.s
    BY <1>0, <2>1, NotCounted DEF n
  <2>3. r = y /\ y.s = x.s /\ y.m = x.m
    BY <1>0, <1>1, <1>2, <2>1, <2>2
  <2>4. Does(x, r, "timeout", Queue \cup {NoQueue})
    BY <2>3, PlacesDo DEF SamePlaces
  <2> QED BY <1>0, <1>1, <2>3, <2>4 DEF Orderly
<1>4. CASE Waiting(x.s.state[t])
  <2>1. /\ n \in Sched /\ ReadyOK(n) /\ TimersOK(n) /\ WaitQueuesOK(n) /\ NextReady(n)
        /\ \A u \in Task \ {t} : FieldsOK(n, u)
        /\ n.wq = x.s.wq /\ n.state = x.s.state /\ n.reason = x.s.reason
        /\ n.pwait = x.s.pwait /\ n.rc = x.s.rc
        /\ n.tick[t] # 0 => SchedOK(n)
    BY <1>0, <1>4, CountDownKeeps DEF n
  <2>2. x.s.tick[t] # 0
    BY <1>0, <1>4 DEF SchedOK, WaitFieldsOK
  <2>3. MutexesOK(n, x.m)
    BY <1>0, <2>1 DEF MutexesOK, BlockersOK, BlockedOK
  <2>4. CASE n.tick[t] = 0
    <3>1. Ending(n, t)
      BY <1>4, <2>1 DEF Ending
    <3>2. Orderly(z) /\ WaitOver(y, z, t)
      BY <1>1, <2>3, <3>1, MutexWaitCompletes DEF z
    <3>3. x.s.tick[t] > 0
      <4>1. n.tick[t] = IF ms /\ x.s.tick[t] > 0 THEN x.s.tick[t] - 1 ELSE x.s.tick[t]
        BY <1>0, <1>4, CountDownKeeps DEF n
      <4> QED BY <1>0, <2>2, <2>4, <4>1
    <3>4. PICK c \in Codes : c = "TIMEOUT"
      BY DEF Codes
    <3>5. r = WithCode(z, t, c)
      BY <1>1, <1>2, <2>4, <3>3, <3>4 DEF WithCode
    <3>6. /\ Orderly(r) /\ r.m = z.m
          /\ r.s.state = z.s.state /\ r.s.pwait = z.s.pwait /\ r.s.reason = z.s.reason
          /\ r.s.rc[t] = "TIMEOUT" /\ \A u \in Task \ {t} : r.s.rc[u] = z.s.rc[u]
      BY <3>2, <3>4, <3>5, CodeIsSet
    <3>7. x.s.pwait[t] \in Queue \cup {NoQueue}
      BY <1>0 DEF Sched
    <3>8. Leaves(x, r, t, "timeout", Queue \cup {NoQueue})
      BY <1>1, <1>4, <2>1, <3>2, <3>6, <3>7 DEF Leaves, WaitOver
    <3>9. \A u \in Task \ {t} : Stays(x, r, u, "timeout")
      BY <1>1, <2>1, <3>2, <3>6 DEF Stays, WaitOver
    <3>10. \A q \in Mutex : Known(x.m, q) => Known(r.m, q)
      BY <1>1, <3>2, <3>6 DEF Known, WaitOver
    <3> QED BY <3>6, <3>8, <3>9, <3>10 DEF Does
  <2>5. CASE n.tick[t] # 0
    <3>1. r = y
      BY <1>1, <1>2, <2>5
    <3>2. Orderly(y)
      BY <1>1, <2>1, <2>3, <2>5 DEF Orderly
    <3>3. \A u \in Task : Stays(x, y, u, "timeout")
      BY <1>1, <2>1 DEF Stays
    <3> QED BY <1>1, <3>1, <3>2, <3>3 DEF Does
  <2> QED BY <2>4, <2>5
<1> QED BY <1>3, <1>4

\* The whole scan of the timeout list.
LEMMA MutexScanKeeps ==
  ASSUME NEW x, Orderly(x), NEW ms \in BOOLEAN, NEW r, r = MutexScanTimeouts(x, ms)
  PROVE  /\ Orderly(r) /\ Does(x, r, "timeout", Queue \cup {NoQueue})
         /\ OnlyEndsWaits(x.s, r.s)
<1> DEFINE b == x.s.timers
           n == Len(b)
           f == Rounds("timeouts", x, b, ms)
           G == {i \in 0..n : Orderly(f[i]) /\ Does(x, f[i], "timeout", Queue \cup {NoQueue})}
<1>1. b \in Seq(Task) /\ n \in Nat /\ \A j \in 1..n : b[j] \in Task
  BY DEF Orderly, SchedOK, Sched
<1>2. r = f[n]
  <2>1. r = LET scan[i \in 0..Len(b)] ==
                  IF i = 0 THEN x ELSE MutexTimerStep(scan[i-1], b[i], ms)
            IN  scan[Len(b)]
    BY DEF MutexScanTimeouts
  <2> HIDE DEF b
  <2> QED BY <2>1 DEF Rounds, RoundsUpTo, Round
<1> HIDE DEF b
<1>3. f[0] = x /\ \A i \in 1..n : f[i] = Round("timeouts", f[i-1], b[i], ms)
  BY <1>1, RoundsStep
<1> HIDE DEF f
<1>4. 0 \in G
  BY <1>1, <1>3, NothingIsDone
<1>5. ASSUME NEW i \in 1..n, i-1 \in G PROVE i \in G
  <2> DEFINE y == f[i-1]
             z == f[i]
  <2>1. Orderly(y) /\ Does(x, y, "timeout", Queue \cup {NoQueue})
    BY <1>1, <1>5
  <2>2. z = MutexTimerStep(y, b[i], ms)
    BY <1>3 DEF Round
  <2> HIDE DEF y, z
  <2>3. Orderly(z) /\ Does(y, z, "timeout", Queue \cup {NoQueue})
    BY <1>1, <2>1, <2>2, MutexTimerStepKeeps
  <2>4. Does(x, z, "timeout", Queue \cup {NoQueue})
    BY <2>1, <2>3, DoesOnAndOn
  <2> QED BY <1>1, <2>3, <2>4 DEF z
<1> HIDE DEF G
<1>6. n \in G
  BY <1>1, <1>4, <1>5, UpTo
<1>7. Orderly(r) /\ Does(x, r, "timeout", Queue \cup {NoQueue})
  BY <1>2, <1>6 DEF G
<1>8. x.s \in Sched /\ r.s \in Sched /\ WaitQueuesOK(x.s) /\ WaitQueuesOK(r.s)
  BY <1>7 DEF Orderly, SchedOK
<1> QED BY <1>7, <1>8, DoesEndsWaits

-----------------------------------------------------------------------------
(* kern_mutex_lock *)

LEMMA NowIsOrderly ==
  ASSUME IInv, MutexesOK(k, mx)
  PROVE  Orderly(Now) /\ Now.s = k /\ Now.m = mx /\ Now.sw = FALSE
BY DEF Now, Orderly, Triple, IInv, KernelOK

\* The holder inherits the caller's priority.
LEMMA InheritsKeeps ==
  ASSUME IInv, MutexesOK(k, mx), NEW b \in Task, NEW r, r = Inherits(b)
  PROVE  Orderly(r) /\ SamePlaces(k, r.s) /\ r.m = mx
<1>1. Orderly(Now) /\ Now.s = k /\ Now.m = mx
  BY NowIsOrderly
<1>2. k.prio[curr] \in Nat
  BY DEF IInv, KernelOK, VariablesOK, SchedOK, Sched
<1>3. CASE r = Now
  BY <1>1, <1>3 DEF SamePlaces
<1>4. CASE r = set_current_priority(Now, b, k.prio[curr])
  <2>1. Orderly(r) /\ SamePlaces(Now.s, r.s) /\ r.m = Now.m
    BY <1>1, <1>2, <1>4, PriorityIsSet
  <2> QED BY <1>1, <2>1
<1> QED BY <1>3, <1>4 DEF Inherits

\* A caller that waits for a mutex has a task to wait for.
LEMMA WaitsForTask ==
  ASSUME IInv, MutexesOK(k, mx), setup \in Setups, NEW q \in Mutex, ~IllegalLock(q), ~CanLock(q)
  PROVE  IF mx.holder[q] = NoTask THEN blk_task(Now, curr) \in Task /\ Ceiling(q)
                                  ELSE mx.holder[q] \in Task
<1>1. CASE mx.holder[q] = NoTask
  <2>1. Ceiling(q) /\ ~enable_lock_mutex(Now, curr)
    BY <1>1 DEF CanLock
  <2> QED BY <1>1, <2>1, NowIsOrderly, BlockerChosen DEF MutexesOK
<1>2. CASE mx.holder[q] # NoTask
  BY <1>2 DEF MutexesOK, MutexLists
<1> QED BY <1>1, <1>2

\* What a wait for a mutex leaves behind: the caller waits, and nobody else is concerned.
CallerWaitsFor(q) ==
  /\ k'.state[curr] = "WAIT" /\ k'.pwait[curr] = q /\ k'.reason[curr] \in MutexReasons
  /\ \A u \in Task \ {curr} : /\ k'.state[u] = k.state[u] /\ k'.pwait[u] = k.pwait[u]
                              /\ k'.reason[u] = k.reason[u]
  /\ k'.rc = k.rc
  /\ mx'.holder = mx.holder /\ mx'.held = mx.held /\ mx'.locked = mx.locked

LEMMA LockWaitsKeeps ==
  ASSUME IInv, MutexesOK(k, mx), setup \in Setups, NEW q \in Mutex, NEW timeout \in Timeouts,
         LockWaits(q, timeout)
  PROVE  IInv' /\ MutexesOK(k', mx') /\ CallerWaitsFor(q)
<1> DEFINE blocked == mx.holder[q] = NoTask
           b       == IF blocked THEN blk_task(Now, curr) ELSE mx.holder[q]
           reason  == IF blocked THEN "MUTEX_C_BLK" ELSE IF Ceiling(q) THEN "MUTEX_C" ELSE "MUTEX_I"
           s       == Inherits(b).s
<1>1. /\ Calls(curr) /\ MayStop(curr) /\ ~IllegalLock(q) /\ ~CanLock(q)
      /\ k' = task_curr_to_wait_action(s, curr, q, reason, timeout)
      /\ mx' = IF blocked THEN [mx EXCEPT !.blocked = Append(@, curr), !.blk[curr] = b] ELSE mx
      /\ Switches /\ UnchangedTasks
  BY DEF LockWaits, At, MayWait
<1>2. b \in Task /\ (blocked => Ceiling(q)) /\ (~blocked => b = mx.holder[q])
  BY <1>1, WaitsForTask
<1>3. /\ reason \in Reasons \ {"NONE"} /\ reason \in MutexReasons
      /\ reason = "MUTEX_C_BLK" <=> blocked
  BY DEF Reasons, MutexReasons
<1>4. q \in Queue /\ curr \in Task /\ k.state[curr] = "RUNNABLE" /\ k \in Sched
  BY <1>1, CallerIsReady, MutexAssumption DEF SchedOK
<1> HIDE DEF b, reason
<1>5. SchedOK(s) /\ NextReady(s) /\ SamePlaces(k, s) /\ s \in Sched
  BY <1>2, InheritsKeeps DEF Orderly, SchedOK
<1> HIDE DEF s
<1>6. s.state[curr] = "RUNNABLE" /\ ToSet(s.ready) # {curr}
  <2>1. s.state = k.state
    BY <1>5 DEF SamePlaces
  <2>2. Spinner \in ToSet(s.ready) /\ Spinner # curr
    BY <1>1, <1>5, <2>1, TasksAssumption DEF MayStop, SchedOK, ReadyOK
  <2> QED BY <1>4, <2>1, <2>2
<1>7. SchedOK(k') /\ NextReady(k') /\ k'.state = [s.state EXCEPT ![curr] = "WAIT"]
  BY <1>1, <1>3, <1>4, <1>5, <1>6, CallerQueues
<1>8. timeout \in (Nat \ {0}) \cup {Infinite}
  BY TasksAssumption
<1>9. /\ k'.state[curr] = "WAIT" /\ k'.pwait[curr] = q /\ k'.reason[curr] = reason
      /\ \A u \in Task \ {curr} : /\ k'.state[u] = s.state[u] /\ k'.pwait[u] = s.pwait[u]
                                  /\ k'.reason[u] = s.reason[u]
      /\ k'.rc = s.rc
  BY <1>1, <1>4, <1>5, CurrentWaitEffects
<1>10. /\ \A u \in Task \ {curr} : /\ k'.state[u] = k.state[u] /\ k'.pwait[u] = k.pwait[u]
                                   /\ k'.reason[u] = k.reason[u]
       /\ k'.rc = k.rc
  BY <1>5, <1>9 DEF SamePlaces
<1>11. IInv'
  <2>1. \A t \in Task : ~id_task[t] => k'.state[t] = "DORMANT"
    BY <1>4, <1>10, NobodyEnds DEF IInv, UncreatedRest
  <2> QED BY <1>1, <1>7, <2>1, CallKeeps
<1>12. /\ mx \in MutexLists /\ BlockersOK(k, mx) /\ LocksOK(mx) /\ BlockedOK(k, mx)
  BY DEF MutexesOK
<1>13. curr \notin ToSet(mx.blocked)
  BY <1>4, <1>12 DEF BlockedOK, Waiting
<1>14. /\ mx.blocked \in Seq(Task) /\ NoDuplicates(mx.blocked)
  BY <1>12 DEF MutexLists, BlockedOK
<1>15. /\ Append(mx.blocked, curr) \in Seq(Task) /\ NoDuplicates(Append(mx.blocked, curr))
       /\ ToSet(Append(mx.blocked, curr)) = ToSet(mx.blocked) \cup {curr}
  BY <1>4, <1>13, <1>14, AppendElement
<1>16. /\ mx' \in MutexLists
       /\ mx'.holder = mx.holder /\ mx'.held = mx.held /\ mx'.locked = mx.locked
       /\ \A u \in Task \ {curr} : mx'.blk[u] = mx.blk[u]
       /\ blocked => mx'.blk[curr] = b
       /\ NoDuplicates(mx'.blocked)
       /\ ToSet(mx'.blocked) = IF blocked THEN ToSet(mx.blocked) \cup {curr} ELSE ToSet(mx.blocked)
  <2> HIDE DEF blocked
  <2>1. CASE blocked
    <3>1. mx' = [mx EXCEPT !.blocked = Append(mx.blocked, curr), !.blk[curr] = b]
      BY <1>1, <2>1
    <3> QED BY <1>2, <1>4, <1>12, <1>15, <2>1, <3>1 DEF MutexLists
  <2>2. CASE ~blocked
    BY <1>1, <1>12, <1>14, <2>2
  <2> QED BY <2>1, <2>2
<1>17. BlockersOK(k', mx')
  <2> SUFFICES ASSUME NEW u \in Task
               PROVE  /\ k'.reason[u] \in MutexReasons <=> k'.pwait[u] \in Mutex
                      /\ k'.reason[u] = "MUTEX_C_BLK" => mx'.blk[u] \in Task /\ Ceiling(k'.pwait[u])
                      /\ k'.reason[u] \in {"MUTEX_C", "MUTEX_I"} => mx'.holder[k'.pwait[u]] \in Task
    BY DEF BlockersOK
  <2>1. CASE u = curr
    BY <1>2, <1>3, <1>9, <1>16, <2>1
  <2>2. CASE u # curr
    BY <1>10, <1>12, <1>16, <2>2 DEF BlockersOK
  <2> QED BY <2>1, <2>2
<1>18. LocksOK(mx')
  BY <1>12, <1>16 DEF LocksOK
<1>19. BlockedOK(k', mx')
  <2>1. ASSUME NEW u \in ToSet(mx'.blocked)
        PROVE  Waiting(k'.state[u]) /\ k'.reason[u] = "MUTEX_C_BLK"
    <3>1. CASE u = curr
      BY <1>3, <1>9, <1>13, <1>16, <2>1, <3>1 DEF Waiting
    <3>2. CASE u # curr
      <4>1. u \in ToSet(mx.blocked)
        BY <1>16, <2>1, <3>2
      <4>2. u \in Task
        BY <1>14, <4>1 DEF ToSet
      <4> QED BY <1>10, <1>12, <3>2, <4>1, <4>2 DEF BlockedOK
    <3> QED BY <3>1, <3>2
  <2> QED BY <1>16, <2>1 DEF BlockedOK
<1> QED BY <1>3, <1>9, <1>10, <1>11, <1>16, <1>17, <1>18, <1>19 DEF MutexesOK, CallerWaitsFor
-----------------------------------------------------------------------------
(* kern_mutex_delete *)

\* A deletion ends the wait of one task.
WaitsAt(x, t, q) == Waiting(x.s.state[t]) /\ x.s.pwait[t] = q

HasLeft(x, r, t, q) ==
  /\ r.s.pwait[t] = NoQueue
  /\ \A u \in Task \ {t} : r.s.state[u] = x.s.state[u] /\ r.s.pwait[u] = x.s.pwait[u]
  /\ Len(r.s.wq[q]) = Len(x.s.wq[q]) - 1

LEMMA EndForDeletionKeeps ==
  ASSUME NEW x, Orderly(x), NEW t \in Task, NEW q \in Mutex, WaitsAt(x, t, q),
         NEW r, r = EndForDeletion(x, t)
  PROVE  Orderly(r) /\ Does(x, r, "delete", {q}) /\ HasLeft(x, r, t, q)
<1> DEFINE b == RemoveBlocked(x.m, t)
           y == [s |-> x.s, m |-> b, sw |-> FALSE]
<1>0. /\ Triple(x) /\ SchedOK(x.s) /\ NextReady(x.s) /\ x.m \in MutexLists /\ BlockersOK(x.s, x.m)
      /\ LocksOK(x.m) /\ BlockedOK(x.s, x.m)
      /\ Waiting(x.s.state[t]) /\ x.s.pwait[t] = q
  BY DEF Orderly, MutexesOK, WaitsAt
<1>1. /\ b \in MutexLists /\ NoDuplicates(b.blocked) /\ ToSet(b.blocked) = ToSet(x.m.blocked) \ {t}
      /\ b.holder = x.m.holder /\ b.held = x.m.held /\ b.locked = x.m.locked /\ b.blk = x.m.blk
  BY <1>0, BlockedRemoved DEF BlockedOK
<1>2. r = mutex_wait_complete(y, t)
  BY DEF EndForDeletion
<1> HIDE DEF b
<1>3. Triple(y) /\ y.s = x.s /\ y.m = b
  BY DEF Triple
<1>4. MutexesOK(x.s, b)
  BY <1>0, <1>1 DEF MutexesOK, BlockersOK, LocksOK, BlockedOK
<1>5. Ending(x.s, t)
  BY <1>0 DEF Ending, SchedOK, WaitFieldsOK, FieldsOK
<1> HIDE DEF y
<1>6. Orderly(r) /\ WaitOver(y, r, t)
  BY <1>2, <1>3, <1>4, <1>5, MutexWaitCompletes
<1>7. Does(y, r, "delete", {q})
  BY <1>0, <1>3, <1>6, WaitOverDoes
<1>8. Does(x, y, "delete", {q})
  BY <1>1, <1>3 DEF Does, Stays, Known
<1>9. Does(x, r, "delete", {q})
  BY <1>7, <1>8, DoesOnAndOn
<1>10. /\ r.s.pwait[t] = NoQueue
       /\ \A u \in Task \ {t} : r.s.state[u] = x.s.state[u] /\ r.s.pwait[u] = x.s.pwait[u]
  BY <1>3, <1>6 DEF WaitOver
<1>11. q \in Queue
  BY MutexAssumption
<1>12. x.s.wq[q] \in Seq(Task) /\ NoDuplicates(x.s.wq[q]) /\ t \in ToSet(x.s.wq[q])
  BY <1>0, <1>11 DEF SchedOK, Sched, WaitQueuesOK
<1>13. r.s.wq[q] = Unlinked(x.s.wq[q], t)
  BY <1>0, <1>3, <1>6, <1>11 DEF WaitOver
<1>14. Len(r.s.wq[q]) = Len(x.s.wq[q]) - 1
  BY <1>12, <1>13, RemoveElement DEF Unlinked
<1> QED BY <1>6, <1>9, <1>10, <1>14 DEF HasLeft

\* The loop has come to the i-th of the tasks w that wait for q: all before it have left,
\* or a task has become ready, and is the last that has left.
DeletedUpTo(x, w, q, i) ==
  LET ended == Len(w) - Len(x.s.wq[q])
  IN  /\ Len(x.s.wq[q]) \in Nat
      /\ ~x.sw => /\ ended = i
                  /\ \A j \in (i+1)..Len(w) : Waiting(x.s.state[w[j]]) /\ x.s.pwait[w[j]] = q
      /\ x.sw => ended \in 1..Len(w) /\ x.s.pwait[w[ended]] = NoQueue

\* The loop of a deletion ends waits for the mutex and does nothing else.
LEMMA DeletionKeeps ==
  ASSUME IInv, MutexesOK(k, mx), NEW q \in Mutex, NEW r, r = MutexEndsForDeletion(q)
  PROVE  Orderly(r) /\ Does(Now, r, "delete", {q})
<1> DEFINE w == k.wq[q]
           n == Len(w)
           f == Rounds("delete", Now, w, 0)
           G == {i \in 0..n : /\ Orderly(f[i]) /\ Does(Now, f[i], "delete", {q})
                              /\ DeletedUpTo(f[i], w, q, i)}
<1>0. Orderly(Now) /\ Now.s = k /\ Now.m = mx /\ Now.sw = FALSE /\ SchedOK(k)
  BY NowIsOrderly DEF IInv, KernelOK
<1>1. q \in Queue /\ q # NoQueue
  BY MutexAssumption, NoQueueAssumption
<1>2. w \in Seq(Task) /\ n \in Nat /\ NoDuplicates(w) /\ \A j \in 1..n : w[j] \in Task
  BY <1>0, <1>1 DEF SchedOK, Sched, WaitQueuesOK
<1>3. \A j \in 1..n : Waiting(k.state[w[j]]) /\ k.pwait[w[j]] = q
  <2>1. \A j \in 1..n : w[j] \in ToSet(w)
    BY <1>2 DEF ToSet
  <2> QED BY <1>0, <1>1, <2>1, InQueueWaits
<1>4. r = LET x == f[n] IN IF x.sw THEN [x EXCEPT !.s.rc[w[n - Len(x.s.wq[q])]] = "DLT"] ELSE x
  <2>1. r = LET ends[i \in 0..Len(w)] ==
                  IF i = 0 THEN Now
                  ELSE IF ends[i-1].sw THEN ends[i-1] ELSE EndForDeletion(ends[i-1], w[i])
                x == ends[Len(w)]
            IN  IF x.sw THEN [x EXCEPT !.s.rc[w[Len(w) - Len(x.s.wq[q])]] = "DLT"] ELSE x
    BY DEF MutexEndsForDeletion
  <2> HIDE DEF w
  <2> QED BY <2>1 DEF Rounds, RoundsUpTo, Round
<1>5. Len(Now.s.wq[q]) = n
  BY <1>0
<1> HIDE DEF w
<1>6. f[0] = Now /\ \A i \in 1..n : f[i] = Round("delete", f[i-1], w[i], 0)
  BY <1>2, RoundsStep
<1> HIDE DEF f
<1>7. 0 \in G
  <2>1. DeletedUpTo(Now, w, q, 0)
    BY <1>0, <1>2, <1>3, <1>5 DEF DeletedUpTo
  <2> QED BY <1>0, <1>2, <1>6, <2>1, NothingIsDone
<1>8. ASSUME NEW i \in 1..n, i-1 \in G PROVE i \in G
  <2> DEFINE y == f[i-1]
             z == f[i]
             t == w[i]
  <2>1. Orderly(y) /\ Does(Now, y, "delete", {q}) /\ DeletedUpTo(y, w, q, i-1)
    BY <1>2, <1>8
  <2>2. z = IF y.sw THEN y ELSE EndForDeletion(y, t)
    BY <1>6 DEF Round
  <2>3. \A j \in i..n : j \in 1..n /\ w[j] \in Task
    BY <1>2
  <2>4. t \in Task /\ \A j \in (i+1)..n : w[j] # t /\ j \in i..n
    BY <1>2 DEF NoDuplicates
  <2> SUFFICES Orderly(z) /\ Does(Now, z, "delete", {q}) /\ DeletedUpTo(z, w, q, i)
    OBVIOUS
  <2> HIDE DEF y, z
  <2>5. CASE y.sw
    <3>1. DeletedUpTo(y, w, q, i)
      BY <2>1, <2>5 DEF DeletedUpTo
    <3> QED BY <2>1, <2>2, <2>5, <3>1
  <2>6. CASE ~y.sw
    <3>0. /\ Len(y.s.wq[q]) \in Nat /\ n - Len(y.s.wq[q]) = i - 1
          /\ \A j \in i..n : Waiting(y.s.state[w[j]]) /\ y.s.pwait[w[j]] = q
      BY <1>2, <2>1, <2>6 DEF DeletedUpTo
    <3>1. WaitsAt(y, t, q) /\ z = EndForDeletion(y, t)
      BY <1>2, <2>2, <2>6, <3>0 DEF WaitsAt
    <3> HIDE DEF t
    <3>20. Orderly(z) /\ Does(y, z, "delete", {q}) /\ HasLeft(y, z, t, q)
      <4>1. Orderly(y) /\ t \in Task /\ WaitsAt(y, t, q) /\ z = EndForDeletion(y, t)
        BY <2>1, <2>4, <3>1
      <4> QED BY <4>1, EndForDeletionKeeps
    <3>2. /\ Orderly(z) /\ Does(y, z, "delete", {q}) /\ z.s.pwait[t] = NoQueue
          /\ \A u \in Task \ {t} : z.s.state[u] = y.s.state[u] /\ z.s.pwait[u] = y.s.pwait[u]
          /\ Len(z.s.wq[q]) = Len(y.s.wq[q]) - 1
      BY <3>20 DEF HasLeft
    <3>3. Does(Now, z, "delete", {q})
      BY <2>1, <3>2, DoesOnAndOn
    <3>4. n - Len(z.s.wq[q]) = i /\ Len(z.s.wq[q]) \in Nat
      BY <1>2, <3>0, <3>2
    <3>5. \A j \in (i+1)..n : Waiting(z.s.state[w[j]]) /\ z.s.pwait[w[j]] = q
      BY <2>3, <2>4, <3>0, <3>2
    <3>6. z.sw => z.s.pwait[w[n - Len(z.s.wq[q])]] = NoQueue
      BY <3>2, <3>4 DEF t
    <3>7. DeletedUpTo(z, w, q, i)
      BY <1>2, <3>4, <3>5, <3>6 DEF DeletedUpTo
    <3> QED BY <3>2, <3>3, <3>7
  <2> QED BY <2>5, <2>6
<1> HIDE DEF G
<1>9. n \in G
  BY <1>2, <1>7, <1>8, UpTo
<1> DEFINE x == f[n]
           t == w[n - Len(x.s.wq[q])]
<1>10. /\ Orderly(x) /\ Does(Now, x, "delete", {q})
       /\ x.sw => t \in Task /\ x.s.pwait[t] = NoQueue /\ k.pwait[t] = q
  BY <1>2, <1>3, <1>9 DEF G, DeletedUpTo
<1>11. r = IF x.sw THEN [x EXCEPT !.s.rc[t] = "DLT"] ELSE x
  BY <1>4
<1> HIDE DEF x, t
<1>12. CASE ~x.sw
  BY <1>10, <1>11, <1>12
<1>13. CASE x.sw
  <2>1. PICK c \in Codes : c = "DLT"
    BY DEF Codes
  <2>2. r = WithCode(x, t, c)
    BY <1>11, <1>13, <2>1 DEF WithCode
  <2>3. /\ Orderly(r) /\ r.m = x.m
        /\ r.s.state = x.s.state /\ r.s.pwait = x.s.pwait /\ r.s.reason = x.s.reason
        /\ \A u \in Task \ {t} : r.s.rc[u] = x.s.rc[u]
    BY <1>10, <1>13, <2>1, <2>2, CodeIsSet
  <2>4. ASSUME NEW u \in Task \ {t}
        PROVE  Stays(Now, r, u, "delete") \/ Leaves(Now, r, u, "delete", {q})
    <3>1. Stays(Now, x, u, "delete") \/ Leaves(Now, x, u, "delete", {q})
      BY <1>10 DEF Does
    <3> QED BY <2>3, <3>1 DEF Stays, Leaves
  <2>5. Leaves(Now, r, t, "delete", {q})
    <3>1. Leaves(Now, x, t, "delete", {q})
      BY <1>0, <1>1, <1>10, <1>13 DEF Does, Stays
    <3> QED BY <2>3, <3>1 DEF Leaves
  <2>6. \A p \in Mutex : Known(Now.m, p) => Known(r.m, p)
    BY <1>10, <2>3 DEF Does
  <2> QED BY <2>3, <2>4, <2>5, <2>6 DEF Does
<1> QED BY <1>12, <1>13
=============================================================================
