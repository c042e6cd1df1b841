----------------------------- MODULE KernSemProofs -----------------------------
(***************************************************************************)
(* Semaphores, for every number of tasks, semaphores and units: no wakeup  *)
(* is lost, and, if no acquisition has a timeout, the return codes account *)
(* for every unit. KernTasksProofs gives what the scheduler, the switch and *)
(* the scan of the timeout list do; the calls of the semaphore and its own *)
(* scan are new.                                                           *)
(***************************************************************************)
EXTENDS KernSem, KernTasksProofs, FiniteSetTheorems

\* Only semaphores are waited for.
SemWaiters == \A t \in Task : k.pwait[t] # NoQueue => k.reason[t] = "SEM"

CountsOK == count \in [Queue -> 0..MaxCount] /\ out \in [Queue -> Int]

SemInv == IInv /\ CountsOK /\ NoUnitIdle /\ SemWaiters

LEMMA SemInvImplies == SemInv => SemTypeOK /\ NoUnitIdle
BY IInvImplies DEF SemInv, CountsOK, SemTypeOK

LEMMA FiniteTasks == IsFiniteSet(Task)
<1> DEFINE n == Len(Order)
           f == [i \in 1..n |-> Order[i]]
<1>1. /\ Order \in Seq(Task) /\ n \in Nat /\ DOMAIN Order = 1..n /\ ToSet(Order) = Task
  BY StartAssumption
<1>2. f \in [1..n -> Task] /\ \A t \in Task : \E i \in 1..n : f[i] = t
  BY <1>1 DEF ToSet
<1> HIDE DEF f
<1>3. f \in Surjection(1..n, Task)
  BY <1>2 DEF Surjection
<1>4. ExistsSurjection(1..n, Task)
  BY <1>3 DEF ExistsSurjection
<1> QED BY <1>1, <1>4, FS_NatSurjection

LEMMA GrantedIsFinite ==
  ASSUME NEW q
  PROVE  IsFiniteSet(Granted(q)) /\ Cardinality(Granted(q)) \in Nat
<1>1. Granted(q) \in SUBSET Task
  BY DEF Granted
<1>2. IsFiniteSet(Granted(q))
  BY <1>1, FiniteTasks, FS_Subset
<1> QED BY <1>2, FS_CardinalityType
-----------------------------------------------------------------------------
(* Which waits a step ends *)

\* The difference a step makes to the account of a semaphore: the units that were
\* handed over without having been there.
Balanced(x) == count'[x] + out'[x] = count[x] + out[x]

\* Who is in a wait queue waits for its semaphore.
LEMMA QueuedForUnit ==
  ASSUME SemInv, NEW q \in Queue, NEW t \in ToSet(k.wq[q])
  PROVE  t \in Task /\ WaitsFor(k, t, q) /\ k.pwait[t] = q
<1>1. /\ k.wq[q] \in Seq(Task) /\ WaitQueuesOK(k) /\ WaitFieldsOK(k) /\ SemWaiters
  BY DEF SemInv, IInv, KernelOK, SchedOK, Sched
<1>2. t \in Task
  BY <1>1 DEF ToSet
<1>3. k.pwait[t] = q /\ q # NoQueue
  BY <1>1, <1>2, NoQueueAssumption DEF WaitQueuesOK
<1> QED BY <1>1, <1>2, <1>3 DEF WaitFieldsOK, SemWaiters, WaitsFor

\* Without a change of the scheduler's record no wait ends.
LEMMA NoneGranted ==
  ASSUME k' = k
  PROVE  \A x \in Queue : Cardinality(Granted(x)) = 0
<1>1. \A x \in Queue : Granted(x) = {}
  BY DEF Granted, WaitsFor
<1> QED BY <1>1, FS_EmptySet

\* A signal grants the first waiter its unit, and nobody else.
LEMMA SignalGrants ==
  ASSUME SemInv, NEW q \in Queue, k.wq[q] # << >>, k' = task_wait_complete(k, Head(k.wq[q]))
  PROVE  /\ \A x \in Queue : Cardinality(Granted(x)) = IF x = q THEN 1 ELSE 0
         /\ EndsWait /\ SemWaiters'
<1> DEFINE t == Head(k.wq[q])
<1>1. IInv /\ k \in Sched /\ k.wq[q] \in Seq(Task)
  BY DEF SemInv, IInv, KernelOK, SchedOK, Sched
<1>2. t \in Task /\ id_task[t] /\ Waiting(k.state[t])
  BY <1>1, QueuedWaits, NobodyEnds
<1>3. t \in ToSet(k.wq[q])
  BY <1>1 DEF ToSet
<1>4. WaitsFor(k, t, q) /\ k.pwait[t] = q
  BY <1>3, QueuedForUnit
<1>5. k' = task_wait_complete(k, t)
  OBVIOUS
<1> HIDE DEF t
<1>6. /\ k'.state[t] = (IF Suspended(k.state[t]) THEN "SUSPEND" ELSE "RUNNABLE")
      /\ k'.rc[t] = "NO_ERR" /\ k'.pwait[t] = NoQueue
      /\ \A u \in Task \ {t} : /\ k'.state[u] = k.state[u] /\ k'.pwait[u] = k.pwait[u]
                               /\ k'.reason[u] = k.reason[u]
  BY <1>1, <1>2, <1>5, WaitEffects
<1>7. ~Waiting(k'.state[t])
  BY <1>6 DEF Waiting
<1>8. \A x \in Queue : Granted(x) = IF x = q THEN {t} ELSE {}
  BY <1>2, <1>4, <1>6, <1>7 DEF Granted, WaitsFor
<1>9. \A x \in Queue : Cardinality(Granted(x)) = IF x = q THEN 1 ELSE 0
  BY <1>8, FS_EmptySet, FS_Singleton
<1>10. SemWaiters'
  BY <1>6 DEF SemInv, SemWaiters
<1> QED BY <1>2, <1>5, <1>9, <1>10 DEF EndsWait
-----------------------------------------------------------------------------
(* The calls *)

\* A unit is taken without a wait.
LEMMA TakingBalances ==
  ASSUME SemInv, NEW q \in Queue, count[q] >= 1, count' = [count EXCEPT ![q] = @ - 1],
         Counts(q, 1), k' = k
  PROVE  CountsOK' /\ NoUnitIdle' /\ SemWaiters' /\ \A x \in Queue : Balanced(x)
<1>1. /\ count \in [Queue -> 0..MaxCount] /\ out \in [Queue -> Int] /\ MaxCount \in Nat
  BY SemAssumption DEF SemInv, CountsOK
<1>2. \A x \in Queue : out'[x] = out[x] + IF x = q THEN 1 ELSE 0
  BY <1>1, NoneGranted DEF Counts
<1>3. out' \in [Queue -> Int]
  <2>1. \A x \in Queue : out[x] + Cardinality(Granted(x)) + (IF x = q THEN 1 ELSE 0) \in Int
    BY <1>1, NoneGranted
  <2> QED BY <2>1 DEF Counts
<1>4. count' \in [Queue -> 0..MaxCount]
  BY <1>1
<1>5. NoUnitIdle'
  BY <1>1 DEF SemInv, NoUnitIdle
<1>6. SemWaiters'
  BY DEF SemInv, SemWaiters
<1>7. \A x \in Queue : Balanced(x)
  BY <1>1, <1>2 DEF Balanced
<1> QED BY <1>3, <1>4, <1>5, <1>6, <1>7 DEF CountsOK

\* A signal hands its unit over or counts it.
LEMMA SignalBalances ==
  ASSUME SemInv, NEW q \in Queue, Signal(q), Counts(q, -1)
  PROVE  /\ EndsWait
         /\ CountsOK' /\ NoUnitIdle' /\ SemWaiters' /\ \A x \in Queue : Balanced(x)
<1>1. /\ count \in [Queue -> 0..MaxCount] /\ out \in [Queue -> Int] /\ MaxCount \in Nat
      /\ IInv /\ SemWaiters /\ NoUnitIdle
  BY SemAssumption DEF SemInv, CountsOK
<1>2. CASE k.wq[q] # << >> /\ k' = task_wait_complete(k, Head(k.wq[q])) /\ count' = count
  <2>1. /\ \A x \in Queue : Cardinality(Granted(x)) = IF x = q THEN 1 ELSE 0
        /\ EndsWait /\ SemWaiters'
    BY <1>2, SignalGrants
  <2>2. out' = [x \in Queue |-> out[x] + Cardinality(Granted(x)) + IF x = q THEN -1 ELSE 0]
    BY DEF Counts
  <2>3. \A x \in Queue : out[x] + Cardinality(Granted(x)) + (IF x = q THEN -1 ELSE 0) = out[x]
    BY <1>1, <2>1
  <2>4. out' = out
    BY <1>1, <2>2, <2>3
  <2>5. NoUnitIdle'
    BY <1>1, <1>2, <2>1, EndedWaitJoinsNone DEF NoUnitIdle, NobodyJoins
  <2> QED BY <1>1, <1>2, <2>1, <2>4, <2>5 DEF CountsOK, Balanced
<1>3. CASE /\ k.wq[q] = << >> /\ count[q] < MaxCount
           /\ count' = [count EXCEPT ![q] = @ + 1] /\ k' = k
  <2>1. \A x \in Queue : out'[x] = out[x] + IF x = q THEN -1 ELSE 0
    BY <1>1, <1>3, NoneGranted DEF Counts
  <2>2. out' \in [Queue -> Int]
    <3>1. \A x \in Queue : out[x] + Cardinality(Granted(x)) + (IF x = q THEN -1 ELSE 0) \in Int
      BY <1>1, <1>3, NoneGranted
    <3> QED BY <3>1 DEF Counts
  <2>3. count' \in [Queue -> 0..MaxCount]
    BY <1>1, <1>3
  <2>4. NoUnitIdle' /\ SemWaiters'
    BY <1>1, <1>3 DEF NoUnitIdle, SemWaiters
  <2>5. \A x \in Queue : Balanced(x)
    BY <1>1, <1>3, <2>1 DEF Balanced
  <2> QED BY <1>3, <2>2, <2>3, <2>4, <2>5 DEF CountsOK, EndsWait
<1> QED BY <1>2, <1>3 DEF Signal

\* A caller that finds no unit waits in the queue of the semaphore.
LEMMA WaitingBalances ==
  ASSUME SemInv, NEW q \in Queue, NEW timeout \in Timeouts,
         Calls(curr), MayStop(curr), Switches, UnchangedTasks, count[q] = 0,
         k' = task_curr_to_wait_action(k, curr, q, "SEM", timeout), UNCHANGED << count, out >>
  PROVE  SemInv' /\ \A x \in Queue : Balanced(x)
<1> DEFINE reason == "SEM"
<1>1. /\ IInv /\ k \in Sched /\ curr \in Task /\ CountsOK /\ NoUnitIdle /\ SemWaiters
      /\ reason \in Reasons \ {"NONE"}
      /\ k' = task_curr_to_wait_action(k, curr, q, reason, timeout)
  BY DEF SemInv, IInv, VariablesOK, KernelOK, SchedOK, Reasons
<1>2. reason = "SEM"
  OBVIOUS
<1> HIDE DEF reason
<1>3. IInv' /\ \A x \in Queue \ {q} : k'.wq[x] = k.wq[x]
  BY <1>1, QueueingKeeps
<1>4. /\ k'.reason[curr] = reason
      /\ \A u \in Task \ {curr} : k'.pwait[u] = k.pwait[u] /\ k'.reason[u] = k.reason[u]
  BY <1>1, CurrentWaitEffects
<1>5. SemWaiters'
  BY <1>1, <1>2, <1>4 DEF SemWaiters
<1>6. NoUnitIdle'
  BY <1>1, <1>3 DEF NoUnitIdle
<1> QED BY <1>1, <1>3, <1>5, <1>6 DEF SemInv, CountsOK, Balanced

LEMMA AcquireKeeps ==
  ASSUME SemInv, NEW q \in Queue, NEW timeout \in Timeouts, kern_sem_acquire(q, timeout)
  PROVE  SemInv' /\ \A x \in Queue : Balanced(x)
<1>1. CASE /\ count[q] >= 1 /\ count' = [count EXCEPT ![q] = @ - 1]
           /\ Counts(q, 1) /\ k' = k /\ Returns
  <2>1. IInv /\ EndsWait /\ Calls(curr) /\ UnchangedTasks
    BY <1>1 DEF SemInv, EndsWait, kern_sem_acquire
  <2>2. IInv'
    BY <1>1, <2>1, EndingCallKeeps
  <2>3. CountsOK' /\ NoUnitIdle' /\ SemWaiters' /\ \A x \in Queue : Balanced(x)
    BY <1>1, TakingBalances
  <2> QED BY <2>2, <2>3 DEF SemInv
<1>2. CASE /\ count[q] = 0 /\ MayStop(curr)
           /\ k' = task_curr_to_wait_action(k, curr, q, "SEM", timeout)
           /\ Switches /\ UNCHANGED << count, out >>
  <2>1. Calls(curr) /\ UnchangedTasks
    BY DEF kern_sem_acquire
  <2> QED BY <1>2, <2>1, WaitingBalances
<1> QED BY <1>1, <1>2 DEF kern_sem_acquire

LEMMA AcquirePollingKeeps ==
  ASSUME SemInv, NEW q \in Queue, kern_sem_acquire_polling(q) \/ kern_sem_acquire_ipolling(q)
  PROVE  SemInv' /\ \A x \in Queue : Balanced(x)
<1>1. /\ IInv /\ EndsWait /\ k' = k /\ request \in BOOLEAN
      /\ count[q] >= 1 /\ count' = [count EXCEPT ![q] = @ - 1] /\ Counts(q, 1)
      /\ \/ Calls(curr) /\ Returns /\ UnchangedTasks
         \/ InterruptExit /\ request' = request
  BY DEF SemInv, IInv, VariablesOK, EndsWait, kern_sem_acquire_polling, kern_sem_acquire_ipolling
<1>2. IInv'
  <2>1. CASE Calls(curr) /\ Returns /\ UnchangedTasks
    BY <1>1, <2>1, EndingCallKeeps
  <2>2. CASE InterruptExit /\ request' = request
    <3>1. request' \in BOOLEAN /\ (request => request')
      BY <1>1, <2>2
    <3> QED BY <1>1, <2>2, <3>1, EndingHandlerKeeps
  <2> QED BY <1>1, <2>1, <2>2
<1>3. CountsOK' /\ NoUnitIdle' /\ SemWaiters' /\ \A x \in Queue : Balanced(x)
  BY <1>1, TakingBalances
<1> QED BY <1>2, <1>3 DEF SemInv

LEMMA SignalKeeps ==
  ASSUME SemInv, NEW q \in Queue, kern_sem_signal(q) \/ kern_sem_isignal(q)
  PROVE  SemInv' /\ \A x \in Queue : Balanced(x)
<1>1. /\ IInv /\ Signal(q) /\ Counts(q, -1) /\ request \in BOOLEAN
      /\ \/ Calls(curr) /\ (Returns \/ Switches) /\ UnchangedTasks
         \/ InterruptExit /\ request' = request
  BY DEF SemInv, IInv, VariablesOK, kern_sem_signal, kern_sem_isignal
<1>2. /\ EndsWait
      /\ CountsOK' /\ NoUnitIdle' /\ SemWaiters' /\ \A x \in Queue : Balanced(x)
  BY <1>1, SignalBalances
<1>3. IInv'
  <2>1. CASE Calls(curr) /\ (Returns \/ Switches) /\ UnchangedTasks
    BY <1>1, <1>2, <2>1, EndingCallKeeps
  <2>2. CASE InterruptExit /\ request' = request
    <3>1. request' \in BOOLEAN /\ (request => request')
      BY <1>1, <2>2
    <3> QED BY <1>1, <1>2, <2>2, <3>1, EndingHandlerKeeps
  <2> QED BY <1>1, <2>1, <2>2
<1> QED BY <1>2, <1>3 DEF SemInv
-----------------------------------------------------------------------------
(* The steps that leave the semaphores alone *)

LEMMA SameWaitsKeep ==
  ASSUME SemInv, IInv', SameWaits(k, k'), SemUnchanged
  PROVE  SemInv' /\ \A x \in Queue : Balanced(x)
BY DEF SemInv, CountsOK, NoUnitIdle, SemWaiters, SameWaits, SemUnchanged, Balanced

LEMMA CreationKeepsUnits ==
  ASSUME SemInv, CreatesNext, SemUnchanged
  PROVE  SemInv' /\ SameWaits(k, k') /\ \A x \in Queue : Balanced(x)
<1>1. IInv
  BY DEF SemInv
<1>2. PICK i \in DOMAIN Order : kern_task_create(Order[i], StartPriority, TRUE)
  BY DEF CreatesNext
<1>3. Order[i] \in Task /\ StartPriority \in Priorities
  BY <1>2, StartAssumption
<1>4. IInv'
  BY <1>1, <1>2, <1>3, CreateKeeps
<1>5. SameWaits(k, k')
  BY <1>1, <1>2, <1>3, CreationLeavesWaits
<1> QED BY <1>4, <1>5, SameWaitsKeep

LEMMA SuspensionKeepsUnits ==
  ASSUME SemInv, NEW t \in Suspendable, kern_task_suspend(t) \/ kern_task_resume(t),
         SemUnchanged
  PROVE  SemInv' /\ SameWaits(k, k') /\ \A x \in Queue : Balanced(x)
<1>1. IInv /\ t \in Task
  BY TasksAssumption DEF SemInv
<1>2. IInv'
  BY <1>1, SuspendKeeps, ResumeKeeps
<1>3. SameWaits(k, k')
  BY <1>1, SuspensionLeavesWaits
<1> QED BY <1>2, <1>3, SameWaitsKeep

LEMMA SwitchingKeepsUnits ==
  ASSUME SemInv, TestNext \/ SwitchContext \/ PendSV, SemUnchanged
  PROVE  SemInv' /\ SameWaits(k, k') /\ \A x \in Queue : Balanced(x)
<1>1. IInv /\ k' = k
  BY DEF SemInv, TestNext, SwitchContext, PendSV
<1>2. IInv'
  BY <1>1, TestNextKeeps, SwitchContextKeeps, PendSVKeeps
<1>3. SameWaits(k, k')
  BY <1>1 DEF SameWaits
<1> QED BY <1>2, <1>3, SameWaitsKeep
-----------------------------------------------------------------------------
(***************************************************************************)
(* The tick. The scan of a wait queue ends waits and keeps everything else *)
(* in order, whatever it finds of the times and of the count.              *)
(***************************************************************************)
\* One task of the scan, from the record and fCond it comes to it with.
SemScanStep(x, t, q, ms) ==
  LET r == CountedDown(x.s, t, ms)
      c == x.fCond \/ r.tick[t] = 0 \/ count[q] > 0
  IN  [s |-> IF c THEN task_wait_complete(r, t) ELSE r, fCond |-> c]

SemScanUpTo(f, m, s, w, q, ms) ==
  f = [i \in 0..m |-> IF i = 0 THEN [s |-> s, fCond |-> FALSE]
                      ELSE SemScanStep(f[i-1], w[i], q, ms)]

LEMMA SemScanExists ==
  ASSUME NEW s, NEW ms, NEW q, NEW w, Len(w) \in Nat
  PROVE  \E f : SemScanUpTo(f, Len(w), s, w, q, ms)
<1> DEFINE first == [s |-> s, fCond |-> FALSE]
           G == {m \in 0..Len(w) : \E f : SemScanUpTo(f, m, s, w, q, ms)}
<1>1. 0 \in G
  <2>1. SemScanUpTo([i \in 0..0 |-> first], 0, s, w, q, ms)
    BY DEF SemScanUpTo
  <2> QED BY <2>1
<1>2. ASSUME NEW m \in 1..Len(w), m-1 \in G
      PROVE  m \in G
  <2>1. PICK f : SemScanUpTo(f, m-1, s, w, q, ms)
    BY <1>2
  <2> DEFINE g == [i \in 0..m |-> IF i = m THEN SemScanStep(f[m-1], w[m], q, ms) ELSE f[i]]
  <2>2. ASSUME NEW i \in 0..m
        PROVE  g[i] = IF i = 0 THEN first ELSE SemScanStep(g[i-1], w[i], q, ms)
    <3>1. CASE i = m
      <4>1. m-1 \in 0..m /\ m-1 # m /\ m \in 0..m /\ m # 0
        OBVIOUS
      <4>2. g[m-1] = f[m-1] /\ g[m] = SemScanStep(f[m-1], w[m], q, ms)
        BY <4>1
      <4> QED BY <3>1, <4>1, <4>2
    <3>2. CASE i # m
      <4>1. i \in 0..(m-1) /\ (i # 0 => i-1 \in 0..(m-1))
        BY <3>2
      <4>2. g[i] = f[i] /\ (i # 0 => g[i-1] = f[i-1])
        BY <4>1
      <4>3. f[i] = IF i = 0 THEN first ELSE SemScanStep(f[i-1], w[i], q, ms)
        BY <2>1, <4>1 DEF SemScanUpTo
      <4> QED BY <4>2, <4>3
    <3> QED BY <3>1, <3>2
  <2>3. SemScanUpTo(g, m, s, w, q, ms)
    BY <2>2 DEF SemScanUpTo
  <2> QED BY <2>3
<1> HIDE DEF G
<1>3. Len(w) \in G
  BY <1>1, <1>2, UpTo
<1> QED BY <1>3 DEF G

\* The end of one step: the task's wait has ended, or goes on for a millisecond less.
LEMMA SemScanStepKeeps ==
  ASSUME NEW x, SchedOK(x.s), NextReady(x.s), NEW t \in Task, Waiting(x.s.state[t]),
         NEW q, NEW ms \in BOOLEAN, NEW r, r = SemScanStep(x, t, q, ms).s
  PROVE  /\ SchedOK(r) /\ NextReady(r) /\ OnlyEndsWaits(x.s, r)
         /\ \A u \in Task \ {t} : r.pwait[u] = x.s.pwait[u]
<1> DEFINE s == x.s
           m == CountedDown(s, t, ms)
           c == x.fCond \/ m.tick[t] = 0 \/ count[q] > 0
<1>1. r = IF c THEN task_wait_complete(m, t) ELSE m
  BY DEF SemScanStep
<1>2. SchedOK(s) /\ NextReady(s) /\ Waiting(s.state[t]) /\ m = CountedDown(s, t, ms)
  OBVIOUS
<1>3. c \/ m.tick[t] # 0
  OBVIOUS
<1> HIDE DEF c, s
<1>4. CASE c
  <2>1. r = task_wait_complete(CountedDown(s, t, ms), t)
    BY <1>1, <1>4
  <2>2. /\ SchedOK(r) /\ NextReady(r) /\ OnlyEndsWaits(s, r)
        /\ \A u \in Task \ {t} : r.pwait[u] = s.pwait[u]
    BY <1>2, <2>1, CountedWaitEnds
  <2> QED BY <2>2 DEF s
<1> HIDE DEF m
<1>5. CASE ~c
  <2>1. r = m /\ m.tick[t] # 0
    BY <1>1, <1>3, <1>5
  <2>2. /\ m.state = s.state /\ m.pwait = s.pwait /\ m.reason = s.reason /\ m.wq = s.wq
        /\ NextReady(m) /\ (m.tick[t] # 0 => SchedOK(m))
    BY <1>2, CountDownKeeps
  <2>3. OnlyEndsWaits(s, m)
    BY <2>2 DEF OnlyEndsWaits, NobodyJoins
  <2> QED BY <2>1, <2>2, <2>3 DEF s
<1> QED BY <1>4, <1>5

LEMMA SemScanKeeps ==
  ASSUME NEW s, SchedOK(s), NextReady(s), NEW q \in Queue, NEW ms \in BOOLEAN,
         NEW r, r = scan_sem_state(s, q, ms)
  PROVE  SchedOK(r) /\ NextReady(r) /\ OnlyEndsWaits(s, r)
<1> DEFINE w == s.wq[q]
           f == CHOOSE g : SemScanUpTo(g, Len(w), s, w, q, ms)
<1>1. /\ w \in Seq(Task) /\ Len(w) \in Nat /\ NoDuplicates(w) /\ DOMAIN w = 1..Len(w)
      /\ \A i \in 1..Len(w) : s.pwait[w[i]] = q
  <2>1. w \in Seq(Task) /\ WaitQueuesOK(s)
    BY DEF SchedOK, Sched
  <2> QED BY <2>1 DEF WaitQueuesOK, ToSet
<1>2. SemScanUpTo(f, Len(w), s, w, q, ms)
  <2>1. \E g : SemScanUpTo(g, Len(w), s, w, q, ms)
    BY <1>1, SemScanExists
  <2> QED BY <2>1
<1>3. r = f[Len(w)].s
  BY DEF scan_sem_state, SemScanUpTo, SemScanStep, CountedDown
<1> HIDE DEF f
<1>4. f[0].s = s /\ \A i \in 1..Len(w) : f[i] = SemScanStep(f[i-1], w[i], q, ms)
  <2>1. \A i \in 0..Len(w) : f[i] = IF i = 0 THEN [s |-> s, fCond |-> FALSE]
                                    ELSE SemScanStep(f[i-1], w[i], q, ms)
    BY <1>2 DEF SemScanUpTo
  <2>2. 0 \in 0..Len(w) /\ \A i \in 1..Len(w) : i \in 0..Len(w) /\ i # 0
    BY <1>1
  <2> HIDE DEF w
  <2> QED BY <2>1, <2>2
<1> HIDE DEF w
<1> DEFINE InOrder(x) == SchedOK(x) /\ NextReady(x) /\ OnlyEndsWaits(s, x)
           StillWait(i) == \A j \in i+1..Len(w) : f[i].s.pwait[w[j]] = q
           G == {i \in 0..Len(w) : InOrder(f[i].s) /\ StillWait(i)}
<1>5. 0 \in G
  BY <1>1, <1>4, NoWaitEnds
<1>6. ASSUME NEW i \in 1..Len(w), i-1 \in G
      PROVE  i \in G
  <2> DEFINE x == f[i-1]
             t == w[i]
  <2>1. InOrder(x.s) /\ t \in Task /\ f[i] = SemScanStep(x, t, q, ms)
    BY <1>1, <1>4, <1>6
  <2>2. x.s.pwait[t] = q
    <3>1. StillWait(i-1) /\ i \in (i-1)+1..Len(w)
      BY <1>6
    <3> QED BY <3>1
  <2>3. Waiting(x.s.state[t])
    BY <2>1, <2>2, NoQueueAssumption DEF SchedOK, WaitFieldsOK
  <2>4. /\ InOrder(f[i].s)
        /\ \A u \in Task \ {t} : f[i].s.pwait[u] = x.s.pwait[u]
    <3>1. SchedOK(x.s) /\ NextReady(x.s) /\ OnlyEndsWaits(s, x.s)
      BY <2>1
    <3>2. f[i].s = SemScanStep(x, t, q, ms).s
      BY <2>1
    <3> HIDE DEF x, t
    <3>3. /\ SchedOK(f[i].s) /\ NextReady(f[i].s) /\ OnlyEndsWaits(x.s, f[i].s)
          /\ \A u \in Task \ {t} : f[i].s.pwait[u] = x.s.pwait[u]
      BY <2>1, <2>3, <3>1, <3>2, SemScanStepKeeps
    <3> QED BY <3>1, <3>3, EndsWaitsOnAndOn
  <2>5. StillWait(i)
    <3> SUFFICES ASSUME NEW j \in i+1..Len(w)
                 PROVE  f[i].s.pwait[w[j]] = q
      OBVIOUS
    <3>1. j \in 1..Len(w) /\ j # i /\ j \in (i-1)+1..Len(w)
      BY <1>1
    <3>2. w[j] \in Task \ {t}
      BY <1>1, <3>1 DEF NoDuplicates
    <3>3. x.s.pwait[w[j]] = q
      BY <1>6, <3>1
    <3> QED BY <2>4, <3>2, <3>3
  <2> HIDE DEF InOrder, StillWait
  <2> QED BY <2>4, <2>5
<1> HIDE DEF G
<1>7. Len(w) \in G
  BY <1>1, <1>5, <1>6, UpTo
<1> QED BY <1>3, <1>7 DEF G

\* What one task of the create list makes the tick do.
LEMMA ScanOfKeeps ==
  ASSUME NEW s, SchedOK(s), NextReady(s), NEW t \in Nodes, NEW ms \in BOOLEAN,
         NEW r, r = ScanOf(s, t, ms)
  PROVE  SchedOK(r) /\ NextReady(r) /\ OnlyEndsWaits(s, r)
<1>1. CASE t # CreateList /\ s.pwait[t] # NoQueue /\ s.reason[t] = "SEM"
  <2> DEFINE q == s.pwait[t]
  <2>1. q \in Queue
    BY <1>1 DEF SchedOK, Sched, Nodes
  <2>2. r = scan_sem_state(s, q, ms)
    BY <1>1 DEF ScanOf
  <2> HIDE DEF q
  <2> QED BY <2>1, <2>2, SemScanKeeps
<1>2. CASE ~(t # CreateList /\ s.pwait[t] # NoQueue /\ s.reason[t] = "SEM")
  BY <1>2, NoWaitEnds DEF ScanOf
<1> QED BY <1>1, <1>2

LEMMA ScanCreatedKeeps ==
  ASSUME IInv, NEW ms \in BOOLEAN, NEW r, r = ScanCreated(k, ms)
  PROVE  SchedOK(r) /\ NextReady(r) /\ OnlyEndsWaits(k, r)
<1> DEFINE second == created.next[created.next[CreateList]]
           third  == created.next[second]
           s      == ScanOf(k, second, ms)
<1>1. SchedOK(k) /\ NextReady(k) /\ second \in Nodes /\ third \in Nodes
  BY DEF IInv, VariablesOK, KernelOK, Links, Nodes
<1>2. r = IF second = CreateList THEN k ELSE ScanOf(s, third, ms)
  BY DEF ScanCreated
<1> HIDE DEF second, third
<1>3. SchedOK(s) /\ NextReady(s) /\ OnlyEndsWaits(k, s)
  BY <1>1, ScanOfKeeps
<1> HIDE DEF s
<1>4. CASE r = k
  BY <1>1, <1>4, NoWaitEnds
<1>5. CASE r = ScanOf(s, third, ms)
  <2>1. SchedOK(r) /\ NextReady(r) /\ OnlyEndsWaits(s, r)
    BY <1>1, <1>3, <1>5, ScanOfKeeps
  <2> QED BY <1>3, <2>1, EndsWaitsOnAndOn
<1> QED BY <1>2, <1>4, <1>5

\* A tick may end waits that no signal has answered: the account then grows.
LEMMA SemTickKeeps ==
  ASSUME SemInv, SemSysTick
  PROVE  /\ SemInv'
         /\ \A x \in Queue : count'[x] + out'[x] = count[x] + out[x] + Cardinality(Granted(x))
<1> DEFINE ms == us_count' = 0
           m  == ScanCreated(k, ms)
           s  == ScanTimeouts(m, ms)
<1>1. /\ IInv /\ CountsOK /\ NoUnitIdle /\ SemWaiters /\ ms \in BOOLEAN
      /\ Tick /\ k' = RotateUnless(s, k.next) /\ pend' = TRUE /\ request' = TRUE
      /\ UNCHANGED << created, id_task, curr, cpu, sp, count >> /\ Counts(NoQueue, 0)
  BY DEF SemInv, SemSysTick
<1> HIDE DEF ms
<1>2. SchedOK(m) /\ NextReady(m) /\ OnlyEndsWaits(k, m)
  BY <1>1, ScanCreatedKeeps
<1> HIDE DEF m
<1>3. SchedOK(s) /\ NextReady(s) /\ OnlyEndsWaits(m, s)
  BY <1>1, <1>2, ScanKeeps
<1> HIDE DEF s
<1>4. OnlyEndsWaits(k, s)
  BY <1>2, <1>3, EndsWaitsOnAndOn
<1>5. IInv' /\ OnlyEndsWaits(k, k')
  BY <1>1, <1>3, <1>4, TickKeeps
<1>6. NoUnitIdle' /\ SemWaiters'
  BY <1>1, <1>5 DEF NoUnitIdle, SemWaiters, OnlyEndsWaits, NobodyJoins
<1>7. out' = [x \in Queue |-> out[x] + Cardinality(Granted(x)) + 0]
  BY <1>1, NoQueueAssumption DEF Counts
<1>8. \A x \in Queue : out[x] \in Int /\ count[x] \in Int /\ Cardinality(Granted(x)) \in Int
  BY <1>1, GrantedIsFinite, SemAssumption DEF CountsOK
<1>9. CountsOK'
  BY <1>1, <1>7, <1>8 DEF CountsOK
<1>10. \A x \in Queue : count'[x] + out'[x] = count[x] + out[x] + Cardinality(Granted(x))
  BY <1>1, <1>7, <1>8
<1> QED BY <1>5, <1>6, <1>9, <1>10 DEF SemInv
-----------------------------------------------------------------------------
(* The invariant *)

LEMMA SemInitHolds == SemInit => SemInv
<1> SUFFICES ASSUME SemInit PROVE SemInv
  OBVIOUS
<1>1. IInv
  BY InitHolds DEF SemInit
<1>2. /\ k.wq = [q \in Queue |-> << >>]
      /\ \A t \in Task : k.pwait[t] = NoQueue
  BY NobodyWaitsAtFirst DEF SemInit
<1>3. NoUnitIdle /\ SemWaiters
  BY <1>2 DEF NoUnitIdle, SemWaiters
<1>4. CountsOK
  BY SemAssumption DEF SemInit, CountsOK
<1> QED BY <1>1, <1>3, <1>4 DEF SemInv

\* The calls and the steps of the kernel but the tick, together.
LEMMA SemNextKeeps ==
  ASSUME SemInv, SemNext
  PROVE  /\ SemInv'
         /\ SemSysTick \/ \A x \in Queue : Balanced(x)
<1>1. CASE \E q \in Queue, timeout \in Timeouts : kern_sem_acquire(q, timeout)
  BY <1>1, AcquireKeeps
<1>2. CASE \E q \in Queue : kern_sem_acquire_polling(q) \/ kern_sem_acquire_ipolling(q)
  BY <1>2, AcquirePollingKeeps
<1>3. CASE \E q \in Queue : kern_sem_signal(q) \/ kern_sem_isignal(q)
  BY <1>3, SignalKeeps
<1>4. CASE CreatesNext /\ SemUnchanged
  BY <1>4, CreationKeepsUnits
<1>5. CASE \E t \in Suspendable : (kern_task_suspend(t) \/ kern_task_resume(t)) /\ SemUnchanged
  BY <1>5, SuspensionKeepsUnits
<1>6. CASE (TestNext \/ SwitchContext \/ PendSV) /\ SemUnchanged
  BY <1>6, SwitchingKeepsUnits
<1>7. CASE SemSysTick
  BY <1>7, SemTickKeeps
<1> QED BY <1>1, <1>2, <1>3, <1>4, <1>5, <1>6, <1>7 DEF SemNext

LEMMA SemStutterKeeps ==
  ASSUME SemInv, UNCHANGED semvars
  PROVE  SemInv' /\ SameWaits(k, k') /\ \A x \in Queue : Balanced(x)
<1>1. IInv' /\ k' = k /\ SemUnchanged
  BY StutterKeeps DEF SemInv, semvars, vars, SemUnchanged
<1>2. SameWaits(k, k')
  BY <1>1 DEF SameWaits
<1> QED BY <1>1, <1>2, SameWaitsKeep

LEMMA SemInvariantHolds == SemSpec => []SemInv
<1>1. SemInit => SemInv
  BY SemInitHolds
<1>2. SemInv /\ [SemNext]_semvars => SemInv'
  BY SemNextKeeps, SemStutterKeeps
<1> QED BY <1>1, <1>2, PTL DEF SemSpec

\* The variables of the semaphores keep their types: no count exceeds max_val.
THEOREM SemTypeCorrect == SemSpec => []SemTypeOK
<1>1. SemInv => SemTypeOK
  BY SemInvImplies
<1> QED BY <1>1, SemInvariantHolds, PTL

\* Whatever tasks and handlers acquire and signal, with whatever timeouts and
\* suspensions: no unit lies in a semaphore that a task waits for. The wakeup that a
\* signal owes to a waiter is never lost, not even by the tick's own scan.
THEOREM NoUnitEverIdle == SemSpec => []NoUnitIdle
<1>1. SemInv => NoUnitIdle
  BY SemInvImplies
<1> QED BY <1>1, SemInvariantHolds, PTL

\* The lists match the TCBs in a system with semaphores, too: the tick's walk over the
\* create list, which ends waits in a queue that it is walking, breaks no list.
THEOREM SemListsMatch == SemSpec => []ListsMatchStates
<1>1. SemInv => ListsMatchStates
  BY IInvImplies DEF SemInv
<1> QED BY <1>1, SemInvariantHolds, PTL
-----------------------------------------------------------------------------
(***************************************************************************)
(* The account of the units. A step of the tasks and of the interrupts     *)
(* keeps count + out. A tick that ends a wait does not: it may report      *)
(* ERR_NO_ERR for a unit that nobody gave (the run timeout). So no unit is *)
(* lost in any case, and none is invented if nobody's time is over.        *)
(***************************************************************************)
UnitsInvented(q) == SemSysTick /\ count'[q] + out'[q] > count[q] + out[q]

OnlyTicksInvent == [][\A q \in Queue : Balanced(q) \/ UnitsInvented(q)]_semvars

LEMMA NoUnitGoesAstray ==
  ASSUME SemInv, [SemNext]_semvars, NEW q \in Queue
  PROVE  Balanced(q) \/ UnitsInvented(q)
<1>1. count[q] + out[q] \in Int /\ Cardinality(Granted(q)) \in Nat
  BY GrantedIsFinite DEF SemInv, CountsOK
<1>2. CASE SemSysTick
  <2>1. count'[q] + out'[q] = count[q] + out[q] + Cardinality(Granted(q))
    BY <1>2, SemTickKeeps
  <2> QED BY <1>1, <1>2, <2>1 DEF Balanced, UnitsInvented
<1>3. CASE ~SemSysTick
  BY <1>3, SemNextKeeps, SemStutterKeeps
<1> QED BY <1>2, <1>3

\* Whatever the timeouts: no step loses a unit. An acquisition, a signal, a creation, a
\* suspension or a switch leaves the account of units and return codes as it was; a tick,
\* which reports success to tasks whose waits it ends without a unit, can only raise it.
THEOREM UnitsNeverLost == SemSpec => OnlyTicksInvent
<1>1. SemInv /\ [SemNext]_semvars => [\A q \in Queue : Balanced(q) \/ UnitsInvented(q)]_semvars
  BY NoUnitGoesAstray
<1> QED BY <1>1, SemInvariantHolds, PTL DEF SemSpec, OnlyTicksInvent

\* Nobody's time is running.
NoTimeout == \A t \in Task : k.tick[t] = Infinite

\* Then the scan of a queue without a unit to hand out changes nothing.
LEMMA SemScanIdles ==
  ASSUME NEW s \in Sched, \A t \in Task : s.tick[t] = Infinite, NEW q \in Queue, count[q] = 0,
         NEW ms \in BOOLEAN
  PROVE  scan_sem_state(s, q, ms) = s
<1> DEFINE w == s.wq[q]
           first == [s |-> s, fCond |-> FALSE]
           f == CHOOSE g : SemScanUpTo(g, Len(w), s, w, q, ms)
<1>1. w \in Seq(Task) /\ Len(w) \in Nat /\ DOMAIN w = 1..Len(w)
  BY DEF Sched
<1>2. SemScanUpTo(f, Len(w), s, w, q, ms)
  <2>1. \E g : SemScanUpTo(g, Len(w), s, w, q, ms)
    BY <1>1, SemScanExists
  <2> QED BY <2>1
<1>3. scan_sem_state(s, q, ms) = f[Len(w)].s
  BY DEF scan_sem_state, SemScanUpTo, SemScanStep, CountedDown
<1> HIDE DEF f
<1>4. f[0] = first /\ \A i \in 1..Len(w) : f[i] = SemScanStep(f[i-1], w[i], q, ms)
  <2>1. \A i \in 0..Len(w) : f[i] = IF i = 0 THEN first
                                    ELSE SemScanStep(f[i-1], w[i], q, ms)
    BY <1>2 DEF SemScanUpTo
  <2>2. 0 \in 0..Len(w) /\ \A i \in 1..Len(w) : i \in 0..Len(w) /\ i # 0
    BY <1>1
  <2> HIDE DEF w, first
  <2> QED BY <2>1, <2>2
<1> HIDE DEF w
<1> DEFINE G == {i \in 0..Len(w) : f[i] = first}
<1>5. 0 \in G
  BY <1>1, <1>4
<1>6. ASSUME NEW i \in 1..Len(w), i-1 \in G
      PROVE  i \in G
  <2> DEFINE t == w[i]
             m == CountedDown(s, t, ms)
  <2>1. t \in Task /\ f[i] = SemScanStep(first, t, q, ms)
    BY <1>1, <1>4, <1>6
  <2> HIDE DEF t
  <2>2. s.tick[t] = -1 /\ s.tick \in [Task -> Nat \cup {Infinite}]
    BY <2>1 DEF Infinite, Sched
  <2>3. m = s
    <3>1. [s.tick EXCEPT ![t] = s.tick[t]] = s.tick
      BY <2>1, <2>2
    <3>2. m = [s EXCEPT !.tick = [s.tick EXCEPT ![t] = s.tick[t]]]
      BY <2>2 DEF CountedDown
    <3> QED BY <3>1, <3>2 DEF Sched
  <2> HIDE DEF m
  <2>4. m.tick[t] # 0
    BY <2>2, <2>3
  <2> DEFINE c == FALSE \/ m.tick[t] = 0 \/ count[q] > 0
  <2>5. c = FALSE
    BY <2>4
  <2>6. SemScanStep(first, t, q, ms) = [s |-> IF c THEN task_wait_complete(m, t) ELSE m,
                                         fCond |-> c]
    BY DEF SemScanStep, m
  <2> HIDE DEF c
  <2>7. (IF c THEN task_wait_complete(m, t) ELSE m) = s
    BY <2>3, <2>5
  <2>8. SemScanStep(first, t, q, ms) = first
    BY <2>5, <2>6, <2>7, Zenon
  <2> QED BY <2>1, <2>8
<1> HIDE DEF G
<1>7. Len(w) \in G
  BY <1>1, <1>5, <1>6, UpTo
<1> QED BY <1>3, <1>7 DEF G

\* Nor does the whole tick: it ends no wait.
LEMMA SemTickIdles ==
  ASSUME SemInv, NoTimeout, SemSysTick
  PROVE  NoTimeout' /\ \A x \in Queue : Balanced(x)
<1> DEFINE ms == us_count' = 0
<1>1. /\ k \in Sched /\ SchedOK(k) /\ NextReady(k) /\ ms \in BOOLEAN
      /\ NoUnitIdle /\ WaitQueuesOK(k) /\ TimersOK(k) /\ CountsOK
      /\ k' = RotateUnless(ScanTimeouts(ScanCreated(k, ms), ms), k.next)
  BY DEF SemInv, IInv, KernelOK, SchedOK, SemSysTick
<1>2. \A t \in Nodes : ScanOf(k, t, ms) = k
  <2> SUFFICES ASSUME NEW t \in Nodes, t # CreateList, k.pwait[t] # NoQueue
               PROVE  scan_sem_state(k, k.pwait[t], ms) = k
    BY DEF ScanOf
  <2> DEFINE q == k.pwait[t]
  <2>1. t \in Task /\ q \in Queue
    BY <1>1 DEF Nodes, Sched
  <2>2. k.wq[q] # << >>
    BY <1>1, <2>1 DEF WaitQueuesOK, ToSet
  <2>3. count[q] = 0
    BY <1>1, <2>1, <2>2, SemAssumption DEF NoUnitIdle, CountsOK
  <2> HIDE DEF ms, q
  <2>4. scan_sem_state(k, q, ms) = k
    BY <1>1, <2>1, <2>3, SemScanIdles DEF NoTimeout
  <2> QED BY <2>4 DEF q
<1>3. ScanCreated(k, ms) = k
  <2>1. /\ created.next[created.next[CreateList]] \in Nodes
        /\ created.next[created.next[created.next[CreateList]]] \in Nodes
    BY DEF SemInv, IInv, VariablesOK, Links, Nodes
  <2> QED BY <1>2, <2>1 DEF ScanCreated
<1> DEFINE s == ScanTimeouts(k, ms)
<1> HIDE DEF ms
<1>4. k.timers = << >>
  <2> SUFFICES ASSUME k.timers # << >> PROVE FALSE
    OBVIOUS
  <2>1. k.timers \in Seq(Task) /\ 1 \in DOMAIN k.timers
    BY <1>1 DEF Sched
  <2>2. k.timers[1] \in Task /\ k.timers[1] \in ToSet(k.timers)
    BY <2>1 DEF ToSet
  <2> QED BY <1>1, <2>2 DEF TimersOK, NoTimeout
<1>5. s = k
  <2> DEFINE f == CHOOSE g : ScanUpTo(g, Len(k.timers), k, k.timers, ms)
  <2>1. ScanUpTo(f, Len(k.timers), k, k.timers, ms)
    <3>1. Len(k.timers) \in Nat
      BY <1>4
    <3>2. \E g : ScanUpTo(g, Len(k.timers), k, k.timers, ms)
      BY <3>1, ScanExists
    <3> QED BY <3>2
  <2>2. s = f[Len(k.timers)]
    BY DEF ScanTimeouts, ScanUpTo
  <2> HIDE DEF f
  <2>3. Len(k.timers) = 0 /\ 0 \in 0..0
    BY <1>4
  <2>4. f[0] = k
    BY <2>1, <2>3 DEF ScanUpTo
  <2> QED BY <2>2, <2>3, <2>4
<1>6. k'.state = k.state /\ k'.tick = k.tick
  BY <1>1, <1>3, <1>5, RotateKeeps
<1>7. NoTimeout'
  BY <1>6 DEF NoTimeout
<1>8. \A x \in Queue : Cardinality(Granted(x)) = 0
  <2>1. \A x \in Queue : Granted(x) = {}
    BY <1>6 DEF Granted, WaitsFor
  <2> QED BY <2>1, FS_EmptySet
<1>9. \A x \in Queue : count'[x] + out'[x] = count[x] + out[x] + Cardinality(Granted(x))
  BY SemTickKeeps
<1>10. \A x \in Queue : count[x] \in Int /\ out[x] \in Int
  BY <1>1, SemAssumption DEF CountsOK
<1> QED BY <1>7, <1>8, <1>9, <1>10 DEF Balanced

\* Nobody's time runs if no call has a timeout.
LEMMA NoTimeoutKept ==
  ASSUME Timeouts = {Infinite}, SemInv, NoTimeout, SemNext
  PROVE  NoTimeout'
<1>1. k \in Sched /\ IInv /\ curr \in Task
  BY DEF SemInv, IInv, VariablesOK, KernelOK, SchedOK
<1>2. CASE k' = k
  BY <1>2 DEF NoTimeout
<1>3. CASE \E q \in Queue, timeout \in Timeouts :
             k' = task_curr_to_wait_action(k, curr, q, "SEM", timeout)
  <2> DEFINE reason == "SEM"
  <2>1. PICK q \in Queue, timeout \in Timeouts :
          k' = task_curr_to_wait_action(k, curr, q, reason, timeout)
    BY <1>3
  <2> HIDE DEF reason
  <2>2. k'.tick[curr] = timeout /\ \A u \in Task \ {curr} : k'.tick[u] = k.tick[u]
    BY <1>1, <2>1, CurrentWaitEffects
  <2> QED BY <2>1, <2>2 DEF NoTimeout
<1>4. CASE \E q \in Queue : k.wq[q] # << >> /\ k' = task_wait_complete(k, Head(k.wq[q]))
  <2>1. PICK q \in Queue : k.wq[q] # << >> /\ k' = task_wait_complete(k, Head(k.wq[q]))
    BY <1>4
  <2> DEFINE t == Head(k.wq[q])
  <2>2. t \in Task
    BY <1>1, <2>1, QueuedWaits, NobodyEnds
  <2>3. k' = task_wait_complete(k, t)
    BY <2>1
  <2> HIDE DEF t
  <2>4. k'.tick[t] = Infinite /\ \A u \in Task \ {t} : k'.tick[u] = k.tick[u]
    BY <1>1, <2>2, <2>3, WaitEffects
  <2> QED BY <2>4 DEF NoTimeout
<1>5. CASE SameWaits(k, k')
  BY <1>5 DEF SameWaits, NoTimeout
<1>6. CASE SemSysTick
  BY <1>6, SemTickIdles
<1>7. CASE \E q \in Queue, timeout \in Timeouts : kern_sem_acquire(q, timeout)
  BY <1>2, <1>3, <1>7 DEF kern_sem_acquire
<1>8. CASE \E q \in Queue : \/ kern_sem_acquire_polling(q) \/ kern_sem_acquire_ipolling(q)
                            \/ kern_sem_signal(q) \/ kern_sem_isignal(q)
  BY <1>2, <1>4, <1>8 DEF kern_sem_acquire_polling, kern_sem_acquire_ipolling,
     kern_sem_signal, kern_sem_isignal, Signal
<1>9. CASE \/ CreatesNext /\ SemUnchanged
           \/ \E t \in Suspendable : (kern_task_suspend(t) \/ kern_task_resume(t)) /\ SemUnchanged
           \/ (TestNext \/ SwitchContext \/ PendSV) /\ SemUnchanged
  BY <1>5, <1>9, CreationKeepsUnits, SuspensionKeepsUnits, SwitchingKeepsUnits
<1> QED BY <1>6, <1>7, <1>8, <1>9 DEF SemNext

\* If no acquisition has a timeout, the account is exact: each success that a caller
\* sees has taken a unit of its own, and each unit signalled is there or with a task.
THEOREM UnitsAlwaysConserved ==
  ASSUME Timeouts = {Infinite}
  PROVE  SemSpec => []UnitsConserved
<1>1. SemInit => NoTimeout /\ UnitsConserved
  <2> SUFFICES ASSUME SemInit PROVE NoTimeout /\ UnitsConserved
    OBVIOUS
  <2>1. NoTimeout
    BY NobodyWaitsAtFirst DEF SemInit, NoTimeout
  <2>2. UnitsConserved
    BY SemAssumption DEF SemInit, UnitsConserved
  <2> QED BY <2>1, <2>2
<1>2. SemInv /\ NoTimeout /\ UnitsConserved /\ [SemNext]_semvars
        => NoTimeout' /\ UnitsConserved'
  <2> SUFFICES ASSUME SemInv, NoTimeout, UnitsConserved, [SemNext]_semvars
               PROVE  NoTimeout' /\ UnitsConserved'
    OBVIOUS
  <2>1. CASE SemNext
    <3>1. NoTimeout'
      BY <2>1, NoTimeoutKept
    <3>2. \A x \in Queue : Balanced(x)
      BY <2>1, SemNextKeeps, SemTickIdles
    <3> QED BY <3>1, <3>2 DEF UnitsConserved, Balanced
  <2>2. CASE UNCHANGED semvars
    BY <2>2 DEF semvars, vars, NoTimeout, UnitsConserved
  <2> QED BY <2>1, <2>2
<1> QED BY <1>1, <1>2, SemInvariantHolds, PTL DEF SemSpec
=============================================================================
