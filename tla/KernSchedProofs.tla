--------------------------- MODULE KernSchedProofs ---------------------------
(***************************************************************************)
(* Facts about the operators of KernSched, for every set of tasks and      *)
(* queues: what each of them does to the lists and to the fields of the    *)
(* record. The proofs about the kernel objects cite them by name.          *)
(***************************************************************************)
EXTENDS KernWalk, SequenceTheorems, WellFoundedInduction, TLAPS

-----------------------------------------------------------------------------
(* Numbers *)

\* A non-empty set of natural numbers has a least element.
LEMMA LeastNumber ==
  ASSUME NEW T \in SUBSET Nat, T # {}
  PROVE  \E x \in T : \A y \in T : x <= y
<1> DEFINE R == {ss \in Nat \X Nat : ss[1] < ss[2]}
<1>1. IsWellFoundedOn(R, Nat)
  BY NatLessThanWellFounded DEF OpToRel
<1>2. PICK x \in T : \A y \in T : ~(<<y, x>> \in R)
  <2> HIDE DEF R
  <2> QED BY <1>1, WFMin
<1>3. ASSUME NEW y \in T PROVE x <= y
  <2>1. SUFFICES ASSUME y < x PROVE FALSE
    OBVIOUS
  <2>2. <<y, x>> \in Nat \X Nat /\ <<y, x>>[1] < <<y, x>>[2]
    BY <2>1
  <2>3. <<y, x>> \in R
    BY <2>2
  <2> QED BY <1>2, <2>3
<1> QED BY <1>3

\* What holds of 0, and of each number up to n if of the one before it, holds of n.
LEMMA UpTo ==
  ASSUME NEW n \in Nat, NEW G, 0 \in G, \A i \in 1..n : i-1 \in G => i \in G
  PROVE  n \in G
<1> DEFINE T == {i \in 0..n : i \notin G}
<1>1. SUFFICES ASSUME T # {} PROVE FALSE
  OBVIOUS
<1>2. PICK m \in T : \A j \in T : m <= j
  <2>1. T \in SUBSET Nat
    OBVIOUS
  <2> HIDE DEF T
  <2> QED BY <1>1, <2>1, LeastNumber
<1>3. m \in 1..n /\ m-1 \in 0..n /\ m-1 \notin T
  BY <1>2
<1> QED BY <1>2, <1>3
-----------------------------------------------------------------------------
(* Lists without duplicates *)

\* The place of an element is where it is.
LEMMA PositionIsPlace ==
  ASSUME NEW S, NEW q \in Seq(S), NEW t \in ToSet(q)
  PROVE  Position(q, t) \in 1..Len(q) /\ q[Position(q, t)] = t
BY DEF Position, ToSet

\* Taking an element out closes the gap.
LEMMA RemovedPlaces ==
  ASSUME NEW S, NEW q \in Seq(S), NEW t \in ToSet(q), NEW r, r = RemoveAt(q, Position(q, t))
  PROVE  /\ r \in Seq(S)
         /\ Len(r) = Len(q) - 1
         /\ \A n \in 1..Len(r) : r[n] = IF n < Position(q, t) THEN q[n] ELSE q[n+1]
<1> DEFINE i == Position(q, t)
<1>1. i \in 1..Len(q) /\ q[i] = t
  BY PositionIsPlace
<1> DEFINE a == SubSeq(q, 1, i-1)
           b == SubSeq(q, i+1, Len(q))
<1>2. /\ a \in Seq(S) /\ Len(a) = i-1
      /\ \A n \in 1..i-1 : a[n] = q[n]
  BY <1>1
<1>3. /\ b \in Seq(S) /\ Len(b) = Len(q) - i
      /\ \A n \in 1..Len(q)-i : b[n] = q[n+i]
  BY <1>1
<1>4. r = a \o b
  BY DEF RemoveAt
<1> HIDE DEF a, b, i
<1>5. r \in Seq(S) /\ Len(r) = Len(q) - 1
  BY <1>1, <1>2, <1>3, <1>4
<1>6. ASSUME NEW n \in 1..Len(r) PROVE r[n] = IF n < i THEN q[n] ELSE q[n+1]
  <2>1. CASE n < i
    BY <1>1, <1>2, <1>3, <1>4, <1>5, <2>1
  <2>2. CASE n >= i
    <3>1. n - (i-1) \in 1..Len(q)-i /\ r[n] = b[n - (i-1)]
      BY <1>1, <1>2, <1>3, <1>4, <1>5, <2>2
    <3> QED BY <1>1, <1>3, <2>2, <3>1
  <2> QED BY <1>1, <2>1, <2>2
<1> QED BY <1>5, <1>6 DEF i

\* Unlinking an element that is in the list takes out that element and no other.
LEMMA RemoveElement ==
  ASSUME NEW S, NEW q \in Seq(S), NoDuplicates(q), NEW t \in ToSet(q),
         NEW r, r = RemoveAt(q, Position(q, t))
  PROVE  /\ r \in Seq(S)
         /\ Len(r) = Len(q) - 1
         /\ NoDuplicates(r)
         /\ ToSet(r) = ToSet(q) \ {t}
<1> DEFINE i == Position(q, t)
<1>1. i \in 1..Len(q) /\ q[i] = t
  BY PositionIsPlace
<1>2. /\ r \in Seq(S)
      /\ Len(r) = Len(q) - 1
      /\ \A n \in 1..Len(r) : r[n] = IF n < i THEN q[n] ELSE q[n+1]
  BY RemovedPlaces
<1> HIDE DEF i
<1>3. NoDuplicates(r)
  <2>1. SUFFICES ASSUME NEW m \in 1..Len(r), NEW n \in 1..Len(r), r[m] = r[n] PROVE m = n
    BY <1>2 DEF NoDuplicates
  <2>2. \A a, b \in 1..Len(q) : q[a] = q[b] => a = b
    BY <1>1 DEF NoDuplicates
  <2> DEFINE e(x) == IF x < i THEN x ELSE x + 1
  <2>3. /\ e(m) \in 1..Len(q) /\ e(n) \in 1..Len(q)
        /\ e(m) = e(n) => m = n
    BY <1>1, <1>2
  <2>4. q[e(m)] = q[e(n)]
    BY <1>2, <2>1
  <2> HIDE DEF e
  <2> QED BY <2>2, <2>3, <2>4
<1>4. ASSUME NEW x \in ToSet(r) PROVE x \in ToSet(q) \ {t}
  BY <1>1, <1>2 DEF ToSet, NoDuplicates
<1>5. ASSUME NEW x \in ToSet(q) \ {t} PROVE x \in ToSet(r)
  <2>1. PICK n \in 1..Len(q) : q[n] = x
    BY DEF ToSet
  <2>2. CASE n < i
    BY <1>1, <1>2, <2>1, <2>2 DEF ToSet
  <2>3. CASE n > i
    <3>1. n-1 \in 1..Len(r) /\ r[n-1] = x
      BY <1>1, <1>2, <2>1, <2>3
    <3> QED BY <3>1, <1>2 DEF ToSet
  <2> QED BY <1>1, <2>1, <2>2, <2>3
<1> QED BY <1>2, <1>3, <1>4, <1>5

\* Appending an element that is not in the list.
LEMMA AppendElement ==
  ASSUME NEW S, NEW q \in Seq(S), NoDuplicates(q), NEW t \in S, t \notin ToSet(q)
  PROVE  /\ Append(q, t) \in Seq(S)
         /\ Len(Append(q, t)) = Len(q) + 1
         /\ NoDuplicates(Append(q, t))
         /\ ToSet(Append(q, t)) = ToSet(q) \cup {t}
<1> DEFINE r == Append(q, t)
<1>1. /\ r \in Seq(S) /\ Len(r) = Len(q) + 1
      /\ \A n \in 1..Len(r) : r[n] = IF n <= Len(q) THEN q[n] ELSE t
  OBVIOUS
<1> HIDE DEF r
<1>2. NoDuplicates(r)
  BY <1>1 DEF NoDuplicates, ToSet
<1>3. ASSUME NEW x \in ToSet(q) PROVE x \in ToSet(r)
  BY <1>1 DEF ToSet
<1>4. t \in ToSet(r)
  <2>1. Len(r) \in 1..Len(r) /\ r[Len(r)] = t
    BY <1>1
  <2> QED BY <2>1, <1>1 DEF ToSet
<1>5. ASSUME NEW x \in ToSet(r) PROVE x \in ToSet(q) \cup {t}
  BY <1>1 DEF ToSet
<1> QED BY <1>1, <1>2, <1>3, <1>4, <1>5 DEF r

\* Unlinked takes an element out whether or not it is in the list.
LEMMA UnlinkedElement ==
  ASSUME NEW S, NEW q \in Seq(S), NoDuplicates(q), NEW t
  PROVE  /\ Unlinked(q, t) \in Seq(S)
         /\ NoDuplicates(Unlinked(q, t))
         /\ ToSet(Unlinked(q, t)) = ToSet(q) \ {t}
<1>1. CASE t \in ToSet(q)
  BY <1>1, RemoveElement DEF Unlinked
<1>2. CASE t \notin ToSet(q)
  BY <1>2 DEF Unlinked
<1> QED BY <1>1, <1>2
-----------------------------------------------------------------------------
(* The walk of the weighted round robin *)

\* The number of visits before a task would stop the walk is a positive number.
LEMMA VisitsNat ==
  ASSUME NEW s, s \in Sched, NEW start \in 0..Len(s.ready), NEW i \in 1..Len(s.ready)
  PROVE  /\ Laps(s, i) \in Nat \ {0}
         /\ Offset(s, start, i) \in 1..Len(s.ready)
         /\ VisitsUntil(s, start, i) \in Nat
<1>1. s.ready \in Seq(Task) /\ s.prio \in [Task -> Nat] /\ s.skip \in [Task -> Nat]
  BY DEF Sched
<1>2. s.ready[i] \in Task /\ Len(s.ready) \in Nat
  BY <1>1
<1>3. s.prio[s.ready[i]] \in Nat /\ s.skip[s.ready[i]] \in Nat
  BY <1>1, <1>2
<1>4. Laps(s, i) \in Nat \ {0}
  BY <1>3 DEF Laps
<1>5. Offset(s, start, i) \in 1..Len(s.ready)
  BY <1>2 DEF Offset
<1>6. VisitsUntil(s, start, i) \in Nat
  <2> DEFINE a == Laps(s, i)
             b == Offset(s, start, i)
             n == Len(s.ready)
  <2>1. a - 1 \in Nat /\ b \in Nat /\ n \in Nat
    BY <1>2, <1>4, <1>5
  <2> HIDE DEF a, b, n
  <2>2. (a - 1) * n + b \in Nat
    BY <2>1
  <2> QED BY <2>2 DEF VisitsUntil, a, b, n
<1> QED BY <1>4, <1>5, <1>6

\* The walk of a list that is not empty stops at one of its tasks.
LEMMA WinnerIsReady ==
  ASSUME NEW s, s \in Sched, NEW start \in 0..Len(s.ready), s.ready # << >>
  PROVE  /\ Winner(s, start) \in 1..Len(s.ready)
         /\ s.ready[Winner(s, start)] \in ToSet(s.ready)
<1> DEFINE V(i) == VisitsUntil(s, start, i)
           T == {V(i) : i \in 1..Len(s.ready)}
<1>1. s.ready \in Seq(Task)
  BY DEF Sched
<1>2. DOMAIN s.ready = 1..Len(s.ready) /\ 1 \in 1..Len(s.ready)
  BY <1>1
<1>3. T \in SUBSET Nat /\ T # {}
  BY <1>2, VisitsNat
<1>4. PICK x \in T : \A y \in T : x <= y
  <2> HIDE DEF T
  <2> QED BY <1>3, LeastNumber
<1>5. PICK i \in 1..Len(s.ready) : x = V(i)
  BY <1>4
<1>6. \A j \in 1..Len(s.ready) : V(i) <= V(j)
  BY <1>4, <1>5
<1>7. Winner(s, start) \in 1..Len(s.ready)
  BY <1>2, <1>6 DEF Winner
<1> QED BY <1>1, <1>2, <1>7 DEF ToSet

\* What the walk leaves alone: everything but the choice and the visit counts.
SameButChoice(s, r) ==
  /\ r.ready = s.ready /\ r.timers = s.timers /\ r.wq = s.wq /\ r.state = s.state
  /\ r.prio = s.prio /\ r.tick = s.tick /\ r.reason = s.reason /\ r.rc = s.rc
  /\ r.pwait = s.pwait /\ r.wake = s.wake /\ r.act = s.act

\* The walk changes nothing else, and chooses a ready task if there is one.
LEMMA WalkChooses ==
  ASSUME NEW s, s \in Sched, NEW start \in 0..Len(s.ready), NEW r, r = WalkFrom(s, start)
  PROVE  r \in Sched /\ SameButChoice(s, r) /\ (s.ready # << >> => NextReady(r))
<1>1. CASE s.ready = << >>
  BY <1>1 DEF WalkFrom, SameButChoice
<1>2. CASE s.ready # << >>
  <2> DEFINE w == Winner(s, start)
             f == [t \in Task |-> IF t \in ToSet(s.ready)
                                  THEN SkipAfter(s, start, w, Position(s.ready, t))
                                  ELSE s.skip[t]]
  <2>1. s.ready \in Seq(Task) /\ s.skip \in [Task -> Nat] /\ s.next \in Task
    BY DEF Sched
  <2>2. w \in 1..Len(s.ready) /\ s.ready[w] \in ToSet(s.ready) /\ s.ready[w] \in Task
    BY <1>2, <2>1, WinnerIsReady
  <2>3. ASSUME NEW t \in ToSet(s.ready)
        PROVE  SkipAfter(s, start, w, Position(s.ready, t)) \in Nat
    <3> DEFINE i == Position(s.ready, t)
    <3>1. i \in 1..Len(s.ready) /\ s.ready[i] = t /\ t \in Task
      BY <2>1, PositionIsPlace DEF ToSet
    <3>2. Laps(s, w) \in Nat \ {0} /\ s.skip[t] \in Nat
      BY <2>1, <2>2, <3>1, VisitsNat
    <3> HIDE DEF i, w
    <3> QED BY <3>1, <3>2 DEF SkipAfter, i
  <2>4. f \in [Task -> Nat]
    <3> HIDE DEF w
    <3> QED BY <2>1, <2>3
  <2>5. r = [s EXCEPT !.next = s.ready[w], !.skip = f]
    BY <1>2, <2>1 DEF WalkFrom, Sched
  <2> HIDE DEF w, f
  <2>6. r \in Sched
    BY <2>2, <2>4, <2>5 DEF Sched
  <2>7. SameButChoice(s, r) /\ r.next = s.ready[w]
    BY <2>5 DEF Sched, SameButChoice
  <2> QED BY <2>2, <2>6, <2>7 DEF NextReady, SameButChoice
<1> QED BY <1>1, <1>2

\* find_next_task_to_run for a task of the ready list.
LEMMA FindNextChooses ==
  ASSUME NEW s, s \in Sched, NEW t, t \in ToSet(s.ready),
         NEW r, r = find_next_task_to_run(s, t)
  PROVE  r \in Sched /\ SameButChoice(s, r) /\ NextReady(r)
<1>1. s.ready \in Seq(Task)
  BY DEF Sched
<1>2. Position(s.ready, t) \in 1..Len(s.ready) /\ s.ready # << >>
  BY <1>1, PositionIsPlace
<1>3. Position(s.ready, t) \in 0..Len(s.ready)
  BY <1>2
<1> QED BY <1>2, <1>3, WalkChooses DEF find_next_task_to_run
-----------------------------------------------------------------------------
(* Entering and leaving the ready list *)

\* A task that stops being ready leaves the list, and another one is chosen if
\* there is another one.
LEMMA NonRunnableLeaves ==
  ASSUME NEW s, s \in Sched, NoDuplicates(s.ready), NEW t \in Task, t \in ToSet(s.ready),
         NEW r, r = task_to_non_runnable(s, t)
  PROVE  /\ r \in Sched
         /\ r.timers = s.timers /\ r.wq = s.wq /\ r.state = s.state /\ r.pwait = s.pwait
         /\ r.tick = s.tick /\ r.reason = s.reason /\ r.rc = s.rc
         /\ r.prio = s.prio /\ r.wake = s.wake /\ r.act = s.act
         /\ NoDuplicates(r.ready)
         /\ ToSet(r.ready) = ToSet(s.ready) \ {t}
         /\ ToSet(s.ready) # {t} => NextReady(r)
<1> DEFINE p == Position(s.ready, t)
           q == RemoveAt(s.ready, p)
           m == [s EXCEPT !.ready = q]
<1>1. s.ready \in Seq(Task)
  BY DEF Sched
<1>2. /\ q \in Seq(Task) /\ Len(q) = Len(s.ready) - 1 /\ NoDuplicates(q)
      /\ ToSet(q) = ToSet(s.ready) \ {t}
  BY <1>1, RemoveElement
<1>3. p - 1 \in 0..Len(q)
  BY <1>1, <1>2, PositionIsPlace
<1>4. r = WalkFrom(m, p - 1)
  BY DEF task_to_non_runnable
<1> HIDE DEF q, p
<1>5. /\ m \in Sched /\ m.ready = q
      /\ m.timers = s.timers /\ m.wq = s.wq /\ m.state = s.state /\ m.pwait = s.pwait
      /\ m.tick = s.tick /\ m.reason = s.reason /\ m.rc = s.rc
      /\ m.prio = s.prio /\ m.wake = s.wake /\ m.act = s.act
  BY <1>2 DEF Sched
<1> HIDE DEF m
<1>6. r \in Sched /\ SameButChoice(m, r) /\ (q # << >> => NextReady(r))
  BY <1>3, <1>4, <1>5, WalkChooses
<1>7. ToSet(s.ready) # {t} => q # << >>
  <2>1. ToSet(<< >>) = {}
    BY DEF ToSet
  <2> QED BY <1>2, <2>1
<1> QED BY <1>2, <1>5, <1>6, <1>7 DEF SameButChoice

\* A task that becomes ready is at the tail of the list, and a task is chosen.
LEMMA RunnableJoins ==
  ASSUME NEW s, s \in Sched, NoDuplicates(s.ready), NEW t \in Task, t \notin ToSet(s.ready),
         NEW r, r = task_to_runnable(s, t)
  PROVE  /\ r \in Sched
         /\ r.state = [s.state EXCEPT ![t] = "RUNNABLE"]
         /\ r.pwait = [s.pwait EXCEPT ![t] = NoQueue]
         /\ r.timers = s.timers /\ r.wq = s.wq /\ r.tick = s.tick /\ r.reason = s.reason
         /\ r.rc = s.rc /\ r.prio = s.prio /\ r.wake = s.wake /\ r.act = s.act
         /\ NoDuplicates(r.ready)
         /\ ToSet(r.ready) = ToSet(s.ready) \cup {t}
         /\ NextReady(r)
<1> DEFINE q == Append(s.ready, t)
           m == [s EXCEPT !.state[t] = "RUNNABLE", !.pwait[t] = NoQueue, !.ready = q]
<1>1. s.ready \in Seq(Task)
  BY DEF Sched
<1>2. /\ q \in Seq(Task) /\ Len(q) = Len(s.ready) + 1 /\ NoDuplicates(q)
      /\ ToSet(q) = ToSet(s.ready) \cup {t}
  BY <1>1, AppendElement
<1>3. Len(q) \in 0..Len(q) /\ q # << >>
  BY <1>1, <1>2
<1>4. r = WalkFrom(m, Len(m.ready))
  BY DEF task_to_runnable, Sched
<1> HIDE DEF q
<1>5. m \in Sched /\ m.ready = q
  BY <1>2 DEF Sched, States
<1>6. /\ m.state = [s.state EXCEPT ![t] = "RUNNABLE"]
      /\ m.pwait = [s.pwait EXCEPT ![t] = NoQueue]
      /\ m.timers = s.timers /\ m.wq = s.wq /\ m.tick = s.tick /\ m.reason = s.reason
      /\ m.rc = s.rc /\ m.prio = s.prio /\ m.wake = s.wake /\ m.act = s.act
  BY DEF Sched
<1> HIDE DEF m
<1>7. r \in Sched /\ SameButChoice(m, r) /\ NextReady(r)
  BY <1>3, <1>4, <1>5, WalkChooses
<1> QED BY <1>2, <1>5, <1>6, <1>7 DEF SameButChoice
-----------------------------------------------------------------------------
(***************************************************************************)
(* The record between two steps of a kernel call. SchedOK is what holds    *)
(* whenever interrupts are enabled. Apart(s, t) is the same but for the    *)
(* fields of the one task t, which is in no list at all.                   *)
(***************************************************************************)
SchedOK(s) ==
  s \in Sched /\ ReadyOK(s) /\ TimersOK(s) /\ WaitQueuesOK(s) /\ WaitFieldsOK(s)

FieldsOK(s, t) ==
  IF Waiting(s.state[t]) THEN s.reason[t] # "NONE" /\ s.tick[t] # 0
  ELSE s.reason[t] = "NONE" /\ s.tick[t] = Infinite /\ s.pwait[t] = NoQueue

Apart(s, t) ==
  /\ s \in Sched
  /\ NoDuplicates(s.ready) /\ NoDuplicates(s.timers)
  /\ \A q \in Queue : NoDuplicates(s.wq[q])
  /\ t \notin ToSet(s.ready) /\ t \notin ToSet(s.timers)
  /\ \A q \in Queue : t \notin ToSet(s.wq[q])
  /\ \A u \in Task \ {t} :
       /\ u \in ToSet(s.ready) <=> s.state[u] = "RUNNABLE"
       /\ u \in ToSet(s.timers) <=> Waiting(s.state[u]) /\ s.tick[u] # Infinite
       /\ \A q \in Queue : u \in ToSet(s.wq[q]) <=> s.pwait[u] = q
       /\ FieldsOK(s, u)

\* A task that neither runs nor waits is in no list.
LEMMA IdleIsApart ==
  ASSUME NEW s, SchedOK(s), NEW t \in Task,
         s.state[t] # "RUNNABLE", ~Waiting(s.state[t])
  PROVE  Apart(s, t)
<1>1. s.pwait[t] = NoQueue /\ \A q \in Queue : s.pwait[t] # q
  BY NoQueueAssumption DEF SchedOK, WaitFieldsOK
<1> QED BY <1>1 DEF SchedOK, Apart, ReadyOK, TimersOK, WaitQueuesOK, WaitFieldsOK, FieldsOK

\* The running task that leaves the ready list is in no list.
LEMMA StoppedIsApart ==
  ASSUME NEW s, SchedOK(s), NEW t \in Task, s.state[t] = "RUNNABLE",
         NEW r, r = task_to_non_runnable(s, t)
  PROVE  Apart(r, t)
<1>1. s \in Sched /\ NoDuplicates(s.ready) /\ t \in ToSet(s.ready)
  BY DEF SchedOK, ReadyOK
<1>2. r \in Sched /\ NoDuplicates(r.ready) /\ ToSet(r.ready) = ToSet(s.ready) \ {t}
  BY <1>1, NonRunnableLeaves
<1>3. /\ r.timers = s.timers /\ r.wq = s.wq /\ r.state = s.state
      /\ r.tick = s.tick /\ r.reason = s.reason /\ r.pwait = s.pwait
  BY <1>1, NonRunnableLeaves
<1>4. ~Waiting(s.state[t]) /\ s.pwait[t] = NoQueue /\ \A q \in Queue : s.pwait[t] # q
  BY NoQueueAssumption DEF SchedOK, WaitFieldsOK, Waiting
<1> QED BY <1>2, <1>3, <1>4
        DEF SchedOK, Apart, ReadyOK, TimersOK, WaitQueuesOK, WaitFieldsOK, FieldsOK

\* So is a task whose wait is ended, even if its time has just run out.
LEMMA LeaverIsApart ==
  ASSUME NEW s, s \in Sched, ReadyOK(s), TimersOK(s), WaitQueuesOK(s), NEW t \in Task,
         \A u \in Task \ {t} : FieldsOK(s, u), s.state[t] # "RUNNABLE",
         NEW r, r = LeaveQueues(s, t)
  PROVE  /\ Apart(r, t)
         /\ r.state = s.state /\ r.ready = s.ready /\ r.next = s.next
         /\ r.tick = [s.tick EXCEPT ![t] = Infinite]
         /\ r.pwait = [s.pwait EXCEPT ![t] = NoQueue]
         /\ r.reason = s.reason
         /\ r.rc = s.rc /\ r.prio = s.prio /\ r.wake = s.wake /\ r.act = s.act
<1> DEFINE w == [q \in Queue |-> IF q = s.pwait[t] THEN Unlinked(s.wq[q], t) ELSE s.wq[q]]
           m == IF s.tick[t] # Infinite THEN Unlinked(s.timers, t) ELSE s.timers
<1>1. r = [s EXCEPT !.wq = w, !.pwait[t] = NoQueue, !.timers = m, !.tick[t] = Infinite]
  BY DEF LeaveQueues, Sched
<1>2. ASSUME NEW q \in Queue
      PROVE  /\ w[q] \in Seq(Task) /\ NoDuplicates(w[q])
             /\ ToSet(w[q]) = ToSet(s.wq[q]) \ {t}
  <2>1. s.wq[q] \in Seq(Task) /\ NoDuplicates(s.wq[q])
    BY DEF Sched, WaitQueuesOK
  <2>2. q # s.pwait[t] => t \notin ToSet(s.wq[q])
    BY DEF WaitQueuesOK
  <2> QED BY <2>1, <2>2, UnlinkedElement
<1>3. m \in Seq(Task) /\ NoDuplicates(m) /\ ToSet(m) = ToSet(s.timers) \ {t}
  <2>1. s.timers \in Seq(Task) /\ NoDuplicates(s.timers)
    BY DEF Sched, TimersOK
  <2>2. s.tick[t] = Infinite => t \notin ToSet(s.timers)
    BY DEF TimersOK
  <2> QED BY <2>1, <2>2, UnlinkedElement
<1>4. w \in [Queue -> Seq(Task)]
  BY <1>2
<1> HIDE DEF w, m
<1>5. r \in Sched
  <2>1. /\ [s.pwait EXCEPT ![t] = NoQueue] \in [Task -> Queue \cup {NoQueue}]
        /\ [s.tick EXCEPT ![t] = Infinite] \in [Task -> Nat \cup {Infinite}]
    BY DEF Sched
  <2> QED BY <1>1, <1>3, <1>4, <2>1 DEF Sched
<1>6. /\ r.ready = s.ready /\ r.state = s.state /\ r.reason = s.reason
      /\ r.timers = m /\ r.wq = w /\ r.next = s.next
      /\ r.tick = [s.tick EXCEPT ![t] = Infinite]
      /\ r.pwait = [s.pwait EXCEPT ![t] = NoQueue]
      /\ r.rc = s.rc /\ r.prio = s.prio /\ r.wake = s.wake /\ r.act = s.act
  BY <1>1 DEF Sched
<1>7. ASSUME NEW u \in Task \ {t} PROVE r.tick[u] = s.tick[u] /\ r.pwait[u] = s.pwait[u]
  BY <1>6 DEF Sched
<1>8. Apart(r, t)
  <2>1. /\ NoDuplicates(r.ready) /\ t \notin ToSet(r.ready)
        /\ \A u \in Task \ {t} : u \in ToSet(r.ready) <=> r.state[u] = "RUNNABLE"
    BY <1>6 DEF ReadyOK
  <2>2. /\ NoDuplicates(r.timers) /\ t \notin ToSet(r.timers)
        /\ \A u \in Task \ {t} :
             u \in ToSet(r.timers) <=> Waiting(r.state[u]) /\ r.tick[u] # Infinite
    BY <1>3, <1>6, <1>7 DEF TimersOK
  <2>3. \A q \in Queue :
          /\ NoDuplicates(r.wq[q]) /\ t \notin ToSet(r.wq[q])
          /\ \A u \in Task \ {t} : u \in ToSet(r.wq[q]) <=> r.pwait[u] = q
    <3> TAKE q \in Queue
    <3>1. NoDuplicates(r.wq[q]) /\ ToSet(r.wq[q]) = ToSet(s.wq[q]) \ {t}
      BY <1>2, <1>6
    <3>2. \A u \in Task : u \in ToSet(s.wq[q]) <=> s.pwait[u] = q
      BY DEF WaitQueuesOK
    <3> QED BY <1>7, <3>1, <3>2
  <2>4. \A u \in Task \ {t} : FieldsOK(r, u)
    BY <1>6, <1>7 DEF FieldsOK
  <2> QED BY <1>5, <2>1, <2>2, <2>3, <2>4 DEF Apart
<1> QED BY <1>6, <1>8

\* A task apart from the lists whose fields say that it does not run or wait
\* restores what holds between calls.
LEMMA ApartIdles ==
  ASSUME NEW s, NEW t \in Task, Apart(s, t), s.state[t] \in {"SUSPEND", "DORMANT"},
         FieldsOK(s, t)
  PROVE  SchedOK(s)
<1>1. ~Waiting(s.state[t]) /\ s.state[t] # "RUNNABLE"
  BY DEF Waiting
<1>2. s.pwait[t] = NoQueue /\ \A q \in Queue : s.pwait[t] # q
  BY <1>1, NoQueueAssumption DEF FieldsOK
<1> QED BY <1>1, <1>2
        DEF SchedOK, Apart, ReadyOK, TimersOK, WaitQueuesOK, WaitFieldsOK, FieldsOK

\* n is r with the wait reason of t cleared.
OnlyReasonCleared(r, n, t) ==
  /\ n.ready = r.ready /\ n.timers = r.timers /\ n.wq = r.wq /\ n.state = r.state
  /\ n.tick = r.tick /\ n.pwait = r.pwait /\ n.reason[t] = "NONE"
  /\ \A u \in Task \ {t} : n.reason[u] = r.reason[u]

\* So does one that joins the ready tasks and has no wait reason any more.
LEMMA ApartJoins ==
  ASSUME NEW s, NEW t \in Task, Apart(s, t),
         s.tick[t] = Infinite, NEW r, r = task_to_runnable(s, t)
  PROVE  /\ \A n \in Sched : OnlyReasonCleared(r, n, t) => SchedOK(n)
         /\ r \in Sched
         /\ NextReady(r)
         /\ r.state = [s.state EXCEPT ![t] = "RUNNABLE"]
         /\ r.reason = s.reason
         /\ ToSet(r.ready) = ToSet(s.ready) \cup {t}
         /\ r.tick = s.tick /\ r.rc = s.rc /\ r.prio = s.prio
         /\ r.wake = s.wake /\ r.act = s.act
<1>1. s \in Sched /\ NoDuplicates(s.ready) /\ t \notin ToSet(s.ready)
  BY DEF Apart
<1>2. /\ r \in Sched
      /\ NoDuplicates(r.ready) /\ ToSet(r.ready) = ToSet(s.ready) \cup {t} /\ NextReady(r)
  BY <1>1, RunnableJoins, ZenonT(40)
<1>3. /\ r.timers = s.timers /\ r.wq = s.wq /\ r.tick = s.tick /\ r.reason = s.reason
      /\ r.state = [s.state EXCEPT ![t] = "RUNNABLE"]
      /\ r.pwait = [s.pwait EXCEPT ![t] = NoQueue]
      /\ r.rc = s.rc /\ r.prio = s.prio /\ r.wake = s.wake /\ r.act = s.act
  BY <1>1, RunnableJoins
<1>4. r.state[t] = "RUNNABLE" /\ r.pwait[t] = NoQueue /\ \A q \in Queue : r.pwait[t] # q
  BY <1>1, <1>3, NoQueueAssumption DEF Sched
<1>5. \A u \in Task \ {t} : r.state[u] = s.state[u] /\ r.pwait[u] = s.pwait[u]
  BY <1>1, <1>3 DEF Sched
<1>6. ~Waiting(r.state[t])
  BY <1>4 DEF Waiting
<1>7. ASSUME NEW n \in Sched, OnlyReasonCleared(r, n, t) PROVE SchedOK(n)
  <2>1. /\ n.ready = r.ready /\ n.timers = r.timers /\ n.wq = r.wq
        /\ n.state = r.state /\ n.tick = r.tick /\ n.pwait = r.pwait
    BY <1>7 DEF OnlyReasonCleared
  <2>2. n.reason[t] = "NONE" /\ \A u \in Task \ {t} : n.reason[u] = r.reason[u]
    BY <1>7 DEF OnlyReasonCleared
  <2>3. ReadyOK(n) /\ TimersOK(n)
    BY <1>2, <1>3, <1>4, <1>5, <1>6, <2>1 DEF Apart, ReadyOK, TimersOK
  <2>4. WaitQueuesOK(n)
    BY <1>3, <1>4, <1>5, <2>1 DEF Apart, WaitQueuesOK
  <2>5. WaitFieldsOK(n)
    BY <1>3, <1>4, <1>5, <1>6, <2>1, <2>2 DEF Apart, WaitFieldsOK, FieldsOK
  <2> QED BY <2>3, <2>4, <2>5 DEF SchedOK
<1> QED BY <1>2, <1>3, <1>7
-----------------------------------------------------------------------------
(* What the calls are made of *)

\* The end of a wait leaves everything in order: a suspended task only loses its
\* wait, any other becomes ready.
LEMMA WaitCompletes ==
  ASSUME NEW s, s \in Sched, ReadyOK(s), TimersOK(s), WaitQueuesOK(s), NEW t \in Task,
         \A u \in Task \ {t} : FieldsOK(s, u), Waiting(s.state[t]),
         NEW r, r = task_wait_complete(s, t)
  PROVE  /\ SchedOK(r)
         /\ NextReady(s) => NextReady(r)
         /\ ~Suspended(s.state[t]) => NextReady(r)
         /\ r.state = [s.state EXCEPT ![t] = IF Suspended(s.state[t]) THEN "SUSPEND"
                                             ELSE "RUNNABLE"]
         /\ r.tick = [s.tick EXCEPT ![t] = Infinite]
         /\ r.prio = s.prio /\ r.wake = s.wake /\ r.act = s.act
<1> DEFINE l == LeaveQueues(s, t)
           a == [l EXCEPT !.rc[t] = "NO_ERR"]
<1>1. /\ Apart(l, t)
      /\ l.state = s.state /\ l.ready = s.ready /\ l.next = s.next
      /\ l.tick = [s.tick EXCEPT ![t] = Infinite]
      /\ l.pwait = [s.pwait EXCEPT ![t] = NoQueue]
      /\ l.prio = s.prio /\ l.wake = s.wake /\ l.act = s.act
  <2>1. s.state[t] # "RUNNABLE"
    BY DEF Waiting
  <2> QED BY <2>1, LeaverIsApart
<1> HIDE DEF l
<1>2. /\ a \in Sched /\ a.ready = l.ready /\ a.timers = l.timers /\ a.wq = l.wq
      /\ a.state = l.state /\ a.tick = l.tick /\ a.pwait = l.pwait /\ a.reason = l.reason
      /\ a.next = l.next /\ a.prio = l.prio /\ a.wake = l.wake /\ a.act = l.act
  BY <1>1 DEF Apart, Sched, Codes
<1> HIDE DEF a
<1>3. Apart(a, t)
  BY <1>1, <1>2 DEF Apart, FieldsOK
<1>4. a.tick[t] = Infinite /\ a.pwait[t] = NoQueue
  BY <1>1, <1>2 DEF Sched
<1>5. CASE Suspended(s.state[t])
  <2> DEFINE b == [a EXCEPT !.state[t] = "SUSPEND"]
  <2>1. r = [b EXCEPT !.reason[t] = "NONE"]
    BY <1>5 DEF task_wait_complete, a, l
  <2>2. b \in Sched
    BY <1>2 DEF Sched, States
  <2>3. /\ r \in Sched /\ r.ready = a.ready /\ r.timers = a.timers /\ r.wq = a.wq
        /\ r.state = [a.state EXCEPT ![t] = "SUSPEND"]
        /\ r.reason = [a.reason EXCEPT ![t] = "NONE"]
        /\ r.tick = a.tick /\ r.pwait = a.pwait
        /\ r.next = a.next /\ r.prio = a.prio /\ r.wake = a.wake /\ r.act = a.act
    <3>1. /\ b.ready = a.ready /\ b.timers = a.timers /\ b.wq = a.wq
          /\ b.state = [a.state EXCEPT ![t] = "SUSPEND"] /\ b.reason = a.reason
          /\ b.tick = a.tick /\ b.pwait = a.pwait
          /\ b.next = a.next /\ b.prio = a.prio /\ b.wake = a.wake /\ b.act = a.act
      BY <1>2 DEF Sched
    <3> HIDE DEF b
    <3>2. [b.reason EXCEPT ![t] = "NONE"] \in [Task -> Reasons]
      BY <2>2 DEF Sched, Reasons
    <3>3. r \in Sched
      BY <2>1, <2>2, <3>2 DEF Sched
    <3>4. /\ r.ready = b.ready /\ r.timers = b.timers /\ r.wq = b.wq
          /\ r.reason = [b.reason EXCEPT ![t] = "NONE"] /\ r.state = b.state
          /\ r.tick = b.tick /\ r.pwait = b.pwait
          /\ r.next = b.next /\ r.prio = b.prio /\ r.wake = b.wake /\ r.act = b.act
      BY <2>1, <2>2 DEF Sched
    <3> QED BY <3>1, <3>3, <3>4
  <2> HIDE DEF b
  <2>4. /\ r.state[t] = "SUSPEND" /\ r.reason[t] = "NONE"
        /\ \A u \in Task \ {t} : r.state[u] = a.state[u] /\ r.reason[u] = a.reason[u]
    <3>1. a.state \in [Task -> States] /\ a.reason \in [Task -> Reasons]
      BY <1>2 DEF Sched
    <3>2. r.state[t] = "SUSPEND" /\ \A u \in Task \ {t} : r.state[u] = a.state[u]
      BY <2>3, <3>1
    <3>3. r.reason[t] = "NONE" /\ \A u \in Task \ {t} : r.reason[u] = a.reason[u]
      BY <2>3, <3>1
    <3> QED BY <3>2, <3>3
  <2>5. Apart(r, t)
    BY <1>3, <2>3, <2>4 DEF Apart, FieldsOK
  <2>6. FieldsOK(r, t)
    BY <1>4, <2>3, <2>4 DEF FieldsOK, Waiting
  <2>7. SchedOK(r)
    BY <2>4, <2>5, <2>6, ApartIdles
  <2>8. NextReady(s) => NextReady(r)
    BY <1>1, <1>2, <2>3 DEF NextReady
  <2> QED BY <1>1, <1>2, <1>5, <2>3, <2>7, <2>8
<1>6. CASE ~Suspended(s.state[t])
  <2> DEFINE b == task_to_runnable(a, t)
  <2>1. r = [b EXCEPT !.reason[t] = "NONE"]
    BY <1>6 DEF task_wait_complete, a, l
  <2>2. /\ \A n \in Sched : OnlyReasonCleared(b, n, t) => SchedOK(n)
        /\ b \in Sched /\ NextReady(b)
        /\ b.state = [a.state EXCEPT ![t] = "RUNNABLE"]
        /\ b.tick = a.tick /\ b.prio = a.prio /\ b.wake = a.wake /\ b.act = a.act
    BY <1>3, <1>4, ApartJoins
  <2> HIDE DEF b
  <2>3. /\ r.ready = b.ready /\ r.next = b.next /\ r.state = b.state /\ r.tick = b.tick
        /\ r.prio = b.prio /\ r.wake = b.wake /\ r.act = b.act
    BY <2>1, <2>2 DEF Sched
  <2>4. NextReady(r)
    BY <2>2, <2>3 DEF NextReady
  <2>5. r \in Sched /\ OnlyReasonCleared(b, r, t)
    <3>1. [b.reason EXCEPT ![t] = "NONE"] \in [Task -> Reasons]
      BY <2>2 DEF Sched, Reasons
    <3>2. r.reason = [b.reason EXCEPT ![t] = "NONE"] /\ r \in Sched
      BY <2>1, <2>2, <3>1 DEF Sched
    <3> QED BY <2>1, <2>2, <3>1, <3>2 DEF Sched, OnlyReasonCleared
  <2>6. SchedOK(r)
    BY <2>2, <2>5
  <2> QED BY <1>1, <1>2, <1>6, <2>2, <2>3, <2>4, <2>6
<1> QED BY <1>5, <1>6

\* The running task starts to wait, in a queue or for a time or both.
LEMMA CurrentWaits ==
  ASSUME NEW s, SchedOK(s), NEW t \in Task, s.state[t] = "RUNNABLE",
         NEW q \in Queue \cup {NoQueue}, NEW reason \in Reasons \ {"NONE"},
         NEW timeout \in (Nat \ {0}) \cup {Infinite},
         NEW r, r = task_curr_to_wait_action(s, t, q, reason, timeout)
  PROVE  /\ SchedOK(r)
         /\ ToSet(s.ready) # {t} => NextReady(r)
         /\ r.state = [s.state EXCEPT ![t] = "WAIT"]
<1> DEFINE n == task_to_non_runnable(s, t)
           w == [x \in Queue |-> IF x = q THEN Append(n.wq[x], t) ELSE n.wq[x]]
           m == IF timeout = Infinite THEN n.timers ELSE Append(n.timers, t)
<1>1. Apart(n, t)
  BY StoppedIsApart
<1>2. n.state = s.state /\ (ToSet(s.ready) # {t} => NextReady(n))
  BY NonRunnableLeaves DEF SchedOK, ReadyOK
<1>3. r = [n EXCEPT !.state[t] = "WAIT", !.reason[t] = reason, !.tick[t] = timeout,
                    !.pwait[t] = q, !.wq = w, !.timers = m]
  <2> HIDE DEF n
  <2>1. n \in Sched
    BY <1>1 DEF Apart
  <2> QED BY <2>1 DEF task_curr_to_wait_action, Sched, n
<1> HIDE DEF n
<1>4. ASSUME NEW x \in Queue
      PROVE  /\ w[x] \in Seq(Task) /\ NoDuplicates(w[x])
             /\ ToSet(w[x]) = IF x = q THEN ToSet(n.wq[x]) \cup {t} ELSE ToSet(n.wq[x])
  <2>1. n.wq[x] \in Seq(Task) /\ NoDuplicates(n.wq[x]) /\ t \notin ToSet(n.wq[x])
    BY <1>1 DEF Apart, Sched
  <2>2. CASE x = q
    <3>1. w[x] = Append(n.wq[x], t)
      BY <2>2
    <3> HIDE DEF w
    <3> QED BY <2>1, <2>2, <3>1, AppendElement
  <2>3. CASE x # q
    BY <2>1, <2>3
  <2> QED BY <2>2, <2>3
<1>5. /\ m \in Seq(Task) /\ NoDuplicates(m)
      /\ ToSet(m) = IF timeout = Infinite THEN ToSet(n.timers) ELSE ToSet(n.timers) \cup {t}
  <2>1. n.timers \in Seq(Task) /\ NoDuplicates(n.timers) /\ t \notin ToSet(n.timers)
    BY <1>1 DEF Apart, Sched
  <2>2. CASE timeout = Infinite
    BY <2>1, <2>2
  <2>3. CASE timeout # Infinite
    <3>1. m = Append(n.timers, t)
      BY <2>3
    <3> HIDE DEF m
    <3> QED BY <2>1, <2>3, <3>1, AppendElement
  <2> QED BY <2>2, <2>3
<1>6. w \in [Queue -> Seq(Task)]
  BY <1>4
<1> HIDE DEF w, m
<1>7. r \in Sched
  <2>1. /\ [n.pwait EXCEPT ![t] = q] \in [Task -> Queue \cup {NoQueue}]
        /\ [n.tick EXCEPT ![t] = timeout] \in [Task -> Nat \cup {Infinite}]
        /\ [n.state EXCEPT ![t] = "WAIT"] \in [Task -> States]
        /\ [n.reason EXCEPT ![t] = reason] \in [Task -> Reasons]
    BY <1>1 DEF Apart, Sched, States
  <2>2. r = [n EXCEPT !.pwait = [n.pwait EXCEPT ![t] = q],
                      !.tick = [n.tick EXCEPT ![t] = timeout],
                      !.state = [n.state EXCEPT ![t] = "WAIT"],
                      !.reason = [n.reason EXCEPT ![t] = reason],
                      !.wq = w, !.timers = m]
    BY <1>1, <1>3 DEF Apart, Sched
  <2>3. n \in Sched /\ w \in [Queue -> Seq(Task)] /\ m \in Seq(Task)
    BY <1>1, <1>5, <1>6 DEF Apart
  <2> QED BY <2>1, <2>2, <2>3, ZenonT(40) DEF Sched
<1>8. /\ r.ready = n.ready /\ r.timers = m /\ r.wq = w /\ r.next = n.next
      /\ r.state = [n.state EXCEPT ![t] = "WAIT"]
      /\ r.reason = [n.reason EXCEPT ![t] = reason]
      /\ r.tick = [n.tick EXCEPT ![t] = timeout]
      /\ r.pwait = [n.pwait EXCEPT ![t] = q]
  BY <1>1, <1>3 DEF Apart, Sched
<1>9. /\ r.state[t] = "WAIT" /\ r.reason[t] = reason /\ r.tick[t] = timeout /\ r.pwait[t] = q
      /\ \A u \in Task \ {t} : /\ r.state[u] = n.state[u] /\ r.reason[u] = n.reason[u]
                               /\ r.tick[u] = n.tick[u] /\ r.pwait[u] = n.pwait[u]
  BY <1>1, <1>8 DEF Apart, Sched
<1>10. Waiting(r.state[t])
  BY <1>9 DEF Waiting
<1>11. ReadyOK(r)
  BY <1>1, <1>8, <1>9 DEF Apart, ReadyOK
<1>12. TimersOK(r)
  BY <1>1, <1>5, <1>8, <1>9, <1>10 DEF Apart, TimersOK
<1>13. WaitQueuesOK(r)
  <2> SUFFICES ASSUME NEW x \in Queue
               PROVE  /\ NoDuplicates(r.wq[x])
                      /\ \A u \in Task : u \in ToSet(r.wq[x]) <=> r.pwait[u] = x
    BY DEF WaitQueuesOK
  <2>1. /\ NoDuplicates(r.wq[x])
        /\ ToSet(r.wq[x]) = IF x = q THEN ToSet(n.wq[x]) \cup {t} ELSE ToSet(n.wq[x])
    BY <1>4, <1>8
  <2>2. t \notin ToSet(n.wq[x]) /\ \A u \in Task \ {t} : u \in ToSet(n.wq[x]) <=> n.pwait[u] = x
    BY <1>1 DEF Apart
  <2> QED BY <1>9, <2>1, <2>2
<1>14. WaitFieldsOK(r)
  <2>1. ASSUME NEW u \in Task \ {t} PROVE FieldsOK(r, u)
    BY <1>1, <1>9 DEF Apart, FieldsOK
  <2>2. FieldsOK(r, t)
    BY <1>9, <1>10 DEF FieldsOK, Infinite
  <2>3. \A u \in Task : FieldsOK(r, u)
    BY <2>1, <2>2
  <2> QED BY <2>3 DEF WaitFieldsOK, FieldsOK
<1>15. ToSet(s.ready) # {t} => NextReady(r)
  BY <1>2, <1>8 DEF NextReady
<1>16. r.state = [s.state EXCEPT ![t] = "WAIT"]
  BY <1>2, <1>8
<1> QED BY <1>7, <1>11, <1>12, <1>13, <1>14, <1>15, <1>16 DEF SchedOK

\* A task apart from the lists is put into its initial state.
LEMMA InitStateIdles ==
  ASSUME NEW s, NEW t \in Task, Apart(s, t), NEW r, r = task_set_init_state(s, t)
  PROVE  /\ SchedOK(r) /\ Apart(r, t) /\ FieldsOK(r, t)
         /\ r.ready = s.ready /\ r.next = s.next
         /\ r.state = [s.state EXCEPT ![t] = "DORMANT"]
         /\ r.reason[t] = "NONE" /\ r.tick[t] = Infinite
         /\ r.prio = s.prio /\ r.act = s.act
<1>1. s \in Sched
  BY DEF Apart
<1>2. r \in Sched
  <2>1. /\ [s.pwait EXCEPT ![t] = NoQueue] \in [Task -> Queue \cup {NoQueue}]
        /\ [s.tick EXCEPT ![t] = Infinite] \in [Task -> Nat \cup {Infinite}]
        /\ [s.state EXCEPT ![t] = "DORMANT"] \in [Task -> States]
        /\ [s.reason EXCEPT ![t] = "NONE"] \in [Task -> Reasons]
        /\ [s.rc EXCEPT ![t] = "NO_ERR"] \in [Task -> Codes]
        /\ [s.wake EXCEPT ![t] = 0] \in [Task -> {0, 1}]
    BY <1>1 DEF Sched, States, Reasons, Codes
  <2>2. r = [s EXCEPT !.pwait = [s.pwait EXCEPT ![t] = NoQueue],
                      !.tick = [s.tick EXCEPT ![t] = Infinite],
                      !.state = [s.state EXCEPT ![t] = "DORMANT"],
                      !.reason = [s.reason EXCEPT ![t] = "NONE"],
                      !.rc = [s.rc EXCEPT ![t] = "NO_ERR"],
                      !.wake = [s.wake EXCEPT ![t] = 0]]
    BY <1>1 DEF task_set_init_state, Sched
  <2> QED BY <1>1, <2>1, <2>2, ZenonT(40) DEF Sched
<1>3. /\ r.ready = s.ready /\ r.timers = s.timers /\ r.wq = s.wq /\ r.next = s.next
      /\ r.state = [s.state EXCEPT ![t] = "DORMANT"]
      /\ r.reason = [s.reason EXCEPT ![t] = "NONE"]
      /\ r.tick = [s.tick EXCEPT ![t] = Infinite]
      /\ r.pwait = [s.pwait EXCEPT ![t] = NoQueue]
      /\ r.prio = s.prio /\ r.act = s.act
  BY <1>1 DEF task_set_init_state, Sched
<1>4. /\ r.state[t] = "DORMANT" /\ r.reason[t] = "NONE"
      /\ r.tick[t] = Infinite /\ r.pwait[t] = NoQueue
      /\ \A u \in Task \ {t} : /\ r.state[u] = s.state[u] /\ r.reason[u] = s.reason[u]
                               /\ r.tick[u] = s.tick[u] /\ r.pwait[u] = s.pwait[u]
  BY <1>1, <1>3 DEF Sched
<1>5. Apart(r, t)
  BY <1>2, <1>3, <1>4 DEF Apart, FieldsOK
<1>6. FieldsOK(r, t)
  BY <1>4 DEF FieldsOK, Waiting
<1> QED BY <1>3, <1>4, <1>5, <1>6, ApartIdles

\* A running task that gets a new priority keeps its place among the ready ones.
LEMMA PriorityChanges ==
  ASSUME NEW s, SchedOK(s), NextReady(s), NEW t \in Task, s.state[t] = "RUNNABLE",
         NEW p \in Nat, NEW r, r = change_running_task_priority(s, t, p)
  PROVE  SchedOK(r) /\ NextReady(r) /\ r.state = s.state
<1> DEFINE q == RemoveAt(s.ready, Position(s.ready, t))
           m == [s EXCEPT !.ready = Append(q, t), !.prio[t] = p]
<1>1. s \in Sched /\ s.ready \in Seq(Task) /\ NoDuplicates(s.ready) /\ t \in ToSet(s.ready)
  BY DEF SchedOK, ReadyOK, Sched
<1>2. q \in Seq(Task) /\ NoDuplicates(q) /\ ToSet(q) = ToSet(s.ready) \ {t}
  BY <1>1, RemoveElement
<1> HIDE DEF q
<1>3. /\ Append(q, t) \in Seq(Task) /\ NoDuplicates(Append(q, t))
      /\ ToSet(Append(q, t)) = ToSet(s.ready)
  <2>1. t \notin ToSet(q)
    BY <1>2
  <2>2. /\ Append(q, t) \in Seq(Task) /\ NoDuplicates(Append(q, t))
        /\ ToSet(Append(q, t)) = ToSet(q) \cup {t}
    BY <1>2, <2>1, AppendElement
  <2> QED BY <1>1, <1>2, <2>2
<1>4. m \in Sched
  BY <1>1, <1>3 DEF Sched
<1>5. /\ m.ready = Append(q, t) /\ m.timers = s.timers /\ m.wq = s.wq /\ m.state = s.state
      /\ m.tick = s.tick /\ m.reason = s.reason /\ m.pwait = s.pwait /\ m.next = s.next
  BY <1>1 DEF Sched
<1>6. r = IF s.next = t
          THEN IF p >= s.prio[t] THEN find_next_task_to_run(m, t) ELSE m
          ELSE IF p < s.prio[s.next] THEN [m EXCEPT !.next = t] ELSE m
  BY DEF change_running_task_priority, q
<1> HIDE DEF m
<1>7. NextReady(m)
  BY <1>3, <1>5 DEF NextReady
<1>8. /\ r \in Sched /\ NextReady(r)
      /\ r.ready = m.ready /\ r.timers = m.timers /\ r.wq = m.wq /\ r.state = m.state
      /\ r.tick = m.tick /\ r.reason = m.reason /\ r.pwait = m.pwait
  <2>1. CASE r = m
    BY <1>4, <1>7, <2>1
  <2>2. CASE r = find_next_task_to_run(m, t)
    <3>1. t \in ToSet(m.ready)
      BY <1>1, <1>3, <1>5
    <3> QED BY <1>4, <2>2, <3>1, FindNextChooses DEF SameButChoice
  <2>3. CASE r = [m EXCEPT !.next = t]
    <3>1. t \in ToSet(m.ready)
      BY <1>1, <1>3, <1>5
    <3> QED BY <1>4, <2>3, <3>1 DEF Sched, NextReady
  <2> QED BY <1>6, <2>1, <2>2, <2>3
<1>9. ReadyOK(r) /\ TimersOK(r) /\ WaitQueuesOK(r) /\ WaitFieldsOK(r)
  BY <1>3, <1>5, <1>8 DEF SchedOK, ReadyOK, TimersOK, WaitQueuesOK, WaitFieldsOK
<1> QED BY <1>5, <1>8, <1>9 DEF SchedOK

\* The choice at the end of the tick.
LEMMA RotateKeeps ==
  ASSUME NEW s, SchedOK(s), NextReady(s), NEW before, NEW r, r = RotateUnless(s, before)
  PROVE  /\ SchedOK(r) /\ NextReady(r) /\ r.state = s.state /\ r.wq = s.wq
         /\ r.pwait = s.pwait /\ r.reason = s.reason /\ r.tick = s.tick /\ r.rc = s.rc
<1>1. CASE s.next = before
  <2>1. s.next \in ToSet(s.ready) /\ r = find_next_task_to_run(s, s.next) /\ s \in Sched
    BY <1>1 DEF NextReady, RotateUnless, SchedOK
  <2>2. r \in Sched /\ SameButChoice(s, r) /\ NextReady(r)
    BY <2>1, FindNextChooses
  <2>3. ReadyOK(r) /\ TimersOK(r) /\ WaitQueuesOK(r) /\ WaitFieldsOK(r)
    BY <2>2 DEF SameButChoice, SchedOK, ReadyOK, TimersOK, WaitQueuesOK, WaitFieldsOK
  <2> QED BY <2>2, <2>3 DEF SchedOK, SameButChoice
<1>2. CASE s.next # before
  BY <1>2 DEF RotateUnless
<1> QED BY <1>1, <1>2
-----------------------------------------------------------------------------
(* The wait queues: only task_curr_to_wait_action puts a task into one *)

\* A step by which nobody joins a wait queue: an empty one stays empty.
NobodyJoins(s, r) == \A q \in Queue : s.wq[q] = << >> => r.wq[q] = << >>

\* The walk and the operations of the ready list leave the wait queues alone.
LEMMA WalkLeavesQueues ==
  ASSUME NEW s, "wq" \in DOMAIN s, NEW start, NEW r, r = WalkFrom(s, start)
  PROVE  r.wq = s.wq /\ DOMAIN r = DOMAIN s
BY DEF WalkFrom

LEMMA RunnableLeavesQueues ==
  ASSUME NEW s, "wq" \in DOMAIN s, NEW t, NEW r, r = task_to_runnable(s, t)
  PROVE  r.wq = s.wq /\ DOMAIN r = DOMAIN s
<1> DEFINE m == [s EXCEPT !.state[t] = "RUNNABLE", !.pwait[t] = NoQueue,
                          !.ready = Append(s.ready, t)]
<1>1. m.wq = s.wq /\ DOMAIN m = DOMAIN s /\ r = WalkFrom(m, Len(m.ready))
  BY DEF task_to_runnable
<1> HIDE DEF m
<1> QED BY <1>1, WalkLeavesQueues

LEMMA NonRunnableLeavesQueues ==
  ASSUME NEW s, "wq" \in DOMAIN s, NEW t, NEW r, r = task_to_non_runnable(s, t)
  PROVE  r.wq = s.wq /\ DOMAIN r = DOMAIN s
<1> DEFINE p == Position(s.ready, t)
           m == [s EXCEPT !.ready = RemoveAt(s.ready, p)]
<1>1. m.wq = s.wq /\ DOMAIN m = DOMAIN s /\ r = WalkFrom(m, p - 1)
  BY DEF task_to_non_runnable
<1> HIDE DEF m, p
<1> QED BY <1>1, WalkLeavesQueues

\* The end of a wait takes a task out of its queue and puts none into another.
LEMMA WaitEndJoinsNone ==
  ASSUME NEW s, "wq" \in DOMAIN s, NEW t, NEW r, r = task_wait_complete(s, t)
  PROVE  NobodyJoins(s, r) /\ DOMAIN r = DOMAIN s
<1> DEFINE l == LeaveQueues(s, t)
           a == [l EXCEPT !.rc[t] = "NO_ERR"]
           b == IF Suspended(s.state[t]) THEN [a EXCEPT !.state[t] = "SUSPEND"]
                                         ELSE task_to_runnable(a, t)
<1>1. r = [b EXCEPT !.reason[t] = "NONE"]
  BY DEF task_wait_complete
<1>2. /\ l.wq = [q \in Queue |-> IF q = s.pwait[t] THEN Unlinked(s.wq[q], t) ELSE s.wq[q]]
      /\ DOMAIN l = DOMAIN s
  BY DEF LeaveQueues
<1> HIDE DEF l
<1>3. a.wq = l.wq /\ DOMAIN a = DOMAIN s
  BY <1>2
<1> HIDE DEF a
<1>4. b.wq = l.wq /\ DOMAIN b = DOMAIN s
  <2>1. CASE Suspended(s.state[t])
    BY <1>3, <2>1
  <2>2. CASE ~Suspended(s.state[t])
    BY <1>3, <2>2, RunnableLeavesQueues
  <2> QED BY <2>1, <2>2
<1> HIDE DEF b
<1>5. r.wq = l.wq /\ DOMAIN r = DOMAIN s
  BY <1>1, <1>4
<1>6. Unlinked(<< >>, t) = << >>
  BY DEF Unlinked, ToSet
<1> QED BY <1>2, <1>5, <1>6 DEF NobodyJoins

\* The task that starts to wait joins the queue it is told to and no other.
LEMMA CurrentJoins ==
  ASSUME NEW s, "wq" \in DOMAIN s, NEW t, NEW q, NEW reason, NEW timeout,
         NEW r, r = task_curr_to_wait_action(s, t, q, reason, timeout)
  PROVE  \A x \in Queue \ {q} : r.wq[x] = s.wq[x]
<1> DEFINE n == task_to_non_runnable(s, t)
<1>1. n.wq = s.wq /\ DOMAIN n = DOMAIN s
  BY NonRunnableLeavesQueues
<1>2. r = [n EXCEPT !.state[t]  = "WAIT", !.reason[t] = reason, !.tick[t]   = timeout,
                    !.pwait[t]  = q,
                    !.wq     = [x \in Queue |-> IF x = q THEN Append(n.wq[x], t) ELSE n.wq[x]],
                    !.timers = IF timeout = Infinite THEN n.timers ELSE Append(n.timers, t)]
  BY DEF task_curr_to_wait_action
<1> HIDE DEF n
<1>3. r.wq = [x \in Queue |-> IF x = q THEN Append(n.wq[x], t) ELSE n.wq[x]]
  BY <1>1, <1>2
<1> QED BY <1>1, <1>3
-----------------------------------------------------------------------------
(* What the operations write into the TCBs, field by field *)

\* The operations of the lists as changes of a record whose fields have these names.
Fields == {"ready", "next", "timers", "wq", "state", "prio", "skip", "tick", "reason", "rc",
           "pwait", "wake", "act"}

LEMMA SchedFields == \A s \in Sched : DOMAIN s = Fields
BY DEF Sched, Fields

LEMMA RunnableEffects ==
  ASSUME NEW s, DOMAIN s = Fields, NEW t, NEW r, r = task_to_runnable(s, t)
  PROVE  /\ DOMAIN r = Fields
         /\ r.state = [s.state EXCEPT ![t] = "RUNNABLE"]
         /\ r.pwait = [s.pwait EXCEPT ![t] = NoQueue]
         /\ r.timers = s.timers /\ r.wq = s.wq /\ r.tick = s.tick /\ r.reason = s.reason
         /\ r.rc = s.rc /\ r.prio = s.prio /\ r.wake = s.wake /\ r.act = s.act
<1> DEFINE m == [s EXCEPT !.state[t] = "RUNNABLE", !.pwait[t] = NoQueue,
                          !.ready = Append(s.ready, t)]
<1>1. /\ DOMAIN m = Fields /\ r = WalkFrom(m, Len(m.ready))
      /\ m.state = [s.state EXCEPT ![t] = "RUNNABLE"]
      /\ m.pwait = [s.pwait EXCEPT ![t] = NoQueue]
      /\ m.timers = s.timers /\ m.wq = s.wq /\ m.tick = s.tick /\ m.reason = s.reason
      /\ m.rc = s.rc /\ m.prio = s.prio /\ m.wake = s.wake /\ m.act = s.act
  BY DEF task_to_runnable, Fields
<1> HIDE DEF m
<1>2. /\ DOMAIN r = Fields /\ r.state = m.state /\ r.pwait = m.pwait
      /\ r.timers = m.timers /\ r.wq = m.wq /\ r.tick = m.tick /\ r.reason = m.reason
      /\ r.rc = m.rc /\ r.prio = m.prio /\ r.wake = m.wake /\ r.act = m.act
  BY <1>1 DEF WalkFrom, Fields
<1> QED BY <1>1, <1>2

\* Of the states, only that of the task that becomes ready changes.
LEMMA OnlyOneRuns ==
  ASSUME NEW s, DOMAIN s = Fields, s.state \in [Task -> States], NEW t \in Task,
         NEW r, r = task_to_runnable(s, t)
  PROVE  r.state[t] = "RUNNABLE" /\ \A u \in Task \ {t} : r.state[u] = s.state[u]
<1> DEFINE m == [s EXCEPT !.state[t] = "RUNNABLE", !.pwait[t] = NoQueue,
                          !.ready = Append(s.ready, t)]
<1>1. /\ DOMAIN m = Fields /\ r = WalkFrom(m, Len(m.ready))
      /\ m.state = [s.state EXCEPT ![t] = "RUNNABLE"]
  BY DEF task_to_runnable, Fields
<1> HIDE DEF m
<1>2. r.state = m.state
  BY <1>1 DEF WalkFrom, Fields
<1> QED BY <1>1, <1>2

LEMMA NonRunnableEffects ==
  ASSUME NEW s, DOMAIN s = Fields, NEW t, NEW r, r = task_to_non_runnable(s, t)
  PROVE  /\ DOMAIN r = Fields
         /\ r.state = s.state /\ r.pwait = s.pwait
         /\ r.timers = s.timers /\ r.wq = s.wq /\ r.tick = s.tick /\ r.reason = s.reason
         /\ r.rc = s.rc /\ r.prio = s.prio /\ r.wake = s.wake /\ r.act = s.act
<1> DEFINE p == Position(s.ready, t)
           m == [s EXCEPT !.ready = RemoveAt(s.ready, p)]
<1>1. /\ DOMAIN m = Fields /\ r = WalkFrom(m, p - 1)
      /\ m.state = s.state /\ m.pwait = s.pwait
      /\ m.timers = s.timers /\ m.wq = s.wq /\ m.tick = s.tick /\ m.reason = s.reason
      /\ m.rc = s.rc /\ m.prio = s.prio /\ m.wake = s.wake /\ m.act = s.act
  BY DEF task_to_non_runnable, Fields
<1> HIDE DEF m, p
<1>2. /\ DOMAIN r = Fields /\ r.state = m.state /\ r.pwait = m.pwait
      /\ r.timers = m.timers /\ r.wq = m.wq /\ r.tick = m.tick /\ r.reason = m.reason
      /\ r.rc = m.rc /\ r.prio = m.prio /\ r.wake = m.wake /\ r.act = m.act
  BY <1>1 DEF WalkFrom, Fields
<1> QED BY <1>1, <1>2

\* The end of a wait writes these fields of the one task, and ERR_NO_ERR.
LEMMA WaitEffects ==
  ASSUME NEW s, s \in Sched, NEW t \in Task, NEW r, r = task_wait_complete(s, t)
  PROVE  /\ DOMAIN r = Fields
         /\ r.state[t] = (IF Suspended(s.state[t]) THEN "SUSPEND" ELSE "RUNNABLE")
         /\ r.pwait[t] = NoQueue /\ r.tick[t] = Infinite /\ r.reason[t] = "NONE"
         /\ r.rc[t] = "NO_ERR"
         /\ \A u \in Task \ {t} :
              /\ r.state[u] = s.state[u] /\ r.pwait[u] = s.pwait[u] /\ r.tick[u] = s.tick[u]
              /\ r.reason[u] = s.reason[u] /\ r.rc[u] = s.rc[u]
         /\ \A q \in Queue : r.wq[q] = IF q = s.pwait[t] THEN Unlinked(s.wq[q], t) ELSE s.wq[q]
         /\ r.timers = (IF s.tick[t] # Infinite THEN Unlinked(s.timers, t) ELSE s.timers)
         /\ r.prio = s.prio /\ r.wake = s.wake /\ r.act = s.act
<1> DEFINE a == [LeaveQueues(s, t) EXCEPT !.rc[t] = "NO_ERR"]
           b == IF Suspended(s.state[t]) THEN [a EXCEPT !.state[t] = "SUSPEND"]
                                         ELSE task_to_runnable(a, t)
<1>1. r = [b EXCEPT !.reason[t] = "NONE"]
  BY DEF task_wait_complete
<1>2. DOMAIN s = Fields
  BY SchedFields
<1>3. /\ DOMAIN a = Fields
      /\ a.state = s.state /\ a.reason = s.reason
      /\ a.pwait  = [s.pwait EXCEPT ![t] = NoQueue]
      /\ a.tick   = [s.tick EXCEPT ![t] = Infinite]
      /\ a.rc     = [s.rc EXCEPT ![t] = "NO_ERR"]
      /\ a.wq     = [q \in Queue |-> IF q = s.pwait[t] THEN Unlinked(s.wq[q], t) ELSE s.wq[q]]
      /\ a.timers = IF s.tick[t] # Infinite THEN Unlinked(s.timers, t) ELSE s.timers
      /\ a.prio = s.prio /\ a.wake = s.wake /\ a.act = s.act
  BY <1>2 DEF LeaveQueues, Fields
<1>4. s.pwait \in [Task -> Queue \cup {NoQueue}] /\ s.state \in [Task -> States]
  BY DEF Sched
<1> HIDE DEF a
<1>5. /\ DOMAIN b = Fields
      /\ b.state = [s.state EXCEPT ![t] = IF Suspended(s.state[t]) THEN "SUSPEND"
                                          ELSE "RUNNABLE"]
      /\ b.pwait = a.pwait /\ b.tick = a.tick /\ b.reason = a.reason /\ b.rc = a.rc
      /\ b.wq = a.wq /\ b.timers = a.timers
      /\ b.prio = a.prio /\ b.wake = a.wake /\ b.act = a.act
  <2>1. CASE Suspended(s.state[t])
    BY <1>3, <2>1 DEF Fields
  <2>2. CASE ~Suspended(s.state[t])
    <3>1. b = task_to_runnable(a, t)
      BY <2>2
    <3>2. DOMAIN a = Fields
      BY <1>3
    <3> HIDE DEF b
    <3>3. /\ DOMAIN b = Fields
          /\ b.state = [a.state EXCEPT ![t] = "RUNNABLE"]
          /\ b.pwait = [a.pwait EXCEPT ![t] = NoQueue]
          /\ b.timers = a.timers /\ b.wq = a.wq /\ b.tick = a.tick /\ b.reason = a.reason
          /\ b.rc = a.rc /\ b.prio = a.prio /\ b.wake = a.wake /\ b.act = a.act
      BY <3>1, <3>2, RunnableEffects
    <3>4. [a.pwait EXCEPT ![t] = NoQueue] = a.pwait
      BY <1>3, <1>4
    <3> QED BY <1>3, <2>2, <3>3, <3>4
  <2> QED BY <2>1, <2>2
<1> HIDE DEF b
<1>6. /\ DOMAIN r = Fields
      /\ r.state = [s.state EXCEPT ![t] = IF Suspended(s.state[t]) THEN "SUSPEND"
                                          ELSE "RUNNABLE"]
      /\ r.pwait  = [s.pwait EXCEPT ![t] = NoQueue]
      /\ r.tick   = [s.tick EXCEPT ![t] = Infinite]
      /\ r.reason = [s.reason EXCEPT ![t] = "NONE"]
      /\ r.rc     = [s.rc EXCEPT ![t] = "NO_ERR"]
      /\ r.wq     = [q \in Queue |-> IF q = s.pwait[t] THEN Unlinked(s.wq[q], t) ELSE s.wq[q]]
      /\ r.timers = (IF s.tick[t] # Infinite THEN Unlinked(s.timers, t) ELSE s.timers)
      /\ r.prio = s.prio /\ r.wake = s.wake /\ r.act = s.act
  BY <1>1, <1>3, <1>5 DEF Fields
<1>7. /\ s.state \in [Task -> States] /\ s.pwait \in [Task -> Queue \cup {NoQueue}]
      /\ s.tick \in [Task -> Nat \cup {Infinite}] /\ s.reason \in [Task -> Reasons]
      /\ s.rc \in [Task -> Codes]
  BY DEF Sched
<1> QED BY <1>6, <1>7

\* The start of a wait writes these fields of the caller.
LEMMA CurrentWaitEffects ==
  ASSUME NEW s, s \in Sched, NEW t \in Task, NEW q, NEW reason, NEW timeout,
         NEW r, r = task_curr_to_wait_action(s, t, q, reason, timeout)
  PROVE  /\ DOMAIN r = Fields
         /\ r.state[t] = "WAIT" /\ r.pwait[t] = q /\ r.tick[t] = timeout
         /\ r.reason[t] = reason
         /\ \A u \in Task \ {t} :
              /\ r.state[u] = s.state[u] /\ r.pwait[u] = s.pwait[u] /\ r.tick[u] = s.tick[u]
              /\ r.reason[u] = s.reason[u]
         /\ \A x \in Queue : r.wq[x] = IF x = q THEN Append(s.wq[x], t) ELSE s.wq[x]
         /\ r.rc = s.rc /\ r.prio = s.prio /\ r.wake = s.wake /\ r.act = s.act
<1> DEFINE n == task_to_non_runnable(s, t)
<1>1. DOMAIN s = Fields
  BY SchedFields
<1>2. /\ DOMAIN n = Fields /\ n.state = s.state /\ n.pwait = s.pwait /\ n.wq = s.wq
      /\ n.tick = s.tick /\ n.reason = s.reason
      /\ n.rc = s.rc /\ n.prio = s.prio /\ n.wake = s.wake /\ n.act = s.act
  BY <1>1, NonRunnableEffects
<1>3. r = [n EXCEPT !.state[t]  = "WAIT", !.reason[t] = reason, !.tick[t]   = timeout,
                    !.pwait[t]  = q,
                    !.wq     = [x \in Queue |-> IF x = q THEN Append(n.wq[x], t) ELSE n.wq[x]],
                    !.timers = IF timeout = Infinite THEN n.timers ELSE Append(n.timers, t)]
  BY DEF task_curr_to_wait_action
<1> HIDE DEF n
<1>4. /\ DOMAIN r = Fields
      /\ r.state = [s.state EXCEPT ![t] = "WAIT"]
      /\ r.pwait  = [s.pwait EXCEPT ![t] = q]
      /\ r.tick   = [s.tick EXCEPT ![t] = timeout]
      /\ r.reason = [s.reason EXCEPT ![t] = reason]
      /\ r.wq     = [x \in Queue |-> IF x = q THEN Append(s.wq[x], t) ELSE s.wq[x]]
      /\ r.rc = s.rc /\ r.prio = s.prio /\ r.wake = s.wake /\ r.act = s.act
  BY <1>2, <1>3 DEF Fields
<1>5. /\ s.state \in [Task -> States] /\ s.pwait \in [Task -> Queue \cup {NoQueue}]
      /\ s.tick \in [Task -> Nat \cup {Infinite}] /\ s.reason \in [Task -> Reasons]
  BY DEF Sched
<1> QED BY <1>4, <1>5
-----------------------------------------------------------------------------
(* The timeout scan *)

\* Between two states of a tick, the state of a task changes only by the end of its
\* wait, which takes it out of its queue; and nobody joins a wait queue.
OnlyEndsWaits(s, r) ==
  /\ \A u \in Task : \/ /\ r.state[u] = s.state[u] /\ r.pwait[u] = s.pwait[u]
                        /\ r.reason[u] = s.reason[u]
                     \/ /\ \/ s.state[u] = "WAIT" /\ r.state[u] = "RUNNABLE"
                           \/ s.state[u] = "WAITSUSP" /\ r.state[u] = "SUSPEND"
                        /\ r.pwait[u] = NoQueue
  /\ NobodyJoins(s, r)

LEMMA EndsWaitsOnAndOn ==
  ASSUME NEW s, NEW m, NEW r, OnlyEndsWaits(s, m), OnlyEndsWaits(m, r)
  PROVE  OnlyEndsWaits(s, r)
<1>1. ASSUME NEW u \in Task
      PROVE  \/ /\ r.state[u] = s.state[u] /\ r.pwait[u] = s.pwait[u]
                /\ r.reason[u] = s.reason[u]
             \/ /\ \/ s.state[u] = "WAIT" /\ r.state[u] = "RUNNABLE"
                   \/ s.state[u] = "WAITSUSP" /\ r.state[u] = "SUSPEND"
                /\ r.pwait[u] = NoQueue
  BY DEF OnlyEndsWaits
<1>2. NobodyJoins(s, r)
  BY DEF OnlyEndsWaits, NobodyJoins
<1> QED BY <1>1, <1>2 DEF OnlyEndsWaits

LEMMA NoWaitEnds == \A s : OnlyEndsWaits(s, s)
BY DEF OnlyEndsWaits, NobodyJoins

\* The wait of the task t goes on for a millisecond less.
CountedDown(s, t, ms) ==
  [s EXCEPT !.tick[t] = IF ms /\ s.tick[t] > 0 THEN s.tick[t] - 1 ELSE s.tick[t]]

\* That leaves everything in order unless the time is over, and then all but the task itself.
LEMMA CountDownKeeps ==
  ASSUME NEW s, SchedOK(s), NextReady(s), NEW t \in Task, Waiting(s.state[t]),
         NEW ms \in BOOLEAN, NEW m, m = CountedDown(s, t, ms)
  PROVE  /\ m \in Sched /\ ReadyOK(m) /\ TimersOK(m) /\ WaitQueuesOK(m) /\ NextReady(m)
         /\ \A u \in Task \ {t} : FieldsOK(m, u) /\ m.tick[u] = s.tick[u]
         /\ m.tick[t] = (IF ms /\ s.tick[t] > 0 THEN s.tick[t] - 1 ELSE s.tick[t])
         /\ m.timers = s.timers /\ m.wq = s.wq /\ m.state = s.state
         /\ m.reason = s.reason /\ m.pwait = s.pwait /\ m.rc = s.rc
         /\ m.tick[t] # 0 => SchedOK(m)
<1> DEFINE n == IF ms /\ s.tick[t] > 0 THEN s.tick[t] - 1 ELSE s.tick[t]
<1>1. /\ s \in Sched /\ s.tick \in [Task -> Nat \cup {Infinite}] /\ Infinite = -1
      /\ s.tick[t] # 0 /\ s.reason[t] # "NONE" /\ DOMAIN s = Fields
  BY SchedFields DEF SchedOK, Sched, Infinite, WaitFieldsOK
<1>2. n \in Nat \cup {Infinite} /\ (n # Infinite <=> s.tick[t] # Infinite)
  BY <1>1
<1>3. m = [s EXCEPT !.tick = [s.tick EXCEPT ![t] = n]]
  BY DEF CountedDown
<1>4. [s.tick EXCEPT ![t] = n] \in [Task -> Nat \cup {Infinite}]
  BY <1>1, <1>2
<1> HIDE DEF n
<1>5. /\ m \in Sched /\ m.tick = [s.tick EXCEPT ![t] = n]
      /\ m.ready = s.ready /\ m.timers = s.timers /\ m.wq = s.wq /\ m.state = s.state
      /\ m.reason = s.reason /\ m.pwait = s.pwait /\ m.next = s.next /\ m.rc = s.rc
  BY <1>1, <1>3, <1>4 DEF Sched
<1>6. m.tick[t] = n /\ \A u \in Task \ {t} : m.tick[u] = s.tick[u]
  BY <1>1, <1>5
<1>7. \A u \in Task : m.tick[u] # Infinite <=> s.tick[u] # Infinite
  BY <1>2, <1>6
<1>8. ReadyOK(m) /\ TimersOK(m) /\ WaitQueuesOK(m) /\ NextReady(m)
  BY <1>5, <1>7 DEF SchedOK, ReadyOK, TimersOK, WaitQueuesOK, NextReady
<1>9. \A u \in Task \ {t} : FieldsOK(m, u)
  BY <1>5, <1>6 DEF SchedOK, WaitFieldsOK, FieldsOK
<1>10. ASSUME m.tick[t] # 0 PROVE SchedOK(m)
  <2>1. FieldsOK(m, t)
    BY <1>1, <1>5, <1>10 DEF FieldsOK
  <2>2. \A u \in Task : FieldsOK(m, u)
    BY <1>9, <2>1
  <2>3. WaitFieldsOK(m)
    BY <2>2 DEF WaitFieldsOK, FieldsOK
  <2> QED BY <1>5, <1>8, <2>3 DEF SchedOK
<1> QED BY <1>5, <1>6, <1>8, <1>9, <1>10 DEF n

\* A wait that ends in the tick: ms is counted, and the wait ends whether or not the
\* time is over.
LEMMA CountedWaitEnds ==
  ASSUME NEW s, SchedOK(s), NextReady(s), NEW t \in Task, Waiting(s.state[t]),
         NEW ms \in BOOLEAN, NEW r, r = task_wait_complete(CountedDown(s, t, ms), t)
  PROVE  /\ SchedOK(r) /\ NextReady(r) /\ OnlyEndsWaits(s, r)
         /\ ~Waiting(r.state[t]) /\ r.pwait[t] = NoQueue
         /\ \A u \in Task \ {t} : /\ r.state[u] = s.state[u] /\ r.pwait[u] = s.pwait[u]
                                  /\ r.tick[u] = s.tick[u] /\ r.rc[u] = s.rc[u]
<1> DEFINE m == CountedDown(s, t, ms)
<1>1. /\ m \in Sched /\ ReadyOK(m) /\ TimersOK(m) /\ WaitQueuesOK(m) /\ NextReady(m)
      /\ \A u \in Task \ {t} : FieldsOK(m, u) /\ m.tick[u] = s.tick[u]
      /\ m.wq = s.wq /\ m.state = s.state
      /\ m.reason = s.reason /\ m.pwait = s.pwait /\ m.rc = s.rc
  BY CountDownKeeps
<1>2. r = task_wait_complete(m, t)
  OBVIOUS
<1> HIDE DEF m
<1>3. SchedOK(r) /\ NextReady(r)
  <2>1. /\ m \in Sched /\ ReadyOK(m) /\ TimersOK(m) /\ WaitQueuesOK(m) /\ NextReady(m)
        /\ \A u \in Task \ {t} : FieldsOK(m, u)
        /\ Waiting(m.state[t])
    BY <1>1
  <2> QED BY <1>2, <2>1, WaitCompletes
<1>4. /\ r.state[t] = (IF Suspended(m.state[t]) THEN "SUSPEND" ELSE "RUNNABLE")
      /\ r.pwait[t] = NoQueue
      /\ \A u \in Task \ {t} :
           /\ r.state[u] = m.state[u] /\ r.pwait[u] = m.pwait[u] /\ r.tick[u] = m.tick[u]
           /\ r.reason[u] = m.reason[u] /\ r.rc[u] = m.rc[u]
  <2>1. m \in Sched
    BY <1>1
  <2> QED BY <1>2, <2>1, WaitEffects
<1>5. "wq" \in DOMAIN m
  BY <1>1 DEF Sched
<1>6. /\ r.pwait[t] = NoQueue
      /\ \/ s.state[t] = "WAIT" /\ r.state[t] = "RUNNABLE"
         \/ s.state[t] = "WAITSUSP" /\ r.state[t] = "SUSPEND"
  BY <1>1, <1>4 DEF Waiting, Suspended
<1>7. \A u \in Task \ {t} :
        /\ r.state[u] = s.state[u] /\ r.pwait[u] = s.pwait[u] /\ r.reason[u] = s.reason[u]
        /\ r.tick[u] = s.tick[u] /\ r.rc[u] = s.rc[u]
  BY <1>1, <1>4
<1>8. NobodyJoins(s, r)
  BY <1>1, <1>2, <1>5, WaitEndJoinsNone DEF NobodyJoins
<1>9. OnlyEndsWaits(s, r)
  BY <1>6, <1>7, <1>8 DEF OnlyEndsWaits
<1>10. ~Waiting(r.state[t])
  BY <1>6 DEF Waiting
<1> QED BY <1>3, <1>6, <1>7, <1>9, <1>10

\* The time a wait that goes on has left after the scan.
CountedOnce(s, u, ms) == s.tick[u] - (IF ms /\ s.tick[u] # Infinite THEN 1 ELSE 0)

\* One task of the scan: its wait ends with ERR_TIMEOUT when its last millisecond is
\* over, and goes on otherwise. Nothing else happens to a task.
LEMMA TimerStepKeeps ==
  ASSUME NEW s, SchedOK(s), NextReady(s), NEW t \in Task, NEW ms \in BOOLEAN,
         NEW r, r = TimerStep(s, t, ms)
  PROVE  /\ SchedOK(r) /\ NextReady(r) /\ OnlyEndsWaits(s, r)
         /\ IF ms /\ s.tick[t] = 1 THEN ~Waiting(r.state[t]) /\ r.rc[t] = "TIMEOUT"
            ELSE r.state[t] = s.state[t] /\ r.tick[t] = CountedOnce(s, t, ms)
         /\ \A u \in Task \ {t} : /\ r.state[u] = s.state[u] /\ r.tick[u] = s.tick[u]
                                  /\ r.rc[u] = s.rc[u]
<1> DEFINE m == CountedDown(s, t, ms)
           c == task_wait_complete(m, t)
<1>1. s \in Sched /\ s.tick \in [Task -> Nat \cup {Infinite}] /\ Infinite = -1
  BY DEF SchedOK, Sched, Infinite
<1>2. r = IF s.tick[t] > 0 /\ m.tick[t] = 0 THEN [c EXCEPT !.rc[t] = "TIMEOUT"] ELSE m
  BY DEF TimerStep, CountedDown
<1>3. CASE ~Waiting(s.state[t])
  <2>1. s.tick[t] = Infinite
    BY <1>3 DEF SchedOK, WaitFieldsOK
  <2>2. m = s
    BY <1>1, <2>1 DEF CountedDown, Sched
  <2>3. r = s
    BY <1>1, <1>2, <2>1, <2>2
  <2> HIDE DEF m, c
  <2>4. CountedOnce(s, t, ms) = s.tick[t]
    BY <1>1, <2>1 DEF CountedOnce
  <2> QED BY <1>1, <2>1, <2>3, <2>4, NoWaitEnds
<1>4. CASE Waiting(s.state[t])
  <2> HIDE DEF c
  <2>1. /\ m.state = s.state /\ m.pwait = s.pwait /\ m.reason = s.reason /\ m.wq = s.wq
        /\ m.rc = s.rc /\ NextReady(m)
        /\ \A u \in Task \ {t} : m.tick[u] = s.tick[u]
        /\ m.tick[t] = (IF ms /\ s.tick[t] > 0 THEN s.tick[t] - 1 ELSE s.tick[t])
        /\ m.tick[t] # 0 => SchedOK(m)
    BY <1>4, CountDownKeeps
  <2>2. s.tick[t] # 0 /\ s.tick[t] \in Nat \cup {-1}
    BY <1>1, <1>4 DEF SchedOK, WaitFieldsOK
  <2> HIDE DEF m
  <2>3. CASE ms /\ s.tick[t] = 1
    <3>1. r = [c EXCEPT !.rc[t] = "TIMEOUT"]
      BY <1>2, <2>1, <2>3
    <3>2. c = task_wait_complete(CountedDown(s, t, ms), t)
      BY DEF c, m
    <3>3. /\ SchedOK(c) /\ NextReady(c) /\ OnlyEndsWaits(s, c) /\ ~Waiting(c.state[t])
          /\ \A u \in Task \ {t} : /\ c.state[u] = s.state[u] /\ c.tick[u] = s.tick[u]
                                   /\ c.rc[u] = s.rc[u]
      BY <1>4, <3>2, CountedWaitEnds
    <3>4. c \in Sched /\ c.rc \in [Task -> Codes]
      BY <3>3 DEF SchedOK, Sched
    <3>5. /\ r \in Sched /\ r.ready = c.ready /\ r.timers = c.timers /\ r.wq = c.wq
          /\ r.state = c.state /\ r.tick = c.tick /\ r.reason = c.reason
          /\ r.pwait = c.pwait /\ r.next = c.next
          /\ r.rc = [c.rc EXCEPT ![t] = "TIMEOUT"]
      <4>1. [c.rc EXCEPT ![t] = "TIMEOUT"] \in [Task -> Codes]
        BY <3>4 DEF Codes
      <4>2. r = [c EXCEPT !.rc = [c.rc EXCEPT ![t] = "TIMEOUT"]]
        BY <3>1
      <4> QED BY <3>4, <4>1, <4>2 DEF Sched
    <3>6. SchedOK(r) /\ NextReady(r)
      BY <3>3, <3>5
         DEF SchedOK, ReadyOK, TimersOK, WaitQueuesOK, WaitFieldsOK, NextReady
    <3>7. OnlyEndsWaits(s, r)
      BY <3>3, <3>5 DEF OnlyEndsWaits, NobodyJoins
    <3>8. r.rc[t] = "TIMEOUT" /\ \A u \in Task \ {t} : r.rc[u] = c.rc[u]
      BY <3>4, <3>5
    <3> QED BY <2>3, <3>3, <3>5, <3>6, <3>7, <3>8, ZenonT(30)
  <2>4. CASE ~(ms /\ s.tick[t] = 1)
    <3>1. r = m /\ m.tick[t] # 0
      BY <1>2, <2>1, <2>2, <2>4
    <3>2. OnlyEndsWaits(s, r)
      BY <2>1, <3>1 DEF OnlyEndsWaits, NobodyJoins
    <3>3. r.tick[t] = CountedOnce(s, t, ms)
      BY <1>1, <2>1, <2>2, <3>1 DEF CountedOnce
    <3> QED BY <2>1, <2>4, <3>1, <3>2, <3>3
  <2> QED BY <2>3, <2>4
<1> QED BY <1>3, <1>4

\* The scan's steps, up to the m-th task of the list q.
ScanUpTo(f, m, s, q, ms) ==
  f = [i \in 0..m |-> IF i = 0 THEN s ELSE TimerStep(f[i-1], q[i], ms)]

\* The scan of KernSched is defined by recursion on the list: there is such a function.
LEMMA ScanExists ==
  ASSUME NEW s, NEW ms, NEW q, Len(q) \in Nat
  PROVE  \E f : ScanUpTo(f, Len(q), s, q, ms)
<1> DEFINE G == {m \in 0..Len(q) : \E f : ScanUpTo(f, m, s, q, ms)}
<1>1. 0 \in G
  <2>1. ScanUpTo([i \in 0..0 |-> s], 0, s, q, ms)
    BY DEF ScanUpTo
  <2> QED BY <2>1
<1>2. ASSUME NEW m \in 1..Len(q), m-1 \in G
      PROVE  m \in G
  <2>1. PICK f : ScanUpTo(f, m-1, s, q, ms)
    BY <1>2
  <2> DEFINE g == [i \in 0..m |-> IF i = m THEN TimerStep(f[m-1], q[m], ms) ELSE f[i]]
  <2>2. ASSUME NEW i \in 0..m
        PROVE  g[i] = IF i = 0 THEN s ELSE TimerStep(g[i-1], q[i], ms)
    <3>1. CASE i = m
      <4>1. m-1 \in 0..m /\ m-1 # m /\ m \in 0..m /\ m # 0
        OBVIOUS
      <4>2. g[m-1] = f[m-1] /\ g[m] = TimerStep(f[m-1], q[m], ms)
        BY <4>1
      <4> QED BY <3>1, <4>1, <4>2
    <3>2. CASE i # m
      <4>1. i \in 0..(m-1) /\ (i # 0 => i-1 \in 0..(m-1))
        BY <3>2
      <4>2. g[i] = f[i] /\ (i # 0 => g[i-1] = f[i-1])
        BY <4>1
      <4>3. f[i] = IF i = 0 THEN s ELSE TimerStep(f[i-1], q[i], ms)
        BY <2>1, <4>1 DEF ScanUpTo
      <4> QED BY <4>2, <4>3
    <3> QED BY <3>1, <3>2
  <2>3. ScanUpTo(g, m, s, q, ms)
    BY <2>2 DEF ScanUpTo
  <2> QED BY <2>3
<1> HIDE DEF G
<1>3. Len(q) \in G
  BY <1>1, <1>2, UpTo
<1> QED BY <1>3 DEF G

\* The state of a task that the scan has come to.
Visited(s, r, u, ms) ==
  IF ms /\ s.tick[u] = 1 THEN ~Waiting(r.state[u]) /\ r.rc[u] = "TIMEOUT"
                         ELSE r.state[u] = s.state[u] /\ r.tick[u] = CountedOnce(s, u, ms)

\* The whole scan keeps everything in order, and ends the waits whose time is over.
LEMMA ScanKeeps ==
  ASSUME NEW s, SchedOK(s), NextReady(s), NEW ms \in BOOLEAN,
         NEW r, r = ScanTimeouts(s, ms)
  PROVE  /\ SchedOK(r) /\ NextReady(r) /\ OnlyEndsWaits(s, r)
         /\ \A u \in Task : Waiting(s.state[u]) =>
              /\ Waiting(r.state[u]) <=> ~(ms /\ s.tick[u] = 1)
              /\ ~Waiting(r.state[u]) => r.rc[u] = "TIMEOUT"
              /\ Waiting(r.state[u]) => r.tick[u] = CountedOnce(s, u, ms)
<1> DEFINE q == s.timers
           f == CHOOSE g : ScanUpTo(g, Len(q), s, q, ms)
<1>1. q \in Seq(Task) /\ Len(q) \in Nat /\ NoDuplicates(q) /\ DOMAIN q = 1..Len(q)
  BY DEF SchedOK, Sched, TimersOK
<1>2. ScanUpTo(f, Len(q), s, q, ms)
  <2>1. \E g : ScanUpTo(g, Len(q), s, q, ms)
    BY <1>1, ScanExists
  <2> QED BY <2>1
<1>3. r = f[Len(q)]
  BY DEF ScanTimeouts, ScanUpTo
<1> HIDE DEF f
<1>4. f[0] = s /\ \A i \in 1..Len(q) : f[i] = TimerStep(f[i-1], q[i], ms)
  <2>1. \A i \in 0..Len(q) : f[i] = IF i = 0 THEN s ELSE TimerStep(f[i-1], q[i], ms)
    BY <1>2 DEF ScanUpTo
  <2>2. 0 \in 0..Len(q) /\ \A i \in 1..Len(q) : i \in 0..Len(q) /\ i # 0
    BY <1>1
  <2> HIDE DEF q
  <2> QED BY <2>1, <2>2
<1> DEFINE InOrder(x) == SchedOK(x) /\ NextReady(x) /\ OnlyEndsWaits(s, x)
           Progress(i, u) == \/ /\ \A j \in 1..i : q[j] # u
                                /\ f[i].state[u] = s.state[u] /\ f[i].tick[u] = s.tick[u]
                             \/ /\ \E j \in 1..i : q[j] = u
                                /\ Visited(s, f[i], u, ms)
           G == {i \in 0..Len(q) : InOrder(f[i]) /\ \A u \in Task : Progress(i, u)}
<1>5. 0 \in G
  BY <1>1, <1>4, NoWaitEnds
<1>6. ASSUME NEW i \in 1..Len(q), i-1 \in G
      PROVE  i \in G
  <2> DEFINE x == f[i-1]
             t == q[i]
  <2>1. InOrder(x) /\ \A u \in Task : Progress(i-1, u)
    BY <1>6
  <2>2. t \in Task /\ f[i] = TimerStep(x, t, ms)
    BY <1>1, <1>4
  <2>3. /\ InOrder(f[i])
        /\ IF ms /\ x.tick[t] = 1 THEN ~Waiting(f[i].state[t]) /\ f[i].rc[t] = "TIMEOUT"
           ELSE f[i].state[t] = x.state[t] /\ f[i].tick[t] = CountedOnce(x, t, ms)
        /\ \A u \in Task \ {t} : /\ f[i].state[u] = x.state[u] /\ f[i].tick[u] = x.tick[u]
                                 /\ f[i].rc[u] = x.rc[u]
    <3>1. SchedOK(x) /\ NextReady(x) /\ OnlyEndsWaits(s, x)
      BY <2>1
    <3> HIDE DEF x, t
    <3>2. /\ SchedOK(f[i]) /\ NextReady(f[i]) /\ OnlyEndsWaits(x, f[i])
          /\ IF ms /\ x.tick[t] = 1 THEN ~Waiting(f[i].state[t]) /\ f[i].rc[t] = "TIMEOUT"
             ELSE f[i].state[t] = x.state[t] /\ f[i].tick[t] = CountedOnce(x, t, ms)
          /\ \A u \in Task \ {t} : /\ f[i].state[u] = x.state[u] /\ f[i].tick[u] = x.tick[u]
                                   /\ f[i].rc[u] = x.rc[u]
      BY <2>2, <3>1, TimerStepKeeps
    <3> QED BY <3>1, <3>2, EndsWaitsOnAndOn
  <2>4. Progress(i, t)
    <3>1. \A j \in 1..i-1 : q[j] # t
      BY <1>1 DEF NoDuplicates
    <3>2. x.state[t] = s.state[t] /\ x.tick[t] = s.tick[t]
      BY <2>1, <2>2, <3>1
    <3>3. i \in 1..i /\ q[i] = t
      OBVIOUS
    <3>4. CountedOnce(x, t, ms) = CountedOnce(s, t, ms)
      BY <3>2 DEF CountedOnce
    <3> QED BY <2>3, <3>2, <3>3, <3>4 DEF Visited
  <2>5. ASSUME NEW u \in Task \ {t}
        PROVE  Progress(i, u)
    <3>1. q[i] # u /\ i \in 1..Len(q)
      BY <2>5
    <3>2. \A j \in 1..i : j = i \/ j \in 1..i-1
      OBVIOUS
    <3>3. \A j \in 1..i-1 : j \in 1..i
      OBVIOUS
    <3>4. f[i].state[u] = x.state[u] /\ f[i].tick[u] = x.tick[u] /\ f[i].rc[u] = x.rc[u]
      BY <2>3
    <3>5. Progress(i-1, u)
      BY <2>1
    <3> QED BY <3>1, <3>2, <3>3, <3>4, <3>5 DEF Visited
  <2> HIDE DEF Progress, x, t
  <2>6. \A u \in Task : Progress(i, u)
    BY <2>4, <2>5
  <2> QED BY <2>3, <2>6
<1> HIDE DEF G
<1>7. Len(q) \in G
  BY <1>1, <1>5, <1>6, UpTo
<1>8. InOrder(r) /\ \A u \in Task : Progress(Len(q), u)
  BY <1>3, <1>7 DEF G
<1>9. ASSUME NEW u \in Task, Waiting(s.state[u])
      PROVE  /\ Waiting(r.state[u]) <=> ~(ms /\ s.tick[u] = 1)
             /\ ~Waiting(r.state[u]) => r.rc[u] = "TIMEOUT"
             /\ Waiting(r.state[u]) => r.tick[u] = CountedOnce(s, u, ms)
  <2>1. CASE \E j \in 1..Len(q) : q[j] = u
    <3>1. Visited(s, r, u, ms)
      BY <1>3, <1>8, <2>1
    <3> QED BY <1>9, <3>1 DEF Visited
  <2>2. CASE \A j \in 1..Len(q) : q[j] # u
    <3>1. u \notin ToSet(q)
      BY <1>1, <2>2 DEF ToSet
    <3>2. s.tick[u] = Infinite /\ Infinite # 1
      BY <1>9, <3>1 DEF SchedOK, TimersOK, Infinite
    <3>3. r.state[u] = s.state[u] /\ r.tick[u] = s.tick[u]
      BY <1>3, <1>8, <2>2
    <3>4. CountedOnce(s, u, ms) = s.tick[u]
      BY <3>2 DEF CountedOnce, Infinite
    <3> QED BY <1>9, <3>2, <3>3, <3>4
  <2> QED BY <2>1, <2>2
<1> QED BY <1>8, <1>9
-----------------------------------------------------------------------------
(* Changes of the TCB fields *)

\* Fields that say nothing about the lists may change freely.
LEMMA OtherFieldsChange ==
  ASSUME NEW s, SchedOK(s), NEW r \in Sched,
         r.ready = s.ready, r.timers = s.timers, r.wq = s.wq, r.state = s.state,
         r.tick = s.tick, r.reason = s.reason, r.pwait = s.pwait, r.next = s.next
  PROVE  SchedOK(r) /\ (NextReady(s) => NextReady(r))
BY DEF SchedOK, ReadyOK, TimersOK, WaitQueuesOK, WaitFieldsOK, NextReady

LEMMA WakeChanges ==
  ASSUME NEW s, SchedOK(s), NextReady(s), NEW t \in Task, NEW n \in {0, 1},
         NEW r, r = [s EXCEPT !.wake[t] = n]
  PROVE  SchedOK(r) /\ NextReady(r) /\ r.state = s.state
<1>1. s \in Sched /\ r \in Sched /\ r.ready = s.ready /\ r.timers = s.timers /\ r.wq = s.wq
      /\ r.state = s.state /\ r.tick = s.tick /\ r.reason = s.reason
      /\ r.pwait = s.pwait /\ r.next = s.next
  BY DEF SchedOK, Sched
<1> QED BY <1>1, OtherFieldsChange

LEMMA ActivationChanges ==
  ASSUME NEW s, SchedOK(s), NextReady(s), NEW t \in Task, NEW n \in {0, 1},
         NEW r, r = [s EXCEPT !.act[t] = n]
  PROVE  SchedOK(r) /\ NextReady(r) /\ r.state = s.state
<1>1. s \in Sched /\ r \in Sched /\ r.ready = s.ready /\ r.timers = s.timers /\ r.wq = s.wq
      /\ r.state = s.state /\ r.tick = s.tick /\ r.reason = s.reason
      /\ r.pwait = s.pwait /\ r.next = s.next
  BY DEF SchedOK, Sched
<1> QED BY <1>1, OtherFieldsChange

LEMMA PriorityFieldChanges ==
  ASSUME NEW s, SchedOK(s), NextReady(s), NEW t \in Task, NEW n \in Nat,
         NEW r, r = [s EXCEPT !.prio[t] = n]
  PROVE  SchedOK(r) /\ NextReady(r) /\ r.state = s.state
<1>1. s \in Sched /\ r \in Sched /\ r.ready = s.ready /\ r.timers = s.timers /\ r.wq = s.wq
      /\ r.state = s.state /\ r.tick = s.tick /\ r.reason = s.reason
      /\ r.pwait = s.pwait /\ r.next = s.next
  BY DEF SchedOK, Sched
<1> QED BY <1>1, OtherFieldsChange

\* A waiting task is suspended, or resumed: it goes on waiting.
LEMMA WaitBitStays ==
  ASSUME NEW s, SchedOK(s), NextReady(s), NEW t \in Task, Waiting(s.state[t]),
         NEW st \in {"WAIT", "WAITSUSP"}, NEW r, r = [s EXCEPT !.state[t] = st]
  PROVE  SchedOK(r) /\ NextReady(r) /\ r.state = [s.state EXCEPT ![t] = st]
<1>1. s \in Sched /\ r \in Sched /\ r.ready = s.ready /\ r.timers = s.timers /\ r.wq = s.wq
      /\ r.state = [s.state EXCEPT ![t] = st] /\ r.tick = s.tick /\ r.reason = s.reason
      /\ r.pwait = s.pwait /\ r.next = s.next
  BY DEF SchedOK, Sched, States
<1>2. Waiting(r.state[t]) /\ \A u \in Task \ {t} : r.state[u] = s.state[u]
  BY <1>1 DEF Sched, Waiting
<1>3. r.state[t] # "RUNNABLE" /\ s.state[t] # "RUNNABLE"
  BY <1>2 DEF Waiting
<1>4. \A u \in Task : /\ Waiting(r.state[u]) <=> Waiting(s.state[u])
                      /\ r.state[u] = "RUNNABLE" <=> s.state[u] = "RUNNABLE"
  BY <1>2, <1>3
<1>5. SchedOK(r) /\ NextReady(r)
  BY <1>1, <1>4
     DEF SchedOK, ReadyOK, TimersOK, WaitQueuesOK, WaitFieldsOK, NextReady
<1> QED BY <1>1, <1>5

\* A ready task is suspended.
LEMMA ReadySuspends ==
  ASSUME NEW s, SchedOK(s), NEW t \in Task, s.state[t] = "RUNNABLE",
         NEW r, r = task_to_non_runnable([s EXCEPT !.state[t] = "SUSPEND"], t)
  PROVE  /\ SchedOK(r) /\ (ToSet(s.ready) # {t} => NextReady(r))
         /\ r.state = [s.state EXCEPT ![t] = "SUSPEND"]
         /\ ToSet(r.ready) = ToSet(s.ready) \ {t}
<1> DEFINE m == [s EXCEPT !.state[t] = "SUSPEND"]
<1>1. s \in Sched /\ NoDuplicates(s.ready) /\ t \in ToSet(s.ready)
  BY DEF SchedOK, ReadyOK
<1>2. /\ m \in Sched /\ m.ready = s.ready /\ m.timers = s.timers /\ m.wq = s.wq
      /\ m.state = [s.state EXCEPT ![t] = "SUSPEND"] /\ m.tick = s.tick
      /\ m.reason = s.reason /\ m.pwait = s.pwait
  BY <1>1 DEF Sched, States
<1> HIDE DEF m
<1>3. r = task_to_non_runnable(m, t)
  BY DEF m
<1>4. /\ r \in Sched /\ NoDuplicates(r.ready) /\ ToSet(r.ready) = ToSet(s.ready) \ {t}
      /\ (ToSet(s.ready) # {t} => NextReady(r))
      /\ r.timers = m.timers /\ r.wq = m.wq /\ r.state = m.state /\ r.pwait = m.pwait
      /\ r.tick = m.tick /\ r.reason = m.reason
  <2>1. m \in Sched /\ NoDuplicates(m.ready) /\ t \in ToSet(m.ready)
    BY <1>1, <1>2
  <2> DEFINE n == task_to_non_runnable(m, t)
  <2>2. /\ n \in Sched /\ NoDuplicates(n.ready) /\ ToSet(n.ready) = ToSet(m.ready) \ {t}
        /\ (ToSet(m.ready) # {t} => NextReady(n))
        /\ n.timers = m.timers /\ n.wq = m.wq /\ n.state = m.state /\ n.pwait = m.pwait
        /\ n.tick = m.tick /\ n.reason = m.reason
    BY <2>1, NonRunnableLeaves
  <2> HIDE DEF n
  <2> QED BY <1>2, <1>3, <2>2 DEF n
<1>5. r.state[t] = "SUSPEND" /\ \A u \in Task \ {t} : r.state[u] = s.state[u]
  <2>1. s.state \in [Task -> States] /\ r.state = [s.state EXCEPT ![t] = "SUSPEND"]
    BY <1>1, <1>2, <1>4 DEF Sched
  <2> QED BY <2>1
<1>6. \A u \in Task : Waiting(r.state[u]) <=> Waiting(s.state[u])
  BY <1>5 DEF Waiting
<1>7. ReadyOK(r) /\ TimersOK(r) /\ WaitQueuesOK(r) /\ WaitFieldsOK(r)
  BY <1>2, <1>4, <1>5, <1>6
     DEF SchedOK, ReadyOK, TimersOK, WaitQueuesOK, WaitFieldsOK
<1> QED BY <1>2, <1>4, <1>7 DEF SchedOK

\* A task that neither runs nor waits becomes ready.
LEMMA IdleStarts ==
  ASSUME NEW s, SchedOK(s), NEW t \in Task, s.state[t] \in {"SUSPEND", "DORMANT"},
         NEW r, r = task_to_runnable(s, t)
  PROVE  /\ SchedOK(r) /\ NextReady(r)
         /\ r.state = [s.state EXCEPT ![t] = "RUNNABLE"]
<1>1. ~Waiting(s.state[t]) /\ s.state[t] # "RUNNABLE"
  BY DEF Waiting
<1>2. Apart(s, t) /\ s.tick[t] = Infinite /\ s.reason[t] = "NONE"
  BY <1>1, IdleIsApart DEF SchedOK, WaitFieldsOK
<1>3. /\ \A n \in Sched : OnlyReasonCleared(r, n, t) => SchedOK(n)
      /\ r \in Sched /\ NextReady(r) /\ r.state = [s.state EXCEPT ![t] = "RUNNABLE"]
      /\ r.reason = s.reason
  BY <1>2, ApartJoins
<1>4. OnlyReasonCleared(r, r, t)
  BY <1>2, <1>3 DEF OnlyReasonCleared
<1> QED BY <1>3, <1>4
-----------------------------------------------------------------------------
(***************************************************************************)
(* The walk of find_next_task_to_run. KernSched says at which entry it     *)
(* ends and what the counts are then; the loop visits one entry after the  *)
(* other. The v-th visit is the o-th of the lap behind l whole ones, and   *)
(* while nobody has stopped the walk every count is its old one with the   *)
(* visits of l laps and o entries added: so the first task that stops it   *)
(* is the one with the fewest visits before it.                            *)
(***************************************************************************)

\* A larger factor does not make a product smaller.
LEMMA ProductsGrow ==
  ASSUME NEW a \in Nat, NEW i \in Int, NEW j \in Int, i <= j
  PROVE  i * a <= j * a
<1>1. PICK d \in Nat : d = j - i
  OBVIOUS
<1>2. j * a = i * a + d * a
  BY <1>1
<1>3. d * a >= 0
  OBVIOUS
<1>4. PICK x \in Int, y \in Int, z \in Int : x = i * a /\ y = j * a /\ z = d * a
  BY <1>1
<1> QED BY <1>2, <1>3, <1>4

\* One times more.
LEMMA OneProductMore ==
  ASSUME NEW a \in Nat, NEW i \in Int
  PROVE  (i + 1) * a = i * a + a /\ i * a \in Int
OBVIOUS

\* A visit's number gives the lap and the place in it.
LEMMA LapAndPlace ==
  ASSUME NEW n \in Nat, NEW i \in Int, NEW j \in Int, NEW a \in 1..n, NEW b \in 1..n
  PROVE  /\ i * n + a = j * n + b => i = j /\ a = b
         /\ i * n + a < j * n + a => i < j
<1>1. PICK x \in Int, y \in Int : x = i * n /\ y = j * n
  BY OneProductMore
<1>2. ASSUME i + 1 <= j PROVE x + n <= y
  <2>1. (i + 1) * n <= j * n
    BY <1>2, ProductsGrow
  <2>2. (i + 1) * n = x + n
    BY <1>1, OneProductMore
  <2> QED BY <1>1, <2>1, <2>2
<1>3. ASSUME j + 1 <= i PROVE y + n <= x
  <2>1. (j + 1) * n <= i * n
    BY <1>3, ProductsGrow
  <2>2. (j + 1) * n = y + n
    BY <1>1, OneProductMore
  <2> QED BY <1>1, <2>1, <2>2
<1>4. ASSUME x + a = y + b PROVE i = j /\ a = b
  <2>1. ~(i + 1 <= j) /\ ~(j + 1 <= i)
    BY <1>1, <1>2, <1>3, <1>4
  <2>2. i = j
    BY <2>1
  <2>3. x = y
    BY <1>1, <2>2
  <2> QED BY <1>1, <1>4, <2>2, <2>3
<1>5. ASSUME x + a < y + a PROVE i < j
  <2>1. i # j
    BY <1>1, <1>5
  <2> QED BY <1>1, <1>3, <1>5, <2>1
<1> QED BY <1>1, <1>4, <1>5

\* What the loop does at one entry, and the loop up to the m-th entry.
NextAt(n, at) == (at % n) + 1

VisitStep(s, w) ==
  LET at  == NextAt(Len(s.ready), w.at)
      t   == s.ready[at]
      cnt == w.skip[t] + 1
  IN  IF w.found THEN w
      ELSE [at    |-> at,
            skip  |-> [w.skip EXCEPT ![t] = IF cnt >= s.prio[t] THEN 0 ELSE cnt],
            found |-> cnt >= s.prio[t]]

LoopUpTo(f, m, s, start) ==
  f = [v \in 0..m |-> IF v = 0 THEN [at |-> start, skip |-> s.skip, found |-> FALSE]
                               ELSE VisitStep(s, f[v-1])]

\* The loop is defined by recursion on the visits: there is such a function.
LEMMA LoopExists ==
  ASSUME NEW s, NEW start, NEW n \in Nat
  PROVE  \E f : LoopUpTo(f, n, s, start)
<1> DEFINE G == {m \in 0..n : \E f : LoopUpTo(f, m, s, start)}
           first == [at |-> start, skip |-> s.skip, found |-> FALSE]
<1>1. 0 \in G
  <2>1. LoopUpTo([i \in 0..0 |-> first], 0, s, start)
    BY DEF LoopUpTo
  <2> QED BY <2>1
<1>2. ASSUME NEW m \in 1..n, m-1 \in G
      PROVE  m \in G
  <2>1. PICK f : LoopUpTo(f, m-1, s, start)
    BY <1>2
  <2> DEFINE g == [i \in 0..m |-> IF i = m THEN VisitStep(s, f[m-1]) ELSE f[i]]
  <2>2. ASSUME NEW i \in 0..m
        PROVE  g[i] = IF i = 0 THEN first ELSE VisitStep(s, g[i-1])
    <3>1. CASE i = m
      <4>1. m-1 \in 0..m /\ m-1 # m /\ m \in 0..m /\ m # 0
        OBVIOUS
      <4>2. g[m-1] = f[m-1] /\ g[m] = VisitStep(s, f[m-1])
        BY <4>1
      <4> QED BY <3>1, <4>1, <4>2
    <3>2. CASE i # m
      <4>1. i \in 0..(m-1) /\ (i # 0 => i-1 \in 0..(m-1))
        BY <3>2
      <4>2. g[i] = f[i] /\ (i # 0 => g[i-1] = f[i-1])
        BY <4>1
      <4>3. f[i] = IF i = 0 THEN first ELSE VisitStep(s, f[i-1])
        BY <2>1, <4>1 DEF LoopUpTo
      <4> QED BY <4>2, <4>3
    <3> QED BY <3>1, <3>2
  <2>3. LoopUpTo(g, m, s, start)
    BY <2>2 DEF LoopUpTo
  <2> QED BY <2>3
<1> HIDE DEF G
<1>3. n \in G
  BY <1>1, <1>2, UpTo
<1> QED BY <1>3 DEF G

\* The place of a lap's o-th visit, and the counts after l laps and o visits more.
PlaceAt(n, start, o) == IF start + o <= n THEN start + o ELSE start + o - n

SkipsAt(s, start, l, o) ==
  [t \in Task |-> IF t \in ToSet(s.ready)
                  THEN s.skip[t] + l + (IF Offset(s, start, Position(s.ready, t)) <= o THEN 1 ELSE 0)
                  ELSE s.skip[t]]

\* The entry behind the one at a place, around the ring.
LEMMA NextPlace ==
  ASSUME NEW n \in Nat \ {0}, NEW p \in 0..n
  PROVE  NextAt(n, p) = IF p = n THEN 1 ELSE p + 1
<1>1. CASE p = n
  <2>1. n % n = 0
    OBVIOUS
  <2> QED BY <1>1, <2>1 DEF NextAt
<1>2. CASE p # n
  <2>1. p \in 0..n-1
    BY <1>2
  <2>2. p % n = p
    BY <2>1
  <2> QED BY <1>2, <2>2 DEF NextAt
<1> QED BY <1>1, <1>2

\* Places on a ring of n entries, and how far they are behind one of them.
LEMMA RingPlaces ==
  ASSUME NEW n \in Nat, NEW start \in 0..n
  PROVE  /\ \A o \in 1..n : \A i : i = PlaceAt(n, start, o) =>
              i \in 1..n /\ (IF i > start THEN i - start ELSE i - start + n) = o
         /\ \A i \in 1..n : \A o : o = (IF i > start THEN i - start ELSE i - start + n) =>
              o \in 1..n /\ PlaceAt(n, start, o) = i
BY DEF PlaceAt

\* The next place on the ring is the one of the next visit.
LEMMA RingNext ==
  ASSUME NEW n \in Nat \ {0}, NEW start \in 0..n, NEW o \in 0..n-1,
         NEW i, i = PlaceAt(n, start, o + 1)
  PROVE  /\ o + 1 < n => NextAt(n, i) = PlaceAt(n, start, (o + 1) + 1)
         /\ o + 1 = n => NextAt(n, i) = PlaceAt(n, start, 0 + 1)
<1>1. i \in 0..n
  BY DEF PlaceAt
<1>2. NextAt(n, i) = IF i = n THEN 1 ELSE i + 1
  BY <1>1, NextPlace
<1> QED BY <1>2 DEF PlaceAt

\* The first visit is to the entry behind the start.
LEMMA FirstPlace ==
  ASSUME NEW n \in Nat \ {0}, NEW start \in 0..n
  PROVE  NextAt(n, start) = PlaceAt(n, start, 0 + 1)
<1>1. NextAt(n, start) = IF start = n THEN 1 ELSE start + 1
  BY NextPlace
<1> QED BY <1>1 DEF PlaceAt

\* When a task with this count and priority stops the walk.
LEMMA LapReached ==
  ASSUME NEW c \in Nat, NEW m \in Nat, NEW l \in Nat
  PROVE  (IF c + 1 >= m THEN 1 ELSE m - c) - 1 <= l <=> c + l + 1 >= m
OBVIOUS

\* Each entry has its place in a lap.
LEMMA PlacesAndOffsets ==
  ASSUME NEW s, s \in Sched, NEW start \in 0..Len(s.ready)
  PROVE  /\ \A o \in 1..Len(s.ready) : /\ PlaceAt(Len(s.ready), start, o) \in 1..Len(s.ready)
                                       /\ Offset(s, start, PlaceAt(Len(s.ready), start, o)) = o
         /\ \A i \in 1..Len(s.ready) : /\ Offset(s, start, i) \in 1..Len(s.ready)
                                       /\ PlaceAt(Len(s.ready), start, Offset(s, start, i)) = i
<1>1. Len(s.ready) \in Nat
  BY DEF Sched
<1>2. PICK n \in Nat : n = Len(s.ready)
  BY <1>1
<1>3. start \in 0..n
  BY <1>2
<1>4. ASSUME NEW o \in 1..n
      PROVE  PlaceAt(Len(s.ready), start, o) \in 1..n /\ Offset(s, start, PlaceAt(Len(s.ready), start, o)) = o
  <2>1. \A i : i = PlaceAt(n, start, o) =>
             i \in 1..n /\ (IF i > start THEN i - start ELSE i - start + n) = o
    BY <1>3, RingPlaces
  <2>2. /\ PlaceAt(n, start, o) \in 1..n
        /\ (IF PlaceAt(n, start, o) > start THEN PlaceAt(n, start, o) - start
                                            ELSE PlaceAt(n, start, o) - start + n) = o
    BY <2>1, Zenon
  <2> QED BY <1>2, <2>2 DEF Offset
<1>5. ASSUME NEW i \in 1..n
      PROVE  Offset(s, start, i) \in 1..n /\ PlaceAt(Len(s.ready), start, Offset(s, start, i)) = i
  <2>1. \A o : o = (IF i > start THEN i - start ELSE i - start + n) =>
             o \in 1..n /\ PlaceAt(n, start, o) = i
    BY <1>3, RingPlaces
  <2>2. Offset(s, start, i) = (IF i > start THEN i - start ELSE i - start + n)
    BY <1>2 DEF Offset
  <2>3. Offset(s, start, i) \in 1..n /\ PlaceAt(n, start, Offset(s, start, i)) = i
    BY <2>1, <2>2, Zenon
  <2> QED BY <1>2, <2>3
<1> QED BY <1>2, <1>4, <1>5

\* Two counts that differ by one agree on every place but one.
LEMMA OtherPlaces ==
  ASSUME NEW d \in Nat, NEW o \in Nat, d # o + 1
  PROVE  d <= o + 1 <=> d <= o
OBVIOUS

\* The counts before a visit to the i-th entry and after it.
CountsOne(s, start, l, o, i) ==
  /\ SkipsAt(s, start, l, o)[s.ready[i]] = s.skip[s.ready[i]] + l
  /\ SkipsAt(s, start, l, o + 1)
       = [SkipsAt(s, start, l, o) EXCEPT ![s.ready[i]] = s.skip[s.ready[i]] + l + 1]

\* One visit counts the task that is there.
LEMMA VisitCounts ==
  ASSUME NEW s, s \in Sched, NoDuplicates(s.ready), NEW start \in 0..Len(s.ready),
         NEW l \in Nat, NEW o \in 0..Len(s.ready)-1,
         NEW i \in 1..Len(s.ready), Offset(s, start, i) = o + 1
  PROVE  CountsOne(s, start, l, o, i)
<1>1. s.ready \in Seq(Task) /\ s.skip \in [Task -> Nat] /\ Len(s.ready) \in Nat
  BY DEF Sched
<1>2. PICK t \in Task : t = s.ready[i]
  BY <1>1
<1>3. \A j \in 1..Len(s.ready) : s.ready[j] = t => j = i
  BY <1>1, <1>2 DEF NoDuplicates
<1>4. t \in ToSet(s.ready)
  BY <1>1, <1>2 DEF ToSet
<1>5. \A u \in ToSet(s.ready) : Position(s.ready, u) \in 1..Len(s.ready) /\ s.ready[Position(s.ready, u)] = u
  BY <1>1, PositionIsPlace
<1>6. Position(s.ready, t) = i
  BY <1>3, <1>4, <1>5
<1>7. s.skip[t] \in Nat /\ o \in Nat
  BY <1>1
<1>8. /\ SkipsAt(s, start, l, o)[t] = s.skip[t] + l + (IF o + 1 <= o THEN 1 ELSE 0)
      /\ SkipsAt(s, start, l, o + 1)[t] = s.skip[t] + l + (IF o + 1 <= o + 1 THEN 1 ELSE 0)
  BY <1>4, <1>6 DEF SkipsAt
<1>9. /\ SkipsAt(s, start, l, o)[t] = s.skip[t] + l
      /\ SkipsAt(s, start, l, o + 1)[t] = s.skip[t] + l + 1
  BY <1>7, <1>8
<1>10. ASSUME NEW u \in Task, u # t
       PROVE  SkipsAt(s, start, l, o + 1)[u] = SkipsAt(s, start, l, o)[u]
  <2>1. CASE u \notin ToSet(s.ready)
    BY <2>1 DEF SkipsAt
  <2>2. CASE u \in ToSet(s.ready)
    <3>1. PICK j \in 1..Len(s.ready) : j = Position(s.ready, u) /\ j # i
      BY <1>2, <1>5, <1>10, <2>2
    <3>2. Offset(s, start, j) \in 1..Len(s.ready) /\ Offset(s, start, j) # o + 1
      <4>1. /\ Offset(s, start, j) \in 1..Len(s.ready)
            /\ PlaceAt(Len(s.ready), start, Offset(s, start, j)) = j
        BY PlacesAndOffsets
      <4>2. PlaceAt(Len(s.ready), start, Offset(s, start, i)) = i
        BY PlacesAndOffsets
      <4>3. Offset(s, start, j) # Offset(s, start, i)
        BY <3>1, <4>1, <4>2, Zenon
      <4> QED BY <4>1, <4>3, Zenon
    <3>3. PICK d \in Nat : d = Offset(s, start, j) /\ d # o + 1
      BY <1>1, <3>2
    <3>4. d <= o + 1 <=> d <= o
      BY <1>7, <3>3, OtherPlaces
    <3>5. \A p : SkipsAt(s, start, l, p)[u] = s.skip[u] + l + (IF d <= p THEN 1 ELSE 0)
      BY <2>2, <3>1, <3>3 DEF SkipsAt
    <3>6. (IF d <= o + 1 THEN 1 ELSE 0) = (IF d <= o THEN 1 ELSE 0)
      BY <3>4, Zenon
    <3> QED BY <3>5, <3>6, Zenon
  <2> QED BY <2>1, <2>2
<1>11. SkipsAt(s, start, l, o + 1) = [SkipsAt(s, start, l, o) EXCEPT ![t] = s.skip[t] + l + 1]
  <2>1. PICK before, after : /\ before = SkipsAt(s, start, l, o) /\ DOMAIN before = Task
                             /\ after = SkipsAt(s, start, l, o + 1)
                             /\ after = [u \in Task |-> after[u]]
    <3>1. DOMAIN SkipsAt(s, start, l, o) = Task
      BY DEF SkipsAt
    <3>2. SkipsAt(s, start, l, o + 1) = [u \in Task |-> SkipsAt(s, start, l, o + 1)[u]]
      BY DEF SkipsAt
    <3> QED BY <3>1, <3>2, Zenon
  <2>2. after = [before EXCEPT ![t] = s.skip[t] + l + 1]
    BY <1>9, <1>10, <2>1
  <2> QED BY <2>1, <2>2
<1> QED BY <1>2, <1>9, <1>11 DEF CountsOne

\* What one visit leaves behind, if it stops the walk and if it does not.
VisitEnds(s, start, l, o, i, a, stops) ==
  VisitStep(s, [at |-> a, skip |-> SkipsAt(s, start, l, o), found |-> FALSE])
    = [at    |-> i,
       skip  |-> IF stops THEN [SkipsAt(s, start, l, o + 1) EXCEPT ![s.ready[i]] = 0]
                          ELSE SkipsAt(s, start, l, o + 1),
       found |-> stops]

\* The task of a visit is counted, and stops the walk on its lap.
LEMMA OneVisit ==
  ASSUME NEW s, s \in Sched, NoDuplicates(s.ready), NEW start \in 0..Len(s.ready),
         NEW l \in Nat, NEW o \in 0..Len(s.ready)-1,
         NEW i \in 1..Len(s.ready), Offset(s, start, i) = o + 1,
         NEW a, NextAt(Len(s.ready), a) = i,
         NEW stops \in BOOLEAN, stops <=> Laps(s, i) - 1 <= l
  PROVE  VisitEnds(s, start, l, o, i, a, stops)
<1>1. PICK t \in Task, c \in Nat, m \in Nat : t = s.ready[i] /\ c = s.skip[t] /\ m = s.prio[t]
  <2>1. s.ready \in Seq(Task) /\ s.skip \in [Task -> Nat] /\ s.prio \in [Task -> Nat]
    BY DEF Sched
  <2>2. s.ready[i] \in Task
    BY <2>1
  <2> QED BY <2>1, <2>2
<1>2. PICK before, after : /\ before = SkipsAt(s, start, l, o) /\ before = [u \in Task |-> before[u]]
                           /\ after = SkipsAt(s, start, l, o + 1)
  BY DEF SkipsAt
<1>3. before[t] = c + l /\ after = [before EXCEPT ![t] = c + l + 1]
  <2>1. CountsOne(s, start, l, o, i)
    BY VisitCounts
  <2> QED BY <1>1, <1>2, <2>1, Zenon DEF CountsOne
<1>4. stops <=> c + l + 1 >= m
  <2>1. Laps(s, i) = IF c + 1 >= m THEN 1 ELSE m - c
    BY <1>1 DEF Laps
  <2>2. stops <=> (IF c + 1 >= m THEN 1 ELSE m - c) - 1 <= l
    BY <2>1, Zenon
  <2> QED BY <2>2, LapReached
<1>5. (c + l + 1 >= m) = stops
  BY <1>4
<1>6. VisitStep(s, [at |-> a, skip |-> before, found |-> FALSE])
        = [at    |-> i,
           skip  |-> [before EXCEPT ![t] = IF c + l + 1 >= m THEN 0 ELSE c + l + 1],
           found |-> c + l + 1 >= m]
  <2>1. VisitStep(s, [at |-> a, skip |-> before, found |-> FALSE])
          = [at    |-> i,
             skip  |-> [before EXCEPT ![t] = IF before[t] + 1 >= m THEN 0 ELSE before[t] + 1],
             found |-> before[t] + 1 >= m]
    BY <1>1 DEF VisitStep
  <2>2. before[t] + 1 = c + l + 1
    BY <1>3
  <2> QED BY <2>1, <2>2
<1>7. [before EXCEPT ![t] = IF c + l + 1 >= m THEN 0 ELSE c + l + 1]
        = IF stops THEN [after EXCEPT ![t] = 0] ELSE after
  <2>1. CASE stops
    <3>1. [after EXCEPT ![t] = 0] = [before EXCEPT ![t] = 0]
      BY <1>2, <1>3
    <3> QED BY <1>4, <2>1, <3>1
  <2>2. CASE ~stops
    BY <1>3, <1>4, <2>2
  <2> QED BY <2>1, <2>2
<1> QED BY <1>1, <1>2, <1>5, <1>6, <1>7 DEF VisitEnds

\* Some task of a list that is not empty has the fewest visits before it.
LEMMA FewestVisits ==
  ASSUME NEW s, s \in Sched, NEW start \in 0..Len(s.ready), s.ready # << >>
  PROVE  \E i \in DOMAIN s.ready :
           \A j \in DOMAIN s.ready : VisitsUntil(s, start, i) <= VisitsUntil(s, start, j)
<1> DEFINE V(i) == VisitsUntil(s, start, i)
           T == {V(i) : i \in 1..Len(s.ready)}
<1>1. s.ready \in Seq(Task)
  BY DEF Sched
<1>2. DOMAIN s.ready = 1..Len(s.ready) /\ 1 \in 1..Len(s.ready)
  BY <1>1
<1>3. T \in SUBSET Nat /\ T # {}
  BY <1>2, VisitsNat
<1>4. PICK x \in T : \A y \in T : x <= y
  <2> HIDE DEF T
  <2> QED BY <1>3, LeastNumber
<1>5. PICK i \in 1..Len(s.ready) : x = V(i)
  BY <1>4
<1> QED BY <1>2, <1>4, <1>5

\* The walk as far as its v-th visit: nobody has stopped it, and the entry it is at is
\* the one before that of the next visit.
Underway(s, start, w, v) ==
  \E l \in Nat, o \in 0..Len(s.ready)-1, a \in 0..Len(s.ready) :
    /\ v = l * Len(s.ready) + o
    /\ w = [at |-> a, skip |-> SkipsAt(s, start, l, o), found |-> FALSE]
    /\ NextAt(Len(s.ready), a) = PlaceAt(Len(s.ready), start, o + 1)

\* The end of the walk at the task with the fewest visits before it.
EndOfWalk(s, start) ==
  LET i == Winner(s, start)
  IN  [at    |-> i,
       skip  |-> [SkipsAt(s, start, Laps(s, i) - 1, Offset(s, start, i)) EXCEPT ![s.ready[i]] = 0],
       found |-> TRUE]

\* Before the winner's visit nobody stops the walk, and there it does.
LEMMA UnderwayOrAtItsEnd ==
  ASSUME NEW s, s \in Sched, NoDuplicates(s.ready), s.ready # << >>,
         NEW start \in 0..Len(s.ready), NEW last, last = VisitsUntil(s, start, Winner(s, start)),
         NEW v \in Nat, NEW w, Underway(s, start, w, v), v < last
  PROVE  /\ v + 1 < last => Underway(s, start, VisitStep(s, w), v + 1)
         /\ v + 1 = last => VisitStep(s, w) = EndOfWalk(s, start)
<1>1. PICK n \in Nat \ {0} : n = Len(s.ready) /\ start \in 0..n
  BY DEF Sched
<1>2. PICK l \in Nat, o \in 0..n-1, a \in 0..n :
        /\ v = l * n + o
        /\ w = [at |-> a, skip |-> SkipsAt(s, start, l, o), found |-> FALSE]
        /\ NextAt(Len(s.ready), a) = PlaceAt(Len(s.ready), start, o + 1)
  BY <1>1 DEF Underway
<1>3. PICK i \in 1..n : i = PlaceAt(Len(s.ready), start, o + 1) /\ Offset(s, start, i) = o + 1
  <2>1. PICK p \in 1..n : p = o + 1
    BY <1>1
  <2>2. PlaceAt(Len(s.ready), start, p) \in 1..n /\ Offset(s, start, PlaceAt(Len(s.ready), start, p)) = p
    BY <1>1, PlacesAndOffsets
  <2> QED BY <2>1, <2>2
<1>4. PICK laps \in Nat \ {0} : laps = Laps(s, i) /\ VisitsUntil(s, start, i) = (laps - 1) * n + (o + 1)
  BY <1>1, <1>3, VisitsNat DEF VisitsUntil
<1>5. PICK i0 \in 1..n : i0 = Winner(s, start)
  BY <1>1, WinnerIsReady
<1>6. \A j \in 1..n : last <= VisitsUntil(s, start, j)
  <2>1. DOMAIN s.ready = 1..n
    BY <1>1 DEF Sched
  <2> DEFINE least(c) == \A j \in DOMAIN s.ready : VisitsUntil(s, start, c) <= VisitsUntil(s, start, j)
  <2>2. \E c \in DOMAIN s.ready : least(c)
    BY <1>1, <2>1, FewestVisits
  <2>3. least(Winner(s, start))
    BY <2>2 DEF Winner
  <2> QED BY <2>1, <2>3
<1>7. PICK laps0 \in Nat \ {0}, o0 \in 1..n :
        laps0 = Laps(s, i0) /\ o0 = Offset(s, start, i0) /\ last = (laps0 - 1) * n + o0
  BY <1>1, <1>5, VisitsNat DEF VisitsUntil
<1>8. o + 1 \in 1..n /\ l \in Int /\ laps - 1 \in Int /\ laps0 - 1 \in Int
  <2>1. o + 1 \in 1..n
    OBVIOUS
  <2>2. l \in Int /\ laps - 1 \in Int /\ laps0 - 1 \in Int
    OBVIOUS
  <2> QED BY <2>1, <2>2
<1>9. l * n \in Int /\ v + 1 = l * n + (o + 1)
  <2>1. l * n \in Int
    BY <1>1, <1>8, OneProductMore
  <2> QED BY <1>2, <2>1
<1>10. ASSUME NEW stops \in BOOLEAN, stops <=> laps - 1 <= l
       PROVE  VisitStep(s, w) = [at    |-> i,
                                 skip  |-> IF stops THEN [SkipsAt(s, start, l, o + 1) EXCEPT ![s.ready[i]] = 0]
                                                    ELSE SkipsAt(s, start, l, o + 1),
                                 found |-> stops]
  <2>1. stops <=> Laps(s, i) - 1 <= l
    BY <1>4, <1>10
  <2>2. o \in 0..Len(s.ready)-1 /\ i \in 1..Len(s.ready)
    BY <1>1
  <2>3. NextAt(Len(s.ready), a) = i /\ Offset(s, start, i) = o + 1
    BY <1>2, <1>3
  <2>4. VisitEnds(s, start, l, o, i, a, stops)
    BY <2>1, <2>2, <2>3, OneVisit
  <2> QED BY <1>2, <2>4, Zenon DEF VisitEnds
<1>11. ASSUME v + 1 < last
       PROVE  Underway(s, start, VisitStep(s, w), v + 1)
  <2>1. l < laps - 1
    <3>1. PICK x \in Int, y \in Int : x = l * n /\ y = (laps - 1) * n
      BY <1>8
    <3>2. v + 1 = x + (o + 1) /\ last <= y + (o + 1)
      BY <1>1, <1>3, <1>4, <1>6, <1>9, <3>1
    <3>3. l * n + (o + 1) < (laps - 1) * n + (o + 1)
      <4>1. x + (o + 1) < y + (o + 1)
        <5>1. PICK e \in Int : e = last
          BY <1>7, <3>1
        <5> QED BY <1>11, <3>1, <3>2, <5>1
      <4> QED BY <3>1, <4>1, Zenon
    <3>4. PICK g \in Int, b \in 1..n : g = laps - 1 /\ b = o + 1
      BY <1>8
    <3>5. l * n + b < g * n + b
      BY <3>3, <3>4, Zenon
    <3>6. l < g
      BY <1>1, <1>8, <3>5, LapAndPlace, Zenon
    <3> QED BY <3>4, <3>6
  <2>2. VisitStep(s, w) = [at |-> i, skip |-> SkipsAt(s, start, l, o + 1), found |-> FALSE]
    <3>1. FALSE <=> laps - 1 <= l
      BY <2>1
    <3> QED BY <1>10, <3>1
  <2>3. PICK x : x = VisitStep(s, w)
    OBVIOUS
  <2>4. x = [at |-> i, skip |-> SkipsAt(s, start, l, o + 1), found |-> FALSE] /\ i \in 0..n
    BY <2>2, <2>3
  <2>5. i = PlaceAt(n, start, o + 1)
    BY <1>1, <1>3
  <2>6. CASE o + 1 < n
    <3>1. o + 1 \in 0..n-1
      BY <2>6
    <3>2. NextAt(n, i) = PlaceAt(Len(s.ready), start, (o + 1) + 1)
      <4>1. NextAt(n, i) = PlaceAt(n, start, (o + 1) + 1)
        BY <1>1, <2>5, <2>6, RingNext
      <4> QED BY <1>1, <4>1
    <3> QED BY <1>1, <1>9, <2>3, <2>4, <3>1, <3>2 DEF Underway
  <2>7. CASE ~(o + 1 < n)
    <3>1. o + 1 = n
      BY <2>7
    <3>2. NextAt(n, i) = PlaceAt(Len(s.ready), start, 0 + 1)
      <4>1. NextAt(n, i) = PlaceAt(n, start, 0 + 1)
        BY <1>1, <2>5, <3>1, RingNext
      <4> QED BY <1>1, <4>1
    <3>3. v + 1 = (l + 1) * n + 0
      BY <1>9, <3>1, OneProductMore
    <3>4. SkipsAt(s, start, l, o + 1) = SkipsAt(s, start, l + 1, 0)
      <4>1. s.ready \in Seq(Task) /\ s.skip \in [Task -> Nat]
        BY DEF Sched
      <4>2. ASSUME NEW t \in ToSet(s.ready), t \in Task
            PROVE  s.skip[t] + l + (IF Offset(s, start, Position(s.ready, t)) <= o + 1 THEN 1 ELSE 0)
                     = s.skip[t] + (l + 1)
                       + (IF Offset(s, start, Position(s.ready, t)) <= 0 THEN 1 ELSE 0)
        <5>1. Position(s.ready, t) \in 1..n
          BY <1>1, <4>1, PositionIsPlace
        <5>2. PICK d \in 1..n : d = Offset(s, start, Position(s.ready, t))
          BY <1>1, <5>1, PlacesAndOffsets
        <5>3. d <= o + 1 /\ ~(d <= 0)
          BY <3>1, <5>2
        <5>4. s.skip[t] \in Nat
          BY <4>1, <4>2
        <5> QED BY <5>2, <5>3, <5>4
      <4> QED BY <4>2 DEF SkipsAt
    <3>5. 0 \in 0..n-1 /\ l + 1 \in Nat
      OBVIOUS
    <3> QED BY <1>1, <2>3, <2>4, <3>2, <3>3, <3>4, <3>5 DEF Underway
  <2> QED BY <2>6, <2>7
<1>12. ASSUME v + 1 = last
       PROVE  VisitStep(s, w) = EndOfWalk(s, start)
  <2>1. l = laps0 - 1 /\ o + 1 = o0
    <3>1. l * n + (o + 1) = (laps0 - 1) * n + o0
      BY <1>7, <1>9, <1>12
    <3>2. PICK g \in Int, b \in 1..n : g = laps0 - 1 /\ b = o + 1
      BY <1>8
    <3>3. l * n + b = g * n + o0
      BY <3>1, <3>2, Zenon
    <3>4. l = g /\ b = o0
      <4>1. n \in Nat /\ l \in Int
        OBVIOUS
      <4>2. l * n + b = g * n + o0 => l = g /\ b = o0
        BY <4>1, LapAndPlace
      <4> QED BY <3>3, <4>2, Zenon
    <3> QED BY <3>2, <3>4
  <2>2. i = i0
    <3>1. PlaceAt(Len(s.ready), start, o0) = i0
      BY <1>1, <1>5, <1>7, PlacesAndOffsets
    <3> QED BY <1>3, <2>1, <3>1
  <2>3. laps = laps0
    BY <1>4, <1>7, <2>2
  <2>4. VisitStep(s, w)
          = [at |-> i, skip |-> [SkipsAt(s, start, l, o + 1) EXCEPT ![s.ready[i]] = 0], found |-> TRUE]
    <3>1. TRUE <=> laps - 1 <= l
      BY <2>1, <2>3
    <3> QED BY <1>10, <3>1
  <2> QED BY <1>5, <1>7, <2>1, <2>2, <2>4 DEF EndOfWalk
<1> QED BY <1>11, <1>12

\* The winner's visit is among those the loop is followed for.
LEMMA EndsInTime ==
  ASSUME NEW s, s \in Sched, s.ready # << >>, NEW start \in 0..Len(s.ready)
  PROVE  /\ VisitsUntil(s, start, Winner(s, start)) \in 1..MaxVisits(s)
         /\ MaxVisits(s) \in Nat
<1>1. PICK n \in Nat \ {0} : n = Len(s.ready) /\ DOMAIN s.ready = 1..n /\ start \in 0..n
  BY DEF Sched
<1>2. PICK t \in Task, c \in Nat, m \in Nat : t = s.ready[1] /\ c = s.skip[t] /\ m = s.prio[t]
  <2>1. s.ready[1] \in Task /\ s.skip \in [Task -> Nat] /\ s.prio \in [Task -> Nat]
    BY <1>1 DEF Sched
  <2> QED BY <2>1
<1>3. PICK i0 \in 1..n : i0 = Winner(s, start)
  BY <1>1, WinnerIsReady
<1>4. VisitsUntil(s, start, i0) <= VisitsUntil(s, start, 1)
  <2> DEFINE least(j) == \A h \in DOMAIN s.ready : VisitsUntil(s, start, j) <= VisitsUntil(s, start, h)
  <2>1. \E j \in DOMAIN s.ready : least(j)
    BY FewestVisits
  <2>2. least(Winner(s, start))
    BY <2>1 DEF Winner
  <2>3. 1 \in DOMAIN s.ready
    BY <1>1
  <2> QED BY <1>3, <2>2, <2>3
<1>5. PICK d \in 1..n : d = Offset(s, start, 1)
  <2>1. 1 \in 1..Len(s.ready)
    BY <1>1
  <2> QED BY <1>1, <2>1, PlacesAndOffsets
<1>6. PICK laps \in 1..m+1 : laps = Laps(s, 1)
  <2>1. Laps(s, 1) = IF c + 1 >= m THEN 1 ELSE m - c
    BY <1>2 DEF Laps
  <2> QED BY <2>1
<1>7. PICK x \in Int, y \in Int : x = (laps - 1) * n /\ y = m * n /\ x <= y
  <2>1. (laps - 1) * n <= m * n
    BY ProductsGrow
  <2> QED BY <2>1, OneProductMore
<1>8. VisitsUntil(s, start, 1) = x + d
  BY <1>1, <1>5, <1>6, <1>7 DEF VisitsUntil
<1>9. MaxVisits(s) = y + n /\ MaxVisits(s) \in Nat
  <2>1. MaxVisits(s) = n * (1 + m)
    BY <1>1, <1>2 DEF MaxVisits
  <2>2. n * (1 + m) = m * n + n /\ n * (1 + m) \in Nat
    OBVIOUS
  <2> QED BY <1>7, <2>1, <2>2
<1>10. VisitsUntil(s, start, i0) \in Nat /\ VisitsUntil(s, start, i0) # 0
  <2>1. PICK laps0 \in Nat \ {0}, o0 \in 1..n : laps0 = Laps(s, i0) /\ o0 = Offset(s, start, i0)
    BY <1>1, VisitsNat
  <2>2. PICK z \in Int : z = (laps0 - 1) * n /\ z >= 0
    <3>1. PICK g \in Nat : g = laps0 - 1
      OBVIOUS
    <3>2. g * n \in Int /\ g * n >= 0
      OBVIOUS
    <3> QED BY <3>1, <3>2, Zenon
  <2>3. VisitsUntil(s, start, i0) = z + o0
    BY <1>1, <2>1, <2>2 DEF VisitsUntil
  <2> QED BY <2>2, <2>3
<1> QED BY <1>3, <1>4, <1>5, <1>7, <1>8, <1>9, <1>10

\* The walk begins with no visit made.
LEMMA WalkBegins ==
  ASSUME NEW s, s \in Sched, s.ready # << >>, NEW start \in 0..Len(s.ready)
  PROVE  Underway(s, start, [at |-> start, skip |-> s.skip, found |-> FALSE], 0)
<1>1. PICK n \in Nat \ {0} : n = Len(s.ready) /\ start \in 0..n
  BY DEF Sched
<1>2. s.ready \in Seq(Task) /\ s.skip \in [Task -> Nat]
  BY DEF Sched
<1>3. SkipsAt(s, start, 0, 0) = s.skip
  <2>1. ASSUME NEW t \in ToSet(s.ready), t \in Task
        PROVE  s.skip[t] + 0 + (IF Offset(s, start, Position(s.ready, t)) <= 0 THEN 1 ELSE 0) = s.skip[t]
    <3>1. Position(s.ready, t) \in 1..n
      BY <1>1, <1>2, PositionIsPlace
    <3>2. PICK d \in 1..n : d = Offset(s, start, Position(s.ready, t))
      BY <1>1, <3>1, PlacesAndOffsets
    <3>3. s.skip[t] \in Nat
      BY <1>2, <2>1
    <3> QED BY <3>2, <3>3
  <2> QED BY <1>2, <2>1 DEF SkipsAt
<1>4. NextAt(n, start) = PlaceAt(n, start, 0 + 1)
  BY <1>1, FirstPlace
<1>5. 0 \in 0..n-1 /\ 0 = 0 * n + 0
  OBVIOUS
<1> QED BY <1>1, <1>3, <1>4, <1>5 DEF Underway

\* The counts at the end are those the closed form gives.
LEMMA CountsAtTheEnd ==
  ASSUME NEW s, s \in Sched, NoDuplicates(s.ready), s.ready # << >>, NEW start \in 0..Len(s.ready)
  PROVE  EndOfWalk(s, start).skip
           = [t \in Task |-> IF t \in ToSet(s.ready)
                             THEN SkipAfter(s, start, Winner(s, start), Position(s.ready, t))
                             ELSE s.skip[t]]
<1>1. PICK n \in Nat \ {0} : n = Len(s.ready) /\ start \in 0..n
  BY DEF Sched
<1>2. s.ready \in Seq(Task) /\ s.skip \in [Task -> Nat]
  BY DEF Sched
<1>3. PICK i0 \in 1..n : i0 = Winner(s, start)
  BY <1>1, WinnerIsReady
<1>4. PICK laps \in Nat \ {0}, o0 \in 1..n : laps = Laps(s, i0) /\ o0 = Offset(s, start, i0)
  BY <1>1, VisitsNat
<1>5. PICK t0 \in Task : t0 = s.ready[i0]
  BY <1>1, <1>2
<1>6. \A u \in ToSet(s.ready) : Position(s.ready, u) \in 1..n /\ s.ready[Position(s.ready, u)] = u
  BY <1>1, <1>2, PositionIsPlace
<1>7. t0 \in ToSet(s.ready) /\ Position(s.ready, t0) = i0
  <2>1. t0 \in ToSet(s.ready)
    BY <1>1, <1>2, <1>5 DEF ToSet
  <2>2. \A j \in 1..n : s.ready[j] = t0 => j = i0
    BY <1>1, <1>2, <1>5 DEF NoDuplicates
  <2> QED BY <1>6, <2>1, <2>2
<1>8. ASSUME NEW t \in Task, t # t0, t \in ToSet(s.ready)
      PROVE  SkipsAt(s, start, laps - 1, o0)[t] = SkipAfter(s, start, i0, Position(s.ready, t))
  <2>1. PICK j \in 1..n : j = Position(s.ready, t) /\ j # i0 /\ s.ready[j] = t
    BY <1>5, <1>6, <1>8
  <2>2. PICK d \in 1..n : d = Offset(s, start, j) /\ d # o0
    <3>1. /\ Offset(s, start, j) \in 1..n
          /\ PlaceAt(Len(s.ready), start, Offset(s, start, j)) = j
      BY <1>1, PlacesAndOffsets
    <3>2. PlaceAt(Len(s.ready), start, Offset(s, start, i0)) = i0
      BY <1>1, PlacesAndOffsets
    <3>3. Offset(s, start, j) # Offset(s, start, i0)
      BY <2>1, <3>1, <3>2, Zenon
    <3> QED BY <1>4, <3>1, <3>3
  <2>3. PICK c \in Nat : c = s.skip[t]
    BY <1>2
  <2>4. SkipsAt(s, start, laps - 1, o0)[t] = c + (laps - 1) + (IF d <= o0 THEN 1 ELSE 0)
    BY <1>8, <2>1, <2>2, <2>3 DEF SkipsAt
  <2>5. SkipAfter(s, start, i0, j) = c + laps - (IF d < o0 THEN 0 ELSE 1)
    BY <1>4, <2>1, <2>2, <2>3 DEF SkipAfter
  <2> QED BY <2>1, <2>2, <2>4, <2>5
<1>9. SkipAfter(s, start, i0, Position(s.ready, t0)) = 0
  BY <1>7 DEF SkipAfter
<1>10. ASSUME NEW t \in Task, t \notin ToSet(s.ready)
       PROVE  SkipsAt(s, start, laps - 1, o0)[t] = s.skip[t]
  BY <1>10 DEF SkipsAt
<1>11. PICK counts : /\ counts = SkipsAt(s, start, laps - 1, o0)
                     /\ counts = [t \in Task |-> counts[t]]
  BY DEF SkipsAt
<1>12. EndOfWalk(s, start).skip = [counts EXCEPT ![t0] = 0]
  BY <1>3, <1>4, <1>5, <1>11 DEF EndOfWalk
<1> QED BY <1>3, <1>7, <1>8, <1>9, <1>10, <1>11, <1>12

\* The walk as it is computed is the loop, for every record and every start.
LEMMA LoopIsTheWalk ==
  ASSUME NEW s, s \in Sched, NoDuplicates(s.ready), NEW start \in 0..Len(s.ready)
  PROVE  LoopWalk(s, start) = WalkFrom(s, start)
<1> DEFINE m == MaxVisits(s)
           f == CHOOSE g : LoopUpTo(g, m, s, start)
           last == VisitsUntil(s, start, Winner(s, start))
           end == EndOfWalk(s, start)
<1>1. LoopWalk(s, start) = IF Len(s.ready) = 0 THEN s
                           ELSE [s EXCEPT !.next = s.ready[f[m].at], !.skip = f[m].skip]
  BY DEF LoopWalk, LoopUpTo, VisitStep, NextAt
<1>2. s.ready \in Seq(Task) /\ (Len(s.ready) = 0 <=> s.ready = << >>)
  BY DEF Sched
<1>3. CASE s.ready = << >>
  BY <1>1, <1>2, <1>3 DEF WalkFrom
<1>4. CASE s.ready # << >>
  <2>1. last \in 1..m /\ m \in Nat
    BY <1>4, EndsInTime
  <2>2. LoopUpTo(f, m, s, start)
    <3>1. \E g : LoopUpTo(g, m, s, start)
      BY <2>1, LoopExists
    <3> QED BY <3>1
  <2> HIDE DEF f, m, last, end
  <2>3. \A v \in 0..m : f[v] = IF v = 0 THEN [at |-> start, skip |-> s.skip, found |-> FALSE]
                                       ELSE VisitStep(s, f[v-1])
    BY <2>2 DEF LoopUpTo
  <2>4. /\ f[0] = [at |-> start, skip |-> s.skip, found |-> FALSE]
        /\ \A v \in 1..m : f[v] = VisitStep(s, f[v-1])
    <3>1. 0 \in 0..m /\ \A v \in 1..m : v \in 0..m /\ v # 0
      BY <2>1
    <3> QED BY <2>3, <3>1
  <2> DEFINE G == {v \in 0..m : /\ v < last => Underway(s, start, f[v], v)
                                /\ last <= v => f[v] = end}
  <2>5. 0 \in G
    BY <1>4, <2>1, <2>4, WalkBegins
  <2>6. ASSUME NEW v \in 1..m, v-1 \in G
        PROVE  v \in G
    <3>1. PICK u \in Nat : u = v - 1 /\ v = u + 1
      OBVIOUS
    <3>2. CASE u < last
      <4>1. Underway(s, start, f[u], u)
        BY <2>6, <3>1, <3>2
      <4>2. /\ u + 1 < last => Underway(s, start, VisitStep(s, f[u]), u + 1)
            /\ u + 1 = last => VisitStep(s, f[u]) = end
        BY <1>4, <3>2, <4>1, UnderwayOrAtItsEnd DEF last, end
      <4>3. f[v] = VisitStep(s, f[u])
        BY <2>4, <3>1
      <4> QED BY <2>1, <3>1, <3>2, <4>2, <4>3
    <3>3. CASE ~(u < last)
      <4>1. f[u] = end /\ end.found
        BY <2>1, <2>6, <3>1, <3>3 DEF end, EndOfWalk
      <4>2. VisitStep(s, end) = end
        BY <4>1 DEF VisitStep
      <4>3. f[v] = end
        BY <2>4, <3>1, <4>1, <4>2
      <4> QED BY <2>1, <3>1, <3>3, <4>3
    <3> QED BY <3>2, <3>3
  <2> HIDE DEF G
  <2>7. m \in G
    BY <2>1, <2>5, <2>6, UpTo
  <2>8. f[m] = end
    BY <2>1, <2>7 DEF G
  <2>9. end.at = Winner(s, start)
    BY DEF end, EndOfWalk
  <2>10. WalkFrom(s, start) = [s EXCEPT !.next = s.ready[end.at], !.skip = end.skip]
    <3>1. end.skip = [t \in Task |-> IF t \in ToSet(s.ready)
                                    THEN SkipAfter(s, start, Winner(s, start), Position(s.ready, t))
                                    ELSE s.skip[t]]
      BY <1>4, CountsAtTheEnd DEF end
    <3> QED BY <1>4, <2>9, <3>1 DEF WalkFrom
  <2> QED BY <1>1, <1>2, <1>4, <2>8, <2>10 DEF f, m
<1> QED BY <1>3, <1>4
=============================================================================
