--------------------------- MODULE KernObjectsProofs ---------------------------
(***************************************************************************)
(* The kernel objects together, for every number of tasks, mutexes, blocks *)
(* and bits, and every application: no event, block or mutex is lost, and  *)
(* the lists agree, although calls, handlers, the tick and deletions come  *)
(* in between the halves of a call. All of it holds as long as no deletion *)
(* has left interrupts disabled, and in an application of events and       *)
(* mutexes none does.                                                      *)
(*                                                                         *)
(* The proof first says, for each kind of step, which objects it concerns: *)
(* whose waits it starts or ends, or whose calls it finishes. What the     *)
(* invariant says of any other object is then kept.                        *)
(***************************************************************************)
EXTENDS KernObjects, KernMutexProofs
-----------------------------------------------------------------------------
(* The end of waits, one after the other *)

\* Nothing happens to t from s to r, or its wait ends.
Unmoved(s, r, t) ==
  /\ r.state[t] = s.state[t] /\ r.pwait[t] = s.pwait[t]
  /\ r.reason[t] = s.reason[t] /\ r.rc[t] = s.rc[t]

Left(s, r, t) ==
  /\ Waiting(s.state[t])
  /\ r.state[t] = IF Suspended(s.state[t]) THEN "SUSPEND" ELSE "RUNNABLE"
  /\ r.pwait[t] = NoQueue /\ r.reason[t] = "NONE"

\* Between s and r only waits for the objects Q end.
Moves(s, r, Q) == \A t \in Task : Unmoved(s, r, t) \/ (Left(s, r, t) /\ s.pwait[t] \in Q)

LEMMA NothingMoves == \A s, Q : Moves(s, s, Q)
<1> QED BY DEF Moves, Unmoved

LEMMA MovesOnAndOn ==
  ASSUME NEW s, NEW m, NEW r, NEW Q, Moves(s, m, Q), Moves(m, r, Q)
  PROVE  Moves(s, r, Q)
<1> SUFFICES ASSUME NEW t \in Task
             PROVE  Unmoved(s, r, t) \/ (Left(s, r, t) /\ s.pwait[t] \in Q)
  BY DEF Moves
<1>1. Unmoved(s, m, t) \/ (Left(s, m, t) /\ s.pwait[t] \in Q)
  BY DEF Moves
<1>2. Unmoved(m, r, t) \/ (Left(m, r, t) /\ m.pwait[t] \in Q)
  BY DEF Moves
<1> QED BY <1>1, <1>2 DEF Unmoved, Left, Waiting

LEMMA MovesAmongMore ==
  ASSUME NEW s, NEW r, NEW Q, NEW P, Moves(s, r, Q), Q \subseteq P
  PROVE  Moves(s, r, P)
<1> QED BY DEF Moves

\* Nobody joins a queue.
LEMMA MovesEndWaits ==
  ASSUME NEW s, NEW r, NEW Q, Moves(s, r, Q), SchedOK(s), SchedOK(r)
  PROVE  OnlyEndsWaits(s, r)
<1>1. ASSUME NEW q \in Queue, s.wq[q] = << >> PROVE r.wq[q] = << >>
  <2>1. \A t \in Task : s.pwait[t] # q
    BY <1>1 DEF SchedOK, WaitQueuesOK, ToSet
  <2>2. \A t \in Task : r.pwait[t] # q
    BY <2>1, NoQueueAssumption DEF Moves, Unmoved, Left
  <2>3. r.wq[q] \in Seq(Task)
    BY DEF SchedOK, Sched
  <2>4. \A t \in Task : t \notin ToSet(r.wq[q])
    BY <2>2 DEF SchedOK, WaitQueuesOK
  <2>5. ASSUME r.wq[q] # << >> PROVE FALSE
    <3>1. 1 \in DOMAIN r.wq[q] /\ r.wq[q][1] \in Task
      BY <2>3, <2>5
    <3> QED BY <2>4, <3>1 DEF ToSet
  <2> QED BY <2>5
<1>2. ASSUME NEW t \in Task
      PROVE  \/ /\ r.state[t] = s.state[t] /\ r.pwait[t] = s.pwait[t]
                /\ r.reason[t] = s.reason[t]
             \/ /\ \/ s.state[t] = "WAIT" /\ r.state[t] = "RUNNABLE"
                   \/ s.state[t] = "WAITSUSP" /\ r.state[t] = "SUSPEND"
                /\ r.pwait[t] = NoQueue
  BY DEF Moves, Unmoved, Left, Waiting, Suspended
<1> QED BY <1>1, <1>2 DEF OnlyEndsWaits, NobodyJoins

\* The end of one wait.
LEMMA WaitEndMoves ==
  ASSUME NEW s, SchedOK(s), NextReady(s), NEW t \in Task, Waiting(s.state[t]),
         NEW r, r = task_wait_complete(s, t)
  PROVE  /\ SchedOK(r) /\ NextReady(r) /\ Left(s, r, t) /\ r.rc[t] = "NO_ERR"
         /\ \A u \in Task \ {t} : Unmoved(s, r, u)
<1>1. SchedOK(r) /\ NextReady(r)
  BY OrderlyWaitCompletes
<1>2. s \in Sched
  BY DEF SchedOK
<1>3. /\ r.state[t] = (IF Suspended(s.state[t]) THEN "SUSPEND" ELSE "RUNNABLE")
      /\ r.pwait[t] = NoQueue /\ r.reason[t] = "NONE" /\ r.rc[t] = "NO_ERR"
      /\ \A u \in Task \ {t} :
           /\ r.state[u] = s.state[u] /\ r.pwait[u] = s.pwait[u]
           /\ r.reason[u] = s.reason[u] /\ r.rc[u] = s.rc[u]
  BY <1>2, WaitEffects
<1> QED BY <1>1, <1>3 DEF Left, Unmoved

\* The loops that end the waits of the tasks w: of all ("all"), or of those whose
\* condition the value of the event satisfies ("event").
Serves(kind, val, t) == kind = "event" => Satisfied(val, t)

Serve(kind, val, y, t) ==
  IF kind = "event" THEN IF Satisfied(val, t) THEN task_wait_complete(y, t) ELSE y
  ELSE task_wait_complete(y, t)

ServedUpTo(f, m, kind, val, s, w) ==
  f = [i \in 0..m |-> IF i = 0 THEN s ELSE Serve(kind, val, f[i-1], w[i])]

LEMMA ServiceExists ==
  ASSUME NEW kind, NEW val, NEW s, NEW w, NEW n \in Nat
  PROVE  \E f : ServedUpTo(f, n, kind, val, s, w)
<1> DEFINE G == {m \in 0..n : \E f : ServedUpTo(f, m, kind, val, s, w)}
<1>1. 0 \in G
  <2>1. ServedUpTo([i \in 0..0 |-> s], 0, kind, val, s, w)
    BY DEF ServedUpTo
  <2> QED BY <2>1
<1>2. ASSUME NEW m \in 1..n, m-1 \in G
      PROVE  m \in G
  <2>1. PICK f : ServedUpTo(f, m-1, kind, val, s, w)
    BY <1>2
  <2> DEFINE g == [i \in 0..m |-> IF i = m THEN Serve(kind, val, f[m-1], w[m]) ELSE f[i]]
  <2>2. ASSUME NEW i \in 0..m
        PROVE  g[i] = IF i = 0 THEN s ELSE Serve(kind, val, g[i-1], w[i])
    <3>1. CASE i = m
      <4>1. m-1 \in 0..m /\ m-1 # m /\ m \in 0..m /\ m # 0
        OBVIOUS
      <4>2. g[m-1] = f[m-1] /\ g[m] = Serve(kind, val, f[m-1], w[m])
        BY <4>1
      <4> QED BY <3>1, <4>1, <4>2
    <3>2. CASE i # m
      <4>1. i \in 0..(m-1) /\ (i # 0 => i-1 \in 0..(m-1))
        BY <3>2
      <4>2. g[i] = f[i] /\ (i # 0 => g[i-1] = f[i-1])
        BY <4>1
      <4>3. f[i] = IF i = 0 THEN s ELSE Serve(kind, val, f[i-1], w[i])
        BY <2>1, <4>1 DEF ServedUpTo
      <4> QED BY <4>2, <4>3
    <3> QED BY <3>1, <3>2
  <2>3. ServedUpTo(g, m, kind, val, s, w)
    BY <2>2 DEF ServedUpTo
  <2> QED BY <2>3
<1> HIDE DEF G
<1>3. n \in G
  BY <1>1, <1>2, UpTo
<1> QED BY <1>3 DEF G

Service(kind, val, s, w) == CHOOSE f : ServedUpTo(f, Len(w), kind, val, s, w)

LEMMA ServiceStep ==
  ASSUME NEW kind, NEW val, NEW s, NEW w, Len(w) \in Nat, NEW f, f = Service(kind, val, s, w)
  PROVE  f[0] = s /\ \A i \in 1..Len(w) : f[i] = Serve(kind, val, f[i-1], w[i])
<1>1. ServedUpTo(f, Len(w), kind, val, s, w)
  BY ServiceExists DEF Service
<1> QED BY <1>1 DEF ServedUpTo

\* The loop is over: the waits of those it serves have ended, and nobody else's.
LEMMA ServiceKeeps ==
  ASSUME NEW kind, NEW val, NEW s, SchedOK(s), NextReady(s), NEW w \in Seq(Task), NoDuplicates(w),
         \A t \in ToSet(w) : Waiting(s.state[t]),
         NEW f, f = Service(kind, val, s, w), NEW r, r = f[Len(w)]
  PROVE  /\ SchedOK(r) /\ NextReady(r)
         /\ \A t \in Task : IF t \in ToSet(w) /\ Serves(kind, val, t)
                            THEN Left(s, r, t) ELSE Unmoved(s, r, t)
<1> DEFINE n == Len(w)
           done(i) == {w[j] : j \in 1..i}
           G == {i \in 0..n : /\ SchedOK(f[i]) /\ NextReady(f[i])
                              /\ \A t \in Task : IF t \in done(i) /\ Serves(kind, val, t)
                                                 THEN Left(s, f[i], t) ELSE Unmoved(s, f[i], t)}
<1>1. n \in Nat /\ \A j \in 1..n : w[j] \in Task /\ w[j] \in ToSet(w)
  BY DEF ToSet
<1>2. f[0] = s /\ \A i \in 1..n : f[i] = Serve(kind, val, f[i-1], w[i])
  BY <1>1, ServiceStep
<1>3. 0 \in G
  BY <1>1, <1>2 DEF Unmoved
<1>4. ASSUME NEW i \in 1..n, i-1 \in G PROVE i \in G
  <2> DEFINE y == f[i-1]
             z == f[i]
             u == w[i]
  <2>1. /\ SchedOK(y) /\ NextReady(y)
        /\ \A t \in Task : IF t \in done(i-1) /\ Serves(kind, val, t)
                           THEN Left(s, y, t) ELSE Unmoved(s, y, t)
    BY <1>1, <1>4
  <2>2. u \in Task /\ Waiting(s.state[u]) /\ u \notin done(i-1)
    BY <1>1 DEF NoDuplicates
  <2>3. done(i) = done(i-1) \cup {u}
    BY <1>1
  <2>4. z = Serve(kind, val, y, u)
    BY <1>2
  <2> SUFFICES /\ SchedOK(z) /\ NextReady(z)
               /\ \A t \in Task : IF t \in done(i) /\ Serves(kind, val, t)
                                  THEN Left(s, z, t) ELSE Unmoved(s, z, t)
    BY <1>1
  <2> DEFINE d == done(i-1)
             e == done(i)
  <2>5. u \notin d /\ e = d \cup {u}
    BY <2>2, <2>3
  <2>6. \A t \in Task : IF t \in d /\ Serves(kind, val, t) THEN Left(s, y, t) ELSE Unmoved(s, y, t)
    BY <2>1
  <2> HIDE DEF y, z, u, d, e
  <2>7. CASE Serves(kind, val, u)
    <3>1. z = task_wait_complete(y, u)
      BY <2>4, <2>7 DEF Serve, Serves
    <3>2. Unmoved(s, y, u) /\ Waiting(y.state[u])
      BY <2>2, <2>5, <2>6 DEF Unmoved
    <3>3. /\ SchedOK(z) /\ NextReady(z) /\ Left(y, z, u)
          /\ \A t \in Task \ {u} : Unmoved(y, z, t)
      BY <2>1, <2>2, <3>1, <3>2, WaitEndMoves
    <3>4. Left(s, z, u)
      BY <3>2, <3>3 DEF Left, Unmoved
    <3>5. \A t \in Task \ {u} : IF t \in d /\ Serves(kind, val, t)
                                THEN Left(s, z, t) ELSE Unmoved(s, z, t)
      BY <2>6, <3>3 DEF Left, Unmoved
    <3>6. \A t \in Task : IF t \in e /\ Serves(kind, val, t)
                          THEN Left(s, z, t) ELSE Unmoved(s, z, t)
      BY <2>5, <2>7, <3>4, <3>5
    <3> QED BY <3>3, <3>6 DEF e
  <2>8. CASE ~Serves(kind, val, u)
    <3>1. z = y
      BY <2>4, <2>8 DEF Serve, Serves
    <3>2. \A t \in Task : IF t \in e /\ Serves(kind, val, t)
                          THEN Left(s, z, t) ELSE Unmoved(s, z, t)
      BY <2>5, <2>6, <2>8, <3>1
    <3> QED BY <2>1, <3>1, <3>2 DEF e
  <2> QED BY <2>7, <2>8
<1> HIDE DEF G
<1>5. n \in G
  BY <1>1, <1>3, <1>4, UpTo
<1>6. done(n) = ToSet(w)
  BY <1>1 DEF ToSet
<1> QED BY <1>1, <1>5, <1>6 DEF G

\* The scan of an event leaves only waiters behind whose condition does not hold.
LEMMA EventScanMoves ==
  ASSUME NEW s, SchedOK(s), NextReady(s), NEW val, NEW r, r = scan_event_waitqueue(s, val)
  PROVE  /\ SchedOK(r) /\ NextReady(r) /\ Moves(s, r, {Event})
         /\ \A t \in Task : r.pwait[t] = Event => s.pwait[t] = Event /\ ~Satisfied(val, t)
<1> DEFINE w == s.wq[Event]
           f == Service("event", val, s, w)
<1>1. Event \in Queue /\ Event # NoQueue
  BY EventAssumption, NoQueueAssumption
<1>2. w \in Seq(Task) /\ NoDuplicates(w) /\ \A t \in Task : t \in ToSet(w) <=> s.pwait[t] = Event
  BY <1>1 DEF SchedOK, Sched, WaitQueuesOK
<1>3. \A t \in ToSet(w) : Waiting(s.state[t])
  BY <1>1, InQueueWaits
<1>4. r = f[Len(w)]
  <2>1. r = LET scan[i \in 0..Len(w)] ==
                  IF i = 0 THEN s
                  ELSE IF Satisfied(val, w[i]) THEN task_wait_complete(scan[i-1], w[i])
                       ELSE scan[i-1]
            IN  scan[Len(w)]
    BY DEF scan_event_waitqueue
  <2> HIDE DEF w
  <2> QED BY <2>1 DEF Service, ServedUpTo, Serve
<1> HIDE DEF w
<1>5. PICK kind : kind = "event"
  OBVIOUS
<1>6. r = Service(kind, val, s, w)[Len(w)]
  BY <1>4, <1>5
<1>7. /\ SchedOK(r) /\ NextReady(r)
      /\ \A t \in Task : IF t \in ToSet(w) /\ Serves(kind, val, t)
                         THEN Left(s, r, t) ELSE Unmoved(s, r, t)
  BY <1>2, <1>3, <1>6, ServiceKeeps
<1>8. ASSUME NEW t \in Task
      PROVE  /\ Unmoved(s, r, t) \/ (Left(s, r, t) /\ s.pwait[t] \in {Event})
             /\ r.pwait[t] = Event => s.pwait[t] = Event /\ ~Satisfied(val, t)
  <2>1. CASE t \in ToSet(w) /\ Serves(kind, val, t)
    BY <1>1, <1>2, <1>7, <2>1 DEF Left
  <2>2. CASE ~(t \in ToSet(w) /\ Serves(kind, val, t))
    BY <1>2, <1>5, <1>7, <2>2 DEF Unmoved, Serves
  <2> QED BY <2>1, <2>2
<1> QED BY <1>7, <1>8 DEF Moves

\* The deletion of an object ends waits for it.
LEMMA EndWaitsMoves ==
  ASSUME NEW s, SchedOK(s), NextReady(s), NEW w \in Seq(Task), NoDuplicates(w),
         \A t \in ToSet(w) : Waiting(s.state[t]), NEW r, r = EndWaits(s, w)
  PROVE  /\ SchedOK(r) /\ NextReady(r)
         /\ \A t \in Task : IF t \in ToSet(w) THEN Left(s, r, t) ELSE Unmoved(s, r, t)
<1> DEFINE f == Service("all", {}, s, w)
<1>1. r = f[Len(w)]
  <2>1. r = LET ends[i \in 0..Len(w)] == IF i = 0 THEN s ELSE task_wait_complete(ends[i-1], w[i])
            IN  ends[Len(w)]
    BY DEF EndWaits
  <2> QED BY <2>1 DEF Service, ServedUpTo, Serve
<1>2. PICK kind : kind = "all"
  OBVIOUS
<1>3. r = Service(kind, {}, s, w)[Len(w)]
  BY <1>1, <1>2
<1>4. /\ SchedOK(r) /\ NextReady(r)
      /\ \A t \in Task : IF t \in ToSet(w) /\ Serves(kind, {}, t)
                         THEN Left(s, r, t) ELSE Unmoved(s, r, t)
  BY <1>3, ServiceKeeps
<1>5. \A t : Serves(kind, {}, t)
  BY <1>2 DEF Serves
<1> QED BY <1>4, <1>5

LEMMA DeletionMoves ==
  ASSUME SchedOK(k), NextReady(k), NEW q \in Queue, NEW r, r = EndsForDeletion(q)
  PROVE  SchedOK(r) /\ NextReady(r) /\ Moves(k, r, {q})
<1> DEFINE w == k.wq[q]
           ready == {i \in DOMAIN w : ~Suspended(k.state[w[i]])}
<1>1. w \in Seq(Task) /\ NoDuplicates(w) /\ \A t \in Task : t \in ToSet(w) <=> k.pwait[t] = q
  BY DEF SchedOK, Sched, WaitQueuesOK
<1>2. \A t \in ToSet(w) : t \in Task /\ Waiting(k.state[t])
  BY InQueueWaits
<1>3. r = IF ready = {} THEN EndWaits(k, w)
          ELSE [EndWaits(k, SubSeq(w, 1, Min(ready))) EXCEPT !.rc[w[Min(ready)]] = "DLT"]
  BY DEF EndsForDeletion
<1>4. CASE ready = {}
  <2>1. r = EndWaits(k, w)
    BY <1>3, <1>4
  <2> HIDE DEF w
  <2>2. /\ SchedOK(r) /\ NextReady(r)
        /\ \A t \in Task : IF t \in ToSet(w) THEN Left(k, r, t) ELSE Unmoved(k, r, t)
    BY <1>1, <1>2, <2>1, EndWaitsMoves
  <2> QED BY <1>1, <2>2 DEF Moves
<1>5. CASE ready # {}
  <2> DEFINE i == Min(ready)
             v == SubSeq(w, 1, i)
             y == EndWaits(k, v)
             t == w[i]
  <2>1. i \in DOMAIN w
    <3>1. DOMAIN w = 1..Len(w) /\ Len(w) \in Nat
      BY <1>1
    <3>2. ready \in SUBSET Nat /\ ready # {}
      BY <1>5, <3>1
    <3>3. PICK x \in ready : \A z \in ready : x <= z
      BY <3>2, LeastNumber
    <3>4. i \in ready
      BY <3>2, <3>3 DEF Min
    <3> QED BY <3>4
  <2>2. r = [y EXCEPT !.rc[t] = "DLT"]
    BY <1>3, <1>5
  <2> HIDE DEF i, w
  <2>3. i \in 1..Len(w) /\ Len(w) \in Nat /\ t \in Task /\ t \in ToSet(w)
    BY <1>1, <2>1 DEF ToSet
  <2>4. v \in Seq(Task) /\ Len(v) = i /\ \A j \in 1..i : v[j] = w[j]
    BY <1>1, <2>3
  <2>5. NoDuplicates(v) /\ t \in ToSet(v) /\ \A u \in ToSet(v) : u \in ToSet(w)
    <3>1. DOMAIN v = 1..i /\ DOMAIN w = 1..Len(w) /\ \A j \in 1..i : j \in 1..Len(w)
      BY <1>1, <2>3, <2>4
    <3> HIDE DEF v
    <3>2. NoDuplicates(v)
      BY <1>1, <2>4, <3>1 DEF NoDuplicates
    <3>3. i \in 1..i
      BY <2>3
    <3> QED BY <2>4, <3>1, <3>2, <3>3 DEF ToSet
  <2>6. \A u \in ToSet(v) : Waiting(k.state[u])
    BY <1>2, <2>5
  <2> HIDE DEF v, t
  <2>7. /\ SchedOK(y) /\ NextReady(y)
        /\ \A u \in Task : IF u \in ToSet(v) THEN Left(k, y, u) ELSE Unmoved(k, y, u)
    BY <2>4, <2>5, <2>6, EndWaitsMoves
  <2> HIDE DEF y
  <2>8. y \in Sched
    BY <2>7 DEF SchedOK
  <2> DEFINE c == [y.rc EXCEPT ![t] = "DLT"]
  <2>9. c \in [Task -> Codes] /\ \A u \in Task \ {t} : c[u] = y.rc[u]
    BY <2>8 DEF Sched, Codes
  <2>10. r = [y EXCEPT !.rc = c]
    BY <2>2
  <2> HIDE DEF c
  <2>11. /\ r \in Sched /\ r.ready = y.ready /\ r.timers = y.timers /\ r.wq = y.wq
         /\ r.state = y.state /\ r.tick = y.tick /\ r.reason = y.reason
         /\ r.pwait = y.pwait /\ r.next = y.next /\ r.rc = c
    BY <2>8, <2>9, <2>10 DEF Sched
  <2>12. SchedOK(r) /\ NextReady(r)
    BY <2>7, <2>11, OtherFieldsChange
  <2>13. ASSUME NEW u \in Task
         PROVE  Unmoved(k, r, u) \/ (Left(k, r, u) /\ k.pwait[u] \in {q})
    <3>1. CASE u \in ToSet(v)
      BY <1>1, <2>5, <2>7, <2>11, <3>1 DEF Left
    <3>2. CASE u \notin ToSet(v)
      BY <2>5, <2>7, <2>9, <2>11, <3>2 DEF Unmoved
    <3> QED BY <3>1, <3>2
  <2> QED BY <2>12, <2>13 DEF Moves
<1> QED BY <1>4, <1>5
-----------------------------------------------------------------------------
(* The objects that a step concerns *)

\* The wait of t for q has brought it what it waited for, and its call has not returned.
Got(t, q) ==
  at[t] = [part |-> "waited", obj |-> q] /\ ~Waiting(k.state[t]) /\ k.rc[t] = "NO_ERR"

\* What may happen to a task in a step that concerns the objects Q: it goes on as it was,
\* its wait ends, it goes on in calls that do not wait, it starts to wait, or it takes
\* what a wait has brought.
SameWait(t) ==
  /\ k'.pwait[t] = k.pwait[t] /\ k'.rc[t] = k.rc[t]
  /\ Waiting(k'.state[t]) <=> Waiting(k.state[t])

Rests(t, Q) ==
  /\ at'[t] = at[t] /\ SameWait(t)
  /\ \/ k'.reason[t] = k.reason[t]
     \/ k.pwait[t] \in Q \cap Mutex /\ k'.reason[t] \in MutexReasons

Ends(t, Q, late) ==
  /\ at'[t] = at[t] /\ Waiting(k.state[t]) /\ ~Waiting(k'.state[t])
  /\ k'.pwait[t] = NoQueue /\ k'.reason[t] = "NONE"
  /\ k.pwait[t] \in Q \/ (late /\ k'.rc[t] = "TIMEOUT")

Idles(t) ==
  /\ at[t].part # "waited" /\ at'[t].part # "waited"
  /\ k'.pwait[t] = NoQueue /\ ~Waiting(k'.state[t]) /\ k'.reason[t] = "NONE"

StartsToWait(t, Q) ==
  /\ at[t].part # "waited" /\ Waiting(k'.state[t])
  /\ \E q \in Q \cap Queue :
       /\ at'[t] = [part |-> "waited", obj |-> q] /\ k'.pwait[t] = q
       /\ k'.reason[t] = "SEM" <=> q = Sem
       /\ k'.reason[t] \in MutexReasons <=> q \in Mutex

Takes(t, Q) ==
  /\ \E q \in Q : at[t] = [part |-> "waited", obj |-> q]
  /\ at'[t] = Code /\ SameWait(t) /\ ~Waiting(k.state[t]) /\ k'.reason[t] = k.reason[t]

Concerns(Q, late) ==
  \A t \in Task : \/ Rests(t, Q) \/ Ends(t, Q, late) \/ Idles(t)
                  \/ StartsToWait(t, Q) \/ Takes(t, Q)

CallsOK ==
  /\ exists \in [Queue -> BOOLEAN]
  /\ at \in [Task -> [part : Parts, obj : Queue \cup {NoQueue}]]
  /\ irq = "enabled"

\* A task in a wait queue is in the second half of a call of that object. Every wait has a
\* queue, and only the semaphore is waited for with the reason "SEM".
WaitersOK ==
  \A t \in Task :
    /\ k.pwait[t] # NoQueue => at[t] = [part |-> "waited", obj |-> k.pwait[t]]
    /\ Waiting(k.state[t]) => k.pwait[t] # NoQueue
    /\ ~id_task[t] => at[t] = Code
    /\ k.reason[t] = "SEM" <=> k.pwait[t] = Sem

BaseOK == IInv /\ CallsOK /\ WaitersOK

\* Deletions are not taken back.
GoesOn == \A q \in Queue : Deleted(q) => Deleted(q)'

\* A step that keeps what all objects have in common.
Keeps(Q) == BaseOK' /\ Concerns(Q, FALSE) /\ GoesOn

LEMMA QueuesApart ==
  /\ {Sem, Event, Pool} \subseteq Queue /\ Mutex \subseteq Queue
  /\ Sem # NoQueue /\ Event # NoQueue /\ Pool # NoQueue /\ NoQueue \notin Mutex
  /\ Sem # Event /\ Sem # Pool /\ Event # Pool
  /\ Sem \notin Mutex /\ Event \notin Mutex /\ Pool \notin Mutex
BY ObjectsAssumption, NoQueueAssumption

LEMMA GotKept ==
  ASSUME WaitersOK, NEW Q, NEW late, Concerns(Q, late), NEW q, q \notin Q, NEW t \in Task
  PROVE  Got(t, q)' <=> Got(t, q)
<1>1. CASE Rests(t, Q)
  BY <1>1 DEF Rests, SameWait, Got
<1>2. CASE Ends(t, Q, late)
  <2>1. at[t].obj = k.pwait[t] /\ ~Got(t, q)
    <3>1. Waiting(k.state[t])
      BY <1>2 DEF Ends
    <3>2. at[t] = [part |-> "waited", obj |-> k.pwait[t]]
      BY <3>1 DEF WaitersOK
    <3> QED BY <3>1, <3>2 DEF Got
  <2>2. CASE k.pwait[t] \in Q
    BY <1>2, <2>1, <2>2 DEF Ends, Got
  <2>3. CASE k'.rc[t] = "TIMEOUT"
    BY <2>1, <2>3 DEF Got
  <2> QED BY <1>2, <2>2, <2>3 DEF Ends
<1>3. CASE Idles(t)
  BY <1>3 DEF Idles, Got
<1>4. CASE StartsToWait(t, Q)
  BY <1>4 DEF StartsToWait, Got
<1>5. CASE Takes(t, Q)
  BY <1>5 DEF Takes, Got, Code
<1> QED BY <1>1, <1>2, <1>3, <1>4, <1>5 DEF Concerns

LEMMA NoneJoins ==
  ASSUME NEW Q, NEW late, Concerns(Q, late), NEW q \in Queue, q \notin Q, NEW t \in Task,
         k'.pwait[t] = q
  PROVE  k.pwait[t] = q
<1>1. q # NoQueue
  BY NoQueueAssumption
<1> QED BY <1>1 DEF Concerns, Rests, Ends, Idles, StartsToWait, Takes, SameWait

\* The tasks that come to be are in no call.
Created == \A t \in Task : ~id_task'[t] => ~id_task[t] /\ at'[t] = at[t]

LEMMA WaitersKept ==
  ASSUME IInv, WaitersOK, NEW Q, NEW late, Concerns(Q, late), Created
  PROVE  WaitersOK'
<1> SUFFICES ASSUME NEW t \in Task
             PROVE  /\ k'.pwait[t] # NoQueue => at'[t] = [part |-> "waited", obj |-> k'.pwait[t]]
                    /\ Waiting(k'.state[t]) => k'.pwait[t] # NoQueue
                    /\ k'.reason[t] = "SEM" <=> k'.pwait[t] = Sem
  BY DEF WaitersOK, Created
<1>0. /\ k.pwait[t] # NoQueue => at[t] = [part |-> "waited", obj |-> k.pwait[t]]
      /\ Waiting(k.state[t]) => k.pwait[t] # NoQueue
      /\ k.reason[t] = "SEM" <=> k.pwait[t] = Sem
      /\ ~Waiting(k.state[t]) => k.pwait[t] = NoQueue
  BY DEF WaitersOK, IInv, KernelOK, SchedOK, WaitFieldsOK
<1>1. CASE Rests(t, Q)
  BY <1>0, <1>1, QueuesApart DEF Rests, SameWait, MutexReasons
<1>2. CASE Ends(t, Q, late)
  BY <1>2, QueuesApart DEF Ends
<1>3. CASE Idles(t)
  BY <1>3, QueuesApart DEF Idles
<1>4. CASE StartsToWait(t, Q)
  <2>1. k'.pwait[t] # NoQueue
    BY <1>4, NoQueueAssumption DEF StartsToWait
  <2> QED BY <1>4, <2>1 DEF StartsToWait
<1>5. CASE Takes(t, Q)
  BY <1>0, <1>5, QueuesApart DEF Takes, SameWait
<1> QED BY <1>1, <1>2, <1>3, <1>4, <1>5 DEF Concerns

LEMMA MutexesKept ==
  ASSUME WaitersOK, MutexesOK(k, mx), NEW Q, Concerns(Q, FALSE), Q \cap Mutex = {}
  PROVE  MutexesOK(k', mx)
<1>1. ASSUME NEW t \in Task
      PROVE  /\ k'.reason[t] \in MutexReasons <=> k'.pwait[t] \in Mutex
             /\ k'.reason[t] = "MUTEX_C_BLK" => mx.blk[t] \in Task /\ Ceiling(k'.pwait[t])
             /\ k'.reason[t] \in {"MUTEX_C", "MUTEX_I"} => mx.holder[k'.pwait[t]] \in Task
             /\ t \in ToSet(mx.blocked) => Waiting(k'.state[t]) /\ k'.reason[t] = "MUTEX_C_BLK"
  <2>0. /\ k.reason[t] \in MutexReasons <=> k.pwait[t] \in Mutex
        /\ k.reason[t] = "MUTEX_C_BLK" => mx.blk[t] \in Task /\ Ceiling(k.pwait[t])
        /\ k.reason[t] \in {"MUTEX_C", "MUTEX_I"} => mx.holder[k.pwait[t]] \in Task
        /\ t \in ToSet(mx.blocked) => Waiting(k.state[t]) /\ k.reason[t] = "MUTEX_C_BLK"
        /\ Waiting(k.state[t]) => at[t].part = "waited"
    <3>1. Waiting(k.state[t]) => at[t] = [part |-> "waited", obj |-> k.pwait[t]]
      BY DEF WaitersOK
    <3> QED BY <3>1 DEF MutexesOK, BlockersOK, BlockedOK
  <2>1. CASE Rests(t, Q)
    BY <2>0, <2>1 DEF Rests, SameWait
  <2>2. CASE Ends(t, Q, FALSE)
    BY <2>0, <2>2, QueuesApart DEF Ends, MutexReasons
  <2>3. CASE Idles(t)
    BY <2>0, <2>3, QueuesApart DEF Idles, MutexReasons
  <2>4. CASE StartsToWait(t, Q)
    <3>1. t \notin ToSet(mx.blocked)
      BY <2>0, <2>4 DEF StartsToWait
    <3>2. k'.reason[t] \notin MutexReasons /\ k'.pwait[t] \notin Mutex
      BY <2>4 DEF StartsToWait
    <3> QED BY <3>1, <3>2 DEF MutexReasons
  <2>5. CASE Takes(t, Q)
    BY <2>0, <2>5 DEF Takes, SameWait
  <2> QED BY <2>1, <2>2, <2>3, <2>4, <2>5 DEF Concerns
<1>2. ToSet(mx.blocked) \subseteq Task
  BY DEF MutexesOK, MutexLists, ToSet
<1> QED BY <1>1, <1>2 DEF MutexesOK, BlockersOK, BlockedOK
-----------------------------------------------------------------------------
(* The calls and the handlers *)

\* The places of a deletion.
Deleting == {"delete", "remove", "finish", "again", "over"}

\* A step in no deletion takes none back.
LEMMA NoDeletionEnds ==
  ASSUME exists' = exists,
         \A t \in Task : at'[t] = at[t] \/ at[t].part \notin Deleting
  PROVE  GoesOn
BY DEF GoesOn, Deleted, Deleting

\* The caller exists and waits for nothing.
LEMMA CallerIsThere ==
  ASSUME IInv, Calls(curr)
  PROVE  /\ curr \in Task /\ id_task[curr] /\ k.state[curr] = "RUNNABLE" /\ ~Waiting(k.state[curr])
         /\ k.pwait[curr] = NoQueue /\ k.reason[curr] = "NONE"
<1>1. curr \in Task /\ k.state[curr] = "RUNNABLE" /\ SchedOK(k)
  BY CallerIsReady
<1>2. id_task[curr]
  BY <1>1, NobodyEnds DEF IInv, UncreatedRest
<1> QED BY <1>1, <1>2 DEF SchedOK, WaitFieldsOK, Waiting

\* What a call leaves at its place.
Place == [part : Parts, obj : Queue \cup {NoQueue}]

\* From the record and the place that a call leaves to what all objects have in common.
LEMMA BaseKept ==
  ASSUME BaseOK, Calls(curr), IInv', UnchangedTasks,
         exists' \in [Queue -> BOOLEAN], irq' = "enabled",
         NEW v \in Place, at' = [at EXCEPT ![curr] = v], NEW Q, Concerns(Q, FALSE)
  PROVE  BaseOK'
<1>1. curr \in Task /\ id_task[curr]
  BY CallerIsThere DEF BaseOK
<1>2. at' \in [Task -> Place]
  BY <1>1 DEF BaseOK, CallsOK, Place
<1>3. Created
  BY <1>1, <1>2 DEF Created, UnchangedTasks, BaseOK, CallsOK
<1>4. WaitersOK'
  BY <1>3, WaitersKept DEF BaseOK
<1> QED BY <1>2, <1>4 DEF BaseOK, CallsOK, Place

\* A call that waits for nothing: it ends waits for objects of Q or changes nothing.
LEMMA EndingCall ==
  ASSUME BaseOK, Calls(curr), UnchangedTasks, Returns \/ Switches,
         exists' \in [Queue -> BOOLEAN], irq' = "enabled",
         SchedOK(k'), NextReady(k'), NEW Q, Moves(k, k', Q),
         NEW v \in Place, at' = [at EXCEPT ![curr] = v],
         at[curr].part # "waited", v.part # "waited"
  PROVE  BaseOK' /\ Concerns(Q, FALSE)
<1>1. /\ curr \in Task /\ k.state[curr] = "RUNNABLE" /\ ~Waiting(k.state[curr])
      /\ k.pwait[curr] = NoQueue /\ k.reason[curr] = "NONE"
  BY CallerIsThere DEF BaseOK
<1>2. Unmoved(k, k', curr)
  BY <1>1 DEF Moves, Left
<1>3. \A t \in Task : ~id_task[t] => k'.state[t] = "DORMANT"
  BY NobodyEnds DEF Moves, Unmoved, Left, BaseOK, IInv, UncreatedRest, Waiting
<1>4. IInv'
  BY <1>1, <1>2, <1>3, CallKeeps DEF BaseOK, Unmoved
<1>5. at'[curr] = v /\ \A t \in Task \ {curr} : at'[t] = at[t]
  BY <1>1 DEF BaseOK, CallsOK
<1>6. ASSUME NEW t \in Task
      PROVE  Rests(t, Q) \/ Ends(t, Q, FALSE) \/ Idles(t)
  <2>1. CASE t = curr
    BY <1>1, <1>2, <1>5, <2>1 DEF Idles, Unmoved
  <2>2. CASE t # curr /\ Unmoved(k, k', t)
    BY <1>5, <2>2 DEF Rests, SameWait, Unmoved
  <2>3. CASE t # curr /\ Left(k, k', t) /\ k.pwait[t] \in Q
    BY <1>5, <2>3 DEF Ends, Left, Waiting
  <2> QED BY <2>1, <2>2, <2>3 DEF Moves
<1>7. Concerns(Q, FALSE)
  BY <1>6 DEF Concerns
<1> QED BY <1>4, <1>7, BaseKept

\* The same for the handler of an interrupt.
LEMMA EndingHandler ==
  ASSUME BaseOK, InterruptExit, UNCHANGED callvars, request' \in BOOLEAN, request => request',
         SchedOK(k'), NextReady(k'), NEW Q, Moves(k, k', Q)
  PROVE  Keeps(Q)
<1>1. \A t \in Task : ~id_task[t] => k'.state[t] = "DORMANT"
  BY NobodyEnds DEF Moves, Unmoved, Left, BaseOK, IInv, UncreatedRest, Waiting
<1>2. k.state[curr] = "RUNNABLE" => k'.state[curr] = "RUNNABLE"
  BY DEF Moves, Unmoved, Left, BaseOK, IInv, VariablesOK, Waiting
<1>3. IInv'
  BY <1>1, <1>2, InterruptKeeps DEF BaseOK
<1>4. \A t \in Task : Rests(t, Q) \/ Ends(t, Q, FALSE)
  BY DEF Moves, Unmoved, Left, Rests, SameWait, Ends, Waiting, callvars
<1>5. Concerns(Q, FALSE)
  BY <1>4 DEF Concerns
<1>6. Created
  BY DEF Created, InterruptExit, callvars
<1>7. WaitersOK'
  BY <1>5, <1>6, WaitersKept DEF BaseOK
<1>8. GoesOn
  BY NoDeletionEnds DEF callvars
<1> QED BY <1>3, <1>5, <1>7, <1>8 DEF Keeps, BaseOK, CallsOK, callvars

\* The caller starts to wait for q.
LEMMA WaitingCall ==
  ASSUME BaseOK, NEW q \in Queue, At("entered", q), MayStop(curr), Switches, UnchangedTasks,
         SameObjects, Goes("waited", q),
         NEW reason \in Reasons \ {"NONE"}, NEW timeout \in Timeouts,
         k' = task_curr_to_wait_action(k, curr, q, reason, timeout),
         reason = "SEM" <=> q = Sem, reason \in MutexReasons <=> q \in Mutex
  PROVE  /\ Keeps({q}) /\ \A x \in Queue \ {q} : k'.wq[x] = k.wq[x]
         /\ \A t \in Task : Got(t, q)' <=> Got(t, q)
<1>1. Calls(curr) /\ at[curr].part = "entered"
  BY DEF At
<1>2. curr \in Task
  BY <1>1, CallerIsThere DEF BaseOK
<1>3. IInv' /\ \A x \in Queue \ {q} : k'.wq[x] = k.wq[x]
  BY <1>1, QueueingKeeps DEF BaseOK
<1>4. k \in Sched
  BY DEF BaseOK, IInv, KernelOK, SchedOK
<1>5. /\ k'.state[curr] = "WAIT" /\ k'.pwait[curr] = q /\ k'.reason[curr] = reason
      /\ \A u \in Task \ {curr} :
           k'.state[u] = k.state[u] /\ k'.pwait[u] = k.pwait[u] /\ k'.reason[u] = k.reason[u]
      /\ k'.rc = k.rc
  BY <1>2, <1>4, CurrentWaitEffects
<1> DEFINE v == [part |-> "waited", obj |-> q]
<1>6. v \in Place /\ at' = [at EXCEPT ![curr] = v]
  BY DEF Place, Parts, Goes
<1>7. at'[curr] = v /\ \A t \in Task \ {curr} : at'[t] = at[t]
  BY <1>2, <1>6 DEF BaseOK, CallsOK
<1>8. StartsToWait(curr, {q})
  BY <1>1, <1>5, <1>7 DEF StartsToWait, Waiting
<1>9. \A t \in Task \ {curr} : Rests(t, {q})
  BY <1>5, <1>7 DEF Rests, SameWait
<1> HIDE DEF v
<1>10. Concerns({q}, FALSE)
  BY <1>8, <1>9 DEF Concerns
<1>11. exists' \in [Queue -> BOOLEAN] /\ irq' = "enabled"
  BY DEF SameObjects, BaseOK, CallsOK
<1>12. BaseOK'
  BY <1>1, <1>3, <1>6, <1>10, <1>11, BaseKept
<1>13. GoesOn
  BY <1>1, <1>7, NoDeletionEnds DEF SameObjects, Deleting
<1>14. ASSUME NEW t \in Task PROVE Got(t, q)' <=> Got(t, q)
  <2>1. CASE t = curr
    BY <1>1, <1>5, <2>1 DEF Got, Waiting
  <2>2. CASE t # curr
    BY <1>5, <1>7, <2>2 DEF Got
  <2> QED BY <2>1, <2>2
<1> QED BY <1>3, <1>10, <1>12, <1>13, <1>14 DEF Keeps

LEMMA EnterKeeps ==
  ASSUME BaseOK, NEW q \in Queue, Enter(q)
  PROVE  Keeps({})
<1> DEFINE v == [part |-> "entered", obj |-> q]
<1>1. Calls(curr) /\ UnchangedTasks /\ Returns /\ k' = k /\ at[curr].part = "code"
      /\ exists' = exists /\ irq' = irq
  BY DEF Enter, Code, SameObjects
<1>2. v \in Place /\ at' = [at EXCEPT ![curr] = v] /\ v.part # "waited"
  BY DEF Enter, Goes, Place, Parts
<1>3. SchedOK(k') /\ NextReady(k') /\ Moves(k, k', {})
  BY <1>1, NothingMoves DEF BaseOK, IInv, KernelOK
<1>4. exists' \in [Queue -> BOOLEAN] /\ irq' = "enabled"
  BY <1>1 DEF BaseOK, CallsOK
<1>5. \A t \in Task : at'[t] = at[t] \/ at[t].part \notin Deleting
  BY <1>1, <1>2 DEF BaseOK, CallsOK, Deleting
<1> HIDE DEF v
<1>6. BaseOK' /\ Concerns({}, FALSE)
  BY <1>1, <1>2, <1>3, <1>4, EndingCall
<1>7. GoesOn
  BY <1>1, <1>5, NoDeletionEnds
<1> QED BY <1>6, <1>7 DEF Keeps

LEMMA QuickKeeps ==
  ASSUME BaseOK, NEW q \in Queue, Quick(q), Returns \/ Switches, SchedOK(k'), NextReady(k'),
         NEW Q, Moves(k, k', Q)
  PROVE  Keeps(Q)
<1>1. Calls(curr) /\ UnchangedTasks /\ at[curr].part = "entered"
      /\ exists' = exists /\ irq' = irq /\ at' = [at EXCEPT ![curr] = Code]
  BY DEF Quick, At, Done, SameObjects
<1>2. Code \in Place /\ Code.part # "waited"
  BY DEF Place, Parts, Code
<1>3. exists' \in [Queue -> BOOLEAN] /\ irq' = "enabled"
  BY <1>1 DEF BaseOK, CallsOK
<1>4. \A t \in Task : at'[t] = at[t] \/ at[t].part \notin Deleting
  BY <1>1 DEF BaseOK, CallsOK, Deleting
<1>5. BaseOK' /\ Concerns(Q, FALSE)
  BY <1>1, <1>2, <1>3, EndingCall
<1>6. GoesOn
  BY <1>1, <1>4, NoDeletionEnds
<1> QED BY <1>5, <1>6 DEF Keeps

LEMMA RecordIsOrderly ==
  ASSUME BaseOK, k' = k, NEW Q
  PROVE  SchedOK(k') /\ NextReady(k') /\ Moves(k, k', Q)
BY NothingMoves DEF BaseOK, IInv, KernelOK

LEMMA QuickReturns ==
  ASSUME BaseOK, NEW q \in Queue, Quick(q), Returns, k' = k
  PROVE  Keeps({})
<1>1. SchedOK(k') /\ NextReady(k') /\ Moves(k, k', {})
  BY RecordIsOrderly
<1> QED BY <1>1, QuickKeeps

LEMMA HandlerReturns ==
  ASSUME BaseOK, NEW q \in Queue, Handler(q), UNCHANGED request, k' = k
  PROVE  Keeps({})
<1>1. SchedOK(k') /\ NextReady(k') /\ Moves(k, k', {})
  BY RecordIsOrderly
<1>2. InterruptExit /\ UNCHANGED callvars /\ request' \in BOOLEAN /\ (request => request')
  BY DEF Handler, BaseOK, IInv, VariablesOK
<1> QED BY <1>1, <1>2, EndingHandler

\* The second half of a call takes what a wait has brought.
LEMMA SecondHalfKeeps ==
  ASSUME BaseOK, NEW q \in Queue, SecondHalf(q)
  PROVE  /\ Keeps({q}) /\ at[curr] = [part |-> "waited", obj |-> q] /\ at'[curr] = Code
         /\ \A t \in Task \ {curr} : at'[t] = at[t]
         /\ curr \in Task /\ ~Waiting(k.state[curr]) /\ k' = k
<1>1. /\ Calls(curr) /\ UnchangedTasks /\ Returns /\ k' = k
      /\ at[curr] = [part |-> "waited", obj |-> q] /\ at' = [at EXCEPT ![curr] = Code]
      /\ exists' = exists /\ irq' = irq
  BY DEF SecondHalf, At, Done, SameObjects
<1>2. curr \in Task /\ ~Waiting(k.state[curr]) /\ k.state[curr] = "RUNNABLE"
  BY <1>1, CallerIsThere DEF BaseOK
<1>3. at'[curr] = Code /\ \A t \in Task \ {curr} : at'[t] = at[t]
  BY <1>1, <1>2 DEF BaseOK, CallsOK
<1>4. SchedOK(k') /\ NextReady(k') /\ \A t \in Task : ~id_task[t] => k'.state[t] = "DORMANT"
  BY <1>1, NobodyEnds DEF BaseOK, IInv, KernelOK, UncreatedRest
<1>5. IInv'
  BY <1>1, <1>2, <1>4, CallKeeps DEF BaseOK
<1>6. Takes(curr, {q})
  BY <1>1, <1>2, <1>3 DEF Takes, SameWait
<1>7. \A t \in Task \ {curr} : Rests(t, {q})
  BY <1>1, <1>3 DEF Rests, SameWait
<1>8. Concerns({q}, FALSE)
  BY <1>6, <1>7 DEF Concerns
<1>9. Code \in Place /\ exists' \in [Queue -> BOOLEAN] /\ irq' = "enabled"
  BY <1>1 DEF Place, Parts, Code, BaseOK, CallsOK
<1>10. BaseOK'
  BY <1>1, <1>5, <1>8, <1>9, BaseKept
<1>11. \A t \in Task : at'[t] = at[t] \/ at[t].part \notin Deleting
  BY <1>1, <1>3 DEF Deleting
<1>12. GoesOn
  BY <1>1, <1>11, NoDeletionEnds
<1> QED BY <1>1, <1>2, <1>3, <1>8, <1>10, <1>12 DEF Keeps

\* The steps of a deletion that end no wait.
LEMMA DeletionWithoutWaits ==
  ASSUME BaseOK, NEW q \in Queue, Deletes(q) \/ DeleteTest(q) \/ DeleteFinishes(q)
  PROVE  Keeps({}) /\ Deleted(q)' /\ k' = k
<1>0. irq = "enabled" /\ pend \in BOOLEAN
  BY DEF BaseOK, CallsOK, IInv, VariablesOK
<1>1. /\ Calls(curr) /\ UnchangedTasks /\ Returns /\ k' = k /\ irq' = irq
      /\ at[curr].part # "waited" /\ curr \in Task
  <2>1. Calls(curr)
    BY DEF Deletes, DeleteTest, DeleteFinishes, At, Calls
  <2>2. at[curr].part # "waited"
    BY DEF Deletes, DeleteTest, DeleteFinishes, At, Calls, Code
  <2>3. curr \in Task
    BY <2>1, CallerIsThere DEF BaseOK
  <2>4. CASE Deletes(q) \/ DeleteTest(q)
    BY <2>1, <2>2, <2>3, <2>4 DEF Deletes, DeleteTest, SameObjects
  <2>5. CASE DeleteFinishes(q)
    <3>1. irq' = irq /\ (pend' <=> pend) /\ pend' \in BOOLEAN
      BY <1>0, <2>5 DEF DeleteFinishes, Enables, masked
    <3>2. pend' = pend
      BY <1>0, <3>1
    <3> QED BY <2>1, <2>2, <2>3, <2>5, <3>1, <3>2 DEF DeleteFinishes, Returns
  <2> QED BY <2>4, <2>5
<1>2. PICK v \in Place :
        /\ at' = [at EXCEPT ![curr] = v] /\ v.part # "waited"
        /\ \/ v.part \in Deleting /\ v.obj = q /\ exists' = exists
           \/ exists' = [exists EXCEPT ![q] = FALSE]
        /\ at[curr].part \in Deleting => at[curr].obj = q
  <2>1. CASE Deletes(q)
    <3> DEFINE v == [part |-> "delete", obj |-> q]
    <3>1. v \in Place /\ v.part = "delete" /\ v.part \in Deleting /\ v.obj = q
      BY DEF Place, Parts, Deleting
    <3>2. at' = [at EXCEPT ![curr] = v] /\ exists' = exists
      BY <2>1 DEF Deletes, Goes, SameObjects
    <3>3. at[curr].part = "code"
      BY <2>1 DEF Deletes, Calls, Code
    <3> HIDE DEF v
    <3> QED BY <3>1, <3>2, <3>3 DEF Deleting
  <2>2. CASE DeleteTest(q)
    <3>1. PICK part \in {"finish", "over", "remove"} : Goes(part, q)
      BY <2>2 DEF DeleteTest
    <3> DEFINE v == [part |-> part, obj |-> q]
    <3>2. v \in Place /\ v.part \in Deleting /\ v.part # "waited" /\ v.obj = q
      BY DEF Place, Parts, Deleting
    <3>4. at' = [at EXCEPT ![curr] = v] /\ exists' = exists
      BY <2>2, <3>1 DEF DeleteTest, Goes, SameObjects
    <3>3. at[curr].obj = q
      BY <2>2 DEF DeleteTest, At
    <3> HIDE DEF v
    <3> QED BY <3>2, <3>3, <3>4
  <2>3. CASE DeleteFinishes(q)
    <3>1. Code \in Place /\ Code.part # "waited"
      BY DEF Place, Parts, Code
    <3>2. at' = [at EXCEPT ![curr] = Code] /\ exists' = [exists EXCEPT ![q] = FALSE]
      BY <2>3 DEF DeleteFinishes, Done
    <3>3. at[curr].obj = q
      BY <2>3 DEF DeleteFinishes, At
    <3> QED BY <3>1, <3>2, <3>3
  <2> QED BY <2>1, <2>2, <2>3
<1>3. SchedOK(k') /\ NextReady(k') /\ Moves(k, k', {})
  BY <1>1, RecordIsOrderly
<1>4. exists' \in [Queue -> BOOLEAN] /\ irq' = "enabled"
  BY <1>0, <1>1, <1>2 DEF BaseOK, CallsOK
<1>5. BaseOK' /\ Concerns({}, FALSE)
  BY <1>1, <1>2, <1>3, <1>4, EndingCall
<1>6. at'[curr] = v /\ \A t \in Task \ {curr} : at'[t] = at[t]
  BY <1>1, <1>2 DEF BaseOK, CallsOK
<1>7. Deleted(q)'
  BY <1>1, <1>2, <1>6 DEF Deleted, Deleting, BaseOK, CallsOK
<1>8. GoesOn
  BY <1>2, <1>6, <1>7 DEF GoesOn, Deleted, Deleting, BaseOK, CallsOK
<1> QED BY <1>1, <1>5, <1>7, <1>8 DEF Keeps

\* The step that ends waits.
LEMMA DeletionWithWaits ==
  ASSUME BaseOK, NEW q \in Queue, NEW n, NEW ready, NEW blind, DeleteRemoves(q, n, ready, blind),
         SchedOK(k'), NextReady(k'), Moves(k, k', {q}), Undisturbed'
  PROVE  Keeps({q}) /\ Deleted(q)'
<1>0. irq = "enabled" /\ irq' = "enabled" /\ pend' = pend
  <2>1. irq = "enabled" /\ irq' = "enabled" /\ pend \in BOOLEAN
    BY DEF BaseOK, CallsOK, IInv, VariablesOK, Undisturbed
  <2>2. pend' = pend \/ ((pend' <=> pend) /\ pend' \in BOOLEAN)
    BY <2>1 DEF DeleteRemoves, LeavesDisabled, Enables, masked
  <2> QED BY <2>1, <2>2
<1>1. /\ Calls(curr) /\ UnchangedTasks /\ (Returns \/ Switches)
      /\ at[curr] = [part |-> "remove", obj |-> q]
      /\ irq' = "enabled"
  BY <1>0 DEF DeleteRemoves, At, Returns, Switches
<1>2. PICK v \in Place :
        /\ at' = [at EXCEPT ![curr] = v] /\ v.part # "waited"
        /\ \/ v.part = "delete" /\ v.obj = q /\ exists' = exists
           \/ exists' = [exists EXCEPT ![q] = FALSE]
  <2>1. [part |-> "delete", obj |-> q] \in Place
    BY DEF Place, Parts
  <2>2. Code \in Place /\ Code.part # "waited"
    BY DEF Place, Parts, Code
  <2>3. IF ready THEN Goes("delete", q) /\ exists' = exists
        ELSE Done /\ exists' = [exists EXCEPT ![q] = FALSE]
    BY <1>0 DEF DeleteRemoves
  <2> QED BY <2>1, <2>2, <2>3 DEF Goes, Done
<1>3. exists' \in [Queue -> BOOLEAN] /\ curr \in Task
  BY <1>1, <1>2, CallerIsThere DEF BaseOK, CallsOK
<1>4. BaseOK' /\ Concerns({q}, FALSE)
  <2>1. PICK Q : Q = {q}
    OBVIOUS
  <2>2. Moves(k, k', Q) /\ at[curr].part # "waited"
    BY <1>1, <2>1
  <2>3. BaseOK' /\ Concerns(Q, FALSE)
    BY <1>1, <1>2, <1>3, <2>2, EndingCall
  <2> QED BY <2>1, <2>3
<1>5. at'[curr] = v /\ \A t \in Task \ {curr} : at'[t] = at[t]
  BY <1>2, <1>3 DEF BaseOK, CallsOK
<1>6. Deleted(q)'
  BY <1>2, <1>3, <1>5 DEF Deleted, BaseOK, CallsOK
<1>7. GoesOn
  BY <1>1, <1>2, <1>5, <1>6 DEF GoesOn, Deleted, BaseOK, CallsOK
<1> QED BY <1>4, <1>6, <1>7 DEF Keeps

LEMMA DeletionStepKeeps ==
  ASSUME BaseOK, NEW q \in Queue, NEW blind, DeletionStep(q, blind), Undisturbed'
  PROVE  /\ Keeps({q}) /\ Deleted(q)'
         /\ \A t \in Task : k'.pwait[t] = q => k.pwait[t] = q
<1>1. CASE Deletes(q) \/ DeleteTest(q) \/ DeleteFinishes(q)
  <2>1. Keeps({}) /\ Deleted(q)' /\ k' = k
    BY <1>1, DeletionWithoutWaits
  <2>2. Keeps({q})
    BY <2>1 DEF Keeps, Concerns, Rests, Ends, StartsToWait, Takes
  <2> QED BY <2>1, <2>2
<1>2. CASE /\ k' = EndsForDeletion(q)
           /\ DeleteRemoves(q, Len(k.wq[q]) - Len(k'.wq[q]), Woken, blind)
  <2>1. SchedOK(k) /\ NextReady(k)
    BY DEF BaseOK, IInv, KernelOK
  <2>2. SchedOK(k') /\ NextReady(k') /\ Moves(k, k', {q})
    BY <1>2, <2>1, DeletionMoves
  <2>3. Keeps({q}) /\ Deleted(q)'
    BY <1>2, <2>2, DeletionWithWaits
  <2>4. q # NoQueue
    BY NoQueueAssumption
  <2> QED BY <2>2, <2>3, <2>4 DEF Moves, Unmoved, Left
<1> QED BY <1>1, <1>2 DEF DeletionStep
-----------------------------------------------------------------------------
(* The management of the tasks, the switch, and the semaphore *)

\* A step in which all waits go on, and no task is written anew but one that is created.
LEMMA WaitsGoOn ==
  ASSUME BaseOK, IInv', SameWaits(k, k'), UNCHANGED callvars,
         \A t \in Task : id_task[t] => id_task'[t] /\ k'.rc[t] = k.rc[t]
  PROVE  Keeps({})
<1>1. exists' = exists /\ at' = at /\ irq' = irq
  BY DEF callvars
<1>2. ASSUME NEW t \in Task
      PROVE  Rests(t, {}) \/ Idles(t)
  <2>1. CASE id_task[t]
    BY <1>1, <2>1 DEF Rests, SameWait, SameWaits
  <2>2. CASE ~id_task[t]
    <3>0. at[t] = Code
      BY <2>2 DEF BaseOK, WaitersOK
    <3>1. at[t].part # "waited"
      BY <3>0 DEF Code
    <3>2. ~Waiting(k.state[t]) /\ k.pwait[t] = NoQueue /\ k.reason[t] = "NONE"
      BY <2>2, NobodyEnds DEF BaseOK, IInv, KernelOK, SchedOK, WaitFieldsOK, UncreatedRest, Waiting
    <3> QED BY <1>1, <3>1, <3>2 DEF Idles, SameWaits
  <2> QED BY <2>1, <2>2
<1>3. Concerns({}, FALSE)
  BY <1>2 DEF Concerns
<1>4. Created
  BY <1>1 DEF Created
<1>5. WaitersOK'
  BY <1>3, <1>4, WaitersKept DEF BaseOK
<1>6. GoesOn
  BY <1>1, NoDeletionEnds
<1> QED BY <1>1, <1>3, <1>5, <1>6 DEF Keeps, BaseOK, CallsOK

AppOK == app \in Applications /\ count \in [Queue -> 0..MaxCount]

LEMMA ManagementKeeps ==
  ASSUME BaseOK, AppOK, ManagesTasks
  PROVE  Keeps({})
<1>1. CASE CreatesInOrder
  <2>1. PICK i \in DOMAIN Order :
          Order[i] \in DOMAIN app.priority /\ kern_task_create(Order[i], app.priority[Order[i]], TRUE)
    BY <1>1 DEF CreatesInOrder
  <2>2. Order[i] \in Task /\ app.priority[Order[i]] \in Priorities
    <3>1. app.priority \in UNION {[c -> Priorities] : c \in SUBSET Task}
      BY ObjectsAssumption DEF AppOK
    <3> QED BY <2>1, <3>1, StartAssumption
  <2>3. PICK t \in Task : t = Order[i]
    BY <2>2
  <2>4. PICK p \in Priorities : p = app.priority[Order[i]]
    BY <2>2
  <2>5. kern_task_create(t, p, TRUE)
    BY <2>1, <2>3, <2>4
  <2>6. IInv'
    BY <2>5, CreateKeeps DEF BaseOK
  <2>7. SameWaits(k, k') /\ \A u \in Task \ {t} : k'.rc[u] = k.rc[u]
    BY <2>5, CreationLeavesWaits DEF BaseOK
  <2>8. \A u \in Task : id_task[u] => id_task'[u] /\ k'.rc[u] = k.rc[u]
    BY <2>5, <2>7 DEF kern_task_create, BaseOK, IInv, VariablesOK
  <2>9. UNCHANGED callvars
    BY DEF ManagesTasks
  <2> QED BY <2>6, <2>7, <2>8, <2>9, WaitsGoOn DEF BaseOK
<1>2. CASE \E t \in app.suspends : kern_task_suspend(t) \/ kern_task_resume(t)
  <2>1. app.suspends \subseteq Task
    BY ObjectsAssumption DEF AppOK
  <2>2. PICK t \in Task : kern_task_suspend(t) \/ kern_task_resume(t)
    BY <1>2, <2>1
  <2>3. IInv'
    BY <2>2, SuspendKeeps, ResumeKeeps DEF BaseOK
  <2>4. SameWaits(k, k') /\ k'.rc = k.rc
    BY <2>2, SuspensionLeavesWaits DEF BaseOK
  <2>5. id_task' = id_task
    BY <2>2 DEF kern_task_suspend, kern_task_resume, UnchangedTasks
  <2>6. UNCHANGED callvars
    BY DEF ManagesTasks
  <2> QED BY <2>3, <2>4, <2>5, <2>6, WaitsGoOn
<1> QED BY <1>1, <1>2 DEF ManagesTasks

LEMMA ProcessorKeeps ==
  ASSUME BaseOK, Processor, UNCHANGED callvars
  PROVE  Keeps({})
<1>0. TestNext \/ SwitchContext \/ PendSV
  BY DEF Processor, SwitchReturns, masked, BaseOK, CallsOK
<1>1. IInv'
  BY <1>0, TestNextKeeps, SwitchContextKeeps, PendSVKeeps DEF BaseOK
<1>2. k' = k /\ id_task' = id_task
  BY <1>0 DEF TestNext, SwitchContext, PendSV
<1>3. SameWaits(k, k')
  BY <1>2 DEF SameWaits
<1> QED BY <1>1, <1>2, <1>3, WaitsGoOn

\* The first waiter for q is served.
LEMMA HeadIsServed ==
  ASSUME BaseOK, NEW q \in Queue, k.wq[q] # << >>, NEW t, t = Head(k.wq[q]),
         k' = task_wait_complete(k, t)
  PROVE  /\ SchedOK(k') /\ NextReady(k') /\ Moves(k, k', {q})
         /\ t \in Task /\ Waiting(k.state[t]) /\ k.pwait[t] = q
         /\ Left(k, k', t) /\ k'.rc[t] = "NO_ERR"
         /\ \A u \in Task \ {t} : Unmoved(k, k', u)
<1>1. SchedOK(k) /\ NextReady(k) /\ k.wq[q] \in Seq(Task)
  BY DEF BaseOK, IInv, KernelOK, SchedOK, Sched
<1>2. t \in ToSet(k.wq[q])
  BY <1>1 DEF ToSet
<1>3. t \in Task /\ Waiting(k.state[t]) /\ k.pwait[t] = q
  BY <1>1, <1>2, InQueueWaits
<1>4. /\ SchedOK(k') /\ NextReady(k') /\ Left(k, k', t) /\ k'.rc[t] = "NO_ERR"
      /\ \A u \in Task \ {t} : Unmoved(k, k', u)
  BY <1>1, <1>3, WaitEndMoves
<1> QED BY <1>3, <1>4 DEF Moves

LEMMA SignalMoves ==
  ASSUME BaseOK, Signal(Sem)
  PROVE  SchedOK(k') /\ NextReady(k') /\ Moves(k, k', {Sem})
<1>1. CASE k.wq[Sem] # << >> /\ k' = task_wait_complete(k, Head(k.wq[Sem]))
  <2>1. PICK t : t = Head(k.wq[Sem])
    OBVIOUS
  <2>2. Sem \in Queue /\ k' = task_wait_complete(k, t)
    BY <1>1, <2>1, QueuesApart
  <2> QED BY <1>1, <2>1, <2>2, HeadIsServed
<1>2. CASE k' = k
  BY <1>2, RecordIsOrderly
<1> QED BY <1>1, <1>2 DEF Signal

\* The calls of the semaphore, and its units.
LEMMA SemKeeps ==
  ASSUME BaseOK, AppOK, SemNextHere, Undisturbed'
  PROVE  Keeps({Sem}) \/ Keeps({})
<1>0. Sem \in Queue
  BY QueuesApart
<1>1. CASE Enter(Sem)
  BY <1>0, <1>1, EnterKeeps
<1>2. CASE SemCall
  <2>1. Calls(curr) /\ At("entered", Sem) /\ SameObjects
    BY <1>2 DEF SemCall, At
  <2>2. curr \in Task /\ ~Waiting(k.state[curr])
    BY <2>1, CallerIsThere DEF BaseOK
  <2>3. CASE Signal(Sem) /\ UnchangedTasks /\ (Switches \/ Returns)
    <3>1. SchedOK(k') /\ NextReady(k') /\ Moves(k, k', {Sem})
      BY <2>3, SignalMoves
    <3>2. ~Waiting(k'.state[curr])
      BY <2>2, <3>1 DEF Moves, Unmoved, Left
    <3>3. Quick(Sem)
      BY <1>2, <2>1, <2>3, <3>2 DEF SemCall, Quick
    <3> QED BY <1>0, <2>3, <3>1, <3>3, QuickKeeps
  <2>4. CASE k' = k /\ Returns /\ UnchangedTasks
    <3>1. Quick(Sem)
      BY <1>2, <2>1, <2>2, <2>4 DEF SemCall, Quick
    <3> QED BY <1>0, <2>4, <3>1, QuickReturns
  <2>5. CASE \E timeout \in app.timeouts :
               /\ MayStop(curr) /\ Switches /\ UnchangedTasks
               /\ k' = task_curr_to_wait_action(k, curr, Sem, "SEM", timeout)
    <3>1. app.timeouts \subseteq Timeouts
      BY ObjectsAssumption DEF AppOK
    <3>2. PICK timeout \in Timeouts :
            /\ MayStop(curr) /\ Switches /\ UnchangedTasks
            /\ k' = task_curr_to_wait_action(k, curr, Sem, "SEM", timeout)
      BY <2>5, <3>1
    <3>3. PICK reason : reason = "SEM"
      OBVIOUS
    <3>4. /\ reason \in Reasons \ {"NONE"} /\ (reason = "SEM" <=> Sem = Sem)
          /\ reason \in MutexReasons <=> Sem \in Mutex
          /\ k' = task_curr_to_wait_action(k, curr, Sem, reason, timeout)
      BY <3>2, <3>3, QueuesApart DEF Reasons, MutexReasons
    <3>5. k'.state[curr] = "WAIT"
      BY <1>0, <2>2, <3>4, CurrentWaitEffects DEF BaseOK, IInv, KernelOK, SchedOK
    <3>6. Goes("waited", Sem)
      BY <1>2, <2>2, <3>5 DEF SemCall, Waiting
    <3> QED BY <1>0, <2>1, <3>2, <3>4, <3>6, WaitingCall
  <2> QED BY <1>2, <2>3, <2>4, <2>5
        DEF SemCall, kern_sem_acquire_polling, kern_sem_signal, kern_sem_acquire
<1>3. CASE Handler(Sem) /\ (kern_sem_isignal(Sem) \/ kern_sem_acquire_ipolling(Sem))
  <2>1. CASE kern_sem_isignal(Sem)
    <3>1. SchedOK(k') /\ NextReady(k') /\ Moves(k, k', {Sem})
      BY <2>1, SignalMoves DEF kern_sem_isignal
    <3>2. InterruptExit /\ UNCHANGED callvars /\ request' \in BOOLEAN /\ (request => request')
      BY <1>3, <2>1 DEF Handler, kern_sem_isignal, BaseOK, IInv, VariablesOK
    <3> QED BY <3>1, <3>2, EndingHandler
  <2>2. CASE kern_sem_acquire_ipolling(Sem)
    BY <1>0, <1>3, <2>2, HandlerReturns DEF kern_sem_acquire_ipolling
  <2> QED BY <1>3, <2>1, <2>2
<1>4. CASE SecondHalf(Sem)
  BY <1>0, <1>4, SecondHalfKeeps
<1>5. CASE kern_sem_delete
  <2>1. DeletionStep(Sem, TRUE)
    BY <1>5 DEF kern_sem_delete
  <2> QED BY <1>0, <2>1, DeletionStepKeeps
<1> QED BY <1>1, <1>2, <1>3, <1>4, <1>5 DEF SemNextHere

\* No count leaves its range.
LEMMA SemCountsKept ==
  ASSUME AppOK, SemNextHere
  PROVE  count' \in [Queue -> 0..MaxCount]
<1>1. \A n \in 0..MaxCount : /\ n >= 1 => n - 1 \in 0..MaxCount
                             /\ n < MaxCount => n + 1 \in 0..MaxCount
  BY SemAssumption
<1>2. Sem \in Queue /\ count[Sem] \in 0..MaxCount
  BY QueuesApart DEF AppOK
<1>3. \/ count' = count
      \/ count[Sem] >= 1 /\ count' = [count EXCEPT ![Sem] = @ - 1]
      \/ count[Sem] < MaxCount /\ count' = [count EXCEPT ![Sem] = @ + 1]
  BY DEF SemNextHere, SemCall, kern_sem_acquire_polling, kern_sem_signal, kern_sem_acquire,
         kern_sem_isignal, kern_sem_acquire_ipolling, Signal, kern_sem_delete, semcallvars
<1> QED BY <1>1, <1>2, <1>3 DEF AppOK
-----------------------------------------------------------------------------
(* Events *)

LEMMA QueueIsWaiters ==
  ASSUME NEW s, SchedOK(s), NEW q \in Queue
  PROVE  /\ \A t : t \in ToSet(s.wq[q]) <=> t \in Task /\ s.pwait[t] = q
         /\ s.wq[q] = << >> <=> \A t \in Task : s.pwait[t] # q
<1>1. s.wq[q] \in Seq(Task) /\ \A t \in Task : t \in ToSet(s.wq[q]) <=> s.pwait[t] = q
  BY DEF SchedOK, Sched, WaitQueuesOK
<1>2. \A t : t \in ToSet(s.wq[q]) => t \in Task
  BY <1>1 DEF ToSet
<1>3. s.wq[q] # << >> => Head(s.wq[q]) \in ToSet(s.wq[q])
  BY <1>1 DEF ToSet
<1>4. s.wq[q] = << >> => \A t : t \notin ToSet(s.wq[q])
  BY DEF ToSet
<1> QED BY <1>1, <1>2, <1>3, <1>4

\* Who goes on at its place does not start to wait.
LEMMA OnlyCallerJoins ==
  ASSUME NEW Q, NEW late, Concerns(Q, late), NEW q \in Queue, NEW t \in Task, at'[t] = at[t],
         k'.pwait[t] = q
  PROVE  k.pwait[t] = q
<1>1. q # NoQueue
  BY NoQueueAssumption
<1>2. ~StartsToWait(t, Q)
  <2>1. StartsToWait(t, Q) => \E x \in Q \cap Queue : at'[t] = [part |-> "waited", obj |-> x]
    BY DEF StartsToWait
  <2>2. StartsToWait(t, Q) => at[t].part # "waited"
    BY DEF StartsToWait
  <2>3. \A x : [part |-> "waited", obj |-> x].part = "waited"
    OBVIOUS
  <2> QED BY <2>1, <2>2, <2>3
<1> QED BY <1>1, <1>2 DEF Concerns, Rests, Ends, Idles, Takes, SameWait

\* No waiter's condition holds.
EventFields == evf = [attr |-> evf.attr, io |-> evf.io, pattern |-> evf.pattern]
NoFlagMissed == evf.io = "pattern" => \A t \in ToSet(k.wq[Event]) : ~Satisfied(evf.pattern, t)
EventOK == EventTypeOK /\ EventFields /\ NoFlagMissed

\* With more flags more conditions hold.
LEMMA MoreFlags ==
  \A v, w, c : v \subseteq w /\ fCond(v, c) => fCond(w, c)
BY DEF fCond

\* Nobody joins the queue, and what the event has besides satisfies no waiter.
LEMMA EventKept ==
  ASSUME EventOK, SchedOK(k), SchedOK(k'), EventTypeOK', EventFields', evf'.io = evf.io,
         NEW val, evf.io = "pattern" => evf'.pattern \subseteq val,
         \A t \in Task : k'.pwait[t] = Event =>
             (evf.io = "pattern" => ~fCond(val, ewait'[t]))
  PROVE  EventOK'
<1>1. Event \in Queue
  BY QueuesApart
<1>2. ASSUME evf'.io = "pattern", NEW t \in ToSet(k'.wq[Event])
      PROVE  ~fCond(evf'.pattern, ewait'[t])
  <2>1. t \in Task /\ k'.pwait[t] = Event
    BY <1>1, <1>2, QueueIsWaiters
  <2>2. ~fCond(val, ewait'[t])
    BY <1>2, <2>1
  <2> QED BY <1>2, <2>2, MoreFlags
<1>3. NoFlagMissed'
  BY <1>2 DEF NoFlagMissed, Satisfied
<1> QED BY <1>3 DEF EventOK

\* What NoFlagMissed says of a waiter.
LEMMA WaiterMissesNone ==
  ASSUME EventOK, SchedOK(k), NEW t \in Task, k.pwait[t] = Event, evf.io = "pattern"
  PROVE  ~fCond(evf.pattern, ewait[t])
<1>1. t \in ToSet(k.wq[Event])
  BY QueuesApart, QueueIsWaiters
<1> QED BY <1>1 DEF EventOK, NoFlagMissed, Satisfied

LEMMA EventRests ==
  ASSUME EventOK, SchedOK(k), SchedOK(k'), UNCHANGED evvars,
         \A t \in Task : k'.pwait[t] = Event => k.pwait[t] = Event
  PROVE  EventOK'
<1>1. evf' = evf /\ register' = register /\ ewait' = ewait
  BY DEF evvars
<1>2. PICK val : val = evf.pattern
  OBVIOUS
<1>3. EventTypeOK' /\ EventFields'
  BY <1>1 DEF EventOK, EventTypeOK, EventFields
<1>4. \A t \in Task : k'.pwait[t] = Event => (evf.io = "pattern" => ~fCond(val, ewait'[t]))
  BY <1>1, <1>2, WaiterMissesNone
<1> QED BY <1>1, <1>2, <1>3, <1>4, EventKept

\* A step that does not concern the event.
LEMMA EventFrame ==
  ASSUME BaseOK, EventOK, NEW Q, Keeps(Q), Event \notin Q, UNCHANGED evvars
  PROVE  EventOK'
<1>1. SchedOK(k) /\ SchedOK(k') /\ Concerns(Q, FALSE) /\ Event \in Queue
  BY QueuesApart DEF BaseOK, Keeps, IInv, KernelOK
<1>2. \A t \in Task : k'.pwait[t] = Event => k.pwait[t] = Event
  BY <1>1, NoneJoins
<1> QED BY <1>1, <1>2, EventRests

\* Flags go, and the record stays as it is.
LEMMA FlagsGo ==
  ASSUME BaseOK, EventOK, k' = k, UNCHANGED << register, ewait >>,
         NEW p \in SUBSET evf.pattern, evf' = [evf EXCEPT !.pattern = p]
  PROVE  EventOK'
<1>1. SchedOK(k) /\ SchedOK(k')
  BY DEF BaseOK, IInv, KernelOK
<1>2. evf'.io = evf.io /\ evf'.attr = evf.attr /\ evf'.pattern = p
      /\ evf' = [attr |-> evf'.attr, io |-> evf'.io, pattern |-> evf'.pattern]
  BY DEF EventOK, EventFields
<1>3. EventTypeOK' /\ EventFields'
  BY <1>2 DEF EventOK, EventTypeOK, EventFields
<1>4. PICK val : val = evf.pattern
  OBVIOUS
<1>5. \A t \in Task : k'.pwait[t] = Event => (evf.io = "pattern" => ~fCond(val, ewait'[t]))
  BY <1>1, <1>4, WaiterMissesNone
<1> QED BY <1>1, <1>2, <1>3, <1>4, <1>5, EventKept

LEMMA PollingKeepsEvent ==
  ASSUME BaseOK, EventOK, NEW c, Polls(c)
  PROVE  EventOK'
<1>1. PICK p : p = IF evf' = evf THEN evf.pattern ELSE {}
  OBVIOUS
<1>2. p \in SUBSET evf.pattern
  BY <1>1
<1>3. evf' = [evf EXCEPT !.pattern = p]
  <2>1. evf = [evf EXCEPT !.pattern = evf.pattern]
    BY DEF EventOK, EventFields
  <2> QED BY <1>1, <2>1 DEF Polls, Cleared
<1> QED BY <1>2, <1>3, FlagsGo DEF Polls

\* Flags are set: whoever still waits then has seen them, and waits for others.
LEMMA SettingKeepsEvent ==
  ASSUME BaseOK, EventOK, NEW p \in SUBSET Bit, Sets(p)
  PROVE  /\ EventOK'
         /\ SchedOK(k') /\ NextReady(k') /\ Moves(k, k', {Event})
<1> DEFINE set == [evf EXCEPT !.pattern = @ \cup p]
           val == IoVal(set.pattern)
<1>1. SchedOK(k) /\ NextReady(k)
  BY DEF BaseOK, IInv, KernelOK
<1>2. /\ k' = scan_event_waitqueue(k, val) /\ register' = register
      /\ evf' = IF Woken THEN Cleared(set) ELSE set
      /\ HandsFlags(val)
  BY DEF Sets
<1>3. /\ set.pattern = evf.pattern \cup p /\ set.io = evf.io /\ set.attr = evf.attr
      /\ set = [attr |-> set.attr, io |-> set.io, pattern |-> set.pattern]
      /\ set.pattern \subseteq Bit
  <2>1. PICK a, i, f : evf = [attr |-> a, io |-> i, pattern |-> f]
    BY DEF EventOK, EventFields
  <2>2. set = [attr |-> a, io |-> i, pattern |-> f \cup p]
    BY <2>1
  <2>3. f \subseteq Bit
    BY <2>1 DEF EventOK, EventTypeOK
  <2> HIDE DEF set
  <2> QED BY <2>1, <2>2, <2>3
<1>4. val \in SUBSET Bit /\ (evf.io = "pattern" => val = set.pattern)
  BY <1>3 DEF IoVal, EventOK, EventTypeOK
<1> HIDE DEF val, set
<1>5. /\ SchedOK(k') /\ NextReady(k') /\ Moves(k, k', {Event})
      /\ \A t \in Task : k'.pwait[t] = Event => k.pwait[t] = Event /\ ~Satisfied(val, t)
  BY <1>1, <1>2, EventScanMoves
<1>6. /\ evf'.io = evf.io /\ evf'.attr = evf.attr
      /\ evf' = [attr |-> evf'.attr, io |-> evf'.io, pattern |-> evf'.pattern]
      /\ evf'.pattern \subseteq set.pattern
  BY <1>2, <1>3 DEF Cleared
<1>7. /\ ewait' \in [Task -> [mode : {"AND", "OR"}, pattern : SUBSET Bit]]
      /\ \A t \in Task : k'.pwait[t] = Event => ewait'[t] = ewait[t]
  <2>1. ewait \in [Task -> [mode : {"AND", "OR"}, pattern : SUBSET Bit]]
    BY DEF EventOK, EventTypeOK
  <2>2. \A t \in Task : [ewait[t] EXCEPT !.pattern = val] \in [mode : {"AND", "OR"}, pattern : SUBSET Bit]
    BY <1>4, <2>1
  <2>3. ewait' = [t \in Task |-> IF k.pwait[t] = Event /\ k'.pwait[t] # Event
                                 THEN [ewait[t] EXCEPT !.pattern = val] ELSE ewait[t]]
    BY <1>2 DEF HandsFlags
  <2> QED BY <2>1, <2>2, <2>3
<1>8. EventTypeOK' /\ EventFields'
  BY <1>2, <1>3, <1>6, <1>7 DEF EventOK, EventTypeOK, EventFields
<1>9. \A t \in Task : k'.pwait[t] = Event => (evf.io = "pattern" => ~fCond(val, ewait'[t]))
  BY <1>5, <1>7 DEF Satisfied
<1>10. EventOK'
  BY <1>1, <1>4, <1>5, <1>6, <1>8, <1>9, EventKept
<1> QED BY <1>5, <1>10

\* The calls and handlers of the event.
LEMMA EventKeeps ==
  ASSUME BaseOK, EventOK, AppOK, EventNext(app.timeouts), Undisturbed'
  PROVE  (Keeps({Event}) \/ Keeps({})) /\ EventOK'
<1>0. Event \in Queue /\ Event \notin {} /\ SchedOK(k) /\ NextReady(k)
  BY QueuesApart DEF BaseOK, IInv, KernelOK
<1>1. CASE Enter(Event) /\ UNCHANGED evvars
  <2>1. Keeps({})
    BY <1>0, <1>1, EnterKeeps
  <2> QED BY <1>0, <1>1, <2>1, EventFrame
<1>2. CASE \E c \in Conditions : Quick(Event) /\ Returns /\ Polls(c)
  <2>1. PICK c \in Conditions : Quick(Event) /\ Returns /\ Polls(c)
    BY <1>2
  <2>2. Keeps({})
    BY <1>0, <2>1, QuickReturns DEF Polls
  <2> QED BY <2>1, <2>2, PollingKeepsEvent
<1>3. CASE \E c \in Conditions : kern_event_iwait(c)
  <2>1. PICK c \in Conditions : Handler(Event) /\ Polls(c) /\ UNCHANGED request
    BY <1>3 DEF kern_event_iwait
  <2>2. Keeps({})
    BY <1>0, <2>1, HandlerReturns DEF Polls
  <2> QED BY <2>1, <2>2, PollingKeepsEvent
<1>4. CASE \E c \in Conditions, timeout \in app.timeouts :
             /\ At("entered", Event) /\ ~fCond(IoVal(evf.pattern), c)
             /\ ewait' = [ewait EXCEPT ![curr] = c]
             /\ Waits(Event, "EVENT", timeout)
             /\ UNCHANGED << evf, register >>
  <2>1. app.timeouts \subseteq Timeouts
    BY ObjectsAssumption DEF AppOK
  <2>2. PICK c \in Conditions, timeout \in Timeouts :
          /\ At("entered", Event) /\ ~fCond(IoVal(evf.pattern), c)
          /\ ewait' = [ewait EXCEPT ![curr] = c]
          /\ Waits(Event, "EVENT", timeout)
          /\ UNCHANGED << evf, register >>
    BY <1>4, <2>1
  <2>3. PICK reason : reason = "EVENT"
    OBVIOUS
  <2>4. /\ MayStop(curr) /\ Switches /\ UnchangedTasks /\ SameObjects /\ Goes("waited", Event)
        /\ k' = task_curr_to_wait_action(k, curr, Event, reason, timeout)
    BY <2>2, <2>3 DEF Waits, MayWait
  <2>5. /\ reason \in Reasons \ {"NONE"} /\ (reason = "SEM" <=> Event = Sem)
        /\ reason \in MutexReasons <=> Event \in Mutex
    BY <2>3, QueuesApart DEF Reasons, MutexReasons
  <2>6. Keeps({Event})
    BY <1>0, <2>2, <2>4, <2>5, WaitingCall
  <2>7. Calls(curr) /\ curr \in Task
    BY <2>2, CallerIsThere DEF At, BaseOK
  <2>8. /\ ewait' \in [Task -> [mode : {"AND", "OR"}, pattern : SUBSET Bit]]
        /\ ewait'[curr] = c /\ \A t \in Task \ {curr} : ewait'[t] = ewait[t]
    <3>1. c \in [mode : {"AND", "OR"}, pattern : SUBSET Bit]
      BY EventAssumption
    <3> QED BY <2>2, <2>7, <3>1 DEF EventOK, EventTypeOK
  <2>9. \A t \in Task \ {curr} : k'.pwait[t] = Event => k.pwait[t] = Event
    <3>1. \A t \in Task \ {curr} : at'[t] = at[t]
      BY <2>4, <2>7 DEF Goes, BaseOK, CallsOK
    <3>2. Concerns({Event}, FALSE)
      BY <2>6 DEF Keeps
    <3> QED BY <1>0, <3>1, <3>2, OnlyCallerJoins
  <2>10. PICK val : val = evf.pattern
    OBVIOUS
  <2>11. \A t \in Task : k'.pwait[t] = Event => (evf.io = "pattern" => ~fCond(val, ewait'[t]))
    <3>1. evf.io = "pattern" => ~fCond(evf.pattern, c)
      BY <2>2 DEF IoVal
    <3>2. \A t \in Task \ {curr} : k'.pwait[t] = Event => (evf.io = "pattern" => ~fCond(val, ewait'[t]))
      BY <1>0, <2>8, <2>9, <2>10, WaiterMissesNone
    <3> QED BY <2>8, <2>10, <3>1, <3>2
  <2>12. evf' = evf /\ register' = register
    BY <2>2
  <2>13. EventTypeOK' /\ EventFields' /\ SchedOK(k')
    BY <2>6, <2>8, <2>12 DEF EventOK, EventTypeOK, EventFields, Keeps, BaseOK, IInv, KernelOK
  <2> QED BY <1>0, <2>6, <2>10, <2>11, <2>12, <2>13, EventKept
<1>5. CASE \E p \in (SUBSET Bit) \ {{}} : kern_event_set(p)
  <2>1. PICK p \in SUBSET Bit : Quick(Event) /\ Sets(p) /\ (Returns \/ Switches)
    BY <1>5 DEF kern_event_set, CallEnds
  <2>2. EventOK' /\ SchedOK(k') /\ NextReady(k') /\ Moves(k, k', {Event})
    BY <2>1, SettingKeepsEvent
  <2>3. Keeps({Event})
    BY <1>0, <2>1, <2>2, QuickKeeps
  <2> QED BY <2>2, <2>3
<1>6. CASE \E p \in (SUBSET Bit) \ {{}} : kern_event_iset(p)
  <2>1. PICK p \in SUBSET Bit : Handler(Event) /\ Sets(p) /\ request' = (request \/ Woken)
    BY <1>6 DEF kern_event_iset
  <2>2. EventOK' /\ SchedOK(k') /\ NextReady(k') /\ Moves(k, k', {Event})
    BY <2>1, SettingKeepsEvent
  <2>3. InterruptExit /\ UNCHANGED callvars
    BY <2>1 DEF Handler
  <2>4. request' \in BOOLEAN /\ (request => request')
    <3>1. request \in BOOLEAN
      BY DEF BaseOK, IInv, VariablesOK
    <3> QED BY <2>1, <3>1, Zenon DEF Woken
  <2>5. Keeps({Event})
    BY <2>2, <2>3, <2>4, EndingHandler
  <2> QED BY <2>2, <2>5
<1>7. CASE \E p \in (SUBSET Bit) \ {Bit} : kern_event_clear(p) \/ kern_event_iclear(p)
  <2>1. PICK p \in SUBSET Bit :
          /\ Clears(p)
          /\ \/ Quick(Event) /\ Returns
             \/ Handler(Event) /\ UNCHANGED request
    BY <1>7 DEF kern_event_clear, kern_event_iclear
  <2>2. k' = k /\ UNCHANGED << register, ewait >>
    BY <2>1 DEF Clears
  <2>3. Keeps({})
    BY <1>0, <2>1, <2>2, QuickReturns, HandlerReturns
  <2>4. PICK f : f = evf.pattern \cap p
    OBVIOUS
  <2>5. f \in SUBSET evf.pattern /\ evf' = [evf EXCEPT !.pattern = f]
    BY <2>1, <2>4 DEF Clears
  <2> QED BY <2>2, <2>3, <2>5, FlagsGo
<1>8. CASE EventWaited
  <2>1. SecondHalf(Event) /\ ewait' = [ewait EXCEPT ![curr] = NoWait]
        /\ evf' = evf /\ register' = register
    BY <1>8 DEF EventWaited
  <2>2. Keeps({Event}) /\ curr \in Task /\ ~Waiting(k.state[curr]) /\ k' = k
    BY <1>0, <2>1, SecondHalfKeeps
  <2>3. k.pwait[curr] # Event
    BY <1>0, <2>2, QueuesApart DEF SchedOK, WaitFieldsOK
  <2>4. /\ ewait' \in [Task -> [mode : {"AND", "OR"}, pattern : SUBSET Bit]]
        /\ \A t \in Task \ {curr} : ewait'[t] = ewait[t]
    <3>1. NoWait \in [mode : {"AND", "OR"}, pattern : SUBSET Bit]
      BY DEF NoWait
    <3> QED BY <2>1, <2>2, <3>1 DEF EventOK, EventTypeOK
  <2>5. PICK val : val = evf.pattern
    OBVIOUS
  <2>6. \A t \in Task : k'.pwait[t] = Event => (evf.io = "pattern" => ~fCond(val, ewait'[t]))
    BY <1>0, <2>2, <2>3, <2>4, <2>5, WaiterMissesNone
  <2>7. EventTypeOK' /\ EventFields' /\ SchedOK(k')
    BY <1>0, <2>1, <2>2, <2>4 DEF EventOK, EventTypeOK, EventFields
  <2> QED BY <1>0, <2>1, <2>2, <2>5, <2>6, <2>7, EventKept
<1>9. CASE tn_event_delete
  <2>1. DeletionStep(Event, FALSE) /\ UNCHANGED evvars
    BY <1>9 DEF tn_event_delete
  <2>2. Keeps({Event}) /\ \A t \in Task : k'.pwait[t] = Event => k.pwait[t] = Event
    BY <1>0, <2>1, DeletionStepKeeps
  <2>3. SchedOK(k')
    BY <2>2 DEF Keeps, BaseOK, IInv, KernelOK
  <2> QED BY <1>0, <2>1, <2>2, <2>3, EventRests
<1>10. CASE Device
  <2>1. UNCHANGED vars /\ UNCHANGED callvars /\ k' = k /\ id_task' = id_task
    BY <1>10 DEF Device, vars
  <2>2. IInv'
    BY <2>1, StutterKeeps DEF BaseOK
  <2>3. SameWaits(k, k')
    BY <2>1 DEF SameWaits
  <2>4. Keeps({})
    BY <2>1, <2>2, <2>3, WaitsGoOn
  <2>5. evf' = evf /\ ewait' = ewait /\ evf.io = "register" /\ register' \in SUBSET Bit
    BY <1>10 DEF Device
  <2>6. EventOK'
    BY <2>5 DEF EventOK, EventTypeOK, EventFields, NoFlagMissed
  <2> QED BY <2>4, <2>6
<1> QED BY <1>1, <1>2, <1>3, <1>4, <1>5, <1>6, <1>7, <1>8, <1>9, <1>10
      DEF EventNext, kern_event_wait, kern_event_wait_polling
-----------------------------------------------------------------------------
(* Pools of blocks *)

LEMMA TailHasTheRest ==
  ASSUME NEW S, NEW s \in Seq(S), s # << >>, NoDuplicates(s)
  PROVE  /\ NoDuplicates(Tail(s)) /\ ToSet(Tail(s)) = ToSet(s) \ {Head(s)}
         /\ Tail(s) \in Seq(S) /\ Len(Tail(s)) = Len(s) - 1
<1>1. /\ Len(s) \in Nat /\ Len(s) >= 1 /\ DOMAIN s = 1..Len(s) /\ Head(s) = s[1]
      /\ Tail(s) \in Seq(S) /\ Len(Tail(s)) = Len(s) - 1
      /\ DOMAIN Tail(s) = 1..Len(s)-1
      /\ \A i \in 1..Len(s)-1 : Tail(s)[i] = s[i+1]
  OBVIOUS
<1>2. NoDuplicates(Tail(s))
  BY <1>1 DEF NoDuplicates
<1>3. ASSUME NEW x \in ToSet(Tail(s)) PROVE x \in ToSet(s) /\ x # Head(s)
  <2>1. PICK i \in 1..Len(s)-1 : x = s[i+1]
    BY <1>1, <1>3 DEF ToSet
  <2>2. i+1 \in 1..Len(s) /\ i+1 # 1 /\ 1 \in 1..Len(s)
    BY <1>1
  <2> QED BY <1>1, <2>1, <2>2 DEF ToSet, NoDuplicates
<1>4. ASSUME NEW x \in ToSet(s), x # Head(s) PROVE x \in ToSet(Tail(s))
  <2>1. PICK i \in 1..Len(s) : x = s[i]
    BY <1>1 DEF ToSet
  <2>2. i-1 \in 1..Len(s)-1 /\ s[(i-1)+1] = s[i]
    BY <1>1, <1>4, <2>1
  <2>3. x = Tail(s)[i-1]
    BY <1>1, <2>1, <2>2
  <2> QED BY <1>1, <2>2, <2>3 DEF ToSet
<1> QED BY <1>1, <1>2, <1>3, <1>4

LEMMA OneIsPutBefore ==
  ASSUME NEW s \in Seq(Block), NEW b \in Block, NoDuplicates(s), b \notin ToSet(s),
         NEW r, r = << b >> \o s
  PROVE  ToSet(r) = ToSet(s) \cup {b} /\ NoDuplicates(r)
<1>1. /\ Len(s) \in Nat /\ DOMAIN s = 1..Len(s)
      /\ DOMAIN r = 1..Len(s)+1 /\ r[1] = b
      /\ \A i \in 1..Len(s)+1 : i # 1 => r[i] = s[i-1]
  OBVIOUS
<1>2. \A i \in 1..Len(s) : i+1 \in 1..Len(s)+1 /\ i+1 # 1 /\ r[i+1] = s[i]
  BY <1>1
<1>3. \A i \in 1..Len(s)+1 : i # 1 => i-1 \in 1..Len(s)
  BY <1>1
<1>4. ToSet(r) = ToSet(s) \cup {b}
  <2>1. \A x \in ToSet(r) : x \in ToSet(s) \cup {b}
    BY <1>1, <1>3 DEF ToSet
  <2>2. ASSUME NEW x \in ToSet(s) PROVE x \in ToSet(r)
    <3>1. PICK i \in 1..Len(s) : x = s[i]
      BY <1>1 DEF ToSet
    <3>2. i+1 \in 1..Len(s)+1 /\ r[i+1] = x
      BY <1>2, <3>1
    <3> QED BY <1>1, <3>2 DEF ToSet
  <2>3. b \in ToSet(r)
    <3>1. 1 \in 1..Len(s)+1
      BY <1>1
    <3> QED BY <1>1, <3>1 DEF ToSet
  <2> QED BY <2>1, <2>2, <2>3
<1>5. \A i \in 1..Len(s) : s[i] # b
  BY <1>1 DEF ToSet
<1> QED BY <1>1, <1>3, <1>4, <1>5 DEF NoDuplicates

\* A block that is not in the free list leaves room there.
LEMMA RoomForBlock ==
  ASSUME NEW s \in Seq(Block), NoDuplicates(s), NEW b \in Block, b \notin ToSet(s)
  PROVE  Len(s) < NumBlocks
<1> DEFINE S == Block \ {b}
           f == [i \in 1..Len(s) |-> s[i]]
<1>1. NumBlocks \in Nat /\ IsFiniteSet(S) /\ Cardinality(S) = NumBlocks - 1
  BY FmemAssumption, FS_CardinalityType, FS_RemoveElement DEF NumBlocks
<1>2. f \in Injection(1..Len(s), S)
  <2>1. DOMAIN s = 1..Len(s) /\ \A i \in 1..Len(s) : s[i] \in Block /\ s[i] # b
    BY DEF ToSet
  <2> QED BY <2>1 DEF NoDuplicates, Injection, IsInjective
<1>3. Len(s) \in Nat /\ 1 \in Int /\ Len(s) \in Int
  OBVIOUS
<1>4. Cardinality(1..Len(s)) = IF 1 > Len(s) THEN 0 ELSE Len(s)-1+1
  BY <1>3, FS_Interval, Zenon
<1> HIDE DEF S, f
<1>5. Cardinality(1..Len(s)) <= Cardinality(S)
  BY <1>1, <1>2, FS_Injection
<1> QED BY <1>1, <1>3, <1>4, <1>5

BlockOwners == Task \cup {Handlers}

\* Whose the block b is, and to whom it has been handed.
Owning(b)  == {o \in BlockOwners : b \in owned[o]}
Handing(b) == {t \in Task : Got(t, Pool) /\ elem[t] = b}

OnePlace(b) ==
  \/ b \in ToSet(free_list) /\ Owning(b) = {} /\ Handing(b) = {}
  \/ b \notin ToSet(free_list) /\ (\E o \in BlockOwners : Owning(b) = {o}) /\ Handing(b) = {}
  \/ b \notin ToSet(free_list) /\ Owning(b) = {} /\ \E t \in Task : Handing(b) = {t}

NoBlockLies == fblkcnt > 0 => k.wq[Pool] = << >>

BlocksOK == NoDuplicates(free_list) /\ \A b \in Block : OnePlace(b)
PoolOK ==
  /\ FmemTypeOK /\ NoBlockLies /\ Len(free_list) = fblkcnt
  /\ ~Deleted(Pool) => BlocksOK

\* A block stays where it is.
SameOwning(b)  == Owning(b)' = Owning(b)
SameHanding(b) == Handing(b)' = Handing(b)
SameFree(b)    == b \in ToSet(free_list') <=> b \in ToSet(free_list)

LEMMA PlaceKept ==
  ASSUME NEW b, OnePlace(b), SameOwning(b), SameHanding(b), SameFree(b)
  PROVE  OnePlace(b)'
BY DEF OnePlace, SameOwning, SameHanding, SameFree

SameGot == \A t \in Task : Got(t, Pool)' <=> Got(t, Pool)

LEMMA HandingKept ==
  ASSUME SameGot, elem' = elem, NEW b
  PROVE  SameHanding(b)
BY DEF SameHanding, SameGot, Handing

\* The blocks stay where they are, and who joins the queue has found no block.
LEMMA PoolRests ==
  ASSUME PoolOK, SchedOK(k), SchedOK(k'), UNCHANGED fmvars, Deleted(Pool) => Deleted(Pool)',
         ~Deleted(Pool)' => SameGot,
         fblkcnt > 0 => \A t \in Task : k'.pwait[t] = Pool => k.pwait[t] = Pool
  PROVE  PoolOK'
<1>1. free_list' = free_list /\ fblkcnt' = fblkcnt /\ elem' = elem /\ owned' = owned
  BY DEF fmvars
<1>2. NoBlockLies'
  BY <1>1, QueuesApart, QueueIsWaiters DEF PoolOK, NoBlockLies
<1>3. ASSUME ~Deleted(Pool)' PROVE BlocksOK'
  <2>1. BlocksOK /\ SameGot
    BY <1>3 DEF PoolOK
  <2>2. ASSUME NEW b \in Block PROVE OnePlace(b)'
    <3>1. OnePlace(b) /\ SameHanding(b)
      BY <1>1, <2>1, HandingKept DEF BlocksOK
    <3>2. SameOwning(b) /\ SameFree(b)
      BY <1>1 DEF SameOwning, SameFree, Owning
    <3> QED BY <3>1, <3>2, PlaceKept
  <2> QED BY <1>1, <2>1, <2>2 DEF BlocksOK
<1> QED BY <1>1, <1>2, <1>3 DEF PoolOK, FmemTypeOK

LEMMA PoolGotRests ==
  ASSUME BaseOK, NEW Q, Keeps(Q), Pool \notin Q
  PROVE  SameGot
<1>1. Concerns(Q, FALSE) /\ WaitersOK
  BY DEF Keeps, BaseOK
<1> QED BY <1>1, GotKept DEF SameGot

LEMMA PoolFrame ==
  ASSUME BaseOK, PoolOK, NEW Q, Keeps(Q), Pool \notin Q, UNCHANGED fmvars
  PROVE  PoolOK'
<1>1. SchedOK(k) /\ SchedOK(k') /\ Concerns(Q, FALSE) /\ Pool \in Queue /\ WaitersOK
  BY QueuesApart DEF BaseOK, Keeps, IInv, KernelOK
<1>2. \A t \in Task : k'.pwait[t] = Pool => k.pwait[t] = Pool
  BY <1>1, NoneJoins
<1>3. SameGot
  BY PoolGotRests
<1>4. Deleted(Pool) => Deleted(Pool)'
  BY <1>1 DEF Keeps, GoesOn
<1> QED BY <1>1, <1>2, <1>3, <1>4, PoolRests

\* A free block goes to o.
LEMMA GettingKeepsPool ==
  ASSUME PoolOK, SchedOK(k), NEW o \in BlockOwners, fm_get(o), Deleted(Pool) => Deleted(Pool)', SameGot
  PROVE  PoolOK'
<1>0. PICK h : h = Head(free_list)
  OBVIOUS
<1>1. /\ free_list \in Seq(Block) /\ fblkcnt \in 0..NumBlocks /\ fblkcnt > 0
      /\ Len(free_list) = fblkcnt /\ free_list # << >> /\ h \in Block
      /\ owned \in [BlockOwners -> SUBSET Block] /\ k' = k /\ elem' = elem
      /\ free_list' = Tail(free_list) /\ fblkcnt' = fblkcnt - 1
      /\ owned' = [owned EXCEPT ![o] = @ \cup {h}]
  BY <1>0 DEF PoolOK, FmemTypeOK, fm_get, BlockOwners
<1>2. NumBlocks \in Nat
  BY FmemAssumption, FS_CardinalityType DEF NumBlocks
<1>3. FmemTypeOK' /\ Len(free_list') = fblkcnt'
  BY <1>1, <1>2 DEF FmemTypeOK, BlockOwners, PoolOK
<1>4. NoBlockLies'
  BY <1>1 DEF PoolOK, NoBlockLies
<1>5. ASSUME ~Deleted(Pool)' PROVE BlocksOK'
  <2>1. BlocksOK
    BY <1>5 DEF PoolOK
  <2>2. NoDuplicates(free_list') /\ ToSet(free_list') = ToSet(free_list) \ {h}
    BY <1>0, <1>1, <2>1, TailHasTheRest DEF BlocksOK
  <2>3. h \in ToSet(free_list)
    BY <1>0, <1>1 DEF ToSet
  <2>4. \A b : Owning(b)' = IF b = h THEN Owning(b) \cup {o} ELSE Owning(b)
    BY <1>1 DEF Owning
  <2>5. ASSUME NEW b \in Block, b # h PROVE OnePlace(b)'
    <3>1. OnePlace(b) /\ SameHanding(b)
      BY <1>1, <2>1, HandingKept DEF BlocksOK
    <3>2. SameOwning(b) /\ SameFree(b)
      BY <2>2, <2>4, <2>5 DEF SameOwning, SameFree
    <3> QED BY <3>1, <3>2, PlaceKept
  <2>6. OnePlace(h)'
    <3>1. OnePlace(h) /\ SameHanding(h)
      BY <1>1, <2>1, HandingKept DEF BlocksOK
    <3>2. Owning(h) = {} /\ Handing(h) = {}
      BY <2>3, <3>1 DEF OnePlace
    <3>3. Owning(h)' = {o} /\ Handing(h)' = {} /\ h \notin ToSet(free_list')
      BY <2>2, <2>4, <3>1, <3>2 DEF SameHanding
    <3> QED BY <3>3 DEF OnePlace
  <2> QED BY <2>2, <2>5, <2>6 DEF BlocksOK
<1> QED BY <1>3, <1>4, <1>5 DEF PoolOK

\* What a step that is no deletion does to the places of the calls that wait.
PlacesGoOn ==
  \A t \in Task : at'[t] = at[t] \/ (at[t].part # "waited" /\ at'[t].part # "waited")

LEMMA QuickPlaces ==
  ASSUME BaseOK, NEW q, Quick(q)
  PROVE  PlacesGoOn /\ curr \in Task
<1>1. Calls(curr) /\ at[curr].part = "entered" /\ at' = [at EXCEPT ![curr] = Code]
  BY DEF Quick, At, Done
<1>2. curr \in Task /\ Code.part # "waited"
  BY <1>1, CallerIsThere DEF BaseOK, Code
<1>3. \A t \in Task : at'[t] = IF t = curr THEN Code ELSE at[t]
  BY <1>1, <1>2 DEF BaseOK, CallsOK
<1> QED BY <1>1, <1>2, <1>3 DEF PlacesGoOn

LEMMA GotOfUnmoved ==
  ASSUME PlacesGoOn, NEW t \in Task, Unmoved(k, k', t), NEW q
  PROVE  Got(t, q)' <=> Got(t, q)
BY DEF PlacesGoOn, Unmoved, Got

\* The block b comes back from o, for the first waiter or for the free list.
LEMMA ReleaseKeepsPool ==
  ASSUME BaseOK, PoolOK, NEW o \in BlockOwners, NEW b \in Block, Releases(o, b),
         Deleted(Pool) => Deleted(Pool)', PlacesGoOn
  PROVE  /\ PoolOK'
         /\ SchedOK(k') /\ NextReady(k') /\ Moves(k, k', {Pool})
<1>0. Pool \in Queue /\ SchedOK(k)
  BY QueuesApart DEF BaseOK, IInv, KernelOK
<1>1. /\ free_list \in Seq(Block) /\ fblkcnt \in 0..NumBlocks /\ Len(free_list) = fblkcnt
      /\ elem \in [Task -> Block \cup {NoBlock}] /\ owned \in [BlockOwners -> SUBSET Block]
      /\ b \in owned[o] /\ owned' = [owned EXCEPT ![o] = @ \ {b}]
  BY DEF PoolOK, FmemTypeOK, Releases, BlockOwners
<1>2. NumBlocks \in Nat
  BY FmemAssumption, FS_CardinalityType DEF NumBlocks
<1>3. /\ owned' \in [BlockOwners -> SUBSET Block]
      /\ \A c : Owning(c)' = IF c = b THEN Owning(b) \ {o} ELSE Owning(c)
  BY <1>1 DEF Owning
<1>4. o \in Owning(b)
  BY <1>1 DEF Owning
<1>5. OnePlace(b) => Owning(b) = {o} /\ Handing(b) = {} /\ b \notin ToSet(free_list)
  BY <1>4 DEF OnePlace
<1>6. ~Deleted(Pool)' => BlocksOK /\ \A c \in Block : OnePlace(c)
  BY DEF PoolOK, BlocksOK
<1>7. CASE k.wq[Pool] # << >>
  <2>1. PICK t : t = Head(k.wq[Pool])
    OBVIOUS
  <2>2. /\ k' = task_wait_complete(k, t) /\ elem' = [elem EXCEPT ![t] = b]
        /\ free_list' = free_list /\ fblkcnt' = fblkcnt
    BY <1>7, <2>1 DEF Releases
  <2>3. /\ SchedOK(k') /\ NextReady(k') /\ Moves(k, k', {Pool})
        /\ t \in Task /\ Waiting(k.state[t]) /\ k.pwait[t] = Pool
        /\ Left(k, k', t) /\ k'.rc[t] = "NO_ERR"
        /\ \A u \in Task \ {t} : Unmoved(k, k', u)
    BY <1>0, <1>7, <2>1, <2>2, HeadIsServed
  <2>4. at[t] = [part |-> "waited", obj |-> Pool] /\ at'[t] = at[t]
    <3>1. at[t] = [part |-> "waited", obj |-> Pool]
      BY <1>0, <2>3, NoQueueAssumption DEF BaseOK, WaitersOK
    <3>2. at[t].part = "waited"
      BY <3>1
    <3> QED BY <2>3, <3>1, <3>2 DEF PlacesGoOn
  <2>5. ~Got(t, Pool) /\ Got(t, Pool)'
    <3>1. ~Waiting(k'.state[t])
      BY <2>3 DEF Left, Waiting
    <3> QED BY <2>3, <2>4, <3>1 DEF Got
  <2>6. \A u \in Task \ {t} : /\ Got(u, Pool)' <=> Got(u, Pool)
                              /\ elem'[u] = elem[u]
    BY <1>1, <2>2, <2>3, GotOfUnmoved
  <2>7. elem' \in [Task -> Block \cup {NoBlock}] /\ elem'[t] = b
    BY <1>1, <2>2, <2>3
  <2>8. \A c : Handing(c)' = IF c = b THEN Handing(b) \cup {t} ELSE Handing(c)
    BY <2>3, <2>5, <2>6, <2>7 DEF Handing
  <2>9. ASSUME ~Deleted(Pool)' PROVE BlocksOK'
    <3>1. OnePlace(b)'
      <4>1. Owning(b)' = {} /\ Handing(b)' = {t} /\ b \notin ToSet(free_list')
        BY <1>3, <1>5, <1>6, <2>2, <2>8, <2>9
      <4> QED BY <2>3, <4>1 DEF OnePlace
    <3>2. ASSUME NEW c \in Block, c # b PROVE OnePlace(c)'
      <4>1. OnePlace(c)
        BY <1>6, <2>9
      <4>2. SameOwning(c) /\ SameHanding(c) /\ SameFree(c)
        BY <1>3, <2>2, <2>8, <3>2 DEF SameOwning, SameHanding, SameFree
      <4> QED BY <4>1, <4>2, PlaceKept
    <3> QED BY <1>6, <2>2, <2>9, <3>1, <3>2 DEF BlocksOK
  <2>10. FmemTypeOK' /\ Len(free_list') = fblkcnt'
    BY <1>1, <1>3, <2>2, <2>7 DEF FmemTypeOK, BlockOwners
  <2>11. NoBlockLies'
    BY <1>0, <1>7, <2>2 DEF PoolOK, NoBlockLies
  <2> QED BY <2>3, <2>9, <2>10, <2>11 DEF PoolOK
<1>8. CASE k.wq[Pool] = << >>
  <2>1. k' = k /\ elem' = elem /\ fm_put(b)
    BY <1>8 DEF Releases
  <2>2. SchedOK(k') /\ NextReady(k') /\ Moves(k, k', {Pool})
    BY <2>1, RecordIsOrderly
  <2>3. SameGot
    BY <2>1, GotOfUnmoved DEF SameGot, Unmoved
  <2>4. /\ free_list' \in Seq(Block) /\ Len(free_list') = fblkcnt' /\ fblkcnt' \in 0..NumBlocks
    <3>1. CASE fblkcnt < NumBlocks
      BY <1>1, <1>2, <2>1, <3>1 DEF fm_put
    <3>2. CASE ~(fblkcnt < NumBlocks)
      BY <1>1, <2>1, <3>2 DEF fm_put
    <3> QED BY <3>1, <3>2
  <2>5. ASSUME ~Deleted(Pool)' PROVE BlocksOK'
    <3>1. Owning(b) = {o} /\ Handing(b) = {} /\ b \notin ToSet(free_list)
      BY <1>5, <1>6, <2>5
    <3>2. fblkcnt < NumBlocks
      BY <1>1, <1>6, <2>5, <3>1, RoomForBlock DEF BlocksOK
    <3>3. free_list' = << b >> \o free_list
      BY <2>1, <3>2 DEF fm_put
    <3>4. ToSet(free_list') = ToSet(free_list) \cup {b} /\ NoDuplicates(free_list')
      <4>1. PICK s \in Seq(Block) : s = free_list
        BY <1>1
      <4>2. PICK r : r = << b >> \o s
        OBVIOUS
      <4>3. NoDuplicates(s) /\ b \notin ToSet(s)
        BY <1>6, <2>5, <3>1, <4>1 DEF BlocksOK
      <4>4. ToSet(r) = ToSet(s) \cup {b} /\ NoDuplicates(r)
        BY <4>2, <4>3, OneIsPutBefore
      <4> QED BY <3>3, <4>1, <4>2, <4>4
    <3>5. \A c : SameHanding(c)
      BY <2>1, <2>3, HandingKept
    <3>6. OnePlace(b)'
      <4>1. Owning(b)' = {} /\ Handing(b)' = {} /\ b \in ToSet(free_list')
        BY <1>3, <3>1, <3>4, <3>5 DEF SameHanding
      <4> QED BY <4>1 DEF OnePlace
    <3>7. ASSUME NEW c \in Block, c # b PROVE OnePlace(c)'
      <4>1. OnePlace(c)
        BY <1>6, <2>5
      <4>2. SameOwning(c) /\ SameHanding(c) /\ SameFree(c)
        BY <1>3, <3>4, <3>5, <3>7 DEF SameOwning, SameFree
      <4> QED BY <4>1, <4>2, PlaceKept
    <3> QED BY <3>4, <3>6, <3>7 DEF BlocksOK
  <2>6. FmemTypeOK'
    BY <1>1, <1>3, <2>1, <2>4 DEF FmemTypeOK, BlockOwners
  <2>7. NoBlockLies'
    BY <1>8, <2>1 DEF NoBlockLies
  <2> QED BY <2>2, <2>4, <2>5, <2>6, <2>7 DEF PoolOK
<1> QED BY <1>7, <1>8

\* A task takes the block that it was handed.
LEMMA TakingKeepsPool ==
  ASSUME BaseOK, PoolOK, FmemWaited
  PROVE  Keeps({Pool}) /\ PoolOK'
<1>0. Pool \in Queue /\ SchedOK(k)
  BY QueuesApart DEF BaseOK, IInv, KernelOK
<1>1. SecondHalf(Pool)
  BY DEF FmemWaited
<1>2. /\ Keeps({Pool}) /\ at[curr] = [part |-> "waited", obj |-> Pool] /\ at'[curr] = Code
      /\ \A t \in Task \ {curr} : at'[t] = at[t]
      /\ curr \in Task /\ ~Waiting(k.state[curr]) /\ k' = k
  BY <1>0, <1>1, SecondHalfKeeps
<1>3. PICK t \in Task : t = curr
  BY <1>2
<1>4. PICK e : e = elem[t]
  OBVIOUS
<1>5. /\ free_list' = free_list /\ fblkcnt' = fblkcnt
      /\ owned' = IF k.rc[t] = "NO_ERR" /\ e # NoBlock
                  THEN [owned EXCEPT ![t] = @ \cup {e}] ELSE owned
      /\ elem' = [elem EXCEPT ![t] = NoBlock]
  BY <1>3, <1>4 DEF FmemWaited
<1>6. /\ elem \in [Task -> Block \cup {NoBlock}] /\ owned \in [BlockOwners -> SUBSET Block]
      /\ t \in BlockOwners /\ NoBlock \notin Block
  BY FmemAssumption DEF PoolOK, FmemTypeOK, BlockOwners
<1>7. FmemTypeOK' /\ Len(free_list') = fblkcnt'
  <2>1. owned' \in [BlockOwners -> SUBSET Block]
    BY <1>4, <1>5, <1>6
  <2>2. elem' \in [Task -> Block \cup {NoBlock}]
    BY <1>5, <1>6
  <2> QED BY <1>5, <2>1, <2>2 DEF PoolOK, FmemTypeOK, BlockOwners
<1>8. NoBlockLies'
  BY <1>2, <1>5 DEF PoolOK, NoBlockLies
<1>9. ASSUME ~Deleted(Pool)' PROVE BlocksOK'
  <2>1. BlocksOK
    BY <1>0, <1>2, <1>9 DEF PoolOK, Keeps, GoesOn
  <2>2. (Got(t, Pool) <=> k.rc[t] = "NO_ERR") /\ ~Got(t, Pool)'
    BY <1>2, <1>3 DEF Got, Code
  <2>3. \A u \in Task \ {t} : (Got(u, Pool)' <=> Got(u, Pool)) /\ elem'[u] = elem[u]
    BY <1>2, <1>3, <1>5, <1>6 DEF Got
  <2>4. ASSUME NEW b \in Block
        PROVE  /\ Handing(b)' = Handing(b) \ {t}
               /\ t \in Handing(b) <=> k.rc[t] = "NO_ERR" /\ e = b
               /\ Owning(b)' = IF t \in Handing(b) THEN Owning(b) \cup {t} ELSE Owning(b)
    <3>1. Handing(b)' = Handing(b) \ {t}
      BY <2>2, <2>3 DEF Handing
    <3>2. t \in Handing(b) <=> k.rc[t] = "NO_ERR" /\ e = b
      BY <1>4, <2>2 DEF Handing
    <3>3. \A o \in BlockOwners : b \in owned'[o] <=> b \in owned[o] \/ (o = t /\ t \in Handing(b))
      BY <1>5, <1>6, <3>2
    <3>4. Owning(b)' = IF t \in Handing(b) THEN Owning(b) \cup {t} ELSE Owning(b)
      BY <1>6, <3>3 DEF Owning
    <3> QED BY <3>1, <3>2, <3>4
  <2>5. ASSUME NEW b \in Block PROVE OnePlace(b)'
    <3>1. OnePlace(b)
      BY <2>1 DEF BlocksOK
    <3>2. CASE t \in Handing(b)
      <4>1. b \notin ToSet(free_list) /\ Owning(b) = {} /\ Handing(b) = {t}
        BY <3>1, <3>2 DEF OnePlace
      <4>2. b \notin ToSet(free_list') /\ Owning(b)' = {t} /\ Handing(b)' = {}
        BY <1>5, <2>4, <3>2, <4>1
      <4> QED BY <1>6, <4>2 DEF OnePlace
    <3>3. CASE t \notin Handing(b)
      <4>1. SameOwning(b) /\ SameHanding(b) /\ SameFree(b)
        BY <1>5, <2>4, <3>3 DEF SameOwning, SameHanding, SameFree
      <4> QED BY <3>1, <4>1, PlaceKept
    <3> QED BY <3>2, <3>3
  <2> QED BY <1>5, <2>1, <2>5 DEF BlocksOK
<1> QED BY <1>2, <1>7, <1>8, <1>9 DEF PoolOK

\* The calls and handlers of the pool.
LEMMA PoolKeeps ==
  ASSUME BaseOK, PoolOK, AppOK, FmemNext(app.timeouts), Undisturbed'
  PROVE  (Keeps({Pool}) \/ Keeps({})) /\ PoolOK'
<1>0. Pool \in Queue /\ Pool \notin {} /\ SchedOK(k)
  BY QueuesApart DEF BaseOK, IInv, KernelOK
<1>1. CASE (Enter(Pool) \/ (Quick(Pool) /\ Returns /\ k' = k)) /\ UNCHANGED fmvars
  <2>1. Keeps({})
    BY <1>0, <1>1, EnterKeeps, QuickReturns
  <2> QED BY <1>0, <1>1, <2>1, PoolFrame
<1>2. CASE \/ Quick(Pool) /\ Returns /\ fm_get(curr)
           \/ Handler(Pool) /\ UNCHANGED request /\ fm_get(Handlers)
  <2>1. PICK o \in BlockOwners :
          /\ fm_get(o)
          /\ \/ Quick(Pool) /\ Returns
             \/ Handler(Pool) /\ UNCHANGED request
    <3>1. Quick(Pool) => curr \in Task
      BY QuickPlaces
    <3> QED BY <1>2, <3>1 DEF BlockOwners
  <2>2. k' = k
    BY <2>1 DEF fm_get
  <2>3. Keeps({})
    BY <1>0, <2>1, <2>2, QuickReturns, HandlerReturns
  <2>4. SameGot
    BY <1>0, <2>3, PoolGotRests
  <2>5. Deleted(Pool) => Deleted(Pool)'
    BY <1>0, <2>3 DEF Keeps, GoesOn
  <2> QED BY <1>0, <2>1, <2>3, <2>4, <2>5, GettingKeepsPool
<1>3. CASE \E timeout \in app.timeouts :
             /\ fblkcnt = 0 /\ At("entered", Pool) /\ Waits(Pool, "WFIXMEM", timeout)
             /\ UNCHANGED fmvars
  <2>1. app.timeouts \subseteq Timeouts
    BY ObjectsAssumption DEF AppOK
  <2>2. PICK timeout \in Timeouts : fblkcnt = 0 /\ At("entered", Pool)
                                    /\ Waits(Pool, "WFIXMEM", timeout) /\ UNCHANGED fmvars
    BY <1>3, <2>1
  <2>3. PICK reason : reason = "WFIXMEM"
    OBVIOUS
  <2>4. /\ MayStop(curr) /\ Switches /\ UnchangedTasks /\ SameObjects /\ Goes("waited", Pool)
        /\ k' = task_curr_to_wait_action(k, curr, Pool, reason, timeout)
    BY <2>2, <2>3 DEF Waits, MayWait
  <2>5. /\ reason \in Reasons \ {"NONE"} /\ (reason = "SEM" <=> Pool = Sem)
        /\ reason \in MutexReasons <=> Pool \in Mutex
    BY <2>3, QueuesApart DEF Reasons, MutexReasons
  <2>6. Keeps({Pool}) /\ \A t \in Task : Got(t, Pool)' <=> Got(t, Pool)
    BY <1>0, <2>2, <2>4, <2>5, WaitingCall
  <2>7. SchedOK(k') /\ (Deleted(Pool) => Deleted(Pool)')
    BY <1>0, <2>6 DEF Keeps, GoesOn, BaseOK, IInv, KernelOK
  <2> QED BY <1>0, <2>2, <2>6, <2>7, PoolRests DEF SameGot
<1>4. CASE \E b \in Block : kern_fmem_release(b) \/ kern_fmem_irelease(b)
  <2>1. PICK b \in Block, o \in BlockOwners :
          /\ Releases(o, b)
          /\ \/ Quick(Pool) /\ (Returns \/ Switches)
             \/ Handler(Pool) /\ UNCHANGED request
    <3>1. Quick(Pool) => curr \in Task
      BY QuickPlaces
    <3> QED BY <1>4, <3>1 DEF BlockOwners, kern_fmem_release, kern_fmem_irelease, CallEnds
  <2>2. PlacesGoOn
    BY <2>1, QuickPlaces DEF PlacesGoOn, Handler, callvars
  <2>3. Deleted(Pool) => Deleted(Pool)'
    <3>1. CASE Quick(Pool)
      <4>1. exists' = exists /\ at[curr].part = "entered" /\ at' = [at EXCEPT ![curr] = Code]
        BY <3>1 DEF Quick, At, Done, SameObjects
      <4>2. \A t \in Task : at'[t] = at[t] \/ at[t].part \notin Deleting
        BY <4>1 DEF BaseOK, CallsOK, Deleting
      <4> QED BY <1>0, <4>1, <4>2, NoDeletionEnds DEF GoesOn
    <3>2. CASE Handler(Pool)
      BY <3>2 DEF Handler, callvars, Deleted
    <3> QED BY <2>1, <3>1, <3>2
  <2>4. PoolOK' /\ SchedOK(k') /\ NextReady(k') /\ Moves(k, k', {Pool})
    BY <2>1, <2>2, <2>3, ReleaseKeepsPool
  <2>5. Keeps({Pool})
    <3>1. CASE Quick(Pool) /\ (Returns \/ Switches)
      BY <1>0, <2>4, <3>1, QuickKeeps
    <3>2. CASE Handler(Pool) /\ UNCHANGED request
      <4>1. InterruptExit /\ UNCHANGED callvars /\ request' \in BOOLEAN /\ (request => request')
        BY <3>2 DEF Handler, BaseOK, IInv, VariablesOK
      <4> QED BY <2>4, <4>1, EndingHandler
    <3> QED BY <2>1, <3>1, <3>2
  <2> QED BY <2>4, <2>5
<1>5. CASE FmemWaited
  BY <1>5, TakingKeepsPool
<1>6. CASE kern_fmem_delete
  <2>1. DeletionStep(Pool, TRUE) /\ UNCHANGED fmvars
    BY <1>6 DEF kern_fmem_delete
  <2>2. /\ Keeps({Pool}) /\ Deleted(Pool)'
        /\ \A t \in Task : k'.pwait[t] = Pool => k.pwait[t] = Pool
    BY <1>0, <2>1, DeletionStepKeeps
  <2>3. SchedOK(k')
    BY <2>2 DEF Keeps, BaseOK, IInv, KernelOK
  <2> QED BY <1>0, <2>1, <2>2, <2>3, PoolRests
<1>7. CASE Enter(Pool) /\ UNCHANGED fmvars
  BY <1>1, <1>7
<1>8. CASE kern_fmem_get_polling
  BY <1>1, <1>2, <1>8 DEF kern_fmem_get_polling
<1>9. CASE \E timeout \in app.timeouts : kern_fmem_get(timeout)
  BY <1>2, <1>3, <1>9 DEF kern_fmem_get
<1>10. CASE kern_fmem_get_ipolling
  BY <1>2, <1>10 DEF kern_fmem_get_ipolling
<1> QED BY <1>4, <1>5, <1>6, <1>7, <1>8, <1>9, <1>10 DEF FmemNext
-----------------------------------------------------------------------------
(* Mutexes *)

\* The tasks that have locked q, or are about to, have it in their lists.
LockOK(q) ==
  /\ Known(mx, q)
  /\ \A t \in Task : q \in own[t] \/ Got(t, q) <=> q \in ToSet(mx.held[t])

MutexOK ==
  /\ setup \in Setups /\ own \in [Task -> SUBSET Mutex] /\ MutexesOK(k, mx)
  /\ \A q \in Mutex : ~Deleted(q) => LockOK(q)

LEMMA LocksKept ==
  ASSUME MutexOK, setup' = setup, own' \in [Task -> SUBSET Mutex], MutexesOK(k', mx'), GoesOn,
         \A q \in Mutex : ~Deleted(q)' /\ LockOK(q) => LockOK(q)'
  PROVE  MutexOK'
<1>1. MutexesOK(k, mx)'
  BY DEF MutexesOK, BlockersOK, Ceiling
<1>2. \A q \in Mutex : ~Deleted(q)' => LockOK(q)
  BY QueuesApart DEF MutexOK, GoesOn
<1> QED BY <1>1, <1>2 DEF MutexOK

\* What the mutexes' own lists and return codes have come to.
Unlocks(t, q) == (q \in own'[t] \/ Got(t, q)') <=> q \in ToSet(mx'.held[t])

LEMMA LockIsOK ==
  ASSUME setup' = setup, NEW q, Known(mx', q), \A t \in Task : Unlocks(t, q)
  PROVE  LockOK(q)'
BY DEF LockOK, Known, Ceiling, Unlocks

LEMMA MutexFrame ==
  ASSUME BaseOK, MutexOK, NEW Q, Keeps(Q), Q \cap Mutex = {}, UNCHANGED muvars
  PROVE  MutexOK'
<1>1. setup' = setup /\ mx' = mx /\ own' = own
  BY DEF muvars
<1>2. WaitersOK /\ Concerns(Q, FALSE) /\ GoesOn /\ MutexesOK(k, mx)
  BY DEF BaseOK, Keeps, MutexOK
<1>3. MutexesOK(k', mx')
  BY <1>1, <1>2, MutexesKept
<1>4. ASSUME NEW q \in Mutex, LockOK(q) PROVE LockOK(q)'
  <2>1. q \notin Q
    BY <1>4
  <2>2. \A t \in Task : Got(t, q)' <=> Got(t, q)
    BY <1>2, <2>1, GotKept
  <2>3. Known(mx', q) /\ \A t \in Task : Unlocks(t, q)
    BY <1>1, <1>4, <2>2 DEF LockOK, Unlocks
  <2> QED BY <1>1, <2>3, LockIsOK
<1>5. own' \in [Task -> SUBSET Mutex]
  BY <1>1 DEF MutexOK
<1> QED BY <1>1, <1>2, <1>3, <1>4, <1>5, LocksKept

\* The caller locks a free mutex.
LEMMA LockingKeeps ==
  ASSUME BaseOK, MutexOK, NEW q \in Mutex, Quick(q), Returns, LocksAtOnce(q)
  PROVE  Keeps({}) /\ MutexOK'
<1>0. q \in Queue /\ IInv /\ MutexesOK(k, mx) /\ WaitersOK
  BY QueuesApart DEF BaseOK, MutexOK
<1>1. Orderly(Now) /\ Now.s = k /\ Now.m = mx
  BY <1>0, NowIsOrderly
<1>2. Calls(curr)
  BY DEF Quick, At
<1>3. curr \in Task /\ k.reason[curr] = "NONE"
  BY <1>0, <1>2, CallerIsThere
<1>4. mx.holder[q] = NoTask /\ mx \in MutexLists /\ LocksOK(mx)
  BY <1>0 DEF LocksAtOnce, CanLock, MutexesOK
<1>5. q \notin ToSet(mx.locked)
  BY <1>4, LockedHasHolder
<1>6. PICK x : x = Now
  OBVIOUS
<1>7. PICK t \in Task : t = curr
  BY <1>3
<1>8. PICK r : r = Locked(x, q, t)
  OBVIOUS
<1>9. /\ Orderly(r) /\ r.s = x.s
      /\ ToSet(r.m.held[t]) = ToSet(x.m.held[t]) \cup {q}
      /\ \A u \in Task \ {t} : r.m.held[u] = x.m.held[u]
      /\ \A p \in Mutex : p = q \/ Known(x.m, p) => Known(r.m, p)
  <2>1. Orderly(x) /\ q \notin ToSet(x.m.locked) /\ x.s.reason[t] \notin MutexReasons
    BY <1>1, <1>3, <1>5, <1>6, <1>7 DEF MutexReasons
  <2> QED BY <1>8, <2>1, LockedKeeps
<1>10. k' = k /\ mx' = r.m /\ setup' = setup /\ own' = [own EXCEPT ![t] = @ \cup {q}]
  BY <1>1, <1>6, <1>7, <1>8, <1>9 DEF LocksAtOnce, Becomes
<1>11. Keeps({})
  BY <1>0, <1>10, QuickReturns
<1>12. MutexesOK(k', mx')
  BY <1>1, <1>6, <1>9, <1>10 DEF Orderly
<1>13. own' \in [Task -> SUBSET Mutex]
  BY <1>10 DEF MutexOK
<1>14. \A u \in Task, p \in Mutex : Got(u, p)' <=> Got(u, p)
  <2>1. PICK Q : Q = {}
    OBVIOUS
  <2>2. Concerns(Q, FALSE) /\ \A p : p \notin Q
    BY <1>11, <2>1 DEF Keeps
  <2> QED BY <1>0, <2>2, GotKept
<1>15. ASSUME NEW p \in Mutex, LockOK(p) PROVE LockOK(p)'
  <2>1. Known(mx', p)
    BY <1>1, <1>6, <1>9, <1>10, <1>15 DEF LockOK
  <2>2. ASSUME NEW u \in Task PROVE Unlocks(u, p)
    <3>1. Got(u, p)' <=> Got(u, p)
      BY <1>14
    <3>2. p \in own[u] \/ Got(u, p) <=> p \in ToSet(mx.held[u])
      BY <1>15 DEF LockOK
    <3>3. p \in own'[u] <=> p \in own[u] \/ (u = t /\ p = q)
      BY <1>10 DEF MutexOK
    <3>4. p \in ToSet(mx'.held[u]) <=> p \in ToSet(mx.held[u]) \/ (u = t /\ p = q)
      BY <1>1, <1>6, <1>9, <1>10
    <3> QED BY <3>1, <3>2, <3>3, <3>4 DEF Unlocks
  <2> QED BY <1>10, <2>1, <2>2, LockIsOK
<1>16. GoesOn
  BY <1>11 DEF Keeps
<1> QED BY <1>10, <1>11, <1>12, <1>13, <1>15, <1>16, LocksKept

\* The caller waits for a mutex.
LEMMA WaitingForMutexKeeps ==
  ASSUME BaseOK, MutexOK, NEW q \in Mutex, NEW timeout \in Timeouts, LockWaits(q, timeout)
  PROVE  Keeps({q}) /\ MutexOK'
<1>0. q \in Queue /\ IInv /\ MutexesOK(k, mx) /\ WaitersOK /\ setup \in Setups /\ q # Sem
  BY QueuesApart DEF BaseOK, MutexOK
<1>1. IInv' /\ MutexesOK(k', mx') /\ CallerWaitsFor(q)
  BY <1>0, LockWaitsKeeps
<1>2. /\ Calls(curr) /\ at[curr].part = "entered" /\ Goes("waited", q) /\ UnchangedTasks
      /\ exists' = exists /\ irq' = irq /\ setup' = setup /\ own' = own
  BY DEF LockWaits, At, SameObjects
<1>3. curr \in Task
  BY <1>0, <1>2, CallerIsThere
<1> DEFINE v == [part |-> "waited", obj |-> q]
<1>4. v \in Place /\ at' = [at EXCEPT ![curr] = v]
  BY <1>0, <1>2 DEF Place, Parts, Goes
<1>5. at'[curr] = v /\ \A t \in Task \ {curr} : at'[t] = at[t]
  BY <1>3, <1>4 DEF BaseOK, CallsOK
<1>6. StartsToWait(curr, {q})
  <2>1. /\ k'.state[curr] = "WAIT" /\ k'.pwait[curr] = q /\ k'.reason[curr] \in MutexReasons
    BY <1>1 DEF CallerWaitsFor
  <2> QED BY <1>0, <1>2, <1>5, <2>1 DEF StartsToWait, Waiting, MutexReasons
<1>7. \A t \in Task \ {curr} : Rests(t, {q})
  BY <1>1, <1>5 DEF Rests, SameWait, CallerWaitsFor
<1> HIDE DEF v
<1>8. Concerns({q}, FALSE)
  BY <1>6, <1>7 DEF Concerns
<1>9. exists' \in [Queue -> BOOLEAN] /\ irq' = "enabled"
  BY <1>2 DEF BaseOK, CallsOK
<1>10. BaseOK'
  BY <1>1, <1>2, <1>4, <1>8, <1>9, BaseKept
<1>11. GoesOn
  BY <1>2, <1>5, NoDeletionEnds DEF Deleting
<1>12. ASSUME NEW t \in Task, NEW p PROVE Got(t, p)' <=> Got(t, p)
  <2>1. CASE t = curr
    BY <1>1, <1>2, <2>1 DEF Got, Waiting, CallerWaitsFor
  <2>2. CASE t # curr
    BY <1>1, <1>5, <2>2 DEF Got, CallerWaitsFor
  <2> QED BY <2>1, <2>2
<1>13. ASSUME NEW p \in Mutex, LockOK(p) PROVE LockOK(p)'
  <2>1. mx'.holder = mx.holder /\ mx'.held = mx.held /\ mx'.locked = mx.locked
    BY <1>1 DEF CallerWaitsFor
  <2>2. Known(mx', p)
    BY <1>13, <2>1 DEF LockOK, Known
  <2>3. \A t \in Task : Unlocks(t, p)
    BY <1>2, <1>12, <1>13, <2>1 DEF LockOK, Unlocks
  <2> QED BY <1>2, <2>2, <2>3, LockIsOK
<1>14. own' \in [Task -> SUBSET Mutex]
  BY <1>2 DEF MutexOK
<1>15. MutexOK'
  BY <1>1, <1>2, <1>11, <1>13, <1>14, LocksKept
<1> QED BY <1>8, <1>10, <1>11, <1>15 DEF Keeps

\* What happens to a task in an unlock.
LEMMA UnlockConcerns ==
  ASSUME BaseOK, NEW q, Quick(q), NEW x, NEW r, x.s = k, r.s = k', MutexesOK(k, mx),
         Does(x, r, "hand", Mutex)
  PROVE  /\ Concerns(Mutex, FALSE)
         /\ \A t \in Task : ~id_task[t] => k'.state[t] = "DORMANT"
         /\ curr \in Task /\ k'.state[curr] = "RUNNABLE"
<1>1. /\ curr \in Task /\ k.state[curr] = "RUNNABLE" /\ ~Waiting(k.state[curr])
      /\ k.pwait[curr] = NoQueue /\ k.reason[curr] = "NONE"
  BY CallerIsThere DEF BaseOK, Quick, At
<1>2. /\ at[curr].part = "entered" /\ at' = [at EXCEPT ![curr] = Code]
      /\ Code.part = "code"
  BY DEF Quick, At, Done, Code
<1>3. at'[curr] = Code /\ \A t \in Task \ {curr} : at'[t] = at[t]
  BY <1>1, <1>2 DEF BaseOK, CallsOK
<1>4. ASSUME NEW t \in Task
      PROVE  Stays(x, r, t, "hand") \/ Leaves(x, r, t, "hand", Mutex)
  BY DEF Does
<1>5. Stays(x, r, curr, "hand")
  BY <1>1, <1>4 DEF Leaves
<1>6. k'.state[curr] = "RUNNABLE" /\ k'.pwait[curr] = NoQueue /\ k'.reason[curr] = "NONE"
  BY <1>1, <1>5 DEF Stays, MutexReasons
<1>7. ASSUME NEW t \in Task
      PROVE  Rests(t, Mutex) \/ Ends(t, Mutex, FALSE) \/ Idles(t)
  <2>1. CASE t = curr
    BY <1>1, <1>2, <1>3, <1>6, <2>1 DEF Idles, Waiting
  <2>2. CASE t # curr /\ Stays(x, r, t, "hand")
    <3>1. k.reason[t] \in MutexReasons => k.pwait[t] \in Mutex
      BY DEF MutexesOK, BlockersOK
    <3> QED BY <1>3, <2>2, <3>1 DEF Stays, Rests, SameWait
  <2>3. CASE t # curr /\ Leaves(x, r, t, "hand", Mutex)
    BY <1>3, <2>3 DEF Leaves, Ends, Waiting
  <2> QED BY <1>4, <2>1, <2>2, <2>3
<1>8. ASSUME NEW t \in Task, ~id_task[t] PROVE k'.state[t] = "DORMANT"
  <2>1. k.state[t] = "DORMANT"
    BY <1>8, NobodyEnds DEF BaseOK, IInv, UncreatedRest
  <2> QED BY <1>4, <2>1 DEF Stays, Leaves, Waiting
<1> QED BY <1>1, <1>6, <1>7, <1>8 DEF Concerns

LEMMA UnlockingKeepsBase ==
  ASSUME BaseOK, NEW q, Quick(q), Returns \/ Switches, NEW x, NEW r, x.s = k, r.s = k',
         MutexesOK(k, mx), SchedOK(k'), NextReady(k'), Does(x, r, "hand", Mutex)
  PROVE  Keeps(Mutex)
<1>1. /\ Concerns(Mutex, FALSE) /\ curr \in Task /\ k'.state[curr] = "RUNNABLE"
      /\ \A t \in Task : ~id_task[t] => k'.state[t] = "DORMANT"
  BY UnlockConcerns
<1>2. /\ Calls(curr) /\ UnchangedTasks /\ at[curr].part = "entered"
      /\ exists' = exists /\ irq' = irq /\ at' = [at EXCEPT ![curr] = Code]
  BY DEF Quick, At, Done, SameObjects
<1>3. IInv'
  BY <1>1, <1>2, CallKeeps DEF BaseOK
<1>4. Code \in Place /\ exists' \in [Queue -> BOOLEAN] /\ irq' = "enabled"
  BY <1>2 DEF BaseOK, CallsOK, Place, Parts, Code
<1>5. BaseOK'
  BY <1>1, <1>2, <1>3, <1>4, BaseKept
<1>6. \A t \in Task : at'[t] = at[t] \/ at[t].part \notin Deleting
  BY <1>2 DEF BaseOK, CallsOK, Deleting
<1>7. GoesOn
  BY <1>2, <1>6, NoDeletionEnds
<1> QED BY <1>1, <1>5, <1>7 DEF Keeps

LEMMA UnlinkedFrom ==
  ASSUME NEW x, Orderly(x), x.s = k, x.m = mx, NEW q \in Mutex, NEW y, y = Unlink(x, q)
  PROVE  y.s = k /\ \A u \in Task : ToSet(y.m.held[u]) = ToSet(mx.held[u]) \ {q}
<1>1. y.s = x.s
  BY UnlinkKeeps
<1>2. PICK z : z = Unlink(x, q)
  OBVIOUS
<1>3. ASSUME NEW t \in Task
      PROVE  ToSet(z.m.held[t]) = ToSet(x.m.held[t]) \ {q}
  BY <1>2, UnlinkKeeps
<1> QED BY <1>1, <1>2, <1>3

\* Whoever gets a mutex that the caller unlocks has it in its list, and is about to find
\* that it has locked it.
LEMMA HandedMutexes ==
  ASSUME BaseOK, MutexOK, NEW q \in Mutex, Quick(q), mx.holder[q] = curr,
         own' = [own EXCEPT ![curr] = @ \ {q}],
         NEW x, NEW y, NEW r, Orderly(x), x.s = k, x.m = mx, y = Unlink(x, q),
         r.s = k', r.m = mx', Does(y, r, "hand", Mutex),
         NEW p \in Mutex, LockOK(p), NEW t \in Task
  PROVE  Unlocks(t, p)
<1>1. y.s = k /\ \A u \in Task : ToSet(y.m.held[u]) = ToSet(mx.held[u]) \ {q}
  BY UnlinkedFrom, SMTT(30)
<1>2. /\ curr \in Task /\ ~Waiting(k.state[curr])
  BY CallerIsThere DEF BaseOK, Quick, At
<1>3. /\ at[curr].part = "entered" /\ at'[curr] = Code /\ Code.part = "code"
      /\ \A u \in Task \ {curr} : at'[u] = at[u]
  BY <1>2 DEF Quick, At, Done, Code, BaseOK, CallsOK
<1>4. p \in own'[t] <=> p \in own[t] /\ ~(t = curr /\ p = q)
  BY <1>2 DEF MutexOK
<1>5. p \in own[t] \/ Got(t, p) <=> p \in ToSet(mx.held[t])
  BY DEF LockOK
<1>6. t # curr => q \notin ToSet(mx.held[t])
  BY DEF Orderly, MutexesOK, LocksOK
<1>7. CASE Stays(y, r, t, "hand")
  <2>1. ToSet(mx'.held[t]) = ToSet(mx.held[t]) \ {q}
    BY <1>1, <1>7 DEF Stays
  <2>2. Got(t, p)' <=> Got(t, p)
    BY <1>1, <1>3, <1>7 DEF Got, Stays
  <2>3. t = curr => ~Got(t, p)
    BY <1>3 DEF Got
  <2> QED BY <1>4, <1>5, <1>6, <2>1, <2>2, <2>3 DEF Unlocks
<1>8. CASE Leaves(y, r, t, "hand", Mutex)
  <2>1. /\ Waiting(k.state[t]) /\ k.pwait[t] \in Mutex /\ ~Waiting(k'.state[t])
        /\ k'.rc[t] = "NO_ERR"
        /\ ToSet(mx'.held[t]) = (ToSet(mx.held[t]) \ {q}) \cup {k.pwait[t]}
    BY <1>1, <1>8 DEF Leaves, Waiting
  <2>2. t # curr /\ ~Got(t, p)
    BY <1>2, <2>1 DEF Got
  <2>3. at'[t] = [part |-> "waited", obj |-> k.pwait[t]]
    BY <1>3, <2>1, <2>2, QueuesApart DEF BaseOK, WaitersOK
  <2>4. Got(t, p)' <=> p = k.pwait[t]
    BY <2>1, <2>3 DEF Got
  <2>5. p \in own'[t] <=> p \in ToSet(mx.held[t])
    BY <1>4, <1>5, <2>2
  <2> QED BY <1>6, <2>1, <2>2, <2>4, <2>5 DEF Unlocks
<1> QED BY <1>1, <1>7, <1>8 DEF Does

\* The caller unlocks a mutex.
LEMMA UnlockingKeeps ==
  ASSUME BaseOK, MutexOK, NEW q \in Mutex, kern_mutex_unlock(q)
  PROVE  Keeps(Mutex) /\ MutexOK'
<1>0. /\ q \in Queue /\ IInv /\ MutexesOK(k, mx) /\ WaitersOK /\ setup \in Setups
      /\ mx.holder[q] = curr /\ Quick(q) /\ setup' = setup
      /\ own' = [own EXCEPT ![curr] = @ \ {q}] /\ (Returns \/ Switches)
  BY QueuesApart DEF BaseOK, MutexOK, kern_mutex_unlock
<1>1. PICK x : x = Now
  OBVIOUS
<1>2. Orderly(x) /\ x.s = k /\ x.m = mx
  BY <1>0, <1>1, NowIsOrderly
<1>3. PICK r : r = do_unlock_mutex(x, q)
  OBVIOUS
<1>4. PICK y : y = Unlink(x, q)
  OBVIOUS
<1>5. curr \in Task
  BY <1>0, CallerIsThere DEF Quick, At
<1>6. /\ Orderly(r) /\ Does(y, r, "hand", Mutex)
      /\ \A p \in Mutex : p = q \/ Known(x.m, p) => Known(r.m, p)
  BY <1>0, <1>2, <1>3, <1>4, <1>5, UnlockKeeps
<1>7. k' = r.s /\ mx' = r.m
  BY <1>1, <1>3 DEF kern_mutex_unlock, Becomes
<1>8. y.s = k
  BY <1>2, <1>4, UnlinkKeeps
<1>9. SchedOK(k') /\ NextReady(k') /\ MutexesOK(k', mx')
  BY <1>6, <1>7 DEF Orderly
<1>10. Keeps(Mutex)
  BY <1>0, <1>6, <1>7, <1>8, <1>9, UnlockingKeepsBase
<1>11. own' \in [Task -> SUBSET Mutex]
  BY <1>0 DEF MutexOK
<1>12. ASSUME NEW p \in Mutex, LockOK(p) PROVE LockOK(p)'
  <2>1. Known(mx', p)
    BY <1>2, <1>6, <1>7, <1>12 DEF LockOK
  <2>2. \A t \in Task : Unlocks(t, p)
    BY <1>0, <1>2, <1>4, <1>6, <1>7, <1>12, HandedMutexes DEF MutexOK
  <2> QED BY <1>0, <2>1, <2>2, LockIsOK
<1>13. GoesOn
  BY <1>10 DEF Keeps
<1> QED BY <1>0, <1>9, <1>10, <1>11, <1>12, <1>13, LocksKept

\* The second half of a lock: the return code tells whether the caller has the mutex.
LEMMA LockReturnsKeeps ==
  ASSUME BaseOK, MutexOK, NEW q \in Mutex, MutexWaited(q)
  PROVE  Keeps({q}) /\ MutexOK'
<1>0. /\ q \in Queue /\ SecondHalf(q) /\ setup' = setup /\ mx' = mx
      /\ own' = IF k.rc[curr] = "NO_ERR" THEN [own EXCEPT ![curr] = @ \cup {q}] ELSE own
  BY QueuesApart DEF MutexWaited
<1>1. /\ Keeps({q}) /\ at[curr] = [part |-> "waited", obj |-> q] /\ at'[curr] = Code
      /\ \A t \in Task \ {curr} : at'[t] = at[t]
      /\ curr \in Task /\ ~Waiting(k.state[curr]) /\ k' = k
  BY <1>0, SecondHalfKeeps
<1>2. MutexesOK(k', mx') /\ own' \in [Task -> SUBSET Mutex]
  BY <1>0, <1>1 DEF MutexOK
<1>3. ASSUME NEW p \in Mutex, LockOK(p) PROVE LockOK(p)'
  <2>1. Known(mx', p)
    BY <1>0, <1>3 DEF LockOK
  <2>2. ASSUME NEW t \in Task PROVE Unlocks(t, p)
    <3>1. p \in own[t] \/ Got(t, p) <=> p \in ToSet(mx.held[t])
      BY <1>3 DEF LockOK
    <3>2. CASE t # curr
      BY <1>0, <1>1, <3>1, <3>2 DEF Unlocks, Got, MutexOK
    <3>3. CASE t = curr
      <4>1. Got(t, p) <=> p = q /\ k.rc[t] = "NO_ERR"
        BY <1>1, <3>3 DEF Got
      <4>2. ~Got(t, p)'
        BY <1>1, <3>3 DEF Got, Code
      <4>3. p \in own'[t] <=> p \in own[t] \/ (p = q /\ k.rc[t] = "NO_ERR")
        BY <1>0, <1>1, <3>3 DEF MutexOK
      <4> QED BY <1>0, <3>1, <4>1, <4>2, <4>3 DEF Unlocks
    <3> QED BY <3>2, <3>3
  <2> QED BY <1>0, <2>1, <2>2, LockIsOK
<1>4. GoesOn
  BY <1>1 DEF Keeps
<1> QED BY <1>0, <1>1, <1>2, <1>3, <1>4, LocksKept

\* The step of a deletion that ends waits. None of them ends with a mutex.
LEMMA MutexDeletionMoves ==
  ASSUME NEW x, NEW r, NEW q, Does(x, r, "delete", {q})
  PROVE  Moves(x.s, r.s, {q})
BY DEF Does, Stays, Leaves, Moves, Unmoved, Left, Waiting

\* The places in the calls of other mutexes.
LEMMA DeletionPlaces ==
  ASSUME BaseOK, NEW q, NEW n, NEW ready, NEW blind, DeleteRemoves(q, n, ready, blind), NEW p, NEW t \in Task
  PROVE  at[t] = [part |-> "waited", obj |-> p] <=> at'[t] = [part |-> "waited", obj |-> p]
<1>1. curr \in Task /\ at[curr].part = "remove"
  BY CallerIsThere DEF BaseOK, DeleteRemoves, At
<1>2. \/ \E part \in {"delete", "again"} : at' = [at EXCEPT ![curr] = [part |-> part, obj |-> q]]
      \/ at' = [at EXCEPT ![curr] = Code]
  BY DEF DeleteRemoves, Goes, Done
<1> QED BY <1>1, <1>2 DEF BaseOK, CallsOK, Code

\* From x to r the lists of the other mutexes stay as they are.
SameOthers(x, r, q) ==
  /\ r.s = x.s /\ r.m.holder = x.m.holder
  /\ \A p \in Mutex \ {q} :
       /\ p \in ToSet(r.m.locked) <=> p \in ToSet(x.m.locked)
       /\ \A t \in Task : p \in ToSet(r.m.held[t]) <=> p \in ToSet(x.m.held[t])

LEMMA UnlinkLeavesOthers ==
  ASSUME NEW x, Orderly(x), NEW q \in Mutex, NEW r, r = Unlink(x, q)
  PROVE  SameOthers(x, r, q)
<1>1. PICK z : z = Unlink(x, q)
  OBVIOUS
<1>2. z.s = x.s /\ z.m.holder = x.m.holder
  BY <1>1, UnlinkKeeps
<1>3. ToSet(z.m.locked) = ToSet(x.m.locked) \ {q}
  BY <1>1, UnlinkKeeps
<1>4. ASSUME NEW t \in Task PROVE ToSet(z.m.held[t]) = ToSet(x.m.held[t]) \ {q}
  BY <1>1, UnlinkKeeps
<1> QED BY <1>1, <1>2, <1>3, <1>4 DEF SameOthers

\* The other mutexes, when the waits for q end without it and q leaves the lists.
LEMMA OthersKeepTheirs ==
  ASSUME BaseOK, MutexOK, NEW q \in Mutex, own' = own, setup' = setup,
         NEW x, NEW r, NEW z, x.s = k, x.m = mx, Does(x, r, "delete", {q}),
         z = r \/ (Orderly(r) /\ z = Unlink(r, q)), k' = z.s, mx' = z.m,
         \A t \in Task, p \in Queue : at[t] = [part |-> "waited", obj |-> p]
                                      <=> at'[t] = [part |-> "waited", obj |-> p],
         NEW p \in Mutex, p # q, LockOK(p)
  PROVE  LockOK(p)'
<1>1. /\ z.s = r.s /\ z.m.holder = r.m.holder
      /\ p \in ToSet(z.m.locked) <=> p \in ToSet(r.m.locked)
      /\ \A t \in Task : p \in ToSet(z.m.held[t]) <=> p \in ToSet(r.m.held[t])
  <2>1. Orderly(r) /\ z = Unlink(r, q) => SameOthers(r, z, q)
    BY UnlinkLeavesOthers
  <2> QED BY <2>1 DEF SameOthers
<1>3. Known(mx', p)
  BY <1>1 DEF LockOK, Does, Known
<1>4. ASSUME NEW t \in Task PROVE Unlocks(t, p)
  <2>1. Stays(x, r, t, "delete") \/ Leaves(x, r, t, "delete", {q})
    BY DEF Does
  <2>2. ToSet(r.m.held[t]) = ToSet(x.m.held[t])
    BY <2>1 DEF Stays, Leaves
  <2>3. p \in own[t] \/ Got(t, p) <=> p \in ToSet(mx.held[t])
    BY DEF LockOK
  <2>4. Got(t, p)' <=> Got(t, p)
    <3>1. p \in Queue /\ q \in Queue
      BY QueuesApart
    <3>2. CASE Stays(x, r, t, "delete")
      BY <1>1, <3>1, <3>2 DEF Stays, Got
    <3>3. CASE Leaves(x, r, t, "delete", {q})
      <4>1. k.pwait[t] = q
        BY <3>3 DEF Leaves
      <4>2. at[t] = [part |-> "waited", obj |-> q]
        BY <3>1, <4>1, QueuesApart DEF BaseOK, WaitersOK
      <4>3. at[t] # [part |-> "waited", obj |-> p]
        BY <4>2
      <4> QED BY <3>1, <4>3 DEF Got
    <3> QED BY <2>1, <3>2, <3>3
  <2> QED BY <1>1, <2>2, <2>3, <2>4 DEF Unlocks
<1> QED BY <1>3, <1>4, LockIsOK

\* The deletion ends waits, and the mutex may be gone.
LEMMA MutexRemovalKeeps ==
  ASSUME BaseOK, MutexOK, NEW q \in Mutex, UNCHANGED << setup, own >>,
         NEW x, x = MutexEndsForDeletion(q), NEW n,
         DeleteRemoves(q, n, x.sw, FALSE), Becomes(IF x.sw THEN x ELSE Vanishes(x, q))
  PROVE  Keeps({q}) /\ MutexOK'
<1>0. q \in Queue /\ IInv /\ MutexesOK(k, mx) /\ setup' = setup /\ own' = own
  BY QueuesApart DEF BaseOK, MutexOK
<1>1. PICK y : y = Now
  OBVIOUS
<1>2. Orderly(y) /\ y.s = k /\ y.m = mx
  BY <1>0, <1>1, NowIsOrderly
<1>3. Orderly(x) /\ Does(y, x, "delete", {q})
  BY <1>0, <1>1, DeletionKeeps
<1>4. PICK z : z = IF x.sw THEN x ELSE Vanishes(x, q)
  OBVIOUS
<1>5. k' = z.s /\ mx' = z.m
  BY <1>4 DEF Becomes
<1>6. z = x \/ (Orderly(x) /\ z = Unlink(x, q))
  BY <1>3, <1>4 DEF Vanishes
<1>7. Orderly(z) /\ z.s = x.s
  BY <1>3, <1>6, UnlinkKeeps
<1>8. Moves(k, k', {q})
  BY <1>2, <1>3, <1>5, <1>7, MutexDeletionMoves
<1>9. SchedOK(k') /\ NextReady(k') /\ MutexesOK(k', mx')
  BY <1>5, <1>7 DEF Orderly
<1>10. PICK ready : ready = x.sw
  OBVIOUS
<1>11. DeleteRemoves(q, n, ready, FALSE)
  BY <1>10
<1>16. Undisturbed'
  BY DEF DeleteRemoves, Enables, masked, Undisturbed, BaseOK, CallsOK
<1>12. Keeps({q}) /\ Deleted(q)'
  BY <1>0, <1>8, <1>9, <1>11, <1>16, DeletionWithWaits
<1>13. \A t \in Task, p \in Queue : at[t] = [part |-> "waited", obj |-> p]
                                    <=> at'[t] = [part |-> "waited", obj |-> p]
  BY <1>11, DeletionPlaces
<1>14. ASSUME NEW p \in Mutex, ~Deleted(p)', LockOK(p) PROVE LockOK(p)'
  <2>1. p # q
    BY <1>12, <1>14
  <2> QED BY <1>0, <1>2, <1>3, <1>5, <1>6, <1>13, <1>14, <2>1, OthersKeepTheirs
<1>15. GoesOn /\ own' \in [Task -> SUBSET Mutex]
  BY <1>0, <1>12 DEF Keeps, MutexOK
<1> QED BY <1>0, <1>9, <1>12, <1>14, <1>15, LocksKept

\* The mutex is gone, and nobody waits for it.
LEMMA MutexEndKeeps ==
  ASSUME BaseOK, MutexOK, NEW q \in Mutex, UNCHANGED << setup, own >>,
         DeleteFinishes(q), mx' = Vanishes(Now, q).m
  PROVE  Keeps({}) /\ MutexOK'
<1>0. q \in Queue /\ IInv /\ MutexesOK(k, mx) /\ setup' = setup /\ own' = own
  BY QueuesApart DEF BaseOK, MutexOK
<1>1. PICK x : x = Now
  OBVIOUS
<1>2. Orderly(x) /\ x.s = k /\ x.m = mx
  BY <1>0, <1>1, NowIsOrderly
<1>3. Keeps({}) /\ Deleted(q)' /\ k' = k
  BY <1>0, DeletionWithoutWaits
<1>4. PICK z : z = Vanishes(x, q)
  OBVIOUS
<1>5. mx' = z.m
  BY <1>1, <1>4
<1>6. z = x \/ (Orderly(x) /\ z = Unlink(x, q))
  BY <1>2, <1>4 DEF Vanishes
<1>7. Orderly(z) /\ z.s = x.s
  BY <1>2, <1>6, UnlinkKeeps
<1>8. k' = z.s /\ MutexesOK(k', mx')
  BY <1>2, <1>3, <1>5, <1>7 DEF Orderly
<1>9. Does(x, x, "delete", {q})
  BY NothingIsDone
<1>10. \A t \in Task, p \in Queue : at[t] = [part |-> "waited", obj |-> p]
                                    <=> at'[t] = [part |-> "waited", obj |-> p]
  <2>1. curr \in Task /\ at[curr].part \in {"finish", "over"}
    BY CallerIsThere DEF BaseOK, DeleteFinishes, At
  <2>2. at' = [at EXCEPT ![curr] = Code]
    BY DEF DeleteFinishes, Done
  <2> QED BY <2>1, <2>2 DEF BaseOK, CallsOK, Code
<1>11. ASSUME NEW p \in Mutex, ~Deleted(p)', LockOK(p) PROVE LockOK(p)'
  <2>1. p # q
    BY <1>3, <1>11
  <2> QED BY <1>0, <1>2, <1>5, <1>6, <1>8, <1>9, <1>10, <1>11, <2>1, OthersKeepTheirs
<1>12. GoesOn /\ own' \in [Task -> SUBSET Mutex]
  BY <1>0, <1>3 DEF Keeps, MutexOK
<1> QED BY <1>0, <1>3, <1>8, <1>11, <1>12, LocksKept

\* A step that leaves everything but the caller's place as it is.
LEMMA MutexesUntouched ==
  ASSUME BaseOK, MutexOK, Keeps({}), UNCHANGED muvars
  PROVE  MutexOK'
<1>1. PICK Q : Q = {}
  OBVIOUS
<1>2. Keeps(Q) /\ Q \cap Mutex = {}
  BY <1>1
<1> QED BY <1>2, MutexFrame

\* The calls of the mutexes.
LEMMA MutexKeeps ==
  ASSUME BaseOK, AppOK, MutexOK, MutexNext(app.timeouts)
  PROVE  (\E Q \in SUBSET Mutex : Keeps(Q)) /\ MutexOK'
<1>1. \A timeout \in app.timeouts : timeout \in Timeouts
  BY ObjectsAssumption DEF AppOK
<1>2. PICK q \in Mutex :
        \/ Enter(q) /\ UNCHANGED muvars
        \/ \E timeout \in app.timeouts : kern_mutex_lock(q, timeout)
        \/ kern_mutex_lock_polling(q)
        \/ kern_mutex_unlock(q)
        \/ MutexWaited(q)
        \/ kern_mutex_delete(q)
  BY DEF MutexNext
<1>3. q \in Queue
  BY QueuesApart
<1>4. {} \in SUBSET Mutex /\ {q} \in SUBSET Mutex /\ Mutex \in SUBSET Mutex
  OBVIOUS
<1>5. CASE Enter(q) /\ UNCHANGED muvars
  BY <1>3, <1>4, <1>5, EnterKeeps, MutexesUntouched
<1>6. CASE Quick(q) /\ Returns /\ UNCHANGED << k, muvars >>
  BY <1>3, <1>4, <1>6, QuickReturns, MutexesUntouched
<1>7. CASE Quick(q) /\ Returns /\ LocksAtOnce(q)
  BY <1>4, <1>7, LockingKeeps
<1>8. ASSUME NEW timeout \in app.timeouts, LockWaits(q, timeout)
      PROVE  (\E Q \in SUBSET Mutex : Keeps(Q)) /\ MutexOK'
  BY <1>1, <1>4, <1>8, WaitingForMutexKeeps
<1>9. CASE kern_mutex_unlock(q)
  BY <1>4, <1>9, UnlockingKeeps
<1>10. CASE MutexWaited(q)
  BY <1>4, <1>10, LockReturnsKeeps
<1>11. CASE kern_mutex_delete(q)
  <2>1. CASE (Deletes(q) \/ DeleteTest(q)) /\ UNCHANGED mx
    <3>1. UNCHANGED muvars
      BY <1>11, <2>1 DEF kern_mutex_delete, muvars
    <3>2. Keeps({})
      BY <1>3, <2>1, DeletionWithoutWaits
    <3> QED BY <1>4, <3>1, <3>2, MutexesUntouched
  <2>2. CASE DeleteFinishes(q) /\ mx' = Vanishes(Now, q).m
    <3>1. UNCHANGED << setup, own >>
      BY <1>11 DEF kern_mutex_delete
    <3> QED BY <1>4, <2>2, <3>1, MutexEndKeeps
  <2>3. PICK x : x = MutexEndsForDeletion(q)
    OBVIOUS
  <2>4. CASE /\ DeleteRemoves(q, Len(k.wq[q]) - Len(x.s.wq[q]), x.sw, FALSE)
             /\ Becomes(IF x.sw THEN x ELSE Vanishes(x, q))
    <3>1. UNCHANGED << setup, own >>
      BY <1>11 DEF kern_mutex_delete
    <3>2. PICK n : n = Len(k.wq[q]) - Len(x.s.wq[q])
      OBVIOUS
    <3>3. DeleteRemoves(q, n, x.sw, FALSE)
      BY <2>4, <3>2
    <3> QED BY <1>4, <2>3, <2>4, <3>1, <3>3, MutexRemovalKeeps
  <2> QED BY <1>11, <2>1, <2>2, <2>3, <2>4 DEF kern_mutex_delete
<1> QED BY <1>2, <1>5, <1>6, <1>7, <1>8, <1>9, <1>10, <1>11 DEF kern_mutex_lock, kern_mutex_lock_polling
-----------------------------------------------------------------------------
(* The tick *)
LEMMA SemScanStepMoves ==
  ASSUME NEW x, SchedOK(x.s), NextReady(x.s), NEW t \in Task, Waiting(x.s.state[t]),
         NEW q, NEW ms \in BOOLEAN, NEW r, r = SemScanStep(x, t, q, ms).s
  PROVE  /\ SchedOK(r) /\ NextReady(r)
         /\ Unmoved(x.s, r, t) \/ Left(x.s, r, t)
         /\ \A u \in Task \ {t} : Unmoved(x.s, r, u)
<1>1. PICK s : s = x.s
  OBVIOUS
<1>2. PICK m : m = CountedDown(s, t, ms)
  OBVIOUS
<1>3. PICK c : c = (x.fCond \/ m.tick[t] = 0 \/ count[q] > 0)
  OBVIOUS
<1>4. r = m \/ r = task_wait_complete(m, t)
  BY <1>1, <1>2 DEF SemScanStep
<1>5. SchedOK(r) /\ NextReady(r)
  BY SemScanStepKeeps
<1>6. SchedOK(s) /\ NextReady(s) /\ Waiting(s.state[t])
  BY <1>1
<1>7. /\ m \in Sched /\ m.state = s.state
      /\ m.reason = s.reason /\ m.pwait = s.pwait /\ m.rc = s.rc
  BY <1>2, <1>6, CountDownKeeps
<1>8. CASE r = m
  BY <1>1, <1>5, <1>7, <1>8 DEF Unmoved
<1>9. CASE r = task_wait_complete(m, t)
  <2>1. /\ r.state[t] = (IF Suspended(m.state[t]) THEN "SUSPEND" ELSE "RUNNABLE")
        /\ r.pwait[t] = NoQueue /\ r.reason[t] = "NONE"
        /\ \A u \in Task \ {t} :
             /\ r.state[u] = m.state[u] /\ r.pwait[u] = m.pwait[u]
             /\ r.reason[u] = m.reason[u] /\ r.rc[u] = m.rc[u]
    BY <1>7, <1>9, WaitEffects
  <2>2. Left(s, r, t) /\ \A u \in Task \ {t} : Unmoved(s, r, u)
    BY <1>6, <1>7, <2>1 DEF Left, Unmoved
  <2> QED BY <1>1, <1>5, <2>2
<1> QED BY <1>4, <1>8, <1>9

\* The scan of a semaphore ends waits for it.
LEMMA SemScanMoves ==
  ASSUME NEW s, SchedOK(s), NextReady(s), NEW q \in Queue, NEW ms \in BOOLEAN,
         NEW r, r = scan_sem_state(s, q, ms)
  PROVE  SchedOK(r) /\ NextReady(r) /\ Moves(s, r, {q})
<1> DEFINE w == s.wq[q]
           f == CHOOSE g : SemScanUpTo(g, Len(w), s, w, q, ms)
<1>1. /\ w \in Seq(Task) /\ Len(w) \in Nat /\ NoDuplicates(w) /\ DOMAIN w = 1..Len(w)
      /\ \A i \in 1..Len(w) : s.pwait[w[i]] = q
  <2>1. w \in Seq(Task) /\ WaitQueuesOK(s)
    BY DEF SchedOK, Sched
  <2> QED BY <2>1 DEF WaitQueuesOK, ToSet
<1>2. SemScanUpTo(f, Len(w), s, w, q, ms)
  <2>1. \E g : SemScanUpTo(g, Len(w), s, w, q, ms)
    BY <1>1, SemScanExists
  <2> QED BY <2>1
<1>3. r = f[Len(w)].s
  BY DEF scan_sem_state, SemScanUpTo, SemScanStep, CountedDown
<1> HIDE DEF f
<1>4. f[0].s = s /\ \A i \in 1..Len(w) : f[i] = SemScanStep(f[i-1], w[i], q, ms)
  <2>1. \A i \in 0..Len(w) : f[i] = IF i = 0 THEN [s |-> s, fCond |-> FALSE]
                                    ELSE SemScanStep(f[i-1], w[i], q, ms)
    BY <1>2 DEF SemScanUpTo
  <2>2. 0 \in 0..Len(w) /\ \A i \in 1..Len(w) : i \in 0..Len(w) /\ i # 0
    BY <1>1
  <2> HIDE DEF w
  <2> QED BY <2>1, <2>2
<1> HIDE DEF w
<1>5. PICK Q : Q = {q}
  OBVIOUS
<1> DEFINE SoundRecord(x) == SchedOK(x) /\ NextReady(x) /\ Moves(s, x, Q)
           StillWait(i) == \A j \in i+1..Len(w) : f[i].s.pwait[w[j]] = q
           G == {i \in 0..Len(w) : SoundRecord(f[i].s) /\ StillWait(i)}
<1>6. 0 \in G
  BY <1>1, <1>4, NothingMoves
<1>7. ASSUME NEW i \in 1..Len(w), i-1 \in G
      PROVE  i \in G
  <2> DEFINE x == f[i-1]
             t == w[i]
  <2>1. SoundRecord(x.s) /\ t \in Task /\ f[i] = SemScanStep(x, t, q, ms)
    BY <1>1, <1>4, <1>7
  <2>2. x.s.pwait[t] = q
    <3>1. StillWait(i-1) /\ i \in (i-1)+1..Len(w)
      BY <1>7
    <3> QED BY <3>1
  <2>3. Waiting(x.s.state[t])
    BY <2>1, <2>2, NoQueueAssumption DEF SchedOK, WaitFieldsOK
  <2>4. /\ SoundRecord(f[i].s)
        /\ \A u \in Task \ {t} : f[i].s.pwait[u] = x.s.pwait[u]
    <3>1. SchedOK(x.s) /\ NextReady(x.s) /\ Moves(s, x.s, Q)
      BY <2>1
    <3>2. f[i].s = SemScanStep(x, t, q, ms).s
      BY <2>1
    <3> HIDE DEF x, t
    <3>3. /\ SchedOK(f[i].s) /\ NextReady(f[i].s)
          /\ Unmoved(x.s, f[i].s, t) \/ Left(x.s, f[i].s, t)
          /\ \A u \in Task \ {t} : Unmoved(x.s, f[i].s, u)
      BY <2>1, <2>3, <3>1, <3>2, SemScanStepMoves
    <3>4. Moves(x.s, f[i].s, Q)
      BY <1>5, <2>2, <3>3 DEF Moves
    <3>5. Moves(s, f[i].s, Q)
      BY <3>1, <3>4, MovesOnAndOn
    <3> QED BY <3>3, <3>5 DEF Unmoved
  <2>5. StillWait(i)
    <3> SUFFICES ASSUME NEW j \in i+1..Len(w)
                 PROVE  f[i].s.pwait[w[j]] = q
      OBVIOUS
    <3>1. j \in 1..Len(w) /\ j # i /\ j \in (i-1)+1..Len(w)
      BY <1>1
    <3>2. w[j] \in Task \ {t}
      BY <1>1, <3>1 DEF NoDuplicates
    <3>3. x.s.pwait[w[j]] = q
      BY <1>7, <3>1
    <3> QED BY <2>4, <3>2, <3>3
  <2> HIDE DEF SoundRecord, StillWait
  <2> QED BY <2>4, <2>5
<1> HIDE DEF G
<1>8. Len(w) \in G
  BY <1>1, <1>6, <1>7, UpTo
<1> QED BY <1>3, <1>5, <1>8 DEF G

\* Only the semaphore is waited for with the reason "SEM".
SemOnly(s) == \A t \in Task : s.reason[t] = "SEM" => s.pwait[t] = Sem

\* What one task of the create list makes the tick do: waits for the semaphore or the
\* event end.
Scanned == {Sem, Event}

LEMMA ScanOfMoves ==
  ASSUME NEW s, SchedOK(s), NextReady(s), SemOnly(s), NEW t \in Nodes, NEW ms \in BOOLEAN,
         NEW r, r = ScanOf(s, t, ms)
  PROVE  SchedOK(r) /\ NextReady(r) /\ Moves(s, r, Scanned)
<1>1. CASE t # CreateList /\ s.pwait[t] # NoQueue /\ s.reason[t] = "SEM"
  <2>1. Sem \in Queue /\ s.pwait[t] = Sem
    BY <1>1, QueuesApart DEF SemOnly, Nodes
  <2>2. r = scan_sem_state(s, Sem, ms)
    BY <1>1, <2>1 DEF ScanOf
  <2>3. SchedOK(r) /\ NextReady(r) /\ Moves(s, r, {Sem})
    BY <2>1, <2>2, SemScanMoves
  <2> QED BY <2>3, MovesAmongMore DEF Scanned
<1>2. CASE ~(t # CreateList /\ s.pwait[t] # NoQueue /\ s.reason[t] = "SEM")
  BY <1>2, NothingMoves DEF ScanOf
<1> QED BY <1>1, <1>2

LEMMA SemOnlyKept ==
  ASSUME NEW s, NEW r, NEW Q, SemOnly(s), Moves(s, r, Q)
  PROVE  SemOnly(r)
BY DEF SemOnly, Moves, Unmoved, Left

LEMMA ScansOfMoves ==
  ASSUME NEW s, SchedOK(s), NextReady(s), SemOnly(s), NEW t \in Nodes, NEW ms \in BOOLEAN,
         NEW r, r = ScansOf(s, t, ms)
  PROVE  SchedOK(r) /\ NextReady(r) /\ SemOnly(r) /\ Moves(s, r, Scanned)
<1>1. PICK y : y = EventScan(s, t)
  OBVIOUS
<1>2. SchedOK(y) /\ NextReady(y) /\ Moves(s, y, Scanned)
  <2>1. PICK val : val = IoVal(evf.pattern)
    OBVIOUS
  <2>2. y = s \/ y = scan_event_waitqueue(s, val)
    BY <1>1, <2>1 DEF EventScan
  <2>3. CASE y = s
    BY <2>3, NothingMoves
  <2>4. CASE y = scan_event_waitqueue(s, val)
    <3>1. SchedOK(y) /\ NextReady(y) /\ Moves(s, y, {Event})
      BY <2>4, EventScanMoves
    <3> QED BY <3>1, MovesAmongMore DEF Scanned
  <2> QED BY <2>2, <2>3, <2>4
<1>3. SemOnly(y)
  BY <1>2, SemOnlyKept
<1>4. SchedOK(r) /\ NextReady(r) /\ Moves(y, r, Scanned)
  BY <1>1, <1>2, <1>3, ScanOfMoves DEF ScansOf
<1>5. Moves(s, r, Scanned)
  BY <1>2, <1>4, MovesOnAndOn
<1> QED BY <1>3, <1>4, <1>5, SemOnlyKept

LEMMA ScanObjectsMoves ==
  ASSUME BaseOK, NEW ms \in BOOLEAN, NEW w, w = ScanObjects(k, ms)
  PROVE  SchedOK(w) /\ NextReady(w) /\ Moves(k, w, Scanned)
<1>1. PICK second : second = created.next[created.next[CreateList]]
  OBVIOUS
<1>2. PICK third : third = created.next[second]
  OBVIOUS
<1>3. SchedOK(k) /\ NextReady(k) /\ second \in Nodes /\ third \in Nodes
  BY <1>1, <1>2 DEF BaseOK, IInv, VariablesOK, KernelOK, Links, Nodes
<1>4. SemOnly(k)
  BY DEF SemOnly, BaseOK, WaitersOK
<1>5. PICK y : y = ScansOf(k, second, ms)
  OBVIOUS
<1>6. w = k \/ w = ScansOf(y, third, ms)
  BY <1>1, <1>2, <1>5 DEF ScanObjects
<1>7. SchedOK(y) /\ NextReady(y) /\ SemOnly(y) /\ Moves(k, y, Scanned)
  BY <1>3, <1>4, <1>5, ScansOfMoves
<1>8. CASE w = k
  BY <1>3, <1>8, NothingMoves
<1>9. CASE w = ScansOf(y, third, ms)
  <2>1. SchedOK(w) /\ NextReady(w) /\ Moves(y, w, Scanned)
    BY <1>3, <1>7, <1>9, ScansOfMoves
  <2> QED BY <1>7, <2>1, MovesOnAndOn
<1> QED BY <1>6, <1>8, <1>9

\* The mutexes, when waits for other objects have ended.
LEMMA MutexesAfterScans ==
  ASSUME MutexesOK(k, mx), NEW w, Moves(k, w, Scanned)
  PROVE  MutexesOK(w, mx)
<1>1. Scanned \cap Mutex = {} /\ NoQueue \notin Mutex
  BY QueuesApart DEF Scanned
<1>2. mx \in MutexLists /\ BlockersOK(k, mx) /\ LocksOK(mx) /\ BlockedOK(k, mx)
  BY DEF MutexesOK
<1>3. ASSUME NEW t \in Task
      PROVE  Unmoved(k, w, t) \/ (Left(k, w, t) /\ k.reason[t] \notin MutexReasons)
  BY <1>1, <1>2 DEF Moves, BlockersOK
<1>4. BlockersOK(w, mx)
  BY <1>1, <1>2, <1>3 DEF BlockersOK, Unmoved, Left, MutexReasons
<1>5. BlockedOK(w, mx)
  <2> SUFFICES ASSUME NEW t \in ToSet(mx.blocked)
               PROVE  Waiting(w.state[t]) /\ w.reason[t] = "MUTEX_C_BLK"
    BY <1>2 DEF BlockedOK
  <2>1. Waiting(k.state[t]) /\ k.reason[t] = "MUTEX_C_BLK"
    BY <1>2 DEF BlockedOK
  <2>2. t \in Task
    BY <1>2 DEF MutexLists, ToSet
  <2>3. Unmoved(k, w, t)
    BY <1>3, <2>1, <2>2 DEF MutexReasons
  <2> QED BY <2>1, <2>3 DEF Unmoved
<1> QED BY <1>2, <1>4, <1>5 DEF MutexesOK

\* The tick, from the record w that the scans of the objects leave to the record x.s that
\* the scan of the timeouts leaves, and the rotation.
Scans(ms, w, x, y) ==
  /\ ms \in BOOLEAN /\ w = ScanObjects(k, ms) /\ y = [s |-> w, m |-> mx, sw |-> FALSE]
  /\ x = MutexScanTimeouts(y, ms) /\ k' = RotateUnless(x.s, k.next) /\ mx' = x.m
  /\ ewait' = [t \in Task |-> IF k.pwait[t] = Event /\ w.pwait[t] # Event
                              THEN [ewait[t] EXCEPT !.pattern = IoVal(evf.pattern)]
                              ELSE ewait[t]]

Everything == Queue \cup {NoQueue}

LEMMA TickScans ==
  ASSUME BaseOK, MutexOK, NEW ms, NEW w, NEW x, NEW y, Scans(ms, w, x, y)
  PROVE  /\ SchedOK(w) /\ NextReady(w) /\ Moves(k, w, Scanned)
         /\ Orderly(x) /\ Does(y, x, "timeout", Everything) /\ y.s = w /\ y.m = mx
         /\ OnlyEndsWaits(k, x.s)
         /\ k'.state = x.s.state /\ k'.pwait = x.s.pwait /\ k'.reason = x.s.reason
         /\ k'.rc = x.s.rc /\ SchedOK(k')
<1>1. ms \in BOOLEAN /\ w = ScanObjects(k, ms) /\ SchedOK(k) /\ MutexesOK(k, mx)
  BY DEF Scans, BaseOK, IInv, KernelOK, MutexOK
<1>2. SchedOK(w) /\ NextReady(w) /\ Moves(k, w, Scanned)
  BY <1>1, ScanObjectsMoves
<1>3. MutexesOK(w, mx)
  BY <1>1, <1>2, MutexesAfterScans
<1>4. y.s = w /\ y.m = mx /\ Orderly(y)
  BY <1>2, <1>3 DEF Scans, Orderly, Triple
<1>5. x = MutexScanTimeouts(y, ms)
  BY DEF Scans
<1>6. Orderly(x) /\ Does(y, x, "timeout", Everything) /\ OnlyEndsWaits(y.s, x.s)
  BY <1>1, <1>4, <1>5, MutexScanKeeps DEF Everything
<1>7. OnlyEndsWaits(k, w)
  BY <1>1, <1>2, MovesEndWaits
<1>8. OnlyEndsWaits(k, x.s)
  BY <1>4, <1>6, <1>7, EndsWaitsOnAndOn
<1>9. PICK s : s = x.s
  OBVIOUS
<1>10. SchedOK(s) /\ NextReady(s) /\ k' = RotateUnless(s, k.next)
  BY <1>6, <1>9 DEF Orderly, Scans
<1>11. PICK r : r = RotateUnless(s, k.next)
  OBVIOUS
<1>12. /\ SchedOK(r) /\ r.state = s.state
       /\ r.pwait = s.pwait /\ r.reason = s.reason /\ r.rc = s.rc
  BY <1>10, <1>11, RotateKeeps
<1> QED BY <1>2, <1>4, <1>6, <1>8, <1>9, <1>10, <1>11, <1>12

\* What the tick does to a task: its wait ends, or nothing.
LEMMA TickConcerns ==
  ASSUME BaseOK, MutexOK, NEW ms, NEW w, NEW x, NEW y, Scans(ms, w, x, y), at' = at
  PROVE  Concerns(Scanned, TRUE)
<1>1. /\ Moves(k, w, Scanned) /\ Does(y, x, "timeout", Everything) /\ y.s = w
      /\ k'.state = x.s.state /\ k'.pwait = x.s.pwait /\ k'.reason = x.s.reason
      /\ k'.rc = x.s.rc
  BY TickScans
<1>2. ASSUME NEW t \in Task PROVE Rests(t, Scanned) \/ Ends(t, Scanned, TRUE)
  <2>1. Unmoved(k, w, t) \/ (Left(k, w, t) /\ k.pwait[t] \in Scanned)
    BY <1>1 DEF Moves
  <2>2. Stays(y, x, t, "timeout") \/ Leaves(y, x, t, "timeout", Everything)
    BY <1>1 DEF Does
  <2>3. CASE Stays(y, x, t, "timeout")
    <3>1. Unmoved(w, x.s, t)
      BY <1>1, <2>3 DEF Stays, Unmoved
    <3>2. CASE Unmoved(k, w, t)
      BY <1>1, <3>1, <3>2 DEF Unmoved, Rests, SameWait
    <3>3. CASE Left(k, w, t) /\ k.pwait[t] \in Scanned
      BY <1>1, <3>1, <3>3 DEF Unmoved, Left, Ends, Waiting
    <3> QED BY <2>1, <3>2, <3>3
  <2>4. CASE Leaves(y, x, t, "timeout", Everything)
    <3>1. /\ Waiting(w.state[t]) /\ ~Waiting(x.s.state[t]) /\ x.s.pwait[t] = NoQueue
          /\ x.s.reason[t] = "NONE" /\ x.s.rc[t] = "TIMEOUT"
      BY <1>1, <2>4 DEF Leaves, Waiting
    <3>2. Unmoved(k, w, t)
      BY <2>1, <3>1 DEF Left, Waiting
    <3> QED BY <1>1, <3>1, <3>2 DEF Unmoved, Ends
  <2> QED BY <2>2, <2>3, <2>4
<1> QED BY <1>2 DEF Concerns

\* The flags of a waiter whose wait goes on are still those that it waits for.
LEMMA TickKeepsEvent ==
  ASSUME BaseOK, MutexOK, EventOK, NEW ms, NEW w, NEW x, NEW y, Scans(ms, w, x, y),
         UNCHANGED << evf, register >>
  PROVE  EventOK'
<1>1. /\ Moves(k, w, Scanned) /\ Does(y, x, "timeout", Everything) /\ y.s = w
      /\ k'.pwait = x.s.pwait /\ SchedOK(k')
  BY TickScans
<1>2. evf' = evf /\ register' = register
  OBVIOUS
<1>3. IoVal(evf.pattern) \subseteq Bit
  BY DEF EventOK, EventTypeOK, IoVal
<1>4. EventTypeOK'
  <2>1. ewait' \in [Task -> [mode : {"AND", "OR"}, pattern : SUBSET Bit]]
    BY <1>3 DEF Scans, EventOK, EventTypeOK
  <2> QED BY <1>2, <2>1 DEF EventOK, EventTypeOK
<1>5. EventFields'
  BY <1>2 DEF EventOK, EventFields
<1>6. SchedOK(k)
  BY DEF BaseOK, IInv, KernelOK
<1>7. PICK val : val = evf.pattern
  OBVIOUS
<1>8. ASSUME NEW t \in Task, k'.pwait[t] = Event, evf.io = "pattern"
      PROVE  ~fCond(val, ewait'[t])
  <2>1. w.pwait[t] = Event
    BY <1>1, <1>8, QueuesApart DEF Does, Stays, Leaves
  <2>2. k.pwait[t] = Event
    BY <1>1, <2>1, QueuesApart DEF Moves, Unmoved, Left
  <2>3. ewait'[t] = ewait[t]
    BY <2>1 DEF Scans
  <2>4. ~fCond(evf.pattern, ewait[t])
    BY <1>6, <1>8, <2>2, WaiterMissesNone
  <2> QED BY <1>7, <2>3, <2>4
<1> QED BY <1>1, <1>2, <1>4, <1>5, <1>6, <1>7, <1>8, EventKept

\* What ObjSysTick does, with its records named.
LEMMA TickIsScans ==
  ASSUME ObjSysTick
  PROVE  /\ \E ms, w, x, y : Scans(ms, w, x, y)
         /\ Tick /\ pend' = TRUE /\ request' = TRUE
         /\ UNCHANGED << created, id_task, curr, cpu, sp, evf, register, fmvars, setup, own, count >>
         /\ exists' = exists /\ at' = at /\ irq' = irq
<1>1. PICK ms \in {us_count' = 0} : \E w \in {ScanObjects(k, ms)} :
       \E x \in {MutexScanTimeouts([s |-> w, m |-> mx, sw |-> FALSE], ms)} :
         /\ k' = RotateUnless(x.s, k.next)
         /\ mx' = x.m
         /\ ewait' = [t \in Task |-> IF k.pwait[t] = Event /\ w.pwait[t] # Event
                                     THEN [ewait[t] EXCEPT !.pattern = IoVal(evf.pattern)]
                                     ELSE ewait[t]]
  BY DEF ObjSysTick
<1>2. PICK w \in {ScanObjects(k, ms)} :
       \E x \in {MutexScanTimeouts([s |-> w, m |-> mx, sw |-> FALSE], ms)} :
         /\ k' = RotateUnless(x.s, k.next)
         /\ mx' = x.m
         /\ ewait' = [t \in Task |-> IF k.pwait[t] = Event /\ w.pwait[t] # Event
                                     THEN [ewait[t] EXCEPT !.pattern = IoVal(evf.pattern)]
                                     ELSE ewait[t]]
  BY <1>1
<1>3. PICK y : y = [s |-> w, m |-> mx, sw |-> FALSE]
  OBVIOUS
<1>4. PICK x \in {MutexScanTimeouts([s |-> w, m |-> mx, sw |-> FALSE], ms)} :
         /\ k' = RotateUnless(x.s, k.next)
         /\ mx' = x.m
         /\ ewait' = [t \in Task |-> IF k.pwait[t] = Event /\ w.pwait[t] # Event
                                     THEN [ewait[t] EXCEPT !.pattern = IoVal(evf.pattern)]
                                     ELSE ewait[t]]
  BY <1>2
<1>5. ms \in BOOLEAN
  BY <1>1
<1>6. x = MutexScanTimeouts(y, ms)
  BY <1>3, <1>4
<1>7. Scans(ms, w, x, y)
  BY <1>2, <1>3, <1>4, <1>5, <1>6 DEF Scans
<1>8. \E m1, w1, x1, y1 : Scans(m1, w1, x1, y1)
  BY <1>7
<1> QED BY <1>8 DEF ObjSysTick, callvars

LEMMA TickKeepsBase ==
  ASSUME BaseOK, MutexOK, ObjSysTick
  PROVE  BaseOK' /\ Concerns(Scanned, TRUE) /\ GoesOn
<1>1. PICK ms, w, x, y : Scans(ms, w, x, y)
  BY TickIsScans
<1>2. /\ Tick /\ pend' = TRUE /\ request' = TRUE
      /\ UNCHANGED << created, id_task, curr, cpu, sp >>
      /\ exists' = exists /\ at' = at /\ irq' = irq
  BY TickIsScans
<1>3. Orderly(x) /\ OnlyEndsWaits(k, x.s)
  BY <1>1, TickScans
<1>4. PICK s : s = x.s
  OBVIOUS
<1>5. SchedOK(s) /\ NextReady(s) /\ OnlyEndsWaits(k, s) /\ k' = RotateUnless(s, k.next)
  BY <1>1, <1>3, <1>4 DEF Orderly, Scans
<1>6. IInv'
  BY <1>2, <1>5, TickKeeps DEF BaseOK
<1>7. Concerns(Scanned, TRUE)
  BY <1>1, <1>2, TickConcerns
<1>8. Created
  BY <1>2 DEF Created
<1>9. WaitersOK'
  BY <1>7, <1>8, WaitersKept DEF BaseOK
<1>10. CallsOK'
  BY <1>2 DEF BaseOK, CallsOK
<1>11. GoesOn
  BY <1>2, NoDeletionEnds
<1> QED BY <1>6, <1>7, <1>9, <1>10, <1>11 DEF BaseOK

LEMMA TickKeepsPool ==
  ASSUME BaseOK, MutexOK, PoolOK, ObjSysTick
  PROVE  PoolOK'
<1>1. BaseOK' /\ Concerns(Scanned, TRUE) /\ GoesOn
  BY TickKeepsBase
<1>2. Pool \in Queue /\ Pool \notin Scanned
  BY QueuesApart DEF Scanned
<1>3. SchedOK(k) /\ SchedOK(k') /\ WaitersOK
  BY <1>1 DEF BaseOK, IInv, KernelOK
<1>4. SameGot
  BY <1>1, <1>2, <1>3, GotKept DEF SameGot
<1>5. \A t \in Task : k'.pwait[t] = Pool => k.pwait[t] = Pool
  BY <1>1, <1>2, NoneJoins
<1>6. UNCHANGED fmvars
  BY TickIsScans
<1>7. Deleted(Pool) => Deleted(Pool)'
  BY <1>1, <1>2 DEF GoesOn
<1> QED BY <1>3, <1>4, <1>5, <1>6, <1>7, PoolRests

LEMMA TickKeepsMutexes ==
  ASSUME BaseOK, MutexOK, ObjSysTick
  PROVE  MutexOK'
<1>1. BaseOK' /\ Concerns(Scanned, TRUE) /\ GoesOn
  BY TickKeepsBase
<1>2. PICK ms, w, x, y : Scans(ms, w, x, y)
  BY TickIsScans
<1>3. setup' = setup /\ own' = own
  BY TickIsScans
<1>4. /\ Orderly(x) /\ Does(y, x, "timeout", Everything) /\ y.m = mx
      /\ k'.state = x.s.state /\ k'.pwait = x.s.pwait /\ k'.reason = x.s.reason
  BY <1>2, TickScans
<1>5. mx' = x.m
  BY <1>2 DEF Scans
<1>6. MutexesOK(k', mx')
  <2>1. MutexesOK(x.s, x.m)
    BY <1>4 DEF Orderly
  <2> QED BY <1>4, <1>5, <2>1 DEF MutexesOK, BlockersOK, BlockedOK
<1>7. ASSUME NEW q \in Mutex, LockOK(q) PROVE LockOK(q)'
  <2>1. q \notin Scanned
    BY QueuesApart DEF Scanned
  <2>2. \A t \in Task : Got(t, q)' <=> Got(t, q)
    BY <1>1, <2>1, GotKept DEF BaseOK
  <2>3. Known(mx', q)
    BY <1>4, <1>5, <1>7 DEF LockOK, Does
  <2>4. ASSUME NEW t \in Task PROVE ToSet(mx'.held[t]) = ToSet(mx.held[t])
    BY <1>4, <1>5 DEF Does, Stays, Leaves
  <2>5. \A t \in Task : Unlocks(t, q)
    BY <1>3, <1>7, <2>2, <2>4 DEF LockOK, Unlocks
  <2> QED BY <1>3, <2>3, <2>5, LockIsOK
<1>8. own' \in [Task -> SUBSET Mutex]
  BY <1>3 DEF MutexOK
<1> QED BY <1>1, <1>3, <1>6, <1>7, <1>8, LocksKept
-----------------------------------------------------------------------------
(* The invariant *)
ObjInv == BaseOK /\ EventOK /\ PoolOK /\ MutexOK /\ AppOK

LEMMA TickKeepsObjects ==
  ASSUME ObjInv, ObjSysTick, UNCHANGED app
  PROVE  ObjInv'
<1>1. BaseOK /\ EventOK /\ PoolOK /\ MutexOK
  BY DEF ObjInv
<1>2. BaseOK'
  BY <1>1, TickKeepsBase
<1>3. EventOK'
  <2>1. PICK ms, w, x, y : Scans(ms, w, x, y)
    BY TickIsScans
  <2>2. UNCHANGED << evf, register >>
    BY TickIsScans
  <2> QED BY <1>1, <2>1, <2>2, TickKeepsEvent
<1>4. PoolOK' /\ MutexOK'
  BY <1>1, TickKeepsPool, TickKeepsMutexes
<1>5. AppOK'
  BY TickIsScans DEF ObjInv, AppOK
<1> QED BY <1>2, <1>3, <1>4, <1>5 DEF ObjInv

\* An object that the step does not concern.
LEMMA FramesKept ==
  ASSUME ObjInv, NEW Q, Keeps(Q)
  PROVE  /\ Event \notin Q /\ UNCHANGED evvars => EventOK'
         /\ Pool \notin Q /\ UNCHANGED fmvars => PoolOK'
         /\ Q \cap Mutex = {} /\ UNCHANGED muvars => MutexOK'
<1>1. BaseOK /\ EventOK /\ PoolOK /\ MutexOK
  BY DEF ObjInv
<1> QED BY <1>1, EventFrame, PoolFrame, MutexFrame

\* A step that concerns no mutex and at most the object q, and leaves the application alone.
LEMMA StepOfOne ==
  ASSUME ObjInv, NEW q, Keeps({q}) \/ Keeps({}), q \notin Mutex, AppOK',
         EventOK' \/ (q # Event /\ UNCHANGED evvars),
         PoolOK' \/ (q # Pool /\ UNCHANGED fmvars), UNCHANGED muvars
  PROVE  ObjInv'
<1>1. PICK Q : Keeps(Q) /\ Q \subseteq {q}
  OBVIOUS
<1>2. Q \cap Mutex = {} /\ (q # Event => Event \notin Q) /\ (q # Pool => Pool \notin Q)
  BY <1>1
<1>3. BaseOK'
  BY <1>1 DEF Keeps
<1> QED BY <1>1, <1>2, <1>3, FramesKept DEF ObjInv

LEMMA NothingHappens ==
  ASSUME BaseOK, UNCHANGED << vars, callvars >>
  PROVE  Keeps({})
<1>1. UNCHANGED vars /\ UNCHANGED callvars /\ k' = k /\ id_task' = id_task
  BY DEF vars
<1>2. IInv'
  BY <1>1, StutterKeeps DEF BaseOK
<1>3. SameWaits(k, k')
  BY <1>1 DEF SameWaits
<1> QED BY <1>1, <1>2, <1>3, WaitsGoOn

LEMMA ObjectsStep ==
  ASSUME ObjInv, [ObjNext]_objvars, Undisturbed'
  PROVE  ObjInv'
<1>0. /\ Event \notin Mutex /\ Pool \notin Mutex /\ Sem \notin Mutex /\ NoQueue \notin Mutex
      /\ Event # Pool /\ Sem # Event /\ Sem # Pool /\ NoQueue # Event /\ NoQueue # Pool
  BY QueuesApart
<1>1. BaseOK /\ EventOK /\ PoolOK /\ MutexOK /\ AppOK
  BY DEF ObjInv
<1>2. ASSUME UNCHANGED app, UNCHANGED semcallvars PROVE AppOK'
  BY <1>1, <1>2 DEF AppOK, semcallvars
<1>3. CASE UNCHANGED app /\ EventNext(app.timeouts) /\ UNCHANGED << fmvars, muvars, semcallvars >>
  <2>1. (Keeps({Event}) \/ Keeps({})) /\ EventOK'
    BY <1>1, <1>3, EventKeeps
  <2> QED BY <1>0, <1>2, <1>3, <2>1, StepOfOne
<1>4. CASE UNCHANGED app /\ FmemNext(app.timeouts) /\ UNCHANGED << evvars, muvars, semcallvars >>
  <2>1. (Keeps({Pool}) \/ Keeps({})) /\ PoolOK'
    BY <1>1, <1>4, PoolKeeps
  <2> QED BY <1>0, <1>2, <1>4, <2>1, StepOfOne
<1>5. CASE UNCHANGED app /\ MutexNext(app.timeouts) /\ UNCHANGED << evvars, fmvars, semcallvars >>
  <2>1. PICK Q \in SUBSET Mutex : Keeps(Q)
    BY <1>1, <1>5, MutexKeeps
  <2>2. MutexOK'
    BY <1>1, <1>5, MutexKeeps
  <2>3. Event \notin Q /\ Pool \notin Q
    BY <1>0
  <2>4. EventOK' /\ PoolOK'
    BY <1>5, <2>1, <2>3, FramesKept
  <2> QED BY <1>2, <1>5, <2>1, <2>2, <2>4 DEF ObjInv, Keeps
<1>6. CASE UNCHANGED app /\ SemNextHere /\ UNCHANGED << evvars, fmvars, muvars >>
  <2>1. Keeps({Sem}) \/ Keeps({})
    BY <1>1, <1>6, SemKeeps
  <2>2. AppOK'
    BY <1>1, <1>6, SemCountsKept DEF AppOK
  <2> QED BY <1>0, <1>6, <2>1, <2>2, StepOfOne
<1>7. CASE UNCHANGED app /\ ManagesTasks /\ UNCHANGED << evvars, fmvars, muvars, semcallvars >>
  <2>1. Keeps({})
    BY <1>1, <1>7, ManagementKeeps
  <2> QED BY <1>0, <1>2, <1>7, <2>1, StepOfOne
<1>8. CASE UNCHANGED app /\ Processor /\ UNCHANGED << callvars, evvars, fmvars, muvars, semcallvars >>
  <2>1. Keeps({})
    BY <1>1, <1>8, ProcessorKeeps
  <2> QED BY <1>0, <1>2, <1>8, <2>1, StepOfOne
<1>9. CASE UNCHANGED app /\ ObjSysTick
  BY <1>9, TickKeepsObjects
<1>10. CASE UNCHANGED objvars
  <2>1. UNCHANGED << app, vars, callvars, evvars, fmvars, muvars, semcallvars >>
    BY <1>10 DEF objvars
  <2>2. Keeps({})
    BY <1>1, <2>1, NothingHappens
  <2> QED BY <1>0, <1>2, <2>1, <2>2, StepOfOne
<1>11. ~ComputesAlone
  BY <1>1 DEF ComputesAlone, masked, BaseOK, CallsOK
<1> QED BY <1>3, <1>4, <1>5, <1>6, <1>7, <1>8, <1>9, <1>10, <1>11 DEF ObjNext

\* What a step may make of the interrupts. They are never enabled as they were at first.
NeverBack == irq' = irq \/ irq' \in {"masked", "restored"}

LEMMA DeletionNeverBack ==
  ASSUME NEW q, NEW blind, DeletionStep(q, blind)
  PROVE  NeverBack
BY DEF DeletionStep, Deletes, DeleteTest, DeleteRemoves, DeleteFinishes, SameObjects, Enables,
       LeavesDisabled, NeverBack

LEMMA EventNeverBack ==
  ASSUME NEW timeouts, EventNext(timeouts)
  PROVE  NeverBack
<1>1. CASE tn_event_delete
  BY <1>1, DeletionNeverBack DEF tn_event_delete
<1>2. CASE ~tn_event_delete
  <2>1. SameObjects \/ UNCHANGED callvars
    BY <1>2 DEF EventNext, Enter, Quick, Handler, SecondHalf, Waits, kern_event_wait,
       kern_event_wait_polling, kern_event_iwait, kern_event_set, kern_event_iset,
       kern_event_clear, kern_event_iclear, EventWaited, Device
  <2> QED BY <2>1 DEF SameObjects, callvars, NeverBack
<1> QED BY <1>1, <1>2

LEMMA FmemNeverBack ==
  ASSUME NEW timeouts, FmemNext(timeouts)
  PROVE  NeverBack
<1>1. CASE kern_fmem_delete
  BY <1>1, DeletionNeverBack DEF kern_fmem_delete
<1>2. CASE ~kern_fmem_delete
  <2>1. SameObjects \/ UNCHANGED callvars
    BY <1>2 DEF FmemNext, Enter, Quick, Handler, SecondHalf, Waits, kern_fmem_get,
       kern_fmem_get_polling, kern_fmem_get_ipolling, kern_fmem_release, kern_fmem_irelease,
       FmemWaited
  <2> QED BY <2>1 DEF SameObjects, callvars, NeverBack
<1> QED BY <1>1, <1>2

LEMMA MutexNeverBack ==
  ASSUME NEW timeouts, MutexNext(timeouts)
  PROVE  NeverBack
<1>1. PICK q \in Mutex :
        \/ Enter(q)
        \/ \E timeout \in timeouts : kern_mutex_lock(q, timeout)
        \/ kern_mutex_lock_polling(q)
        \/ kern_mutex_unlock(q)
        \/ MutexWaited(q)
        \/ kern_mutex_delete(q)
  BY DEF MutexNext
<1>2. CASE kern_mutex_delete(q)
  BY <1>2 DEF kern_mutex_delete, Deletes, DeleteTest, DeleteRemoves, DeleteFinishes, SameObjects,
     Enables, NeverBack
<1>3. CASE ~kern_mutex_delete(q)
  <2>1. SameObjects
    BY <1>1, <1>3 DEF Enter, Quick, SecondHalf, kern_mutex_lock, LockWaits,
       kern_mutex_lock_polling, kern_mutex_unlock, MutexWaited
  <2> QED BY <2>1 DEF SameObjects, NeverBack
<1> QED BY <1>2, <1>3

LEMMA SemNeverBack ==
  ASSUME SemNextHere
  PROVE  NeverBack
<1>1. CASE kern_sem_delete
  BY <1>1, DeletionNeverBack DEF kern_sem_delete
<1>2. CASE ~kern_sem_delete
  <2>1. SameObjects \/ UNCHANGED callvars
    BY <1>2 DEF SemNextHere, Enter, Handler, SecondHalf, SemCall
  <2> QED BY <2>1 DEF SameObjects, callvars, NeverBack
<1> QED BY <1>1, <1>2

LEMMA InterruptsNeverBack ==
  ASSUME [ObjNext]_objvars, Undisturbed'
  PROVE  Undisturbed
<1>1. CASE UNCHANGED callvars
  BY <1>1 DEF callvars, Undisturbed
<1>2. ASSUME NeverBack PROVE Undisturbed
  BY <1>2 DEF NeverBack, Undisturbed
<1>3. CASE EventNext(app.timeouts) \/ FmemNext(app.timeouts) \/ MutexNext(app.timeouts) \/ SemNextHere
  BY <1>2, <1>3, EventNeverBack, FmemNeverBack, MutexNeverBack, SemNeverBack
<1> QED BY <1>1, <1>3 DEF ObjNext, ManagesTasks, ObjSysTick, ComputesAlone, objvars

\* At first nobody waits, and nobody is in a call.
LEMMA RestsAtFirst ==
  ASSUME ObjInit
  PROVE  /\ BaseOK /\ AppOK
         /\ k.wq = [q \in Queue |-> << >>]
         /\ \A t \in Task : /\ k.pwait[t] = NoQueue /\ ~Waiting(k.state[t])
                            /\ k.reason[t] = "NONE" /\ at[t] = Code
<1>1. /\ SemInit /\ Init /\ CallsInit(app.objects) /\ app \in Applications
      /\ count = [q \in Queue |-> StartCount]
  BY DEF ObjInit, SemInit
<1>2. IInv
  BY <1>1, SemInitHolds DEF SemInv
<1>3. /\ k.wq = [q \in Queue |-> << >>]
      /\ \A t \in Task : k.pwait[t] = NoQueue /\ ~Waiting(k.state[t])
  BY <1>1, NobodyWaitsAtFirst
<1>4. \A t \in Task : k.reason[t] = "NONE"
  BY <1>2, <1>3 DEF IInv, KernelOK, SchedOK, WaitFieldsOK
<1>5. CallsOK /\ \A t \in Task : at[t] = Code
  <2>1. /\ exists = [q \in Queue |-> q \in app.objects]
        /\ at = [t \in Task |-> Code] /\ irq = "enabled"
    BY <1>1 DEF CallsInit
  <2>2. exists \in [Queue -> BOOLEAN]
    <3>1. \A q \in Queue : (q \in app.objects) \in BOOLEAN
      OBVIOUS
    <3> QED BY <2>1, <3>1, Zenon
  <2> QED BY <2>1, <2>2 DEF CallsOK, Code, Parts
<1>6. WaitersOK
  BY <1>3, <1>4, <1>5, QueuesApart DEF WaitersOK
<1>7. AppOK
  BY <1>1, SemAssumption DEF AppOK
<1> QED BY <1>2, <1>3, <1>4, <1>5, <1>6, <1>7 DEF BaseOK

\* The free list holds every block once.
LEMMA AllBlocksListed ==
  ASSUME NEW s, s = SetToSeq(Block)
  PROVE  s \in Seq(Block) /\ NoDuplicates(s) /\ ToSet(s) = Block /\ Len(s) = Cardinality(Block)
<1> DEFINE n == Cardinality(Block)
<1>1. IsFiniteSet(Block) /\ n \in Nat /\ ExistsBijection(1..n, Block)
  BY FmemAssumption, FS_CardinalityType
<1>2. IsFiniteSet(1..n) /\ Cardinality(1..n) = n
  BY <1>1, FS_Interval
<1>3. PICK g : g \in [1..n -> Block] /\ IsInjective(g)
  BY <1>1 DEF ExistsBijection, Bijection, Injection
<1>4. s \in [1..n -> Block] /\ IsInjective(s)
  BY <1>3 DEF SetToSeq
<1>5. s \in Injection(1..n, Block)
  BY <1>4 DEF Injection
<1>6. s \in Surjection(1..n, Block)
  BY <1>1, <1>2, <1>5, FS_Injection
<1>7. s \in Seq(Block) /\ Len(s) = n /\ DOMAIN s = 1..n
  BY <1>1, <1>4
<1>8. ToSet(s) = Block
  BY <1>4, <1>6, <1>7 DEF Surjection, ToSet
<1>9. NoDuplicates(s)
  BY <1>4, <1>7 DEF IsInjective, NoDuplicates
<1> QED BY <1>7, <1>8, <1>9

LEMMA ObjectsAtFirst ==
  ASSUME ObjInit
  PROVE  ObjInv
<1>1. /\ BaseOK /\ AppOK /\ k.wq = [q \in Queue |-> << >>]
      /\ \A t \in Task : /\ k.pwait[t] = NoQueue /\ ~Waiting(k.state[t])
                         /\ k.reason[t] = "NONE" /\ at[t] = Code
  BY RestsAtFirst
<1>2. /\ Code.part = "code" /\ NoTask \notin Task /\ Handlers \notin Task /\ NoQueue \notin Mutex
      /\ Pool \in Queue /\ Event \in Queue /\ Mutex \subseteq Queue
  BY QueuesApart, MutexAssumption, FmemAssumption DEF Code
<1>3. \A t \in Task, q \in Queue : ~Got(t, q)
  BY <1>1, <1>2 DEF Got
<1>4. EventOK
  <2>1. PICK e \in EventSetups : EventInit(e)
    BY <1>1, ObjectsAssumption DEF ObjInit, AppOK
  <2>2. /\ evf = [attr |-> e.attr, io |-> e.io, pattern |-> {}] /\ register = {}
        /\ ewait = [t \in Task |-> NoWait]
    BY <2>1 DEF EventInit
  <2>3. e = [attr |-> e.attr, io |-> e.io]
    BY <2>1, EventAssumption
  <2>4. EventTypeOK
    BY <2>1, <2>2, <2>3 DEF EventTypeOK, NoWait
  <2>5. NoFlagMissed
    BY <1>1, <1>2 DEF NoFlagMissed, ToSet
  <2> QED BY <2>2, <2>4, <2>5 DEF EventOK, EventFields
<1>5. PoolOK
  <2>1. /\ free_list = SetToSeq(Block) /\ fblkcnt = NumBlocks
        /\ elem = [t \in Task |-> NoBlock] /\ owned = [o \in BlockOwners |-> {}]
    BY DEF ObjInit, FmemInit, BlockOwners
  <2>2. /\ free_list \in Seq(Block) /\ NoDuplicates(free_list) /\ ToSet(free_list) = Block
        /\ Len(free_list) = NumBlocks
    BY <2>1, AllBlocksListed DEF NumBlocks
  <2>3. NumBlocks \in Nat
    BY FmemAssumption, FS_CardinalityType DEF NumBlocks
  <2>4. FmemTypeOK
    BY <2>1, <2>2, <2>3 DEF FmemTypeOK, BlockOwners
  <2>5. NoBlockLies
    BY <1>1, <1>2 DEF NoBlockLies
  <2>6. BlocksOK
    BY <1>2, <1>3, <2>1, <2>2 DEF BlocksOK, OnePlace, Owning, Handing
  <2> QED BY <2>1, <2>2, <2>4, <2>5, <2>6 DEF PoolOK
<1>6. MutexOK
  <2>1. PICK s \in Setups : MutexInit(s)
    BY <1>1, ObjectsAssumption DEF ObjInit, AppOK
  <2>2. setup \in Setups /\ own = [t \in Task |-> {}]
    BY <2>1 DEF MutexInit
  <2>3. /\ mx = [ holder  |-> [q \in Mutex |-> NoTask], held |-> [t \in Task |-> << >>],
                  locked  |-> << >>, blocked |-> << >>, blk |-> [t \in Task |-> NoTask] ]
    BY <2>1 DEF MutexInit
  <2>4. /\ mx.holder = [q \in Mutex |-> NoTask] /\ mx.held = [t \in Task |-> << >>]
        /\ mx.locked = << >> /\ mx.blocked = << >>
    BY <2>3
  <2>5. mx \in MutexLists
    BY <2>3 DEF MutexLists
  <2>6. BlockersOK(k, mx)
    BY <1>1, <1>2 DEF BlockersOK, MutexReasons
  <2>7. LocksOK(mx) /\ BlockedOK(k, mx)
    BY <2>4 DEF LocksOK, BlockedOK, NoDuplicates, ToSet
  <2>8. ASSUME NEW q \in Mutex PROVE LockOK(q)
    BY <1>2, <1>3, <2>2, <2>4 DEF LockOK, Known, ToSet
  <2> QED BY <2>2, <2>5, <2>6, <2>7, <2>8 DEF MutexOK, MutexesOK
<1> QED BY <1>1, <1>4, <1>5, <1>6 DEF ObjInv
-----------------------------------------------------------------------------
(* The theorems *)
LEMMA ObjInvAlways == ObjSpec => [](Undisturbed => ObjInv)
<1>1. ObjInit => ObjInv
  BY ObjectsAtFirst
<1>2. (Undisturbed => ObjInv) /\ [ObjNext]_objvars => (Undisturbed => ObjInv)'
  BY ObjectsStep, InterruptsNeverBack
<1> QED BY <1>1, <1>2, PTL DEF ObjSpec

(***************************************************************************)
(* Who deletes no semaphore and no pool never meets disabled interrupts,   *)
(* and what follows holds without a condition.                             *)
(***************************************************************************)
NeitherThere == \A q \in {Sem, Pool} : ~exists[q] /\ \A t \in Task : at[t].obj # q

\* A step of a call of q.
CallOf(q) ==
  /\ irq' = irq
  /\ exists' = exists \/ exists' = [exists EXCEPT ![q] = FALSE]
  /\ at' = at \/ \E part \in Parts, p \in {q, NoQueue} : at' = [at EXCEPT ![curr] = [part |-> part, obj |-> p]]

LEMMA CallKeepsApart ==
  ASSUME ObjInv, NeitherThere, NEW q \in Queue, q # Sem, q # Pool, CallOf(q)
  PROVE  Undisturbed' /\ NeitherThere'
<1>1. at \in [Task -> [part : Parts, obj : Queue \cup {NoQueue}]] /\ exists \in [Queue -> BOOLEAN]
      /\ irq = "enabled"
  BY DEF ObjInv, BaseOK, CallsOK
<1>2. Sem \in Queue /\ Pool \in Queue /\ Sem # NoQueue /\ Pool # NoQueue
  BY QueuesApart
<1>3. \A x \in {Sem, Pool} : ~exists'[x]
  BY <1>1, <1>2 DEF CallOf, NeitherThere
<1>4. \A x \in {Sem, Pool}, t \in Task : at'[t].obj # x
  BY <1>1, <1>2 DEF CallOf, NeitherThere
<1> QED BY <1>1, <1>3, <1>4 DEF CallOf, NeitherThere, Undisturbed

LEMMA EventApart ==
  ASSUME ObjInv, NEW timeouts, EventNext(timeouts)
  PROVE  CallOf(Event)
<1>1. irq = "enabled"
  BY DEF ObjInv, BaseOK, CallsOK
<1>2. CASE tn_event_delete
  BY <1>1, <1>2 DEF tn_event_delete, DeletionStep, Deletes, DeleteTest, DeleteRemoves, DeleteFinishes,
     Enables, masked, SameObjects, Goes, Done, Code, CallOf, Parts
<1>3. CASE UNCHANGED callvars
  BY <1>3 DEF callvars, CallOf
<1>4. CASE SameObjects /\ (Done \/ \E part \in Parts : Goes(part, Event))
  BY <1>4 DEF SameObjects, Goes, Done, Code, CallOf, Parts
<1>5. \/ tn_event_delete \/ UNCHANGED callvars
      \/ SameObjects /\ (Done \/ Goes("entered", Event) \/ Goes("waited", Event))
  BY DEF EventNext, Enter, Quick, Handler, SecondHalf, Waits, kern_event_wait,
     kern_event_wait_polling, kern_event_iwait, kern_event_set, kern_event_iset,
     kern_event_clear, kern_event_iclear, EventWaited, Device
<1>6. "entered" \in Parts /\ "waited" \in Parts
  BY DEF Parts
<1> QED BY <1>2, <1>3, <1>4, <1>5, <1>6

LEMMA MutexApart ==
  ASSUME ObjInv, NEW timeouts, MutexNext(timeouts)
  PROVE  \E q \in Mutex : CallOf(q)
<1>1. irq = "enabled"
  BY DEF ObjInv, BaseOK, CallsOK
<1>2. PICK q \in Mutex :
        \/ Enter(q)
        \/ \E timeout \in timeouts : kern_mutex_lock(q, timeout)
        \/ kern_mutex_lock_polling(q)
        \/ kern_mutex_unlock(q)
        \/ MutexWaited(q)
        \/ kern_mutex_delete(q)
  BY DEF MutexNext
<1>3. CASE kern_mutex_delete(q)
  BY <1>1, <1>3 DEF kern_mutex_delete, Deletes, DeleteTest, DeleteRemoves, DeleteFinishes,
     Enables, masked, SameObjects, Goes, Done, Code, CallOf, Parts
<1>4. CASE SameObjects /\ (Done \/ \E part \in Parts : Goes(part, q))
  BY <1>4 DEF SameObjects, Goes, Done, Code, CallOf, Parts
<1>5. \/ kern_mutex_delete(q)
      \/ SameObjects /\ (Done \/ Goes("entered", q) \/ Goes("waited", q))
  BY <1>2 DEF Enter, Quick, SecondHalf, kern_mutex_lock, LockWaits, kern_mutex_lock_polling,
     kern_mutex_unlock, MutexWaited
<1>6. "entered" \in Parts /\ "waited" \in Parts
  BY DEF Parts
<1> QED BY <1>3, <1>4, <1>5, <1>6

\* No call or handler of an object that never was.
LEMMA NothingOfAbsent ==
  ASSUME ObjInv, NeitherThere, NEW q \in {Sem, Pool}
  PROVE  /\ \A part : ~At(part, q)
         /\ ~Handler(q) /\ ~Enter(q) /\ ~Deletes(q)
<1>1. Calls(curr) => curr \in Task
  BY CallerIsThere DEF ObjInv, BaseOK
<1> QED BY <1>1 DEF NeitherThere, At, Handler, Enter, Deletes

LEMMA AbsentDoNothing ==
  ASSUME ObjInv, NeitherThere
  PROVE  ~SemNextHere /\ \A timeouts : ~FmemNext(timeouts)
<1>1. \A q \in {Sem, Pool} : /\ \A part : ~At(part, q)
                             /\ ~Handler(q) /\ ~Enter(q) /\ ~Deletes(q)
  BY NothingOfAbsent
<1>2. \A q \in {Sem, Pool} : /\ ~Quick(q) /\ ~SecondHalf(q) /\ \A blind : ~DeletionStep(q, blind)
  BY <1>1 DEF Quick, SecondHalf, DeletionStep, DeleteTest, DeleteRemoves, DeleteFinishes
<1>3. ~SemNextHere
  BY <1>1, <1>2 DEF SemNextHere, SemCall, kern_sem_delete
<1>4. \A timeouts : ~FmemNext(timeouts)
  BY <1>1, <1>2 DEF FmemNext, kern_fmem_get, kern_fmem_get_polling, kern_fmem_get_ipolling,
     kern_fmem_release, kern_fmem_irelease, FmemWaited, kern_fmem_delete
<1> QED BY <1>3, <1>4

LEMMA ApartStaysApart ==
  ASSUME ObjInv, NeitherThere, [ObjNext]_objvars
  PROVE  Undisturbed' /\ NeitherThere'
<1>1. CASE UNCHANGED callvars
  BY <1>1 DEF callvars, NeitherThere, Undisturbed, ObjInv, BaseOK, CallsOK
<1>2. CASE \E q \in Mutex \cup {Event} : CallOf(q)
  BY <1>2, CallKeepsApart, QueuesApart
<1>3. CASE EventNext(app.timeouts) \/ MutexNext(app.timeouts)
  BY <1>2, <1>3, EventApart, MutexApart
<1> QED BY <1>1, <1>3, AbsentDoNothing DEF ObjNext, ManagesTasks, ObjSysTick, ComputesAlone, objvars

\* An application that has created no semaphore and no pool never finds interrupts disabled
\* behind a deletion (the deletions of events and mutexes look whether they are enabled).
THEOREM EventsAndMutexesEnable ==
  ObjSpec => []({Sem, Pool} \cap app.objects = {} => Undisturbed)
<1> DEFINE None == {Sem, Pool} \cap app.objects = {}
           Inv  == (Undisturbed => ObjInv) /\ (None => Undisturbed /\ NeitherThere)
<1>1. ObjInit => Inv
  <2> SUFFICES ASSUME ObjInit PROVE Inv
    OBVIOUS
  <2>1. ObjInv
    BY ObjectsAtFirst
  <2>2. irq = "enabled" /\ \A q \in Queue : exists[q] <=> q \in app.objects
    BY DEF ObjInit, CallsInit
  <2>3. Sem \in Queue /\ Pool \in Queue /\ Sem # NoQueue /\ Pool # NoQueue
    BY QueuesApart
  <2>4. \A t \in Task : at[t].obj = NoQueue
    BY DEF ObjInit, CallsInit, Code
  <2> QED BY <2>1, <2>2, <2>3, <2>4 DEF NeitherThere, Undisturbed
<1>2. Inv /\ [ObjNext]_objvars => Inv'
  <2> SUFFICES ASSUME Inv, [ObjNext]_objvars PROVE Inv'
    OBVIOUS
  <2>1. (Undisturbed => ObjInv)'
    BY ObjectsStep, InterruptsNeverBack
  <2>2. app' = app
    BY DEF ObjNext, objvars
  <2>3. ASSUME None' PROVE Undisturbed' /\ NeitherThere'
    BY <2>2, <2>3, ApartStaysApart
  <2> QED BY <2>1, <2>3
<1>3. Inv => (None => Undisturbed)
  OBVIOUS
<1> HIDE DEF None, Inv
<1>4. ObjSpec => [](None => Undisturbed)
  BY <1>1, <1>2, <1>3, PTL DEF ObjSpec
<1> QED BY <1>4 DEF None

\* The variables of the scheduler and of all objects keep their types, whatever calls,
\* interrupts, suspensions and deletions come together, until one of these leaves
\* interrupts disabled.
THEOREM ObjectsTypeCorrect == ObjSpec => [](Undisturbed => ObjTypeOK)
<1>1. ASSUME Undisturbed, Undisturbed => ObjInv PROVE ObjTypeOK
  <2>1. TypeOK
    BY <1>1, IInvImplies DEF ObjInv, BaseOK
  <2>2. CallsTypeOK
    BY <1>1, <2>1 DEF ObjInv, BaseOK, CallsOK, CallsTypeOK, Interrupts
  <2>3. MutexTypeOK
    BY <1>1 DEF ObjInv, MutexOK, MutexesOK, MutexLists, MutexTypeOK
  <2> QED BY <1>1, <2>2, <2>3 DEF ObjInv, EventOK, PoolOK, AppOK, ObjTypeOK
<1> QED BY <1>1, ObjInvAlways, PTL

\* The ready list, the timeout list and the wait queues of all objects agree with the
\* states of the tasks, with every object's own ways of ending a wait, as long as no
\* deletion has left interrupts disabled (after which a wait returns at once).
THEOREM ObjectsListsMatch == ObjSpec => []ObjListsMatch
<1>1. (Undisturbed => ObjInv) => ObjListsMatch
  BY IInvImplies DEF ObjInv, BaseOK, ObjListsMatch
<1> QED BY <1>1, ObjInvAlways, PTL

\* No task goes on waiting for flags that the event has (kern_event.c's set, clear and
\* wait, the tick's scan and the event's deletion), while no deletion of a semaphore or a
\* pool has left interrupts disabled.
THEOREM EventsNeverMissed == ObjSpec => []NoEventMissed
<1>1. (Undisturbed => ObjInv) => NoEventMissed
  BY DEF ObjInv, EventOK, NoFlagMissed, NoEventMissed
<1> QED BY <1>1, ObjInvAlways, PTL

\* No block lies idle while a task waits for one (kern_fmem_get and kern_fmem_release),
\* while no deletion has left interrupts disabled.
THEOREM BlocksNeverIdle == ObjSpec => []NoBlockIdle
<1>1. (Undisturbed => ObjInv) => NoBlockIdle
  BY DEF ObjInv, PoolOK, NoBlockLies, NoBlockIdle
<1> QED BY <1>1, ObjInvAlways, PTL

\* Every block is in the free list, with the one caller it was returned to or with the one
\* task it was handed to, and fblkcnt counts the free ones, while no deletion has left
\* interrupts disabled (behind one kern_fmem_get reports success without a block).
THEOREM BlocksAlwaysConserved == ObjSpec => []BlocksConserved
<1>1. ASSUME Undisturbed => ObjInv PROVE BlocksConserved
  <2> SUFFICES ASSUME Undisturbed, ~Deleted(Pool), NEW b \in Block
               PROVE  /\ Len(free_list) = fblkcnt
                      /\ (IF b \in ToSet(free_list) THEN 1 ELSE 0)
                         + Cardinality({o \in DOMAIN owned : b \in owned[o]})
                         + Cardinality({t \in Task : b \in Handed(t)}) = 1
    BY <1>1 DEF BlocksConserved, ObjInv, PoolOK
  <2>1. OnePlace(b) /\ Len(free_list) = fblkcnt /\ DOMAIN owned = BlockOwners
    BY <1>1 DEF ObjInv, PoolOK, BlocksOK, FmemTypeOK, BlockOwners
  <2>2. {o \in DOMAIN owned : b \in owned[o]} = Owning(b)
    BY <2>1 DEF Owning
  <2>3. {t \in Task : b \in Handed(t)} = Handing(b)
    BY DEF Handing, Handed, Got
  <2>4. Cardinality({}) = 0 /\ \A x : Cardinality({x}) = 1
    BY FS_EmptySet, FS_Singleton
  <2>5. PICK n : n = IF b \in ToSet(free_list) THEN 1 ELSE 0
    OBVIOUS
  <2>6. PICK o : o = Cardinality(Owning(b))
    OBVIOUS
  <2>7. PICK h : h = Cardinality(Handing(b))
    OBVIOUS
  <2>8. n + o + h = 1
    <3>1. CASE b \in ToSet(free_list) /\ Owning(b) = {} /\ Handing(b) = {}
      <4>1. n = 1 /\ o = 0 /\ h = 0
        BY <2>4, <2>5, <2>6, <2>7, <3>1
      <4> QED BY <4>1
    <3>2. CASE /\ b \notin ToSet(free_list) /\ Handing(b) = {}
               /\ \E w \in BlockOwners : Owning(b) = {w}
      <4>1. n = 0 /\ o = 1 /\ h = 0
        BY <2>4, <2>5, <2>6, <2>7, <3>2
      <4> QED BY <4>1
    <3>3. CASE b \notin ToSet(free_list) /\ Owning(b) = {} /\ \E t \in Task : Handing(b) = {t}
      <4>1. n = 0 /\ o = 0 /\ h = 1
        BY <2>4, <2>5, <2>6, <2>7, <3>3
      <4> QED BY <4>1
    <3> QED BY <2>1, <3>1, <3>2, <3>3 DEF OnePlace
  <2>9. (IF b \in ToSet(free_list) THEN 1 ELSE 0) + Cardinality(Owning(b)) + Cardinality(Handing(b)) = 1
    BY <2>5, <2>6, <2>7, <2>8
  <2> QED BY <2>1, <2>2, <2>3, <2>9
<1> QED BY <1>1, ObjInvAlways, PTL

\* The list of blocked tasks holds tasks that wait for a mutex, once each, while no
\* deletion of a semaphore or a pool has left interrupts disabled.
THEOREM BlockedListTrue == ObjSpec => []BlockedTasksWait
<1>1. (Undisturbed => ObjInv) => BlockedTasksWait
  BY DEF ObjInv, MutexOK, MutexesOK, BlockedOK, BlockedTasksWait
<1> QED BY <1>1, ObjInvAlways, PTL

\* Who has locked a mutex has it in its list, and only its holder has.
LEMMA OwnersHaveIt ==
  ASSUME ObjInv, NEW q \in Mutex, ~Deleted(q)
  PROVE  /\ \A t \in Task : t \in Owners(q) <=> q \in ToSet(mx.held[t])
         /\ \A t \in Owners(q) : t \in Task /\ mx.holder[q] = t /\ q \in ToSet(mx.locked)
         /\ q \in ToSet(mx.locked) <=> Owners(q) # {}
<1>1. LockOK(q) /\ LocksOK(mx)
  BY DEF ObjInv, MutexOK, MutexesOK
<1>2. \A t \in Task : t \in Owners(q) <=> q \in own[t] \/ Got(t, q)
  BY DEF Owners, Got
<1>3. \A t \in Owners(q) : t \in Task
  BY DEF Owners
<1>4. \A t \in Task : t \in Owners(q) <=> q \in ToSet(mx.held[t])
  BY <1>1, <1>2 DEF LockOK
<1>5. \A t \in Owners(q) : mx.holder[q] = t /\ q \in ToSet(mx.locked)
  BY <1>1, <1>3, <1>4 DEF LocksOK
<1>6. ASSUME q \in ToSet(mx.locked) PROVE Owners(q) # {}
  <2>1. PICK t \in Task : q \in ToSet(mx.held[t])
    BY <1>1, <1>6 DEF LocksOK
  <2> QED BY <1>4, <2>1
<1> QED BY <1>3, <1>4, <1>5, <1>6

\* At most one task has locked a mutex, it is the holder, and the lists say so, whether
\* the mutex was locked at once, handed on by its holder or passed on when a ceiling fell,
\* while no deletion of a semaphore or a pool has left interrupts disabled.
THEOREM AlwaysOneOwner == ObjSpec => []OneOwner
<1>1. ASSUME Undisturbed => ObjInv PROVE OneOwner
  <2> SUFFICES ASSUME Undisturbed, NEW q \in Mutex, ~Deleted(q)
               PROVE  /\ Cardinality(Owners(q)) <= 1
                      /\ \A t \in Task : t \in Owners(q) <=> q \in ToSet(mx.held[t])
                      /\ \A t \in Owners(q) : mx.holder[q] = t
                      /\ q \in ToSet(mx.locked) <=> Owners(q) # {}
    BY DEF OneOwner
  <2>1. /\ \A t \in Task : t \in Owners(q) <=> q \in ToSet(mx.held[t])
        /\ \A t \in Owners(q) : mx.holder[q] = t
        /\ q \in ToSet(mx.locked) <=> Owners(q) # {}
    BY <1>1, OwnersHaveIt
  <2>2. Cardinality({}) = 0 /\ \A x : Cardinality({x}) = 1
    BY FS_EmptySet, FS_Singleton
  <2>3. Owners(q) = {} \/ Owners(q) = {mx.holder[q]}
    BY <2>1
  <2>4. Cardinality(Owners(q)) = 0 \/ Cardinality(Owners(q)) = 1
    BY <2>2, <2>3
  <2>5. Cardinality(Owners(q)) <= 1
    BY <2>4
  <2> QED BY <2>1, <2>5
<1> QED BY <1>1, ObjInvAlways, PTL

\* While a task waits for a mutex with priority inheritance, another has it, who will
\* unlock it, while no deletion of a semaphore or a pool has left interrupts disabled.
THEOREM WaitersHaveHolders == ObjSpec => []WaitedForIsLocked
<1>1. ASSUME Undisturbed => ObjInv PROVE WaitedForIsLocked
  <2> SUFFICES ASSUME Undisturbed, NEW q \in Mutex, ~Deleted(q), ~Ceiling(q), k.wq[q] # << >>
               PROVE  Owners(q) # {}
    BY DEF WaitedForIsLocked
  <2>1. q \in Queue /\ SchedOK(k) /\ LockOK(q) /\ BlockersOK(k, mx)
    BY <1>1, QueuesApart DEF ObjInv, BaseOK, IInv, KernelOK, MutexOK, MutexesOK
  <2>2. PICK t \in Task : k.pwait[t] = q
    BY <2>1, QueueIsWaiters
  <2>3. k.reason[t] \in {"MUTEX_C", "MUTEX_I"}
    BY <2>1, <2>2 DEF BlockersOK, MutexReasons
  <2>4. mx.holder[q] # NoTask
    BY <2>1, <2>2, <2>3, MutexAssumption DEF BlockersOK
  <2>5. q \in ToSet(mx.locked)
    BY <2>1, <2>4 DEF LockOK, Known
  <2> QED BY <1>1, <2>5, OwnersHaveIt
<1> QED BY <1>1, ObjInvAlways, PTL
=============================================================================
