------------------------------- MODULE KernCalls -------------------------------
(***************************************************************************)
(* What the calls of the kernel objects have in common (kern_event.c,      *)
(* kern_mem.c, kern_mutex.c and kern_sem.c), where their interrupts are    *)
(* enabled in between and another task may come in:                        *)
(*                                                                         *)
(*   - a call tests the object's magic number before it disables interrupts*)
(*   - a call that waits has a second half, which takes what the wait has  *)
(*     brought from the TCB when the task runs again;                      *)
(*   - a deletion ends the waits in a loop that enables interrupts and     *)
(*     switches for every task it makes ready.                             *)
(*                                                                         *)
(* An object is named by its wait queue, its first field. It is deleted by *)
(* the task that has created it.                                           *)
(***************************************************************************)
EXTENDS KernStart

VARIABLES
  exists, \* exists[q]: the object still has its magic number (id_event, id_fmp, ...)
  at,     \* at[t]: the part of a call the task t is at, and the call's object
  irq     \* interrupts between the calls

callvars == << exists, at, irq >>

\* A deletion may leave interrupts disabled, "masked", and a later one enable them again,
\* "restored".
Interrupts == {"enabled", "masked", "restored"}
masked     == irq = "masked"

\* No deletion has left them disabled. What the kernel promises of its objects, it promises
\* as long as that is so.
Undisturbed == irq = "enabled"

\* "code": in no call. "entered": the magic number has been tested. "waited": in
\* the second half. The others are places of a deletion: before the test of the
\* wait queue, and behind it with the queue not empty, or empty; "again" and "over" stand
\* for the first and the last when the call has already saved that interrupts were disabled.
Parts == {"code", "entered", "waited", "delete", "remove", "finish", "again", "over"}

Code == [part |-> "code", obj |-> NoQueue]

At(part, q)   == Calls(curr) /\ at[curr] = [part |-> part, obj |-> q]
Goes(part, q) == at' = [at EXCEPT ![curr] = [part |-> part, obj |-> q]]
Done          == at' = [at EXCEPT ![curr] = Code]

\* Nothing of the objects but at changes, or not even that.
SameObjects == UNCHANGED << exists, irq >>

CallsInit(objects) ==
  /\ exists = [q \in Queue |-> q \in objects]
  /\ at = [t \in Task |-> Code]
  /\ irq = "enabled"

\* if (id != ...) return ERR_NOEXS;
Enter(q) ==
  /\ Calls(curr) /\ at[curr] = Code /\ exists[q]
  /\ Goes("entered", q)
  /\ Returns /\ UnchangedTasks /\ SameObjects /\ UNCHANGED k

\* A call that takes effect at once and never waits.
Quick(q) == At("entered", q) /\ Done /\ UnchangedTasks /\ SameObjects

(***************************************************************************)
(* While interrupts are disabled a task that begins to wait runs on. What  *)
(* it would do by waiting once more is not modelled: it would be taken out *)
(* of a wait queue, the walk for the next task would go on from there and  *)
(* count up words behind the object the queue belongs to.                  *)
(***************************************************************************)
MayWait == MayStop(curr) /\ k.state[curr] = "RUNNABLE"

Waits(q, reason, timeout) ==
  /\ MayWait
  /\ k' = task_curr_to_wait_action(k, curr, q, reason, timeout)
  /\ Goes("waited", q)
  /\ Switches /\ UnchangedTasks /\ SameObjects

\* The second half of a call that has waited.
SecondHalf(q) == At("waited", q) /\ Done /\ Returns /\ UnchangedTasks /\ SameObjects /\ UNCHANGED k

\* How a call ends that may have made a task ready, and the same for a handler.
Woken == \E t \in Task : k.state[t] = "WAIT" /\ k'.state[t] = "RUNNABLE"
CallEnds    == IF Woken THEN Switches ELSE Returns

\* What the handlers of interrupts need.
Handler(q) == ~masked /\ exists[q] /\ InterruptExit /\ UNCHANGED callvars
-----------------------------------------------------------------------------
(***************************************************************************)
(* Deletion. With interrupts disabled the loop ends the wait of the task   *)
(* at the head of the queue, until task_wait_complete reports that one has *)
(* become ready, for whom it sets ERR_DLT and switches, or none is left    *)
(* and the object is gone. `n` is the number of waits ended, `ready` tells *)
(* how the loop was left.                                                  *)
(*                                                                         *)
(* Where the loop disables interrupts without looking whether they are     *)
(* (`blind`), its second iteration in a row saves the disabled state, and  *)
(* they stay disabled. A deletion that does look saves nothing when they   *)
(* are disabled, and enables them by restoring the zero its variable began *)
(* with. A PendSV pended meanwhile comes then: while interrupts are        *)
(* disabled it is `request` alone that tells of it.                        *)
(***************************************************************************)
Enables ==
  /\ irq'  = IF masked THEN "restored" ELSE irq
  /\ pend' = (pend \/ (masked /\ request))

Deletes(q) ==
  /\ Calls(Main) /\ at[Main] = Code /\ exists[q]
  /\ Goes("delete", q)
  /\ Returns /\ UnchangedTasks /\ SameObjects /\ UNCHANGED k

DeleteTest(q) ==
  /\ \/ At("delete", q) /\ Goes(IF k.wq[q] = << >> THEN "finish" ELSE "remove", q)
     \/ At("again", q)  /\ Goes(IF k.wq[q] = << >> THEN "over" ELSE "remove", q)
  /\ Returns /\ UnchangedTasks /\ SameObjects /\ UNCHANGED k

\* (Wrong: the loop would save the disabled state in its first iteration already.)
LeavesDisabled_AfterOne(n) == irq' = (IF n > 0 THEN "masked" ELSE irq) /\ UNCHANGED pend

\* A queue emptied since the test has no head, and task_wait_complete(NULL) does nothing.
LeavesDisabled(n) == irq' = (IF n > 1 THEN "masked" ELSE irq) /\ UNCHANGED pend

DeleteRemoves(q, n, ready, blind) ==
  /\ At("remove", q)
  /\ IF blind THEN LeavesDisabled(n) ELSE Enables
  /\ IF ready
     THEN Goes(IF irq' = "masked" THEN "again" ELSE "delete", q) /\ cpu' = "yield" /\ UNCHANGED exists
     ELSE Done /\ exists' = [exists EXCEPT ![q] = FALSE] /\ UNCHANGED cpu
  /\ UnchangedTasks /\ UNCHANGED << curr, sp, request, us_count >>

DeleteFinishes(q) ==
  /\ \/ At("finish", q) /\ Enables
     \/ At("over", q) /\ UNCHANGED << irq, pend >>
  /\ Done /\ exists' = [exists EXCEPT ![q] = FALSE]
  /\ UnchangedTasks /\ UNCHANGED << k, curr, cpu, sp, request, us_count >>

\* task_wait_complete for each of the tasks w.
EndWaits(s, w) ==
  LET ends[i \in 0..Len(w)] == IF i = 0 THEN s ELSE task_wait_complete(ends[i-1], w[i])
  IN  ends[Len(w)]

\* (Wrong: the tasks would be unlinked, but go on waiting.)
EndsForDeletion_Unlinks(q) == [k EXCEPT !.wq[q] = << >>]

\* The waiters up to the first that is not suspended are served.
EndsForDeletion(q) ==
  LET w     == k.wq[q]
      ready == {i \in DOMAIN w : ~Suspended(k.state[w[i]])}
  IN  IF ready = {} THEN EndWaits(k, w)
      ELSE [EndWaits(k, SubSeq(w, 1, Min(ready))) EXCEPT !.rc[w[Min(ready)]] = "DLT"]

\* The deletion of an object that has nothing but waiters.
DeletionStep(q, blind) ==
  \/ Deletes(q)
  \/ DeleteTest(q)
  \/ /\ k' = EndsForDeletion(q)
     /\ DeleteRemoves(q, Len(k.wq[q]) - Len(k'.wq[q]), Woken, blind)
  \/ DeleteFinishes(q)

\* A deletion of the object has begun or it is gone.
Deleted(q) == ~exists[q] \/ \E t \in Task : at[t].obj = q /\ at[t].part \in {"delete", "remove", "finish", "again", "over"}

CallsTypeOK ==
  /\ TypeOK
  /\ exists \in [Queue -> BOOLEAN]
  /\ at \in [Task -> [part : Parts, obj : Queue \cup {NoQueue}]]
  /\ irq \in Interrupts
=============================================================================
