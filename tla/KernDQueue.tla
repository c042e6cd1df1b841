------------------------------ MODULE KernDQueue ------------------------------
(***************************************************************************)
(* A data queue: the part of src/kern/kern_queue.c from dque_fifo_write on *)
(* over the scheduler, the tick and the context switch of KernTasks. Of    *)
(* the calls that manage tasks, creation and suspension are here.          *)
(* Deletion, of a queue or a task, is not.                                 *)
(*                                                                         *)
(* A call that waits has a second half, which runs with interrupts enabled *)
(* when the task is switched to again: it takes data_elem and              *)
(* task_wait_rc from the task's TCB. at[t] says that it is to come.        *)
(*                                                                         *)
(* The code leaves a datum where it was when somebody has taken it. Here   *)
(* NoItem takes its place, so that using it again is an error.             *)
(***************************************************************************)
EXTENDS KernStart

CONSTANTS
  Item,         \* what data_ptr points to
  NoItem,
  Sizes,        \* the values of num_entries, 0 for a queue without storage
  SendList,     \* the wait queues wait_send_list
  ReceiveList   \* and wait_receive_list

ASSUME DQueueAssumption ==
  /\ NoItem \notin Item /\ Sizes \subseteq Nat
  /\ SendList # ReceiveList /\ Queue = {SendList, ReceiveList}
  /\ NoQueue \notin Task

VARIABLES
  dque,     \* num_entries, data_fifo, header_cnt and tail_cnt of the _DQUE
  elem,     \* data_elem of the TCBs
  at,       \* the call whose second half a task still has to run, or "none"
  received  \* what the step has stored at data_ptr for a receive that succeeds, or NoItem

dqvars == << vars, dque, elem, at, received >>

\* kern_queue_create.
DQInit ==
  /\ Init
  /\ \E n \in Sizes : dque = [num |-> n, fifo |-> [i \in 0..n-1 |-> NoItem],
                              header |-> 0, tail |-> 0]
  /\ elem = [t \in Task |-> NoItem] /\ at = [t \in Task |-> "none"] /\ received = NoItem
-----------------------------------------------------------------------------
\* A queue without storage is full and empty.
Full(d) == \/ d.num = 0
           \/ d.tail = 0 /\ d.header = d.num - 1
           \/ d.header = d.tail - 1

Empty(d) == d.num = 0 \/ d.tail = d.header

\* (Wrong: the counter would start over one entry too late.)
Advance_Late(d, i) == IF i >= d.num THEN 0 ELSE i + 1

Advance(d, i) == IF i + 1 >= d.num THEN 0 ELSE i + 1

\* They leave the queue as it is if it is full, or empty.
dque_fifo_write(d, x) ==
  IF Full(d) THEN d
  ELSE [d EXCEPT !.fifo[d.header] = x, !.header = Advance(d, d.header)]

dque_fifo_read(d) ==
  IF Empty(d) THEN d ELSE [d EXCEPT !.fifo[d.tail] = NoItem, !.tail = Advance(d, d.tail)]
-----------------------------------------------------------------------------
Senders   == k.wq[SendList]
Receivers == k.wq[ReceiveList]

Ends(t) == k' = task_wait_complete(k, t)

\* The first receiver that waits gets the datum.
HandOver(x) ==
  /\ Receivers # << >>
  /\ elem' = [elem EXCEPT ![Head(Receivers)] = x]
  /\ Ends(Head(Receivers))
  /\ UNCHANGED dque

\* (Wrong: the datum would be stored although somebody waits for one.)
Store_NoTest(x) ==
  /\ ~Full(dque)
  /\ dque' = dque_fifo_write(dque, x)
  /\ UNCHANGED << k, elem >>

\* Nobody waits for it, and there is room.
Store(x) ==
  /\ Receivers = << >> /\ ~Full(dque)
  /\ dque' = dque_fifo_write(dque, x)
  /\ UNCHANGED << k, elem >>

\* The first sender that waits is relieved of its datum.
Relieve ==
  /\ elem' = [elem EXCEPT ![Head(Senders)] = NoItem]
  /\ Ends(Head(Senders))

\* (Wrong: the sender's wait would end, but its datum not fill the gap.)
ReceiveStored_NoRefill ==
  /\ ~Empty(dque)
  /\ received' = dque.fifo[dque.tail]
  /\ dque' = dque_fifo_read(dque)
  /\ IF Senders # << >> THEN Relieve ELSE UNCHANGED << k, elem >>

\* A datum is taken from the storage, and that of the first sender fills the gap.
ReceiveStored ==
  /\ ~Empty(dque)
  /\ received' = dque.fifo[dque.tail]
  /\ IF Senders # << >>
     THEN dque' = dque_fifo_write(dque_fifo_read(dque), elem[Head(Senders)]) /\ Relieve
     ELSE dque' = dque_fifo_read(dque) /\ UNCHANGED << k, elem >>

\* Without storage it is taken from the sender itself.
ReceiveDirect ==
  /\ Empty(dque) /\ Senders # << >>
  /\ received' = elem[Head(Senders)]
  /\ Relieve
  /\ UNCHANGED dque

Receive == ReceiveStored \/ ReceiveDirect

\* How a call ends that may have made a task ready, and the same for a handler.
Woken == \E t \in Task : k.state[t] = "WAIT" /\ k'.state[t] = "RUNNABLE"

CallEnds    == (IF Woken THEN Switches ELSE Returns) /\ UnchangedTasks
HandlerEnds == request' = (request \/ Woken) /\ InterruptExit
-----------------------------------------------------------------------------
\* A task makes a new call once its last one has returned.
Begins == Calls(curr) /\ at[curr] = "none"

Waits(list, reason, timeout) ==
  /\ MayStop(curr)
  /\ k' = task_curr_to_wait_action(k, curr, list, reason, timeout)
  /\ Switches /\ UnchangedTasks /\ UNCHANGED dque /\ received' = NoItem

kern_queue_send(x, timeout) ==
  /\ Begins
  /\ \/ (HandOver(x) \/ Store(x)) /\ CallEnds /\ UNCHANGED at /\ received' = NoItem
     \/ /\ Receivers = << >> /\ Full(dque)
        /\ elem' = [elem EXCEPT ![curr] = x]
        /\ at' = [at EXCEPT ![curr] = "send"]
        /\ Waits(SendList, "DQUE_WSEND", timeout)

\* Without room or a receiver they return ERR_TIMEOUT and change nothing.
kern_queue_send_polling(x) ==
  Begins /\ (HandOver(x) \/ Store(x)) /\ CallEnds /\ UNCHANGED at /\ received' = NoItem

kern_queue_isend_polling(x) ==
  (HandOver(x) \/ Store(x)) /\ HandlerEnds /\ UNCHANGED at /\ received' = NoItem

kern_queue_receive(timeout) ==
  /\ Begins
  /\ \/ Receive /\ CallEnds /\ UNCHANGED at
     \/ /\ Empty(dque) /\ Senders = << >>
        /\ at' = [at EXCEPT ![curr] = "receive"]
        /\ Waits(ReceiveList, "DQUE_WRECEIVE", timeout)
        /\ UNCHANGED elem

kern_queue_receive_polling == Begins /\ Receive /\ CallEnds /\ UNCHANGED at

kern_queue_ireceive == Receive /\ HandlerEnds /\ UNCHANGED at

\* The second half of a call that has waited: *data_ptr = data_elem for a receive,
\* and the return of task_wait_rc.
AfterWait ==
  /\ Calls(curr) /\ at[curr] # "none"
  /\ at' = [at EXCEPT ![curr] = "none"]
  /\ received' = IF at[curr] = "receive" /\ k.rc[curr] = "NO_ERR" THEN elem[curr] ELSE NoItem
  /\ elem' = [elem EXCEPT ![curr] = NoItem]
  /\ Returns /\ UnchangedTasks /\ UNCHANGED << k, dque >>
-----------------------------------------------------------------------------
DQUnchanged == UNCHANGED << dque, elem, at >> /\ received' = NoItem

DQNext ==
  \/ \E x \in Item, timeout \in Timeouts : kern_queue_send(x, timeout)
  \/ \E x \in Item : kern_queue_send_polling(x) \/ kern_queue_isend_polling(x)
  \/ \E timeout \in Timeouts : kern_queue_receive(timeout)
  \/ kern_queue_receive_polling
  \/ kern_queue_ireceive
  \/ AfterWait
  \/ Begins /\ CreatesNext /\ DQUnchanged
  \/ \E t \in Suspendable : Begins /\ kern_task_suspend(t) /\ DQUnchanged
  \/ \E t \in Suspendable : Begins /\ kern_task_resume(t) /\ DQUnchanged
  \/ TestNext /\ DQUnchanged
  \/ SwitchContext /\ DQUnchanged
  \/ PendSV /\ DQUnchanged
  \/ SysTick /\ DQUnchanged

DQSpec == DQInit /\ [][DQNext]_dqvars
-----------------------------------------------------------------------------
(* Properties *)

DQTypeOK ==
  /\ TypeOK
  /\ dque.num \in Sizes
  /\ dque.fifo \in [0..dque.num-1 -> Item \cup {NoItem}]
  /\ dque.num > 0 => dque.header \in 0..dque.num-1 /\ dque.tail \in 0..dque.num-1
  /\ elem \in [Task -> Item \cup {NoItem}]
  /\ at \in [Task -> {"none", "send", "receive"}]
  /\ received \in Item \cup {NoItem}

\* Nobody waits for what is there: a sender waits only while the storage is full, a
\* receiver only while it is empty, and never both, whichever calls, timeouts,
\* suspensions and interrupts came between.
NoneWaitsInVain ==
  /\ Senders # << >> => Full(dque) /\ Receivers = << >>
  /\ Receivers # << >> => Empty(dque)

(***************************************************************************)
(* The data queue is the channel KernFifo describes, of one datum less     *)
(* than num_entries: its data are those between tail_cnt and header_cnt    *)
(* and then those of the senders that wait; a receiver has been handed a   *)
(* datum when its wait is over with ERR_NO_ERR, and waited in vain when it *)
(* is over with another code.                                              *)
(***************************************************************************)
Stored ==
  LET n == IF Empty(dque) THEN 0
           ELSE (dque.header - dque.tail + dque.num) % dque.num
  IN  [i \in 1..n |-> [item |-> dque.fifo[(dque.tail + i - 1) % dque.num], from |-> NoQueue]]

Offered == [i \in DOMAIN Senders |-> [item |-> elem[Senders[i]], from |-> Senders[i]]]

WaitOver(t) == at[t] # "none" /\ ~Waiting(k.state[t])

Fifo == INSTANCE KernFifo WITH
  Caller   <- Task,
  Nobody   <- NoQueue,
  cap      <- IF dque.num = 0 THEN 0 ELSE dque.num - 1,
  chan     <- Stored \o Offered,
  asking   <- Receivers,
  given    <- [t \in Task |-> IF WaitOver(t) /\ at[t] = "receive" /\ k.rc[t] = "NO_ERR"
                              THEN elem[t] ELSE NoItem],
  failed   <- {t \in Task : WaitOver(t) /\ k.rc[t] # "NO_ERR"}

\* Data arrive once and in order, a send that reports success has had its datum
\* accepted and one that reports a timeout has taken it back, and a receive returns
\* the datum it was handed, whatever happens before the receiver runs again.
ImplementsFifo == Fifo!Spec
=============================================================================
