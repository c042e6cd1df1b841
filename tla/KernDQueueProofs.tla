--------------------------- MODULE KernDQueueProofs ---------------------------
(***************************************************************************)
(* The proofs that at a data queue nobody waits in vain, and that it is a  *)
(* bounded first in first out channel (KernFifo), for every number of      *)
(* tasks and of entries. KernTasksProofs gives what the scheduler, the     *)
(* tick and the switch do; the calls of the data queue are new.            *)
(*                                                                         *)
(* The channel is what the ring holds, from tail_cnt to header_cnt, and    *)
(* then what the senders that wait offer. First come lemmas on these       *)
(* sequences; then what the tick does to the order of those who wait; then *)
(* one lemma per step of the queue; and last the refinement.               *)
(***************************************************************************)
EXTENDS KernDQueue, KernTasksProofs

Data == Item \cup {NoItem}

\* The _DQUE: the counters stay inside the ring.
RingOK(d) ==
  /\ d = [num |-> d.num, fifo |-> d.fifo, header |-> d.header, tail |-> d.tail]
  /\ d.num \in Nat /\ d.fifo \in [0..d.num-1 -> Data]
  /\ d.num > 0 => d.header \in 0..d.num-1 /\ d.tail \in 0..d.num-1

ObjectOK ==
  /\ RingOK(dque) /\ dque.num \in Sizes
  /\ elem \in [Task -> Data]
  /\ at \in [Task -> {"none", "send", "receive"}]
  /\ received \in Data

DQInv == IInv /\ ObjectOK /\ NoneWaitsInVain

LEMMA DQInvImplies == DQInv => DQTypeOK /\ NoneWaitsInVain
BY IInvImplies DEF DQInv, ObjectOK, RingOK, DQTypeOK, Data
-----------------------------------------------------------------------------
(* The ring *)

LEMMA WriteKeepsRing ==
  ASSUME NEW d, RingOK(d), NEW x \in Data, NEW r, r = dque_fifo_write(d, x)
  PROVE  RingOK(r) /\ r.num = d.num
<1>1. CASE Full(d)
  BY <1>1 DEF dque_fifo_write
<1>2. CASE ~Full(d)
  <2>1. d.num \in Nat \ {0} /\ d.header \in 0..d.num-1 /\ d.tail \in 0..d.num-1
    BY <1>2 DEF RingOK, Full
  <2>2. [d.fifo EXCEPT ![d.header] = x] \in [0..d.num-1 -> Data]
    BY <2>1 DEF RingOK
  <2>3. Advance(d, d.header) \in 0..d.num-1
    BY <2>1 DEF Advance
  <2>4. r = [num |-> d.num, fifo |-> [d.fifo EXCEPT ![d.header] = x],
             header |-> Advance(d, d.header), tail |-> d.tail]
    BY <1>2 DEF dque_fifo_write, RingOK
  <2> QED BY <2>1, <2>2, <2>3, <2>4 DEF RingOK
<1> QED BY <1>1, <1>2

LEMMA ReadKeepsRing ==
  ASSUME NEW d, RingOK(d), NEW r, r = dque_fifo_read(d)
  PROVE  RingOK(r) /\ r.num = d.num
<1>1. CASE Empty(d)
  BY <1>1 DEF dque_fifo_read
<1>2. CASE ~Empty(d)
  <2>1. d.num \in Nat \ {0} /\ d.header \in 0..d.num-1 /\ d.tail \in 0..d.num-1
    BY <1>2 DEF RingOK, Empty
  <2>2. [d.fifo EXCEPT ![d.tail] = NoItem] \in [0..d.num-1 -> Data]
    BY <2>1 DEF RingOK, Data
  <2>3. Advance(d, d.tail) \in 0..d.num-1
    BY <2>1 DEF Advance
  <2>4. r = [num |-> d.num, fifo |-> [d.fifo EXCEPT ![d.tail] = NoItem],
             header |-> d.header, tail |-> Advance(d, d.tail)]
    BY <1>2 DEF dque_fifo_read, RingOK
  <2> QED BY <2>1, <2>2, <2>3, <2>4 DEF RingOK
<1> QED BY <1>1, <1>2

\* The datum of a waiting sender fills the gap that the one taken leaves: the ring
\* is full again, wherever its counters are.
LEMMA RefillFills ==
  ASSUME NEW d, RingOK(d), Full(d), ~Empty(d), NEW x,
         NEW r, r = dque_fifo_write(dque_fifo_read(d), x)
  PROVE  Full(r)
<1> DEFINE m == dque_fifo_read(d)
<1>1. /\ d.num \in Nat \ {0} /\ d.header \in 0..d.num-1 /\ d.tail \in 0..d.num-1
      /\ d.tail # d.header
  BY DEF RingOK, Empty
<1>2. d.num > 1 /\ (d.header = d.tail - 1 \/ (d.tail = 0 /\ d.header = d.num - 1))
  BY <1>1 DEF Full
<1>3. m = [num |-> d.num, fifo |-> [d.fifo EXCEPT ![d.tail] = NoItem],
           header |-> d.header, tail |-> Advance(d, d.tail)]
  BY DEF dque_fifo_read, RingOK
<1> HIDE DEF m
<1>4. ~Full(m) /\ m.num = d.num /\ m.header = d.header /\ m.tail = Advance(d, d.tail)
  BY <1>1, <1>2, <1>3 DEF Full, Advance
<1>5. r.num = d.num /\ r.header = Advance(m, d.header) /\ r.tail = Advance(d, d.tail)
  <2>1. r = [m EXCEPT !.fifo[m.header] = x, !.header = Advance(m, m.header)]
    BY <1>4 DEF dque_fifo_write, m
  <2> QED BY <1>3, <1>4, <2>1
<1> QED BY <1>1, <1>2, <1>4, <1>5 DEF Full, Advance
-----------------------------------------------------------------------------
(* The queues of waiting tasks *)

\* A step by which nobody joins a wait queue and the ring stays as it is.
LEMMA NobodyWaitsMore ==
  ASSUME NoneWaitsInVain, NobodyJoins(k, k'), dque' = dque
  PROVE  NoneWaitsInVain'
BY DQueueAssumption DEF NoneWaitsInVain, Senders, Receivers, NobodyJoins

LEMMA CallEndsKeeps ==
  ASSUME IInv, Calls(curr), EndsWait, CallEnds
  PROVE  IInv'
BY EndingCallKeeps DEF CallEnds

LEMMA HandlerEndsKeeps ==
  ASSUME IInv, EndsWait, HandlerEnds
  PROVE  IInv'
<1>1. InterruptExit /\ request' \in BOOLEAN /\ (request => request')
  BY DEF HandlerEnds
<1> QED BY <1>1, EndingHandlerKeeps
-----------------------------------------------------------------------------
(* What a datum that is offered, or taken, does to the object *)

LEMMA OfferKeeps ==
  ASSUME DQInv, NEW x \in Item, HandOver(x) \/ Store(x)
  PROVE  /\ EndsWait /\ NoneWaitsInVain'
         /\ RingOK(dque') /\ dque'.num = dque.num /\ elem' \in [Task -> Data]
<1>1. /\ IInv /\ NoneWaitsInVain /\ RingOK(dque) /\ elem \in [Task -> Data] /\ x \in Data
      /\ SendList \in Queue /\ ReceiveList \in Queue
  BY DQueueAssumption DEF DQInv, ObjectOK, Data
<1>2. CASE HandOver(x)
  <2> DEFINE t == Head(Receivers)
  <2>1. t \in Task /\ Waiting(k.state[t]) /\ id_task[t]
    BY <1>1, <1>2, QueuedWaits, NobodyEnds DEF HandOver, Receivers
  <2> HIDE DEF t
  <2>2. k' = task_wait_complete(k, t) /\ elem' = [elem EXCEPT ![t] = x] /\ dque' = dque
    BY <1>2 DEF HandOver, Ends, t
  <2>3. EndsWait
    BY <2>1, <2>2 DEF EndsWait
  <2>4. NoneWaitsInVain'
    BY <1>1, <2>2, <2>3, EndedWaitJoinsNone, NobodyWaitsMore
  <2>5. elem' \in [Task -> Data]
    BY <1>1, <2>1, <2>2
  <2> QED BY <1>1, <2>2, <2>3, <2>4, <2>5
<1>3. CASE Store(x)
  <2>1. k' = k /\ elem' = elem /\ dque' = dque_fifo_write(dque, x)
    BY <1>3 DEF Store
  <2>2. RingOK(dque') /\ dque'.num = dque.num
    BY <1>1, <2>1, WriteKeepsRing
  <2>3. Senders = << >> /\ Receivers = << >>
    BY <1>1, <1>3 DEF Store, NoneWaitsInVain
  <2>4. NoneWaitsInVain'
    BY <2>1, <2>3 DEF NoneWaitsInVain, Senders, Receivers
  <2> QED BY <1>1, <2>1, <2>2, <2>4 DEF EndsWait
<1> QED BY <1>2, <1>3

\* The first sender that waits is relieved.
LEMMA RelieveEnds ==
  ASSUME IInv, Senders # << >>, elem \in [Task -> Data], Relieve
  PROVE  /\ EndsWait /\ elem' \in [Task -> Data] /\ elem[Head(Senders)] \in Data
         /\ Senders \in Seq(Task)
<1> DEFINE t == Head(Senders)
<1>1. SendList \in Queue /\ Senders \in Seq(Task)
  BY DQueueAssumption DEF IInv, KernelOK, SchedOK, Sched, Senders
<1>2. t \in Task /\ Waiting(k.state[t]) /\ id_task[t]
  BY <1>1, QueuedWaits, NobodyEnds DEF Senders
<1> HIDE DEF t
<1>3. k' = task_wait_complete(k, t) /\ elem' = [elem EXCEPT ![t] = NoItem]
  BY DEF Relieve, Ends, t
<1>4. elem' \in [Task -> Data]
  BY <1>2, <1>3 DEF Data
<1> QED BY <1>1, <1>2, <1>3, <1>4 DEF EndsWait, t

LEMMA ReceiveKeeps ==
  ASSUME DQInv, Receive
  PROVE  /\ EndsWait /\ NoneWaitsInVain'
         /\ RingOK(dque') /\ dque'.num = dque.num /\ elem' \in [Task -> Data]
         /\ received' \in Data
<1>1. /\ IInv /\ NoneWaitsInVain /\ RingOK(dque) /\ elem \in [Task -> Data]
      /\ SendList \in Queue /\ ReceiveList \in Queue
  BY DQueueAssumption DEF DQInv, ObjectOK
<1>2. CASE ReceiveStored
  <2>1. ~Empty(dque) /\ Receivers = << >> /\ received' = dque.fifo[dque.tail]
    BY <1>1, <1>2 DEF ReceiveStored, NoneWaitsInVain
  <2>2. received' \in Data
    BY <1>1, <2>1 DEF RingOK, Empty
  <2> DEFINE m == dque_fifo_read(dque)
             x == elem[Head(Senders)]
  <2>3. RingOK(m) /\ m.num = dque.num
    BY <1>1, ReadKeepsRing
  <2>4. CASE Senders # << >>
    <3>1. Relieve /\ dque' = dque_fifo_write(m, x)
      BY <1>2, <2>4 DEF ReceiveStored
    <3>2. EndsWait /\ elem' \in [Task -> Data] /\ x \in Data
      BY <1>1, <2>4, <3>1, RelieveEnds
    <3>3. Full(dque')
      <4>1. Full(dque)
        BY <1>1, <2>4 DEF NoneWaitsInVain
      <4> QED BY <1>1, <2>1, <3>1, <4>1, RefillFills
    <3> HIDE DEF m, x
    <3>4. RingOK(dque') /\ dque'.num = dque.num
      BY <2>3, <3>1, <3>2, WriteKeepsRing
    <3>5. Receivers' = << >>
      BY <1>1, <2>1, <3>2, EndedWaitJoinsNone DEF NobodyJoins, Receivers
    <3>6. NoneWaitsInVain'
      BY <3>3, <3>5 DEF NoneWaitsInVain
    <3> QED BY <2>2, <3>2, <3>4, <3>6
  <2>5. CASE Senders = << >>
    <3>1. k' = k /\ elem' = elem /\ dque' = m
      BY <1>2, <2>5 DEF ReceiveStored
    <3> HIDE DEF m
    <3>2. NoneWaitsInVain'
      BY <2>1, <2>5, <3>1 DEF NoneWaitsInVain, Senders, Receivers
    <3> QED BY <1>1, <2>2, <2>3, <3>1, <3>2 DEF EndsWait
  <2> QED BY <2>4, <2>5
<1>3. CASE ReceiveDirect
  <2>1. Senders # << >> /\ Relieve /\ dque' = dque /\ received' = elem[Head(Senders)]
    BY <1>3 DEF ReceiveDirect
  <2>2. EndsWait /\ elem' \in [Task -> Data] /\ received' \in Data
    BY <1>1, <2>1, RelieveEnds
  <2>3. NoneWaitsInVain'
    BY <1>1, <2>1, <2>2, EndedWaitJoinsNone, NobodyWaitsMore
  <2> QED BY <1>1, <2>1, <2>2, <2>3
<1> QED BY <1>2, <1>3 DEF Receive
-----------------------------------------------------------------------------
(* The calls *)

LEMMA WaitsKeeps ==
  ASSUME IInv, Calls(curr), NEW list \in Queue, NEW reason \in Reasons \ {"NONE"},
         NEW timeout \in Timeouts, Waits(list, reason, timeout)
  PROVE  /\ IInv'
         /\ \A q \in Queue \ {list} : k'.wq[q] = k.wq[q]
<1>1. /\ MayStop(curr) /\ Switches /\ UnchangedTasks
      /\ k' = task_curr_to_wait_action(k, curr, list, reason, timeout)
  BY DEF Waits
<1> QED BY <1>1, QueueingKeeps

LEMMA SendKeeps ==
  ASSUME DQInv, NEW x \in Item, NEW timeout \in Timeouts, kern_queue_send(x, timeout)
  PROVE  DQInv'
<1>1. /\ IInv /\ ObjectOK /\ NoneWaitsInVain /\ Calls(curr) /\ curr \in Task
      /\ NoItem \in Data /\ x \in Data /\ SendList # ReceiveList
      /\ SendList \in Queue /\ ReceiveList \in Queue
  BY DQueueAssumption, CallerIsReady DEF DQInv, Data, kern_queue_send, Begins
<1>2. CASE (HandOver(x) \/ Store(x)) /\ CallEnds /\ UNCHANGED at /\ received' = NoItem
  <2>1. /\ EndsWait /\ NoneWaitsInVain'
        /\ RingOK(dque') /\ dque'.num = dque.num /\ elem' \in [Task -> Data]
    BY <1>2, OfferKeeps
  <2>2. IInv'
    BY <1>1, <1>2, <2>1, CallEndsKeeps
  <2>3. ObjectOK'
    BY <1>1, <1>2, <2>1 DEF ObjectOK
  <2> QED BY <2>1, <2>2, <2>3 DEF DQInv
<1>3. CASE /\ Receivers = << >> /\ Full(dque)
           /\ elem' = [elem EXCEPT ![curr] = x]
           /\ at' = [at EXCEPT ![curr] = "send"]
           /\ Waits(SendList, "DQUE_WSEND", timeout)
  <2> DEFINE reason == "DQUE_WSEND"
  <2>1. reason \in Reasons \ {"NONE"} /\ Waits(SendList, reason, timeout)
    BY <1>3 DEF Reasons
  <2> HIDE DEF reason
  <2>2. IInv' /\ \A q \in Queue \ {SendList} : k'.wq[q] = k.wq[q]
    BY <1>1, <2>1, WaitsKeeps
  <2>3. dque' = dque /\ received' = NoItem
    BY <2>1 DEF Waits
  <2>4. NoneWaitsInVain'
    BY <1>1, <1>3, <2>2, <2>3 DEF NoneWaitsInVain, Senders, Receivers
  <2>5. ObjectOK'
    <3>1. elem' \in [Task -> Data] /\ at' \in [Task -> {"none", "send", "receive"}]
      BY <1>1, <1>3 DEF ObjectOK
    <3> QED BY <1>1, <2>3, <3>1 DEF ObjectOK
  <2> QED BY <2>2, <2>4, <2>5 DEF DQInv
<1> QED BY <1>2, <1>3 DEF kern_queue_send

LEMMA SendPollingKeeps ==
  ASSUME DQInv, NEW x \in Item, kern_queue_send_polling(x) \/ kern_queue_isend_polling(x)
  PROVE  DQInv'
<1>1. IInv /\ ObjectOK /\ NoItem \in Data
  BY DEF DQInv, Data
<1>2. /\ HandOver(x) \/ Store(x)
      /\ (Calls(curr) /\ CallEnds) \/ HandlerEnds
      /\ at' = at /\ received' = NoItem
  BY DEF kern_queue_send_polling, kern_queue_isend_polling, Begins
<1>3. /\ EndsWait /\ NoneWaitsInVain'
      /\ RingOK(dque') /\ dque'.num = dque.num /\ elem' \in [Task -> Data]
  BY <1>2, OfferKeeps
<1>4. IInv'
  BY <1>1, <1>2, <1>3, CallEndsKeeps, HandlerEndsKeeps
<1>5. ObjectOK'
  BY <1>1, <1>2, <1>3 DEF ObjectOK
<1> QED BY <1>3, <1>4, <1>5 DEF DQInv

\* A receive that finds a datum, by whatever call.
LEMMA TakingKeeps ==
  ASSUME DQInv, Receive, (Calls(curr) /\ CallEnds) \/ HandlerEnds, at' = at
  PROVE  DQInv'
<1>1. IInv /\ ObjectOK
  BY DEF DQInv
<1>2. /\ EndsWait /\ NoneWaitsInVain' /\ received' \in Data
      /\ RingOK(dque') /\ dque'.num = dque.num /\ elem' \in [Task -> Data]
  BY ReceiveKeeps
<1>3. IInv'
  BY <1>1, <1>2, CallEndsKeeps, HandlerEndsKeeps
<1>4. ObjectOK'
  BY <1>1, <1>2 DEF ObjectOK
<1> QED BY <1>2, <1>3, <1>4 DEF DQInv

LEMMA ReceivingKeeps ==
  ASSUME DQInv, NEW timeout \in Timeouts, kern_queue_receive(timeout)
  PROVE  DQInv'
<1>1. /\ IInv /\ ObjectOK /\ NoneWaitsInVain /\ Calls(curr) /\ curr \in Task
      /\ NoItem \in Data /\ SendList # ReceiveList
      /\ SendList \in Queue /\ ReceiveList \in Queue
  BY DQueueAssumption, CallerIsReady DEF DQInv, Data, kern_queue_receive, Begins
<1>2. CASE Receive /\ CallEnds /\ UNCHANGED at
  BY <1>1, <1>2, TakingKeeps
<1>3. CASE /\ Empty(dque) /\ Senders = << >>
           /\ at' = [at EXCEPT ![curr] = "receive"]
           /\ Waits(ReceiveList, "DQUE_WRECEIVE", timeout)
           /\ UNCHANGED elem
  <2> DEFINE reason == "DQUE_WRECEIVE"
  <2>1. reason \in Reasons \ {"NONE"} /\ Waits(ReceiveList, reason, timeout)
    BY <1>3 DEF Reasons
  <2> HIDE DEF reason
  <2>2. IInv' /\ \A q \in Queue \ {ReceiveList} : k'.wq[q] = k.wq[q]
    BY <1>1, <2>1, WaitsKeeps
  <2>3. dque' = dque /\ received' = NoItem
    BY <2>1 DEF Waits
  <2>4. NoneWaitsInVain'
    BY <1>1, <1>3, <2>2, <2>3 DEF NoneWaitsInVain, Senders, Receivers
  <2>5. ObjectOK'
    <3>1. at' \in [Task -> {"none", "send", "receive"}]
      BY <1>1, <1>3 DEF ObjectOK
    <3> QED BY <1>1, <1>3, <2>3, <3>1 DEF ObjectOK
  <2> QED BY <2>2, <2>4, <2>5 DEF DQInv
<1> QED BY <1>2, <1>3 DEF kern_queue_receive

\* The second half of a call that has waited leaves the kernel and the ring alone.
LEMMA AfterWaitKeeps ==
  ASSUME DQInv, AfterWait
  PROVE  DQInv'
<1>1. IInv /\ ObjectOK /\ NoneWaitsInVain /\ curr \in Task
  BY DEF DQInv, IInv, VariablesOK
<1>2. IInv'
  BY <1>1, StutterKeeps DEF AfterWait, Returns, UnchangedTasks, vars
<1>3. NoneWaitsInVain'
  BY <1>1 DEF AfterWait, NoneWaitsInVain, Senders, Receivers
<1>4. ObjectOK'
  <2>1. /\ at' \in [Task -> {"none", "send", "receive"}]
        /\ elem' \in [Task -> Data] /\ received' \in Data
    BY <1>1 DEF ObjectOK, AfterWait, Data
  <2>2. dque' = dque
    BY DEF AfterWait
  <2> QED BY <1>1, <2>1, <2>2 DEF ObjectOK
<1> QED BY <1>2, <1>3, <1>4 DEF DQInv
-----------------------------------------------------------------------------
(* The steps of the tasks and of the kernel that do not concern the data queue *)

LEMMA OtherStepsKeep ==
  ASSUME DQInv, DQUnchanged, IInv', NobodyJoins(k, k')
  PROVE  DQInv'
<1>1. ObjectOK /\ NoneWaitsInVain /\ dque' = dque /\ NoItem \in Data
  BY DEF DQInv, DQUnchanged, Data
<1>2. NoneWaitsInVain'
  BY <1>1, NobodyWaitsMore
<1>3. ObjectOK'
  BY <1>1 DEF ObjectOK, DQUnchanged
<1> QED BY <1>2, <1>3 DEF DQInv

LEMMA CreationKeeps ==
  ASSUME DQInv, CreatesNext, DQUnchanged
  PROVE  DQInv'
<1>1. IInv /\ "wq" \in DOMAIN k
  BY DEF DQInv, IInv, KernelOK, SchedOK, Sched
<1>2. PICK i \in DOMAIN Order : kern_task_create(Order[i], StartPriority, TRUE)
  BY DEF CreatesNext
<1>3. Order[i] \in Task /\ StartPriority \in Priorities
  BY <1>2, StartAssumption
<1>4. IInv'
  BY <1>1, <1>2, <1>3, CreateKeeps
<1>5. NobodyJoins(k, k')
  BY <1>1, <1>2, <1>3, CreationLeavesWaits DEF SameWaits, NobodyJoins
<1> QED BY <1>4, <1>5, OtherStepsKeep

LEMMA SuspensionKeeps ==
  ASSUME DQInv, NEW t \in Suspendable, kern_task_suspend(t) \/ kern_task_resume(t),
         DQUnchanged
  PROVE  DQInv'
<1>1. IInv /\ t \in Task
  BY TasksAssumption DEF DQInv
<1>2. IInv'
  BY <1>1, SuspendKeeps, ResumeKeeps
<1>3. NobodyJoins(k, k')
  BY <1>1, SuspensionLeavesWaits DEF SameWaits, NobodyJoins
<1> QED BY <1>2, <1>3, OtherStepsKeep

LEMMA SwitchingKeeps ==
  ASSUME DQInv, TestNext \/ SwitchContext \/ PendSV, DQUnchanged
  PROVE  DQInv'
<1>1. IInv /\ k' = k
  BY DEF DQInv, TestNext, SwitchContext, PendSV
<1>2. IInv'
  BY <1>1, TestNextKeeps, SwitchContextKeeps, PendSVKeeps
<1> QED BY <1>1, <1>2, OtherStepsKeep DEF NobodyJoins

LEMMA DQTickKeeps ==
  ASSUME DQInv, SysTick, DQUnchanged
  PROVE  DQInv'
<1>1. IInv
  BY DEF DQInv
<1>2. IInv' /\ NobodyJoins(k, k')
  BY <1>1, SysTickKeeps DEF OnlyEndsWaits
<1> QED BY <1>2, OtherStepsKeep
-----------------------------------------------------------------------------
(* The invariant *)

LEMMA DQInitHolds == DQInit => DQInv
<1> SUFFICES ASSUME DQInit PROVE DQInv
  OBVIOUS
<1>1. IInv
  BY InitHolds DEF DQInit
<1>2. ObjectOK
  <2>1. PICK n \in Sizes : dque = [num |-> n, fifo |-> [i \in 0..n-1 |-> NoItem],
                                   header |-> 0, tail |-> 0]
    BY DEF DQInit
  <2>2. n \in Nat
    BY DQueueAssumption
  <2>3. RingOK(dque)
    BY <2>1, <2>2 DEF RingOK, Data
  <2> QED BY <2>1, <2>3 DEF ObjectOK, DQInit, Data
<1>3. NoneWaitsInVain
  <2>1. k.wq = [q \in Queue |-> << >>] /\ SendList \in Queue /\ ReceiveList \in Queue
    BY DQueueAssumption, NobodyWaitsAtFirst DEF DQInit
  <2> QED BY <2>1 DEF NoneWaitsInVain, Senders, Receivers
<1> QED BY <1>1, <1>2, <1>3 DEF DQInv

LEMMA DQNextKeeps ==
  ASSUME DQInv, DQNext
  PROVE  DQInv'
<1>1. CASE \E x \in Item, timeout \in Timeouts : kern_queue_send(x, timeout)
  BY <1>1, SendKeeps
<1>2. CASE \E x \in Item : kern_queue_send_polling(x) \/ kern_queue_isend_polling(x)
  BY <1>2, SendPollingKeeps
<1>3. CASE \E timeout \in Timeouts : kern_queue_receive(timeout)
  BY <1>3, ReceivingKeeps
<1>4. CASE kern_queue_receive_polling \/ kern_queue_ireceive
  BY <1>4, TakingKeeps DEF kern_queue_receive_polling, kern_queue_ireceive, Begins
<1>5. CASE AfterWait
  BY <1>5, AfterWaitKeeps
<1>6. CASE Begins /\ CreatesNext /\ DQUnchanged
  BY <1>6, CreationKeeps
<1>7. CASE \E t \in Suspendable : /\ \/ Begins /\ kern_task_suspend(t)
                                     \/ Begins /\ kern_task_resume(t)
                                  /\ DQUnchanged
  BY <1>7, SuspensionKeeps
<1>8. CASE (TestNext \/ SwitchContext \/ PendSV) /\ DQUnchanged
  BY <1>8, SwitchingKeeps
<1>9. CASE SysTick /\ DQUnchanged
  BY <1>9, DQTickKeeps
<1> QED BY <1>1, <1>2, <1>3, <1>4, <1>5, <1>6, <1>7, <1>8, <1>9 DEF DQNext

LEMMA DQInvariantHolds == DQSpec => []DQInv
<1>1. DQInit => DQInv
  BY DQInitHolds
<1>2. DQInv /\ UNCHANGED dqvars => DQInv'
  <2> SUFFICES ASSUME DQInv, UNCHANGED dqvars PROVE DQInv'
    OBVIOUS
  <2>1. IInv' /\ k' = k
    BY StutterKeeps DEF DQInv, dqvars, vars
  <2>2. ObjectOK' /\ NoneWaitsInVain'
    BY DEF DQInv, dqvars, ObjectOK, NoneWaitsInVain, Senders, Receivers, vars
  <2> QED BY <2>1, <2>2 DEF DQInv
<1>3. DQInv /\ [DQNext]_dqvars => DQInv'
  BY <1>2, DQNextKeeps
<1> QED BY <1>1, <1>3, PTL DEF DQSpec

\* The variables of a data queue keep their types: whatever num_entries, the counters
\* stay inside the ring.
THEOREM DQTypeCorrect == DQSpec => []DQTypeOK
<1>1. DQInv => DQTypeOK
  BY DQInvImplies
<1> QED BY <1>1, DQInvariantHolds, PTL

\* Whatever number of tasks and handlers send and receive, with whatever timeouts and
\* suspensions, and whatever num_entries: no sender waits while there is room, no
\* receiver while there is a datum, and never both.
THEOREM NobodyEverWaitsInVain == DQSpec => []NoneWaitsInVain
<1>1. DQInv => NoneWaitsInVain
  BY DQInvImplies
<1> QED BY <1>1, DQInvariantHolds, PTL
-----------------------------------------------------------------------------
(* The queue as a channel: what is stored *)

Used(d) == IF Empty(d) THEN 0 ELSE (d.header - d.tail + d.num) % d.num

StoredIn(d) ==
  [i \in 1..Used(d) |-> [item |-> d.fifo[(d.tail + i - 1) % d.num], from |-> NoQueue]]

Capacity(d) == IF d.num = 0 THEN 0 ELSE d.num - 1

LEMMA StoredIsIn == Stored = StoredIn(dque)
BY DEF Stored, StoredIn, Used

\* Counters wrap around at most once.
Wrap(a, n) == IF a < n THEN a ELSE a - n

LEMMA Wrapped ==
  ASSUME NEW n \in Nat \ {0}, NEW a \in 0..2*n-1
  PROVE  a % n = Wrap(a, n) /\ Wrap(a, n) \in 0..n-1
BY DEF Wrap

LEMMA UsedWraps ==
  ASSUME NEW d, d.num \in Nat \ {0}, d.header \in 0..d.num-1, d.tail \in 0..d.num-1
  PROVE  /\ ~Empty(d) => Used(d) = Wrap(d.header - d.tail + d.num, d.num)
         /\ \A i \in 1..d.num : /\ (d.tail + i - 1) % d.num = Wrap(d.tail + i - 1, d.num)
                                /\ Wrap(d.tail + i - 1, d.num) \in 0..d.num-1
<1>1. PICK n \in Nat \ {0} : n = d.num
  OBVIOUS
<1>2. PICK h \in 0..n-1, t \in 0..n-1 : h = d.header /\ t = d.tail
  BY <1>1
<1>3. (h - t + n) % n = Wrap(h - t + n, n)
  <2>1. PICK a \in 0..2*n-1 : a = h - t + n
    BY <1>1, <1>2
  <2>2. a % n = Wrap(a, n)
    BY Wrapped
  <2> QED BY <2>1, <2>2
<1>4. ASSUME NEW i \in 1..n
      PROVE  (t + i - 1) % n = Wrap(t + i - 1, n) /\ Wrap(t + i - 1, n) \in 0..n-1
  <2>1. PICK a \in 0..2*n-1 : a = t + i - 1
    BY <1>1, <1>2
  <2>2. a % n = Wrap(a, n) /\ Wrap(a, n) \in 0..n-1
    BY Wrapped
  <2> QED BY <2>1, <2>2
<1>5. ~Empty(d) => Used(d) = (h - t + n) % n
  BY <1>1, <1>2 DEF Used
<1> QED BY <1>1, <1>2, <1>3, <1>4, <1>5

\* The queue is full when it holds as much as it can, and empty when it holds nothing.
LEMMA UsedIs ==
  ASSUME NEW d, RingOK(d)
  PROVE  /\ Used(d) \in 0..Capacity(d) /\ Capacity(d) \in Nat
         /\ Full(d) <=> Used(d) = Capacity(d)
         /\ Empty(d) <=> Used(d) = 0
         /\ ~Empty(d) => Used(d) = Wrap(d.header - d.tail + d.num, d.num)
<1>1. CASE d.num = 0
  BY <1>1 DEF Used, Capacity, Full, Empty
<1>2. CASE d.num # 0
  <2>1. d.num \in Nat \ {0} /\ d.header \in 0..d.num-1 /\ d.tail \in 0..d.num-1
    BY <1>2 DEF RingOK
  <2>2. ~Empty(d) => Used(d) = Wrap(d.header - d.tail + d.num, d.num)
    BY <2>1, UsedWraps
  <2>3. Empty(d) => Used(d) = 0
    BY DEF Used
  <2>4. Full(d) <=> Used(d) = Capacity(d)
    BY <1>2, <2>1, <2>2, <2>3 DEF Capacity, Full, Empty, Wrap
  <2>5. ~Empty(d) => Used(d) \in 1..d.num-1
    BY <1>2, <2>1, <2>2 DEF Empty, Wrap
  <2>6. Capacity(d) = d.num - 1
    BY <1>2 DEF Capacity
  <2> QED BY <2>1, <2>2, <2>3, <2>4, <2>5, <2>6
<1> QED BY <1>1, <1>2

\* The i-th of what is stored, without the modulus.
At(d, i) == d.fifo[Wrap(d.tail + i - 1, d.num)]

LEMMA TabledSeq ==
  ASSUME NEW n \in Nat, NEW R, NEW g \in [1..n -> R]
  PROVE  g \in Seq(R) /\ Len(g) = n
OBVIOUS

LEMMA StoredSeq ==
  ASSUME NEW d, RingOK(d)
  PROVE  /\ StoredIn(d) = [i \in 1..Used(d) |-> [item |-> At(d, i), from |-> NoQueue]]
         /\ StoredIn(d) \in Seq([item : Data, from : {NoQueue}])
         /\ Len(StoredIn(d)) = Used(d)
<1>1. Used(d) \in Nat
  BY UsedIs
<1>2. ASSUME NEW i \in 1..Used(d)
      PROVE  d.fifo[(d.tail + i - 1) % d.num] = At(d, i) /\ At(d, i) \in Data
  <2>1. /\ d.num \in Nat \ {0} /\ d.tail \in 0..d.num-1 /\ d.header \in 0..d.num-1
        /\ Used(d) <= d.num - 1
    BY <1>1, UsedIs DEF RingOK, Capacity, Empty
  <2>2. i \in 1..d.num
    BY <1>1, <2>1
  <2>3. /\ (d.tail + i - 1) % d.num = Wrap(d.tail + i - 1, d.num)
        /\ Wrap(d.tail + i - 1, d.num) \in 0..d.num-1
    BY <2>1, <2>2, UsedWraps
  <2> QED BY <2>3 DEF RingOK, At
<1>3. StoredIn(d) = [i \in 1..Used(d) |-> [item |-> At(d, i), from |-> NoQueue]]
  BY <1>2 DEF StoredIn
<1>4. PICK n, R, g : n \in Nat /\ n = Used(d) /\ R = [item : Data, from : {NoQueue}]
                          /\ g = [i \in 1..n |-> [item |-> At(d, i), from |-> NoQueue]]
  BY <1>1
<1>5. g \in [1..n -> R]
  BY <1>2, <1>4
<1>6. g \in Seq(R) /\ Len(g) = n
  <2>1. n \in Nat
    BY <1>4
  <2> QED BY <1>5, <2>1, TabledSeq
<1> QED BY <1>3, <1>4, <1>6

\* What is written comes last.
LEMMA WrittenLast ==
  ASSUME NEW d, RingOK(d), ~Full(d), NEW x \in Data, NEW r, r = dque_fifo_write(d, x)
  PROVE  StoredIn(r) = Append(StoredIn(d), [item |-> x, from |-> NoQueue])
<1>1. /\ d.num \in Nat \ {0} /\ d.header \in 0..d.num-1 /\ d.tail \in 0..d.num-1
      /\ Used(d) \in 0..d.num-2 /\ d.fifo \in [0..d.num-1 -> Data]
      /\ d.header = Wrap(d.tail + Used(d), d.num)
  <2>1. d.num \in Nat \ {0} /\ d.header \in 0..d.num-1 /\ d.tail \in 0..d.num-1
    BY DEF RingOK, Full
  <2>2. Used(d) \in 0..d.num-2
    BY <2>1, UsedIs DEF Capacity
  <2>3. d.header = Wrap(d.tail + Used(d), d.num)
    BY <2>1, UsedIs DEF Wrap, Empty
  <2> QED BY <2>1, <2>2, <2>3 DEF RingOK
<1>2. RingOK(r) /\ r.num = d.num
  BY WriteKeepsRing
<1>3. /\ r.fifo = [d.fifo EXCEPT ![d.header] = x] /\ r.tail = d.tail
      /\ r.header = Advance(d, d.header)
  BY DEF dque_fifo_write, RingOK
<1>4. Used(r) = Used(d) + 1
  <2>1. PICK n, h, t, u :
          n \in Nat \ {0} /\ h \in 0..n-1 /\ t \in 0..n-1 /\ u \in 0..n-2 /\ n = d.num /\ h = d.header /\ t = d.tail /\ u = Used(d)
    BY <1>1
  <2>2. h = Wrap(t + u, n) /\ r.header = IF h + 1 >= n THEN 0 ELSE h + 1
    BY <1>1, <1>3, <2>1 DEF Advance
  <2>3. r.header # t /\ Wrap(r.header - t + n, n) = u + 1
    BY <2>1, <2>2 DEF Wrap
  <2>4. Used(r) = Wrap(r.header - t + n, n)
    BY <1>2, <1>3, <2>1, <2>3, UsedIs DEF Empty
  <2> QED BY <2>1, <2>3, <2>4
<1>5. ASSUME NEW i \in 1..Used(d) PROVE At(r, i) = At(d, i)
  <2>1. /\ Wrap(d.tail + i - 1, d.num) # d.header
        /\ Wrap(d.tail + i - 1, d.num) \in 0..d.num-1
    BY <1>1, SMTT(60) DEF Wrap
  <2> QED BY <1>1, <1>2, <1>3, <2>1 DEF At
<1>6. At(r, Used(d) + 1) = x
  <2>1. d.tail + (Used(d) + 1) - 1 = d.tail + Used(d)
    BY <1>1
  <2> QED BY <1>1, <1>2, <1>3, <2>1 DEF At
<1> DEFINE rec(y) == [item |-> y, from |-> NoQueue]
<1>7. /\ StoredIn(d) = [i \in 1..Used(d) |-> rec(At(d, i))]
      /\ StoredIn(r) = [i \in 1..Used(d) + 1 |-> rec(At(r, i))]
      /\ StoredIn(d) \in Seq([item : Data, from : {NoQueue}]) /\ Len(StoredIn(d)) = Used(d)
  BY <1>2, <1>4, StoredSeq
<1> HIDE DEF rec
<1>8. StoredIn(r) = [i \in 1..Used(d) + 1 |-> IF i = Used(d) + 1 THEN rec(x) ELSE StoredIn(d)[i]]
  BY <1>1, <1>5, <1>6, <1>7
<1>9. PICK n \in Nat : n = Used(d)
  BY <1>1
<1>10. Append(StoredIn(d), rec(x)) = [i \in 1..n + 1 |-> IF i = n + 1 THEN rec(x) ELSE StoredIn(d)[i]]
  BY <1>7, <1>9
<1> QED BY <1>8, <1>9, <1>10 DEF rec

\* What is read came first.
LEMMA ReadFirst ==
  ASSUME NEW d, RingOK(d), ~Empty(d), NEW r, r = dque_fifo_read(d)
  PROVE  /\ StoredIn(d) # << >>
         /\ Head(StoredIn(d)) = [item |-> d.fifo[d.tail], from |-> NoQueue]
         /\ StoredIn(r) = Tail(StoredIn(d))
         /\ ~Full(r) /\ RingOK(r) /\ r.num = d.num
<1>1. /\ d.num \in Nat \ {0} /\ d.header \in 0..d.num-1 /\ d.tail \in 0..d.num-1
      /\ Used(d) \in 1..d.num-1 /\ d.fifo \in [0..d.num-1 -> Data]
      /\ d.header = Wrap(d.tail + Used(d), d.num)
  <2>1. d.num \in Nat \ {0} /\ d.header \in 0..d.num-1 /\ d.tail \in 0..d.num-1
    BY DEF RingOK, Empty
  <2>2. Used(d) \in 1..d.num-1
    BY <2>1, UsedIs DEF Capacity
  <2>3. d.header = Wrap(d.tail + Used(d), d.num)
    BY <2>1, UsedIs DEF Wrap
  <2> QED BY <2>1, <2>2, <2>3 DEF RingOK
<1>2. RingOK(r) /\ r.num = d.num
  BY ReadKeepsRing
<1>3. /\ r.fifo = [d.fifo EXCEPT ![d.tail] = NoItem] /\ r.header = d.header
      /\ r.tail = Advance(d, d.tail)
  BY DEF dque_fifo_read, RingOK
<1>4. Used(r) = Used(d) - 1
  <2>1. PICK n, h, t, u :
          n \in Nat \ {0} /\ h \in 0..n-1 /\ t \in 0..n-1 /\ u \in 1..n-1 /\ n = d.num /\ h = d.header /\ t = d.tail /\ u = Used(d)
    BY <1>1
  <2>2. h = Wrap(t + u, n) /\ r.tail = IF t + 1 >= n THEN 0 ELSE t + 1
    BY <1>1, <1>3, <2>1 DEF Advance
  <2>3. CASE u = 1
    <3>1. r.tail = h
      BY <2>1, <2>2, <2>3 DEF Wrap
    <3>2. Empty(r)
      BY <1>3, <2>1, <3>1 DEF Empty
    <3> QED BY <1>2, <2>1, <2>3, <3>2, UsedIs
  <2>4. CASE u > 1
    <3>1. r.tail # h /\ Wrap(h - r.tail + n, n) = u - 1
      BY <2>1, <2>2, <2>4 DEF Wrap
    <3>2. Used(r) = Wrap(h - r.tail + n, n)
      BY <1>2, <1>3, <2>1, <3>1, UsedIs DEF Empty
    <3> QED BY <2>1, <3>1, <3>2
  <2> QED BY <2>1, <2>3, <2>4
<1>5. ASSUME NEW i \in 1..Used(d)-1 PROVE At(r, i) = At(d, i + 1)
  <2>1. /\ Wrap(r.tail + i - 1, d.num) = Wrap(d.tail + (i + 1) - 1, d.num)
        /\ Wrap(d.tail + (i + 1) - 1, d.num) # d.tail
        /\ Wrap(d.tail + (i + 1) - 1, d.num) \in 0..d.num-1
    <3>1. PICK n, t, u :
            n \in Nat \ {0} /\ t \in 0..n-1 /\ u \in 1..n-1 /\ n = d.num /\ t = d.tail /\ u = Used(d)
      BY <1>1
    <3>2. r.tail = IF t + 1 >= n THEN 0 ELSE t + 1
      BY <1>3, <3>1 DEF Advance
    <3>3. i \in 1..u-1
      BY <3>1
    <3>4. /\ Wrap(r.tail + i - 1, n) = Wrap(t + (i + 1) - 1, n)
          /\ Wrap(t + (i + 1) - 1, n) # t
          /\ Wrap(t + (i + 1) - 1, n) \in 0..n-1
      BY <3>1, <3>2, <3>3 DEF Wrap
    <3> QED BY <3>1, <3>4
  <2> QED BY <1>1, <1>2, <1>3, <2>1 DEF At
<1>6. At(d, 1) = d.fifo[d.tail]
  <2>1. Wrap(d.tail + 1 - 1, d.num) = d.tail
    BY <1>1 DEF Wrap
  <2> QED BY <2>1 DEF At
<1> DEFINE rec(y) == [item |-> y, from |-> NoQueue]
<1>7. /\ StoredIn(d) = [i \in 1..Used(d) |-> rec(At(d, i))]
      /\ StoredIn(r) = [i \in 1..Used(d) - 1 |-> rec(At(r, i))]
      /\ StoredIn(d) \in Seq([item : Data, from : {NoQueue}]) /\ Len(StoredIn(d)) = Used(d)
  BY <1>2, <1>4, StoredSeq
<1>8. StoredIn(d)[1] = rec(d.fifo[d.tail])
  BY <1>1, <1>6, <1>7
<1> HIDE DEF rec
<1>9. StoredIn(r) = [i \in 1..Used(d) - 1 |-> StoredIn(d)[i + 1]]
  BY <1>1, <1>5, <1>7
<1>10. ~Full(r)
  BY <1>1, <1>2, <1>4, UsedIs DEF Capacity
<1>11. Tail(StoredIn(d)) = [i \in 1..Used(d) - 1 |-> StoredIn(d)[i + 1]]
  BY <1>1, <1>7
<1>12. StoredIn(d) # << >> /\ Head(StoredIn(d)) = StoredIn(d)[1]
  BY <1>1, <1>7
<1> QED BY <1>2, <1>8, <1>9, <1>10, <1>11, <1>12 DEF rec
-----------------------------------------------------------------------------
(* The queue as a channel: who waits, in which order *)

\* x is in q somewhere before y.
Before(q, x, y) == \E i, j \in 1..Len(q) : i < j /\ q[i] = x /\ q[j] = y

LEMMA UnlinkedHead ==
  ASSUME NEW S, NEW q \in Seq(S), NoDuplicates(q), q # << >>
  PROVE  Unlinked(q, Head(q)) = Tail(q)
<1>1. Head(q) \in ToSet(q) /\ q[1] = Head(q) /\ 1 \in 1..Len(q)
  BY DEF ToSet
<1>2. Position(q, Head(q)) = 1
  <2>1. Position(q, Head(q)) \in 1..Len(q) /\ q[Position(q, Head(q))] = Head(q)
    BY <1>1, PositionIsPlace
  <2> QED BY <1>1, <2>1 DEF NoDuplicates
<1> DEFINE r == Unlinked(q, Head(q))
<1>3. /\ r \in Seq(S) /\ Len(r) = Len(q) - 1
      /\ \A n \in 1..Len(r) : r[n] = q[n+1]
  <2>1. r = RemoveAt(q, Position(q, Head(q)))
    BY <1>1 DEF Unlinked
  <2> HIDE DEF r
  <2>2. /\ r \in Seq(S) /\ Len(r) = Len(q) - 1
        /\ \A n \in 1..Len(r) : r[n] = IF n < Position(q, Head(q)) THEN q[n] ELSE q[n+1]
    BY <1>1, <2>1, RemovedPlaces
  <2> QED BY <1>2, <2>2
<1> HIDE DEF r
<1>4. /\ Tail(q) \in Seq(S) /\ Len(Tail(q)) = Len(q) - 1
      /\ \A n \in 1..Len(q)-1 : Tail(q)[n] = q[n+1]
  OBVIOUS
<1>5. r = Tail(q)
  BY <1>3, <1>4
<1> QED BY <1>5 DEF r

LEMMA UnlinkedOrder ==
  ASSUME NEW S, NEW q \in Seq(S), NEW t, NEW x, NEW y, Before(Unlinked(q, t), x, y)
  PROVE  Before(q, x, y)
<1> DEFINE p == Position(q, t)
           r == Unlinked(q, t)
<1>1. CASE t \notin ToSet(q)
  BY <1>1 DEF Unlinked
<1>2. CASE t \in ToSet(q)
  <2>1. r = RemoveAt(q, p) /\ p \in 1..Len(q)
    BY <1>2, PositionIsPlace DEF Unlinked
  <2>2. PICK i, j \in 1..Len(r) : i < j /\ r[i] = x /\ r[j] = y
    BY DEF Before
  <2>3. /\ r \in Seq(S) /\ Len(r) = Len(q) - 1
        /\ \A n \in 1..Len(r) : r[n] = IF n < p THEN q[n] ELSE q[n+1]
    <3> HIDE DEF r
    <3> QED BY <1>2, <2>1, RemovedPlaces
  <2> HIDE DEF r, p
  <2> DEFINE e(n) == IF n < p THEN n ELSE n + 1
  <2>4. /\ e(i) \in 1..Len(q) /\ e(j) \in 1..Len(q) /\ e(i) < e(j)
        /\ q[e(i)] = x /\ q[e(j)] = y
    BY <2>1, <2>2, <2>3
  <2> HIDE DEF e
  <2> QED BY <2>4 DEF Before
<1> QED BY <1>1, <1>2
-----------------------------------------------------------------------------
(* The queue as a channel: its elements *)

Datum == [item : Data, from : Task \cup {NoQueue}]

OfferedBy(e, q) == [i \in DOMAIN q |-> [item |-> e[q[i]], from |-> q[i]]]

Channel(d, e, q) == StoredIn(d) \o OfferedBy(e, q)

LEMMA ElementIn ==
  ASSUME NEW S, NEW a \in Seq(S), NEW i \in 1..Len(a)
  PROVE  a[i] \in S
OBVIOUS

LEMMA JoinedPlaces ==
  ASSUME NEW S, NEW a \in Seq(S), NEW b \in Seq(S)
  PROVE  /\ a \o b \in Seq(S) /\ Len(a \o b) = Len(a) + Len(b)
         /\ \A i \in 1..Len(a) : (a \o b)[i] = a[i]
         /\ \A i \in 1..Len(b) : (a \o b)[Len(a) + i] = b[i]
OBVIOUS

LEMMA ChannelPlaces ==
  ASSUME NEW d, RingOK(d), NEW e \in [Task -> Data], NEW q \in Seq(Task)
  PROVE  /\ Used(d) \in Nat /\ Len(q) \in Nat
         /\ Channel(d, e, q) \in Seq(Datum) /\ Len(Channel(d, e, q)) = Used(d) + Len(q)
         /\ \A i \in 1..Used(d) : /\ Channel(d, e, q)[i] = StoredIn(d)[i]
                                  /\ StoredIn(d)[i] \in Datum
                                  /\ StoredIn(d)[i].from = NoQueue
         /\ \A i \in 1..Len(q) : Channel(d, e, q)[Used(d) + i] = [item |-> e[q[i]], from |-> q[i]]
<1> DEFINE a == StoredIn(d)
           b == OfferedBy(e, q)
           m == Used(d)
<1>1. m \in Nat /\ Len(q) \in Nat /\ DOMAIN q = 1..Len(q)
  BY UsedIs
<1>2. a \in Seq([item : Data, from : {NoQueue}]) /\ Len(a) = m
  BY StoredSeq
<1>3. a \in Seq(Datum) /\ \A i \in 1..m : a[i] \in Datum /\ a[i].from = NoQueue
  <2> HIDE DEF a, m
  <2>1. ASSUME NEW i \in 1..m PROVE a[i] \in Datum /\ a[i].from = NoQueue
    <3>1. a[i] \in [item : Data, from : {NoQueue}]
      <4>1. i \in 1..Len(a)
        BY <1>2
      <4> QED BY <1>2, <4>1, ElementIn
    <3> QED BY <3>1 DEF Datum
  <2> QED BY <1>1, <1>2, <2>1
<1>4. b \in Seq(Datum) /\ Len(b) = Len(q) /\ \A i \in 1..Len(q) : b[i] = [item |-> e[q[i]], from |-> q[i]]
  <2>1. b = [i \in 1..Len(q) |-> [item |-> e[q[i]], from |-> q[i]]]
    BY <1>1 DEF OfferedBy
  <2>2. \A i \in 1..Len(q) : [item |-> e[q[i]], from |-> q[i]] \in Datum
    BY DEF Datum
  <2> HIDE DEF b
  <2>3. b \in [1..Len(q) -> Datum]
    BY <2>1, <2>2
  <2> QED BY <1>1, <2>1, <2>3, TabledSeq
<1>5. Channel(d, e, q) = a \o b
  BY DEF Channel
<1> HIDE DEF a, b, m
<1>6. /\ a \o b \in Seq(Datum) /\ Len(a \o b) = m + Len(q)
      /\ \A i \in 1..m : (a \o b)[i] = a[i]
      /\ \A i \in 1..Len(q) : (a \o b)[m + i] = b[i]
  <2>1. /\ a \o b \in Seq(Datum) /\ Len(a \o b) = Len(a) + Len(b)
        /\ \A i \in 1..Len(a) : (a \o b)[i] = a[i]
        /\ \A i \in 1..Len(b) : (a \o b)[Len(a) + i] = b[i]
    <3>1. a \in Seq(Datum)
      BY <1>3
    <3>2. b \in Seq(Datum)
      BY <1>4
    <3> QED BY <3>1, <3>2, JoinedPlaces
  <2>2. Len(a) = m /\ Len(b) = Len(q)
    BY <1>2, <1>4
  <2> QED BY <2>1, <2>2, Zenon
<1> QED BY <1>1, <1>3, <1>4, <1>5, <1>6 DEF a, m

\* Two sequences are the same if their elements are.
LEMMA SameElements ==
  ASSUME NEW S, NEW T, NEW a \in Seq(S), NEW b \in Seq(T), Len(a) = Len(b),
         \A i \in 1..Len(a) : a[i] = b[i]
  PROVE  a = b
OBVIOUS

\* A channel is known by what is stored and who offers what.
LEMMA IsChannel ==
  ASSUME NEW d, RingOK(d), NEW e \in [Task -> Data], NEW q \in Seq(Task),
         NEW c \in Seq(Datum), Len(c) = Used(d) + Len(q),
         \A i \in 1..Used(d) : c[i] = StoredIn(d)[i],
         \A i \in 1..Len(q) : c[Used(d) + i] = [item |-> e[q[i]], from |-> q[i]]
  PROVE  c = Channel(d, e, q)
<1> DEFINE h == Channel(d, e, q)
<1>1. /\ Used(d) \in Nat /\ Len(q) \in Nat
      /\ h \in Seq(Datum) /\ Len(h) = Used(d) + Len(q)
      /\ \A i \in 1..Used(d) : h[i] = StoredIn(d)[i]
      /\ \A i \in 1..Len(q) : h[Used(d) + i] = [item |-> e[q[i]], from |-> q[i]]
  BY ChannelPlaces
<1> HIDE DEF h
<1>2. ASSUME NEW i \in 1..Len(c) PROVE c[i] = h[i]
  <2>1. CASE i <= Used(d)
    BY <1>1, <2>1
  <2>2. CASE i > Used(d)
    <3>1. i - Used(d) \in 1..Len(q) /\ Used(d) + (i - Used(d)) = i
      BY <1>1, <2>2
    <3>2. /\ c[Used(d) + (i - Used(d))] = [item |-> e[q[i - Used(d)]], from |-> q[i - Used(d)]]
          /\ h[Used(d) + (i - Used(d))] = [item |-> e[q[i - Used(d)]], from |-> q[i - Used(d)]]
      BY <1>1, <3>1
    <3> QED BY <3>1, <3>2
  <2> QED BY <1>1, <2>1, <2>2
<1>3. c = h
  BY <1>1, <1>2, SameElements
<1> QED BY <1>3 DEF h

\* The first n of a channel are accepted.
Accept(c, n) == [i \in DOMAIN c |-> IF i <= n THEN [c[i] EXCEPT !.from = NoQueue] ELSE c[i]]

LEMMA AcceptPlaces ==
  ASSUME NEW c \in Seq(Datum), NEW n \in Nat
  PROVE  /\ Accept(c, n) \in Seq(Datum) /\ Len(Accept(c, n)) = Len(c)
         /\ \A i \in 1..Len(c) : i <= n => Accept(c, n)[i] = [item |-> c[i].item, from |-> NoQueue]
         /\ \A i \in 1..Len(c) : i > n => Accept(c, n)[i] = c[i]
         /\ \A i \in 1..Len(c) : i <= n /\ c[i].from = NoQueue => Accept(c, n)[i] = c[i]
<1>1. Len(c) \in Nat /\ DOMAIN c = 1..Len(c)
  OBVIOUS
<1>2. ASSUME NEW i \in 1..Len(c)
      PROVE  /\ [c[i] EXCEPT !.from = NoQueue] = [item |-> c[i].item, from |-> NoQueue]
             /\ c[i] \in Datum /\ [item |-> c[i].item, from |-> NoQueue] \in Datum
             /\ c[i].from = NoQueue => c[i] = [item |-> c[i].item, from |-> NoQueue]
  <2>1. PICK y \in Datum : y = c[i]
    OBVIOUS
  <2>2. y = [item |-> y.item, from |-> y.from] /\ y.item \in Data
    BY DEF Datum
  <2>3. [y EXCEPT !.from = NoQueue] = [item |-> y.item, from |-> NoQueue]
    BY <2>2
  <2>4. [item |-> y.item, from |-> NoQueue] \in Datum
    BY <2>2 DEF Datum
  <2> QED BY <2>1, <2>2, <2>3, <2>4
<1> DEFINE g == [i \in 1..Len(c) |-> IF i <= n THEN [item |-> c[i].item, from |-> NoQueue] ELSE c[i]]
<1>3. Accept(c, n) = g
  BY <1>1, <1>2 DEF Accept
<1>4. g \in [1..Len(c) -> Datum]
  BY <1>2
<1>5. \A i \in 1..Len(c) : g[i] = IF i <= n THEN [item |-> c[i].item, from |-> NoQueue] ELSE c[i]
  OBVIOUS
<1> HIDE DEF g
<1>6. g \in Seq(Datum) /\ Len(g) = Len(c)
  BY <1>1, <1>4, TabledSeq
<1>7. ASSUME NEW i \in 1..Len(c)
      PROVE  /\ i <= n => Accept(c, n)[i] = [item |-> c[i].item, from |-> NoQueue]
             /\ i > n => Accept(c, n)[i] = c[i]
             /\ i <= n /\ c[i].from = NoQueue => Accept(c, n)[i] = c[i]
  <2>1. Accept(c, n)[i] = IF i <= n THEN [item |-> c[i].item, from |-> NoQueue] ELSE c[i]
    BY <1>3, <1>5
  <2>2. i <= n <=> ~(i > n)
    BY <1>1
  <2> QED BY <1>2, <2>1, <2>2
<1> QED BY <1>3, <1>6, <1>7

\* While the storage has room nobody offers, so nothing is accepted that was not.
LEMMA AcceptedBefore ==
  ASSUME NEW d, RingOK(d), NEW e \in [Task -> Data], NEW q \in Seq(Task),
         q = << >> \/ Full(d)
  PROVE  Accept(Channel(d, e, q), Capacity(d)) = Channel(d, e, q)
<1> DEFINE c == Channel(d, e, q)
           n == Capacity(d)
           r == Accept(c, n)
<1>1. /\ Used(d) \in Nat /\ Len(q) \in Nat
      /\ c \in Seq(Datum) /\ Len(c) = Used(d) + Len(q)
      /\ \A i \in 1..Used(d) : c[i].from = NoQueue
  BY ChannelPlaces
<1>2. n \in Nat /\ (Full(d) => Used(d) = n)
  BY UsedIs
<1> HIDE DEF c, n
<1>3. /\ r \in Seq(Datum) /\ Len(r) = Len(c)
      /\ \A i \in 1..Len(c) : i > n => r[i] = c[i]
      /\ \A i \in 1..Len(c) : i <= n /\ c[i].from = NoQueue => r[i] = c[i]
  BY <1>1, <1>2, AcceptPlaces
<1>4. \A i \in 1..Len(c) : i <= n => i \in 1..Used(d)
  <2>1. q = << >> => Len(q) = 0
    OBVIOUS
  <2> QED BY <1>1, <1>2, <2>1
<1> HIDE DEF r
<1>5. \A i \in 1..Len(c) : r[i] = c[i]
  BY <1>1, <1>2, <1>3, <1>4
<1>6. r = c
  BY <1>1, <1>3, <1>5, SameElements
<1> QED BY <1>6 DEF r, c, n

\* A datum that is stored is offered and accepted.
LEMMA StoringOffers ==
  ASSUME NEW d, RingOK(d), ~Full(d), NEW x \in Data, NEW e \in [Task -> Data],
         NEW q, q = << >>, NEW r, r = dque_fifo_write(d, x)
  PROVE  /\ Channel(r, e, q)
              = Accept(Append(Channel(d, e, q), [item |-> x, from |-> NoQueue]), Capacity(d))
         /\ Len(Channel(d, e, q)) < Capacity(d)
<1> DEFINE c == Channel(d, e, q)
           b == Channel(r, e, q)
           y == [item |-> x, from |-> NoQueue]
<1>1. q \in Seq(Task) /\ Len(q) = 0
  OBVIOUS
<1>2. RingOK(r) /\ r.num = d.num /\ Capacity(r) = Capacity(d)
  BY WriteKeepsRing DEF Capacity
<1>3. /\ Used(d) \in Nat /\ c \in Seq(Datum) /\ Len(c) = Used(d)
      /\ \A i \in 1..Used(d) : c[i] = StoredIn(d)[i]
  <2>1. /\ Used(d) \in Nat /\ Len(q) \in Nat
        /\ Channel(d, e, q) \in Seq(Datum) /\ Len(Channel(d, e, q)) = Used(d) + Len(q)
        /\ \A i \in 1..Used(d) : Channel(d, e, q)[i] = StoredIn(d)[i]
    BY <1>1, ChannelPlaces, ZenonT(60)
  <2> QED BY <1>1, <2>1
<1>4. /\ Used(r) \in Nat /\ b \in Seq(Datum) /\ Len(b) = Used(r)
      /\ \A i \in 1..Used(r) : b[i] = StoredIn(r)[i]
  <2>1. /\ Used(r) \in Nat /\ Len(q) \in Nat
        /\ Channel(r, e, q) \in Seq(Datum) /\ Len(Channel(r, e, q)) = Used(r) + Len(q)
        /\ \A i \in 1..Used(r) : Channel(r, e, q)[i] = StoredIn(r)[i]
    <3>1. ASSUME NEW z, RingOK(z)
          PROVE  /\ Used(z) \in Nat /\ Len(q) \in Nat
                 /\ Channel(z, e, q) \in Seq(Datum) /\ Len(Channel(z, e, q)) = Used(z) + Len(q)
                 /\ \A i \in 1..Used(z) : Channel(z, e, q)[i] = StoredIn(z)[i]
      BY <1>1, <3>1, ChannelPlaces, ZenonT(60)
    <3> QED BY <1>2, <3>1
  <2> QED BY <1>1, <2>1
<1>5. StoredIn(r) = Append(StoredIn(d), y)
  BY WrittenLast
<1>6. /\ StoredIn(d) \in Seq([item : Data, from : {NoQueue}])
      /\ Len(StoredIn(d)) = Used(d) /\ Len(StoredIn(r)) = Used(r)
  BY <1>2, StoredSeq
<1>7. Used(d) \in Nat /\ Used(d) < Capacity(d) /\ Capacity(d) \in Nat
  BY UsedIs
<1>8. y \in Datum
  BY DEF Datum
<1> HIDE DEF c, b, y
<1>9. /\ Used(r) = Used(d) + 1 /\ StoredIn(r)[Used(d) + 1] = y
      /\ \A i \in 1..Used(d) : StoredIn(r)[i] = StoredIn(d)[i]
  BY <1>3, <1>5, <1>6
<1>10. b = Append(c, y)
  <2>1. Append(c, y) \in Seq(Datum) /\ Len(Append(c, y)) = Used(d) + 1
    BY <1>3, <1>8
  <2>2. ASSUME NEW i \in 1..Len(b) PROVE b[i] = Append(c, y)[i]
    <3>1. CASE i = Used(d) + 1
      BY <1>3, <1>4, <1>8, <1>9, <3>1
    <3>2. CASE i # Used(d) + 1
      <4>1. i \in 1..Used(d)
        BY <1>3, <1>4, <1>9, <3>2
      <4>2. Append(c, y)[i] = c[i]
        BY <1>3, <1>8, <4>1
      <4> QED BY <1>3, <1>4, <1>9, <4>1, <4>2
    <3> QED BY <3>1, <3>2
  <2> QED BY <1>4, <1>9, <2>1, <2>2, SameElements
<1>11. Accept(b, Capacity(d)) = b
  BY <1>1, <1>2, AcceptedBefore DEF b
<1> QED BY <1>3, <1>7, <1>10, <1>11 DEF c, b, y

\* A datum that does not fit is offered by the task that waits with it.
LEMMA WaitingOffers ==
  ASSUME NEW d, RingOK(d), Full(d), NEW q \in Seq(Task), NEW t \in Task, t \notin ToSet(q),
         NEW x \in Data, NEW e \in [Task -> Data], NEW f, f = [e EXCEPT ![t] = x]
  PROVE  Channel(d, f, Append(q, t))
           = Accept(Append(Channel(d, e, q), [item |-> x, from |-> t]), Capacity(d))
<1> DEFINE c == Channel(d, e, q)
           p == Append(q, t)
           y == [item |-> x, from |-> t]
           b == Append(c, y)
           m == Used(d)
<1>1. /\ m \in Nat /\ Len(q) \in Nat /\ c \in Seq(Datum) /\ Len(c) = m + Len(q)
      /\ \A i \in 1..m : c[i] = StoredIn(d)[i]
      /\ \A i \in 1..Len(q) : c[m + i] = [item |-> e[q[i]], from |-> q[i]]
  BY ChannelPlaces
<1>2. /\ p \in Seq(Task) /\ Len(p) = Len(q) + 1 /\ p[Len(q) + 1] = t
      /\ \A i \in 1..Len(q) : p[i] = q[i]
  OBVIOUS
<1>3. f \in [Task -> Data] /\ f[t] = x /\ \A u \in Task \ {t} : f[u] = e[u]
  OBVIOUS
<1>4. ASSUME NEW i \in 1..Len(q) PROVE q[i] \in Task \ {t}
  BY DEF ToSet
<1>5. y \in Datum
  BY DEF Datum
<1> HIDE DEF c, p, m
<1>6. /\ b \in Seq(Datum) /\ Len(b) = m + Len(q) + 1 /\ b[m + Len(q) + 1] = y
      /\ \A i \in 1..m + Len(q) : b[i] = c[i]
  <2> HIDE DEF y
  <2> QED BY <1>1, <1>5
<1> HIDE DEF b
<1>7. ASSUME NEW i \in 1..Len(p) PROVE b[m + i] = [item |-> f[p[i]], from |-> p[i]]
  <2>1. CASE i = Len(q) + 1
    <3>1. m + i = m + Len(q) + 1
      BY <1>1, <2>1
    <3> QED BY <1>2, <1>3, <1>6, <2>1, <3>1
  <2>2. CASE i # Len(q) + 1
    <3>1. i \in 1..Len(q) /\ m + i \in 1..m + Len(q)
      BY <1>1, <1>2, <2>2
    <3>2. b[m + i] = [item |-> e[q[i]], from |-> q[i]] /\ p[i] = q[i] /\ f[q[i]] = e[q[i]]
      BY <1>1, <1>2, <1>3, <1>4, <1>6, <3>1
    <3> QED BY <3>2
  <2> QED BY <2>1, <2>2
<1>8. \A i \in 1..m : b[i] = StoredIn(d)[i]
  BY <1>1, <1>6
<1>9. Len(b) = m + Len(p)
  BY <1>1, <1>2, <1>6
<1>10. b = Channel(d, f, p)
  <2>1. Len(b) = Used(d) + Len(p)
    BY <1>9 DEF m
  <2>2. \A i \in 1..Used(d) : b[i] = StoredIn(d)[i]
    BY <1>8 DEF m
  <2>3. \A i \in 1..Len(p) : b[Used(d) + i] = [item |-> f[p[i]], from |-> p[i]]
    BY <1>7 DEF m
  <2>4. b \in Seq(Datum) /\ p \in Seq(Task)
    BY <1>2, <1>6
  <2>5. ASSUME NEW g \in [Task -> Data],
               \A i \in 1..Len(p) : b[Used(d) + i] = [item |-> g[p[i]], from |-> p[i]]
        PROVE  b = Channel(d, g, p)
    BY <2>1, <2>2, <2>4, <2>5, IsChannel, ZenonT(60)
  <2> QED BY <1>3, <2>3, <2>5
<1>11. Accept(b, Capacity(d)) = b
  BY <1>2, <1>3, <1>10, AcceptedBefore, ZenonT(60)
<1> QED BY <1>10, <1>11 DEF b, c, p

\* The tail of a queue of tasks, after its first has been relieved of its datum.
LEMMA RelievedOffers ==
  ASSUME NEW q \in Seq(Task), NoDuplicates(q), q # << >>, NEW e \in [Task -> Data],
         NEW f, f = [e EXCEPT ![Head(q)] = NoItem]
  PROVE  /\ Len(q) \in Nat \ {0} /\ Head(q) = q[1] /\ q[1] \in Task
         /\ Tail(q) \in Seq(Task) /\ Len(Tail(q)) = Len(q) - 1
         /\ f \in [Task -> Data]
         /\ \A i \in 1..Len(q)-1 : /\ Tail(q)[i] = q[i + 1]
                                   /\ q[i + 1] \in Task /\ f[q[i + 1]] = e[q[i + 1]]
<1>1. /\ Len(q) \in Nat \ {0} /\ Head(q) = q[1] /\ q[1] \in Task
      /\ Tail(q) \in Seq(Task) /\ Len(Tail(q)) = Len(q) - 1
      /\ \A i \in 1..Len(q)-1 : Tail(q)[i] = q[i + 1] /\ q[i + 1] \in Task
  OBVIOUS
<1>2. f \in [Task -> Data] /\ \A u \in Task \ {q[1]} : f[u] = e[u]
  BY <1>1 DEF Data
<1>3. ASSUME NEW i \in 1..Len(q)-1 PROVE q[i + 1] # q[1]
  <2>1. i + 1 \in DOMAIN q /\ 1 \in DOMAIN q /\ i + 1 # 1
    BY <1>1
  <2> QED BY <2>1 DEF NoDuplicates
<1> QED BY <1>1, <1>2, <1>3

\* The first of a channel is taken, and the next n are accepted.
LEMMA TakenPlaces ==
  ASSUME NEW c \in Seq(Datum), NEW n \in Nat, c # << >>
  PROVE  /\ Len(c) \in Nat \ {0} /\ Head(c) = c[1]
         /\ Accept(Tail(c), n) \in Seq(Datum) /\ Len(Accept(Tail(c), n)) = Len(c) - 1
         /\ \A i \in 1..Len(c)-1 : i <= n => Accept(Tail(c), n)[i] = [item |-> c[i + 1].item, from |-> NoQueue]
         /\ \A i \in 1..Len(c)-1 : i > n => Accept(Tail(c), n)[i] = c[i + 1]
<1> DEFINE a == Tail(c)
<1>1. /\ Len(c) \in Nat \ {0} /\ Head(c) = c[1]
      /\ a \in Seq(Datum) /\ Len(a) = Len(c) - 1
      /\ \A i \in 1..Len(c)-1 : a[i] = c[i + 1]
  OBVIOUS
<1> HIDE DEF a
<1>2. /\ Accept(a, n) \in Seq(Datum) /\ Len(Accept(a, n)) = Len(a)
      /\ \A i \in 1..Len(a) : i <= n => Accept(a, n)[i] = [item |-> a[i].item, from |-> NoQueue]
      /\ \A i \in 1..Len(a) : i > n => Accept(a, n)[i] = a[i]
  BY <1>1, AcceptPlaces
<1>3. /\ Accept(a, n) \in Seq(Datum) /\ Len(Accept(a, n)) = Len(c) - 1
      /\ \A i \in 1..Len(c)-1 : i <= n => Accept(a, n)[i] = [item |-> c[i + 1].item, from |-> NoQueue]
      /\ \A i \in 1..Len(c)-1 : i > n => Accept(a, n)[i] = c[i + 1]
  BY <1>1, <1>2
<1> QED BY <1>1, <1>3 DEF a

\* What is read is taken from the head of the channel.
LEMMA ReadingTakes ==
  ASSUME NEW d, RingOK(d), ~Empty(d), NEW e \in [Task -> Data],
         NEW q \in Seq(Task), q = << >>, NEW r, r = dque_fifo_read(d)
  PROVE  /\ Channel(d, e, q) # << >> /\ Head(Channel(d, e, q)).item = d.fifo[d.tail]
         /\ Channel(r, e, q) = Accept(Tail(Channel(d, e, q)), Capacity(d))
<1> DEFINE c == Channel(d, e, q)
           s == StoredIn(d)
           n == Capacity(d)
           b == Accept(Tail(c), n)
           m == Used(d)
<1>1. m \in Nat \ {0} /\ n \in Nat /\ m <= n
  BY UsedIs
<1>2. Len(q) = 0
  OBVIOUS
<1>3. /\ c \in Seq(Datum) /\ Len(c) = m /\ \A i \in 1..m : c[i] = s[i] /\ c[i].from = NoQueue
  <2>1. /\ Channel(d, e, q) \in Seq(Datum) /\ Len(Channel(d, e, q)) = Used(d) + Len(q)
        /\ \A i \in 1..Used(d) : /\ Channel(d, e, q)[i] = StoredIn(d)[i]
                                 /\ StoredIn(d)[i].from = NoQueue
    BY ChannelPlaces
  <2> QED BY <1>1, <1>2, <2>1
<1>4. /\ s # << >> /\ Head(s) = [item |-> d.fifo[d.tail], from |-> NoQueue]
      /\ StoredIn(r) = Tail(s) /\ RingOK(r) /\ r.num = d.num
  BY ReadFirst
<1>5. s \in Seq([item : Data, from : {NoQueue}]) /\ Len(s) = m
  BY StoredSeq
<1>6. StoredIn(r) \in Seq([item : Data, from : {NoQueue}]) /\ Len(StoredIn(r)) = Used(r)
  BY <1>4, StoredSeq
<1> HIDE DEF c, n, m, s
<1>7. c # << >>
  BY <1>1, <1>3
<1>8. /\ Head(c) = c[1] /\ b \in Seq(Datum) /\ Len(b) = Len(c) - 1
      /\ \A i \in 1..Len(c)-1 : i <= n => b[i] = [item |-> c[i + 1].item, from |-> NoQueue]
  BY <1>1, <1>3, <1>7, TakenPlaces
<1> HIDE DEF b
<1>9. /\ Used(r) = m - 1 /\ Head(s) = s[1]
      /\ \A i \in 1..m-1 : StoredIn(r)[i] = s[i + 1]
  BY <1>1, <1>4, <1>5, <1>6
<1>10. ASSUME NEW i \in 1..m-1 PROVE b[i] = StoredIn(r)[i]
  <2>1. i + 1 \in 1..m /\ i \in 1..Len(c)-1 /\ i <= n
    BY <1>1, <1>3, <1>8
  <2>2. PICK y \in Datum : y = c[i + 1]
    BY <1>3, <2>1
  <2>3. y.from = NoQueue /\ y = s[i + 1]
    BY <1>3, <2>1, <2>2
  <2>4. y = [item |-> y.item, from |-> NoQueue]
    BY <2>3 DEF Datum
  <2> QED BY <1>8, <1>9, <2>1, <2>2, <2>3, <2>4
<1>11. b = Channel(r, e, q)
  <2>1. ASSUME NEW z, RingOK(z), Used(z) = m - 1, \A i \in 1..m-1 : b[i] = StoredIn(z)[i]
        PROVE  b = Channel(z, e, q)
    <3>1. Len(b) = Used(z) + Len(q)
      BY <1>1, <1>2, <1>3, <1>8, <2>1
    <3>2. \A i \in 1..Used(z) : b[i] = StoredIn(z)[i]
      BY <2>1
    <3>3. \A i \in 1..Len(q) : b[Used(z) + i] = [item |-> e[q[i]], from |-> q[i]]
      BY <1>2
    <3>4. b \in Seq(Datum)
      BY <1>8
    <3> QED BY <2>1, <3>1, <3>2, <3>3, <3>4, IsChannel, ZenonT(60)
  <2> QED BY <1>4, <1>9, <1>10, <2>1
<1>12. Head(c).item = d.fifo[d.tail]
  BY <1>1, <1>3, <1>4, <1>8, <1>9
<1> QED BY <1>7, <1>11, <1>12 DEF b, c, n

\* When the datum of the first sender fills the gap, it is accepted.
LEMMA RefillingTakes ==
  ASSUME NEW d, RingOK(d), ~Empty(d), Full(d), NEW e \in [Task -> Data],
         NEW q \in Seq(Task), NoDuplicates(q), q # << >>
  PROVE  /\ Channel(d, e, q) # << >> /\ Head(Channel(d, e, q)).item = d.fifo[d.tail]
         /\ \A f, r : /\ f = [e EXCEPT ![Head(q)] = NoItem]
                     /\ r = dque_fifo_write(dque_fifo_read(d), e[Head(q)])
              => Channel(r, f, Tail(q)) = Accept(Tail(Channel(d, e, q)), Capacity(d))
<1> SUFFICES ASSUME NEW f, f = [e EXCEPT ![Head(q)] = NoItem],
                    NEW r, r = dque_fifo_write(dque_fifo_read(d), e[Head(q)])
             PROVE  /\ Channel(d, e, q) # << >> /\ Head(Channel(d, e, q)).item = d.fifo[d.tail]
                    /\ Channel(r, f, Tail(q)) = Accept(Tail(Channel(d, e, q)), Capacity(d))
  OBVIOUS
<1> DEFINE c == Channel(d, e, q)
           s == StoredIn(d)
           n == Capacity(d)
           b == Accept(Tail(c), n)
           p == Tail(q)
           x == [item |-> e[q[1]], from |-> NoQueue]
           g == dque_fifo_read(d)
<1>1. n \in Nat \ {0} /\ Used(d) = n
  BY UsedIs
<1>2. /\ c \in Seq(Datum) /\ Len(q) \in Nat /\ Len(c) = n + Len(q)
      /\ \A i \in 1..n : c[i] = s[i] /\ c[i].from = NoQueue
      /\ \A i \in 1..Len(q) : c[n + i] = [item |-> e[q[i]], from |-> q[i]]
  <2>1. /\ Channel(d, e, q) \in Seq(Datum) /\ Len(Channel(d, e, q)) = Used(d) + Len(q)
        /\ \A i \in 1..Used(d) : /\ Channel(d, e, q)[i] = StoredIn(d)[i]
                                 /\ StoredIn(d)[i].from = NoQueue
        /\ \A i \in 1..Len(q) : Channel(d, e, q)[Used(d) + i] = [item |-> e[q[i]], from |-> q[i]]
    BY ChannelPlaces
  <2> HIDE DEF n
  <2> QED BY <1>1, <2>1
<1>3. /\ s # << >> /\ Head(s) = [item |-> d.fifo[d.tail], from |-> NoQueue]
      /\ StoredIn(g) = Tail(s) /\ RingOK(g) /\ ~Full(g) /\ g.num = d.num
  BY ReadFirst
<1>4. s \in Seq([item : Data, from : {NoQueue}]) /\ Len(s) = n
  BY <1>1, StoredSeq
<1>5. /\ Len(q) \in Nat \ {0} /\ Head(q) = q[1] /\ q[1] \in Task
      /\ p \in Seq(Task) /\ Len(p) = Len(q) - 1
      /\ f \in [Task -> Data]
      /\ \A i \in 1..Len(q)-1 : /\ p[i] = q[i + 1]
                                /\ q[i + 1] \in Task /\ f[q[i + 1]] = e[q[i + 1]]
  BY RelievedOffers
<1>6. RingOK(r) /\ StoredIn(r) = Append(StoredIn(g), x)
  <2>1. r = dque_fifo_write(g, e[q[1]]) /\ e[q[1]] \in Data
    BY <1>5
  <2> HIDE DEF g
  <2> QED BY <1>3, <2>1, WriteKeepsRing, WrittenLast
<1>7. StoredIn(r) \in Seq([item : Data, from : {NoQueue}]) /\ Len(StoredIn(r)) = Used(r)
  BY <1>6, StoredSeq
<1> HIDE DEF c, n, s, p, g
<1>8. /\ Used(r) = n /\ Head(s) = s[1] /\ StoredIn(r)[n] = x
      /\ \A i \in 1..n-1 : StoredIn(r)[i] = s[i + 1]
  <2>1. x \in [item : Data, from : {NoQueue}]
    BY <1>5
  <2> HIDE DEF x
  <2>2. Tail(s) \in Seq([item : Data, from : {NoQueue}]) /\ Len(Tail(s)) = n - 1
    BY <1>1, <1>3, <1>4
  <2>3. \A i \in 1..n-1 : Tail(s)[i] = s[i + 1]
    BY <1>1, <1>3, <1>4
  <2>4. Len(StoredIn(r)) = n /\ StoredIn(r)[n] = x /\ \A i \in 1..n-1 : StoredIn(r)[i] = Tail(s)[i]
    BY <1>1, <1>3, <1>6, <2>1, <2>2
  <2> QED BY <1>3, <1>4, <1>7, <2>3, <2>4
<1>9. c # << >>
  BY <1>1, <1>2
<1>10. /\ Head(c) = c[1] /\ b \in Seq(Datum) /\ Len(b) = Len(c) - 1
       /\ \A i \in 1..Len(c)-1 : i <= n => b[i] = [item |-> c[i + 1].item, from |-> NoQueue]
       /\ \A i \in 1..Len(c)-1 : i > n => b[i] = c[i + 1]
  BY <1>1, <1>2, <1>9, TakenPlaces
<1> HIDE DEF b
<1>11. ASSUME NEW i \in 1..n PROVE b[i] = StoredIn(r)[i]
  <2>1. i + 1 \in 1..Len(c) /\ i \in 1..Len(c)-1 /\ i <= n
    BY <1>1, <1>2, <1>5
  <2>2. PICK y \in Datum : y = c[i + 1]
    BY <1>2, <2>1
  <2>3. b[i] = [item |-> y.item, from |-> NoQueue]
    BY <1>10, <2>1, <2>2
  <2>4. CASE i < n
    <3>1. i + 1 \in 1..n /\ i \in 1..n-1
      BY <1>1, <2>4
    <3>2. y.from = NoQueue /\ y = s[i + 1]
      BY <1>2, <2>2, <3>1
    <3>3. y = [item |-> y.item, from |-> NoQueue]
      BY <3>2 DEF Datum
    <3> QED BY <1>8, <2>3, <3>1, <3>2, <3>3
  <2>5. CASE i = n
    <3>1. 1 \in 1..Len(q) /\ c[n + 1] = [item |-> e[q[1]], from |-> q[1]]
      BY <1>2, <1>5
    <3> QED BY <1>8, <2>2, <2>3, <2>5, <3>1
  <2> QED BY <1>1, <2>4, <2>5
<1>12. ASSUME NEW i \in 1..Len(p) PROVE b[n + i] = [item |-> f[p[i]], from |-> p[i]]
  <2>1. /\ i \in 1..Len(q)-1 /\ i + 1 \in 1..Len(q)
        /\ n + i \in 1..Len(c)-1 /\ n + i > n /\ (n + i) + 1 = n + (i + 1)
    BY <1>1, <1>2, <1>5
  <2>2. b[n + i] = c[n + (i + 1)]
    BY <1>10, <2>1
  <2> QED BY <1>2, <1>5, <2>1, <2>2, SMTT(60)
<1>13. b = Channel(r, f, p)
  <2>1. ASSUME NEW z, RingOK(z), Used(z) = n, \A i \in 1..n : b[i] = StoredIn(z)[i],
               NEW h \in [Task -> Data],
               \A i \in 1..Len(p) : b[n + i] = [item |-> h[p[i]], from |-> p[i]]
        PROVE  b = Channel(z, h, p)
    <3>1. Len(b) = Used(z) + Len(p)
      BY <1>1, <1>2, <1>5, <1>10, <2>1
    <3>2. \A i \in 1..Used(z) : b[i] = StoredIn(z)[i]
      BY <2>1
    <3>3. \A i \in 1..Len(p) : b[Used(z) + i] = [item |-> h[p[i]], from |-> p[i]]
      BY <2>1
    <3>4. b \in Seq(Datum) /\ p \in Seq(Task)
      BY <1>5, <1>10
    <3> QED BY <2>1, <3>1, <3>2, <3>3, <3>4, IsChannel
  <2> QED BY <1>5, <1>6, <1>8, <1>11, <1>12, <2>1
<1>14. Head(c).item = d.fifo[d.tail]
  BY <1>1, <1>2, <1>3, <1>8, <1>10
<1> QED BY <1>9, <1>13, <1>14 DEF b, c, n, p

\* Without storage the datum of the first sender is taken.
LEMMA DirectTakes ==
  ASSUME NEW d, RingOK(d), Empty(d), Full(d), NEW e \in [Task -> Data],
         NEW q \in Seq(Task), NoDuplicates(q), q # << >>,
         NEW f, f = [e EXCEPT ![Head(q)] = NoItem]
  PROVE  /\ Channel(d, e, q) # << >> /\ Head(Channel(d, e, q)).item = e[Head(q)]
         /\ Channel(d, f, Tail(q)) = Accept(Tail(Channel(d, e, q)), Capacity(d))
<1> DEFINE c == Channel(d, e, q)
           n == Capacity(d)
           b == Accept(Tail(c), n)
           p == Tail(q)
<1>1. n = 0 /\ Used(d) = 0
  BY UsedIs
<1>2. /\ c \in Seq(Datum) /\ Len(q) \in Nat /\ Len(c) = Len(q)
      /\ \A i \in 1..Len(q) : c[i] = [item |-> e[q[i]], from |-> q[i]]
  <2>1. /\ Channel(d, e, q) \in Seq(Datum) /\ Len(Channel(d, e, q)) = Used(d) + Len(q)
        /\ \A i \in 1..Len(q) : Channel(d, e, q)[Used(d) + i] = [item |-> e[q[i]], from |-> q[i]]
    BY ChannelPlaces
  <2> QED BY <1>1, <2>1
<1>3. /\ Len(q) \in Nat \ {0} /\ Head(q) = q[1] /\ q[1] \in Task
      /\ p \in Seq(Task) /\ Len(p) = Len(q) - 1
      /\ f \in [Task -> Data]
      /\ \A i \in 1..Len(q)-1 : /\ p[i] = q[i + 1]
                                /\ q[i + 1] \in Task /\ f[q[i + 1]] = e[q[i + 1]]
  BY RelievedOffers
<1> HIDE DEF c, n, p
<1>4. c # << >>
  BY <1>2, <1>3
<1>5. /\ Head(c) = c[1] /\ b \in Seq(Datum) /\ Len(b) = Len(c) - 1
      /\ \A i \in 1..Len(c)-1 : i > n => b[i] = c[i + 1]
  BY <1>1, <1>2, <1>4, TakenPlaces
<1> HIDE DEF b
<1>6. ASSUME NEW i \in 1..Len(p) PROVE b[i] = [item |-> f[p[i]], from |-> p[i]]
  <2>1. i \in 1..Len(q)-1 /\ i + 1 \in 1..Len(q) /\ i \in 1..Len(c)-1 /\ i > n
    BY <1>1, <1>2, <1>3
  <2>2. b[i] = c[i + 1]
    BY <1>5, <2>1
  <2> QED BY <1>2, <1>3, <2>1, <2>2
<1>7. b = Channel(d, f, p)
  <2>1. ASSUME NEW h \in [Task -> Data],
               \A i \in 1..Len(p) : b[i] = [item |-> h[p[i]], from |-> p[i]]
        PROVE  b = Channel(d, h, p)
    <3>1. Len(b) = Used(d) + Len(p)
      BY <1>1, <1>2, <1>3, <1>5
    <3>2. \A i \in 1..Used(d) : b[i] = StoredIn(d)[i]
      BY <1>1
    <3>3. \A i \in 1..Len(p) : b[Used(d) + i] = [item |-> h[p[i]], from |-> p[i]]
      <4>1. \A i \in 1..Len(p) : 0 + i = i
        BY <1>3
      <4> QED BY <1>1, <2>1, <4>1, Zenon
    <3>4. b \in Seq(Datum) /\ p \in Seq(Task)
      BY <1>3, <1>5
    <3>5. ASSUME NEW z, RingOK(z), Len(b) = Used(z) + Len(p),
                 \A i \in 1..Used(z) : b[i] = StoredIn(z)[i],
                 \A i \in 1..Len(p) : b[Used(z) + i] = [item |-> h[p[i]], from |-> p[i]]
          PROVE  b = Channel(z, h, p)
      BY <3>4, <3>5, IsChannel
    <3> QED BY <3>1, <3>2, <3>3, <3>5
  <2> QED BY <1>3, <1>6, <2>1
<1>8. Head(c).item = e[Head(q)]
  <2>1. 1 \in 1..Len(q)
    BY <1>3
  <2>2. c[1] = [item |-> e[q[1]], from |-> q[1]]
    BY <1>2, <2>1
  <2> QED BY <1>3, <1>5, <2>2
<1> QED BY <1>4, <1>7, <1>8 DEF b, c, n, p
-----------------------------------------------------------------------------
(* Who leaves a wait queue leaves the others in their order *)

LEMMA WaitersLeave ==
  ASSUME NEW S, NEW q \in Seq(S), NEW r \in Seq(S), NoDuplicates(q), NoDuplicates(r),
         NEW L, ToSet(r) = ToSet(q) \ L, \A x, y : Before(r, x, y) => Before(q, x, y)
  PROVE  Fifo!Leave(L, q, r)
<1> DEFINE was == [i \in 1..Len(r) |-> Position(q, r[i])]
<1>1. ASSUME NEW i \in 1..Len(r)
      PROVE  was[i] \in 1..Len(q) /\ q[was[i]] = r[i] /\ r[i] \notin L
  <2>1. r[i] \in ToSet(r)
    BY DEF ToSet
  <2> QED BY <2>1, PositionIsPlace
<1>2. was \in [1..Len(r) -> 1..Len(q)]
  BY <1>1
<1> HIDE DEF was
<1>3. \A i, j \in 1..Len(q) : q[i] = q[j] => i = j
  BY DEF NoDuplicates
<1>4. ASSUME NEW i \in 1..Len(r), NEW j \in 1..Len(r), i < j PROVE was[i] < was[j]
  <2>1. Before(r, r[i], r[j])
    BY <1>4 DEF Before
  <2>2. PICK m, n \in 1..Len(q) : m < n /\ q[m] = r[i] /\ q[n] = r[j]
    BY <2>1 DEF Before
  <2>3. m = was[i] /\ n = was[j]
    BY <1>1, <1>3, <2>2
  <2> QED BY <2>2, <2>3
<1>5. {was[i] : i \in 1..Len(r)} = {i \in 1..Len(q) : q[i] \notin L}
  <2>1. ASSUME NEW i \in 1..Len(q), q[i] \notin L PROVE \E j \in 1..Len(r) : was[j] = i
    <3>1. q[i] \in ToSet(r)
      BY <2>1 DEF ToSet
    <3>2. PICK j \in 1..Len(r) : r[j] = q[i]
      BY <3>1 DEF ToSet
    <3> QED BY <1>1, <1>3, <3>2
  <2> QED BY <1>1, <2>1
<1>6. Len(r) \in Nat /\ Len(q) \in Nat
  OBVIOUS
<1>7. Len(r) <= Len(q)
  <2> DEFINE G == {i \in 0..Len(r) : i = 0 \/ was[i] >= i}
  <2>1. 0 \in G
    BY <1>6
  <2>2. ASSUME NEW i \in 1..Len(r), i-1 \in G PROVE i \in G
    <3>1. CASE i = 1
      BY <1>1, <3>1
    <3>2. CASE i # 1
      <4>1. i-1 \in 1..Len(r) /\ was[i-1] >= i-1 /\ i-1 < i
        BY <2>2, <3>2
      <4>2. was[i-1] < was[i] /\ was[i] \in 1..Len(q) /\ was[i-1] \in 1..Len(q)
        BY <1>1, <1>4, <4>1
      <4> QED BY <1>6, <4>1, <4>2
    <3> QED BY <3>1, <3>2
  <2>3. Len(r) \in G
    <3> HIDE DEF G
    <3> QED BY <1>6, <2>1, <2>2, UpTo
  <2>4. CASE Len(r) = 0
    BY <1>6, <2>4
  <2>5. CASE Len(r) # 0
    <3>1. Len(r) \in 1..Len(r) /\ was[Len(r)] >= Len(r)
      BY <1>6, <2>3, <2>5
    <3>2. was[Len(r)] \in 1..Len(q)
      BY <1>1, <3>1
    <3> QED BY <1>6, <3>1, <3>2
  <2> QED BY <2>4, <2>5
<1>8. r = [i \in 1..Len(r) |-> q[was[i]]] /\ DOMAIN q = 1..Len(q) /\ Len(r) \in 0..Len(q)
  BY <1>1, <1>6, <1>7
<1> QED BY <1>2, <1>4, <1>5, <1>8 DEF Fifo!Leave

\* With the senders that leave the queue, what they offered leaves the channel, and nothing else.
LEMMA OfferersLeave ==
  ASSUME NEW d, RingOK(d), NEW e \in [Task -> Data], NEW q \in Seq(Task), NEW r \in Seq(Task),
         NEW L, NoQueue \notin L, Fifo!Leave(L, q, r)
  PROVE  Fifo!Leave({c \in ToSet(Channel(d, e, q)) : c.from \in L},
                    Channel(d, e, q), Channel(d, e, r))
<1> DEFINE c == Channel(d, e, q)
           b == Channel(d, e, r)
           out == {x \in ToSet(c) : x.from \in L}
           m == Used(d)
<1>1. PICK n \in 0..Len(q) : \E was \in [1..n -> DOMAIN q] :
        /\ \A i, j \in 1..n : i < j => was[i] < was[j]
        /\ {was[i] : i \in 1..n} = {i \in DOMAIN q : q[i] \notin L}
        /\ r = [i \in 1..n |-> q[was[i]]]
  BY DEF Fifo!Leave
<1>2. PICK was \in [1..n -> 1..Len(q)] :
        /\ \A i, j \in 1..n : i < j => was[i] < was[j]
        /\ {was[i] : i \in 1..n} = {i \in 1..Len(q) : q[i] \notin L}
        /\ r = [i \in 1..n |-> q[was[i]]]
  <2>1. DOMAIN q = 1..Len(q)
    OBVIOUS
  <2> QED BY <1>1, <2>1
<1>3. Len(q) \in Nat /\ n \in Nat /\ Len(r) = n /\ n <= Len(q)
  BY <1>1, <1>2
<1>4. /\ m \in Nat /\ c \in Seq(Datum) /\ Len(c) = m + Len(q)
      /\ \A i \in 1..m : c[i] = StoredIn(d)[i] /\ c[i].from = NoQueue
      /\ \A i \in 1..Len(q) : c[m + i] = [item |-> e[q[i]], from |-> q[i]]
  <2>1. /\ m \in Nat /\ c \in Seq(Datum) /\ Len(c) = m + Len(q)
        /\ \A i \in 1..m : c[i] = StoredIn(d)[i] /\ StoredIn(d)[i].from = NoQueue
        /\ \A i \in 1..Len(q) : c[m + i] = [item |-> e[q[i]], from |-> q[i]]
    BY ChannelPlaces
  <2> HIDE DEF c, m
  <2> QED BY <2>1
<1>5. /\ b \in Seq(Datum) /\ Len(b) = m + n
      /\ \A i \in 1..m : b[i] = StoredIn(d)[i]
      /\ \A i \in 1..n : b[m + i] = [item |-> e[r[i]], from |-> r[i]]
  <2>1. /\ b \in Seq(Datum) /\ Len(b) = m + Len(r)
        /\ \A i \in 1..m : b[i] = StoredIn(d)[i]
        /\ \A i \in 1..Len(r) : b[m + i] = [item |-> e[r[i]], from |-> r[i]]
    BY ChannelPlaces
  <2> QED BY <1>3, <2>1
<1> HIDE DEF c, b, m
<1> DEFINE at2 == [i \in 1..m + n |-> IF i <= m THEN i ELSE m + was[i - m]]
<1>6. ASSUME NEW i \in 1..m PROVE at2[i] = i /\ i \in 1..m + n /\ i \in 1..m + Len(q)
  BY <1>3, <1>4
<1>7. ASSUME NEW i \in 1..n
      PROVE  /\ m + i \in 1..m + n /\ at2[m + i] = m + was[i] /\ m + was[i] > m
             /\ was[i] \in 1..Len(q) /\ m + was[i] \in 1..m + Len(q)
  <2>1. m + i \in 1..m + n /\ ~(m + i <= m) /\ (m + i) - m = i
    BY <1>3, <1>4
  <2>2. was[i] \in 1..Len(q)
    BY <1>2
  <2> QED BY <1>3, <1>4, <2>1, <2>2
<1>8. ASSUME NEW i \in 1..m + n, i > m PROVE i - m \in 1..n /\ m + (i - m) = i
  BY <1>3, <1>4, <1>8
<1> HIDE DEF at2
<1>9. ASSUME NEW i \in 1..m + n PROVE at2[i] \in 1..m + Len(q)
  <2>1. CASE i <= m
    BY <1>4, <1>6, <2>1
  <2>2. CASE i > m
    <3>1. i - m \in 1..n /\ m + (i - m) = i
      BY <1>8, <2>2
    <3>2. at2[m + (i - m)] = m + was[i - m] /\ m + was[i - m] \in 1..m + Len(q)
      BY <1>7, <3>1
    <3> QED BY <3>1, <3>2
  <2> QED BY <1>3, <1>4, <2>1, <2>2
<1>10. ASSUME NEW i \in 1..m + n, NEW j \in 1..m + n, i < j PROVE at2[i] < at2[j]
  <2>1. CASE j <= m
    BY <1>4, <1>6, <1>10, <2>1
  <2>2. CASE i <= m /\ j > m
    <3>1. i \in 1..m /\ at2[i] = i
      BY <1>4, <1>6, <2>2
    <3>2. j - m \in 1..n /\ m + (j - m) = j
      BY <1>8, <2>2
    <3>3. at2[m + (j - m)] = m + was[j - m] /\ m + was[j - m] > m /\ was[j - m] \in 1..Len(q)
      BY <1>7, <3>2
    <3> QED BY <1>3, <1>4, <2>2, <3>1, <3>2, <3>3
  <2>3. CASE i > m
    <3>1. i - m \in 1..n /\ j - m \in 1..n /\ i - m < j - m /\ j > m
      BY <1>4, <1>8, <1>10, <2>3
    <3>2. was[i - m] < was[j - m]
      BY <1>2, <3>1
    <3>3. /\ at2[m + (i - m)] = m + was[i - m] /\ at2[m + (j - m)] = m + was[j - m]
          /\ was[i - m] \in 1..Len(q) /\ was[j - m] \in 1..Len(q)
      BY <1>7, <3>1
    <3>4. m + (i - m) = i /\ m + (j - m) = j
      BY <1>8, <2>3, <3>1
    <3> QED BY <1>3, <1>4, <3>2, <3>3, <3>4
  <2> QED BY <1>4, <2>1, <2>2, <2>3
<1>11. ASSUME NEW i \in 1..m + n PROVE b[i] = c[at2[i]]
  <2>1. CASE i <= m
    BY <1>4, <1>5, <1>6, <2>1
  <2>2. CASE i > m
    <3>1. i - m \in 1..n /\ m + (i - m) = i
      BY <1>8, <2>2
    <3>2. at2[i] = m + was[i - m] /\ was[i - m] \in 1..Len(q) /\ r[i - m] = q[was[i - m]]
      BY <1>2, <1>7, <3>1
    <3>3. b[i] = [item |-> e[r[i - m]], from |-> r[i - m]]
      BY <1>5, <3>1
    <3> QED BY <1>4, <3>2, <3>3
  <2> QED BY <1>4, <2>1, <2>2
<1>12. ASSUME NEW i \in 1..m PROVE c[i] \notin out
  BY <1>4
<1>13. ASSUME NEW i \in 1..Len(q) PROVE c[m + i] \notin out <=> q[i] \notin L
  <2>1. m + i \in 1..m + Len(q)
    BY <1>3, <1>4
  <2>2. m + i \in DOMAIN c
    BY <1>4, <2>1
  <2>3. c[m + i] \in ToSet(c)
    BY <2>2 DEF ToSet
  <2>4. c[m + i] = [item |-> e[q[i]], from |-> q[i]]
    BY <1>4
  <2>5. c[m + i].from = q[i]
    BY <2>4
  <2> QED BY <2>3, <2>5
<1> HIDE DEF out
<1>14. {at2[i] : i \in 1..m + n} = {i \in 1..m + Len(q) : c[i] \notin out}
  <2>1. ASSUME NEW i \in 1..m + n PROVE c[at2[i]] \notin out
    <3>1. CASE i <= m
      BY <1>4, <1>6, <1>12, <3>1
    <3>2. CASE i > m
      <4>1. i - m \in 1..n /\ at2[i] = m + was[i - m] /\ was[i - m] \in 1..Len(q)
        BY <1>7, <1>8, <3>2
      <4>2. q[was[i - m]] \notin L
        BY <1>2, <4>1
      <4> QED BY <1>13, <4>1, <4>2
    <3> QED BY <1>4, <3>1, <3>2
  <2>2. ASSUME NEW i \in 1..m + Len(q), c[i] \notin out PROVE \E j \in 1..m + n : at2[j] = i
    <3>1. CASE i <= m
      BY <1>4, <1>6, <3>1
    <3>2. CASE i > m
      <4>1. i - m \in 1..Len(q) /\ m + (i - m) = i
        BY <1>3, <1>4, <3>2
      <4>2. q[i - m] \notin L
        BY <1>13, <2>2, <4>1
      <4>3. PICK j \in 1..n : was[j] = i - m
        BY <1>2, <4>1, <4>2
      <4> QED BY <1>7, <4>1, <4>3
    <3> QED BY <1>4, <3>1, <3>2
  <2> QED BY <1>9, <2>1, <2>2
<1>15. at2 \in [1..m + n -> 1..m + Len(q)]
  BY <1>9 DEF at2
<1>16. /\ DOMAIN c = 1..m + Len(q) /\ m + n \in 0..Len(c)
       /\ b = [i \in 1..m + n |-> c[at2[i]]]
  BY <1>3, <1>4, <1>5, <1>11
<1>17. Fifo!Leave(out, c, b)
  BY <1>10, <1>14, <1>15, <1>16 DEF Fifo!Leave
<1> QED BY <1>17 DEF c, b, out
-----------------------------------------------------------------------------
(* The tick keeps the order of those who go on waiting *)

AllGoOn(s, r) == \A u \in Task : Waiting(s.state[u]) => Waiting(r.state[u])

\* Nobody overtakes another in a wait queue, and who does not wait gets no other code.
KeepsOrder(s, r) ==
  /\ \A q \in Queue : \A x, y : Before(r.wq[q], x, y) => Before(s.wq[q], x, y)
  /\ \A u \in Task : ~Waiting(s.state[u]) => ~Waiting(r.state[u]) /\ r.rc[u] = s.rc[u]
  /\ AllGoOn(s, r) => r.wq = s.wq

LEMMA TimerStepOrder ==
  ASSUME NEW s, SchedOK(s), NextReady(s), NEW t \in Task, NEW ms \in BOOLEAN,
         NEW r, r = TimerStep(s, t, ms)
  PROVE  KeepsOrder(s, r)
<1> DEFINE m == CountedDown(s, t, ms)
           c == task_wait_complete(m, t)
<1>1. s \in Sched /\ s.tick \in [Task -> Nat \cup {Infinite}] /\ Infinite = -1
  BY DEF SchedOK, Sched, Infinite
<1>2. r = IF s.tick[t] > 0 /\ m.tick[t] = 0 THEN [c EXCEPT !.rc[t] = "TIMEOUT"] ELSE m
  BY DEF TimerStep, CountedDown
<1>3. CASE ~Waiting(s.state[t])
  <2>1. s.tick[t] = Infinite
    BY <1>3 DEF SchedOK, WaitFieldsOK
  <2>2. m = s
    BY <1>1, <2>1 DEF CountedDown, Sched
  <2>3. r = s
    BY <1>1, <1>2, <2>1, <2>2
  <2> QED BY <2>3 DEF KeepsOrder
<1>4. CASE Waiting(s.state[t])
  <2>1. m \in Sched /\ m.wq = s.wq /\ m.state = s.state /\ m.rc = s.rc
    BY <1>4, CountDownKeeps
  <2>2. /\ \A u \in Task \ {t} : r.state[u] = s.state[u] /\ r.rc[u] = s.rc[u]
    BY TimerStepKeeps
  <2>3. ASSUME NEW u \in Task, ~Waiting(s.state[u])
        PROVE  ~Waiting(r.state[u]) /\ r.rc[u] = s.rc[u]
    BY <1>4, <2>2, <2>3
  <2>4. ASSUME NEW q \in Queue PROVE r.wq[q] = s.wq[q] \/ r.wq[q] = Unlinked(s.wq[q], t)
    <3> HIDE DEF m
    <3>1. DOMAIN c = Fields /\ (c.wq[q] = s.wq[q] \/ c.wq[q] = Unlinked(s.wq[q], t))
      <4>1. /\ DOMAIN c = Fields
            /\ c.wq[q] = IF q = m.pwait[t] THEN Unlinked(m.wq[q], t) ELSE m.wq[q]
        BY <2>1, WaitEffects
      <4> HIDE DEF c
      <4> QED BY <2>1, <4>1
    <3> HIDE DEF c
    <3>2. CASE r = m
      BY <2>1, <3>2
    <3>3. CASE r = [c EXCEPT !.rc[t] = "TIMEOUT"]
      <4>1. r.wq = c.wq
        BY <3>1, <3>3 DEF Fields
      <4> QED BY <3>1, <4>1
    <3> QED BY <1>2, <3>2, <3>3
  <2>5. ASSUME NEW q \in Queue, NEW x, NEW y, Before(r.wq[q], x, y) PROVE Before(s.wq[q], x, y)
    <3>1. s.wq[q] \in Seq(Task)
      BY <1>1 DEF Sched
    <3> QED BY <2>4, <2>5, <3>1, UnlinkedOrder
  <2>6. AllGoOn(s, r) => r.wq = s.wq
    <3> HIDE DEF m
    <3>1. CASE r = m
      BY <2>1, <3>1
    <3>2. CASE r = [c EXCEPT !.rc[t] = "TIMEOUT"]
      <4>1. DOMAIN c = Fields /\ c.state[t] = IF Suspended(m.state[t]) THEN "SUSPEND" ELSE "RUNNABLE"
        BY <2>1, WaitEffects
      <4> HIDE DEF c
      <4>2. r.state = c.state
        BY <3>2, <4>1 DEF Fields
      <4>3. ~Waiting(r.state[t])
        BY <4>1, <4>2 DEF Waiting
      <4> QED BY <1>4, <4>3 DEF AllGoOn
    <3> QED BY <1>2, <3>1, <3>2
  <2> QED BY <2>3, <2>5, <2>6 DEF KeepsOrder
<1> QED BY <1>3, <1>4

LEMMA ScanOrder ==
  ASSUME NEW s, SchedOK(s), NextReady(s), NEW ms \in BOOLEAN, NEW r, r = ScanTimeouts(s, ms)
  PROVE  KeepsOrder(s, r)
<1> DEFINE q == s.timers
           f == CHOOSE g : ScanUpTo(g, Len(q), s, q, ms)
<1>1. q \in Seq(Task) /\ Len(q) \in Nat
  BY DEF SchedOK, Sched
<1>2. ScanUpTo(f, Len(q), s, q, ms)
  <2>1. \E g : ScanUpTo(g, Len(q), s, q, ms)
    BY <1>1, ScanExists
  <2> QED BY <2>1
<1>3. r = f[Len(q)]
  BY DEF ScanTimeouts, ScanUpTo
<1> HIDE DEF f
<1>4. f[0] = s /\ \A i \in 1..Len(q) : f[i] = TimerStep(f[i-1], q[i], ms)
  <2>1. \A i \in 0..Len(q) : f[i] = IF i = 0 THEN s ELSE TimerStep(f[i-1], q[i], ms)
    BY <1>2 DEF ScanUpTo
  <2>2. 0 \in 0..Len(q) /\ \A i \in 1..Len(q) : i \in 0..Len(q) /\ i # 0
    BY <1>1
  <2> HIDE DEF q
  <2> QED BY <2>1, <2>2
<1> DEFINE Kept(x) == SchedOK(x) /\ NextReady(x) /\ KeepsOrder(s, x)
           G == {i \in 0..Len(q) : Kept(f[i])}
<1>5. 0 \in G
  BY <1>1, <1>4 DEF KeepsOrder
<1>6. ASSUME NEW i \in 1..Len(q), i-1 \in G PROVE i \in G
  <2>1. q[i] \in Task /\ f[i] = TimerStep(f[i-1], q[i], ms)
    BY <1>1, <1>4
  <2>2. PICK x, t : x = f[i-1] /\ t = q[i]
    OBVIOUS
  <2>3. SchedOK(x) /\ NextReady(x) /\ KeepsOrder(s, x) /\ t \in Task /\ f[i] = TimerStep(x, t, ms)
    BY <1>6, <2>1, <2>2
  <2>4. PICK y : y = f[i]
    OBVIOUS
  <2>5. y = TimerStep(x, t, ms)
    BY <2>3, <2>4
  <2>6. SchedOK(y) /\ NextReady(y) /\ KeepsOrder(x, y)
    BY <2>3, <2>5, TimerStepKeeps, TimerStepOrder
  <2>7. KeepsOrder(s, y)
    <3>1. AllGoOn(s, y) => AllGoOn(s, x) /\ AllGoOn(x, y)
      BY <2>3, <2>6 DEF KeepsOrder, AllGoOn
    <3> QED BY <2>3, <2>6, <3>1 DEF KeepsOrder
  <2> QED BY <2>4, <2>6, <2>7
<1> HIDE DEF G
<1>7. Len(q) \in G
  BY <1>1, <1>5, <1>6, UpTo
<1> QED BY <1>3, <1>7 DEF G

LEMMA TickOrder ==
  ASSUME IInv, SysTick
  PROVE  KeepsOrder(k, k') /\ \A u \in Task : Waiting(k.state[u]) /\ ~Waiting(k'.state[u]) => k'.rc[u] = "TIMEOUT"
<1> DEFINE ms == us_count' = 0
           s  == ScanTimeouts(k, ms)
<1>1. SchedOK(k) /\ NextReady(k) /\ ms \in BOOLEAN /\ k' = RotateUnless(s, k.next)
  BY DEF SysTick, IInv, KernelOK
<1> HIDE DEF ms
<1>2. /\ SchedOK(s) /\ NextReady(s) /\ KeepsOrder(k, s)
      /\ \A u \in Task : Waiting(k.state[u]) /\ ~Waiting(s.state[u]) => s.rc[u] = "TIMEOUT"
  BY <1>1, ScanKeeps, ScanOrder
<1> HIDE DEF s
<1>3. k'.state = s.state /\ k'.wq = s.wq /\ k'.rc = s.rc
  BY <1>1, <1>2, RotateKeeps
<1> QED BY <1>2, <1>3 DEF KeepsOrder, AllGoOn
-----------------------------------------------------------------------------
(* The variables of the channel, and its steps in terms of them *)

Cap  == Capacity(dque)
Chan == Channel(dque, elem, Senders)

Handed(t) == WaitOver(t) /\ at[t] = "receive" /\ k.rc[t] = "NO_ERR"

Given  == [t \in Task |-> IF Handed(t) THEN elem[t] ELSE NoItem]
Failed == {t \in Task : WaitOver(t) /\ k.rc[t] # "NO_ERR"}

LEMMA ChannelIs ==
  /\ Stored \o Offered = Chan /\ (Stored \o Offered)' = Chan'
  /\ \A c : Fifo!Accepted(c) = Accept(c, Cap)
  /\ \A q : Fifo!ToSet(q) = ToSet(q)
<1>1. Stored \o Offered = Chan
  BY DEF Stored, Offered, Chan, Channel, StoredIn, OfferedBy, Used
<1>2. (Stored \o Offered)' = Chan'
  BY DEF Stored, Offered, Chan, Channel, StoredIn, OfferedBy, Used, Empty, Senders
<1>3. ASSUME NEW c PROVE Fifo!Accepted(c) = Accept(c, Cap)
  BY DEF Fifo!Accepted, Accept, Cap, Capacity
<1>4. ASSUME NEW q PROVE Fifo!ToSet(q) = ToSet(q)
  BY DEF Fifo!ToSet, ToSet
<1> QED BY <1>1, <1>2, <1>3, <1>4

LEMMA OfferStep ==
  ASSUME NEW x \in Item, NEW by \in Task \cup {NoQueue},
         Cap' = Cap, Failed' = Failed, received' = NoItem,
         \/ /\ Receivers # << >> /\ Given' = [Given EXCEPT ![Head(Receivers)] = x]
            /\ Receivers' = Tail(Receivers) /\ Chan' = Chan
         \/ /\ Receivers = << >> /\ (by # NoQueue \/ Len(Chan) < Cap)
            /\ Chan' = Accept(Append(Chan, [item |-> x, from |-> by]), Cap)
            /\ Receivers' = Receivers /\ Given' = Given
  PROVE  Fifo!Next
<1>1. Fifo!Offer(x, by)
  BY ChannelIs DEF Fifo!Offer, Cap, Capacity, Given, Handed
<1> QED BY <1>1 DEF Fifo!Next, Cap, Capacity, Failed

LEMMA TakeStep ==
  ASSUME Cap' = Cap, Failed' = Failed, Given' = Given, Receivers' = Receivers,
         Chan # << >>, received' = Head(Chan).item, Chan' = Accept(Tail(Chan), Cap)
  PROVE  Fifo!Next
<1>1. Fifo!Take
  BY ChannelIs DEF Fifo!Take
<1> QED BY <1>1 DEF Fifo!Next, Cap, Capacity, Failed, Given, Handed

LEMMA AskStep ==
  ASSUME NEW t \in Task, Cap' = Cap, Failed' = Failed, Given' = Given, Chan' = Chan,
         received' = NoItem, Chan = << >>, Receivers' = Append(Receivers, t)
  PROVE  Fifo!Next
<1>1. Fifo!Ask(t)
  BY ChannelIs DEF Fifo!Ask
<1> QED BY <1>1, ChannelIs DEF Fifo!Next, Cap, Capacity, Failed, Given, Handed

LEMMA ReturnStep ==
  ASSUME NEW t \in Task, Cap' = Cap, Failed' = Failed, Chan' = Chan, Receivers' = Receivers,
         Given[t] # NoItem, received' = Given[t], Given' = [Given EXCEPT ![t] = NoItem]
  PROVE  Fifo!Next
<1>1. Fifo!Return(t)
  BY DEF Fifo!Return, Given, Handed
<1> QED BY <1>1, ChannelIs DEF Fifo!Next, Cap, Capacity, Failed

LEMMA ErrorStep ==
  ASSUME NEW t \in Task, Cap' = Cap, Given' = Given, Chan' = Chan, Receivers' = Receivers,
         received' = NoItem, t \in Failed, Failed' = Failed \ {t}
  PROVE  Fifo!Next
<1>1. Fifo!ReturnError(t)
  BY DEF Fifo!ReturnError, Failed
<1> QED BY <1>1, ChannelIs DEF Fifo!Next, Cap, Capacity, Given, Handed

LEMMA NothingStep ==
  ASSUME Cap' = Cap, Given' = Given, Chan' = Chan, Receivers' = Receivers, Failed' = Failed,
         received' = NoItem
  PROVE  Fifo!Next
<1>1. Fifo!Nothing
  BY ChannelIs DEF Fifo!Nothing, Cap, Capacity, Failed, Given, Handed
<1> QED BY <1>1 DEF Fifo!Next

LEMMA ExpireStep ==
  ASSUME NEW late \in SUBSET Task, late # {}, Cap' = Cap, Given' = Given, received' = NoItem,
         \A t \in late : t \in ToSet(Receivers) \/ \E i \in DOMAIN Chan : Chan[i].from = t,
         Fifo!Leave(late, Receivers, Receivers'),
         Fifo!Leave({c \in ToSet(Chan) : c.from \in late}, Chan, Chan'),
         Failed' = Failed \cup late
  PROVE  Fifo!Next
<1>1. Fifo!Expire(late)
  BY ChannelIs DEF Fifo!Expire, Failed
<1> QED BY <1>1 DEF Fifo!Next, Cap, Capacity, Given, Handed
-----------------------------------------------------------------------------
(***************************************************************************)
(* The inductive invariant of the channel. A task that waits does so in    *)
(* the queue of the call it has made, so that the codes and the data of    *)
(* the TCBs belong to these calls: a receive that is over with ERR_NO_ERR  *)
(* has been handed a datum.                                                *)
(***************************************************************************)
CallerOK(t) ==
  /\ Waiting(k.state[t]) => \/ k.pwait[t] = SendList /\ at[t] = "send"
                            \/ k.pwait[t] = ReceiveList /\ at[t] = "receive"
  /\ at[t] = "receive" /\ ~Waiting(k.state[t]) /\ k.rc[t] = "NO_ERR" => elem[t] \in Item
  /\ ~id_task[t] => at[t] = "none"

CallersOK == \A t \in Task : CallerOK(t)

FifoInv == DQInv /\ CallersOK

\* Who is in one of the wait queues.
LEMMA WaitersAre ==
  ASSUME FifoInv
  PROVE  /\ Senders \in Seq(Task) /\ NoDuplicates(Senders)
         /\ Receivers \in Seq(Task) /\ NoDuplicates(Receivers)
         /\ \A t \in ToSet(Senders) : /\ t \in Task /\ Waiting(k.state[t])
                                      /\ k.pwait[t] = SendList /\ at[t] = "send"
         /\ \A t \in ToSet(Receivers) : /\ t \in Task /\ Waiting(k.state[t])
                                        /\ k.pwait[t] = ReceiveList /\ at[t] = "receive"
         /\ \A t \in Task : Waiting(k.state[t]) => t \in ToSet(Senders) \cup ToSet(Receivers)
<1>1. /\ SchedOK(k) /\ k.wq \in [Queue -> Seq(Task)] /\ SendList \in Queue /\ ReceiveList \in Queue
      /\ SendList # ReceiveList /\ NoQueue \notin Queue
  BY DQueueAssumption, NoQueueAssumption
     DEF FifoInv, DQInv, IInv, KernelOK, SchedOK, Sched
<1>2. /\ NoDuplicates(Senders) /\ NoDuplicates(Receivers)
      /\ \A t \in Task : t \in ToSet(Senders) <=> k.pwait[t] = SendList
      /\ \A t \in Task : t \in ToSet(Receivers) <=> k.pwait[t] = ReceiveList
  BY <1>1 DEF SchedOK, WaitQueuesOK, Senders, Receivers
<1>3. \A t \in Task : k.pwait[t] # NoQueue => Waiting(k.state[t])
  BY <1>1 DEF SchedOK, WaitFieldsOK
<1>4. Senders \in Seq(Task) /\ Receivers \in Seq(Task)
  BY <1>1 DEF Senders, Receivers
<1>5. \A t : t \in ToSet(Senders) \cup ToSet(Receivers) => t \in Task
  BY <1>4 DEF ToSet
<1>6. \A t \in Task : CallerOK(t)
  BY DEF FifoInv, CallersOK
<1> QED BY <1>1, <1>2, <1>3, <1>4, <1>5, <1>6 DEF CallerOK

\* A task of whose call a step leaves alone what the channel shows.
SameCaller(t) ==
  /\ at'[t] = at[t] /\ elem'[t] = elem[t]
  /\ Waiting(k'.state[t]) <=> Waiting(k.state[t])
  /\ Waiting(k.state[t]) => k'.pwait[t] = k.pwait[t]
  /\ Waiting(k.state[t]) \/ at[t] = "none" \/ k'.rc[t] = k.rc[t]
  /\ id_task[t] => id_task'[t]

LEMMA SameCallerShows ==
  ASSUME NEW t \in Task, SameCaller(t)
  PROVE  /\ CallerOK(t) => CallerOK(t)'
         /\ Given'[t] = Given[t] /\ (t \in Failed' <=> t \in Failed)
<1>1. CallerOK(t) => CallerOK(t)'
  BY DEF SameCaller, CallerOK
<1>2. WaitOver(t)' <=> WaitOver(t)
  BY DEF SameCaller, WaitOver
<1>3. Handed(t)' <=> Handed(t)
  BY <1>2 DEF SameCaller, Handed, WaitOver
<1>4. t \in Failed' <=> t \in Failed
  BY <1>2 DEF SameCaller, Failed, WaitOver
<1>5. Given'[t] = Given[t]
  BY <1>3 DEF SameCaller, Given
<1> QED BY <1>1, <1>4, <1>5

\* Where a step leaves all callers but those of T alone.
LEMMA OtherCallers ==
  ASSUME CallersOK, NEW T, \A t \in Task \ T : SameCaller(t)
  PROVE  /\ \A t \in Task \ T : /\ CallerOK(t)' /\ Given'[t] = Given[t]
                                /\ t \in Failed' <=> t \in Failed
         /\ (\A t \in T : CallerOK(t)') => CallersOK'
<1>1. \A t \in Task \ T : /\ CallerOK(t)' /\ Given'[t] = Given[t]
                          /\ t \in Failed' <=> t \in Failed
  BY SameCallerShows DEF CallersOK
<1> QED BY <1>1 DEF CallersOK

LEMMA AllButOne ==
  ASSUME CallersOK, NEW t \in Task, \A u \in Task \ {t} : SameCaller(u), CallerOK(t)'
  PROVE  /\ CallersOK'
         /\ \A u \in Task \ {t} : Given'[u] = Given[u] /\ (u \in Failed' <=> u \in Failed)
<1>1. /\ \A u \in Task \ {t} : /\ CallerOK(u)' /\ Given'[u] = Given[u]
                               /\ u \in Failed' <=> u \in Failed
  BY SameCallerShows DEF CallersOK
<1>2. CallersOK'
  BY <1>1 DEF CallersOK
<1> QED BY <1>1, <1>2

\* The end of a task's wait, by a call or a handler of the data queue.
LEMMA WaitOfCallerEnds ==
  ASSUME FifoInv, NEW t \in Task, Waiting(k.state[t]), k' = task_wait_complete(k, t),
         at' = at, id_task' = id_task, \A u \in Task \ {t} : elem'[u] = elem[u]
  PROVE  /\ \A u \in Task \ {t} : SameCaller(u)
         /\ ~Waiting(k'.state[t]) /\ k'.rc[t] = "NO_ERR" /\ at[t] # "none" /\ id_task[t]
         /\ \A q \in Queue : k'.wq[q] = IF q = k.pwait[t] THEN Unlinked(k.wq[q], t) ELSE k.wq[q]
<1>1. k \in Sched
  BY DEF FifoInv, DQInv, IInv, KernelOK, SchedOK
<1>2. /\ k'.state[t] = (IF Suspended(k.state[t]) THEN "SUSPEND" ELSE "RUNNABLE")
      /\ k'.rc[t] = "NO_ERR"
      /\ \A u \in Task \ {t} :
           /\ k'.state[u] = k.state[u] /\ k'.pwait[u] = k.pwait[u] /\ k'.rc[u] = k.rc[u]
      /\ \A q \in Queue : k'.wq[q] = IF q = k.pwait[t] THEN Unlinked(k.wq[q], t) ELSE k.wq[q]
  BY <1>1, WaitEffects
<1>3. ~Waiting(k'.state[t])
  BY <1>2 DEF Waiting
<1>4. at[t] # "none" /\ id_task[t]
  BY DEF FifoInv, CallersOK, CallerOK
<1>5. \A u \in Task \ {t} : SameCaller(u)
  BY <1>2 DEF SameCaller
<1> QED BY <1>2, <1>3, <1>4, <1>5

\* The functions of the tasks that the channel shows, where one or no value changes.
LEMMA GivenIs ==
  ASSUME NEW t \in Task, NEW x, Given'[t] = x, \A u \in Task \ {t} : Given'[u] = Given[u]
  PROVE  Given' = [Given EXCEPT ![t] = x]
BY DEF Given

LEMMA GivenStays ==
  ASSUME \A u \in Task : Given'[u] = Given[u]
  PROVE  Given' = Given
BY DEF Given

LEMMA FailedStays ==
  ASSUME \A u \in Task : u \in Failed' <=> u \in Failed
  PROVE  Failed' = Failed
BY DEF Failed

\* The same of all of them.
LEMMA NoCallerShows ==
  ASSUME CallersOK, k' = k, elem' = elem, at' = at, id_task' = id_task
  PROVE  CallersOK' /\ Given' = Given /\ Failed' = Failed
<1>1. \A u \in Task : SameCaller(u)
  BY DEF SameCaller
<1>2. \A u \in Task : CallerOK(u)' /\ Given'[u] = Given[u] /\ (u \in Failed' <=> u \in Failed)
  BY <1>1, SameCallerShows DEF CallersOK
<1> QED BY <1>2, GivenStays, FailedStays DEF CallersOK

LEMMA ChanStays ==
  ASSUME dque' = dque, Senders' = Senders, Senders \in Seq(Task),
         \A t \in ToSet(Senders) : elem'[t] = elem[t]
  PROVE  Chan' = Chan
<1>1. \A i \in DOMAIN Senders : elem'[Senders[i]] = elem[Senders[i]]
  BY DEF ToSet
<1>2. OfferedBy(elem', Senders) = OfferedBy(elem, Senders)
  BY <1>1 DEF OfferedBy
<1> QED BY <1>2 DEF Chan, Channel
-----------------------------------------------------------------------------
(* Each step of the queue is a step of the channel *)

\* The first receiver that waits is handed the datum.
LEMMA HandOverStep ==
  ASSUME FifoInv, NEW x \in Item, HandOver(x), at' = at, id_task' = id_task, received' = NoItem
  PROVE  CallersOK' /\ Fifo!Next
<1>0. PICK t : t = Head(Receivers)
  OBVIOUS
<1>1. /\ Receivers # << >> /\ elem' = [elem EXCEPT ![t] = x] /\ dque' = dque
      /\ k' = task_wait_complete(k, t)
  BY <1>0 DEF HandOver, Ends
<1>2. /\ Receivers \in Seq(Task) /\ NoDuplicates(Receivers) /\ Senders = << >>
      /\ elem \in [Task -> Data] /\ SendList \in Queue /\ ReceiveList \in Queue
      /\ SendList # ReceiveList
  BY <1>1, WaitersAre, DQueueAssumption DEF FifoInv, DQInv, ObjectOK, NoneWaitsInVain
<1>3. /\ t \in Task /\ Waiting(k.state[t]) /\ k.pwait[t] = ReceiveList /\ at[t] = "receive"
  <2>1. t \in ToSet(Receivers)
    BY <1>0, <1>1, <1>2 DEF ToSet
  <2> QED BY <2>1, WaitersAre
<1>4. elem'[t] = x /\ \A u \in Task \ {t} : elem'[u] = elem[u]
  BY <1>1, <1>2, <1>3
<1>5. /\ \A u \in Task \ {t} : SameCaller(u)
      /\ ~Waiting(k'.state[t]) /\ k'.rc[t] = "NO_ERR" /\ id_task[t]
      /\ \A q \in Queue : k'.wq[q] = IF q = k.pwait[t] THEN Unlinked(k.wq[q], t) ELSE k.wq[q]
  BY <1>1, <1>3, <1>4, WaitOfCallerEnds
<1>6. Receivers' = Tail(Receivers) /\ Senders' = Senders
  <2>1. Unlinked(Receivers, t) = Tail(Receivers)
    BY <1>1, <1>2, UnlinkedHead, <1>0
  <2> QED BY <1>2, <1>3, <1>5, <2>1 DEF Senders, Receivers
<1>7. CallerOK(t)'
  <2>1. ~Waiting(k'.state[t]) /\ id_task'[t] /\ elem'[t] \in Item
    BY <1>4, <1>5
  <2> QED BY <2>1 DEF CallerOK
<1>8. /\ CallersOK'
      /\ \A u \in Task \ {t} : Given'[u] = Given[u] /\ (u \in Failed' <=> u \in Failed)
  BY <1>3, <1>5, <1>7, AllButOne DEF FifoInv
<1>9. Given'[t] = x /\ t \notin Failed' /\ t \notin Failed
  BY <1>3, <1>4, <1>5 DEF Given, Failed, Handed, WaitOver
<1>10. Given' = [Given EXCEPT ![t] = x] /\ Failed' = Failed
  BY <1>3, <1>8, <1>9, GivenIs, FailedStays
<1>11. Chan' = Chan /\ Cap' = Cap
  <2>1. \A u \in ToSet(Senders) : elem'[u] = elem[u]
    BY <1>2 DEF ToSet
  <2>2. Senders \in Seq(Task)
    BY <1>2
  <2> QED BY <1>1, <1>6, <2>1, <2>2, ChanStays DEF Cap
<1> QED BY <1>1, <1>6, <1>8, <1>10, <1>11, OfferStep, <1>0

\* A datum is stored.
LEMMA StoreStep ==
  ASSUME FifoInv, NEW x \in Item, Store(x), at' = at, id_task' = id_task, received' = NoItem
  PROVE  CallersOK' /\ Fifo!Next
<1>1. /\ k' = k /\ elem' = elem /\ dque' = dque_fifo_write(dque, x)
      /\ Receivers = << >> /\ ~Full(dque)
  BY DEF Store
<1>2. Senders = << >> /\ Senders \in Seq(Task) /\ RingOK(dque) /\ elem \in [Task -> Data] /\ x \in Data
  BY <1>1, WaitersAre DEF FifoInv, DQInv, ObjectOK, NoneWaitsInVain, Data
<1>3. CallersOK
  BY DEF FifoInv
<1>4. CallersOK' /\ Given' = Given /\ Failed' = Failed
  BY <1>1, <1>3, NoCallerShows
<1>5. Senders' = Senders /\ Receivers' = Receivers
  BY <1>1 DEF Senders, Receivers
<1>6. Cap' = Cap
  <2>1. PICK r : r = dque'
    OBVIOUS
  <2>2. r.num = dque.num
    BY <1>1, <1>2, <2>1, WriteKeepsRing
  <2> QED BY <2>1, <2>2 DEF Cap, Capacity
<1>7. /\ Chan' = Accept(Append(Chan, [item |-> x, from |-> NoQueue]), Cap)
      /\ Len(Chan) < Cap
  <2>1. PICK r, q : r = dque' /\ q = Senders
    OBVIOUS
  <2>2. /\ Channel(r, elem, q)
              = Accept(Append(Channel(dque, elem, q), [item |-> x, from |-> NoQueue]), Capacity(dque))
        /\ Len(Channel(dque, elem, q)) < Capacity(dque)
    BY <1>1, <1>2, <2>1, StoringOffers
  <2> QED BY <1>1, <1>5, <2>1, <2>2 DEF Chan, Cap
<1> QED BY <1>1, <1>4, <1>5, <1>6, <1>7, OfferStep

\* The first sender that waits is relieved: its call succeeds.
LEMMA RelieveShows ==
  ASSUME FifoInv, Senders # << >>, Relieve, at' = at, id_task' = id_task
  PROVE  /\ CallersOK' /\ Given' = Given /\ Failed' = Failed
         /\ Senders' = Tail(Senders) /\ Receivers' = Receivers
<1>0. PICK t : t = Head(Senders)
  OBVIOUS
<1>1. elem' = [elem EXCEPT ![t] = NoItem] /\ k' = task_wait_complete(k, t)
  BY <1>0 DEF Relieve, Ends
<1>2. /\ Senders \in Seq(Task) /\ NoDuplicates(Senders)
      /\ elem \in [Task -> Data] /\ SendList \in Queue /\ ReceiveList \in Queue
      /\ SendList # ReceiveList
  BY WaitersAre, DQueueAssumption DEF FifoInv, DQInv, ObjectOK
<1>3. /\ t \in Task /\ Waiting(k.state[t]) /\ k.pwait[t] = SendList /\ at[t] = "send"
  <2>1. t \in ToSet(Senders)
    BY <1>0, <1>2 DEF ToSet
  <2> QED BY <2>1, WaitersAre
<1>4. \A u \in Task \ {t} : elem'[u] = elem[u]
  BY <1>1, <1>2, <1>3
<1>5. /\ \A u \in Task \ {t} : SameCaller(u)
      /\ ~Waiting(k'.state[t]) /\ k'.rc[t] = "NO_ERR" /\ id_task[t]
      /\ \A q \in Queue : k'.wq[q] = IF q = k.pwait[t] THEN Unlinked(k.wq[q], t) ELSE k.wq[q]
  BY <1>1, <1>3, <1>4, WaitOfCallerEnds
<1>6. Senders' = Tail(Senders) /\ Receivers' = Receivers
  <2>1. Unlinked(Senders, t) = Tail(Senders)
    BY <1>0, <1>2, UnlinkedHead
  <2> QED BY <1>2, <1>3, <1>5, <2>1 DEF Senders, Receivers
<1>7. CallerOK(t)'
  <2>1. ~Waiting(k'.state[t]) /\ id_task'[t] /\ at'[t] = "send"
    BY <1>3, <1>5
  <2> QED BY <2>1 DEF CallerOK
<1>8. /\ CallersOK'
      /\ \A u \in Task \ {t} : Given'[u] = Given[u] /\ (u \in Failed' <=> u \in Failed)
  BY <1>3, <1>5, <1>7, AllButOne DEF FifoInv
<1>9. Given'[t] = Given[t] /\ t \notin Failed' /\ t \notin Failed
  <2>1. at'[t] = "send"
    BY <1>3
  <2> QED BY <1>3, <1>5, <2>1 DEF Given, Failed, Handed, WaitOver
<1>10. Given' = Given /\ Failed' = Failed
  BY <1>8, <1>9, GivenStays, FailedStays
<1> QED BY <1>6, <1>8, <1>10

\* A datum is taken, from the storage or from the first sender that waits.
LEMMA ReceivingStep ==
  ASSUME FifoInv, Receive, at' = at, id_task' = id_task
  PROVE  CallersOK' /\ Fifo!Next
<1>1. PICK d, e, f, q, r : d = dque /\ e = elem /\ f = elem' /\ q = Senders /\ r = dque'
  OBVIOUS
<1>2. /\ RingOK(d) /\ e \in [Task -> Data] /\ q \in Seq(Task) /\ NoDuplicates(q)
      /\ CallersOK
      /\ q # << >> => Full(d)
      /\ Chan = Channel(d, e, q) /\ Cap = Capacity(d)
      /\ r.num = d.num
  <2>1. dque'.num = dque.num
    BY ReceiveKeeps DEF FifoInv
  <2> QED BY <1>1, <2>1, WaitersAre DEF FifoInv, DQInv, ObjectOK, NoneWaitsInVain, Chan, Cap
<1>3. Cap' = Cap /\ Chan' = Channel(r, f, Senders')
  BY <1>1, <1>2 DEF Chan, Cap, Capacity
<1>4. CASE Senders # << >>
  <2>1. Relieve
    BY <1>4 DEF Receive, ReceiveStored, ReceiveDirect
  <2>2. /\ CallersOK' /\ Given' = Given /\ Failed' = Failed
        /\ Senders' = Tail(Senders) /\ Receivers' = Receivers
    BY <1>4, <2>1, RelieveShows
  <2>3. q # << >> /\ Full(d) /\ f = [e EXCEPT ![Head(q)] = NoItem] /\ Chan' = Channel(r, f, Tail(q))
    BY <1>1, <1>2, <1>3, <1>4, <2>1, <2>2 DEF Relieve
  <2>4. CASE ReceiveStored
    <3>1. /\ ~Empty(d) /\ received' = d.fifo[d.tail]
          /\ r = dque_fifo_write(dque_fifo_read(d), e[Head(q)])
      BY <1>1, <1>4, <2>4 DEF ReceiveStored
    <3>2. /\ Channel(d, e, q) # << >> /\ Head(Channel(d, e, q)).item = d.fifo[d.tail]
          /\ Channel(r, f, Tail(q)) = Accept(Tail(Channel(d, e, q)), Capacity(d))
      <4>1. RingOK(d) /\ ~Empty(d) /\ Full(d) /\ e \in [Task -> Data]
        BY <1>2, <2>3, <3>1
      <4>2. q \in Seq(Task) /\ NoDuplicates(q) /\ q # << >>
        BY <1>2, <2>3
      <4>3. f = [e EXCEPT ![Head(q)] = NoItem]
        BY <2>3
      <4>4. r = dque_fifo_write(dque_fifo_read(d), e[Head(q)])
        BY <3>1
      <4>5. /\ Channel(d, e, q) # << >> /\ Head(Channel(d, e, q)).item = d.fifo[d.tail]
            /\ \A g, z : /\ g = [e EXCEPT ![Head(q)] = NoItem]
                        /\ z = dque_fifo_write(dque_fifo_read(d), e[Head(q)])
                 => Channel(z, g, Tail(q)) = Accept(Tail(Channel(d, e, q)), Capacity(d))
        BY <4>1, <4>2, RefillingTakes
      <4> QED BY <4>3, <4>4, <4>5, Zenon
    <3> QED BY <1>2, <1>3, <2>2, <2>3, <3>1, <3>2, TakeStep
  <2>5. CASE ReceiveDirect
    <3>1. Empty(d) /\ received' = e[Head(q)] /\ r = d
      BY <1>1, <2>5 DEF ReceiveDirect
    <3>2. /\ Channel(d, e, q) # << >> /\ Head(Channel(d, e, q)).item = e[Head(q)]
          /\ Channel(d, f, Tail(q)) = Accept(Tail(Channel(d, e, q)), Capacity(d))
      BY <1>2, <2>3, <3>1, DirectTakes
    <3> QED BY <1>2, <1>3, <2>2, <2>3, <3>1, <3>2, TakeStep
  <2> QED BY <2>4, <2>5 DEF Receive
<1>5. CASE Senders = << >>
  <2>1. /\ ~Empty(d) /\ received' = d.fifo[d.tail] /\ k' = k /\ elem' = elem
        /\ r = dque_fifo_read(d)
    BY <1>1, <1>5 DEF Receive, ReceiveStored, ReceiveDirect
  <2>2. /\ CallersOK' /\ Given' = Given /\ Failed' = Failed
    BY <1>2, <2>1, NoCallerShows
  <2>3. Senders' = Senders /\ Receivers' = Receivers
    BY <2>1 DEF Senders, Receivers
  <2>4. q = << >> /\ f = e /\ Chan' = Channel(r, e, q)
    BY <1>1, <1>3, <1>5, <2>1, <2>3
  <2>5. /\ Channel(d, e, q) # << >> /\ Head(Channel(d, e, q)).item = d.fifo[d.tail]
        /\ Channel(r, e, q) = Accept(Tail(Channel(d, e, q)), Capacity(d))
    BY <1>2, <2>1, <2>4, ReadingTakes
  <2> QED BY <1>2, <1>3, <2>1, <2>2, <2>3, <2>4, <2>5, TakeStep
<1> QED BY <1>4, <1>5

\* The caller starts to wait in the queue q by the call c.
LEMMA CallerStarts ==
  ASSUME FifoInv, Begins, NEW q \in Queue, NEW reason, NEW timeout,
         Waits(q, reason, timeout), NEW c, at' = [at EXCEPT ![curr] = c],
         \/ q = SendList /\ c = "send"
         \/ q = ReceiveList /\ c = "receive",
         \A u \in Task \ {curr} : elem'[u] = elem[u]
  PROVE  /\ CallersOK' /\ Given' = Given /\ Failed' = Failed /\ Cap' = Cap
         /\ curr \in Task /\ curr \notin ToSet(Senders)
         /\ \A x \in Queue : k'.wq[x] = IF x = q THEN Append(k.wq[x], curr) ELSE k.wq[x]
<1>1. PICK t : t = curr
  OBVIOUS
<1>2. /\ t \in Task /\ k.state[t] = "RUNNABLE" /\ k \in Sched /\ id_task[t] /\ at[t] = "none"
  <2>1. IInv /\ Calls(curr) /\ at[curr] = "none"
    BY DEF FifoInv, DQInv, Begins
  <2>2. curr \in Task /\ k.state[curr] = "RUNNABLE" /\ SchedOK(k)
    BY <2>1, CallerIsReady
  <2>3. id_task[curr]
    BY <2>1, <2>2, NobodyEnds DEF IInv, UncreatedRest
  <2> QED BY <1>1, <2>1, <2>2, <2>3 DEF SchedOK
<1>3. ~Waiting(k.state[t]) /\ at \in [Task -> {"none", "send", "receive"}]
  BY <1>2 DEF Waiting, FifoInv, DQInv, ObjectOK
<1>4. /\ k' = task_curr_to_wait_action(k, t, q, reason, timeout)
      /\ dque' = dque /\ id_task' = id_task /\ at' = [at EXCEPT ![t] = c]
  BY <1>1 DEF Waits, UnchangedTasks
<1>5. /\ k'.state[t] = "WAIT" /\ k'.pwait[t] = q
      /\ \A u \in Task \ {t} : k'.state[u] = k.state[u] /\ k'.pwait[u] = k.pwait[u]
      /\ \A x \in Queue : k'.wq[x] = IF x = q THEN Append(k.wq[x], t) ELSE k.wq[x]
      /\ k'.rc = k.rc
  BY <1>2, <1>4, CurrentWaitEffects
<1>6. at'[t] = c /\ Waiting(k'.state[t]) /\ \A u \in Task \ {t} : at'[u] = at[u]
  BY <1>2, <1>3, <1>4, <1>5 DEF Waiting
<1>7. \A u \in Task \ {t} : SameCaller(u)
  BY <1>1, <1>4, <1>5, <1>6 DEF SameCaller
<1>8. CallerOK(t)'
  <2>1. \/ k'.pwait[t] = SendList /\ at'[t] = "send"
        \/ k'.pwait[t] = ReceiveList /\ at'[t] = "receive"
    BY <1>5, <1>6
  <2>2. Waiting(k'.state[t]) /\ id_task'[t]
    BY <1>2, <1>4, <1>6
  <2> QED BY <2>1, <2>2 DEF CallerOK
<1>9. /\ CallersOK'
      /\ \A u \in Task \ {t} : Given'[u] = Given[u] /\ (u \in Failed' <=> u \in Failed)
  BY <1>2, <1>7, <1>8, AllButOne DEF FifoInv
<1>10. Given'[t] = Given[t] /\ t \notin Failed' /\ t \notin Failed
  BY <1>2, <1>3, <1>6 DEF Given, Failed, Handed, WaitOver
<1>11. Given' = Given /\ Failed' = Failed
  BY <1>9, <1>10, GivenStays, FailedStays
<1>12. t \notin ToSet(Senders)
  BY <1>3, WaitersAre
<1>13. Cap' = Cap
  BY <1>4 DEF Cap
<1> QED BY <1>1, <1>2, <1>5, <1>9, <1>11, <1>12, <1>13

\* A sender waits with its datum.
LEMMA SendWaitsStep ==
  ASSUME FifoInv, Begins, NEW x \in Item, NEW timeout, Receivers = << >>, Full(dque),
         elem' = [elem EXCEPT ![curr] = x], at' = [at EXCEPT ![curr] = "send"],
         Waits(SendList, "DQUE_WSEND", timeout)
  PROVE  CallersOK' /\ Fifo!Next
<1>1. SendList \in Queue /\ ReceiveList \in Queue /\ SendList # ReceiveList
  BY DQueueAssumption
<1>2. \A u \in Task \ {curr} : elem'[u] = elem[u]
  BY DEF FifoInv, DQInv, ObjectOK
<1>3. /\ CallersOK' /\ Given' = Given /\ Failed' = Failed /\ Cap' = Cap
      /\ curr \in Task /\ curr \notin ToSet(Senders)
      /\ \A y \in Queue : k'.wq[y] = IF y = SendList THEN Append(k.wq[y], curr) ELSE k.wq[y]
  BY <1>1, <1>2, CallerStarts
<1>4. Senders' = Append(Senders, curr) /\ Receivers' = Receivers
  BY <1>1, <1>3 DEF Senders, Receivers
<1>5. PICK d, e, f, q, t : d = dque /\ e = elem /\ f = elem' /\ q = Senders /\ t = curr
  OBVIOUS
<1>6. /\ RingOK(d) /\ Full(d) /\ q \in Seq(Task) /\ t \in Task /\ t \notin ToSet(q)
      /\ x \in Data /\ e \in [Task -> Data] /\ f = [e EXCEPT ![t] = x]
  BY <1>3, <1>5, WaitersAre DEF FifoInv, DQInv, ObjectOK, Data
<1>7. Channel(d, f, Append(q, t)) = Accept(Append(Channel(d, e, q), [item |-> x, from |-> t]), Capacity(d))
  <2>1. RingOK(d) /\ Full(d)
    BY <1>6
  <2>2. q \in Seq(Task) /\ t \in Task /\ t \notin ToSet(q)
    BY <1>6
  <2>3. x \in Data /\ e \in [Task -> Data]
    BY <1>6
  <2>4. f = [e EXCEPT ![t] = x]
    BY <1>6
  <2>5. \A g : g = [e EXCEPT ![t] = x]
              => Channel(d, g, Append(q, t))
                   = Accept(Append(Channel(d, e, q), [item |-> x, from |-> t]), Capacity(d))
    BY <2>1, <2>2, <2>3, WaitingOffers, ZenonT(60)
  <2> QED BY <2>4, <2>5
<1>8. dque' = dque /\ received' = NoItem
  BY DEF Waits
<1>9. /\ Chan' = Channel(d, f, Append(q, t)) /\ Chan = Channel(d, e, q) /\ Cap = Capacity(d)
  BY <1>4, <1>5, <1>8 DEF Chan, Cap
<1>10. curr # NoQueue
  BY <1>3, DQueueAssumption
<1>11. Chan' = Accept(Append(Chan, [item |-> x, from |-> curr]), Cap)
  BY <1>5, <1>7, <1>9
<1> QED BY <1>3, <1>4, <1>8, <1>10, <1>11, OfferStep

\* A receiver waits while the channel is empty.
LEMMA ReceiveWaitsStep ==
  ASSUME FifoInv, Begins, NEW timeout, Empty(dque), Senders = << >>,
         elem' = elem, at' = [at EXCEPT ![curr] = "receive"],
         Waits(ReceiveList, "DQUE_WRECEIVE", timeout)
  PROVE  CallersOK' /\ Fifo!Next
<1>1. SendList \in Queue /\ ReceiveList \in Queue /\ SendList # ReceiveList
  BY DQueueAssumption
<1>2. \A u \in Task \ {curr} : elem'[u] = elem[u]
  OBVIOUS
<1>3. /\ CallersOK' /\ Given' = Given /\ Failed' = Failed /\ Cap' = Cap
      /\ curr \in Task
      /\ \A y \in Queue : k'.wq[y] = IF y = ReceiveList THEN Append(k.wq[y], curr) ELSE k.wq[y]
  BY <1>1, <1>2, CallerStarts
<1>4. Receivers' = Append(Receivers, curr) /\ Senders' = Senders
  BY <1>1, <1>3 DEF Senders, Receivers
<1>5. dque' = dque /\ received' = NoItem
  BY DEF Waits
<1>6. Chan' = Chan
  BY <1>4, <1>5 DEF Chan
<1>7. Chan = << >>
  <2>1. PICK d, e, q : d = dque /\ e = elem /\ q = Senders
    OBVIOUS
  <2>2. RingOK(d) /\ e \in [Task -> Data] /\ q \in Seq(Task) /\ Len(q) = 0 /\ Used(d) = 0
    BY <2>1 DEF FifoInv, DQInv, ObjectOK, Used
  <2>3. Channel(d, e, q) \in Seq(Datum) /\ Len(Channel(d, e, q)) = Used(d) + Len(q)
    BY <2>2, ChannelPlaces
  <2>4. PICK c : c = Channel(d, e, q)
    OBVIOUS
  <2>5. c = << >>
    BY <2>2, <2>3, <2>4
  <2> QED BY <2>1, <2>4, <2>5 DEF Chan
<1> QED BY <1>3, <1>4, <1>5, <1>6, <1>7, AskStep

\* The second half of a call that has waited.
LEMMA AfterWaitStep ==
  ASSUME FifoInv, AfterWait
  PROVE  CallersOK' /\ Fifo!Next
<1>1. PICK t : t = curr
  OBVIOUS
<1>2. /\ Calls(t) /\ at[t] # "none" /\ at' = [at EXCEPT ![t] = "none"]
      /\ received' = IF at[t] = "receive" /\ k.rc[t] = "NO_ERR" THEN elem[t] ELSE NoItem
      /\ elem' = [elem EXCEPT ![t] = NoItem]
      /\ k' = k /\ dque' = dque /\ id_task' = id_task
  BY <1>1 DEF AfterWait, UnchangedTasks
<1>3. /\ IInv /\ at \in [Task -> {"none", "send", "receive"}] /\ elem \in [Task -> Data]
      /\ CallersOK
  BY DEF FifoInv, DQInv, ObjectOK
<1>4. t \in Task /\ k.state[t] = "RUNNABLE" /\ ~Waiting(k.state[t])
  BY <1>1, <1>2, <1>3, CallerIsReady DEF Waiting
<1>5. at'[t] = "none" /\ \A u \in Task \ {t} : at'[u] = at[u] /\ elem'[u] = elem[u]
  BY <1>2, <1>3, <1>4
<1>6. \A u \in Task \ {t} : SameCaller(u)
  BY <1>2, <1>5 DEF SameCaller
<1>7. CallerOK(t)'
  BY <1>2, <1>4, <1>5 DEF CallerOK
<1>8. /\ CallersOK'
      /\ \A u \in Task \ {t} : Given'[u] = Given[u] /\ (u \in Failed' <=> u \in Failed)
  BY <1>3, <1>4, <1>6, <1>7, AllButOne
<1>9. Given'[t] = NoItem /\ t \notin Failed'
  BY <1>4, <1>5 DEF Given, Failed, Handed, WaitOver
<1>10. Senders' = Senders /\ Receivers' = Receivers /\ Cap' = Cap
  BY <1>2 DEF Senders, Receivers, Cap
<1>11. Chan' = Chan
  <2>1. t \notin ToSet(Senders) /\ Senders \in Seq(Task)
    BY <1>4, WaitersAre
  <2>2. \A u \in ToSet(Senders) : elem'[u] = elem[u]
    BY <1>5, <2>1 DEF ToSet
  <2> QED BY <1>2, <1>10, <2>1, <2>2, ChanStays
<1>12. CASE k.rc[t] # "NO_ERR"
  <2>1. Given[t] = NoItem /\ t \in Failed /\ received' = NoItem
    BY <1>2, <1>4, <1>12 DEF Given, Failed, Handed, WaitOver
  <2>2. Given' = Given
    BY <1>8, <1>9, <2>1, GivenStays
  <2>3. Failed' = Failed \ {t}
    BY <1>8, <1>9 DEF Failed
  <2> QED BY <1>4, <1>8, <1>10, <1>11, <2>1, <2>2, <2>3, ErrorStep
<1>13. CASE k.rc[t] = "NO_ERR"
  <2>1. t \notin Failed
    BY <1>13 DEF Failed
  <2>2. Failed' = Failed
    BY <1>8, <1>9, <2>1, FailedStays
  <2>3. CASE at[t] = "receive"
    <3>1. elem[t] \in Item /\ NoItem \notin Item
      BY <1>3, <1>4, <1>13, <2>3, DQueueAssumption DEF CallersOK, CallerOK
    <3>2. Given[t] = elem[t] /\ received' = elem[t]
      BY <1>2, <1>4, <1>13, <2>3 DEF Given, Handed, WaitOver
    <3>3. Given' = [Given EXCEPT ![t] = NoItem]
      BY <1>4, <1>8, <1>9, GivenIs
    <3> QED BY <1>4, <1>8, <1>10, <1>11, <2>2, <3>1, <3>2, <3>3, ReturnStep
  <2>4. CASE at[t] # "receive"
    <3>1. Given[t] = NoItem /\ received' = NoItem
      BY <1>2, <1>4, <2>4 DEF Given, Handed
    <3>2. Given' = Given
      BY <1>8, <1>9, <3>1, GivenStays
    <3> QED BY <1>8, <1>10, <1>11, <2>2, <3>1, <3>2, NothingStep
  <2> QED BY <2>3, <2>4
<1> QED BY <1>12, <1>13
-----------------------------------------------------------------------------
(* The steps of the tasks and of the kernel change nothing of the channel, but for the tick *)

\* A step by which nobody starts or ends a wait, and which writes no code of a call.
LEMMA OtherStep ==
  ASSUME FifoInv, DQUnchanged, k'.wq = k.wq, \A u \in Task : SameCaller(u)
  PROVE  CallersOK' /\ Fifo!Next
<1>1. dque' = dque /\ elem' = elem /\ at' = at /\ received' = NoItem /\ CallersOK
  BY DEF DQUnchanged, FifoInv
<1>2. \A u \in Task : CallerOK(u)' /\ Given'[u] = Given[u] /\ (u \in Failed' <=> u \in Failed)
  BY <1>1, SameCallerShows DEF CallersOK
<1>3. CallersOK' /\ Given' = Given /\ Failed' = Failed
  BY <1>2, GivenStays, FailedStays DEF CallersOK
<1>4. Senders' = Senders /\ Receivers' = Receivers /\ Cap' = Cap
  BY <1>1 DEF Senders, Receivers, Cap
<1>5. Chan' = Chan
  BY <1>1, <1>4 DEF Chan
<1> QED BY <1>1, <1>3, <1>4, <1>5, NothingStep

LEMMA CreationStep ==
  ASSUME FifoInv, CreatesNext, DQUnchanged
  PROVE  CallersOK' /\ Fifo!Next
<1>1. PICK i \in DOMAIN Order : kern_task_create(Order[i], StartPriority, TRUE)
  BY DEF CreatesNext
<1>2. PICK t : t = Order[i]
  OBVIOUS
<1>3. t \in Task /\ kern_task_create(t, StartPriority, TRUE) /\ TRUE \in BOOLEAN
  <2>1. Order[i] \in Task
    BY StartAssumption
  <2> QED BY <1>1, <1>2, <2>1
<1>4. /\ IInv /\ CallersOK /\ at' = at /\ elem' = elem /\ id_task \in [Task -> BOOLEAN]
  BY DEF FifoInv, DQInv, DQUnchanged, IInv, VariablesOK
<1>5. SameWaits(k, k') /\ \A u \in Task \ {t} : k'.rc[u] = k.rc[u]
  BY <1>3, <1>4, CreationLeavesWaits
<1>6. at[t] = "none" /\ id_task' = [id_task EXCEPT ![t] = TRUE]
  BY <1>3, <1>4 DEF kern_task_create, CallersOK, CallerOK
<1>7. \A u \in Task : SameCaller(u)
  BY <1>3, <1>4, <1>5, <1>6 DEF SameCaller, SameWaits
<1> QED BY <1>5, <1>7, OtherStep DEF SameWaits

LEMMA SuspensionStep ==
  ASSUME FifoInv, NEW t \in Suspendable, kern_task_suspend(t) \/ kern_task_resume(t),
         DQUnchanged
  PROVE  CallersOK' /\ Fifo!Next
<1>1. /\ IInv /\ t \in Task /\ at' = at /\ elem' = elem /\ id_task' = id_task
  BY TasksAssumption
     DEF FifoInv, DQInv, DQUnchanged, kern_task_suspend, kern_task_resume, UnchangedTasks
<1>2. SameWaits(k, k') /\ k'.rc = k.rc
  BY <1>1, SuspensionLeavesWaits
<1>3. \A u \in Task : SameCaller(u)
  BY <1>1, <1>2 DEF SameCaller, SameWaits
<1> QED BY <1>2, <1>3, OtherStep DEF SameWaits

LEMMA SwitchingStep ==
  ASSUME FifoInv, TestNext \/ SwitchContext \/ PendSV, DQUnchanged
  PROVE  CallersOK' /\ Fifo!Next
<1>1. k' = k /\ id_task' = id_task /\ at' = at /\ elem' = elem
  BY DEF TestNext, SwitchContext, PendSV, DQUnchanged
<1>2. \A u \in Task : SameCaller(u)
  BY <1>1 DEF SameCaller
<1> QED BY <1>1, <1>2, OtherStep

\* Outside an interrupts-disabled region the wait queues and the TCBs agree.
LEMMA QueuesAre ==
  ASSUME NEW s, SchedOK(s), NEW q \in Queue
  PROVE  /\ s.wq[q] \in Seq(Task) /\ NoDuplicates(s.wq[q])
         /\ \A t : t \in ToSet(s.wq[q]) <=> t \in Task /\ s.pwait[t] = q
<1>1. s.wq[q] \in Seq(Task)
  BY DEF SchedOK, Sched
<1>2. NoDuplicates(s.wq[q]) /\ \A t \in Task : t \in ToSet(s.wq[q]) <=> s.pwait[t] = q
  BY DEF SchedOK, WaitQueuesOK
<1>3. \A t : t \in ToSet(s.wq[q]) => t \in Task
  BY <1>1 DEF ToSet
<1> QED BY <1>1, <1>2, <1>3

\* The tick ends the waits whose time is over.
LEMMA TickStep ==
  ASSUME FifoInv, SysTick, DQUnchanged
  PROVE  CallersOK' /\ Fifo!Next
<1> DEFINE Late(u) == Waiting(k.state[u]) /\ ~Waiting(k'.state[u])
<1>1. PICK late : late = {u \in Task : Late(u)}
  OBVIOUS
<1>2. /\ IInv /\ CallersOK /\ dque' = dque /\ elem' = elem /\ at' = at /\ received' = NoItem
      /\ id_task' = id_task
  BY DEF FifoInv, DQInv, DQUnchanged, SysTick
<1>3. /\ SchedOK(k) /\ SchedOK(k') /\ OnlyEndsWaits(k, k') /\ KeepsOrder(k, k')
      /\ \A u \in late : k'.rc[u] = "TIMEOUT"
  <2>1. IInv' /\ OnlyEndsWaits(k, k')
    BY <1>2, SysTickKeeps
  <2>2. KeepsOrder(k, k') /\ \A u \in Task : Late(u) => k'.rc[u] = "TIMEOUT"
    BY <1>2, TickOrder
  <2> QED BY <1>1, <1>2, <2>1, <2>2 DEF IInv, KernelOK
<1>4. /\ late \subseteq Task
      /\ \A u \in late : Waiting(k.state[u]) /\ ~Waiting(k'.state[u]) /\ k'.pwait[u] = NoQueue
  BY <1>1, <1>3 DEF OnlyEndsWaits
<1>5. ASSUME NEW u \in Task \ late PROVE SameCaller(u) /\ k'.pwait[u] = k.pwait[u]
  <2>1. ~Late(u)
    BY <1>1, <1>5
  <2>2. k'.state[u] = k.state[u] /\ k'.pwait[u] = k.pwait[u]
    BY <1>3, <2>1 DEF OnlyEndsWaits, Waiting
  <2>3. Waiting(k.state[u]) \/ k'.rc[u] = k.rc[u]
    BY <1>3 DEF KeepsOrder
  <2> QED BY <1>2, <2>2, <2>3 DEF SameCaller
<1>6. \A u \in Task \ late : /\ CallerOK(u)' /\ Given'[u] = Given[u]
                             /\ u \in Failed' <=> u \in Failed
  BY <1>2, <1>5, SameCallerShows DEF CallersOK
<1>7. ASSUME NEW u \in late
      PROVE  CallerOK(u)' /\ Given'[u] = Given[u] /\ u \in Failed'
  <2>1. /\ u \in Task /\ Waiting(k.state[u]) /\ ~Waiting(k'.state[u]) /\ k'.rc[u] = "TIMEOUT"
        /\ at[u] # "none" /\ at'[u] = at[u] /\ id_task'[u] = id_task[u]
    BY <1>2, <1>3, <1>4 DEF CallersOK, CallerOK
  <2>2. CallerOK(u)'
    BY <1>2, <2>1 DEF CallersOK, CallerOK
  <2> QED BY <2>1, <2>2 DEF Given, Failed, Handed, WaitOver
<1>8. CallersOK'
  BY <1>6, <1>7 DEF CallersOK
<1>9. Given' = Given
  BY <1>4, <1>6, <1>7, GivenStays
<1>10. Failed' = Failed \cup late
  <2>1. \A u : u \in Failed \/ u \in Failed' => u \in Task
    BY DEF Failed
  <2> QED BY <1>4, <1>6, <1>7, <2>1
<1>11. Cap' = Cap
  BY <1>2 DEF Cap
<1>12. SendList \in Queue /\ ReceiveList \in Queue /\ NoQueue \notin Queue /\ NoQueue \notin Task
  BY DQueueAssumption, NoQueueAssumption
<1>13. CASE late = {}
  <2>1. AllGoOn(k, k')
    BY <1>1, <1>13 DEF AllGoOn
  <2>2. k'.wq = k.wq
    BY <1>3, <2>1 DEF KeepsOrder
  <2>3. Senders' = Senders /\ Receivers' = Receivers
    BY <2>2 DEF Senders, Receivers
  <2>4. Chan' = Chan /\ Failed' = Failed
    BY <1>2, <1>10, <1>13, <2>3 DEF Chan
  <2> QED BY <1>2, <1>8, <1>9, <1>11, <2>3, <2>4, NothingStep
<1>14. CASE late # {}
  <2>1. ASSUME NEW q \in Queue PROVE Fifo!Leave(late, k.wq[q], k'.wq[q])
    <3>1. /\ k.wq[q] \in Seq(Task) /\ NoDuplicates(k.wq[q])
          /\ \A t : t \in ToSet(k.wq[q]) <=> t \in Task /\ k.pwait[t] = q
      BY <1>3, QueuesAre
    <3>2. /\ k'.wq[q] \in Seq(Task) /\ NoDuplicates(k'.wq[q])
          /\ \A t : t \in ToSet(k'.wq[q]) <=> t \in Task /\ k'.pwait[t] = q
      BY <1>3, QueuesAre
    <3>3. ToSet(k'.wq[q]) = ToSet(k.wq[q]) \ late
      BY <1>4, <1>5, <1>12, <3>1, <3>2
    <3>4. \A x, y : Before(k'.wq[q], x, y) => Before(k.wq[q], x, y)
      BY <1>3 DEF KeepsOrder
    <3> QED BY <3>1, <3>2, <3>3, <3>4, WaitersLeave
  <2>2. Fifo!Leave(late, Receivers, Receivers') /\ Fifo!Leave(late, Senders, Senders')
    BY <1>12, <2>1 DEF Senders, Receivers
  <2>3. PICK d, e, q, r : d = dque /\ e = elem /\ q = Senders /\ r = Senders'
    OBVIOUS
  <2>4. /\ RingOK(d) /\ e \in [Task -> Data] /\ q \in Seq(Task) /\ r \in Seq(Task)
    <3>1. Senders \in Seq(Task) /\ Senders' \in Seq(Task)
      BY <1>3, <1>12, QueuesAre DEF Senders
    <3> QED BY <2>3, <3>1 DEF FifoInv, DQInv, ObjectOK
  <2>5. NoQueue \notin late /\ Fifo!Leave(late, q, r)
    BY <1>4, <1>12, <2>2, <2>3
  <2>6. Fifo!Leave({c \in ToSet(Channel(d, e, q)) : c.from \in late},
                   Channel(d, e, q), Channel(d, e, r))
    BY <2>4, <2>5, OfferersLeave
  <2>7. Chan = Channel(d, e, q) /\ Chan' = Channel(d, e, r)
    BY <1>2, <2>3 DEF Chan
  <2>8. Fifo!Leave({c \in ToSet(Chan) : c.from \in late}, Chan, Chan')
    BY <2>6, <2>7
  <2>9. ASSUME NEW t \in late
        PROVE  t \in ToSet(Receivers) \/ \E i \in DOMAIN Chan : Chan[i].from = t
    <3>1. t \in ToSet(Senders) \cup ToSet(Receivers)
      BY <1>4, WaitersAre
    <3>2. CASE t \in ToSet(q)
      <4>1. PICK j \in 1..Len(q) : q[j] = t
        BY <2>4, <3>2 DEF ToSet
      <4>2. /\ Used(d) \in Nat /\ Len(q) \in Nat
            /\ Channel(d, e, q) \in Seq(Datum) /\ Len(Channel(d, e, q)) = Used(d) + Len(q)
            /\ Channel(d, e, q)[Used(d) + j] = [item |-> e[q[j]], from |-> q[j]]
        BY <2>4, ChannelPlaces
      <4>3. PICK c : c = Channel(d, e, q)
        OBVIOUS
      <4>4. Used(d) + j \in DOMAIN c /\ c[Used(d) + j].from = t
        BY <4>1, <4>2, <4>3
      <4> QED BY <2>7, <4>3, <4>4
    <3> QED BY <2>3, <3>1, <3>2
  <2> QED BY <1>2, <1>4, <1>8, <1>9, <1>10, <1>11, <1>14, <2>2, <2>8, <2>9, ExpireStep
<1> QED BY <1>13, <1>14
-----------------------------------------------------------------------------
(* The refinement *)

LEMMA FifoInit ==
  ASSUME DQInit
  PROVE  FifoInv /\ Fifo!Init
<1>1. DQInv
  BY DQInitHolds
<1>2. /\ k.wq = [q \in Queue |-> << >>] /\ \A t \in Task : ~Waiting(k.state[t])
  BY NobodyWaitsAtFirst DEF DQInit
<1>3. at = [t \in Task |-> "none"] /\ received = NoItem
  BY DEF DQInit
<1>4. CallersOK
  BY <1>2, <1>3 DEF CallersOK, CallerOK
<1>5. Senders = << >> /\ Receivers = << >>
  BY <1>2, DQueueAssumption DEF Senders, Receivers
<1>6. Given = [t \in Task |-> NoItem] /\ Failed = {}
  BY <1>3 DEF Given, Failed, Handed, WaitOver
<1>7. Chan = << >>
  <2>1. PICK n \in Sizes : dque = [num |-> n, fifo |-> [i \in 0..n-1 |-> NoItem],
                                   header |-> 0, tail |-> 0]
    BY DEF DQInit
  <2>2. PICK d, e, q : d = dque /\ e = elem /\ q = Senders
    OBVIOUS
  <2>3. RingOK(d) /\ e \in [Task -> Data] /\ q \in Seq(Task) /\ Len(q) = 0
    BY <1>1, <1>5, <2>2 DEF DQInv, ObjectOK
  <2>4. Used(d) = 0
    BY <2>1, <2>2 DEF Used, Empty
  <2>5. Channel(d, e, q) \in Seq(Datum) /\ Len(Channel(d, e, q)) = Used(d) + Len(q)
    BY <2>3, ChannelPlaces
  <2>6. PICK c : c = Channel(d, e, q)
    OBVIOUS
  <2>7. c = << >>
    BY <2>3, <2>4, <2>5, <2>6
  <2> QED BY <2>2, <2>6, <2>7 DEF Chan
<1>8. Cap \in Nat
  BY <1>1 DEF DQInv, ObjectOK, RingOK, Cap, Capacity
<1>9. Fifo!Init
  BY <1>3, <1>5, <1>6, <1>7, <1>8, ChannelIs DEF Fifo!Init, Cap, Capacity, Given, Failed, Handed
<1> QED BY <1>1, <1>4, <1>9 DEF FifoInv

LEMMA DQNextStep ==
  ASSUME FifoInv, DQNext
  PROVE  FifoInv' /\ Fifo!Next
<1> SUFFICES CallersOK' /\ Fifo!Next
  BY DQNextKeeps DEF FifoInv
<1>1. CallEnds \/ HandlerEnds => id_task' = id_task
  BY DEF CallEnds, HandlerEnds, UnchangedTasks, InterruptExit
<1>2. ASSUME NEW x \in Item, NEW timeout \in Timeouts, kern_queue_send(x, timeout)
      PROVE  CallersOK' /\ Fifo!Next
  BY <1>1, <1>2, HandOverStep, StoreStep, SendWaitsStep DEF kern_queue_send
<1>3. ASSUME NEW x \in Item, kern_queue_send_polling(x) \/ kern_queue_isend_polling(x)
      PROVE  CallersOK' /\ Fifo!Next
  BY <1>1, <1>3, HandOverStep, StoreStep DEF kern_queue_send_polling, kern_queue_isend_polling
<1>4. ASSUME NEW timeout \in Timeouts, kern_queue_receive(timeout)
      PROVE  CallersOK' /\ Fifo!Next
  BY <1>1, <1>4, ReceivingStep, ReceiveWaitsStep DEF kern_queue_receive
<1>5. CASE kern_queue_receive_polling \/ kern_queue_ireceive
  BY <1>1, <1>5, ReceivingStep DEF kern_queue_receive_polling, kern_queue_ireceive
<1>6. CASE AfterWait
  BY <1>6, AfterWaitStep
<1>7. CASE Begins /\ CreatesNext /\ DQUnchanged
  BY <1>7, CreationStep
<1>8. CASE \E t \in Suspendable : /\ \/ Begins /\ kern_task_suspend(t)
                                     \/ Begins /\ kern_task_resume(t)
                                  /\ DQUnchanged
  BY <1>8, SuspensionStep
<1>9. CASE (TestNext \/ SwitchContext \/ PendSV) /\ DQUnchanged
  BY <1>9, SwitchingStep
<1>10. CASE SysTick /\ DQUnchanged
  BY <1>10, TickStep
<1> QED BY <1>2, <1>3, <1>4, <1>5, <1>6, <1>7, <1>8, <1>9, <1>10 DEF DQNext

LEMMA FifoStutter ==
  ASSUME FifoInv, UNCHANGED dqvars
  PROVE  /\ FifoInv'
         /\ UNCHANGED << Cap, Chan, Receivers, Given, Failed, received >>
<1>1. /\ k' = k /\ dque' = dque /\ elem' = elem /\ at' = at /\ received' = received
      /\ id_task' = id_task /\ UNCHANGED vars
  BY DEF dqvars, vars
<1>2. IInv'
  BY <1>1, StutterKeeps DEF FifoInv, DQInv
<1>3. ObjectOK' /\ NoneWaitsInVain' /\ Senders' = Senders /\ Receivers' = Receivers
  BY <1>1 DEF FifoInv, DQInv, ObjectOK, NoneWaitsInVain, Senders, Receivers
<1>4. CallersOK' /\ Given' = Given /\ Failed' = Failed
  BY <1>1, NoCallerShows DEF FifoInv
<1>5. Cap' = Cap /\ Chan' = Chan
  BY <1>1, <1>3 DEF Cap, Chan
<1> QED BY <1>1, <1>2, <1>3, <1>4, <1>5 DEF FifoInv, DQInv

(* A data queue is a bounded first in first out channel, whatever the number of tasks and of      *)
(* entries: data arrive once and in order, a send that reports success has had its datum accepted *)
(* and one that reports a timeout has taken it back, and a receive returns the datum it was       *)
(* handed (dque_fifo_write to kern_queue_ireceive, over the tick and the switch).                 *)
THEOREM QueueImplementsFifo == DQSpec => ImplementsFifo
<1>1. DQInit => FifoInv /\ Fifo!Init
  BY FifoInit
<1>2. FifoInv /\ [DQNext]_dqvars => FifoInv'
  BY DQNextStep, FifoStutter
<1>3. FifoInv /\ [DQNext]_dqvars => [Fifo!Next]_(Fifo!vars)
  <2>1. FifoInv /\ DQNext => Fifo!Next
    BY DQNextStep
  <2>2. FifoInv /\ UNCHANGED dqvars => UNCHANGED Fifo!vars
    <3> SUFFICES ASSUME FifoInv, UNCHANGED dqvars PROVE UNCHANGED Fifo!vars
      OBVIOUS
    <3>1. UNCHANGED << Cap, Chan, Receivers, Given, Failed, received >>
      BY FifoStutter
    <3> QED BY <3>1, ChannelIs DEF Fifo!vars, Cap, Capacity, Given, Failed, Handed
  <2> QED BY <2>1, <2>2
<1> QED BY <1>1, <1>2, <1>3, PTL DEF DQSpec, ImplementsFifo, Fifo!Spec
=============================================================================
