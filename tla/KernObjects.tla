------------------------------ MODULE KernObjects ------------------------------
(***************************************************************************)
(* The kernel objects together: an application that uses a semaphore, an   *)
(* event, a pool of memory blocks or mutexes, with its tasks created,      *)
(* suspended and resumed, the context switch and one tick for all.         *)
(***************************************************************************)
EXTENDS KernEvent, KernFmem, KernMutex, KernSem

CONSTANTS
  Sem,           \* the semaphore, named by its wait queue
  Applications   \* what an application may do: the objects it has created and how, the
                 \* tasks it creates and their priorities, those that call each
                 \* object, those that are suspended, and the timeouts of waits

ASSUME ObjectsAssumption ==
  /\ Queue = Mutex \cup {Sem, Event, Pool}
  /\ Sem # Event /\ Sem # Pool /\ Event # Pool /\ {Sem, Event, Pool} \cap Mutex = {}
  /\ Applications \subseteq [objects : SUBSET Queue, event : EventSetups, mutexes : Setups,
                             callers : [Queue -> SUBSET Task], suspends : SUBSET Task,
                             priority : UNION {[c -> Priorities] : c \in SUBSET Task}, timeouts : SUBSET Timeouts]

VARIABLE app  \* the application

semcallvars == << count, out >>
objvars     == << app, vars, callvars, evvars, fmvars, muvars, semcallvars >>

ObjInit ==
  /\ SemInit
  /\ app \in Applications /\ CallsInit(app.objects)
  /\ EventInit(app.event) /\ FmemInit /\ MutexInit(app.mutexes)
-----------------------------------------------------------------------------
(***************************************************************************)
(* The calls of KernSem inside the test of the magic number, and the       *)
(* deletion of the semaphore.                                              *)
(***************************************************************************)
SemCall ==
  /\ At("entered", Sem)
  /\ \/ kern_sem_acquire_polling(Sem) \/ kern_sem_signal(Sem)
     \/ \E timeout \in app.timeouts : MayWait /\ kern_sem_acquire(Sem, timeout)
  /\ IF ~Waiting(k.state[curr]) /\ Waiting(k'.state[curr]) THEN Goes("waited", Sem) ELSE Done
  /\ SameObjects

kern_sem_delete == DeletionStep(Sem, TRUE) /\ UNCHANGED semcallvars

SemNextHere ==
  \/ Enter(Sem) /\ UNCHANGED semcallvars
  \/ SemCall
  \/ Handler(Sem) /\ (kern_sem_isignal(Sem) \/ kern_sem_acquire_ipolling(Sem))
  \/ SecondHalf(Sem) /\ UNCHANGED semcallvars
  \/ kern_sem_delete
-----------------------------------------------------------------------------
\* kern_tick_int_processing: the two tasks it meets on kern_create_queue, whose objects
\* are scanned, then the timeouts.
ScansOf(s, t, ms) == ScanOf(EventScan(s, t), t, ms)

ScanObjects(s, ms) ==
  LET second == created.next[created.next[CreateList]]
      third  == created.next[second]
  IN  IF second = CreateList THEN s
      ELSE ScansOf(ScansOf(s, second, ms), third, ms)

ObjSysTick ==
  /\ ~masked /\ Tick
  /\ \E ms \in {us_count' = 0} : \E w \in {ScanObjects(k, ms)} :
       \E x \in {MutexScanTimeouts([s |-> w, m |-> mx, sw |-> FALSE], ms)} :
         /\ k' = RotateUnless(x.s, k.next)
         /\ mx' = x.m
         /\ ewait' = [t \in Task |-> IF k.pwait[t] = Event /\ w.pwait[t] # Event
                                     THEN [ewait[t] EXCEPT !.pattern = IoVal(evf.pattern)]
                                     ELSE ewait[t]]
  /\ Counts(NoQueue, 0)
  /\ pend' = TRUE /\ request' = TRUE
  /\ UNCHANGED << created, id_task, curr, cpu, sp, callvars, evf, register, fmvars, setup, own, count >>

\* The first task manages the others, when it is in no call.
CreatesInOrder ==
  \E i \in DOMAIN Order :
    /\ Order[i] \in DOMAIN app.priority
    /\ \A j \in 1..i-1 : Order[j] \in DOMAIN app.priority => id_task[Order[j]]
    /\ kern_task_create(Order[i], app.priority[Order[i]], TRUE)

ManagesTasks ==
  /\ Calls(Main) /\ at[Main] = Code
  /\ \/ CreatesInOrder
     \/ \E t \in app.suspends : kern_task_suspend(t) \/ kern_task_resume(t)
  /\ UNCHANGED callvars

\* With interrupts disabled kern_switch_context comes back to the task that called it.
SwitchReturns ==
  /\ masked /\ cpu = "yield"
  /\ cpu' = "run" /\ request' = TRUE
  /\ UNCHANGED << k, created, id_task, curr, sp, pend, us_count >>

Processor == TestNext \/ (~masked /\ (SwitchContext \/ PendSV)) \/ SwitchReturns

\* Then the running task may make no call any more, and nothing else comes.
ComputesAlone == masked /\ UNCHANGED objvars

ObjNext ==
  /\ \/ EventNext(app.timeouts) /\ UNCHANGED << fmvars, muvars, semcallvars >>
     \/ FmemNext(app.timeouts) /\ UNCHANGED << evvars, muvars, semcallvars >>
     \/ MutexNext(app.timeouts) /\ UNCHANGED << evvars, fmvars, semcallvars >>
     \/ SemNextHere /\ UNCHANGED << evvars, fmvars, muvars >>
     \/ ManagesTasks /\ UNCHANGED << evvars, fmvars, muvars, semcallvars >>
     \/ Processor /\ UNCHANGED << callvars, evvars, fmvars, muvars, semcallvars >>
     \/ ObjSysTick
     \/ ComputesAlone
  /\ UNCHANGED app
  /\ at'[curr].part = "entered" => curr \in app.callers[at'[curr].obj]

ObjSpec == ObjInit /\ [][ObjNext]_objvars
-----------------------------------------------------------------------------
(* Properties *)

\* Interrupts stay disabled behind the deletion of a semaphore or of a pool whose first
\* waiter is suspended while another one waits behind it, and behind nothing else: not
\* behind the deletion of an event or a mutex, nor when a timeout or a signal has shortened
\* the queue between the test and the removal. Only a later deletion enables them again.
EndsMany(q) ==
  /\ at[Main] = [part |-> "remove", obj |-> q] /\ at'[Main] # at[Main]
  /\ Len(k.wq[q]) > 1 /\ Suspended(k.state[Head(k.wq[q])])

InterruptsLost ==
  [][ /\ ~masked => (irq' = "masked" <=> \E q \in {Sem, Pool} : EndsMany(q))
      /\ masked /\ irq' # "masked" => Deleted(at[Main].obj) ]_objvars

\* The lists and the state words of all tasks agree, whatever objects are used and deleted:
\* every task is in the list of its state, a waiting one in its wait queue besides, once.
ObjListsMatch == Undisturbed => ListsMatchStates

ObjTypeOK ==
  /\ CallsTypeOK /\ EventTypeOK /\ FmemTypeOK /\ MutexTypeOK
  /\ count \in [Queue -> 0..MaxCount]
=============================================================================
