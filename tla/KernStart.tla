------------------------------ MODULE KernStart ------------------------------
(***************************************************************************)
(* The start of the application (src/main.c): kern_start_system has created *)
(* Main, and main_task_func creates the other tasks, one after the other.  *)
(* The modules of the kernel objects extend it.                            *)
(***************************************************************************)
EXTENDS KernTasks

CONSTANTS
  Order,         \* the tasks in the order of their creation, a sequence
  StartPriority  \* the priority they are given, 2 in the code

ASSUME StartAssumption ==
  /\ Order \in Seq(Task) /\ Order # << >> /\ Head(Order) = Main
  /\ ToSet(Order) = Task /\ Len(Order) = Cardinality(Task)
  /\ StartPriority \in Priorities

\* Where the kernel's objects are used no task ends.
ASSUME NobodyEnds == Restartable = {}

CreatesNext ==
  /\ curr = Main
  /\ \E i \in DOMAIN Order :
       /\ \A j \in 1..i-1 : id_task[Order[j]]
       /\ kern_task_create(Order[i], StartPriority, TRUE)
=============================================================================
