----------------------------- MODULE MCKernTasks -----------------------------
(***************************************************************************)
(* KernTasks for TLC: three tasks, as many as the program has, in two      *)
(* applications. In one all tasks have the same priority and sleep until   *)
(* they are woken, activations and wakeups are counted, and main may be    *)
(* suspended, too. In the other each sleep has a timeout, and one task may *)
(* have a lower priority than the rest. In both a task ends in every way   *)
(* it can, and is started again.                                           *)
(***************************************************************************)
EXTENDS KernTasks

CONSTANT spd   \* the task that may end, and may have a lower priority

VARIABLE application

mcvars == << vars, application >>

MCTimeouts == {1, Infinite}

Lives(t) == k'.tick[t] = Infinite /\ k'.prio[t] <= 1

SleepsForATime(t) ==
  /\ Waiting(k'.state[t]) => k'.tick[t] # Infinite
  /\ k'.act[t] = 0 /\ k'.wake[t] = 0
  /\ t # spd => k'.prio[t] <= 1 /\ ~Suspended(k'.state[t])

Keeps == UNCHANGED application

MCInit == Init /\ application \in {"life", "waits"}

MCNext ==
  /\ Next /\ Keeps
  /\ \A t \in Task : IF application = "life" THEN Lives(t) ELSE SleepsForATime(t)

MCSpec == MCInit /\ [][MCNext]_mcvars

MCFairSpec ==
  /\ MCSpec
  /\ WF_mcvars(TestNext /\ Keeps) /\ WF_mcvars(SwitchContext /\ Keeps) /\ WF_mcvars(PendSV /\ Keeps)
  /\ WF_us_count(Tick)
=============================================================================
