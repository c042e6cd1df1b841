------------------------------ MODULE KernWalk ------------------------------
(***************************************************************************)
(* find_next_task_to_run as the loop the code runs: one ring entry after   *)
(* the other, skip_cnt++ and a comparison at each. KernSched computes the  *)
(* same in closed form; LoopWalk(s, start) is what it is compared with.    *)
(***************************************************************************)
EXTENDS KernSched

\* The first task of the list stops the walk on this visit at the latest.
MaxVisits(s) == Len(s.ready) * (1 + s.prio[s.ready[1]])

LoopWalk(s, start) ==
  LET n == Len(s.ready)
      walk[v \in 0..MaxVisits(s)] ==
        IF v = 0 THEN [at |-> start, skip |-> s.skip, found |-> FALSE]
        ELSE LET w   == walk[v-1]
                 at  == (w.at % n) + 1
                 t   == s.ready[at]
                 cnt == w.skip[t] + 1
             IN  IF w.found THEN w
                 ELSE [at    |-> at,
                       skip  |-> [w.skip EXCEPT ![t] = IF cnt >= s.prio[t] THEN 0 ELSE cnt],
                       found |-> cnt >= s.prio[t]]
      last == walk[MaxVisits(s)]
  IN  IF n = 0 THEN s
      ELSE [s EXCEPT !.next = s.ready[last.at], !.skip = last.skip]
=============================================================================
