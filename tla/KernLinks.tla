------------------------------ MODULE KernLinks ------------------------------
(***************************************************************************)
(* The circular doubly linked lists of src/kern/kern_queue.c, on a record  *)
(* l of the two link fields of every node: l.next and l.prev. A list head  *)
(* is a node like any other. (can.c and can_lib.c repeat the same code for *)
(* their own lists.)                                                       *)
(***************************************************************************)
EXTENDS Integers, SequencesExt

\* The links of the nodes N.
Links(N) == [next : [N -> N], prev : [N -> N]]

queue_reset(l, n) == [l EXCEPT !.next[n] = n, !.prev[n] = n]

is_queue_empty(l, h) == l.next[h] = h /\ l.prev[h] = h

\* que, entry: the neighbours' links are written after the entry's own.
queue_add_head(l, h, e) ==
  LET first == l.next[h]
  IN  [next |-> [l.next EXCEPT ![e] = first, ![h] = e],
       prev |-> [[l.prev EXCEPT ![e] = h] EXCEPT ![first] = e]]

queue_add_tail(l, h, e) ==
  LET last == l.prev[h]
  IN  [next |-> [[l.next EXCEPT ![e] = h] EXCEPT ![last] = e],
       prev |-> [l.prev EXCEPT ![e] = last, ![h] = e]]

\* The entry's own links stay as they are. The callers of the next two have
\* checked that the list is not empty; on an empty one they return NULL.
\* (Wrong: the head's prev would go on naming the removed entry.)
queue_remove_head_NextOnly(l, h) == [l EXCEPT !.next[h] = l.next[@]]

queue_remove_head(l, h) ==
  LET e == l.next[h]
  IN  IF e = h THEN l
      ELSE [next |-> [l.next EXCEPT ![h] = l.next[e]],
            prev |-> [l.prev EXCEPT ![l.next[e]] = h]]

queue_remove_tail(l, h) ==
  LET e == l.prev[h]
  IN  IF e = h THEN l
      ELSE [next |-> [l.next EXCEPT ![l.prev[e]] = h],
            prev |-> [l.prev EXCEPT ![h] = l.prev[e]]]

queue_remove_entry(l, e) ==
  LET nx == [l.next EXCEPT ![l.prev[e]] = l.next[e]]
  IN  [next |-> nx, prev |-> [l.prev EXCEPT ![nx[e]] = l.prev[e]]]

(***************************************************************************)
(* What a walk along next from the head meets in its first n steps, up to  *)
(* the head: the tasks a loop over the list sees.                          *)
(***************************************************************************)
Chain(l, h, n) ==
  LET at[i \in 0..n] == IF i = 0 THEN l.next[h]
                        ELSE IF at[i-1] = h THEN h ELSE l.next[at[i-1]]
  IN  at
=============================================================================
