---------------------------- MODULE KernListLinks ----------------------------
(***************************************************************************)
(* The list operations of src/kern/kern_queue.c as the kernel uses them,   *)
(* on the links themselves. Only an entry that is in no list is added, and *)
(* queue_remove_entry is called for an entry that is in a list, that is    *)
(* linked to itself alone (a sleeping task's), or that queue_remove_head   *)
(* has just removed. A removed entry keeps its links: they may point       *)
(* anywhere by the time it is added again.                                 *)
(***************************************************************************)
EXTENDS KernLinks, FiniteSets

CONSTANTS ListHead, Entry

ASSUME HeadsAreNotEntries == ListHead \cap Entry = {} /\ IsFiniteSet(ListHead \cup Entry)

VARIABLE l

Node == ListHead \cup Entry

Init == l = [next |-> [n \in Node |-> n], prev |-> [n \in Node |-> n]]
-----------------------------------------------------------------------------
\* The entries of the list h, following next until it comes back to h.
Contents(h) ==
  LET chain == Chain(l, h, Cardinality(Node))
      size  == Cardinality({i \in 0..Cardinality(Node) : chain[i] # h})
  IN  [i \in 1..size |-> chain[i-1]]

Linked(e) == \E h \in ListHead : e \in ToSet(Contents(h))

AddHead(h, e) == ~Linked(e) /\ l' = queue_add_head(l, h, e)
AddTail(h, e) == ~Linked(e) /\ l' = queue_add_tail(l, h, e)

RemoveHead(h) == ~is_queue_empty(l, h) /\ l' = queue_remove_head(l, h)
RemoveTail(h) == ~is_queue_empty(l, h) /\ l' = queue_remove_tail(l, h)

\* The first waiter is woken: kern_sem_signal removes it from the head, and
\* task_wait_complete(task, TRUE) calls queue_remove_entry for it once more.
RemoveWaiter(h) ==
  /\ ~is_queue_empty(l, h)
  /\ l' = queue_remove_entry(queue_remove_head(l, h), l.next[h])

RemoveEntry(e) ==
  /\ Linked(e) \/ (l.next[e] = e /\ l.prev[e] = e)
  /\ l' = queue_remove_entry(l, e)

Reset(e) == ~Linked(e) /\ l' = queue_reset(l, e)

Next ==
  \/ \E h \in ListHead : RemoveHead(h) \/ RemoveTail(h) \/ RemoveWaiter(h)
  \/ \E h \in ListHead, e \in Entry : AddHead(h, e) \/ AddTail(h, e)
  \/ \E e \in Entry : RemoveEntry(e) \/ Reset(e)

Spec == Init /\ [][Next]_l
-----------------------------------------------------------------------------
(* Properties *)

Lists == INSTANCE KernLists WITH lists <- [h \in ListHead |-> Contents(h)]

\* The links implement the lists: what one operation does to next and prev, on
\* entries with links left over from other lists, is seen by every later one as
\* the change of one sequence.
ImplementsLists == Lists!Spec
=============================================================================
