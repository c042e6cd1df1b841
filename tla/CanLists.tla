--------------------------------- MODULE CanLists ---------------------------------
(***************************************************************************)
(* The lists of CAN messages (can.c) and of control units (can_lib.c). The *)
(* functions repeat those of kern_queue.c, and add a count, a search by    *)
(* identifier and a disposal. An entry stands for itself and for the       *)
(* identifier of its object.                                               *)
(***************************************************************************)
EXTENDS KernListLinks

can_queue_reset(links, n)           == queue_reset(links, n)
can_is_queue_empty(links, h)        == is_queue_empty(links, h)
can_queue_add_head(links, h, e)     == queue_add_head(links, h, e)
can_queue_add_tail(links, h, e)     == queue_add_tail(links, h, e)
can_queue_remove_head(links, h)     == queue_remove_head(links, h)
can_queue_remove_tail(links, h)     == queue_remove_tail(links, h)
can_queue_remove_entry(links, e)    == queue_remove_entry(links, e)

ecu_queue_reset(links, n)           == queue_reset(links, n)
ecu_is_queue_empty(links, h)        == is_queue_empty(links, h)
ecu_queue_add_head(links, h, e)     == queue_add_head(links, h, e)
ecu_queue_add_tail(links, h, e)     == queue_add_tail(links, h, e)
ecu_queue_remove_head(links, h)     == queue_remove_head(links, h)
ecu_queue_remove_tail(links, h)     == queue_remove_tail(links, h)
ecu_queue_remove_entry(links, e)    == queue_remove_entry(links, e)
-----------------------------------------------------------------------------
\* A walk along next from n on, until it is at one of `ends`.
Steps == 0..Cardinality(Node)

Walk(links, n, ends) ==
  LET at[i \in Steps] == IF i = 0 THEN n
                         ELSE IF at[i-1] \in ends THEN at[i-1] ELSE links.next[at[i-1]]
  IN  at

\* The entries it meets before it is at the head.
CountFrom(links, n, h) == Cardinality({i \in Steps : Walk(links, n, {h})[i] # h})

\* The count begins with the second entry, and is 1 instead of 0 on a list that is not empty.
SizeOf(links, h, empty) ==
  LET first == links.next[h]
      n     == IF links.next[first] = first THEN 0 ELSE CountFrom(links, links.next[first], h)
  IN  IF ~empty /\ n = 0 THEN 1 ELSE n

can_queue_size(links, h) == SizeOf(links, h, can_is_queue_empty(links, h))
ecu_queue_size(links, h) == SizeOf(links, h, ecu_is_queue_empty(links, h))

\* (Wrong: the last entry would not be compared.)
FoundFrom_NotLast(links, n, h, e) == \E i \in Steps : Walk(links, n, {h})[i] = e /\ links.next[e] # h

FoundFrom(links, n, h, e) == \E i \in Steps : Walk(links, n, {h})[i] = e

can_queue_contains_entry(links, h, e) == FoundFrom(links, links.next[h], h, e)
ecu_queue_contains_entry(links, h, e) == FoundFrom(links, links.next[h], h, e)

\* The walk ends at the predecessor of the first entry as well, which is the head.
IdFrom(links, n, ends, id) == id \notin ends /\ \E i \in Steps : Walk(links, n, ends)[i] = id

ecu_check_id_exist(links, h, id) ==
  LET first == links.next[h]
  IN  ~ecu_is_queue_empty(links, h) /\ IdFrom(links, first, {h, links.prev[first]}, id)

\* Every entry is removed from the tail and freed, and then the head.
can_dispose_que(links, h) ==
  LET left[i \in Steps] == IF i = 0 THEN links
                           ELSE IF can_is_queue_empty(left[i-1], h) THEN left[i-1]
                           ELSE can_queue_remove_tail(left[i-1], h)
  IN  left[Cardinality(Node)]

ecu_dispose_que(links, h) ==
  LET left[i \in Steps] == IF i = 0 THEN links
                           ELSE IF ecu_is_queue_empty(left[i-1], h) THEN left[i-1]
                           ELSE ecu_queue_remove_tail(left[i-1], h)
  IN  left[Cardinality(Node)]
-----------------------------------------------------------------------------
\* The removals return NULL on an empty list and leave it alone.
CanRemoves(h) == l' \in {can_queue_remove_head(l, h), can_queue_remove_tail(l, h)}
EcuRemoves(h) == l' \in {ecu_queue_remove_head(l, h), ecu_queue_remove_tail(l, h)}

CanAdds(h, e) == ~Linked(e) /\ l' \in {can_queue_add_head(l, h, e), can_queue_add_tail(l, h, e)}
EcuAdds(h, e) == ~Linked(e) /\ l' \in {ecu_queue_add_head(l, h, e), ecu_queue_add_tail(l, h, e)}

CanTakesOut(e) == Linked(e) /\ l' \in {can_queue_remove_entry(l, e), ecu_queue_remove_entry(l, e)}
CanResets(e)   == ~Linked(e) /\ l' \in {can_queue_reset(l, e), ecu_queue_reset(l, e)}

ListsNext ==
  \/ Next
  \/ \E h \in ListHead : CanRemoves(h) \/ EcuRemoves(h)
  \/ \E h \in ListHead, e \in Entry : CanAdds(h, e) \/ EcuAdds(h, e)
  \/ \E e \in Entry : CanTakesOut(e) \/ CanResets(e)
-----------------------------------------------------------------------------
(* What the tests and walks find is what the list holds, whatever links its removed entries have *)
(* kept: the list is empty by both links of its head or by neither, so that no caller who has     *)
(* seen it not empty gets NULL; every walk comes back to the head, and meets an entry or an       *)
(* identifier if it is there; a list of size 0 is an empty one, no list is said to hold more than *)
(* it does, and a disposal ends with it empty (is_queue_empty, can_queue_size,                    *)
(* can_queue_contains_entry, ecu_check_id_exist, can_dispose_que).                                *)
WalksAgree ==
  \A h \in ListHead :
    LET held == ToSet(Contents(h))
        size == Cardinality(held)
    IN  /\ Walk(l, l.next[h], {h})[Cardinality(Node)] = h
        /\ l.next[h] = h <=> size = 0
        /\ l.prev[h] = h <=> size = 0
        /\ \A e \in Entry : /\ can_queue_contains_entry(l, h, e) <=> e \in held
                            /\ ecu_queue_contains_entry(l, h, e) <=> e \in held
                            /\ ecu_check_id_exist(l, h, e) <=> e \in held
        /\ \A n \in {can_queue_size(l, h), ecu_queue_size(l, h)} : (n = 0 <=> size = 0) /\ n <= size
        /\ can_is_queue_empty(can_dispose_que(l, h), h) /\ ecu_is_queue_empty(ecu_dispose_que(l, h), h)
=============================================================================
