------------------------------ MODULE KernLists ------------------------------
(***************************************************************************)
(* What the lists of src/kern/kern_queue.c promise: every head owns a      *)
(* sequence of entries, an entry is in at most one of them, and an         *)
(* operation changes the one list it is called for.                        *)
(***************************************************************************)
EXTENDS SequencesExt

CONSTANTS ListHead, Entry

VARIABLE lists  \* lists[h] is the sequence of the entries of h

Free(e) == \A h \in ListHead : e \notin ToSet(lists[h])

Init == lists = [h \in ListHead |-> << >>]

AddHead(h, e) == Free(e) /\ lists' = [lists EXCEPT ![h] = <<e>> \o @]
AddTail(h, e) == Free(e) /\ lists' = [lists EXCEPT ![h] = Append(@, e)]

RemoveHead(h) == lists[h] # << >> /\ lists' = [lists EXCEPT ![h] = Tail(@)]
RemoveTail(h) == lists[h] # << >> /\ lists' = [lists EXCEPT ![h] = Front(@)]

RemoveEntry(e) == \E h \in ListHead : \E i \in DOMAIN lists[h] :
                    lists[h][i] = e /\ lists' = [lists EXCEPT ![h] = RemoveAt(@, i)]

Next ==
  \/ \E h \in ListHead : RemoveHead(h) \/ RemoveTail(h)
  \/ \E h \in ListHead, e \in Entry : AddHead(h, e) \/ AddTail(h, e)
  \/ \E e \in Entry : RemoveEntry(e)

Spec == Init /\ [][Next]_lists
=============================================================================
