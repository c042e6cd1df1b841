------------------------------- MODULE KernFifo -------------------------------
(***************************************************************************)
(* What a data queue promises its users: a bounded first in first out      *)
(* channel. A datum is offered by a sender; it is accepted at once if      *)
(* there is room or somebody waits for it, and otherwise waits together    *)
(* with its sender. A call whose time is over takes back what it offered   *)
(* or asked for, and the caller is told.                                   *)
(***************************************************************************)
EXTENDS Integers, SequencesExt

CONSTANTS
  Item,    \* the data
  Caller,  \* who may wait
  Nobody,  \* the sender of a datum that has been accepted
  NoItem

VARIABLES
  cap,      \* how many accepted data the channel holds
  chan,     \* the data offered and not yet taken, each with the sender that waits
  asking,   \* the receivers that wait, in order
  given,    \* given[t] is the datum t was handed and has not yet returned with
  failed,   \* the callers whose wait was in vain and who have not yet returned
  received  \* the datum a receive has just returned, or NoItem

vars == << cap, chan, asking, given, failed, received >>

Init ==
  /\ cap \in Nat
  /\ chan = << >> /\ asking = << >>
  /\ given = [t \in Caller |-> NoItem] /\ failed = {} /\ received = NoItem

\* The first cap data are accepted: their senders wait no more.
Accepted(c) == [i \in DOMAIN c |-> IF i <= cap THEN [c[i] EXCEPT !.from = Nobody] ELSE c[i]]

\* A datum is offered; a polling sender, Nobody, goes away if it is not accepted.
Offer(x, by) ==
  \/ /\ asking # << >>
     /\ given' = [given EXCEPT ![Head(asking)] = x]
     /\ asking' = Tail(asking)
     /\ UNCHANGED chan
  \/ /\ asking = << >>
     /\ by # Nobody \/ Len(chan) < cap
     /\ chan' = Accepted(Append(chan, [item |-> x, from |-> by]))
     /\ UNCHANGED << asking, given >>

Take == chan # << >> /\ received' = Head(chan).item /\ chan' = Accepted(Tail(chan))

Ask(t) == chan = << >> /\ asking' = Append(asking, t)

\* A receiver returns with the datum it was handed.
Return(t) ==
  /\ given[t] # NoItem
  /\ received' = given[t] /\ given' = [given EXCEPT ![t] = NoItem]

\* The elements of S leave the queue q, and r is what stays, in the order it was in:
\* what SelectSeq computes, said without its recursion for the sake of the proofs.
Leave(S, q, r) ==
  \E n \in 0..Len(q) : \E was \in [1..n -> DOMAIN q] :
    /\ \A i, j \in 1..n : i < j => was[i] < was[j]
    /\ {was[i] : i \in 1..n} = {i \in DOMAIN q : q[i] \notin S}
    /\ r = [i \in 1..n |-> q[was[i]]]

\* The time of some who wait is over.
Expire(late) ==
  /\ late # {}
  /\ \A t \in late : t \in ToSet(asking) \/ \E i \in DOMAIN chan : chan[i].from = t
  /\ Leave(late, asking, asking')
  /\ Leave({c \in ToSet(chan) : c.from \in late}, chan, chan')
  /\ failed' = failed \cup late

ReturnError(t) == t \in failed /\ failed' = failed \ {t}

\* Every other step of the system.
Nothing == UNCHANGED << cap, chan, asking, given, failed >>

Next ==
  \/ /\ \/ /\ \E x \in Item, by \in Caller \cup {Nobody} : Offer(x, by)
           /\ UNCHANGED << cap, failed >>
        \/ /\ \E t \in Caller : Ask(t)
           /\ UNCHANGED << cap, chan, given, failed >>
        \/ /\ \E late \in SUBSET Caller : Expire(late)
           /\ UNCHANGED << cap, given >>
        \/ /\ \E t \in Caller : ReturnError(t)
           /\ UNCHANGED << cap, chan, asking, given >>
        \/ Nothing
     /\ received' = NoItem
  \/ Take /\ UNCHANGED << cap, asking, given, failed >>
  \/ /\ \E t \in Caller : Return(t)
     /\ UNCHANGED << cap, chan, asking, failed >>

Spec == Init /\ [][Next]_vars
=============================================================================
