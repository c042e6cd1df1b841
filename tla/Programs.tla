-------------------------------- MODULE Programs --------------------------------
(***************************************************************************)
(* Drivers as programs. What gpio.c, scu.c, uart.c and can.c do to the     *)
(* board is a sequence of accesses to peripheral registers, and a task may *)
(* be interrupted between any two: `r |= v` is a load and a later store of *)
(* the whole register, `r = v` one access. A register holds a record of    *)
(* its fields, a port register a function of its pins. Board executes      *)
(* programs.                                                               *)
(***************************************************************************)
EXTENDS Integers, SequencesExt

Load(r)       == << [op |-> "load", reg |-> r] >>
Store(r, new) == << [op |-> "store", reg |-> r, new |-> new] >>  \* the loaded fields, `new` instead of some
Write(r, new) == << [op |-> "write", reg |-> r, new |-> new] >>
Read(r, f)    == << [op |-> "read", reg |-> r, field |-> f] >>   \* into the caller's buffer

\* r = (r & ~mask) | new
Modify(r, new) == Load(r) \o Store(r, new)

\* while (field f of r is not v);
Await(r, f, v) == << [op |-> "await", reg |-> r, field |-> f, val |-> v] >>

\* The same with a timeout, after which the program ends.
Poll(r, f, v)  == << [op |-> "poll", reg |-> r, field |-> f, val |-> v] >>

\* if (field f of r is v) then_ else else_
IfIs(r, f, v, then_, else_) ==
  << [op |-> "if", reg |-> r, field |-> f, val |-> v, then |-> then_, else |-> else_] >>

\* kern_task_create
Create(t) == << [op |-> "create", task |-> t] >>
-----------------------------------------------------------------------------
(* The shape of a program: branches are nested twice at most. *)

IsSequence(s) == Len(s) \in Nat /\ s = [k \in 1..Len(s) |-> s[k]]

\* A load is followed by the store of the same register.
Paired(p) == \A k \in DOMAIN p : p[k].op = "load" => k < Len(p) /\ p[k+1].op = "store" /\ p[k+1].reg = p[k].reg

Accesses(p)  == IsSequence(p) /\ Paired(p)
Straight(p)  == Accesses(p) /\ \A k \in DOMAIN p : p[k].op # "if"
Forked(p)    == Accesses(p) /\ \A k \in DOMAIN p : p[k].op = "if" => Straight(p[k].then) /\ Straight(p[k].else)
IsProgram(p) == Accesses(p) /\ \A k \in DOMAIN p : p[k].op = "if" => Forked(p[k].then) /\ Forked(p[k].else)

\* The accesses in the branches of those in S.
Within(S) == UNION {ToSet(i.then) \cup ToSet(i.else) : i \in {j \in S : j.op = "if"}}

\* The accesses of a program, those in the branches included.
Code(p) == ToSet(p) \cup Within(ToSet(p)) \cup Within(Within(ToSet(p)))
=============================================================================
