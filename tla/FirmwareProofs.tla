----------------------------- MODULE FirmwareProofs -----------------------------
(***************************************************************************)
(* The proofs about the drivers and the board, for every application that  *)
(* keeps to the assumptions of Firmware.                                   *)
(***************************************************************************)
EXTENDS Firmware, SequenceTheorems, TLAPS

(* The accesses of a task *)

CallCode(c) == Code(c.does)

TaskCode(a, t) == UNION {CallCode(Applications[a].calls[t][k]) : k \in DOMAIN Applications[a].calls[t]}

LEMMA SequenceOf ==
  ASSUME NEW s, IsSequence(s)
  PROVE  /\ Len(s) \in Nat /\ DOMAIN s = 1..Len(s)
         /\ \A k \in DOMAIN s : s[k] \in ToSet(s)
         /\ \A S : ToSet(s) \subseteq S => s \in Seq(S)
<1>1. Len(s) \in Nat /\ s = [k \in 1..Len(s) |-> s[k]]
  BY DEF IsSequence
<1>2. DOMAIN s = 1..Len(s)
  BY <1>1
<1>3. \A k \in DOMAIN s : s[k] \in ToSet(s)
  BY DEF ToSet
<1>4. ASSUME NEW S, ToSet(s) \subseteq S PROVE s \in Seq(S)
  <2>1. \A k \in 1..Len(s) : s[k] \in S
    BY <1>2, <1>3, <1>4
  <2>2. [k \in 1..Len(s) |-> s[k]] \in Seq(S)
    BY <1>1, <2>1
  <2> QED BY <1>1, <2>2
<1> QED BY <1>1, <1>2, <1>3, <1>4

LEMMA InSet == \A s, x : x \in ToSet(s) <=> \E k \in DOMAIN s : s[k] = x
BY DEF ToSet

LEMMA InWithin ==
  \A S, x : x \in Within(S) <=> \E i \in S : i.op = "if" /\ (x \in ToSet(i.then) \/ x \in ToSet(i.else))
BY DEF Within

\* A program is made of its accesses, and so are the branches of each.
LEMMA CodeClosed ==
  ASSUME NEW p, IsProgram(p)
  PROVE  /\ p \in Seq(Code(p)) /\ Paired(p)
         /\ \A i \in Code(p) : i.op = "if" => /\ i.then \in Seq(Code(p)) /\ Paired(i.then)
                                            /\ i.else \in Seq(Code(p)) /\ Paired(i.else)
<1> DEFINE S0 == ToSet(p)
           S1 == Within(S0)
           S2 == Within(S1)
<1>1. Code(p) = S0 \cup S1 \cup S2
  BY DEF Code
<1>2. Accesses(p) /\ \A i \in S0 : i.op = "if" => Forked(i.then) /\ Forked(i.else)
  BY InSet DEF IsProgram
<1> HIDE DEF S0
<1>3. \A i \in S0 : i.op = "if" => ToSet(i.then) \subseteq S1 /\ ToSet(i.else) \subseteq S1
  BY InWithin
<1>4. \A x \in S1 : \E i \in S0 : i.op = "if" /\ (x \in ToSet(i.then) \/ x \in ToSet(i.else))
  BY InWithin
<1> HIDE DEF S1
<1>5. \A i \in S1 : i.op = "if" => Straight(i.then) /\ Straight(i.else)
  BY <1>2, <1>4, InSet DEF Forked
<1>6. \A i \in S1 : i.op = "if" => ToSet(i.then) \subseteq S2 /\ ToSet(i.else) \subseteq S2
  BY InWithin
<1>7. \A x \in S2 : \E i \in S1 : i.op = "if" /\ (x \in ToSet(i.then) \/ x \in ToSet(i.else))
  BY InWithin
<1> HIDE DEF S2
<1>8. \A i \in S2 : i.op # "if"
  BY <1>5, <1>7, InSet DEF Straight
<1>9. p \in Seq(Code(p)) /\ Paired(p)
  BY <1>1, <1>2, SequenceOf DEF S0, Accesses
<1>10. ASSUME NEW i \in Code(p), i.op = "if"
       PROVE  /\ i.then \in Seq(Code(p)) /\ Paired(i.then)
              /\ i.else \in Seq(Code(p)) /\ Paired(i.else)
  <2>1. i \in S0 \/ i \in S1
    BY <1>1, <1>8, <1>10
  <2>2. Accesses(i.then) /\ Accesses(i.else)
    BY <1>2, <1>5, <1>10, <2>1 DEF Forked, Straight
  <2>3. ToSet(i.then) \subseteq Code(p) /\ ToSet(i.else) \subseteq Code(p)
    BY <1>1, <1>3, <1>6, <1>10, <2>1
  <2> QED BY <2>2, <2>3, SequenceOf DEF Accesses
<1> QED BY <1>9, <1>10

\* The calls of a task, and what it executes in them.
LEMMA CodeOfTask ==
  ASSUME NEW a \in DOMAIN Applications, NEW t \in DOMAIN Applications[a].calls,
         NEW calls, calls = Applications[a].calls[t]
  PROVE  /\ Len(calls) \in Nat /\ DOMAIN calls = 1..Len(calls) /\ Applications[a].from[t] \in 0..Len(calls)
         /\ \A k \in 1..Len(calls) : /\ calls[k].does \in Seq(TaskCode(a, t)) /\ Paired(calls[k].does)
                                     /\ IsProgram(calls[k].does)
         /\ \A i \in TaskCode(a, t) : i.op = "if" => /\ i.then \in Seq(TaskCode(a, t)) /\ Paired(i.then)
                                                    /\ i.else \in Seq(TaskCode(a, t)) /\ Paired(i.else)
<1> DEFINE C == TaskCode(a, t)
<1>1. /\ IsSequence(calls) /\ Applications[a].from[t] \in 0..Len(calls)
      /\ \A k \in DOMAIN calls : IsProgram(calls[k].does)
  BY ProgramsAssumption
<1>2. Len(calls) \in Nat /\ DOMAIN calls = 1..Len(calls)
  BY <1>1, SequenceOf
<1>3. \A k \in DOMAIN calls : Code(calls[k].does) \subseteq C
  BY DEF TaskCode, CallCode
<1>4. \A x \in C : \E k \in DOMAIN calls : x \in Code(calls[k].does)
  BY DEF TaskCode, CallCode
<1>5. \A R, S, s : R \subseteq S /\ s \in Seq(R) => s \in Seq(S)
  OBVIOUS
<1> HIDE DEF C
<1>6. ASSUME NEW k \in DOMAIN calls
      PROVE  calls[k].does \in Seq(C) /\ Paired(calls[k].does)
  BY <1>1, <1>3, <1>5, CodeClosed
<1>7. ASSUME NEW i \in C, i.op = "if"
      PROVE  i.then \in Seq(C) /\ Paired(i.then) /\ i.else \in Seq(C) /\ Paired(i.else)
  <2>1. PICK k \in DOMAIN calls : i \in Code(calls[k].does)
    BY <1>4
  <2> DEFINE D == Code(calls[k].does)
  <2>2. i.then \in Seq(D) /\ Paired(i.then) /\ i.else \in Seq(D) /\ Paired(i.else)
    BY <1>1, <1>7, <2>1, CodeClosed
  <2> HIDE DEF D
  <2>3. D \subseteq C
    BY <1>3 DEF D
  <2> QED BY <1>5, <2>2, <2>3
<1> QED BY <1>1, <1>2, <1>6, <1>7 DEF C

LEMMA PairedParts ==
  ASSUME NEW C, NEW s \in Seq(C), Paired(s)
  PROVE  /\ s # << >> => Tail(s) \in Seq(C) /\ Paired(Tail(s))
         /\ s # << >> /\ Head(s).op = "load" =>
              /\ Tail(s) # << >> /\ Head(Tail(s)).op = "store" /\ Head(Tail(s)).reg = Head(s).reg
              /\ s[2] = Head(Tail(s))
         /\ s # << >> => Head(s) \in C
         /\ \A r \in Seq(C) : Paired(r) => r \o s \in Seq(C) /\ Paired(r \o s)
<1>0. Len(s) \in Nat /\ DOMAIN s = 1..Len(s)
  OBVIOUS
<1>1. ASSUME s # << >>
      PROVE  /\ Tail(s) \in Seq(C) /\ Len(Tail(s)) = Len(s) - 1 /\ Head(s) = s[1] /\ 1 \in 1..Len(s)
             /\ \A k \in 1..Len(s)-1 : Tail(s)[k] = s[k+1]
  BY <1>1
<1>2. ASSUME s # << >> PROVE Paired(Tail(s))
  <2> DEFINE r == Tail(s)
  <2>1. /\ r \in Seq(C) /\ Len(r) = Len(s) - 1
        /\ \A k \in 1..Len(r) : r[k] = s[k+1]
    BY <1>1, <1>2
  <2> HIDE DEF r
  <2>2. ASSUME NEW k \in DOMAIN r, r[k].op = "load"
        PROVE  k < Len(r) /\ r[k+1].op = "store" /\ r[k+1].reg = r[k].reg
    <3>1. k \in 1..Len(r) /\ k + 1 \in DOMAIN s /\ r[k] = s[k+1]
      BY <1>0, <2>1
    <3>2. k + 1 < Len(s) /\ s[k+1+1].op = "store" /\ s[k+1+1].reg = s[k+1].reg
      BY <2>2, <3>1 DEF Paired
    <3>3. k + 1 \in 1..Len(r)
      BY <1>0, <2>1, <3>1, <3>2
    <3> QED BY <2>1, <3>1, <3>2, <3>3
  <2>3. Paired(r)
    BY <2>2 DEF Paired
  <2> QED BY <2>3 DEF r
<1>3. ASSUME s # << >>, Head(s).op = "load"
      PROVE  /\ Tail(s) # << >> /\ Head(Tail(s)).op = "store" /\ Head(Tail(s)).reg = Head(s).reg
             /\ s[2] = Head(Tail(s))
  <2>1. 1 \in DOMAIN s /\ s[1].op = "load" /\ s[1] = Head(s)
    BY <1>0, <1>1, <1>3
  <2>2. 1 < Len(s) /\ s[1+1].op = "store" /\ s[1+1].reg = s[1].reg
    BY <2>1 DEF Paired
  <2>3. 1 + 1 = 2 /\ 1 \in 1..Len(s)-1
    BY <1>0, <2>2
  <2>4. Tail(s) # << >> /\ Head(Tail(s)) = s[2]
    <3> DEFINE r == Tail(s)
    <3>1. r \in Seq(C) /\ Len(r) = Len(s) - 1 /\ \A k \in 1..Len(s)-1 : r[k] = s[k+1]
      BY <1>1, <1>3
    <3> HIDE DEF r
    <3>2. r[1] = s[2] /\ Len(r) # 0
      BY <1>0, <2>2, <2>3, <3>1
    <3>3. r # << >>
      BY <3>2
    <3>4. Head(r) = r[1]
      BY <3>1, <3>3
    <3> QED BY <3>2, <3>3, <3>4 DEF r
  <2> QED BY <2>1, <2>2, <2>3, <2>4
<1>4. ASSUME NEW r \in Seq(C), Paired(r) PROVE r \o s \in Seq(C) /\ Paired(r \o s)
  <2> DEFINE c == r \o s
  <2>1. /\ c \in Seq(C) /\ Len(c) = Len(r) + Len(s) /\ Len(r) \in Nat
        /\ \A k \in 1..Len(c) : c[k] = IF k <= Len(r) THEN r[k] ELSE s[k - Len(r)]
    BY ConcatProperties
  <2> HIDE DEF c
  <2>2. ASSUME NEW k \in DOMAIN c, c[k].op = "load"
        PROVE  k < Len(c) /\ c[k+1].op = "store" /\ c[k+1].reg = c[k].reg
    <3>0. k \in 1..Len(c) /\ DOMAIN r = 1..Len(r)
      BY <2>1
    <3>1. CASE k <= Len(r)
      <4>1. k \in DOMAIN r /\ c[k] = r[k]
        BY <2>1, <3>0, <3>1
      <4>2. k < Len(r) /\ r[k+1].op = "store" /\ r[k+1].reg = r[k].reg
        BY <1>4, <2>2, <4>1 DEF Paired
      <4>3. k + 1 \in 1..Len(c) /\ k + 1 <= Len(r) /\ k < Len(c)
        BY <1>0, <2>1, <3>0, <4>2
      <4>4. c[k+1] = r[k+1]
        BY <2>1, <4>3
      <4> QED BY <4>1, <4>2, <4>3, <4>4
    <3>2. CASE k > Len(r)
      <4> DEFINE j == k - Len(r)
      <4>1. j \in DOMAIN s /\ c[k] = s[j] /\ j \in Nat
        BY <1>0, <2>1, <3>0, <3>2
      <4>2. j < Len(s) /\ s[j+1].op = "store" /\ s[j+1].reg = s[j].reg
        BY <2>2, <4>1 DEF Paired
      <4>3. k + 1 \in 1..Len(c) /\ ~(k + 1 <= Len(r)) /\ k < Len(c) /\ (k + 1) - Len(r) = j + 1
        BY <1>0, <2>1, <3>0, <3>2, <4>2
      <4>4. c[k+1] = s[j+1]
        BY <2>1, <4>3
      <4> QED BY <4>1, <4>2, <4>3, <4>4
    <3> QED BY <2>1, <3>0, <3>1, <3>2
  <2>3. Paired(c)
    BY <2>2 DEF Paired
  <2> QED BY <2>1, <2>3 DEF c
<1> QED BY <1>1, <1>2, <1>3, <1>4
-----------------------------------------------------------------------------
(* The steps of a task *)

\* What the tasks are doing are parts of their calls.
Activities ==
  /\ app \in DOMAIN Applications
  /\ DOMAIN at = Tasks
  /\ \A t \in Tasks : /\ DOMAIN at[t] = {"call", "todo", "buf"}
                      /\ at[t].call \in 0..Len(Plan.calls[t])
                      /\ at[t].call = 0 => at[t].todo = << >>
                      /\ at[t].todo \in Seq(TaskCode(app, t)) /\ Paired(at[t].todo)

\* Where it is when it executes an access: in a call it has begun, or at the start of one.
IsAt(t, w) ==
  /\ DOMAIN w = {"call", "todo", "buf"} /\ w.call \in 1..Len(Plan.calls[t])
  /\ w.todo \in Seq(TaskCode(app, t)) /\ Paired(w.todo) /\ w.todo # << >>
  /\ \/ at[t].todo # << >> /\ w.call = at[t].call /\ w.todo = at[t].todo
     \/ at[t].todo = << >> /\ w.call = Following(t) /\ w.todo = Plan.calls[t][w.call].does

LEMMA Begins ==
  ASSUME Activities, NEW t \in Tasks, NEW w, w = Goes(t), w.todo # << >>
  PROVE  IsAt(t, w)
<1> DEFINE calls == Plan.calls[t]
<1>1. /\ app \in DOMAIN Applications /\ t \in DOMAIN Applications[app].calls /\ calls = Applications[app].calls[t]
      /\ Plan.from[t] = Applications[app].from[t]
  BY DEF Activities, Tasks, Plan
<1>2. /\ Len(calls) \in Nat /\ Applications[app].from[t] \in 0..Len(calls)
      /\ \A k \in 1..Len(calls) : calls[k].does \in Seq(TaskCode(app, t)) /\ Paired(calls[k].does)
  <2> HIDE DEF calls
  <2> QED BY <1>1, CodeOfTask
<1>3. /\ DOMAIN at[t] = {"call", "todo", "buf"} /\ at[t].call \in 0..Len(calls)
      /\ at[t].call = 0 => at[t].todo = << >>
      /\ at[t].todo \in Seq(TaskCode(app, t)) /\ Paired(at[t].todo)
  BY DEF Activities
<1>4. CASE at[t].todo # << >>
  <2>1. w = at[t]
    BY <1>4 DEF Goes
  <2> QED BY <1>2, <1>3, <1>4, <2>1 DEF IsAt
<1>5. CASE at[t].todo = << >>
  <2> DEFINE f == Following(t)
  <2>1. f \in 0..Len(calls)
    BY <1>1, <1>2, <1>3 DEF Following
  <2>2. w = [call |-> f, buf |-> << >>, todo |-> IF f = 0 THEN << >> ELSE calls[f].does]
    BY <1>5 DEF Goes
  <2> HIDE DEF f, calls
  <2>3. f # 0 /\ w.todo = calls[f].does /\ w.call = f /\ DOMAIN w = {"call", "todo", "buf"}
    BY <2>2
  <2>4. f \in 1..Len(calls)
    BY <1>2, <2>1, <2>3
  <2> QED BY <1>2, <1>5, <2>3, <2>4 DEF IsAt, f, calls
<1> QED BY <1>4, <1>5

\* A store, or the load and the store after it.
Overwrites(t, i) ==
  \E v : \E j \in TaskCode(app, t) : j.op = "store" /\ j.reg = i.reg /\ mem' = Written(i.reg, Over(j.new, v))

\* What an access does to the registers.
Effect(t, i) ==
  \/ mem' = mem /\ i.op \notin {"write", "store"}
  \/ i.op = "write" /\ mem' = Written(i.reg, i.new)
  \/ i.op \in {"load", "store"} /\ Overwrites(t, i)
  \/ i.op = "read" /\ i.reg = US("RBUF") /\ mem' = Written(US("RBUFSR"), [RDV |-> 0])

\* A task has executed i and has x.todo left of its call.
Executed(t, w, i, x) ==
  /\ i \in TaskCode(app, t) /\ i = Head(w.todo)
  /\ at' = [at EXCEPT ![t] = x] /\ DOMAIN x = {"call", "todo", "buf"} /\ x.call = w.call
  /\ x.todo \in Seq(TaskCode(app, t)) /\ Paired(x.todo)
  /\ i.op \in {"write", "store", "await"} => x.todo = Tail(w.todo)
  /\ i.op = "load" => (mem' = mem /\ x.todo = Tail(w.todo)) \/ Overwrites(t, i)
  /\ i.op # "create" => live' = live
  /\ app' = app /\ flight' = flight /\ bus' = bus /\ Effect(t, i)

LEMMA Executes ==
  ASSUME Activities, NEW t \in Tasks, Step(t)
  PROVE  \E w, i, x : IsAt(t, w) /\ Executed(t, w, i, x) /\ w = Goes(t)
<1> DEFINE C == TaskCode(app, t)
<1>1. PICK w : w = Goes(t) /\ w.todo # << >> /\ \E i \in {Head(w.todo)} :
         \/ Loads(t, w, i) \/ Stores(t, w, i) \/ Updates(t, w, i) \/ Writes(t, w, i) \/ Reads(t, w, i)
         \/ Awaits(t, w, i) \/ TimesOut(t, w, i) \/ Branches(t, w, i) \/ Creates(t, w, i)
  BY DEF Step
<1>2. PICK i : i = Head(w.todo) /\
         \/ Loads(t, w, i) \/ Stores(t, w, i) \/ Updates(t, w, i) \/ Writes(t, w, i) \/ Reads(t, w, i)
         \/ Awaits(t, w, i) \/ TimesOut(t, w, i) \/ Branches(t, w, i) \/ Creates(t, w, i)
  BY <1>1
<1>3. IsAt(t, w)
  BY <1>1, Begins
<1>4. DOMAIN w = {"call", "todo", "buf"} /\ w.todo \in Seq(C) /\ Paired(w.todo) /\ w.todo # << >>
  BY <1>3 DEF IsAt
<1> HIDE DEF C
<1>5. /\ i \in C /\ Tail(w.todo) \in Seq(C) /\ Paired(Tail(w.todo))
      /\ i.op = "load" => /\ Tail(w.todo) # << >> /\ Tail(Tail(w.todo)) \in Seq(C) /\ Paired(Tail(Tail(w.todo)))
      /\ << >> \in Seq(C) /\ Paired(<< >>)
  <2>1. Tail(w.todo) \in Seq(C) /\ Paired(Tail(w.todo)) /\ i \in C
    BY <1>2, <1>4, PairedParts
  <2>2. i.op = "load" => Tail(w.todo) # << >>
    BY <1>2, <1>4, PairedParts
  <2>3. i.op = "load" => Tail(Tail(w.todo)) \in Seq(C) /\ Paired(Tail(Tail(w.todo)))
    <3> DEFINE s == Tail(w.todo)
    <3> HIDE DEF s
    <3> QED BY <2>1, <2>2, PairedParts DEF s
  <2>4. << >> \in Seq(C) /\ Paired(<< >>)
    BY DEF Paired
  <2> QED BY <2>1, <2>2, <2>3, <2>4
<1>6. ASSUME NEW v, DOMAIN v = {"call", "todo", "buf"}, v.call = w.call, NEW more, NEW words,
             GoesOn(t, v, more, words), NEW rest, rest = more \o Tail(v.todo)
      PROVE  \E x : /\ at' = [at EXCEPT ![t] = x] /\ DOMAIN x = {"call", "todo", "buf"} /\ x.call = w.call
                    /\ x.todo = rest
  <2> DEFINE x == [v EXCEPT !.todo = more \o Tail(@), !.buf = @ \o words]
  <2>1. at' = [at EXCEPT ![t] = x]
    BY <1>6 DEF GoesOn
  <2>2. DOMAIN x = {"call", "todo", "buf"} /\ x.call = w.call /\ x.todo = rest
    BY <1>6
  <2> QED BY <2>1, <2>2
<1>7. << >> \o Tail(w.todo) = Tail(w.todo)
  BY <1>5
<1>7a. ASSUME NEW words, GoesOn(t, w, << >>, words)
       PROVE  \E x : /\ at' = [at EXCEPT ![t] = x] /\ DOMAIN x = {"call", "todo", "buf"} /\ x.call = w.call
                     /\ x.todo = Tail(w.todo)
  <2> DEFINE x == [w EXCEPT !.todo = << >> \o Tail(@), !.buf = @ \o words]
  <2>1. at' = [at EXCEPT ![t] = x]
    BY <1>7a DEF GoesOn
  <2>2. DOMAIN x = {"call", "todo", "buf"} /\ x.call = w.call /\ x.todo = Tail(w.todo)
    BY <1>4, <1>7
  <2> QED BY <2>1, <2>2
<1>8. ASSUME Proceeds(t, w), Effect(t, i), i.op = "load" => mem' = mem
      PROVE  \E x : Executed(t, w, i, x)
  <2>1. GoesOn(t, w, << >>, << >>)
    BY <1>8 DEF Proceeds
  <2>2. \E x : /\ at' = [at EXCEPT ![t] = x] /\ DOMAIN x = {"call", "todo", "buf"} /\ x.call = w.call
               /\ x.todo = Tail(w.todo)
    BY <1>7a, <2>1
  <2>3. app' = app /\ live' = live /\ flight' = flight /\ bus' = bus
    BY <2>1 DEF GoesOn
  <2>4. PICK x : /\ at' = [at EXCEPT ![t] = x] /\ DOMAIN x = {"call", "todo", "buf"} /\ x.call = w.call
                /\ x.todo = Tail(w.todo)
    BY <2>2
  <2>5. Executed(t, w, i, x)
    BY <1>2, <1>5, <1>8, <2>3, <2>4 DEF Executed, C
  <2> QED BY <2>5
<1>9. ASSUME Loads(t, w, i) PROVE \E x : Executed(t, w, i, x)
  <2>1. i.op = "load" /\ Proceeds(t, w) /\ mem' = mem
    BY <1>9 DEF Loads
  <2>2. Effect(t, i)
    BY <2>1 DEF Effect
  <2> QED BY <1>8, <2>1, <2>2
<1>10. ASSUME Stores(t, w, i) PROVE \E x : Executed(t, w, i, x)
  <2>1. i.op = "store" /\ Proceeds(t, w) /\ mem' = Written(i.reg, Over(i.new, acc[t]))
    BY <1>10 DEF Stores
  <2>2. Effect(t, i)
    BY <1>5, <2>1 DEF Effect, Overwrites, C
  <2> QED BY <1>8, <2>1, <2>2
<1>11. ASSUME Writes(t, w, i) PROVE \E x : Executed(t, w, i, x)
  <2>1. i.op = "write" /\ Proceeds(t, w) /\ mem' = Written(i.reg, i.new)
    BY <1>11 DEF Writes
  <2>2. Effect(t, i)
    BY <2>1 DEF Effect
  <2> QED BY <1>8, <2>1, <2>2
<1>12. ASSUME Awaits(t, w, i) PROVE \E x : Executed(t, w, i, x)
  <2>1. i.op \in {"await", "poll"} /\ Proceeds(t, w) /\ mem' = mem
    BY <1>12 DEF Awaits
  <2>2. Effect(t, i)
    BY <2>1 DEF Effect
  <2> QED BY <1>8, <2>1, <2>2
<1>13. ASSUME Updates(t, w, i) PROVE \E x : Executed(t, w, i, x)
  <2> DEFINE v == [w EXCEPT !.todo = Tail(@)]
  <2>0. GoesOn(t, v, << >>, << >>)
    BY <1>13 DEF Updates, Proceeds
  <2>1. i.op = "load" /\ mem' = Written(i.reg, Over(w.todo[2].new, Value(i.reg)))
    BY <1>13 DEF Updates
  <2>2. DOMAIN v = {"call", "todo", "buf"} /\ v.call = w.call /\ v.todo = Tail(w.todo)
    BY <1>4
  <2> HIDE DEF v
  <2>3. Tail(v.todo) \in Seq(C) /\ Paired(Tail(v.todo))
    BY <1>5, <2>1, <2>2
  <2>4. << >> \o Tail(v.todo) = Tail(v.todo)
    BY <2>3
  <2>5. \E x : /\ at' = [at EXCEPT ![t] = x] /\ DOMAIN x = {"call", "todo", "buf"} /\ x.call = w.call
               /\ x.todo = Tail(v.todo)
    BY <1>6, <2>0, <2>2, <2>4, Zenon
  <2>6. PICK j : j = Head(Tail(w.todo)) /\ w.todo[2] = j /\ j.op = "store" /\ j.reg = i.reg
    BY <1>2, <1>4, <2>1, PairedParts
  <2>7. j \in C
    <3> DEFINE s == Tail(w.todo)
    <3>1. s \in Seq(C) /\ Paired(s) /\ s # << >>
      BY <1>5, <2>1
    <3> HIDE DEF s
    <3>2. Head(s) \in C
      BY <3>1, PairedParts
    <3> QED BY <2>6, <3>2 DEF s
  <2>8. Overwrites(t, i)
    BY <2>1, <2>6, <2>7 DEF Overwrites, C
  <2>9. Effect(t, i)
    BY <2>1, <2>8 DEF Effect
  <2>10. PICK x : /\ at' = [at EXCEPT ![t] = x] /\ DOMAIN x = {"call", "todo", "buf"} /\ x.call = w.call
                 /\ x.todo = Tail(v.todo)
    BY <2>5
  <2>11. app' = app /\ live' = live /\ flight' = flight /\ bus' = bus
    BY <2>0 DEF GoesOn
  <2>12. Executed(t, w, i, x)
    BY <1>2, <1>5, <2>1, <2>3, <2>8, <2>9, <2>10, <2>11 DEF Executed, C
  <2> QED BY <2>12
<1>14. ASSUME Reads(t, w, i) PROVE \E x : Executed(t, w, i, x)
  <2>0. GoesOn(t, w, << >>, << Field(i.reg, i.field) >>)
    BY <1>14 DEF Reads
  <2>1. i.op = "read"
        /\ mem' = IF i.reg = US("RBUF") THEN Written(US("RBUFSR"), [RDV |-> 0]) ELSE mem
    BY <1>14 DEF Reads
  <2>2. Effect(t, i)
    BY <2>1 DEF Effect
  <2>3. \E x : /\ at' = [at EXCEPT ![t] = x] /\ DOMAIN x = {"call", "todo", "buf"} /\ x.call = w.call
               /\ x.todo = Tail(w.todo)
    BY <1>7a, <2>0
  <2>4. app' = app /\ live' = live /\ flight' = flight /\ bus' = bus
    BY <2>0 DEF GoesOn
  <2>5. PICK x : /\ at' = [at EXCEPT ![t] = x] /\ DOMAIN x = {"call", "todo", "buf"} /\ x.call = w.call
                /\ x.todo = Tail(w.todo)
    BY <2>3
  <2>6. Executed(t, w, i, x)
    BY <1>2, <1>5, <2>1, <2>2, <2>4, <2>5 DEF Executed, C
  <2> QED BY <2>6
<1>15. ASSUME TimesOut(t, w, i) PROVE \E x : Executed(t, w, i, x)
  <2> DEFINE x == [w EXCEPT !.todo = << >>]
  <2>1. i.op = "poll" /\ at' = [at EXCEPT ![t] = x] /\ mem' = mem /\ app' = app /\ live' = live /\ flight' = flight /\ bus' = bus
    BY <1>15 DEF TimesOut
  <2>2. DOMAIN x = {"call", "todo", "buf"} /\ x.call = w.call /\ x.todo = << >>
    BY <1>4
  <2>3. Effect(t, i)
    BY <2>1 DEF Effect
  <2> HIDE DEF x
  <2>4. Executed(t, w, i, x)
    BY <1>2, <1>5, <2>1, <2>2, <2>3 DEF Executed, C
  <2> QED BY <2>4
<1>16. ASSUME Creates(t, w, i) PROVE \E x : Executed(t, w, i, x)
  <2> DEFINE x == [w EXCEPT !.todo = Tail(@)]
  <2>1. i.op = "create" /\ at' = [at EXCEPT ![t] = x] /\ mem' = mem /\ app' = app /\ flight' = flight /\ bus' = bus
    BY <1>16 DEF Creates
  <2>2. DOMAIN x = {"call", "todo", "buf"} /\ x.call = w.call /\ x.todo = Tail(w.todo)
    BY <1>4
  <2>3. Effect(t, i)
    BY <2>1 DEF Effect
  <2> HIDE DEF x
  <2>4. Executed(t, w, i, x)
    BY <1>2, <1>5, <2>1, <2>2, <2>3 DEF Executed, C
  <2> QED BY <2>4
<1>17. ASSUME Branches(t, w, i) PROVE \E x : Executed(t, w, i, x)
  <2> DEFINE more == IF Holds(i) THEN i.then ELSE i.else
             rest == more \o Tail(w.todo)
  <2>1. i.op = "if" /\ GoesOn(t, w, more, << >>) /\ mem' = mem
    BY <1>17 DEF Branches
  <2>2. app \in DOMAIN Applications /\ t \in DOMAIN Applications[app].calls
    BY DEF Activities, Tasks, Plan
  <2>3. i.then \in Seq(C) /\ Paired(i.then) /\ i.else \in Seq(C) /\ Paired(i.else)
    BY <1>5, <2>1, <2>2, CodeOfTask DEF C
  <2>4. more \in Seq(C) /\ Paired(more)
    BY <2>3
  <2> HIDE DEF more
  <2>5. rest \in Seq(C) /\ Paired(rest)
    <3> DEFINE s == Tail(w.todo)
    <3>1. s \in Seq(C) /\ Paired(s)
      BY <1>5
    <3> HIDE DEF s
    <3> QED BY <2>4, <3>1, PairedParts DEF s
  <2> HIDE DEF rest
  <2>6. rest = more \o Tail(w.todo)
    BY DEF rest
  <2>7. \E x : /\ at' = [at EXCEPT ![t] = x] /\ DOMAIN x = {"call", "todo", "buf"} /\ x.call = w.call
               /\ x.todo = rest
    BY <1>4, <1>6, <2>1, <2>5, <2>6
  <2>8. Effect(t, i)
    BY <2>1 DEF Effect
  <2>9. UNCHANGED << app, live, flight, bus >>
    BY <2>1 DEF GoesOn
  <2>10. PICK x : /\ at' = [at EXCEPT ![t] = x] /\ DOMAIN x = {"call", "todo", "buf"} /\ x.call = w.call
                 /\ x.todo = rest
    BY <2>7
  <2>11. x.todo \in Seq(TaskCode(app, t)) /\ Paired(x.todo) /\ i \in TaskCode(app, t)
    BY <1>5, <2>5, <2>10 DEF C
  <2>12. Executed(t, w, i, x)
    BY <1>2, <2>1, <2>8, <2>9, <2>10, <2>11 DEF Executed
  <2> QED BY <2>12
<1>18. \E x : Executed(t, w, i, x)
  BY <1>2, <1>9, <1>10, <1>11, <1>12, <1>13, <1>14, <1>15, <1>16, <1>17
<1> QED BY <1>1, <1>3, <1>18

\* The tasks stay in their calls.
LEMMA ActivitiesStepped ==
  ASSUME Activities, NEW t \in Tasks, NEW w, NEW i, NEW x, IsAt(t, w), Executed(t, w, i, x)
  PROVE  /\ Activities' /\ Plan' = Plan /\ Tasks' = Tasks /\ at'[t] = x
         /\ \A u \in Tasks \ {t} : at'[u] = at[u]
<1>1. app' = app /\ at' = [at EXCEPT ![t] = x]
  BY DEF Executed
<1>2. Plan' = Plan /\ Tasks' = Tasks
  BY <1>1 DEF Plan, Tasks
<1>3. DOMAIN at' = Tasks /\ at'[t] = x /\ \A u \in Tasks \ {t} : at'[u] = at[u]
  BY <1>1 DEF Activities
<1>4. /\ DOMAIN x = {"call", "todo", "buf"} /\ x.call \in 1..Len(Plan.calls[t])
      /\ x.todo \in Seq(TaskCode(app, t)) /\ Paired(x.todo)
  BY DEF IsAt, Executed
<1>5. ASSUME NEW u \in Tasks
      PROVE  /\ DOMAIN at'[u] = {"call", "todo", "buf"}
             /\ at'[u].call \in 0..Len(Plan.calls[u])
             /\ at'[u].call = 0 => at'[u].todo = << >>
             /\ at'[u].todo \in Seq(TaskCode(app, u)) /\ Paired(at'[u].todo)
  <2>1. CASE u = t
    BY <1>3, <1>4, <2>1
  <2>2. CASE u # t
    BY <1>3, <2>2 DEF Activities
  <2> QED BY <2>1, <2>2
<1>6. Activities'
  BY <1>1, <1>2, <1>3, <1>5 DEF Activities
<1> QED BY <1>2, <1>3, <1>6
-----------------------------------------------------------------------------
(* The registers *)

\* A pin has the level of its last call.
HasLevel(m, c) == OUT(c.port) \in DOMAIN m /\ c.nr \in DOMAIN m[OUT(c.port)] /\ m[OUT(c.port)][c.nr] = c.level

\* p is m with v in r.
Holding(p, r, v, m) ==
  DOMAIN p = DOMAIN m \cup {r} /\ p[r] = v /\ \A s \in DOMAIN m \ {r} : p[s] = m[s]

LEMMA PutInto ==
  ASSUME NEW r, NEW v, NEW m
  PROVE  Holding(Put(r, v, m), r, v, m)
<1>1. PICK p : p = Put(r, v, m)
  OBVIOUS
<1>2. CASE r \in DOMAIN m
  <2>1. p = [m EXCEPT ![r] = v]
    BY <1>1, <1>2 DEF Put
  <2>2. Holding(p, r, v, m)
    BY <1>2, <2>1 DEF Holding
  <2> QED BY <1>1, <2>2
<1>3. CASE r \notin DOMAIN m
  <2>1. p = [x \in DOMAIN m \cup {r} |-> IF x = r THEN v ELSE m[x]]
    BY <1>1, <1>3 DEF Put
  <2>2. Holding(p, r, v, m)
    BY <2>1 DEF Holding
  <2> QED BY <1>1, <2>2
<1> QED BY <1>2, <1>3

LEMMA OthersKeepLevel ==
  ASSUME NEW c, NEW m, HasLevel(m, c), NEW r, NEW v, r # OUT(c.port)
  PROVE  HasLevel(Put(r, v, m), c)
<1> DEFINE o == OUT(c.port)
<1>1. o \in DOMAIN m /\ c.nr \in DOMAIN m[o] /\ m[o][c.nr] = c.level /\ o # r
  BY DEF HasLevel
<1>2. PICK p : p = Put(r, v, m)
  OBVIOUS
<1>3. Holding(p, r, v, m)
  BY <1>2, PutInto
<1>4. o \in DOMAIN p /\ p[o] = m[o]
  <2> HIDE DEF o
  <2> QED BY <1>1, <1>3 DEF Holding
<1> QED BY <1>1, <1>2, <1>4 DEF HasLevel

LEMMA WrittenKeepsLevel ==
  ASSUME NEW c, c.port \in Ports, HasLevel(mem, c), NEW r, r # OUT(c.port),
         NEW v, r = OMR(c.port) => c.nr \notin DOMAIN v
  PROVE  HasLevel(Written(r, v), c)
<1>1. CASE r[1] = "MOCTR"
  <2>0. r \notin {OMR(p) : p \in Ports} /\ r # CGATCLR0
    BY <1>1 DEF OMR, Ports, CGATCLR0
  <2>1. Written(r, v) = Put(MOSTAT(r[2]), Over(v, Value(MOSTAT(r[2]))), mem)
    BY <1>1, <2>0 DEF Written
  <2>2. OUT(c.port) # MOSTAT(r[2])
    BY DEF OUT, MOSTAT, Ports
  <2> QED BY <2>1, <2>2, OthersKeepLevel
<1>2. CASE r \in {OMR(p) : p \in Ports}
  <2>0. PICK p \in Ports : r = OMR(p)
    BY <1>2
  <2>1. r[1] = p /\ r[1] \notin {"MOCTR", "NBTR", "NPCR"} /\ r # CGATCLR0
    BY <2>0 DEF OMR, Ports, CGATCLR0
  <2> DEFINE old == Value(OUT(p))
             new == Over(v, old)
  <2>2. Written(r, v) = Put(OUT(p), new, mem)
    BY <1>2, <2>1 DEF Written
  <2>3. CASE p = c.port
    <3>1. c.nr \notin DOMAIN v /\ old = mem[OUT(p)] /\ OUT(p) \in DOMAIN mem
      BY <2>0, <2>3 DEF Value, HasLevel
    <3>2. c.nr \in DOMAIN old /\ old[c.nr] = c.level
      BY <2>3, <3>1 DEF HasLevel
    <3> HIDE DEF old
    <3>3. c.nr \in DOMAIN new /\ new[c.nr] = c.level
      BY <3>1, <3>2 DEF Over
    <3> HIDE DEF new
    <3>4. PICK m : m = Written(r, v)
      OBVIOUS
    <3> DEFINE o == OUT(p)
    <3> HIDE DEF o
    <3>5. m = Put(o, new, mem)
      BY <2>2, <3>4 DEF o
    <3>6. Holding(m, o, new, mem)
      BY <3>5, PutInto
    <3>7. o \in DOMAIN m /\ m[o] = new
      BY <3>6 DEF Holding
    <3> QED BY <2>3, <3>3, <3>4, <3>7 DEF HasLevel, o
  <2>4. CASE p # c.port
    <3> HIDE DEF new
    <3>1. OUT(c.port) # OUT(p)
      BY <2>4 DEF OUT
    <3> QED BY <2>2, <3>1, OthersKeepLevel
  <2> QED BY <2>3, <2>4
<1>3. CASE r[1] # "MOCTR" /\ r \notin {OMR(p) : p \in Ports}
  <2>2. OUT(c.port) # CGATSTAT0
    BY DEF OUT, CGATSTAT0, Ports
  <2>4. Written(r, v) = mem \/ \E new : Written(r, v) = Put(r, new, mem) \/ Written(r, v) = Put(CGATSTAT0, new, mem)
    BY <1>3 DEF Written
  <2> QED BY <2>2, <2>4, OthersKeepLevel
<1> QED BY <1>1, <1>2, <1>3

\* No peripheral changes the level of a pin.
LEMMA PeripheralsKeepLevel ==
  ASSUME NEW c, c.port \in Ports, HasLevel(mem, c), Peripherals
  PROVE  HasLevel(mem', c)
<1> DEFINE o == OUT(c.port)
<1>0. /\ \A m : o # List(m) /\ o # MOSTAT(m) /\ o # NSR(m) /\ o # NCR(m) /\ o # MODATAL(m) /\ o # MODATAH(m)
                /\ o # MOFCR(m)
      /\ o # PANCTR /\ o # US("RBUFSR") /\ o # US("RBUF")
  BY DEF OUT, Ports, List, MOSTAT, NSR, NCR, MODATAL, MODATAH, MOFCR, PANCTR, US
<1>1. ASSUME PanelDone PROVE HasLevel(mem', c)
  <2>1. PICK r, v, w : mem' = Put(List(r), v, Put(PANCTR, w, mem))
    BY <1>1 DEF PanelDone
  <2>2. HasLevel(Put(PANCTR, w, mem), c)
    BY <1>0, OthersKeepLevel
  <2> QED BY <1>0, <2>1, <2>2, OthersKeepLevel
<1>2. ASSUME ByteArrives PROVE HasLevel(mem', c)
  <2>1. PICK v, w : mem' = Put(US("RBUFSR"), v, Put(US("RBUF"), w, mem))
    BY <1>2 DEF ByteArrives
  <2>2. HasLevel(Put(US("RBUF"), w, mem), c)
    BY <1>0, OthersKeepLevel
  <2> QED BY <1>0, <2>1, <2>2, OthersKeepLevel
<1>3. ASSUME NEW m, NEW bits PROVE HasLevel(Marks(m, bits), c)
  BY <1>0, OthersKeepLevel DEF Marks
<1>4. ASSUME NEW n, Starts(n) PROVE HasLevel(mem', c)
  BY <1>3, <1>4 DEF Starts
<1>5. ASSUME NEW n, Sent(n) PROVE HasLevel(mem', c)
  <2>1. PICK v, m, bits : mem' = Put(NSR(n), v, mem) \/ mem' = Put(NSR(n), v, Marks(m, bits))
    BY <1>5 DEF Sent
  <2> QED BY <1>0, <1>3, <2>1, OthersKeepLevel
<1>6. ASSUME NEW n, NEW off, Fails(n, off) PROVE HasLevel(mem', c)
  <2>1. PICK v, w : mem' = Put(NSR(n), v, mem) \/ mem' = Put(NSR(n), v, Put(NCR(n), w, mem))
    BY <1>6 DEF Fails
  <2>2. HasLevel(Put(NCR(n), w, mem), c)
    BY <1>0, OthersKeepLevel
  <2> QED BY <1>0, <2>1, <2>2, OthersKeepLevel
<1>7. ASSUME NEW n, NEW w, Heard(n, w) PROVE HasLevel(mem', c)
  <2>1. PICK m, v1, v2, v3, bits : mem' = Put(MODATAL(m), v1, Put(MODATAH(m), v2, Put(MOFCR(m), v3, Marks(m, bits))))
    BY <1>7 DEF Heard
  <2>2. HasLevel(Put(MOFCR(m), v3, Marks(m, bits)), c)
    BY <1>0, <1>3, OthersKeepLevel
  <2>3. HasLevel(Put(MODATAH(m), v2, Put(MOFCR(m), v3, Marks(m, bits))), c)
    BY <1>0, <2>2, OthersKeepLevel
  <2> QED BY <1>0, <2>1, <2>3, OthersKeepLevel
<1> QED BY <1>1, <1>2, <1>4, <1>5, <1>6, <1>7 DEF Peripherals
-----------------------------------------------------------------------------
(* The functions of gpio.c *)

\* A program without branches that leaves the level of the pin as it is.
Plain(p, port, nr) == p \in Seq(ToSet(p)) /\ \A i \in ToSet(p) : i.op # "if" /\ Leaves(port, nr, i)

LEMMA PlainCode ==
  ASSUME NEW p, NEW port, NEW nr, Plain(p, port, nr)
  PROVE  \A i \in Code(p) : Leaves(port, nr, i)
<1>1. Within(ToSet(p)) = {}
  BY InWithin DEF Plain
<1>2. Within({}) = {}
  BY InWithin
<1>3. Code(p) = ToSet(p)
  BY <1>1, <1>2 DEF Code
<1> QED BY <1>3 DEF Plain

LEMMA PlainJoined ==
  ASSUME NEW port, NEW nr, NEW p, NEW q, Plain(p, port, nr), Plain(q, port, nr)
  PROVE  Plain(p \o q, port, nr)
<1> DEFINE S == ToSet(p) \cup ToSet(q)
<1>1. p \in Seq(S) /\ q \in Seq(S)
  BY DEF Plain
<1> HIDE DEF S
<1>2. PICK r : r = p \o q
  OBVIOUS
<1>3. /\ r \in Seq(S) /\ Len(r) = Len(p) + Len(q) /\ Len(p) \in Nat /\ Len(q) \in Nat
      /\ \A k \in 1..Len(r) : r[k] = IF k <= Len(p) THEN p[k] ELSE q[k - Len(p)]
  BY <1>1, <1>2, ConcatProperties
<1>4. DOMAIN p = 1..Len(p) /\ DOMAIN q = 1..Len(q) /\ DOMAIN r = 1..Len(r)
  BY <1>1, <1>3
<1>5. ASSUME NEW i \in ToSet(r) PROVE i \in S
  <2>1. PICK k \in 1..Len(r) : r[k] = i
    BY <1>4, InSet
  <2>2. CASE k <= Len(p)
    <3>1. k \in DOMAIN p /\ p[k] = i
      BY <1>3, <1>4, <2>1, <2>2
    <3> QED BY <3>1, InSet DEF S
  <2>3. CASE ~(k <= Len(p))
    <3>1. PICK j : j = k - Len(p)
      OBVIOUS
    <3>2. j \in DOMAIN q
      BY <1>3, <1>4, <2>3, <3>1
    <3>3. q[j] = i
      BY <1>3, <2>1, <2>3, <3>1
    <3> QED BY <3>2, <3>3, InSet DEF S
  <2> QED BY <2>2, <2>3
<1>6. \A k \in DOMAIN r : r[k] \in ToSet(r)
  BY InSet
<1>7. r \in Seq(ToSet(r))
  BY <1>3, <1>4, <1>6
<1>8. \A i \in S : i.op # "if" /\ Leaves(port, nr, i)
  BY DEF Plain, S
<1>9. Plain(r, port, nr)
  BY <1>5, <1>7, <1>8 DEF Plain
<1> QED BY <1>2, <1>9

LEMMA PlainEmpty == \A port, nr : Plain(<< >>, port, nr)
BY DEF Plain, ToSet

LEMMA PlainAccess ==
  ASSUME NEW port, NEW nr, NEW i, i.op # "if", Leaves(port, nr, i)
  PROVE  Plain(<< i >>, port, nr)
<1>1. ToSet(<< i >>) = {i}
  BY DEF ToSet
<1> QED BY <1>1 DEF Plain

LEMMA PlainModify ==
  ASSUME NEW port, NEW nr, NEW r, NEW new, r # OUT(port), r # OMR(port)
  PROVE  Plain(Modify(r, new), port, nr)
<1>1. Plain(Load(r), port, nr)
  <2>1. PICK i : i = [op |-> "load", reg |-> r]
    OBVIOUS
  <2>2. i.op # "if" /\ Leaves(port, nr, i)
    BY <2>1 DEF Leaves
  <2> QED BY <2>1, <2>2, PlainAccess DEF Load
<1>2. Plain(Store(r, new), port, nr)
  <2>1. PICK i : i = [op |-> "store", reg |-> r, new |-> new]
    OBVIOUS
  <2>2. i.op # "if" /\ Leaves(port, nr, i)
    BY <2>1 DEF Leaves
  <2> QED BY <2>1, <2>2, PlainAccess DEF Store
<1> QED BY <1>1, <1>2, PlainJoined DEF Modify

LEMMA PlainWrite ==
  ASSUME NEW port, NEW nr, NEW r, NEW new, r # OUT(port), r = OMR(port) => nr \notin DOMAIN new
  PROVE  Plain(Write(r, new), port, nr)
<1>1. PICK i : i = [op |-> "write", reg |-> r, new |-> new]
  OBVIOUS
<1>2. i.op # "if" /\ Leaves(port, nr, i)
  BY <1>1 DEF Leaves
<1> QED BY <1>1, <1>2, PlainAccess DEF Write

\* The accesses to a port other than those to its levels.
LEMMA PlainSetUp ==
  ASSUME NEW port, NEW nr, NEW other, other # nr
  PROVE  /\ \A m : Plain(Modify(IOCR(port, other), m), port, nr)
         /\ Plain(NoHysteresis(port, other), port, nr)
         /\ Plain(NoHwControl(port, other), port, nr)
         /\ Plain(DigitalInput(port, other), port, nr)
         /\ \A v : Plain(SetsLevel(port, other, v), port, nr)
<1>1. /\ OUT(port) \notin {IOCR(port, other), PHCR(port, other), HWSEL(port), PDISC(port), OMR(port)}
      /\ OMR(port) \notin {IOCR(port, other), PHCR(port, other), HWSEL(port), PDISC(port)}
  BY DEF OUT, OMR, IOCR, PHCR, HWSEL, PDISC
<1>2. \A v : nr \notin DOMAIN Pin(other, v)
  BY DEF Pin
<1>3. \A m : Plain(Modify(IOCR(port, other), m), port, nr)
  BY <1>1, PlainModify
<1>4. Plain(NoHysteresis(port, other), port, nr)
  BY <1>1, PlainModify DEF NoHysteresis
<1>5. Plain(NoHwControl(port, other), port, nr)
  BY <1>1, PlainModify DEF NoHwControl
<1>6. Plain(DigitalInput(port, other), port, nr)
  BY <1>1, PlainModify DEF DigitalInput
<1>7. \A v : Plain(SetsLevel(port, other, v), port, nr)
  BY <1>1, <1>2, PlainWrite DEF SetsLevel
<1> QED BY <1>3, <1>4, <1>5, <1>6, <1>7

LEMMA PlainConfigured ==
  ASSUME NEW port, NEW nr, NEW other, other # nr,
         NEW hwsel, NEW digital, Plain(hwsel, port, nr), Plain(digital, port, nr)
  PROVE  /\ Plain(set_input(port, other, digital), port, nr)
         /\ Plain(set_output(port, other, hwsel, digital), port, nr)
<1>1. PICK in, out, hyst, level : /\ in = Modify(IOCR(port, other), Pin(other, "in"))
                                  /\ out = Modify(IOCR(port, other), Pin(other, "out"))
                                  /\ hyst = NoHysteresis(port, other) /\ level = SetsLevel(port, other, 1)
  OBVIOUS
<1>2. Plain(in, port, nr) /\ Plain(out, port, nr) /\ Plain(hyst, port, nr) /\ Plain(level, port, nr)
  BY <1>1, PlainSetUp
<1>3. Plain(in \o digital \o hyst, port, nr)
  BY <1>2, PlainJoined
<1>4. Plain(in \o hwsel \o hyst \o digital \o level \o out, port, nr)
  BY <1>2, PlainJoined
<1> QED BY <1>1, <1>3, <1>4 DEF set_input, set_output

LEMMA SetPinAtOnce ==
  ASSUME NEW port \in Ports \ {"P2"}, NEW nr, NEW v
  PROVE  SetPin(port, nr, v).does = SetsLevel(port, nr, v)
BY DEF Ports, SetPin, gpio_0_set_pin, gpio_1_set_pin, gpio_3_set_pin, gpio_4_set_pin

LEMMA SetUpPlain ==
  ASSUME NEW port \in Ports \ {"P2"}, NEW nr, NEW other, other # nr
  PROVE  Plain(SetInput(port, other).does, port, nr) /\ Plain(SetOutput(port, other).does, port, nr)
<1>1. Plain(<< >>, port, nr) /\ Plain(NoHwControl(port, other), port, nr)
  BY PlainEmpty, PlainSetUp
<1>2. /\ Plain(set_input(port, other, << >>), port, nr)
      /\ Plain(set_output(port, other, << >>, << >>), port, nr)
      /\ Plain(set_output(port, other, NoHwControl(port, other), << >>), port, nr)
  BY <1>1, PlainConfigured
<1>3. SetInput(port, other).does = set_input(port, other, << >>)
  BY DEF Ports, SetInput, Does_, gpio_0_set_input, gpio_1_set_input, gpio_3_set_input, gpio_4_set_input
<1>4. SetOutput(port, other).does \in {set_output(port, other, << >>, << >>),
                                       set_output(port, other, NoHwControl(port, other), << >>)}
  BY DEF Ports, SetOutput, Does_, gpio_0_set_output, gpio_1_set_output, gpio_3_set_output, gpio_4_set_output
<1> QED BY <1>2, <1>3, <1>4

\* Whatever spares a pin leaves its level, access by access.
LEMMA SparesInCode ==
  ASSUME NEW port \in Ports \ {"P2"}, NEW nr, NEW does, IsProgram(does), Spares(port, nr, does)
  PROVE  \A i \in Code(does) : Leaves(port, nr, i)
<1>1. CASE \A i \in Code(does) : Leaves(port, nr, i)
  BY <1>1
<1>2. ASSUME NEW other \in 0..15, NEW v \in {0, 1}, other # nr,
             does \in {SetPin(port, other, v).does, SetOutput(port, other).does, SetInput(port, other).does}
      PROVE  \A i \in Code(does) : Leaves(port, nr, i)
  <2>1. SetPin(port, other, v).does = SetsLevel(port, other, v)
    BY SetPinAtOnce
  <2>2. Plain(SetsLevel(port, other, v), port, nr)
    BY <1>2, PlainSetUp
  <2>3. Plain(SetInput(port, other).does, port, nr) /\ Plain(SetOutput(port, other).does, port, nr)
    BY <1>2, SetUpPlain
  <2>4. Plain(does, port, nr)
    BY <1>2, <2>1, <2>2, <2>3
  <2> QED BY <2>4, PlainCode
<1> QED BY <1>1, <1>2 DEF Spares
-----------------------------------------------------------------------------
(* The pins *)

\* The call that task t makes or has made last.
CallOf(t) == Plan.calls[t][at[t].call]

SetsAPin(c) == c.what = "set_pin" /\ c.port # "P2"

\* A pin has its level as soon as the call has begun.
PinsInv ==
  /\ Activities
  /\ \A t \in Tasks : at[t].call # 0 /\ SetsAPin(CallOf(t)) => at[t].todo = << >> /\ HasLevel(mem, CallOf(t))

\* A call that sets a pin, and what the other tasks do.
LEMMA CallsOfPins ==
  ASSUME Activities, NEW t \in Tasks, NEW k \in 1..Len(Plan.calls[t]), NEW c, c = Plan.calls[t][k], SetsAPin(c)
  PROVE  /\ c.port \in Ports \ {"P2"} /\ c.does = SetsLevel(c.port, c.nr, c.level)
         /\ \A u \in Tasks \ {t} : \A i \in TaskCode(app, u) : Leaves(c.port, c.nr, i)
<1> DEFINE calls == Applications[app].calls
<1>1. app \in DOMAIN Applications /\ Tasks = DOMAIN calls /\ Plan.calls = calls
  BY DEF Activities, Tasks, Plan
<1> HIDE DEF calls
<1>2. k \in DOMAIN calls[t] /\ c = calls[t][k]
  BY <1>1, CodeOfTask DEF calls
<1>3. /\ c.port \in Ports /\ c.does = SetPin(c.port, c.nr, c.level).does
      /\ \A u \in DOMAIN calls \ {t} : \A j \in DOMAIN calls[u] : Spares(c.port, c.nr, calls[u][j].does)
  BY <1>1, <1>2, PinsAssumption DEF SetsAPin, calls
<1>4. c.port \in Ports \ {"P2"} /\ c.does = SetsLevel(c.port, c.nr, c.level)
  BY <1>3, SetPinAtOnce DEF SetsAPin
<1>5. ASSUME NEW u \in Tasks \ {t}, NEW i \in TaskCode(app, u)
      PROVE  Leaves(c.port, c.nr, i)
  <2>1. PICK j \in DOMAIN calls[u] : i \in Code(calls[u][j].does)
    BY DEF TaskCode, CallCode, calls
  <2>2. Spares(c.port, c.nr, calls[u][j].does)
    BY <1>1, <1>3, <2>1
  <2>3. IsProgram(calls[u][j].does)
    BY <1>1, <2>1, ProgramsAssumption DEF calls
  <2>4. PICK does : does = calls[u][j].does
    OBVIOUS
  <2>5. PICK port, nr : port = c.port /\ nr = c.nr
    OBVIOUS
  <2> QED BY <1>4, <2>1, <2>2, <2>3, <2>4, <2>5, SparesInCode
<1> QED BY <1>4, <1>5

\* An access that leaves the level of a pin keeps it.
LEMMA EffectKeepsLevel ==
  ASSUME NEW c, c.port \in Ports, HasLevel(mem, c), NEW t, NEW i, Effect(t, i), Leaves(c.port, c.nr, i)
  PROVE  HasLevel(mem', c)
<1>1. CASE mem' = mem
  BY <1>1
<1>2. ASSUME i.op = "write", mem' = Written(i.reg, i.new)
      PROVE  HasLevel(mem', c)
  BY <1>2, WrittenKeepsLevel DEF Leaves
<1>3. ASSUME i.op \in {"load", "store"}, Overwrites(t, i)
      PROVE  HasLevel(mem', c)
  <2>1. PICK v : mem' = Written(i.reg, v)
    BY <1>3 DEF Overwrites
  <2> QED BY <1>3, <2>1, WrittenKeepsLevel DEF Leaves
<1>4. ASSUME mem' = Written(US("RBUFSR"), [RDV |-> 0])
      PROVE  HasLevel(mem', c)
  <2>1. US("RBUFSR") # OUT(c.port) /\ US("RBUFSR") # OMR(c.port)
    BY DEF US, OUT, OMR, Ports
  <2> QED BY <1>4, <2>1, WrittenKeepsLevel
<1> QED BY <1>1, <1>2, <1>3, <1>4 DEF Effect

\* The access that a call of set_pin consists of gives the pin its level.
LEMMA WriteGivesLevel ==
  ASSUME NEW c, c.port \in Ports, NEW t, NEW i, i.reg = OMR(c.port), i.new = Pin(c.nr, c.level), i.op = "write", Effect(t, i)
  PROVE  HasLevel(mem', c)
<1>1. mem' = Written(OMR(c.port), Pin(c.nr, c.level))
  BY DEF Effect
<1> DEFINE o == OUT(c.port)
           r == OMR(c.port)
           v == Pin(c.nr, c.level)
           new == Over(v, Value(o))
<1>2. r[1] = c.port /\ r[1] \notin {"MOCTR", "NBTR", "NPCR"} /\ r # CGATCLR0
  BY DEF OMR, Ports, CGATCLR0
<1>3. Written(r, v) = Put(o, new, mem)
  BY <1>2 DEF Written
<1>4. c.nr \in DOMAIN new /\ new[c.nr] = c.level
  BY DEF Over, Pin
<1> HIDE DEF o, r, v, new
<1>5. PICK m : m = mem'
  OBVIOUS
<1>6. Holding(m, o, new, mem)
  BY <1>1, <1>3, <1>5, PutInto DEF r, v
<1>7. o \in DOMAIN m /\ m[o] = new
  BY <1>6 DEF Holding
<1> QED BY <1>4, <1>5, <1>7 DEF HasLevel, o

LEMMA LevelsStepped ==
  ASSUME PinsInv, NEW t \in Tasks, Step(t)
  PROVE  PinsInv'
<1>0. Activities
  BY DEF PinsInv
<1>1. PICK w, i, x : IsAt(t, w) /\ Executed(t, w, i, x)
  BY <1>0, Executes
<1>2. /\ Activities' /\ Plan' = Plan /\ Tasks' = Tasks /\ at'[t] = x
      /\ \A u \in Tasks \ {t} : at'[u] = at[u]
  BY <1>0, <1>1, ActivitiesStepped
<1>3. Effect(t, i) /\ i \in TaskCode(app, t) /\ i = Head(w.todo) /\ x.call = w.call /\ w.call \in 1..Len(Plan.calls[t])
  BY <1>1 DEF Executed, IsAt
<1>4. ASSUME NEW u \in Tasks \ {t}, at[u].call # 0, SetsAPin(CallOf(u))
      PROVE  at[u].todo = << >> /\ HasLevel(mem', CallOf(u))
  <2>1. at[u].todo = << >> /\ HasLevel(mem, CallOf(u))
    BY <1>4 DEF PinsInv
  <2>2. at[u].call \in 1..Len(Plan.calls[u])
    BY <1>0, <1>4 DEF Activities
  <2>3. PICK c : c = CallOf(u)
    OBVIOUS
  <2>4. c.port \in Ports /\ Leaves(c.port, c.nr, i)
    BY <1>0, <1>3, <1>4, <2>2, <2>3, CallsOfPins DEF CallOf
  <2> QED BY <1>3, <2>1, <2>3, <2>4, EffectKeepsLevel
<1>5. ASSUME NEW c, c = Plan.calls[t][w.call], SetsAPin(c)
      PROVE  x.todo = << >> /\ HasLevel(mem', c)
  <2>1. c.port \in Ports \ {"P2"} /\ c.does = SetsLevel(c.port, c.nr, c.level)
    BY <1>0, <1>3, <1>5, CallsOfPins
  <2>2. w.todo = c.does
    <3>1. ASSUME at[t].todo # << >> /\ w.call = at[t].call PROVE FALSE
      <4>1. at[t].call # 0 /\ SetsAPin(CallOf(t))
        BY <1>3, <1>5, <3>1 DEF CallOf
      <4> QED BY <3>1, <4>1 DEF PinsInv
    <3> QED BY <1>1, <1>5, <3>1 DEF IsAt
  <2>3. PICK a : a = [op |-> "write", reg |-> OMR(c.port), new |-> Pin(c.nr, c.level)]
    OBVIOUS
  <2>4. w.todo = << a >>
    BY <2>1, <2>2, <2>3 DEF SetsLevel, Write
  <2>5. i = a /\ Tail(w.todo) = << >>
    BY <1>3, <2>4
  <2>6. i.op = "write" /\ i.reg = OMR(c.port) /\ i.new = Pin(c.nr, c.level)
    BY <2>3, <2>5
  <2>7. HasLevel(mem', c)
    BY <1>3, <2>1, <2>6, WriteGivesLevel
  <2>8. x.todo = << >>
    BY <1>1, <2>5, <2>6 DEF Executed
  <2> QED BY <2>7, <2>8
<1>6. ASSUME NEW u \in Tasks, at'[u].call # 0, SetsAPin(CallOf(u)')
      PROVE  at'[u].todo = << >> /\ HasLevel(mem', CallOf(u)')
  <2>1. CASE u = t
    <3>1. CallOf(u)' = Plan.calls[t][w.call]
      BY <1>2, <1>3, <2>1 DEF CallOf
    <3> QED BY <1>2, <1>5, <1>6, <2>1, <3>1
  <2>2. CASE u # t
    <3>1. at'[u] = at[u] /\ CallOf(u)' = CallOf(u)
      BY <1>2, <2>2 DEF CallOf
    <3> QED BY <1>4, <1>6, <2>2, <3>1
  <2> QED BY <2>1, <2>2
<1>7. \A u \in Tasks' : at'[u].call # 0 /\ SetsAPin(CallOf(u)') => at'[u].todo = << >> /\ HasLevel(mem', CallOf(u)')
  BY <1>2, <1>6
<1> QED BY <1>2, <1>7 DEF PinsInv

LEMMA CpuAtRest ==
  ASSUME PinsInv, app' = app, at' = at
  PROVE  Activities' /\ Plan' = Plan /\ Tasks' = Tasks /\ \A t \in Tasks : CallOf(t)' = CallOf(t)
<1>1. Plan' = Plan /\ Tasks' = Tasks
  BY DEF Plan, Tasks
<1>2. Activities'
  BY <1>1 DEF PinsInv, Activities
<1> QED BY <1>1, <1>2 DEF CallOf

LEMMA LevelsPeripherals ==
  ASSUME PinsInv, Peripherals
  PROVE  PinsInv'
<1>1. app' = app /\ at' = at
  BY DEF Peripherals, PanelDone, ByteArrives, Starts, Sent, Fails, Heard, Cpu
<1>2. Activities' /\ Plan' = Plan /\ Tasks' = Tasks /\ \A t \in Tasks : CallOf(t)' = CallOf(t)
  BY <1>1, CpuAtRest
<1>3. ASSUME NEW t \in Tasks, at[t].call # 0, SetsAPin(CallOf(t))
      PROVE  at[t].todo = << >> /\ HasLevel(mem', CallOf(t))
  <2>1. at[t].todo = << >> /\ HasLevel(mem, CallOf(t))
    BY <1>3 DEF PinsInv
  <2>2. at[t].call \in 1..Len(Plan.calls[t])
    BY <1>3 DEF PinsInv, Activities
  <2>3. PICK c : c = CallOf(t)
    OBVIOUS
  <2>4. c.port \in Ports
    BY <1>3, <2>2, <2>3, CallsOfPins DEF CallOf, PinsInv
  <2> QED BY <2>1, <2>3, <2>4, PeripheralsKeepLevel
<1> QED BY <1>1, <1>2, <1>3 DEF PinsInv

LEMMA LevelsInitially == BoardInit => PinsInv
<1> SUFFICES ASSUME BoardInit PROVE PinsInv
  OBVIOUS
<1>1. app \in DOMAIN Applications /\ at = [t \in Tasks |-> [call |-> 0, todo |-> << >>, buf |-> << >>]]
  BY DEF BoardInit
<1>2. DOMAIN at = Tasks /\ \A t \in Tasks : at[t] = [call |-> 0, todo |-> << >>, buf |-> << >>]
  BY <1>1
<1>3. ASSUME NEW t \in Tasks
      PROVE  /\ DOMAIN at[t] = {"call", "todo", "buf"} /\ at[t].call = 0 /\ at[t].todo = << >>
             /\ at[t].call \in 0..Len(Plan.calls[t])
             /\ at[t].todo \in Seq(TaskCode(app, t)) /\ Paired(at[t].todo)
  <2>1. DOMAIN at[t] = {"call", "todo", "buf"} /\ at[t].call = 0 /\ at[t].todo = << >>
    BY <1>2
  <2>2. Len(Plan.calls[t]) \in Nat
    BY <1>1, CodeOfTask DEF Plan, Tasks
  <2>3. << >> \in Seq(TaskCode(app, t)) /\ Paired(<< >>)
    BY DEF Paired
  <2> QED BY <2>1, <2>2, <2>3
<1> QED BY <1>1, <1>2, <1>3 DEF PinsInv, Activities

\* A pin keeps the level that its task gave it last, whatever the other tasks and the peripherals
\* do meanwhile: for any number of tasks, pins and calls (gpio_0_set_pin and its sisters).
THEOREM LevelsAlwaysKept == BoardSpec => []LevelsKept
<1>1. PinsInv /\ [BoardNext]_boardVars => PinsInv'
  <2> SUFFICES ASSUME PinsInv, [BoardNext]_boardVars PROVE PinsInv'
    OBVIOUS
  <2>1. CASE UNCHANGED boardVars
    <3>1. app' = app /\ at' = at /\ mem' = mem
      BY <2>1 DEF boardVars, Cpu
    <3>2. Activities' /\ Plan' = Plan /\ Tasks' = Tasks /\ \A t \in Tasks : CallOf(t)' = CallOf(t)
      BY <3>1, CpuAtRest
    <3> QED BY <3>1, <3>2 DEF PinsInv
  <2>2. CASE BoardNext
    BY <2>2, LevelsStepped, LevelsPeripherals DEF BoardNext
  <2> QED BY <2>1, <2>2
<1>2. PinsInv => LevelsKept
  <2> SUFFICES ASSUME PinsInv, NEW t \in Tasks, IsOver(t, "set_pin"), NEW c, c = Plan.calls[t][at[t].call], c.port # "P2"
               PROVE  HasLevel(mem, c)
    BY DEF LevelsKept, HasLevel
  <2>1. at[t].call # 0 /\ SetsAPin(CallOf(t)) /\ c = CallOf(t)
    BY DEF IsOver, SetsAPin, CallOf
  <2> QED BY <2>1 DEF PinsInv
<1> QED BY <1>1, <1>2, LevelsInitially, PTL DEF BoardSpec
-----------------------------------------------------------------------------
(* The gates of the clocks *)

Gate(m, per) == CGATSTAT0 \in DOMAIN m /\ per \in DOMAIN m[CGATSTAT0] /\ m[CGATSTAT0][per] = 1

Needing(m, per) == \A r \in DOMAIN m : Clocks(r) \subseteq {per}

LEMMA GateRuns ==
  ASSUME NEW per
  PROVE  Runs(per) <=> Gate(mem, per)
<1>1. CASE CGATSTAT0 \in DOMAIN mem
  BY <1>1 DEF Runs, Is, Field, Value, Gate
<1>2. CASE CGATSTAT0 \notin DOMAIN mem
  <2>1. CGATSTAT0[1] # "NCR" /\ CGATSTAT0 # PASSWD
    BY DEF CGATSTAT0, PASSWD
  <2>2. Value(CGATSTAT0) = << >>
    BY <1>2, <2>1 DEF Value, Reset
  <2>3. DOMAIN Value(CGATSTAT0) = {}
    BY <2>2
  <2> QED BY <1>2, <2>3 DEF Runs, Is, Field, Gate
<1> QED BY <1>1, <1>2

LEMMA PutKeepsGate ==
  ASSUME NEW m, NEW per, Gate(m, per), NEW r, NEW v, r # CGATSTAT0
  PROVE  Gate(Put(r, v, m), per)
<1>1. PICK p : p = Put(r, v, m)
  OBVIOUS
<1>2. Holding(p, r, v, m)
  BY <1>1, PutInto
<1>3. CGATSTAT0 \in DOMAIN p /\ p[CGATSTAT0] = m[CGATSTAT0]
  <2> DEFINE g == CGATSTAT0
  <2>1. g \in DOMAIN m /\ g # r
    BY DEF Gate
  <2> HIDE DEF g
  <2>2. g \in DOMAIN p /\ p[g] = m[g]
    BY <1>2, <2>1 DEF Holding
  <2> QED BY <2>2 DEF g
<1> QED BY <1>1, <1>3 DEF Gate

LEMMA PutNeeding ==
  ASSUME NEW m, NEW C, \A r \in DOMAIN m : Clocks(r) \subseteq C, NEW r, NEW v, Clocks(r) \subseteq C
  PROVE  \A s \in DOMAIN Put(r, v, m) : Clocks(s) \subseteq C
<1>1. PICK p : p = Put(r, v, m)
  OBVIOUS
<1>2. DOMAIN p = DOMAIN m \cup {r}
  BY <1>1, PutInto DEF Holding
<1> QED BY <1>1, <1>2

LEMMA KnownClocks ==
  /\ \A m : /\ Clocks(List(m)) = {"MCAN0"} /\ Clocks(MOSTAT(m)) = {"MCAN0"} /\ Clocks(MOFCR(m)) = {"MCAN0"}
            /\ Clocks(MODATAL(m)) = {"MCAN0"} /\ Clocks(MODATAH(m)) = {"MCAN0"}
            /\ Clocks(NSR(m)) = {"MCAN0"} /\ Clocks(NCR(m)) = {"MCAN0"}
  /\ \A m : /\ List(m) # CGATSTAT0 /\ MOSTAT(m) # CGATSTAT0 /\ MOFCR(m) # CGATSTAT0
            /\ MODATAL(m) # CGATSTAT0 /\ MODATAH(m) # CGATSTAT0 /\ NSR(m) # CGATSTAT0 /\ NCR(m) # CGATSTAT0
  /\ \A r : Clocks(US(r)) = {"USIC0"} /\ US(r) # CGATSTAT0
  /\ Clocks(PANCTR) = {"MCAN0"} /\ PANCTR # CGATSTAT0
  /\ Clocks(CGATSTAT0) = {} /\ Clocks(PASSWD) = {} /\ Clocks(CGATCLR0) = {}
  /\ \A p \in Ports : Clocks(OUT(p)) = {} /\ OUT(p) # CGATSTAT0
BY DEF Clocks, List, MOSTAT, MOFCR, MODATAL, MODATAH, NSR, NCR, US, PANCTR, CGATSTAT0, PASSWD, CGATCLR0, Ports, OUT

\* What a write does is to put a value in one register, which needs no other clock.
LEMMA WrittenPuts ==
  ASSUME NEW r, NEW v
  PROVE  \/ Written(r, v) = mem
         \/ \E s, x : /\ Written(r, v) = Put(s, x, mem) /\ Clocks(s) \subseteq Clocks(r)
                      /\ s = CGATSTAT0 => r \in {CGATSTAT0, CGATCLR0}
<1>1. CASE r[1] = "MOCTR"
  <2>0. r \notin {OMR(p) : p \in Ports} /\ r # CGATCLR0
    BY <1>1 DEF OMR, Ports, CGATCLR0
  <2>1. Written(r, v) = Put(MOSTAT(r[2]), Over(v, Value(MOSTAT(r[2]))), mem)
    BY <1>1, <2>0 DEF Written
  <2>2. Clocks(r) = {"MCAN0"}
    BY <1>1 DEF Clocks
  <2> QED BY <2>1, <2>2, KnownClocks
<1>2. CASE r \in {OMR(p) : p \in Ports}
  <2>0. PICK p \in Ports : r = OMR(p)
    BY <1>2
  <2>1. r[1] = p /\ r[1] \notin {"MOCTR", "NBTR", "NPCR"} /\ r # CGATCLR0
    BY <2>0 DEF OMR, Ports, CGATCLR0
  <2>2. Written(r, v) = Put(OUT(p), Over(v, Value(OUT(p))), mem)
    BY <1>2, <2>1 DEF Written
  <2> QED BY <2>2, KnownClocks
<1>3. CASE r[1] # "MOCTR" /\ r \notin {OMR(p) : p \in Ports}
  <2>1. CASE r # CGATCLR0
    <3>1. Written(r, v) = mem \/ Written(r, v) = Put(r, v, mem)
      BY <1>3, <2>1 DEF Written
    <3> QED BY <3>1
  <2>2. CASE r = CGATCLR0
    <3>1. r[1] \notin {"NBTR", "NPCR"}
      BY <2>2 DEF CGATCLR0
    <3>2. Written(r, v) = mem \/ \E x : Written(r, v) = Put(CGATSTAT0, x, mem)
      BY <1>3, <2>2, <3>1 DEF Written
    <3> QED BY <2>2, <3>2, KnownClocks
  <2> QED BY <2>1, <2>2
<1> QED BY <1>1, <1>2, <1>3

\* A gate that is written a one for its clock is open, unless it is protected.
LEMMA GateWritten ==
  ASSUME NEW per, NEW v, Is(PASSWD, "PROTS", 0) \/ Gate(mem, per), NEW m,
         m = Written(CGATCLR0, Over([p \in {per} |-> 1], v))
  PROVE  Gate(m, per) /\ (m = mem \/ \E x : m = Put(CGATSTAT0, x, mem))
<1>1. CGATCLR0[1] \notin {"MOCTR", "NBTR", "NPCR"} /\ CGATCLR0 \notin {OMR(p) : p \in Ports}
  BY DEF CGATCLR0, OMR, Ports
<1> DEFINE new == Over([p \in {per} |-> 1], v)
           x == Over(new, Value(CGATSTAT0))
           g == CGATSTAT0
<1>2. m = IF Is(PASSWD, "PROTS", 0) THEN Put(g, x, mem) ELSE mem
  BY <1>1 DEF Written
<1>3. per \in DOMAIN new /\ new[per] = 1
  BY DEF Over
<1> HIDE DEF new
<1>4. per \in DOMAIN x /\ x[per] = 1
  BY <1>3 DEF Over
<1> HIDE DEF x
<1>5. CASE Is(PASSWD, "PROTS", 0)
  <2>1. m = Put(g, x, mem)
    BY <1>2, <1>5
  <2>2. Holding(m, g, x, mem)
    BY <2>1, PutInto
  <2>3. g \in DOMAIN m /\ m[g] = x
    <3> HIDE DEF g
    <3> QED BY <2>2 DEF Holding
  <2> QED BY <1>4, <2>1, <2>3 DEF Gate
<1>6. CASE ~Is(PASSWD, "PROTS", 0)
  BY <1>2, <1>6
<1> QED BY <1>5, <1>6
-----------------------------------------------------------------------------
(* The functions that open a clock *)

IsSeq(p) == p \in Seq(ToSet(p))

LEMMA SeqsJoined ==
  ASSUME NEW p, NEW q, IsSeq(p), IsSeq(q)
  PROVE  IsSeq(p \o q)
<1> DEFINE S == ToSet(p) \cup ToSet(q)
<1>1. p \in Seq(S) /\ q \in Seq(S)
  BY DEF IsSeq
<1> HIDE DEF S
<1>2. PICK r : r = p \o q
  OBVIOUS
<1>3. r \in Seq(S) /\ DOMAIN r = 1..Len(r) /\ Len(r) \in Nat
  BY <1>1, <1>2
<1>4. \A k \in DOMAIN r : r[k] \in ToSet(r)
  BY InSet
<1>5. r \in Seq(ToSet(r))
  BY <1>3, <1>4
<1> QED BY <1>2, <1>5 DEF IsSeq

LEMMA Regrouped ==
  ASSUME NEW p, NEW q, NEW r, IsSeq(p), IsSeq(q), IsSeq(r)
  PROVE  (p \o q) \o r = p \o (q \o r)
<1> DEFINE S == ToSet(p) \cup ToSet(q) \cup ToSet(r)
<1>1. p \in Seq(S) /\ q \in Seq(S) /\ r \in Seq(S)
  BY DEF IsSeq
<1> HIDE DEF S
<1> QED BY <1>1, ConcatAssociative

LEMMA SeqsOfOne == \A i : IsSeq(<< i >>)
<1> TAKE i
<1>1. ToSet(<< i >>) = {i}
  BY DEF ToSet
<1> QED BY <1>1 DEF IsSeq

LEMMA SeqsOfAccesses ==
  /\ IsSeq(<< >>)
  /\ \A r, new : IsSeq(Load(r)) /\ IsSeq(Store(r, new)) /\ IsSeq(Write(r, new)) /\ IsSeq(Modify(r, new))
  /\ \A r, f, v : IsSeq(Read(r, f)) /\ IsSeq(Await(r, f, v))
<1>1. IsSeq(<< >>)
  BY DEF IsSeq, ToSet
<1>2. \A r, new : IsSeq(Load(r)) /\ IsSeq(Store(r, new)) /\ IsSeq(Write(r, new))
  BY SeqsOfOne DEF Load, Store, Write
<1>3. \A r, new : IsSeq(Modify(r, new))
  BY <1>2, SeqsJoined DEF Modify
<1>4. \A r, f, v : IsSeq(Read(r, f)) /\ IsSeq(Await(r, f, v))
  BY SeqsOfOne DEF Read, Await
<1> QED BY <1>1, <1>2, <1>3, <1>4

\* p begins with e.
BeginsWith(p, e) == \E post : IsSeq(post) /\ p = e \o post

LEMMA BeginsStill ==
  ASSUME NEW p, NEW e, NEW q, BeginsWith(p, e), IsSeq(e), IsSeq(q)
  PROVE  BeginsWith(p \o q, e) /\ IsSeq(p)
<1>1. PICK post : IsSeq(post) /\ p = e \o post
  BY DEF BeginsWith
<1>2. p \o q = e \o (post \o q)
  BY <1>1, Regrouped
<1>3. IsSeq(post \o q)
  BY <1>1, SeqsJoined
<1>4. IsSeq(p)
  BY <1>1, SeqsJoined
<1> QED BY <1>2, <1>3, <1>4 DEF BeginsWith

\* The bits are unlocked, and a gate is opened.
Unlocks        == [op |-> "write", reg |-> PASSWD, new |-> [PROTS |-> 0]]
AwaitsUnlocked == [op |-> "await", reg |-> PASSWD, field |-> "PROTS", val |-> 0]
LoadsGates     == [op |-> "load", reg |-> CGATCLR0]
OpensGate(per) == [op |-> "store", reg |-> CGATCLR0, new |-> [p \in {per} |-> 1]]

Openings(per) == {<< Unlocks, AwaitsUnlocked, LoadsGates, OpensGate(per) >>, << Unlocks, LoadsGates, OpensGate(per) >>}

LEMMA GpioSeqs ==
  /\ \A nr : IsSeq(gpio_1_set_input(nr)) /\ IsSeq(gpio_2_set_input(nr))
  /\ \A per : IsSeq(scu_UnlockProtectedBits) /\ IsSeq(scu_LockProtectedBits)
<1>1. \A port, nr : IsSeq(NoHysteresis(port, nr)) /\ IsSeq(DigitalInput(port, nr))
  BY SeqsOfAccesses DEF NoHysteresis, DigitalInput
<1>2. \A port, nr, d : IsSeq(d) => IsSeq(set_input(port, nr, d))
  BY <1>1, SeqsOfAccesses, SeqsJoined DEF set_input
<1>3. \A nr : IsSeq(gpio_1_set_input(nr)) /\ IsSeq(gpio_2_set_input(nr))
  BY <1>1, <1>2, SeqsOfAccesses DEF gpio_1_set_input, gpio_2_set_input
<1>4. IsSeq(scu_UnlockProtectedBits) /\ IsSeq(scu_LockProtectedBits)
  BY SeqsOfAccesses, SeqsJoined DEF scu_UnlockProtectedBits, scu_LockProtectedBits
<1> QED BY <1>3, <1>4

LEMMA TwoJoined ==
  ASSUME NEW u, NEW a
  PROVE  << u >> \o << a >> = << u, a >>
<1> DEFINE S == {u, a}
<1>1. << u >> \in Seq(S) /\ << a >> \in Seq(S) /\ << u, a >> \in Seq(S)
  OBVIOUS
<1>2. PICK r : r = << u >> \o << a >>
  OBVIOUS
<1>3. r \in Seq(S) /\ Len(r) = 2 /\ r[1] = u /\ r[2] = a
  BY <1>1, <1>2, ConcatProperties
<1>4. r = << u, a >>
  BY <1>3
<1> QED BY <1>2, <1>4

LEMMA ThreeJoined ==
  ASSUME NEW u, NEW l, NEW o
  PROVE  << u >> \o << l, o >> = << u, l, o >>
<1> DEFINE S == {u, l, o}
<1>1. << u >> \in Seq(S) /\ << l, o >> \in Seq(S) /\ << u, l, o >> \in Seq(S)
  OBVIOUS
<1>2. PICK r : r = << u >> \o << l, o >>
  OBVIOUS
<1>3. r \in Seq(S) /\ Len(r) = 3 /\ r[1] = u /\ r[2] = l /\ r[3] = o
  BY <1>1, <1>2, ConcatProperties
<1>4. r = << u, l, o >>
  BY <1>3
<1> QED BY <1>2, <1>4

LEMMA FourJoined ==
  ASSUME NEW u, NEW a, NEW l, NEW o
  PROVE  << u, a >> \o << l, o >> = << u, a, l, o >>
<1> DEFINE S == {u, a, l, o}
<1>1. << u, a >> \in Seq(S) /\ << l, o >> \in Seq(S) /\ << u, a, l, o >> \in Seq(S)
  OBVIOUS
<1>2. PICK r : r = << u, a >> \o << l, o >>
  OBVIOUS
<1>3. r \in Seq(S) /\ Len(r) = 4 /\ r[1] = u /\ r[2] = a /\ r[3] = l /\ r[4] = o
  BY <1>1, <1>2, ConcatProperties
<1>4. r = << u, a, l, o >>
  BY <1>3
<1> QED BY <1>2, <1>4

\* The code after the opening is a sequence as well.
LEMMA EnableBegins ==
  ASSUME NEW per
  PROVE  \E e \in Openings(per) : IsSeq(e) /\ BeginsWith(scu_enable_peripheral_clock(per), e)
<1> DEFINE e == << Unlocks, AwaitsUnlocked, LoadsGates, OpensGate(per) >>
<1>1. /\ scu_UnlockProtectedBits = << Unlocks, AwaitsUnlocked >>
      /\ Modify(CGATCLR0, [p \in {per} |-> 1]) = << LoadsGates, OpensGate(per) >>
  <2>1. PICK u, a, l, o : u = Unlocks /\ a = AwaitsUnlocked /\ l = LoadsGates /\ o = OpensGate(per)
    OBVIOUS
  <2>2. scu_UnlockProtectedBits = << u >> \o << a >> /\ Modify(CGATCLR0, [p \in {per} |-> 1]) = << l >> \o << o >>
    BY <2>1 DEF scu_UnlockProtectedBits, Write, Await, Modify, Load, Store, Unlocks, AwaitsUnlocked, LoadsGates, OpensGate
  <2>3. << u >> \o << a >> = << u, a >> /\ << l >> \o << o >> = << l, o >>
    BY TwoJoined
  <2> QED BY <2>1, <2>2, <2>3
<1>2. scu_UnlockProtectedBits \o Modify(CGATCLR0, [p \in {per} |-> 1]) = e
  <2>1. PICK u, a, l, o : u = Unlocks /\ a = AwaitsUnlocked /\ l = LoadsGates /\ o = OpensGate(per)
    OBVIOUS
  <2>2. << u, a >> \o << l, o >> = << u, a, l, o >>
    BY FourJoined
  <2> QED BY <1>1, <2>1, <2>2
<1> DEFINE a == Await(CLKCR, "VDDC2LOW", 0)
           l == scu_LockProtectedBits
<1>3. IsSeq(e)
  BY <1>2, GpioSeqs, SeqsOfAccesses, SeqsJoined
<1>4. IsSeq(a) /\ IsSeq(l)
  BY GpioSeqs, SeqsOfAccesses
<1>5. scu_enable_peripheral_clock(per) = (e \o a) \o l
  BY <1>2 DEF scu_enable_peripheral_clock
<1>6. e \in Openings(per)
  BY DEF Openings
<1> HIDE DEF e, a, l
<1>7. (e \o a) \o l = e \o (a \o l) /\ IsSeq(a \o l)
  BY <1>3, <1>4, Regrouped, SeqsJoined
<1>8. PICK r : r = a \o l
  OBVIOUS
<1>9. BeginsWith(scu_enable_peripheral_clock(per), e)
  <2>1. IsSeq(r) /\ scu_enable_peripheral_clock(per) = e \o r
    BY <1>5, <1>7, <1>8
  <2> QED BY <2>1 DEF BeginsWith
<1> QED BY <1>3, <1>6, <1>9

\* What follows the opening of the gate in the functions of can.c and uart.c.
LEMMA SeqsOfDrivers ==
  /\ IsSeq(setup_clock) /\ IsSeq(Pins0) /\ IsSeq(Pins1)
  /\ \A n, x : IsSeq(Inputs(n, x)) /\ IsSeq(Speed(n, x))
  /\ \A b : IsSeq(us0_set_baud_rate(b))
  /\ IsSeq(us0_set_mode) /\ IsSeq(us0_rx_enable) /\ IsSeq(us0_tx_enable) /\ IsSeq(Ascend)
<1>1. IsSeq(setup_clock)
  BY SeqsOfAccesses, SeqsJoined DEF setup_clock
<1>2. IsSeq(Pins0) /\ IsSeq(Pins1)
  BY GpioSeqs, SeqsOfAccesses, SeqsJoined DEF Pins0, Pins1
<1>3. \A n : IsSeq(enable_configuration_change(n)) /\ IsSeq(disable_configuration_change(n))
  BY SeqsOfAccesses DEF enable_configuration_change, disable_configuration_change
<1>4. \A n, x : IsSeq(Inputs(n, x))
  BY <1>3, SeqsOfAccesses, SeqsJoined DEF Inputs
<1>5. \A n, x : IsSeq(set_speed(n, x))
  BY <1>3, SeqsOfAccesses, SeqsJoined DEF set_speed
<1>6. \A n, x : IsSeq(Speed(n, x))
  BY <1>3, <1>5, SeqsJoined DEF Speed
<1>7. \A b : IsSeq(us0_set_baud_rate(b))
  BY SeqsOfAccesses, SeqsJoined DEF us0_set_baud_rate
<1>8. IsSeq(us0_set_mode)
  BY SeqsOfAccesses, SeqsJoined DEF us0_set_mode
<1>9. IsSeq(us0_rx_enable) /\ IsSeq(us0_tx_enable) /\ IsSeq(Ascend)
  BY GpioSeqs, SeqsOfAccesses, SeqsJoined DEF us0_rx_enable, us0_tx_enable, Ascend
<1> QED BY <1>1, <1>2, <1>4, <1>6, <1>7, <1>8, <1>9

\* The functions that open a clock do it first.
LEMMA OpensBegin ==
  ASSUME NEW per \in {"MCAN0", "USIC0"}, NEW does \in Opens(per)
  PROVE  \E e \in Openings(per) : IsSeq(e) /\ BeginsWith(does, e)
<1>1. ASSUME NEW e, IsSeq(e), BeginsWith(scu_enable_peripheral_clock("MCAN0"), e), NEW speed
      PROVE  BeginsWith(can0_init(speed), e) /\ BeginsWith(can1_init(speed), e)
  <2>1. BeginsWith(can_enable, e)
    BY <1>1, BeginsStill, SeqsOfAccesses DEF can_enable
  <2>2. BeginsWith(can0_init(speed), e)
    BY <1>1, <2>1, BeginsStill, SeqsOfDrivers DEF can0_init, can0_enable, can0_setup_clock
  <2>3. BeginsWith(can1_init(speed), e)
    BY <1>1, <2>1, BeginsStill, SeqsOfDrivers DEF can1_init, can1_enable, can1_setup_clock
  <2> QED BY <2>2, <2>3
<1>2. ASSUME NEW e, IsSeq(e), BeginsWith(scu_enable_peripheral_clock("USIC0"), e)
      PROVE  BeginsWith(us0_init, e)
  <2>1. BeginsWith(us0_enable, e)
    BY <1>2, BeginsStill, SeqsOfAccesses DEF us0_enable
  <2> QED BY <1>2, <2>1, BeginsStill, SeqsOfDrivers DEF us0_init
<1>3. \E e \in Openings("USIC0") : IsSeq(e) /\ BeginsWith(UART_Init, e)
  <2> DEFINE m == Modify(CGATCLR0, [p \in {"USIC0"} |-> 1])
             e == Write(PASSWD, [PROTS |-> 0]) \o m
             r1 == Write(PASSWD, [PROTS |-> 1])
  <2>1. e = << Unlocks, LoadsGates, OpensGate("USIC0") >>
    <3>1. PICK u, l, o : u = Unlocks /\ l = LoadsGates /\ o = OpensGate("USIC0")
      OBVIOUS
    <3>2. e = << u >> \o (<< l >> \o << o >>)
      BY <3>1 DEF Write, Modify, Load, Store, Unlocks, LoadsGates, OpensGate
    <3>3. << l >> \o << o >> = << l, o >> /\ << u >> \o << l, o >> = << u, l, o >>
      BY TwoJoined, ThreeJoined
    <3> QED BY <3>1, <3>2, <3>3
  <2>2. e \in Openings("USIC0")
    BY <2>1 DEF Openings
  <2>3. IsSeq(e) /\ IsSeq(r1)
    BY SeqsOfAccesses, SeqsJoined
  <2>4. BeginsWith(e \o r1, e)
    BY <2>3 DEF BeginsWith
  <2>5. BeginsWith(UART_Init, e)
    <3>1. PICK h : h = e
      OBVIOUS
    <3>2. BeginsWith(h \o r1, h) /\ IsSeq(h)
      BY <2>3, <2>4, <3>1
    <3>3. UART_Init = h \o r1
                      \o Modify(US("KSCFG"), [MODEN |-> 1, BPMODEN |-> 1])
                      \o Modify(US("FDR"), [DM |-> 0, STEP |-> 0]) \o Modify(US("FDR"), [DM |-> 2, STEP |-> 590])
                      \o Modify(US("BRG0"), [PCTQ |-> 0, DCTQ |-> 0, PDIV |-> 0, CLKSEL |-> 0, PPPEN |-> 0])
                      \o Modify(US("BRG"), [PCTQ |-> 0, DCTQ |-> 15, PDIV |-> 4])
                      \o us0_set_mode
                      \o Modify(IOCR("P1", 3), Pin(3, "in")) \o Modify(IOCR("P1", 3), Pin(3, "in"))
                      \o Modify(US("DX0CR"), [DSEL |-> 0]) \o us0_tx_enable \o Ascend
      BY <3>1 DEF UART_Init
    <3> HIDE DEF r1, e
    <3> QED BY <3>1, <3>2, <3>3, BeginsStill, SeqsOfAccesses, SeqsOfDrivers
  <2> QED BY <2>2, <2>3, <2>5
<1>4. per = "MCAN0" \/ per = "USIC0"
  OBVIOUS
<1>5. CASE per = "MCAN0"
  BY <1>1, <1>5, EnableBegins DEF Opens
<1>6. CASE per = "USIC0"
  BY <1>2, <1>3, <1>6, EnableBegins DEF Opens
<1> QED BY <1>4, <1>5, <1>6
-----------------------------------------------------------------------------
(* The clocks *)

NeedsAll(per) == \A t \in Tasks : \A i \in TaskCode(app, t) : NeedsOnly(per, i)

\* The application needs no clock.
Clockless == \A t \in Tasks : \A i \in TaskCode(app, t) : Needless(i)

\* Nothing that needs a clock was touched, and no frame is on its way.
Untouched == (\A r \in DOMAIN mem : Clocks(r) \subseteq {}) /\ \A n \in Nodes : flight[n] = None

OnItsWay(per) == per = "MCAN0" \/ \A n \in Nodes : flight[n] = None

\* The main task is alone, and opens the gate.
Opening(per) ==
  /\ live = {"main"} /\ "main" \in Tasks /\ 1 \in 1..Len(Plan.calls["main"])
  /\ Plan.calls["main"][1].does \in Opens(per)
  /\ \/ at["main"].call = 0
     \/ /\ at["main"].call = 1 /\ Is(PASSWD, "PROTS", 0)
        /\ \E post : /\ IsSeq(post)
                     /\ at["main"].todo \in {<< AwaitsUnlocked, LoadsGates, OpensGate(per) >> \o post,
                                             << LoadsGates, OpensGate(per) >> \o post, << OpensGate(per) >> \o post}

Opened(per) == Gate(mem, per) /\ Needing(mem, per) /\ OnItsWay(per)

ClocksInv ==
  /\ Activities
  /\ \E per \in {"MCAN0", "USIC0"} :
       NeedsAll(per) /\ (Opened(per) \/ (Untouched /\ (Clockless \/ Opening(per))))

\* What the accesses of an application do once its clock runs.
LEMMA AccessKeepsGate ==
  ASSUME NEW per, NEW t \in Tasks, NeedsAll(per), Gate(mem, per), Needing(mem, per),
         NEW i \in TaskCode(app, t), Effect(t, i)
  PROVE  Gate(mem', per) /\ Needing(mem', per)
<1>1. CASE mem' = mem
  BY <1>1
<1>2. ASSUME NEW r, NEW v, mem' = Written(r, v), r # CGATSTAT0, r # CGATCLR0, Clocks(r) \subseteq {per}
      PROVE  Gate(mem', per) /\ Needing(mem', per)
  <2>1. PICK s, x : /\ mem' = mem \/ mem' = Put(s, x, mem)
                    /\ mem' = mem \/ (Clocks(s) \subseteq {per} /\ s # CGATSTAT0)
    BY <1>2, WrittenPuts
  <2>2. CASE mem' = mem
    BY <2>2
  <2>3. CASE mem' = Put(s, x, mem) /\ Clocks(s) \subseteq {per} /\ s # CGATSTAT0
    <3>1. Gate(mem', per)
      BY <2>3, PutKeepsGate
    <3>2. Needing(mem', per)
      BY <2>3, PutNeeding DEF Needing
    <3> QED BY <3>1, <3>2
  <2> QED BY <2>1, <2>2, <2>3
<1>3. ASSUME i.op = "write", mem' = Written(i.reg, i.new)
      PROVE  Gate(mem', per) /\ Needing(mem', per)
  BY <1>2, <1>3 DEF NeedsAll, NeedsOnly
<1>4. ASSUME i.op \in {"load", "store"}, Overwrites(t, i)
      PROVE  Gate(mem', per) /\ Needing(mem', per)
  <2>1. PICK v, j : /\ j \in TaskCode(app, t) /\ j.op = "store" /\ j.reg = i.reg
                    /\ mem' = Written(i.reg, Over(j.new, v))
    BY <1>4 DEF Overwrites
  <2>2. /\ Clocks(i.reg) \subseteq {per} /\ i.reg # CGATSTAT0
        /\ i.reg = CGATCLR0 => j.new = [p \in {per} |-> 1]
    BY <2>1 DEF NeedsAll, NeedsOnly
  <2>3. CASE i.reg = CGATCLR0
    <3>1. Gate(mem', per) /\ (mem' = mem \/ \E x : mem' = Put(CGATSTAT0, x, mem))
      BY <2>1, <2>2, <2>3, GateWritten
    <3>2. Needing(mem', per)
      BY <3>1, PutNeeding, KnownClocks DEF Needing
    <3> QED BY <3>1, <3>2
  <2>4. CASE i.reg # CGATCLR0
    BY <1>2, <2>1, <2>2, <2>4
  <2> QED BY <2>3, <2>4
<1>5. ASSUME i.op = "read", i.reg = US("RBUF"), mem' = Written(US("RBUFSR"), [RDV |-> 0])
      PROVE  Gate(mem', per) /\ Needing(mem', per)
  <2>1. Clocks(US("RBUFSR")) \subseteq {per}
    BY <1>5, KnownClocks DEF NeedsAll, NeedsOnly
  <2>2. US("RBUFSR") # CGATSTAT0 /\ US("RBUFSR") # CGATCLR0
    BY DEF US, CGATSTAT0, CGATCLR0
  <2> QED BY <1>2, <1>5, <2>1, <2>2
<1> QED BY <1>1, <1>3, <1>4, <1>5 DEF Effect

\* What they do if they need no clock.
LEMMA AccessTouchesNothing ==
  ASSUME NEW t \in Tasks, Clockless, \A r \in DOMAIN mem : Clocks(r) \subseteq {},
         NEW i \in TaskCode(app, t), Effect(t, i)
  PROVE  \A r \in DOMAIN mem' : Clocks(r) \subseteq {}
<1>1. CASE mem' = mem
  BY <1>1
<1>2. ASSUME NEW r, NEW v, mem' = Written(r, v), Clocks(r) \subseteq {}
      PROVE  \A s \in DOMAIN mem' : Clocks(s) \subseteq {}
  <2>1. PICK s, x : mem' = mem \/ (mem' = Put(s, x, mem) /\ Clocks(s) \subseteq {})
    BY <1>2, WrittenPuts
  <2>2. CASE mem' = mem
    BY <2>2
  <2>3. CASE mem' = Put(s, x, mem) /\ Clocks(s) \subseteq {}
    <3>1. PICK C : C = {}
      OBVIOUS
    <3>2. \A r1 \in DOMAIN Put(s, x, mem) : Clocks(r1) \subseteq C
      BY <2>3, <3>1, PutNeeding
    <3> QED BY <2>3, <3>1, <3>2
  <2> QED BY <2>1, <2>2, <2>3
<1>3. i.op # "create" => Clocks(i.reg) = {}
  BY DEF Clockless, Needless
<1>4. i.reg = US("RBUF") => Clocks(i.reg) = {"USIC0"}
  BY KnownClocks
<1> QED BY <1>1, <1>2, <1>3, <1>4 DEF Effect, Overwrites

LEMMA PeripheralsNeedClocks ==
  ASSUME Untouched
  PROVE  ~Peripherals
<1>1. \A r : Clocks(r) # {} => r \notin DOMAIN mem
  BY DEF Untouched
<1>2. ~PanelDone
  <2>1. PANCTR \notin DOMAIN mem /\ PANCTR[1] # "NCR" /\ PANCTR # PASSWD
    BY <1>1, KnownClocks DEF PANCTR, PASSWD
  <2>2. Value(PANCTR) = << >>
    BY <2>1 DEF Value, Reset
  <2>3. DOMAIN Value(PANCTR) = {}
    BY <2>2
  <2> QED BY <2>3 DEF PanelDone, Is, Field
<1>3. ~ByteArrives
  <2>1. US("CCR") \notin DOMAIN mem /\ US("CCR")[1] # "NCR" /\ US("CCR") # PASSWD
    BY <1>1, KnownClocks DEF US, PASSWD
  <2>2. Value(US("CCR")) = << >>
    BY <2>1 DEF Value, Reset
  <2>3. DOMAIN Value(US("CCR")) = {}
    BY <2>2
  <2> QED BY <2>3 DEF ByteArrives, Is, Field
<1>4. Mailboxes = {}
  <2>1. ASSUME NEW r \in DOMAIN mem, r[1] = "LIST" PROVE FALSE
    BY <1>1, <2>1 DEF Clocks
  <2> QED BY <2>1 DEF Mailboxes
<1>5. ASSUME NEW n \in Nodes PROVE flight[n] = None
  BY DEF Untouched
<1> QED BY <1>2, <1>3, <1>4, <1>5 DEF Peripherals, Starts, Sent, Fails, Heard

LEMMA PeripheralsKeepGate ==
  ASSUME NEW per \in {"MCAN0", "USIC0"}, Opened(per), Peripherals
  PROVE  Opened(per)'
<1>1. Gate(mem, per) /\ \A r \in DOMAIN mem : Clocks(r) \subseteq {per}
  BY DEF Opened, Needing
<1>2. ASSUME NEW m, Gate(m, per), \A r \in DOMAIN m : Clocks(r) \subseteq {per},
             NEW s, NEW x, Clocks(s) \subseteq {per}, s # CGATSTAT0
      PROVE  Gate(Put(s, x, m), per) /\ \A r \in DOMAIN Put(s, x, m) : Clocks(r) \subseteq {per}
  <2>1. Gate(Put(s, x, m), per)
    BY <1>2, PutKeepsGate
  <2>2. \A r \in DOMAIN Put(s, x, m) : Clocks(r) \subseteq {per}
    BY <1>2, PutNeeding
  <2> QED BY <2>1, <2>2
<1> DEFINE Fine(m) == Gate(m, per) /\ \A r \in DOMAIN m : Clocks(r) \subseteq {per}
<1>3. \A m, s, x : Fine(m) /\ Clocks(s) \subseteq {per} /\ s # CGATSTAT0 => Fine(Put(s, x, m))
  BY <1>2
<1>4. Fine(mem)
  BY <1>1
<1> HIDE DEF Fine
<1>5. ASSUME PanelDone PROVE Fine(mem') /\ per = "MCAN0"
  <2>1. PICK r, v, w : mem' = Put(List(r), v, Put(PANCTR, w, mem))
    BY <1>5 DEF PanelDone
  <2>2. per = "MCAN0"
    <3>1. ASSUME PANCTR \notin DOMAIN mem PROVE FALSE
      <4>1. PANCTR[1] # "NCR" /\ PANCTR # PASSWD
        BY DEF PANCTR, PASSWD
      <4>2. Value(PANCTR) = << >>
        BY <3>1, <4>1 DEF Value, Reset
      <4>3. DOMAIN Value(PANCTR) = {}
        BY <4>2
      <4> QED BY <1>5, <4>3 DEF PanelDone, Is, Field
    <3>2. Clocks(PANCTR) \subseteq {per}
      BY <1>1, <3>1
    <3> QED BY <3>2, KnownClocks
  <2>3. Fine(Put(PANCTR, w, mem))
    BY <1>3, <1>4, <2>2, KnownClocks
  <2>4. Fine(mem')
    BY <1>3, <2>1, <2>2, <2>3, KnownClocks
  <2> QED BY <2>2, <2>4
<1>6. ASSUME ByteArrives PROVE Fine(mem')
  <2>1. PICK v, w : mem' = Put(US("RBUFSR"), v, Put(US("RBUF"), w, mem))
    BY <1>6 DEF ByteArrives
  <2>2. per = "USIC0"
    <3>1. ASSUME US("CCR") \notin DOMAIN mem PROVE FALSE
      <4>1. US("CCR")[1] # "NCR" /\ US("CCR") # PASSWD
        BY DEF US, PASSWD
      <4>2. Value(US("CCR")) = << >>
        BY <3>1, <4>1 DEF Value, Reset
      <4>3. DOMAIN Value(US("CCR")) = {}
        BY <4>2
      <4> QED BY <1>6, <4>3 DEF ByteArrives, Is, Field
    <3>2. Clocks(US("CCR")) \subseteq {per}
      BY <1>1, <3>1
    <3> QED BY <3>2, KnownClocks
  <2>3. Fine(Put(US("RBUF"), w, mem))
    BY <1>3, <1>4, <2>2, KnownClocks
  <2> QED BY <1>3, <2>1, <2>2, <2>3, KnownClocks
<1>7. ASSUME NEW m, NEW bits, per = "MCAN0" PROVE Fine(Marks(m, bits))
  BY <1>3, <1>4, <1>7, KnownClocks DEF Marks
<1>8. ASSUME NEW m \in Mailboxes PROVE per = "MCAN0"
  <2>1. PICK r \in DOMAIN mem : r[1] = "LIST"
    BY <1>8 DEF Mailboxes
  <2>2. Clocks(r) = {"MCAN0"}
    BY <2>1 DEF Clocks
  <2> QED BY <1>1, <2>2
<1>9. ASSUME NEW n \in Nodes, flight[n] # None PROVE per = "MCAN0"
  BY <1>9 DEF Opened, OnItsWay
<1>10. ASSUME NEW n \in Nodes, Starts(n) PROVE Fine(mem') /\ per = "MCAN0"
  <2>1. PICK m \in Mailboxes : mem' = Marks(m, [NEWDAT |-> 0, RTSEL |-> 1])
    BY <1>10 DEF Starts
  <2> QED BY <1>7, <1>8, <2>1
<1>11. ASSUME NEW n \in Nodes, Sent(n) PROVE Fine(mem') /\ per = "MCAN0"
  <2>1. per = "MCAN0"
    BY <1>9, <1>11 DEF Sent
  <2>2. PICK v, m, bits : mem' = Put(NSR(n), v, mem) \/ mem' = Put(NSR(n), v, Marks(m, bits))
    BY <1>11 DEF Sent
  <2>3. Fine(Marks(m, bits))
    BY <1>7, <2>1
  <2>4. Clocks(NSR(n)) \subseteq {per} /\ NSR(n) # CGATSTAT0
    BY <2>1, KnownClocks
  <2>5. Fine(mem')
    BY <1>3, <1>4, <2>2, <2>3, <2>4
  <2> QED BY <2>1, <2>5
<1>12. ASSUME NEW n \in Nodes, NEW off, Fails(n, off) PROVE Fine(mem') /\ per = "MCAN0"
  <2>1. per = "MCAN0"
    BY <1>9, <1>12 DEF Fails
  <2>2. PICK v, w : mem' = Put(NSR(n), v, mem) \/ mem' = Put(NSR(n), v, Put(NCR(n), w, mem))
    BY <1>12 DEF Fails
  <2>3. /\ Clocks(NSR(n)) \subseteq {per} /\ NSR(n) # CGATSTAT0
        /\ Clocks(NCR(n)) \subseteq {per} /\ NCR(n) # CGATSTAT0
    BY <2>1, KnownClocks
  <2>4. Fine(Put(NCR(n), w, mem))
    BY <1>3, <1>4, <2>3
  <2>5. Fine(mem')
    BY <1>3, <1>4, <2>2, <2>3, <2>4
  <2> QED BY <2>1, <2>5
<1>13. ASSUME NEW n \in Nodes, NEW w, Heard(n, w) PROVE Fine(mem') /\ per = "MCAN0"
  <2>1. PICK m, v1, v2, v3, bits :
          m \in Mailboxes /\ mem' = Put(MODATAL(m), v1, Put(MODATAH(m), v2, Put(MOFCR(m), v3, Marks(m, bits))))
    BY <1>13 DEF Heard
  <2>2. per = "MCAN0" /\ Fine(Marks(m, bits))
    BY <1>7, <1>8, <2>1
  <2>3. Fine(Put(MOFCR(m), v3, Marks(m, bits)))
    BY <1>3, <2>2, KnownClocks
  <2>4. Fine(Put(MODATAH(m), v2, Put(MOFCR(m), v3, Marks(m, bits))))
    BY <1>3, <2>2, <2>3, KnownClocks
  <2>5. Fine(mem')
    BY <1>3, <2>1, <2>2, <2>4, KnownClocks
  <2> QED BY <2>2, <2>5
<1>14. Fine(mem') /\ (per = "MCAN0" \/ flight' = flight)
  BY <1>5, <1>6, <1>10, <1>11, <1>12, <1>13 DEF Peripherals, ByteArrives
<1>15. Gate(mem', per) /\ \A r \in DOMAIN mem' : Clocks(r) \subseteq {per}
  BY <1>14 DEF Fine
<1> QED BY <1>14, <1>15 DEF Opened, OnItsWay, Needing

LEMMA FrontOf ==
  ASSUME NEW p, NEW q, IsSeq(p), IsSeq(q), p # << >>
  PROVE  /\ Head(p \o q) = Head(p) /\ Tail(p \o q) = Tail(p) \o q
         /\ p \o q # << >>
<1> DEFINE S == ToSet(p) \cup ToSet(q)
<1>1. p \in Seq(S) /\ q \in Seq(S)
  BY DEF IsSeq
<1> HIDE DEF S
<1>2. PICK r : r = p \o q
  OBVIOUS
<1>3. /\ r \in Seq(S) /\ Len(r) = Len(p) + Len(q) /\ Len(p) \in Nat /\ Len(q) \in Nat
      /\ \A k \in 1..Len(r) : r[k] = IF k <= Len(p) THEN p[k] ELSE q[k - Len(p)]
  BY <1>1, <1>2, ConcatProperties
<1>4. Len(p) > 0 /\ r # << >> /\ Head(r) = r[1] /\ Head(p) = p[1] /\ 1 \in 1..Len(r)
  BY <1>1, <1>3
<1>5. Head(r) = Head(p)
  BY <1>3, <1>4
<1>6. Tail(r) = Tail(p) \o q
  <2>1. PICK a, b : a = Tail(r) /\ b = Tail(p) \o q
    OBVIOUS
  <2>2. /\ Tail(p) \in Seq(S) /\ Len(Tail(p)) = Len(p) - 1
        /\ \A k \in 1..Len(p) - 1 : Tail(p)[k] = p[k+1]
    BY <1>1, <1>4
  <2>3. /\ b \in Seq(S) /\ Len(b) = Len(p) - 1 + Len(q)
        /\ \A k \in 1..Len(b) : b[k] = IF k <= Len(p) - 1 THEN Tail(p)[k] ELSE q[k - (Len(p) - 1)]
    BY <1>1, <2>1, <2>2, ConcatProperties
  <2>4. a \in Seq(S) /\ Len(a) = Len(r) - 1 /\ \A k \in 1..Len(a) : a[k] = r[k+1]
    BY <1>3, <1>4, <2>1
  <2>5. Len(a) = Len(b)
    BY <1>3, <2>3, <2>4
  <2>6. ASSUME NEW k \in 1..Len(a) PROVE a[k] = b[k]
    <3>1. k + 1 \in 1..Len(r) /\ a[k] = r[k+1]
      BY <1>3, <2>4
    <3>2. CASE k <= Len(p) - 1
      <4>1. k + 1 <= Len(p) /\ k \in 1..Len(p) - 1 /\ k \in 1..Len(b)
        BY <1>3, <2>5, <3>2
      <4> QED BY <1>3, <2>2, <2>3, <3>1, <3>2, <4>1
    <3>3. CASE ~(k <= Len(p) - 1)
      <4>1. ~(k + 1 <= Len(p)) /\ (k + 1) - Len(p) = k - (Len(p) - 1) /\ k \in 1..Len(b)
        BY <1>3, <2>5, <3>3
      <4> QED BY <1>3, <2>3, <3>1, <3>3, <4>1
    <3> QED BY <3>2, <3>3
  <2>7. a = b
    BY <2>3, <2>4, <2>5, <2>6
  <2> QED BY <2>1, <2>7
<1> QED BY <1>2, <1>4, <1>5, <1>6

\* The fronts of an opening.
FrontsOf(u, a, l, o, post) ==
  /\ Head(<< a, l, o >> \o post) = a /\ Tail(<< a, l, o >> \o post) = << l, o >> \o post
  /\ Head(<< l, o >> \o post) = l /\ Tail(<< l, o >> \o post) = << o >> \o post
  /\ Head(<< o >> \o post) = o
  /\ << a, l, o >> \o post # << >> /\ << l, o >> \o post # << >> /\ << o >> \o post # << >>
  /\ Head(<< u, a, l, o >> \o post) = u /\ Tail(<< u, a, l, o >> \o post) = << a, l, o >> \o post
  /\ Head(<< u, l, o >> \o post) = u /\ Tail(<< u, l, o >> \o post) = << l, o >> \o post

LEMMA Fronts ==
  ASSUME NEW post, IsSeq(post), NEW a, NEW l, NEW o, NEW u
  PROVE  FrontsOf(u, a, l, o, post)
<1>1. /\ IsSeq(<< o >>) /\ IsSeq(<< l, o >>) /\ IsSeq(<< a, l, o >>)
      /\ IsSeq(<< u, a, l, o >>) /\ IsSeq(<< u, l, o >>)
  <2>1. IsSeq(<< o >>) /\ IsSeq(<< l >>) /\ IsSeq(<< a >>) /\ IsSeq(<< u >>)
    BY SeqsOfOne
  <2>2. IsSeq(<< l, o >>) /\ IsSeq(<< u, a >>)
    BY <2>1, SeqsJoined, TwoJoined
  <2>3. IsSeq(<< a, l, o >>) /\ IsSeq(<< u, l, o >>)
    BY <2>1, <2>2, SeqsJoined, ThreeJoined
  <2>4. IsSeq(<< u, a, l, o >>)
    BY <2>2, SeqsJoined, FourJoined
  <2> QED BY <2>1, <2>2, <2>3, <2>4
<1>2. /\ Head(<< a, l, o >>) = a /\ Tail(<< a, l, o >>) = << l, o >> /\ << a, l, o >> # << >>
      /\ Head(<< l, o >>) = l /\ Tail(<< l, o >>) = << o >> /\ << l, o >> # << >>
      /\ Head(<< o >>) = o /\ << o >> # << >>
      /\ Head(<< u, a, l, o >>) = u /\ Tail(<< u, a, l, o >>) = << a, l, o >> /\ << u, a, l, o >> # << >>
      /\ Head(<< u, l, o >>) = u /\ Tail(<< u, l, o >>) = << l, o >> /\ << u, l, o >> # << >>
  OBVIOUS
<1>3. /\ Head(<< a, l, o >> \o post) = a /\ Tail(<< a, l, o >> \o post) = << l, o >> \o post
      /\ << a, l, o >> \o post # << >>
  BY <1>1, <1>2, FrontOf
<1>4. /\ Head(<< l, o >> \o post) = l /\ Tail(<< l, o >> \o post) = << o >> \o post
      /\ << l, o >> \o post # << >>
  BY <1>1, <1>2, FrontOf
<1>5. Head(<< o >> \o post) = o /\ << o >> \o post # << >>
  BY <1>1, <1>2, FrontOf
<1>6. Head(<< u, a, l, o >> \o post) = u /\ Tail(<< u, a, l, o >> \o post) = << a, l, o >> \o post
  BY <1>1, <1>2, FrontOf
<1>7. Head(<< u, l, o >> \o post) = u /\ Tail(<< u, l, o >> \o post) = << l, o >> \o post
  BY <1>1, <1>2, FrontOf
<1> QED BY <1>3, <1>4, <1>5, <1>6, <1>7 DEF FrontsOf

\* The password is written, and the bits are unlocked.
LEMMA UnlockWritten ==
  ASSUME mem' = Written(PASSWD, [PROTS |-> 0]), \A r \in DOMAIN mem : Clocks(r) \subseteq {}
  PROVE  Is(PASSWD, "PROTS", 0)' /\ \A r \in DOMAIN mem' : Clocks(r) \subseteq {}
<1>1. PASSWD[1] \notin {"MOCTR", "NBTR", "NPCR"} /\ PASSWD # CGATCLR0 /\ PASSWD \notin {OMR(p) : p \in Ports}
  BY DEF PASSWD, CGATCLR0, OMR, Ports
<1>2. mem' = Put(PASSWD, [PROTS |-> 0], mem)
  BY <1>1 DEF Written
<1>3. PICK m, v : m = mem' /\ v = [PROTS |-> 0]
  OBVIOUS
<1>4. Holding(m, PASSWD, v, mem)
  BY <1>2, <1>3, PutInto
<1>5. PASSWD \in DOMAIN m /\ m[PASSWD] = v
  <2> DEFINE r == PASSWD
  <2>1. Holding(m, r, v, mem)
    BY <1>4
  <2> HIDE DEF r
  <2>2. r \in DOMAIN m /\ m[r] = v
    BY <2>1 DEF Holding
  <2> QED BY <2>2 DEF r
<1>6. Value(PASSWD)' = v
  BY <1>3, <1>5 DEF Value
<1>7. Is(PASSWD, "PROTS", 0)'
  BY <1>3, <1>6 DEF Is, Field
<1>8. PICK C : C = {}
  OBVIOUS
<1>9. \A r \in DOMAIN Put(PASSWD, v, mem) : Clocks(r) \subseteq C
  BY <1>8, PutNeeding, KnownClocks
<1> QED BY <1>2, <1>3, <1>7, <1>8, <1>9

\* The store to the register of the gates, by itself or right after the load.
LEMMA GateOpens ==
  ASSUME NEW per, NEW t \in Tasks, NeedsAll(per), Untouched, Is(PASSWD, "PROTS", 0),
         NEW i, i.reg = CGATCLR0, Overwrites(t, i)
  PROVE  Gate(mem', per) /\ Needing(mem', per)
<1>1. PICK v, j : /\ j \in TaskCode(app, t) /\ j.op = "store" /\ j.reg = CGATCLR0
                  /\ mem' = Written(CGATCLR0, Over(j.new, v))
  BY DEF Overwrites
<1>2. j.new = [p \in {per} |-> 1]
  BY <1>1 DEF NeedsAll, NeedsOnly
<1>3. Gate(mem', per) /\ (mem' = mem \/ \E x : mem' = Put(CGATSTAT0, x, mem))
  BY <1>1, <1>2, GateWritten
<1>4. \A r \in DOMAIN mem : Clocks(r) \subseteq {per}
  BY DEF Untouched
<1>5. \A r \in DOMAIN mem' : Clocks(r) \subseteq {per}
  BY <1>3, <1>4, PutNeeding, KnownClocks
<1> QED BY <1>3, <1>5 DEF Needing

LEMMA OpeningStepped ==
  ASSUME Activities, NEW per \in {"MCAN0", "USIC0"}, NeedsAll(per), Untouched, Opening(per),
         NEW t \in Tasks, Step(t)
  PROVE  Opened(per)' \/ (Untouched' /\ Opening(per)')
<1>1. t = "main"
  BY DEF Step, Opening
<1>2. PICK w, i, x : IsAt(t, w) /\ Executed(t, w, i, x)
  BY Executes
<1>3. Plan' = Plan /\ Tasks' = Tasks /\ at'[t] = x
  BY <1>2, ActivitiesStepped
<1>4. i = Head(w.todo) /\ x.call = w.call /\ flight' = flight /\ Effect(t, i)
  BY <1>2 DEF Executed
<1>5. \A r \in DOMAIN mem : Clocks(r) \subseteq {}
  BY DEF Untouched
<1>0. PICK a, l, o, u : a = AwaitsUnlocked /\ l = LoadsGates /\ o = OpensGate(per) /\ u = Unlocks
  OBVIOUS
<1>6. /\ a.op = "await" /\ l.op = "load" /\ o.op = "store" /\ u.op = "write"
      /\ l.reg = CGATCLR0 /\ o.reg = CGATCLR0 /\ u.reg = PASSWD /\ u.new = [PROTS |-> 0]
  BY <1>0 DEF AwaitsUnlocked, LoadsGates, OpensGate, Unlocks
<1>7. ASSUME NEW post, IsSeq(post), w.call = 1, i.op # "create",
             x.todo \in {<< a, l, o >> \o post, << l, o >> \o post, << o >> \o post},
             \A r \in DOMAIN mem' : Clocks(r) \subseteq {}, Is(PASSWD, "PROTS", 0)'
      PROVE  Untouched' /\ Opening(per)'
  <2>1. Untouched'
    BY <1>4, <1>7 DEF Untouched
  <2>2. live' = live
    BY <1>2, <1>7 DEF Executed
  <2>3. /\ live' = {"main"} /\ "main" \in Tasks' /\ 1 \in 1..Len(Plan'.calls["main"])
        /\ Plan'.calls["main"][1].does \in Opens(per)
    BY <1>3, <2>2 DEF Opening
  <2>4. at'["main"].call = 1 /\ at'["main"].todo = x.todo
    BY <1>1, <1>3, <1>4, <1>7
  <2> QED BY <1>0, <1>7, <2>1, <2>3, <2>4 DEF Opening
<1>8. CASE at["main"].call = 0
  <2>1. at[t].todo = << >>
    BY <1>1, <1>8 DEF Activities
  <2>2. Following(t) = 1
    BY <1>1, <1>8 DEF Following, Opening
  <2>3. w.call = 1 /\ w.todo = Plan.calls["main"][1].does
    BY <1>1, <1>2, <2>1, <2>2 DEF IsAt
  <2>4. PICK e \in Openings(per) : IsSeq(e) /\ BeginsWith(w.todo, e)
    BY <2>3, OpensBegin DEF Opening
  <2>5. PICK post : IsSeq(post) /\ w.todo = e \o post
    BY <2>4 DEF BeginsWith
  <2>6. Head(w.todo) = u /\ Tail(w.todo) \in {<< a, l, o >> \o post, << l, o >> \o post}
    <3>1. FrontsOf(u, a, l, o, post)
      BY <2>5, Fronts
    <3>2. e = << u, a, l, o >> \/ e = << u, l, o >>
      BY <1>0, <2>4 DEF Openings
    <3> QED BY <2>5, <3>1, <3>2 DEF FrontsOf
  <2>7. i.op = "write" /\ mem' = Written(PASSWD, [PROTS |-> 0])
    BY <1>4, <1>6, <2>6 DEF Effect
  <2>8. x.todo = Tail(w.todo)
    BY <1>2, <2>7 DEF Executed
  <2>9. Is(PASSWD, "PROTS", 0)' /\ \A r \in DOMAIN mem' : Clocks(r) \subseteq {}
    BY <1>5, <2>7, UnlockWritten
  <2> QED BY <1>7, <2>3, <2>5, <2>6, <2>7, <2>8, <2>9
<1>9. CASE at["main"].call # 0
  <2>1. PICK post : /\ IsSeq(post) /\ at["main"].call = 1 /\ Is(PASSWD, "PROTS", 0)
                    /\ at["main"].todo \in {<< a, l, o >> \o post, << l, o >> \o post, << o >> \o post}
    BY <1>0, <1>9 DEF Opening
  <2>2. FrontsOf(u, a, l, o, post)
    BY <2>1, Fronts
  <2>3. at["main"].todo # << >>
    BY <2>1, <2>2 DEF FrontsOf
  <2>4. w.call = 1 /\ w.todo = at["main"].todo
    BY <1>1, <1>2, <2>1, <2>3 DEF IsAt
  <2>5. mem' = mem => Is(PASSWD, "PROTS", 0)' /\ \A r \in DOMAIN mem' : Clocks(r) \subseteq {}
    BY <1>5, <2>1 DEF Is, Field, Value
  <2>6. CASE w.todo = << a, l, o >> \o post
    <3>1. i = a /\ Tail(w.todo) = << l, o >> \o post
      BY <1>4, <2>6, <2>2 DEF FrontsOf
    <3>2. i.op = "await"
      BY <1>6, <3>1
    <3>3. mem' = mem /\ x.todo = Tail(w.todo)
      BY <1>2, <1>4, <3>2 DEF Effect, Executed
    <3> QED BY <1>7, <2>1, <2>4, <2>5, <3>1, <3>2, <3>3
  <2>7. CASE w.todo = << l, o >> \o post
    <3>1. i = l /\ Tail(w.todo) = << o >> \o post
      BY <1>4, <2>7, <2>2 DEF FrontsOf
    <3>2. i.op = "load" /\ i.reg = CGATCLR0
      BY <1>6, <3>1
    <3>3. (mem' = mem /\ x.todo = Tail(w.todo)) \/ Overwrites(t, i)
      BY <1>2, <3>2 DEF Executed
    <3>4. CASE Overwrites(t, i)
      <4>1. Gate(mem', per) /\ Needing(mem', per)
        BY <2>1, <3>2, <3>4, GateOpens
      <4>2. Opened(per)'
        BY <1>4, <4>1 DEF Opened, OnItsWay, Untouched, Needing
      <4> QED BY <4>2
    <3>5. CASE mem' = mem /\ x.todo = Tail(w.todo)
      BY <1>7, <2>1, <2>4, <2>5, <3>1, <3>2, <3>5
    <3> QED BY <3>3, <3>4, <3>5
  <2>8. CASE w.todo = << o >> \o post
    <3>1. i = o
      BY <1>4, <2>8, <2>2 DEF FrontsOf
    <3>2. i.op = "store" /\ i.reg = CGATCLR0
      BY <1>6, <3>1
    <3>3. Overwrites(t, i)
      BY <1>4, <3>2 DEF Effect
    <3>4. Gate(mem', per) /\ Needing(mem', per)
      BY <2>1, <3>2, <3>3, GateOpens
    <3>5. Opened(per)'
      BY <1>4, <3>4 DEF Opened, OnItsWay, Untouched, Needing
    <3> QED BY <3>5
  <2> QED BY <2>1, <2>4, <2>6, <2>7, <2>8
<1> QED BY <1>8, <1>9

LEMMA ClocksStepped ==
  ASSUME ClocksInv, NEW t \in Tasks, Step(t)
  PROVE  ClocksInv'
<1>0. Activities
  BY DEF ClocksInv
<1>1. PICK per \in {"MCAN0", "USIC0"} : NeedsAll(per) /\ (Opened(per) \/ (Untouched /\ (Clockless \/ Opening(per))))
  BY DEF ClocksInv
<1>2. PICK w, i, x : IsAt(t, w) /\ Executed(t, w, i, x)
  BY <1>0, Executes
<1>3. Activities' /\ Plan' = Plan /\ Tasks' = Tasks
  BY <1>0, <1>2, ActivitiesStepped
<1>4. i \in TaskCode(app, t) /\ Effect(t, i) /\ app' = app /\ flight' = flight
  BY <1>2 DEF Executed
<1>5. NeedsAll(per)' /\ (Clockless => Clockless')
  BY <1>1, <1>3, <1>4 DEF NeedsAll, Clockless
<1>6. CASE Opened(per)
  <2>1. Gate(mem', per) /\ Needing(mem', per)
    BY <1>1, <1>4, <1>6, AccessKeepsGate DEF Opened
  <2>2. Opened(per)'
    BY <1>4, <1>6, <2>1 DEF Opened, OnItsWay, Needing
  <2> QED BY <1>1, <1>3, <1>5, <2>2, Zenon DEF ClocksInv
<1>7. CASE Untouched /\ Clockless
  <2>1. \A r \in DOMAIN mem' : Clocks(r) \subseteq {}
    BY <1>4, <1>7, AccessTouchesNothing DEF Untouched
  <2>2. Untouched'
    BY <1>4, <1>7, <2>1 DEF Untouched
  <2> QED BY <1>3, <1>5, <1>7, <2>2 DEF ClocksInv
<1>8. CASE Untouched /\ Opening(per)
  <2>1. Opened(per)' \/ (Untouched' /\ Opening(per)')
    BY <1>0, <1>1, <1>8, OpeningStepped
  <2> QED BY <1>3, <1>5, <2>1 DEF ClocksInv
<1> QED BY <1>1, <1>6, <1>7, <1>8

LEMMA ClocksPeripherals ==
  ASSUME ClocksInv, Peripherals
  PROVE  ClocksInv'
<1>1. PICK per \in {"MCAN0", "USIC0"} : NeedsAll(per) /\ (Opened(per) \/ (Untouched /\ (Clockless \/ Opening(per))))
  BY DEF ClocksInv
<1>2. app' = app /\ at' = at
  BY DEF Peripherals, PanelDone, ByteArrives, Starts, Sent, Fails, Heard, Cpu
<1>3. Plan' = Plan /\ Tasks' = Tasks
  BY <1>2 DEF Plan, Tasks
<1>4. Activities'
  BY <1>2, <1>3 DEF ClocksInv, Activities
<1>5. NeedsAll(per)'
  BY <1>1, <1>2, <1>3 DEF NeedsAll
<1>6. Opened(per)
  BY <1>1, PeripheralsNeedClocks
<1>7. Opened(per)'
  BY <1>6, PeripheralsKeepGate
<1> QED BY <1>1, <1>4, <1>5, <1>7, Zenon DEF ClocksInv

LEMMA ClocksInitially == BoardInit => ClocksInv
<1> SUFFICES ASSUME BoardInit PROVE ClocksInv
  OBVIOUS
<1>1. Activities
  BY LevelsInitially DEF PinsInv
<1>2. Untouched
  BY DEF BoardInit, Untouched
<1> DEFINE calls == Applications[app].calls
<1>3. Tasks = DOMAIN calls /\ Plan.calls = calls /\ app \in DOMAIN Applications
  BY DEF Tasks, Plan, BoardInit
<1>4. PICK per \in {"MCAN0", "USIC0"} :
        /\ \A t \in DOMAIN calls : \A k \in DOMAIN calls[t] : \A i \in Code(calls[t][k].does) : NeedsOnly(per, i)
        /\ \/ "main" \in DOMAIN calls /\ 1 \in DOMAIN calls["main"] /\ calls["main"][1].does \in Opens(per)
           \/ \A t \in DOMAIN calls : \A k \in DOMAIN calls[t] : \A i \in Code(calls[t][k].does) : Needless(i)
  BY <1>3, ClocksAssumption
<1>5. ASSUME NEW t \in Tasks, NEW i \in TaskCode(app, t)
      PROVE  \E k \in DOMAIN calls[t] : i \in Code(calls[t][k].does)
  BY DEF TaskCode, CallCode
<1> HIDE DEF calls
<1>6. NeedsAll(per)
  BY <1>3, <1>4, <1>5 DEF NeedsAll
<1>7. CASE "main" \in DOMAIN calls /\ 1 \in DOMAIN calls["main"] /\ calls["main"][1].does \in Opens(per)
  <2>1. DOMAIN calls["main"] = 1..Len(calls["main"])
    BY <1>3, <1>7, CodeOfTask DEF calls
  <2>2. at["main"].call = 0 /\ live = {"main"}
    BY <1>3, <1>7 DEF BoardInit
  <2>3. Opening(per)
    BY <1>3, <1>7, <2>1, <2>2 DEF Opening
  <2> QED BY <1>1, <1>2, <1>6, <2>3 DEF ClocksInv
<1>8. CASE \A t \in DOMAIN calls : \A k \in DOMAIN calls[t] : \A i \in Code(calls[t][k].does) : Needless(i)
  <2>1. Clockless
    BY <1>3, <1>5, <1>8 DEF Clockless
  <2> QED BY <1>1, <1>2, <1>6, <2>1 DEF ClocksInv
<1> QED BY <1>4, <1>7, <1>8

\* No register of CAN or of the serial line is written before its clock runs: the functions that
\* initialise them open the gate, behind the bit protection, before all else, and nothing that
\* the tasks or the peripherals do afterwards closes it (can0_init, can1_init, us0_init, UART_Init).
THEOREM ClocksAlwaysFirst == BoardSpec => []ClocksFirst
<1>1. ClocksInv /\ [BoardNext]_boardVars => ClocksInv'
  <2> SUFFICES ASSUME ClocksInv, [BoardNext]_boardVars PROVE ClocksInv'
    OBVIOUS
  <2>1. CASE UNCHANGED boardVars
    <3>1. app' = app /\ at' = at /\ mem' = mem /\ live' = live /\ flight' = flight
      BY <2>1 DEF boardVars, Cpu
    <3>2. Plan' = Plan /\ Tasks' = Tasks
      BY <3>1 DEF Plan, Tasks
    <3>3. Activities'
      BY <3>1, <3>2 DEF ClocksInv, Activities
    <3>4. PICK per \in {"MCAN0", "USIC0"} : NeedsAll(per) /\ (Opened(per) \/ (Untouched /\ (Clockless \/ Opening(per))))
      BY DEF ClocksInv
    <3>5. NeedsAll(per)' /\ (Clockless => Clockless')
      BY <3>1, <3>2, <3>4 DEF NeedsAll, Clockless
    <3>6. (Opened(per) => Opened(per)') /\ (Untouched => Untouched')
      BY <3>1 DEF Opened, Needing, OnItsWay, Untouched
    <3>7. Opening(per) => Opening(per)'
      BY <3>1, <3>2 DEF Opening, Is, Field, Value
    <3> QED BY <3>3, <3>4, <3>5, <3>6, <3>7 DEF ClocksInv
  <2>2. CASE BoardNext
    BY <2>2, ClocksStepped, ClocksPeripherals DEF BoardNext
  <2> QED BY <2>1, <2>2
<1>2. ClocksInv => ClocksFirst
  <2> SUFFICES ASSUME ClocksInv, NEW r \in DOMAIN mem, NEW c \in Clocks(r) PROVE Runs(c)
    BY DEF ClocksFirst
  <2>1. PICK per \in {"MCAN0", "USIC0"} : Opened(per) \/ Untouched
    BY DEF ClocksInv
  <2>2. ~Untouched
    BY DEF Untouched
  <2>3. Gate(mem, per) /\ c = per
    BY <2>1, <2>2 DEF Opened, Needing
  <2> QED BY <2>3, GateRuns
<1> QED BY <1>1, <1>2, ClocksInitially, PTL DEF BoardSpec
-----------------------------------------------------------------------------
(* The nodes on the bus *)

ValueIn(m, r)     == IF r \in DOMAIN m THEN m[r] ELSE Reset(r)
HasField(v, f, x) == f \in DOMAIN v /\ v[f] = x

LEMMA ValuePut ==
  ASSUME NEW r, NEW v, NEW m
  PROVE  /\ ValueIn(Put(r, v, m), r) = v
         /\ \A s : s # r => ValueIn(Put(r, v, m), s) = ValueIn(m, s)
<1>1. PICK p : p = Put(r, v, m)
  OBVIOUS
<1>2. Holding(p, r, v, m)
  BY <1>1, PutInto
<1>3. ValueIn(p, r) = v
  BY <1>2 DEF Holding, ValueIn
<1>4. ASSUME NEW s, s # r PROVE ValueIn(p, s) = ValueIn(m, s)
  BY <1>2, <1>4 DEF Holding, ValueIn
<1> QED BY <1>1, <1>3, <1>4

\* A bit that is not 0 after a reset is one of the register's fields.
LEMMA FieldOfNode ==
  ASSUME NEW n, NEW f, NEW x, x # 0
  PROVE  Is(NCR(n), f, x) <=> HasField(ValueIn(mem, NCR(n)), f, x)
<1>1. Value(NCR(n)) = ValueIn(mem, NCR(n))
  BY DEF Value, ValueIn
<1> QED BY <1>1 DEF Is, Field, HasField

\* The registers that decide whether and how a node takes part.
Deciding == {"NCR", "NBTR", "NPCR"}

LEMMA DecidingRegisters ==
  /\ \A n : NCR(n)[1] = "NCR" /\ NBTR(n)[1] = "NBTR" /\ NPCR(n)[1] = "NPCR"
            /\ NCR(n)[2] = n /\ NBTR(n)[2] = n /\ NPCR(n)[2] = n
            /\ NCR(n) # NBTR(n) /\ NCR(n) # NPCR(n) /\ NBTR(n) # NPCR(n)
  /\ \A n, m : n # m => NCR(n) # NCR(m) /\ NBTR(n) # NBTR(m) /\ NPCR(n) # NPCR(m)
BY DEF NCR, NBTR, NPCR

\* What a write does to these registers.
LEMMA WrittenDeciding ==
  ASSUME NEW r, NEW v
  PROVE  /\ \A q : q[1] \in Deciding /\ q # r => ValueIn(Written(r, v), q) = ValueIn(mem, q)
         /\ r[1] = "NCR" => Written(r, v) = Put(r, v, mem)
         /\ r[1] \in {"NBTR", "NPCR"} => Written(r, v) = IF Is(NCR(r[2]), "CCE", 1) THEN Put(r, v, mem) ELSE mem
<1>1. CASE r[1] = "MOCTR"
  <2>0. r \notin {OMR(p) : p \in Ports} /\ r # CGATCLR0
    BY <1>1 DEF OMR, Ports, CGATCLR0
  <2>1. PICK x : Written(r, v) = Put(MOSTAT(r[2]), x, mem)
    BY <1>1, <2>0 DEF Written
  <2>2. MOSTAT(r[2])[1] \notin Deciding
    BY DEF MOSTAT, Deciding
  <2>3. PICK s : s = MOSTAT(r[2])
    OBVIOUS
  <2> QED BY <1>1, <2>1, <2>2, <2>3, ValuePut DEF Deciding
<1>2. CASE r \in {OMR(p) : p \in Ports}
  <2>0. PICK p \in Ports : r = OMR(p)
    BY <1>2
  <2>1. r[1] = p /\ r[1] \notin {"MOCTR", "NBTR", "NPCR", "NCR"} /\ r # CGATCLR0
    BY <2>0 DEF OMR, Ports, CGATCLR0
  <2>2. PICK x : Written(r, v) = Put(OUT(p), x, mem)
    BY <1>2, <2>1 DEF Written
  <2>3. OUT(p)[1] \notin Deciding
    BY DEF OUT, Deciding, Ports
  <2>4. PICK s : s = OUT(p)
    OBVIOUS
  <2> QED BY <2>1, <2>2, <2>3, <2>4, ValuePut
<1>3. CASE r[1] # "MOCTR" /\ r \notin {OMR(p) : p \in Ports}
  <2>1. CASE r # CGATCLR0
    <3>1. Written(r, v) = IF r[1] \in {"NBTR", "NPCR"} /\ ~Is(NCR(r[2]), "CCE", 1) THEN mem ELSE Put(r, v, mem)
      BY <1>3, <2>1 DEF Written
    <3>2. \A q : q[1] \in Deciding /\ q # r => ValueIn(Written(r, v), q) = ValueIn(mem, q)
      BY <3>1, ValuePut
    <3> QED BY <3>1, <3>2
  <2>2. CASE r = CGATCLR0
    <3>1. r[1] \notin Deciding
      BY <2>2 DEF CGATCLR0, Deciding
    <3>2. Written(r, v) = mem \/ \E x : Written(r, v) = Put(CGATSTAT0, x, mem)
      BY <1>3, <2>2, <3>1 DEF Written, Deciding
    <3>3. CGATSTAT0[1] \notin Deciding
      BY DEF CGATSTAT0, Deciding
    <3>4. PICK s : s = CGATSTAT0
      OBVIOUS
    <3> QED BY <3>1, <3>2, <3>3, <3>4, ValuePut DEF Deciding
  <2> QED BY <2>1, <2>2
<1> QED BY <1>1, <1>2, <1>3

\* The peripherals leave a node out of operation, and its configuration alone.
NodeKept(m, n) ==
  /\ ValueIn(m, NBTR(n)) = ValueIn(mem, NBTR(n)) /\ ValueIn(m, NPCR(n)) = ValueIn(mem, NPCR(n))
  /\ HasField(ValueIn(mem, NCR(n)), "INIT", 1) => HasField(ValueIn(m, NCR(n)), "INIT", 1)
  /\ HasField(ValueIn(mem, NCR(n)), "CCE", 1) => HasField(ValueIn(m, NCR(n)), "CCE", 1)

LEMMA PeripheralsKeepNodes ==
  ASSUME Peripherals
  PROVE  \A n : NodeKept(mem', n)
<1> DEFINE Same(m) == \A q : q[1] \in Deciding => ValueIn(m, q) = ValueIn(mem, q)
<1>1. \A m, s, x : Same(m) /\ s[1] \notin Deciding => Same(Put(s, x, m))
  <2> SUFFICES ASSUME NEW m, NEW s, NEW x, Same(m), s[1] \notin Deciding, NEW q, q[1] \in Deciding
               PROVE  ValueIn(Put(s, x, m), q) = ValueIn(mem, q)
    OBVIOUS
  <2>1. q # s
    OBVIOUS
  <2> QED BY <2>1, ValuePut
<1>2. Same(mem)
  OBVIOUS
<1>3. /\ \A m : /\ List(m)[1] \notin Deciding /\ MOSTAT(m)[1] \notin Deciding /\ MOFCR(m)[1] \notin Deciding
                /\ MODATAL(m)[1] \notin Deciding /\ MODATAH(m)[1] \notin Deciding /\ NSR(m)[1] \notin Deciding
      /\ \A r : US(r)[1] \notin Deciding
      /\ PANCTR[1] \notin Deciding
  BY DEF List, MOSTAT, MOFCR, MODATAL, MODATAH, NSR, US, PANCTR, Deciding
<1> HIDE DEF Same
<1>4. ASSUME Same(mem') PROVE \A n : NodeKept(mem', n)
  BY <1>4, DecidingRegisters DEF Same, Deciding, NodeKept
<1>5. ASSUME PanelDone PROVE Same(mem')
  <2>1. PICK r, v, w : mem' = Put(List(r), v, Put(PANCTR, w, mem))
    BY <1>5 DEF PanelDone
  <2>2. Same(Put(PANCTR, w, mem))
    BY <1>1, <1>2, <1>3
  <2> QED BY <1>1, <1>3, <2>1, <2>2
<1>6. ASSUME ByteArrives PROVE Same(mem')
  <2>1. PICK v, w : mem' = Put(US("RBUFSR"), v, Put(US("RBUF"), w, mem))
    BY <1>6 DEF ByteArrives
  <2>2. Same(Put(US("RBUF"), w, mem))
    BY <1>1, <1>2, <1>3
  <2> QED BY <1>1, <1>3, <2>1, <2>2
<1>7. ASSUME NEW m, NEW bits PROVE Same(Marks(m, bits))
  BY <1>1, <1>2, <1>3 DEF Marks
<1>8. ASSUME NEW k \in Nodes, Starts(k) PROVE Same(mem')
  <2>1. PICK m \in Mailboxes : mem' = Marks(m, [NEWDAT |-> 0, RTSEL |-> 1])
    BY <1>8 DEF Starts
  <2> QED BY <1>7, <2>1
<1>9. ASSUME NEW k \in Nodes, Sent(k) PROVE Same(mem')
  <2>1. PICK v, m, bits : mem' = Put(NSR(k), v, mem) \/ mem' = Put(NSR(k), v, Marks(m, bits))
    BY <1>9 DEF Sent
  <2>2. Same(Marks(m, bits))
    BY <1>7
  <2> QED BY <1>1, <1>2, <1>3, <2>1, <2>2
<1>10. ASSUME NEW k \in Nodes, NEW w, Heard(k, w) PROVE Same(mem')
  <2>1. PICK m, v1, v2, v3, bits :
          m \in Mailboxes /\ mem' = Put(MODATAL(m), v1, Put(MODATAH(m), v2, Put(MOFCR(m), v3, Marks(m, bits))))
    BY <1>10 DEF Heard
  <2>2. Same(Put(MOFCR(m), v3, Marks(m, bits)))
    BY <1>1, <1>3, <1>7
  <2>3. Same(Put(MODATAH(m), v2, Put(MOFCR(m), v3, Marks(m, bits))))
    BY <1>1, <1>3, <2>2
  <2> QED BY <1>1, <1>3, <2>1, <2>3
<1>11. ASSUME NEW k \in Nodes, NEW off \in BOOLEAN, Fails(k, off) PROVE \A n : NodeKept(mem', n)
  <2>1. PICK v : mem' = Put(NSR(k), v, IF off THEN Put(NCR(k), [Value(NCR(k)) EXCEPT !.INIT = 1], mem) ELSE mem)
    BY <1>11 DEF Fails
  <2>2. CASE ~off
    <3>1. Same(mem')
      BY <1>1, <1>2, <1>3, <2>1, <2>2
    <3> QED BY <1>4, <3>1
  <2>3. CASE off
    <3> DEFINE old == ValueIn(mem, NCR(k))
               new == [old EXCEPT !.INIT = 1]
               m   == Put(NCR(k), new, mem)
    <3>1. Value(NCR(k)) = old
      BY DEF Value, ValueIn
    <3>2. mem' = Put(NSR(k), v, m)
      BY <2>1, <2>3, <3>1
    <3>3. DOMAIN new = DOMAIN old /\ (HasField(old, "INIT", 1) => HasField(new, "INIT", 1))
          /\ (HasField(old, "CCE", 1) => HasField(new, "CCE", 1))
      <4> HIDE DEF old
      <4> QED BY DEF HasField
    <3> HIDE DEF new
    <3>4. \A q : q # NCR(k) => ValueIn(m, q) = ValueIn(mem, q)
      BY ValuePut
    <3>5. ValueIn(m, NCR(k)) = new
      BY ValuePut
    <3> HIDE DEF m
    <3>6. \A q : q # NSR(k) => ValueIn(mem', q) = ValueIn(m, q)
      BY <3>2, ValuePut
    <3>7. \A n : NSR(k) # NCR(n) /\ NSR(k) # NBTR(n) /\ NSR(k) # NPCR(n) /\ NCR(k) # NBTR(n) /\ NCR(k) # NPCR(n)
      BY DEF NSR, NCR, NBTR, NPCR
    <3>8. ASSUME NEW n PROVE NodeKept(mem', n)
      <4>1. ValueIn(mem', NBTR(n)) = ValueIn(mem, NBTR(n)) /\ ValueIn(mem', NPCR(n)) = ValueIn(mem, NPCR(n))
        BY <3>4, <3>6, <3>7
      <4>2. ValueIn(mem', NCR(n)) = ValueIn(m, NCR(n))
        BY <3>6, <3>7
      <4>3. CASE NCR(n) = NCR(k)
        BY <3>3, <3>5, <4>1, <4>2, <4>3 DEF NodeKept
      <4>4. CASE NCR(n) # NCR(k)
        <5>1. ValueIn(mem', NCR(n)) = ValueIn(mem, NCR(n))
          BY <3>4, <4>2, <4>4
        <5> QED BY <4>1, <5>1 DEF NodeKept
      <4> QED BY <4>3, <4>4
    <3> QED BY <3>8
  <2> QED BY <2>2, <2>3
<1> QED BY <1>4, <1>5, <1>6, <1>8, <1>9, <1>10, <1>11 DEF Peripherals

\* An access that leaves the nodes alone, and is followed by the next one.
Away(i) == i.op \in {"load", "store", "write", "read", "await"} /\ i.reg[1] \notin Deciding

IsAway(p) == IsSeq(p) /\ \A i \in ToSet(p) : Away(i)

LEMMA AwayJoined ==
  ASSUME NEW p, NEW q, IsAway(p), IsAway(q)
  PROVE  IsAway(p \o q)
<1> DEFINE S == ToSet(p) \cup ToSet(q)
<1>1. p \in Seq(S) /\ q \in Seq(S)
  BY DEF IsAway, IsSeq
<1>2. \A i \in S : Away(i)
  BY DEF IsAway
<1> HIDE DEF S
<1>3. PICK r : r = p \o q
  OBVIOUS
<1>4. r \in Seq(S)
  BY <1>1, <1>3
<1>5. \A i \in ToSet(r) : i \in S
  BY <1>4, InSet
<1>6. IsSeq(r)
  BY <1>3, SeqsJoined DEF IsAway
<1> QED BY <1>2, <1>3, <1>5, <1>6 DEF IsAway

LEMMA AwayAccesses ==
  /\ IsAway(<< >>)
  /\ \A r, new : r[1] \notin Deciding =>
       IsAway(Load(r)) /\ IsAway(Store(r, new)) /\ IsAway(Write(r, new)) /\ IsAway(Modify(r, new))
  /\ \A r, f, v : r[1] \notin Deciding => IsAway(Read(r, f)) /\ IsAway(Await(r, f, v))
<1>1. \A i : Away(i) => IsAway(<< i >>)
  <2> SUFFICES ASSUME NEW i, Away(i) PROVE IsAway(<< i >>)
    OBVIOUS
  <2>1. ToSet(<< i >>) = {i}
    BY DEF ToSet
  <2> QED BY <2>1, SeqsOfOne DEF IsAway
<1>2. IsAway(<< >>)
  BY SeqsOfAccesses DEF IsAway, ToSet
<1>3. \A r, new : r[1] \notin Deciding => IsAway(Load(r)) /\ IsAway(Store(r, new)) /\ IsAway(Write(r, new))
  BY <1>1 DEF Load, Store, Write, Away
<1>4. \A r, new : r[1] \notin Deciding => IsAway(Modify(r, new))
  BY <1>3, AwayJoined DEF Modify
<1>5. \A r, f, v : r[1] \notin Deciding => IsAway(Read(r, f)) /\ IsAway(Await(r, f, v))
  BY <1>1 DEF Read, Await, Away
<1> QED BY <1>2, <1>3, <1>4, <1>5

\* The part of the functions that is not about their node.
LEMMA AwayParts == IsAway(can_enable) /\ IsAway(setup_clock) /\ IsAway(Pins0) /\ IsAway(Pins1)
<1>1. /\ \A port \in Ports : \A nr : /\ IOCR(port, nr)[1] \notin Deciding /\ PHCR(port, nr)[1] \notin Deciding
                                     /\ PDISC(port)[1] \notin Deciding
      /\ PASSWD[1] \notin Deciding /\ CGATCLR0[1] \notin Deciding /\ CLKCR[1] \notin Deciding
      /\ CLC[1] \notin Deciding /\ MCR[1] \notin Deciding /\ FDR[1] \notin Deciding
  BY DEF IOCR, PHCR, PDISC, PASSWD, CGATCLR0, CLKCR, CLC, MCR, FDR, Ports, Deciding
<1>2. "P1" \in Ports /\ "P2" \in Ports
  BY DEF Ports
<1>3. IsAway(scu_UnlockProtectedBits) /\ IsAway(scu_LockProtectedBits)
  BY <1>1, AwayAccesses, AwayJoined DEF scu_UnlockProtectedBits, scu_LockProtectedBits
<1>4. \A per : IsAway(scu_enable_peripheral_clock(per))
  <2> TAKE per
  <2>1. IsAway(Modify(CGATCLR0, [p \in {per} |-> 1])) /\ IsAway(Await(CLKCR, "VDDC2LOW", 0))
    BY <1>1, AwayAccesses
  <2> QED BY <1>3, <2>1, AwayJoined DEF scu_enable_peripheral_clock
<1>5. IsAway(can_enable)
  <2>1. IsAway(Write(CLC, [DISR |-> 0])) /\ IsAway(Modify(MCR, [CLKSEL |-> 1]))
    BY <1>1, AwayAccesses
  <2> QED BY <1>4, <2>1, AwayJoined DEF can_enable
<1>6. IsAway(setup_clock)
  <2>1. /\ IsAway(Read(MCR, "CLKSEL")) /\ IsAway(Modify(FDR, [DM |-> 0, STEP |-> 0]))
        /\ IsAway(Write(FDR, [DM |-> 2, STEP |-> 234]))
    BY <1>1, AwayAccesses
  <2> QED BY <2>1, AwayJoined DEF setup_clock
<1>7. \A port \in Ports : \A nr, v :
        IsAway(Modify(IOCR(port, nr), v)) /\ IsAway(NoHysteresis(port, nr)) /\ IsAway(DigitalInput(port, nr))
  BY <1>1, AwayAccesses DEF NoHysteresis, DigitalInput
<1>8. \A port \in Ports : \A nr, d : IsAway(d) => IsAway(set_input(port, nr, d))
  BY <1>7, AwayJoined DEF set_input
<1>9. \A nr : IsAway(gpio_1_set_input(nr)) /\ IsAway(gpio_2_set_input(nr))
  BY <1>2, <1>7, <1>8, AwayAccesses DEF gpio_1_set_input, gpio_2_set_input
<1>10. IsAway(Pins0) /\ IsAway(Pins1)
  BY <1>2, <1>7, <1>9, AwayJoined DEF Pins0, Pins1
<1> QED BY <1>5, <1>6, <1>10

\* The rest, access by access.
LoadsNode(n)     == [op |-> "load", reg |-> NCR(n)]
StoresCce(n, b)  == [op |-> "store", reg |-> NCR(n), new |-> [CCE |-> b]]
LoadsPins(n)     == [op |-> "load", reg |-> NPCR(n)]
StoresPins(n, v) == [op |-> "store", reg |-> NPCR(n), new |-> v]
WritesTiming(n)  == [op |-> "write", reg |-> NBTR(n), new |-> ItsTiming]

\* p accesses the registers of node n in the order of the functions, behind place k.
Settles(p, k, n) ==
  /\ \A j \in {1, 9, 11, 13, 16, 18} : p[k + j] = LoadsNode(n)
  /\ \A j \in {2, 12, 14} : p[k + j] = StoresCce(n, 1)
  /\ \A j \in {10, 17, 19} : p[k + j] = StoresCce(n, 0)
  /\ \A j \in {3, 5, 7} : p[k + j] = LoadsPins(n)
  /\ p[k + 4] = StoresPins(n, << >>) /\ p[k + 6] = StoresPins(n, [RXSEL |-> 0])
  /\ p[k + 8] = StoresPins(n, [RXSEL |-> Rx(n)])
  /\ p[k + 15] = WritesTiming(n)

\* q is p with one or two accesses behind.
GrownByOne(q, p, k, a)    == IsSeq(q) /\ Len(q) = k + 1 /\ q[k + 1] = a /\ \A j \in 1..k : q[j] = p[j]
GrownByTwo(q, p, k, a, b) == IsSeq(q) /\ Len(q) = k + 2 /\ q[k + 1] = a /\ q[k + 2] = b /\ \A j \in 1..k : q[j] = p[j]

LEMMA TwoBehind ==
  ASSUME NEW p, IsSeq(p), NEW k, Len(p) = k, NEW a, NEW b, NEW r, r = p \o << a, b >>
  PROVE  GrownByTwo(r, p, k, a, b)
<1> DEFINE S == ToSet(p) \cup {a, b}
<1>1. p \in Seq(S) /\ << a, b >> \in Seq(S) /\ Len(<< a, b >>) = 2 /\ << a, b >>[1] = a /\ << a, b >>[2] = b
  BY DEF IsSeq
<1>2. IsSeq(<< a, b >>)
  <2>1. IsSeq(<< a >> \o << b >>)
    BY SeqsOfOne, SeqsJoined
  <2> QED BY <2>1, TwoJoined
<1>3. IsSeq(p \o << a, b >>)
  BY <1>2, SeqsJoined
<1>4. PICK q : q = << a, b >>
  OBVIOUS
<1>5. q \in Seq(S) /\ Len(q) = 2 /\ q[1] = a /\ q[2] = b /\ Len(p) \in Nat
  BY <1>1, <1>4
<1> HIDE DEF S
<1>6. /\ Len(p \o q) = Len(p) + 2
      /\ \A j \in 1..Len(p) + 2 : (p \o q)[j] = IF j <= Len(p) THEN p[j] ELSE q[j - Len(p)]
  <2>1. p \in Seq(S)
    BY <1>1
  <2>2. q \in Seq(S)
    BY <1>5
  <2>3. Len(p \o q) = Len(p) + Len(q)
    BY <2>1, <2>2, ConcatProperties
  <2>4. \A j \in 1..Len(p) + Len(q) : (p \o q)[j] = IF j <= Len(p) THEN p[j] ELSE q[j - Len(p)]
    BY <2>1, <2>2, ConcatProperties
  <2> QED BY <1>5, <2>3, <2>4
<1>7. (p \o q)[Len(p) + 1] = a /\ (p \o q)[Len(p) + 2] = b
  BY <1>5, <1>6
<1>8. \A j \in 1..Len(p) : (p \o q)[j] = p[j]
  BY <1>5, <1>6
<1> QED BY <1>3, <1>4, <1>6, <1>7, <1>8 DEF GrownByTwo

LEMMA OneBehind ==
  ASSUME NEW p, IsSeq(p), NEW k, Len(p) = k, NEW a, NEW r, r = p \o << a >>
  PROVE  GrownByOne(r, p, k, a)
<1> DEFINE S == ToSet(p) \cup {a}
<1>1. p \in Seq(S) /\ << a >> \in Seq(S) /\ Len(<< a >>) = 1 /\ << a >>[1] = a
  BY DEF IsSeq
<1>2. IsSeq(p \o << a >>)
  BY SeqsOfOne, SeqsJoined
<1>3. PICK q : q = << a >>
  OBVIOUS
<1>4. q \in Seq(S) /\ Len(q) = 1 /\ q[1] = a /\ Len(p) \in Nat
  BY <1>1, <1>3
<1> HIDE DEF S
<1>5. p \in Seq(S) /\ q \in Seq(S)
  BY <1>1, <1>4
<1>6. Len(p \o q) = Len(p) + Len(q)
  BY <1>5, ConcatProperties
<1>7. \A j \in 1..Len(p) + Len(q) : (p \o q)[j] = IF j <= Len(p) THEN p[j] ELSE q[j - Len(p)]
  BY <1>5, ConcatProperties
<1>8. (p \o q)[Len(p) + 1] = a /\ \A j \in 1..Len(p) : (p \o q)[j] = p[j]
  <2>1. PICK m \in Nat : m = Len(p)
    BY <1>4
  <2>2. \A j \in 1..m + 1 : (p \o q)[j] = IF j <= m THEN p[j] ELSE q[j - m]
    BY <1>4, <1>7, <2>1
  <2>3. m + 1 \in 1..m + 1 /\ ~(m + 1 <= m) /\ (m + 1) - m = 1
    BY <2>1
  <2>4. (p \o q)[m + 1] = a
    BY <1>4, <2>2, <2>3
  <2> QED BY <2>1, <2>2, <2>4
<1> QED BY <1>2, <1>3, <1>4, <1>6, <1>8 DEF GrownByOne

\* The pair of accesses of a modification.
LEMMA PairOf == \A r, new : Modify(r, new) = << [op |-> "load", reg |-> r], [op |-> "store", reg |-> r, new |-> new] >>
<1> TAKE r, new
<1>1. PICK a, b : a = [op |-> "load", reg |-> r] /\ b = [op |-> "store", reg |-> r, new |-> new]
  OBVIOUS
<1>2. Modify(r, new) = << a >> \o << b >>
  BY <1>1 DEF Modify, Load, Store
<1>3. << a >> \o << b >> = << a, b >>
  BY TwoJoined
<1> QED BY <1>1, <1>2, <1>3

LEMMA SeqOfTwo ==
  ASSUME NEW a, NEW b
  PROVE  IsSeq(<< a, b >>) /\ Len(<< a, b >>) = 2 /\ << a, b >>[1] = a /\ << a, b >>[2] = b
<1>1. IsSeq(<< a >> \o << b >>)
  BY SeqsOfOne, SeqsJoined
<1>2. IsSeq(<< a, b >>)
  BY <1>1, TwoJoined
<1> QED BY <1>2

LEMMA InputsOf ==
  ASSUME NEW n, NEW s, s = Inputs(n, Rx(n))
  PROVE  /\ IsSeq(s) /\ Len(s) = 10
         /\ s[1] = LoadsNode(n) /\ s[2] = StoresCce(n, 1) /\ s[3] = LoadsPins(n) /\ s[4] = StoresPins(n, << >>)
         /\ s[5] = LoadsPins(n) /\ s[6] = StoresPins(n, [RXSEL |-> 0])
         /\ s[7] = LoadsPins(n) /\ s[8] = StoresPins(n, [RXSEL |-> Rx(n)])
         /\ s[9] = LoadsNode(n) /\ s[10] = StoresCce(n, 0)
<1>1. PICK l, on, off, p, p1, p2, p3 :
        /\ l = LoadsNode(n) /\ on = StoresCce(n, 1) /\ off = StoresCce(n, 0) /\ p = LoadsPins(n)
        /\ p1 = StoresPins(n, << >>) /\ p2 = StoresPins(n, [RXSEL |-> 0]) /\ p3 = StoresPins(n, [RXSEL |-> Rx(n)])
  OBVIOUS
<1>2. /\ enable_configuration_change(n) = << l, on >> /\ disable_configuration_change(n) = << l, off >>
      /\ Load(NPCR(n)) = << p >> /\ Store(NPCR(n), << >>) = << p1 >>
      /\ Modify(NPCR(n), [RXSEL |-> 0]) = << p, p2 >> /\ Modify(NPCR(n), [RXSEL |-> Rx(n)]) = << p, p3 >>
  BY <1>1, PairOf DEF enable_configuration_change, disable_configuration_change, Load, Store,
       LoadsNode, StoresCce, LoadsPins, StoresPins
<1>3. PICK s2 : s2 = << l, on >>
  OBVIOUS
<1>4. PICK s3 : s3 = s2 \o << p >>
  OBVIOUS
<1>5. PICK s4 : s4 = s3 \o << p1 >>
  OBVIOUS
<1>6. PICK s6 : s6 = s4 \o << p, p2 >>
  OBVIOUS
<1>7. PICK s8 : s8 = s6 \o << p, p3 >>
  OBVIOUS
<1>8. s = s8 \o << l, off >>
  BY <1>2, <1>3, <1>4, <1>5, <1>6, <1>7 DEF Inputs
<1>9. IsSeq(s2) /\ Len(s2) = 2 /\ s2[1] = l /\ s2[2] = on
  BY <1>3, SeqOfTwo
<1>10. IsSeq(s3) /\ Len(s3) = 3 /\ s3[1] = l /\ s3[2] = on /\ s3[3] = p
  <2>1. GrownByOne(s3, s2, 2, p)
    BY <1>4, <1>9, OneBehind
  <2> QED BY <1>9, <2>1 DEF GrownByOne
<1>11. IsSeq(s4) /\ Len(s4) = 4 /\ s4[1] = l /\ s4[2] = on /\ s4[3] = p /\ s4[4] = p1
  <2>1. GrownByOne(s4, s3, 3, p1)
    BY <1>5, <1>10, OneBehind
  <2> QED BY <1>10, <2>1 DEF GrownByOne
<1>12. /\ IsSeq(s6) /\ Len(s6) = 6 /\ s6[1] = l /\ s6[2] = on /\ s6[3] = p /\ s6[4] = p1
       /\ s6[5] = p /\ s6[6] = p2
  <2>1. GrownByTwo(s6, s4, 4, p, p2)
    BY <1>6, <1>11, TwoBehind
  <2> QED BY <1>11, <2>1 DEF GrownByTwo
<1>13. /\ IsSeq(s8) /\ Len(s8) = 8 /\ s8[1] = l /\ s8[2] = on /\ s8[3] = p /\ s8[4] = p1
       /\ s8[5] = p /\ s8[6] = p2 /\ s8[7] = p /\ s8[8] = p3
  <2>1. GrownByTwo(s8, s6, 6, p, p3)
    BY <1>7, <1>12, TwoBehind
  <2> QED BY <1>12, <2>1 DEF GrownByTwo
<1>14. /\ IsSeq(s) /\ Len(s) = 10 /\ s[1] = l /\ s[2] = on /\ s[3] = p /\ s[4] = p1
       /\ s[5] = p /\ s[6] = p2 /\ s[7] = p /\ s[8] = p3 /\ s[9] = l /\ s[10] = off
  <2>1. GrownByTwo(s, s8, 8, l, off)
    BY <1>8, <1>13, TwoBehind
  <2> QED BY <1>13, <2>1 DEF GrownByTwo
<1> QED BY <1>1, <1>14

LEMMA SpeedOf ==
  ASSUME NEW n, NEW s, s = Speed(n, BitRate)
  PROVE  /\ IsSeq(s) /\ Len(s) = 9
         /\ s[1] = LoadsNode(n) /\ s[2] = StoresCce(n, 1) /\ s[3] = LoadsNode(n) /\ s[4] = StoresCce(n, 1)
         /\ s[5] = WritesTiming(n)
         /\ s[6] = LoadsNode(n) /\ s[7] = StoresCce(n, 0) /\ s[8] = LoadsNode(n) /\ s[9] = StoresCce(n, 0)
<1>1. PICK l, on, off, w :
        l = LoadsNode(n) /\ on = StoresCce(n, 1) /\ off = StoresCce(n, 0) /\ w = WritesTiming(n)
  OBVIOUS
<1>2. /\ enable_configuration_change(n) = << l, on >> /\ disable_configuration_change(n) = << l, off >>
      /\ Write(NBTR(n), Timing(BitRate)) = << w >>
  BY <1>1, PairOf DEF enable_configuration_change, disable_configuration_change, Write,
       LoadsNode, StoresCce, WritesTiming, ItsTiming
<1>3. PICK on2, off2, w1 : on2 = << l, on >> /\ off2 = << l, off >> /\ w1 = << w >>
  OBVIOUS
<1>4. IsSeq(on2) /\ IsSeq(off2) /\ IsSeq(w1) /\ IsSeq(on2 \o w1)
  BY <1>3, SeqOfTwo, SeqsOfOne, SeqsJoined
<1>5. s = (on2 \o ((on2 \o w1) \o off2)) \o off2
  BY <1>2, <1>3 DEF Speed, set_speed
<1>6. on2 \o ((on2 \o w1) \o off2) = (on2 \o (on2 \o w1)) \o off2
  BY <1>4, Regrouped
<1>7. on2 \o (on2 \o w1) = (on2 \o on2) \o w1
  BY <1>4, Regrouped
<1>8. PICK s4 : s4 = on2 \o << l, on >>
  OBVIOUS
<1>9. PICK s5 : s5 = s4 \o << w >>
  OBVIOUS
<1>10. PICK s7 : s7 = s5 \o << l, off >>
  OBVIOUS
<1>11. s = s7 \o << l, off >>
  BY <1>3, <1>5, <1>6, <1>7, <1>8, <1>9, <1>10
<1>12. IsSeq(on2) /\ Len(on2) = 2 /\ on2[1] = l /\ on2[2] = on
  BY <1>3, SeqOfTwo
<1>13. IsSeq(s4) /\ Len(s4) = 4 /\ s4[1] = l /\ s4[2] = on /\ s4[3] = l /\ s4[4] = on
  <2>1. GrownByTwo(s4, on2, 2, l, on)
    BY <1>8, <1>12, TwoBehind
  <2> QED BY <1>12, <2>1 DEF GrownByTwo
<1>14. IsSeq(s5) /\ Len(s5) = 5 /\ s5[1] = l /\ s5[2] = on /\ s5[3] = l /\ s5[4] = on /\ s5[5] = w
  <2>1. GrownByOne(s5, s4, 4, w)
    BY <1>9, <1>13, OneBehind
  <2> QED BY <1>13, <2>1 DEF GrownByOne
<1>15. /\ IsSeq(s7) /\ Len(s7) = 7 /\ s7[1] = l /\ s7[2] = on /\ s7[3] = l /\ s7[4] = on /\ s7[5] = w
       /\ s7[6] = l /\ s7[7] = off
  <2>1. GrownByTwo(s7, s5, 5, l, off)
    BY <1>10, <1>14, TwoBehind
  <2> QED BY <1>14, <2>1 DEF GrownByTwo
<1>16. /\ IsSeq(s) /\ Len(s) = 9 /\ s[1] = l /\ s[2] = on /\ s[3] = l /\ s[4] = on /\ s[5] = w
       /\ s[6] = l /\ s[7] = off /\ s[8] = l /\ s[9] = off
  <2>1. GrownByTwo(s, s7, 7, l, off)
    BY <1>11, <1>15, TwoBehind
  <2> QED BY <1>15, <2>1 DEF GrownByTwo
<1> QED BY <1>1, <1>16

\* The functions are accesses that leave the nodes alone and then the setting of their node.
LEMMA InitsOf ==
  ASSUME NEW n \in Nodes, NEW p, p = Inits(n)
  PROVE  /\ IsSeq(p) /\ Len(p) - 19 \in Nat
         /\ \A j \in 1..Len(p) - 19 : Away(p[j])
         /\ Settles(p, Len(p) - 19, n)
<1>1. PICK f : IsAway(f) /\ p = (f \o Inputs(n, Rx(n))) \o Speed(n, BitRate)
  <2>1. IsAway((can_enable \o setup_clock) \o Pins0) /\ IsAway((can_enable \o setup_clock) \o Pins1)
    BY AwayParts, AwayJoined
  <2>2. CASE n = 0
    <3>1. Rx(n) = 6
      BY <2>2 DEF Rx
    <3>2. p = (((can_enable \o setup_clock) \o Pins0) \o Inputs(n, Rx(n))) \o Speed(n, BitRate)
      BY <2>2, <3>1 DEF Inits, can0_init, can0_enable, can0_setup_clock
    <3> QED BY <2>1, <3>2
  <2>3. CASE n = 1
    <3>1. Rx(n) = 4
      BY <2>3 DEF Rx
    <3>2. p = (((can_enable \o setup_clock) \o Pins1) \o Inputs(n, Rx(n))) \o Speed(n, BitRate)
      BY <2>3, <3>1 DEF Inits, can1_init, can1_enable, can1_setup_clock
    <3> QED BY <2>1, <3>2
  <2> QED BY <2>2, <2>3 DEF Nodes
<1>2. PICK u, v : u = Inputs(n, Rx(n)) /\ v = Speed(n, BitRate)
  OBVIOUS
<1>3. PICK q : q = f \o u
  OBVIOUS
<1>4. p = q \o v
  BY <1>1, <1>2, <1>3
<1>5. IsSeq(f) /\ IsSeq(u) /\ IsSeq(v) /\ IsSeq(q) /\ IsSeq(p) /\ Len(u) = 10 /\ Len(v) = 9
  BY <1>1, <1>2, <1>3, <1>4, InputsOf, SpeedOf, SeqsJoined DEF IsAway
<1> DEFINE S == ToSet(f) \cup ToSet(u) \cup ToSet(v) \cup ToSet(q)
<1>6. f \in Seq(S) /\ u \in Seq(S) /\ v \in Seq(S) /\ q \in Seq(S)
  BY <1>5 DEF IsSeq
<1>7. Len(f) \in Nat /\ Len(q) \in Nat /\ \A j \in 1..Len(f) : f[j] \in ToSet(f)
  BY <1>6, InSet
<1> HIDE DEF S
<1>8. Len(q) = Len(f) + Len(u)
  BY <1>3, <1>6, ConcatProperties
<1>9. \A j \in 1..Len(f) + Len(u) : q[j] = IF j <= Len(f) THEN f[j] ELSE u[j - Len(f)]
  BY <1>3, <1>6, ConcatProperties
<1>10. Len(p) = Len(q) + Len(v)
  BY <1>4, <1>6, ConcatProperties
<1>11. \A j \in 1..Len(q) + Len(v) : p[j] = IF j <= Len(q) THEN q[j] ELSE v[j - Len(q)]
  BY <1>4, <1>6, ConcatProperties
<1>12. PICK k \in Nat : k = Len(f)
  BY <1>7
<1>13. Len(p) - 19 = k /\ Len(q) = k + 10
  BY <1>5, <1>8, <1>10, <1>12
<1>14. \A j \in 1..k : p[j] = f[j]
  <2> SUFFICES ASSUME NEW j \in 1..k PROVE p[j] = f[j]
    OBVIOUS
  <2>1. j \in 1..Len(q) + Len(v) /\ j <= Len(q) /\ j \in 1..Len(f) + Len(u) /\ j <= Len(f)
    BY <1>5, <1>12, <1>13
  <2> QED BY <1>9, <1>11, <2>1
<1>15. \A j \in 1..10 : p[k + j] = u[j]
  <2> SUFFICES ASSUME NEW j \in 1..10 PROVE p[k + j] = u[j]
    OBVIOUS
  <2>1. k + j \in 1..Len(q) + Len(v) /\ k + j <= Len(q) /\ k + j \in 1..Len(f) + Len(u) /\ ~(k + j <= Len(f))
        /\ (k + j) - Len(f) = j
    BY <1>5, <1>12, <1>13
  <2> QED BY <1>9, <1>11, <2>1
<1>16. \A j \in 1..9 : p[k + 10 + j] = v[j]
  BY <1>5, <1>11, <1>12, <1>13
<1>17. \A j \in 1..k : Away(p[j])
  BY <1>1, <1>7, <1>12, <1>14 DEF IsAway
<1>18. /\ p[k + 1] = LoadsNode(n) /\ p[k + 2] = StoresCce(n, 1) /\ p[k + 3] = LoadsPins(n)
       /\ p[k + 4] = StoresPins(n, << >>) /\ p[k + 5] = LoadsPins(n) /\ p[k + 6] = StoresPins(n, [RXSEL |-> 0])
       /\ p[k + 7] = LoadsPins(n) /\ p[k + 8] = StoresPins(n, [RXSEL |-> Rx(n)])
       /\ p[k + 9] = LoadsNode(n) /\ p[k + 10] = StoresCce(n, 0)
  <2>1. /\ u[1] = LoadsNode(n) /\ u[2] = StoresCce(n, 1) /\ u[3] = LoadsPins(n)
        /\ u[4] = StoresPins(n, << >>) /\ u[5] = LoadsPins(n) /\ u[6] = StoresPins(n, [RXSEL |-> 0])
        /\ u[7] = LoadsPins(n) /\ u[8] = StoresPins(n, [RXSEL |-> Rx(n)])
        /\ u[9] = LoadsNode(n) /\ u[10] = StoresCce(n, 0)
    BY <1>2, InputsOf
  <2>2. /\ p[k + 1] = u[1] /\ p[k + 2] = u[2] /\ p[k + 3] = u[3] /\ p[k + 4] = u[4] /\ p[k + 5] = u[5]
        /\ p[k + 6] = u[6] /\ p[k + 7] = u[7] /\ p[k + 8] = u[8] /\ p[k + 9] = u[9] /\ p[k + 10] = u[10]
    BY <1>15
  <2> QED BY <2>1, <2>2
<1>19. /\ v[1] = LoadsNode(n) /\ v[2] = StoresCce(n, 1) /\ v[3] = LoadsNode(n) /\ v[4] = StoresCce(n, 1)
       /\ v[5] = WritesTiming(n)
       /\ v[6] = LoadsNode(n) /\ v[7] = StoresCce(n, 0) /\ v[8] = LoadsNode(n) /\ v[9] = StoresCce(n, 0)
  BY <1>2, SpeedOf
<1>20. /\ p[k + 11] = v[1] /\ p[k + 12] = v[2] /\ p[k + 13] = v[3] /\ p[k + 14] = v[4] /\ p[k + 15] = v[5]
       /\ p[k + 16] = v[6] /\ p[k + 17] = v[7] /\ p[k + 18] = v[8] /\ p[k + 19] = v[9]
  BY <1>16
<1>21. Settles(p, k, n)
  BY <1>18, <1>19, <1>20 DEF Settles
<1> QED BY <1>5, <1>13, <1>17, <1>21

\* What is left of a program from place j on.
From(p, j) == SubSeq(p, j, Len(p))

LEMMA FromHere ==
  ASSUME NEW p, IsSeq(p), NEW j \in 1..Len(p), NEW s, s = From(p, j)
  PROVE  /\ s # << >> /\ Head(s) = p[j] /\ Tail(s) = From(p, j + 1)
         /\ j + 1 \in 1..Len(p) => s[2] = p[j + 1]
<1>1. PICK m \in Nat : m = Len(p)
  BY DEF IsSeq
<1>2. p \in Seq(ToSet(p)) /\ j \in 1..m /\ \A k \in 1..m : p[k] \in ToSet(p)
  BY <1>1 DEF IsSeq
<1> DEFINE S == ToSet(p)
<1> HIDE DEF S
<1>3. p \in Seq(S) /\ \A k \in 1..m : p[k] \in S
  BY <1>2 DEF S
<1>4. s \in Seq(S) /\ Len(s) = m - j + 1 /\ \A k \in 1..m - j + 1 : s[k] = p[j + k - 1]
  BY <1>1, <1>2, <1>3, SubSeqProperties DEF From
<1>5. s # << >> /\ Head(s) = p[j]
  BY <1>2, <1>4
<1>6. j + 1 \in 1..m => s[2] = p[j + 1]
  <2> SUFFICES ASSUME j + 1 \in 1..m PROVE s[2] = p[j + 1]
    OBVIOUS
  <2>1. 2 \in 1..m - j + 1 /\ j + 2 - 1 = j + 1
    BY <1>2
  <2> QED BY <1>4, <2>1
<1>7. Tail(s) \in Seq(S) /\ Len(Tail(s)) = m - j /\ \A k \in 1..m - j : Tail(s)[k] = s[k + 1]
  BY <1>2, <1>4, <1>5
<1>8. PICK r : r = From(p, j + 1)
  OBVIOUS
<1>9. r \in Seq(S) /\ Len(r) = m - j /\ \A k \in 1..m - j : r[k] = p[j + 1 + k - 1]
  <2>1. CASE j + 1 \in 1..m
    BY <1>1, <1>2, <1>3, <1>8, <2>1, SubSeqProperties DEF From
  <2>2. CASE j + 1 \notin 1..m
    <3>1. j = m
      BY <1>2, <2>2
    <3>2. r = << >>
      BY <1>1, <1>2, <1>3, <1>8, <3>1, SubSeqProperties DEF From
    <3> QED BY <1>2, <3>1, <3>2
  <2> QED BY <2>1, <2>2
<1>10. ASSUME NEW k \in 1..m - j PROVE Tail(s)[k] = r[k]
  <2>1. k + 1 \in 1..m - j + 1 /\ j + (k + 1) - 1 = j + 1 + k - 1
    BY <1>2
  <2> QED BY <1>4, <1>7, <1>9, <2>1
<1>11. Tail(s) = r
  <2>1. PICK u : u = Tail(s)
    OBVIOUS
  <2>2. u \in Seq(S) /\ Len(u) = Len(r) /\ \A k \in 1..Len(r) : u[k] = r[k]
    BY <1>7, <1>9, <1>10, <2>1
  <2>3. u = r
    BY <1>9, <2>2
  <2> QED BY <2>1, <2>3
<1> QED BY <1>1, <1>5, <1>6, <1>8, <1>11

\* At its end nothing is left.
LEMMA FromEnd ==
  ASSUME NEW p, IsSeq(p)
  PROVE  From(p, Len(p) + 1) = << >> /\ From(p, 1) = p
<1>1. PICK m \in Nat : m = Len(p)
  BY DEF IsSeq
<1>2. p \in Seq(ToSet(p))
  BY DEF IsSeq
<1> DEFINE S == ToSet(p)
<1> HIDE DEF S
<1>3. p \in Seq(S)
  BY <1>2 DEF S
<1> QED BY <1>1, <1>3, SubSeqProperties DEF From

\* A task executes the next access of what is left of its call.
Continues(t, w, i) ==
  /\ at'[t].call = w.call
  /\ i.op = "load" =>
       \/ mem' = mem /\ acc'[t] = Value(i.reg) /\ at'[t].todo = Tail(w.todo)
       \/ mem' = Written(i.reg, Over(w.todo[2].new, Value(i.reg))) /\ at'[t].todo = Tail(Tail(w.todo))
  /\ i.op = "store" => mem' = Written(i.reg, Over(i.new, acc[t]))
  /\ i.op \in {"store", "write", "read", "await"} => at'[t].todo = Tail(w.todo)
  /\ i.op # "create" => live' = live

\* It does not leave the code of the call.
StaysIn(t, w, C) ==
  w.todo \in Seq(C) /\ (\A i \in C : i.op = "if" => i.then \in Seq(C) /\ i.else \in Seq(C)) => at'[t].todo \in Seq(C)

LEMMA StepContinues ==
  ASSUME Activities, DOMAIN acc = Tasks, NEW t \in Tasks, Step(t), NEW w, w = Goes(t), NEW i, i = Head(w.todo)
  PROVE  DOMAIN acc' = Tasks /\ Continues(t, w, i) /\ \A C : StaysIn(t, w, C)
<1>1. w.todo # << >> /\ t \in DOMAIN at
  BY DEF Step, Activities
<1>2. \/ Loads(t, w, i) \/ Stores(t, w, i) \/ Updates(t, w, i) \/ Writes(t, w, i) \/ Reads(t, w, i)
      \/ Awaits(t, w, i) \/ TimesOut(t, w, i) \/ Branches(t, w, i) \/ Creates(t, w, i)
  BY DEF Step
<1>3. IsAt(t, w)
  BY <1>1, Begins
<1>4. /\ DOMAIN w = {"call", "todo", "buf"} /\ w.todo \in Seq(TaskCode(app, t)) /\ Paired(w.todo)
  BY <1>3 DEF IsAt
<1>5. i.op = "load" => Tail(w.todo) # << >>
  BY <1>1, <1>4, PairedParts
<1> HIDE DEF Tasks
<1>6. ASSUME NEW v, DOMAIN v = {"call", "todo", "buf"}, v.call = w.call, NEW more, NEW words, GoesOn(t, v, more, words)
      PROVE  at'[t].call = w.call /\ at'[t].todo = more \o Tail(v.todo) /\ live' = live
  BY <1>1, <1>6 DEF GoesOn
<1>7. ASSUME NEW C, w.todo \in Seq(C)
      PROVE  i \in C /\ Tail(w.todo) \in Seq(C) /\ << >> \o Tail(w.todo) = Tail(w.todo)
  BY <1>1, <1>7
<1>8. << >> \o Tail(w.todo) = Tail(w.todo)
  BY <1>4, <1>7
<1>9. ASSUME Proceeds(t, w)
      PROVE  at'[t].call = w.call /\ at'[t].todo = Tail(w.todo) /\ live' = live /\ \A C : StaysIn(t, w, C)
  <2>1. at'[t].call = w.call /\ at'[t].todo = << >> \o Tail(w.todo) /\ live' = live
    BY <1>4, <1>6, <1>9 DEF Proceeds
  <2>2. at'[t].todo = Tail(w.todo)
    BY <1>8, <2>1
  <2> QED BY <1>7, <2>1, <2>2 DEF StaysIn
<1>10. CASE Loads(t, w, i)
  <2>1. i.op = "load" /\ Proceeds(t, w) /\ mem' = mem /\ acc' = [acc EXCEPT ![t] = Value(i.reg)]
    BY <1>10 DEF Loads
  <2>2. DOMAIN acc' = Tasks /\ acc'[t] = Value(i.reg)
    BY <2>1
  <2> QED BY <1>9, <2>1, <2>2 DEF Continues
<1>11. CASE Stores(t, w, i)
  <2>1. i.op = "store" /\ Proceeds(t, w) /\ mem' = Written(i.reg, Over(i.new, acc[t]))
        /\ acc' = [acc EXCEPT ![t] = << >>]
    BY <1>11 DEF Stores
  <2> QED BY <1>9, <2>1 DEF Continues
<1>12. CASE Writes(t, w, i)
  <2>1. i.op = "write" /\ Proceeds(t, w) /\ acc' = acc
    BY <1>12 DEF Writes
  <2> QED BY <1>9, <2>1 DEF Continues
<1>13. CASE Awaits(t, w, i)
  <2>1. i.op \in {"await", "poll"} /\ Proceeds(t, w) /\ acc' = acc
    BY <1>13 DEF Awaits
  <2> QED BY <1>9, <2>1 DEF Continues
<1>14. CASE Updates(t, w, i)
  <2> DEFINE v == [w EXCEPT !.todo = Tail(@)]
  <2>1. i.op = "load" /\ mem' = Written(i.reg, Over(w.todo[2].new, Value(i.reg))) /\ acc' = acc
        /\ GoesOn(t, v, << >>, << >>)
    BY <1>14 DEF Updates, Proceeds
  <2>2. DOMAIN v = {"call", "todo", "buf"} /\ v.call = w.call /\ v.todo = Tail(w.todo)
    BY <1>4
  <2> HIDE DEF v
  <2>3. at'[t].call = w.call /\ at'[t].todo = << >> \o Tail(Tail(w.todo)) /\ live' = live
    BY <1>6, <2>1, <2>2
  <2>4. \A C : w.todo \in Seq(C) => Tail(Tail(w.todo)) \in Seq(C)
    BY <1>5, <1>7, <2>1
  <2>5. << >> \o Tail(Tail(w.todo)) = Tail(Tail(w.todo))
    BY <1>4, <2>4
  <2> QED BY <2>1, <2>3, <2>4, <2>5 DEF Continues, StaysIn
<1>15. CASE Reads(t, w, i)
  <2>1. i.op = "read" /\ GoesOn(t, w, << >>, << Field(i.reg, i.field) >>) /\ acc' = acc
    BY <1>15 DEF Reads
  <2>2. at'[t].call = w.call /\ at'[t].todo = Tail(w.todo) /\ live' = live
    BY <1>4, <1>6, <1>8, <2>1
  <2> QED BY <1>7, <2>1, <2>2 DEF Continues, StaysIn
<1>16. CASE TimesOut(t, w, i)
  <2> DEFINE x == [w EXCEPT !.todo = << >>]
  <2>1. i.op = "poll" /\ at' = [at EXCEPT ![t] = x] /\ live' = live /\ acc' = acc
    BY <1>16 DEF TimesOut
  <2>2. x.call = w.call /\ x.todo = << >>
    BY <1>4
  <2> HIDE DEF x
  <2>3. at'[t].call = w.call /\ at'[t].todo = << >>
    BY <1>1, <2>1, <2>2
  <2>4. \A C : << >> \in Seq(C)
    OBVIOUS
  <2>5. \A C : StaysIn(t, w, C)
    BY <2>3, <2>4 DEF StaysIn
  <2> QED BY <2>1, <2>3, <2>5 DEF Continues
<1>17. CASE Creates(t, w, i)
  <2> DEFINE x == [w EXCEPT !.todo = Tail(@)]
  <2>1. i.op = "create" /\ at' = [at EXCEPT ![t] = x] /\ acc' = acc
    BY <1>17 DEF Creates
  <2>2. x.call = w.call /\ x.todo = Tail(w.todo)
    BY <1>4
  <2> HIDE DEF x
  <2>3. at'[t].call = w.call /\ at'[t].todo = Tail(w.todo)
    BY <1>1, <2>1, <2>2
  <2> QED BY <1>7, <2>1, <2>3 DEF Continues, StaysIn
<1>18. CASE Branches(t, w, i)
  <2> DEFINE more == IF Holds(i) THEN i.then ELSE i.else
  <2>1. i.op = "if" /\ GoesOn(t, w, more, << >>) /\ acc' = acc
    BY <1>18 DEF Branches
  <2>2. more = i.then \/ more = i.else
    OBVIOUS
  <2> HIDE DEF more
  <2>3. at'[t].call = w.call /\ at'[t].todo = more \o Tail(w.todo) /\ live' = live
    BY <1>4, <1>6, <2>1
  <2>4. ASSUME NEW C, w.todo \in Seq(C), \A k \in C : k.op = "if" => k.then \in Seq(C) /\ k.else \in Seq(C)
        PROVE  more \o Tail(w.todo) \in Seq(C)
    <3>1. more \in Seq(C) /\ Tail(w.todo) \in Seq(C)
      BY <1>7, <2>1, <2>2, <2>4
    <3> QED BY <3>1
  <2> QED BY <2>1, <2>3, <2>4 DEF Continues, StaysIn
<1> QED BY <1>2, <1>10, <1>11, <1>12, <1>13, <1>14, <1>15, <1>16, <1>17, <1>18

\* An access to other registers than one of those leaves it alone.
LEMMA EffectAway ==
  ASSUME NEW t, NEW i, Effect(t, i), NEW q, q[1] \in Deciding, i.op # "create" => i.reg # q
  PROVE  ValueIn(mem', q) = ValueIn(mem, q)
<1>1. CASE mem' = mem
  BY <1>1
<1>2. ASSUME i.op = "write", mem' = Written(i.reg, i.new)
      PROVE  ValueIn(mem', q) = ValueIn(mem, q)
  BY <1>2, WrittenDeciding
<1>3. ASSUME i.op \in {"load", "store"}, Overwrites(t, i)
      PROVE  ValueIn(mem', q) = ValueIn(mem, q)
  <2>1. PICK v : mem' = Written(i.reg, v)
    BY <1>3 DEF Overwrites
  <2> QED BY <1>3, <2>1, WrittenDeciding
<1>4. ASSUME mem' = Written(US("RBUFSR"), [RDV |-> 0])
      PROVE  ValueIn(mem', q) = ValueIn(mem, q)
  <2>1. US("RBUFSR")[1] \notin Deciding
    BY DEF US, Deciding
  <2>2. US("RBUFSR") # q
    BY <2>1
  <2> QED BY <1>4, <2>2, WrittenDeciding
<1> QED BY <1>1, <1>2, <1>3, <1>4 DEF Effect

\* What a node has been told.
Offline(m, n)    == HasField(ValueIn(m, NCR(n)), "INIT", 1)
Changeable(m, n) == HasField(ValueIn(m, NCR(n)), "CCE", 1)
Listens(m, n)    == HasField(ValueIn(m, NPCR(n)), "RXSEL", Rx(n))
Timed(m, n)      == ValueIn(m, NBTR(n)) = ItsTiming

\* What holds of the registers m and the loaded value a before access i of those of Settles.
Facts(m, a, n, i) ==
  /\ Offline(m, n)
  /\ i \in {2, 10, 12, 14, 17, 19} => HasField(a, "INIT", 1)
  /\ i \in 3..8 \cup {15} => Changeable(m, n)
  /\ i >= 9 => Listens(m, n)
  /\ i >= 16 => Timed(m, n)

LEMMA FactsLoaded ==
  ASSUME NEW n, NEW i \in {1, 3, 5, 7, 9, 11, 13, 16, 18}, NEW m, NEW a, NEW b, Facts(m, a, n, i),
         i \in {1, 9, 11, 13, 16, 18} => b = ValueIn(m, NCR(n))
  PROVE  Facts(m, b, n, i + 1)
<1>1. i + 1 \in {2, 10, 12, 14, 17, 19} => HasField(b, "INIT", 1)
  BY DEF Facts, Offline
<1>2. /\ i + 1 \in 3..8 \cup {15} => i \in 3..8 \cup {15}
      /\ i + 1 >= 9 => i >= 9
      /\ i + 1 >= 16 => i >= 16
  OBVIOUS
<1> QED BY <1>1, <1>2 DEF Facts

LEMMA OverHas == \A f, g, x, v : (HasField(f, x, v) => HasField(Over(f, g), x, v))
                                 /\ (x \notin DOMAIN f /\ HasField(g, x, v) => HasField(Over(f, g), x, v))
BY DEF HasField, Over

LEMMA NodeStored ==
  ASSUME NEW n, NEW i \in {2, 10, 12, 14, 17, 19}, NEW a, NEW b, Facts(mem, a, n, i),
         NEW m, m = Written(NCR(n), Over([CCE |-> IF i \in {2, 12, 14} THEN 1 ELSE 0], a))
  PROVE  Facts(m, b, n, i + 1)
<1> DEFINE new == [CCE |-> IF i \in {2, 12, 14} THEN 1 ELSE 0]
<1>1. PICK v : v = Over(new, a)
  OBVIOUS
<1>2. HasField(v, "INIT", 1) /\ (i \in {2, 12, 14} => HasField(v, "CCE", 1))
  <2>1. "INIT" \notin DOMAIN new /\ (i \in {2, 12, 14} => HasField(new, "CCE", 1))
    BY DEF HasField
  <2>2. HasField(a, "INIT", 1)
    BY DEF Facts
  <2> HIDE DEF new
  <2> QED BY <1>1, <2>1, <2>2, OverHas
<1>3. m = Put(NCR(n), v, mem)
  BY <1>1, WrittenDeciding, DecidingRegisters
<1>4. ValueIn(m, NCR(n)) = v /\ ValueIn(m, NBTR(n)) = ValueIn(mem, NBTR(n)) /\ ValueIn(m, NPCR(n)) = ValueIn(mem, NPCR(n))
  BY <1>3, ValuePut, DecidingRegisters
<1>5. Offline(m, n) /\ (i \in {2, 12, 14} => Changeable(m, n))
  BY <1>2, <1>4 DEF Offline, Changeable
<1>6. (Listens(mem, n) => Listens(m, n)) /\ (Timed(mem, n) => Timed(m, n))
  BY <1>4 DEF Listens, Timed
<1>7. /\ i + 1 \notin {2, 10, 12, 14, 17, 19}
      /\ i + 1 \in 3..8 \cup {15} => i \in {2, 12, 14}
      /\ i + 1 >= 9 => i >= 9
      /\ i + 1 >= 16 => i >= 16
  OBVIOUS
<1> QED BY <1>5, <1>6, <1>7 DEF Facts

LEMMA PinsStored ==
  ASSUME NEW n, NEW i \in {4, 6, 8}, NEW a, NEW b, NEW c, Facts(mem, a, n, i), NEW v,
         NEW m, m = Written(NPCR(n), v), i = 8 => HasField(v, "RXSEL", Rx(n))
  PROVE  Facts(m, b, n, i + 1)
<1>1. Is(NCR(n), "CCE", 1)
  BY FieldOfNode DEF Facts, Changeable
<1>2. m = Put(NPCR(n), v, mem)
  BY <1>1, WrittenDeciding, DecidingRegisters
<1>3. ValueIn(m, NPCR(n)) = v /\ ValueIn(m, NCR(n)) = ValueIn(mem, NCR(n))
  BY <1>2, ValuePut, DecidingRegisters
<1>4. Offline(m, n) /\ Changeable(m, n) /\ (i = 8 => Listens(m, n))
  BY <1>3 DEF Facts, Offline, Changeable, Listens
<1>5. i + 1 \notin {2, 10, 12, 14, 17, 19} /\ (i + 1 >= 9 => i = 8) /\ ~(i + 1 >= 16)
  OBVIOUS
<1> QED BY <1>4, <1>5 DEF Facts

LEMMA TimingWritten ==
  ASSUME NEW n, NEW a, NEW b, Facts(mem, a, n, 15), NEW m, m = Written(NBTR(n), ItsTiming)
  PROVE  Facts(m, b, n, 16)
<1>1. Is(NCR(n), "CCE", 1)
  BY FieldOfNode DEF Facts, Changeable
<1>2. PICK v : v = ItsTiming
  OBVIOUS
<1>3. m = Put(NBTR(n), v, mem)
  BY <1>1, <1>2, WrittenDeciding, DecidingRegisters
<1>4. ValueIn(m, NBTR(n)) = v /\ ValueIn(m, NCR(n)) = ValueIn(mem, NCR(n)) /\ ValueIn(m, NPCR(n)) = ValueIn(mem, NPCR(n))
  BY <1>3, ValuePut, DecidingRegisters
<1> QED BY <1>2, <1>4 DEF Facts, Offline, Listens, Timed

LEMMA FactsElsewhere ==
  ASSUME NEW n, NEW k \in Nat, NEW j \in 1..k, NEW l \in {j + 1, j + 2}, l <= k + 1, NEW a, NEW b,
         Facts(mem, a, n, j - k), NEW m, ValueIn(m, NCR(n)) = ValueIn(mem, NCR(n))
  PROVE  Facts(m, b, n, l - k)
<1>1. Offline(m, n)
  BY DEF Facts, Offline
<1>2. l - k \notin {2, 10, 12, 14, 17, 19} /\ l - k \notin 3..8 \cup {15} /\ ~(l - k >= 9) /\ ~(l - k >= 16)
  OBVIOUS
<1> QED BY <1>1, <1>2 DEF Facts

\* Nobody has to do with the node.
Unused(n) == \A t \in Tasks : \A i \in TaskCode(app, t) : i.op # "create" => i.reg # NCR(n)

\* The first call of the main task initialises the node, and no other call configures it.
Initialises(n) ==
  /\ "main" \in Tasks /\ 1 \in 1..Len(Plan.calls["main"]) /\ Plan.calls["main"][1].does = Inits(n)
  /\ Plan.from["main"] # 1
  /\ \A t \in Tasks : \A k \in 1..Len(Plan.calls[t]) : t # "main" \/ k # 1 =>
       \A i \in CallCode(Plan.calls[t][k]) : i.op # "create" => i.reg \notin {NBTR(n), NPCR(n)}

\* The main task is alone, and initialises the node.
Setting(n) ==
  /\ live = {"main"}
  /\ \E j \in 1..Len(Inits(n)) :
       /\ \/ at["main"].call = 0 /\ j = 1
          \/ at["main"].call = 1 /\ at["main"].todo = From(Inits(n), j)
       /\ Facts(mem, acc["main"], n, j - (Len(Inits(n)) - 19))

\* It has done so, and is at work on its other calls.
IsSet(n) ==
  /\ Listens(mem, n) /\ Timed(mem, n)
  /\ \/ at["main"].call = 1 /\ at["main"].todo = << >>
     \/ /\ at["main"].call \in 2..Len(Plan.calls["main"])
        /\ at["main"].todo \in Seq(CallCode(Plan.calls["main"][at["main"].call]))

BusInv ==
  /\ Activities /\ DOMAIN acc = Tasks
  /\ \A n \in Nodes : \/ Unused(n) /\ Offline(mem, n)
                      \/ Initialises(n) /\ (Setting(n) \/ IsSet(n))

\* Where the main task is after an access of the function, and what holds there.
Lands(n, p, k, l) ==
  /\ at'["main"].call = 1 /\ at'["main"].todo = From(p, l) /\ l \in 1..k + 20
  /\ Facts(mem', acc'["main"], n, l - k)

LEMMA Landed ==
  ASSUME NEW n, NEW p, p = Inits(n), IsSeq(p), NEW k \in Nat, Len(p) = k + 19, NEW l, Lands(n, p, k, l), live' = {"main"}
  PROVE  Setting(n)' \/ IsSet(n)'
<1>1. CASE l \in 1..k + 19
  <2>1. l \in 1..Len(Inits(n)) /\ Len(Inits(n)) - 19 = k
    BY <1>1
  <2>2. at'["main"].call = 1 /\ at'["main"].todo = From(Inits(n), l) /\ Facts(mem', acc'["main"], n, l - k)
    BY DEF Lands
  <2>3. Setting(n)'
    BY <2>1, <2>2 DEF Setting
  <2> QED BY <2>3
<1>2. CASE l = k + 20
  <2>1. From(p, k + 20) = << >>
    <3>1. k + 20 = Len(p) + 1
      OBVIOUS
    <3> QED BY <3>1, FromEnd
  <2>2. l - k = 20
    BY <1>2
  <2>3. Listens(mem', n) /\ Timed(mem', n) /\ at'["main"].call = 1 /\ at'["main"].todo = << >>
    BY <1>2, <2>1, <2>2 DEF Lands, Facts
  <2>4. IsSet(n)'
    BY <2>3 DEF IsSet
  <2> QED BY <2>4
<1> QED BY <1>1, <1>2 DEF Lands

\* One step of the main task through the function.
Moves(p, j, i, w) ==
  /\ w.todo = From(p, j) /\ w.todo # << >> /\ i = p[j] /\ Tail(w.todo) = From(p, j + 1)
  /\ j + 1 \in 1..Len(p) => w.todo[2] = p[j + 1] /\ Tail(Tail(w.todo)) = From(p, j + 2)

LEMMA MovesOn ==
  ASSUME NEW p, IsSeq(p), NEW j \in 1..Len(p), NEW w, w.todo = From(p, j), NEW i, i = Head(w.todo)
  PROVE  Moves(p, j, i, w)
<1>1. PICK s : s = w.todo
  OBVIOUS
<1>2. s # << >> /\ Head(s) = p[j] /\ Tail(s) = From(p, j + 1) /\ (j + 1 \in 1..Len(p) => s[2] = p[j + 1])
  BY <1>1, FromHere
<1>3. ASSUME j + 1 \in 1..Len(p) PROVE Tail(Tail(s)) = From(p, j + 2)
  <2>1. PICK r : r = From(p, j + 1)
    OBVIOUS
  <2>2. Tail(r) = From(p, (j + 1) + 1)
    BY <1>3, <2>1, FromHere
  <2>3. (j + 1) + 1 = j + 2
    OBVIOUS
  <2> QED BY <1>2, <2>1, <2>2, <2>3
<1> QED BY <1>1, <1>2, <1>3 DEF Moves

\* In the part that leaves the nodes alone.
LEMMA MovesAway ==
  ASSUME NEW n, NEW p, NEW k \in Nat, Len(p) = k + 19, NEW j \in 1..k, NEW i, NEW w, Moves(p, j, i, w), Away(i),
         Settles(p, k, n), Facts(mem, acc["main"], n, j - k), NEW t, Effect(t, i), Continues("main", w, i), w.call = 1,
         i.op = "load" => w.todo[2].op = "store"
  PROVE  \E l : Lands(n, p, k, l)
<1>1. i.op \in {"load", "store", "write", "read", "await"} /\ i.reg[1] \notin Deciding
  BY DEF Away
<1>2. NCR(n)[1] \in Deciding /\ i.reg # NCR(n)
  BY <1>1, DecidingRegisters DEF Deciding
<1>3. PICK q : q = NCR(n)
  OBVIOUS
<1>4. ValueIn(mem', NCR(n)) = ValueIn(mem, NCR(n))
  BY <1>2, <1>3, EffectAway
<1>5. at'["main"].call = 1
  BY DEF Continues
<1>6. CASE at'["main"].todo = From(p, j + 1)
  <2>1. Facts(mem', acc'["main"], n, (j + 1) - k)
    <3>1. PICK l : l = j + 1
      OBVIOUS
    <3>2. l \in {j + 1, j + 2} /\ l <= k + 1
      BY <3>1
    <3> QED BY <1>4, <3>1, <3>2, FactsElsewhere
  <2>2. j + 1 \in 1..k + 20
    OBVIOUS
  <2> QED BY <1>5, <1>6, <2>1, <2>2 DEF Lands
<1>7. CASE at'["main"].todo # From(p, j + 1)
  <2>1. i.op = "load" /\ at'["main"].todo = Tail(Tail(w.todo))
    BY <1>1, <1>7 DEF Continues, Moves
  <2>2. j + 1 \in 1..Len(p)
    OBVIOUS
  <2>3. at'["main"].todo = From(p, j + 2) /\ p[j + 1].op = "store"
    BY <2>1, <2>2 DEF Moves
  <2>4. j # k
    <3>1. p[k + 1].op = "load"
      BY DEF Settles, LoadsNode
    <3> QED BY <2>3, <3>1
  <2>5. Facts(mem', acc'["main"], n, (j + 2) - k)
    <3>1. PICK l : l = j + 2
      OBVIOUS
    <3>2. l \in {j + 1, j + 2} /\ l <= k + 1
      BY <2>4, <3>1
    <3> QED BY <1>4, <3>1, <3>2, FactsElsewhere
  <2>6. j + 2 \in 1..k + 20
    OBVIOUS
  <2> QED BY <1>5, <2>3, <2>5, <2>6 DEF Lands
<1> QED BY <1>6, <1>7

\* A store among the accesses to the node's registers, whoever loaded the value.
LEMMA StoreSettles ==
  ASSUME NEW n, NEW p, NEW k \in Nat, Settles(p, k, n), NEW f \in {2, 4, 6, 8, 10, 12, 14, 17, 19},
         NEW a, NEW b, Facts(mem, a, n, f), NEW m, m = Written(p[k + f].reg, Over(p[k + f].new, a))
  PROVE  Facts(m, b, n, f + 1)
<1>1. CASE f \in {2, 12, 14}
  <2>1. p[k + f] = StoresCce(n, 1)
    BY <1>1 DEF Settles
  <2>2. m = Written(NCR(n), Over([CCE |-> 1], a))
    BY <2>1 DEF StoresCce
  <2> QED BY <1>1, <2>2, NodeStored
<1>2. CASE f \in {10, 17, 19}
  <2>1. p[k + f] = StoresCce(n, 0)
    BY <1>2 DEF Settles
  <2>2. m = Written(NCR(n), Over([CCE |-> 0], a))
    BY <2>1 DEF StoresCce
  <2> QED BY <1>2, <2>2, NodeStored
<1>3. CASE f \in {4, 6, 8}
  <2>1. PICK new : p[k + f] = StoresPins(n, new) /\ (f = 8 => new = [RXSEL |-> Rx(n)])
    BY <1>3 DEF Settles
  <2>2. PICK v : v = Over(new, a)
    OBVIOUS
  <2>3. m = Written(NPCR(n), v)
    BY <2>1, <2>2 DEF StoresPins
  <2>4. f = 8 => HasField(v, "RXSEL", Rx(n))
    <3>1. f = 8 => HasField(new, "RXSEL", Rx(n))
      BY <2>1 DEF HasField
    <3> QED BY <2>2, <3>1, OverHas
  <2> QED BY <1>3, <2>3, <2>4, PinsStored
<1> QED BY <1>1, <1>2, <1>3

\* Among those accesses.
LEMMA MovesAt ==
  ASSUME NEW n, NEW p, NEW k \in Nat, Len(p) = k + 19, NEW f \in 1..19, NEW i, NEW w, Moves(p, k + f, i, w),
         Settles(p, k, n), Facts(mem, acc["main"], n, f), NEW t, Effect(t, i), Continues("main", w, i), w.call = 1
  PROVE  i.op # "create" /\ \E l : Lands(n, p, k, l)
<1>1. i = p[k + f] /\ Tail(w.todo) = From(p, k + (f + 1)) /\ at'["main"].call = 1
  <2>1. (k + f) + 1 = k + (f + 1)
    OBVIOUS
  <2> QED BY <2>1 DEF Moves, Continues
<1>2. ASSUME at'["main"].todo = From(p, k + (f + 1)), Facts(mem', acc'["main"], n, f + 1)
      PROVE  \E l : Lands(n, p, k, l)
  <2>1. k + (f + 1) \in 1..k + 20 /\ (k + (f + 1)) - k = f + 1
    OBVIOUS
  <2> QED BY <1>1, <1>2, <2>1 DEF Lands
<1>3. CASE f \in {2, 4, 6, 8, 10, 12, 14, 17, 19}
  <2>1. i.op = "store"
    <3>1. f \in {2, 12, 14} => i = StoresCce(n, 1)
      BY <1>1 DEF Settles
    <3>2. f \in {10, 17, 19} => i = StoresCce(n, 0)
      BY <1>1 DEF Settles
    <3>3. f \in {4, 6, 8} => \E v : i = StoresPins(n, v)
      BY <1>1 DEF Settles
    <3> QED BY <1>3, <3>1, <3>2, <3>3 DEF StoresCce, StoresPins
  <2>2. mem' = Written(i.reg, Over(i.new, acc["main"])) /\ at'["main"].todo = Tail(w.todo)
    BY <2>1 DEF Continues
  <2>3. Facts(mem', acc'["main"], n, f + 1)
    BY <1>1, <1>3, <2>2, StoreSettles
  <2> QED BY <1>1, <1>2, <2>1, <2>2, <2>3
<1>4. CASE f = 15
  <2>1. i = WritesTiming(n)
    BY <1>1, <1>4 DEF Settles
  <2>2. i.op = "write" /\ i.reg = NBTR(n) /\ i.new = ItsTiming
    BY <2>1 DEF WritesTiming
  <2>3. mem' = Written(NBTR(n), ItsTiming) /\ at'["main"].todo = Tail(w.todo)
    BY <2>2 DEF Effect, Continues
  <2>4. Facts(mem', acc'["main"], n, f + 1)
    BY <1>4, <2>3, TimingWritten
  <2> QED BY <1>1, <1>2, <2>2, <2>3, <2>4
<1>5. CASE f \in {1, 3, 5, 7, 9, 11, 13, 16, 18}
  <2>1. i.op = "load" /\ (f \in {1, 9, 11, 13, 16, 18} => i.reg = NCR(n))
    <3>1. f \in {1, 9, 11, 13, 16, 18} => i = LoadsNode(n)
      BY <1>1 DEF Settles
    <3>2. f \in {3, 5, 7} => i = LoadsPins(n)
      BY <1>1 DEF Settles
    <3>3. i.op = "load"
      BY <1>5, <3>1, <3>2 DEF LoadsNode, LoadsPins
    <3>4. f \in {1, 9, 11, 13, 16, 18} => i.reg = NCR(n)
      BY <3>1 DEF LoadsNode
    <3> QED BY <3>3, <3>4
  <2>2. f \in {1, 9, 11, 13, 16, 18} => Value(i.reg) = ValueIn(mem, NCR(n))
    BY <2>1 DEF Value, ValueIn
  <2>3. PICK v : v = Value(i.reg)
    OBVIOUS
  <2>4. Facts(mem, v, n, f + 1)
    BY <1>5, <2>2, <2>3, FactsLoaded
  <2>5. CASE mem' = mem /\ acc'["main"] = Value(i.reg) /\ at'["main"].todo = Tail(w.todo)
    BY <1>1, <1>2, <2>1, <2>3, <2>4, <2>5
  <2>6. CASE mem' = Written(i.reg, Over(w.todo[2].new, Value(i.reg))) /\ at'["main"].todo = Tail(Tail(w.todo))
    <3>1. PICK g : g = f + 1
      OBVIOUS
    <3>2. g \in {2, 4, 6, 8, 10, 12, 14, 17, 19} /\ (k + f) + 1 \in 1..Len(p) /\ (k + f) + 1 = k + g
          /\ (k + f) + 2 = k + (g + 1)
      BY <1>5, <3>1
    <3>3. w.todo[2] = p[k + g] /\ Tail(Tail(w.todo)) = From(p, k + (g + 1))
      BY <3>2 DEF Moves
    <3>4. p[k + g].reg = i.reg
      <4>1. CASE f \in {1, 9, 11, 13, 16, 18}
        <5>1. g \in {2, 10, 12, 14, 17, 19}
          BY <3>1, <4>1
        <5>2. p[k + g] = StoresCce(n, 0) \/ p[k + g] = StoresCce(n, 1)
          BY <5>1 DEF Settles
        <5> QED BY <2>1, <4>1, <5>2 DEF StoresCce
      <4>2. CASE f \in {3, 5, 7}
        <5>1. g \in {4, 6, 8}
          BY <3>1, <4>2
        <5>2. \E new : p[k + g] = StoresPins(n, new)
          BY <5>1 DEF Settles
        <5>3. i = LoadsPins(n)
          BY <1>1, <4>2 DEF Settles
        <5> QED BY <5>2, <5>3 DEF StoresPins, LoadsPins
      <4> QED BY <1>5, <4>1, <4>2
    <3>5. mem' = Written(p[k + g].reg, Over(p[k + g].new, v))
      BY <2>3, <2>6, <3>3, <3>4
    <3>6. Facts(mem', acc'["main"], n, g + 1)
      BY <2>4, <3>1, <3>2, <3>5, StoreSettles
    <3>7. k + (g + 1) \in 1..k + 20 /\ (k + (g + 1)) - k = g + 1
      BY <3>2
    <3>8. Lands(n, p, k, k + (g + 1))
      BY <1>1, <2>6, <3>3, <3>6, <3>7 DEF Lands
    <3> QED BY <2>1, <3>8
  <2> QED BY <2>1, <2>5, <2>6 DEF Continues
<1> QED BY <1>3, <1>4, <1>5

\* What the main task does when it has nothing left of its first call to do.
LEMMA GoesOnBehind ==
  ASSUME Activities, NEW n, Initialises(n), IsSet(n), NEW w, IsAt("main", w)
  PROVE  /\ w.call \in 2..Len(Plan.calls["main"])
         /\ w.todo \in Seq(CallCode(Plan.calls["main"][w.call]))
         /\ \A i \in CallCode(Plan.calls["main"][w.call]) : i.op = "if" =>
              /\ i.then \in Seq(CallCode(Plan.calls["main"][w.call]))
              /\ i.else \in Seq(CallCode(Plan.calls["main"][w.call]))
<1>1. PICK calls : calls = Plan.calls["main"]
  OBVIOUS
<1>2. "main" \in Tasks /\ Plan.from["main"] # 1
  BY DEF Initialises
<1>3. Len(calls) \in Nat /\ \A k \in 1..Len(calls) : IsProgram(calls[k].does)
  <2>1. app \in DOMAIN Applications /\ "main" \in DOMAIN Applications[app].calls /\ calls = Applications[app].calls["main"]
    BY <1>1, <1>2 DEF Activities, Tasks, Plan
  <2> QED BY <2>1, CodeOfTask
<1>4. w.call \in 1..Len(calls)
  BY <1>1 DEF IsAt
<1>5. PICK p : p = calls[w.call].does
  OBVIOUS
<1>6. p \in Seq(Code(p)) /\ \A i \in Code(p) : i.op = "if" => i.then \in Seq(Code(p)) /\ i.else \in Seq(Code(p))
  BY <1>3, <1>4, <1>5, CodeClosed
<1>7. CallCode(calls[w.call]) = Code(p)
  BY <1>5 DEF CallCode
<1>8. CASE at["main"].todo # << >> /\ w.call = at["main"].call /\ w.todo = at["main"].todo
  <2>1. w.call \in 2..Len(calls) /\ w.todo \in Seq(CallCode(calls[w.call]))
    BY <1>1, <1>8 DEF IsSet
  <2> QED BY <1>1, <1>6, <1>7, <2>1
<1>9. CASE at["main"].todo = << >> /\ w.call = Following("main") /\ w.todo = calls[w.call].does
  <2>1. at["main"].call \in 1..Len(calls)
    BY <1>1, <1>2, <1>3 DEF IsSet, Activities
  <2>2. w.call # 1
    <3>1. w.call = at["main"].call + 1 \/ w.call = Plan.from["main"]
      BY <1>9 DEF Following
    <3> QED BY <1>2, <1>3, <2>1, <3>1
  <2>3. w.call \in 2..Len(calls)
    BY <1>3, <1>4, <2>2
  <2> QED BY <1>1, <1>5, <1>6, <1>7, <1>9, <2>3
<1> QED BY <1>1, <1>8, <1>9 DEF IsAt

LEMMA SetStepped ==
  ASSUME Activities, DOMAIN acc = Tasks, NEW n, Initialises(n), IsSet(n), NEW t \in Tasks, Step(t)
  PROVE  IsSet(n)'
<1>1. PICK w, i, x : IsAt(t, w) /\ Executed(t, w, i, x) /\ w = Goes(t)
  BY Executes
<1>2. Plan' = Plan /\ at'[t] = x /\ \A u \in Tasks \ {t} : at'[u] = at[u]
  BY <1>1, ActivitiesStepped
<1>3. i = Head(w.todo) /\ i \in TaskCode(app, t) /\ Effect(t, i) /\ w.todo # << >>
  BY <1>1 DEF Executed, IsAt
<1>4. "main" \in Tasks
  BY DEF Initialises
<1>5. Continues(t, w, i) /\ \A C : StaysIn(t, w, C)
  BY <1>1, <1>3, StepContinues
<1>6. ASSUME i.op # "create" => i.reg \notin {NBTR(n), NPCR(n)}
      PROVE  Listens(mem', n) /\ Timed(mem', n)
  <2>1. PICK q, r : q = NBTR(n) /\ r = NPCR(n)
    OBVIOUS
  <2>2. q[1] \in Deciding /\ r[1] \in Deciding
    BY <2>1, DecidingRegisters DEF Deciding
  <2>3. ValueIn(mem', q) = ValueIn(mem, q) /\ ValueIn(mem', r) = ValueIn(mem, r)
    BY <1>3, <1>6, <2>1, <2>2, EffectAway
  <2> QED BY <2>1, <2>3 DEF IsSet, Listens, Timed
<1>7. CASE t = "main"
  <2>1. PICK C : C = CallCode(Plan.calls["main"][w.call])
    OBVIOUS
  <2>2. /\ w.call \in 2..Len(Plan.calls["main"]) /\ w.todo \in Seq(C)
        /\ \A k \in C : k.op = "if" => k.then \in Seq(C) /\ k.else \in Seq(C)
    BY <1>1, <1>7, <2>1, GoesOnBehind
  <2>3. at'["main"].call = w.call /\ at'["main"].todo \in Seq(C)
    BY <1>5, <1>7, <2>2 DEF Continues, StaysIn
  <2>4. i \in C
    BY <1>3, <2>2
  <2>5. w.call \in 1..Len(Plan.calls["main"]) /\ w.call # 1
    BY <1>1, <1>7, <2>2 DEF IsAt
  <2>6. Listens(mem', n) /\ Timed(mem', n)
    BY <1>4, <1>6, <2>1, <2>4, <2>5 DEF Initialises
  <2> QED BY <1>2, <2>1, <2>2, <2>3, <2>6 DEF IsSet
<1>8. CASE t # "main"
  <2>1. PICK calls : calls = Plan.calls[t]
    OBVIOUS
  <2>2. PICK k \in DOMAIN calls : i \in CallCode(calls[k])
    BY <1>3, <2>1 DEF TaskCode, Plan
  <2>3. DOMAIN calls = 1..Len(calls)
    <3>1. app \in DOMAIN Applications /\ t \in DOMAIN Applications[app].calls /\ calls = Applications[app].calls[t]
      BY <2>1 DEF Activities, Tasks, Plan
    <3> QED BY <3>1, CodeOfTask
  <2>4. Listens(mem', n) /\ Timed(mem', n)
    BY <1>6, <1>8, <2>1, <2>2, <2>3 DEF Initialises
  <2>5. at'["main"] = at["main"]
    BY <1>2, <1>4, <1>8
  <2> QED BY <1>2, <2>4, <2>5 DEF IsSet
<1> QED BY <1>7, <1>8

LEMMA SettingStepped ==
  ASSUME Activities, DOMAIN acc = Tasks, NEW n \in Nodes, Initialises(n), Setting(n), NEW t \in Tasks, Step(t)
  PROVE  Setting(n)' \/ IsSet(n)'
<1>1. t = "main" /\ live = {"main"} /\ "main" \in Tasks
  BY DEF Step, Setting, Initialises
<1>2. PICK w, i, x : IsAt(t, w) /\ Executed(t, w, i, x) /\ w = Goes(t)
  BY Executes
<1>3. i = Head(w.todo) /\ Effect(t, i) /\ w.todo # << >> /\ Paired(w.todo) /\ w.todo \in Seq(TaskCode(app, t))
  BY <1>2 DEF Executed, IsAt
<1>4. Continues("main", w, i)
  BY <1>1, <1>2, <1>3, StepContinues
<1>5. i.op = "load" => w.todo[2].op = "store"
  BY <1>3, PairedParts
<1>6. PICK p : p = Inits(n)
  OBVIOUS
<1>7. PICK k \in Nat : k = Len(p) - 19
  BY <1>6, InitsOf
<1>8. IsSeq(p) /\ Len(p) = k + 19 /\ (\A j \in 1..k : Away(p[j])) /\ Settles(p, k, n)
  <2>1. IsSeq(p) /\ (\A j \in 1..Len(p) - 19 : Away(p[j])) /\ Settles(p, Len(p) - 19, n)
    BY <1>6, InitsOf
  <2>2. Len(p) \in Nat
    BY <2>1 DEF IsSeq
  <2> QED BY <1>7, <2>1, <2>2
<1>9. PICK j \in 1..Len(p) : /\ \/ at["main"].call = 0 /\ j = 1
                                \/ at["main"].call = 1 /\ at["main"].todo = From(p, j)
                             /\ Facts(mem, acc["main"], n, j - k)
  BY <1>6, <1>7 DEF Setting
<1>10. w.call = 1 /\ w.todo = From(p, j)
  <2>1. CASE at["main"].call = 0 /\ j = 1
    <3>1. at["main"].todo = << >>
      BY <1>1, <2>1 DEF Activities
    <3>2. Following("main") = 1
      BY <2>1 DEF Following, Initialises
    <3>3. w.call = 1 /\ w.todo = p
      BY <1>1, <1>2, <1>6, <3>1, <3>2 DEF IsAt, Initialises
    <3> QED BY <1>8, <2>1, <3>3, FromEnd
  <2>2. CASE at["main"].call = 1 /\ at["main"].todo = From(p, j)
    <3>1. at["main"].todo # << >>
      BY <1>8, <2>2, FromHere
    <3> QED BY <1>1, <1>2, <2>2, <3>1 DEF IsAt
  <2> QED BY <1>9, <2>1, <2>2
<1>11. Moves(p, j, i, w)
  BY <1>3, <1>8, <1>10, MovesOn
<1>12. i.op # "create" /\ \E l : Lands(n, p, k, l)
  <2>1. CASE j \in 1..k
    <3>1. Away(i)
      BY <1>8, <1>11, <2>1 DEF Moves
    <3>2. \E l : Lands(n, p, k, l)
      BY <1>3, <1>4, <1>5, <1>8, <1>9, <1>10, <1>11, <2>1, <3>1, MovesAway
    <3> QED BY <3>1, <3>2 DEF Away
  <2>2. CASE j \notin 1..k
    <3>1. PICK f \in 1..19 : j = k + f /\ j - k = f
      <4>1. j - k \in 1..19 /\ j = k + (j - k)
        BY <1>8, <2>2
      <4> QED BY <4>1
    <3>2. Moves(p, k + f, i, w) /\ Facts(mem, acc["main"], n, f)
      BY <1>9, <1>11, <3>1
    <3> QED BY <1>3, <1>4, <1>8, <1>10, <3>2, MovesAt
  <2> QED BY <2>1, <2>2
<1>13. live' = {"main"}
  BY <1>1, <1>4, <1>12 DEF Continues
<1> QED BY <1>6, <1>8, <1>12, <1>13, Landed

LEMMA BusStepped ==
  ASSUME BusInv, NEW t \in Tasks, Step(t)
  PROVE  BusInv'
<1>0. Activities /\ DOMAIN acc = Tasks
  BY DEF BusInv
<1>1. PICK w, i, x : IsAt(t, w) /\ Executed(t, w, i, x) /\ w = Goes(t)
  BY <1>0, Executes
<1>2. Activities' /\ Plan' = Plan /\ Tasks' = Tasks
  BY <1>0, <1>1, ActivitiesStepped
<1>3. i = Head(w.todo) /\ i \in TaskCode(app, t) /\ Effect(t, i) /\ app' = app
  BY <1>1 DEF Executed
<1>4. DOMAIN acc' = Tasks'
  BY <1>0, <1>1, <1>2, <1>3, StepContinues
<1>5. ASSUME NEW n \in Nodes, Unused(n), Offline(mem, n)
      PROVE  Unused(n)' /\ Offline(mem', n)
  <2>1. PICK q : q = NCR(n)
    OBVIOUS
  <2>2. q[1] \in Deciding
    BY <2>1, DecidingRegisters DEF Deciding
  <2>3. i.op # "create" => i.reg # q
    BY <1>3, <1>5, <2>1 DEF Unused
  <2>4. ValueIn(mem', q) = ValueIn(mem, q)
    BY <1>3, <2>2, <2>3, EffectAway
  <2>5. Offline(mem', n)
    BY <1>5, <2>1, <2>4 DEF Offline
  <2>6. Unused(n)'
    BY <1>2, <1>3, <1>5 DEF Unused
  <2> QED BY <2>5, <2>6
<1>6. ASSUME NEW n \in Nodes, Initialises(n) PROVE Initialises(n)'
  BY <1>2, <1>6 DEF Initialises
<1>7. ASSUME NEW n \in Nodes, Initialises(n), Setting(n) \/ IsSet(n)
      PROVE  Setting(n)' \/ IsSet(n)'
  BY <1>0, <1>7, SettingStepped, SetStepped
<1>8. ASSUME NEW n \in Nodes
      PROVE  (Unused(n)' /\ Offline(mem', n)) \/ (Initialises(n)' /\ (Setting(n)' \/ IsSet(n)'))
  <2>1. (Unused(n) /\ Offline(mem, n)) \/ (Initialises(n) /\ (Setting(n) \/ IsSet(n)))
    BY DEF BusInv
  <2> QED BY <1>5, <1>6, <1>7, <2>1
<1> QED BY <1>2, <1>4, <1>8 DEF BusInv

LEMMA BusPeripherals ==
  ASSUME BusInv, Peripherals
  PROVE  BusInv'
<1>1. app' = app /\ at' = at /\ acc' = acc /\ live' = live
  BY DEF Peripherals, PanelDone, ByteArrives, Starts, Sent, Fails, Heard, Cpu
<1>2. Plan' = Plan /\ Tasks' = Tasks
  BY <1>1 DEF Plan, Tasks
<1>3. Activities' /\ DOMAIN acc' = Tasks'
  BY <1>1, <1>2 DEF BusInv, Activities
<1>4. \A n : NodeKept(mem', n)
  BY PeripheralsKeepNodes
<1>5. \A n : /\ Offline(mem, n) => Offline(mem', n)
             /\ Changeable(mem, n) => Changeable(mem', n)
             /\ Listens(mem, n) => Listens(mem', n)
             /\ Timed(mem, n) => Timed(mem', n)
  BY <1>4 DEF NodeKept, Offline, Changeable, Listens, Timed
<1>6. \A n, a, i : Facts(mem, a, n, i) => Facts(mem', a, n, i)
  BY <1>5 DEF Facts
<1>7. ASSUME NEW n \in Nodes
      PROVE  /\ Unused(n) => Unused(n)'
             /\ Initialises(n) => Initialises(n)'
             /\ Setting(n) => Setting(n)'
             /\ IsSet(n) => IsSet(n)'
  <2>1. (Unused(n) => Unused(n)') /\ (Initialises(n) => Initialises(n)')
    BY <1>1, <1>2 DEF Unused, Initialises
  <2>2. Setting(n) => Setting(n)'
    BY <1>1, <1>6 DEF Setting
  <2>3. IsSet(n) => IsSet(n)'
    BY <1>1, <1>2, <1>5 DEF IsSet
  <2> QED BY <2>1, <2>2, <2>3
<1>8. ASSUME NEW n \in Nodes
      PROVE  (Unused(n)' /\ Offline(mem', n)) \/ (Initialises(n)' /\ (Setting(n)' \/ IsSet(n)'))
  <2>1. (Unused(n) /\ Offline(mem, n)) \/ (Initialises(n) /\ (Setting(n) \/ IsSet(n)))
    BY DEF BusInv
  <2> QED BY <1>5, <1>7, <2>1
<1> QED BY <1>3, <1>8 DEF BusInv

LEMMA BusInitially == BoardInit => BusInv
<1> SUFFICES ASSUME BoardInit PROVE BusInv
  OBVIOUS
<1>1. Activities
  BY LevelsInitially DEF PinsInv
<1>2. DOMAIN acc = Tasks /\ live = {"main"} /\ app \in DOMAIN Applications /\ mem = << >>
  BY DEF BoardInit
<1>3. \A n : Offline(mem, n)
  <2>1. \A n : NCR(n) \notin DOMAIN mem
    BY <1>2
  <2>2. \A n : Reset(NCR(n)) = [INIT |-> 1, CCE |-> 0]
    <3> SUFFICES ASSUME NEW n PROVE Reset(NCR(n)) = [INIT |-> 1, CCE |-> 0]
      OBVIOUS
    <3>1. PICK r : r = NCR(n)
      OBVIOUS
    <3>2. r[1] = "NCR" /\ r # PASSWD
      BY <3>1, DecidingRegisters DEF PASSWD
    <3>3. Reset(r) = [INIT |-> 1, CCE |-> 0]
      BY <3>2 DEF Reset
    <3> QED BY <3>1, <3>3
  <2> QED BY <2>1, <2>2 DEF Offline, ValueIn, HasField
<1> DEFINE calls == Applications[app].calls
<1>4. Tasks = DOMAIN calls /\ Plan.calls = calls /\ Plan.from = Applications[app].from
  BY DEF Tasks, Plan
<1> DEFINE Touches(t, k, regs) == \E i \in Code(calls[t][k].does) : i.op # "create" /\ i.reg \in regs
<1>5. ASSUME NEW n \in Nodes
      PROVE  \/ \A t \in DOMAIN calls : \A k \in DOMAIN calls[t] : ~Touches(t, k, {NCR(n)})
             \/ /\ "main" \in DOMAIN calls /\ 1 \in DOMAIN calls["main"] /\ calls["main"][1].does = Inits(n)
                /\ Applications[app].from["main"] # 1
                /\ \A t \in DOMAIN calls : \A k \in DOMAIN calls[t] :
                     t # "main" \/ k # 1 => ~Touches(t, k, {NBTR(n), NPCR(n)})
  BY <1>2, BusAssumption
<1>6. ASSUME NEW t \in DOMAIN calls PROVE DOMAIN calls[t] = 1..Len(calls[t])
  <2>1. PICK c : c = Applications[app].calls[t]
    OBVIOUS
  <2> QED BY <1>2, <2>1, CodeOfTask
<1> HIDE DEF calls
<1>7. ASSUME NEW n \in Nodes, \A t \in DOMAIN calls : \A k \in DOMAIN calls[t] : ~Touches(t, k, {NCR(n)})
      PROVE  Unused(n)
  <2>1. ASSUME NEW t \in Tasks, NEW i \in TaskCode(app, t), i.op # "create" PROVE i.reg # NCR(n)
    <3>1. PICK k \in DOMAIN calls[t] : i \in Code(calls[t][k].does)
      BY DEF TaskCode, CallCode, calls
    <3> QED BY <1>4, <1>7, <2>1, <3>1
  <2> QED BY <2>1 DEF Unused
<1>8. ASSUME NEW n \in Nodes, "main" \in DOMAIN calls, 1 \in DOMAIN calls["main"], calls["main"][1].does = Inits(n),
             Applications[app].from["main"] # 1,
             \A t \in DOMAIN calls : \A k \in DOMAIN calls[t] : t # "main" \/ k # 1 => ~Touches(t, k, {NBTR(n), NPCR(n)})
      PROVE  Initialises(n) /\ Setting(n)
  <2>1. Initialises(n)
    BY <1>4, <1>6, <1>8 DEF Initialises, CallCode
  <2>2. at["main"].call = 0
    BY <1>4, <1>8 DEF BoardInit
  <2>3. 1 \in 1..Len(Inits(n)) /\ 1 - (Len(Inits(n)) - 19) <= 1
    <3>1. PICK p : p = Inits(n)
      OBVIOUS
    <3>2. IsSeq(p) /\ Len(p) - 19 \in Nat
      BY <3>1, InitsOf
    <3>3. Len(p) \in Nat
      BY <3>2 DEF IsSeq
    <3> QED BY <3>1, <3>2, <3>3
  <2>4. Facts(mem, acc["main"], n, 1 - (Len(Inits(n)) - 19))
    <3>1. PICK f : f = 1 - (Len(Inits(n)) - 19)
      OBVIOUS
    <3>2. f \in Int /\ f <= 1
      <4>1. Len(Inits(n)) - 19 \in Nat
        BY InitsOf
      <4> QED BY <2>3, <3>1, <4>1
    <3>3. f \notin {2, 10, 12, 14, 17, 19} /\ f \notin 3..8 \cup {15} /\ ~(f >= 9) /\ ~(f >= 16)
      BY <3>2
    <3> QED BY <1>3, <3>1, <3>3 DEF Facts
  <2> QED BY <1>2, <2>1, <2>2, <2>3, <2>4 DEF Setting
<1>9. ASSUME NEW n \in Nodes
      PROVE  (Unused(n) /\ Offline(mem, n)) \/ (Initialises(n) /\ (Setting(n) \/ IsSet(n)))
  BY <1>3, <1>5, <1>7, <1>8
<1> QED BY <1>1, <1>2, <1>9 DEF BusInv

\* A node that takes part in the traffic has the bit timing and the input of its init function,
\* whatever the other tasks and the peripherals do: the function leaves INIT as it is, and nobody
\* clears it before both were written, which they are while CCE is set (can0_set_speed).
THEOREM OnBusAlwaysConfigured == BoardSpec => []OnBusConfigured
<1>1. BusInv /\ [BoardNext]_boardVars => BusInv'
  <2> SUFFICES ASSUME BusInv, [BoardNext]_boardVars PROVE BusInv'
    OBVIOUS
  <2>1. CASE UNCHANGED boardVars
    <3>1. app' = app /\ at' = at /\ mem' = mem /\ live' = live /\ acc' = acc
      BY <2>1 DEF boardVars, Cpu
    <3>2. Plan' = Plan /\ Tasks' = Tasks
      BY <3>1 DEF Plan, Tasks
    <3>3. Activities' /\ DOMAIN acc' = Tasks'
      BY <3>1, <3>2 DEF BusInv, Activities
    <3>4. ASSUME NEW n \in Nodes
          PROVE  /\ Unused(n) => Unused(n)'
                 /\ Initialises(n) => Initialises(n)'
                 /\ Setting(n) => Setting(n)'
                 /\ IsSet(n) => IsSet(n)'
      BY <3>1, <3>2 DEF Unused, Initialises, Setting, IsSet
    <3>5. ASSUME NEW n \in Nodes
          PROVE  (Unused(n)' /\ Offline(mem', n)) \/ (Initialises(n)' /\ (Setting(n)' \/ IsSet(n)'))
      <4>1. (Unused(n) /\ Offline(mem, n)) \/ (Initialises(n) /\ (Setting(n) \/ IsSet(n)))
        BY DEF BusInv
      <4> QED BY <3>1, <3>4, <4>1
    <3> QED BY <3>3, <3>5 DEF BusInv
  <2>2. CASE BoardNext
    BY <2>2, BusStepped, BusPeripherals DEF BoardNext
  <2> QED BY <2>1, <2>2
<1>2. BusInv => OnBusConfigured
  <2> SUFFICES ASSUME BusInv, NEW n \in Nodes, OnBus(n)
               PROVE  Value(NBTR(n)) = ItsTiming /\ Is(NPCR(n), "RXSEL", Rx(n))
    BY DEF OnBusConfigured
  <2>1. ~Offline(mem, n)
    <3>1. ~Is(NCR(n), "INIT", 1)
      BY DEF OnBus, Is
    <3> QED BY <3>1, FieldOfNode DEF Offline
  <2>2. ~Setting(n)
    BY <2>1 DEF Setting, Facts
  <2>3. IsSet(n)
    BY <2>1, <2>2 DEF BusInv
  <2>4. Value(NBTR(n)) = ValueIn(mem, NBTR(n)) /\ Value(NPCR(n)) = ValueIn(mem, NPCR(n))
    BY DEF Value, ValueIn
  <2>5. Value(NBTR(n)) = ItsTiming
    BY <2>3, <2>4 DEF IsSet, Timed
  <2>6. Is(NPCR(n), "RXSEL", Rx(n))
    BY <2>3, <2>4 DEF IsSet, Listens, HasField, Is, Field
  <2> QED BY <2>5, <2>6
<1> QED BY <1>1, <1>2, BusInitially, PTL DEF BoardSpec
-----------------------------------------------------------------------------
(* The messages on their way *)

\* The register has the same value in both, if any.
Agree(p, m, q) == (q \in DOMAIN p <=> q \in DOMAIN m) /\ (q \in DOMAIN m => p[q] = m[q])

LEMMA AgreeingValues == \A p, m, q : Agree(p, m, q) => ValueIn(p, q) = ValueIn(m, q)
BY DEF Agree, ValueIn

LEMMA PutAgrees ==
  ASSUME NEW r, NEW v, NEW m, NEW q, q # r
  PROVE  Agree(Put(r, v, m), m, q)
<1>1. PICK p : p = Put(r, v, m)
  OBVIOUS
<1>2. Holding(p, r, v, m)
  BY <1>1, PutInto
<1> QED BY <1>1, <1>2 DEF Holding, Agree

LEMMA AgreeingOn == \A p, o, m, q : Agree(p, o, q) /\ Agree(o, m, q) => Agree(p, m, q)
BY DEF Agree

\* The registers that the messages are about, which a write to another register leaves as they are.
OfMessages(q) == q[1] \in {"MOSTAT", "MODATAL", "MODATAH", "MOFCR", "MOAR", "LIST"} \/ q = PANCTR

LEMMA WrittenElsewhere ==
  ASSUME NEW r, NEW v, NEW q, OfMessages(q), q # r, r[1] = "MOCTR" => q # MOSTAT(r[2])
  PROVE  Agree(Written(r, v), mem, q)
<1>0. q \notin {OUT(p) : p \in Ports} /\ q # CGATSTAT0
  BY DEF OfMessages, OUT, Ports, CGATSTAT0, PANCTR
<1>1. Agree(mem, mem, q)
  BY DEF Agree
<1>2. CASE r[1] = "MOCTR"
  <2>0. r \notin {OMR(p) : p \in Ports} /\ r # CGATCLR0
    BY <1>2 DEF OMR, Ports, CGATCLR0
  <2>1. PICK x, s : s = MOSTAT(r[2]) /\ Written(r, v) = Put(s, x, mem)
    BY <1>2, <2>0 DEF Written
  <2> QED BY <1>2, <2>1, PutAgrees
<1>3. CASE r \in {OMR(p) : p \in Ports}
  <2>0. PICK p \in Ports : r = OMR(p)
    BY <1>3
  <2>1. r[1] = p /\ r[1] \notin {"MOCTR", "NBTR", "NPCR", "NCR"} /\ r # CGATCLR0
    BY <2>0 DEF OMR, Ports, CGATCLR0
  <2>2. PICK x, s : s = OUT(p) /\ Written(r, v) = Put(s, x, mem)
    BY <1>3, <2>1 DEF Written
  <2> QED BY <1>0, <2>2, PutAgrees
<1>4. CASE r[1] # "MOCTR" /\ r \notin {OMR(p) : p \in Ports}
  <2>1. CASE r # CGATCLR0
    <3>1. Written(r, v) = mem \/ Written(r, v) = Put(r, v, mem)
      BY <1>4, <2>1 DEF Written
    <3> QED BY <1>1, <3>1, PutAgrees
  <2>2. CASE r = CGATCLR0
    <3>1. r[1] \notin {"NBTR", "NPCR"}
      BY <2>2 DEF CGATCLR0
    <3>2. Written(r, v) = mem \/ \E x : Written(r, v) = Put(CGATSTAT0, x, mem)
      BY <1>4, <2>2, <3>1 DEF Written
    <3>3. PICK s : s = CGATSTAT0
      OBVIOUS
    <3> QED BY <1>0, <1>1, <3>2, <3>3, PutAgrees
  <2> QED BY <2>1, <2>2
<1> QED BY <1>2, <1>3, <1>4

LEMMA WrittenHere ==
  ASSUME NEW r, NEW v, NEW m, m = Written(r, v)
  PROVE  /\ r[1] = "MOCTR" => m = Put(MOSTAT(r[2]), Over(v, ValueIn(mem, MOSTAT(r[2]))), mem)
         /\ r[1] \in {"MODATAL", "MODATAH", "MOFCR", "MOAR"} \/ r = PANCTR => m = Put(r, v, mem)
<1>1. r[1] \in {"MOCTR", "MODATAL", "MODATAH", "MOFCR", "MOAR"} \/ r = PANCTR => r \notin {OMR(p) : p \in Ports} /\ r # CGATCLR0
  BY DEF OMR, Ports, CGATCLR0, PANCTR
<1>2. ASSUME r[1] = "MOCTR" PROVE m = Put(MOSTAT(r[2]), Over(v, ValueIn(mem, MOSTAT(r[2]))), mem)
  <2>1. Value(MOSTAT(r[2])) = ValueIn(mem, MOSTAT(r[2]))
    BY DEF Value, ValueIn
  <2> QED BY <1>1, <1>2, <2>1 DEF Written
<1>3. r = PANCTR => r[1] \notin {"MOCTR", "NBTR", "NPCR"}
  BY DEF PANCTR
<1>4. ASSUME r[1] \in {"MODATAL", "MODATAH", "MOFCR", "MOAR"} \/ r = PANCTR PROVE m = Put(r, v, mem)
  BY <1>1, <1>3, <1>4 DEF Written
<1> QED BY <1>2, <1>4

\* A bit that is not 0 is one of the register's fields.
LEMMA FieldOf ==
  ASSUME NEW r, NEW f, NEW x
  PROVE  /\ x # 0 => (Is(r, f, x) <=> HasField(ValueIn(mem, r), f, x))
         /\ HasField(ValueIn(mem, r), f, x) => Is(r, f, x)
<1>1. Value(r) = ValueIn(mem, r)
  BY DEF Value, ValueIn
<1> QED BY <1>1 DEF Is, Field, HasField

LEMMA OverField ==
  \A f, g, x, v : /\ x \notin DOMAIN f => (HasField(Over(f, g), x, v) <=> HasField(g, x, v))
                  /\ x \in DOMAIN f => (HasField(Over(f, g), x, v) <=> f[x] = v)
BY DEF HasField, Over

Flag(m, mbox, f, v) == HasField(ValueIn(m, MOSTAT(mbox)), f, v)

\* Only the one mailbox is requested, and it is on the list of the one node or of none.
Orderly(m, mbox, n) ==
  /\ \A x : Flag(m, x, "TXRQ", 1) => x = mbox /\ Flag(m, x, "TXEN0", 1) /\ Flag(m, x, "TXEN1", 1)
  /\ \A r \in DOMAIN m : r[1] = "LIST" => r = List(r[2]) /\ (r[2] = mbox => HasField(m[r], "NODE", n))
  /\ HasField(ValueIn(m, PANCTR), "BUSY", 1) =>
       \E x, y : /\ HasField(ValueIn(m, PANCTR), "PANAR1", x) /\ HasField(ValueIn(m, PANCTR), "PANAR2", y)
                 /\ x = mbox => y = n + 1

LEMMA OrderlyAgain ==
  ASSUME NEW mbox, NEW n, NEW m, Orderly(mem, mbox, n),
         \A x : Flag(m, x, "TXRQ", 1) => Flag(mem, x, "TXRQ", 1),
         \A x : \A f \in {"TXEN0", "TXEN1"} : Flag(mem, x, f, 1) => Flag(m, x, f, 1),
         \A r : r[1] = "LIST" => Agree(m, mem, r), ValueIn(m, PANCTR) = ValueIn(mem, PANCTR)
  PROVE  Orderly(m, mbox, n)
<1>1. \A x : Flag(m, x, "TXRQ", 1) => x = mbox /\ Flag(m, x, "TXEN0", 1) /\ Flag(m, x, "TXEN1", 1)
  BY DEF Orderly
<1>2. \A r \in DOMAIN m : r[1] = "LIST" => r = List(r[2]) /\ (r[2] = mbox => HasField(m[r], "NODE", n))
  BY DEF Orderly, Agree
<1> QED BY <1>1, <1>2 DEF Orderly

\* What an access to mailboxes that an application may make leaves true.
LEMMA WriteOrderly ==
  ASSUME NEW mbox, NEW n, Orderly(mem, mbox, n), NEW r, NEW v, NEW m, m = Written(r, v),
         r[1] \notin {"MOSTAT", "LIST"},
         r[1] = "MOCTR" => \A f \in {"TXRQ", "TXEN0", "TXEN1"} \cap DOMAIN v : v[f] = 1,
         r[1] = "MOCTR" /\ "TXRQ" \in DOMAIN v => r[2] = mbox /\ {"TXEN0", "TXEN1"} \subseteq DOMAIN v,
         r = PANCTR => {"PANAR1", "PANAR2"} \subseteq DOMAIN v /\ (v.PANAR1 = mbox => v.PANAR2 = n + 1)
  PROVE  Orderly(m, mbox, n) /\ (Flag(mem, mbox, "TXRQ", 1) => Flag(m, mbox, "TXRQ", 1))
<1>1. \A x : MOSTAT(x)[1] = "MOSTAT" /\ MOSTAT(x)[2] = x /\ MOSTAT(x) # r /\ OfMessages(MOSTAT(x))
  BY DEF MOSTAT, OfMessages
<1>2. OfMessages(PANCTR) /\ PANCTR[1] = "CAN" /\ \A q : q[1] = "LIST" => OfMessages(q) /\ q # r
  BY DEF OfMessages, PANCTR
<1>3. \A q : q[1] = "LIST" => Agree(m, mem, q)
  <2> SUFFICES ASSUME NEW q, q[1] = "LIST" PROVE Agree(m, mem, q)
    OBVIOUS
  <2>1. q # MOSTAT(r[2])
    BY <1>1
  <2> QED BY <1>2, <2>1, WrittenElsewhere
<1>4. r # PANCTR => ValueIn(m, PANCTR) = ValueIn(mem, PANCTR)
  <2> SUFFICES ASSUME r # PANCTR PROVE ValueIn(m, PANCTR) = ValueIn(mem, PANCTR)
    OBVIOUS
  <2>1. PICK q : q = PANCTR
    OBVIOUS
  <2>2. q # MOSTAT(r[2])
    BY <1>1, <1>2, <2>1
  <2>3. Agree(m, mem, q)
    BY <1>2, <2>1, <2>2, WrittenElsewhere
  <2> QED BY <2>1, <2>3, AgreeingValues
<1>5. CASE r[1] # "MOCTR"
  <2>1. ASSUME NEW x PROVE ValueIn(m, MOSTAT(x)) = ValueIn(mem, MOSTAT(x))
    <3>1. PICK q : q = MOSTAT(x)
      OBVIOUS
    <3>2. Agree(m, mem, q)
      BY <1>1, <1>5, <3>1, WrittenElsewhere
    <3> QED BY <3>1, <3>2, AgreeingValues
  <2>2. \A x, f : Flag(m, x, f, 1) <=> Flag(mem, x, f, 1)
    BY <2>1 DEF Flag
  <2>3. CASE r # PANCTR
    BY <1>3, <1>4, <2>2, <2>3, OrderlyAgain
  <2>4. CASE r = PANCTR
    <3>1. m = Put(r, v, mem)
      BY <2>4, WrittenHere
    <3>2. ValueIn(m, r) = v
      BY <3>1, ValuePut
    <3>3. \E x, y : HasField(v, "PANAR1", x) /\ HasField(v, "PANAR2", y) /\ (x = mbox => y = n + 1)
      BY <2>4 DEF HasField
    <3>4. \A q \in DOMAIN m : q[1] = "LIST" => q = List(q[2]) /\ (q[2] = mbox => HasField(m[q], "NODE", n))
      BY <1>3 DEF Orderly, Agree
    <3>5. \A x : Flag(m, x, "TXRQ", 1) => x = mbox /\ Flag(m, x, "TXEN0", 1) /\ Flag(m, x, "TXEN1", 1)
      BY <2>2 DEF Orderly
    <3> QED BY <2>2, <2>4, <3>2, <3>3, <3>4, <3>5 DEF Orderly
  <2> QED BY <2>3, <2>4
<1>6. CASE r[1] = "MOCTR"
  <2>1. PICK b : b = r[2]
    OBVIOUS
  <2>2. PICK s, old : s = MOSTAT(b) /\ old = ValueIn(mem, s)
    OBVIOUS
  <2>3. PICK new : new = Over(v, old)
    OBVIOUS
  <2>4. m = Put(s, new, mem)
    BY <1>6, <2>1, <2>2, <2>3, WrittenHere
  <2>5. ValueIn(m, MOSTAT(b)) = new /\ \A x : x # b => ValueIn(m, MOSTAT(x)) = ValueIn(mem, MOSTAT(x))
    <3>1. \A x : x # b => MOSTAT(x) # s
      BY <1>1, <2>2
    <3> QED BY <2>2, <2>4, <3>1, ValuePut
  <2>6. \A x, f : x # b => (Flag(m, x, f, 1) <=> Flag(mem, x, f, 1))
    BY <2>5 DEF Flag
  <2>7. \A f : f \notin DOMAIN v => (Flag(m, b, f, 1) <=> Flag(mem, b, f, 1))
    BY <2>2, <2>3, <2>5, OverField DEF Flag
  <2>8. \A f \in {"TXRQ", "TXEN0", "TXEN1"} : f \in DOMAIN v => Flag(m, b, f, 1)
    BY <1>6, <2>3, <2>5, OverField DEF Flag
  <2>9. \A x : Flag(m, x, "TXRQ", 1) => x = mbox /\ Flag(m, x, "TXEN0", 1) /\ Flag(m, x, "TXEN1", 1)
    <3> SUFFICES ASSUME NEW x, Flag(m, x, "TXRQ", 1)
                 PROVE  x = mbox /\ Flag(m, x, "TXEN0", 1) /\ Flag(m, x, "TXEN1", 1)
      OBVIOUS
    <3>1. CASE x # b
      BY <2>6, <3>1 DEF Orderly
    <3>2. CASE x = b /\ "TXRQ" \in DOMAIN v
      BY <1>6, <2>1, <2>8, <3>2
    <3>3. CASE x = b /\ "TXRQ" \notin DOMAIN v
      <4>1. x = mbox /\ Flag(mem, x, "TXEN0", 1) /\ Flag(mem, x, "TXEN1", 1)
        BY <2>7, <3>3 DEF Orderly
      <4> QED BY <2>7, <2>8, <3>3, <4>1
    <3> QED BY <3>1, <3>2, <3>3
  <2>10. \A q \in DOMAIN m : q[1] = "LIST" => q = List(q[2]) /\ (q[2] = mbox => HasField(m[q], "NODE", n))
    BY <1>3 DEF Orderly, Agree
  <2>11. ValueIn(m, PANCTR) = ValueIn(mem, PANCTR)
    BY <1>2, <1>4, <1>6
  <2>12. Flag(mem, mbox, "TXRQ", 1) => Flag(m, mbox, "TXRQ", 1)
    BY <2>6, <2>7, <2>8
  <2> QED BY <2>9, <2>10, <2>11, <2>12 DEF Orderly
<1> QED BY <1>5, <1>6

\* What an access that an application may make does to them.
LEMMA EffectOrderly ==
  ASSUME NEW mbox, NEW n, Orderly(mem, mbox, n), NEW t, NEW i, Effect(t, i), RequestsOnly(mbox, n, i)
  PROVE  Orderly(mem', mbox, n) /\ (Flag(mem, mbox, "TXRQ", 1) => Flag(mem', mbox, "TXRQ", 1))
<1>1. CASE mem' = mem
  BY <1>1
<1>2. ASSUME i.op = "write", mem' = Written(i.reg, i.new)
      PROVE  Orderly(mem', mbox, n) /\ (Flag(mem, mbox, "TXRQ", 1) => Flag(mem', mbox, "TXRQ", 1))
  <2>1. PICK r, v : r = i.reg /\ v = i.new
    OBVIOUS
  <2>2. r[1] \notin {"MOSTAT", "LIST"}
    BY <1>2, <2>1 DEF RequestsOnly
  <2>3. ASSUME r[1] = "MOCTR"
        PROVE  /\ \A f \in {"TXRQ", "TXEN0", "TXEN1"} \cap DOMAIN v : v[f] = 1
               /\ "TXRQ" \in DOMAIN v => r[2] = mbox /\ {"TXEN0", "TXEN1"} \subseteq DOMAIN v
    <3>1. PICK given : given = {"TXRQ", "TXEN0", "TXEN1"} \cap DOMAIN v
      OBVIOUS
    <3>2. /\ \A f \in given : v[f] = 1
          /\ "TXRQ" \in given => r[2] = mbox /\ given = {"TXRQ", "TXEN0", "TXEN1"}
      BY <1>2, <2>1, <2>3, <3>1 DEF RequestsOnly
    <3> QED BY <3>1, <3>2
  <2>4. r = PANCTR => {"PANAR1", "PANAR2"} \subseteq DOMAIN v /\ (v.PANAR1 = mbox => v.PANAR2 = n + 1)
    BY <1>2, <2>1 DEF RequestsOnly
  <2>5. PICK m : m = mem' /\ m = Written(r, v)
    BY <1>2, <2>1
  <2> QED BY <2>2, <2>3, <2>4, <2>5, WriteOrderly
<1>3. ASSUME i.op \in {"load", "store"}, Overwrites(t, i)
      PROVE  Orderly(mem', mbox, n) /\ (Flag(mem, mbox, "TXRQ", 1) => Flag(mem', mbox, "TXRQ", 1))
  <2>1. PICK r, v : r = i.reg /\ mem' = Written(r, v)
    BY <1>3 DEF Overwrites
  <2>2. r[1] \notin {"MOSTAT", "LIST", "MOCTR"} /\ r # PANCTR
    BY <1>3, <2>1 DEF RequestsOnly
  <2>3. PICK m : m = mem' /\ m = Written(r, v)
    BY <2>1
  <2> QED BY <2>2, <2>3, WriteOrderly
<1>4. ASSUME mem' = Written(US("RBUFSR"), [RDV |-> 0])
      PROVE  Orderly(mem', mbox, n) /\ (Flag(mem, mbox, "TXRQ", 1) => Flag(mem', mbox, "TXRQ", 1))
  <2>1. PICK r, v : r = US("RBUFSR") /\ v = [RDV |-> 0]
    OBVIOUS
  <2>2. r[1] \notin {"MOSTAT", "LIST", "MOCTR"} /\ r # PANCTR
    BY <2>1 DEF US, PANCTR
  <2>3. PICK m : m = mem' /\ m = Written(r, v)
    BY <1>4, <2>1
  <2> QED BY <2>2, <2>3, WriteOrderly
<1> QED BY <1>1, <1>2, <1>3, <1>4 DEF Effect

\* The access writes to the register.
WritesTo(i, q) ==
  i.op \in {"load", "store", "write"} /\ (i.reg = q \/ (i.reg[1] = "MOCTR" /\ q = MOSTAT(i.reg[2])))

LEMMA LeftAlone ==
  ASSUME NEW t, NEW i, Effect(t, i), NEW q, OfMessages(q), ~WritesTo(i, q)
  PROVE  Agree(mem', mem, q) /\ ValueIn(mem', q) = ValueIn(mem, q)
<1> SUFFICES Agree(mem', mem, q)
  BY AgreeingValues
<1>1. ASSUME NEW r, NEW v, mem' = Written(r, v), q # r, r[1] = "MOCTR" => q # MOSTAT(r[2])
      PROVE  Agree(mem', mem, q)
  <2>1. PICK m : m = mem' /\ m = Written(r, v)
    BY <1>1
  <2>2. Agree(Written(r, v), mem, q)
    BY <1>1, WrittenElsewhere
  <2> QED BY <2>1, <2>2
<1>2. CASE i.op = "write" /\ mem' = Written(i.reg, i.new)
  <2>1. PICK r, v : r = i.reg /\ v = i.new
    OBVIOUS
  <2>2. mem' = Written(r, v) /\ q # r /\ (r[1] = "MOCTR" => q # MOSTAT(r[2]))
    BY <1>2, <2>1 DEF WritesTo
  <2> QED BY <1>1, <2>2
<1>3. CASE i.op \in {"load", "store"} /\ Overwrites(t, i)
  <2>1. PICK r, v : r = i.reg /\ mem' = Written(r, v)
    BY <1>3 DEF Overwrites
  <2>2. q # r /\ (r[1] = "MOCTR" => q # MOSTAT(r[2]))
    BY <1>3, <2>1 DEF WritesTo
  <2> QED BY <1>1, <2>1, <2>2
<1>4. CASE mem' = Written(US("RBUFSR"), [RDV |-> 0])
  <2>1. PICK r, v : r = US("RBUFSR") /\ v = [RDV |-> 0]
    OBVIOUS
  <2>2. r[1] = "US"
    BY <2>1 DEF US
  <2>3. mem' = Written(r, v) /\ q # r /\ r[1] # "MOCTR"
    BY <1>4, <2>1, <2>2 DEF OfMessages, PANCTR
  <2> QED BY <1>1, <2>3
<1>5. CASE mem' = mem
  BY <1>5 DEF Agree
<1> QED BY <1>2, <1>3, <1>4, <1>5 DEF Effect

\* The registers of a mailbox, which an access leaves alone that avoids it.
OfMailbox(q, mbox) == q[1] \in {"MOSTAT", "MODATAL", "MODATAH", "MOFCR", "MOAR"} /\ q[2] = mbox

LEMMA MailboxRegisters ==
  \A mbox : \A q \in {MOSTAT(mbox), MODATAL(mbox), MODATAH(mbox), MOFCR(mbox), MOAR(mbox)} : OfMailbox(q, mbox)
BY DEF OfMailbox, MOSTAT, MODATAL, MODATAH, MOFCR, MOAR

LEMMA AvoidsKeeps ==
  ASSUME NEW mbox, NEW n, NEW t, NEW i, Effect(t, i), RequestsOnly(mbox, n, i), Avoids(mbox, i), NEW q, OfMailbox(q, mbox)
  PROVE  ValueIn(mem', q) = ValueIn(mem, q)
<1>1. \A x : MOSTAT(x)[1] = "MOSTAT" /\ MOSTAT(x)[2] = x
  BY DEF MOSTAT
<1>2. ~WritesTo(i, q)
  BY <1>1 DEF WritesTo, RequestsOnly, Avoids, Changes, OfMailbox
<1> QED BY <1>2, LeftAlone DEF OfMailbox, OfMessages
-----------------------------------------------------------------------------
(* The message that is sent *)

OfIt(f, mbox, w) == f # None /\ f.mbox = mbox /\ f.low = w

Asks(mbox) == [op |-> "write", reg |-> MOCTR(mbox), new |-> [TXRQ |-> 1, TXEN0 |-> 1, TXEN1 |-> 1]]

AsksOnce(mbox) == [op |-> "if", reg |-> MOSTAT(mbox), field |-> "TXRQ", val |-> 1, then |-> << >>, else |-> << Asks(mbox) >>]

\* Where the task is in the function: before an access, or behind the last one.
Place(todo, p, mbox, j) ==
  /\ j \in 1..7 => todo = From(p, j)
  /\ j = 8 => todo = << AsksOnce(mbox) >>
  /\ j = 9 => todo = << Asks(mbox) >>
  /\ j = 10 => todo = << >>

\* What holds there, s and d being the state of the mailbox and its first word, f and g the frame in
\* flight and the last one that went out.
Way(s, d, f, g, mbox, w, j) ==
  /\ j \in 2..6 => HasField(s, "MSGVAL", 0)
  /\ j >= 5 => HasField(d, "W", w)
  /\ j >= 7 => /\ HasField(s, "MSGVAL", 1)
               /\ \/ f = None \/ OfIt(f, mbox, w)
                  \/ HasField(s, "RTSEL", 0) \/ HasField(s, "NEWDAT", 1)
  /\ j = 10 => HasField(s, "TXRQ", 1) \/ OfIt(g, mbox, w)

Status(m, mbox) == ValueIn(m, MOSTAT(mbox))
Word(m, mbox)   == ValueIn(m, MODATAL(mbox))

Underway(n, mbox, w, j) == Way(Status(mem, mbox), Word(mem, mbox), flight[n], bus[n], mbox, w, j)

\* The frames in flight are of the one mailbox, which is requested until they are out.
InFlight(n, mbox) ==
  \A j \in Nodes : flight[j] # None => j = n /\ flight[j].mbox = mbox /\ Flag(mem, mbox, "TXRQ", 1)

\* Task s, which call k of the main task creates, is the one that sends.
Sender(s, n, mbox, k) ==
  /\ s \in Tasks \ {"main"} /\ n \in Nodes /\ mbox \in 0..MailboxCount - 1
  /\ "main" \in Tasks /\ k \in 1..Len(Plan.calls["main"])
  /\ Plan.calls["main"][k].does = Create(s) /\ Plan.from["main"] \notin 1..k
  /\ \A t \in Tasks : \A j \in 1..Len(Plan.calls[t]) :
       /\ Plan.calls[t][j].what = "send" =>
            t = s /\ Plan.calls[t][j].mbox = mbox
            /\ \E dlc \in 0..8 : Plan.calls[t][j].does = send(mbox, Plan.calls[t][j].low, Plan.calls[t][j].high, dlc)
       /\ \A i \in CallCode(Plan.calls[t][j]) :
            /\ RequestsOnly(mbox, n, i)
            /\ i.op = "create" => i.task # s \/ (t = "main" /\ j = k)
            /\ t # s /\ (t # "main" \/ j > k) => Avoids(mbox, i)

\* The tasks are in their calls, and the sender lives when the main task is behind that call.
InCalls(s, k) ==
  /\ \A t \in Tasks : at[t].call # 0 => at[t].todo \in Seq(CallCode(CallOf(t)))
  /\ at["main"].call = k => at["main"].todo = << >>
  /\ s \in live => at["main"].call >= k
  /\ at[s].call # 0 => s \in live

OnItsPlace(s, n, mbox) ==
  at[s].call # 0 /\ CallOf(s).what = "send" =>
    \E j \in 2..10 : Place(at[s].todo, CallOf(s).does, mbox, j) /\ Underway(n, mbox, CallOf(s).low, j)

AsksIfValid(mbox) ==
  [op |-> "if", reg |-> MOSTAT(mbox), field |-> "MSGVAL", val |-> 0, then |-> << >>, else |-> << AsksOnce(mbox) >>]

Sets(r, v) == [op |-> "write", reg |-> r, new |-> v]

\* The accesses of the function.
IsSend(p, mbox, w, high, dlc) ==
  /\ IsSeq(p) /\ Len(p) = 7
  /\ p[1] = Sets(MOCTR(mbox), [MSGVAL |-> 0])
  /\ p[2] = [op |-> "load", reg |-> MOFCR(mbox)]
  /\ p[3] = [op |-> "store", reg |-> MOFCR(mbox), new |-> [DLC |-> dlc]]
  /\ p[4] = Sets(MODATAL(mbox), [W |-> w])
  /\ p[5] = Sets(MODATAH(mbox), [W |-> high])
  /\ p[6] = Sets(MOCTR(mbox), [NEWDAT |-> 1, MSGVAL |-> 1, RTSEL |-> 0])
  /\ p[7] = AsksIfValid(mbox)

LEMMA SendOf ==
  ASSUME NEW mbox \in 0..MailboxCount - 1, NEW w, NEW high, NEW dlc, NEW p, p = send(mbox, w, high, dlc)
  PROVE  IsSend(p, mbox, w, high, dlc)
<1>1. PICK a1, a2, a3, a4, a5, a6, a7 :
        /\ a1 = Sets(MOCTR(mbox), [MSGVAL |-> 0])
        /\ a2 = [op |-> "load", reg |-> MOFCR(mbox)]
        /\ a3 = [op |-> "store", reg |-> MOFCR(mbox), new |-> [DLC |-> dlc]]
        /\ a4 = Sets(MODATAL(mbox), [W |-> w])
        /\ a5 = Sets(MODATAH(mbox), [W |-> high])
        /\ a6 = Sets(MOCTR(mbox), [NEWDAT |-> 1, MSGVAL |-> 1, RTSEL |-> 0])
        /\ a7 = AsksIfValid(mbox)
  OBVIOUS
<1>2. PICK f : f = ((<< a2, a3 >> \o << a4 >>) \o << a5 >>) \o << a6 >>
  OBVIOUS
<1>3. Fills(mbox, w, high, dlc) = f
  <2>1. Modify(MOFCR(mbox), [DLC |-> dlc]) = << a2, a3 >>
    BY <1>1, PairOf
  <2> QED BY <1>1, <1>2, <2>1 DEF Fills, Write, Sets
<1>4. Requests(mbox) = << a7 >>
  <2>1. << a7 >> = << AsksIfValid(mbox) >>
    BY <1>1
  <2>2. IfIs(MOSTAT(mbox), "TXRQ", 1, << >>, Write(MOCTR(mbox), [TXRQ |-> 1, TXEN0 |-> 1, TXEN1 |-> 1])) = << AsksOnce(mbox) >>
    BY DEF IfIs, AsksOnce, Asks, Write
  <2>3. IfIs(MOSTAT(mbox), "MSGVAL", 0, << >>, << AsksOnce(mbox) >>) = << AsksIfValid(mbox) >>
    BY DEF IfIs, AsksIfValid
  <2> QED BY <2>1, <2>2, <2>3 DEF Requests
<1>5. p = (<< a1 >> \o f) \o << a7 >>
  <2>1. Write(MOCTR(mbox), [MSGVAL |-> 0]) = << a1 >>
    BY <1>1 DEF Write, Sets
  <2>2. ~(mbox >= MailboxCount)
    BY DEF MailboxCount
  <2> QED BY <1>3, <1>4, <2>1, <2>2 DEF send
<1>6. PICK f2 : f2 = << a2, a3 >>
  OBVIOUS
<1>7. IsSeq(f2) /\ Len(f2) = 2 /\ f2[1] = a2 /\ f2[2] = a3
  BY <1>6, SeqOfTwo
<1>8. PICK f3 : f3 = f2 \o << a4 >>
  OBVIOUS
<1>9. GrownByOne(f3, f2, 2, a4)
  BY <1>7, <1>8, OneBehind
<1>10. IsSeq(f3) /\ Len(f3) = 3 /\ f3[1] = a2 /\ f3[2] = a3 /\ f3[3] = a4
  BY <1>7, <1>9 DEF GrownByOne
<1>11. PICK f4 : f4 = f3 \o << a5 >>
  OBVIOUS
<1>12. GrownByOne(f4, f3, 3, a5)
  BY <1>10, <1>11, OneBehind
<1>13. IsSeq(f4) /\ Len(f4) = 4 /\ f4[1] = a2 /\ f4[2] = a3 /\ f4[3] = a4 /\ f4[4] = a5
  BY <1>10, <1>12 DEF GrownByOne
<1>14. GrownByOne(f, f4, 4, a6)
  BY <1>2, <1>6, <1>8, <1>11, <1>13, OneBehind
<1>15. IsSeq(f) /\ Len(f) = 5 /\ f[1] = a2 /\ f[2] = a3 /\ f[3] = a4 /\ f[4] = a5 /\ f[5] = a6
  BY <1>13, <1>14 DEF GrownByOne
<1>16. PICK q : q = << a1 >> \o f
  OBVIOUS
<1>17. IsSeq(q) /\ Len(q) = 6 /\ q[1] = a1 /\ q[2] = a2 /\ q[3] = a3 /\ q[4] = a4 /\ q[5] = a5 /\ q[6] = a6
  <2>1. IsSeq(q)
    BY <1>15, <1>16, SeqsOfOne, SeqsJoined
  <2>2. PICK e : e = << a1 >>
    OBVIOUS
  <2> DEFINE S == ToSet(f) \cup {a1}
  <2>3. e \in Seq(S) /\ f \in Seq(S) /\ Len(e) = 1 /\ e[1] = a1
    BY <1>15, <2>2 DEF IsSeq
  <2> HIDE DEF S
  <2>4. Len(q) = Len(e) + Len(f)
    BY <1>16, <2>2, <2>3, ConcatProperties
  <2>5. \A j \in 1..Len(e) + Len(f) : q[j] = IF j <= Len(e) THEN e[j] ELSE f[j - Len(e)]
    BY <1>16, <2>2, <2>3, ConcatProperties
  <2>6. Len(q) = 6 /\ \A j \in 1..6 : q[j] = IF j <= 1 THEN e[j] ELSE f[j - 1]
    BY <1>15, <2>3, <2>4, <2>5
  <2> QED BY <1>15, <2>1, <2>3, <2>6
<1>18. GrownByOne(p, q, 6, a7)
  BY <1>5, <1>16, <1>17, OneBehind
<1>19. IsSeq(p) /\ Len(p) = 7 /\ p[1] = a1 /\ p[2] = a2 /\ p[3] = a3 /\ p[4] = a4 /\ p[5] = a5 /\ p[6] = a6 /\ p[7] = a7
  BY <1>17, <1>18 DEF GrownByOne
<1> QED BY <1>1, <1>19 DEF IsSend

\* A task that branches, and who creates a task.
LEMMA StepForks ==
  ASSUME Activities, NEW t \in Tasks, Step(t), NEW w, w = Goes(t), NEW i, i = Head(w.todo)
  PROVE  /\ i.op = "if" => mem' = mem /\ at'[t].todo = (IF Holds(i) THEN i.then ELSE i.else) \o Tail(w.todo)
         /\ i.op = "create" => live' = live \cup {i.task} /\ mem' = mem /\ at'[t].todo = Tail(w.todo)
         /\ i.op # "create" => live' = live
         /\ t \in live /\ flight' = flight /\ bus' = bus
<1>1. w.todo # << >> /\ t \in DOMAIN at /\ t \in live
  BY DEF Step, Activities
<1>2. \/ Loads(t, w, i) \/ Stores(t, w, i) \/ Updates(t, w, i) \/ Writes(t, w, i) \/ Reads(t, w, i)
      \/ Awaits(t, w, i) \/ TimesOut(t, w, i) \/ Branches(t, w, i) \/ Creates(t, w, i)
  BY DEF Step
<1>3. IsAt(t, w)
  BY <1>1, Begins
<1>4. DOMAIN w = {"call", "todo", "buf"}
  BY <1>3 DEF IsAt
<1> HIDE DEF Tasks
<1>5. ASSUME NEW v, NEW more, NEW words, GoesOn(t, v, more, words)
      PROVE  live' = live /\ flight' = flight /\ bus' = bus
  BY <1>5 DEF GoesOn
<1>6. CASE Branches(t, w, i)
  <2> DEFINE more == IF Holds(i) THEN i.then ELSE i.else
  <2>1. i.op = "if" /\ GoesOn(t, w, more, << >>) /\ mem' = mem
    BY <1>6 DEF Branches
  <2> HIDE DEF more
  <2>2. at'[t].todo = more \o Tail(w.todo) /\ live' = live /\ flight' = flight /\ bus' = bus
    BY <1>1, <1>4, <2>1 DEF GoesOn
  <2> QED BY <1>1, <2>1, <2>2 DEF more
<1>7. CASE Creates(t, w, i)
  <2> DEFINE x == [w EXCEPT !.todo = Tail(@)]
  <2>1. i.op = "create" /\ at' = [at EXCEPT ![t] = x] /\ live' = live \cup {i.task} /\ mem' = mem
        /\ flight' = flight /\ bus' = bus
    BY <1>7 DEF Creates
  <2>2. x.todo = Tail(w.todo)
    BY <1>4
  <2> HIDE DEF x
  <2>3. at'[t].todo = Tail(w.todo)
    BY <1>1, <2>1, <2>2
  <2> QED BY <1>1, <2>1, <2>3
<1>8. CASE TimesOut(t, w, i)
  BY <1>1, <1>8 DEF TimesOut
<1>9. CASE Loads(t, w, i) \/ Stores(t, w, i) \/ Updates(t, w, i) \/ Writes(t, w, i) \/ Reads(t, w, i) \/ Awaits(t, w, i)
  <2>1. i.op \notin {"if", "create"}
    BY <1>9 DEF Loads, Stores, Updates, Writes, Reads, Awaits
  <2>2. \E v, more, words : GoesOn(t, v, more, words)
    BY <1>9 DEF Loads, Stores, Updates, Writes, Reads, Awaits, Proceeds
  <2> QED BY <1>1, <1>5, <2>1, <2>2
<1> QED BY <1>2, <1>6, <1>7, <1>8, <1>9
\* What a task does in a step, where it is at u and executes i.
Does(t, u, i) ==
  /\ i = Head(u.todo) /\ Effect(t, i) /\ Continues(t, u, i)
  /\ i.op = "if" => mem' = mem /\ at'[t].todo = (IF Holds(i) THEN i.then ELSE i.else) \o Tail(u.todo)

LEMMA StatusSet ==
  ASSUME NEW t, NEW i, Effect(t, i), NEW mbox, NEW v, i = Sets(MOCTR(mbox), v)
  PROVE  Status(mem', mbox) = Over(v, Status(mem, mbox)) /\ Word(mem', mbox) = Word(mem, mbox)
<1>1. PICK r : r = MOCTR(mbox)
  OBVIOUS
<1>2. r[1] = "MOCTR" /\ r[2] = mbox
  BY <1>1 DEF MOCTR
<1>3. PICK m : m = mem' /\ m = Written(r, v)
  BY <1>1 DEF Effect, Sets
<1>4. PICK q, d : q = MOSTAT(mbox) /\ d = MODATAL(mbox)
  OBVIOUS
<1>5. PICK new : new = Over(v, ValueIn(mem, q))
  OBVIOUS
<1>6. m = Put(q, new, mem)
  BY <1>2, <1>3, <1>4, <1>5, WrittenHere
<1>7. d # q
  BY <1>4 DEF MOSTAT, MODATAL
<1>8. ValueIn(m, q) = new /\ ValueIn(m, d) = ValueIn(mem, d)
  BY <1>6, <1>7, ValuePut
<1> QED BY <1>3, <1>4, <1>5, <1>8 DEF Status, Word

LEMMA WordSet ==
  ASSUME NEW t, NEW i, Effect(t, i), NEW mbox, NEW v, i = Sets(MODATAL(mbox), v)
  PROVE  Status(mem', mbox) = Status(mem, mbox) /\ Word(mem', mbox) = v
<1>1. PICK r : r = MODATAL(mbox)
  OBVIOUS
<1>2. r[1] = "MODATAL" /\ r[2] = mbox
  BY <1>1 DEF MODATAL
<1>3. PICK m : m = mem' /\ m = Written(r, v)
  BY <1>1 DEF Effect, Sets
<1>4. PICK q : q = MOSTAT(mbox)
  OBVIOUS
<1>5. m = Put(r, v, mem)
  BY <1>2, <1>3, WrittenHere
<1>6. r # q
  BY <1>1, <1>4 DEF MOSTAT, MODATAL
<1>7. ValueIn(m, r) = v /\ ValueIn(m, q) = ValueIn(mem, q)
  BY <1>5, <1>6, ValuePut
<1> QED BY <1>1, <1>3, <1>4, <1>7 DEF Status, Word

LEMMA OtherSet ==
  ASSUME NEW t, NEW i, Effect(t, i), NEW mbox, i.op \in {"load", "store", "write"}, i.reg \in {MOFCR(mbox), MODATAH(mbox)}
  PROVE  Status(mem', mbox) = Status(mem, mbox) /\ Word(mem', mbox) = Word(mem, mbox)
<1>1. PICK q, d : q = MOSTAT(mbox) /\ d = MODATAL(mbox)
  OBVIOUS
<1>2. i.reg[1] \notin {"MOSTAT", "MOCTR", "MODATAL"}
  BY DEF MOFCR, MODATAH
<1>3. OfMessages(q) /\ OfMessages(d) /\ q[1] = "MOSTAT" /\ d[1] = "MODATAL"
  BY <1>1 DEF MOSTAT, MODATAL, OfMessages
<1>4. ~WritesTo(i, q) /\ ~WritesTo(i, d)
  BY <1>2, <1>3 DEF WritesTo
<1> QED BY <1>1, <1>3, <1>4, LeftAlone DEF Status, Word

Comes(t, p, mbox, w, f, g, l) ==
  Place(at'[t].todo, p, mbox, l) /\ Way(Status(mem', mbox), Word(mem', mbox), f, g, mbox, w, l)

\* The function fills the mailbox while it is not valid.
LEMMA SendFills ==
  ASSUME NEW mbox, NEW w, NEW high, NEW dlc, NEW p, IsSend(p, mbox, w, high, dlc), NEW t, NEW u, NEW i, Does(t, u, i),
         NEW j \in 1..6, u.todo = From(p, j), NEW f, NEW g, Way(Status(mem, mbox), Word(mem, mbox), f, g, mbox, w, j)
  PROVE  \E l \in 2..10 : Comes(t, p, mbox, w, f, g, l)
<1>1. IsSeq(p) /\ Len(p) = 7 /\ j \in 1..Len(p) /\ i = Head(u.todo)
  BY DEF IsSend, Does
<1>2. Moves(p, j, i, u)
  BY <1>1, MovesOn
<1>3. i = p[j] /\ Tail(u.todo) = From(p, j + 1) /\ Tail(Tail(u.todo)) = From(p, j + 2)
  <2>1. j + 1 \in 1..Len(p)
    BY <1>1
  <2> QED BY <1>2, <2>1 DEF Moves
<1>4. ASSUME at'[t].todo = From(p, j + 1), Way(Status(mem', mbox), Word(mem', mbox), f, g, mbox, w, j + 1)
      PROVE  \E l \in 2..10 : Comes(t, p, mbox, w, f, g, l)
  <2>1. j + 1 \in 2..7 /\ Place(at'[t].todo, p, mbox, j + 1)
    BY <1>4 DEF Place
  <2> QED BY <1>4, <2>1 DEF Comes
<1>5. i.op \in {"store", "write"} => at'[t].todo = From(p, j + 1)
  BY <1>3 DEF Does, Continues
<1>6. Effect(t, i)
  BY DEF Does
<1>7. PICK s, d : s = Status(mem, mbox) /\ d = Word(mem, mbox)
  OBVIOUS
<1>8. CASE j = 1
  <2>1. i = Sets(MOCTR(mbox), [MSGVAL |-> 0])
    BY <1>3, <1>8 DEF IsSend
  <2>2. Status(mem', mbox) = Over([MSGVAL |-> 0], s)
    BY <1>6, <1>7, <2>1, StatusSet
  <2>3. HasField(Over([MSGVAL |-> 0], s), "MSGVAL", 0)
    BY OverField
  <2>4. Way(Status(mem', mbox), Word(mem', mbox), f, g, mbox, w, 2)
    BY <2>2, <2>3 DEF Way
  <2>5. i.op = "write"
    BY <2>1 DEF Sets
  <2> QED BY <1>4, <1>5, <1>8, <2>4, <2>5
<1>9. CASE j \in {2, 3, 5}
  <2>1. i.op \in {"load", "store", "write"} /\ i.reg \in {MOFCR(mbox), MODATAH(mbox)} /\ (i.op = "load" => j = 2)
    BY <1>3, <1>9 DEF IsSend, Sets
  <2>2. Status(mem', mbox) = s /\ Word(mem', mbox) = d
    BY <1>6, <1>7, <2>1, OtherSet
  <2>3. HasField(s, "MSGVAL", 0) /\ (j = 5 => HasField(d, "W", w))
    BY <1>7, <1>9 DEF Way
  <2>4. Way(s, d, f, g, mbox, w, j + 1) /\ (j = 2 => Way(s, d, f, g, mbox, w, 4))
    BY <1>9, <2>3 DEF Way
  <2>5. CASE i.op # "load"
    BY <1>4, <1>5, <2>1, <2>2, <2>4, <2>5
  <2>6. CASE i.op = "load"
    <3>0. j = 2 /\ j + 1 = 3 /\ j + 2 = 4
      BY <2>1, <2>6
    <3>1. at'[t].todo = From(p, 3) \/ at'[t].todo = From(p, 4)
      <4>1. at'[t].todo = Tail(u.todo) \/ at'[t].todo = Tail(Tail(u.todo))
        BY <2>6 DEF Does, Continues
      <4>2. Tail(u.todo) = From(p, 3)
        BY <1>3, <3>0
      <4>3. Tail(Tail(u.todo)) = From(p, 4)
        BY <1>3, <3>0
      <4> QED BY <4>1, <4>2, <4>3
    <3>2. Comes(t, p, mbox, w, f, g, 3) \/ Comes(t, p, mbox, w, f, g, 4)
      BY <2>1, <2>2, <2>4, <2>6, <3>1 DEF Comes, Place
    <3> QED BY <3>2
  <2> QED BY <2>5, <2>6
<1>10. CASE j = 4
  <2>1. i = Sets(MODATAL(mbox), [W |-> w])
    BY <1>3, <1>10 DEF IsSend
  <2>2. Status(mem', mbox) = s /\ Word(mem', mbox) = [W |-> w]
    BY <1>6, <1>7, <2>1, WordSet
  <2>3. Way(Status(mem', mbox), Word(mem', mbox), f, g, mbox, w, 5)
    BY <1>7, <1>10, <2>2 DEF Way, HasField
  <2>4. i.op = "write"
    BY <2>1 DEF Sets
  <2> QED BY <1>4, <1>5, <1>10, <2>3, <2>4
<1>11. CASE j = 6
  <2> DEFINE v == [NEWDAT |-> 1, MSGVAL |-> 1, RTSEL |-> 0]
  <2>1. i = Sets(MOCTR(mbox), v)
    BY <1>3, <1>11 DEF IsSend
  <2>2. HasField(Over(v, s), "NEWDAT", 1) /\ HasField(Over(v, s), "MSGVAL", 1)
    BY OverField
  <2> HIDE DEF v
  <2>3. Status(mem', mbox) = Over(v, s) /\ Word(mem', mbox) = d
    BY <1>6, <1>7, <2>1, StatusSet
  <2>4. Way(Status(mem', mbox), Word(mem', mbox), f, g, mbox, w, 7)
    BY <1>7, <1>11, <2>2, <2>3 DEF Way
  <2>5. i.op = "write"
    BY <2>1 DEF Sets
  <2> QED BY <1>4, <1>5, <1>11, <2>4, <2>5
<1> QED BY <1>8, <1>9, <1>10, <1>11

\* Then it requests that the mailbox is sent.
LEMMA SendRequests ==
  ASSUME NEW mbox, NEW w, NEW high, NEW dlc, NEW p, IsSend(p, mbox, w, high, dlc), NEW t, NEW u, NEW i, Does(t, u, i),
         NEW j \in 7..9, Place(u.todo, p, mbox, j),
         NEW f, NEW g, Way(Status(mem, mbox), Word(mem, mbox), f, g, mbox, w, j)
  PROVE  \E l \in 2..10 : Comes(t, p, mbox, w, f, g, l)
<1>1. PICK s, d : s = Status(mem, mbox) /\ d = Word(mem, mbox)
  OBVIOUS
<1>2. PICK q : q = MOSTAT(mbox)
  OBVIOUS
<1>3. s = ValueIn(mem, q)
  BY <1>1, <1>2 DEF Status
<1>4. /\ HasField(d, "W", w) /\ HasField(s, "MSGVAL", 1)
      /\ \/ f = None \/ OfIt(f, mbox, w)
         \/ HasField(s, "RTSEL", 0) \/ HasField(s, "NEWDAT", 1)
  BY <1>1 DEF Way
<1>5. \A x : << x >> \o << >> = << x >> /\ Head(<< x >>) = x /\ Tail(<< x >>) = << >>
  OBVIOUS
<1>6. << >> \o << >> = << >>
  OBVIOUS
<1>7. CASE j = 7
  <2>1. IsSeq(p) /\ Len(p) = 7 /\ u.todo = From(p, j) /\ j \in 1..Len(p) /\ i = Head(u.todo)
    BY <1>7 DEF IsSend, Place, Does
  <2>2. Moves(p, j, i, u)
    BY <2>1, MovesOn
  <2>3. i = AsksIfValid(mbox) /\ Tail(u.todo) = << >>
    <3>1. j + 1 = Len(p) + 1
      BY <1>7, <2>1
    <3>2. i = p[7] /\ Tail(u.todo) = From(p, Len(p) + 1)
      BY <1>7, <2>2, <3>1 DEF Moves
    <3>3. From(p, Len(p) + 1) = << >>
      BY <2>1, FromEnd
    <3>4. p[7] = AsksIfValid(mbox)
      BY DEF IsSend
    <3> QED BY <3>2, <3>3, <3>4
  <2>4. i.op = "if" /\ i.else = << AsksOnce(mbox) >> /\ i.reg = q /\ i.field = "MSGVAL" /\ i.val = 0
    BY <1>2, <2>3 DEF AsksIfValid
  <2>5. ~Holds(i)
    <3>1. Is(q, "MSGVAL", 1)
      BY <1>3, <1>4, FieldOf
    <3> QED BY <2>4, <3>1 DEF Holds, Is
  <2>6. mem' = mem /\ at'[t].todo = << AsksOnce(mbox) >>
    BY <1>5, <2>3, <2>4, <2>5 DEF Does
  <2>7. Way(s, d, f, g, mbox, w, 8)
    BY <1>4 DEF Way
  <2>8. Comes(t, p, mbox, w, f, g, 8)
    BY <1>1, <2>6, <2>7 DEF Comes, Place, Status, Word
  <2> QED BY <2>8
<1>8. CASE j = 8
  <2>1. i = AsksOnce(mbox) /\ Tail(u.todo) = << >>
    BY <1>5, <1>8 DEF Place, Does
  <2>2. i.op = "if" /\ i.then = << >> /\ i.else = << Asks(mbox) >> /\ i.reg = q /\ i.field = "TXRQ" /\ i.val = 1
    BY <1>2, <2>1 DEF AsksOnce
  <2>3. CASE Holds(i)
    <3>1. mem' = mem /\ at'[t].todo = << >>
      BY <1>6, <2>1, <2>2, <2>3 DEF Does
    <3>2. HasField(s, "TXRQ", 1)
      BY <1>3, <2>2, <2>3, FieldOf DEF Holds
    <3>3. Way(s, d, f, g, mbox, w, 10)
      BY <1>4, <3>2 DEF Way
    <3>4. Comes(t, p, mbox, w, f, g, 10)
      BY <1>1, <3>1, <3>3 DEF Comes, Place, Status, Word
    <3> QED BY <3>4
  <2>4. CASE ~Holds(i)
    <3>1. mem' = mem /\ at'[t].todo = << Asks(mbox) >>
      BY <1>5, <2>1, <2>2, <2>4 DEF Does
    <3>2. Way(s, d, f, g, mbox, w, 9)
      BY <1>4 DEF Way
    <3>3. Comes(t, p, mbox, w, f, g, 9)
      BY <1>1, <3>1, <3>2 DEF Comes, Place, Status, Word
    <3> QED BY <3>3
  <2> QED BY <2>3, <2>4
<1>9. CASE j = 9
  <2> DEFINE v == [TXRQ |-> 1, TXEN0 |-> 1, TXEN1 |-> 1]
  <2>0. u.todo = << Asks(mbox) >> /\ i = Head(u.todo)
    BY <1>9 DEF Place, Does
  <2>1. i = Sets(MOCTR(mbox), v) /\ i.op = "write" /\ Tail(u.todo) = << >>
    <3>1. i = Asks(mbox) /\ Tail(u.todo) = << >>
      BY <1>5, <2>0
    <3> QED BY <3>1 DEF Asks, Sets
  <2>2. HasField(Over(v, s), "TXRQ", 1)
    BY OverField
  <2>3. \A x \in {"MSGVAL", "NEWDAT", "RTSEL"} : \A y : HasField(s, x, y) => HasField(Over(v, s), x, y)
    BY OverField
  <2> HIDE DEF v
  <2>4. Status(mem', mbox) = Over(v, s) /\ Word(mem', mbox) = d
    BY <1>1, <2>1, StatusSet DEF Does
  <2>5. at'[t].todo = << >>
    BY <2>1 DEF Does, Continues
  <2>6. Way(Over(v, s), d, f, g, mbox, w, 10)
    BY <1>4, <2>2, <2>3 DEF Way
  <2>7. Comes(t, p, mbox, w, f, g, 10)
    BY <2>4, <2>5, <2>6 DEF Comes, Place
  <2> QED BY <2>7
<1> QED BY <1>7, <1>8, <1>9
-----------------------------------------------------------------------------
(* The messages and the peripherals *)

Traffic(n, mbox) == Orderly(mem, mbox, n) /\ InFlight(n, mbox) /\ DOMAIN flight = Nodes /\ DOMAIN bus = Nodes

\* The message is on its way as before; it is so if the mailbox is one that transmits.
Remains(n, mbox) == \A w : \A j \in 2..10 : Underway(n, mbox, w, j) => Underway(n, mbox, w, j)'
Stays(n, mbox)   == Flag(mem, mbox, "DIR", Transmit) => Remains(n, mbox)

LEMMA StaysThen ==
  ASSUME NEW n, NEW mbox, Status(mem', mbox) = Status(mem, mbox), Word(mem', mbox) = Word(mem, mbox),
         flight'[n] \in {flight[n], None}, bus'[n] = bus[n]
  PROVE  Remains(n, mbox) /\ Stays(n, mbox)
<1> SUFFICES ASSUME NEW w, NEW j \in 2..10, Underway(n, mbox, w, j) PROVE Underway(n, mbox, w, j)'
  BY DEF Stays, Remains
<1>1. PICK s, d, f, g : s = Status(mem, mbox) /\ d = Word(mem, mbox) /\ f = flight'[n] /\ g = bus[n]
  OBVIOUS
<1>2. f = flight[n] \/ f = None
  BY <1>1
<1>3. Way(s, d, flight[n], g, mbox, w, j)
  BY <1>1 DEF Underway
<1>4. Way(s, d, f, g, mbox, w, j)
  BY <1>2, <1>3 DEF Way
<1> QED BY <1>1, <1>4 DEF Underway

\* What has to do with other registers.
LEMMA TrafficElsewhere ==
  ASSUME NEW n \in Nodes, NEW mbox, Traffic(n, mbox), \A q : OfMessages(q) => Agree(mem', mem, q), bus' = bus,
         DOMAIN flight' = Nodes, \A j \in Nodes : flight'[j] \in {flight[j], None}
  PROVE  Traffic(n, mbox)' /\ Stays(n, mbox)
<1>1. PICK m : m = mem'
  OBVIOUS
<1>2. \A x : OfMessages(MOSTAT(x)) /\ OfMessages(MODATAL(x))
  BY DEF OfMessages, MOSTAT, MODATAL
<1>3. OfMessages(PANCTR) /\ \A r : r[1] = "LIST" => OfMessages(r)
  BY DEF OfMessages
<1>4. \A x : Status(m, x) = Status(mem, x) /\ Word(m, x) = Word(mem, x)
  BY <1>1, <1>2, AgreeingValues DEF Status, Word
<1>5. ValueIn(m, PANCTR) = ValueIn(mem, PANCTR)
  BY <1>1, <1>3, AgreeingValues
<1>6. \A x, f, v : Flag(m, x, f, v) <=> Flag(mem, x, f, v)
  BY <1>4 DEF Flag, Status
<1>7. Orderly(m, mbox, n)
  BY <1>1, <1>3, <1>5, <1>6, OrderlyAgain DEF Traffic
<1>8. \A j \in Nodes : flight'[j] # None => j = n /\ flight'[j].mbox = mbox /\ Flag(m, mbox, "TXRQ", 1)
  BY <1>6 DEF Traffic, InFlight
<1>9. Traffic(n, mbox)'
  BY <1>1, <1>7, <1>8 DEF Traffic, InFlight
<1>10. Stays(n, mbox)
  BY <1>1, <1>4, StaysThen
<1> QED BY <1>9, <1>10

LEMMA ByteAndTraffic ==
  ASSUME NEW n \in Nodes, NEW mbox, Traffic(n, mbox), ByteArrives
  PROVE  Traffic(n, mbox)' /\ Stays(n, mbox)
<1>1. PICK r1, v1, r2, v2 : r1 = US("RBUFSR") /\ r2 = US("RBUF") /\ mem' = Put(r1, v1, Put(r2, v2, mem))
  BY DEF ByteArrives
<1>2. flight' = flight /\ bus' = bus
  BY DEF ByteArrives
<1>3. \A q : OfMessages(q) => q # r1 /\ q # r2
  BY <1>1 DEF OfMessages, US, PANCTR
<1>4. ASSUME NEW q, OfMessages(q) PROVE Agree(mem', mem, q)
  <2>1. PICK o : o = Put(r2, v2, mem)
    OBVIOUS
  <2>2. Agree(o, mem, q)
    BY <1>3, <1>4, <2>1, PutAgrees
  <2>3. mem' = Put(r1, v1, o)
    BY <1>1, <2>1
  <2>4. Agree(mem', o, q)
    <3>1. Agree(Put(r1, v1, o), o, q)
      BY <1>3, <1>4, PutAgrees
    <3> QED BY <2>3, <3>1
  <2> QED BY <2>2, <2>4, AgreeingOn
<1> QED BY <1>2, <1>4, TrafficElsewhere DEF Traffic

LEMMA FailsAndTraffic ==
  ASSUME NEW n \in Nodes, NEW mbox, Traffic(n, mbox), NEW i \in Nodes, NEW off \in BOOLEAN, Fails(i, off)
  PROVE  Traffic(n, mbox)' /\ Stays(n, mbox)
<1>1. PICK r1, v1, r2, v2 : r1 = NSR(i) /\ r2 = NCR(i)
                            /\ (mem' = Put(r1, v1, mem) \/ mem' = Put(r1, v1, Put(r2, v2, mem)))
  BY DEF Fails
<1>2. flight' = [flight EXCEPT ![i] = None] /\ bus' = bus
  BY DEF Fails
<1>3. \A q : OfMessages(q) => q # r1 /\ q # r2
  BY <1>1 DEF OfMessages, NSR, NCR, PANCTR
<1>4. ASSUME NEW q, OfMessages(q) PROVE Agree(mem', mem, q)
  <2>1. PICK o : (o = mem \/ o = Put(r2, v2, mem)) /\ mem' = Put(r1, v1, o)
    BY <1>1
  <2>2. Agree(mem, mem, q)
    BY DEF Agree
  <2>3. Agree(o, mem, q)
    BY <1>3, <1>4, <2>1, <2>2, PutAgrees
  <2>4. Agree(Put(r1, v1, o), o, q)
    BY <1>3, <1>4, PutAgrees
  <2> QED BY <2>1, <2>3, <2>4, AgreeingOn
<1>5. DOMAIN flight' = Nodes /\ \A j \in Nodes : flight'[j] \in {flight[j], None}
  BY <1>2 DEF Traffic
<1> QED BY <1>2, <1>4, <1>5, TrafficElsewhere

LEMMA PanelAndTraffic ==
  ASSUME NEW n \in Nodes, NEW mbox, Traffic(n, mbox), PanelDone
  PROVE  Traffic(n, mbox)' /\ Stays(n, mbox)
<1>1. PICK x, y : x = Field(PANCTR, "PANAR1") /\ y = Field(PANCTR, "PANAR2")
  OBVIOUS
<1>2. PICK q, l : q = PANCTR /\ l = List(x)
  OBVIOUS
<1>3. PICK o, m : /\ o = Put(q, [BUSY |-> 0], mem) /\ m = Put(l, [NODE |-> y - 1], o) /\ m = mem'
  BY <1>1, <1>2 DEF PanelDone
<1>4. Is(q, "BUSY", 1) /\ flight' = flight /\ bus' = bus
  BY <1>2 DEF PanelDone
<1>5. /\ l[1] = "LIST" /\ l[2] = x /\ q[1] = "CAN" /\ q # l
      /\ \A z : MOSTAT(z) # q /\ MOSTAT(z) # l /\ MODATAL(z) # q /\ MODATAL(z) # l
  BY <1>2 DEF List, PANCTR, MOSTAT, MODATAL
<1>6. ASSUME NEW r, r # q, r # l PROVE Agree(m, mem, r)
  <2>1. Agree(o, mem, r)
    BY <1>3, <1>6, PutAgrees
  <2>2. Agree(m, o, r)
    BY <1>3, <1>6, PutAgrees
  <2> QED BY <2>1, <2>2, AgreeingOn
<1>7. \A z : Status(m, z) = Status(mem, z) /\ Word(m, z) = Word(mem, z)
  BY <1>5, <1>6, AgreeingValues DEF Status, Word
<1>8. \A z, f, v : Flag(m, z, f, v) <=> Flag(mem, z, f, v)
  BY <1>7 DEF Flag, Status
<1>9. x = mbox => y = n + 1
  <2>1. HasField(ValueIn(mem, q), "BUSY", 1)
    BY <1>4, FieldOf
  <2>2. PICK a, b : /\ HasField(ValueIn(mem, q), "PANAR1", a) /\ HasField(ValueIn(mem, q), "PANAR2", b)
                    /\ a = mbox => b = n + 1
    BY <1>2, <2>1 DEF Traffic, Orderly
  <2>3. Is(q, "PANAR1", a) /\ Is(q, "PANAR2", b)
    BY <2>2, FieldOf
  <2> QED BY <1>1, <1>2, <2>2, <2>3 DEF Is
<1>10. Holding(m, l, [NODE |-> y - 1], o) /\ ValueIn(m, q) = [BUSY |-> 0]
  <2>1. ValueIn(o, q) = [BUSY |-> 0]
    BY <1>3, ValuePut
  <2>2. ValueIn(m, q) = ValueIn(o, q)
    <3>1. Agree(m, o, q)
      BY <1>3, <1>5, PutAgrees
    <3> QED BY <3>1, AgreeingValues
  <2>3. Holding(m, l, [NODE |-> y - 1], o)
    BY <1>3, PutInto
  <2> QED BY <2>1, <2>2, <2>3
<1>11. ASSUME NEW r \in DOMAIN m, r[1] = "LIST" PROVE r = List(r[2]) /\ (r[2] = mbox => HasField(m[r], "NODE", n))
  <2>1. CASE r = l
    <3>1. m[r] = [NODE |-> y - 1]
      BY <1>10, <2>1 DEF Holding
    <3>2. x = mbox => y - 1 = n
      BY <1>9 DEF Nodes
    <3>3. r = List(r[2]) /\ r[2] = x
      BY <1>2, <1>5, <2>1
    <3> QED BY <3>1, <3>2, <3>3 DEF HasField
  <2>2. CASE r # l
    <3>1. r # q
      BY <1>5, <1>11
    <3>2. r \in DOMAIN mem /\ m[r] = mem[r]
      BY <1>6, <1>11, <2>2, <3>1 DEF Agree
    <3> QED BY <1>11, <3>2 DEF Traffic, Orderly
  <2> QED BY <2>1, <2>2
<1>12. ~HasField(ValueIn(m, q), "BUSY", 1)
  BY <1>10 DEF HasField
<1>13. \A z : Flag(m, z, "TXRQ", 1) => z = mbox /\ Flag(m, z, "TXEN0", 1) /\ Flag(m, z, "TXEN1", 1)
  BY <1>8 DEF Traffic, Orderly
<1>14. Orderly(m, mbox, n)
  BY <1>2, <1>11, <1>12, <1>13 DEF Orderly
<1>15. \A j \in Nodes : flight'[j] # None => j = n /\ flight'[j].mbox = mbox /\ Flag(m, mbox, "TXRQ", 1)
  BY <1>4, <1>8 DEF Traffic, InFlight
<1>16. Traffic(n, mbox)'
  BY <1>3, <1>4, <1>14, <1>15 DEF Traffic, InFlight
<1>17. Stays(n, mbox)
  BY <1>3, <1>4, <1>7, StaysThen
<1> QED BY <1>16, <1>17

\* The controller marks the state of a mailbox.
LEMMA MarksStatus ==
  ASSUME NEW x, NEW bits, NEW m, m = Marks(x, bits)
  PROVE  /\ Status(m, x) = Over(bits, Status(mem, x))
         /\ \A z : Word(m, z) = Word(mem, z) /\ (z # x => Status(m, z) = Status(mem, z))
         /\ \A q : q[1] = "LIST" => Agree(m, mem, q)
         /\ ValueIn(m, PANCTR) = ValueIn(mem, PANCTR)
<1>1. PICK r : r = MOSTAT(x)
  OBVIOUS
<1>2. PICK new : new = Over(bits, ValueIn(mem, r))
  OBVIOUS
<1>3. m = Put(r, new, mem)
  BY <1>1, <1>2 DEF Marks, Value, ValueIn
<1>4. /\ \A z : MODATAL(z) # r /\ (z # x => MOSTAT(z) # r)
      /\ \A q : q[1] = "LIST" => q # r
      /\ PANCTR # r
  BY <1>1 DEF MOSTAT, MODATAL, PANCTR
<1>5. Status(m, x) = new
  BY <1>1, <1>3, ValuePut DEF Status
<1>6. \A q : q # r => Agree(m, mem, q)
  BY <1>3, PutAgrees
<1>7. \A q : q # r => ValueIn(m, q) = ValueIn(mem, q)
  BY <1>6, AgreeingValues
<1> QED BY <1>1, <1>2, <1>4, <1>5, <1>6, <1>7 DEF Status, Word

\* A mailbox that is sent is the one, on its node.
LEMMA ServedOne ==
  ASSUME NEW n \in Nodes, NEW mbox, Traffic(n, mbox), NEW i \in Nodes, NEW m \in Mailboxes, Serves(i, m, Transmit), Sending(m)
  PROVE  m = mbox /\ i = n /\ Flag(mem, mbox, "TXRQ", 1)
<1>1. Is(MOSTAT(m), "TXRQ", 1) /\ Is(List(m), "NODE", i)
  BY DEF Sending, Serves
<1>2. PICK q : q = MOSTAT(m)
  OBVIOUS
<1>3. HasField(ValueIn(mem, q), "TXRQ", 1)
  BY <1>1, <1>2, FieldOf
<1>4. Flag(mem, m, "TXRQ", 1) /\ m = mbox
  BY <1>2, <1>3 DEF Flag, Traffic, Orderly
<1>5. PICK r \in DOMAIN mem : r[1] = "LIST" /\ r[2] = m
  BY DEF Mailboxes
<1>6. r = List(m) /\ HasField(mem[r], "NODE", n)
  BY <1>4, <1>5 DEF Traffic, Orderly
<1>7. Is(r, "NODE", n)
  BY <1>6 DEF Is, Field, Value, HasField
<1> QED BY <1>1, <1>4, <1>6, <1>7 DEF Is

LEMMA StartsAndTraffic ==
  ASSUME NEW n \in Nodes, NEW mbox \in 0..MailboxCount - 1, Traffic(n, mbox), NEW i \in Nodes, Starts(i)
  PROVE  Traffic(n, mbox)' /\ Stays(n, mbox)
<1> DEFINE bits == [NEWDAT |-> 0, RTSEL |-> 1]
<1>1. PICK x \in Mailboxes : /\ flight[i] = None /\ Serves(i, x, Transmit) /\ Sending(x)
                            /\ flight' = [flight EXCEPT ![i] = FrameIn(x)]
                            /\ mem' = Marks(x, bits) /\ bus' = bus
  BY DEF Starts
<1>2. x = mbox /\ i = n /\ Flag(mem, mbox, "TXRQ", 1)
  BY <1>1, ServedOne
<1>3. PICK m : m = mem' /\ m = Marks(mbox, bits)
  BY <1>1, <1>2
<1>4. \A f, v : f \notin {"NEWDAT", "RTSEL"} => (HasField(Over(bits, Status(mem, mbox)), f, v) <=> HasField(Status(mem, mbox), f, v))
  BY OverField
<1> HIDE DEF bits
<1>5. /\ Status(m, mbox) = Over(bits, Status(mem, mbox))
      /\ \A z : Word(m, z) = Word(mem, z) /\ (z # mbox => Status(m, z) = Status(mem, z))
      /\ \A q : q[1] = "LIST" => Agree(m, mem, q)
      /\ ValueIn(m, PANCTR) = ValueIn(mem, PANCTR)
  BY <1>3, MarksStatus
<1>6. \A z, f, v : f \notin {"NEWDAT", "RTSEL"} => (Flag(m, z, f, v) <=> Flag(mem, z, f, v))
  BY <1>4, <1>5 DEF Flag, Status
<1>7. Orderly(m, mbox, n)
  BY <1>5, <1>6, OrderlyAgain DEF Traffic
<1>8. PICK g : g = FrameIn(mbox)
  OBVIOUS
<1>9. g.mbox = mbox /\ g # None /\ g.low = Field(MODATAL(mbox), "W")
  <2>1. g.mbox = mbox /\ g.low = Field(MODATAL(mbox), "W")
    BY <1>8 DEF FrameIn
  <2>2. None.mbox # mbox
    BY DEF None, MailboxCount
  <2> QED BY <2>1, <2>2
<1>10. DOMAIN flight' = Nodes /\ flight'[n] = g /\ \A j \in Nodes : j # n => flight'[j] = flight[j]
  BY <1>1, <1>2, <1>8 DEF Traffic
<1>11. Flag(m, mbox, "TXRQ", 1)
  BY <1>2, <1>6
<1>12. Traffic(n, mbox)'
  BY <1>1, <1>3, <1>7, <1>9, <1>10, <1>11 DEF Traffic, InFlight
<1>13. ASSUME NEW w, NEW j \in 2..10, Underway(n, mbox, w, j) PROVE Underway(n, mbox, w, j)'
  <2>1. PICK s, t, d : s = Status(mem, mbox) /\ t = Status(m, mbox) /\ d = Word(mem, mbox)
    OBVIOUS
  <2>2. Word(m, mbox) = d /\ \A f, v : f \notin {"NEWDAT", "RTSEL"} => (HasField(t, f, v) <=> HasField(s, f, v))
    BY <1>4, <1>5, <2>1
  <2>3. PICK q, e : q = MOSTAT(mbox) /\ e = MODATAL(mbox)
    OBVIOUS
  <2>4. Is(q, "MSGVAL", 1) /\ Is(q, "DIR", Transmit) /\ Transmit # 0
    BY <1>1, <1>2, <2>3 DEF Serves, Transmit
  <2>5. s = ValueIn(mem, q) /\ d = ValueIn(mem, e)
    BY <2>1, <2>3 DEF Status, Word
  <2>6. HasField(s, "MSGVAL", 1) /\ HasField(s, "DIR", Transmit)
    BY <2>4, <2>5, FieldOf
  <2>7. Way(s, d, flight[n], bus[n], mbox, w, j)
    BY <1>13, <2>1 DEF Underway
  <2>8. j >= 7 /\ HasField(d, "W", w)
    BY <2>6, <2>7 DEF Way, HasField
  <2>9. OfIt(g, mbox, w)
    <3>1. Is(e, "W", w)
      BY <2>5, <2>8, FieldOf
    <3> QED BY <1>9, <2>3, <3>1 DEF OfIt, Is
  <2>10. j = 10 => HasField(s, "TXRQ", 1)
    BY <1>2, <2>1 DEF Flag, Status
  <2>11. Way(t, d, g, bus[n], mbox, w, j)
    BY <2>2, <2>6, <2>8, <2>9, <2>10 DEF Way
  <2> QED BY <1>1, <1>3, <1>10, <2>1, <2>2, <2>11 DEF Underway
<1> QED BY <1>12, <1>13 DEF Stays, Remains

\* The request is taken back only when the frame that went out was of the last message.
LEMMA SentAndTraffic ==
  ASSUME NEW n \in Nodes, NEW mbox, Traffic(n, mbox), NEW i \in Nodes, Sent(i)
  PROVE  Traffic(n, mbox)' /\ Stays(n, mbox)
<1> DEFINE bits == [TXRQ |-> 0]
           served == Is(MOSTAT(mbox), "RTSEL", 1) /\ Is(MOSTAT(mbox), "NEWDAT", 0)
<1>1. flight[i] # None
  BY DEF Sent
<1>2. i = n /\ flight[n].mbox = mbox /\ Flag(mem, mbox, "TXRQ", 1)
  BY <1>1 DEF Traffic, InFlight
<1>3. /\ bus' = [bus EXCEPT ![n] = flight[n]] /\ flight' = [flight EXCEPT ![n] = None]
      /\ mem' = Put(NSR(n), [LEC |-> 0], IF served THEN Marks(mbox, bits) ELSE mem)
  BY <1>2 DEF Sent
<1>4. \A f, v : f # "TXRQ" => (HasField(Over(bits, Status(mem, mbox)), f, v) <=> HasField(Status(mem, mbox), f, v))
  BY OverField
<1>5. ~HasField(Over(bits, Status(mem, mbox)), "TXRQ", 1)
  BY OverField
<1> HIDE DEF bits
<1>6. PICK o : o = (IF served THEN Marks(mbox, bits) ELSE mem)
  OBVIOUS
<1>7. PICK r, v, m : r = NSR(n) /\ v = [LEC |-> 0] /\ m = Put(r, v, o) /\ m = mem'
  BY <1>3, <1>6
<1>8. \A q : q # r => Agree(m, o, q)
  BY <1>7, PutAgrees
<1>9. /\ \A z : MOSTAT(z) # r /\ MODATAL(z) # r
      /\ PANCTR # r /\ \A q : q[1] = "LIST" => q # r
  BY <1>7 DEF NSR, MOSTAT, MODATAL, PANCTR
<1>10. /\ \A z : Status(m, z) = Status(o, z) /\ Word(m, z) = Word(o, z)
       /\ ValueIn(m, PANCTR) = ValueIn(o, PANCTR)
  BY <1>8, <1>9, AgreeingValues DEF Status, Word
<1>11. /\ \A z : Word(o, z) = Word(mem, z) /\ (z # mbox => Status(o, z) = Status(mem, z))
       /\ \A q : q[1] = "LIST" => Agree(o, mem, q)
       /\ ValueIn(o, PANCTR) = ValueIn(mem, PANCTR)
       /\ Status(o, mbox) = IF served THEN Over(bits, Status(mem, mbox)) ELSE Status(mem, mbox)
  <2>1. CASE served
    <3>1. o = Marks(mbox, bits)
      BY <1>6, <2>1
    <3> QED BY <2>1, <3>1, MarksStatus
  <2>2. CASE ~served
    BY <1>6, <2>2 DEF Agree
  <2> QED BY <2>1, <2>2
<1> HIDE DEF served
<1>12. \A q : q[1] = "LIST" => Agree(m, mem, q)
  BY <1>8, <1>9, <1>11, AgreeingOn
<1>13. \A z, f, y : f # "TXRQ" => (Flag(m, z, f, y) <=> Flag(mem, z, f, y))
  BY <1>4, <1>10, <1>11 DEF Flag, Status
<1>14. \A z : Flag(m, z, "TXRQ", 1) => Flag(mem, z, "TXRQ", 1)
  BY <1>5, <1>10, <1>11 DEF Flag, Status
<1>15. Orderly(m, mbox, n)
  BY <1>10, <1>11, <1>12, <1>13, <1>14, OrderlyAgain DEF Traffic
<1>16. /\ DOMAIN flight' = Nodes /\ DOMAIN bus' = Nodes /\ flight'[n] = None /\ bus'[n] = flight[n]
       /\ \A j \in Nodes : j # n => flight'[j] = flight[j]
  BY <1>3 DEF Traffic
<1>17. \A j \in Nodes : flight'[j] = None
  BY <1>16 DEF Traffic, InFlight
<1>18. Traffic(n, mbox)'
  BY <1>7, <1>15, <1>16, <1>17 DEF Traffic, InFlight
<1>19. ASSUME NEW w, NEW j \in 2..10, Underway(n, mbox, w, j) PROVE Underway(n, mbox, w, j)'
  <2>1. PICK s, t, d : s = Status(mem, mbox) /\ t = Status(m, mbox) /\ d = Word(mem, mbox)
    OBVIOUS
  <2>2. /\ Word(m, mbox) = d /\ t = (IF served THEN Over(bits, s) ELSE s)
        /\ \A f, y : f # "TXRQ" => (HasField(t, f, y) <=> HasField(s, f, y))
    BY <1>4, <1>10, <1>11, <2>1
  <2>3. Way(s, d, flight[n], bus[n], mbox, w, j)
    BY <1>19, <2>1 DEF Underway
  <2>4. j = 10 => HasField(t, "TXRQ", 1) \/ OfIt(flight[n], mbox, w)
    <3>1. CASE served
      <4>1. PICK q : q = MOSTAT(mbox)
        OBVIOUS
      <4>2. Is(q, "RTSEL", 1) /\ Is(q, "NEWDAT", 0) /\ s = ValueIn(mem, q)
        BY <2>1, <3>1, <4>1 DEF served, Status
      <4>3. ~HasField(s, "RTSEL", 0) /\ ~HasField(s, "NEWDAT", 1)
        BY <4>2, FieldOf DEF Is
      <4> QED BY <1>1, <1>2, <2>3, <4>3 DEF Way
    <3>2. CASE ~served
      BY <1>2, <2>1, <2>2, <3>2 DEF Flag, Status
    <3> QED BY <3>1, <3>2
  <2>5. PICK f, g : f = None /\ g = flight[n]
    OBVIOUS
  <2>6. Way(t, d, f, g, mbox, w, j)
    BY <2>2, <2>3, <2>4, <2>5 DEF Way
  <2> QED BY <1>7, <1>16, <2>1, <2>2, <2>5, <2>6 DEF Underway
<1> QED BY <1>18, <1>19 DEF Stays, Remains

\* A message from a peer does not get into the mailbox while it is being sent.
LEMMA HeardAndTraffic ==
  ASSUME NEW n \in Nodes, NEW mbox, Traffic(n, mbox), NEW i \in Nodes, NEW y, Heard(i, y)
  PROVE  Traffic(n, mbox)' /\ Stays(n, mbox)
<1>1. PICK x, bits :
         /\ x \in Mailboxes /\ Serves(i, x, Receive) /\ bits = Arrival(x)
         /\ mem' = Put(MODATAL(x), [W |-> y], Put(MODATAH(x), [W |-> y], Put(MOFCR(x), [DLC |-> 8], Marks(x, bits))))
         /\ flight' = flight /\ bus' = bus
  BY DEF Heard
<1>2. \A f, v : f \notin {"NEWDAT", "MSGLST"} =>
        (HasField(Over(bits, Status(mem, x)), f, v) <=> HasField(Status(mem, x), f, v))
  BY <1>1, OverField DEF Arrival
<1>3. PICK o, r1, r2, r3, v1, v2 : /\ o = Marks(x, bits) /\ r1 = MOFCR(x) /\ r2 = MODATAH(x) /\ r3 = MODATAL(x)
                                   /\ v1 = [DLC |-> 8] /\ v2 = [W |-> y]
  OBVIOUS
<1>4. PICK o1, o2, m : o1 = Put(r1, v1, o) /\ o2 = Put(r2, v2, o1) /\ m = Put(r3, v2, o2) /\ m = mem'
  BY <1>1, <1>3
<1>5. ASSUME NEW q, q \notin {r1, r2, r3} PROVE Agree(m, o, q)
  <2>1. Agree(o1, o, q) /\ Agree(o2, o1, q) /\ Agree(m, o2, q)
    BY <1>4, <1>5, PutAgrees
  <2> QED BY <2>1, AgreeingOn
<1>6. /\ \A z : MOSTAT(z) \notin {r1, r2, r3} /\ (z # x => MODATAL(z) \notin {r1, r2, r3})
      /\ PANCTR \notin {r1, r2, r3} /\ \A q : q[1] = "LIST" => q \notin {r1, r2, r3}
  BY <1>3 DEF MOFCR, MODATAL, MODATAH, MOSTAT, PANCTR
<1>7. /\ Status(o, x) = Over(bits, Status(mem, x))
      /\ \A z : Word(o, z) = Word(mem, z) /\ (z # x => Status(o, z) = Status(mem, z))
      /\ \A q : q[1] = "LIST" => Agree(o, mem, q)
      /\ ValueIn(o, PANCTR) = ValueIn(mem, PANCTR)
  BY <1>3, MarksStatus
<1>8. /\ \A z : Status(m, z) = Status(o, z) /\ (z # x => Word(m, z) = Word(o, z))
      /\ ValueIn(m, PANCTR) = ValueIn(o, PANCTR)
  BY <1>5, <1>6, AgreeingValues DEF Status, Word
<1>9. \A q : q[1] = "LIST" => Agree(m, mem, q)
  BY <1>5, <1>6, <1>7, AgreeingOn
<1>10. \A z, f, v : f \notin {"NEWDAT", "MSGLST"} => (Flag(m, z, f, v) <=> Flag(mem, z, f, v))
  BY <1>2, <1>7, <1>8 DEF Flag, Status
<1>11. Orderly(m, mbox, n)
  BY <1>7, <1>8, <1>9, <1>10, OrderlyAgain DEF Traffic
<1>12. Traffic(n, mbox)'
  BY <1>1, <1>4, <1>10, <1>11 DEF Traffic, InFlight
<1>13. CASE x # mbox
  <2>1. Status(m, mbox) = Status(mem, mbox) /\ Word(m, mbox) = Word(mem, mbox)
    BY <1>7, <1>8, <1>13
  <2>2. Stays(n, mbox)
    BY <1>1, <1>4, <2>1, StaysThen
  <2> QED BY <1>12, <2>2
<1>14. CASE x = mbox
  <2>1. PICK q : q = MOSTAT(mbox)
    OBVIOUS
  <2>2. Is(q, "DIR", Receive)
    BY <1>1, <1>14, <2>1 DEF Serves
  <2>3. ~HasField(ValueIn(mem, q), "DIR", Transmit)
    BY <2>2, FieldOf DEF Is, Receive, Transmit
  <2> QED BY <1>12, <2>1, <2>3 DEF Stays, Flag
<1> QED BY <1>13, <1>14

LEMMA PeripheralsAndTraffic ==
  ASSUME NEW n \in Nodes, NEW mbox \in 0..MailboxCount - 1, Traffic(n, mbox), Peripherals
  PROVE  Traffic(n, mbox)' /\ Stays(n, mbox)
BY PanelAndTraffic, ByteAndTraffic, StartsAndTraffic, SentAndTraffic, FailsAndTraffic, HeardAndTraffic DEF Peripherals
-----------------------------------------------------------------------------
(* The messages and the tasks *)

\* A task is in the code of its call.
LEMMA InCallsAt ==
  ASSUME Activities, NEW t \in Tasks, at[t].call # 0 => at[t].todo \in Seq(CallCode(CallOf(t))),
         NEW w, IsAt(t, w), NEW C, C = CallCode(Plan.calls[t][w.call])
  PROVE  /\ w.todo \in Seq(C) /\ Head(w.todo) \in C
         /\ \A i \in C : i.op = "if" => i.then \in Seq(C) /\ i.else \in Seq(C)
<1>1. PICK calls : calls = Plan.calls[t]
  OBVIOUS
<1>2. Len(calls) \in Nat /\ \A j \in 1..Len(calls) : IsProgram(calls[j].does)
  <2>1. app \in DOMAIN Applications /\ t \in DOMAIN Applications[app].calls /\ calls = Applications[app].calls[t]
    BY <1>1 DEF Activities, Tasks, Plan
  <2> QED BY <2>1, CodeOfTask
<1>3. w.call \in 1..Len(calls) /\ w.todo # << >>
  BY <1>1 DEF IsAt
<1>4. PICK p : p = calls[w.call].does
  OBVIOUS
<1>5. p \in Seq(Code(p)) /\ \A i \in Code(p) : i.op = "if" => i.then \in Seq(Code(p)) /\ i.else \in Seq(Code(p))
  BY <1>2, <1>3, <1>4, CodeClosed
<1>6. C = Code(p)
  BY <1>1, <1>4 DEF CallCode
<1>7. w.todo \in Seq(C)
  <2>1. CASE at[t].todo # << >> /\ w.call = at[t].call /\ w.todo = at[t].todo
    BY <1>2, <1>3, <2>1 DEF CallOf
  <2>2. CASE at[t].todo = << >> /\ w.todo = Plan.calls[t][w.call].does
    BY <1>1, <1>4, <1>5, <1>6, <2>2
  <2> QED BY <2>1, <2>2 DEF IsAt
<1>8. Head(w.todo) \in C
  BY <1>3, <1>7
<1> QED BY <1>5, <1>6, <1>7, <1>8

\* When the sender lives, the main task is behind the call that created it.
LEMMA MainBehind ==
  ASSUME Activities, NEW s, NEW n, NEW mbox, NEW k, Sender(s, n, mbox, k), InCalls(s, k), s \in live,
         NEW w, IsAt("main", w)
  PROVE  w.call > k
<1>1. PICK calls : calls = Plan.calls["main"]
  OBVIOUS
<1>2. "main" \in Tasks /\ k \in 1..Len(calls) /\ Plan.from["main"] \notin 1..k
  BY <1>1 DEF Sender
<1>3. Len(calls) \in Nat
  <2>1. app \in DOMAIN Applications /\ "main" \in DOMAIN Applications[app].calls /\ calls = Applications[app].calls["main"]
    BY <1>1, <1>2 DEF Activities, Tasks, Plan
  <2> QED BY <2>1, CodeOfTask
<1>4. w.call \in 1..Len(calls) /\ at["main"].call \in 0..Len(calls) /\ at["main"].call >= k
  BY <1>1, <1>2 DEF IsAt, Activities, InCalls
<1>5. CASE at["main"].todo # << >> /\ w.call = at["main"].call
  <2>1. at["main"].call # k
    BY <1>5 DEF InCalls
  <2> QED BY <1>2, <1>3, <1>4, <1>5, <2>1
<1>6. CASE w.call = Following("main")
  <2>1. w.call = at["main"].call + 1 \/ w.call = Plan.from["main"]
    BY <1>6 DEF Following
  <2> QED BY <1>2, <1>3, <1>4, <2>1
<1> QED BY <1>5, <1>6 DEF IsAt

LEMMA InCallsStepped ==
  ASSUME Activities, DOMAIN acc = Tasks, NEW s, NEW n, NEW mbox, NEW k, Sender(s, n, mbox, k), InCalls(s, k),
         NEW t \in Tasks, Step(t)
  PROVE  InCalls(s, k)'
<1>1. PICK w, i, x : IsAt(t, w) /\ Executed(t, w, i, x) /\ w = Goes(t)
  BY Executes
<1>2. Plan' = Plan /\ Tasks' = Tasks /\ at'[t] = x /\ \A u \in Tasks \ {t} : at'[u] = at[u]
  BY <1>1, ActivitiesStepped
<1>3. i = Head(w.todo) /\ x.call = w.call
  BY <1>1 DEF Executed
<1>4. at'[t].call = w.call /\ \A C : StaysIn(t, w, C)
  BY <1>1, <1>3, StepContinues DEF Continues
<1>5. /\ i.op = "create" => live' = live \cup {i.task} /\ at'[t].todo = Tail(w.todo)
      /\ i.op # "create" => live' = live
      /\ t \in live
  BY <1>1, <1>3, StepForks
<1>6. PICK C : C = CallCode(Plan.calls[t][w.call])
  OBVIOUS
<1>7. /\ w.todo \in Seq(C) /\ i \in C
      /\ \A j \in C : j.op = "if" => j.then \in Seq(C) /\ j.else \in Seq(C)
  BY <1>1, <1>3, <1>6, InCallsAt DEF InCalls
<1>8. s \in Tasks \ {"main"} /\ "main" \in Tasks /\ k \in 1..Len(Plan.calls["main"])
      /\ Plan.calls["main"][k].does = Create(s)
  BY DEF Sender
<1>9. w.call \in 1..Len(Plan.calls[t]) /\ w.call \in Int /\ k \in Int
  BY <1>1, <1>8 DEF IsAt
<1>10. ASSUME NEW u \in Tasks, at'[u].call # 0 PROVE at'[u].todo \in Seq(CallCode(CallOf(u)'))
  <2>1. CASE u = t
    <3>1. CallOf(u)' = Plan.calls[t][w.call]
      BY <1>2, <1>4, <2>1 DEF CallOf
    <3>2. at'[t].todo \in Seq(C)
      BY <1>4, <1>7 DEF StaysIn
    <3> QED BY <1>6, <2>1, <3>1, <3>2
  <2>2. CASE u # t
    <3>1. at'[u] = at[u] /\ CallOf(u)' = CallOf(u)
      BY <1>2, <2>2 DEF CallOf
    <3> QED BY <1>10, <3>1 DEF InCalls
  <2> QED BY <2>1, <2>2
<1>11. ASSUME at'["main"].call = k PROVE at'["main"].todo = << >>
  <2>1. CASE t # "main"
    BY <1>2, <1>8, <1>11, <2>1 DEF InCalls
  <2>2. CASE t = "main"
    <3>1. w.call = k
      BY <1>4, <1>11, <2>2
    <3>2. w.todo = Create(s)
      <4>1. ~(at["main"].todo # << >> /\ w.call = at["main"].call)
        BY <3>1 DEF InCalls
      <4> QED BY <1>1, <1>8, <2>2, <3>1, <4>1 DEF IsAt
    <3>3. PICK a : a = [op |-> "create", task |-> s]
      OBVIOUS
    <3>4. w.todo = << a >>
      BY <3>2, <3>3 DEF Create
    <3>5. i = a /\ Tail(w.todo) = << >>
      BY <1>3, <3>4
    <3>6. i.op = "create"
      BY <3>3, <3>5
    <3> QED BY <1>5, <2>2, <3>5, <3>6
  <2> QED BY <2>1, <2>2
<1>12. ASSUME s \in live' PROVE at'["main"].call >= k
  <2>1. CASE s \in live
    <3>1. CASE t = "main"
      <4>1. w.call > k
        BY <1>1, <2>1, <3>1, MainBehind
      <4> QED BY <1>4, <1>9, <3>1, <4>1
    <3>2. CASE t # "main"
      BY <1>2, <1>8, <2>1, <3>2 DEF InCalls
    <3> QED BY <3>1, <3>2
  <2>2. CASE s \notin live
    <3>1. i.op = "create" /\ i.task = s
      BY <1>5, <1>12, <2>2
    <3>2. i.op = "create" => i.task # s \/ (t = "main" /\ w.call = k)
      BY <1>6, <1>7, <1>9 DEF Sender
    <3> QED BY <1>4, <1>9, <3>1, <3>2
  <2> QED BY <2>1, <2>2
<1>13. ASSUME at'[s].call # 0 PROVE s \in live'
  <2>1. live \subseteq live'
    BY <1>5
  <2>2. CASE s = t
    BY <1>5, <2>1, <2>2
  <2>3. CASE s # t
    BY <1>2, <1>8, <1>13, <2>1, <2>3 DEF InCalls
  <2> QED BY <2>2, <2>3
<1> QED BY <1>2, <1>10, <1>11, <1>12, <1>13 DEF InCalls

LEMMA TrafficStepped ==
  ASSUME Activities, NEW s, NEW n, NEW mbox, NEW k, Sender(s, n, mbox, k), InCalls(s, k), Traffic(n, mbox),
         NEW t \in Tasks, Step(t)
  PROVE  Traffic(n, mbox)'
<1>1. PICK w, i, x : IsAt(t, w) /\ Executed(t, w, i, x)
  BY Executes
<1>2. i = Head(w.todo) /\ Effect(t, i) /\ flight' = flight /\ bus' = bus
  BY <1>1 DEF Executed
<1>3. PICK C : C = CallCode(Plan.calls[t][w.call])
  OBVIOUS
<1>4. i \in C /\ w.call \in 1..Len(Plan.calls[t])
  <2>1. w.call \in 1..Len(Plan.calls[t])
    BY <1>1 DEF IsAt
  <2> QED BY <1>1, <1>2, <1>3, <2>1, InCallsAt DEF InCalls
<1>5. RequestsOnly(mbox, n, i)
  BY <1>3, <1>4 DEF Sender
<1>6. Orderly(mem', mbox, n) /\ (Flag(mem, mbox, "TXRQ", 1) => Flag(mem', mbox, "TXRQ", 1))
  BY <1>2, <1>5, EffectOrderly DEF Traffic
<1> QED BY <1>2, <1>6 DEF Traffic, InFlight

\* The other tasks leave the message on its way, and the sender goes on with it.
LEMMA PlaceStepped ==
  ASSUME Activities, DOMAIN acc = Tasks, NEW s, NEW n, NEW mbox, NEW k, Sender(s, n, mbox, k), InCalls(s, k),
         OnItsPlace(s, n, mbox), NEW t \in Tasks, Step(t)
  PROVE  OnItsPlace(s, n, mbox)'
<1>1. PICK w, i, x : IsAt(t, w) /\ Executed(t, w, i, x) /\ w = Goes(t)
  BY Executes
<1>2. Plan' = Plan /\ Tasks' = Tasks /\ at'[t] = x /\ \A u \in Tasks \ {t} : at'[u] = at[u]
  BY <1>1, ActivitiesStepped
<1>3. i = Head(w.todo) /\ Effect(t, i) /\ flight' = flight /\ bus' = bus
  BY <1>1 DEF Executed
<1>4. Does(t, w, i) /\ at'[t].call = w.call
  <2>1. Continues(t, w, i)
    BY <1>1, <1>3, StepContinues
  <2>2. i.op = "if" => mem' = mem /\ at'[t].todo = (IF Holds(i) THEN i.then ELSE i.else) \o Tail(w.todo)
    BY <1>1, <1>3, StepForks
  <2> QED BY <1>3, <2>1, <2>2 DEF Does, Continues
<1>5. PICK C : C = CallCode(Plan.calls[t][w.call])
  OBVIOUS
<1>6. i \in C /\ w.call \in 1..Len(Plan.calls[t]) /\ w.todo # << >>
  <2>1. w.call \in 1..Len(Plan.calls[t]) /\ w.todo # << >>
    BY <1>1 DEF IsAt
  <2> QED BY <1>1, <1>3, <1>5, <2>1, InCallsAt DEF InCalls
<1>7. s \in Tasks \ {"main"} /\ mbox \in 0..MailboxCount - 1
  BY DEF Sender
<1>8. CASE t # s
  <2>1. at'[s] = at[s] /\ CallOf(s)' = CallOf(s)
    BY <1>2, <1>7, <1>8 DEF CallOf
  <2>2. ASSUME at[s].call # 0, CallOf(s).what = "send"
        PROVE  \E j \in 2..10 : Place(at'[s].todo, CallOf(s).does, mbox, j) /\ Underway(n, mbox, CallOf(s).low, j)'
    <3>1. s \in live
      BY <2>2 DEF InCalls
    <3>2. t = "main" => w.call > k
      BY <1>1, <3>1, MainBehind
    <3>3. RequestsOnly(mbox, n, i) /\ Avoids(mbox, i)
      BY <1>5, <1>6, <1>8, <3>2 DEF Sender
    <3>4. Status(mem', mbox) = Status(mem, mbox) /\ Word(mem', mbox) = Word(mem, mbox)
      BY <1>3, <3>3, AvoidsKeeps, MailboxRegisters DEF Status, Word
    <3>5. Remains(n, mbox)
      BY <1>3, <3>4, StaysThen
    <3>6. PICK j \in 2..10 : Place(at[s].todo, CallOf(s).does, mbox, j) /\ Underway(n, mbox, CallOf(s).low, j)
      BY <2>2 DEF OnItsPlace
    <3> QED BY <2>1, <3>5, <3>6 DEF Remains
  <2> QED BY <2>1, <2>2 DEF OnItsPlace
<1>9. CASE t = s
  <2>1. PICK c : c = Plan.calls[s][w.call]
    OBVIOUS
  <2>2. CallOf(s)' = c /\ at'[s].call = w.call
    BY <1>2, <1>4, <1>9, <2>1 DEF CallOf
  <2>3. ASSUME c.what = "send"
        PROVE  \E l \in 2..10 : Comes(s, c.does, mbox, c.low, flight[n], bus[n], l)
    <3>1. PICK dlc \in 0..8 : c.does = send(mbox, c.low, c.high, dlc)
      BY <1>6, <1>7, <1>9, <2>1, <2>3 DEF Sender
    <3>2. PICK p, word, high : p = c.does /\ word = c.low /\ high = c.high
      OBVIOUS
    <3>3. IsSend(p, mbox, word, high, dlc)
      BY <1>7, <3>1, <3>2, SendOf
    <3>4. PICK f, g : f = flight[n] /\ g = bus[n]
      OBVIOUS
    <3>5. \E j \in 1..9 : Place(w.todo, p, mbox, j) /\ Way(Status(mem, mbox), Word(mem, mbox), f, g, mbox, word, j)
      <4>1. CASE at[s].todo # << >> /\ w.call = at[s].call /\ w.todo = at[s].todo
        <5>1. CallOf(s) = c /\ at[s].call # 0
          BY <1>6, <2>1, <4>1 DEF CallOf
        <5>2. PICK j \in 2..10 : Place(at[s].todo, c.does, mbox, j) /\ Underway(n, mbox, c.low, j)
          BY <2>3, <5>1 DEF OnItsPlace
        <5>3. j # 10
          BY <4>1, <5>2 DEF Place
        <5> QED BY <3>2, <3>4, <4>1, <5>2, <5>3 DEF Underway
      <4>2. CASE at[s].todo = << >> /\ w.todo = Plan.calls[s][w.call].does
        <5>1. w.todo = From(p, 1)
          BY <2>1, <3>2, <3>3, <4>2, FromEnd DEF IsSend
        <5>2. Place(w.todo, p, mbox, 1) /\ Way(Status(mem, mbox), Word(mem, mbox), f, g, mbox, word, 1)
          BY <5>1 DEF Place, Way
        <5> QED BY <5>2
      <4> QED BY <1>1, <1>9, <4>1, <4>2 DEF IsAt
    <3>6. PICK j \in 1..9 : Place(w.todo, p, mbox, j) /\ Way(Status(mem, mbox), Word(mem, mbox), f, g, mbox, word, j)
      BY <3>5
    <3>7. CASE j \in 1..6
      <4>1. w.todo = From(p, j)
        BY <3>6, <3>7 DEF Place
      <4> QED BY <1>4, <1>9, <3>2, <3>3, <3>4, <3>6, <3>7, <4>1, SendFills
    <3>8. CASE j \in 7..9
      BY <1>4, <1>9, <3>2, <3>3, <3>4, <3>6, <3>8, SendRequests
    <3> QED BY <3>7, <3>8
  <2> QED BY <1>3, <2>2, <2>3 DEF OnItsPlace, Comes, Underway
<1> QED BY <1>8, <1>9

LEMMA SenderOf ==
  ASSUME app \in DOMAIN Applications, NEW s, NEW n \in Nodes, NEW mbox \in 0..MailboxCount - 1, NEW k, SendsFrom(app, s, n, mbox, k)
  PROVE  Sender(s, n, mbox, k)
<1>1. PICK calls : calls = Applications[app].calls
  OBVIOUS
<1>2. Tasks = DOMAIN calls /\ Plan.calls = calls /\ Plan.from = Applications[app].from
  BY <1>1 DEF Tasks, Plan
<1>3. ASSUME NEW t \in DOMAIN calls PROVE DOMAIN calls[t] = 1..Len(calls[t])
  <2>1. PICK c : c = Applications[app].calls[t]
    OBVIOUS
  <2> QED BY <1>1, <2>1, CodeOfTask
<1>4. /\ s \in DOMAIN calls \ {"main"} /\ "main" \in DOMAIN calls /\ k \in DOMAIN calls["main"]
      /\ calls["main"][k].does = Create(s) /\ Applications[app].from["main"] \notin 1..k
      /\ \A t \in DOMAIN calls : \A j \in DOMAIN calls[t] : LET c == calls[t][j] IN
           /\ c.what = "send" => t = s /\ c.mbox = mbox /\ \E dlc \in 0..8 : c.does = send(mbox, c.low, c.high, dlc)
           /\ \A i \in Code(c.does) :
                /\ RequestsOnly(mbox, n, i)
                /\ i.op = "create" => i.task # s \/ (t = "main" /\ j = k)
                /\ t # s /\ (t # "main" \/ j > k) => Avoids(mbox, i)
  BY <1>1 DEF SendsFrom
<1> QED BY <1>2, <1>3, <1>4 DEF Sender, CallCode

\* What holds of the message when the function has returned.
LEMMA SendOver ==
  ASSUME NEW s, NEW n, NEW mbox, NEW k, Sender(s, n, mbox, k), Traffic(n, mbox), OnItsPlace(s, n, mbox), Activities,
         IsOver(s, "send"), NEW c, c = CallOf(s)
  PROVE  \/ OfIt(bus[n], mbox, c.low)
         \/ OfIt(FrameIn(mbox), mbox, c.low) /\ Sending(mbox) /\ Is(MOSTAT(mbox), "MSGVAL", 1)
<1>1. at[s].call # 0 /\ at[s].todo = << >> /\ c.what = "send"
  BY DEF IsOver, CallOf
<1>2. PICK j \in 2..10 : Place(<< >>, c.does, mbox, j) /\ Underway(n, mbox, c.low, j)
  BY <1>1 DEF OnItsPlace
<1>3. s \in Tasks /\ mbox \in 0..MailboxCount - 1 /\ at[s].call \in 1..Len(Plan.calls[s])
  <2>1. s \in Tasks /\ mbox \in 0..MailboxCount - 1
    BY DEF Sender
  <2>2. at[s].call \in 0..Len(Plan.calls[s])
    BY <2>1 DEF Activities
  <2>3. Len(Plan.calls[s]) \in Nat
    BY <2>1, CodeOfTask DEF Activities, Tasks, Plan
  <2> QED BY <1>1, <2>1, <2>2, <2>3
<1>4. j = 10
  <2>1. PICK dlc \in 0..8 : c.does = send(mbox, c.low, c.high, dlc)
    BY <1>1, <1>3 DEF Sender, CallOf
  <2>2. PICK p, word, high : p = c.does /\ word = c.low /\ high = c.high
    OBVIOUS
  <2>3. IsSend(p, mbox, word, high, dlc)
    BY <1>3, <2>1, <2>2, SendOf
  <2>4. j \notin 2..7
    <3>1. ASSUME j \in 2..7 PROVE FALSE
      <4>1. << >> = From(p, j)
        BY <1>2, <2>2, <3>1 DEF Place
      <4>2. IsSeq(p) /\ j \in 1..Len(p)
        BY <2>3, <3>1 DEF IsSend
      <4> QED BY <4>1, <4>2, FromHere
    <3> QED BY <3>1
  <2>5. \A x : << x >> # << >>
    OBVIOUS
  <2>6. j \notin {8, 9}
    BY <1>2, <2>5 DEF Place
  <2> QED BY <2>4, <2>6
<1>5. PICK t, d : t = Status(mem, mbox) /\ d = Word(mem, mbox)
  OBVIOUS
<1>6. Way(t, d, flight[n], bus[n], mbox, c.low, 10)
  BY <1>2, <1>4, <1>5 DEF Underway
<1>7. HasField(d, "W", c.low) /\ HasField(t, "MSGVAL", 1) /\ (HasField(t, "TXRQ", 1) \/ OfIt(bus[n], mbox, c.low))
  BY <1>6 DEF Way
<1>8. ASSUME HasField(t, "TXRQ", 1)
      PROVE  OfIt(FrameIn(mbox), mbox, c.low) /\ Sending(mbox) /\ Is(MOSTAT(mbox), "MSGVAL", 1)
  <2>1. PICK q, e : q = MOSTAT(mbox) /\ e = MODATAL(mbox)
    OBVIOUS
  <2>2. t = ValueIn(mem, q) /\ d = ValueIn(mem, e)
    BY <1>5, <2>1 DEF Status, Word
  <2>3. HasField(t, "TXEN0", 1) /\ HasField(t, "TXEN1", 1)
    <3>1. Flag(mem, mbox, "TXRQ", 1)
      BY <1>8, <2>1, <2>2 DEF Flag
    <3>2. Flag(mem, mbox, "TXEN0", 1) /\ Flag(mem, mbox, "TXEN1", 1)
      BY <3>1 DEF Traffic, Orderly
    <3> QED BY <2>1, <2>2, <3>2 DEF Flag
  <2>4. Is(q, "TXRQ", 1) /\ Is(q, "TXEN0", 1) /\ Is(q, "TXEN1", 1) /\ Is(q, "MSGVAL", 1) /\ Is(e, "W", c.low)
    BY <1>7, <1>8, <2>2, <2>3, FieldOf
  <2>5. PICK f : f = FrameIn(mbox)
    OBVIOUS
  <2>6. f.mbox = mbox /\ f.low = c.low
    BY <2>1, <2>4, <2>5 DEF FrameIn, Is
  <2>7. None.mbox # mbox
    BY <1>3 DEF None, MailboxCount
  <2>8. f # None
    BY <2>6, <2>7
  <2>9. Sending(mbox)
    BY <2>1, <2>4 DEF Sending
  <2> QED BY <2>1, <2>4, <2>5, <2>6, <2>8, <2>9 DEF OfIt
<1> QED BY <1>7, <1>8

-----------------------------------------------------------------------------
(* The mailbox that is set up *)

HasId(m, mbox, n) == HasField(ValueIn(m, MOAR(mbox)), "ID", Id(n))

Ready(m, mbox, n) == HasId(m, mbox, n) /\ Flag(m, mbox, "DIR", Transmit)

\* The accesses of configure_mbox.
IsConfigure(p, mbox, n) ==
  /\ IsSeq(p) /\ Len(p) = 8 /\ \A j \in 1..8 : p[j].op \in {"write", "await"}
  /\ p[3] = Sets(MOAR(mbox), [ID |-> Id(n)])
  /\ p[5] = Sets(MOCTR(mbox), [DIR |-> Transmit])

LEMMA ConfigureOf ==
  ASSUME NEW n, NEW mbox \in 0..MailboxCount - 1, NEW id, id = Id(n), NEW mask,
         NEW p, p = configure_mbox(n, mbox, id, mask, Transmit)
  PROVE  IsConfigure(p, mbox, n)
<1>0. PICK short : short = id % 2048
  OBVIOUS
<1>1. \A r, v : Write(r, v) = << Sets(r, v) >> /\ Sets(r, v).op = "write"
  BY DEF Write, Sets
<1>2. PICK a1, a2, a3, a4 : /\ a1 = Sets(MOIPR(mbox), [MPN |-> mbox]) /\ a2 = Sets(MOCTR(mbox), [MSGVAL |-> 0])
                           /\ a3 = Sets(MOAR(mbox), [ID |-> short]) /\ a4 = Sets(MOAMR(mbox), [AM |-> mask])
  OBVIOUS
<1>3. PICK a5, a6, a7, a8 : /\ a5 = Sets(MOCTR(mbox), [DIR |-> Transmit])
                           /\ a6 = Sets(MOCTR(mbox), [TXEN0 |-> 1, TXEN1 |-> 1, MSGVAL |-> 1, RXEN |-> 1, RTSEL |-> 0])
                           /\ a7 = Sets(PANCTR, [PANCMD |-> 2, PANAR1 |-> mbox, PANAR2 |-> n + 1, BUSY |-> 1])
                           /\ a8 = [op |-> "await", reg |-> PANCTR, field |-> "BUSY", val |-> 0]
  OBVIOUS
<1>4. PICK q1 : q1 = Write(MOIPR(mbox), [MPN |-> mbox])
  OBVIOUS
<1>5. IsSeq(q1) /\ Len(q1) = 1 /\ q1[1] = a1
  BY <1>1, <1>2, <1>4, SeqsOfOne
<1>6. PICK q2 : q2 = q1 \o Write(MOCTR(mbox), [MSGVAL |-> 0])
  OBVIOUS
<1>7. IsSeq(q2) /\ Len(q2) = 2 /\ q2[2] = a2 /\ \A j \in 1..1 : q2[j] = q1[j]
  <2>1. q2 = q1 \o << a2 >>
    BY <1>1, <1>2, <1>6
  <2>2. GrownByOne(q2, q1, 1, a2)
    BY <1>5, <2>1, OneBehind
  <2> QED BY <1>5, <2>2 DEF GrownByOne
<1>8. PICK q3 : q3 = q2 \o Write(MOAR(mbox), [ID |-> short])
  OBVIOUS
<1>9. IsSeq(q3) /\ Len(q3) = 3 /\ q3[3] = a3 /\ \A j \in 1..2 : q3[j] = q2[j]
  <2>1. q3 = q2 \o << a3 >>
    BY <1>1, <1>2, <1>8
  <2>2. GrownByOne(q3, q2, 2, a3)
    BY <1>7, <2>1, OneBehind
  <2> QED BY <1>7, <2>2 DEF GrownByOne
<1>10. PICK q4 : q4 = q3 \o Write(MOAMR(mbox), [AM |-> mask])
  OBVIOUS
<1>11. IsSeq(q4) /\ Len(q4) = 4 /\ q4[4] = a4 /\ \A j \in 1..3 : q4[j] = q3[j]
  <2>1. q4 = q3 \o << a4 >>
    BY <1>1, <1>2, <1>10
  <2>2. GrownByOne(q4, q3, 3, a4)
    BY <1>9, <2>1, OneBehind
  <2> QED BY <1>9, <2>2 DEF GrownByOne
<1>12. PICK q5 : q5 = q4 \o Write(MOCTR(mbox), [DIR |-> Transmit])
  OBVIOUS
<1>13. IsSeq(q5) /\ Len(q5) = 5 /\ q5[5] = a5 /\ \A j \in 1..4 : q5[j] = q4[j]
  <2>1. q5 = q4 \o << a5 >>
    BY <1>1, <1>3, <1>12
  <2>2. GrownByOne(q5, q4, 4, a5)
    BY <1>11, <2>1, OneBehind
  <2> QED BY <1>11, <2>2 DEF GrownByOne
<1>14. PICK q6 : q6 = q5 \o Write(MOCTR(mbox), [TXEN0 |-> 1, TXEN1 |-> 1, MSGVAL |-> 1, RXEN |-> 1, RTSEL |-> 0])
  OBVIOUS
<1>15. IsSeq(q6) /\ Len(q6) = 6 /\ q6[6] = a6 /\ \A j \in 1..5 : q6[j] = q5[j]
  <2>1. q6 = q5 \o << a6 >>
    BY <1>1, <1>3, <1>14
  <2>2. GrownByOne(q6, q5, 5, a6)
    BY <1>13, <2>1, OneBehind
  <2> QED BY <1>13, <2>2 DEF GrownByOne
<1>16. PICK q7 : q7 = q6 \o Write(PANCTR, [PANCMD |-> 2, PANAR1 |-> mbox, PANAR2 |-> n + 1, BUSY |-> 1])
  OBVIOUS
<1>17. IsSeq(q7) /\ Len(q7) = 7 /\ q7[7] = a7 /\ \A j \in 1..6 : q7[j] = q6[j]
  <2>1. q7 = q6 \o << a7 >>
    BY <1>1, <1>3, <1>16
  <2>2. GrownByOne(q7, q6, 6, a7)
    BY <1>15, <2>1, OneBehind
  <2> QED BY <1>15, <2>2 DEF GrownByOne
<1>18. IsSeq(p) /\ Len(p) = 8 /\ p[8] = a8 /\ \A j \in 1..7 : p[j] = q7[j]
  <2>1. ~(mbox >= MailboxCount)
    BY DEF MailboxCount
  <2>2. p = q7 \o Await(PANCTR, "BUSY", 0)
    <3>1. p = Write(MOIPR(mbox), [MPN |-> mbox])
              \o Write(MOCTR(mbox), [MSGVAL |-> 0])
              \o Write(MOAR(mbox), [ID |-> id % 2048])
              \o Write(MOAMR(mbox), [AM |-> mask])
              \o Write(MOCTR(mbox), [DIR |-> Transmit])
              \o Write(MOCTR(mbox), [TXEN0 |-> 1, TXEN1 |-> 1, MSGVAL |-> 1, RXEN |-> 1, RTSEL |-> 0])
              \o Write(PANCTR, [PANCMD |-> 2, PANAR1 |-> mbox, PANAR2 |-> n + 1, BUSY |-> 1])
              \o Await(PANCTR, "BUSY", 0)
      BY <2>1, Zenon DEF configure_mbox
    <3> QED BY <1>0, <3>1, <1>4, <1>6, <1>8, <1>10, <1>12, <1>14, <1>16
  <2>3. p = q7 \o << a8 >>
    BY <1>3, <2>2 DEF Await
  <2>4. GrownByOne(p, q7, 7, a8)
    BY <1>17, <2>3, OneBehind
  <2> QED BY <1>17, <2>4 DEF GrownByOne
<1>19. p[1] = a1 /\ p[2] = a2 /\ p[3] = a3 /\ p[4] = a4 /\ p[5] = a5 /\ p[6] = a6 /\ p[7] = a7
  BY <1>5, <1>7, <1>9, <1>11, <1>13, <1>15, <1>17, <1>18
<1>20. short = Id(n)
  BY <1>0 DEF Id
<1>21. \A j \in 1..8 : p[j].op \in {"write", "await"}
  <2>1. a8.op = "await" /\ \A a \in {a1, a2, a3, a4, a5, a6, a7} : a.op = "write"
    BY <1>1, <1>2, <1>3
  <2>2. \A j \in 1..8 : p[j] \in {a1, a2, a3, a4, a5, a6, a7, a8}
    BY <1>18, <1>19
  <2> QED BY <2>1, <2>2
<1> QED BY <1>2, <1>3, <1>18, <1>19, <1>20, <1>21 DEF IsConfigure

\* What an access does to the flags of a mailbox.
LEMMA FlagsStepped ==
  ASSUME NEW t, NEW i, Effect(t, i), NEW x,
         ~Changes(i, {"MOSTAT"}, x), Changes(i, {"MOCTR"}, x) => i.op = "write"
  PROVE  \/ \A f, v : Flag(mem', x, f, v) <=> Flag(mem, x, f, v)
         \/ /\ Changes(i, {"MOCTR"}, x)
            /\ \A f, v : /\ f \notin DOMAIN i.new => (Flag(mem', x, f, v) <=> Flag(mem, x, f, v))
                         /\ f \in DOMAIN i.new => (Flag(mem', x, f, v) <=> i.new[f] = v)
<1>1. PICK q : q = MOSTAT(x)
  OBVIOUS
<1>2. q[1] = "MOSTAT" /\ q[2] = x /\ OfMessages(q) /\ \A y : MOSTAT(y)[2] = y
  BY <1>1 DEF MOSTAT, OfMessages
<1>3. CASE ~WritesTo(i, q)
  <2>1. ValueIn(mem', q) = ValueIn(mem, q)
    BY <1>2, <1>3, LeftAlone
  <2> QED BY <1>1, <2>1 DEF Flag
<1>4. CASE WritesTo(i, q)
  <2>1. i.reg[1] = "MOCTR" /\ i.reg[2] = x /\ Changes(i, {"MOCTR"}, x)
    BY <1>2, <1>4 DEF WritesTo, Changes
  <2>2. PICK r, v : r = i.reg /\ v = i.new
    OBVIOUS
  <2>3. i.op = "write"
    BY <2>1
  <2>4. PICK m : m = mem' /\ m = Written(r, v)
    BY <2>2, <2>3 DEF Effect
  <2>5. PICK old : old = ValueIn(mem, q)
    OBVIOUS
  <2>6. m = Put(q, Over(v, old), mem)
    BY <1>1, <2>1, <2>2, <2>4, <2>5, WrittenHere
  <2>7. ValueIn(mem', q) = Over(v, old)
    BY <2>4, <2>6, ValuePut
  <2>8. \A f, y : /\ f \notin DOMAIN v => (HasField(Over(v, old), f, y) <=> HasField(old, f, y))
                  /\ f \in DOMAIN v => (HasField(Over(v, old), f, y) <=> v[f] = y)
    BY OverField
  <2> QED BY <1>1, <2>1, <2>2, <2>5, <2>7, <2>8 DEF Flag
<1> QED BY <1>3, <1>4

\* An access gives the register this value if it writes to it.
LEMMA RegisterStepped ==
  ASSUME NEW t, NEW i, Effect(t, i), NEW q, q[1] \in {"MODATAL", "MODATAH", "MOFCR", "MOAR"}
  PROVE  \/ ValueIn(mem', q) = ValueIn(mem, q)
         \/ Changes(i, {q[1]}, q[2]) /\ (i.op = "write" => ValueIn(mem', q) = i.new)
<1>1. OfMessages(q) /\ \A y : MOSTAT(y) # q
  BY DEF OfMessages, MOSTAT
<1>2. CASE ~WritesTo(i, q)
  BY <1>1, <1>2, LeftAlone
<1>3. CASE WritesTo(i, q)
  <2>1. i.reg = q /\ Changes(i, {q[1]}, q[2])
    BY <1>1, <1>3 DEF WritesTo, Changes
  <2>2. ASSUME i.op = "write" PROVE ValueIn(mem', q) = i.new
    <3>1. PICK v, m : v = i.new /\ m = mem' /\ m = Written(q, v)
      BY <2>1, <2>2 DEF Effect
    <3>2. m = Put(q, v, mem)
      BY <3>1, WrittenHere
    <3> QED BY <3>1, <3>2, ValuePut
  <2> QED BY <2>1, <2>2
<1> QED BY <1>2, <1>3

\* What a mailbox is set up to be it stays.
LEMMA ReadyKept ==
  ASSUME NEW t, NEW i, Effect(t, i), NEW mbox, NEW n, RequestsOnly(mbox, n, i), Keeps(mbox, n, i) \/ Avoids(mbox, i)
  PROVE  /\ HasId(mem, mbox, n) => HasId(mem', mbox, n)
         /\ Flag(mem, mbox, "DIR", Transmit) => Flag(mem', mbox, "DIR", Transmit)
<1>1. PICK q : q = MOAR(mbox)
  OBVIOUS
<1>2. q[1] = "MOAR" /\ q[2] = mbox
  BY <1>1 DEF MOAR
<1>3. Avoids(mbox, i) => ~Changes(i, {"MOAR"}, mbox) /\ ~Changes(i, {"MOCTR"}, mbox)
  BY DEF Avoids, Changes
<1>4. HasId(mem, mbox, n) => HasId(mem', mbox, n)
  <2>1. Changes(i, {"MOAR"}, mbox) => i.op = "write" /\ i.new = [ID |-> Id(n)]
    BY <1>3 DEF Keeps
  <2>2. ValueIn(mem', q) = ValueIn(mem, q) \/ ValueIn(mem', q) = [ID |-> Id(n)]
    BY <1>2, <2>1, RegisterStepped
  <2> QED BY <1>1, <2>2 DEF HasId, HasField
<1>5. Flag(mem, mbox, "DIR", Transmit) => Flag(mem', mbox, "DIR", Transmit)
  <2>1. ~Changes(i, {"MOSTAT"}, mbox) /\ (Changes(i, {"MOCTR"}, mbox) => i.op = "write")
    BY DEF RequestsOnly, Changes
  <2>2. Changes(i, {"MOCTR"}, mbox) /\ "DIR" \in DOMAIN i.new => i.new.DIR = Transmit
    BY <1>3 DEF Keeps
  <2>3. i.new["DIR"] = i.new.DIR
    OBVIOUS
  <2> QED BY <2>1, <2>2, <2>3, FlagsStepped
<1> QED BY <1>4, <1>5
-----------------------------------------------------------------------------
(* A mailbox and the peripherals *)

OfMessage(q, x) == q[1] \in {"MODATAL", "MODATAH", "MOFCR", "MOAR"} /\ q[2] = x

SameMessage(x) == \A q : OfMessage(q, x) => ValueIn(mem', q) = ValueIn(mem, q)

\* It may take a message from a peer.
Takes(x) == Is(MOSTAT(x), "DIR", Receive)

\* What may happen to a mailbox: nothing, that its frame is started or is out, that it takes a message.
Happens(x) ==
  \/ /\ SameMessage(x)
     /\ \/ Status(mem', x) = Status(mem, x)
        \/ Sending(x) /\ Status(mem', x) = Over([NEWDAT |-> 0, RTSEL |-> 1], Status(mem, x))
        \/ Status(mem', x) = Over([TXRQ |-> 0], Status(mem, x))
  \/ /\ Takes(x) /\ Status(mem', x) = Over(Arrival(x), Status(mem, x))
     /\ ValueIn(mem', MOAR(x)) = ValueIn(mem, MOAR(x))
     /\ ValueIn(mem', MODATAL(x)) = ValueIn(mem', MODATAH(x))

LEMMA HappensElsewhere ==
  ASSUME NEW x, \A q : OfMailbox(q, x) => Agree(mem', mem, q)
  PROVE  Happens(x)
<1>1. SameMessage(x)
  BY AgreeingValues DEF SameMessage, OfMessage, OfMailbox
<1>2. Status(mem', x) = Status(mem, x)
  BY MailboxRegisters, AgreeingValues DEF Status
<1> QED BY <1>1, <1>2 DEF Happens

\* Registers that are put aside of the mailboxes.
LEMMA HappensBeside ==
  ASSUME NEW x, NEW r1, NEW v1, NEW r2, NEW v2,
         r1[1] \notin {"MOSTAT", "MODATAL", "MODATAH", "MOFCR", "MOAR"},
         r2[1] \notin {"MOSTAT", "MODATAL", "MODATAH", "MOFCR", "MOAR"},
         mem' = Put(r1, v1, mem) \/ mem' = Put(r1, v1, Put(r2, v2, mem))
  PROVE  Happens(x)
<1>1. \A q : OfMailbox(q, x) => q # r1 /\ q # r2
  BY DEF OfMailbox
<1>2. ASSUME NEW q, OfMailbox(q, x) PROVE Agree(mem', mem, q)
  <2>1. PICK o : (o = mem \/ o = Put(r2, v2, mem)) /\ mem' = Put(r1, v1, o)
    OBVIOUS
  <2>2. Agree(mem, mem, q)
    BY DEF Agree
  <2>3. Agree(o, mem, q)
    BY <1>1, <1>2, <2>1, <2>2, PutAgrees
  <2>4. Agree(Put(r1, v1, o), o, q)
    BY <1>1, <1>2, PutAgrees
  <2> QED BY <2>1, <2>3, <2>4, AgreeingOn
<1> QED BY <1>2, HappensElsewhere

\* The controller marks mailbox y.
LEMMA HappensMarked ==
  ASSUME NEW x, NEW y, NEW bits, NEW o, o = Marks(y, bits)
  PROVE  /\ \A q : OfMessage(q, x) => Agree(o, mem, q)
         /\ x # y => \A q : OfMailbox(q, x) => Agree(o, mem, q)
         /\ x = y => Status(o, x) = Over(bits, Status(mem, x))
<1>1. PICK r, new : r = MOSTAT(y) /\ new = Over(bits, ValueIn(mem, r))
  OBVIOUS
<1>2. o = Put(r, new, mem) /\ r[1] = "MOSTAT" /\ r[2] = y
  BY <1>1 DEF Marks, Value, ValueIn, MOSTAT
<1>3. \A q : q # r => Agree(o, mem, q)
  BY <1>2, PutAgrees
<1>4. x = y => Status(o, x) = Over(bits, Status(mem, x))
  BY <1>1, <1>2, ValuePut DEF Status
<1> QED BY <1>2, <1>3, <1>4 DEF OfMessage, OfMailbox

LEMMA StartsOnMailbox ==
  ASSUME NEW x, NEW i \in Nodes, Starts(i)
  PROVE  Happens(x)
<1> DEFINE bits == [NEWDAT |-> 0, RTSEL |-> 1]
<1>1. PICK y \in Mailboxes : Sending(y) /\ mem' = Marks(y, bits)
  BY DEF Starts
<1>2. PICK o : o = mem' /\ o = Marks(y, bits)
  BY <1>1
<1>3. CASE x # y
  <2>1. \A q : OfMailbox(q, x) => Agree(o, mem, q)
    BY <1>2, <1>3, HappensMarked
  <2> QED BY <1>2, <2>1, HappensElsewhere
<1>4. CASE x = y
  <2>1. \A q : OfMessage(q, x) => Agree(o, mem, q)
    BY <1>2, HappensMarked
  <2>2. Status(o, x) = Over(bits, Status(mem, x))
    BY <1>2, <1>4, HappensMarked
  <2>3. SameMessage(x)
    BY <1>2, <2>1, AgreeingValues DEF SameMessage
  <2> QED BY <1>1, <1>2, <1>4, <2>2, <2>3 DEF Happens
<1> QED BY <1>3, <1>4

LEMMA SentOnMailbox ==
  ASSUME NEW x, NEW i \in Nodes, Sent(i)
  PROVE  Happens(x)
<1> DEFINE y == flight[i].mbox
           bits == [TXRQ |-> 0]
           served == Is(MOSTAT(y), "RTSEL", 1) /\ Is(MOSTAT(y), "NEWDAT", 0)
<1>1. mem' = Put(NSR(i), [LEC |-> 0], IF served THEN Marks(y, bits) ELSE mem)
  BY DEF Sent
<1>2. PICK r, v, o : r = NSR(i) /\ v = [LEC |-> 0] /\ o = (IF served THEN Marks(y, bits) ELSE mem)
  OBVIOUS
<1>3. mem' = Put(r, v, o) /\ r[1] = "NSR"
  BY <1>1, <1>2 DEF NSR
<1>4. CASE ~served
  <2>1. mem' = Put(r, v, mem)
    BY <1>2, <1>3, <1>4
  <2>2. r[1] \notin {"MOSTAT", "MODATAL", "MODATAH", "MOFCR", "MOAR"}
    BY <1>3
  <2> QED BY <2>1, <2>2, HappensBeside
<1>5. CASE served
  <2>1. o = Marks(y, bits)
    BY <1>2, <1>5
  <2> HIDE DEF y, bits, served
  <2>2. ASSUME NEW q, OfMailbox(q, x) \/ OfMessage(q, x), Agree(o, mem, q) PROVE Agree(mem', mem, q)
    <3>1. q # r
      BY <1>3, <2>2 DEF OfMailbox, OfMessage
    <3>2. Agree(Put(r, v, o), o, q)
      BY <3>1, PutAgrees
    <3> QED BY <1>3, <2>2, <3>2, AgreeingOn
  <2>3. CASE x # y
    <3>1. \A q : OfMailbox(q, x) => Agree(o, mem, q)
      BY <2>1, <2>3, HappensMarked
    <3> QED BY <2>2, <3>1, HappensElsewhere
  <2>4. CASE x = y
    <3>1. \A q : OfMessage(q, x) => Agree(o, mem, q)
      BY <2>1, HappensMarked
    <3>2. Status(o, x) = Over(bits, Status(mem, x))
      BY <2>1, <2>4, HappensMarked
    <3>3. SameMessage(x)
      BY <2>2, <3>1, AgreeingValues DEF SameMessage
    <3>4. Status(mem', x) = Status(o, x)
      <4>1. PICK q : q = MOSTAT(x)
        OBVIOUS
      <4>2. q # r
        BY <1>3, <4>1 DEF MOSTAT
      <4>3. ValueIn(mem', q) = ValueIn(o, q)
        BY <1>3, <4>2, ValuePut
      <4> QED BY <4>1, <4>3 DEF Status
    <3> QED BY <3>2, <3>3, <3>4 DEF Happens, bits
  <2> QED BY <2>3, <2>4
<1> QED BY <1>4, <1>5

LEMMA HeardOnMailbox ==
  ASSUME NEW x, NEW i \in Nodes, NEW w, Heard(i, w)
  PROVE  Happens(x)
<1>1. PICK y, bits :
         /\ y \in Mailboxes /\ Serves(i, y, Receive) /\ bits = Arrival(y)
         /\ mem' = Put(MODATAL(y), [W |-> w], Put(MODATAH(y), [W |-> w], Put(MOFCR(y), [DLC |-> 8], Marks(y, bits))))
  BY DEF Heard
<1>2. PICK o, r1, r2, r3, v1, v2 : /\ o = Marks(y, bits) /\ r1 = MOFCR(y) /\ r2 = MODATAH(y) /\ r3 = MODATAL(y)
                                   /\ v1 = [DLC |-> 8] /\ v2 = [W |-> w]
  OBVIOUS
<1>3. PICK o1, o2, m : o1 = Put(r1, v1, o) /\ o2 = Put(r2, v2, o1) /\ m = Put(r3, v2, o2) /\ m = mem'
  BY <1>1, <1>2
<1>4. ASSUME NEW q, q \notin {r1, r2, r3} PROVE Agree(m, o, q)
  <2>1. Agree(o1, o, q) /\ Agree(o2, o1, q) /\ Agree(m, o2, q)
    BY <1>3, <1>4, PutAgrees
  <2> QED BY <2>1, AgreeingOn
<1>5. /\ r1[1] = "MOFCR" /\ r1[2] = y /\ r2[1] = "MODATAH" /\ r2[2] = y /\ r3[1] = "MODATAL" /\ r3[2] = y
      /\ \A z : MOSTAT(z) \notin {r1, r2, r3} /\ MOAR(z) \notin {r1, r2, r3} /\ OfMessage(MOAR(z), z)
  BY <1>2 DEF MOFCR, MODATAL, MODATAH, MOSTAT, MOAR, OfMessage
<1>6. CASE x # y
  <2>1. \A q : OfMailbox(q, x) => Agree(o, mem, q)
    BY <1>2, <1>6, HappensMarked
  <2>2. \A q : OfMailbox(q, x) => q \notin {r1, r2, r3}
    BY <1>5, <1>6 DEF OfMailbox
  <2>3. \A q : OfMailbox(q, x) => Agree(mem', mem, q)
    BY <1>3, <1>4, <2>1, <2>2, AgreeingOn
  <2> QED BY <2>3, HappensElsewhere
<1>7. CASE x = y
  <2>1. \A q : OfMessage(q, x) => Agree(o, mem, q)
    BY <1>2, HappensMarked
  <2>2. Status(o, x) = Over(bits, Status(mem, x))
    BY <1>2, <1>7, HappensMarked
  <2>3. Status(m, x) = Status(o, x)
    BY <1>4, <1>5, AgreeingValues DEF Status
  <2>4. ValueIn(m, MOAR(x)) = ValueIn(mem, MOAR(x))
    BY <1>4, <1>5, <2>1, AgreeingOn, AgreeingValues
  <2>5. ValueIn(m, r3) = v2
    <3>1. ValueIn(Put(r3, v2, o2), r3) = v2
      BY ValuePut
    <3> QED BY <1>3, <3>1
  <2>6. ValueIn(m, r2) = v2
    <3>1. r2 # r3
      BY <1>5
    <3>2. ValueIn(Put(r3, v2, o2), r2) = ValueIn(o2, r2)
      BY <3>1, ValuePut
    <3>3. ValueIn(Put(r2, v2, o1), r2) = v2
      BY ValuePut
    <3> QED BY <1>3, <3>2, <3>3
  <2>7. Takes(x)
    BY <1>1, <1>7 DEF Takes, Serves
  <2>8. Status(m, x) = Over(Arrival(x), Status(mem, x))
    BY <1>1, <1>7, <2>2, <2>3
  <2>9. ValueIn(m, MODATAL(x)) = ValueIn(m, MODATAH(x))
    BY <1>2, <1>7, <2>5, <2>6
  <2> QED BY <1>3, <2>4, <2>7, <2>8, <2>9 DEF Happens
<1> QED BY <1>6, <1>7

LEMMA PeripheralsOnMailbox ==
  ASSUME NEW x, Peripherals
  PROVE  Happens(x)
<1>1. CASE PanelDone
  <2>1. PICK r1, v1, r2, v2 : /\ r1 = List(Field(PANCTR, "PANAR1")) /\ r2 = PANCTR
                              /\ v1 = [NODE |-> Field(PANCTR, "PANAR2") - 1] /\ v2 = [BUSY |-> 0]
    OBVIOUS
  <2>2. mem' = Put(r1, v1, Put(r2, v2, mem)) /\ r1[1] = "LIST" /\ r2[1] = "CAN"
    BY <1>1, <2>1 DEF PanelDone, List, PANCTR
  <2> QED BY <2>2, HappensBeside
<1>2. CASE ByteArrives
  <2>1. PICK r1, v1, r2, v2 : r1 = US("RBUFSR") /\ v1 = [RDV |-> 1] /\ r2 = US("RBUF") /\ v2 = [BYTE |-> 7]
    OBVIOUS
  <2>2. mem' = Put(r1, v1, Put(r2, v2, mem)) /\ r1[1] = "US" /\ r2[1] = "US"
    BY <1>2, <2>1 DEF ByteArrives, US
  <2> QED BY <2>2, HappensBeside
<1>3. ASSUME NEW n \in Nodes, NEW off \in BOOLEAN, Fails(n, off) PROVE Happens(x)
  <2>1. PICK r1, v1, r2, v2 : r1 = NSR(n) /\ v1 = [LEC |-> 1] /\ r2 = NCR(n) /\ v2 = [Value(NCR(n)) EXCEPT !.INIT = 1]
    OBVIOUS
  <2>2. mem' = Put(r1, v1, mem) \/ mem' = Put(r1, v1, Put(r2, v2, mem))
    BY <1>3, <2>1 DEF Fails
  <2>3. r1[1] = "NSR" /\ r2[1] = "NCR"
    BY <2>1 DEF NSR, NCR
  <2> QED BY <2>2, <2>3, HappensBeside
<1> QED BY <1>1, <1>2, <1>3, StartsOnMailbox, SentOnMailbox, HeardOnMailbox DEF Peripherals

\* What follows for the flags.
LEMMA HappensToFlags ==
  ASSUME NEW x, Happens(x)
  PROVE  /\ \A v : Flag(mem', x, "DIR", v) <=> Flag(mem, x, "DIR", v)
         /\ Flag(mem', x, "TXRQ", 1) => Flag(mem, x, "TXRQ", 1)
         /\ Flag(mem, x, "MSGLST", 1) => Flag(mem', x, "MSGLST", 1)
         /\ Flag(mem, x, "NEWDAT", 1) /\ ~Flag(mem, x, "TXRQ", 1) =>
              Flag(mem', x, "NEWDAT", 1) /\ (SameMessage(x) \/ Flag(mem', x, "MSGLST", 1))
         /\ Flag(mem, x, "DIR", Transmit) => SameMessage(x)
<1>1. PICK s, t, q : s = Status(mem, x) /\ t = Status(mem', x) /\ q = MOSTAT(x)
  OBVIOUS
<1>2. s = ValueIn(mem, q) /\ \A f, v : /\ Flag(mem, x, f, v) <=> HasField(s, f, v)
                                       /\ Flag(mem', x, f, v) <=> HasField(t, f, v)
  BY <1>1 DEF Flag, Status
<1>3. Takes(x) => ~HasField(s, "DIR", Transmit)
  <2>1. Takes(x) => Is(q, "DIR", Receive)
    BY <1>1 DEF Takes
  <2>2. HasField(s, "DIR", Transmit) => Is(q, "DIR", Transmit)
    BY <1>2, FieldOf
  <2> QED BY <2>1, <2>2 DEF Is, Receive, Transmit
<1>4. Sending(x) => HasField(s, "TXRQ", 1)
  BY <1>1, <1>2, FieldOf DEF Sending
<1>5. CASE t = s /\ SameMessage(x)
  BY <1>2, <1>5
<1>6. CASE Sending(x) /\ SameMessage(x) /\ t = Over([NEWDAT |-> 0, RTSEL |-> 1], s)
  <2>1. \A f, v : f \notin {"NEWDAT", "RTSEL"} => (HasField(t, f, v) <=> HasField(s, f, v))
    BY <1>6, OverField
  <2> QED BY <1>2, <1>4, <1>6, <2>1
<1>7. CASE SameMessage(x) /\ t = Over([TXRQ |-> 0], s)
  <2>1. \A f, v : f # "TXRQ" => (HasField(t, f, v) <=> HasField(s, f, v))
    BY <1>7, OverField
  <2>2. ~HasField(t, "TXRQ", 1)
    BY <1>7, OverField
  <2> QED BY <1>2, <1>7, <2>1, <2>2
<1>8. CASE Takes(x) /\ t = Over(Arrival(x), s)
  <2>1. \A f, v : f \notin {"NEWDAT", "MSGLST"} => (HasField(t, f, v) <=> HasField(s, f, v))
    BY <1>8, OverField DEF Arrival
  <2>2. HasField(t, "NEWDAT", 1) /\ (HasField(s, "MSGLST", 1) => HasField(t, "MSGLST", 1))
    BY <1>8, OverField DEF Arrival
  <2>3. HasField(s, "NEWDAT", 1) => HasField(t, "MSGLST", 1)
    <3>1. HasField(s, "NEWDAT", 1) => Is(q, "NEWDAT", 1)
      BY <1>2, FieldOf
    <3> QED BY <1>1, <1>8, <3>1, OverField DEF Arrival
  <2> QED BY <1>2, <1>3, <1>8, <2>1, <2>2, <2>3
<1> QED BY <1>1, <1>5, <1>6, <1>7, <1>8 DEF Happens
-----------------------------------------------------------------------------
(* The message that is sent, whole *)

\* The function has written so much of the message that has the second word high.
Filled(m, mbox, high, dlc, j) ==
  /\ j >= 4 => HasField(ValueIn(m, MOFCR(mbox)), "DLC", dlc)
  /\ j >= 6 => HasField(ValueIn(m, MODATAH(mbox)), "W", high)

\* Behind the accesses it is not before them.
LEMMA PlaceLate ==
  ASSUME NEW mbox, NEW w, NEW high, NEW dlc, NEW p, IsSend(p, mbox, w, high, dlc), NEW todo,
         NEW j \in 2..10, Place(todo, p, mbox, j), NEW l \in 7..10, Place(todo, p, mbox, l)
  PROVE  j >= 7
<1>1. SUFFICES ASSUME j \in 2..6 PROVE FALSE
  OBVIOUS
<1>2. IsSeq(p) /\ Len(p) = 7
  BY DEF IsSend
<1>3. todo = From(p, j) /\ j \in 1..Len(p) /\ j + 1 \in 1..Len(p)
  BY <1>1, <1>2 DEF Place
<1>4. todo # << >> /\ Tail(todo) = From(p, j + 1)
  BY <1>2, <1>3, FromHere
<1>5. PICK h : h = j + 1
  OBVIOUS
<1>6. From(p, h) # << >>
  BY <1>2, <1>3, <1>5, FromHere
<1>7. \A x : Tail(<< x >>) = << >>
  OBVIOUS
<1>8. CASE l \in 8..10
  <2>1. CASE l = 8
    <3>1. todo = << AsksOnce(mbox) >>
      BY <2>1 DEF Place
    <3>2. Tail(todo) = << >>
      BY <1>7, <3>1
    <3> QED BY <1>4, <1>5, <1>6, <3>2
  <2>2. CASE l = 9
    <3>1. todo = << Asks(mbox) >>
      BY <2>2 DEF Place
    <3>2. Tail(todo) = << >>
      BY <1>7, <3>1
    <3> QED BY <1>4, <1>5, <1>6, <3>2
  <2>3. CASE l = 10
    BY <1>4, <2>3 DEF Place
  <2> QED BY <1>8, <2>1, <2>2, <2>3
<1>9. CASE l = 7
  <2>1. todo = From(p, 7) /\ 7 \in 1..Len(p)
    BY <1>2, <1>9 DEF Place
  <2>2. Tail(todo) = From(p, 7 + 1)
    BY <1>2, <2>1, FromHere
  <2>3. 7 + 1 = Len(p) + 1
    BY <1>2
  <2>4. From(p, Len(p) + 1) = << >>
    BY <1>2, FromEnd
  <2> QED BY <1>4, <1>5, <1>6, <2>2, <2>3, <2>4
<1> QED BY <1>8, <1>9

\* Registers that an access to another one leaves as they are.
LEMMA FilledStays ==
  ASSUME NEW t, NEW i, Effect(t, i), NEW mbox, NEW high, NEW dlc, NEW j, NEW l,
         ~Changes(i, {"MOFCR", "MODATAH"}, mbox), Filled(mem, mbox, high, dlc, j),
         l >= 4 => j >= 4, l >= 6 => j >= 6
  PROVE  Filled(mem', mbox, high, dlc, l)
<1>1. PICK q, r : q = MOFCR(mbox) /\ r = MODATAH(mbox)
  OBVIOUS
<1>2. q[1] = "MOFCR" /\ q[2] = mbox /\ r[1] = "MODATAH" /\ r[2] = mbox
  BY <1>1 DEF MOFCR, MODATAH
<1>3. ~Changes(i, {q[1]}, q[2]) /\ ~Changes(i, {r[1]}, r[2])
  BY <1>2 DEF Changes
<1>4. ValueIn(mem', q) = ValueIn(mem, q) /\ ValueIn(mem', r) = ValueIn(mem, r)
  BY <1>2, <1>3, RegisterStepped
<1> QED BY <1>1, <1>4 DEF Filled

LEMMA FillsOn ==
  ASSUME NEW mbox, NEW w, NEW high, NEW dlc, NEW p, IsSend(p, mbox, w, high, dlc), NEW t, NEW u, NEW i, Does(t, u, i),
         NEW j \in 1..6, u.todo = From(p, j), Filled(mem, mbox, high, dlc, j)
  PROVE  \E l \in 2..10 : Place(at'[t].todo, p, mbox, l) /\ Filled(mem', mbox, high, dlc, l)
<1>1. IsSeq(p) /\ Len(p) = 7 /\ j \in 1..Len(p) /\ j + 1 \in 1..Len(p) /\ i = Head(u.todo) /\ Effect(t, i)
  BY DEF IsSend, Does
<1>2. Moves(p, j, i, u)
  BY <1>1, MovesOn
<1>3. i = p[j] /\ Tail(u.todo) = From(p, j + 1) /\ Tail(Tail(u.todo)) = From(p, j + 2) /\ u.todo[2] = p[j + 1]
  BY <1>1, <1>2 DEF Moves
<1>4. i.op \in {"store", "write"} => at'[t].todo = From(p, j + 1)
  BY <1>3 DEF Does, Continues
<1>5. ASSUME at'[t].todo = From(p, j + 1), Filled(mem', mbox, high, dlc, j + 1)
      PROVE  \E l \in 2..10 : Place(at'[t].todo, p, mbox, l) /\ Filled(mem', mbox, high, dlc, l)
  <2>1. j + 1 \in 2..7 /\ Place(at'[t].todo, p, mbox, j + 1)
    BY <1>5 DEF Place
  <2> QED BY <1>5, <2>1
<1>6. CASE j \in {1, 4, 6}
  <2>1. i.op = "write" /\ i.reg \in {MOCTR(mbox), MODATAL(mbox)}
    BY <1>3, <1>6 DEF IsSend, Sets
  <2>2. ~Changes(i, {"MOFCR", "MODATAH"}, mbox)
    BY <2>1 DEF Changes, MOCTR, MODATAL
  <2>3. (j + 1 >= 4 => j >= 4) /\ (j + 1 >= 6 => j >= 6)
    BY <1>6
  <2>4. Filled(mem', mbox, high, dlc, j + 1)
    <3>1. PICK l : l = j + 1
      OBVIOUS
    <3> QED BY <1>1, <2>2, <2>3, <3>1, FilledStays
  <2> QED BY <1>4, <1>5, <2>1, <2>4
<1>7. PICK q, r : q = MOFCR(mbox) /\ r = MODATAH(mbox)
  OBVIOUS
<1>8. q[1] = "MOFCR" /\ r[1] = "MODATAH" /\ OfMessages(q)
  BY <1>7 DEF MOFCR, MODATAH, OfMessages
<1>9. ASSUME NEW v, mem' = Written(q, Over([DLC |-> dlc], v)) PROVE HasField(ValueIn(mem', q), "DLC", dlc)
  <2>1. PICK o, m : o = Over([DLC |-> dlc], v) /\ m = mem' /\ m = Written(q, o)
    BY <1>9
  <2>2. m = Put(q, o, mem)
    BY <1>8, <2>1, WrittenHere
  <2>3. ValueIn(Put(q, o, mem), q) = o
    BY ValuePut
  <2>4. HasField(o, "DLC", dlc)
    BY <2>1, OverField
  <2> QED BY <2>1, <2>2, <2>3, <2>4
<1>10. CASE j = 2
  <2>1. i.op = "load" /\ u.todo[2].new = [DLC |-> dlc] /\ i.reg = q
    BY <1>3, <1>7, <1>10 DEF IsSend
  <2>2. CASE at'[t].todo = Tail(u.todo)
    <3>1. Filled(mem', mbox, high, dlc, j + 1)
      BY <1>10 DEF Filled
    <3> QED BY <1>3, <1>5, <2>2, <3>1
  <2>3. CASE at'[t].todo = Tail(Tail(u.todo)) /\ mem' = Written(i.reg, Over(u.todo[2].new, Value(i.reg)))
    <3>1. HasField(ValueIn(mem', q), "DLC", dlc)
      BY <1>9, <2>1, <2>3
    <3>2. Filled(mem', mbox, high, dlc, 4)
      BY <1>7, <3>1 DEF Filled
    <3>3. j + 2 = 4
      BY <1>10
    <3>4. at'[t].todo = From(p, 4)
      BY <1>3, <2>3, <3>3
    <3>5. Place(at'[t].todo, p, mbox, 4)
      BY <3>4 DEF Place
    <3> QED BY <3>2, <3>5
  <2> QED BY <2>1, <2>2, <2>3 DEF Does, Continues
<1>11. CASE j = 3
  <2>1. i.op = "store" /\ i.new = [DLC |-> dlc] /\ i.reg = q
    BY <1>3, <1>7, <1>11 DEF IsSend
  <2>2. mem' = Written(q, Over([DLC |-> dlc], acc[t]))
    BY <2>1 DEF Does, Continues
  <2>3. HasField(ValueIn(mem', q), "DLC", dlc)
    BY <1>9, <2>2
  <2>4. Filled(mem', mbox, high, dlc, j + 1)
    BY <1>7, <1>11, <2>3 DEF Filled
  <2> QED BY <1>4, <1>5, <2>1, <2>4
<1>12. CASE j = 5
  <2>1. i.op = "write" /\ i.new = [W |-> high] /\ i.reg = r
    BY <1>3, <1>7, <1>12 DEF IsSend, Sets
  <2>2. PICK v, m : v = [W |-> high] /\ m = mem' /\ m = Written(r, v)
    BY <1>1, <2>1 DEF Effect
  <2>3. m = Put(r, v, mem)
    BY <1>8, <2>2, WrittenHere
  <2>4. ValueIn(Put(r, v, mem), r) = v /\ ValueIn(Put(r, v, mem), q) = ValueIn(mem, q)
    <3>1. q # r
      BY <1>8
    <3> QED BY <3>1, ValuePut
  <2>5. HasField(ValueIn(mem', r), "W", high) /\ HasField(ValueIn(mem', q), "DLC", dlc)
    BY <1>7, <1>12, <2>2, <2>3, <2>4 DEF Filled, HasField
  <2>6. Filled(mem', mbox, high, dlc, j + 1)
    BY <1>7, <2>5 DEF Filled
  <2> QED BY <1>4, <1>5, <2>1, <2>6
<1> QED BY <1>6, <1>10, <1>11, <1>12

LEMMA RequestsOn ==
  ASSUME NEW mbox, NEW w, NEW high, NEW dlc, NEW p, IsSend(p, mbox, w, high, dlc), NEW t, NEW u, NEW i, Does(t, u, i),
         NEW j \in 7..9, Place(u.todo, p, mbox, j), Filled(mem, mbox, high, dlc, j)
  PROVE  \E l \in 2..10 : Place(at'[t].todo, p, mbox, l) /\ Filled(mem', mbox, high, dlc, l)
<1>1. \A x : << x >> \o << >> = << x >> /\ Head(<< x >>) = x /\ Tail(<< x >>) = << >>
  OBVIOUS
<1>2. << >> \o << >> = << >>
  OBVIOUS
<1>3. i = Head(u.todo) /\ Effect(t, i)
  BY DEF Does
<1>4. ASSUME NEW l \in 8..10, Place(at'[t].todo, p, mbox, l), ~Changes(i, {"MOFCR", "MODATAH"}, mbox)
      PROVE  \E h \in 2..10 : Place(at'[t].todo, p, mbox, h) /\ Filled(mem', mbox, high, dlc, h)
  <2>1. Filled(mem', mbox, high, dlc, l)
    BY <1>3, <1>4, FilledStays
  <2> QED BY <1>4, <2>1
<1>5. \A x : x = << >> => Place(x, p, mbox, 10)
  BY DEF Place
<1>6. CASE j = 7
  <2>1. IsSeq(p) /\ Len(p) = 7 /\ u.todo = From(p, j) /\ j \in 1..Len(p)
    BY <1>6 DEF IsSend, Place
  <2>2. Moves(p, j, i, u)
    BY <1>3, <2>1, MovesOn
  <2>3. i = AsksIfValid(mbox) /\ Tail(u.todo) = << >>
    <3>1. j + 1 = Len(p) + 1
      BY <1>6, <2>1
    <3>2. i = p[7] /\ Tail(u.todo) = From(p, Len(p) + 1)
      BY <1>6, <2>2, <3>1 DEF Moves
    <3>3. From(p, Len(p) + 1) = << >>
      BY <2>1, FromEnd
    <3>4. p[7] = AsksIfValid(mbox)
      BY DEF IsSend
    <3> QED BY <3>2, <3>3, <3>4
  <2>4. i.op = "if" /\ i.then = << >> /\ i.else = << AsksOnce(mbox) >>
    BY <2>3 DEF AsksIfValid
  <2>5. at'[t].todo = << >> \/ at'[t].todo = << AsksOnce(mbox) >>
    BY <1>1, <1>2, <2>3, <2>4 DEF Does
  <2>6. Place(at'[t].todo, p, mbox, 10) \/ Place(at'[t].todo, p, mbox, 8)
    BY <1>5, <2>5 DEF Place
  <2> QED BY <1>4, <2>4, <2>6 DEF Changes
<1>7. CASE j = 8
  <2>1. i = AsksOnce(mbox) /\ Tail(u.todo) = << >>
    BY <1>1, <1>3, <1>7 DEF Place
  <2>2. i.op = "if" /\ i.then = << >> /\ i.else = << Asks(mbox) >>
    BY <2>1 DEF AsksOnce
  <2>3. at'[t].todo = << >> \/ at'[t].todo = << Asks(mbox) >>
    BY <1>1, <1>2, <2>1, <2>2 DEF Does
  <2>4. Place(at'[t].todo, p, mbox, 10) \/ Place(at'[t].todo, p, mbox, 9)
    BY <1>5, <2>3 DEF Place
  <2> QED BY <1>4, <2>2, <2>4 DEF Changes
<1>8. CASE j = 9
  <2>1. i = Asks(mbox) /\ Tail(u.todo) = << >>
    BY <1>1, <1>3, <1>8 DEF Place
  <2>2. i.op = "write" /\ i.reg[1] = "MOCTR"
    BY <2>1 DEF Asks, MOCTR
  <2>3. at'[t].todo = << >>
    BY <2>1, <2>2 DEF Does, Continues
  <2> QED BY <1>4, <1>5, <2>2, <2>3 DEF Changes
<1> QED BY <1>6, <1>7, <1>8
-----------------------------------------------------------------------------
(* The mailbox is set up before it is sent *)

\* Call e of task u sets it up for the sender, as SetsUp says.
Preparer(s, n, mbox, k, u, e) ==
  /\ Sender(s, n, mbox, k)
  /\ u \in {s, "main"} /\ e \in 1..Len(Plan.calls[u]) /\ (u = "main" => e < k)
  /\ Plan.calls[u][e].does = configure_mbox(n, mbox, Id(n), 2047, Transmit)
  /\ \A t \in Tasks : \A j \in 1..Len(Plan.calls[t]) :
       /\ Plan.calls[t][j].what = "send" =>
            /\ Plan.calls[t][j].does = send(mbox, Plan.calls[t][j].low, Plan.calls[t][j].high, Dlc(n))
            /\ u = s => j > e
       /\ \A i \in CallCode(Plan.calls[t][j]) :
            /\ t = s \/ (t = "main" /\ u = "main" /\ j >= e) => Keeps(mbox, n, i)
            /\ Plan.calls[t][j].what # "send" =>
                 RequestsNothing(i) /\ (t = s => ~Changes(i, {"MODATAL", "MODATAH", "MOFCR"}, mbox))

LEMMA WhoPrepares ==
  ASSUME NEW s, NEW n, NEW mbox, NEW k, NEW u, NEW e, Preparer(s, n, mbox, k, u, e)
  PROVE  /\ Sender(s, n, mbox, k) /\ s \in Tasks \ {"main"} /\ "main" \in Tasks /\ n \in Nodes /\ mbox \in 0..MailboxCount - 1
         /\ k \in 1..Len(Plan.calls["main"]) /\ u \in {s, "main"} /\ e \in 1..Len(Plan.calls[u]) /\ (u = "main" => e < k)
<1>1. Sender(s, n, mbox, k) /\ u \in {s, "main"} /\ e \in 1..Len(Plan.calls[u]) /\ (u = "main" => e < k)
  BY DEF Preparer
<1>2. /\ s \in Tasks \ {"main"} /\ "main" \in Tasks /\ n \in Nodes /\ mbox \in 0..MailboxCount - 1
      /\ k \in 1..Len(Plan.calls["main"])
  BY <1>1 DEF Sender
<1> QED BY <1>1, <1>2

\* Within the configuring function, before access j.
Configuring(m, p, todo, n, mbox, j) ==
  todo = From(p, j) /\ (j >= 4 => HasId(m, mbox, n)) /\ (j >= 6 => Flag(m, mbox, "DIR", Transmit))

Prepared(s, n, mbox, u, e) ==
  /\ at[u].call > e => Ready(mem, mbox, n)
  /\ at[u].call = e => \E j \in 2..9 : Configuring(mem, Plan.calls[u][e].does, at[u].todo, n, mbox, j)
  /\ Flag(mem, mbox, "TXRQ", 1) => s \in live /\ Ready(mem, mbox, n)

\* Where the task goes on.
PreparedAt(w, n, mbox, u, e) ==
  /\ w.call > e => Ready(mem, mbox, n)
  /\ w.call = e => \E j \in 1..8 : Configuring(mem, Plan.calls[u][e].does, w.todo, n, mbox, j)

LEMMA CallsOf ==
  ASSUME Activities, NEW t \in Tasks
  PROVE  Len(Plan.calls[t]) \in Nat /\ Plan.from[t] \in 0..Len(Plan.calls[t]) /\ at[t].call \in 0..Len(Plan.calls[t])
<1>1. PICK calls : calls = Plan.calls[t]
  OBVIOUS
<1>2. app \in DOMAIN Applications /\ t \in DOMAIN Applications[app].calls /\ calls = Applications[app].calls[t]
      /\ Plan.from[t] = Applications[app].from[t]
  BY <1>1 DEF Activities, Tasks, Plan
<1>3. Len(calls) \in Nat /\ Applications[app].from[t] \in 0..Len(calls)
  BY <1>2, CodeOfTask
<1> QED BY <1>1, <1>2, <1>3 DEF Activities

LEMMA PreparesAt ==
  ASSUME Activities, NEW s, NEW n, NEW mbox, NEW k, NEW u, NEW e, Preparer(s, n, mbox, k, u, e), Prepared(s, n, mbox, u, e),
         NEW w, IsAt(u, w)
  PROVE  PreparedAt(w, n, mbox, u, e)
<1>1. PICK L : L = Len(Plan.calls[u])
  OBVIOUS
<1>2. u \in Tasks /\ e \in 1..L /\ n \in Nodes /\ mbox \in 0..MailboxCount - 1
  BY <1>1, WhoPrepares
<1>3. L \in Nat /\ at[u].call \in 0..L /\ w.call \in 1..L
  BY <1>1, <1>2, CallsOf DEF IsAt
<1>4. PICK p : p = Plan.calls[u][e].does
  OBVIOUS
<1>5. IsSeq(p) /\ Len(p) = 8
  <2>1. PICK id : id = Id(n)
    OBVIOUS
  <2>2. IsConfigure(p, mbox, n)
    BY <1>2, <1>4, <2>1, ConfigureOf DEF Preparer
  <2> QED BY <2>2 DEF IsConfigure
<1>6. CASE at[u].todo # << >> /\ w.call = at[u].call /\ w.todo = at[u].todo
  <2>1. ASSUME w.call = e PROVE \E j \in 1..8 : Configuring(mem, p, w.todo, n, mbox, j)
    <3>1. PICK j \in 2..9 : Configuring(mem, p, w.todo, n, mbox, j)
      BY <1>4, <1>6, <2>1 DEF Prepared
    <3>2. j # 9
      <4>1. From(p, Len(p) + 1) = << >>
        BY <1>5, FromEnd
      <4>2. Len(p) + 1 = 9
        BY <1>5
      <4> QED BY <1>6, <3>1, <4>1, <4>2 DEF Configuring
    <3> QED BY <3>1, <3>2
  <2> QED BY <1>4, <1>6, <2>1 DEF PreparedAt, Prepared
<1>7. CASE at[u].todo = << >> /\ w.call = Following(u) /\ w.todo = Plan.calls[u][w.call].does
  <2>1. at[u].call >= e => Ready(mem, mbox, n)
    <3>1. ASSUME at[u].call = e PROVE Ready(mem, mbox, n)
      <4>1. PICK j \in 2..9 : Configuring(mem, p, << >>, n, mbox, j)
        BY <1>4, <1>7, <3>1 DEF Prepared
      <4>2. j \notin 1..Len(p)
        <5>1. j \in 1..Len(p) => From(p, j) # << >>
          BY <1>5, FromHere
        <5> QED BY <4>1, <5>1 DEF Configuring
      <4>3. j = 9
        BY <1>5, <4>2
      <4> QED BY <4>1, <4>3 DEF Configuring, Ready
    <3> QED BY <1>2, <1>3, <3>1 DEF Prepared
  <2>2. w.call = at[u].call + 1 \/ at[u].call = L
    BY <1>1, <1>3, <1>7 DEF Following
  <2>3. w.call > e => at[u].call >= e
    BY <1>2, <1>3, <2>2
  <2>4. ASSUME w.call = e PROVE Configuring(mem, p, w.todo, n, mbox, 1)
    BY <1>4, <1>5, <1>7, <2>4, FromEnd DEF Configuring
  <2> QED BY <1>4, <2>1, <2>3, <2>4 DEF PreparedAt
<1> QED BY <1>6, <1>7 DEF IsAt

\* Configuring goes on.
LEMMA ConfiguresOn ==
  ASSUME NEW n, NEW mbox, NEW p, IsConfigure(p, mbox, n), NEW t, NEW w, NEW i, i = Head(w.todo), Effect(t, i), Continues(t, w, i),
         RequestsOnly(mbox, n, i), Keeps(mbox, n, i), NEW j \in 1..8, Configuring(mem, p, w.todo, n, mbox, j)
  PROVE  \E l \in 2..9 : Configuring(mem', p, at'[t].todo, n, mbox, l)
<1>1. IsSeq(p) /\ Len(p) = 8 /\ j \in 1..Len(p) /\ w.todo = From(p, j)
  BY DEF IsConfigure, Configuring
<1>2. Moves(p, j, i, w)
  BY <1>1, MovesOn
<1>3. i = p[j] /\ Tail(w.todo) = From(p, j + 1) /\ i.op \in {"write", "await"}
  BY <1>2 DEF Moves, IsConfigure
<1>4. at'[t].todo = From(p, j + 1)
  BY <1>3 DEF Continues
<1>5. /\ HasId(mem, mbox, n) => HasId(mem', mbox, n)
      /\ Flag(mem, mbox, "DIR", Transmit) => Flag(mem', mbox, "DIR", Transmit)
  BY ReadyKept
<1>6. j = 3 => HasId(mem', mbox, n)
  <2> SUFFICES ASSUME j = 3 PROVE HasId(mem', mbox, n)
    OBVIOUS
  <2>1. PICK q, v : q = MOAR(mbox) /\ v = [ID |-> Id(n)]
    OBVIOUS
  <2>2. i = Sets(q, v) /\ q[1] = "MOAR"
    BY <1>3, <2>1 DEF IsConfigure, MOAR
  <2>3. PICK m : m = mem' /\ m = Written(q, v)
    BY <2>2 DEF Effect, Sets
  <2>4. m = Put(q, v, mem)
    BY <2>2, <2>3, WrittenHere
  <2>5. ValueIn(Put(q, v, mem), q) = v
    BY ValuePut
  <2> QED BY <2>1, <2>3, <2>4, <2>5 DEF HasId, HasField
<1>7. j = 5 => Flag(mem', mbox, "DIR", Transmit)
  <2> SUFFICES ASSUME j = 5 PROVE Flag(mem', mbox, "DIR", Transmit)
    OBVIOUS
  <2>1. PICK v : v = [DIR |-> Transmit]
    OBVIOUS
  <2>2. i = Sets(MOCTR(mbox), v)
    BY <1>3, <2>1 DEF IsConfigure
  <2>3. Status(mem', mbox) = Over(v, Status(mem, mbox))
    BY <2>2, StatusSet
  <2>4. HasField(Over(v, Status(mem, mbox)), "DIR", Transmit)
    BY <2>1, OverField
  <2> QED BY <2>3, <2>4 DEF Flag, Status
<1>8. PICK l : l = j + 1
  OBVIOUS
<1>9. l \in 2..9 /\ (l >= 4 => j >= 4 \/ j = 3) /\ (l >= 6 => j >= 6 \/ j = 5)
  BY <1>8
<1>10. Configuring(mem', p, at'[t].todo, n, mbox, l)
  BY <1>4, <1>5, <1>6, <1>7, <1>8, <1>9 DEF Configuring
<1> QED BY <1>9, <1>10

\* Nothing is requested by an access of another call than the sending ones.
LEMMA RequestStays ==
  ASSUME NEW t, NEW i, Effect(t, i), RequestsNothing(i), NEW x, Flag(mem', x, "TXRQ", 1)
  PROVE  Flag(mem, x, "TXRQ", 1)
<1>1. ~Changes(i, {"MOSTAT"}, x) /\ (Changes(i, {"MOCTR"}, x) => i.op = "write" /\ "TXRQ" \notin DOMAIN i.new)
  BY DEF RequestsNothing, Changes
<1> QED BY <1>1, FlagsStepped

\* The accesses of the calls, while the sender lives, leave the mailbox set up.
LEMMA KeptReady ==
  ASSUME Activities, NEW s, NEW n, NEW mbox, NEW k, NEW u, NEW e, Preparer(s, n, mbox, k, u, e), InCalls(s, k),
         NEW t \in Tasks, NEW w, IsAt(t, w), NEW i, i = Head(w.todo),
         s \in live \/ (u = "main" /\ (t = "main" => w.call >= e))
  PROVE  RequestsOnly(mbox, n, i) /\ (Keeps(mbox, n, i) \/ Avoids(mbox, i)) /\ (t = s \/ t = u \/ Avoids(mbox, i))
<1>1. PICK C : C = CallCode(Plan.calls[t][w.call])
  OBVIOUS
<1>2. i \in C /\ w.call \in 1..Len(Plan.calls[t])
  <2>1. w.call \in 1..Len(Plan.calls[t])
    BY DEF IsAt
  <2> QED BY <1>1, <2>1, InCallsAt DEF InCalls
<1>3. Sender(s, n, mbox, k)
  BY WhoPrepares
<1>4. RequestsOnly(mbox, n, i) /\ (t # s /\ (t # "main" \/ w.call > k) => Avoids(mbox, i))
  BY <1>1, <1>2, <1>3 DEF Sender
<1>5. t = s \/ (t = "main" /\ u = "main" /\ w.call >= e) => Keeps(mbox, n, i)
  BY <1>1, <1>2 DEF Preparer
<1>6. s \in live /\ t = "main" => w.call > k
  BY <1>3, MainBehind
<1> QED BY <1>4, <1>5, <1>6

LEMMA PreparedStepped ==
  ASSUME Activities, DOMAIN acc = Tasks, NEW s, NEW n, NEW mbox, NEW k, NEW u, NEW e, Preparer(s, n, mbox, k, u, e),
         InCalls(s, k), Prepared(s, n, mbox, u, e), NEW t \in Tasks, Step(t)
  PROVE  Prepared(s, n, mbox, u, e)'
<1>1. PICK w, i, x : IsAt(t, w) /\ Executed(t, w, i, x) /\ w = Goes(t)
  BY Executes
<1>2. Plan' = Plan /\ Tasks' = Tasks /\ at'[t] = x /\ \A z \in Tasks \ {t} : at'[z] = at[z]
  BY <1>1, ActivitiesStepped
<1>3. i = Head(w.todo) /\ Effect(t, i) /\ Continues(t, w, i) /\ at'[t].call = w.call
  <2>1. i = Head(w.todo) /\ Effect(t, i)
    BY <1>1 DEF Executed
  <2>2. Continues(t, w, i)
    BY <1>1, <2>1, StepContinues
  <2> QED BY <2>1, <2>2 DEF Continues
<1>4. live \subseteq live' /\ t \in live
  <2>1. (i.op = "create" => live' = live \cup {i.task}) /\ (i.op # "create" => live' = live) /\ t \in live
    BY <1>1, <1>3, StepForks
  <2> QED BY <2>1
<1>5. PICK L, K : L = Len(Plan.calls[u]) /\ K = Len(Plan.calls["main"])
  OBVIOUS
<1>6. /\ Sender(s, n, mbox, k) /\ s \in Tasks \ {"main"} /\ u \in Tasks /\ u \in {s, "main"} /\ e \in 1..L
      /\ n \in Nodes /\ mbox \in 0..MailboxCount - 1 /\ k \in 1..K /\ (u = "main" => e < k) /\ "main" \in Tasks
  BY <1>5, WhoPrepares
<1>7. /\ L \in Nat /\ K \in Nat /\ at[u].call \in 0..L /\ at["main"].call \in 0..K
      /\ t = u => w.call \in 1..L
  BY <1>1, <1>5, <1>6, CallsOf DEF IsAt
<1>8. at[s].call # 0 => s \in live
  BY DEF InCalls
<1>9. ASSUME s \in live \/ (u = "main" /\ (t = "main" => w.call >= e))
      PROVE  /\ HasId(mem, mbox, n) => HasId(mem', mbox, n)
             /\ Flag(mem, mbox, "DIR", Transmit) => Flag(mem', mbox, "DIR", Transmit)
  <2>1. RequestsOnly(mbox, n, i) /\ (Keeps(mbox, n, i) \/ Avoids(mbox, i))
    BY <1>1, <1>3, <1>9, KeptReady
  <2> QED BY <1>3, <2>1, ReadyKept
<1>10. t = u => PreparedAt(w, n, mbox, u, e)
  BY <1>1, PreparesAt
<1>11. t = u /\ w.call >= e => s \in live \/ (u = "main" /\ (t = "main" => w.call >= e))
  BY <1>4, <1>6
<1>12. ASSUME t # u, at[u].call >= e PROVE s \in live \/ (u = "main" /\ (t = "main" => w.call >= e))
  BY <1>6, <1>7, <1>8, <1>12
<1>13. at'[u].call > e => Ready(mem', mbox, n)
  <2>1. CASE t = u
    <3>1. at'[u].call = w.call
      BY <1>3, <2>1
    <3>2. w.call > e => w.call >= e
      BY <1>6, <1>7, <2>1
    <3> QED BY <1>9, <1>10, <1>11, <2>1, <3>1, <3>2 DEF PreparedAt, Ready
  <2>2. CASE t # u
    <3>1. at'[u] = at[u]
      BY <1>2, <1>6, <2>2
    <3>2. at[u].call > e => at[u].call >= e
      BY <1>6, <1>7
    <3> QED BY <1>9, <1>12, <2>2, <3>1, <3>2 DEF Prepared, Ready
  <2> QED BY <2>1, <2>2
<1>14. PICK p : p = Plan.calls[u][e].does
  OBVIOUS
<1>15. ASSUME at'[u].call = e PROVE \E j \in 2..9 : Configuring(mem', p, at'[u].todo, n, mbox, j)
  <2>1. CASE t = u
    <3>1. w.call = e
      BY <1>3, <1>15, <2>1
    <3>2. PICK j \in 1..8 : Configuring(mem, p, w.todo, n, mbox, j)
      BY <1>10, <1>14, <2>1, <3>1 DEF PreparedAt
    <3>3. PICK id : id = Id(n)
      OBVIOUS
    <3>4. IsConfigure(p, mbox, n)
      BY <1>6, <1>14, <3>3, ConfigureOf DEF Preparer
    <3>5. PICK C : C = CallCode(Plan.calls[t][w.call])
      OBVIOUS
    <3>6. i \in C /\ w.call \in 1..Len(Plan.calls[t])
      <4>1. w.call \in 1..Len(Plan.calls[t])
        BY <1>1 DEF IsAt
      <4> QED BY <1>1, <1>3, <3>5, <4>1, InCallsAt DEF InCalls
    <3>7. w.call >= e
      BY <1>6, <1>7, <3>1
    <3>8. RequestsOnly(mbox, n, i) /\ Keeps(mbox, n, i)
      <4>1. RequestsOnly(mbox, n, i)
        BY <1>6, <3>5, <3>6 DEF Sender
      <4>2. Keeps(mbox, n, i)
        BY <1>6, <2>1, <3>5, <3>6, <3>7 DEF Preparer
      <4> QED BY <4>1, <4>2
    <3>9. \E l \in 2..9 : Configuring(mem', p, at'[t].todo, n, mbox, l)
      BY <1>3, <3>2, <3>4, <3>8, ConfiguresOn
    <3> QED BY <2>1, <3>9
  <2>2. CASE t # u
    <3>1. at'[u] = at[u]
      BY <1>2, <1>6, <2>2
    <3>2. PICK j \in 2..9 : Configuring(mem, p, at[u].todo, n, mbox, j)
      BY <1>14, <1>15, <3>1 DEF Prepared
    <3>3. at[u].call >= e
      BY <1>6, <1>7, <1>15, <3>1
    <3>4. Configuring(mem', p, at[u].todo, n, mbox, j)
      BY <1>9, <1>12, <2>2, <3>2, <3>3 DEF Configuring
    <3> QED BY <3>1, <3>4
  <2> QED BY <2>1, <2>2
<1>16. ASSUME Flag(mem', mbox, "TXRQ", 1) PROVE s \in live' /\ Ready(mem', mbox, n)
  <2>1. CASE Flag(mem, mbox, "TXRQ", 1)
    <3>1. s \in live /\ Ready(mem, mbox, n)
      BY <2>1 DEF Prepared
    <3> QED BY <1>4, <1>9, <3>1 DEF Ready
  <2>2. CASE ~Flag(mem, mbox, "TXRQ", 1)
    <3>1. ~RequestsNothing(i)
      BY <1>3, <1>16, <2>2, RequestStays
    <3>2. PICK C : C = CallCode(Plan.calls[t][w.call])
      OBVIOUS
    <3>3. i \in C /\ w.call \in 1..Len(Plan.calls[t])
      <4>1. w.call \in 1..Len(Plan.calls[t])
        BY <1>1 DEF IsAt
      <4> QED BY <1>1, <1>3, <3>2, <4>1, InCallsAt DEF InCalls
    <3>4. Plan.calls[t][w.call].what = "send"
      BY <3>1, <3>2, <3>3 DEF Preparer
    <3>5. t = s /\ (u = s => w.call > e)
      <4>1. t = s
        BY <1>6, <3>3, <3>4 DEF Sender
      <4>2. u = s => w.call > e
        BY <3>3, <3>4 DEF Preparer
      <4> QED BY <4>1, <4>2
    <3>6. s \in live
      BY <1>4, <3>5
    <3>7. Ready(mem, mbox, n)
      <4>1. CASE u = s
        BY <1>10, <3>5, <4>1 DEF PreparedAt
      <4>2. CASE u = "main"
        <5>1. at[u].call > e
          BY <1>6, <1>7, <3>6, <4>2 DEF InCalls
        <5> QED BY <5>1 DEF Prepared
      <4> QED BY <1>6, <4>1, <4>2
    <3> QED BY <1>4, <1>9, <3>6, <3>7 DEF Ready
  <2> QED BY <2>1, <2>2
<1> QED BY <1>2, <1>13, <1>14, <1>15, <1>16 DEF Prepared
-----------------------------------------------------------------------------
(* The frames and the tasks *)

InSend(s) == at[s].call # 0 /\ CallOf(s).what = "send"

Filling(s, n, mbox) ==
  InSend(s) => \E j \in 2..10 : Place(at[s].todo, CallOf(s).does, mbox, j) /\ Filled(mem, mbox, CallOf(s).high, Dlc(n), j)

\* The mailbox has the message of call c.
Message(m, mbox, n, c) ==
  /\ HasField(ValueIn(m, MOFCR(mbox)), "DLC", Dlc(n))
  /\ HasField(ValueIn(m, MODATAH(mbox)), "W", c.high)
  /\ HasField(ValueIn(m, MODATAL(mbox)), "W", c.low)

Pending(s, n, mbox) ==
  Flag(mem, mbox, "TXRQ", 1) /\ ~InSend(s) =>
    \E j \in 1..Len(Plan.calls[s]) : Plan.calls[s][j].what = "send" /\ Message(mem, mbox, n, Plan.calls[s][j])

\* Within the function, or before it has begun.
FillingAt(w, s, n, mbox) ==
  Plan.calls[s][w.call].what = "send" =>
    \E j \in 1..9 : /\ Place(w.todo, Plan.calls[s][w.call].does, mbox, j)
                    /\ Filled(mem, mbox, Plan.calls[s][w.call].high, Dlc(n), j)

LEMMA SendsWhole ==
  ASSUME NEW s, NEW n, NEW mbox, NEW k, NEW u, NEW e, Preparer(s, n, mbox, k, u, e), NEW t \in Tasks,
         NEW j \in 1..Len(Plan.calls[t]), NEW c, c = Plan.calls[t][j], c.what = "send", NEW p, p = c.does
  PROVE  t = s /\ c.mbox = mbox /\ IsSend(p, mbox, c.low, c.high, Dlc(n))
<1>0. Sender(s, n, mbox, k) /\ mbox \in 0..MailboxCount - 1
  BY WhoPrepares
<1>1. t = s /\ c.mbox = mbox /\ mbox \in 0..MailboxCount - 1
  BY <1>0 DEF Sender
<1>2. p = send(mbox, c.low, c.high, Dlc(n))
  BY DEF Preparer
<1>3. PICK low, high, dlc : low = c.low /\ high = c.high /\ dlc = Dlc(n)
  OBVIOUS
<1> QED BY <1>1, <1>2, <1>3, SendOf

LEMMA FillsAt ==
  ASSUME NEW s, NEW n, NEW mbox, NEW k, NEW u, NEW e, Preparer(s, n, mbox, k, u, e), Filling(s, n, mbox),
         NEW w, IsAt(s, w)
  PROVE  FillingAt(w, s, n, mbox)
<1> SUFFICES ASSUME NEW c, c = Plan.calls[s][w.call], c.what = "send", NEW p, p = c.does
             PROVE  \E j \in 1..9 : Place(w.todo, p, mbox, j) /\ Filled(mem, mbox, c.high, Dlc(n), j)
  BY DEF FillingAt
<1>1. s \in Tasks /\ w.call \in 1..Len(Plan.calls[s])
  BY WhoPrepares DEF IsAt
<1>2. IsSend(p, mbox, c.low, c.high, Dlc(n))
  BY <1>1, SendsWhole
<1>3. CASE at[s].todo # << >> /\ w.call = at[s].call /\ w.todo = at[s].todo
  <2>1. InSend(s) /\ CallOf(s) = c
    BY <1>1, <1>3 DEF InSend, CallOf
  <2>2. PICK j \in 2..10 : Place(at[s].todo, p, mbox, j) /\ Filled(mem, mbox, c.high, Dlc(n), j)
    BY <2>1 DEF Filling
  <2>3. j # 10
    BY <1>3, <2>2 DEF Place
  <2>4. j \in 1..9
    BY <2>3
  <2> QED BY <1>3, <2>2, <2>4
<1>4. CASE at[s].todo = << >> /\ w.todo = Plan.calls[s][w.call].does
  <2>1. w.todo = From(p, 1)
    BY <1>2, <1>4, FromEnd DEF IsSend
  <2> QED BY <2>1 DEF Place, Filled
<1> QED BY <1>3, <1>4 DEF IsAt

\* When the function has returned the mailbox has its message.
LEMMA FilledOver ==
  ASSUME NEW s, NEW n, NEW mbox, NEW k, NEW u, NEW e, Preparer(s, n, mbox, k, u, e), InSend(s), at[s].call \in 1..Len(Plan.calls[s]),
         Filling(s, n, mbox), OnItsPlace(s, n, mbox), NEW c, c = CallOf(s),
         NEW l \in 7..10, Place(at[s].todo, c.does, mbox, l)
  PROVE  Message(mem, mbox, n, c)
<1>1. PICK p, todo : p = c.does /\ todo = at[s].todo
  OBVIOUS
<1>2. IsSend(p, mbox, c.low, c.high, Dlc(n))
  <2>1. s \in Tasks /\ c = Plan.calls[s][at[s].call] /\ c.what = "send"
    BY WhoPrepares DEF InSend, CallOf
  <2> QED BY <1>1, <2>1, SendsWhole
<1>3. Place(todo, p, mbox, l)
  BY <1>1
<1>4. PICK low, high, dlc : low = c.low /\ high = c.high /\ dlc = Dlc(n)
  OBVIOUS
<1>5. IsSend(p, mbox, low, high, dlc)
  BY <1>2, <1>4
<1>6. PICK j \in 2..10 : Place(todo, p, mbox, j) /\ Filled(mem, mbox, high, dlc, j)
  BY <1>1, <1>4 DEF Filling
<1>7. j >= 7
  BY <1>3, <1>5, <1>6, PlaceLate
<1>8. PICK h \in 2..10 : Place(todo, p, mbox, h) /\ Underway(n, mbox, low, h)
  BY <1>1, <1>4 DEF OnItsPlace, InSend
<1>9. h >= 7
  BY <1>3, <1>5, <1>8, PlaceLate
<1>10. HasField(ValueIn(mem, MODATAL(mbox)), "W", low)
  BY <1>8, <1>9 DEF Underway, Way, Word
<1>11. HasField(ValueIn(mem, MOFCR(mbox)), "DLC", dlc) /\ HasField(ValueIn(mem, MODATAH(mbox)), "W", high)
  BY <1>6, <1>7 DEF Filled
<1> QED BY <1>4, <1>10, <1>11 DEF Message

\* The step of a task, for these.
Stepped(t, w, i) ==
  /\ IsAt(t, w) /\ Does(t, w, i) /\ at'[t].call = w.call /\ t \in live /\ live \subseteq live'
  /\ Plan' = Plan /\ Tasks' = Tasks /\ (\A u \in Tasks \ {t} : at'[u] = at[u])
  /\ flight' = flight /\ bus' = bus
  /\ w.call \in 1..Len(Plan.calls[t])

LEMMA TaskStepped ==
  ASSUME Activities, DOMAIN acc = Tasks, NEW t \in Tasks, Step(t)
  PROVE  \E w, i : Stepped(t, w, i)
<1>1. PICK w, i, x : IsAt(t, w) /\ Executed(t, w, i, x) /\ w = Goes(t)
  BY Executes
<1>2. Plan' = Plan /\ Tasks' = Tasks /\ \A u \in Tasks \ {t} : at'[u] = at[u]
  BY <1>1, ActivitiesStepped
<1>3. i = Head(w.todo) /\ Effect(t, i) /\ flight' = flight /\ bus' = bus
  BY <1>1 DEF Executed
<1>4. Continues(t, w, i)
  BY <1>1, <1>3, StepContinues
<1>5. i.op = "if" => mem' = mem /\ at'[t].todo = (IF Holds(i) THEN i.then ELSE i.else) \o Tail(w.todo)
  BY <1>1, <1>3, StepForks
<1>6. live \subseteq live' /\ t \in live
  <2>1. (i.op = "create" => live' = live \cup {i.task}) /\ (i.op # "create" => live' = live) /\ t \in live
    BY <1>1, <1>3, StepForks
  <2> QED BY <2>1
<1>7. Does(t, w, i) /\ at'[t].call = w.call
  BY <1>3, <1>4, <1>5 DEF Does, Continues
<1> QED BY <1>1, <1>2, <1>3, <1>6, <1>7 DEF Stepped, IsAt

LEMMA OfItsCall ==
  ASSUME Activities, NEW t \in Tasks, at[t].call # 0 => at[t].todo \in Seq(CallCode(CallOf(t))), NEW w, NEW i, Stepped(t, w, i)
  PROVE  i \in CallCode(Plan.calls[t][w.call]) /\ i = Head(w.todo) /\ Effect(t, i)
<1>1. PICK C : C = CallCode(Plan.calls[t][w.call])
  OBVIOUS
<1>2. i = Head(w.todo) /\ Effect(t, i) /\ IsAt(t, w)
  BY DEF Stepped, Does
<1> QED BY <1>1, <1>2, InCallsAt

\* Of a mailbox that is avoided.
LEMMA MessageKept ==
  ASSUME NEW mbox, NEW t, NEW i, Effect(t, i), ~Changes(i, {"MODATAL", "MODATAH", "MOFCR"}, mbox)
  PROVE  \A q \in {MODATAL(mbox), MODATAH(mbox), MOFCR(mbox)} : ValueIn(mem', q) = ValueIn(mem, q)
<1> SUFFICES ASSUME NEW q, q \in {MODATAL(mbox), MODATAH(mbox), MOFCR(mbox)} PROVE ValueIn(mem', q) = ValueIn(mem, q)
  OBVIOUS
<1>1. q[1] \in {"MODATAL", "MODATAH", "MOFCR"} /\ q[2] = mbox
  BY DEF MODATAL, MODATAH, MOFCR
<1>2. ~Changes(i, {q[1]}, q[2])
  BY <1>1 DEF Changes
<1> QED BY <1>1, <1>2, RegisterStepped

LEMMA FillingStepped ==
  ASSUME Activities, DOMAIN acc = Tasks, NEW s, NEW n, NEW mbox, NEW k, NEW u, NEW e, Preparer(s, n, mbox, k, u, e),
         InCalls(s, k), Filling(s, n, mbox), NEW t \in Tasks, Step(t)
  PROVE  Filling(s, n, mbox)'
<1>1. PICK w, i : Stepped(t, w, i)
  BY TaskStepped
<1>2. Plan' = Plan /\ Tasks' = Tasks /\ (\A z \in Tasks \ {t} : at'[z] = at[z]) /\ at'[t].call = w.call /\ Does(t, w, i)
  BY <1>1 DEF Stepped
<1>3. i \in CallCode(Plan.calls[t][w.call]) /\ i = Head(w.todo) /\ Effect(t, i) /\ IsAt(t, w) /\ w.call \in 1..Len(Plan.calls[t])
  BY <1>1, OfItsCall DEF InCalls, Stepped
<1>4. Sender(s, n, mbox, k) /\ s \in Tasks /\ mbox \in 0..MailboxCount - 1
  BY WhoPrepares
<1>5. CASE t # s
  <2>1. at'[s] = at[s] /\ CallOf(s)' = CallOf(s)
    BY <1>2, <1>4, <1>5 DEF CallOf
  <2>2. ASSUME InSend(s)
        PROVE  \E j \in 2..10 : Place(at'[s].todo, CallOf(s).does, mbox, j) /\ Filled(mem', mbox, CallOf(s).high, Dlc(n), j)
    <3>1. s \in live
      BY <2>2 DEF InCalls, InSend
    <3>2. t = "main" => w.call > k
      BY <1>3, <1>4, <3>1, MainBehind
    <3>3. Avoids(mbox, i)
      BY <1>3, <1>4, <1>5, <3>2 DEF Sender
    <3>4. ~Changes(i, {"MOFCR", "MODATAH"}, mbox)
      BY <3>3 DEF Avoids, Changes
    <3>5. PICK j \in 2..10 : Place(at[s].todo, CallOf(s).does, mbox, j) /\ Filled(mem, mbox, CallOf(s).high, Dlc(n), j)
      BY <2>2 DEF Filling
    <3>6. PICK high, dlc : high = CallOf(s).high /\ dlc = Dlc(n)
      OBVIOUS
    <3>7. Filled(mem', mbox, high, dlc, j)
      BY <1>3, <3>4, <3>5, <3>6, FilledStays
    <3> QED BY <2>1, <3>5, <3>6, <3>7
  <2> QED BY <2>1, <2>2 DEF Filling, InSend
<1>6. CASE t = s
  <2>1. PICK c : c = Plan.calls[s][w.call]
    OBVIOUS
  <2>2. CallOf(s)' = c
    BY <1>2, <1>6, <2>1 DEF CallOf
  <2>3. ASSUME c.what = "send"
        PROVE  \E l \in 2..10 : Place(at'[s].todo, c.does, mbox, l) /\ Filled(mem', mbox, c.high, Dlc(n), l)
    <3>1. PICK p, low, high, dlc : p = c.does /\ low = c.low /\ high = c.high /\ dlc = Dlc(n)
      OBVIOUS
    <3>2. IsSend(p, mbox, low, high, dlc)
      <4>1. IsSend(p, mbox, c.low, c.high, Dlc(n))
        BY <1>3, <1>4, <1>6, <2>1, <2>3, <3>1, SendsWhole
      <4> QED BY <3>1, <4>1
    <3>3. PICK j \in 1..9 : Place(w.todo, p, mbox, j) /\ Filled(mem, mbox, high, dlc, j)
      <4>1. FillingAt(w, s, n, mbox)
        BY <1>3, <1>6, FillsAt
      <4> QED BY <2>1, <2>3, <3>1, <4>1 DEF FillingAt
    <3>4. CASE j \in 1..6
      <4>1. w.todo = From(p, j)
        BY <3>3, <3>4 DEF Place
      <4>2. \E l \in 2..10 : Place(at'[t].todo, p, mbox, l) /\ Filled(mem', mbox, high, dlc, l)
        BY <1>2, <3>2, <3>3, <3>4, <4>1, FillsOn
      <4> QED BY <1>6, <3>1, <4>2
    <3>5. CASE j \in 7..9
      <4>1. \E l \in 2..10 : Place(at'[t].todo, p, mbox, l) /\ Filled(mem', mbox, high, dlc, l)
        BY <1>2, <3>2, <3>3, <3>5, RequestsOn
      <4> QED BY <1>6, <3>1, <4>1
    <3> QED BY <3>4, <3>5
  <2> QED BY <2>2, <2>3 DEF Filling, InSend
<1> QED BY <1>5, <1>6

LEMMA PendingStepped ==
  ASSUME Activities, DOMAIN acc = Tasks, NEW s, NEW n, NEW mbox, NEW k, NEW u, NEW e, Preparer(s, n, mbox, k, u, e),
         InCalls(s, k), OnItsPlace(s, n, mbox), Prepared(s, n, mbox, u, e), Filling(s, n, mbox), Pending(s, n, mbox),
         NEW t \in Tasks, Step(t)
  PROVE  Pending(s, n, mbox)'
<1>1. PICK w, i : Stepped(t, w, i)
  BY TaskStepped
<1>2. Plan' = Plan /\ Tasks' = Tasks /\ (\A z \in Tasks \ {t} : at'[z] = at[z]) /\ at'[t].call = w.call
  BY <1>1 DEF Stepped
<1>3. i \in CallCode(Plan.calls[t][w.call]) /\ i = Head(w.todo) /\ Effect(t, i) /\ IsAt(t, w) /\ w.call \in 1..Len(Plan.calls[t])
  BY <1>1, OfItsCall DEF InCalls, Stepped
<1>4. Sender(s, n, mbox, k) /\ s \in Tasks /\ mbox \in 0..MailboxCount - 1
  BY WhoPrepares
<1> SUFFICES ASSUME Flag(mem', mbox, "TXRQ", 1), ~InSend(s)'
             PROVE  \E j \in 1..Len(Plan.calls[s]) : Plan.calls[s][j].what = "send" /\ Message(mem', mbox, n, Plan.calls[s][j])
  BY <1>2 DEF Pending
<1>5. Plan.calls[t][w.call].what # "send"
  <2> SUFFICES ASSUME Plan.calls[t][w.call].what = "send" PROVE FALSE
    OBVIOUS
  <2>1. t = s
    BY <1>3, <1>4 DEF Sender
  <2> QED BY <1>2, <1>3, <2>1 DEF InSend, CallOf
<1>6. RequestsNothing(i) /\ (t = s => ~Changes(i, {"MODATAL", "MODATAH", "MOFCR"}, mbox))
  BY <1>3, <1>5 DEF Preparer
<1>7. Flag(mem, mbox, "TXRQ", 1)
  BY <1>3, <1>6, RequestStays
<1>8. s \in live
  BY <1>7 DEF Prepared
<1>9. ~Changes(i, {"MODATAL", "MODATAH", "MOFCR"}, mbox)
  <2> SUFFICES ASSUME t # s PROVE ~Changes(i, {"MODATAL", "MODATAH", "MOFCR"}, mbox)
    BY <1>6
  <2>1. t = "main" => w.call > k
    BY <1>3, <1>4, <1>8, MainBehind
  <2>2. Avoids(mbox, i)
    BY <1>3, <1>4, <2>1 DEF Sender
  <2> QED BY <2>2 DEF Avoids, Changes
<1>10. \A q \in {MODATAL(mbox), MODATAH(mbox), MOFCR(mbox)} : ValueIn(mem', q) = ValueIn(mem, q)
  BY <1>3, <1>9, MessageKept
<1>11. ASSUME NEW c, Message(mem, mbox, n, c) PROVE Message(mem', mbox, n, c)
  BY <1>10, <1>11 DEF Message
<1>12. CASE ~InSend(s)
  BY <1>7, <1>11, <1>12 DEF Pending
<1>13. CASE InSend(s)
  <2>1. at[s].call \in 1..Len(Plan.calls[s])
    <3>1. Len(Plan.calls[s]) \in Nat /\ at[s].call \in 0..Len(Plan.calls[s])
      BY <1>4, CallsOf
    <3> QED BY <1>13, <3>1 DEF InSend
  <2>2. t = s
    <3>1. ASSUME t # s PROVE FALSE
      <4>1. at'[s] = at[s] /\ CallOf(s)' = CallOf(s)
        BY <1>2, <1>4, <3>1 DEF CallOf
      <4> QED BY <1>13, <4>1 DEF InSend
    <3> QED BY <3>1
  <2>3. at[s].todo = << >>
    <3>1. w.call # at[s].call
      BY <1>5, <1>13, <2>2 DEF InSend, CallOf
    <3> QED BY <1>3, <2>2, <3>1 DEF IsAt
  <2>4. PICK c : c = CallOf(s)
    OBVIOUS
  <2>5. Place(at[s].todo, c.does, mbox, 10)
    BY <2>3 DEF Place
  <2>6. Message(mem, mbox, n, c)
    BY <1>13, <2>1, <2>4, <2>5, FilledOver
  <2>7. c.what = "send" /\ c = Plan.calls[s][at[s].call]
    BY <1>13, <2>4 DEF InSend, CallOf
  <2> QED BY <1>11, <2>1, <2>6, <2>7
<1> QED BY <1>12, <1>13
-----------------------------------------------------------------------------
(* The frames and the peripherals *)

IsFrame(s, n, f) ==
  \E j \in 1..Len(Plan.calls[s]) :
    /\ Plan.calls[s][j].what = "send"
    /\ Plan.calls[s][j].low = f.low /\ Plan.calls[s][j].high = f.high /\ Plan.calls[s][j].mbox = f.mbox
    /\ f.dlc = Dlc(n) /\ f.id = Id(n)

\* The frames in flight and those that went out are whole.
Frames(s, n) ==
  \A j \in Nodes : /\ flight[j] # None => j = n /\ IsFrame(s, n, flight[j])
                   /\ bus[j] # None => j = n /\ IsFrame(s, n, bus[j])

\* Between a fetch of the tasks and the next one nothing is filled in.
LEMMA PreparedPeripherals ==
  ASSUME NEW s, NEW n, NEW mbox, NEW u, NEW e, Prepared(s, n, mbox, u, e), Happens(mbox),
         at' = at, live' = live, Plan' = Plan
  PROVE  Prepared(s, n, mbox, u, e)'
<1>1. /\ Flag(mem, mbox, "DIR", Transmit) => Flag(mem', mbox, "DIR", Transmit)
      /\ Flag(mem', mbox, "TXRQ", 1) => Flag(mem, mbox, "TXRQ", 1)
  BY HappensToFlags
<1>2. ValueIn(mem', MOAR(mbox)) = ValueIn(mem, MOAR(mbox))
  <2>1. OfMessage(MOAR(mbox), mbox)
    BY DEF OfMessage, MOAR
  <2> QED BY <2>1 DEF Happens, SameMessage
<1>3. HasId(mem, mbox, n) <=> HasId(mem', mbox, n)
  BY <1>2 DEF HasId
<1>4. PICK p : p = Plan.calls[u][e].does
  OBVIOUS
<1>5. at[u].call = e => \E j \in 2..9 : Configuring(mem', p, at[u].todo, n, mbox, j)
  BY <1>1, <1>3, <1>4 DEF Prepared, Configuring
<1>6. at[u].call > e => Ready(mem', mbox, n)
  BY <1>1, <1>3 DEF Prepared, Ready
<1>7. Flag(mem', mbox, "TXRQ", 1) => s \in live /\ Ready(mem', mbox, n)
  BY <1>1, <1>3 DEF Prepared, Ready
<1> QED BY <1>4, <1>5, <1>6, <1>7 DEF Prepared

\* A task that is sending has prepared the mailbox.
LEMMA ReadyInSend ==
  ASSUME Activities, NEW s, NEW n, NEW mbox, NEW k, NEW u, NEW e, Preparer(s, n, mbox, k, u, e), InCalls(s, k),
         Prepared(s, n, mbox, u, e), InSend(s)
  PROVE  Ready(mem, mbox, n) /\ at[s].call \in 1..Len(Plan.calls[s])
<1>1. Sender(s, n, mbox, k) /\ u \in {s, "main"} /\ e \in 1..Len(Plan.calls[u]) /\ (u = "main" => e < k)
  BY WhoPrepares
<1>2. s \in Tasks /\ "main" \in Tasks /\ k \in 1..Len(Plan.calls["main"])
  BY <1>1 DEF Sender
<1>3. /\ Len(Plan.calls[s]) \in Nat /\ at[s].call \in 0..Len(Plan.calls[s])
      /\ Len(Plan.calls["main"]) \in Nat /\ at["main"].call \in 0..Len(Plan.calls["main"])
  BY <1>2, CallsOf
<1>4. at[s].call \in 1..Len(Plan.calls[s])
  BY <1>3 DEF InSend
<1>5. CASE u = s
  <2>1. Plan.calls[s][at[s].call].what = "send"
    BY DEF InSend, CallOf
  <2>2. at[s].call > e
    BY <1>2, <1>4, <1>5, <2>1 DEF Preparer
  <2> QED BY <1>4, <1>5, <2>2 DEF Prepared
<1>6. CASE u = "main"
  <2>1. at["main"].call >= k
    BY DEF InCalls, InSend
  <2>2. at[u].call > e
    <3>1. e \in 1..Len(Plan.calls["main"])
      BY <1>1, <1>6
    <3> QED BY <1>1, <1>2, <1>3, <1>6, <2>1, <3>1
  <2> QED BY <1>4, <2>2 DEF Prepared
<1> QED BY <1>1, <1>5, <1>6

\* A frame that is started has the message whole.
LEMMA StartedWhole ==
  ASSUME Activities, NEW s, NEW n, NEW mbox, NEW k, NEW u, NEW e, Preparer(s, n, mbox, k, u, e), InCalls(s, k),
         OnItsPlace(s, n, mbox), Prepared(s, n, mbox, u, e), Filling(s, n, mbox), Pending(s, n, mbox),
         Flag(mem, mbox, "TXRQ", 1), ~Flag(mem, mbox, "MSGVAL", 0)
  PROVE  IsFrame(s, n, FrameIn(mbox))
<1>1. PICK q, r, d, h : q = MOAR(mbox) /\ r = MOFCR(mbox) /\ d = MODATAL(mbox) /\ h = MODATAH(mbox)
  OBVIOUS
<1>2. PICK f : f = FrameIn(mbox)
  OBVIOUS
<1>3. f.mbox = mbox /\ f.id = Field(q, "ID") /\ f.dlc = Field(r, "DLC") /\ f.low = Field(d, "W") /\ f.high = Field(h, "W")
  BY <1>1, <1>2 DEF FrameIn
<1>4. HasField(ValueIn(mem, q), "ID", Id(n))
  BY <1>1 DEF Prepared, Ready, HasId
<1>5. f.id = Id(n)
  BY <1>3, <1>4, FieldOf DEF Is
<1>6. ASSUME NEW j \in 1..Len(Plan.calls[s]), Plan.calls[s][j].what = "send", Message(mem, mbox, n, Plan.calls[s][j])
      PROVE  IsFrame(s, n, f)
  <2>1. PICK c : c = Plan.calls[s][j]
    OBVIOUS
  <2>2. HasField(ValueIn(mem, r), "DLC", Dlc(n)) /\ HasField(ValueIn(mem, h), "W", c.high) /\ HasField(ValueIn(mem, d), "W", c.low)
    BY <1>1, <1>6, <2>1 DEF Message
  <2>3. Is(r, "DLC", Dlc(n)) /\ Is(h, "W", c.high) /\ Is(d, "W", c.low)
    BY <2>2, FieldOf
  <2>4. f.dlc = Dlc(n) /\ f.high = c.high /\ f.low = c.low
    BY <1>3, <2>3 DEF Is
  <2>5. c.mbox = mbox
    <3>1. s \in Tasks /\ Sender(s, n, mbox, k)
      BY WhoPrepares
    <3> QED BY <1>6, <2>1, <3>1 DEF Sender
  <2> QED BY <1>3, <1>5, <1>6, <2>1, <2>4, <2>5 DEF IsFrame
<1>7. CASE ~InSend(s)
  BY <1>2, <1>6, <1>7 DEF Pending
<1>8. CASE InSend(s)
  <2>1. at[s].call \in 1..Len(Plan.calls[s])
    BY <1>8, ReadyInSend
  <2>2. PICK c : c = CallOf(s)
    OBVIOUS
  <2>3. PICK l \in 2..10 : Place(at[s].todo, c.does, mbox, l) /\ Underway(n, mbox, c.low, l)
    BY <1>8, <2>2 DEF OnItsPlace, InSend
  <2>4. l \notin 2..6
    <3>1. HasField(Status(mem, mbox), "MSGVAL", 0) <=> Flag(mem, mbox, "MSGVAL", 0)
      BY DEF Status, Flag
    <3> QED BY <2>3, <3>1 DEF Underway, Way
  <2>5. l \in 7..10
    BY <2>4
  <2>6. Message(mem, mbox, n, c)
    BY <1>8, <2>1, <2>2, <2>3, <2>5, FilledOver
  <2>7. c.what = "send" /\ c = Plan.calls[s][at[s].call]
    BY <1>8, <2>2 DEF InSend, CallOf
  <2> QED BY <1>2, <1>6, <2>1, <2>6, <2>7
<1> QED BY <1>7, <1>8

LEMMA FramesPeripherals ==
  ASSUME Activities, NEW s, NEW n, NEW mbox, NEW k, NEW u, NEW e, Preparer(s, n, mbox, k, u, e), InCalls(s, k), Traffic(n, mbox),
         OnItsPlace(s, n, mbox), Prepared(s, n, mbox, u, e), Filling(s, n, mbox), Pending(s, n, mbox), Frames(s, n), Peripherals
  PROVE  Frames(s, n)'
<1>0. app' = app
  BY DEF Peripherals, PanelDone, ByteArrives, Starts, Sent, Fails, Heard
<1>1. Plan' = Plan
  BY <1>0 DEF Plan
<1>3. DOMAIN flight = Nodes /\ DOMAIN bus = Nodes /\ n \in Nodes /\ mbox \in 0..MailboxCount - 1
  BY WhoPrepares DEF Traffic
<1>4. ASSUME \A j \in Nodes : flight'[j] = flight[j] \/ flight'[j] = None \/ (j = n /\ IsFrame(s, n, flight'[j])),
             \A j \in Nodes : bus'[j] = bus[j] \/ bus'[j] = None \/ (flight[j] # None /\ bus'[j] = flight[j])
      PROVE  Frames(s, n)'
  <2> SUFFICES ASSUME NEW j \in Nodes
               PROVE  /\ flight'[j] # None => j = n /\ IsFrame(s, n, flight'[j])
                      /\ bus'[j] # None => j = n /\ IsFrame(s, n, bus'[j])
    <3>1. PICK F, B : F = flight' /\ B = bus'
      OBVIOUS
    <3>2. \A j \in Nodes : /\ F[j] # None => j = n /\ IsFrame(s, n, F[j])
                           /\ B[j] # None => j = n /\ IsFrame(s, n, B[j])
      BY <3>1
    <3> QED BY <1>1, <3>1, <3>2 DEF Frames, IsFrame
  <2> QED BY <1>4 DEF Frames
<1>5. CASE flight' = flight /\ bus' = bus
  BY <1>4, <1>5
<1>6. ASSUME NEW i \in Nodes, Starts(i) PROVE Frames(s, n)'
  <2>1. PICK x \in Mailboxes : /\ Serves(i, x, Transmit) /\ Sending(x)
                              /\ flight' = [flight EXCEPT ![i] = FrameIn(x)] /\ bus' = bus
    BY <1>6 DEF Starts
  <2>2. x = mbox /\ i = n /\ Flag(mem, mbox, "TXRQ", 1)
    BY <1>3, <2>1, ServedOne
  <2>3. ~Flag(mem, mbox, "MSGVAL", 0)
    <3>1. PICK q : q = MOSTAT(mbox)
      OBVIOUS
    <3>2. Is(q, "MSGVAL", 1)
      BY <2>1, <2>2, <3>1 DEF Serves
    <3>3. HasField(ValueIn(mem, q), "MSGVAL", 1)
      BY <3>2, FieldOf
    <3> QED BY <3>1, <3>3 DEF Flag, HasField
  <2>4. IsFrame(s, n, FrameIn(mbox))
    BY <2>2, <2>3, StartedWhole
  <2>5. PICK g : g = FrameIn(mbox)
    OBVIOUS
  <2>6. flight'[n] = g /\ \A j \in Nodes : j # n => flight'[j] = flight[j]
    BY <1>3, <2>1, <2>2, <2>5
  <2> QED BY <1>4, <2>1, <2>4, <2>5, <2>6
<1>7. ASSUME NEW i \in Nodes, Sent(i) PROVE Frames(s, n)'
  <2>1. flight[i] # None /\ bus' = [bus EXCEPT ![i] = flight[i]] /\ flight' = [flight EXCEPT ![i] = None]
    BY <1>7 DEF Sent
  <2>2. \A j \in Nodes : flight'[j] = flight[j] \/ flight'[j] = None
    BY <1>3, <2>1
  <2>3. \A j \in Nodes : bus'[j] = bus[j] \/ (flight[j] # None /\ bus'[j] = flight[j])
    BY <1>3, <2>1
  <2> QED BY <1>4, <2>2, <2>3
<1>8. ASSUME NEW i \in Nodes, NEW off \in BOOLEAN, Fails(i, off) PROVE Frames(s, n)'
  <2>1. bus' = bus /\ flight' = [flight EXCEPT ![i] = None]
    BY <1>8 DEF Fails
  <2>2. \A j \in Nodes : flight'[j] = flight[j] \/ flight'[j] = None
    BY <1>3, <2>1
  <2> QED BY <1>4, <2>1, <2>2
<1>9. PanelDone \/ ByteArrives \/ (\E i \in Nodes : \E v : Heard(i, v)) => flight' = flight /\ bus' = bus
  BY DEF PanelDone, ByteArrives, Heard
<1> QED BY <1>5, <1>6, <1>7, <1>8, <1>9 DEF Peripherals

LEMMA FillingPeripherals ==
  ASSUME Activities, NEW s, NEW n, NEW mbox, NEW k, NEW u, NEW e, Preparer(s, n, mbox, k, u, e), InCalls(s, k),
         Prepared(s, n, mbox, u, e), Filling(s, n, mbox), Pending(s, n, mbox), Happens(mbox), at' = at, Plan' = Plan
  PROVE  Filling(s, n, mbox)' /\ Pending(s, n, mbox)'
<1>1. Ready(mem, mbox, n) => \A q \in {MODATAL(mbox), MODATAH(mbox), MOFCR(mbox)} : ValueIn(mem', q) = ValueIn(mem, q)
  <2>1. Ready(mem, mbox, n) => SameMessage(mbox)
    BY HappensToFlags DEF Ready
  <2>2. \A q \in {MODATAL(mbox), MODATAH(mbox), MOFCR(mbox)} : OfMessage(q, mbox)
    BY DEF OfMessage, MODATAL, MODATAH, MOFCR
  <2> QED BY <2>1, <2>2 DEF SameMessage
<1>2. CallOf(s)' = CallOf(s) /\ (InSend(s)' <=> InSend(s))
  BY DEF CallOf, InSend
<1>3. ASSUME InSend(s)
      PROVE  \E j \in 2..10 : Place(at[s].todo, CallOf(s).does, mbox, j) /\ Filled(mem', mbox, CallOf(s).high, Dlc(n), j)
  <2>1. Ready(mem, mbox, n)
    BY <1>3, ReadyInSend
  <2>2. PICK j \in 2..10 : Place(at[s].todo, CallOf(s).does, mbox, j) /\ Filled(mem, mbox, CallOf(s).high, Dlc(n), j)
    BY <1>3 DEF Filling
  <2>3. Filled(mem', mbox, CallOf(s).high, Dlc(n), j)
    BY <1>1, <2>1, <2>2 DEF Filled
  <2> QED BY <2>2, <2>3
<1>4. Filling(s, n, mbox)'
  BY <1>2, <1>3 DEF Filling
<1>5. ASSUME Flag(mem', mbox, "TXRQ", 1), ~InSend(s)
      PROVE  \E j \in 1..Len(Plan.calls[s]) : Plan.calls[s][j].what = "send" /\ Message(mem', mbox, n, Plan.calls[s][j])
  <2>1. Flag(mem, mbox, "TXRQ", 1)
    BY <1>5, HappensToFlags
  <2>2. Ready(mem, mbox, n)
    BY <2>1 DEF Prepared
  <2>3. PICK j \in 1..Len(Plan.calls[s]) : Plan.calls[s][j].what = "send" /\ Message(mem, mbox, n, Plan.calls[s][j])
    BY <1>5, <2>1 DEF Pending
  <2>4. Message(mem', mbox, n, Plan.calls[s][j])
    BY <1>1, <2>2, <2>3 DEF Message
  <2> QED BY <2>3, <2>4
<1>6. Pending(s, n, mbox)'
  BY <1>2, <1>5 DEF Pending
<1> QED BY <1>4, <1>6
-----------------------------------------------------------------------------
(* The message that is received *)

WordIn(v) == IF "W" \in DOMAIN v THEN v["W"] ELSE 0

Reading(r, f) == [op |-> "read", reg |-> r, field |-> f]

\* The accesses of the function.
IsRecv(p, mbox) ==
  /\ IsSeq(p) /\ Len(p) = 7
  /\ p[1] = [op |-> "poll", reg |-> MOSTAT(mbox), field |-> "NEWDAT", val |-> 1]
  /\ p[2] = Reading(MODATAL(mbox), "W") /\ p[3] = Reading(MODATAH(mbox), "W")
  /\ p[4].op = "write" /\ p[5].op = "write"
  /\ p[6] = Reading(MOAR(mbox), "ID") /\ p[7] = Reading(MOFCR(mbox), "DLC")

LEMMA RecvOf ==
  ASSUME NEW mbox, NEW p, p = recv(mbox)
  PROVE  IsRecv(p, mbox)
<1>1. PICK a1, a2, a3, a4, a5, a6, a7 :
        /\ a1 = [op |-> "poll", reg |-> MOSTAT(mbox), field |-> "NEWDAT", val |-> 1]
        /\ a2 = Reading(MODATAL(mbox), "W") /\ a3 = Reading(MODATAH(mbox), "W")
        /\ a4 = Sets(MOCTR(mbox), [NEWDAT |-> 0, RXUPD |-> 0]) /\ a5 = Sets(MOCTR(mbox), [RXEN |-> 1])
        /\ a6 = Reading(MOAR(mbox), "ID") /\ a7 = Reading(MOFCR(mbox), "DLC")
  OBVIOUS
<1>2. PICK q1, q3, q5, q6 : q1 = << a1 >> /\ q3 = q1 \o << a2, a3 >> /\ q5 = q3 \o << a4, a5 >> /\ q6 = q5 \o << a6 >>
  OBVIOUS
<1>3. Words(mbox) = << a2, a3 >>
  <2>1. Read(MODATAL(mbox), "W") = << a2 >> /\ Read(MODATAH(mbox), "W") = << a3 >>
    BY <1>1 DEF Read, Reading
  <2> QED BY <2>1, TwoJoined DEF Words
<1>4. Taken(mbox) = << a4, a5 >>
  <2>1. Write(MOCTR(mbox), [NEWDAT |-> 0, RXUPD |-> 0]) = << a4 >> /\ Write(MOCTR(mbox), [RXEN |-> 1]) = << a5 >>
    BY <1>1 DEF Write, Sets
  <2> QED BY <2>1, TwoJoined DEF Taken
<1>5. p = q6 \o << a7 >>
  <2>1. Poll(MOSTAT(mbox), "NEWDAT", 1) = q1
    BY <1>1, <1>2 DEF Poll
  <2>2. Read(MOAR(mbox), "ID") = << a6 >> /\ Read(MOFCR(mbox), "DLC") = << a7 >>
    BY <1>1 DEF Read, Reading
  <2> QED BY <1>2, <1>3, <1>4, <2>1, <2>2 DEF recv
<1>6. IsSeq(q1) /\ Len(q1) = 1 /\ q1[1] = a1
  BY <1>2, SeqsOfOne
<1>7. GrownByTwo(q3, q1, 1, a2, a3)
  BY <1>2, <1>6, TwoBehind
<1>8. IsSeq(q3) /\ Len(q3) = 3 /\ q3[1] = a1 /\ q3[2] = a2 /\ q3[3] = a3
  BY <1>6, <1>7 DEF GrownByTwo
<1>9. GrownByTwo(q5, q3, 3, a4, a5)
  BY <1>2, <1>8, TwoBehind
<1>10. IsSeq(q5) /\ Len(q5) = 5 /\ q5[1] = a1 /\ q5[2] = a2 /\ q5[3] = a3 /\ q5[4] = a4 /\ q5[5] = a5
  BY <1>8, <1>9 DEF GrownByTwo
<1>11. GrownByOne(q6, q5, 5, a6)
  BY <1>2, <1>10, OneBehind
<1>12. IsSeq(q6) /\ Len(q6) = 6 /\ q6[1] = a1 /\ q6[2] = a2 /\ q6[3] = a3 /\ q6[4] = a4 /\ q6[5] = a5 /\ q6[6] = a6
  BY <1>10, <1>11 DEF GrownByOne
<1>13. GrownByOne(p, q6, 6, a7)
  BY <1>5, <1>12, OneBehind
<1>14. IsSeq(p) /\ Len(p) = 7 /\ p[1] = a1 /\ p[2] = a2 /\ p[3] = a3 /\ p[4] = a4 /\ p[5] = a5 /\ p[6] = a6 /\ p[7] = a7
  BY <1>12, <1>13 DEF GrownByOne
<1>15. a4.op = "write" /\ a5.op = "write"
  BY <1>1 DEF Sets
<1> QED BY <1>1, <1>14, <1>15 DEF IsRecv

\* What a task has read.
Gathers(t, w, i) ==
  /\ i.op = "write" => at'[t].buf = w.buf \o << >>
  /\ i.op = "read" => at'[t].buf = w.buf \o << Field(i.reg, i.field) >>
  /\ i.op = "poll" => \/ Holds(i) /\ at'[t].todo = Tail(w.todo) /\ at'[t].buf = w.buf \o << >>
                      \/ at'[t].todo = << >> /\ at'[t].buf = w.buf

LEMMA StepGathers ==
  ASSUME Activities, NEW t \in Tasks, Step(t), NEW w, w = Goes(t), NEW i, i = Head(w.todo)
  PROVE  Gathers(t, w, i)
<1>1. w.todo # << >> /\ t \in DOMAIN at
  BY DEF Step, Activities
<1>2. \/ Loads(t, w, i) \/ Stores(t, w, i) \/ Updates(t, w, i) \/ Writes(t, w, i) \/ Reads(t, w, i)
      \/ Awaits(t, w, i) \/ TimesOut(t, w, i) \/ Branches(t, w, i) \/ Creates(t, w, i)
  BY DEF Step
<1>3. IsAt(t, w)
  BY <1>1, Begins
<1>4. DOMAIN w = {"call", "todo", "buf"} /\ w.todo \in Seq(TaskCode(app, t))
  BY <1>3 DEF IsAt
<1> HIDE DEF Tasks
<1>5. << >> \o Tail(w.todo) = Tail(w.todo)
  <2>1. Tail(w.todo) \in Seq(TaskCode(app, t))
    BY <1>1, <1>4
  <2> QED BY <2>1
<1>6. ASSUME NEW words, GoesOn(t, w, << >>, words) PROVE at'[t].todo = Tail(w.todo) /\ at'[t].buf = w.buf \o words
  <2>1. at'[t].todo = << >> \o Tail(w.todo) /\ at'[t].buf = w.buf \o words
    BY <1>1, <1>4, <1>6 DEF GoesOn
  <2> QED BY <1>5, <2>1
<1>7. CASE i.op = "write"
  <2>1. Writes(t, w, i)
    BY <1>2, <1>7 DEF Loads, Stores, Updates, Reads, Awaits, TimesOut, Branches, Creates
  <2> QED BY <1>6, <1>7, <2>1 DEF Writes, Proceeds, Gathers
<1>8. CASE i.op = "read"
  <2>1. Reads(t, w, i)
    BY <1>2, <1>8 DEF Loads, Stores, Updates, Writes, Awaits, TimesOut, Branches, Creates
  <2>2. GoesOn(t, w, << >>, << Field(i.reg, i.field) >>)
    BY <2>1 DEF Reads
  <2> QED BY <1>6, <1>8, <2>2 DEF Gathers
<1>9. CASE i.op = "poll"
  <2>1. Awaits(t, w, i) \/ TimesOut(t, w, i)
    BY <1>2, <1>9 DEF Loads, Stores, Updates, Writes, Reads, Branches, Creates
  <2>2. CASE Awaits(t, w, i)
    BY <1>6, <1>9, <2>2 DEF Awaits, Proceeds, Gathers
  <2>3. CASE TimesOut(t, w, i)
    <3> DEFINE x == [w EXCEPT !.todo = << >>]
    <3>1. at' = [at EXCEPT ![t] = x]
      BY <2>3 DEF TimesOut
    <3>2. x.todo = << >> /\ x.buf = w.buf
      BY <1>4
    <3> HIDE DEF x
    <3>3. at'[t].todo = << >> /\ at'[t].buf = w.buf
      BY <1>1, <3>1, <3>2
    <3> QED BY <1>9, <3>3 DEF Gathers
  <2> QED BY <2>1, <2>2, <2>3
<1>10. CASE i.op \notin {"write", "read", "poll"}
  BY <1>10 DEF Gathers
<1> QED BY <1>7, <1>8, <1>9, <1>10

\* Within the function, before access j, having read buf: words of one message, or one was lost.
Took(m, p, todo, buf, mbox, j) ==
  /\ todo = From(p, j) /\ IsSeq(buf)
  /\ j \in 2..4 => Flag(m, mbox, "NEWDAT", 1)
  /\ j <= 2 => Len(buf) = 0
  /\ j = 3 => Len(buf) = 1 /\ (buf[1] = WordIn(ValueIn(m, MODATAL(mbox))) \/ Flag(m, mbox, "MSGLST", 1))
  /\ j >= 4 => Len(buf) >= 2 /\ (buf[1] = buf[2] \/ Flag(m, mbox, "MSGLST", 1))

Idle(mbox) ==
  /\ ~Flag(mem, mbox, "TXRQ", 1)
  /\ ValueIn(mem, MODATAL(mbox)) = ValueIn(mem, MODATAH(mbox))

LEMMA FieldIsWord == \A r : Field(r, "W") = WordIn(ValueIn(mem, r))
BY DEF Field, WordIn, Value, ValueIn

\* The function goes on.
LEMMA TakesOn ==
  ASSUME NEW mbox, NEW p, IsRecv(p, mbox), NEW t, NEW w, NEW i, i = Head(w.todo), Effect(t, i), Continues(t, w, i), Gathers(t, w, i),
         Idle(mbox), Flag(mem, mbox, "MSGLST", 1) => Flag(mem', mbox, "MSGLST", 1),
         NEW j \in 1..7, Took(mem, p, w.todo, w.buf, mbox, j)
  PROVE  \/ at'[t].todo = << >> /\ Len(at'[t].buf) = 0
         \/ \E l \in 2..8 : Took(mem', p, at'[t].todo, at'[t].buf, mbox, l)
<1>1. IsSeq(p) /\ Len(p) = 7 /\ j \in 1..Len(p) /\ w.todo = From(p, j) /\ IsSeq(w.buf)
  BY DEF IsRecv, Took
<1>2. Moves(p, j, i, w)
  BY <1>1, MovesOn
<1>3. i = p[j] /\ Tail(w.todo) = From(p, j + 1)
  BY <1>2 DEF Moves
<1>4. PICK b, c, todo : b = w.buf /\ c = at'[t].buf /\ todo = at'[t].todo
  OBVIOUS
<1>5. IsSeq(b) /\ Len(b) \in Nat /\ b \o << >> = b
  BY <1>1, <1>4 DEF IsSeq
<1>6. ASSUME i.op = "read", i.reg # US("RBUF")
      PROVE  mem' = mem /\ todo = From(p, j + 1) /\ GrownByOne(c, b, Len(b), Field(i.reg, i.field))
  <2>1. mem' = mem
    BY <1>6 DEF Effect
  <2>2. todo = From(p, j + 1) /\ c = b \o << Field(i.reg, i.field) >>
    BY <1>3, <1>4, <1>6 DEF Continues, Gathers
  <2>3. GrownByOne(c, b, Len(b), Field(i.reg, i.field))
    <3>1. PICK x, h : x = Field(i.reg, i.field) /\ h = Len(b)
      OBVIOUS
    <3>2. GrownByOne(c, b, h, x)
      BY <1>5, <2>2, <3>1, OneBehind
    <3> QED BY <3>1, <3>2
  <2> QED BY <2>1, <2>2, <2>3
<1>7. CASE j = 1
  <2>1. i.op = "poll" /\ i.reg = MOSTAT(mbox) /\ i.field = "NEWDAT" /\ i.val = 1
    BY <1>3, <1>7 DEF IsRecv
  <2>2. mem' = mem
    BY <2>1 DEF Effect
  <2>3. Len(b) = 0
    BY <1>4, <1>7 DEF Took
  <2>4. CASE Holds(i) /\ todo = Tail(w.todo) /\ c = b \o << >>
    <3>1. Flag(mem, mbox, "NEWDAT", 1)
      <4>1. PICK q : q = MOSTAT(mbox)
        OBVIOUS
      <4>2. Is(q, "NEWDAT", 1)
        BY <2>1, <2>4, <4>1 DEF Holds
      <4>3. HasField(ValueIn(mem, q), "NEWDAT", 1)
        BY <4>2, FieldOf
      <4> QED BY <4>1, <4>3 DEF Flag
    <3>2. todo = From(p, 2) /\ c = b
      BY <1>3, <1>5, <1>7, <2>4
    <3>3. Took(mem', p, todo, c, mbox, 2)
      BY <1>5, <2>2, <2>3, <3>1, <3>2 DEF Took
    <3> QED BY <1>4, <3>3
  <2>5. CASE todo = << >> /\ c = b
    BY <1>4, <2>3, <2>5
  <2> QED BY <1>4, <2>1, <2>4, <2>5 DEF Gathers
<1>8. CASE j = 2
  <2>1. i = Reading(MODATAL(mbox), "W") /\ Len(b) = 0 /\ Flag(mem, mbox, "NEWDAT", 1)
    BY <1>3, <1>4, <1>8 DEF IsRecv, Took
  <2>2. i.op = "read" /\ i.field = "W" /\ i.reg = MODATAL(mbox) /\ i.reg # US("RBUF")
    BY <2>1 DEF Reading, MODATAL, US
  <2>3. Field(i.reg, i.field) = WordIn(ValueIn(mem, MODATAL(mbox)))
    BY <2>2, FieldIsWord
  <2>4. IsSeq(c) /\ Len(c) = 1 /\ c[1] = WordIn(ValueIn(mem, MODATAL(mbox)))
    BY <1>6, <2>1, <2>2, <2>3 DEF GrownByOne
  <2>5. todo = From(p, 3) /\ mem' = mem
    BY <1>6, <1>8, <2>2
  <2>6. Took(mem', p, todo, c, mbox, 3)
    BY <2>1, <2>4, <2>5 DEF Took
  <2> QED BY <1>4, <2>6
<1>9. CASE j = 3
  <2>1. /\ i = Reading(MODATAH(mbox), "W") /\ Len(b) = 1 /\ Flag(mem, mbox, "NEWDAT", 1)
        /\ b[1] = WordIn(ValueIn(mem, MODATAL(mbox))) \/ Flag(mem, mbox, "MSGLST", 1)
    BY <1>3, <1>4, <1>9 DEF IsRecv, Took
  <2>2. i.op = "read" /\ i.field = "W" /\ i.reg = MODATAH(mbox) /\ i.reg # US("RBUF")
    BY <2>1 DEF Reading, MODATAH, US
  <2>3. Field(i.reg, i.field) = WordIn(ValueIn(mem, MODATAL(mbox)))
    BY <2>2, FieldIsWord DEF Idle
  <2>4. IsSeq(c) /\ Len(c) = 2 /\ (c[1] = c[2] \/ Flag(mem, mbox, "MSGLST", 1))
    BY <1>6, <2>1, <2>2, <2>3 DEF GrownByOne
  <2>5. todo = From(p, 4) /\ mem' = mem
    BY <1>6, <1>9, <2>2
  <2>6. Took(mem', p, todo, c, mbox, 4)
    BY <2>1, <2>4, <2>5 DEF Took
  <2> QED BY <1>4, <2>6
<1>10. CASE j \in {4, 5}
  <2>1. i.op = "write" /\ Len(b) >= 2 /\ (b[1] = b[2] \/ Flag(mem', mbox, "MSGLST", 1))
    BY <1>3, <1>4, <1>10 DEF IsRecv, Took
  <2>2. todo = From(p, j + 1) /\ c = b
    BY <1>3, <1>4, <1>5, <2>1 DEF Continues, Gathers
  <2>3. PICK l : l = j + 1
    OBVIOUS
  <2>4. l \in 5..6
    BY <1>10, <2>3
  <2>5. Took(mem', p, todo, c, mbox, l)
    BY <1>5, <2>1, <2>2, <2>3, <2>4 DEF Took
  <2> QED BY <1>4, <2>4, <2>5
<1>11. CASE j \in {6, 7}
  <2>1. /\ i \in {Reading(MOAR(mbox), "ID"), Reading(MOFCR(mbox), "DLC")} /\ Len(b) >= 2
        /\ b[1] = b[2] \/ Flag(mem', mbox, "MSGLST", 1)
    BY <1>3, <1>4, <1>11 DEF IsRecv, Took
  <2>2. i.op = "read" /\ i.reg # US("RBUF")
    BY <2>1 DEF Reading, MOAR, MOFCR, US
  <2>3. IsSeq(c) /\ Len(c) >= 2 /\ (c[1] = c[2] \/ Flag(mem', mbox, "MSGLST", 1))
    BY <1>5, <1>6, <2>1, <2>2 DEF GrownByOne
  <2>4. PICK l : l = j + 1
    OBVIOUS
  <2>5. l \in 7..8 /\ todo = From(p, l)
    BY <1>6, <1>11, <2>2, <2>4
  <2>6. Took(mem', p, todo, c, mbox, l)
    BY <2>3, <2>5 DEF Took
  <2> QED BY <1>4, <2>5, <2>6
<1> QED BY <1>7, <1>8, <1>9, <1>10, <1>11
-----------------------------------------------------------------------------
(* Who receives *)

NothingReceived == \A t \in Tasks : \A j \in 1..Len(Plan.calls[t]) : Plan.calls[t][j].what # "recv"

\* Task r is the one that receives, from mailbox x.
Receiver(r, x) ==
  /\ r \in Tasks
  /\ \A t \in Tasks : \A j \in 1..Len(Plan.calls[t]) :
       /\ Plan.calls[t][j].what = "recv" =>
            t = r /\ Plan.calls[t][j].mbox = x /\ Plan.calls[t][j].does = recv(x)
       /\ \A i \in CallCode(Plan.calls[t][j]) : Entrusts(x, Plan.calls[t][j].what, i)

\* It has timed out, or it has taken what it has of one message.
InRecv(m, p, a, x) ==
  \/ a.todo = << >> /\ Len(a.buf) = 0
  \/ \E j \in 2..8 : Took(m, p, a.todo, a.buf, x, j)

Received(r, x) ==
  /\ Idle(x)
  /\ at[r].call # 0 /\ CallOf(r).what = "recv" => InRecv(mem, CallOf(r).does, at[r], x)

LEMMA ReceivesAt ==
  ASSUME Activities, NEW r, NEW x, Receiver(r, x), Received(r, x), NEW w, w = Goes(r), IsAt(r, w),
         NEW c, c = Plan.calls[r][w.call], c.what = "recv", NEW p, p = c.does
  PROVE  IsRecv(p, x) /\ \E j \in 1..7 : Took(mem, p, w.todo, w.buf, x, j)
<1>1. r \in Tasks /\ w.call \in 1..Len(Plan.calls[r])
  BY DEF Receiver, IsAt
<1>2. p = recv(x)
  BY <1>1 DEF Receiver
<1>3. IsRecv(p, x)
  BY <1>2, RecvOf
<1>4. IsSeq(p) /\ Len(p) = 7
  BY <1>3 DEF IsRecv
<1>5. CASE at[r].todo # << >>
  <2>1. w = at[r]
    BY <1>5 DEF Goes
  <2>2. at[r].call # 0
    <3>1. Len(Plan.calls[r]) \in Nat
      BY <1>1, CallsOf
    <3> QED BY <1>1, <2>1, <3>1
  <2>3. c = CallOf(r)
    BY <2>1 DEF CallOf
  <2>4. PICK j \in 2..8 : Took(mem, p, w.todo, w.buf, x, j)
    BY <1>5, <2>1, <2>2, <2>3 DEF Received, InRecv
  <2>5. j # 8
    <3>1. From(p, Len(p) + 1) = << >>
      BY <1>4, FromEnd
    <3>2. Len(p) + 1 = 8
      BY <1>4
    <3> QED BY <1>5, <2>1, <2>4, <3>1, <3>2 DEF Took
  <2> QED BY <1>3, <2>4, <2>5
<1>6. CASE at[r].todo = << >>
  <2>1. PICK f : f = Following(r)
    OBVIOUS
  <2>2. w = [call |-> f, buf |-> << >>, todo |-> IF f = 0 THEN << >> ELSE Plan.calls[r][f].does]
    BY <1>6, <2>1 DEF Goes
  <2>3. w.buf = << >>
    BY <2>2
  <2>4. w.todo = p
    BY <1>6 DEF IsAt
  <2>5. w.todo = From(p, 1)
    BY <1>4, <2>4, FromEnd
  <2>6. IsSeq(<< >>) /\ Len(<< >>) = 0
    BY DEF IsSeq
  <2>7. Took(mem, p, w.todo, w.buf, x, 1)
    BY <2>3, <2>5, <2>6 DEF Took
  <2> QED BY <1>3, <2>7
<1> QED BY <1>5, <1>6

\* What an access that entrusts the message does to it.
LEMMA EntrustedStepped ==
  ASSUME NEW t, NEW i, Effect(t, i), NEW what, NEW x, Entrusts(x, what, i)
  PROVE  /\ ValueIn(mem', MODATAL(x)) = ValueIn(mem, MODATAL(x)) /\ ValueIn(mem', MODATAH(x)) = ValueIn(mem, MODATAH(x))
         /\ Flag(mem', x, "TXRQ", 1) => Flag(mem, x, "TXRQ", 1)
         /\ what # "recv" /\ Flag(mem, x, "NEWDAT", 1) => Flag(mem', x, "NEWDAT", 1)
         /\ Flag(mem, x, "MSGLST", 1) => Flag(mem', x, "MSGLST", 1)
<1>1. ~Changes(i, {"MODATAL"}, x) /\ ~Changes(i, {"MODATAH"}, x) /\ ~Changes(i, {"MOSTAT"}, x)
  BY DEF Entrusts, Changes
<1>2. PICK q, h : q = MODATAL(x) /\ h = MODATAH(x)
  OBVIOUS
<1>3. q[1] = "MODATAL" /\ q[2] = x /\ h[1] = "MODATAH" /\ h[2] = x
  BY <1>2 DEF MODATAL, MODATAH
<1>4. ValueIn(mem', q) = ValueIn(mem, q)
  BY <1>1, <1>3, RegisterStepped
<1>5. ValueIn(mem', h) = ValueIn(mem, h)
  BY <1>1, <1>3, RegisterStepped
<1>6. /\ Flag(mem', x, "TXRQ", 1) => Flag(mem, x, "TXRQ", 1)
      /\ what # "recv" /\ Flag(mem, x, "NEWDAT", 1) => Flag(mem', x, "NEWDAT", 1)
      /\ Flag(mem, x, "MSGLST", 1) => Flag(mem', x, "MSGLST", 1)
  <2>1. Changes(i, {"MOCTR"}, x) =>
          /\ i.op = "write" /\ "TXRQ" \notin DOMAIN i.new /\ "MSGLST" \notin DOMAIN i.new
          /\ "NEWDAT" \in DOMAIN i.new => what = "recv"
    BY DEF Entrusts
  <2> QED BY <1>1, <2>1, FlagsStepped
<1> QED BY <1>2, <1>4, <1>5, <1>6

\* The tasks are in the code of their calls.
InCode == \A t \in Tasks : at[t].call # 0 => at[t].todo \in Seq(CallCode(CallOf(t)))

LEMMA InCodeStepped ==
  ASSUME Activities, DOMAIN acc = Tasks, InCode, NEW t \in Tasks, Step(t)
  PROVE  InCode'
<1>1. PICK w, i, x : IsAt(t, w) /\ Executed(t, w, i, x) /\ w = Goes(t)
  BY Executes
<1>2. Plan' = Plan /\ Tasks' = Tasks /\ \A u \in Tasks \ {t} : at'[u] = at[u]
  BY <1>1, ActivitiesStepped
<1>3. i = Head(w.todo)
  BY <1>1 DEF Executed
<1>4. at'[t].call = w.call /\ \A C : StaysIn(t, w, C)
  BY <1>1, <1>3, StepContinues DEF Continues
<1>5. PICK C : C = CallCode(Plan.calls[t][w.call])
  OBVIOUS
<1>6. w.todo \in Seq(C) /\ \A j \in C : j.op = "if" => j.then \in Seq(C) /\ j.else \in Seq(C)
  BY <1>1, <1>5, InCallsAt DEF InCode
<1>7. ASSUME NEW u \in Tasks, at'[u].call # 0 PROVE at'[u].todo \in Seq(CallCode(CallOf(u)'))
  <2>1. CASE u = t
    <3>1. CallOf(u)' = Plan.calls[t][w.call]
      BY <1>2, <1>4, <2>1 DEF CallOf
    <3>2. at'[t].todo \in Seq(C)
      BY <1>4, <1>6 DEF StaysIn
    <3> QED BY <1>5, <2>1, <3>1, <3>2
  <2>2. CASE u # t
    <3>1. at'[u] = at[u] /\ CallOf(u)' = CallOf(u)
      BY <1>2, <2>2 DEF CallOf
    <3> QED BY <1>7, <3>1 DEF InCode
  <2> QED BY <2>1, <2>2
<1> QED BY <1>2, <1>7 DEF InCode

LEMMA ReceivedStepped ==
  ASSUME Activities, DOMAIN acc = Tasks, InCode, NEW r, NEW x, Receiver(r, x), Received(r, x), NEW t \in Tasks, Step(t)
  PROVE  Received(r, x)'
<1>1. PICK w, i, y : IsAt(t, w) /\ Executed(t, w, i, y) /\ w = Goes(t)
  BY Executes
<1>2. Plan' = Plan /\ Tasks' = Tasks /\ \A u \in Tasks \ {t} : at'[u] = at[u]
  BY <1>1, ActivitiesStepped
<1>3. i = Head(w.todo) /\ Effect(t, i)
  BY <1>1 DEF Executed
<1>4. Continues(t, w, i) /\ at'[t].call = w.call
  BY <1>1, <1>3, StepContinues DEF Continues
<1>5. Gathers(t, w, i)
  BY <1>1, <1>3, StepGathers
<1>6. PICK c, C : c = Plan.calls[t][w.call] /\ C = CallCode(Plan.calls[t][w.call])
  OBVIOUS
<1>7. i \in C /\ w.call \in 1..Len(Plan.calls[t])
  <2>1. w.call \in 1..Len(Plan.calls[t])
    BY <1>1 DEF IsAt
  <2> QED BY <1>1, <1>3, <1>6, <2>1, InCallsAt DEF InCode
<1>8. Entrusts(x, c.what, i) /\ (c.what = "recv" => t = r)
  BY <1>6, <1>7 DEF Receiver
<1>9. PICK what : what = c.what
  OBVIOUS
<1>10. /\ ValueIn(mem', MODATAL(x)) = ValueIn(mem, MODATAL(x)) /\ ValueIn(mem', MODATAH(x)) = ValueIn(mem, MODATAH(x))
       /\ Flag(mem', x, "TXRQ", 1) => Flag(mem, x, "TXRQ", 1)
       /\ what # "recv" /\ Flag(mem, x, "NEWDAT", 1) => Flag(mem', x, "NEWDAT", 1)
       /\ Flag(mem, x, "MSGLST", 1) => Flag(mem', x, "MSGLST", 1)
  BY <1>3, <1>8, <1>9, EntrustedStepped
<1>11. Idle(x)'
  BY <1>10 DEF Received, Idle
<1>12. ASSUME at'[r].call # 0, CallOf(r)'.what = "recv" PROVE InRecv(mem', CallOf(r)'.does, at'[r], x)
  <2>1. CASE t = r
    <3>1. CallOf(r)' = c
      BY <1>2, <1>4, <1>6, <2>1 DEF CallOf
    <3>2. PICK p : p = c.does
      OBVIOUS
    <3>3. IsRecv(p, x) /\ \E j \in 1..7 : Took(mem, p, w.todo, w.buf, x, j)
      BY <1>1, <1>6, <1>12, <2>1, <3>1, <3>2, ReceivesAt
    <3>4. PICK j \in 1..7 : Took(mem, p, w.todo, w.buf, x, j)
      BY <3>3
    <3>5. \/ at'[t].todo = << >> /\ Len(at'[t].buf) = 0
          \/ \E l \in 2..8 : Took(mem', p, at'[t].todo, at'[t].buf, x, l)
      BY <1>3, <1>4, <1>5, <1>10, <3>3, <3>4, TakesOn DEF Received
    <3> QED BY <2>1, <3>1, <3>2, <3>5 DEF InRecv
  <2>2. CASE t # r
    <3>1. at'[r] = at[r] /\ CallOf(r)' = CallOf(r)
      BY <1>2, <2>2 DEF CallOf, Receiver
    <3>2. PICK p, a : p = CallOf(r).does /\ a = at[r]
      OBVIOUS
    <3>3. InRecv(mem, p, a, x)
      BY <1>12, <3>1, <3>2 DEF Received
    <3>4. what # "recv"
      BY <1>8, <1>9, <2>2
    <3>5. \A j : Took(mem, p, a.todo, a.buf, x, j) => Took(mem', p, a.todo, a.buf, x, j)
      BY <1>10, <3>4 DEF Took
    <3>6. InRecv(mem', p, a, x)
      BY <3>3, <3>5 DEF InRecv
    <3> QED BY <3>1, <3>2, <3>6
  <2> QED BY <2>1, <2>2
<1> QED BY <1>11, <1>12 DEF Received

LEMMA ReceivedPeripherals ==
  ASSUME NEW r, NEW x, Received(r, x), Happens(x), at' = at, Plan' = Plan
  PROVE  Received(r, x)'
<1>1. CallOf(r)' = CallOf(r)
  BY DEF CallOf
<1>2. ~Flag(mem, x, "TXRQ", 1) /\ ValueIn(mem, MODATAL(x)) = ValueIn(mem, MODATAH(x))
  BY DEF Received, Idle
<1>3. ~Flag(mem', x, "TXRQ", 1)
  BY <1>2, HappensToFlags
<1>4. OfMessage(MODATAL(x), x) /\ OfMessage(MODATAH(x), x)
  BY DEF OfMessage, MODATAL, MODATAH
<1>5. SameMessage(x) => ValueIn(mem', MODATAL(x)) = ValueIn(mem, MODATAL(x)) /\ ValueIn(mem', MODATAH(x)) = ValueIn(mem, MODATAH(x))
  BY <1>4 DEF SameMessage
<1>6. ValueIn(mem', MODATAL(x)) = ValueIn(mem', MODATAH(x))
  BY <1>2, <1>5 DEF Happens
<1>7. /\ Flag(mem, x, "NEWDAT", 1) => Flag(mem', x, "NEWDAT", 1) /\ (SameMessage(x) \/ Flag(mem', x, "MSGLST", 1))
      /\ Flag(mem, x, "MSGLST", 1) => Flag(mem', x, "MSGLST", 1)
  BY <1>2, HappensToFlags
<1>8. ASSUME at[r].call # 0, CallOf(r).what = "recv" PROVE InRecv(mem', CallOf(r).does, at[r], x)
  <2>1. PICK p, a : p = CallOf(r).does /\ a = at[r]
    OBVIOUS
  <2>2. InRecv(mem, p, a, x)
    BY <1>8, <2>1 DEF Received
  <2>3. \A j \in 2..8 : Took(mem, p, a.todo, a.buf, x, j) => Took(mem', p, a.todo, a.buf, x, j)
    BY <1>5, <1>7 DEF Took
  <2> QED BY <2>1, <2>2, <2>3 DEF InRecv
<1> QED BY <1>1, <1>3, <1>6, <1>8 DEF Received, Idle
-----------------------------------------------------------------------------
(* Where nothing is sent *)

Silent == \A t \in Tasks : \A j \in 1..Len(Plan.calls[t]) : Plan.calls[t][j].what # "send"

\* Nothing is sent or requested, nothing goes out.
Quiet ==
  /\ Silent
  /\ \A t \in Tasks : \A j \in 1..Len(Plan.calls[t]) : \A i \in CallCode(Plan.calls[t][j]) : RequestsNothing(i)
  /\ \A x : ~Flag(mem, x, "TXRQ", 1)
  /\ \A j \in Nodes : flight[j] = None /\ bus[j] = None

LEMMA QuietStepped ==
  ASSUME Activities, DOMAIN acc = Tasks, InCode, Quiet, NEW t \in Tasks, Step(t)
  PROVE  Quiet'
<1>1. PICK w, i : Stepped(t, w, i)
  BY TaskStepped
<1>2. Plan' = Plan /\ Tasks' = Tasks /\ flight' = flight /\ bus' = bus /\ w.call \in 1..Len(Plan.calls[t])
  BY <1>1 DEF Stepped
<1>3. i \in CallCode(Plan.calls[t][w.call]) /\ Effect(t, i)
  BY <1>1, OfItsCall DEF InCode
<1>4. RequestsNothing(i)
  BY <1>2, <1>3 DEF Quiet
<1>5. \A x : ~Flag(mem', x, "TXRQ", 1)
  BY <1>3, <1>4, RequestStays DEF Quiet
<1> QED BY <1>2, <1>5 DEF Quiet, Silent

LEMMA QuietPeripherals ==
  ASSUME Quiet, Peripherals
  PROVE  flight' = flight /\ bus' = bus /\ \A x : ~Flag(mem', x, "TXRQ", 1)
<1>1. \A x : ~Flag(mem', x, "TXRQ", 1)
  <2> SUFFICES ASSUME NEW x PROVE ~Flag(mem', x, "TXRQ", 1)
    OBVIOUS
  <2>1. Happens(x)
    BY PeripheralsOnMailbox
  <2>2. ~Flag(mem, x, "TXRQ", 1)
    BY DEF Quiet
  <2> QED BY <2>1, <2>2, HappensToFlags
<1>2. \A n \in Nodes : ~Starts(n)
  <2> SUFFICES ASSUME NEW n \in Nodes, NEW m \in Mailboxes, Sending(m) PROVE FALSE
    BY DEF Starts
  <2>1. PICK q : q = MOSTAT(m)
    OBVIOUS
  <2>2. Is(q, "TXRQ", 1)
    BY <2>1 DEF Sending
  <2>3. HasField(ValueIn(mem, q), "TXRQ", 1)
    BY <2>2, FieldOf
  <2> QED BY <2>1, <2>3 DEF Quiet, Flag
<1>3. \A n \in Nodes, off \in BOOLEAN : ~Sent(n) /\ ~Fails(n, off)
  BY DEF Quiet, Sent, Fails
<1> QED BY <1>1, <1>2, <1>3 DEF Peripherals, PanelDone, ByteArrives, Heard
-----------------------------------------------------------------------------
(* Both, in every state *)

\* The sender is at its place, and what it sends is whole.
SendsWholly(s, n, mbox, k, u, e) ==
  /\ InCalls(s, k) /\ Traffic(n, mbox) /\ OnItsPlace(s, n, mbox)
  /\ Prepared(s, n, mbox, u, e) /\ Filling(s, n, mbox) /\ Pending(s, n, mbox) /\ Frames(s, n)

WholeInv ==
  /\ Activities /\ DOMAIN acc = Tasks /\ InCode
  /\ \/ Quiet
     \/ \E s, n, mbox, k, u, e : Preparer(s, n, mbox, k, u, e) /\ SendsWholly(s, n, mbox, k, u, e)
  /\ \/ NothingReceived
     \/ \E r, x : Receiver(r, x) /\ Received(r, x)

\* What the application is it stays.
LEMMA SamePlan ==
  ASSUME Plan' = Plan, Tasks' = Tasks
  PROVE  /\ NothingReceived => NothingReceived'
         /\ \A r, x : Receiver(r, x) => Receiver(r, x)'
         /\ \A s, n, mbox, k, u, e : Preparer(s, n, mbox, k, u, e) => Preparer(s, n, mbox, k, u, e)'
<1>1. NothingReceived => NothingReceived'
  BY DEF NothingReceived
<1>2. \A r, x : Receiver(r, x) => Receiver(r, x)'
  BY DEF Receiver
<1>3. \A s, n, mbox, k : Sender(s, n, mbox, k) => Sender(s, n, mbox, k)'
  <2> SUFFICES ASSUME NEW s, NEW n, NEW mbox, NEW k, Sender(s, n, mbox, k)
               PROVE  Sender(s, n, mbox, k)'
    OBVIOUS
  <2>1. PICK P, T : P = Plan /\ P = Plan' /\ T = Tasks /\ T = Tasks'
    OBVIOUS
  <2> QED BY <2>1 DEF Sender
<1>4. \A s, n, mbox, k, u, e : Preparer(s, n, mbox, k, u, e) => Preparer(s, n, mbox, k, u, e)'
  BY <1>3 DEF Preparer
<1> QED BY <1>1, <1>2, <1>4

LEMMA SendsStepped ==
  ASSUME Activities, DOMAIN acc = Tasks, NEW s, NEW n, NEW mbox, NEW k, NEW u, NEW e,
         Preparer(s, n, mbox, k, u, e), SendsWholly(s, n, mbox, k, u, e), NEW t \in Tasks, Step(t)
  PROVE  SendsWholly(s, n, mbox, k, u, e)'
<1>0. /\ InCalls(s, k) /\ Traffic(n, mbox) /\ OnItsPlace(s, n, mbox)
      /\ Prepared(s, n, mbox, u, e) /\ Filling(s, n, mbox) /\ Pending(s, n, mbox) /\ Frames(s, n)
  BY DEF SendsWholly
<1>1. Sender(s, n, mbox, k)
  BY WhoPrepares
<1>2. InCalls(s, k)' /\ Traffic(n, mbox)' /\ OnItsPlace(s, n, mbox)'
  BY <1>0, <1>1, InCallsStepped, TrafficStepped, PlaceStepped
<1>3. Prepared(s, n, mbox, u, e)'
  BY <1>0, PreparedStepped
<1>4. Filling(s, n, mbox)'
  BY <1>0, FillingStepped
<1>5. Pending(s, n, mbox)'
  BY <1>0, PendingStepped
<1>6. Frames(s, n)'
  <2>1. PICK w, i : Stepped(t, w, i)
    BY TaskStepped
  <2>2. Plan' = Plan /\ flight' = flight /\ bus' = bus
    BY <2>1 DEF Stepped
  <2> QED BY <1>0, <2>2 DEF Frames, IsFrame
<1> QED BY <1>2, <1>3, <1>4, <1>5, <1>6 DEF SendsWholly

LEMMA WholeStepped ==
  ASSUME WholeInv, NEW t \in Tasks, Step(t)
  PROVE  WholeInv'
<1>0. Activities /\ DOMAIN acc = Tasks /\ InCode
  BY DEF WholeInv
<1>1. PICK w, i, x : IsAt(t, w) /\ Executed(t, w, i, x) /\ w = Goes(t)
  BY <1>0, Executes
<1>2. Activities' /\ Plan' = Plan /\ Tasks' = Tasks
  BY <1>0, <1>1, ActivitiesStepped
<1>3. i = Head(w.todo)
  BY <1>1 DEF Executed
<1>4. DOMAIN acc' = Tasks' /\ InCode'
  BY <1>0, <1>1, <1>2, <1>3, StepContinues, InCodeStepped
<1>5. Quiet => Quiet'
  BY <1>0, QuietStepped
<1>6. ASSUME NEW s, NEW n, NEW mbox, NEW k, NEW u, NEW e, Preparer(s, n, mbox, k, u, e), SendsWholly(s, n, mbox, k, u, e)
      PROVE  Preparer(s, n, mbox, k, u, e)' /\ SendsWholly(s, n, mbox, k, u, e)'
  <2>1. Preparer(s, n, mbox, k, u, e)'
    BY <1>2, <1>6, SamePlan
  <2> QED BY <1>0, <1>6, <2>1, SendsStepped
<1>7. ASSUME NEW r, NEW y, Receiver(r, y), Received(r, y) PROVE Receiver(r, y)' /\ Received(r, y)'
  <2>1. Receiver(r, y)'
    BY <1>2, <1>7, SamePlan
  <2> QED BY <1>0, <1>7, <2>1, ReceivedStepped
<1>8. NothingReceived => NothingReceived'
  BY <1>2, SamePlan
<1>9. (\E r, y : Receiver(r, y) /\ Received(r, y)) => \E r, y : Receiver(r, y)' /\ Received(r, y)'
  BY <1>7
<1>10. (\E s, n, mbox, k, u, e : Preparer(s, n, mbox, k, u, e) /\ SendsWholly(s, n, mbox, k, u, e))
       => \E s, n, mbox, k, u, e : Preparer(s, n, mbox, k, u, e)' /\ SendsWholly(s, n, mbox, k, u, e)'
  BY <1>6
<1> QED BY <1>2, <1>4, <1>5, <1>8, <1>9, <1>10 DEF WholeInv

LEMMA WholePeripherals ==
  ASSUME WholeInv, Peripherals
  PROVE  WholeInv'
<1>1. app' = app /\ at' = at /\ acc' = acc /\ live' = live
  BY DEF Peripherals, PanelDone, ByteArrives, Starts, Sent, Fails, Heard, Cpu
<1>2. Plan' = Plan /\ Tasks' = Tasks
  BY <1>1 DEF Plan, Tasks
<1>3. Activities' /\ DOMAIN acc' = Tasks'
  BY <1>1, <1>2 DEF WholeInv, Activities
<1>4. \A t : CallOf(t)' = CallOf(t)
  BY <1>1, <1>2 DEF CallOf
<1>5. InCode'
  BY <1>1, <1>2, <1>4 DEF WholeInv, InCode
<1>6. Quiet => Quiet'
  BY <1>2, QuietPeripherals DEF Quiet, Silent
<1>7. ASSUME NEW s, NEW n, NEW mbox, NEW k, NEW u, NEW e, Preparer(s, n, mbox, k, u, e), SendsWholly(s, n, mbox, k, u, e)
      PROVE  Preparer(s, n, mbox, k, u, e)' /\ SendsWholly(s, n, mbox, k, u, e)'
  <2>0. /\ InCalls(s, k) /\ Traffic(n, mbox) /\ OnItsPlace(s, n, mbox) /\ Activities
        /\ Prepared(s, n, mbox, u, e) /\ Filling(s, n, mbox) /\ Pending(s, n, mbox) /\ Frames(s, n)
    BY <1>7 DEF SendsWholly, WholeInv
  <2>1. Preparer(s, n, mbox, k, u, e)'
    BY <1>2, <1>7, SamePlan
  <2>2. InCalls(s, k)'
    BY <1>1, <1>2, <1>4, <2>0 DEF InCalls
  <2>3. Traffic(n, mbox)' /\ Stays(n, mbox)
    <3>1. n \in Nodes /\ mbox \in 0..MailboxCount - 1
      BY <1>7, WhoPrepares
    <3> QED BY <2>0, <3>1, PeripheralsAndTraffic
  <2>4. OnItsPlace(s, n, mbox)'
    <3>1. InSend(s) => Flag(mem, mbox, "DIR", Transmit)
      BY <1>7, <2>0, ReadyInSend DEF Ready
    <3> QED BY <1>1, <1>4, <2>0, <2>3, <3>1 DEF OnItsPlace, Stays, Remains, InSend
  <2>5. Happens(mbox)
    BY PeripheralsOnMailbox
  <2>6. Prepared(s, n, mbox, u, e)'
    BY <1>1, <1>2, <2>0, <2>5, PreparedPeripherals
  <2>7. Filling(s, n, mbox)' /\ Pending(s, n, mbox)'
    BY <1>1, <1>2, <1>7, <2>0, <2>5, FillingPeripherals
  <2>8. Frames(s, n)'
    BY <1>7, <2>0, FramesPeripherals
  <2> QED BY <2>1, <2>2, <2>3, <2>4, <2>6, <2>7, <2>8 DEF SendsWholly
<1>8. ASSUME NEW r, NEW y, Receiver(r, y), Received(r, y) PROVE Receiver(r, y)' /\ Received(r, y)'
  <2>1. Receiver(r, y)'
    BY <1>2, <1>8, SamePlan
  <2>2. Happens(y)
    BY PeripheralsOnMailbox
  <2> QED BY <1>1, <1>2, <1>8, <2>1, <2>2, ReceivedPeripherals
<1>9. NothingReceived => NothingReceived'
  BY <1>2, SamePlan
<1>10. (\E r, y : Receiver(r, y) /\ Received(r, y)) => \E r, y : Receiver(r, y)' /\ Received(r, y)'
  BY <1>8
<1>11. (\E s, n, mbox, k, u, e : Preparer(s, n, mbox, k, u, e) /\ SendsWholly(s, n, mbox, k, u, e))
       => \E s, n, mbox, k, u, e : Preparer(s, n, mbox, k, u, e)' /\ SendsWholly(s, n, mbox, k, u, e)'
  BY <1>7
<1> QED BY <1>3, <1>5, <1>6, <1>9, <1>10, <1>11 DEF WholeInv
\* What the assumptions say of the application that runs.
LEMMA PreparerOf ==
  ASSUME app \in DOMAIN Applications, NEW s, NEW n \in Nodes, NEW mbox \in 0..MailboxCount - 1, NEW k, SendsFrom(app, s, n, mbox, k),
         NEW u, NEW e, SetsUp(app, s, n, mbox, k, u, e)
  PROVE  Preparer(s, n, mbox, k, u, e)
<1>1. PICK calls : calls = Applications[app].calls
  OBVIOUS
<1>2. Tasks = DOMAIN calls /\ Plan.calls = calls
  BY <1>1 DEF Tasks, Plan
<1>3. ASSUME NEW t \in DOMAIN calls PROVE DOMAIN calls[t] = 1..Len(calls[t])
  <2>1. PICK c : c = Applications[app].calls[t]
    OBVIOUS
  <2> QED BY <1>1, <2>1, CodeOfTask
<1>4. Sender(s, n, mbox, k)
  BY SenderOf
<1>5. s \in DOMAIN calls /\ "main" \in DOMAIN calls
  BY <1>2, <1>4 DEF Sender
<1>6. /\ u \in {s, "main"} /\ e \in DOMAIN calls[u] /\ (u = "main" => e < k)
      /\ calls[u][e].does = configure_mbox(n, mbox, Id(n), 2047, Transmit)
      /\ \A t \in DOMAIN calls : \A j \in DOMAIN calls[t] : LET c == calls[t][j] IN
           /\ c.what = "send" => c.does = send(mbox, c.low, c.high, Dlc(n)) /\ (u = s => j > e)
           /\ \A i \in Code(c.does) :
                /\ t = s \/ (t = "main" /\ u = "main" /\ j >= e) => Keeps(mbox, n, i)
                /\ c.what # "send" => /\ RequestsNothing(i)
                                      /\ t = s => ~Changes(i, {"MODATAL", "MODATAH", "MOFCR"}, mbox)
  BY <1>1 DEF SetsUp
<1>7. e \in 1..Len(calls[u])
  BY <1>3, <1>5, <1>6
<1> QED BY <1>2, <1>3, <1>4, <1>6, <1>7 DEF Preparer, CallCode

LEMMA ReceiverOf ==
  ASSUME app \in DOMAIN Applications
  PROVE  NothingReceived \/ \E r, x : Receiver(r, x)
<1>1. PICK calls : calls = Applications[app].calls
  OBVIOUS
<1>2. Tasks = DOMAIN calls /\ Plan.calls = calls
  BY <1>1 DEF Tasks, Plan
<1>3. ASSUME NEW t \in DOMAIN calls PROVE DOMAIN calls[t] = 1..Len(calls[t])
  <2>1. PICK c : c = Applications[app].calls[t]
    OBVIOUS
  <2> QED BY <1>1, <2>1, CodeOfTask
<1>4. CASE ReceivesNothing(calls)
  BY <1>2, <1>3, <1>4 DEF NothingReceived, ReceivesNothing
<1>5. ASSUME NEW r \in DOMAIN calls, NEW mbox, ReceivesFrom(calls, r, mbox) PROVE Receiver(r, mbox)
  BY <1>2, <1>3, <1>5 DEF Receiver, CallCode, ReceivesFrom
<1> QED BY <1>1, <1>4, <1>5, ReceivesAssumption

LEMMA RequestedOf ==
  ASSUME app \in DOMAIN Applications
  PROVE  \/ /\ Silent
            /\ \A t \in Tasks : \A j \in 1..Len(Plan.calls[t]) : \A i \in CallCode(Plan.calls[t][j]) : RequestsNothing(i)
         \/ \E s, n, mbox, k, u, e : Preparer(s, n, mbox, k, u, e)
<1>1. PICK calls : calls = Applications[app].calls
  OBVIOUS
<1>2. Tasks = DOMAIN calls /\ Plan.calls = calls
  BY <1>1 DEF Tasks, Plan
<1>3. ASSUME NEW t \in DOMAIN calls PROVE DOMAIN calls[t] = 1..Len(calls[t])
  <2>1. PICK c : c = Applications[app].calls[t]
    OBVIOUS
  <2> QED BY <1>1, <2>1, CodeOfTask
<1>4. \/ /\ SendsNothing(calls)
         /\ \A t \in DOMAIN calls : \A j \in DOMAIN calls[t] : \A i \in Code(calls[t][j].does) : RequestsNothing(i)
      \/ \E s \in DOMAIN calls, n \in Nodes, mbox \in 0..MailboxCount - 1 : \E k \in DOMAIN calls["main"] :
           /\ SendsFrom(app, s, n, mbox, k)
           /\ \E u \in {s, "main"} : \E e \in DOMAIN calls[u] : SetsUp(app, s, n, mbox, k, u, e)
  BY <1>1, SetUpAssumption
<1>5. CASE /\ SendsNothing(calls)
           /\ \A t \in DOMAIN calls : \A j \in DOMAIN calls[t] : \A i \in Code(calls[t][j].does) : RequestsNothing(i)
  <2>1. Silent
    BY <1>2, <1>3, <1>5 DEF Silent, SendsNothing
  <2> QED BY <1>2, <1>3, <1>5, <2>1 DEF CallCode
<1>6. ASSUME NEW s, NEW n \in Nodes, NEW mbox \in 0..MailboxCount - 1, NEW k, SendsFrom(app, s, n, mbox, k),
             NEW u, NEW e, SetsUp(app, s, n, mbox, k, u, e)
      PROVE  Preparer(s, n, mbox, k, u, e)
  BY <1>6, PreparerOf
<1> QED BY <1>4, <1>5, <1>6

LEMMA WholeInitially == BoardInit => WholeInv
<1> SUFFICES ASSUME BoardInit PROVE WholeInv
  OBVIOUS
<1>1. Activities
  BY LevelsInitially DEF PinsInv
<1>2. /\ app \in DOMAIN Applications /\ mem = << >> /\ live = {"main"}
      /\ DOMAIN acc = Tasks /\ \A t \in Tasks : at[t].call = 0
      /\ DOMAIN flight = Nodes /\ DOMAIN bus = Nodes /\ \A j \in Nodes : flight[j] = None /\ bus[j] = None
  BY DEF BoardInit
<1>3. DOMAIN mem = {} /\ \A f, x : ~HasField(<< >>, f, x)
  BY <1>2 DEF HasField
<1>4. \A r : r[1] # "NCR" /\ r # PASSWD => ValueIn(mem, r) = << >>
  BY <1>3 DEF ValueIn, Reset
<1>5. \A x : ValueIn(mem, MOSTAT(x)) = << >> /\ ValueIn(mem, MODATAL(x)) = << >> /\ ValueIn(mem, MODATAH(x)) = << >>
  <2> SUFFICES ASSUME NEW x
               PROVE  ValueIn(mem, MOSTAT(x)) = << >> /\ ValueIn(mem, MODATAL(x)) = << >> /\ ValueIn(mem, MODATAH(x)) = << >>
    OBVIOUS
  <2>1. PICK r, d, h : r = MOSTAT(x) /\ d = MODATAL(x) /\ h = MODATAH(x)
    OBVIOUS
  <2>2. \A q \in {r, d, h} : q[1] # "NCR" /\ q # PASSWD
    BY <2>1 DEF MOSTAT, MODATAL, MODATAH, PASSWD
  <2> QED BY <1>4, <2>1, <2>2
<1>6. \A x, f, v : ~Flag(mem, x, f, v)
  BY <1>3, <1>5 DEF Flag
<1>7. \A x : Idle(x)
  BY <1>5, <1>6 DEF Idle
<1>8. InCode
  BY <1>2 DEF InCode
<1>9. ASSUME NEW r, NEW x, Receiver(r, x) PROVE Received(r, x)
  BY <1>2, <1>7, <1>9 DEF Received, Receiver
<1>10. ASSUME NEW s, NEW n, NEW mbox, NEW k, NEW u, NEW e, Preparer(s, n, mbox, k, u, e)
       PROVE  SendsWholly(s, n, mbox, k, u, e)
  <2>1. /\ Sender(s, n, mbox, k) /\ u \in {s, "main"} /\ e \in 1..Len(Plan.calls[u])
    BY <1>10, WhoPrepares
  <2>2. /\ s \in Tasks \ {"main"} /\ "main" \in Tasks /\ k \in 1..Len(Plan.calls["main"]) /\ n \in Nodes
        /\ mbox \in 0..MailboxCount - 1
    BY <2>1 DEF Sender
  <2>3. at[s].call = 0 /\ at[u].call = 0 /\ at["main"].call = 0 /\ e \in Int /\ e > 0 /\ k > 0 /\ k \in Int
    BY <1>2, <2>1, <2>2
  <2>4. InCalls(s, k) /\ OnItsPlace(s, n, mbox) /\ Filling(s, n, mbox)
    BY <1>2, <1>8, <2>2, <2>3 DEF InCalls, OnItsPlace, Filling, InSend, InCode
  <2>5. Pending(s, n, mbox)
    BY <1>6 DEF Pending
  <2>6. Prepared(s, n, mbox, u, e)
    BY <1>6, <2>3 DEF Prepared
  <2>7. Frames(s, n)
    BY <1>2 DEF Frames
  <2>8. Traffic(n, mbox)
    <3>1. ValueIn(mem, PANCTR) = << >>
      <4>1. PANCTR[1] # "NCR" /\ PANCTR # PASSWD
        BY DEF PANCTR, PASSWD
      <4> QED BY <1>4, <4>1
    <3>2. Orderly(mem, mbox, n)
      BY <1>3, <1>6, <3>1 DEF Orderly
    <3> QED BY <1>2, <3>2 DEF Traffic, InFlight
  <2> QED BY <2>4, <2>5, <2>6, <2>7, <2>8 DEF SendsWholly
<1>11. Quiet \/ \E s, n, mbox, k, u, e : Preparer(s, n, mbox, k, u, e)
  BY <1>2, <1>6, RequestedOf DEF Quiet
<1>12. NothingReceived \/ \E r, x : Receiver(r, x)
  BY <1>2, ReceiverOf
<1> QED BY <1>1, <1>2, <1>8, <1>9, <1>10, <1>11, <1>12 DEF WholeInv

\* The words that have been returned are of one message, or the controller has recorded a loss.
LEMMA RecvOver ==
  ASSUME Activities, NEW r, NEW x, Receiver(r, x), Received(r, x), IsOver(r, "recv"), NEW b, b = at[r].buf, Len(b) > 2
  PROVE  b[1] = b[2] \/ Is(MOSTAT(x), "MSGLST", 1)
<1>1. PICK c, p : c = CallOf(r) /\ p = c.does
  OBVIOUS
<1>2. at[r].call # 0 /\ at[r].todo = << >> /\ c.what = "recv"
  BY <1>1 DEF IsOver, CallOf
<1>3. r \in Tasks /\ at[r].call \in 1..Len(Plan.calls[r])
  <2>1. r \in Tasks
    BY DEF Receiver
  <2>2. Len(Plan.calls[r]) \in Nat /\ at[r].call \in 0..Len(Plan.calls[r])
    BY <2>1, CallsOf
  <2> QED BY <1>2, <2>1, <2>2
<1>4. p = recv(x)
  BY <1>1, <1>2, <1>3 DEF Receiver, CallOf
<1>5. IsSeq(p) /\ Len(p) = 7
  BY <1>4, RecvOf DEF IsRecv
<1>6. Len(b) # 0
  OBVIOUS
<1>7. PICK j \in 2..8 : Took(mem, p, << >>, b, x, j)
  BY <1>1, <1>2, <1>6 DEF Received, InRecv
<1>8. j \notin 1..Len(p)
  <2>1. j \in 1..Len(p) => From(p, j) # << >>
    BY <1>5, FromHere
  <2> QED BY <1>7, <2>1 DEF Took
<1>9. j = 8
  BY <1>5, <1>8
<1>10. PICK q : q = MOSTAT(x)
  OBVIOUS
<1>11. Flag(mem, x, "MSGLST", 1) => Is(q, "MSGLST", 1)
  BY <1>10, FieldOf DEF Flag
<1> QED BY <1>7, <1>9, <1>10, <1>11 DEF Took

LEMMA WholeAgain == WholeInv /\ [BoardNext]_boardVars => WholeInv'
<1> SUFFICES ASSUME WholeInv, [BoardNext]_boardVars PROVE WholeInv'
  OBVIOUS
<1>1. CASE UNCHANGED boardVars
  <2>1. /\ app' = app /\ at' = at /\ mem' = mem /\ live' = live /\ acc' = acc
        /\ flight' = flight /\ bus' = bus
    BY <1>1 DEF boardVars, Cpu
  <2>2. Plan' = Plan /\ Tasks' = Tasks
    BY <2>1 DEF Plan, Tasks
  <2>3. \A t : CallOf(t)' = CallOf(t)
    BY <2>1, <2>2 DEF CallOf
  <2>4. Activities' /\ DOMAIN acc' = Tasks' /\ InCode' /\ (Quiet => Quiet')
    BY <2>1, <2>2, <2>3 DEF WholeInv, Activities, InCode, Quiet, Silent
  <2>5. ASSUME NEW s, NEW n, NEW mbox, NEW k, NEW u, NEW e
        PROVE  /\ Preparer(s, n, mbox, k, u, e) => Preparer(s, n, mbox, k, u, e)'
               /\ SendsWholly(s, n, mbox, k, u, e) => SendsWholly(s, n, mbox, k, u, e)'
    <3>1. Preparer(s, n, mbox, k, u, e) => Preparer(s, n, mbox, k, u, e)'
      BY <2>2, SamePlan
    <3>2. /\ InCalls(s, k) => InCalls(s, k)'
          /\ Traffic(n, mbox) => Traffic(n, mbox)'
          /\ OnItsPlace(s, n, mbox) => OnItsPlace(s, n, mbox)'
      BY <2>1, <2>2, <2>3 DEF InCalls, Traffic, InFlight, OnItsPlace, Underway
    <3>3. /\ Prepared(s, n, mbox, u, e) => Prepared(s, n, mbox, u, e)'
          /\ Filling(s, n, mbox) => Filling(s, n, mbox)'
          /\ Pending(s, n, mbox) => Pending(s, n, mbox)'
          /\ Frames(s, n) => Frames(s, n)'
      BY <2>1, <2>2, <2>3 DEF Prepared, Filling, Pending, InSend, Frames, IsFrame
    <3> QED BY <3>1, <3>2, <3>3 DEF SendsWholly
  <2>6. /\ \A r, x : /\ Receiver(r, x) => Receiver(r, x)'
                     /\ Received(r, x) => Received(r, x)'
        /\ NothingReceived => NothingReceived'
    <3>1. NothingReceived => NothingReceived'
      BY <2>2, SamePlan
    <3>2. \A r, x : Receiver(r, x) => Receiver(r, x)'
      BY <2>2, SamePlan
    <3>3. \A r, x : Received(r, x) => Received(r, x)'
      BY <2>1, <2>3 DEF Received, Idle
    <3> QED BY <3>1, <3>2, <3>3
  <2> QED BY <2>4, <2>5, <2>6 DEF WholeInv
<1>2. CASE BoardNext
  BY <1>2, WholeStepped, WholePeripherals DEF BoardNext
<1> QED BY <1>1, <1>2

\* When a send function has returned, its message has gone out or will go out with the next frame of
\* the mailbox: a frame of the message before that is still in flight does not take the request
\* away, nor does one that fails, and a peer does not write over it (can0_send, can1_send).
THEOREM NoFrameEverForgotten == BoardSpec => []NoFrameForgotten
<1>1. WholeInv => NoFrameForgotten
  <2> SUFFICES ASSUME WholeInv, NEW t \in Tasks, IsOver(t, "send"), NEW c, c = Plan.calls[t][at[t].call]
               PROVE  \/ \E n \in Nodes : OfIt(bus[n], c.mbox, c.low) \/ OfIt(flight[n], c.mbox, c.low)
                      \/ /\ OfIt(FrameIn(c.mbox), c.mbox, c.low)
                         /\ Sending(c.mbox) /\ Is(MOSTAT(c.mbox), "MSGVAL", 1)
    BY DEF NoFrameForgotten, OfIt
  <2>1. c.what = "send" /\ at[t].call \in 1..Len(Plan.calls[t]) /\ Activities
    <3>1. at[t].call # 0 /\ c.what = "send"
      BY DEF IsOver
    <3>2. at[t].call \in 0..Len(Plan.calls[t]) /\ Activities
      BY DEF WholeInv, Activities
    <3>3. Len(Plan.calls[t]) \in Nat
      BY <3>2, CodeOfTask DEF Activities, Tasks, Plan
    <3> QED BY <3>1, <3>2, <3>3
  <2>2. ~Silent
    BY <2>1 DEF Silent
  <2>3. PICK s, n, mbox, k : Sender(s, n, mbox, k) /\ Traffic(n, mbox) /\ OnItsPlace(s, n, mbox)
    BY <2>2, WhoPrepares DEF WholeInv, Quiet, SendsWholly
  <2>4. t = s /\ c.mbox = mbox /\ n \in Nodes /\ c = CallOf(s)
    BY <2>1, <2>3 DEF Sender, CallOf
  <2>5. \/ OfIt(bus[n], mbox, c.low)
        \/ OfIt(FrameIn(mbox), mbox, c.low) /\ Sending(mbox) /\ Is(MOSTAT(mbox), "MSGVAL", 1)
    BY <2>1, <2>3, <2>4, SendOver
  <2> QED BY <2>4, <2>5
<1> QED BY <1>1, WholeInitially, WholeAgain, PTL DEF BoardSpec

\* No frame mixes two messages, and none has an identifier or a length but those its mailbox was
\* configured for, however the controller and the tasks interleave (can0_send, can1_send). The
\* receiver can return one word of a message and one of the next only after the controller has
\* set MSGLST, for a message that came before the last one was taken (can0_recv).
THEOREM MessagesAlwaysWhole == BoardSpec => []MessagesWhole
<1>1. WholeInv => MessagesWhole
  <2> SUFFICES ASSUME WholeInv PROVE MessagesWhole
    OBVIOUS
  <2>1. ASSUME NEW j \in Nodes, bus[j] # None
        PROVE  \E t \in Tasks : \E i \in 1..Len(Plan.calls[t]) :
                 LET c == Plan.calls[t][i]
                 IN  /\ c.what = "send" /\ c.low = bus[j].low /\ c.high = bus[j].high /\ c.mbox = bus[j].mbox
                     /\ bus[j].dlc = Dlc(j) /\ bus[j].id = Id(j)
    <3>1. ~Quiet
      BY <2>1 DEF Quiet
    <3>2. PICK s, n, mbox, k, u, e : Preparer(s, n, mbox, k, u, e) /\ SendsWholly(s, n, mbox, k, u, e)
      BY <3>1 DEF WholeInv
    <3>3. j = n /\ IsFrame(s, n, bus[j]) /\ s \in Tasks
      BY <2>1, <3>2, WhoPrepares DEF SendsWholly, Frames
    <3> QED BY <3>3 DEF IsFrame
  <2>2. ASSUME NEW t \in Tasks, IsOver(t, "recv"), Len(at[t].buf) > 2
        PROVE  at[t].buf[1] = at[t].buf[2] \/ Is(MOSTAT(Plan.calls[t][at[t].call].mbox), "MSGLST", 1)
    <3>1. Activities
      BY DEF WholeInv
    <3>2. at[t].call \in 1..Len(Plan.calls[t]) /\ Plan.calls[t][at[t].call].what = "recv"
      <4>1. Len(Plan.calls[t]) \in Nat /\ at[t].call \in 0..Len(Plan.calls[t])
        BY <3>1, CallsOf
      <4> QED BY <2>2, <4>1 DEF IsOver
    <3>3. ~NothingReceived
      BY <3>2 DEF NothingReceived
    <3>4. PICK r, x : Receiver(r, x) /\ Received(r, x)
      BY <3>3 DEF WholeInv
    <3>5. t = r /\ Plan.calls[t][at[t].call].mbox = x
      BY <3>2, <3>4 DEF Receiver
    <3>6. PICK b : b = at[t].buf
      OBVIOUS
    <3>7. b[1] = b[2] \/ Is(MOSTAT(x), "MSGLST", 1)
      BY <2>2, <3>1, <3>4, <3>5, <3>6, RecvOver
    <3> QED BY <3>5, <3>6, <3>7
  <2> QED BY <2>1, <2>2 DEF MessagesWhole
<1> QED BY <1>1, WholeInitially, WholeAgain, PTL DEF BoardSpec
=================================================================================
