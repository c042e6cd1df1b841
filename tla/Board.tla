---------------------------------- MODULE Board ----------------------------------
(***************************************************************************)
(* The board: tasks that execute driver programs, access by access, and    *)
(* the peripherals at work meanwhile. The scheduler may switch at any      *)
(* access. An application says which calls each task makes, and from which *)
(* of them on it repeats itself.                                           *)
(*                                                                         *)
(* Of the hardware this has what the drivers rely on. A message object is  *)
(* sent if it is valid and requested: the controller copies it, clears     *)
(* NEWDAT and sets RTSEL, and when the frame is out takes the request back,*)
(* unless RTSEL was cleared or new data came meanwhile. A frame may fail,  *)
(* and a node go off the bus. The timing of a node can be changed only     *)
(* while CCE is set, a clock gate only while the protection is off.        *)
(*                                                                         *)
(* A message that is received is written over the last one of its mailbox, *)
(* taken or not, at any access of the tasks. If NEWDAT was still set the   *)
(* controller sets MSGLST, which no function of can.c looks at or clears.  *)
(***************************************************************************)
EXTENDS Can, Uart

CONSTANT Applications  \* their names and what they are

VARIABLES
  app,     \* the name of the one that runs
  mem,     \* the registers that were written; the others are as after reset
  at,      \* per task: the call it is making or has made, what is left to do, what it has read
  acc,     \* per task, the register it loaded
  live,    \* the tasks that are created
  flight,  \* per node, the frame that is being sent
  bus      \* per node, the last frame that went out

Cpu == << at, acc, live >>
boardVars == << app, mem, Cpu, flight, bus >>

Nodes  == {0, 1}
None   == [mbox |-> MailboxCount]  \* no frame is of that mailbox
Ports  == {"P0", "P1", "P2", "P3", "P4"}
Plan   == Applications[app]
Tasks  == DOMAIN Plan.calls
Mailboxes == {r[2] : r \in {x \in DOMAIN mem : x[1] = "LIST"}}

Reset(r) == CASE r[1] = "NCR"  -> [INIT |-> 1, CCE |-> 0]
              [] r = PASSWD    -> [PROTS |-> 1]
              [] OTHER         -> << >>

Value(r)    == IF r \in DOMAIN mem THEN mem[r] ELSE Reset(r)
Field(r, f) == IF f \in DOMAIN Value(r) THEN Value(r)[f] ELSE 0
Is(r, f, v) == Field(r, f) = v

\* f, and what g has besides.
Over(f, g)   == [x \in DOMAIN f \cup DOMAIN g |-> IF x \in DOMAIN f THEN f[x] ELSE g[x]]
Put(r, v, m) == IF r \in DOMAIN m THEN [m EXCEPT ![r] = v]
                ELSE [x \in DOMAIN m \cup {r} |-> IF x = r THEN v ELSE m[x]]

List(m)    == << "LIST", m >>
CGATSTAT0  == << "SCU", "CGATSTAT0" >>  \* a one here is an open gate
Runs(per)  == Is(CGATSTAT0, per, 1)

\* The registers after v was written to r.
Written(r, v) ==
  CASE r[1] = "MOCTR"     -> Put(MOSTAT(r[2]), Over(v, Value(MOSTAT(r[2]))), mem)
    [] r \in {OMR(p) : p \in Ports}
                          -> Put(OUT(r[1]), Over(v, Value(OUT(r[1]))), mem)
    [] r[1] \in {"NBTR", "NPCR"} -> IF Is(NCR(r[2]), "CCE", 1) THEN Put(r, v, mem) ELSE mem
    [] r = CGATCLR0       -> IF Is(PASSWD, "PROTS", 0) THEN Put(CGATSTAT0, Over(v, Value(CGATSTAT0)), mem)
                             ELSE mem
    [] OTHER              -> Put(r, v, mem)

BoardInit ==
  /\ app \in DOMAIN Applications
  /\ mem = << >>
  /\ at = [t \in Tasks |-> [call |-> 0, todo |-> << >>, buf |-> << >>]]
  /\ acc = [t \in Tasks |-> << >>]
  /\ live = {"main"}
  /\ flight = [n \in Nodes |-> None]
  /\ bus = [n \in Nodes |-> None]
-----------------------------------------------------------------------------
(* A task executes its programs. *)

Following(t) == IF at[t].call < Len(Plan.calls[t]) THEN at[t].call + 1 ELSE Plan.from[t]

\* Where a task goes on: in its call, or in the next one. Plan.from is 0 if there is none.
Goes(t) ==
  IF at[t].todo # << >> THEN at[t]
  ELSE [call |-> Following(t), buf |-> << >>,
        todo |-> IF Following(t) = 0 THEN << >> ELSE Plan.calls[t][Following(t)].does]

\* It has done the first of w.todo, and goes on with `more` after it has read `words`.
GoesOn(t, w, more, words) ==
  /\ at' = [at EXCEPT ![t] = [w EXCEPT !.todo = more \o Tail(@), !.buf = @ \o words]]
  /\ UNCHANGED << app, live, flight, bus >>

Proceeds(t, w) == GoesOn(t, w, << >>, << >>)

\* A group of registers that only one task uses. It updates them in a single step.
Own(r) == r[1] \in Plan.own

Loads(t, w, i) ==
  /\ i.op = "load" /\ ~Own(i.reg)
  /\ acc' = [acc EXCEPT ![t] = Value(i.reg)]
  /\ Proceeds(t, w) /\ UNCHANGED mem

Stores(t, w, i) ==
  /\ i.op = "store"
  /\ mem' = Written(i.reg, Over(i.new, acc[t]))
  /\ acc' = [acc EXCEPT ![t] = << >>]
  /\ Proceeds(t, w)

\* The load and the store that follows it.
Updates(t, w, i) ==
  /\ i.op = "load" /\ Own(i.reg)
  /\ mem' = Written(i.reg, Over(w.todo[2].new, Value(i.reg)))
  /\ Proceeds(t, [w EXCEPT !.todo = Tail(@)]) /\ UNCHANGED acc

Writes(t, w, i) ==
  i.op = "write" /\ mem' = Written(i.reg, i.new) /\ Proceeds(t, w) /\ UNCHANGED acc

\* Reading the receive buffer of the serial line empties it.
Reads(t, w, i) ==
  /\ i.op = "read" /\ GoesOn(t, w, << >>, << Field(i.reg, i.field) >>)
  /\ mem' = IF i.reg = US("RBUF") THEN Written(US("RBUFSR"), [RDV |-> 0]) ELSE mem
  /\ UNCHANGED acc

Holds(i) == Is(i.reg, i.field, i.val)

Awaits(t, w, i) ==
  i.op \in {"await", "poll"} /\ Holds(i) /\ Proceeds(t, w) /\ UNCHANGED << mem, acc >>

TimesOut(t, w, i) ==
  /\ i.op = "poll" /\ ~Holds(i)
  /\ at' = [at EXCEPT ![t] = [w EXCEPT !.todo = << >>]]
  /\ UNCHANGED << app, mem, acc, live, flight, bus >>

Branches(t, w, i) ==
  i.op = "if" /\ GoesOn(t, w, IF Holds(i) THEN i.then ELSE i.else, << >>) /\ UNCHANGED << mem, acc >>

Creates(t, w, i) ==
  /\ i.op = "create" /\ live' = live \cup {i.task}
  /\ at' = [at EXCEPT ![t] = [w EXCEPT !.todo = Tail(@)]]
  /\ UNCHANGED << app, mem, acc, flight, bus >>

Step(t) ==
  \E w \in {Goes(t)} :
    /\ t \in live /\ w.todo # << >>
    /\ \E i \in {Head(w.todo)} :
         \/ Loads(t, w, i) \/ Stores(t, w, i) \/ Updates(t, w, i) \/ Writes(t, w, i) \/ Reads(t, w, i)
         \/ Awaits(t, w, i) \/ TimesOut(t, w, i) \/ Branches(t, w, i) \/ Creates(t, w, i)
-----------------------------------------------------------------------------
(* The peripherals. *)

\* The panel puts a message object on the list of a node.
PanelDone ==
  /\ Is(PANCTR, "BUSY", 1)
  /\ mem' = Put(List(Field(PANCTR, "PANAR1")), [NODE |-> Field(PANCTR, "PANAR2") - 1],
                Put(PANCTR, [BUSY |-> 0], mem))
  /\ UNCHANGED << app, Cpu, flight, bus >>

OnBus(n) == Is(NCR(n), "INIT", 0)

Serves(n, m, dir) ==
  OnBus(n) /\ Is(List(m), "NODE", n) /\ Is(MOSTAT(m), "MSGVAL", 1) /\ Is(MOSTAT(m), "DIR", dir)

Sending(m) == \A f \in {"TXRQ", "TXEN0", "TXEN1"} : Is(MOSTAT(m), f, 1)

FrameIn(m) == [mbox |-> m, id |-> Field(MOAR(m), "ID"), dlc |-> Field(MOFCR(m), "DLC"),
               low |-> Field(MODATAL(m), "W"), high |-> Field(MODATAH(m), "W")]

Marks(m, bits) == Put(MOSTAT(m), Over(bits, Value(MOSTAT(m))), mem)

Starts(n) ==
  \E m \in Mailboxes :
    /\ flight[n] = None /\ Serves(n, m, Transmit) /\ Sending(m)
    /\ flight' = [flight EXCEPT ![n] = FrameIn(m)]
    /\ mem' = Marks(m, [NEWDAT |-> 0, RTSEL |-> 1])
    /\ UNCHANGED << app, Cpu, bus >>

Sent(n) ==
  LET m == flight[n].mbox
      served == Is(MOSTAT(m), "RTSEL", 1) /\ Is(MOSTAT(m), "NEWDAT", 0)
  IN  /\ flight[n] # None /\ OnBus(n)
      /\ bus' = [bus EXCEPT ![n] = flight[n]]
      /\ flight' = [flight EXCEPT ![n] = None]
      /\ mem' = Put(NSR(n), [LEC |-> 0], IF served THEN Marks(m, [TXRQ |-> 0]) ELSE mem)
      /\ UNCHANGED << app, Cpu >>

\* The frame is lost, and tried again as long as it is requested; after too many errors the
\* node leaves the bus.
Fails(n, off) ==
  /\ flight[n] # None
  /\ flight' = [flight EXCEPT ![n] = None]
  /\ mem' = Put(NSR(n), [LEC |-> 1],
                IF off THEN Put(NCR(n), [Value(NCR(n)) EXCEPT !.INIT = 1], mem) ELSE mem)
  /\ UNCHANGED << app, Cpu, bus >>

\* The bits that are set when a message is stored: MSGLST if it replaces one that was not taken.
Arrival(m) == IF Is(MOSTAT(m), "NEWDAT", 1) THEN [NEWDAT |-> 1, MSGLST |-> 1] ELSE [NEWDAT |-> 1]

\* A peer sends the message w.
Heard(n, w) ==
  \E m \in Mailboxes :
    /\ n \in Plan.hears /\ Serves(n, m, Receive) /\ Is(MOSTAT(m), "RXEN", 1)
    /\ mem' = Put(MODATAL(m), [W |-> w], Put(MODATAH(m), [W |-> w],
                Put(MOFCR(m), [DLC |-> 8], Marks(m, Arrival(m)))))
    /\ UNCHANGED << app, Cpu, flight, bus >>

ByteArrives ==
  /\ Is(US("CCR"), "MODE", 2) /\ Is(US("RBUFSR"), "RDV", 0)
  /\ mem' = Put(US("RBUFSR"), [RDV |-> 1], Put(US("RBUF"), [BYTE |-> 7], mem))
  /\ UNCHANGED << app, Cpu, flight, bus >>

Peripherals ==
  \/ PanelDone \/ ByteArrives
  \/ \E n \in Nodes : \/ Starts(n) \/ Sent(n)
                      \/ \E off \in BOOLEAN : Fails(n, off)
                      \/ \E w \in {0, 1} : Heard(n, w)

BoardNext == (\E t \in Tasks : Step(t)) \/ Peripherals

\* The processor executes whatever task it likes, and the panel finishes. A request stands long
\* enough to be started between two calls of a task (which sleeps for 50 ticks), and of the
\* frames that are started again and again one gets through.
BoardSpec ==
  /\ BoardInit /\ [][BoardNext]_boardVars
  /\ WF_boardVars(\E t \in Tasks : Step(t)) /\ WF_boardVars(PanelDone)
  /\ SF_boardVars(\E n \in Nodes : Starts(n)) /\ SF_boardVars(\E n \in Nodes : Sent(n))
=============================================================================
