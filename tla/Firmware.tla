--------------------------------- MODULE Firmware ---------------------------------
(***************************************************************************)
(* What main.c does with the board, and the other uses its drivers were    *)
(* made for: a gateway on node 0 (the calls main.c has commented out, and  *)
(* those of can_lib.c), tasks that switch pins, a console.                 *)
(***************************************************************************)
EXTENDS Board

CONSTANT EnabledPins  \* of port 0, that main_task_func sets: << 4, 5, 1, 0 >> in main.c

Does_(program) == [what |-> "other", does |-> program]

Sends(mbox, w, high, program) == [what |-> "send", mbox |-> mbox, low |-> w, high |-> high, does |-> program]
Receives(mbox, program)       == [what |-> "recv", mbox |-> mbox, does |-> program]

SetPin(port, nr, v) ==
  [what |-> "set_pin", port |-> port, nr |-> nr, level |-> v,
   does |-> CASE port = "P0" -> gpio_0_set_pin(nr, v) [] port = "P1" -> gpio_1_set_pin(nr, v)
              [] port = "P2" -> gpio_2_set_pin(nr, v) [] port = "P3" -> gpio_3_set_pin(nr, v)
              [] port = "P4" -> gpio_4_set_pin(nr, v)]

SetOutput(port, nr) ==
  Does_(CASE port = "P0" -> gpio_0_set_output(nr) [] port = "P1" -> gpio_1_set_output(nr)
          [] port = "P2" -> gpio_2_set_output(nr) [] port = "P3" -> gpio_3_set_output(nr)
          [] port = "P4" -> gpio_4_set_output(nr))

SetInput(port, nr) ==
  Does_(CASE port = "P0" -> gpio_0_set_input(nr) [] port = "P1" -> gpio_1_set_input(nr)
          [] port = "P2" -> gpio_2_set_input(nr) [] port = "P3" -> gpio_3_set_input(nr)
          [] port = "P4" -> gpio_4_set_input(nr))

BitRate == 500000
ItsTiming == Timing(BitRate)
-----------------------------------------------------------------------------
(* main.c *)

main_task_func == <<
  Does_(can1_init(BitRate)),
  Does_(can1_configure_mbox(0, 291, 2047, Transmit)), Does_(can1_configure_mbox(2, 291, 2047, Transmit)),
  Does_(can1_configure_mbox(1, 546, 0, Receive)),     Does_(can1_configure_mbox(3, 546, 0, Receive)),
  Does_(can1_reset_init_bit),
  Does_(Create("speed")), Does_(Create("odo")) >>
  \o FlattenSeq([i \in 1..Len(EnabledPins) |->
                   << SetOutput("P0", EnabledPins[i]), SetPin("P0", EnabledPins[i], 1) >>])

\* (Wrong: the node would be left out of operation.)
Recovers_StaysOff ==
  IfIs(NSR(1), "LEC", 0, << >>,
       Write(NCR(1), [CCE |-> 1, INIT |-> 1]) \o Write(NSR(1), [LEC |-> 0]))

Recovers ==
  IfIs(NSR(1), "LEC", 0, << >>,
       Write(NCR(1), [CCE |-> 1, INIT |-> 1]) \o Write(NSR(1), [LEC |-> 0])
       \o Write(NCR(1), [CCE |-> 0, INIT |-> 0]))

\* A round of the loop with message w: checksum, counter and speed in one word, 0x91 in the other.
SpeedRound(w) == <<
  Does_(Recovers), Does_(can1_configure_mbox(0, 417, 2047, Transmit)),
  Sends(0, w, 145, can1_send(0, w, 145, 5)) >>

speed_task_func == << SetOutput("P1", 4), SetPin("P1", 4, 0) >> \o SpeedRound(1)

odo_task_func == << SetOutput("P1", 5), SetPin("P1", 5, 0) >>

Main == [calls |-> [main |-> main_task_func, speed |-> speed_task_func, odo |-> odo_task_func],
         from |-> [main |-> 0, speed |-> 3, odo |-> 0], hears |-> {}, own |-> {"P0"}]
-----------------------------------------------------------------------------
(* The other applications. *)

Gateway ==
  [calls |-> [main |-> << Does_(can0_init(BitRate)),
                          Does_(can0_configure_mbox(8, 801, 2047, Transmit)),
                          Does_(can0_configure_mbox(9, 546, 0, Receive)),
                          Does_(can0_reset_init_bit), Does_(Create("speed")), Does_(Create("odo")) >>,
              speed |-> [i \in 1..2 |-> Sends(8, i, i, can0_send(8, i, i, 8))],
              odo |-> << Receives(9, can0_recv(9)) >>],
   from |-> [main |-> 0, speed |-> 1, odo |-> 1], hears |-> {0}, own |-> {}]

\* Two tasks that each switch a pin of the port and read another, in the same words of IOCR.
Pins(port) ==
  [calls |-> [main  |-> << SetOutput(port, 4), Does_(Create("speed")), SetPin(port, 4, 1), SetPin(port, 4, 0) >>,
              speed |-> << SetInput(port, 6), SetOutput(port, 5), SetPin(port, 5, 0), SetPin(port, 5, 1) >>],
   from |-> [main |-> 3, speed |-> 3], hears |-> {}, own |-> {}]

Console(init) ==
  [calls |-> [main |-> << Does_(init), Does_(us0_send_byte(65)), Does_(us0_recv_byte) >>],
   from |-> [main |-> 2], hears |-> {}, own |-> {}]

Uses == [main |-> Main, gateway |-> Gateway, console |-> Console(us0_init), console2 |-> Console(UART_Init),
         P0 |-> Pins("P0"), P1 |-> Pins("P1"), P2 |-> Pins("P2"), P3 |-> Pins("P3"), P4 |-> Pins("P4")]
-----------------------------------------------------------------------------
(* What the applications have in common. *)

ASSUME ProgramsAssumption ==
  \A a \in DOMAIN Applications : LET calls == Applications[a].calls IN
    \A t \in DOMAIN calls :
      /\ IsSequence(calls[t]) /\ Applications[a].from[t] \in 0..Len(calls[t])
      /\ \A k \in DOMAIN calls[t] : IsProgram(calls[t][k].does)

\* The access leaves the level of the pin as it is.
Leaves(port, nr, i) ==
  /\ i.op \in {"load", "store", "write"} => i.reg # OUT(port)
  /\ i.op \in {"load", "store"} => i.reg # OMR(port)
  /\ i.op = "write" /\ i.reg = OMR(port) => nr \notin DOMAIN i.new

\* So does a program, or else it is a call of gpio.c for another pin of the port.
Spares(port, nr, does) ==
  \/ \A i \in Code(does) : Leaves(port, nr, i)
  \/ \E other \in 0..15, v \in {0, 1} :
       /\ other # nr
       /\ does \in {SetPin(port, other, v).does, SetOutput(port, other).does, SetInput(port, other).does}

\* A pin that a task gives levels to is its own, and it does so with set_pin.
ASSUME PinsAssumption ==
  \A a \in DOMAIN Applications : LET calls == Applications[a].calls IN
    \A t \in DOMAIN calls : \A k \in DOMAIN calls[t] :
      LET c == calls[t][k]
      IN  c.what = "set_pin" =>
            /\ c.port \in Ports /\ c.does = SetPin(c.port, c.nr, c.level).does
            /\ \A u \in DOMAIN calls \ {t} : \A j \in DOMAIN calls[u] : Spares(c.port, c.nr, calls[u][j].does)

\* The clock that a register needs.
Clocks(r) ==
  CASE r[1] \in {"CAN", "NCR", "NSR", "NBTR", "NPCR", "MOCTR", "MOSTAT", "MOAR", "MOAMR", "MOIPR", "MOFCR",
                 "MODATAL", "MODATAH", "LIST"} -> {"MCAN0"}
    [] r[1] = "US" -> {"USIC0"}
    [] OTHER       -> {}

\* The functions that open a clock before all else.
Opens(per) == IF per = "MCAN0" THEN {can0_init(BitRate), can1_init(BitRate)} ELSE {us0_init, UART_Init}

\* The access needs no clock but that one, and does not close it.
NeedsOnly(per, i) ==
  i.op # "create" =>
    /\ Clocks(i.reg) \subseteq {per} /\ i.reg # CGATSTAT0
    /\ i.reg = CGATCLR0 => i.op # "write" /\ (i.op = "store" => i.new = [p \in {per} |-> 1])

Needless(i) == i.op # "create" => Clocks(i.reg) = {}

\* An application needs one clock, which the first call of its main task opens, or none.
ASSUME ClocksAssumption ==
  \A a \in DOMAIN Applications : LET calls == Applications[a].calls IN
    \E per \in {"MCAN0", "USIC0"} :
      /\ \A t \in DOMAIN calls : \A k \in DOMAIN calls[t] : \A i \in Code(calls[t][k].does) : NeedsOnly(per, i)
      /\ \/ "main" \in DOMAIN calls /\ 1 \in DOMAIN calls["main"] /\ calls["main"][1].does \in Opens(per)
         \/ \A t \in DOMAIN calls : \A k \in DOMAIN calls[t] : \A i \in Code(calls[t][k].does) : Needless(i)

\* The functions that initialise a node, and the pin it then listens to.
Inits(n) == IF n = 0 THEN can0_init(BitRate) ELSE can1_init(BitRate)
Rx(n)    == IF n = 0 THEN 6 ELSE 4

\* A node that is used at all is initialised by the first call of the main task, and by no other call.
ASSUME BusAssumption ==
  \A a \in DOMAIN Applications : \A n \in Nodes :
    LET calls == Applications[a].calls
        Touches(t, k, regs) == \E i \in Code(calls[t][k].does) : i.op # "create" /\ i.reg \in regs
    IN  \/ \A t \in DOMAIN calls : \A k \in DOMAIN calls[t] : ~Touches(t, k, {NCR(n)})
        \/ /\ "main" \in DOMAIN calls /\ 1 \in DOMAIN calls["main"] /\ calls["main"][1].does = Inits(n)
           /\ Applications[a].from["main"] # 1
           /\ \A t \in DOMAIN calls : \A k \in DOMAIN calls[t] :
                t # "main" \/ k # 1 => ~Touches(t, k, {NBTR(n), NPCR(n)})

\* The access changes a register of these kinds that is of the mailbox.
Changes(i, kinds, mbox) == i.op \in {"load", "store", "write"} /\ i.reg[1] \in kinds /\ i.reg[2] = mbox

Avoids(mbox, i) == ~Changes(i, {"MOCTR", "MODATAL", "MODATAH", "MOFCR", "MOAR"}, mbox)

\* It requests no mailbox but this one, withdraws no request, and puts it on no other node's list.
RequestsOnly(mbox, n, i) ==
  /\ i.op \in {"load", "store", "write"} => i.reg[1] \notin {"MOSTAT", "LIST"}
  /\ i.op \in {"load", "store"} => i.reg[1] # "MOCTR" /\ i.reg # PANCTR
  /\ i.op = "write" /\ i.reg[1] = "MOCTR" =>
       LET given == {"TXRQ", "TXEN0", "TXEN1"} \cap DOMAIN i.new
       IN  /\ \A f \in given : i.new[f] = 1
           /\ "TXRQ" \in given => i.reg[2] = mbox /\ given = {"TXRQ", "TXEN0", "TXEN1"}
  /\ i.op = "write" /\ i.reg = PANCTR =>
       {"PANAR1", "PANAR2"} \subseteq DOMAIN i.new /\ (i.new.PANAR1 = mbox => i.new.PANAR2 = n + 1)

SendsNothing(calls) == \A t \in DOMAIN calls : \A j \in DOMAIN calls[t] : calls[t][j].what # "send"

\* Task s sends, from one mailbox. Call k of the main task creates it, and no other task writes to
\* the mailbox from then on.
SendsFrom(a, s, n, mbox, k) ==
  LET calls == Applications[a].calls
  IN  /\ s \in DOMAIN calls \ {"main"} /\ "main" \in DOMAIN calls /\ k \in DOMAIN calls["main"]
      /\ calls["main"][k].does = Create(s) /\ Applications[a].from["main"] \notin 1..k
      /\ \A t \in DOMAIN calls : \A j \in DOMAIN calls[t] : LET c == calls[t][j] IN
           /\ c.what = "send" => t = s /\ c.mbox = mbox /\ \E dlc \in 0..8 : c.does = send(mbox, c.low, c.high, dlc)
           /\ \A i \in Code(c.does) :
                /\ RequestsOnly(mbox, n, i)
                /\ i.op = "create" => i.task # s \/ (t = "main" /\ j = k)
                /\ t # s /\ (t # "main" \/ j > k) => Avoids(mbox, i)

\* The identifier and the length of the frames that the applications send from a node.
Id(n)  == IF n = 0 THEN 801 ELSE 417
Dlc(n) == IF n = 0 THEN 8 ELSE 5

\* The access leaves the identifier and the direction of the mailbox as configure_mbox gives them.
Keeps(mbox, n, i) ==
  /\ Changes(i, {"MOAR"}, mbox) => i.op = "write" /\ i.new = [ID |-> Id(n)]
  /\ Changes(i, {"MOCTR"}, mbox) /\ "DIR" \in DOMAIN i.new => i.new.DIR = Transmit

\* It requests no mailbox at all.
RequestsNothing(i) ==
  i.op \in {"load", "store", "write"} =>
    i.reg[1] # "MOSTAT" /\ (i.reg[1] = "MOCTR" => i.op = "write" /\ "TXRQ" \notin DOMAIN i.new)

\* The mailbox is configured by call e of u, which is the sender or the main task before it creates
\* the sender. From then on it keeps what it was given, and the words are written only to send them.
SetsUp(a, s, n, mbox, k, u, e) ==
  LET calls == Applications[a].calls
  IN  /\ u \in {s, "main"} /\ e \in DOMAIN calls[u] /\ (u = "main" => e < k)
      /\ calls[u][e].does = configure_mbox(n, mbox, Id(n), 2047, Transmit)
      /\ \A t \in DOMAIN calls : \A j \in DOMAIN calls[t] : LET c == calls[t][j] IN
           /\ c.what = "send" => c.does = send(mbox, c.low, c.high, Dlc(n)) /\ (u = s => j > e)
           /\ \A i \in Code(c.does) :
                /\ t = s \/ (t = "main" /\ u = "main" /\ j >= e) => Keeps(mbox, n, i)
                /\ c.what # "send" => /\ RequestsNothing(i)
                                      /\ t = s => ~Changes(i, {"MODATAL", "MODATAH", "MOFCR"}, mbox)

\* Where something is sent it is set up like that, and where nothing is, nothing is requested.
ASSUME SetUpAssumption ==
  \A a \in DOMAIN Applications : LET calls == Applications[a].calls IN
    \/ /\ SendsNothing(calls)
       /\ \A t \in DOMAIN calls : \A j \in DOMAIN calls[t] : \A i \in Code(calls[t][j].does) : RequestsNothing(i)
    \/ \E s \in DOMAIN calls, n \in Nodes, mbox \in 0..MailboxCount - 1 : \E k \in DOMAIN calls["main"] :
         /\ SendsFrom(a, s, n, mbox, k)
         /\ \E u \in {s, "main"} : \E e \in DOMAIN calls[u] : SetsUp(a, s, n, mbox, k, u, e)

\* The access, of a call that is this, does not send or write over the message of the mailbox, leaves
\* MSGLST as it is, and marks the message as taken only in the function that takes it.
Entrusts(mbox, what, i) ==
  /\ ~Changes(i, {"MOSTAT", "MODATAL", "MODATAH"}, mbox)
  /\ Changes(i, {"MOCTR"}, mbox) =>
       i.op = "write" /\ {"TXRQ", "MSGLST"} \cap DOMAIN i.new = {} /\ ("NEWDAT" \in DOMAIN i.new => what = "recv")

ReceivesNothing(calls) == \A t \in DOMAIN calls : \A j \in DOMAIN calls[t] : calls[t][j].what # "recv"

\* Task r receives, from one mailbox.
ReceivesFrom(calls, r, mbox) ==
  \A t \in DOMAIN calls : \A j \in DOMAIN calls[t] : LET c == calls[t][j] IN
    /\ c.what = "recv" => t = r /\ c.mbox = mbox /\ c.does = recv(mbox)
    /\ \A i \in Code(c.does) : Entrusts(mbox, c.what, i)

\* An application receives like that, or nothing.
ASSUME ReceivesAssumption ==
  \A a \in DOMAIN Applications : LET calls == Applications[a].calls IN
    ReceivesNothing(calls) \/ \E r \in DOMAIN calls, mbox \in 0..MailboxCount - 1 : ReceivesFrom(calls, r, mbox)
-----------------------------------------------------------------------------
IsOver(t, what) == at[t].call # 0 /\ at[t].todo = << >> /\ Plan.calls[t][at[t].call].what = what

(* A pin has the level that the task it belongs to gave it last, whatever others do to the      *)
(* port at the same time. Port 2 does not promise it (gpio.c:250).                              *)
LevelsKept ==
  \A t \in Tasks : IsOver(t, "set_pin") =>
    LET c == Plan.calls[t][at[t].call]
    IN  c.port # "P2" => /\ OUT(c.port) \in DOMAIN mem /\ c.nr \in DOMAIN mem[OUT(c.port)]
                         /\ mem[OUT(c.port)][c.nr] = c.level

(* The registers of CAN and of the serial line are touched only when their clocks run.          *)
ClocksFirst == \A r \in DOMAIN mem : \A per \in Clocks(r) : Runs(per)

(* A node that takes part in the traffic has the bit timing of its init call and listens to the *)
(* pin of its own: the timing was written while the node allowed it (can0_set_speed).           *)
OnBusConfigured ==
  \A n \in Nodes : OnBus(n) => /\ Value(NBTR(n)) = ItsTiming
                               /\ Is(NPCR(n), "RXSEL", Rx(n))

(* Whatever the controller does between two accesses of can0_send, can1_send or can0_recv, no   *)
(* frame mixes two messages, and can0_recv returns words of two messages only where MSGLST      *)
(* tells: it reads both words before it takes NEWDAT back (can.c:505-510), so a message that    *)
(* comes in between sets the bit. (can0_recv does not look at it.)                              *)
MessagesWhole ==
  /\ \A n \in Nodes : bus[n] # None =>
       \E t \in Tasks : \E i \in 1..Len(Plan.calls[t]) :
         LET c == Plan.calls[t][i]
         IN  /\ c.what = "send" /\ c.low = bus[n].low /\ c.high = bus[n].high /\ c.mbox = bus[n].mbox
             /\ bus[n].dlc = Dlc(n) /\ bus[n].id = Id(n)
  /\ \A t \in Tasks : IsOver(t, "recv") /\ Len(at[t].buf) > 2 =>
       at[t].buf[1] = at[t].buf[2] \/ Is(MOSTAT(Plan.calls[t][at[t].call].mbox), "MSGLST", 1)

(* When can0_send or can1_send has returned, whatever it returned, the message is on its way:   *)
(* it is the one that went out or is going out, or its mailbox is still requested with it.      *)
NoFrameForgotten ==
  \A t \in Tasks : IsOver(t, "send") =>
    LET c == Plan.calls[t][at[t].call]
        of(f) == f # None /\ f.mbox = c.mbox /\ f.low = c.low
    IN  \/ \E n \in Nodes : of(bus[n]) \/ of(flight[n])
        \/ of(FrameIn(c.mbox)) /\ Sending(c.mbox) /\ Is(MOSTAT(c.mbox), "MSGVAL", 1)

(* The speed goes out for ever, however often a frame fails or the node leaves the bus: the     *)
(* speed task brings it back, and asks again.                                                   *)
FramesGoOn == app = "main" => []<><<Sent(1)>>_boardVars
=============================================================================
