----------------------------------- MODULE Can -----------------------------------
(***************************************************************************)
(* can.c: the two CAN nodes and the message objects (mailboxes) they share.*)
(* The functions of node 1 repeat those of node 0 and differ in the pins.  *)
(*                                                                         *)
(* Writing MOCTR sets and resets bits of MOSTAT. PANCTR takes a command    *)
(* that moves a message object to a list, list n + 1 being node n's, and   *)
(* is BUSY until it is done.                                               *)
(***************************************************************************)
EXTENDS Gpio, Scu, BitTiming

CLC       == << "CAN", "CLC" >>
MCR       == << "CAN", "MCR" >>
FDR       == << "CAN", "FDR" >>
PANCTR    == << "CAN", "PANCTR" >>
NCR(n)    == << "NCR", n >>
NSR(n)    == << "NSR", n >>
NBTR(n)   == << "NBTR", n >>
NPCR(n)   == << "NPCR", n >>
MOSTAT(m) == << "MOSTAT", m >>
MOCTR(m)  == << "MOCTR", m >>
MOIPR(m)  == << "MOIPR", m >>
MOAR(m)   == << "MOAR", m >>
MOAMR(m)  == << "MOAMR", m >>
MOFCR(m)  == << "MOFCR", m >>
MODATAL(m) == << "MODATAL", m >>
MODATAH(m) == << "MODATAH", m >>

\* The clock of the module, from the main clock.
can_enable  == scu_enable_peripheral_clock("MCAN0") \o Write(CLC, [DISR |-> 0])
               \o Modify(MCR, [CLKSEL |-> 1])
can_disable == scu_disable_peripheral_clock("MCAN0")

enable_configuration_change(n)  == Modify(NCR(n), [CCE |-> 1])
disable_configuration_change(n) == Modify(NCR(n), [CCE |-> 0])
set_init_bit(n)   == Modify(NCR(n), [INIT |-> 1])
reset_init_bit(n) == Modify(NCR(n), [INIT |-> 0])

\* (Wrong: the bit timing would be written after the configuration is closed.)
set_speed_Late(n, speed) ==
  enable_configuration_change(n) \o disable_configuration_change(n) \o Write(NBTR(n), Timing(speed))

set_speed(n, speed) ==
  enable_configuration_change(n) \o Write(NBTR(n), Timing(speed)) \o disable_configuration_change(n)

\* The divider the functions compute from the clock is not used: FDR gets 0x80EA, the
\* fractional divider 234 / 1024. (They take the CLKSEL field for the clock's frequency,
\* and divide by 1 >> 6.)
setup_clock == Read(MCR, "CLKSEL") \o Modify(FDR, [DM |-> 0, STEP |-> 0]) \o Write(FDR, [DM |-> 2, STEP |-> 234])

MailboxCount == 32

configure_mbox(n, mbox, id, mask, dir) ==
  IF mbox >= MailboxCount THEN << >>
  ELSE Write(MOIPR(mbox), [MPN |-> mbox])
       \o Write(MOCTR(mbox), [MSGVAL |-> 0])
       \o Write(MOAR(mbox), [ID |-> id % 2048])
       \o Write(MOAMR(mbox), [AM |-> mask])
       \o Write(MOCTR(mbox), [DIR |-> dir])
       \o Write(MOCTR(mbox), [TXEN0 |-> 1, TXEN1 |-> 1, MSGVAL |-> 1, RXEN |-> 1, RTSEL |-> 0])
       \o Write(PANCTR, [PANCMD |-> 2, PANAR1 |-> mbox, PANAR2 |-> n + 1, BUSY |-> 1])
       \o Await(PANCTR, "BUSY", 0)

Receive  == 0  \* the directions: XMC_CAN_MO_TYPE_RECMSGOBJ, XMC_CAN_MO_TYPE_TRANSMSGOBJ
Transmit == 1

\* The buffer gets the two words, and then what identifies and measures the message.
Words(mbox)  == Read(MODATAL(mbox), "W") \o Read(MODATAH(mbox), "W")
Taken(mbox)  == Write(MOCTR(mbox), [NEWDAT |-> 0, RXUPD |-> 0]) \o Write(MOCTR(mbox), [RXEN |-> 1])

\* (Wrong: the message would be marked as taken before it is read.)
recv_TakesFirst(mbox) ==
  Poll(MOSTAT(mbox), "NEWDAT", 1) \o Taken(mbox) \o Words(mbox)
  \o Read(MOAR(mbox), "ID") \o Read(MOFCR(mbox), "DLC")

recv(mbox) ==
  Poll(MOSTAT(mbox), "NEWDAT", 1) \o Words(mbox) \o Taken(mbox)
  \o Read(MOAR(mbox), "ID") \o Read(MOFCR(mbox), "DLC")

Fills(mbox, low, high, dlc) ==
  Modify(MOFCR(mbox), [DLC |-> dlc])
  \o Write(MODATAL(mbox), [W |-> low]) \o Write(MODATAH(mbox), [W |-> high])
  \o Write(MOCTR(mbox), [NEWDAT |-> 1, MSGVAL |-> 1, RTSEL |-> 0])

\* The request is not repeated while one is pending.
Requests(mbox) ==
  IfIs(MOSTAT(mbox), "MSGVAL", 0, << >>,
       IfIs(MOSTAT(mbox), "TXRQ", 1, << >>,
            Write(MOCTR(mbox), [TXRQ |-> 1, TXEN0 |-> 1, TXEN1 |-> 1])))

\* (Wrong: the mailbox would be filled while it is valid.)
send_StaysValid(mbox, low, high, dlc) ==
  IF mbox >= MailboxCount THEN << >> ELSE Fills(mbox, low, high, dlc) \o Requests(mbox)

\* (Wrong: a pending request would be looked for before the mailbox is filled.)
send_TestsFirst(mbox, low, high, dlc) ==
  IF mbox >= MailboxCount THEN << >>
  ELSE IfIs(MOSTAT(mbox), "TXRQ", 1,
            Write(MOCTR(mbox), [MSGVAL |-> 0]) \o Fills(mbox, low, high, dlc),
            Write(MOCTR(mbox), [MSGVAL |-> 0]) \o Fills(mbox, low, high, dlc)
            \o Write(MOCTR(mbox), [TXRQ |-> 1, TXEN0 |-> 1, TXEN1 |-> 1]))

send(mbox, low, high, dlc) ==
  IF mbox >= MailboxCount THEN << >>
  ELSE Write(MOCTR(mbox), [MSGVAL |-> 0]) \o Fills(mbox, low, high, dlc) \o Requests(mbox)
-----------------------------------------------------------------------------
\* The pins: port 1 for node 0 (pin 0 receives, pin 1 transmits), port 2 for node 1 (10, 11).
Pins0 == gpio_1_set_input(0) \o Modify(IOCR("P1", 1), Pin(1, "in")) \o Modify(IOCR("P1", 1), Pin(1, "alt9"))
Pins1 == gpio_2_set_input(10) \o gpio_2_set_input(11)
         \o Modify(IOCR("P2", 11), Pin(11, "in")) \o Modify(IOCR("P2", 11), Pin(11, "alt9"))
         \o gpio_2_set_input(10)

\* The mask of the loop-back bit is shifted twice: the bit keeps its value.
Inputs(n, rxsel) ==
  enable_configuration_change(n)
  \o Load(NPCR(n)) \o Store(NPCR(n), << >>)
  \o Modify(NPCR(n), [RXSEL |-> 0]) \o Modify(NPCR(n), [RXSEL |-> rxsel])
  \o disable_configuration_change(n)

Speed(n, speed) ==
  enable_configuration_change(n) \o set_speed(n, speed) \o disable_configuration_change(n)

can0_enable  == can_enable
can0_disable == can_disable
can0_enable_configuration_change  == enable_configuration_change(0)
can0_disable_configuration_change == disable_configuration_change(0)
can0_set_init_bit   == set_init_bit(0)
can0_reset_init_bit == reset_init_bit(0)
can0_set_speed(speed) == set_speed(0, speed)
can0_setup_clock      == setup_clock
can0_configure_mbox(mbox, id, mask, dir) == configure_mbox(0, mbox, id, mask, dir)
can0_recv(mbox) == recv(mbox)
can0_send(mbox, low, high, dlc) == send(mbox, low, high, dlc)
can0_init(speed) == can0_enable \o can0_setup_clock \o Pins0 \o Inputs(0, 6) \o Speed(0, speed)

can1_enable  == can_enable
can1_disable == can_disable
can1_enable_configuration_change  == enable_configuration_change(1)
can1_disable_configuration_change == disable_configuration_change(1)
can1_set_init_bit   == set_init_bit(1)
can1_reset_init_bit == reset_init_bit(1)
can1_set_speed(speed) == set_speed(1, speed)
can1_setup_clock      == setup_clock
can1_configure_mbox(mbox, id, mask, dir) == configure_mbox(1, mbox, id, mask, dir)
can1_recv(mbox) == recv(mbox)
can1_send(mbox, low, high, dlc) == send(mbox, low, high, dlc)
can1_init(speed) == can1_enable \o can1_setup_clock \o Pins1 \o Inputs(1, 4) \o Speed(1, speed)
=============================================================================
