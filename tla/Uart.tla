---------------------------------- MODULE Uart ----------------------------------
(***************************************************************************)
(* uart.c: channel 1 of the USIC as a serial line, on pins 2 (out) and 3   *)
(* (in) of port 1.                                                         *)
(***************************************************************************)
EXTENDS Gpio, Scu, BitTiming

US(r) == << "US", r >>

us0_set_baud_rate(baud) ==
  LET best == BaudDivider(baud)
  IN  Modify(US("FDR"), [DM |-> 0, STEP |-> 0])
      \o Modify(US("FDR"), [DM |-> 2, STEP |-> best.step])
      \o Modify(US("BRG"), [PCTQ |-> 0, DCTQ |-> 0, PDIV |-> 0, CLKSEL |-> 0, PPPEN |-> 0])
      \o Modify(US("BRG"), [PCTQ |-> 0, DCTQ |-> Oversampling - 1, PDIV |-> best.pdiv - 1, PPPEN |-> 0])

\* With a buffer of size 0 it would wait until the status is TDV alone, never mind the
\* other bits; us0_set_mode gives the buffer a size, and nothing tests whether it is full.
us0_send_byte(b) ==
  IfIs(US("TBCTR"), "SIZE", 0,
       Await(US("PSR"), "TDVAlone", 0) \o Write(US("PSCR"), [TBIF |-> 1])
       \o Write(US("TBUF"), [BYTE |-> b]),
       Write(US("IN"), [BYTE |-> b]))

\* It does not wait: the argument `time` is not used.
us0_recv_byte ==
  IfIs(US("RBUFSR"), "RDV", 0, << >>,
       IfIs(US("RBCTR"), "SIZE", 0, Read(US("RBUF"), "BYTE"), Read(US("OUTR"), "BYTE")))

us0_enable ==
  scu_enable_peripheral_clock("USIC0")
  \o Modify(US("KSCFG"), [MODEN |-> 1, BPMODEN |-> 1]) \o Await(US("KSCFG"), "MODEN", 1)

us0_rx_enable == gpio_1_set_input(3) \o Modify(US("DX0CR"), [DSEL |-> 0])

us0_tx_enable == Modify(IOCR("P1", 2), Pin(2, "in")) \o Modify(IOCR("P1", 2), Pin(2, "alt7"))

us0_set_mode ==
  Modify(US("SCTR"), [TRM |-> 0, FLE |-> 0, WLE |-> 0])
  \o Modify(US("SCTR"), [PDL |-> 1, TRM |-> 1, FLE |-> 7, WLE |-> 7])
  \o Modify(US("TCSR"), [TDEN |-> 0]) \o Modify(US("TCSR"), [TDSSM |-> 1, TDEN |-> 1])
  \o Modify(US("PCR"), [STPB |-> 0, SP |-> 0, PL |-> 0]) \o Modify(US("PCR"), [SMD |-> 1, SP |-> 9])
  \o Modify(US("TBCTR"), [SIZE |-> 0, DPTR |-> 0]) \o Modify(US("TBCTR"), [SIZE |-> 6])

Ascend == Modify(US("CCR"), [PM |-> 0, MODE |-> 0]) \o Modify(US("CCR"), [MODE |-> 2])

us0_init ==
  us0_enable \o us0_set_baud_rate(115200) \o us0_set_mode \o us0_rx_enable \o us0_tx_enable \o Ascend

\* The older initialisation with fixed divisors; it clears the BRG of channel 0.
UART_Init ==
  Write(PASSWD, [PROTS |-> 0]) \o Modify(CGATCLR0, [p \in {"USIC0"} |-> 1]) \o Write(PASSWD, [PROTS |-> 1])
  \o Modify(US("KSCFG"), [MODEN |-> 1, BPMODEN |-> 1])
  \o Modify(US("FDR"), [DM |-> 0, STEP |-> 0]) \o Modify(US("FDR"), [DM |-> 2, STEP |-> 590])
  \o Modify(US("BRG0"), [PCTQ |-> 0, DCTQ |-> 0, PDIV |-> 0, CLKSEL |-> 0, PPPEN |-> 0])
  \o Modify(US("BRG"), [PCTQ |-> 0, DCTQ |-> 15, PDIV |-> 4])
  \o us0_set_mode
  \o Modify(IOCR("P1", 3), Pin(3, "in")) \o Modify(IOCR("P1", 3), Pin(3, "in"))
  \o Modify(US("DX0CR"), [DSEL |-> 0]) \o us0_tx_enable \o Ascend
=============================================================================
