---------------------------------- MODULE Gpio ----------------------------------
(***************************************************************************)
(* gpio.c: the five ports. The functions of a port repeat those of the     *)
(* others, with differences where the hardware or the author made one.     *)
(*                                                                         *)
(* IOCR, PHCR and HWSEL hold a field for each pin, four pins to a word of  *)
(* IOCR and eight to one of PHCR. Writing OMR sets or resets only the bits *)
(* of OUT that are written as ones.                                        *)
(***************************************************************************)
EXTENDS Programs

IOCR(port, nr) == << port, "IOCR", nr \div 4 >>
PHCR(port, nr) == << port, "PHCR", nr \div 8 >>
OUT(port)      == << port, "OUT" >>
OMR(port)      == << port, "OMR" >>
HWSEL(port)    == << port, "HWSEL" >>
PDISC(port)    == << port, "PDISC" >>

Pin(nr, v) == [n \in {nr} |-> v]

\* Modes of a pin: direct input, push-pull output, or output of a peripheral.
Modes == {"in", "out", "alt7", "alt9"}

SetsLevel(port, nr, bt) == Write(OMR(port), Pin(nr, bt))

NoHysteresis(port, nr) == Modify(PHCR(port, nr), Pin(nr, 0))

set_input(port, nr, digital) ==
  Modify(IOCR(port, nr), Pin(nr, "in")) \o digital \o NoHysteresis(port, nr)

set_output(port, nr, hwsel, digital) ==
  Modify(IOCR(port, nr), Pin(nr, "in")) \o hwsel \o NoHysteresis(port, nr) \o digital
  \o SetsLevel(port, nr, 1) \o Modify(IOCR(port, nr), Pin(nr, "out"))

NoHwControl(port, nr)  == Modify(HWSEL(port), Pin(nr, 0))
DigitalInput(port, nr) == Modify(PDISC(port), Pin(nr, 0))

gpio_0_set_input(nr)   == set_input("P0", nr, << >>)
gpio_0_set_output(nr)  == set_output("P0", nr, NoHwControl("P0", nr), << >>)
gpio_0_set_pin(nr, bt) == SetsLevel("P0", nr, bt)

\* Port 1 leaves the hardware control of a pin as it is.
gpio_1_set_input(nr)   == set_input("P1", nr, << >>)
gpio_1_set_output(nr)  == set_output("P1", nr, << >>, << >>)

\* (Wrong: the level would be changed in the register OUT.)
gpio_1_set_pin_InOut(nr, bt) == Modify(OUT("P1"), Pin(nr, bt))

gpio_1_set_pin(nr, bt) == SetsLevel("P1", nr, bt)

\* Port 2 has analog inputs; its set_pin writes the level a second time, in OUT.
gpio_2_set_input(nr)   == set_input("P2", nr, DigitalInput("P2", nr))
gpio_2_set_output(nr)  == set_output("P2", nr, NoHwControl("P2", nr), DigitalInput("P2", nr))
gpio_2_set_pin(nr, bt) == SetsLevel("P2", nr, bt) \o Modify(OUT("P2"), Pin(nr, bt))

gpio_3_set_input(nr)   == set_input("P3", nr, << >>)
gpio_3_set_output(nr)  == set_output("P3", nr, NoHwControl("P3", nr), << >>)
gpio_3_set_pin(nr, bt) == SetsLevel("P3", nr, bt)

gpio_4_set_input(nr)   == set_input("P4", nr, << >>)
gpio_4_set_output(nr)  == set_output("P4", nr, NoHwControl("P4", nr), << >>)
gpio_4_set_pin(nr, bt) == SetsLevel("P4", nr, bt)
=============================================================================
