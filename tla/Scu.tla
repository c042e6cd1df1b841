----------------------------------- MODULE Scu -----------------------------------
(***************************************************************************)
(* scu.c: the clocks of the peripherals, behind the bit protection. Writing*)
(* a one to CGATCLR0 opens the clock gate of a peripheral, to CGATSET0     *)
(* closes it.                                                              *)
(***************************************************************************)
EXTENDS Programs

PASSWD   == << "SCU", "PASSWD" >>
CGATCLR0 == << "SCU", "CGATCLR0" >>
CGATSET0 == << "SCU", "CGATSET0" >>
CLKCR    == << "SCU", "CLKCR" >>

scu_UnlockProtectedBits == Write(PASSWD, [PROTS |-> 0]) \o Await(PASSWD, "PROTS", 0)
scu_LockProtectedBits   == Write(PASSWD, [PROTS |-> 1])

\* (Wrong: the bits would be locked before the gate is opened.)
scu_enable_peripheral_clock_LocksFirst(per) ==
  scu_UnlockProtectedBits \o scu_LockProtectedBits
  \o Modify(CGATCLR0, [p \in {per} |-> 1]) \o Await(CLKCR, "VDDC2LOW", 0)

\* It waits for the voltage before it locks.
scu_enable_peripheral_clock(per) ==
  scu_UnlockProtectedBits
  \o Modify(CGATCLR0, [p \in {per} |-> 1]) \o Await(CLKCR, "VDDC2LOW", 0)
  \o scu_LockProtectedBits

scu_disable_peripheral_clock(per) ==
  scu_UnlockProtectedBits \o Modify(CGATSET0, [p \in {per} |-> 1]) \o scu_LockProtectedBits
=============================================================================
