------------------------------ MODULE MCKernSem ------------------------------
(***************************************************************************)
(* KernSem for TLC: one semaphore of at most two units, three tasks that    *)
(* use it and the spinning one.                                            *)
(***************************************************************************)
EXTENDS KernSem

CONSTANTS main, spd, aux, spin

MCOrder   == << main, spd, aux, spin >>
MCForever == {Infinite}
MCTwo     == {2}
=============================================================================
