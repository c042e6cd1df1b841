----------------------------- MODULE MCKernDQueue -----------------------------
(***************************************************************************)
(* KernDQueue for TLC: queues of every size up to 3, two tasks and the     *)
(* handler that use one, and the spinning task.                            *)
(***************************************************************************)
EXTENDS KernDQueue

CONSTANTS main, spd, spin

MCOrder    == << main, spd, spin >>
MCTimeouts == {1, Infinite}
MCItems    == Permutations(Item)
=============================================================================
