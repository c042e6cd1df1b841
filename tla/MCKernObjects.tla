----------------------------- MODULE MCKernObjects -----------------------------
(***************************************************************************)
(* KernObjects for TLC: applications that use one object, or two mutexes,  *)
(* or a pool once a deletion of a semaphore has left interrupts disabled.  *)
(***************************************************************************)
EXTENDS KernObjects

CONSTANTS main, spd, aux, spin, sem, event, pool, m1, m2, b1, b2, blk1, blk2

MCOrder      == << main, spd, aux, spin >>
MCTimeouts   == {1, Infinite}
MCMutexOrder == << m1, m2 >>

MCInherit == [q \in Mutex |-> [attr |-> "INHERIT", ceil |-> 1]]
MCCeiling == [q \in Mutex |-> [attr |-> "CEILING", ceil |-> 1]]
MCSetups  == {MCInherit, MCCeiling}

MCConditions == {[mode |-> "AND", pattern |-> {b1, b2}], [mode |-> "OR", pattern |-> {b1, b2}]}
MCSymmetry   == Permutations(Bit) \cup Permutations(Block)

MCSingle   == [attr |-> {"SINGLE", "CLR"}, io |-> "pattern"]
MCMulti    == [attr |-> {"MULTI"}, io |-> "pattern"]
MCRegister == [attr |-> {"MULTI"}, io |-> "register"]
MCEvents   == {MCSingle, MCMulti, MCRegister}

MCSame  == [t \in {main, spd, spin} |-> 1]
MCThree == [t \in {main, spd, aux, spin} |-> 1]
MCLower == [t \in {main, spd, spin} |-> IF t = spd THEN 2 ELSE 1]

MCBy(callers) == [q \in Queue |-> callers]

MCUses(objects, e, m, callers, suspends, priority, timeouts) ==
  [objects |-> objects, event |-> e, mutexes |-> m, callers |-> callers,
   suspends |-> suspends, priority |-> priority, timeouts |-> timeouts]

MCCeilings == { MCUses({m1, m2}, MCMulti, MCCeiling, MCBy({main, spd}), {}, MCLower, {1}) }

MCApplications ==
  { MCUses({event}, MCSingle, MCInherit, MCBy({main, spd}), {spd}, MCSame, {Infinite}),
    MCUses({event}, MCMulti, MCInherit, MCBy({main, spd}), {}, MCSame, {Infinite}),
    MCUses({event}, MCRegister, MCInherit, MCBy({spd}), {}, MCSame, {1}),
    MCUses({pool}, MCMulti, MCInherit, MCBy({main, spd}), {spd}, MCSame, {Infinite}),
    MCUses({sem, pool}, MCMulti, MCInherit, [MCBy({main}) EXCEPT ![sem] = {spd, aux}], {spd}, MCThree, {Infinite}),
    MCUses({m1}, MCMulti, MCInherit, MCBy({main, spd}), {spd}, MCLower, {1}),
    MCUses({m1, m2}, MCMulti, MCInherit, MCBy({main, spd}), {}, MCLower, {Infinite}) } \cup MCCeilings

\* The second object only matters behind a deletion that has left interrupts disabled.
PoolBehindSem ==
  {sem, pool} \subseteq app.objects /\ ~masked => UNCHANGED fmvars /\ \A t \in Task : at'[t].obj # pool

MCSpec == ObjInit /\ [][ObjNext /\ PoolBehindSem]_objvars
=============================================================================
