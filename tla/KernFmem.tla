-------------------------------- MODULE KernFmem --------------------------------
(***************************************************************************)
(* Pools of memory blocks of a fixed size: src/kern/kern_mem.c.            *)
(*                                                                         *)
(* The free list is threaded through the blocks themselves; here it is the *)
(* sequence a walk along it meets. What a wait has left in data_elem stays *)
(* there in the code; here NoBlock takes its place.                        *)
(***************************************************************************)
EXTENDS KernCalls

CONSTANTS
  Pool,        \* the pool, named by its wait queue
  Block,       \* the blocks it turned out to have, at least 2
  NoBlock,     \* data_elem before any block has been handed over
  Handlers     \* the owner of the blocks interrupt handlers have got

ASSUME FmemAssumption ==
  /\ Pool \in Queue /\ IsFiniteSet(Block) /\ Cardinality(Block) > 1
  /\ NoBlock \notin Block /\ Handlers \notin Task

VARIABLES
  free_list, \* the free blocks, and fblkcnt, the count of them the code keeps
  fblkcnt,
  elem,      \* data_elem of the TCBs
  owned      \* owned[o]: the blocks the calls of o have returned with ERR_NO_ERR

fmvars == << free_list, fblkcnt, elem, owned >>

NumBlocks == Cardinality(Block)

FmemInit ==
  /\ free_list = SetToSeq(Block) /\ fblkcnt = NumBlocks
  /\ elem = [t \in Task |-> NoBlock]
  /\ owned = [o \in Task \cup {Handlers} |-> {}]
-----------------------------------------------------------------------------
\* fm_get for the caller o; it fails with an empty list.
fm_get(o) ==
  /\ fblkcnt > 0
  /\ owned' = [owned EXCEPT ![o] = @ \cup {Head(free_list)}]
  /\ free_list' = Tail(free_list) /\ fblkcnt' = fblkcnt - 1
  /\ UNCHANGED << k, elem >>

\* fm_put of the block b, which changes nothing in a pool that is complete.
fm_put(b) ==
  IF fblkcnt < NumBlocks
  THEN free_list' = << b >> \o free_list /\ fblkcnt' = fblkcnt + 1
  ELSE UNCHANGED << free_list, fblkcnt >>

kern_fmem_get(timeout) ==
  \/ Quick(Pool) /\ fm_get(curr) /\ Returns
  \/ fblkcnt = 0 /\ At("entered", Pool) /\ Waits(Pool, "WFIXMEM", timeout) /\ UNCHANGED fmvars

\* Without a block they return ERR_TIMEOUT.
kern_fmem_get_polling ==
  Quick(Pool) /\ Returns /\ (fm_get(curr) \/ (fblkcnt = 0 /\ UNCHANGED << k, fmvars >>))

kern_fmem_get_ipolling == Handler(Pool) /\ UNCHANGED request /\ fm_get(Handlers)

\* (Wrong: the block would be put back although it goes to a waiter.)
Releases_PutsToo(o, b) ==
  /\ b \in owned[o] /\ owned' = [owned EXCEPT ![o] = @ \ {b}]
  /\ fm_put(b)
  /\ IF k.wq[Pool] # << >>
     THEN k' = task_wait_complete(k, Head(k.wq[Pool])) /\ elem' = [elem EXCEPT ![Head(k.wq[Pool])] = b]
     ELSE UNCHANGED << k, elem >>

\* (Wrong: a suspended waiter would be passed over.)
Releases_PassesSuspended(o, b) ==
  /\ b \in owned[o] /\ owned' = [owned EXCEPT ![o] = @ \ {b}]
  /\ IF k.wq[Pool] # << >> /\ ~Suspended(k.state[Head(k.wq[Pool])])
     THEN /\ k' = task_wait_complete(k, Head(k.wq[Pool]))
          /\ elem' = [elem EXCEPT ![Head(k.wq[Pool])] = b]
          /\ UNCHANGED << free_list, fblkcnt >>
     ELSE fm_put(b) /\ UNCHANGED << k, elem >>

\* The first waiter gets the block, or it is put back. Nothing tests that it is one of
\* the pool's; the application releases what it has got.
Releases(o, b) ==
  /\ b \in owned[o] /\ owned' = [owned EXCEPT ![o] = @ \ {b}]
  /\ IF k.wq[Pool] # << >>
     THEN /\ k' = task_wait_complete(k, Head(k.wq[Pool]))
          /\ elem' = [elem EXCEPT ![Head(k.wq[Pool])] = b]
          /\ UNCHANGED << free_list, fblkcnt >>
     ELSE fm_put(b) /\ UNCHANGED << k, elem >>

kern_fmem_release(b) == Quick(Pool) /\ Releases(curr, b) /\ CallEnds

\* It leaves without a request to switch.
kern_fmem_irelease(b) == Handler(Pool) /\ UNCHANGED request /\ Releases(Handlers, b)

\* The second half of kern_fmem_get: *p_data = data_elem, whatever task_wait_rc is.
FmemWaited ==
  /\ SecondHalf(Pool)
  /\ owned' = IF k.rc[curr] = "NO_ERR" /\ elem[curr] # NoBlock
              THEN [owned EXCEPT ![curr] = @ \cup {elem[curr]}] ELSE owned
  /\ elem' = [elem EXCEPT ![curr] = NoBlock]
  /\ UNCHANGED << free_list, fblkcnt >>

kern_fmem_delete == DeletionStep(Pool, TRUE) /\ UNCHANGED fmvars

FmemNext(timeouts) ==
  \/ Enter(Pool) /\ UNCHANGED fmvars
  \/ \E timeout \in timeouts : kern_fmem_get(timeout)
  \/ kern_fmem_get_polling
  \/ kern_fmem_get_ipolling
  \/ \E b \in Block : kern_fmem_release(b) \/ kern_fmem_irelease(b)
  \/ FmemWaited
  \/ kern_fmem_delete
-----------------------------------------------------------------------------
(* Properties *)

FmemTypeOK ==
  /\ free_list \in Seq(Block) /\ fblkcnt \in 0..NumBlocks
  /\ elem \in [Task -> Block \cup {NoBlock}]
  /\ owned \in [Task \cup {Handlers} -> SUBSET Block]

\* Blocks that have been handed to a task whose kern_fmem_get has not returned yet.
Handed(t) == IF at[t] = [part |-> "waited", obj |-> Pool] /\ ~Waiting(k.state[t]) /\ k.rc[t] = "NO_ERR"
             THEN {elem[t]} ELSE {}

\* Every block has one place: the free list, a caller it was returned to, or a task it
\* was handed to; and fblkcnt counts the free ones. (A deletion reports success to the
\* suspended waiters, who return whatever data_elem is.)
BlocksConserved ==
  Undisturbed /\ ~Deleted(Pool) =>
    /\ Len(free_list) = fblkcnt
    /\ \A b \in Block :
             (IF b \in ToSet(free_list) THEN 1 ELSE 0)
             + Cardinality({o \in DOMAIN owned : b \in owned[o]})
             + Cardinality({t \in Task : b \in Handed(t)}) = 1

\* No block lies idle while a task waits for one.
NoBlockIdle == Undisturbed /\ fblkcnt > 0 => k.wq[Pool] = << >>
=============================================================================
