---------------------------------- MODULE KernPool ----------------------------------
(***************************************************************************)
(* kern_fmem_create of src/kern/kern_mem.c cuts an area of memory into the *)
(* blocks of a pool. It rounds the start of the area and the size of a     *)
(* block up to 16, and takes blocks away until the last one ends in the    *)
(* area. With fewer than 2 there is no pool, and none at the address 0     *)
(* (NULL). (KernFmem has the pool's calls.)                                *)
(*                                                                         *)
(* The code's sums wrap at 2^32, those here do not: an area is memory that *)
(* the caller has, of the 16 KB of RAM that begin at 16#20000000 (the      *)
(* linker's configuration), and rounding makes it at most four times as    *)
(* large.                                                                  *)
(***************************************************************************)
EXTENDS Integers, Sequences

CONSTANTS
  Starts,  \* of the areas for pools
  Sizes,   \* of their blocks
  Numbers  \* of blocks

ASSUME PoolAssumption == Starts \subseteq Nat /\ Sizes \subseteq Nat /\ Numbers \subseteq Nat

VARIABLE area  \* what a pool is created with: start, size and number

Areas    == Starts \X Sizes \X Numbers
PoolInit == area \in Areas

\* (Wrong: the size would be rounded down.)
AlignUp_Down(x) == x - (x % 16)

AlignUp(x) == x + ((16 - (x % 16)) % 16)

PoolStart(start) == AlignUp(start)
BlockSize(size)  == AlignUp(size)

ActualBlocks(start, size, num) ==
  LET end   == start + size * num
      fits(n) == PoolStart(start) + BlockSize(size) * n <= end
  IN  IF fits(num) THEN num
      ELSE CHOOSE n \in -num..num : fits(n) /\ ~fits(n + 1)

\* The addresses of the blocks, in the order of the free list.
kern_fmem_create(start, size, num) ==
  LET n == ActualBlocks(start, size, num)
  IN  IF start = 0 \/ num < 2 \/ size < 4 \/ n < 2 THEN << >>
      ELSE [i \in 1..n |-> PoolStart(start) + BlockSize(size) * (i - 1)]
-----------------------------------------------------------------------------
(* The blocks of a pool lie in the area that was given for it, one after another, each as large  *)
(* as was asked for, and as many as fit there after the rounding or as many as were asked for    *)
(* (kern_fmem_create).                                                                           *)
PoolFits(start, size, num) ==
  LET blocks == kern_fmem_create(start, size, num)
      n      == Len(blocks)
      end    == start + size * num
  IN  /\ \A i \in 1..n : /\ start <= blocks[i] /\ blocks[i] + size <= end /\ blocks[i] % 16 = 0
                         /\ i > 1 => blocks[i - 1] + size <= blocks[i]
      /\ n # 0 /\ n # num => blocks[n] + 2 * BlockSize(size) > end

(* So it is for every area, with blocks of every size and number (kern_fmem_create).             *)
PoolsFit == PoolFits(area[1], area[2], area[3])
=============================================================================
