-------------------------------- MODULE KernHeap --------------------------------
(***************************************************************************)
(* malloc and free of src/kern/kern.c. The heap is cut into pages; a bit   *)
(* per page says whether it is taken, and a table, with one entry for every*)
(* byte of the bitmap, gives the blocks. The table lies right behind the   *)
(* bitmap and begins with the size of its first block: a search that runs  *)
(* past the last page reads that size as more of the bitmap, and marks its *)
(* pages there. (The semaphore of these functions is taken only when       *)
(* debug_ready is set, which nothing does.)                                *)
(***************************************************************************)
EXTENDS Integers, FiniteSetsExt

CONSTANTS
  HeapBytes,  \* the bytes of the bitmap: 64, for DYNAMIC_MEMORY_SIZE = 0x2000
  Requests,   \* the sizes asked for, in bytes
  PastEnd,    \* whether a request may be one that only a search past the end meets
  MaxLost     \* bounds the pages a call that fails may find lost already

ASSUME HeapAssumption ==
  /\ HeapBytes \in Nat \ {0}
  /\ Requests \subseteq 1..144  \* up to nine pages: no search reads past the first size
  /\ PastEnd \in BOOLEAN
  /\ MaxLost \in Nat

MEMORY_PAGE_SIZE == 16

VARIABLES
  memory,  \* dynamic_memory_bitmap: the pages marked, and addr and size of each entry, in pages
  held     \* the blocks the callers have got and not given back

heapVars == << memory, held >>

NoAddr == -1  \* addr = 0
Entries == 0..HeapBytes-1
EndPage == 8 * HeapBytes

HeapInit ==
  /\ memory = [marked |-> {}, addr |-> [e \in Entries |-> NoAddr], size |-> [e \in Entries |-> 0]]
  /\ held = {}
-----------------------------------------------------------------------------
PagesOf(sz) == (sz + MEMORY_PAGE_SIZE - 1) \div MEMORY_PAGE_SIZE

\* The bits past the end are those of the first size.
BitsOf(n)    == {p \in EndPage..EndPage+23 : (n \div 2^(p - EndPage)) % 2 = 1}
NumberOf(ps) == MapThenSumSet(LAMBDA p : 2^(p - EndPage), ps)
Marked(m)    == m.marked \cup BitsOf(m.size[0])

Mark(m, ps) == [m EXCEPT !.marked  = @ \cup (ps \cap 0..EndPage-1),
                         !.size[0] = @ + NumberOf(ps \ 0..EndPage-1)]

\* (Wrong: the bits of the last byte would be cleared with its last page.)
Unmark_WholeBytes(m, ps) ==
  [m EXCEPT !.marked = @ \ UNION {8*(p \div 8)..8*(p \div 8)+7 : p \in ps}]

Unmark(m, ps) == [m EXCEPT !.marked = @ \ ps]

Pages(ptr, n) == ptr..ptr+n-1

\* get_mem_window_size(ptr, n) >= n
WindowFits(m, ptr, n) == Pages(ptr, n) \cap Marked(m) = {}

\* The page the search for n pages ends at: the first free page of the first byte that has
\* one with a window behind it. It is over when the last byte is full, and goes on past
\* the end when that byte has a free page.
FreeIn(m, byte) == 8*byte..8*byte+7 \ Marked(m)
SearchEnds(m, n) ==
  LET first(i) == Min(FreeIn(m, i))
      meets(i) == FreeIn(m, i) # {} /\ WindowFits(m, first(i), n)
      inside   == {i \in 0..HeapBytes-1 : meets(i)}
  IN  IF inside # {} THEN first(Min(inside))
      ELSE IF FreeIn(m, HeapBytes - 1) = {} THEN NoAddr
      ELSE first(Min({i \in HeapBytes..HeapBytes+2 : meets(i)}))

\* With every entry of the table in use the call fails, and the pages stay marked.
Enter_(m, ptr, n) ==
  LET unused == {e \in Entries : m.addr[e] = NoAddr}
  IN  IF unused = {} THEN [memory |-> m, gets |-> {}]
      ELSE LET e == Min(unused)
           IN  [memory |-> [m EXCEPT !.addr[e] = ptr, !.size[e] = n], gets |-> {<< ptr, n >>}]

Lost == memory.marked \ UNION {Pages(b[1], b[2]) : b \in held}

malloc(sz) ==
  LET n   == PagesOf(sz)
      ptr == SearchEnds(memory, n)
      r   == Enter_(Mark(memory, Pages(ptr, n)), ptr, n)
  IN  IF ptr = NoAddr THEN UNCHANGED heapVars
      ELSE /\ PastEnd \/ ptr + n <= EndPage
           /\ r.gets # {} \/ Cardinality(Lost) <= MaxLost
           /\ memory' = r.memory
           /\ held' = held \cup r.gets

free(block) ==
  LET e == Min({i \in Entries : memory.addr[i] = block[1]})
  IN  /\ memory' = Unmark([memory EXCEPT !.addr[e] = NoAddr], Pages(block[1], memory.size[e]))
      /\ held' = held \ {block}

get_free_mem(m) == MEMORY_PAGE_SIZE * (EndPage - Cardinality(m.marked))

\* The first block past the end is the last one considered: its owner writes on the table.
HeapNext ==
  /\ \A b \in held : b[1] + b[2] <= EndPage
  /\ \/ \E sz \in Requests : malloc(sz)
     \/ \E b \in held : free(b)
-----------------------------------------------------------------------------
(* The blocks that callers have are of different pages, all of them marked and named in the   *)
(* table, and what get_free_mem reports is not theirs: whatever they ask for and give back in *)
(* which order, as long as requests are met within the heap (malloc, free).                   *)
HeapConsistent ==
  /\ \A b, c \in held : b # c => Pages(b[1], b[2]) \cap Pages(c[1], c[2]) = {}
  /\ \A b \in held : /\ Pages(b[1], b[2]) \subseteq memory.marked
                     /\ \E e \in Entries : memory.addr[e] = b[1] /\ memory.size[e] = b[2]
  /\ get_free_mem(memory)
       <= MEMORY_PAGE_SIZE * (EndPage - MapThenSumSet(LAMBDA b : b[2], held))

(* kern_types.h:16 gives the heap 8 KB of the memory, "8KB dinamiskai dalinama atmintis": every
   block malloc returns lies in them. *)
BlocksInHeap == \A b \in held : b[1] + b[2] <= EndPage
=============================================================================
