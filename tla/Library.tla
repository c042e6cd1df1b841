--------------------------------- MODULE Library ---------------------------------
(***************************************************************************)
(* The firmware's own library, one part at a time: its lists, its heap, an *)
(* exchange of long messages, and its calculations for one input each.     *)
(* Nothing passes from one part to another.                                *)
(***************************************************************************)
EXTENDS CanLists, CanFrames, KernHeap, KernPool, Crc8, BitTiming, Bignum

CONSTANTS
  Rates,     \* bit rates of the bus
  Bytes,     \* for the checksum
  MaxBytes,
  MaxDigits  \* of the numbers

VARIABLES part, input

libraryVars == << part, input, area, l, memory, held, job, call, peer, box, wire >>

Parts == {"lists", "heap", "frames", "rates", "pools", "sums", "numbers"}

Inputs(p) ==
  CASE p = "rates"   -> Rates
    [] p = "sums"    -> UNION {[1..n -> Bytes] : n \in 0..MaxBytes}
    [] p = "numbers" -> Digits(MaxDigits) \X Digits(MaxDigits)
    [] OTHER         -> {<< >>}

LibraryInit ==
  /\ part \in Parts /\ input \in Inputs(part)
  /\ Init /\ HeapInit /\ FramesInit /\ PoolInit
  /\ part # "frames" => job = CHOOSE j \in Jobs : TRUE
  /\ part # "pools" => area = CHOOSE a \in Areas : TRUE

LibraryNext ==
  \/ part = "lists" /\ ListsNext /\ UNCHANGED << part, input, heapVars, frameVars, area >>
  \/ part = "heap" /\ HeapNext /\ UNCHANGED << part, input, l, frameVars, area >>
  \/ part = "frames" /\ FramesNext /\ UNCHANGED << part, input, l, heapVars, area >>

LibrarySpec == LibraryInit /\ [][LibraryNext]_libraryVars
-----------------------------------------------------------------------------
(* The bit timing of a rate is one the node accepts and the comments in can0_set_speed ask for: *)
(* at least 2 quanta behind the sample point, as many as the jump width or more, and a sample   *)
(* close to the 60% it aims at; from 50 kbit/s upwards the rate is met within one percent.      *)
TimingFits ==
  part = "rates" =>
    LET t == Timing(input)
        tbaud == t.tseg1 + t.tseg2 + 1
    IN  /\ t.brp \in 1..64 /\ t.tseg1 \in 3..16 /\ t.tseg2 \in 2..8 /\ t.sjw \in 1..4
        /\ t.sjw <= t.tseg2
        /\ input >= 50000 => 100 * Distance(CanFrequency, input * t.brp * tbaud) <= CanFrequency
        /\ Distance(10000 * (1 + t.tseg1), SamplePoint * tbaud) <= 400 * tbaud

(* The checksum by table is that of the polynomial 0x1D, bit by bit, and a message may be given *)
(* in parts (Crc_CalculateCRC8).                                                                *)
Crc8Agrees ==
  part = "sums" =>
    /\ \A start \in Bytes, first \in BOOLEAN :
         Crc_CalculateCRC8(input, start, first)
           = CalculateCRC8(input, IF first THEN CRC8_START_VALUE ELSE start, CRC8_POLYNOMIAL) ^^ CRC8_XOR
    /\ \A n \in 0..Len(input) :
         LET head == Crc_CalculateCRC8(SubSeq(input, 1, n), 0, TRUE) ^^ CRC8_XOR
         IN  Crc_CalculateCRC8(SubSeq(input, n + 1, Len(input)), head, FALSE) = Crc_CalculateCRC8(input, 0, TRUE)

(* The functions on numbers of several digits compute what they are named for, carries, borrows *)
(* and the corrections of an estimated quotient digit included; the cube root only of numbers   *)
(* below half the range, where twice the estimate does not overflow (bignum.c).                 *)
BignumAgrees ==
  part = "numbers" =>
    LET u == input[1]  v == input[2]
        a == Val(u)    b == Val(v)
        range == Base^MaxDigits
        IsSum(s)      == Val(s.w) + s.k * range = a + b
        IsRest(s)     == Val(s.w) - s.k * range = a - b
        IsQuotient(d) == Val(d.q) = a \div b /\ Val(d.r) = a % b
        IsRoot(c, n)  == c^3 <= n /\ n < (c + 1)^3
    IN  /\ IsSum(mpAdd(u, v)) /\ IsRest(mpSubb(u, v))
        /\ Val(mpMultiply(u, v)) = a * b
        /\ \A n \in 0..DigitBits * MaxDigits : /\ Val(mpShiftLeft(u, n).a) = (a * 2^n) % range
                                          /\ Val(mpShiftRight(u, n).a) = a \div 2^n
        /\ b # 0 => IsQuotient(mpDivide(u, v)) /\ Val(mpModulo(u, v)) = a % b
        /\ mpCompare(u, v) = Sign(a, b) /\ mpShortCmp(u, v[1]) = Sign(a, v[1])
        /\ 2 * a < range => IsRoot(Val(mpCubeRoot(u)), a)
        /\ IsRoot(icbrt1(97 * a), 97 * a)
=============================================================================
