----------------------------- MODULE LibraryProofs -----------------------------
(***************************************************************************)
(* The proofs about the parts of the library: the exchange of long         *)
(* messages, the heap, the cutting of an area into the blocks of a pool,   *)
(* and the lists, for messages, heaps, areas and lists of every size.      *)
(*                                                                         *)
(* The functions of can_lib.c do not look at the sequence number of a      *)
(* frame: they count bytes. The invariant relates what is left to count to *)
(* what the unit has sent, and says what the frame holds as long as the    *)
(* two agree; a frame that is lost in between keeps the count from ever    *)
(* coming to an end.                                                       *)
(*                                                                         *)
(* The heap keeps its pages in the bitmap and its blocks in the table. The *)
(* invariant relates both to the blocks that callers have: the entries in  *)
(* use are those of the blocks, one each, and the pages of the blocks are  *)
(* marked and are different ones.                                          *)
(*                                                                         *)
(* The doubly linked lists of kern_queue.c, and their copies in can.c and  *)
(* can_lib.c, implement lists. The invariant says of every list that its   *)
(* entries are linked in a circle through the head, forwards and           *)
(* backwards, and that no entry is in two lists; of the links of an entry  *)
(* that is in no list it says nothing. What the tests and the walks of the *)
(* copies find follows from it.                                            *)
(***************************************************************************)
EXTENDS CanLists, CanFrames, KernHeap, KernPool, FiniteSetTheorems, SequenceTheorems, TLAPS

\* A non-empty set of natural numbers has a least element.
LEMMA LeastNumber ==
  ASSUME NEW T \in SUBSET Nat, T # {}
  PROVE  \E x \in T : \A y \in T : x <= y
<1> DEFINE R == {ss \in Nat \X Nat : ss[1] < ss[2]}
<1>1. IsWellFoundedOn(R, Nat)
  BY NatLessThanWellFounded DEF OpToRel
<1>2. PICK x \in T : \A y \in T : ~(<<y, x>> \in R)
  <2> HIDE DEF R
  <2> QED BY <1>1, WFMin
<1>3. ASSUME NEW y \in T PROVE x <= y
  <2>1. SUFFICES ASSUME y < x PROVE FALSE
    OBVIOUS
  <2>2. <<y, x>> \in Nat \X Nat /\ <<y, x>>[1] < <<y, x>>[2]
    BY <2>1
  <2>3. <<y, x>> \in R
    BY <2>2
  <2> QED BY <1>2, <2>3
<1> QED BY <1>3

\* What holds of 0, and of each number up to n if of the one before it, holds of n.
LEMMA UpTo ==
  ASSUME NEW n \in Nat, NEW G, 0 \in G, \A i \in 1..n : i-1 \in G => i \in G
  PROVE  n \in G
<1> DEFINE T == {i \in 0..n : i \notin G}
<1>1. SUFFICES ASSUME T # {} PROVE FALSE
  OBVIOUS
<1>2. PICK m \in T : \A j \in T : m <= j
  <2>1. T \in SUBSET Nat
    OBVIOUS
  <2> HIDE DEF T
  <2> QED BY <1>1, <2>1, LeastNumber
<1>3. m \in 1..n /\ m-1 \in 0..n /\ m-1 \notin T
  BY <1>2
<1> QED BY <1>2, <1>3
-----------------------------------------------------------------------------
(* Long messages *)

FramesSpec == FramesInit /\ [][FramesNext]_frameVars

\* How many more consecutive frames it takes for the bytes that are left, and
\* how many have been counted.
Missing(left) == (left + PieceSize - 1) \div PieceSize
Counted       == LastPiece - Missing(call.left)

Announcement == [pci |-> 3, b1 |-> 127, b3 |-> 120, piece |-> -1]
Answer       == [pci |-> IF IsSingle THEN job.len ELSE FirstFrame,
                 b1 |-> IF IsSingle THEN 0 ELSE job.len, b3 |-> job.third, piece |-> 0]

\* The pieces up to the n-th, each in its place.
Pieces(n) == [at \in {PieceSize * k : k \in 0..n} |-> at \div PieceSize]

LargeEnough == job.size >= PieceSize * (LastPiece + 1)

VariablesOK ==
  /\ job = [does |-> job.does, format |-> job.format, len |-> job.len, third |-> job.third,
            size |-> job.size]
  /\ job.does \in {"recv", "send"} /\ job.format \in {"kwp", "bmw"}
  /\ job.len \in Lengths /\ job.third \in {0, 120} /\ job.size \in BuffSizes
  /\ call = [pc |-> call.pc, ret |-> call.ret, left |-> call.left, ptr |-> call.ptr,
             frame |-> call.frame, flc |-> call.flc, window |-> call.window, ack |-> call.ack]
  /\ call.pc \in {"first", "next", "flow", "done"} /\ call.left \in Nat /\ call.ptr \in Nat
  /\ call.ret \in {-1, 0, 1} /\ (call.ret # -1 => call.pc = "done")
  /\ peer = [does |-> peer.does, sent |-> peer.sent, credit |-> peer.credit,
             replaced |-> peer.replaced]
  /\ peer.does \in {"asked", "waits", "sends", "silent"} /\ peer.sent \in Nat

\* Before the first frame has been taken.
Begun ==
  /\ call.pc = "first"
  /\ peer.sent = 0 /\ peer.does \in {"asked", "waits", "silent"}
  /\ box \in {None, Announcement, Answer}
  /\ peer.does = "asked" => box \in {None, Announcement}
  /\ peer.does = "waits" => ~IsSingle

\* Between two consecutive frames. The unit has sent those that have been counted,
\* the one in the mailbox, and perhaps others that were replaced there.
InMailbox == IF box = None THEN 0 ELSE 1

Ongoing ==
  /\ call.pc = "next"
  /\ call.left > 0 /\ ~IsSingle /\ peer.does # "asked"
  /\ 0 <= Counted /\ Counted + InMailbox <= peer.sent /\ peer.sent <= LastPiece
  /\ peer.does \in {"waits", "sends"} => peer.sent < LastPiece
  /\ box # None => box.piece \in Nat
  /\ LargeEnough /\ peer.sent = Counted + InMailbox =>
       /\ call.ptr = PieceSize * (Counted + 1) /\ call.frame = Pieces(Counted)
       /\ box # None => box.piece = peer.sent

Receiving ==
  /\ call.pc # "done" => Begun \/ Ongoing
  /\ call.ret = 1 /\ LargeEnough => call.frame = Pieces(LastPiece)

\* The frames on the wire, from the first.
Numbered ==
  /\ Len(wire) >= 1 /\ wire[1].piece = 0
  /\ \A i \in 2..Len(wire) : wire[i] = [pci |-> Pci(i - 1), piece |-> i - 1]

Sending ==
  /\ wire \in Seq([pci : Int, piece : Int])
  /\ call.pc = "first" => wire = << >> /\ call.ack = Pci(1)
  /\ call.pc \in {"next", "flow"} => /\ Numbered
                                     /\ call.ptr = PieceSize * Len(wire) /\ call.ack = Pci(Len(wire))
                                     /\ Missing(call.left) + Len(wire) >= LastPiece + 1
  /\ call.pc = "next" => call.left > 0
  /\ call.ret = 1 => Numbered /\ Len(wire) >= LastPiece + 1

FramesInv ==
  /\ VariablesOK
  /\ job.does = "recv" => Receiving
  /\ job.does = "send" => Sending
-----------------------------------------------------------------------------
(* Lengths *)

\* A frame holds 7 bytes of a message or 6, the first of several one less; what is
\* left after the first takes LastPiece consecutive ones.
LEMMA LengthsFit ==
  ASSUME VariablesOK
  PROVE  /\ PieceSize \in {6, 7} /\ InFirst = PieceSize - 1
         /\ job.len \in 1..255 /\ job.size \in Nat
         /\ LastPiece \in Nat /\ Missing(0) = 0
         /\ IsSingle => LastPiece = 0
         /\ ~IsSingle => /\ job.len - InFirst \in Nat \ {0} /\ LastPiece >= 1
                        /\ Missing(job.len - InFirst) = LastPiece
<1>1. PieceSize \in {6, 7} /\ InFirst = PieceSize - 1
  BY DEF PieceSize, InFirst
<1>2. job.len \in 1..255 /\ job.size \in Nat
  BY FramesAssumption DEF VariablesOK
<1>3. LastPiece \in Nat /\ (IsSingle => LastPiece = 0)
  BY <1>1, <1>2 DEF LastPiece, IsSingle
<1>4. Missing(0) = 0
  BY <1>1 DEF Missing
<1>5. ASSUME ~IsSingle
      PROVE  /\ job.len - InFirst \in Nat \ {0} /\ LastPiece >= 1
             /\ Missing(job.len - InFirst) = LastPiece
  BY <1>1, <1>2, <1>5 DEF LastPiece, IsSingle, Missing
<1> QED BY <1>1, <1>2, <1>3, <1>4, <1>5

\* A frame more is a frame less to come.
LEMMA OneLessMissing ==
  ASSUME PieceSize \in {6, 7}, NEW left \in Nat, left > 0
  PROVE  /\ LeftAfter(left) \in Nat
         /\ Missing(left) \in Nat /\ Missing(left) >= 1
         /\ Missing(LeftAfter(left)) = Missing(left) - 1
         /\ LeftAfter(left) > 0 => Missing(LeftAfter(left)) >= 1
         /\ LeftAfter(left) = 0 => Missing(LeftAfter(left)) = 0
<1>1. CASE PieceSize = 6
  BY <1>1 DEF LeftAfter, Missing
<1>2. CASE PieceSize = 7
  BY <1>2 DEF LeftAfter, Missing
<1> QED BY <1>1, <1>2

\* The first piece alone, and one piece more in its place.
LEMMA FirstPiece ==
  ASSUME PieceSize \in {6, 7}
  PROVE  [at \in {0} |-> 0] = Pieces(0)
<1>1. {PieceSize * n : n \in 0..0} = {0}
  BY SMT
<1>2. 0 \div PieceSize = 0
  BY SMT
<1> QED BY <1>1, <1>2 DEF Pieces

LEMMA OnePieceMore ==
  ASSUME PieceSize \in {6, 7}, NEW n \in Nat, call.frame = Pieces(n),
         call.ptr = PieceSize * (n + 1)
  PROVE  Put(n + 1) = Pieces(n + 1)
<1> DEFINE S(m) == {PieceSize * i : i \in 0..m}
<1>1. S(n + 1) = S(n) \cup {PieceSize * (n + 1)}
  BY SMT
<1>2. (PieceSize * (n + 1)) \div PieceSize = n + 1
  BY SMT
<1>3. PieceSize * (n + 1) \notin S(n)
  BY SMT
<1>4. Put(n + 1) = [x \in S(n) \cup {PieceSize * (n + 1)} |->
                      IF x = PieceSize * (n + 1) THEN n + 1 ELSE x \div PieceSize]
  BY <1>3 DEF Put, Pieces
<1> QED BY <1>1, <1>2, <1>4 DEF Pieces
-----------------------------------------------------------------------------
(* The unit *)

\* What a step of the unit or of the task leaves alone.
LEMMA SameJob ==
  ASSUME job' = job
  PROVE  /\ PieceSize' = PieceSize /\ (IsSingle <=> IsSingle') /\ LastPiece' = LastPiece
         /\ (LargeEnough <=> LargeEnough')
         /\ Answer' = Answer /\ \A n : Pieces(n)' = Pieces(n) /\ Missing(n)' = Missing(n)
BY DEF PieceSize, IsSingle, LastPiece, LargeEnough, Answer, Pieces, Missing, InFirst

LEMMA SameCall ==
  ASSUME job' = job, call' = call
  PROVE  Counted' = Counted
BY SameJob DEF Counted

\* A step that leaves the task alone and keeps the mailbox in order.
LEMMA UnitKeeps ==
  ASSUME FramesInv, job' = job, call' = call, wire' = wire,
         peer' = [peer EXCEPT !.does = peer'.does, !.sent = peer'.sent, !.credit = peer'.credit,
                              !.replaced = peer'.replaced],
         peer'.does \in {"asked", "waits", "sends", "silent"}, peer'.sent \in Nat,
         job.does = "recv" => (Begun => Begun') /\ (Ongoing => Ongoing')
  PROVE  FramesInv'
<1>1. VariablesOK'
  BY DEF FramesInv, VariablesOK
<1>2. ASSUME job.does = "recv" PROVE Receiving'
  BY <1>2, SameJob DEF FramesInv, Receiving
<1>3. ASSUME job.does = "send" PROVE Sending'
  BY <1>3, SameJob DEF FramesInv, Sending, Numbered
<1> QED BY <1>1, <1>2, <1>3 DEF FramesInv

LEMMA AnnouncementComes ==
  ASSUME FramesInv, Announces, UNCHANGED << job, call, wire >>
  PROVE  FramesInv'
<1>1. box' = Announcement /\ job.does = "recv"
  BY DEF Announces, Comes, Announcement
<1>2. /\ peer' = [peer EXCEPT !.does = peer'.does, !.sent = peer'.sent, !.credit = peer'.credit,
                              !.replaced = peer'.replaced]
      /\ peer'.does = "asked" /\ peer.does = "asked" /\ peer'.sent = peer.sent /\ peer.sent \in Nat
  BY DEF Announces, Now, FramesInv, VariablesOK
<1>3. Begun => Begun'
  BY <1>1, <1>2 DEF Begun
<1>4. ~Ongoing
  BY <1>2 DEF Ongoing
<1> QED BY <1>2, <1>3, <1>4, UnitKeeps

LEMMA AnswerComes ==
  ASSUME FramesInv, Answers, UNCHANGED << job, call, wire >>
  PROVE  FramesInv'
<1>1. box' = Answer /\ job.does = "recv"
  BY DEF Answers, Comes, Answer
<1>2. /\ peer' = [peer EXCEPT !.does = peer'.does, !.sent = peer'.sent, !.credit = peer'.credit,
                              !.replaced = peer'.replaced]
      /\ peer'.does = (IF IsSingle THEN "silent" ELSE "waits")
      /\ peer.does = "asked" /\ peer'.sent = peer.sent /\ peer.sent \in Nat
  BY DEF Answers, Now, FramesInv, VariablesOK
<1>3. Begun => Begun'
  BY <1>1, <1>2, SameJob DEF Begun
<1>4. ~Ongoing
  BY <1>2 DEF Ongoing
<1> QED BY <1>2, <1>3, <1>4, UnitKeeps

\* The frame in the mailbox, if there is one, is replaced: one more has been sent
\* than will be counted.
LEMMA NextComes ==
  ASSUME FramesInv, SendsNext, UNCHANGED << job, call, wire >>
  PROVE  FramesInv'
<1> DEFINE i == peer.sent + 1
<1>1. box' = [pci |-> Pci(i), b1 |-> 0, b3 |-> 0, piece |-> i] /\ peer.does = "sends"
  BY DEF SendsNext, Comes
<1>2. /\ peer' = [peer EXCEPT !.does = peer'.does, !.sent = peer'.sent, !.credit = peer'.credit,
                              !.replaced = peer'.replaced]
      /\ peer'.does \in {"silent", "waits", "sends"}
      /\ (i = LastPiece => peer'.does = "silent")
      /\ peer'.sent = i /\ peer.sent \in Nat /\ i \in Nat
  BY <1>1 DEF SendsNext, Now, FramesInv, VariablesOK
<1>3. ~Begun
  BY <1>1 DEF Begun
<1>4. ASSUME Ongoing PROVE Ongoing'
  <2>1. LastPiece \in Nat /\ Counted' = Counted /\ LastPiece' = LastPiece
    BY LengthsFit, SameJob, SameCall DEF FramesInv
  <2>2. box' # None /\ InMailbox' = 1 /\ box'.piece = i /\ InMailbox \in {0, 1}
    BY <1>1, <1>2 DEF None, InMailbox
  <2>3. Counted \in Int
    <3>1. PieceSize \in {6, 7} /\ call.left \in Nat
      BY LengthsFit DEF FramesInv, VariablesOK
    <3>2. Missing(call.left) \in Int
      BY <3>1 DEF Missing
    <3> QED BY <2>1, <3>2 DEF Counted
  <2>4. 0 <= Counted' /\ Counted' + InMailbox' <= peer'.sent /\ peer'.sent <= LastPiece'
    BY <1>1, <1>2, <1>4, <2>1, <2>2, <2>3 DEF Ongoing
  <2>5. peer'.does \in {"waits", "sends"} => peer'.sent < LastPiece'
    BY <1>2, <2>1, <2>4
  <2>6. ASSUME LargeEnough', peer'.sent = Counted' + InMailbox'
        PROVE  /\ call'.ptr = PieceSize' * (Counted' + 1) /\ call'.frame = Pieces(Counted)'
               /\ (box' # None => box'.piece = peer'.sent)
    <3>1. peer.sent = Counted + InMailbox
      BY <1>2, <1>4, <2>1, <2>2, <2>3, <2>6 DEF Ongoing
    <3>2. call.ptr = PieceSize * (Counted + 1) /\ call.frame = Pieces(Counted)
      BY <1>4, <2>6, <3>1, SameJob DEF Ongoing
    <3> QED BY <1>2, <2>1, <2>2, <3>2, SameJob
  <2> QED BY <1>2, <1>4, <2>1, <2>2, <2>4, <2>5, <2>6, SameJob DEF Ongoing
<1>5. job.does = "recv" => (Begun => Begun') /\ (Ongoing => Ongoing')
  BY <1>3, <1>4
<1>6. peer'.does \in {"asked", "waits", "sends", "silent"} /\ peer'.sent \in Nat
  BY <1>2
<1> HIDE DEF i
<1> QED BY <1>2, <1>5, <1>6, UnitKeeps

LEMMA UnitPermits ==
  ASSUME FramesInv, Permits, UNCHANGED << job, call, wire >>
  PROVE  FramesInv'
<1>1. /\ peer' = [peer EXCEPT !.does = peer'.does, !.sent = peer'.sent, !.credit = peer'.credit,
                              !.replaced = peer'.replaced]
      /\ peer'.does \in {"asked", "waits", "sends", "silent"} /\ peer'.sent \in Nat
      /\ job.does = "send"
  BY DEF Permits, Now, FramesInv, VariablesOK
<1> QED BY <1>1, UnitKeeps

LEMMA UnitFallsSilent ==
  ASSUME FramesInv, peer' = [peer EXCEPT !.does = "silent"], UNCHANGED << job, call, box, wire >>
  PROVE  FramesInv'
<1>1. /\ peer' = [peer EXCEPT !.does = peer'.does, !.sent = peer'.sent, !.credit = peer'.credit,
                              !.replaced = peer'.replaced]
      /\ peer'.does = "silent" /\ peer'.sent = peer.sent /\ peer.sent \in Nat
  BY DEF FramesInv, VariablesOK
<1>2. Begun => Begun'
  BY <1>1, SameJob DEF Begun
<1>3. Ongoing => Ongoing'
  <2>1. InMailbox' = InMailbox
    BY DEF InMailbox
  <2> QED BY <1>1, <2>1, SameJob, SameCall DEF Ongoing
<1> QED BY <1>1, <1>2, <1>3, UnitKeeps

LEMMA PeerKeeps ==
  ASSUME FramesInv, Peer
  PROVE  FramesInv'
BY AnnouncementComes, AnswerComes, NextComes, UnitPermits, UnitFallsSilent DEF Peer
-----------------------------------------------------------------------------
(* A task that receives *)

\* The flow control frame may let the unit send, and changes nothing else of it.
LEMMA FlowChanges ==
  ASSUME SendsFlow, VariablesOK
  PROVE  /\ peer' = [peer EXCEPT !.does = peer'.does, !.sent = peer'.sent, !.credit = peer'.credit,
                                 !.replaced = peer'.replaced]
         /\ peer'.sent = peer.sent
         /\ peer'.does = peer.does \/ (peer.does = "waits" /\ peer'.does = "sends")
BY DEF SendsFlow, VariablesOK

\* The same for a step that sends one or sends none.
LEMMA TakingChangesUnit ==
  ASSUME VariablesOK, SendsFlow \/ peer' = peer
  PROVE  /\ peer' = [peer EXCEPT !.does = peer'.does, !.sent = peer'.sent, !.credit = peer'.credit,
                                 !.replaced = peer'.replaced]
         /\ peer'.sent = peer.sent /\ peer.sent \in Nat
         /\ peer'.does = peer.does \/ (peer.does = "waits" /\ peer'.does = "sends")
         /\ peer'.does \in {"asked", "waits", "sends", "silent"}
BY FlowChanges DEF VariablesOK

\* The record of the locals keeps its fields.
CallOK(c) ==
  /\ c = [pc |-> c.pc, ret |-> c.ret, left |-> c.left, ptr |-> c.ptr,
          frame |-> c.frame, flc |-> c.flc, window |-> c.window, ack |-> c.ack]
  /\ c.pc \in {"first", "next", "flow", "done"} /\ c.left \in Nat /\ c.ptr \in Nat
  /\ c.ret \in {-1, 0, 1} /\ (c.ret # -1 => c.pc = "done")

LEMMA TakingKeepsTypes ==
  ASSUME VariablesOK, SendsFlow \/ peer' = peer, job' = job, CallOK(call')
  PROVE  VariablesOK'
BY TakingChangesUnit DEF VariablesOK, CallOK

\* A first frame that is not an announcement is the answer itself.
LEMMA FirstTaken ==
  ASSUME FramesInv, job.does = "recv", job' = job, box' = None, box # None,
         call.pc = "first", TakesFirst(box)
  PROVE  FramesInv'
<1> USE DEF FramesInv
<1>1. VariablesOK /\ Begun /\ CallOK(call) /\ call.ret = -1
  BY DEF Receiving, Ongoing, VariablesOK, CallOK
<1>2. /\ PieceSize \in {6, 7} /\ InFirst = PieceSize - 1 /\ job.len \in 1..255 /\ LastPiece \in Nat
      /\ IsSingle => LastPiece = 0
      /\ ~IsSingle => /\ job.len - InFirst \in Nat \ {0} /\ LastPiece >= 1
                     /\ Missing(job.len - InFirst) = LastPiece
  BY <1>1, LengthsFit
<1>3. CASE Pending(box)
  <2>1. UNCHANGED << call, wire, peer >>
    BY <1>3 DEF TakesFirst
  <2>2. Begun'
    BY <1>1, <2>1, SameJob DEF Begun
  <2>3. VariablesOK'
    BY <1>1, <2>1, TakingKeepsTypes
  <2> QED BY <1>1, <2>1, <2>2, <2>3 DEF Receiving
<1>4. CASE ~Pending(box)
  <2>1. box = Answer
    BY <1>1, <1>4 DEF Begun, Pending, Announcement
  <2>2. CASE box.pci # FirstFrame
    <3>1. call' = [call EXCEPT !.pc = "done", !.ret = 1, !.frame = [n \in {0} |-> 0]] /\ UNCHANGED << wire, peer >>
      BY <1>4, <2>1, <2>2 DEF TakesFirst, Answer
    <3>2. IsSingle
      BY <2>1, <2>2 DEF Answer
    <3>3. CallOK(call') /\ call'.pc = "done" /\ call'.frame = [n \in {0} |-> 0]
      BY <1>1, <3>1 DEF CallOK
    <3>4. VariablesOK'
      BY <1>1, <3>1, <3>3, TakingKeepsTypes
    <3>5. call'.frame = Pieces(LastPiece)'
      BY <1>2, <3>2, <3>3, FirstPiece, SameJob
    <3> QED BY <3>3, <3>4, <3>5 DEF Receiving
  <2>3. CASE box.pci = FirstFrame
    <3>1. ~IsSingle /\ box.b1 = job.len /\ box.piece = 0
      BY <1>2, <2>1, <2>3 DEF Answer, IsSingle, FirstFrame
    <3> DEFINE left == job.len - InFirst
    <3>2. left \in Nat /\ left > 0 /\ Missing(left) = LastPiece /\ LastPiece >= 1
      BY <1>2, <3>1
    <3>3. /\ CallOK(call') /\ call'.pc = "next" /\ call'.left = left /\ call'.ptr = PieceSize
          /\ call'.frame = [n \in {0} |-> 0] /\ call'.ret = -1
      <4>1. PICK garbage \in {0, LastInSequence} :
              call' = [call EXCEPT !.pc = IF left > 0 THEN "next" ELSE "done",
                                   !.ret = IF left > 0 THEN @ ELSE 1,
                                   !.left = left, !.ptr = PieceSize, !.frame = [n \in {0} |-> 0],
                                   !.flc = garbage]
        BY <1>4, <2>3, <3>1 DEF TakesFirst
      <4> DEFINE fr == [n \in {0} |-> 0]
      <4> HIDE DEF left, fr
      <4>2. call' = [pc |-> "next", ret |-> -1, left |-> left, ptr |-> PieceSize, frame |-> fr,
                     flc |-> garbage, window |-> call.window, ack |-> call.ack]
        BY <1>1, <3>2, <4>1 DEF CallOK, fr
      <4>3. /\ CallOK(call') /\ call'.pc = "next" /\ call'.ret = -1 /\ call'.left = left
            /\ call'.ptr = PieceSize /\ call'.frame = fr
        BY <1>2, <3>2, <4>2 DEF CallOK
      <4> QED BY <4>3 DEF fr
    <3>4. SendsFlow \/ peer' = peer
      BY <1>4, <2>3 DEF TakesFirst
    <3> HIDE DEF left
    <3>6. VariablesOK'
      BY <1>1, <3>4, <3>3, TakingKeepsTypes
    <3>7. Counted' = 0 /\ InMailbox' = 0
      BY <1>2, <3>2, <3>3, SameJob DEF Counted, InMailbox
    <3>8. peer'.sent = 0 /\ peer'.does # "asked"
      <4>1. peer.does # "asked"
        BY <1>1, <2>1, <3>1 DEF Begun, Announcement, None, Answer
      <4> QED BY <1>1, <3>4, <4>1, TakingChangesUnit DEF Begun
    <3>9. call'.ptr = PieceSize' * (Counted' + 1) /\ call'.frame = Pieces(Counted)'
      BY <1>2, <3>3, <3>7, FirstPiece, SameJob
    <3>10. Ongoing'
      BY <1>2, <3>1, <3>2, <3>3, <3>7, <3>8, <3>9, SameJob DEF Ongoing
    <3> QED BY <3>3, <3>6, <3>10 DEF Receiving
  <2> QED BY <2>2, <2>3
<1> QED BY <1>3, <1>4

\* A consecutive frame, whatever becomes of flc: the frame is stored if the caller's
\* is large enough for all.
LEMMA NextTaken ==
  ASSUME FramesInv, job.does = "recv", job' = job, box' = None, box # None,
         call.pc = "next", NEW stored, NEW asks, TakesNext(stored, asks), CallOK(stored),
         stored.pc = "next", Fits => stored.frame = Put(box.piece) /\ stored.ptr = call.ptr + PieceSize
  PROVE  FramesInv'
<1> USE DEF FramesInv
<1>1. VariablesOK /\ Ongoing /\ call.left \in Nat /\ call.left > 0 /\ call.ret = -1
  BY DEF Receiving, Begun, Ongoing, VariablesOK
<1>2. PieceSize \in {6, 7} /\ LastPiece \in Nat /\ job.size \in Nat
  BY <1>1, LengthsFit
<1> DEFINE left == LeftAfter(call.left)
<1>3. /\ left \in Nat /\ Missing(call.left) \in Nat /\ Missing(call.left) >= 1
      /\ Missing(left) = Missing(call.left) - 1
      /\ (left = 0 => Missing(left) = 0)
  BY <1>1, <1>2, OneLessMissing
<1>4. /\ call' = [stored EXCEPT !.left = left, !.pc = IF left = 0 THEN "done" ELSE @,
                                !.ret = IF left = 0 THEN 1 ELSE @]
      /\ SendsFlow \/ peer' = peer
  BY DEF TakesNext
<1> HIDE DEF left
<1>5. /\ CallOK(call') /\ call'.left = left /\ call'.frame = stored.frame /\ call'.ptr = stored.ptr
      /\ IF left = 0 THEN call'.pc = "done" ELSE call'.pc = "next" /\ call'.ret = -1
  BY <1>3, <1>4 DEF CallOK
<1>6. VariablesOK'
  BY <1>1, <1>4, <1>5, TakingKeepsTypes
<1>7. /\ Counted \in Nat /\ Counted' = Counted + 1
      /\ Counted + 1 <= peer.sent /\ peer.sent <= LastPiece /\ InMailbox = 1 /\ InMailbox' = 0
  <2>1. InMailbox = 1 /\ InMailbox' = 0
    BY DEF InMailbox
  <2>2. Counted' = LastPiece - Missing(left)
    BY <1>5, SameJob DEF Counted
  <2> QED BY <1>1, <1>2, <1>3, <2>1, <2>2 DEF Ongoing, Counted
<1>8. /\ peer'.sent = peer.sent /\ peer.sent \in Nat /\ peer'.does # "asked"
      /\ peer'.does \in {"waits", "sends"} => peer'.sent < LastPiece
  BY <1>1, <1>4, TakingChangesUnit DEF Ongoing
<1>9. ASSUME LargeEnough, peer.sent = Counted + 1
      PROVE  call'.ptr = PieceSize * (Counted' + 1) /\ call'.frame = Pieces(Counted')
  <2>1. /\ call.ptr = PieceSize * (Counted + 1) /\ call.frame = Pieces(Counted)
        /\ box.piece = Counted + 1
    BY <1>1, <1>7, <1>9 DEF Ongoing
  <2>2. Fits
    BY <1>2, <1>7, <1>8, <1>9, <2>1 DEF Fits, LargeEnough
  <2>3. Put(box.piece) = Pieces(Counted + 1)
    BY <1>2, <1>7, <2>1, OnePieceMore
  <2>4. call.ptr + PieceSize = PieceSize * (Counted + 2)
    BY <1>2, <1>7, <2>1
  <2> QED BY <1>2, <1>5, <1>7, <2>2, <2>3, <2>4
<1>10. CASE left = 0
  <2>1. Counted' = LastPiece
    BY <1>2, <1>3, <1>5, <1>10, SameJob DEF Counted
  <2>2. peer.sent = Counted + 1 /\ Counted' = LastPiece
    BY <1>2, <1>7, <1>8, <2>1
  <2>3. LargeEnough' => call'.frame = Pieces(LastPiece)'
    BY <1>9, <2>2, SameJob
  <2> QED BY <1>5, <1>6, <1>10, <2>3 DEF Receiving
<1>11. CASE left # 0
  <2>1. LargeEnough' /\ peer'.sent = Counted' + InMailbox' =>
          /\ call'.ptr = PieceSize' * (Counted' + 1) /\ call'.frame = Pieces(Counted)'
    BY <1>7, <1>8, <1>9, SameJob
  <2>2. 0 <= Counted' /\ Counted' + InMailbox' <= peer'.sent /\ peer'.sent <= LastPiece'
    BY <1>7, <1>8, SameJob
  <2>3. call'.pc = "next" /\ call'.left > 0 /\ ~IsSingle' /\ box' = None
    BY <1>1, <1>3, <1>5, <1>11, SameJob DEF Ongoing
  <2>4. Ongoing'
    BY <1>8, <2>1, <2>2, <2>3, SameJob DEF Ongoing
  <2> QED BY <1>5, <1>6, <1>11, <2>4 DEF Receiving
<1> QED BY <1>10, <1>11

LEMMA ReceivesKeeps ==
  ASSUME FramesInv, call.pc # "done", job.does = "recv", Receives
  PROVE  FramesInv'
<1>1. VariablesOK /\ CallOK(call) /\ job' = job
  BY DEF FramesInv, VariablesOK, CallOK, Receives
<1>2. PieceSize \in {6, 7}
  BY <1>1, LengthsFit
<1>3. CASE can_kwp_recv_frame
  <2> DEFINE stored == [call EXCEPT !.frame = Put(box.piece), !.ptr = IF Fits THEN @ + PieceSize ELSE @]
  <2>1. box # None /\ box' = None
    BY <1>3 DEF can_kwp_recv_frame, Gets
  <2>2. \/ call.pc = "first" /\ TakesFirst(box)
        \/ call.pc = "next" /\ TakesNext(stored, FlowStatus = LastInSequence)
    BY <1>3 DEF can_kwp_recv_frame
  <2>3. ASSUME call.pc = "next"
        PROVE  /\ CallOK(stored) /\ stored.pc = "next"
               /\ Fits => stored.frame = Put(box.piece) /\ stored.ptr = call.ptr + PieceSize
    <3>1. CASE Fits
      <4> DEFINE frame == Put(box.piece)
                 ptr   == call.ptr + PieceSize
                 flc   == call.flc
      <4>1. stored = [pc |-> call.pc, ret |-> call.ret, left |-> call.left, ptr |-> ptr,
                      frame |-> frame, flc |-> flc, window |-> call.window, ack |-> call.ack]
        <5>1. (IF Fits THEN call.ptr + PieceSize ELSE call.ptr) = ptr
          BY <3>1, Zenon
        <5>2. stored = [call EXCEPT !.frame = frame, !.ptr = ptr]
          BY <5>1, Zenon
        <5> HIDE DEF stored
        <5> QED BY <1>1, <5>2 DEF CallOK
      <4>2. ptr \in Nat /\ call.pc = "next" /\ CallOK(call) /\ call.left \in Nat
            /\ call.ret \in {-1, 0, 1} /\ (call.ret # -1 => call.pc = "done")
        BY <1>1, <1>2, <2>3 DEF CallOK
      <4> HIDE DEF stored, frame, ptr, flc
      <4>3. /\ CallOK(stored) /\ stored.pc = call.pc /\ stored.ptr = ptr /\ stored.frame = frame
        BY <4>1, <4>2 DEF CallOK
      <4> QED BY <4>2, <4>3 DEF ptr, frame
    <3>2. CASE ~Fits
      <4>1. stored = [call EXCEPT !.frame = Put(box.piece), !.ptr = @]
        BY <3>2, Zenon
      <4> HIDE DEF stored
      <4> QED BY <1>1, <1>2, <2>3, <3>2, <4>1 DEF CallOK
    <3> QED BY <3>1, <3>2
  <2> HIDE DEF stored
  <2> QED BY <1>1, <2>1, <2>2, <2>3, FirstTaken, NextTaken
<1>4. CASE can_bmw_recv_frame
  <2> DEFINE stored == IF Fits THEN [call EXCEPT !.frame = Put(box.piece), !.ptr = @ + PieceSize, !.flc = box.pci]
                       ELSE call
  <2>1. box # None /\ box' = None
    BY <1>4 DEF can_bmw_recv_frame, Gets
  <2>2. \/ call.pc = "first" /\ TakesFirst(box)
        \/ call.pc = "next" /\ TakesNext(stored, stored.flc = LastInSequence)
    BY <1>4 DEF can_bmw_recv_frame
  <2>3. ASSUME call.pc = "next"
        PROVE  /\ CallOK(stored) /\ stored.pc = "next"
               /\ Fits => stored.frame = Put(box.piece) /\ stored.ptr = call.ptr + PieceSize
    <3>1. CASE Fits
      <4> DEFINE frame == Put(box.piece)
                 ptr   == call.ptr + PieceSize
                 flc   == box.pci
      <4>1. stored = [pc |-> call.pc, ret |-> call.ret, left |-> call.left, ptr |-> ptr,
                      frame |-> frame, flc |-> flc, window |-> call.window, ack |-> call.ack]
        BY <1>1, <3>1 DEF CallOK
      <4>2. ptr \in Nat /\ call.pc = "next" /\ CallOK(call) /\ call.left \in Nat
            /\ call.ret \in {-1, 0, 1} /\ (call.ret # -1 => call.pc = "done")
        BY <1>1, <1>2, <2>3 DEF CallOK
      <4> HIDE DEF stored, frame, ptr, flc
      <4>3. /\ CallOK(stored) /\ stored.pc = call.pc /\ stored.ptr = ptr /\ stored.frame = frame
        BY <4>1, <4>2 DEF CallOK
      <4> QED BY <4>2, <4>3 DEF ptr, frame
    <3>2. CASE ~Fits
      <4>1. stored = call
        BY <3>2, Zenon
      <4> HIDE DEF stored
      <4> QED BY <1>1, <1>2, <2>3, <3>2, <4>1 DEF CallOK
    <3> QED BY <3>1, <3>2
  <2> HIDE DEF stored
  <2> QED BY <1>1, <2>1, <2>2, <2>3, FirstTaken, NextTaken
<1>5. CASE Return(0) /\ UNCHANGED << wire, peer >>
  <2>1. CallOK(call') /\ call'.pc = "done" /\ call'.ret = 0
    BY <1>1, <1>5 DEF Return, CallOK
  <2>2. VariablesOK'
    BY <1>1, <1>5, <2>1, TakingKeepsTypes
  <2> QED BY <1>1, <2>1, <2>2 DEF FramesInv, Receiving
<1> QED BY <1>3, <1>4, <1>5 DEF Receives
-----------------------------------------------------------------------------
(* A task that sends *)

LEMMA SendingKeepsTypes ==
  ASSUME VariablesOK, job' = job, peer' = peer, CallOK(call')
  PROVE  VariablesOK'
BY DEF VariablesOK, CallOK

\* The first frame of several leaves at least what the last pieces hold: the length
\* by which the second format counts is one more.
LEMMA FirstSent ==
  ASSUME FramesInv, job.does = "send", job' = job, peer' = peer, call.pc = "first",
         NEW single \in BOOLEAN, NEW left \in Int, SendsFirst(single, left),
         single => IsSingle, ~single => left >= job.len - InFirst /\ left > 0
  PROVE  FramesInv'
<1>1. /\ VariablesOK /\ CallOK(call) /\ call.ret = -1 /\ wire = << >> /\ call.ack = Pci(1)
  BY DEF FramesInv, Sending, VariablesOK, CallOK
<1>2. /\ PieceSize \in {6, 7} /\ InFirst = PieceSize - 1 /\ job.len \in 1..255 /\ LastPiece \in Nat
      /\ IsSingle => LastPiece = 0
      /\ ~IsSingle => job.len - InFirst \in Nat \ {0} /\ Missing(job.len - InFirst) = LastPiece
  BY <1>1, LengthsFit
<1> DEFINE pci == IF single THEN job.len ELSE FirstFrame
<1> DEFINE f == [pci |-> pci, piece |-> 0]
<1>3. pci \in Int /\ wire' = Append(<< >>, f)
  <2>1. pci \in Int
    BY <1>2 DEF FirstFrame
  <2>2. wire' = Append(wire, f)
    BY Zenon DEF SendsFirst, SendsPiece, can_send_single
  <2> QED BY <1>1, <2>1, <2>2
<1> HIDE DEF pci
<1>4. wire' \in Seq([pci : Int, piece : Int]) /\ Len(wire') = 1 /\ wire'[1].piece = 0
  <2>1. f \in [pci : Int, piece : Int] /\ f.piece = 0
    BY <1>3
  <2> HIDE DEF f
  <2> QED BY <1>3, <2>1
<1>5. Numbered'
  BY <1>4 DEF Numbered
<1>6. CASE single
  <2>1. call' = [call EXCEPT !.pc = "done", !.ret = 1]
    BY <1>6 DEF SendsFirst
  <2>2. CallOK(call') /\ call'.pc = "done"
    BY <1>1, <2>1 DEF CallOK
  <2>3. VariablesOK'
    BY <1>1, <2>2, SendingKeepsTypes
  <2> QED BY <1>2, <1>4, <1>5, <1>6, <2>2, <2>3, SameJob DEF FramesInv, Sending
<1>7. CASE ~single
  <2>1. call' = [call EXCEPT !.pc = "flow", !.left = left, !.ptr = PieceSize]
    BY <1>7 DEF SendsFirst
  <2>2. /\ CallOK(call') /\ call'.pc = "flow" /\ call'.left = left /\ call'.ptr = PieceSize
        /\ call'.ret = -1 /\ call'.ack = Pci(1)
    <3>1. call' = [pc |-> "flow", ret |-> -1, left |-> left, ptr |-> PieceSize, frame |-> call.frame,
                   flc |-> call.flc, window |-> call.window, ack |-> call.ack]
      BY <1>1, <2>1 DEF CallOK
    <3>2. left \in Nat /\ PieceSize \in Nat
      BY <1>2, <1>7
    <3> QED BY <1>1, <3>1, <3>2 DEF CallOK
  <2>3. VariablesOK'
    BY <1>1, <2>2, SendingKeepsTypes
  <2>4. Missing(left) \in Nat /\ Missing(left) >= LastPiece
    <3>1. Missing(left) \in Nat
      BY <1>2, <1>7 DEF Missing
    <3>2. CASE IsSingle
      BY <1>2, <3>1, <3>2
    <3>3. CASE ~IsSingle
      BY <1>2, <1>7, <3>1, <3>3 DEF Missing
    <3> QED BY <3>1, <3>2, <3>3
  <2> QED BY <1>2, <1>4, <1>5, <2>2, <2>3, <2>4, SameJob DEF FramesInv, Sending
<1> QED BY <1>6, <1>7

\* The numbers go from 0x2F back to 0x20.
LEMMA NextInSequence ==
  ASSUME NEW n \in Nat
  PROVE  (IF Pci(n) = LastInSequence THEN 32 ELSE Pci(n) + 1) = Pci(n + 1)
BY DEF LastInSequence, Pci

LEMMA NextSent ==
  ASSUME FramesInv, job.does = "send", job' = job, peer' = peer, call.pc = "next", SendsConsecutive
  PROVE  FramesInv'
<1>1. /\ VariablesOK /\ CallOK(call) /\ call.ret = -1 /\ call.left \in Nat /\ call.left > 0
      /\ wire \in Seq([pci : Int, piece : Int]) /\ Numbered
      /\ call.ptr = PieceSize * Len(wire) /\ call.ack = Pci(Len(wire))
      /\ Missing(call.left) + Len(wire) >= LastPiece + 1
  BY DEF FramesInv, Sending, VariablesOK, CallOK
<1>2. PieceSize \in {6, 7} /\ LastPiece \in Nat
  BY <1>1, LengthsFit
<1> DEFINE left == LeftAfter(call.left)
           n    == Len(wire)
<1>3. /\ left \in Nat /\ Missing(call.left) \in Nat /\ Missing(left) = Missing(call.left) - 1
      /\ (left = 0 => Missing(left) = 0)
  BY <1>1, <1>2, OneLessMissing
<1>4. n \in Nat /\ n >= 1
  BY <1>1 DEF Numbered
<1>5. call.ptr \div PieceSize = n
  BY <1>1, <1>2, <1>4
<1>6. wire' = Append(wire, [pci |-> Pci(n), piece |-> n])
  BY <1>1, <1>5 DEF SendsConsecutive, SendsPiece, can_send_single
<1>7. /\ wire' \in Seq([pci : Int, piece : Int]) /\ Len(wire') = n + 1
      /\ \A i \in 1..n : wire'[i] = wire[i]
      /\ wire'[n + 1] = [pci |-> Pci(n), piece |-> n]
  BY <1>1, <1>4, <1>6 DEF Pci
<1>8. Numbered'
  <2>1. wire'[1].piece = 0 /\ Len(wire') >= 1
    <3>1. 1 \in 1..n
      BY <1>4
    <3>2. wire'[1] = wire[1] /\ n + 1 >= 1
      BY <1>4, <1>7, <3>1
    <3> HIDE DEF n
    <3> QED BY <1>1, <1>7, <3>2 DEF Numbered
  <2>2. ASSUME NEW i \in 2..Len(wire')
        PROVE  wire'[i] = [pci |-> Pci(i - 1), piece |-> i - 1]
    <3>1. CASE i \in 2..n
      BY <1>1, <1>4, <1>7, <3>1 DEF Numbered
    <3>2. CASE i = n + 1
      <4>1. i - 1 = n
        BY <1>4, <3>2
      <4> HIDE DEF n
      <4> QED BY <1>7, <3>2, <4>1
    <3> QED BY <1>4, <1>7, <3>1, <3>2
  <2> QED BY <2>1, <2>2 DEF Numbered, Pci
<1>9. (IF call.ack = LastInSequence THEN 32 ELSE call.ack + 1) = Pci(n + 1)
  <2> HIDE DEF n
  <2>1. call.ack = Pci(n)
    BY <1>1 DEF n
  <2> QED BY <1>4, <2>1, NextInSequence
<1> DEFINE done == left = 0 /\ call.window # 1
<1>10. call' = [call EXCEPT !.ptr = call.ptr + PieceSize, !.ack = Pci(n + 1),
                            !.window = @ - 1, !.left = left, !.ret = IF done THEN 1 ELSE @,
                            !.pc = IF call.window = 1 THEN "flow" ELSE IF done THEN "done" ELSE @]
  BY <1>9 DEF SendsConsecutive
<1> HIDE DEF left, n
<1>11. /\ CallOK(call') /\ call'.left = left /\ call'.ptr = call.ptr + PieceSize
       /\ call'.ack = Pci(n + 1)
       /\ IF done THEN call'.pc = "done" ELSE call'.pc \in {"flow", "next"} /\ call'.ret = -1
       /\ call'.pc = "next" => left # 0
  <2>1. call.pc = "next" /\ call.ret = -1 /\ call.ptr + PieceSize \in Nat
    BY <1>1, <1>2 DEF CallOK
  <2> DEFINE pc  == IF call.window = 1 THEN "flow" ELSE IF done THEN "done" ELSE "next"
             ret == IF done THEN 1 ELSE -1
  <2>2. call' = [call EXCEPT !.ptr = call.ptr + PieceSize, !.ack = Pci(n + 1),
                             !.window = @ - 1, !.left = left, !.ret = ret, !.pc = pc]
    BY <1>10, <2>1
  <2>3. /\ pc \in {"flow", "done", "next"} /\ ret \in {-1, 1} /\ (ret # -1 => pc = "done")
        /\ (done => pc = "done") /\ (~done => pc # "done" /\ ret = -1) /\ (pc = "next" => left # 0)
    OBVIOUS
  <2> HIDE DEF pc, ret, done
  <2>4. call' = [pc |-> pc, ret |-> ret, left |-> left, ptr |-> call.ptr + PieceSize,
                 frame |-> call.frame, flc |-> call.flc, window |-> call.window - 1, ack |-> Pci(n + 1)]
    BY <1>1, <2>2 DEF CallOK
  <2> QED BY <1>3, <2>1, <2>3, <2>4 DEF CallOK
<1>12. VariablesOK'
  BY <1>1, <1>11, SendingKeepsTypes
<1>13. call'.ptr = PieceSize * Len(wire')
  BY <1>1, <1>2, <1>4, <1>7, <1>11 DEF n
<1>14. Missing(left) + Len(wire') >= LastPiece + 1
  BY <1>1, <1>2, <1>3, <1>4, <1>7 DEF n
<1>15. done => Len(wire') >= LastPiece + 1
  BY <1>2, <1>3, <1>4, <1>7, <1>14
<1>16. Sending'
  <2>1. call'.pc # "first" /\ (call'.pc = "next" => call'.left > 0)
    BY <1>3, <1>11
  <2>2. call'.pc \in {"next", "flow"} => Missing(call.left)' + Len(wire') >= LastPiece' + 1
    BY <1>11, <1>14, SameJob
  <2>3. call'.ret = 1 => Len(wire') >= LastPiece' + 1
    BY <1>11, <1>15, SameJob
  <2> QED BY <1>7, <1>8, <1>11, <1>13, <2>1, <2>2, <2>3, SameJob DEF Sending
<1> QED BY <1>12, <1>16 DEF FramesInv

LEMMA FlowAwaited ==
  ASSUME FramesInv, job.does = "send", job' = job, peer' = peer, wire' = wire, call.pc = "flow",
         AwaitsFlow
  PROVE  FramesInv'
<1>1. /\ VariablesOK /\ CallOK(call) /\ call.ret = -1 /\ call.left \in Nat
      /\ wire \in Seq([pci : Int, piece : Int]) /\ Numbered
      /\ call.ptr = PieceSize * Len(wire) /\ call.ack = Pci(Len(wire))
      /\ Missing(call.left) + Len(wire) >= LastPiece + 1
  BY DEF FramesInv, Sending, VariablesOK, CallOK
<1>2. PieceSize \in {6, 7} /\ LastPiece \in Nat /\ Missing(0) = 0 /\ Len(wire) \in Nat
  BY <1>1, LengthsFit
<1>3. CASE Return(0)
  <2>1. CallOK(call') /\ call'.pc = "done" /\ call'.ret = 0
    BY <1>1, <1>3 DEF Return, CallOK
  <2>2. VariablesOK'
    BY <1>1, <2>1, SendingKeepsTypes
  <2> QED BY <1>1, <2>1, <2>2 DEF FramesInv, Sending
<1>4. ASSUME NEW w \in {1, FlowBlock},
             call' = [call EXCEPT !.window = w, !.pc = IF call.left > 0 THEN "next" ELSE "done",
                                  !.ret = IF call.left > 0 THEN @ ELSE 1]
      PROVE  FramesInv'
  <2>1. /\ CallOK(call') /\ call'.left = call.left /\ call'.ptr = call.ptr /\ call'.ack = call.ack
        /\ IF call.left > 0 THEN call'.pc = "next" /\ call'.ret = -1 ELSE call'.pc = "done"
    BY <1>1, <1>4 DEF CallOK
  <2>2. VariablesOK'
    BY <1>1, <2>1, SendingKeepsTypes
  <2>3. Numbered'
    BY <1>1 DEF Numbered
  <2>4. call.left = 0 => Len(wire) >= LastPiece + 1
    BY <1>1, <1>2
  <2> QED BY <1>1, <2>1, <2>2, <2>3, <2>4, SameJob DEF FramesInv, Sending
<1> QED BY <1>3, <1>4 DEF AwaitsFlow

LEMMA TransmitsKeeps ==
  ASSUME FramesInv, call.pc # "done", job.does = "send", Transmits
  PROVE  FramesInv'
<1>1. job' = job /\ peer' = peer /\ VariablesOK
  BY DEF Transmits, FramesInv
<1>2. job.len \in 1..255
  BY <1>1, LengthsFit
<1>3. ASSUME job.format = "kwp", call.pc = "first", SendsFirst(job.len < 7, job.len - 6) PROVE FramesInv'
  <2>1. /\ (job.len < 7) \in BOOLEAN /\ job.len - 6 \in Int /\ (job.len < 7 => IsSingle)
        /\ ~(job.len < 7) => job.len - 6 >= job.len - InFirst /\ job.len - 6 > 0
    BY <1>2, <1>3 DEF IsSingle, InFirst, PieceSize
  <2> QED BY <1>1, <1>3, <2>1, FirstSent
<1>4. ASSUME job.format = "bmw", call.pc = "first", SendsFirst(job.len < 5, job.len - 4) PROVE FramesInv'
  <2>1. /\ (job.len < 5) \in BOOLEAN /\ job.len - 4 \in Int /\ (job.len < 5 => IsSingle)
        /\ ~(job.len < 5) => job.len - 4 >= job.len - InFirst /\ job.len - 4 > 0
    BY <1>2, <1>4 DEF IsSingle, InFirst, PieceSize
  <2> QED BY <1>1, <1>4, <2>1, FirstSent
<1>5. ASSUME call.pc = "next", SendsConsecutive PROVE FramesInv'
  BY <1>1, <1>5, NextSent
<1>6. ASSUME call.pc = "flow", AwaitsFlow, wire' = wire PROVE FramesInv'
  BY <1>1, <1>6, FlowAwaited
<1> QED BY <1>3, <1>4, <1>5, <1>6 DEF Transmits, can_kwp_send_frame, can_bmw_send_frame, Sends
-----------------------------------------------------------------------------
(* Every exchange *)

LEMMA FramesInitHolds == FramesInit => FramesInv
<1> SUFFICES ASSUME FramesInit PROVE FramesInv
  OBVIOUS
<1>1. VariablesOK
  BY DEF FramesInit, VariablesOK, Jobs
<1>2. Begun /\ call.ret = -1
  BY DEF FramesInit, Begun
<1>3. wire = << >> /\ call.ack = Pci(1) /\ call.pc = "first"
  BY DEF FramesInit
<1> QED BY <1>1, <1>2, <1>3 DEF FramesInv, Receiving, Sending

LEMMA FramesNextKeeps == FramesInv /\ FramesNext => FramesInv'
BY PeerKeeps, ReceivesKeeps, TransmitsKeeps DEF FramesNext

LEMMA FramesStutterKeeps == FramesInv /\ UNCHANGED frameVars => FramesInv'
<1> SUFFICES ASSUME FramesInv, UNCHANGED frameVars PROVE FramesInv'
  OBVIOUS
<1>1. job' = job /\ call' = call /\ peer' = peer /\ box' = box /\ wire' = wire
  BY DEF frameVars
<1> QED BY <1>1, SameJob, SameCall
        DEF FramesInv, VariablesOK, Receiving, Begun, Ongoing, InMailbox, Sending, Numbered

LEMMA FramesInvariantHolds == FramesSpec => []FramesInv
<1>1. FramesInv /\ [FramesNext]_frameVars => FramesInv'
  BY FramesNextKeeps, FramesStutterKeeps
<1> QED BY <1>1, FramesInitHolds, PTL DEF FramesSpec

\* A message whose pieces are all in order is what FrameComplete asks for.
LEMMA FramesInvImplies == FramesInv => FrameComplete
<1> SUFFICES ASSUME FramesInv, call.ret = 1
             PROVE  IF job.does = "recv"
                    THEN LargeEnough
                           => call.frame = [at \in {PieceSize * n : n \in 0..LastPiece} |-> at \div PieceSize]
                    ELSE /\ wire[1].piece = 0
                         /\ Tail(wire) = Consecutive(Len(wire) - 1) /\ Len(wire) >= LastPiece + 1
  BY DEF FrameComplete, LargeEnough
<1>1. CASE job.does = "recv"
  BY <1>1 DEF FramesInv, Receiving, Pieces
<1>2. CASE job.does # "recv"
  <2>1. /\ wire \in Seq([pci : Int, piece : Int]) /\ Numbered /\ Len(wire) >= LastPiece + 1
    BY <1>2 DEF FramesInv, VariablesOK, Sending
  <2>2. Len(wire) \in Nat /\ Len(wire) >= 1
    BY <2>1 DEF Numbered
  <2> DEFINE F == [pci : Int, piece : Int]
             n == Len(wire) - 1
  <2>3. Tail(wire) \in Seq(F) /\ Len(Tail(wire)) = n /\ \A i \in 1..n : Tail(wire)[i] = wire[i + 1]
    BY <2>1, <2>2, wire # << >>, HeadTailProperties
  <2>4. Consecutive(n) \in Seq(F) /\ Len(Consecutive(n)) = n
    BY <2>2 DEF Consecutive, Pci
  <2>5. \A i \in 1..n : wire[i + 1] = Consecutive(n)[i]
    BY <2>1, <2>2 DEF Numbered, Consecutive
  <2>6. Tail(wire) = Consecutive(n)
    <3> HIDE DEF F, n
    <3> QED BY <2>3, <2>4, <2>5, SeqEqual
  <2> QED BY <1>2, <2>1, <2>6 DEF Numbered
<1> QED BY <1>1, <1>2

(* A receive function that returns 1 has the whole message in its frame, if the frame is large    *)
(* enough, and a send function that returns 1 has sent all the pieces in order: for messages and  *)
(* frames of every length, and however often a frame is replaced in the mailbox, an answer is     *)
(* announced late or the unit falls silent (can_kwp_recv_frame, can_bmw_recv_frame,               *)
(* can_kwp_send_frame, can_bmw_send_frame).                                                       *)
THEOREM MessagesComplete == FramesSpec => []FrameComplete
BY FramesInvariantHolds, FramesInvImplies, PTL
-----------------------------------------------------------------------------
(* The heap *)

\* The least of a set of natural numbers is one of them.
LEMMA MinIsMember ==
  ASSUME NEW T \in SUBSET Nat, T # {}
  PROVE  Min(T) \in T /\ \A y \in T : Min(T) <= y
BY LeastNumber DEF Min

\* The sizes of blocks of different pages add up to the number of their pages.
LEMMA SizesAdd ==
  ASSUME NEW S, IsFiniteSet(S), NEW ps, IsFiniteSet(ps),
         \A b \in S : b[1] \in Int /\ b[2] \in Nat /\ Pages(b[1], b[2]) \subseteq ps,
         \A b, c \in S : b # c => Pages(b[1], b[2]) \cap Pages(c[1], c[2]) = {}
  PROVE  MapThenSumSet(LAMBDA b : b[2], S) = Cardinality(UNION {Pages(b[1], b[2]) : b \in S})
<1> DEFINE Whole(s) == UNION {Pages(b[1], b[2]) : b \in s}
           One(s) == CHOOSE x \in s : TRUE
           Adds(f) == f = [s \in SUBSET S |-> IF s = {} THEN 0 ELSE One(s)[2] + f[s \ {One(s)}]]
           F == [s \in SUBSET S |-> Cardinality(Whole(s))]
           f == CHOOSE g : Adds(g)
<1>1. ASSUME NEW s \in SUBSET S
      PROVE  IsFiniteSet(Whole(s)) /\ Cardinality(Whole(s)) \in Nat
  <2>1. Whole(s) \in SUBSET ps
    OBVIOUS
  <2> HIDE DEF Whole
  <2> QED BY <2>1, FS_Subset, FS_CardinalityType
<1>2. ASSUME NEW s \in SUBSET S, NEW x \in s
      PROVE  Cardinality(Whole(s)) = x[2] + Cardinality(Whole(s \ {x}))
  <2>1. /\ Whole(s) = Pages(x[1], x[2]) \cup Whole(s \ {x})
        /\ Pages(x[1], x[2]) \cap Whole(s \ {x}) = {}
    OBVIOUS
  <2>2. PICK a, n : a = x[1] /\ n = x[2] /\ a \in Int /\ n \in Nat
    OBVIOUS
  <2>3. IsFiniteSet(Pages(a, n)) /\ Cardinality(Pages(a, n)) = n
    <3>1. a \in Int /\ a + n - 1 \in Int
      BY <2>2
    <3>2. /\ IsFiniteSet(a..(a+n-1))
          /\ Cardinality(a..(a+n-1)) = IF a > a+n-1 THEN 0 ELSE (a+n-1) - a + 1
      BY <3>1, FS_Interval
    <3>3. (IF a > a+n-1 THEN 0 ELSE (a+n-1) - a + 1) = n
      BY <2>2
    <3> QED BY <3>2, <3>3 DEF Pages
  <2>4. IsFiniteSet(Whole(s \ {x})) /\ Cardinality(Whole(s \ {x})) \in Nat
    <3>1. s \ {x} \in SUBSET S
      OBVIOUS
    <3> HIDE DEF Whole
    <3> QED BY <3>1, <1>1
  <2> HIDE DEF Whole
  <2>5. PICK w : w = Whole(s \ {x})
    OBVIOUS
  <2>6. Cardinality(Pages(a, n) \cup w)
          = Cardinality(Pages(a, n)) + Cardinality(w) - Cardinality(Pages(a, n) \cap w)
    BY <2>3, <2>4, <2>5, FS_Union
  <2>7. Pages(a, n) \cap w = {} /\ Cardinality({}) = 0
    BY <2>1, <2>2, <2>5, FS_EmptySet
  <2>8. Cardinality(w) \in Nat
    BY <2>4, <2>5
  <2>9. Cardinality(Pages(a, n) \cup w) = n + Cardinality(w)
    <3>1. Cardinality(Pages(a, n) \cap w) = 0
      BY <2>7
    <3> QED BY <2>2, <2>3, <2>6, <2>8, <3>1
  <2> QED BY <2>1, <2>2, <2>5, <2>9
<1> HIDE DEF Whole
<1>3. Adds(F)
  <2> SUFFICES ASSUME NEW s \in SUBSET S
               PROVE  F[s] = IF s = {} THEN 0 ELSE One(s)[2] + F[s \ {One(s)}]
    OBVIOUS
  <2>1. CASE s = {}
    <3>1. Whole(s) = {}
      BY <2>1 DEF Whole
    <3> QED BY <2>1, <3>1, FS_EmptySet
  <2>2. CASE s # {}
    <3>1. One(s) \in s
      BY <2>2
    <3> HIDE DEF One
    <3>2. s \ {One(s)} \in SUBSET S
      OBVIOUS
    <3>3. F[s] = Cardinality(Whole(s)) /\ F[s \ {One(s)}] = Cardinality(Whole(s \ {One(s)}))
      BY <3>2
    <3> QED BY <1>2, <2>2, <3>1, <3>3
  <2> QED BY <2>1, <2>2
<1>4. Adds(f)
  <2> HIDE DEF Adds, F
  <2> QED BY <1>3
<1>5. MapThenSumSet(LAMBDA b : b[2], S) = f[S]
  BY DEF MapThenSumSet, MapThenFoldSet
<1> HIDE DEF f
<1>6. \A s \in SUBSET S : f[s] = IF s = {} THEN 0 ELSE One(s)[2] + f[s \ {One(s)}]
  BY <1>4
<1>7. \A s \in SUBSET S : F[s] = IF s = {} THEN 0 ELSE One(s)[2] + F[s \ {One(s)}]
  BY <1>3
<1> HIDE DEF F, Adds
<1> DEFINE G == {k \in Nat : \A s \in SUBSET S : Cardinality(s) = k => f[s] = F[s]}
<1>8. \A s \in SUBSET S : IsFiniteSet(s) /\ Cardinality(s) \in Nat
  BY FS_Subset, FS_CardinalityType
<1>9. 0 \in G
  <2> SUFFICES ASSUME NEW s \in SUBSET S, Cardinality(s) = 0
               PROVE  f[s] = F[s]
    OBVIOUS
  <2>1. s = {}
    BY <1>8, FS_EmptySet
  <2> QED BY <2>1, <1>6, <1>7
<1>10. ASSUME NEW k \in 1..Cardinality(S), k-1 \in G
       PROVE  k \in G
  <2> SUFFICES ASSUME NEW s \in SUBSET S, Cardinality(s) = k
               PROVE  f[s] = F[s]
    BY k \in Nat
  <2>1. s # {}
    BY FS_EmptySet
  <2>2. One(s) \in s
    BY <2>1
  <2> HIDE DEF One
  <2>3. s \ {One(s)} \in SUBSET S /\ Cardinality(s \ {One(s)}) = k - 1
    BY <1>8, <2>2, FS_RemoveElement
  <2>4. f[s \ {One(s)}] = F[s \ {One(s)}]
    BY <1>10, <2>3
  <2> QED BY <1>6, <1>7, <2>1, <2>4
<1> HIDE DEF G
<1>11. Cardinality(S) \in Nat
  BY FS_CardinalityType
<1>12. Cardinality(S) \in G
  BY <1>9, <1>10, <1>11, UpTo
<1>13. f[S] = F[S]
  BY <1>12 DEF G
<1> QED BY <1>5, <1>13 DEF F, Whole

HeapSpec == HeapInit /\ [][HeapNext]_heapVars

\* At most nine pages are asked for at once.
MaxPages == 9

Blocks == {<< ptr, n >> : ptr \in 0..EndPage-1, n \in 1..MaxPages}

HeapTypeOK ==
  /\ memory = [marked |-> memory.marked, addr |-> memory.addr, size |-> memory.size]
  /\ memory.marked \subseteq 0..EndPage-1
  /\ memory.addr \in [Entries -> {NoAddr} \cup 0..EndPage-1]
  /\ memory.size \in [Entries -> 0..MaxPages]
  /\ held \subseteq Blocks /\ IsFiniteSet(held)

\* The entries in use name the blocks that are held, each block in one entry.
EntriesNameBlocks ==
  /\ \A b \in held : \E e \in Entries : memory.addr[e] = b[1] /\ memory.size[e] = b[2]
  /\ \A e \in Entries : memory.addr[e] # NoAddr => << memory.addr[e], memory.size[e] >> \in held
  /\ \A e, f \in Entries : memory.addr[e] = memory.addr[f] /\ e # f => memory.addr[e] = NoAddr

BlocksMarked == \A b \in held : Pages(b[1], b[2]) \subseteq memory.marked
BlocksApart  == \A b, c \in held : b # c => Pages(b[1], b[2]) \cap Pages(c[1], c[2]) = {}

HeapInv == HeapTypeOK /\ EntriesNameBlocks /\ BlocksMarked /\ BlocksApart

\* No request is for more than nine pages, or for none.
LEMMA RequestsFit == ASSUME NEW sz \in Requests PROVE PagesOf(sz) \in 1..MaxPages
BY HeapAssumption DEF PagesOf, MEMORY_PAGE_SIZE, MaxPages

\* A mark within the heap changes no size.
LEMMA NoPagesNoNumber == NumberOf({}) = 0
<1> DEFINE One(s) == CHOOSE x \in s : TRUE
           Adds(f) == f = [s \in SUBSET {} |-> IF s = {} THEN 0 ELSE 2^(One(s) - EndPage) + f[s \ {One(s)}]]
           f == CHOOSE g : Adds(g)
<1>1. Adds([s \in SUBSET {} |-> 0])
  OBVIOUS
<1>2. Adds(f)
  <2> HIDE DEF Adds
  <2> QED BY <1>1
<1>3. NumberOf({}) = f[{}]
  BY DEF NumberOf, MapThenSumSet, MapThenFoldSet
<1> HIDE DEF f
<1> QED BY <1>2, <1>3

\* A number of at most nine has no bit behind the first sixteen.
LEMMA NoSuchBit == ASSUME NEW n \in 0..9, NEW d, d \in 16..23 PROVE n \div 2^d = 0
<1> DEFINE Weights == {65536, 131072, 262144, 524288, 1048576, 2097152, 4194304, 8388608}
<1>1. \A w \in Weights : n \div w = 0
  OBVIOUS
<1>2. 2^d \in Weights
  <2>1. CASE d = 16
    <3>1. 2^d = 65536
      BY <2>1
    <3> QED BY <3>1
  <2>2. CASE d = 17
    <3>1. 2^d = 131072
      BY <2>2
    <3> QED BY <3>1
  <2>3. CASE d = 18
    <3>1. 2^d = 262144
      BY <2>3
    <3> QED BY <3>1
  <2>4. CASE d = 19
    <3>1. 2^d = 524288
      BY <2>4
    <3> QED BY <3>1
  <2>5. CASE d = 20
    <3>1. 2^d = 1048576
      BY <2>5
    <3> QED BY <3>1
  <2>6. CASE d = 21
    <3>1. 2^d = 2097152
      BY <2>6
    <3> QED BY <3>1
  <2>7. CASE d = 22
    <3>1. 2^d = 4194304
      BY <2>7
    <3> QED BY <3>1
  <2>8. CASE d = 23
    <3>1. 2^d = 8388608
      BY <2>8
    <3> QED BY <3>1
  <2> QED BY <2>1, <2>2, <2>3, <2>4, <2>5, <2>6, <2>7, <2>8
<1> HIDE DEF Weights
<1> QED BY <1>1, <1>2, Zenon

\* The third byte past the end is free: the first size is of nine pages or less.
LEMMA ThirdByteFree ==
  ASSUME NEW m, m.marked \subseteq 0..EndPage-1, m.size[0] \in 0..MaxPages
  PROVE  FreeIn(m, HeapBytes + 2) = EndPage+16..EndPage+23
<1>1. HeapBytes \in Nat \ {0} /\ EndPage = 8 * HeapBytes
  BY HeapAssumption DEF EndPage
<1>2. PICK n : n = m.size[0] /\ n \in 0..9
  BY DEF MaxPages
<1>3. ASSUME NEW p \in EndPage+16..EndPage+23
      PROVE  p \notin Marked(m)
  <2>1. p - EndPage \in 16..23
    BY <1>1
  <2>2. n \div 2^(p - EndPage) = 0
    BY <1>2, <2>1, NoSuchBit, Zenon
  <2>3. (n \div 2^(p - EndPage)) % 2 = 0
    BY <2>2
  <2>4. p \notin m.marked
    BY <1>1
  <2> QED BY <1>2, <2>3, <2>4 DEF Marked, BitsOf
<1>4. 8*(HeapBytes+2)..8*(HeapBytes+2)+7 = EndPage+16..EndPage+23
  BY <1>1
<1> QED BY <1>3, <1>4 DEF FreeIn

\* A search that finds pages ends inside the heap, or at a page past its end.
LEMMA SearchMeets ==
  ASSUME HeapTypeOK, NEW n \in 1..MaxPages,
         NEW ptr, ptr = SearchEnds(memory, n), ptr # NoAddr
  PROVE  /\ ptr \in Nat
         /\ ptr < EndPage => Pages(ptr, n) \cap memory.marked = {}
<1> DEFINE m == memory
           first(i) == Min(FreeIn(m, i))
           meets(i) == FreeIn(m, i) # {} /\ WindowFits(m, first(i), n)
           inside   == {i \in 0..HeapBytes-1 : meets(i)}
           behind   == {i \in HeapBytes..HeapBytes+2 : meets(i)}
<1>1. HeapBytes \in Nat \ {0} /\ EndPage = 8 * HeapBytes /\ 0 \in Entries
  BY HeapAssumption DEF EndPage, Entries
<1>2. m.marked \subseteq 0..EndPage-1 /\ m.size[0] \in 0..MaxPages
  BY <1>1 DEF HeapTypeOK
<1>3. ASSUME NEW i \in Nat, FreeIn(m, i) # {}
      PROVE  first(i) \in 8*i..8*i+7 /\ first(i) \in Nat
  <2>1. FreeIn(m, i) \in SUBSET Nat /\ FreeIn(m, i) \subseteq 8*i..8*i+7
    BY DEF FreeIn
  <2>2. Min(FreeIn(m, i)) \in FreeIn(m, i)
    BY <1>3, <2>1, MinIsMember
  <2> QED BY <2>1, <2>2
<1>4. HeapBytes + 2 \in behind
  <2>1. FreeIn(m, HeapBytes + 2) = EndPage+16..EndPage+23
    BY <1>2, ThirdByteFree
  <2>2. first(HeapBytes + 2) = EndPage + 16
    <3>1. EndPage + 16 \in EndPage+16..EndPage+23
      BY <1>1
    <3>2. \A y \in EndPage+16..EndPage+23 : EndPage + 16 <= y
      BY <1>1
    <3>3. EndPage+16..EndPage+23 \in SUBSET Nat /\ EndPage+16..EndPage+23 # {}
      BY <1>1
    <3>4. PICK x : x = Min(EndPage+16..EndPage+23)
      OBVIOUS
    <3>5. x \in EndPage+16..EndPage+23 /\ \A y \in EndPage+16..EndPage+23 : x <= y
      BY <3>3, <3>4, MinIsMember
    <3>6. x = EndPage + 16
      BY <1>1, <3>1, <3>5
    <3> QED BY <2>1, <3>4, <3>6
  <2>3. WindowFits(m, EndPage + 16, n)
    <3>1. ASSUME NEW p \in Pages(EndPage + 16, n)
          PROVE  p \notin Marked(m)
      <4>1. p \in EndPage+16..EndPage+24
        BY <1>1 DEF Pages, MaxPages
      <4>2. p \notin m.marked
        BY <1>1, <1>2, <4>1
      <4>3. CASE p = EndPage + 24
        <5>1. p \notin EndPage..EndPage+23
          BY <1>1, <4>3
        <5> QED BY <4>2, <5>1 DEF Marked, BitsOf
      <4>4. CASE p # EndPage + 24
        <5>1. p \in EndPage+16..EndPage+23
          BY <1>1, <4>1, <4>4
        <5>2. p \in FreeIn(m, HeapBytes + 2)
          BY <2>1, <5>1
        <5> QED BY <5>2 DEF FreeIn
      <4> QED BY <4>3, <4>4
    <3> QED BY <3>1 DEF WindowFits
  <2>4. HeapBytes + 2 \in HeapBytes..HeapBytes+2 /\ EndPage + 16 \in EndPage+16..EndPage+23
    BY <1>1
  <2>5. FreeIn(m, HeapBytes + 2) # {} /\ WindowFits(m, first(HeapBytes + 2), n)
    BY <2>1, <2>2, <2>3, <2>4
  <2> QED BY <2>4, <2>5
<1>5. ptr = IF inside # {} THEN first(Min(inside))
            ELSE IF FreeIn(m, HeapBytes - 1) = {} THEN NoAddr
            ELSE first(Min(behind))
  BY DEF SearchEnds
<1>6. CASE inside # {}
  <2>1. inside \in SUBSET Nat
    BY <1>1
  <2>2. Min(inside) \in inside
    <3> HIDE DEF inside
    <3> QED BY <1>6, <2>1, MinIsMember
  <2>3. PICK i : i = Min(inside) /\ i \in 0..HeapBytes-1 /\ meets(i)
    BY <2>2
  <2>4. ptr = first(i)
    <3> HIDE DEF inside, first
    <3> QED BY <1>5, <1>6, <2>3
  <2>5. ptr \in Nat
    <3>1. i \in Nat /\ FreeIn(m, i) # {}
      BY <2>3
    <3> HIDE DEF inside, first
    <3>2. first(i) \in Nat
      BY <1>3, <3>1
    <3> QED BY <2>4, <3>2, Zenon
  <2>6. Pages(ptr, n) \cap memory.marked = {}
    BY <2>3, <2>4 DEF WindowFits, Marked
  <2> QED BY <2>5, <2>6
<1>7. CASE inside = {}
  <2>1. behind \in SUBSET Nat /\ behind # {}
    BY <1>1, <1>4
  <2>2. Min(behind) \in behind
    <3> HIDE DEF behind
    <3> QED BY <2>1, MinIsMember
  <2>3. PICK i : i = Min(behind) /\ i \in HeapBytes..HeapBytes+2 /\ meets(i)
    BY <2>2
  <2>4. ptr = first(i)
    <3> HIDE DEF inside, first, behind
    <3> QED BY <1>5, <1>7, <2>3
  <2>5. ptr \in Nat /\ ptr >= EndPage
    <3>1. i \in Nat
      BY <1>1, <2>3
    <3>2. ptr \in 8*i..8*i+7
      BY <1>3, <2>3, <2>4, <3>1
    <3> HIDE DEF inside, first, behind, meets
    <3> QED BY <1>1, <2>3, <3>1, <3>2
  <2>6. ~(ptr < EndPage)
    BY <1>1, <2>5
  <2> QED BY <2>5, <2>6
<1> QED BY <1>6, <1>7

\* malloc, as long as the request is met within the heap.
LEMMA MallocKeeps ==
  ASSUME HeapInv, NEW sz \in Requests, malloc(sz), PastEnd = FALSE
  PROVE  HeapInv'
<1> DEFINE n   == PagesOf(sz)
           ptr == SearchEnds(memory, n)
           ps  == Pages(ptr, n)
           m   == Mark(memory, ps)
<1>1. n \in 1..MaxPages
  BY RequestsFit
<1>2. HeapBytes \in Nat \ {0} /\ EndPage = 8 * HeapBytes /\ 0 \in Entries /\ MaxPages = 9
  BY HeapAssumption DEF EndPage, Entries, MaxPages
<1> HIDE DEF n
<1>3. CASE ptr = NoAddr
  <2>1. UNCHANGED heapVars
    BY <1>3 DEF malloc, n
  <2> QED BY <2>1 DEF heapVars, HeapInv, HeapTypeOK, EntriesNameBlocks, BlocksMarked, BlocksApart
<1>4. CASE ptr # NoAddr
  <2> DEFINE r == Enter_(m, ptr, n)
  <2>1. ptr + n <= EndPage /\ memory' = r.memory /\ held' = held \cup r.gets
    BY <1>4 DEF malloc, n
  <2>2. ptr \in Nat /\ (ptr < EndPage => ps \cap memory.marked = {})
    <3>1. HeapTypeOK
      BY DEF HeapInv
    <3> HIDE DEF ptr
    <3>2. \A x : x = ptr => x \in Nat /\ (x < EndPage => Pages(x, n) \cap memory.marked = {})
      BY <1>1, <1>4, <3>1, SearchMeets DEF ptr
    <3> QED BY <3>2
  <2> HIDE DEF ptr
  <2>3. ptr \in 0..EndPage-1 /\ ps \cap memory.marked = {} /\ ps \subseteq 0..EndPage-1
    BY <1>1, <1>2, <2>1, <2>2 DEF Pages
  <2>4. PICK addr, size, marked : /\ memory = [marked |-> marked, addr |-> addr, size |-> size]
                                  /\ marked \subseteq 0..EndPage-1
                                  /\ addr \in [Entries -> {NoAddr} \cup 0..EndPage-1]
                                  /\ size \in [Entries -> 0..MaxPages]
    BY DEF HeapInv, HeapTypeOK
  <2>5. m = [marked |-> marked \cup ps, addr |-> addr, size |-> size]
    <3>1. ps \ (0..EndPage-1) = {} /\ ps \cap 0..EndPage-1 = ps
      BY <2>3
    <3>2. size[0] + 0 = size[0] /\ [size EXCEPT ![0] = size[0]] = size
      BY <1>2, <2>4
    <3> HIDE DEF ps
    <3>3. NumberOf(ps \ (0..EndPage-1)) = 0
      BY <3>1, NoPagesNoNumber
    <3>4. m = [memory EXCEPT !.marked = memory.marked \cup ps, !.size[0] = memory.size[0] + 0]
      BY <3>1, <3>3 DEF Mark
    <3> HIDE DEF m
    <3> QED BY <2>4, <3>2, <3>4
  <2>6. ptr # NoAddr /\ (\A b \in held : b[1] # ptr) /\ \A b \in held : Pages(b[1], b[2]) \cap ps = {}
    <3>1. \A b \in held : Pages(b[1], b[2]) \cap ps = {}
      BY <2>3 DEF HeapInv, BlocksMarked
    <3>2. \A b \in held : b[1] \in Pages(b[1], b[2])
      BY <1>2 DEF HeapInv, HeapTypeOK, Blocks, Pages
    <3>3. ptr \in ps
      BY <1>1, <1>2, <2>3 DEF Pages
    <3> QED BY <1>4, <3>1, <3>2, <3>3
  <2>7. /\ \A b \in held : \E e \in Entries : addr[e] = b[1] /\ size[e] = b[2]
        /\ \A e \in Entries : addr[e] # NoAddr => << addr[e], size[e] >> \in held
        /\ \A e, f \in Entries : addr[e] = addr[f] /\ e # f => addr[e] = NoAddr
    BY <2>4 DEF HeapInv, EntriesNameBlocks
  <2>8. held \subseteq Blocks /\ IsFiniteSet(held)
    BY DEF HeapInv, HeapTypeOK
  <2>9. (\A b \in held : Pages(b[1], b[2]) \subseteq marked) /\ BlocksApart
    BY <2>4 DEF HeapInv, BlocksMarked
  <2> HIDE DEF ps, m
  <2>10. CASE {e \in Entries : m.addr[e] = NoAddr} = {}
    <3>1. r.memory = m /\ r.gets = {}
      BY <2>10 DEF Enter_
    <3>2. memory' = [marked |-> marked \cup ps, addr |-> addr, size |-> size] /\ held' = held
      BY <2>1, <2>5, <3>1
    <3>3. HeapTypeOK'
      BY <2>3, <2>4, <2>8, <3>2 DEF HeapTypeOK
    <3>4. EntriesNameBlocks'
      BY <2>7, <3>2 DEF EntriesNameBlocks
    <3>5. BlocksMarked' /\ BlocksApart'
      BY <2>9, <3>2 DEF BlocksMarked, BlocksApart
    <3> QED BY <3>3, <3>4, <3>5 DEF HeapInv
  <2>11. CASE {e \in Entries : m.addr[e] = NoAddr} # {}
    <3> DEFINE unused == {e \in Entries : m.addr[e] = NoAddr}
    <3>1. Min(unused) \in unused
      <4>1. unused \in SUBSET Nat
        BY <1>2 DEF Entries
      <4> HIDE DEF unused
      <4> QED BY <2>11, <4>1, MinIsMember DEF unused
    <3>2. PICK e : e = Min(unused) /\ e \in Entries /\ addr[e] = NoAddr
      BY <2>5, <3>1
    <3>3. /\ r.memory = [m EXCEPT !.addr[e] = ptr, !.size[e] = n]
          /\ r.gets = {<< ptr, n >>}
      BY <2>11, <3>2 DEF Enter_
    <3> HIDE DEF unused
    <3>4. PICK a, s : a = [addr EXCEPT ![e] = ptr] /\ s = [size EXCEPT ![e] = n]
      OBVIOUS
    <3>5. memory' = [marked |-> marked \cup ps, addr |-> a, size |-> s]
      BY <2>1, <2>5, <3>3, <3>4
    <3>6. held' = held \cup {<< ptr, n >>}
      BY <2>1, <3>3
    <3>7. /\ a \in [Entries -> {NoAddr} \cup 0..EndPage-1] /\ s \in [Entries -> 0..MaxPages]
          /\ a[e] = ptr /\ s[e] = n
          /\ \A i \in Entries \ {e} : a[i] = addr[i] /\ s[i] = size[i]
      BY <1>1, <2>3, <2>4, <3>2, <3>4
    <3>8. << ptr, n >> \in Blocks
      BY <1>1, <2>3 DEF Blocks
    <3>9. IsFiniteSet(held')
      BY <2>8, <3>6, FS_AddElement
    <3>10. HeapTypeOK'
      BY <2>3, <2>4, <2>8, <3>5, <3>6, <3>7, <3>8, <3>9 DEF HeapTypeOK
    <3>11. EntriesNameBlocks'
      <4>1. ASSUME NEW b \in held'
            PROVE  \E i \in Entries : a[i] = b[1] /\ s[i] = b[2]
        <5>1. CASE b = << ptr, n >>
          BY <3>2, <3>7, <5>1
        <5>2. CASE b \in held
          <6>1. PICK i \in Entries : addr[i] = b[1] /\ size[i] = b[2]
            BY <2>7, <5>2
          <6>2. b[1] # NoAddr
            BY <2>8, <5>2 DEF Blocks, NoAddr
          <6> QED BY <3>2, <3>7, <6>1, <6>2
        <5> QED BY <3>6, <5>1, <5>2
      <4>2. ASSUME NEW i \in Entries, a[i] # NoAddr
            PROVE  << a[i], s[i] >> \in held'
        BY <2>7, <3>6, <3>7, <4>2
      <4>3. ASSUME NEW i \in Entries, NEW j \in Entries, a[i] = a[j], i # j
            PROVE  a[i] = NoAddr
        <5>1. \A x \in Entries \ {e} : a[x] # ptr
          <6>1. \A x \in Entries : addr[x] # ptr
            <7> SUFFICES ASSUME NEW x \in Entries, addr[x] = ptr PROVE FALSE
              OBVIOUS
            <7>1. << addr[x], size[x] >> \in held
              BY <2>6, <2>7
            <7> QED BY <2>6, <7>1
          <6> QED BY <3>7, <6>1
        <5> QED BY <2>7, <3>7, <4>3, <5>1
      <4>4. memory.addr' = a /\ memory.size' = s
        BY <3>5
      <4> QED BY <4>1, <4>2, <4>3, <4>4 DEF EntriesNameBlocks
    <3>12. BlocksMarked'
      <4>1. \A b \in held' : Pages(b[1], b[2]) \subseteq marked \cup ps
        BY <2>9, <3>6 DEF ps
      <4>2. memory.marked' = marked \cup ps
        BY <3>5
      <4> QED BY <4>1, <4>2 DEF BlocksMarked
    <3>13. BlocksApart'
      <4>1. \A b \in held' : b \notin held => Pages(b[1], b[2]) = ps
        BY <3>6 DEF ps
      <4>2. \A b, c \in held' : b # c => b \in held \/ c \in held
        BY <3>6
      <4>3. ASSUME NEW b \in held', NEW c \in held', b # c
            PROVE  Pages(b[1], b[2]) \cap Pages(c[1], c[2]) = {}
        <5>1. CASE b \in held /\ c \in held
          BY <2>9, <4>3, <5>1 DEF BlocksApart
        <5>2. CASE b \in held /\ c \notin held
          <6>1. Pages(c[1], c[2]) = ps
            BY <4>1, <5>2
          <6> QED BY <2>6, <5>2, <6>1
        <5>3. CASE b \notin held
          <6>1. Pages(b[1], b[2]) = ps /\ c \in held
            BY <4>1, <4>2, <4>3, <5>3
          <6> QED BY <2>6, <6>1
        <5> QED BY <5>1, <5>2, <5>3
      <4> QED BY <4>3 DEF BlocksApart
    <3> QED BY <3>10, <3>11, <3>12, <3>13 DEF HeapInv
  <2> QED BY <2>10, <2>11
<1> QED BY <1>3, <1>4

\* free, of a block that is held.
LEMMA FreeKeeps ==
  ASSUME HeapInv, NEW block \in held, free(block)
  PROVE  HeapInv'
<1> DEFINE named == {i \in Entries : memory.addr[i] = block[1]}
<1>1. PICK addr, size, marked : /\ memory = [marked |-> marked, addr |-> addr, size |-> size]
                                /\ marked \subseteq 0..EndPage-1
                                /\ addr \in [Entries -> {NoAddr} \cup 0..EndPage-1]
                                /\ size \in [Entries -> 0..MaxPages]
  BY DEF HeapInv, HeapTypeOK
<1>2. /\ \A b \in held : \E e \in Entries : addr[e] = b[1] /\ size[e] = b[2]
      /\ \A e \in Entries : addr[e] # NoAddr => << addr[e], size[e] >> \in held
      /\ \A e, f \in Entries : addr[e] = addr[f] /\ e # f => addr[e] = NoAddr
  BY <1>1 DEF HeapInv, EntriesNameBlocks
<1>3. held \subseteq Blocks /\ IsFiniteSet(held) /\ BlocksApart
  BY DEF HeapInv, HeapTypeOK
<1>4. \A b \in held : Pages(b[1], b[2]) \subseteq marked
  BY <1>1 DEF HeapInv, BlocksMarked
<1>5. block[1] # NoAddr /\ block = << block[1], block[2] >>
  BY <1>3 DEF Blocks, NoAddr
<1>6. PICK e \in Entries : addr[e] = block[1] /\ size[e] = block[2]
  BY <1>2
<1>7. Min(named) = e
  <2>1. named \in SUBSET Nat /\ e \in named
    BY <1>1, <1>6, HeapAssumption DEF Entries
  <2>2. \A i \in named : i = e
    BY <1>1, <1>2, <1>5, <1>6
  <2> HIDE DEF named
  <2> QED BY <2>1, <2>2, MinIsMember
<1>8. /\ memory' = Unmark([memory EXCEPT !.addr[e] = NoAddr], Pages(block[1], memory.size[e]))
      /\ held' = held \ {block}
  BY <1>7 DEF free
<1>9. PICK a, ps : a = [addr EXCEPT ![e] = NoAddr] /\ ps = Pages(block[1], block[2])
  OBVIOUS
<1>10. memory' = [marked |-> marked \ ps, addr |-> a, size |-> size]
  BY <1>1, <1>6, <1>8, <1>9 DEF Unmark
<1>11. /\ a \in [Entries -> {NoAddr} \cup 0..EndPage-1]
       /\ a[e] = NoAddr
       /\ \A i \in Entries \ {e} : a[i] = addr[i]
  BY <1>1, <1>6, <1>9
<1>12. HeapTypeOK'
  <2>1. IsFiniteSet(held')
    BY <1>3, <1>8, FS_RemoveElement
  <2> QED BY <1>1, <1>3, <1>8, <1>10, <1>11, <2>1 DEF HeapTypeOK
<1>13. \A b \in held' : b \in held /\ b[1] # block[1] /\ Pages(b[1], b[2]) \cap ps = {}
  <2> SUFFICES ASSUME NEW b \in held'
               PROVE  b \in held /\ b[1] # block[1] /\ Pages(b[1], b[2]) \cap ps = {}
    OBVIOUS
  <2>1. b \in held /\ b # block
    BY <1>8
  <2>2. Pages(b[1], b[2]) \cap ps = {}
    BY <1>3, <1>9, <2>1 DEF BlocksApart
  <2>3. b[1] \in Pages(b[1], b[2]) /\ block[1] \in ps
    <3>1. \A c \in held : c[1] \in Int /\ c[2] \in Nat \ {0}
      BY <1>3, HeapAssumption DEF Blocks, MaxPages, EndPage
    <3> QED BY <1>9, <2>1, <3>1 DEF Pages
  <2> QED BY <2>1, <2>2, <2>3
<1>14. EntriesNameBlocks'
  <2>1. ASSUME NEW b \in held'
        PROVE  \E i \in Entries : a[i] = b[1] /\ size[i] = b[2]
    BY <1>2, <1>6, <1>11, <1>13
  <2>2. ASSUME NEW i \in Entries, a[i] # NoAddr
        PROVE  << a[i], size[i] >> \in held'
    <3>1. i # e /\ << addr[i], size[i] >> \in held /\ a[i] = addr[i]
      BY <1>2, <1>11, <2>2
    <3>2. addr[i] # block[1]
      BY <1>2, <1>5, <1>6, <3>1
    <3> QED BY <1>8, <3>1, <3>2
  <2>3. ASSUME NEW i \in Entries, NEW j \in Entries, a[i] = a[j], i # j
        PROVE  a[i] = NoAddr
    BY <1>2, <1>11, <2>3
  <2>4. memory.addr' = a /\ memory.size' = size
    BY <1>10
  <2> QED BY <2>1, <2>2, <2>3, <2>4 DEF EntriesNameBlocks
<1>15. BlocksMarked'
  <2>1. \A b \in held' : Pages(b[1], b[2]) \subseteq marked \ ps
    BY <1>4, <1>13
  <2>2. memory.marked' = marked \ ps
    BY <1>10
  <2> QED BY <2>1, <2>2 DEF BlocksMarked
<1>16. BlocksApart'
  BY <1>3, <1>13 DEF BlocksApart
<1> QED BY <1>12, <1>14, <1>15, <1>16 DEF HeapInv

\* The heap starts with every page free and every entry unused.
LEMMA HeapInitHolds == HeapInit => HeapInv
<1> SUFFICES ASSUME HeapInit PROVE HeapInv
  OBVIOUS
<1>1. IsFiniteSet(held) /\ held = {}
  BY FS_EmptySet DEF HeapInit
<1>2. HeapTypeOK
  BY <1>1, HeapAssumption DEF HeapInit, HeapTypeOK, MaxPages, EndPage
<1>3. EntriesNameBlocks
  BY <1>1 DEF HeapInit, EntriesNameBlocks
<1> QED BY <1>1, <1>2, <1>3 DEF HeapInv, BlocksMarked, BlocksApart

\* What is kept implies what is promised of the blocks and of get_free_mem.
LEMMA HeapInvImplies == HeapInv => HeapConsistent
<1> SUFFICES ASSUME HeapInv PROVE HeapConsistent
  OBVIOUS
<1> DEFINE Whole == UNION {Pages(b[1], b[2]) : b \in held}
<1>1. HeapBytes \in Nat \ {0} /\ EndPage \in Nat
  BY HeapAssumption DEF EndPage
<1>2. IsFiniteSet(memory.marked)
  <2>1. IsFiniteSet(0..EndPage-1)
    BY <1>1, FS_Interval
  <2> QED BY <2>1, FS_Subset DEF HeapInv, HeapTypeOK
<1>3. IsFiniteSet(held) /\ \A b \in held : b[1] \in Int /\ b[2] \in Nat
  BY <1>1 DEF HeapInv, HeapTypeOK, Blocks, MaxPages
<1>4. \A b \in held : Pages(b[1], b[2]) \subseteq memory.marked
  BY DEF HeapInv, BlocksMarked
<1>5. \A b, c \in held : b # c => Pages(b[1], b[2]) \cap Pages(c[1], c[2]) = {}
  BY DEF HeapInv, BlocksApart
<1>6. MapThenSumSet(LAMBDA b : b[2], held) = Cardinality(Whole)
  <2>1. \A b \in held : b[1] \in Int /\ b[2] \in Nat /\ Pages(b[1], b[2]) \subseteq memory.marked
    BY <1>3, <1>4
  <2> QED BY <1>2, <1>3, <1>5, <2>1, SizesAdd
<1>7. Cardinality(Whole) <= Cardinality(memory.marked) /\ Cardinality(memory.marked) \in Nat
      /\ Cardinality(Whole) \in Nat
  <2>1. Whole \in SUBSET memory.marked
    BY <1>4
  <2> HIDE DEF Whole
  <2> QED BY <1>2, <2>1, FS_Subset, FS_CardinalityType
<1>8. get_free_mem(memory) <= MEMORY_PAGE_SIZE * (EndPage - Cardinality(Whole))
  <2> HIDE DEF Whole
  <2>1. PICK x, y : x = Cardinality(Whole) /\ y = Cardinality(memory.marked)
    OBVIOUS
  <2> QED BY <1>1, <1>7, <2>1 DEF get_free_mem, MEMORY_PAGE_SIZE
<1>9. \A b \in held : \E e \in Entries : memory.addr[e] = b[1] /\ memory.size[e] = b[2]
  BY DEF HeapInv, EntriesNameBlocks
<1>10. get_free_mem(memory)
         <= MEMORY_PAGE_SIZE * (EndPage - MapThenSumSet(LAMBDA b : b[2], held))
  <2> HIDE DEF Whole
  <2> QED BY <1>6, <1>8
<1> QED BY <1>4, <1>5, <1>9, <1>10 DEF HeapConsistent

(* As long as requests are met within the heap, the blocks that callers have are of different *)
(* pages, marked and named in the table, and no page of theirs is reported as free: with a    *)
(* heap of any size, and requests of up to nine pages in every order (malloc, free).          *)
THEOREM HeapStaysConsistent ==
  ASSUME PastEnd = FALSE
  PROVE  HeapSpec => []HeapConsistent
<1>1. HeapInv /\ [HeapNext]_heapVars => HeapInv'
  <2> SUFFICES ASSUME HeapInv, [HeapNext]_heapVars PROVE HeapInv'
    OBVIOUS
  <2>1. ASSUME NEW sz \in Requests, malloc(sz) PROVE HeapInv'
    BY <2>1, MallocKeeps
  <2>2. ASSUME NEW b \in held, free(b) PROVE HeapInv'
    BY <2>2, FreeKeeps
  <2>3. CASE UNCHANGED heapVars
    BY <2>3 DEF heapVars, HeapInv, HeapTypeOK, EntriesNameBlocks, BlocksMarked, BlocksApart
  <2> QED BY <2>1, <2>2, <2>3 DEF HeapNext
<1> QED BY <1>1, HeapInitHolds, HeapInvImplies, PTL DEF HeapSpec
-----------------------------------------------------------------------------
(* Pools *)

\* A larger factor does not make a product smaller.
LEMMA ProductsGrow ==
  ASSUME NEW a \in Nat, NEW i \in Int, NEW j \in Int, i <= j
  PROVE  a * i <= a * j
<1>1. PICK d \in Nat : d = j - i
  OBVIOUS
<1>2. a * j = a * i + a * d
  BY <1>1
<1>3. a * d >= 0
  OBVIOUS
<1>4. PICK x \in Int, y \in Int, z \in Int : x = a * i /\ y = a * j /\ z = a * d
  BY <1>1
<1> QED BY <1>2, <1>3, <1>4

\* AlignUp rounds up, to a multiple of 16, by at most 15.
LEMMA AlignUpRounds ==
  ASSUME NEW x \in Nat
  PROVE  /\ AlignUp(x) \in Nat /\ x <= AlignUp(x) /\ AlignUp(x) <= x + 15
         /\ \E q \in Nat : AlignUp(x) = 16 * q
<1>1. PICK q \in Nat, r \in 0..15 : x = 16 * q + r /\ r = x % 16
  <2>1. x = 16 * (x \div 16) + (x % 16) /\ x \div 16 \in Nat /\ x % 16 \in 0..15
    OBVIOUS
  <2> QED BY <2>1
<1>2. CASE r = 0
  BY <1>1, <1>2 DEF AlignUp
<1>3. CASE r # 0
  <2>1. (16 - r) % 16 = 16 - r
    BY <1>1, <1>3
  <2>2. AlignUp(x) = 16 * (q + 1) /\ AlignUp(x) = x + (16 - r)
    BY <1>1, <2>1 DEF AlignUp
  <2>3. q + 1 \in Nat
    OBVIOUS
  <2>4. \E p \in Nat : AlignUp(x) = 16 * p
    BY <2>2, <2>3
  <2>5. AlignUp(x) \in Nat /\ x <= AlignUp(x) /\ AlignUp(x) <= x + 15
    BY <1>1, <1>3, <2>2
  <2> QED BY <2>4, <2>5
<1> QED BY <1>2, <1>3

\* Some number of blocks fits, and one more does not, if the number asked for does not.
LEMMA SomeNumberFits ==
  ASSUME NEW first \in Nat, NEW size \in Nat, NEW num \in Nat, NEW end \in Nat,
         size >= 16, num >= 1, first <= end + 16,
         ~(first + size * num <= end)
  PROVE  \E n \in -num..num : first + size * n <= end /\ ~(first + size * (n + 1) <= end)
<1> DEFINE T == {k \in 0..2*num : first + size * (num - k) <= end}
<1>1. 2*num \in T
  <2>1. PICK x \in Int : x = size * (-num) /\ x <= -16
    <3>1. size * (-num) <= size * (-1)
      BY ProductsGrow
    <3>2. size * (-1) = -size
      OBVIOUS
    <3> QED BY <3>1, <3>2
  <2>2. num - 2*num = -num
    OBVIOUS
  <2> QED BY <2>1, <2>2
<1>2. PICK k \in T : \A j \in T : k <= j
  <2>1. T \in SUBSET Nat
    OBVIOUS
  <2> HIDE DEF T
  <2> QED BY <1>1, <2>1, LeastNumber
<1>3. k # 0
  BY <1>2
<1>4. k - 1 \in 0..2*num /\ k - 1 \notin T
  BY <1>2, <1>3
<1>5. num - k \in -num..num /\ (num - k) + 1 = num - (k - 1)
  BY <1>2, <1>3
<1> QED BY <1>2, <1>4, <1>5

\* The blocks that one area is cut into lie in it, one behind another.
LEMMA BlocksFit ==
  ASSUME NEW start \in Nat, NEW size \in Nat, NEW num \in Nat
  PROVE  PoolFits(start, size, num)
<1> DEFINE end    == start + size * num
           first  == PoolStart(start)
           each   == BlockSize(size)
           n      == ActualBlocks(start, size, num)
           blocks == kern_fmem_create(start, size, num)
<1>1. CASE start = 0 \/ num < 2 \/ size < 4 \/ n < 2
  <2>1. blocks = << >> /\ Len(blocks) = 0
    BY <1>1 DEF kern_fmem_create
  <2> HIDE DEF n
  <2> QED BY <2>1 DEF PoolFits
<1>2. CASE ~(start = 0 \/ num < 2 \/ size < 4 \/ n < 2)
  <2>1. /\ first \in Nat /\ start <= first /\ first <= start + 15
        /\ each \in Nat /\ size <= each /\ each >= 16
        /\ \E p, q \in Nat : first = 16 * p /\ each = 16 * q
    <3>1. num >= 2 /\ size >= 4
      BY <1>2
    <3>2. /\ AlignUp(start) \in Nat /\ start <= AlignUp(start) /\ AlignUp(start) <= start + 15
          /\ \E p \in Nat : AlignUp(start) = 16 * p
      BY AlignUpRounds
    <3>3. /\ AlignUp(size) \in Nat /\ size <= AlignUp(size)
          /\ \E q \in Nat : AlignUp(size) = 16 * q
      BY AlignUpRounds
    <3>4. AlignUp(size) >= 16
      BY <3>1, <3>3
    <3> QED BY <3>2, <3>3, <3>4 DEF PoolStart, BlockSize
  <2>2. end \in Nat /\ start <= end
    <3>1. PICK x : x = size * num /\ x \in Nat
      OBVIOUS
    <3> QED BY <3>1
  <2> HIDE DEF end, first, each
  <2>3. n = IF first + each * num <= end THEN num
            ELSE CHOOSE c \in -num..num : first + each * c <= end /\ ~(first + each * (c + 1) <= end)
    BY DEF ActualBlocks, end, first, each
  <2> HIDE DEF n
  <2>4. n \in Int /\ first + each * n <= end
        /\ (n # num => ~(first + each * (n + 1) <= end))
    <3>1. CASE first + each * num <= end
      BY <2>3, <3>1
    <3>2. CASE ~(first + each * num <= end)
      <4>1. \E c \in -num..num : first + each * c <= end /\ ~(first + each * (c + 1) <= end)
        <5>1. num >= 1 /\ first <= end + 16
          BY <1>2, <2>1, <2>2
        <5> QED BY <2>1, <2>2, <3>2, <5>1, SomeNumberFits
      <4>2. n \in -num..num /\ first + each * n <= end /\ ~(first + each * (n + 1) <= end)
        BY <2>3, <3>2, <4>1
      <4> QED BY <4>2
    <3> QED BY <3>1, <3>2
  <2>5. n >= 2 /\ n \in Nat
    BY <1>2, <2>4
  <2>6. blocks = [i \in 1..n |-> first + each * (i - 1)]
    BY <1>2 DEF kern_fmem_create, n, first, each
  <2>7. Len(blocks) = n /\ \A i \in 1..n : blocks[i] = first + each * (i - 1)
    BY <2>5, <2>6
  <2> HIDE DEF blocks
  <2>8. ASSUME NEW i \in 1..n
        PROVE  /\ start <= blocks[i] /\ blocks[i] + size <= end /\ blocks[i] % 16 = 0
               /\ i > 1 => blocks[i - 1] + size <= blocks[i]
    <3>1. PICK x \in Int : x = each * (i - 1) /\ x >= 0
      <4>1. each * 0 <= each * (i - 1)
        BY <2>1, <2>5, ProductsGrow
      <4> QED BY <2>1, <4>1
    <3>2. each * i = x + each
      BY <2>1, <3>1
    <3>3. PICK y \in Int : y = each * n /\ x + each <= y
      <4>1. each * i <= each * n
        BY <2>1, <2>5, ProductsGrow
      <4> QED BY <2>1, <2>5, <3>2, <4>1
    <3>4. blocks[i] = first + x
      BY <2>7, <3>1
    <3>5. start <= blocks[i] /\ blocks[i] + size <= end
      BY <2>1, <2>2, <2>4, <3>1, <3>3, <3>4
    <3>6. blocks[i] % 16 = 0
      <4>1. PICK p \in Nat, q \in Nat : first = 16 * p /\ each = 16 * q
        BY <2>1
      <4>2. PICK z \in Int : z = q * (i - 1)
        OBVIOUS
      <4>3. x = 16 * z
        BY <3>1, <4>1, <4>2
      <4>4. blocks[i] = 16 * (p + z)
        BY <3>4, <4>1, <4>3
      <4> QED BY <4>4
    <3>7. ASSUME i > 1
          PROVE  blocks[i - 1] + size <= blocks[i]
      <4>1. i - 1 \in 1..n
        BY <2>5, <3>7
      <4>2. blocks[i - 1] = first + each * ((i - 1) - 1)
        BY <2>7, <4>1
      <4>3. each * ((i - 1) - 1) = x - each
        BY <2>1, <3>1
      <4> QED BY <2>1, <3>1, <3>4, <4>2, <4>3
    <3> QED BY <3>5, <3>6, <3>7
  <2>9. ASSUME n # num
        PROVE  blocks[n] + 2 * each > end
    <3>1. blocks[n] = first + each * (n - 1)
      BY <2>5, <2>7
    <3>2. PICK x \in Int : x = each * (n - 1) /\ each * (n + 1) = x + 2 * each
      BY <2>1, <2>5
    <3>3. ~(first + each * (n + 1) <= end)
      BY <2>4, <2>9
    <3> QED BY <2>1, <2>2, <3>1, <3>2, <3>3
  <2> QED BY <2>7, <2>8, <2>9 DEF PoolFits, end, each, blocks
<1> QED BY <1>1, <1>2

PoolSpec == PoolInit /\ [][FALSE]_area

(* Of every area, wherever it starts, and for blocks of every size and number, the blocks of  *)
(* the pool lie in the area, are as large as was asked for and do not overlap, and another    *)
(* one would not have fitted (kern_fmem_create).                                              *)
THEOREM PoolsAlwaysFit == PoolSpec => []PoolsFit
<1>1. PoolInit => PoolsFit
  <2> SUFFICES ASSUME PoolInit PROVE PoolsFit
    OBVIOUS
  <2>1. area[1] \in Nat /\ area[2] \in Nat /\ area[3] \in Nat
    BY PoolAssumption DEF PoolInit, Areas
  <2> QED BY <2>1, BlocksFit DEF PoolsFit
<1>2. PoolsFit /\ [FALSE]_area => PoolsFit'
  BY DEF PoolsFit
<1> QED BY <1>1, <1>2, PTL DEF PoolSpec
-----------------------------------------------------------------------------
(* Lists, as their links show them *)

\* The node at place i of the list q of h: the head is before the first entry and behind the last.
At(h, q, i) == IF i \in 1..Len(q) THEN q[i] ELSE h

Circle(links, h, q) ==
  \A i \in 0..Len(q) : /\ links.next[At(h, q, i)] = At(h, q, i + 1)
                       /\ links.prev[At(h, q, i + 1)] = At(h, q, i)

Distinct(q) == \A i, j \in 1..Len(q) : q[i] = q[j] => i = j

IsList(links, h, q) == q \in Seq(Entry) /\ Distinct(q) /\ Circle(links, h, q)

\* The lists s are what the links show.
Shows(links, s) ==
  /\ links \in Links(Node)
  /\ s \in [ListHead -> Seq(Entry)]
  /\ \A h \in ListHead : IsList(links, h, s[h])
  /\ \A g, h \in ListHead : g # h => ToSet(s[g]) \cap ToSet(s[h]) = {}

\* Contents, of any links.
ContentsOf(links, h) ==
  LET chain == Chain(links, h, Cardinality(Node))
      size  == Cardinality({i \in 0..Cardinality(Node) : chain[i] # h})
  IN  [i \in 1..size |-> chain[i-1]]

Seen == [h \in ListHead |-> Contents(h)]

LinksInv == Shows(l, Seen)

\* The walk meets the entries of the list, and then the head.
LEMMA ChainMeets ==
  ASSUME NEW links, NEW h \in ListHead, NEW q, IsList(links, h, q), NEW n \in Nat
  PROVE  Chain(links, h, n) = [i \in 0..n |-> At(h, q, i + 1)]
<1> DEFINE F(f) == f = [i \in 0..n |-> IF i = 0 THEN links.next[h]
                                       ELSE IF f[i-1] = h THEN h ELSE links.next[f[i-1]]]
           g == [i \in 0..n |-> At(h, q, i + 1)]
           c == CHOOSE f : F(f)
<1>1. Chain(links, h, n) = c
  BY DEF Chain
<1>2. F(g)
  <2>1. Len(q) \in Nat /\ \A i \in 1..Len(q) : q[i] \in Entry /\ q[i] # h
    BY HeadsAreNotEntries DEF IsList
  <2>2. At(h, q, 1) = links.next[h]
    <3>1. At(h, q, 0) = h
      BY <2>1 DEF At
    <3>2. 0 \in 0..Len(q) /\ 0 + 1 = 1
      BY <2>1
    <3> QED BY <3>1, <3>2 DEF IsList, Circle
  <2>3. ASSUME NEW i \in 1..n
        PROVE  At(h, q, i + 1) = IF At(h, q, i) = h THEN h ELSE links.next[At(h, q, i)]
    <3>1. CASE i \in 1..Len(q)
      <4>1. At(h, q, i) # h
        BY <2>1, <3>1 DEF At
      <4> QED BY <3>1, <4>1 DEF IsList, Circle
    <3>2. CASE i \notin 1..Len(q)
      BY <2>1, <3>2 DEF At
    <3> QED BY <3>1, <3>2
  <2> QED BY <2>2, <2>3
<1>3. F(c)
  <2> HIDE DEF F, g
  <2> QED BY <1>2
<1>0. ASSUME NEW f, F(f)
      PROVE  /\ f = [i \in 0..n |-> f[i]] /\ f[0] = links.next[h]
             /\ \A m \in 1..n : f[m] = IF f[m-1] = h THEN h ELSE links.next[f[m-1]]
  <2> DEFINE E(i) == IF i = 0 THEN links.next[h] ELSE IF f[i-1] = h THEN h ELSE links.next[f[i-1]]
  <2>1. f = [i \in 0..n |-> E(i)]
    BY <1>0
  <2>2. \A i \in 0..n : f[i] = E(i)
    <3> HIDE DEF E
    <3> QED BY <2>1
  <2>3. f = [i \in 0..n |-> f[i]]
    <3> HIDE DEF E
    <3> QED BY <2>1, <2>2
  <2> QED BY <2>2, <2>3
<1> HIDE DEF c, F
<1>4. ASSUME NEW i \in 0..n PROVE c[i] = g[i]
  <2> DEFINE G == {m \in 0..n : c[m] = g[m]}
  <2> HIDE DEF g
  <2>1. 0 \in G
    BY <1>0, <1>2, <1>3
  <2>2. ASSUME NEW m \in 1..i, m-1 \in G PROVE m \in G
    <3>1. m \in 1..n /\ c[m-1] = g[m-1]
      BY <2>2
    <3> QED BY <1>0, <1>2, <1>3, <3>1
  <2> HIDE DEF G
  <2>3. i \in G
    BY <2>1, <2>2, UpTo
  <2> QED BY <2>3 DEF G
<1>5. c = [i \in 0..n |-> c[i]]
  BY <1>0, <1>3
<1> QED BY <1>1, <1>4, <1>5

LEMMA CountUpTo ==
  ASSUME NEW n \in Nat
  PROVE  /\ IsFiniteSet(1..n) /\ Cardinality(1..n) = n
         /\ IsFiniteSet(0..n-1) /\ Cardinality(0..n-1) = n
<1>1. IsFiniteSet(1..n) /\ Cardinality(1..n) = IF 1 > n THEN 0 ELSE n-1+1
  <2>1. 1 \in Int /\ n \in Int
    OBVIOUS
  <2> QED BY <2>1, FS_Interval, Zenon
<1>2. IsFiniteSet(0..n-1) /\ Cardinality(0..n-1) = IF 0 > n-1 THEN 0 ELSE (n-1)-0+1
  <2>1. 0 \in Int /\ n-1 \in Int
    OBVIOUS
  <2> QED BY <2>1, FS_Interval, Zenon
<1> QED BY <1>1, <1>2

\* A list has no more entries than there are nodes.
LEMMA ListFits ==
  ASSUME NEW q \in Seq(Entry), Distinct(q)
  PROVE  Len(q) \in 0..Cardinality(Node)
<1>1. IsFiniteSet(Node)
  BY HeadsAreNotEntries DEF Node
<1>2. Len(q) \in Nat /\ IsFiniteSet(1..Len(q)) /\ Cardinality(1..Len(q)) = Len(q)
  BY CountUpTo
<1> DEFINE f == [i \in 1..Len(q) |-> q[i]]
<1>3. f \in Injection(1..Len(q), Node)
  BY DEF Injection, IsInjective, Node, Distinct
<1>5. Cardinality(Node) \in Nat
  BY <1>1, FS_CardinalityType
<1>6. Cardinality(1..Len(q)) <= Cardinality(Node)
  <2> HIDE DEF f
  <2> QED BY <1>1, <1>3, FS_Injection
<1> QED BY <1>2, <1>5, <1>6

\* What the walk along next sees of a list is the list.
LEMMA ContentsShown ==
  ASSUME NEW links, NEW h \in ListHead, NEW q, IsList(links, h, q)
  PROVE  ContentsOf(links, h) = q
<1> DEFINE n     == Cardinality(Node)
           chain == Chain(links, h, n)
           met   == {i \in 0..n : chain[i] # h}
<1>1. q \in Seq(Entry) /\ Len(q) \in 0..n /\ n \in Nat
  <2>1. n \in Nat
    BY HeadsAreNotEntries, FS_CardinalityType DEF Node
  <2> QED BY <2>1, ListFits DEF IsList
<1>2. \A i \in 0..n : chain[i] = At(h, q, i + 1)
  <2>1. chain = [i \in 0..n |-> At(h, q, i + 1)]
    <3> HIDE DEF n
    <3> QED BY <1>1, ChainMeets
  <2> HIDE DEF chain, n
  <2> QED BY <2>1
<1> HIDE DEF chain, n
<1>3. \A i \in 1..Len(q) : q[i] \in Entry /\ q[i] # h
  BY <1>1, HeadsAreNotEntries
<1>4. met = 0..Len(q)-1
  <2>1. \A i \in 0..n : chain[i] # h <=> i + 1 \in 1..Len(q)
    BY <1>1, <1>2, <1>3 DEF At
  <2>2. \A i \in 0..n : i + 1 \in 1..Len(q) <=> i \in 0..Len(q)-1
    BY <1>1
  <2>3. 0..Len(q)-1 \subseteq 0..n
    BY <1>1
  <2> QED BY <2>1, <2>2, <2>3
<1>5. Cardinality(met) = Len(q)
  <2> HIDE DEF met
  <2> QED BY <1>1, <1>4, CountUpTo
<1>6. \A i \in 1..Len(q) : chain[i-1] = q[i]
  BY <1>1, <1>2 DEF At
<1>7. ContentsOf(links, h) = [i \in 1..Cardinality(met) |-> chain[i-1]]
  BY DEF ContentsOf, chain, n
<1>8. q = [i \in 1..Len(q) |-> q[i]]
  BY <1>1
<1> HIDE DEF met
<1> QED BY <1>5, <1>6, <1>7, <1>8

LEMMA ShownIsSeen ==
  ASSUME NEW links, NEW s, Shows(links, s)
  PROVE  [h \in ListHead |-> ContentsOf(links, h)] = s
<1>1. \A h \in ListHead : ContentsOf(links, h) = s[h]
  BY ContentsShown DEF Shows
<1>2. s = [h \in ListHead |-> s[h]]
  BY DEF Shows
<1> QED BY <1>1, <1>2

LEMMA SeenOf ==
  /\ Seen = [h \in ListHead |-> ContentsOf(l, h)]
  /\ Seen' = [h \in ListHead |-> ContentsOf(l', h)]
BY DEF Seen, Contents, ContentsOf
-----------------------------------------------------------------------------
(* Taking an entry out and putting one in *)

\* The places of a list are different nodes, but that the head is both ends.
LEMMA PlacesDiffer ==
  ASSUME NEW links, NEW h \in ListHead, NEW q, IsList(links, h, q)
  PROVE  /\ Len(q) \in Nat
         /\ At(h, q, 0) = h /\ At(h, q, Len(q) + 1) = h
         /\ \A i \in 1..Len(q) : At(h, q, i) = q[i] /\ q[i] \in Entry /\ q[i] # h
         /\ \A i \in 0..Len(q)+1 : At(h, q, i) \in Node /\ At(h, q, i) \in {h} \cup ToSet(q)
         /\ \A i, j \in 0..Len(q) : At(h, q, i) = At(h, q, j) => i = j
         /\ \A i, j \in 1..Len(q)+1 : At(h, q, i) = At(h, q, j) => i = j
<1>1. Len(q) \in Nat /\ \A i \in 1..Len(q) : q[i] \in Entry /\ q[i] # h
  BY HeadsAreNotEntries DEF IsList
<1>2. At(h, q, 0) = h /\ At(h, q, Len(q) + 1) = h /\ \A i \in 1..Len(q) : At(h, q, i) = q[i]
  BY <1>1 DEF At
<1>3. \A i, j \in 1..Len(q) : q[i] = q[j] => i = j
  BY DEF IsList, Distinct
<1>4. ASSUME NEW i \in 0..Len(q)+1
      PROVE  At(h, q, i) \in Node /\ At(h, q, i) \in {h} \cup ToSet(q)
  BY <1>1 DEF At, Node, ToSet
<1>5. ASSUME NEW i \in 0..Len(q), NEW j \in 0..Len(q), At(h, q, i) = At(h, q, j) PROVE i = j
  BY <1>1, <1>3, <1>5 DEF At
<1>6. ASSUME NEW i \in 1..Len(q)+1, NEW j \in 1..Len(q)+1, At(h, q, i) = At(h, q, j) PROVE i = j
  BY <1>1, <1>3, <1>6 DEF At
<1> QED BY <1>1, <1>2, <1>4, <1>5, <1>6

\* The links of a list are its own.
LEMMA ListKept ==
  ASSUME NEW links, NEW r, NEW h \in ListHead, NEW q, IsList(links, h, q),
         \A n \in {h} \cup ToSet(q) : r.next[n] = links.next[n] /\ r.prev[n] = links.prev[n]
  PROVE  IsList(r, h, q)
<1>1. \A i \in 0..Len(q)+1 : At(h, q, i) \in {h} \cup ToSet(q)
  BY PlacesDiffer
<1>2. Len(q) \in Nat
  BY PlacesDiffer
<1>3. ASSUME NEW i \in 0..Len(q)
      PROVE  r.next[At(h, q, i)] = At(h, q, i + 1) /\ r.prev[At(h, q, i + 1)] = At(h, q, i)
  <2>1. i \in 0..Len(q)+1 /\ i + 1 \in 0..Len(q)+1
    BY <1>2
  <2> QED BY <1>1, <2>1 DEF IsList, Circle
<1> QED BY <1>3 DEF IsList, Circle

\* A change of one list, and of no node of another.
LEMMA OneListChanges ==
  ASSUME NEW links, NEW s, Shows(links, s), NEW h \in ListHead, NEW q, NEW r,
         r \in Links(Node), IsList(r, h, q),
         \A g \in ListHead \ {h} : /\ ToSet(q) \cap ToSet(s[g]) = {}
                                  /\ \A n \in {g} \cup ToSet(s[g]) : /\ r.next[n] = links.next[n]
                                                                   /\ r.prev[n] = links.prev[n]
  PROVE  Shows(r, [s EXCEPT ![h] = q])
<1> DEFINE s2 == [s EXCEPT ![h] = q]
<1>1. /\ s2 \in [ListHead -> Seq(Entry)] /\ s2[h] = q
      /\ \A g \in ListHead \ {h} : s2[g] = s[g]
  BY DEF Shows, IsList
<1>2. \A g \in ListHead \ {h} : IsList(r, g, s[g])
  BY ListKept DEF Shows
<1> HIDE DEF s2
<1>3. \A g \in ListHead : IsList(r, g, s2[g])
  BY <1>1, <1>2
<1>4. \A f, g \in ListHead : f # g => ToSet(s2[f]) \cap ToSet(s2[g]) = {}
  BY <1>1 DEF Shows
<1>5. Shows(r, s2)
  BY <1>1, <1>3, <1>4 DEF Shows
<1> QED BY <1>5 DEF s2

LEMMA RemoveAtPlaces ==
  ASSUME NEW S, NEW q \in Seq(S), NEW i \in 1..Len(q), NEW r, r = RemoveAt(q, i)
  PROVE  /\ r \in Seq(S) /\ Len(r) = Len(q) - 1
         /\ \A n \in 1..Len(r) : r[n] = IF n < i THEN q[n] ELSE q[n + 1]
<1> DEFINE a == SubSeq(q, 1, i - 1)
           b == SubSeq(q, i + 1, Len(q))
<1>1. a \in Seq(S) /\ Len(a) = i - 1 /\ \A n \in 1..i-1 : a[n] = q[n]
  OBVIOUS
<1>2. b \in Seq(S) /\ Len(b) = Len(q) - i /\ \A n \in 1..Len(q)-i : b[n] = q[n + i]
  OBVIOUS
<1>3. r = a \o b
  BY DEF RemoveAt
<1> HIDE DEF a, b
<1>4. r \in Seq(S) /\ Len(r) = Len(q) - 1
  <2>1. Len(q) \in Nat /\ i \in 1..Len(q)
    OBVIOUS
  <2>2. a \o b \in Seq(S) /\ Len(a \o b) = Len(a) + Len(b)
    BY <1>1, <1>2, ConcatProperties
  <2> QED BY <1>1, <1>2, <1>3, <2>1, <2>2
<1>5. ASSUME NEW n \in 1..Len(r) PROVE r[n] = IF n < i THEN q[n] ELSE q[n + 1]
  <2>1. CASE n < i
    BY <1>1, <1>2, <1>3, <1>4, <2>1
  <2>2. CASE n >= i
    <3>1. n - (i - 1) \in 1..Len(q)-i /\ r[n] = b[n - (i - 1)]
      BY <1>1, <1>2, <1>3, <1>4, <2>2
    <3> QED BY <1>2, <2>2, <3>1
  <2> QED BY <2>1, <2>2
<1> QED BY <1>4, <1>5

\* The neighbours of the i-th entry are linked to each other.
LEMMA RemovalShown ==
  ASSUME NEW links, NEW s, Shows(links, s), NEW h \in ListHead, NEW i \in 1..Len(s[h]),
         NEW before, before = At(h, s[h], i - 1), NEW after, after = At(h, s[h], i + 1),
         NEW r, r \in Links(Node),
         \A n \in Node : /\ r.next[n] = IF n = before THEN after ELSE links.next[n]
                        /\ r.prev[n] = IF n = after THEN before ELSE links.prev[n]
  PROVE  Shows(r, [s EXCEPT ![h] = RemoveAt(@, i)])
<1> DEFINE q  == s[h]
           q2 == RemoveAt(q, i)
           a(j) == At(h, q, j)
<1>1. IsList(links, h, q) /\ q \in Seq(Entry) /\ Len(q) \in Nat
  BY DEF Shows, IsList
<1>2. q2 \in Seq(Entry) /\ Len(q2) = Len(q) - 1
      /\ \A j \in 1..Len(q2) : q2[j] = IF j < i THEN q[j] ELSE q[j + 1]
  <2>1. q2 = RemoveAt(q, i) /\ i \in 1..Len(q)
    OBVIOUS
  <2> HIDE DEF q, q2
  <2> QED BY <1>1, <2>1, RemoveAtPlaces
<1> HIDE DEF q2
<1>3. /\ a(0) = h /\ a(Len(q) + 1) = h /\ \A j \in 1..Len(q) : a(j) = q[j]
      /\ \A j \in 0..Len(q)+1 : a(j) \in Node /\ a(j) \in {h} \cup ToSet(q)
      /\ \A j, k \in 0..Len(q) : a(j) = a(k) => j = k
      /\ \A j, k \in 1..Len(q)+1 : a(j) = a(k) => j = k
  <2> HIDE DEF q
  <2> QED BY <1>1, PlacesDiffer
<1>4. \A j \in 0..Len(q) : links.next[a(j)] = a(j + 1) /\ links.prev[a(j + 1)] = a(j)
  BY <1>1 DEF IsList, Circle
<1>5. before = a(i - 1) /\ after = a(i + 1) /\ i \in 1..Len(q)
  OBVIOUS
<1>6. \A j \in 0..Len(q2)+1 : At(h, q2, j) = IF j < i THEN a(j) ELSE a(j + 1)
  <2>1. ASSUME NEW j \in 0..Len(q2)+1 PROVE At(h, q2, j) = IF j < i THEN a(j) ELSE a(j + 1)
    <3>1. CASE j \in 1..Len(q2)
      <4>1. At(h, q2, j) = q2[j] /\ j \in 1..Len(q) /\ j + 1 \in 1..Len(q)
        BY <1>1, <1>2, <3>1 DEF At
      <4> QED BY <1>2, <1>3, <3>1, <4>1
    <3>2. CASE j = 0
      BY <1>1, <1>2, <1>3, <3>2 DEF At
    <3>3. CASE j = Len(q2) + 1
      BY <1>1, <1>2, <1>3, <3>3 DEF At
    <3> QED BY <1>1, <1>2, <3>1, <3>2, <3>3
  <2> QED BY <2>1
<1>7. before \in Node /\ after \in Node /\ {before, after} \subseteq {h} \cup ToSet(q)
  <2>1. i - 1 \in 0..Len(q)+1 /\ i + 1 \in 0..Len(q)+1
    BY <1>1
  <2> QED BY <1>3, <1>5, <2>1
<1> HIDE DEF a, q
<1>8. \A n \in Node : /\ r.next[n] = IF n = before THEN after ELSE links.next[n]
                     /\ r.prev[n] = IF n = after THEN before ELSE links.prev[n]
  OBVIOUS
<1>9. ASSUME NEW j \in 0..Len(q2)
      PROVE  r.next[At(h, q2, j)] = At(h, q2, j + 1) /\ r.prev[At(h, q2, j + 1)] = At(h, q2, j)
  <2>1. j \in 0..Len(q2)+1 /\ j + 1 \in 0..Len(q2)+1 /\ j + 1 \in 0..Len(q)
    BY <1>1, <1>2 DEF q
  <2>2. CASE j < i - 1
    <3>1. At(h, q2, j) = a(j) /\ At(h, q2, j + 1) = a(j + 1)
      BY <1>5, <1>6, <2>1, <2>2
    <3>2. a(j) # before /\ a(j + 1) # after
      BY <1>1, <1>3, <1>5, <2>1, <2>2 DEF q
    <3>3. a(j) \in Node /\ a(j + 1) \in Node /\ j \in 0..Len(q)
      BY <1>1, <1>2, <1>3, <2>1 DEF q
    <3> QED BY <1>4, <1>8, <3>1, <3>2, <3>3
  <2>3. CASE j = i - 1
    <3>1. At(h, q2, j) = before /\ At(h, q2, j + 1) = after
      BY <1>5, <1>6, <2>1, <2>3
    <3> QED BY <1>7, <1>8, <3>1
  <2>4. CASE j >= i
    <3>1. At(h, q2, j) = a(j + 1) /\ At(h, q2, j + 1) = a(j + 2)
      BY <1>5, <1>6, <2>1, <2>4
    <3>2. a(j + 1) # before /\ a(j + 2) # after /\ j + 2 \in 0..Len(q)+1
      BY <1>1, <1>2, <1>3, <1>5, <2>1, <2>4 DEF q
    <3>3. links.next[a(j + 1)] = a(j + 2) /\ links.prev[a(j + 2)] = a(j + 1)
      <4>1. (j + 1) + 1 = j + 2
        BY <2>1
      <4> QED BY <1>4, <2>1, <4>1
    <3> QED BY <1>3, <1>8, <2>1, <3>1, <3>2, <3>3, SMTT(30) DEF q
  <2> QED BY <1>5, <2>2, <2>3, <2>4
<1>10. Distinct(q2)
  <2>1. SUFFICES ASSUME NEW j \in 1..Len(q2), NEW k \in 1..Len(q2), q2[j] = q2[k] PROVE j = k
    BY DEF Distinct
  <2> DEFINE e(x) == IF x < i THEN x ELSE x + 1
  <2>2. e(j) \in 1..Len(q) /\ e(k) \in 1..Len(q) /\ (e(j) = e(k) => j = k)
    BY <1>1, <1>2 DEF q
  <2>3. q[e(j)] = q[e(k)]
    BY <1>2, <2>1
  <2> HIDE DEF e
  <2> QED BY <1>1, <2>2, <2>3 DEF IsList, Distinct, q
<1>11. IsList(r, h, q2)
  BY <1>2, <1>9, <1>10 DEF IsList, Circle
<1>12. ToSet(q2) \subseteq ToSet(q)
  <2>1. ASSUME NEW j \in 1..Len(q2) PROVE q2[j] \in ToSet(q)
    <3>1. j \in 1..Len(q) /\ j + 1 \in 1..Len(q)
      BY <1>1, <1>2 DEF q
    <3> HIDE DEF q
    <3> QED BY <1>1, <1>2, <3>1, SMTT(30) DEF ToSet
  <2> QED BY <1>2, <2>1 DEF ToSet
<1>13. ASSUME NEW g \in ListHead \ {h}
       PROVE  /\ ToSet(q2) \cap ToSet(s[g]) = {}
              /\ \A n \in {g} \cup ToSet(s[g]) : r.next[n] = links.next[n] /\ r.prev[n] = links.prev[n]
  <2>1. ToSet(q) \cap ToSet(s[g]) = {}
    BY DEF Shows, q
  <2>2. ToSet(s[g]) \subseteq Entry /\ ToSet(q) \subseteq Entry
    BY DEF Shows, ToSet, q
  <2>3. ({g} \cup ToSet(s[g])) \cap ({h} \cup ToSet(q)) = {}
    BY <2>1, <2>2, HeadsAreNotEntries
  <2>4. {g} \cup ToSet(s[g]) \subseteq Node
    BY <2>2 DEF Node
  <2> QED BY <1>7, <1>8, <1>12, <2>1, <2>3, <2>4
<1>14. Shows(r, [s EXCEPT ![h] = q2])
  BY <1>8, <1>11, <1>13, OneListChanges
<1> QED BY <1>14 DEF q2, q

\* q2 is q with e between the place i and the next.
Inserted(q2, q, i, e) ==
  /\ q2 \in Seq(Entry) /\ Len(q2) = Len(q) + 1
  /\ \A j \in 1..Len(q2) : q2[j] = IF j <= i THEN q[j] ELSE IF j = i + 1 THEN e ELSE q[j - 1]

\* r is links with e between two nodes.
LinkedBetween(r, links, before, e, after) ==
  /\ r \in Links(Node)
  /\ \A n \in Node : /\ r.next[n] = IF n = before THEN e ELSE IF n = e THEN after ELSE links.next[n]
                    /\ r.prev[n] = IF n = after THEN e ELSE IF n = e THEN before ELSE links.prev[n]

\* An entry that is in no list comes between the place i and the next, whatever its links were.
LEMMA InsertionShown ==
  ASSUME NEW links, NEW s, Shows(links, s), NEW h \in ListHead, NEW i \in 0..Len(s[h]),
         NEW before, before = At(h, s[h], i), NEW after, after = At(h, s[h], i + 1),
         NEW e \in Entry, \A g \in ListHead : e \notin ToSet(s[g]),
         NEW q2, Inserted(q2, s[h], i, e), NEW r, LinkedBetween(r, links, before, e, after)
  PROVE  Shows(r, [s EXCEPT ![h] = q2])
<1> DEFINE q    == s[h]
           a(j) == At(h, q, j)
<1>1. IsList(links, h, q) /\ q \in Seq(Entry) /\ Len(q) \in Nat /\ i \in 0..Len(q) /\ i + 1 \in 0..Len(q)+1
  BY DEF Shows, IsList
<1>2. /\ Len(q2) = Len(q) + 1 /\ q2 \in Seq(Entry)
      /\ \A j \in 1..Len(q2) : q2[j] = IF j <= i THEN q[j] ELSE IF j = i + 1 THEN e ELSE q[j - 1]
  BY DEF Inserted
<1>3. /\ r \in Links(Node)
       /\ \A n \in Node : /\ r.next[n] = IF n = before THEN e ELSE IF n = e THEN after ELSE links.next[n]
                         /\ r.prev[n] = IF n = after THEN e ELSE IF n = e THEN before ELSE links.prev[n]
  BY DEF LinkedBetween
<1>4. before = a(i) /\ after = a(i + 1) /\ e \notin ToSet(q)
  OBVIOUS
<1>5. /\ a(0) = h /\ a(Len(q) + 1) = h /\ \A j \in 1..Len(q) : a(j) = q[j]
      /\ \A j \in 0..Len(q)+1 : a(j) \in Node /\ a(j) \in {h} \cup ToSet(q)
      /\ \A j, k \in 0..Len(q) : a(j) = a(k) => j = k
      /\ \A j, k \in 1..Len(q)+1 : a(j) = a(k) => j = k
  <2> HIDE DEF q
  <2> QED BY <1>1, PlacesDiffer
<1>6. \A j \in 0..Len(q) : links.next[a(j)] = a(j + 1) /\ links.prev[a(j + 1)] = a(j)
  BY <1>1 DEF IsList, Circle
<1> HIDE DEF q
<1>7. \A j \in 0..Len(q2)+1 : At(h, q2, j) = IF j <= i THEN a(j) ELSE IF j = i + 1 THEN e ELSE a(j - 1)
  <2>1. ASSUME NEW j \in 0..Len(q2)+1
        PROVE  At(h, q2, j) = IF j <= i THEN a(j) ELSE IF j = i + 1 THEN e ELSE a(j - 1)
    <3>1. CASE j \in 1..Len(q2)
      <4>1. At(h, q2, j) = q2[j]
        BY <3>1 DEF At
      <4>2. j <= i => j \in 1..Len(q)
        BY <1>1, <3>1
      <4>3. j > i + 1 => j - 1 \in 1..Len(q)
        BY <1>1, <1>2, <3>1
      <4>4. CASE j <= i
        BY <1>2, <1>5, <3>1, <4>1, <4>2, <4>4
      <4>5. CASE j = i + 1
        BY <1>1, <1>2, <3>1, <4>1, <4>5
      <4>6. CASE j > i + 1
        BY <1>1, <1>2, <1>5, <3>1, <4>1, <4>3, <4>6
      <4> QED BY <1>1, <3>1, <4>4, <4>5, <4>6
    <3>2. CASE j = 0
      BY <1>1, <1>2, <1>5, <3>2 DEF At
    <3>3. CASE j = Len(q2) + 1
      BY <1>1, <1>2, <1>5, <3>3 DEF At
    <3> QED BY <1>1, <1>2, <3>1, <3>2, <3>3
  <2> QED BY <2>1
<1>8. /\ e \in Node /\ e \notin {h} \cup ToSet(q)
      /\ \A j \in 0..Len(q)+1 : a(j) # e
      /\ {before, after} \subseteq {h} \cup ToSet(q) /\ before \in Node /\ after \in Node
  <2>1. e # h
    BY HeadsAreNotEntries
  <2>2. i \in 0..Len(q)+1
    BY <1>1
  <2> QED BY <1>1, <1>4, <1>5, <2>1, <2>2 DEF Node
<1> HIDE DEF a
<1>9. ASSUME NEW j \in 0..Len(q2)
      PROVE  r.next[At(h, q2, j)] = At(h, q2, j + 1) /\ r.prev[At(h, q2, j + 1)] = At(h, q2, j)
  <2>1. j \in 0..Len(q2)+1 /\ j + 1 \in 0..Len(q2)+1
    BY <1>1, <1>2
  <2>2. CASE j < i
    <3>1. At(h, q2, j) = a(j) /\ At(h, q2, j + 1) = a(j + 1)
      BY <1>1, <1>7, <2>1, <2>2
    <3>2. j \in 0..Len(q) /\ j \in 0..Len(q)+1 /\ j + 1 \in 0..Len(q)+1 /\ j + 1 \in 1..Len(q)+1
          /\ i + 1 \in 1..Len(q)+1
      BY <1>1, <2>2
    <3>3. a(j) # before /\ a(j + 1) # after
      BY <1>1, <1>4, <1>5, <2>2, <3>2
    <3> QED BY <1>5, <1>6, <1>8, <1>3, <3>1, <3>2, <3>3
  <2>3. CASE j = i
    <3>1. At(h, q2, j) = before /\ At(h, q2, j + 1) = e
      BY <1>1, <1>4, <1>7, <2>1, <2>3
    <3>2. e # after
      BY <1>8
    <3> QED BY <1>8, <1>3, <3>1, <3>2
  <2>4. CASE j = i + 1
    <3>1. At(h, q2, j) = e /\ At(h, q2, j + 1) = after
      BY <1>1, <1>4, <1>7, <2>1, <2>4
    <3>2. e # before
      BY <1>8
    <3> QED BY <1>8, <1>3, <3>1, <3>2
  <2>5. CASE j > i + 1
    <3> DEFINE m == j - 1
    <3>1. /\ m \in 0..Len(q) /\ m \in 0..Len(q)+1 /\ m + 1 \in 0..Len(q)+1 /\ m + 1 \in 1..Len(q)+1
          /\ i + 1 \in 1..Len(q)+1 /\ m # i /\ m + 1 # i + 1 /\ m + 1 = j
      BY <1>1, <1>2, <2>5
    <3>2. At(h, q2, j) = a(m) /\ At(h, q2, j + 1) = a(m + 1)
      <4>1. At(h, q2, j) = a(m)
        BY <1>1, <1>7, <2>1, <2>5
      <4>2. At(h, q2, j + 1) = a((j + 1) - 1)
        BY <1>1, <1>7, <2>1, <2>5
      <4>3. (j + 1) - 1 = m + 1
        BY <1>1
      <4> QED BY <4>1, <4>2, <4>3
    <3> HIDE DEF m
    <3>3. a(m) # before /\ a(m + 1) # after
      BY <1>1, <1>4, <1>5, <3>1
    <3> QED BY <1>5, <1>6, <1>8, <1>3, <3>1, <3>2, <3>3
  <2> QED BY <1>1, <2>2, <2>3, <2>4, <2>5
<1>10. Distinct(q2)
  <2>1. SUFFICES ASSUME NEW j \in 1..Len(q2), NEW k \in 1..Len(q2), q2[j] = q2[k] PROVE j = k
    BY DEF Distinct
  <2>2. \A m \in 1..Len(q) : q[m] # e
    BY <1>1, <1>8 DEF ToSet
  <2>3. \A m, n \in 1..Len(q) : q[m] = q[n] => m = n
    BY <1>1 DEF IsList, Distinct
  <2> DEFINE p(x) == IF x <= i THEN x ELSE x - 1
  <2>4. ASSUME NEW x \in 1..Len(q2), x # i + 1
        PROVE  p(x) \in 1..Len(q) /\ q2[x] = q[p(x)]
    <3>1. CASE x <= i
      BY <1>1, <1>2, <3>1
    <3>2. CASE x > i
      BY <1>1, <1>2, <2>4, <3>2
    <3> QED BY <1>1, <3>1, <3>2
  <2>5. ASSUME j # i + 1, k # i + 1, p(j) = p(k) PROVE j = k
    BY <1>1, <1>2, <2>5
  <2>6. q2[i + 1] = e
    BY <1>1, <1>2
  <2> HIDE DEF p
  <2>7. CASE j = i + 1 \/ k = i + 1
    BY <2>1, <2>2, <2>4, <2>6, <2>7
  <2>8. CASE j # i + 1 /\ k # i + 1
    <3>1. /\ p(j) \in 1..Len(q) /\ q2[j] = q[p(j)]
          /\ p(k) \in 1..Len(q) /\ q2[k] = q[p(k)]
      BY <2>4, <2>8
    <3>2. p(j) = p(k)
      BY <2>1, <2>3, <3>1
    <3> QED BY <2>5, <2>8, <3>2
  <2> QED BY <2>7, <2>8
<1>11. IsList(r, h, q2)
  BY <1>2, <1>9, <1>10 DEF IsList, Circle
<1>12. ToSet(q2) \subseteq ToSet(q) \cup {e}
  <2>1. ASSUME NEW j \in 1..Len(q2) PROVE q2[j] \in ToSet(q) \cup {e}
    <3>1. /\ j <= i => j \in 1..Len(q)
          /\ j > i + 1 => j - 1 \in 1..Len(q)
      BY <1>1, <1>2
    <3>2. \A m \in 1..Len(q) : q[m] \in ToSet(q)
      BY <1>1 DEF ToSet
    <3>3. CASE j <= i
      BY <1>2, <3>1, <3>2, <3>3
    <3>4. CASE j = i + 1
      BY <1>1, <1>2, <3>4
    <3>5. CASE j > i + 1
      BY <1>1, <1>2, <3>1, <3>2, <3>5
    <3> QED BY <1>1, <3>3, <3>4, <3>5
  <2> QED BY <1>2, <2>1 DEF ToSet
<1>13. ASSUME NEW g \in ListHead \ {h}
       PROVE  /\ ToSet(q2) \cap ToSet(s[g]) = {}
              /\ \A n \in {g} \cup ToSet(s[g]) : r.next[n] = links.next[n] /\ r.prev[n] = links.prev[n]
  <2>1. ToSet(q) \cap ToSet(s[g]) = {}
    BY DEF Shows, q
  <2>2. ToSet(s[g]) \subseteq Entry /\ ToSet(q) \subseteq Entry
    BY DEF Shows, ToSet, q
  <2>3. ({g} \cup ToSet(s[g])) \cap ({h, e} \cup ToSet(q)) = {}
    BY <2>1, <2>2, HeadsAreNotEntries
  <2>4. {g} \cup ToSet(s[g]) \subseteq Node
    BY <2>2 DEF Node
  <2> QED BY <1>8, <1>12, <1>3, <2>1, <2>3, <2>4
<1> QED BY <1>11, <1>13, <1>3, OneListChanges
-----------------------------------------------------------------------------
(* The operations on the lists *)

\* The first entry, the last and the neighbours of any, as the links name them.
LEMMA NeighboursLinked ==
  ASSUME NEW links, NEW s, Shows(links, s), NEW h \in ListHead
  PROVE  /\ s[h] \in Seq(Entry) /\ Len(s[h]) \in Nat
         /\ links.next[h] = At(h, s[h], 1) /\ links.prev[h] = At(h, s[h], Len(s[h]))
         /\ At(h, s[h], 0) = h /\ At(h, s[h], Len(s[h]) + 1) = h
         /\ \A i \in 1..Len(s[h]) : /\ At(h, s[h], i) = s[h][i] /\ s[h][i] \in Entry
                                   /\ s[h][i] # h /\ s[h][i] \in Node
                                   /\ links.next[s[h][i]] = At(h, s[h], i + 1)
                                   /\ links.prev[s[h][i]] = At(h, s[h], i - 1)
         /\ \A i \in 0..Len(s[h])+1 : At(h, s[h], i) \in Node
         /\ \A i \in 1..Len(s[h]) : /\ At(h, s[h], i - 1) # s[h][i]
                                   /\ At(h, s[h], i + 1) # s[h][i]
<1> DEFINE q == s[h]
<1>1. IsList(links, h, q) /\ q \in Seq(Entry)
  BY DEF Shows, IsList
<1> HIDE DEF q
<1>2. /\ Len(q) \in Nat
      /\ At(h, q, 0) = h /\ At(h, q, Len(q) + 1) = h
      /\ \A i \in 1..Len(q) : At(h, q, i) = q[i] /\ q[i] \in Entry /\ q[i] # h
      /\ \A i \in 0..Len(q)+1 : At(h, q, i) \in Node
      /\ \A i, j \in 0..Len(q) : At(h, q, i) = At(h, q, j) => i = j
      /\ \A i, j \in 1..Len(q)+1 : At(h, q, i) = At(h, q, j) => i = j
  BY <1>1, PlacesDiffer
<1>3. \A i \in 0..Len(q) : links.next[At(h, q, i)] = At(h, q, i + 1) /\ links.prev[At(h, q, i + 1)] = At(h, q, i)
  BY <1>1 DEF IsList, Circle
<1>4. links.next[h] = At(h, q, 1) /\ links.prev[h] = At(h, q, Len(q))
  <2>1. 0 \in 0..Len(q) /\ Len(q) \in 0..Len(q) /\ 0 + 1 = 1
    BY <1>2
  <2> QED BY <1>2, <1>3, <2>1
<1>5. ASSUME NEW i \in 1..Len(q)
      PROVE  /\ links.next[q[i]] = At(h, q, i + 1) /\ links.prev[q[i]] = At(h, q, i - 1)
             /\ At(h, q, i - 1) # q[i] /\ At(h, q, i + 1) # q[i] /\ q[i] \in Node
  <2>1. /\ i \in 0..Len(q) /\ i - 1 \in 0..Len(q) /\ (i - 1) + 1 = i /\ i - 1 # i
        /\ i \in 1..Len(q)+1 /\ i + 1 \in 1..Len(q)+1 /\ i + 1 # i /\ i \in 0..Len(q)+1
    BY <1>2
  <2>2. links.next[At(h, q, i)] = At(h, q, i + 1)
    BY <1>3, <2>1
  <2>3. links.prev[At(h, q, (i - 1) + 1)] = At(h, q, i - 1)
    BY <1>3, <2>1
  <2>4. At(h, q, i - 1) # At(h, q, i) /\ At(h, q, i + 1) # At(h, q, i)
    BY <1>2, <2>1
  <2> QED BY <1>2, <2>1, <2>2, <2>3, <2>4
<1>6. /\ q \in Seq(Entry) /\ Len(q) \in Nat
      /\ links.next[h] = At(h, q, 1) /\ links.prev[h] = At(h, q, Len(q))
      /\ At(h, q, 0) = h /\ At(h, q, Len(q) + 1) = h
      /\ \A i \in 1..Len(q) : /\ At(h, q, i) = q[i] /\ q[i] \in Entry
                                   /\ q[i] # h /\ q[i] \in Node
                                   /\ links.next[q[i]] = At(h, q, i + 1)
                                   /\ links.prev[q[i]] = At(h, q, i - 1)
      /\ \A i \in 0..Len(q)+1 : At(h, q, i) \in Node
      /\ \A i \in 1..Len(q) : At(h, q, i - 1) # q[i] /\ At(h, q, i + 1) # q[i]
  BY <1>1, <1>2, <1>4, <1>5
<1> QED BY <1>6 DEF q

\* A list is empty by both links of its head, or by neither.
LEMMA EmptyShown ==
  ASSUME NEW links, NEW s, Shows(links, s), NEW h \in ListHead
  PROVE  /\ is_queue_empty(links, h) <=> s[h] = << >>
         /\ is_queue_empty(links, h) <=> links.next[h] = h
         /\ is_queue_empty(links, h) <=> links.prev[h] = h
<1>1. /\ s[h] \in Seq(Entry) /\ Len(s[h]) \in Nat
      /\ links.next[h] = At(h, s[h], 1) /\ links.prev[h] = At(h, s[h], Len(s[h]))
      /\ \A i \in 1..Len(s[h]) : At(h, s[h], i) = s[h][i] /\ s[h][i] # h
  BY NeighboursLinked
<1>2. CASE Len(s[h]) = 0
  <2>1. s[h] = << >>
    BY <1>1, <1>2
  <2>2. At(h, s[h], 1) = h /\ At(h, s[h], Len(s[h])) = h
    BY <1>2 DEF At
  <2> QED BY <1>1, <2>1, <2>2 DEF is_queue_empty
<1>3. CASE Len(s[h]) # 0
  <2>1. 1 \in 1..Len(s[h]) /\ Len(s[h]) \in 1..Len(s[h]) /\ s[h] # << >>
    BY <1>1, <1>3
  <2>2. links.next[h] # h /\ links.prev[h] # h
    BY <1>1, <2>1
  <2> QED BY <2>1, <2>2 DEF is_queue_empty
<1> QED BY <1>2, <1>3

\* queue_remove_entry links the neighbours of an entry to each other.
LEMMA EntryRemoved ==
  ASSUME NEW links, NEW s, Shows(links, s), NEW h \in ListHead, NEW i \in 1..Len(s[h]),
         NEW r, r = queue_remove_entry(links, s[h][i])
  PROVE  Shows(r, [s EXCEPT ![h] = RemoveAt(@, i)])
<1> DEFINE e == s[h][i]
           before == At(h, s[h], i - 1)
           after == At(h, s[h], i + 1)
<1>1. /\ e \in Node /\ links.next[e] = after /\ links.prev[e] = before /\ before # e
      /\ before \in Node /\ after \in Node
  <2>1. i - 1 \in 0..Len(s[h])+1 /\ i + 1 \in 0..Len(s[h])+1
    BY NeighboursLinked
  <2> QED BY <2>1, NeighboursLinked
<1>2. links \in Links(Node)
  BY DEF Shows
<1>3. r = queue_remove_entry(links, e)
  OBVIOUS
<1> HIDE DEF e, before, after
<1>4. /\ r \in Links(Node)
      /\ \A n \in Node : /\ r.next[n] = IF n = before THEN after ELSE links.next[n]
                        /\ r.prev[n] = IF n = after THEN before ELSE links.prev[n]
  <2>1. [links.next EXCEPT ![links.prev[e]] = links.next[e]][e] = after
    BY <1>1, <1>2 DEF Links
  <2>2. r = [next |-> [links.next EXCEPT ![before] = after], prev |-> [links.prev EXCEPT ![after] = before]]
    BY <1>1, <1>3, <2>1 DEF queue_remove_entry
  <2> QED BY <1>1, <1>2, <2>2 DEF Links
<1>5. before = At(h, s[h], i - 1) /\ after = At(h, s[h], i + 1)
  BY DEF before, after
<1> QED BY <1>4, <1>5, RemovalShown

\* The removals at the ends do to a list that is not empty what queue_remove_entry does to
\* its first entry and its last.
LEMMA EndRemoved ==
  ASSUME NEW links, NEW s, Shows(links, s), NEW h \in ListHead, s[h] # << >>
  PROVE  /\ 1 \in 1..Len(s[h]) /\ Len(s[h]) \in 1..Len(s[h])
         /\ links.next[h] = s[h][1] /\ links.prev[h] = s[h][Len(s[h])]
         /\ queue_remove_head(links, h) = queue_remove_entry(links, s[h][1])
         /\ queue_remove_tail(links, h) = queue_remove_entry(links, s[h][Len(s[h])])
<1> DEFINE first == s[h][1]
           n     == Len(s[h])
           last  == s[h][n]
<1>1. 1 \in 1..n /\ n \in 1..n
  BY NeighboursLinked
<1>2. /\ links.next[h] = first /\ first # h /\ first \in Node
      /\ links.prev[first] = h /\ links.next[first] # first
  <2>1. links.prev[first] = At(h, s[h], 1 - 1) /\ 1 - 1 = 0
    BY <1>1, NeighboursLinked
  <2> QED BY <1>1, <2>1, NeighboursLinked
<1>3. /\ links.prev[h] = last /\ last # h /\ last \in Node
      /\ links.next[last] = h /\ links.prev[last] # last
  BY <1>1, NeighboursLinked
<1>4. links \in Links(Node) /\ h \in Node
  BY DEF Shows, Node
<1> HIDE DEF first, last, n
<1>5. queue_remove_head(links, h) = queue_remove_entry(links, first)
  <2>1. [links.next EXCEPT ![h] = links.next[first]][first] = links.next[first]
    BY <1>2, <1>4 DEF Links
  <2> QED BY <1>2, <1>4, <2>1 DEF queue_remove_head, queue_remove_entry
<1>6. queue_remove_tail(links, h) = queue_remove_entry(links, last)
  <2>1. [links.next EXCEPT ![links.prev[last]] = h][last] = h
    BY <1>3, <1>4 DEF Links
  <2> QED BY <1>3, <1>4, <2>1 DEF queue_remove_tail, queue_remove_entry
<1> QED BY <1>1, <1>2, <1>3, <1>5, <1>6 DEF first, last, n
-----------------------------------------------------------------------------
(* Every step of the links is one of a list *)

\* An operation that makes the links show s2.
LEMMA StepShown ==
  ASSUME NEW s2, Shows(l', s2)
  PROVE  LinksInv' /\ Seen' = s2
<1>1. Seen' = s2
  BY ShownIsSeen, SeenOf
<1> QED BY <1>1 DEF LinksInv

LEMMA HeadAdded ==
  ASSUME LinksInv, NEW h \in ListHead, NEW e \in Entry, AddHead(h, e)
  PROVE  LinksInv' /\ Seen' = [Seen EXCEPT ![h] = <<e>> \o @] /\ \A g \in ListHead : e \notin ToSet(Seen[g])
<1> DEFINE s  == Seen
           q2 == <<e>> \o s[h]
           i  == 0
           before == h
<1>1. Shows(l, s)
  BY DEF LinksInv
<1>2. \A g \in ListHead : e \notin ToSet(s[g])
  BY DEF AddHead, Linked, Seen
<1> HIDE DEF s
<1>3. /\ s[h] \in Seq(Entry) /\ Len(s[h]) \in Nat /\ before = At(h, s[h], i) /\ l.next[h] = At(h, s[h], i + 1)
  BY <1>1, NeighboursLinked
<1>4. Inserted(q2, s[h], i, e)
  BY <1>3 DEF Inserted
<1> DEFINE after == l.next[h]
           r == l'
<1>5. h \in Node /\ e \in Node /\ after \in Node /\ l \in Links(Node) /\ i \in 0..Len(s[h])
  BY <1>1, <1>3 DEF Shows, Node, Links
<1>6. r = [next |-> [l.next EXCEPT ![e] = after, ![h] = e],
           prev |-> [[l.prev EXCEPT ![e] = h] EXCEPT ![after] = e]]
  BY DEF AddHead, queue_add_head
<1> HIDE DEF r, after, q2, i
<1>7. LinkedBetween(r, l, before, e, after)
  BY <1>5, <1>6 DEF Links, LinkedBetween
<1>8. after = At(h, s[h], i + 1)
  BY <1>3 DEF after
<1> HIDE DEF before
<1>9. Shows(r, [s EXCEPT ![h] = q2])
  BY <1>1, <1>2, <1>3, <1>4, <1>5, <1>7, <1>8, InsertionShown
<1>10. LinksInv' /\ Seen' = [s EXCEPT ![h] = q2]
  BY <1>9, StepShown DEF r
<1> QED BY <1>2, <1>10 DEF s, q2

LEMMA TailAdded ==
  ASSUME LinksInv, NEW h \in ListHead, NEW e \in Entry, AddTail(h, e)
  PROVE  LinksInv' /\ Seen' = [Seen EXCEPT ![h] = Append(@, e)] /\ \A g \in ListHead : e \notin ToSet(Seen[g])
<1> DEFINE s  == Seen
           q2 == Append(s[h], e)
           i  == Len(s[h])
           after == h
<1>1. Shows(l, s)
  BY DEF LinksInv
<1>2. \A g \in ListHead : e \notin ToSet(s[g])
  BY DEF AddTail, Linked, Seen
<1> HIDE DEF s
<1>3. /\ s[h] \in Seq(Entry) /\ Len(s[h]) \in Nat /\ after = At(h, s[h], i + 1) /\ l.prev[h] = At(h, s[h], i)
  BY <1>1, NeighboursLinked
<1>4. Inserted(q2, s[h], i, e)
  BY <1>3 DEF Inserted
<1> DEFINE before == l.prev[h]
           r == l'
<1>5. h \in Node /\ e \in Node /\ before \in Node /\ l \in Links(Node) /\ i \in 0..Len(s[h])
  BY <1>1, <1>3 DEF Shows, Node, Links
<1>6. r = [next |-> [[l.next EXCEPT ![e] = h] EXCEPT ![before] = e],
           prev |-> [l.prev EXCEPT ![e] = before, ![h] = e]]
  BY DEF AddTail, queue_add_tail
<1> HIDE DEF r, before, q2, i
<1>7. LinkedBetween(r, l, before, e, after)
  BY <1>5, <1>6 DEF Links, LinkedBetween
<1>8. before = At(h, s[h], i)
  BY <1>3 DEF before
<1> HIDE DEF after
<1>9. Shows(r, [s EXCEPT ![h] = q2])
  BY <1>1, <1>2, <1>3, <1>4, <1>5, <1>7, <1>8, InsertionShown
<1>10. LinksInv' /\ Seen' = [s EXCEPT ![h] = q2]
  BY <1>9, StepShown DEF r
<1> QED BY <1>2, <1>10 DEF s, q2

\* An entry that is removed, at a place of its list.
LEMMA PlaceRemoved ==
  ASSUME LinksInv, NEW h \in ListHead, NEW i \in 1..Len(Seen[h]),
         l' = queue_remove_entry(l, Seen[h][i])
  PROVE  LinksInv' /\ Seen' = [Seen EXCEPT ![h] = RemoveAt(@, i)]
<1> DEFINE s == Seen
<1>1. Shows(l, s) /\ i \in 1..Len(s[h]) /\ l' = queue_remove_entry(l, s[h][i])
  BY DEF LinksInv
<1> HIDE DEF s
<1>2. Shows(l', [s EXCEPT ![h] = RemoveAt(@, i)])
  BY <1>1, EntryRemoved
<1>3. LinksInv' /\ Seen' = [s EXCEPT ![h] = RemoveAt(@, i)]
  BY <1>2, StepShown
<1> QED BY <1>3 DEF s

\* The links of an entry that is in no list are nobody's.
LEMMA FreeLinksChange ==
  ASSUME LinksInv, NEW e \in Entry, ~Linked(e), l' \in Links(Node),
         \A n \in Node \ {e} : l'.next[n] = l.next[n] /\ l'.prev[n] = l.prev[n]
  PROVE  LinksInv' /\ Seen' = Seen
<1> DEFINE s == Seen
<1>1. Shows(l, s)
  BY DEF LinksInv
<1>2. \A g \in ListHead : e \notin ToSet(s[g])
  BY DEF Linked, Seen
<1> HIDE DEF s
<1>3. ASSUME NEW h \in ListHead PROVE IsList(l', h, s[h])
  <2>1. e \notin {h} \cup ToSet(s[h]) /\ {h} \cup ToSet(s[h]) \subseteq Node
    BY <1>1, <1>2, HeadsAreNotEntries DEF Shows, Node, ToSet
  <2>2. IsList(l, h, s[h])
    BY <1>1 DEF Shows
  <2> DEFINE r == l'
  <2>3. \A n \in {h} \cup ToSet(s[h]) : r.next[n] = l.next[n] /\ r.prev[n] = l.prev[n]
    BY <2>1
  <2> HIDE DEF r
  <2>4. IsList(r, h, s[h])
    BY <2>2, <2>3, ListKept
  <2> QED BY <2>4 DEF r
<1>4. Shows(l', s)
  BY <1>1, <1>3 DEF Shows
<1>5. LinksInv' /\ Seen' = s
  BY <1>4, StepShown
<1> QED BY <1>5 DEF s

\* A step of the links, and what the lists see of it.
LEMMA FreeEntrySeen ==
  ASSUME NEW e
  PROVE  Lists!Free(e) <=> \A g \in ListHead : e \notin ToSet(Seen[g])
<1>1. \A g \in ListHead : [h \in ListHead |-> Contents(h)][g] = Seen[g]
  BY DEF Seen
<1> QED BY <1>1 DEF Lists!Free, Lists!ToSet, ToSet

LEMMA LinkedIsListed ==
  ASSUME NEW e, Linked(e), LinksInv
  PROVE  \E h \in ListHead : \E i \in 1..Len(Seen[h]) : Seen[h][i] = e
<1>1. PICK h \in ListHead : e \in ToSet(Seen[h])
  BY DEF Linked, Seen
<1>2. Seen[h] \in Seq(Entry)
  BY DEF LinksInv, Shows
<1> QED BY <1>1, <1>2 DEF ToSet

LEMMA HeadRemovedSeen ==
  ASSUME LinksInv, NEW h \in ListHead, ~is_queue_empty(l, h),
         l' = queue_remove_entry(l, Seen[h][1])
  PROVE  LinksInv' /\ Seen[h] # << >> /\ Seen' = [Seen EXCEPT ![h] = Tail(@)]
<1> DEFINE s == Seen
<1>1. Shows(l, s) /\ s[h] \in Seq(Entry)
  BY DEF LinksInv, Shows
<1> HIDE DEF s
<1>2. s[h] # << >>
  BY <1>1, EmptyShown
<1>3. 1 \in 1..Len(s[h])
  BY <1>1, <1>2, EndRemoved
<1>4. LinksInv' /\ Seen' = [s EXCEPT ![h] = RemoveAt(@, 1)]
  BY <1>3, PlaceRemoved DEF s
<1>5. RemoveAt(s[h], 1) = Tail(s[h])
  <2> DEFINE q == s[h]
             r == RemoveAt(q, 1)
  <2>1. q \in Seq(Entry) /\ 1 \in 1..Len(q) /\ q # << >>
    BY <1>1, <1>2, <1>3
  <2> HIDE DEF q
  <2>2. /\ r \in Seq(Entry) /\ Len(r) = Len(q) - 1
        /\ \A n \in 1..Len(r) : r[n] = IF n < 1 THEN q[n] ELSE q[n + 1]
    BY <2>1, RemoveAtPlaces
  <2>3. /\ Tail(q) \in Seq(Entry) /\ Len(Tail(q)) = Len(q) - 1
        /\ \A n \in 1..Len(Tail(q)) : Tail(q)[n] = q[n + 1]
    BY <2>1, HeadTailProperties
  <2> HIDE DEF r
  <2>4. \A n \in 1..Len(r) : r[n] = Tail(q)[n]
    BY <2>2, <2>3
  <2>5. r = Tail(q)
    BY <2>2, <2>3, <2>4, SeqEqual
  <2> QED BY <2>5 DEF r, q
<1> QED BY <1>2, <1>4, <1>5 DEF s

LEMMA TailRemovedSeen ==
  ASSUME LinksInv, NEW h \in ListHead, ~is_queue_empty(l, h),
         l' = queue_remove_entry(l, Seen[h][Len(Seen[h])])
  PROVE  LinksInv' /\ Seen[h] # << >> /\ Seen' = [Seen EXCEPT ![h] = Front(@)]
<1> DEFINE s == Seen
<1>1. Shows(l, s) /\ s[h] \in Seq(Entry)
  BY DEF LinksInv, Shows
<1> HIDE DEF s
<1>2. s[h] # << >>
  BY <1>1, EmptyShown
<1>3. Len(s[h]) \in 1..Len(s[h])
  BY <1>1, <1>2, EndRemoved
<1>4. LinksInv' /\ Seen' = [s EXCEPT ![h] = RemoveAt(@, Len(@))]
  BY <1>3, PlaceRemoved DEF s
<1>5. RemoveAt(s[h], Len(s[h])) = Front(s[h])
  <2> DEFINE q == s[h]
             r == RemoveAt(q, Len(q))
             f == SubSeq(q, 1, Len(q) - 1)
  <2>1. q \in Seq(Entry) /\ Len(q) \in 1..Len(q)
    BY <1>1, <1>3
  <2> HIDE DEF q
  <2>2. /\ r \in Seq(Entry) /\ Len(r) = Len(q) - 1
        /\ \A n \in 1..Len(r) : r[n] = IF n < Len(q) THEN q[n] ELSE q[n + 1]
    BY <2>1, RemoveAtPlaces
  <2>3. f \in Seq(Entry) /\ Len(f) = Len(q) - 1 /\ \A n \in 1..Len(q)-1 : f[n] = q[n]
    <3> DEFINE m == Len(q) - 1
    <3>1. m \in Nat /\ m <= Len(q)
      BY <2>1
    <3> HIDE DEF m
    <3>2. /\ SubSeq(q, 1, m) \in Seq(Entry) /\ Len(SubSeq(q, 1, m)) = m
          /\ \A n \in 1..m : SubSeq(q, 1, m)[n] = q[n]
      BY <2>1, <3>1
    <3> QED BY <3>2 DEF m
  <2> HIDE DEF r, f
  <2>4. \A n \in 1..Len(r) : r[n] = f[n]
    BY <2>1, <2>2, <2>3
  <2>5. r = f
    BY <2>2, <2>3, <2>4, SeqEqual
  <2> QED BY <2>5 DEF r, q, f, Front
<1> QED BY <1>2, <1>4, <1>5 DEF s

\* Removing an entry that has just been removed from the head changes nothing: its own
\* links are still those of its neighbours.
LEMMA RemovedTwice ==
  ASSUME LinksInv, NEW h \in ListHead, NEW i \in 1..Len(Seen[h]),
         NEW e, e = Seen[h][i]
  PROVE  queue_remove_entry(queue_remove_entry(l, e), e) = queue_remove_entry(l, e)
<1> DEFINE s == Seen
<1>1. Shows(l, s) /\ l \in Links(Node)
  BY DEF LinksInv, Shows
<1>2. i \in 1..Len(s[h]) /\ e = s[h][i]
  OBVIOUS
<1> HIDE DEF s
<1> DEFINE before == l.prev[e]
           after == l.next[e]
<1>3. e \in Node /\ before # e /\ after # e
  BY <1>1, <1>2, NeighboursLinked
<1>4. before \in Node /\ after \in Node
  BY <1>1, <1>3 DEF Links
<1> HIDE DEF before, after
<1>5. \A k \in Links(Node) : k.next[e] = after /\ k.prev[e] = before =>
        queue_remove_entry(k, e) = [next |-> [k.next EXCEPT ![before] = after],
                                    prev |-> [k.prev EXCEPT ![after] = before]]
  BY <1>3, <1>4 DEF queue_remove_entry, Links
<1> DEFINE r == [next |-> [l.next EXCEPT ![before] = after],
                 prev |-> [l.prev EXCEPT ![after] = before]]
<1>6. queue_remove_entry(l, e) = r
  BY <1>1, <1>5 DEF before, after
<1>7. r \in Links(Node) /\ r.next[e] = after /\ r.prev[e] = before
  BY <1>1, <1>3, <1>4 DEF Links, before, after
<1>8. [r.next EXCEPT ![before] = after] = r.next /\ [r.prev EXCEPT ![after] = before] = r.prev
  BY <1>1, <1>4 DEF Links
<1>9. queue_remove_entry(r, e) = [next |-> r.next, prev |-> r.prev]
  <2> HIDE DEF r
  <2> QED BY <1>5, <1>7, <1>8
<1> QED BY <1>6, <1>9

\* The operators that KernLists takes from the same library.
LEMMA SameLibrary ==
  /\ \A q, i : Lists!RemoveAt(q, i) = RemoveAt(q, i)
  /\ \A q : Lists!Front(q) = Front(q)
BY DEF Lists!RemoveAt, RemoveAt, Lists!Front, Front

LEMMA StepIsSeen ==
  ASSUME LinksInv, Next
  PROVE  LinksInv' /\ (Seen' = Seen \/ Lists!Next)
<1>0. /\ l \in Links(Node) /\ Seen \in [ListHead -> Seq(Entry)]
      /\ \A h \in ListHead : [g \in ListHead |-> Contents(g)][h] = Seen[h]
      /\ Seen = [g \in ListHead |-> Contents(g)] /\ Seen' = [g \in ListHead |-> Contents(g)']
  BY DEF LinksInv, Shows, Seen
<1>1. ASSUME NEW h \in ListHead, RemoveHead(h)
      PROVE  LinksInv' /\ Lists!RemoveHead(h)
  <2>1. l' = queue_remove_entry(l, Seen[h][1])
    BY <1>1, EmptyShown, EndRemoved DEF RemoveHead, LinksInv
  <2>2. LinksInv' /\ Seen[h] # << >> /\ Seen' = [Seen EXCEPT ![h] = Tail(@)]
    BY <1>1, <2>1, HeadRemovedSeen DEF RemoveHead
  <2> QED BY <1>0, <2>2 DEF Lists!RemoveHead
<1>2. ASSUME NEW h \in ListHead, RemoveTail(h)
      PROVE  LinksInv' /\ Lists!RemoveTail(h)
  <2>1. l' = queue_remove_entry(l, Seen[h][Len(Seen[h])])
    BY <1>2, EmptyShown, EndRemoved DEF RemoveTail, LinksInv
  <2>2. LinksInv' /\ Seen[h] # << >> /\ Seen' = [Seen EXCEPT ![h] = Front(@)]
    BY <1>2, <2>1, TailRemovedSeen DEF RemoveTail
  <2> QED BY <1>0, <2>2, SameLibrary DEF Lists!RemoveTail
<1>3. ASSUME NEW h \in ListHead, RemoveWaiter(h)
      PROVE  LinksInv' /\ Lists!RemoveHead(h)
  <2>1. Seen[h] # << >>
    BY <1>3, EmptyShown DEF RemoveWaiter, LinksInv
  <2>2. /\ l.next[h] = Seen[h][1] /\ 1 \in 1..Len(Seen[h])
        /\ queue_remove_head(l, h) = queue_remove_entry(l, Seen[h][1])
    BY <2>1, EndRemoved DEF LinksInv
  <2>3. queue_remove_entry(queue_remove_entry(l, Seen[h][1]), Seen[h][1]) = queue_remove_entry(l, Seen[h][1])
    BY <2>2, RemovedTwice
  <2>4. l' = queue_remove_entry(l, Seen[h][1])
    BY <1>3, <2>2, <2>3 DEF RemoveWaiter
  <2>5. LinksInv' /\ Seen[h] # << >> /\ Seen' = [Seen EXCEPT ![h] = Tail(@)]
    BY <1>3, <2>4, HeadRemovedSeen DEF RemoveWaiter
  <2> QED BY <1>0, <2>5 DEF Lists!RemoveHead
<1>4. ASSUME NEW h \in ListHead, NEW e \in Entry, AddHead(h, e)
      PROVE  LinksInv' /\ Lists!AddHead(h, e)
  <2>1. LinksInv' /\ Seen' = [Seen EXCEPT ![h] = <<e>> \o @] /\ \A g \in ListHead : e \notin ToSet(Seen[g])
    BY <1>4, HeadAdded
  <2> QED BY <1>0, <2>1, FreeEntrySeen DEF Lists!AddHead
<1>5. ASSUME NEW h \in ListHead, NEW e \in Entry, AddTail(h, e)
      PROVE  LinksInv' /\ Lists!AddTail(h, e)
  <2>1. LinksInv' /\ Seen' = [Seen EXCEPT ![h] = Append(@, e)] /\ \A g \in ListHead : e \notin ToSet(Seen[g])
    BY <1>5, TailAdded
  <2> QED BY <1>0, <2>1, FreeEntrySeen DEF Lists!AddTail
<1>6. ASSUME NEW e \in Entry, RemoveEntry(e)
      PROVE  LinksInv' /\ (Seen' = Seen \/ Lists!RemoveEntry(e))
  <2>1. CASE Linked(e)
    <3>0. PICK h \in ListHead : \E i \in 1..Len(Seen[h]) : Seen[h][i] = e
      BY <2>1, LinkedIsListed
    <3>1. PICK i \in 1..Len(Seen[h]) : Seen[h][i] = e
      BY <3>0
    <3>2. LinksInv' /\ Seen' = [Seen EXCEPT ![h] = RemoveAt(@, i)]
      BY <1>6, <3>1, PlaceRemoved DEF RemoveEntry
    <3>3. i \in DOMAIN Seen[h]
      BY <1>0
    <3>4. Seen' = [Seen EXCEPT ![h] = Lists!RemoveAt(@, i)]
      BY <3>2, SameLibrary
    <3>5. \E g \in ListHead : \E j \in DOMAIN Seen[g] :
            Seen[g][j] = e /\ Seen' = [Seen EXCEPT ![g] = Lists!RemoveAt(@, j)]
      BY <3>1, <3>3, <3>4
    <3>6. Lists!RemoveEntry(e)
      BY <3>5 DEF Lists!RemoveEntry, Seen
    <3> QED BY <3>2, <3>6
  <2>2. CASE ~Linked(e)
    <3>1. l.next[e] = e /\ l.prev[e] = e /\ l' = queue_remove_entry(l, e) /\ e \in Node
      BY <1>6, <2>2 DEF RemoveEntry, Node
    <3>2. l' = l
      BY <1>0, <3>1 DEF queue_remove_entry, Links
    <3>3. LinksInv' /\ Seen' = Seen
      BY <1>0, <2>2, <3>2, FreeLinksChange
    <3> QED BY <3>3
  <2> QED BY <2>1, <2>2
<1>7. ASSUME NEW e \in Entry, Reset(e)
      PROVE  LinksInv' /\ Seen' = Seen
  <2>1. ~Linked(e) /\ l' = queue_reset(l, e) /\ e \in Node
    BY <1>7 DEF Reset, Node
  <2>2. l' \in Links(Node) /\ \A n \in Node \ {e} : l'.next[n] = l.next[n] /\ l'.prev[n] = l.prev[n]
    BY <1>0, <2>1 DEF queue_reset, Links
  <2> QED BY <2>1, <2>2, FreeLinksChange
<1> QED BY <1>1, <1>2, <1>3, <1>4, <1>5, <1>6, <1>7 DEF Next, Lists!Next
-----------------------------------------------------------------------------
(* The walks of can.c and can_lib.c *)

LEMMA NodesCounted == Cardinality(Node) \in Nat
BY HeadsAreNotEntries, FS_CardinalityType DEF Node

\* The walk from a place of the list on meets the entries that follow, and stays at the head.
LEMMA WalkMeets ==
  ASSUME NEW links, NEW h \in ListHead, NEW q, IsList(links, h, q), NEW k \in 1..Len(q)+1,
         NEW ends, h \in ends, ends \cap ToSet(q) = {}
  PROVE  \A i \in Steps : Walk(links, At(h, q, k), ends)[i] = At(h, q, k + i)
<1> DEFINE n == Cardinality(Node)
           F(f) == f = [i \in 0..n |-> IF i = 0 THEN At(h, q, k)
                                       ELSE IF f[i-1] \in ends THEN f[i-1] ELSE links.next[f[i-1]]]
           g == [i \in 0..n |-> At(h, q, k + i)]
           c == CHOOSE f : F(f)
<1>1. Walk(links, At(h, q, k), ends) = c
  BY DEF Walk, Steps
<1>n. n \in Nat
  BY NodesCounted
<1> HIDE DEF n
<1>2. F(g)
  <2>1. Len(q) \in Nat /\ \A i \in 1..Len(q) : q[i] \in Entry /\ q[i] \notin ends
    <3>1. Len(q) \in Nat /\ q \in Seq(Entry)
      BY DEF IsList
    <3>2. \A i \in 1..Len(q) : q[i] \in ToSet(q)
      BY <3>1 DEF ToSet
    <3> QED BY <3>1, <3>2
  <2>2. At(h, q, k + 0) = At(h, q, k)
    BY <2>1
  <2>3. ASSUME NEW i \in 1..n
        PROVE  At(h, q, k + i) = IF At(h, q, k + (i - 1)) \in ends THEN At(h, q, k + (i - 1))
                                 ELSE links.next[At(h, q, k + (i - 1))]
    <3> DEFINE m == k + (i - 1)
    <3>0. m \in Nat /\ m >= 1 /\ m + 1 = k + i
      BY <1>n, <2>1
    <3> HIDE DEF m
    <3>1. CASE m \in 1..Len(q)
      <4>1. At(h, q, m) \notin ends
        BY <2>1, <3>1 DEF At
      <4>2. links.next[At(h, q, m)] = At(h, q, m + 1)
        BY <2>1, <3>1 DEF IsList, Circle
      <4> QED BY <3>0, <4>1, <4>2 DEF m
    <3>2. CASE m \notin 1..Len(q)
      <4>1. At(h, q, m) = h /\ At(h, q, m + 1) = h
        BY <2>1, <3>0, <3>2 DEF At
      <4> QED BY <3>0, <4>1 DEF m
    <3> QED BY <3>1, <3>2
  <2>4. \A i \in 1..n : g[i-1] = At(h, q, k + (i - 1))
    BY <1>n
  <2>5. ASSUME NEW i \in 0..n
        PROVE  g[i] = IF i = 0 THEN At(h, q, k)
                      ELSE IF g[i-1] \in ends THEN g[i-1] ELSE links.next[g[i-1]]
    <3>1. CASE i = 0
      BY <2>2, <3>1
    <3>2. CASE i # 0
      <4>1. i \in 1..n /\ g[i] = At(h, q, k + i)
        BY <1>n, <3>2
      <4> HIDE DEF g
      <4> QED BY <2>3, <2>4, <3>2, <4>1
    <3> QED BY <3>1, <3>2
  <2> QED BY <2>5
<1>3. F(c)
  <2> HIDE DEF F, g
  <2> QED BY <1>2
<1>0. ASSUME NEW f, F(f)
      PROVE  /\ f[0] = At(h, q, k)
             /\ \A m \in 1..n : f[m] = IF f[m-1] \in ends THEN f[m-1] ELSE links.next[f[m-1]]
  <2> DEFINE E(i) == IF i = 0 THEN At(h, q, k) ELSE IF f[i-1] \in ends THEN f[i-1] ELSE links.next[f[i-1]]
  <2>1. f = [i \in 0..n |-> E(i)]
    BY <1>0
  <2>2. \A i \in 0..n : f[i] = E(i)
    <3> HIDE DEF E
    <3> QED BY <2>1
  <2> QED BY <1>n, <2>2
<1> HIDE DEF c, F
<1>4. ASSUME NEW i \in 0..n PROVE c[i] = g[i]
  <2> DEFINE G == {m \in 0..n : c[m] = g[m]}
  <2> HIDE DEF g
  <2>1. 0 \in G
    BY <1>0, <1>2, <1>3, <1>n
  <2>2. ASSUME NEW m \in 1..i, m-1 \in G PROVE m \in G
    <3>1. m \in 1..n /\ c[m-1] = g[m-1]
      BY <2>2, <1>n
    <3> QED BY <1>0, <1>2, <1>3, <3>1
  <2> HIDE DEF G
  <2>3. i \in G
    BY <2>1, <2>2, UpTo, <1>n
  <2> QED BY <2>3 DEF G
<1> QED BY <1>1, <1>4 DEF Steps, n

\* A walk that begins at the first entry meets the entries of the list, and ends at the head.
LEMMA WalkFinds ==
  ASSUME NEW links, NEW s, Shows(links, s), NEW h \in ListHead, NEW ends, ends = {h}
  PROVE  /\ Walk(links, links.next[h], ends)[Cardinality(Node)] = h
         /\ \A e \in Entry : (\E i \in Steps : Walk(links, links.next[h], ends)[i] = e) <=> e \in ToSet(s[h])
<1> DEFINE q == s[h]
           w == Walk(links, links.next[h], ends)
<1>1. /\ IsList(links, h, q) /\ q \in Seq(Entry) /\ Len(q) \in Nat /\ links.next[h] = At(h, q, 1)
      /\ \A i \in 1..Len(q) : q[i] \in Entry /\ q[i] # h
  <2>1. IsList(links, h, q)
    BY DEF Shows
  <2> QED BY <2>1, NeighboursLinked
<1> HIDE DEF q
<1>2. Len(q) \in 0..Cardinality(Node)
  BY <1>1, ListFits DEF IsList
<1>3. ends \cap ToSet(q) = {}
  BY <1>1, HeadsAreNotEntries DEF ToSet
<1>4. \A i \in Steps : w[i] = At(h, q, 1 + i)
  <2>1. 1 \in 1..Len(q)+1 /\ h \in ends
    BY <1>1
  <2>2. \A i \in Steps : Walk(links, At(h, q, 1), ends)[i] = At(h, q, 1 + i)
    BY <1>1, <1>3, <2>1, WalkMeets
  <2> QED BY <1>1, <2>2
<1> HIDE DEF w
<1>5. w[Cardinality(Node)] = h
  BY <1>1, <1>2, <1>4, NodesCounted DEF Steps, At
<1>6. ASSUME NEW e \in Entry PROVE (\E i \in Steps : w[i] = e) <=> e \in ToSet(q)
  <2>1. ASSUME NEW i \in Steps, w[i] = e PROVE e \in ToSet(q)
    <3>1. At(h, q, 1 + i) = e /\ e # h
      BY <1>4, <2>1, HeadsAreNotEntries
    <3>2. 1 + i \in 1..Len(q) /\ q[1 + i] = e
      BY <3>1 DEF At
    <3> QED BY <1>1, <3>2 DEF ToSet
  <2>2. ASSUME e \in ToSet(q) PROVE \E i \in Steps : w[i] = e
    <3>1. PICK j \in 1..Len(q) : q[j] = e
      BY <1>1, <2>2 DEF ToSet
    <3> DEFINE i == j - 1
    <3>2. i \in Steps /\ 1 + i = j
      BY <1>1, <1>2, NodesCounted DEF Steps
    <3>3. w[i] = e
      BY <1>4, <3>1, <3>2 DEF At
    <3> QED BY <3>2, <3>3
  <2> QED BY <2>1, <2>2
<1> QED BY <1>5, <1>6 DEF w, q

\* The size of a list of at least two entries leaves one out.
LEMMA SizeShown ==
  ASSUME NEW links, NEW s, Shows(links, s), NEW h \in ListHead
  PROVE  SizeOf(links, h, is_queue_empty(links, h)) = IF Len(s[h]) <= 1 THEN Len(s[h]) ELSE Len(s[h]) - 1
<1> DEFINE q     == s[h]
           first == links.next[h]
           two   == links.next[first]
           ends  == {h}
           n     == IF two = first THEN 0 ELSE CountFrom(links, two, h)
<1>1. /\ IsList(links, h, q) /\ q \in Seq(Entry) /\ Len(q) \in Nat /\ first = At(h, q, 1)
      /\ \A i \in 1..Len(q) : /\ At(h, q, i) = q[i] /\ q[i] \in Entry /\ q[i] # h
                             /\ links.next[q[i]] = At(h, q, i + 1) /\ At(h, q, i + 1) # q[i]
  <2>1. IsList(links, h, q)
    BY DEF Shows
  <2> QED BY <2>1, NeighboursLinked
<1>2. SizeOf(links, h, is_queue_empty(links, h)) = IF ~is_queue_empty(links, h) /\ n = 0 THEN 1 ELSE n
  BY DEF SizeOf
<1>3. is_queue_empty(links, h) <=> Len(q) = 0
  <2>1. is_queue_empty(links, h) <=> q = << >>
    BY EmptyShown
  <2> QED BY <1>1, <2>1
<1>4. CASE Len(q) = 0
  <2>1. first = h
    BY <1>1, <1>4 DEF At
  <2>2. n = 0
    BY <2>1
  <2> HIDE DEF n, q
  <2> QED BY <1>2, <1>3, <1>4, <2>2 DEF q
<1>5. CASE Len(q) # 0
  <2>1. 1 \in 1..Len(q) /\ 2 \in 1..Len(q)+1 /\ 1 + 1 = 2 /\ Len(q) - 1 \in Nat
    BY <1>1, <1>5
  <2>2. first = q[1] /\ two = At(h, q, 2) /\ two # first
    BY <1>1, <2>1
  <2>3. Len(q) \in 0..Cardinality(Node)
    BY <1>1, ListFits DEF IsList
  <2> HIDE DEF q, first
  <2>4. ends \cap ToSet(q) = {}
    BY <1>1, HeadsAreNotEntries DEF ToSet
  <2> DEFINE w == Walk(links, two, ends)
             met == {i \in Steps : w[i] # h}
  <2>5. \A i \in Steps : w[i] = At(h, q, 2 + i)
    <3>1. h \in ends
      OBVIOUS
    <3> HIDE DEF ends
    <3>2. \A i \in Steps : Walk(links, At(h, q, 2), ends)[i] = At(h, q, 2 + i)
      BY <1>1, <2>1, <2>4, <3>1, WalkMeets
    <3> HIDE DEF two
    <3> QED BY <2>2, <3>2
  <2>6. n = Cardinality(met)
    BY <2>2 DEF CountFrom
  <2> HIDE DEF w, n
  <2>7. met = 0..(Len(q)-1)-1
    <3>1. \A i \in Steps : w[i] # h <=> 2 + i \in 1..Len(q)
      BY <1>1, <2>5 DEF At
    <3>2. \A i \in Steps : 2 + i \in 1..Len(q) <=> i \in 0..(Len(q)-1)-1
      BY <1>1, NodesCounted DEF Steps
    <3>3. 0..(Len(q)-1)-1 \subseteq Steps
      BY <1>1, <2>3, NodesCounted DEF Steps
    <3> QED BY <3>1, <3>2, <3>3
  <2> HIDE DEF met
  <2>8. n = Len(q) - 1
    <3> DEFINE m == Len(q) - 1
    <3> HIDE DEF m
    <3>1. m \in Nat /\ met = 0..m-1
      BY <2>1, <2>7 DEF m
    <3>2. Cardinality(met) = m
      BY <3>1, CountUpTo
    <3> QED BY <2>6, <3>2 DEF m
  <2> DEFINE size == SizeOf(links, h, is_queue_empty(links, h))
  <2>9. size = IF Len(q) - 1 = 0 THEN 1 ELSE Len(q) - 1
    BY <1>2, <1>3, <1>5, <2>8
  <2> HIDE DEF size
  <2>10. size = IF Len(q) <= 1 THEN Len(q) ELSE Len(q) - 1
    <3> DEFINE m == Len(q)
    <3>1. m \in Nat /\ m # 0 /\ size = IF m - 1 = 0 THEN 1 ELSE m - 1
      BY <1>1, <1>5, <2>9
    <3> HIDE DEF m
    <3>2. size = IF m <= 1 THEN m ELSE m - 1
      <4>1. CASE m = 1
        BY <3>1, <4>1
      <4>2. CASE m # 1
        BY <3>1, <4>2
      <4> QED BY <4>1, <4>2
    <3> QED BY <3>2 DEF m
  <2> QED BY <2>10 DEF q, size
<1> QED BY <1>4, <1>5

\* A list has as many entries as places.
LEMMA ListCounted ==
  ASSUME NEW q \in Seq(Entry), Distinct(q)
  PROVE  Cardinality(ToSet(q)) = Len(q)
<1>1. Len(q) \in Nat /\ IsFiniteSet(1..Len(q)) /\ Cardinality(1..Len(q)) = Len(q)
  BY CountUpTo
<1> DEFINE f == [i \in 1..Len(q) |-> q[i]]
<1>2. f \in Bijection(1..Len(q), ToSet(q))
  <2>1. \A i \in 1..Len(q) : f[i] = q[i] /\ q[i] \in ToSet(q)
    BY DEF ToSet
  <2>2. \A x \in ToSet(q) : \E i \in 1..Len(q) : q[i] = x
    BY DEF ToSet
  <2>3. f \in [1..Len(q) -> ToSet(q)]
    BY <2>1
  <2> HIDE DEF f
  <2> QED BY <2>1, <2>2, <2>3 DEF Bijection, Injection, Surjection, IsInjective, Distinct
<1>3. Cardinality(1..Len(q)) = Cardinality(ToSet(q))
  <2> HIDE DEF f
  <2>1. ExistsBijection(1..Len(q), ToSet(q))
    BY <1>2 DEF ExistsBijection
  <2> QED BY <1>1, <2>1, FS_Bijection
<1> QED BY <1>1, <1>3
\* A disposal removes the last entry of the list in every round, until there is none.
LEMMA DisposedShown ==
  ASSUME NEW links, NEW s, Shows(links, s), NEW h \in ListHead
  PROVE  /\ is_queue_empty(can_dispose_que(links, h), h)
         /\ is_queue_empty(ecu_dispose_que(links, h), h)
<1> DEFINE n    == Cardinality(Node)
           E(x) == IF is_queue_empty(x, h) THEN x ELSE queue_remove_tail(x, h)
           F(f, m) == f = [i \in 0..m |-> IF i = 0 THEN links ELSE E(f[i-1])]
           left == CHOOSE f : F(f, n)
<1>1. can_dispose_que(links, h) = left[n] /\ ecu_dispose_que(links, h) = left[n]
  BY DEF can_dispose_que, ecu_dispose_que, can_is_queue_empty, ecu_is_queue_empty,
         can_queue_remove_tail, ecu_queue_remove_tail, Steps
<1>2. n \in Nat
  BY NodesCounted
<1> HIDE DEF n
<1>3. \E f : F(f, n)
  <2> DEFINE G == {m \in 0..n : \E f : F(f, m)}
  <2> HIDE DEF E
  <2>1. 0 \in G
    <3> DEFINE f == [i \in 0..0 |-> links]
    <3>1. F(f, 0)
      OBVIOUS
    <3>2. \E g : F(g, 0)
      BY <3>1
    <3> HIDE DEF f, F
    <3> QED BY <1>2, <3>2
  <2>2. ASSUME NEW m \in 1..n, m-1 \in G PROVE m \in G
    <3>1. PICK f : F(f, m-1)
      BY <2>2
    <3> DEFINE g == [i \in 0..m |-> IF i = m THEN E(f[m-1]) ELSE f[i]]
    <3>0. m \in Nat /\ m # 0 /\ m \in 0..n
      BY <1>2
    <3>2. \A i \in 0..m-1 : f[i] = IF i = 0 THEN links ELSE E(f[i-1])
      BY <3>1
    <3>3. ASSUME NEW i \in 0..m PROVE g[i] = IF i = 0 THEN links ELSE E(g[i-1])
      <4>1. CASE i = 0
        BY <3>0, <3>2, <4>1
      <4>2. CASE i = m
        BY <3>0, <4>2
      <4>3. CASE i # 0 /\ i # m
        <5>1. i \in 0..m-1 /\ i-1 \in 0..m /\ i-1 # m
          BY <3>0, <4>3
        <5>2. g[i] = f[i] /\ g[i-1] = f[i-1]
          BY <4>3, <5>1
        <5> HIDE DEF g
        <5> QED BY <3>2, <4>3, <5>1, <5>2
      <4> QED BY <4>1, <4>2, <4>3
    <3>4. F(g, m)
      BY <3>3
    <3> QED BY <3>0, <3>4
  <2> HIDE DEF F, G
  <2>3. n \in G
    BY <1>2, <2>1, <2>2, UpTo
  <2> QED BY <2>3 DEF G
<1>4. F(left, n)
  <2> HIDE DEF F
  <2> QED BY <1>3
<1> HIDE DEF left
<1>5. left[0] = links /\ \A i \in 1..n : left[i] = E(left[i-1])
  <2> HIDE DEF E
  <2>1. \A i \in 0..n : left[i] = IF i = 0 THEN links ELSE E(left[i-1])
    BY <1>4
  <2> QED BY <1>2, <2>1
<1> HIDE DEF F
<1> DEFINE G == {i \in 0..n : \E s2 : Shows(left[i], s2) /\ Len(s2[h]) <= n - i}
<1>6. 0 \in G
  <2>1. IsList(links, h, s[h]) /\ s[h] \in Seq(Entry)
    BY DEF Shows
  <2>2. Len(s[h]) \in 0..n
    BY <2>1, ListFits DEF IsList, n
  <2>3. Len(s[h]) <= n - 0
    BY <1>2, <2>2
  <2> QED BY <1>2, <1>5, <2>3
<1>7. ASSUME NEW i \in 1..n, i-1 \in G PROVE i \in G
  <2>1. PICK s2 : Shows(left[i-1], s2) /\ Len(s2[h]) <= n - (i-1)
    BY <1>7
  <2> DEFINE x == left[i-1]
             q == s2[h]
             m == Len(q)
             r == left[i]
  <2>2. Shows(x, s2) /\ m \in Nat /\ q \in Seq(Entry) /\ m <= n - (i-1)
    BY <2>1, NeighboursLinked
  <2>3. r = E(x) /\ i \in 0..n
    BY <1>2, <1>5
  <2> HIDE DEF x, r
  <2>4. CASE is_queue_empty(x, h)
    <3>1. q = << >>
      BY <2>2, <2>4, EmptyShown
    <3>2. r = x
      BY <2>3, <2>4
    <3>3. Len(s2[h]) <= n - i
      BY <1>2, <3>1
    <3> QED BY <2>2, <2>3, <3>2, <3>3 DEF r
  <2>5. CASE ~is_queue_empty(x, h)
    <3>1. q # << >>
      BY <2>2, <2>5, EmptyShown
    <3>2. m \in 1..m /\ queue_remove_tail(x, h) = queue_remove_entry(x, q[m])
      BY <2>2, <3>1, EndRemoved
    <3>3. r = queue_remove_entry(x, q[m])
      BY <2>3, <2>5, <3>2
    <3>4. Shows(r, [s2 EXCEPT ![h] = RemoveAt(@, m)])
      BY <2>2, <3>2, <3>3, EntryRemoved
    <3> DEFINE s3 == [s2 EXCEPT ![h] = RemoveAt(@, m)]
    <3>5. s3[h] = RemoveAt(q, m)
      BY <2>2 DEF Shows
    <3> HIDE DEF s3, q
    <3>6. Len(s3[h]) = m - 1
      BY <2>2, <3>2, <3>5, RemoveAtPlaces
    <3>7. Len(s3[h]) <= n - i
      BY <1>2, <2>2, <3>6
    <3>8. Shows(r, s3)
      BY <3>4 DEF s3
    <3> QED BY <2>3, <3>7, <3>8 DEF r
  <2> QED BY <2>4, <2>5
<1> HIDE DEF G
<1>8. n \in G
  BY <1>2, <1>6, <1>7, UpTo
<1>9. PICK s2 : Shows(left[n], s2) /\ Len(s2[h]) <= n - n
  BY <1>8 DEF G
<1>10. s2[h] \in Seq(Entry) /\ s2[h] = << >>
  <2>1. s2[h] \in Seq(Entry)
    BY <1>9 DEF Shows
  <2>2. Len(s2[h]) = 0
    BY <1>2, <1>9, <2>1
  <2> QED BY <2>1, <2>2
<1>11. is_queue_empty(left[n], h)
  BY <1>9, <1>10, EmptyShown
<1> QED BY <1>1, <1>11
\* The links that show lists make every test and walk agree with them.
LEMMA WalksAgreeShown ==
  ASSUME LinksInv
  PROVE  WalksAgree
<1> DEFINE s == Seen
<1>1. Shows(l, s)
  BY DEF LinksInv
<1>2. SUFFICES ASSUME NEW h \in ListHead
      PROVE  LET there == ToSet(Contents(h))
                 size == Cardinality(there)
             IN  /\ Walk(l, l.next[h], {h})[Cardinality(Node)] = h
                 /\ l.next[h] = h <=> size = 0
                 /\ l.prev[h] = h <=> size = 0
                 /\ \A e \in Entry : /\ can_queue_contains_entry(l, h, e) <=> e \in there
                                     /\ ecu_queue_contains_entry(l, h, e) <=> e \in there
                                     /\ ecu_check_id_exist(l, h, e) <=> e \in there
                 /\ \A n \in {can_queue_size(l, h), ecu_queue_size(l, h)} : (n = 0 <=> size = 0) /\ n <= size
                 /\ can_is_queue_empty(can_dispose_que(l, h), h) /\ ecu_is_queue_empty(ecu_dispose_que(l, h), h)
  BY DEF WalksAgree
<1> DEFINE q    == s[h]
           there == ToSet(q)
           size == Cardinality(there)
           first == l.next[h]
<1>3. Contents(h) = q
  BY DEF Seen
<1> HIDE DEF s
<1>4. q \in Seq(Entry) /\ Distinct(q) /\ Len(q) \in Nat /\ size = Len(q)
  <2>1. q \in Seq(Entry) /\ Distinct(q)
    BY <1>1 DEF Shows, IsList
  <2> QED BY <2>1, ListCounted
<1>5. /\ is_queue_empty(l, h) <=> size = 0
      /\ l.next[h] = h <=> size = 0
      /\ l.prev[h] = h <=> size = 0
  <2>1. q = << >> <=> size = 0
    BY <1>4
  <2> HIDE DEF size, q
  <2> QED BY <1>1, <2>1, EmptyShown DEF q
<1>6. /\ Walk(l, first, {h})[Cardinality(Node)] = h
      /\ \A e \in Entry : (\E i \in Steps : Walk(l, first, {h})[i] = e) <=> e \in there
  BY <1>1, WalkFinds
<1>7. ASSUME NEW e \in Entry
      PROVE  /\ can_queue_contains_entry(l, h, e) <=> e \in there
             /\ ecu_queue_contains_entry(l, h, e) <=> e \in there
  BY <1>6 DEF can_queue_contains_entry, ecu_queue_contains_entry, FoundFrom
<1>8. ASSUME NEW e \in Entry
      PROVE  ecu_check_id_exist(l, h, e) <=> e \in there
  <2>1. ecu_check_id_exist(l, h, e) <=>
          ~is_queue_empty(l, h) /\ IdFrom(l, first, {h, l.prev[first]}, e)
    BY DEF ecu_check_id_exist, ecu_is_queue_empty
  <2>2. CASE is_queue_empty(l, h)
    <3>1. there = {}
      BY <1>4, <1>5, <2>2 DEF ToSet
    <3> QED BY <2>1, <2>2, <3>1
  <2>3. CASE ~is_queue_empty(l, h)
    <3>1. l.prev[first] = h
      <4>1. q # << >>
        BY <1>1, <2>3, EmptyShown
      <4>2. 1 \in 1..Len(q) /\ first = q[1]
        BY <1>1, <4>1, EndRemoved
      <4>3. l.prev[q[1]] = At(h, q, 1 - 1) /\ At(h, q, 0) = h /\ 1 - 1 = 0
        BY <1>1, <4>2, NeighboursLinked
      <4> QED BY <4>2, <4>3
    <3>2. {h, l.prev[first]} = {h} /\ e # h
      BY <3>1, HeadsAreNotEntries
    <3>3. IdFrom(l, first, {h}, e) <=> e \in there
      BY <1>6, <3>2 DEF IdFrom
    <3> HIDE DEF first, there
    <3> QED BY <2>1, <2>3, <3>2, <3>3
  <2> QED BY <2>2, <2>3
<1>9. ASSUME NEW n \in {can_queue_size(l, h), ecu_queue_size(l, h)}
      PROVE  (n = 0 <=> size = 0) /\ n <= size
  <2>1. n = SizeOf(l, h, is_queue_empty(l, h))
    BY DEF can_queue_size, ecu_queue_size, can_is_queue_empty, ecu_is_queue_empty
  <2>2. n = IF Len(q) <= 1 THEN Len(q) ELSE Len(q) - 1
    BY <1>1, <2>1, SizeShown
  <2> DEFINE m == Len(q)
  <2>3. m \in Nat /\ size = m /\ n = IF m <= 1 THEN m ELSE m - 1
    BY <1>4, <2>2
  <2> HIDE DEF m, size
  <2>4. CASE m <= 1
    BY <2>3, <2>4
  <2>5. CASE m > 1
    BY <2>3, <2>5
  <2> QED BY <2>3, <2>4, <2>5
<1>10. can_is_queue_empty(can_dispose_que(l, h), h) /\ ecu_is_queue_empty(ecu_dispose_que(l, h), h)
  BY <1>1, DisposedShown DEF can_is_queue_empty, ecu_is_queue_empty
<1> HIDE DEF q, first
<1> QED BY <1>3, <1>5, <1>6, <1>7, <1>8, <1>9, <1>10 DEF first

\* The copies do what the functions of kern_queue.c do.
LEMMA CopiesStep ==
  ASSUME LinksInv, ListsNext
  PROVE  Next \/ UNCHANGED l
<1>1. ASSUME NEW h \in ListHead, CanRemoves(h) \/ EcuRemoves(h)
      PROVE  RemoveHead(h) \/ RemoveTail(h) \/ UNCHANGED l
  <2>1. l' = queue_remove_head(l, h) \/ l' = queue_remove_tail(l, h)
    BY <1>1 DEF CanRemoves, EcuRemoves, can_queue_remove_head, can_queue_remove_tail,
                ecu_queue_remove_head, ecu_queue_remove_tail
  <2>2. CASE is_queue_empty(l, h)
    BY <2>1, <2>2 DEF is_queue_empty, queue_remove_head, queue_remove_tail
  <2>3. CASE ~is_queue_empty(l, h)
    BY <2>1, <2>3 DEF RemoveHead, RemoveTail
  <2> QED BY <2>2, <2>3
<1>2. ASSUME NEW h \in ListHead, NEW e \in Entry, CanAdds(h, e) \/ EcuAdds(h, e)
      PROVE  AddHead(h, e) \/ AddTail(h, e)
  BY <1>2 DEF CanAdds, EcuAdds, AddHead, AddTail, can_queue_add_head, can_queue_add_tail,
              ecu_queue_add_head, ecu_queue_add_tail
<1>3. ASSUME NEW e \in Entry, CanTakesOut(e)
      PROVE  RemoveEntry(e)
  BY <1>3 DEF CanTakesOut, RemoveEntry, can_queue_remove_entry, ecu_queue_remove_entry
<1>4. ASSUME NEW e \in Entry, CanResets(e)
      PROVE  Reset(e)
  BY <1>4 DEF CanResets, Reset, can_queue_reset, ecu_queue_reset
<1> QED BY <1>1, <1>2, <1>3, <1>4 DEF ListsNext, Next
-----------------------------------------------------------------------------
(* Every behaviour of the lists *)

\* The lists are empty to begin with.
LEMMA NothingShown ==
  ASSUME Init
  PROVE  LinksInv /\ Lists!Init
<1> DEFINE s == [h \in ListHead |-> << >>]
<1>1. ASSUME NEW h \in ListHead PROVE IsList(l, h, << >>)
  BY <1>1 DEF Init, IsList, Distinct, Circle, At, Node
<1>2. Shows(l, s)
  <2>1. l \in Links(Node)
    BY DEF Init, Links
  <2>2. \A g, h \in ListHead : ToSet(s[g]) \cap ToSet(s[h]) = {}
    BY DEF ToSet
  <2> QED BY <1>1, <2>1, <2>2 DEF Shows
<1> HIDE DEF s
<1>3. Seen = s
  BY <1>2, ShownIsSeen, SeenOf
<1> QED BY <1>2, <1>3 DEF s, LinksInv, Lists!Init, Seen

\* Every step keeps the circles.
LEMMA InvariantKept == LinksInv /\ [Next]_l => LinksInv'
<1>1. LinksInv /\ UNCHANGED l => LinksInv'
  <2> SUFFICES ASSUME LinksInv, l' = l PROVE LinksInv'
    OBVIOUS
  <2>1. Seen' = Seen
    BY DEF Seen, Contents
  <2> QED BY <2>1 DEF LinksInv
<1> QED BY <1>1, StepIsSeen

\* Every step is one of the lists, or changes none.
LEMMA StepSeen == LinksInv /\ [Next]_l => [Lists!Next]_[h \in ListHead |-> Contents(h)]
<1>1. LinksInv /\ Next => Lists!Next \/ UNCHANGED [h \in ListHead |-> Contents(h)]
  BY StepIsSeen DEF Seen
<1>2. UNCHANGED l => UNCHANGED [h \in ListHead |-> Contents(h)]
  BY DEF Contents
<1> QED BY <1>1, <1>2

(* The links of every list form a circle through its head, forwards and backwards, and no entry  *)
(* is in two lists, whatever links the entries that are in none have kept (queue_add_head,       *)
(* queue_add_tail, queue_remove_head, queue_remove_tail, queue_remove_entry, queue_reset).       *)
THEOREM LinksCircle == Spec => []LinksInv
BY NothingShown, InvariantKept, PTL DEF Spec

(* The links implement lists: what an operation does to next and prev is seen by every later one *)
(* as the change of one sequence, by one entry, at the place the operation names.                *)
THEOREM LinksImplementLists == Spec => ImplementsLists
<1>1. Init => Lists!Init
  BY NothingShown
<1>2. LinksInv /\ [Next]_l => [Lists!Next]_[h \in ListHead |-> Contents(h)]
  BY StepSeen
<1> QED BY <1>1, <1>2, LinksCircle, PTL DEF Spec, ImplementsLists, Lists!Spec

\* Lists that the kernel's functions and their copies work on.
ListsSpec == Init /\ [][ListsNext]_l

(* The copies implement the same lists: on links that the kernel's functions and theirs have     *)
(* written in any order, each is seen as the change of one sequence (can_queue_add_head and the  *)
(* other functions of can.c and can_lib.c).                                                      *)
THEOREM CopiesImplementLists == ListsSpec => ImplementsLists
<1>1. LinksInv /\ [ListsNext]_l => LinksInv' /\ [Lists!Next]_[h \in ListHead |-> Contents(h)]
  BY CopiesStep, InvariantKept, StepSeen
<1>2. Init => LinksInv /\ Lists!Init
  BY NothingShown
<1> QED BY <1>1, <1>2, PTL DEF ListsSpec, ImplementsLists, Lists!Spec

(* Whatever links the entries removed before have kept: every list is empty by both links of its *)
(* head or by neither, every walk comes back to the head and meets an entry or an identifier if  *)
(* and only if it is there, a size is 0 only of an empty list and never too large, and a         *)
(* disposal leaves none behind (is_queue_empty, can_queue_size, can_queue_contains_entry,        *)
(* ecu_check_id_exist, can_dispose_que and their copies).                                        *)
THEOREM WalksAlwaysAgree == ListsSpec => []WalksAgree
<1>1. LinksInv /\ [ListsNext]_l => LinksInv'
  BY CopiesStep, InvariantKept
<1>2. LinksInv => WalksAgree
  BY WalksAgreeShown
<1> QED BY <1>1, <1>2, NothingShown, PTL DEF ListsSpec
=============================================================================
