------------------------------- MODULE CanFrames -------------------------------
(***************************************************************************)
(* The long messages of can_lib.c: pieces of a message in CAN frames, in   *)
(* two formats (the second has an address byte, and one byte less in every *)
(* frame), as a task that calls one of the four functions exchanges them   *)
(* with a control unit. A message is known by its length; its first piece  *)
(* is 0 and the others are counted from 1.                                 *)
(*                                                                         *)
(* The unit waits for a flow control frame after the first frame and after *)
(* every block of 15, and may fall silent at any time. The mailbox holds   *)
(* one frame: a second that comes before the task has taken the first      *)
(* replaces it. An exchange begins with an empty mailbox.                  *)
(***************************************************************************)
EXTENDS Integers, Sequences

CONSTANTS
  Lengths,    \* of messages, as one byte: all that the functions read
  BuffSizes,  \* of the caller's frame, in bytes
  MaxPending, \* bounds the frames that announce a later answer
  MaxReplaced \* bounds the frames of an exchange that are replaced in the mailbox

ASSUME FramesAssumption ==
  /\ Lengths \subseteq 1..255 /\ BuffSizes \subseteq Nat \ 0..6
  /\ MaxPending \in Nat /\ MaxReplaced \in Nat

VARIABLES
  job,   \* the function called, the format, the message, and the size of the caller's frame
  call,  \* its locals, and what it returned
  peer,  \* what the unit does, the frames it has sent and may send before it waits again
  box,   \* the frame in the receiving mailbox
  wire   \* the frames the task has sent

frameVars == << job, call, peer, box, wire >>

None == [pci |-> -1, b1 |-> 0, b3 |-> 0, piece |-> -1]

FirstFrame     == 16   \* 0x10
FlowStatus     == 48   \* 0x30
LastInSequence == 47   \* 0x2F
FlowBlock      == 15
Pci(i)         == 32 + (i % 16)  \* of the i-th consecutive frame

PieceSize == IF job.format = "kwp" THEN 7 ELSE 6
InFirst   == PieceSize - 1            \* bytes after the length
IsSingle  == job.len <= PieceSize
LastPiece == IF IsSingle THEN 0 ELSE (job.len - InFirst + PieceSize - 1) \div PieceSize

Jobs == [does : {"recv", "send"}, format : {"kwp", "bmw"}, len : Lengths, third : {0, 120},
         size : BuffSizes]

FramesInit ==
  /\ job \in Jobs
  /\ call = [pc |-> "first", ret |-> -1, left |-> 0, ptr |-> 0, frame |-> [k \in {} |-> 0], flc |-> 0,
             window |-> FlowBlock, ack |-> Pci(1)]
  /\ peer = [does |-> "asked", sent |-> 0, credit |-> MaxPending, replaced |-> 0]
  /\ box = None
  /\ wire = << >>
-----------------------------------------------------------------------------
(* The unit: hardware and software at the other end. *)

Comes(f) == (box = None \/ peer.replaced < MaxReplaced) /\ box' = f

Now(p) == peer' = [p EXCEPT !.replaced = IF box = None THEN @ ELSE @ + 1]

Announces == /\ peer.does = "asked" /\ job.does = "recv" /\ peer.credit > 0
             /\ Comes([pci |-> 3, b1 |-> 127, b3 |-> 120, piece |-> -1])
             /\ Now([peer EXCEPT !.credit = @ - 1])

Answers ==
  /\ peer.does = "asked" /\ job.does = "recv"
  /\ Comes([pci |-> IF IsSingle THEN job.len ELSE FirstFrame,
            b1 |-> IF IsSingle THEN 0 ELSE job.len, b3 |-> job.third, piece |-> 0])
  /\ Now([peer EXCEPT !.does = IF IsSingle THEN "silent" ELSE "waits"])

SendsNext ==
  LET i == peer.sent + 1
  IN  /\ peer.does = "sends"
      /\ Comes([pci |-> Pci(i), b1 |-> 0, b3 |-> 0, piece |-> i])
      /\ Now([peer EXCEPT !.does = IF i = LastPiece THEN "silent" ELSE IF peer.credit = 1 THEN "waits" ELSE @,
                          !.sent = i, !.credit = @ - 1])

\* The unit lets a task that sends go on, with the window w.
Permits == /\ job.does = "send" /\ wire # << >> /\ peer.does = "asked"
           /\ \E w \in {0, 1, FlowBlock} : Comes([pci |-> FlowStatus, b1 |-> w, b3 |-> 0, piece |-> -1])
           /\ Now(peer)

Peer == /\ \/ Announces \/ Answers \/ SendsNext \/ Permits
           \/ peer.does # "silent" /\ peer' = [peer EXCEPT !.does = "silent"] /\ UNCHANGED box
        /\ UNCHANGED << job, call, wire >>
-----------------------------------------------------------------------------
can_send_single(f) == wire' = Append(wire, f)

\* can_recv_single returns an object with the frame, or NULL: nothing came in time, or malloc failed.
Gets(f)     == f # None /\ f = box /\ box' = None
GetsNothing == box' = None

Return(r)   == call' = [call EXCEPT !.pc = "done", !.ret = r]
Pending(f)  == f.b1 = 127 /\ f.b3 = 120

\* A flow control frame goes out, and the unit hears it or not.
SendsFlow == /\ can_send_single([pci |-> FlowStatus, piece |-> -1])
             /\ \/ peer.does = "waits" /\ peer' = [peer EXCEPT !.does = "sends", !.credit = FlowBlock]
                \/ UNCHANGED peer

TakesFirst(f) ==
  \/ Pending(f) /\ UNCHANGED << call, wire, peer >>
  \/ /\ ~Pending(f) /\ f.pci # FirstFrame
     /\ call' = [call EXCEPT !.pc = "done", !.ret = 1, !.frame = [k \in {0} |-> f.piece]]
     /\ UNCHANGED << wire, peer >>
  \/ /\ ~Pending(f) /\ f.pci = FirstFrame
     /\ LET left == f.b1 - InFirst
            more == left > 0
        IN  \E garbage \in {0, LastInSequence} :  \* flc is not initialised
              call' = [call EXCEPT !.pc = IF more THEN "next" ELSE "done", !.ret = IF more THEN @ ELSE 1,
                                   !.left = left, !.ptr = PieceSize, !.frame = [k \in {0} |-> f.piece],
                                   !.flc = garbage]
     /\ SendsFlow

\* (Wrong: a frame would count for a byte more than it holds.)
LeftAfter_OneMore(left) == IF left > PieceSize + 1 THEN left - PieceSize - 1 ELSE 0

LeftAfter(left) == IF left > PieceSize THEN left - PieceSize ELSE 0

\* A consecutive frame: stored says what becomes of the frame, ptr and flc, asks whether a
\* flow control frame follows. Its sequence number is not looked at.
TakesNext(stored, asks) ==
  LET left == LeftAfter(call.left)
  IN  /\ call' = [stored EXCEPT !.left = left, !.pc = IF left = 0 THEN "done" ELSE @,
                                !.ret = IF left = 0 THEN 1 ELSE @]
      /\ IF asks THEN SendsFlow ELSE UNCHANGED << wire, peer >>

Put(piece) == [at \in DOMAIN call.frame \cup {call.ptr} |->
                 IF at = call.ptr THEN piece ELSE call.frame[at]]
Fits       == call.ptr + PieceSize <= job.size

\* The frame is stored before the test, and the last byte sent is its own flow control's.
can_kwp_recv_frame ==
  \E f \in {box} :
    /\ Gets(f)
    /\ \/ call.pc = "first" /\ TakesFirst(f)
       \/ call.pc = "next" /\ TakesNext([call EXCEPT !.frame = Put(f.piece), !.ptr = IF Fits THEN @ + PieceSize ELSE @],
                                        FlowStatus = LastInSequence)

\* What does not fit is dropped, and flc keeps the byte of the last frame that did.
can_bmw_recv_frame ==
  \E f \in {box} :
    /\ Gets(f)
    /\ \/ call.pc = "first" /\ TakesFirst(f)
       \/ /\ call.pc = "next"
          /\ LET stored == IF Fits THEN [call EXCEPT !.frame = Put(f.piece), !.ptr = @ + PieceSize, !.flc = f.pci]
                           ELSE call
             IN  TakesNext(stored, stored.flc = LastInSequence)

Receives == /\ \/ job.format = "kwp" /\ can_kwp_recv_frame
               \/ job.format = "bmw" /\ can_bmw_recv_frame
               \/ GetsNothing /\ Return(0) /\ UNCHANGED << wire, peer >>
            /\ UNCHANGED job
-----------------------------------------------------------------------------
SendsPiece(pci, k) == can_send_single([pci |-> pci, piece |-> k])

SendsFirst(single, left) ==
  /\ SendsPiece(IF single THEN job.len ELSE FirstFrame, 0)
  /\ call' = IF single THEN [call EXCEPT !.pc = "done", !.ret = 1]
             ELSE [call EXCEPT !.pc = "flow", !.left = left, !.ptr = PieceSize]

SendsConsecutive ==
  LET left == LeftAfter(call.left)
      done == left = 0 /\ call.window # 1
  IN  /\ SendsPiece(call.ack, call.ptr \div PieceSize)
      /\ call' = [call EXCEPT !.ptr = @ + PieceSize, !.ack = IF @ = LastInSequence THEN 32 ELSE @ + 1,
                              !.window = @ - 1, !.left = left, !.ret = IF done THEN 1 ELSE @,
                              !.pc = IF call.window = 1 THEN "flow" ELSE IF done THEN "done" ELSE @]

\* The unit's flow control ends the call, and its object is not freed. Without it rx_obj is NULL
\* and the window what the memory there holds.
AwaitsFlow ==
  \/ \E f \in {box} : Gets(f) /\ Return(0)
  \/ /\ GetsNothing
     /\ \E w \in {1, FlowBlock} :
          call' = [call EXCEPT !.window = w, !.pc = IF call.left > 0 THEN "next" ELSE "done",
                               !.ret = IF call.left > 0 THEN @ ELSE 1]

Sends(first) == \/ call.pc = "first" /\ first /\ UNCHANGED box
                \/ call.pc = "next" /\ SendsConsecutive /\ UNCHANGED box
                \/ call.pc = "flow" /\ AwaitsFlow /\ UNCHANGED wire

can_kwp_send_frame == Sends(SendsFirst(job.len < 7, job.len - 6))

\* The length counts the address byte as well: a message of 5 or 6 bytes, which one frame
\* would hold, takes two.
can_bmw_send_frame == Sends(SendsFirst(job.len < 5, job.len - 4))

Transmits == /\ \/ job.format = "kwp" /\ can_kwp_send_frame
                \/ job.format = "bmw" /\ can_bmw_send_frame
             /\ UNCHANGED << job, peer >>

FramesNext ==
  \/ Peer
  \/ call.pc # "done" /\ job.does = "recv" /\ Receives
  \/ call.pc # "done" /\ job.does = "send" /\ Transmits
-----------------------------------------------------------------------------
Consecutive(n) == [i \in 1..n |-> [pci |-> Pci(i), piece |-> i]]

(* A receive function that returns 1 has the whole message in its frame, if the frame is large    *)
(* enough: a frame lost in the mailbox or for want of memory, an answer announced late or a unit  *)
(* that falls silent never leaves a hole (can_kwp_recv_frame, can_bmw_recv_frame). A send         *)
(* function that returns 1 has sent all the pieces in order, numbered 0x21 to 0x2F and on from    *)
(* 0x20 (can_kwp_send_frame, can_bmw_send_frame).                                                 *)
FrameComplete ==
  call.ret = 1 =>
    IF job.does = "recv"
    THEN job.size >= PieceSize * (LastPiece + 1)
           => call.frame = [at \in {PieceSize * k : k \in 0..LastPiece} |-> at \div PieceSize]
    ELSE /\ wire[1].piece = 0
         /\ Tail(wire) = Consecutive(Len(wire) - 1) /\ Len(wire) >= LastPiece + 1
=============================================================================
