----------------------------- MODULE TransferInv -----------------------------
(***************************************************************************)
(* The inductive invariant behind the safety properties of Transfer that   *)
(* hold on every network: what the packets in flight, the two buffers and  *)
(* the two programs' counters have to do with one another.                 *)
(***************************************************************************)
EXTENDS Transfer

\* What may be on the way to the server: blocks rcopy has read, and EOF.
RcopySent ==
  { p \in Packet :
      p.ok => \/ p.flag = "EOF_FLAG"
              \/ p.num < current /\ p = DataPacket(p.num) }

\* What may be on the way to rcopy.
ServerSent ==
  { p \in Packet :
      p.ok => \/ p.flag = "RR" /\ p.num <= expected
              \/ p.flag = "SREJ" /\ p.num < current }

ChannelInv ==
  /\ dataCh \in Seq(RcopySent)
  /\ ackCh \in Seq(ServerSent)

WindowInv ==
  /\ WindowBounds
  /\ upper = lower + WindowSize
  /\ current <= Blocks
  /\ readEOF => current = Blocks

\* Every slot rcopy may read holds some block it has sent.
HeldBlock(e) == e.pkt.num < current /\ e.pkt = DataPacket(e.pkt.num)

RcopyBufferInv ==
  \A n \in 0 .. current - 1 : HeldBlock(cbuf[Slot(n)])

\* A valid slot of the server holds a block that came too early, in its place.
ServerBufferInv ==
  \A i \in SlotIndex :
    sbuf[i].valid =>
      /\ HeldBlock(sbuf[i])
      /\ sbuf[i].pkt.num > expected
      /\ Slot(sbuf[i].pkt.num) = i

\* Whatever is buffered lies below highest_seq, or is about to.
RecoverInv ==
  /\ sstate = "RECOVER" =>
       /\ recvSeq < current
       /\ expected <= highest
       /\ highest <= srejNext
  /\ \A i \in SlotIndex :
       sbuf[i].valid =>
         \/ sbuf[i].pkt.num < highest
         \/ sstate = "RECOVER" /\ sbuf[i].pkt.num = recvSeq

StatusInv ==
  /\ cstate # "DONE" => status = "running"
  /\ status = "1" => expected = Blocks

IInv ==
  /\ TypeOK
  /\ ChannelInv
  /\ WindowInv
  /\ RcopyBufferInv
  /\ ServerBufferInv
  /\ RecoverInv
  /\ WrittenInOrder
  /\ StatusInv

-----------------------------------------------------------------------------
\* fwrite is given the length of some block, if not always of the one it writes.
LengthsInv == \A i \in DOMAIN written : written[i].len \in {BufferSize, LastLen}

-----------------------------------------------------------------------------
\* Below highest_seq, and in recover_packet's loop below the next one to ask
\* for, every packet has been written, buffered or asked for, and no other has
\* been asked for.
Reached == IF sstate = "RECOVER" THEN srejNext ELSE highest

AskedInv ==
  /\ highest <= current
  /\ sstate = "RECOVER" =>
       /\ sbuf[Slot(recvSeq)].valid
       /\ srejNext <= highest \/ srejNext <= recvSeq
  /\ \A n \in asked : n < Reached
  /\ \A n \in expected .. Reached - 1 : n \in asked \/ sbuf[Slot(n)].valid

-----------------------------------------------------------------------------
(* More holds on a network that keeps the order of datagrams. *)

\* The answers under way ask for nothing that an answer before them has
\* acknowledged, nor for what rcopy knows to be acknowledged.
AcksInOrder ==
  /\ \A i \in DOMAIN ackCh : ackCh[i].ok => lower <= ackCh[i].num
  /\ \A i, j \in DOMAIN ackCh :
       i < j /\ ackCh[i].ok /\ ackCh[i].flag = "RR" /\ ackCh[j].ok
         => ackCh[i].num <= ackCh[j].num

(* No answer that the server sends arrives out of turn, so that             *)
(* slide_window never moves back and rcopy still has all that is not        *)
(* acknowledged.                                                            *)
OrderInv ==
  /\ AcksInOrder
  /\ UnackedHeld
  /\ current <= upper
=============================================================================
