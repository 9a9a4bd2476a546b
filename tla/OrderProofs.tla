---------------------------- MODULE OrderProofs ------------------------------
(***************************************************************************)
(* What holds of Transfer on a network that keeps the order of datagrams,  *)
(* such as the loopback interface, for every value of the other constants: *)
(* OrderInv of TransferInv is an invariant there, and the three properties *)
(* of Transfer that need the order follow from it.                         *)
(***************************************************************************)
EXTENDS TransferProofs

-----------------------------------------------------------------------------
(* The channel from the server to rcopy. *)

(* A channel without its first datagram. *)
LEMMA FirstRemoved ==
  ASSUME NEW S, NEW ch \in Seq(S), 1 \in DOMAIN ch
  PROVE  /\ RemoveAt(ch, 1) \in Seq(S)
         /\ Len(RemoveAt(ch, 1)) = Len(ch) - 1
         /\ \A k \in 1 .. Len(ch) - 1 : RemoveAt(ch, 1)[k] = ch[k + 1]
<1>1. Len(ch) \in Nat /\ 1 <= Len(ch)
  BY LenProperties
<1>2. SubSeq(ch, 1, 0) = <<>>
  BY SubSeqEmpty
<1>3. /\ SubSeq(ch, 2, Len(ch)) \in Seq(S)
      /\ Len(SubSeq(ch, 2, Len(ch))) = Len(ch) - 1
      /\ \A k \in 1 .. Len(ch) - 1 : SubSeq(ch, 2, Len(ch))[k] = ch[k + 1]
  <2>1. \A k \in 2 .. Len(ch) : ch[k] \in S
    BY <1>1, ElementOfSeq
  <2>2. /\ SubSeq(ch, 2, Len(ch)) \in Seq(S)
        /\ Len(SubSeq(ch, 2, Len(ch))) = IF 2 <= Len(ch) THEN Len(ch) - 2 + 1 ELSE 0
        /\ \A k \in 1 .. Len(ch) - 2 + 1 : SubSeq(ch, 2, Len(ch))[k] = ch[2 + k - 1]
    BY <1>1, <2>1, SubSeqProperties
  <2>3. Len(ch) - 2 + 1 = Len(ch) - 1 /\ \A k \in 1 .. Len(ch) - 1 : 2 + k - 1 = k + 1
    BY <1>1
  <2>4. CASE 2 <= Len(ch)
    BY <2>2, <2>3, <2>4
  <2>5. CASE Len(ch) = 1
    BY <2>2, <2>5
  <2>6. 2 <= Len(ch) \/ Len(ch) = 1
    BY <1>1
  <2> QED BY <2>4, <2>5, <2>6
<1>4. RemoveAt(ch, 1) = SubSeq(ch, 2, Len(ch))
  BY <1>2, <1>3, ConcatEmptySeq DEF RemoveAt
<1> QED BY <1>3, <1>4

(* A channel that takes a packet, or is full and does not. *)
LEMMA Delivered ==
  ASSUME NEW S, NEW ch \in Seq(S), NEW p \in S
  PROVE  \/ Deliver(ch, p) = ch
         \/ /\ Len(Deliver(ch, p)) = Len(ch) + 1
            /\ \A k \in 1 .. Len(ch) : Deliver(ch, p)[k] = ch[k]
            /\ Deliver(ch, p)[Len(ch) + 1] = p
  BY AppendProperties DEF Deliver

(* The server acknowledges no less than it has written, and asks for        *)
(* nothing that is written; no answer under way acknowledges more.          *)
LEMMA AnswerInOrder ==
  ASSUME IInv, AcksInOrder, UNCHANGED lower,
         NEW p \in Packet, Send(ackCh, p), expected <= p.num
  PROVE  AcksInOrder'
<1>0. /\ ackCh \in Seq(Packet) /\ lower <= p.num
      /\ \A i \in DOMAIN ackCh :
           ackCh[i].ok /\ ackCh[i].flag = "RR" => ackCh[i].num <= p.num
  <2>1. ASSUME NEW i \in DOMAIN ackCh, ackCh[i].ok, ackCh[i].flag = "RR"
        PROVE  ackCh[i].num <= p.num
    <3>1. ackCh[i] \in ServerSent
      BY Counters, ElementOfSeq, LenProperties
    <3>2. ackCh[i].num \in Nat /\ ackCh[i].num <= expected
      BY <2>1, <3>1 DEF ServerSent, Packet
    <3> QED BY <3>2, Counters DEF Packet
  <2> QED BY <2>1, Counters DEF IInv, TypeOK, ChannelTypeOK, Packet
<1>1. ASSUME NEW q \in Packet, q = p \/ ~q.ok, ackCh' = Deliver(ackCh, q)
      PROVE  AcksInOrder'
  <2>1. CASE ackCh' = ackCh
    BY <2>1 DEF AcksInOrder
  <2>2. CASE /\ Len(ackCh') = Len(ackCh) + 1
             /\ \A k \in 1 .. Len(ackCh) : ackCh'[k] = ackCh[k]
             /\ ackCh'[Len(ackCh) + 1] = q
    <3>1. ackCh' \in Seq(Packet)
      BY <1>0, <1>1, DeliverType
    <3>2. /\ DOMAIN ackCh = 1 .. Len(ackCh)
          /\ DOMAIN ackCh' = 1 .. Len(ackCh) + 1
          /\ Len(ackCh) \in Nat
      BY <1>0, <2>2, <3>1, LenProperties
    <3>3. \A i \in DOMAIN ackCh' : ackCh'[i].ok => lower <= ackCh'[i].num
      BY <1>0, <1>1, <2>2, <3>2 DEF AcksInOrder
    <3>4. ASSUME NEW i \in DOMAIN ackCh', NEW j \in DOMAIN ackCh',
                 i < j, ackCh'[i].ok, ackCh'[i].flag = "RR", ackCh'[j].ok
          PROVE  ackCh'[i].num <= ackCh'[j].num
      <4>1. i \in DOMAIN ackCh /\ ackCh'[i] = ackCh[i]
        BY <2>2, <3>2, <3>4
      <4>2. CASE j = Len(ackCh) + 1
        BY <1>0, <1>1, <2>2, <3>4, <4>1, <4>2
      <4>3. CASE j \in DOMAIN ackCh
        BY <2>2, <3>2, <3>4, <4>1, <4>3 DEF AcksInOrder
      <4> QED BY <3>2, <4>2, <4>3
    <3> QED BY <3>3, <3>4 DEF AcksInOrder
  <2> QED BY <1>0, <1>1, <2>1, <2>2, Delivered
<1>2. CASE ackCh' = ackCh
  BY <1>2 DEF AcksInOrder
<1>3. ASSUME NEW q \in Flipped(p) PROVE q \in Packet /\ ~q.ok
  BY FlippedType
<1> QED BY <1>1, <1>2, <1>3 DEF Send

(* rcopy takes the first answer, and may move its window to the packet the  *)
(* answer names.                                                            *)
LEMMA FirstAnswer ==
  ASSUME ~Unordered, IInv, AcksInOrder, NEW i \in Arrivals(ackCh), Receive(ackCh, i)
  PROVE  /\ i = 1 /\ ackCh[1] \in ServerSent
         /\ ackCh[1].ok => lower <= ackCh[1].num
         /\ lower' = lower => AcksInOrder'
         /\ ackCh[1].ok /\ ackCh[1].flag = "RR" /\ lower' = ackCh[1].num => AcksInOrder'
<1> USE Counters
<1>1. i = 1 /\ 1 \in DOMAIN ackCh
  BY DEF Arrivals
<1>2. ackCh[1] \in ServerSent
  BY <1>1, ReceiveAck
<1>3. /\ ackCh' \in Seq(ServerSent) /\ Len(ackCh') = Len(ackCh) - 1
      /\ \A k \in 1 .. Len(ackCh) - 1 : ackCh'[k] = ackCh[k + 1]
  BY <1>1, FirstRemoved DEF Receive
<1>4. /\ DOMAIN ackCh = 1 .. Len(ackCh)
      /\ DOMAIN ackCh' = 1 .. Len(ackCh) - 1
      /\ Len(ackCh) \in Nat
  BY <1>3, LenProperties
<1>5. \A k, m \in DOMAIN ackCh' :
        k < m /\ ackCh'[k].ok /\ ackCh'[k].flag = "RR" /\ ackCh'[m].ok
          => ackCh'[k].num <= ackCh'[m].num
  <2> SUFFICES ASSUME NEW k \in DOMAIN ackCh', NEW m \in DOMAIN ackCh',
                      k < m, ackCh'[k].ok, ackCh'[k].flag = "RR", ackCh'[m].ok
               PROVE  ackCh'[k].num <= ackCh'[m].num
    OBVIOUS
  <2>1. k + 1 \in DOMAIN ackCh /\ m + 1 \in DOMAIN ackCh /\ k + 1 < m + 1
    BY <1>4
  <2>2. ackCh'[k] = ackCh[k + 1] /\ ackCh'[m] = ackCh[m + 1]
    BY <1>3, <1>4
  <2> QED BY <2>1, <2>2 DEF AcksInOrder
<1>6. \A k \in DOMAIN ackCh' :
        /\ k + 1 \in DOMAIN ackCh /\ 1 < k + 1 /\ ackCh'[k] = ackCh[k + 1]
  BY <1>3, <1>4
<1>7. lower' = lower => AcksInOrder'
  BY <1>5, <1>6 DEF AcksInOrder
<1>8. ackCh[1].ok /\ ackCh[1].flag = "RR" /\ lower' = ackCh[1].num => AcksInOrder'
  BY <1>1, <1>5, <1>6 DEF AcksInOrder
<1> QED BY <1>1, <1>2, <1>7, <1>8 DEF AcksInOrder

-----------------------------------------------------------------------------
(* The steps of rcopy. *)

(* A new block takes the slot of one that is acknowledged. *)
LEMMA SendBlockInOrder ==
  ASSUME IInv, OrderInv, SendBlock, UNCHANGED serverVars
  PROVE  OrderInv'
<1>0. /\ lower \in Nat /\ current \in Nat /\ upper = lower + WindowSize
      /\ WindowSize \in Nat /\ cbuf \in Buffers
  BY Counters, PacketsAssumption
<1>1. /\ UNCHANGED <<lower, upper, ackCh>>
      /\ current < upper /\ current' = current + 1
      /\ cbuf' = InsertPacket(cbuf, DataPacket(current))
  BY <1>0 DEF SendBlock, WindowOpen, CheckClosed
<1>2. AcksInOrder'
  BY <1>1 DEF OrderInv, AcksInOrder
<1>3. ASSUME NEW n \in lower .. current
      PROVE  cbuf'[Slot(n)].pkt = DataPacket(n)
  <2>1. DataPacket(current).num = current /\ Slot(current) \in SlotIndex
    BY <1>0, SlotInIndex DEF DataPacket
  <2>2. CASE n = current
    BY <1>0, <1>1, <2>1, <2>2 DEF InsertPacket, Buffers
  <2>3. CASE n \in lower .. current - 1
    <3>1. n \in Nat /\ n < current /\ current < n + WindowSize
      BY <1>0, <1>1, <2>3
    <3>2. Slot(n) \in SlotIndex /\ Slot(n) # Slot(current)
      BY <1>0, <3>1, SlotInIndex, SlotUnique
    <3> QED BY <1>0, <1>1, <2>1, <2>3, <3>2 DEF InsertPacket, Buffers, OrderInv, UnackedHeld, ReadPacket
  <2> QED BY <1>0, <2>2, <2>3
<1>4. UnackedHeld'
  BY <1>0, <1>1, <1>3 DEF UnackedHeld, ReadPacket
<1> QED BY <1>0, <1>1, <1>2, <1>4 DEF OrderInv

(* check_flag moves the window to the packet of an RR, forward. *)
LEMMA CheckFlagInOrder ==
  ASSUME ~Unordered, IInv, OrderInv, NEW i \in Arrivals(ackCh), CheckFlag(i)
  PROVE  OrderInv' /\ lower <= lower'
<1>1. /\ i = 1 /\ ackCh[1] \in ServerSent
      /\ ackCh[1].ok => lower <= ackCh[1].num
      /\ lower' = lower => AcksInOrder'
      /\ ackCh[1].ok /\ ackCh[1].flag = "RR" /\ lower' = ackCh[1].num => AcksInOrder'
  BY FirstAnswer DEF CheckFlag, OrderInv
<1>2. UNCHANGED <<current, cbuf>>
  BY DEF CheckFlag
<1>3. /\ lower \in Nat /\ current \in Nat /\ upper = lower + WindowSize
      /\ WindowSize \in Nat /\ ackCh[1].num \in Nat /\ current <= upper
  BY <1>1, Counters, PacketsAssumption DEF ServerSent, Packet, OrderInv
<1>4. CASE ackCh[i].ok /\ ackCh[i].flag = "RR" /\ SlideWindow(ackCh[i].num)
  <2>1. lower' = ackCh[1].num /\ upper' = lower' + WindowSize /\ lower <= lower' /\ AcksInOrder'
    BY <1>1, <1>4 DEF SlideWindow
  <2>2. UnackedHeld'
    BY <1>2, <1>3, <2>1 DEF OrderInv, UnackedHeld
  <2> QED BY <1>2, <1>3, <2>1, <2>2 DEF OrderInv
<1>5. CASE UNCHANGED <<lower, upper>>
  BY <1>1, <1>2, <1>3, <1>5 DEF OrderInv, UnackedHeld
<1> QED BY <1>4, <1>5 DEF CheckFlag

(* Every step of rcopy keeps the order, and moves its window forward only. *)
LEMMA RcopyInOrder ==
  ASSUME ~Unordered, IInv, OrderInv, RcopyNext
  PROVE  OrderInv' /\ lower <= lower'
<1>1. CASE SendBlock
  <2>1. OrderInv'
    BY <1>1, SendBlockInOrder DEF RcopyNext, RcopyTimeout, RcopyMoves
  <2> QED BY <1>1, <2>1, Counters DEF SendBlock
<1>2. CASE Drain \/ AwaitAck
  BY <1>2, CheckFlagInOrder DEF Drain, AwaitAck
<1>3. CASE UNCHANGED <<lower, current, upper, cbuf, ackCh>>
  BY <1>3, Counters DEF OrderInv, AcksInOrder, UnackedHeld
<1> QED BY <1>1, <1>2, <1>3
        DEF RcopyNext, RcopyTimeout, RcopyMoves, ResendLowest, ReadEOF, DrainDone, Spin, SendEOF,
            GiveUp, rcopyVars, channelVars

-----------------------------------------------------------------------------
(* The steps of the server. *)

(* Every step of the server keeps the order. *)
LEMMA ServerInOrder ==
  ASSUME IInv, OrderInv, ServerNext
  PROVE  OrderInv' /\ lower' = lower
<1>0. UNCHANGED <<lower, current, upper, cbuf>>
  BY DEF ServerNext, ServerQuits, ServerReceives, ServerRecovers, rcopyVars
<1> SUFFICES AcksInOrder'
  BY <1>0 DEF OrderInv, UnackedHeld
<1>1. CASE RecvExpected
  <2>1. /\ Send(ackCh, RRPacket(expected')) /\ expected' \in Nat /\ expected <= expected'
    <3>1. \E k \in 1 .. WindowSize : expected' = expected + k
      BY <1>1 DEF RecvExpected, LoopWindow
    <3> QED BY <1>1, <3>1, Counters, PacketsAssumption, SMTT(30) DEF RecvExpected
  <2>2. RRPacket(expected') \in Packet /\ RRPacket(expected').num = expected'
    BY <2>1, PacketTypes DEF RRPacket
  <2> QED BY <1>0, <2>1, <2>2, AnswerInOrder DEF OrderInv
<1>2. CASE RecvDuplicate
  <2>1. RRPacket(expected) \in Packet /\ RRPacket(expected).num = expected
    BY PacketTypes, Counters DEF RRPacket
  <2> QED BY <1>0, <1>2, <2>1, Counters, AnswerInOrder DEF RecvDuplicate, OrderInv
<1>3. CASE SendSREJ
  <2>1. srejNext \in Nat /\ expected <= srejNext
    BY <1>3, Counters DEF SendSREJ, IInv, RecoverInv
  <2>2. SREJPacket(srejNext) \in Packet /\ SREJPacket(srejNext).num = srejNext
    BY <2>1, PacketTypes DEF SREJPacket
  <2> QED BY <1>0, <1>3, <2>1, <2>2, AnswerInOrder DEF SendSREJ, OrderInv
<1>4. CASE UNCHANGED ackCh
  BY <1>0, <1>4 DEF OrderInv, AcksInOrder
<1> QED BY <1>1, <1>2, <1>3, <1>4
        DEF ServerNext, ServerQuits, ServerReceives, ServerRecovers, ServerTimeout, RecvEOF,
            RecvCorrupt, RecvOutOfOrder, RecoverDone, channelVars

-----------------------------------------------------------------------------
(* Every step keeps OrderInv, and moves rcopy's window forward only. *)
LEMMA OrderStep ==
  ASSUME ~Unordered, IInv, OrderInv, [Next]_vars
  PROVE  OrderInv' /\ lower <= lower'
<1>1. CASE RcopyNext
  BY <1>1, RcopyInOrder
<1>2. CASE ServerNext
  BY <1>2, ServerInOrder, Counters
<1>3. CASE UNCHANGED vars
  BY <1>3, Counters
     DEF vars, rcopyVars, channelVars, OrderInv, AcksInOrder, UnackedHeld
<1> QED BY <1>1, <1>2, <1>3 DEF Next, Exited

(* On a network that keeps the order, the answers under way ascend, rcopy   *)
(* holds what is not acknowledged, and its window is never overrun.         *)
THEOREM OrderKept ==
  ASSUME ~Unordered
  PROVE  Spec => []OrderInv
<1>1. Init => OrderInv
  BY PacketsAssumption
     DEF Init, RcopyInit, ChannelInit, OrderInv, AcksInOrder, UnackedHeld
<1>2. IInv /\ OrderInv /\ [Next]_vars => OrderInv'
  BY OrderStep
<1> QED BY <1>1, <1>2, Invariance, PTL DEF Spec

(* What a timeout or an SREJ makes rcopy send again (send_seq_pkt,          *)
(* Csend_SREJ_pkt, read_packet) is still in its buffer.                     *)
THEOREM NothingUnackedLost ==
  ASSUME ~Unordered
  PROVE  Spec => []UnackedHeld
<1>1. OrderInv => UnackedHeld
  BY DEF OrderInv
<1> QED BY <1>1, OrderKept, PTL

(* Csend_SREJ_pkt sends the packet the server has asked for, however far    *)
(* the window has moved since.                                              *)
THEOREM RequestsAnswered ==
  ASSUME ~Unordered
  PROVE  Spec => []SREJAnswered
<1>1. IInv /\ OrderInv => SREJAnswered
  <2> SUFFICES ASSUME IInv, OrderInv, ackCh # <<>>, ackCh[1].ok, ackCh[1].flag = "SREJ"
               PROVE  ReadPacket(cbuf, ackCh[1].num) = DataPacket(ackCh[1].num)
    BY DEF SREJAnswered
  <2>1. ackCh[1] \in ServerSent /\ 1 \in DOMAIN ackCh
    BY Counters, EmptySeq, ElementOfSeq, LenProperties
  <2>2. ackCh[1].num \in lower .. current - 1
    BY <2>1, Counters DEF OrderInv, AcksInOrder, ServerSent, Packet
  <2> QED BY <2>2 DEF OrderInv, UnackedHeld
<1> QED BY <1>1, Invariance, OrderKept, PTL

(* slide_window takes whatever an RR says, yet never moves back.            *)
THEOREM WindowMovesForward ==
  ASSUME ~Unordered
  PROVE  Spec => NeverSlidesBack
<1>1. IInv /\ IInv' /\ OrderInv /\ [Next]_vars => [lower' >= lower /\ upper' >= upper]_vars
  <2> SUFFICES ASSUME IInv, IInv', OrderInv, [Next]_vars
               PROVE  lower' >= lower /\ upper' >= upper
    OBVIOUS
  <2>1. lower <= lower'
    BY OrderStep
  <2>2. /\ lower \in Nat /\ lower' \in Nat
        /\ upper = lower + WindowSize /\ upper' = lower' + WindowSize
    BY Counters DEF IInv, TypeOK, RcopyTypeOK, WindowInv
  <2>3. \A x, y, z \in Nat : x <= y => y >= x /\ y + z >= x + z
    OBVIOUS
  <2> QED BY <2>1, <2>2, <2>3, PacketsAssumption
<1> QED BY <1>1, Invariance, OrderKept, PTL DEF Spec, NeverSlidesBack

(* With its window closed before the end of the file, send_data waits for   *)
(* an answer: there is no busy loop that neither sends nor polls.           *)
THEOREM ClosedWindowPolls ==
  ASSUME ~Unordered
  PROVE  Spec => []ClosedWindowWaits
<1>1. IInv /\ OrderInv => ClosedWindowWaits
  <2> SUFFICES ASSUME IInv, OrderInv, CheckClosed PROVE MustWait
    BY DEF ClosedWindowWaits
  <2>1. current = upper
    BY Counters DEF IInv, TypeOK, RcopyTypeOK, OrderInv, CheckClosed
  <2> QED BY <2>1 DEF MustWait, WindowOpen, CheckClosed, CheckFull
<1> QED BY <1>1, Invariance, OrderKept, PTL
==============================================================================
