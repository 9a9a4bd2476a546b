--------------------------- MODULE TransferProofs ----------------------------
(***************************************************************************)
(* IInv of TransferInv is an invariant of Transfer, for every value of the *)
(* constants; the safety properties of Transfer follow from it.            *)
(***************************************************************************)
EXTENDS TransferLemmas

(* The inductive invariant holds when the data phase starts. *)
THEOREM Initialization == Init => IInv
<1> SUFFICES ASSUME Init PROVE IInv
  OBVIOUS
<1> USE PacketsAssumption, ChannelAssumption DEF Init, RcopyInit, ServerInit, ChannelInit
<1>1. EmptyBuffer \in Buffers
  BY PacketTypes DEF EmptyBuffer, Buffers
<1>2. RcopyTypeOK
  <2>1. readEOF \in BOOLEAN
    OBVIOUS
  <2>2. count \in 0 .. MaxCount + 1 /\ lower \in Nat /\ current \in Nat /\ upper \in Nat
    BY RcopyAssumption
  <2> QED BY <1>1, <2>1, <2>2 DEF RcopyTypeOK
<1>3. ServerTypeOK
  BY <1>1 DEF ServerTypeOK
<1>4. ChannelTypeOK
  BY DEF ChannelTypeOK
<1>5. ChannelInv
  BY DEF ChannelInv
<1>6. WindowInv
  BY DEF WindowInv, WindowBounds
<1>7. RcopyBufferInv
  BY DEF RcopyBufferInv
<1>8. ServerBufferInv /\ RecoverInv
  BY DEF ServerBufferInv, RecoverInv, EmptyBuffer
<1>9. WrittenInOrder /\ StatusInv
  BY DEF WrittenInOrder, StatusInv
<1> QED BY <1>2, <1>3, <1>4, <1>5, <1>6, <1>7, <1>8, <1>9 DEF IInv, TypeOK

(* The facts of the invariant about numbers and types, for use in the       *)
(* steps below.                                                             *)
LEMMA Counters ==
  ASSUME IInv
  PROVE  /\ lower \in Nat /\ current \in Nat /\ upper \in Nat
         /\ expected \in Nat /\ highest \in Nat
         /\ srejNext \in Nat /\ recvSeq \in Nat
         /\ errors \in 0 .. ErrorBudget
         /\ cbuf \in Buffers /\ sbuf \in Buffers
         /\ written \in Seq(WrittenBlock)
         /\ lower <= expected /\ expected <= current
         /\ current <= expected + WindowSize /\ current <= Blocks
         /\ upper = lower + WindowSize
         /\ dataCh \in Seq(RcopySent) /\ ackCh \in Seq(ServerSent)
  BY DEF IInv, TypeOK, RcopyTypeOK, ServerTypeOK, ChannelTypeOK, WindowInv, WindowBounds,
         ChannelInv

(* A step of rcopy, which can only raise current, leaves the server's part  *)
(* of the invariant intact.                                                 *)
LEMMA ServerUnmoved ==
  ASSUME IInv, UNCHANGED serverVars, current' \in Nat, current <= current'
  PROVE  /\ ServerTypeOK'
         /\ ServerBufferInv'
         /\ RecoverInv'
         /\ WrittenInOrder'
<1> USE Counters DEF serverVars
<1>1. ServerTypeOK'
  BY DEF IInv, TypeOK, ServerTypeOK
<1>2. ServerBufferInv'
  <2>1. ASSUME NEW i \in SlotIndex, sbuf'[i].valid
        PROVE  /\ HeldBlock(sbuf[i])'
               /\ sbuf'[i].pkt.num > expected'
               /\ Slot(sbuf'[i].pkt.num) = i
    <3>1. /\ HeldBlock(sbuf[i])
          /\ sbuf[i].pkt.num > expected
          /\ Slot(sbuf[i].pkt.num) = i
      BY <2>1 DEF IInv, ServerBufferInv
    <3>2. sbuf[i].pkt.num \in Nat
      BY DEF Buffers, Packet
    <3>3. HeldBlock(sbuf[i])'
      BY <3>1, <3>2, SMTT(20) DEF HeldBlock
    <3> QED BY <3>1, <3>3
  <2> QED BY <2>1 DEF ServerBufferInv
<1>3. RecoverInv'
  BY DEF IInv, RecoverInv
<1>4. WrittenInOrder'
  BY DEF IInv, WrittenInOrder
<1> QED BY <1>1, <1>2, <1>3, <1>4

(* A step of the server, which can only raise expected, leaves rcopy's      *)
(* part intact.                                                             *)
LEMMA RcopyUnmoved ==
  ASSUME IInv, UNCHANGED rcopyVars, expected' \in Nat, expected <= expected', expected' <= current
  PROVE  /\ RcopyTypeOK'
         /\ WindowInv'
         /\ RcopyBufferInv'
         /\ StatusInv'
<1> USE Counters DEF rcopyVars
<1>1. RcopyTypeOK'
  BY DEF IInv, TypeOK, RcopyTypeOK
<1>2. WindowInv'
  BY PacketsAssumption DEF IInv, WindowInv, WindowBounds
<1>3. RcopyBufferInv'
  BY DEF IInv, RcopyBufferInv, HeldBlock
<1>4. StatusInv'
  BY PacketsAssumption DEF IInv, StatusInv
<1> QED BY <1>1, <1>2, <1>3, <1>4

(* rcopy reads an intact block it has sent from every slot of a packet      *)
(* number below current.                                                    *)
LEMMA ReadSent ==
  ASSUME IInv, NEW n \in Nat, n < current
  PROVE  /\ ReadPacket(cbuf, n) \in RcopySent
         /\ ReadPacket(cbuf, n).ok
<1>1. Slot(n) \in SlotIndex
  BY SlotInIndex
<1>2. HeldBlock(cbuf[Slot(n)])
  BY Counters DEF IInv, RcopyBufferInv
<1>3. cbuf[Slot(n)].pkt \in Packet
  BY <1>1, Counters DEF Buffers
<1>4. cbuf[Slot(n)].pkt.num \in Nat
  BY <1>3 DEF Packet
<1> QED BY <1>2, <1>4, SentPackets, Counters DEF HeldBlock, ReadPacket, DataPacket

(* send_data with an open window: the new block goes out and into its       *)
(* slot.                                                                    *)
LEMMA SendBlockStep ==
  ASSUME IInv, SendBlock, UNCHANGED serverVars
  PROVE  IInv'
<1> USE Counters
<1>1. /\ current < Blocks /\ current < upper
      /\ current' = current + 1
      /\ cstate' = "DRAIN" /\ count' = 0
      /\ UNCHANGED <<readEOF, lower, upper, status, ackCh>>
      /\ cbuf' = InsertPacket(cbuf, DataPacket(current))
      /\ ~readEOF /\ cstate = "SEND_DATA"
  BY PacketsAssumption DEF SendBlock, InSendData, WindowOpen, CheckClosed
<1>2. /\ DataPacket(current) \in Packet
      /\ DataPacket(current) \in RcopySent'
      /\ Flipped(DataPacket(current)) \subseteq RcopySent'
  <2>1. DataPacket(current) \in RcopySent'
    BY <1>1, PacketTypes DEF RcopySent, DataPacket
  <2>2. Flipped(DataPacket(current)) \subseteq RcopySent'
    BY FlippedType, PacketTypes DEF RcopySent
  <2> QED BY <2>1, <2>2, PacketTypes
<1>3. expected' = expected
  BY DEF serverVars
<1>4. dataCh \in Seq(RcopySent') /\ ackCh \in Seq(ServerSent')
  BY <1>1, <1>3, ChannelsGrow DEF IInv
<1>5. dataCh' \in Seq(RcopySent') /\ errors' \in 0 .. ErrorBudget
  BY <1>2, <1>4, SendData DEF SendBlock
<1>6. ChannelInv'
  BY <1>1, <1>4, <1>5 DEF ChannelInv
<1>7. cbuf' \in Buffers
  BY <1>1, <1>2, SlotInIndex DEF InsertPacket, Buffers
<1>8. RcopyTypeOK'
  BY <1>1, <1>7, RcopyAssumption DEF IInv, TypeOK, RcopyTypeOK
<1>9. WindowInv'
  BY <1>1, <1>3, PacketsAssumption, SMTT(30) DEF IInv, WindowInv, WindowBounds
<1>10. RcopyBufferInv'
  <2>1. ASSUME NEW n \in 0 .. current' - 1
        PROVE  HeldBlock(cbuf[Slot(n)])'
    <3>1. Slot(n) \in SlotIndex /\ Slot(current) \in SlotIndex
      BY <1>1, SlotInIndex
    <3>2. CASE Slot(n) = Slot(current)
      BY <1>1, <3>1, <3>2 DEF InsertPacket, HeldBlock, Buffers, DataPacket
    <3>3. CASE Slot(n) # Slot(current)
      <4>1. n \in 0 .. current - 1
        BY <1>1, <3>3
      <4>2. HeldBlock(cbuf[Slot(n)])
        BY <4>1 DEF IInv, RcopyBufferInv
      <4>3. cbuf'[Slot(n)] = cbuf[Slot(n)] /\ cbuf[Slot(n)].pkt.num \in Nat
        BY <1>1, <3>1, <3>3 DEF InsertPacket, Buffers, DataPacket, Packet
      <4> QED BY <1>1, <4>2, <4>3, SMTT(20) DEF HeldBlock
    <3> QED BY <3>2, <3>3
  <2> QED BY <2>1 DEF RcopyBufferInv
<1>11. StatusInv'
  BY <1>1, <1>3 DEF IInv, StatusInv
<1>12. ServerTypeOK' /\ ServerBufferInv' /\ RecoverInv' /\ WrittenInOrder'
  BY <1>1, ServerUnmoved
<1>13. ChannelTypeOK'
  BY <1>5, <1>6, SeqMonotonic DEF ChannelTypeOK, ChannelInv, RcopySent, ServerSent
<1> QED BY <1>6, <1>8, <1>9, <1>10, <1>11, <1>12, <1>13 DEF IInv, TypeOK

-----------------------------------------------------------------------------
(* The steps of rcopy. *)

(* The set of packets under way is made of packets. *)
LEMMA ChannelsTyped ==
  ASSUME ChannelInv', errors' \in 0 .. ErrorBudget
  PROVE  ChannelTypeOK'
  BY SeqMonotonic DEF ChannelTypeOK, ChannelInv, RcopySent, ServerSent

(* What a step of rcopy that sends no new block has to keep. *)
LEMMA RcopyStep ==
  ASSUME IInv, UNCHANGED serverVars, UNCHANGED <<current, cbuf>>,
         RcopyTypeOK', ChannelInv', errors' \in 0 .. ErrorBudget,
         lower' <= expected, upper' = lower' + WindowSize,
         readEOF' => current = Blocks,
         cstate' # "DONE" => status' = "running",
         status' = "1" => expected = Blocks
  PROVE  IInv'
<1> USE Counters
<1>1. expected' = expected
  BY DEF serverVars
<1>2. ServerTypeOK' /\ ServerBufferInv' /\ RecoverInv' /\ WrittenInOrder'
  BY ServerUnmoved
<1>3. WindowInv'
  BY <1>1 DEF WindowInv, WindowBounds
<1>4. RcopyBufferInv'
  BY DEF IInv, RcopyBufferInv, HeldBlock
<1>5. StatusInv'
  BY <1>1 DEF StatusInv
<1>6. ChannelTypeOK'
  BY ChannelsTyped
<1> QED BY <1>2, <1>3, <1>4, <1>5, <1>6 DEF IInv, TypeOK

(* A step that leaves the channels alone keeps their contents legal. *)
LEMMA ChannelsKept ==
  ASSUME IInv, UNCHANGED channelVars, current' \in Nat, current <= current',
         expected' \in Nat, expected <= expected'
  PROVE  ChannelInv' /\ errors' \in 0 .. ErrorBudget
<1>1. ChannelInv'
  BY Counters, ChannelsGrow DEF channelVars, ChannelInv, IInv
<1> QED BY <1>1, Counters DEF channelVars

(* A step in which rcopy sends a block it holds keeps the contents legal. *)
LEMMA RcopySends ==
  ASSUME IInv, UNCHANGED <<current, expected>>, ackCh' \in Seq(ServerSent),
         NEW p, p \in RcopySent, Send(dataCh, p)
  PROVE  ChannelInv' /\ errors' \in 0 .. ErrorBudget
<1>1. Flipped(p) \subseteq RcopySent
  BY SentPackets, Counters
<1>2. dataCh' \in Seq(RcopySent) /\ errors' \in 0 .. ErrorBudget
  BY <1>1, Counters, SendData
<1>3. RcopySent' = RcopySent /\ ServerSent' = ServerSent
  BY DEF RcopySent, ServerSent
<1> QED BY <1>2, <1>3 DEF ChannelInv

(* send_data with an open window at the end of the file. *)
LEMMA ReadEOFStep ==
  ASSUME IInv, ReadEOF, UNCHANGED serverVars
  PROVE  IInv'
<1> USE Counters
<1>1. /\ UNCHANGED <<current, cbuf>> /\ UNCHANGED <<lower, upper, count, status, channelVars>>
      /\ cstate = "SEND_DATA" /\ cstate' = "DRAIN" /\ current >= Blocks
      /\ expected' = expected
  BY DEF ReadEOF, InSendData, serverVars
<1>2. readEOF' = TRUE
  BY DEF ReadEOF
<1>3. RcopyTypeOK'
  <2>1. readEOF' \in BOOLEAN
    BY <1>2
  <2> QED BY <1>1, <2>1 DEF IInv, TypeOK, RcopyTypeOK
<1>4. ChannelInv' /\ errors' \in 0 .. ErrorBudget
  BY <1>1, ChannelsKept
<1>5. current = Blocks
  BY <1>1, PacketsAssumption
<1> QED BY <1>1, <1>3, <1>4, <1>5, RcopyStep DEF IInv, StatusInv

(* check_flag, for whatever arrives from the server. *)
LEMMA CheckFlagStep ==
  ASSUME IInv, NEW i \in Arrivals(ackCh), CheckFlag(i), UNCHANGED cstate, UNCHANGED serverVars
  PROVE  IInv'
<1> USE Counters
<1>1. ackCh[i] \in ServerSent /\ ackCh' \in Seq(ServerSent)
  BY ReceiveAck DEF CheckFlag
<1>2. /\ UNCHANGED <<current, cbuf>>
      /\ UNCHANGED <<readEOF, status>>
      /\ expected' = expected
  BY DEF CheckFlag, serverVars
<1>3. readEOF' => current = Blocks
  BY <1>2 DEF IInv, WindowInv
<1>4. /\ cstate' # "DONE" => status' = "running"
      /\ status' = "1" => expected = Blocks
  BY <1>2 DEF IInv, StatusInv
<1>5. ackCh[i].num \in Nat
  BY <1>1 DEF ServerSent, Packet
<1>6. RcopySent' = RcopySent /\ ServerSent' = ServerSent
  BY <1>2 DEF RcopySent, ServerSent
<1>7. CASE /\ ackCh[i].ok /\ ackCh[i].flag = "RR"
           /\ SlideWindow(ackCh[i].num)
           /\ count' = 0
           /\ UNCHANGED <<dataCh, errors>>
  <2>1. ackCh[i].num <= expected
    BY <1>1, <1>7 DEF ServerSent
  <2>2. lower' = ackCh[i].num /\ upper' = lower' + WindowSize
    BY <1>7 DEF SlideWindow
  <2>3. RcopyTypeOK'
    <3>1. lower' \in Nat /\ upper' \in Nat
      <4>1. lower' \in Nat
        BY <1>5, <2>2
      <4> HIDE Counters
      <4> QED BY <2>2, <4>1, PacketsAssumption
    <3>2. count' \in 0 .. MaxCount + 1
      BY <1>7, RcopyAssumption
    <3>3. UNCHANGED <<cstate, readEOF, current, cbuf, status>>
      BY <1>2
    <3>4. RcopyTypeOK
      BY DEF IInv, TypeOK
    <3> QED BY <3>1, <3>2, <3>3, <3>4 DEF RcopyTypeOK
  <2>4. ChannelInv' /\ errors' \in 0 .. ErrorBudget
    BY <1>1, <1>6, <1>7 DEF ChannelInv
  <2> QED BY <1>2, <1>3, <1>4, <2>1, <2>2, <2>3, <2>4, RcopyStep
<1>8. CASE /\ ackCh[i].ok /\ ackCh[i].flag = "SREJ"
           /\ Send(dataCh, ReadPacket(cbuf, ackCh[i].num))
           /\ count' = 0
           /\ UNCHANGED <<lower, upper>>
  <2>1. ackCh[i].num < current
    BY <1>1, <1>8 DEF ServerSent
  <2>2. ReadPacket(cbuf, ackCh[i].num) \in RcopySent
    BY <1>5, <2>1, ReadSent
  <2>3. ChannelInv' /\ errors' \in 0 .. ErrorBudget
    BY <1>1, <1>2, <1>8, <2>2, RcopySends
  <2>4. RcopyTypeOK'
    BY <1>2, <1>8, RcopyAssumption DEF IInv, TypeOK, RcopyTypeOK
  <2> QED BY <1>2, <1>3, <1>4, <1>8, <2>3, <2>4, RcopyStep
<1>9. CASE UNCHANGED <<lower, upper, count, dataCh, errors>>
  <2>1. ChannelInv' /\ errors' \in 0 .. ErrorBudget
    BY <1>1, <1>6, <1>9 DEF ChannelInv
  <2>2. RcopyTypeOK'
    BY <1>2, <1>9 DEF IInv, TypeOK, RcopyTypeOK
  <2> QED BY <1>2, <1>3, <1>4, <1>9, <2>1, <2>2, RcopyStep
<1> QED BY <1>7, <1>8, <1>9 DEF CheckFlag

(* The drain loop of send_data ends. *)
LEMMA DrainDoneStep ==
  ASSUME IInv, DrainDone, UNCHANGED serverVars
  PROVE  IInv'
<1> USE Counters
<1>1. /\ UNCHANGED <<current, cbuf>>
      /\ UNCHANGED <<lower, upper, readEOF, status, count, channelVars>>
      /\ cstate = "DRAIN" /\ cstate' = "SEND_DATA"
      /\ expected' = expected
  BY DEF DrainDone, serverVars
<1>2. RcopyTypeOK'
  BY <1>1 DEF IInv, TypeOK, RcopyTypeOK
<1>3. ChannelInv' /\ errors' \in 0 .. ErrorBudget
  BY <1>1, ChannelsKept
<1> QED BY <1>1, <1>2, <1>3, RcopyStep DEF IInv, WindowInv, StatusInv

(* A timeout sends the lowest packet again: the slot holds some block that  *)
(* was sent.                                                                *)
LEMMA ResendLowestStep ==
  ASSUME IInv, ResendLowest, UNCHANGED serverVars
  PROVE  IInv'
<1> USE Counters
<1>1. /\ UNCHANGED <<current, cbuf>>
      /\ UNCHANGED <<lower, upper, readEOF, status, cstate, ackCh>>
      /\ count' = count + 1 /\ count <= MaxCount
      /\ expected' = expected
  BY DEF ResendLowest, InSendData, serverVars
<1>2. lower < current
  BY PacketsAssumption
     DEF ResendLowest, MustWait, CheckFull, CheckLast, IInv, WindowInv, WindowBounds
<1>3. ChannelInv' /\ errors' \in 0 .. ErrorBudget
  BY <1>1, <1>2, ReadSent, RcopySends DEF ResendLowest
<1>4. RcopyTypeOK'
  BY <1>1, RcopyAssumption DEF IInv, TypeOK, RcopyTypeOK
<1> QED BY <1>1, <1>3, <1>4, RcopyStep DEF IInv, WindowInv, StatusInv

(* send_EOF_pkt: the window is empty at the end of the file, so everything  *)
(* is written.                                                              *)
LEMMA SendEOFStep ==
  ASSUME IInv, SendEOF, UNCHANGED serverVars
  PROVE  IInv'
<1> USE Counters
<1>1. /\ UNCHANGED <<current, cbuf>>
      /\ UNCHANGED <<lower, upper, readEOF, count, ackCh>>
      /\ cstate' = "DONE" /\ status' = "1"
      /\ expected' = expected
  BY DEF SendEOF, serverVars
<1>2. expected = Blocks
  BY PacketsAssumption DEF SendEOF, AllAcked, CheckLast, IInv, WindowInv
<1>3. ChannelInv' /\ errors' \in 0 .. ErrorBudget
  BY <1>1, SentPackets, RcopySends DEF SendEOF
<1>4. RcopyTypeOK'
  BY <1>1 DEF IInv, TypeOK, RcopyTypeOK
<1> QED BY <1>1, <1>2, <1>3, <1>4, RcopyStep DEF IInv, WindowInv

(* rcopy gives up. *)
LEMMA GiveUpStep ==
  ASSUME IInv, GiveUp, UNCHANGED serverVars
  PROVE  IInv'
<1> USE Counters
<1>1. /\ UNCHANGED <<current, cbuf>>
      /\ UNCHANGED <<lower, upper, readEOF, count, channelVars>>
      /\ cstate' = "DONE" /\ status' = "0"
      /\ expected' = expected
  BY DEF GiveUp, serverVars
<1>2. RcopyTypeOK'
  BY <1>1 DEF IInv, TypeOK, RcopyTypeOK
<1>3. ChannelInv' /\ errors' \in 0 .. ErrorBudget
  BY <1>1, ChannelsKept
<1> QED BY <1>1, <1>2, <1>3, RcopyStep DEF IInv, WindowInv

(* send_data falls through all its branches. *)
LEMMA SpinStep ==
  ASSUME IInv, Spin, UNCHANGED serverVars
  PROVE  IInv'
<1> USE Counters
<1>1. UNCHANGED rcopyVars /\ UNCHANGED channelVars /\ expected' = expected
  BY DEF Spin, serverVars
<1>2. UNCHANGED <<current, cbuf>> /\ UNCHANGED <<lower, upper, readEOF, status, cstate>>
  BY <1>1 DEF rcopyVars
<1>3. RcopyTypeOK'
  BY <1>1 DEF rcopyVars, IInv, TypeOK, RcopyTypeOK
<1>4. ChannelInv' /\ errors' \in 0 .. ErrorBudget
  BY <1>1, <1>2, ChannelsKept
<1> QED BY <1>1, <1>2, <1>3, <1>4, RcopyStep DEF IInv, WindowInv, StatusInv

(* Every step of rcopy keeps the invariant. *)
LEMMA RcopyNextStep ==
  ASSUME IInv, RcopyNext
  PROVE  IInv'
<1>1. CASE RcopyTimeout
  BY <1>1, ResendLowestStep DEF RcopyTimeout
<1>2. CASE SendBlock /\ UNCHANGED serverVars
  BY <1>2, SendBlockStep
<1>3. CASE ReadEOF /\ UNCHANGED serverVars
  BY <1>3, ReadEOFStep
<1>4. CASE Drain /\ UNCHANGED serverVars
  BY <1>4, CheckFlagStep DEF Drain
<1>5. CASE DrainDone /\ UNCHANGED serverVars
  BY <1>5, DrainDoneStep
<1>6. CASE AwaitAck /\ UNCHANGED serverVars
  BY <1>6, CheckFlagStep DEF AwaitAck
<1>7. CASE SendEOF /\ UNCHANGED serverVars
  BY <1>7, SendEOFStep
<1>8. CASE GiveUp /\ UNCHANGED serverVars
  BY <1>8, GiveUpStep
<1>9. CASE Spin /\ UNCHANGED serverVars
  BY <1>9, SpinStep
<1> QED BY <1>1, <1>2, <1>3, <1>4, <1>5, <1>6, <1>7, <1>8, <1>9 DEF RcopyNext, RcopyMoves

-----------------------------------------------------------------------------
(* The steps of the server. *)

(* What a step of the server has to keep. *)
LEMMA ServerStep ==
  ASSUME IInv, UNCHANGED rcopyVars,
         expected' \in Nat, expected <= expected', expected' <= current,
         ServerTypeOK', ServerBufferInv', RecoverInv', WrittenInOrder',
         ChannelInv', errors' \in 0 .. ErrorBudget
  PROVE  IInv'
<1>1. RcopyTypeOK' /\ WindowInv' /\ RcopyBufferInv' /\ StatusInv'
  BY RcopyUnmoved
<1>2. ChannelTypeOK'
  BY ChannelsTyped
<1> QED BY <1>1, <1>2 DEF IInv, TypeOK

(* A step in which the server answers keeps the contents of the channels    *)
(* legal.                                                                   *)
LEMMA ServerSends ==
  ASSUME IInv, UNCHANGED current, expected' \in Nat, expected <= expected',
         dataCh' \in Seq(RcopySent), NEW p, p \in ServerSent', Send(ackCh, p)
  PROVE  ChannelInv' /\ errors' \in 0 .. ErrorBudget
<1> USE Counters
<1>1. Flipped(p) \subseteq ServerSent'
  BY FlippedType DEF ServerSent
<1>2. dataCh' \in Seq(RcopySent')
  BY DEF RcopySent
<1>3. ackCh \in Seq(ServerSent')
  BY ChannelsGrow DEF IInv
<1>4. ackCh' \in Seq(ServerSent') /\ errors' \in 0 .. ErrorBudget
  BY <1>1, <1>3, SendAck
<1> QED BY <1>2, <1>4 DEF ChannelInv

(* A step outside recover_packet that neither writes nor buffers keeps the  *)
(* server's part.                                                           *)
LEMMA ServerIdle ==
  ASSUME IInv, UNCHANGED <<expected, highest, sbuf, asked, written, current>>,
         sstate # "RECOVER", sstate' \in {"RECV_DATA", "DONE"},
         srejNext' \in Nat, recvSeq' \in Nat
  PROVE  ServerTypeOK' /\ ServerBufferInv' /\ RecoverInv' /\ WrittenInOrder'
<1>1. ServerTypeOK'
  BY DEF IInv, TypeOK, ServerTypeOK
<1>2. ServerBufferInv'
  BY DEF IInv, ServerBufferInv, HeldBlock
<1>3. RecoverInv'
  BY DEF IInv, RecoverInv
<1>4. WrittenInOrder'
  BY DEF IInv, WrittenInOrder
<1> QED BY <1>1, <1>2, <1>3, <1>4

(* The ten seconds run out. *)
LEMMA ServerTimeoutStep ==
  ASSUME IInv, ServerTimeout, UNCHANGED rcopyVars
  PROVE  IInv'
<1> USE Counters
<1>1. /\ UNCHANGED <<expected, highest, sbuf, srejNext, recvSeq, asked, written, current, channelVars>>
      /\ sstate # "RECOVER" /\ sstate' = "DONE"
  BY DEF ServerTimeout, rcopyVars
<1>2. ChannelInv' /\ errors' \in 0 .. ErrorBudget
  BY <1>1, ChannelsKept
<1> QED BY <1>1, <1>2, ServerIdle, ServerStep

(* A step that takes a packet and sends none keeps the contents of the      *)
(* channels legal.                                                          *)
LEMMA Consumed ==
  ASSUME IInv, NEW i \in Arrivals(dataCh), Receive(dataCh, i),
         UNCHANGED <<current, expected, ackCh, errors>>
  PROVE  ChannelInv' /\ errors' \in 0 .. ErrorBudget
<1>1. dataCh' \in Seq(RcopySent)
  BY ReceiveData, Counters
<1>2. RcopySent' = RcopySent /\ ServerSent' = ServerSent
  BY DEF RcopySent, ServerSent
<1> QED BY <1>1, <1>2, Counters DEF ChannelInv

(* The end-of-file packet, intact or not, ends the server. *)
LEMMA RecvEOFStep ==
  ASSUME IInv, RecvEOF, UNCHANGED rcopyVars
  PROVE  IInv'
<1> USE Counters
<1>1. /\ UNCHANGED <<expected, highest, sbuf, srejNext, recvSeq, asked, written, current, ackCh, errors>>
      /\ sstate # "RECOVER" /\ sstate' = "DONE"
  BY DEF RecvEOF, rcopyVars
<1>2. ChannelInv' /\ errors' \in 0 .. ErrorBudget
  BY <1>1, Consumed DEF RecvEOF
<1> QED BY <1>1, <1>2, ServerIdle, ServerStep

(* A packet whose checksum fails is ignored. *)
LEMMA RecvCorruptStep ==
  ASSUME IInv, RecvCorrupt, UNCHANGED rcopyVars
  PROVE  IInv'
<1> USE Counters
<1>1. /\ UNCHANGED <<expected, highest, sbuf, srejNext, recvSeq, asked, written, current, ackCh, errors>>
      /\ sstate = "RECV_DATA" /\ sstate' = "RECV_DATA"
  BY DEF RecvCorrupt, rcopyVars, serverVars
<1>2. ChannelInv' /\ errors' \in 0 .. ErrorBudget
  BY <1>1, Consumed DEF RecvCorrupt
<1> QED BY <1>1, <1>2, ServerIdle, ServerStep

(* A packet that passes the tests of recv_data is a block rcopy has sent. *)
LEMMA IntactIsData ==
  ASSUME IInv, NEW i \in Arrivals(dataCh), RecvIntact(i)
  PROVE  /\ dataCh[i] \in Packet
         /\ dataCh[i].num \in Nat
         /\ dataCh[i].num < current
         /\ dataCh[i] = DataPacket(dataCh[i].num)
         /\ dataCh' \in Seq(RcopySent)
<1>1. dataCh[i] \in RcopySent /\ dataCh' \in Seq(RcopySent)
  BY ReceiveData, Counters DEF RecvIntact
<1> QED BY <1>1 DEF RecvIntact, RcopySent, Packet

(* A duplicate is acknowledged again. *)
LEMMA RecvDuplicateStep ==
  ASSUME IInv, RecvDuplicate, UNCHANGED rcopyVars
  PROVE  IInv'
<1> USE Counters
<1>1. PICK i \in Arrivals(dataCh) :
        /\ RecvIntact(i)
        /\ dataCh[i].num < expected
        /\ Send(ackCh, RRPacket(expected))
        /\ UNCHANGED serverVars
  BY DEF RecvDuplicate
<1>2. /\ UNCHANGED <<expected, highest, sbuf, srejNext, recvSeq, asked, written, current>>
      /\ sstate = "RECV_DATA" /\ sstate' = "RECV_DATA"
  BY <1>1 DEF RecvIntact, rcopyVars, serverVars
<1>3. dataCh' \in Seq(RcopySent)
  BY <1>1, IntactIsData
<1>4. RRPacket(expected) \in ServerSent /\ ServerSent' = ServerSent
  BY <1>2, SentPackets DEF ServerSent
<1>5. ChannelInv' /\ errors' \in 0 .. ErrorBudget
  BY <1>1, <1>2, <1>3, <1>4, ServerSends
<1> QED BY <1>2, <1>5, ServerIdle, ServerStep

(* The server's buffer after insert_packet: the new packet, and those the   *)
(* slot did not clobber.                                                    *)
LEMMA InsertedBuffer ==
  ASSUME IInv, NEW n \in Nat, n < current,
         NEW b, b = InsertPacket(sbuf, DataPacket(n)), expected <= n
  PROVE  /\ b \in Buffers
         /\ GetValid(b, n)
         /\ \A i \in SlotIndex :
              b[i].valid =>
                /\ b[i].pkt = DataPacket(b[i].pkt.num)
                /\ b[i].pkt.num \in Nat
                /\ expected <= b[i].pkt.num
                /\ b[i].pkt.num < current
                /\ Slot(b[i].pkt.num) = i
                /\ \/ b[i].pkt.num = n
                   \/ sbuf[i].valid /\ b[i] = sbuf[i] /\ expected < b[i].pkt.num
<1> USE Counters
<1>1. Slot(n) \in SlotIndex /\ DataPacket(n) \in Packet /\ DataPacket(n).num = n
  BY SlotInIndex, PacketTypes DEF DataPacket
<1>2. b = [sbuf EXCEPT ![Slot(n)] = [valid |-> TRUE, pkt |-> DataPacket(n)]]
  BY <1>1 DEF InsertPacket
<1>3. b \in Buffers
  BY <1>1, <1>2 DEF Buffers
<1>4. b[Slot(n)] = [valid |-> TRUE, pkt |-> DataPacket(n)]
  BY <1>1, <1>2 DEF Buffers
<1>5. ASSUME NEW i \in SlotIndex, b[i].valid
      PROVE  /\ b[i].pkt = DataPacket(b[i].pkt.num)
             /\ b[i].pkt.num \in Nat
             /\ expected <= b[i].pkt.num
             /\ b[i].pkt.num < current
             /\ Slot(b[i].pkt.num) = i
             /\ \/ b[i].pkt.num = n
                \/ sbuf[i].valid /\ b[i] = sbuf[i] /\ expected < b[i].pkt.num
  <2>1. CASE i = Slot(n)
    BY <1>1, <1>4, <2>1
  <2>2. CASE i # Slot(n)
    <3>1. b[i] = sbuf[i]
      BY <1>2, <2>2 DEF Buffers
    <3>2. sbuf[i].pkt.num \in Nat
      BY DEF Buffers, Packet
    <3>3. HeldBlock(sbuf[i]) /\ sbuf[i].pkt.num > expected /\ Slot(sbuf[i].pkt.num) = i
      BY <1>5, <3>1 DEF IInv, ServerBufferInv
    <3> QED BY <1>5, <3>1, <3>2, <3>3 DEF HeldBlock
  <2> QED BY <2>1, <2>2
<1> QED BY <1>3, <1>4, <1>5 DEF GetValid

(* A packet that came too early is buffered, and recovery starts. *)
LEMMA RecvOutOfOrderStep ==
  ASSUME IInv, RecvOutOfOrder, UNCHANGED rcopyVars
  PROVE  IInv'
<1> USE Counters
<1>1. PICK i \in Arrivals(dataCh) :
        /\ RecvIntact(i)
        /\ dataCh[i].num > expected
        /\ sbuf' = InsertPacket(sbuf, dataCh[i])
        /\ highest' = MaxOf(highest, expected)
        /\ srejNext' = MaxOf(highest, expected)
        /\ recvSeq' = dataCh[i].num
        /\ sstate' = "RECOVER"
        /\ UNCHANGED <<expected, asked, written, ackCh, errors>>
  BY DEF RecvOutOfOrder
<1> DEFINE n == dataCh[i].num
<1>2. n \in Nat /\ n < current /\ dataCh[i] = DataPacket(n) /\ expected < n
  BY <1>1, IntactIsData
<1>3. sbuf' = InsertPacket(sbuf, DataPacket(n))
  BY <1>1, <1>2
<1>4. recvSeq' = n
  BY <1>1
<1> HIDE DEF n
<1>5. current' = current
  BY DEF rcopyVars
<1>6. ChannelInv' /\ errors' \in 0 .. ErrorBudget
  BY <1>1, <1>5, Consumed DEF RecvIntact
<1>7. /\ highest' \in Nat /\ srejNext' = highest'
      /\ highest <= highest' /\ expected <= highest'
  BY <1>1 DEF MaxOf
<1>8. /\ sbuf' \in Buffers
      /\ \A j \in SlotIndex :
           sbuf'[j].valid =>
             /\ sbuf'[j].pkt = DataPacket(sbuf'[j].pkt.num)
             /\ sbuf'[j].pkt.num \in Nat
             /\ expected <= sbuf'[j].pkt.num
             /\ sbuf'[j].pkt.num < current
             /\ Slot(sbuf'[j].pkt.num) = j
             /\ \/ sbuf'[j].pkt.num = n
                \/ sbuf[j].valid /\ sbuf'[j] = sbuf[j] /\ expected < sbuf'[j].pkt.num
  BY <1>2, <1>3, InsertedBuffer
<1>9. ServerTypeOK'
  <2>1. asked' \in SUBSET Nat
    BY <1>1 DEF IInv, TypeOK, ServerTypeOK
  <2> QED BY <1>1, <1>2, <1>4, <1>7, <1>8, <2>1 DEF ServerTypeOK
<1>10. ServerBufferInv'
  BY <1>1, <1>2, <1>5, <1>8 DEF ServerBufferInv, HeldBlock
<1>11. RecoverInv'
  <2>1. recvSeq' < current' /\ expected' <= highest' /\ highest' <= srejNext'
    BY <1>1, <1>2, <1>4, <1>5, <1>7
  <2>2. ASSUME NEW j \in SlotIndex, sbuf'[j].valid
        PROVE  \/ sbuf'[j].pkt.num < highest'
               \/ sstate' = "RECOVER" /\ sbuf'[j].pkt.num = recvSeq'
    <3>1. CASE sbuf'[j].pkt.num = n
      BY <1>1, <1>4, <3>1
    <3>2. CASE sbuf[j].valid /\ sbuf'[j] = sbuf[j]
      <4>1. sbuf[j].pkt.num < highest
        BY <1>1, <3>2 DEF IInv, RecoverInv, RecvIntact
      <4>2. sbuf[j].pkt.num \in Nat
        BY DEF Buffers, Packet
      <4> QED BY <1>7, <3>2, <4>1, <4>2, SMTT(30)
    <3> QED BY <1>8, <2>2, <3>1, <3>2
  <2> QED BY <2>1, <2>2 DEF RecoverInv
<1>12. WrittenInOrder'
  BY <1>1 DEF IInv, WrittenInOrder
<1> QED BY <1>1, <1>6, <1>9, <1>10, <1>11, <1>12, ServerStep

(* One turn of recover_packet. *)
LEMMA SendSREJStep ==
  ASSUME IInv, SendSREJ, UNCHANGED rcopyVars
  PROVE  IInv'
<1> USE Counters
<1>1. /\ sstate = "RECOVER" /\ srejNext < recvSeq
      /\ Send(ackCh, SREJPacket(srejNext))
      /\ srejNext' = srejNext + 1
      /\ asked' = asked \union {srejNext}
      /\ UNCHANGED <<sstate, expected, highest, sbuf, recvSeq, written, dataCh>>
      /\ current' = current
  BY DEF SendSREJ, rcopyVars
<1>2. recvSeq < current /\ expected <= highest /\ highest <= srejNext
  BY <1>1 DEF IInv, RecoverInv
<1>3. SREJPacket(srejNext) \in ServerSent /\ ServerSent' = ServerSent
  BY <1>1, <1>2, SentPackets DEF ServerSent
<1>4. ChannelInv' /\ errors' \in 0 .. ErrorBudget
  BY <1>1, <1>3, ServerSends
<1>5. ServerTypeOK'
  BY <1>1 DEF IInv, TypeOK, ServerTypeOK
<1>6. ServerBufferInv'
  BY <1>1 DEF IInv, ServerBufferInv, HeldBlock
<1>7. RecoverInv'
  BY <1>1, <1>2 DEF IInv, RecoverInv
<1>8. WrittenInOrder'
  BY <1>1 DEF IInv, WrittenInOrder
<1> QED BY <1>1, <1>4, <1>5, <1>6, <1>7, <1>8, ServerStep

(* recover_packet ends: all that is buffered lies below highest_seq again. *)
LEMMA RecoverDoneStep ==
  ASSUME IInv, RecoverDone, UNCHANGED rcopyVars
  PROVE  IInv'
<1> USE Counters
<1>1. /\ sstate = "RECOVER"
      /\ highest' = MaxOf(highest, recvSeq + 1)
      /\ srejNext' = 0 /\ recvSeq' = 0
      /\ sstate' = "RECV_DATA"
      /\ UNCHANGED <<expected, sbuf, asked, written, channelVars, current>>
  BY DEF RecoverDone, rcopyVars
<1>2. highest' \in Nat /\ highest <= highest' /\ recvSeq < highest'
  BY <1>1 DEF MaxOf
<1>3. ChannelInv' /\ errors' \in 0 .. ErrorBudget
  BY <1>1, ChannelsKept
<1>4. ServerTypeOK'
  BY <1>1, <1>2 DEF IInv, TypeOK, ServerTypeOK
<1>5. ServerBufferInv'
  BY <1>1 DEF IInv, ServerBufferInv, HeldBlock
<1>6. RecoverInv'
  <2>1. ASSUME NEW i \in SlotIndex, sbuf[i].valid
        PROVE  sbuf[i].pkt.num < highest'
    <3>1. sbuf[i].pkt.num < highest \/ sbuf[i].pkt.num = recvSeq
      BY <2>1 DEF IInv, RecoverInv
    <3>2. sbuf[i].pkt.num \in Nat
      BY DEF Buffers, Packet
    <3> QED BY <1>2, <3>1, <3>2, SMTT(30)
  <2> QED BY <1>1, <2>1 DEF RecoverInv
<1>7. WrittenInOrder'
  BY <1>1 DEF IInv, WrittenInOrder
<1> QED BY <1>1, <1>3, <1>4, <1>5, <1>6, <1>7, ServerStep

(* A valid slot inside the window holds exactly the packet whose slot it    *)
(* is.                                                                      *)
LEMMA BlockOfSlot ==
  ASSUME NEW b \in Buffers, NEW lo \in Nat, NEW hi \in Nat, hi <= lo + WindowSize,
         NEW m \in Nat, lo <= m, m < lo + WindowSize, GetValid(b, m),
         \A i \in SlotIndex :
           b[i].valid => /\ lo <= b[i].pkt.num
                         /\ b[i].pkt.num < hi
                         /\ Slot(b[i].pkt.num) = i
  PROVE  ReadPacket(b, m).num = m /\ m < hi
<1> DEFINE q == b[Slot(m)].pkt.num
<1>1. Slot(m) \in SlotIndex /\ b[Slot(m)].valid
  BY SlotInIndex DEF GetValid
<1>2. q \in Nat
  BY <1>1 DEF Buffers, Packet
<1>3. lo <= q /\ q < hi /\ Slot(q) = Slot(m)
  BY <1>1
<1> HIDE DEF q
<1>4. q = m
  <2>1. CASE q <= m
    <3>1. m < q + WindowSize
      BY <1>2, <1>3, PacketsAssumption
    <3> QED BY <1>2, <1>3, <2>1, <3>1, SlotUnique
  <2>2. CASE m <= q
    <3>1. q < m + WindowSize
      BY <1>2, <1>3, PacketsAssumption
    <3> QED BY <1>2, <1>3, <2>2, <3>1, SlotUnique
  <2> QED BY <1>2, <2>1, <2>2
<1> QED BY <1>3, <1>4 DEF ReadPacket, q

(* loop_window writes the next blocks in order and stops at the first that  *)
(* is missing.                                                              *)
LEMMA LoopWindowEffect ==
  ASSUME IInv, sstate = "RECV_DATA", expected < current,
         LoopWindow(InsertPacket(sbuf, DataPacket(expected)), BlockLen(expected)),
         asked' = { n \in asked : n >= expected' },
         UNCHANGED <<current, highest, sstate, srejNext, recvSeq>>
  PROVE  /\ expected' \in Nat /\ expected <= expected' /\ expected' <= current
         /\ ServerTypeOK' /\ ServerBufferInv' /\ RecoverInv' /\ WrittenInOrder'
<1> USE Counters
<1> DEFINE b == InsertPacket(sbuf, DataPacket(expected))
           len == BlockLen(expected)
<1>1. /\ b \in Buffers
      /\ GetValid(b, expected)
      /\ \A i \in SlotIndex :
           b[i].valid =>
             /\ b[i].pkt = DataPacket(b[i].pkt.num)
             /\ b[i].pkt.num \in Nat
             /\ expected <= b[i].pkt.num
             /\ b[i].pkt.num < current
             /\ Slot(b[i].pkt.num) = i
             /\ \/ b[i].pkt.num = expected
                \/ sbuf[i].valid /\ b[i] = sbuf[i] /\ expected < b[i].pkt.num
  BY InsertedBuffer
<1>2. PICK k \in 1 .. WindowSize :
        /\ \A j \in 0 .. k - 1 : GetValid(b, expected + j)
        /\ k < WindowSize => ~GetValid(b, expected + k)
        /\ written' = written \o
             [j \in 1 .. k |-> [block |-> ReadPacket(b, expected + j - 1).num, len |-> len]]
        /\ sbuf' = [i \in SlotIndex |->
                      IF \E j \in 0 .. k - 1 : i = Slot(expected + j)
                      THEN [b[i] EXCEPT !.valid = FALSE]
                      ELSE b[i]]
        /\ expected' = expected + k
  BY DEF LoopWindow
<1>3. len \in Nat
  BY PacketsAssumption DEF BlockLen
<1>4. ASSUME NEW m \in Nat, expected <= m, m < Blocks - 1
      PROVE  len = BlockLen(m)
  <2>1. expected # Blocks - 1 /\ m # Blocks - 1
    BY <1>4, PacketsAssumption
  <2> QED BY <2>1 DEF BlockLen
<1> HIDE DEF b, len
<1>5. k \in Nat /\ 1 <= k /\ k <= WindowSize /\ expected' = expected + k
  BY <1>2, PacketsAssumption
<1>6. \A j \in 0 .. k - 1 : ReadPacket(b, expected + j).num = expected + j /\ expected + j < current
  <2> TAKE j \in 0 .. k - 1
  <2>1. GetValid(b, expected + j)
    BY <1>2
  <2>2. /\ expected + j \in Nat /\ expected <= expected + j
        /\ expected + j < expected + WindowSize
    <3>1. j \in Nat /\ j < WindowSize
      BY <1>5, PacketsAssumption
    <3> QED BY <3>1, PacketsAssumption
  <2> QED BY <1>1, <2>1, <2>2, BlockOfSlot
<1>7. expected' \in Nat /\ expected < expected' /\ expected' <= current
  <2>1. k - 1 \in 0 .. k - 1
    BY <1>5
  <2>2. expected + (k - 1) < current
    BY <1>6, <2>1
  <2> QED BY <1>2, <1>5, <2>2
<1>8. sbuf' \in Buffers
  BY <1>1, <1>2, ZenonT(60) DEF Buffers
<1>9. ASSUME NEW i \in SlotIndex, sbuf'[i].valid
      PROVE  /\ sbuf'[i] = b[i] /\ b[i].valid
             /\ expected' < b[i].pkt.num
  <2>1. /\ ~ \E j \in 0 .. k - 1 : i = Slot(expected + j)
        /\ sbuf'[i] = b[i]
    BY <1>1, <1>2, <1>9 DEF Buffers
  <2>2. b[i].valid
    BY <1>9, <2>1
  <2> DEFINE q == b[i].pkt.num
  <2>3. q \in Nat /\ expected <= q /\ q < current /\ Slot(q) = i
    BY <1>1, <2>2
  <2> HIDE DEF q
  <2>4. ~ (q < expected + k)
    <3> SUFFICES ASSUME q < expected + k PROVE FALSE
      OBVIOUS
    <3>1. q - expected \in 0 .. k - 1 /\ expected + (q - expected) = q
      BY <2>3, <1>5
    <3> QED BY <2>1, <2>3, <3>1
  <2>5. q # expected + k
    <3> SUFFICES ASSUME q = expected + k PROVE FALSE
      OBVIOUS
    <3>1. k < WindowSize
      BY <1>5, <2>3, PacketsAssumption
    <3>2. ~GetValid(b, q)
      BY <1>2, <3>1
    <3> QED BY <2>2, <2>3, <3>2 DEF GetValid
  <2>6. expected' < q
    BY <1>5, <2>3, <2>4, <2>5
  <2> QED BY <2>1, <2>2, <2>6 DEF q
<1>10. ServerBufferInv'
  <2>1. ASSUME NEW i \in SlotIndex, sbuf'[i].valid
        PROVE  /\ HeldBlock(sbuf[i])'
               /\ sbuf'[i].pkt.num > expected'
               /\ Slot(sbuf'[i].pkt.num) = i
    <3>1. sbuf'[i] = b[i] /\ b[i].valid /\ expected' < b[i].pkt.num
      BY <1>9, <2>1
    <3>2. /\ b[i].pkt = DataPacket(b[i].pkt.num) /\ b[i].pkt.num < current
          /\ Slot(b[i].pkt.num) = i /\ b[i].pkt.num \in Nat
      BY <1>1, <3>1
    <3> QED BY <1>7, <3>1, <3>2 DEF HeldBlock
  <2> QED BY <2>1 DEF ServerBufferInv
<1>11. RecoverInv'
  <2>1. ASSUME NEW i \in SlotIndex, sbuf'[i].valid
        PROVE  sbuf'[i].pkt.num < highest'
    <3>1. sbuf'[i] = b[i] /\ b[i].valid /\ expected' < b[i].pkt.num
      BY <1>9, <2>1
    <3>2. b[i].pkt.num # expected /\ b[i].pkt.num \in Nat
      BY <1>1, <1>7, <3>1
    <3>3. sbuf[i].valid /\ b[i] = sbuf[i]
      BY <1>1, <3>1, <3>2
    <3> QED BY <3>1, <3>3 DEF IInv, RecoverInv
  <2> QED BY <2>1 DEF RecoverInv
<1> DEFINE new == [j \in 1 .. k |-> [block |-> ReadPacket(b, expected + j - 1).num, len |-> len]]
<1>12. \A j \in 1 .. k : ReadPacket(b, expected + j - 1).num = expected + j - 1
  <2> TAKE j \in 1 .. k
  <2>1. j - 1 \in 0 .. k - 1 /\ expected + (j - 1) = expected + j - 1
    BY <1>5
  <2>2. ReadPacket(b, expected + (j - 1)).num = expected + (j - 1)
    BY <1>6, <2>1
  <2> QED BY <2>1, <2>2
<1>13. new \in Seq(WrittenBlock) /\ Len(new) = k
       /\ \A j \in 1 .. k : new[j] = [block |-> expected + j - 1, len |-> len]
  <2>1. \A j \in 1 .. k : new[j] = [block |-> expected + j - 1, len |-> len]
    BY <1>12
  <2>2. ASSUME NEW j \in 1 .. k
        PROVE  new[j] \in WrittenBlock
    <3>1. expected + j - 1 \in Nat
      BY <1>5
    <3>2. new[j] = [block |-> expected + j - 1, len |-> len]
      BY <2>1
    <3>3. [block |-> expected + j - 1, len |-> len] \in WrittenBlock
      BY <1>3, <3>1 DEF WrittenBlock
    <3> QED BY <3>2, <3>3
  <2>3. new = [j \in 1 .. k |-> new[j]]
    OBVIOUS
  <2> HIDE DEF new
  <2>4. new \in [1 .. k -> WrittenBlock]
    BY <2>2, <2>3
  <2>5. new \in Seq(WrittenBlock)
    BY <1>5, <2>4, SeqDef
  <2>6. Len(new) = k
    BY <1>5, <2>4, <2>5, LenProperties
  <2> QED BY <2>1, <2>5, <2>6
<1>14. written' = written \o new
  BY <1>2
<1> HIDE DEF new
<1>15. /\ written' \in Seq(WrittenBlock)
       /\ Len(written) = expected
       /\ Len(written') = expected'
       /\ \A i \in 1 .. expected' :
            written'[i] = IF i <= expected THEN written[i] ELSE new[i - expected]
  <2>1. Len(written) = expected
    BY DEF IInv, WrittenInOrder
  <2>2. expected + k = expected' /\ expected \in Nat
    BY <1>5
  <2>3. /\ written \o new \in Seq(WrittenBlock)
        /\ Len(written \o new) = expected + k
        /\ \A i \in 1 .. expected + k :
             (written \o new)[i] = IF i <= expected THEN written[i] ELSE new[i - expected]
    BY <1>13, <2>1, ConcatProperties
  <2> QED BY <1>14, <2>1, <2>2, <2>3
<1>16. WrittenInOrder'
  <2>1. ASSUME NEW i \in 1 .. expected'
        PROVE  /\ written'[i].block = i - 1
               /\ i < Blocks => written'[i] = SourceFile[i]
    <3>1. CASE i <= expected
      <4>1. i \in 1 .. expected /\ written'[i] = written[i]
        BY <1>7, <1>15, <3>1
      <4> QED BY <4>1 DEF IInv, WrittenInOrder
    <3>2. CASE i > expected
      <4>1. i - expected \in 1 .. k /\ expected + (i - expected) = i
        BY <1>2, <1>5, <3>2, SMTT(30)
      <4>2. written'[i] = [block |-> i - 1, len |-> len]
        BY <1>13, <1>15, <3>2, <4>1, SMTT(30)
      <4>3. i < Blocks => len = BlockLen(i - 1)
        <5>1. i - 1 \in Nat /\ expected <= i - 1
          BY <1>7, <3>2
        <5> QED BY <1>4, <5>1, PacketsAssumption
      <4>4. i < Blocks => SourceFile[i] = [block |-> i - 1, len |-> BlockLen(i - 1)]
        BY PacketsAssumption DEF SourceFile
      <4> QED BY <4>2, <4>3, <4>4
    <3> QED BY <1>7, <3>1, <3>2
  <2>2. Len(written') = expected' /\ expected' <= Blocks
    BY <1>7, <1>15, PacketsAssumption
  <2>3. SourceFile' = SourceFile
    BY DEF SourceFile
  <2> QED BY <2>1, <2>2, <2>3 DEF WrittenInOrder
<1>17. ServerTypeOK'
  <2>1. asked' \in SUBSET Nat
    BY DEF IInv, TypeOK, ServerTypeOK
  <2> QED BY <1>7, <1>8, <1>15, <2>1 DEF IInv, TypeOK, ServerTypeOK
<1> QED BY <1>7, <1>10, <1>11, <1>16, <1>17

(* The expected packet. *)
LEMMA RecvExpectedStep ==
  ASSUME IInv, RecvExpected, UNCHANGED rcopyVars
  PROVE  IInv'
<1> USE Counters
<1>1. PICK i \in Arrivals(dataCh) :
        /\ RecvIntact(i)
        /\ dataCh[i].num = expected
        /\ LoopWindow(InsertPacket(sbuf, dataCh[i]), dataCh[i].len)
        /\ Send(ackCh, RRPacket(expected'))
        /\ asked' = { n \in asked : n >= expected' }
        /\ UNCHANGED <<sstate, highest, srejNext, recvSeq>>
  BY DEF RecvExpected
<1>2. /\ expected < current /\ dataCh[i] = DataPacket(expected)
      /\ dataCh' \in Seq(RcopySent)
  BY <1>1, IntactIsData
<1>3. dataCh[i].len = BlockLen(expected)
  BY <1>2 DEF DataPacket
<1>4. sstate = "RECV_DATA" /\ current' = current
  BY <1>1 DEF RecvIntact, rcopyVars
<1>5. /\ expected' \in Nat /\ expected <= expected' /\ expected' <= current
      /\ ServerTypeOK' /\ ServerBufferInv' /\ RecoverInv' /\ WrittenInOrder'
  BY <1>1, <1>2, <1>3, <1>4, LoopWindowEffect
<1>6. RRPacket(expected') \in ServerSent'
  BY <1>5, PacketTypes DEF ServerSent, RRPacket
<1>7. ChannelInv' /\ errors' \in 0 .. ErrorBudget
  BY <1>1, <1>2, <1>4, <1>5, <1>6, ServerSends
<1> QED BY <1>5, <1>7, ServerStep

(* Every step of the server keeps the invariant. *)
LEMMA ServerNextStep ==
  ASSUME IInv, ServerNext
  PROVE  IInv'
<1>1. CASE ServerQuits
  BY <1>1, ServerTimeoutStep DEF ServerQuits
<1>2. CASE RecvEOF /\ UNCHANGED rcopyVars
  BY <1>2, RecvEOFStep
<1>3. CASE RecvCorrupt /\ UNCHANGED rcopyVars
  BY <1>3, RecvCorruptStep
<1>4. CASE RecvExpected /\ UNCHANGED rcopyVars
  BY <1>4, RecvExpectedStep
<1>5. CASE RecvDuplicate /\ UNCHANGED rcopyVars
  BY <1>5, RecvDuplicateStep
<1>6. CASE RecvOutOfOrder /\ UNCHANGED rcopyVars
  BY <1>6, RecvOutOfOrderStep
<1>7. CASE SendSREJ /\ UNCHANGED rcopyVars
  BY <1>7, SendSREJStep
<1>8. CASE RecoverDone /\ UNCHANGED rcopyVars
  BY <1>8, RecoverDoneStep
<1> QED BY <1>1, <1>2, <1>3, <1>4, <1>5, <1>6, <1>7, <1>8 DEF ServerNext, ServerReceives, ServerRecovers

(* A step that changes nothing keeps the invariant. *)
LEMMA Stuttering ==
  ASSUME IInv, UNCHANGED vars
  PROVE  IInv'
<1>1. UNCHANGED rcopyVars /\ UNCHANGED serverVars /\ UNCHANGED channelVars
  BY DEF vars
<1>2. expected' = expected /\ current' = current
  BY <1>1 DEF rcopyVars, serverVars
<1>3. ServerTypeOK' /\ ServerBufferInv' /\ RecoverInv' /\ WrittenInOrder'
  BY <1>1, <1>2, Counters, ServerUnmoved
<1>4. ChannelInv' /\ errors' \in 0 .. ErrorBudget
  BY <1>1, <1>2, Counters, ChannelsKept
<1> QED BY <1>1, <1>2, <1>3, <1>4, Counters, ServerStep

(* The inductive invariant holds throughout, for every window size, file,   *)
(* channel capacity, network and error count.                               *)
THEOREM Invariance == Spec => []IInv
<1>1. IInv /\ [Next]_vars => IInv'
  <2> SUFFICES ASSUME IInv, [Next]_vars PROVE IInv'
    OBVIOUS
  <2>1. CASE RcopyNext
    BY <2>1, RcopyNextStep
  <2>2. CASE ServerNext
    BY <2>2, ServerNextStep
  <2>3. CASE UNCHANGED vars
    BY <2>3, Stuttering
  <2> QED BY <2>1, <2>2, <2>3 DEF Next, Exited
<1> QED BY Initialization, <1>1, PTL DEF Spec

-----------------------------------------------------------------------------
(* The properties of Transfer. *)

(* Every variable keeps its type. *)
THEOREM TypeCorrect == Spec => []TypeOK
<1>1. IInv => TypeOK
  BY DEF IInv
<1> QED BY Invariance, <1>1, PTL

(* loop_window and recv_data write the file front to back, each block       *)
(* once, whatever the network does.                                         *)
THEOREM CopyInOrder == Spec => []WrittenInOrder
<1>1. IInv => WrittenInOrder
  BY DEF IInv
<1> QED BY Invariance, <1>1, PTL

(* rcopy and the server stay within one window of each other, whatever the  *)
(* network does (slide_window, send_data).                                  *)
THEOREM WithinOneWindow == Spec => []WindowBounds
<1>1. IInv => WindowBounds
  BY DEF IInv, WindowInv
<1> QED BY Invariance, <1>1, PTL

(* What the server has buffered is a block that rcopy has sent, in its slot. *)
LEMMA BufferedBlock ==
  ASSUME IInv, NEW j \in SlotIndex, sbuf[j].valid
  PROVE  /\ expected <= sbuf[j].pkt.num
         /\ sbuf[j].pkt.num < current
         /\ Slot(sbuf[j].pkt.num) = j
<1>1. sbuf[j].pkt.num > expected /\ sbuf[j].pkt.num < current /\ Slot(sbuf[j].pkt.num) = j
  BY DEF IInv, ServerBufferInv, HeldBlock
<1>2. sbuf[j].pkt.num \in Nat
  BY Counters DEF Buffers, Packet
<1>3. \A x, y \in Nat : x > y => y <= x
  OBVIOUS
<1> QED BY <1>1, <1>2, <1>3, Counters

(* insert_packet never overwrites a packet the server still has to write. *)
THEOREM NoPacketClobbered == Spec => []NothingClobbered
<1>1. IInv => NothingClobbered
  <2> SUFFICES ASSUME IInv, NEW i \in DOMAIN dataCh,
                      dataCh[i].ok, dataCh[i].flag = "DATA_PACKET",
                      dataCh[i].num >= expected, GetValid(sbuf, dataCh[i].num)
               PROVE  ReadPacket(sbuf, dataCh[i].num) = dataCh[i]
    BY DEF NothingClobbered
  <2> USE Counters
  <2> DEFINE m == dataCh[i].num
  <2>1. dataCh[i] \in RcopySent
    BY ElementOfSeq, LenProperties
  <2>2. m \in Nat /\ m < current /\ dataCh[i] = DataPacket(m)
    BY <2>1 DEF RcopySent, Packet
  <2>3. expected <= m /\ GetValid(sbuf, m)
    BY <2>2
  <2> HIDE DEF m
  <2>4. \A j \in SlotIndex :
          sbuf[j].valid => /\ expected <= sbuf[j].pkt.num
                           /\ sbuf[j].pkt.num < current
                           /\ Slot(sbuf[j].pkt.num) = j
    BY BufferedBlock
  <2>5. m < expected + WindowSize
    BY <2>2, PacketsAssumption
  <2>6. ReadPacket(sbuf, m).num = m
    BY <2>2, <2>3, <2>4, <2>5, BlockOfSlot
  <2>7. ReadPacket(sbuf, m) = DataPacket(ReadPacket(sbuf, m).num)
    <3>1. Slot(m) \in SlotIndex /\ sbuf[Slot(m)].valid
      BY <2>2, <2>3, SlotInIndex DEF GetValid
    <3> QED BY <3>1 DEF IInv, ServerBufferInv, HeldBlock, ReadPacket
  <2> QED BY <2>2, <2>6, <2>7 DEF m
<1> QED BY Invariance, <1>1, PTL

(* recover_packet never asks for a packet the server has. *)
THEOREM OnlyMissingAskedFor == Spec => []AsksForMissing
<1>1. IInv => AsksForMissing
  <2> SUFFICES ASSUME IInv, sstate = "RECOVER", srejNext < recvSeq
               PROVE  srejNext >= expected /\ ~GetValid(sbuf, srejNext)
    BY DEF AsksForMissing
  <2> USE Counters
  <2>1. recvSeq < current /\ expected <= highest /\ highest <= srejNext
    BY DEF IInv, RecoverInv
  <2>2. ASSUME GetValid(sbuf, srejNext) PROVE FALSE
    <3>1. \A j \in SlotIndex :
            sbuf[j].valid => /\ expected <= sbuf[j].pkt.num
                             /\ sbuf[j].pkt.num < current
                             /\ Slot(sbuf[j].pkt.num) = j
      BY BufferedBlock
    <3>2. expected <= srejNext /\ srejNext < expected + WindowSize
      BY <2>1, PacketsAssumption
    <3>3. ReadPacket(sbuf, srejNext).num = srejNext
      BY <2>2, <3>1, <3>2, BlockOfSlot
    <3>4. Slot(srejNext) \in SlotIndex /\ sbuf[Slot(srejNext)].valid
      BY <2>2, SlotInIndex DEF GetValid
    <3>5. srejNext < highest \/ srejNext = recvSeq
      BY <3>3, <3>4 DEF IInv, RecoverInv, ReadPacket
    <3> QED BY <2>1, <3>5
  <2> QED BY <2>1, <2>2
<1> QED BY Invariance, <1>1, PTL

(* No step of rcopy takes back what it has read.                            *)
LEMMA CurrentGrows ==
  ASSUME IInv, RcopyNext
  PROVE  current <= current'
<1>1. current' = current \/ current' = current + 1
  BY DEF RcopyNext, RcopyTimeout, RcopyMoves, SendBlock, ReadEOF, Drain, DrainDone,
       AwaitAck, Spin, SendEOF, GiveUp, ResendLowest, CheckFlag, rcopyVars
<1> QED BY <1>1, Counters

(* Whoever is not asked for below highest_seq is in the buffer, whatever    *)
(* arrives, is written or is asked for next.                                *)
LEMMA AskedKept ==
  ASSUME IInv, IInv', AskedInv, [Next]_vars
  PROVE  AskedInv'
<1>0. /\ current \in Nat /\ expected \in Nat /\ highest \in Nat
      /\ srejNext \in Nat /\ recvSeq \in Nat /\ asked \in SUBSET Nat /\ sbuf \in Buffers
      /\ current' \in Nat /\ expected' \in Nat /\ highest' \in Nat
      /\ expected <= current /\ current <= expected + WindowSize
  BY DEF IInv, TypeOK, RcopyTypeOK, ServerTypeOK, WindowInv, WindowBounds
<1>00. highest <= current
  BY DEF AskedInv
<1>1. ASSUME UNCHANGED <<sstate, expected, highest, sbuf, srejNext, recvSeq, asked>>,
             current <= current'
      PROVE  AskedInv'
  BY <1>0, <1>1 DEF AskedInv, Reached
<1>2. ASSUME UNCHANGED <<expected, highest, sbuf, asked, current>>, sstate = "RECV_DATA",
             sstate' # "RECOVER"
      PROVE  AskedInv'
  BY <1>0, <1>2 DEF AskedInv, Reached
<1>3. ASSUME RecvExpected, UNCHANGED rcopyVars
      PROVE  AskedInv'
  <2>1. PICK i \in Arrivals(dataCh) :
          /\ RecvIntact(i)
          /\ dataCh[i].num = expected
          /\ LoopWindow(InsertPacket(sbuf, dataCh[i]), dataCh[i].len)
          /\ asked' = { n \in asked : n >= expected' }
          /\ UNCHANGED <<sstate, highest, srejNext, recvSeq>>
    BY <1>3 DEF RecvExpected
  <2>2. sstate = "RECV_DATA" /\ sstate' = "RECV_DATA" /\ current' = current
    BY <1>3, <2>1 DEF RecvIntact, rcopyVars
  <2>3. dataCh[i] \in Packet /\ dataCh[i].num \in Nat
    BY <2>1, IntactIsData
  <2> DEFINE b == InsertPacket(sbuf, dataCh[i])
  <2>4. PICK k \in 1 .. WindowSize :
          /\ sbuf' = [j \in SlotIndex |->
                        IF \E m \in 0 .. k - 1 : j = Slot(expected + m)
                        THEN [b[j] EXCEPT !.valid = FALSE]
                        ELSE b[j]]
          /\ expected' = expected + k
    BY <2>1 DEF LoopWindow
  <2>5. \A j \in SlotIndex : sbuf[j].valid => b[j].valid
    BY <1>0, <2>3 DEF InsertPacket, Buffers
  <2> HIDE DEF b
  <2>6. ASSUME NEW n \in expected' .. highest - 1
        PROVE  n \in asked' \/ sbuf'[Slot(n)].valid
    <3>1. n \in Nat /\ expected' <= n /\ n < highest /\ expected <= n
          /\ k \in Nat /\ k <= WindowSize
      <4>1. k \in Nat /\ k <= WindowSize
        BY PacketsAssumption
      <4>2. expected' = expected + k
        BY <2>4
      <4>3. n \in Int /\ expected' <= n /\ n < highest
        BY <1>0
      <4> QED BY <1>0, <4>1, <4>2, <4>3
    <3>2. CASE n \in asked
      BY <2>1, <3>1, <3>2
    <3>3. CASE n \notin asked
      <4>1. sbuf[Slot(n)].valid /\ Slot(n) \in SlotIndex
        BY <2>2, <3>1, <3>3, SlotInIndex DEF AskedInv, Reached
      <4>2. n < expected + WindowSize
        BY <1>0, <1>00, <3>1, PacketsAssumption
      <4>3. ASSUME NEW m \in 0 .. k - 1, Slot(n) = Slot(expected + m)
            PROVE  FALSE
        <5>1. expected + m \in Nat /\ expected + m < n /\ n < (expected + m) + WindowSize
          <6>1. m \in Nat /\ m < k
            BY <3>1
          <6>2. expected + k <= n
            BY <2>4, <3>1
          <6>3. WindowSize \in Nat
            BY PacketsAssumption
          <6> QED BY <1>0, <3>1, <4>2, <6>1, <6>2, <6>3
        <5>2. expected + m = n
          BY <3>1, <4>3, <5>1, SlotUnique
        <5> QED BY <1>0, <3>1, <5>1, <5>2
      <4>4. sbuf'[Slot(n)] = b[Slot(n)]
        BY <2>4, <4>1, <4>3
      <4> QED BY <2>5, <4>1, <4>4
    <3> QED BY <3>2, <3>3
  <2>7. \A n \in asked' : n < highest'
    BY <2>1, <2>2 DEF AskedInv, Reached
  <2> QED BY <2>1, <2>2, <2>6, <2>7 DEF AskedInv, Reached
<1>4. ASSUME RecvOutOfOrder, UNCHANGED rcopyVars
      PROVE  AskedInv'
  <2>1. PICK i \in Arrivals(dataCh) :
          /\ RecvIntact(i)
          /\ dataCh[i].num > expected
          /\ sbuf' = InsertPacket(sbuf, dataCh[i])
          /\ highest' = MaxOf(highest, expected)
          /\ srejNext' = MaxOf(highest, expected)
          /\ recvSeq' = dataCh[i].num
          /\ sstate' = "RECOVER"
          /\ UNCHANGED <<expected, asked>>
    BY <1>4 DEF RecvOutOfOrder
  <2>2. sstate = "RECV_DATA" /\ current' = current
    BY <1>4, <2>1 DEF RecvIntact, rcopyVars
  <2>3. dataCh[i] \in Packet /\ dataCh[i].num \in Nat /\ Slot(dataCh[i].num) \in SlotIndex
    BY <2>1, IntactIsData, SlotInIndex
  <2>4. /\ sbuf'[Slot(recvSeq')].valid
        /\ \A j \in SlotIndex : sbuf[j].valid => sbuf'[j].valid
    BY <1>0, <2>1, <2>3 DEF InsertPacket, Buffers
  <2>5. highest <= highest' /\ highest' <= current /\ srejNext' = highest'
        /\ (highest' = highest \/ highest' = expected)
    BY <1>0, <1>00, <2>1 DEF MaxOf
  <2>6. \A n \in asked : n < highest /\ n \in Nat
    BY <1>0, <2>2 DEF AskedInv, Reached
  <2>7. \A n \in expected .. highest - 1 :
          n \in asked \/ (sbuf[Slot(n)].valid /\ Slot(n) \in SlotIndex)
    <3>1. \A n \in expected .. highest - 1 : n \in asked \/ sbuf[Slot(n)].valid
      BY <2>2 DEF AskedInv, Reached
    <3>2. \A n \in expected .. highest - 1 : n \in Nat
      BY <1>0
    <3> QED BY <3>1, <3>2, SlotInIndex
  <2>8. Reached' = highest'
    BY <2>1 DEF Reached
  <2>9. \A n \in asked' : n < Reached'
    BY <1>0, <2>1, <2>5, <2>6, <2>8
  <2>10. ASSUME NEW n \in expected' .. Reached' - 1
         PROVE  n \in asked' \/ sbuf'[Slot(n)].valid
    <3>1. n \in expected .. highest - 1
      BY <1>0, <2>1, <2>5, <2>8
    <3> QED BY <2>1, <2>4, <2>7, <3>1
  <2> QED BY <1>0, <2>2, <2>4, <2>5, <2>9, <2>10 DEF AskedInv
<1>5. ASSUME SendSREJ, UNCHANGED rcopyVars
      PROVE  AskedInv'
  <2>1. /\ sstate = "RECOVER" /\ srejNext' = srejNext + 1
        /\ asked' = asked \union {srejNext}
        /\ UNCHANGED <<sstate, expected, highest, sbuf, recvSeq, current>>
    BY <1>5 DEF SendSREJ, rcopyVars
  <2>2. \A n \in asked' : n < srejNext' /\ n \in Nat
    <3>1. \A n \in asked : n < srejNext /\ n \in Nat
      BY <1>0, <2>1 DEF AskedInv, Reached
    <3> QED BY <1>0, <2>1, <3>1
  <2>3. \A n \in expected .. srejNext' - 1 : n \in expected .. srejNext - 1 \/ n = srejNext
    BY <1>0, <2>1
  <2>4. srejNext < recvSeq
    BY <1>5 DEF SendSREJ
  <2>5. \A n \in expected .. srejNext' - 1 : n \in asked' \/ sbuf'[Slot(n)].valid
    BY <2>1, <2>3 DEF AskedInv, Reached
  <2>6. Reached' = srejNext' /\ sbuf[Slot(recvSeq)].valid /\ srejNext' <= recvSeq'
    BY <1>0, <2>1, <2>4 DEF Reached, AskedInv
  <2> QED BY <1>00, <2>1, <2>2, <2>5, <2>6 DEF AskedInv
<1>6. ASSUME RecoverDone, UNCHANGED rcopyVars
      PROVE  AskedInv'
  <2>1. /\ sstate = "RECOVER" /\ srejNext >= recvSeq
        /\ highest' = MaxOf(highest, recvSeq + 1) /\ sstate' = "RECV_DATA"
        /\ UNCHANGED <<expected, sbuf, asked, current>>
    BY <1>6 DEF RecoverDone, rcopyVars
  <2>2. recvSeq < current /\ highest <= srejNext
    BY <2>1 DEF IInv, RecoverInv
  <2>3. highest' <= current' /\ (highest' = highest \/ highest' = recvSeq + 1)
        /\ highest <= highest' /\ recvSeq + 1 <= highest'
    BY <1>0, <1>00, <2>1, <2>2 DEF MaxOf
  <2>4. \A n \in asked : n < highest' /\ n \in Nat
    <3>1. \A n \in asked : n < srejNext /\ n \in Nat
      BY <1>0, <2>1 DEF AskedInv, Reached
    <3>2. srejNext <= highest'
      BY <1>0, <2>1, <2>3 DEF AskedInv
    <3> QED BY <1>0, <3>1, <3>2
  <2>5. ASSUME NEW n \in expected .. highest' - 1
        PROVE  n \in asked \/ sbuf[Slot(n)].valid
    <3>1. CASE n = recvSeq
      BY <2>1, <3>1 DEF AskedInv
    <3>2. CASE n # recvSeq
      <4>1. n \in expected .. srejNext - 1
        BY <1>0, <2>1, <2>2, <2>3, <3>2
      <4> QED BY <2>1, <4>1 DEF AskedInv, Reached
    <3> QED BY <3>1, <3>2
  <2> QED BY <2>1, <2>3, <2>4, <2>5 DEF AskedInv, Reached
<1>7. CASE UNCHANGED <<serverVars, current>> \/ UNCHANGED vars
  <2>1. UNCHANGED serverVars /\ current' = current
    BY <1>7 DEF vars, rcopyVars
  <2>2. current <= current'
    BY <1>0, <2>1
  <2> QED BY <1>1, <2>1, <2>2 DEF serverVars
<1>8. CASE RcopyNext
  <2>1. UNCHANGED serverVars
    BY <1>8 DEF RcopyNext, RcopyTimeout, RcopyMoves
  <2>2. current <= current'
    BY <1>8, CurrentGrows
  <2> QED BY <1>1, <2>1, <2>2 DEF serverVars
<1>9. CASE ServerQuits
  BY <1>2, <1>9 DEF ServerQuits, ServerTimeout, rcopyVars
<1>10. ASSUME RecvEOF, UNCHANGED rcopyVars
       PROVE  AskedInv'
  BY <1>2, <1>10 DEF RecvEOF, rcopyVars
<1>11. ASSUME RecvCorrupt \/ RecvDuplicate, UNCHANGED rcopyVars
       PROVE  AskedInv'
  BY <1>7, <1>11 DEF RecvCorrupt, RecvDuplicate, rcopyVars
<1>12. CASE ServerNext
  BY <1>3, <1>4, <1>5, <1>6, <1>9, <1>10, <1>11, <1>12
     DEF ServerNext, ServerReceives, ServerRecovers
<1> QED BY <1>7, <1>8, <1>12 DEF Next, Exited

(* Every gap is asked for, and once.                                        *)
THEOREM EveryGapAskedForOnce == Spec => []GapsAskedForOnce
<1>1. Init => AskedInv
  BY DEF Init, RcopyInit, ServerInit, AskedInv, Reached
<1>2. IInv /\ AskedInv => GapsAskedForOnce
  <2> SUFFICES ASSUME IInv, AskedInv
               PROVE  GapsAskedForOnce
    OBVIOUS
  <2>1. sstate = "RECOVER" => srejNext \notin asked
    BY Counters DEF AskedInv, Reached
  <2>2. ASSUME sstate = "RECV_DATA", NEW n \in expected .. highest - 1
        PROVE  n \in asked \/ GetValid(sbuf, n)
    BY <2>2 DEF AskedInv, Reached, GetValid
  <2> QED BY <2>1, <2>2 DEF GapsAskedForOnce
<1>3. IInv /\ AskedInv /\ [Next]_vars /\ IInv' => AskedInv'
  BY AskedKept
<1> QED BY Invariance, <1>1, <1>2, <1>3, PTL DEF Spec

(* Whatever block is written, the payload length is the one of a block that *)
(* rcopy has read (loop_window).                                            *)
LEMMA LengthsKept ==
  ASSUME IInv, LengthsInv, [Next]_vars
  PROVE  LengthsInv'
<1>1. CASE RecvExpected /\ ServerNext
  <2>1. PICK i \in Arrivals(dataCh) :
          /\ RecvIntact(i)
          /\ dataCh[i].num = expected
          /\ LoopWindow(InsertPacket(sbuf, dataCh[i]), dataCh[i].len)
    BY <1>1 DEF RecvExpected
  <2>2. dataCh[i].len \in {BufferSize, LastLen}
    <3>1. dataCh[i] = DataPacket(expected)
      BY <2>1, IntactIsData
    <3> QED BY <3>1 DEF DataPacket, BlockLen
  <2> DEFINE b == InsertPacket(sbuf, dataCh[i])
  <2>3. PICK k \in 1 .. WindowSize :
          written' = written \o
            [j \in 1 .. k |-> [block |-> ReadPacket(b, expected + j - 1).num,
                              len |-> dataCh[i].len]]
    BY <2>1 DEF LoopWindow
  <2> DEFINE more == [j \in 1 .. k |-> [block |-> ReadPacket(b, expected + j - 1).num,
                                       len |-> dataCh[i].len]]
  <2>4. \A j \in 1 .. k : more[j].len = dataCh[i].len
    OBVIOUS
  <2>5. Len(written) \in Nat /\ DOMAIN written = 1 .. Len(written) /\ k \in Nat
    BY LenProperties, PacketsAssumption DEF IInv, TypeOK, ServerTypeOK
  <2>6. Len(more) = k
    BY <2>5 DEF Len
  <2> HIDE DEF more
  <2>7. written' = written \o more
    BY <2>3 DEF more
  <2>8. \A j \in DOMAIN written' :
          IF j <= Len(written)
          THEN j \in DOMAIN written /\ written'[j] = written[j]
          ELSE j - Len(written) \in 1 .. k /\ written'[j] = more[j - Len(written)]
    BY <2>5, <2>6, <2>7
  <2> QED BY <2>2, <2>4, <2>8 DEF LengthsInv
<1>2. CASE written' = written
  BY <1>2 DEF LengthsInv
<1>3. RcopyNext \/ UNCHANGED vars \/ (ServerNext /\ ~RecvExpected) => written' = written
  BY DEF RcopyNext, RcopyTimeout, RcopyMoves, ServerNext, ServerQuits, ServerReceives,
         ServerRecovers, ServerTimeout, RecvEOF, RecvCorrupt, RecvDuplicate, RecvOutOfOrder,
         SendSREJ, RecoverDone, serverVars, vars
<1> QED BY <1>1, <1>2, <1>3 DEF Next, Exited

(* A copy that rcopy reports complete is the source file, or differs from   *)
(* it in the length of the last block alone (loop_window, recv_data).       *)
THEOREM CopyAlmostRight == Spec => []CopyPaddedAtMost
<1>1. Init => LengthsInv
  BY DEF Init, ServerInit, LengthsInv
<1>2. IInv /\ LengthsInv => CopyPaddedAtMost
  <2> SUFFICES ASSUME IInv, LengthsInv, status = "1"
               PROVE  written \in {SourceFile, WholeBlocks}
    BY DEF CopyPaddedAtMost
  <2>1. /\ written \in Seq(WrittenBlock) /\ Len(written) = Blocks
        /\ \A i \in 1 .. Blocks : written[i].block = i - 1
        /\ \A i \in 1 .. Blocks : i < Blocks => written[i] = SourceFile[i]
    BY DEF IInv, StatusInv, WrittenInOrder, TypeOK, ServerTypeOK
  <2>2. DOMAIN written = 1 .. Blocks
    BY <2>1, LenProperties
  <2>3. \A i \in 1 .. Blocks :
          written[i] = [block |-> i - 1, len |-> written[i].len]
    <3> SUFFICES ASSUME NEW i \in 1 .. Blocks
                 PROVE  written[i] = [block |-> i - 1, len |-> written[i].len]
      OBVIOUS
    <3>1. written[i] \in WrittenBlock
      BY <2>1, ElementOfSeq
    <3>3. written[i].block = i - 1
      BY <2>1, Zenon
    <3>2. \A w \in WrittenBlock : w = [block |-> w.block, len |-> w.len]
      BY DEF WrittenBlock
    <3> QED BY <3>1, <3>2, <3>3
  <2>4. \A i \in 1 .. Blocks : i < Blocks => written[i].len = BufferSize
    <3> SUFFICES ASSUME NEW i \in 1 .. Blocks, i < Blocks
                 PROVE  written[i].len = BufferSize
      OBVIOUS
    <3>1. written[i] = SourceFile[i]
      BY <2>1, Zenon
    <3>2. SourceFile[i].len = BlockLen(i - 1)
      BY DEF SourceFile
    <3>3. BlockLen(i - 1) = BufferSize
      BY PacketsAssumption DEF BlockLen
    <3> QED BY <3>1, <3>2, <3>3
  <2>5. CASE Blocks > 0 /\ written[Blocks].len = LastLen
    <3>1. \A i \in 1 .. Blocks : written[i].len = BlockLen(i - 1)
      BY <2>4, <2>5, PacketsAssumption DEF BlockLen
    <3>2. \A i \in 1 .. Blocks : written[i] = SourceFile[i]
      BY <2>3, <3>1 DEF SourceFile
    <3>3. written = SourceFile
      BY <2>1, <2>2, <3>2 DEF SourceFile
    <3> QED BY <3>3
  <2>6. CASE Blocks = 0 \/ written[Blocks].len = BufferSize
    <3>1. \A i \in 1 .. Blocks : written[i].len = BufferSize
      BY <2>4, <2>6, PacketsAssumption
    <3>2. \A i \in 1 .. Blocks : written[i] = WholeBlocks[i]
      BY <2>3, <3>1 DEF WholeBlocks
    <3>3. written = WholeBlocks
      BY <2>1, <2>2, <3>2 DEF WholeBlocks
    <3> QED BY <3>3
  <2> QED BY <2>2, <2>5, <2>6, PacketsAssumption DEF LengthsInv
<1>3. IInv /\ LengthsInv /\ [Next]_vars => LengthsInv'
  BY LengthsKept
<1> QED BY <1>1, <1>2, <1>3, Invariance, PTL DEF Spec

(* A file that ends with a whole block is copied as it is, whatever the     *)
(* network does: the shell tests' comparison holds then.                    *)
THEOREM WholeBlocksCopied ==
  ASSUME LastLen = BufferSize
  PROVE  Spec => []CopyIdentical
<1>1. SourceFile = WholeBlocks
  BY DEF SourceFile, WholeBlocks, BlockLen
<1>2. CopyPaddedAtMost => CopyIdentical
  BY <1>1 DEF CopyPaddedAtMost, CopyIdentical
<1> QED BY <1>2, CopyAlmostRight, PTL

-----------------------------------------------------------------------------
(* Transfer implements FileCopy under the refinement mapping of CopiesFile. *)

(* The front of the file is a sequence of block numbers. *)
LEMMA FrontOfFileSeq ==
  ASSUME NEW n \in Nat
  PROVE  FrontOfFile(n) \in Seq(Nat) /\ Len(FrontOfFile(n)) = n
<1>1. \A i \in 1 .. n : i - 1 \in Nat
  OBVIOUS
<1>2. FrontOfFile(n) \in [1 .. n -> Nat]
  BY <1>1 DEF FrontOfFile
<1>3. FrontOfFile(n) \in Seq(Nat)
  BY <1>2, SeqDef
<1> QED BY <1>2, <1>3, LenProperties

(* The front of a longer front is a front. *)
LEMMA FrontOfFileSubSeq ==
  ASSUME NEW n \in Nat, NEW m \in Nat, n <= m
  PROVE  FrontOfFile(n) = SubSeq(FrontOfFile(m), 1, n)
<1>1. \A i \in 1 .. n : FrontOfFile(m)[i] \in Nat /\ FrontOfFile(m)[i] = i - 1
  BY DEF FrontOfFile
<1>2. /\ SubSeq(FrontOfFile(m), 1, n) \in Seq(Nat)
      /\ Len(SubSeq(FrontOfFile(m), 1, n)) = IF 1 <= n THEN n - 1 + 1 ELSE 0
      /\ \A i \in 1 .. n - 1 + 1 : SubSeq(FrontOfFile(m), 1, n)[i] = FrontOfFile(m)[1 + i - 1]
  BY <1>1, SubSeqProperties
<1>3. Len(SubSeq(FrontOfFile(m), 1, n)) = n
  BY <1>2
<1>4. \A i \in 1 .. n : SubSeq(FrontOfFile(m), 1, n)[i] = i - 1
  BY <1>1, <1>2
<1>5. \A i \in 1 .. n : FrontOfFile(n)[i] = i - 1
  BY DEF FrontOfFile
<1> QED BY <1>2, <1>3, <1>4, <1>5, FrontOfFileSeq, SeqEqual

(* Blocks written in order make a front of the file. *)
LEMMA BlocksInOrder ==
  ASSUME NEW n \in Nat, NEW w \in Seq(WrittenBlock), Len(w) = n,
         \A i \in 1 .. n : w[i].block = i - 1
  PROVE  [i \in DOMAIN w |-> w[i].block] = FrontOfFile(n)
  BY LenProperties DEF FrontOfFile

(* What a step does to the copy and to rcopy's exit status: nothing, one    *)
(* or more blocks, success, or giving up.                                   *)
LEMMA StepKinds ==
  ASSUME IInv, [Next]_vars
  PROVE  \/ written' = written /\ status' = status
         \/ status' = status /\ \E k \in 1 .. WindowSize : expected' = expected + k
         \/ written' = written /\ status = "running" /\ status' = "1"
         \/ written' = written /\ status = "running" /\ status' = "0"
<1>1. CASE RcopyNext /\ ~SendEOF /\ ~GiveUp
  BY <1>1 DEF RcopyNext, RcopyMoves, RcopyTimeout, ResendLowest, SendBlock, ReadEOF, Drain, CheckFlag,
              DrainDone, AwaitAck, Spin, rcopyVars, serverVars
<1>2. CASE RcopyNext /\ SendEOF
  BY <1>2 DEF RcopyNext, RcopyMoves, RcopyTimeout, ResendLowest, SendBlock, ReadEOF, Drain, CheckFlag,
              DrainDone, AwaitAck, SendEOF, GiveUp, Spin, InSendData, IInv, StatusInv,
              rcopyVars, serverVars
<1>3. CASE RcopyNext /\ GiveUp
  BY <1>3 DEF RcopyNext, RcopyMoves, RcopyTimeout, ResendLowest, SendBlock, ReadEOF, Drain, CheckFlag,
              DrainDone, AwaitAck, SendEOF, GiveUp, Spin, InSendData, IInv, StatusInv,
              rcopyVars, serverVars
<1>4. CASE ServerNext /\ ~RecvExpected
  BY <1>4 DEF ServerNext, ServerQuits, ServerReceives, ServerRecovers, ServerTimeout, RecvEOF, RecvCorrupt, RecvDuplicate,
              RecvOutOfOrder, SendSREJ, RecoverDone, rcopyVars, serverVars
<1>5. CASE RecvExpected /\ UNCHANGED rcopyVars
  BY <1>5 DEF RecvExpected, LoopWindow, rcopyVars
<1>6. CASE UNCHANGED vars
  BY <1>6 DEF vars, serverVars, rcopyVars
<1>7. ServerNext /\ RecvExpected => UNCHANGED rcopyVars
  BY DEF ServerNext, ServerQuits, ServerReceives, ServerRecovers
<1> QED BY <1>1, <1>2, <1>3, <1>4, <1>5, <1>6, <1>7 DEF Next, Exited

(* Every step of the two programs is a step of FileCopy, or changes         *)
(* neither the copy nor the status.                                         *)
LEMMA StepsRefine ==
  ASSUME IInv, IInv', [Next]_vars
  PROVE  [FC!Next]_(FC!vars)
<1> USE Counters
<1>1. CopyMade = FrontOfFile(expected)
  BY BlocksInOrder DEF IInv, WrittenInOrder, CopyMade
<1>2. /\ expected' \in Nat /\ expected' <= Blocks
      /\ status' = "1" => expected' = Blocks
  BY DEF IInv, TypeOK, ServerTypeOK, WrittenInOrder, StatusInv
<1>3. CopyMade' = FrontOfFile(expected')
  <2>1. /\ written' \in Seq(WrittenBlock) /\ Len(written') = expected'
        /\ \A i \in 1 .. expected' : written'[i].block = i - 1
    BY DEF IInv, TypeOK, ServerTypeOK, WrittenInOrder
  <2> QED BY <1>2, <2>1, BlocksInOrder DEF CopyMade
<1>4. Len(FrontOfFile(Blocks)) = Blocks /\ Len(CopyMade) = expected
  BY <1>1, FrontOfFileSeq, PacketsAssumption
<1>5. CASE written' = written /\ status' = status
  BY <1>5 DEF FC!vars, CopyMade, Outcome
<1>6. CASE status' = status /\ \E k \in 1 .. WindowSize : expected' = expected + k
  <2>1. expected < expected'
    BY <1>6, PacketsAssumption, SMTT(20)
  <2>2. status # "1"
    BY <1>2, <1>6, <2>1 DEF IInv, StatusInv
  <2>3. Outcome # "copied"
    BY <2>2 DEF Outcome, IInv, TypeOK, RcopyTypeOK
  <2>4. Outcome' = Outcome
    BY <1>6 DEF Outcome
  <2>5. expected' \in Len(CopyMade) + 1 .. Len(FrontOfFile(Blocks))
    BY <1>2, <1>4, <2>1, PacketsAssumption
  <2>6. CopyMade' = SubSeq(FrontOfFile(Blocks), 1, expected')
    BY <1>2, <1>3, FrontOfFileSubSeq, PacketsAssumption
  <2>7. FC!Extend
    BY <2>3, <2>4, <2>5, <2>6 DEF FC!Extend
  <2> QED BY <2>7 DEF FC!Next
<1>7. CASE written' = written /\ status = "running" /\ status' = "1"
  <2>1. Outcome = "copying" /\ Outcome' = "copied"
    BY <1>7 DEF Outcome
  <2>2. CopyMade' = CopyMade
    BY <1>7 DEF CopyMade
  <2>3. CopyMade = FrontOfFile(Blocks)
    BY <1>2, <1>3, <1>7, <2>2
  <2>4. FC!Complete
    BY <2>1, <2>2, <2>3 DEF FC!Complete
  <2> QED BY <2>4 DEF FC!Next
<1>8. CASE written' = written /\ status = "running" /\ status' = "0"
  <2>1. Outcome = "copying" /\ Outcome' = "abandoned"
    BY <1>8 DEF Outcome
  <2>2. CopyMade' = CopyMade
    BY <1>8 DEF CopyMade
  <2>3. FC!Abandon
    BY <2>1, <2>2 DEF FC!Abandon
  <2> QED BY <2>3 DEF FC!Next
<1> QED BY <1>5, <1>6, <1>7, <1>8, StepKinds

(* The two programs implement FileCopy: the copy grows front to back, and   *)
(* rcopy sends its end-of-file packet and exits with status 1 only over a   *)
(* complete copy.                                                           *)
THEOREM Refinement == Spec => CopiesFile
<1>1. Init => FC!Init
  <2> SUFFICES ASSUME Init PROVE FC!Init
    OBVIOUS
  <2>1. CopyMade = <<>>
    BY DEF Init, ServerInit, CopyMade
  <2>2. Outcome = "copying"
    BY DEF Init, RcopyInit, Outcome
  <2> QED BY <2>1, <2>2 DEF FC!Init
<1>2. IInv /\ IInv' /\ [Next]_vars => [FC!Next]_(FC!vars)
  BY StepsRefine
<1> QED BY <1>1, <1>2, Invariance, PTL DEF Spec, CopiesFile, FC!Spec
==============================================================================
