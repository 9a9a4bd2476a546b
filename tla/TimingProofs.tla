---------------------------- MODULE TimingProofs -----------------------------
(***************************************************************************)
(* Timing is Transfer with less freedom, so that IInv is an invariant of   *)
(* it too; and with a wait longer than the retries the server process      *)
(* outlives rcopy, for every value of the constants.  Where order is kept, *)
(* rcopy gives up only after more errors than the timeouts it survives.    *)
(***************************************************************************)
EXTENDS TimingInv, OrderProofs

-----------------------------------------------------------------------------
(* Every step of Timing is a step of Transfer. *)
THEOREM TimedIsTransfer == TimedSpec => Spec
<1>1. TimedInit => Init
  BY DEF TimedInit
<1>2. [TimedNext]_timedVars => [Next]_vars
  <2> SUFFICES ASSUME [TimedNext]_timedVars PROVE [Next]_vars
    OBVIOUS
  <2>1. CASE TimedRcopy
    BY <2>1 DEF TimedRcopy, SecondPasses, RcopyNext, Next
  <2>2. CASE TimedServer
    BY <2>2 DEF TimedServer, PatienceEnds, StartOver, ServerNext, Next
  <2>3. CASE Exited
    BY <2>3 DEF Next
  <2>4. CASE UNCHANGED timedVars
    BY <2>4 DEF timedVars
  <2> QED BY <2>1, <2>2, <2>3, <2>4 DEF TimedNext
<1> QED BY <1>1, <1>2, PTL DEF TimedSpec, Spec

-----------------------------------------------------------------------------
(* What rcopy sends. *)

(* A data packet, or a flipped copy of it, is not taken for EOF. *)
LEMMA DataIsNoEOF ==
  ASSUME NEW n \in Nat
  PROVE  DataPacket(n) \in NoEOF /\ Flipped(DataPacket(n)) \subseteq NoEOF
<1>1. DataPacket(n) \in Packet /\ DataPacket(n).flag = "DATA_PACKET"
  BY PacketTypes DEF DataPacket
<1>2. \A q \in Flipped(DataPacket(n)) : q.flag \in {"DATA_PACKET", "GARBLED"}
  BY <1>1 DEF Flipped
<1>3. \A q \in Flipped(DataPacket(n)) : q \in Packet
  BY <1>1, FlippedType
<1> QED BY <1>1, <1>2, <1>3 DEF NoEOF

(* What rcopy sends again is a data packet. *)
LEMMA HeldIsData ==
  ASSUME IInv, NEW n \in Nat, n < current
  PROVE  \E m \in Nat : ReadPacket(cbuf, n) = DataPacket(m)
<1>1. HeldBlock(cbuf[Slot(n)])
  BY Counters DEF IInv, RcopyBufferInv
<1>2. Slot(n) \in SlotIndex
  BY SlotInIndex
<1>3. cbuf[Slot(n)].pkt.num \in Nat
  BY <1>2, Counters DEF Buffers, Packet
<1> QED BY <1>1, <1>3 DEF HeldBlock, ReadPacket

(* Sending a data packet keeps the channel free of EOF. *)
LEMMA SendsNoEOF ==
  ASSUME IInv, dataCh \in Seq(NoEOF), NEW n \in Nat, Send(dataCh, DataPacket(n))
  PROVE  dataCh' \in Seq(NoEOF)
  BY DataIsNoEOF, Counters, SendData

(* Only the last step of rcopy sends EOF. *)
LEMMA EOFLastStep ==
  ASSUME IInv, EOFLast, [Next]_vars
  PROVE  EOFLast'
<1> SUFFICES ASSUME cstate' # "DONE" PROVE dataCh' \in Seq(NoEOF)
  BY DEF EOFLast
<1>1. CASE RcopyNext
  <2>0. dataCh \in Seq(NoEOF)
    BY <1>1
       DEF EOFLast, RcopyNext, RcopyTimeout, RcopyMoves, SendBlock, ReadEOF, Drain, DrainDone,
           AwaitAck, Spin, SendEOF, GiveUp, ResendLowest, InSendData, Spinning
  <2>1. CASE RcopyTimeout
    <3>1. lower < current
      BY <2>1, Counters, PacketsAssumption
         DEF RcopyTimeout, ResendLowest, MustWait, CheckFull, CheckLast
    <3>2. PICK m \in Nat : ReadPacket(cbuf, lower) = DataPacket(m)
      BY <3>1, Counters, HeldIsData
    <3> QED BY <2>0, <2>1, <3>2, SendsNoEOF DEF RcopyTimeout, ResendLowest
  <2>2. CASE SendBlock
    BY <2>0, <2>2, Counters, SendsNoEOF DEF SendBlock
  <2>3. ASSUME NEW i \in Arrivals(ackCh), CheckFlag(i)
        PROVE  dataCh' \in Seq(NoEOF)
    <3>1. CASE UNCHANGED dataCh
      BY <3>1, <2>0
    <3>2. CASE ackCh[i].ok /\ ackCh[i].flag = "SREJ" /\ Send(dataCh, ReadPacket(cbuf, ackCh[i].num))
      <4>1. ackCh[i] \in ServerSent
        BY <2>3, Counters, ReceiveAck DEF CheckFlag
      <4>2. ackCh[i].num \in Nat /\ ackCh[i].num < current
        BY <3>2, <4>1 DEF ServerSent, Packet
      <4>3. PICK m \in Nat : ReadPacket(cbuf, ackCh[i].num) = DataPacket(m)
        BY <4>2, HeldIsData
      <4> QED BY <2>0, <3>2, <4>3, SendsNoEOF
    <3> QED BY <2>3, <3>1, <3>2 DEF CheckFlag
  <2>4. CASE ReadEOF \/ DrainDone \/ Spin
    BY <2>0, <2>4 DEF ReadEOF, DrainDone, Spin, channelVars
  <2>5. CASE SendEOF \/ GiveUp
    BY <2>5 DEF SendEOF, GiveUp
  <2> QED BY <1>1, <2>1, <2>2, <2>3, <2>4, <2>5 DEF RcopyNext, RcopyMoves, Drain, AwaitAck
<1>2. CASE ServerNext
  <2>0. dataCh \in Seq(NoEOF)
    BY <1>2
       DEF EOFLast, ServerNext, ServerQuits, ServerReceives, ServerRecovers, rcopyVars
  <2>1. CASE ServerReceives
    <3>1. PICK i \in Arrivals(dataCh) : Receive(dataCh, i)
      BY <2>1
         DEF ServerReceives, RecvEOF, RecvCorrupt, RecvExpected, RecvDuplicate, RecvOutOfOrder,
             RecvIntact
    <3> QED BY <2>0, <3>1, ReceiveData
  <2>2. CASE ServerQuits \/ ServerRecovers
    BY <2>0, <2>2
       DEF ServerQuits, ServerRecovers, ServerTimeout, SendSREJ, RecoverDone, channelVars
  <2> QED BY <1>2, <2>1, <2>2 DEF ServerNext
<1>3. CASE UNCHANGED vars
  BY <1>3 DEF EOFLast, vars, rcopyVars, channelVars
<1> QED BY <1>1, <1>2, <1>3 DEF Next, Exited

-----------------------------------------------------------------------------
(* The two timers. *)

(* While rcopy listens, all it can do by itself is send again and give up. *)
LEMMA ListeningMoves ==
  ASSUME Listening, RcopyMoves
  PROVE  cstate' = "DONE" /\ UNCHANGED serverVars
<1>1. /\ ~SendBlock /\ ~ReadEOF /\ ~Spin /\ ~SendEOF
      /\ ~Drain /\ ~DrainDone
  BY DEF Listening, MustWait, SendBlock, ReadEOF, Spin, Spinning, SendEOF, AllAcked, Drain,
         DrainDone
<1>2. ~AwaitAck
  BY DEF Listening, AwaitAck, Arrivals
<1> QED BY <1>1, <1>2 DEF RcopyMoves, GiveUp

(* A timeout leaves it listening. *)
LEMMA ListeningTimeout ==
  ASSUME Listening, RcopyTimeout
  PROVE  Listening' /\ count' = count + 1 /\ UNCHANGED serverVars
  BY DEF Listening, RcopyTimeout, ResendLowest, MustWait, WindowOpen, CheckClosed, CheckFull,
         CheckLast

(* rcopy that spins does nothing else. *)
LEMMA SpinningStays ==
  ASSUME IInv, Spinning, RcopyNext
  PROVE  Spinning' /\ UNCHANGED serverVars
<1>1. Spin /\ UNCHANGED serverVars
  <2>1. ~RcopyTimeout
    BY DEF Spinning, RcopyTimeout, ResendLowest
  <2>2. ~SendBlock /\ ~ReadEOF /\ ~AwaitAck /\ ~SendEOF
    BY DEF Spinning, SendBlock, ReadEOF, AwaitAck, SendEOF
  <2>3. ~Drain /\ ~DrainDone
    BY DEF Spinning, InSendData, Drain, DrainDone
  <2>4. ~GiveUp
    BY RcopyAssumption DEF Spinning, InSendData, GiveUp, IInv, TypeOK, RcopyTypeOK
  <2> QED BY <2>1, <2>2, <2>3, <2>4 DEF RcopyNext, RcopyMoves
<1> QED BY <1>1
        DEF Spin, rcopyVars, Spinning, InSendData, WindowOpen, CheckClosed, MustWait, CheckFull,
            CheckLast, AllAcked

(* The invariant holds when the data phase starts. *)
LEMMA TimingInit == TimedInit => TimedInv
<1> SUFFICES ASSUME TimedInit PROVE TimedInv
  OBVIOUS
<1>1. silence = 0 /\ dataCh = <<>> /\ sstate = "RECV_DATA"
  BY DEF TimedInit, Init, ChannelInit, ServerInit
<1>2. EOFLast
  BY <1>1 DEF EOFLast
<1> QED BY <1>1, <1>2 DEF TimedInv, SilenceCounted, GoneLate

(* Every step keeps it, if the server process waits longer than rcopy's     *)
(* retries take.                                                            *)
LEMMA TimingStep ==
  ASSUME Patience > MaxCount, IInv, TimedInv, [TimedNext]_timedVars, [Next]_vars
  PROVE  TimedInv'
<1> USE TimingAssumption, RcopyAssumption
<1>0. /\ silence \in Nat /\ count \in Nat /\ EOFLast
      /\ sstate \in {"RECV_DATA", "RECOVER", "DONE"}
  BY DEF TimedInv, IInv, TypeOK, RcopyTypeOK, ServerTypeOK
<1>1. EOFLast'
  BY <1>0, EOFLastStep
<1>2. silence' \in Nat
  BY <1>0
     DEF TimedNext, TimedRcopy, TimedServer, SecondPasses, PatienceEnds, StartOver, timedVars
<1> SUFFICES ASSUME cstate' # "DONE" PROVE SilenceCounted' /\ GoneLate'
  BY <1>1, <1>2 DEF TimedInv, SilenceCounted, GoneLate
<1>3. CASE SecondPasses
  <2>1. RcopyTimeout /\ NothingUnderWay /\ cstate = "SEND_DATA" /\ MustWait /\ ~Spinning
    BY <1>3 DEF SecondPasses, RcopyTimeout, ResendLowest, InSendData, Spinning
  <2>2. Listening
    BY <2>1 DEF NothingUnderWay, Listening
  <2>3. Listening' /\ count' = count + 1 /\ sstate' = sstate
    BY <2>1, <2>2, ListeningTimeout DEF serverVars
  <2>4. sstate # "RECOVER"
    BY <2>1 DEF NothingUnderWay
  <2>5. SilenceCounted'
    <3>1. CASE silence > 0
      BY <1>0, <1>3, <2>1, <2>3, <2>4, <3>1 DEF SecondPasses, TimedInv, SilenceCounted
    <3>2. CASE silence = 0
      BY <1>0, <1>3, <2>3, <2>4, <3>2 DEF SecondPasses, SilenceCounted
    <3> QED BY <1>0, <3>1, <3>2
  <2>6. GoneLate'
    BY <1>0, <2>1, <2>3 DEF TimedInv, GoneLate
  <2> QED BY <2>5, <2>6
<1>4. CASE RcopyMoves /\ UNCHANGED silence
  <2>1. UNCHANGED serverVars /\ ~Listening
    BY <1>4, ListeningMoves DEF RcopyMoves
  <2>2. sstate' = sstate /\ cstate # "DONE"
    BY <1>4, <2>1
       DEF serverVars, RcopyMoves, SendBlock, ReadEOF, Drain, DrainDone, AwaitAck, Spin,
           Spinning, InSendData, SendEOF, GiveUp
  <2>3. SilenceCounted'
    BY <1>4, <2>1, <2>2 DEF TimedInv, SilenceCounted
  <2>4. GoneLate'
    BY <1>4, <2>1, <2>2, SpinningStays DEF TimedInv, GoneLate, RcopyNext
  <2> QED BY <2>3, <2>4
<1>5. CASE PatienceEnds
  <2>1. /\ UNCHANGED rcopyVars /\ UNCHANGED channelVars /\ silence' = silence
        /\ sstate = "RECV_DATA" /\ sstate' = "DONE"
    BY <1>5 DEF PatienceEnds, ServerQuits, ServerTimeout
  <2>2. (Spinning' <=> Spinning) /\ (Listening' <=> Listening) /\ count' = count
        /\ cstate' = cstate
    BY <2>1
       DEF rcopyVars, channelVars, Spinning, Listening, InSendData, WindowOpen, CheckClosed,
           MustWait, CheckFull, CheckLast, AllAcked
  <2>3. CASE Spinning
    BY <2>1, <2>2, <2>3 DEF SilenceCounted, GoneLate
  <2>4. CASE InSendData /\ MustWait /\ LastSecond /\ ~Spinning
    <3>1. Listening
      BY <1>5, <2>4 DEF PatienceEnds, NothingUnderWay, Listening, InSendData
    <3>2. silence >= MaxCount
      BY <1>0, <2>4 DEF LastSecond
    <3>3. count >= MaxCount
      BY <1>0, <2>1, <2>2, <3>2 DEF TimedInv, SilenceCounted
    <3> QED BY <2>1, <2>2, <3>1, <3>3 DEF SilenceCounted, GoneLate
  <2> QED BY <1>5, <2>2, <2>3, <2>4 DEF PatienceEnds
<1>6. CASE StartOver
  <2>1. ServerReceives /\ silence' = 0
    BY <1>6 DEF StartOver
  <2>2. sstate # "DONE" /\ cstate' = cstate
    BY <2>1
       DEF ServerReceives, RecvEOF, RecvCorrupt, RecvExpected, RecvDuplicate, RecvOutOfOrder,
           RecvIntact, rcopyVars
  <2>3. ~RecvEOF
    <3>1. dataCh \in Seq(NoEOF)
      BY <1>0, <2>2 DEF EOFLast
    <3>2. \A i \in Arrivals(dataCh) : Receive(dataCh, i) => dataCh[i] \in NoEOF
      BY <3>1, ReceiveData
    <3> QED BY <3>2 DEF RecvEOF, NoEOF
  <2>4. sstate' # "DONE"
    BY <2>1, <2>2, <2>3
       DEF ServerReceives, RecvCorrupt, RecvExpected, RecvDuplicate, RecvOutOfOrder, serverVars
  <2> QED BY <2>1, <2>4 DEF SilenceCounted, GoneLate
<1>7. CASE ServerRecovers /\ UNCHANGED silence
  <2>1. /\ cstate' = cstate /\ sstate = "RECOVER" /\ sstate' # "DONE"
    BY <1>7 DEF ServerRecovers, SendSREJ, RecoverDone, rcopyVars
  <2> QED BY <1>7, <2>1 DEF TimedInv, SilenceCounted, GoneLate
<1>8. CASE (Exited /\ UNCHANGED silence) \/ UNCHANGED timedVars
  <2>1. UNCHANGED vars /\ silence' = silence
    BY <1>8 DEF Exited, timedVars
  <2> QED BY <2>1
          DEF TimedInv, SilenceCounted, GoneLate, vars, rcopyVars, serverVars, channelVars,
              Spinning, Listening, InSendData, WindowOpen, CheckClosed, MustWait, CheckFull,
              CheckLast, AllAcked
<1> QED BY <1>3, <1>4, <1>5, <1>6, <1>7, <1>8 DEF TimedNext, TimedRcopy, TimedServer

-----------------------------------------------------------------------------
(* The timers are never out of step.                                        *)
THEOREM TimersInStep ==
  ASSUME Patience > MaxCount
  PROVE  TimedSpec => []TimedInv
<1>1. TimedSpec => []IInv
  BY TimedIsTransfer, Invariance, PTL
<1>2. TimedSpec => [][Next]_vars
  BY TimedIsTransfer, PTL DEF Spec
<1>3. IInv /\ TimedInv /\ [TimedNext]_timedVars /\ [Next]_vars => TimedInv'
  BY TimingStep
<1> QED BY <1>1, <1>2, <1>3, TimingInit, PTL DEF TimedSpec

(* A server process whose wait (pollCall(10000) of server.c) is longer than *)
(* the timeouts that rcopy survives ("count > 9" of rcopy.c) does not leave *)
(* an rcopy that still has a packet to send again; unless rcopy spins and   *)
(* never will, which takes a network that reorders datagrams.               *)
THEOREM ServerWaitsForRcopy ==
  ASSUME Patience > MaxCount
  PROVE  TimedSpec => [](ServerOutlivesRcopy \/ Spinning)
<1>1. TimedInv => ServerOutlivesRcopy \/ Spinning
  BY DEF TimedInv, GoneLate, ServerOutlivesRcopy
<1> QED BY <1>1, TimersInStep, PTL

(* On a network that keeps the order rcopy never spins: its window is never *)
(* overrun.                                                                 *)
LEMMA NeverSpins ==
  ASSUME IInv, OrderInv
  PROVE  ~Spinning
<1> SUFFICES ASSUME Spinning PROVE FALSE
  OBVIOUS
<1>1. /\ lower \in Nat /\ current \in Nat /\ upper \in Nat /\ current <= upper
  BY Counters DEF OrderInv
<1> QED BY <1>1
        DEF Spinning, WindowOpen, CheckClosed, MustWait, CheckFull, CheckLast, AllAcked

(* There, the server process outlives rcopy without exception.              *)
THEOREM ServerOutlives ==
  ASSUME Patience > MaxCount, ~Unordered
  PROVE  TimedSpec => []ServerOutlivesRcopy
<1>1. TimedSpec => [](IInv /\ OrderInv)
  BY TimedIsTransfer, Invariance, OrderKept, PTL
<1>2. IInv /\ OrderInv /\ (ServerOutlivesRcopy \/ Spinning) => ServerOutlivesRcopy
  BY NeverSpins
<1> QED BY <1>1, <1>2, ServerWaitsForRcopy, PTL

-----------------------------------------------------------------------------
(* Errors and timeouts. *)

(* An error that sendtoErr injects is counted, or there have been enough.   *)
LEMMA ErrorCounted ==
  ASSUME CountError, errors \in 0 .. ErrorBudget, ErrorsUnbounded => ErrorBudget > MaxCount
  PROVE  /\ errors' \in Nat
         /\ errors' = errors + 1 \/ errors' > MaxCount
  BY ChannelAssumption, RcopyAssumption DEF CountError

(* What rcopy sends into a channel with room is there, or counted as lost.  *)
LEMMA DataSent ==
  ASSUME IInv, NEW p \in Packet, Send(dataCh, p), Len(dataCh) < Capacity,
         ErrorsUnbounded => ErrorBudget > MaxCount
  PROVE  \/ dataCh' = Append(dataCh, p) /\ errors' = errors
         \/ /\ dataCh' = dataCh \/ \E q \in Packet : ~q.ok /\ dataCh' = Append(dataCh, q)
            /\ errors' \in Nat
            /\ errors' = errors + 1 \/ errors' > MaxCount
<1>1. CASE dataCh' = Deliver(dataCh, p) /\ errors' = errors
  BY <1>1 DEF Deliver
<1>2. ASSUME CountError, dataCh' = dataCh \/ \E q \in Flipped(p) : dataCh' = Deliver(dataCh, q)
      PROVE  /\ dataCh' = dataCh \/ \E q \in Packet : ~q.ok /\ dataCh' = Append(dataCh, q)
             /\ errors' \in Nat
             /\ errors' = errors + 1 \/ errors' > MaxCount
  BY <1>2, Counters, ErrorCounted, FlippedType DEF Deliver
<1> QED BY <1>1, <1>2 DEF Send

(* The same for the server. *)
LEMMA AckSent ==
  ASSUME IInv, NEW p \in Packet, Send(ackCh, p), Len(ackCh) < Capacity,
         ErrorsUnbounded => ErrorBudget > MaxCount
  PROVE  \/ ackCh' = Append(ackCh, p) /\ errors' = errors
         \/ /\ ackCh' = ackCh \/ \E q \in Packet : ~q.ok /\ ackCh' = Append(ackCh, q)
            /\ errors' \in Nat
            /\ errors' = errors + 1 \/ errors' > MaxCount
<1>1. CASE ackCh' = Deliver(ackCh, p) /\ errors' = errors
  BY <1>1 DEF Deliver
<1>2. ASSUME CountError, ackCh' = ackCh \/ \E q \in Flipped(p) : ackCh' = Deliver(ackCh, q)
      PROVE  /\ ackCh' = ackCh \/ \E q \in Packet : ~q.ok /\ ackCh' = Append(ackCh, q)
             /\ errors' \in Nat
             /\ errors' = errors + 1 \/ errors' > MaxCount
  BY <1>2, Counters, ErrorCounted, FlippedType DEF Deliver
<1> QED BY <1>1, <1>2 DEF Send

(* A channel to which Append has added a packet, element by element. *)
LEMMA Appended ==
  ASSUME NEW ch \in Seq(Packet), NEW p \in Packet
  PROVE  /\ Append(ch, p) \in Seq(Packet)
         /\ Len(Append(ch, p)) = Len(ch) + 1
         /\ \A k \in 1 .. Len(ch) : Append(ch, p)[k] = ch[k]
         /\ Append(ch, p)[Len(ch) + 1] = p
  BY AppendProperties

(* While rcopy must wait and nothing is under way, something has been lost: *)
(* one error more than the timeouts so far.                                 *)
LEMMA SilenceHasCause ==
  ASSUME IInv, LossCounted, errors <= MaxCount, cstate # "DONE", ~Spinning,
         NothingUnderWay, MustWait
  PROVE  /\ dataCh = <<>> /\ ackCh = <<>> /\ sstate = "RECV_DATA"
         /\ count < errors
<1>1. /\ lower \in Nat /\ current \in Nat /\ upper = lower + WindowSize /\ errors \in Nat
      /\ expected \in Nat /\ count \in Nat
  BY Counters DEF IInv, TypeOK, RcopyTypeOK
<1>2. /\ sstate # "DONE" /\ count <= errors
      /\ errors = 0 => Unharmed
      /\ count > 0 => Retrying
  BY <1>1, RcopyAssumption DEF LossCounted
<1>3. dataCh = <<>> /\ ackCh = <<>> /\ sstate = "RECV_DATA"
  BY <1>2 DEF NothingUnderWay, IInv, TypeOK, ServerTypeOK
<1>4. errors # 0
  <2> SUFFICES ASSUME Unharmed PROVE FALSE
    BY <1>2
  <2>1. Len(dataCh) = 0 /\ Len(ackCh) = 0
    BY <1>3
  <2>2. lower = expected /\ expected = current
    BY <1>1, <2>1 DEF Unharmed
  <2> QED BY <1>1, <2>2, PacketsAssumption DEF MustWait, CheckFull, CheckLast
<1>5. count > 0 => count # errors
  BY <1>2, <1>3 DEF Retrying
<1> QED BY <1>1, <1>2, <1>3, <1>4, <1>5

(* The error count never decreases.                                         *)
LEMMA ErrorsGrow ==
  ASSUME IInv, [Next]_vars
  PROVE  errors' \in Nat /\ errors <= errors'
<1>1. errors \in Nat
  BY Counters
<1>2. errors' = errors \/ CountError
  BY DEF Next, Exited, RcopyNext, RcopyTimeout, RcopyMoves, SendBlock, ReadEOF, Drain, DrainDone,
         AwaitAck, CheckFlag, Spin, SendEOF, GiveUp, ResendLowest, ServerNext, ServerQuits,
         ServerReceives, ServerRecovers, ServerTimeout, RecvEOF, RecvCorrupt, RecvExpected,
         RecvDuplicate, RecvOutOfOrder, SendSREJ, RecoverDone, Send, vars, channelVars
<1> QED BY <1>1, <1>2, ChannelAssumption DEF CountError

(* A timeout of rcopy: nothing is under way but the packet it sends again.  *)
LEMMA TimeoutCounted ==
  ASSUME IInv, OrderInv, LossCounted, cstate # "DONE", errors <= MaxCount, errors' <= MaxCount,
         ErrorsUnbounded => ErrorBudget > MaxCount, SecondPasses
  PROVE  LossCounted'
<1>1. /\ lower \in Nat /\ current \in Nat /\ upper = lower + WindowSize /\ errors \in Nat
      /\ expected \in Nat /\ count \in Nat /\ WindowSize \in Nat \ {0} /\ MaxCount \in Nat
      /\ lower <= expected
  BY Counters, PacketsAssumption, RcopyAssumption DEF IInv, TypeOK, RcopyTypeOK
<1>2. /\ cstate = "SEND_DATA" /\ MustWait /\ Send(dataCh, ReadPacket(cbuf, lower))
      /\ count' = count + 1
      /\ UNCHANGED <<cstate, readEOF, lower, current, upper, cbuf, status, ackCh>>
      /\ UNCHANGED <<sstate, expected>>
  BY DEF SecondPasses, RcopyTimeout, ResendLowest, InSendData, serverVars
<1>3. dataCh = <<>> /\ ackCh = <<>> /\ sstate = "RECV_DATA" /\ count < errors
  BY <1>2, NeverSpins, SilenceHasCause DEF SecondPasses
<1>4. ReadPacket(cbuf, lower) = DataPacket(lower)
  BY <1>1, <1>2 DEF MustWait, CheckFull, CheckLast, OrderInv, UnackedHeld, IInv, WindowInv,
                    WindowBounds
<1>5. /\ DataPacket(lower) \in Packet /\ DataPacket(lower).ok /\ DataPacket(lower).num = lower
  BY <1>1, PacketTypes DEF DataPacket
<1>6. \/ dataCh' = Append(dataCh, DataPacket(lower)) /\ errors' = errors
      \/ /\ dataCh' = dataCh \/ \E q \in Packet : ~q.ok /\ dataCh' = Append(dataCh, q)
         /\ errors' \in Nat
         /\ errors' = errors + 1
  <2>1. Len(dataCh) < Capacity
    BY <1>3, ChannelAssumption
  <2> QED BY <1>1, <1>2, <1>4, <1>5, <2>1, DataSent
<1>7. MustWait'
  BY <1>2 DEF MustWait, WindowOpen, CheckClosed, CheckFull, CheckLast
<1>8. Retrying'
  <2>1. ASSUME NEW q \in Packet, dataCh' = Append(dataCh, q)
        PROVE  Len(dataCh') = 1 /\ DOMAIN dataCh' = {1} /\ dataCh'[1] = q
    BY <1>3, <2>1
  <2>2. CASE dataCh' = Append(dataCh, DataPacket(lower)) /\ errors' = errors
    BY <1>1, <1>2, <1>3, <1>5, <1>7, <2>1, <2>2 DEF Retrying
  <2>3. CASE dataCh' = dataCh /\ errors' = errors + 1
    BY <1>1, <1>2, <1>3, <1>7, <2>3 DEF Retrying
  <2>4. ASSUME NEW q \in Packet, ~q.ok, dataCh' = Append(dataCh, q), errors' = errors + 1
        PROVE  Retrying'
    BY <1>1, <1>2, <1>3, <1>7, <2>1, <2>4 DEF Retrying
  <2> QED BY <1>6, <2>2, <2>3, <2>4
<1>9. count' <= errors' /\ errors' # 0
  BY <1>1, <1>2, <1>3, <1>6
<1>10. status # "0"
  BY <1>1 DEF LossCounted
<1> QED BY <1>2, <1>3, <1>8, <1>9, <1>10 DEF LossCounted

(* A new block, while nothing is lost.                                      *)
LEMMA SendBlockUnharmed ==
  ASSUME IInv, Unharmed, SendBlock, UNCHANGED serverVars, errors = 0, errors' = 0,
         Capacity >= WindowSize, ErrorsUnbounded => ErrorBudget > MaxCount
  PROVE  Unharmed'
<1>1. /\ lower \in Nat /\ current \in Nat /\ upper = lower + WindowSize
      /\ expected \in Nat /\ WindowSize \in Nat \ {0} /\ lower <= expected
      /\ expected <= current /\ MaxCount \in Nat /\ dataCh \in Seq(Packet)
  BY Counters, PacketsAssumption, RcopyAssumption DEF IInv, TypeOK, ChannelTypeOK
<1>2. /\ Send(dataCh, DataPacket(current)) /\ current < upper /\ current' = current + 1
      /\ count' = 0 /\ UNCHANGED <<lower, ackCh, sstate, sbuf, expected>>
  BY <1>1 DEF SendBlock, WindowOpen, CheckClosed, serverVars
<1>3. Len(dataCh) = current - expected
  BY DEF Unharmed
<1>4. DataPacket(current) \in Packet
  BY <1>1, PacketTypes
<1>5. dataCh' = Append(dataCh, DataPacket(current))
  <2>1. Len(dataCh) < Capacity
    BY <1>1, <1>2, <1>3, ChannelAssumption
  <2>2. errors' # errors + 1 /\ ~(errors' > MaxCount)
    BY <1>1
  <2> QED BY <1>2, <1>4, <2>1, <2>2, DataSent
<1>6. Len(dataCh') = current' - expected'
  BY <1>1, <1>2, <1>3, <1>4, <1>5, Appended
<1>7. ASSUME NEW i \in 1 .. current' - expected'
      PROVE  dataCh'[i] = DataPacket(expected' + i - 1)
  <2>1. CASE i \in 1 .. current - expected
    BY <1>1, <1>2, <1>3, <1>4, <1>5, <2>1, Appended DEF Unharmed
  <2>2. CASE i = current - expected + 1
    <3>1. dataCh'[i] = DataPacket(current)
      BY <1>1, <1>3, <1>4, <1>5, <2>2, Appended
    <3>2. expected + i - 1 = current
      BY <1>1, <2>2
    <3> QED BY <1>2, <3>1, <3>2
  <2> QED BY <1>1, <1>2, <2>1, <2>2
<1> QED BY <1>2, <1>6, <1>7 DEF Unharmed

(* An acknowledgement, while nothing is lost.                               *)
LEMMA CheckFlagUnharmed ==
  ASSUME ~Unordered, IInv, Unharmed, NEW i \in Arrivals(ackCh), CheckFlag(i),
         UNCHANGED serverVars
  PROVE  Unharmed'
<1>1. /\ lower \in Nat /\ current \in Nat /\ expected \in Nat /\ lower <= expected
      /\ ackCh \in Seq(ServerSent)
  BY Counters
<1>2. i = 1 /\ 1 \in DOMAIN ackCh /\ Receive(ackCh, 1)
  BY DEF Arrivals, CheckFlag
<1>3. /\ Len(ackCh) = expected - lower /\ Len(ackCh) >= 1
      /\ ackCh[1] = RRPacket(lower + 1)
  BY <1>1, <1>2, LenProperties DEF Unharmed
<1>4. /\ ackCh[1].ok /\ ackCh[1].flag = "RR" /\ ackCh[1].num = lower + 1
  BY <1>3 DEF RRPacket
<1>5. /\ lower' = lower + 1 /\ count' = 0 /\ UNCHANGED <<dataCh, current, errors>>
  BY <1>2, <1>4 DEF CheckFlag, SlideWindow
<1>6. /\ Len(ackCh') = Len(ackCh) - 1
      /\ \A k \in 1 .. Len(ackCh) - 1 : ackCh'[k] = ackCh[k + 1]
  BY <1>1, <1>2, FirstRemoved DEF Receive
<1>7. UNCHANGED <<sstate, sbuf, expected>>
  BY DEF serverVars
<1>8. ASSUME NEW k \in 1 .. expected' - lower'
      PROVE  ackCh'[k] = RRPacket(lower' + k)
  <2>1. k + 1 \in 1 .. expected - lower /\ k \in 1 .. Len(ackCh) - 1
        /\ lower + (k + 1) = lower' + k
    BY <1>1, <1>3, <1>5, <1>7
  <2> QED BY <1>6, <2>1 DEF Unharmed
<1>9. Len(ackCh') = expected' - lower'
  BY <1>1, <1>3, <1>5, <1>6, <1>7
<1> QED BY <1>5, <1>7, <1>8, <1>9 DEF Unharmed

(* Whatever else rcopy does: an acknowledgement ends the row of timeouts.   *)
LEMMA MovesCounted ==
  ASSUME ~Unordered, IInv, OrderInv, LossCounted, errors <= MaxCount, errors' <= MaxCount,
         Capacity >= WindowSize, ErrorsUnbounded => ErrorBudget > MaxCount,
         RcopyMoves
  PROVE  LossCounted'
<1>1. /\ errors \in Nat /\ errors' \in Nat /\ errors <= errors' /\ count \in Nat
      /\ MaxCount \in Nat /\ ackCh \in Seq(ServerSent)
  BY Counters, RcopyAssumption, ErrorsGrow
     DEF IInv, TypeOK, RcopyTypeOK, Next, RcopyNext
<1>2. /\ status # "0"
      /\ cstate # "DONE" =>
           /\ sstate # "DONE"
           /\ errors = 0 => Unharmed
           /\ count <= errors
           /\ count > 0 => Retrying
  BY <1>1 DEF LossCounted
<1>3. UNCHANGED serverVars
  BY DEF RcopyMoves
<1>4. UNCHANGED <<sstate, sbuf, expected>>
  BY <1>3 DEF serverVars
<1>5. CASE SendEOF
  BY <1>5 DEF SendEOF, LossCounted
<1>6. CASE GiveUp
  BY <1>1, <1>2, <1>6 DEF GiveUp
<1>7. CASE SendBlock
  <2>1. /\ cstate = "SEND_DATA" /\ count' = 0 /\ status' = status
    BY <1>7 DEF SendBlock, InSendData
  <2>2. errors' = 0 => Unharmed'
    BY <1>1, <1>2, <1>3, <1>7, <2>1, SendBlockUnharmed
  <2> QED BY <1>1, <1>2, <1>4, <2>1, <2>2 DEF LossCounted
<1>8. ASSUME NEW i \in Arrivals(ackCh), CheckFlag(i), cstate # "DONE", UNCHANGED cstate,
             MustWait \/ cstate = "DRAIN"
      PROVE  LossCounted'
  <2>1. status' = status
    BY <1>8 DEF CheckFlag
  <2>2. errors' = 0 => Unharmed'
    BY <1>1, <1>2, <1>3, <1>8, CheckFlagUnharmed
  <2>3. count' = 0 \/ count' = count
    BY <1>8 DEF CheckFlag
  <2>4. ASSUME count' > 0
        PROVE  Retrying' /\ count' <= errors'
    <3>1. count' = count /\ UNCHANGED <<lower, upper, dataCh, errors>> /\ Retrying
      BY <1>1, <1>2, <1>8, <2>3, <2>4 DEF CheckFlag
    <3>2. UNCHANGED <<readEOF, current>>
      BY <1>8 DEF CheckFlag
    <3>3. i = 1 /\ 1 \in DOMAIN ackCh /\ ackCh[1] \in ServerSent /\ Receive(ackCh, 1)
      BY <1>8, FirstAnswer DEF CheckFlag, OrderInv, Arrivals
    <3>4. ~ackCh[1].ok
      BY <1>1, <1>8, <2>4, <3>3 DEF CheckFlag, ServerSent
    <3>5. Len(ackCh) = 1 /\ Len(dataCh) = 0
      <4>1. Len(dataCh) \in Nat /\ Len(ackCh) \in Nat /\ Len(ackCh) >= 1
        BY <3>3, Counters, LenProperties
      <4>2. Len(dataCh) + Len(ackCh) <= 1
        BY <3>1 DEF Retrying
      <4>3. \A x, y \in Nat : y >= 1 /\ x + y <= 1 => y = 1 /\ x = 0
        OBVIOUS
      <4> QED BY <4>1, <4>2, <4>3
    <3>6. count # errors
      <4>1. DOMAIN dataCh = {} /\ DOMAIN ackCh = {1}
        BY <3>5, Counters, LenProperties
      <4> QED BY <3>1, <3>4, <4>1 DEF Retrying
    <3>7. Len(ackCh') = 0
      BY <1>1, <3>3, <3>5, FirstRemoved DEF Receive
    <3>8. MustWait'
      BY <3>1, <3>2
         DEF Retrying, MustWait, WindowOpen, CheckClosed, CheckFull, CheckLast
    <3> QED BY <1>2, <1>4, <1>8, <3>1, <3>5, <3>6, <3>7, <3>8 DEF Retrying
  <2> QED BY <1>1, <1>2, <1>4, <1>8, <2>1, <2>2, <2>3, <2>4 DEF LossCounted
<1>9. CASE Drain \/ AwaitAck
  BY <1>8, <1>9 DEF Drain, AwaitAck, InSendData
<1>10. CASE ReadEOF \/ DrainDone
  <2>1. /\ UNCHANGED <<count, lower, current, status, dataCh, ackCh, errors>>
        /\ cstate # "DONE"
    BY <1>10 DEF ReadEOF, DrainDone, channelVars, InSendData
  <2>2. ~Retrying
    BY <1>10 DEF ReadEOF, DrainDone, Retrying, MustWait, InSendData
  <2>3. Unharmed => Unharmed'
    BY <1>4, <2>1 DEF Unharmed
  <2> QED BY <1>1, <1>2, <1>4, <2>1, <2>2, <2>3 DEF LossCounted
<1>11. CASE Spin
  BY <1>11, NeverSpins DEF Spin
<1> QED BY <1>5, <1>6, <1>7, <1>9, <1>10, <1>11 DEF RcopyMoves

(* The expected packet, while nothing is lost.                              *)
LEMMA ReceiveUnharmed ==
  ASSUME ~Unordered, IInv, OrderInv, Unharmed, ServerReceives, errors = 0, errors' = 0,
         Capacity >= WindowSize, ErrorsUnbounded => ErrorBudget > MaxCount
  PROVE  Unharmed'
<1>1. /\ lower \in Nat /\ current \in Nat /\ expected \in Nat /\ lower <= expected
      /\ expected <= current /\ current <= expected + WindowSize
      /\ WindowSize \in Nat \ {0} /\ MaxCount \in Nat
      /\ dataCh \in Seq(Packet) /\ ackCh \in Seq(Packet) /\ sbuf \in Buffers
  BY Counters, PacketsAssumption, RcopyAssumption DEF IInv, TypeOK, ChannelTypeOK
<1>2. UNCHANGED <<count, lower, current, cstate>>
  BY DEF ServerReceives, rcopyVars
<1>3. /\ Receive(dataCh, 1) /\ 1 \in DOMAIN dataCh /\ Len(dataCh) >= 1
  <2>1. PICK i \in Arrivals(dataCh) : Receive(dataCh, i)
    BY DEF ServerReceives, RecvEOF, RecvCorrupt, RecvExpected, RecvDuplicate, RecvOutOfOrder,
           RecvIntact
  <2>2. i = 1 /\ 1 \in DOMAIN dataCh
    BY DEF Arrivals
  <2> QED BY <1>1, <2>1, <2>2, LenProperties
<1>4. /\ Len(dataCh) = current - expected /\ dataCh[1] = DataPacket(expected)
  BY <1>1, <1>3 DEF Unharmed
<1>5. /\ dataCh[1].ok /\ dataCh[1].flag = "DATA_PACKET" /\ dataCh[1].num = expected
      /\ Arrivals(dataCh) = {1} /\ dataCh[1] \in Packet
  BY <1>1, <1>3, <1>4, PacketTypes DEF DataPacket, Arrivals
<1>6. RecvExpected
  BY <1>1, <1>5
     DEF ServerReceives, RecvEOF, RecvCorrupt, RecvDuplicate, RecvOutOfOrder
<1>7. /\ LoopWindow(InsertPacket(sbuf, dataCh[1]), dataCh[1].len)
      /\ Send(ackCh, RRPacket(expected')) /\ sstate' = sstate
  BY <1>5, <1>6 DEF RecvExpected
<1>8. expected' = expected + 1 /\ \A s \in SlotIndex : ~sbuf'[s].valid
  <2> DEFINE b == InsertPacket(sbuf, dataCh[1])
  <2>1. PICK k \in 1 .. WindowSize :
          /\ \A j \in 0 .. k - 1 : GetValid(b, expected + j)
          /\ sbuf' = [s \in SlotIndex |->
                        IF \E j \in 0 .. k - 1 : s = Slot(expected + j)
                        THEN [b[s] EXCEPT !.valid = FALSE]
                        ELSE b[s]]
          /\ expected' = expected + k
    BY <1>7 DEF LoopWindow
  <2>2. \A s \in SlotIndex : b[s] \in [valid : BOOLEAN, pkt : Packet]
                             /\ (b[s].valid => s = Slot(expected))
    BY <1>1, <1>5 DEF Buffers, InsertPacket, Unharmed
  <2> HIDE DEF b
  <2>3. k \in Nat /\ 1 <= k /\ k <= WindowSize
    BY <1>1, <2>1
  <2>4. CASE k = 1
    <3>1. 0 \in 0 .. k - 1 /\ expected + 0 = expected
      BY <1>1, <2>4
    <3>2. \A s \in SlotIndex : s = Slot(expected) => ~sbuf'[s].valid
      BY <2>1, <2>2, <3>1
    <3>3. \A s \in SlotIndex : s # Slot(expected) => ~sbuf'[s].valid
      <4>1. \A s \in SlotIndex : sbuf'[s] = b[s] \/ sbuf'[s] = [b[s] EXCEPT !.valid = FALSE]
        BY <2>1
      <4> QED BY <2>2, <4>1
    <3> QED BY <2>1, <2>4, <3>2, <3>3
  <2>5. CASE k > 1
    <3>1. 1 \in 0 .. k - 1 /\ expected + 1 \in Nat /\ expected <= expected + 1
          /\ expected + 1 < expected + WindowSize
      BY <1>1, <2>3, <2>5
    <3>2. Slot(expected + 1) \in SlotIndex /\ b[Slot(expected + 1)].valid
      BY <2>1, <3>1, SlotInIndex DEF GetValid
    <3>3. Slot(expected) = Slot(expected + 1)
      BY <2>2, <3>2
    <3>4. expected = expected + 1
      BY <1>1, <3>1, <3>3, SlotUnique
    <3> QED BY <1>1, <3>4
  <2>6. k = 1 \/ k > 1
    BY <2>3
  <2> QED BY <2>4, <2>5, <2>6
<1>9. ackCh' = Append(ackCh, RRPacket(expected + 1))
  <2>1. Len(ackCh) = expected - lower /\ Len(ackCh) < Capacity
    <3>1. Len(ackCh) = expected - lower
      BY DEF Unharmed
    <3>2. current <= lower + WindowSize /\ 1 <= current - expected
      BY <1>1, <1>3, <1>4, Counters DEF OrderInv
    <3>3. expected - lower < WindowSize
      BY <1>1, <3>2
    <3> QED BY <1>1, <3>1, <3>3, ChannelAssumption
  <2>2. RRPacket(expected + 1) \in Packet /\ Send(ackCh, RRPacket(expected + 1))
    BY <1>1, <1>7, <1>8, PacketTypes
  <2>3. errors' # errors + 1 /\ ~(errors' > MaxCount)
    BY <1>1
  <2> QED BY <2>1, <2>2, <2>3, AckSent
<1>10. /\ Len(dataCh') = current' - expected'
       /\ \A i \in 1 .. current' - expected' : dataCh'[i] = DataPacket(expected' + i - 1)
  <2>1. /\ Len(dataCh') = Len(dataCh) - 1
        /\ \A i \in 1 .. Len(dataCh) - 1 : dataCh'[i] = dataCh[i + 1]
    BY <1>1, <1>3, FirstRemoved DEF Receive
  <2>2. ASSUME NEW i \in 1 .. current' - expected'
        PROVE  dataCh'[i] = DataPacket(expected' + i - 1)
    <3>1. i + 1 \in 1 .. current - expected /\ i \in 1 .. Len(dataCh) - 1
          /\ expected + (i + 1) - 1 = expected' + i - 1
      BY <1>1, <1>2, <1>4, <1>8
    <3> QED BY <2>1, <3>1 DEF Unharmed
  <2>3. Len(dataCh') = current' - expected'
    BY <1>1, <1>2, <1>4, <1>8, <2>1
  <2> QED BY <2>2, <2>3
<1>11. /\ Len(ackCh') = expected' - lower'
       /\ \A i \in 1 .. expected' - lower' : ackCh'[i] = RRPacket(lower' + i)
  <2>1. RRPacket(expected + 1) \in Packet /\ Len(ackCh) = expected - lower
    BY <1>1, PacketTypes DEF Unharmed
  <2>2. ASSUME NEW i \in 1 .. expected' - lower'
        PROVE  ackCh'[i] = RRPacket(lower' + i)
    <3>1. i \in 1 .. expected - lower \/ i = expected - lower + 1
      BY <1>1, <1>2, <1>8
    <3>2. CASE i \in 1 .. expected - lower
      BY <1>1, <1>2, <1>9, <2>1, <3>2, Appended DEF Unharmed
    <3>3. CASE i = expected - lower + 1
      <4>1. lower + i = expected + 1
        BY <1>1, <3>3
      <4>2. ackCh'[i] = RRPacket(expected + 1)
        BY <1>1, <1>9, <2>1, <3>3, Appended, SMTT(30)
      <4> QED BY <1>2, <4>1, <4>2
    <3> QED BY <3>1, <3>2, <3>3
  <2>3. Len(ackCh') = expected' - lower'
    <3>1. Len(ackCh') = Len(ackCh) + 1
      BY <1>1, <1>9, <2>1, Appended
    <3> QED BY <1>1, <1>2, <1>8, <2>1, <3>1
  <2> QED BY <2>2, <2>3
<1> QED BY <1>2, <1>7, <1>8, <1>10, <1>11 DEF Unharmed

(* A packet at the server while rcopy sends again: it is the only one under *)
(* way, and is answered.                                                    *)
LEMMA ReceiveRetrying ==
  ASSUME ~Unordered, IInv, EOFLast, Retrying, ServerReceives,
         count > 0, count <= errors, errors' <= MaxCount,
         ErrorsUnbounded => ErrorBudget > MaxCount
  PROVE  Retrying' /\ count' <= errors'
<1>1. /\ expected \in Nat /\ MaxCount \in Nat /\ errors \in Nat /\ count \in Nat
      /\ dataCh \in Seq(Packet) /\ ackCh \in Seq(Packet)
  BY Counters, RcopyAssumption DEF IInv, TypeOK, RcopyTypeOK, ChannelTypeOK
<1>2. UNCHANGED <<count, cstate, MustWait>>
  BY DEF ServerReceives, rcopyVars, MustWait, WindowOpen, CheckClosed, CheckFull, CheckLast
<1>3. PICK i \in Arrivals(dataCh) : Receive(dataCh, i)
  BY DEF ServerReceives, RecvEOF, RecvCorrupt, RecvExpected, RecvDuplicate, RecvOutOfOrder,
         RecvIntact
<1>4. /\ Arrivals(dataCh) = {1} /\ dataCh' = RemoveAt(dataCh, 1) /\ 1 \in DOMAIN dataCh
  BY <1>3 DEF Arrivals, Receive
<1>5. Len(dataCh) = 1 /\ DOMAIN dataCh = {1} /\ ackCh = <<>> /\ Len(ackCh) = 0
  <2>1. Len(dataCh) \in Nat /\ Len(ackCh) \in Nat /\ Len(dataCh) >= 1
    BY <1>1, <1>4, LenProperties
  <2>2. Len(dataCh) + Len(ackCh) <= 1
    BY DEF Retrying
  <2>3. Len(dataCh) = 1 /\ Len(ackCh) = 0
    BY <2>1, <2>2
  <2> QED BY <1>1, <2>3, EmptySeq, LenProperties
<1>6. Len(dataCh') = 0 /\ DOMAIN dataCh' = {}
  <2>1. dataCh' \in Seq(Packet) /\ Len(dataCh') = 0
    BY <1>1, <1>4, <1>5, FirstRemoved
  <2> QED BY <2>1, LenProperties
<1>7. dataCh[1] \in NoEOF /\ dataCh[1] \in Packet
  BY <1>4 DEF EOFLast, Retrying, NoEOF
<1>8. ~RecvEOF
  BY <1>4, <1>7 DEF RecvEOF, NoEOF
<1>9. CASE RecvCorrupt
  <2>1. ~dataCh[1].ok /\ UNCHANGED <<sstate, expected, ackCh, errors>>
    BY <1>4, <1>9 DEF RecvCorrupt, serverVars
  <2>2. count # errors
    BY <1>5, <2>1 DEF Retrying
  <2> QED BY <1>1, <1>2, <1>5, <1>6, <2>1, <2>2 DEF Retrying
<1>10. ASSUME NEW n \in Nat, Send(ackCh, RRPacket(n)), sstate' = sstate
       PROVE  Retrying' /\ count' <= errors'
  <2>1. RRPacket(n) \in Packet /\ RRPacket(n).ok
    BY <1>10, PacketTypes DEF RRPacket
  <2>2. \/ ackCh' = Append(ackCh, RRPacket(n)) /\ errors' = errors
        \/ /\ ackCh' = ackCh \/ \E q \in Packet : ackCh' = Append(ackCh, q)
           /\ errors' = errors + 1
    <3>1. Len(ackCh) < Capacity
      BY <1>5, ChannelAssumption
    <3>2. errors' \in Nat => ~(errors' > MaxCount)
      BY <1>1
    <3> QED BY <1>10, <2>1, <3>1, <3>2, AckSent
  <2>3. ASSUME NEW q \in Packet, ackCh' = Append(ackCh, q)
        PROVE  Len(ackCh') = 1 /\ DOMAIN ackCh' = {1} /\ ackCh'[1] = q
    BY <1>5, <2>3
  <2>4. CASE ackCh' = Append(ackCh, RRPacket(n)) /\ errors' = errors
    <3>1. Len(dataCh') + Len(ackCh') <= 1
      BY <1>6, <2>1, <2>3, <2>4
    <3>2. \E j \in DOMAIN ackCh' : ackCh'[j].ok
      BY <2>1, <2>3, <2>4
    <3>3. count' <= errors' /\ cstate' = "SEND_DATA" /\ MustWait' /\ sstate' = "RECV_DATA"
      BY <1>1, <1>2, <1>10, <2>4 DEF Retrying
    <3> QED BY <1>6, <3>1, <3>2, <3>3 DEF Retrying
  <2>5. CASE errors' = errors + 1
    <3>1. Len(ackCh') = 0 \/ Len(ackCh') = 1
      BY <1>5, <2>1, <2>2, <2>3
    <3>2. Len(dataCh') + Len(ackCh') <= 1
      BY <1>6, <3>1
    <3>3. count' # errors' /\ count' <= errors'
      BY <1>1, <1>2, <2>5
    <3>4. cstate' = "SEND_DATA" /\ MustWait' /\ sstate' = "RECV_DATA"
      BY <1>2, <1>10 DEF Retrying
    <3> QED BY <1>6, <3>2, <3>3, <3>4 DEF Retrying
  <2> QED BY <2>2, <2>4, <2>5
<1>11. CASE RecvExpected
  <2>1. dataCh[1].num = expected /\ LoopWindow(InsertPacket(sbuf, dataCh[1]), dataCh[1].len)
        /\ Send(ackCh, RRPacket(expected')) /\ sstate' = sstate
    BY <1>4, <1>11 DEF RecvExpected
  <2>2. expected' \in Nat
    BY <1>1, <2>1, PacketsAssumption DEF LoopWindow
  <2> QED BY <1>10, <2>1, <2>2
<1>12. CASE RecvDuplicate
  BY <1>1, <1>10, <1>12 DEF RecvDuplicate, serverVars
<1>13. ~RecvOutOfOrder
  BY <1>1, <1>4, <1>7 DEF RecvOutOfOrder, RecvIntact, Retrying, Packet
<1> QED BY <1>8, <1>9, <1>11, <1>12, <1>13 DEF ServerReceives

(* A packet at the server.                                                  *)
LEMMA ReceivesCounted ==
  ASSUME ~Unordered, IInv, OrderInv, EOFLast, LossCounted, cstate # "DONE",
         errors <= MaxCount, errors' <= MaxCount,
         Capacity >= WindowSize, ErrorsUnbounded => ErrorBudget > MaxCount,
         ServerReceives
  PROVE  LossCounted'
<1>1. /\ errors \in Nat /\ errors' \in Nat /\ errors <= errors' /\ count \in Nat
      /\ MaxCount \in Nat
  BY Counters, RcopyAssumption, ErrorsGrow
     DEF IInv, TypeOK, RcopyTypeOK, Next, ServerNext
<1>2. UNCHANGED <<count, cstate, status>>
  BY DEF ServerReceives, rcopyVars
<1>3. /\ status # "0" /\ sstate # "DONE" /\ count <= errors
      /\ errors = 0 => Unharmed
      /\ count > 0 => Retrying
  BY <1>1 DEF LossCounted
<1>4. sstate' # "DONE"
  <2>1. \A i \in Arrivals(dataCh) : Receive(dataCh, i) => dataCh[i] \in NoEOF
    BY ReceiveData DEF EOFLast
  <2>2. ~RecvEOF
    BY <2>1 DEF RecvEOF, NoEOF
  <2> QED BY <1>3, <2>2
          DEF ServerReceives, RecvCorrupt, RecvExpected, RecvDuplicate, RecvOutOfOrder, serverVars
<1>5. errors' = 0 => Unharmed'
  BY <1>1, <1>3, ReceiveUnharmed
<1>6. count' > 0 => Retrying'
  BY <1>1, <1>2, <1>3, ReceiveRetrying
<1>7. count' <= errors'
  BY <1>1, <1>2, <1>3
<1> QED BY <1>2, <1>3, <1>4, <1>5, <1>6, <1>7 DEF LossCounted

(* The server asks for packets: something was lost before.                  *)
LEMMA RecoversCounted ==
  ASSUME IInv, LossCounted, errors <= MaxCount, cstate # "DONE", ServerRecovers
  PROVE  LossCounted'
<1>1. /\ errors \in Nat /\ errors' \in Nat /\ errors <= errors' /\ count \in Nat
      /\ MaxCount \in Nat
  BY Counters, RcopyAssumption, ErrorsGrow
     DEF IInv, TypeOK, RcopyTypeOK, Next, ServerNext
<1>2. sstate = "RECOVER" /\ sstate' # "DONE" /\ UNCHANGED <<count, cstate, status>>
  BY DEF ServerRecovers, SendSREJ, RecoverDone, rcopyVars
<1>3. /\ status # "0" /\ count <= errors
      /\ errors # 0 /\ ~(count > 0)
  BY <1>1, <1>2 DEF LossCounted, Unharmed, Retrying
<1> QED BY <1>1, <1>2, <1>3 DEF LossCounted

(* The server process leaves only after one error too many.                 *)
LEMMA PatienceCounted ==
  ASSUME Patience > MaxCount, IInv, OrderInv, TimedInv, LossCounted, cstate # "DONE",
         errors <= MaxCount, PatienceEnds
  PROVE  FALSE
<1> USE TimingAssumption, RcopyAssumption
<1>1. errors \in Nat /\ count \in Nat /\ silence \in Nat
  BY Counters DEF IInv, TypeOK, RcopyTypeOK, TimedInv
<1>2. NothingUnderWay /\ MustWait /\ LastSecond /\ ~Spinning
  BY NeverSpins DEF PatienceEnds
<1>3. sstate = "RECV_DATA" /\ count < errors
  BY <1>2, SilenceHasCause
<1>4. silence >= MaxCount
  BY <1>1, <1>2 DEF LastSecond
<1>5. silence > 0 => silence <= count
  BY <1>3 DEF TimedInv, SilenceCounted
<1> QED BY <1>1, <1>3, <1>4, <1>5

(* Nothing is lost when the data phase starts.                              *)
LEMMA CountInit == Init => LossCounted
<1> SUFFICES ASSUME Init PROVE LossCounted
  OBVIOUS
<1>1. /\ lower = 0 /\ current = 0 /\ expected = 0 /\ count = 0 /\ errors = 0
      /\ dataCh = <<>> /\ ackCh = <<>> /\ sstate = "RECV_DATA" /\ status = "running"
      /\ sbuf = EmptyBuffer
  BY DEF Init, RcopyInit, ServerInit, ChannelInit
<1>2. Len(dataCh) = 0 /\ Len(ackCh) = 0
  BY <1>1
<1>3. Unharmed
  BY <1>1, <1>2 DEF Unharmed, EmptyBuffer
<1> QED BY <1>1, <1>3 DEF LossCounted

(* Every step keeps the count.                                              *)
LEMMA CountStep ==
  ASSUME ~Unordered, Patience > MaxCount, Capacity >= WindowSize,
         ErrorsUnbounded => ErrorBudget > MaxCount,
         IInv, OrderInv, TimedInv, LossCounted, [TimedNext]_timedVars, [Next]_vars
  PROVE  LossCounted'
<1>1. errors \in Nat /\ errors' \in Nat /\ errors <= errors' /\ MaxCount \in Nat
  BY Counters, ErrorsGrow, RcopyAssumption
<1> SUFFICES ASSUME errors' <= MaxCount PROVE LossCounted'
  BY <1>1 DEF LossCounted
<1>2. errors <= MaxCount /\ status # "0"
  BY <1>1 DEF LossCounted
<1>3. CASE cstate = "DONE"
  <2>1. ~RcopyNext
    BY <1>3
       DEF RcopyNext, RcopyTimeout, RcopyMoves, SendBlock, ReadEOF, Drain, DrainDone,
           AwaitAck, Spin, SendEOF, GiveUp, ResendLowest, InSendData, Spinning
  <2>2. UNCHANGED <<cstate, status>>
    BY <2>1
       DEF Next, Exited, ServerNext, ServerQuits, ServerReceives, ServerRecovers, rcopyVars, vars
  <2> QED BY <1>2, <1>3, <2>2 DEF LossCounted
<1>4. CASE cstate # "DONE"
  <2>1. CASE SecondPasses
    BY <1>2, <1>4, <2>1, TimeoutCounted
  <2>2. CASE RcopyMoves
    BY <1>2, <1>4, <2>2, MovesCounted
  <2>3. CASE PatienceEnds
    BY <1>2, <1>4, <2>3, PatienceCounted
  <2>4. CASE StartOver
    BY <1>2, <1>4, <2>4, ReceivesCounted DEF StartOver, TimedInv
  <2>5. CASE ServerRecovers
    BY <1>2, <1>4, <2>5, RecoversCounted
  <2>6. CASE Exited \/ UNCHANGED timedVars
    <3>1. UNCHANGED vars
      BY <2>6 DEF Exited, timedVars
    <3> QED BY <3>1
            DEF LossCounted, Unharmed, Retrying, vars, rcopyVars, serverVars, channelVars,
                MustWait, WindowOpen, CheckClosed, CheckFull, CheckLast
  <2> QED BY <2>1, <2>2, <2>3, <2>4, <2>5, <2>6 DEF TimedNext, TimedRcopy, TimedServer
<1> QED BY <1>3, <1>4

(* On a network that keeps the order, every timeout in a row is due to an   *)
(* error of its own (count of rcopy.c against what sendtoErr did).  The     *)
(* datagrams of one window must fit into the channels, and the bound on the *)
(* count must not hide an error.                                            *)
THEOREM TimeoutsExplained ==
  ASSUME ~Unordered, Patience > MaxCount, Capacity >= WindowSize,
         ErrorsUnbounded => ErrorBudget > MaxCount
  PROVE  TimedSpec => []LossCounted
<1>1. TimedSpec => [](IInv /\ OrderInv)
  BY TimedIsTransfer, Invariance, OrderKept, PTL
<1>2. TimedSpec => [][Next]_vars
  BY TimedIsTransfer, PTL DEF Spec
<1>3. IInv /\ OrderInv /\ TimedInv /\ LossCounted /\ [TimedNext]_timedVars /\ [Next]_vars
        => LossCounted'
  BY CountStep
<1>4. TimedInit => LossCounted
  BY CountInit DEF TimedInit
<1> QED BY <1>1, <1>2, <1>3, <1>4, TimersInStep, PTL DEF TimedSpec

(* There, rcopy ends with its message of failure only after more errors     *)
(* than the timeouts it survives, whatever else was lost and found again.   *)
THEOREM GivesUpLate ==
  ASSUME ~Unordered, Patience > MaxCount, Capacity >= WindowSize,
         ErrorsUnbounded => ErrorBudget > MaxCount
  PROVE  TimedSpec => []GivesUpOnlyAfterErrors
<1>1. LossCounted => GivesUpOnlyAfterErrors
  BY DEF LossCounted, GivesUpOnlyAfterErrors
<1> QED BY <1>1, TimeoutsExplained, PTL
==============================================================================
