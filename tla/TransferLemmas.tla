--------------------------- MODULE TransferLemmas ----------------------------
(***************************************************************************)
(* Facts about the operators Transfer is built from: the slots of a window,*)
(* the contents of a channel, the packets of the protocol.                 *)
(***************************************************************************)
EXTENDS TransferInv, SequenceTheorems, TLAPS

(* Every packet number has a slot (the indexing of window.c). *)
LEMMA SlotInIndex == \A n \in Nat : Slot(n) \in SlotIndex
  BY PacketsAssumption, SMT DEF Slot, SlotIndex

(* Two packets in one slot are a window or more apart, so within a window   *)
(* the slot determines the packet.                                          *)
LEMMA SlotUnique ==
  ASSUME NEW m \in Nat, NEW n \in Nat, m <= n, n < m + WindowSize, Slot(m) = Slot(n)
  PROVE  m = n
<1>1. /\ WindowSize \in Nat \ {0}
      /\ m % WindowSize = n % WindowSize
  BY PacketsAssumption DEF Slot
<1> DEFINE a == m \div WindowSize
           b == n \div WindowSize
<1>2. a \in Int /\ m = WindowSize * a + (m % WindowSize)
  BY <1>1, SMT
<1>3. b \in Int /\ n = WindowSize * b + (n % WindowSize)
  BY <1>1, SMT
<1> HIDE DEF a, b
<1>4. n - m = WindowSize * (b - a)
  BY <1>1, <1>2, <1>3, SMT
<1>5. b - a = 0
  <2>1. CASE b - a >= 1
    <3>1. WindowSize * (b - a) >= WindowSize
      BY <1>1, <1>2, <1>3, <2>1, SMT
    <3> QED BY <1>1, <1>4, <3>1
  <2>2. CASE b - a <= -1
    <3>1. WindowSize * (b - a) <= -WindowSize
      BY <1>1, <1>2, <1>3, <2>2, SMT
    <3> QED BY <1>1, <1>4, <3>1
  <2> QED BY <1>2, <1>3, <2>1, <2>2
<1> QED BY <1>1, <1>4, <1>5

(* A channel that takes one more packet holds what it held, and that        *)
(* packet.                                                                  *)
LEMMA DeliverType ==
  ASSUME NEW S, NEW ch \in Seq(S), NEW p \in S
  PROVE  Deliver(ch, p) \in Seq(S)
  BY DEF Deliver

(* A channel that loses a packet holds only packets it held before. *)
LEMMA RemoveAtType ==
  ASSUME NEW S, NEW ch \in Seq(S), NEW i \in DOMAIN ch
  PROVE  RemoveAt(ch, i) \in Seq(S)
<1>1. Len(ch) \in Nat /\ i \in 1 .. Len(ch)
  BY LenProperties
<1>2. /\ \A j \in 1 .. i - 1 : ch[j] \in S
      /\ \A j \in i + 1 .. Len(ch) : ch[j] \in S
  BY <1>1, ElementOfSeq
<1>3. SubSeq(ch, 1, i - 1) \in Seq(S)
  BY <1>1, <1>2, SubSeqProperties
<1>4. SubSeq(ch, i + 1, Len(ch)) \in Seq(S)
  BY <1>1, <1>2, SubSeqProperties
<1> QED BY <1>3, <1>4, ConcatProperties DEF RemoveAt

(* What the server receives was in its channel; what stays was there too. *)
LEMMA ReceiveData ==
  ASSUME NEW S, dataCh \in Seq(S), NEW i \in Arrivals(dataCh), Receive(dataCh, i)
  PROVE  dataCh[i] \in S /\ dataCh' \in Seq(S)
<1>1. i \in DOMAIN dataCh
  BY DEF Arrivals
<1>2. dataCh[i] \in S
  BY <1>1, ElementOfSeq, LenProperties
<1>3. dataCh' \in Seq(S)
  BY <1>1, RemoveAtType DEF Receive
<1> QED BY <1>2, <1>3

(* The same for rcopy. *)
LEMMA ReceiveAck ==
  ASSUME NEW S, ackCh \in Seq(S), NEW i \in Arrivals(ackCh), Receive(ackCh, i)
  PROVE  ackCh[i] \in S /\ ackCh' \in Seq(S)
<1>1. i \in DOMAIN ackCh
  BY DEF Arrivals
<1>2. ackCh[i] \in S
  BY <1>1, ElementOfSeq, LenProperties
<1>3. ackCh' \in Seq(S)
  BY <1>1, RemoveAtType DEF Receive
<1> QED BY <1>2, <1>3

(* The count of injected errors keeps its bound. *)
LEMMA CountErrorType ==
  ASSUME errors \in 0 .. ErrorBudget, CountError
  PROVE  errors' \in 0 .. ErrorBudget
  BY ChannelAssumption DEF CountError

(* sendtoErr by rcopy puts nothing into the channel but the packet or a     *)
(* flipped copy of it.                                                      *)
LEMMA SendData ==
  ASSUME NEW S, dataCh \in Seq(S), NEW p, p \in S, Flipped(p) \subseteq S,
         errors \in 0 .. ErrorBudget, Send(dataCh, p)
  PROVE  dataCh' \in Seq(S) /\ errors' \in 0 .. ErrorBudget
<1>1. CASE dataCh' = Deliver(dataCh, p) /\ errors' = errors
  BY <1>1, DeliverType
<1>2. CASE dataCh' = dataCh /\ CountError
  BY <1>2, CountErrorType
<1>3. ASSUME NEW q \in Flipped(p), dataCh' = Deliver(dataCh, q), CountError
      PROVE  dataCh' \in Seq(S) /\ errors' \in 0 .. ErrorBudget
  BY <1>3, DeliverType, CountErrorType
<1> QED BY <1>1, <1>2, <1>3 DEF Send

(* The same for the server. *)
LEMMA SendAck ==
  ASSUME NEW S, ackCh \in Seq(S), NEW p, p \in S, Flipped(p) \subseteq S,
         errors \in 0 .. ErrorBudget, Send(ackCh, p)
  PROVE  ackCh' \in Seq(S) /\ errors' \in 0 .. ErrorBudget
<1>1. CASE ackCh' = Deliver(ackCh, p) /\ errors' = errors
  BY <1>1, DeliverType
<1>2. CASE ackCh' = ackCh /\ CountError
  BY <1>2, CountErrorType
<1>3. ASSUME NEW q \in Flipped(p), ackCh' = Deliver(ackCh, q), CountError
      PROVE  ackCh' \in Seq(S) /\ errors' \in 0 .. ErrorBudget
  BY <1>3, DeliverType, CountErrorType
<1> QED BY <1>1, <1>2, <1>3 DEF Send

(* Every packet the programs build is a packet. *)
LEMMA PacketTypes ==
  /\ \A n \in Nat : /\ DataPacket(n) \in Packet
                     /\ RRPacket(n) \in Packet
                     /\ SREJPacket(n) \in Packet
                     /\ EOFPacket(n) \in Packet
  /\ NoPacket \in Packet
<1>1. \A n \in Nat : BlockLen(n) \in Nat
  BY PacketsAssumption DEF BlockLen
<1>2. \A n \in Nat : n % 256 \in Nat
  BY SMT
<1> QED BY <1>1, <1>2 DEF DataPacket, RRPacket, SREJPacket, EOFPacket, NoPacket, Packet, Flags

(* A flipped packet is a packet whose checksum fails. *)
LEMMA FlippedType ==
  ASSUME NEW p \in Packet
  PROVE  \A q \in Flipped(p) : q \in Packet /\ ~q.ok
<1> TAKE q \in Flipped(p)
<1>1. PICK f \in {p.flag, "GARBLED"} :
        q = [flag |-> f, num |-> 0, len |-> 0, ok |-> FALSE]
  BY DEF Flipped
<1>2. f \in Flags
  BY DEF Packet, Flags
<1>3. q.ok = FALSE
  BY <1>1
<1>4. q \in Packet
  BY <1>1, <1>2 DEF Packet
<1> QED BY <1>3, <1>4

(* What each program may send, intact or flipped, is in the set of what     *)
(* may be under way.                                                        *)
LEMMA SentPackets ==
  ASSUME current \in Nat, expected \in Nat
  PROVE  /\ \A n \in Nat : n < current => DataPacket(n) \in RcopySent
         /\ EOFPacket(current) \in RcopySent
         /\ \A n \in Nat : n <= expected => RRPacket(n) \in ServerSent
         /\ \A n \in Nat : n < current => SREJPacket(n) \in ServerSent
         /\ \A p \in RcopySent : Flipped(p) \subseteq RcopySent
         /\ \A p \in ServerSent : Flipped(p) \subseteq ServerSent
<1>1. \A n \in Nat : n < current => DataPacket(n) \in RcopySent
  BY PacketTypes DEF RcopySent, DataPacket
<1>2. EOFPacket(current) \in RcopySent
  BY PacketTypes DEF RcopySent, EOFPacket
<1>3. \A n \in Nat : n <= expected => RRPacket(n) \in ServerSent
  BY PacketTypes DEF ServerSent, RRPacket
<1>4. \A n \in Nat : n < current => SREJPacket(n) \in ServerSent
  BY PacketTypes DEF ServerSent, SREJPacket
<1>5. \A p \in RcopySent : Flipped(p) \subseteq RcopySent
  BY FlippedType DEF RcopySent
<1>6. \A p \in ServerSent : Flipped(p) \subseteq ServerSent
  BY FlippedType DEF ServerSent
<1> QED BY <1>1, <1>2, <1>3, <1>4, <1>5, <1>6

(* What may be under way stays so when the programs advance. *)
LEMMA SentGrows ==
  ASSUME current \in Nat, current' \in Nat, current <= current',
         expected \in Nat, expected' \in Nat, expected <= expected'
  PROVE  /\ RcopySent \subseteq RcopySent'
         /\ ServerSent \subseteq ServerSent'
<1>1. RcopySent \subseteq RcopySent'
  BY DEF RcopySent, Packet
<1>2. ServerSent \subseteq ServerSent'
  BY DEF ServerSent, Packet
<1> QED BY <1>1, <1>2

(* Hence the channels keep their contents legal when the programs advance. *)
LEMMA ChannelsGrow ==
  ASSUME current \in Nat, current' \in Nat, current <= current',
         expected \in Nat, expected' \in Nat, expected <= expected',
         ChannelInv
  PROVE  dataCh \in Seq(RcopySent') /\ ackCh \in Seq(ServerSent')
  BY SentGrows, SeqMonotonic DEF ChannelInv
==============================================================================
