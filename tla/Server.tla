------------------------------- MODULE Server --------------------------------
(***************************************************************************)
(* The data phase of a server process: the RECV_DATA state of              *)
(* process_client, which calls recv_data until it returns DONE (server.c). *)
(* The server buffers packets that came too early, asks for the ones in    *)
(* between, and writes the file in order.                                  *)
(***************************************************************************)
EXTENDS Channel

VARIABLES
  sstate,     \* RECV_DATA, RECOVER (the loop of recover_packet), DONE
  expected,   \* the global seq_num: the next block to write
  highest,    \* the global highest_seq: packets below it have been asked for
  sbuf,       \* the window's buffer
  srejNext,   \* recover_packet's loop variable, 0 outside the loop
  recvSeq,    \* recover_packet's recv_seq, 0 outside the loop
  asked,      \* history: packets asked for and not written yet
  written     \* what fwrite put into the file: blocks with their lengths

serverVars == <<sstate, expected, highest, sbuf, srejNext, recvSeq, asked, written>>

WrittenBlock == [block : Nat, len : Nat]

ServerInit ==
  /\ sstate = "RECV_DATA"
  /\ expected = 0
  /\ highest = 0
  /\ sbuf = EmptyBuffer
  /\ srejNext = 0
  /\ recvSeq = 0
  /\ asked = {}
  /\ written = <<>>

ServerTypeOK ==
  /\ sstate \in {"RECV_DATA", "RECOVER", "DONE"}
  /\ expected \in Nat
  /\ highest \in Nat
  /\ sbuf \in Buffers
  /\ srejNext \in Nat
  /\ recvSeq \in Nat
  /\ asked \in SUBSET Nat
  /\ written \in Seq(WrittenBlock)

MaxOf(x, y) == IF x > y THEN x ELSE y

\* Variant: set_valid is forgotten, so slots stay valid.
LoopWindowKeeping(buf, recvLen) ==
  \E k \in 1 .. WindowSize :
    /\ \A j \in 0 .. k - 1 : GetValid(buf, expected + j)
    /\ k < WindowSize => ~GetValid(buf, expected + k)
    /\ written' = written \o
         [j \in 1 .. k |-> [block |-> ReadPacket(buf, expected + j - 1).num,
                            len |-> recvLen]]
    /\ sbuf' = buf
    /\ expected' = expected + k

(***************************************************************************)
(* loop_window: write and release slot after slot from "expected" on until *)
(* one is not valid.  The loop ends after at most WindowSize turns, when   *)
(* it comes back to the slot it released first.  Every block is written    *)
(* with the payload length of the packet that was just received, recvLen.  *)
(***************************************************************************)
LoopWindow(buf, recvLen) ==
  \E k \in 1 .. WindowSize :
    /\ \A j \in 0 .. k - 1 : GetValid(buf, expected + j)
    /\ k < WindowSize => ~GetValid(buf, expected + k)
    /\ written' = written \o
         [j \in 1 .. k |-> [block |-> ReadPacket(buf, expected + j - 1).num,
                            len |-> recvLen]]
    /\ sbuf' = [i \in SlotIndex |->
                  IF \E j \in 0 .. k - 1 : i = Slot(expected + j)
                  THEN [buf[i] EXCEPT !.valid = FALSE]
                  ELSE buf[i]]
    /\ expected' = expected + k

\* Variant: the server goes on waiting.
ServerWaitsOn == sstate = "RECV_DATA" /\ UNCHANGED <<serverVars, channelVars>>

(* pollCall(10000) times out. *)
ServerTimeout ==
  /\ sstate = "RECV_DATA"
  /\ sstate' = "DONE"
  /\ UNCHANGED <<expected, highest, sbuf, srejNext, recvSeq, asked, written, channelVars>>

(* EOF: the flag is looked at before the checksum. *)
RecvEOF ==
  /\ sstate = "RECV_DATA"
  /\ \E i \in Arrivals(dataCh) :
       /\ dataCh[i].flag = "EOF_FLAG"
       /\ Receive(dataCh, i)
  /\ sstate' = "DONE"
  /\ UNCHANGED <<expected, highest, sbuf, srejNext, recvSeq, asked, written, ackCh, errors>>

(* A corrupt packet is ignored. *)
RecvCorrupt ==
  /\ sstate = "RECV_DATA"
  /\ \E i \in Arrivals(dataCh) :
       /\ dataCh[i].flag # "EOF_FLAG"
       /\ ~dataCh[i].ok
       /\ Receive(dataCh, i)
  /\ UNCHANGED <<serverVars, ackCh, errors>>

(* A packet that passes the EOF and checksum tests of recv_data. *)
RecvIntact(i) ==
  /\ sstate = "RECV_DATA"
  /\ dataCh[i].flag # "EOF_FLAG"
  /\ dataCh[i].ok
  /\ Receive(dataCh, i)

\* Variant: HEADER_LEN is not taken off the length of the datagram.
RecvWithHeader ==
  \E i \in Arrivals(dataCh) :
    /\ RecvIntact(i)
    /\ dataCh[i].num = expected
    /\ LoopWindow(InsertPacket(sbuf, dataCh[i]), dataCh[i].len + 7)
    /\ Send(ackCh, RRPacket(expected'))
    /\ asked' = { n \in asked : n >= expected' }
    /\ UNCHANGED <<sstate, highest, srejNext, recvSeq>>

(* The expected packet: write what can be written, then acknowledge. *)
RecvExpected ==
  \E i \in Arrivals(dataCh) :
    /\ RecvIntact(i)
    /\ dataCh[i].num = expected
    /\ LoopWindow(InsertPacket(sbuf, dataCh[i]), dataCh[i].len)
    /\ Send(ackCh, RRPacket(expected'))
    /\ asked' = { n \in asked : n >= expected' }
    /\ UNCHANGED <<sstate, highest, srejNext, recvSeq>>

\* Variant: duplicates are not acknowledged.
IgnoreDuplicate ==
  \E i \in Arrivals(dataCh) :
    /\ RecvIntact(i)
    /\ dataCh[i].num < expected
    /\ UNCHANGED <<serverVars, ackCh, errors>>

\* Variant: the duplicate itself is acknowledged, not all that was written.
AckDuplicate ==
  \E i \in Arrivals(dataCh) :
    /\ RecvIntact(i)
    /\ dataCh[i].num < expected
    /\ Send(ackCh, RRPacket(dataCh[i].num + 1))
    /\ UNCHANGED serverVars

\* Variant: the acknowledgement names the packet after the missing one.
AckTooMuch ==
  \E i \in Arrivals(dataCh) :
    /\ RecvIntact(i)
    /\ dataCh[i].num < expected
    /\ Send(ackCh, RRPacket(expected + 1))
    /\ UNCHANGED serverVars

(* A packet already written is acknowledged again. *)
RecvDuplicate ==
  \E i \in Arrivals(dataCh) :
    /\ RecvIntact(i)
    /\ dataCh[i].num < expected
    /\ Send(ackCh, RRPacket(expected))
    /\ UNCHANGED serverVars

\* Variant: "highest_seq = max(highest_seq, seq_num)" is missing.
RecoverFromStale ==
  \E i \in Arrivals(dataCh) :
    /\ RecvIntact(i)
    /\ dataCh[i].num > expected
    /\ sbuf' = InsertPacket(sbuf, dataCh[i])
    /\ srejNext' = highest
    /\ recvSeq' = dataCh[i].num
    /\ sstate' = "RECOVER"
    /\ UNCHANGED <<expected, highest, asked, written, ackCh, errors>>

\* Variant: the loop starts at the packet expected whatever was asked for.
RecoverFromExpected ==
  \E i \in Arrivals(dataCh) :
    /\ RecvIntact(i)
    /\ dataCh[i].num > expected
    /\ sbuf' = InsertPacket(sbuf, dataCh[i])
    /\ highest' = MaxOf(highest, expected)
    /\ srejNext' = expected
    /\ recvSeq' = dataCh[i].num
    /\ sstate' = "RECOVER"
    /\ UNCHANGED <<expected, asked, written, ackCh, errors>>

(* A packet that came too early is kept; recover_packet starts its loop. *)
RecvOutOfOrder ==
  \E i \in Arrivals(dataCh) :
    /\ RecvIntact(i)
    /\ dataCh[i].num > expected
    /\ sbuf' = InsertPacket(sbuf, dataCh[i])
    /\ highest' = MaxOf(highest, expected)
    /\ srejNext' = MaxOf(highest, expected)
    /\ recvSeq' = dataCh[i].num
    /\ sstate' = "RECOVER"
    /\ UNCHANGED <<expected, asked, written, ackCh, errors>>

(* One turn of the loop: ask for packet srejNext. *)
SendSREJ ==
  /\ sstate = "RECOVER"
  /\ srejNext < recvSeq
  /\ Send(ackCh, SREJPacket(srejNext))
  /\ srejNext' = srejNext + 1
  /\ asked' = asked \union {srejNext}
  /\ UNCHANGED <<sstate, expected, highest, sbuf, recvSeq, written, dataCh>>

\* Variant: the "+ 1" is missing.
RecoverDoneShort ==
  /\ sstate = "RECOVER"
  /\ srejNext >= recvSeq
  /\ highest' = MaxOf(highest, recvSeq)
  /\ srejNext' = 0
  /\ recvSeq' = 0
  /\ sstate' = "RECV_DATA"
  /\ UNCHANGED <<expected, sbuf, asked, written, channelVars>>

(* The loop is over. *)
RecoverDone ==
  /\ sstate = "RECOVER"
  /\ srejNext >= recvSeq
  /\ highest' = MaxOf(highest, recvSeq + 1)
  /\ srejNext' = 0
  /\ recvSeq' = 0
  /\ sstate' = "RECV_DATA"
  /\ UNCHANGED <<expected, sbuf, asked, written, channelVars>>
=============================================================================
