------------------------------ MODULE Transfer -------------------------------
(***************************************************************************)
(* The data phase of one copy: rcopy in SEND_DATA and its server process   *)
(* in RECV_DATA, joined by the two channels.  It starts where rcopy has    *)
(* accepted OK_FILENAME from the server process.                           *)
(***************************************************************************)
EXTENDS Rcopy, Server

vars == <<rcopyVars, serverVars, channelVars>>

Init == RcopyInit /\ ServerInit /\ ChannelInit

(* A wait may end with its timeout whenever it is on, as if answers could   *)
(* take any time; module Timing has the timers.                            *)
RcopyTimeout == ResendLowest /\ UNCHANGED serverVars

RcopyMoves ==
  /\ \/ SendBlock \/ ReadEOF \/ Drain \/ DrainDone
     \/ AwaitAck \/ Spin \/ SendEOF \/ GiveUp
  /\ UNCHANGED serverVars

RcopyNext == RcopyTimeout \/ RcopyMoves

ServerQuits == ServerTimeout /\ UNCHANGED rcopyVars

ServerReceives ==
  /\ \/ RecvEOF \/ RecvCorrupt \/ RecvExpected \/ RecvDuplicate \/ RecvOutOfOrder
  /\ UNCHANGED rcopyVars

ServerRecovers == (SendSREJ \/ RecoverDone) /\ UNCHANGED rcopyVars

ServerNext == ServerQuits \/ ServerReceives \/ ServerRecovers

BothDone == cstate = "DONE" /\ sstate = "DONE"

\* Both processes have exited; the disjunct keeps TLC from calling it deadlock.
Exited == BothDone /\ UNCHANGED vars

Next == RcopyNext \/ ServerNext \/ Exited

Spec == Init /\ [][Next]_vars

(***************************************************************************)
(* Fairness.  Each program is a single thread that the system schedules,   *)
(* and each of its waits ends: by a datagram or by its timeout.  Nothing   *)
(* is assumed of the network.                                              *)
(***************************************************************************)
FairSpec ==
  /\ Spec
  /\ WF_vars(RcopyNext)
  /\ WF_vars(ServerNext)

TypeOK == RcopyTypeOK /\ ServerTypeOK /\ ChannelTypeOK

-----------------------------------------------------------------------------
(* Safety, for every network Channel describes. *)

SourceFile == [i \in 1 .. Blocks |-> [block |-> i - 1, len |-> BlockLen(i - 1)]]

(* What the server has written is the front of the source file, block for  *)
(* block; only the length of the very last block is left open (see         *)
(* CopyPaddedAtMost).  loop_window, recv_data.                             *)
WrittenInOrder ==
  /\ Len(written) = expected
  /\ expected <= Blocks
  /\ \A i \in 1 .. expected :
       /\ written[i].block = i - 1
       /\ i < Blocks => written[i] = SourceFile[i]

(* The two ends of the protocol stay within one window of each other,      *)
(* whatever the network does: rcopy's lower edge is never above what the   *)
(* server has written, nor what it sent more than a window ahead of it.    *)
WindowBounds ==
  /\ lower <= expected
  /\ expected <= current
  /\ current <= expected + WindowSize

(* insert_packet never overwrites a packet the server still has to write:  *)
(* an intact packet under way to a valid slot is the one the slot holds.   *)
NothingClobbered ==
  \A i \in DOMAIN dataCh :
    LET p == dataCh[i] IN
    p.ok /\ p.flag = "DATA_PACKET" /\ p.num >= expected /\ GetValid(sbuf, p.num)
      => ReadPacket(sbuf, p.num) = p

(* recover_packet asks only for packets that are missing: neither written  *)
(* nor waiting in the buffer.                                              *)
AsksForMissing ==
  sstate = "RECOVER" /\ srejNext < recvSeq
    => srejNext >= expected /\ ~GetValid(sbuf, srejNext)

(* Every gap is asked for, and once: recover_packet asks for nothing it has *)
(* asked for before, and when the server waits again, each packet below     *)
(* highest_seq that is missing has been asked for, over several gaps that   *)
(* open, are filled and close in any order.                                 *)
GapsAskedForOnce ==
  /\ sstate = "RECOVER" /\ srejNext < recvSeq => srejNext \notin asked
  /\ sstate = "RECV_DATA" =>
       \A n \in expected .. highest - 1 : n \in asked \/ GetValid(sbuf, n)

(* How far a copy that rcopy reports complete can be from its source: the   *)
(* last block may have the length of the others, as when loop_window writes *)
(* it on the arrival of one of them.  Nothing is missing, cut off or moved. *)
WholeBlocks == [i \in 1 .. Blocks |-> [block |-> i - 1, len |-> BufferSize]]

CopyPaddedAtMost == status = "1" => written \in {SourceFile, WholeBlocks}

(* The copy as its user sees it: blocks appended in order, success         *)
(* reported only over a complete copy.                                     *)
FrontOfFile(n) == [i \in 1 .. n |-> i - 1]

CopyMade == [i \in DOMAIN written |-> written[i].block]

Outcome == CASE status = "running" -> "copying"
             [] status = "1" -> "copied"
             [] status = "0" -> "abandoned"

FC == INSTANCE FileCopy WITH
        File <- FrontOfFile(Blocks), out <- CopyMade, outcome <- Outcome

CopiesFile == FC!Spec

-----------------------------------------------------------------------------
(* Safety that needs the order of datagrams to be kept. *)

(* rcopy still holds every packet that is not acknowledged, so a timeout   *)
(* sends the packet the server needs.  read_packet does not check.         *)
UnackedHeld ==
  \A n \in lower .. current - 1 : ReadPacket(cbuf, n) = DataPacket(n)

(* rcopy answers an SREJ with the packet asked for, though the request was *)
(* made before the RRs that arrive ahead of it let the window slide on.    *)
SREJAnswered ==
  cstate # "DONE" /\ ackCh # <<>> /\ ackCh[1].ok /\ ackCh[1].flag = "SREJ"
    => ReadPacket(cbuf, ackCh[1].num) = DataPacket(ackCh[1].num)

(* slide_window takes any RR, but rcopy's window never slides back.        *)
NeverSlidesBack == [][lower' >= lower /\ upper' >= upper]_vars

-----------------------------------------------------------------------------
(* Whatever the network loses, delays or corrupts, both programs exit.     *)
BothExit == <>BothDone

-----------------------------------------------------------------------------
(* What the repository says of the programs. *)

(* testRandError.sh compares the file and its copy with diff.              *)
CopyIdentical == status = "1" => written = SourceFile

(* "hang 1 second resend data": before the end of the file, rcopy with a   *)
(* closed window waits for an answer and sends again.                      *)
ClosedWindowWaits ==
  InSendData /\ CheckClosed /\ ~readEOF => MustWait
=============================================================================
