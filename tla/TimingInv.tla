----------------------------- MODULE TimingInv -------------------------------
(***************************************************************************)
(* The invariants of Timing: what the server process's silence has to do   *)
(* with rcopy's timeouts, and the timeouts with the errors behind them.    *)
(***************************************************************************)
EXTENDS Timing, TransferInv

\* rcopy waits for an answer, and none is under way.
Listening == cstate = "SEND_DATA" /\ MustWait /\ ackCh = <<>>

\* Nobody sends EOF but an rcopy that is done.
NoEOF == { p \in Packet : p.flag # "EOF_FLAG" }

EOFLast == cstate # "DONE" => dataCh \in Seq(NoEOF)

\* Every second of silence is a timeout that rcopy has counted.
SilenceCounted ==
  silence > 0 /\ sstate # "DONE" /\ cstate # "DONE"
    => Listening /\ sstate = "RECV_DATA" /\ silence <= count

\* A server process that is gone leaves rcopy in its last second, or spinning.
GoneLate ==
  sstate = "DONE" /\ cstate # "DONE"
    => Spinning \/ (Listening /\ count >= MaxCount)

\* Nothing has gone wrong: every packet is under way, or its answer is.
Unharmed ==
  /\ count = 0
  /\ sstate = "RECV_DATA"
  /\ \A i \in SlotIndex : ~sbuf[i].valid
  /\ Len(dataCh) = current - expected
  /\ \A i \in 1 .. current - expected : dataCh[i] = DataPacket(expected + i - 1)
  /\ Len(ackCh) = expected - lower
  /\ \A i \in 1 .. expected - lower : ackCh[i] = RRPacket(lower + i)

\* After a timeout at most one packet is under way: the one sent again, its
\* answer, or neither when there was one more error than timeouts.
Retrying ==
  /\ cstate = "SEND_DATA" /\ MustWait
  /\ sstate = "RECV_DATA"
  /\ Len(dataCh) + Len(ackCh) <= 1
  /\ \A i \in DOMAIN dataCh : dataCh[i].ok => dataCh[i].num <= expected
  /\ count = errors => \/ \E i \in DOMAIN dataCh : dataCh[i].ok
                       \/ \E i \in DOMAIN ackCh : ackCh[i].ok

(* Every timeout in a row (count of send_data) is due to a packet of its    *)
(* own that sendtoErr dropped or flipped, since the last answer or before.  *)
LossCounted ==
  \/ errors > MaxCount
  \/ /\ status # "0"
     /\ cstate # "DONE" =>
          /\ sstate # "DONE"
          /\ errors = 0 => Unharmed
          /\ count <= errors
          /\ count > 0 => Retrying

(* The timers of the two programs (pollCall(1000) of rcopy.c, pollCall      *)
(* (10000) of server.c) are never out of step: the process's wait does not  *)
(* run ahead of the timeouts that rcopy has counted.                        *)
TimedInv == silence \in Nat /\ EOFLast /\ SilenceCounted /\ GoneLate
==============================================================================
