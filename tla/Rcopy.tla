-------------------------------- MODULE Rcopy --------------------------------
(***************************************************************************)
(* The data phase of rcopy: the SEND_DATA state of processFile, which      *)
(* calls send_data until it returns DONE (rcopy.c), over the window        *)
(* functions of window.c.                                                  *)
(***************************************************************************)
EXTENDS Channel

CONSTANT MaxCount   \* the 9 of "count > 9": timeouts in a row that are survived

ASSUME RcopyAssumption == MaxCount \in Nat

VARIABLES
  cstate,     \* SEND_DATA, DRAIN (its pollCall(0) loop), DONE
  count,      \* the global count: timeouts since the last sign of life
  readEOF,    \* the global read_EOF
  lower, current, upper,   \* the window
  cbuf,       \* the window's buffer
  status      \* running, or the exit status of the process

rcopyVars == <<cstate, count, readEOF, lower, current, upper, cbuf, status>>

RcopyInit ==
  /\ cstate = "SEND_DATA"
  /\ count = 0
  /\ readEOF = FALSE
  /\ lower = 0
  /\ current = 0
  /\ upper = WindowSize
  /\ cbuf = EmptyBuffer
  /\ status = "running"

RcopyTypeOK ==
  /\ cstate \in {"SEND_DATA", "DRAIN", "DONE"}
  /\ count \in 0 .. MaxCount + 1
  /\ readEOF \in BOOLEAN
  /\ lower \in Nat
  /\ current \in Nat
  /\ upper \in Nat
  /\ cbuf \in Buffers
  /\ status \in {"running", "0", "1"}

CheckLast == lower = current

CheckFull == current = upper

\* Variant: one packet too many fits.
CheckClosedLate == current > upper

CheckClosed == current >= upper

SlideWindow(newLower) ==
  /\ upper' = newLower + WindowSize
  /\ lower' = newLower

-----------------------------------------------------------------------------
(* The tests at the head of processFile's loop and of send_data. *)

\* Variant: processFile forgets to look at count.
InSendDataForever == cstate = "SEND_DATA"

InSendData == cstate = "SEND_DATA" /\ count <= MaxCount

WindowOpen == ~CheckClosed /\ ~readEOF

MustWait ==
  /\ ~WindowOpen
  /\ CheckFull \/ (readEOF /\ ~CheckLast)

\* Variant: the whole file is sent, acknowledged or not.
AllSent == ~WindowOpen /\ readEOF

AllAcked ==
  /\ ~WindowOpen
  /\ ~MustWait
  /\ CheckLast /\ readEOF

\* Variant: insert_packet is forgotten.
SendUnbuffered ==
  /\ InSendData
  /\ WindowOpen
  /\ current < Blocks
  /\ Send(dataCh, DataPacket(current))
  /\ current' = current + 1
  /\ count' = 0
  /\ cstate' = "DRAIN"
  /\ UNCHANGED <<readEOF, lower, upper, cbuf, status, ackCh>>

(* The window is open and fread returns block number "current". *)
SendBlock ==
  /\ InSendData
  /\ WindowOpen
  /\ current < Blocks
  /\ Send(dataCh, DataPacket(current))
  /\ cbuf' = InsertPacket(cbuf, DataPacket(current))
  /\ current' = current + 1
  /\ count' = 0
  /\ cstate' = "DRAIN"
  /\ UNCHANGED <<readEOF, lower, upper, status, ackCh>>

(* The window is open and fread returns 0. *)
ReadEOF ==
  /\ InSendData
  /\ WindowOpen
  /\ current >= Blocks
  /\ readEOF' = TRUE
  /\ cstate' = "DRAIN"
  /\ UNCHANGED <<count, lower, current, upper, cbuf, status, channelVars>>

(* CsafeRecvfrom of the datagram at i, the checksum test, and check_flag. *)
CheckFlag(i) ==
  LET p == ackCh[i] IN
  /\ Receive(ackCh, i)
  /\ \/ /\ p.ok /\ p.flag = "RR"
        /\ SlideWindow(p.num)
        /\ count' = 0
        /\ UNCHANGED <<dataCh, errors>>
     \/ /\ p.ok /\ p.flag = "SREJ"
        /\ Send(dataCh, ReadPacket(cbuf, p.num))
        /\ count' = 0
        /\ UNCHANGED <<lower, upper>>
     \/ /\ ~(p.ok /\ p.flag \in {"RR", "SREJ"})
        /\ UNCHANGED <<lower, upper, count, dataCh, errors>>
  /\ UNCHANGED <<readEOF, current, cbuf, status>>

(* One turn of "while ((socket = pollCall(0)) >= 0)". *)
Drain ==
  /\ cstate = "DRAIN"
  /\ \E i \in Arrivals(ackCh) : CheckFlag(i)
  /\ UNCHANGED cstate

(* pollCall(0) finds nothing: what is in flight has not arrived yet. *)
DrainDone ==
  /\ cstate = "DRAIN"
  /\ cstate' = "SEND_DATA"
  /\ UNCHANGED <<count, readEOF, lower, current, upper, cbuf, status, channelVars>>

(* pollCall(1000) returns the socket. *)
AwaitAck ==
  /\ InSendData
  /\ MustWait
  /\ \E i \in Arrivals(ackCh) : CheckFlag(i)
  /\ UNCHANGED cstate

\* Variant: the latest packet is sent again.
ResendHighest ==
  /\ InSendData
  /\ MustWait
  /\ Send(dataCh, ReadPacket(cbuf, current - 1))
  /\ count' = count + 1
  /\ UNCHANGED <<cstate, readEOF, lower, current, upper, cbuf, status, ackCh>>

(* pollCall(1000) times out: the lowest packet is sent again. *)
ResendLowest ==
  /\ InSendData
  /\ MustWait
  /\ Send(dataCh, ReadPacket(cbuf, lower))
  /\ count' = count + 1
  /\ UNCHANGED <<cstate, readEOF, lower, current, upper, cbuf, status, ackCh>>

(* Everything is acknowledged: send_EOF_pkt, and main returns 1. *)
SendEOF ==
  /\ InSendData
  /\ AllAcked
  /\ Send(dataCh, EOFPacket(current))
  /\ cstate' = "DONE"
  /\ status' = "1"
  /\ UNCHANGED <<count, readEOF, lower, current, upper, cbuf, ackCh>>

(* No branch applies: rcopy has slid its window back below "current" and    *)
(* calls send_data over and over, which neither polls nor sends.           *)
Spinning == InSendData /\ ~WindowOpen /\ ~MustWait /\ ~AllAcked

Spin == Spinning /\ UNCHANGED <<rcopyVars, channelVars>>

(* "if (count > 9)": the loop takes its DONE case, exit(0). *)
GiveUp ==
  /\ cstate = "SEND_DATA"
  /\ count > MaxCount
  /\ cstate' = "DONE"
  /\ status' = "0"
  /\ UNCHANGED <<count, readEOF, lower, current, upper, cbuf, channelVars>>
=============================================================================
