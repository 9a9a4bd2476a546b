------------------------------- MODULE Channel -------------------------------
(***************************************************************************)
(* The datagrams between rcopy and its server process: one channel each    *)
(* way, holding what is in flight or waits in the receiving socket.        *)
(*                                                                         *)
(* Every send goes through sendtoErr (safeUtil.c, PacketManager.cpp),      *)
(* which may drop the packet or invert one byte of it; beyond that the     *)
(* channel is UDP's.  With Unordered = FALSE it is the loopback interface  *)
(* the programs are tested on, where datagrams keep their order; with      *)
(* Unordered = TRUE datagrams overtake one another and arrive twice.  A    *)
(* datagram that finds Capacity others before it is dropped, as by a full  *)
(* socket buffer.                                                          *)
(***************************************************************************)
EXTENDS Window, Sequences, SequencesExt

CONSTANTS
  Capacity,         \* datagrams a channel holds
  Unordered,        \* may datagrams be reordered and duplicated?
  ErrorsUnbounded,  \* may sendtoErr always inject another error?
  ErrorBudget       \* if not, how many errors it injects; also the bound on
                    \* what "errors" counts to

ASSUME ChannelAssumption ==
  /\ Capacity \in Nat \ {0}
  /\ Unordered \in BOOLEAN
  /\ ErrorsUnbounded \in BOOLEAN
  /\ ErrorBudget \in Nat

VARIABLES
  dataCh,   \* from rcopy to the server process
  ackCh,    \* from the server process to rcopy
  errors    \* errors injected so far

channelVars == <<dataCh, ackCh, errors>>

ChannelInit ==
  /\ dataCh = <<>>
  /\ ackCh = <<>>
  /\ errors = 0

ChannelTypeOK ==
  /\ dataCh \in Seq(Packet)
  /\ ackCh \in Seq(Packet)
  /\ errors \in 0 .. ErrorBudget

Deliver(ch, p) == IF Len(ch) < Capacity THEN Append(ch, p) ELSE ch

CountError ==
  \/ /\ errors < ErrorBudget
     /\ errors' = errors + 1
  \/ /\ errors = ErrorBudget
     /\ ErrorsUnbounded
     /\ errors' = errors

(***************************************************************************)
(* sendtoErr: processEvents leaves the packet alone, drops it, or flips a  *)
(* byte of it.                                                             *)
(***************************************************************************)
Send(ch, p) ==
  \/ /\ ch' = Deliver(ch, p)
     /\ errors' = errors
  \/ /\ \/ ch' = ch
        \/ \E q \in Flipped(p) : ch' = Deliver(ch, q)
     /\ CountError

\* The datagrams recvfrom may return next.
Arrivals(ch) == IF Unordered THEN DOMAIN ch ELSE DOMAIN ch \cap {1}

Receive(ch, i) ==
  \/ ch' = RemoveAt(ch, i)
  \/ Unordered /\ ch' = ch
=============================================================================
