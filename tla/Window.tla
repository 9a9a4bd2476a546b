------------------------------- MODULE Window --------------------------------
(***************************************************************************)
(* The circular buffer of window.c: WindowSize slots, packet n in slot     *)
(* n % WindowSize.  rcopy keeps the packets it may have to send again in   *)
(* one, the server the packets that came too early.  Neither program       *)
(* checks what a slot already holds when it inserts, nor which packet it   *)
(* gets when it reads.                                                     *)
(***************************************************************************)
EXTENDS Packets

SlotIndex == 0 .. WindowSize - 1

\* init_buffer leaves the packet bytes as malloc returned them, with length 0.
NoPacket == [flag |-> "GARBLED", num |-> 0, len |-> 0, ok |-> FALSE]

Buffers == [SlotIndex -> [valid : BOOLEAN, pkt : Packet]]

EmptyBuffer == [i \in SlotIndex |-> [valid |-> FALSE, pkt |-> NoPacket]]

Slot(n) == n % WindowSize

InsertPacket(buf, p) == [buf EXCEPT ![Slot(p.num)] = [valid |-> TRUE, pkt |-> p]]

ReadPacket(buf, n) == buf[Slot(n)].pkt

GetValid(buf, n) == buf[Slot(n)].valid
=============================================================================
