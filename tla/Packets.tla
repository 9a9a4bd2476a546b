------------------------------- MODULE Packets -------------------------------
(***************************************************************************)
(* The packets of the protocol (packet.c, packet.h) and what one injected  *)
(* error makes of a packet (libcpe464/MsgEvents/errorFlipBits.cpp).        *)
(*                                                                         *)
(* A packet is abstracted to what its receivers look at: the flag, the one *)
(* number the flag calls for (sequence number, RR number or SREJ number),  *)
(* the payload length, and whether in_cksum over it yields 0.  The payload *)
(* of data packet n is block n of the file, so it needs no field.  The     *)
(* server's own sequence number in RR and SREJ packets is left out: rcopy  *)
(* never reads it.                                                         *)
(***************************************************************************)
EXTENDS Integers

CONSTANTS
  WindowSize,   \* window-size argument: packets the window holds
  Blocks,       \* how many blocks fread() yields for the file being copied
  BufferSize,   \* buffer-size argument: bytes in every block but the last
  LastLen       \* bytes in the last block

ASSUME PacketsAssumption ==
  /\ WindowSize \in Nat \ {0}
  /\ Blocks \in Nat
  /\ BufferSize \in Nat \ {0}
  /\ LastLen \in 1 .. BufferSize

Flags == {"DATA_PACKET", "RR", "SREJ", "EOF_FLAG", "GARBLED"}

Packet == [flag : Flags, num : Nat, len : Nat, ok : BOOLEAN]

BlockLen(n) == IF n = Blocks - 1 THEN LastLen ELSE BufferSize

DataPacket(n) ==
  [flag |-> "DATA_PACKET", num |-> n, len |-> BlockLen(n), ok |-> TRUE]

RRPacket(n)   == [flag |-> "RR",   num |-> n, len |-> 0, ok |-> TRUE]
SREJPacket(n) == [flag |-> "SREJ", num |-> n, len |-> 0, ok |-> TRUE]

\* send_EOF_pkt takes its sequence number as a uint8_t.
EOFPacket(n)  == [flag |-> "EOF_FLAG", num |-> n % 256, len |-> 0, ok |-> TRUE]

(***************************************************************************)
(* errorFlipBits inverts one byte.  The checksum of the packet then fails, *)
(* and no receiver looks at a packet whose checksum fails beyond its flag, *)
(* so the other fields are normalised away.  An inverted flag byte is none *)
(* of the flags the programs know: 3, 5, 6 and 10 become 252, 250, 249 and *)
(* 245.                                                                    *)
(***************************************************************************)
Flipped(p) ==
  { [flag |-> f, num |-> 0, len |-> 0, ok |-> FALSE] : f \in {p.flag, "GARBLED"} }
=============================================================================
