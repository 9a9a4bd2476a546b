---------------------------- MODULE MCPacketBytes ----------------------------
(***************************************************************************)
(* Values for TLC: bytes at both ends of their range, the one in the       *)
(* middle, and 253, with which the carries of a sum over ones carry again; *)
(* names that fit the receiver's buffer, one that does not, and one whose  *)
(* length does not fit a uint8_t.                                          *)
(***************************************************************************)
EXTENDS PacketBytes

SomeBytes == {0, 127, 253, 255}

SomeNumbers ==
  { [i \in 1 .. 4 |-> IF i = k THEN b ELSE 0] : k \in 1 .. 4, b \in {1, 255} }
    \union {Zero, <<255, 255, 255, 255>>, <<1, 2, 3, 4>>}

SomePayloads == UNION { [1 .. n -> SomeBytes] : n \in 1 .. 4 }

Letters(n) == [i \in 1 .. n |-> 97 + (i % 26)]

SomeNames == {<<97>>, <<97, 98, 255>>, Letters(99), Letters(100), Letters(258)}
=============================================================================
