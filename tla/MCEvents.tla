------------------------------ MODULE MCEvents -------------------------------
(***************************************************************************)
(* Values of the list variables for TLC: no usable number, several         *)
(* numbers, several with something else among them.                        *)
(***************************************************************************)
EXTENDS EventsInv

AnyDropLists == {<<-1>>, <<3, 1>>, <<1, Text, 3>>}
AnyFlipLists == {<<Text>>, <<2, 3>>}
=============================================================================
