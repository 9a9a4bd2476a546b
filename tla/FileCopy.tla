------------------------------ MODULE FileCopy -------------------------------
(***************************************************************************)
(* What rcopy promises its user: the file is copied front to back, rcopy   *)
(* reports success (by its end-of-file packet) only over a complete copy,  *)
(* and it may abandon the copy at any time.                                *)
(***************************************************************************)
EXTENDS Naturals, Sequences

CONSTANT File       \* the file to copy: a sequence of blocks

VARIABLES
  out,      \* the copy
  outcome   \* copying, copied or abandoned

vars == <<out, outcome>>

Init ==
  /\ out = <<>>
  /\ outcome = "copying"

(* The next blocks of the file are appended; also after rcopy gave up.     *)
Extend ==
  /\ outcome # "copied"
  /\ \E n \in Len(out) + 1 .. Len(File) : out' = SubSeq(File, 1, n)
  /\ UNCHANGED outcome

Complete ==
  /\ outcome = "copying"
  /\ out = File
  /\ outcome' = "copied"
  /\ UNCHANGED out

Abandon ==
  /\ outcome = "copying"
  /\ outcome' = "abandoned"
  /\ UNCHANGED out

Next == Extend \/ Complete \/ Abandon

Spec == Init /\ [][Next]_vars
=============================================================================
