----------------------------- MODULE MCTransfer ------------------------------
(***************************************************************************)
(* Transfer and its inductive invariant for TLC; the configurations give   *)
(* the constants their values.                                             *)
(***************************************************************************)
EXTENDS TransferInv
=============================================================================
