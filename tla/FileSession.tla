----------------------------- MODULE FileSession -----------------------------
(***************************************************************************)
(* What a session promises rcopy's user: a number of attempts to reach the *)
(* server; then, in a file that is empty when the copying begins, one      *)
(* block after the other and nothing else; success over the whole file     *)
(* only, which nobody touches any more.                                    *)
(*                                                                         *)
(* The promise ends, without a word to the user, once the session is not   *)
(* to be trusted: when some answer came too late, or the server had        *)
(* understood another name.                                                *)
(***************************************************************************)
EXTENDS Naturals, Sequences

CONSTANTS
  File,      \* the file to copy: a sequence of blocks
  Attempts   \* how often the server is asked

VARIABLES
  phase,     \* asking, copying, copied or failed
  attempts,  \* how often the server has been asked
  out,       \* the file that is to be the copy
  trusted    \* does the promise hold?

vars == <<phase, attempts, out, trusted>>

Init ==
  /\ phase = "asking"
  /\ attempts = 0
  /\ trusted = TRUE

Ask ==
  /\ phase = "asking"
  /\ attempts < Attempts
  /\ attempts' = attempts + 1
  /\ UNCHANGED <<phase, out, trusted>>

(* The file is not yet, or will never be, the copy, or nobody knows: it may *)
(* change in any way.                                                      *)
Touch ==
  /\ phase \in {"asking", "failed"} \/ ~trusted
  /\ UNCHANGED <<phase, attempts, trusted>>

Begin ==
  /\ phase = "asking"
  /\ attempts > 0
  /\ phase' = "copying"
  /\ trusted' \in {trusted, FALSE}
  /\ trusted' => out = <<>>
  /\ UNCHANGED <<attempts, out>>

CopyNext ==
  /\ phase = "copying"
  /\ trusted
  /\ Len(out) < Len(File)
  /\ out' = Append(out, File[Len(out) + 1])
  /\ UNCHANGED <<phase, attempts, trusted>>

Complete ==
  /\ phase = "copying"
  /\ trusted => out = File
  /\ phase' = "copied"
  /\ UNCHANGED <<attempts, out, trusted>>

Fail ==
  /\ phase \in {"asking", "copying"}
  /\ phase' = "failed"
  /\ trusted' \in {trusted, FALSE}
  /\ UNCHANGED <<attempts, out>>

Distrust ==
  /\ trusted' = FALSE
  /\ UNCHANGED <<phase, attempts, out>>

Next == Ask \/ Touch \/ Begin \/ CopyNext \/ Complete \/ Fail \/ Distrust

Spec == Init /\ [][Next]_vars
=============================================================================
