------------------------------ MODULE Checksum -------------------------------
(***************************************************************************)
(* in_cksum (libcpe464/checksum.c), over packets as sequences of bytes.  A *)
(* word is two bytes, the low one first as on x86.                         *)
(***************************************************************************)
EXTENDS Naturals, Sequences

Byte  == 0 .. 255
Words == 65536      \* the number of values of a word

Word(p, k) == p[2 * k - 1] + 256 * p[2 * k]

(* The loop of in_cksum: the sum after each of the whole words.            *)
Sums(p) ==
  LET upTo[k \in 0 .. Len(p) \div 2] ==
        IF k = 0 THEN 0 ELSE upTo[k - 1] + Word(p, k)
  IN  upTo

\* Variant: the odd byte is forgotten.
SumEven(p) == Sums(p)[Len(p) \div 2]

(* The whole words, and the odd byte.                                      *)
WordSum(p) == Sums(p)[Len(p) \div 2] + (IF Len(p) % 2 = 1 THEN p[Len(p)] ELSE 0)

\* Variant: the carry of the addition of the carries is not added.
FoldOnce(sum) == (sum \div Words) + (sum % Words)

FoldCarries(sum) ==
  LET high == (sum \div Words) + (sum % Words)     \* add hi 16 to low 16
  IN  high + (high \div Words)                     \* add carry

(* The complement, truncated to a word.                                    *)
in_cksum(p) == Words - 1 - (FoldCarries(WordSum(p)) % Words)

(* Reference: addition of the words one after the other, each carry added  *)
(* at once (RFC 1071); an odd packet is followed by a zero.                *)
PaddedWord(p, k) == IF 2 * k <= Len(p) THEN Word(p, k) ELSE p[2 * k - 1]

AddWithCarry(x, y) == IF x + y >= Words THEN x + y - Words + 1 ELSE x + y

OnesComplementSums(p) ==
  LET upTo[k \in 0 .. (Len(p) + 1) \div 2] ==
        IF k = 0 THEN 0 ELSE AddWithCarry(upTo[k - 1], PaddedWord(p, k))
  IN  upTo

OnesComplementSum(p) == OnesComplementSums(p)[(Len(p) + 1) \div 2]
=============================================================================
