------------------------- MODULE PacketBytesProofs -------------------------
(***************************************************************************)
(* What holds of the bytes of every packet, whatever the numbers, payloads *)
(* and names: the three properties of PacketBytes.  The checksum is a sum  *)
(* over all words of a packet, defined by recursion; the induction that    *)
(* such a sum needs is drawn from the well-foundedness of the order of the *)
(* natural numbers, first for sets of numbers, then for the existence of   *)
(* the functions that are defined by recursion.  The rest is arithmetic    *)
(* modulo 65535: a packet passes its receiver's test when the sum of its   *)
(* words is a positive multiple of 65535.                                  *)
(***************************************************************************)
EXTENDS PacketBytes, SequenceTheorems, WellFoundedInduction, TLAPS

-----------------------------------------------------------------------------
(* Induction, from the well-foundedness of the natural numbers.            *)

(* The least-number principle, from which induction follows for sets.      *)
LEMMA LeastNumber ==
  ASSUME NEW T, T \subseteq Nat, T # {}
  PROVE  \E m \in T : \A n \in T : ~(n < m)
<1> DEFINE R == {ss \in Nat \X Nat : ss[1] < ss[2]}
<1>1. IsWellFoundedOn(R, Nat)
  BY NatLessThanWellFounded DEF OpToRel
<1>2. \A m, n \in Nat : n < m => <<n, m>> \in R
  OBVIOUS
<1> HIDE DEF R
<1>3. \E m \in T : \A n \in T : <<n, m>> \notin R
  BY <1>1, WFMin
<1> QED BY <1>2, <1>3

(* Induction up to n.                                                      *)
LEMMA InductionTo ==
  ASSUME NEW n \in Nat, NEW S, 0 \in S, \A k \in 1 .. n : k - 1 \in S => k \in S
  PROVE  \A k \in 0 .. n : k \in S
<1> DEFINE T == (0 .. n) \ S
<1> SUFFICES ASSUME T # {} PROVE FALSE
  OBVIOUS
<1>1. T \subseteq Nat
  OBVIOUS
<1>2. PICK m \in T : \A k \in T : ~(k < m)
  <2> HIDE DEF T
  <2> QED BY <1>1, LeastNumber
<1>3. m \in 1 .. n /\ m - 1 \in 0 .. n /\ m - 1 < m
  BY <1>2
<1> QED BY <1>2, <1>3

(* A recursion over 0 .. n has a solution; step[k][x] is what step k makes *)
(* of x.                                                                   *)
Steps(n, step) == \A k \in 1 .. n : \A x \in Nat : step[k][x] \in Nat

Solves(f, n, step) ==
  f \in [0 .. n -> Nat] /\ f[0] = 0 /\ \A k \in 1 .. n : f[k] = step[k][f[k - 1]]

(* A recursion has a solution: by induction on n.                          *)
LEMMA RecursionExists ==
  ASSUME NEW n \in Nat, NEW step, Steps(n, step)
  PROVE  \E f : Solves(f, n, step)
<1> USE DEF Steps, Solves
<1> DEFINE S == {m \in Nat : \E f : Solves(f, m, step)}
<1>1. 0 \in S
  <2>1. Solves([i \in 0 .. 0 |-> 0], 0, step)
    OBVIOUS
  <2> QED BY <2>1
<1>2. ASSUME NEW k \in 1 .. n, k - 1 \in S
      PROVE  k \in S
  <2>1. PICK f : Solves(f, k - 1, step)
    BY <1>2
  <2> DEFINE g == [i \in 0 .. k |-> IF i = k THEN step[k][f[k - 1]] ELSE f[i]]
  <2>2. f[k - 1] \in Nat
    BY <2>1
  <2>3. step[k][f[k - 1]] \in Nat
    BY <2>2
  <2>4. g[k] = step[k][f[k - 1]] /\ \A i \in 0 .. k - 1 : g[i] = f[i]
    OBVIOUS
  <2>5. \A i \in 0 .. k : g[i] \in Nat
    BY <2>1, <2>3, <2>4
  <2>6. g \in [0 .. k -> Nat]
    BY <2>5
  <2>7. g[0] = 0 /\ g[k] = step[k][g[k - 1]]
    <3>1. 0 \in 0 .. k - 1 /\ k - 1 \in 0 .. k - 1
      OBVIOUS
    <3> QED BY <2>1, <2>4, <3>1
  <2> HIDE DEF g
  <2>8. ASSUME NEW i \in 1 .. k PROVE g[i] = step[i][g[i - 1]]
    <3>1. CASE i = k
      BY <2>7, <3>1
    <3>2. CASE i # k
      <4>1. i \in 1 .. k - 1 /\ i - 1 \in 0 .. k - 1 /\ i \in 0 .. k - 1
        BY <3>2
      <4> QED BY <2>1, <2>4, <4>1
    <3> QED BY <3>1, <3>2
  <2>9. Solves(g, k, step)
    BY <2>8, <2>6, <2>7
  <2>10. k \in Nat
    OBVIOUS
  <2> HIDE DEF Solves, Steps
  <2> QED BY <2>9, <2>10
<1> HIDE DEF S
<1>3. \A k \in 0 .. n : k \in S
  BY <1>1, <1>2, InductionTo
<1>4. n \in S
  BY <1>3
<1> QED BY <1>4 DEF S

(* r is s modulo 65535, with 65535 for 0 unless s is 0: the sum of words   *)
(* with end-around carry.                                                  *)
EndAround(s, r) ==
  /\ r \in Nat /\ r <= 65535
  /\ \E q \in Nat : s = 65535 * q + r
  /\ r = 0 <=> s = 0

-----------------------------------------------------------------------------
(* Arithmetic modulo 65535.                                                *)

(* Quotient and remainder of a division by the number of words.            *)
LEMMA DivMod ==
  ASSUME NEW s \in Nat
  PROVE  /\ s \div 65536 \in Nat /\ s % 65536 \in Nat /\ s % 65536 <= 65535
         /\ s = 65536 * (s \div 65536) + (s % 65536)
OBVIOUS

(* They are the only ones.                                                 *)
LEMMA DivUnique ==
  ASSUME NEW s \in Nat, NEW q \in Nat, NEW r \in Nat, r <= 65535, s = 65536 * q + r
  PROVE  s \div 65536 = q /\ s % 65536 = r
OBVIOUS

(* The two bytes of a word.                                                *)
LEMMA DivMod256 ==
  ASSUME NEW s \in Nat, s <= 65535
  PROVE  /\ s \div 256 \in 0 .. 255 /\ s % 256 \in 0 .. 255
         /\ s = 256 * (s \div 256) + (s % 256)
OBVIOUS

(* Halves, rounded down and up.                                            *)
LEMMA Half ==
  ASSUME NEW s \in Nat
  PROVE  /\ s \div 2 \in Nat
         /\ (s % 2 = 1 /\ s = 2 * (s \div 2) + 1) \/ (s % 2 = 0 /\ s = 2 * (s \div 2))
         /\ (s % 2 = 1 /\ 2 * ((s + 1) \div 2) = s + 1) \/ (s % 2 = 0 /\ 2 * ((s + 1) \div 2) = s)
OBVIOUS

(* EndAround from a quotient at hand.                                      *)
LEMMA EndAroundIs ==
  ASSUME NEW s \in Nat, NEW q \in Nat, NEW r \in Nat, r <= 65535, s = 65535 * q + r,
         r = 0 <=> s = 0
  PROVE  EndAround(s, r)
BY DEF EndAround

(* There is one such remainder.                                            *)
LEMMA EndAroundUnique ==
  ASSUME NEW s \in Nat, NEW r, NEW t, EndAround(s, r), EndAround(s, t)
  PROVE  r = t
<1>1. PICK q \in Nat : s = 65535 * q + r
  BY DEF EndAround
<1>2. PICK k \in Nat : s = 65535 * k + t
  BY DEF EndAround
<1>3. r \in Nat /\ t \in Nat /\ r <= 65535 /\ t <= 65535 /\ (r = 0 <=> s = 0) /\ (t = 0 <=> s = 0)
  BY DEF EndAround
<1> QED BY <1>1, <1>2, <1>3

(* Adding a word with its carry keeps the remainder.                       *)
LEMMA EndAroundAdd ==
  ASSUME NEW s \in Nat, NEW x, EndAround(s, x), NEW w \in Nat, w <= 65535
  PROVE  EndAround(s + w, AddWithCarry(x, w))
<1>1. PICK q \in Nat : s = 65535 * q + x
  BY DEF EndAround
<1>2. x \in Nat /\ x <= 65535 /\ (x = 0 <=> s = 0)
  BY DEF EndAround
<1>3. CASE x + w >= 65536
  <2>1. AddWithCarry(x, w) = x + w - 65536 + 1
    BY <1>3 DEF AddWithCarry, Words
  <2>2. q + 1 \in Nat /\ s + w = 65535 * (q + 1) + (x + w - 65536 + 1)
    BY <1>1, <1>2
  <2> QED BY <1>2, <1>3, <2>1, <2>2 DEF EndAround
<1>4. CASE ~(x + w >= 65536)
  <2>1. AddWithCarry(x, w) = x + w
    BY <1>4 DEF AddWithCarry, Words
  <2>2. s + w = 65535 * q + (x + w)
    BY <1>1, <1>2
  <2> QED BY <1>2, <1>4, <2>1, <2>2 DEF EndAround
<1> QED BY <1>3, <1>4

(* Adding the carries in two goes yields the remainder: the second         *)
(* addition cannot carry again, as the high word of s is below 65535.      *)
LEMMA CarriesFolded ==
  ASSUME NEW s \in Nat, s < 65535 * 65536
  PROVE  EndAround(s, FoldCarries(s) % Words)
<1>1. PICK hi \in Nat, lo \in Nat :
        /\ s \div Words = hi /\ s % Words = lo
        /\ s = 65536 * hi + lo /\ lo <= 65535
  BY DivMod DEF Words
<1>2. hi < 65535
  BY <1>1
<1> DEFINE high == hi + lo
<1>3. FoldCarries(s) = high + (high \div Words)
  BY <1>1 DEF FoldCarries
<1>4. CASE high <= 65535
  <2>1. FoldCarries(s) = high
    BY <1>3, <1>4, DivUnique DEF Words
  <2>2. FoldCarries(s) % Words = high
    BY <1>4, <2>1, DivUnique DEF Words
  <2>3. s = 65535 * hi + high
    BY <1>1
  <2> QED BY <1>1, <1>4, <2>2, <2>3 DEF EndAround
<1>5. CASE high >= 65536
  <2>1. high - 65536 \in Nat /\ high - 65536 <= 65535 /\ high = 65536 * 1 + (high - 65536)
    BY <1>1, <1>2, <1>5
  <2>2. high \div 65536 = 1
    BY <2>1, DivUnique
  <2>3. FoldCarries(s) = high + 1
    BY <1>3, <2>2 DEF Words
  <2>4. /\ high + 1 - 65536 \in Nat /\ high + 1 - 65536 <= 65535
        /\ high + 1 = 65536 * 1 + (high + 1 - 65536)
    BY <1>1, <1>2, <1>5
  <2>5. (high + 1) % 65536 = high + 1 - 65536
    BY <2>4, DivUnique
  <2>6. hi + 1 \in Nat /\ s = 65535 * (hi + 1) + (high + 1 - 65536)
    BY <1>1
  <2>7. FoldCarries(s) % Words = high + 1 - 65536
    BY <2>3, <2>5 DEF Words
  <2>8. s # 0 /\ high + 1 - 65536 # 0
    BY <1>1, <1>5
  <2>9. EndAround(s, high + 1 - 65536)
    <3> DEFINE r == high + 1 - 65536
               q == hi + 1
    <3>1. /\ q \in Nat /\ r \in Nat /\ r <= 65535
          /\ s = 65535 * q + r /\ r # 0 /\ s # 0
      BY <2>4, <2>6, <2>8
    <3> HIDE DEF r, q
    <3>2. EndAround(s, r)
      BY <3>1, EndAroundIs
    <3> QED BY <3>2 DEF r
  <2> QED BY <2>7, <2>9
<1> QED BY <1>1, <1>4, <1>5

-----------------------------------------------------------------------------
(* The sum over a packet.                                                  *)

(* A byte is a number.                                                     *)
LEMMA ByteType ==
  ASSUME NEW b \in Byte
  PROVE  b \in Nat /\ b <= 255
BY DEF Byte

(* Two bytes make a word.                                                  *)
LEMMA WordOfBytes ==
  ASSUME NEW a \in Byte, NEW b \in Byte
  PROVE  a + 256 * b \in Nat /\ a + 256 * b <= 65535
<1>1. a \in Nat /\ a <= 255 /\ b \in Nat /\ b <= 255
  BY ByteType
<1>2. PICK x \in Nat, y \in Nat : x = a /\ y = b /\ x <= 255 /\ y <= 255
  BY <1>1
<1>3. x + 256 * y \in Nat /\ x + 256 * y <= 65535
  BY <1>2
<1> QED BY <1>2, <1>3

(* A word of a packet is below Words.                                      *)
LEMMA WordType ==
  ASSUME NEW p \in Seq(Byte), NEW k \in Nat \ {0}, 2 * k <= Len(p)
  PROVE  Word(p, k) \in Nat /\ Word(p, k) <= 65535
<1>1. 2 * k \in 1 .. Len(p) /\ 2 * k - 1 \in 1 .. Len(p)
  BY LenProperties
<1>2. p[2 * k] \in Byte /\ p[2 * k - 1] \in Byte
  BY <1>1, ElementOfSeq
<1> DEFINE lo == p[2 * k - 1]
           hi == p[2 * k]
<1>3. Word(p, k) = lo + 256 * hi
  BY DEF Word
<1>4. lo \in Byte /\ hi \in Byte
  BY <1>2
<1> HIDE DEF lo, hi
<1> QED BY <1>3, <1>4, WordOfBytes

(* What the loop of in_cksum adds up, one word at a time: the recursive    *)
(* function has the values its definition asks for.                        *)
LEMMA SumsStep ==
  ASSUME NEW p \in Seq(Byte), NEW n \in Nat, n = Len(p) \div 2
  PROVE  /\ Sums(p) \in [0 .. n -> Nat] /\ Sums(p)[0] = 0
         /\ \A k \in 1 .. n : Sums(p)[k] = Sums(p)[k - 1] + Word(p, k)
<1>1. \A k \in 1 .. n : k \in Nat \ {0} /\ 2 * k <= Len(p)
  BY LenProperties, Half
<1>2. \A k \in 1 .. n : Word(p, k) \in Nat
  BY <1>1, WordType
<1> DEFINE step == [k \in 1 .. n |-> [x \in Nat |-> x + Word(p, k)]]
<1>3. \A k \in 1 .. n : \A x \in Nat : step[k][x] = x + Word(p, k) /\ step[k][x] \in Nat
  BY <1>2
<1>4. PICK f : f \in [0 .. n -> Nat] /\ f[0] = 0 /\ \A k \in 1 .. n : f[k] = step[k][f[k - 1]]
  <2> HIDE DEF step
  <2>1. Steps(n, step)
    BY <1>3 DEF Steps
  <2>2. \E f : Solves(f, n, step)
    BY <2>1, RecursionExists
  <2> QED BY <2>2 DEF Solves
<1>5. f = [k \in 0 .. n |-> IF k = 0 THEN 0 ELSE f[k - 1] + Word(p, k)]
  <2>1. \A k \in 1 .. n : k - 1 \in 0 .. n /\ f[k - 1] \in Nat /\ f[k] = f[k - 1] + Word(p, k)
    <3> HIDE DEF step
    <3>1. \A k \in 1 .. n : k - 1 \in 0 .. n
      OBVIOUS
    <3> QED BY <1>3, <1>4, <3>1
  <2> QED BY <1>4, <2>1
<1>6. Sums(p) = [k \in 0 .. n |-> IF k = 0 THEN 0 ELSE Sums(p)[k - 1] + Word(p, k)]
  BY <1>5 DEF Sums
<1>7. \A k \in 1 .. n : k \in 0 .. n /\ k # 0
  OBVIOUS
<1>8. Sums(p)[0] = 0 /\ \A k \in 1 .. n : Sums(p)[k] = Sums(p)[k - 1] + Word(p, k)
  BY <1>6, <1>7
<1> DEFINE Good == {k \in 0 .. n : Sums(p)[k] \in Nat}
<1>9. \A k \in 0 .. n : k \in Good
  <2>1. 0 \in Good /\ \A k \in 1 .. n : k - 1 \in Good => k \in Good
    BY <1>2, <1>8
  <2> HIDE DEF Good
  <2> QED BY <2>1, InductionTo
<1>10. Sums(p) \in [0 .. n -> Nat]
  BY <1>6, <1>9
<1> QED BY <1>8, <1>10

(* A number below 256 is a byte.                                           *)
LEMMA IsByte ==
  ASSUME NEW n \in Nat, n <= 255
  PROVE  n \in Byte
BY DEF Byte

(* The bytes of a word, and the word from them.                            *)
LEMMA BytesOfWord ==
  ASSUME NEW c \in Nat, c <= 65535
  PROVE  /\ c % 256 \in Byte /\ c % 256 \in Nat
         /\ c \div 256 \in Byte /\ c \div 256 \in Nat
         /\ c = 256 * (c \div 256) + (c % 256)
BY DivMod256 DEF Byte

(* What stands in a packet is a byte.                                      *)
LEMMA ByteAt ==
  ASSUME NEW p \in Seq(Byte), NEW i \in 1 .. Len(p)
  PROVE  p[i] \in Byte /\ p[i] \in Nat /\ p[i] <= 255
<1>1. p[i] \in Byte
  BY ElementOfSeq
<1> QED BY <1>1, ByteType

(* The sum of a packet of even and of odd length.                          *)
LEMMA WordSumIs ==
  ASSUME NEW p \in Seq(Byte), NEW n \in Nat, n = Len(p) \div 2
  PROVE  \/ Len(p) = 2 * n /\ WordSum(p) = Sums(p)[n]
         \/ Len(p) = 2 * n + 1 /\ WordSum(p) = Sums(p)[n] + p[2 * n + 1]
<1>1. WordSum(p) = Sums(p)[n] + (IF Len(p) % 2 = 1 THEN p[Len(p)] ELSE 0)
  BY DEF WordSum
<1>2. /\ n \in 0 .. n /\ Sums(p)[n] \in Nat
  BY SumsStep
<1>3. \/ Len(p) % 2 = 1 /\ Len(p) = 2 * n + 1
      \/ Len(p) % 2 = 0 /\ Len(p) = 2 * n
  BY LenProperties, Half
<1> QED BY <1>1, <1>2, <1>3

(* The words the loop takes lie within the packet.                         *)
LEMMA WordsWithin ==
  ASSUME NEW p \in Seq(Byte), NEW n \in Nat, n = Len(p) \div 2
  PROVE  /\ 2 * n <= Len(p) /\ Len(p) <= 2 * n + 1
         /\ \A k \in 1 .. n :
              /\ 2 * k \in 1 .. Len(p) /\ 2 * k - 1 \in 1 .. Len(p)
              /\ Word(p, k) \in Nat /\ Word(p, k) <= 65535
<1>1. 2 * n <= Len(p) /\ Len(p) <= 2 * n + 1 /\ Len(p) \in Nat
  BY LenProperties, Half
<1>2. \A k \in 1 .. n : /\ k \in Nat \ {0} /\ 2 * k <= Len(p)
                       /\ 2 * k \in 1 .. Len(p) /\ 2 * k - 1 \in 1 .. Len(p)
  BY <1>1
<1> QED BY <1>1, <1>2, WordType

(* s is the sums of the first of n numbers w.                              *)
Totals(s, w, n) ==
  /\ s \in [0 .. n -> Nat] /\ s[0] = 0
  /\ \A k \in 1 .. n : s[k] = s[k - 1] + w[k]

(* A sum of n words.                                                       *)
LEMMA TotalBound ==
  ASSUME NEW n \in Nat, NEW s, NEW w, Totals(s, w, n),
         \A k \in 1 .. n : w[k] \in Nat /\ w[k] <= 65535
  PROVE  s[n] \in Nat /\ s[n] <= 65535 * n
<1> DEFINE Good == {k \in 0 .. n : s[k] <= 65535 * k}
<1>1. 0 \in Good
  BY DEF Totals
<1>2. ASSUME NEW k \in 1 .. n, k - 1 \in Good
      PROVE  k \in Good
  <2>1. k \in 0 .. n /\ k - 1 \in 0 .. n /\ s[k - 1] \in Nat /\ s[k - 1] <= 65535 * (k - 1)
    BY <1>2 DEF Totals
  <2>2. s[k] = s[k - 1] + w[k] /\ w[k] \in Nat /\ w[k] <= 65535
    BY DEF Totals
  <2>3. s[k] <= 65535 * k
    BY <2>1, <2>2
  <2> QED BY <2>1, <2>3
<1>3. \A k \in 0 .. n : k \in Good
  <2> HIDE DEF Good
  <2> QED BY <1>1, <1>2, InductionTo
<1> QED BY <1>3 DEF Totals

(* The sum of a packet stays below what folding the carries in two goes    *)
(* can take.                                                               *)
LEMMA SumBound ==
  ASSUME NEW p \in Seq(Byte), Len(p) <= 65534
  PROVE  WordSum(p) \in Nat /\ WordSum(p) < 65535 * 65536
<1>1. PICK n \in Nat : n = Len(p) \div 2
  BY LenProperties, Half
<1>2. n <= 32767 /\ \A k \in 1 .. n : Word(p, k) \in Nat /\ Word(p, k) <= 65535
  BY <1>1, WordsWithin
<1>3. Sums(p)[n] \in Nat /\ Sums(p)[n] <= 65535 * n
  <2> DEFINE w == [k \in 1 .. n |-> Word(p, k)]
  <2>1. Totals(Sums(p), w, n)
    BY <1>1, SumsStep DEF Totals
  <2>2. \A k \in 1 .. n : w[k] \in Nat /\ w[k] <= 65535
    BY <1>2
  <2>3. n \in Nat
    BY <1>1
  <2> HIDE DEF w
  <2> QED BY <2>1, <2>2, <2>3, TotalBound
<1>4. \/ WordSum(p) = Sums(p)[n]
      \/ WordSum(p) = Sums(p)[n] + p[2 * n + 1] /\ p[2 * n + 1] \in Nat /\ p[2 * n + 1] <= 255
  <2>1. Len(p) = 2 * n + 1 => 2 * n + 1 \in 1 .. Len(p)
    BY <1>1
  <2>2. Len(p) = 2 * n + 1 => p[2 * n + 1] \in Nat /\ p[2 * n + 1] <= 255
    BY <2>1, ByteAt
  <2> QED BY <1>1, <2>2, WordSumIs
<1>5. Sums(p)[n] <= 65535 * 32767
  BY <1>1, <1>2, <1>3
<1>6. WordSum(p) \in Nat /\ WordSum(p) <= 65535 * 32767 + 255
  BY <1>3, <1>4, <1>5
<1> QED BY <1>6

-----------------------------------------------------------------------------
(* A byte is replaced.                                                     *)

(* What a byte adds to the sum.                                            *)
Weight(i) == IF i % 2 = 1 THEN 1 ELSE 256

(* Byte i is in word j.                                                    *)
InWord(i, j) ==
  \/ i = 2 * j - 1 /\ Weight(i) = 1
  \/ i = 2 * j /\ Weight(i) = 256

(* Packet r is packet p with byte i replaced by b.                         *)
Replaces(r, p, i, b) ==
  /\ Len(r) = Len(p)
  /\ \A l \in 1 .. Len(p) : r[l] = IF l = i THEN b ELSE p[l]

(* Each byte is in one word.                                               *)
LEMMA PositionOf ==
  ASSUME NEW i \in Nat \ {0}
  PROVE  \E j \in Nat \ {0} : InWord(i, j)
<1>1. PICK m \in Nat : \/ i % 2 = 1 /\ i = 2 * m + 1
                       \/ i % 2 = 0 /\ i = 2 * m
  BY Half
<1>2. CASE i % 2 = 1 /\ i = 2 * m + 1
  <2>1. m + 1 \in Nat \ {0} /\ i = 2 * (m + 1) - 1
    BY <1>1, <1>2
  <2> QED BY <1>2, <2>1 DEF InWord, Weight
<1>3. CASE i % 2 = 0 /\ i = 2 * m
  <2>1. m \in Nat \ {0}
    BY <1>1, <1>3
  <2> QED BY <1>3, <2>1 DEF InWord, Weight
<1> QED BY <1>1, <1>2, <1>3

(* What a word changes by when its high or its low byte does.              *)
LEMMA ByteShift ==
  ASSUME NEW x \in Nat, NEW y \in Nat, NEW b \in Nat
  PROVE  /\ x + 256 * b = (x + 256 * y) + 256 * (b - y)
         /\ b + 256 * y = (x + 256 * y) + 1 * (b - x)
OBVIOUS

(* What the words change by.                                               *)
LEMMA WordChanged ==
  ASSUME NEW p \in Seq(Byte), NEW r \in Seq(Byte), NEW i \in 1 .. Len(p), NEW b \in Byte,
         Replaces(r, p, i, b), NEW j \in Nat \ {0}, InWord(i, j),
         NEW k \in Nat \ {0}, 2 * k <= Len(p)
  PROVE  Word(r, k) = Word(p, k) + (IF k = j THEN Weight(i) * (b - p[i]) ELSE 0)
<1>1. 2 * k \in 1 .. Len(p) /\ 2 * k - 1 \in 1 .. Len(p)
  BY LenProperties
<1>2. PICK hi \in Nat, lo \in Nat : hi = p[2 * k] /\ lo = p[2 * k - 1]
  <2>1. PICK e \in 1 .. Len(p), o \in 1 .. Len(p) : e = 2 * k /\ o = 2 * k - 1
    BY <1>1
  <2>2. p[e] \in Nat /\ p[o] \in Nat
    BY ByteAt
  <2> QED BY <2>1, <2>2
<1>3. /\ r[2 * k] = (IF 2 * k = i THEN b ELSE p[2 * k])
      /\ r[2 * k - 1] = (IF 2 * k - 1 = i THEN b ELSE p[2 * k - 1])
  BY <1>1 DEF Replaces
<1>4. PICK old \in Nat : old = p[i]
  BY ByteAt
<1>5. PICK c \in Nat : c = b
  BY ByteType
<1>6. Word(p, k) = lo + 256 * hi
  BY <1>2 DEF Word
<1>7. CASE i = 2 * k
  <2>1. k = j /\ Weight(i) = 256 /\ hi = old
    BY <1>2, <1>4, <1>7 DEF InWord
  <2>2. Word(r, k) = lo + 256 * c
    BY <1>2, <1>5, <1>7, <1>3 DEF Word
  <2>3. lo + 256 * c = (lo + 256 * hi) + 256 * (c - hi)
    BY ByteShift
  <2> QED BY <1>4, <1>5, <1>6, <2>1, <2>2, <2>3
<1>8. CASE i = 2 * k - 1
  <2>1. k = j /\ Weight(i) = 1 /\ lo = old
    BY <1>2, <1>4, <1>8 DEF InWord
  <2>2. Word(r, k) = c + 256 * hi
    BY <1>2, <1>5, <1>8, <1>3 DEF Word
  <2>3. c + 256 * hi = (lo + 256 * hi) + 1 * (c - lo)
    BY ByteShift
  <2> QED BY <1>4, <1>5, <1>6, <2>1, <2>2, <2>3
<1>9. CASE i # 2 * k /\ i # 2 * k - 1
  <2>1. k # j
    BY <1>9 DEF InWord
  <2>2. Word(r, k) = lo + 256 * hi
    BY <1>2, <1>9, <1>3 DEF Word
  <2> QED BY <1>2, <1>6, <2>1, <2>2
<1> QED BY <1>7, <1>8, <1>9

(* The numbers v are w, except for the jth, which is greater by d.         *)
Shifts(v, w, n, j, d) ==
  \A k \in 1 .. n : w[k] \in Nat /\ v[k] = w[k] + (IF k = j THEN d ELSE 0)

(* What the sums change by, from the changed word on: by induction.        *)
LEMMA SumsChanged ==
  ASSUME NEW n \in Nat, NEW s, NEW t, NEW w, NEW v, Totals(s, w, n), Totals(t, v, n),
         NEW d \in Int, NEW j \in Nat \ {0}, Shifts(v, w, n, j, d)
  PROVE  t[n] = s[n] + (IF j <= n THEN d ELSE 0)
<1> USE DEF Totals, Shifts
<1> DEFINE Good == {k \in 0 .. n : t[k] = s[k] + (IF j <= k THEN d ELSE 0)}
<1>1. 0 \in Good
  OBVIOUS
<1>2. ASSUME NEW k \in 1 .. n, k - 1 \in Good
      PROVE  k \in Good
  <2>1. k \in 0 .. n /\ k - 1 \in 0 .. n /\ s[k - 1] \in Nat /\ w[k] \in Nat
    OBVIOUS
  <2>2. t[k - 1] = s[k - 1] + (IF j <= k - 1 THEN d ELSE 0)
    BY <1>2
  <2>3. t[k] = t[k - 1] + v[k] /\ s[k] = s[k - 1] + w[k] /\ v[k] = w[k] + (IF k = j THEN d ELSE 0)
    OBVIOUS
  <2>4. t[k] = s[k] + (IF j <= k THEN d ELSE 0)
    <3> DEFINE x == s[k - 1]
               y == w[k]
    <3>1. x \in Nat /\ y \in Nat
      BY <2>1
    <3> HIDE DEF x, y
    <3>2. /\ t[k] = (x + (IF j <= k - 1 THEN d ELSE 0)) + (y + (IF k = j THEN d ELSE 0))
          /\ s[k] = x + y
      BY <2>2, <2>3 DEF x, y
    <3> QED BY <3>1, <3>2
  <2> QED BY <2>1, <2>4
<1>3. \A k \in 0 .. n : k \in Good
  <2> HIDE DEF Good
  <2> QED BY <1>1, <1>2, InductionTo
<1> QED BY <1>3

(* Replacing byte i changes the sum by the difference, times its weight.   *)
LEMMA OneByteChanged ==
  ASSUME NEW p \in Seq(Byte), NEW r \in Seq(Byte), NEW i \in 1 .. Len(p), NEW b \in Byte,
         Replaces(r, p, i, b)
  PROVE  WordSum(r) = WordSum(p) + Weight(i) * (b - p[i])
<1>1. PICK n \in Nat : n = Len(p) \div 2
  BY LenProperties, Half
<1>2. Len(r) = Len(p) /\ \A l \in 1 .. Len(p) : r[l] = IF l = i THEN b ELSE p[l]
  BY DEF Replaces
<1>3. PICK j \in Nat \ {0} : InWord(i, j)
  <2>1. i \in Nat \ {0}
    BY LenProperties
  <2> QED BY <2>1, PositionOf
<1>4. PICK old \in Nat, c \in Nat : old = p[i] /\ c = b
  BY ByteAt, ByteType
<1>5. PICK d \in Int : d = Weight(i) * (b - p[i])
  BY <1>3, <1>4 DEF InWord
<1> DEFINE w == [k \in 1 .. n |-> Word(p, k)]
           v == [k \in 1 .. n |-> Word(r, k)]
<1>6. Sums(r)[n] = Sums(p)[n] + (IF j <= n THEN d ELSE 0)
  <2>1. Totals(Sums(p), w, n)
    BY <1>1, SumsStep DEF Totals
  <2>2. Totals(Sums(r), v, n)
    BY <1>1, <1>2, SumsStep DEF Totals
  <2>3. ASSUME NEW k \in 1 .. n
        PROVE  w[k] \in Nat /\ v[k] = w[k] + (IF k = j THEN d ELSE 0)
    <3>1. 2 * k \in 1 .. Len(p) /\ Word(p, k) \in Nat
      BY <1>1, WordsWithin
    <3>2. k \in Nat \ {0} /\ 2 * k <= Len(p)
      BY <1>1, <3>1
    <3>3. Word(r, k) = Word(p, k) + (IF k = j THEN Weight(i) * (b - p[i]) ELSE 0)
      BY <1>3, <3>2, WordChanged
    <3>4. Word(r, k) = Word(p, k) + (IF k = j THEN d ELSE 0)
      BY <1>5, <3>3
    <3> QED BY <3>1, <3>4
  <2>4. n \in Nat /\ j \in Nat \ {0} /\ d \in Int
    BY <1>1, <1>3, <1>5
  <2>5. Shifts(v, w, n, j, d)
    BY <2>3 DEF Shifts
  <2> HIDE DEF w, v
  <2> QED BY <2>1, <2>2, <2>4, <2>5, SumsChanged
<1>7. Sums(p)[n] \in Nat
  BY <1>1, SumsStep
<1>8. /\ \/ Len(p) = 2 * n /\ WordSum(p) = Sums(p)[n]
         \/ Len(p) = 2 * n + 1 /\ WordSum(p) = Sums(p)[n] + p[2 * n + 1]
      /\ \/ Len(p) = 2 * n /\ WordSum(r) = Sums(r)[n]
         \/ Len(p) = 2 * n + 1 /\ WordSum(r) = Sums(r)[n] + r[2 * n + 1]
  BY <1>1, <1>2, WordSumIs
<1>9. CASE Len(p) = 2 * n
  <2>1. j <= n
    BY <1>1, <1>3, <1>9 DEF InWord
  <2> QED BY <1>1, <1>5, <1>6, <1>7, <1>8, <1>9, <2>1
<1>10. CASE Len(p) = 2 * n + 1 /\ i # 2 * n + 1
  <2>1. j <= n /\ 2 * n + 1 \in 1 .. Len(p)
    BY <1>1, <1>3, <1>10 DEF InWord
  <2>2. PICK last \in Nat : p[2 * n + 1] = last /\ r[2 * n + 1] = last
    BY <1>2, <1>10, <2>1, ByteAt
  <2>3. /\ WordSum(p) = Sums(p)[n] + last /\ WordSum(r) = Sums(r)[n] + last
        /\ Sums(r)[n] = Sums(p)[n] + d
    BY <1>1, <1>6, <1>8, <1>10, <2>1, <2>2
  <2> QED BY <1>5, <1>7, <2>3
<1>11. CASE Len(p) = 2 * n + 1 /\ i = 2 * n + 1
  <2>1. ~(j <= n) /\ Weight(i) = 1
    BY <1>1, <1>3, <1>11 DEF InWord
  <2>2. p[2 * n + 1] = old /\ r[2 * n + 1] = c
    BY <1>4, <1>2, <1>11
  <2>3. Sums(r)[n] = Sums(p)[n] /\ ~(Len(p) = 2 * n)
    BY <1>1, <1>6, <1>7, <1>11, <2>1
  <2>4. WordSum(p) = Sums(p)[n] + old /\ WordSum(r) = Sums(p)[n] + c
    BY <1>8, <2>2, <2>3
  <2>5. Sums(p)[n] + c = (Sums(p)[n] + old) + 1 * (c - old)
    BY <1>7
  <2> QED BY <1>4, <2>1, <2>4, <2>5
<1> QED BY <1>1, <1>8, <1>9, <1>10, <1>11

-----------------------------------------------------------------------------
(* The reference.                                                          *)

(* Addition with the carry stays within the numbers.                       *)
LEMMA AddWithCarryType ==
  ASSUME NEW x \in Nat, NEW w \in Nat
  PROVE  AddWithCarry(x, w) \in Nat
BY DEF AddWithCarry, Words

(* The words of the reference are words.                                   *)
LEMMA PaddedWords ==
  ASSUME NEW p \in Seq(Byte), NEW n \in Nat, n = (Len(p) + 1) \div 2, NEW k \in 1 .. n
  PROVE  PaddedWord(p, k) \in Nat /\ PaddedWord(p, k) <= 65535
<1>1. k \in Nat \ {0} /\ 2 * k <= Len(p) + 1 /\ Len(p) \in Nat
  BY LenProperties, Half
<1>2. CASE 2 * k <= Len(p)
  <2>1. PaddedWord(p, k) = Word(p, k)
    BY <1>2 DEF PaddedWord
  <2> QED BY <1>1, <1>2, <2>1, WordType
<1>3. CASE ~(2 * k <= Len(p))
  <2>1. PICK i \in 1 .. Len(p) : i = 2 * k - 1
    BY <1>1, <1>3
  <2>2. PaddedWord(p, k) = p[i]
    BY <1>3, <2>1 DEF PaddedWord
  <2>3. p[i] \in Nat /\ p[i] <= 255
    BY ByteAt
  <2> QED BY <2>2, <2>3
<1> QED BY <1>2, <1>3

(* What the reference adds up, one word at a time.                         *)
LEMMA OnesComplementStep ==
  ASSUME NEW p \in Seq(Byte), NEW n \in Nat, n = (Len(p) + 1) \div 2
  PROVE  /\ OnesComplementSums(p) \in [0 .. n -> Nat] /\ OnesComplementSums(p)[0] = 0
         /\ \A k \in 1 .. n :
              OnesComplementSums(p)[k]
                = AddWithCarry(OnesComplementSums(p)[k - 1], PaddedWord(p, k))
<1>1. \A k \in 1 .. n : PaddedWord(p, k) \in Nat
  BY PaddedWords
<1> DEFINE step == [k \in 1 .. n |-> [x \in Nat |-> AddWithCarry(x, PaddedWord(p, k))]]
<1>2. \A k \in 1 .. n : \A x \in Nat :
        step[k][x] = AddWithCarry(x, PaddedWord(p, k)) /\ step[k][x] \in Nat
  BY <1>1, AddWithCarryType
<1>3. PICK f : f \in [0 .. n -> Nat] /\ f[0] = 0 /\ \A k \in 1 .. n : f[k] = step[k][f[k - 1]]
  <2> HIDE DEF step
  <2>1. Steps(n, step)
    BY <1>2 DEF Steps
  <2>2. \E f : Solves(f, n, step)
    BY <2>1, RecursionExists
  <2> QED BY <2>2 DEF Solves
<1>4. f = [k \in 0 .. n |-> IF k = 0 THEN 0 ELSE AddWithCarry(f[k - 1], PaddedWord(p, k))]
  <2>1. \A k \in 1 .. n :
          k - 1 \in 0 .. n /\ f[k - 1] \in Nat /\ f[k] = AddWithCarry(f[k - 1], PaddedWord(p, k))
    <3> HIDE DEF step
    <3>1. \A k \in 1 .. n : k - 1 \in 0 .. n
      OBVIOUS
    <3> QED BY <1>2, <1>3, <3>1
  <2> QED BY <1>3, <2>1
<1> DEFINE S == OnesComplementSums(p)
<1>5. S = [k \in 0 .. n |-> IF k = 0 THEN 0 ELSE AddWithCarry(S[k - 1], PaddedWord(p, k))]
  BY <1>4 DEF OnesComplementSums
<1> HIDE DEF S
<1>6. \A k \in 1 .. n : k \in 0 .. n /\ k # 0
  OBVIOUS
<1>7. S[0] = 0 /\ \A k \in 1 .. n : S[k] = AddWithCarry(S[k - 1], PaddedWord(p, k))
  BY <1>5, <1>6
<1> DEFINE Good == {k \in 0 .. n : S[k] \in Nat}
<1>8. \A k \in 0 .. n : k \in Good
  <2>1. 0 \in Good
    BY <1>7
  <2>2. \A k \in 1 .. n : k - 1 \in Good => k \in Good
    BY <1>1, <1>6, <1>7, AddWithCarryType
  <2> HIDE DEF Good
  <2> QED BY <2>1, <2>2, InductionTo
<1>9. S \in [0 .. n -> Nat]
  BY <1>5, <1>8
<1> QED BY <1>7, <1>9 DEF S

(* The sum of the code and that of the reference agree modulo 65535, and   *)
(* are zero together.                                                      *)
LEMMA OnesComplement ==
  ASSUME NEW p \in Seq(Byte)
  PROVE  EndAround(WordSum(p), OnesComplementSum(p))
<1>1. PICK n \in Nat, m \in Nat :
        /\ n = Len(p) \div 2 /\ m = (Len(p) + 1) \div 2
        /\ \/ Len(p) = 2 * n /\ m = n
           \/ Len(p) = 2 * n + 1 /\ m = n + 1
  BY LenProperties, Half
<1> DEFINE S == OnesComplementSums(p)
           A == Sums(p)
<1>2. /\ A \in [0 .. n -> Nat] /\ A[0] = 0
      /\ \A k \in 1 .. n : A[k] = A[k - 1] + Word(p, k)
  BY <1>1, SumsStep
<1>3. /\ S \in [0 .. m -> Nat] /\ S[0] = 0
      /\ \A k \in 1 .. m : S[k] = AddWithCarry(S[k - 1], PaddedWord(p, k))
  BY <1>1, OnesComplementStep
<1>4. \A k \in 1 .. n : k \in 1 .. m /\ PaddedWord(p, k) = Word(p, k)
                        /\ Word(p, k) \in Nat /\ Word(p, k) <= 65535
  <2>1. \A k \in 1 .. n : k \in 1 .. m /\ 2 * k <= Len(p)
    BY <1>1
  <2>2. \A k \in 1 .. n : Word(p, k) \in Nat /\ Word(p, k) <= 65535
    BY <1>1, WordsWithin
  <2> QED BY <2>1, <2>2 DEF PaddedWord
<1>5. OnesComplementSum(p) = S[m]
  BY <1>1 DEF OnesComplementSum
<1>6. \/ Len(p) = 2 * n /\ WordSum(p) = A[n]
      \/ Len(p) = 2 * n + 1 /\ WordSum(p) = A[n] + p[2 * n + 1]
  <2>1. n \in Nat /\ n = Len(p) \div 2
    BY <1>1
  <2> QED BY <2>1, WordSumIs
<1> HIDE DEF S, A
<1> DEFINE Good == {k \in 0 .. n : EndAround(A[k], S[k])}
<1>7. \A k \in 0 .. n : k \in Good
  <2>1. 0 \in Good
    <3>1. EndAround(0, 0)
      BY EndAroundIs
    <3> QED BY <1>1, <1>2, <1>3, <3>1
  <2>2. ASSUME NEW k \in 1 .. n, k - 1 \in Good
        PROVE  k \in Good
    <3>1. EndAround(A[k - 1], S[k - 1]) /\ A[k - 1] \in Nat
      BY <1>2, <2>2
    <3>2. EndAround(A[k - 1] + Word(p, k), AddWithCarry(S[k - 1], Word(p, k)))
      BY <1>4, <3>1, EndAroundAdd
    <3>3. A[k] = A[k - 1] + Word(p, k) /\ S[k] = AddWithCarry(S[k - 1], Word(p, k))
      BY <1>2, <1>3, <1>4
    <3> QED BY <3>2, <3>3
  <2>3. n \in Nat
    BY <1>1
  <2> HIDE DEF Good
  <2> QED BY <2>1, <2>2, <2>3, InductionTo
<1>8. EndAround(A[n], S[n]) /\ A[n] \in Nat
  BY <1>1, <1>2, <1>7
<1>9. CASE Len(p) = 2 * n /\ m = n
  <2>1. WordSum(p) = A[n]
    BY <1>1, <1>9, <1>6
  <2> QED BY <1>5, <1>8, <1>9, <2>1
<1>10. CASE Len(p) = 2 * n + 1 /\ m = n + 1
  <2>1. WordSum(p) = A[n] + p[2 * n + 1]
    BY <1>1, <1>10, <1>6
  <2>2. PICK last \in Nat : last = p[2 * n + 1] /\ last <= 255
    <3>1. PICK i \in 1 .. Len(p) : i = 2 * n + 1
      BY <1>10
    <3>2. p[i] \in Nat /\ p[i] <= 255
      BY ByteAt
    <3> QED BY <3>1, <3>2
  <2>3. m \in 1 .. m /\ m - 1 = n /\ 2 * m - 1 = 2 * n + 1 /\ ~(2 * m <= Len(p))
    BY <1>1, <1>10
  <2>4. PaddedWord(p, m) = last
    BY <2>2, <2>3 DEF PaddedWord
  <2>5. S[m] = AddWithCarry(S[n], last)
    BY <1>3, <2>3, <2>4
  <2>6. EndAround(A[n] + last, AddWithCarry(S[n], last))
    BY <1>8, <2>2, EndAroundAdd
  <2> QED BY <1>5, <2>1, <2>2, <2>5, <2>6
<1> QED BY <1>1, <1>9, <1>10

(* in_cksum is the complement of the sum of RFC 1071, for every packet     *)
(* that fits a buffer and many that do not.                                *)
THEOREM CarriesAdded ==
  ASSUME NEW p \in Seq(Byte), Len(p) <= 65534
  PROVE  in_cksum(p) = Words - 1 - OnesComplementSum(p)
<1>1. WordSum(p) \in Nat /\ EndAround(WordSum(p), FoldCarries(WordSum(p)) % Words)
  BY SumBound, CarriesFolded
<1>2. FoldCarries(WordSum(p)) % Words = OnesComplementSum(p)
  BY <1>1, OnesComplement, EndAroundUnique
<1> QED BY <1>2 DEF in_cksum

-----------------------------------------------------------------------------
(* Putting in the checksum, and inverting a byte.                          *)

(* The receiver's test passes when the sum is a positive multiple of       *)
(* 65535.                                                                  *)
LEMMA ZeroChecksum ==
  ASSUME NEW p \in Seq(Byte), Len(p) <= 65534
  PROVE  in_cksum(p) = 0 <=> EndAround(WordSum(p), 65535)
<1> DEFINE w == WordSum(p)
           r == FoldCarries(w) % Words
<1>1. w \in Nat /\ EndAround(w, r)
  BY SumBound, CarriesFolded
<1>2. in_cksum(p) = Words - 1 - r
  BY DEF in_cksum
<1> HIDE DEF w, r
<1>3. in_cksum(p) = 0 <=> r = 65535
  <2>1. r \in Nat
    BY <1>1 DEF EndAround
  <2> QED BY <1>2, <2>1 DEF Words
<1>4. r = 65535 <=> EndAround(w, 65535)
  BY <1>1, EndAroundUnique
<1> QED BY <1>3, <1>4 DEF w

(* A packet whose checksum field was zero passes the test of its receiver  *)
(* once the checksum is in it.                                             *)
LEMMA ChecksumPasses ==
  ASSUME NEW p \in Seq(Byte), 6 <= Len(p), Len(p) <= 65534, p[5] = 0, p[6] = 0
  PROVE  /\ WithChecksum(p) \in Seq(Byte) /\ Len(WithChecksum(p)) = Len(p)
         /\ \A l \in 1 .. Len(p) : l # 5 /\ l # 6 => WithChecksum(p)[l] = p[l]
         /\ in_cksum(WithChecksum(p)) = 0
<1> DEFINE w == WordSum(p)
           x == FoldCarries(w) % Words
<1>1. w \in Nat /\ EndAround(w, x)
  BY SumBound, CarriesFolded
<1>2. in_cksum(p) = 65535 - x
  BY DEF in_cksum, Words
<1> HIDE DEF w, x
<1>3. PICK c \in Nat : c = in_cksum(p) /\ c <= 65535 /\ x = 65535 - c
  <2>1. x \in Nat /\ x <= 65535
    BY <1>1 DEF EndAround
  <2> QED BY <1>2, <2>1
<1> DEFINE lo == c % 256
           hi == c \div 256
           q == [p EXCEPT ![5] = lo]
           r == [q EXCEPT ![6] = hi]
<1>4. /\ lo \in Byte /\ lo \in Nat /\ hi \in Byte /\ hi \in Nat
      /\ c = 256 * hi + lo
  BY <1>3, BytesOfWord
<1>5. WithChecksum(p) = r
  <2>1. WithChecksum(p) = [p EXCEPT ![5] = in_cksum(p) % 256, ![6] = in_cksum(p) \div 256]
    BY DEF WithChecksum, SEQ_LEN
  <2> QED BY <1>3, <2>1
<1> HIDE DEF lo, hi
<1>6. 5 \in 1 .. Len(p) /\ 6 \in 1 .. Len(p)
  BY LenProperties
<1>7. /\ q \in Seq(Byte) /\ Len(q) = Len(p)
      /\ \A l \in 1 .. Len(p) : q[l] = IF l = 5 THEN lo ELSE p[l]
  BY <1>4, <1>6, ExceptSeq
<1> HIDE DEF q
<1>8. /\ r \in Seq(Byte) /\ Len(r) = Len(p)
      /\ \A l \in 1 .. Len(p) : r[l] = IF l = 6 THEN hi ELSE q[l]
  BY <1>4, <1>6, <1>7, ExceptSeq
<1> HIDE DEF r
<1>9. WordSum(q) = w + lo
  <2>1. Replaces(q, p, 5, lo)
    BY <1>7 DEF Replaces
  <2>2. Weight(5) = 1
    BY DEF Weight
  <2>3. WordSum(q) = WordSum(p) + Weight(5) * (lo - p[5])
    BY <1>6, <1>7, <2>1, OneByteChanged
  <2> QED BY <1>1, <1>4, <2>2, <2>3 DEF w
<1>10. WordSum(r) = WordSum(q) + 256 * hi
  <2>1. Replaces(r, q, 6, hi)
    BY <1>7, <1>8 DEF Replaces
  <2>2. Weight(6) = 256
    BY DEF Weight
  <2>3. WordSum(r) = WordSum(q) + Weight(6) * (hi - q[6])
    BY <1>6, <1>7, <1>8, <2>1, OneByteChanged
  <2>4. q[6] = 0
    BY <1>6, <1>7
  <2>5. WordSum(q) \in Nat
    BY <1>1, <1>4, <1>9
  <2> QED BY <1>4, <2>2, <2>3, <2>4, <2>5
<1>11. WordSum(r) = w + c
  BY <1>1, <1>4, <1>9, <1>10
<1>12. EndAround(w + c, 65535)
  <2>1. PICK k \in Nat : w = 65535 * k + x
    BY <1>1 DEF EndAround
  <2>2. w + c = 65535 * k + 65535
    BY <1>3, <2>1
  <2>3. w + c # 0 /\ w + c \in Nat
    BY <1>1, <2>2
  <2> QED BY <2>2, <2>3, EndAroundIs
<1>13. in_cksum(r) = 0
  BY <1>8, <1>11, <1>12, ZeroChecksum
<1>14. \A l \in 1 .. Len(p) : l # 5 /\ l # 6 => r[l] = p[l]
  BY <1>7, <1>8
<1> QED BY <1>5, <1>8, <1>13, <1>14

(* The change is odd, or 256 times an odd number, and too small for a      *)
(* multiple of 65535.                                                      *)
LEMMA NoMultiple ==
  ASSUME NEW old \in Nat, old <= 255, NEW k \in Nat, NEW m \in Nat
  PROVE  /\ 65535 * m + 65535 # (65535 * k + 65535) + 1 * ((255 - old) - old)
         /\ 65535 * m + 65535 # (65535 * k + 65535) + 256 * ((255 - old) - old)
<1>1. PICK d \in Int : d = (255 - old) - old /\ -255 <= d /\ d <= 255 /\ d # 0
  OBVIOUS
<1>2. 65535 * m + 65535 # (65535 * k + 65535) + 1 * d
  <2> SUFFICES ASSUME 65535 * m = 65535 * k + d PROVE FALSE
    BY <1>1
  <2>1. m < k + 1 /\ k < m + 1
    BY <1>1
  <2> QED BY <1>1, <2>1
<1>3. 65535 * m + 65535 # (65535 * k + 65535) + 256 * d
  <2> SUFFICES ASSUME 65535 * m = 65535 * k + 256 * d PROVE FALSE
    BY <1>1
  <2>1. m < k + 1 /\ k < m + 1
    BY <1>1
  <2> QED BY <1>1, <2>1
<1> QED BY <1>1, <1>2, <1>3

(* Inverting one byte of a packet that passes makes it fail.               *)
LEMMA FlipFails ==
  ASSUME NEW p \in Seq(Byte), Len(p) <= 65534, in_cksum(p) = 0, NEW i \in 1 .. Len(p)
  PROVE  /\ FlipBits(p, i) \in Seq(Byte) /\ Len(FlipBits(p, i)) = Len(p)
         /\ \A l \in 1 .. Len(p) : FlipBits(p, i)[l] = IF l = i THEN 255 - p[i] ELSE p[l]
         /\ in_cksum(FlipBits(p, i)) # 0
<1>1. PICK old \in Nat : old = p[i] /\ old <= 255
  BY ByteAt
<1>2. PICK b \in Byte : b = 255 - old /\ b \in Nat
  <2>1. 255 - old \in Nat /\ 255 - old <= 255
    BY <1>1
  <2> QED BY <2>1, IsByte
<1> DEFINE r == [p EXCEPT ![i] = b]
<1>3. FlipBits(p, i) = r
  BY <1>1, <1>2 DEF FlipBits
<1>4. /\ r \in Seq(Byte) /\ Len(r) = Len(p)
      /\ \A l \in 1 .. Len(p) : r[l] = IF l = i THEN b ELSE p[l]
  BY ExceptSeq
<1> HIDE DEF r
<1>5. WordSum(r) = WordSum(p) + Weight(i) * (b - p[i])
  <2>1. Replaces(r, p, i, b)
    BY <1>4 DEF Replaces
  <2> QED BY <1>4, <2>1, OneByteChanged
<1>6. ASSUME in_cksum(r) = 0 PROVE FALSE
  <2>1. EndAround(WordSum(p), 65535) /\ EndAround(WordSum(r), 65535)
    BY <1>4, <1>6, ZeroChecksum
  <2>2. PICK k \in Nat : WordSum(p) = 65535 * k + 65535
    BY <2>1 DEF EndAround
  <2>3. PICK m \in Nat : WordSum(r) = 65535 * m + 65535
    BY <2>1 DEF EndAround
  <2>4. Weight(i) = 1 \/ Weight(i) = 256
    BY DEF Weight
  <2>5. CASE Weight(i) = 1
    <3>1. 65535 * m + 65535 = (65535 * k + 65535) + 1 * ((255 - old) - old)
      BY <1>1, <1>2, <1>5, <2>2, <2>3, <2>5
    <3> QED BY <1>1, <3>1, NoMultiple
  <2>6. CASE Weight(i) = 256
    <3>1. 65535 * m + 65535 = (65535 * k + 65535) + 256 * ((255 - old) - old)
      BY <1>1, <1>2, <1>5, <2>2, <2>3, <2>6
    <3> QED BY <1>1, <3>1, NoMultiple
  <2> QED BY <2>4, <2>5, <2>6
<1> QED BY <1>1, <1>2, <1>3, <1>4, <1>6

-----------------------------------------------------------------------------
(* Where the fields stand.                                                 *)

(* ntohl undoes htonl.                                                     *)
LEMMA SwappedTwice ==
  ASSUME NEW n \in [1 .. 4 -> Byte]
  PROVE  /\ n \in Seq(Byte) /\ Len(n) = 4
         /\ Swapped(n) \in [1 .. 4 -> Byte] /\ Swapped(n) \in Seq(Byte) /\ Len(Swapped(n)) = 4
         /\ Swapped(Swapped(n)) = n
<1>1. ASSUME NEW m \in [1 .. 4 -> Byte]
      PROVE  m \in Seq(Byte) /\ Len(m) = 4
  <2>1. m \in Seq(Byte)
    <3>1. m \in [1 .. 4 -> Byte] /\ [1 .. 4 -> Byte] \in {[1 .. l -> Byte] : l \in Nat}
      OBVIOUS
    <3> HIDE DEF Byte
    <3> QED BY <3>1, SeqDef, Zenon
  <2>2. Len(m) \in Nat /\ DOMAIN m = 1 .. Len(m) /\ DOMAIN m = 1 .. 4
    BY <1>1, <2>1, LenProperties
  <2>3. 4 \in 1 .. Len(m) /\ ~(Len(m) \in 1 .. Len(m) /\ Len(m) \notin 1 .. 4)
    BY <2>2
  <2> QED BY <2>1, <2>2, <2>3
<1>2. ASSUME NEW m \in [1 .. 4 -> Byte]
      PROVE  /\ Swapped(m) = [i \in 1 .. 4 |-> m[5 - i]]
             /\ Swapped(m) \in [1 .. 4 -> Byte]
  <2>1. Swapped(m) = [i \in 1 .. 4 |-> m[(4 - i) + 1]]
    BY <1>1 DEF Swapped, Reverse
  <2>2. \A i \in 1 .. 4 : (4 - i) + 1 = 5 - i /\ 5 - i \in 1 .. 4
    OBVIOUS
  <2> QED BY <2>1, <2>2
<1>3. Swapped(Swapped(n)) = n
  <2>1. Swapped(Swapped(n)) = [i \in 1 .. 4 |-> Swapped(n)[5 - i]]
    BY <1>2
  <2>2. \A i \in 1 .. 4 : 5 - i \in 1 .. 4 /\ 5 - (5 - i) = i
    OBVIOUS
  <2>3. \A i \in 1 .. 4 : Swapped(n)[5 - i] = n[i]
    BY <1>2, <2>2
  <2> QED BY <2>1, <2>3
<1> QED BY <1>1, <1>2, <1>3

(* Sequence s stands in packet p, after its first k bytes.                 *)
StandsAt(s, p, k) ==
  /\ s \in Seq(Byte) /\ k + Len(s) <= Len(p)
  /\ \A i \in 1 .. Len(s) : p[k + i] = s[i]

(* memcpy takes what stands there.                                         *)
LEMMA BytesAre ==
  ASSUME NEW p \in Seq(Byte), NEW s, NEW k \in Nat, StandsAt(s, p, k)
  PROVE  Bytes(p, k, Len(s)) = s
<1>1. s \in Seq(Byte) /\ k + Len(s) <= Len(p) /\ \A i \in 1 .. Len(s) : p[k + i] = s[i]
  BY DEF StandsAt
<1>2. PICK n \in Nat : n = Len(s)
  BY <1>1, LenProperties
<1>3. \A i \in k + 1 .. k + n : p[i] \in Byte
  <2> SUFFICES ASSUME NEW i \in k + 1 .. k + n PROVE p[i] \in Byte
    OBVIOUS
  <2>1. i \in 1 .. Len(p)
    BY <1>1, <1>2, LenProperties
  <2> QED BY <2>1, ElementOfSeq
<1> DEFINE t == SubSeq(p, k + 1, k + n)
<1>4. /\ t \in Seq(Byte)
      /\ Len(t) = IF k + 1 <= k + n THEN (k + n) - (k + 1) + 1 ELSE 0
      /\ \A i \in 1 .. (k + n) - (k + 1) + 1 : t[i] = p[(k + 1) + i - 1]
  BY <1>2, <1>3, SubSeqProperties
<1>5. Len(t) = n /\ (k + n) - (k + 1) + 1 = n
  BY <1>2, <1>4
<1>6. \A i \in 1 .. n : t[i] = s[i]
  <2> SUFFICES ASSUME NEW i \in 1 .. n PROVE t[i] = s[i]
    OBVIOUS
  <2>1. (k + 1) + i - 1 = k + i
    BY <1>2
  <2>2. t[i] = p[k + i]
    BY <1>4, <1>5, <2>1
  <2> QED BY <1>1, <1>2, <2>2
<1> HIDE DEF t
<1>7. t = s
  BY <1>1, <1>2, <1>4, <1>5, <1>6, SeqEqual
<1> QED BY <1>2, <1>7 DEF t, Bytes

(* What stands in a sequence stands, shifted, in a sequence that contains  *)
(* that one.                                                               *)
LEMMA StandsWithin ==
  ASSUME NEW p \in Seq(Byte), NEW d, NEW k \in Nat, StandsAt(d, p, k),
         NEW s, NEW j \in Nat, StandsAt(s, d, j)
  PROVE  StandsAt(s, p, k + j)
<1>1. /\ s \in Seq(Byte) /\ d \in Seq(Byte)
      /\ j + Len(s) <= Len(d) /\ k + Len(d) <= Len(p)
      /\ \A i \in 1 .. Len(d) : p[k + i] = d[i]
      /\ \A i \in 1 .. Len(s) : d[j + i] = s[i]
  BY DEF StandsAt
<1>2. Len(s) \in Nat /\ Len(d) \in Nat /\ Len(p) \in Nat
  BY <1>1, LenProperties
<1>3. ASSUME NEW i \in 1 .. Len(s)
      PROVE  p[(k + j) + i] = s[i]
  <2>1. j + i \in 1 .. Len(d) /\ k + (j + i) = (k + j) + i
    BY <1>1, <1>2
  <2> QED BY <1>1, <2>1
<1>4. (k + j) + Len(s) <= Len(p)
  BY <1>1, <1>2
<1> QED BY <1>1, <1>3, <1>4 DEF StandsAt

(* Both parts of a concatenation stand in it.                              *)
LEMMA ConcatStands ==
  ASSUME NEW s \in Seq(Byte), NEW t \in Seq(Byte)
  PROVE  /\ s \o t \in Seq(Byte) /\ Len(s \o t) = Len(s) + Len(t)
         /\ StandsAt(s, s \o t, 0) /\ StandsAt(t, s \o t, Len(s))
<1> DEFINE u == s \o t
<1>1. /\ u \in Seq(Byte) /\ Len(u) = Len(s) + Len(t)
      /\ \A i \in 1 .. Len(s) + Len(t) : u[i] = IF i <= Len(s) THEN s[i] ELSE t[i - Len(s)]
  BY ConcatProperties
<1>2. Len(s) \in Nat /\ Len(t) \in Nat
  BY LenProperties
<1> HIDE DEF u
<1>3. StandsAt(s, u, 0)
  <2>1. \A i \in 1 .. Len(s) : 0 + i = i /\ i \in 1 .. Len(s) + Len(t) /\ i <= Len(s)
    BY <1>2
  <2> QED BY <1>1, <1>2, <2>1 DEF StandsAt
<1>4. StandsAt(t, u, Len(s))
  <2> SUFFICES ASSUME NEW i \in 1 .. Len(t) PROVE u[Len(s) + i] = t[i]
    BY <1>1, <1>2 DEF StandsAt
  <2>1. /\ Len(s) + i \in 1 .. Len(s) + Len(t) /\ ~(Len(s) + i <= Len(s))
        /\ (Len(s) + i) - Len(s) = i
    BY <1>2
  <2> QED BY <1>1, <2>1
<1> QED BY <1>1, <1>3, <1>4 DEF u

(* A packet as create_packet leaves it.                                    *)
IsPacket(p, seq_num, flag, data) ==
  /\ p \in Seq(Byte) /\ Len(p) = 7 + Len(data) /\ Len(p) <= 1407
  /\ StandsAt(Swapped(seq_num), p, 0)
  /\ p[7] = FlagByte[flag]
  /\ StandsAt(data, p, 7)
  /\ in_cksum(p) = 0

(* The bytes of the flags.                                                 *)
LEMMA FlagBytes ==
  /\ DOMAIN FlagByte = {"DATA_PACKET", "RR", "SREJ", "SEND_FILE", "OK_FILENAME",
                         "BAD_FILENAME", "EOF_FLAG"}
  /\ FlagByte["DATA_PACKET"] = 3 /\ FlagByte["RR"] = 5 /\ FlagByte["SREJ"] = 6
  /\ FlagByte["SEND_FILE"] = 7 /\ FlagByte["OK_FILENAME"] = 8
  /\ FlagByte["BAD_FILENAME"] = 9 /\ FlagByte["EOF_FLAG"] = 10
BY DEF FlagByte

(* The flag of a header is read as it was written; inverted, it is none.   *)
LEMMA FlagRead ==
  ASSUME NEW p, NEW flag \in DOMAIN FlagByte
  PROVE  /\ p[7] = FlagByte[flag] => Flag(p) = flag
         /\ p[7] = 255 - FlagByte[flag] => Flag(p) = "GARBLED"
<1>1. get_flag(p) = p[7]
  BY DEF get_flag, SEQ_LEN, CHK_LEN
<1> DEFINE known == {f \in DOMAIN FlagByte : FlagByte[f] = p[7]}
<1>2. Flag(p) = IF known = {} THEN "GARBLED" ELSE CHOOSE f \in known : TRUE
  BY <1>1 DEF Flag
<1>3. ASSUME p[7] = FlagByte[flag] PROVE Flag(p) = flag
  <2>1. known = {flag}
    BY <1>3, FlagBytes
  <2> HIDE DEF known
  <2> QED BY <1>2, <2>1
<1>4. ASSUME p[7] = 255 - FlagByte[flag] PROVE Flag(p) = "GARBLED"
  <2>1. known = {}
    BY <1>4, FlagBytes
  <2> HIDE DEF known
  <2> QED BY <1>2, <2>1
<1> QED BY <1>3, <1>4

(* create_packet puts every part where the getters look for it, and the    *)
(* checksum over all of it.                                                *)
LEMMA CreatedPacket ==
  ASSUME NEW seq_num \in [1 .. 4 -> Byte], NEW flag \in DOMAIN FlagByte,
         NEW data \in Seq(Byte), Len(data) <= 1400
  PROVE  IsPacket(create_packet(seq_num, flag, data), seq_num, flag, data)
<1> DEFINE s == Swapped(seq_num)
           z == <<0, 0>>
           f == <<FlagByte[flag]>>
           p == ((s \o z) \o f) \o data
           r == WithChecksum(p)
<1>1. FlagByte[flag] \in Byte
  <2>1. FlagByte[flag] \in Nat /\ FlagByte[flag] <= 255
    BY FlagBytes
  <2> QED BY <2>1, IsByte
<1>2. s \in Seq(Byte) /\ Len(s) = 4
  BY SwappedTwice
<1>3. z \in Seq(Byte) /\ Len(z) = 2 /\ z[1] = 0 /\ z[2] = 0
  BY DEF Byte
<1>4. f \in Seq(Byte) /\ Len(f) = 1 /\ f[1] = FlagByte[flag]
  BY <1>1
<1>5. create_packet(seq_num, flag, data) = r
  BY DEF create_packet
<1> HIDE DEF s, z, f
<1> DEFINE sz == s \o z
           szf == sz \o f
<1>6. sz \in Seq(Byte) /\ Len(sz) = 6 /\ StandsAt(s, sz, 0) /\ StandsAt(z, sz, 4)
  <2>1. /\ sz \in Seq(Byte) /\ Len(sz) = Len(s) + Len(z)
        /\ StandsAt(s, sz, 0) /\ StandsAt(z, sz, Len(s))
    <3>1. s \in Seq(Byte) /\ z \in Seq(Byte)
      BY <1>2, <1>3
    <3> QED BY <3>1, ConcatStands
  <2> HIDE DEF sz
  <2> QED BY <1>2, <1>3, <2>1
<1> HIDE DEF sz
<1>7. szf \in Seq(Byte) /\ Len(szf) = 7 /\ StandsAt(sz, szf, 0) /\ StandsAt(f, szf, 6)
  <2>1. /\ szf \in Seq(Byte) /\ Len(szf) = Len(sz) + Len(f)
        /\ StandsAt(sz, szf, 0) /\ StandsAt(f, szf, Len(sz))
    <3>1. sz \in Seq(Byte) /\ f \in Seq(Byte)
      BY <1>4, <1>6
    <3> QED BY <3>1, ConcatStands
  <2> HIDE DEF szf
  <2> QED BY <1>4, <1>6, <2>1
<1> HIDE DEF szf
<1>8. p = szf \o data
  BY DEF sz, szf
<1>9. p \in Seq(Byte) /\ Len(p) = 7 + Len(data) /\ StandsAt(szf, p, 0) /\ StandsAt(data, p, 7)
  <2>1. szf \in Seq(Byte)
    BY <1>7
  <2> DEFINE u == szf \o data
  <2>2. /\ u \in Seq(Byte) /\ Len(u) = Len(szf) + Len(data)
        /\ StandsAt(szf, u, 0) /\ StandsAt(data, u, Len(szf))
    BY <2>1, ConcatStands
  <2>3. p = u
    BY <1>8
  <2> HIDE DEF u, p
  <2> QED BY <1>7, <2>2, <2>3
<1> HIDE DEF p, r
<1>10. StandsAt(sz, p, 0 + 0) /\ StandsAt(f, p, 0 + 6)
  BY <1>7, <1>9, StandsWithin
<1>11. StandsAt(s, p, 0 + 0) /\ StandsAt(z, p, 0 + 4)
  BY <1>6, <1>9, <1>10, StandsWithin
<1>12. p[5] = 0 /\ p[6] = 0
  BY <1>3, <1>11 DEF StandsAt
<1>13. p[7] = FlagByte[flag]
  BY <1>4, <1>10 DEF StandsAt
<1>14. Len(data) \in Nat
  BY LenProperties
<1>15. /\ r \in Seq(Byte) /\ Len(r) = Len(p) /\ in_cksum(r) = 0
       /\ \A l \in 1 .. Len(p) : l # 5 /\ l # 6 => r[l] = p[l]
  <2>1. 6 <= Len(p) /\ Len(p) <= 65534
    BY <1>9, <1>14
  <2>2. p \in Seq(Byte)
    BY <1>9
  <2> QED BY <1>12, <2>1, <2>2, ChecksumPasses DEF r
<1>16. StandsAt(s, r, 0)
  BY <1>2, <1>9, <1>11, <1>14, <1>15 DEF StandsAt
<1>17. r[7] = FlagByte[flag]
  BY <1>9, <1>13, <1>14, <1>15
<1>18. StandsAt(data, r, 7)
  BY <1>9, <1>14, <1>15 DEF StandsAt
<1> QED BY <1>5, <1>9, <1>14, <1>15, <1>16, <1>17, <1>18 DEF IsPacket, s

-----------------------------------------------------------------------------
(* Reading them.                                                           *)

(* A number is read in host order where it was put in network order.       *)
LEMMA NumberAt ==
  ASSUME NEW p \in Seq(Byte), NEW k \in Nat, NEW n \in [1 .. 4 -> Byte], StandsAt(Swapped(n), p, k)
  PROVE  Swapped(Bytes(p, k, 4)) = n
<1>1. Len(Swapped(n)) = 4 /\ Swapped(Swapped(n)) = n
  BY SwappedTwice
<1>2. Bytes(p, k, 4) = Swapped(n)
  BY <1>1, BytesAre
<1> QED BY <1>1, <1>2

(* get_seqnum undoes create_packet.                                        *)
LEMMA SeqnumRead ==
  ASSUME NEW p, NEW seq_num \in [1 .. 4 -> Byte], NEW flag, NEW data,
         IsPacket(p, seq_num, flag, data)
  PROVE  get_seqnum(p) = seq_num
BY NumberAt DEF IsPacket, get_seqnum, SEQ_LEN

(* What follows the header is the data.                                    *)
LEMMA DataRead ==
  ASSUME NEW p, NEW seq_num, NEW flag, NEW data \in Seq(Byte), IsPacket(p, seq_num, flag, data)
  PROVE  Bytes(p, HEADER_LEN, Len(p) - HEADER_LEN) = data
<1>1. Len(data) \in Nat
  BY LenProperties
<1>2. HEADER_LEN = 7 /\ Len(p) - HEADER_LEN = Len(data)
  BY <1>1 DEF IsPacket, HEADER_LEN
<1>3. Bytes(p, 7, Len(data)) = data
  BY BytesAre DEF IsPacket
<1> QED BY <1>2, <1>3

(* get_RR and get_SREJ undo create_RR_packet.                              *)
LEMMA RRRead ==
  ASSUME NEW p, NEW seq_num, NEW flag, NEW n \in [1 .. 4 -> Byte],
         IsPacket(p, seq_num, flag, Swapped(n))
  PROVE  get_RR(p) = n
BY NumberAt DEF IsPacket, get_RR, HEADER_LEN

(* The length of the name that is sent fits a byte; a short name is sent   *)
(* whole.                                                                  *)
LEMMA NameSent ==
  ASSUME NEW filename \in Seq(Byte)
  PROVE  /\ SentName(filename) \in Seq(Byte)
         /\ name_len(filename) = Len(SentName(filename))
         /\ Len(SentName(filename)) \in Nat /\ Len(SentName(filename)) <= 255
         /\ Len(filename) <= 255 => SentName(filename) = filename
<1> DEFINE n == name_len(filename)
<1>1. Len(filename) \in Nat
  BY LenProperties
<1>2. n \in Nat /\ n <= 255 /\ n <= Len(filename)
  BY <1>1 DEF name_len
<1>3. Len(filename) <= 255 => n = Len(filename)
  BY <1>1 DEF name_len
<1>4. SentName(filename) = SubSeq(filename, 1, n)
  BY DEF SentName
<1> HIDE DEF n
<1>5. \A i \in 1 .. n : filename[i] \in Byte
  <2> SUFFICES ASSUME NEW i \in 1 .. n PROVE filename[i] \in Byte
    OBVIOUS
  <2>1. i \in 1 .. Len(filename)
    BY <1>1, <1>2
  <2> QED BY <2>1, ElementOfSeq
<1>6. /\ SubSeq(filename, 1, n) \in Seq(Byte)
      /\ Len(SubSeq(filename, 1, n)) = n
  BY <1>2, <1>5, SubSeqProperties
<1>7. Len(filename) <= 255 => SubSeq(filename, 1, n) = filename
  BY <1>3, SubSeqFull
<1> QED BY <1>2, <1>4, <1>6, <1>7 DEF n

(* create_file_data: each of its parts stands at its offset.               *)
LEMMA FileData ==
  ASSUME NEW filename \in Seq(Byte),
         NEW w \in [1 .. 4 -> Byte], NEW b \in [1 .. 4 -> Byte]
  PROVE  LET d == create_file_data(filename, w, b)
             name == SentName(filename) IN
         /\ d \in Seq(Byte) /\ Len(d) = 9 + Len(name)
         /\ StandsAt(Swapped(w), d, 0) /\ StandsAt(Swapped(b), d, 4)
         /\ d[9] = Len(name) /\ StandsAt(name, d, 9)
<1> DEFINE name == SentName(filename)
           sw == Swapped(w)
           sb == Swapped(b)
           l == <<Len(name)>>
           swb == sw \o sb
           swbl == swb \o l
           d == swbl \o name
<1>0. name \in Seq(Byte) /\ name_len(filename) = Len(name) /\ Len(name) \in Nat /\ Len(name) <= 255
  BY NameSent
<1>1. create_file_data(filename, w, b) = d
  BY <1>0, Zenon DEF create_file_data
<1> HIDE DEF name
<1>2. sw \in Seq(Byte) /\ Len(sw) = 4 /\ sb \in Seq(Byte) /\ Len(sb) = 4
  BY SwappedTwice
<1>3. l \in Seq(Byte) /\ Len(l) = 1 /\ l[1] = Len(name)
  <2>1. Len(name) \in Byte
    BY <1>0, IsByte
  <2> QED BY <2>1
<1> HIDE DEF sw, sb, l, swb, swbl, d
<1>4. swb \in Seq(Byte) /\ Len(swb) = 8 /\ StandsAt(sw, swb, 0) /\ StandsAt(sb, swb, 4)
  <2>1. /\ swb \in Seq(Byte) /\ Len(swb) = Len(sw) + Len(sb)
        /\ StandsAt(sw, swb, 0) /\ StandsAt(sb, swb, Len(sw))
    BY <1>2, ConcatStands DEF swb
  <2> QED BY <1>2, <2>1
<1>5. swbl \in Seq(Byte) /\ Len(swbl) = 9 /\ StandsAt(swb, swbl, 0) /\ StandsAt(l, swbl, 8)
  <2>1. /\ swbl \in Seq(Byte) /\ Len(swbl) = Len(swb) + Len(l)
        /\ StandsAt(swb, swbl, 0) /\ StandsAt(l, swbl, Len(swb))
    BY <1>3, <1>4, ConcatStands DEF swbl
  <2> QED BY <1>3, <1>4, <2>1
<1>6. d \in Seq(Byte) /\ Len(d) = 9 + Len(name) /\ StandsAt(swbl, d, 0) /\ StandsAt(name, d, 9)
  <2>1. /\ d \in Seq(Byte) /\ Len(d) = Len(swbl) + Len(name)
        /\ StandsAt(swbl, d, 0) /\ StandsAt(name, d, Len(swbl))
    BY <1>0, <1>5, ConcatStands DEF d
  <2> QED BY <1>5, <2>1
<1>7. StandsAt(swb, d, 0 + 0) /\ StandsAt(l, d, 0 + 8)
  BY <1>5, <1>6, StandsWithin
<1>8. StandsAt(sw, d, 0 + 0) /\ StandsAt(sb, d, 0 + 4)
  BY <1>4, <1>6, <1>7, StandsWithin
<1>9. d[9] = Len(name)
  BY <1>3, <1>7 DEF StandsAt
<1> QED BY <1>1, <1>6, <1>8, <1>9 DEF sw, sb, name

(* get_windowSize and get_bufferSize undo create_file_data, and so does    *)
(* get_filename, as far as the name was sent.                              *)
LEMMA RequestRead ==
  ASSUME NEW p, NEW seq_num, NEW flag, NEW filename \in Seq(Byte),
         NEW w \in [1 .. 4 -> Byte], NEW b \in [1 .. 4 -> Byte],
         IsPacket(p, seq_num, flag, create_file_data(filename, w, b))
  PROVE  get_windowSize(p) = w /\ get_bufferSize(p) = b /\ get_filename(p) = SentName(filename)
<1> DEFINE name == SentName(filename)
           d == create_file_data(filename, w, b)
<1>1. /\ d \in Seq(Byte) /\ Len(d) = 9 + Len(name)
      /\ StandsAt(Swapped(w), d, 0) /\ StandsAt(Swapped(b), d, 4)
      /\ d[9] = Len(name) /\ StandsAt(name, d, 9)
  BY FileData
<1>0. Len(name) \in Nat /\ name \in Seq(Byte)
  BY NameSent
<1>2. p \in Seq(Byte) /\ StandsAt(d, p, 7)
  BY DEF IsPacket
<1> HIDE DEF d, name
<1>3. StandsAt(Swapped(w), p, 7 + 0) /\ StandsAt(Swapped(b), p, 7 + 4) /\ StandsAt(name, p, 7 + 9)
  BY <1>1, <1>2, StandsWithin
<1>4. p[16] = Len(name)
  <2>1. 9 \in 1 .. Len(d)
    BY <1>0, <1>1
  <2>2. p[7 + 9] = d[9]
    BY <1>2, <2>1 DEF StandsAt
  <2> QED BY <1>1, <2>2
<1>5. StandsAt(Swapped(w), p, 7) /\ StandsAt(Swapped(b), p, 11) /\ StandsAt(name, p, 16)
  BY <1>3
<1>6. get_windowSize(p) = w
  BY <1>2, <1>5, NumberAt DEF get_windowSize, HEADER_LEN, WINDOW_LEN
<1>7. get_bufferSize(p) = b
  <2>1. get_bufferSize(p) = Swapped(Bytes(p, 11, 4))
    BY DEF get_bufferSize, HEADER_LEN, WINDOW_LEN, BUFFER_LEN
  <2> QED BY <1>2, <1>5, <2>1, NumberAt
<1>8. get_filename(p) = name
  <2>1. get_filename(p) = Bytes(p, 16, p[16])
    BY DEF get_filename, get_fileLen, HEADER_LEN, WINDOW_LEN, BUFFER_LEN, FILE_LEN
  <2> QED BY <1>2, <1>4, <1>5, <2>1, BytesAre
<1> QED BY <1>6, <1>7, <1>8 DEF name

(* A packet that passes, with flag in its header.                          *)
Passes(p, flag) ==
  /\ flag \in DOMAIN FlagByte
  /\ p \in Seq(Byte) /\ 7 <= Len(p) /\ Len(p) <= 1407
  /\ p[7] = FlagByte[flag]
  /\ in_cksum(p) = 0

(* A packet passes once it is put together.                                *)
LEMMA PacketPasses ==
  ASSUME NEW p, NEW seq_num, NEW flag \in DOMAIN FlagByte, NEW data \in Seq(Byte),
         IsPacket(p, seq_num, flag, data)
  PROVE  Passes(p, flag)
BY LenProperties DEF IsPacket, Passes

(* The sequence numbers of the headers without one are numbers, too.       *)
LEMMA ZeroNumber ==
  /\ Zero \in [1 .. 4 -> Byte]
  /\ \A n \in [1 .. 4 -> Byte] : LowByte(n) \in [1 .. 4 -> Byte]
<1>1. ASSUME NEW b \in Byte
      PROVE  <<b, 0, 0, 0>> \in [1 .. 4 -> Byte]
  <2>1. 0 \in Byte
    BY DEF Byte
  <2> QED BY <2>1
<1>2. 0 \in Byte
  BY DEF Byte
<1>3. \A n \in [1 .. 4 -> Byte] : n[1] \in Byte
  OBVIOUS
<1> QED BY <1>1, <1>2, <1>3 DEF Zero, LowByte

(* Every packet of the two programs passes its test and reads as it was    *)
(* meant.                                                                  *)
LEMMA SentAndRead ==
  ASSUME NEW c \in Content
  PROVE  Passes(Encoded(c), c.flag) /\ ReadsAs(Encoded(c), c)
<1> DEFINE p == Encoded(c)
<1>1. \A n \in Numbers : n \in [1 .. 4 -> Byte]
  BY PacketBytesAssumption
<1>2. <<>> \in Seq(Byte) /\ Len(<<>>) <= 1400
  <2>1. Len(<<>>) = 0
    BY EmptySeq
  <2> QED BY <2>1, EmptySeq
<1>3. ASSUME NEW seq_num \in [1 .. 4 -> Byte], NEW flag \in DOMAIN FlagByte, NEW data \in Seq(Byte),
             Len(data) <= 1400, p = create_packet(seq_num, flag, data)
      PROVE  IsPacket(p, seq_num, flag, data) /\ Passes(p, flag) /\ Flag(p) = flag
  <2> HIDE DEF p
  <2>1. IsPacket(p, seq_num, flag, data)
    BY <1>3, CreatedPacket
  <2>2. Passes(p, flag)
    BY <2>1, PacketPasses
  <2> QED BY <2>1, <2>2, FlagRead DEF Passes
<1>4. ASSUME NEW seq_num \in [1 .. 4 -> Byte], NEW flag \in DOMAIN FlagByte,
             p = create_packet(seq_num, flag, <<>>)
      PROVE  Passes(p, flag) /\ Flag(p) = flag
  <2> DEFINE none == <<>>
  <2>1. none \in Seq(Byte) /\ Len(none) <= 1400 /\ p = create_packet(seq_num, flag, none)
    BY <1>2, <1>4
  <2> HIDE DEF none, p
  <2> QED BY <1>3, <2>1
<1>5. CASE c \in [flag : {"DATA_PACKET"}, num : Numbers,
                  data : {s \in Payloads : PayloadFits(s)}]
  <2>1. c.flag = "DATA_PACKET" /\ c.num \in Numbers /\ c.data \in Payloads /\ PayloadFits(c.data)
    BY <1>5
  <2>2. p = create_packet(c.num, c.flag, c.data)
    BY <2>1 DEF Encoded
  <2>3. /\ c.num \in [1 .. 4 -> Byte] /\ c.flag \in DOMAIN FlagByte
        /\ c.data \in Seq(Byte) /\ Len(c.data) <= 1400
    <3>1. c.data \in Seq(Byte) /\ 7 + Len(c.data) <= 1407
      BY <2>1, PacketBytesAssumption DEF PayloadFits, HEADER_LEN, MAXBUF
    <3>2. Len(c.data) \in Nat
      BY <3>1, LenProperties
    <3> QED BY <1>1, <2>1, <3>1, <3>2, FlagBytes
  <2>4. IsPacket(p, c.num, c.flag, c.data) /\ Passes(p, c.flag) /\ Flag(p) = c.flag
    BY <1>3, <2>2, <2>3
  <2> HIDE DEF p
  <2>5. get_seqnum(p) = c.num /\ Bytes(p, HEADER_LEN, Len(p) - HEADER_LEN) = c.data
    BY <2>3, <2>4, SeqnumRead, DataRead
  <2>6. ReadsAs(p, c)
    BY <2>1, <2>4, <2>5 DEF ReadsAs
  <2> QED BY <2>4, <2>6 DEF p
<1>6. CASE c \in [flag : {"RR", "SREJ"}, own : Numbers, num : Numbers]
  <2>1. c.flag \in {"RR", "SREJ"} /\ c.own \in Numbers /\ c.num \in Numbers
    BY <1>6
  <2>2. p = create_packet(c.own, c.flag, Swapped(c.num))
    BY <2>1 DEF Encoded
  <2>3. /\ c.own \in [1 .. 4 -> Byte] /\ c.num \in [1 .. 4 -> Byte] /\ c.flag \in DOMAIN FlagByte
        /\ Swapped(c.num) \in Seq(Byte) /\ Len(Swapped(c.num)) <= 1400
    <3>1. c.own \in [1 .. 4 -> Byte] /\ c.num \in [1 .. 4 -> Byte]
      BY <1>1, <2>1
    <3>2. Swapped(c.num) \in Seq(Byte) /\ Len(Swapped(c.num)) = 4
      BY <3>1, SwappedTwice
    <3>3. c.flag \in DOMAIN FlagByte
      BY <2>1, FlagBytes
    <3> QED BY <3>1, <3>2, <3>3
  <2>4. IsPacket(p, c.own, c.flag, Swapped(c.num)) /\ Passes(p, c.flag) /\ Flag(p) = c.flag
    BY <1>3, <2>2, <2>3
  <2> HIDE DEF p
  <2>5. get_RR(p) = c.num
    BY <2>3, <2>4, RRRead
  <2>6. ReadsAs(p, c)
    BY <2>1, <2>4, <2>5 DEF ReadsAs
  <2> QED BY <2>4, <2>6 DEF p
<1>7. CASE c \in [flag : {"EOF_FLAG"}, own : Numbers]
  <2>1. c.flag = "EOF_FLAG" /\ c.own \in Numbers
    BY <1>7
  <2>2. p = create_packet(LowByte(c.own), c.flag, <<>>)
    BY <2>1 DEF Encoded
  <2>3. LowByte(c.own) \in [1 .. 4 -> Byte] /\ c.flag \in DOMAIN FlagByte
    BY <1>1, <2>1, FlagBytes, ZeroNumber
  <2>4. Passes(p, c.flag) /\ Flag(p) = c.flag
    BY <1>4, <2>2, <2>3
  <2> HIDE DEF p
  <2>5. ReadsAs(p, c)
    BY <2>1, <2>4 DEF ReadsAs
  <2> QED BY <2>4, <2>5 DEF p
<1>8. CASE c \in [flag : {"OK_FILENAME", "BAD_FILENAME"}]
  <2>1. c.flag \in {"OK_FILENAME", "BAD_FILENAME"}
    BY <1>8
  <2>2. p = create_packet(Zero, c.flag, <<>>)
    BY <2>1 DEF Encoded
  <2>3. c.flag \in DOMAIN FlagByte
    BY <2>1, FlagBytes
  <2>4. Passes(p, c.flag) /\ Flag(p) = c.flag
    BY <1>4, <2>2, <2>3, ZeroNumber
  <2> HIDE DEF p
  <2>5. ReadsAs(p, c)
    BY <2>1, <2>4 DEF ReadsAs
  <2> QED BY <2>4, <2>5 DEF p
<1>9. CASE c \in [flag : {"SEND_FILE"}, name : Names, window : Numbers, buffer : Numbers]
  <2>1. c.flag = "SEND_FILE" /\ c.name \in Names /\ c.window \in Numbers /\ c.buffer \in Numbers
    BY <1>9
  <2> DEFINE d == create_file_data(c.name, c.window, c.buffer)
  <2>2. p = create_packet(Zero, c.flag, d)
    BY <2>1 DEF Encoded
  <2>3. /\ c.window \in [1 .. 4 -> Byte] /\ c.buffer \in [1 .. 4 -> Byte]
        /\ c.name \in Seq(Byte) /\ c.flag \in DOMAIN FlagByte
    BY <1>1, <2>1, PacketBytesAssumption, FlagBytes
  <2>4. /\ d \in Seq(Byte) /\ Len(d) = 9 + Len(SentName(c.name))
        /\ Len(SentName(c.name)) \in Nat /\ Len(SentName(c.name)) <= 255
    <3>1. d \in Seq(Byte) /\ Len(d) = 9 + Len(SentName(c.name))
      BY <2>3, FileData, Zenon
    <3> QED BY <2>3, <3>1, NameSent
  <2> HIDE DEF d
  <2>5. Len(d) <= 1400
    BY <2>3, <2>4
  <2>6. IsPacket(p, Zero, c.flag, d) /\ Passes(p, c.flag) /\ Flag(p) = c.flag
    BY <1>3, <2>2, <2>3, <2>4, <2>5, ZeroNumber
  <2> HIDE DEF p
  <2>7. get_windowSize(p) = c.window /\ get_bufferSize(p) = c.buffer /\ get_filename(p) = SentName(c.name)
    BY <2>3, <2>6, RequestRead DEF d
  <2>8. NameFits(c.name) => get_filename(p) = c.name
    <3>1. Len(c.name) \in Nat
      BY <2>3, LenProperties
    <3>2. NameFits(c.name) => Len(c.name) <= 255
      BY <3>1 DEF NameFits, MAXFILE
    <3> QED BY <2>3, <2>7, <3>2, NameSent
  <2>9. ReadsAs(p, c)
    BY <2>1, <2>6, <2>7, <2>8 DEF ReadsAs
  <2> QED BY <2>6, <2>9 DEF p
<1> QED BY <1>5, <1>6, <1>7, <1>8, <1>9 DEF Content

(* With any byte inverted it does not pass, and its flag is the same or    *)
(* none.                                                                   *)
LEMMA FlippedPacket ==
  ASSUME NEW p, NEW flag, Passes(p, flag), NEW i \in DOMAIN p
  PROVE  /\ FlipBits(p, i) \in Seq(Byte) /\ Len(FlipBits(p, i)) <= 1407
         /\ in_cksum(FlipBits(p, i)) # 0
         /\ Flag(FlipBits(p, i)) \in {flag, "GARBLED"}
<1> DEFINE r == FlipBits(p, i)
<1>1. /\ flag \in DOMAIN FlagByte /\ p \in Seq(Byte) /\ Len(p) \in Nat /\ 7 \in 1 .. Len(p)
      /\ i \in 1 .. Len(p) /\ Len(p) <= 1407 /\ Len(p) <= 65534
  BY LenProperties DEF Passes
<1>2. /\ r \in Seq(Byte) /\ Len(r) = Len(p) /\ in_cksum(r) # 0
      /\ \A l \in 1 .. Len(p) : r[l] = IF l = i THEN 255 - p[i] ELSE p[l]
  BY <1>1, FlipFails DEF Passes
<1> HIDE DEF r
<1>3. r[7] = FlagByte[flag] \/ r[7] = 255 - FlagByte[flag]
  BY <1>1, <1>2 DEF Passes
<1>4. Flag(r) \in {flag, "GARBLED"}
  BY <1>1, <1>3, FlagRead
<1> QED BY <1>1, <1>2, <1>4 DEF r

-----------------------------------------------------------------------------
(* The packet is the one that was put together, or that one with a byte    *)
(* inverted.                                                               *)
BytesInv ==
  /\ content \in Content
  /\ \/ stage = "CREATED" /\ packet = Encoded(content)
     \/ /\ stage = "FLIPPED"
        /\ \E i \in DOMAIN Encoded(content) : packet = FlipBits(Encoded(content), i)

(* FlipByte is the only step: BytesInv is an invariant.                    *)
THEOREM BytesInvariant == Spec => []BytesInv
<1>1. Init => BytesInv
  BY DEF Init, BytesInv
<1>2. BytesInv /\ [Next]_vars => BytesInv'
  <2> SUFFICES ASSUME BytesInv, [Next]_vars PROVE BytesInv'
    OBVIOUS
  <2>1. CASE FlipByte
    <3>1. packet = Encoded(content)
      BY <2>1 DEF BytesInv, FlipByte
    <3>2. content' = content /\ stage' = "FLIPPED"
      BY <2>1 DEF FlipByte
    <3>3. \E i \in DOMAIN Encoded(content') : packet' = FlipBits(Encoded(content'), i)
      BY <2>1, <3>1, <3>2, Zenon DEF FlipByte
    <3> QED BY <3>2, <3>3 DEF BytesInv
  <2>2. CASE UNCHANGED vars
    BY <2>2 DEF BytesInv, vars
  <2> QED BY <2>1, <2>2 DEF Next
<1> QED BY <1>1, <1>2, PTL DEF Spec

(* ReadAsSent: what a getter of packet.c reads is what its sender put in,  *)
(* and the checksum test passes, for every number and every payload with   *)
(* PayloadFits; of the name, if NameFits.  Both are in the statement, as   *)
(* nothing in the programs ensures them.                                   *)
THEOREM ReadingRight == Spec => []ReadAsSent
<1>1. BytesInv => ReadAsSent
  BY SentAndRead DEF BytesInv, ReadAsSent, Passes
<1> QED BY <1>1, BytesInvariant, PTL

(* FlippedAsModelled: whichever byte errorFlipBits inverts, module Packets *)
(* has it right: the checksum fails and no other known flag appears.       *)
THEOREM FlipsAreModelled == Spec => []FlippedAsModelled
<1>1. BytesInv => FlippedAsModelled
  <2> SUFFICES ASSUME BytesInv, stage = "FLIPPED"
               PROVE  [flag |-> Flag(packet), num |-> 0, len |-> 0, ok |-> in_cksum(packet) = 0]
                        \in P!Flipped(content)
    BY DEF FlippedAsModelled
  <2>1. PICK i \in DOMAIN Encoded(content) : packet = FlipBits(Encoded(content), i)
    BY DEF BytesInv
  <2>2. Passes(Encoded(content), content.flag)
    BY SentAndRead DEF BytesInv
  <2>3. in_cksum(packet) # 0 /\ Flag(packet) \in {content.flag, "GARBLED"}
    BY <2>1, <2>2, FlippedPacket
  <2> QED BY <2>3 DEF P!Flipped
<1> QED BY <1>1, BytesInvariant, PTL

(* SumsLikeReference: in_cksum loses no carry, of an intact packet or of   *)
(* one with a byte inverted.                                               *)
THEOREM SumsRight == Spec => []SumsLikeReference
<1>1. BytesInv => SumsLikeReference
  <2> SUFFICES ASSUME BytesInv PROVE SumsLikeReference
    OBVIOUS
  <2>1. Passes(Encoded(content), content.flag)
    BY SentAndRead DEF BytesInv
  <2>2. packet \in Seq(Byte) /\ Len(packet) <= 1407
    BY <2>1, FlippedPacket DEF BytesInv, Passes
  <2>3. Len(packet) <= 65534
    BY <2>2, LenProperties
  <2> QED BY <2>2, <2>3, CarriesAdded DEF SumsLikeReference
<1> QED BY <1>1, BytesInvariant, PTL
=============================================================================
