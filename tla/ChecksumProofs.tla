--------------------------- MODULE ChecksumProofs ---------------------------
(***************************************************************************)
(* No carry is lost, and the checksum is that of RFC 1071 exactly for the  *)
(* buffers without an odd last byte, for every width of a byte, every      *)
(* length and every content of the buffer.                                 *)
(***************************************************************************)
EXTENDS Checksum, Integers, TLAPS

-----------------------------------------------------------------------------
(* Widths and division. *)

\* The four widths are numbers, each above the one before.
LEMMA Widths ==
  /\ Half \in Nat /\ Half > Byte /\ Half > 3
  /\ Dword \in Nat /\ Dword > Half
  /\ Qword \in Nat /\ Qword > Dword
<1>1. Byte \in Nat /\ Byte > 1
  BY ChecksumAssumption
<1>2. Half \in Nat /\ Half > Byte /\ Half > 3
  <2>1. Byte * Byte \in Nat /\ Byte * Byte >= 2 * Byte
    BY <1>1
  <2> QED BY <1>1, <2>1 DEF Half
<1>3. Dword \in Nat /\ Dword > Half
  <2>1. Half * Half \in Nat /\ Half * Half >= 2 * Half
    BY <1>2
  <2> QED BY <1>2, <2>1 DEF Dword
<1>4. Qword \in Nat /\ Qword > Dword
  <2>1. Dword * Dword \in Nat /\ Dword * Dword >= 2 * Dword
    BY <1>2, <1>3
  <2> QED BY <1>2, <1>3, <2>1 DEF Qword
<1> QED BY <1>2, <1>3, <1>4

\* The two halves of a word of e * d values.
LEMMA Halves ==
  ASSUME NEW d \in Nat, d > 0, NEW e \in Nat, NEW x \in 0..(e * d - 1)
  PROVE  /\ x \div d \in 0..(e - 1) /\ x % d \in 0..(d - 1)
         /\ x = d * (x \div d) + (x % d)
<1> DEFINE q == x \div d
<1>1. q \in Nat /\ x % d \in 0..(d - 1) /\ x = d * q + (x % d)
  OBVIOUS
<1>2. d * q < e * d
  BY <1>1
<1> HIDE DEF q
<1>3. q < e
  <2>1. SUFFICES ASSUME q >= e PROVE FALSE
    BY <1>1
  <2>2. d * q >= d * e
    BY <2>1, <1>1
  <2> QED BY <2>2, <1>1, <1>2
<1> QED BY <1>1, <1>3 DEF q

-----------------------------------------------------------------------------
(* One adc. *)

\* One's complement addition stays in range, and gives zero only for zeros.
LEMMA OnesPlusType ==
  ASSUME NEW m \in Nat, m > 1, NEW a \in 0..(m - 1), NEW b \in 0..(m - 1)
  PROVE  /\ OnesPlus(a, b, m) \in 0..(m - 1)
         /\ OnesPlus(a, b, m) = 0 <=> a = 0 /\ b = 0
BY DEF OnesPlus

\* Adding nothing changes nothing.
LEMMA OnesPlusZero ==
  ASSUME NEW m \in Nat, NEW a \in 0..(m - 1)
  PROVE  OnesPlus(a, 0, m) = a
BY DEF OnesPlus

\* adc r, w with another accumulator o beside r: register, accumulator and the
\* new flag stand for the sum to which w has been added.
LEMMA AdcStandsFor ==
  ASSUME NEW m \in Nat, m > 1,
         NEW r \in 0..(m - 1), NEW o \in 0..(m - 1), NEW c \in {0, 1},
         NEW w \in 0..(m - 1), NEW s \in 0..(m - 1),
         StandsFor(r + o + c, s, m)
  PROVE  StandsFor(Wrap(r + w + c, m) + o + Carry(r + w + c, m),
                   OnesPlus(s, w, m), m)
<1>1. CASE r + w + c >= m
  <2>1. Wrap(r + w + c, m) = r + w + c - m /\ Carry(r + w + c, m) = 1
    BY <1>1 DEF Wrap, Carry
  <2>2. CASE s + w >= m
    BY <2>1, <2>2, <1>1 DEF StandsFor, OnesPlus
  <2>3. CASE ~ (s + w >= m)
    BY <2>1, <2>3, <1>1 DEF StandsFor, OnesPlus
  <2> QED BY <2>2, <2>3
<1>2. CASE ~ (r + w + c >= m)
  <2>1. Wrap(r + w + c, m) = r + w + c /\ Carry(r + w + c, m) = 0
    BY <1>2 DEF Wrap, Carry
  <2>2. CASE s + w >= m
    BY <2>1, <2>2, <1>2 DEF StandsFor, OnesPlus
  <2>3. CASE ~ (s + w >= m)
    BY <2>1, <2>3, <1>2 DEF StandsFor, OnesPlus
  <2> QED BY <2>2, <2>3
<1> QED BY <1>1, <1>2

\* add a, b; adc a, 0: no carry is left over, and no zero is made of non-zeros.
LEMMA AddFoldIs ==
  ASSUME NEW m \in Nat, m > 1, NEW a \in 0..(m - 1), NEW b \in 0..(m - 1)
  PROVE  AddFold(a, b, m) = OnesPlus(a, b, m)
BY DEF AddFold, OnesPlus, Wrap, Carry

\* The four 16-bit words of a 64-bit one are in range, and so is their sum.
LEMMA Plus16Type ==
  ASSUME NEW a \in 0..(Half - 1), NEW w \in 0..(Qword - 1)
  PROVE  Plus16(a, w) \in 0..(Half - 1)
<1> DEFINE lo == w % Dword
           hi == w \div Dword
           s1 == OnesPlus(a, lo % Half, Half)
           s2 == OnesPlus(s1, lo \div Half, Half)
           s3 == OnesPlus(s2, hi % Half, Half)
<1>1. lo \in 0..(Dword - 1) /\ hi \in 0..(Dword - 1)
  BY Widths, Halves DEF Qword
<1> HIDE DEF lo, hi
<1>2. /\ lo % Half \in 0..(Half - 1) /\ lo \div Half \in 0..(Half - 1)
      /\ hi % Half \in 0..(Half - 1) /\ hi \div Half \in 0..(Half - 1)
  BY <1>1, Widths, Halves DEF Dword
<1>3. s1 \in 0..(Half - 1)
  BY <1>2, Widths, OnesPlusType
<1> HIDE DEF s1
<1>4. s2 \in 0..(Half - 1)
  BY <1>2, <1>3, Widths, OnesPlusType
<1> HIDE DEF s2
<1>5. s3 \in 0..(Half - 1)
  BY <1>2, <1>4, Widths, OnesPlusType
<1> HIDE DEF s3
<1>6. OnesPlus(s3, hi \div Half, Half) \in 0..(Half - 1)
  BY <1>2, <1>5, Widths, OnesPlusType
<1> QED BY <1>6 DEF Plus16, s3, s2, s1, lo, hi

\* What a tail loop reads, and what it adds, is a 64-bit number.
LEMMA ReadType ==
  ASSUME NEW l \in Tail, NEW w \in Read(l)
  PROVE  w \in 0..(Qword - 1) /\ Added(l, w) \in 0..(Qword - 1)
<1>1. CASE l = "loop_8"
  BY <1>1, ChecksumAssumption DEF Read, Added
<1>2. CASE l = "loop_2"
  BY <1>2, Widths DEF Read, Added
<1>3. CASE l = "loop_1"
  <2>1. Byte \in Nat /\ Byte > 1 /\ w \in 0..(Byte - 1)
    BY <1>3, ChecksumAssumption DEF Read
  <2>2. w * Byte \in Nat /\ w * Byte <= Byte * Byte
    BY <2>1
  <2> QED BY <1>3, <2>1, <2>2, Widths DEF Half, Added
<1> QED BY <1>1, <1>2, <1>3 DEF Tail

-----------------------------------------------------------------------------
(* One lemma for each action. *)

\* The first label of either routine.
LEMMA InitHolds == Init => IInv
BY ChecksumAssumption, Widths
   DEF Init, IInv, TypeOK, OwnLoops, NeverSaturated, NoCarryLost, InFlight, StandsFor,
       Loop, Block

\* jb.
LEMMA SkipHolds == IInv /\ Skip => IInv'
BY DEF Skip, IInv, TypeOK, OwnLoops, NeverSaturated, NoCarryLost, InFlight, StandsFor,
       Loop, Block, Size, After

\* Entering a block: the comparison has cleared the carry flag.
LEMMA EnterHolds == IInv /\ Enter => IInv'
<1> SUFFICES ASSUME IInv, Enter PROVE IInv'
  OBVIOUS
<1> USE DEF IInv, Enter
<1>1. TypeOK'
  BY DEF TypeOK, OwnLoops, Block, Size
<1>2. OwnLoops'
  BY DEF TypeOK, OwnLoops, Block, Size
<1>3. NeverSaturated'
  BY Widths DEF TypeOK, NeverSaturated
<1>4. NoCarryLost'
  BY DEF TypeOK, NoCarryLost, InFlight
<1> QED BY <1>1, <1>2, <1>3, <1>4

\* A pair of adc: the carry goes from r8 into r10 and on into the next r8.
LEMMA AddPairHolds == IInv /\ AddPair => IInv'
<1> SUFFICES ASSUME IInv, AddPair PROVE IInv'
  OBVIOUS
<1>1. PICK v \in Words, w \in Words :
        LET c == Carry(r8 + v + cf, Qword) IN
          /\ r8' = Wrap(r8 + v + cf, Qword)
          /\ r10' = Wrap(r10 + w + c, Qword)
          /\ cf' = Carry(r10 + w + c, Qword)
          /\ sum' = OnesPlus(OnesPlus(sum, v, Qword), w, Qword)
          /\ sum16' = Plus16(Plus16(sum16, v), w)
  BY DEF AddPair
<1> DEFINE c == Carry(r8 + v + cf, Qword)
           t == OnesPlus(sum, v, Qword)
           u == Plus16(sum16, v)
<1>2. /\ Qword \in Nat /\ Qword > 1
      /\ v \in 0..(Qword - 1) /\ w \in 0..(Qword - 1)
      /\ r8 \in 0..(Qword - 1) /\ r10 \in 0..(Qword - 1) /\ cf \in {0, 1}
      /\ sum \in 0..(Qword - 1) /\ sum16 \in 0..(Half - 1)
  BY Widths, ChecksumAssumption DEF IInv, TypeOK
<1>3. /\ r8' \in 0..(Qword - 1) /\ c \in {0, 1}
      /\ \/ c = 0 /\ r8' = r8 + v + cf
         \/ c = 1 /\ r8' + Qword = r8 + v + cf
  BY <1>1, <1>2 DEF Wrap, Carry
<1>4. /\ r10' = Wrap(r10 + w + c, Qword) /\ cf' = Carry(r10 + w + c, Qword)
      /\ sum' = OnesPlus(t, w, Qword) /\ sum16' = Plus16(u, w)
  BY <1>1
<1>5. t \in 0..(Qword - 1) /\ u \in 0..(Half - 1)
  BY <1>2, OnesPlusType, Plus16Type
<1>6. StandsFor(r8' + r10 + c, t, Qword)
  <2>1. StandsFor(r8 + r10 + cf, sum, Qword)
    BY DEF IInv, NoCarryLost, InFlight, AddPair
  <2>2. StandsFor(Wrap(r8 + v + cf, Qword) + r10 + Carry(r8 + v + cf, Qword), t, Qword)
    BY <1>2, <2>1, AdcStandsFor
  <2> QED BY <1>1, <2>2
<1> HIDE DEF c, t, u
<1>7. /\ r10' \in 0..(Qword - 1) /\ cf' \in {0, 1}
      /\ \/ cf' = 0 /\ r10' = r10 + w + c
         \/ cf' = 1 /\ r10' + Qword = r10 + w + c
  <2>1. CASE r10 + w + c >= Qword
    BY <2>1, <1>2, <1>3, <1>4 DEF Wrap, Carry
  <2>2. CASE ~ (r10 + w + c >= Qword)
    BY <2>2, <1>2, <1>3, <1>4 DEF Wrap, Carry
  <2> QED BY <2>1, <2>2
<1>8. sum' \in 0..(Qword - 1) /\ sum16' \in 0..(Half - 1)
  BY <1>2, <1>4, <1>5, OnesPlusType, Plus16Type
<1>9. TypeOK'
  BY <1>3, <1>7, <1>8 DEF AddPair, IInv, TypeOK
<1>10. OwnLoops'
  BY DEF AddPair, IInv, OwnLoops
<1>11. NeverSaturated'
  <2> SUFFICES ASSUME r8' = Qword - 1, cf' = 1, r10' = Qword - 1 PROVE FALSE
    BY DEF AddPair, NeverSaturated
  <2>1. r10 = Qword - 1 /\ c = 1
    BY <1>2, <1>3, <1>7
  <2>2. r8 = Qword - 1 /\ cf = 1
    BY <1>2, <1>3, <2>1
  <2> QED BY <2>1, <2>2 DEF AddPair, IInv, NeverSaturated
<1>12. NoCarryLost'
  <2>1. StandsFor(r10 + r8' + c, t, Qword)
    <3>1. r10 + r8' + c = r8' + r10 + c
      BY <1>2, <1>3
    <3> QED BY <3>1, <1>6
  <2>2. StandsFor(r10' + r8' + cf', sum', Qword)
    BY <1>2, <1>3, <1>4, <1>5, <2>1, AdcStandsFor
  <2>3. StandsFor(r8' + r10' + cf', sum', Qword)
    <3>1. r10' + r8' + cf' = r8' + r10' + cf'
      BY <1>3, <1>7
    <3> QED BY <3>1, <2>2
  <2> QED BY <2>3 DEF AddPair, NoCarryLost, InFlight
<1> QED BY <1>9, <1>10, <1>11, <1>12 DEF IInv

\* An adc of the fallback, which leaves r10 at zero.
LEMMA AddWordHolds == IInv /\ AddWord => IInv'
<1> SUFFICES ASSUME IInv, AddWord PROVE IInv'
  OBVIOUS
<1>1. PICK w \in Words :
        /\ r8' = Wrap(r8 + w + cf, Qword)
        /\ cf' = Carry(r8 + w + cf, Qword)
        /\ sum' = OnesPlus(sum, w, Qword)
        /\ sum16' = Plus16(sum16, w)
  BY DEF AddWord
<1>2. /\ Qword \in Nat /\ Qword > 1 /\ w \in 0..(Qword - 1)
      /\ r8 \in 0..(Qword - 1) /\ r10 \in 0..(Qword - 1) /\ cf \in {0, 1}
      /\ sum \in 0..(Qword - 1) /\ sum16 \in 0..(Half - 1)
  BY Widths, ChecksumAssumption DEF IInv, TypeOK
<1>3. /\ r8' \in 0..(Qword - 1)
      /\ \/ cf' = 0 /\ r8' = r8 + w + cf
         \/ cf' = 1 /\ r8' + Qword = r8 + w + cf
  BY <1>1, <1>2 DEF Wrap, Carry
<1>4. sum' \in 0..(Qword - 1) /\ sum16' \in 0..(Half - 1)
  BY <1>1, <1>2, OnesPlusType, Plus16Type
<1>5. TypeOK'
  BY <1>3, <1>4 DEF AddWord, IInv, TypeOK
<1>6. OwnLoops'
  BY DEF AddWord, IInv, OwnLoops
<1>7. NeverSaturated'
  <2> SUFFICES ASSUME r8' = Qword - 1, cf' = 1 PROVE FALSE
    BY DEF AddWord, NeverSaturated
  <2>1. r8 = Qword - 1 /\ cf = 1
    BY <1>2, <1>3
  <2> QED BY <2>1 DEF AddWord, IInv, NeverSaturated
<1>8. NoCarryLost'
  <2>1. StandsFor(r8 + r10 + cf, sum, Qword)
    BY DEF IInv, NoCarryLost, InFlight, AddWord
  <2>2. StandsFor(r8' + r10 + cf', sum', Qword)
    BY <1>1, <1>2, <2>1, AdcStandsFor
  <2> QED BY <2>2 DEF AddWord, NoCarryLost, InFlight
<1> QED BY <1>5, <1>6, <1>7, <1>8 DEF IInv

\* The end of a block.  The flag goes through both accumulators and then is
\* clear, because not all of them were at their maximum.
LEMMA EndBlockHolds == IInv /\ EndBlock => IInv'
<1> SUFFICES ASSUME IInv, EndBlock PROVE IInv'
  OBVIOUS
<1> DEFINE c == Carry(r8 + cf, Qword)
<1>1. /\ Qword \in Nat /\ Qword > 1 /\ 0 \in 0..(Qword - 1)
      /\ r8 \in 0..(Qword - 1) /\ r10 \in 0..(Qword - 1) /\ cf \in {0, 1}
      /\ sum \in 0..(Qword - 1)
      /\ r8 + cf = r8 + 0 + cf
  BY Widths DEF IInv, TypeOK
<1>2. /\ r8' \in 0..(Qword - 1) /\ c \in {0, 1}
      /\ \/ c = 0 /\ r8' = r8 + cf
         \/ c = 1 /\ r8' + Qword = r8 + cf
  BY <1>1 DEF EndBlock, Wrap, Carry
<1>3. routine = "avx2" => r10 + c < Qword
  BY <1>1, <1>2 DEF EndBlock, IInv, NeverSaturated
<1>4. routine = "sse2" => c = 0 /\ r10' = 0 /\ r10 = 0
  BY <1>1, <1>2 DEF EndBlock, IInv, NeverSaturated, OwnLoops
<1>5. routine = "avx2" => r10' = r10 + c
  BY <1>1, <1>2, <1>3 DEF EndBlock, Wrap
<1> HIDE DEF c
<1>6. r10' = r10 + c /\ r10' \in 0..(Qword - 1)
  <2>1. CASE routine = "avx2"
    BY <2>1, <1>1, <1>2, <1>3, <1>5
  <2>2. CASE routine = "sse2"
    BY <2>2, <1>1, <1>4
  <2> QED BY <2>1, <2>2 DEF IInv, TypeOK
<1>8. TypeOK'
  <2>2. rem' \in Nat
    BY DEF EndBlock, IInv, TypeOK
  <2>3. label' \in Loop
    BY DEF EndBlock, IInv, TypeOK, OwnLoops, Loop, After, Block
  <2> QED BY <1>2, <1>6, <2>2, <2>3 DEF EndBlock, IInv, TypeOK
<1>9. OwnLoops'
  BY <1>4 DEF EndBlock, IInv, TypeOK, OwnLoops, Block, After, Size
<1>10. NeverSaturated'
  BY DEF EndBlock, NeverSaturated
<1>11. NoCarryLost'
  <2>1. StandsFor(r8 + r10 + cf, sum, Qword)
    BY DEF IInv, NoCarryLost, InFlight, EndBlock
  <2>2. StandsFor(r8' + r10 + c, sum, Qword)
    <3>1. StandsFor(Wrap(r8 + 0 + cf, Qword) + r10 + Carry(r8 + 0 + cf, Qword),
                    OnesPlus(sum, 0, Qword), Qword)
      BY <1>1, <2>1, AdcStandsFor
    <3>2. OnesPlus(sum, 0, Qword) = sum
      BY <1>1 DEF OnesPlus
    <3> QED BY <1>1, <3>1, <3>2 DEF EndBlock, c
  <2>3. r8' + r10 + c = r8' + r10'
    BY <1>1, <1>2, <1>6
  <2>4. r8' + r10' + 0 = r8' + r10'
    BY <1>8 DEF TypeOK
  <2> QED BY <2>2, <2>3, <2>4 DEF EndBlock, NoCarryLost, InFlight
<1> QED BY <1>8, <1>9, <1>10, <1>11 DEF IInv

\* A tail loop folds the carry at once: r8 takes the one's complement sum.
LEMMA AddTailHolds == IInv /\ AddTail => IInv'
<1> SUFFICES ASSUME IInv, AddTail PROVE IInv'
  OBVIOUS
<1>1. label \in Tail /\ block = 0
  BY DEF AddTail, IInv, OwnLoops, Tail, Block
<1>2. PICK b \in Read(label) :
        /\ r8' = AddFold(r8, Added(label, b), Qword)
        /\ sum' = OnesPlus(sum, Added(label, b), Qword)
        /\ sum16' = Plus16(sum16, b)
        /\ last' = IF label = "loop_1" THEN b ELSE last
  BY DEF AddTail
<1> DEFINE w == Added(label, b)
<1>3. /\ Qword \in Nat /\ Qword > 1
      /\ w \in 0..(Qword - 1) /\ b \in 0..(Qword - 1)
      /\ r8 \in 0..(Qword - 1) /\ r10 \in 0..(Qword - 1)
      /\ sum \in 0..(Qword - 1) /\ sum16 \in 0..(Half - 1)
  BY <1>1, Widths, ReadType DEF IInv, TypeOK
<1>10. /\ r8' = AddFold(r8, w, Qword)
       /\ sum' = OnesPlus(sum, w, Qword)
       /\ sum16' = Plus16(sum16, b)
  BY <1>2
<1> HIDE DEF w
<1>4. /\ r8' \in 0..(Qword - 1)
      /\ r8' + r10 = Wrap(r8 + w + 0, Qword) + r10 + Carry(r8 + w + 0, Qword)
  BY <1>10, <1>3 DEF AddFold, Wrap, Carry
<1>5. sum' \in 0..(Qword - 1) /\ sum16' \in 0..(Half - 1)
  BY <1>10, <1>3, OnesPlusType, Plus16Type
<1>6. TypeOK'
  <2>1. rem' \in Nat
    BY <1>1 DEF AddTail, IInv, TypeOK, Tail, Size
  <2>2. label' \in Loop \cup {"fold", "ret", "ret_zero"}
    BY DEF AddTail, IInv, TypeOK
  <2>3. last' \in 0..(Byte - 1)
    BY <1>2 DEF IInv, TypeOK, Read
  <2> QED BY <1>1, <1>4, <1>5, <2>1, <2>2, <2>3 DEF AddTail, IInv, TypeOK
<1>7. OwnLoops'
  BY <1>1 DEF AddTail, IInv, OwnLoops
<1>8. NeverSaturated'
  BY <1>1 DEF AddTail, NeverSaturated
<1>9. NoCarryLost'
  <2>1. StandsFor(r8 + r10 + 0, sum, Qword)
    BY <1>1 DEF IInv, NoCarryLost, InFlight
  <2>2. StandsFor(Wrap(r8 + w + 0, Qword) + r10 + Carry(r8 + w + 0, Qword),
                  OnesPlus(sum, w, Qword), Qword)
    BY <1>3, <2>1, AdcStandsFor
  <2>3. r8' + r10 + 0 = r8' + r10
    BY <1>3, <1>4
  <2> QED BY <1>1, <1>10, <1>4, <2>2, <2>3 DEF AddTail, NoCarryLost, InFlight
<1> QED BY <1>6, <1>7, <1>8, <1>9 DEF IInv

\* Both accumulators together are a 64-bit number.
LEMMA CombinedType ==
  ASSUME TypeOK
  PROVE  Combined \in 0..(Qword - 1)
<1>1. /\ Qword \in Nat /\ Qword > 1
      /\ r8 \in 0..(Qword - 1) /\ r10 \in 0..(Qword - 1)
  BY Widths DEF TypeOK
<1> QED BY <1>1, AddFoldIs, OnesPlusType DEF Combined

\* Folding yields sixteen bits, by way of thirty-two.
LEMMA FoldedType ==
  ASSUME NEW x \in 0..(Qword - 1)
  PROVE  Folded(x) \in 0..(Half - 1)
<1> DEFINE hi == x \div Dword
           lo == x % Dword
           eax == AddFold(hi, lo, Dword)
<1>1. hi \in 0..(Dword - 1) /\ lo \in 0..(Dword - 1)
  BY Widths, Halves DEF Qword
<1> HIDE DEF hi, lo
<1>2. eax \in 0..(Dword - 1)
  BY <1>1, Widths, AddFoldIs, OnesPlusType
<1> HIDE DEF eax
<1>3. eax \div Half \in 0..(Half - 1) /\ eax % Half \in 0..(Half - 1)
  BY <1>2, Widths, Halves DEF Dword
<1>4. AddFold(eax \div Half, eax % Half, Half) \in 0..(Half - 1)
  BY <1>3, Widths, AddFoldIs, OnesPlusType
<1> QED BY <1>4 DEF Folded, eax, hi, lo

\* Folding disturbs no accumulator.
LEMMA FoldHolds == IInv /\ Fold => IInv'
<1> SUFFICES ASSUME IInv, Fold PROVE IInv'
  OBVIOUS
<1>1. ax' \in 0..(Half - 1)
  <2>1. Folded(Combined) \in 0..(Half - 1)
    BY CombinedType, FoldedType DEF IInv
  <2> QED BY <2>1, Widths DEF Fold
<1>2. TypeOK'
  BY <1>1 DEF Fold, IInv, TypeOK
<1> QED BY <1>2 DEF Fold, IInv, OwnLoops, NeverSaturated, NoCarryLost, InFlight, Block

-----------------------------------------------------------------------------

\* The invariant holds throughout.
THEOREM Invariance == Spec => []IInv
<1>1. IInv /\ [Next]_vars => IInv'
  <2> SUFFICES ASSUME IInv, [Next]_vars PROVE IInv'
    OBVIOUS
  <2>1. CASE UNCHANGED vars
    BY <2>1 DEF vars, IInv, TypeOK, OwnLoops, NeverSaturated, NoCarryLost, InFlight
  <2> QED BY <2>1, SkipHolds, EnterHolds, AddPairHolds, AddWordHolds, EndBlockHolds,
             AddTailHolds, FoldHolds DEF Next
<1> QED BY InitHolds, <1>1, PTL DEF Spec

\* Registers keep their width, and no block is added whose bytes are not left.
THEOREM TypeCorrect == Spec => []TypeOK
<1>1. IInv => TypeOK
  BY DEF IInv
<1> QED BY Invariance, <1>1, PTL

\* The carry that adc hands from one accumulator to the other is never dropped,
\* however many blocks of whatever content there are.
THEOREM CarriesKept == Spec => []NoCarryLost
<1>1. IInv => NoCarryLost
  BY DEF IInv
<1> QED BY Invariance, <1>1, PTL

-----------------------------------------------------------------------------
(* The result.  Numbers that are congruent modulo 2^16 - 1, and zero       *)
(* together, fold to the same sixteen bits.                                *)

M == Half - 1

\* What makes a and b the same checksum.
Agree(a, b) == (\E k \in Int : a = b + k * M) /\ (a = 0 <=> b = 0)

\* 2^16 - 1 divides the other two moduli.
LEMMA Divides ==
  /\ M \in Nat /\ M > 0 /\ Half = M + 1
  /\ Dword - 1 = (Half + 1) * M
  /\ Qword - 1 = ((Dword + 1) * (Half + 1)) * M
<1>1. Half \in Nat /\ Half > 3 /\ Dword \in Nat
  BY Widths
<1>2. Dword - 1 = (Half + 1) * (Half - 1)
  BY <1>1 DEF Dword
<1>3. Qword - 1 = (Dword + 1) * (Dword - 1)
  BY <1>1 DEF Qword
<1>4. Qword - 1 = (Dword + 1) * ((Half + 1) * (Half - 1))
  BY <1>1, <1>2, <1>3
<1> QED BY <1>1, <1>2, <1>4 DEF M

\* Agreement is passed on.
LEMMA AgreeTrans ==
  ASSUME NEW a \in Int, NEW b \in Int, NEW c \in Int, Agree(a, b), Agree(b, c)
  PROVE  Agree(a, c)
<1>1. M \in Int
  BY Divides
<1> PICK k \in Int : a = b + k * M
  BY DEF Agree
<1> PICK l \in Int : b = c + l * M
  BY DEF Agree
<1>2. a = c + (k + l) * M /\ k + l \in Int
  BY <1>1
<1> QED BY <1>2 DEF Agree

\* A step of the sum over 16-bit words, and of the last fold.
LEMMA OnesPlusHalf ==
  ASSUME NEW a \in 0..(Half - 1), NEW b \in 0..(Half - 1), NEW c \in Nat,
         Agree(b, c)
  PROVE  /\ OnesPlus(b, a, Half) \in 0..(Half - 1)
         /\ Agree(OnesPlus(b, a, Half), c + a)
<1> DEFINE o == OnesPlus(b, a, Half)
<1>1. M \in Int /\ Half = M + 1 /\ M > 0
  BY Divides
<1>2. o \in 0..(Half - 1) /\ (o = 0 <=> b = 0 /\ a = 0)
  BY <1>1, OnesPlusType
<1> PICK k \in Int : b = c + k * M
  BY DEF Agree
<1>3. o = b + a \/ o = b + a - M
  BY <1>1 DEF OnesPlus
<1> HIDE DEF o
<1>4. o = c + a + k * M \/ o = c + a + (k - 1) * M
  BY <1>1, <1>2, <1>3
<1>5. o = 0 <=> c + a = 0
  BY <1>2 DEF Agree
<1>6. k - 1 \in Int
  OBVIOUS
<1> QED BY <1>2, <1>4, <1>5, <1>6 DEF Agree, o

\* The 64-bit words are added modulo a multiple of 2^16 - 1.
LEMMA OnesPlusQword ==
  ASSUME NEW a \in 0..(Qword - 1), NEW b \in 0..(Qword - 1)
  PROVE  Agree(a + b, OnesPlus(a, b, Qword))
<1> DEFINE o == OnesPlus(a, b, Qword)
           q == (Dword + 1) * (Half + 1)
<1>1. Qword - 1 = q * M /\ Qword \in Nat /\ Qword > 1 /\ M \in Int /\ q \in Int
  BY Divides, Widths
<1> HIDE DEF q
<1>2. o \in 0..(Qword - 1) /\ (o = 0 <=> a = 0 /\ b = 0)
  BY <1>1, OnesPlusType
<1>3. a + b = o + 0 * M \/ a + b = o + q * M
  BY <1>1 DEF OnesPlus
<1> HIDE DEF o
<1>4. a + b = 0 <=> o = 0
  BY <1>2
<1>5. \E k \in Int : a + b = o + k * M
  <2>1. CASE a + b = o + 0 * M
    BY <2>1
  <2>2. CASE a + b = o + q * M
    BY <2>2, <1>1
  <2> QED BY <2>1, <2>2, <1>3
<1> QED BY <1>4, <1>5 DEF Agree, o

\* A 64-bit number agrees with the sum of its four 16-bit words.
LEMMA FourWords ==
  ASSUME NEW w \in 0..(Qword - 1)
  PROVE  LET lo == w % Dword
             hi == w \div Dword
             words == (lo % Half) + (lo \div Half) + (hi % Half) + (hi \div Half)
         IN /\ lo % Half \in 0..(Half - 1) /\ lo \div Half \in 0..(Half - 1)
            /\ hi % Half \in 0..(Half - 1) /\ hi \div Half \in 0..(Half - 1)
            /\ Agree(words, w)
<1> DEFINE lo == w % Dword
           hi == w \div Dword
           a == lo % Half
           b == lo \div Half
           c == hi % Half
           d == hi \div Half
<1>1. lo \in 0..(Dword - 1) /\ hi \in 0..(Dword - 1) /\ w = Dword * hi + lo
  BY Widths, Halves DEF Qword
<1> HIDE DEF lo, hi
<1>2. /\ a \in 0..(Half - 1) /\ b \in 0..(Half - 1) /\ lo = Half * b + a
      /\ c \in 0..(Half - 1) /\ d \in 0..(Half - 1) /\ hi = Half * d + c
  BY <1>1, Widths, Halves DEF Dword
<1> HIDE DEF a, b, c, d
<1> DEFINE h == hi * (Half + 1)
<1>3. M \in Int /\ Half = M + 1 /\ M > 0 /\ Dword \in Nat /\ Dword = 1 + (Half + 1) * M
  BY Widths, Divides
<1>4. Dword * hi = hi + h * M /\ h \in Int
  <2>1. Dword * hi = hi + hi * ((Half + 1) * M)
    BY <1>1, <1>3
  <2>2. hi * ((Half + 1) * M) = h * M
    BY <1>1, <1>3
  <2> QED BY <2>1, <2>2, <1>1, <1>3
<1> HIDE DEF h
<1>5. lo = a + b + b * M /\ hi = c + d + d * M
  BY <1>2, <1>3
<1>6. a + b + c + d = w + (-(h + d + b)) * M /\ -(h + d + b) \in Int
  BY <1>1, <1>2, <1>3, <1>4, <1>5
<1>7. w = 0 <=> hi = 0 /\ lo = 0
  <2>1. Dword * hi \in Nat /\ (Dword * hi = 0 <=> hi = 0)
    BY <1>1, Widths
  <2> QED BY <2>1, <1>1
<1>8. (hi = 0 <=> c = 0 /\ d = 0) /\ (lo = 0 <=> a = 0 /\ b = 0)
  <2>1. /\ Half * d \in Nat /\ (Half * d = 0 <=> d = 0)
        /\ Half * b \in Nat /\ (Half * b = 0 <=> b = 0)
    BY <1>2, Widths
  <2> QED BY <2>1, <1>2
<1>9. a + b + c + d = 0 <=> w = 0
  BY <1>2, <1>7, <1>8
<1> QED BY <1>2, <1>6, <1>9 DEF Agree, a, b, c, d, lo, hi

\* Adding the four words adds the number.
LEMMA Plus16Agrees ==
  ASSUME NEW a \in 0..(Half - 1), NEW s \in Nat, Agree(a, s),
         NEW w \in 0..(Qword - 1)
  PROVE  Agree(Plus16(a, w), s + w)
<1> DEFINE lo == w % Dword
           hi == w \div Dword
           w1 == lo % Half
           w2 == lo \div Half
           w3 == hi % Half
           w4 == hi \div Half
           s1 == OnesPlus(a, w1, Half)
           s2 == OnesPlus(s1, w2, Half)
           s3 == OnesPlus(s2, w3, Half)
           s4 == OnesPlus(s3, w4, Half)
<1>1. /\ w1 \in 0..(Half - 1) /\ w2 \in 0..(Half - 1)
      /\ w3 \in 0..(Half - 1) /\ w4 \in 0..(Half - 1)
      /\ Agree(w1 + w2 + w3 + w4, w)
  BY FourWords
<1>2. s4 = Plus16(a, w)
  BY DEF Plus16
<1> HIDE DEF w1, w2, w3, w4
<1> DEFINE c1 == s + w1
           c2 == c1 + w2
           c3 == c2 + w3
           c4 == c3 + w4
<1>3. s1 \in 0..(Half - 1) /\ Agree(s1, c1) /\ c1 \in Nat
  BY <1>1, OnesPlusHalf
<1>4. c4 = s + (w1 + w2 + w3 + w4)
  BY <1>1
<1> HIDE DEF s1, c1
<1>5. s2 \in 0..(Half - 1) /\ Agree(s2, c2) /\ c2 \in Nat
  BY <1>1, <1>3, OnesPlusHalf
<1> HIDE DEF s2, c2
<1>6. s3 \in 0..(Half - 1) /\ Agree(s3, c3) /\ c3 \in Nat
  BY <1>1, <1>5, OnesPlusHalf
<1> HIDE DEF s3, c3
<1>7. s4 \in 0..(Half - 1) /\ Agree(s4, c4) /\ c4 \in Nat
  BY <1>1, <1>6, OnesPlusHalf
<1> HIDE DEF s4, c4
<1> DEFINE words == w1 + w2 + w3 + w4
<1>8. words \in Nat /\ c4 = s + words /\ Agree(words, w)
  BY <1>1, <1>4
<1> HIDE DEF words
<1>9. M \in Int
  BY Divides
<1> PICK k \in Int : s4 = c4 + k * M
  BY <1>7 DEF Agree
<1> PICK l \in Int : words = w + l * M
  BY <1>8 DEF Agree
<1>10. s4 = s + w + (k + l) * M /\ k + l \in Int
  BY <1>7, <1>8, <1>9
<1>11. s4 = 0 <=> s + w = 0
  BY <1>7, <1>8 DEF Agree
<1> QED BY <1>2, <1>10, <1>11 DEF Agree

\* Adding a word to both sums keeps them in agreement.
LEMMA AddAgrees ==
  ASSUME NEW a \in 0..(Half - 1), NEW s \in 0..(Qword - 1), Agree(a, s),
         NEW w \in 0..(Qword - 1)
  PROVE  /\ Plus16(a, w) \in 0..(Half - 1) /\ OnesPlus(s, w, Qword) \in 0..(Qword - 1)
         /\ Agree(Plus16(a, w), OnesPlus(s, w, Qword))
<1> DEFINE p == Plus16(a, w)
           o == OnesPlus(s, w, Qword)
           t == s + w
<1>1. Agree(p, t)
  BY Widths, Plus16Agrees
<1>2. Agree(t, o)
  BY OnesPlusQword
<1>3. Qword \in Nat /\ Qword > 1 /\ Half \in Nat
  BY Widths
<1>4. p \in 0..(Half - 1)
  BY Plus16Type
<1>5. o \in 0..(Qword - 1)
  BY <1>3, OnesPlusType
<1>6. t \in Int
  OBVIOUS
<1> HIDE DEF p, o, t
<1>7. Agree(p, o)
  BY <1>1, <1>2, <1>3, <1>4, <1>5, <1>6, AgreeTrans
<1> QED BY <1>4, <1>5, <1>7 DEF p, o

\* Folding a number of d * d values to one of d.
LEMMA FoldAgrees ==
  ASSUME NEW d \in Nat, d > 1, NEW q \in Int, d - 1 = q * M,
         NEW x \in 0..(d * d - 1)
  PROVE  LET f == AddFold(x \div d, x % d, d)
         IN f \in 0..(d - 1) /\ Agree(f, x)
<1> DEFINE hi == x \div d
           lo == x % d
           f == AddFold(hi, lo, d)
           h == hi * q
<1>1. hi \in 0..(d - 1) /\ lo \in 0..(d - 1) /\ x = d * hi + lo
  BY Halves
<1> HIDE DEF hi, lo
<1>2. f = OnesPlus(hi, lo, d)
  BY <1>1, AddFoldIs
<1>3. f \in 0..(d - 1) /\ (f = 0 <=> hi = 0 /\ lo = 0)
  BY <1>1, <1>2, OnesPlusType
<1>4. M \in Int
  BY Divides
<1>5. d * hi = hi + h * M /\ h \in Int
  <2>1. d * hi = hi + hi * (q * M)
    BY <1>1, <1>4
  <2>2. hi * (q * M) = h * M
    BY <1>1, <1>4
  <2> QED BY <2>1, <2>2, <1>1
<1>6. f = hi + lo \/ f = hi + lo - (d - 1)
  BY <1>1, <1>2 DEF OnesPlus
<1> HIDE DEF f, h
<1>7. \E k \in Int : f = x + k * M
  <2>1. CASE f = hi + lo
    <3>1. f = x + (-h) * M /\ -h \in Int
      BY <2>1, <1>1, <1>4, <1>5
    <3> QED BY <3>1
  <2>2. CASE f = hi + lo - (d - 1)
    <3>1. f = x + (-h - q) * M /\ -h - q \in Int
      BY <2>2, <1>1, <1>4, <1>5
    <3> QED BY <3>1
  <2> QED BY <2>1, <2>2, <1>6
<1>8. f = 0 <=> x = 0
  <2>1. d * hi \in Nat /\ (d * hi = 0 <=> hi = 0)
    BY <1>1
  <2> QED BY <2>1, <1>1, <1>3
<1> QED BY <1>3, <1>7, <1>8 DEF Agree, f, hi, lo

\* Two folds keep a 64-bit number up to agreement.
LEMMA FoldedAgrees ==
  ASSUME NEW x \in 0..(Qword - 1)
  PROVE  Agree(Folded(x), x)
<1> DEFINE eax == AddFold(x \div Dword, x % Dword, Dword)
           r == AddFold(eax \div Half, eax % Half, Half)
<1>1. /\ Dword \in Nat /\ Dword > 1 /\ Half + 1 \in Int /\ Dword - 1 = (Half + 1) * M
      /\ Half \in Nat /\ Half > 1 /\ 1 \in Int /\ Half - 1 = 1 * M
  BY Widths, Divides
<1>2. eax \in 0..(Dword - 1) /\ Agree(eax, x)
  BY <1>1, FoldAgrees DEF Qword
<1>3. Folded(x) = r
  BY DEF Folded
<1> HIDE DEF eax
<1>4. r \in 0..(Half - 1) /\ Agree(r, eax)
  BY <1>1, <1>2, FoldAgrees DEF Dword
<1> HIDE DEF r
<1>5. Agree(r, x)
  BY <1>2, <1>4, AgreeTrans
<1> QED BY <1>3, <1>5

\* Agreement leaves only one sum of sixteen bits.
LEMMA AgreeUnique ==
  ASSUME NEW a \in 0..(Half - 1), NEW b \in 0..(Half - 1), Agree(a, b)
  PROVE  a = b
<1>1. M \in Nat /\ M > 0 /\ a \in 0..M /\ b \in 0..M
  BY Divides DEF M
<1> PICK k \in Int : a = b + k * M
  BY DEF Agree
<1>2. CASE k = 0
  BY <1>1, <1>2
<1>3. CASE k > 0
  <2>1. k * M >= M
    BY <1>1, <1>3
  <2>2. a # 0 /\ b = 0
    BY <1>1, <2>1
  <2> QED BY <2>2 DEF Agree
<1>4. CASE k < 0
  <2>1. k * M <= -M
    <3>1. (-k) * M >= M
      BY <1>1, <1>4
    <3> QED BY <3>1, <1>1
  <2>2. a = 0 /\ b # 0
    BY <1>1, <2>1
  <2> QED BY <2>2 DEF Agree
<1> QED BY <1>2, <1>3, <1>4

\* Out of the loops the accumulators hold the sum itself.
LEMMA CombinedIsSum ==
  ASSUME IInv, label = "fold"
  PROVE  Combined = sum
<1>1. /\ Qword \in Nat /\ Qword > 1
      /\ r8 \in 0..(Qword - 1) /\ r10 \in 0..(Qword - 1) /\ sum \in 0..(Qword - 1)
  BY Widths DEF IInv, TypeOK
<1>2. StandsFor(r8 + r10, sum, Qword)
  <2>1. block = 0
    BY DEF IInv, OwnLoops, Block
  <2>2. r8 + r10 + 0 = r8 + r10
    BY <1>1
  <2> QED BY <2>1, <2>2 DEF IInv, NoCarryLost, InFlight
<1>3. CASE routine = "avx2"
  <2>1. Combined = OnesPlus(r8, r10, Qword)
    BY <1>1, <1>3, AddFoldIs DEF Combined
  <2>2. CASE r8 + r10 >= Qword
    BY <2>1, <2>2, <1>1, <1>2 DEF OnesPlus, StandsFor
  <2>3. CASE ~ (r8 + r10 >= Qword)
    BY <2>1, <2>3, <1>1, <1>2 DEF OnesPlus, StandsFor
  <2> QED BY <2>2, <2>3
<1>4. CASE routine = "sse2"
  <2>1. r10 = 0 /\ Combined = r8
    BY <1>4 DEF IInv, OwnLoops, Combined
  <2> QED BY <2>1, <1>1, <1>2 DEF StandsFor
<1> QED BY <1>3, <1>4 DEF IInv, TypeOK

\* What the routines have added, in 16-bit words: the sum of RFC 1071 with the odd
\* byte moved to the upper half of its word.
Routine16 == OnesPlus(sum16, last * (Byte - 1), Half)

\* Moving the byte makes another sum of it, unless it is zero.
LEMMA MovedByte ==
  ASSUME NEW a \in 0..(Half - 1), NEW b \in 0..(Byte - 1), b # 0 => a # 0
  PROVE  /\ b * (Byte - 1) \in 0..(Half - 1)
         /\ b + b * (Byte - 1) = b * Byte
         /\ OnesPlus(a, b * (Byte - 1), Half) \in 0..(Half - 1)
         /\ OnesPlus(a, b * (Byte - 1), Half) = a <=> b = 0
<1> DEFINE d == b * (Byte - 1)
<1>1. Byte \in Nat /\ Byte > 1 /\ Half \in Nat /\ Half > 3
  BY Widths, ChecksumAssumption
<1>2. d = b * Byte - b /\ b * Byte \in Nat
  BY <1>1
<1>3. b * Byte <= (Byte - 1) * Byte /\ (Byte - 1) * Byte = Half - Byte
  BY <1>1 DEF Half
<1>4. b # 0 => b * Byte >= 2 * b
  BY <1>1
<1>5. d \in Nat /\ d < Half - 1 /\ (d = 0 <=> b = 0)
  BY <1>1, <1>2, <1>3, <1>4
<1>6. b + d = b * Byte
  BY <1>1, <1>2
<1> HIDE DEF d
<1>7. OnesPlus(a, d, Half) \in 0..(Half - 1)
  BY <1>1, <1>5, OnesPlusType
<1>8. OnesPlus(a, d, Half) = a <=> d = 0
  BY <1>1, <1>5 DEF OnesPlus
<1>9. d \in 0..(Half - 1) /\ (OnesPlus(a, d, Half) = a <=> b = 0)
  BY <1>1, <1>5, <1>8
<1> QED BY Zenon, <1>6, <1>7, <1>9 DEF d

\* What the routines keep: what they have added agrees with its 64-bit sum, and a
\* byte that is not zero has left its trace in RFC 1071's sum.
CInv ==
  /\ IInv
  /\ Agree(Routine16, sum)
  /\ last # 0 => sum16 # 0
  /\ ResultIsRfc1071

\* Before the odd byte is read, RFC 1071's sum agrees as it stands.
LEMMA SumsAgree ==
  ASSUME CInv, last = 0
  PROVE  Routine16 = sum16 /\ Agree(sum16, sum)
<1>1. sum16 \in 0..(Half - 1) /\ Half \in Nat /\ Byte \in Nat
  BY Widths, ChecksumAssumption DEF CInv, IInv, TypeOK
<1>2. 0 * (Byte - 1) = 0
  BY <1>1
<1>3. Routine16 = sum16
  BY <1>1, <1>2, OnesPlusZero DEF Routine16
<1> QED BY <1>3 DEF CInv

\* Reading the odd byte b: RFC 1071's sum takes b, the routines take b * Byte.
LEMMA LastByteAgrees ==
  ASSUME NEW a \in 0..(Half - 1), NEW s \in 0..(Qword - 1), Agree(a, s),
         NEW b \in 0..(Byte - 1)
  PROVE  /\ Agree(OnesPlus(Plus16(a, b), b * (Byte - 1), Half),
                  OnesPlus(s, b * Byte, Qword))
         /\ b # 0 => Plus16(a, b) # 0
<1> DEFINE p == Plus16(a, b)
           d == b * (Byte - 1)
           t == s + b
           r == OnesPlus(p, d, Half)
           o == OnesPlus(s, b * Byte, Qword)
<1>1. /\ Byte \in Nat /\ Byte > 1 /\ Half \in Nat /\ Half > Byte
      /\ Qword \in Nat /\ Qword > Half
  BY Widths, ChecksumAssumption
<1>2. b \in 0..(Qword - 1) /\ 0 \in 0..(Half - 1)
  BY <1>1
<1>3. p \in 0..(Half - 1) /\ t \in Nat /\ Agree(p, t)
  BY <1>1, <1>2, Plus16Type, Plus16Agrees
<1>4. p = 0 <=> t = 0
  BY <1>3 DEF Agree
<1>5. b # 0 => p # 0
  BY <1>2, <1>4
<1> HIDE DEF p
<1>6. d \in 0..(Half - 1) /\ b + d = b * Byte /\ r \in 0..(Half - 1)
  BY <1>3, <1>5, MovedByte
<1>7. t + d = s + b * Byte /\ b * Byte \in 0..(Qword - 1)
  <2>1. t + d = s + (b + d)
    BY <1>1, <1>6
  <2>2. b * Byte \in Nat /\ b * Byte <= Byte * Byte
    BY <1>1
  <2> QED BY <2>1, <2>2, <1>1, <1>6 DEF Half
<1> HIDE DEF d, t
<1>8. Agree(r, t + d)
  BY <1>3, <1>6, OnesPlusHalf
<1>9. Agree(s + b * Byte, o)
  BY <1>7, OnesPlusQword
<1>10. o \in 0..(Qword - 1)
  BY <1>1, <1>7, OnesPlusType
<1> DEFINE u == s + b * Byte
<1>11. u \in Int /\ Agree(r, u) /\ Agree(u, o)
  BY <1>1, <1>7, <1>8, <1>9
<1> HIDE DEF r, o, u
<1>12. Agree(r, o)
  BY <1>1, <1>6, <1>10, <1>11, AgreeTrans
<1> QED BY <1>5, <1>12 DEF r, o, p, d

\* Every step keeps the sums in agreement.
LEMMA SumsStep ==
  ASSUME CInv, [Next]_vars
  PROVE  Agree(Routine16, sum)' /\ (last # 0 => sum16 # 0)'
<1>1. /\ sum \in 0..(Qword - 1) /\ sum16 \in 0..(Half - 1)
      /\ Agree(Routine16, sum) /\ (last # 0 => sum16 # 0)
  BY DEF CInv, IInv, TypeOK
<1>2. Half \in Nat /\ Byte \in Nat /\ 0 * (Byte - 1) = 0
  BY Widths, ChecksumAssumption
<1>3. ASSUME last = 0, last' = 0, sum16' \in 0..(Half - 1), Agree(sum16', sum')
      PROVE  Agree(Routine16, sum)' /\ (last # 0 => sum16 # 0)'
  <2>1. Routine16' = OnesPlus(sum16', 0, Half)
    BY <1>2, <1>3 DEF Routine16
  <2>2. Routine16' = sum16'
    BY <1>2, <1>3, <2>1, OnesPlusZero
  <2> QED BY <1>3, <2>2 DEF Agree
<1>4. CASE AddPair
  <2> PICK v \in Words, w \in Words :
        /\ sum' = OnesPlus(OnesPlus(sum, v, Qword), w, Qword)
        /\ sum16' = Plus16(Plus16(sum16, v), w)
    BY <1>4 DEF AddPair
  <2> DEFINE s == OnesPlus(sum, v, Qword)
             t == Plus16(sum16, v)
  <2>1. v \in 0..(Qword - 1) /\ w \in 0..(Qword - 1)
    BY ChecksumAssumption
  <2>2. last = 0 /\ last' = 0
    BY <1>4 DEF AddPair, CInv, IInv, OwnLoops, Block
  <2>3. s \in 0..(Qword - 1) /\ t \in 0..(Half - 1) /\ Agree(t, s)
    BY <1>1, <2>1, <2>2, SumsAgree, AddAgrees
  <2> HIDE DEF s, t
  <2>4. Plus16(t, w) \in 0..(Half - 1) /\ Agree(Plus16(t, w), OnesPlus(s, w, Qword))
    BY <2>1, <2>3, AddAgrees
  <2> QED BY <1>3, <2>2, <2>4 DEF s, t
<1>5. CASE AddWord
  <2> PICK w \in Words : /\ sum' = OnesPlus(sum, w, Qword)
                         /\ sum16' = Plus16(sum16, w)
    BY <1>5 DEF AddWord
  <2>1. w \in 0..(Qword - 1)
    BY ChecksumAssumption
  <2>2. last = 0 /\ last' = 0
    BY <1>5 DEF AddWord, CInv, IInv, OwnLoops, Block
  <2>3. /\ Plus16(sum16, w) \in 0..(Half - 1)
        /\ Agree(Plus16(sum16, w), OnesPlus(sum, w, Qword))
    BY <1>1, <2>1, <2>2, SumsAgree, AddAgrees
  <2> QED BY <1>3, <2>2, <2>3
<1>6. CASE AddTail
  <2> PICK w \in Read(label) : /\ sum' = OnesPlus(sum, Added(label, w), Qword)
                               /\ sum16' = Plus16(sum16, w)
                               /\ last' = IF label = "loop_1" THEN w ELSE last
    BY <1>6 DEF AddTail
  <2>1. label \in Tail /\ w \in 0..(Qword - 1) /\ last = 0
    BY <1>6, ReadType DEF AddTail, CInv, IInv, OwnLoops, Tail
  <2>2. CASE label = "loop_1"
    <3>1. /\ w \in 0..(Byte - 1) /\ last' = w
          /\ sum' = OnesPlus(sum, w * Byte, Qword)
      BY <2>2 DEF Read, Added
    <3>2. /\ Agree(OnesPlus(Plus16(sum16, w), w * (Byte - 1), Half),
                   OnesPlus(sum, w * Byte, Qword))
          /\ w # 0 => Plus16(sum16, w) # 0
      BY <1>1, <2>1, <3>1, SumsAgree, LastByteAgrees
    <3> QED BY <3>1, <3>2 DEF Routine16, Agree
  <2>3. CASE label # "loop_1"
    <3>1. /\ last' = 0 /\ sum' = OnesPlus(sum, w, Qword)
          /\ Plus16(sum16, w) \in 0..(Half - 1)
          /\ Agree(Plus16(sum16, w), OnesPlus(sum, w, Qword))
      BY <1>1, <2>1, <2>3, SumsAgree, AddAgrees DEF Added
    <3> QED BY <1>3, <2>1, <3>1
  <2> QED BY <2>2, <2>3
<1>7. CASE UNCHANGED <<sum, sum16, last>>
  BY <1>1, <1>7 DEF Agree, Routine16
<1> QED BY <1>4, <1>5, <1>6, <1>7 DEF Next, vars, Skip, Enter, EndBlock, Fold

\* What Fold returns is the complement of what was added.
LEMMA FoldReturns ==
  ASSUME CInv, Fold
  PROVE  ResultIsRfc1071'
<1>1. /\ sum \in 0..(Qword - 1) /\ sum16 \in 0..(Half - 1) /\ last \in 0..(Byte - 1)
      /\ Half \in Nat /\ Agree(Routine16, sum)
  BY Widths DEF CInv, IInv, TypeOK
<1>2. /\ Routine16 \in 0..(Half - 1)
      /\ Routine16 = sum16 <=> last = 0
  BY <1>1, MovedByte DEF CInv, Routine16
<1> DEFINE f == Folded(sum)
<1>3. f \in 0..(Half - 1) /\ Agree(f, sum)
  BY <1>1, FoldedType, FoldedAgrees
<1>4. Agree(sum, Routine16)
  <2> PICK k \in Int : Routine16 = sum + k * M
    BY <1>1 DEF Agree
  <2>1. M \in Int
    BY Divides
  <2>2. sum = Routine16 + (-k) * M /\ -k \in Int
    BY <1>1, <1>2, <2>1
  <2> QED BY <1>1, <2>2 DEF Agree
<1> DEFINE t == Routine16
<1>5. t \in 0..(Half - 1) /\ Agree(sum, t)
  BY <1>2, <1>4
<1> HIDE DEF f, t
<1>6. f = t
  <2>1. Agree(f, t)
    BY <1>1, <1>3, <1>5, AgreeTrans
  <2> QED BY <1>3, <1>5, <2>1, AgreeUnique
<1>7. ax' = (Half - 1) - Routine16
  <2>1. Combined = sum
    BY CombinedIsSum DEF CInv, Fold
  <2> QED BY <1>6, <2>1 DEF Fold, f, t
<1>8. ax' = (Half - 1) - sum16 <=> last = 0
  BY <1>1, <1>2, <1>7
<1>9. sum16' = sum16 /\ last' = last
  BY DEF Fold
<1> QED BY <1>7, <1>8, <1>9 DEF ResultIsRfc1071, Rfc1071, Routine16

\* Whatever the buffer and its length, the 64-bit additions, in two accumulators,
\* and the three folds lose nothing; and the result is RFC 1071's exactly when no
\* odd byte, or a zero one, ends the buffer: a byte moved to the upper half always
\* changes the checksum.
THEOREM ChecksumCorrect == Spec => []ResultIsRfc1071
<1>1. Init => CInv
  <2> SUFFICES ASSUME Init PROVE CInv
    OBVIOUS
  <2>1. 0 = 0 + 0 * M /\ 0 \in Int
    BY Divides
  <2>2. Routine16 = 0
    <3>1. Byte \in Nat /\ Half \in Nat /\ Half > 0 /\ 0 * (Byte - 1) = 0
      BY Widths, ChecksumAssumption
    <3> QED BY <3>1 DEF Init, Routine16, OnesPlus
  <2>3. Agree(Routine16, sum)
    BY <2>1, <2>2 DEF Init, Agree
  <2> QED BY <2>3, InitHolds DEF Init, CInv, ResultIsRfc1071
<1>2. CInv /\ [Next]_vars => CInv'
  <2> SUFFICES ASSUME CInv, [Next]_vars PROVE CInv'
    OBVIOUS
  <2>1. IInv'
    <3>1. CASE UNCHANGED vars
      BY <3>1 DEF vars, CInv, IInv, TypeOK, OwnLoops, NeverSaturated, NoCarryLost, InFlight
    <3> QED BY <3>1, SkipHolds, EnterHolds, AddPairHolds, AddWordHolds, EndBlockHolds,
               AddTailHolds, FoldHolds DEF Next, CInv
  <2>2. Agree(Routine16, sum)' /\ (last # 0 => sum16 # 0)'
    BY SumsStep
  <2>3. ResultIsRfc1071'
    <3>1. CASE Fold
      BY <3>1, FoldReturns
    <3>2. CASE UNCHANGED vars
      BY <3>2 DEF vars, CInv, ResultIsRfc1071, Rfc1071
    <3>3. CASE Skip \/ Enter \/ AddPair \/ AddWord \/ EndBlock \/ AddTail
      <4>1. label' # "ret"
        BY <3>3 DEF CInv, IInv, TypeOK, OwnLoops, Skip, Enter, AddPair, AddWord, EndBlock,
                    AddTail, Loop, Block, Tail, After
      <4> QED BY <4>1 DEF ResultIsRfc1071
    <3> QED BY <3>1, <3>2, <3>3 DEF Next
  <2> QED BY <2>1, <2>2, <2>3 DEF CInv
<1>3. CInv => ResultIsRfc1071
  BY DEF CInv
<1> QED BY <1>1, <1>2, <1>3, PTL DEF Spec
=============================================================================
