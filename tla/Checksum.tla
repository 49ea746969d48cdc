------------------------------ MODULE Checksum ------------------------------
(***************************************************************************)
(* The checksum routines of disping_routines.asm: the AVX2 build with two  *)
(* 64-bit accumulators r8 and r10 through which one carry flag is threaded, *)
(* and the SSE2 fallback with r8 alone.  Instruction sequences between two *)
(* labels are actions; every cmp, add, adc and sub sets the carry flag as  *)
(* the processor does.                                                     *)
(*                                                                         *)
(* The width of a byte is a parameter: 256 values in the program, fewer    *)
(* for TLC.  Lengths stay those of the code.  Each word of the buffer is   *)
(* read once, so reading one is choosing any.                              *)
(***************************************************************************)
EXTENDS Naturals

CONSTANTS
  Byte,           \* number of values of a byte
  Words,          \* the 64-bit words a buffer may contain
  Lengths         \* the lengths of the buffers, in bytes

Half  == Byte * Byte          \* number of 16-bit,
Dword == Half * Half          \* of 32-bit,
Qword == Dword * Dword        \* and of 64-bit values

ASSUME ChecksumAssumption ==
  /\ Byte \in Nat /\ Byte > 1
  /\ Words \subseteq 0..(Qword - 1)
  /\ Lengths \subseteq Nat

VARIABLES
  routine,        \* "avx2" or "sse2", as InitDispatchTable or the caller chose
  label,          \* the loop control is in, "fold", "ret" or "ret_zero"
  block,          \* the size of the block being added, 0 at the label itself
  left,           \* how often the block still adds to each accumulator
  rem,            \* rdx, the bytes that are left
  r8, r10, cf,    \* the accumulators and the carry flag
  ax,             \* what is returned
  sum,            \* the one's complement sum of what was added, in 64-bit words,
  sum16,          \* that of RFC 1071 over what was read, in 16-bit words, and
  last            \* the odd last byte, 0 until it is read: none is in the code

vars == <<routine, label, block, left, rem, r8, r10, cf, ax, sum, sum16, last>>

Loop == {"loop_128", "loop_64", "loop_32", "loop_8", "loop_2", "loop_1"}

Size == [loop_128 |-> 128, loop_64 |-> 64, loop_32 |-> 32,
         loop_8 |-> 8, loop_2 |-> 2, loop_1 |-> 1]

\* Where jb goes.
After == [loop_128 |-> "loop_64", loop_64 |-> "loop_8", loop_32 |-> "loop_8",
          loop_8 |-> "loop_2", loop_2 |-> "loop_1", loop_1 |-> "fold"]

Block == {"loop_128", "loop_64", "loop_32"}
Tail  == {"loop_8", "loop_2", "loop_1"}

-----------------------------------------------------------------------------
(* Addition of registers of m values: the sum is below 2 * m. *)

Carry(s, m) == IF s >= m THEN 1 ELSE 0
Wrap(s, m)  == IF s >= m THEN s - m ELSE s

\* add a, b; adc a, 0
AddFold(a, b, m) == Wrap(Wrap(a + b, m) + Carry(a + b, m), m)

\* One's complement addition, as RFC 1071 defines it.
OnesPlus(a, b, m) == IF a + b >= m THEN a + b - (m - 1) ELSE a + b

\* The four 16-bit words of a 64-bit one, added to a.
Plus16(a, w) ==
  LET lo == w % Dword
      hi == w \div Dword
      plusLo == OnesPlus(OnesPlus(a, lo % Half, Half), lo \div Half, Half)
  IN OnesPlus(OnesPlus(plusLo, hi % Half, Half), hi \div Half, Half)

-----------------------------------------------------------------------------

\* A null pointer or an empty buffer returns 0 at once.
Init ==
  /\ routine \in {"avx2", "sse2"}
  /\ rem \in Lengths
  /\ label \in IF rem = 0 THEN {"ret_zero"}
               ELSE {"ret_zero", IF routine = "avx2" THEN "loop_128" ELSE "loop_32"}
  /\ block = 0 /\ left = 0
  /\ r8 = 0 /\ r10 = 0 /\ cf = 0
  /\ ax = 0
  /\ sum = 0 /\ sum16 = 0 /\ last = 0

\* cmp rdx, size; jb: taken with the carry flag set.
Skip ==
  /\ label \in Loop /\ block = 0
  /\ rem < Size[label]
  /\ label' = After[label]
  /\ cf' = 1
  /\ UNCHANGED <<routine, block, left, rem, r8, r10, ax, sum, sum16, last>>

\* Mutant of Enter: .loop_64 taken without the comparison.
EnterUnchecked ==
  /\ label \in Block /\ block = 0
  /\ rem >= Size[label] \/ (label = "loop_64" /\ rem > 0)
  /\ block' = Size[label]
  /\ left' = IF routine = "avx2" THEN block' \div 16 ELSE block' \div 8
  /\ cf' = 0
  /\ UNCHANGED <<routine, label, rem, r8, r10, ax, sum, sum16, last>>

\* cmp rdx, size with enough bytes left: the carry flag is clear.
Enter ==
  /\ label \in Block /\ block = 0
  /\ rem >= Size[label]
  /\ block' = Size[label]
  /\ left' = IF routine = "avx2" THEN block' \div 16 ELSE block' \div 8
  /\ cf' = 0
  /\ UNCHANGED <<routine, label, rem, r8, r10, ax, sum, sum16, last>>

\* adc r8, v; adc r10, w: the carry of the first goes into the second.
AddPair ==
  /\ routine = "avx2" /\ block # 0 /\ left > 0
  /\ \E v, w \in Words :
       LET c == Carry(r8 + v + cf, Qword) IN
         /\ r8' = Wrap(r8 + v + cf, Qword)
         /\ r10' = Wrap(r10 + w + c, Qword)
         /\ cf' = Carry(r10 + w + c, Qword)
         /\ sum' = OnesPlus(OnesPlus(sum, v, Qword), w, Qword)
         /\ sum16' = Plus16(Plus16(sum16, v), w)
  /\ left' = left - 1
  /\ UNCHANGED <<routine, label, block, rem, ax, last>>

\* adc r8, w of the fallback.
AddWord ==
  /\ routine = "sse2" /\ block # 0 /\ left > 0
  /\ \E w \in Words :
       /\ r8' = Wrap(r8 + w + cf, Qword)
       /\ cf' = Carry(r8 + w + cf, Qword)
       /\ sum' = OnesPlus(sum, w, Qword)
       /\ sum16' = Plus16(sum16, w)
  /\ left' = left - 1
  /\ UNCHANGED <<routine, label, block, rem, r10, ax, last>>

\* Mutant of EndBlock: without adc r10, 0.
EndBlockOneFold ==
  /\ block # 0 /\ left = 0
  /\ r8' = Wrap(r8 + cf, Qword)
  /\ cf' = 0
  /\ rem' = rem - block
  /\ block' = 0
  /\ label' = IF rem' = 0 \/ block = 64 THEN After[label] ELSE label
  /\ UNCHANGED <<routine, left, r10, ax, sum, sum16, last>>

\* adc r8, 0; adc r10, 0 (the fallback has no r10), where a last carry would be
\* dropped; then add rcx and sub rdx, which leaves the carry flag clear, and
\* jnz, which .loop_64 does not have.
EndBlock ==
  /\ block # 0 /\ left = 0
  /\ r8' = Wrap(r8 + cf, Qword)
  /\ r10' = IF routine = "avx2" THEN Wrap(r10 + Carry(r8 + cf, Qword), Qword) ELSE r10
  /\ cf' = 0
  /\ rem' = rem - block
  /\ block' = 0
  /\ label' = IF rem' = 0 \/ block = 64 THEN After[label] ELSE label
  /\ UNCHANGED <<routine, left, ax, sum, sum16, last>>

\* What a tail loop reads: a 64-bit word, a 16-bit word, or the last byte.
Read(l) ==
  CASE l = "loop_8" -> Words
    [] l = "loop_2" -> 0..(Half - 1)
    [] l = "loop_1" -> 0..(Byte - 1)

\* What it adds: shl 8 moves the last byte into the upper half of a word.
Added(l, w) == IF l = "loop_1" THEN w * Byte ELSE w

\* cmp; adc r8, w; adc r8, 0.  The byte is the last thing read.  For RFC 1071 it
\* is followed by a zero byte, and words lie in memory with their lower half
\* first: to sum16 the byte counts as it is.
AddTail ==
  /\ label \in Tail
  /\ rem >= Size[label]
  /\ \E w \in Read(label) :
       /\ r8' = AddFold(r8, Added(label, w), Qword)
       /\ sum' = OnesPlus(sum, Added(label, w), Qword)
       /\ sum16' = Plus16(sum16, w)
       /\ last' = IF label = "loop_1" THEN w ELSE last
  /\ cf' = 0
  /\ rem' = rem - Size[label]
  /\ label' = IF label = "loop_1" THEN "fold" ELSE label
  /\ UNCHANGED <<routine, block, left, r10, ax>>

\* add r8, r10; adc r8, 0.  The fallback has nothing to combine.
Combined == IF routine = "avx2" THEN AddFold(r8, r10, Qword) ELSE r8

\* Mutant of Folded: add ax, dx without the adc that follows.
FoldedNoCarry(x) ==
  LET eax == AddFold(x \div Dword, x % Dword, Dword)
  IN Wrap((eax \div Half) + (eax % Half), Half)

\* 64 bits to 32, 32 to 16.
Folded(x) ==
  LET eax == AddFold(x \div Dword, x % Dword, Dword)
  IN AddFold(eax \div Half, eax % Half, Half)

\* The folds and not ax.
Fold ==
  /\ label = "fold"
  /\ ax' = (Half - 1) - Folded(Combined)
  /\ label' = "ret"
  /\ UNCHANGED <<routine, block, left, rem, r8, r10, cf, sum, sum16, last>>

Next == Skip \/ Enter \/ AddPair \/ AddWord \/ EndBlock \/ AddTail \/ Fold

Spec == Init /\ [][Next]_vars

-----------------------------------------------------------------------------
(* Properties. *)

\* Registers stay within their width, and no loop reads past the buffer: while
\* a block is added, its bytes are left.
TypeOK ==
  /\ routine \in {"avx2", "sse2"}
  /\ label \in Loop \cup {"fold", "ret", "ret_zero"}
  /\ block \in {0, 32, 64, 128} /\ left \in 0..8
  /\ rem \in Nat /\ block <= rem
  /\ r8 \in 0..(Qword - 1) /\ r10 \in 0..(Qword - 1) /\ cf \in {0, 1}
  /\ ax \in 0..(Half - 1)
  /\ sum \in 0..(Qword - 1) /\ sum16 \in 0..(Half - 1) /\ last \in 0..(Byte - 1)

\* The accumulators with the carry that is under way between two adc.
InFlight == r8 + r10 + (IF block # 0 THEN cf ELSE 0)

\* t stands for the one's complement sum s of words of m values: it equals it up
\* to multiples of m - 1, and is zero only for zeros.
StandsFor(t, s, m) ==
  /\ t \in {s, s + (m - 1), s + 2 * (m - 1)}
  /\ t = 0 <=> s = 0

\* No carry is ever lost.  A carry travels r8, r10, r8, ... through up to sixteen
\* adc, the last one of a block has no successor, and nothing tests it: at every
\* label and between any two adc the accumulators stand for the one's complement
\* sum of what was added.
NoCarryLost == StandsFor(InFlight, sum, Qword)

\* RFC 1071's checksum of the buffer, with a zero byte after an odd last one.
Rfc1071 == (Half - 1) - sum16

\* "Internet checksum" (disping_asm.h:16): what either routine returns is RFC
\* 1071's checksum of the buffer exactly when the buffer has no odd last byte, or
\* a zero one.  Any other last byte counts Byte times what it should, and the
\* result is wrong by just that.
ResultIsRfc1071 ==
  label = "ret" =>
    /\ ax = Rfc1071 <=> last = 0
    /\ ax = (Half - 1) - OnesPlus(sum16, last * (Byte - 1), Half)

-----------------------------------------------------------------------------
(* The inductive invariant. *)

\* The carry out of a block's last adc is clear, because the accumulators and
\* the flag are never all at their maximum.
NeverSaturated ==
  block # 0 => ~ /\ r8 = Qword - 1
                 /\ cf = 1
                 /\ routine = "avx2" => r10 = Qword - 1

\* A routine stays in its own loops, a block is that of its loop, and the odd
\* byte is read last.
OwnLoops ==
  /\ block # 0 => label \in Block /\ block = Size[label]
  /\ routine = "avx2" => label # "loop_32"
  /\ routine = "sse2" => label \notin {"loop_128", "loop_64"} /\ r10 = 0
  /\ last # 0 => label \in {"fold", "ret"}

IInv == TypeOK /\ OwnLoops /\ NeverSaturated /\ NoCarryLost
=============================================================================
