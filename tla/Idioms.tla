------------------------------- MODULE Idioms -------------------------------
(***************************************************************************)
(* The branch-free programs of idioms/: abs, min and bounds.  Each parses  *)
(* its arguments with atoi, which returns an int: the program goes on with *)
(* all 64 bits of rax, of which the ABI leaves the upper half open.        *)
(*                                                                         *)
(* Registers are 0 .. 2 * RegHalf - 1, ints -IntHalf .. IntHalf - 1.       *)
(***************************************************************************)
EXTENDS Integers

CONSTANTS IntHalf, RegHalf, Upper

ASSUME IdiomsAssumption ==
  /\ IntHalf \in Nat /\ RegHalf \in Nat /\ Upper \in Nat
  /\ IntHalf > 0
  /\ RegHalf >= 2 * IntHalf    \* a register is wider than an int
  /\ Upper < IntHalf

Int32 == -IntHalf .. IntHalf - 1
Reg == 0 .. 2 * RegHalf - 1

VARIABLES
  pc,
  prog,   \* which program
  x, y,   \* the arguments: y is the second one of min
  rax, r12,
  ext,    \* how atoi filled the upper half of rax: once for a run
  result  \* the register that is handed to printf

vars == <<pc, prog, x, y, rax, r12, ext, result>>

Wrap(v) == IF v < 0 THEN v + 2 * RegHalf ELSE IF v >= 2 * RegHalf THEN v - 2 * RegHalf ELSE v
Signed(r) == IF r >= RegHalf THEN r - 2 * RegHalf ELSE r

\* Sign: sar $0x3f.  The others are and, not and xor where the one operand is
\* 0 or -1, so that no bit needs to be looked at.
Ones == 2 * RegHalf - 1
Sign(r) == IF r >= RegHalf THEN Ones ELSE 0
Masked(mask, r) == IF mask = 0 THEN 0 ELSE r
Not(mask) == IF mask = 0 THEN Ones ELSE 0
Flip(mask, r) == IF mask = 0 THEN r ELSE Ones - r

\* What atoi leaves in rax for the int v.
Atoi(v, how) ==
  IF v >= 0 THEN v ELSE IF how = "sign" THEN v + 2 * RegHalf ELSE v + 2 * IntHalf

-----------------------------------------------------------------------------
\* Mutant: the mask is not subtracted.
AbsOnes(r) == Flip(Sign(r), r)

\* sar, xor, sub
Abs(r) == Wrap(Flip(Sign(r), r) - Sign(r))

\* Mutant: the operands of sub are swapped.
MinSwapped(b, a) ==
  LET mask == Sign(Wrap(a - b))
  IN  Masked(mask, b) + Masked(Not(mask), a)

\* sub, sar, and, not, and, or: one of the two sides of or is zero.
Min(b, a) ==
  LET mask == Sign(Wrap(b - a))
  IN  Masked(mask, b) + Masked(Not(mask), a)

\* Mutant: compares as signed numbers.
BoundSigned(r) ==
  LET mask == IF Signed(r) < Upper THEN Ones ELSE 0
  IN  Wrap(Masked(mask, r) + Masked(Not(mask), Upper))

\* sub, sbb (all ones if the sub borrowed), and, not, and, add
Bound(r) ==
  LET mask == IF r < Upper THEN Ones ELSE 0
  IN  Wrap(Masked(mask, r) + Masked(Not(mask), Upper))

-----------------------------------------------------------------------------
Init ==
  /\ prog \in {"abs", "min", "bounds"}
  /\ x \in Int32 /\ y \in Int32
  /\ ext \in {"sign", "zero"}
  /\ pc = "parse"
  /\ rax = 0 /\ r12 = 0 /\ result = 0

Goto(from, to) == pc = from /\ pc' = to

\* The first argument.
Parse ==
  /\ Goto("parse", IF prog = "min" THEN "parse2" ELSE "compute")
  /\ rax' = Atoi(x, ext)
  /\ UNCHANGED <<prog, x, y, r12, ext, result>>

\* The second argument of min, the first in r12 over the call.
ParseSecond ==
  /\ Goto("parse2", "compute")
  /\ r12' = rax
  /\ rax' = Atoi(y, ext)
  /\ UNCHANGED <<prog, x, y, ext, result>>

Compute ==
  /\ Goto("compute", "printed")
  /\ \/ prog = "abs" /\ result' = Abs(rax)
     \/ prog = "min" /\ result' = Min(r12, rax)
     \/ prog = "bounds" /\ result' = Bound(rax)
  /\ UNCHANGED <<prog, x, y, rax, r12, ext>>

Next == Parse \/ ParseSecond \/ Compute
Spec == Init /\ [][Next]_vars

-----------------------------------------------------------------------------
\* Every variable has its type.
TypeOK ==
  /\ pc \in {"parse", "parse2", "compute", "printed"}
  /\ prog \in {"abs", "min", "bounds"} /\ ext \in {"sign", "zero"}
  /\ x \in Int32 /\ y \in Int32
  /\ rax \in Reg /\ r12 \in Reg /\ result \in Reg

Printed(p) == pc = "printed" /\ prog = p

\* The register that atoi returned is the number itself, not the number of
\* the same lower half: the ABI grants that only for numbers from 0 on.
Extended(v) == ext = "sign" \/ v >= 0

(***************************************************************************)
(* abs leaves the absolute value of its operand for printf, if the operand *)
(* reached it as a number of 64 bits: always with an atoi that extends the *)
(* sign, for numbers from 0 on with any.  That holds for the least int,    *)
(* too, whose absolute value is no int and which %d does not show.         *)
(***************************************************************************)
AbsExact ==
  Printed("abs") /\ Extended(x) => result = IF x < 0 THEN -x ELSE x

(***************************************************************************)
(* min leaves the smaller of its operands as signed numbers, if both       *)
(* reached it as numbers of 64 bits; their difference never overflows, as  *)
(* they came from ints.  (minasm.s:5 claims less, that it works for        *)
(* unsigned integers only.)                                                *)
(***************************************************************************)
MinExact ==
  Printed("min") /\ Extended(x) /\ Extended(y) => Signed(result) = IF x < y THEN x ELSE y

(***************************************************************************)
(* bounds: the number if it is from 0 to the limit, else the limit, for    *)
(* negative numbers too and whatever atoi does.                            *)
(***************************************************************************)
BoundExact ==
  Printed("bounds") => result = IF 0 <= x /\ x < Upper THEN x ELSE Upper

(***************************************************************************)
(* abs and min compute what their names say for every operand if atoi      *)
(* extends the sign, and for operands from 0 on if it does not; bounds     *)
(* does for every operand, whichever way atoi extends (absasm.s, minasm.s, *)
(* bounds.s).                                                              *)
(***************************************************************************)
IdiomsExact == AbsExact /\ MinExact /\ BoundExact

\* Each of them comes to its printf.
Prints == <>(pc = "printed")
=============================================================================
