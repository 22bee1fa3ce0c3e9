------------------------------- MODULE Matrix -------------------------------
(***************************************************************************)
(* The matrix programs: avxmul.s multiplies two square matrices, a row of  *)
(* the second and a column of the first at a time; the two programs of     *)
(* ssematrix/ compute, by shuffles, two products per place whose operands  *)
(* the comments give, once with integers and once with floats.  A register *)
(* is a sequence of lanes.  Numbers are small enough to be exact.          *)
(***************************************************************************)
EXTENDS Integers, Sequences

CONSTANTS
  N,        \* rows of avxmul's matrices: 4 in the source
  Squares,  \* matrices for avxmul
  Entries   \* elements for the others, whose matrices have two rows

\* What the composing module assumes of the constants.
MatrixAssumption ==
  /\ N \in Nat \ {0, 1} /\ Entries \subseteq Int
  /\ Squares \subseteq [1 .. N * N -> Int]

VARIABLES
  pc,
  prog,
  a, b,     \* the matrices, row by row: arr0, arr1 or matrix0, matrix1
  rax, rcx,
  acc,      \* ymm12 ..: a row of the result each
  xmm8,     \* the sums of 01 and 02, as lanes
  result

vars == <<pc, prog, a, b, rax, rcx, acc, xmm8, result>>

Matrices(p) == IF p = "avxmul" THEN Squares ELSE [1 .. 4 -> Entries]
At(m, n, r, c) == m[n * r + c + 1]     \* r and c from 0
Zeros(n) == [r \in 0 .. n - 1 |-> [c \in 0 .. n - 1 |-> 0]]

Init ==
  /\ prog \in {"avxmul", "sse01", "sse02"}
  /\ a \in Matrices(prog) /\ b \in Matrices(prog)
  /\ pc = "start"
  /\ rax = 0 /\ rcx = 0
  /\ acc = Zeros(N) /\ xmm8 = <<>> /\ result = <<>>

Goto(from, to) == pc = from /\ pc' = to

-----------------------------------------------------------------------------
\* vbroadcastsd of an element of a, vmulpd with a row of b.
Scaled(r, k) == [c \in 0 .. N - 1 |-> At(a, N, r, k) * At(b, N, k, c)]

\* The first row of b.
AvxFirst ==
  /\ prog = "avxmul" /\ Goto("start", "loop")
  /\ acc' = [r \in 0 .. N - 1 |-> Scaled(r, 0)]
  /\ rcx' = N - 1
  /\ UNCHANGED <<prog, a, b, rax, xmm8, result>>

\* Mutant: the column is taken before it is counted.
AvxLoopLate ==
  /\ prog = "avxmul" /\ Goto("loop", IF rcx = 1 THEN "store" ELSE "loop")
  /\ rax' = rax + 1
  /\ acc' = [r \in 0 .. N - 1 |-> [c \in 0 .. N - 1 |->
               acc[r][c] + At(a, N, r, rax) * At(b, N, rax', c)]]
  /\ rcx' = rcx - 1
  /\ UNCHANGED <<prog, a, b, xmm8, result>>

\* .Lstart: the next row of b and the next column of a.
AvxLoop ==
  /\ prog = "avxmul" /\ Goto("loop", IF rcx = 1 THEN "store" ELSE "loop")
  /\ rax' = rax + 1
  /\ acc' = [r \in 0 .. N - 1 |-> [c \in 0 .. N - 1 |-> acc[r][c] + Scaled(r, rax')[c]]]
  /\ rcx' = rcx - 1
  /\ UNCHANGED <<prog, a, b, xmm8, result>>

AvxStore ==
  /\ prog = "avxmul" /\ Goto("store", "done")
  /\ result' = [n \in 1 .. N * N |-> acc[(n - 1) \div N][(n - 1) % N]]
  /\ UNCHANGED <<prog, a, b, rax, rcx, acc, xmm8>>

-----------------------------------------------------------------------------
\* pshufd: lane n of the result is lane imm[n] of x; the digits of the
\* immediate are two bits each.
Pshufd(imm, x) ==
  LET lane(digit) == x[((imm \div digit) % 4) + 1]
  IN  <<lane(1), lane(4), lane(16), lane(64)>>
Movsldup(x) == <<x[1], x[1], x[3], x[3]>>
Movshdup(x) == <<x[2], x[2], x[4], x[4]>>
Movddup(x)  == <<x[1], x[2], x[1], x[2]>>
\* pmuldq: the first and the third lane, to twice the width.
Pmuldq(x, y) == <<x[1] * y[1], x[3] * y[3]>>
Plus(x, y) == [n \in DOMAIN x |-> x[n] + y[n]]
Times(x, y) == [n \in DOMAIN x |-> x[n] * y[n]]

\* 01: the left column of the result, to result[0] and result[2].
SseLeft ==
  /\ prog = "sse01" /\ Goto("start", "right")
  /\ xmm8' = Plus(Pmuldq(Movddup(b), Movsldup(a)), Pmuldq(Pshufd(17, b), Movsldup(a)))
  /\ result' = <<xmm8'[1], 0, xmm8'[2], 0>>
  /\ UNCHANGED <<prog, a, b, rax, rcx, acc>>

\* Mutant: the second shuffle has the immediate of the first.
SseRightStale ==
  /\ prog = "sse01" /\ Goto("right", "done")
  /\ xmm8' = Plus(Pmuldq(Pshufd(34, b), Movshdup(a)), Pmuldq(Pshufd(34, b), Movshdup(a)))
  /\ result' = <<result[1], xmm8'[1], result[3], xmm8'[2]>>
  /\ UNCHANGED <<prog, a, b, rax, rcx, acc>>

\* 01: the right column, to result[1] and result[3].
SseRight ==
  /\ prog = "sse01" /\ Goto("right", "done")
  /\ xmm8' = Plus(Pmuldq(Pshufd(34, b), Movshdup(a)), Pmuldq(Pshufd(51, b), Movshdup(a)))
  /\ result' = <<result[1], xmm8'[1], result[3], xmm8'[2]>>
  /\ UNCHANGED <<prog, a, b, rax, rcx, acc>>

\* 02: both columns at once.
SseFloat ==
  /\ prog = "sse02" /\ Goto("start", "print")
  /\ xmm8' = Plus(Times(Pshufd(136, b), a), Times(Pshufd(221, b), a))
  /\ UNCHANGED <<prog, a, b, rax, rcx, acc, result>>

\* 02: each lane to the front in turn, for printf.
SsePrint ==
  /\ prog = "sse02" /\ Goto("print", "done")
  /\ LET turn(x) == Pshufd(57, x)
     IN  /\ result' = <<xmm8[1], turn(xmm8)[1], turn(turn(xmm8))[1], turn(turn(turn(xmm8)))[1]>>
         /\ xmm8' = turn(turn(turn(xmm8)))
  /\ UNCHANGED <<prog, a, b, rax, rcx, acc>>

Next == AvxFirst \/ AvxLoop \/ AvxStore \/ SseLeft \/ SseRight \/ SseFloat \/ SsePrint
Spec == Init /\ [][Next]_vars

-----------------------------------------------------------------------------
\* Every variable has its type.
TypeOK ==
  /\ pc \in {"start", "loop", "store", "right", "print", "done"}
  /\ rax \in 0 .. N - 1 /\ rcx \in 0 .. N - 1
  /\ pc = "loop" => rax + rcx = N - 1
  /\ \A r \in 0 .. N - 1 : \A c \in 0 .. N - 1 : acc[r][c] \in Int
  /\ Len(result) \in {0, 4, N * N}

\* The sum of the products up to one column.
Dot(r, c, upto) ==
  LET dot[k \in 0 .. N] ==
        IF k = 0 THEN 0 ELSE dot[k - 1] + At(a, N, r, k - 1) * At(b, N, k - 1, c)
  IN  dot[upto + 1]

(***************************************************************************)
(* avxmul: after each round every place holds the sum over the columns met *)
(* so far, and in the end the memory holds the matrix product.             *)
(***************************************************************************)
PartialProducts ==
  prog = "avxmul" =>
    /\ pc \in {"loop", "store"} =>
         \A r \in 0 .. N - 1 : \A c \in 0 .. N - 1 : acc[r][c] = Dot(r, c, rax)
    /\ pc = "done" =>
         result = [n \in 1 .. N * N |-> Dot((n - 1) \div N, (n - 1) % N, N - 1)]

(***************************************************************************)
(* 01 and 02 compute what the comment asks for, [1*5+1*6, 2*7+2*8] above   *)
(* [3*5+3*6, 4*7+4*8], with integers and with floats, whatever the         *)
(* numbers: the shuffles bring each factor to its place.                   *)
(***************************************************************************)
AsTheCommentSays ==
  pc = "done" /\ prog # "avxmul" =>
    result = << a[1] * b[1] + a[1] * b[2], a[2] * b[3] + a[2] * b[4],
                a[3] * b[1] + a[3] * b[2], a[4] * b[3] + a[4] * b[4] >>

\* The rounds of avxmul come to an end, and so do the other two.
Ends == <>(pc = "done")
=============================================================================
