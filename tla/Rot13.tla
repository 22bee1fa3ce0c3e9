------------------------------- MODULE Rot13 -------------------------------
(***************************************************************************)
(* asmcrypt.s: rotates the letters of a text, sixteen bytes at a time in   *)
(* vector registers, into a frame on the stack, and writes the frame.      *)
(* Bytes are compared as signed numbers.  Text, frame and vectors need not *)
(* have a length in blocks.                                                *)
(***************************************************************************)
EXTENDS Integers, Sequences

CONSTANTS
  Texts,  \* sequences of bytes
  Rots    \* the value of rot

Byte == 0 .. 255

\* What the composing module assumes of the constants.
RotAssumption ==
  /\ Rots \subseteq 0 .. 25
  /\ Texts \subseteq Seq(Byte) \ {<<>>}

VARIABLES
  pc,
  text, rot,
  rbx,     \* vectors still to expand
  vec,     \* Rvec, Avec, Zvec, avec, zvec: the byte each is full of
  rax,     \* the offset of the block
  rdx,     \* bytes remaining
  stack,   \* offset from rsp -> byte, or Free
  out      \* what was written

vars == <<pc, text, rot, rbx, vec, rax, rdx, stack, out>>

Free == -1
Block == 16
RoundUp(n) == ((n + Block - 1) \div Block) * Block

\* rsp is on a multiple of 16 at _start, and the and rounds down after the sub:
\* how far the saved rbp is above the new rsp.
Room(n) == n + ((8 - n) % Block)

A == 65  Z == 90  a == 97  z == 122

-----------------------------------------------------------------------------
Signed(b) == IF b >= 128 THEN b - 256 ELSE b
BitAnd(b, c) ==
  LET Both(w) == IF (b \div w) % 2 = 1 /\ (c \div w) % 2 = 1 THEN w ELSE 0
  IN  Both(1) + Both(2) + Both(4) + Both(8) + Both(16) + Both(32) + Both(64) + Both(128)

\* Mutant: the sum is not looked at for overflow.
RotateRangeNoSign(b, r, lo, hi) ==
  IF Signed(b) < lo \/ Signed(b) > hi THEN b
  ELSE LET sum == (b + r) % 256
       IN  IF Signed(sum) > hi THEN (sum - hi + BitAnd(hi, lo)) % 256 ELSE sum

\* .LrotateRange in one lane.  The number added back is hi AND lo, which is
\* lo - 1 for both ranges of letters.
RotateRange(b, r, lo, hi) ==
  IF Signed(b) < lo \/ Signed(b) > hi THEN b
  ELSE LET sum == (b + r) % 256
       IN  IF Signed(sum) > hi \/ Signed(sum) < 0 THEN (sum - hi + BitAnd(hi, lo)) % 256 ELSE sum

Goto(from, to) == pc = from /\ pc' = to

Source == <<rot, A, Z, a, z>>   \* rot, upmin, upmax, lomin, lomax

Init ==
  /\ text \in Texts /\ rot \in Rots
  /\ pc = "expand" /\ rbx = 5
  /\ vec = [n \in 1 .. 5 |-> 0]
  /\ rax = 0 /\ rdx = Len(text)
  /\ stack = [d \in 0 .. RoundUp(Len(text)) - 1 |-> Free]
  /\ out = <<>>

\* Mutant: the dec is missing.
ExpandAgainForever ==
  /\ Goto("expand", IF rbx = 1 THEN "core" ELSE "expand")
  /\ vec' = [vec EXCEPT ![6 - rbx] = Source[6 - rbx]]
  /\ UNCHANGED <<text, rot, rbx, rax, rdx, stack, out>>

\* .LexpandAgain: one byte fills one vector.
ExpandAgain ==
  /\ Goto("expand", IF rbx = 1 THEN "core" ELSE "expand")
  /\ vec' = [vec EXCEPT ![6 - rbx] = Source[6 - rbx]]
  /\ rbx' = rbx - 1
  /\ UNCHANGED <<text, rot, rax, rdx, stack, out>>

\* A byte of plaintxt, or of what lies behind it in .data.
Load(d) == IF d < Len(text) THEN text[d + 1] ELSE (Source \o [n \in 1 .. Block |-> 0])[d - Len(text) + 1]

RotateLane(b) ==
  RotateRange(RotateRange(b, vec[1], vec[2], vec[3]), vec[1], vec[4], vec[5])

\* Mutant: goes on at zero remaining.
CoreLoopJge ==
  /\ Goto("core", IF rdx - Block >= 0 THEN "core" ELSE "write")
  /\ stack' = [d \in DOMAIN stack \cup rax .. rax + Block - 1 |->
                 IF d \in rax .. rax + Block - 1 THEN RotateLane(Load(d)) ELSE stack[d]]
  /\ rax' = rax + Block
  /\ rdx' = rdx - Block
  /\ UNCHANGED <<text, rot, rbx, vec, out>>

\* .LcoreLoop: sub $0x10, %rdx; jg.
CoreLoop ==
  /\ Goto("core", IF rdx - Block > 0 THEN "core" ELSE "write")
  /\ stack' = [d \in DOMAIN stack \cup rax .. rax + Block - 1 |->
                 IF d \in rax .. rax + Block - 1 THEN RotateLane(Load(d)) ELSE stack[d]]
  /\ rax' = rax + Block
  /\ rdx' = rdx - Block
  /\ UNCHANGED <<text, rot, rbx, vec, out>>

\* The write system call, and exit.
Write ==
  /\ Goto("write", "exit")
  /\ out' = [n \in 1 .. Len(text) |-> stack[n - 1]]
  /\ UNCHANGED <<text, rot, rbx, vec, rax, rdx, stack>>

Next == ExpandAgain \/ CoreLoop \/ Write
Spec == Init /\ [][Next]_vars /\ WF_vars(Next)

-----------------------------------------------------------------------------
\* Every variable has its type.
TypeOK ==
  /\ pc \in {"expand", "core", "write", "exit"}
  /\ rbx \in 0 .. 5 /\ \A n \in 1 .. 5 : vec[n] \in Byte
  /\ rax \in {Block * n : n \in 0 .. RoundUp(Len(text)) \div Block}
  /\ rdx = Len(text) - rax
  /\ \A d \in DOMAIN stack : stack[d] \in Byte \cup {Free}

\* The rotation of one character by the alphabet.
Rotated(b, r) ==
  IF b \in A .. Z THEN A + ((b - A + r) % 26)
  ELSE IF b \in a .. z THEN a + ((b - a + r) % 26)
  ELSE b

(***************************************************************************)
(* What is written is the text with each letter rotated, whichever letter  *)
(* it is, however far, and wherever in a block; other bytes, those above   *)
(* 127 among them, are as they were, and nothing from behind the text is   *)
(* written.                                                                *)
(***************************************************************************)
WritesRotation ==
  pc = "exit" => out = [n \in DOMAIN text |-> Rotated(text[n], rot)]

(***************************************************************************)
(* The block stores never reach further above the frame than the pushed    *)
(* rbp, which nobody needs any more as the program does not return.        *)
(***************************************************************************)
SpillsOnlySavedRbp ==
  \A d \in DOMAIN stack : stack[d] # Free => d < Room(Len(text)) + 8

\* The program exits after it has filled the vectors and rotated each block.
Exits == <>(pc = "exit")
=============================================================================
