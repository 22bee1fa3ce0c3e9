---------------------------- MODULE CpuPrograms -----------------------------
(***************************************************************************)
(* The programs of src/cpuid, which print what the processor says of       *)
(* itself: brand, avx, family and leaf0ah ask the CPUID instruction, msr   *)
(* and msrtest read model-specific registers through /dev/cpu/N/msr.       *)
(***************************************************************************)
EXTENDS Integers, Sequences, SequencesExt

CONSTANTS
  Ratios,     \* values of bits 15:8 of MSR 0xCE, the bus ratio
  Levels,     \* values of CPUID.0BH:ECX[15:8]
  Families,   \* values of CPUID.01H:EAX[11:8]
  ExtFamilies \* values of CPUID.01H:EAX[27:20]

\* What the composing module assumes of the constants.
CpuAssumption ==
  /\ Ratios \subseteq 0 .. 255 /\ Levels \subseteq 0 .. 255
  /\ Families \subseteq 0 .. 15 /\ ExtFamilies \subseteq 0 .. 255

VARIABLES
  prog, pc,
  input,   \* what the processor and the device answer to this program
  stack,   \* what the program has pushed or stored on its stack
  fd,
  buf,     \* the eight bytes that pread fills
  out      \* the lines printed, each <<what it is called, what it shows>>

vars == <<prog, pc, input, stack, fd, buf, out>>

Goto(p, from, to) == prog = p /\ pc = from /\ pc' = to
Say(label, value) == out' = Append(out, <<label, value>>)

MsrNumbers == <<"0xCE", "IA32_MPERF", "0xE8">>

Input(p) ==
  CASE p = "leaf0ah" -> [ebx : SUBSET (0 .. 6), fixed : {0, 3, 31}, bits : {40, 48}]
    [] p = "family"  -> [stepping : {0, 15}, model : 0 .. 15, family : Families,
                         extModel : 0 .. 15, extFamily : ExtFamilies]
    [] p = "avx"     -> [avx : BOOLEAN]
    [] p = "brand"   -> [leaf : {[n \in 2 .. 4 |-> n]}]
    [] p = "msr"     -> [level : Levels, ratio : Ratios, readable : BOOLEAN]
    [] p = "msrtest" -> [readable : SUBSET (1 .. 3), there : BOOLEAN]

Program == {"leaf0ah", "family", "avx", "brand", "msr", "msrtest"}

Init ==
  /\ prog \in Program
  /\ input \in Input(prog)
  /\ pc = "start"
  /\ stack = <<>>
  /\ fd = -1
  /\ buf = "undefined"
  /\ out = <<>>

\* leaf0ah: a set bit says that the event is not available.
YesNo(n) == IF n \in input.ebx THEN "no" ELSE "yes"

EventName(n) ==
  <<"Core cycle", "Instr retd", "Ref cycles", "LLC ref", "LLC misses",
    "Branch instr retd", "Branch misprd retd">>[n + 1]

\* The branch flags go on the stack, in the order of their bits.
PushBranchFlags ==
  /\ Goto("leaf0ah", "start", "printEvents")
  /\ stack' = <<YesNo(5), YesNo(6)>>
  /\ UNCHANGED <<input, prog, fd, buf, out>>

\* printf takes five strings from registers and the others from the top of
\* the stack downwards: the one pushed last comes first.
PrintEvents ==
  /\ Goto("leaf0ah", "printEvents", "printFixed")
  /\ LET shown == [n \in 1 .. 5 |-> YesNo(n - 1)] \o Reverse(stack)
     IN  out' = out \o [n \in 1 .. 7 |-> <<EventName(n - 1), shown[n]>>]
  /\ UNCHANGED <<input, prog, stack, fd, buf>>

Edx == input.fixed + 32 * input.bits

\* Mutant: a shift by four.
PrintFixedShift4 ==
  /\ Goto("leaf0ah", "printFixed", "exit")
  /\ out' = out \o << <<"#fixed fn PMC", Edx % 32>>,
                      <<"FF bit-width", (Edx \div 16) % 256>> >>
  /\ UNCHANGED <<input, prog, stack, fd, buf>>

PrintFixed ==
  /\ Goto("leaf0ah", "printFixed", "exit")
  /\ out' = out \o << <<"#fixed fn PMC", Edx % 32>>,
                      <<"FF bit-width", (Edx \div 32) % 256>> >>
  /\ UNCHANGED <<input, prog, stack, fd, buf>>

-----------------------------------------------------------------------------
\* family: the fields of EAX, stored as bytes.
Eax == input.stepping + 16 * input.model + 256 * input.family
         + 65536 * input.extModel + 1048576 * input.extFamily

StoreFields ==
  /\ Goto("family", "start", "extend")
  /\ stack' = << Eax % 16, (Eax \div 16) % 16, (Eax \div 256) % 16,
                 (Eax \div 65536) % 16, (Eax \div 1048576) % 256 >>
  /\ UNCHANGED <<input, prog, fd, buf, out>>

\* .LcalcExtendFamilyId, which extends the model.
Extend ==
  /\ Goto("family", "extend", "printFamily")
  /\ stack' = IF stack[3] \in {6, 15}
              THEN [stack EXCEPT ![2] = (16 * stack[4] + @) % 256] ELSE stack
  /\ UNCHANGED <<input, prog, fd, buf, out>>

PrintFamily ==
  /\ Goto("family", "printFamily", "exit")
  /\ out' = << <<"Stepping ID", stack[1]>>, <<"Model ID", stack[2]>>,
               <<"Family ID", stack[3]>> >>
  /\ UNCHANGED <<input, prog, stack, fd, buf>>

-----------------------------------------------------------------------------
PrintAvx ==
  /\ Goto("avx", "start", "exit")
  /\ Say("AVX", IF input.avx THEN "available" ELSE "unavailable")
  /\ UNCHANGED <<input, prog, stack, fd, buf>>

\* .LreadBrandString: leaves 4, 3 and 2 to descending addresses.
ReadBrand ==
  /\ Goto("brand", "start", IF Len(stack) = 2 THEN "puts" ELSE "start")
  /\ stack' = <<input.leaf[4 - Len(stack)]>> \o stack
  /\ UNCHANGED <<input, prog, fd, buf, out>>

PutsBrand ==
  /\ Goto("brand", "puts", "exit")
  /\ Say("brand", stack)
  /\ UNCHANGED <<input, prog, stack, fd, buf>>

-----------------------------------------------------------------------------
(***************************************************************************)
(* msr: the level type that CPUID.0BH gives for sub-leaf 2 is made a digit *)
(* and taken for the number of a CPU.  The path is built where pread will  *)
(* store the register.                                                     *)
(***************************************************************************)
BuildPath ==
  /\ Goto("msr", "start", "open")
  /\ buf' = "path"
  /\ UNCHANGED <<input, prog, stack, fd, out>>

\* There is such a device for CPUs 0 to 9 at most, if the msr module is there.
OpenMsr ==
  /\ Goto("msr", "open", "pread")
  /\ \/ fd' = -1
     \/ input.level \in 0 .. 9 /\ fd' = 3
  /\ UNCHANGED <<input, prog, stack, buf, out>>

\* Nobody looks at the result of open or pread.
PreadMsr ==
  /\ Goto("msr", "pread", "speed")
  /\ buf' = IF fd = 3 /\ input.readable THEN "0xCE" ELSE buf
  /\ UNCHANGED <<input, prog, stack, fd, out>>

\* Bytes 1 of the path, "d" of "/dev", and of the register.
Ratio == IF buf = "path" THEN 100 ELSE input.ratio

(***************************************************************************)
(* The product with 100,000,000 as <<high, low>> of 2^32, low in units of  *)
(* 256.  Of the high half mul leaves in edx nothing survives shr $0x20.    *)
(***************************************************************************)
BusClock == 390625
Units == 16777216   \* 2^24: the units of a register's lower half
Product(r) == << (BusClock * r) \div Units, (BusClock * r) % Units >>

\* Mutant: the low half is shifted too.
PrintSpeedHalf ==
  /\ Goto("msr", "speed", "exit")
  /\ out' = << <<"MSR hex-Value", buf>>, <<"CPU Speed", Product(Ratio \div 2)>> >>
  /\ UNCHANGED <<input, prog, stack, fd, buf>>

PrintSpeed ==
  /\ Goto("msr", "speed", "exit")
  /\ out' = << <<"MSR hex-Value", buf>>, <<"CPU Speed", <<0, Product(Ratio)[2]>> >> >>
  /\ UNCHANGED <<input, prog, stack, fd, buf>>

-----------------------------------------------------------------------------
\* msrtest: three registers, one after the other, into the same variable.
OpenTest ==
  /\ Goto("msrtest", "start", IF input.there THEN "pread" ELSE "failed")
  /\ fd' = IF input.there THEN 3 ELSE -1
  /\ UNCHANGED <<input, prog, stack, buf, out>>

Reg == Len(out) + 1

\* Mutant: the result of pread is not looked at.
PreadUnchecked ==
  /\ Goto("msrtest", "pread", "print")
  /\ buf' = IF Reg \in input.readable THEN MsrNumbers[Reg] ELSE buf
  /\ UNCHANGED <<input, prog, stack, fd, out>>

\* AZ leaves main with the descriptor open.
Pread ==
  /\ Goto("msrtest", "pread", IF Reg \in input.readable THEN "print" ELSE "failed")
  /\ buf' = IF Reg \in input.readable THEN MsrNumbers[Reg] ELSE buf
  /\ UNCHANGED <<input, prog, stack, fd, out>>

PrintRegister ==
  /\ Goto("msrtest", "print", IF Len(out) = 2 THEN "close" ELSE "pread")
  /\ Say(MsrNumbers[Reg], buf)
  /\ UNCHANGED <<input, prog, stack, fd, buf>>

CloseTest ==
  /\ Goto("msrtest", "close", "exit")
  /\ fd' = -1
  /\ UNCHANGED <<input, prog, stack, buf, out>>

Next ==
  \/ PushBranchFlags \/ PrintEvents \/ PrintFixed
  \/ StoreFields \/ Extend \/ PrintFamily
  \/ PrintAvx \/ ReadBrand \/ PutsBrand
  \/ BuildPath \/ OpenMsr \/ PreadMsr \/ PrintSpeed
  \/ OpenTest \/ Pread \/ PrintRegister \/ CloseTest

Spec == Init /\ [][Next]_vars

-----------------------------------------------------------------------------
TypeOK ==
  /\ input \in Input(prog)
  /\ fd \in {-1, 3}
  /\ buf \in {"undefined", "path"} \cup Range(MsrNumbers)
  /\ Len(stack) <= 5 /\ Len(out) <= 9
  /\ prog = "family" => \A n \in DOMAIN stack :
       stack[n] \in 0 .. (IF n \in {2, 5} THEN 255 ELSE 15)

Done(p) == prog = p /\ pc = "exit"

(***************************************************************************)
(* The lines of leaf0ah show the event they are called by, but for the two *)
(* branch events, which stand under each other's names; the counters'      *)
(* number and width are the fields of EDX.                                 *)
(***************************************************************************)
RegisterLinesShowTheirEvent ==
  Done("leaf0ah") =>
    /\ \A n \in 0 .. 6 :
         LET bit == IF n < 5 THEN n ELSE 11 - n
         IN  out[n + 1] = <<EventName(n), IF bit \in input.ebx THEN "no" ELSE "yes">>
    /\ out[8][2] = input.fixed /\ out[9][2] = input.bits

\* Every line of msrtest shows the register it names: none is printed after
\* a read that failed, with the value of the one before.
LinesAreFresh == prog = "msrtest" => \A n \in DOMAIN out : out[n][1] = out[n][2]

\* "CPU Speed is %Ld Hz" (msr.s): once the register has been read, the line
\* is 100 MHz times its ratio, as long as that fits into 32 bits.
SpeedIsRatioTo42 ==
  Done("msr") /\ buf = "0xCE" /\ input.ratio <= 42 =>
    BusClock * input.ratio = Units * out[2][2][1] + out[2][2][2]

\* Each of the programs exits, or returns from main where a call failed.
Ends == <>(pc \in {"exit", "failed"})
=============================================================================
