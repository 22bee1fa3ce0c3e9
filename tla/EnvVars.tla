------------------------------ MODULE EnvVars -------------------------------
(***************************************************************************)
(* The programs envvars.64/envvars.s and envvars.32/vars.s, which print    *)
(* their arguments and their environment from the stack the kernel gives   *)
(* to a new process: argc, argv, a null pointer, envp, a null pointer, and *)
(* the auxiliary vector, whose words are not pointers to strings.          *)
(***************************************************************************)
EXTENDS Integers, Sequences

CONSTANTS
  MaxArgs, MaxEnv,   \* bounds on the lengths of argv and envp
  AuxWords,          \* the words of the auxiliary vector
  Width              \* 64 or 32: the width of rcx

\* What the composing module assumes of the constants. The auxiliary vector has
\* a last entry at least. The prover does not know powers.
EnvAssumption ==
  /\ MaxArgs \in Nat /\ MaxEnv \in Nat /\ AuxWords \in Nat \ {0}
  /\ 2 ^ Width \in Nat
  /\ MaxArgs + MaxEnv + 2 < 2 ^ Width

VARIABLES
  bits,    \* which of the two programs
  pc,
  argc, envc,
  rcx,     \* the counter of loop
  ptr,     \* the stack slot to be read next
  out,     \* the lines printed: what was printed of which slot
  fault    \* a word that is no string was printed, or the stack left

vars == <<bits, pc, argc, envc, rcx, ptr, out, fault>>

\* What the slots hold.
ArgSlots  == 1 .. argc
EnvSlots  == argc + 2 .. argc + 1 + envc
NullSlots == {argc + 1, argc + 2 + envc}
AuxSlots  == argc + 3 + envc .. argc + 2 + envc + AuxWords
IsString(slot) == slot \in ArgSlots \cup EnvSlots

\* printf prints "(null)" for a null pointer and faults on other words.
Printf(slot) ==
  /\ fault' = ~ (IsString(slot) \/ slot \in NullSlots)
  /\ out' = IF fault' THEN out ELSE Append(out, slot)

Init ==
  /\ bits \in {32, 64}
  /\ pc = "start"
  /\ argc \in 0 .. MaxArgs /\ envc \in 0 .. MaxEnv
  /\ rcx = 0 /\ ptr = 0
  /\ out = <<>> /\ fault = FALSE

Goto(from, to) == pc = from /\ pc' = IF fault' THEN "killed" ELSE to

Start ==
  /\ rcx' = argc /\ ptr' = 1
  /\ UNCHANGED <<bits, argc, envc, out, fault>>
  /\ Goto("start", "print_arg")

\* Mutant: the counter is tested before the first argument is printed.
PrintArgTested ==
  /\ IF rcx = 0 THEN UNCHANGED <<out, fault, rcx, ptr>>
                ELSE Printf(ptr) /\ rcx' = rcx - 1 /\ ptr' = ptr + 1
  /\ Goto("print_arg", IF rcx' = 0 THEN "args_finished" ELSE "print_arg")
  /\ UNCHANGED <<bits, argc, envc>>

\* loop: decrement, and again if that is not zero.
PrintArg ==
  /\ Printf(ptr)
  /\ rcx' = IF rcx = 0 THEN 2 ^ Width - 1 ELSE rcx - 1
  /\ ptr' = ptr + 1
  /\ Goto("print_arg", IF rcx' = 0 THEN "args_finished" ELSE "print_arg")
  /\ UNCHANGED <<bits, argc, envc>>

\* Mutant: the null pointer behind argv is not skipped.
ArgsFinishedShort ==
  /\ IF bits = 32 THEN ptr' = ptr /\ Printf(ptr)
                  ELSE ptr' = argc + 1 /\ UNCHANGED <<out, fault>>
  /\ Goto("args_finished", "print_env")
  /\ UNCHANGED <<bits, argc, envc, rcx>>

(***************************************************************************)
(* The 32-bit program prints the null pointer behind argv and steps over   *)
(* it, the 64-bit one computes where envp begins.                          *)
(***************************************************************************)
ArgsFinished ==
  /\ IF bits = 32 THEN ptr' = ptr + 1 /\ Printf(ptr)
                  ELSE ptr' = argc + 2 /\ UNCHANGED <<out, fault>>
  /\ Goto("args_finished", "print_env")
  /\ UNCHANGED <<bits, argc, envc, rcx>>

\* The slot holds a null pointer.
IsNull(slot) == slot \in NullSlots

PrintEnv ==
  /\ ~ IsNull(ptr)
  /\ Printf(ptr)
  /\ ptr' = ptr + 1
  /\ Goto("print_env", "print_env")
  /\ UNCHANGED <<bits, argc, envc, rcx>>

Exit ==
  /\ IsNull(ptr)
  /\ UNCHANGED <<bits, argc, envc, rcx, ptr, out, fault>>
  /\ Goto("print_env", "exit")

Next == Start \/ PrintArg \/ ArgsFinished \/ PrintEnv \/ Exit

\* The process keeps being scheduled.
Spec == Init /\ [][Next]_vars /\ WF_vars(Next)

-----------------------------------------------------------------------------
TypeOK ==
  /\ pc \in {"start", "print_arg", "args_finished", "print_env", "exit", "killed"}
  /\ rcx \in 0 .. 2 ^ Width - 1
  /\ ptr \in 0 .. argc + 3 + envc + AuxWords
  /\ fault = (pc = "killed")

(***************************************************************************)
(* A program that exits has printed argv and then envp, each string once   *)
(* and in order, the 32-bit one the null pointer between them as well.     *)
(***************************************************************************)
PrintsAll ==
  pc = "exit" =>
    out = [n \in 1 .. argc |-> n]
            \o (IF bits = 32 THEN <<argc + 1>> ELSE <<>>)
            \o [n \in 1 .. envc |-> argc + 1 + n]

(***************************************************************************)
(* execve allows an empty argv.  The loop instruction then takes the count *)
(* for 2^Width: the program walks over its environment and into the        *)
(* auxiliary vector and never comes to its exit.                           *)
(***************************************************************************)
EmptyArgvNeverExits == argc = 0 => pc # "exit"

\* The program comes to an end, one way or the other.
Ends == <>(pc \in {"exit", "killed"})
=============================================================================
