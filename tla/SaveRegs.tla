------------------------------ MODULE SaveRegs ------------------------------
(***************************************************************************)
(* The macros m_save_regs and m_restore_regs (savereg.macro.s), with which *)
(* assembly code calls the callbacks start_counters and stop_counters in   *)
(* the middle of a computation, and execute_baseline, which does nothing   *)
(* else.  The macros store below the stack pointer before they move it,    *)
(* and load from below it after they have moved it back; a signal handler  *)
(* may run on the same stack between any two instructions.                 *)
(***************************************************************************)
EXTENDS Integers, Sequences

CONSTANTS
  RedZone,     \* words below the stack pointer a signal handler leaves alone
  Sites,       \* the places that call
  Times,       \* values of the argument of execute_baseline
  MaxSignals   \* bound on the signals delivered

\* What the composing module assumes of the constants.
SaveAssumption ==
  /\ RedZone \in Nat /\ RedZone >= 16   \* 128 bytes, says the ABI
  /\ MaxSignals \in Nat /\ Times \subseteq Nat
  /\ Sites \subseteq {"entry", "preLine", "lineEnd", "baseline"}

Xmm    == {"xmm0", "xmm1", "xmm2", "xmm3"}
Callee == {"rbx", "r12", "r13", "r14", "r15"}   \* kept by every function
Caller == {"rax", "rcx", "rdx", "rdi", "rsi", "r8", "r9"}
Reg    == Xmm \cup Callee \cup Caller

\* The registers in the order of the macro, each with the lowest of its
\* words, counted downwards from the stack pointer.
Saved ==
  << <<"xmm0", 2>>, <<"xmm1", 4>>, <<"xmm2", 6>>, <<"xmm3", 8>>,
     <<"rax", 9>>, <<"rbx", 10>>, <<"rcx", 11>>, <<"rdx", 12>>, <<"rdi", 13>>, <<"rsi", 14>>,
     <<"r8", 15>>, <<"r9", 16>>, <<"r12", 17>>, <<"r13", 18>>, <<"r14", 19>>, <<"r15", 20>> >>

Frame == 20   \* 0xa0: sub and add

Slot(k) == LET r == Saved[k][1]  d == Saved[k][2]
           IN  IF r \in Xmm THEN {d - 1, d} ELSE {d}

(***************************************************************************)
(* What each place still needs when the callback has returned: the kernels *)
(* of 2012.12.02 call at their entry, those of 2012.11.20 before the cache *)
(* lines, all of them behind those; execute_baseline between iterations.   *)
(***************************************************************************)
Live(site) ==
  CASE site = "entry"    -> {"r12", "r13", "rdi"}
    [] site = "preLine"  -> Xmm \cup {"r12", "r14", "r15", "rdx"}
    [] site = "lineEnd"  -> Xmm \cup {"r12", "r14", "r15", "rdx"}
    [] site = "baseline" -> {"rdi", "rsi", "rdx"}

VARIABLES
  pc,
  site, times,
  k,         \* the next register to save or restore
  reserved,  \* the stack pointer is below the frame
  regs,      \* register -> whose value it holds: its own name, or Junk
  mem,       \* words below the stack pointer of the caller
  left,      \* rdi of execute_baseline
  calls,     \* history: the callbacks called
  signals,   \* history: signals delivered
  exposed    \* history: one came while the frame was not reserved

vars == <<pc, site, times, k, reserved, regs, mem, left, calls, signals, exposed>>

Junk == "junk"
Deepest == Frame + RedZone + 1

Goto(from, to) == pc = from /\ pc' = to

Init ==
  /\ site \in Sites
  /\ times \in IF site = "baseline" THEN Times ELSE {1}
  /\ pc = IF times = 0 THEN "done" ELSE "save"
  /\ k = 1
  /\ reserved = FALSE
  /\ regs = [r \in Reg |-> r]
  /\ mem = [d \in 1 .. Deepest |-> Junk]
  /\ left = times
  /\ calls = <<>> /\ signals = 0 /\ exposed = FALSE

-----------------------------------------------------------------------------
\* One store of m_save_regs.
SaveOne ==
  /\ Goto("save", IF k = Len(Saved) THEN "reserve" ELSE "save")
  /\ k' = k + 1
  /\ mem' = [d \in DOMAIN mem |-> IF d \in Slot(k) THEN regs[Saved[k][1]] ELSE mem[d]]
  /\ UNCHANGED <<site, times, reserved, regs, left, calls, signals, exposed>>

\* Mutant: the sub is missing.
ReserveNothing ==
  /\ Goto("reserve", "call")
  /\ UNCHANGED <<site, times, k, reserved, regs, mem, left, calls, signals, exposed>>

\* sub $0xa0, %rsp
Reserve ==
  /\ Goto("reserve", "call")
  /\ reserved' = TRUE
  /\ UNCHANGED <<site, times, k, regs, mem, left, calls, signals, exposed>>

Rsp == IF reserved THEN Frame ELSE 0

\* The callback: start, then stop, ...; it may use every register a function
\* need not keep, and the stack below the frame.
Callback ==
  /\ Goto("call", "release")
  /\ calls' = Append(calls, IF site = "lineEnd" \/ Len(calls) % 2 = 1 THEN "stop" ELSE "start")
  /\ regs' = [r \in Reg |-> IF r \in Callee THEN regs[r] ELSE Junk]
  /\ mem' = [d \in DOMAIN mem |-> IF d > Rsp THEN Junk ELSE mem[d]]
  /\ UNCHANGED <<site, times, k, reserved, left, signals, exposed>>

\* add $0xa0, %rsp
Release ==
  /\ Goto("release", "restore")
  /\ reserved' = FALSE
  /\ k' = Len(Saved)
  /\ UNCHANGED <<site, times, regs, mem, left, calls, signals, exposed>>

\* Mutant: xmm0 to xmm3 are not restored.
RestoreGeneral ==
  /\ Goto("restore", IF k = 5 THEN "after" ELSE "restore")
  /\ k' = k - 1
  /\ regs' = [regs EXCEPT ![Saved[k][1]] =
                IF \A d \in Slot(k) : mem[d] = Saved[k][1] THEN Saved[k][1] ELSE Junk]
  /\ UNCHANGED <<site, times, reserved, mem, left, calls, signals, exposed>>

\* One load of m_restore_regs, which goes the other way.
RestoreOne ==
  /\ Goto("restore", IF k = 1 THEN "after" ELSE "restore")
  /\ k' = k - 1
  /\ regs' = [regs EXCEPT ![Saved[k][1]] =
                IF \A d \in Slot(k) : mem[d] = Saved[k][1] THEN Saved[k][1] ELSE Junk]
  /\ UNCHANGED <<site, times, reserved, mem, left, calls, signals, exposed>>

Paired == Len(calls) % 2 = 0   \* every start has its stop

\* Mutant: one iteration more.
ContinueJge ==
  /\ left' = IF Paired THEN left - 1 ELSE left
  /\ \E last \in IF Paired /\ regs["rdi"] = Junk THEN BOOLEAN ELSE {Paired /\ left <= 0} :
       Goto("after", IF site # "baseline" \/ last THEN "done" ELSE "save")
  /\ k' = 1
  /\ UNCHANGED <<site, times, reserved, regs, mem, calls, signals, exposed>>

(***************************************************************************)
(* A kernel goes on with its computation.  execute_baseline calls stop     *)
(* after start, and counts down after stop: sub $1, %rdi; jg.  It counts   *)
(* with a register that the callbacks may use.                             *)
(***************************************************************************)
Continue ==
  /\ left' = IF Paired THEN left - 1 ELSE left
  /\ \E last \in IF Paired /\ regs["rdi"] = Junk THEN BOOLEAN ELSE {Paired /\ left <= 1} :
       Goto("after", IF site # "baseline" \/ last THEN "done" ELSE "save")
  /\ k' = 1
  /\ UNCHANGED <<site, times, reserved, regs, mem, calls, signals, exposed>>

\* A handler runs below the red zone.
Signal ==
  /\ signals < MaxSignals
  /\ signals' = signals + 1
  /\ pc # "done"
  /\ mem' = [d \in DOMAIN mem |-> IF d > Rsp + RedZone THEN Junk ELSE mem[d]]
  /\ exposed' = (exposed \/ ~ reserved)
  /\ UNCHANGED <<pc, site, times, k, reserved, regs, left, calls>>

Next == SaveOne \/ Reserve \/ Callback \/ Release \/ RestoreOne \/ Continue \/ Signal

Spec == Init /\ [][Next]_vars

-----------------------------------------------------------------------------
\* Every variable has its type.
TypeOK ==
  /\ pc \in {"save", "reserve", "call", "release", "restore", "after", "done"}
  /\ k \in 0 .. Len(Saved) + 1
  /\ \A r \in Reg : regs[r] \in {r, Junk}
  /\ \A d \in DOMAIN mem : mem[d] \in Reg \cup {Junk}
  /\ left \in 0 .. times

Lost == {r \in Live(site) : regs[r] = Junk}

(***************************************************************************)
(* Whatever the callbacks do to the registers and the stack, the code that *)
(* called them finds everything it needs, as long as no handler ran while  *)
(* the stack pointer was above the stores.                                 *)
(***************************************************************************)
LiveSurvives == pc \in {"after", "done"} /\ ~ exposed => Lost = {}

(***************************************************************************)
(* If one did, only registers can be lost that the callback would have     *)
(* kept anyway: the four whose words lie below the red zone.  The counter  *)
(* and the callbacks of execute_baseline are never lost.                   *)
(***************************************************************************)
OnlyFarLost ==
  pc \in {"after", "done"} => Lost \subseteq {"r12", "r13", "r14", "r15"}

(***************************************************************************)
(* execute_baseline calls start and stop in turn, and each as often as it  *)
(* is told to, although it keeps its counter in a register that callbacks  *)
(* may use, and whatever signals come.                                     *)
(***************************************************************************)
BaselineExact ==
  pc = "done" /\ site = "baseline" =>
    calls = [n \in 1 .. 2 * times |-> IF n % 2 = 1 THEN "start" ELSE "stop"]
=============================================================================
