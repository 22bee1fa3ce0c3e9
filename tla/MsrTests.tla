------------------------------ MODULE MsrTests ------------------------------
(***************************************************************************)
(* The programs msrmod.test.0 ... msrmod.test.6, which measure their own   *)
(* overhead with the driver.  Test.0 to test.2 measure once, test.3 and    *)
(* test.4 average over a loop whose file descriptor lives in registers,    *)
(* test.6 subtracts a baseline from every result.  No program pins itself  *)
(* to a CPU.                                                               *)
(***************************************************************************)
EXTENDS Integers, Sequences, FiniteSets

CONSTANTS
  Cpu, PMC_COUNT, FFC_COUNT, CounterSize, VecLimit, MaxTsc,
  Migrates,    \* BOOLEAN: may the scheduler move the program?
  Program,     \* the programs that are run
  Fd,          \* the descriptor open returns
  LoopShift,   \* 5: the loops run 0x20 times, test.4 divides by a shift
  Word         \* an unsigned long long holds 0 .. Word-1 (2^64)

ASSUME TestAssumption ==
  /\ Program \subseteq {"test.0", "test.1", "test.2", "test.3", "test.4", "test.6"}
  /\ Fd \in Nat /\ LoopShift \in Nat
  /\ PMC_COUNT \in Nat \ {0} /\ FFC_COUNT \in Nat \ {0}
  /\ Word \in Nat \ {0}

Loops == 2 ^ LoopShift

\* The sums of the loops and of the baseline stay below 2^64.
ASSUME SumAssumption == Loops * CounterSize <= Word

\* One process; its vectors.
Client == {"self"}
Script == {"reset", "start", "stop"}

VARIABLES
  loaded, chrdev, pce, msr, tsc, cpu, open, mem, given, incall, cur, idx, ret,
  prog, pc,
  phase,     \* test.6 runs its baseline first
  fd,        \* what open returned
  eax, ebx,  \* the registers that carry it in test.3 and test.4
  left,      \* r12: rounds left
  acc,       \* per counter, and for the time stamps: the sum over the rounds
  fixed,     \* test.6: the baseline
  shown,     \* what has been printed, a function of counters per line
  inner, outer,  \* history: events from the return of start to the call of
                 \* stop, and from the call of start to the return of stop
  rounds,        \* history: <<inner, outer>> of the rounds of this phase
  moved,         \* history: the CPUs the scheduler has moved the program from
  deserted       \* history: those among them that it left while it measured

driverVars == <<loaded, chrdev, pce, msr, tsc, cpu, open, mem, given,
                incall, cur, idx, ret>>
regs    == <<fd, eax, ebx, left>>
results == <<acc, fixed, shown>>
places  == <<moved, deserted>>
history == <<inner, outer, rounds, places>>
vars    == <<driverVars, prog, pc, phase, regs, results, history>>

-----------------------------------------------------------------------------
GlobalCtrl == <<"PERF_GLOBAL_CTRL", 0>>
FixedCtrl  == <<"FIXED_CTR_CTRL", 0>>
EvtSel(n)  == <<"PERFEVTSEL", n>>
Pmc(n)     == <<"PMC", n>>
Ffc(n)     == <<"FIXED_CTR", n>>
TSC        == <<"TSC", 0>>

W(r, v) == [op |-> "WRITE", ecx |-> r, value |-> v]
R(r)    == [op |-> "READ", ecx |-> r, value |-> 0]
Rdtsc   == [op |-> "RDTSC", ecx |-> GlobalCtrl, value |-> 0]
Stop    == [op |-> "STOP", ecx |-> GlobalCtrl, value |-> 0]

OnCounters(f(_)) == [n \in 1 .. PMC_COUNT |-> f(Pmc(n - 1))]
                      \o [n \in 1 .. FFC_COUNT |-> f(Ffc(n - 1))]
ZeroAll == OnCounters(LAMBDA k : W(k, 0))
ReadAll == OnCounters(R)

\* Events are selected for user mode; 0x222 does the same for the FFCs.
SelectAll == [n \in 1 .. PMC_COUNT |-> W(EvtSel(n - 1), 1)]
FfcsOn    == W(FixedCtrl, 2 * ((16^FFC_COUNT - 1) \div 15))
FfcsOff   == W(FixedCtrl, 0)
CountersOn == W(GlobalCtrl, 2^(PMC_COUNT + FFC_COUNT) - 1)
Halt       == W(GlobalCtrl, 0)

StartVec0 == <<FfcsOn, CountersOn, W(EvtSel(0), 1), W(Pmc(0), 0), Stop>>
StopVec0  == <<FfcsOff, Halt, R(Pmc(0)), Stop>>

Start1 == <<Halt, FfcsOff>> \o ZeroAll \o SelectAll \o <<FfcsOn, CountersOn, Stop>>
Stop1  == <<Halt, FfcsOff>> \o ReadAll \o ZeroAll \o <<Stop>>

StartVec2 == <<Halt>> \o ZeroAll \o <<FfcsOn>> \o SelectAll \o <<CountersOn, Stop>>

\* Mutant: the counters are zeroed before they are read.
StopVec2Zeroed == <<Halt>> \o ZeroAll \o ReadAll \o <<Stop>>

StopVec2  == <<Halt>> \o ReadAll \o ZeroAll \o <<Stop>>

Start3 == <<Halt, Rdtsc>> \o ZeroAll \o SelectAll \o <<FfcsOn, CountersOn, Stop>>
Stop3  == <<Halt, FfcsOff, Rdtsc>> \o ReadAll \o ZeroAll \o <<Stop>>

ResetMsrScript == <<Halt>> \o ZeroAll \o SelectAll \o <<Rdtsc, FfcsOn, CountersOn, Stop>>

\* Mutant: the counters go on counting while and after they are read.
ReadMsrUnhalted == <<Rdtsc>> \o ReadAll \o <<Stop>>

ReadMsrValues  == <<Halt, FfcsOff, Rdtsc>> \o ReadAll \o <<Stop>>

PmcReset == <<Halt>> \o ZeroAll \o <<Stop>>
PmcCfg0  == <<FfcsOn>> \o SelectAll \o <<CountersOn, Stop>>
PmcRead  == <<Halt>> \o ReadAll \o <<Stop>>

StartScript(g) ==
  CASE g = "test.0" -> StartVec0 [] g = "test.1" -> Start1 [] g = "test.2" -> StartVec2
    [] g = "test.3" -> Start3 [] g = "test.4" -> ResetMsrScript [] g = "test.6" -> PmcCfg0

StopScript(g) ==
  CASE g = "test.0" -> StopVec0 [] g = "test.1" -> Stop1 [] g = "test.2" -> StopVec2
    [] g = "test.3" -> Stop3 [] g = "test.4" -> ReadMsrValues [] g = "test.6" -> PmcRead

ScriptOf(g, b) ==
  CASE b = "reset" -> PmcReset [] b = "start" -> StartScript(g) [] b = "stop" -> StopScript(g)

AllVectors == {ScriptOf(g, b) : g \in Program, b \in Script}

D == INSTANCE MsrDriver WITH
  Vectors <- AllVectors, Buf <- Script

\* What the driver assumes, and that no script is longer than it permits.
ASSUME DriverAssumption == D!CountAssumption
ASSUME FitAssumption == 2 * (PMC_COUNT + FFC_COUNT) + 5 <= VecLimit

\* What powers are: arithmetic that the prover has to be told.
ASSUME PowerAssumption ==
  /\ Loops \in Nat \ {0}
  /\ \A b \in {2, 16} :
       /\ b^0 = 1
       /\ \A n \in 0 .. PMC_COUNT + FFC_COUNT : b^n \in Nat \ {0} /\ b^(n + 1) = b * b^n

\* What a program reads: test.0 looks at PMC0 only.
Shown(g) == IF g = "test.0" THEN {Pmc(0)} ELSE D!Counter

Looping == {"test.3", "test.4"}

-----------------------------------------------------------------------------
Init ==
  /\ \E there \in BOOLEAN :
       loaded = [m \in D!Module |-> there /\ m = "msrdrv"] /\ chrdev = there
  /\ pce = [c \in Cpu |-> FALSE]
  /\ msr = [c \in Cpu |-> [r \in D!Reg |-> 0]]
  /\ tsc = 0
  /\ cpu \in [Client -> Cpu]
  /\ open = [p \in Client |-> FALSE]
  /\ prog \in Program
  /\ mem = [p \in Client |-> [b \in Script |-> ScriptOf(prog, b)]]
  /\ given = mem
  /\ incall = [p \in Client |-> FALSE]
  /\ cur = [p \in Client |-> "start"]
  /\ idx = [p \in Client |-> 0]
  /\ ret = [p \in Client |-> 0]
  /\ pc = "open"
  /\ phase = IF prog = "test.6" THEN "baseline" ELSE "test"
  /\ fd = -1 /\ eax = 0 /\ ebx = 0
  /\ left = IF prog \in Looping \cup {"test.6"} THEN Loops ELSE 1
  /\ acc = [k \in D!Counter \cup {TSC} |-> 0]
  /\ fixed = [k \in D!Counter |-> 0]
  /\ shown = <<>>
  /\ inner = 0 /\ outer = 0 /\ rounds = <<>>
  /\ moved = {} /\ deserted = {}

Goto(from, to) == pc = from /\ pc' = to
Self == "self"
Returned == ~ incall[Self]

OpenDevice ==
  /\ Goto("open", IF prog = "test.6" THEN "reset" ELSE "start")
  /\ D!Open(Self)
  /\ fd' = Fd /\ eax' = Fd /\ ebx' = Fd
  /\ UNCHANGED <<prog, phase, left, results, history>>

(***************************************************************************)
(* open fails.  The assembler programs exit; those in C have no test and   *)
(* go on with the descriptor -1.                                           *)
(***************************************************************************)
OpenFails ==
  /\ ~ chrdev
  /\ Goto("open", CASE prog \in {"test.1", "test.3", "test.4"} -> "exit"
                    [] prog = "test.6" -> "reset"
                    [] OTHER -> "start")
  /\ eax' = -1
  /\ UNCHANGED <<driverVars, prog, phase, fd, ebx, left, results, history>>

(***************************************************************************)
(* ioctl(f, IOCTL_MSR_CMDS, script): the kernel refuses a descriptor that  *)
(* is not the driver's, and eax tells.                                     *)
(***************************************************************************)
Ioctl(f, script) ==
  IF open[Self] /\ f = fd
  THEN D!IoctlEnter(Self, script) /\ eax' = 0
  ELSE Returned /\ eax' = -1 /\ UNCHANGED driverVars

Reset ==
  /\ Goto("reset", "start")
  /\ Ioctl(fd, "reset")
  /\ inner' = 0 /\ outer' = 0
  /\ UNCHANGED <<prog, phase, fd, ebx, left, results, rounds, places>>

\* Where the descriptor for the first ioctl of a round comes from.
StartFd == IF prog \in Looping THEN eax ELSE fd

\* Test.3 saves eax in every round, test.4 saved it before the loop.
Start ==
  /\ Goto("start", "work")
  /\ Ioctl(StartFd, "start")
  /\ ebx' = IF prog = "test.3" THEN eax ELSE ebx
  /\ IF prog = "test.6" THEN UNCHANGED <<inner, outer>> ELSE inner' = 0 /\ outer' = 0
  /\ UNCHANGED <<prog, phase, fd, left, results, rounds, places>>

StopCounters ==
  /\ Goto("work", "stopped")
  /\ Ioctl(IF prog \in Looping THEN ebx ELSE fd, "stop")
  /\ UNCHANGED <<prog, phase, fd, ebx, left, results, history>>

\* The value the read script holds for counter k.
Reading(k) ==
  LET v == mem[Self]["stop"]
  IN  v[CHOOSE n \in DOMAIN v : v[n].op = "READ" /\ v[n].ecx = k].value

Stamp(b) ==
  LET v == mem[Self][b] IN v[CHOOSE n \in DOMAIN v : v[n].op = "RDTSC"].value

Round == rounds' = Append(rounds, <<inner, outer>>)

\* The single-shot programs print what the second script has read.
PrintRead ==
  /\ prog \notin Looping \cup {"test.6"} /\ Returned
  /\ Goto("stopped", "close")
  /\ shown' = Append(shown, [k \in Shown(prog) |-> Reading(k)])
  /\ Round
  /\ UNCHANGED <<driverVars, prog, phase, regs, acc, fixed, inner, outer, places>>

(***************************************************************************)
(* Test.3 and test.4 add up counters and elapsed time.  In test.4 rax is   *)
(* left with the last counter added, FFC2, in test.3 with ioctl's result.  *)
(***************************************************************************)
Accumulate ==
  /\ prog \in Looping /\ Returned
  /\ Goto("stopped", IF left = 1 THEN "average" ELSE "start")
  /\ acc' = [k \in D!Counter \cup {TSC} |->
               acc[k] + (IF k = TSC THEN Stamp("stop") - Stamp("start") ELSE Reading(k))]
  /\ left' = left - 1
  /\ eax' = IF prog = "test.4" THEN Reading(Ffc(FFC_COUNT - 1)) ELSE eax
  /\ Round
  /\ UNCHANGED <<driverVars, prog, phase, fd, ebx, fixed, shown, inner, outer, places>>

\* Mutant: the shift is by four for 0x20 rounds.
AverageHalf ==
  /\ Goto("average", "exit")
  /\ shown' = Append(shown, [k \in DOMAIN acc |-> (2 * acc[k]) \div Loops])
  /\ UNCHANGED <<driverVars, prog, phase, regs, acc, fixed, history>>

\* .LcalcAvgLatency, or div; then print and exit without a close.
Average ==
  /\ Goto("average", "exit")
  /\ shown' = Append(shown, [k \in DOMAIN acc |-> acc[k] \div Loops])
  /\ UNCHANGED <<driverVars, prog, phase, regs, acc, fixed, history>>

(***************************************************************************)
(* run_baseline: the counters are not reset between its rounds, so that    *)
(* the last reading is the sum.                                            *)
(***************************************************************************)
BaselineRound ==
  /\ phase = "baseline" /\ Returned
  /\ Goto("stopped", IF left = 1 THEN "baseline" ELSE "start")
  /\ left' = left - 1
  /\ UNCHANGED <<driverVars, prog, phase, fd, eax, ebx, results, history>>

\* Mutant: the sum is taken for the mean.
BaselineSum ==
  /\ Goto("baseline", "reset")
  /\ fixed' = [k \in D!Counter |-> Reading(k)]
  /\ phase' = "test" /\ left' = Loops
  /\ Round
  /\ UNCHANGED <<driverVars, prog, fd, eax, ebx, acc, shown, inner, outer, places>>

BaselineMean ==
  /\ Goto("baseline", "reset")
  /\ fixed' = [k \in D!Counter |-> Reading(k) \div Loops]
  /\ phase' = "test" /\ left' = Loops
  /\ Round
  /\ UNCHANGED <<driverVars, prog, fd, eax, ebx, acc, shown, inner, outer, places>>

\* Mutant: the difference is taken for a signed one.
MinusSigned(x, y) == x - y

(***************************************************************************)
(* The difference of two unsigned numbers, printed as one (%llu): a        *)
(* reading below the baseline comes out close to 2^64.                     *)
(***************************************************************************)
Minus(x, y) == (x - y) % Word

PrintResult ==
  /\ prog = "test.6" /\ phase = "test" /\ Returned
  /\ Goto("stopped", IF left = 1 THEN "close" ELSE "reset")
  /\ shown' = Append(shown, [k \in D!Counter |-> Minus(Reading(k), fixed[k])])
  /\ left' = left - 1
  /\ Round
  /\ UNCHANGED <<driverVars, prog, phase, fd, eax, ebx, acc, fixed, inner, outer, places>>

CloseDriver ==
  /\ Goto("close", "exit")
  /\ IF open[Self] THEN D!Close(Self) ELSE UNCHANGED driverVars
  /\ UNCHANGED <<prog, phase, regs, results, history>>

ProgramStep ==
  \/ OpenDevice \/ OpenFails \/ Reset \/ Start \/ StopCounters \/ PrintRead
  \/ Accumulate \/ Average \/ BaselineRound \/ BaselineMean \/ PrintResult
  \/ CloseDriver

DriverStep ==
  D!IoctlStep(Self) /\ UNCHANGED <<prog, pc, phase, regs, results, history>>

\* Events are counted between the two calls for certain, within them perhaps.
Tick(c) ==
  /\ D!Tick(c)
  /\ inner' = IF cpu[Self] = c /\ pc = "work" /\ Returned THEN inner + 1 ELSE inner
  /\ outer' = IF cpu[Self] = c /\ (pc = "work" \/ (pc = "stopped" /\ ~ Returned))
              THEN outer + 1 ELSE outer
  /\ UNCHANGED <<prog, pc, phase, regs, results, rounds, places>>

(***************************************************************************)
(* The scheduler moves the program to CPU c, in the middle of an ioctl     *)
(* perhaps.  The driver goes on with the registers of the new CPU, and     *)
(* what was counting on the old one goes on counting.                      *)
(***************************************************************************)
Measuring == pc = "work" \/ (pc = "stopped" /\ ~ Returned)

Move(c) ==
  /\ pc # "exit"
  /\ D!Migrate(Self, c)
  /\ moved' = moved \cup {cpu[Self]}
  /\ deserted' = IF Measuring THEN deserted \cup {cpu[Self]} ELSE deserted
  /\ UNCHANGED <<prog, pc, phase, regs, results, inner, outer, rounds>>

Next == ProgramStep \/ DriverStep \/ \E c \in Cpu : Tick(c) \/ Move(c)

Spec == Init /\ [][Next]_vars

-----------------------------------------------------------------------------
TypeOK ==
  /\ pc \in {"open", "reset", "start", "work", "stopped", "average", "baseline",
             "close", "exit"}
  /\ phase \in {"baseline", "test"}
  /\ fd \in {-1, Fd} /\ eax \in Nat \cup {-1} /\ ebx \in Nat \cup {-1}
  /\ left \in 0 .. Loops
  /\ acc \in [D!Counter \cup {TSC} -> Nat]
  /\ fixed \in [D!Counter -> Nat]
  /\ moved \subseteq Cpu /\ deserted \subseteq moved

(***************************************************************************)
(* A single-shot program prints, for every counter it configured, what     *)
(* that counter saw while it ran; and zeroes where there is no driver.     *)
(***************************************************************************)
SingleShotBracketed ==
  prog \in {"test.0", "test.1", "test.2"} =>
    \A n \in DOMAIN shown : \A k \in DOMAIN shown[n] :
      IF fd = Fd THEN shown[n][k] \in rounds[n][1] .. rounds[n][2]
                 ELSE shown[n][k] = 0

(***************************************************************************)
(* Each line of test.6 is the count of its own round less the mean cost of *)
(* an empty round, in the arithmetic of an unsigned word: where a round    *)
(* cost less than the baseline, the program prints a huge number.          *)
(***************************************************************************)
LinesLessBaseline ==
  prog = "test.6" /\ fd = Fd =>
    \A n \in DOMAIN shown, k \in D!Counter :
      \E d \in (rounds[n + 1][1] - (rounds[1][2] \div Loops))
                 .. (rounds[n + 1][2] - (rounds[1][1] \div Loops)) :
        shown[n][k] = d % Word

(***************************************************************************)
(* What a program prints without a loop, or less a baseline, is what its   *)
(* counters saw: both of the above (test.0, test.1, test.2 and test.6), as *)
(* long as the scheduler leaves the program where it started.              *)
(***************************************************************************)
PrintsItsCounts == moved = {} => SingleShotBracketed /\ LinesLessBaseline

(***************************************************************************)
(* The averages of test.3 and test.4 are the counts of the first round     *)
(* alone: in the later ones the first ioctl gets a descriptor that is none *)
(* (unless a count of test.4 happens to equal it), nothing is reset, and   *)
(* the readings of the first round are added again.  Again a program that  *)
(* has been moved is excepted.                                             *)
(***************************************************************************)
AveragesAreTheFirstRound ==
  prog \in Looping /\ MaxTsc < Fd /\ moved = {} =>
    \A n \in DOMAIN shown, k \in D!Counter :
      shown[n][k] \in rounds[1][1] .. rounds[1][2]

(***************************************************************************)
(* The variables keep their types, and a program that is done has left the *)
(* counters halted, whatever failed and wherever the scheduler moved it,   *)
(* but on the CPUs it was moved away from while it measured: there nobody  *)
(* stops them.                                                             *)
(***************************************************************************)
HaltedAtExit ==
  /\ TypeOK
  /\ pc \in {"average", "close", "exit"} =>
       \A c \in Cpu \ deserted : msr[c][GlobalCtrl] = 0

=============================================================================
