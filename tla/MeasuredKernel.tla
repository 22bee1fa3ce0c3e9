--------------------------- MODULE MeasuredKernel ---------------------------
(***************************************************************************)
(* A measuring library of the blog entries and what it measures, together: *)
(* libpmc.c calls the execute_test of the test library, and that calls the *)
(* bitwise-or kernel with the library's own callbacks.  Three pairs:       *)
(*   "2012.11.15"  testcode.c, which times gettimeofday                    *)
(*   "2012.11.20"  kdbbridge.c with the "line" kernel                      *)
(*   "2012.12.02"  kdbbridge.c with the "avx" or the "sse" kernel, and     *)
(*                 with the name of the test library as an argument        *)
(* The counters count the elements that the kernel has processed, whether  *)
(* it has come to its callbacks where one would think it does or not.      *)
(* Calls of the driver are atomic here; LibPmc has what may come between   *)
(* their commands.  There is a programmable and a fixed counter; the       *)
(* others of either kind are treated alike.                                *)
(***************************************************************************)
EXTENDS Integers, Sequences

CONSTANTS
  Versions,    \* of the library, with their test libraries
  Kernels, Lens, Addrs, Passed, Unset,   \* as BitwiseOr explains them
  TestCounts,  \* values of the argument testCount
  Work,        \* what gettimeofday may count
  Overhead,    \* what a command of the driver counts
  MaxRuns      \* bound on the calls of runtest

MeasureAssumption ==
  /\ Versions \subseteq {"2012.11.15", "2012.11.20", "2012.12.02"}
  /\ TestCounts \subseteq Nat /\ Work \subseteq Nat /\ Overhead \in Nat /\ MaxRuns \in Nat

\* The vector of the bridges has 1000000 elements; those of the model are like
\* it in that each holds a whole cache line wherever it lies.
LinesAssumption == \A l \in Lens : l % 64 = 0 /\ l >= 128

VARIABLES
  at,       \* where the library is
  version,
  count,    \* testCount
  i,        \* loop variable
  fd,       \* the device is open
  msr,      \* the counters, and what of them the vector pmc_read holds
  fixed,    \* pmc_fixed and ffc_fixed
  rows,     \* the result vectors, one function of counters per test
  handles, blocks,   \* handles of the test library, blocks of pmc_cfg: held
  answer,   \* what the last call returned
  runs,     \* number of calls
  log,      \* history: of each test, what was measured
  missed    \* history: handles and blocks that failed calls left behind

VARIABLES pc, kernel, typ, passed, n, addr, rdx, rbx, stack, dst, touched, calls

K == INSTANCE BitwiseOr

kvars == <<pc, kernel, typ, passed, n, addr, rdx, rbx, stack, dst, touched, calls>>
held  == <<handles, blocks>>
vars  == <<at, version, count, i, fd, msr, fixed, rows, handles, blocks, answer,
           runs, log, missed, pc, kernel, typ, passed, n, addr, rdx, rbx, stack,
           dst, touched, calls>>

-----------------------------------------------------------------------------
\* The kernels of a version, "none" for testcode.c.
KernelsOf(v) ==
  CASE v = "2012.11.15" -> {"none"}
    [] v = "2012.11.20" -> Kernels \cap {"line"}
    [] v = "2012.12.02" -> Kernels \cap {"avx", "sse"}

\* No kernel is running.
Parked ==
  /\ pc = "parked" /\ kernel = "none" /\ typ = FALSE /\ passed = FALSE
  /\ n = 0 /\ addr = <<0, 0>> /\ rdx = 0 /\ rbx = 0 /\ stack = 0
  /\ dst = <<>> /\ touched = 0 /\ calls = <<>>

Park ==
  /\ pc' = "parked" /\ kernel' = "none" /\ typ' = FALSE /\ passed' = FALSE
  /\ n' = 0 /\ addr' = <<0, 0>> /\ rdx' = 0 /\ rbx' = 0 /\ stack' = 0
  /\ dst' = <<>> /\ touched' = 0 /\ calls' = <<>>

Goto(from, to) == at = from /\ at' = to

GlobalCtrl == "PERF_GLOBAL_CTRL"
Counter == {"pmc", "ffc"}

\* They count different events: what one event of the work is to each.
Rate == [pmc |-> 1, ffc |-> 2]

msr_wr(r, v) == [op |-> "WRITE", ecx |-> r, value |-> v]
msr_rd(r)    == [op |-> "READ", ecx |-> r, value |-> 0]
msr_wr_stop  == [op |-> "STOP", ecx |-> GlobalCtrl, value |-> 0]

record_reset ==
  <<msr_wr(GlobalCtrl, 0), msr_wr("pmc", 0), msr_wr("ffc", 0), msr_wr_stop>>

\* Mutant: the fixed counter is read before the counters are halted.
ReadBeforeHalt ==
  <<msr_rd("ffc"), msr_wr(GlobalCtrl, 0), msr_rd("pmc"), msr_wr_stop>>

record_read ==
  <<msr_wr(GlobalCtrl, 0), msr_rd("pmc"), msr_rd("ffc"), msr_wr_stop>>

\* The last command that q sends lets the selected counters count.
CfgScript == <<msr_wr(GlobalCtrl, 1), msr_wr_stop>>

\* w events happen.
Counting(m, w) ==
  [m EXCEPT !.val = [k \in Counter |-> @[k] + (IF m.on THEN Rate[k] * w ELSE 0)]]

\* The driver executes a command; while the counters run that counts, too.
Executed(m, c) ==
  LET d == Counting(m, Overhead)
  IN  CASE c.op = "STOP" -> m
        [] c.op = "READ" -> [d EXCEPT !.read[c.ecx] = d.val[c.ecx]]
        [] c.op = "WRITE" /\ c.ecx = GlobalCtrl -> [d EXCEPT !.on = c.value # 0]
        [] c.op = "WRITE" /\ c.ecx \in Counter -> [d EXCEPT !.val[c.ecx] = c.value]

\* It executes a script from its first command to its last.
After(m, script) ==
  LET state[k \in 0 .. Len(script)] ==
        IF k = 0 THEN m ELSE Executed(state[k - 1], script[k])
  IN  state[Len(script)]

Ioctl(script, w) == msr' = After(Counting(msr, w), script)
IoctlReset   == Ioctl(record_reset, 0)
IoctlCfg     == Ioctl(CfgScript, 0)
IoctlRead(w) == Ioctl(record_read, w)

Zero == [k \in Counter |-> 0]

Init ==
  /\ at = "idle"
  /\ version \in Versions
  /\ count \in TestCounts
  /\ i = 0 /\ fd = FALSE
  /\ msr = [on |-> FALSE, val |-> Zero, read |-> Zero]
  /\ fixed = Zero /\ rows = <<>>
  /\ handles = 0 /\ blocks = 0 /\ answer = "none" /\ runs = 0
  /\ log = <<>> /\ missed = <<0, 0>>
  /\ Parked

-----------------------------------------------------------------------------
Runtest ==
  /\ runs < MaxRuns
  /\ Goto("idle", "checkName")
  /\ runs' = runs + 1
  /\ count' \in TestCounts
  /\ rows' = <<>> /\ log' = <<>>
  /\ UNCHANGED <<version, i, fd, msr, fixed, held, answer, missed, kvars>>

\* A return of runtest with an error: held is not released.
Fails(from) ==
  /\ Goto(from, "idle")
  /\ answer' = "error"
  /\ missed' = <<handles, blocks>>
  /\ UNCHANGED <<version, count, i, fd, msr, fixed, rows, held, runs, log, kvars>>

\* The name is not a char vector.
BadLibName   == version = "2012.12.02" /\ Fails("checkName")
DlopenFails  == Fails("checkName")
DlsymFails   == Fails("dlsym")
MallocFails  == Fails("malloc")
OpenFails    == Fails("open")

Dlopen ==
  /\ Goto("checkName", "dlsym")
  /\ handles' = handles + 1
  /\ UNCHANGED <<version, count, i, fd, msr, fixed, rows, blocks, answer, runs, log, missed, kvars>>

Dlsym ==
  /\ Goto("dlsym", "malloc")
  /\ fixed' = Zero
  /\ UNCHANGED <<version, count, i, fd, msr, rows, held, answer, runs, log, missed, kvars>>

\* malloc, and the three vectors recorded.
Record ==
  /\ Goto("malloc", "open")
  /\ blocks' = blocks + 1
  /\ msr' = [msr EXCEPT !.read = Zero]
  /\ UNCHANGED <<version, count, i, fd, fixed, rows, handles, answer, runs, log, missed, kvars>>

LoadDriver ==
  /\ Goto("open", "reset")
  /\ fd' = TRUE
  /\ UNCHANGED <<version, count, i, msr, fixed, rows, held, answer, runs, log, missed, kvars>>

ResetForBaseline ==
  /\ Goto("reset", "baseline")
  /\ IoctlReset
  /\ fixed' = Zero /\ i' = 0
  /\ UNCHANGED <<version, count, fd, rows, held, answer, runs, log, missed, kvars>>

\* execute_baseline: baseline.c counts up, baseline_asm.s counts down.
BaselineStart ==
  /\ i < count
  /\ Goto("baseline", "baseStarted")
  /\ IoctlCfg
  /\ UNCHANGED <<version, count, i, fd, fixed, rows, held, answer, runs, log, missed, kvars>>

BaselineStop ==
  /\ Goto("baseStarted", "baseline")
  /\ IoctlRead(0)
  /\ i' = i + 1
  /\ UNCHANGED <<version, count, fd, fixed, rows, held, answer, runs, log, missed, kvars>>

\* testCount = 0: the process dies, and what it held with it.
DivideByZero ==
  /\ count = 0
  /\ Goto("baseline", "dead")
  /\ fd' = FALSE /\ handles' = 0 /\ blocks' = 0 /\ missed' = <<0, 0>>
  /\ UNCHANGED <<version, count, i, msr, fixed, rows, answer, runs, log, kvars>>

Average ==
  /\ i = count /\ count > 0
  /\ Goto("baseline", "test")
  /\ fixed' = [k \in Counter |-> msr.read[k] \div count]
  /\ msr' = [msr EXCEPT !.read = Zero]
  /\ i' = 0
  /\ UNCHANGED <<version, count, fd, rows, held, answer, runs, log, missed, kvars>>

\* Mutant: only the first test begins with a reset.
ResetForFirstTest ==
  /\ i < count
  /\ Goto("test", "execute")
  /\ IF i = 0 THEN IoctlReset ELSE UNCHANGED msr
  /\ UNCHANGED <<version, count, i, fd, fixed, rows, held, answer, runs, log, missed, kvars>>

ResetForTest ==
  /\ i < count
  /\ Goto("test", "execute")
  /\ IoctlReset
  /\ UNCHANGED <<version, count, i, fd, fixed, rows, held, answer, runs, log, missed, kvars>>

-----------------------------------------------------------------------------
\* execute_test of testcode.c
TestcodeStart ==
  /\ "none" \in KernelsOf(version)
  /\ Goto("execute", "timing")
  /\ IoctlCfg
  /\ UNCHANGED <<version, count, i, fd, fixed, rows, held, answer, runs, log, missed, kvars>>

TestcodeStop ==
  /\ Goto("timing", "record")
  /\ \E w \in Work :
       IoctlRead(w) /\ log' = Append(log, [kernel |-> "none", work |-> w, lead |-> 0, n |-> 0])
  /\ UNCHANGED <<version, count, i, fd, fixed, rows, held, answer, runs, missed, kvars>>

\* execute_test of kdbbridge.c: two new objects, and the kernel is called.
BridgeCalls ==
  /\ Goto("execute", "kernel")
  /\ kernel' \in KernelsOf(version) \ {"none"}
  /\ n' \in Lens /\ addr' \in Addrs
  /\ passed' \in Passed /\ typ' = TRUE
  /\ pc' = "entry" /\ rdx' = 0 /\ rbx' = 0
  /\ stack' = K!SavedArgs
  /\ dst' = [k \in 0 .. K!Padded(n') - 1 |-> Unset]
  /\ touched' = 0 /\ calls' = <<>>
  /\ UNCHANGED <<version, count, i, fd, msr, fixed, rows, held, answer, runs, log, missed>>

\* What a step of the kernel counts: the callback it calls, or its elements.
Counted ==
  IF Len(calls') = Len(calls)
  THEN msr' = Counting(msr, rdx' - rdx)
  ELSE CASE calls'[Len(calls')] = "start" -> IoctlCfg
         [] calls'[Len(calls')] = "stop"  -> IoctlRead(0)
         [] OTHER -> UNCHANGED msr

KernelStep ==
  /\ at = "kernel"
  /\ K!Next
  /\ Counted
  /\ UNCHANGED <<at, version, count, i, fd, fixed, rows, held, answer, runs, log, missed>>

\* The kernel returns, and the bridge releases the objects and returns.
BridgeReturns ==
  /\ pc = "done"
  /\ Goto("kernel", "record")
  /\ log' = Append(log, [kernel |-> kernel, work |-> 0, lead |-> K!Lead, n |-> n])
  /\ Park
  /\ UNCHANGED <<version, count, i, fd, msr, fixed, rows, held, answer, runs, missed>>

RecordResult ==
  /\ Goto("record", "test")
  /\ rows' = Append(rows, [k \in Counter |-> msr.read[k] - fixed[k]])
  /\ i' = i + 1
  /\ UNCHANGED <<version, count, fd, msr, fixed, held, answer, runs, log, missed, kvars>>

FinalReset ==
  /\ i = count
  /\ Goto("test", "closing")
  /\ IoctlReset
  /\ UNCHANGED <<version, count, i, fd, fixed, rows, held, answer, runs, log, missed, kvars>>

\* free, dlclose, closeDriver
Release ==
  /\ Goto("closing", "idle")
  /\ fd' = FALSE /\ handles' = handles - 1 /\ blocks' = blocks - 1
  /\ answer' = "table"
  /\ UNCHANGED <<version, count, i, msr, fixed, rows, runs, log, missed, kvars>>

Next ==
  \/ Runtest \/ BadLibName \/ DlopenFails \/ Dlopen \/ DlsymFails \/ Dlsym
  \/ MallocFails \/ Record \/ OpenFails \/ LoadDriver \/ ResetForBaseline
  \/ BaselineStart \/ BaselineStop \/ DivideByZero \/ Average \/ ResetForTest
  \/ TestcodeStart \/ TestcodeStop \/ BridgeCalls \/ KernelStep \/ BridgeReturns
  \/ RecordResult \/ FinalReset \/ Release

Spec == Init /\ [][Next]_vars

-----------------------------------------------------------------------------
TypeOK ==
  /\ at \in {"idle", "checkName", "dlsym", "malloc", "open", "reset", "baseline",
             "baseStarted", "test", "execute", "timing", "kernel", "record", "closing", "dead"}
  /\ version \in Versions /\ count \in TestCounts /\ i \in Nat
  /\ fd \in BOOLEAN
  /\ msr \in [on : BOOLEAN, val : [Counter -> Nat], read : [Counter -> Nat]]
  /\ fixed \in [Counter -> Nat] /\ rows \in Seq([Counter -> Int])
  /\ handles \in Nat /\ blocks \in Nat /\ runs \in Nat
  /\ answer \in {"none", "table", "error"}
  /\ at = "kernel" => K!TypeOK
  /\ at # "kernel" => Parked

\* The events of a test between its callbacks.
Between(g) ==
  LET lines == 64 * ((g.n - g.lead) \div 64)
  IN  CASE g.kernel = "none" -> g.work
        [] g.kernel = "line" -> lines
        [] OTHER             -> g.lead + lines

(***************************************************************************)
(* A row is what lies between the callbacks of its own test, wherever the  *)
(* vectors of that test were allocated.  For the kernels that is not the   *)
(* vector: "line" counts the cache lines alone, without what comes before  *)
(* the first and after the last of them; "avx" and "sse" count what comes  *)
(* before, too.  So rows of the same test differ by up to a line.          *)
(***************************************************************************)
CountsTheLines ==
  \A t \in 1 .. Len(rows), c \in Counter : rows[t][c] = Rate[c] * Between(log[t])

(***************************************************************************)
(* Back in q the device is closed and nothing counts, and runtest holds    *)
(* only what earlier calls left behind when they failed.                   *)
(***************************************************************************)
QuietInQ ==
  at \in {"idle", "dead"} => ~ fd /\ ~ msr.on /\ <<handles, blocks>> = missed

\* Every call comes back to q, or dies of the division by zero.
RuntestReturns == at # "idle" ~> at \in {"idle", "dead"}
=============================================================================
