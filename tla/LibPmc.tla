------------------------------- MODULE LibPmc -------------------------------
(***************************************************************************)
(* The measuring library libpmc.c (blog.2012.12.02) inside a kdb+ process, *)
(* called by .pmc.runtest of pmc.q, on top of the driver.  Every ioctl is  *)
(* the driver's call, interpreted command by command; between two steps of *)
(* the library time may pass on any CPU.                                   *)
(***************************************************************************)
EXTENDS Integers, Sequences, FiniteSets

CONSTANTS
  Client, Cpu, PMC_COUNT, FFC_COUNT, CounterSize, VecLimit, Migrates, MaxTsc,
  Event,       \* perf-event select values: 0 selects nothing
  Domain,      \* domains counted: bit 0 operating system, bit 1 user (0 .. 3)
  TestCount,   \* values of the argument testCount
  TestShape,   \* which of its callbacks a test library calls
  MaxCalls     \* bound on the calls of runtest by one client

ASSUME LibAssumption ==
  /\ Event \subseteq Nat /\ Domain \subseteq 0 .. 3 /\ TestCount \subseteq Nat /\ MaxCalls \in Nat
  /\ Domain # {} /\ TestCount # {}
  /\ TestShape \subseteq {"both", "startOnly", "none"}

\* The three vectors: pmc_reset, pmc_cfg and pmc_read.
Script == {"reset", "cfg", "read"}

\* What runtest acquires besides the file descriptor.
Resource == {"handle", "pmc_cfg"}

\* What .pmc.runtest is given: event selects, a domain and a count.
Args == [evts : UNION {[1 .. n -> Event] : n \in 0 .. PMC_COUNT},
         domain : Domain, count : TestCount]

VARIABLES
  loaded, chrdev, pce, msr, tsc, cpu, open, mem, given, incall, cur, idx, ret,
  pc,       \* where client p is in runtest / run_test
  args,     \* the arguments of its current call
  i,        \* its loop variable
  held,     \* how many dlopen handles and pmc_cfg blocks it has not released
  failed,   \* some call of p has ended with an error
  fixed,    \* pmc_fixed and ffc_fixed: the cost of measuring itself
  rows,     \* the result vectors, one function of counters per test
  answer,   \* what the last call of runtest returned
  calls,    \* number of calls of runtest
  inner,    \* history: events between the return of start and the call of stop
  outer,    \* history: events between the call of start and the return of stop
  base,     \* history: inner and outer of the whole baseline
  window    \* history: inner and outer of each test, as rows

driverVars == <<loaded, chrdev, pce, msr, tsc, cpu, open, mem, given,
                incall, cur, idx, ret>>
history    == <<inner, outer, base, window>>
libVars    == <<pc, args, i, held, failed, fixed, rows, answer, calls>>
vars       == <<driverVars, libVars, history>>

-----------------------------------------------------------------------------
GlobalCtrl == <<"PERF_GLOBAL_CTRL", 0>>
FixedCtrl  == <<"FIXED_CTR_CTRL", 0>>
EvtSel(n)  == <<"PERFEVTSEL", n>>
Pmc(n)     == <<"PMC", n>>
Ffc(n)     == <<"FIXED_CTR", n>>

Pmcs == {Pmc(n) : n \in 0 .. PMC_COUNT - 1}
Ffcs == {Ffc(n) : n \in 0 .. FFC_COUNT - 1}

Command(o, r, v)   == [op |-> o, ecx |-> r, value |-> v]
msr_wr(r, v)       == Command("WRITE", r, v)
msr_rd(r)          == Command("READ", r, 0)
msr_wr_stop        == Command("STOP", GlobalCtrl, 0)

\* record_reset: halt all counters, then zero them.
ResetScript ==
  <<msr_wr(GlobalCtrl, 0)>>
    \o [n \in 1 .. PMC_COUNT |-> msr_wr(Pmc(n - 1), 0)]
    \o [n \in 1 .. FFC_COUNT |-> msr_wr(Ffc(n - 1), 0)]
    \o <<msr_wr_stop>>

\* Mutant: the programmable counters are read while they still count.
ReadPmcsBeforeHalt ==
  [n \in 1 .. PMC_COUNT |-> msr_rd(Pmc(n - 1))]
    \o <<msr_wr(GlobalCtrl, 0)>>
    \o [n \in 1 .. FFC_COUNT |-> msr_rd(Ffc(n - 1))]
    \o <<msr_wr_stop>>

\* Mutant: the fixed counters are read while they still count.
ReadFfcsBeforeHalt ==
  [n \in 1 .. FFC_COUNT |-> msr_rd(Ffc(n - 1))]
    \o <<msr_wr(GlobalCtrl, 0)>>
    \o [n \in 1 .. PMC_COUNT |-> msr_rd(Pmc(n - 1))]
    \o <<msr_wr_stop>>

\* record_read: halt all counters, then read them.
ReadScript ==
  <<msr_wr(GlobalCtrl, 0)>>
    \o [n \in 1 .. PMC_COUNT |-> msr_rd(Pmc(n - 1))]
    \o [n \in 1 .. FFC_COUNT |-> msr_rd(Ffc(n - 1))]
    \o <<msr_wr_stop>>

\* The position of a counter's command in pmc_read.
ReadIndex(k) == CHOOSE n \in 1 .. Len(ReadScript) : ReadScript[n] = msr_rd(k)

\* .pmc.toffcctrl: the same two bits for every fixed counter.
toffcctrl(domain) == domain * ((16^FFC_COUNT - 1) \div 15)

(***************************************************************************)
(* .pmc.runtest: select the events, enable the fixed counters, and let all *)
(* of them count with the last command.                                    *)
(***************************************************************************)
CfgScript(a) ==
  [n \in DOMAIN a.evts |-> msr_wr(EvtSel(n - 1), a.evts[n])]
    \o <<msr_wr(FixedCtrl, toffcctrl(a.domain)),
         msr_wr(GlobalCtrl, (2^Len(a.evts) - 1) + (2^FFC_COUNT - 1) * 2^PMC_COUNT),
         msr_wr_stop>>

\* The counters that call of runtest asks for.
Selected(a) ==
  {Pmc(n - 1) : n \in {m \in DOMAIN a.evts : a.evts[m] # 0}}
    \cup (IF a.domain # 0 THEN Ffcs ELSE {})

LibVectors == {ResetScript, ReadScript} \cup {CfgScript(a) : a \in Args}

D == INSTANCE MsrDriver WITH Vectors <- LibVectors, Buf <- Script

\* What the driver assumes, and that the longest script of the library fits.
ASSUME DriverAssumption == D!CountAssumption
ASSUME FitAssumption == PMC_COUNT + FFC_COUNT < VecLimit

\* What powers are: arithmetic that the prover has to be told.
ASSUME PowerAssumption ==
  \A b \in {2, 16} :
    /\ b^0 = 1
    /\ \A n \in 0 .. PMC_COUNT + FFC_COUNT : b^n \in Nat \ {0} /\ b^(n + 1) = b * b^n

-----------------------------------------------------------------------------
Init ==
  /\ \E there \in BOOLEAN :
       loaded = [m \in D!Module |-> there /\ m = "msrdrv"] /\ chrdev = there
  /\ pce = [c \in Cpu |-> FALSE]
  /\ msr = [c \in Cpu |-> [r \in D!Reg |-> 0]]
  /\ tsc = 0
  /\ cpu \in [Client -> Cpu]
  /\ (\A p, q \in Client : p # q => cpu[p] # cpu[q]) \/ Migrates
  /\ open = [p \in Client |-> FALSE]
  /\ mem = [p \in Client |-> [b \in Script |-> ResetScript]]
  /\ given = mem
  /\ incall = [p \in Client |-> FALSE]
  /\ cur = [p \in Client |-> "reset"]
  /\ idx = [p \in Client |-> 0]
  /\ ret = [p \in Client |-> 0]
  /\ pc = [p \in Client |-> "idle"]
  /\ args \in [Client -> {CHOOSE a \in Args : TRUE}]
  /\ i = [p \in Client |-> 0]
  /\ held = [p \in Client |-> [r \in Resource |-> 0]]
  /\ failed = [p \in Client |-> FALSE]
  /\ fixed = [p \in Client |-> [k \in D!Counter |-> 0]]
  /\ rows = [p \in Client |-> <<>>]
  /\ answer = [p \in Client |-> "none"]
  /\ calls = [p \in Client |-> 0]
  /\ inner = [p \in Client |-> 0]
  /\ outer = [p \in Client |-> 0]
  /\ base = [p \in Client |-> <<0, 0>>]
  /\ window = [p \in Client |-> <<>>]

-----------------------------------------------------------------------------
Goto(p, from, to) == pc[p] = from /\ pc' = [pc EXCEPT ![p] = to]

\* The call returns to kdb+.
Return(p, from, what) ==
  /\ Goto(p, from, "idle")
  /\ answer' = [answer EXCEPT ![p] = what]
  /\ failed' = [failed EXCEPT ![p] = @ \/ what = "error"]

Acquire(p, r) == held' = [held EXCEPT ![p][r] = @ + 1]

Runtest(p, a) ==
  /\ Goto(p, "idle", "checkName")
  /\ calls[p] < MaxCalls
  /\ calls' = [calls EXCEPT ![p] = @ + 1]
  /\ args' = [args EXCEPT ![p] = a]
  /\ rows' = [rows EXCEPT ![p] = <<>>]
  /\ window' = [window EXCEPT ![p] = <<>>]
  /\ UNCHANGED <<driverVars, i, held, failed, fixed, answer, inner, outer, base>>

\* cvLibName is not a char vector.
BadLibName(p) ==
  /\ Return(p, "checkName", "error")
  /\ UNCHANGED <<driverVars, args, i, held, fixed, rows, calls, history>>

\* dlopen fails.
DlopenFails(p) ==
  /\ Return(p, "checkName", "error")
  /\ UNCHANGED <<driverVars, args, i, held, fixed, rows, calls, history>>

Dlopen(p) ==
  /\ Goto(p, "checkName", "dlsym")
  /\ Acquire(p, "handle")
  /\ UNCHANGED <<driverVars, args, i, failed, fixed, rows, answer, calls, history>>

\* No symbol execute_test: the handle stays open.
DlsymFails(p) ==
  /\ Return(p, "dlsym", "error")
  /\ UNCHANGED <<driverVars, args, i, held, fixed, rows, calls, history>>

\* malloc returns NULL: the handle stays open.
MallocFails(p) ==
  /\ Return(p, "dlsym", "error")
  /\ UNCHANGED <<driverVars, args, i, held, fixed, rows, calls, history>>

(***************************************************************************)
(* pmc_cfg is allocated and the three vectors are recorded.                *)
(***************************************************************************)
Prepare(p) ==
  /\ Goto(p, "dlsym", "open")
  /\ Acquire(p, "pmc_cfg")
  /\ mem' = [mem EXCEPT ![p] = [b \in Script |->
               CASE b = "reset" -> ResetScript
                 [] b = "read"  -> ReadScript
                 [] b = "cfg"   -> CfgScript(args[p])]]
  /\ given' = [given EXCEPT ![p] = mem'[p]]
  /\ UNCHANGED <<loaded, chrdev, pce, msr, tsc, cpu, open, incall, cur, idx, ret,
                 args, i, failed, fixed, rows, answer, calls, history>>

\* loadDriver fails: the handle and pmc_cfg stay allocated.
OpenFails(p) ==
  /\ ~ chrdev
  /\ Return(p, "open", "error")
  /\ UNCHANGED <<driverVars, args, i, held, fixed, rows, calls, history>>

LoadDriver(p) ==
  /\ Goto(p, "open", "zeroFixed")
  /\ D!Open(p)
  /\ UNCHANGED <<args, i, held, failed, fixed, rows, answer, calls, history>>

(***************************************************************************)
(* ioctl(fd, IOCTL_MSR_CMDS, script) as step from -> to of the library.    *)
(* The next step of p waits for the call to return.                        *)
(***************************************************************************)
Ioctl(p, from, script, to) == Goto(p, from, to) /\ D!IoctlEnter(p, script)

Returned(p) == ~ incall[p]

(***************************************************************************)
(* run_test.  First the baseline: execute_baseline calls start_baseline    *)
(* and stop_baseline testCount times with nothing in between, and without  *)
(* a reset, so that the counters add up the cost of all iterations.        *)
(***************************************************************************)
ResetForBaseline(p) ==
  /\ Ioctl(p, "zeroFixed", "reset", "baseline")
  /\ fixed' = [fixed EXCEPT ![p] = [k \in D!Counter |-> 0]]
  /\ i' = [i EXCEPT ![p] = args[p].count]
  /\ inner' = [inner EXCEPT ![p] = 0]
  /\ outer' = [outer EXCEPT ![p] = 0]
  /\ UNCHANGED <<args, held, failed, rows, answer, calls, base, window>>

\* Mutant: no test for testCount = 0 before the first iteration.
BaselineDoWhile(p) ==
  /\ Ioctl(p, "baseline", "cfg", "baseStarted")
  /\ UNCHANGED <<args, i, held, failed, fixed, rows, answer, calls, history>>

BaselineStart(p) ==
  /\ i[p] > 0
  /\ Ioctl(p, "baseline", "cfg", "baseStarted")
  /\ UNCHANGED <<args, i, held, failed, fixed, rows, answer, calls, history>>

BaselineStop(p) ==
  /\ Ioctl(p, "baseStarted", "read", "baseStopped")
  /\ UNCHANGED <<args, i, held, failed, fixed, rows, answer, calls, history>>

\* Mutant: start_baseline clobbers the loop register, which is not restored.
BaselineForever(p) ==
  /\ Returned(p)
  /\ Goto(p, "baseStopped", "baseline")
  /\ i' = [i EXCEPT ![p] = args[p].count]
  /\ UNCHANGED <<driverVars, args, held, failed, fixed, rows, answer, calls, history>>

\* sub $1, %rdi; jg
BaselineNext(p) ==
  /\ Returned(p)
  /\ Goto(p, "baseStopped", "baseline")
  /\ i' = [i EXCEPT ![p] = @ - 1]
  /\ UNCHANGED <<driverVars, args, held, failed, fixed, rows, answer, calls, history>>

BaselineEnd(p) ==
  /\ Returned(p) /\ i[p] = 0
  /\ Goto(p, "baseline", "average")
  /\ base' = [base EXCEPT ![p] = <<inner[p], outer[p]>>]
  /\ UNCHANGED <<driverVars, args, i, held, failed, fixed, rows, answer, calls,
                 inner, outer, window>>

\* pmc_read[...].value of counter k
Reading(p, k) == mem[p]["read"][ReadIndex(k)].value

\* The division by testCount = 0 kills the process; the kernel cleans up.
DivideByZero(p) ==
  /\ args[p].count = 0
  /\ Goto(p, "average", "dead")
  /\ open' = [open EXCEPT ![p] = FALSE]
  /\ held' = [held EXCEPT ![p] = [r \in Resource |-> 0]]
  /\ UNCHANGED <<loaded, chrdev, pce, msr, tsc, cpu, mem, given, incall, cur,
                 idx, ret, args, i, failed, fixed, rows, answer, calls, history>>

\* Mutant: the cost of all baseline iterations is taken for that of one.
AverageUndivided(p) ==
  /\ args[p].count # 0
  /\ Goto(p, "average", "test")
  /\ fixed' = [fixed EXCEPT ![p] = [k \in D!Counter |-> Reading(p, k)]]
  /\ D!Build(p, "read", ReadScript)
  /\ i' = [i EXCEPT ![p] = 0]
  /\ UNCHANGED <<args, held, failed, rows, answer, calls, history>>

\* Mutant: the readings of the baseline stay in pmc_read.
AverageKeepsReadings(p) ==
  /\ args[p].count # 0
  /\ Goto(p, "average", "test")
  /\ fixed' = [fixed EXCEPT ![p] = [k \in D!Counter |-> Reading(p, k) \div args[p].count]]
  /\ i' = [i EXCEPT ![p] = 0]
  /\ UNCHANGED <<driverVars, args, held, failed, rows, answer, calls, history>>

\* The mean cost per counter; the values in pmc_read are zeroed.
Average(p) ==
  /\ args[p].count # 0
  /\ Goto(p, "average", "test")
  /\ fixed' = [fixed EXCEPT ![p] = [k \in D!Counter |-> Reading(p, k) \div args[p].count]]
  /\ D!Build(p, "read", ReadScript)
  /\ i' = [i EXCEPT ![p] = 0]
  /\ UNCHANGED <<args, held, failed, rows, answer, calls, history>>

(***************************************************************************)
(* Then the tests: reset, run the loaded execute_test, which may call the  *)
(* two callbacks it is given, and record what pmc_read holds.              *)
(***************************************************************************)
ResetForTest(p) ==
  /\ i[p] < args[p].count
  /\ Ioctl(p, "test", "reset", "execute")
  /\ inner' = [inner EXCEPT ![p] = 0]
  /\ outer' = [outer EXCEPT ![p] = 0]
  /\ UNCHANGED <<args, i, held, failed, fixed, rows, answer, calls, base, window>>

StartCounters(p) ==
  /\ TestShape \cap {"both", "startOnly"} # {}
  /\ Ioctl(p, "execute", "cfg", "started")
  /\ UNCHANGED <<args, i, held, failed, fixed, rows, answer, calls, history>>

StopCounters(p) ==
  /\ "both" \in TestShape
  /\ Ioctl(p, "started", "read", "stopped")
  /\ UNCHANGED <<args, i, held, failed, fixed, rows, answer, calls, history>>

\* execute_test returns without calling stop_counters, or either of them.
ReturnsUnstopped(p) ==
  /\ Returned(p)
  /\ \/ "startOnly" \in TestShape /\ Goto(p, "started", "unstopped")
     \/ "none" \in TestShape /\ Goto(p, "execute", "unstopped")
  /\ UNCHANGED <<driverVars, args, i, held, failed, fixed, rows, answer, calls, history>>

RecordResult(p) ==
  /\ Returned(p)
  /\ \E from \in {"stopped", "unstopped"} :
       /\ Goto(p, from, "test")
       /\ window' = [window EXCEPT ![p] =
                       Append(@, <<inner[p], outer[p], from = "stopped">>)]
  /\ rows' = [rows EXCEPT ![p] =
                 Append(@, [k \in D!Counter |-> Reading(p, k) - fixed[p][k]])]
  /\ i' = [i EXCEPT ![p] = @ + 1]
  /\ UNCHANGED <<driverVars, args, held, failed, fixed, answer, calls,
                 inner, outer, base>>

\* Mutant: the counters are halted and read once more instead of reset.
FinalRead(p) ==
  /\ i[p] = args[p].count
  /\ Ioctl(p, "test", "read", "closing")
  /\ UNCHANGED <<args, i, held, failed, fixed, rows, answer, calls, history>>

\* "disable and zero the PMC MSRs"
FinalReset(p) ==
  /\ i[p] = args[p].count
  /\ Ioctl(p, "test", "reset", "closing")
  /\ UNCHANGED <<args, i, held, failed, fixed, rows, answer, calls, history>>

\* Mutant: the result is returned before closeDriver(fd).
ReleaseKeepsFd(p) ==
  /\ Returned(p)
  /\ Return(p, "closing", "table")
  /\ held' = [held EXCEPT ![p] = [r \in Resource |-> @[r] - 1]]
  /\ UNCHANGED <<driverVars, args, i, fixed, rows, calls, history>>

\* free(pmc_cfg), dlclose(handle), closeDriver(fd).
Release(p) ==
  /\ Return(p, "closing", "table")
  /\ D!Close(p)
  /\ held' = [held EXCEPT ![p] = [r \in Resource |-> @[r] - 1]]
  /\ UNCHANGED <<args, i, fixed, rows, calls, history>>

-----------------------------------------------------------------------------
LibStep(p) ==
  \/ BadLibName(p) \/ DlopenFails(p) \/ Dlopen(p) \/ DlsymFails(p)
  \/ MallocFails(p) \/ Prepare(p) \/ OpenFails(p) \/ LoadDriver(p)
  \/ ResetForBaseline(p) \/ BaselineStart(p) \/ BaselineStop(p)
  \/ BaselineNext(p) \/ BaselineEnd(p) \/ DivideByZero(p) \/ Average(p)
  \/ ResetForTest(p) \/ StartCounters(p) \/ StopCounters(p)
  \/ ReturnsUnstopped(p) \/ RecordResult(p) \/ FinalReset(p) \/ Release(p)

\* The driver executes one command of the script of p.
DriverStep(p) == D!IoctlStep(p) /\ UNCHANGED <<libVars, history>>

\* p measures for certain: start has returned and stop has not been called.
Measuring(p) == pc[p] \in {"baseStarted", "started"} /\ ~ incall[p]

\* p may be measuring: start has been called and stop has not returned.
MayMeasure(p) ==
  \/ pc[p] \in {"baseStarted", "started"}
  \/ pc[p] \in {"baseStopped", "stopped"} /\ incall[p]

Tick(c) ==
  /\ D!Tick(c)
  /\ inner' = [p \in Client |-> IF cpu[p] = c /\ Measuring(p) THEN inner[p] + 1 ELSE inner[p]]
  /\ outer' = [p \in Client |-> IF cpu[p] = c /\ MayMeasure(p) THEN outer[p] + 1 ELSE outer[p]]
  /\ UNCHANGED <<libVars, base, window>>

Migrate(p, c) == D!Migrate(p, c) /\ UNCHANGED <<libVars, history>>

Next ==
  \/ \E p \in Client :
       \/ LibStep(p) \/ DriverStep(p)
       \/ \E a \in Args : Runtest(p, a)
       \/ \E c \in Cpu : Migrate(p, c)
  \/ \E c \in Cpu : Tick(c)

Spec == Init /\ [][Next]_vars

\* A client that has called runtest keeps being scheduled.
FairSpec == Spec /\ \A p \in Client : WF_vars(LibStep(p) \/ DriverStep(p))

-----------------------------------------------------------------------------
TypeOK ==
  /\ pc \in [Client -> {"idle", "checkName", "dlsym", "open", "zeroFixed",
        "baseline", "baseStarted", "baseStopped", "average", "test", "execute",
        "started", "stopped", "unstopped", "closing", "dead"}]
  /\ args \in [Client -> Args]
  /\ i \in [Client -> Nat]
  /\ held \in [Client -> [Resource -> Nat]]
  /\ fixed \in [Client -> [D!Counter -> Nat]]
  /\ \A p \in Client : \A n \in 1 .. Len(rows[p]) : rows[p][n] \in [D!Counter -> Int]
  /\ answer \in [Client -> {"none", "table", "error"}]

(***************************************************************************)
(* With one client per CPU and no migration, every number in a result is   *)
(* the number of events of that very test, less the mean cost of an empty  *)
(* measurement: it lies between the events seen while the test ran and the *)
(* events seen from the call of start to the return of stop.  Counters     *)
(* that were not asked for read as zero.  (run_test)                       *)
(***************************************************************************)
ResultsBracketed ==
  \A p \in Client : pc[p] # "dead" /\ args[p].count > 0 =>
    \A n \in 1 .. Len(rows[p]), k \in D!Counter :
      LET count == args[p].count
          w == window[p][n]
          r == rows[p][n][k]
      IN  w[3] => IF k \in Selected(args[p])
                  THEN /\ r >= w[1] - (base[p][2] \div count)
                       /\ r <= w[2] - (base[p][1] \div count)
                  ELSE r = 0

(***************************************************************************)
(* A test library that returns without calling stop_counters gets the      *)
(* zeroed or the previous reading recorded, never a running counter: two   *)
(* neighbouring rows are then equal, or the first one is -fixed.           *)
(***************************************************************************)
UnstoppedIsStale ==
  \A p \in Client : \A n \in 1 .. Len(rows[p]) :
    ~ window[p][n][3] =>
      rows[p][n] = IF n = 1 THEN [k \in D!Counter |-> 0 - fixed[p][k]]
                            ELSE rows[p][n - 1]

(***************************************************************************)
(* "disable and zero the PMC MSRs" (runtest): when no client is inside     *)
(* runtest, no CPU counts and every counter is zero.                       *)
(***************************************************************************)
QuietMeansOff ==
  (\A p \in Client : pc[p] \in {"idle", "dead"}) =>
    \A c \in Cpu : /\ msr[c][GlobalCtrl] = 0
                   /\ \A k \in D!Counter : msr[c][k] = 0

(***************************************************************************)
(* Two clients on CPUs of their own do not disturb each other: the results *)
(* stay their own, and when both are back nothing counts.                  *)
(***************************************************************************)
Isolated == ResultsBracketed /\ QuietMeansOff

-----------------------------------------------------------------------------
\* Counter k of the processor of p counts, and what has been recorded of it.
Runs(p, k)     == k \in D!EnabledCounters(msr[cpu[p]])
Readings(p, k) == [n \in 1 .. Len(rows[p]) |-> rows[p][n][k] + fixed[p][k]]

Session(p, k) == INSTANCE CounterSession WITH
  running <- Runs(p, k), events <- msr[cpu[p]][k], readings <- Readings(p, k)

(***************************************************************************)
(* run_test over the driver is the stopwatch of CounterSession, for every  *)
(* client and every counter: it is read and set back only while it is      *)
(* halted, and what is recorded is what it showed.  (This is Session!Spec, *)
(* with the clients and the counters inside.)                              *)
(***************************************************************************)
ImplementsSessions ==
  /\ \A p \in Client, k \in D!Counter : Session(p, k)!Init
  /\ [][\A p \in Client, k \in D!Counter :
          Session(p, k)!Next \/ UNCHANGED Session(p, k)!vars]_vars

-----------------------------------------------------------------------------
(***************************************************************************)
(* runtest never returns with the device open, whatever failed, and as     *)
(* long as no call failed it holds no handle and no memory either; and the *)
(* variables keep their types.                                             *)
(***************************************************************************)
NothingHeldAtReturn ==
  /\ TypeOK
  /\ \A p \in Client : pc[p] \in {"idle", "dead"} =>
       /\ ~ open[p]
       /\ ~ failed[p] => \A r \in Resource : held[p][r] = 0

\* Every call of runtest comes back to kdb+ or kills the process.
RuntestReturns ==
  \A p \in Client : pc[p] # "idle" ~> pc[p] \in {"idle", "dead"}
=============================================================================
