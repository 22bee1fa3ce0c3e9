------------------------------- MODULE KdbPmc -------------------------------
(***************************************************************************)
(* The first version of the measuring library (msrmod.kdb.1): libpmc.c,    *)
(* linked with baseline_asm.s and with the bridge kdbbridge.c, which loads *)
(* the kernel to measure anew for every test.  LibPmc has the interleaving *)
(* of two such libraries on the driver; this module has their memory: the  *)
(* static pointers into the frame of runtest, the vectors of commands and  *)
(* which of their fields are written, the blocks, handles and objects of   *)
(* kdb+ that are acquired, and whose measurement a row of the result is.   *)
(* The seven counters are programmed and read alike; one speaks for all.   *)
(***************************************************************************)
EXTENDS Integers, Sequences

CONSTANTS
  PMC_COUNT, FFC_COUNT,
  TestCounts,  \* values of the argument testCount
  CfgLens,     \* lengths of the argument opv
  Work,        \* what the kernel may count between its two callbacks
  Overhead,    \* what an empty measurement counts
  MaxRuns      \* bound on the calls of runtest

ASSUME KdbPmcAssumption ==
  /\ PMC_COUNT \in Nat /\ FFC_COUNT \in Nat
  /\ TestCounts \subseteq Nat /\ CfgLens \subseteq Nat
  /\ Work \subseteq Nat /\ Overhead \in Nat /\ MaxRuns \in Nat

VARIABLES
  pc,
  count,    \* testCount
  len,      \* opv->n
  i,        \* loop variable
  fd,       \* the device is open
  frames,   \* the calls of runtest whose frame exists
  heap,     \* the calls whose pmc_cfg is allocated
  ptr,      \* the static pointers: the call whose block each one points into
  vec,      \* the commands in the three vectors
  counter,  \* the counter
  on,       \* it counts
  reading,  \* pmc_read[..].value
  fixed,    \* pmc_fixed, ffc_fixed
  rows,     \* the vectors kpmc and kffc, as far as they are written
  handles,  \* handles of libkdbasm.so not closed
  objects,  \* objects of kdb+ that the library holds
  pending,  \* the arguments of krr and orr in this call, as a set
  answer,   \* what the last call returned
  runs,     \* number of the current or last call
  log,      \* history: the work of each test of this call, Missed if its bridge failed
  failed    \* history: the calls that failed at open, the number of failed dlsym

args    == <<count, len>>
memory  == <<frames, heap, ptr, vec>>
msr     == <<counter, on, reading>>
kdb     == <<handles, objects, pending, answer>>
history == <<log, failed>>
vars    == <<pc, args, i, fd, memory, msr, fixed, rows, kdb, runs, history>>

-----------------------------------------------------------------------------
NULL   == 0     \* no call has this number
Missed == -1

Vector == {"pmc_reset", "pmc_cfg", "pmc_read"}
Pointer == Vector \cup {"fixed"}

\* A command of a vector: are the fields that the driver looks at written?
Command == [op : {"READ", "WRITE", "STOP", "junk"}, operands : BOOLEAN]
wr_msrio(op) == [op |-> op, operands |-> TRUE]
msr_wr_stop  == [op |-> "STOP", operands |-> FALSE]
Unwritten    == [op |-> "junk", operands |-> FALSE]
msr_wr == wr_msrio("WRITE")
msr_rd == wr_msrio("READ")

Counters == PMC_COUNT + FFC_COUNT
Copies(n, c) == [k \in 1 .. n |-> c]

\* Mutant: the reset script is not terminated.
ResetUnterminated == Copies(1 + Counters, msr_wr) \o <<Unwritten>>

\* Halt, then zero, or read, all counters.
record_reset == Copies(1 + Counters, msr_wr) \o <<msr_wr_stop>>
record_read  == <<msr_wr>> \o Copies(Counters, msr_rd) \o <<msr_wr_stop>>

\* What opv and its companions say: .pmc.runtest gives writes only.
CfgScript == Copies(len, msr_wr) \o <<msr_wr_stop>>

Lives(p) == ptr[p] \in IF p = "pmc_cfg" THEN heap ELSE frames

\* The driver finds a STOP, and commands with their operands before it.
Executable(v) ==
  \E n \in DOMAIN vec[v] :
    /\ vec[v][n].op = "STOP"
    /\ \A m \in 1 .. n - 1 : vec[v][m].op \in {"READ", "WRITE"} /\ vec[v][m].operands

-----------------------------------------------------------------------------
Init ==
  /\ pc = "idle"
  /\ count \in TestCounts /\ len \in CfgLens
  /\ i = 0 /\ fd = FALSE
  /\ frames = {} /\ heap = {}
  /\ ptr = [p \in Pointer |-> NULL]
  /\ vec = [v \in Vector |-> <<>>]
  /\ counter = 0 /\ on = FALSE /\ reading = 0
  /\ fixed = 0 /\ rows = <<>>
  /\ handles = 0 /\ objects = 0 /\ pending = {} /\ answer = "none"
  /\ runs = 0
  /\ log = <<>>
  /\ failed = [open |-> {}, symbol |-> 0]

Goto(from, to) == pc = from /\ pc' = to

closeDriver == fd' = FALSE

\* Back to q: the frame of this call is gone.
Return(from, what) ==
  /\ Goto(from, "idle")
  /\ frames' = frames \ {runs}
  /\ answer' = what

\* ioctl(fd, IOCTL_MSR_CMDS, pmc_cfg): the counter starts.
IoctlCfg == on' = TRUE /\ UNCHANGED <<counter, reading>>

\* ioctl(fd, IOCTL_MSR_CMDS, pmc_read) after work of w.
IoctlRead(w) ==
  /\ on' = FALSE
  /\ counter' = IF on THEN counter + w + Overhead ELSE counter
  /\ reading' = counter'

\* ioctl(fd, IOCTL_MSR_CMDS, pmc_reset)
IoctlReset == on' = FALSE /\ counter' = 0 /\ UNCHANGED reading

\* Mutant: the pointers are set by the first call only.
RuntestOnce ==
  /\ runs < MaxRuns
  /\ Goto("idle", "malloc")
  /\ count' \in TestCounts /\ len' \in CfgLens
  /\ runs' = runs + 1
  /\ frames' = frames \cup {runs'}
  /\ ptr' = [p \in Pointer |-> IF p = "pmc_cfg" \/ ptr[p] # NULL THEN ptr[p] ELSE runs']
  /\ vec' = [vec EXCEPT !["pmc_reset"] = Copies(9, Unwritten), !["pmc_read"] = Copies(9, Unwritten)]
  /\ fixed' = 0 /\ pending' = {} /\ rows' = <<>> /\ log' = <<>>
  /\ UNCHANGED <<i, fd, heap, msr, handles, objects, answer, failed>>

\* A call from q: the frame with its arrays, and the static pointers to them.
Runtest ==
  /\ runs < MaxRuns
  /\ Goto("idle", "malloc")
  /\ count' \in TestCounts /\ len' \in CfgLens
  /\ runs' = runs + 1
  /\ frames' = frames \cup {runs'}
  /\ ptr' = [p \in Pointer |-> IF p = "pmc_cfg" THEN ptr[p] ELSE runs']
  /\ vec' = [vec EXCEPT !["pmc_reset"] = Copies(9, Unwritten), !["pmc_read"] = Copies(9, Unwritten)]
  /\ fixed' = 0 /\ pending' = {} /\ rows' = <<>> /\ log' = <<>>
  /\ UNCHANGED <<i, fd, heap, msr, handles, objects, answer, failed>>

MallocFails ==
  /\ Return("malloc", "error")
  /\ ptr' = [ptr EXCEPT !["pmc_cfg"] = NULL]
  /\ pending' = {"malloc"}
  /\ UNCHANGED <<args, i, fd, heap, vec, msr, fixed, rows, handles, objects, runs, history>>

\* pmc_cfg is allocated, and the three vectors are recorded.
Record ==
  /\ Goto("malloc", "open")
  /\ heap' = heap \cup {runs}
  /\ ptr' = [ptr EXCEPT !["pmc_cfg"] = runs]
  /\ vec' = [v \in Vector |-> CASE v = "pmc_reset" -> record_reset
                                [] v = "pmc_read"  -> record_read
                                [] v = "pmc_cfg"   -> CfgScript]
  /\ reading' = 0
  /\ UNCHANGED <<args, i, fd, frames, counter, on, fixed, rows, kdb, runs, history>>

\* loadDriver fails: pmc_cfg is not freed, and the next call forgets it.
OpenFails ==
  /\ Return("open", "error")
  /\ pending' = {"open"}
  /\ failed' = [failed EXCEPT !.open = @ \cup {runs}]
  /\ UNCHANGED <<args, i, fd, heap, ptr, vec, msr, fixed, rows, handles, objects, runs, log>>

LoadDriver ==
  /\ Goto("open", "reset")
  /\ fd' = TRUE
  /\ UNCHANGED <<args, i, memory, msr, fixed, rows, kdb, runs, history>>

-----------------------------------------------------------------------------
(***************************************************************************)
(* run_test: the baseline, whose iterations are not reset in between.      *)
(***************************************************************************)
ResetForBaseline ==
  /\ Goto("reset", "baseline")
  /\ IoctlReset
  /\ fixed' = 0
  /\ i' = count
  /\ UNCHANGED <<args, fd, memory, rows, kdb, runs, history>>

BaselineStart ==
  /\ i > 0
  /\ Goto("baseline", "baseStarted")
  /\ IoctlCfg
  /\ UNCHANGED <<args, i, fd, memory, fixed, rows, kdb, runs, history>>

BaselineStop ==
  /\ Goto("baseStarted", "baseline")
  /\ IoctlRead(0)
  /\ i' = i - 1
  /\ UNCHANGED <<args, fd, memory, fixed, rows, kdb, runs, history>>

\* The division by testCount = 0 kills the process, and the kernel cleans up.
DivideByZero ==
  /\ count = 0
  /\ Goto("baseline", "dead")
  /\ fd' = FALSE
  /\ frames' = {} /\ heap' = {} /\ handles' = 0 /\ objects' = 0
  /\ failed' = [open |-> {}, symbol |-> 0]
  /\ UNCHANGED <<args, i, ptr, vec, msr, fixed, rows, pending, answer, runs, log>>

\* Mutant: the readings of the baseline stay in pmc_read.
AverageKeepsReading ==
  /\ i = 0 /\ count > 0
  /\ Goto("baseline", "test")
  /\ fixed' = reading \div count
  /\ objects' = objects + Counters
  /\ UNCHANGED <<args, i, fd, memory, msr, rows, handles, pending, answer, runs, history>>

\* The mean, the vectors for the result, and the values in pmc_read zeroed.
Average ==
  /\ i = 0 /\ count > 0
  /\ Goto("baseline", "test")
  /\ fixed' = reading \div count
  /\ objects' = objects + Counters
  /\ reading' = 0
  /\ UNCHANGED <<args, i, fd, memory, counter, on, rows, handles, pending, answer, runs, history>>

\* The tests; execute_test is the bridge.
ResetForTest ==
  /\ i < count
  /\ Goto("test", "dlopen")
  /\ IoctlReset
  /\ UNCHANGED <<args, i, fd, memory, fixed, rows, kdb, runs, history>>

\* The bridge returns without a measurement, and run_test does not notice.
Misses(from, why) ==
  /\ Goto(from, "record")
  /\ pending' = pending \cup {why}
  /\ log' = Append(log, Missed)

DlopenFails ==
  /\ Misses("dlopen", "dlopen")
  /\ UNCHANGED <<args, i, fd, memory, msr, fixed, rows, handles, objects, answer, runs, failed>>

Dlopen ==
  /\ Goto("dlopen", "dlsym")
  /\ handles' = handles + 1
  /\ UNCHANGED <<args, i, fd, memory, msr, fixed, rows, objects, pending, answer, runs, history>>

\* The handle stays open.
DlsymFails ==
  /\ Misses("dlsym", "dlsym")
  /\ failed' = [failed EXCEPT !.symbol = @ + 1]
  /\ UNCHANGED <<args, i, fd, memory, msr, fixed, rows, handles, objects, answer, runs>>

(***************************************************************************)
(* byteVec, byteMask and the call of bitwiseOr, which allocates its result *)
(* and calls start_counters at the first cache line: a vector of 100000    *)
(* bytes has one wherever it lies.                                         *)
(***************************************************************************)
StartCounters ==
  /\ Goto("dlsym", "started")
  /\ objects' = objects + 3
  /\ IoctlCfg
  /\ UNCHANGED <<args, i, fd, memory, fixed, rows, handles, pending, answer, runs, history>>

StopCounters ==
  /\ Goto("started", "stopped")
  /\ \E w \in Work : IoctlRead(w) /\ log' = Append(log, w)
  /\ UNCHANGED <<args, i, fd, memory, fixed, rows, kdb, runs, failed>>

\* Mutant: the result of bitwiseOr is not released.
BridgeKeepsResult ==
  /\ Goto("stopped", "record")
  /\ objects' = objects - 2
  /\ handles' = handles - 1
  /\ UNCHANGED <<args, i, fd, memory, msr, fixed, rows, pending, answer, runs, history>>

\* r0 of the three objects, dlclose
BridgeReturns ==
  /\ Goto("stopped", "record")
  /\ objects' = objects - 3
  /\ handles' = handles - 1
  /\ UNCHANGED <<args, i, fd, memory, msr, fixed, rows, pending, answer, runs, history>>

RecordResult ==
  /\ Goto("record", "test")
  /\ rows' = Append(rows, reading - fixed)
  /\ i' = i + 1
  /\ UNCHANGED <<args, fd, memory, msr, fixed, kdb, runs, history>>

\* knk takes the vectors into the result; the last ioctl.
FinalReset ==
  /\ i = count
  /\ Goto("test", "closing")
  /\ objects' = objects - Counters + 1
  /\ IoctlReset
  /\ UNCHANGED <<args, i, fd, memory, fixed, rows, handles, pending, answer, runs, history>>

\* free(pmc_cfg), closeDriver, and the result is q's.
Release ==
  /\ Return("closing", "table")
  /\ heap' = heap \ {ptr["pmc_cfg"]}
  /\ closeDriver
  /\ objects' = objects - 1
  /\ UNCHANGED <<args, i, ptr, vec, msr, fixed, rows, handles, pending, runs, history>>

Next ==
  \/ Runtest \/ MallocFails \/ Record \/ OpenFails \/ LoadDriver
  \/ ResetForBaseline \/ BaselineStart \/ BaselineStop \/ DivideByZero \/ Average
  \/ ResetForTest \/ DlopenFails \/ Dlopen \/ DlsymFails \/ StartCounters
  \/ StopCounters \/ BridgeReturns \/ RecordResult \/ FinalReset \/ Release

Spec == Init /\ [][Next]_vars

-----------------------------------------------------------------------------
TypeOK ==
  /\ pc \in {"idle", "malloc", "open", "reset", "baseline", "baseStarted", "test",
             "dlopen", "dlsym", "started", "stopped", "record", "closing", "dead"}
  /\ count \in TestCounts /\ len \in CfgLens /\ i \in Nat /\ fd \in BOOLEAN
  /\ frames \subseteq 1 .. runs /\ heap \subseteq 1 .. runs
  /\ ptr \in [Pointer -> 0 .. runs] /\ vec \in [Vector -> Seq(Command)]
  /\ counter \in Nat /\ on \in BOOLEAN /\ reading \in Nat /\ fixed \in Nat
  /\ rows \in Seq(Int) /\ log \in Seq(Work \cup {Missed})
  /\ handles \in Nat /\ objects \in Nat /\ runs \in Nat
  /\ pending \subseteq {"malloc", "open", "dlopen", "dlsym"}
  /\ answer \in {"none", "table", "error"}
  /\ failed \in [open : SUBSET (1 .. runs), symbol : Nat]

\* The vectors that the call of ioctl at each place is given.
Given ==
  {<<"reset", "pmc_reset">>, <<"baseline", "pmc_cfg">>, <<"baseStarted", "pmc_read">>,
   <<"test", "pmc_reset">>, <<"dlsym", "pmc_cfg">>, <<"started", "pmc_read">>}

(***************************************************************************)
(* Every ioctl is given, through a static pointer, a block of the current  *)
(* call that still exists, with a STOP in it and all commands before that  *)
(* complete, and the device is open; the same holds for the accumulators   *)
(* that run_test writes through static pointers.  Callbacks of a library   *)
(* that is loaded anew for each test come to the frame of runtest too.     *)
(***************************************************************************)
IoctlsValid ==
  /\ \A g \in Given : pc = g[1] => fd /\ Lives(g[2]) /\ Executable(g[2])
  /\ pc \in {"reset", "baseline", "record"} => Lives("fixed") /\ Lives("pmc_read")
  /\ pc = "closing" => Lives("pmc_cfg")

(***************************************************************************)
(* Back in q the device is closed, nothing counts, and the library holds   *)
(* no object; what it has lost is exactly a pmc_cfg for every call that    *)
(* could not open the device and a handle for every missing symbol.        *)
(***************************************************************************)
LosesOnlyAfterFailure ==
  pc \in {"idle", "dead"} =>
    /\ ~ fd /\ frames = {} /\ objects = 0
    /\ heap = failed.open /\ handles = failed.symbol
    /\ pc = "idle" => ~ on /\ counter = 0

(***************************************************************************)
(* A row is the work of its own test, free of the cost of measuring, if    *)
(* the bridge found the kernel, and else repeats the row before (the first *)
(* one is the cost, negated); and a table is returned in either case: only *)
(* the error that krr left behind tells them apart.                        *)
(***************************************************************************)
RowsOfTheirTests ==
  /\ \A t \in 1 .. Len(rows) :
       rows[t] = IF log[t] # Missed THEN log[t] ELSE IF t = 1 THEN - fixed ELSE rows[t - 1]
  /\ pc = "idle" /\ answer = "table" =>
       (pending # {} <=> \E t \in 1 .. Len(rows) : log[t] = Missed)

\* Every call comes back to q, or dies of the division by zero.
RuntestReturns == pc # "idle" ~> pc \in {"idle", "dead"}
=============================================================================
