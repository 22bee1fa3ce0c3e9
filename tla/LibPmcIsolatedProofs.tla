--------------------------- MODULE LibPmcIsolatedProofs ------------------------
(***************************************************************************)
(* Clients of libpmc on CPUs of their own, with no migration: what runtest *)
(* leaves behind on the processors, which is nothing, and what it returns, *)
(* which is what each test did.                                            *)
(***************************************************************************)
EXTENDS LibPmcProofs

Off(c) == msr[c][GlobalCtrl] = 0 /\ \A k \in D!Counter : msr[c][k] = 0

\* As far as record_reset has been interpreted, its registers are zero.
Zeroed(p) ==
  idx[p] >= 1 =>
    /\ msr[cpu[p]][GlobalCtrl] = 0
    /\ \A n \in 2 .. idx[p] : msr[cpu[p]][ResetScript[n].ecx] = 0

\* Where runtest has not yet enabled a counter, or has just reset them all.
Silent(p) ==
  \/ pc[p] \in {"idle", "checkName", "dlsym", "open", "zeroFixed", "dead"}
  \/ ~ incall[p] /\ pc[p] = "closing"
  \/ ~ incall[p] /\ pc[p] = "baseline" /\ args[p].count = 0
  \/ pc[p] = "average" /\ args[p].count = 0

Quiet(p) ==
  /\ Silent(p) => Off(cpu[p])
  /\ incall[p] /\ cur[p] = "reset" => Zeroed(p)

Apart  == \A p, q \in Client : p # q => cpu[p] # cpu[q]
Unused == \A c \in Cpu : (\A p \in Client : cpu[p] # c) => Off(c)

QInv == IInv /\ Apart /\ Unused /\ \A p \in Client : Quiet(p)

-----------------------------------------------------------------------------
LEMMA ResetCommands ==
  /\ \A n \in 1 .. PMC_COUNT + FFC_COUNT + 1 :
       ResetScript[n].op = "WRITE" /\ ResetScript[n].value = 0 /\ ResetScript[n].ecx \in D!Reg
  /\ ResetScript[1].ecx = GlobalCtrl
  /\ ResetScript[PMC_COUNT + FFC_COUNT + 2].op = "STOP"
  /\ \A k \in D!Counter : \E n \in 2 .. PMC_COUNT + FFC_COUNT + 1 : ResetScript[n].ecx = k
<1>1. /\ \A r, v : /\ msr_wr(r, v).op = "WRITE" /\ msr_wr(r, v).value = v
                   /\ msr_wr(r, v).ecx = r
      /\ msr_wr_stop.op = "STOP"
  BY DEF msr_wr, msr_wr_stop, Command
<1>2. ASSUME NEW n \in 1 .. PMC_COUNT + FFC_COUNT + 1
      PROVE  \E r \in D!Reg : ResetScript[n] = msr_wr(r, 0)
  <2>1. CASE n = 1
    BY <2>1, ResetShape, Commands
  <2>2. CASE n \in 2 .. PMC_COUNT + 1
    <3>1. n - 1 \in 1 .. PMC_COUNT /\ 1 + (n - 1) = n /\ (n - 1) - 1 \in 0 .. PMC_COUNT - 1
      BY <2>2, Counts
    <3> QED
      BY <3>1, ResetShape, Commands
  <2>3. CASE n \in PMC_COUNT + 2 .. PMC_COUNT + FFC_COUNT + 1
    <3>1. PICK m \in 1 .. FFC_COUNT : n = 1 + PMC_COUNT + m
      <4>1. n - 1 - PMC_COUNT \in 1 .. FFC_COUNT /\ n = 1 + PMC_COUNT + (n - 1 - PMC_COUNT)
        BY <2>3, Counts
      <4> QED
        BY <4>1
    <3>2. m - 1 \in 0 .. FFC_COUNT - 1
      BY Counts
    <3> QED
      BY <3>1, <3>2, ResetShape, Commands
  <2> QED
    BY <2>1, <2>2, <2>3, Counts
<1>3. ResetScript[1].ecx = GlobalCtrl /\ ResetScript[PMC_COUNT + FFC_COUNT + 2].op = "STOP"
  BY <1>1, ResetShape
<1>4. ASSUME NEW k \in D!Counter
      PROVE  \E n \in 2 .. PMC_COUNT + FFC_COUNT + 1 : ResetScript[n].ecx = k
  BY <1>1, Places
<1> QED
  BY <1>1, <1>2, <1>3, <1>4

\* The command that a running reset comes to is the script's.
LEMMA ResetCurrent ==
  ASSUME IInv, NEW p \in Client, incall[p], cur[p] = "reset"
  PROVE  /\ idx[p] \in 0 .. PMC_COUNT + FFC_COUNT + 1
         /\ idx[p] <= VecLimit
         /\ D!Current(p).op = ResetScript[idx[p] + 1].op
         /\ D!Current(p).ecx = ResetScript[idx[p] + 1].ecx
         /\ D!Current(p).op = "WRITE" => D!Current(p).value = ResetScript[idx[p] + 1].value
<1>1. DriverTypes /\ "reset" \in Script /\ idx[p] \in Nat
  BY DriverFacts DEF IInv, DriverTypes, Script
<1>2. given[p]["reset"] = ResetScript
  <2>1. pc[p] \in {"baseline", "execute", "closing"}
    BY DEF IInv, Local, Calling, Called
  <2> QED
    BY <2>1 DEF IInv, Local, Scripts
<1>3. /\ Len(mem[p]["reset"]) = PMC_COUNT + FFC_COUNT + 2
      /\ \A j \in 1 .. PMC_COUNT + FFC_COUNT + 2 :
           /\ mem[p]["reset"][j].op = ResetScript[j].op
           /\ mem[p]["reset"][j].ecx = ResetScript[j].ecx
           /\ mem[p]["reset"][j].op \notin {"READ", "RDTSC"}
                => mem[p]["reset"][j].value = ResetScript[j].value
  BY <1>1, <1>2, DriverFacts, ResetShape DEF IInv
<1>4. /\ idx[p] <= PMC_COUNT + FFC_COUNT + 2
      /\ \A j \in 1 .. idx[p] : mem[p]["reset"][j].op \notin {"STOP", "BAD"}
  BY <1>3, DriverFacts DEF IInv
<1>5. idx[p] # PMC_COUNT + FFC_COUNT + 2
  <2> SUFFICES ASSUME idx[p] = PMC_COUNT + FFC_COUNT + 2 PROVE FALSE
    OBVIOUS
  <2>1. PICK j \in 1 .. idx[p] : j = PMC_COUNT + FFC_COUNT + 2
    BY Counts
  <2> QED
    BY <1>3, <1>4, <2>1, ResetCommands
<1>6. idx[p] \in 0 .. PMC_COUNT + FFC_COUNT + 1 /\ idx[p] <= VecLimit
  BY <1>1, <1>4, <1>5, Counts, FitAssumption
<1>7. idx[p] + 1 \in 1 .. PMC_COUNT + FFC_COUNT + 2
  BY <1>6, Counts
<1>8. D!Current(p) = mem[p]["reset"][idx[p] + 1]
  BY DEF D!Current
<1> QED
  BY <1>3, <1>6, <1>7, <1>8

\* An ioctl writes the registers of its own CPU only.
LEMMA OwnCpu ==
  ASSUME IInv, NEW p \in Client, D!IoctlStep(p), NEW c \in Cpu, c # cpu[p]
  PROVE  msr'[c] = msr[c]
<1>1. DriverTypes
  BY DriverFacts DEF IInv
<1> QED
  BY <1>1 DEF DriverTypes, D!IoctlStep, D!Nop, D!ReadMsr, D!WriteMsr, D!ReadTsc, D!Stop,
     D!UnknownOp, D!LimitReached

\* One command of a reset: one more register is zero, or it was the last.
LEMMA ResetStep ==
  ASSUME IInv, NEW p \in Client, D!IoctlStep(p), cur[p] = "reset", Zeroed(p)
  PROVE  IF incall'[p] THEN Zeroed(p)' ELSE Off(cpu[p])'
<1> DEFINE last == PMC_COUNT + FFC_COUNT + 1
<1>1. DriverTypes /\ incall[p] /\ cpu' = cpu
  BY DriverFacts, IoctlEffect DEF IInv
<1>2. /\ idx[p] \in 0 .. last /\ idx[p] <= VecLimit
      /\ D!Current(p).op = ResetScript[idx[p] + 1].op
      /\ D!Current(p).ecx = ResetScript[idx[p] + 1].ecx
      /\ D!Current(p).op = "WRITE" => D!Current(p).value = ResetScript[idx[p] + 1].value
  BY <1>1, ResetCurrent
<1>3. last \in Nat
  BY Counts
<1>6. ~ (idx[p] > VecLimit)
  BY <1>2, <1>3, Counts
<1>4. CASE idx[p] = last
  <2>1. D!Current(p).op = "STOP"
    BY <1>2, <1>4, ResetCommands, Counts
  <2>2. D!Stop(p)
    BY <1>6, <2>1 DEF D!IoctlStep, D!Nop, D!ReadMsr, D!WriteMsr, D!ReadTsc, D!UnknownOp,
       D!LimitReached, D!At
  <2>3. ~ incall'[p] /\ msr' = msr
    BY <1>1, <2>2 DEF D!Stop, D!Return, DriverTypes
  <2>4. msr[cpu[p]][GlobalCtrl] = 0 /\ \A n \in 2 .. last : msr[cpu[p]][ResetScript[n].ecx] = 0
    BY <1>3, <1>4, Counts DEF Zeroed
  <2>5. \A k \in D!Counter : msr[cpu[p]][k] = 0
    BY <2>4, ResetCommands
  <2> QED
    BY <1>1, <2>3, <2>4, <2>5 DEF Off
<1>5. CASE idx[p] # last
  <2>1. idx[p] + 1 \in 1 .. last
    BY <1>2, <1>3, <1>5
  <2>2. /\ D!Current(p).op = "WRITE" /\ D!Current(p).value = 0
        /\ D!Current(p).ecx \in D!Reg /\ D!Current(p).ecx = ResetScript[idx[p] + 1].ecx
    BY <1>2, <2>1, ResetCommands
  <2>3. D!WriteMsr(p)
    BY <1>6, <2>2 DEF D!IoctlStep, D!Nop, D!ReadMsr, D!Stop, D!ReadTsc, D!UnknownOp,
       D!LimitReached, D!At
  <2>4. incall' = incall /\ idx'[p] = idx[p] + 1
    BY <1>1, <2>3 DEF D!WriteMsr, D!Advance, DriverTypes
  <2>5. 0 % CounterSize = 0
    BY Counts
  <2>6. msr' = [msr EXCEPT ![cpu[p]][D!Current(p).ecx] = 0]
    BY <2>2, <2>3, <2>5 DEF D!WriteMsr
  <2>7. /\ msr'[cpu[p]][D!Current(p).ecx] = 0
        /\ \A r \in D!Reg : msr[cpu[p]][r] = 0 => msr'[cpu[p]][r] = 0
    BY <1>1, <2>2, <2>6 DEF DriverTypes
  <2>8. msr'[cpu[p]][GlobalCtrl] = 0
    <3>1. CASE idx[p] = 0
      BY <2>2, <2>7, <3>1, ResetCommands
    <3>2. CASE idx[p] # 0
      BY <1>2, <1>3, <2>7, <3>2, Commands DEF Zeroed
    <3> QED
      BY <3>1, <3>2
  <2>9. ASSUME NEW n \in 2 .. idx[p] + 1 PROVE msr'[cpu[p]][ResetScript[n].ecx] = 0
    <3>1. CASE n = idx[p] + 1
      BY <2>2, <2>7, <3>1
    <3>2. CASE n # idx[p] + 1
      <4>1. n \in 2 .. idx[p] /\ idx[p] >= 1 /\ n \in 1 .. last
        BY <1>2, <1>3, <2>1, <3>2
      <4>2. msr[cpu[p]][ResetScript[n].ecx] = 0
        BY <4>1 DEF Zeroed
      <4>3. ResetScript[n].ecx \in D!Reg
        BY <4>1, ResetCommands
      <4> QED
        BY <2>7, <4>2, <4>3
    <3> QED
      BY <3>1, <3>2
  <2> QED
    BY <1>1, <2>4, <2>8, <2>9 DEF Zeroed
<1> QED
  BY <1>4, <1>5

-----------------------------------------------------------------------------
LEMMA QuietKept ==
  ASSUME NEW q \in Client, Quiet(q),
         pc'[q] = pc[q], args'[q] = args[q], incall'[q] = incall[q], cur'[q] = cur[q],
         idx'[q] = idx[q], cpu'[q] = cpu[q], msr'[cpu[q]] = msr[cpu[q]]
  PROVE  Quiet(q)'
BY DEF Quiet, Silent, Off, Zeroed

\* A CPU whose counters are switched off does not count.
LEMMA TickOff ==
  ASSUME NEW c \in Cpu, NEW d \in Cpu, DriverTypes, D!Tick(c), msr[d][GlobalCtrl] = 0
  PROVE  msr'[d] = msr[d]
<1>1. ASSUME NEW n \in Nat \ {0} PROVE 0 \div n = 0
  OBVIOUS
<1>2. ASSUME NEW n \in 0 .. PMC_COUNT + FFC_COUNT PROVE ~ D!BitSet(0, n)
  <2>1. 2^n \in Nat \ {0}
    BY PowerAssumption
  <2> QED
    BY <1>1, <2>1 DEF D!BitSet
<1>3. CASE c = d
  <2>1. ASSUME NEW n \in 0 .. PMC_COUNT - 1 PROVE ~ D!PmcEnabled(msr[c], n)
    <3>1. n \in 0 .. PMC_COUNT + FFC_COUNT
      BY Counts
    <3> QED
      BY <1>2, <1>3, <3>1 DEF D!PmcEnabled, D!GlobalCtrl, GlobalCtrl
  <2>2. ASSUME NEW n \in 0 .. FFC_COUNT - 1 PROVE ~ D!FfcEnabled(msr[c], n)
    <3>1. PMC_COUNT + n \in 0 .. PMC_COUNT + FFC_COUNT
      BY Counts
    <3> QED
      BY <1>2, <1>3, <3>1 DEF D!FfcEnabled, D!GlobalCtrl, GlobalCtrl
  <2>3. D!EnabledCounters(msr[c]) = {}
    BY <2>1, <2>2 DEF D!EnabledCounters
  <2>4. msr'[c] = [r \in D!Reg |-> msr[c][r]]
    BY <2>3 DEF D!Tick, DriverTypes
  <2> QED
    BY <1>3, <2>4 DEF DriverTypes
<1>4. CASE c # d
  BY <1>4 DEF D!Tick, DriverTypes
<1> QED
  BY <1>3, <1>4

LEMMA TickQuiet ==
  ASSUME QInv, NEW c \in Cpu, Tick(c), NEW q \in Client
  PROVE  Quiet(q)'
<1>1. DriverTypes /\ Quiet(q) /\ cpu[q] \in Cpu /\ D!Tick(c)
  BY DriverFacts DEF QInv, IInv, DriverTypes, Tick
<1>2. UNCHANGED <<pc, args, incall, cur, idx, cpu>>
  BY DEF Tick, D!Tick, D!client, D!call, libVars
<1>3. CASE msr[cpu[q]][GlobalCtrl] = 0
  BY <1>1, <1>2, <1>3, TickOff, QuietKept
<1>4. CASE msr[cpu[q]][GlobalCtrl] # 0
  <2>1. ~ Silent(q)
    BY <1>1, <1>4 DEF Quiet, Off
  <2>2. ~ Silent(q)'
    BY <1>2, <2>1 DEF Silent
  <2>3. incall[q] /\ cur[q] = "reset" => ~ (idx[q] >= 1)
    BY <1>1, <1>4 DEF Quiet, Zeroed
  <2>4. incall'[q] /\ cur'[q] = "reset" => Zeroed(q)'
    BY <1>2, <2>3 DEF Zeroed
  <2> QED
    BY <2>2, <2>4 DEF Quiet
<1> QED
  BY <1>3, <1>4

-----------------------------------------------------------------------------
\* No step of the library itself touches a register; it calls the driver.
LEMMA LibMoves ==
  ASSUME IInv, NEW p \in Client, Acts(p)
  PROVE  /\ UNCHANGED <<msr, cpu, tsc>>
         /\ \A q \in Client \ {p} : idx'[q] = idx[q]
         /\ \/ idx'[p] = 0 /\ incall'[p]
            \/ UNCHANGED <<incall, cur, idx>>
<1>1. DriverTypes
  BY DriverFacts DEF IInv
<1>2. CASE ResetForBaseline(p) \/ ResetForTest(p) \/ BaselineStart(p) \/ BaselineStop(p)
           \/ StartCounters(p) \/ StopCounters(p) \/ FinalReset(p)
  BY <1>1, <1>2 DEF ResetForBaseline, ResetForTest, BaselineStart, BaselineStop, StartCounters,
     StopCounters, FinalReset, Ioctl, D!IoctlEnter, D!client, DriverTypes
<1>3. CASE \/ BadLibName(p) \/ DlopenFails(p) \/ Dlopen(p) \/ DlsymFails(p)
           \/ MallocFails(p) \/ OpenFails(p) \/ BaselineNext(p) \/ BaselineEnd(p)
           \/ ReturnsUnstopped(p) \/ RecordResult(p) \/ \E a \in Args : Runtest(p, a)
  BY <1>3 DEF BadLibName, DlopenFails, Dlopen, DlsymFails, MallocFails, OpenFails,
     BaselineNext, BaselineEnd, ReturnsUnstopped, RecordResult, Runtest, driverVars
<1>4. CASE Prepare(p) \/ DivideByZero(p)
  BY <1>4 DEF Prepare, DivideByZero
<1>5. CASE LoadDriver(p) \/ Average(p) \/ Release(p)
  BY <1>5 DEF LoadDriver, Average, Release, D!Open, D!Build, D!Close, D!client, D!call
<1> QED
  BY <1>2, <1>3, <1>4, <1>5 DEF Acts, LibStep

\* runtest becomes silent only where it was, or where a reset has ended.
LEMMA SilentBefore ==
  ASSUME IInv, NEW p \in Client, Acts(p), Silent(p)'
  PROVE  Silent(p)
<1>1. TypeOK /\ Looping(p) /\ DriverTypes /\ i[p] \in Nat /\ args[p].count \in Nat
  BY DriverFacts, LibAssumption DEF IInv, Types, Local, TypeOK, Args
<1>2. CASE ResetForBaseline(p) \/ ResetForTest(p) \/ BaselineStart(p) \/ BaselineStop(p)
           \/ StartCounters(p) \/ StopCounters(p) \/ FinalReset(p)
  BY <1>1, <1>2 DEF ResetForBaseline, ResetForTest, BaselineStart, BaselineStop, StartCounters,
     StopCounters, FinalReset, Ioctl, Goto, D!IoctlEnter, DriverTypes, TypeOK, Silent
<1>3. CASE \/ BadLibName(p) \/ DlopenFails(p) \/ Dlopen(p) \/ DlsymFails(p) \/ Prepare(p)
           \/ MallocFails(p) \/ OpenFails(p) \/ LoadDriver(p) \/ \E a \in Args : Runtest(p, a)
  BY <1>3 DEF BadLibName, DlopenFails, Dlopen, DlsymFails, Prepare, MallocFails, OpenFails,
     LoadDriver, Runtest, Return, Goto, Silent
<1>4. CASE ReturnsUnstopped(p) \/ RecordResult(p) \/ Average(p)
  BY <1>1, <1>4 DEF ReturnsUnstopped, RecordResult, Average, Goto, TypeOK, Silent
<1>5. CASE BaselineNext(p)
  BY <1>1, <1>5 DEF BaselineNext, Goto, TypeOK, Silent, Looping, InBaseline
<1>6. CASE BaselineEnd(p) \/ DivideByZero(p)
  BY <1>1, <1>6 DEF BaselineEnd, DivideByZero, Returned, Goto, TypeOK, Silent
<1>7. CASE Release(p)
  BY <1>7 DEF Release, Return, Goto, D!Close, Silent
<1> QED
  BY <1>2, <1>3, <1>4, <1>5, <1>6, <1>7 DEF Acts, LibStep

LEMMA LibQuiet ==
  ASSUME QInv, NEW p \in Client, Acts(p)
  PROVE  Quiet(p)'
<1>1. IInv /\ Quiet(p)
  BY DEF QInv
<1>2. UNCHANGED <<msr, cpu>>
  BY <1>1, LibMoves
<1>3. Silent(p)' => Off(cpu[p])'
  BY <1>1, <1>2, SilentBefore DEF Quiet, Off
<1>4. incall'[p] /\ cur'[p] = "reset" => Zeroed(p)'
  <2>1. CASE idx'[p] = 0
    BY <2>1 DEF Zeroed
  <2>2. CASE UNCHANGED <<incall, cur, idx>>
    BY <1>1, <1>2, <2>2 DEF Quiet, Zeroed
  <2> QED
    BY <1>1, <2>1, <2>2, LibMoves
<1> QED
  BY <1>3, <1>4 DEF Quiet

LEMMA DriverQuiet ==
  ASSUME QInv, NEW p \in Client, DriverStep(p)
  PROVE  Quiet(p)'
<1>1. IInv /\ Quiet(p) /\ D!IoctlStep(p) /\ UNCHANGED <<pc, args>>
  BY DEF QInv, DriverStep, libVars
<1>2. incall[p] /\ cur' = cur /\ Calling(p) /\ cur[p] \in Script
  BY <1>1, IoctlEffect, DriverFacts DEF IInv, Local, DriverTypes
<1>3. CASE cur[p] = "reset"
  <2>1. IF incall'[p] THEN Zeroed(p)' ELSE Off(cpu[p])'
    BY <1>1, <1>2, <1>3, ResetStep DEF Quiet
  <2>2. pc[p] \in {"baseline", "execute", "closing"}
    BY <1>2, <1>3 DEF Calling, Called
  <2>3. Silent(p)' => ~ incall'[p]
    BY <1>1, <2>2 DEF Silent
  <2> QED
    BY <2>1, <2>3 DEF Quiet
<1>4. CASE cur[p] # "reset"
  <2>1. pc[p] \in {"baseStarted", "started", "baseStopped", "stopped"}
    BY <1>2, <1>4 DEF Calling, Called, Script
  <2>2. ~ Silent(p)'
    BY <1>1, <2>1 DEF Silent
  <2> QED
    BY <1>2, <1>4, <2>2 DEF Quiet
<1> QED
  BY <1>3, <1>4

-----------------------------------------------------------------------------
LEMMA InitQInv == ASSUME ~ Migrates, Init PROVE QInv
<1>1. \A c \in Cpu : Off(c)
  BY Commands DEF Init, Off
<1>2. cpu \in [Client -> Cpu] /\ Apart
  BY DEF Init, Apart
<1>3. \A p \in Client : Quiet(p)
  BY <1>1, <1>2 DEF Init, Quiet
<1> QED
  BY <1>1, <1>2, <1>3, InitIInv DEF QInv, Unused

LEMMA NextQInv == ASSUME ~ Migrates, QInv, [Next]_vars PROVE QInv'
<1>1. IInv /\ IInv' /\ DriverTypes
  BY NextIInv, DriverFacts DEF QInv, IInv
<1> DEFINE Goal == Apart' /\ Unused' /\ \A q \in Client : Quiet(q)'
<1>2. ASSUME NEW p \in Client, Acts(p) PROVE Goal
  <2>1. UNCHANGED <<msr, cpu>> /\ \A q \in Client \ {p} : idx'[q] = idx[q]
    BY <1>1, <1>2, LibMoves
  <2>2. \A q \in Client \ {p} : Kept(q)
    BY <1>1, <1>2, OthersKept DEF Acts
  <2>3. \A q \in Client \ {p} : Quiet(q)'
    BY <2>1, <2>2, QuietKept DEF QInv, Kept
  <2> QED
    BY <1>2, <2>1, <2>3, LibQuiet DEF QInv, Apart, Unused, Off
<1>3. ASSUME NEW p \in Client, DriverStep(p) PROVE Goal
  <2>1. D!IoctlStep(p) /\ cpu' = cpu /\ \A q \in Client \ {p} : idx'[q] = idx[q]
    BY <1>1, <1>3, IoctlEffect DEF DriverStep, IInv
  <2>2. \A q \in Client \ {p} : Kept(q)
    BY <1>1, <1>3, OthersKept
  <2>3. \A c \in Cpu : c # cpu[p] => msr'[c] = msr[c]
    BY <1>1, <2>1, OwnCpu
  <2>4. ASSUME NEW q \in Client \ {p} PROVE Quiet(q)'
    <3>1. msr'[cpu[q]] = msr[cpu[q]]
      BY <1>1, <2>3 DEF QInv, Apart, DriverTypes
    <3> QED
      BY <2>1, <2>2, <3>1, QuietKept DEF QInv, Kept
  <2>5. Unused'
    BY <2>1, <2>3 DEF QInv, Unused, Off
  <2> QED
    BY <1>3, <2>1, <2>4, <2>5, DriverQuiet DEF QInv, Apart
<1>4. ASSUME NEW c \in Cpu, Tick(c) PROVE Goal
  <2>1. cpu' = cpu /\ D!Tick(c)
    BY <1>4 DEF Tick, D!Tick, D!client
  <2>2. \A d \in Cpu : Off(d) => msr'[d] = msr[d]
    BY <1>1, <2>1, TickOff DEF Off
  <2>3. Unused'
    BY <2>1, <2>2 DEF QInv, Unused, Off
  <2> QED
    BY <1>4, <2>1, <2>3, TickQuiet DEF QInv, Apart
<1>5. ASSUME NEW p \in Client, NEW c \in Cpu PROVE ~ Migrate(p, c)
  BY DEF Migrate, D!Migrate
<1>6. ASSUME UNCHANGED vars PROVE Goal
  <2>1. UNCHANGED <<pc, args, incall, cur, idx, cpu, msr>>
    BY <1>6 DEF vars, driverVars, libVars
  <2> QED
    BY <2>1, QuietKept DEF QInv, Apart, Unused, Off
<1> QED
  BY <1>1, <1>2, <1>3, <1>4, <1>5, <1>6 DEF Next, Acts, QInv

(***************************************************************************)
(* "disable and zero the PMC MSRs": once every call of runtest has come    *)
(* back, or has died of the division by zero, no CPU counts and every      *)
(* counter is zero, for any number of clients that stay on CPUs of their   *)
(* own.                                                                    *)
(***************************************************************************)
THEOREM LibPmcQuiet == ASSUME ~ Migrates PROVE Spec => []QuietMeansOff
<1>1. QInv => QuietMeansOff
  <2> SUFFICES ASSUME QInv, \A p \in Client : pc[p] \in {"idle", "dead"}, NEW c \in Cpu
               PROVE  Off(c)
    BY DEF QuietMeansOff, Off
  <2>1. \A p \in Client : Silent(p)
    BY DEF Silent
  <2> QED
    BY <2>1 DEF QInv, Quiet, Unused
<1>2. Init => QInv
  BY InitQInv
<1>3. QInv /\ [Next]_vars => QInv'
  BY NextQInv
<1> QED
  BY <1>1, <1>2, <1>3, PTL DEF Spec

-----------------------------------------------------------------------------
(***************************************************************************)
(* What is measured.  p is between the call of start and the return of     *)
(* stop while its CPU counts: Counting; from the last reset on, whenever   *)
(* it is not Counting, the CPU stands still: Still.                        *)
(***************************************************************************)
Starting(p) == incall[p] /\ pc[p] \in {"baseStarted", "started"}
Stopping(p) == incall[p] /\ pc[p] \in {"baseStopped", "stopped"}

Counting(p) ==
  \/ Measuring(p)
  \/ Starting(p) /\ idx[p] = Writes(args[p])
  \/ Stopping(p) /\ idx[p] = 0

Still(p) ==
  \/ ~ incall[p] /\ pc[p] \in {"baseline", "execute", "baseStopped", "stopped", "average"}
  \/ Starting(p) /\ idx[p] < Writes(args[p])
  \/ Stopping(p) /\ idx[p] > 0

\* The first n registers of pmc_cfg hold what it writes into them.
Written(p, n) ==
  \A j \in 1 .. n : msr[cpu[p]][CfgScript(args[p])[j].ecx] = CfgScript(args[p])[j].value

Control(p) ==
  /\ Counting(p) => Written(p, Writes(args[p]))
  /\ Still(p) => msr[cpu[p]][GlobalCtrl] = 0
  /\ Starting(p) => idx[p] <= Writes(args[p]) /\ Written(p, idx[p])

\* x counts what p has selected, and nothing else.
Counted(p, x, k) ==
  IF k \in Selected(args[p]) THEN inner[p] <= x /\ x <= outer[p] ELSE x = 0

Bounds(p) ==
  /\ inner[p] \in Nat /\ outer[p] \in Nat /\ outer[p] <= tsc
  /\ base[p] \in Nat \X Nat
  /\ incall[p] /\ pc[p] \in {"baseline", "execute"} => inner[p] = 0 /\ outer[p] = 0
  /\ Counting(p) \/ Still(p) => \A k \in D!Counter : Counted(p, msr[cpu[p]][k], k)

\* pmc_read shows zeros, or what the counters show.
Shown(p) ==
  /\ pc[p] \in {"open", "zeroFixed"} \/ (incall[p] /\ pc[p] = "baseline") =>
       \A k \in D!Counter : Reading(p, k) = 0
  /\ Stopping(p) =>
       \A j \in 2 .. idx[p] : mem[p]["read"][j].value = msr[cpu[p]][ReadScript[j].ecx]
  /\ ~ incall[p] /\ pc[p] \in {"baseline", "baseStopped", "stopped", "average"} =>
       \A k \in D!Counter : Reading(p, k) = msr[cpu[p]][k]

\* fixed[p] is the mean cost of one empty measurement.
Mean(p) ==
  /\ pc[p] = "average" => base[p] = <<inner[p], outer[p]>>
  /\ pc[p] \in InTests =>
       \A k \in D!Counter :
         IF k \in Selected(args[p])
         THEN /\ base[p][1] \div args[p].count <= fixed[p][k]
              /\ fixed[p][k] <= base[p][2] \div args[p].count
         ELSE fixed[p][k] = 0

Bracketed(p) ==
  \A n \in 1 .. Len(rows[p]), k \in D!Counter :
    LET count == args[p].count
        w == window[p][n]
        r == rows[p][n][k]
    IN  w[3] => IF k \in Selected(args[p])
                THEN /\ r >= w[1] - (base[p][2] \div count)
                     /\ r <= w[2] - (base[p][1] \div count)
                ELSE r = 0

Measured(p) == Control(p) /\ Bounds(p) /\ Shown(p) /\ Mean(p) /\ Bracketed(p)

RInv == QInv /\ base \in [Client -> Int \X Int] /\ \A p \in Client : Measured(p)

-----------------------------------------------------------------------------
\* What MeasuredKept needs to know of a client.
Same(q) ==
  /\ Kept(q) /\ idx'[q] = idx[q] /\ cpu'[q] = cpu[q] /\ msr'[cpu[q]] = msr[cpu[q]]
  /\ inner'[q] = inner[q] /\ outer'[q] = outer[q] /\ base'[q] = base[q]

\* A step of somebody else leaves what p measures alone.
LEMMA MeasuredKept ==
  ASSUME NEW q \in Client, Measured(q), Same(q), tsc \in Nat, tsc' \in Nat, tsc <= tsc'
  PROVE  Measured(q)'
<1> USE DEF Same, Kept
<1>1. /\ Counting(q)' = Counting(q) /\ Still(q)' = Still(q)
      /\ Starting(q)' = Starting(q) /\ Stopping(q)' = Stopping(q)
  BY DEF Counting, Still, Starting, Stopping, Measuring
<1>2. \A k : Reading(q, k)' = Reading(q, k)
  BY DEF Reading
<1>3. Control(q)'
  BY <1>1 DEF Measured, Control, Written
<1>4. Bounds(q)'
  <2>1. Bounds(q)
    BY DEF Measured
  <2>2. \A k : Counted(q, msr[cpu[q]][k], k)' = Counted(q, msr[cpu[q]][k], k)
    BY DEF Counted
  <2> QED
    BY <1>1, <2>1, <2>2 DEF Bounds
<1>5. Shown(q)'
  BY <1>1, <1>2 DEF Measured, Shown
<1>6. Mean(q)'
  BY DEF Measured, Mean
<1>7. Bracketed(q)'
  BY DEF Measured, Bracketed
<1> QED
  BY <1>3, <1>4, <1>5, <1>6, <1>7 DEF Measured

-----------------------------------------------------------------------------
(***************************************************************************)
(* One command of pmc_cfg, of pmc_read.                                    *)
(***************************************************************************)
LEMMA CfgStep ==
  ASSUME IInv, NEW p \in Client, D!IoctlStep(p), cur[p] = "cfg"
  PROVE  /\ idx[p] <= Writes(args[p]) /\ mem' = mem
         /\ IF idx[p] < Writes(args[p])
            THEN LET c == CfgScript(args[p])[idx[p] + 1]
                 IN  /\ incall' = incall /\ idx'[p] = idx[p] + 1
                     /\ msr' = [msr EXCEPT ![cpu[p]][c.ecx] = c.value]
            ELSE ~ incall'[p] /\ msr' = msr
<1> DEFINE a == args[p]
           s == CfgScript(a)
           w == Writes(a)
<1>1. /\ DriverTypes /\ incall[p] /\ "cfg" \in Script /\ idx[p] \in Nat /\ Calling(p) /\ Scripts(p)
      /\ a \in Args
  BY DriverFacts, IoctlEffect DEF IInv, Local, DriverTypes, Script, Types, TypeOK
<1>2. given[p]["cfg"] = s
  <2>1. pc[p] \in {"baseStarted", "started"}
    BY <1>1 DEF Calling, Called
  <2> QED
    BY <1>1, <2>1 DEF Scripts
<1>3. /\ w \in Nat /\ w >= 2 /\ w <= PMC_COUNT + 2 /\ s \in Seq(D!Cmd) /\ Len(s) = w + 1
      /\ s[w + 1].op = "STOP"
      /\ \A j \in 1 .. w : s[j].op = "WRITE" /\ s[j].ecx \in D!Reg \ D!Counter
  BY <1>1, CfgWrites
<1> HIDE DEF w, s, a
<1>4. /\ Len(mem[p]["cfg"]) = w + 1
      /\ \A j \in 1 .. w + 1 :
           /\ mem[p]["cfg"][j].op = s[j].op /\ mem[p]["cfg"][j].ecx = s[j].ecx
           /\ mem[p]["cfg"][j].op \notin {"READ", "RDTSC"} => mem[p]["cfg"][j].value = s[j].value
  BY <1>1, <1>2, <1>3, DriverFacts DEF IInv
<1>5. /\ idx[p] <= w + 1
      /\ \A j \in 1 .. idx[p] : mem[p]["cfg"][j].op \notin {"STOP", "BAD"}
  BY <1>1, <1>4, DriverFacts DEF IInv
<1>6. idx[p] # w + 1
  <2> SUFFICES ASSUME idx[p] = w + 1 PROVE FALSE
    OBVIOUS
  <2>1. w + 1 \in 1 .. idx[p] /\ w + 1 \in 1 .. w + 1
    BY <1>3
  <2> QED
    BY <1>3, <1>4, <1>5, <2>1
<1>7. idx[p] \in 0 .. w /\ idx[p] + 1 \in 1 .. w + 1
  BY <1>1, <1>3, <1>5, <1>6
<1>8. D!Current(p) = mem[p]["cfg"][idx[p] + 1]
  BY DEF D!Current
<1>9. CASE idx[p] < w
  <2>1. idx[p] + 1 \in 1 .. w
    BY <1>3, <1>7, <1>9
  <2>2. /\ D!Current(p).op = "WRITE" /\ D!Current(p).ecx = s[idx[p] + 1].ecx
        /\ D!Current(p).value = s[idx[p] + 1].value /\ s[idx[p] + 1].ecx \in D!Reg \ D!Counter
    BY <1>3, <1>4, <1>7, <1>8, <2>1
  <2>3. ~ (idx[p] > VecLimit)
    BY <1>3, <1>7, <1>9, Counts, FitAssumption
  <2>4. D!WriteMsr(p)
    BY <2>2, <2>3 DEF D!IoctlStep, D!Nop, D!ReadMsr, D!Stop, D!ReadTsc, D!UnknownOp,
       D!LimitReached, D!At
  <2>5. incall' = incall /\ idx'[p] = idx[p] + 1 /\ mem' = mem
    BY <1>1, <2>4 DEF D!WriteMsr, D!Advance, DriverTypes, D!memory
  <2>6. msr' = [msr EXCEPT ![cpu[p]][s[idx[p] + 1].ecx] = s[idx[p] + 1].value]
    BY <2>2, <2>4 DEF D!WriteMsr
  <2> QED
    BY <1>7, <1>9, <2>5, <2>6 DEF s, w, a
<1>10. CASE ~ (idx[p] < w)
  <2>1. idx[p] = w
    BY <1>3, <1>7, <1>10
  <2>2. D!Current(p).op = "STOP"
    BY <1>3, <1>4, <1>7, <1>8, <2>1
  <2>3. D!Stop(p) \/ D!LimitReached(p)
    BY <2>2 DEF D!IoctlStep, D!Nop, D!ReadMsr, D!WriteMsr, D!ReadTsc, D!UnknownOp, D!At
  <2>4. ~ incall'[p] /\ msr' = msr /\ mem' = mem
    BY <1>1, <2>3 DEF D!Stop, D!LimitReached, D!Return, DriverTypes, D!memory
  <2> QED
    BY <1>7, <1>10, <2>4 DEF s, w, a
<1> QED
  BY <1>9, <1>10

Commanded == PMC_COUNT + FFC_COUNT + 1

\* The commands of pmc_read between the first and the last read the counters.
LEMMA ReadCommands ==
  /\ Commanded \in Nat /\ Commanded >= 1 /\ Commanded <= VecLimit
  /\ ReadScript \in Seq(D!Cmd) /\ Len(ReadScript) = Commanded + 1
  /\ ReadScript[1].op = "WRITE" /\ ReadScript[1].ecx = GlobalCtrl /\ ReadScript[1].value = 0
  /\ \A n \in 2 .. Commanded : ReadScript[n].op = "READ" /\ ReadScript[n].ecx \in D!Counter
  /\ ReadScript[Commanded + 1].op = "STOP"
<1>1. /\ \A r, v : /\ msr_wr(r, v).op = "WRITE" /\ msr_wr(r, v).ecx = r
                   /\ msr_wr(r, v).value = v
      /\ \A r : msr_rd(r).op = "READ" /\ msr_rd(r).ecx = r
      /\ msr_wr_stop.op = "STOP"
  BY DEF msr_wr, msr_rd, msr_wr_stop, Command
<1>2. Commanded \in Nat /\ Commanded >= 1 /\ Commanded <= VecLimit
  BY Counts, FitAssumption DEF Commanded
<1>3. Commanded + 1 = PMC_COUNT + FFC_COUNT + 2
  BY Counts DEF Commanded
<1>4. /\ ReadScript \in Seq(D!Cmd) /\ Len(ReadScript) = Commanded + 1
      /\ ReadScript[1].op = "WRITE" /\ ReadScript[1].ecx = GlobalCtrl /\ ReadScript[1].value = 0
      /\ ReadScript[Commanded + 1].op = "STOP"
  BY <1>1, <1>3, ReadShape
<1>5. ASSUME NEW n \in 2 .. Commanded
      PROVE  \E k \in D!Counter : ReadScript[n] = msr_rd(k)
  <2>1. CASE n \in 2 .. PMC_COUNT + 1
    <3>1. n - 1 \in 1 .. PMC_COUNT /\ 1 + (n - 1) = n /\ (n - 1) - 1 \in 0 .. PMC_COUNT - 1
      BY <2>1, Counts
    <3> QED
      BY <3>1, ReadShape, Commands
  <2>2. CASE n \in PMC_COUNT + 2 .. PMC_COUNT + FFC_COUNT + 1
    <3>1. PICK m \in 1 .. FFC_COUNT : n = 1 + PMC_COUNT + m
      <4>1. n - 1 - PMC_COUNT \in 1 .. FFC_COUNT /\ n = 1 + PMC_COUNT + (n - 1 - PMC_COUNT)
        BY <2>2, Counts
      <4> QED
        BY <4>1
    <3>2. m - 1 \in 0 .. FFC_COUNT - 1
      BY Counts
    <3> QED
      BY <3>1, <3>2, ReadShape, Commands
  <2> QED
    BY <2>1, <2>2, Counts DEF Commanded
<1> QED
  BY <1>1, <1>2, <1>4, <1>5

\* pmc_read halts first, then stores one counter per command.
LEMMA ReadStep ==
  ASSUME IInv, NEW p \in Client, D!IoctlStep(p), cur[p] = "read"
  PROVE  /\ idx[p] \in 0 .. Commanded
         /\ CASE idx[p] = 0 -> /\ incall' = incall /\ idx'[p] = 1 /\ mem' = mem
                               /\ msr' = [msr EXCEPT ![cpu[p]][GlobalCtrl] = 0]
              [] idx[p] \in 1 .. Commanded - 1 ->
                   /\ incall' = incall /\ idx'[p] = idx[p] + 1 /\ msr' = msr
                   /\ mem' = [mem EXCEPT ![p]["read"][idx[p] + 1].value =
                                msr[cpu[p]][ReadScript[idx[p] + 1].ecx]]
              [] idx[p] = Commanded -> ~ incall'[p] /\ msr' = msr /\ mem' = mem
<1>1. /\ DriverTypes /\ incall[p] /\ "read" \in Script /\ idx[p] \in Nat /\ Calling(p) /\ Scripts(p)
  BY DriverFacts, IoctlEffect DEF IInv, Local, DriverTypes, Script
<1>2. given[p]["read"] = ReadScript
  <2>1. pc[p] \in {"baseStopped", "stopped"}
    BY <1>1 DEF Calling, Called
  <2> QED
    BY <1>1, <2>1 DEF Scripts
<1>3. /\ Len(mem[p]["read"]) = Commanded + 1
      /\ \A j \in 1 .. Commanded + 1 :
           /\ mem[p]["read"][j].op = ReadScript[j].op
           /\ mem[p]["read"][j].ecx = ReadScript[j].ecx
           /\ mem[p]["read"][j].op \notin {"READ", "RDTSC"}
                => mem[p]["read"][j].value = ReadScript[j].value
  BY <1>1, <1>2, ReadCommands, DriverFacts DEF IInv
<1>4. /\ idx[p] <= Commanded + 1
      /\ \A j \in 1 .. idx[p] : mem[p]["read"][j].op \notin {"STOP", "BAD"}
  BY <1>1, <1>3, DriverFacts DEF IInv
<1>5. idx[p] # Commanded + 1
  <2> SUFFICES ASSUME idx[p] = Commanded + 1 PROVE FALSE
    OBVIOUS
  <2>1. Commanded + 1 \in 1 .. idx[p] /\ Commanded + 1 \in 1 .. Commanded + 1
    BY ReadCommands
  <2> QED
    BY <1>3, <1>4, <2>1, ReadCommands
<1>6. /\ idx[p] \in 0 .. Commanded /\ idx[p] + 1 \in 1 .. Commanded + 1
      /\ ~ (idx[p] > VecLimit)
  <2>1. /\ Commanded \in Nat /\ Commanded <= VecLimit /\ VecLimit \in Nat /\ idx[p] \in Nat
        /\ idx[p] <= Commanded + 1 /\ idx[p] # Commanded + 1
    BY <1>1, <1>4, <1>5, ReadCommands, Counts
  <2> QED
    BY <2>1
<1>7. D!Current(p) = mem[p]["read"][idx[p] + 1]
  BY DEF D!Current
<1>8. CASE idx[p] = 0
  <2>1. 1 \in 1 .. Commanded + 1 /\ idx[p] + 1 = 1
    BY <1>8, ReadCommands
  <2>2. D!Current(p).op = "WRITE" /\ D!Current(p).ecx = GlobalCtrl /\ D!Current(p).value = 0
    BY <1>3, <1>7, <2>1, ReadCommands
  <2>3. D!WriteMsr(p)
    BY <1>6, <2>2 DEF D!IoctlStep, D!Nop, D!ReadMsr, D!Stop, D!ReadTsc, D!UnknownOp,
       D!LimitReached, D!At
  <2>4. incall' = incall /\ idx'[p] = 1 /\ mem' = mem
    BY <1>1, <1>8, <2>3 DEF D!WriteMsr, D!Advance, DriverTypes, D!memory
  <2>5. GlobalCtrl \notin D!Counter
    BY DEF D!Counter, GlobalCtrl, D!Pmc, D!Ffc
  <2>6. msr' = [msr EXCEPT ![cpu[p]][GlobalCtrl] = 0]
    BY <2>2, <2>3, <2>5 DEF D!WriteMsr
  <2>7. 0 \notin 1 .. Commanded - 1 /\ 0 # Commanded
    BY ReadCommands
  <2> QED
    BY <1>6, <1>8, <2>4, <2>6, <2>7
<1>9. CASE idx[p] \in 1 .. Commanded - 1
  <2>1. idx[p] + 1 \in 2 .. Commanded /\ idx[p] # 0 /\ idx[p] # Commanded
    BY <1>9, ReadCommands
  <2>2. D!Current(p).op = "READ" /\ D!Current(p).ecx = ReadScript[idx[p] + 1].ecx
    BY <1>3, <1>6, <1>7, <2>1, ReadCommands
  <2>3. D!ReadMsr(p)
    BY <1>6, <2>2 DEF D!IoctlStep, D!Nop, D!WriteMsr, D!Stop, D!ReadTsc, D!UnknownOp,
       D!LimitReached, D!At
  <2>4. incall' = incall /\ idx'[p] = idx[p] + 1 /\ msr' = msr
    BY <1>1, <2>3 DEF D!ReadMsr, D!Advance, DriverTypes
  <2>5. mem' = [mem EXCEPT ![p]["read"][idx[p] + 1].value =
                  msr[cpu[p]][ReadScript[idx[p] + 1].ecx]]
    BY <2>2, <2>3 DEF D!ReadMsr, D!Store
  <2> QED
    BY <1>6, <1>9, <2>1, <2>4, <2>5
<1>10. CASE idx[p] = Commanded
  <2>1. D!Current(p).op = "STOP"
    BY <1>3, <1>6, <1>7, <1>10, ReadCommands
  <2>2. D!Stop(p)
    BY <1>6, <2>1 DEF D!IoctlStep, D!Nop, D!ReadMsr, D!WriteMsr, D!ReadTsc, D!UnknownOp,
       D!LimitReached, D!At
  <2>3. ~ incall'[p] /\ msr' = msr /\ mem' = mem
    BY <1>1, <2>2 DEF D!Stop, D!Return, DriverTypes, D!memory
  <2>4. idx[p] # 0 /\ idx[p] \notin 1 .. Commanded - 1
    BY <1>10, ReadCommands
  <2> QED
    BY <1>6, <1>10, <2>3, <2>4
<1>11. idx[p] = 0 \/ idx[p] \in 1 .. Commanded - 1 \/ idx[p] = Commanded
  BY <1>6, ReadCommands
<1> QED
  BY <1>8, <1>9, <1>10, <1>11

-----------------------------------------------------------------------------
(***************************************************************************)
(* Time passes.                                                            *)
(***************************************************************************)
\* Where the counters may run and where they stand still.
LEMMA Phases ==
  ASSUME IInv, NEW q \in Client, Control(q)
  PROVE  /\ MayMeasure(q) \/ Starting(q) \/ Stopping(q) => Counting(q) \/ Still(q)
         /\ Counting(q) => MayMeasure(q) /\ ~ Still(q)
         /\ Still(q) => ~ Measuring(q)
<1>1. idx[q] \in Nat /\ Writes(args[q]) \in Nat /\ incall[q] \in BOOLEAN
  BY DriverFacts, CfgWrites DEF IInv, DriverTypes, Types, TypeOK
<1> QED
  BY <1>1 DEF Control, MayMeasure, Measuring, Starting, Stopping, Counting, Still

\* An event on the CPU of a client that is measured is counted by what it selected.
LEMMA TickCounting ==
  ASSUME RInv, MaxTsc < CounterSize, NEW q \in Client, Tick(cpu[q]), Counting(q)
  PROVE  Measured(q)'
<1> DEFINE c == cpu[q]
           a == args[q]
<1>1. /\ IInv /\ DriverTypes /\ Measured(q) /\ c \in Cpu /\ a \in Args
      /\ D!Tick(c) /\ tsc \in Nat /\ tsc < MaxTsc /\ tsc' = tsc + 1
      /\ inner \in [Client -> Int] /\ outer \in [Client -> Int]
  BY DriverFacts DEF RInv, QInv, IInv, DriverTypes, Types, TypeOK, Tick, D!Tick
<1>2. UNCHANGED <<pc, args, incall, cur, idx, cpu, mem, fixed, rows, base, window>>
  BY DEF Tick, D!Tick, D!client, D!call, D!memory, libVars
<1>3. MayMeasure(q) /\ ~ Still(q)
  BY <1>1, Phases DEF Measured
<1>4. /\ inner[q] \in Nat /\ outer[q] \in Nat /\ outer[q] <= tsc /\ base[q] \in Nat \X Nat
      /\ \A k \in D!Counter : Counted(q, msr[c][k], k)
  BY <1>1 DEF Measured, Bounds
<1>5. /\ outer'[q] = outer[q] + 1
      /\ inner'[q] = IF Measuring(q) THEN inner[q] + 1 ELSE inner[q]
  BY <1>3 DEF Tick
<1>6. Written(q, Writes(a))
  BY <1>1 DEF Measured, Control
<1>7. D!EnabledCounters(msr[c]) = Selected(a)
  BY <1>1, <1>6, EnabledWhenWritten DEF Written
<1>8. msr'[c] = [r \in D!Reg |-> IF r \in Selected(a) THEN (msr[c][r] + 1) % CounterSize
                                                   ELSE msr[c][r]]
  BY <1>1, <1>7 DEF D!Tick, DriverTypes
<1>9. Selected(a) \subseteq D!Counter
  BY <1>7 DEF D!EnabledCounters, D!Counter
<1>10. ASSUME NEW r \in D!Reg \ D!Counter PROVE msr'[c][r] = msr[c][r]
  BY <1>8, <1>9
<1>11. ASSUME NEW k \in D!Counter PROVE Counted(q, msr[cpu[q]][k], k)'
  <2>1. k \in D!Reg /\ msr[c][k] \in Nat
    BY <1>1, Commands DEF DriverTypes
  <2>2. Counted(q, msr[c][k], k)
    BY <1>4
  <2>3. CASE k \in Selected(a)
    <3>1. inner[q] <= msr[c][k] /\ msr[c][k] <= outer[q]
      BY <2>2, <2>3 DEF Counted
    <3>2. msr[c][k] + 1 \in 0 .. CounterSize - 1
      BY <1>1, <1>4, <2>1, <3>1, Counts
    <3>3. (msr[c][k] + 1) % CounterSize = msr[c][k] + 1
      BY <3>2, Counts
    <3>4. msr'[c][k] = msr[c][k] + 1
      BY <1>8, <2>1, <2>3, <3>3
    <3>5. inner'[q] <= msr'[c][k] /\ msr'[c][k] <= outer'[q]
      BY <1>4, <1>5, <2>1, <3>1, <3>4
    <3> QED
      BY <1>2, <2>3, <3>5 DEF Counted
  <2>4. CASE k \notin Selected(a)
    <3>1. msr'[c][k] = 0
      BY <1>8, <2>1, <2>2, <2>4 DEF Counted
    <3> QED
      BY <1>2, <2>4, <3>1 DEF Counted
  <2> QED
    BY <2>3, <2>4
<1>12. /\ Counting(q)' = Counting(q) /\ Still(q)' = Still(q)
       /\ Starting(q)' = Starting(q) /\ Stopping(q)' = Stopping(q)
  BY <1>2 DEF Counting, Still, Starting, Stopping, Measuring
<1>13. Control(q)'
  <2> DEFINE StillWritten(n) == \A j \in 1 .. n :
                            msr'[c][CfgScript(a)[j].ecx] = CfgScript(a)[j].value
  <2>1. ASSUME NEW n \in 0 .. Writes(a), Written(q, n) PROVE StillWritten(n)
    <3> SUFFICES ASSUME NEW j \in 1 .. n
                 PROVE  msr'[c][CfgScript(a)[j].ecx] = CfgScript(a)[j].value
      OBVIOUS
    <3>1. j \in 1 .. Writes(a)
      BY <1>1, CfgWrites
    <3> QED
      BY <1>1, <1>10, <2>1, <3>1, CfgWrites DEF Written
  <2>2. Writes(a) \in Nat /\ idx[q] \in Nat
    BY <1>1, CfgWrites DEF DriverTypes
  <2>3. Control(q)
    BY <1>1 DEF Measured
  <2>4. StillWritten(Writes(a))
    <3>1. Writes(a) \in 0 .. Writes(a)
      BY <2>2
    <3> QED
      BY <1>6, <2>1, <3>1
  <2>5. ASSUME Starting(q) PROVE idx[q] <= Writes(a) /\ StillWritten(idx[q])
    <3>1. idx[q] \in 0 .. Writes(a) /\ Written(q, idx[q])
      BY <2>2, <2>3, <2>5 DEF Control
    <3> QED
      BY <2>1, <2>2, <3>1
  <2>6. Written(q, Writes(args[q]))'
    BY <1>2, <2>4 DEF Written
  <2>7. Starting(q) => (idx[q] <= Writes(args[q]) /\ Written(q, idx[q]))'
    BY <1>2, <2>5 DEF Written
  <2> QED
    BY <1>3, <1>12, <2>6, <2>7 DEF Control
<1>14. Bounds(q)'
  <2>1. inner'[q] \in Nat /\ outer'[q] \in Nat /\ outer'[q] <= tsc'
    BY <1>1, <1>4, <1>5
  <2>2. ~ (incall[q] /\ pc[q] \in {"baseline", "execute"})
    BY <1>3 DEF MayMeasure
  <2> QED
    BY <1>2, <1>4, <1>11, <2>1, <2>2 DEF Bounds
<1>15. Shown(q)'
  <2>1. ~ (pc[q] \in {"open", "zeroFixed"} \/ (incall[q] /\ pc[q] = "baseline"))
    BY <1>3 DEF MayMeasure
  <2>2. ~ (~ incall[q] /\ pc[q] \in {"baseline", "baseStopped", "stopped", "average"})
    BY <1>3 DEF Still
  <2>3. Stopping(q) => ~ (idx[q] > 0)
    BY <1>3 DEF Still
  <2>4. Stopping(q) => \A j \in 2 .. idx[q] : FALSE
    BY <1>1, <2>3 DEF DriverTypes
  <2> QED
    BY <1>2, <1>12, <2>1, <2>2, <2>4 DEF Shown
<1>16. Mean(q)'
  <2>1. pc[q] # "average"
    BY <1>3 DEF MayMeasure
  <2> QED
    BY <1>1, <1>2, <2>1 DEF Measured, Mean
<1>17. Bracketed(q)'
  BY <1>1, <1>2 DEF Measured, Bracketed
<1> QED
  BY <1>13, <1>14, <1>15, <1>16, <1>17 DEF Measured

\* Any tick: of another CPU, of one that counts, of one that stands still.
LEMMA TickMeasured ==
  ASSUME RInv, MaxTsc < CounterSize, NEW c \in Cpu, Tick(c), NEW q \in Client
  PROVE  Measured(q)'
<1>1. /\ IInv /\ DriverTypes /\ Measured(q) /\ cpu[q] \in Cpu /\ Control(q)
      /\ D!Tick(c) /\ tsc \in Nat /\ tsc' = tsc + 1
      /\ inner \in [Client -> Int] /\ outer \in [Client -> Int]
  BY DriverFacts DEF RInv, QInv, IInv, DriverTypes, Types, Tick, D!Tick, Measured
<1>2. /\ UNCHANGED <<pc, args, incall, cur, idx, cpu, mem, fixed, rows, base, window>>
      /\ UNCHANGED <<i, held, failed, open, given>>
  BY DEF Tick, D!Tick, D!client, D!call, D!memory, libVars
<1>3. /\ inner'[q] = IF cpu[q] = c /\ Measuring(q) THEN inner[q] + 1 ELSE inner[q]
      /\ outer'[q] = IF cpu[q] = c /\ MayMeasure(q) THEN outer[q] + 1 ELSE outer[q]
  BY DEF Tick
<1>4. CASE cpu[q] # c
  <2>1. msr'[cpu[q]] = msr[cpu[q]]
    BY <1>1, <1>4 DEF D!Tick, DriverTypes
  <2>2. Same(q)
    BY <1>2, <1>3, <1>4, <2>1 DEF Same, Kept
  <2>3. tsc' \in Nat /\ tsc <= tsc'
    BY <1>1
  <2> QED
    BY <1>1, <2>2, <2>3, MeasuredKept
<1>5. CASE cpu[q] = c /\ Counting(q)
  BY <1>5, TickCounting
<1>6. CASE cpu[q] = c /\ ~ Counting(q)
  <2>1. /\ Counting(q)' = Counting(q) /\ Still(q)' = Still(q)
        /\ Starting(q)' = Starting(q) /\ Stopping(q)' = Stopping(q)
    BY <1>2 DEF Counting, Still, Starting, Stopping, Measuring
  <2>2. Still(q) => msr'[c] = msr[c]
    BY <1>1, <1>6, TickOff DEF Control
  <2>3. MayMeasure(q) \/ Starting(q) \/ Stopping(q) => Still(q)
    BY <1>1, <1>6, Phases
  <2>4. inner'[q] = inner[q] /\ (~ Still(q) => outer'[q] = outer[q])
    BY <1>3, <1>6, <2>3 DEF Counting
  <2>5. Bounds(q)
    BY <1>1 DEF Measured
  <2>6. /\ outer'[q] \in Nat /\ outer[q] <= outer'[q] /\ outer'[q] <= tsc'
        /\ inner[q] \in Nat /\ outer[q] \in Nat
    BY <1>1, <1>3, <2>5 DEF Bounds
  <2>7. Control(q)'
    BY <1>1, <1>2, <1>6, <2>1, <2>2, <2>3 DEF Control, Written
  <2>8. Bounds(q)'
    <3>1. ASSUME incall[q], pc[q] \in {"baseline", "execute"} PROVE outer'[q] = outer[q]
      BY <1>3, <3>1 DEF MayMeasure
    <3>2. ASSUME Still(q), NEW k \in D!Counter PROVE Counted(q, msr[cpu[q]][k], k)'
      <4>1. msr[c][k] \in Nat
        BY <1>1, <1>6, Commands DEF DriverTypes
      <4>2. Counted(q, msr[c][k], k)
        BY <1>6, <2>5, <3>2 DEF Bounds
      <4>3. msr'[c][k] = msr[c][k]
        BY <2>2, <3>2
      <4> QED
        BY <1>2, <1>6, <2>4, <2>6, <4>1, <4>2, <4>3 DEF Counted
    <3> QED
      BY <1>2, <1>6, <2>1, <2>4, <2>5, <2>6, <3>1, <3>2 DEF Bounds
  <2>9. Shown(q)'
    <3>1. \A k : Reading(q, k)' = Reading(q, k)
      BY <1>2 DEF Reading
    <3>2. Shown(q)
      BY <1>1 DEF Measured
    <3>3. ~ incall[q] /\ pc[q] \in {"baseline", "baseStopped", "stopped", "average"} => Still(q)
      BY DEF Still
    <3> QED
      BY <1>2, <1>6, <2>1, <2>2, <2>3, <3>1, <3>2, <3>3 DEF Shown
  <2>10. Mean(q)'
    <3>1. pc[q] = "average" => outer'[q] = outer[q]
      BY <1>3 DEF MayMeasure
    <3> QED
      BY <1>1, <1>2, <2>4, <3>1 DEF Measured, Mean
  <2>11. Bracketed(q)'
    BY <1>1, <1>2 DEF Measured, Bracketed
  <2> QED
    BY <2>7, <2>8, <2>9, <2>10, <2>11 DEF Measured
<1> QED
  BY <1>4, <1>5, <1>6

-----------------------------------------------------------------------------
(***************************************************************************)
(* A command is executed.                                                  *)
(***************************************************************************)
\* All of a driver step but msr, mem, incall and idx.
LEMMA DriverLeaves ==
  ASSUME RInv, NEW p \in Client, DriverStep(p)
  PROVE  /\ UNCHANGED <<pc, args, fixed, rows, window, inner, outer, base, cpu, cur, tsc>>
         /\ D!IoctlStep(p) /\ incall[p] /\ IInv /\ DriverTypes /\ Measured(p) /\ Quiet(p)
         /\ Calling(p) /\ cur[p] \in Script /\ args[p] \in Args /\ idx[p] \in Nat
<1>1. D!IoctlStep(p) /\ IInv /\ DriverTypes /\ UNCHANGED <<pc, args, fixed, rows>>
      /\ UNCHANGED <<window, inner, outer, base>>
  BY DriverFacts DEF RInv, QInv, IInv, DriverStep, libVars, history
<1>2. tsc' = tsc
  BY <1>1 DEF D!IoctlStep, D!Nop, D!ReadMsr, D!WriteMsr, D!ReadTsc, D!Stop, D!UnknownOp,
     D!LimitReached
<1>3. incall[p] /\ cur' = cur /\ cpu' = cpu
  BY <1>1, IoctlEffect DEF IInv
<1> QED
  BY <1>1, <1>2, <1>3 DEF RInv, QInv, IInv, Local, Types, TypeOK, DriverTypes

\* When a reset is through, the counters agree with the zeroed histories.
LEMMA ResetMeasured ==
  ASSUME RInv, NEW p \in Client, DriverStep(p), cur[p] = "reset"
  PROVE  Measured(p)'
<1>1. /\ UNCHANGED <<pc, args, fixed, rows, window, inner, outer, base, cpu, cur, tsc>>
      /\ D!IoctlStep(p) /\ incall[p] /\ IInv /\ DriverTypes /\ Measured(p) /\ Quiet(p)
      /\ Calling(p) /\ cur[p] \in Script
  BY DriverLeaves
<1>2. pc[p] \in {"baseline", "execute", "closing"}
  BY <1>1 DEF Calling, Called
<1>3. IF incall'[p] THEN TRUE ELSE Off(cpu[p])'
  BY <1>1, ResetStep DEF Quiet
<1>4. mem'[p]["read"] = mem[p]["read"]
  BY <1>1, IoctlEffect DEF IInv, Script
<1>5. \A k : Reading(p, k)' = Reading(p, k)
  BY <1>4 DEF Reading
<1>6. ~ Counting(p)' /\ ~ Starting(p)' /\ ~ Stopping(p)' /\ (Still(p)' => ~ incall'[p])
  BY <1>1, <1>2 DEF Counting, Starting, Stopping, Still, Measuring
<1>7. ~ incall'[p] => \A k \in D!Counter : msr'[cpu'[p]][k] = 0
  BY <1>3 DEF Off
<1>8. Control(p)'
  BY <1>3, <1>6 DEF Control, Off
<1>9. Bounds(p)'
  <2>1. Bounds(p)
    BY <1>1 DEF Measured
  <2>2. ASSUME Still(p)', NEW k \in D!Counter PROVE Counted(p, msr[cpu[p]][k], k)'
    <3>1. pc[p] \in {"baseline", "execute"}
      BY <1>1, <1>2, <1>6, <2>2 DEF Still
    <3>2. inner'[p] = 0 /\ outer'[p] = 0
      BY <1>1, <2>1, <3>1 DEF Bounds
    <3>3. msr'[cpu'[p]][k] = 0
      BY <1>6, <1>7, <2>2
    <3> QED
      BY <3>2, <3>3 DEF Counted
  <2> QED
    BY <1>1, <1>6, <2>1, <2>2 DEF Bounds
<1>10. Shown(p)'
  <2>1. Shown(p)
    BY <1>1 DEF Measured
  <2>2. ASSUME ~ incall'[p], pc'[p] \in {"baseline", "baseStopped", "stopped", "average"},
               NEW k \in D!Counter
        PROVE  Reading(p, k)' = msr'[cpu'[p]][k]
    <3>1. Reading(p, k) = 0
      BY <1>1, <1>2, <2>1, <2>2 DEF Shown
    <3> QED
      BY <1>5, <1>7, <2>2, <3>1
  <2> QED
    BY <1>1, <1>2, <1>5, <1>6, <2>1, <2>2 DEF Shown
<1>11. Mean(p)'
  BY <1>1 DEF Measured, Mean
<1>12. Bracketed(p)'
  BY <1>1 DEF Measured, Bracketed
<1> QED
  BY <1>8, <1>9, <1>10, <1>11, <1>12 DEF Measured

\* A write leaves every other register alone.
LEMMA OtherRegister ==
  ASSUME NEW m \in [Cpu -> [D!Reg -> Nat]], NEW c \in Cpu, NEW e, NEW v,
         NEW r \in D!Reg, r # e
  PROVE  [m EXCEPT ![c][e] = v][c][r] = m[c][r]
OBVIOUS

\* The counters stand still until the last command of pmc_cfg enables them.
LEMMA CfgMeasured ==
  ASSUME RInv, NEW p \in Client, DriverStep(p), cur[p] = "cfg"
  PROVE  Measured(p)'
<1> DEFINE a == args[p]
           w == Writes(a)
           s == CfgScript(a)
           c == cpu[p]
<1>1. /\ UNCHANGED <<pc, args, fixed, rows, window, inner, outer, base, cpu, cur, tsc>>
      /\ D!IoctlStep(p) /\ incall[p] /\ IInv /\ DriverTypes /\ Measured(p)
      /\ Calling(p) /\ idx[p] \in Nat /\ a \in Args /\ c \in Cpu
  BY DriverLeaves DEF DriverTypes
<1>2. pc[p] \in {"baseStarted", "started"} /\ Starting(p)
  BY <1>1 DEF Calling, Called, Starting
<1>3. /\ idx[p] <= w /\ mem' = mem
      /\ idx[p] < w => /\ incall' = incall /\ idx'[p] = idx[p] + 1
                       /\ msr' = [msr EXCEPT ![c][s[idx[p] + 1].ecx] = s[idx[p] + 1].value]
      /\ ~ (idx[p] < w) => ~ incall'[p] /\ msr' = msr
  BY <1>1, CfgStep
<1>4. /\ w \in Nat
      /\ \A j \in 1 .. w : s[j].ecx \in D!Reg \ D!Counter /\ (s[j].ecx = GlobalCtrl <=> j = w)
      /\ \A j, k \in 1 .. w : s[j].ecx = s[k].ecx => j = k
  BY <1>1, CfgWrites
<1>5. Written(p, idx[p]) /\ (Still(p) => msr[c][GlobalCtrl] = 0)
  BY <1>1, <1>2 DEF Measured, Control
<1> HIDE DEF w, s
<1>6. Counting(p) \/ Still(p)
  BY <1>1, <1>2, Phases DEF Measured
<1>7. ASSUME NEW k \in D!Counter PROVE msr'[c][k] = msr[c][k]
  <2>1. CASE idx[p] < w
    <3>1. idx[p] + 1 \in 1 .. w
      BY <1>1, <1>4, <2>1
    <3>2. s[idx[p] + 1].ecx # k /\ k \in D!Reg
      BY <1>4, <3>1, Commands
    <3> QED
      BY <1>1, <1>3, <2>1, <3>2, OtherRegister DEF DriverTypes
  <2> QED
    BY <1>3, <2>1
<1>8. Bounds(p)'
  <2>1. Bounds(p)
    BY <1>1 DEF Measured
  <2>2. ASSUME NEW k \in D!Counter PROVE Counted(p, msr[cpu[p]][k], k)'
    <3>1. Counted(p, msr[c][k], k)
      BY <1>6, <2>1 DEF Bounds
    <3> QED
      BY <1>1, <1>7, <3>1 DEF Counted
  <2> QED
    BY <1>1, <1>2, <2>1, <2>2 DEF Bounds
<1>9. Shown(p)'
  BY <1>1, <1>2 DEF Shown, Stopping
<1>10. Mean(p)'
  BY <1>1 DEF Measured, Mean
<1>11. Bracketed(p)'
  BY <1>1 DEF Measured, Bracketed
<1>12. Control(p)'
  <2>1. CASE idx[p] < w
    <3>1. idx[p] + 1 \in 1 .. w /\ s[idx[p] + 1].ecx \in D!Reg
      BY <1>1, <1>4, <2>1
    <3>2. ASSUME NEW j \in 1 .. idx[p] + 1 PROVE msr'[c][s[j].ecx] = s[j].value
      <4>1. j \in 1 .. w
        BY <1>1, <1>4, <2>1
      <4>2. CASE j = idx[p] + 1
        BY <1>1, <1>3, <2>1, <3>1, <4>2 DEF DriverTypes
      <4>3. CASE j # idx[p] + 1
        <5>1. j \in 1 .. idx[p] /\ s[j].ecx # s[idx[p] + 1].ecx
          BY <1>1, <1>4, <3>1, <4>1, <4>3
        <5>2. msr[c][s[j].ecx] = s[j].value
          BY <1>5, <5>1 DEF Written, s
        <5> QED
          BY <1>1, <1>3, <1>4, <2>1, <4>1, <5>1, <5>2, OtherRegister DEF DriverTypes
      <4> QED
        BY <4>2, <4>3
    <3>3. idx'[p] = idx[p] + 1 /\ incall'[p] /\ Starting(p)' /\ idx'[p] <= w
      BY <1>1, <1>2, <1>3, <1>4, <2>1 DEF Starting
    <3>4. Written(p, idx[p])'
      BY <1>1, <3>2, <3>3 DEF Written, s
    <3>5. Counting(p)' => idx'[p] = w
      BY <1>1, <1>2, <3>3 DEF Counting, Starting, Stopping, Measuring, w
    <3>6. Still(p)' => idx'[p] < w
      BY <1>1, <1>2, <3>3 DEF Still, Starting, Stopping, w
    <3>7. idx'[p] < w => msr'[c][GlobalCtrl] = 0
      <4> SUFFICES ASSUME idx'[p] < w PROVE msr'[c][GlobalCtrl] = 0
        OBVIOUS
      <4>1. s[idx[p] + 1].ecx # GlobalCtrl
        BY <1>1, <1>4, <3>1, <3>3
      <4>2. Still(p)
        BY <1>2, <2>1 DEF Still, w
      <4> QED
        BY <1>1, <1>3, <1>5, <2>1, <4>1, <4>2, Commands, OtherRegister DEF DriverTypes
    <3>8. Counting(p)' => Written(p, Writes(args[p]))'
      BY <1>1, <3>2, <3>3, <3>5 DEF Written, s, w
    <3>9. Starting(p)' => (idx[p] <= Writes(args[p]))'
      BY <1>1, <3>3 DEF w
    <3> QED
      BY <1>1, <3>4, <3>6, <3>7, <3>8, <3>9 DEF Control
  <2>2. CASE ~ (idx[p] < w)
    <3>1. idx[p] = w
      BY <1>1, <1>3, <1>4, <2>2
    <3>2. ~ Starting(p)' /\ ~ Still(p)'
      BY <1>1, <1>2, <1>3, <2>2 DEF Starting, Still, Stopping
    <3>3. Written(p, Writes(args[p]))'
      BY <1>1, <1>3, <1>5, <2>2, <3>1 DEF Written, w
    <3> QED
      BY <3>2, <3>3 DEF Control
  <2> QED
    BY <2>1, <2>2
<1> QED
  BY <1>8, <1>9, <1>10, <1>11, <1>12 DEF Measured

\* Each counter is read between the first and the last command of pmc_read.
LEMMA ReadPlace ==
  ASSUME NEW k \in D!Counter
  PROVE  ReadIndex(k) \in 2 .. Commanded /\ ReadScript[ReadIndex(k)].ecx = k
<1>1. ReadIndex(k) \in 1 .. Commanded + 1 /\ ReadScript[ReadIndex(k)] = msr_rd(k)
  BY ReadAt, ReadCommands
<1>2. msr_rd(k).op = "READ" /\ msr_rd(k).ecx = k
  BY DEF msr_rd, Command
<1>3. ReadIndex(k) # 1 /\ ReadIndex(k) # Commanded + 1
  BY <1>1, <1>2, ReadCommands
<1>4. ReadIndex(k) \in 2 .. Commanded
  BY <1>1, <1>3, ReadCommands
<1> QED
  BY <1>1, <1>2, <1>4

\* They stand still from the first command of pmc_read on, while it reads them.
LEMMA ReadMeasured ==
  ASSUME RInv, NEW p \in Client, DriverStep(p), cur[p] = "read"
  PROVE  Measured(p)'
<1> DEFINE c == cpu[p]
<1>1. /\ UNCHANGED <<pc, args, fixed, rows, window, inner, outer, base, cpu, cur, tsc>>
      /\ D!IoctlStep(p) /\ incall[p] /\ IInv /\ DriverTypes /\ Measured(p)
      /\ Calling(p) /\ idx[p] \in Nat /\ c \in Cpu
  BY DriverLeaves DEF DriverTypes
<1>2. pc[p] \in {"baseStopped", "stopped"} /\ Stopping(p)
  BY <1>1 DEF Calling, Called, Stopping
<1>3. /\ Commanded \in Nat /\ idx[p] \in 0 .. Commanded
      /\ idx[p] = 0 => /\ incall' = incall /\ idx'[p] = 1 /\ mem' = mem
                       /\ msr' = [msr EXCEPT ![c][GlobalCtrl] = 0]
      /\ idx[p] \in 1 .. Commanded - 1 =>
           /\ incall' = incall /\ idx'[p] = idx[p] + 1 /\ msr' = msr
           /\ mem' = [mem EXCEPT ![p]["read"][idx[p] + 1].value =
                        msr[c][ReadScript[idx[p] + 1].ecx]]
      /\ idx[p] = Commanded => ~ incall'[p] /\ msr' = msr /\ mem' = mem
  <2>1. Commanded \in Nat /\ Commanded >= 1
    BY ReadCommands
  <2>2. idx[p] = 0 => idx[p] # Commanded /\ idx[p] \notin 1 .. Commanded - 1
    BY <2>1
  <2>3. idx[p] = Commanded => idx[p] # 0 /\ idx[p] \notin 1 .. Commanded - 1
    BY <2>1
  <2>4. idx[p] \in 1 .. Commanded - 1 => idx[p] # 0 /\ idx[p] # Commanded
    BY <2>1
  <2> QED
    BY <1>1, <2>1, <2>2, <2>3, <2>4, ReadStep
<1>4. idx[p] = 0 \/ idx[p] \in 1 .. Commanded - 1 \/ idx[p] = Commanded
  BY <1>3
<1>5. GlobalCtrl \in D!Reg \ D!Counter
  BY Commands DEF D!Counter, GlobalCtrl, D!Pmc, D!Ffc
<1>6. Counting(p) \/ Still(p)
  BY <1>1, <1>2, Phases DEF Measured
<1>7. \A k \in D!Counter : msr'[c][k] = msr[c][k]
  BY <1>1, <1>3, <1>4, <1>5, Commands DEF DriverTypes
<1>8. msr'[c][GlobalCtrl] = 0
  <2>1. CASE idx[p] = 0
    BY <1>1, <1>3, <1>5, <2>1 DEF DriverTypes
  <2>2. CASE idx[p] # 0
    <3>1. Still(p)
      BY <1>1, <1>2, <2>2 DEF Still
    <3>2. msr' = msr
      BY <1>3, <1>4, <2>2
    <3> QED
      BY <1>1, <3>1, <3>2 DEF Measured, Control
  <2> QED
    BY <2>1, <2>2
<1>9. ~ Counting(p)' /\ ~ Starting(p)'
  <2>1. idx[p] # Commanded => idx'[p] # 0
    BY <1>1, <1>3, <1>4
  <2>2. idx[p] = Commanded => ~ incall'[p]
    BY <1>3
  <2> QED
    BY <1>1, <1>2, <2>1, <2>2 DEF Counting, Measuring, Starting, Stopping
<1>10. Control(p)'
  BY <1>1, <1>8, <1>9 DEF Control
<1>11. Bounds(p)'
  <2>1. Bounds(p)
    BY <1>1 DEF Measured
  <2>2. ASSUME NEW k \in D!Counter PROVE Counted(p, msr[cpu[p]][k], k)'
    <3>1. Counted(p, msr[c][k], k)
      BY <1>6, <2>1 DEF Bounds
    <3> QED
      BY <1>1, <1>7, <3>1 DEF Counted
  <2> QED
    BY <1>1, <1>2, <2>1, <2>2 DEF Bounds
<1>12. Mean(p)'
  BY <1>1 DEF Measured, Mean
<1>13. Bracketed(p)'
  BY <1>1 DEF Measured, Bracketed
<1>14. \A j \in 2 .. idx[p] : mem[p]["read"][j].value = msr[c][ReadScript[j].ecx]
  BY <1>1, <1>2 DEF Measured, Shown
<1>15. \A j \in 2 .. Commanded : ReadScript[j].ecx \in D!Counter
  BY ReadCommands
<1>16. CASE idx[p] = 0
  <2>1. incall'[p] /\ idx'[p] = 1 /\ \A j \in 2 .. 1 : FALSE
    BY <1>1, <1>3, <1>16
  <2> QED
    BY <1>1, <1>2, <1>10, <1>11, <1>12, <1>13, <2>1 DEF Measured, Shown
<1>17. CASE idx[p] \in 1 .. Commanded - 1
  <2> DEFINE n == idx[p] + 1
  <2>1. n \in 2 .. Commanded /\ incall'[p] /\ idx'[p] = n
    BY <1>1, <1>3, <1>17
  <2>2. mem' = [mem EXCEPT ![p]["read"][n].value = msr[c][ReadScript[n].ecx]]
    BY <1>3, <1>17
  <2>3. /\ mem[p]["read"] \in Seq(D!Cmd) /\ Len(mem[p]["read"]) = Commanded + 1
    <3>1. "read" \in Script /\ given[p]["read"] = ReadScript
      BY <1>1, <1>2 DEF Script, IInv, Local, Scripts
    <3> QED
      BY <1>1, <3>1, ReadCommands, DriverFacts DEF IInv, DriverTypes
  <2>4. n \in DOMAIN mem[p]["read"] /\ mem[p]["read"][n] \in D!Cmd
    BY <1>3, <2>1, <2>3
  <2> HIDE DEF n
  <2>5. mem'[p]["read"] = [mem[p]["read"] EXCEPT ![n].value = msr[c][ReadScript[n].ecx]]
    BY <1>1, <2>2 DEF DriverTypes, Script
  <2>6. /\ mem'[p]["read"][n].value = msr[c][ReadScript[n].ecx]
        /\ \A j \in 1 .. Commanded + 1 : j # n => mem'[p]["read"][j] = mem[p]["read"][j]
    BY <1>3, <2>3, <2>4, <2>5 DEF D!Cmd
  <2>7. ASSUME NEW j \in 2 .. n PROVE mem'[p]["read"][j].value = msr'[c][ReadScript[j].ecx]
    <3>1. j \in 2 .. Commanded /\ j \in 1 .. Commanded + 1
      BY <1>3, <2>1
    <3>2. msr'[c][ReadScript[j].ecx] = msr[c][ReadScript[j].ecx]
      BY <1>7, <1>15, <3>1
    <3>3. CASE j = n
      BY <2>6, <3>2, <3>3
    <3>4. CASE j # n
      <4>1. j \in 2 .. idx[p]
        BY <1>1, <2>1, <3>4 DEF n
      <4> QED
        BY <1>14, <2>6, <3>1, <3>2, <3>4, <4>1
    <3> QED
      BY <3>3, <3>4
  <2>8. Shown(p)'
    BY <1>1, <1>2, <2>1, <2>7 DEF Shown
  <2> QED
    BY <1>10, <1>11, <1>12, <1>13, <2>8 DEF Measured
<1>18. CASE idx[p] = Commanded
  <2>1. ASSUME NEW k \in D!Counter PROVE Reading(p, k)' = msr'[c][k]
    <3>1. mem[p]["read"][ReadIndex(k)].value = msr[c][k]
      BY <1>14, <1>18, ReadPlace
    <3> QED
      BY <1>3, <1>7, <1>18, <3>1 DEF Reading
  <2>2. Shown(p)'
    BY <1>1, <1>2, <1>3, <1>18, <2>1 DEF Shown, Stopping
  <2> QED
    BY <1>10, <1>11, <1>12, <1>13, <2>2 DEF Measured
<1> QED
  BY <1>4, <1>16, <1>17, <1>18

-----------------------------------------------------------------------------
(***************************************************************************)
(* The library itself.  In these places nothing of p is being measured.    *)
(***************************************************************************)
LEMMA Outside ==
  ASSUME NEW p \in Client, Bounds(p), UNCHANGED <<inner, outer, base, tsc>>,
         pc'[p] \in {"idle", "checkName", "dlsym", "dead", "test", "unstopped", "closing"}
  PROVE  Control(p)' /\ Bounds(p)' /\ Shown(p)'
<1>1. ~ Counting(p)' /\ ~ Still(p)' /\ ~ Starting(p)' /\ ~ Stopping(p)'
  BY DEF Counting, Still, Starting, Stopping, Measuring
<1> QED
  BY <1>1 DEF Control, Bounds, Shown

\* Steps that leave the measurement, or do not touch it.
LEMMA Silence ==
  ASSUME RInv, NEW p \in Client,
         \/ BadLibName(p) \/ DlopenFails(p) \/ Dlopen(p) \/ DlsymFails(p) \/ MallocFails(p)
         \/ OpenFails(p) \/ DivideByZero(p) \/ ReturnsUnstopped(p) \/ FinalReset(p)
         \/ Release(p)
  PROVE  Measured(p)'
<1>1. DOMAIN pc = Client /\ Measured(p) /\ IInv
  BY DEF RInv, QInv, IInv, Types, TypeOK
<1>2. /\ pc'[p] \in {"idle", "dlsym", "dead", "unstopped", "closing"}
      /\ pc'[p] \in InTests => pc[p] \in InTests
  BY <1>1 DEF InTests, BadLibName, DlopenFails, Dlopen, DlsymFails,
     MallocFails, OpenFails, DivideByZero, ReturnsUnstopped, FinalReset, Release, Return, Goto,
     Ioctl
<1>3. UNCHANGED <<args, fixed, rows, inner, outer, base, window>>
  BY DEF BadLibName, DlopenFails, Dlopen, DlsymFails, MallocFails, OpenFails, DivideByZero,
     ReturnsUnstopped, FinalReset, Release, history
<1>4. tsc' = tsc
  <2>1. Acts(p)
    BY DEF Acts, LibStep
  <2> QED
    BY <1>1, <2>1, LibMoves
<1>5. Control(p)' /\ Bounds(p)' /\ Shown(p)'
  BY <1>1, <1>2, <1>3, <1>4, Outside DEF Measured
<1>6. Mean(p)' /\ Bracketed(p)'
  BY <1>1, <1>2, <1>3 DEF Measured, Mean, Bracketed
<1> QED
  BY <1>5, <1>6 DEF Measured

\* What holds of every step of the library.
LEMMA LibFacts ==
  ASSUME RInv, NEW p \in Client, Acts(p)
  PROVE  /\ IInv /\ DriverTypes /\ Measured(p) /\ Local(p) /\ DOMAIN pc = Client
         /\ UNCHANGED <<msr, cpu, tsc>>
         /\ inner \in [Client -> Int] /\ outer \in [Client -> Int]
         /\ args \in [Client -> Args] /\ i \in [Client -> Nat]
         /\ rows[p] \in Seq([D!Counter -> Int])
<1>1. IInv /\ Measured(p)
  BY DEF RInv, QInv
<1>2. DP!Inv /\ Types /\ Local(p)
  BY <1>1 DEF IInv
<1>3. DriverTypes
  BY <1>2, DriverFacts
<1>4. UNCHANGED <<msr, cpu, tsc>>
  BY <1>1, LibMoves
<1>5. /\ DOMAIN pc = Client /\ args \in [Client -> Args] /\ i \in [Client -> Nat]
      /\ inner \in [Client -> Int] /\ outer \in [Client -> Int]
      /\ rows[p] \in Seq([D!Counter -> Int])
  BY <1>2 DEF Types, TypeOK
<1> QED
  BY <1>1, <1>2, <1>3, <1>4, <1>5

\* A new call of runtest begins with an empty table.
LEMMA RuntestMeasured ==
  ASSUME RInv, NEW p \in Client, NEW a \in Args, Runtest(p, a)
  PROVE  Measured(p)'
<1>1. Acts(p)
  BY DEF Acts
<1>2. /\ DOMAIN pc = Client /\ Measured(p) /\ tsc' = tsc
      /\ rows' = [rows EXCEPT ![p] = <<>>] /\ rows \in [Client -> Seq([D!Counter -> Int])]
  BY <1>1, LibFacts DEF Runtest, IInv, Types
<1>3. pc'[p] = "checkName" /\ rows'[p] = <<>> /\ UNCHANGED <<inner, outer, base>>
  BY <1>2 DEF Runtest, Goto
<1>4. Control(p)' /\ Bounds(p)' /\ Shown(p)'
  BY <1>2, <1>3, Outside DEF Measured
<1>5. Mean(p)' /\ Bracketed(p)'
  BY <1>3 DEF Mean, Bracketed, InTests
<1> QED
  BY <1>4, <1>5 DEF Measured

\* pmc_read is recorded, and shows zeros until the first stop.
LEMMA PrepareMeasured ==
  ASSUME RInv, NEW p \in Client, Prepare(p) \/ LoadDriver(p)
  PROVE  Measured(p)'
<1>1. Acts(p)
  BY DEF Acts, LibStep
<1>2. /\ IInv /\ DriverTypes /\ Measured(p) /\ Local(p) /\ DOMAIN pc = Client
      /\ UNCHANGED <<msr, cpu, tsc>>
  BY <1>1, LibFacts
<1>3. /\ pc'[p] \in {"open", "zeroFixed"}
      /\ UNCHANGED <<inner, outer, base, fixed, rows, args, window, incall>>
  BY <1>2 DEF Prepare, LoadDriver, Goto, D!Open, D!call, history
<1>4. Control(p)' /\ Bounds(p)'
  <2>1. ~ Counting(p)' /\ ~ Still(p)' /\ ~ Starting(p)' /\ ~ Stopping(p)'
    BY <1>3 DEF Counting, Still, Starting, Stopping, Measuring
  <2> QED
    BY <1>2, <1>3, <2>1 DEF Measured, Control, Bounds
<1>5. ASSUME NEW k \in D!Counter PROVE Reading(p, k)' = 0
  <2>1. CASE Prepare(p)
    <3>1. mem'[p]["read"] = ReadScript
      BY <1>2, <2>1 DEF Prepare, DriverTypes, Script
    <3> QED
      BY <3>1, ReadingZero
  <2>2. CASE LoadDriver(p)
    <3>1. pc[p] = "open" /\ mem' = mem
      BY <2>2 DEF LoadDriver, Goto, D!Open, D!memory
    <3>2. Reading(p, k) = 0
      BY <1>2, <3>1 DEF Measured, Shown
    <3> QED
      BY <3>1, <3>2 DEF Reading
  <2> QED
    BY <2>1, <2>2
<1>6. Shown(p)'
  BY <1>3, <1>5 DEF Shown, Stopping
<1>7. Mean(p)' /\ Bracketed(p)'
  BY <1>2, <1>3 DEF Measured, Mean, Bracketed, InTests
<1> QED
  BY <1>4, <1>6, <1>7 DEF Measured

\* The calls of reset forget what was measured before.
LEMMA ResetsMeasured ==
  ASSUME RInv, NEW p \in Client, ResetForBaseline(p) \/ ResetForTest(p)
  PROVE  Measured(p)'
<1>1. Acts(p)
  BY DEF Acts, LibStep
<1>2. /\ IInv /\ DriverTypes /\ Measured(p) /\ Local(p) /\ DOMAIN pc = Client
      /\ UNCHANGED <<msr, cpu, tsc>>
      /\ inner \in [Client -> Int] /\ outer \in [Client -> Int] /\ tsc \in Nat
  BY <1>1, LibFacts DEF DriverTypes
<1>3. /\ pc[p] \in {"zeroFixed", "test"}
      /\ pc'[p] = IF pc[p] = "zeroFixed" THEN "baseline" ELSE "execute"
      /\ incall'[p] /\ mem' = mem /\ inner'[p] = 0 /\ outer'[p] = 0
      /\ UNCHANGED <<base, rows, args, window>> /\ (pc[p] = "test" => fixed' = fixed)
  BY <1>2 DEF ResetForBaseline, ResetForTest, Ioctl, Goto, D!IoctlEnter, D!memory, DriverTypes
<1>4. ~ Counting(p)' /\ ~ Still(p)' /\ ~ Starting(p)' /\ ~ Stopping(p)'
  BY <1>3 DEF Counting, Still, Starting, Stopping, Measuring
<1>5. Control(p)' /\ Bounds(p)'
  BY <1>2, <1>3, <1>4 DEF Measured, Control, Bounds
<1>6. Shown(p)'
  <2>1. \A k : Reading(p, k)' = Reading(p, k)
    BY <1>3 DEF Reading
  <2> QED
    BY <1>2, <1>3, <1>4, <2>1 DEF Measured, Shown
<1>7. Mean(p)'
  BY <1>2, <1>3 DEF Measured, Mean, InTests
<1>8. Bracketed(p)'
  BY <1>2, <1>3 DEF Measured, Bracketed
<1> QED
  BY <1>5, <1>6, <1>7, <1>8 DEF Measured

\* start_baseline and start_counters are called.
LEMMA StartMeasured ==
  ASSUME RInv, NEW p \in Client, BaselineStart(p) \/ StartCounters(p)
  PROVE  Measured(p)'
<1>1. Acts(p)
  BY DEF Acts, LibStep
<1>2. /\ IInv /\ DriverTypes /\ Measured(p) /\ DOMAIN pc = Client
      /\ UNCHANGED <<msr, cpu, tsc>> /\ args[p] \in Args
  BY <1>1, LibFacts
<1>3. /\ pc[p] \in {"baseline", "execute"} /\ ~ incall[p]
      /\ pc'[p] = IF pc[p] = "baseline" THEN "baseStarted" ELSE "started"
      /\ incall'[p] /\ idx'[p] = 0
      /\ UNCHANGED <<inner, outer, base, rows, args, window, fixed>>
  BY <1>2 DEF BaselineStart, StartCounters, Ioctl, Goto, D!IoctlEnter, DriverTypes, history
<1>4. Still(p) /\ Starting(p)' /\ ~ Stopping(p)'
  BY <1>3 DEF Still, Starting, Stopping
<1>5. Writes(args'[p]) \in Nat /\ Writes(args'[p]) >= 2
  BY <1>2, <1>3, CfgWrites
<1>6. ~ Counting(p)'
  BY <1>3, <1>4, <1>5 DEF Counting, Measuring
<1>7. Control(p)'
  <2>1. \A j \in 1 .. 0 : FALSE
    OBVIOUS
  <2> QED
    BY <1>2, <1>3, <1>4, <1>5, <1>6, <2>1 DEF Measured, Control, Written
<1>8. Bounds(p)'
  <2>1. Bounds(p) /\ \A k \in D!Counter : Counted(p, msr[cpu[p]][k], k)
    BY <1>2, <1>4 DEF Measured, Bounds
  <2>2. \A k \in D!Counter : Counted(p, msr[cpu[p]][k], k)'
    BY <1>2, <1>3, <2>1 DEF Counted
  <2> QED
    BY <1>2, <1>3, <2>1, <2>2 DEF Bounds
<1>9. Shown(p)'
  BY <1>3, <1>4 DEF Shown
<1>10. Mean(p)' /\ Bracketed(p)'
  BY <1>2, <1>3 DEF Measured, Mean, Bracketed, InTests
<1> QED
  BY <1>7, <1>8, <1>9, <1>10 DEF Measured

\* stop_baseline and stop_counters are called.
LEMMA StopMeasured ==
  ASSUME RInv, NEW p \in Client, BaselineStop(p) \/ StopCounters(p)
  PROVE  Measured(p)'
<1>1. Acts(p)
  BY DEF Acts, LibStep
<1>2. /\ IInv /\ DriverTypes /\ Measured(p) /\ DOMAIN pc = Client
      /\ UNCHANGED <<msr, cpu, tsc>>
  BY <1>1, LibFacts
<1>3. /\ pc[p] \in {"baseStarted", "started"} /\ ~ incall[p]
      /\ pc'[p] = IF pc[p] = "baseStarted" THEN "baseStopped" ELSE "stopped"
      /\ incall'[p] /\ idx'[p] = 0
      /\ UNCHANGED <<inner, outer, base, rows, args, window, fixed>>
  BY <1>2 DEF BaselineStop, StopCounters, Ioctl, Goto, D!IoctlEnter, DriverTypes, history
<1>4. Counting(p) /\ Counting(p)' /\ ~ Still(p)' /\ ~ Starting(p)'
  BY <1>3 DEF Counting, Measuring, Still, Starting, Stopping
<1>5. Control(p)'
  BY <1>2, <1>3, <1>4 DEF Measured, Control, Written
<1>6. Bounds(p)'
  <2>1. Bounds(p) /\ \A k \in D!Counter : Counted(p, msr[cpu[p]][k], k)
    BY <1>2, <1>4 DEF Measured, Bounds
  <2>2. \A k \in D!Counter : Counted(p, msr[cpu[p]][k], k)'
    BY <1>2, <1>3, <2>1 DEF Counted
  <2> QED
    BY <1>2, <1>3, <2>1, <2>2 DEF Bounds
<1>7. Shown(p)'
  <2>1. \A j \in 2 .. 0 : FALSE
    OBVIOUS
  <2> QED
    BY <1>3, <2>1 DEF Shown
<1>8. Mean(p)' /\ Bracketed(p)'
  BY <1>2, <1>3 DEF Measured, Mean, Bracketed, InTests
<1> QED
  BY <1>5, <1>6, <1>7, <1>8 DEF Measured

\* The loop of the baseline: the readings of its iterations add up.
LEMMA BaselineMeasured ==
  ASSUME RInv, NEW p \in Client, BaselineNext(p) \/ BaselineEnd(p)
  PROVE  Measured(p)'
<1>1. Acts(p)
  BY DEF Acts, LibStep
<1>2. /\ IInv /\ Measured(p) /\ Local(p) /\ DOMAIN pc = Client
      /\ UNCHANGED <<msr, cpu, tsc>> /\ base \in [Client -> Int \X Int]
  BY <1>1, LibFacts DEF RInv
<1>3. /\ ~ incall[p] /\ pc[p] = IF BaselineNext(p) THEN "baseStopped" ELSE "baseline"
      /\ pc'[p] = IF BaselineNext(p) THEN "baseline" ELSE "average"
      /\ UNCHANGED <<incall, inner, outer, rows, args, window, mem>>
      /\ base'[p] = IF BaselineNext(p) THEN base[p] ELSE <<inner[p], outer[p]>>
  BY <1>2 DEF BaselineNext, BaselineEnd, Returned, Goto, driverVars, history
<1>4. /\ Still(p) /\ Still(p)' /\ ~ Counting(p)' /\ ~ Starting(p)' /\ ~ Stopping(p)'
  BY <1>3 DEF Still, Counting, Measuring, Starting, Stopping
<1>5. Control(p)'
  BY <1>2, <1>3, <1>4 DEF Measured, Control
<1>6. Bounds(p)'
  <2>1. Bounds(p) /\ \A k \in D!Counter : Counted(p, msr[cpu[p]][k], k)
    BY <1>2, <1>4 DEF Measured, Bounds
  <2>2. \A k \in D!Counter : Counted(p, msr[cpu[p]][k], k)'
    BY <1>2, <1>3, <2>1 DEF Counted
  <2>3. base'[p] \in Nat \X Nat
    BY <1>3, <2>1 DEF Bounds
  <2> QED
    BY <1>2, <1>3, <2>1, <2>2, <2>3 DEF Bounds
<1>7. Shown(p)'
  <2>1. \A k : Reading(p, k)' = Reading(p, k)
    BY <1>3 DEF Reading
  <2> QED
    BY <1>2, <1>3, <1>4, <2>1 DEF Measured, Shown
<1>8. Mean(p)'
  BY <1>3 DEF Mean, InTests
<1>9. rows'[p] = <<>>
  BY <1>2, <1>3 DEF Local, Recording, InTests
<1>10. Bracketed(p)'
  BY <1>9 DEF Bracketed
<1> QED
  BY <1>5, <1>6, <1>7, <1>8, <1>10 DEF Measured

\* Division keeps an order.
LEMMA Quotients ==
  ASSUME NEW a \in Nat, NEW b \in Nat, a <= b, NEW n \in Nat \ {0}
  PROVE  a \div n \in Nat /\ b \div n \in Nat /\ a \div n <= b \div n /\ 0 \div n = 0
<1> DEFINE x == a \div n
           y == b \div n
<1>1. /\ x \in Nat /\ n * x <= a
      /\ y \in Nat /\ b < n * y + n
  OBVIOUS
<1>2. 0 \div n = 0
  OBVIOUS
<1> HIDE DEF x, y
<1>3. ~ (y < x)
  <2> SUFFICES ASSUME y + 1 <= x PROVE FALSE
    BY <1>1
  <2>1. n * (y + 1) <= n * x /\ n * (y + 1) = n * y + n
    BY <1>1
  <2> QED
    BY <1>1, <2>1
<1> QED
  BY <1>1, <1>2, <1>3 DEF x, y

\* The mean cost lies between the means of the two histories.
LEMMA AverageMeasured ==
  ASSUME RInv, NEW p \in Client, Average(p)
  PROVE  Measured(p)'
<1> DEFINE count == args[p].count
<1>1. Acts(p)
  BY DEF Acts, LibStep
<1>2. /\ IInv /\ Measured(p) /\ Local(p) /\ DOMAIN pc = Client
      /\ UNCHANGED <<msr, cpu, tsc>> /\ args[p] \in Args
  BY <1>1, LibFacts
<1>3. /\ pc[p] = "average" /\ pc'[p] = "test" /\ count # 0 /\ ~ incall[p]
      /\ UNCHANGED <<inner, outer, base, rows, args, window>>
  BY <1>2 DEF Average, Goto, D!Build, history
<1>4. count \in Nat \ {0}
  BY <1>2, <1>3, LibAssumption DEF Args
<1>5. \A k \in D!Counter : fixed'[p][k] = Reading(p, k) \div count
  BY <1>2 DEF Average, IInv, Types, TypeOK
<1>6. Bounds(p) /\ Still(p)
  BY <1>2, <1>3 DEF Measured, Still
<1>7. Control(p)' /\ Bounds(p)' /\ Shown(p)'
  BY <1>2, <1>3, <1>6, Outside
<1>8. /\ inner[p] \in Nat /\ outer[p] \in Nat /\ base[p] = <<inner[p], outer[p]>>
      /\ \A k \in D!Counter : Counted(p, msr[cpu[p]][k], k) /\ Reading(p, k) = msr[cpu[p]][k]
  BY <1>2, <1>3, <1>6 DEF Bounds, Measured, Mean, Shown
<1>9. ASSUME NEW k \in D!Counter
      PROVE  IF k \in Selected(args[p])
             THEN /\ base[p][1] \div count <= fixed'[p][k]
                  /\ fixed'[p][k] <= base[p][2] \div count
             ELSE fixed'[p][k] = 0
  <2>1. Counted(p, Reading(p, k), k)
    BY <1>8
  <2>2. given[p]["read"] = ReadScript
    BY <1>2, <1>3 DEF Local, Scripts
  <2>3. Reading(p, k) \in Nat
    BY <1>2, <2>2, ReadingNat DEF IInv
  <2>4. CASE k \in Selected(args[p])
    <3>1. inner[p] <= Reading(p, k) /\ Reading(p, k) <= outer[p]
      BY <2>1, <2>4 DEF Counted
    <3>2. /\ inner[p] \div count <= Reading(p, k) \div count
          /\ Reading(p, k) \div count <= outer[p] \div count
      BY <1>4, <1>8, <2>3, <3>1, Quotients
    <3>3. base[p][1] = inner[p] /\ base[p][2] = outer[p]
      BY <1>8
    <3> QED
      BY <1>5, <2>4, <3>2, <3>3
  <2>5. CASE k \notin Selected(args[p])
    <3>1. Reading(p, k) = 0
      BY <2>1, <2>5 DEF Counted
    <3>2. 0 \div count = 0
      BY <1>4, <2>3, Quotients
    <3> QED
      BY <1>5, <2>5, <3>1, <3>2
  <2> QED
    BY <2>4, <2>5
<1>10. Mean(p)'
  BY <1>3, <1>9 DEF Mean, InTests
<1>11. rows'[p] = <<>>
  BY <1>2, <1>3 DEF Local, Recording, InTests
<1>12. Bracketed(p)'
  BY <1>11 DEF Bracketed
<1> QED
  BY <1>7, <1>10, <1>12 DEF Measured

\* The new row is a reading less the mean cost.
LEMMA RecordMeasured ==
  ASSUME RInv, NEW p \in Client, RecordResult(p)
  PROVE  Measured(p)'
<1> DEFINE new == [k \in D!Counter |-> Reading(p, k) - fixed[p][k]]
           len == Len(rows[p])
           count == args[p].count
<1>1. Acts(p)
  BY DEF Acts, LibStep
<1>2. /\ IInv /\ Measured(p) /\ Local(p) /\ DOMAIN pc = Client
      /\ UNCHANGED <<msr, cpu, tsc>> /\ args[p] \in Args
      /\ rows[p] \in Seq([D!Counter -> Int])
  BY <1>1, LibFacts
<1>3. PICK from \in {"stopped", "unstopped"} :
        /\ Goto(p, from, "test")
        /\ window' = [window EXCEPT ![p] =
                        Append(@, <<inner[p], outer[p], from = "stopped">>)]
  BY DEF RecordResult
<1>4. /\ pc[p] = from /\ pc'[p] = "test" /\ ~ incall[p]
      /\ UNCHANGED <<inner, outer, base, args, fixed>>
  BY <1>2, <1>3 DEF RecordResult, Returned, Goto
<1>5. Bounds(p) /\ Mean(p) /\ Bracketed(p)
  BY <1>2 DEF Measured
<1>6. Control(p)' /\ Bounds(p)' /\ Shown(p)'
  BY <1>2, <1>4, <1>5, Outside
<1>7. Mean(p)'
  BY <1>4, <1>5 DEF Mean, InTests
<1>8. /\ given[p]["read"] = ReadScript /\ count \in Nat \ {0}
      /\ Len(window[p]) = len /\ window[p] \in Seq(Int \X Int \X BOOLEAN)
      /\ fixed \in [Client -> [D!Counter -> Nat]]
  <2>1. count \in Nat /\ count > 0
    BY <1>2, <1>4, LibAssumption DEF Args, Local, Looping, InTests
  <2>2. window[p] \in Seq(Int \X Int \X BOOLEAN) /\ fixed \in [Client -> [D!Counter -> Nat]]
    BY <1>2 DEF IInv, Types, TypeOK
  <2> QED
    BY <1>2, <1>4, <2>1, <2>2 DEF Local, Scripts, Recording
<1>9. \A k \in D!Counter : Reading(p, k) \in Nat /\ fixed[p][k] \in Nat
  BY <1>2, <1>8, ReadingNat DEF IInv
<1>10. new \in [D!Counter -> Int] /\ \A k \in D!Counter : new[k] = Reading(p, k) - fixed[p][k]
  BY <1>9
<1>11. rows'[p] = Append(rows[p], new)
  BY <1>2 DEF RecordResult, IInv, Types
<1> DEFINE w == <<inner[p], outer[p], from = "stopped">>
<1>12. /\ inner[p] \in Nat /\ outer[p] \in Nat
       /\ base[p][1] \in Nat /\ base[p][2] \in Nat
  BY <1>5 DEF Bounds
<1>13. /\ window'[p] = Append(window[p], w) /\ w[3] = (from = "stopped")
       /\ w[1] = inner[p] /\ w[2] = outer[p] /\ w \in Int \X Int \X BOOLEAN
  BY <1>2, <1>3, <1>12 DEF IInv, Types
<1>14. len \in Nat
  BY <1>2
<1> HIDE DEF new, w
<1>15. /\ Len(rows'[p]) = len + 1 /\ rows'[p][len + 1] = new
       /\ \A n \in 1 .. len : rows'[p][n] = rows[p][n]
  BY <1>2, <1>10, <1>11
<1>16. /\ window'[p][len + 1] = w
       /\ \A n \in 1 .. len : window'[p][n] = window[p][n]
  BY <1>8, <1>13, <1>14
<1>17. ASSUME from = "stopped", NEW k \in D!Counter
       PROVE  IF k \in Selected(args[p])
              THEN /\ new[k] >= w[1] - (base[p][2] \div count)
                   /\ new[k] <= w[2] - (base[p][1] \div count)
              ELSE new[k] = 0
  <2>1. Still(p) /\ Counted(p, msr[cpu[p]][k], k) /\ Reading(p, k) = msr[cpu[p]][k]
    BY <1>2, <1>4, <1>5, <1>17 DEF Still, Bounds, Measured, Shown
  <2>2. Counted(p, Reading(p, k), k)
    BY <2>1
  <2>3. IF k \in Selected(args[p])
        THEN /\ base[p][1] \div count <= fixed[p][k]
             /\ fixed[p][k] <= base[p][2] \div count
        ELSE fixed[p][k] = 0
    BY <1>4, <1>5, <1>17 DEF Mean, InTests
  <2>4. base[p][1] \div count \in Nat /\ base[p][2] \div count \in Nat
    BY <1>8, <1>12, Quotients
  <2>5. CASE k \in Selected(args[p])
    <3>1. inner[p] <= Reading(p, k) /\ Reading(p, k) <= outer[p]
      BY <2>2, <2>5 DEF Counted
    <3> QED
      BY <1>9, <1>10, <1>12, <1>13, <2>3, <2>4, <2>5, <3>1
  <2>6. CASE k \notin Selected(args[p])
    <3>1. Reading(p, k) = 0 /\ fixed[p][k] = 0 /\ 0 - 0 = 0
      BY <2>2, <2>3, <2>6 DEF Counted
    <3> QED
      BY <1>10, <2>6, <3>1
  <2> QED
    BY <2>5, <2>6
<1>18. Bracketed(p)'
  <2> SUFFICES ASSUME NEW n \in 1 .. Len(rows'[p]), NEW k \in D!Counter, window'[p][n][3]
               PROVE  IF k \in Selected(args'[p])
                      THEN /\ rows'[p][n][k] >= window'[p][n][1] - (base'[p][2] \div args'[p].count)
                           /\ rows'[p][n][k] <= window'[p][n][2] - (base'[p][1] \div args'[p].count)
                      ELSE rows'[p][n][k] = 0
    BY DEF Bracketed
  <2>1. CASE n \in 1 .. len
    BY <1>4, <1>5, <1>15, <1>16, <2>1 DEF Bracketed
  <2>2. CASE n = len + 1
    <3>1. from = "stopped" /\ rows'[p][n] = new /\ window'[p][n] = w
      BY <1>13, <1>15, <1>16, <2>2
    <3>2. Selected(args'[p]) = Selected(args[p]) /\ args'[p].count = count /\ base'[p] = base[p]
      BY <1>4
    <3> QED
      BY <1>17, <3>1, <3>2
  <2> QED
    BY <1>14, <1>15, <2>1, <2>2
<1> QED
  BY <1>6, <1>7, <1>18 DEF Measured

-----------------------------------------------------------------------------
\* Every step of the library, and of the driver.
LEMMA LibMeasured == ASSUME RInv, NEW p \in Client, Acts(p) PROVE Measured(p)'
<1>1. CASE \E a \in Args : Runtest(p, a)
  BY <1>1, RuntestMeasured
<1>2. CASE \/ BadLibName(p) \/ DlopenFails(p) \/ Dlopen(p) \/ DlsymFails(p) \/ MallocFails(p)
           \/ OpenFails(p) \/ DivideByZero(p) \/ ReturnsUnstopped(p) \/ FinalReset(p)
           \/ Release(p)
  BY <1>2, Silence
<1>3. CASE Prepare(p) \/ LoadDriver(p)
  BY <1>3, PrepareMeasured
<1>4. CASE ResetForBaseline(p) \/ ResetForTest(p)
  BY <1>4, ResetsMeasured
<1>5. CASE BaselineStart(p) \/ StartCounters(p)
  BY <1>5, StartMeasured
<1>6. CASE BaselineStop(p) \/ StopCounters(p)
  BY <1>6, StopMeasured
<1>7. CASE BaselineNext(p) \/ BaselineEnd(p)
  BY <1>7, BaselineMeasured
<1>8. CASE Average(p)
  BY <1>8, AverageMeasured
<1>9. CASE RecordResult(p)
  BY <1>9, RecordMeasured
<1> QED
  BY <1>1, <1>2, <1>3, <1>4, <1>5, <1>6, <1>7, <1>8, <1>9 DEF Acts, LibStep

LEMMA DriverMeasured == ASSUME RInv, NEW p \in Client, DriverStep(p) PROVE Measured(p)'
<1>1. cur[p] \in {"reset", "cfg", "read"}
  BY DriverLeaves DEF Script
<1> QED
  BY <1>1, ResetMeasured, CfgMeasured, ReadMeasured

\* The history of the other clients is their own, too.
LEMMA OthersHistory ==
  ASSUME RInv, NEW p \in Client, NEW q \in Client \ {p}, Acts(p) \/ DriverStep(p)
  PROVE  /\ inner'[q] = inner[q] /\ outer'[q] = outer[q] /\ base'[q] = base[q]
         /\ tsc' = tsc /\ idx'[q] = idx[q] /\ cpu' = cpu /\ msr'[cpu[q]] = msr[cpu[q]]
<1>1. /\ inner \in [Client -> Int] /\ outer \in [Client -> Int] /\ base \in [Client -> Int \X Int]
      /\ IInv /\ Apart /\ DriverTypes
  BY DriverFacts DEF RInv, QInv, IInv, Types
<1>2. CASE Acts(p)
  <2>1. tsc' = tsc /\ idx'[q] = idx[q] /\ cpu' = cpu /\ msr' = msr
    BY <1>1, <1>2, LibMoves
  <2>2. CASE UNCHANGED history
    BY <1>1, <2>1, <2>2 DEF history
  <2>3. CASE ResetForBaseline(p) \/ ResetForTest(p)
    BY <1>1, <2>1, <2>3 DEF ResetForBaseline, ResetForTest
  <2>4. CASE BaselineEnd(p)
    BY <1>1, <2>1, <2>4 DEF BaselineEnd
  <2>5. CASE RecordResult(p) \/ \E a \in Args : Runtest(p, a)
    BY <1>1, <2>1, <2>5 DEF RecordResult, Runtest
  <2>6. \/ UNCHANGED history \/ ResetForBaseline(p) \/ ResetForTest(p) \/ BaselineEnd(p)
        \/ RecordResult(p) \/ \E a \in Args : Runtest(p, a)
    BY <1>2 DEF Acts, LibStep, BadLibName, DlopenFails, Dlopen, DlsymFails, MallocFails, Prepare,
       OpenFails, LoadDriver, BaselineStart, BaselineStop, BaselineNext, DivideByZero, Average,
       StartCounters, StopCounters, ReturnsUnstopped, FinalReset, Release
  <2> QED
    BY <2>2, <2>3, <2>4, <2>5, <2>6
<1>3. CASE DriverStep(p)
  <2>1. /\ UNCHANGED <<inner, outer, base, cpu, tsc>> /\ D!IoctlStep(p)
    BY <1>3, DriverLeaves
  <2>2. idx'[q] = idx[q]
    BY <1>1, <2>1, IoctlEffect DEF IInv
  <2>3. msr'[cpu[q]] = msr[cpu[q]]
    BY <1>1, <2>1, OwnCpu DEF Apart, DriverTypes
  <2> QED
    BY <1>1, <2>1, <2>2, <2>3
<1> QED
  BY <1>2, <1>3

LEMMA InitRInv == ASSUME ~ Migrates, Init PROVE RInv
<1>1. QInv /\ base \in [Client -> Int \X Int]
  BY InitQInv DEF Init
<1>2. ASSUME NEW p \in Client PROVE Measured(p)
  <2>1. /\ pc[p] = "idle" /\ incall[p] = FALSE /\ inner[p] = 0 /\ outer[p] = 0 /\ tsc = 0
        /\ base[p] = <<0, 0>> /\ rows[p] = <<>>
    BY DEF Init
  <2>2. ~ Counting(p) /\ ~ Still(p) /\ ~ Starting(p) /\ ~ Stopping(p)
    BY <2>1 DEF Counting, Still, Starting, Stopping, Measuring
  <2> QED
    BY <2>1, <2>2 DEF Measured, Control, Bounds, Shown, Mean, Bracketed, InTests
<1> QED
  BY <1>1, <1>2 DEF RInv

LEMMA NextRInv ==
  ASSUME ~ Migrates, MaxTsc < CounterSize, RInv, [Next]_vars PROVE RInv'
<1>1. QInv' /\ IInv /\ tsc \in Nat
  BY NextQInv, DriverFacts DEF RInv, QInv, IInv, DriverTypes
<1> DEFINE Goal == base' \in [Client -> Int \X Int] /\ \A q \in Client : Measured(q)'
<1>2. ASSUME NEW p \in Client, Acts(p) \/ DriverStep(p) PROVE Goal
  <2>1. Measured(p)'
    BY <1>2, LibMeasured, DriverMeasured
  <2>2. ASSUME NEW q \in Client \ {p} PROVE Measured(q)'
    <3>1. Kept(q)
      BY <1>1, <1>2, OthersKept DEF Acts
    <3>2. Same(q) /\ tsc' = tsc
      BY <1>2, <3>1, OthersHistory DEF Same
    <3> QED
      BY <1>1, <3>2, MeasuredKept DEF RInv
  <2>3. base' \in [Client -> Int \X Int]
    <3>1. CASE DriverStep(p)
      BY <3>1, DriverLeaves DEF RInv
    <3>2. CASE BaselineEnd(p)
      BY <3>2 DEF BaselineEnd, RInv, QInv, IInv, Types
    <3>3. base' = base \/ BaselineEnd(p) \/ DriverStep(p)
      BY <1>2 DEF Acts, LibStep, BadLibName, DlopenFails, Dlopen, DlsymFails, MallocFails, Prepare,
         OpenFails, LoadDriver, BaselineStart, BaselineStop, BaselineNext, DivideByZero, Average,
         StartCounters, StopCounters, ReturnsUnstopped, FinalReset, Release, ResetForBaseline,
         ResetForTest, RecordResult, Runtest, history
    <3> QED
      BY <3>1, <3>2, <3>3 DEF RInv
  <2> QED
    BY <2>1, <2>2, <2>3
<1>3. ASSUME NEW c \in Cpu, Tick(c) PROVE Goal
  BY <1>3, TickMeasured DEF Tick, RInv
<1>4. ASSUME NEW p \in Client, NEW c \in Cpu PROVE ~ Migrate(p, c)
  BY DEF Migrate, D!Migrate
<1>5. ASSUME UNCHANGED vars PROVE Goal
  <2>1. ASSUME NEW q \in Client PROVE Same(q) /\ tsc' = tsc /\ base' = base
    BY <1>5 DEF vars, driverVars, libVars, history, Same, Kept
  <2> QED
    BY <1>1, <1>5, <2>1, MeasuredKept DEF RInv, vars, history, driverVars
<1> QED
  BY <1>1, <1>2, <1>3, <1>4, <1>5 DEF Next, Acts, RInv

(***************************************************************************)
(* The numbers that runtest returns are the events of each test, less the  *)
(* mean cost of an empty measurement, and zero for a counter that was not  *)
(* asked for: whatever the number of counters, clients, tests and events,  *)
(* as long as every client stays on a CPU of its own and no counter wraps. *)
(***************************************************************************)
THEOREM LibPmcBracketed ==
  ASSUME ~ Migrates, MaxTsc < CounterSize PROVE Spec => []ResultsBracketed
<1>1. RInv => ResultsBracketed
  BY DEF RInv, Measured, Bracketed, ResultsBracketed
<1>2. Init => RInv
  BY InitRInv
<1>3. RInv /\ [Next]_vars => RInv'
  BY NextRInv
<1> QED
  BY <1>1, <1>2, <1>3, PTL DEF Spec

(***************************************************************************)
(* Clients on CPUs of their own do not disturb each other: run_test gives  *)
(* each its own numbers, and nothing counts once all are back.             *)
(***************************************************************************)
THEOREM LibPmcIsolated ==
  ASSUME ~ Migrates, MaxTsc < CounterSize PROVE Spec => []Isolated
<1>1. Spec => []ResultsBracketed
  BY LibPmcBracketed
<1>2. Spec => []QuietMeansOff
  BY LibPmcQuiet
<1> QED
  BY <1>1, <1>2, PTL DEF Isolated
-----------------------------------------------------------------------------
(***************************************************************************)
(* The step from here to CounterSession.  A test library that calls both   *)
(* of its callbacks leaves no counter running: the processor of a client   *)
(* stands still whenever it is not Counting.                               *)
(***************************************************************************)
Stopped(p) ==
  /\ ~ Counting(p) => msr[cpu[p]][GlobalCtrl] = 0
  /\ pc[p] # "unstopped"

SInv == RInv /\ \A p \in Client : Stopped(p)

LEMMA SInvFacts ==
  ASSUME SInv
  PROVE  /\ RInv /\ QInv /\ IInv /\ DriverTypes
         /\ \A p \in Client : /\ Measured(p) /\ Stopped(p) /\ Local(p)
                              /\ cpu[p] \in Cpu /\ args[p] \in Args
BY DriverFacts DEF SInv, RInv, QInv, IInv, DriverTypes, Types, TypeOK

\* A step of the reset script writes one zero, or is its last.
LEMMA ResetEffect ==
  ASSUME IInv, NEW p \in Client, D!IoctlStep(p), cur[p] = "reset"
  PROVE  msr' = msr \/ \E r \in D!Reg : msr' = [msr EXCEPT ![cpu[p]][r] = 0]
<1>1. DriverTypes /\ incall[p]
  BY DriverFacts, IoctlEffect DEF IInv
<1>2. CASE D!WriteMsr(p)
  <2>1. /\ idx[p] \in 0 .. PMC_COUNT + FFC_COUNT + 1
        /\ D!Current(p).op = "WRITE" /\ D!Current(p).op = ResetScript[idx[p] + 1].op
        /\ D!Current(p).ecx = ResetScript[idx[p] + 1].ecx
        /\ D!Current(p).value = ResetScript[idx[p] + 1].value
    BY <1>1, <1>2, ResetCurrent DEF D!WriteMsr, D!At
  <2>2. idx[p] + 1 \in 1 .. PMC_COUNT + FFC_COUNT + 1
    BY <2>1, ResetCommands, Counts
  <2>3. D!Current(p).value = 0 /\ D!Current(p).ecx \in D!Reg
    BY <2>1, <2>2, ResetCommands
  <2>4. 0 % CounterSize = 0
    BY Counts
  <2> QED
    BY <1>2, <2>3, <2>4 DEF D!WriteMsr
<1>3. CASE ~ D!WriteMsr(p)
  <2>1. msr' = msr
    BY <1>3 DEF D!IoctlStep, D!Nop, D!ReadMsr, D!Stop, D!ReadTsc, D!UnknownOp, D!LimitReached
  <2> QED
    BY <2>1
<1> QED
  BY <1>2, <1>3

LEMMA NothingEnabled ==
  ASSUME NEW m, m[GlobalCtrl] = 0
  PROVE  D!EnabledCounters(m) = {}
<1>1. ASSUME NEW n \in 0 .. PMC_COUNT + FFC_COUNT PROVE ~ D!BitSet(0, n)
  <2>1. 2^n \in Nat \ {0}
    BY PowerAssumption
  <2>2. \A x \in Nat \ {0} : 0 \div x = 0
    OBVIOUS
  <2> QED
    BY <2>1, <2>2 DEF D!BitSet
<1>2. ASSUME NEW n \in 0 .. PMC_COUNT - 1 PROVE ~ D!PmcEnabled(m, n)
  <2>1. n \in 0 .. PMC_COUNT + FFC_COUNT
    BY Counts
  <2> QED
    BY <1>1, <2>1 DEF D!PmcEnabled, D!GlobalCtrl, GlobalCtrl
<1>3. ASSUME NEW n \in 0 .. FFC_COUNT - 1 PROVE ~ D!FfcEnabled(m, n)
  <2>1. PMC_COUNT + n \in 0 .. PMC_COUNT + FFC_COUNT
    BY Counts
  <2> QED
    BY <1>1, <2>1 DEF D!FfcEnabled, D!GlobalCtrl, GlobalCtrl
<1> QED
  BY <1>2, <1>3 DEF D!EnabledCounters

\* The counters run that were selected, while p is Counting, and no others.
LEMMA WhenRunning ==
  ASSUME SInv, NEW p \in Client
  PROVE  D!EnabledCounters(msr[cpu[p]]) = IF Counting(p) THEN Selected(args[p]) ELSE {}
<1>1. CASE Counting(p)
  <2>1. Written(p, Writes(args[p])) /\ args[p] \in Args
    BY <1>1, SInvFacts DEF Measured, Control
  <2> QED
    BY <1>1, <2>1, EnabledWhenWritten DEF Written
<1>2. CASE ~ Counting(p)
  BY <1>2, NothingEnabled, SInvFacts DEF Stopped
<1> QED
  BY <1>1, <1>2
\* Of the script that reads only the first command writes a register.
LEMMA ReadEffect ==
  ASSUME IInv, NEW p \in Client, D!IoctlStep(p), cur[p] = "read"
  PROVE  msr' = IF idx[p] = 0 THEN [msr EXCEPT ![cpu[p]][GlobalCtrl] = 0] ELSE msr
<1>1. Commanded \in Nat /\ Commanded >= 1 /\ idx[p] \in 0 .. Commanded
  BY ReadCommands, ReadStep
<1>2. CASE idx[p] = 0
  <2>1. idx[p] # Commanded /\ idx[p] \notin 1 .. Commanded - 1
    BY <1>1, <1>2
  <2> QED
    BY <1>2, <2>1, ReadStep
<1>3. CASE idx[p] = Commanded
  <2>1. idx[p] # 0 /\ idx[p] \notin 1 .. Commanded - 1
    BY <1>1, <1>3
  <2> QED
    BY <1>3, <2>1, ReadStep
<1>4. CASE idx[p] # 0 /\ idx[p] # Commanded
  <2>1. idx[p] \in 1 .. Commanded - 1
    BY <1>1, <1>4
  <2> QED
    BY <1>4, <2>1, ReadStep
<1> QED
  BY <1>2, <1>3, <1>4

RunningRight ==
  \A p \in Client :
    D!EnabledCounters(msr[cpu[p]]) = IF Counting(p) THEN Selected(args[p]) ELSE {}

LEMMA StillRunning == SInv' => RunningRight'
<1>1. SInv => RunningRight
  BY WhenRunning DEF RunningRight
<1> QED
  BY <1>1, PTL

\* After the driver's step of p its processor counts only if p is Counting.
LEMMA DriverStopped ==
  ASSUME SInv, NEW p \in Client, DriverStep(p)
  PROVE  Stopped(p)'
<1>1. /\ UNCHANGED <<pc, args, cpu, cur>> /\ D!IoctlStep(p) /\ incall[p] /\ IInv /\ DriverTypes
      /\ Calling(p) /\ cur[p] \in Script /\ args[p] \in Args /\ idx[p] \in Nat
      /\ cpu[p] \in Cpu /\ Stopped(p) /\ GlobalCtrl \in D!Reg
  BY DriverLeaves, SInvFacts, Commands
<1>2. CASE cur[p] = "reset"
  <2>1. pc[p] \notin {"baseStarted", "started", "baseStopped", "stopped"}
    BY <1>1, <1>2 DEF Calling, Called
  <2>2. msr[cpu[p]][GlobalCtrl] = 0
    BY <2>1, <1>1 DEF Stopped, Counting, Measuring, Starting, Stopping
  <2>3. msr' = msr \/ \E r \in D!Reg : msr' = [msr EXCEPT ![cpu[p]][r] = 0]
    BY <1>1, <1>2, ResetEffect
  <2>4. msr'[cpu[p]][GlobalCtrl] = 0
    BY <1>1, <2>2, <2>3 DEF DriverTypes
  <2> QED
    BY <1>1, <2>4 DEF Stopped
<1>3. CASE cur[p] = "cfg"
  <2>1. pc[p] \in {"baseStarted", "started"}
    BY <1>1, <1>3 DEF Calling, Called
  <2>2. /\ idx[p] <= Writes(args[p])
        /\ IF idx[p] < Writes(args[p])
           THEN LET c == CfgScript(args[p])[idx[p] + 1]
                IN  /\ incall' = incall /\ idx'[p] = idx[p] + 1
                    /\ msr' = [msr EXCEPT ![cpu[p]][c.ecx] = c.value]
           ELSE ~ incall'[p] /\ msr' = msr
    BY <1>1, <1>3, CfgStep
  <2>3. CASE idx[p] + 1 < Writes(args[p])
    <3>1. idx[p] + 1 \in 1 .. Writes(args[p]) /\ Writes(args[p]) \in Nat
      BY <1>1, <2>3, CfgWrites
    <3>2. /\ CfgScript(args[p])[idx[p] + 1].ecx \in D!Reg
          /\ CfgScript(args[p])[idx[p] + 1].ecx # GlobalCtrl
      BY <1>1, <2>3, <3>1, CfgWrites
    <3>3. ~ Counting(p)
      BY <1>1, <2>1, <2>3, <3>1 DEF Counting, Measuring, Starting, Stopping
    <3>4. msr'[cpu[p]][GlobalCtrl] = 0
      BY <1>1, <2>2, <2>3, <3>1, <3>2, <3>3, OtherRegister DEF Stopped, DriverTypes
    <3> QED
      BY <1>1, <3>4 DEF Stopped
  <2>4. CASE ~ (idx[p] + 1 < Writes(args[p]))
    <3>1. Counting(p)'
      BY <1>1, <2>1, <2>2, <2>4, CfgWrites DEF Counting, Measuring, Starting, Writes
    <3> QED
      BY <1>1, <3>1 DEF Stopped
  <2> QED
    BY <2>3, <2>4
<1>4. CASE cur[p] = "read"
  <2>1. pc[p] \in {"baseStopped", "stopped"}
    BY <1>1, <1>4 DEF Calling, Called
  <2>2. idx[p] # 0 => ~ Counting(p)
    BY <1>1, <2>1 DEF Counting, Measuring, Starting, Stopping
  <2>3. idx[p] = 0 => msr' = [msr EXCEPT ![cpu[p]][GlobalCtrl] = 0]
    BY <1>1, <1>4, ReadEffect
  <2>4. idx[p] # 0 => msr' = msr
    BY <1>1, <1>4, ReadEffect
  <2>5. msr'[cpu[p]][GlobalCtrl] = 0
    BY <1>1, <2>2, <2>3, <2>4 DEF Stopped, DriverTypes
  <2> QED
    BY <1>1, <2>5 DEF Stopped
<1> QED
  BY <1>1, <1>2, <1>3, <1>4 DEF Script

\* The library's own steps never leave p where its processor should stand still.
LEMMA LibStopped ==
  ASSUME SInv, TestShape \subseteq {"both"}, NEW p \in Client, Acts(p)
  PROVE  Stopped(p)'
<1>1. /\ UNCHANGED <<msr, cpu>> /\ Local(p) /\ Stopped(p) /\ DOMAIN pc = Client
      /\ \/ idx'[p] = 0 /\ incall'[p]
         \/ UNCHANGED <<incall, cur, idx>>
  BY LibFacts, LibMoves, SInvFacts
<1>2. CASE BaselineStop(p) \/ StopCounters(p)
  <2>1. pc'[p] \in {"baseStopped", "stopped"} /\ ~ incall[p] /\ D!IoctlEnter(p, "read")
    BY <1>1, <1>2 DEF BaselineStop, StopCounters, Ioctl, Goto, D!IoctlEnter
  <2>2. incall'[p] /\ idx'[p] = 0
    BY <2>1, SInvFacts DEF D!IoctlEnter, DriverTypes
  <2>3. Counting(p)' /\ pc'[p] # "unstopped"
    BY <2>1, <2>2 DEF Counting, Stopping
  <2> QED
    BY <2>3 DEF Stopped
<1>3. CASE ~ (BaselineStop(p) \/ StopCounters(p))
  <2>1. ~ Counting(p) /\ pc'[p] # "unstopped"
    <3>1. ~ ReturnsUnstopped(p)
      <4>1. "startOnly" \notin TestShape /\ "none" \notin TestShape
        OBVIOUS
      <4> QED
        BY <4>1 DEF ReturnsUnstopped
    <3>2. pc'[p] # "unstopped"
      BY <1>1, <1>3, <3>1 DEF Acts, LibStep, BadLibName, DlopenFails, Dlopen, DlsymFails,
         MallocFails, Prepare, OpenFails, LoadDriver, ResetForBaseline, BaselineStart,
         BaselineNext, BaselineEnd, DivideByZero, Average, ResetForTest, StartCounters,
         RecordResult, FinalReset, Release, Runtest, Goto, Return, Ioctl
    <3>3. pc[p] \in {"baseStarted", "started"} => FALSE
      BY <1>1, <1>3, <3>1 DEF Acts, LibStep, BadLibName, DlopenFails, Dlopen, DlsymFails,
         MallocFails, Prepare, OpenFails, LoadDriver, ResetForBaseline, BaselineStart,
         BaselineNext, BaselineEnd, DivideByZero, Average, ResetForTest, StartCounters,
         RecordResult, FinalReset, Release, Runtest, Goto, Return, Ioctl, Stopped
    <3>4. pc[p] \in {"baseStopped", "stopped"} => ~ incall[p]
      BY <1>1, <1>3, <3>1 DEF Acts, LibStep, BadLibName, DlopenFails, Dlopen, DlsymFails,
         MallocFails, Prepare, OpenFails, LoadDriver, ResetForBaseline, BaselineStart,
         BaselineNext, BaselineEnd, DivideByZero, Average, ResetForTest, StartCounters,
         RecordResult, FinalReset, Release, Runtest, Goto, Return, Ioctl, Returned
    <3> QED
      BY <3>2, <3>3, <3>4 DEF Counting, Measuring, Starting, Stopping
  <2> QED
    BY <1>1, <2>1 DEF Stopped
<1> QED
  BY <1>2, <1>3

LEMMA NextSInv ==
  ASSUME ~ Migrates, MaxTsc < CounterSize, TestShape \subseteq {"both"}, SInv, [Next]_vars
  PROVE  SInv'
<1>1. RInv /\ RInv' /\ IInv /\ DriverTypes
  BY NextRInv, SInvFacts
<1>2. ASSUME NEW q \in Client, UNCHANGED <<pc, args, incall, cpu>>, idx'[q] = idx[q],
             msr'[cpu[q]][GlobalCtrl] = msr[cpu[q]][GlobalCtrl]
      PROVE  Stopped(q)'
  BY <1>2, SInvFacts DEF Stopped, Counting, Measuring, Starting, Stopping
<1>3. ASSUME NEW p \in Client, Acts(p) \/ DriverStep(p), NEW q \in Client PROVE Stopped(q)'
  <2>1. CASE q = p
    BY <1>3, <2>1, DriverStopped, LibStopped
  <2>2. CASE q # p
    <3>1. Kept(q) /\ idx'[q] = idx[q] /\ cpu' = cpu /\ msr'[cpu[q]] = msr[cpu[q]]
      BY <1>1, <1>3, <2>2, OthersKept, OthersHistory DEF Acts
    <3> QED
      BY <3>1, SInvFacts DEF Kept, Stopped, Counting, Measuring, Starting, Stopping
  <2> QED
    BY <2>1, <2>2
<1>4. ASSUME NEW c \in Cpu, Tick(c), NEW q \in Client PROVE Stopped(q)'
  <2>1. UNCHANGED <<pc, args, incall, cpu, idx>> /\ D!Tick(c) /\ cpu[q] \in Cpu
    BY <1>4, SInvFacts DEF Tick, D!Tick, D!client, D!call, libVars
  <2>2. GlobalCtrl \in D!Reg /\ GlobalCtrl \notin D!Counter
    BY Commands DEF D!Counter, D!Pmc, D!Ffc, GlobalCtrl
  <2>3. GlobalCtrl \notin D!EnabledCounters(msr[c])
    BY DEF D!EnabledCounters, D!Pmc, D!Ffc, GlobalCtrl
  <2>4. msr'[cpu[q]][GlobalCtrl] = msr[cpu[q]][GlobalCtrl]
    BY <1>1, <2>1, <2>2, <2>3 DEF D!Tick, DriverTypes
  <2> QED
    BY <1>2, <2>1, <2>4
<1>5. ASSUME NEW p \in Client, NEW c \in Cpu PROVE ~ Migrate(p, c)
  BY DEF Migrate, D!Migrate
<1>6. ASSUME UNCHANGED vars, NEW q \in Client PROVE Stopped(q)'
  BY <1>2, <1>6 DEF vars, driverVars, libVars
<1> QED
  BY <1>1, <1>3, <1>4, <1>5, <1>6 DEF Next, Acts, SInv
-----------------------------------------------------------------------------
SessionStep(p, k) == Session(p, k)!Next \/ UNCHANGED Session(p, k)!vars

\* What a step may do to the stopwatch of counter k.
LEMMA SessionSteps ==
  ASSUME NEW p \in Client, NEW k \in D!Counter
  PROVE  LET x == msr[cpu[p]][k]
             y == msr'[cpu'[p]][k]
             r == Readings(p, k)
             s == Readings(p, k)'
         IN  /\ (Runs(p, k)' <=> Runs(p, k)) /\ y = x /\ s \in {r, <<>>, Append(r, x)}
                  /\ (s # r /\ s # <<>> => ~ Runs(p, k))
               => SessionStep(p, k)
             /\ (Runs(p, k)' <=> ~ Runs(p, k)) /\ y = x /\ s = r => SessionStep(p, k)
             /\ Runs(p, k) /\ Runs(p, k)' /\ y = x + 1 /\ s = r => SessionStep(p, k)
             /\ ~ Runs(p, k) /\ ~ Runs(p, k)' /\ y = 0 /\ s = r => SessionStep(p, k)
<1> DEFINE b == Runs(p, k)
           x == msr[cpu[p]][k]
           y == msr'[cpu'[p]][k]
           r == Readings(p, k)
           s == Readings(p, k)'
<1>1. /\ b \in BOOLEAN /\ b' \in BOOLEAN
      /\ (b' <=> b) => b' = b
      /\ b' => b' = TRUE
      /\ ~ b' => b' = FALSE
  BY DEF Runs
<1>2. /\ b' = b /\ y = x /\ s = r => UNCHANGED Session(p, k)!vars
      /\ s = <<>> /\ b' = b /\ y = x => Session(p, k)!Begin
      /\ ~ b /\ b' = TRUE /\ y = x /\ s = r => Session(p, k)!Start
      /\ b /\ y = x + 1 /\ b' = b /\ s = r => Session(p, k)!Count
      /\ b /\ b' = FALSE /\ y = x /\ s = r => Session(p, k)!Halt
      /\ ~ b /\ y = 0 /\ b' = b /\ s = r => Session(p, k)!Zero
      /\ ~ b /\ s = Append(r, x) /\ b' = b /\ y = x => Session(p, k)!Record
  BY DEF Session!vars, Session!Begin, Session!Start, Session!Count, Session!Halt, Session!Zero,
     Session!Record
<1>3. \/ Session(p, k)!Begin \/ Session(p, k)!Start \/ Session(p, k)!Count
      \/ Session(p, k)!Halt \/ Session(p, k)!Zero \/ Session(p, k)!Record
      \/ UNCHANGED Session(p, k)!vars
      => SessionStep(p, k)
  BY DEF SessionStep, Session!Next
<1> HIDE DEF b, x, y, r, s
<1>4. (b' <=> b) /\ y = x /\ s \in {r, <<>>, Append(r, x)} /\ (s # r /\ s # <<>> => ~ b)
      => SessionStep(p, k)
  BY <1>1, <1>2, <1>3
<1>5. (b' <=> ~ b) /\ y = x /\ s = r => SessionStep(p, k)
  BY <1>1, <1>2, <1>3
<1>6. b /\ b' /\ y = x + 1 /\ s = r => SessionStep(p, k)
  BY <1>1, <1>2, <1>3
<1>7. ~ b /\ ~ b' /\ y = 0 /\ s = r => SessionStep(p, k)
  BY <1>1, <1>2, <1>3
<1> QED
  BY <1>4, <1>5, <1>6, <1>7 DEF b, x, y, r, s
\* A command of p resets the counter, starts, halts, or leaves the stopwatch alone.
LEMMA DriverSession ==
  ASSUME SInv, SInv', NEW p \in Client, NEW k \in D!Counter, DriverStep(p)
  PROVE  SessionStep(p, k)
<1>1. /\ UNCHANGED <<pc, args, fixed, rows, cpu, cur>> /\ D!IoctlStep(p) /\ incall[p]
      /\ IInv /\ DriverTypes /\ Calling(p) /\ cur[p] \in Script /\ args[p] \in Args
      /\ cpu[p] \in Cpu /\ k \in D!Reg
  BY DriverLeaves, SInvFacts, Commands
<1>2. Readings(p, k)' = Readings(p, k)
  BY <1>1 DEF Readings
<1>3. /\ Runs(p, k) <=> Counting(p) /\ k \in Selected(args[p])
      /\ Runs(p, k)' <=> Counting(p)' /\ k \in Selected(args[p])'
  <2>1. D!EnabledCounters(msr[cpu[p]])' = IF Counting(p)' THEN Selected(args[p])' ELSE {}
    BY StillRunning DEF RunningRight
  <2> QED
    BY <2>1, WhenRunning DEF Runs
<1>4. Selected(args[p])' = Selected(args[p])
  BY <1>1 DEF Selected
<1>5. CASE cur[p] = "reset"
  <2>1. ~ Counting(p) /\ ~ Counting(p)'
    BY <1>1, <1>5 DEF Calling, Called, Counting, Measuring, Starting, Stopping
  <2>2. msr' = msr \/ \E r \in D!Reg : msr' = [msr EXCEPT ![cpu[p]][r] = 0]
    BY <1>1, <1>5, ResetEffect
  <2>3. msr'[cpu'[p]][k] \in {msr[cpu[p]][k], 0}
    BY <1>1, <2>2 DEF DriverTypes
  <2> QED
    BY <1>2, <1>3, <2>1, <2>3, SessionSteps
<1>6. CASE cur[p] \in {"cfg", "read"}
  <2>1. msr'[cpu'[p]][k] = msr[cpu[p]][k]
    <3>1. CASE cur[p] = "cfg"
      <4>1. CASE idx[p] < Writes(args[p])
        <5>1. /\ idx[p] + 1 \in 1 .. Writes(args[p])
              /\ msr' = [msr EXCEPT ![cpu[p]][CfgScript(args[p])[idx[p] + 1].ecx] =
                           CfgScript(args[p])[idx[p] + 1].value]
          BY <1>1, <3>1, <4>1, CfgStep, CfgWrites DEF DriverTypes
        <5>2. CfgScript(args[p])[idx[p] + 1].ecx # k
          BY <1>1, <5>1, CfgWrites
        <5> QED
          BY <1>1, <5>1, <5>2, OtherRegister DEF DriverTypes
      <4>2. CASE ~ (idx[p] < Writes(args[p]))
        BY <1>1, <3>1, <4>2, CfgStep
      <4> QED
        BY <4>1, <4>2
    <3>2. CASE cur[p] = "read"
      <4>1. k # GlobalCtrl
        BY DEF D!Counter, D!Pmc, D!Ffc, GlobalCtrl
      <4>2. msr' = msr \/ msr' = [msr EXCEPT ![cpu[p]][GlobalCtrl] = 0]
        BY <1>1, <3>2, ReadEffect
      <4>3. [msr EXCEPT ![cpu[p]][GlobalCtrl] = 0][cpu[p]][k] = msr[cpu[p]][k]
        BY <1>1, <4>1, OtherRegister DEF DriverTypes
      <4> QED
        BY <1>1, <4>2, <4>3
    <3> QED
      BY <1>6, <3>1, <3>2
  <2> QED
    BY <1>2, <2>1, SessionSteps
<1> QED
  BY <1>1, <1>5, <1>6 DEF Script

\* An event is counted by a stopwatch that runs, and by no other.
LEMMA TickSession ==
  ASSUME SInv, SInv', MaxTsc < CounterSize,
         NEW p \in Client, NEW k \in D!Counter, NEW c \in Cpu, Tick(c)
  PROVE  SessionStep(p, k)
<1>1. /\ UNCHANGED <<pc, args, incall, idx, cpu, fixed, rows>> /\ D!Tick(c) /\ DriverTypes
      /\ cpu[p] \in Cpu /\ tsc \in Nat /\ tsc < MaxTsc /\ k \in D!Reg /\ Measured(p)
  BY SInvFacts, Commands DEF Tick, D!Tick, D!client, D!call, libVars, DriverTypes
<1>2. Readings(p, k)' = Readings(p, k)
  BY <1>1 DEF Readings
<1>3. Runs(p, k)' <=> Runs(p, k)
  <2>1. D!EnabledCounters(msr[cpu[p]])' = IF Counting(p)' THEN Selected(args[p])' ELSE {}
    BY StillRunning DEF RunningRight
  <2>2. (Counting(p)' <=> Counting(p)) /\ Selected(args[p])' = Selected(args[p])
    BY <1>1 DEF Counting, Measuring, Starting, Stopping, Selected
  <2> QED
    BY <2>1, <2>2, WhenRunning DEF Runs
<1>4. CASE cpu[p] = c /\ Runs(p, k)
  <2>1. Counting(p) /\ k \in Selected(args[p])
    BY <1>4, WhenRunning DEF Runs
  <2>2. msr[c][k] \in Nat /\ msr[c][k] <= outer[p] /\ outer[p] \in Nat /\ outer[p] <= tsc
    BY <1>1, <1>4, <2>1 DEF Measured, Bounds, Counted, DriverTypes
  <2>3. (msr[c][k] + 1) % CounterSize = msr[c][k] + 1
    <3>1. msr[c][k] + 1 \in 0 .. CounterSize - 1
      BY <1>1, <2>2, Counts
    <3> QED
      BY <3>1, Counts
  <2>4. msr'[cpu'[p]][k] = msr[cpu[p]][k] + 1
    BY <1>1, <1>4, <2>3 DEF D!Tick, DriverTypes, Runs
  <2> QED
    BY <1>2, <1>3, <1>4, <2>4, SessionSteps
<1>5. CASE ~ (cpu[p] = c /\ Runs(p, k))
  <2>1. msr'[cpu'[p]][k] = msr[cpu[p]][k]
    BY <1>1, <1>5 DEF D!Tick, DriverTypes, Runs
  <2> QED
    BY <1>2, <1>3, <2>1, SessionSteps
<1> QED
  BY <1>4, <1>5
\* Of the library's own steps only two touch what has been recorded.
LEMMA LibSession ==
  ASSUME SInv, TestShape \subseteq {"both"},
         NEW p \in Client, NEW k \in D!Counter, Acts(p)
  PROVE  SessionStep(p, k)
<1>1. /\ UNCHANGED <<msr, cpu>> /\ Local(p) /\ Measured(p) /\ Stopped(p) /\ DriverTypes
      /\ rows[p] \in Seq([D!Counter -> Int]) /\ args \in [Client -> Args]
      /\ rows \in [Client -> Seq([D!Counter -> Int])] /\ DOMAIN fixed = Client
      /\ fixed[p] \in [D!Counter -> Nat] /\ cpu[p] \in Cpu
  BY LibFacts, SInvFacts DEF IInv, Types, TypeOK
<1>2. (Runs(p, k)' <=> Runs(p, k)) /\ msr'[cpu'[p]][k] = msr[cpu[p]][k]
  BY <1>1 DEF Runs
<1>3. CASE \E a \in Args : Runtest(p, a)
  <2>1. rows'[p] = <<>>
    BY <1>1, <1>3 DEF Runtest
  <2>2. Readings(p, k)' = <<>>
    BY <2>1 DEF Readings
  <2> QED
    BY <1>2, <2>2, SessionSteps
<1>4. CASE RecordResult(p)
  <2>1. pc[p] = "stopped" /\ ~ incall[p]
    BY <1>1, <1>4 DEF RecordResult, Goto, Returned, Stopped
  <2>2. ~ Runs(p, k)
    BY <2>1, WhenRunning DEF Runs, Counting, Measuring, Starting, Stopping
  <2>3. Reading(p, k) = msr[cpu[p]][k] /\ msr[cpu[p]][k] \in Nat
    BY <1>1, <2>1, Commands DEF Measured, Shown, DriverTypes
  <2>4. /\ rows'[p] = Append(rows[p], [j \in D!Counter |-> Reading(p, j) - fixed[p][j]])
        /\ fixed' = fixed
    BY <1>1, <1>4 DEF RecordResult
  <2>5. Readings(p, k)' = Append(Readings(p, k), msr[cpu[p]][k])
    <3> DEFINE row == [j \in D!Counter |-> Reading(p, j) - fixed[p][j]]
               l == Len(rows[p])
    <3>1. l \in Nat /\ rows[p] = [n \in 1 .. l |-> rows[p][n]]
      BY <1>1
    <3>2. /\ Len(rows'[p]) = l + 1 /\ rows'[p][l + 1] = row
          /\ \A n \in 1 .. l : rows'[p][n] = rows[p][n]
      BY <2>4, <3>1
    <3>3. row[k] + fixed[p][k] = msr[cpu[p]][k]
      BY <1>1, <2>3
    <3>4. Readings(p, k)' = [n \in 1 .. l + 1 |-> rows'[p][n][k] + fixed[p][k]]
      BY <2>4, <3>2 DEF Readings
    <3>5. \A n \in 1 .. l : rows[p][n][k] + fixed[p][k] \in Int
      BY <1>1
    <3>6. Readings(p, k) \in Seq(Int) /\ Len(Readings(p, k)) = l
      BY <3>1, <3>5 DEF Readings
    <3>7. Append(Readings(p, k), msr[cpu[p]][k]) =
            [n \in 1 .. l + 1 |-> IF n = l + 1 THEN msr[cpu[p]][k] ELSE Readings(p, k)[n]]
      BY <2>3, <3>1, <3>6
    <3>8. \A n \in 1 .. l : Readings(p, k)[n] = rows'[p][n][k] + fixed[p][k]
      BY <3>2 DEF Readings
    <3> QED
      BY <3>1, <3>2, <3>3, <3>4, <3>7, <3>8
  <2> QED
    BY <1>2, <2>2, <2>5, SessionSteps
<1>5. CASE ResetForBaseline(p) \/ Average(p)
  <2>1. rows' = rows /\ pc[p] \in {"zeroFixed", "average"}
    BY <1>5 DEF ResetForBaseline, Average, Ioctl, Goto
  <2>2. rows[p] = <<>>
    BY <1>1, <2>1 DEF Local, Recording, InTests
  <2>3. Readings(p, k) = <<>> /\ Readings(p, k)' = <<>>
    BY <2>1, <2>2 DEF Readings
  <2> QED
    BY <1>2, <2>3, SessionSteps
<1>6. CASE UNCHANGED <<rows, fixed>>
  <2>1. Readings(p, k)' = Readings(p, k)
    BY <1>6 DEF Readings
  <2> QED
    BY <1>2, <2>1, SessionSteps
<1> QED
  BY <1>3, <1>4, <1>5, <1>6 DEF Acts, LibStep, BadLibName, DlopenFails, Dlopen, DlsymFails,
     MallocFails, Prepare, OpenFails, LoadDriver, BaselineStart, BaselineStop, BaselineNext,
     BaselineEnd, DivideByZero, ResetForTest, StartCounters, StopCounters, ReturnsUnstopped,
     FinalReset, Release

LEMMA NextSession ==
  ASSUME ~ Migrates, MaxTsc < CounterSize, TestShape \subseteq {"both"},
         SInv, SInv', [Next]_vars, NEW p \in Client, NEW k \in D!Counter
  PROVE  SessionStep(p, k)
<1>1. IInv /\ RInv
  BY SInvFacts
<1>2. ASSUME rows'[p] = rows[p], fixed'[p] = fixed[p], cpu'[p] = cpu[p],
             msr'[cpu[p]] = msr[cpu[p]]
      PROVE  SessionStep(p, k)
  <2>1. Readings(p, k)' = Readings(p, k) /\ (Runs(p, k)' <=> Runs(p, k))
    BY <1>2 DEF Readings, Runs
  <2> QED
    BY <1>2, <2>1, SessionSteps
<1>3. ASSUME NEW q \in Client, Acts(q) \/ DriverStep(q) PROVE SessionStep(p, k)
  <2>1. CASE q = p
    BY <1>3, <2>1, LibSession, DriverSession
  <2>2. CASE q # p
    <3>1. Kept(p) /\ cpu' = cpu /\ msr'[cpu[p]] = msr[cpu[p]]
      BY <1>1, <1>3, <2>2, OthersKept, OthersHistory DEF Acts
    <3> QED
      BY <1>2, <3>1 DEF Kept
  <2> QED
    BY <2>1, <2>2
<1>4. ASSUME NEW q \in Client, NEW c \in Cpu PROVE ~ Migrate(q, c)
  BY DEF Migrate, D!Migrate
<1>5. CASE UNCHANGED vars
  BY <1>2, <1>5 DEF vars, driverVars, libVars
<1> QED
  BY <1>3, <1>4, <1>5, TickSession DEF Next, Acts

LEMMA InitSession ==
  ASSUME ~ Migrates, Init
  PROVE  SInv /\ \A p \in Client, k \in D!Counter : Session(p, k)!Init
<1>1. RInv /\ \A p \in Client : rows[p] = <<>> /\ cpu[p] \in Cpu /\ pc[p] = "idle"
  BY InitRInv DEF Init
<1>2. \A c \in Cpu, r \in D!Reg : msr[c][r] = 0
  BY DEF Init
<1>3. \A p \in Client : Stopped(p)
  BY <1>1, <1>2, Commands DEF Stopped
<1>4. SInv
  BY <1>1, <1>3 DEF SInv
<1>5. ASSUME NEW p \in Client, NEW k \in D!Counter PROVE Session(p, k)!Init
  <2>1. ~ Runs(p, k)
    BY <1>1, <1>2, Commands, NothingEnabled DEF Runs
  <2>2. Runs(p, k) = FALSE
    BY <2>1 DEF Runs
  <2>3. msr[cpu[p]][k] = 0
    BY <1>1, <1>2, Commands
  <2>4. Readings(p, k) = <<>>
    BY <1>1 DEF Readings
  <2> QED
    BY <2>2, <2>3, <2>4 DEF Session!Init
<1> QED
  BY <1>4, <1>5

(***************************************************************************)
(* libpmc implements the stopwatch of CounterSession for every client and  *)
(* every counter, however many there are: while each client stays on a CPU *)
(* of its own, no counter wraps, and the test library calls start and      *)
(* stop, a counter is set back and recorded only while it stands still,    *)
(* and what is recorded is what it showed.                                 *)
(***************************************************************************)
THEOREM LibPmcImplementsSessions ==
  ASSUME ~ Migrates, MaxTsc < CounterSize, TestShape \subseteq {"both"}
  PROVE  Spec => ImplementsSessions
<1>1. Init => SInv /\ \A p \in Client, k \in D!Counter : Session(p, k)!Init
  BY InitSession
<1>2. SInv /\ [Next]_vars => SInv'
  BY NextSInv
<1>3. SInv /\ SInv' /\ [Next]_vars =>
        \A p \in Client, k \in D!Counter : Session(p, k)!Next \/ UNCHANGED Session(p, k)!vars
  BY NextSession DEF SessionStep
<1> QED
  BY <1>1, <1>2, <1>3, PTL DEF Spec, ImplementsSessions
(***************************************************************************)
(* The same with CounterSession's own specification: each counter of each  *)
(* client of libpmc is a stopwatch.                                        *)
(***************************************************************************)
THEOREM LibPmcIsAStopwatch ==
  ASSUME ~ Migrates, MaxTsc < CounterSize, TestShape \subseteq {"both"},
         NEW p \in Client, NEW k \in D!Counter
  PROVE  Spec => Session(p, k)!Spec
<1>1. Init => SInv /\ Session(p, k)!Init
  BY InitSession
<1>2. SInv /\ [Next]_vars => SInv'
  BY NextSInv
<1>3. SInv /\ SInv' /\ [Next]_vars => Session(p, k)!Next \/ UNCHANGED Session(p, k)!vars
  BY NextSession DEF SessionStep
<1> QED
  BY <1>1, <1>2, <1>3, PTL DEF Spec, Session!Spec
=============================================================================
