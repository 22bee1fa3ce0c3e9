---------------------------- MODULE RoutinesProofs ----------------------------
(***************************************************************************)
(* Invariants of the routines of the repository, each about the one that   *)
(* runs, for every value of its constants.  First the measuring library of *)
(* msrmod.kdb.1: it uses its static pointers safely, loses only what       *)
(* failed calls leave behind, and returns the rows of its tests.           *)
(***************************************************************************)
EXTENDS Routines, SequenceTheorems, WellFoundedInduction, TLAPS

\* Where runtest is: the tests, with the device open, with the vectors recorded.
Tests    == {"test", "dlopen", "dlsym", "started", "stopped", "record"}
Opened   == {"reset", "baseline", "baseStarted", "closing"} \cup Tests
Recorded == {"open"} \cup Opened
InQ      == {"idle", "dead"}

(***************************************************************************)
(* One frame exists, that of the current call, and the pointers into it    *)
(* are this call's; the blocks of calls that could not open the device are *)
(* the only others on the heap.                                            *)
(***************************************************************************)
Memory ==
  /\ fd <=> pc \in Opened
  /\ frames = IF pc \in InQ THEN {} ELSE {runs}
  /\ heap = failed.open \cup (IF pc \in Recorded THEN {runs} ELSE {})
  /\ pc \notin InQ =>
       runs > 0 /\ runs \notin failed.open /\ \A p \in Pointer \ {"pmc_cfg"} : ptr[p] = runs
  /\ pc \in Recorded =>
       /\ ptr["pmc_cfg"] = runs
       /\ vec["pmc_reset"] = record_reset /\ vec["pmc_read"] = record_read
       /\ vec["pmc_cfg"] = CfgScript

\* What is held of kdb+ and of the dynamic linker.
Held ==
  /\ handles = failed.symbol + (IF pc \in {"dlsym", "started", "stopped"} THEN 1 ELSE 0)
  /\ objects = CASE pc \in {"test", "dlopen", "dlsym", "record"} -> Counters
                 [] pc \in {"started", "stopped"} -> Counters + 3
                 [] pc = "closing" -> 1
                 [] OTHER -> 0

(***************************************************************************)
(* The baseline adds up Overhead once per iteration, so that its mean is   *)
(* Overhead, the cost that is in every reading of a test.                  *)
(***************************************************************************)
Clock ==
  /\ on <=> pc \in {"baseStarted", "started"}
  /\ pc \in {"idle", "malloc", "open", "reset", "dlopen", "dlsym", "started", "closing"} =>
       counter = 0
  /\ pc \in {"open", "reset"} => reading = 0
  /\ pc \in {"baseline", "baseStarted"} =>
       i <= count /\ counter = (count - i) * Overhead /\ reading = counter
  /\ pc = "baseStarted" => i > 0
  /\ pc \in Tests => count > 0 /\ i <= count /\ fixed = Overhead
  /\ pc \in Tests \ {"test"} => i < count

\* What pmc_read holds of the last test that had a reading.
Last == IF Len(rows) = 0 THEN 0 ELSE rows[Len(rows)] + fixed

\* The readings of the tests done so far, and of the one that is not recorded yet.
Rows ==
  /\ pc \in {"malloc", "open", "reset", "baseline", "baseStarted"} => rows = <<>>
  /\ pc \in Tests => Len(rows) = i
  /\ Len(log) = Len(rows) + (IF pc \in {"stopped", "record"} THEN 1 ELSE 0)
  /\ pc \in {"test", "dlopen", "dlsym", "started"} => reading = Last
  /\ pc = "stopped" => log[Len(log)] # Missed
  /\ pc \in {"stopped", "record"} =>
       reading = IF log[Len(log)] # Missed THEN log[Len(log)] + fixed ELSE Last
  /\ \A t \in 1 .. Len(rows) :
       rows[t] = IF log[t] # Missed THEN log[t] ELSE IF t = 1 THEN - fixed ELSE rows[t - 1]

SomeMissed == \E t \in 1 .. Len(log) : log[t] = Missed

\* krr was called if and only if a test was missed.
Errors ==
  /\ pc \in {"malloc", "open", "reset", "baseline", "baseStarted"} => pending = {} /\ log = <<>>
  /\ pc \in {"closing"} \cup Tests => (pending # {} <=> SomeMissed)
  /\ pc = "idle" /\ answer = "table" => (pending # {} <=> SomeMissed)

IInv == TypeOK /\ Memory /\ Held /\ Clock /\ Rows /\ Errors

-----------------------------------------------------------------------------
\* A vector of n equal commands.
LEMMA CopiesSeq ==
  ASSUME NEW n \in Nat, NEW c \in Command
  PROVE  /\ Copies(n, c) \in Seq(Command) /\ Len(Copies(n, c)) = n
         /\ \A k \in 1 .. n : Copies(n, c)[k] = c
<1>1. Copies(n, c) \in [1 .. n -> Command]
  BY DEF Copies
<1>2. Copies(n, c) \in Seq(Command) /\ Len(Copies(n, c)) = n
  BY <1>1, IsASeq, LenProperties
<1> QED
  BY <1>2 DEF Copies

\* The commands that the macros write.
LEMMA CommandsTyped ==
  /\ msr_wr \in Command /\ msr_rd \in Command /\ msr_wr_stop \in Command
  /\ Unwritten \in Command
  BY DEF Command, msr_wr, msr_rd, msr_wr_stop, wr_msrio, Unwritten

LEMMA ScriptsTyped ==
  ASSUME len \in Nat
  PROVE  /\ record_reset \in Seq(Command) /\ record_read \in Seq(Command)
         /\ CfgScript \in Seq(Command)
<1>1. Counters \in Nat
  BY KdbPmcAssumption DEF Counters
<1>2. /\ Copies(1 + Counters, msr_wr) \in Seq(Command) /\ Copies(len, msr_wr) \in Seq(Command)
      /\ Copies(Counters, msr_rd) \in Seq(Command)
  BY <1>1, CopiesSeq, CommandsTyped
<1>3. <<msr_wr>> \in Seq(Command) /\ <<msr_wr_stop>> \in Seq(Command)
  BY CommandsTyped
<1>4. <<msr_wr>> \o Copies(Counters, msr_rd) \in Seq(Command)
  BY <1>2, <1>3, ConcatProperties
<1> QED
  BY <1>2, <1>3, <1>4, ConcatProperties DEF record_reset, record_read, CfgScript


\* What record_reset, record_read and runtest record is executable.
LEMMA ScriptsExecutable ==
  ASSUME len \in Nat, NEW v \in Vector,
         vec[v] \in {record_reset, record_read, CfgScript}
  PROVE  Executable(v)
<1> DEFINE Fit(s) == \E n \in DOMAIN s :
                       /\ s[n].op = "STOP"
                       /\ \A m \in 1 .. n - 1 : s[m].op \in {"READ", "WRITE"} /\ s[m].operands
<1>1. Counters \in Nat
  BY KdbPmcAssumption DEF Counters
<1>2. /\ <<msr_wr>> \in Seq(Command) /\ Len(<<msr_wr>>) = 1 /\ <<msr_wr>>[1] = msr_wr
      /\ <<msr_wr_stop>> \in Seq(Command) /\ Len(<<msr_wr_stop>>) = 1
      /\ <<msr_wr_stop>>[1] = msr_wr_stop
  BY CommandsTyped
<1>3. /\ msr_wr.op = "WRITE" /\ msr_wr.operands /\ msr_rd.op = "READ" /\ msr_rd.operands
      /\ msr_wr_stop.op = "STOP"
  BY DEF msr_wr, msr_rd, msr_wr_stop, wr_msrio
<1>4. ASSUME NEW s \in Seq(Command), 
             \A m \in 1 .. Len(s) : s[m] \in {msr_wr, msr_rd}
      PROVE  Fit(s \o <<msr_wr_stop>>)
  <2> DEFINE f == s \o <<msr_wr_stop>>
             n == Len(s) + 1
  <2>1. /\ f \in Seq(Command) /\ Len(f) = n /\ f[n] = msr_wr_stop
        /\ \A m \in 1 .. n - 1 : f[m] = s[m]
    BY <1>2, ConcatProperties, LenProperties
  <2>2. n \in DOMAIN f
    BY <2>1, LenProperties
  <2>3. \A m \in 1 .. n - 1 : f[m] \in {msr_wr, msr_rd}
    BY <1>4, <2>1, LenProperties
  <2> QED
    BY <1>3, <2>1, <2>2, <2>3
<1>5. \A n \in Nat, c \in {msr_wr, msr_rd} :
        /\ Copies(n, c) \in Seq(Command) /\ Len(Copies(n, c)) = n
        /\ \A m \in 1 .. n : Copies(n, c)[m] \in {msr_wr, msr_rd}
  BY CommandsTyped, CopiesSeq
<1>6. Fit(record_reset)
  <2>1. 1 + Counters \in Nat
    BY <1>1
  <2> HIDE DEF Fit
  <2> QED
    BY <1>4, <1>5, <2>1 DEF record_reset
<1>7. Fit(CfgScript)
  BY <1>4, <1>5 DEF CfgScript
<1>8. Fit(record_read)
  <2> DEFINE s == <<msr_wr>> \o Copies(Counters, msr_rd)
  <2>1. s \in Seq(Command) /\ Len(s) = 1 + Counters
    BY <1>1, <1>2, <1>5, ConcatProperties
  <2>2. \A m \in 1 .. Len(s) : s[m] \in {msr_wr, msr_rd}
    <3> SUFFICES ASSUME NEW m \in 1 .. Len(s) PROVE s[m] \in {msr_wr, msr_rd}
      OBVIOUS
    <3>1. s[m] = IF m <= 1 THEN <<msr_wr>>[m] ELSE Copies(Counters, msr_rd)[m - 1]
      BY <1>1, <1>2, <1>5, <2>1, ConcatProperties
    <3> QED
      BY <1>1, <1>2, <1>5, <2>1, <3>1
  <2> QED
    BY <1>4, <2>1, <2>2 DEF record_read
<1> QED
  BY <1>6, <1>7, <1>8 DEF Executable

\* The mean of equal costs is the cost.
LEMMA MeanOfEqual ==
  ASSUME NEW n \in Nat, n > 0, NEW c \in Nat
  PROVE  ((n - 0) * c) \div n = c
  OBVIOUS

LEMMA OneMoreCost ==
  ASSUME NEW n \in Nat, NEW k \in Nat, NEW c \in Nat
  PROVE  /\ (n - k) * c + 0 + c = (n - (k - 1)) * c
         /\ (n - n) * c = 0
  OBVIOUS


\* The parts of TypeOK.
CallTypes ==
  /\ pc \in {"idle", "malloc", "open", "reset", "baseline", "baseStarted", "test",
             "dlopen", "dlsym", "started", "stopped", "record", "closing", "dead"}
  /\ count \in TestCounts /\ len \in CfgLens /\ fd \in BOOLEAN /\ on \in BOOLEAN
  /\ runs \in Nat /\ frames \subseteq 1 .. runs /\ heap \subseteq 1 .. runs
  /\ pending \subseteq {"malloc", "open", "dlopen", "dlsym"}
  /\ answer \in {"none", "table", "error"}

NumberTypes ==
  /\ i \in Nat /\ counter \in Nat /\ reading \in Nat /\ fixed \in Nat
  /\ handles \in Nat /\ objects \in Nat

PointerTypes ==
  /\ ptr \in [Pointer -> 0 .. runs]
  /\ failed \in [open : SUBSET (1 .. runs), symbol : Nat]

SequenceTypes ==
  vec \in [Vector -> Seq(Command)] /\ rows \in Seq(Int) /\ log \in Seq(Work \cup {Missed})

LEMMA TypeParts == TypeOK <=> CallTypes /\ NumberTypes /\ PointerTypes /\ SequenceTypes
  BY DEF TypeOK, CallTypes, NumberTypes, PointerTypes, SequenceTypes

-----------------------------------------------------------------------------
LEMMA InitIInv == ASSUME Init PROVE IInv
<1>1. TypeOK
  <2>1. CallTypes /\ NumberTypes
    BY KdbPmcAssumption DEF Init, CallTypes, NumberTypes
  <2>2. PointerTypes
    BY DEF Init, PointerTypes, NULL
  <2>3. SequenceTypes
    <3>1. \A S : <<>> \in Seq(S)
      BY EmptySeq
    <3> QED
      BY <3>1 DEF Init, SequenceTypes
  <2> QED
    BY <2>1, <2>2, <2>3, TypeParts
<1>2. Memory /\ Held /\ Clock
  BY DEF Init, Memory, Held, Clock, Recorded, Opened, Tests, InQ
<1>3. Rows /\ Errors
  BY DEF Init, Rows, Errors, Tests, SomeMissed
<1> QED
  BY <1>1, <1>2, <1>3 DEF IInv

\* The frames, the heap and the device.
LEMMA MemoryStep == ASSUME IInv, Next PROVE Memory'
<1> USE DEF IInv, Memory, InQ, Opened, Recorded, Tests, TypeOK, Pointer, Vector,
      CfgScript, args, memory, msr, kdb, history
<1>1. CASE Runtest
  BY <1>1 DEF Runtest, Goto, Copies, Unwritten
<1>2. CASE MallocFails
  BY <1>2 DEF MallocFails, Return, Goto
<1>3. CASE Record
  BY <1>3 DEF Record, Goto
<1>4. CASE OpenFails
  BY <1>4 DEF OpenFails, Return, Goto
<1>5. CASE LoadDriver
  BY <1>5 DEF LoadDriver, Goto
<1>6. CASE ResetForBaseline
  BY <1>6 DEF ResetForBaseline, Goto, IoctlReset
<1>7. CASE BaselineStart
  BY <1>7 DEF BaselineStart, Goto, IoctlCfg
<1>8. CASE BaselineStop
  BY <1>8 DEF BaselineStop, Goto, IoctlRead
<1>9. CASE DivideByZero
  BY <1>9 DEF DivideByZero, Goto
<1>10. CASE Average
  BY <1>10 DEF Average, Goto
<1>11. CASE ResetForTest
  BY <1>11 DEF ResetForTest, Goto, IoctlReset
<1>12. CASE DlopenFails
  BY <1>12 DEF DlopenFails, Misses, Goto
<1>13. CASE Dlopen
  BY <1>13 DEF Dlopen, Goto
<1>14. CASE DlsymFails
  BY <1>14 DEF DlsymFails, Misses, Goto
<1>15. CASE StartCounters
  BY <1>15 DEF StartCounters, Goto, IoctlCfg
<1>16. CASE StopCounters
  BY <1>16 DEF StopCounters, Goto, IoctlRead
<1>17. CASE BridgeReturns
  BY <1>17 DEF BridgeReturns, Goto
<1>18. CASE RecordResult
  BY <1>18 DEF RecordResult, Goto
<1>19. CASE FinalReset
  BY <1>19 DEF FinalReset, Goto, IoctlReset
<1>20. CASE Release
  BY <1>20 DEF Release, Return, Goto, closeDriver
<1> QED
  BY <1>1, <1>2, <1>3, <1>4, <1>5, <1>6, <1>7, <1>8, <1>9, <1>10, <1>11,
     <1>12, <1>13, <1>14, <1>15, <1>16, <1>17, <1>18, <1>19, <1>20 DEF Next

\* Each action takes and gives back what its place says.
LEMMA HeldStep == ASSUME IInv, Next PROVE Held'
<1> USE KdbPmcAssumption DEF IInv, Held, Counters, TypeOK, kdb, history, args
<1>1. CASE Runtest
  BY <1>1 DEF Runtest, Goto, Copies, Unwritten
<1>2. CASE MallocFails
  BY <1>2 DEF MallocFails, Return, Goto
<1>3. CASE Record
  BY <1>3 DEF Record, Goto
<1>4. CASE OpenFails
  BY <1>4 DEF OpenFails, Return, Goto
<1>5. CASE LoadDriver
  BY <1>5 DEF LoadDriver, Goto
<1>6. CASE ResetForBaseline
  BY <1>6 DEF ResetForBaseline, Goto, IoctlReset
<1>7. CASE BaselineStart
  BY <1>7 DEF BaselineStart, Goto, IoctlCfg
<1>8. CASE BaselineStop
  BY <1>8 DEF BaselineStop, Goto, IoctlRead
<1>9. CASE DivideByZero
  BY <1>9 DEF DivideByZero, Goto
<1>10. CASE Average
  BY <1>10 DEF Average, Goto
<1>11. CASE ResetForTest
  BY <1>11 DEF ResetForTest, Goto, IoctlReset
<1>12. CASE DlopenFails
  BY <1>12 DEF DlopenFails, Misses, Goto
<1>13. CASE Dlopen
  BY <1>13 DEF Dlopen, Goto
<1>14. CASE DlsymFails
  BY <1>14 DEF DlsymFails, Misses, Goto
<1>15. CASE StartCounters
  BY <1>15 DEF StartCounters, Goto, IoctlCfg
<1>16. CASE StopCounters
  BY <1>16 DEF StopCounters, Goto, IoctlRead
<1>17. CASE BridgeReturns
  <2> HIDE DEF TypeOK
  <2>1. pc = "stopped" /\ pc' = "record" /\ failed' = failed
    BY <1>17 DEF BridgeReturns, Goto, history
  <2>2. Counters \in Nat /\ failed.symbol \in Nat
    BY DEF TypeOK
  <2>3. objects = Counters + 3 /\ handles = failed.symbol + 1
    BY <2>1
  <2>4. objects' = objects - 3 /\ handles' = handles - 1
    BY <1>17 DEF BridgeReturns
  <2>5. objects' = Counters /\ handles' = failed'.symbol
    BY <2>1, <2>2, <2>3, <2>4
  <2> QED
    BY <2>1, <2>2, <2>5
<1>18. CASE RecordResult
  BY <1>18 DEF RecordResult, Goto
<1>19. CASE FinalReset
  BY <1>19 DEF FinalReset, Goto, IoctlReset
<1>20. CASE Release
  BY <1>20 DEF Release, Return, Goto, closeDriver
<1> QED
  BY <1>1, <1>2, <1>3, <1>4, <1>5, <1>6, <1>7, <1>8, <1>9, <1>10, <1>11,
     <1>12, <1>13, <1>14, <1>15, <1>16, <1>17, <1>18, <1>19, <1>20 DEF Next

\* The counter and what it is read for.
LEMMA ClockStep == ASSUME IInv, Next PROVE Clock'
<1> USE KdbPmcAssumption DEF IInv, Clock, Tests, TypeOK, args, msr
<1>1. CASE Runtest
  BY <1>1 DEF Runtest, Goto, Copies, Unwritten
<1>2. CASE MallocFails
  BY <1>2 DEF MallocFails, Return, Goto
<1>3. CASE Record
  BY <1>3 DEF Record, Goto
<1>4. CASE OpenFails
  BY <1>4 DEF OpenFails, Return, Goto
<1>5. CASE LoadDriver
  BY <1>5 DEF LoadDriver, Goto
<1>6. CASE ResetForBaseline
  BY <1>6, OneMoreCost DEF ResetForBaseline, Goto, IoctlReset
<1>7. CASE BaselineStart
  BY <1>7 DEF BaselineStart, Goto, IoctlCfg
<1>8. CASE BaselineStop
  BY <1>8, OneMoreCost DEF BaselineStop, Goto, IoctlRead
<1>9. CASE DivideByZero
  BY <1>9 DEF DivideByZero, Goto
<1>10. CASE Average
  BY <1>10, MeanOfEqual DEF Average, Goto
<1>11. CASE ResetForTest
  BY <1>11 DEF ResetForTest, Goto, IoctlReset
<1>12. CASE DlopenFails
  BY <1>12 DEF DlopenFails, Misses, Goto
<1>13. CASE Dlopen
  BY <1>13 DEF Dlopen, Goto
<1>14. CASE DlsymFails
  BY <1>14 DEF DlsymFails, Misses, Goto
<1>15. CASE StartCounters
  BY <1>15 DEF StartCounters, Goto, IoctlCfg
<1>16. CASE StopCounters
  BY <1>16 DEF StopCounters, Goto, IoctlRead
<1>17. CASE BridgeReturns
  BY <1>17 DEF BridgeReturns, Goto
<1>18. CASE RecordResult
  BY <1>18 DEF RecordResult, Goto
<1>19. CASE FinalReset
  BY <1>19 DEF FinalReset, Goto, IoctlReset
<1>20. CASE Release
  BY <1>20 DEF Release, Return, Goto, closeDriver
<1> QED
  BY <1>1, <1>2, <1>3, <1>4, <1>5, <1>6, <1>7, <1>8, <1>9, <1>10, <1>11,
     <1>12, <1>13, <1>14, <1>15, <1>16, <1>17, <1>18, <1>19, <1>20 DEF Next

\* Where the call is and what it holds keep their sets.
LEMMA CallTypesStep == ASSUME IInv, Next PROVE CallTypes'
<1> USE KdbPmcAssumption DEF IInv, TypeOK, CallTypes, args, memory, msr, kdb, history,
       Memory, InQ, Recorded, Opened, Tests
<1>1. CASE Runtest
  BY <1>1 DEF Runtest, Goto, Copies, Unwritten
<1>2. CASE MallocFails
  BY <1>2 DEF MallocFails, Return, Goto
<1>3. CASE Record
  BY <1>3 DEF Record, Goto
<1>4. CASE OpenFails
  BY <1>4 DEF OpenFails, Return, Goto
<1>5. CASE LoadDriver
  BY <1>5 DEF LoadDriver, Goto
<1>6. CASE ResetForBaseline
  BY <1>6 DEF ResetForBaseline, Goto, IoctlReset
<1>7. CASE BaselineStart
  BY <1>7 DEF BaselineStart, Goto, IoctlCfg
<1>8. CASE BaselineStop
  BY <1>8 DEF BaselineStop, Goto, IoctlRead
<1>9. CASE DivideByZero
  BY <1>9 DEF DivideByZero, Goto
<1>10. CASE Average
  BY <1>10 DEF Average, Goto
<1>11. CASE ResetForTest
  BY <1>11 DEF ResetForTest, Goto, IoctlReset
<1>12. CASE DlopenFails
  BY <1>12 DEF DlopenFails, Misses, Goto
<1>13. CASE Dlopen
  BY <1>13 DEF Dlopen, Goto
<1>14. CASE DlsymFails
  BY <1>14 DEF DlsymFails, Misses, Goto
<1>15. CASE StartCounters
  BY <1>15 DEF StartCounters, Goto, IoctlCfg
<1>16. CASE StopCounters
  BY <1>16 DEF StopCounters, Goto, IoctlRead
<1>17. CASE BridgeReturns
  BY <1>17 DEF BridgeReturns, Goto
<1>18. CASE RecordResult
  BY <1>18 DEF RecordResult, Goto
<1>19. CASE FinalReset
  BY <1>19 DEF FinalReset, Goto, IoctlReset
<1>20. CASE Release
  BY <1>20 DEF Release, Return, Goto, closeDriver
<1> QED
  BY <1>1, <1>2, <1>3, <1>4, <1>5, <1>6, <1>7, <1>8, <1>9, <1>10, <1>11,
     <1>12, <1>13, <1>14, <1>15, <1>16, <1>17, <1>18, <1>19, <1>20 DEF Next

\* What is held does not become negative.
LEMMA NumberTypesStep == ASSUME IInv, Next PROVE NumberTypes'
<1> USE KdbPmcAssumption DEF IInv, TypeOK, NumberTypes, args, memory, msr, kdb, history,
       Held, Clock, Counters
<1>1. CASE Runtest
  BY <1>1 DEF Runtest, Goto, Copies, Unwritten
<1>2. CASE MallocFails
  BY <1>2 DEF MallocFails, Return, Goto
<1>3. CASE Record
  BY <1>3 DEF Record, Goto
<1>4. CASE OpenFails
  BY <1>4 DEF OpenFails, Return, Goto
<1>5. CASE LoadDriver
  BY <1>5 DEF LoadDriver, Goto
<1>6. CASE ResetForBaseline
  BY <1>6 DEF ResetForBaseline, Goto, IoctlReset
<1>7. CASE BaselineStart
  BY <1>7 DEF BaselineStart, Goto, IoctlCfg
<1>8. CASE BaselineStop
  BY <1>8 DEF BaselineStop, Goto, IoctlRead
<1>9. CASE DivideByZero
  BY <1>9 DEF DivideByZero, Goto
<1>10. CASE Average
  BY <1>10 DEF Average, Goto
<1>11. CASE ResetForTest
  BY <1>11 DEF ResetForTest, Goto, IoctlReset
<1>12. CASE DlopenFails
  BY <1>12 DEF DlopenFails, Misses, Goto
<1>13. CASE Dlopen
  BY <1>13 DEF Dlopen, Goto
<1>14. CASE DlsymFails
  BY <1>14 DEF DlsymFails, Misses, Goto
<1>15. CASE StartCounters
  BY <1>15 DEF StartCounters, Goto, IoctlCfg
<1>16. CASE StopCounters
  <2> HIDE DEF Held, Clock, Counters
  <2>1. PICK w \in Work : IoctlRead(w)
    BY <1>16 DEF StopCounters
  <2>2. w \in Nat
    OBVIOUS
  <2> QED
    BY <1>16, <2>1, <2>2 DEF StopCounters, IoctlRead, kdb
<1>17. CASE BridgeReturns
  <2> HIDE DEF Held, Clock, Counters
  <2>1. Held'
    BY HeldStep DEF Next
  <2>2. pc' = "record" /\ failed'.symbol \in Nat /\ Counters \in Nat
    BY <1>17 DEF BridgeReturns, Goto, history, Counters
  <2>3. objects' \in Nat /\ handles' \in Nat
    BY <2>1, <2>2 DEF Held, Counters
  <2> QED
    BY <1>17, <2>3 DEF BridgeReturns, msr
<1>18. CASE RecordResult
  BY <1>18 DEF RecordResult, Goto
<1>19. CASE FinalReset
  <2> HIDE DEF Held, Clock, Counters
  <2>1. objects' = 1
    BY <1>19 DEF FinalReset, Goto, Held, Counters
  <2> QED
    BY <1>19, <2>1 DEF FinalReset, IoctlReset
<1>20. CASE Release
  BY <1>20 DEF Release, Return, Goto, closeDriver
<1> QED
  BY <1>1, <1>2, <1>3, <1>4, <1>5, <1>6, <1>7, <1>8, <1>9, <1>10, <1>11,
     <1>12, <1>13, <1>14, <1>15, <1>16, <1>17, <1>18, <1>19, <1>20 DEF Next

\* A pointer leads to a call there was, and so does a failure.
LEMMA PointerTypesStep == ASSUME IInv, Next PROVE PointerTypes'
<1> USE DEF IInv, TypeOK, PointerTypes, Pointer, Vector, NULL, args, memory, msr, kdb,
      history, Memory, InQ, Recorded, Opened, Tests
<1>1. CASE Runtest
  <2> HIDE DEF Memory
  <2>1. runs' = runs + 1 /\ runs \in Nat /\ failed' = failed
         /\ ptr' = [p \in Pointer |-> IF p = "pmc_cfg" THEN ptr[p] ELSE runs']
    BY <1>1 DEF Runtest
  <2>2. ptr \in [Pointer -> 0 .. runs] /\ failed \in [open : SUBSET (1 .. runs), symbol : Nat]
    OBVIOUS
  <2>3. ptr' \in [Pointer -> 0 .. runs']
    BY <2>1, <2>2, SMTT(60)
  <2> QED
    BY <2>1, <2>2, <2>3, SMTT(60)
<1>2. CASE MallocFails
  BY <1>2 DEF MallocFails, Return, Goto
<1>3. CASE Record
  BY <1>3 DEF Record, Goto
<1>4. CASE OpenFails
  BY <1>4 DEF OpenFails, Return, Goto
<1>5. CASE LoadDriver
  BY <1>5 DEF LoadDriver, Goto
<1>6. CASE ResetForBaseline
  BY <1>6 DEF ResetForBaseline, Goto, IoctlReset
<1>7. CASE BaselineStart
  BY <1>7 DEF BaselineStart, Goto, IoctlCfg
<1>8. CASE BaselineStop
  BY <1>8 DEF BaselineStop, Goto, IoctlRead
<1>9. CASE DivideByZero
  BY <1>9 DEF DivideByZero, Goto
<1>10. CASE Average
  BY <1>10 DEF Average, Goto
<1>11. CASE ResetForTest
  BY <1>11 DEF ResetForTest, Goto, IoctlReset
<1>12. CASE DlopenFails
  BY <1>12 DEF DlopenFails, Misses, Goto
<1>13. CASE Dlopen
  BY <1>13 DEF Dlopen, Goto
<1>14. CASE DlsymFails
  <2>1. failed'.open = failed.open /\ failed'.symbol = failed.symbol + 1
    BY <1>14 DEF DlsymFails
  <2>2. failed' \in [open : SUBSET (1 .. runs), symbol : Nat]
    <3> DEFINE n == failed.symbol + 1
    <3>1. failed \in [open : SUBSET (1 .. runs), symbol : Nat] /\ n \in Nat
      OBVIOUS
    <3>2. failed' = [failed EXCEPT !.symbol = n]
      BY <1>14 DEF DlsymFails
    <3> HIDE DEF n
    <3> QED
      BY <3>1, <3>2
  <2> QED
    BY <1>14, <2>2 DEF DlsymFails, memory
<1>15. CASE StartCounters
  BY <1>15 DEF StartCounters, Goto, IoctlCfg
<1>16. CASE StopCounters
  BY <1>16 DEF StopCounters, Goto, IoctlRead
<1>17. CASE BridgeReturns
  BY <1>17 DEF BridgeReturns, Goto
<1>18. CASE RecordResult
  BY <1>18 DEF RecordResult, Goto
<1>19. CASE FinalReset
  BY <1>19 DEF FinalReset, Goto, IoctlReset
<1>20. CASE Release
  BY <1>20 DEF Release, Return, Goto, closeDriver
<1> QED
  BY <1>1, <1>2, <1>3, <1>4, <1>5, <1>6, <1>7, <1>8, <1>9, <1>10, <1>11,
     <1>12, <1>13, <1>14, <1>15, <1>16, <1>17, <1>18, <1>19, <1>20 DEF Next

\* Vectors hold commands, rows and log hold a number per test.
LEMMA SequenceTypesStep == ASSUME IInv, Next PROVE SequenceTypes'
<1> USE KdbPmcAssumption DEF IInv, TypeOK, SequenceTypes, Vector, args, memory, msr,
       kdb, history
<1>1. CASE Runtest
  <2>1. Copies(9, Unwritten) \in Seq(Command)
    BY CopiesSeq, CommandsTyped
  <2>2. \A S : <<>> \in Seq(S)
    BY EmptySeq
  <2> QED
    BY <1>1, <2>1, <2>2 DEF Runtest
<1>2. CASE MallocFails
  BY <1>2 DEF MallocFails, Return, Goto
<1>3. CASE Record
  <2>1. len \in Nat
    BY KdbPmcAssumption
  <2>2. vec' \in [Vector -> Seq(Command)]
    BY <1>3, <2>1, ScriptsTyped DEF Record
  <2> QED
    BY <1>3, <2>2 DEF Record, history
<1>4. CASE OpenFails
  BY <1>4 DEF OpenFails, Return, Goto
<1>5. CASE LoadDriver
  BY <1>5 DEF LoadDriver, Goto
<1>6. CASE ResetForBaseline
  BY <1>6 DEF ResetForBaseline, Goto, IoctlReset
<1>7. CASE BaselineStart
  BY <1>7 DEF BaselineStart, Goto, IoctlCfg
<1>8. CASE BaselineStop
  BY <1>8 DEF BaselineStop, Goto, IoctlRead
<1>9. CASE DivideByZero
  BY <1>9 DEF DivideByZero, Goto
<1>10. CASE Average
  BY <1>10 DEF Average, Goto
<1>11. CASE ResetForTest
  BY <1>11 DEF ResetForTest, Goto, IoctlReset
<1>12. CASE DlopenFails
  BY <1>12 DEF DlopenFails, Misses, Goto
<1>13. CASE Dlopen
  BY <1>13 DEF Dlopen, Goto
<1>14. CASE DlsymFails
  BY <1>14 DEF DlsymFails, Misses, Goto
<1>15. CASE StartCounters
  BY <1>15 DEF StartCounters, Goto, IoctlCfg
<1>16. CASE StopCounters
  BY <1>16 DEF StopCounters, Goto, IoctlRead
<1>17. CASE BridgeReturns
  BY <1>17 DEF BridgeReturns, Goto
<1>18. CASE RecordResult
  BY <1>18 DEF RecordResult, Goto
<1>19. CASE FinalReset
  BY <1>19 DEF FinalReset, Goto, IoctlReset
<1>20. CASE Release
  BY <1>20 DEF Release, Return, Goto, closeDriver
<1> QED
  BY <1>1, <1>2, <1>3, <1>4, <1>5, <1>6, <1>7, <1>8, <1>9, <1>10, <1>11,
     <1>12, <1>13, <1>14, <1>15, <1>16, <1>17, <1>18, <1>19, <1>20 DEF Next

\* Each row is of its test; pmc_read keeps the reading of the last one measured.
LEMMA RowsStep == ASSUME IInv, Next PROVE Rows'
<1> USE KdbPmcAssumption DEF IInv, Rows, Last, Tests, Missed, TypeOK, Clock, msr,
       history, args
<1>1. CASE Runtest
  BY <1>1 DEF Runtest, Goto, Copies, Unwritten
<1>2. CASE MallocFails
  BY <1>2 DEF MallocFails, Return, Goto
<1>3. CASE Record
  BY <1>3 DEF Record, Goto
<1>4. CASE OpenFails
  BY <1>4 DEF OpenFails, Return, Goto
<1>5. CASE LoadDriver
  BY <1>5 DEF LoadDriver, Goto
<1>6. CASE ResetForBaseline
  BY <1>6 DEF ResetForBaseline, Goto, IoctlReset
<1>7. CASE BaselineStart
  BY <1>7 DEF BaselineStart, Goto, IoctlCfg
<1>8. CASE BaselineStop
  BY <1>8 DEF BaselineStop, Goto, IoctlRead
<1>9. CASE DivideByZero
  BY <1>9 DEF DivideByZero, Goto
<1>10. CASE Average
  BY <1>10 DEF Average, Goto
<1>11. CASE ResetForTest
  BY <1>11 DEF ResetForTest, Goto, IoctlReset
<1>12. CASE DlopenFails
  <2>1. /\ log \in Seq(Work \cup {Missed}) /\ log' = Append(log, Missed) /\ pc' = "record"
        /\ pc \in {"dlopen", "dlsym"} /\ UNCHANGED <<reading, fixed, rows, i>>
    BY <1>12 DEF DlopenFails, Misses, Goto
  <2>2. /\ Len(log') = Len(log) + 1 /\ log'[Len(log) + 1] = Missed /\ Len(log) \in Nat
        /\ \A t \in 1 .. Len(log) : log'[t] = log[t]
    BY <2>1, AppendProperties, LenProperties
  <2>3. Len(log) = Len(rows) /\ reading = Last /\ Last' = Last
    BY <2>1
  <2> QED
    BY <2>1, <2>2, <2>3
<1>13. CASE Dlopen
  BY <1>13 DEF Dlopen, Goto
<1>14. CASE DlsymFails
  <2>1. /\ log \in Seq(Work \cup {Missed}) /\ log' = Append(log, Missed) /\ pc' = "record"
        /\ pc \in {"dlopen", "dlsym"} /\ UNCHANGED <<reading, fixed, rows, i>>
    BY <1>14 DEF DlsymFails, Misses, Goto
  <2>2. /\ Len(log') = Len(log) + 1 /\ log'[Len(log) + 1] = Missed /\ Len(log) \in Nat
        /\ \A t \in 1 .. Len(log) : log'[t] = log[t]
    BY <2>1, AppendProperties, LenProperties
  <2>3. Len(log) = Len(rows) /\ reading = Last /\ Last' = Last
    BY <2>1
  <2> QED
    BY <2>1, <2>2, <2>3
<1>15. CASE StartCounters
  BY <1>15 DEF StartCounters, Goto, IoctlCfg
<1>16. CASE StopCounters
  BY <1>16 DEF StopCounters, Goto, IoctlRead
<1>17. CASE BridgeReturns
  BY <1>17 DEF BridgeReturns, Goto
<1>18. CASE RecordResult
  <2> DEFINE n == Len(rows)
             row == reading - fixed
  <2>1. /\ pc' = "test" /\ rows' = Append(rows, row) /\ i' = i + 1
        /\ UNCHANGED <<reading, fixed, log>>
    BY <1>18 DEF RecordResult, Goto, msr, history
  <2>2. rows \in Seq(Int) /\ row \in Int /\ n \in Nat /\ n = i /\ Len(log) = n + 1
    BY <1>18 DEF RecordResult, Goto, TypeOK
  <2>3. /\ Len(rows') = n + 1 /\ rows'[n + 1] = row
        /\ \A t \in 1 .. n : rows'[t] = rows[t]
    BY <2>1, <2>2, AppendProperties
  <2>4. row = IF log[n + 1] # Missed THEN log[n + 1] ELSE IF n + 1 = 1 THEN - fixed ELSE rows[n]
    <3>1. reading = IF log[n + 1] # Missed THEN log[n + 1] + fixed ELSE Last
      BY <1>18, <2>2 DEF RecordResult, Goto
    <3>2. CASE log[n + 1] # Missed
      <4>1. log[n + 1] \in Nat
        <5>1. log \in Seq(Work \cup {Missed}) /\ n + 1 \in 1 .. Len(log)
          BY <2>2 DEF TypeOK
        <5>2. log[n + 1] \in Work \cup {Missed}
          BY <5>1, ElementOfSeq
        <5> QED
          BY <3>2, <5>2
      <4> QED
        BY <3>1, <3>2, <4>1 DEF TypeOK
    <3>3. CASE log[n + 1] = Missed /\ n = 0
      BY <2>2, <3>1, <3>3 DEF TypeOK
    <3>4. CASE log[n + 1] = Missed /\ n > 0
      <4>1. rows[n] \in Int
        BY <2>2, <3>4, ElementOfSeq
      <4> QED
        BY <2>2, <3>1, <3>4, <4>1 DEF TypeOK
    <3> QED
      BY <2>2, <3>2, <3>3, <3>4
  <2>5. reading = Last'
    BY <2>1, <2>2, <2>3 DEF TypeOK
  <2>6. ASSUME NEW t \in 1 .. Len(rows')
        PROVE  rows'[t] = IF log[t] # Missed THEN log[t]
                          ELSE IF t = 1 THEN - fixed ELSE rows'[t - 1]
    <3>1. CASE t = n + 1
      BY <2>2, <2>3, <2>4, <3>1
    <3>2. CASE t \in 1 .. n
      BY <2>2, <2>3, <3>2
    <3> QED
      BY <2>2, <2>3, <3>1, <3>2
  <2> QED
    BY <2>1, <2>2, <2>3, <2>5, <2>6
<1>19. CASE FinalReset
  BY <1>19 DEF FinalReset, Goto, IoctlReset
<1>20. CASE Release
  BY <1>20 DEF Release, Return, Goto, closeDriver
<1> QED
  BY <1>1, <1>2, <1>3, <1>4, <1>5, <1>6, <1>7, <1>8, <1>9, <1>10, <1>11,
     <1>12, <1>13, <1>14, <1>15, <1>16, <1>17, <1>18, <1>19, <1>20 DEF Next

\* krr has left an error exactly if a test was missed.
LEMMA ErrorsStep == ASSUME IInv, Next PROVE Errors'
<1> USE KdbPmcAssumption DEF IInv, Errors, SomeMissed, Tests, Missed, TypeOK, kdb,
       history
<1>1. CASE Runtest
  BY <1>1 DEF Runtest, Goto, Copies, Unwritten
<1>2. CASE MallocFails
  BY <1>2 DEF MallocFails, Return, Goto
<1>3. CASE Record
  BY <1>3 DEF Record, Goto
<1>4. CASE OpenFails
  BY <1>4 DEF OpenFails, Return, Goto
<1>5. CASE LoadDriver
  BY <1>5 DEF LoadDriver, Goto
<1>6. CASE ResetForBaseline
  BY <1>6 DEF ResetForBaseline, Goto, IoctlReset
<1>7. CASE BaselineStart
  BY <1>7 DEF BaselineStart, Goto, IoctlCfg
<1>8. CASE BaselineStop
  BY <1>8 DEF BaselineStop, Goto, IoctlRead
<1>9. CASE DivideByZero
  BY <1>9 DEF DivideByZero, Goto
<1>10. CASE Average
  <2>1. pending = {} /\ log = <<>>
    BY <1>10 DEF Average, Goto
  <2>2. ~ SomeMissed /\ UNCHANGED <<pending, log>> /\ pc' = "test"
    BY <1>10, <2>1 DEF Average, Goto, history
  <2> QED
    BY <2>1, <2>2
<1>11. CASE ResetForTest
  BY <1>11 DEF ResetForTest, Goto, IoctlReset
<1>12. CASE DlopenFails
  BY <1>12 DEF DlopenFails, Misses, Goto
<1>13. CASE Dlopen
  BY <1>13 DEF Dlopen, Goto
<1>14. CASE DlsymFails
  <2>1. log \in Seq(Work \cup {Missed}) /\ log' = Append(log, Missed) /\ pc' = "record"
    BY <1>14 DEF DlsymFails, Misses, Goto, TypeOK
  <2>2. Len(log') = Len(log) + 1 /\ log'[Len(log) + 1] = Missed /\ Len(log) \in Nat
    BY <2>1, AppendProperties, LenProperties
  <2>3. SomeMissed'
    BY <2>2
  <2> QED
    BY <1>14, <2>1, <2>3 DEF DlsymFails, Misses
<1>15. CASE StartCounters
  BY <1>15 DEF StartCounters, Goto, IoctlCfg
<1>16. CASE StopCounters
  BY <1>16 DEF StopCounters, Goto, IoctlRead
<1>17. CASE BridgeReturns
  BY <1>17 DEF BridgeReturns, Goto
<1>18. CASE RecordResult
  BY <1>18 DEF RecordResult, Goto
<1>19. CASE FinalReset
  BY <1>19 DEF FinalReset, Goto, IoctlReset
<1>20. CASE Release
  BY <1>20 DEF Release, Return, Goto, closeDriver
<1> QED
  BY <1>1, <1>2, <1>3, <1>4, <1>5, <1>6, <1>7, <1>8, <1>9, <1>10, <1>11,
     <1>12, <1>13, <1>14, <1>15, <1>16, <1>17, <1>18, <1>19, <1>20 DEF Next

LEMMA KdbPmcStutter == ASSUME IInv, UNCHANGED vars PROVE IInv'
<1> USE DEF vars, args, memory, msr, kdb, history
<1>1. TypeOK'
  BY DEF IInv, TypeOK
<1>2. Memory' /\ Held' /\ Clock'
  BY DEF IInv, Memory, Held, Clock, Recorded, Opened, Tests, InQ, CfgScript
<1>3. Rows' /\ Errors'
  BY DEF IInv, Rows, Errors, Tests, Last, SomeMissed
<1> QED
  BY <1>1, <1>2, <1>3 DEF IInv

LEMMA StepIInv == ASSUME IInv, Next PROVE IInv'
<1>1. CallTypes' /\ NumberTypes' /\ PointerTypes' /\ SequenceTypes'
  BY CallTypesStep, NumberTypesStep, PointerTypesStep, SequenceTypesStep
<1>2. TypeOK'
  BY <1>1 DEF TypeOK, CallTypes, NumberTypes, PointerTypes, SequenceTypes
<1> QED
  BY <1>2, MemoryStep, HeldStep, ClockStep, RowsStep, ErrorsStep DEF IInv

-----------------------------------------------------------------------------
(***************************************************************************)
(* The register-saving macros.  A place is the index of a register in the  *)
(* order of the macro; the words of the first twelve lie in the red zone.  *)
(***************************************************************************)
Places == 1 .. 16
InRedZone == 1 .. 12
Name(j) == Regs!Saved[j][1]

Place == [r \in Regs!Reg |->
  CASE r = "xmm0" -> 1 [] r = "xmm1" -> 2 [] r = "xmm2" -> 3 [] r = "xmm3" -> 4
    [] r = "rax" -> 5 [] r = "rbx" -> 6 [] r = "rcx" -> 7 [] r = "rdx" -> 8
    [] r = "rdi" -> 9 [] r = "rsi" -> 10 [] r = "r8" -> 11 [] r = "r9" -> 12
    [] r = "r12" -> 13 [] r = "r13" -> 14 [] r = "r14" -> 15 [] r = "r15" -> 16]

\* The register's value is on the stack: stored already, not yet loaded.
InFrame(j) ==
  \/ regs_pc = "save" /\ j < regs_k
  \/ regs_pc \in {"reserve", "call", "release"}
  \/ regs_pc = "restore" /\ j <= regs_k

\* It is in the register: no callback since it was, or loaded again.
InRegister(j) ==
  \/ regs_pc \in {"save", "reserve", "call", "after", "done"}
  \/ regs_pc = "restore" /\ j > regs_k

MacroControl ==
  /\ regs_reserved <=> regs_pc \in {"call", "release"}
  /\ regs_pc \in {"save", "restore"} => regs_k \in Places

(***************************************************************************)
(* What makes both claims about lost registers inductive: at every         *)
(* instruction each value is where InFrame and InRegister say, but for     *)
(* those beyond the red zone once a handler ran at a bad time.             *)
(***************************************************************************)
ValuesKept ==
  \A j \in Places : j \in InRedZone \/ ~ regs_exposed =>
    /\ InFrame(j) => \A d \in Regs!Slot(j) : regs_mem[d] = Name(j)
    /\ InRegister(j) => regs_regs[Name(j)] = Name(j)

\* The calls made and the count in rdi belong together.
CallsCounted ==
  /\ regs_times \in Nat /\ regs_calls \in Seq({"start", "stop"})
  /\ regs_site = "baseline" =>
       \A n \in 1 .. Len(regs_calls) :
         regs_calls[n] = IF n % 2 = 1 THEN "start" ELSE "stop"
  /\ regs_pc \in {"save", "reserve", "call"} =>
       /\ regs_left >= 1
       /\ Len(regs_calls) \in {2 * (regs_times - regs_left), 2 * (regs_times - regs_left) + 1}
  /\ regs_pc \in {"release", "restore", "after"} =>
       /\ regs_left >= 1
       /\ Len(regs_calls) \in {2 * (regs_times - regs_left) + 1, 2 * (regs_times - regs_left) + 2}
  /\ regs_pc = "done" /\ regs_site = "baseline" => Len(regs_calls) = 2 * regs_times

\* The values that registers and words may have, and their domains.
MacroTypes ==
  /\ Regs!TypeOK
  /\ regs_site \in Sites
  /\ regs_regs \in [Regs!Reg -> Regs!Reg \cup {Regs!Junk}]
  /\ DOMAIN regs_mem = 1 .. Regs!Deepest

RegsInv == MacroTypes /\ MacroControl /\ ValuesKept /\ CallsCounted

-----------------------------------------------------------------------------
LEMMA SixteenSaved == Len(Regs!Saved) = 16
  BY DEF Regs!Saved

LEMMA SavedNames ==
  ASSUME NEW j \in Places
  PROVE  Name(j) \in Regs!Reg /\ Place[Name(j)] = j
<1>1. \/ j \in {1, 2, 3, 4} \/ j \in {5, 6, 7, 8}
      \/ j \in {9, 10, 11, 12} \/ j \in {13, 14, 15, 16}
  BY DEF Places
<1> USE DEF Name, Place, Regs!Saved, Regs!Reg, Regs!Xmm, Regs!Callee, Regs!Caller
<1>2. CASE j \in {1, 2, 3, 4}
  BY <1>2
<1>3. CASE j \in {5, 6, 7, 8}
  BY <1>3
<1>4. CASE j \in {9, 10, 11, 12}
  BY <1>4
<1>5. CASE j \in {13, 14, 15, 16}
  BY <1>5
<1> QED
  BY <1>1, <1>2, <1>3, <1>4, <1>5

LEMMA NamesInOrder ==
  /\ Name(1) = "xmm0" /\ Name(2) = "xmm1" /\ Name(3) = "xmm2" /\ Name(4) = "xmm3"
  /\ Name(5) = "rax" /\ Name(6) = "rbx" /\ Name(7) = "rcx" /\ Name(8) = "rdx"
  /\ Name(9) = "rdi" /\ Name(10) = "rsi" /\ Name(11) = "r8" /\ Name(12) = "r9"
  /\ Name(13) = "r12" /\ Name(14) = "r13" /\ Name(15) = "r14" /\ Name(16) = "r15"
  BY DEF Name, Regs!Saved

LEMMA PlacesOfRegs ==
  ASSUME NEW r \in Regs!Reg
  PROVE  Place[r] \in Places /\ Name(Place[r]) = r
<1> USE NamesInOrder DEF Places, Place, Regs!Reg, Regs!Xmm, Regs!Callee, Regs!Caller
<1>1. CASE r \in Regs!Xmm
  BY <1>1
<1>2. CASE r \in Regs!Callee
  BY <1>2
<1>3. CASE r \in {"rax", "rcx", "rdx", "rdi"}
  BY <1>3
<1>4. CASE r \in {"rsi", "r8", "r9"}
  BY <1>4
<1> QED
  BY <1>1, <1>2, <1>3, <1>4

LEMMA Slots ==
  ASSUME NEW j \in Places
  PROVE  Regs!Slot(j) = IF j <= 4 THEN {2 * j - 1, 2 * j} ELSE {j + 4}
<1>1. \/ j \in {1, 2, 3, 4} \/ j \in {5, 6, 7, 8}
      \/ j \in {9, 10, 11, 12} \/ j \in {13, 14} \/ j \in {15, 16}
  BY DEF Places
<1> USE DEF Regs!Slot, Regs!Saved, Regs!Xmm
<1>2. CASE j \in {1, 2, 3, 4}
  BY <1>2
<1>3. CASE j \in {5, 6, 7, 8}
  BY <1>3
<1>4. CASE j \in {9, 10, 11, 12}
  BY <1>4
<1>5. CASE j \in {13, 14}
  BY <1>5
<1>6. CASE j \in {15, 16}
  BY <1>6
<1> QED
  BY <1>1, <1>2, <1>3, <1>4, <1>5, <1>6

\* No word holds two registers; all lie in the frame, the first in the red zone.
LEMMA SlotsApart ==
  ASSUME NEW j \in Places
  PROVE  /\ Regs!Slot(j) \subseteq 1 .. 20
         /\ j \in InRedZone => Regs!Slot(j) \subseteq 1 .. 16
         /\ \A l \in Places : l # j => Regs!Slot(j) \cap Regs!Slot(l) = {}
  BY Slots DEF Places, InRedZone

LEMMA JunkIsNone == Regs!Junk \notin Regs!Reg
  BY DEF Regs!Junk, Regs!Reg, Regs!Xmm, Regs!Callee, Regs!Caller

LEMMA RegsConstants ==
  /\ RedZone \in Nat /\ RedZone >= 16 /\ MaxSignals \in Nat /\ Times \subseteq Nat
  /\ Sites \subseteq {"entry", "preLine", "lineEnd", "baseline"}
  /\ Regs!Deepest = RedZone + 21 /\ Regs!Frame = 20
  BY RoutinesAssumption DEF Regs!SaveAssumption, Regs!Deepest, Regs!Frame

-----------------------------------------------------------------------------
LEMMA RegsInit == ASSUME Regs!Init PROVE RegsInv
<1> USE RegsConstants, JunkIsNone DEF Regs!Init
<1>0. regs_times \in Nat /\ regs_site \in Sites
  OBVIOUS
<1>1. MacroTypes
  BY <1>0, SixteenSaved DEF MacroTypes, Regs!TypeOK
<1>2. MacroControl
  BY DEF MacroControl, Places
<1>3. ValuesKept
  BY SavedNames DEF ValuesKept, InFrame, Places
<1>4. CallsCounted
  <2>1. regs_calls \in Seq({"start", "stop"}) /\ Len(regs_calls) = 0
    OBVIOUS
  <2> QED
    BY <1>0, <2>1 DEF CallsCounted
<1> QED
  BY <1>1, <1>2, <1>3, <1>4 DEF RegsInv

LEMMA MacroControlStep == ASSUME RegsInv, Regs!Next PROVE MacroControl'
<1> USE SixteenSaved DEF RegsInv, MacroControl, Places
<1>1. CASE Regs!SaveOne
  BY <1>1 DEF Regs!SaveOne, Regs!Goto
<1>2. CASE Regs!Reserve
  BY <1>2 DEF Regs!Reserve, Regs!Goto
<1>3. CASE Regs!Callback
  BY <1>3 DEF Regs!Callback, Regs!Goto
<1>4. CASE Regs!Release
  BY <1>4 DEF Regs!Release, Regs!Goto
<1>5. CASE Regs!RestoreOne
  BY <1>5 DEF Regs!RestoreOne, Regs!Goto
<1>6. CASE Regs!Continue
  BY <1>6 DEF Regs!Continue, Regs!Goto
<1>7. CASE Regs!Signal
  BY <1>7 DEF Regs!Signal
<1> QED
  BY <1>1, <1>2, <1>3, <1>4, <1>5, <1>6, <1>7 DEF Regs!Next

LEMMA ValuesKeptStep == ASSUME RegsInv, Regs!Next PROVE ValuesKept'
<1> USE RegsConstants DEF RegsInv, MacroControl
<1> SUFFICES ASSUME NEW j \in Places, j \in InRedZone \/ ~ regs_exposed'
             PROVE  /\ InFrame(j)' => \A d \in Regs!Slot(j) : regs_mem'[d] = Name(j)
                    /\ InRegister(j)' => regs_regs'[Name(j)] = Name(j)
  BY DEF ValuesKept
<1>0. /\ DOMAIN regs_mem = 1 .. RedZone + 21
      /\ regs_regs \in [Regs!Reg -> Regs!Reg \cup {Regs!Junk}]
      /\ Name(j) \in Regs!Reg
      /\ Regs!Slot(j) \subseteq 1 .. 20 /\ Regs!Slot(j) \subseteq DOMAIN regs_mem
      /\ j \in Int
  BY SavedNames, SlotsApart DEF MacroTypes, Places
<1>k. j \in InRedZone \/ ~ regs_exposed =>
        /\ InFrame(j) => \A d \in Regs!Slot(j) : regs_mem[d] = Name(j)
        /\ InRegister(j) => regs_regs[Name(j)] = Name(j)
  BY DEF ValuesKept
<1>1. CASE Regs!SaveOne
  <2>1. /\ regs_k \in Places /\ regs_pc = "save" /\ regs_pc' \in {"save", "reserve"}
        /\ regs_k = 16 <=> regs_pc' = "reserve"
        /\ regs_k' = regs_k + 1 /\ regs_regs' = regs_regs /\ regs_exposed' = regs_exposed
        /\ \A d \in DOMAIN regs_mem :
             regs_mem'[d] = IF d \in Regs!Slot(regs_k) THEN regs_regs[Name(regs_k)] ELSE regs_mem[d]
    BY <1>1, SixteenSaved DEF Regs!SaveOne, Regs!Goto, Name
  <2>2. InRegister(j) /\ regs_regs'[Name(j)] = Name(j)
    BY <2>1, <1>k DEF InRegister
  <2>3. CASE j = regs_k
    BY <2>1, <2>2, <2>3, <1>0
  <2>4. CASE j # regs_k
    <3>1. Regs!Slot(j) \cap Regs!Slot(regs_k) = {}
      BY <2>1, <2>4, SlotsApart
    <3>2. InFrame(j)' => InFrame(j)
      BY <2>1, <2>4, <1>0 DEF InFrame, Places
    <3> QED
      BY <3>1, <3>2, <2>1, <2>2, <1>0, <1>k
  <2> QED
    BY <2>3, <2>4
<1>2. CASE Regs!Reserve
  BY <1>2, <1>k DEF Regs!Reserve, Regs!Goto, InFrame, InRegister
<1>3. CASE Regs!Callback
  <2>1. /\ regs_pc = "call" /\ regs_pc' = "release" /\ Regs!Rsp = 20
        /\ regs_exposed' = regs_exposed
        /\ \A d \in DOMAIN regs_mem : d <= 20 => regs_mem'[d] = regs_mem[d]
    BY <1>3, <1>0 DEF Regs!Callback, Regs!Goto, Regs!Rsp
  <2>2. InFrame(j) /\ ~ InRegister(j)'
    BY <2>1 DEF InFrame, InRegister
  <2> QED
    BY <2>1, <2>2, <1>0, <1>k
<1>4. CASE Regs!Release
  BY <1>4, <1>k, SixteenSaved DEF Regs!Release, Regs!Goto, InFrame, InRegister, Places
<1>5. CASE Regs!RestoreOne
  <2>1. /\ regs_k \in Places /\ regs_pc = "restore" /\ regs_pc' \in {"restore", "after"}
        /\ regs_k = 1 <=> regs_pc' = "after"
        /\ regs_k' = regs_k - 1 /\ regs_mem' = regs_mem /\ regs_exposed' = regs_exposed
        /\ regs_regs' = [regs_regs EXCEPT ![Name(regs_k)] =
             IF \A d \in Regs!Slot(regs_k) : regs_mem[d] = Name(regs_k)
             THEN Name(regs_k) ELSE Regs!Junk]
    BY <1>5 DEF Regs!RestoreOne, Regs!Goto, Name
  <2>2. InFrame(j)' => InFrame(j)
    BY <2>1, <1>0 DEF InFrame, Places
  <2>3. CASE j = regs_k
    <3>1. \A d \in Regs!Slot(j) : regs_mem[d] = Name(j)
      BY <2>1, <2>3, <1>0, <1>k DEF InFrame
    <3> QED
      BY <3>1, <2>1, <2>2, <2>3, <1>0
  <2>4. CASE j # regs_k
    <3>1. Name(j) # Name(regs_k)
      BY <2>1, <2>4, SavedNames
    <3>2. InRegister(j)' => InRegister(j)
      BY <2>1, <2>4, <1>0 DEF InRegister, Places
    <3> QED
      BY <3>1, <3>2, <2>1, <2>2, <1>0, <1>k
  <2> QED
    BY <2>3, <2>4
<1>6. CASE Regs!Continue
  BY <1>6, <1>k, <1>0 DEF Regs!Continue, Regs!Goto, InFrame, InRegister, Places
<1>7. CASE Regs!Signal
  <2>1. /\ regs_regs' = regs_regs /\ regs_pc' = regs_pc /\ regs_k' = regs_k
        /\ regs_exposed' = (regs_exposed \/ ~ regs_reserved)
        /\ Regs!Rsp = IF regs_reserved THEN 20 ELSE 0
        /\ \A d \in DOMAIN regs_mem : d <= Regs!Rsp + RedZone => regs_mem'[d] = regs_mem[d]
    BY <1>7, <1>0 DEF Regs!Signal, Regs!Rsp
  <2>2. /\ InFrame(j)' <=> InFrame(j)
        /\ InRegister(j)' <=> InRegister(j)
    BY <2>1 DEF InFrame, InRegister
  <2>3. \A d \in Regs!Slot(j) : d <= Regs!Rsp + RedZone
    <3>1. CASE regs_reserved
      BY <3>1, <2>1, <1>0
    <3>2. CASE ~ regs_reserved
      <4>1. Regs!Slot(j) \subseteq 1 .. 16
        BY <3>2, <2>1, SlotsApart
      <4> QED
        BY <3>2, <4>1, <2>1
    <3> QED
      BY <3>1, <3>2
  <2> QED
    BY <2>1, <2>2, <2>3, <1>0, <1>k
<1> QED
  BY <1>1, <1>2, <1>3, <1>4, <1>5, <1>6, <1>7 DEF Regs!Next

LEMMA CallsCountedStep == ASSUME RegsInv, Regs!Next PROVE CallsCounted'
<1> USE RegsConstants DEF RegsInv, MacroControl
<1>0. regs_left \in Nat /\ regs_times \in Nat /\ regs_calls \in Seq({"start", "stop"})
  BY DEF MacroTypes, Regs!TypeOK, CallsCounted
<1>1. CASE Regs!SaveOne \/ Regs!Reserve \/ Regs!Release \/ Regs!RestoreOne \/ Regs!Signal
  BY <1>1, <1>0
  DEF Regs!SaveOne, Regs!Reserve, Regs!Release, Regs!RestoreOne, Regs!Signal, Regs!Goto, CallsCounted
<1>2. CASE Regs!Callback
  <2> DEFINE c == IF regs_site = "lineEnd" \/ Len(regs_calls) % 2 = 1 THEN "stop" ELSE "start"
  <2>1. /\ regs_calls' = Append(regs_calls, c) /\ regs_pc = "call" /\ regs_pc' = "release"
        /\ UNCHANGED <<regs_site, regs_times, regs_left>>
    BY <1>2 DEF Regs!Callback, Regs!Goto
  <2>2. /\ regs_calls' \in Seq({"start", "stop"})
        /\ Len(regs_calls') = Len(regs_calls) + 1
        /\ \A n \in 1 .. Len(regs_calls) : regs_calls'[n] = regs_calls[n]
        /\ regs_calls'[Len(regs_calls) + 1] = c
        /\ Len(regs_calls) \in Nat
    BY <2>1, <1>0, AppendProperties
  <2>3. regs_site = "baseline" =>
          \A n \in 1 .. Len(regs_calls') :
            regs_calls'[n] = IF n % 2 = 1 THEN "start" ELSE "stop"
    <3> SUFFICES ASSUME regs_site = "baseline", NEW n \in 1 .. Len(regs_calls) + 1
                 PROVE  regs_calls'[n] = IF n % 2 = 1 THEN "start" ELSE "stop"
      BY <2>2
    <3>1. CASE n <= Len(regs_calls)
      BY <3>1, <2>2 DEF CallsCounted
    <3>2. CASE n = Len(regs_calls) + 1
      BY <3>2, <2>2
    <3> QED
      BY <3>1, <3>2, <2>2
  <2>4. /\ regs_left' >= 1
        /\ Len(regs_calls') \in {2 * (regs_times' - regs_left') + 1, 2 * (regs_times' - regs_left') + 2}
    BY <2>1, <2>2, <1>0 DEF CallsCounted
  <2> QED
    BY <2>1, <2>2, <2>3, <2>4, <1>0 DEF CallsCounted
<1>3. CASE Regs!Continue
  <2>1. regs_pc = "after" /\ UNCHANGED <<regs_site, regs_times, regs_calls>>
    BY <1>3 DEF Regs!Continue, Regs!Goto
  <2>2. regs_regs["rdi"] # Regs!Junk
    <3>1. "rdi" \in Regs!Reg
      BY DEF Regs!Reg, Regs!Caller
    <3>2. Place["rdi"] = 9
      BY <3>1 DEF Place
    <3>3. regs_regs["rdi"] = "rdi"
      BY <3>1, <3>2, <2>1, PlacesOfRegs DEF ValuesKept, InRegister, InRedZone, Places
    <3> QED
      BY <3>3 DEF Regs!Junk
  <2>3. /\ regs_left' = IF Regs!Paired THEN regs_left - 1 ELSE regs_left
        /\ regs_pc' = IF regs_site # "baseline" \/ (Regs!Paired /\ regs_left <= 1) THEN "done" ELSE "save"
    BY <1>3, <2>2 DEF Regs!Continue, Regs!Goto
  <2>4. regs_site # "baseline" \/ regs_site = "baseline"
    OBVIOUS
  <2>5. regs_left >= 1 /\ Len(regs_calls) \in Nat
        /\ Len(regs_calls) \in {2 * (regs_times - regs_left) + 1, 2 * (regs_times - regs_left) + 2}
    BY <2>1, <1>0 DEF CallsCounted
  <2>6. Regs!Paired <=> Len(regs_calls) = 2 * (regs_times - regs_left) + 2
    BY <2>5, <1>0 DEF Regs!Paired
  <2>7. CASE regs_pc' = "done"
    BY <2>1, <2>3, <2>5, <2>6, <2>7, <1>0 DEF CallsCounted
  <2>8. CASE regs_pc' = "save"
    BY <2>1, <2>3, <2>5, <2>6, <2>8, <1>0 DEF CallsCounted
  <2> QED
    BY <2>3, <2>7, <2>8
<1> QED
  BY <1>1, <1>2, <1>3 DEF Regs!Next

LEMMA MacroTypesStep == ASSUME RegsInv, Regs!Next PROVE MacroTypes'
<1> USE RegsConstants, SixteenSaved DEF RegsInv, MacroControl
<1>0. /\ MacroTypes /\ Regs!TypeOK
      /\ regs_left \in Int /\ regs_times \in Nat
      /\ \A j \in Places : Regs!Saved[j][1] \in Regs!Reg
  BY SavedNames DEF MacroTypes, Regs!TypeOK, CallsCounted, Name
<1>1. CASE Regs!SaveOne
  <2>1. regs_k \in Places /\ Regs!Saved[regs_k][1] \in Regs!Reg
    BY <1>0, <1>1 DEF Regs!SaveOne, Regs!Goto
  <2> QED
    BY <1>0, <1>1, <2>1 DEF Regs!SaveOne, Regs!Goto, MacroTypes, Regs!TypeOK, Places
<1>2. CASE Regs!Reserve
  BY <1>0, <1>2 DEF Regs!Reserve, Regs!Goto, MacroTypes, Regs!TypeOK
<1>3. CASE Regs!Callback
  BY <1>0, <1>3 DEF Regs!Callback, Regs!Goto, MacroTypes, Regs!TypeOK
<1>4. CASE Regs!Release
  BY <1>0, <1>4 DEF Regs!Release, Regs!Goto, MacroTypes, Regs!TypeOK
<1>5. CASE Regs!RestoreOne
  <2>1. regs_k \in Places /\ Regs!Saved[regs_k][1] \in Regs!Reg
    BY <1>0, <1>5 DEF Regs!RestoreOne, Regs!Goto
  <2> QED
    BY <1>0, <1>5, <2>1 DEF Regs!RestoreOne, Regs!Goto, MacroTypes, Regs!TypeOK, Places
<1>6. CASE Regs!Continue
  <2>1. regs_pc = "after" /\ regs_left >= 1
    BY <1>6 DEF Regs!Continue, Regs!Goto, CallsCounted
  <2> QED
    BY <1>0, <1>6, <2>1 DEF Regs!Continue, Regs!Goto, MacroTypes, Regs!TypeOK
<1>7. CASE Regs!Signal
  BY <1>0, <1>7 DEF Regs!Signal, MacroTypes, Regs!TypeOK
<1> QED
  BY <1>1, <1>2, <1>3, <1>4, <1>5, <1>6, <1>7 DEF Regs!Next

\* The four parts together.
LEMMA RegsStep == ASSUME RegsInv, Regs!Next PROVE RegsInv'
<1>1. MacroTypes' /\ MacroControl' /\ ValuesKept' /\ CallsCounted'
  BY MacroTypesStep, MacroControlStep, ValuesKeptStep, CallsCountedStep
<1> QED
  BY <1>1 DEF RegsInv

LEMMA RegsStutter == ASSUME RegsInv, UNCHANGED regs_vars PROVE RegsInv'
  BY DEF regs_vars, RegsInv, MacroTypes, MacroControl, ValuesKept, CallsCounted,
    InFrame, InRegister, Regs!TypeOK

\* Where the code goes on, the place of a register that it needs is known.
LEMMA RegsSafe ==
  ASSUME RegsInv
  PROVE  Regs!TypeOK /\ Regs!LiveSurvives /\ Regs!OnlyFarLost /\ Regs!BaselineExact
<1> USE RegsConstants DEF RegsInv
<1>1. Regs!TypeOK
  BY DEF MacroTypes
<1>2. ASSUME regs_pc \in {"after", "done"}, NEW r \in Regs!Lost
      PROVE  regs_exposed /\ r \in {"r12", "r13", "r14", "r15"}
  <2>1. r \in Regs!Reg /\ regs_regs[r] # r
    BY RegsConstants, JunkIsNone
    DEF Regs!Lost, Regs!Live, MacroTypes, Regs!Reg, Regs!Xmm, Regs!Callee, Regs!Caller, Regs!Junk
  <2>2. Place[r] \in Places /\ Name(Place[r]) = r
    BY <2>1, PlacesOfRegs
  <2>3. InRegister(Place[r])
    BY <1>2 DEF InRegister
  <2>4. regs_exposed /\ Place[r] \notin InRedZone
    BY <2>1, <2>2, <2>3 DEF ValuesKept
  <2>5. Place[r] \in {13, 14, 15, 16}
    BY <2>2, <2>4 DEF Places, InRedZone
  <2> QED
    BY <2>2, <2>4, <2>5, NamesInOrder
<1>3. Regs!LiveSurvives /\ Regs!OnlyFarLost
  BY <1>2 DEF Regs!LiveSurvives, Regs!OnlyFarLost
<1>4. Regs!BaselineExact
  BY LenProperties DEF CallsCounted, Regs!BaselineExact
<1> QED
  BY <1>1, <1>3, <1>4

-----------------------------------------------------------------------------
(***************************************************************************)
(* The native methods.  Each conjunct speaks of one thread, so that the    *)
(* steps of the others leave it alone.                                     *)
(***************************************************************************)
Argument == Objects \cup {Native!Null, Native!Table, "name", "class", "method"}
Call == {"FindClass", "GetMethodID", "CallVoidMethod"} \X Threads \X Seq(Argument)

JniTypes ==
  /\ Native!TypeOK
  /\ jni_object \in [Threads -> Objects]
  /\ DOMAIN jni_pc = Threads /\ DOMAIN jni_rdi = Threads /\ DOMAIN jni_rsi = Threads
  /\ DOMAIN jni_rax = Threads /\ DOMAIN jni_frame = Threads
  /\ DOMAIN jni_pending = Threads /\ jni_requests \in [Threads -> Nat]
  /\ jni_calls \in [Threads -> Seq(Call)] /\ jni_greeted \in [Threads -> Seq(Argument)]

\* The frame of a request keeps its JNIEnv and receiver while it needs them.
OwnFrame(t) ==
  /\ jni_pc[t] \in {"prologue", "find"} => jni_rdi[t] = t
  /\ jni_pc[t] = "prologue" => jni_rsi[t] = jni_object[t]
  /\ jni_pc[t] \in {"find", "method", "restore"} =>
       jni_frame[t].env = t /\ jni_frame[t].obj = jni_object[t]
  /\ jni_pc[t] = "method" => jni_rax[t] \in {Native!Null, "class"}

CallsInOrder(t) ==
  /\ jni_pc[t] \in {"prologue", "find"} => jni_calls[t] = <<>>
  /\ jni_pc[t] = "method" => Len(jni_calls[t]) = 1
  /\ jni_pc[t] = "restore" => Len(jni_calls[t]) = 2
  /\ \A n \in 1 .. Len(jni_calls[t]) :
       /\ n \in 1 .. 3 /\ jni_calls[t][n][1] = Native!Protocol[n]
       /\ jni_calls[t][n][2] = t
       /\ n = 3 => jni_calls[t][n][3][1] = jni_object[t]

(***************************************************************************)
(* A null result comes with an exception, and stays with it: so one that   *)
(* has not greeted has one pending.                                        *)
(***************************************************************************)
GreetingsCounted(t) ==
  /\ jni_pc[t] \in {"java", "prologue", "find"} => ~ jni_pending[t]
  /\ jni_pc[t] \in {"method", "restore"} =>
       (jni_pending[t] <=> jni_rax[t] = Native!Null)
  /\ jni_pc[t] = "java" => Len(jni_greeted[t]) = jni_requests[t]
  /\ jni_pc[t] \in {"prologue", "find", "method", "restore"} =>
       Len(jni_greeted[t]) = jni_requests[t] - 1
  /\ jni_pc[t] \in {"epilogue", "threw"} =>
       Len(jni_greeted[t]) \in {jni_requests[t] - 1, jni_requests[t]}
  /\ jni_pc[t] = "epilogue" /\ ~ jni_pending[t] => Len(jni_greeted[t]) = jni_requests[t]

JniInv ==
  /\ JniTypes
  /\ \A t \in Threads : OwnFrame(t) /\ CallsInOrder(t) /\ GreetingsCounted(t)

-----------------------------------------------------------------------------
JniStep(t) ==
  \/ Native!Request(t) \/ Native!Prologue(t) \/ Native!FindClass(t)
  \/ Native!GetMethodID(t) \/ Native!CallVoidMethod(t) \/ Native!Return(t)

\* What a thread can see of its own.
View(t) == <<jni_pc[t], jni_rdi[t], jni_rsi[t], jni_rax[t], jni_frame[t], jni_object[t],
             jni_pending[t], jni_requests[t], jni_calls[t], jni_greeted[t]>>

LEMMA FunctionsReached ==
  /\ Native!Function(Native!Offsets.find) = "FindClass"
  /\ Native!Function(Native!Offsets.method) = "GetMethodID"
  /\ Native!Function(Native!Offsets.call) = "CallVoidMethod"
  BY DEF Native!Function, Native!Offsets

LEMMA ProtocolOrder ==
  /\ DOMAIN Native!Protocol = 1 .. 3
  /\ Native!Protocol[1] = "FindClass" /\ Native!Protocol[2] = "GetMethodID"
  /\ Native!Protocol[3] = "CallVoidMethod"
  BY DEF Native!Protocol

\* One call more, by a thread on its own JNIEnv.
LEMMA CallAppended ==
  ASSUME NEW s \in Seq(Call), NEW c \in Call
  PROVE  /\ Append(s, c) \in Seq(Call) /\ Len(Append(s, c)) = Len(s) + 1 /\ Len(s) \in Nat
         /\ \A n \in 1 .. Len(s) : Append(s, c)[n] = s[n]
         /\ Append(s, c)[Len(s) + 1] = c
  BY AppendProperties, LenProperties

Frame == [env : Threads \cup {Native!Null}, obj : Objects \cup {Native!Null},
          table : {Native!Null, Native!Table}, class : {Native!Null, "class"},
          method : {Native!Null, "method"}]

LEMMA FrameTyped ==
  /\ Native!Empty \in Frame
  /\ \A f \in Frame, v \in {Native!Null, "class"} : [f EXCEPT !.class = v] \in Frame
  /\ \A f \in Frame, v \in {Native!Null, "method"} : [f EXCEPT !.method = v] \in Frame
  BY DEF Frame, Native!Empty

LEMMA FrameOf == ASSUME Native!TypeOK PROVE \A t \in Threads : jni_frame[t] \in Frame
  BY DEF Native!TypeOK, Frame

LEMMA JniInit == ASSUME Native!Init PROVE JniInv
<1>1. MaxRequests \in Nat
  BY RoutinesAssumption DEF Native!JniAssumption
<1>2. JniTypes
  <2>1. Native!TypeOK
    <3>1. \A t \in Threads : jni_frame[t] \in Frame
      BY FrameTyped DEF Native!Init
    <3>2. \A t \in Threads : jni_object[t] \in Objects /\ jni_requests[t] \in 0 .. MaxRequests
      BY <1>1 DEF Native!Init
    <3>3. \A t \in Threads :
            /\ jni_pc[t] = "java" /\ jni_rdi[t] = Native!Null /\ jni_rsi[t] = Native!Null
            /\ jni_rax[t] = Native!Null /\ jni_pending[t] = FALSE /\ jni_crashed = FALSE
      BY DEF Native!Init
    <3> QED
      BY <3>1, <3>2, <3>3 DEF Native!TypeOK, Frame
  <2> QED
    BY <2>1 DEF Native!Init, JniTypes
<1>3. ASSUME NEW t \in Threads PROVE OwnFrame(t) /\ CallsInOrder(t) /\ GreetingsCounted(t)
  BY <1>3 DEF Native!Init, OwnFrame, CallsInOrder, GreetingsCounted
<1> QED
  BY <1>2, <1>3 DEF JniInv

\* A step of one thread is none for the others.
LEMMA OthersStay ==
  ASSUME JniTypes, NEW u \in Threads, JniStep(u), NEW t \in Threads, t # u
  PROVE  View(t)' = View(t)
<1> USE DEF JniTypes, View, Native!Goto
<1>1. CASE Native!Request(u)
  BY <1>1 DEF Native!Request
<1>2. CASE Native!Prologue(u)
  BY <1>2 DEF Native!Prologue
<1>3. CASE Native!FindClass(u)
  BY <1>3 DEF Native!FindClass, Native!Record
<1>4. CASE Native!GetMethodID(u)
  BY <1>4 DEF Native!GetMethodID
<1>5. CASE Native!CallVoidMethod(u)
  BY <1>5 DEF Native!CallVoidMethod
<1>6. CASE Native!Return(u)
  BY <1>6 DEF Native!Return
<1> QED
  BY <1>1, <1>2, <1>3, <1>4, <1>5, <1>6 DEF JniStep

LEMMA OwnFrameStep ==
  ASSUME JniTypes, NEW u \in Threads, JniStep(u), OwnFrame(u)
  PROVE  OwnFrame(u)'
<1> USE DEF JniTypes, OwnFrame, Native!Goto
<1>0. jni_frame[u] \in [env : Threads \cup {Native!Null}, obj : Objects \cup {Native!Null},
         table : {Native!Null, Native!Table}, class : {Native!Null, "class"},
         method : {Native!Null, "method"}]
  BY FrameOf DEF Frame
<1>1. CASE Native!Request(u)
  BY <1>1 DEF Native!Request
<1>2. CASE Native!Prologue(u)
  BY <1>2 DEF Native!Prologue, Native!Empty
<1>3. CASE Native!FindClass(u)
  BY <1>0, <1>3 DEF Native!FindClass, Native!Record
<1>4. CASE Native!GetMethodID(u)
  BY <1>0, <1>4 DEF Native!GetMethodID
<1>5. CASE Native!CallVoidMethod(u)
  BY <1>5 DEF Native!CallVoidMethod
<1>6. CASE Native!Return(u)
  BY <1>6 DEF Native!Return
<1> QED
  BY <1>1, <1>2, <1>3, <1>4, <1>5, <1>6 DEF JniStep

LEMMA ValuesAreArguments ==
  ASSUME JniTypes, NEW t \in Threads
  PROVE  /\ jni_rax[t] \in {Native!Null, Native!Table, "class", "method"}
         /\ jni_rsi[t] \in Argument /\ jni_object[t] \in Argument
  BY DEF JniTypes, Native!TypeOK, Argument

LEMMA CallsInOrderStep ==
  ASSUME JniTypes, NEW u \in Threads, JniStep(u), OwnFrame(u), CallsInOrder(u), GreetingsCounted(u)
  PROVE  CallsInOrder(u)' /\ jni_calls' \in [Threads -> Seq(Call)]
<1> USE FunctionsReached, ProtocolOrder DEF JniTypes
<1>0. jni_calls[u] \in Seq(Call) /\ Len(jni_calls[u]) \in Nat
  BY LenProperties
<1>1. CASE Native!Request(u)
  <2>1. jni_calls' = [jni_calls EXCEPT ![u] = <<>>] /\ jni_pc'[u] = "prologue"
    BY <1>1 DEF Native!Request, Native!Goto
  <2>2. jni_calls'[u] = <<>> /\ Len(jni_calls'[u]) = 0 /\ jni_calls' \in [Threads -> Seq(Call)]
    BY <2>1
  <2> QED
    BY <2>1, <2>2 DEF CallsInOrder
<1>2. CASE Native!Prologue(u)
  <2>1. UNCHANGED <<jni_calls, jni_object>> /\ jni_pc[u] = "prologue" /\ jni_pc'[u] = "find"
    BY <1>2 DEF Native!Prologue, Native!Goto
  <2> QED
    BY <2>1 DEF CallsInOrder
<1>3. CASE Native!FindClass(u)
  <2> DEFINE c == <<"FindClass", u, <<"name">> >>
  <2>1. /\ jni_calls' = [jni_calls EXCEPT ![u] = Append(@, c)]
        /\ jni_pc[u] = "find" /\ jni_pc'[u] = "method" /\ jni_object' = jni_object
    BY <1>3 DEF Native!FindClass, Native!Record, Native!Goto, OwnFrame
  <2>2. c \in Call
    <3>1. <<"name">> \in Seq(Argument)
      BY DEF Argument
    <3> QED
      BY <3>1 DEF Call
  <2>3. Len(jni_calls[u]) = 0
    BY <2>1 DEF CallsInOrder
  <2>4. jni_calls'[u] = Append(jni_calls[u], c)
    BY <2>1
  <2>5. /\ jni_calls'[u] \in Seq(Call) /\ Len(jni_calls'[u]) = 1 /\ jni_calls'[u][1] = c
    BY <1>0, <2>2, <2>3, <2>4, CallAppended
  <2>6. jni_calls' \in [Threads -> Seq(Call)]
    BY <2>1, <2>4, <2>5
  <2> QED
    BY <2>1, <2>5, <2>6 DEF CallsInOrder
<1>4. CASE Native!GetMethodID(u)
  <2> DEFINE c == <<"GetMethodID", u, <<jni_rax[u]>> >>
  <2>1. /\ jni_calls' = [jni_calls EXCEPT ![u] = Append(@, c)]
        /\ jni_pc[u] = "method" /\ jni_pc'[u] = "restore" /\ jni_object' = jni_object
        /\ jni_rax[u] \in {Native!Null, "class"}
    <3>1. /\ jni_pc[u] = "method" /\ jni_pc'[u] = "restore" /\ jni_object' = jni_object
          /\ jni_rdi'[u] = u /\ jni_rsi'[u] = jni_rax[u]
          /\ jni_calls' = [jni_calls EXCEPT ![u] =
               Append(@, <<"GetMethodID", jni_rdi'[u], <<jni_rsi'[u]>> >>)]
      BY <1>4 DEF Native!GetMethodID, Native!Goto, OwnFrame
    <3> QED
      BY <3>1 DEF OwnFrame
  <2>2. c \in Call
    <3>1. <<jni_rax[u]>> \in Seq(Argument)
      BY <2>1 DEF Argument
    <3> QED
      BY <3>1 DEF Call
  <2>3. Len(jni_calls[u]) = 1
    BY <2>1 DEF CallsInOrder
  <2>4. jni_calls'[u] = Append(jni_calls[u], c)
    BY <2>1
  <2>5. /\ jni_calls'[u] \in Seq(Call) /\ Len(jni_calls'[u]) = 2
        /\ jni_calls'[u][1] = jni_calls[u][1] /\ jni_calls'[u][2] = c
    <3>1. 1 \in 1 .. Len(jni_calls[u])
      BY <2>3
    <3>2. /\ Append(jni_calls[u], c) \in Seq(Call)
          /\ Len(Append(jni_calls[u], c)) = Len(jni_calls[u]) + 1
          /\ \A n \in 1 .. Len(jni_calls[u]) : Append(jni_calls[u], c)[n] = jni_calls[u][n]
          /\ Append(jni_calls[u], c)[Len(jni_calls[u]) + 1] = c
      BY <1>0, <2>2, CallAppended
    <3> HIDE DEF c
    <3> QED
      BY <3>1, <3>2, <2>3, <2>4
  <2>6. jni_calls' \in [Threads -> Seq(Call)]
    BY <2>1, <2>4, <2>5
  <2> QED
    BY <2>1, <2>3, <2>5, <2>6 DEF CallsInOrder
<1>5. CASE Native!CallVoidMethod(u)
  <2> DEFINE c == <<"CallVoidMethod", u, <<jni_object[u], jni_rax[u]>> >>
  <2>1. /\ jni_calls' = [jni_calls EXCEPT ![u] = Append(@, c)]
        /\ jni_pc[u] = "restore" /\ jni_pc'[u] = "epilogue" /\ jni_object' = jni_object
    <3>1. /\ jni_pc[u] = "restore" /\ jni_pc'[u] = "epilogue" /\ jni_object' = jni_object
          /\ jni_rdi'[u] = u /\ jni_rsi'[u] = jni_object[u]
          /\ jni_calls' = [jni_calls EXCEPT ![u] =
               Append(@, <<"CallVoidMethod", jni_rdi'[u], <<jni_rsi'[u], jni_rax[u]>> >>)]
      BY <1>5 DEF Native!CallVoidMethod, Native!Goto, OwnFrame
    <3> QED
      BY <3>1 DEF OwnFrame
  <2>2. c \in Call
    <3>1. <<jni_object[u], jni_rax[u]>> \in Seq(Argument)
      BY <2>1, ValuesAreArguments DEF Argument
    <3> QED
      BY <3>1 DEF Call
  <2>3. Len(jni_calls[u]) = 2
    BY <2>1 DEF CallsInOrder
  <2>4. jni_calls'[u] = Append(jni_calls[u], c)
    BY <2>1
  <2>5. /\ jni_calls'[u] \in Seq(Call) /\ Len(jni_calls'[u]) = 3
        /\ jni_calls'[u][1] = jni_calls[u][1] /\ jni_calls'[u][2] = jni_calls[u][2]
        /\ jni_calls'[u][3] = c
    <3>1. 1 \in 1 .. Len(jni_calls[u]) /\ 2 \in 1 .. Len(jni_calls[u])
      BY <2>3
    <3>2. /\ Append(jni_calls[u], c) \in Seq(Call)
          /\ Len(Append(jni_calls[u], c)) = Len(jni_calls[u]) + 1
          /\ \A n \in 1 .. Len(jni_calls[u]) : Append(jni_calls[u], c)[n] = jni_calls[u][n]
          /\ Append(jni_calls[u], c)[Len(jni_calls[u]) + 1] = c
      BY <1>0, <2>2, CallAppended
    <3> HIDE DEF c
    <3> QED
      BY <3>1, <3>2, <2>3, <2>4
  <2>6. jni_calls' \in [Threads -> Seq(Call)]
    BY <2>1, <2>4, <2>5
  <2> QED
    BY <2>1, <2>3, <2>5, <2>6 DEF CallsInOrder
<1>6. CASE Native!Return(u)
  <2>1. UNCHANGED <<jni_calls, jni_object>> /\ jni_pc'[u] \in {"java", "threw"}
    BY <1>6 DEF Native!Return, Native!Goto
  <2> QED
    BY <2>1 DEF CallsInOrder
<1> QED
  BY <1>1, <1>2, <1>3, <1>4, <1>5, <1>6 DEF JniStep

LEMMA GreetingsCountedStep ==
  ASSUME JniTypes, NEW u \in Threads, JniStep(u), OwnFrame(u), GreetingsCounted(u)
  PROVE  GreetingsCounted(u)' /\ jni_greeted' \in [Threads -> Seq(Argument)]
<1> USE FunctionsReached DEF JniTypes, Native!Goto
<1>0. /\ jni_greeted[u] \in Seq(Argument) /\ Len(jni_greeted[u]) \in Nat
      /\ jni_requests[u] \in Nat /\ jni_pending[u] \in BOOLEAN
  BY LenProperties DEF Native!TypeOK
<1>1. CASE Native!Request(u)
  BY <1>0, <1>1 DEF Native!Request, GreetingsCounted
<1>2. CASE Native!Prologue(u)
  BY <1>2 DEF Native!Prologue, GreetingsCounted
<1>3. CASE Native!FindClass(u)
  <2>1. /\ UNCHANGED <<jni_greeted, jni_requests>> /\ jni_pc[u] = "find" /\ jni_pc'[u] = "method"
        /\ jni_pending'[u] <=> jni_rax'[u] = Native!Null
    BY <1>3 DEF Native!FindClass
  <2> QED
    BY <2>1 DEF GreetingsCounted
<1>4. CASE Native!GetMethodID(u)
  <2>1. /\ UNCHANGED <<jni_greeted, jni_requests>> /\ jni_pc[u] = "method" /\ jni_pc'[u] = "restore"
        /\ jni_pending'[u] <=> (jni_pending[u] \/ jni_rax'[u] = Native!Null)
        /\ jni_rsi'[u] = jni_rax[u]
        /\ jni_rsi'[u] = Native!Null => jni_rax'[u] = Native!Null
    BY <1>4 DEF Native!GetMethodID
  <2> QED
    BY <2>1 DEF GreetingsCounted
<1>5. CASE Native!CallVoidMethod(u)
  <2>1. /\ UNCHANGED <<jni_requests, jni_rax>> /\ jni_pc[u] = "restore" /\ jni_pc'[u] = "epilogue"
        /\ jni_rsi'[u] = jni_object[u]
        /\ jni_rax[u] # Native!Null =>
             jni_greeted' = [jni_greeted EXCEPT ![u] = Append(@, jni_rsi'[u])]
        /\ jni_rax[u] = Native!Null =>
             jni_greeted' = jni_greeted /\ jni_pending'[u] = jni_pending[u]
    BY <1>0, <1>5 DEF Native!CallVoidMethod, OwnFrame
  <2>2. CASE jni_rax[u] = Native!Null
    BY <2>1, <2>2, <1>0 DEF GreetingsCounted
  <2>3. CASE jni_rax[u] # Native!Null
    <3>1. /\ jni_greeted' = [jni_greeted EXCEPT ![u] = Append(@, jni_object[u])]
          /\ jni_object[u] \in Argument
      BY <2>1, <2>3, ValuesAreArguments
    <3>2. /\ jni_greeted'[u] \in Seq(Argument) /\ Len(jni_greeted'[u]) = Len(jni_greeted[u]) + 1
      BY <3>1, <1>0, AppendProperties
    <3>3. jni_greeted' \in [Threads -> Seq(Argument)]
      BY <3>1, <3>2
    <3> QED
      BY <3>2, <3>3, <2>1, <1>0 DEF GreetingsCounted
  <2> QED
    BY <2>2, <2>3
<1>6. CASE Native!Return(u)
  BY <1>0, <1>6 DEF Native!Return, GreetingsCounted
<1> QED
  BY <1>1, <1>2, <1>3, <1>4, <1>5, <1>6 DEF JniStep

LEMMA JniTypesStep ==
  ASSUME JniInv, NEW u \in Threads, JniStep(u)
  PROVE  JniTypes'
<1>0. JniTypes /\ OwnFrame(u) /\ CallsInOrder(u) /\ GreetingsCounted(u)
  BY DEF JniInv
<1>1. jni_calls' \in [Threads -> Seq(Call)] /\ jni_greeted' \in [Threads -> Seq(Argument)]
  BY <1>0, CallsInOrderStep, GreetingsCountedStep
<1>2. MaxRequests \in Nat
  BY RoutinesAssumption DEF Native!JniAssumption
<1>3. /\ \A t \in Threads : jni_frame[t] \in Frame
      /\ jni_crashed \in BOOLEAN
  BY <1>0, FrameOf DEF JniTypes, Native!TypeOK
<1> USE DEF JniTypes, Native!Goto
<1>4. /\ Native!TypeOK' /\ jni_object' \in [Threads -> Objects]
      /\ DOMAIN jni_pc' = Threads /\ DOMAIN jni_rdi' = Threads /\ DOMAIN jni_rsi' = Threads
      /\ DOMAIN jni_rax' = Threads /\ DOMAIN jni_frame' = Threads
      /\ DOMAIN jni_pending' = Threads /\ jni_requests' \in [Threads -> Nat]
  <2>1. CASE Native!Request(u)
    BY <1>0, <1>2, <2>1 DEF Native!Request, Native!TypeOK
  <2>2. CASE Native!Prologue(u)
    <3>1. jni_rdi[u] \in Threads /\ jni_rsi[u] \in Objects
      BY <1>0, <2>2 DEF Native!Prologue, OwnFrame
    <3> QED
      BY <1>0, <2>2, <3>1 DEF Native!Prologue, Native!TypeOK, Native!Empty
  <2>3. CASE Native!FindClass(u)
    <3>1. PICK v \in {Native!Null, "class"} :
            /\ jni_rax' = [jni_rax EXCEPT ![u] = v]
            /\ jni_frame' = [jni_frame EXCEPT ![u].class = v]
            /\ jni_pending' = [jni_pending EXCEPT ![u] = v = Native!Null]
      BY <2>3 DEF Native!FindClass
    <3>2. \A t \in Threads : jni_frame'[t] \in Frame
      BY <1>0, <1>3, <3>1, FrameTyped
    <3> QED
      BY <1>0, <2>3, <3>1, <3>2 DEF Native!FindClass, Native!TypeOK, Frame
  <2>4. CASE Native!GetMethodID(u)
    <3>1. jni_rax[u] \in {Native!Null, "class"} /\ jni_frame[u].env \in Threads
      BY <1>0, <2>4 DEF Native!GetMethodID, OwnFrame
    <3>2. PICK v \in {Native!Null, "method"} :
            /\ jni_rax' = [jni_rax EXCEPT ![u] = v]
            /\ jni_frame' = [jni_frame EXCEPT ![u].method = v]
            /\ jni_pending' = [jni_pending EXCEPT ![u] = @ \/ v = Native!Null]
      BY <2>4 DEF Native!GetMethodID
    <3>3. \A t \in Threads : jni_frame'[t] \in Frame
      BY <1>0, <1>3, <3>2, FrameTyped
    <3>4. jni_crashed' \in BOOLEAN /\ \A t \in Threads : jni_pending'[t] \in BOOLEAN
      BY <1>0, <2>4, <3>2 DEF Native!GetMethodID, Native!TypeOK
    <3> QED
      BY <1>0, <2>4, <3>1, <3>2, <3>3, <3>4 DEF Native!GetMethodID, Native!TypeOK, Frame
  <2>5. CASE Native!CallVoidMethod(u)
    <3>1. jni_frame[u].env \in Threads /\ jni_frame[u].obj \in Objects
      BY <1>0, <2>5 DEF Native!CallVoidMethod, OwnFrame
    <3>2. PICK throws \in BOOLEAN : jni_pending' = [jni_pending EXCEPT ![u] = @ \/ throws]
      BY <2>5 DEF Native!CallVoidMethod
    <3>3. jni_crashed' \in BOOLEAN /\ \A t \in Threads : jni_pending'[t] \in BOOLEAN
      BY <1>0, <2>5, <3>2 DEF Native!CallVoidMethod, Native!TypeOK
    <3> QED
      BY <1>0, <2>5, <3>1, <3>2, <3>3 DEF Native!CallVoidMethod, Native!TypeOK
  <2>6. CASE Native!Return(u)
    BY <1>0, <2>6 DEF Native!Return, Native!TypeOK, Native!Empty
  <2> QED
    BY <2>1, <2>2, <2>3, <2>4, <2>5, <2>6 DEF JniStep
<1> QED
  BY <1>1, <1>4

LEMMA ViewDecides ==
  ASSUME NEW t \in Threads, View(t)' = View(t),
         OwnFrame(t) /\ CallsInOrder(t) /\ GreetingsCounted(t)
  PROVE  OwnFrame(t)' /\ CallsInOrder(t)' /\ GreetingsCounted(t)'
  BY DEF View, OwnFrame, CallsInOrder, GreetingsCounted

LEMMA JniInvStep == ASSUME JniInv, Native!Next PROVE JniInv'
<1>1. PICK u \in Threads : JniStep(u)
  BY DEF Native!Next, JniStep
<1>2. JniTypes'
  BY <1>1, JniTypesStep
<1>3. ASSUME NEW t \in Threads
      PROVE  OwnFrame(t)' /\ CallsInOrder(t)' /\ GreetingsCounted(t)'
  <2>1. JniTypes /\ OwnFrame(t) /\ CallsInOrder(t) /\ GreetingsCounted(t)
    BY <1>3 DEF JniInv
  <2>2. CASE t = u
    BY <1>1, <2>1, <2>2, OwnFrameStep, CallsInOrderStep, GreetingsCountedStep
  <2>3. CASE t # u
    BY <1>1, <2>1, <2>3, OthersStay, ViewDecides
  <2> QED
    BY <2>2, <2>3
<1> QED
  BY <1>2, <1>3 DEF JniInv

LEMMA JniStutter == ASSUME JniInv, UNCHANGED jni_vars PROVE JniInv'
<1>1. JniTypes'
  BY DEF JniInv, jni_vars, JniTypes, Native!TypeOK
<1>2. \A t \in Threads : OwnFrame(t)' /\ CallsInOrder(t)' /\ GreetingsCounted(t)'
  BY DEF JniInv, jni_vars, OwnFrame, CallsInOrder, GreetingsCounted
<1> QED
  BY <1>1, <1>2 DEF JniInv

\* Calls of the request, and greetings of all of them.
LEMMA JniSafe ==
  ASSUME JniInv
  PROVE  Native!TypeOK /\ Native!OwnCalls /\ Native!GreetsOrThrows
<1>1. Native!TypeOK
  BY DEF JniInv, JniTypes
<1>2. Native!OwnCalls
  <2> SUFFICES ASSUME NEW t \in Threads, NEW n \in DOMAIN jni_calls[t]
               PROVE  /\ n \in DOMAIN Native!Protocol /\ jni_calls[t][n][1] = Native!Protocol[n]
                      /\ jni_calls[t][n][2] = t
                      /\ n = 3 => jni_calls[t][3][3][1] = jni_object[t]
    BY DEF Native!OwnCalls
  <2>1. n \in 1 .. Len(jni_calls[t])
    BY LenProperties DEF JniInv, JniTypes
  <2> QED
    BY <2>1, ProtocolOrder DEF JniInv, CallsInOrder
<1>3. Native!GreetsOrThrows
  BY DEF JniInv, GreetingsCounted, Native!GreetsOrThrows
<1> QED
  BY <1>1, <1>2, <1>3

-----------------------------------------------------------------------------
(***************************************************************************)
(* The key parser: no separator of the text lies before the pointer, nor   *)
(* before what pcmpestri has found.                                        *)
(***************************************************************************)
NoneBefore(bound) == \A p \in Kv!InText : p >= bound

KvInv ==
  /\ Kv!TypeOK
  /\ kv_length \in Nat /\ kv_seps \subseteq Nat
  /\ kv_pc \in {"compare", "branch"} => kv_rdi < kv_length \/ kv_length = 0
  /\ kv_pc \in {"compare", "branch"} => NoneBefore(kv_rdi)
  /\ kv_pc = "branch" =>
       /\ NoneBefore(kv_rdi + kv_ecx)
       /\ kv_ecx < Chunk => kv_rdi + kv_ecx \in Kv!InText
  /\ kv_pc = "ret" /\ kv_eax = -1 => Kv!InText = {}
  /\ kv_pc = "ret" /\ kv_eax # -1 => kv_eax \in Kv!InText /\ NoneBefore(kv_eax)

-----------------------------------------------------------------------------
\* A set of naturals that is not empty has a least element, which Min gives.
\* A set of naturals that is not empty has a least element,
LEMMA Least ==
  ASSUME NEW S \in SUBSET Nat, S # {}
  PROVE  \E m \in S : \A p \in S : m <= p
<1> DEFINE R == OpToRel(<, Nat)
<1>1. \E m \in S : \A p \in S : ~ (<<p, m>> \in R)
  BY NatLessThanWellFounded, WFMin, Zenon
<1>2. PICK m \in S : \A p \in S : ~ (<<p, m>> \in R)
  BY <1>1
<1>3. \A k, l \in Nat : k < l => <<k, l>> \in R
  BY Zenon DEF OpToRel
<1> HIDE DEF R
<1>4. \A p \in S : ~ (p < m)
  BY <1>2, <1>3, Zenon
<1>5. \A p \in S : m <= p
  BY <1>4, SMT
<1> QED
  BY <1>5

LEMMA LeastNatural ==
  ASSUME NEW S \in SUBSET Nat, S # {}
  PROVE  Kv!Min(S) \in S /\ \A p \in S : Kv!Min(S) <= p
  BY Least DEF Kv!Min

LEMMA ChunkNat == Chunk \in Nat
  BY RoutinesAssumption DEF Kv!KvAssumption

LEMMA KvConstants == Chunk > 0 /\ Lengths \subseteq Nat /\ Behind \in Nat
  BY RoutinesAssumption DEF Kv!KvAssumption

\* A position in the chunk at r is e or more above r, and one behind it is.
LEMMA InChunkOrBehind ==
  ASSUME NEW r \in Int, NEW e \in Int, NEW size \in Nat, NEW p \in Int,
         e < size, p < r + size => e <= p - r
  PROVE  p >= r + e
  OBVIOUS

LEMMA KvInit == ASSUME Kv!Init PROVE KvInv
  BY ChunkNat, KvConstants DEF Kv!Init, KvInv, Kv!TypeOK, NoneBefore, Kv!InText

LEMMA KvStep == ASSUME KvInv, Kv!Next PROVE KvInv'
<1> USE ChunkNat
<1>0. /\ kv_rdi \in Nat /\ kv_r8d = kv_rdi /\ kv_length \in Nat /\ kv_seps \subseteq Nat
      /\ kv_esi = kv_length - kv_rdi /\ kv_ecx \in 0 .. Chunk /\ Chunk \in Nat /\ Chunk > 0
  BY KvConstants DEF KvInv, Kv!TypeOK
<1>a. \A p : p \in Kv!InText <=> p \in kv_seps /\ p < kv_length
  BY DEF Kv!InText
<1>1. CASE Kv!Compare
  <2> DEFINE found == {n \in 0 .. Chunk - 1 : n < kv_esi /\ kv_rdi + n \in kv_seps}
  <2>1. /\ kv_pc = "compare" /\ kv_pc' = "branch"
        /\ kv_ecx' = IF found = {} THEN Chunk ELSE Kv!Min(found)
        /\ UNCHANGED <<kv_length, kv_seps, kv_rdi, kv_r8d, kv_esi, kv_eax>>
    BY <1>1 DEF Kv!Compare
  <2>2. \A p \in Kv!InText : p >= kv_rdi /\ (p < kv_rdi + Chunk => p - kv_rdi \in found)
    <3> SUFFICES ASSUME NEW p \in Kv!InText
                 PROVE  p >= kv_rdi /\ (p < kv_rdi + Chunk => p - kv_rdi \in found)
      OBVIOUS
    <3>1. p \in Nat /\ p \in kv_seps /\ p < kv_length
      BY <1>0, <1>a
    <3>2. p >= kv_rdi
      BY <2>1 DEF KvInv, NoneBefore
    <3>3. kv_rdi + (p - kv_rdi) = p
      BY <1>0, <3>1
    <3> QED
      BY <1>0, <3>1, <3>2, <3>3
  <2>f. found \in SUBSET Nat /\ \A f \in found :
          f \in 0 .. Chunk - 1 /\ f < kv_esi /\ kv_rdi + f \in kv_seps
    OBVIOUS
  <2> HIDE DEF found
  <2>3. /\ kv_ecx' \in 0 .. Chunk
        /\ \A p \in Kv!InText : p >= kv_rdi + kv_ecx'
        /\ kv_ecx' < Chunk => kv_rdi + kv_ecx' \in Kv!InText
    <3>1. CASE found = {}
      <4>1. kv_ecx' = Chunk
        BY <2>1, <3>1
      <4>2. ASSUME NEW p \in Kv!InText PROVE p >= kv_rdi + Chunk
        <5>1. p \in Nat /\ ~ (p < kv_rdi + Chunk)
          BY <1>0, <1>a, <2>2, <3>1
        <5> QED
          BY <5>1, <1>0
      <4> QED
        BY <4>1, <4>2, <1>0
    <3>2. CASE found # {}
      <4>1. kv_ecx' \in found /\ \A f \in found : kv_ecx' <= f
        BY <2>1, <2>f, <3>2, LeastNatural
      <4>2. kv_ecx' \in 0 .. Chunk - 1 /\ kv_ecx' < kv_esi /\ kv_rdi + kv_ecx' \in kv_seps
        BY <2>f, <4>1
      <4>3. kv_rdi + kv_ecx' \in Kv!InText
        BY <4>2, <1>0, <1>a
      <4>4. ASSUME NEW p \in Kv!InText PROVE p >= kv_rdi + kv_ecx'
        <5>1. p \in Nat
          BY <1>0, <1>a
        <5>4. kv_rdi \in Int /\ kv_ecx' \in Int
          BY <1>0, <4>2
        <5>5. p \in Int
          BY <5>1
        <5>2. p < kv_rdi + Chunk => kv_ecx' <= p - kv_rdi
          BY <2>2, <4>1
        <5>3. kv_ecx' < Chunk
          BY <1>0, <4>2
        <5> QED
          BY ChunkNat, <5>4, <5>5, <5>2, <5>3, InChunkOrBehind, Zenon
      <4> QED
        BY <4>2, <4>3, <4>4
    <3> QED
      BY <3>1, <3>2
  <2> QED
    BY <2>1, <2>3, <1>0 DEF KvInv, Kv!TypeOK, NoneBefore, Kv!InText
<1>2. CASE Kv!Found
  BY <1>0, <1>2 DEF KvInv, Kv!TypeOK, Kv!Found, NoneBefore, Kv!InText
<1>3. CASE Kv!NextChunk
  <2>1. /\ kv_pc = "branch" /\ kv_rdi' = kv_rdi + Chunk /\ kv_r8d' = kv_rdi + Chunk
        /\ kv_esi' = kv_length - kv_rdi' /\ kv_ecx = Chunk
        /\ UNCHANGED <<kv_length, kv_seps, kv_ecx>> /\ kv_rdi' \in Nat
        /\ IF kv_esi' <= 0 THEN kv_pc' = "ret" /\ kv_eax' = -1
                           ELSE kv_pc' = "compare" /\ UNCHANGED kv_eax
    BY <1>0, <1>3 DEF Kv!NextChunk
  <2>2. \A p \in Kv!InText : p >= kv_rdi'
    BY <2>1 DEF KvInv, NoneBefore
  <2>3. kv_esi' <= 0 => Kv!InText = {}
    <3>1. ASSUME kv_esi' <= 0, NEW p \in Kv!InText PROVE FALSE
      <4>1. p \in Nat /\ p < kv_length /\ p >= kv_rdi'
        BY <2>2, <1>0, <1>a
      <4>2. kv_length <= kv_rdi'
        BY <2>1, <3>1, <1>0
      <4> QED
        BY <4>1, <4>2, <2>1, <1>0
    <3> QED
      BY <3>1
  <2> QED
    BY <2>1, <2>2, <2>3, <1>0 DEF KvInv, Kv!TypeOK, NoneBefore, Kv!InText
<1> QED
  BY <1>1, <1>2, <1>3 DEF Kv!Next

LEMMA KvStutter == ASSUME KvInv, UNCHANGED kv_vars PROVE KvInv'
  BY DEF kv_vars, KvInv, Kv!TypeOK, NoneBefore, Kv!InText

LEMMA KvSafe ==
  ASSUME KvInv
  PROVE  Kv!TypeOK /\ Kv!FirstSeparator /\ Kv!ReadsOnlyTouchingChunks
<1>1. Kv!TypeOK /\ Kv!ReadsOnlyTouchingChunks
  BY DEF KvInv, Kv!ReadsOnlyTouchingChunks
<1>2. ASSUME kv_pc = "ret" PROVE kv_eax = IF Kv!InText = {} THEN -1 ELSE Kv!Min(Kv!InText)
  <2>1. Kv!InText \in SUBSET Nat
    BY DEF KvInv, Kv!InText
  <2>2. CASE kv_eax = -1
    BY <1>2, <2>2 DEF KvInv
  <2>3. CASE kv_eax # -1
    <3>1. kv_eax \in Kv!InText /\ \A p \in Kv!InText : p >= kv_eax
      BY <1>2, <2>3 DEF KvInv, NoneBefore
    <3>2. /\ Kv!Min(Kv!InText) \in Kv!InText
          /\ \A p \in Kv!InText : Kv!Min(Kv!InText) <= p
      BY <3>1, <2>1, LeastNatural
    <3>3. kv_eax \in Nat /\ Kv!Min(Kv!InText) \in Nat
      BY <2>1, <3>1, <3>2
    <3>4. kv_eax >= Kv!Min(Kv!InText) /\ Kv!Min(Kv!InText) >= kv_eax
      BY <3>1, <3>2
    <3> QED
      BY <3>1, <3>3, <3>4
  <2> QED
    BY <2>2, <2>3
<1> QED
  BY <1>1, <1>2 DEF Kv!FirstSeparator

-----------------------------------------------------------------------------
(***************************************************************************)
(* The compressor: where its cursors are at each label, so that each of    *)
(* the two groups it copies is entered before the next is; that the shift  *)
(* register has kept step with the cursor; and what the block holds.       *)
(***************************************************************************)
Allocated == {"zero", "copyFirst"}
Grouped   == {"next", "start", "lookup", "compare", "writeDict", "rotateRegs"}

\* The block with the first group in it, and with both.
FirstGroup == [n \in 1 .. Ipc!Half + 1 |-> IF n = 1 THEN 0 ELSE ipc_src[n - 1]]
BothGroups == [n \in 1 .. 2 * (Ipc!Half + 1) |->
  IF n = 1 \/ n = Ipc!Half + 2 THEN 0
  ELSE IF n <= Ipc!Half + 1 THEN ipc_src[n - 1] ELSE ipc_src[n - 2]]

Cursors ==
  /\ ipc_pc \in {"generate", "entry"} \cup Allocated => ipc_r14 = 1 /\ ipc_r12 = 0
  /\ ipc_pc \in {"first", "copyNext"} => ipc_r12 = Ipc!Half + 1 /\ ipc_r8 = Ipc!Half + 1
  /\ ipc_pc = "first" => ipc_r14 \in 1 .. Ipc!Half
  /\ ipc_pc = "copyNext" => ipc_r14 = Ipc!Half + 1
  /\ ipc_pc = "next" => ipc_r14 \in Ipc!Half + 1 .. XmmBytes /\ ipc_r8 = XmmBytes + 1
  /\ ipc_pc \in {"start", "lookup", "compare", "writeDict"} => ipc_r14 = XmmBytes + 1
  /\ ipc_pc \in {"lookup", "compare"} => ipc_rdx = XmmBytes
  /\ ipc_pc = "compare" => ipc_rcx \in 1 .. XmmBytes

\* The register of indices is shifted as far as the cursor has moved, and the
\* other two hold the bytes at it and behind it.
Registers ==
  /\ ipc_pc \in {"first", "copyNext", "next"} =>
       \A n \in Ipc!Lane : ipc_r14 + n <= XmmBytes => ipc_xmm0[n] = Ipc!Index(ipc_r14 + n)
  /\ ipc_pc \in {"first", "copyNext", "next", "start"} => ipc_xmm15 = Ipc!Loaded(XmmBytes + 1)
  /\ ipc_pc = "lookup" => ipc_xmm0[0] = Ipc!Index(ipc_r14)
  /\ ipc_pc \in {"lookup", "compare"} => ipc_xmm14 = Ipc!Loaded(ipc_r14)

Block ==
  /\ ipc_pc \in {"generate", "entry"} => ipc_dst = <<>>
  /\ ipc_pc \in Allocated => ipc_dst = <<0>>
  /\ ipc_pc \in {"first", "copyNext"} => ipc_dst = FirstGroup
  /\ ipc_pc \in Grouped => ipc_dst = BothGroups
  /\ ipc_pc = "returned" =>
       \/ ipc_popped = Ipc!Caller /\ ipc_dst = <<>>
       \/ ipc_popped \in Ipc!Addr \cup {Ipc!Null} /\ ipc_dst = BothGroups

\* Position a is the last before the cursor with that index; Null if there is none.
IsLast(a, index, cursor) ==
  /\ a = Ipc!Null \/ (a \in 1 .. cursor - 1 /\ Ipc!Index(a) = index)
  /\ \A b \in 1 .. cursor - 1 : Ipc!Index(b) = index => b <= a

Entries ==
  /\ ipc_pc = "zero" =>
       ipc_rcx \in Byte /\ \A j \in Byte : j > ipc_rcx => ipc_dict[j] = Ipc!Null
  /\ ipc_pc \in Ipc!Filling => \A j \in Byte : IsLast(ipc_dict[j], j, ipc_r14)
  /\ ipc_pc \in {"compare", "writeDict"} => \A j \in Byte : IsLast(ipc_dict[j], j, ipc_r14 + 1)

IpcTypes ==
  /\ ipc_pc \in {"generate", "entry", "first", "copyNext", "returned"} \cup Allocated \cup Grouped
  /\ ipc_symbol \in Seq(Byte) /\ ipc_symbol # <<>> /\ ipc_count \in Nat
  /\ ipc_src \in [Ipc!Addr -> Byte] /\ ipc_len \in Nat
  /\ ipc_dict \in [Byte -> Ipc!Addr \cup {Ipc!Null}]
  /\ ipc_r14 \in 1 .. XmmBytes + 2
  /\ ipc_rcx \in Byte \cup 0 .. XmmBytes \cup {-1}
  /\ ipc_popped \in Ipc!Addr \cup {Ipc!Null, Ipc!Caller, Ipc!Nobody}

RegisterTypes ==
  /\ ipc_xmm0 \in [Ipc!Lane -> Byte]
  /\ ipc_xmm14 \in [Ipc!Lane -> Byte]
  /\ ipc_xmm15 \in [Ipc!Lane -> Byte]

IpcInv == IpcTypes /\ RegisterTypes /\ Cursors /\ Registers /\ Block /\ Entries

-----------------------------------------------------------------------------
LEMMA IpcConstants ==
  /\ Ipc!Half \in Nat /\ Ipc!Half > 0 /\ XmmBytes = 2 * Ipc!Half /\ XmmBytes \in Nat
  /\ Byte \subseteq Nat /\ 0 \in Byte /\ 1 \in Byte
  /\ Header \in Nat /\ Repeats \subseteq Nat /\ MaxSym \in Nat
<1>1. /\ XmmBytes \in Nat /\ XmmBytes % 2 = 0 /\ XmmBytes > 0 /\ Byte \subseteq Nat
      /\ {0, 1} \subseteq Byte /\ Header \in Nat /\ Repeats \subseteq Nat /\ MaxSym \in Nat
  BY RoutinesAssumption DEF Ipc!IpcAssumption
<1> QED
  BY <1>1 DEF Ipc!Half

\* A remainder counts from 0.
LEMMA Remainder ==
  ASSUME NEW x \in Nat, NEW y \in Nat, y > 0
  PROVE  (x % y) + 1 \in 1 .. y
  OBVIOUS

\* pcmpestri's result is a position in the registers, or behind them; all
\* bytes before it agree or lie behind both lengths, and it does not.
LEMMA FirstOne ==
  ASSUME NEW old, NEW xmm, NEW oldLen, NEW newLen
  PROVE  LET d == Ipc!FirstDifference(old, xmm, oldLen, newLen)
             Differ(n) == IF n < oldLen /\ n < newLen THEN ipc_src[old + n] # xmm[n]
                                                      ELSE n < oldLen \/ n < newLen
         IN  /\ d \in 0 .. XmmBytes
             /\ \A n \in 0 .. XmmBytes - 1 : n < d => ~ Differ(n)
             /\ d < XmmBytes => Differ(d)
<1> DEFINE differ == {n \in 0 .. XmmBytes - 1 :
      IF n < oldLen /\ n < newLen THEN ipc_src[old + n] # xmm[n]
                                  ELSE n < oldLen \/ n < newLen}
           d == Ipc!FirstDifference(old, xmm, oldLen, newLen)
<1>1. d = IF differ = {} THEN XmmBytes ELSE CHOOSE n \in differ : \A m \in differ : n <= m
  BY DEF Ipc!FirstDifference, Ipc!Lane
<1>2. XmmBytes \in Nat /\ differ \in SUBSET Nat /\ \A n \in differ : n \in 0 .. XmmBytes - 1
  BY IpcConstants
<1>3. CASE differ = {}
  BY <1>1, <1>2, <1>3
<1>4. CASE differ # {}
  <2>1. d \in differ /\ \A m \in differ : d <= m
    <3> HIDE DEF differ
    <3> QED
      BY <1>1, <1>2, <1>4, LeastNatural DEF Kv!Min
  <2>2. \A n \in 0 .. XmmBytes - 1 : n < d => n \notin differ
    <3> HIDE DEF differ, d
    <3> QED
      BY <1>2, <2>1
  <2> QED
    BY <1>2, <2>1, <2>2
<1> QED
  BY <1>3, <1>4

\* The registers have an index for the least and the greatest byte.
LEMMA LargestByte == Ipc!Largest \in Byte /\ \A j \in Byte : j <= Ipc!Largest
<1>1. \E m \in Byte : \A j \in Byte : j <= m
  BY RoutinesAssumption DEF Ipc!IpcAssumption
<1> QED
  BY <1>1 DEF Ipc!Largest

LEMMA ByteBelow == ASSUME NEW b \in Byte, b # 0 PROVE b - 1 \in Byte
<1>1. 0 .. b \subseteq Byte /\ b \in Nat
  BY RoutinesAssumption DEF Ipc!IpcAssumption
<1> QED
  BY <1>1

LEMMA IndexIsByte ==
  ASSUME ipc_src \in [Ipc!Addr -> Byte], NEW a \in 1 .. 3 * XmmBytes - 1
  PROVE  Ipc!Index(a) \in Byte
<1>1. \A x, y \in Byte : Ipc!Xor(x, y) \in Byte
  BY RoutinesAssumption DEF Ipc!IpcAssumption
<1>2. a \in Ipc!Addr /\ a + 1 \in Ipc!Addr
  BY IpcConstants DEF Ipc!Addr
<1> QED
  BY <1>1, <1>2 DEF Ipc!Index

\* A register loaded from memory; the indices made of two that were; a shift.
LEMMA LoadedTyped ==
  ASSUME ipc_src \in [Ipc!Addr -> Byte], NEW a \in 1 .. 2 * XmmBytes + 1
  PROVE  Ipc!Loaded(a) \in [Ipc!Lane -> Byte]
<1>1. \A n \in Ipc!Lane : a + n \in Ipc!Addr
  BY IpcConstants DEF Ipc!Lane, Ipc!Addr
<1> QED
  BY <1>1 DEF Ipc!Loaded

LEMMA IndicesRight ==
  ASSUME ipc_src \in [Ipc!Addr -> Byte], NEW a \in 1 .. XmmBytes + 1
  PROVE  LET xmm == Ipc!Indices(Ipc!Loaded(a), Ipc!Loaded(a + XmmBytes))
         IN  xmm \in [Ipc!Lane -> Byte] /\ \A n \in Ipc!Lane : xmm[n] = Ipc!Index(a + n)
<1> DEFINE low  == Ipc!Loaded(a)
           high == Ipc!Loaded(a + XmmBytes)
           xmm  == Ipc!Indices(low, high)
<1>1. ASSUME NEW n \in Ipc!Lane PROVE xmm[n] = Ipc!Index(a + n)
  <2>1. xmm[n] = Ipc!Xor(low[n], IF n = XmmBytes - 1 THEN high[0] ELSE low[n + 1])
    BY DEF Ipc!Indices
  <2>2. low[n] = ipc_src[a + n]
    BY DEF Ipc!Loaded
  <2>3. (IF n = XmmBytes - 1 THEN high[0] ELSE low[n + 1]) = ipc_src[a + n + 1]
    <3>1. CASE n = XmmBytes - 1
      <4>1. 0 \in Ipc!Lane /\ (a + XmmBytes) + 0 = a + n + 1
        BY <3>1, IpcConstants DEF Ipc!Lane
      <4>2. high[0] = ipc_src[(a + XmmBytes) + 0]
        BY <4>1 DEF Ipc!Loaded
      <4> QED
        BY <3>1, <4>1, <4>2
    <3>2. CASE n # XmmBytes - 1
      <4>1. n + 1 \in Ipc!Lane /\ a + (n + 1) = a + n + 1
        BY <3>2, IpcConstants DEF Ipc!Lane
      <4>2. low[n + 1] = ipc_src[a + (n + 1)]
        BY <4>1 DEF Ipc!Loaded
      <4> QED
        BY <3>2, <4>1, <4>2
    <3> QED
      BY <3>1, <3>2
  <2> QED
    BY <2>1, <2>2, <2>3 DEF Ipc!Index
<1>2. ASSUME NEW n \in Ipc!Lane PROVE Ipc!Index(a + n) \in Byte
  <2>1. a + n \in 1 .. 3 * XmmBytes - 1
    BY IpcConstants DEF Ipc!Lane
  <2> QED
    BY <2>1, IndexIsByte
<1>3. xmm = [n \in Ipc!Lane |-> xmm[n]]
  BY DEF Ipc!Indices
<1> HIDE DEF xmm
<1>4. xmm \in [Ipc!Lane -> Byte]
  BY <1>1, <1>2, <1>3
<1> QED
  BY <1>1, <1>4 DEF xmm

LEMMA ShiftedRight ==
  ASSUME NEW xmm \in [Ipc!Lane -> Byte]
  PROVE  /\ Ipc!Shifted(xmm) \in [Ipc!Lane -> Byte]
         /\ \A n \in Ipc!Lane : n # XmmBytes - 1 => n + 1 \in Ipc!Lane /\ Ipc!Shifted(xmm)[n] = xmm[n + 1]
<1>1. \A n \in Ipc!Lane : n # XmmBytes - 1 => n + 1 \in Ipc!Lane
  BY IpcConstants DEF Ipc!Lane
<1> QED
  BY <1>1, IpcConstants DEF Ipc!Shifted

\* Its lowest byte is the index of the bytes at the cursor.
LEMMA LowestIndex ==
  ASSUME IpcInv, ipc_pc \in {"first", "next", "lookup"}
  PROVE  ipc_xmm0[0] = Ipc!Index(ipc_r14)
<1>1. CASE ipc_pc = "lookup"
  BY <1>1 DEF IpcInv, Registers
<1>2. CASE ipc_pc \in {"first", "next"}
  <2>1. 0 \in Ipc!Lane /\ ipc_r14 + 0 = ipc_r14 /\ ipc_r14 <= XmmBytes
    BY <1>2, IpcConstants DEF IpcInv, Cursors, Ipc!Lane
  <2>2. ipc_r14 + 0 <= XmmBytes => ipc_xmm0[0] = Ipc!Index(ipc_r14 + 0)
    BY <1>2, <2>1 DEF IpcInv, Registers
  <2> QED
    BY <2>1, <2>2
<1> QED
  BY <1>1, <1>2

\* The bytes of the groups are bytes of the message.
LEMMA GroupsTyped ==
  ASSUME ipc_src \in [Ipc!Addr -> Byte]
  PROVE  /\ \A n \in 1 .. Ipc!Half + 1 : FirstGroup[n] \in Byte
         /\ \A n \in 1 .. 2 * (Ipc!Half + 1) : BothGroups[n] \in Byte
<1>1. ASSUME NEW n \in 1 .. Ipc!Half + 1 PROVE FirstGroup[n] \in Byte
  <2>1. n # 1 => n - 1 \in Ipc!Addr
    BY IpcConstants DEF Ipc!Addr
  <2> QED
    BY <2>1, IpcConstants DEF FirstGroup
<1>2. ASSUME NEW n \in 1 .. 2 * (Ipc!Half + 1) PROVE BothGroups[n] \in Byte
  <2>1. /\ n # 1 /\ n <= Ipc!Half + 1 => n - 1 \in Ipc!Addr
        /\ n > Ipc!Half + 2 => n - 2 \in Ipc!Addr
    BY IpcConstants DEF Ipc!Addr
  <2>2. n # Ipc!Half + 2 /\ ~ (n <= Ipc!Half + 1) => n > Ipc!Half + 2
    BY IpcConstants
  <2> QED
    BY <2>1, <2>2, IpcConstants DEF BothGroups
<1> QED
  BY <1>1, <1>2

LEMMA IpcInit == ASSUME Ipc!Init PROVE IpcInv
<1>1. /\ ipc_pc = "generate" /\ ipc_count \in Repeats /\ ipc_dst = <<>>
      /\ ipc_symbol \in UNION {[1 .. n -> Byte] : n \in 1 .. MaxSym}
      /\ ipc_src = [a \in Ipc!Addr |-> 0] /\ ipc_len = 0
      /\ ipc_dict \in {[j \in Byte |-> a] : a \in {Ipc!Null, 1}}
      /\ ipc_r14 = 1 /\ ipc_r12 = 0 /\ ipc_rcx = 0 /\ ipc_popped = Ipc!Nobody
  BY DEF Ipc!Init
<1>2. ipc_symbol \in Seq(Byte) /\ ipc_symbol # <<>>
  <2>1. PICK n \in 1 .. MaxSym : ipc_symbol \in [1 .. n -> Byte]
    BY <1>1
  <2>2. n \in Nat /\ n > 0
    BY IpcConstants
  <2>3. ipc_symbol \in Seq(Byte) /\ Len(ipc_symbol) = n
    BY <2>1, <2>2
  <2> QED
    BY <2>2, <2>3
<1>3. 1 \in Ipc!Addr
  BY IpcConstants DEF Ipc!Addr
<1>4. IpcTypes
  BY <1>1, <1>2, <1>3, IpcConstants DEF IpcTypes
<1>5. RegisterTypes
  <2>1. ipc_xmm0 = [n \in Ipc!Lane |-> 0] /\ ipc_xmm14 = ipc_xmm0 /\ ipc_xmm15 = ipc_xmm0
    BY DEF Ipc!Init
  <2> QED
    BY <2>1, IpcConstants DEF RegisterTypes
<1> QED
  BY <1>1, <1>4, <1>5 DEF IpcInv, Cursors, Registers, Block, Entries, Allocated, Grouped, Ipc!Filling

LEMMA IpcTypesStep == ASSUME IpcInv, Ipc!Next PROVE IpcTypes'
<1> USE IpcConstants DEF IpcTypes, Ipc!Goto
<1>0. IpcTypes
  BY DEF IpcInv
<1>1. CASE Ipc!Generate
  <2>1. /\ ipc_pc' = "entry" /\ ipc_len' = Header + ipc_count * Len(ipc_symbol)
        /\ ipc_src' = [a \in Ipc!Addr |->
               CASE a = 1 -> 1
                 [] a > Header /\ a <= ipc_len' -> ipc_symbol[((a - Header - 1) % Len(ipc_symbol)) + 1]
                 [] OTHER -> 0]
        /\ UNCHANGED <<ipc_symbol, ipc_count, ipc_dict, ipc_r14, ipc_rcx, ipc_popped>>
    BY <1>1 DEF Ipc!Generate
  <2>2. Len(ipc_symbol) \in Nat /\ Len(ipc_symbol) > 0
    BY <1>0
  <2>3. ASSUME NEW a \in Ipc!Addr, a > Header
        PROVE  ipc_symbol[((a - Header - 1) % Len(ipc_symbol)) + 1] \in Byte
    <3>1. a - Header - 1 \in Nat
      BY <2>3 DEF Ipc!Addr
    <3>2. ((a - Header - 1) % Len(ipc_symbol)) + 1 \in 1 .. Len(ipc_symbol)
      BY <2>2, <3>1, Remainder
    <3> QED
      BY <1>0, <3>2, ElementOfSeq
  <2>4. ipc_src' \in [Ipc!Addr -> Byte]
    BY <2>1, <2>3
  <2>5. ipc_len' \in Nat
    BY <1>0, <2>1, <2>2
  <2> QED
    BY <1>0, <2>1, <2>4, <2>5
<1>2. CASE Ipc!NotAligned \/ Ipc!MallocFails
  BY <1>0, <1>2 DEF Ipc!NotAligned, Ipc!MallocFails
<1>3. CASE Ipc!MallocOk
  BY <1>0, <1>3, LargestByte DEF Ipc!MallocOk, Allocated
<1>4. CASE Ipc!ZeroDict
  <2>1. /\ ipc_pc = "zero" /\ ipc_pc' \in Allocated
        /\ ipc_dict' = [ipc_dict EXCEPT ![ipc_rcx] = Ipc!Null] /\ ipc_rcx' = ipc_rcx - 1
        /\ UNCHANGED <<ipc_symbol, ipc_count, ipc_src, ipc_len, ipc_r14, ipc_popped>>
    BY <1>4 DEF Ipc!ZeroDict, Allocated
  <2>2. ipc_rcx \in Byte
    BY <2>1 DEF IpcInv, Entries
  <2>3. ipc_rcx' \in Byte \cup {-1}
    BY <2>1, <2>2, ByteBelow
  <2> QED
    BY <1>0, <2>1, <2>3
<1>5. CASE Ipc!CopyFirst \/ Ipc!CopyNext \/ Ipc!StartReal
  BY <1>0, <1>5 DEF Ipc!CopyFirst, Ipc!CopyNext, Ipc!StartReal, Grouped
<1>6. CASE Ipc!EnterFirst \/ Ipc!EnterNext
  <2>1. ipc_r14 \in 1 .. XmmBytes
    BY <1>6 DEF Ipc!EnterFirst, Ipc!EnterNext, Ipc!Enter, IpcInv, Cursors
  <2>2. /\ ipc_pc' \in {"first", "copyNext"} \cup Grouped /\ ipc_r14' = ipc_r14 + 1
        /\ ipc_dict' = [ipc_dict EXCEPT ![Ipc!Index(ipc_r14)] = ipc_r14]
        /\ UNCHANGED <<ipc_symbol, ipc_count, ipc_src, ipc_len, ipc_rcx, ipc_popped>>
    BY <1>6, LowestIndex DEF Ipc!EnterFirst, Ipc!EnterNext, Ipc!Enter, Grouped
  <2>3. ipc_r14 \in Ipc!Addr
    BY <2>1 DEF Ipc!Addr
  <2> QED
    BY <1>0, <2>1, <2>2, <2>3
<1>7. CASE Ipc!Lookup
  <2>1. /\ ipc_pc = "lookup" /\ ipc_pc' \in Grouped
        /\ ipc_dict' = [ipc_dict EXCEPT ![Ipc!Index(ipc_r14)] = ipc_r14]
        /\ ipc_rcx' = ipc_dict[Ipc!Index(ipc_r14)]
        /\ UNCHANGED <<ipc_symbol, ipc_count, ipc_src, ipc_len, ipc_r14, ipc_popped>>
    BY <1>7, LowestIndex DEF Ipc!Lookup, Grouped
  <2>2. ipc_r14 = XmmBytes + 1 /\ \A j \in Byte : IsLast(ipc_dict[j], j, ipc_r14)
    BY <2>1 DEF IpcInv, Cursors, Entries, Ipc!Filling
  <2>3. Ipc!Index(ipc_r14) \in Byte
    BY <1>0, <2>2, IndexIsByte
  <2>4. ipc_rcx' \in 0 .. XmmBytes
    <3>1. IsLast(ipc_rcx', Ipc!Index(ipc_r14), XmmBytes + 1)
      BY <2>1, <2>2, <2>3
    <3>2. XmmBytes + 1 - 1 = XmmBytes
      OBVIOUS
    <3> QED
      BY <3>1, <3>2 DEF IsLast, Ipc!Null
  <2>5. ipc_r14 \in Ipc!Addr
    BY <2>2 DEF Ipc!Addr
  <2> QED
    BY <1>0, <2>1, <2>4, <2>5
<1>8. CASE Ipc!Compare
  <2>1. /\ ipc_pc' = "writeDict"
        /\ ipc_rcx' = Ipc!FirstDifference(ipc_rcx, ipc_xmm14, Ipc!AtMost(ipc_rdx), Ipc!AtMost(Ipc!End - ipc_rcx))
        /\ UNCHANGED <<ipc_symbol, ipc_count, ipc_src, ipc_len, ipc_dict, ipc_r14, ipc_popped>>
    BY <1>8 DEF Ipc!Compare
  <2>2. ipc_rcx' \in 0 .. XmmBytes
    BY <2>1, FirstOne
  <2> QED
    BY <1>0, <2>1, <2>2 DEF Grouped
<1>9. CASE Ipc!WriteDict
  <2>1. /\ ipc_pc = "writeDict" /\ ipc_pc' = "rotateRegs" /\ ipc_r14' = ipc_r14 + 1
        /\ UNCHANGED <<ipc_symbol, ipc_count, ipc_src, ipc_len, ipc_dict, ipc_rcx, ipc_popped>>
    BY <1>9 DEF Ipc!WriteDict
  <2>2. ipc_r14' \in 1 .. XmmBytes + 2
    BY <2>1 DEF IpcInv, Cursors
  <2> QED
    BY <1>0, <2>1, <2>2 DEF Grouped
<1>10. CASE Ipc!RotateRegs
  BY <1>0, <1>10 DEF Ipc!RotateRegs
<1> QED
  BY <1>1, <1>2, <1>3, <1>4, <1>5, <1>6, <1>7, <1>8, <1>9, <1>10 DEF Ipc!Next

LEMMA CursorsStep == ASSUME IpcInv, Ipc!Next PROVE Cursors'
<1> USE IpcConstants DEF Cursors, Ipc!Goto
<1>0. Cursors /\ IpcTypes
  BY DEF IpcInv
<1>1. CASE Ipc!Generate
  BY <1>0, <1>1 DEF Ipc!Generate, Allocated
<1>2. CASE Ipc!NotAligned \/ Ipc!MallocFails
  BY <1>0, <1>2 DEF Ipc!NotAligned, Ipc!MallocFails, Allocated
<1>3. CASE Ipc!MallocOk
  BY <1>0, <1>3 DEF Ipc!MallocOk, Allocated
<1>4. CASE Ipc!ZeroDict
  BY <1>0, <1>4 DEF Ipc!ZeroDict, Allocated
<1>5. CASE Ipc!CopyFirst
  BY <1>0, <1>5 DEF Ipc!CopyFirst, Allocated
<1>6. CASE Ipc!EnterFirst
  BY <1>0, <1>6 DEF Ipc!EnterFirst, Ipc!Enter, Allocated
<1>7. CASE Ipc!CopyNext
  BY <1>0, <1>7 DEF Ipc!CopyNext, Allocated
<1>8. CASE Ipc!EnterNext
  BY <1>0, <1>8 DEF Ipc!EnterNext, Ipc!Enter, Allocated
<1>9. CASE Ipc!StartReal
  BY <1>0, <1>9 DEF Ipc!StartReal, Allocated
<1>10. CASE Ipc!Lookup
  <2>1. /\ ipc_pc = "lookup" /\ ipc_pc' \in {"writeDict", "compare"}
        /\ ipc_pc' = "compare" => ipc_rcx' # Ipc!Null
        /\ ipc_rcx' = ipc_dict[Ipc!Index(ipc_r14)]
        /\ UNCHANGED <<ipc_r14, ipc_rdx>>
    BY <1>10, LowestIndex DEF Ipc!Lookup
  <2>2. ipc_r14 = XmmBytes + 1 /\ \A j \in Byte : IsLast(ipc_dict[j], j, ipc_r14)
    BY <1>0, <2>1 DEF IpcInv, Entries, Ipc!Filling
  <2>3. Ipc!Index(ipc_r14) \in Byte
    BY <1>0, <2>2, IndexIsByte DEF IpcTypes
  <2>4. ipc_pc' = "compare" => ipc_rcx' \in 1 .. XmmBytes
    <3>1. IsLast(ipc_rcx', Ipc!Index(ipc_r14), XmmBytes + 1)
      BY <2>1, <2>2, <2>3
    <3>2. XmmBytes + 1 - 1 = XmmBytes
      OBVIOUS
    <3> QED
      BY <2>1, <3>1, <3>2 DEF IsLast
  <2> QED
    BY <1>0, <2>1, <2>2, <2>4 DEF Allocated
<1>11. CASE Ipc!Compare
  BY <1>0, <1>11 DEF Ipc!Compare, Allocated
<1>12. CASE Ipc!WriteDict \/ Ipc!RotateRegs
  BY <1>0, <1>12 DEF Ipc!WriteDict, Ipc!RotateRegs, Allocated
<1> QED
  BY <1>1, <1>2, <1>3, <1>4, <1>5, <1>6, <1>7, <1>8, <1>9, <1>10, <1>11, <1>12 DEF Ipc!Next

\* What the two copies store, at the offsets they are made at.
LEMMA StoredFirst == ASSUME ipc_dst = << 0 >> PROVE Ipc!Store(0, 1) = FirstGroup
<1>1. ASSUME NEW n \in 1 .. Ipc!Half + 1 PROVE Ipc!Copied(0, 1)[n - 1] = FirstGroup[n]
  <2>1. n - 1 \in 0 .. 0 + Ipc!Half /\ 1 + (n - 1) - 0 - 1 = n - 1
    BY IpcConstants
  <2> QED
    BY <2>1 DEF Ipc!Copied, FirstGroup
<1>2. Ipc!Store(0, 1) = [n \in 1 .. Ipc!Half + 1 |-> Ipc!Copied(0, 1)[n - 1]]
  BY IpcConstants DEF Ipc!Store
<1>3. FirstGroup = [n \in 1 .. Ipc!Half + 1 |-> FirstGroup[n]]
  BY DEF FirstGroup
<1> QED
  BY <1>1, <1>2, <1>3

LEMMA StoredNext ==
  ASSUME ipc_dst = FirstGroup
  PROVE  Ipc!Store(Ipc!Half + 1, Ipc!Half + 1) = BothGroups
<1> DEFINE h == Ipc!Half + 1
<1>1. ASSUME NEW n \in 1 .. 2 * h
      PROVE  BothGroups[n] = IF n - 1 < h THEN ipc_dst[n] ELSE Ipc!Copied(h, h)[n - 1]
  <2>1. CASE n - 1 < h
    <3>1. n \in 1 .. Ipc!Half + 1 /\ n # Ipc!Half + 2
      BY <2>1, IpcConstants
    <3>2. ipc_dst[n] = IF n = 1 THEN 0 ELSE ipc_src[n - 1]
      BY <3>1 DEF FirstGroup
    <3>3. BothGroups[n] = IF n = 1 THEN 0 ELSE ipc_src[n - 1]
      BY <3>1, IpcConstants DEF BothGroups
    <3> QED
      BY <2>1, <3>2, <3>3
  <2>2. CASE ~ (n - 1 < h)
    <3>1. n - 1 \in h .. h + Ipc!Half /\ h + (n - 1) - h - 1 = n - 2 /\ n >= Ipc!Half + 2
      BY <2>2, IpcConstants
    <3>2. Ipc!Copied(h, h)[n - 1] = IF n - 1 = h THEN 0 ELSE ipc_src[n - 2]
      BY <3>1 DEF Ipc!Copied
    <3>3. /\ n - 1 = h => n = Ipc!Half + 2
          /\ n - 1 # h => n # 1 /\ n # Ipc!Half + 2 /\ ~ (n <= Ipc!Half + 1)
      BY <3>1, IpcConstants
    <3>4. BothGroups[n] = IF n - 1 = h THEN 0 ELSE ipc_src[n - 2]
      BY <3>3 DEF BothGroups
    <3> QED
      BY <2>2, <3>2, <3>4
  <2> QED
    BY <2>1, <2>2
<1>2. h + Ipc!Half + 1 = 2 * h
  BY IpcConstants
<1>3. Ipc!Store(h, h) = [n \in 1 .. 2 * h |-> IF n - 1 < h THEN ipc_dst[n] ELSE Ipc!Copied(h, h)[n - 1]]
  BY <1>2 DEF Ipc!Store
<1>4. BothGroups = [n \in 1 .. 2 * h |-> BothGroups[n]]
  BY DEF BothGroups
<1> HIDE DEF h
<1>5. Ipc!Store(h, h) = BothGroups
  BY <1>1, <1>3, <1>4
<1> QED
  BY <1>5 DEF h

LEMMA BlockStep == ASSUME IpcInv, Ipc!Next PROVE Block'
<1> USE DEF Block, Ipc!Goto
<1>0. Block /\ Cursors
  BY DEF IpcInv
<1>1. CASE Ipc!Generate
  BY <1>0, <1>1 DEF Ipc!Generate, Allocated, Grouped
<1>2. CASE Ipc!NotAligned \/ Ipc!MallocFails
  BY <1>0, <1>2 DEF Ipc!NotAligned, Ipc!MallocFails, Allocated, Grouped
<1>3. CASE Ipc!MallocOk
  BY <1>0, <1>3 DEF Ipc!MallocOk, Allocated, Grouped
<1>4. CASE Ipc!ZeroDict
  BY <1>0, <1>4 DEF Ipc!ZeroDict, Allocated, Grouped
<1>5. CASE Ipc!CopyFirst
  <2>1. ipc_pc = "copyFirst" /\ ipc_pc' = "first" /\ ipc_dst' = Ipc!Store(0, 1) /\ UNCHANGED ipc_src
    BY <1>0, <1>5 DEF Ipc!CopyFirst, Cursors, Allocated
  <2>2. ipc_dst' = FirstGroup
    BY <1>0, <2>1, StoredFirst DEF Allocated
  <2>3. FirstGroup' = FirstGroup
    BY <2>1 DEF FirstGroup
  <2> QED
    BY <2>1, <2>2, <2>3 DEF Allocated, Grouped
<1>6. CASE Ipc!CopyNext
  <2>1. /\ ipc_pc = "copyNext" /\ ipc_pc' = "next" /\ UNCHANGED ipc_src
        /\ ipc_dst' = Ipc!Store(Ipc!Half + 1, Ipc!Half + 1)
    BY <1>0, <1>6 DEF Ipc!CopyNext, Cursors
  <2>2. ipc_dst' = BothGroups
    BY <1>0, <2>1, StoredNext
  <2>3. BothGroups' = BothGroups
    BY <2>1 DEF BothGroups
  <2> QED
    BY <2>1, <2>2, <2>3 DEF Allocated, Grouped
<1>7. CASE Ipc!EnterFirst
  <2>1. ipc_pc = "first" /\ ipc_pc' \in {"first", "copyNext"} /\ UNCHANGED <<ipc_dst, ipc_src>>
    BY <1>7 DEF Ipc!EnterFirst, Ipc!Enter
  <2> QED
    BY <1>0, <2>1 DEF FirstGroup, Allocated, Grouped
<1>8. CASE Ipc!EnterNext \/ Ipc!StartReal \/ Ipc!Lookup \/ Ipc!Compare \/ Ipc!WriteDict
  <2>1. ipc_pc \in Grouped /\ ipc_pc' \in Grouped /\ UNCHANGED <<ipc_dst, ipc_src>>
    BY <1>8 DEF Ipc!EnterNext, Ipc!Enter, Ipc!StartReal, Ipc!Lookup, Ipc!Compare, Ipc!WriteDict, Grouped
  <2> QED
    BY <1>0, <2>1 DEF BothGroups, Allocated, Grouped
<1>9. CASE Ipc!RotateRegs
  <2>1. ipc_pc = "rotateRegs" /\ ipc_pc' = "returned" /\ ipc_popped' = ipc_dict[0] /\ UNCHANGED <<ipc_dst, ipc_src>>
    BY <1>9 DEF Ipc!RotateRegs
  <2>2. ipc_dict[0] \in Ipc!Addr \cup {Ipc!Null}
    BY IpcConstants DEF IpcInv, IpcTypes
  <2>3. ipc_dst = BothGroups /\ BothGroups' = BothGroups
    BY <1>0, <2>1 DEF BothGroups, Grouped
  <2> QED
    BY <2>1, <2>2, <2>3 DEF Allocated, Grouped, Ipc!Addr, Ipc!Null, Ipc!Caller
<1> QED
  BY <1>1, <1>2, <1>3, <1>4, <1>5, <1>6, <1>7, <1>8, <1>9 DEF Ipc!Next

\* Entering the position at the cursor keeps the entries the last ones.
LEMMA EnterLast ==
  ASSUME NEW d, NEW j, NEW c \in Nat, c > 0, IsLast(d, j, c)
  PROVE  IsLast(IF j = Ipc!Index(c) THEN c ELSE d, j, c + 1)
<1>1. \A b : b \in 1 .. (c + 1) - 1 <=> b \in 1 .. c - 1 \/ b = c
  OBVIOUS
<1>2. CASE j = Ipc!Index(c)
  BY <1>1, <1>2 DEF IsLast
<1>3. CASE j # Ipc!Index(c)
  BY <1>1, <1>3 DEF IsLast
<1> QED
  BY <1>2, <1>3

LEMMA EntriesStep == ASSUME IpcInv, Ipc!Next PROVE Entries'
<1> USE DEF Ipc!Goto
<1>0. Entries /\ Cursors /\ IpcTypes
  BY DEF IpcInv
<1>1. CASE Ipc!Generate \/ Ipc!NotAligned \/ Ipc!MallocFails
  BY <1>1 DEF Ipc!Generate, Ipc!NotAligned, Ipc!MallocFails, Entries, Ipc!Filling
<1>2. CASE Ipc!MallocOk
  <2>1. ipc_pc' = "zero" /\ ipc_rcx' = Ipc!Largest
    BY <1>2 DEF Ipc!MallocOk
  <2>2. Ipc!Largest \in Nat /\ \A j \in Byte : j \in Nat /\ ~ (j > Ipc!Largest)
    BY LargestByte, IpcConstants
  <2> QED
    BY <2>1, <2>2, LargestByte DEF Entries, Ipc!Filling
<1>3. CASE Ipc!ZeroDict
  <2>1. /\ ipc_pc = "zero" /\ ipc_pc' = (IF ipc_rcx = 0 THEN "copyFirst" ELSE "zero")
        /\ ipc_dict' = [ipc_dict EXCEPT ![ipc_rcx] = Ipc!Null] /\ ipc_rcx' = ipc_rcx - 1
        /\ UNCHANGED <<ipc_src, ipc_r14>>
    BY <1>3 DEF Ipc!ZeroDict
  <2>2. ipc_rcx \in Byte /\ ipc_r14 = 1 /\ \A j \in Byte : j > ipc_rcx => ipc_dict[j] = Ipc!Null
    BY <1>0, <2>1 DEF Entries, Cursors, Allocated
  <2>3. ASSUME NEW j \in Byte, j > ipc_rcx - 1 PROVE ipc_dict'[j] = Ipc!Null
    <3>1. j \in Nat /\ ipc_rcx \in Nat
      BY <2>2, IpcConstants
    <3>2. j > ipc_rcx \/ j = ipc_rcx
      BY <2>3, <3>1
    <3> QED
      BY <1>0, <2>1, <2>2, <3>2 DEF IpcTypes
  <2>4. CASE ipc_rcx = 0
    <3>1. ASSUME NEW j \in Byte PROVE IsLast(ipc_dict[j], j, ipc_r14)'
      <4>1. j > ipc_rcx - 1
        BY <2>4, IpcConstants
      <4>2. ipc_dict'[j] = Ipc!Null
        BY <2>3, <4>1
      <4>3. \A b : ~ (b \in 1 .. ipc_r14' - 1)
        BY <2>1, <2>2
      <4> QED
        BY <4>2, <4>3 DEF IsLast
    <3> QED
      BY <2>1, <2>4, <3>1 DEF Entries
  <2>5. CASE ipc_rcx # 0
    BY <2>1, <2>2, <2>3, <2>5, ByteBelow DEF Entries, Ipc!Filling
  <2> QED
    BY <2>4, <2>5
<1>4. CASE Ipc!CopyFirst \/ Ipc!CopyNext \/ Ipc!StartReal
  <2>1. /\ ipc_pc \in Ipc!Filling /\ ipc_pc' \in Ipc!Filling /\ ipc_pc' \notin {"zero", "compare", "writeDict"}
        /\ UNCHANGED <<ipc_src, ipc_dict, ipc_r14>>
    BY <1>4 DEF Ipc!CopyFirst, Ipc!CopyNext, Ipc!StartReal, Ipc!Filling
  <2> QED
    BY <1>0, <2>1 DEF Entries, IsLast, Ipc!Index
<1>5. CASE Ipc!EnterFirst \/ Ipc!EnterNext
  <2>1. /\ ipc_pc \in Ipc!Filling /\ ipc_pc' \notin {"zero", "compare", "writeDict"} /\ ipc_r14' = ipc_r14 + 1
        /\ ipc_dict' = [ipc_dict EXCEPT ![Ipc!Index(ipc_r14)] = ipc_r14]
        /\ UNCHANGED ipc_src
    BY <1>5, LowestIndex DEF Ipc!EnterFirst, Ipc!EnterNext, Ipc!Enter, Ipc!Filling
  <2>2. ipc_r14 \in Nat /\ ipc_r14 > 0
    BY <1>0, IpcConstants DEF IpcTypes
  <2>3. ASSUME NEW j \in Byte PROVE IsLast(ipc_dict[j], j, ipc_r14)'
    <3>1. IsLast(ipc_dict[j], j, ipc_r14)
      BY <1>0, <2>1 DEF Entries
    <3>2. ipc_dict'[j] = IF j = Ipc!Index(ipc_r14) THEN ipc_r14 ELSE ipc_dict[j]
      BY <1>0, <2>1 DEF IpcTypes
    <3>3. IsLast(ipc_dict'[j], j, ipc_r14')
      BY <2>1, <2>2, <3>1, <3>2, EnterLast
    <3> QED
      BY <2>1, <3>3 DEF IsLast, Ipc!Index
  <2> QED
    BY <2>1, <2>3 DEF Entries
<1>6. CASE Ipc!Lookup
  <2>1. /\ ipc_pc = "lookup" /\ ipc_pc' \in {"compare", "writeDict"}
        /\ ipc_dict' = [ipc_dict EXCEPT ![Ipc!Index(ipc_r14)] = ipc_r14]
        /\ UNCHANGED <<ipc_src, ipc_r14>>
    BY <1>6, LowestIndex DEF Ipc!Lookup
  <2>2. ipc_r14 \in Nat /\ ipc_r14 > 0
    BY <1>0, IpcConstants DEF IpcTypes
  <2>3. ASSUME NEW j \in Byte PROVE IsLast(ipc_dict[j], j, ipc_r14 + 1)'
    <3>1. IsLast(ipc_dict[j], j, ipc_r14)
      BY <1>0, <2>1 DEF Entries, Ipc!Filling
    <3>2. ipc_dict'[j] = IF j = Ipc!Index(ipc_r14) THEN ipc_r14 ELSE ipc_dict[j]
      BY <1>0, <2>1 DEF IpcTypes
    <3>3. IsLast(ipc_dict'[j], j, ipc_r14 + 1)
      BY <2>2, <3>1, <3>2, EnterLast
    <3> QED
      BY <2>1, <3>3 DEF IsLast, Ipc!Index
  <2> QED
    BY <2>1, <2>3 DEF Entries, Ipc!Filling
<1>7. CASE Ipc!Compare
  <2>1. /\ ipc_pc = "compare" /\ ipc_pc' = "writeDict" /\ UNCHANGED <<ipc_src, ipc_dict, ipc_r14>>
    BY <1>7 DEF Ipc!Compare
  <2> QED
    BY <1>0, <2>1 DEF Entries, IsLast, Ipc!Index, Ipc!Filling
<1>8. CASE Ipc!WriteDict
  <2>1. /\ ipc_pc = "writeDict" /\ ipc_pc' = "rotateRegs" /\ ipc_r14' = ipc_r14 + 1
        /\ UNCHANGED <<ipc_src, ipc_dict>>
    BY <1>8 DEF Ipc!WriteDict
  <2> QED
    BY <1>0, <2>1 DEF Entries, IsLast, Ipc!Index
<1>9. CASE Ipc!RotateRegs
  BY <1>9 DEF Ipc!RotateRegs, Entries, Ipc!Filling
<1> QED
  BY <1>1, <1>2, <1>3, <1>4, <1>5, <1>6, <1>7, <1>8, <1>9 DEF Ipc!Next

LEMMA RegistersStep == ASSUME IpcInv, Ipc!Next PROVE (RegisterTypes /\ Registers)'
<1> USE DEF Ipc!Goto
<1>0. IpcTypes /\ RegisterTypes /\ Registers /\ Cursors
  BY DEF IpcInv
<1>1. CASE Ipc!Generate \/ Ipc!NotAligned \/ Ipc!MallocFails \/ Ipc!MallocOk \/ Ipc!ZeroDict
           \/ Ipc!WriteDict \/ Ipc!RotateRegs
  <2>1. /\ ipc_pc' \notin {"first", "copyNext", "next", "start", "lookup", "compare"}
        /\ UNCHANGED <<ipc_xmm0, ipc_xmm14, ipc_xmm15>>
    BY <1>1 DEF Ipc!Generate, Ipc!NotAligned, Ipc!MallocFails, Ipc!MallocOk, Ipc!ZeroDict,
                Ipc!WriteDict, Ipc!RotateRegs, Ipc!xmms
  <2> QED
    BY <1>0, <2>1 DEF RegisterTypes, Registers
<1>2. CASE Ipc!CopyFirst
  <2>1. ipc_pc' = "first" /\ ipc_r14' = 1 /\ ipc_src' = ipc_src
    BY <1>0, <1>2 DEF Ipc!CopyFirst, Cursors, Allocated
  <2>2. /\ ipc_xmm14' = Ipc!Loaded(1) /\ ipc_xmm15' = Ipc!Loaded(XmmBytes + 1)
        /\ ipc_xmm0' = Ipc!Indices(Ipc!Loaded(1), Ipc!Loaded(1 + XmmBytes))
    <3>1. 1 + XmmBytes = XmmBytes + 1 /\ ipc_r14 = 1
      BY <1>0, <1>2, IpcConstants DEF Ipc!CopyFirst, Cursors, Allocated
    <3> QED
      BY <1>2, <3>1 DEF Ipc!CopyFirst
  <2>3. 1 \in 1 .. XmmBytes + 1 /\ 1 \in 1 .. 2 * XmmBytes + 1 /\ XmmBytes + 1 \in 1 .. 2 * XmmBytes + 1
    BY IpcConstants
  <2>4. ipc_xmm0' \in [Ipc!Lane -> Byte] /\ \A n \in Ipc!Lane : ipc_xmm0'[n] = Ipc!Index(1 + n)
    BY <1>0, <2>2, <2>3, IndicesRight DEF IpcTypes
  <2>5. ipc_xmm14' \in [Ipc!Lane -> Byte] /\ ipc_xmm15' \in [Ipc!Lane -> Byte]
    BY <1>0, <2>2, <2>3, LoadedTyped DEF IpcTypes
  <2>6. Ipc!Loaded(XmmBytes + 1)' = Ipc!Loaded(XmmBytes + 1) /\ \A n : Ipc!Index(n)' = Ipc!Index(n)
    BY <2>1 DEF Ipc!Loaded, Ipc!Index
  <2>7. RegisterTypes'
    BY <2>4, <2>5 DEF RegisterTypes
  <2> QED
    BY <2>1, <2>2, <2>4, <2>6, <2>7 DEF Registers, Ipc!Index
<1>3. CASE Ipc!CopyNext
  <2>1. /\ ipc_pc = "copyNext" /\ ipc_pc' = "next"
        /\ UNCHANGED <<ipc_src, ipc_r14, ipc_xmm0, ipc_xmm14, ipc_xmm15>>
    BY <1>3 DEF Ipc!CopyNext, Ipc!xmms
  <2> QED
    BY <1>0, <2>1 DEF RegisterTypes, Registers, Ipc!Index, Ipc!Loaded
<1>4. CASE Ipc!EnterFirst \/ Ipc!EnterNext
  <2>1. /\ ipc_pc \in {"first", "next"} /\ ipc_pc' \in {"first", "copyNext", "next", "start"}
        /\ ipc_r14' = ipc_r14 + 1 /\ ipc_xmm0' = Ipc!Shifted(ipc_xmm0)
        /\ UNCHANGED <<ipc_src, ipc_xmm14, ipc_xmm15>>
    BY <1>4 DEF Ipc!EnterFirst, Ipc!EnterNext, Ipc!Enter
  <2>2. RegisterTypes'
    BY <1>0, <2>1, ShiftedRight DEF RegisterTypes
  <2>3. ASSUME NEW n \in Ipc!Lane, ipc_r14 + 1 + n <= XmmBytes
        PROVE  ipc_xmm0'[n] = Ipc!Index(ipc_r14 + 1 + n)
    <3>1. /\ n # XmmBytes - 1 /\ ipc_r14 + (n + 1) <= XmmBytes
          /\ ipc_r14 + (n + 1) = ipc_r14 + 1 + n
      BY <1>0, <2>3, IpcConstants DEF IpcTypes, Ipc!Lane
    <3>2. n + 1 \in Ipc!Lane /\ ipc_xmm0'[n] = ipc_xmm0[n + 1]
      BY <1>0, <2>1, <3>1, ShiftedRight DEF RegisterTypes
    <3>3. ipc_xmm0[n + 1] = Ipc!Index(ipc_r14 + (n + 1))
      BY <1>0, <2>1, <3>1, <3>2 DEF Registers
    <3> QED
      BY <3>1, <3>2, <3>3
  <2>4. Ipc!Loaded(XmmBytes + 1)' = Ipc!Loaded(XmmBytes + 1)
    BY <2>1 DEF Ipc!Loaded
  <2> QED
    BY <1>0, <2>1, <2>2, <2>3, <2>4 DEF Registers, Ipc!Index
<1>5. CASE Ipc!StartReal
  <2>1. /\ ipc_pc = "start" /\ ipc_pc' = "lookup" /\ UNCHANGED <<ipc_src, ipc_r14>>
        /\ ipc_xmm14' = ipc_xmm15 /\ ipc_xmm15' = Ipc!Loaded(ipc_r14 + XmmBytes)
        /\ ipc_xmm0' = Ipc!Indices(ipc_xmm15, Ipc!Loaded(ipc_r14 + XmmBytes))
    BY <1>5 DEF Ipc!StartReal
  <2>2. ipc_r14 = XmmBytes + 1 /\ ipc_xmm15 = Ipc!Loaded(ipc_r14)
    BY <1>0, <2>1 DEF Cursors, Registers
  <2>3. ipc_r14 \in 1 .. XmmBytes + 1 /\ ipc_r14 + XmmBytes \in 1 .. 2 * XmmBytes + 1
    BY <2>2, IpcConstants
  <2>4. ipc_xmm0' \in [Ipc!Lane -> Byte] /\ \A n \in Ipc!Lane : ipc_xmm0'[n] = Ipc!Index(ipc_r14 + n)
    BY <1>0, <2>1, <2>2, <2>3, IndicesRight DEF IpcTypes
  <2>5. 0 \in Ipc!Lane /\ ipc_r14 + 0 = ipc_r14
    BY <2>3, IpcConstants DEF Ipc!Lane
  <2>6. RegisterTypes'
    BY <1>0, <2>1, <2>3, <2>4, LoadedTyped DEF RegisterTypes, IpcTypes
  <2>7. ipc_xmm0'[0] = Ipc!Index(ipc_r14)
    BY <2>4, <2>5
  <2> QED
    BY <2>1, <2>2, <2>6, <2>7 DEF Registers, Ipc!Index, Ipc!Loaded
<1>6. CASE Ipc!Lookup \/ Ipc!Compare
  <2>1. /\ ipc_pc' \in {"compare", "writeDict"} /\ ipc_pc \in {"lookup", "compare"}
        /\ UNCHANGED <<ipc_src, ipc_r14, ipc_xmm0, ipc_xmm14, ipc_xmm15>>
    BY <1>6 DEF Ipc!Lookup, Ipc!Compare, Ipc!xmms
  <2> QED
    BY <1>0, <2>1 DEF RegisterTypes, Registers, Ipc!Index, Ipc!Loaded
<1> QED
  BY <1>1, <1>2, <1>3, <1>4, <1>5, <1>6 DEF Ipc!Next

LEMMA IpcStep == ASSUME IpcInv, Ipc!Next PROVE IpcInv'
  BY IpcTypesStep, CursorsStep, RegistersStep, BlockStep, EntriesStep DEF IpcInv

LEMMA IpcStutter == ASSUME IpcInv, UNCHANGED ipc_vars PROVE IpcInv'
<1>1. IpcTypes' /\ Cursors' /\ RegisterTypes'
  BY DEF IpcInv, IpcTypes, Cursors, RegisterTypes, ipc_vars
<1>2. Block'
  <2>1. FirstGroup' = FirstGroup /\ BothGroups' = BothGroups
    BY DEF FirstGroup, BothGroups, ipc_vars
  <2> QED
    BY <2>1 DEF IpcInv, Block, ipc_vars
<1>3. Entries'
  BY DEF IpcInv, Entries, IsLast, Ipc!Index, ipc_vars
<1>4. Registers'
  BY DEF IpcInv, Registers, Ipc!Index, Ipc!Loaded, ipc_vars
<1> QED
  BY <1>1, <1>2, <1>3, <1>4 DEF IpcInv

LEMMA IpcSafe ==
  ASSUME IpcInv
  PROVE  Ipc!TypeOK /\ Ipc!DictIsLastPosition /\ Ipc!DstIsCopy /\ Ipc!ReturnsUnlessCompressing
<1>0. IpcTypes /\ RegisterTypes /\ Cursors /\ Block /\ Entries
  BY DEF IpcInv
<1>1. Ipc!TypeOK
  <2>1. (\A n \in DOMAIN ipc_dst : ipc_dst[n] \in Byte) /\ Len(ipc_dst) <= 2 * (Ipc!Half + 1)
    <3>1. ipc_dst \in {<<>>, <<0>>, FirstGroup, BothGroups}
      BY <1>0 DEF IpcTypes, Block
    <3>2. CASE ipc_dst \in {<<>>, <<0>>}
      BY <3>2, IpcConstants
    <3>3. CASE ipc_dst = FirstGroup
      <4>1. DOMAIN FirstGroup = 1 .. Ipc!Half + 1 /\ Len(FirstGroup) = Ipc!Half + 1
        BY IpcConstants DEF FirstGroup
      <4> QED
        BY <3>3, <4>1, <1>0, GroupsTyped, IpcConstants DEF IpcTypes
    <3>4. CASE ipc_dst = BothGroups
      <4>1. DOMAIN BothGroups = 1 .. 2 * (Ipc!Half + 1) /\ Len(BothGroups) = 2 * (Ipc!Half + 1)
        BY IpcConstants DEF BothGroups
      <4> QED
        BY <3>4, <4>1, <1>0, GroupsTyped, IpcConstants DEF IpcTypes
    <3> QED
      BY <3>1, <3>2, <3>3, <3>4
  <2> QED
    BY <1>0, <2>1 DEF IpcTypes, RegisterTypes, Ipc!TypeOK
<1>2. Ipc!DictIsLastPosition
  <2> SUFFICES ASSUME ipc_pc \in Ipc!Filling, NEW j \in Byte
               PROVE  LET before == {a \in 1 .. ipc_r14 - 1 : Ipc!Index(a) = j}
                      IN  ipc_dict[j] = IF before = {} THEN Ipc!Null
                                        ELSE CHOOSE a \in before : \A b \in before : b <= a
    BY DEF Ipc!DictIsLastPosition
  <2> DEFINE before == {a \in 1 .. ipc_r14 - 1 : Ipc!Index(a) = j}
  <2>1. IsLast(ipc_dict[j], j, ipc_r14)
    BY <1>0 DEF Entries
  <2>2. /\ ipc_dict[j] = Ipc!Null \/ ipc_dict[j] \in before
        /\ \A b \in before : b <= ipc_dict[j]
        /\ \A b \in before : b \in Nat /\ b > 0
    BY <2>1 DEF IsLast
  <2> HIDE DEF before
  <2>3. ipc_dict[j] = IF before = {} THEN Ipc!Null
                      ELSE CHOOSE a \in before : \A b \in before : b <= a
    <3>1. CASE before = {}
      BY <2>2, <3>1
    <3>2. CASE before # {}
      <4>1. ipc_dict[j] \in before
        BY <2>2, <3>2 DEF Ipc!Null
      <4>2. \A a \in before : (\A b \in before : b <= a) => a = ipc_dict[j]
        BY <2>2, <4>1
      <4>3. \E a \in before : \A b \in before : b <= a
        BY <2>2, <4>1
      <4> QED
        BY <3>2, <4>2, <4>3
    <3> QED
      BY <3>1, <3>2
  <2> QED
    BY <2>3 DEF before
<1>3. Ipc!DstIsCopy
  <2> SUFFICES ASSUME ipc_dst = BothGroups
               PROVE  ipc_dst = <<0>> \o [n \in 1 .. Ipc!Half |-> ipc_src[n]]
                        \o <<0>> \o [n \in 1 .. Ipc!Half |-> ipc_src[Ipc!Half + n]]
    BY <1>0 DEF Ipc!DstIsCopy, Block, Grouped
  <2> DEFINE h == Ipc!Half
             first == [n \in 1 .. h |-> ipc_src[n]]
             next  == [n \in 1 .. h |-> ipc_src[h + n]]
             copy  == <<0>> \o first \o <<0>> \o next
  <2>0. h \in Nat /\ h > 0
    BY IpcConstants
  <2>1. /\ first \in Seq(Byte) /\ next \in Seq(Byte) /\ Len(first) = h /\ Len(next) = h
        /\ <<0>> \in Seq(Byte)
    <3>1. \A n \in 1 .. h : n \in Ipc!Addr /\ h + n \in Ipc!Addr
      BY IpcConstants DEF Ipc!Addr
    <3>2. \A n \in 1 .. h : ipc_src[n] \in Byte /\ ipc_src[h + n] \in Byte
      BY <1>0, <3>1 DEF IpcTypes
    <3>3. first \in [1 .. h -> Byte] /\ next \in [1 .. h -> Byte]
      BY <3>2
    <3> QED
      BY <2>0, <3>3, IpcConstants
  <2>f. /\ \A n \in 1 .. h : first[n] = ipc_src[n]
        /\ \A n \in 1 .. h : next[n] = ipc_src[h + n]
    OBVIOUS
  <2> HIDE DEF first, next
  <2>2. /\ <<0>> \o first \in Seq(Byte) /\ Len(<<0>> \o first) = h + 1
        /\ (<<0>> \o first)[1] = 0
        /\ \A n \in 2 .. h + 1 : (<<0>> \o first)[n] = ipc_src[n - 1]
    BY <2>0, <2>1, <2>f
  <2> DEFINE one == <<0>> \o first
  <2> HIDE DEF one
  <2>3. /\ one \o <<0>> \in Seq(Byte) /\ Len(one \o <<0>>) = h + 2
        /\ (one \o <<0>>)[1] = 0 /\ (one \o <<0>>)[h + 2] = 0
        /\ \A n \in 2 .. h + 1 : (one \o <<0>>)[n] = ipc_src[n - 1]
    <3>1. one \in Seq(Byte) /\ Len(one) = h + 1 /\ one[1] = 0
          /\ \A n \in 2 .. h + 1 : one[n] = ipc_src[n - 1]
      BY <2>2 DEF one
    <3> HIDE DEF h
    <3> QED
      BY <2>0, <2>1, <3>1
  <2> DEFINE two == one \o <<0>>
  <2> HIDE DEF two
  <2>4. /\ two \o next \in Seq(Byte) /\ Len(two \o next) = 2 * (h + 1)
        /\ (two \o next)[1] = 0 /\ (two \o next)[h + 2] = 0
        /\ \A n \in 2 .. h + 1 : (two \o next)[n] = ipc_src[n - 1]
        /\ \A n \in h + 3 .. 2 * (h + 1) : (two \o next)[n] = ipc_src[n - 2]
    <3>1. /\ two \in Seq(Byte) /\ Len(two) = h + 2 /\ two[1] = 0 /\ two[h + 2] = 0
          /\ \A n \in 2 .. h + 1 : two[n] = ipc_src[n - 1]
      BY <2>3 DEF two
    <3> HIDE DEF h
    <3>2. two \o next \in Seq(Byte) /\ Len(two \o next) = 2 * (h + 1)
      BY <2>0, <2>1, <3>1
    <3>3. \A n \in 1 .. h + 2 : (two \o next)[n] = two[n]
      BY <2>0, <2>1, <3>1
    <3>4. ASSUME NEW n \in h + 3 .. 2 * (h + 1) PROVE (two \o next)[n] = ipc_src[n - 2]
      <4>1. (two \o next)[n] = next[n - (h + 2)] /\ n - (h + 2) \in 1 .. h
        BY <2>0, <2>1, <3>1
      <4>2. h + (n - (h + 2)) = n - 2
        BY <2>0
      <4> QED
        BY <2>f, <4>1, <4>2
    <3> QED
      BY <2>0, <3>1, <3>2, <3>3, <3>4
  <2>5. copy = two \o next
    BY DEF two, one
  <2>6. BothGroups \in [1 .. 2 * (h + 1) -> Byte]
    <3>1. \A n \in 1 .. 2 * (h + 1) : BothGroups[n] \in Byte
      BY <1>0, GroupsTyped DEF IpcTypes
    <3> QED
      BY <3>1 DEF BothGroups
  <2>7. ASSUME NEW n \in 1 .. 2 * (h + 1) PROVE BothGroups[n] = (two \o next)[n]
    <3>1. CASE n = 1 \/ n = h + 2
      BY <2>4, <3>1, <2>0 DEF BothGroups
    <3>2. CASE n \in 2 .. h + 1
      <4>1. n # 1 /\ n # h + 2 /\ n <= h + 1
        BY <3>2, <2>0
      <4> QED
        BY <2>4, <3>2, <4>1 DEF BothGroups
    <3>3. CASE n \in h + 3 .. 2 * (h + 1)
      <4>1. n # 1 /\ n # h + 2 /\ ~ (n <= h + 1)
        BY <3>3, <2>0
      <4> QED
        BY <2>4, <3>3, <4>1 DEF BothGroups
    <3>4. n = 1 \/ n = h + 2 \/ n \in 2 .. h + 1 \/ n \in h + 3 .. 2 * (h + 1)
      <4> HIDE DEF h
      <4> QED
        BY <2>0
    <3> QED
      BY <3>1, <3>2, <3>3, <3>4
  <2>8. BothGroups = two \o next
    <3>1. two \o next \in [1 .. 2 * (h + 1) -> Byte]
      BY <2>4, LenProperties
    <3> DEFINE whole == two \o next
    <3>2. whole \in [1 .. 2 * (h + 1) -> Byte]
      BY <3>1
    <3>3. \A n \in 1 .. 2 * (h + 1) : BothGroups[n] = whole[n]
      BY <2>7
    <3> HIDE DEF whole
    <3>4. whole = [n \in 1 .. 2 * (h + 1) |-> whole[n]]
      BY <3>2
    <3>5. BothGroups = [n \in 1 .. 2 * (h + 1) |-> BothGroups[n]]
      BY <2>6
    <3>6. BothGroups = whole
      BY <3>3, <3>4, <3>5
    <3> QED
      BY <3>6 DEF whole
  <2> QED
    BY <2>5, <2>8 DEF first, next
<1>4. Ipc!ReturnsUnlessCompressing
  <2>1. BothGroups # <<>>
    <3>1. DOMAIN BothGroups = 1 .. 2 * (Ipc!Half + 1) /\ DOMAIN <<>> = {}
      BY DEF BothGroups
    <3>2. 1 \in 1 .. 2 * (Ipc!Half + 1)
      BY IpcConstants
    <3> QED
      BY <3>1, <3>2
  <2>2. Ipc!Caller \notin Ipc!Addr \cup {Ipc!Null}
    BY DEF Ipc!Caller, Ipc!Addr, Ipc!Null
  <2> QED
    BY <1>0, <2>1, <2>2 DEF Block, Ipc!ReturnsUnlessCompressing
<1> QED
  BY <1>1, <1>2, <1>3, <1>4

LEMMA Below ==
  ASSUME NEW x \in Nat, NEW r \in 0 .. x
  PROVE  \A n \in 0 .. r - 1 : n \in 0 .. x - 1 /\ n < r
  OBVIOUS

LEMMA MatchStep ==
  ASSUME IpcInv, Ipc!Next, ipc_pc = "compare"
  PROVE  /\ \A n \in 0 .. ipc_rcx' - 1 : ipc_src[ipc_rcx + n] = ipc_src[ipc_r14 + n]
         /\ ipc_rcx' < Ipc!AtMost(Ipc!End - ipc_rcx) =>
              ipc_src[ipc_rcx + ipc_rcx'] # ipc_src[ipc_r14 + ipc_rcx']
<1>1. ipc_rcx' = Ipc!FirstDifference(ipc_rcx, ipc_xmm14, Ipc!AtMost(ipc_rdx), Ipc!AtMost(Ipc!End - ipc_rcx))
  BY DEF Ipc!Next, Ipc!Generate, Ipc!NotAligned, Ipc!MallocFails, Ipc!MallocOk, Ipc!ZeroDict,
     Ipc!CopyFirst, Ipc!EnterFirst, Ipc!CopyNext, Ipc!EnterNext, Ipc!Enter, Ipc!StartReal,
     Ipc!Lookup, Ipc!Compare, Ipc!WriteDict, Ipc!RotateRegs, Ipc!Goto
<1>2. Ipc!AtMost(ipc_rdx) = XmmBytes /\ XmmBytes \in Nat
  BY IpcConstants DEF IpcInv, Cursors, Ipc!AtMost
<1> DEFINE newLen == Ipc!AtMost(Ipc!End - ipc_rcx)
<1>3. newLen \in 0 .. XmmBytes
  <2>1. Ipc!End - ipc_rcx \in Int
    BY IpcConstants DEF IpcInv, IpcTypes, Cursors, Ipc!End
  <2> QED
    BY <2>1, <1>2 DEF Ipc!AtMost
<1> HIDE DEF newLen
<1>4. /\ ipc_rcx' \in 0 .. XmmBytes
      /\ \A n \in 0 .. XmmBytes - 1 : n < ipc_rcx' =>
           n < newLen /\ ipc_src[ipc_rcx + n] = ipc_src[ipc_r14 + n]
      /\ ipc_rcx' < newLen => ipc_src[ipc_rcx + ipc_rcx'] # ipc_src[ipc_r14 + ipc_rcx']
  <2>1. ipc_rcx' = Ipc!FirstDifference(ipc_rcx, ipc_xmm14, XmmBytes, newLen)
    BY <1>1, <1>2 DEF newLen
  <2>2. \A n \in 0 .. XmmBytes - 1 : ipc_xmm14[n] = ipc_src[ipc_r14 + n]
    BY DEF IpcInv, Registers, Ipc!Loaded, Ipc!Lane
  <2>3. /\ ipc_rcx' \in 0 .. XmmBytes
        /\ \A n \in 0 .. XmmBytes - 1 : n < ipc_rcx' =>
             n < newLen /\ ipc_src[ipc_rcx + n] = ipc_xmm14[n]
        /\ ipc_rcx' < newLen => ipc_src[ipc_rcx + ipc_rcx'] # ipc_xmm14[ipc_rcx']
    BY <1>2, <1>3, <2>1, FirstOne
  <2>4. ipc_rcx' < newLen => ipc_rcx' \in 0 .. XmmBytes - 1
    BY <1>2, <1>3, <2>3
  <2> QED
    BY <2>2, <2>3, <2>4
<1>5. \A n \in 0 .. ipc_rcx' - 1 : n \in 0 .. XmmBytes - 1 /\ n < ipc_rcx'
  <2>1. ipc_rcx' \in 0 .. XmmBytes
    BY <1>4
  <2> QED
    BY <1>2, <2>1, Below, Zenon
<1> QED
  BY <1>4, <1>5 DEF newLen

-----------------------------------------------------------------------------
(***************************************************************************)
(* The relocations: how far someRelocations is, what it has printed by     *)
(* then, what the step before has left in its registers, and where the     *)
(* slots lead.                                                             *)
(***************************************************************************)
Todo(n) == SubSeq(Reloc!Program(rel_variant), n + 1, Len(Reloc!Program(rel_variant)))

Said(v, n) ==
  CASE v \in {"@got", "@gotpcrel"} -> IF n < 2 THEN <<>> ELSE <<"Hello!">>
    [] v = "@gotoff" -> IF n < 2 THEN <<>> ELSE IF n < 4 THEN <<"Hello!">> ELSE <<"Hello!", "Goodbye!">>
    [] v = "@gotplt" -> IF n < 1 THEN <<>> ELSE IF n < 3 THEN <<"Hello!">> ELSE <<"Hello!", "Hello!">>
    [] v = "@plt"    -> IF n < 1 THEN <<>> ELSE <<"Hello!">>
    [] v = "@pltoff" -> IF n < 3 THEN <<>> ELSE IF n < 4 THEN <<"Goodbye!">> ELSE <<"Goodbye!", "Goodbye!">>

Progress ==
  /\ rel_pc = "lib" => rel_calls > 0
  /\ rel_pc = "lib" =>
       \E n \in 0 .. Len(Reloc!Program(rel_variant)) :
         rel_todo = Todo(n) /\ rel_printed = Said(rel_variant, n)
  /\ rel_pc = "main" =>
       rel_printed = IF rel_calls = 0 THEN <<>> ELSE Reloc!Expected

\* A slot that leads to s, bound or not.
LeadsTo(s) == {Reloc!Function(s), Reloc!PltEntry(s) + Reloc!Jmp}

SlotsLead ==
  /\ DOMAIN rel_slots = {Reloc!SlotOf(s) : s \in Reloc!Symbols}
  /\ \A s \in Reloc!Symbols :
       rel_slots[Reloc!SlotOf(s)] \in
         IF rel_variant = "@pltoff" /\ s = "sayHello" THEN LeadsTo(s) \cup LeadsTo("sayGoodbye")
                                                       ELSE LeadsTo(s)

Prepared ==
  rel_pc = "lib" /\ rel_todo # <<>> =>
    /\ Head(rel_todo) = "puts" =>
         rel_rdi = IF rel_printed = <<>> THEN Reloc!Hello ELSE Reloc!Goodbye
    /\ Head(rel_todo) = "indirect" => rel_rax = Reloc!SlotOf("sayHello")
    /\ Head(rel_todo) = "patch" =>
         rel_rax = Reloc!SlotOf("sayHello") /\ rel_rbx = Reloc!SlotOf("sayGoodbye")
    /\ Head(rel_todo) = "sayHello" /\ rel_variant = "@pltoff" =>
         rel_slots[Reloc!SlotOf("sayHello")] \in LeadsTo("sayGoodbye")

RelTypes ==
  /\ rel_variant \in Reloc!Variants /\ rel_base \in Bases
  /\ rel_pc \in {"main", "lib"} /\ rel_calls \in 0 .. MaxCalls

RelInv == RelTypes /\ Progress /\ SlotsLead /\ Prepared

-----------------------------------------------------------------------------
LEMMA BaseNat == ASSUME RelTypes PROVE rel_base \in Nat
  BY RoutinesAssumption DEF RelTypes, Reloc!RelocsAssumption

LEMMA TwoTuple == ASSUME NEW S, NEW a \in S, NEW b \in S PROVE Append(<<a>>, b) = <<a, b>>
<1>1. <<a>> \in Seq(S) /\ <<a, b>> \in Seq(S) /\ Len(<<a>>) = 1 /\ Len(<<a, b>>) = 2
  OBVIOUS
<1>2. /\ Append(<<a>>, b) \in Seq(S) /\ Len(Append(<<a>>, b)) = 2
      /\ Append(<<a>>, b)[1] = a /\ Append(<<a>>, b)[2] = b
  BY <1>1, AppendProperties
<1>3. \A n \in 1 .. 2 : Append(<<a>>, b)[n] = <<a, b>>[n]
  BY <1>2
<1> QED
  BY <1>1, <1>2, <1>3, SeqEqual

LEMMA Greetings ==
  /\ Append(<<>>, "Hello!") = <<"Hello!">> /\ Append(<<>>, "Goodbye!") = <<"Goodbye!">>
  /\ Append(<<"Hello!">>, "Hello!") = <<"Hello!", "Hello!">>
  /\ Append(<<"Hello!">>, "Goodbye!") = <<"Hello!", "Goodbye!">>
  /\ Append(<<"Goodbye!">>, "Goodbye!") = <<"Goodbye!", "Goodbye!">>
  /\ <<"Hello!">> # <<>> /\ <<"Goodbye!">> # <<>>
<1>1. Append(<<>>, "Hello!") = <<"Hello!">> /\ Append(<<>>, "Goodbye!") = <<"Goodbye!">>
  OBVIOUS
<1>2. <<"Hello!">> # <<>> /\ <<"Goodbye!">> # <<>>
  OBVIOUS
<1> DEFINE G == {"Hello!", "Goodbye!"}
<1>3. "Hello!" \in G /\ "Goodbye!" \in G
  OBVIOUS
<1> HIDE DEF G
<1> QED
  BY <1>1, <1>2, <1>3, TwoTuple

\* Of a part of a sequence, the first element and the rest.
LEMMA RestOf ==
  ASSUME NEW S, NEW P \in Seq(S), NEW n \in 0 .. Len(P)
  PROVE  LET t == SubSeq(P, n + 1, Len(P))
         IN  /\ t # <<>> <=> n < Len(P)
             /\ n < Len(P) => Head(t) = P[n + 1] /\ Tail(t) = SubSeq(P, n + 2, Len(P))
<1> DEFINE t == SubSeq(P, n + 1, Len(P))
<1>1. Len(P) \in Nat
  OBVIOUS
<1>2. t \in Seq(S) /\ Len(t) = Len(P) - n /\ \A m \in 1 .. Len(P) - n : t[m] = P[n + m]
  BY <1>1, SubSeqProperties
<1>3. t # <<>> <=> n < Len(P)
  <2> HIDE DEF t
  <2>1. t # <<>> <=> Len(t) # 0
    BY <1>2, EmptySeq
  <2> QED
    BY <1>1, <1>2, <2>1
<1>4. ASSUME n < Len(P) PROVE Head(t) = P[n + 1] /\ Tail(t) = SubSeq(P, n + 2, Len(P))
  <2>1. Head(t) = P[n + 1]
    BY <1>1, <1>2, <1>4
  <2>2. /\ Tail(t) \in Seq(S) /\ Len(Tail(t)) = Len(P) - n - 1
        /\ \A m \in 1 .. Len(P) - n - 1 : Tail(t)[m] = P[n + 1 + m]
    <3> HIDE DEF t
    <3>1. Len(t) \in Nat /\ t # <<>>
      BY <1>1, <1>2, <1>3, <1>4
    <3>2. /\ Tail(t) \in Seq(S) /\ Len(Tail(t)) = Len(t) - 1
          /\ \A m \in 1 .. Len(Tail(t)) : Tail(t)[m] = t[m + 1]
      BY <1>2, <3>1, HeadTailProperties
    <3>3. ASSUME NEW m \in 1 .. Len(P) - n - 1 PROVE Tail(t)[m] = P[n + 1 + m]
      <4>1. m \in 1 .. Len(Tail(t)) /\ m + 1 \in 1 .. Len(P) - n /\ n + (m + 1) = n + 1 + m
        BY <1>1, <1>2, <3>2
      <4> QED
        BY <1>2, <3>2, <4>1
    <3> QED
      BY <1>1, <1>2, <3>2, <3>3
  <2>3. /\ SubSeq(P, n + 2, Len(P)) \in Seq(S) /\ Len(SubSeq(P, n + 2, Len(P))) = Len(P) - n - 1
        /\ \A m \in 1 .. Len(P) - n - 1 : SubSeq(P, n + 2, Len(P))[m] = P[n + 1 + m]
    BY <1>1, <1>4, SubSeqProperties
  <2> QED
    BY <2>1, <2>2, <2>3, SeqEqual
<1> QED
  BY <1>3, <1>4

\* The steps of a program.
Steps == {"got", "offHello", "offGoodbye", "pcrel", "slot", "findSlots", "patch", "puts",
          "sayHello", "sayGoodbye", "indirect"}
Quiet == {"got", "offHello", "offGoodbye", "pcrel", "slot", "findSlots", "patch"}

LEMMA ProgramSteps ==
  ASSUME NEW v \in Reloc!Variants
  PROVE  Reloc!Program(v) \in Seq(Steps) /\ Len(Reloc!Program(v)) \in 1 .. 4
<1>1. CASE v = "@got"
  BY <1>1 DEF Reloc!Program, Steps
<1>2. CASE v = "@gotoff"
  BY <1>2 DEF Reloc!Program, Steps
<1>3. CASE v = "@gotpcrel"
  BY <1>3 DEF Reloc!Program, Steps
<1>4. CASE v = "@gotplt"
  BY <1>4 DEF Reloc!Program, Steps
<1>5. CASE v = "@plt"
  BY <1>5 DEF Reloc!Program, Steps
<1>6. CASE v = "@pltoff"
  BY <1>6 DEF Reloc!Program, Steps
<1> QED
  BY <1>1, <1>2, <1>3, <1>4, <1>5, <1>6 DEF Reloc!Variants

\* What has been said after the next step of a program.
LEMMA SaidNext ==
  ASSUME NEW v \in Reloc!Variants, NEW n \in 0 .. Len(Reloc!Program(v)) - 1
  PROVE  LET step == Reloc!Program(v)[n + 1]
         IN  /\ step \in Quiet => Said(v, n + 1) = Said(v, n)
             /\ step = "puts" =>
                  Said(v, n + 1) = Append(Said(v, n), IF Said(v, n) = <<>> THEN "Hello!" ELSE "Goodbye!")
             /\ step = "sayHello" =>
                  Said(v, n + 1) = Append(Said(v, n), IF v = "@pltoff" THEN "Goodbye!" ELSE "Hello!")
             /\ step = "sayGoodbye" => Said(v, n + 1) = Append(Said(v, n), "Goodbye!")
             /\ step = "indirect" => v = "@gotplt" /\ Said(v, n + 1) = Append(Said(v, n), "Hello!")
<1>1. CASE v = "@got"
  <2>0. n = 0 \/ n = 1
    BY <1>1 DEF Reloc!Program
  <2>1. CASE n = 0
    BY <1>1, <2>1, Greetings DEF Reloc!Program, Said, Quiet
  <2>2. CASE n = 1
    BY <1>1, <2>2, Greetings DEF Reloc!Program, Said, Quiet
  <2> QED
    BY <2>0, <2>1, <2>2
<1>2. CASE v = "@gotoff"
  <2>0. n = 0 \/ n = 1 \/ n = 2 \/ n = 3
    BY <1>2 DEF Reloc!Program
  <2>1. CASE n = 0
    BY <1>2, <2>1, Greetings DEF Reloc!Program, Said, Quiet
  <2>2. CASE n = 1
    BY <1>2, <2>2, Greetings DEF Reloc!Program, Said, Quiet
  <2>3. CASE n = 2
    BY <1>2, <2>3, Greetings DEF Reloc!Program, Said, Quiet
  <2>4. CASE n = 3
    BY <1>2, <2>4, Greetings DEF Reloc!Program, Said, Quiet
  <2> QED
    BY <2>0, <2>1, <2>2, <2>3, <2>4
<1>3. CASE v = "@gotpcrel"
  <2>0. n = 0 \/ n = 1
    BY <1>3 DEF Reloc!Program
  <2>1. CASE n = 0
    BY <1>3, <2>1, Greetings DEF Reloc!Program, Said, Quiet
  <2>2. CASE n = 1
    BY <1>3, <2>2, Greetings DEF Reloc!Program, Said, Quiet
  <2> QED
    BY <2>0, <2>1, <2>2
<1>4. CASE v = "@gotplt"
  <2>0. n = 0 \/ n = 1 \/ n = 2
    BY <1>4 DEF Reloc!Program
  <2>1. CASE n = 0
    BY <1>4, <2>1, Greetings DEF Reloc!Program, Said, Quiet
  <2>2. CASE n = 1
    BY <1>4, <2>2, Greetings DEF Reloc!Program, Said, Quiet
  <2>3. CASE n = 2
    BY <1>4, <2>3, Greetings DEF Reloc!Program, Said, Quiet
  <2> QED
    BY <2>0, <2>1, <2>2, <2>3
<1>5. CASE v = "@plt"
  <2>0. n = 0
    BY <1>5 DEF Reloc!Program
  <2>1. CASE n = 0
    BY <1>5, <2>1, Greetings DEF Reloc!Program, Said, Quiet
  <2> QED
    BY <2>0, <2>1
<1>6. CASE v = "@pltoff"
  <2>0. n = 0 \/ n = 1 \/ n = 2 \/ n = 3
    BY <1>6 DEF Reloc!Program
  <2>1. CASE n = 0
    BY <1>6, <2>1, Greetings DEF Reloc!Program, Said, Quiet
  <2>2. CASE n = 1
    BY <1>6, <2>2, Greetings DEF Reloc!Program, Said, Quiet
  <2>3. CASE n = 2
    BY <1>6, <2>3, Greetings DEF Reloc!Program, Said, Quiet
  <2>4. CASE n = 3
    BY <1>6, <2>4, Greetings DEF Reloc!Program, Said, Quiet
  <2> QED
    BY <2>0, <2>1, <2>2, <2>3, <2>4
<1> QED
  BY <1>1, <1>2, <1>3, <1>4, <1>5, <1>6 DEF Reloc!Variants

\* What the step before one that needs its work is.
LEMMA StepBefore ==
  ASSUME NEW v \in Reloc!Variants, NEW n \in 0 .. Len(Reloc!Program(v)) - 1
  PROVE  LET step == Reloc!Program(v)[n + 1]
             before == Reloc!Program(v)[n]
         IN  /\ step = "puts" =>
                  /\ n > 0
                  /\ \/ before \in {"got", "pcrel", "offHello"} /\ Said(v, n) = <<>>
                     \/ before = "offGoodbye" /\ Said(v, n) # <<>>
             /\ step = "indirect" => n > 0 /\ before = "slot"
             /\ step = "patch" => n > 0 /\ before = "findSlots"
             /\ step = "sayHello" /\ v = "@pltoff" => n > 0 /\ before = "patch"
<1>1. CASE v = "@got"
  <2>1. n = 0 \/ n = 1
    BY <1>1 DEF Reloc!Program
  <2> QED
    BY <1>1, <2>1, Greetings DEF Reloc!Program, Said, Quiet
<1>2. CASE v = "@gotoff"
  <2>1. n = 0 \/ n = 1 \/ n = 2 \/ n = 3
    BY <1>2 DEF Reloc!Program
  <2> QED
    BY <1>2, <2>1, Greetings DEF Reloc!Program, Said, Quiet
<1>3. CASE v = "@gotpcrel"
  <2>1. n = 0 \/ n = 1
    BY <1>3 DEF Reloc!Program
  <2> QED
    BY <1>3, <2>1, Greetings DEF Reloc!Program, Said, Quiet
<1>4. CASE v = "@gotplt"
  <2>1. n = 0 \/ n = 1 \/ n = 2
    BY <1>4 DEF Reloc!Program
  <2> QED
    BY <1>4, <2>1, Greetings DEF Reloc!Program, Said, Quiet
<1>5. CASE v = "@plt"
  <2>1. n = 0
    BY <1>5 DEF Reloc!Program
  <2> QED
    BY <1>5, <2>1, Greetings DEF Reloc!Program, Said, Quiet
<1>6. CASE v = "@pltoff"
  <2>1. n = 0 \/ n = 1 \/ n = 2 \/ n = 3
    BY <1>6 DEF Reloc!Program
  <2> QED
    BY <1>6, <2>1, Greetings DEF Reloc!Program, Said, Quiet
<1> QED
  BY <1>1, <1>2, <1>3, <1>4, <1>5, <1>6 DEF Reloc!Variants

\* No two symbols share a slot or a place that slots lead to.
LEMMA Apart ==
  ASSUME rel_base \in Nat, NEW s \in Reloc!Symbols, NEW t \in Reloc!Symbols, s # t
  PROVE  /\ Reloc!SlotOf(s) # Reloc!SlotOf(t)
         /\ LeadsTo(s) \cap LeadsTo(t) = {}
         /\ Reloc!PltEntry(s) # Reloc!PltEntry(t)
  BY DEF Reloc!Symbols, Reloc!SlotOf, LeadsTo, Reloc!Function, Reloc!PltEntry, Reloc!Jmp, Reloc!Got

\* The jump through a slot ends at the symbol it leads to.
LEMMA ReachedIs ==
  ASSUME rel_base \in Nat, NEW d, NEW t \in Reloc!Symbols, rel_slots[d] \in LeadsTo(t)
  PROVE  Reloc!Reached(d) = t
<1>1. \A s \in Reloc!Symbols :
        (rel_slots[d] = Reloc!Function(s) \/ rel_slots[d] = Reloc!PltEntry(s) + Reloc!Jmp) <=> s = t
  <2>1. \A s \in Reloc!Symbols : s # t => LeadsTo(s) \cap LeadsTo(t) = {}
    BY Apart
  <2> QED
    BY <2>1 DEF LeadsTo
<1> QED
  BY <1>1 DEF Reloc!Reached

\* The resolver binds that symbol's slot, and no other.
LEMMA ResolveBinds ==
  ASSUME rel_base \in Nat, SlotsLead, NEW d, NEW t \in Reloc!Symbols, rel_slots[d] \in LeadsTo(t)
  PROVE  /\ DOMAIN Reloc!Resolve(d) = DOMAIN rel_slots
         /\ \A s \in Reloc!Symbols :
              Reloc!Resolve(d)[Reloc!SlotOf(s)] \in
                {rel_slots[Reloc!SlotOf(s)]} \cup (IF s = t THEN {Reloc!Function(t)} ELSE {})
<1>1. Reloc!Resolve(d) = IF rel_slots[d] = Reloc!Function(t) THEN rel_slots
                         ELSE [rel_slots EXCEPT ![Reloc!SlotOf(t)] = Reloc!Function(t)]
  BY ReachedIs DEF Reloc!Resolve
<1>2. \A s \in Reloc!Symbols : Reloc!SlotOf(s) \in DOMAIN rel_slots
  BY DEF SlotsLead
<1>3. \A s \in Reloc!Symbols : s # t => Reloc!SlotOf(s) # Reloc!SlotOf(t)
  BY Apart
<1> QED
  BY <1>1, <1>2, <1>3

\* The addresses and what can be found there stay as long as the library does.
LEMMA PlacesStay ==
  ASSUME UNCHANGED rel_base
  PROVE  \A s : Reloc!SlotOf(s)' = Reloc!SlotOf(s) /\ LeadsTo(s)' = LeadsTo(s)
  BY DEF Reloc!SlotOf, LeadsTo, Reloc!Function, Reloc!PltEntry, Reloc!Jmp, Reloc!Got

LEMMA Texts ==
  ASSUME rel_base \in Nat
  PROVE  Reloc!Text(Reloc!Hello) = "Hello!" /\ Reloc!Text(Reloc!Goodbye) = "Goodbye!"
  BY DEF Reloc!Text, Reloc!Hello, Reloc!Goodbye

LEMMA SaidAll ==
  ASSUME rel_variant \in Reloc!Variants
  PROVE  Said(rel_variant, Len(Reloc!Program(rel_variant))) = Reloc!Expected
<1>1. CASE rel_variant = "@got"
  BY <1>1 DEF Said, Reloc!Program, Reloc!Expected
<1>2. CASE rel_variant = "@gotoff"
  BY <1>2 DEF Said, Reloc!Program, Reloc!Expected
<1>3. CASE rel_variant = "@gotpcrel"
  BY <1>3 DEF Said, Reloc!Program, Reloc!Expected
<1>4. CASE rel_variant = "@gotplt"
  BY <1>4 DEF Said, Reloc!Program, Reloc!Expected
<1>5. CASE rel_variant = "@plt"
  BY <1>5 DEF Said, Reloc!Program, Reloc!Expected
<1>6. CASE rel_variant = "@pltoff"
  BY <1>6 DEF Said, Reloc!Program, Reloc!Expected
<1> QED
  BY <1>1, <1>2, <1>3, <1>4, <1>5, <1>6 DEF Reloc!Variants

\* Only the @pltoff library patches a slot.
LEMMA OnlyPltoff ==
  ASSUME NEW v \in Reloc!Variants, NEW n \in 0 .. Len(Reloc!Program(v)) - 1,
         Reloc!Program(v)[n + 1] = "patch"
  PROVE  v = "@pltoff"
<1>1. CASE v = "@got"
  <2>1. n = 0 \/ n = 1
    BY <1>1 DEF Reloc!Program
  <2> QED
    BY <1>1, <2>1 DEF Reloc!Program
<1>2. CASE v = "@gotoff"
  <2>1. n = 0 \/ n = 1 \/ n = 2 \/ n = 3
    BY <1>2 DEF Reloc!Program
  <2> QED
    BY <1>2, <2>1 DEF Reloc!Program
<1>3. CASE v = "@gotpcrel"
  <2>1. n = 0 \/ n = 1
    BY <1>3 DEF Reloc!Program
  <2> QED
    BY <1>3, <2>1 DEF Reloc!Program
<1>4. CASE v = "@gotplt"
  <2>1. n = 0 \/ n = 1 \/ n = 2
    BY <1>4 DEF Reloc!Program
  <2> QED
    BY <1>4, <2>1 DEF Reloc!Program
<1>5. CASE v = "@plt"
  <2>1. n = 0
    BY <1>5 DEF Reloc!Program
  <2> QED
    BY <1>5, <2>1 DEF Reloc!Program
<1> QED
  BY <1>1, <1>2, <1>3, <1>4, <1>5 DEF Reloc!Variants

\* A step is the next of the program, and the rest of it is left.
LEMMA DoesNext ==
  ASSUME RelInv, NEW step, Reloc!Does(step)
  PROVE  \E n \in 0 .. Len(Reloc!Program(rel_variant)) - 1 :
           /\ Reloc!Program(rel_variant)[n + 1] = step
           /\ rel_printed = Said(rel_variant, n)
           /\ rel_todo' = Todo(n + 1)
<1>1. rel_pc = "lib" /\ rel_todo # <<>> /\ Head(rel_todo) = step /\ rel_todo' = Tail(rel_todo)
  BY DEF Reloc!Does
<1>2. PICK n \in 0 .. Len(Reloc!Program(rel_variant)) :
        rel_todo = Todo(n) /\ rel_printed = Said(rel_variant, n)
  BY <1>1 DEF RelInv, Progress
<1>3. Reloc!Program(rel_variant) \in Seq(Steps) /\ Len(Reloc!Program(rel_variant)) \in Nat
  BY ProgramSteps DEF RelInv, RelTypes
<1>4. /\ n < Len(Reloc!Program(rel_variant))
      /\ Head(rel_todo) = Reloc!Program(rel_variant)[n + 1]
      /\ Tail(rel_todo) = SubSeq(Reloc!Program(rel_variant), n + 2, Len(Reloc!Program(rel_variant)))
  BY <1>1, <1>2, <1>3, RestOf DEF Todo
<1>5. n \in 0 .. Len(Reloc!Program(rel_variant)) - 1 /\ (n + 1) + 1 = n + 2
  BY <1>3, <1>4
<1> QED
  BY <1>1, <1>2, <1>4, <1>5 DEF Todo

\* What comes next, if it needs what this step does.
LEMMA Ahead ==
  ASSUME RelInv, NEW step, Reloc!Does(step), rel_todo' # <<>>
  PROVE  /\ Head(rel_todo') = "puts" =>
              \/ step \in {"got", "pcrel", "offHello"} /\ rel_printed = <<>>
              \/ step = "offGoodbye" /\ rel_printed # <<>>
         /\ Head(rel_todo') = "indirect" => step = "slot"
         /\ Head(rel_todo') = "patch" => step = "findSlots"
         /\ Head(rel_todo') = "sayHello" /\ rel_variant = "@pltoff" => step = "patch"
<1> DEFINE P == Reloc!Program(rel_variant)
<1>1. PICK n \in 0 .. Len(P) - 1 :
        P[n + 1] = step /\ rel_printed = Said(rel_variant, n) /\ rel_todo' = Todo(n + 1)
  BY DoesNext
<1>2. rel_variant \in Reloc!Variants /\ P \in Seq(Steps) /\ Len(P) \in Nat
  BY ProgramSteps DEF RelInv, RelTypes
<1>3. n + 1 \in 0 .. Len(P)
  BY <1>2
<1>4. n + 1 < Len(P) /\ Head(rel_todo') = P[(n + 1) + 1]
  BY <1>1, <1>2, <1>3, RestOf DEF Todo
<1>5. n + 1 \in 0 .. Len(P) - 1 /\ n \in 0 .. Len(P) - 1
  BY <1>2, <1>3, <1>4
<1>6. step \in Quiet => Said(rel_variant, n + 1) = rel_printed
  BY <1>1, <1>2, SaidNext
<1>7. /\ P[(n + 1) + 1] = "puts" =>
           \/ P[n + 1] \in {"got", "pcrel", "offHello"} /\ Said(rel_variant, n + 1) = <<>>
           \/ P[n + 1] = "offGoodbye" /\ Said(rel_variant, n + 1) # <<>>
      /\ P[(n + 1) + 1] = "indirect" => P[n + 1] = "slot"
      /\ P[(n + 1) + 1] = "patch" => P[n + 1] = "findSlots"
      /\ P[(n + 1) + 1] = "sayHello" /\ rel_variant = "@pltoff" => P[n + 1] = "patch"
  BY <1>2, <1>5, StepBefore
<1> HIDE DEF P
<1> QED
  BY <1>1, <1>4, <1>6, <1>7 DEF Quiet

\* The step says what it is to say: the program is one step further.
LEMMA Further ==
  ASSUME RelInv, NEW step, Reloc!Does(step), UNCHANGED <<rel_variant, rel_pc, rel_calls>>,
         step \in Quiet => rel_printed' = rel_printed,
         step = "puts" =>
           rel_printed' = Append(rel_printed, IF rel_printed = <<>> THEN "Hello!" ELSE "Goodbye!"),
         step = "sayHello" =>
           rel_printed' = Append(rel_printed, IF rel_variant = "@pltoff" THEN "Goodbye!" ELSE "Hello!"),
         step = "sayGoodbye" => rel_printed' = Append(rel_printed, "Goodbye!"),
         step = "indirect" => rel_printed' = Append(rel_printed, "Hello!")
  PROVE  Progress'
<1> DEFINE P == Reloc!Program(rel_variant)
<1>1. PICK n \in 0 .. Len(P) - 1 :
        P[n + 1] = step /\ rel_printed = Said(rel_variant, n) /\ rel_todo' = Todo(n + 1)
  BY DoesNext
<1>2. rel_variant \in Reloc!Variants /\ P \in Seq(Steps) /\ Len(P) \in Nat
  BY ProgramSteps DEF RelInv, RelTypes
<1>3. n + 1 \in 0 .. Len(P) /\ n + 1 \in 1 .. Len(P)
  BY <1>2
<1>4. step \in Steps
  BY <1>1, <1>2, <1>3, ElementOfSeq
<1>5. rel_printed' = Said(rel_variant, n + 1)
  BY <1>1, <1>2, <1>4, SaidNext DEF Steps, Quiet
<1>6. rel_pc = "lib" /\ rel_pc' = "lib" /\ rel_calls' = rel_calls
  BY DEF Reloc!Does
<1>7. P' = P /\ Todo(n + 1)' = Todo(n + 1) /\ Said(rel_variant, n + 1)' = Said(rel_variant, n + 1)
  BY DEF Todo, Said, Reloc!Program
<1>8. \E m \in 0 .. Len(P') : rel_todo' = Todo(m)' /\ rel_printed' = Said(rel_variant', m)
  BY <1>1, <1>3, <1>5, <1>7
<1> QED
  BY <1>6, <1>8 DEF Progress, RelInv

\* The function a slot leads to says what is its own.
LEMMA Saying ==
  ASSUME RelTypes, SlotsLead, NEW x \in {"sayHello", "sayGoodbye"}, NEW t \in {"sayHello", "sayGoodbye"},
         rel_slots[Reloc!SlotOf(x)] \in LeadsTo(t), Reloc!Say(Reloc!SlotOf(x)),
         UNCHANGED <<rel_variant, rel_base>>
  PROVE  /\ rel_printed' = Append(rel_printed, IF t = "sayHello" THEN "Hello!" ELSE "Goodbye!")
         /\ SlotsLead'
         /\ rel_slots[Reloc!SlotOf("sayHello")] \in LeadsTo("sayGoodbye") =>
              rel_slots'[Reloc!SlotOf("sayHello")] \in LeadsTo("sayGoodbye")
<1>1. rel_base \in Nat /\ {"sayHello", "sayGoodbye", "puts"} = Reloc!Symbols
  BY BaseNat DEF Reloc!Symbols
<1>2. Reloc!Reached(Reloc!SlotOf(x)) = t
  BY <1>1, ReachedIs
<1>3. /\ rel_printed' = Append(rel_printed, Reloc!Text(IF t = "sayHello" THEN Reloc!Hello ELSE Reloc!Goodbye))
      /\ rel_slots' = [Reloc!Resolve(Reloc!SlotOf(x)) EXCEPT ![Reloc!SlotOf("puts")] = Reloc!Function("puts")]
  BY <1>2 DEF Reloc!Say
<1>4. rel_printed' = Append(rel_printed, IF t = "sayHello" THEN "Hello!" ELSE "Goodbye!")
  BY <1>1, <1>3, Texts
<1> DEFINE bound == Reloc!Resolve(Reloc!SlotOf(x))
<1>5. /\ DOMAIN bound = DOMAIN rel_slots
      /\ \A s \in Reloc!Symbols :
           bound[Reloc!SlotOf(s)] \in
             {rel_slots[Reloc!SlotOf(s)]} \cup (IF s = t THEN {Reloc!Function(t)} ELSE {})
  BY <1>1, ResolveBinds
<1> HIDE DEF bound
<1>6. /\ \A s \in Reloc!Symbols : Reloc!SlotOf(s) \in DOMAIN rel_slots
      /\ \A s \in Reloc!Symbols : s # "puts" => Reloc!SlotOf(s) # Reloc!SlotOf("puts")
  BY <1>1, Apart DEF SlotsLead
<1>7. /\ DOMAIN rel_slots' = DOMAIN rel_slots
      /\ \A s \in Reloc!Symbols :
           rel_slots'[Reloc!SlotOf(s)] =
             IF s = "puts" THEN Reloc!Function("puts") ELSE bound[Reloc!SlotOf(s)]
  BY <1>1, <1>3, <1>5, <1>6 DEF bound
<1>8. \A s \in Reloc!Symbols : Reloc!Function(s) \in LeadsTo(s)
  BY DEF LeadsTo
<1>9. t = "sayHello" => ~ (rel_slots[Reloc!SlotOf("sayHello")] \in LeadsTo("sayGoodbye"))
  <2>1. LeadsTo("sayHello") \cap LeadsTo("sayGoodbye") = {}
    BY <1>1, Apart
  <2>2. x = "sayGoodbye" => rel_slots[Reloc!SlotOf("sayGoodbye")] \in LeadsTo("sayGoodbye")
    BY <1>1 DEF SlotsLead
  <2> QED
    BY <2>1, <2>2
<1>10. \A s \in Reloc!Symbols :
         rel_slots'[Reloc!SlotOf(s)] \in
           IF rel_variant = "@pltoff" /\ s = "sayHello" THEN LeadsTo(s) \cup LeadsTo("sayGoodbye")
                                                         ELSE LeadsTo(s)
  BY <1>5, <1>7, <1>8 DEF SlotsLead
<1>11. SlotsLead'
  <2>1. {Reloc!SlotOf(s) : s \in Reloc!Symbols}' = {Reloc!SlotOf(s) : s \in Reloc!Symbols}
    BY PlacesStay DEF Reloc!Symbols
  <2>2. \A s \in Reloc!Symbols :
         rel_slots'[Reloc!SlotOf(s)'] \in
           IF rel_variant' = "@pltoff" /\ s = "sayHello" THEN LeadsTo(s)' \cup LeadsTo("sayGoodbye")'
                                                          ELSE LeadsTo(s)'
    BY <1>10, PlacesStay
  <2> QED
    BY <1>7, <2>1, <2>2 DEF SlotsLead, Reloc!Symbols
<1>12. rel_slots[Reloc!SlotOf("sayHello")] \in LeadsTo("sayGoodbye") =>
         rel_slots'[Reloc!SlotOf("sayHello")] \in LeadsTo("sayGoodbye")
  BY <1>1, <1>5, <1>7, <1>9
<1> QED
  BY <1>4, <1>11, <1>12

LEMMA RelInit == ASSUME Reloc!Init PROVE RelInv
<1>1. /\ rel_variant \in Reloc!Variants /\ rel_base \in Bases /\ rel_pc = "main"
      /\ rel_printed = <<>> /\ rel_calls = 0
  BY DEF Reloc!Init
<1>2. RelTypes /\ Progress /\ Prepared
  BY <1>1, RoutinesAssumption DEF RelTypes, Progress, Prepared, Reloc!RelocsAssumption
<1>3. PICK lazy \in BOOLEAN :
        rel_slots = [d \in {Reloc!SlotOf(s) : s \in Reloc!Symbols} |->
                       LET s == CHOOSE t \in Reloc!Symbols : Reloc!SlotOf(t) = d
                       IN  IF lazy THEN Reloc!PltEntry(s) + Reloc!Jmp ELSE Reloc!Function(s)]
  BY DEF Reloc!Init
<1>4. ASSUME NEW s \in Reloc!Symbols PROVE rel_slots[Reloc!SlotOf(s)] \in LeadsTo(s)
  <2>1. \A t \in Reloc!Symbols : Reloc!SlotOf(t) = Reloc!SlotOf(s) <=> t = s
    BY <1>2, BaseNat, Apart
  <2>2. (CHOOSE t \in Reloc!Symbols : Reloc!SlotOf(t) = Reloc!SlotOf(s)) = s
    BY <2>1
  <2> QED
    BY <1>3, <2>2 DEF LeadsTo
<1>5. DOMAIN rel_slots = {Reloc!SlotOf(s) : s \in Reloc!Symbols}
  BY <1>3
<1>6. SlotsLead
  BY <1>4, <1>5 DEF SlotsLead
<1> QED
  BY <1>2, <1>6 DEF RelInv

\* A step that leaves the slots alone.
LEMMA SameSlots ==
  ASSUME SlotsLead, UNCHANGED <<rel_variant, rel_base, rel_slots>>
  PROVE  SlotsLead'
<1>1. {Reloc!SlotOf(s) : s \in Reloc!Symbols}' = {Reloc!SlotOf(s) : s \in Reloc!Symbols}
  BY PlacesStay DEF Reloc!Symbols
<1>2. \A s \in Reloc!Symbols :
        rel_slots'[Reloc!SlotOf(s)'] \in
          IF rel_variant' = "@pltoff" /\ s = "sayHello" THEN LeadsTo(s)' \cup LeadsTo("sayGoodbye")'
                                                         ELSE LeadsTo(s)'
  BY PlacesStay DEF SlotsLead
<1> QED
  BY <1>1, <1>2 DEF SlotsLead, Reloc!Symbols

\* A step that loads registers for the next one.
LEMMA LoadStep ==
  ASSUME RelInv, NEW step \in Quiet, Reloc!Does(step),
         UNCHANGED <<rel_variant, rel_base, rel_pc, rel_calls, rel_slots, rel_printed>>,
         step \in {"got", "pcrel", "offHello"} => rel_rdi' = Reloc!Hello,
         step = "offGoodbye" => rel_rdi' = Reloc!Goodbye,
         step = "slot" => rel_rax' = Reloc!SlotOf("sayHello"),
         step = "findSlots" =>
           rel_rax' = Reloc!SlotOf("sayHello") /\ rel_rbx' = Reloc!SlotOf("sayGoodbye"),
         step # "patch"
  PROVE  RelInv'
<1>1. Progress'
  BY Further DEF Quiet
<1>2. SlotsLead' /\ RelTypes'
  BY SameSlots DEF RelInv, RelTypes
<1>3. /\ Reloc!Hello' = Reloc!Hello /\ Reloc!Goodbye' = Reloc!Goodbye
      /\ Reloc!SlotOf("sayHello")' = Reloc!SlotOf("sayHello")
      /\ Reloc!SlotOf("sayGoodbye")' = Reloc!SlotOf("sayGoodbye")
  BY DEF Reloc!Hello, Reloc!Goodbye, Reloc!SlotOf, Reloc!Got
<1>4. Prepared'
  BY <1>3, Ahead DEF Prepared
<1> QED
  BY <1>1, <1>2, <1>4 DEF RelInv

\* A step that prints leads to none that needs its work.
LEMMA PrintStep ==
  ASSUME RelInv, NEW step \in {"puts", "sayHello", "sayGoodbye", "indirect"}, Reloc!Does(step),
         UNCHANGED <<rel_variant, rel_base, rel_pc, rel_calls>>, Progress', SlotsLead'
  PROVE  RelInv'
<1>1. Prepared'
  BY Ahead DEF Prepared
<1>2. RelTypes'
  BY DEF RelInv, RelTypes
<1> QED
  BY <1>1, <1>2 DEF RelInv

Redirected == rel_slots[Reloc!SlotOf("sayHello")] \in LeadsTo("sayGoodbye")

LEMMA RelStep ==
  ASSUME RelInv, Reloc!Next
  PROVE  RelInv' /\ (Redirected => rel_slots'[Reloc!SlotOf("sayHello")] \in LeadsTo("sayGoodbye"))
<1>0. RelTypes /\ Progress /\ SlotsLead /\ Prepared /\ rel_base \in Nat
  BY BaseNat DEF RelInv
<1>p. {"sayHello", "sayGoodbye", "puts"} = Reloc!Symbols
  BY DEF Reloc!Symbols
<1>1. CASE Reloc!Call
  <2> DEFINE P == Reloc!Program(rel_variant)
  <2>1. /\ rel_pc' = "lib" /\ rel_calls < MaxCalls /\ rel_calls' = rel_calls + 1
        /\ rel_todo' = P /\ rel_printed' = <<>>
        /\ UNCHANGED <<rel_variant, rel_base, rel_slots, rel_rax, rel_rdi>>
    BY <1>1 DEF Reloc!Call
  <2>2. rel_variant \in Reloc!Variants /\ P \in Seq(Steps) /\ Len(P) \in 1 .. 4
    BY <1>0, ProgramSteps DEF RelTypes
  <2>3. P = SubSeq(P, 0 + 1, Len(P)) /\ P # <<>> /\ Head(P) = P[0 + 1]
    <3> HIDE DEF P
    <3>1. /\ SubSeq(P, 1, Len(P)) \in Seq(Steps) /\ Len(SubSeq(P, 1, Len(P))) = Len(P)
          /\ \A m \in 1 .. Len(P) : SubSeq(P, 1, Len(P))[m] = P[m]
      BY <2>2, SubSeqProperties
    <3>2. P = SubSeq(P, 1, Len(P))
      BY <2>2, <3>1, SeqEqual
    <3> QED
      BY <2>2, <3>2
  <2>4. Said(rel_variant, 0) = <<>>
    BY <2>2 DEF Said, Reloc!Variants
  <2>5. MaxCalls \in Nat /\ rel_calls \in 0 .. MaxCalls
    BY <1>0, RoutinesAssumption DEF RelTypes, Reloc!RelocsAssumption
  <2>6. RelTypes' /\ SlotsLead' /\ rel_calls' > 0
    BY <1>0, <2>1, <2>5, SameSlots DEF RelTypes
  <2>7. Progress'
    <3>1. rel_todo' = Todo(0)' /\ rel_printed' = Said(rel_variant', 0) /\ 0 \in 0 .. Len(P)
      BY <2>1, <2>2, <2>3, <2>4 DEF Todo
    <3> QED
      BY <2>1, <2>6, <3>1 DEF Progress
  <2>8. Prepared'
    <3>1. /\ Head(P) \notin {"puts", "indirect", "patch"}
          /\ Head(P) = "sayHello" => rel_variant # "@pltoff"
      <4>1. 0 \in 0 .. Len(P) - 1
        BY <2>2
      <4> QED
        BY <2>2, <2>3, <4>1, StepBefore
    <3> HIDE DEF P
    <3> QED
      BY <2>1, <3>1 DEF Prepared
  <2> QED
    BY <2>1, <2>6, <2>7, <2>8 DEF RelInv, Redirected
<1>2. CASE Reloc!LoadGot
  <2>1. Reloc!Does("got") /\ rel_rdi' = Reloc!Hello
    BY <1>2 DEF Reloc!LoadGot
  <2> QED
    BY <1>2, <2>1, LoadStep DEF Reloc!LoadGot, Reloc!Rest, Quiet, Redirected
<1>3. CASE Reloc!LoadGotPcRel
  <2>1. Reloc!Does("pcrel") /\ rel_rdi' = Reloc!Hello
    BY <1>3 DEF Reloc!LoadGotPcRel
  <2> QED
    BY <1>3, <2>1, LoadStep DEF Reloc!LoadGotPcRel, Reloc!Rest, Quiet, Redirected
<1>4. CASE Reloc!LoadGotOff
  <2>1. Reloc!Hello \in Int /\ Reloc!Goodbye \in Int /\ Reloc!Got \in Int
    BY <1>0 DEF Reloc!Hello, Reloc!Goodbye, Reloc!Got
  <2>2. /\ \/ Reloc!Does("offHello") /\ rel_rdi' = Reloc!Hello
           \/ Reloc!Does("offGoodbye") /\ rel_rdi' = Reloc!Goodbye
        /\ UNCHANGED <<rel_variant, rel_base, rel_pc, rel_calls, rel_slots, rel_printed>>
    BY <1>4, <2>1 DEF Reloc!LoadGotOff, Reloc!Rest
  <2> QED
    BY <2>2, LoadStep DEF Quiet, Redirected
<1>5. CASE Reloc!LoadGotPlt
  <2>1. Reloc!SlotOf("sayHello") \in Int /\ Reloc!Got \in Int
    BY <1>0 DEF Reloc!SlotOf, Reloc!Got
  <2>2. Reloc!Does("slot") /\ rel_rax' = Reloc!SlotOf("sayHello")
    BY <1>5, <2>1 DEF Reloc!LoadGotPlt
  <2> QED
    BY <1>5, <2>2, LoadStep DEF Reloc!LoadGotPlt, Reloc!Rest, Quiet, Redirected
<1>6. CASE Reloc!FindSlots
  <2>1. ASSUME NEW s \in Reloc!Symbols
        PROVE  LET entry == (Reloc!PltEntry(s) - Reloc!Got) + Reloc!Got
               IN  Reloc!Operand(entry) + entry + Reloc!Jmp = Reloc!SlotOf(s)
    <3>1. /\ Reloc!PltEntry(s) \in Int /\ Reloc!SlotOf(s) \in Int /\ Reloc!Got \in Int
          /\ Reloc!Jmp \in Int
      BY <1>0, <1>p DEF Reloc!PltEntry, Reloc!SlotOf, Reloc!Got, Reloc!Jmp
    <3>2. \A t \in Reloc!Symbols : Reloc!PltEntry(t) = Reloc!PltEntry(s) <=> t = s
      BY <1>0, Apart
    <3>3. (CHOOSE t \in Reloc!Symbols : Reloc!PltEntry(t) = Reloc!PltEntry(s)) = s
      BY <3>2
    <3>4. Reloc!Operand(Reloc!PltEntry(s)) = Reloc!SlotOf(s) - (Reloc!PltEntry(s) + Reloc!Jmp)
      BY <3>3 DEF Reloc!Operand
    <3>5. (Reloc!PltEntry(s) - Reloc!Got) + Reloc!Got = Reloc!PltEntry(s)
      BY <3>1
    <3> QED
      BY <3>1, <3>4, <3>5
  <2>2. /\ Reloc!Does("findSlots")
        /\ rel_rax' = Reloc!SlotOf("sayHello") /\ rel_rbx' = Reloc!SlotOf("sayGoodbye")
    BY <1>6, <1>p, <2>1 DEF Reloc!FindSlots
  <2> QED
    BY <1>6, <2>2, LoadStep DEF Reloc!FindSlots, Reloc!Rest, Quiet, Redirected
<1>7. CASE Reloc!Patch
  <2> DEFINE hello == Reloc!SlotOf("sayHello")
             bye   == Reloc!SlotOf("sayGoodbye")
  <2>1. /\ Reloc!Does("patch") /\ UNCHANGED <<rel_variant, rel_base, rel_pc, rel_calls, rel_printed>>
        /\ rel_slots' = [d \in DOMAIN rel_slots |->
             IF d = rel_rax /\ rel_rbx \in DOMAIN rel_slots THEN rel_slots[rel_rbx] ELSE rel_slots[d]]
    BY <1>7 DEF Reloc!Patch, Reloc!Rest
  <2>2. rel_rax = hello /\ rel_rbx = bye
    BY <1>0, <2>1 DEF Prepared, Reloc!Does
  <2>3. \A s \in Reloc!Symbols : Reloc!SlotOf(s) \in DOMAIN rel_slots
    BY <1>0 DEF SlotsLead
  <2>4. \A s \in Reloc!Symbols :
          rel_slots'[Reloc!SlotOf(s)] = IF s = "sayHello" THEN rel_slots[bye] ELSE rel_slots[Reloc!SlotOf(s)]
    BY <1>0, <1>p, <2>1, <2>2, <2>3, Apart
  <2>5. rel_slots[bye] \in LeadsTo("sayGoodbye") /\ rel_slots'[hello] = rel_slots[bye]
    BY <1>0, <1>p, <2>4 DEF SlotsLead
  <2>6. Progress'
    BY <2>1, Further DEF Quiet
  <2>7. rel_variant = "@pltoff"
    <3>1. PICK n \in 0 .. Len(Reloc!Program(rel_variant)) - 1 : Reloc!Program(rel_variant)[n + 1] = "patch"
      BY <2>1, DoesNext
    <3> QED
      BY <1>0, <3>1, OnlyPltoff DEF RelTypes
  <2>8. SlotsLead'
    <3>1. {Reloc!SlotOf(s) : s \in Reloc!Symbols}' = {Reloc!SlotOf(s) : s \in Reloc!Symbols}
      BY <2>1, PlacesStay DEF Reloc!Symbols
    <3>2. \A s \in Reloc!Symbols :
            rel_slots'[Reloc!SlotOf(s)'] \in
              IF rel_variant' = "@pltoff" /\ s = "sayHello" THEN LeadsTo(s)' \cup LeadsTo("sayGoodbye")'
                                                             ELSE LeadsTo(s)'
      BY <1>0, <2>1, <2>4, <2>5, <2>7, PlacesStay DEF SlotsLead
    <3>3. DOMAIN rel_slots' = DOMAIN rel_slots
      BY <2>1
    <3> QED
      BY <1>0, <3>1, <3>2, <3>3 DEF SlotsLead, Reloc!Symbols
  <2>9. Prepared'
    <3>1. (Reloc!SlotOf("sayHello") = hello)' /\ hello' = hello /\ LeadsTo("sayGoodbye")' = LeadsTo("sayGoodbye")
      BY <2>1, PlacesStay
    <3>2. rel_slots'[hello'] \in LeadsTo("sayGoodbye")'
      BY <2>5, <3>1
    <3> QED
      BY <2>1, <3>2, Ahead DEF Prepared
  <2> QED
    BY <1>0, <2>1, <2>5, <2>6, <2>8, <2>9 DEF RelInv, RelTypes
<1>8. CASE Reloc!Puts
  <2>1. /\ Reloc!Does("puts") /\ UNCHANGED <<rel_variant, rel_base, rel_pc, rel_calls>>
        /\ rel_printed' = Append(rel_printed, Reloc!Text(rel_rdi))
        /\ rel_slots' = Reloc!Resolve(Reloc!SlotOf("puts"))
    BY <1>8 DEF Reloc!Puts, Reloc!Rest
  <2>2. rel_rdi = IF rel_printed = <<>> THEN Reloc!Hello ELSE Reloc!Goodbye
    BY <1>0, <2>1 DEF Prepared, Reloc!Does
  <2>3. Progress'
    BY <1>0, <2>1, <2>2, Texts, Further DEF Quiet
  <2>4. rel_slots[Reloc!SlotOf("puts")] \in LeadsTo("puts")
    BY <1>0, <1>p DEF SlotsLead
  <2>5. /\ DOMAIN rel_slots' = DOMAIN rel_slots
        /\ \A s \in Reloc!Symbols :
             rel_slots'[Reloc!SlotOf(s)] \in
               {rel_slots[Reloc!SlotOf(s)]} \cup (IF s = "puts" THEN {Reloc!Function("puts")} ELSE {})
    BY <1>0, <1>p, <2>1, <2>4, ResolveBinds
  <2>6. Reloc!Function("puts") \in LeadsTo("puts")
    BY DEF LeadsTo
  <2>7. SlotsLead'
    <3>1. {Reloc!SlotOf(s) : s \in Reloc!Symbols}' = {Reloc!SlotOf(s) : s \in Reloc!Symbols}
      BY <2>1, PlacesStay DEF Reloc!Symbols
    <3>2. \A s \in Reloc!Symbols :
            rel_slots'[Reloc!SlotOf(s)'] \in
              IF rel_variant' = "@pltoff" /\ s = "sayHello" THEN LeadsTo(s)' \cup LeadsTo("sayGoodbye")'
                                                             ELSE LeadsTo(s)'
      BY <1>0, <2>1, <2>5, <2>6, PlacesStay DEF SlotsLead
    <3> QED
      BY <1>0, <2>5, <3>1, <3>2 DEF SlotsLead, Reloc!Symbols
  <2> QED
    BY <1>p, <2>1, <2>3, <2>5, <2>7, PrintStep DEF Redirected
<1>9. CASE Reloc!SayThroughPlt
  <2>0. UNCHANGED <<rel_variant, rel_base, rel_pc, rel_calls>>
    BY <1>9 DEF Reloc!SayThroughPlt, Reloc!Rest
  <2>1. CASE Reloc!Does("sayHello") /\ Reloc!Say(Reloc!SlotOf("sayHello"))
    <3> DEFINE t == IF rel_variant = "@pltoff" THEN "sayGoodbye" ELSE "sayHello"
    <3>1. rel_slots[Reloc!SlotOf("sayHello")] \in LeadsTo(t)
      BY <1>0, <1>p, <2>1 DEF SlotsLead, Prepared, Reloc!Does
    <3>2. /\ rel_printed' = Append(rel_printed, IF t = "sayHello" THEN "Hello!" ELSE "Goodbye!")
          /\ SlotsLead'
          /\ Redirected => rel_slots'[Reloc!SlotOf("sayHello")] \in LeadsTo("sayGoodbye")
      BY <1>0, <2>0, <2>1, <3>1, Saying DEF Redirected
    <3>3. Progress'
      BY <2>0, <2>1, <3>2, Further DEF Quiet
    <3> QED
      BY <2>0, <2>1, <3>2, <3>3, PrintStep
  <2>2. CASE Reloc!Does("sayGoodbye") /\ Reloc!Say(Reloc!SlotOf("sayGoodbye"))
    <3>1. rel_slots[Reloc!SlotOf("sayGoodbye")] \in LeadsTo("sayGoodbye")
      BY <1>0, <1>p DEF SlotsLead
    <3>2. /\ rel_printed' = Append(rel_printed, "Goodbye!")
          /\ SlotsLead'
          /\ Redirected => rel_slots'[Reloc!SlotOf("sayHello")] \in LeadsTo("sayGoodbye")
      BY <1>0, <2>0, <2>2, <3>1, Saying DEF Redirected
    <3>3. Progress'
      BY <2>0, <2>2, <3>2, Further DEF Quiet
    <3> QED
      BY <2>0, <2>2, <3>2, <3>3, PrintStep
  <2> QED
    BY <1>9, <2>1, <2>2 DEF Reloc!SayThroughPlt
<1>10. CASE Reloc!SayIndirect
  <2>1. /\ Reloc!Does("indirect") /\ Reloc!Say(rel_rax)
        /\ UNCHANGED <<rel_variant, rel_base, rel_pc, rel_calls>>
    BY <1>10 DEF Reloc!SayIndirect, Reloc!Rest
  <2>2. rel_rax = Reloc!SlotOf("sayHello")
    BY <1>0, <2>1 DEF Prepared, Reloc!Does
  <2>3. rel_variant = "@gotplt"
    <3>1. PICK n \in 0 .. Len(Reloc!Program(rel_variant)) - 1 : Reloc!Program(rel_variant)[n + 1] = "indirect"
      BY <2>1, DoesNext
    <3> QED
      BY <1>0, <3>1, SaidNext DEF RelTypes
  <2>4. rel_slots[Reloc!SlotOf("sayHello")] \in LeadsTo("sayHello")
    BY <1>0, <1>p, <2>3 DEF SlotsLead
  <2>5. /\ rel_printed' = Append(rel_printed, "Hello!")
        /\ SlotsLead'
        /\ Redirected => rel_slots'[Reloc!SlotOf("sayHello")] \in LeadsTo("sayGoodbye")
    BY <1>0, <2>1, <2>2, <2>4, Saying DEF Redirected
  <2>6. Progress'
    BY <2>1, <2>5, Further DEF Quiet
  <2> QED
    BY <2>1, <2>5, <2>6, PrintStep
<1>11. CASE Reloc!Return
  <2>1. /\ rel_pc = "lib" /\ rel_todo = <<>> /\ rel_pc' = "main"
        /\ UNCHANGED <<rel_variant, rel_base, rel_slots, rel_printed, rel_calls>>
    BY <1>11 DEF Reloc!Return
  <2>2. PICK n \in 0 .. Len(Reloc!Program(rel_variant)) :
          rel_todo = Todo(n) /\ rel_printed = Said(rel_variant, n)
    BY <1>0, <2>1 DEF Progress
  <2>3. n = Len(Reloc!Program(rel_variant))
    <3>1. Reloc!Program(rel_variant) \in Seq(Steps) /\ Len(Reloc!Program(rel_variant)) \in Nat
      BY <1>0, ProgramSteps DEF RelTypes
    <3>2. ~ (n < Len(Reloc!Program(rel_variant)))
      BY <2>1, <2>2, <3>1, RestOf DEF Todo
    <3> QED
      BY <3>1, <3>2
  <2>4. rel_printed = Reloc!Expected
    BY <1>0, <2>2, <2>3, SaidAll DEF RelTypes
  <2>5. rel_calls > 0 /\ Reloc!Expected' = Reloc!Expected /\ rel_calls # 0
    BY <1>0, <2>1 DEF Progress, RelTypes, Reloc!Expected
  <2>6. Progress' /\ Prepared'
    BY <2>1, <2>4, <2>5 DEF Progress, Prepared
  <2>7. RelTypes' /\ SlotsLead'
    BY <1>0, <2>1, SameSlots DEF RelTypes
  <2> QED
    BY <2>1, <2>6, <2>7 DEF RelInv, Redirected
<1> QED
  BY <1>1, <1>2, <1>3, <1>4, <1>5, <1>6, <1>7, <1>8, <1>9, <1>10, <1>11 DEF Reloc!Next

LEMMA RelStutter == ASSUME RelInv, UNCHANGED rel_vars PROVE RelInv'
<1>1. UNCHANGED <<rel_variant, rel_base, rel_pc, rel_todo, rel_slots, rel_rax, rel_rdi, rel_rbx,
                  rel_printed, rel_calls>>
  BY DEF rel_vars
<1>2. RelTypes' /\ SlotsLead'
  BY <1>1, SameSlots DEF RelInv, RelTypes
<1>3. Progress'
  BY <1>1 DEF RelInv, Progress, Todo, Said, Reloc!Expected, Reloc!Program
<1>4. Prepared'
  BY <1>1 DEF RelInv, Prepared, LeadsTo, Reloc!Hello, Reloc!Goodbye, Reloc!SlotOf, Reloc!Got,
     Reloc!Function, Reloc!PltEntry, Reloc!Jmp
<1> QED
  BY <1>2, <1>3, <1>4 DEF RelInv

LEMMA RelSafe ==
  ASSUME RelInv
  PROVE  Reloc!TypeOK /\ Reloc!PrintsExpected /\ Reloc!OnlyHelloRedirected
<1>0. RelTypes /\ Progress /\ SlotsLead
  BY DEF RelInv
<1>1. Reloc!PrintsExpected
  BY <1>0 DEF Progress, RelTypes, Reloc!PrintsExpected
<1>2. Reloc!OnlyHelloRedirected
  BY <1>0 DEF SlotsLead, LeadsTo, Reloc!OnlyHelloRedirected
<1>3. \A d \in DOMAIN rel_slots :
        rel_slots[d] \in {Reloc!Function(s) : s \in Reloc!Symbols}
                           \cup {Reloc!PltEntry(s) + Reloc!Jmp : s \in Reloc!Symbols}
  BY <1>0 DEF SlotsLead, LeadsTo, Reloc!Symbols
<1>4. \A n \in DOMAIN rel_printed : rel_printed[n] \in {"Hello!", "Goodbye!"}
  BY <1>0 DEF RelTypes, Progress, Said, Reloc!Expected, Reloc!Variants
<1> QED
  BY <1>0, <1>1, <1>2, <1>3, <1>4 DEF RelTypes, SlotsLead, Reloc!TypeOK

-----------------------------------------------------------------------------
(***************************************************************************)
(* The packet and extension readers. Both cut their input into pieces that *)
(* lie one behind the other: the values of a run of sums.                  *)
(***************************************************************************)
Running(f, first, d, L) ==
  f = [k \in 1 .. L + 1 |-> IF k = 1 THEN first ELSE f[k - 1] + d[k - 1]]

LEMMA RunExists ==
  ASSUME NEW L \in Nat, NEW first \in Nat, NEW d PROVE \E f : Running(f, first, d, L)
<1> DEFINE Bad == {m \in Nat : m <= L /\ ~ \E f : Running(f, first, d, m)}
<1>1. SUFFICES ASSUME Bad # {} PROVE FALSE
  <2>1. L \notin Bad
    BY <1>1
  <2> QED
    BY <2>1
<1>2. PICK m \in Bad : \A p \in Bad : m <= p
  <2>1. Bad \in SUBSET Nat
    OBVIOUS
  <2> HIDE DEF Bad
  <2> QED
    BY <1>1, <2>1, Least
<1>3. m \in Nat /\ m <= L /\ ~ \E f : Running(f, first, d, m)
  OBVIOUS
<1>4. m # 0
  <2>1. Running([k \in 1 .. 0 + 1 |-> first], first, d, 0)
    <3>1. \A k \in 1 .. 0 + 1 : k = 1
      OBVIOUS
    <3> QED
      BY <3>1 DEF Running
  <2> QED
    BY <1>3, <2>1
<1>5. m - 1 \in Nat /\ m - 1 <= L /\ ~ (m <= m - 1)
  BY <1>3, <1>4
<1>6. PICK f : Running(f, first, d, m - 1)
  <2>1. m - 1 \notin Bad
    BY <1>2, <1>5
  <2> QED
    BY <1>5, <2>1
<1> HIDE DEF Bad
<1> DEFINE g == [k \in 1 .. m + 1 |-> IF k <= m THEN f[k] ELSE f[m] + d[m]]
<1>7. Running(g, first, d, m)
  <2>1. f = [k \in 1 .. m |-> IF k = 1 THEN first ELSE f[k - 1] + d[k - 1]]
    <3>1. m - 1 + 1 = m
      BY <1>3
    <3> QED
      BY <1>6, <3>1 DEF Running
  <2>2. ASSUME NEW k \in 1 .. m + 1
        PROVE  g[k] = IF k = 1 THEN first ELSE g[k - 1] + d[k - 1]
    <3>1. CASE k = 1
      <4>1. 1 \in 1 .. m /\ 1 <= m
        BY <1>3, <1>4
      <4>2. f[1] = first
        BY <2>1, <4>1
      <4> QED
        BY <3>1, <4>1, <4>2
    <3>2. CASE k # 1 /\ k <= m
      <4>1. k \in 1 .. m /\ k - 1 \in 1 .. m + 1 /\ k - 1 <= m
        BY <1>3, <3>2
      <4>2. f[k] = f[k - 1] + d[k - 1]
        BY <2>1, <3>2, <4>1
      <4>3. g[k] = f[k] /\ g[k - 1] = f[k - 1]
        BY <4>1
      <4> QED
        BY <3>2, <4>2, <4>3
    <3>3. CASE k = m + 1
      <4>1. k # 1 /\ ~ (k <= m) /\ k - 1 = m /\ m \in 1 .. m + 1 /\ m <= m
        BY <1>3, <1>4, <3>3
      <4>2. g[k] = f[m] + d[m] /\ g[m] = f[m]
        BY <4>1
      <4> QED
        BY <4>1, <4>2
    <3> QED
      BY <1>3, <3>1, <3>2, <3>3
  <2> HIDE DEF g
  <2>3. g = [k \in 1 .. m + 1 |-> g[k]]
    BY DEF g
  <2> QED
    BY <2>2, <2>3 DEF Running
<1> QED
  BY <1>3, <1>7

LEMMA RunValues ==
  ASSUME NEW L \in Nat, NEW first \in Nat, NEW d, \A n \in 1 .. L : d[n] \in Nat,
         NEW f, Running(f, first, d, L)
  PROVE  /\ \A k \in 1 .. L + 1 : f[k] \in Nat
         /\ f[1] = first
         /\ \A n \in 1 .. L : f[n + 1] = f[n] + d[n]
<1>1. \A k \in 1 .. L + 1 : f[k] = IF k = 1 THEN first ELSE f[k - 1] + d[k - 1]
  BY DEF Running
<1>2. f[1] = first
  BY <1>1, 1 \in 1 .. L + 1
<1>3. ASSUME NEW n \in 1 .. L PROVE f[n + 1] = f[n] + d[n]
  <2>1. n + 1 \in 1 .. L + 1 /\ n + 1 # 1 /\ n + 1 - 1 = n
    OBVIOUS
  <2> QED
    BY <1>1, <2>1
<1>4. \A k \in 1 .. L + 1 : f[k] \in Nat
  <2> DEFINE Bad == {k \in 1 .. L + 1 : f[k] \notin Nat}
  <2>1. SUFFICES ASSUME Bad # {} PROVE FALSE
    OBVIOUS
  <2>2. PICK k \in Bad : \A p \in Bad : k <= p
    <3>1. Bad \in SUBSET Nat
      OBVIOUS
    <3> HIDE DEF Bad
    <3> QED
      BY <2>1, <3>1, Least
  <2>3. k \in 1 .. L + 1 /\ f[k] \notin Nat /\ k # 1
    BY <1>2
  <2>4. k - 1 \in 1 .. L /\ k - 1 \in 1 .. L + 1 /\ ~ (k <= k - 1) /\ k - 1 + 1 = k
    BY <2>3
  <2>5. f[k - 1] \in Nat
    BY <2>2, <2>4
  <2>6. f[k] = f[k - 1] + d[k - 1]
    BY <1>3, <2>4
  <2> QED
    BY <2>3, <2>4, <2>5, <2>6
<1> QED
  BY <1>2, <1>3, <1>4

LEMMA RunRises ==
  ASSUME NEW L \in Nat, NEW first \in Nat, NEW d, \A n \in 1 .. L : d[n] \in Nat \ {0},
         NEW f, Running(f, first, d, L)
  PROVE  \A j, k \in 1 .. L + 1 : j < k => f[j] < f[k]
<1>1. /\ \A k \in 1 .. L + 1 : f[k] \in Nat
      /\ \A n \in 1 .. L : f[n + 1] = f[n] + d[n]
  BY RunValues
<1>2. SUFFICES ASSUME NEW j \in 1 .. L + 1 PROVE \A k \in 1 .. L + 1 : j < k => f[j] < f[k]
  OBVIOUS
<1> DEFINE Bad == {k \in 1 .. L + 1 : j < k /\ ~ (f[j] < f[k])}
<1>3. SUFFICES ASSUME Bad # {} PROVE FALSE
  OBVIOUS
<1>4. PICK k \in Bad : \A p \in Bad : k <= p
  <2>1. Bad \in SUBSET Nat
    OBVIOUS
  <2> HIDE DEF Bad
  <2> QED
    BY <1>3, <2>1, Least
<1>5. k \in 1 .. L + 1 /\ j < k /\ ~ (f[j] < f[k])
  OBVIOUS
<1>6. k - 1 \in 1 .. L /\ k - 1 \in 1 .. L + 1 /\ ~ (k <= k - 1) /\ k - 1 + 1 = k
  BY <1>5
<1>7. f[k] = f[k - 1] + d[k - 1] /\ d[k - 1] \in Nat \ {0} /\ f[k - 1] \in Nat /\ f[j] \in Nat
  BY <1>1, <1>6
<1>8. CASE j = k - 1
  BY <1>5, <1>7, <1>8
<1>9. CASE j < k - 1
  <2>1. f[j] < f[k - 1]
    BY <1>4, <1>6, <1>9
  <2> QED
    BY <1>5, <1>7, <2>1
<1> QED
  BY <1>5, <1>6, <1>8, <1>9

\* The places of pieces: each begins where the one before it ends.
LEMMA RunPlaces ==
  ASSUME NEW L \in Nat, NEW first \in Nat, NEW w, Len(w) = L,
         \A m \in 1 .. L : w[m] \in Nat \ {0}
  PROVE  /\ Cap!Place(first, w, 1) = first
         /\ \A m \in 1 .. L : Cap!Place(first, w, m + 1) = Cap!Place(first, w, m) + w[m]
         /\ \A m \in 1 .. L + 1 : Cap!Place(first, w, m) \in Nat
         /\ \A j, m \in 1 .. L + 1 : j < m => Cap!Place(first, w, j) < Cap!Place(first, w, m)
<1> DEFINE f == CHOOSE g : Running(g, first, w, L)
<1>1. Running(f, first, w, L)
  BY RunExists, Zenon
<1>2. \A m : Cap!Place(first, w, m) = f[m]
  BY Zenon DEF Cap!Place, Running
<1> HIDE DEF f
<1>a. \A m \in 1 .. L : w[m] \in Nat
  OBVIOUS
<1>v. ASSUME NEW g, Running(g, first, w, L)
      PROVE  /\ \A m \in 1 .. L + 1 : g[m] \in Nat
             /\ g[1] = first
             /\ \A m \in 1 .. L : g[m + 1] = g[m] + w[m]
  <2>1. \A d : (\A m \in 1 .. L : d[m] \in Nat) =>
              \A f_ : Running(f_, first, d, L) =>
                /\ \A m \in 1 .. L + 1 : f_[m] \in Nat
                /\ f_[1] = first
                /\ \A m \in 1 .. L : f_[m + 1] = f_[m] + d[m]
    BY RunValues, Zenon
  <2> QED
    BY <1>v, <1>a, <2>1, Zenon
<1>3. /\ \A m \in 1 .. L + 1 : f[m] \in Nat
      /\ f[1] = first
      /\ \A m \in 1 .. L : f[m + 1] = f[m] + w[m]
  BY <1>1, <1>v
<1>4. \A j, m \in 1 .. L + 1 : j < m => f[j] < f[m]
  BY <1>1, RunRises
<1> QED
  BY <1>2, <1>3, <1>4, Zenon

-----------------------------------------------------------------------------
\* The packets of a capture.
LEMMA PacketPlaces ==
  ASSUME NEW c \in Seq(Cap!PacketType)
  PROVE  /\ Cap!Start(c, 1) = 0
         /\ \A m \in 1 .. Len(c) :
              Cap!Incl(c[m]) \in Nat /\ Cap!Start(c, m + 1) = Cap!Start(c, m) + 16 + Cap!Incl(c[m])
         /\ \A m \in 1 .. Len(c) + 1 : Cap!Start(c, m) \in Nat
         /\ \A j, m \in 1 .. Len(c) + 1 : j < m => Cap!Start(c, j) < Cap!Start(c, m)
<1> DEFINE w == [m \in 1 .. Len(c) |-> 16 + Cap!Incl(c[m])]
<1>1. Len(c) \in Nat /\ Len(w) = Len(c)
  BY LenProperties
<1>2. ASSUME NEW m \in 1 .. Len(c)
      PROVE Cap!Incl(c[m]) \in Nat /\ w[m] = 16 + Cap!Incl(c[m])
  <2>1. c[m] \in Cap!PacketType
    BY ElementOfSeq
  <2>2. c[m].payload \in Nat /\ c[m].padding \in Nat
    BY <2>1 DEF Cap!PacketType
  <2>3. Cap!Incl(c[m]) = 70 - 16 + c[m].payload + c[m].padding
    BY DEF Cap!Incl, Cap!Headers
  <2> QED
    BY <2>2, <2>3
<1>3. \A m : Cap!Start(c, m) = Cap!Place(0, w, m)
  BY DEF Cap!Start
<1> HIDE DEF w
<1>4. \A m \in 1 .. Len(c) : w[m] \in Nat \ {0}
  BY <1>2
<1>5. /\ Cap!Place(0, w, 1) = 0
      /\ \A m \in 1 .. Len(c) : Cap!Place(0, w, m + 1) = Cap!Place(0, w, m) + w[m]
      /\ \A m \in 1 .. Len(c) + 1 : Cap!Place(0, w, m) \in Nat
      /\ \A j, m \in 1 .. Len(c) + 1 : j < m => Cap!Place(0, w, j) < Cap!Place(0, w, m)
  BY <1>1, <1>4, RunPlaces
<1>6. \A m \in 1 .. Len(c) : Cap!Start(c, m + 1) = Cap!Start(c, m) + 16 + Cap!Incl(c[m])
  <2> TAKE m \in 1 .. Len(c)
  <2>1. m \in 1 .. Len(c) + 1 /\ m + 1 \in 1 .. Len(c) + 1
    BY <1>1
  <2>2. Cap!Start(c, m + 1) = Cap!Start(c, m) + w[m] /\ Cap!Start(c, m) \in Nat
    BY <2>1, <1>3, <1>5
  <2>3. Cap!Incl(c[m]) \in Nat /\ w[m] = 16 + Cap!Incl(c[m])
    BY <1>2
  <2> QED
    BY <2>2, <2>3
<1> QED
  BY <1>2, <1>3, <1>5, <1>6

\* The extensions of a hello.
LEMMA ExtPlaces ==
  ASSUME NEW h \in Cap!HelloType
  PROVE  /\ Cap!Offset(h) \in Nat /\ Cap!Offset(h) >= 2
         /\ Cap!ExtStart(h, 1) = Cap!Offset(h)
         /\ \A m \in 1 .. Len(h.exts) :
              h.exts[m] \in Nat /\ Cap!ExtStart(h, m + 1) = Cap!ExtStart(h, m) + 4 + h.exts[m]
         /\ \A m \in 1 .. Len(h.exts) + 1 : Cap!ExtStart(h, m) \in Nat
         /\ \A j, m \in 1 .. Len(h.exts) + 1 : j < m => Cap!ExtStart(h, j) < Cap!ExtStart(h, m)
<1> DEFINE e == h.exts
           w == [m \in 1 .. Len(e) |-> 4 + e[m]]
           o == Cap!Offset(h)
<1>0. e \in Seq(Nat) /\ h.sid \in Nat /\ h.ciphers \in Nat /\ h.zips \in Nat
  BY DEF Cap!HelloType
<1>1. Len(e) \in Nat /\ Len(w) = Len(e)
  BY <1>0, LenProperties
<1>o. o \in Nat /\ o >= 2
  <2>1. \A a, b, c \in Nat : /\ 44 + a + 2 + b + 1 + c + 2 \in Nat /\ 44 + a + 2 + b + 1 + c + 2 >= 2
                            /\ 44 + a + 2 + 1 + 2 \in Nat /\ 44 + a + 2 + 1 + 2 >= 2
    OBVIOUS
  <2>2. Cap!ClientOffset(h) \in Nat /\ Cap!ClientOffset(h) >= 2
    BY <1>0, <2>1 DEF Cap!ClientOffset
  <2>3. Cap!ServerOffset(h) \in Nat /\ Cap!ServerOffset(h) >= 2
    BY <1>0, <2>1 DEF Cap!ServerOffset
  <2>4. o = Cap!ClientOffset(h) \/ o = Cap!ServerOffset(h)
    BY DEF Cap!Offset
  <2> QED
    BY <2>2, <2>3, <2>4
<1>2. \A m \in 1 .. Len(e) : e[m] \in Nat /\ w[m] = 4 + e[m]
  BY <1>0, ElementOfSeq
<1>3. \A m : Cap!ExtStart(h, m) = Cap!Place(o, w, m)
  BY DEF Cap!ExtStart
<1> HIDE DEF w, e, o
<1>4. \A m \in 1 .. Len(e) : w[m] \in Nat \ {0}
  BY <1>2
<1>5. /\ Cap!Place(o, w, 1) = o
      /\ \A m \in 1 .. Len(e) : Cap!Place(o, w, m + 1) = Cap!Place(o, w, m) + w[m]
      /\ \A m \in 1 .. Len(e) + 1 : Cap!Place(o, w, m) \in Nat
      /\ \A j, m \in 1 .. Len(e) + 1 : j < m => Cap!Place(o, w, j) < Cap!Place(o, w, m)
  BY <1>1, <1>4, <1>o, RunPlaces
<1>6. \A m \in 1 .. Len(e) : Cap!ExtStart(h, m + 1) = Cap!ExtStart(h, m) + 4 + e[m]
  <2> TAKE m \in 1 .. Len(e)
  <2>1. m \in 1 .. Len(e) + 1 /\ m + 1 \in 1 .. Len(e) + 1
    BY <1>1
  <2>2. Cap!ExtStart(h, m + 1) = Cap!ExtStart(h, m) + w[m] /\ Cap!ExtStart(h, m) \in Nat
    BY <2>1, <1>3, <1>5
  <2>3. e[m] \in Nat /\ w[m] = 4 + e[m]
    BY <1>2
  <2> QED
    BY <2>2, <2>3
<1> QED
  BY <1>o, <1>2, <1>3, <1>5, <1>6 DEF e, o

-----------------------------------------------------------------------------
(***************************************************************************)
(* The packet reader. The values of the scan before its last are starts of *)
(* packets, or the end of the capture, that lie in the file; so is the     *)
(* last one until the scan has stepped over the end of the file, and then  *)
(* no later packet starts in it. The values of the walk over extensions    *)
(* are their starts, as far as there are any.                              *)
(***************************************************************************)
CapTypes ==
  /\ cap_capture \in Seq(Cap!PacketType) /\ cap_hello \in Cap!HelloType
  /\ cap_count \in Nat /\ cap_y \in Nat
  /\ cap_idx \in Seq(Nat)
  /\ \A n \in 1 .. Len(cap_idx) - 1 : cap_idx[n + 1] > cap_idx[n]
  /\ \A n \in DOMAIN cap_rows : cap_rows[n] \in Nat

AtLast == Len(cap_idx) >= 1 /\ cap_y = cap_idx[Len(cap_idx)]

Scan ==
  LET packets == Len(cap_capture)
      last == Len(cap_idx)
  IN  /\ cap_count <= Cap!Total(cap_capture)
      /\ last - 1 <= packets + 1
      /\ \A n \in 1 .. last - 1 :
           cap_idx[n] = Cap!Start(cap_capture, n) /\ cap_idx[n] <= cap_count
      /\ cap_y <= cap_count => last <= packets + 1 /\ cap_y = Cap!Start(cap_capture, last)
      /\ cap_y > cap_count =>
           last >= 2 /\ (last <= packets + 1 => Cap!Start(cap_capture, last) > cap_count)

Split ==
  /\ cap_idx = [n \in Cap!Whole |-> Cap!Start(cap_capture, n)]
  /\ \A n \in DOMAIN cap_rows :
       cap_rows[n] - cap_capture[n].payload - cap_capture[n].padding =
         IF n = Len(cap_rows) THEN cap_count - Cap!Start(cap_capture, n + 1) ELSE 0

Found ==
  ~ cap_hello.bare =>
    \A n \in 1 .. Len(cap_idx) :
      n <= Len(cap_hello.exts) + 1 => cap_idx[n] = Cap!ExtStart(cap_hello, n)

CapInv ==
  /\ CapTypes
  /\ cap_pc \in {"splitcap", "idxcap", "cut", "msgParse", "hello", "idxExtns", "done", "signalled"}
  /\ cap_capture \in Captures \cup {<< >>} /\ cap_hello \in Hellos \cup {Cap!NoHello}
  /\ cap_pc \in {"splitcap", "idxcap", "cut"} => Cap!OfCapture
  /\ cap_pc = "splitcap" => cap_count <= Cap!Total(cap_capture)
  /\ cap_pc \in {"idxcap", "cut"} => AtLast /\ Scan
  /\ cap_pc = "cut" => cap_y > cap_count
  /\ cap_pc = "done" /\ Cap!OfCapture => Split
  /\ cap_pc \in {"msgParse", "hello", "idxExtns"} =>
       cap_count = Cap!HelloEnd(cap_hello) + cap_hello.extra
  /\ cap_pc \in {"hello", "idxExtns"} => ~ Cap!OfCapture
  /\ cap_pc = "idxExtns" => AtLast /\ Found
  /\ cap_pc = "done" /\ ~ Cap!OfCapture =>
       Found /\ (~ cap_hello.bare => Len(cap_hello.exts) <= Len(cap_idx))

-----------------------------------------------------------------------------
LEMMA CapConstants ==
  /\ \A c \in Captures \cup {<< >>} : c \in Seq(Cap!PacketType)
  /\ Hellos \cup {Cap!NoHello} \subseteq Cap!HelloType
  /\ Garbage \subseteq Nat /\ MaxBeyond \in Nat
<1>1. /\ \A c \in Captures : c \in Seq(Cap!PacketType)
      /\ Hellos \subseteq Cap!HelloType /\ Garbage \subseteq Nat /\ MaxBeyond \in Nat
  BY RoutinesAssumption DEF Cap!PcapAssumption
<1>2. << >> \in Seq(Cap!PacketType) /\ << >> \in Seq(Nat)
  OBVIOUS
<1>3. Cap!NoHello \in Cap!HelloType
  BY <1>2 DEF Cap!NoHello, Cap!HelloType
<1> QED
  BY <1>1, <1>2, <1>3

\* A hello ends behind its extensions.
LEMMA HelloEnds ==
  ASSUME NEW h \in Cap!HelloType
  PROVE  /\ Cap!HelloEnd(h) \in Nat /\ h.extra \in Nat
         /\ ~ h.bare => Cap!HelloEnd(h) = Cap!ExtStart(h, Len(h.exts) + 1)
<1>1. Cap!Offset(h) \in Nat /\ Cap!Offset(h) >= 2
  BY ExtPlaces
<1>2. Len(h.exts) \in Nat /\ h.extra \in Nat
  BY LenProperties DEF Cap!HelloType
<1>3. Cap!ExtStart(h, Len(h.exts) + 1) \in Nat
  <2>1. Len(h.exts) + 1 \in 1 .. Len(h.exts) + 1
    BY <1>2
  <2> QED
    BY <2>1, ExtPlaces
<1> QED
  BY <1>1, <1>2, <1>3 DEF Cap!HelloEnd

\* What the scan of a capture reads as a length at the start of a packet.
LEMMA LengthRead ==
  ASSUME CapTypes
  PROVE  /\ \A at : Cap!LengthAt(at) \in Nat
         /\ \A m \in 1 .. Len(cap_capture) + 1 :
              LET s == Cap!Start(cap_capture, m)
              IN  Cap!LengthAt(s) = IF s + 8 < cap_count /\ m <= Len(cap_capture)
                                    THEN Cap!Incl(cap_capture[m]) ELSE 0
<1> DEFINE L == Len(cap_capture)
           S(m) == Cap!Start(cap_capture, m)
           In(a) == {n \in 1 .. L : S(n) = a}
<1>0. cap_capture \in Seq(Cap!PacketType) /\ L \in Nat /\ DOMAIN cap_capture = 1 .. L
  BY LenProperties DEF CapTypes
<1>1. /\ \A m \in 1 .. L : Cap!Incl(cap_capture[m]) \in Nat
      /\ \A m \in 1 .. L + 1 : S(m) \in Nat
      /\ \A j, m \in 1 .. L + 1 : j < m => S(j) < S(m)
  BY <1>0, PacketPlaces
<1>2. \A a : Cap!LengthAt(a) = IF a + 8 < cap_count /\ In(a) # {}
                               THEN Cap!Incl(cap_capture[CHOOSE n \in In(a) : TRUE]) ELSE 0
  BY <1>0 DEF Cap!LengthAt
<1>3. \A a : In(a) # {} => (CHOOSE n \in In(a) : TRUE) \in In(a)
  OBVIOUS
<1>4. \A a : In(a) \subseteq 1 .. L
  OBVIOUS
<1>5. ASSUME NEW m \in 1 .. L + 1 PROVE In(S(m)) = IF m <= L THEN {m} ELSE {}
  <2>1. ASSUME NEW n \in 1 .. L, S(n) = S(m) PROVE n = m
    <3>1. n \in 1 .. L + 1 /\ S(n) \in Nat /\ S(m) \in Nat
      BY <1>0, <1>1
    <3>2. ~ (n < m) /\ ~ (m < n)
      BY <1>1, <2>1, <3>1
    <3> QED
      BY <1>0, <3>2
  <2>2. m <= L => m \in 1 .. L
    BY <1>0
  <2>3. m \in 1 .. L => m <= L
    BY <1>0
  <2> HIDE DEF S, L
  <2> QED
    BY <2>1, <2>2, <2>3
<1> HIDE DEF L, S, In
<1>6. ASSUME NEW a PROVE Cap!LengthAt(a) \in Nat
  <2>1. In(a) # {} => Cap!Incl(cap_capture[CHOOSE n \in In(a) : TRUE]) \in Nat
    BY <1>1, <1>3, <1>4
  <2>2. Cap!LengthAt(a) = 0 \/ (In(a) # {} /\ Cap!LengthAt(a) = Cap!Incl(cap_capture[CHOOSE n \in In(a) : TRUE]))
    BY <1>2, Zenon
  <2> QED
    BY <2>1, <2>2
<1>7. ASSUME NEW m \in 1 .. L + 1
      PROVE  Cap!LengthAt(S(m)) = IF S(m) + 8 < cap_count /\ m <= L THEN Cap!Incl(cap_capture[m]) ELSE 0
  <2>1. CASE m <= L
    <3>1. In(S(m)) = {m}
      BY <1>5, <2>1
    <3>2. In(S(m)) # {} /\ (CHOOSE n \in In(S(m)) : TRUE) = m
      BY <3>1, <1>3
    <3>3. CASE S(m) + 8 < cap_count
      <4>1. Cap!LengthAt(S(m)) = Cap!Incl(cap_capture[CHOOSE n \in In(S(m)) : TRUE])
        BY <1>2, <3>2, <3>3, Zenon
      <4> QED
        BY <4>1, <2>1, <3>2, <3>3, Zenon
    <3>4. CASE ~ (S(m) + 8 < cap_count)
      BY <1>2, <3>4, Zenon
    <3> QED
      BY <3>3, <3>4
  <2>2. CASE ~ (m <= L)
    <3>1. In(S(m)) = {}
      BY <1>5, <2>2
    <3> QED
      BY <1>2, <2>2, <3>1, Zenon
  <2> QED
    BY <2>1, <2>2
<1> QED
  BY <1>6, <1>7 DEF L, S

\* What the walk over extensions may read as a length.
LEMMA ExtensionRead ==
  ASSUME CapTypes
  PROVE  /\ \A at : Cap!ExtLengths(at) \subseteq Nat
         /\ \A m \in 1 .. Len(cap_hello.exts) :
              Cap!ExtLengths(Cap!ExtStart(cap_hello, m)) = {cap_hello.exts[m]}
<1> DEFINE e == cap_hello.exts
           E(m) == Cap!ExtStart(cap_hello, m)
           In(a) == {n \in 1 .. Len(e) : E(n) = a}
<1>0. e \in Seq(Nat) /\ Len(e) \in Nat /\ DOMAIN e = 1 .. Len(e)
  BY LenProperties DEF CapTypes, Cap!HelloType
<1>1. /\ \A m \in 1 .. Len(e) : e[m] \in Nat
      /\ \A m \in 1 .. Len(e) + 1 : E(m) \in Nat
      /\ \A j, m \in 1 .. Len(e) + 1 : j < m => E(j) < E(m)
  BY ExtPlaces DEF CapTypes
<1>2. \A a : Cap!ExtLengths(a) =
               IF In(a) # {} THEN {e[CHOOSE n \in In(a) : TRUE]}
               ELSE IF a + 2 < cap_count THEN Garbage ELSE {0}
  BY <1>0 DEF Cap!ExtLengths
<1>3. \A a : In(a) # {} => (CHOOSE n \in In(a) : TRUE) \in In(a)
  OBVIOUS
<1>4. \A a : In(a) \subseteq 1 .. Len(e)
  OBVIOUS
<1>5. ASSUME NEW m \in 1 .. Len(e) PROVE In(E(m)) = {m}
  <2>1. ASSUME NEW n \in 1 .. Len(e), E(n) = E(m) PROVE n = m
    <3>1. n \in 1 .. Len(e) + 1 /\ m \in 1 .. Len(e) + 1
      BY <1>0
    <3>2. E(n) \in Nat /\ E(m) \in Nat
      BY <1>1, <3>1
    <3>3. ~ (n < m) /\ ~ (m < n)
      BY <1>1, <2>1, <3>1, <3>2
    <3> QED
      BY <1>0, <3>3
  <2> HIDE DEF E, e
  <2> QED
    BY <2>1
<1> HIDE DEF e, E, In
<1>6. ASSUME NEW a PROVE Cap!ExtLengths(a) \subseteq Nat
  <2>1. In(a) # {} => e[CHOOSE n \in In(a) : TRUE] \in Nat
    BY <1>1, <1>3, <1>4
  <2>2. Garbage \subseteq Nat /\ {0} \subseteq Nat
    BY CapConstants
  <2>3. \/ Cap!ExtLengths(a) = Garbage \/ Cap!ExtLengths(a) = {0}
        \/ In(a) # {} /\ Cap!ExtLengths(a) = {e[CHOOSE n \in In(a) : TRUE]}
    BY <1>2, Zenon
  <2> QED
    BY <2>1, <2>2, <2>3
<1>7. ASSUME NEW m \in 1 .. Len(e) PROVE Cap!ExtLengths(E(m)) = {e[m]}
  <2>1. In(E(m)) # {} /\ (CHOOSE n \in In(E(m)) : TRUE) = m
    BY <1>5, <1>3
  <2> QED
    BY <1>2, <2>1, Zenon
<1> QED
  BY <1>6, <1>7 DEF e, E

-----------------------------------------------------------------------------
\* Another value at the end of a sequence that rises.
LEMMA Longer ==
  ASSUME NEW s \in Seq(Nat), Len(s) >= 1, NEW v \in Nat, v > s[Len(s)],
         \A n \in 1 .. Len(s) - 1 : s[n + 1] > s[n]
  PROVE  /\ Append(s, v) \in Seq(Nat) /\ Len(Append(s, v)) = Len(s) + 1
         /\ \A n \in 1 .. Len(s) : Append(s, v)[n] = s[n]
         /\ Append(s, v)[Len(s) + 1] = v
         /\ \A n \in 1 .. Len(s) : Append(s, v)[n + 1] > Append(s, v)[n]
<1>0. Len(s) \in Nat
  BY LenProperties
<1>1. /\ Append(s, v) \in Seq(Nat) /\ Len(Append(s, v)) = Len(s) + 1
      /\ \A n \in 1 .. Len(s) : Append(s, v)[n] = s[n]
      /\ Append(s, v)[Len(s) + 1] = v
  BY AppendProperties
<1>2. ASSUME NEW n \in 1 .. Len(s) PROVE Append(s, v)[n + 1] > Append(s, v)[n]
  <2>1. CASE n = Len(s)
    BY <1>1, <2>1
  <2>2. CASE n # Len(s)
    <3>1. n \in 1 .. Len(s) - 1 /\ n + 1 \in 1 .. Len(s)
      BY <1>0, <2>2
    <3> QED
      BY <1>1, <3>1
  <2> QED
    BY <2>1, <2>2
<1> QED
  BY <1>1, <1>2

\* The first elements of one.
LEMMA Shorter ==
  ASSUME NEW s \in Seq(Nat), NEW d \in Nat, d <= Len(s),
         \A n \in 1 .. Len(s) - 1 : s[n + 1] > s[n]
  PROVE  LET t == Cap!DropLast(s, d)
         IN  /\ t \in Seq(Nat) /\ Len(t) = Len(s) - d
             /\ \A n \in 1 .. Len(s) - d : t[n] = s[n]
             /\ \A n \in 1 .. Len(t) - 1 : t[n + 1] > t[n]
<1> DEFINE t == Cap!DropLast(s, d)
           m == Len(s) - d
<1>0. Len(s) \in Nat /\ m \in 0 .. Len(s)
  BY LenProperties
<1>1. t = SubSeq(s, 1, m)
  BY DEF Cap!DropLast
<1>2. \A n \in 1 .. m : s[n] \in Nat
  BY <1>0, ElementOfSeq
<1>3. t \in Seq(Nat) /\ Len(t) = m /\ \A n \in 1 .. m : t[n] = s[n]
  <2>1. t = [n \in 1 .. m |-> s[n]]
    BY <1>0, <1>1
  <2> QED
    BY <1>0, <1>1, <1>2, <2>1
<1> HIDE DEF t
<1>4. ASSUME NEW n \in 1 .. Len(t) - 1 PROVE t[n + 1] > t[n]
  <2>1. n \in 1 .. m /\ n + 1 \in 1 .. m /\ n \in 1 .. Len(s) - 1
    BY <1>0, <1>3
  <2> QED
    BY <1>3, <2>1
<1> QED
  BY <1>3, <1>4 DEF t

LEMMA CapInit == ASSUME Cap!Init PROVE CapInv
<1>1. << >> \in Seq(Nat) /\ Len(<< >>) = 0 /\ DOMAIN << >> = {}
  OBVIOUS
<1>2. /\ cap_capture \in Captures \cup {<< >>} /\ cap_hello \in Hellos \cup {Cap!NoHello}
      /\ cap_idx = << >> /\ cap_rows = << >> /\ cap_y = 0
      /\ \/ cap_pc = "splitcap" /\ cap_hello = Cap!NoHello
         \/ cap_pc = "msgParse"
      /\ cap_pc = "splitcap" => cap_count \in 0 .. Cap!Total(cap_capture)
      /\ cap_pc = "msgParse" => cap_count = Cap!HelloEnd(cap_hello) + cap_hello.extra
  BY DEF Cap!Init
<1>3. cap_capture \in Seq(Cap!PacketType) /\ cap_hello \in Cap!HelloType
  BY <1>2, CapConstants
<1>4. cap_count \in Nat
  <2>1. cap_pc = "msgParse" => cap_count \in Nat
    BY <1>2, <1>3, HelloEnds
  <2>2. Cap!Total(cap_capture) \in Nat
    <3>1. Len(cap_capture) + 1 \in 1 .. Len(cap_capture) + 1
      BY <1>3, LenProperties
    <3> QED
      BY <1>3, <3>1, PacketPlaces DEF Cap!Total
  <2> QED
    BY <1>2, <2>1, <2>2
<1>5. CapTypes
  BY <1>1, <1>2, <1>3, <1>4 DEF CapTypes
<1>6. cap_pc = "splitcap" => cap_count <= Cap!Total(cap_capture)
  <2>1. Cap!Total(cap_capture) \in Nat
    <3>1. Len(cap_capture) + 1 \in 1 .. Len(cap_capture) + 1
      BY <1>3, LenProperties
    <3> QED
      BY <1>3, <3>1, PacketPlaces DEF Cap!Total
  <2> QED
    BY <1>2, <2>1
<1> QED
  BY <1>2, <1>5, <1>6 DEF CapInv, Cap!OfCapture

\* The scan of a capture goes on.
LEMMA ScanStep ==
  ASSUME CapInv, Cap!IdxCap
  PROVE  /\ cap_idx' \in Seq(Nat) /\ cap_y' \in Nat
         /\ \A n \in 1 .. Len(cap_idx') - 1 : cap_idx'[n + 1] > cap_idx'[n]
         /\ AtLast' /\ Scan'
<1> DEFINE S(m) == Cap!Start(cap_capture, m)
           P == Len(cap_capture)
           L == Len(cap_idx)
<1>1. /\ cap_pc = "idxcap" /\ UNCHANGED <<cap_capture, cap_count, cap_hello, cap_rows>>
      /\ cap_y > cap_count => UNCHANGED <<cap_y, cap_idx>>
      /\ ~ (cap_y > cap_count) =>
           cap_y' = 16 + cap_y + Cap!LengthAt(cap_y) /\ cap_idx' = Append(cap_idx, cap_y')
  BY DEF Cap!IdxCap
<1>2. CapTypes /\ AtLast /\ Scan
  BY <1>1 DEF CapInv
<1>3. /\ cap_capture \in Seq(Cap!PacketType) /\ P \in Nat /\ cap_count \in Nat /\ cap_y \in Nat
      /\ cap_idx \in Seq(Nat) /\ L \in Nat /\ L >= 1
      /\ \A n \in 1 .. L - 1 : cap_idx[n + 1] > cap_idx[n]
  BY <1>2, LenProperties DEF CapTypes, AtLast
<1>4. /\ \A m \in 1 .. P + 1 : S(m) \in Nat
      /\ \A m \in 1 .. P : Cap!Incl(cap_capture[m]) \in Nat /\ S(m + 1) = S(m) + 16 + Cap!Incl(cap_capture[m])
  BY <1>3, PacketPlaces
<1>5. CASE cap_y > cap_count
  <2>1. UNCHANGED <<cap_y, cap_idx, cap_count, cap_capture>>
    BY <1>1, <1>5
  <2> QED
    BY <2>1, <1>2, <1>3 DEF AtLast, Scan
<1>6. CASE ~ (cap_y > cap_count)
  <2> DEFINE wide == Cap!LengthAt(cap_y)
  <2>1. cap_y' = 16 + cap_y + wide /\ cap_idx' = Append(cap_idx, cap_y') /\ wide \in Nat
    BY <1>1, <1>2, <1>6, LengthRead
  <2>2. cap_y <= cap_count /\ L <= P + 1 /\ cap_y = S(L) /\ cap_y = cap_idx[L] /\ L \in 1 .. P + 1
    BY <1>2, <1>3, <1>6 DEF Scan, AtLast
  <2>3. wide = IF cap_y + 8 < cap_count /\ L <= P THEN Cap!Incl(cap_capture[L]) ELSE 0
    BY <1>2, <2>2, LengthRead
  <2> HIDE DEF wide
  <2>4. cap_y' \in Nat /\ cap_y' > cap_y
    BY <1>3, <2>1
  <2>5. /\ cap_idx' \in Seq(Nat) /\ Len(cap_idx') = L + 1
        /\ \A n \in 1 .. L : cap_idx'[n] = cap_idx[n]
        /\ cap_idx'[L + 1] = cap_y'
        /\ \A n \in 1 .. L : cap_idx'[n + 1] > cap_idx'[n]
    BY <1>3, <2>1, <2>2, <2>4, Longer
  <2>6. ASSUME NEW n \in 1 .. L PROVE cap_idx'[n] = S(n) /\ cap_idx'[n] <= cap_count
    <3>1. CASE n = L
      BY <2>2, <2>5, <3>1
    <3>2. CASE n # L
      <4>1. n \in 1 .. L - 1
        BY <1>3, <3>2
      <4> QED
        BY <1>2, <2>5, <4>1 DEF Scan
    <3> QED
      BY <3>1, <3>2
  <2>7. /\ cap_y' <= cap_count => L <= P /\ cap_y' = S(L + 1)
        /\ cap_y' > cap_count /\ L <= P => S(L + 1) > cap_count
    <3>1. CASE L <= P
      <4>1. L \in 1 .. P
        BY <1>3, <2>2, <3>1
      <4> DEFINE incl == Cap!Incl(cap_capture[L])
      <4>2. incl \in Nat /\ S(L + 1) = cap_y + 16 + incl
        BY <1>4, <2>2, <4>1
      <4>3. wide = IF cap_y + 8 < cap_count THEN incl ELSE 0
        BY <2>3, <3>1
      <4> HIDE DEF incl, S, P, L
      <4>4. CASE cap_y + 8 < cap_count
        <5>1. cap_y' = S(L + 1)
          BY <1>3, <2>1, <4>2, <4>3, <4>4
        <5> QED
          BY <5>1, <3>1
      <4>5. CASE ~ (cap_y + 8 < cap_count)
        <5>1. cap_y' = 16 + cap_y
          BY <1>3, <2>1, <4>3, <4>5
        <5>2. cap_y' > cap_count /\ S(L + 1) > cap_count
          BY <1>3, <5>1, <4>2, <4>5
        <5> QED
          BY <5>2, <5>1, <1>3
      <4> QED
        BY <4>4, <4>5
    <3>2. CASE ~ (L <= P)
      <4>1. L = P + 1
        BY <1>3, <2>2, <3>2
      <4>2. cap_count <= S(P + 1)
        BY <1>2 DEF Scan, Cap!Total
      <4>3. wide = 0
        BY <2>3, <3>2
      <4>4. cap_y = S(P + 1)
        BY <2>2, <4>1
      <4> HIDE DEF S, P, L
      <4>5. cap_y' > cap_count
        BY <1>3, <2>1, <4>2, <4>3, <4>4
      <4> QED
        BY <4>5, <1>3, <2>4, <3>2
    <3> QED
      BY <3>1, <3>2
  <2>8. AtLast'
    BY <2>5, <1>3 DEF AtLast
  <2>9. /\ Len(cap_idx') - 1 = L /\ L <= P + 1 /\ L + 1 >= 2
        /\ L <= P => L + 1 <= P + 1
        /\ L + 1 <= P + 1 => L <= P
    BY <1>3, <2>2, <2>5
  <2>10. Scan'
    <3>1. cap_count <= Cap!Total(cap_capture)
      BY <1>2 DEF Scan
    <3>2. cap_count' = cap_count /\ cap_capture' = cap_capture
      BY <1>1
    <3> QED
      BY <3>1, <3>2, <2>5, <2>6, <2>7, <2>9 DEF Scan
  <2>11. \A n \in 1 .. Len(cap_idx') - 1 : cap_idx'[n + 1] > cap_idx'[n]
    BY <2>5, <2>9
  <2> QED
    BY <2>4, <2>5, <2>8, <2>10, <2>11
<1> QED
  BY <1>5, <1>6

\* Where the scan ends, what the first of its values but two are.
LEMMA WholePackets ==
  ASSUME CapTypes, AtLast, Scan, cap_y > cap_count
  PROVE  /\ 2 <= Len(cap_idx) /\ Len(cap_idx) - 2 <= Len(cap_capture)
         /\ Cap!Whole = 1 .. Len(cap_idx) - 2
<1> DEFINE S(m) == Cap!Start(cap_capture, m)
           P == Len(cap_capture)
           L == Len(cap_idx)
<1>1. /\ cap_capture \in Seq(Cap!PacketType) /\ P \in Nat /\ DOMAIN cap_capture = 1 .. P
      /\ cap_count \in Nat /\ L \in Nat
  BY LenProperties DEF CapTypes
<1>2. /\ \A m \in 1 .. P + 1 : S(m) \in Nat
      /\ \A j, m \in 1 .. P + 1 : j < m => S(j) < S(m)
  BY <1>1, PacketPlaces
<1>3. /\ L - 1 <= P + 1 /\ L >= 2 /\ (L <= P + 1 => S(L) > cap_count)
      /\ \A n \in 1 .. L - 1 : S(n) <= cap_count
  BY DEF Scan
<1>4. Cap!Whole = {n \in 1 .. P : S(n + 1) <= cap_count}
  BY <1>1 DEF Cap!Whole
<1>5. ASSUME NEW n \in 1 .. L - 2 PROVE n \in 1 .. P /\ S(n + 1) <= cap_count
  BY <1>1, <1>3
<1>6. ASSUME NEW n \in 1 .. P, S(n + 1) <= cap_count PROVE n \in 1 .. L - 2
  <2>1. SUFFICES ASSUME n + 1 >= L PROVE FALSE
    BY <1>1
  <2>2. L <= P + 1 /\ L \in 1 .. P + 1 /\ n + 1 \in 1 .. P + 1
    BY <1>1, <1>3, <2>1
  <2>3. S(L) <= S(n + 1)
    <3>1. CASE n + 1 = L
      BY <3>1, <1>2, <2>2
    <3>2. CASE L < n + 1
      BY <3>2, <1>2, <2>2
    <3> QED
      BY <1>1, <2>1, <3>1, <3>2
  <2>4. S(L) \in Nat /\ S(n + 1) \in Nat /\ S(L) > cap_count
    BY <1>2, <1>3, <2>2
  <2> HIDE DEF S, L, P
  <2> QED
    BY <1>1, <1>6, <2>3, <2>4
<1>7. Cap!Whole = 1 .. L - 2
  <2> HIDE DEF S, P, L
  <2> QED
    BY <1>4, <1>5, <1>6
<1> QED
  BY <1>1, <1>3, <1>7

\* The cut, and the sizes of the rows.
LEMMA ReadStep ==
  ASSUME CapInv, Cap!ReadCap PROVE CapTypes' /\ Split'
<1> DEFINE S(m) == Cap!Start(cap_capture, m)
           P == Len(cap_capture)
           k == Len(cap_idx) - 2
<1>1. /\ cap_pc = "cut" /\ UNCHANGED <<cap_capture, cap_count, cap_hello, cap_y>>
      /\ cap_idx' = Cap!DropLast(cap_idx, 2)
      /\ cap_rows' = [n \in DOMAIN cap_idx' |-> Cap!Piece(cap_idx', n) - Cap!Headers]
  BY DEF Cap!ReadCap
<1>2. CapTypes /\ AtLast /\ Scan /\ cap_y > cap_count
  BY <1>1 DEF CapInv
<1>3. /\ cap_idx \in Seq(Nat) /\ Len(cap_idx) \in Nat /\ k \in Nat /\ k <= P /\ P \in Nat
      /\ Cap!Whole = 1 .. k
  <2>1. cap_idx \in Seq(Nat) /\ cap_capture \in Seq(Cap!PacketType)
    BY <1>2 DEF CapTypes
  <2> QED
    BY <1>2, <2>1, WholePackets, LenProperties
<1>4. /\ cap_idx' \in Seq(Nat) /\ Len(cap_idx') = k /\ DOMAIN cap_idx' = 1 .. k
      /\ \A n \in 1 .. k : cap_idx'[n] = cap_idx[n]
      /\ \A n \in 1 .. Len(cap_idx') - 1 : cap_idx'[n + 1] > cap_idx'[n]
  <2>1. /\ \A n \in 1 .. Len(cap_idx) - 1 : cap_idx[n + 1] > cap_idx[n]
        /\ 2 \in Nat /\ 2 <= Len(cap_idx)
    BY <1>2, WholePackets DEF CapTypes
  <2>2. /\ cap_idx' \in Seq(Nat) /\ Len(cap_idx') = k
        /\ \A n \in 1 .. k : cap_idx'[n] = cap_idx[n]
        /\ \A n \in 1 .. Len(cap_idx') - 1 : cap_idx'[n + 1] > cap_idx'[n]
    BY <1>1, <1>3, <2>1, Shorter
  <2> QED
    BY <2>2, LenProperties
<1>5. \A n \in 1 .. k : cap_idx'[n] = S(n)
  <2>1. \A n \in 1 .. k : n \in 1 .. Len(cap_idx) - 1
    BY <1>3
  <2> QED
    BY <1>2, <1>4, <2>1 DEF Scan
<1>6. cap_idx' = [n \in 1 .. k |-> S(n)]
  <2>1. cap_idx' = [n \in 1 .. k |-> cap_idx'[n]]
    BY <1>4, LenProperties
  <2> QED
    BY <1>5, <2>1
<1>7. Cap!Whole' = 1 .. k
  BY <1>1, <1>3 DEF Cap!Whole
<1>8. ASSUME NEW n \in 1 .. k
      PROVE  /\ cap_rows'[n] \in Nat
             /\ cap_rows'[n] - cap_capture[n].payload - cap_capture[n].padding =
                  IF n = k THEN cap_count - S(n + 1) ELSE 0
  <2> DEFINE pay == cap_capture[n].payload
             pad == cap_capture[n].padding
  <2>1. n \in 1 .. P /\ n + 1 \in 1 .. P + 1 /\ n \in 1 .. P + 1
    BY <1>3
  <2>2. pay \in Nat /\ pad \in Nat /\ Cap!Incl(cap_capture[n]) = 70 - 16 + pay + pad
    <3>1. cap_capture[n] \in Cap!PacketType
      BY <1>2, <2>1, ElementOfSeq DEF CapTypes
    <3> QED
      BY <3>1 DEF Cap!PacketType, Cap!Incl, Cap!Headers
  <2>3. S(n) \in Nat /\ S(n + 1) \in Nat /\ S(n + 1) = S(n) + 16 + Cap!Incl(cap_capture[n])
    BY <1>2, <2>1, PacketPlaces DEF CapTypes
  <2>4. S(n + 1) <= cap_count
    BY <1>3 DEF Cap!Whole
  <2>5. cap_rows'[n] = (IF n = k THEN cap_count ELSE cap_idx'[n + 1]) - S(n) - 70
    BY <1>1, <1>4, <1>5 DEF Cap!Piece, Cap!Headers
  <2>6. cap_count \in Nat
    BY <1>2 DEF CapTypes
  <2>7. S(n + 1) = S(n) + 70 + pay + pad
    <3> HIDE DEF S, pay, pad
    <3> QED
      BY <2>2, <2>3
  <2>8. CASE n = k
    <3>1. cap_rows'[n] = cap_count - S(n) - 70
      BY <2>5, <2>8
    <3> HIDE DEF S, pay, pad, k
    <3>2. cap_count - S(n) - 70 \in Nat /\ cap_count - S(n) - 70 - pay - pad = cap_count - S(n + 1)
      BY <2>2, <2>3, <2>4, <2>6, <2>7
    <3> QED
      BY <3>1, <3>2, <2>8 DEF pay, pad
  <2>9. CASE n # k
    <3>1. n + 1 \in 1 .. k
      BY <1>3, <2>9
    <3>2. cap_rows'[n] = S(n + 1) - S(n) - 70
      BY <2>5, <2>9, <3>1, <1>5
    <3> HIDE DEF S, pay, pad, k
    <3>3. S(n + 1) - S(n) - 70 \in Nat /\ S(n + 1) - S(n) - 70 - pay - pad = 0
      BY <2>2, <2>3, <2>7
    <3> QED
      BY <3>2, <3>3, <2>9 DEF pay, pad
  <2> QED
    BY <2>8, <2>9
<1>9. DOMAIN cap_rows' = 1 .. k /\ Len(cap_rows') = k
  <2>1. cap_rows' = [n \in 1 .. k |-> cap_rows'[n]]
    BY <1>1, <1>4
  <2> DEFINE r == cap_rows'
  <2>2. r = [n \in 1 .. k |-> r[n]]
    BY <2>1
  <2> HIDE DEF r, k
  <2>3. DOMAIN r = 1 .. k
    BY <2>2
  <2>4. r \in Seq(Nat)
    <3>1. \A n \in 1 .. k : r[n] \in Nat
      BY <1>8 DEF r
    <3>2. r \in [1 .. k -> Nat]
      BY <2>2, <3>1
    <3> QED
      BY <1>3, <3>2, SeqDef
  <2>5. Len(r) = k
    BY <1>3, <2>3, <2>4, LenProperties
  <2> QED
    BY <2>3, <2>5 DEF r
<1>10. CapTypes'
  <2>1. UNCHANGED <<cap_capture, cap_count, cap_hello, cap_y>>
    BY <1>1
  <2>2. \A n \in DOMAIN cap_rows' : cap_rows'[n] \in Nat
    BY <1>8, <1>9
  <2> QED
    BY <1>2, <1>4, <2>1, <2>2 DEF CapTypes
<1>11. Split'
  <2>1. cap_capture' = cap_capture /\ cap_count' = cap_count
    BY <1>1
  <2>2. cap_idx' = [n \in Cap!Whole' |-> Cap!Start(cap_capture', n)]
    BY <1>6, <1>7, <2>1
  <2>3. \A n \in DOMAIN cap_rows' :
          cap_rows'[n] - cap_capture'[n].payload - cap_capture'[n].padding =
            IF n = Len(cap_rows') THEN cap_count' - Cap!Start(cap_capture', n + 1) ELSE 0
    BY <1>8, <1>9, <2>1, Zenon
  <2> QED
    BY <2>2, <2>3 DEF Split
<1> QED
  BY <1>10, <1>11

\* The walk over extensions goes on, or ends.
LEMMA WalkStep ==
  ASSUME CapInv, Cap!IdxExtns
  PROVE  /\ CapTypes' /\ Found'
         /\ cap_pc' = "idxExtns" => AtLast'
         /\ cap_pc' = "done" => (~ cap_hello.bare => Len(cap_hello.exts) <= Len(cap_idx'))
         /\ cap_pc' \in {"idxExtns", "done"}
<1> DEFINE L == Len(cap_idx)
           e == cap_hello.exts
           E(m) == Cap!ExtStart(cap_hello, m)
<1>1. /\ cap_pc = "idxExtns" /\ UNCHANGED <<cap_capture, cap_count, cap_hello, cap_rows>>
      /\ \/ /\ cap_y = cap_count /\ cap_pc' = "done"
            /\ cap_idx' = Cap!DropLast(cap_idx, 1) /\ UNCHANGED cap_y
         \/ /\ cap_pc' = "idxExtns" /\ cap_idx' = Append(cap_idx, cap_y')
            /\ \E n \in Cap!ExtLengths(cap_y) : cap_y' = cap_y + 4 + n
  BY DEF Cap!IdxExtns
<1>2. CapTypes /\ AtLast /\ Found /\ cap_count = Cap!HelloEnd(cap_hello) + cap_hello.extra
  BY <1>1 DEF CapInv
<1>3. /\ cap_idx \in Seq(Nat) /\ L \in Nat /\ L >= 1 /\ cap_y = cap_idx[L] /\ cap_y \in Nat
      /\ \A n \in 1 .. L - 1 : cap_idx[n + 1] > cap_idx[n]
      /\ cap_hello \in Cap!HelloType /\ cap_count \in Nat
  BY <1>2, LenProperties DEF CapTypes, AtLast
<1>4. Len(e) \in Nat /\ \A m \in 1 .. Len(e) + 1 : E(m) \in Nat
  <2>1. e \in Seq(Nat)
    BY <1>3 DEF Cap!HelloType
  <2> QED
    BY <1>3, <2>1, LenProperties, ExtPlaces
<1>5. CASE cap_y = cap_count /\ cap_pc' = "done" /\ cap_idx' = Cap!DropLast(cap_idx, 1) /\ cap_y' = cap_y
  <2>1. /\ cap_idx' \in Seq(Nat) /\ Len(cap_idx') = L - 1
        /\ \A n \in 1 .. L - 1 : cap_idx'[n] = cap_idx[n]
        /\ \A n \in 1 .. Len(cap_idx') - 1 : cap_idx'[n + 1] > cap_idx'[n]
    <3>1. 1 \in Nat
      OBVIOUS
    <3> QED
      BY <1>3, <1>5, <3>1, Shorter
  <2>2. CapTypes'
    BY <1>1, <1>2, <1>5, <2>1 DEF CapTypes
  <2>3. Found'
    <3>1. \A n \in 1 .. Len(cap_idx') : n \in 1 .. L /\ cap_idx'[n] = cap_idx[n]
      BY <1>3, <2>1
    <3> QED
      BY <1>1, <1>2, <3>1 DEF Found
  <2>4. ASSUME ~ cap_hello.bare PROVE Len(e) <= Len(cap_idx')
    <3>1. SUFFICES ASSUME L <= Len(e) PROVE FALSE
      BY <1>3, <1>4, <2>1
    <3>2. L \in 1 .. L /\ L \in 1 .. Len(e) + 1 /\ Len(e) + 1 \in 1 .. Len(e) + 1 /\ L < Len(e) + 1
          /\ L <= Len(e) + 1
      BY <1>3, <1>4, <3>1
    <3>3. cap_idx[L] = E(L)
      BY <1>2, <2>4, <3>2 DEF Found
    <3>4. E(L) < E(Len(e) + 1) /\ E(L) \in Nat /\ E(Len(e) + 1) \in Nat
      BY <1>3, <1>4, <3>2, ExtPlaces
    <3>5. Cap!HelloEnd(cap_hello) = E(Len(e) + 1) /\ cap_hello.extra \in Nat
      BY <1>3, <2>4, HelloEnds
    <3> DEFINE x == cap_hello.extra
    <3>6. E(L) = E(Len(e) + 1) + x /\ x \in Nat
      BY <1>2, <1>3, <1>5, <3>3, <3>5
    <3> HIDE DEF x, E, e, L
    <3> QED
      BY <3>4, <3>6
  <2> QED
    BY <1>5, <2>2, <2>3, <2>4
<1>6. CASE /\ cap_pc' = "idxExtns" /\ cap_idx' = Append(cap_idx, cap_y')
           /\ \E n \in Cap!ExtLengths(cap_y) : cap_y' = cap_y + 4 + n
  <2>1. PICK n \in Cap!ExtLengths(cap_y) : cap_y' = cap_y + 4 + n
    BY <1>6
  <2>2. n \in Nat
    BY <1>2, ExtensionRead
  <2>3. cap_y' \in Nat /\ cap_y' > cap_y
    BY <1>3, <2>1, <2>2
  <2>4. /\ cap_idx' \in Seq(Nat) /\ Len(cap_idx') = L + 1
        /\ \A m \in 1 .. L : cap_idx'[m] = cap_idx[m]
        /\ cap_idx'[L + 1] = cap_y'
        /\ \A m \in 1 .. L : cap_idx'[m + 1] > cap_idx'[m]
    BY <1>3, <1>6, <2>3, Longer
  <2>5. CapTypes'
    <3>1. \A m \in 1 .. Len(cap_idx') - 1 : cap_idx'[m + 1] > cap_idx'[m]
      BY <1>3, <2>4
    <3> QED
      BY <1>1, <1>2, <2>3, <2>4, <3>1 DEF CapTypes
  <2>6. AtLast'
    BY <1>3, <2>4 DEF AtLast
  <2>7. ASSUME ~ cap_hello.bare, L + 1 <= Len(e) + 1 PROVE cap_idx'[L + 1] = E(L + 1)
    <3>1. L \in 1 .. Len(e) /\ L \in 1 .. L /\ L <= Len(e) + 1
      BY <1>3, <1>4, <2>7
    <3>2. cap_y = E(L)
      BY <1>2, <1>3, <2>7, <3>1 DEF Found
    <3>3. n = e[L]
      <4>1. Cap!ExtLengths(cap_y) = {e[L]}
        BY <1>2, <3>1, <3>2, ExtensionRead
      <4> QED
        BY <4>1
    <3>4. E(L + 1) = E(L) + 4 + e[L]
      BY <1>3, <3>1, ExtPlaces
    <3> QED
      BY <2>1, <2>4, <3>2, <3>3, <3>4
  <2>8. Found'
    <3>1. ASSUME ~ cap_hello.bare, NEW m \in 1 .. L + 1, m <= Len(e) + 1
          PROVE cap_idx'[m] = E(m)
      <4>1. CASE m = L + 1
        BY <2>7, <3>1, <4>1
      <4>2. CASE m # L + 1
        <5>1. m \in 1 .. L
          BY <1>3, <4>2
        <5> QED
          BY <1>2, <2>4, <3>1, <5>1 DEF Found
      <4> QED
        BY <4>1, <4>2
    <3> QED
      BY <1>1, <2>4, <3>1 DEF Found
  <2> QED
    BY <1>6, <2>5, <2>6, <2>8
<1> QED
  BY <1>1, <1>5, <1>6

LEMMA CapStep == ASSUME CapInv, Cap!Next PROVE CapInv'
<1>0. CapTypes
  BY DEF CapInv
<1>1. CASE Cap!SplitCap
  <2>1. /\ cap_pc = "splitcap" /\ cap_pc' = "idxcap" /\ cap_y' = 0 /\ cap_idx' = <<0>>
        /\ UNCHANGED <<cap_capture, cap_count, cap_hello, cap_rows>>
    BY <1>1 DEF Cap!SplitCap
  <2>2. cap_idx' \in Seq(Nat) /\ Len(cap_idx') = 1 /\ cap_idx'[1] = 0
    BY <2>1
  <2>3. CapTypes'
    BY <1>0, <2>1, <2>2 DEF CapTypes
  <2>4. /\ Cap!Start(cap_capture, 1) = 0 /\ Len(cap_capture) \in Nat /\ cap_count \in Nat
    BY <1>0, PacketPlaces, LenProperties DEF CapTypes
  <2>5. AtLast' /\ Scan'
    <3>1. cap_count <= Cap!Total(cap_capture)
      BY <2>1 DEF CapInv
    <3>2. 1 - 1 = 0 /\ 1 .. 0 = {} /\ ~ (0 > cap_count) /\ 1 <= Len(cap_capture) + 1 /\ 0 <= Len(cap_capture) + 1
      BY <2>4
    <3> QED
      BY <2>1, <2>2, <2>4, <3>1, <3>2 DEF AtLast, Scan
  <2> QED
    BY <2>1, <2>3, <2>5 DEF CapInv, Cap!OfCapture
<1>2. CASE Cap!IdxCap
  <2>1. /\ cap_pc = "idxcap" /\ UNCHANGED <<cap_capture, cap_count, cap_hello, cap_rows>>
        /\ IF cap_y > cap_count THEN cap_pc' = "cut" /\ cap_y' = cap_y ELSE cap_pc' = "idxcap"
    BY <1>2 DEF Cap!IdxCap
  <2>2. /\ cap_idx' \in Seq(Nat) /\ cap_y' \in Nat
        /\ \A n \in 1 .. Len(cap_idx') - 1 : cap_idx'[n + 1] > cap_idx'[n]
        /\ AtLast' /\ Scan'
    BY <1>2, ScanStep
  <2>3. CapTypes'
    BY <1>0, <2>1, <2>2 DEF CapTypes
  <2> QED
    BY <2>1, <2>2, <2>3 DEF CapInv, Cap!OfCapture
<1>3. CASE Cap!ReadCap
  <2>1. /\ cap_pc = "cut" /\ cap_pc' = "done"
        /\ UNCHANGED <<cap_capture, cap_count, cap_hello, cap_y>>
    BY <1>3 DEF Cap!ReadCap
  <2>2. CapTypes' /\ Split'
    BY <1>3, ReadStep
  <2> QED
    BY <2>1, <2>2 DEF CapInv, Cap!OfCapture
<1>4. CASE Cap!MsgParse
  <2>1. /\ cap_pc = "msgParse" /\ cap_pc' \in {"signalled", "hello"}
        /\ cap_pc' = "hello" => cap_hello.type # "other"
        /\ UNCHANGED <<cap_capture, cap_count, cap_hello, cap_y, cap_idx, cap_rows>>
    BY <1>4 DEF Cap!MsgParse
  <2>2. CapTypes'
    BY <1>0, <2>1 DEF CapTypes
  <2>3. cap_pc' = "hello" => ~ Cap!OfCapture
    <3>1. Cap!NoHello.type = "other"
      BY DEF Cap!NoHello
    <3> QED
      BY <2>1, <3>1 DEF Cap!OfCapture
  <2> QED
    BY <2>1, <2>2, <2>3 DEF CapInv, Cap!OfCapture
<1>5. CASE Cap!ParseHello
  <2>1. /\ cap_pc = "hello" /\ cap_pc' = "idxExtns" /\ cap_y' = Cap!Offset(cap_hello)
        /\ cap_idx' = <<cap_y'>> /\ UNCHANGED <<cap_capture, cap_count, cap_hello, cap_rows>>
    BY <1>5 DEF Cap!ParseHello
  <2>2. cap_y' \in Nat /\ cap_y' = Cap!ExtStart(cap_hello, 1)
    BY <1>0, <2>1, ExtPlaces DEF CapTypes
  <2>3. cap_idx' \in Seq(Nat) /\ Len(cap_idx') = 1 /\ cap_idx'[1] = cap_y'
    BY <2>1, <2>2
  <2>4. CapTypes'
    BY <1>0, <2>1, <2>2, <2>3 DEF CapTypes
  <2>5. AtLast'
    BY <2>3 DEF AtLast
  <2>6. Found'
    <3>1. \A n \in 1 .. 1 : n = 1
      OBVIOUS
    <3> QED
      BY <2>1, <2>2, <2>3, <3>1, Zenon DEF Found
  <2> QED
    BY <2>1, <2>4, <2>5, <2>6 DEF CapInv, Cap!OfCapture
<1>6. CASE Cap!IdxExtns
  <2>1. /\ cap_pc = "idxExtns" /\ UNCHANGED <<cap_capture, cap_count, cap_hello, cap_rows>>
    BY <1>6 DEF Cap!IdxExtns
  <2>2. /\ CapTypes' /\ Found'
        /\ cap_pc' = "idxExtns" => AtLast'
        /\ cap_pc' = "done" => (~ cap_hello.bare => Len(cap_hello.exts) <= Len(cap_idx'))
        /\ cap_pc' \in {"idxExtns", "done"}
    BY <1>6, WalkStep
  <2> QED
    BY <2>1, <2>2 DEF CapInv, Cap!OfCapture
<1> QED
  BY <1>1, <1>2, <1>3, <1>4, <1>5, <1>6 DEF Cap!Next

LEMMA CapStutter == ASSUME CapInv, UNCHANGED cap_vars PROVE CapInv'
<1>1. UNCHANGED <<cap_pc, cap_capture, cap_count, cap_hello, cap_y, cap_idx, cap_rows>>
  BY DEF cap_vars
<1> QED
  BY <1>1 DEF CapInv, CapTypes, AtLast, Scan, Split, Found, Cap!OfCapture, Cap!Whole

LEMMA CapSafe ==
  ASSUME CapInv
  PROVE  Cap!TypeOK /\ Cap!CutsAtWholePackets /\ Cap!RowsHoldTheirData /\ Cap!ExtensionsFirst
<1>0. /\ CapTypes /\ cap_idx \in Seq(Nat) /\ DOMAIN cap_idx = 1 .. Len(cap_idx)
      /\ Len(cap_idx) \in Nat
  BY LenProperties DEF CapInv, CapTypes
<1>1. Cap!TypeOK
  <2>1. ASSUME NEW n \in DOMAIN cap_idx
        PROVE  cap_idx[n] \in Nat /\ (n > 1 => cap_idx[n] > cap_idx[n - 1])
    <3>1. cap_idx[n] \in Nat /\ n \in 1 .. Len(cap_idx)
      BY <1>0, ElementOfSeq
    <3>2. n > 1 => n - 1 \in 1 .. Len(cap_idx) - 1 /\ n - 1 + 1 = n
      BY <1>0, <3>1
    <3>3. \A m \in 1 .. Len(cap_idx) - 1 : cap_idx[m + 1] > cap_idx[m]
      BY <1>0 DEF CapTypes
    <3>4. ASSUME n > 1 PROVE cap_idx[n] > cap_idx[n - 1]
      <4>1. PICK m \in 1 .. Len(cap_idx) - 1 : m = n - 1 /\ m + 1 = n
        BY <3>2, <3>4
      <4> QED
        BY <3>3, <4>1
    <3> QED
      BY <3>1, <3>4
  <2> QED
    BY <1>0, <2>1 DEF CapInv, CapTypes, Cap!TypeOK
<1>2. Cap!CutsAtWholePackets /\ Cap!RowsHoldTheirData
  BY DEF CapInv, Split, Cap!CutsAtWholePackets, Cap!RowsHoldTheirData
<1>3. Cap!ExtensionsFirst
  <2> SUFFICES ASSUME cap_pc \in {"idxExtns", "done"}, ~ Cap!OfCapture, ~ cap_hello.bare
               PROVE  /\ \A n \in DOMAIN cap_idx :
                           n <= Len(cap_hello.exts) + 1 => cap_idx[n] = Cap!ExtStart(cap_hello, n)
                      /\ cap_pc = "done" => DOMAIN cap_hello.exts \subseteq DOMAIN cap_idx
    BY DEF Cap!ExtensionsFirst
  <2>1. Found
    BY DEF CapInv
  <2>2. ASSUME cap_pc = "done" PROVE DOMAIN cap_hello.exts \subseteq DOMAIN cap_idx
    <3>1. Len(cap_hello.exts) <= Len(cap_idx)
      BY <2>2 DEF CapInv
    <3>2. cap_hello.exts \in Seq(Nat)
      BY <1>0 DEF CapTypes, Cap!HelloType
    <3>3. DOMAIN cap_hello.exts = 1 .. Len(cap_hello.exts) /\ Len(cap_hello.exts) \in Nat
      BY <3>2, LenProperties
    <3> QED
      BY <1>0, <3>1, <3>3
  <2> QED
    BY <1>0, <2>1, <2>2 DEF Found
<1> QED
  BY <1>1, <1>2, <1>3

-----------------------------------------------------------------------------
(***************************************************************************)
(* The measuring libraries of the blog, with the kernels that they         *)
(* measure: those of BitwiseOrProofs.                                      *)
(***************************************************************************)
BP == INSTANCE BitwiseOrProofs WITH pc <- blog_pc,
  kernel <- blog_kernel, typ <- blog_typ, passed <- blog_passed, n <- blog_n,
  addr <- blog_addr, rdx <- blog_rdx, rbx <- blog_rbx, stack <- blog_stack,
  dst <- blog_dst, touched <- blog_touched, calls <- blog_calls

-----------------------------------------------------------------------------
\* The kernel of the measuring library is the kernel of BitwiseOrProofs.
LEMMA KernelConstants ==
  BP!KernelAssumption /\ BP!LensAssumption /\ BP!UnsetAssumption /\ BP!AddrsAssumption
  BY RoutinesAssumption, Zenon
     DEF Blog!K!KernelAssumption, BP!KernelAssumption, Blog!K!LensAssumption, BP!LensAssumption,
         Blog!K!UnsetAssumption, BP!UnsetAssumption, Blog!K!AddrsAssumption, BP!AddrsAssumption

LEMMA SameKernel ==
  /\ Blog!K!Next => BP!Next
  /\ Blog!K!Lead = BP!Lead
  /\ BP!TypeOK => Blog!K!TypeOK
  /\ Blog!K!SavedArgs = BP!SavedArgs /\ \A k : Blog!K!Padded(k) = BP!Padded(k)
<1> USE DEF Blog!K!Goto, BP!Goto, Blog!K!args, BP!args, Blog!K!Remaining, BP!Remaining,
            Blog!K!SavedArgs, BP!SavedArgs
<1>0. /\ Blog!K!AtLine = BP!AtLine /\ Blog!K!LineBlock = BP!LineBlock
      /\ \A base, w : Blog!K!Block(base, w) = BP!Block(base, w)
      /\ \A w : Blog!K!Load(w) = BP!Load(w)
      /\ \A w, cell : Blog!K!Store(w, cell) = BP!Store(w, cell)
      /\ \A name : Blog!K!Call(name) = BP!Call(name)
  BY Zenon DEF Blog!K!AtLine, BP!AtLine, Blog!K!LineBlock, BP!LineBlock, Blog!K!Block, BP!Block,
     Blog!K!Load, BP!Load, Blog!K!Larger, BP!Larger, Blog!K!Store, BP!Store, Blog!K!Call, BP!Call
<1>1. Blog!K!Entry => BP!Entry
  BY <1>0, Zenon DEF Blog!K!Entry, BP!Entry
<1>2. Blog!K!HandleBadType => BP!HandleBadType
  BY Zenon DEF Blog!K!HandleBadType, BP!HandleBadType
<1>3. Blog!K!CreateResultObject => BP!CreateResultObject
  BY Zenon DEF Blog!K!CreateResultObject, BP!CreateResultObject
<1>4. Blog!K!SuccessExit => BP!SuccessExit
  BY Zenon DEF Blog!K!SuccessExit, BP!SuccessExit
<1>5. Blog!K!ProcessOneXmm => BP!ProcessOneXmm
  BY <1>0, Zenon DEF Blog!K!ProcessOneXmm, BP!ProcessOneXmm
<1>6. Blog!K!ProcessCacheLinePre => BP!ProcessCacheLinePre
  BY <1>0, Zenon DEF Blog!K!ProcessCacheLinePre, BP!ProcessCacheLinePre
<1>7. Blog!K!ProcessCacheLine => BP!ProcessCacheLine
  BY <1>0, Zenon DEF Blog!K!ProcessCacheLine, BP!ProcessCacheLine
<1>8. Blog!K!CacheLineEnd => BP!CacheLineEnd
  BY <1>0, Zenon DEF Blog!K!CacheLineEnd, BP!CacheLineEnd
<1>9. Blog!K!SubXmmRemaining => BP!SubXmmRemaining
  BY <1>0, Zenon DEF Blog!K!SubXmmRemaining, BP!SubXmmRemaining
<1>10. \A w, from, to : Blog!K!Part(w, from, to) => BP!Part(w, from, to)
  BY <1>0, Zenon DEF Blog!K!Part, BP!Part
<1>11. (Blog!K!LtSixteen => BP!LtSixteen) /\ (Blog!K!LtEight => BP!LtEight) /\ (Blog!K!LtFour => BP!LtFour)
  BY <1>10, Zenon DEF Blog!K!LtSixteen, BP!LtSixteen, Blog!K!LtEight, BP!LtEight, Blog!K!LtFour, BP!LtFour
<1>12. Blog!K!LtTwo => BP!LtTwo
  BY <1>0, Zenon DEF Blog!K!LtTwo, BP!LtTwo
<1>13. Blog!K!Next => BP!Next
  BY <1>1, <1>2, <1>3, <1>4, <1>5, <1>6, <1>7, <1>8, <1>9, <1>11, <1>12
     DEF Blog!K!Next, BP!Next
<1>14. \A k : Blog!K!Padded(k) = BP!Padded(k)
  BY Zenon DEF Blog!K!Padded, BP!Padded
<1>15. BP!TypeOK => Blog!K!TypeOK
  BY <1>14, Zenon DEF Blog!K!TypeOK, BP!TypeOK
<1> QED
  BY <1>13, <1>14, <1>15, Zenon DEF Blog!K!Lead, BP!Lead

\* What holds of a kernel that starts holds of it in the next state, too.
LEMMA KernelStarts == BP!Init' => BP!IInv'
<1>1. BP!Init => BP!IInv
  BY KernelConstants, BP!InitIInv
<1> QED
  BY <1>1, PTL

-----------------------------------------------------------------------------
(***************************************************************************)
(* The two counters, and what the driver's commands do to them.            *)
(***************************************************************************)
MsrType == [on : BOOLEAN, val : [Blog!Counter -> Nat], read : [Blog!Counter -> Nat]]

\* What w events add to counter c, if they are counted.
Adds(on_, c, w) == IF on_ THEN Blog!Rate[c] * w ELSE 0

LEMMA Rates ==
  /\ \A c \in Blog!Counter : Blog!Rate[c] \in Nat
  /\ \A c \in Blog!Counter, w \in Nat, b \in BOOLEAN : Adds(b, c, w) \in Nat
<1>1. \A c \in Blog!Counter : Blog!Rate[c] \in {1, 2}
  BY DEF Blog!Counter, Blog!Rate
<1>2. \A w \in Nat : 1 * w \in Nat /\ 2 * w \in Nat
  OBVIOUS
<1> QED
  BY <1>1, <1>2 DEF Adds

LEMMA OverheadNat == Overhead \in Nat /\ TestCounts \subseteq Nat /\ Work \subseteq Nat
  BY RoutinesAssumption DEF Blog!MeasureAssumption

\* Two records of counters are equal if their fields are.
LEMMA CountingIs ==
  ASSUME NEW m \in MsrType, NEW w \in Nat
  PROVE  LET d == Blog!Counting(m, w)
         IN  /\ d \in MsrType /\ d.on = m.on /\ d.read = m.read
             /\ \A c \in Blog!Counter : d.val[c] = m.val[c] + Adds(m.on, c, w)
<1> DEFINE d == Blog!Counting(m, w)
           v == [c \in Blog!Counter |-> m.val[c] + Adds(m.on, c, w)]
<1>1. m.on \in BOOLEAN /\ m.val \in [Blog!Counter -> Nat] /\ m.read \in [Blog!Counter -> Nat]
  BY DEF MsrType
<1>2. v \in [Blog!Counter -> Nat]
  <2>1. \A c \in Blog!Counter : m.val[c] \in Nat /\ Adds(m.on, c, w) \in Nat
    BY <1>1, Rates
  <2>2. \A c \in Blog!Counter : m.val[c] + Adds(m.on, c, w) \in Nat
    BY <2>1
  <2> QED
    BY <2>2
<1>3. d = [m EXCEPT !.val = v]
  BY Zenon DEF Blog!Counting, Adds
<1> HIDE DEF d, v
<1>4. d.on = m.on /\ d.read = m.read /\ d.val = v /\ d \in MsrType
  BY <1>2, <1>3 DEF MsrType
<1> QED
  BY <1>4 DEF d, v

\* One command of the driver.
LEMMA Commands ==
  ASSUME NEW m \in MsrType
  PROVE  /\ Blog!Executed(m, Blog!msr_wr_stop) = m
         /\ \A v \in Nat :
              LET e == Blog!Executed(m, Blog!msr_wr(Blog!GlobalCtrl, v))
              IN  /\ e \in MsrType /\ (e.on <=> v # 0) /\ e.read = m.read
                  /\ \A c \in Blog!Counter : e.val[c] = m.val[c] + Adds(m.on, c, Overhead)
         /\ \A k \in Blog!Counter :
              LET e == Blog!Executed(m, Blog!msr_wr(k, 0))
              IN  /\ e \in MsrType /\ e.on = m.on /\ e.read = m.read /\ e.val[k] = 0
                  /\ \A c \in Blog!Counter \ {k} : e.val[c] = m.val[c] + Adds(m.on, c, Overhead)
         /\ \A k \in Blog!Counter :
              LET e == Blog!Executed(m, Blog!msr_rd(k))
              IN  /\ e \in MsrType /\ e.on = m.on
                  /\ \A c \in Blog!Counter : e.val[c] = m.val[c] + Adds(m.on, c, Overhead)
                  /\ e.read[k] = e.val[k]
                  /\ \A c \in Blog!Counter \ {k} : e.read[c] = m.read[c]
<1> DEFINE d == Blog!Counting(m, Overhead)
<1>1. /\ d \in MsrType /\ d.on = m.on /\ d.read = m.read
      /\ \A c \in Blog!Counter : d.val[c] = m.val[c] + Adds(m.on, c, Overhead)
  BY OverheadNat, CountingIs
<1>2. /\ d.on \in BOOLEAN /\ d.val \in [Blog!Counter -> Nat] /\ d.read \in [Blog!Counter -> Nat]
      /\ d = [on |-> d.on, val |-> d.val, read |-> d.read]
  BY <1>1 DEF MsrType
<1> HIDE DEF d
<1>3. Blog!Executed(m, Blog!msr_wr_stop) = m
  BY DEF Blog!Executed, Blog!msr_wr_stop
<1>4. ASSUME NEW v \in Nat
      PROVE  LET e == Blog!Executed(m, Blog!msr_wr(Blog!GlobalCtrl, v))
             IN  /\ e \in MsrType /\ (e.on <=> v # 0) /\ e.read = m.read
                 /\ \A c \in Blog!Counter : e.val[c] = m.val[c] + Adds(m.on, c, Overhead)
  <2> DEFINE e == Blog!Executed(m, Blog!msr_wr(Blog!GlobalCtrl, v))
  <2>1. e = [d EXCEPT !.on = (v # 0)]
    <3> DEFINE r == Blog!msr_wr(Blog!GlobalCtrl, v)
    <3>1. /\ r.op = "WRITE" /\ r.ecx = Blog!GlobalCtrl /\ r.value = v
          /\ r.op # "STOP" /\ r.op # "READ" /\ r.ecx \notin Blog!Counter
      BY DEF Blog!msr_wr, Blog!GlobalCtrl, Blog!Counter
    <3> HIDE DEF r
    <3>2. Blog!Executed(m, r) = [d EXCEPT !.on = (r.value # 0)]
      BY <3>1, Zenon DEF Blog!Executed, d
    <3> QED
      BY <3>1, <3>2, Zenon DEF r
  <2> HIDE DEF e
  <2>2. e \in MsrType /\ (e.on <=> v # 0) /\ e.read = d.read /\ e.val = d.val
    BY <1>2, <2>1 DEF MsrType
  <2> QED
    BY <1>1, <2>2 DEF e
<1>5. ASSUME NEW k \in Blog!Counter
      PROVE  LET e == Blog!Executed(m, Blog!msr_wr(k, 0))
             IN  /\ e \in MsrType /\ e.on = m.on /\ e.read = m.read /\ e.val[k] = 0
                 /\ \A c \in Blog!Counter \ {k} : e.val[c] = m.val[c] + Adds(m.on, c, Overhead)
  <2> DEFINE e == Blog!Executed(m, Blog!msr_wr(k, 0))
  <2>1. e = [d EXCEPT !.val[k] = 0]
    BY DEF Blog!Executed, Blog!msr_wr, Blog!GlobalCtrl, Blog!Counter, d
  <2> HIDE DEF e
  <2>2. /\ e \in MsrType /\ e.on = d.on /\ e.read = d.read /\ e.val[k] = 0
        /\ \A c \in Blog!Counter \ {k} : e.val[c] = d.val[c]
    BY <1>2, <2>1 DEF MsrType
  <2> QED
    BY <1>1, <2>2 DEF e
<1>6. ASSUME NEW k \in Blog!Counter
      PROVE  LET e == Blog!Executed(m, Blog!msr_rd(k))
             IN  /\ e \in MsrType /\ e.on = m.on
                 /\ \A c \in Blog!Counter : e.val[c] = m.val[c] + Adds(m.on, c, Overhead)
                 /\ e.read[k] = e.val[k]
                 /\ \A c \in Blog!Counter \ {k} : e.read[c] = m.read[c]
  <2> DEFINE e == Blog!Executed(m, Blog!msr_rd(k))
  <2>1. e = [d EXCEPT !.read[k] = d.val[k]]
    BY DEF Blog!Executed, Blog!msr_rd, d
  <2> HIDE DEF e
  <2>2. /\ e \in MsrType /\ e.on = d.on /\ e.val = d.val /\ e.read[k] = d.val[k]
        /\ \A c \in Blog!Counter \ {k} : e.read[c] = d.read[c]
    BY <1>2, <2>1 DEF MsrType
  <2> QED
    BY <1>1, <2>2 DEF e
<1> QED
  BY <1>3, <1>4, <1>5, <1>6, Zenon

\* The states between the commands of a script.
Chain(f, m, s, L) ==
  f = [k \in 0 .. L |-> IF k = 0 THEN m ELSE Blog!Executed(f[k - 1], s[k])]

LEMMA ChainExists ==
  ASSUME NEW L \in Nat, NEW m, NEW s PROVE \E f : Chain(f, m, s, L)
<1> DEFINE Bad == {q \in Nat : q <= L /\ ~ \E f : Chain(f, m, s, q)}
<1>1. SUFFICES ASSUME Bad # {} PROVE FALSE
  <2>1. L \notin Bad
    BY <1>1
  <2> QED
    BY <2>1
<1>2. PICK q \in Bad : \A p \in Bad : q <= p
  <2>1. Bad \in SUBSET Nat
    OBVIOUS
  <2> HIDE DEF Bad
  <2> QED
    BY <1>1, <2>1, Least
<1>3. q \in Nat /\ q <= L /\ ~ \E f : Chain(f, m, s, q)
  OBVIOUS
<1>4. q # 0
  <2>1. Chain([k \in 0 .. 0 |-> m], m, s, 0)
    <3>1. \A k \in 0 .. 0 : k = 0
      OBVIOUS
    <3> QED
      BY <3>1 DEF Chain
  <2> QED
    BY <1>3, <2>1
<1>5. q - 1 \in Nat /\ q - 1 <= L /\ ~ (q <= q - 1)
  BY <1>3, <1>4
<1>6. PICK f : Chain(f, m, s, q - 1)
  <2>1. q - 1 \notin Bad
    BY <1>2, <1>5
  <2> QED
    BY <1>5, <2>1
<1> HIDE DEF Bad
<1> DEFINE g == [k \in 0 .. q |-> IF k < q THEN f[k] ELSE Blog!Executed(f[q - 1], s[q])]
<1>7. Chain(g, m, s, q)
  <2>1. f = [k \in 0 .. q - 1 |-> IF k = 0 THEN m ELSE Blog!Executed(f[k - 1], s[k])]
    BY <1>6 DEF Chain
  <2>2. ASSUME NEW k \in 0 .. q
        PROVE  g[k] = IF k = 0 THEN m ELSE Blog!Executed(g[k - 1], s[k])
    <3>1. CASE k = 0
      <4>1. 0 \in 0 .. q - 1 /\ 0 \in 0 .. q /\ 0 < q
        BY <1>3, <1>4
      <4>2. f[0] = m
        BY <2>1, <4>1
      <4> QED
        BY <3>1, <4>1, <4>2
    <3>2. CASE k # 0 /\ k < q
      <4>1. k \in 0 .. q - 1 /\ k - 1 \in 0 .. q /\ k - 1 < q
        BY <1>3, <3>2
      <4>2. f[k] = Blog!Executed(f[k - 1], s[k])
        BY <2>1, <3>2, <4>1
      <4>3. g[k] = f[k] /\ g[k - 1] = f[k - 1]
        BY <3>2, <4>1
      <4> QED
        BY <3>2, <4>2, <4>3
    <3>3. CASE k = q
      <4>1. q # 0 /\ ~ (q < q) /\ q - 1 \in 0 .. q /\ q - 1 < q
        BY <1>3, <1>4
      <4>2. g[q] = Blog!Executed(f[q - 1], s[q]) /\ g[q - 1] = f[q - 1]
        BY <3>3, <4>1
      <4> QED
        BY <3>3, <4>1, <4>2
    <3> QED
      BY <1>3, <3>1, <3>2, <3>3
  <2> HIDE DEF g
  <2>3. g = [k \in 0 .. q |-> g[k]]
    BY DEF g
  <2> QED
    BY <2>2, <2>3 DEF Chain
<1> QED
  BY <1>3, <1>7

\* Scripts of two and of four commands.
LEMMA Scripts ==
  ASSUME NEW m, NEW s
  PROVE  /\ Len(s) = 2 => Blog!After(m, s) = Blog!Executed(Blog!Executed(m, s[1]), s[2])
         /\ Len(s) = 4 =>
              Blog!After(m, s) =
                Blog!Executed(Blog!Executed(Blog!Executed(Blog!Executed(m, s[1]), s[2]), s[3]), s[4])
<1>1. ASSUME NEW L \in Nat, Len(s) = L
      PROVE  \E f : Chain(f, m, s, L) /\ Blog!After(m, s) = f[L]
  <2> DEFINE f == CHOOSE g : Chain(g, m, s, L)
  <2>1. Chain(f, m, s, L)
    BY ChainExists, Zenon
  <2>2. Blog!After(m, s) = f[L]
    BY <1>1, Zenon DEF Blog!After, Chain
  <2> QED
    BY <2>1, <2>2, Zenon
<1>2. ASSUME Len(s) = 2
      PROVE  Blog!After(m, s) = Blog!Executed(Blog!Executed(m, s[1]), s[2])
  <2>1. PICK f : Chain(f, m, s, 2) /\ Blog!After(m, s) = f[2]
    BY <1>1, <1>2
  <2>2. \A k \in 0 .. 2 : f[k] = IF k = 0 THEN m ELSE Blog!Executed(f[k - 1], s[k])
    BY <2>1 DEF Chain
  <2>3. f[0] = m /\ f[1] = Blog!Executed(f[0], s[1]) /\ f[2] = Blog!Executed(f[1], s[2])
    BY <2>2
  <2> QED
    BY <2>1, <2>3
<1>3. ASSUME Len(s) = 4
      PROVE  Blog!After(m, s) =
               Blog!Executed(Blog!Executed(Blog!Executed(Blog!Executed(m, s[1]), s[2]), s[3]), s[4])
  <2>1. PICK f : Chain(f, m, s, 4) /\ Blog!After(m, s) = f[4]
    BY <1>1, <1>3
  <2>2. \A k \in 0 .. 4 : f[k] = IF k = 0 THEN m ELSE Blog!Executed(f[k - 1], s[k])
    BY <2>1 DEF Chain
  <2>3. /\ f[0] = m /\ f[1] = Blog!Executed(f[0], s[1]) /\ f[2] = Blog!Executed(f[1], s[2])
        /\ f[3] = Blog!Executed(f[2], s[3]) /\ f[4] = Blog!Executed(f[3], s[4])
    BY <2>2
  <2> QED
    BY <2>1, <2>3
<1> QED
  BY <1>2, <1>3

-----------------------------------------------------------------------------
(***************************************************************************)
(* The three calls of the driver: what of the counters they leave.         *)
(***************************************************************************)
LEMMA ResetCall ==
  ASSUME blog_msr \in MsrType, Blog!IoctlReset
  PROVE  /\ blog_msr' \in MsrType /\ ~ blog_msr'.on /\ blog_msr'.read = blog_msr.read
         /\ \A c \in Blog!Counter : blog_msr'.val[c] = 0
<1> DEFINE m0 == Blog!Counting(blog_msr, 0)
           m1 == Blog!Executed(m0, Blog!msr_wr(Blog!GlobalCtrl, 0))
           m2 == Blog!Executed(m1, Blog!msr_wr("pmc", 0))
           m3 == Blog!Executed(m2, Blog!msr_wr("ffc", 0))
           m4 == Blog!Executed(m3, Blog!msr_wr_stop)
<1>1. blog_msr' = m4
  <2> DEFINE s == Blog!record_reset
  <2>1. /\ Len(s) = 4 /\ s[1] = Blog!msr_wr(Blog!GlobalCtrl, 0) /\ s[2] = Blog!msr_wr("pmc", 0)
        /\ s[3] = Blog!msr_wr("ffc", 0) /\ s[4] = Blog!msr_wr_stop
    BY DEF Blog!record_reset
  <2>2. blog_msr' = Blog!After(m0, s)
    BY DEF Blog!IoctlReset, Blog!Ioctl
  <2> HIDE DEF s, m0
  <2> QED
    BY <2>1, <2>2, Scripts, Zenon
<1>2. m0 \in MsrType /\ m0.read = blog_msr.read
  BY CountingIs
<1> HIDE DEF m0
<1>3. m1 \in MsrType /\ ~ m1.on /\ m1.read = m0.read
  BY <1>2, Commands
<1> HIDE DEF m1
<1>4. m2 \in MsrType /\ ~ m2.on /\ m2.read = m1.read /\ m2.val["pmc"] = 0
  BY <1>3, Commands DEF Blog!Counter
<1> HIDE DEF m2
<1>5. m3 \in MsrType /\ ~ m3.on /\ m3.read = m2.read /\ m3.val["ffc"] = 0
      /\ m3.val["pmc"] = m2.val["pmc"] + Adds(m2.on, "pmc", Overhead)
  BY <1>4, Commands DEF Blog!Counter
<1>6. m3.val["pmc"] = 0
  BY <1>4, <1>5 DEF Adds
<1> HIDE DEF m3
<1>7. m4 = m3
  BY <1>5, Commands
<1> HIDE DEF m4
<1> QED
  BY <1>1, <1>2, <1>3, <1>4, <1>5, <1>6, <1>7 DEF Blog!Counter

LEMMA CfgCall ==
  ASSUME blog_msr \in MsrType, ~ blog_msr.on, Blog!IoctlCfg
  PROVE  /\ blog_msr' \in MsrType /\ blog_msr'.on /\ blog_msr'.read = blog_msr.read
         /\ \A c \in Blog!Counter : blog_msr'.val[c] = blog_msr.val[c]
<1> DEFINE m0 == Blog!Counting(blog_msr, 0)
           m1 == Blog!Executed(m0, Blog!msr_wr(Blog!GlobalCtrl, 1))
           m2 == Blog!Executed(m1, Blog!msr_wr_stop)
<1>1. blog_msr' = m2
  <2> DEFINE s == Blog!CfgScript
  <2>1. Len(s) = 2 /\ s[1] = Blog!msr_wr(Blog!GlobalCtrl, 1) /\ s[2] = Blog!msr_wr_stop
    BY DEF Blog!CfgScript
  <2>2. blog_msr' = Blog!After(m0, s)
    BY DEF Blog!IoctlCfg, Blog!Ioctl
  <2> HIDE DEF s, m0
  <2> QED
    BY <2>1, <2>2, Scripts, Zenon
<1>2. /\ m0 \in MsrType /\ ~ m0.on /\ m0.read = blog_msr.read
      /\ \A c \in Blog!Counter : m0.val[c] = blog_msr.val[c] + Adds(blog_msr.on, c, 0)
  BY CountingIs
<1> HIDE DEF m0
<1>3. /\ m1 \in MsrType /\ m1.on /\ m1.read = m0.read
      /\ \A c \in Blog!Counter : m1.val[c] = m0.val[c] + Adds(m0.on, c, Overhead)
  BY <1>2, Commands
<1> HIDE DEF m1
<1>4. m2 = m1
  BY <1>3, Commands
<1> HIDE DEF m2
<1>5. \A c \in Blog!Counter : m1.val[c] = blog_msr.val[c]
  <2> TAKE c \in Blog!Counter
  <2>1. blog_msr.val[c] \in Nat
    BY DEF MsrType
  <2>2. m1.val[c] = blog_msr.val[c] + 0 + 0
    BY <1>2, <1>3 DEF Adds
  <2> QED
    BY <2>1, <2>2
<1> QED
  BY <1>1, <1>2, <1>3, <1>4, <1>5

LEMMA ReadCall ==
  ASSUME blog_msr \in MsrType, NEW w \in Nat, Blog!IoctlRead(w)
  PROVE  /\ blog_msr' \in MsrType /\ ~ blog_msr'.on
         /\ \A c \in Blog!Counter :
              /\ blog_msr'.val[c] = blog_msr.val[c] + Adds(blog_msr.on, c, w)
                                      + Adds(blog_msr.on, c, Overhead)
              /\ blog_msr'.read[c] = blog_msr'.val[c]
<1> DEFINE m0 == Blog!Counting(blog_msr, w)
           m1 == Blog!Executed(m0, Blog!msr_wr(Blog!GlobalCtrl, 0))
           m2 == Blog!Executed(m1, Blog!msr_rd("pmc"))
           m3 == Blog!Executed(m2, Blog!msr_rd("ffc"))
           m4 == Blog!Executed(m3, Blog!msr_wr_stop)
<1>1. blog_msr' = m4
  <2> DEFINE s == Blog!record_read
  <2>1. /\ Len(s) = 4 /\ s[1] = Blog!msr_wr(Blog!GlobalCtrl, 0) /\ s[2] = Blog!msr_rd("pmc")
        /\ s[3] = Blog!msr_rd("ffc") /\ s[4] = Blog!msr_wr_stop
    BY DEF Blog!record_read
  <2>2. blog_msr' = Blog!After(m0, s)
    BY DEF Blog!IoctlRead, Blog!Ioctl
  <2> HIDE DEF s, m0
  <2> QED
    BY <2>1, <2>2, Scripts, Zenon
<1>2. /\ m0 \in MsrType /\ m0.on = blog_msr.on
      /\ \A c \in Blog!Counter : m0.val[c] = blog_msr.val[c] + Adds(blog_msr.on, c, w)
  BY CountingIs
<1> HIDE DEF m0
<1>3. /\ m1 \in MsrType /\ ~ m1.on
      /\ \A c \in Blog!Counter : m1.val[c] = m0.val[c] + Adds(m0.on, c, Overhead)
  BY <1>2, Commands
<1> HIDE DEF m1
<1>v. \A x \in MsrType : \A c \in Blog!Counter : x.val[c] \in Nat /\ Adds(FALSE, c, Overhead) = 0
  BY DEF MsrType, Adds
<1>4. /\ m2 \in MsrType /\ ~ m2.on /\ m2.read["pmc"] = m2.val["pmc"]
      /\ \A c \in Blog!Counter : m2.val[c] = m1.val[c]
  <2>1. /\ m2 \in MsrType /\ m2.on = m1.on /\ m2.read["pmc"] = m2.val["pmc"]
        /\ \A c \in Blog!Counter : m2.val[c] = m1.val[c] + Adds(m1.on, c, Overhead)
    BY <1>3, Commands DEF Blog!Counter
  <2>2. m1.on = FALSE
    BY <1>3 DEF MsrType
  <2> HIDE DEF m2
  <2>3. ASSUME NEW c \in Blog!Counter PROVE m2.val[c] = m1.val[c]
    <3>1. m2.val[c] = m1.val[c] + 0 /\ m1.val[c] \in Nat
      BY <1>3, <1>v, <2>1, <2>2
    <3> QED
      BY <3>1
  <2> QED
    BY <2>1, <2>2, <2>3
<1> HIDE DEF m2
<1>5. /\ m3 \in MsrType /\ ~ m3.on /\ m3.read["pmc"] = m3.val["pmc"] /\ m3.read["ffc"] = m3.val["ffc"]
      /\ \A c \in Blog!Counter : m3.val[c] = m2.val[c]
  <2>1. /\ m3 \in MsrType /\ m3.on = m2.on /\ m3.read["ffc"] = m3.val["ffc"]
        /\ m3.read["pmc"] = m2.read["pmc"]
        /\ \A c \in Blog!Counter : m3.val[c] = m2.val[c] + Adds(m2.on, c, Overhead)
    BY <1>4, Commands DEF Blog!Counter
  <2>2. m2.on = FALSE
    BY <1>4 DEF MsrType
  <2> HIDE DEF m3
  <2>3. ASSUME NEW c \in Blog!Counter PROVE m3.val[c] = m2.val[c]
    <3>1. m3.val[c] = m2.val[c] + 0 /\ m2.val[c] \in Nat
      BY <1>4, <1>v, <2>1, <2>2
    <3> QED
      BY <3>1
  <2> QED
    BY <1>4, <2>1, <2>2, <2>3 DEF Blog!Counter
<1> HIDE DEF m3
<1>6. m4 = m3
  BY <1>5, Commands
<1> HIDE DEF m4
<1>7. ASSUME NEW c \in Blog!Counter
      PROVE  m3.val[c] = blog_msr.val[c] + Adds(blog_msr.on, c, w) + Adds(blog_msr.on, c, Overhead)
  <2>1. m3.val[c] = m0.val[c] + Adds(m0.on, c, Overhead)
    BY <1>3, <1>4, <1>5
  <2> QED
    BY <1>2, <2>1
<1>8. \A c \in Blog!Counter : c = "pmc" \/ c = "ffc"
  BY DEF Blog!Counter
<1> QED
  BY <1>1, <1>5, <1>6, <1>7, <1>8

-----------------------------------------------------------------------------
(***************************************************************************)
(* The measuring libraries of the blog: the inductive invariant.  What a   *)
(* test is charged is kept as a multiple of its events (Events), so that   *)
(* the loops of the baseline and of the kernel add up.                     *)
(***************************************************************************)
Events(c, w) == Blog!Rate[c] * w
Cost(c) == Events(c, Overhead)

LEMMA EventFacts ==
  ASSUME NEW c \in Blog!Counter
  PROVE  /\ Cost(c) \in Nat /\ Events(c, 0) = 0
         /\ \A w \in Nat : Adds(TRUE, c, w) = Events(c, w) /\ Adds(FALSE, c, w) = 0
         /\ \A w \in Nat : Events(c, w) \in Nat
         /\ \A w \in Int : Events(c, w) \in Int
         /\ \A v, w \in Int : Events(c, v + w) = Events(c, v) + Events(c, w)
<1>1. Blog!Rate[c] = 1 \/ Blog!Rate[c] = 2
  BY DEF Blog!Counter, Blog!Rate
<1>2. Overhead \in Nat
  BY OverheadNat
<1>3. /\ Events(c, 0) = 0
      /\ \A w \in Nat : Events(c, w) \in Nat
      /\ \A w \in Int : Events(c, w) \in Int
      /\ \A v, w \in Int : Events(c, v + w) = Events(c, v) + Events(c, w)
  <2>1. CASE Blog!Rate[c] = 1
    BY <2>1 DEF Events
  <2>2. CASE Blog!Rate[c] = 2
    BY <2>2 DEF Events
  <2> QED
    BY <1>1, <2>1, <2>2
<1>4. \A w \in Nat : Adds(TRUE, c, w) = Events(c, w) /\ Adds(FALSE, c, w) = 0
  BY DEF Adds, Events
<1> QED
  BY <1>2, <1>3, <1>4 DEF Cost

LogType == [kernel : {"none", "avx", "sse", "line"}, work : Nat, lead : Nat, n : Nat]

LEMMA BetweenInt == ASSUME NEW g \in LogType PROVE Blog!Between(g) \in Int
<1>1. g.work \in Nat /\ g.lead \in Nat /\ g.n \in Nat
  BY DEF LogType
<1>2. 64 * ((g.n - g.lead) \div 64) \in Int
  BY <1>1
<1> DEFINE lines == 64 * ((g.n - g.lead) \div 64)
<1>3. lines \in Int
  BY <1>2
<1>4. Blog!Between(g) \in {g.work, lines, g.lead + lines}
  <2> HIDE DEF lines
  <2> QED
    BY DEF Blog!Between, lines
<1> HIDE DEF lines
<1> QED
  BY <1>1, <1>3, <1>4

BlogPlaces == {"idle", "checkName", "dlsym", "malloc", "open", "reset", "baseline",
  "baseStarted", "test", "execute", "timing", "kernel", "record", "closing", "dead"}
Working == {"reset", "baseline", "baseStarted", "test", "execute", "timing", "kernel",
  "record", "closing"}
Charged == {"test", "execute", "timing", "kernel", "record"}

BlogTypes ==
  /\ blog_at \in BlogPlaces
  /\ blog_version \in Versions /\ blog_count \in TestCounts /\ blog_i \in Nat
  /\ blog_fd \in BOOLEAN /\ blog_msr \in MsrType /\ blog_fixed \in [Blog!Counter -> Nat]
  /\ blog_rows \in Seq([Blog!Counter -> Int]) /\ blog_log \in Seq(LogType)
  /\ blog_handles \in Nat /\ blog_blocks \in Nat /\ blog_runs \in Nat
  /\ blog_answer \in {"none", "table", "error"}
  /\ blog_missed = <<blog_missed[1], blog_missed[2]>>
  /\ blog_missed[1] \in Nat /\ blog_missed[2] \in Nat

\* The device, the handle and the block of a call.
BlogHeld ==
  /\ blog_fd <=> blog_at \in Working
  /\ blog_handles =
       blog_missed[1] + (IF blog_at \in {"dlsym", "malloc", "open"} \cup Working THEN 1 ELSE 0)
  /\ blog_blocks = blog_missed[2] + (IF blog_at \in {"open"} \cup Working THEN 1 ELSE 0)

\* What counts when, and what it has counted of the baseline.
BlogCounters ==
  /\ blog_msr.on => blog_at \in {"baseStarted", "timing", "kernel"}
  /\ blog_at \in {"baseStarted", "timing"} => blog_msr.on
  /\ blog_at \in {"baseline", "baseStarted"} =>
       blog_i <= blog_count /\ \A c \in Blog!Counter : blog_msr.val[c] = blog_i * Cost(c)
  /\ blog_at = "baseline" /\ blog_i > 0 => \A c \in Blog!Counter : blog_msr.read[c] = blog_msr.val[c]
  /\ blog_at = "baseStarted" => blog_i < blog_count
  /\ blog_at \in Charged => \A c \in Blog!Counter : blog_fixed[c] = Cost(c)
  /\ blog_at \in {"execute", "timing"} => \A c \in Blog!Counter : blog_msr.val[c] = 0

BlogRows ==
  /\ Len(blog_log) = Len(blog_rows) + (IF blog_at = "record" THEN 1 ELSE 0)
  /\ \A t \in 1 .. Len(blog_rows) : \A c \in Blog!Counter :
       blog_rows[t][c] = Events(c, Blog!Between(blog_log[t]))
  /\ blog_at = "record" => \A c \in Blog!Counter :
       blog_msr.read[c] = Events(c, Blog!Between(blog_log[Len(blog_log)])) + Cost(c)

\* A kernel that runs: what it has done before its first callback, and what
\* will be recorded of it.
Skipped == IF blog_kernel = "line" THEN BP!Lead ELSE 0
Measured == [kernel |-> blog_kernel, work |-> 0, lead |-> BP!Lead, n |-> blog_n]

KernelInv ==
  /\ BP!IInv /\ BP!AtLines
  /\ blog_kernel \in {"avx", "sse", "line"}
  /\ blog_calls = << >> => ~ blog_msr.on /\ \A c \in Blog!Counter : blog_msr.val[c] = 0
  /\ blog_calls = <<"start">> =>
       /\ blog_msr.on /\ Skipped <= blog_rdx
       /\ \A c \in Blog!Counter : blog_msr.val[c] = Events(c, blog_rdx - Skipped)
  /\ blog_calls = <<"start", "stop">> =>
       /\ ~ blog_msr.on
       /\ \A c \in Blog!Counter : blog_msr.read[c] = Events(c, Blog!Between(Measured)) + Cost(c)

BlogInv ==
  /\ BlogTypes /\ BlogHeld /\ BlogCounters /\ BlogRows
  /\ blog_at = "kernel" => KernelInv
  /\ blog_at # "kernel" => Blog!Parked

BlogSteady == UNCHANGED <<blog_rows, blog_log>> /\ blog_at # "record" /\ blog_at' # "record"

\* What a step outside the kernel has to show.
LEMMA RowsStay ==
  ASSUME BlogRows, BlogSteady PROVE BlogRows'
  BY DEF BlogRows, BlogSteady

LEMMA StaysParked ==
  ASSUME BlogInv, blog_at # "kernel", blog_at' # "kernel", UNCHANGED Blog!kvars
  PROVE  (blog_at' = "kernel" => KernelInv') /\ (blog_at' # "kernel" => Blog!Parked')
  BY DEF BlogInv, Blog!kvars, Blog!Parked

LEMMA ZeroRead ==
  ASSUME blog_msr \in MsrType, blog_msr' = [blog_msr EXCEPT !.read = Blog!Zero]
  PROVE  /\ blog_msr' \in MsrType /\ blog_msr'.on = blog_msr.on /\ blog_msr'.val = blog_msr.val
         /\ Blog!Zero \in [Blog!Counter -> Nat]
  BY DEF MsrType, Blog!Zero

LEMMA BlogInit == ASSUME Blog!Init PROVE BlogInv
<1> USE DEF Blog!Init
<1>1. blog_msr \in MsrType /\ blog_fixed \in [Blog!Counter -> Nat] /\ ~ blog_msr.on
  BY DEF MsrType, Blog!Zero
<1>2. blog_rows = << >> /\ blog_log = << >> /\ blog_at = "idle"
  OBVIOUS
<1>3. BlogTypes
  <2>1. /\ blog_missed = <<0, 0>> /\ blog_missed[1] = 0 /\ blog_missed[2] = 0
        /\ blog_missed = <<blog_missed[1], blog_missed[2]>>
    OBVIOUS
  <2>2. blog_rows \in Seq([Blog!Counter -> Int]) /\ blog_log \in Seq(LogType)
    BY <1>2
  <2>3. /\ blog_at = "idle" /\ blog_version \in Versions /\ blog_count \in TestCounts
        /\ blog_i = 0 /\ blog_fd = FALSE /\ blog_handles = 0 /\ blog_blocks = 0
        /\ blog_runs = 0 /\ blog_answer = "none"
    BY Zenon
  <2> HIDE DEF Blog!Init
  <2> QED
    BY <1>1, <2>1, <2>2, <2>3 DEF BlogTypes, BlogPlaces
<1>4. BlogHeld
  BY DEF BlogHeld, Working
<1>5. BlogCounters
  BY <1>1 DEF BlogCounters, Charged
<1>6. BlogRows
  BY <1>2 DEF BlogRows
<1> QED
  BY <1>3, <1>4, <1>5, <1>6 DEF BlogInv

\* The steps that leave the counters as they are.
LEMMA PlainSteps ==
  ASSUME BlogInv,
         \/ Blog!Runtest \/ Blog!BadLibName \/ Blog!DlopenFails \/ Blog!Dlopen
         \/ Blog!DlsymFails \/ Blog!Dlsym \/ Blog!MallocFails \/ Blog!OpenFails
         \/ Blog!LoadDriver \/ Blog!DivideByZero \/ Blog!Release
  PROVE  BlogInv'
<1> USE DEF Blog!Goto, Blog!held
<1>0. BlogTypes /\ BlogHeld /\ BlogCounters /\ BlogRows
  BY DEF BlogInv
<1>1. /\ blog_at # "kernel" /\ blog_at' # "kernel" /\ UNCHANGED Blog!kvars
      /\ UNCHANGED blog_msr /\ blog_at # "record" /\ blog_at' # "record"
  BY DEF Blog!Runtest, Blog!BadLibName, Blog!DlopenFails, Blog!Dlopen,
     Blog!DlsymFails, Blog!Dlsym, Blog!MallocFails, Blog!OpenFails,
     Blog!LoadDriver, Blog!DivideByZero, Blog!Release, Blog!Fails
<1>2. (blog_at' = "kernel" => KernelInv') /\ (blog_at' # "kernel" => Blog!Parked')
  BY <1>1, StaysParked
<1>3. ASSUME Blog!Runtest PROVE BlogInv'
  <2> USE <1>3 DEF Blog!Runtest
  <2>1. BlogTypes'
    BY <1>0 DEF BlogTypes, BlogPlaces
  <2>2. BlogHeld'
    BY <1>0 DEF BlogHeld, Working
  <2>3. BlogCounters'
    BY <1>0 DEF BlogCounters, Charged
  <2>4. BlogRows'
    <3>1. blog_rows' = << >> /\ blog_log' = << >> /\ blog_at' # "record"
      OBVIOUS
    <3> QED
      BY <3>1 DEF BlogRows
  <2> QED
    BY <1>2, <2>1, <2>2, <2>3, <2>4 DEF BlogInv
<1>4. ASSUME NEW from \in {"checkName", "dlsym", "malloc", "open"}, Blog!Fails(from)
      PROVE  BlogInv'
  <2> USE <1>4 DEF Blog!Fails
  <2>1. BlogTypes'
    BY <1>0 DEF BlogTypes, BlogPlaces
  <2>2. BlogHeld'
    BY <1>0 DEF BlogHeld, BlogTypes, Working
  <2>3. BlogCounters'
    BY <1>0 DEF BlogCounters, Charged
  <2>4. BlogRows'
    BY <1>0, <1>1, RowsStay DEF BlogSteady
  <2> QED
    BY <1>2, <2>1, <2>2, <2>3, <2>4 DEF BlogInv
<1>5. ASSUME Blog!Dlopen \/ Blog!Dlsym \/ Blog!LoadDriver PROVE BlogInv'
  <2> USE <1>5 DEF Blog!Dlopen, Blog!Dlsym, Blog!LoadDriver
  <2>1. BlogTypes'
    <3>1. Blog!Zero \in [Blog!Counter -> Nat]
      BY DEF Blog!Zero
    <3>2. /\ blog_at' \in {"dlsym", "malloc", "reset"} /\ blog_fd' \in BOOLEAN
          /\ blog_handles' \in Nat /\ blog_fixed' \in [Blog!Counter -> Nat]
      <4>1. /\ blog_handles \in Nat /\ blog_fixed \in [Blog!Counter -> Nat]
            /\ blog_fd \in BOOLEAN
        BY <1>0 DEF BlogTypes
      <4> HIDE DEF Blog!Goto
      <4>2. CASE Blog!Dlopen
        BY <4>1, <4>2 DEF Blog!Goto
      <4>3. CASE Blog!Dlsym
        BY <4>1, <4>3, <3>1 DEF Blog!Goto
      <4>4. CASE Blog!LoadDriver
        BY <4>1, <4>4 DEF Blog!Goto
      <4> QED
        BY <1>5, <4>2, <4>3, <4>4
    <3>3. UNCHANGED <<blog_version, blog_count, blog_i, blog_msr, blog_rows, blog_blocks,
                      blog_answer, blog_runs, blog_log, blog_missed>>
      OBVIOUS
    <3> QED
      BY <1>0, <3>2, <3>3 DEF BlogTypes, BlogPlaces
  <2>2. BlogHeld'
    BY <1>0 DEF BlogHeld, BlogTypes, Working
  <2>3. BlogCounters'
    BY <1>0 DEF BlogCounters, Charged
  <2>4. BlogRows'
    BY <1>0, <1>1, RowsStay DEF BlogSteady
  <2> QED
    BY <1>2, <2>1, <2>2, <2>3, <2>4 DEF BlogInv
<1>6. ASSUME Blog!DivideByZero \/ Blog!Release PROVE BlogInv'
  <2> USE <1>6 DEF Blog!DivideByZero, Blog!Release
  <2>1. BlogTypes'
    <3>1. /\ blog_at' \in {"idle", "dead"} /\ blog_fd' \in BOOLEAN
          /\ blog_handles' \in Nat /\ blog_blocks' \in Nat
          /\ blog_answer' \in {"none", "table", "error"}
      <4>1. /\ blog_missed[1] \in Nat /\ blog_missed[2] \in Nat
            /\ blog_answer \in {"none", "table", "error"}
        BY <1>0 DEF BlogTypes
      <4>2. blog_at \in {"closing", "baseline"}
        OBVIOUS
      <4>3. blog_handles = blog_missed[1] + 1 /\ blog_blocks = blog_missed[2] + 1
        BY <1>0, <4>2, Zenon DEF BlogHeld, Working
      <4>4. CASE Blog!DivideByZero
        BY <4>1, <4>4
      <4>5. CASE Blog!Release
        <5>1. /\ blog_at' = "idle" /\ blog_fd' = FALSE /\ blog_answer' = "table"
              /\ blog_handles' = blog_handles - 1 /\ blog_blocks' = blog_blocks - 1
          BY <4>5, Zenon
        <5>2. ASSUME NEW a \in Nat, NEW b, b = a + 1 PROVE b - 1 \in Nat
          BY <5>2
        <5>3. blog_handles - 1 \in Nat /\ blog_blocks - 1 \in Nat
          BY <4>1, <4>3, <5>2
        <5> HIDE <1>6
        <5> QED
          BY <5>1, <5>3
      <4> QED
        BY <1>6, <4>4, <4>5
    <3>2. blog_missed' = blog_missed \/ blog_missed' = <<0, 0>>
      OBVIOUS
    <3>3. /\ blog_missed' = <<blog_missed'[1], blog_missed'[2]>>
          /\ blog_missed'[1] \in Nat /\ blog_missed'[2] \in Nat
      BY <1>0, <3>2 DEF BlogTypes
    <3>4. UNCHANGED <<blog_version, blog_count, blog_i, blog_msr, blog_fixed, blog_rows,
                      blog_runs, blog_log>>
      OBVIOUS
    <3> QED
      BY <1>0, <3>1, <3>3, <3>4 DEF BlogTypes, BlogPlaces
  <2>2. BlogHeld'
    BY <1>0 DEF BlogHeld, BlogTypes, Working
  <2>3. BlogCounters'
    BY <1>0 DEF BlogCounters, Charged
  <2>4. BlogRows'
    BY <1>0, <1>1, RowsStay DEF BlogSteady
  <2> QED
    BY <1>2, <2>1, <2>2, <2>3, <2>4 DEF BlogInv
<1> QED
  BY <1>3, <1>4, <1>5, <1>6 DEF Blog!BadLibName, Blog!DlopenFails, Blog!DlsymFails,
     Blog!MallocFails, Blog!OpenFails

-----------------------------------------------------------------------------
(***************************************************************************)
(* The steps around the tests that use the counters.                       *)
(***************************************************************************)
\* As often the same is as much.
LEMMA MeanCost ==
  ASSUME NEW k \in Nat, k > 0, NEW a \in Nat
  PROVE  (k * a) \div k = a
<1>1. k * a \in Int /\ k * a = a * k
  OBVIOUS
<1> DEFINE q == (k * a) \div k
<1>2. q \in Int /\ k * q <= k * a /\ k * a < k * q + k
  BY <1>1
<1> HIDE DEF q
<1>3. k * q <= k * a /\ k * a < k * (q + 1)
  BY <1>2
<1>4. ASSUME q < a PROVE FALSE
  <2>1. q + 1 <= a
    BY <1>2, <1>4
  <2>2. k * (q + 1) <= k * a
    BY <1>2, <2>1
  <2> QED
    BY <1>1, <1>2, <1>3, <2>2
<1>5. ASSUME q > a PROVE FALSE
  <2>1. a + 1 <= q
    BY <1>2, <1>5
  <2>2. k * (a + 1) <= k * q /\ k * (a + 1) = k * a + k
    BY <1>2, <2>1
  <2> QED
    BY <1>1, <1>2, <2>2
<1>6. q = a
  BY <1>2, <1>4, <1>5
<1> QED
  BY <1>6 DEF q

LEMMA OneMore == ASSUME NEW k \in Nat, NEW a \in Nat PROVE k * a + a = (k + 1) * a
  OBVIOUS

\* A test has been made and its row is still to be recorded.
LEMMA LogGrows ==
  ASSUME BlogTypes, BlogRows, blog_at # "record", blog_at' = "record", blog_rows' = blog_rows,
         NEW g \in LogType, blog_log' = Append(blog_log, g),
         \A c \in Blog!Counter : blog_msr'.read[c] = Events(c, Blog!Between(g)) + Cost(c)
  PROVE  BlogRows'
<1> DEFINE L == Len(blog_rows)
<1>1. L \in Nat /\ Len(blog_log) = L
  BY DEF BlogTypes, BlogRows
<1>2. /\ Len(blog_log') = L + 1 /\ blog_log'[L + 1] = g
      /\ \A t \in 1 .. L : blog_log'[t] = blog_log[t]
  BY <1>1 DEF BlogTypes
<1>3. ASSUME NEW t \in 1 .. L, NEW c \in Blog!Counter
      PROVE  blog_rows'[t][c] = Events(c, Blog!Between(blog_log'[t]))
  BY <1>2 DEF BlogRows
<1>4. Len(blog_rows') = L
  OBVIOUS
<1> HIDE DEF L
<1> QED
  BY <1>1, <1>2, <1>3, <1>4 DEF BlogRows

LEMMA OpeningSteps ==
  ASSUME BlogInv, Blog!Record \/ Blog!ResetForBaseline \/ Blog!FinalReset
  PROVE  BlogInv'
<1> USE DEF Blog!Goto, Blog!held
<1>0. BlogTypes /\ BlogHeld /\ BlogCounters /\ BlogRows /\ blog_msr \in MsrType
  BY DEF BlogInv, BlogTypes
<1>1. /\ blog_at # "kernel" /\ blog_at' # "kernel" /\ UNCHANGED Blog!kvars
      /\ BlogSteady
  BY DEF Blog!Record, Blog!ResetForBaseline, Blog!FinalReset, BlogSteady
<1>2. (blog_at' = "kernel" => KernelInv') /\ (blog_at' # "kernel" => Blog!Parked')
  BY <1>1, StaysParked
<1>3. BlogRows'
  BY <1>0, <1>1, RowsStay
<1>4. ASSUME Blog!Record PROVE BlogInv'
  <2>1. /\ blog_at = "malloc" /\ blog_at' = "open" /\ blog_blocks' = blog_blocks + 1
        /\ blog_msr' = [blog_msr EXCEPT !.read = Blog!Zero]
        /\ UNCHANGED <<blog_version, blog_count, blog_i, blog_fd, blog_fixed, blog_rows, blog_handles,
                       blog_answer, blog_runs, blog_log, blog_missed>>
    BY <1>4, Zenon DEF Blog!Record
  <2>2. blog_msr' \in MsrType /\ blog_msr'.on = blog_msr.on
    BY <1>0, <2>1, ZeroRead
  <2> HIDE DEF Blog!Goto
  <2>3. BlogTypes'
    BY <1>0, <2>1, <2>2 DEF BlogTypes, BlogPlaces
  <2>4. BlogHeld'
    BY <1>0, <2>1 DEF BlogHeld, BlogTypes, Working
  <2>5. BlogCounters'
    BY <1>0, <2>1, <2>2 DEF BlogCounters, Charged
  <2> QED
    BY <1>2, <1>3, <2>3, <2>4, <2>5 DEF BlogInv
<1>5. ASSUME Blog!ResetForBaseline PROVE BlogInv'
  <2>1. /\ blog_at = "reset" /\ blog_at' = "baseline" /\ Blog!IoctlReset
        /\ blog_fixed' = Blog!Zero /\ blog_i' = 0
        /\ UNCHANGED <<blog_version, blog_count, blog_fd, blog_rows, blog_handles, blog_blocks,
                       blog_answer, blog_runs, blog_log, blog_missed>>
    BY <1>5, Zenon DEF Blog!ResetForBaseline
  <2>2. /\ blog_msr' \in MsrType /\ ~ blog_msr'.on
        /\ \A c \in Blog!Counter : blog_msr'.val[c] = 0
    BY <1>0, <2>1, ResetCall
  <2>3. blog_fixed' \in [Blog!Counter -> Nat]
    BY <2>1 DEF Blog!Zero
  <2>4. BlogTypes'
    BY <1>0, <2>1, <2>2, <2>3 DEF BlogTypes, BlogPlaces
  <2>5. BlogHeld'
    BY <1>0, <2>1 DEF BlogHeld, Working
  <2>6. BlogCounters'
    <3>1. blog_count \in Nat
      BY <1>0, <2>1, OverheadNat DEF BlogTypes
    <3>2. \A c \in Blog!Counter : blog_msr'.val[c] = 0 * Cost(c)
      <4>1. \A c \in Blog!Counter : Cost(c) \in Nat
        BY EventFacts
      <4>2. \A k \in Nat : 0 * k = 0
        OBVIOUS
      <4> QED
        BY <2>2, <4>1, <4>2
    <3> QED
      BY <2>1, <2>2, <3>1, <3>2 DEF BlogCounters, Charged
  <2> QED
    BY <1>2, <1>3, <2>4, <2>5, <2>6 DEF BlogInv
<1>6. ASSUME Blog!FinalReset PROVE BlogInv'
  <2>1. /\ blog_at = "test" /\ blog_at' = "closing" /\ Blog!IoctlReset
        /\ UNCHANGED <<blog_version, blog_count, blog_i, blog_fd, blog_fixed, blog_rows, blog_handles,
                       blog_blocks, blog_answer, blog_runs, blog_log, blog_missed>>
    BY <1>6, Zenon DEF Blog!FinalReset
  <2>2. blog_msr' \in MsrType /\ ~ blog_msr'.on
    BY <1>0, <2>1, ResetCall
  <2>3. BlogTypes'
    BY <1>0, <2>1, <2>2 DEF BlogTypes, BlogPlaces
  <2>4. BlogHeld'
    BY <1>0, <2>1 DEF BlogHeld, Working
  <2>5. BlogCounters'
    BY <2>1, <2>2 DEF BlogCounters, Charged
  <2> QED
    BY <1>2, <1>3, <2>3, <2>4, <2>5 DEF BlogInv
<1> QED
  BY <1>4, <1>5, <1>6

LEMMA BaselineSteps ==
  ASSUME BlogInv, Blog!BaselineStart \/ Blog!BaselineStop \/ Blog!Average
  PROVE  BlogInv'
<1> USE DEF Blog!Goto, Blog!held
<1>0. BlogTypes /\ BlogHeld /\ BlogCounters /\ BlogRows /\ blog_msr \in MsrType
      /\ blog_count \in Nat /\ blog_i \in Nat
  BY OverheadNat DEF BlogInv, BlogTypes
<1>1. /\ blog_at # "kernel" /\ blog_at' # "kernel" /\ UNCHANGED Blog!kvars
      /\ BlogSteady
  BY DEF Blog!BaselineStart, Blog!BaselineStop, Blog!Average, BlogSteady
<1>2. (blog_at' = "kernel" => KernelInv') /\ (blog_at' # "kernel" => Blog!Parked')
  BY <1>1, StaysParked
<1>3. BlogRows'
  BY <1>0, <1>1, RowsStay
<1>4. ASSUME Blog!BaselineStart PROVE BlogInv'
  <2>1. /\ blog_at = "baseline" /\ blog_at' = "baseStarted" /\ Blog!IoctlCfg /\ blog_i < blog_count
        /\ UNCHANGED <<blog_version, blog_count, blog_i, blog_fd, blog_fixed, blog_rows, blog_handles,
                       blog_blocks, blog_answer, blog_runs, blog_log, blog_missed>>
    BY <1>4, Zenon DEF Blog!BaselineStart
  <2>2. ~ blog_msr.on
    BY <1>0, <2>1 DEF BlogCounters
  <2>3. /\ blog_msr' \in MsrType /\ blog_msr'.on
        /\ \A c \in Blog!Counter : blog_msr'.val[c] = blog_msr.val[c]
    BY <1>0, <2>1, <2>2, CfgCall
  <2>4. BlogTypes'
    BY <1>0, <2>1, <2>3 DEF BlogTypes, BlogPlaces
  <2>5. BlogHeld'
    BY <1>0, <2>1 DEF BlogHeld, Working
  <2>6. BlogCounters'
    <3>1. \A c \in Blog!Counter : blog_msr'.val[c] = blog_i * Cost(c)
      BY <1>0, <2>1, <2>3 DEF BlogCounters
    <3> QED
      BY <1>0, <2>1, <2>3, <3>1 DEF BlogCounters, Charged
  <2> QED
    BY <1>2, <1>3, <2>4, <2>5, <2>6 DEF BlogInv
<1>5. ASSUME Blog!BaselineStop PROVE BlogInv'
  <2>1. /\ blog_at = "baseStarted" /\ blog_at' = "baseline" /\ Blog!IoctlRead(0)
        /\ blog_i' = blog_i + 1
        /\ UNCHANGED <<blog_version, blog_count, blog_fd, blog_fixed, blog_rows, blog_handles,
                       blog_blocks, blog_answer, blog_runs, blog_log, blog_missed>>
    BY <1>5, Zenon DEF Blog!BaselineStop
  <2>2. blog_msr.on = TRUE /\ blog_i < blog_count
        /\ \A c \in Blog!Counter : blog_msr.val[c] = blog_i * Cost(c)
    BY <1>0, <2>1 DEF BlogCounters, MsrType
  <2>3. /\ blog_msr' \in MsrType /\ ~ blog_msr'.on
        /\ \A c \in Blog!Counter :
              /\ blog_msr'.val[c] = blog_msr.val[c] + Adds(blog_msr.on, c, 0)
                                      + Adds(blog_msr.on, c, Overhead)
              /\ blog_msr'.read[c] = blog_msr'.val[c]
    BY <1>0, <2>1, ReadCall
  <2>4. BlogTypes'
    BY <1>0, <2>1, <2>3 DEF BlogTypes, BlogPlaces
  <2>5. BlogHeld'
    BY <1>0, <2>1 DEF BlogHeld, Working
  <2>6. ASSUME NEW c \in Blog!Counter PROVE blog_msr'.val[c] = (blog_i + 1) * Cost(c)
    <3>1. Cost(c) \in Nat /\ Adds(TRUE, c, 0) = 0 /\ Adds(TRUE, c, Overhead) = Cost(c)
      <4>1. /\ Cost(c) \in Nat /\ Events(c, 0) = 0
            /\ \A w \in Nat : Adds(TRUE, c, w) = Events(c, w)
        BY EventFacts, Zenon
      <4>2. 0 \in Nat /\ Overhead \in Nat
        BY OverheadNat
      <4>3. Adds(TRUE, c, 0) = 0 /\ Adds(TRUE, c, Overhead) = Events(c, Overhead)
        BY <4>1, <4>2, Zenon
      <4> QED
        BY <4>1, <4>3, Zenon DEF Cost
    <3>2. blog_msr'.val[c] = blog_i * Cost(c) + 0 + Cost(c)
      BY <2>2, <2>3, <3>1
    <3>3. blog_i * Cost(c) \in Nat
      BY <1>0, <3>1
    <3> QED
      BY <1>0, <3>1, <3>2, <3>3, OneMore
  <2>7. BlogCounters'
    <3>1. \A c \in Blog!Counter : blog_msr'.val[c] = blog_i' * Cost(c)
      BY <2>1, <2>6
    <3>2. blog_i' <= blog_count'
      BY <1>0, <2>1, <2>2
    <3> QED
      BY <2>1, <2>3, <3>1, <3>2 DEF BlogCounters, Charged
  <2> QED
    BY <1>2, <1>3, <2>4, <2>5, <2>7 DEF BlogInv
<1>6. ASSUME Blog!Average PROVE BlogInv'
  <2>1. /\ blog_at = "baseline" /\ blog_at' = "test" /\ blog_i = blog_count /\ blog_count > 0
        /\ blog_fixed' = [k \in Blog!Counter |-> blog_msr.read[k] \div blog_count]
        /\ blog_msr' = [blog_msr EXCEPT !.read = Blog!Zero] /\ blog_i' = 0
        /\ UNCHANGED <<blog_version, blog_count, blog_fd, blog_rows, blog_handles,
                       blog_blocks, blog_answer, blog_runs, blog_log, blog_missed>>
    BY <1>6, Zenon DEF Blog!Average
  <2>2. blog_msr' \in MsrType /\ blog_msr'.on = blog_msr.on
    BY <1>0, <2>1, ZeroRead
  <2>3. /\ ~ blog_msr.on
        /\ \A c \in Blog!Counter : blog_msr.read[c] = blog_count * Cost(c)
    BY <1>0, <2>1 DEF BlogCounters
  <2>4. \A c \in Blog!Counter : blog_fixed'[c] = Cost(c) /\ Cost(c) \in Nat
    <3> TAKE c \in Blog!Counter
    <3>1. Cost(c) \in Nat
      BY EventFacts
    <3>2. blog_fixed'[c] = (blog_count * Cost(c)) \div blog_count
      BY <2>1, <2>3
    <3> QED
      BY <1>0, <2>1, <3>1, <3>2, MeanCost
  <2>5. blog_fixed' \in [Blog!Counter -> Nat]
    <3>1. blog_fixed' = [k \in Blog!Counter |-> blog_fixed'[k]]
      BY <2>1
    <3> QED
      BY <2>4, <3>1
  <2>6. BlogTypes'
    BY <1>0, <2>1, <2>2, <2>5 DEF BlogTypes, BlogPlaces
  <2>7. BlogHeld'
    BY <1>0, <2>1 DEF BlogHeld, Working
  <2>8. BlogCounters'
    BY <2>1, <2>2, <2>3, <2>4 DEF BlogCounters
  <2> QED
    BY <1>2, <1>3, <2>6, <2>7, <2>8 DEF BlogInv
<1> QED
  BY <1>4, <1>5, <1>6

LEMMA TestSteps ==
  ASSUME BlogInv, Blog!ResetForTest \/ Blog!TestcodeStart \/ Blog!TestcodeStop \/ Blog!RecordResult
  PROVE  BlogInv'
<1> USE DEF Blog!Goto, Blog!held
<1>0. BlogTypes /\ BlogHeld /\ BlogCounters /\ BlogRows /\ blog_msr \in MsrType
  BY DEF BlogInv, BlogTypes
<1>1. blog_at # "kernel" /\ blog_at' # "kernel" /\ UNCHANGED Blog!kvars
  BY DEF Blog!ResetForTest, Blog!TestcodeStart, Blog!TestcodeStop, Blog!RecordResult
<1>2. (blog_at' = "kernel" => KernelInv') /\ (blog_at' # "kernel" => Blog!Parked')
  BY <1>1, StaysParked
<1>3. ASSUME Blog!ResetForTest PROVE BlogInv'
  <2>1. /\ blog_at = "test" /\ blog_at' = "execute" /\ Blog!IoctlReset
        /\ UNCHANGED <<blog_version, blog_count, blog_i, blog_fd, blog_fixed, blog_rows, blog_handles,
                       blog_blocks, blog_answer, blog_runs, blog_log, blog_missed>>
    BY <1>3, Zenon DEF Blog!ResetForTest
  <2>2. /\ blog_msr' \in MsrType /\ ~ blog_msr'.on
        /\ \A c \in Blog!Counter : blog_msr'.val[c] = 0
    BY <1>0, <2>1, ResetCall
  <2>3. BlogTypes'
    BY <1>0, <2>1, <2>2 DEF BlogTypes, BlogPlaces
  <2>4. BlogHeld'
    BY <1>0, <2>1 DEF BlogHeld, Working
  <2>5. BlogCounters'
    BY <1>0, <2>1, <2>2 DEF BlogCounters, Charged
  <2>6. BlogRows'
    BY <1>0, <2>1, RowsStay DEF BlogSteady
  <2> QED
    BY <1>2, <2>3, <2>4, <2>5, <2>6 DEF BlogInv
<1>4. ASSUME Blog!TestcodeStart PROVE BlogInv'
  <2>1. /\ blog_at = "execute" /\ blog_at' = "timing" /\ Blog!IoctlCfg
        /\ UNCHANGED <<blog_version, blog_count, blog_i, blog_fd, blog_fixed, blog_rows, blog_handles,
                       blog_blocks, blog_answer, blog_runs, blog_log, blog_missed>>
    BY <1>4, Zenon DEF Blog!TestcodeStart
  <2>2. ~ blog_msr.on /\ \A c \in Blog!Counter : blog_msr.val[c] = 0
    BY <1>0, <2>1 DEF BlogCounters
  <2>3. /\ blog_msr' \in MsrType /\ blog_msr'.on
        /\ \A c \in Blog!Counter : blog_msr'.val[c] = blog_msr.val[c]
    BY <1>0, <2>1, <2>2, CfgCall
  <2>4. BlogTypes'
    BY <1>0, <2>1, <2>3 DEF BlogTypes, BlogPlaces
  <2>5. BlogHeld'
    BY <1>0, <2>1 DEF BlogHeld, Working
  <2>6. BlogCounters'
    BY <1>0, <2>1, <2>2, <2>3 DEF BlogCounters, Charged
  <2>7. BlogRows'
    BY <1>0, <2>1, RowsStay DEF BlogSteady
  <2> QED
    BY <1>2, <2>4, <2>5, <2>6, <2>7 DEF BlogInv
<1>5. ASSUME Blog!TestcodeStop PROVE BlogInv'
  <2>1. PICK w \in Work :
          /\ Blog!IoctlRead(w)
          /\ blog_log' = Append(blog_log, [kernel |-> "none", work |-> w, lead |-> 0, n |-> 0])
    BY <1>5, Zenon DEF Blog!TestcodeStop
  <2>2. /\ blog_at = "timing" /\ blog_at' = "record"
        /\ UNCHANGED <<blog_version, blog_count, blog_i, blog_fd, blog_fixed, blog_rows, blog_handles,
                       blog_blocks, blog_answer, blog_runs, blog_missed>>
    BY <1>5, Zenon DEF Blog!TestcodeStop
  <2>3. w \in Nat
    BY OverheadNat
  <2> DEFINE g == [kernel |-> "none", work |-> w, lead |-> 0, n |-> 0]
  <2>4. g \in LogType /\ Blog!Between(g) = w
    BY <2>3 DEF LogType, Blog!Between
  <2>5. blog_log' = Append(blog_log, g)
    BY <2>1
  <2> HIDE DEF g
  <2>6. blog_msr.on = TRUE /\ \A c \in Blog!Counter : blog_msr.val[c] = 0
    BY <1>0, <2>2 DEF BlogCounters, MsrType
  <2>7. /\ blog_msr' \in MsrType /\ ~ blog_msr'.on
        /\ \A c \in Blog!Counter :
              /\ blog_msr'.val[c] = blog_msr.val[c] + Adds(blog_msr.on, c, w)
                                      + Adds(blog_msr.on, c, Overhead)
              /\ blog_msr'.read[c] = blog_msr'.val[c]
    BY <1>0, <2>1, <2>3, ReadCall
  <2>8. \A c \in Blog!Counter : blog_msr'.read[c] = Events(c, Blog!Between(g)) + Cost(c)
    <3> TAKE c \in Blog!Counter
    <3>1. /\ Events(c, w) \in Nat /\ Cost(c) \in Nat
          /\ Adds(TRUE, c, w) = Events(c, w) /\ Adds(TRUE, c, Overhead) = Cost(c)
      <4>1. Cost(c) \in Nat /\ \A v \in Nat : Events(c, v) \in Nat /\ Adds(TRUE, c, v) = Events(c, v)
        BY EventFacts, Zenon
      <4> QED
        BY <2>3, <4>1, OverheadNat, Zenon DEF Cost
    <3>2. blog_msr'.read[c] = 0 + Events(c, w) + Cost(c)
      BY <2>6, <2>7, <3>1
    <3> QED
      BY <2>4, <3>1, <3>2
  <2>9. BlogTypes'
    <3>1. blog_log' \in Seq(LogType)
      BY <1>0, <2>4, <2>5 DEF BlogTypes
    <3> QED
      BY <1>0, <2>2, <2>7, <3>1 DEF BlogTypes, BlogPlaces
  <2>10. BlogHeld'
    BY <1>0, <2>2 DEF BlogHeld, Working
  <2>11. BlogCounters'
    BY <1>0, <2>2, <2>7 DEF BlogCounters, Charged
  <2>12. BlogRows'
    BY <1>0, <2>2, <2>4, <2>5, <2>8, LogGrows
  <2> QED
    BY <1>2, <2>9, <2>10, <2>11, <2>12 DEF BlogInv
<1>6. ASSUME Blog!RecordResult PROVE BlogInv'
  <2>1. /\ blog_at = "record" /\ blog_at' = "test" /\ blog_i' = blog_i + 1
        /\ blog_rows' = Append(blog_rows, [k \in Blog!Counter |-> blog_msr.read[k] - blog_fixed[k]])
        /\ UNCHANGED <<blog_version, blog_count, blog_fd, blog_msr, blog_fixed, blog_handles,
                       blog_blocks, blog_answer, blog_runs, blog_log, blog_missed>>
    BY <1>6, Zenon DEF Blog!RecordResult
  <2> DEFINE r == [k \in Blog!Counter |-> blog_msr.read[k] - blog_fixed[k]]
  <2>2. Len(blog_rows) \in Nat /\ Len(blog_log) = Len(blog_rows) + 1
    BY <1>0, <2>1 DEF BlogTypes, BlogRows
  <2>3. \A c \in Blog!Counter : r[c] = Events(c, Blog!Between(blog_log[Len(blog_rows) + 1]))
    <3> TAKE c \in Blog!Counter
    <3>1. blog_log[Len(blog_rows) + 1] \in LogType
      BY <1>0, <2>2 DEF BlogTypes
    <3> DEFINE b == Blog!Between(blog_log[Len(blog_rows) + 1])
    <3>2. b \in Int
      BY <3>1, BetweenInt
    <3>3. /\ blog_msr.read[c] = Events(c, Blog!Between(blog_log[Len(blog_log)])) + Cost(c)
          /\ blog_fixed[c] = Cost(c)
      BY <1>0, <2>1 DEF BlogRows, BlogCounters, Charged
    <3>4. blog_msr.read[c] = Events(c, b) + Cost(c)
      BY <2>2, <3>3
    <3> HIDE DEF b
    <3>5. Events(c, b) \in Int /\ Cost(c) \in Nat
      BY <3>2, EventFacts
    <3>6. r[c] = blog_msr.read[c] - blog_fixed[c]
      OBVIOUS
    <3> HIDE DEF r
    <3>7. r[c] = (Events(c, b) + Cost(c)) - Cost(c)
      BY <3>3, <3>4, <3>6
    <3> QED
      BY <3>5, <3>7 DEF b
  <2>4. r \in [Blog!Counter -> Int]
    BY <1>0 DEF BlogTypes, MsrType
  <2>5. blog_rows' = Append(blog_rows, r)
    BY <2>1
  <2> HIDE DEF r
  <2>6. BlogTypes'
    <3>1. blog_rows' \in Seq([Blog!Counter -> Int]) /\ blog_i' \in Nat
      BY <1>0, <2>1, <2>4, <2>5 DEF BlogTypes
    <3> QED
      BY <1>0, <2>1, <3>1 DEF BlogTypes, BlogPlaces
  <2>7. BlogHeld'
    BY <1>0, <2>1 DEF BlogHeld, Working
  <2>8. BlogCounters'
    BY <1>0, <2>1 DEF BlogCounters, Charged
  <2>9. BlogRows'
    <3> DEFINE L == Len(blog_rows)
    <3>1. L \in Nat /\ Len(blog_rows') = L + 1 /\ blog_rows'[L + 1] = r
          /\ \A t \in 1 .. L : blog_rows'[t] = blog_rows[t]
      BY <1>0, <2>5, <2>4 DEF BlogTypes
    <3>2. Len(blog_log') = Len(blog_rows') /\ blog_log' = blog_log
      BY <2>1, <2>2, <3>1
    <3>3. ASSUME NEW t \in 1 .. Len(blog_rows'), NEW c \in Blog!Counter
          PROVE  blog_rows'[t][c] = Events(c, Blog!Between(blog_log'[t]))
      <4>1. t \in 1 .. L \/ t = L + 1
        BY <3>1
      <4>2. CASE t \in 1 .. L
        <5>1. blog_rows[t][c] = Events(c, Blog!Between(blog_log[t]))
          BY <1>0, <4>2 DEF BlogRows
        <5> QED
          BY <3>1, <3>2, <4>2, <5>1
      <4>3. CASE t = L + 1
        BY <2>3, <3>1, <3>2, <4>3
      <4> QED
        BY <4>1, <4>2, <4>3
    <3> HIDE DEF L
    <3>4. Len(blog_rows') \in Nat
      BY <3>1
    <3> QED
      BY <2>1, <3>2, <3>3, <3>4 DEF BlogRows
  <2> QED
    BY <1>2, <2>6, <2>7, <2>8, <2>9 DEF BlogInv
<1> QED
  BY <1>3, <1>4, <1>5, <1>6

-----------------------------------------------------------------------------
(***************************************************************************)
(* The kernel and its callbacks.                                           *)
(***************************************************************************)
LEMMA KernelFacts ==
  ASSUME KernelInv
  PROVE  /\ BP!TypeOK /\ blog_n \in Nat /\ blog_rdx \in Nat /\ BP!Lead \in 0 .. 63 /\ blog_n >= 128
         /\ blog_calls \in {<< >>, <<"start">>, <<"start", "stop">>}
         /\ BP!Lead \in Nat /\ blog_n >= BP!Lead + 64
         /\ Skipped \in Nat /\ Measured \in LogType
<1>1. BP!TypeOK /\ BP!Protocol /\ blog_kernel \in {"avx", "sse", "line"}
  BY DEF KernelInv, BP!IInv
<1>2. blog_n \in Nat /\ blog_rdx \in Nat
  BY <1>1, KernelConstants, BP!Numbers
<1>3. BP!Lead \in 0 .. 63
  BY <1>1, KernelConstants, BP!LeadFacts
<1>4. blog_n \in Lens
  BY <1>1 DEF BP!TypeOK
<1>5. blog_n >= 128
  BY <1>4, RoutinesAssumption, Zenon DEF Blog!LinesAssumption
<1>6. blog_calls \in {<< >>, <<"start">>, <<"start", "stop">>}
  BY <1>1, Zenon DEF BP!Protocol
<1>7. BP!Lead \in Nat
  BY <1>3
<1>8. Measured \in LogType
  BY <1>1, <1>2, <1>7 DEF Measured, LogType
<1>9. ASSUME NEW a \in 0 .. 63, NEW b \in Nat, b >= 128 PROVE b >= a + 64
  BY <1>9
<1>10. blog_n >= BP!Lead + 64
  BY <1>2, <1>3, <1>5, <1>9, Zenon
<1>11. Skipped \in Nat
  BY <1>7 DEF Skipped
<1> QED
  BY <1>1, <1>2, <1>3, <1>5, <1>6, <1>7, <1>8, <1>10, <1>11, Zenon

\* What lies between the callbacks of a kernel that calls the second of them.
LEMMA LinesBetween ==
  ASSUME KernelInv, BP!AtLine, BP!Remaining < 64
  PROVE  blog_rdx - Skipped = Blog!Between(Measured)
<1>1. blog_rdx - BP!Lead = 64 * ((blog_n - BP!Lead) \div 64)
  BY KernelFacts, KernelConstants, BP!LinesDone
<1>2. blog_rdx \in Nat /\ BP!Lead \in Nat /\ blog_kernel \in {"avx", "sse", "line"}
  <2>1. blog_kernel \in {"avx", "sse", "line"}
    BY Zenon DEF KernelInv
  <2> QED
    BY <2>1, KernelFacts, Zenon
<1> DEFINE lines == 64 * ((blog_n - BP!Lead) \div 64)
<1>3. CASE blog_kernel = "line"
  <2>1. Blog!Between(Measured) = lines
    BY <1>3 DEF Blog!Between, Measured
  <2> QED
    BY <1>1, <1>3, <2>1 DEF Skipped
<1>4. CASE blog_kernel \in {"avx", "sse"}
  <2>1. Blog!Between(Measured) = BP!Lead + lines
    BY <1>4 DEF Blog!Between, Measured
  <2>2. Skipped = 0
    BY <1>4 DEF Skipped
  <2> HIDE DEF lines
  <2>3. blog_rdx - BP!Lead = lines
    BY <1>1 DEF lines
  <2>4. lines \in Int
    BY <1>2, <2>3
  <2> QED
    BY <1>2, <2>1, <2>2, <2>3, <2>4
<1> QED
  BY <1>2, <1>3, <1>4

LEMMA BridgeCallsStep == ASSUME BlogInv, Blog!BridgeCalls PROVE BlogInv'
<1>0. BlogTypes /\ BlogHeld /\ BlogCounters /\ BlogRows
  BY DEF BlogInv
<1>1. /\ blog_at = "execute" /\ blog_at' = "kernel"
      /\ UNCHANGED <<blog_version, blog_count, blog_i, blog_fd, blog_msr, blog_fixed, blog_rows,
                     blog_handles, blog_blocks, blog_answer, blog_runs, blog_log, blog_missed>>
  BY Zenon DEF Blog!BridgeCalls, Blog!Goto, Blog!held
<1>2. /\ blog_kernel' \in Blog!KernelsOf(blog_version) \ {"none"}
      /\ blog_n' \in Lens /\ blog_addr' \in Addrs /\ blog_passed' \in Passed /\ blog_typ' = TRUE
      /\ blog_pc' = "entry" /\ blog_rdx' = 0 /\ blog_rbx' = 0
      /\ blog_stack' = BP!SavedArgs
      /\ blog_dst' = [k \in 0 .. BP!Padded(blog_n') - 1 |-> Unset]
      /\ blog_touched' = 0 /\ blog_calls' = << >>
  BY SameKernel, Zenon DEF Blog!BridgeCalls
<1>3. blog_kernel' \in Kernels /\ blog_kernel' \in {"avx", "sse", "line"}
  <2>1. blog_version \in {"2012.11.15", "2012.11.20", "2012.12.02"}
    BY <1>0, RoutinesAssumption DEF BlogTypes, Blog!MeasureAssumption
  <2> QED
    BY <1>2, <2>1 DEF Blog!KernelsOf
<1>4. BP!IInv'
  <2>1. BP!Init'
    BY <1>2, <1>3, Zenon DEF BP!Init
  <2> QED
    BY <2>1, KernelStarts
<1>5. BP!AtLines'
  BY <1>2 DEF BP!AtLines
<1>6. KernelInv'
  <2>1. ~ blog_msr'.on /\ \A c \in Blog!Counter : blog_msr'.val[c] = 0
    BY <1>0, <1>1 DEF BlogCounters
  <2>2. blog_calls' = << >> /\ << >> # <<"start">> /\ << >> # <<"start", "stop">>
    BY <1>2
  <2> QED
    BY <1>3, <1>4, <1>5, <2>1, <2>2 DEF KernelInv
<1>7. BlogTypes'
  BY <1>0, <1>1 DEF BlogTypes, BlogPlaces
<1>8. BlogHeld'
  BY <1>0, <1>1 DEF BlogHeld, Working
<1>9. BlogCounters'
  BY <1>0, <1>1 DEF BlogCounters, Charged
<1>10. BlogRows'
  BY <1>0, <1>1, RowsStay DEF BlogSteady
<1> QED
  BY <1>1, <1>6, <1>7, <1>8, <1>9, <1>10 DEF BlogInv

LEMMA KernelStepStep == ASSUME BlogInv, Blog!KernelStep PROVE BlogInv'
<1>0. BlogTypes /\ BlogHeld /\ BlogCounters /\ BlogRows /\ blog_msr \in MsrType /\ KernelInv
  BY DEF BlogInv, BlogTypes, Blog!KernelStep
<1>1. /\ blog_at = "kernel" /\ blog_at' = "kernel" /\ Blog!K!Next /\ Blog!Counted
      /\ UNCHANGED <<blog_version, blog_count, blog_i, blog_fd, blog_fixed, blog_rows,
                     blog_handles, blog_blocks, blog_answer, blog_runs, blog_log, blog_missed>>
  BY Zenon DEF Blog!KernelStep, Blog!held
<1>2. BP!Next /\ BP!IInv /\ BP!AtLines
  BY <1>0, <1>1, SameKernel, Zenon DEF KernelInv
<1>3. BP!IInv'
  BY <1>2, KernelConstants, BP!StepIInv
<1>4. /\ BP!AtLines' /\ BP!Calling
      /\ blog_kernel' = blog_kernel /\ blog_n' = blog_n /\ blog_addr' = blog_addr
      /\ blog_rdx' \in Nat /\ blog_rdx <= blog_rdx'
  BY <1>2, KernelConstants, BP!CallbackPlaces DEF BP!args
<1>5. Skipped' = Skipped /\ Measured' = Measured
  BY <1>4 DEF Skipped, Measured, BP!Lead
<1>6. blog_rdx \in Nat /\ Skipped \in Nat /\ blog_calls \in {<< >>, <<"start">>, <<"start", "stop">>}
  BY <1>0, KernelFacts
<1>k. blog_kernel' \in {"avx", "sse", "line"}
  BY <1>0, <1>4 DEF KernelInv
<1>s. /\ Len(<< >>) = 0 /\ Len(<<"start">>) = 1 /\ Len(<<"start", "stop">>) = 2
      /\ << >> # <<"start">> /\ << >> # <<"start", "stop">> /\ <<"start">> # <<"start", "stop">>
      /\ <<"start">>[1] = "start" /\ <<"start", "stop">>[2] = "stop" /\ "stop" # "start"
  OBVIOUS
<1>7. ASSUME blog_calls' = blog_calls PROVE KernelInv' /\ blog_msr' \in MsrType
  <2> DEFINE d == blog_rdx' - blog_rdx
  <2>1. blog_msr' = Blog!Counting(blog_msr, d)
    BY <1>1, <1>7, Zenon DEF Blog!Counted
  <2>2. d \in Nat /\ blog_rdx' = blog_rdx + d
    <3>1. ASSUME NEW a \in Nat, NEW b \in Nat, a <= b PROVE b - a \in Nat /\ b = a + (b - a)
      BY <3>1
    <3> QED
      BY <1>4, <1>6, <3>1, Zenon
  <2> HIDE DEF d
  <2>3. /\ blog_msr' \in MsrType /\ blog_msr'.on = blog_msr.on /\ blog_msr'.read = blog_msr.read
        /\ \A c \in Blog!Counter : blog_msr'.val[c] = blog_msr.val[c] + Adds(blog_msr.on, c, d)
    BY <1>0, <2>1, <2>2, CountingIs
  <2>4. ASSUME blog_calls = << >>
        PROVE  ~ blog_msr'.on /\ \A c \in Blog!Counter : blog_msr'.val[c] = 0
    <3>1. blog_msr.on = FALSE /\ \A c \in Blog!Counter : blog_msr.val[c] = 0
      BY <1>0, <2>4 DEF KernelInv, MsrType
    <3>2. \A c \in Blog!Counter : Adds(FALSE, c, d) = 0
      BY <2>2, EventFacts, Zenon
    <3>3. ASSUME NEW c \in Blog!Counter PROVE blog_msr'.val[c] = 0
      <4>1. blog_msr'.val[c] = 0 + 0
        BY <2>3, <3>1, <3>2, Zenon
      <4> QED
        BY <4>1
    <3>4. ~ blog_msr'.on
      BY <2>3, <3>1, Zenon
    <3> QED
      BY <3>3, <3>4
  <2>5. ASSUME blog_calls = <<"start">>
        PROVE  /\ blog_msr'.on /\ Skipped <= blog_rdx'
               /\ \A c \in Blog!Counter : blog_msr'.val[c] = Events(c, blog_rdx' - Skipped)
    <3>1. /\ blog_msr.on = TRUE /\ Skipped <= blog_rdx
          /\ \A c \in Blog!Counter : blog_msr.val[c] = Events(c, blog_rdx - Skipped)
      BY <1>0, <2>5 DEF KernelInv, MsrType
    <3>2. blog_rdx' - Skipped = (blog_rdx - Skipped) + d /\ blog_rdx - Skipped \in Int /\ d \in Int
      <4>1. \A a, b, k \in Nat : (a + k) - b = (a - b) + k /\ a - b \in Int /\ k \in Int
        OBVIOUS
      <4>2. blog_rdx' - Skipped = (blog_rdx + d) - Skipped
        BY <2>2, Zenon
      <4>3. /\ (blog_rdx + d) - Skipped = (blog_rdx - Skipped) + d
            /\ blog_rdx - Skipped \in Int /\ d \in Int
        BY <1>6, <2>2, <4>1
      <4> QED
        BY <4>2, <4>3, Zenon
    <3>3. ASSUME NEW c \in Blog!Counter
          PROVE  blog_msr'.val[c] = Events(c, blog_rdx' - Skipped)
      <4>1. /\ Adds(TRUE, c, d) = Events(c, d)
            /\ Events(c, (blog_rdx - Skipped) + d) = Events(c, blog_rdx - Skipped) + Events(c, d)
        BY <2>2, <3>2, EventFacts, Zenon
      <4>2. blog_msr'.val[c] = Events(c, blog_rdx - Skipped) + Events(c, d)
        BY <2>3, <3>1, <4>1
      <4> QED
        BY <3>2, <4>1, <4>2, Zenon
    <3> QED
      BY <1>4, <1>6, <2>3, <3>1, <3>3
  <2>6. ASSUME blog_calls = <<"start", "stop">>
        PROVE  /\ ~ blog_msr'.on
               /\ \A c \in Blog!Counter : blog_msr'.read[c] = Events(c, Blog!Between(Measured)) + Cost(c)
    BY <1>0, <2>3, <2>6 DEF KernelInv
  <2>7. KernelInv'
    BY <1>3, <1>4, <1>5, <1>7, <1>k, <2>4, <2>5, <2>6, Zenon DEF KernelInv
  <2> QED
    BY <2>3, <2>7
<1>8. ASSUME blog_calls = << >>, blog_calls' = <<"start">>, blog_rdx' = blog_rdx,
             blog_rdx = IF blog_kernel = "line" THEN BP!Lead ELSE 0
      PROVE  KernelInv' /\ blog_msr' \in MsrType
  <2>1. Blog!IoctlCfg
    <3>1. Len(blog_calls') # Len(blog_calls) /\ blog_calls'[Len(blog_calls')] = "start"
      <4>1. Len(blog_calls') = 1 /\ Len(blog_calls) = 0
        BY <1>8, <1>s, Zenon
      <4> QED
        BY <1>8, <4>1
    <3> QED
      BY <1>1, <3>1, Zenon DEF Blog!Counted
  <2>2. ~ blog_msr.on /\ \A c \in Blog!Counter : blog_msr.val[c] = 0
    BY <1>0, <1>8 DEF KernelInv
  <2>3. /\ blog_msr' \in MsrType /\ blog_msr'.on
        /\ \A c \in Blog!Counter : blog_msr'.val[c] = blog_msr.val[c]
    BY <1>0, <2>1, <2>2, CfgCall
  <2>4. blog_rdx' = Skipped
    BY <1>8 DEF Skipped
  <2>5. Skipped <= blog_rdx' /\ blog_rdx' - Skipped = 0
    BY <1>6, <2>4
  <2>6. \A c \in Blog!Counter : blog_msr'.val[c] = Events(c, blog_rdx' - Skipped)
    BY <2>2, <2>3, <2>5, EventFacts
  <2>7. KernelInv'
    BY <1>3, <1>4, <1>5, <1>8, <1>s, <1>k, <2>3, <2>5, <2>6, Zenon DEF KernelInv
  <2> QED
    BY <2>3, <2>7
<1>9. ASSUME blog_calls = <<"start">>, blog_calls' = <<"start", "stop">>, blog_rdx' = blog_rdx,
             BP!Remaining < 64, BP!AtLine
      PROVE  KernelInv' /\ blog_msr' \in MsrType
  <2>1. Blog!IoctlRead(0)
    <3>1. Len(blog_calls') # Len(blog_calls) /\ blog_calls'[Len(blog_calls')] = "stop"
      <4>1. Len(blog_calls') = 2 /\ Len(blog_calls) = 1
        BY <1>9, <1>s, Zenon
      <4> QED
        BY <1>9, <4>1
    <3> QED
      BY <1>1, <1>s, <3>1, Zenon DEF Blog!Counted
  <2>2. /\ blog_msr.on = TRUE
        /\ \A c \in Blog!Counter : blog_msr.val[c] = Events(c, blog_rdx - Skipped)
    BY <1>0, <1>9 DEF KernelInv, MsrType
  <2>3. /\ blog_msr' \in MsrType /\ ~ blog_msr'.on
        /\ \A c \in Blog!Counter :
              /\ blog_msr'.val[c] = blog_msr.val[c] + Adds(blog_msr.on, c, 0)
                                      + Adds(blog_msr.on, c, Overhead)
              /\ blog_msr'.read[c] = blog_msr'.val[c]
    BY <1>0, <2>1, ReadCall
  <2>4. blog_rdx - Skipped = Blog!Between(Measured) /\ blog_rdx - Skipped \in Int
    BY <1>0, <1>6, <1>9, LinesBetween
  <2>5. ASSUME NEW c \in Blog!Counter
        PROVE  blog_msr'.read[c] = Events(c, Blog!Between(Measured)) + Cost(c)
    <3>1. /\ Cost(c) \in Nat /\ Events(c, 0) = 0
          /\ \A w \in Nat : Adds(TRUE, c, w) = Events(c, w)
          /\ Events(c, blog_rdx - Skipped) \in Int
      BY <2>4, EventFacts, Zenon
    <3>2. Adds(TRUE, c, 0) = 0 /\ Adds(TRUE, c, Overhead) = Cost(c)
      <4>1. 0 \in Nat /\ Overhead \in Nat
        BY OverheadNat
      <4> QED
        BY <3>1, <4>1, Zenon DEF Cost
    <3>3. blog_msr'.read[c] = Events(c, blog_rdx - Skipped) + 0 + Cost(c)
      BY <2>2, <2>3, <3>2
    <3> QED
      BY <2>4, <3>1, <3>3
  <2>6. KernelInv'
    BY <1>3, <1>4, <1>5, <1>9, <1>s, <1>k, <2>3, <2>5, Zenon DEF KernelInv
  <2> QED
    BY <2>3, <2>6
<1>10. KernelInv' /\ blog_msr' \in MsrType
  BY <1>4, <1>7, <1>8, <1>9, Zenon DEF BP!Calling
<1>11. BlogTypes'
  BY <1>0, <1>1, <1>10 DEF BlogTypes, BlogPlaces
<1>12. BlogHeld'
  BY <1>0, <1>1 DEF BlogHeld, Working
<1>13. BlogCounters'
  BY <1>0, <1>1 DEF BlogCounters, Charged
<1>14. BlogRows'
  BY <1>0, <1>1, RowsStay DEF BlogSteady
<1> QED
  BY <1>1, <1>10, <1>11, <1>12, <1>13, <1>14 DEF BlogInv

LEMMA BridgeReturnsStep == ASSUME BlogInv, Blog!BridgeReturns PROVE BlogInv'
<1>0. BlogTypes /\ BlogHeld /\ BlogCounters /\ BlogRows /\ KernelInv
  BY DEF BlogInv, Blog!BridgeReturns, Blog!Goto
<1>1. /\ blog_at = "kernel" /\ blog_at' = "record" /\ blog_pc = "done"
      /\ UNCHANGED <<blog_version, blog_count, blog_i, blog_fd, blog_msr, blog_fixed, blog_rows,
                     blog_handles, blog_blocks, blog_answer, blog_runs, blog_missed>>
  BY Zenon DEF Blog!BridgeReturns, Blog!Goto, Blog!held
<1>2. Blog!Parked'
  BY DEF Blog!BridgeReturns, Blog!Park, Blog!Parked
<1>3. blog_log' = Append(blog_log, Measured) /\ Measured \in LogType
  BY <1>0, KernelFacts, SameKernel, Zenon DEF Blog!BridgeReturns, Measured
<1>4. blog_calls = <<"start", "stop">>
  <2>1. blog_n >= BP!Lead + 64
    BY <1>0, KernelFacts, Zenon
  <2>2. BP!Protocol /\ blog_kernel # "dso"
    BY <1>0 DEF KernelInv, BP!IInv
  <2> QED
    BY <1>1, <2>1, <2>2 DEF BP!Protocol, BP!LinePassed
<1>5. /\ ~ blog_msr.on
      /\ \A c \in Blog!Counter : blog_msr.read[c] = Events(c, Blog!Between(Measured)) + Cost(c)
  BY <1>0, <1>4 DEF KernelInv
<1>6. BlogTypes'
  <2>1. blog_log' \in Seq(LogType)
    BY <1>0, <1>3 DEF BlogTypes
  <2> QED
    BY <1>0, <1>1, <2>1 DEF BlogTypes, BlogPlaces
<1>7. BlogHeld'
  BY <1>0, <1>1 DEF BlogHeld, Working
<1>8. BlogCounters'
  BY <1>0, <1>1, <1>5 DEF BlogCounters, Charged
<1>9. BlogRows'
  BY <1>0, <1>1, <1>3, <1>5, LogGrows
<1> QED
  BY <1>1, <1>2, <1>6, <1>7, <1>8, <1>9 DEF BlogInv

-----------------------------------------------------------------------------
LEMMA BlogStep == ASSUME BlogInv, Blog!Next PROVE BlogInv'
  BY PlainSteps, OpeningSteps, BaselineSteps, TestSteps, BridgeCallsStep, KernelStepStep,
     BridgeReturnsStep, Zenon DEF Blog!Next

LEMMA BlogStutter == ASSUME BlogInv, UNCHANGED blog_vars PROVE BlogInv'
<1>1. BlogTypes' /\ BlogHeld' /\ BlogCounters' /\ BlogRows'
  BY Zenon DEF BlogInv, BlogTypes, BlogHeld, BlogCounters, BlogRows, blog_vars
<1>2. BP!IInv => BP!IInv'
  <2>1. UNCHANGED BP!vars
    BY Zenon DEF blog_vars, BP!vars, BP!args
  <2> QED
    BY <2>1, KernelConstants, BP!StepIInv
<1>3. BP!AtLines => BP!AtLines'
  BY Zenon DEF blog_vars, BP!AtLines, BP!AtLine
<1>4. Skipped' = Skipped /\ Measured' = Measured
  BY Zenon DEF blog_vars, Skipped, Measured, BP!Lead
<1>5. KernelInv => KernelInv'
  BY <1>2, <1>3, <1>4, Zenon DEF KernelInv, blog_vars
<1>6. Blog!Parked => Blog!Parked'
  BY Zenon DEF Blog!Parked, blog_vars
<1> QED
  BY <1>1, <1>5, <1>6, Zenon DEF BlogInv, blog_vars

LEMMA BlogSafe == ASSUME BlogInv PROVE Blog!TypeOK /\ Blog!CountsTheLines /\ Blog!QuietInQ
<1>0. BlogTypes /\ BlogHeld /\ BlogCounters /\ BlogRows
  BY DEF BlogInv
<1>1. Blog!TypeOK
  <2>1. blog_at = "kernel" => Blog!K!TypeOK
    BY SameKernel, Zenon DEF BlogInv, KernelInv, BP!IInv
  <2>2. blog_at # "kernel" => Blog!Parked
    BY DEF BlogInv
  <2> QED
    BY <1>0, <2>1, <2>2 DEF BlogTypes, Blog!TypeOK, BlogPlaces, MsrType
<1>2. Blog!CountsTheLines
  BY <1>0 DEF BlogRows, Blog!CountsTheLines, Events
<1>3. Blog!QuietInQ
  <2>1. ASSUME blog_at \in {"idle", "dead"}
        PROVE  ~ blog_fd /\ ~ blog_msr.on /\ blog_handles = blog_missed[1] + 0 /\ blog_blocks = blog_missed[2] + 0
    BY <1>0, <2>1 DEF BlogHeld, BlogCounters, Working
  <2>2. /\ blog_missed[1] \in Nat /\ blog_missed[2] \in Nat
        /\ blog_missed = <<blog_missed[1], blog_missed[2]>>
    BY <1>0 DEF BlogTypes
  <2>3. ASSUME blog_at \in {"idle", "dead"}
        PROVE  <<blog_handles, blog_blocks>> = blog_missed
    <3>1. blog_handles = blog_missed[1] /\ blog_blocks = blog_missed[2]
      BY <2>1, <2>2, <2>3
    <3> QED
      BY <2>2, <3>1, Zenon
  <2> QED
    BY <2>1, <2>3, Zenon DEF Blog!QuietInQ
<1> QED
  BY <1>1, <1>2, <1>3

-----------------------------------------------------------------------------
(***************************************************************************)
(* All together: whichever routine the user has started, its invariant     *)
(* holds, and the variables of the measuring library are Absent unless it  *)
(* is that one.                                                            *)
(***************************************************************************)
RoutinesInv ==
  /\ program = "savereg" => RegsInv
  /\ program = "jni" => JniInv
  /\ program = "kvparser" => KvInv
  /\ program = "kdb_ipc" => IpcInv
  /\ program = "relocs" => RelInv
  /\ program = "pcap" => CapInv
  /\ program = "blog" => BlogInv
  /\ program = "kdb.1" => IInv
  /\ program # "kdb.1" => NoKdb

LEMMA StartInv == Start => RoutinesInv
<1> SUFFICES ASSUME Start PROVE RoutinesInv
  OBVIOUS
<1>1. program = "savereg" => RegsInv
  BY RegsInit DEF Start
<1>2. program = "jni" => JniInv
  BY JniInit DEF Start
<1>3. program = "kvparser" => KvInv
  BY KvInit DEF Start
<1>4. program = "kdb_ipc" => IpcInv
  BY IpcInit DEF Start
<1>5. program = "relocs" => RelInv
  BY RelInit DEF Start
<1>6. (program = "kdb.1" => IInv) /\ (program # "kdb.1" => NoKdb)
  BY InitIInv DEF Start
<1>7. program = "pcap" => CapInv
  BY CapInit DEF Start
<1>8. program = "blog" => BlogInv
  BY BlogInit DEF Start
<1> QED
  BY <1>1, <1>2, <1>3, <1>4, <1>5, <1>6, <1>7, <1>8 DEF RoutinesInv

LEMMA NoKdbStays == ASSUME NoKdb, UNCHANGED vars PROVE NoKdb'
  BY DEF NoKdb, vars, args, memory, msr, kdb, history

LEMMA RoutinesStep == RoutinesInv /\ [Step]_allVars => RoutinesInv'
<1> SUFFICES ASSUME RoutinesInv, [Step]_allVars PROVE RoutinesInv'
  OBVIOUS
<1>0. program' = program
  BY DEF Step, allVars
<1>1. ASSUME program = "savereg" PROVE RegsInv'
  <2>1. RegsInv /\ (Regs!Next \/ UNCHANGED regs_vars)
    BY <1>1 DEF RoutinesInv, Step, allVars
  <2> QED
    BY <2>1, RegsStep, RegsStutter
<1>2. ASSUME program = "jni" PROVE JniInv'
  <2>1. JniInv /\ (Native!Next \/ UNCHANGED jni_vars)
    BY <1>2 DEF RoutinesInv, Step, allVars
  <2> QED
    BY <2>1, JniInvStep, JniStutter
<1>3. ASSUME program = "kvparser" PROVE KvInv'
  <2>1. KvInv /\ (Kv!Next \/ UNCHANGED kv_vars)
    BY <1>3 DEF RoutinesInv, Step, allVars
  <2> QED
    BY <2>1, KvStep, KvStutter
<1>4. ASSUME program = "kdb_ipc" PROVE IpcInv'
  <2>1. IpcInv /\ (Ipc!Next \/ UNCHANGED ipc_vars)
    BY <1>4 DEF RoutinesInv, Step, allVars
  <2> QED
    BY <2>1, IpcStep, IpcStutter
<1>5. ASSUME program = "relocs" PROVE RelInv'
  <2>1. RelInv /\ (Reloc!Next \/ UNCHANGED rel_vars)
    BY <1>5 DEF RoutinesInv, Step, allVars
  <2> QED
    BY <2>1, RelStep, RelStutter
<1>6. ASSUME program = "kdb.1" PROVE IInv'
  <2>1. IInv /\ (Next \/ UNCHANGED vars)
    BY <1>6 DEF RoutinesInv, Step, allVars
  <2> QED
    BY <2>1, StepIInv, KdbPmcStutter
<1>7. ASSUME program # "kdb.1" PROVE NoKdb'
  <2>1. NoKdb /\ UNCHANGED vars
    BY <1>7 DEF RoutinesInv, Step, allVars
  <2> QED
    BY <2>1, NoKdbStays
<1>8. ASSUME program = "pcap" PROVE CapInv'
  <2>1. CapInv /\ (Cap!Next \/ UNCHANGED cap_vars)
    BY <1>8 DEF RoutinesInv, Step, allVars
  <2> QED
    BY <2>1, CapStep, CapStutter
<1>9. ASSUME program = "blog" PROVE BlogInv'
  <2>1. BlogInv /\ (Blog!Next \/ UNCHANGED blog_vars)
    BY <1>9 DEF RoutinesInv, Step, allVars
  <2> QED
    BY <2>1, BlogStep, BlogStutter
<1> QED
  BY <1>0, <1>1, <1>2, <1>3, <1>4, <1>5, <1>6, <1>7, <1>8, <1>9 DEF RoutinesInv

LEMMA Invariance == Behaviour => []RoutinesInv
  BY StartInv, RoutinesStep, PTL DEF Behaviour

-----------------------------------------------------------------------------
(***************************************************************************)
(* Whatever the callbacks and signal handlers do, the code around the      *)
(* register-saving macros loses nothing, or only r12 to r15, and           *)
(* execute_baseline calls as often as it is told to, for every red zone of *)
(* at least 16 words, every argument and number of signals                 *)
(* (savereg.macro.s, baseline_asm.s).                                      *)
(***************************************************************************)
THEOREM CallbacksSurvived == Behaviour => []SurvivesCallbacks
<1>1. RoutinesInv => SurvivesCallbacks
  BY RegsSafe DEF RoutinesInv, SurvivesCallbacks
<1> QED
  BY Invariance, <1>1, PTL

(***************************************************************************)
(* Native methods that run in any number of threads at once use their own  *)
(* JNIEnv and receiver, and none fails in silence (HelloWorld.s,           *)
(* HelloArgs.s).                                                           *)
(***************************************************************************)
THEOREM NativeGreets == Behaviour => []GreetsOnceOrThrows
<1>1. RoutinesInv => GreetsOnceOrThrows
  BY JniSafe DEF RoutinesInv, GreetsOnceOrThrows
<1> QED
  BY Invariance, <1>1, PTL

(***************************************************************************)
(* findKeyLen finds the first separator of a text of any length, whatever  *)
(* lies behind it, and reads no chunk that has nothing of the text, for    *)
(* vectors of every size (kvparser.s).                                     *)
(***************************************************************************)
THEOREM KeyFound == Behaviour => []FindsKeyLength
<1>1. RoutinesInv => FindsKeyLength
  BY KvSafe DEF RoutinesInv, FindsKeyLength
<1> QED
  BY Invariance, <1>1, PTL

(***************************************************************************)
(* findKeyLen as above, and the readers of pcap.q: a capture of any number *)
(* of packets, cut off anywhere, is split at the starts of exactly its     *)
(* complete packets, the rows hold their own data, and the extensions of a *)
(* hello are found one by one (pcap.q).                                    *)
(***************************************************************************)
THEOREM PacketsCut == Behaviour => []SplitsItsInput
<1>1. RoutinesInv => SplitsItsInput
  BY KvSafe, CapSafe DEF RoutinesInv, FindsKeyLength, SplitsItsInput
<1> QED
  BY Invariance, <1>1, PTL

(***************************************************************************)
(* A row of the blog's measuring libraries is what lies between the        *)
(* callbacks of its own test, for vectors of every length and alignment,   *)
(* however many tests and calls; and q finds nothing counting and nothing  *)
(* held but what failed calls have left (libpmc.c, kdbbridge.c, the        *)
(* kernels).                                                               *)
(***************************************************************************)
THEOREM KernelsMeasured == Behaviour => []MeasuresItsTests
<1>1. RoutinesInv => MeasuresItsTests
  BY BlogSafe DEF RoutinesInv, MeasuresItsTests
<1> QED
  BY Invariance, <1>1, PTL

(***************************************************************************)
(* someRelocations of every library prints what it is meant to, at every   *)
(* load address, bound early or late and in every call; only the slot of   *)
(* sayHello is redirected, only by @pltoff, and it stays so                *)
(* (elf64/relocs.2).                                                       *)
(***************************************************************************)
THEOREM RelocationsRight == Behaviour => RelocationsHold
<1>1. RoutinesInv =>
        (program = "relocs" => Reloc!TypeOK /\ Reloc!PrintsExpected /\ Reloc!OnlyHelloRedirected)
  BY RelSafe DEF RoutinesInv
<1>2. RoutinesInv /\ [Step]_allVars => [program = "relocs" => Reloc!KeepsRedirection]_allVars
  <2> SUFFICES ASSUME RoutinesInv, Step, program = "relocs" PROVE Reloc!KeepsRedirection
    OBVIOUS
  <2>1. RelInv /\ Reloc!Next
    BY DEF RoutinesInv, Step
  <2>2. Redirected => rel_slots'[Reloc!SlotOf("sayHello")] \in LeadsTo("sayGoodbye")
    BY <2>1, RelStep
  <2>3. rel_base' = rel_base
    BY <2>1 DEF Reloc!Next, Reloc!Call, Reloc!LoadGot, Reloc!LoadGotPcRel, Reloc!LoadGotOff,
       Reloc!LoadGotPlt, Reloc!FindSlots, Reloc!Patch, Reloc!Puts, Reloc!SayThroughPlt,
       Reloc!SayIndirect, Reloc!Return, Reloc!Rest
  <2> QED
    BY <2>2, <2>3 DEF Redirected, LeadsTo, Reloc!KeepsRedirection
<1> QED
  BY Invariance, <1>1, <1>2, PTL DEF Behaviour, RelocationsHold

(***************************************************************************)
(* The dictionary, the copy and the match of compress are right, for every *)
(* message, every even size of the registers and every range of bytes; and *)
(* compress returns to its caller exactly if it did not begin to compress  *)
(* (kdb_ipc.s).                                                            *)
(***************************************************************************)
THEOREM CompressorCorrect == Behaviour => CompressorRight
<1>1. RoutinesInv =>
        (program = "kdb_ipc" => /\ Ipc!TypeOK /\ Ipc!DictIsLastPosition
                                /\ Ipc!DstIsCopy /\ Ipc!ReturnsUnlessCompressing)
  BY IpcSafe DEF RoutinesInv
<1>2. ASSUME RoutinesInv, [Step]_allVars
      PROVE  [ipc_pc = "compare" =>
                /\ \A n \in 0 .. ipc_rcx' - 1 : ipc_src[ipc_rcx + n] = ipc_src[ipc_r14 + n]
                /\ ipc_rcx' < Ipc!AtMost(Ipc!End - ipc_rcx) =>
                     ipc_src[ipc_rcx + ipc_rcx'] # ipc_src[ipc_r14 + ipc_rcx']]_ipc_vars
  <2>1. UNCHANGED ipc_vars \/ (program = "kdb_ipc" /\ Ipc!Next)
    BY <1>2 DEF Step, allVars
  <2>2. CASE program = "kdb_ipc" /\ Ipc!Next
    BY <1>2, <2>2, MatchStep DEF RoutinesInv
  <2> QED
    BY <2>1, <2>2
<1> QED
  BY Invariance, <1>1, <1>2, PTL DEF Behaviour, CompressorRight, Ipc!MatchIsLongest, Ipc!vars, ipc_vars

(***************************************************************************)
(* The types of the measuring library, whatever the numbers of counters,   *)
(* tests and calls.                                                        *)
(***************************************************************************)
THEOREM KdbPmcTypeOK == Behaviour => [](program = "kdb.1" => TypeOK)
<1>1. RoutinesInv => (program = "kdb.1" => TypeOK)
  BY DEF RoutinesInv, IInv
<1> QED
  BY Invariance, <1>1, PTL

(***************************************************************************)
(* The driver is always given a terminated script of the running call, and *)
(* the accumulators that are written belong to that call, too.             *)
(***************************************************************************)
THEOREM KdbPmcIoctls == Behaviour => []IoctlsValid
<1>1. IInv => IoctlsValid
  <2> SUFFICES ASSUME IInv PROVE IoctlsValid
    OBVIOUS
  <2> USE DEF IInv, Memory, InQ, Recorded, Opened, Tests
  <2>1. ASSUME NEW g \in Given, pc = g[1] PROVE fd /\ Lives(g[2]) /\ Executable(g[2])
    <3>1. pc \in Opened /\ g[2] \in Vector
      BY <2>1 DEF Given, Vector
    <3>2. len \in Nat
      BY KdbPmcAssumption DEF TypeOK
    <3>3. vec[g[2]] \in {record_reset, record_read, CfgScript}
      BY <3>1 DEF Vector
    <3>4. Executable(g[2])
      BY <3>1, <3>2, <3>3, ScriptsExecutable
    <3>5. Lives(g[2])
      BY <3>1 DEF Lives, Vector, Pointer
    <3> QED
      BY <3>1, <3>4, <3>5
  <2>2. pc \in {"reset", "baseline", "record"} => Lives("fixed") /\ Lives("pmc_read")
    BY DEF Lives, Vector, Pointer
  <2>3. pc = "closing" => Lives("pmc_cfg")
    BY DEF Lives
  <2> QED
    BY <2>1, <2>2, <2>3 DEF IoctlsValid
<1>2. NoKdb => IoctlsValid
  BY DEF NoKdb, Absent, IoctlsValid, Given
<1>3. RoutinesInv => IoctlsValid
  BY <1>1, <1>2 DEF RoutinesInv
<1> QED
  BY Invariance, <1>3, PTL

(***************************************************************************)
(* What runtest does not give back is what its two leaking returns leave.  *)
(***************************************************************************)
THEOREM KdbPmcLoses == Behaviour => []LosesOnlyAfterFailure
<1>1. IInv => LosesOnlyAfterFailure
  BY DEF IInv, TypeOK, Memory, Held, Clock, InQ, Recorded, Opened, Tests, LosesOnlyAfterFailure
<1>2. NoKdb => LosesOnlyAfterFailure
  BY DEF NoKdb, Absent, LosesOnlyAfterFailure
<1>3. RoutinesInv => LosesOnlyAfterFailure
  BY <1>1, <1>2 DEF RoutinesInv
<1> QED
  BY Invariance, <1>3, PTL

(***************************************************************************)
(* A row is the work of its test or a repetition, and krr knows of it.     *)
(***************************************************************************)
THEOREM KdbPmcRows == Behaviour => []RowsOfTheirTests
<1>1. IInv => RowsOfTheirTests
  BY DEF IInv, TypeOK, Rows, Errors, SomeMissed, RowsOfTheirTests
<1>2. NoKdb => RowsOfTheirTests
  BY DEF NoKdb, Absent, RowsOfTheirTests
<1>3. RoutinesInv => RowsOfTheirTests
  BY <1>1, <1>2 DEF RoutinesInv
<1> QED
  BY Invariance, <1>3, PTL
=============================================================================
