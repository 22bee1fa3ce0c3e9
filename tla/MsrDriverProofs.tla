-------------------------- MODULE MsrDriverProofs --------------------------
(***************************************************************************)
(* The safety of the driver for every number of clients, CPUs, counters    *)
(* and vectors: the inductive invariant Inv and what follows from it.      *)
(***************************************************************************)
EXTENDS MsrDriver, SequenceTheorems, WellFoundedInduction, TLAPS

(***************************************************************************)
(* An open descriptor pins the loaded driver, and only the owner of a      *)
(* descriptor is inside a call: what NoUnloadDuringCall rests on.          *)
(***************************************************************************)
Pinned ==
  /\ chrdev => loaded["msrdrv"]
  /\ \A p \in Client : open[p] => chrdev
  /\ \A p \in Client : incall[p] => open[p]

Inv ==
  /\ TypeOK
  /\ Pinned
  /\ ScriptsReusable
  /\ StaysInVector

\* Storing a result in a READ or RDTSC command keeps the script.
LEMMA StoreKeepsScript ==
  ASSUME NEW v \in Seq(Cmd), NEW w \in Seq(Cmd), SameScript(v, w),
         NEW k \in 1 .. Len(v), v[k].op \in {"READ", "RDTSC"}, NEW x \in Nat
  PROVE  /\ [v EXCEPT ![k].value = x] \in Seq(Cmd)
         /\ SameScript([v EXCEPT ![k].value = x], w)
<1> DEFINE c == [v[k] EXCEPT !.value = x]
           u == [v EXCEPT ![k].value = x]
<1>1. v[k] \in Cmd
  OBVIOUS
<1>2. c \in Cmd /\ c.op = v[k].op /\ c.ecx = v[k].ecx
  BY <1>1 DEF Cmd
<1>3. u = [v EXCEPT ![k] = c]
  OBVIOUS
<1>4. /\ u \in Seq(Cmd) /\ Len(u) = Len(v)
      /\ \A j \in 1 .. Len(v) : u[j] = IF j = k THEN c ELSE v[j]
  BY <1>2, <1>3, ExceptSeq
<1>5. SameScript(u, w)
  BY <1>2, <1>4 DEF SameScript
<1> QED BY <1>4, <1>5

-----------------------------------------------------------------------------
(***************************************************************************)
(* What the loop of msrdrv_ioctl may rely on at a command: its position is *)
(* inside the vector, because the vector ends somewhere ahead.             *)
(***************************************************************************)
LEMMA CommandInVector ==
  ASSUME Inv, NEW p \in Client, incall[p], idx[p] <= VecLimit
  PROVE  /\ mem[p][cur[p]] \in Seq(Cmd)
         /\ idx[p] + 1 \in 1 .. Len(mem[p][cur[p]])
         /\ Current(p) \in Cmd
<1>1. mem[p][cur[p]] \in Seq(Cmd) /\ cur[p] \in Buf /\ idx[p] \in Nat
  BY DEF Inv, TypeOK
<1>2. idx[p] + 1 \in 1 .. Len(mem[p][cur[p]])
  BY <1>1 DEF Inv, StaysInVector
<1> QED BY <1>1, <1>2 DEF Current

\* A script that has not ended yet goes on inside the vector.
LEMMA TerminatedAhead ==
  ASSUME NEW w \in Seq(Cmd), Terminated(w),
         NEW k \in Nat, k <= VecLimit,
         \A j \in 1 .. k : j <= Len(w) => w[j].op \notin {"STOP", "BAD"}
  PROVE  k < Len(w)
<1>1. CASE Len(w) > VecLimit
  BY <1>1, CountAssumption
<1>2. CASE \E j \in 1 .. Len(w) : j <= VecLimit + 1 /\ w[j].op \in {"STOP", "BAD"}
  <2>1. PICK j \in 1 .. Len(w) : w[j].op \in {"STOP", "BAD"}
    BY <1>2
  <2>2. j > k
    BY <2>1
  <2> QED BY <2>2
<1> QED BY <1>1, <1>2 DEF Terminated

(***************************************************************************)
(* An iteration of the loop that goes on to the next command: whatever it  *)
(* stores, the scripts are kept and the loop stays in its vector.          *)
(***************************************************************************)
LEMMA AdvanceStep ==
  ASSUME Inv, NEW p \in Client, incall[p], idx[p] <= VecLimit,
         Current(p).op \notin {"STOP", "BAD"}, Advance(p),
         mem' \in [Client -> [Buf -> Seq(Cmd)]],
         \A q \in Client, b \in Buf : SameScript(mem'[q][b], given[q][b]),
         UNCHANGED <<given, incall, cur>>
  PROVE  idx' \in [Client -> Nat] /\ ScriptsReusable' /\ StaysInVector'
<1>1. idx' = [idx EXCEPT ![p] = idx[p] + 1] /\ idx' \in [Client -> Nat]
  BY DEF Advance, Inv, TypeOK
<1>2. ScriptsReusable'
  BY DEF ScriptsReusable
<1>3. ASSUME NEW q \in Client, incall[q]
      PROVE  /\ idx'[q] <= VecLimit + 1 /\ idx'[q] <= Len(mem'[q][cur[q]])
             /\ idx'[q] <= VecLimit => idx'[q] < Len(mem'[q][cur[q]])
             /\ \A j \in 1 .. idx'[q] :
                  mem'[q][cur[q]][j].op \notin {"STOP", "BAD"}
  <2> DEFINE v == mem[q][cur[q]]
             u == mem'[q][cur[q]]
             w == given[q][cur[q]]
  <2>1. /\ cur[q] \in Buf /\ idx[q] \in Nat
        /\ v \in Seq(Cmd) /\ u \in Seq(Cmd)
        /\ w \in Seq(Cmd) /\ Terminated(w)
    BY <1>3, VectorAssumption DEF Inv, TypeOK
  <2>2. SameScript(v, w) /\ SameScript(u, w)
    BY <1>3, <2>1 DEF Inv, ScriptsReusable
  <2>3. /\ Len(u) = Len(w) /\ Len(v) = Len(w)
        /\ \A j \in 1 .. Len(w) : u[j].op = w[j].op /\ v[j].op = w[j].op
    BY <2>2, <2>1 DEF SameScript
  <2>4. \A j \in 1 .. idx[q] : v[j].op \notin {"STOP", "BAD"}
    BY <1>3 DEF Inv, StaysInVector
  <2>5. idx[q] <= VecLimit => idx[q] < Len(w)
    BY <1>3, <2>3 DEF Inv, StaysInVector
  <2>6. idx[q] <= VecLimit + 1 /\ idx[q] <= Len(v)
    BY <1>3 DEF Inv, StaysInVector
  <2> HIDE DEF u, v, w
  <2>7. CASE q = p
    <3>1. idx'[q] = idx[q] + 1 /\ idx[q] <= VecLimit
      BY <1>1, <2>7 DEF Inv, TypeOK
    <3>2. v[idx[q] + 1].op \notin {"STOP", "BAD"}
      BY <2>7 DEF Current, v
    <3>3. \A j \in 1 .. idx[q] + 1 : w[j].op \notin {"STOP", "BAD"}
      BY <2>1, <2>3, <2>4, <2>5, <3>1, <3>2, CountAssumption
    <3>4. \A j \in 1 .. idx[q] + 1 : u[j].op \notin {"STOP", "BAD"}
      <4> TAKE j \in 1 .. idx[q] + 1
      <4>1. j \in 1 .. Len(w)
        BY <2>1, <2>5, <3>1
      <4> QED BY <2>3, <3>3, <4>1
    <3>5. idx[q] + 1 <= VecLimit => idx[q] + 1 < Len(w)
      <4>1. \A j \in 1 .. idx[q] + 1 : j <= Len(w) => w[j].op \notin {"STOP", "BAD"}
        BY <3>3
      <4>2. idx[q] + 1 \in Nat
        BY <2>1
      <4> QED BY <2>1, <4>1, <4>2, TerminatedAhead
    <3> QED BY <2>1, <2>3, <2>5, <3>1, <3>4, <3>5, CountAssumption DEF u
  <2>8. CASE q # p
    <3>1. idx'[q] = idx[q]
      BY <1>1, <2>8 DEF Inv, TypeOK
    <3>2. \A j \in 1 .. idx[q] : u[j].op \notin {"STOP", "BAD"}
      <4> TAKE j \in 1 .. idx[q]
      <4>1. j \in 1 .. Len(w)
        BY <2>1, <2>3, <2>6
      <4> QED BY <2>3, <2>4, <4>1
    <3> QED BY <2>3, <2>5, <2>6, <3>1, <3>2 DEF u
  <2> QED BY <2>7, <2>8
<1> QED BY <1>1, <1>2, <1>3 DEF StaysInVector

\* READ and RDTSC: the result is stored and the loop goes on.
LEMMA StoreStep ==
  ASSUME Inv, NEW p \in Client, incall[p], idx[p] <= VecLimit,
         Current(p).op \in {"READ", "RDTSC"}, NEW x \in Nat,
         Store(p, x), Advance(p),
         UNCHANGED <<device, msr, tsc, client, given, incall, cur, ret>>
  PROVE  Inv'
<1> DEFINE b == cur[p]
           v == mem[p][b]
           k == idx[p] + 1
           u == [v EXCEPT ![k].value = x]
<1>1. /\ v \in Seq(Cmd) /\ k \in 1 .. Len(v) /\ b \in Buf
      /\ v[k].op \in {"READ", "RDTSC"}
  BY CommandInVector DEF Current, Inv, TypeOK
<1>2. SameScript(v, given[p][b])
  BY <1>1 DEF Inv, ScriptsReusable
<1>3. given[p][b] \in Seq(Cmd)
  BY <1>1, VectorAssumption DEF Inv, TypeOK
<1>4. u \in Seq(Cmd) /\ SameScript(u, given[p][b])
  BY <1>1, <1>2, <1>3, StoreKeepsScript
<1>5. mem' = [mem EXCEPT ![p] = [mem[p] EXCEPT ![b] = u]]
  BY DEF Store
<1>6. mem' \in [Client -> [Buf -> Seq(Cmd)]]
  BY <1>1, <1>4, <1>5 DEF Inv, TypeOK
<1>7. \A q \in Client, a \in Buf :
        mem'[q][a] = IF q = p /\ a = b THEN u ELSE mem[q][a]
  BY <1>1, <1>5 DEF Inv, TypeOK
<1>8. \A q \in Client, a \in Buf : SameScript(mem'[q][a], given[q][a])
  BY <1>4, <1>7 DEF Inv, ScriptsReusable
<1>9. idx' \in [Client -> Nat] /\ ScriptsReusable' /\ StaysInVector'
  BY <1>6, <1>8, AdvanceStep
<1>10. TypeOK' /\ Pinned'
  BY <1>6, <1>9 DEF Inv, TypeOK, Pinned, device, client
<1> QED BY <1>9, <1>10 DEF Inv

\* NOP and WRITE leave the memory of every client alone.
LEMMA KeepStep ==
  ASSUME Inv, NEW p \in Client, incall[p], idx[p] <= VecLimit,
         Current(p).op \in {"NOP", "WRITE"}, Advance(p),
         msr' \in [Cpu -> [Reg -> Nat]],
         UNCHANGED <<device, tsc, client, memory, incall, cur, ret>>
  PROVE  Inv'
<1>1. /\ mem' \in [Client -> [Buf -> Seq(Cmd)]]
      /\ \A q \in Client, b \in Buf : SameScript(mem'[q][b], given[q][b])
  BY DEF Inv, TypeOK, ScriptsReusable, memory
<1>2. idx' \in [Client -> Nat] /\ ScriptsReusable' /\ StaysInVector'
  BY <1>1, AdvanceStep DEF memory
<1>3. TypeOK' /\ Pinned'
  BY <1>2 DEF Inv, TypeOK, Pinned, device, client, memory
<1> QED BY <1>2, <1>3 DEF Inv

-----------------------------------------------------------------------------
\* The loop starts at the first command, and a vector has one.
LEMMA EnterInVector ==
  ASSUME Inv, NEW p \in Client, NEW b \in Buf, IoctlEnter(p, b)
  PROVE  StaysInVector'
<1> SUFFICES ASSUME NEW q \in Client, incall'[q]
             PROVE  /\ idx'[q] <= VecLimit + 1 /\ idx'[q] <= Len(mem[q][cur'[q]])
                    /\ idx'[q] <= VecLimit => idx'[q] < Len(mem[q][cur'[q]])
                    /\ \A j \in 1 .. idx'[q] :
                         mem[q][cur'[q]][j].op \notin {"STOP", "BAD"}
  BY DEF StaysInVector, IoctlEnter, memory
<1>1. CASE q = p
  <2>1. idx'[q] = 0 /\ cur'[q] = b
    BY <1>1 DEF IoctlEnter, Inv, TypeOK
  <2>2. mem[q][b] \in Seq(Cmd) /\ SameScript(mem[q][b], given[q][b])
    BY DEF Inv, TypeOK, ScriptsReusable
  <2>3. given[q][b] \in Seq(Cmd) /\ Terminated(given[q][b])
    BY VectorAssumption DEF Inv, TypeOK
  <2>4. 0 < Len(given[q][b])
    BY <2>3, TerminatedAhead, CountAssumption
  <2>5. Len(mem[q][b]) = Len(given[q][b])
    BY <2>2 DEF SameScript
  <2> QED BY <2>1, <2>2, <2>4, <2>5, CountAssumption
<1>2. CASE q # p
  <2>1. idx'[q] = idx[q] /\ cur'[q] = cur[q] /\ incall[q]
    BY <1>2 DEF IoctlEnter, Inv, TypeOK
  <2> QED BY <2>1 DEF Inv, StaysInVector
<1> QED BY <1>1, <1>2

LEMMA InitInv == Init => Inv
<1> SUFFICES ASSUME Init PROVE Inv
  OBVIOUS
<1>1. Vectors \subseteq Seq(Cmd)
  BY VectorAssumption
<1>2. TypeOK
  BY <1>1, CountAssumption DEF Init, TypeOK
<1>3. Pinned
  BY DEF Init, Pinned
<1>4. ScriptsReusable
  BY DEF Init, ScriptsReusable, SameScript
<1>5. StaysInVector
  BY DEF Init, StaysInVector
<1> QED BY <1>2, <1>3, <1>4, <1>5 DEF Inv

\* Steps that neither run the interpreter nor touch the memory of a client.
LEMMA OutsideStep ==
  ASSUME Inv, UNCHANGED <<memory, incall, cur, idx>>, TypeOK', Pinned'
  PROVE  Inv'
BY DEF Inv, ScriptsReusable, StaysInVector, memory

\* Every step keeps the invariant, whatever the other clients are doing.
LEMMA NextInv == Inv /\ [Next]_vars => Inv'
<1> SUFFICES ASSUME Inv, [Next]_vars PROVE Inv'
  OBVIOUS
<1> USE CountAssumption
<1>1. ASSUME NEW m \in Module, NEW c \in Cpu, InsertModule(m, c) PROVE Inv'
  <2>1. TypeOK'
    BY <1>1 DEF Inv, TypeOK, InsertModule, client, memory, call
  <2>2. Pinned'
    BY <1>1 DEF Inv, TypeOK, Pinned, InsertModule, client, call, Module
  <2> QED BY <1>1, <2>1, <2>2, OutsideStep DEF InsertModule, call
<1>2. ASSUME NEW m \in Module, NEW c \in Cpu, RemoveModule(m, c) PROVE Inv'
  <2>1. TypeOK'
    BY <1>2 DEF Inv, TypeOK, RemoveModule, client, memory, call
  <2>2. Pinned'
    BY <1>2 DEF Inv, TypeOK, Pinned, RemoveModule, client, call, Module
  <2> QED BY <1>2, <2>1, <2>2, OutsideStep DEF RemoveModule, call
<1>3. ASSUME NEW p \in Client, Open(p) PROVE Inv'
  <2>1. TypeOK' /\ Pinned'
    BY <1>3 DEF Inv, TypeOK, Pinned, Open, device, memory, call
  <2> QED BY <1>3, <2>1, OutsideStep DEF Open, call
<1>4. ASSUME NEW p \in Client, Close(p) PROVE Inv'
  <2>1. TypeOK' /\ Pinned'
    BY <1>4 DEF Inv, TypeOK, Pinned, Close, device, memory, call
  <2> QED BY <1>4, <2>1, OutsideStep DEF Close, call
<1>5. ASSUME NEW p \in Client, IoctlOther(p) PROVE Inv'
  <2>1. TypeOK' /\ Pinned'
    BY <1>5 DEF Inv, TypeOK, Pinned, IoctlOther, device, client, memory
  <2> QED BY <1>5, <2>1, OutsideStep DEF IoctlOther
<1>6. ASSUME NEW p \in Client, NEW b \in Buf, IoctlEnter(p, b) PROVE Inv'
  <2>1. TypeOK' /\ Pinned'
    BY <1>6 DEF Inv, TypeOK, Pinned, IoctlEnter, device, client, memory
  <2>2. ScriptsReusable'
    BY <1>6 DEF Inv, ScriptsReusable, IoctlEnter, memory
  <2>3. StaysInVector'
    BY <1>6, EnterInVector
  <2> QED BY <2>1, <2>2, <2>3 DEF Inv
<1>7. ASSUME NEW p \in Client, NEW b \in Buf, NEW v \in Vectors, Build(p, b, v)
      PROVE  Inv'
  <2>1. v \in Seq(Cmd)
    BY VectorAssumption
  <2>2. TypeOK' /\ Pinned'
    BY <1>7, <2>1 DEF Inv, TypeOK, Pinned, Build, device, client, call
  <2>3. \A q \in Client, a \in Buf :
           /\ mem'[q][a] = IF q = p /\ a = b THEN v ELSE mem[q][a]
           /\ given'[q][a] = IF q = p /\ a = b THEN v ELSE given[q][a]
    BY <1>7 DEF Inv, TypeOK, Build
  <2>4. ScriptsReusable'
    <3> SUFFICES ASSUME NEW q \in Client, NEW a \in Buf
                 PROVE  SameScript(mem'[q][a], given'[q][a])
      BY DEF ScriptsReusable
    <3>1. CASE q = p /\ a = b
      BY <2>3, <3>1 DEF SameScript
    <3>2. CASE ~ (q = p /\ a = b)
      BY <2>3, <3>2 DEF Inv, ScriptsReusable
    <3> QED BY <3>1, <3>2
  <2>5. StaysInVector'
    BY <1>7, <2>3 DEF Inv, TypeOK, StaysInVector, Build, call
  <2> QED BY <2>2, <2>4, <2>5 DEF Inv
<1>8. ASSUME NEW p \in Client, IoctlStep(p) PROVE Inv'
  <2>1. CASE Nop(p)
    BY <2>1, KeepStep DEF Nop, At, Inv, TypeOK
  <2>2. CASE WriteMsr(p)
    <3> DEFINE r == Current(p).ecx
               x == IF r \in Counter THEN Current(p).value % CounterSize
                                     ELSE Current(p).value
    <3>1. Current(p) \in Cmd
      BY <2>2, CommandInVector DEF WriteMsr, At
    <3>2. r \in Reg /\ x \in Nat
      BY <3>1 DEF Cmd
    <3>3. cpu[p] \in Cpu /\ msr' = [msr EXCEPT ![cpu[p]] = [msr[cpu[p]] EXCEPT ![r] = x]]
      BY <2>2 DEF WriteMsr, Inv, TypeOK
    <3>4. msr' \in [Cpu -> [Reg -> Nat]]
      BY <3>2, <3>3 DEF Inv, TypeOK
    <3> QED BY <2>2, <3>4, KeepStep DEF WriteMsr, At
  <2>3. CASE ReadMsr(p)
    <3>1. Current(p).ecx \in Reg /\ cpu[p] \in Cpu
      BY <2>3, CommandInVector DEF ReadMsr, At, Cmd, Inv, TypeOK
    <3>2. msr[cpu[p]][Current(p).ecx] \in Nat
      BY <3>1 DEF Inv, TypeOK
    <3> QED BY <2>3, <3>2, StoreStep DEF ReadMsr, At
  <2>4. CASE ReadTsc(p)
    <3>1. tsc \in Nat
      BY DEF Inv, TypeOK
    <3> QED BY <2>4, <3>1, StoreStep DEF ReadTsc, At
  <2>5. ASSUME NEW x \in {0, 1}, Return(p, x),
               UNCHANGED <<device, msr, tsc, client, memory, cur>>
        PROVE  Inv'
    <3>1. TypeOK' /\ Pinned'
      BY <2>5 DEF Inv, TypeOK, Pinned, Return, device, client, memory
    <3>2. ScriptsReusable'
      BY <2>5 DEF Inv, ScriptsReusable, memory
    <3>3. StaysInVector'
      BY <2>5 DEF Inv, TypeOK, StaysInVector, Return, memory
    <3> QED BY <3>1, <3>2, <3>3 DEF Inv
  <2>6. CASE Stop(p)
    BY <2>5, <2>6 DEF Stop
  <2>7. CASE UnknownOp(p)
    BY <2>5, <2>7 DEF UnknownOp
  <2>8. CASE LimitReached(p)
    BY <2>5, <2>8 DEF LimitReached
  <2> QED BY <1>8, <2>1, <2>2, <2>3, <2>4, <2>6, <2>7, <2>8 DEF IoctlStep
<1>9. ASSUME NEW c \in Cpu, Tick(c) PROVE Inv'
  <2>1. \A r \in Reg : msr[c][r] \in Nat /\ (msr[c][r] + 1) % CounterSize \in Nat
    BY DEF Inv, TypeOK
  <2>2. msr' \in [Cpu -> [Reg -> Nat]] /\ tsc' \in Nat
    BY <1>9, <2>1 DEF Inv, TypeOK, Tick
  <2>3. TypeOK' /\ Pinned'
    BY <1>9, <2>2 DEF Inv, TypeOK, Pinned, Tick, device, client, memory, call
  <2> QED BY <1>9, <2>3, OutsideStep DEF Tick, call
<1>10. ASSUME NEW p \in Client, NEW c \in Cpu, Migrate(p, c) PROVE Inv'
  <2>1. TypeOK' /\ Pinned'
    BY <1>10 DEF Inv, TypeOK, Pinned, Migrate, device, memory, call
  <2> QED BY <1>10, <2>1, OutsideStep DEF Migrate, call
<1>11. CASE UNCHANGED vars
  BY <1>11 DEF vars, Inv, TypeOK, Pinned, ScriptsReusable, StaysInVector
<1> QED
  BY <1>1, <1>2, <1>3, <1>4, <1>5, <1>6, <1>7, <1>8, <1>9, <1>10, <1>11 DEF Next

(***************************************************************************)
(* The inductive invariant holds in every state.                           *)
(***************************************************************************)
LEMMA InvHolds == Spec => []Inv
BY InitInv, NextInv, PTL DEF Spec

(***************************************************************************)
(* Every variable of the driver keeps its type in every behaviour.         *)
(***************************************************************************)
THEOREM DriverTypeOK == Spec => []TypeOK
<1>1. Inv => TypeOK
  BY DEF Inv
<1> QED BY <1>1, InvHolds, PTL

(***************************************************************************)
(* The vectors of libpmc.c and of the test programs may be passed to       *)
(* msrdrv_ioctl any number of times: they stay the scripts that were built.*)
(***************************************************************************)
THEOREM DriverScriptsReusable == Spec => []ScriptsReusable
<1>1. Inv => ScriptsReusable
  BY DEF Inv
<1> QED BY <1>1, InvHolds, PTL

(***************************************************************************)
(* rmmod never removes the driver under a running msrdrv_ioctl.            *)
(***************************************************************************)
THEOREM DriverStaysLoaded == Spec => []NoUnloadDuringCall
<1>1. Inv => NoUnloadDuringCall
  BY DEF Inv, Pinned, NoUnloadDuringCall
<1> QED BY <1>1, InvHolds, PTL

(***************************************************************************)
(* msrdrv_ioctl reads no command outside the vector of its caller, for     *)
(* every MSR_VEC_LIMIT and every vector that ends.                         *)
(***************************************************************************)
THEOREM DriverStaysInVector == Spec => []StaysInVector
<1>1. Inv => StaysInVector
  BY DEF Inv
<1> QED BY <1>1, InvHolds, PTL

-----------------------------------------------------------------------------
(***************************************************************************)
(* When the loop of p stops, the commands before idx[p] are the commands   *)
(* of the script p wrote, and none of them ends it.                        *)
(***************************************************************************)
LEMMA GivenPrefix ==
  ASSUME Inv, NEW p \in Client, incall[p]
  PROVE  /\ idx[p] \in Nat /\ idx[p] <= VecLimit + 1
         /\ idx[p] <= Len(given[p][cur[p]])
         /\ idx[p] <= VecLimit =>
              /\ idx[p] < Len(given[p][cur[p]])
              /\ given[p][cur[p]][idx[p] + 1].op = Current(p).op
         /\ \A j \in 1 .. idx[p] : given[p][cur[p]][j].op \notin {"STOP", "BAD"}
<1> DEFINE v == mem[p][cur[p]]
           w == given[p][cur[p]]
<1>1. cur[p] \in Buf /\ idx[p] \in Nat /\ v \in Seq(Cmd) /\ w \in Seq(Cmd)
  BY VectorAssumption DEF Inv, TypeOK
<1>2. Len(v) = Len(w) /\ \A j \in 1 .. Len(v) : v[j].op = w[j].op
  BY <1>1 DEF Inv, ScriptsReusable, SameScript
<1>3. /\ idx[p] <= VecLimit + 1 /\ idx[p] <= Len(v)
      /\ idx[p] <= VecLimit => idx[p] < Len(v)
      /\ \A j \in 1 .. idx[p] : v[j].op \notin {"STOP", "BAD"}
  BY DEF Inv, StaysInVector
<1>4. Current(p) = v[idx[p] + 1]
  BY DEF Current
<1> HIDE DEF v, w
<1>5. \A j \in 1 .. idx[p] : w[j].op \notin {"STOP", "BAD"}
  <2> TAKE j \in 1 .. idx[p]
  <2>1. j \in 1 .. Len(v)
    BY <1>1, <1>3
  <2> QED BY <1>2, <1>3, <2>1
<1>6. idx[p] <= VecLimit => w[idx[p] + 1].op = v[idx[p] + 1].op
  BY <1>1, <1>2, <1>3
<1> QED BY <1>1, <1>2, <1>3, <1>4, <1>5, <1>6 DEF w

\* The answer of a script whose first ending command is found at position n.
LEMMA AnswerAt ==
  ASSUME NEW w \in Seq(Cmd), NEW n \in 1 .. Len(w), n <= VecLimit + 1,
         w[n].op \in {"STOP", "BAD"},
         \A j \in 1 .. n - 1 : w[j].op \notin {"STOP", "BAD"}
  PROVE  Answer(w) = IF w[n].op = "BAD" THEN 1 ELSE 0
<1>1. n \in Ends(w) /\ \A j \in Ends(w) : n <= j
  BY CountAssumption DEF Ends
<1>2. \A j \in Ends(w) : (\A k \in Ends(w) : j <= k) => j = n
  BY <1>1 DEF Ends
<1>3. (\E j \in Ends(w) : w[j].op = "BAD" /\ \A k \in Ends(w) : j <= k)
        <=> w[n].op = "BAD"
  BY <1>1, <1>2
<1> QED BY <1>3 DEF Answer

\* Only the three ways out of the loop end a call.
LEMMA OnlyReturns ==
  ASSUME Inv, [Next]_vars, NEW p \in Client, incall[p], ~ incall'[p]
  PROVE  Stop(p) \/ UnknownOp(p) \/ LimitReached(p)
<1>1. ASSUME NEW q \in Client, IoctlStep(q) PROVE q = p
  BY <1>1 DEF Inv, TypeOK, IoctlStep, Nop, ReadMsr, WriteMsr, ReadTsc, Stop,
              UnknownOp, LimitReached, Return
<1>2. \E q \in Client : IoctlStep(q)
  BY DEF Inv, TypeOK, Next, vars, call, InsertModule, RemoveModule, Open, Close,
         IoctlEnter, IoctlOther, Build, Tick, Migrate
<1>3. IoctlStep(p)
  BY <1>1, <1>2
<1> QED BY <1>3 DEF IoctlStep, Nop, ReadMsr, WriteMsr, ReadTsc

(***************************************************************************)
(* The return value of msrdrv_ioctl tells a STOP from an unknown operation *)
(* and nothing else, whatever happened to the MSRs in between.             *)
(***************************************************************************)
THEOREM DriverAnswers == Spec => AnswersByVector
<1> DEFINE A == \A p \in Client :
                  incall[p] /\ ~ incall'[p] => ret'[p] = Answer(given[p][cur[p]])
<1>1. ASSUME Inv, [Next]_vars PROVE A
  <2> SUFFICES ASSUME NEW p \in Client, incall[p], ~ incall'[p]
               PROVE  ret'[p] = Answer(given[p][cur[p]])
    OBVIOUS
  <2> DEFINE w == given[p][cur[p]]
             n == idx[p] + 1
  <2>1. w \in Seq(Cmd)
    BY <1>1, VectorAssumption DEF Inv, TypeOK
  <2>2. Stop(p) \/ UnknownOp(p) \/ LimitReached(p)
    BY <1>1, OnlyReturns
  <2>3. ret[p] \in {0, 1} /\ \A x : Return(p, x) => ret'[p] = x
    BY <1>1 DEF Inv, TypeOK, Return
  <2>4. ASSUME NEW o \in {"STOP", "BAD"}, At(p, o)
        PROVE  Answer(w) = IF o = "BAD" THEN 1 ELSE 0
    <3>1. n \in 1 .. Len(w) /\ n <= VecLimit + 1 /\ w[n].op = o
      BY <1>1, <2>4, GivenPrefix, CountAssumption, <2>1 DEF At
    <3>2. \A j \in 1 .. n - 1 : w[j].op \notin {"STOP", "BAD"}
      BY <1>1, GivenPrefix
    <3> QED BY <2>1, <3>1, <3>2, AnswerAt
  <2>5. CASE Stop(p)
    BY <2>3, <2>4, <2>5 DEF Stop
  <2>6. CASE UnknownOp(p)
    BY <2>3, <2>4, <2>6 DEF UnknownOp
  <2>7. CASE LimitReached(p)
    <3>1. idx[p] = VecLimit + 1
      BY <1>1, <2>7, GivenPrefix, CountAssumption DEF LimitReached
    <3>2. Ends(w) = {}
      BY <1>1, <3>1, GivenPrefix DEF Ends
    <3> QED BY <2>3, <2>7, <3>2 DEF LimitReached, Answer
  <2> QED BY <2>2, <2>5, <2>6, <2>7
<1> QED BY <1>1, InvHolds, PTL DEF Spec, AnswersByVector

-----------------------------------------------------------------------------
\* The commands a call has executed are commands of its vector.
LEMMA ExecutedCommand ==
  ASSUME Inv, NEW p \in Client, incall[p], NEW j \in 1 .. idx[p]
  PROVE  mem[p][cur[p]][j].value \in Nat
<1>1. /\ mem[p][cur[p]] \in Seq(Cmd) /\ idx[p] \in Nat
      /\ idx[p] <= Len(mem[p][cur[p]])
  BY DEF Inv, TypeOK, StaysInVector
<1>2. mem[p][cur[p]][j] \in Cmd
  BY <1>1
<1> QED BY <1>2 DEF Cmd

\* The result a call just stored is the only change to its vector.
LEMMA StoreValue ==
  ASSUME Inv, NEW p \in Client, incall[p], idx[p] <= VecLimit,
         NEW x \in Nat, Store(p, x)
  PROVE  \A q \in Client : \A j \in 1 .. Len(mem[q][cur[q]]) :
           /\ mem'[q][cur[q]][j].op = mem[q][cur[q]][j].op
           /\ mem'[q][cur[q]][j].value =
                IF q = p /\ j = idx[p] + 1 THEN x ELSE mem[q][cur[q]][j].value
<1> TAKE q \in Client
<1> DEFINE v == mem[q][cur[q]]
           k == idx[p] + 1
<1>1. cur[q] \in Buf /\ v \in Seq(Cmd)
  BY DEF Inv, TypeOK
<1>2. CASE q = p
  <2>1. mem'[q][cur[q]] = [v EXCEPT ![k].value = x]
    BY <1>1, <1>2 DEF Store, Inv, TypeOK
  <2>2. k \in 1 .. Len(v)
    BY <1>2, CommandInVector
  <2> HIDE DEF v, k
  <2>3. ASSUME NEW j \in 1 .. Len(v)
        PROVE  /\ [v EXCEPT ![k].value = x][j].op = v[j].op
               /\ [v EXCEPT ![k].value = x][j].value = IF j = k THEN x ELSE v[j].value
    <3>1. v[j] \in Cmd /\ v[k] \in Cmd
      BY <1>1, <2>2, <2>3
    <3> QED BY <1>1, <2>2, <2>3, <3>1 DEF Cmd
  <2> QED BY <1>2, <2>1, <2>3 DEF v, k
<1>3. CASE q # p
  BY <1>1, <1>3 DEF Store, Inv, TypeOK
<1> QED BY <1>2, <1>3

(***************************************************************************)
(* Differences of time stamps read by one script are never negative, on    *)
(* whichever CPUs the script ran.                                          *)
(***************************************************************************)
THEOREM DriverTscOrdered == Spec => []TscOrdered
<1>1. Init => TscOrdered
  BY DEF Init, TscOrdered
<1>2. ASSUME Inv, TscOrdered, [Next]_vars PROVE TscOrdered'
  <2> SUFFICES ASSUME NEW q \in Client, incall'[q],
                      NEW j \in 1 .. idx'[q], NEW k \in 1 .. idx'[q], j <= k,
                      mem'[q][cur'[q]][j].op = "RDTSC", mem'[q][cur'[q]][k].op = "RDTSC"
               PROVE  /\ mem'[q][cur'[q]][j].value <= mem'[q][cur'[q]][k].value
                      /\ mem'[q][cur'[q]][k].value <= tsc'
    BY DEF TscOrdered
  <2> DEFINE v == mem[q][cur[q]]
  <2>1. ASSUME incall[q], cur'[q] = cur[q], idx'[q] = idx[q],
               mem'[q][cur[q]] = v, tsc' \in Nat, tsc <= tsc'
        PROVE  mem'[q][cur'[q]][j].value <= mem'[q][cur'[q]][k].value
               /\ mem'[q][cur'[q]][k].value <= tsc'
    <3>1. j \in 1 .. idx[q] /\ k \in 1 .. idx[q]
      BY <2>1
    <3>2. v[j].value <= v[k].value /\ v[k].value <= tsc
      BY <1>2, <2>1, <3>1 DEF TscOrdered
    <3>3. v[k].value \in Nat /\ tsc \in Nat
      BY <1>2, <2>1, <3>1, ExecutedCommand DEF Inv, TypeOK
    <3> QED BY <2>1, <3>2, <3>3
  <2>2. ASSUME NEW p \in Client, incall[p], idx[p] <= VecLimit, Advance(p),
               UNCHANGED <<incall, cur, tsc>>,
               \/ mem' = mem /\ Current(p).op # "RDTSC"
               \/ \E x \in Nat : /\ Store(p, x)
                                 /\ Current(p).op = "RDTSC" => x = tsc
        PROVE  mem'[q][cur'[q]][j].value <= mem'[q][cur'[q]][k].value
               /\ mem'[q][cur'[q]][k].value <= tsc'
    <3>1. incall[q] /\ cur'[q] = cur[q] /\ tsc \in Nat /\ idx[q] \in Nat
      BY <1>2, <2>2 DEF Inv, TypeOK
    <3>2. idx'[q] = IF q = p THEN idx[p] + 1 ELSE idx[q]
      BY <1>2, <2>2 DEF Advance, Inv, TypeOK
    <3>3. v \in Seq(Cmd) /\ idx[q] <= Len(v)
      BY <1>2, <3>1 DEF Inv, TypeOK, StaysInVector
    <3>4. q = p => idx[q] + 1 <= Len(v)
      BY <1>2, <2>2, CommandInVector
    <3>5. idx'[q] <= Len(v)
      BY <3>2, <3>3, <3>4
    <3>6. PICK x \in Nat :
            \A i \in 1 .. Len(v) :
              /\ mem'[q][cur[q]][i].op = v[i].op
              /\ mem'[q][cur[q]][i].value =
                   IF q = p /\ i = idx[p] + 1 /\ v[i].op = "RDTSC" THEN tsc
                   ELSE IF q = p /\ i = idx[p] + 1 THEN x
                   ELSE v[i].value
      <4>1. CASE mem' = mem /\ Current(p).op # "RDTSC"
        <5>1. \A i \in 1 .. Len(v) : v[i] \in Cmd
          BY <3>3
        <5>2. q = p => v[idx[p] + 1] = Current(p)
          BY DEF Current
        <5>3. \E x \in Nat : q = p => x = v[idx[p] + 1].value
          BY <1>2, <2>2, <5>2, CommandInVector DEF Cmd
        <5> QED BY <4>1, <5>2, <5>3
      <4>2. CASE \E x \in Nat : Store(p, x) /\ (Current(p).op = "RDTSC" => x = tsc)
        <5>1. PICK x \in Nat : Store(p, x) /\ (Current(p).op = "RDTSC" => x = tsc)
          BY <4>2
        <5>2. \A i \in 1 .. Len(v) :
                /\ mem'[q][cur[q]][i].op = v[i].op
                /\ mem'[q][cur[q]][i].value =
                     IF q = p /\ i = idx[p] + 1 THEN x ELSE v[i].value
          <6>1. incall[p] /\ idx[p] <= VecLimit /\ Store(p, x)
            BY <2>2, <5>1
          <6> QED BY <1>2, <6>1, StoreValue
        <5>3. q = p => (v[idx[p] + 1].op = "RDTSC" => x = tsc)
          BY <5>1 DEF Current
        <5> HIDE DEF v
        <5>4. \A i \in 1 .. Len(v) :
                /\ mem'[q][cur[q]][i].op = v[i].op
                /\ mem'[q][cur[q]][i].value =
                     IF q = p /\ i = idx[p] + 1 /\ v[i].op = "RDTSC" THEN tsc
                     ELSE IF q = p /\ i = idx[p] + 1 THEN x
                     ELSE v[i].value
          BY <5>2, <5>3
        <5> QED BY <5>4
      <4> QED BY <2>2, <4>1, <4>2
    <3> HIDE DEF v
    <3>7. /\ v[j].op = "RDTSC" /\ v[k].op = "RDTSC"
          /\ j \in 1 .. Len(v) /\ k \in 1 .. Len(v)
      BY <3>1, <3>5, <3>3, <3>6, <3>2
    <3>8. \A i \in 1 .. idx[q] : i <= idx[q] /\ v[i].op = "RDTSC" =>
             v[i].value <= tsc /\ v[i].value \in Nat
      BY <1>2, <3>1, ExecutedCommand DEF TscOrdered, v
    <3>9. j \in 1 .. idx[q] /\ k \in 1 .. idx[q] => v[j].value <= v[k].value
      BY <1>2, <3>1, <3>7 DEF TscOrdered, v
    <3>10. CASE q = p /\ k = idx[p] + 1
      <4>1. mem'[q][cur'[q]][k].value = tsc
        BY <3>1, <3>6, <3>7, <3>10
      <4>2. mem'[q][cur'[q]][j].value <= tsc
        BY <3>1, <3>6, <3>7, <3>8, <3>10
      <4> QED BY <2>2, <3>1, <4>1, <4>2
    <3>11. CASE ~ (q = p /\ k = idx[p] + 1)
      <4>1. j \in 1 .. idx[q] /\ k \in 1 .. idx[q]
        BY <3>1, <3>2, <3>11
      <4>2. /\ mem'[q][cur'[q]][k].value = v[k].value
            /\ mem'[q][cur'[q]][j].value = v[j].value
        BY <3>1, <3>6, <3>7, <4>1
      <4> QED BY <2>2, <3>7, <3>8, <3>9, <4>1, <4>2
    <3> QED BY <3>10, <3>11
  <2>3. CASE UNCHANGED <<mem, incall, cur, idx>> /\ tsc' \in Nat /\ tsc <= tsc'
    BY <2>1, <2>3
  <2>4. ASSUME NEW p \in Client, IoctlStep(p)
        PROVE  mem'[q][cur'[q]][j].value <= mem'[q][cur'[q]][k].value
               /\ mem'[q][cur'[q]][k].value <= tsc'
    <3>1. CASE Nop(p)
      BY <2>2, <3>1 DEF Nop, At, memory
    <3>2. CASE WriteMsr(p)
      BY <2>2, <3>2 DEF WriteMsr, At, memory
    <3>3. CASE ReadMsr(p)
      <4>1. Current(p).ecx \in Reg /\ cpu[p] \in Cpu
        BY <1>2, <3>3, CommandInVector DEF ReadMsr, At, Cmd, Inv, TypeOK
      <4>2. msr[cpu[p]][Current(p).ecx] \in Nat
        BY <1>2, <4>1 DEF Inv, TypeOK
      <4> QED BY <2>2, <3>3, <4>2 DEF ReadMsr, At
    <3>4. CASE ReadTsc(p)
      <4>1. tsc \in Nat
        BY <1>2 DEF Inv, TypeOK
      <4> QED BY <2>2, <3>4, <4>1 DEF ReadTsc, At
    <3>5. CASE Stop(p) \/ UnknownOp(p) \/ LimitReached(p)
      <4>1. q # p /\ incall[q] /\ idx'[q] = idx[q]
        BY <1>2, <3>5 DEF Stop, UnknownOp, LimitReached, Return, Inv, TypeOK
      <4> QED BY <1>2, <2>1, <3>5, <4>1
              DEF Stop, UnknownOp, LimitReached, memory, Inv, TypeOK
    <3> QED BY <2>4, <3>1, <3>2, <3>3, <3>4, <3>5 DEF IoctlStep
  <2>5. ASSUME NEW p \in Client, NEW b \in Buf, IoctlEnter(p, b)
        PROVE  mem'[q][cur'[q]][j].value <= mem'[q][cur'[q]][k].value
               /\ mem'[q][cur'[q]][k].value <= tsc'
    <3>1. q # p
      BY <1>2, <2>5 DEF IoctlEnter, Inv, TypeOK
    <3> QED BY <1>2, <2>1, <2>5, <3>1 DEF IoctlEnter, memory, Inv, TypeOK
  <2>6. ASSUME NEW p \in Client, NEW b \in Buf, NEW w \in Vectors, Build(p, b, w)
        PROVE  mem'[q][cur'[q]][j].value <= mem'[q][cur'[q]][k].value
               /\ mem'[q][cur'[q]][k].value <= tsc'
    <3>1. q # p
      BY <2>6 DEF Build, call
    <3> QED BY <1>2, <2>1, <2>6, <3>1 DEF Build, call, Inv, TypeOK
  <2>7. CASE \/ \E m \in Module, c \in Cpu : InsertModule(m, c) \/ RemoveModule(m, c)
             \/ \E p \in Client : \/ Open(p) \/ Close(p) \/ IoctlOther(p)
                                  \/ \E c \in Cpu : Migrate(p, c)
             \/ \E c \in Cpu : Tick(c)
             \/ UNCHANGED vars
    BY <1>2, <2>3, <2>7 DEF InsertModule, RemoveModule, Open, Close, IoctlOther,
         Migrate, Tick, vars, memory, call, Inv, TypeOK
  <2> QED BY <1>2, <2>4, <2>5, <2>6, <2>7 DEF Next
<1> QED BY <1>1, <1>2, InvHolds, PTL DEF Spec

-----------------------------------------------------------------------------
(***************************************************************************)
(* What one iteration of the loop does when the vector is a plain script:  *)
(* reads, writes and time stamps up to a STOP, within the limit.           *)
(***************************************************************************)
Plain(v) ==
  /\ Len(v) \in 1 .. VecLimit
  /\ \A j \in 1 .. Len(v) - 1 : v[j].op \in {"READ", "WRITE", "RDTSC"}
  /\ v[Len(v)].op = "STOP"

\* The iteration that executes command n writes the register it names.
Writes(p, n) ==
  LET c == mem[p][cur[p]][n]
  IN  /\ c.op = "WRITE"
      /\ msr' = [msr EXCEPT ![cpu[p]][c.ecx] =
                   IF c.ecx \in Counter THEN c.value % CounterSize ELSE c.value]
      /\ mem' = mem

\* It stores x as the result of command n.
Stores(p, n, x) ==
  /\ msr' = msr
  /\ mem' = [mem EXCEPT ![p][cur[p]][n].value = x]
  /\ \A b \in Buf :
       /\ Len(mem'[p][b]) = Len(mem[p][b])
       /\ \A j \in 1 .. Len(mem[p][b]) :
            mem'[p][b][j] = IF b = cur[p] /\ j = n THEN [mem[p][b][j] EXCEPT !.value = x]
                                                   ELSE mem[p][b][j]

Iterates(p, n) ==
  LET c == mem[p][cur[p]][n]
  IN  /\ n \in 1 .. Len(mem[p][cur[p]]) - 1
      /\ idx' = [idx EXCEPT ![p] = n] /\ incall' = incall
      /\ \/ Writes(p, n)
         \/ c.op = "READ" /\ Stores(p, n, msr[cpu[p]][c.ecx])
         \/ c.op = "RDTSC" /\ Stores(p, n, tsc)

Finishes(p, n) ==
  /\ n = Len(mem[p][cur[p]])
  /\ incall' = [incall EXCEPT ![p] = FALSE] /\ idx' = [idx EXCEPT ![p] = 0]
  /\ UNCHANGED <<msr, mem>>

LEMMA OneCommand ==
  ASSUME Inv, NEW p \in Client, IoctlStep(p), Plain(given[p][cur[p]])
  PROVE  /\ incall[p] /\ UNCHANGED <<device, tsc, client, given, cur>>
         /\ Iterates(p, idx[p] + 1) \/ Finishes(p, idx[p] + 1)
<1> DEFINE v == mem[p][cur[p]]
           w == given[p][cur[p]]
           n == idx[p] + 1
<1>1. incall[p]
  BY DEF IoctlStep, Nop, ReadMsr, WriteMsr, ReadTsc, Stop, UnknownOp, LimitReached, At
<1>2. /\ cur[p] \in Buf /\ idx[p] \in Nat /\ v \in Seq(Cmd) /\ w \in Seq(Cmd)
      /\ Len(v) = Len(w) /\ \A j \in 1 .. Len(v) : v[j].op = w[j].op
  <2>1. cur[p] \in Buf /\ idx[p] \in Nat /\ v \in Seq(Cmd) /\ w \in Seq(Cmd)
    BY VectorAssumption DEF Inv, TypeOK
  <2>2. SameScript(v, w)
    BY <2>1 DEF Inv, ScriptsReusable
  <2> QED
    BY <2>1, <2>2 DEF SameScript
<1>3. ~ (idx[p] > VecLimit) /\ n \in 1 .. Len(v)
  <2>1. Len(v) <= VecLimit
    BY <1>2 DEF Plain
  <2>2. idx[p] <= Len(v) /\ (idx[p] <= VecLimit => idx[p] < Len(v))
    BY <1>1, <1>2 DEF Inv, StaysInVector
  <2> QED
    BY <1>2, <2>1, <2>2, CountAssumption
<1>4. /\ \A j \in 1 .. Len(v) - 1 : v[j].op \in {"READ", "WRITE", "RDTSC"}
      /\ v[Len(v)].op = "STOP"
  <2>1. /\ \A j \in 1 .. Len(w) - 1 : w[j].op \in {"READ", "WRITE", "RDTSC"}
        /\ w[Len(w)].op = "STOP"
    BY DEF Plain
  <2> HIDE DEF v, w
  <2> QED
    BY <1>2, <1>3, <2>1
<1>5. Current(p) = v[n]
  BY DEF Current
<1>6. ASSUME NEW x, Store(p, x), v[n].op \in {"READ", "RDTSC"}, msr' = msr PROVE Stores(p, n, x)
  <2>1. mem' = [mem EXCEPT ![p][cur[p]][n].value = x]
    BY <1>6 DEF Store
  <2>2. mem'[p] = [mem[p] EXCEPT ![cur[p]] = [v EXCEPT ![n].value = x]]
    BY <2>1 DEF Inv, TypeOK
  <2>3. ASSUME NEW b \in Buf
        PROVE  mem'[p][b] = IF b = cur[p] THEN [v EXCEPT ![n].value = x] ELSE mem[p][b]
    BY <1>2, <2>2 DEF Inv, TypeOK
  <2> DEFINE u == [v EXCEPT ![n].value = x]
  <2>4. /\ Len(u) = Len(v)
        /\ \A j \in 1 .. Len(v) : u[j] = IF j = n THEN [v[j] EXCEPT !.value = x] ELSE v[j]
    <3> HIDE DEF v, n
    <3> QED
      BY <1>2, <1>3
  <2>5. ASSUME NEW b \in Buf
        PROVE  /\ Len(mem'[p][b]) = Len(mem[p][b])
               /\ \A j \in 1 .. Len(mem[p][b]) :
                    mem'[p][b][j] = IF b = cur[p] /\ j = n
                                    THEN [mem[p][b][j] EXCEPT !.value = x] ELSE mem[p][b][j]
    <3>1. CASE b = cur[p]
      <4>1. mem'[p][b] = u /\ mem[p][b] = v
        BY <2>3, <3>1
      <4> HIDE DEF u, v, n
      <4> QED
        BY <2>4, <3>1, <4>1
    <3>2. CASE b # cur[p]
      BY <2>3, <3>2
    <3> QED
      BY <3>1, <3>2
  <2> QED
    BY <1>6, <2>1, <2>5 DEF Stores
<1>7. CASE n < Len(v)
  <2>1. n \in 1 .. Len(v) - 1 /\ v[n].op \in {"READ", "WRITE", "RDTSC"}
    BY <1>2, <1>3, <1>4, <1>7
  <2>2. ReadMsr(p) \/ WriteMsr(p) \/ ReadTsc(p)
    BY <1>3, <1>5, <2>1 DEF IoctlStep, Nop, Stop, UnknownOp, LimitReached, At
  <2>3. idx' = [idx EXCEPT ![p] = n] /\ incall' = incall
        /\ UNCHANGED <<device, tsc, client, given, cur>>
    BY <2>2 DEF ReadMsr, WriteMsr, ReadTsc, Advance, memory
  <2>4. CASE ReadMsr(p)
    <3>1. v[n].op = "READ" /\ Stores(p, n, msr[cpu[p]][v[n].ecx])
      BY <1>5, <1>6, <2>4 DEF ReadMsr, At
    <3> QED
      BY <1>1, <2>1, <2>3, <3>1 DEF Iterates
  <2>5. CASE ReadTsc(p)
    <3>1. v[n].op = "RDTSC" /\ Stores(p, n, tsc)
      BY <1>5, <1>6, <2>5 DEF ReadTsc, At
    <3> QED
      BY <1>1, <2>1, <2>3, <3>1 DEF Iterates
  <2>6. CASE WriteMsr(p)
    <3>1. Writes(p, n)
      BY <1>5, <2>6 DEF WriteMsr, At, Writes, memory
    <3> QED
      BY <1>1, <2>1, <2>3, <3>1 DEF Iterates
  <2> QED
    BY <2>2, <2>4, <2>5, <2>6
<1>8. CASE n = Len(v)
  <2>1. v[n].op = "STOP"
    BY <1>4, <1>8
  <2>2. Stop(p)
    BY <1>3, <1>5, <2>1
       DEF IoctlStep, Nop, ReadMsr, WriteMsr, ReadTsc, UnknownOp, LimitReached, At
  <2> QED
    BY <1>1, <1>8, <2>2 DEF Stop, Return, Finishes, memory
<1> QED
  BY <1>2, <1>3, <1>7, <1>8

-----------------------------------------------------------------------------
(***************************************************************************)
(* Arithmetic of the control registers, for the modules that enable        *)
(* counters.  An induction on exponents is one by the least counterexample.*)
(***************************************************************************)
LEMMA LeastNatural ==
  ASSUME NEW T \in SUBSET Nat, T # {}
  PROVE  \E n \in T : \A m \in T : n <= m
<1>1. T \subseteq Nat
  OBVIOUS
<1>2. PICK n \in T : \A m \in T : ~ (<<m, n>> \in OpToRel(<, Nat))
  BY <1>1, NatLessThanWellFounded, WFMin, Zenon
<1>3. \A m, l \in Nat : m < l => <<m, l>> \in OpToRel(<, Nat)
  BY Zenon DEF OpToRel
<1>4. \A m \in T : ~ (m < n)
  BY <1>1, <1>2, <1>3, Zenon
<1> QED
  BY <1>4, SMT

\* A set of exponents that holds 0 and every successor holds them all.
LEMMA Exponents ==
  ASSUME NEW Good \in SUBSET Nat, 0 \in Good, NEW N \in Nat,
         \A n \in 0 .. N - 1 : n \in Good => n + 1 \in Good
  PROVE  0 .. N \subseteq Good
<1> DEFINE T == (0 .. N) \ Good
<1> SUFFICES ASSUME T # {} PROVE FALSE
  OBVIOUS
<1>1. PICK n \in T : \A m \in T : n <= m
  <2>1. T \in SUBSET Nat
    OBVIOUS
  <2> HIDE DEF T
  <2> QED
    BY <2>1, LeastNatural
<1>2. n - 1 \in 0 .. N - 1 /\ n - 1 \notin T /\ (n - 1) + 1 = n
  BY <1>1
<1> QED
  BY <1>2

MaxPower == PMC_COUNT + FFC_COUNT

\* What there is to know of powers: nothing else of ^ is known to the prover.
PowerLaw ==
  \A b \in {2, 16} :
    /\ b^0 = 1
    /\ \A n \in 0 .. PMC_COUNT + FFC_COUNT : b^n \in Nat \ {0} /\ b^(n + 1) = b * b^n

LEMMA Powers ==
  ASSUME PowerLaw, NEW b \in {2, 16}, NEW n \in 0 .. MaxPower
  PROVE  b^n \in Nat \ {0}
BY CountAssumption DEF PowerLaw, MaxPower

LEMMA PowersAdd ==
  ASSUME PowerLaw, NEW b \in {2, 16}, NEW n \in Nat, NEW m \in Nat, n + m <= MaxPower
  PROVE  b^(n + m) = b^n * b^m
<1> DEFINE N == MaxPower - n
           Good == {l \in 0 .. N : b^(n + l) = b^n * b^l}
<1>1. MaxPower \in Nat /\ N \in Nat
  BY CountAssumption DEF MaxPower
<1>2. 0 \in Good
  <2>1. b^n \in Nat /\ b^0 = 1 /\ n + 0 = n
    <3>1. n \in 0 .. MaxPower
      BY <1>1
    <3>2. b^n \in Nat
      BY <3>1, Powers
    <3>3. b^0 = 1
      BY PowerLaw DEF PowerLaw
    <3> QED
      BY <3>2, <3>3
  <2>2. b^(n + 0) = b^n * b^0
    BY <2>1
  <2> QED
    BY <1>1, <2>2
<1>3. ASSUME NEW l \in 0 .. N - 1, l \in Good PROVE l + 1 \in Good
  <2>1. b^(l + 1) = b * b^l /\ b^((n + l) + 1) = b * b^(n + l)
    <3>1. l \in 0 .. PMC_COUNT + FFC_COUNT /\ n + l \in 0 .. PMC_COUNT + FFC_COUNT
      BY <1>1 DEF MaxPower
    <3> QED
      BY <3>1, PowerLaw DEF PowerLaw
  <2>2. b^n \in Nat /\ b^l \in Nat /\ b^(n + l) \in Nat
    BY <1>1, Powers
  <2>3. ASSUME NEW x \in Nat, NEW y \in Nat PROVE b * (x * y) = x * (b * y)
    OBVIOUS
  <2>4. b^(n + (l + 1)) = b^n * b^(l + 1)
    <3>1. n + (l + 1) = (n + l) + 1
      BY <1>1
    <3>2. b^(n + l) = b^n * b^l
      BY <1>3
    <3> QED
      BY <2>1, <2>2, <2>3, <3>1, <3>2
  <2> QED
    BY <1>1, <2>4
<1>4. 0 .. N \subseteq Good
  <2> HIDE DEF Good
  <2>1. Good \in SUBSET Nat
    BY <1>1 DEF Good
  <2> QED
    BY <1>1, <1>2, <1>3, <2>1, Exponents
<1> QED
  BY <1>1, <1>4

\* 16^n is one more than a multiple of 15.
LEMMA PowerOf16 ==
  ASSUME PowerLaw, NEW n \in 0 .. MaxPower
  PROVE  \E s \in Nat : 16^n = 15 * s + 1
<1> DEFINE Good == {m \in 0 .. MaxPower : \E s \in Nat : 16^m = 15 * s + 1}
<1>1. MaxPower \in Nat
  BY CountAssumption DEF MaxPower
<1>2. 0 \in Good
  BY <1>1, PowerLaw DEF PowerLaw
<1>3. ASSUME NEW m \in 0 .. MaxPower - 1, m \in Good PROVE m + 1 \in Good
  <2>1. 16^(m + 1) = 16 * 16^m
    BY <1>1, PowerLaw DEF PowerLaw, MaxPower
  <2>2. PICK s \in Nat : 16^m = 15 * s + 1
    BY <1>3
  <2>3. 16 * s + 1 \in Nat /\ 16^(m + 1) = 15 * (16 * s + 1) + 1
    BY <2>1, <2>2
  <2>4. \E t \in Nat : 16^(m + 1) = 15 * t + 1
    BY <2>3
  <2>5. m + 1 \in 0 .. MaxPower
    BY <1>1
  <2> QED
    BY <2>4, <2>5
<1>4. 0 .. MaxPower \subseteq Good
  <2> HIDE DEF Good
  <2>1. Good \in SUBSET Nat
    BY <1>1 DEF Good
  <2> QED
    BY <1>1, <1>2, <1>3, <2>1, Exponents
<1> QED
  BY <1>4
-----------------------------------------------------------------------------
(***************************************************************************)
(* The value that pmc_cfg writes into PERF_GLOBAL_CTRL has a bit for each  *)
(* event that is asked for, and one for every fixed counter.               *)
(***************************************************************************)
LEMMA Quotient ==
  ASSUME NEW b \in Nat \ {0}, NEW q \in Nat, NEW r \in 0 .. b - 1
  PROVE  (q * b + r) \div b = q
<1> DEFINE v == q * b + r
           d == v \div b
<1>1. q * b \in Nat /\ v \in Nat
  OBVIOUS
<1>2. d \in Nat /\ d * b <= v /\ v < d * b + b
  BY <1>1
<1> HIDE DEF d
<1>3. ~ (d < q)
  <2> SUFFICES ASSUME d + 1 <= q PROVE FALSE
    BY <1>2
  <2>1. (d + 1) * b <= q * b
    BY <1>2
  <2> QED
    BY <1>1, <1>2, <2>1
<1>4. ~ (q < d)
  <2> SUFFICES ASSUME q + 1 <= d PROVE FALSE
    BY <1>2
  <2>1. (q + 1) * b <= d * b
    BY <1>2
  <2> QED
    BY <1>1, <1>2, <2>1
<1> QED
  BY <1>2, <1>3, <1>4 DEF d

LEMMA OddEven == \A q \in Nat : (2 * q + 1) % 2 = 1 /\ (2 * q) % 2 = 0
OBVIOUS

(***************************************************************************)
(* The values that enable counters: in PERF_GLOBAL_CTRL the first l        *)
(* programmable counters and all fixed ones, in FIXED_CTR_CTRL the fixed   *)
(* ones in domain d.                                                       *)
(***************************************************************************)
GlobalValue(l) == (2^l - 1) + (2^FFC_COUNT - 1) * 2^PMC_COUNT

FixedValue(d) == d * ((16^FFC_COUNT - 1) \div 15)

\* If v = (2q + e) 2^n + r with r < 2^n, then bit n of v is e.
LEMMA BitOf ==
  ASSUME PowerLaw, NEW n \in 0 .. MaxPower, NEW q \in Nat, NEW e \in {0, 1}, NEW r \in 0 .. 2^n - 1
  PROVE  BitSet((2 * q + e) * 2^n + r, n) <=> e = 1
<1>1. MaxPower \in Nat
  BY CountAssumption DEF MaxPower
<1>2. 2^n \in Nat \ {0}
  BY <1>1, Powers
<1>3. 2 * q + e \in Nat
  OBVIOUS
<1>4. ((2 * q + e) * 2^n + r) \div 2^n = 2 * q + e
  BY <1>2, <1>3, Quotient
<1>5. ((2 * q + e) % 2 = 1) <=> e = 1
  OBVIOUS
<1> QED
  BY <1>4, <1>5 DEF BitSet
\* A larger power is an even multiple of a smaller one.
LEMMA LargerPower ==
  ASSUME PowerLaw, NEW n \in Nat, NEW m \in 0 .. MaxPower, n < m
  PROVE  \E s \in Nat \ {0} : 2^m = 2 * 2^n * s
<1>1. MaxPower \in Nat /\ m - n - 1 \in 0 .. MaxPower /\ n \in 0 .. MaxPower
      /\ n + ((m - n - 1) + 1) = m /\ (m - n - 1) + 1 \in Nat
  BY CountAssumption DEF MaxPower
<1>2. 2^m = 2^n * 2^((m - n - 1) + 1)
  BY <1>1, PowersAdd
<1>3. 2^((m - n - 1) + 1) = 2 * 2^(m - n - 1)
  BY <1>1, PowerLaw DEF PowerLaw, MaxPower
<1>4. 2^n \in Nat \ {0} /\ 2^(m - n - 1) \in Nat \ {0}
  BY <1>1, Powers
<1>5. ASSUME NEW x \in Nat, NEW y \in Nat PROVE x * (2 * y) = 2 * x * y
  OBVIOUS
<1>6. 2^m = 2 * 2^n * 2^(m - n - 1)
  BY <1>2, <1>3, <1>4, <1>5
<1> QED
  BY <1>4, <1>6

LEMMA NotSmaller ==
  ASSUME PowerLaw, NEW n \in Nat, NEW m \in 0 .. MaxPower, n <= m
  PROVE  2^n <= 2^m
<1>1. MaxPower \in Nat /\ n \in 0 .. MaxPower /\ 2^n \in Nat \ {0}
  <2>1. MaxPower \in Nat /\ n \in 0 .. MaxPower
    BY CountAssumption DEF MaxPower
  <2> QED
    BY <2>1, Powers
<1>2. CASE n = m
  BY <1>1, <1>2
<1>3. CASE n < m
  <2>1. PICK s \in Nat \ {0} : 2^m = 2 * 2^n * s
    BY <1>3, LargerPower
  <2>2. ASSUME NEW x \in Nat PROVE x <= 2 * x * s
    <3>1. x * 1 <= x * s
      OBVIOUS
    <3> QED
      BY <3>1
  <2> QED
    BY <1>1, <2>1, <2>2
<1> QED
  BY <1>2, <1>3

LEMMA GlobalBits ==
  ASSUME PowerLaw, NEW l \in 0 .. PMC_COUNT
  PROVE  /\ GlobalValue(l) \in Nat
         /\ \A n \in 0 .. PMC_COUNT - 1 : BitSet(GlobalValue(l), n) <=> n < l
         /\ \A n \in 0 .. FFC_COUNT - 1 : BitSet(GlobalValue(l), PMC_COUNT + n)
<1> DEFINE a == 2^l
           c == 2^PMC_COUNT
           f == 2^FFC_COUNT
<1>1. /\ PMC_COUNT \in Nat /\ FFC_COUNT \in Nat /\ MaxPower \in Nat
      /\ PMC_COUNT \in 0 .. MaxPower /\ FFC_COUNT \in 0 .. MaxPower /\ l \in 0 .. MaxPower
  BY CountAssumption DEF MaxPower
<1>2. a \in Nat \ {0} /\ c \in Nat \ {0} /\ f \in Nat \ {0} /\ a <= c
  BY <1>1, Powers, NotSmaller
<1>3. GlobalValue(l) = (a - 1) + (f - 1) * c
  BY DEF GlobalValue
<1>4. f - 1 \in Nat /\ a - 1 \in Nat
  BY <1>2
<1> HIDE DEF a, c, f
<1>5. (f - 1) * c \in Nat /\ GlobalValue(l) \in Nat
  <2>1. ASSUME NEW x \in Nat, NEW y \in Nat PROVE x * y \in Nat
    OBVIOUS
  <2>2. (f - 1) * c \in Nat
    BY <1>2, <1>4, <2>1
  <2> QED
    BY <1>3, <1>4, <2>2
<1>6. ASSUME NEW n \in 0 .. PMC_COUNT - 1, n < l PROVE BitSet(GlobalValue(l), n)
  <2>1. n \in 0 .. MaxPower /\ n \in Nat /\ n < PMC_COUNT
    BY <1>1
  <2>2. PICK s \in Nat \ {0} : a = 2 * 2^n * s
    BY <1>1, <1>6, <2>1, LargerPower DEF a
  <2>3. PICK t \in Nat \ {0} : c = 2 * 2^n * t
    BY <1>1, <2>1, LargerPower DEF c
  <2>4. 2^n \in Nat \ {0}
    BY <1>1, <2>1, Powers
  <2>5. s + (f - 1) * t - 1 \in Nat /\ 2^n - 1 \in 0 .. 2^n - 1
    BY <1>4, <2>4
  <2>6. ASSUME NEW x \in Nat, NEW g \in Nat
        PROVE  (2 * x * s - 1) + g * (2 * x * t) = (2 * (s + g * t - 1) + 1) * x + (x - 1)
    OBVIOUS
  <2>7. GlobalValue(l) = (2 * (s + (f - 1) * t - 1) + 1) * 2^n + (2^n - 1)
    BY <1>3, <1>4, <2>2, <2>3, <2>4, <2>6
  <2> QED
    BY <2>1, <2>5, <2>7, BitOf
<1>7. ASSUME NEW n \in 0 .. PMC_COUNT - 1, ~ (n < l) PROVE ~ BitSet(GlobalValue(l), n)
  <2>1. n \in 0 .. MaxPower /\ n \in Nat /\ n < PMC_COUNT /\ l <= n
    BY <1>1, <1>7
  <2>2. a <= 2^n
    BY <1>1, <2>1, NotSmaller DEF a
  <2>3. PICK t \in Nat \ {0} : c = 2 * 2^n * t
    BY <1>1, <2>1, LargerPower DEF c
  <2>4. 2^n \in Nat \ {0}
    BY <1>1, <2>1, Powers
  <2>5. (f - 1) * t \in Nat /\ a - 1 \in 0 .. 2^n - 1
    BY <1>2, <1>4, <2>2, <2>4
  <2>6. PICK e \in {0, 1} : e = 0
    OBVIOUS
  <2>7. ASSUME NEW x \in Nat, NEW g \in Nat
        PROVE  (a - 1) + g * (2 * x * t) = (2 * (g * t) + e) * x + (a - 1)
    BY <1>2, <2>6
  <2>8. GlobalValue(l) = (2 * ((f - 1) * t) + e) * 2^n + (a - 1)
    BY <1>3, <1>4, <2>3, <2>4, <2>7
  <2>9. PICK q \in Nat : q = (f - 1) * t
    BY <2>5
  <2>10. BitSet((2 * q + e) * 2^n + (a - 1), n) <=> e = 1
    BY <2>1, <2>5, BitOf
  <2> QED
    BY <2>6, <2>8, <2>9, <2>10
<1>8. ASSUME NEW n \in 0 .. FFC_COUNT - 1 PROVE BitSet(GlobalValue(l), PMC_COUNT + n)
  <2>1. n \in 0 .. MaxPower /\ n \in Nat /\ n < FFC_COUNT /\ PMC_COUNT + n \in 0 .. MaxPower
    BY <1>1 DEF MaxPower
  <2>2. PICK s \in Nat \ {0} : f = 2 * 2^n * s
    BY <1>1, <2>1, LargerPower DEF f
  <2>3. 2^n \in Nat \ {0}
    BY <1>1, <2>1, Powers
  <2>4. 2^(PMC_COUNT + n) = c * 2^n
    BY <1>1, <2>1, PowersAdd DEF c
  <2>5. s - 1 \in Nat
    OBVIOUS
  <2>6. c * 2^n - c + a - 1 \in 0 .. c * 2^n - 1
    <3>1. ASSUME NEW x \in Nat \ {0} PROVE c <= c * x /\ c * x \in Nat
      BY <1>2
    <3> QED
      BY <1>2, <2>3, <3>1
  <2>7. ASSUME NEW x \in Nat
        PROVE  (a - 1) + (2 * x * s - 1) * c = (2 * (s - 1) + 1) * (c * x) + (c * x - c + a - 1)
    BY <1>2
  <2>8. GlobalValue(l) = (2 * (s - 1) + 1) * 2^(PMC_COUNT + n) + (c * 2^n - c + a - 1)
    BY <1>3, <2>2, <2>3, <2>4, <2>7
  <2> QED
    BY <2>1, <2>4, <2>5, <2>6, <2>8, BitOf
<1> QED
  BY <1>5, <1>6, <1>7, <1>8
(***************************************************************************)
(* The value written into FIXED_CTR_CTRL holds the domain in the two bits  *)
(* of each fixed counter.                                                  *)
(***************************************************************************)
LEMMA FixedBits ==
  ASSUME PowerLaw, NEW d \in 0 .. 3, NEW n \in 0 .. FFC_COUNT - 1
  PROVE  (FixedValue(d) \div 16^n) % 4 = d
<1> DEFINE x == 16^n
           m == FFC_COUNT - n - 1
           z == 16^m
<1>1. /\ FFC_COUNT \in 0 .. MaxPower /\ MaxPower \in Nat /\ n \in 0 .. MaxPower
      /\ m \in 0 .. MaxPower /\ n + (m + 1) = FFC_COUNT /\ n \in Nat /\ m + 1 \in Nat
  BY CountAssumption DEF MaxPower
<1>2. 16^FFC_COUNT = x * 16^(m + 1)
  BY <1>1, PowersAdd
<1>3. 16^(m + 1) = 16 * z
  BY <1>1, PowerLaw DEF PowerLaw, MaxPower
<1>4. PICK s \in Nat : x = 15 * s + 1
  BY <1>1, PowerOf16
<1>5. PICK t \in Nat : z = 15 * t + 1
  BY <1>1, PowerOf16
<1> HIDE DEF x, z, m
<1>6. 16^FFC_COUNT - 1 = 15 * (16 * t * x + x + s)
  <2>1. x * (16 * (15 * t + 1)) - 1 = 15 * (16 * t * x + x) + (x - 1)
    BY <1>4
  <2> QED
    BY <1>2, <1>3, <1>4, <1>5, <2>1
<1>7. 16 * t * x + x + s \in Nat
  <2>1. ASSUME NEW u \in Nat, NEW w \in Nat PROVE u * w \in Nat
    OBVIOUS
  <2>2. 16 * t \in Nat /\ x \in Nat
    BY <1>4
  <2> QED
    BY <2>1, <2>2
<1>8. (16^FFC_COUNT - 1) \div 15 = 16 * t * x + x + s
  <2>1. ASSUME NEW u \in Nat PROVE (15 * u) \div 15 = u
    OBVIOUS
  <2> QED
    BY <1>6, <1>7, <2>1
<1>9. FixedValue(d) = (16 * d * t + d) * x + d * s
  <2>1. FixedValue(d) = d * (16 * t * x + x + s)
    BY <1>8 DEF FixedValue
  <2>2. d * (16 * t * x + x + s) = (16 * d * t + d) * x + d * s
    BY <1>4
  <2> QED
    BY <2>1, <2>2
<1>10. x \in Nat \ {0} /\ d * s \in 0 .. x - 1
  BY <1>4
<1>11. 16 * d * t + d \in Nat
  BY <1>4
<1>12. FixedValue(d) \div x = 16 * d * t + d
  BY <1>9, <1>10, <1>11, Quotient
<1>13. (16 * d * t + d) % 4 = d
  <2>1. ASSUME NEW u \in Nat PROVE (16 * u + d) % 4 = d
    OBVIOUS
  <2>2. d * t \in Nat /\ 16 * d * t = 16 * (d * t)
    OBVIOUS
  <2> QED
    BY <2>1, <2>2
<1> QED
  BY <1>12, <1>13 DEF x

\* A CPU whose counters are switched off does not count.
LEMMA TickOff ==
  ASSUME PowerLaw, TypeOK, NEW c \in Cpu, NEW d \in Cpu, Tick(c), msr[d][GlobalCtrl] = 0
  PROVE  msr'[d] = msr[d]
<1>1. ASSUME NEW n \in Nat \ {0} PROVE 0 \div n = 0
  OBVIOUS
<1>2. ASSUME NEW n \in 0 .. PMC_COUNT + FFC_COUNT PROVE ~ BitSet(0, n)
  <2>1. 2^n \in Nat \ {0}
    BY Powers DEF MaxPower
  <2> QED
    BY <1>1, <2>1 DEF BitSet
<1>3. CASE c = d
  <2>1. ASSUME NEW n \in 0 .. PMC_COUNT - 1 PROVE ~ PmcEnabled(msr[c], n)
    <3>1. n \in 0 .. PMC_COUNT + FFC_COUNT
      BY CountAssumption
    <3> QED
      BY <1>2, <1>3, <3>1 DEF PmcEnabled
  <2>2. ASSUME NEW n \in 0 .. FFC_COUNT - 1 PROVE ~ FfcEnabled(msr[c], n)
    <3>1. PMC_COUNT + n \in 0 .. PMC_COUNT + FFC_COUNT
      BY CountAssumption
    <3> QED
      BY <1>2, <1>3, <3>1 DEF FfcEnabled
  <2>3. EnabledCounters(msr[c]) = {}
    BY <2>1, <2>2 DEF EnabledCounters
  <2>4. msr'[c] = [r \in Reg |-> msr[c][r]]
    BY <2>3 DEF Tick, TypeOK
  <2> QED
    BY <1>3, <2>4 DEF TypeOK
<1>4. CASE c # d
  BY <1>4 DEF Tick, TypeOK
<1> QED
  BY <1>3, <1>4

\* With all bits of PERF_GLOBAL_CTRL, a counter that selects something counts.
LEMMA WhenEnabled ==
  ASSUME PowerLaw, NEW m, m[GlobalCtrl] = 2^(PMC_COUNT + FFC_COUNT) - 1
  PROVE  /\ \A n \in 0 .. PMC_COUNT - 1 : m[EvtSel(n)] # 0 => Pmc(n) \in EnabledCounters(m)
         /\ \A d \in 1 .. 3 : m[FixedCtrl] = FixedValue(d) =>
              \A n \in 0 .. FFC_COUNT - 1 : Ffc(n) \in EnabledCounters(m)
<1>1. m[GlobalCtrl] = GlobalValue(PMC_COUNT)
  <2>1. 2^(PMC_COUNT + FFC_COUNT) = 2^PMC_COUNT * 2^FFC_COUNT
    BY CountAssumption, PowersAdd DEF MaxPower
  <2>2. 2^PMC_COUNT \in Nat \ {0} /\ 2^FFC_COUNT \in Nat \ {0}
    BY CountAssumption, Powers DEF MaxPower
  <2>3. ASSUME NEW x \in Nat, NEW y \in Nat PROVE x * y - 1 = (x - 1) + (y - 1) * x
    OBVIOUS
  <2>4. 2^PMC_COUNT * 2^FFC_COUNT - 1 = GlobalValue(PMC_COUNT)
    BY <2>2, <2>3 DEF GlobalValue
  <2> QED
    BY <2>1, <2>4
<1>2. PMC_COUNT \in 0 .. PMC_COUNT
  BY CountAssumption
<1>3. ASSUME NEW n \in 0 .. PMC_COUNT - 1, m[EvtSel(n)] # 0
      PROVE  Pmc(n) \in EnabledCounters(m)
  <2>1. n < PMC_COUNT
    BY CountAssumption
  <2>2. BitSet(GlobalValue(PMC_COUNT), n)
    BY <1>2, <2>1, GlobalBits
  <2>3. PmcEnabled(m, n)
    BY <1>1, <1>3, <2>2 DEF PmcEnabled
  <2> QED
    BY <2>3 DEF EnabledCounters
<1>4. ASSUME NEW d \in 1 .. 3, m[FixedCtrl] = FixedValue(d), NEW n \in 0 .. FFC_COUNT - 1
      PROVE  Ffc(n) \in EnabledCounters(m)
  <2>1. BitSet(GlobalValue(PMC_COUNT), PMC_COUNT + n)
    BY <1>2, GlobalBits
  <2>2. (FixedValue(d) \div 16^n) % 4 = d
    BY FixedBits
  <2>3. FfcEnabled(m, n)
    BY <1>1, <1>4, <2>1, <2>2 DEF FfcEnabled
  <2> QED
    BY <2>3 DEF EnabledCounters
<1> QED
  BY <1>3, <1>4

=============================================================================
