----------------------------- MODULE MsrDriver -----------------------------
(***************************************************************************)
(* The character device /dev/msrdrv (msrmod.drv/msrdrv.c), the sibling     *)
(* module csrmod (csrmod.drv/csrmod.c) and the processor state they touch. *)
(*                                                                         *)
(* A client builds vectors of MSR commands in its own memory and passes    *)
(* one of them to ioctl(IOCTL_MSR_CMDS).  The driver interprets the vector *)
(* in place, one command per loop iteration, without a lock and without    *)
(* disabling preemption, on whatever CPU the caller happens to be running: *)
(* every iteration is a step of its own here.                              *)
(***************************************************************************)
EXTENDS Integers, Sequences, FiniteSets

CONSTANTS
  Client,      \* processes that use the device
  Cpu,         \* logical processors: each has its own MSRs and its own CR4
  Buf,         \* names of the command vectors a client keeps in its memory
  PMC_COUNT,   \* programmable counters of a CPU (libpmc.c: 4)
  FFC_COUNT,   \* fixed-function counters of a CPU (libpmc.c: 3)
  CounterSize, \* a counter register holds 0 .. CounterSize-1 (2^48)
  VecLimit,    \* MSR_VEC_LIMIT (msrdrv.h: 32)
  Vectors,     \* the command vectors clients may build
  Migrates,    \* BOOLEAN: may the scheduler move a client to another CPU?
  MaxTsc       \* bound on the time-stamp counter

Module == {"msrdrv", "csrmod"}

(***************************************************************************)
(* enum MsrOperation; "BAD" stands for every other value of the op field.  *)
(***************************************************************************)
Op == {"NOP", "READ", "WRITE", "STOP", "RDTSC", "BAD"}

(***************************************************************************)
(* The MSRs of one CPU that the clients use.                               *)
(***************************************************************************)
GlobalCtrl == <<"PERF_GLOBAL_CTRL", 0>>
FixedCtrl  == <<"FIXED_CTR_CTRL", 0>>
EvtSel(n)  == <<"PERFEVTSEL", n>>
Pmc(n)     == <<"PMC", n>>
Ffc(n)     == <<"FIXED_CTR", n>>

Counter == {Pmc(n) : n \in 0 .. PMC_COUNT - 1} \cup
           {Ffc(n) : n \in 0 .. FFC_COUNT - 1}

Reg == {GlobalCtrl, FixedCtrl} \cup Counter \cup
       {EvtSel(n) : n \in 0 .. PMC_COUNT - 1}

(***************************************************************************)
(* struct MsrInOut.  eax:edx and value share storage, hence one field.     *)
(***************************************************************************)
Cmd == [op : Op, ecx : Reg, value : Nat]

\* The loop of msrdrv_ioctl stays inside the vector.
Terminated(v) ==
  \/ \E j \in 1 .. Len(v) : j <= VecLimit + 1 /\ v[j].op \in {"STOP", "BAD"}
  \/ Len(v) > VecLimit

ASSUME CountAssumption ==
  /\ PMC_COUNT \in Nat /\ FFC_COUNT \in Nat
  /\ CounterSize \in Nat \ {0}
  /\ VecLimit \in Nat /\ MaxTsc \in Nat
  /\ Migrates \in BOOLEAN

ASSUME VectorAssumption == \A v \in Vectors : v \in Seq(Cmd) /\ Terminated(v)

VARIABLES
  loaded,  \* loaded[m]: kernel module m is inserted
  chrdev,  \* the character device answers: cdev_add succeeded
  pce,     \* pce[c]: bit 0x100 of CR4 on CPU c (RDPMC allowed in user mode)
  msr,     \* msr[c]: the MSRs of CPU c
  tsc,     \* the invariant time-stamp counter, common to all CPUs
  cpu,     \* cpu[p]: where client p runs
  open,    \* open[p]: client p holds a file descriptor of the device
  mem,     \* mem[p][b]: command vector b in the memory of p
  given,   \* history: mem[p][b] as p last wrote it
  incall,  \* incall[p]: p is inside msrdrv_ioctl
  cur,     \* cur[p]: the vector of the current or last call of p
  idx,     \* idx[p]: the loop variable i of the call p is in
  ret      \* ret[p]: the value the last call of p returned

device == <<loaded, chrdev, pce>>
client == <<cpu, open>>
memory == <<mem, given>>
call   == <<incall, cur, idx, ret>>
vars   == <<loaded, chrdev, pce, msr, tsc, cpu, open, mem, given, incall, cur, idx, ret>>

Init ==
  /\ loaded = [m \in Module |-> FALSE]
  /\ chrdev = FALSE
  /\ pce = [c \in Cpu |-> FALSE]
  /\ msr = [c \in Cpu |-> [r \in Reg |-> 0]]
  /\ tsc = 0
  /\ cpu \in [Client -> Cpu]
  /\ open = [p \in Client |-> FALSE]
  /\ mem \in [Client -> [Buf -> Vectors]]
  /\ given = mem
  /\ incall = [p \in Client |-> FALSE]
  /\ cur \in [Client -> Buf]
  /\ idx = [p \in Client |-> 0]
  /\ ret = [p \in Client |-> 0]

-----------------------------------------------------------------------------
(***************************************************************************)
(* Loading and unloading.  Both modules set the bit on the CPU that runs   *)
(* their init function and clear it on the CPU that runs their exit        *)
(* function.  msrdrv_init ignores the results of register_chrdev_region    *)
(* and cdev_add, so the driver may be loaded without a working device.     *)
(* fops.owner = THIS_MODULE: the kernel refuses to remove the driver while *)
(* a descriptor is open.                                                   *)
(***************************************************************************)
InsertModule(m, c) ==
  /\ ~ loaded[m]
  /\ loaded' = [loaded EXCEPT ![m] = TRUE]
  /\ chrdev' \in (IF m = "msrdrv" THEN BOOLEAN ELSE {chrdev})
  /\ pce' = [pce EXCEPT ![c] = TRUE]
  /\ UNCHANGED <<msr, tsc, client, memory, call>>

\* Mutant: fops.owner is left NULL, an open file does not pin the module.
RemoveUnpinned(m, c) ==
  /\ loaded[m]
  /\ loaded' = [loaded EXCEPT ![m] = FALSE]
  /\ chrdev' = (chrdev /\ m # "msrdrv")
  /\ pce' = [pce EXCEPT ![c] = FALSE]
  /\ UNCHANGED <<msr, tsc, client, memory, call>>

RemoveModule(m, c) ==
  /\ loaded[m]
  /\ m = "msrdrv" => \A p \in Client : ~ open[p]
  /\ loaded' = [loaded EXCEPT ![m] = FALSE]
  /\ chrdev' = (chrdev /\ m # "msrdrv")
  /\ pce' = [pce EXCEPT ![c] = FALSE]
  /\ UNCHANGED <<msr, tsc, client, memory, call>>

Open(p) ==
  /\ chrdev
  /\ ~ open[p]
  /\ open' = [open EXCEPT ![p] = TRUE]
  /\ UNCHANGED <<device, msr, tsc, cpu, memory, call>>

Close(p) ==
  /\ open[p] /\ ~ incall[p]
  /\ open' = [open EXCEPT ![p] = FALSE]
  /\ UNCHANGED <<device, msr, tsc, cpu, memory, call>>

-----------------------------------------------------------------------------
(***************************************************************************)
(* The client (re)writes one of its vectors between two calls.             *)
(***************************************************************************)
Build(p, b, v) ==
  /\ ~ incall[p]
  /\ mem' = [mem EXCEPT ![p][b] = v]
  /\ given' = [given EXCEPT ![p][b] = v]
  /\ UNCHANGED <<device, msr, tsc, client, call>>

(***************************************************************************)
(* msrdrv_ioctl, from the call to its first test: any other request number *)
(* returns 0 at once.                                                      *)
(***************************************************************************)
IoctlEnter(p, b) ==
  /\ open[p] /\ ~ incall[p]
  /\ incall' = [incall EXCEPT ![p] = TRUE]
  /\ cur' = [cur EXCEPT ![p] = b]
  /\ idx' = [idx EXCEPT ![p] = 0]
  /\ UNCHANGED <<device, msr, tsc, client, memory, ret>>

IoctlOther(p) ==
  /\ open[p] /\ ~ incall[p]
  /\ ret' = [ret EXCEPT ![p] = 0]
  /\ UNCHANGED <<device, msr, tsc, client, memory, incall, cur, idx>>

\* msrops, the command the loop of client p looks at.
Current(p) == mem[p][cur[p]][idx[p] + 1]

\* The loop body is entered with a command whose op field is o.
At(p, o) == incall[p] /\ idx[p] <= VecLimit /\ Current(p).op = o

Advance(p) == idx' = [idx EXCEPT ![p] = @ + 1]

\* msrops->value = v
Store(p, v) == mem' = [mem EXCEPT ![p][cur[p]][idx[p] + 1].value = v]

\* The call returns v; its loop variable is gone.
Return(p, v) ==
  /\ incall' = [incall EXCEPT ![p] = FALSE]
  /\ idx' = [idx EXCEPT ![p] = 0]
  /\ ret' = [ret EXCEPT ![p] = v]

Nop(p) ==
  /\ At(p, "NOP")
  /\ Advance(p)
  /\ UNCHANGED <<device, msr, tsc, client, memory, incall, cur, ret>>

ReadMsr(p) ==
  /\ At(p, "READ")
  /\ Store(p, msr[cpu[p]][Current(p).ecx])
  /\ Advance(p)
  /\ UNCHANGED <<device, msr, tsc, client, given, incall, cur, ret>>

\* Mutant: no break after write_msr, the RDTSC case stores its result.
WriteFallsThrough(p) ==
  /\ At(p, "WRITE")
  /\ msr' = [msr EXCEPT ![cpu[p]][Current(p).ecx] = Current(p).value]
  /\ Store(p, tsc)
  /\ Advance(p)
  /\ UNCHANGED <<device, tsc, client, given, incall, cur, ret>>

\* Mutant: the register is written on every CPU.
WriteEveryCpu(p) ==
  /\ At(p, "WRITE")
  /\ msr' = [c \in Cpu |-> [msr[c] EXCEPT ![Current(p).ecx] = Current(p).value]]
  /\ Advance(p)
  /\ UNCHANGED <<device, tsc, client, memory, incall, cur, ret>>

\* A counter register keeps the low bits of what is written to it.
WriteMsr(p) ==
  /\ At(p, "WRITE")
  /\ LET r == Current(p).ecx
         v == Current(p).value
     IN  msr' = [msr EXCEPT ![cpu[p]][r] =
                   IF r \in Counter THEN v % CounterSize ELSE v]
  /\ Advance(p)
  /\ UNCHANGED <<device, tsc, client, memory, incall, cur, ret>>

\* Mutant: RDTSC calls read_msr(msrops->ecx).
ReadTscAsMsr(p) ==
  /\ At(p, "RDTSC")
  /\ Store(p, msr[cpu[p]][Current(p).ecx])
  /\ Advance(p)
  /\ UNCHANGED <<device, msr, tsc, client, given, incall, cur, ret>>

ReadTsc(p) ==
  /\ At(p, "RDTSC")
  /\ Store(p, tsc)
  /\ Advance(p)
  /\ UNCHANGED <<device, msr, tsc, client, given, incall, cur, ret>>

\* Mutant: STOP breaks out of the switch only.
StopGoesOn(p) ==
  /\ At(p, "STOP")
  /\ idx[p] < Len(mem[p][cur[p]]) - 1
  /\ Advance(p)
  /\ UNCHANGED <<device, msr, tsc, client, memory, incall, cur, ret>>

Stop(p) ==
  /\ At(p, "STOP")
  /\ Return(p, 0)
  /\ UNCHANGED <<device, msr, tsc, client, memory, cur>>

\* Mutant: an unknown operation ends the script like a STOP.
UnknownAsStop(p) ==
  /\ At(p, "BAD")
  /\ Return(p, 0)
  /\ UNCHANGED <<device, msr, tsc, client, memory, cur>>

\* default: the rest of the vector is skipped, what was done stays done.
UnknownOp(p) ==
  /\ At(p, "BAD")
  /\ Return(p, 1)
  /\ UNCHANGED <<device, msr, tsc, client, memory, cur>>

\* The loop condition i <= MSR_VEC_LIMIT fails.
LimitReached(p) ==
  /\ incall[p] /\ idx[p] > VecLimit
  /\ Return(p, 0)
  /\ UNCHANGED <<device, msr, tsc, client, memory, cur>>

IoctlStep(p) ==
  \/ Nop(p) \/ ReadMsr(p) \/ WriteMsr(p) \/ ReadTsc(p)
  \/ Stop(p) \/ UnknownOp(p) \/ LimitReached(p)

-----------------------------------------------------------------------------
(***************************************************************************)
(* The processor and the scheduler.  A counter counts when its bit of      *)
(* PERF_GLOBAL_CTRL is set and its own control field selects something.    *)
(***************************************************************************)
BitSet(v, n) == (v \div 2^n) % 2 = 1

PmcEnabled(m, n) == BitSet(m[GlobalCtrl], n) /\ m[EvtSel(n)] # 0

FfcEnabled(m, n) ==
  /\ BitSet(m[GlobalCtrl], PMC_COUNT + n)
  /\ (m[FixedCtrl] \div 16^n) % 4 # 0

EnabledCounters(m) ==
  {Pmc(n) : n \in {k \in 0 .. PMC_COUNT - 1 : PmcEnabled(m, k)}} \cup
  {Ffc(n) : n \in {k \in 0 .. FFC_COUNT - 1 : FfcEnabled(m, k)}}

\* Time passes on CPU c: every enabled counter sees one event.
Tick(c) ==
  /\ tsc < MaxTsc
  /\ tsc' = tsc + 1
  /\ msr' = [msr EXCEPT ![c] =
               [r \in Reg |-> IF r \in EnabledCounters(msr[c])
                              THEN (msr[c][r] + 1) % CounterSize
                              ELSE msr[c][r]]]
  /\ UNCHANGED <<device, client, memory, call>>

Migrate(p, c) ==
  /\ Migrates
  /\ c # cpu[p]
  /\ cpu' = [cpu EXCEPT ![p] = c]
  /\ UNCHANGED <<device, msr, tsc, open, memory, call>>

-----------------------------------------------------------------------------
Next ==
  \/ \E m \in Module, c \in Cpu : InsertModule(m, c) \/ RemoveModule(m, c)
  \/ \E p \in Client :
       \/ Open(p) \/ Close(p) \/ IoctlOther(p) \/ IoctlStep(p)
       \/ \E b \in Buf : IoctlEnter(p, b)
       \/ \E b \in Buf, v \in Vectors : Build(p, b, v)
       \/ \E c \in Cpu : Migrate(p, c)
  \/ \E c \in Cpu : Tick(c)

Spec == Init /\ [][Next]_vars

-----------------------------------------------------------------------------
\* Every variable keeps its type; vectors keep being vectors of commands.
TypeOK ==
  /\ loaded \in [Module -> BOOLEAN]
  /\ chrdev \in BOOLEAN
  /\ pce \in [Cpu -> BOOLEAN]
  /\ msr \in [Cpu -> [Reg -> Nat]]
  /\ tsc \in Nat
  /\ cpu \in [Client -> Cpu]
  /\ open \in [Client -> BOOLEAN]
  /\ mem \in [Client -> [Buf -> Seq(Cmd)]]
  /\ given \in [Client -> [Buf -> Vectors]]
  /\ incall \in [Client -> BOOLEAN]
  /\ cur \in [Client -> Buf]
  /\ idx \in [Client -> Nat]
  /\ ret \in [Client -> {0, 1}]

(***************************************************************************)
(* v is w but for the results of READ and RDTSC commands.                  *)
(***************************************************************************)
SameScript(v, w) ==
  /\ Len(v) = Len(w)
  /\ \A j \in 1 .. Len(v) :
       /\ v[j].op = w[j].op
       /\ v[j].ecx = w[j].ecx
       /\ v[j].op \notin {"READ", "RDTSC"} => v[j].value = w[j].value

(***************************************************************************)
(* libpmc and the test programs build a vector once and pass it to ioctl   *)
(* again and again (32 or 2048 times).  However calls of several clients   *)
(* interleave, a vector still is the script its owner wrote: only results  *)
(* are stored in it, at the commands that ask for one.                     *)
(***************************************************************************)
ScriptsReusable ==
  \A p \in Client, b \in Buf : SameScript(mem[p][b], given[p][b])

(***************************************************************************)
(* The interpreter runs only while the driver is loaded, although rmmod    *)
(* may be attempted at any moment.                                         *)
(***************************************************************************)
NoUnloadDuringCall ==
  \A p \in Client : incall[p] => open[p] /\ chrdev /\ loaded["msrdrv"]

(***************************************************************************)
(* The loop of msrdrv_ioctl reads no command outside the vector it was     *)
(* given, and it has walked past no STOP and no unknown operation.         *)
(***************************************************************************)
StaysInVector ==
  \A p \in Client : incall[p] =>
    /\ idx[p] <= VecLimit + 1 /\ idx[p] <= Len(mem[p][cur[p]])
    /\ idx[p] <= VecLimit => idx[p] < Len(mem[p][cur[p]])
    /\ \A j \in 1 .. idx[p] : mem[p][cur[p]][j].op \notin {"STOP", "BAD"}

(***************************************************************************)
(* Time stamps taken by one call are in the order of their commands, even  *)
(* when the caller migrates between them.                                  *)
(***************************************************************************)
TscOrdered ==
  \A p \in Client : incall[p] =>
    LET v == mem[p][cur[p]]
    IN  \A j, k \in 1 .. idx[p] :
          j <= k /\ v[j].op = "RDTSC" /\ v[k].op = "RDTSC"
            => v[j].value <= v[k].value /\ v[k].value <= tsc

(***************************************************************************)
(* What a call answers depends on the vector alone: 1 exactly when the     *)
(* first command that ends the script is not a STOP, and an aborted script *)
(* is not told apart from one that did nothing.                            *)
(***************************************************************************)
Ends(v) == {j \in 1 .. VecLimit + 1 : j <= Len(v) /\ v[j].op \in {"STOP", "BAD"}}

Answer(v) ==
  IF \E j \in Ends(v) : v[j].op = "BAD" /\ \A k \in Ends(v) : j <= k THEN 1 ELSE 0

AnswersByVector ==
  [][\A p \in Client :
       incall[p] /\ ~ incall'[p] => ret'[p] = Answer(given[p][cur[p]])]_vars

(***************************************************************************)
(* The comment "Disable RDPMC" of msrdrv_exit and csrmod_exit: once both   *)
(* modules are gone, user code may no longer execute RDPMC.                *)
(***************************************************************************)
UnloadDisablesRdpmc ==
  (\A m \in Module : ~ loaded[m]) => \A c \in Cpu : ~ pce[c]

=============================================================================
