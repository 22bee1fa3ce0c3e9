---------------------------- MODULE MCMsrDriver ----------------------------
(***************************************************************************)
(* Small instances of MsrDriver.                                           *)
(***************************************************************************)
EXTENDS MsrDriver, TLC

Command(o, r, v) == [op |-> o, ecx |-> r, value |-> v]
W(r, v) == Command("WRITE", r, v)
R(r)    == Command("READ", r, 0)
Rdtsc   == Command("RDTSC", GlobalCtrl, 0)
Halt    == Command("STOP", GlobalCtrl, 0)

\* Configure the counter and let it count; the rest of the vector is unused.
StartVector == <<W(EvtSel(0), 1), W(GlobalCtrl, 1), Halt, Rdtsc>>

\* Stop counting, take the time before and after reading the counter.
ReadVector == <<W(GlobalCtrl, 0), Rdtsc, R(Pmc(0)), Rdtsc>>

\* An unknown operation ends the script in the middle.
AbortVector == <<Rdtsc, Command("NOP", GlobalCtrl, 0), Command("BAD", GlobalCtrl, 0)>>

MCVectors == {StartVector, ReadVector, AbortVector}

\* Clients and CPUs are interchangeable (only safety is checked under it).
Symmetry == Permutations(Client) \cup Permutations(Cpu)
=============================================================================
