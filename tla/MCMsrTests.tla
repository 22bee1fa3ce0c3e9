----------------------------- MODULE MCMsrTests -----------------------------
(***************************************************************************)
(* A small instance of MsrTests.  The CPUs can be exchanged.               *)
(***************************************************************************)
EXTENDS MsrTests, TLC

CONSTANT MaxTscMoved   \* events in behaviours in which the program is moved

SameCpus == Permutations(Cpu)

\* Few events where the scheduler has moved the program, MaxTsc where not.
Bounded == moved = {} \/ tsc <= MaxTscMoved
=============================================================================
