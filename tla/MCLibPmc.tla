----------------------------- MODULE MCLibPmc ------------------------------
(***************************************************************************)
(* Small instances of LibPmc.                                              *)
(***************************************************************************)
EXTENDS LibPmc, TLC

\* Clients, and CPUs, are interchangeable.
Symmetry == Permutations(Client) \cup Permutations(Cpu)
=============================================================================
