---------------------------- MODULE MCHashTable -----------------------------
(***************************************************************************)
(* Small tables: keys of four bits, whose halves are hashed together.      *)
(***************************************************************************)
EXTENDS HashTable, Bitwise

MCHash == [k \in Key |-> (k \div 4) ^^ (k % 4)]
=============================================================================
