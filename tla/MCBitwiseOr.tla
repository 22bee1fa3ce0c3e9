---------------------------- MODULE MCBitwiseOr -----------------------------
(***************************************************************************)
(* BitwiseOr for every length around one, two and three cache lines and    *)
(* every place of the vectors within a cache line.                         *)
(***************************************************************************)
EXTENDS BitwiseOr

MCLens == 0 .. 35 \cup 62 .. 66 \cup 108 .. 146 \cup 174 .. 178
MCAddrs == {<<1024 + a, 8192 + a>> : a \in {0, 16, 32, 48}} \cup {<<1024, 8224>>}
=============================================================================
