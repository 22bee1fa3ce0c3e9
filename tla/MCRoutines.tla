----------------------------- MODULE MCRoutines -----------------------------
(***************************************************************************)
(* Inputs for the routines: captures of up to three packets, and hellos    *)
(* with no, some or empty extensions and bytes behind them; vectors at     *)
(* every place of a cache line.                                            *)
(***************************************************************************)
EXTENDS Routines

Packets == {[payload |-> 0, padding |-> 6], [payload |-> 5, padding |-> 0]}
SomeCaptures == UNION {[1 .. n -> Packets] : n \in 0 .. 3}

SomeHellos ==
  {h \in [fits : BOOLEAN, type : {"handshake", "other"}, hs : {"client", "server", "other"},
          sid : {0, 32}, ciphers : {2, 4}, zips : {1}, bare : BOOLEAN,
          exts : {<<>>, <<0>>, <<2, 0>>, <<5, 1, 3>>}, extra : {0, 4, 7}] :
     h.bare => h.exts = <<>>}
\* Addresses of the vector of a bridge and of the kernel's result.
SomeAddrs == {<<1024 + a, 8192 + a>> : a \in {0, 16, 32, 48}}
=============================================================================
