-------------------------------- MODULE Pcap --------------------------------
(***************************************************************************)
(* The packet reader of pcap.q.  Two walks find the places to cut at:      *)
(* idxcap goes from packet to packet of a capture (the global header is    *)
(* off), .tls.hs.idxExtns from extension to extension of a TLS hello.      *)
(* Both are q scans: they repeat a function until its value stays the      *)
(* same.  An index beyond the end of a byte vector reads as zero.          *)
(***************************************************************************)
EXTENDS Integers, Sequences

CONSTANTS
  Captures,   \* sequences of packets: [payload, padding]
  Hellos,     \* TLS messages: see HelloType
  Garbage,    \* what a length may read as behind the extensions
  MaxBeyond   \* how far past the end a walk is followed

PacketType == [payload : Nat, padding : Nat]
HelloType ==
  [fits : BOOLEAN,          \* the record length is within the bytes there are
   type : {"handshake", "other"}, hs : {"client", "server", "other"},
   sid : Nat, ciphers : Nat, zips : Nat,
   bare : BOOLEAN,          \* it ends before the length of the extensions
   exts : Seq(Nat),         \* their lengths
   extra : Nat]             \* bytes behind the hello

NoHello == [fits |-> TRUE, type |-> "other", hs |-> "other", sid |-> 0, ciphers |-> 0,
            zips |-> 0, bare |-> TRUE, exts |-> <<>>, extra |-> 0]

\* What the composing module assumes of the constants.
PcapAssumption ==
  /\ \A c \in Captures : c \in Seq(PacketType)
  /\ Hellos \subseteq HelloType
  /\ Garbage \subseteq Nat /\ MaxBeyond \in Nat

VARIABLES
  pc,
  capture,   \* the packets that were captured
  count,     \* bytes of the file that are there: count x
  hello,
  y,         \* the scan's current value
  idx,       \* the values so far
  rows       \* readcap's data sizes

vars == <<pc, capture, count, hello, y, idx, rows>>


-----------------------------------------------------------------------------
\* A packet: 16 bytes of record header, 14 + 20 + 20 of Ethernet, IP and TCP.
Headers == 70
Incl(p) == Headers - 16 + p.payload + p.padding

\* Where piece n begins, if the first is at `first` and their sizes are w.
Place(first, w, n) ==
  LET at[m \in 1 .. Len(w) + 1] == IF m = 1 THEN first ELSE at[m - 1] + w[m - 1]
  IN  at[n]

Start(c, n) == Place(0, [m \in 1 .. Len(c) |-> 16 + Incl(c[m])], n)
Total(c) == Start(c, Len(c) + 1)

\* The four bytes at y+8 .. y+11, little-endian: below 256, so the byte at y+8.
LengthAt(i) ==
  LET at == {n \in DOMAIN capture : Start(capture, n) = i}
  IN  IF i + 8 < count /\ at # {} THEN Incl(capture[CHOOSE n \in at : TRUE]) ELSE 0

\* Where the extensions of a hello begin, as ch.parse and sh.parse work it out.
ClientOffset(h) == 44 + h.sid + 2 + h.ciphers + 1 + h.zips + 2
ServerOffset(h) == 44 + h.sid + 2 + 1 + 2
Offset(h) == IF h.hs = "client" THEN ClientOffset(h) ELSE ServerOffset(h)

ExtStart(h, n) == Place(Offset(h), [m \in 1 .. Len(h.exts) |-> 4 + h.exts[m]], n)
HelloEnd(h) == IF h.bare THEN Offset(h) - 2 ELSE ExtStart(h, Len(h.exts) + 1)

-----------------------------------------------------------------------------
\* A capture, whole or cut off anywhere; or a TLS message.
Init ==
  /\ idx = <<>> /\ rows = <<>> /\ y = 0
  /\ \/ /\ pc = "splitcap"
        /\ capture \in Captures
        /\ count \in 0 .. Total(capture)
        /\ hello = NoHello
     \/ /\ pc = "msgParse"
        /\ capture = <<>>
        /\ hello \in Hellos
        /\ count = HelloEnd(hello) + hello.extra

\* The scan starts with the list of its first value.
SplitCap ==
  /\ pc = "splitcap" /\ pc' = "idxcap"
  /\ y' = 0 /\ idx' = <<0>>
  /\ UNCHANGED <<capture, count, hello, rows>>

\* Mutant: stops at the end already.
IdxCapAtEnd ==
  /\ pc = "idxcap"
  /\ IF y >= count
     THEN pc' = "cut" /\ UNCHANGED <<y, idx>>
     ELSE /\ y' = 16 + y + LengthAt(y)
          /\ idx' = Append(idx, y')
          /\ pc' = pc
  /\ UNCHANGED <<capture, count, hello, rows>>

\* {if[y > count x; :y]; 16 + y + length at y + 8}
IdxCap ==
  /\ pc = "idxcap"
  /\ IF y > count
     THEN pc' = "cut" /\ UNCHANGED <<y, idx>>
     ELSE /\ y' = 16 + y + LengthAt(y)
          /\ idx' = Append(idx, y')
          /\ pc' = pc
  /\ UNCHANGED <<capture, count, hello, rows>>

DropLast(s, n) == SubSeq(s, 1, Len(s) - n)   \* -n_ s

\* idx cut pkt: a piece reaches to the next index, the last to the end.
Piece(is, n) == (IF n = Len(is) THEN count ELSE is[n + 1]) - is[n]

\* Mutant: the size counts the record header as data.
ReadCapWithHeader ==
  /\ pc = "cut" /\ pc' = "done"
  /\ idx' = DropLast(idx, 2)
  /\ rows' = [n \in DOMAIN idx' |-> Piece(idx', n) - Headers + 16]
  /\ UNCHANGED <<capture, count, hello, y>>

\* -2_ of the scan, the cut, and uncap of each piece: the size of its data.
ReadCap ==
  /\ pc = "cut" /\ pc' = "done"
  /\ idx' = DropLast(idx, 2)
  /\ rows' = [n \in DOMAIN idx' |-> Piece(idx', n) - Headers]
  /\ UNCHANGED <<capture, count, hello, y>>

-----------------------------------------------------------------------------
\* .tls.msg.parse and .tls.hs.parse turn away what they do not know, and a
\* message that is not all there; more than the message is let through.
MsgParse ==
  /\ pc = "msgParse"
  /\ pc' = IF ~ hello.fits \/ hello.type = "other" \/ hello.hs = "other"
           THEN "signalled" ELSE "hello"
  /\ UNCHANGED <<capture, count, hello, y, idx, rows>>

\* Mutant: the length of the extensions is taken for part of them.
ParseHelloEarly ==
  /\ pc = "hello" /\ pc' = "idxExtns"
  /\ y' = Offset(hello) - 2
  /\ idx' = <<y'>>
  /\ UNCHANGED <<capture, count, hello, rows>>

\* .tls.ch.parse and .tls.sh.parse up to the extensions.
ParseHello ==
  /\ pc = "hello" /\ pc' = "idxExtns"
  /\ y' = Offset(hello)
  /\ idx' = <<y'>>
  /\ UNCHANGED <<capture, count, hello, rows>>

ExtLengths(i) ==
  LET at == {n \in DOMAIN hello.exts : ExtStart(hello, n) = i}
  IN  IF at # {} THEN {hello.exts[CHOOSE n \in at : TRUE]}
      ELSE IF i + 2 < count THEN Garbage
      ELSE {0}

\* Mutant: as the comment in the source asks for, but the value is kept.
IdxExtnsPast ==
  /\ pc = "idxExtns"
  /\ y <= count + MaxBeyond
  /\ IF y >= count
     THEN /\ pc' = "done"
          /\ idx' = DropLast(idx, 1)
          /\ UNCHANGED y
     ELSE /\ \E n \in ExtLengths(y) : y' = y + 4 + n
          /\ idx' = Append(idx, y')
          /\ pc' = pc
  /\ UNCHANGED <<capture, count, hello, rows>>

\* {$[y = count x; y; y + 4 + length at y + 2]}, and -1_ of the scan.
IdxExtns ==
  /\ pc = "idxExtns"
  /\ y <= count + MaxBeyond
  /\ IF y = count
     THEN /\ pc' = "done"
          /\ idx' = DropLast(idx, 1)
          /\ UNCHANGED y
     ELSE /\ \E n \in ExtLengths(y) : y' = y + 4 + n
          /\ idx' = Append(idx, y')
          /\ pc' = pc
  /\ UNCHANGED <<capture, count, hello, rows>>

Next == SplitCap \/ IdxCap \/ ReadCap \/ MsgParse \/ ParseHello \/ IdxExtns
Spec == Init /\ [][Next]_vars /\ WF_vars(Next)

-----------------------------------------------------------------------------
\* Every variable has its type.
TypeOK ==
  /\ pc \in {"splitcap", "idxcap", "cut", "msgParse", "hello", "idxExtns", "done", "signalled"}
  /\ capture \in Captures \cup {<<>>} /\ hello \in Hellos \cup {NoHello}
  /\ count \in Nat /\ y \in Nat
  /\ \A n \in DOMAIN idx : idx[n] \in Nat /\ (n > 1 => idx[n] > idx[n - 1])
  /\ \A n \in DOMAIN rows : rows[n] \in Nat

\* The packets that are all there.
Whole == {n \in DOMAIN capture : Start(capture, n + 1) <= count}
OfCapture == hello = NoHello

(***************************************************************************)
(* Wherever a capture is cut off, it is split at the starts of exactly the *)
(* packets that are complete: dropping the last two values of the scan     *)
(* removes the end and, of a capture cut short, the packet that is.        *)
(***************************************************************************)
CutsAtWholePackets ==
  pc = "done" /\ OfCapture => idx = [n \in Whole |-> Start(capture, n)]

(***************************************************************************)
(* A row's size is that of its packet's data and padding; only the last    *)
(* row of a capture cut short has more, the bytes of the incomplete one.   *)
(***************************************************************************)
RowsHoldTheirData ==
  pc = "done" /\ OfCapture =>
    \A n \in DOMAIN rows :
      rows[n] - capture[n].payload - capture[n].padding =
        IF n = Len(rows) THEN count - Start(capture, n + 1) ELSE 0

(***************************************************************************)
(* The extensions of a hello are cut at their own starts: whatever comes   *)
(* behind them, nothing is found between them or instead of one, and a     *)
(* walk that ends has found them all.                                      *)
(***************************************************************************)
ExtensionsFirst ==
  pc \in {"idxExtns", "done"} /\ ~ OfCapture /\ ~ hello.bare =>
    /\ \A n \in DOMAIN idx : n <= Len(hello.exts) + 1 => idx[n] = ExtStart(hello, n)
    /\ pc = "done" => DOMAIN hello.exts \subseteq DOMAIN idx

(***************************************************************************)
(* A walk that stepped over the end of the message never ends: behind it   *)
(* everything reads as zero and only the exact end would stop it.          *)
(***************************************************************************)
OverTheEndNeverEnds ==
  [](pc = "idxExtns" /\ y > count => [](pc # "done"))

\* Every capture is read, and every hello whose extensions reach exactly to
\* the end of the message is parsed or turned away.
Walkable == OfCapture \/ (~ hello.bare /\ hello.extra = 0)
=============================================================================
