------------------------------ MODULE HexDump ------------------------------
(***************************************************************************)
(* hdpp.awk: prints a line of a hexdump as SVG.  Each byte stands in a     *)
(* tspan of the class of the ELF section it belongs to; a new tspan begins *)
(* where the section changes.  The first eight bytes and the others are    *)
(* treated by different code.                                              *)
(***************************************************************************)
EXTENDS Naturals, Sequences

CONSTANTS
  Layouts,   \* sequences of sections: [addr, length], as readelf lists them
  LineOffs,  \* offsets of the line from the start of the image
  MaxBytes   \* bytes on a line: 16

\* What the composing module assumes of the constants.
DumpAssumption ==
  /\ MaxBytes \in Nat /\ LineOffs \subseteq Nat
  /\ \A l \in Layouts : l # <<>> /\ l \in Seq([addr : Nat, length : Nat])

VARIABLES
  pc,
  layout, lineoff, bytelen,
  i,       \* the byte
  s_sec,   \* the section of the open tspan: kept from line to line
  open,    \* tspans open
  classes  \* history: the class in which each byte was printed

vars == <<pc, layout, lineoff, bytelen, i, s_sec, open, classes>>

None == 0   \* class "none"

\* getSection: the last of the sections that holds the offset; those that are
\* not loaded have address zero.
GetSection(pos) ==
  LET in == {j \in DOMAIN layout :
               /\ layout[j].addr # 0
               /\ pos >= layout[j].addr /\ pos < layout[j].addr + layout[j].length}
  IN  IF in = {} THEN None ELSE CHOOSE j \in in : \A k \in in : k <= j

ByteOff == lineoff + i - 1

Init ==
  /\ layout \in Layouts /\ lineoff \in LineOffs /\ bytelen \in 0 .. MaxBytes
  /\ pc = "line" /\ i = 1
  /\ s_sec \in {None, 1}   \* what the line before left
  /\ open = 0 /\ classes = <<>>

\* The offset in a tspan of its own; nothing more on the last line of a dump.
Line ==
  /\ pc = "line"
  /\ pc' = IF bytelen = 0 THEN "next" ELSE "byte"
  /\ UNCHANGED <<layout, lineoff, bytelen, i, s_sec, open, classes>>

NextByte == i' = i + 1 /\ pc' = IF i = bytelen THEN "chars" ELSE "byte"

\* Mutant: the tspan is closed at the end of the line only.
LeftByteOpen ==
  /\ pc = "byte" /\ i < 9
  /\ s_sec' = GetSection(ByteOff)
  /\ classes' = Append(classes, s_sec')
  /\ open' = (IF i = 1 THEN 1 ELSE open) - (IF i = bytelen THEN 1 ELSE 0)
  /\ NextByte
  /\ UNCHANGED <<layout, lineoff, bytelen>>

\* The first eight: the section is looked up, and the tspan changed if need
\* be, before the byte is printed.
LeftByte ==
  /\ pc = "byte" /\ i < 9
  /\ s_sec' = GetSection(ByteOff)
  /\ classes' = Append(classes, s_sec')
  /\ open' = (IF i = 1 THEN 1 ELSE open) - (IF i = 8 \/ i = bytelen THEN 1 ELSE 0)
  /\ NextByte
  /\ UNCHANGED <<layout, lineoff, bytelen>>

\* Mutant: the ninth byte does not look its section up.
RightByteStale ==
  /\ pc = "byte" /\ i >= 9
  /\ classes' = Append(classes, s_sec)
  /\ s_sec' = IF i < bytelen THEN GetSection(ByteOff) ELSE s_sec
  /\ open' = (IF i = 9 THEN open + 1 ELSE open) - (IF i = bytelen THEN 1 ELSE 0)
  /\ NextByte
  /\ UNCHANGED <<layout, lineoff, bytelen>>

\* The others: the tspan is changed behind the byte, to that byte's section.
RightByte ==
  /\ pc = "byte" /\ i >= 9
  /\ LET here == IF i = 9 THEN GetSection(ByteOff) ELSE s_sec
     IN  /\ classes' = Append(classes, here)
         /\ s_sec' = IF i < bytelen THEN GetSection(ByteOff) ELSE here
  /\ open' = (IF i = 9 THEN open + 1 ELSE open) - (IF i = bytelen THEN 1 ELSE 0)
  /\ NextByte
  /\ UNCHANGED <<layout, lineoff, bytelen>>

\* The characters, in tspans of their own.
Chars ==
  /\ pc = "chars" /\ pc' = "next"
  /\ UNCHANGED <<layout, lineoff, bytelen, i, s_sec, open, classes>>

Next == Line \/ LeftByte \/ RightByte \/ Chars
Spec == Init /\ [][Next]_vars

-----------------------------------------------------------------------------
\* Every variable has its type.
TypeOK ==
  /\ pc \in {"line", "byte", "chars", "next"}
  /\ i \in 1 .. bytelen + 1 /\ Len(classes) = i - 1
  /\ s_sec \in DOMAIN layout \cup {None}
  /\ open \in 0 .. 1

(***************************************************************************)
(* Every tspan that is opened is closed, for lines of every length: in     *)
(* front of the ninth byte, and of the characters, none is open.           *)
(***************************************************************************)
TspansBalanced ==
  /\ pc \in {"chars", "next"} => open = 0
  /\ pc = "byte" => open = IF i \in {1, 9} THEN 0 ELSE 1

Holds(j, pos) ==
  j = None \/ (pos >= layout[j].addr /\ pos < layout[j].addr + layout[j].length)

(***************************************************************************)
(* A byte has the colour of a section that holds it, whatever the line     *)
(* before was, except that from the tenth byte on it has that of the byte  *)
(* before: there a section's first byte is still coloured as the one       *)
(* before it.                                                              *)
(***************************************************************************)
ColourIsSectionOrLags ==
  \A n \in DOMAIN classes :
    LET pos == lineoff + n - 1
        at == IF n <= 9 THEN pos ELSE pos - 1
    IN  /\ Holds(classes[n], at)
        /\ classes[n] = None =>
             \A j \in DOMAIN layout : layout[j].addr = 0 \/ ~ Holds(j, at)

\* A line is finished, whatever its length.
Ends == <>(pc = "next")
=============================================================================
