------------------------------ MODULE Getdents ------------------------------
(***************************************************************************)
(* The program getdents.32/dents.s: it opens a directory, reads it with    *)
(* one getdents call into a static buffer and prints a line per record,    *)
(* walking the buffer by the length each record states.                    *)
(***************************************************************************)
EXTENDS Integers, Sequences, SequencesExt

CONSTANTS
  Capacity,    \* 2048: the size of the buffer
  RecLen,      \* the lengths a record may have
  MaxRecords   \* bound: the records of a directory

\* What the composing module assumes of the constants.
GetdentsAssumption ==
  /\ Capacity \in Nat \ {0} /\ MaxRecords \in Nat
  /\ RecLen \subseteq 1 .. Capacity

VARIABLES
  pc,
  dir,     \* the lengths of the directory's records, in its order
  argc,
  name,    \* which string is taken for the directory's name
  fd,      \* -4(%ebp): the descriptor, or a negated error number
  buffer,  \* the length field at each offset of the buffer
  base,    \* -8(%ebp): the current record
  end,     \* -16(%ebp): the end of the records, less the buffer's address
  ecx,     \* the length in the current record
  out      \* the lines, by offset; a line that repeats the last is left out

vars == <<pc, dir, argc, name, fd, buffer, base, end, ecx, out>>

\* Where record n starts, and for n = Len(dir) + 1 where the last one ends.
Offset[n \in 1 .. Len(dir) + 1] == IF n = 1 THEN 0 ELSE Offset[n - 1] + dir[n - 1]

Init ==
  /\ pc = "start"
  /\ dir \in UNION {[1 .. n -> RecLen] : n \in 0 .. MaxRecords}
  /\ argc \in 0 .. 2
  /\ name = "unset" /\ fd = 0
  /\ buffer = [o \in 0 .. Capacity - 1 |-> 0]
  /\ base = 0 /\ end = 0 /\ ecx = 0
  /\ out = <<>>

Goto(from, to) == pc = from /\ pc' = to

\* 8(%ebp) is argv[1], or without any arguments the first variable of the
\* environment.
Start ==
  /\ Goto("start", "open_dir")
  /\ name' = CASE argc = 1 -> "." [] argc = 0 -> "envp[0]" [] OTHER -> "argv[1]"
  /\ UNCHANGED <<dir, argc, fd, buffer, base, end, ecx, out>>

\* open succeeds, or fails and nobody looks.
OpenDir ==
  /\ Goto("open_dir", "getdents")
  /\ fd' \in {3, -1}
  /\ name = "." => fd' = 3
  /\ UNCHANGED <<dir, argc, name, buffer, base, end, ecx, out>>

\* Mutant: a record that would fill the buffer to the last byte is held back.
FittingStrict == {n \in 0 .. Len(dir) : Offset[n + 1] < Capacity}

\* The records that fit.
Fitting == {n \in 0 .. Len(dir) : Offset[n + 1] <= Capacity}

(***************************************************************************)
(* The kernel stores as many whole records as fit and returns their size,  *)
(* or an error number: the descriptor is none, or not a directory's.       *)
(***************************************************************************)
GetdentsOk ==
  /\ Goto("getdents", "write_header")
  /\ fd > 0
  /\ LET count == Max(Fitting) IN
       /\ buffer' = [o \in DOMAIN buffer |->
                       IF \E n \in 1 .. count : Offset[n] = o
                       THEN dir[CHOOSE n \in 1 .. count : Offset[n] = o]
                       ELSE buffer[o]]
       /\ end' = Offset[count + 1]
  /\ UNCHANGED <<dir, argc, name, fd, base, ecx, out>>

GetdentsFails ==
  /\ Goto("getdents", "write_header")
  /\ end' = -1
  /\ UNCHANGED <<dir, argc, name, fd, buffer, base, ecx, out>>

WriteHeader ==
  /\ Goto("write_header", "write_line")
  /\ UNCHANGED <<dir, argc, name, fd, buffer, base, end, ecx, out>>

\* read_dirent and printf
WriteLine ==
  /\ Goto("write_line", "advance")
  /\ ecx' = buffer[base]
  /\ out' = IF out # <<>> /\ Last(out) = base THEN out ELSE Append(out, base)
  /\ UNCHANGED <<dir, argc, name, fd, buffer, base, end>>

\* Mutant: jae instead of je.
AdvanceAbove ==
  /\ Goto("advance", IF base + ecx >= end THEN "close_fd" ELSE "write_line")
  /\ base' = IF base + ecx >= end THEN base ELSE base + ecx
  /\ UNCHANGED <<dir, argc, name, fd, buffer, end, ecx, out>>

\* Mutant: the end is looked for before the length is added.
AdvanceLate ==
  /\ Goto("advance", IF base = end THEN "close_fd" ELSE "write_line")
  /\ base' = IF base = end THEN base ELSE base + ecx
  /\ UNCHANGED <<dir, argc, name, fd, buffer, end, ecx, out>>

\* je close_fd
Advance ==
  /\ Goto("advance", IF base + ecx = end THEN "close_fd" ELSE "write_line")
  /\ base' = IF base + ecx = end THEN base ELSE base + ecx
  /\ UNCHANGED <<dir, argc, name, fd, buffer, end, ecx, out>>

CloseFd ==
  /\ Goto("close_fd", "exit")
  /\ fd' = 0
  /\ UNCHANGED <<dir, argc, name, buffer, base, end, ecx, out>>

Next ==
  \/ Start \/ OpenDir \/ GetdentsOk \/ GetdentsFails \/ WriteHeader
  \/ WriteLine \/ Advance \/ CloseFd

\* The process keeps being scheduled.
Spec == Init /\ [][Next]_vars /\ WF_vars(Next)

-----------------------------------------------------------------------------
TypeOK ==
  /\ pc \in {"start", "open_dir", "getdents", "write_header", "write_line",
             "advance", "close_fd", "exit"}
  /\ fd \in {-1, 0, 3}
  /\ base \in DOMAIN buffer /\ end \in -1 .. Capacity /\ ecx \in RecLen \cup {0}

(***************************************************************************)
(* The lines are the records of the directory, each once and in order, as  *)
(* far as the buffer holds them; only an empty answer of the kernel gets a *)
(* line of its own, of zeroes.                                             *)
(***************************************************************************)
LinesAreRecords ==
  end > 0 =>
    /\ Len(out) <= Len(dir)
    /\ out = [n \in 1 .. Len(out) |-> Offset[n]]

(***************************************************************************)
(* A listing that ends has a line for every record, provided that they fit *)
(* into the buffer: getdents is not called again for the rest.             *)
(***************************************************************************)
CompleteIfFits ==
  pc = "exit" /\ dir # <<>> =>
    (Len(out) = Len(dir)) = (Offset[Len(dir) + 1] <= Capacity)

(***************************************************************************)
(* After a failed open or getdents the program prints the zeroes at the    *)
(* start of the buffer for ever: the end lies below the buffer, and a      *)
(* record of length zero never gets there.                                 *)
(***************************************************************************)
ErrorNeverExits == end < 0 => pc # "exit"

\* Whatever the kernel has stored is walked to its end.
Exits == [](pc = "write_line" /\ end >= 0 => <>(pc = "exit"))
=============================================================================
