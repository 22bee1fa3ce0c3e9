------------------------------ MODULE SelfMaps ------------------------------
(***************************************************************************)
(* printSelfMaps of libself.c: reads /proc/self/maps line by line, prints  *)
(* each mapping and writes its bytes to a file.  The variables fscanf      *)
(* fills are the same in every iteration, and fscanf returns EOF, which    *)
(* the code takes for success, when there is no line left.                 *)
(***************************************************************************)
EXTENDS Naturals, Sequences, SequencesExt

CONSTANTS
  Mappings,  \* address ranges
  MaxLines   \* bound on the lines of maps

\* What the composing module assumes of the constants.
MapsAssumption == MaxLines \in Nat \ {0}

VARIABLES
  pc,
  maps,     \* the lines: [range, path], path "" if there is none
  pos,      \* the next line
  range, binPath, res,
  printed,  \* history: what was printed
  dumped    \* history: whose bytes were written

vars == <<pc, maps, pos, range, binPath, res, printed, dumped>>

Paths == {"", "path"}
Unset == "unset"     \* never assigned
EOF == "EOF"

\* The first line is that of the program, which has a path; no two are alike.
Init ==
  /\ \E n \in 1 .. MaxLines :
       maps \in [1 .. n -> [range : Mappings, path : Paths]]
  /\ maps[1].path = "path"
  /\ \A i, j \in DOMAIN maps : i # j => maps[i].range # maps[j].range
  /\ pc = "open" /\ pos = 1
  /\ range = Unset /\ binPath = Unset /\ res = Unset
  /\ printed = <<>> /\ dumped = <<>>

Goto(from, to) == pc = from /\ pc' = to

\* fopen of maps; exit(1) if it fails.
Open ==
  /\ \/ Goto("open", "scan") \/ Goto("open", "exit")
  /\ UNCHANGED <<maps, pos, range, binPath, res, printed, dumped>>

\* fscanf: five or six values, the path left alone if there is none; EOF and
\* nothing assigned at the end.
Scan ==
  /\ Goto("scan", "print")
  /\ IF pos <= Len(maps)
     THEN /\ range' = maps[pos].range
          /\ binPath' = IF maps[pos].path = "" THEN binPath ELSE maps[pos].path
          /\ res' = IF maps[pos].path = "" THEN "five" ELSE "six"
     ELSE res' = EOF /\ UNCHANGED <<range, binPath>>
  /\ UNCHANGED <<maps, pos, printed, dumped>>

\* printf, and fopen of the file for the bytes; exit(1) if that fails.
PrintLine ==
  /\ \/ Goto("print", "dump") \/ Goto("print", "exit")
  /\ printed' = Append(printed, [range |-> range, path |-> binPath])
  /\ UNCHANGED <<maps, pos, range, binPath, res, dumped>>

\* Mutant: the path of a line stays for the next.
DumpKeepsPath ==
  /\ Goto("dump", IF pos > Len(maps) THEN "return" ELSE "scan")
  /\ dumped' = Append(dumped, range)
  /\ pos' = pos + 1
  /\ UNCHANGED <<maps, range, binPath, res, printed>>

\* Mutant: fgetc is followed by a skip of the next line.
DumpSkips ==
  /\ Goto("dump", IF pos > Len(maps) THEN "return" ELSE "scan")
  /\ dumped' = Append(dumped, range)
  /\ pos' = pos + 2
  /\ binPath' = ""
  /\ UNCHANGED <<maps, range, res, printed>>

\* fwrite, fclose, and fgetc, which takes the end of the line: EOF only if a
\* scan has already met the end.
Dump ==
  /\ Goto("dump", IF pos > Len(maps) THEN "return" ELSE "scan")
  /\ dumped' = Append(dumped, range)
  /\ pos' = pos + 1
  /\ binPath' = IF pos > Len(maps) THEN binPath ELSE ""
  /\ UNCHANGED <<maps, range, res, printed>>

Next == Open \/ Scan \/ PrintLine \/ Dump
Spec == Init /\ [][Next]_vars /\ WF_vars(Next)

-----------------------------------------------------------------------------
\* Every variable has its type.
TypeOK ==
  /\ pc \in {"open", "scan", "print", "dump", "return", "exit"}
  /\ pos \in 1 .. Len(maps) + 2
  /\ range \in Mappings \cup {Unset} /\ binPath \in Paths \cup {Unset}
  /\ res \in {"five", "six", EOF, Unset}
  /\ Len(printed) <= Len(maps) + 1 /\ Len(dumped) <= Len(printed)

(***************************************************************************)
(* Every mapping is printed with its own path or none, in order, whatever  *)
(* the line before had; only after the last may one more line follow: the  *)
(* last mapping again, without its path, since EOF passes for success.     *)
(***************************************************************************)
PrintsOwnPath ==
  /\ IsPrefix(SubSeq(printed, 1, IF Len(printed) > Len(maps) THEN Len(maps) ELSE Len(printed)), maps)
  /\ Len(printed) > Len(maps) =>
       printed[Len(printed)] = [range |-> maps[Len(maps)].range, path |-> ""]

(***************************************************************************)
(* When it returns, the bytes of each mapping have been written in the     *)
(* order of the lines, and nothing else but those of one a second time.    *)
(***************************************************************************)
DumpsAll ==
  pc = "return" =>
    /\ Len(dumped) \in {Len(maps), Len(maps) + 1}
    /\ \A n \in DOMAIN maps : dumped[n] = maps[n].range

\* It returns or exits, although EOF passes for success.
Ends == <>(pc \in {"return", "exit"})
=============================================================================
