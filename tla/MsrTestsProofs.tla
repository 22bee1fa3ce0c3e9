--------------------------- MODULE MsrTestsProofs ---------------------------
(***************************************************************************)
(* The test programs for every number of counters, CPUs and rounds, on top *)
(* of what MsrDriverProofs shows of the driver.                            *)
(***************************************************************************)
EXTENDS MsrTests, SequenceTheorems, TLAPS

DP == INSTANCE MsrDriverProofs WITH
  Vectors <- AllVectors, Buf <- Script

-----------------------------------------------------------------------------
LEMMA Counts ==
  /\ PMC_COUNT \in Nat \ {0} /\ FFC_COUNT \in Nat \ {0} /\ CounterSize \in Nat \ {0}
  /\ VecLimit \in Nat /\ MaxTsc \in Nat /\ Migrates \in BOOLEAN
BY TestAssumption, DriverAssumption DEF D!CountAssumption

LEMMA SameSets ==
  /\ DP!Cmd = D!Cmd /\ DP!Reg = D!Reg /\ DP!Counter = D!Counter
  /\ DP!GlobalCtrl = GlobalCtrl
BY DEF DP!Cmd, D!Cmd, DP!Op, D!Op, DP!Reg, D!Reg, DP!Counter, D!Counter,
   DP!GlobalCtrl, D!GlobalCtrl, DP!FixedCtrl, D!FixedCtrl, DP!EvtSel, D!EvtSel,
   DP!Pmc, D!Pmc, DP!Ffc, D!Ffc, GlobalCtrl

-----------------------------------------------------------------------------
(***************************************************************************)
(* The scripts are put together from pieces: what matters of a piece is    *)
(* its length and its commands.                                            *)
(***************************************************************************)
Items(s) == {s[j] : j \in 1 .. Len(s)}

Piece(s, n, I) == s \in Seq(D!Cmd) /\ Len(s) = n /\ Items(s) = I

\* u is s, of length n, followed by t, of length m.
Joined(u, s, n, t, m) == \A j \in 1 .. n + m : u[j] = IF j <= n THEN s[j] ELSE t[j - n]

LEMMA JoinPieces ==
  ASSUME NEW s, NEW t, NEW n \in Nat, NEW m \in Nat, NEW I, NEW J,
         Piece(s, n, I), Piece(t, m, J)
  PROVE  Piece(s \o t, n + m, I \cup J) /\ Joined(s \o t, s, n, t, m)
<1>1. s \in Seq(D!Cmd) /\ t \in Seq(D!Cmd) /\ Len(s) = n /\ Len(t) = m
  BY DEF Piece
<1>2. PICK u : u = s \o t /\ u \in Seq(D!Cmd)
  BY <1>1, ConcatProperties
<1>3. Len(u) = n + m /\ \A j \in 1 .. n + m : u[j] = IF j <= n THEN s[j] ELSE t[j - n]
  BY <1>1, <1>2, ConcatProperties
<1>4. \A j \in 1 .. n : j \in 1 .. n + m /\ u[j] = s[j]
  BY <1>3
<1>5. \A j \in 1 .. m : n + j \in 1 .. n + m /\ u[n + j] = t[j]
  BY <1>3
<1>6. Items(u) = I \cup J
  <2>1. Items(s) = I /\ Items(t) = J
    BY DEF Piece
  <2>2. ASSUME NEW j \in 1 .. n + m PROVE u[j] \in Items(s) \cup Items(t)
    <3>1. CASE j <= n
      BY <1>1, <1>3, <3>1 DEF Items
    <3>2. CASE ~ (j <= n)
      <4>1. j - n \in 1 .. m /\ u[j] = t[j - n]
        BY <1>3, <3>2
      <4> QED
        BY <1>1, <4>1 DEF Items
    <3> QED
      BY <3>1, <3>2
  <2>3. Items(s) \subseteq Items(u) /\ Items(t) \subseteq Items(u)
    BY <1>1, <1>3, <1>4, <1>5 DEF Items
  <2>4. Items(u) \subseteq Items(s) \cup Items(t)
    BY <1>3, <2>2 DEF Items
  <2> QED
    BY <2>1, <2>3, <2>4
<1> QED
  BY <1>2, <1>3, <1>6 DEF Piece, Joined

Zeroes  == {W(k, 0) : k \in D!Counter}
Reads   == {R(k) : k \in D!Counter}
Selects == {W(EvtSel(n - 1), 1) : n \in 1 .. PMC_COUNT}

LEMMA Commands ==
  /\ \A r \in D!Reg, v \in Nat : W(r, v) \in D!Cmd
  /\ \A r \in D!Reg : R(r) \in D!Cmd
  /\ Rdtsc \in D!Cmd /\ Stop \in D!Cmd
  /\ \A n \in 1 .. PMC_COUNT : Pmc(n - 1) \in D!Counter /\ EvtSel(n - 1) \in D!Reg
  /\ \A n \in 1 .. FFC_COUNT : Ffc(n - 1) \in D!Counter
  /\ D!Counter \subseteq D!Reg /\ GlobalCtrl \in D!Reg /\ FixedCtrl \in D!Reg
<1>1. GlobalCtrl \in D!Reg /\ FixedCtrl \in D!Reg /\ D!Counter \subseteq D!Reg
  BY DEF D!Reg, D!GlobalCtrl, GlobalCtrl, D!FixedCtrl, FixedCtrl
<1>2. \A r \in D!Reg, v \in Nat : W(r, v) \in D!Cmd
  BY DEF W, D!Cmd, D!Op
<1>3. /\ \A r \in D!Reg : R(r) \in D!Cmd
      /\ Rdtsc \in D!Cmd /\ Stop \in D!Cmd
  BY <1>1 DEF R, Rdtsc, Stop, D!Cmd, D!Op
<1>4. \A n \in 1 .. PMC_COUNT : n - 1 \in 0 .. PMC_COUNT - 1
  BY Counts
<1>5. \A n \in 1 .. FFC_COUNT : n - 1 \in 0 .. FFC_COUNT - 1
  BY Counts
<1>6. /\ \A n \in 1 .. PMC_COUNT : Pmc(n - 1) \in D!Counter /\ EvtSel(n - 1) \in D!Reg
      /\ \A n \in 1 .. FFC_COUNT : Ffc(n - 1) \in D!Counter
  BY <1>4, <1>5 DEF D!Counter, D!Reg, D!Pmc, Pmc, D!Ffc, Ffc, D!EvtSel, EvtSel
<1> QED
  BY <1>1, <1>2, <1>3, <1>6

LEMMA AllCounters ==
  D!Counter = {Pmc(n - 1) : n \in 1 .. PMC_COUNT} \cup {Ffc(n - 1) : n \in 1 .. FFC_COUNT}
<1>1. ASSUME NEW n \in 0 .. PMC_COUNT - 1 PROVE n + 1 \in 1 .. PMC_COUNT /\ (n + 1) - 1 = n
  BY Counts
<1>2. ASSUME NEW n \in 0 .. FFC_COUNT - 1 PROVE n + 1 \in 1 .. FFC_COUNT /\ (n + 1) - 1 = n
  BY Counts
<1>3. {Pmc(n - 1) : n \in 1 .. PMC_COUNT} \cup {Ffc(n - 1) : n \in 1 .. FFC_COUNT}
        \subseteq D!Counter
  BY Commands
<1>4. ASSUME NEW n \in 0 .. PMC_COUNT - 1 PROVE \E m \in 1 .. PMC_COUNT : D!Pmc(n) = Pmc(m - 1)
  BY <1>1 DEF D!Pmc, Pmc
<1>5. ASSUME NEW n \in 0 .. FFC_COUNT - 1 PROVE \E m \in 1 .. FFC_COUNT : D!Ffc(n) = Ffc(m - 1)
  BY <1>2 DEF D!Ffc, Ffc
<1> QED
  BY <1>3, <1>4, <1>5 DEF D!Counter

LEMMA ZeroPiece == Piece(ZeroAll, PMC_COUNT + FFC_COUNT, Zeroes)
<1> DEFINE s == [n \in 1 .. PMC_COUNT |-> W(Pmc(n - 1), 0)]
           t == [n \in 1 .. FFC_COUNT |-> W(Ffc(n - 1), 0)]
<1>1. ZeroAll = s \o t
  BY DEF ZeroAll, OnCounters
<1>2. /\ s \in [1 .. PMC_COUNT -> D!Cmd] /\ t \in [1 .. FFC_COUNT -> D!Cmd]
  BY Commands
<1>3. s \in Seq(D!Cmd) /\ Len(s) = PMC_COUNT /\ t \in Seq(D!Cmd) /\ Len(t) = FFC_COUNT
  BY <1>2, Counts
<1>4. /\ Items(s) = {W(Pmc(n - 1), 0) : n \in 1 .. PMC_COUNT}
      /\ Items(t) = {W(Ffc(n - 1), 0) : n \in 1 .. FFC_COUNT}
  BY <1>3 DEF Items
<1> HIDE DEF s, t
<1>5. Piece(s \o t, PMC_COUNT + FFC_COUNT, Items(s) \cup Items(t))
  BY <1>3, Counts, JoinPieces DEF Piece
<1>6. Items(s) \cup Items(t) = Zeroes
  BY <1>4, AllCounters DEF Zeroes
<1> QED
  BY <1>1, <1>5, <1>6

LEMMA ReadPiece == Piece(ReadAll, PMC_COUNT + FFC_COUNT, Reads)
<1> DEFINE s == [n \in 1 .. PMC_COUNT |-> R(Pmc(n - 1))]
           t == [n \in 1 .. FFC_COUNT |-> R(Ffc(n - 1))]
<1>1. ReadAll = s \o t
  BY DEF ReadAll, OnCounters
<1>2. /\ s \in [1 .. PMC_COUNT -> D!Cmd] /\ t \in [1 .. FFC_COUNT -> D!Cmd]
  BY Commands
<1>3. s \in Seq(D!Cmd) /\ Len(s) = PMC_COUNT /\ t \in Seq(D!Cmd) /\ Len(t) = FFC_COUNT
  BY <1>2, Counts
<1>4. /\ Items(s) = {R(Pmc(n - 1)) : n \in 1 .. PMC_COUNT}
      /\ Items(t) = {R(Ffc(n - 1)) : n \in 1 .. FFC_COUNT}
  BY <1>3 DEF Items
<1> HIDE DEF s, t
<1>5. Piece(s \o t, PMC_COUNT + FFC_COUNT, Items(s) \cup Items(t))
  BY <1>3, Counts, JoinPieces DEF Piece
<1>6. Items(s) \cup Items(t) = Reads
  BY <1>4, AllCounters DEF Reads
<1> QED
  BY <1>1, <1>5, <1>6

LEMMA SelectPiece ==
  /\ Piece(SelectAll, PMC_COUNT, Selects)
  /\ \A n \in 1 .. PMC_COUNT : SelectAll[n] = W(EvtSel(n - 1), 1)
<1>1. SelectAll \in [1 .. PMC_COUNT -> D!Cmd]
  BY Commands DEF SelectAll
<1>2. SelectAll \in Seq(D!Cmd) /\ Len(SelectAll) = PMC_COUNT
  BY <1>1, Counts
<1>3. \A n \in 1 .. PMC_COUNT : SelectAll[n] = W(EvtSel(n - 1), 1)
  BY DEF SelectAll
<1> QED
  BY <1>2, <1>3 DEF Piece, Items, Selects

LEMMA ShortPieces ==
  /\ \A c \in D!Cmd : Piece(<<c>>, 1, {c})
  /\ \A c, d \in D!Cmd : Piece(<<c, d>>, 2, {c, d})
  /\ \A c, d, e \in D!Cmd : Piece(<<c, d, e>>, 3, {c, d, e})
  /\ \A c, d, e, f \in D!Cmd : Piece(<<c, d, e, f>>, 4, {c, d, e, f})
  /\ \A c, d, e, f, g \in D!Cmd : Piece(<<c, d, e, f, g>>, 5, {c, d, e, f, g})
<1>1. ASSUME NEW c \in D!Cmd PROVE Piece(<<c>>, 1, {c})
  BY DEF Piece, Items
<1>2. ASSUME NEW c \in D!Cmd, NEW d \in D!Cmd PROVE Piece(<<c, d>>, 2, {c, d})
  <2>1. 1 .. 2 = {1, 2}
    OBVIOUS
  <2> QED
    BY <2>1 DEF Piece, Items
<1>3. ASSUME NEW c \in D!Cmd, NEW d \in D!Cmd, NEW e \in D!Cmd
      PROVE  Piece(<<c, d, e>>, 3, {c, d, e})
  <2>1. 1 .. 3 = {1, 2, 3}
    OBVIOUS
  <2> QED
    BY <2>1 DEF Piece, Items
<1>4. ASSUME NEW c \in D!Cmd, NEW d \in D!Cmd, NEW e \in D!Cmd, NEW f \in D!Cmd
      PROVE  Piece(<<c, d, e, f>>, 4, {c, d, e, f})
  <2>1. 1 .. 4 = {1, 2, 3, 4}
    OBVIOUS
  <2> QED
    BY <2>1 DEF Piece, Items
<1>5. ASSUME NEW c \in D!Cmd, NEW d \in D!Cmd, NEW e \in D!Cmd, NEW f \in D!Cmd,
             NEW g \in D!Cmd
      PROVE  Piece(<<c, d, e, f, g>>, 5, {c, d, e, f, g})
  <2>1. 1 .. 5 = {1, 2, 3, 4, 5}
    OBVIOUS
  <2> QED
    BY <2>1 DEF Piece, Items
<1> QED
  BY <1>1, <1>2, <1>3, <1>4, <1>5

-----------------------------------------------------------------------------
(***************************************************************************)
(* What matters of a whole script: how it ends, which command is the last  *)
(* one to write a register, and that no counter is written before it is    *)
(* read.                                                                   *)
(***************************************************************************)
Working == {"READ", "WRITE", "RDTSC"}

Ends(s) ==
  /\ Len(s) > 0 /\ s[Len(s)].op = "STOP"
  /\ \A j \in 1 .. Len(s) - 1 : s[j].op \in Working

LastIn(s, c) ==
  \E j \in 1 .. Len(s) :
    /\ s[j] = c
    /\ \A i \in j + 1 .. Len(s) : s[i].op = "WRITE" => s[i].ecx # c.ecx

ReadsFirst(s) ==
  \A i, j \in 1 .. Len(s) :
    i < j /\ s[i].op = "WRITE" /\ s[j].op = "READ" => s[i].ecx \notin D!Counter

LEMMA JoinEnds ==
  ASSUME NEW s, NEW t, NEW n \in Nat, NEW m \in Nat, NEW I, NEW J,
         Piece(s, n, I), Piece(t, m, J), \A c \in I : c.op \in Working, Ends(t)
  PROVE  Ends(s \o t)
<1> DEFINE u == s \o t
<1>1. Len(u) = n + m /\ Len(s) = n /\ Len(t) = m /\ m > 0
  BY JoinPieces DEF Piece, Ends
<1>2. \A j \in 1 .. n + m : u[j] = IF j <= n THEN s[j] ELSE t[j - n]
  <2>1. Joined(u, s, n, t, m)
    BY JoinPieces
  <2> HIDE DEF u
  <2> QED
    BY <2>1 DEF Joined
<1>3. \A j \in 1 .. n : s[j] \in I
  BY <1>1 DEF Piece, Items
<1> HIDE DEF u
<1>4. u[Len(u)].op = "STOP"
  <2>1. n + m \in 1 .. n + m /\ ~ (n + m <= n) /\ (n + m) - n = m
    BY <1>1
  <2> QED
    BY <1>1, <1>2, <2>1 DEF Ends
<1>5. ASSUME NEW j \in 1 .. (n + m) - 1 PROVE u[j].op \in Working
  <2>1. CASE j <= n
    BY <1>2, <1>3, <2>1
  <2>2. CASE ~ (j <= n)
    <3>1. u[j] = t[j - n] /\ j - n \in 1 .. m - 1
      BY <1>2, <2>2
    <3> QED
      BY <1>1, <3>1 DEF Ends
  <2> QED
    BY <2>1, <2>2
<1>6. Len(u) > 0
  BY <1>1
<1>7. Ends(u)
  BY <1>1, <1>4, <1>5, <1>6 DEF Ends
<1> QED
  BY <1>7 DEF u

LEMMA PlainEnds ==
  ASSUME NEW s, NEW n \in Nat, NEW I, Piece(s, n, I), Ends(s), n <= VecLimit
  PROVE  DP!Plain(s)
BY DEF DP!Plain, Ends, Working, Piece

LEMMA LastLeft ==
  ASSUME NEW s, NEW t, NEW n \in Nat, NEW m \in Nat, NEW I, NEW J,
         Piece(s, n, I), Piece(t, m, J), NEW c, LastIn(s, c),
         \A d \in J : d.op = "WRITE" => d.ecx # c.ecx
  PROVE  LastIn(s \o t, c)
<1> DEFINE u == s \o t
<1>1. Len(u) = n + m /\ Len(s) = n /\ Len(t) = m
  BY JoinPieces DEF Piece
<1>2. \A j \in 1 .. n + m : u[j] = IF j <= n THEN s[j] ELSE t[j - n]
  <2>1. Joined(u, s, n, t, m)
    BY JoinPieces
  <2> HIDE DEF u
  <2> QED
    BY <2>1 DEF Joined
<1>3. \A j \in 1 .. m : t[j] \in J
  BY <1>1 DEF Piece, Items
<1>4. PICK j \in 1 .. n : s[j] = c /\ \A i \in j + 1 .. n : s[i].op = "WRITE" => s[i].ecx # c.ecx
  BY <1>1 DEF LastIn
<1> HIDE DEF u
<1>5. j \in 1 .. n + m /\ u[j] = c
  BY <1>2, <1>4
<1>6. ASSUME NEW i \in j + 1 .. n + m, u[i].op = "WRITE" PROVE u[i].ecx # c.ecx
  <2>1. CASE i <= n
    BY <1>2, <1>4, <1>6, <2>1
  <2>2. CASE ~ (i <= n)
    <3>1. u[i] = t[i - n] /\ i - n \in 1 .. m
      BY <1>2, <2>2
    <3> QED
      BY <1>3, <1>6, <3>1
  <2> QED
    BY <2>1, <2>2
<1>7. LastIn(u, c)
  BY <1>1, <1>5, <1>6 DEF LastIn
<1> QED
  BY <1>7 DEF u

LEMMA LastRight ==
  ASSUME NEW s, NEW t, NEW n \in Nat, NEW m \in Nat, NEW I, NEW J,
         Piece(s, n, I), Piece(t, m, J), NEW c, LastIn(t, c)
  PROVE  LastIn(s \o t, c)
<1> DEFINE u == s \o t
<1>1. Len(u) = n + m /\ Len(s) = n /\ Len(t) = m
  BY JoinPieces DEF Piece
<1>2. \A j \in 1 .. n + m : u[j] = IF j <= n THEN s[j] ELSE t[j - n]
  <2>1. Joined(u, s, n, t, m)
    BY JoinPieces
  <2> HIDE DEF u
  <2> QED
    BY <2>1 DEF Joined
<1>4. PICK j \in 1 .. m : t[j] = c /\ \A i \in j + 1 .. m : t[i].op = "WRITE" => t[i].ecx # c.ecx
  BY <1>1 DEF LastIn
<1> HIDE DEF u
<1>5. n + j \in 1 .. n + m /\ u[n + j] = c
  BY <1>2, <1>4
<1>6. ASSUME NEW i \in (n + j) + 1 .. n + m, u[i].op = "WRITE" PROVE u[i].ecx # c.ecx
  <2>1. u[i] = t[i - n] /\ i - n \in j + 1 .. m
    BY <1>2
  <2> QED
    BY <1>4, <1>6, <2>1
<1>7. LastIn(u, c)
  BY <1>1, <1>5, <1>6 DEF LastIn
<1> QED
  BY <1>7 DEF u

LEMMA NoWritesFirst ==
  ASSUME NEW s, NEW n \in Nat, NEW I, Piece(s, n, I),
         \A c \in I : c.op = "WRITE" => c.ecx \notin D!Counter
  PROVE  ReadsFirst(s)
<1>1. \A j \in 1 .. Len(s) : s[j] \in I
  BY DEF Piece, Items
<1> QED
  BY <1>1 DEF ReadsFirst

LEMMA JoinReadsFirst ==
  ASSUME NEW s, NEW t, NEW n \in Nat, NEW m \in Nat, NEW I, NEW J,
         Piece(s, n, I), Piece(t, m, J), ReadsFirst(s), \A c \in J : c.op # "READ"
  PROVE  ReadsFirst(s \o t)
<1> DEFINE u == s \o t
<1>1. Len(u) = n + m /\ Len(s) = n /\ Len(t) = m
  BY JoinPieces DEF Piece
<1>2. \A j \in 1 .. n + m : u[j] = IF j <= n THEN s[j] ELSE t[j - n]
  <2>1. Joined(u, s, n, t, m)
    BY JoinPieces
  <2> HIDE DEF u
  <2> QED
    BY <2>1 DEF Joined
<1>3. \A j \in 1 .. m : t[j] \in J
  BY <1>1 DEF Piece, Items
<1> HIDE DEF u
<1>4. ASSUME NEW i \in 1 .. n + m, NEW j \in 1 .. n + m,
             i < j, u[i].op = "WRITE", u[j].op = "READ"
      PROVE  u[i].ecx \notin D!Counter
  <2>1. j <= n /\ j \in 1 .. n
    <3> SUFFICES ASSUME ~ (j <= n) PROVE FALSE
      OBVIOUS
    <3>1. u[j] = t[j - n] /\ j - n \in 1 .. m
      BY <1>2
    <3> QED
      BY <1>3, <1>4, <3>1
  <2>2. i <= n /\ i \in 1 .. n
    BY <1>4, <2>1
  <2>3. u[i] = s[i] /\ u[j] = s[j]
    BY <1>2, <2>1, <2>2
  <2> QED
    BY <1>1, <1>4, <2>1, <2>2, <2>3 DEF ReadsFirst
<1>5. ReadsFirst(u)
  BY <1>1, <1>4 DEF ReadsFirst
<1> QED
  BY <1>5 DEF u

-----------------------------------------------------------------------------
LEMMA Fields ==
  /\ \A r, v : W(r, v).op = "WRITE" /\ W(r, v).ecx = r /\ W(r, v).value = v
  /\ \A r : R(r).op = "READ" /\ R(r).ecx = r /\ R(r).value = 0
  /\ Rdtsc.op = "RDTSC" /\ Stop.op = "STOP" /\ Rdtsc.value = 0
BY DEF W, R, Rdtsc, Stop

LEMMA Registers ==
  /\ GlobalCtrl # FixedCtrl
  /\ \A n : EvtSel(n) \notin {GlobalCtrl, FixedCtrl} \cup D!Counter
  /\ GlobalCtrl \notin D!Counter /\ FixedCtrl \notin D!Counter
  /\ \A n, m : EvtSel(n) = EvtSel(m) => n = m
BY DEF GlobalCtrl, FixedCtrl, EvtSel, D!Counter, D!Pmc, D!Ffc

\* The commands that are not a counter's.
Controls == {Halt, FfcsOff, FfcsOn, CountersOn, Rdtsc} \cup Selects

LEMMA Values ==
  /\ 2^(PMC_COUNT + FFC_COUNT) - 1 \in Nat
  /\ 2 * ((16^FFC_COUNT - 1) \div 15) \in Nat
<1>1. PMC_COUNT + FFC_COUNT \in 0 .. PMC_COUNT + FFC_COUNT
      /\ FFC_COUNT \in 0 .. PMC_COUNT + FFC_COUNT
  BY Counts
<1>2. 2^(PMC_COUNT + FFC_COUNT) \in Nat \ {0} /\ 16^FFC_COUNT \in Nat \ {0}
  BY <1>1, PowerAssumption
<1> QED
  BY <1>2

LEMMA Basic ==
  /\ Controls \cup Zeroes \cup Reads \cup {Stop} \subseteq D!Cmd
  /\ \A c \in Controls \cup Zeroes \cup Reads : c.op \in Working
  /\ \A c \in Controls \cup Zeroes \cup {Stop} : c.op # "READ"
  /\ \A c \in Controls \cup Reads \cup {Stop} : c.op = "WRITE" => c.ecx \notin D!Counter
  /\ {Halt, FfcsOff, FfcsOn, CountersOn, Rdtsc} \subseteq Controls /\ Selects \subseteq Controls
<1>1. Controls \cup Zeroes \cup Reads \cup {Stop} \subseteq D!Cmd
  <2>1. {Halt, FfcsOff, FfcsOn, CountersOn, Rdtsc} \subseteq D!Cmd
    BY Commands, Values DEF Halt, FfcsOff, FfcsOn, CountersOn
  <2>2. Selects \subseteq D!Cmd
    BY Commands DEF Selects
  <2>3. Zeroes \cup Reads \cup {Stop} \subseteq D!Cmd
    BY Commands DEF Zeroes, Reads
  <2> QED
    BY <2>1, <2>2, <2>3 DEF Controls
<1>2. \A c \in Controls : /\ c.op \in Working /\ c.op # "READ"
                          /\ c.op = "WRITE" => c.ecx \notin D!Counter
  BY Fields, Registers DEF Controls, Halt, FfcsOff, FfcsOn, CountersOn, Selects, Working
<1>3. \A c \in Zeroes : c.op = "WRITE"
  BY Fields DEF Zeroes
<1>4. \A c \in Reads : c.op = "READ"
  BY Fields DEF Reads
<1> QED
  BY <1>1, <1>2, <1>3, <1>4, Fields DEF Working, Controls

StartShape(s, Z, E) ==
  /\ s \in Seq(D!Cmd) /\ DP!Plain(s)
  /\ Items(s) \subseteq Controls \cup {Stop} \cup {W(k, 0) : k \in Z}
  /\ \A k \in Z : W(k, 0) \in Items(s)
  /\ \A c \in E : LastIn(s, c)

AllOn == {FfcsOn, CountersOn} \cup Selects

LEMMA SelectsLast ==
  ASSUME NEW c \in Selects
  PROVE  LastIn(SelectAll, c)
<1>1. PICK n \in 1 .. PMC_COUNT : c = W(EvtSel(n - 1), 1)
  BY DEF Selects
<1>2. Len(SelectAll) = PMC_COUNT /\ SelectAll[n] = c
  BY <1>1, SelectPiece DEF Piece
<1>3. ASSUME NEW i \in n + 1 .. PMC_COUNT PROVE SelectAll[i].ecx # c.ecx
  <2>1. i \in 1 .. PMC_COUNT /\ i - 1 # n - 1
    BY Counts
  <2> QED
    BY <1>1, <2>1, SelectPiece, Fields, Registers
<1> QED
  BY <1>2, <1>3 DEF LastIn

\* Test.1 and test.3, whose first vectors differ in their second command.
LongStart(d) == <<Halt, d>> \o ZeroAll \o SelectAll \o <<FfcsOn, CountersOn, Stop>>

LEMMA StartLong ==
  ASSUME NEW d \in {FfcsOff, Rdtsc}
  PROVE  StartShape(LongStart(d), D!Counter, AllOn) /\ d \in Items(LongStart(d))
<1> DEFINE a == <<Halt, d>>
           b == a \o ZeroAll
           e == b \o SelectAll
           t == <<FfcsOn, CountersOn, Stop>>
           N == PMC_COUNT + FFC_COUNT
<1>1. N \in Nat /\ PMC_COUNT \in Nat /\ (2 + N) + PMC_COUNT + 3 <= VecLimit
  BY Counts, FitAssumption
<1>2. Piece(a, 2, {Halt, d})
  BY ShortPieces, Basic
<1>3. Piece(t, 3, {FfcsOn, CountersOn, Stop})
  BY ShortPieces, Basic
<1>4. Ends(t) /\ LastIn(t, FfcsOn) /\ LastIn(t, CountersOn)
  <2>1. t[1] = FfcsOn /\ t[2] = CountersOn /\ t[3] = Stop /\ Len(t) = 3
    OBVIOUS
  <2> HIDE DEF t
  <2>2. Ends(t)
    BY <2>1, Fields, Basic DEF Ends
  <2>3. FfcsOn.ecx # CountersOn.ecx /\ Stop.op # "WRITE"
    BY Fields, Registers DEF FfcsOn, CountersOn
  <2>4. LastIn(t, FfcsOn)
    BY <2>1, <2>3 DEF LastIn
  <2>5. LastIn(t, CountersOn)
    BY <2>1, <2>3 DEF LastIn
  <2> QED
    BY <2>2, <2>4, <2>5
<1> HIDE DEF a, t, N
<1>5. Piece(b, 2 + N, {Halt, d} \cup Zeroes)
  BY <1>1, <1>2, ZeroPiece, JoinPieces DEF N
<1> HIDE DEF b
<1>6. Piece(e, (2 + N) + PMC_COUNT, {Halt, d} \cup Zeroes \cup Selects)
  BY <1>1, <1>5, SelectPiece, JoinPieces
<1>7. ASSUME NEW c \in Selects PROVE LastIn(e, c)
  BY <1>1, <1>5, <1>7, SelectPiece, SelectsLast, LastRight
<1> HIDE DEF e
<1> DEFINE s == e \o t
           I == {Halt, d} \cup Zeroes \cup Selects \cup {FfcsOn, CountersOn, Stop}
<1>8. Piece(s, ((2 + N) + PMC_COUNT) + 3, I)
  BY <1>1, <1>3, <1>6, JoinPieces
<1>9. Ends(s)
  BY <1>1, <1>3, <1>4, <1>6, Basic, JoinEnds
<1>10. LastIn(s, FfcsOn) /\ LastIn(s, CountersOn)
  BY <1>1, <1>3, <1>4, <1>6, LastRight
<1>11. ASSUME NEW c \in Selects PROVE LastIn(s, c)
  <2>1. \A x \in {FfcsOn, CountersOn, Stop} : x.op = "WRITE" => x.ecx # c.ecx
    BY Fields, Registers DEF FfcsOn, CountersOn, Selects
  <2> QED
    BY <1>1, <1>3, <1>6, <1>7, <2>1, LastLeft
<1> HIDE DEF s
<1>12. s \in Seq(D!Cmd) /\ Items(s) = I
  BY <1>8 DEF Piece
<1>13. DP!Plain(s)
  BY <1>1, <1>8, <1>9, PlainEnds
<1>14. I \subseteq Controls \cup {Stop} \cup Zeroes /\ Zeroes \subseteq I /\ d \in I
  BY Basic
<1>15. StartShape(s, D!Counter, AllOn) /\ d \in Items(s)
  BY <1>10, <1>11, <1>12, <1>13, <1>14 DEF StartShape, AllOn, Zeroes
<1> QED
  BY <1>15 DEF s, e, b, a, t, LongStart

\* Test.2: the fixed counters are enabled before the events are selected.
LEMMA StartVec2Shape == StartShape(StartVec2, D!Counter, AllOn)
<1> DEFINE a == <<Halt>>
           b == a \o ZeroAll
           f == <<FfcsOn>>
           g == b \o f
           e == g \o SelectAll
           t == <<CountersOn, Stop>>
           N == PMC_COUNT + FFC_COUNT
<1>1. N \in Nat /\ PMC_COUNT \in Nat /\ ((1 + N) + 1) + PMC_COUNT + 2 <= VecLimit
  BY Counts, FitAssumption
<1>2. Piece(a, 1, {Halt}) /\ Piece(f, 1, {FfcsOn}) /\ Piece(t, 2, {CountersOn, Stop})
  BY ShortPieces, Basic
<1>3. Ends(t) /\ LastIn(t, CountersOn) /\ LastIn(f, FfcsOn)
  <2>1. t[1] = CountersOn /\ t[2] = Stop /\ Len(t) = 2 /\ f[1] = FfcsOn /\ Len(f) = 1
    OBVIOUS
  <2> HIDE DEF t, f
  <2>2. Ends(t)
    BY <2>1, Fields, Basic DEF Ends
  <2>3. LastIn(t, CountersOn) /\ LastIn(f, FfcsOn)
    BY <2>1, Fields DEF LastIn
  <2> QED
    BY <2>2, <2>3
<1> HIDE DEF a, f, t, N
<1>4. Piece(b, 1 + N, {Halt} \cup Zeroes)
  BY <1>1, <1>2, ZeroPiece, JoinPieces DEF N
<1> HIDE DEF b
<1>5. Piece(g, (1 + N) + 1, {Halt} \cup Zeroes \cup {FfcsOn}) /\ LastIn(g, FfcsOn)
  BY <1>1, <1>2, <1>3, <1>4, JoinPieces, LastRight
<1> HIDE DEF g
<1>6. Piece(e, ((1 + N) + 1) + PMC_COUNT, {Halt} \cup Zeroes \cup {FfcsOn} \cup Selects)
  BY <1>1, <1>5, SelectPiece, JoinPieces
<1>7. LastIn(e, FfcsOn)
  <2>1. \A x \in Selects : x.op = "WRITE" => x.ecx # FfcsOn.ecx
    BY Fields, Registers DEF FfcsOn, Selects
  <2> QED
    BY <1>1, <1>5, <2>1, SelectPiece, LastLeft
<1>8. ASSUME NEW c \in Selects PROVE LastIn(e, c)
  BY <1>1, <1>5, <1>8, SelectPiece, SelectsLast, LastRight
<1> HIDE DEF e
<1> DEFINE s == e \o t
           I == {Halt} \cup Zeroes \cup {FfcsOn} \cup Selects \cup {CountersOn, Stop}
<1>9. Piece(s, (((1 + N) + 1) + PMC_COUNT) + 2, I)
  BY <1>1, <1>2, <1>6, JoinPieces
<1>10. Ends(s)
  BY <1>1, <1>2, <1>3, <1>6, Basic, JoinEnds
<1>11. LastIn(s, CountersOn)
  BY <1>1, <1>2, <1>3, <1>6, LastRight
<1>12. ASSUME NEW c \in Selects \cup {FfcsOn} PROVE LastIn(s, c)
  <2>1. \A x \in {CountersOn, Stop} : x.op = "WRITE" => x.ecx # c.ecx
    BY Fields, Registers DEF FfcsOn, CountersOn, Selects
  <2> QED
    BY <1>1, <1>2, <1>6, <1>7, <1>8, <2>1, LastLeft
<1> HIDE DEF s
<1>13. s \in Seq(D!Cmd) /\ Items(s) = I
  BY <1>9 DEF Piece
<1>14. DP!Plain(s)
  BY <1>1, <1>9, <1>10, PlainEnds
<1>15. I \subseteq Controls \cup {Stop} \cup Zeroes /\ Zeroes \subseteq I
  BY Basic
<1>16. StartShape(s, D!Counter, AllOn)
  BY <1>11, <1>12, <1>13, <1>14, <1>15 DEF StartShape, AllOn, Zeroes
<1> QED
  BY <1>16 DEF s, e, g, f, b, a, t, StartVec2

LEMMA ResetMsrShape ==
  StartShape(ResetMsrScript, D!Counter, AllOn) /\ Rdtsc \in Items(ResetMsrScript)
<1> DEFINE a == <<Halt>>
           b == a \o ZeroAll
           e == b \o SelectAll
           t == <<Rdtsc, FfcsOn, CountersOn, Stop>>
           N == PMC_COUNT + FFC_COUNT
<1>1. N \in Nat /\ PMC_COUNT \in Nat /\ (1 + N) + PMC_COUNT + 4 <= VecLimit
  BY Counts, FitAssumption
<1>2. Piece(a, 1, {Halt}) /\ Piece(t, 4, {Rdtsc, FfcsOn, CountersOn, Stop})
  BY ShortPieces, Basic
<1>3. Ends(t) /\ LastIn(t, FfcsOn) /\ LastIn(t, CountersOn)
  <2>1. t[1] = Rdtsc /\ t[2] = FfcsOn /\ t[3] = CountersOn /\ t[4] = Stop /\ Len(t) = 4
    OBVIOUS
  <2> HIDE DEF t
  <2>2. Ends(t)
    BY <2>1, Fields, Basic DEF Ends
  <2>3. FfcsOn.ecx # CountersOn.ecx /\ Stop.op # "WRITE"
    BY Fields, Registers DEF FfcsOn, CountersOn
  <2>4. LastIn(t, FfcsOn)
    BY <2>1, <2>3 DEF LastIn
  <2>5. LastIn(t, CountersOn)
    BY <2>1, <2>3 DEF LastIn
  <2> QED
    BY <2>2, <2>4, <2>5
<1> HIDE DEF a, t, N
<1>4. Piece(b, 1 + N, {Halt} \cup Zeroes)
  BY <1>1, <1>2, ZeroPiece, JoinPieces DEF N
<1> HIDE DEF b
<1>5. Piece(e, (1 + N) + PMC_COUNT, {Halt} \cup Zeroes \cup Selects)
  BY <1>1, <1>4, SelectPiece, JoinPieces
<1>6. ASSUME NEW c \in Selects PROVE LastIn(e, c)
  BY <1>1, <1>4, <1>6, SelectPiece, SelectsLast, LastRight
<1> HIDE DEF e
<1> DEFINE s == e \o t
           I == {Halt} \cup Zeroes \cup Selects \cup {Rdtsc, FfcsOn, CountersOn, Stop}
<1>7. Piece(s, ((1 + N) + PMC_COUNT) + 4, I)
  BY <1>1, <1>2, <1>5, JoinPieces
<1>8. Ends(s)
  BY <1>1, <1>2, <1>3, <1>5, Basic, JoinEnds
<1>9. LastIn(s, FfcsOn) /\ LastIn(s, CountersOn)
  BY <1>1, <1>2, <1>3, <1>5, LastRight
<1>10. ASSUME NEW c \in Selects PROVE LastIn(s, c)
  <2>1. \A x \in {Rdtsc, FfcsOn, CountersOn, Stop} : x.op = "WRITE" => x.ecx # c.ecx
    BY Fields, Registers DEF FfcsOn, CountersOn, Selects
  <2> QED
    BY <1>1, <1>2, <1>5, <1>6, <2>1, LastLeft
<1> HIDE DEF s
<1>11. s \in Seq(D!Cmd) /\ Items(s) = I
  BY <1>7 DEF Piece
<1>12. DP!Plain(s)
  BY <1>1, <1>7, <1>8, PlainEnds
<1>13. I \subseteq Controls \cup {Stop} \cup Zeroes /\ Zeroes \subseteq I /\ Rdtsc \in I
  BY Basic
<1>14. StartShape(s, D!Counter, AllOn) /\ Rdtsc \in Items(s)
  BY <1>9, <1>10, <1>11, <1>12, <1>13 DEF StartShape, AllOn, Zeroes
<1> QED
  BY <1>14 DEF s, e, b, a, t, ResetMsrScript

\* Test.6 resets with a script of its own.
LEMMA PmcCfg0Shape == StartShape(PmcCfg0, {}, AllOn)
<1> DEFINE f == <<FfcsOn>>
           e == f \o SelectAll
           t == <<CountersOn, Stop>>
<1>1. PMC_COUNT \in Nat /\ 1 + PMC_COUNT + 2 <= VecLimit
  BY Counts, FitAssumption
<1>2. Piece(f, 1, {FfcsOn}) /\ Piece(t, 2, {CountersOn, Stop})
  BY ShortPieces, Basic
<1>3. Ends(t) /\ LastIn(t, CountersOn) /\ LastIn(f, FfcsOn)
  <2>1. t[1] = CountersOn /\ t[2] = Stop /\ Len(t) = 2 /\ f[1] = FfcsOn /\ Len(f) = 1
    OBVIOUS
  <2> HIDE DEF t, f
  <2>2. Ends(t)
    BY <2>1, Fields, Basic DEF Ends
  <2>3. LastIn(t, CountersOn) /\ LastIn(f, FfcsOn)
    BY <2>1, Fields DEF LastIn
  <2> QED
    BY <2>2, <2>3
<1> HIDE DEF f, t
<1>4. Piece(e, 1 + PMC_COUNT, {FfcsOn} \cup Selects)
  BY <1>1, <1>2, SelectPiece, JoinPieces
<1>5. LastIn(e, FfcsOn)
  <2>1. \A x \in Selects : x.op = "WRITE" => x.ecx # FfcsOn.ecx
    BY Fields, Registers DEF FfcsOn, Selects
  <2> QED
    BY <1>1, <1>2, <1>3, <2>1, SelectPiece, LastLeft
<1>6. ASSUME NEW c \in Selects PROVE LastIn(e, c)
  BY <1>1, <1>2, <1>6, SelectPiece, SelectsLast, LastRight
<1> HIDE DEF e
<1> DEFINE s == e \o t
           I == {FfcsOn} \cup Selects \cup {CountersOn, Stop}
<1>7. Piece(s, (1 + PMC_COUNT) + 2, I)
  BY <1>1, <1>2, <1>4, JoinPieces
<1>8. Ends(s)
  BY <1>1, <1>2, <1>3, <1>4, Basic, JoinEnds
<1>9. LastIn(s, CountersOn)
  BY <1>1, <1>2, <1>3, <1>4, LastRight
<1>10. ASSUME NEW c \in Selects \cup {FfcsOn} PROVE LastIn(s, c)
  <2>1. \A x \in {CountersOn, Stop} : x.op = "WRITE" => x.ecx # c.ecx
    BY Fields, Registers DEF FfcsOn, CountersOn, Selects
  <2> QED
    BY <1>1, <1>2, <1>4, <1>5, <1>6, <2>1, LastLeft
<1> HIDE DEF s
<1>11. s \in Seq(D!Cmd) /\ Items(s) = I
  BY <1>7 DEF Piece
<1>12. DP!Plain(s)
  BY <1>1, <1>7, <1>8, PlainEnds
<1>13. I \subseteq Controls \cup {Stop}
  BY Basic
<1>14. StartShape(s, {}, AllOn)
  BY <1>9, <1>10, <1>11, <1>12, <1>13 DEF StartShape, AllOn
<1> QED
  BY <1>14 DEF s, e, f, t, PmcCfg0

\* Test.0 uses the first programmable counter only.
FirstOn == {CountersOn, W(EvtSel(0), 1)}

LEMMA StartVec0Shape == StartShape(StartVec0, {Pmc(0)}, FirstOn)
<1> DEFINE e == W(EvtSel(0), 1)
           z == W(Pmc(0), 0)
           s == <<FfcsOn, CountersOn, e, z, Stop>>
<1>1. e \in Selects /\ z \in Zeroes
  <2>1. 1 \in 1 .. PMC_COUNT /\ 1 - 1 = 0
    BY Counts
  <2>2. Pmc(0) \in D!Counter
    BY <2>1, Commands
  <2> QED
    BY <2>1, <2>2 DEF Selects, Zeroes
<1>2. /\ FfcsOn.op = "WRITE" /\ CountersOn.op = "WRITE" /\ e.op = "WRITE" /\ z.op = "WRITE"
      /\ e.ecx # CountersOn.ecx /\ z.ecx # CountersOn.ecx /\ z.ecx # e.ecx
  BY <1>1, Fields, Registers DEF FfcsOn, CountersOn, Selects, Zeroes
<1>3. z = W(Pmc(0), 0) /\ e = W(EvtSel(0), 1)
  OBVIOUS
<1> HIDE DEF e, z
<1>4. Piece(s, 5, {FfcsOn, CountersOn, e, z, Stop})
  BY <1>1, ShortPieces, Basic
<1>5. s[1] = FfcsOn /\ s[2] = CountersOn /\ s[3] = e /\ s[4] = z /\ s[5] = Stop /\ Len(s) = 5
  OBVIOUS
<1> HIDE DEF s
<1>6. Ends(s)
  <2>1. \A j \in 1 .. 4 : j = 1 \/ j = 2 \/ j = 3 \/ j = 4
    OBVIOUS
  <2> QED
    BY <1>2, <1>5, <2>1, Fields DEF Ends, Working
<1>7. LastIn(s, CountersOn)
  <2>1. \A j \in 3 .. 5 : j = 3 \/ j = 4 \/ j = 5
    OBVIOUS
  <2> QED
    BY <1>2, <1>5, <2>1, Fields DEF LastIn
<1>8. LastIn(s, e)
  <2>1. \A j \in 4 .. 5 : j = 4 \/ j = 5
    OBVIOUS
  <2> QED
    BY <1>2, <1>5, <2>1, Fields DEF LastIn
<1>9. 5 \in Nat /\ 5 <= VecLimit
  BY Counts, FitAssumption
<1>10. DP!Plain(s)
  BY <1>4, <1>6, <1>9, PlainEnds
<1>11. s \in Seq(D!Cmd) /\ Items(s) = {FfcsOn, CountersOn, e, z, Stop}
  BY <1>4 DEF Piece
<1>12. StartShape(s, {Pmc(0)}, FirstOn)
  BY <1>1, <1>3, <1>7, <1>8, <1>10, <1>11, Basic DEF StartShape, FirstOn
<1> QED
  BY <1>12 DEF s, e, z, StartVec0

-----------------------------------------------------------------------------
StopShape(s, K, Z) ==
  /\ s \in Seq(D!Cmd) /\ DP!Plain(s)
  /\ Items(s) \subseteq {Halt, FfcsOff, Rdtsc, Stop} \cup {R(k) : k \in K} \cup {W(k, 0) : k \in Z}
  /\ Halt \in Items(s) /\ \A k \in K : R(k) \in Items(s)
  /\ ReadsFirst(s)

LEMMA EndPiece == Piece(<<Stop>>, 1, {Stop}) /\ Ends(<<Stop>>)
<1>1. Piece(<<Stop>>, 1, {Stop})
  BY ShortPieces, Basic
<1> DEFINE t == <<Stop>>
<1>2. Len(t) = 1 /\ t[1] = Stop
  OBVIOUS
<1> HIDE DEF t
<1>3. Ends(t)
  BY <1>2, Fields DEF Ends
<1> QED
  BY <1>1, <1>3 DEF t

\* Test.1 to test.3 zero the counters after they have been read.
LongStop(a) == a \o ReadAll \o ZeroAll \o <<Stop>>

LEMMA StopLong ==
  ASSUME NEW a, NEW n \in 1 .. 3, NEW I \in SUBSET {Halt, FfcsOff, Rdtsc}, Halt \in I,
         Piece(a, n, I)
  PROVE  StopShape(LongStop(a), D!Counter, D!Counter) /\ I \subseteq Items(LongStop(a))
<1> DEFINE t == <<Stop>>
           b == a \o ReadAll
           e == b \o ZeroAll
           s == e \o t
           N == PMC_COUNT + FFC_COUNT
           J == (I \cup Reads) \cup Zeroes
<1>1. N \in Nat /\ n \in Nat /\ ((n + N) + N) + 1 <= VecLimit /\ (n + N) + N \in Nat
  BY Counts, FitAssumption
<1>2. Piece(t, 1, {Stop}) /\ Ends(t)
  BY EndPiece
<1>3. /\ \A c \in J : c.op \in Working
      /\ \A c \in I \cup Reads : c.op = "WRITE" => c.ecx \notin D!Counter
      /\ \A c \in Zeroes \cup {Stop} : c.op # "READ"
  BY Basic
<1> HIDE DEF t, N
<1>4. Piece(b, n + N, I \cup Reads)
  BY <1>1, ReadPiece, JoinPieces DEF N
<1>5. ReadsFirst(b)
  <2> HIDE DEF b
  <2>1. n + N \in Nat
    BY <1>1
  <2> QED
    BY <1>3, <1>4, <2>1, NoWritesFirst
<1> HIDE DEF b
<1>6. Piece(e, (n + N) + N, J) /\ ReadsFirst(e)
  <2>1. n + N \in Nat
    BY <1>1
  <2> QED
    BY <1>1, <1>3, <1>4, <1>5, <2>1, ZeroPiece, JoinPieces, JoinReadsFirst DEF N
<1> HIDE DEF e, J
<1>7. Piece(s, ((n + N) + N) + 1, J \cup {Stop})
  BY <1>1, <1>2, <1>6, JoinPieces
<1>8. ReadsFirst(s)
  BY <1>1, <1>2, <1>3, <1>6, JoinReadsFirst
<1>9. Ends(s)
  BY <1>1, <1>2, <1>3, <1>6, JoinEnds
<1> HIDE DEF s
<1>10. s \in Seq(D!Cmd) /\ Items(s) = J \cup {Stop}
  BY <1>7 DEF Piece
<1>11. DP!Plain(s)
  BY <1>1, <1>7, <1>9, PlainEnds
<1>12. /\ J \cup {Stop} \subseteq {Halt, FfcsOff, Rdtsc, Stop} \cup Reads \cup Zeroes
       /\ Reads \subseteq J /\ I \subseteq J
  BY DEF J
<1>13. StopShape(s, D!Counter, D!Counter) /\ I \subseteq Items(s)
  BY <1>8, <1>10, <1>11, <1>12 DEF StopShape, Reads, Zeroes
<1> QED
  BY <1>13 DEF s, e, b, t, LongStop

\* Test.4 and test.6 leave the counters as they are.
ShortStop(a) == a \o ReadAll \o <<Stop>>

LEMMA StopShort ==
  ASSUME NEW a, NEW n \in 1 .. 3, NEW I \in SUBSET {Halt, FfcsOff, Rdtsc}, Halt \in I,
         Piece(a, n, I)
  PROVE  StopShape(ShortStop(a), D!Counter, {}) /\ I \subseteq Items(ShortStop(a))
<1> DEFINE t == <<Stop>>
           b == a \o ReadAll
           s == b \o t
           N == PMC_COUNT + FFC_COUNT
           J == I \cup Reads
<1>1. N \in Nat /\ n \in Nat /\ (n + N) + 1 <= VecLimit /\ n + N \in Nat
  BY Counts, FitAssumption
<1>2. Piece(t, 1, {Stop}) /\ Ends(t)
  BY EndPiece
<1>3. /\ \A c \in J : c.op \in Working
      /\ \A c \in J \cup {Stop} : c.op = "WRITE" => c.ecx \notin D!Counter
  BY Basic
<1> HIDE DEF t, N
<1>4. Piece(b, n + N, J)
  BY <1>1, ReadPiece, JoinPieces DEF N
<1> HIDE DEF b, J
<1>5. Piece(s, (n + N) + 1, J \cup {Stop})
  BY <1>1, <1>2, <1>4, JoinPieces
<1>6. Ends(s)
  BY <1>1, <1>2, <1>3, <1>4, JoinEnds
<1> HIDE DEF s
<1>7. ReadsFirst(s)
  <2>1. (n + N) + 1 \in Nat
    BY <1>1
  <2> QED
    BY <1>3, <1>5, <2>1, NoWritesFirst
<1>8. s \in Seq(D!Cmd) /\ Items(s) = J \cup {Stop}
  BY <1>5 DEF Piece
<1>9. DP!Plain(s)
  BY <1>1, <1>5, <1>6, PlainEnds
<1>10. /\ J \cup {Stop} \subseteq {Halt, FfcsOff, Rdtsc, Stop} \cup Reads
       /\ Reads \subseteq J /\ I \subseteq J
  BY DEF J
<1>11. StopShape(s, D!Counter, {}) /\ I \subseteq Items(s)
  BY <1>7, <1>8, <1>9, <1>10 DEF StopShape, Reads
<1> QED
  BY <1>11 DEF s, b, t, ShortStop

LEMMA StopVec0Shape == StopShape(StopVec0, {Pmc(0)}, {})
<1> DEFINE c == R(Pmc(0))
           s == <<FfcsOff, Halt, c, Stop>>
<1>1. c \in Reads
  <2>1. 1 \in 1 .. PMC_COUNT /\ 1 - 1 = 0
    BY Counts
  <2>2. Pmc(0) \in D!Counter
    BY <2>1, Commands
  <2> QED
    BY <2>2 DEF Reads
<1>2. c = R(Pmc(0))
  OBVIOUS
<1> HIDE DEF c
<1>3. Piece(s, 4, {FfcsOff, Halt, c, Stop})
  BY <1>1, ShortPieces, Basic
<1>4. s[1] = FfcsOff /\ s[2] = Halt /\ s[3] = c /\ s[4] = Stop /\ Len(s) = 4
  OBVIOUS
<1> HIDE DEF s
<1>5. Ends(s)
  <2>1. \A j \in 1 .. 3 : j = 1 \/ j = 2 \/ j = 3
    OBVIOUS
  <2>2. FfcsOff.op \in Working /\ Halt.op \in Working /\ c.op \in Working
    BY <1>1, Basic
  <2> QED
    BY <1>4, <2>1, <2>2, Fields DEF Ends
<1>6. 4 \in Nat /\ 4 <= VecLimit
  BY Counts, FitAssumption
<1>7. DP!Plain(s)
  BY <1>3, <1>5, <1>6, PlainEnds
<1>8. ReadsFirst(s)
  <2>1. \A d \in {FfcsOff, Halt, c, Stop} : d.op = "WRITE" => d.ecx \notin D!Counter
    BY <1>1, Basic
  <2> QED
    BY <1>3, <1>6, <2>1, NoWritesFirst
<1>9. s \in Seq(D!Cmd) /\ Items(s) = {FfcsOff, Halt, c, Stop}
  BY <1>3 DEF Piece
<1>10. StopShape(s, {Pmc(0)}, {})
  BY <1>2, <1>7, <1>8, <1>9 DEF StopShape
<1> QED
  BY <1>10 DEF s, c, StopVec0

ResetShape(s) ==
  /\ s \in Seq(D!Cmd) /\ DP!Plain(s)
  /\ Items(s) = {Halt, Stop} \cup {W(k, 0) : k \in D!Counter}

LEMMA PmcResetShape == ResetShape(PmcReset)
<1> DEFINE t == <<Stop>>
           a == <<Halt>>
           b == a \o ZeroAll
           s == b \o t
           N == PMC_COUNT + FFC_COUNT
<1>1. N \in Nat /\ (1 + N) + 1 <= VecLimit
  BY Counts, FitAssumption
<1>2. Piece(t, 1, {Stop}) /\ Ends(t) /\ Piece(a, 1, {Halt})
  BY EndPiece, ShortPieces, Basic
<1> HIDE DEF a, t, N
<1>3. Piece(b, 1 + N, {Halt} \cup Zeroes)
  BY <1>1, <1>2, ZeroPiece, JoinPieces DEF N
<1> HIDE DEF b
<1>4. Piece(s, (1 + N) + 1, {Halt} \cup Zeroes \cup {Stop})
  BY <1>1, <1>2, <1>3, JoinPieces
<1>5. Ends(s)
  BY <1>1, <1>2, <1>3, Basic, JoinEnds
<1> HIDE DEF s
<1>6. DP!Plain(s)
  BY <1>1, <1>4, <1>5, PlainEnds
<1>7. ResetShape(s)
  BY <1>4, <1>6 DEF ResetShape, Piece, Zeroes
<1> QED
  BY <1>7 DEF s, b, a, t, PmcReset

(***************************************************************************)
(* All scripts of all programs.                                            *)
(***************************************************************************)
Enabling(g) == IF g = "test.0" THEN FirstOn ELSE AllOn

StartZeroes(g) ==
  IF g = "test.6" THEN {} ELSE IF g = "test.0" THEN {Pmc(0)} ELSE D!Counter

StopZeroes(g) == IF g \in {"test.1", "test.2", "test.3"} THEN D!Counter ELSE {}

LEMMA Scripts ==
  ASSUME NEW g \in Program
  PROVE  /\ StartShape(StartScript(g), StartZeroes(g), Enabling(g))
         /\ StopShape(StopScript(g), Shown(g), StopZeroes(g))
         /\ g \in Looping => Rdtsc \in Items(StartScript(g)) /\ Rdtsc \in Items(StopScript(g))
<1> USE DEF StartScript, StopScript, StartZeroes, StopZeroes, Enabling, Shown, Looping
<1>1. g \in {"test.0", "test.1", "test.2", "test.3", "test.4", "test.6"}
  BY TestAssumption
<1>2. CASE g = "test.0"
  BY <1>2, StartVec0Shape, StopVec0Shape
<1>3. CASE g = "test.1"
  <2>1. StartShape(Start1, D!Counter, AllOn)
    BY StartLong DEF Start1, LongStart
  <2>2. /\ Piece(<<Halt, FfcsOff>>, 2, {Halt, FfcsOff}) /\ 2 \in 1 .. 3
        /\ {Halt, FfcsOff} \in SUBSET {Halt, FfcsOff, Rdtsc}
    BY ShortPieces, Basic
  <2>3. Stop1 = LongStop(<<Halt, FfcsOff>>)
    BY DEF Stop1, LongStop
  <2>4. StopShape(Stop1, D!Counter, D!Counter)
    BY <2>2, <2>3, StopLong
  <2> QED
    BY <1>3, <2>1, <2>4
<1>4. CASE g = "test.2"
  <2>1. /\ Piece(<<Halt>>, 1, {Halt}) /\ 1 \in 1 .. 3
        /\ {Halt} \in SUBSET {Halt, FfcsOff, Rdtsc}
    BY ShortPieces, Basic
  <2>2. StopVec2 = LongStop(<<Halt>>)
    BY DEF StopVec2, LongStop
  <2>3. StopShape(StopVec2, D!Counter, D!Counter)
    BY <2>1, <2>2, StopLong
  <2> QED
    BY <1>4, <2>3, StartVec2Shape
<1>5. CASE g = "test.3"
  <2>1. StartShape(Start3, D!Counter, AllOn) /\ Rdtsc \in Items(Start3)
    BY StartLong DEF Start3, LongStart
  <2>2. /\ Piece(<<Halt, FfcsOff, Rdtsc>>, 3, {Halt, FfcsOff, Rdtsc}) /\ 3 \in 1 .. 3
        /\ {Halt, FfcsOff, Rdtsc} \in SUBSET {Halt, FfcsOff, Rdtsc}
    BY ShortPieces, Basic
  <2>3. Stop3 = LongStop(<<Halt, FfcsOff, Rdtsc>>)
    BY DEF Stop3, LongStop
  <2>4. StopShape(Stop3, D!Counter, D!Counter) /\ Rdtsc \in Items(Stop3)
    BY <2>2, <2>3, StopLong
  <2> QED
    BY <1>5, <2>1, <2>4
<1>6. CASE g = "test.4"
  <2>1. /\ Piece(<<Halt, FfcsOff, Rdtsc>>, 3, {Halt, FfcsOff, Rdtsc}) /\ 3 \in 1 .. 3
        /\ {Halt, FfcsOff, Rdtsc} \in SUBSET {Halt, FfcsOff, Rdtsc}
    BY ShortPieces, Basic
  <2>2. ReadMsrValues = ShortStop(<<Halt, FfcsOff, Rdtsc>>)
    BY DEF ReadMsrValues, ShortStop
  <2>3. StopShape(ReadMsrValues, D!Counter, {}) /\ Rdtsc \in Items(ReadMsrValues)
    BY <2>1, <2>2, StopShort
  <2> QED
    BY <1>6, <2>3, ResetMsrShape
<1>7. CASE g = "test.6"
  <2>1. /\ Piece(<<Halt>>, 1, {Halt}) /\ 1 \in 1 .. 3
        /\ {Halt} \in SUBSET {Halt, FfcsOff, Rdtsc}
    BY ShortPieces, Basic
  <2>2. PmcRead = ShortStop(<<Halt>>)
    BY DEF PmcRead, ShortStop
  <2>3. StopShape(PmcRead, D!Counter, {})
    BY <2>1, <2>2, StopShort
  <2> QED
    BY <1>7, <2>3, PmcCfg0Shape
<1> QED
  BY <1>1, <1>2, <1>3, <1>4, <1>5, <1>6, <1>7

-----------------------------------------------------------------------------
(***************************************************************************)
(* What MsrDriverProofs shows of the driver holds under the programs.      *)
(***************************************************************************)
LEMMA DriverAssumptions == DP!CountAssumption /\ DP!VectorAssumption /\ DP!PowerLaw
<1>1. DP!CountAssumption
  BY Counts DEF DP!CountAssumption
<1>2. DP!PowerLaw
  BY PowerAssumption DEF DP!PowerLaw
<1>3. ASSUME NEW v \in Seq(D!Cmd), DP!Plain(v) PROVE v \in Seq(DP!Cmd) /\ DP!Terminated(v)
  <2>1. Len(v) \in 1 .. Len(v) /\ Len(v) <= VecLimit + 1 /\ v[Len(v)].op = "STOP"
    BY <1>3, Counts DEF DP!Plain
  <2> QED
    BY <2>1, SameSets DEF DP!Terminated
<1>4. ASSUME NEW v \in AllVectors PROVE v \in Seq(D!Cmd) /\ DP!Plain(v)
  <2>1. PICK g \in Program, b \in Script : v = ScriptOf(g, b)
    BY DEF AllVectors
  <2> QED
    BY <2>1, Scripts, PmcResetShape
       DEF ScriptOf, Script, StartShape, StopShape, ResetShape
<1>5. DP!VectorAssumption
  BY <1>3, <1>4 DEF DP!VectorAssumption
<1> QED
  BY <1>1, <1>2, <1>5

LEMMA OneClient == Self \in Client /\ \A p \in Client : p = Self
BY DEF Self, Client

\* A step of the driver, or of the processor, under a program.
DriverMoves ==
  \/ D!Open(Self) \/ D!Close(Self) \/ D!IoctlStep(Self)
  \/ \E b \in Script : D!IoctlEnter(Self, b)
  \/ \E c \in Cpu : D!Tick(c) \/ D!Migrate(Self, c)
  \/ UNCHANGED driverVars

LEMMA SameStep ==
  /\ D!IoctlStep(Self) => DP!IoctlStep(Self)
  /\ \A c \in Cpu : D!Tick(c) => DP!Tick(c)
<1> USE DEF D!device, D!client, D!memory, D!call, DP!device, DP!client, DP!memory, DP!call
<1>1. ASSUME NEW c \in Cpu, D!Tick(c) PROVE DP!Tick(c)
  <2>1. \A m : DP!EnabledCounters(m) = D!EnabledCounters(m)
    BY DEF D!EnabledCounters, DP!EnabledCounters, D!PmcEnabled, DP!PmcEnabled,
       D!FfcEnabled, DP!FfcEnabled, D!BitSet, DP!BitSet, D!Pmc, DP!Pmc, D!Ffc, DP!Ffc,
       D!GlobalCtrl, DP!GlobalCtrl, D!FixedCtrl, DP!FixedCtrl, D!EvtSel, DP!EvtSel
  <2> QED
    BY <1>1, <2>1, SameSets DEF D!Tick, DP!Tick
<1>2. ASSUME NEW p \in Client, D!IoctlStep(p) PROVE DP!IoctlStep(p)
  <2>1. D!Current(p) = DP!Current(p)
    BY DEF D!Current, DP!Current
  <2>2. \A o : D!At(p, o) <=> DP!At(p, o)
    BY <2>1 DEF D!At, DP!At
  <2>3. \A v : D!Store(p, v) <=> DP!Store(p, v)
    BY DEF D!Store, DP!Store
  <2>4. \A v : D!Return(p, v) <=> DP!Return(p, v)
    BY DEF D!Return, DP!Return
  <2>5. D!Advance(p) <=> DP!Advance(p)
    BY DEF D!Advance, DP!Advance
  <2>6. D!Nop(p) => DP!Nop(p)
    BY <2>2, <2>5 DEF D!Nop, DP!Nop
  <2>7. D!ReadMsr(p) => DP!ReadMsr(p)
    BY <2>1, <2>2, <2>3, <2>5 DEF D!ReadMsr, DP!ReadMsr
  <2>8. D!WriteMsr(p) => DP!WriteMsr(p)
    BY <2>1, <2>2, <2>5, SameSets DEF D!WriteMsr, DP!WriteMsr
  <2>9. D!ReadTsc(p) => DP!ReadTsc(p)
    BY <2>2, <2>3, <2>5 DEF D!ReadTsc, DP!ReadTsc
  <2>10. D!Stop(p) => DP!Stop(p)
    BY <2>2, <2>4 DEF D!Stop, DP!Stop
  <2>11. D!UnknownOp(p) => DP!UnknownOp(p)
    BY <2>2, <2>4 DEF D!UnknownOp, DP!UnknownOp
  <2>12. D!LimitReached(p) => DP!LimitReached(p)
    BY <2>4 DEF D!LimitReached, DP!LimitReached
  <2> QED
    BY <1>2, <2>6, <2>7, <2>8, <2>9, <2>10, <2>11, <2>12 DEF D!IoctlStep, DP!IoctlStep
<1> QED
  BY <1>1, <1>2, OneClient

LEMMA DriverKeeps == ASSUME DP!Inv, DriverMoves PROVE DP!Inv'
<1> USE DEF D!device, D!client, D!memory, D!call, DP!device, DP!client, DP!memory, DP!call
<1>1. ASSUME [DP!Next]_(DP!vars) PROVE DP!Inv'
  BY <1>1, DriverAssumptions, DP!NextInv
<1>2. D!Open(Self) => DP!Open(Self)
  BY DEF D!Open, DP!Open
<1>3. D!Close(Self) => DP!Close(Self)
  BY DEF D!Close, DP!Close
<1>4. ASSUME NEW b \in Script, D!IoctlEnter(Self, b) PROVE DP!IoctlEnter(Self, b)
  BY <1>4 DEF D!IoctlEnter, DP!IoctlEnter
<1>5. UNCHANGED driverVars => UNCHANGED DP!vars
  BY DEF driverVars, DP!vars
<1>7. ASSUME NEW c \in Cpu, D!Migrate(Self, c) PROVE DP!Migrate(Self, c)
  BY <1>7 DEF D!Migrate, DP!Migrate
<1> HIDE DEF D!device, D!client, D!memory, D!call, DP!device, DP!client, DP!memory, DP!call
<1>6. DriverMoves => [DP!Next]_(DP!vars)
  BY <1>2, <1>3, <1>4, <1>5, <1>7, SameStep, OneClient DEF DriverMoves, DP!Next
<1> QED
  BY <1>1, <1>6

(***************************************************************************)
(* The parts of the driver's invariant that the programs rely on.          *)
(***************************************************************************)
DriverTypes ==
  /\ msr \in [Cpu -> [D!Reg -> Nat]]
  /\ tsc \in Nat
  /\ cpu \in [Client -> Cpu]
  /\ open \in [Client -> BOOLEAN]
  /\ mem \in [Client -> [Script -> Seq(D!Cmd)]]
  /\ given \in [Client -> [Script -> AllVectors]]
  /\ incall \in [Client -> BOOLEAN]
  /\ cur \in [Client -> Script]
  /\ idx \in [Client -> Nat]

LEMMA DriverFacts ==
  ASSUME DP!Inv
  PROVE  /\ DriverTypes
         /\ \A p \in Client : incall[p] => open[p]
         /\ \A p \in Client, b \in Script :
              /\ Len(mem[p][b]) = Len(given[p][b])
              /\ \A j \in 1 .. Len(mem[p][b]) :
                   /\ mem[p][b][j].op = given[p][b][j].op
                   /\ mem[p][b][j].ecx = given[p][b][j].ecx
                   /\ mem[p][b][j].op \notin {"READ", "RDTSC"}
                        => mem[p][b][j].value = given[p][b][j].value
         /\ \A p \in Client : incall[p] => idx[p] <= Len(mem[p][cur[p]])
BY SameSets DEF DP!Inv, DP!TypeOK, DP!Pinned, DP!ScriptsReusable, DP!SameScript,
   DP!StaysInVector, DriverTypes

-----------------------------------------------------------------------------
(***************************************************************************)
(* The invariant: where a program is and what it holds (Control), and what *)
(* the counters' switches and the time stamps are there (Closing).         *)
(***************************************************************************)
Vec(b) == mem[Self][b]
Here   == msr[cpu[Self]]

\* Which descriptor the ioctl that stops the counters is given.
StopFd == IF prog \in Looping THEN ebx ELSE fd

Control ==
  /\ prog \in Program
  /\ \A b \in Script : given[Self][b] = ScriptOf(prog, b)
  /\ open[Self] => fd = Fd
  /\ pc = "open" => fd = -1 /\ ~ open[Self]
  /\ fd = Fd /\ pc \notin {"open", "exit"} => open[Self]
  /\ prog \in Looping /\ pc \notin {"open", "exit"} => fd = Fd
  /\ prog = "test.4" /\ fd = Fd => ebx = Fd
  /\ incall[Self] => \/ pc = "start" /\ cur[Self] = "reset"
                     \/ pc = "work" /\ cur[Self] = "start"
                     \/ pc = "stopped" /\ cur[Self] = "stop"
  /\ pc = "reset" \/ (pc = "start" /\ incall[Self]) \/ phase = "baseline" => prog = "test.6"
  /\ pc = "baseline" => phase = "baseline"
  /\ pc = "average" => prog \in Looping
  /\ pc \in {"open", "reset", "start", "work", "stopped"} => left \in 1 .. Loops

\* What the scripts that stop the counters leave behind.
Halted == \A c \in Cpu \ deserted : msr[c][GlobalCtrl] = 0

Stamped(n) ==
  \A j \in 1 .. Len(Vec("start")), k \in 1 .. n :
    Vec("start")[j].op = "RDTSC" /\ Vec("stop")[k].op = "RDTSC"
      => Vec("start")[j].value <= Vec("stop")[k].value

Closed == Halted /\ Stamped(Len(Vec("stop")))

Closing ==
  /\ \A c \in Cpu \ deserted : c # cpu[Self] => msr[c][GlobalCtrl] = 0
  /\ \A b \in Script : \A j \in 1 .. Len(Vec(b)) :
       Vec(b)[j].op = "RDTSC" => Vec(b)[j].value <= tsc
  /\ pc \notin {"work", "stopped"} => Closed
  /\ pc = "work" => (~ incall[Self] /\ Closed) \/ (open[Self] /\ StopFd = fd)
  /\ pc = "stopped" /\ ~ incall[Self] => Closed
  /\ pc = "stopped" /\ incall[Self] =>
       /\ (\E j \in 1 .. idx[Self] : Vec("stop")[j] = Halt) => Halted
       /\ Stamped(idx[Self])

IInv == DP!Inv /\ TypeOK /\ Control /\ Closing

-----------------------------------------------------------------------------
(***************************************************************************)
(* The vectors in memory are the scripts but for results.                  *)
(***************************************************************************)
LEMMA VectorFacts ==
  ASSUME DP!Inv, Control, NEW b \in Script
  PROVE  /\ Vec(b) \in Seq(D!Cmd) /\ given[Self][b] = ScriptOf(prog, b)
         /\ Len(Vec(b)) = Len(ScriptOf(prog, b))
         /\ \A j \in 1 .. Len(Vec(b)) :
              /\ Vec(b)[j] \in D!Cmd /\ ScriptOf(prog, b)[j] \in Items(ScriptOf(prog, b))
              /\ Vec(b)[j].op = ScriptOf(prog, b)[j].op
              /\ Vec(b)[j].ecx = ScriptOf(prog, b)[j].ecx
              /\ Vec(b)[j].op \notin {"READ", "RDTSC"}
                   => Vec(b)[j].value = ScriptOf(prog, b)[j].value
<1>1. given[Self][b] = ScriptOf(prog, b)
  BY DEF Control
<1>2. Vec(b) \in Seq(D!Cmd)
  BY DriverFacts, OneClient DEF DriverTypes, Vec
<1>3. /\ Len(Vec(b)) = Len(given[Self][b])
      /\ \A j \in 1 .. Len(Vec(b)) :
           /\ Vec(b)[j].op = given[Self][b][j].op
           /\ Vec(b)[j].ecx = given[Self][b][j].ecx
           /\ Vec(b)[j].op \notin {"READ", "RDTSC"}
                => Vec(b)[j].value = given[Self][b][j].value
  BY DriverFacts, OneClient DEF Vec
<1>4. \A j \in 1 .. Len(Vec(b)) : Vec(b)[j] \in D!Cmd
  BY <1>2
<1> QED
  BY <1>1, <1>2, <1>3, <1>4 DEF Items

\* A script's command is found in the vector, with a result in it perhaps.
LEMMA InVector ==
  ASSUME DP!Inv, Control, NEW b \in Script, NEW c \in Items(ScriptOf(prog, b)), c \in D!Cmd
  PROVE  \E j \in 1 .. Len(Vec(b)) :
           /\ Vec(b)[j].op = c.op /\ Vec(b)[j].ecx = c.ecx
           /\ c.op \notin {"READ", "RDTSC"} => Vec(b)[j] = c
<1>1. PICK j \in 1 .. Len(Vec(b)) : ScriptOf(prog, b)[j] = c
  BY VectorFacts DEF Items
<1>2. /\ Vec(b)[j].op = c.op /\ Vec(b)[j].ecx = c.ecx /\ Vec(b)[j] \in D!Cmd
      /\ c.op \notin {"READ", "RDTSC"} => Vec(b)[j].value = c.value
  BY <1>1, VectorFacts
<1>3. c.op \notin {"READ", "RDTSC"} => Vec(b)[j] = c
  BY <1>2 DEF D!Cmd
<1> QED
  BY <1>2, <1>3

LEMMA PlainFacts ==
  ASSUME DP!Inv, Control, NEW b \in {"start", "stop"} \cup {x \in {"reset"} : prog = "test.6"}
  PROVE  /\ b \in Script /\ DP!Plain(given[Self][b]) /\ Len(Vec(b)) \in Nat \ {0}
         /\ Vec(b)[Len(Vec(b))].op = "STOP"
         /\ \A j \in 1 .. Len(Vec(b)) - 1 : Vec(b)[j].op \in Working
<1>1. b \in Script /\ prog \in Program
  BY DEF Script, Control
<1>2. DP!Plain(ScriptOf(prog, b))
  BY <1>1, Scripts, PmcResetShape DEF ScriptOf, StartShape, StopShape, ResetShape
<1>3. given[Self][b] = ScriptOf(prog, b) /\ Len(Vec(b)) = Len(ScriptOf(prog, b))
  BY <1>1, VectorFacts
<1>4. Len(Vec(b)) \in Nat \ {0}
  BY <1>2, <1>3, Counts DEF DP!Plain
<1>5. \A j \in 1 .. Len(Vec(b)) : Vec(b)[j].op = ScriptOf(prog, b)[j].op
  BY <1>1, VectorFacts
<1>6. Vec(b)[Len(Vec(b))].op = "STOP" /\ \A j \in 1 .. Len(Vec(b)) - 1 : Vec(b)[j].op \in Working
  BY <1>2, <1>3, <1>4, <1>5 DEF DP!Plain, Working
<1> QED
  BY <1>1, <1>2, <1>3, <1>4, <1>6

LEMMA StopFacts ==
  ASSUME DP!Inv, Control
  PROVE  /\ \A j \in 1 .. Len(Vec("stop")) :
              /\ Vec("stop")[j].op = "WRITE" =>
                   /\ Vec("stop")[j].value = 0
                   /\ Vec("stop")[j].ecx \in {GlobalCtrl, FixedCtrl} \cup StopZeroes(prog)
              /\ Vec("stop")[j].op = "READ" => Vec("stop")[j].ecx \in Shown(prog)
         /\ \E j \in 1 .. Len(Vec("stop")) : Vec("stop")[j] = Halt
         /\ \A k \in Shown(prog) : \E j \in 1 .. Len(Vec("stop")) :
              Vec("stop")[j].op = "READ" /\ Vec("stop")[j].ecx = k
         /\ prog \in Looping => \E j \in 1 .. Len(Vec("stop")) : Vec("stop")[j].op = "RDTSC"
         /\ ReadsFirst(Vec("stop"))
<1> DEFINE s == ScriptOf(prog, "stop")
           v == Vec("stop")
<1>1. "stop" \in Script /\ prog \in Program /\ s = StopScript(prog)
  BY DEF Script, ScriptOf, Control
<1>2. StopShape(s, Shown(prog), StopZeroes(prog)) /\ (prog \in Looping => Rdtsc \in Items(s))
  BY <1>1, Scripts
<1>3. Len(v) = Len(s) /\ \A j \in 1 .. Len(v) :
           /\ s[j] \in Items(s) /\ v[j].op = s[j].op /\ v[j].ecx = s[j].ecx
           /\ v[j].op \notin {"READ", "RDTSC"} => v[j].value = s[j].value
  BY <1>1, VectorFacts
<1>4. \A c \in Items(s) : c \in D!Cmd =>
        \E j \in 1 .. Len(v) : /\ v[j].op = c.op /\ v[j].ecx = c.ecx
                               /\ c.op \notin {"READ", "RDTSC"} => v[j] = c
  BY <1>1, InVector
<1> HIDE DEF s, v
<1>5. ASSUME NEW c \in Items(s)
      PROVE  /\ c.op = "WRITE" => c.value = 0 /\ c.ecx \in {GlobalCtrl, FixedCtrl} \cup StopZeroes(prog)
             /\ c.op = "READ" => c.ecx \in Shown(prog)
  <2>1. \/ c \in {Halt, FfcsOff, Rdtsc, Stop}
        \/ \E k \in Shown(prog) : c = R(k)
        \/ \E k \in StopZeroes(prog) : c = W(k, 0)
    BY <1>2 DEF StopShape
  <2> QED
    BY <2>1, Fields DEF Halt, FfcsOff
<1>6. \A j \in 1 .. Len(v) :
        /\ v[j].op = "WRITE" => v[j].value = 0 /\ v[j].ecx \in {GlobalCtrl, FixedCtrl} \cup StopZeroes(prog)
        /\ v[j].op = "READ" => v[j].ecx \in Shown(prog)
  BY <1>3, <1>5
<1>7. \E j \in 1 .. Len(v) : v[j] = Halt
  <2>1. Halt \in Items(s) /\ Halt \in D!Cmd /\ Halt.op = "WRITE"
    BY <1>2, Basic, Fields DEF StopShape, Halt
  <2> QED
    BY <1>4, <2>1
<1>8. \A k \in Shown(prog) : \E j \in 1 .. Len(v) : v[j].op = "READ" /\ v[j].ecx = k
  <2> TAKE k \in Shown(prog)
  <2>1. R(k) \in Items(s)
    BY <1>2 DEF StopShape
  <2>2. Shown(prog) \subseteq D!Reg
    <3>1. 1 \in 1 .. PMC_COUNT /\ 1 - 1 = 0
      BY Counts
    <3> QED
      BY <3>1, Commands DEF Shown
  <2>3. R(k) \in D!Cmd
    BY <2>2, Commands
  <2> QED
    BY <1>4, <2>1, <2>3, Fields
<1>9. prog \in Looping => \E j \in 1 .. Len(v) : v[j].op = "RDTSC"
  BY <1>2, <1>4, Basic, Fields
<1>10. ReadsFirst(v)
  <2>1. ReadsFirst(s)
    BY <1>2 DEF StopShape
  <2> QED
    BY <1>3, <2>1 DEF ReadsFirst
<1> QED
  BY <1>6, <1>7, <1>8, <1>9, <1>10 DEF v

-----------------------------------------------------------------------------
(***************************************************************************)
(* One command of the script that a program's ioctl is in.                 *)
(***************************************************************************)
\* Command c has been executed by writing a register of the program's CPU.
Sets(c) ==
  /\ c.op = "WRITE" /\ mem' = mem
  /\ \A x \in Cpu, r \in D!Reg :
       msr'[x][r] = IF x = cpu[Self] /\ r = c.ecx
                    THEN IF r \in D!Counter THEN c.value % CounterSize ELSE c.value
                    ELSE msr[x][r]

\* Command n of the vector has been executed by storing a result.
Puts(n, x) ==
  /\ msr' = msr /\ x \in Nat
  /\ \A b \in Script :
       /\ Len(Vec(b)') = Len(Vec(b))
       /\ \A j \in 1 .. Len(Vec(b)) :
            Vec(b)'[j] = IF b = cur[Self] /\ j = n THEN [Vec(b)[j] EXCEPT !.value = x] ELSE Vec(b)[j]

Executes(n) ==
  LET c == Vec(cur[Self])[n]
  IN  /\ n \in 1 .. Len(Vec(cur[Self])) - 1 /\ incall'[Self] /\ idx'[Self] = n
      /\ \/ Sets(c)
         \/ c.op = "READ" /\ Puts(n, Here[c.ecx])
         \/ c.op = "RDTSC" /\ Puts(n, tsc)

LEMMA Command ==
  ASSUME DP!Inv, Control, D!IoctlStep(Self)
  PROVE  /\ incall[Self] /\ idx[Self] \in Nat /\ UNCHANGED <<tsc, cpu, open, given, cur>>
         /\ cur[Self] \in {"start", "stop"} \cup {x \in {"reset"} : prog = "test.6"}
         /\ \/ Executes(idx[Self] + 1)
            \/ /\ idx[Self] + 1 = Len(Vec(cur[Self])) /\ ~ incall'[Self] /\ UNCHANGED <<msr, mem>>
<1> DEFINE b == cur[Self]
           n == idx[Self] + 1
           v == Vec(b)
<1>1. DriverTypes /\ Self \in Client /\ DP!IoctlStep(Self)
  BY DriverFacts, OneClient, SameStep
<1>2. incall[Self]
  BY <1>1 DEF DP!IoctlStep, DP!Nop, DP!ReadMsr, DP!WriteMsr, DP!ReadTsc, DP!Stop,
              DP!UnknownOp, DP!LimitReached, DP!At
<1>3. b \in {"start", "stop"} \cup {x \in {"reset"} : prog = "test.6"} /\ b \in Script
  BY <1>2 DEF Control, Script
<1>4. DP!Plain(given[Self][b])
  BY <1>3, PlainFacts
<1>5. /\ UNCHANGED <<tsc, cpu, open, given, cur>>
      /\ DP!Iterates(Self, n) \/ DP!Finishes(Self, n)
  BY <1>1, <1>4, DriverAssumptions, DP!OneCommand DEF DP!client
<1>6. idx[Self] \in Nat
  BY <1>1 DEF DriverTypes
<1>7. CASE DP!Finishes(Self, n)
  <2>1. n = Len(v) /\ ~ incall'[Self] /\ UNCHANGED <<msr, mem>>
    BY <1>1, <1>7 DEF DP!Finishes, Vec, DriverTypes
  <2> QED
    BY <1>2, <1>3, <1>5, <1>6, <2>1
<1>8. CASE DP!Iterates(Self, n)
  <2>1. n \in 1 .. Len(v) - 1 /\ incall'[Self] /\ idx'[Self] = n
    BY <1>1, <1>2, <1>8 DEF DP!Iterates, Vec, DriverTypes
  <2>2. v[n] \in D!Cmd
    <3>1. v \in Seq(D!Cmd)
      BY <1>3, VectorFacts
    <3> QED
      BY <2>1, <3>1
  <2>3. ASSUME DP!Writes(Self, n) PROVE Sets(v[n])
    <3>1. /\ v[n].op = "WRITE" /\ mem' = mem
          /\ msr' = [msr EXCEPT ![cpu[Self]][v[n].ecx] =
                       IF v[n].ecx \in D!Counter THEN v[n].value % CounterSize ELSE v[n].value]
      BY <2>3, SameSets DEF DP!Writes, Vec
    <3>2. v[n].ecx \in D!Reg /\ cpu[Self] \in Cpu
      BY <1>1, <2>2 DEF D!Cmd, DriverTypes
    <3> HIDE DEF v, n
    <3>3. \A x \in Cpu, r \in D!Reg :
            msr'[x][r] = IF x = cpu[Self] /\ r = v[n].ecx
                         THEN IF r \in D!Counter THEN v[n].value % CounterSize ELSE v[n].value
                         ELSE msr[x][r]
      BY <1>1, <3>1, <3>2 DEF DriverTypes
    <3> QED
      BY <3>1, <3>3 DEF Sets
  <2>4. ASSUME NEW x \in Nat, DP!Stores(Self, n, x) PROVE Puts(n, x)
    BY <2>4 DEF DP!Stores, Puts, Vec
  <2>5. tsc \in Nat /\ Here[v[n].ecx] \in Nat
    BY <1>1, <2>2 DEF DriverTypes, D!Cmd, Here
  <2>6. \/ Sets(v[n])
        \/ v[n].op = "READ" /\ Puts(n, Here[v[n].ecx])
        \/ v[n].op = "RDTSC" /\ Puts(n, tsc)
    <3>1. \/ DP!Writes(Self, n)
          \/ v[n].op = "READ" /\ DP!Stores(Self, n, Here[v[n].ecx])
          \/ v[n].op = "RDTSC" /\ DP!Stores(Self, n, tsc)
      BY <1>8 DEF DP!Iterates, Vec, Here
    <3> QED
      BY <2>3, <2>4, <2>5, <3>1
  <2>7. Executes(n)
    BY <2>1, <2>6 DEF Executes
  <2> QED
    BY <1>2, <1>3, <1>5, <1>6, <2>7
<1> QED
  BY <1>5, <1>7, <1>8

-----------------------------------------------------------------------------
(***************************************************************************)
(* The steps, as far as the driver's state is concerned.                   *)
(***************************************************************************)
Entered(b) ==
  /\ ~ incall[Self] /\ incall'[Self] /\ cur'[Self] = b /\ idx'[Self] = 0
  /\ eax' = 0 /\ UNCHANGED <<msr, tsc, cpu, open, mem, given>>

Refused == ~ incall[Self] /\ eax' = -1 /\ UNCHANGED driverVars

LEMMA IoctlEffect ==
  ASSUME DP!Inv, NEW f, NEW b \in Script, Ioctl(f, b)
  PROVE  /\ IF open[Self] /\ f = fd THEN Entered(b) ELSE Refused
         /\ DriverMoves
<1>1. DriverTypes /\ Self \in Client
  BY DriverFacts, OneClient
<1>2. CASE open[Self] /\ f = fd
  <2>1. D!IoctlEnter(Self, b) /\ eax' = 0
    BY <1>2 DEF Ioctl
  <2>2. Entered(b)
    BY <1>1, <2>1 DEF D!IoctlEnter, D!client, D!memory, Entered, DriverTypes
  <2> QED
    BY <1>2, <2>1, <2>2 DEF DriverMoves
<1>3. CASE ~ (open[Self] /\ f = fd)
  BY <1>3 DEF Ioctl, Refused, Returned, DriverMoves
<1> QED
  BY <1>2, <1>3

\* What every step of a program leaves alone.
LEMMA ProgramKeeps ==
  ASSUME DP!Inv, ProgramStep
  PROVE  UNCHANGED <<msr, tsc, cpu, mem, given, prog, moved, deserted>> /\ DriverMoves
<1> USE DEF driverVars, history, places
<1>1. CASE OpenDevice
  BY <1>1 DEF OpenDevice, D!Open, D!memory, DriverMoves
<1>2. CASE OpenFails
  BY <1>2 DEF OpenFails, DriverMoves
<1>3. CASE Reset
  <2>1. Ioctl(fd, "reset") /\ UNCHANGED <<prog, moved, deserted>>
    BY <1>3 DEF Reset
  <2> QED
    BY <2>1, IoctlEffect DEF Script, Entered, Refused
<1>4. CASE Start
  <2>1. Ioctl(StartFd, "start") /\ UNCHANGED <<prog, moved, deserted>>
    BY <1>4 DEF Start
  <2> QED
    BY <2>1, IoctlEffect DEF Script, Entered, Refused
<1>5. CASE StopCounters
  <2>1. Ioctl(StopFd, "stop") /\ UNCHANGED <<prog, moved, deserted>>
    BY <1>5 DEF StopCounters, StopFd
  <2> QED
    BY <2>1, IoctlEffect DEF Script, Entered, Refused
<1>6. CASE PrintRead
  BY <1>6 DEF PrintRead, DriverMoves
<1>7. CASE Accumulate
  BY <1>7 DEF Accumulate, DriverMoves
<1>8. CASE Average
  BY <1>8 DEF Average, DriverMoves
<1>9. CASE BaselineRound
  BY <1>9 DEF BaselineRound, DriverMoves
<1>10. CASE BaselineMean
  BY <1>10 DEF BaselineMean, DriverMoves
<1>11. CASE PrintResult
  BY <1>11 DEF PrintResult, DriverMoves
<1>12. CASE CloseDriver
  BY <1>12 DEF CloseDriver, D!Close, D!memory, DriverMoves
<1> QED
  BY <1>1, <1>2, <1>3, <1>4, <1>5, <1>6, <1>7, <1>8, <1>9, <1>10, <1>11, <1>12
     DEF ProgramStep

LEMMA NextDriver == ASSUME DP!Inv, [Next]_vars PROVE DP!Inv'
<1>1. CASE ProgramStep
  BY <1>1, ProgramKeeps, DriverKeeps
<1>2. CASE DriverStep
  BY <1>2, DriverKeeps DEF DriverStep, DriverMoves
<1>3. CASE \E c \in Cpu : Tick(c) \/ Move(c)
  BY <1>3, DriverKeeps DEF Tick, Move, DriverMoves
<1>4. CASE UNCHANGED vars
  BY <1>4, DriverKeeps DEF vars, DriverMoves
<1> QED
  BY <1>1, <1>2, <1>3, <1>4 DEF Next

\* The processor leaves all but its registers and the clock alone.
LEMMA TickKeeps ==
  ASSUME NEW c \in Cpu, Tick(c)
  PROVE  /\ UNCHANGED <<cpu, open, mem, given, incall, cur, idx>>
         /\ UNCHANGED <<prog, pc, phase, fd, eax, ebx, left, acc, fixed, shown, rounds,
                        moved, deserted>>
         /\ tsc' = tsc + 1
BY DEF Tick, D!Tick, D!client, D!memory, D!call, regs, results, places

\* The scheduler moves the program and nothing else.
LEMMA MoveKeeps ==
  ASSUME NEW c \in Cpu, Move(c)
  PROVE  /\ UNCHANGED <<msr, tsc, open, mem, given, incall, cur, idx>>
         /\ UNCHANGED <<prog, pc, phase, fd, eax, ebx, left, acc, fixed, shown,
                        inner, outer, rounds>>
         /\ cpu' = [cpu EXCEPT ![Self] = c]
         /\ moved' = moved \cup {cpu[Self]}
         /\ deserted' = IF Measuring THEN deserted \cup {cpu[Self]} ELSE deserted
BY DEF Move, D!Migrate, D!memory, D!call, regs, results

LEMMA DriverStepKeeps ==
  ASSUME DriverStep
  PROVE  UNCHANGED <<prog, pc, phase, fd, eax, ebx, left, acc, fixed, shown,
                     inner, outer, rounds, moved, deserted>>
BY DEF DriverStep, regs, results, history, places

\* A step after which the program has never been moved is no move.
LEMMA Unmoved ==
  ASSUME DP!Inv, [Next]_vars, moved' = {}
  PROVE  moved = {} /\ \A c \in Cpu : ~ Move(c)
<1>1. \A c \in Cpu : Move(c) => cpu[Self] \in moved'
  BY MoveKeeps
<1>2. ProgramStep => moved' = moved
  BY ProgramKeeps
<1>3. DriverStep => moved' = moved
  BY DriverStepKeeps
<1>4. \A c \in Cpu : Tick(c) => moved' = moved
  BY TickKeeps
<1>5. UNCHANGED vars => moved' = moved
  BY DEF vars, history, places
<1> QED
  BY <1>1, <1>2, <1>3, <1>4, <1>5 DEF Next

-----------------------------------------------------------------------------
LEMMA NextControl == ASSUME IInv, [Next]_vars PROVE Control'
<1> USE DEF IInv, Goto, regs, results, history
<1>1. Loops \in Nat \ {0} /\ Fd \in Nat /\ left \in 0 .. Loops /\ Self \in Client /\ DriverTypes
  BY PowerAssumption, TestAssumption, OneClient, DriverFacts DEF TypeOK
<1> DEFINE Calls(i, r, s) == i => \/ s = "start" /\ r = "reset"
                                  \/ s = "work" /\ r = "start"
                                  \/ s = "stopped" /\ r = "stop"
<1>2. Calls(incall[Self], cur[Self], pc)
  BY DEF Control
<1>3. ASSUME ProgramStep PROVE given' = given /\ prog' = prog
  BY <1>3, ProgramKeeps
<1>4. CASE OpenDevice
  <2>1. /\ open' = [open EXCEPT ![Self] = TRUE] /\ open'[Self] /\ UNCHANGED <<incall, cur>>
        /\ pc = "open" /\ pc' = IF prog = "test.6" THEN "reset" ELSE "start"
        /\ fd' = Fd /\ ebx' = Fd /\ UNCHANGED <<phase, left>>
    BY <1>1, <1>4 DEF OpenDevice, D!Open, D!call, DriverTypes
  <2> QED
    BY <1>1, <1>2, <1>3, <1>4, <2>1 DEF Control, ProgramStep
<1>5. CASE OpenFails
  <2>1. /\ UNCHANGED <<open, incall, cur, phase, fd, left>> /\ pc = "open"
        /\ pc' = CASE prog \in {"test.1", "test.3", "test.4"} -> "exit"
                   [] prog = "test.6" -> "reset" [] OTHER -> "start"
    BY <1>5 DEF OpenFails, driverVars
  <2> QED
    BY <1>1, <1>2, <1>3, <1>5, <2>1 DEF Control, ProgramStep, Looping
<1>6. CASE Reset
  <2>1. /\ pc = "reset" /\ pc' = "start" /\ UNCHANGED <<phase, fd, ebx, left>>
        /\ open' = open /\ (incall'[Self] => cur'[Self] = "reset")
    <3>1. Ioctl(fd, "reset") /\ pc = "reset" /\ pc' = "start" /\ UNCHANGED <<phase, fd, ebx, left>>
      BY <1>6 DEF Reset
    <3> QED
      BY <1>2, <3>1, IoctlEffect DEF Entered, Refused, driverVars, Script
  <2> QED
    BY <1>1, <1>3, <1>6, <2>1 DEF Control, ProgramStep
<1>7. CASE Start
  <2>1. /\ pc = "start" /\ pc' = "work" /\ UNCHANGED <<phase, fd, left>>
        /\ open' = open /\ (incall'[Self] => cur'[Self] = "start")
        /\ ebx' = IF prog = "test.3" THEN eax ELSE ebx
    <3>1. /\ Ioctl(StartFd, "start") /\ pc = "start" /\ pc' = "work" /\ UNCHANGED <<phase, fd, left>>
          /\ ebx' = IF prog = "test.3" THEN eax ELSE ebx
      BY <1>7 DEF Start
    <3> QED
      BY <1>2, <3>1, IoctlEffect DEF Entered, Refused, driverVars, Script
  <2> QED
    BY <1>1, <1>3, <1>7, <2>1 DEF Control, ProgramStep
<1>8. CASE StopCounters
  <2>1. /\ pc = "work" /\ pc' = "stopped" /\ UNCHANGED <<phase, fd, ebx, left>>
        /\ open' = open /\ (incall'[Self] => cur'[Self] = "stop")
    <3>1. /\ Ioctl(StopFd, "stop") /\ pc = "work" /\ pc' = "stopped"
          /\ UNCHANGED <<phase, fd, ebx, left>>
      BY <1>8 DEF StopCounters, StopFd
    <3> QED
      BY <1>2, <3>1, IoctlEffect DEF Entered, Refused, driverVars, Script
  <2> QED
    BY <1>1, <1>3, <1>8, <2>1 DEF Control, ProgramStep
<1>9. CASE PrintRead
  BY <1>1, <1>2, <1>3, <1>9 DEF PrintRead, Control, ProgramStep, Returned, driverVars
<1>10. CASE Accumulate
  BY <1>1, <1>2, <1>3, <1>10 DEF Accumulate, Control, ProgramStep, Returned, driverVars, Looping
<1>11. CASE Average
  BY <1>1, <1>2, <1>3, <1>11 DEF Average, Control, ProgramStep, driverVars
<1>12. CASE BaselineRound
  BY <1>1, <1>2, <1>3, <1>12 DEF BaselineRound, Control, ProgramStep, Returned, driverVars
<1>13. CASE BaselineMean
  BY <1>1, <1>2, <1>3, <1>13 DEF BaselineMean, Control, ProgramStep, driverVars
<1>14. CASE PrintResult
  BY <1>1, <1>2, <1>3, <1>14 DEF PrintResult, Control, ProgramStep, Returned, driverVars
<1>15. CASE CloseDriver
  <2>1. /\ pc = "close" /\ pc' = "exit" /\ UNCHANGED <<phase, fd, ebx, left, incall, cur>>
        /\ ~ open'[Self]
    BY <1>1, <1>15 DEF CloseDriver, D!Close, D!call, driverVars, DriverTypes
  <2> QED
    BY <1>1, <1>2, <1>3, <1>15, <2>1 DEF Control, ProgramStep
<1>16. CASE DriverStep
  <2>1. UNCHANGED <<open, given, cur>> /\ incall[Self]
    BY <1>16, Command DEF DriverStep
  <2> QED
    BY <1>16, <2>1, DriverStepKeeps DEF Control
<1>17. CASE \E c \in Cpu : Tick(c)
  BY <1>17, TickKeeps DEF Control
<1>19. CASE \E c \in Cpu : Move(c)
  BY <1>19, MoveKeeps DEF Control
<1>18. CASE UNCHANGED vars
  BY <1>18 DEF vars, driverVars, Control
<1> QED
  BY <1>19, <1>4, <1>5, <1>6, <1>7, <1>8, <1>9, <1>10, <1>11, <1>12, <1>13, <1>14, <1>15, <1>16,
     <1>17, <1>18 DEF Next, ProgramStep

-----------------------------------------------------------------------------
\* A CPU whose counters are switched off does not count.
LEMMA TickOff ==
  ASSUME DP!Inv, NEW c \in Cpu, NEW d \in Cpu, Tick(c), msr[d][GlobalCtrl] = 0
  PROVE  msr'[d] = msr[d]
<1>1. DP!Tick(c) /\ DP!TypeOK /\ msr[d][DP!GlobalCtrl] = 0
  BY SameStep, SameSets DEF Tick, DP!Inv
<1> QED
  BY <1>1, DriverAssumptions, DP!TickOff

LEMMA TickClosing == ASSUME IInv, NEW c \in Cpu, Tick(c) PROVE Closing'
<1>1. /\ UNCHANGED <<cpu, open, mem, given, incall, cur, idx>>
      /\ UNCHANGED <<prog, pc, fd, eax, ebx, deserted>> /\ tsc' = tsc + 1
  BY TickKeeps
<1>2. tsc \in Nat /\ \A b \in Script : Vec(b) \in Seq(D!Cmd)
  BY DriverFacts, OneClient DEF IInv, DriverTypes, Vec
<1>3. \A d \in Cpu : msr[d][GlobalCtrl] = 0 => msr'[d][GlobalCtrl] = 0
  BY TickOff DEF IInv
<1>4. Halted => Halted'
  BY <1>1, <1>3 DEF Halted
<1>5. \A n : Stamped(n) => Stamped(n)'
  BY <1>1 DEF Stamped, Vec
<1>6. Closed => Closed'
  BY <1>1, <1>4, <1>5 DEF Closed, Stamped, Vec
<1>7. \A d \in Cpu \ deserted' : d # cpu'[Self] => msr'[d][GlobalCtrl] = 0
  BY <1>1, <1>3 DEF IInv, Closing
<1>8. \A b \in Script : \A j \in 1 .. Len(Vec(b)') : Vec(b)'[j].op = "RDTSC" => Vec(b)'[j].value <= tsc'
  <2> TAKE b \in Script
  <2> TAKE j \in 1 .. Len(Vec(b)')
  <2>1. Vec(b)' = Vec(b) /\ Vec(b)[j] \in D!Cmd
    BY <1>1, <1>2 DEF Vec
  <2>2. Vec(b)[j].op = "RDTSC" => Vec(b)[j].value <= tsc
    BY <2>1 DEF IInv, Closing
  <2>3. Vec(b)[j].value \in Nat
    BY <2>1 DEF D!Cmd
  <2> QED
    BY <1>1, <1>2, <2>1, <2>2, <2>3
<1>9. StopFd' = StopFd
  BY <1>1 DEF StopFd
<1>10. pc = "stopped" /\ incall[Self] =>
         /\ (\E j \in 1 .. idx'[Self] : Vec("stop")'[j] = Halt) => Halted'
         /\ Stamped(idx[Self])'
  BY <1>1, <1>4, <1>5 DEF IInv, Closing, Vec, Stamped
<1> QED
  BY <1>1, <1>6, <1>7, <1>8, <1>9, <1>10 DEF IInv, Closing, Stamped

(***************************************************************************)
(* A move leaves the switch of the old CPU as it is: while the program     *)
(* measures it may be on, and the CPU counts as deserted.                  *)
(***************************************************************************)
LEMMA MoveClosing == ASSUME IInv, NEW c \in Cpu, Move(c) PROVE Closing'
<1> USE DEF IInv
<1>1. /\ UNCHANGED <<msr, tsc, open, mem, given, incall, cur, idx, prog, pc, fd, eax, ebx>>
      /\ deserted' = IF Measuring THEN deserted \cup {cpu[Self]} ELSE deserted
  BY MoveKeeps
<1>2. cpu'[Self] = c
  BY MoveKeeps, DriverFacts, OneClient DEF DriverTypes
<1>3. Halted => Halted'
  BY <1>1 DEF Halted
<1>4. Closed => Closed'
  BY <1>1, <1>3 DEF Closed, Stamped, Vec
<1>5. ASSUME NEW d \in Cpu, d \notin deserted', d # cpu'[Self]
      PROVE  msr'[d][GlobalCtrl] = 0
  <2>1. d \notin deserted
    BY <1>1, <1>5
  <2>2. CASE d # cpu[Self]
    BY <1>1, <2>1, <2>2 DEF Closing
  <2>3. CASE d = cpu[Self]
    <3>1. ~ Measuring
      BY <1>1, <1>5, <2>3
    <3>2. Closed
      BY <3>1 DEF Closing, Measuring, Returned
    <3> QED
      BY <1>1, <2>1, <3>2 DEF Closed, Halted
  <2> QED
    BY <2>2, <2>3
<1>6. pc = "stopped" /\ incall[Self] =>
        /\ (\E j \in 1 .. idx'[Self] : Vec("stop")'[j] = Halt) => Halted'
        /\ Stamped(idx[Self])'
  BY <1>1, <1>3 DEF Closing, Vec, Stamped
<1>7. StopFd' = StopFd
  BY <1>1 DEF StopFd
<1>8. \A b \in Script : \A j \in 1 .. Len(Vec(b)') :
        Vec(b)'[j].op = "RDTSC" => Vec(b)'[j].value <= tsc'
  BY <1>1 DEF Closing, Vec
<1> QED
  BY <1>1, <1>4, <1>5, <1>6, <1>7, <1>8 DEF Closing, Stamped

LEMMA ProgramClosing == ASSUME IInv, ProgramStep PROVE Closing'
<1> USE DEF IInv, Goto
<1>1. UNCHANGED <<msr, tsc, cpu, mem, given, prog, deserted>>
  BY ProgramKeeps
<1>2. /\ Closed => Closed'
      /\ \A n : Stamped(n)' <=> Stamped(n)
      /\ \A c \in Cpu \ deserted' : c # cpu'[Self] => msr'[c][GlobalCtrl] = 0
      /\ \A b \in Script : \A j \in 1 .. Len(Vec(b)') :
           Vec(b)'[j].op = "RDTSC" => Vec(b)'[j].value <= tsc'
  BY <1>1 DEF Closing, Closed, Halted, Stamped, Vec
<1>3. ASSUME NEW a, pc' = a, a \notin {"work", "stopped"}, Closed PROVE Closing'
  BY <1>2, <1>3 DEF Closing
<1>4. ~ incall[Self] /\ pc # "work" => Closed
  BY DEF Closing
<1>5. pc \notin {"start", "work", "stopped"} => ~ incall[Self]
  BY DEF Control
<1>6. CASE Start
  <2>1. /\ Ioctl(StartFd, "start") /\ pc = "start" /\ pc' = "work" /\ fd' = fd
        /\ ebx' = IF prog = "test.3" THEN eax ELSE ebx
    BY <1>6 DEF Start
  <2>2. Closed
    BY <2>1 DEF Closing
  <2>3. CASE open[Self] /\ StartFd = fd
    <3>1. Entered("start")
      BY <2>1, <2>3, IoctlEffect DEF Script
    <3>2. open'[Self]
      BY <2>3, <3>1 DEF Entered
    <3>3. StopFd' = fd'
      <4>1. fd = Fd
        BY <2>3 DEF Control
      <4> QED
        BY <1>1, <2>1, <2>3, <4>1 DEF StopFd, StartFd, Looping, Control
    <3> QED
      BY <1>2, <2>1, <3>2, <3>3 DEF Closing
  <2>4. CASE ~ (open[Self] /\ StartFd = fd)
    <3>1. Refused
      BY <2>1, <2>4, IoctlEffect DEF Script
    <3>2. ~ incall'[Self]
      BY <3>1 DEF Refused, driverVars
    <3> QED
      BY <1>2, <2>1, <2>2, <3>2 DEF Closing
  <2> QED
    BY <2>3, <2>4
<1>7. CASE StopCounters
  <2>1. Ioctl(StopFd, "stop") /\ pc = "work" /\ pc' = "stopped"
    BY <1>7 DEF StopCounters, StopFd
  <2>2. CASE open[Self] /\ StopFd = fd
    <3>1. Entered("stop")
      BY <2>1, <2>2, IoctlEffect DEF Script
    <3>2. idx'[Self] = 0 /\ incall'[Self]
      BY <3>1 DEF Entered
    <3>3. Stamped(0)
      BY DEF Stamped
    <3>4. Stamped(idx[Self])'
      BY <1>1, <3>2, <3>3 DEF Stamped, Vec
    <3> QED
      BY <1>2, <2>1, <3>2, <3>4 DEF Closing
  <2>3. CASE ~ (open[Self] /\ StopFd = fd)
    <3>1. Refused
      BY <2>1, <2>3, IoctlEffect DEF Script
    <3>2. ~ incall'[Self]
      BY <3>1 DEF Refused, driverVars
    <3>3. Closed
      BY <2>1, <2>3 DEF Closing
    <3> QED
      BY <1>2, <2>1, <3>2, <3>3 DEF Closing
  <2> QED
    BY <2>2, <2>3
<1>8. CASE OpenDevice
  BY <1>3, <1>4, <1>5, <1>8 DEF OpenDevice
<1>9. CASE OpenFails
  BY <1>3, <1>4, <1>5, <1>9 DEF OpenFails
<1>10. CASE Reset
  BY <1>3, <1>4, <1>5, <1>10 DEF Reset
<1>11. CASE PrintRead
  BY <1>3, <1>4, <1>11 DEF PrintRead, Returned
<1>12. CASE Accumulate
  BY <1>3, <1>4, <1>12 DEF Accumulate, Returned
<1>13. CASE Average
  BY <1>3, <1>4, <1>5, <1>13 DEF Average
<1>14. CASE BaselineRound
  BY <1>3, <1>4, <1>14 DEF BaselineRound, Returned
<1>15. CASE BaselineMean
  BY <1>3, <1>4, <1>5, <1>15 DEF BaselineMean
<1>16. CASE PrintResult
  BY <1>3, <1>4, <1>16 DEF PrintResult, Returned
<1>17. CASE CloseDriver
  BY <1>3, <1>4, <1>5, <1>17 DEF CloseDriver
<1> QED
  BY <1>6, <1>7, <1>8, <1>9, <1>10, <1>11, <1>12, <1>13, <1>14, <1>15, <1>16, <1>17
     DEF ProgramStep

-----------------------------------------------------------------------------
\* What a command does to the switch of the counters.
LEMMA SetsSwitch ==
  ASSUME DP!Inv, NEW c, Sets(c), cpu' = cpu
  PROVE  /\ \A x \in Cpu : x # cpu[Self] => msr'[x][GlobalCtrl] = msr[x][GlobalCtrl]
         /\ c.ecx = GlobalCtrl => Here'[GlobalCtrl] = c.value
         /\ c.ecx # GlobalCtrl => Here'[GlobalCtrl] = Here[GlobalCtrl]
<1>1. cpu[Self] \in Cpu /\ GlobalCtrl \in D!Reg /\ GlobalCtrl \notin D!Counter
  BY DriverFacts, OneClient, Commands, Registers DEF DriverTypes
<1>2. \A x \in Cpu, r \in D!Reg :
        msr'[x][r] = IF x = cpu[Self] /\ r = c.ecx
                     THEN IF r \in D!Counter THEN c.value % CounterSize ELSE c.value
                     ELSE msr[x][r]
  BY DEF Sets
<1> QED
  BY <1>1, <1>2 DEF Here

\* What a command does to the vectors: a result is stored, at the command.
LEMMA Stored ==
  ASSUME DP!Inv, Control, NEW n, Executes(n), NEW b \in Script
  PROVE  /\ Len(Vec(b)') = Len(Vec(b))
         /\ \A j \in 1 .. Len(Vec(b)) :
              /\ Vec(b)'[j].op = Vec(b)[j].op /\ Vec(b)'[j].ecx = Vec(b)[j].ecx
              /\ Vec(b)[j].op \notin {"READ", "RDTSC"} => Vec(b)'[j] = Vec(b)[j]
              /\ b # cur[Self] \/ j # n => Vec(b)'[j] = Vec(b)[j]
              /\ b = cur[Self] /\ j = n /\ Vec(b)[j].op = "RDTSC" => Vec(b)'[j].value = tsc
              /\ b = cur[Self] /\ j = n /\ Vec(b)[j].op = "READ"
                   => Vec(b)'[j].value = Here[Vec(b)[j].ecx]
<1>1. \A j \in 1 .. Len(Vec(b)) : Vec(b)[j] \in D!Cmd
  BY VectorFacts
<1> DEFINE c == Vec(cur[Self])[n]
<1>2. \/ Sets(c)
      \/ c.op = "READ" /\ Puts(n, Here[c.ecx])
      \/ c.op = "RDTSC" /\ Puts(n, tsc)
  BY DEF Executes
<1>3. CASE Sets(c)
  BY <1>3 DEF Sets, Vec
<1>4. ASSUME NEW x, Puts(n, x), c.op \in {"READ", "RDTSC"}
      PROVE  /\ Len(Vec(b)') = Len(Vec(b))
             /\ \A j \in 1 .. Len(Vec(b)) :
                  /\ Vec(b)'[j].op = Vec(b)[j].op /\ Vec(b)'[j].ecx = Vec(b)[j].ecx
                  /\ Vec(b)[j].op \notin {"READ", "RDTSC"} => Vec(b)'[j] = Vec(b)[j]
                  /\ b # cur[Self] \/ j # n => Vec(b)'[j] = Vec(b)[j]
                  /\ b = cur[Self] /\ j = n => Vec(b)'[j].value = x
  <2>1. /\ Len(Vec(b)') = Len(Vec(b))
        /\ \A j \in 1 .. Len(Vec(b)) :
             Vec(b)'[j] = IF b = cur[Self] /\ j = n THEN [Vec(b)[j] EXCEPT !.value = x] ELSE Vec(b)[j]
    BY <1>4 DEF Puts
  <2>2. \A d \in D!Cmd : /\ [d EXCEPT !.value = x].op = d.op
                         /\ [d EXCEPT !.value = x].ecx = d.ecx
                         /\ [d EXCEPT !.value = x].value = x
    BY DEF D!Cmd
  <2> QED
    BY <1>1, <1>4, <2>1, <2>2
<1>5. CASE c.op = "READ" /\ Puts(n, Here[c.ecx])
  BY <1>4, <1>5
<1>6. CASE c.op = "RDTSC" /\ Puts(n, tsc)
  BY <1>4, <1>6
<1> QED
  BY <1>2, <1>3, <1>5, <1>6

\* The script that resets the counters of test.6.
LEMMA ResetFacts ==
  ASSUME DP!Inv, Control
  PROVE  /\ \A j \in 1 .. Len(Vec("reset")) :
              /\ Vec("reset")[j].op \notin {"READ", "RDTSC"}
              /\ Vec("reset")[j].op = "WRITE" =>
                   Vec("reset")[j].value = 0 /\ Vec("reset")[j].ecx \in {GlobalCtrl} \cup D!Counter
         /\ \A k \in D!Counter : \E j \in 1 .. Len(Vec("reset")) : Vec("reset")[j] = W(k, 0)
<1> DEFINE s == ScriptOf(prog, "reset")
           v == Vec("reset")
<1>1. "reset" \in Script /\ s = PmcReset
  BY DEF Script, ScriptOf
<1>2. Items(s) = {Halt, Stop} \cup {W(k, 0) : k \in D!Counter}
  BY <1>1, PmcResetShape DEF ResetShape
<1>3. \A j \in 1 .. Len(v) :
           /\ s[j] \in Items(s) /\ v[j].op = s[j].op /\ v[j].ecx = s[j].ecx
           /\ v[j].op \notin {"READ", "RDTSC"} => v[j].value = s[j].value
  BY <1>1, VectorFacts
<1>4. \A d \in Items(s) : d \in D!Cmd =>
        \E j \in 1 .. Len(v) : d.op \notin {"READ", "RDTSC"} => v[j] = d
  BY <1>1, InVector
<1> HIDE DEF s, v
<1>5. ASSUME NEW d \in Items(s)
      PROVE  /\ d.op \notin {"READ", "RDTSC"}
             /\ d.op = "WRITE" => d.value = 0 /\ d.ecx \in {GlobalCtrl} \cup D!Counter
  BY <1>2, Fields DEF Halt
<1>6. \A j \in 1 .. Len(v) :
        /\ v[j].op \notin {"READ", "RDTSC"}
        /\ v[j].op = "WRITE" => v[j].value = 0 /\ v[j].ecx \in {GlobalCtrl} \cup D!Counter
  BY <1>3, <1>5
<1>7. ASSUME NEW k \in D!Counter PROVE \E j \in 1 .. Len(v) : v[j] = W(k, 0)
  <2>1. W(k, 0) \in Items(s) /\ W(k, 0) \in D!Cmd /\ W(k, 0).op = "WRITE"
    BY <1>2, Basic, Fields DEF Zeroes
  <2> QED
    BY <1>4, <2>1
<1> QED
  BY <1>6, <1>7 DEF v

LEMMA DriverClosing == ASSUME IInv, DriverStep PROVE Closing'
<1> USE DEF IInv
<1> DEFINE n == idx[Self] + 1
<1>1. D!IoctlStep(Self) /\ DriverTypes /\ cpu[Self] \in Cpu
  BY DriverFacts, OneClient DEF DriverStep, DriverTypes
<1>2. UNCHANGED <<prog, pc, fd, eax, ebx, deserted>>
  BY DriverStepKeeps
<1>3. /\ incall[Self] /\ idx[Self] \in Nat /\ UNCHANGED <<tsc, cpu, open, given, cur, deserted>>
      /\ cur[Self] \in {"start", "stop"} \cup {x \in {"reset"} : prog = "test.6"}
      /\ \/ Executes(n)
         \/ n = Len(Vec(cur[Self])) /\ ~ incall'[Self] /\ UNCHANGED <<msr, mem>>
  BY <1>1, <1>2, Command
<1>4. /\ pc \in {"start", "work", "stopped"}
      /\ pc = "start" => cur[Self] = "reset" /\ Closed
      /\ pc = "work" => cur[Self] = "start" /\ open'[Self] /\ StopFd' = fd'
      /\ pc = "stopped" => cur[Self] = "stop"
  BY <1>2, <1>3 DEF Control, Closing, StopFd
<1>5. CASE UNCHANGED <<msr, mem>> /\ n = Len(Vec(cur[Self])) /\ ~ incall'[Self]
  <2>1. /\ Closed => Closed'
        /\ \A c \in Cpu \ deserted' : c # cpu'[Self] => msr'[c][GlobalCtrl] = 0
        /\ \A b \in Script : \A j \in 1 .. Len(Vec(b)') :
             Vec(b)'[j].op = "RDTSC" => Vec(b)'[j].value <= tsc'
    BY <1>3, <1>5 DEF Closing, Closed, Halted, Stamped, Vec
  <2>2. ASSUME pc = "stopped" PROVE Closed
    <3>1. /\ (\E j \in 1 .. idx[Self] : Vec("stop")[j] = Halt) => Halted
          /\ Stamped(idx[Self]) /\ n = Len(Vec("stop"))
      BY <1>3, <1>4, <1>5, <2>2 DEF Closing
    <3>2. Vec("stop")[n].op = "STOP"
      BY <3>1, PlainFacts
    <3>3. PICK j \in 1 .. Len(Vec("stop")) : Vec("stop")[j] = Halt
      BY StopFacts
    <3>4. j \in 1 .. idx[Self]
      BY <1>3, <3>1, <3>2, <3>3, Fields DEF Halt
    <3>5. Stamped(Len(Vec("stop")))
      BY <1>3, <3>1, <3>2 DEF Stamped
    <3> QED
      BY <3>1, <3>3, <3>4, <3>5 DEF Closed
  <2> QED
    BY <1>2, <1>4, <1>5, <2>1, <2>2 DEF Closing
<1>6. CASE Executes(n)
  <2> DEFINE c == Vec(cur[Self])[n]
  <2>1. /\ n \in 1 .. Len(Vec(cur[Self])) - 1 /\ incall'[Self] /\ idx'[Self] = n
        /\ \/ Sets(c)
           \/ c.op = "READ" /\ msr' = msr
           \/ c.op = "RDTSC" /\ msr' = msr
    <3>1. /\ n \in 1 .. Len(Vec(cur[Self])) - 1 /\ incall'[Self] /\ idx'[Self] = n
          /\ \/ Sets(c)
             \/ c.op = "READ" /\ Puts(n, Here[c.ecx])
             \/ c.op = "RDTSC" /\ Puts(n, tsc)
      BY <1>6 DEF Executes
    <3> QED
      BY <3>1 DEF Puts
  <2>2. \A x \in Cpu \ deserted' : x # cpu'[Self] => msr'[x][GlobalCtrl] = 0
    BY <1>3, <2>1, SetsSwitch DEF Closing
  <2>3. ASSUME NEW b \in Script, NEW j \in 1 .. Len(Vec(b)'), Vec(b)'[j].op = "RDTSC"
        PROVE  Vec(b)'[j].value <= tsc'
    <3>1. /\ j \in 1 .. Len(Vec(b)) /\ Vec(b)[j].op = "RDTSC"
          /\ b # cur[Self] \/ j # n => Vec(b)'[j] = Vec(b)[j]
          /\ b = cur[Self] /\ j = n => Vec(b)'[j].value = tsc
      BY <1>6, <2>3, Stored
    <3>2. Vec(b)[j].value <= tsc /\ tsc' = tsc /\ tsc \in Nat
      BY <1>1, <1>3, <3>1 DEF Closing, DriverTypes
    <3> HIDE DEF n
    <3> QED
      BY <3>1, <3>2
  <2>4. ASSUME c.op = "WRITE" => c.value = 0, Halted PROVE Halted'
    BY <1>3, <2>1, <2>2, <2>4, SetsSwitch DEF Halted, Here, Sets
  <2>5. CASE pc = "start"
    <3>1. c.op = "WRITE" => c.value = 0
      BY <1>4, <2>1, <2>5, ResetFacts
    <3>2. Halted'
      BY <1>4, <2>4, <2>5, <3>1 DEF Closed
    <3>3. /\ Len(Vec("start")') = Len(Vec("start")) /\ Len(Vec("stop")') = Len(Vec("stop"))
          /\ \A j \in 1 .. Len(Vec("start")) : Vec("start")'[j] = Vec("start")[j]
          /\ \A j \in 1 .. Len(Vec("stop")) : Vec("stop")'[j] = Vec("stop")[j]
      BY <1>4, <1>6, <2>5, Stored DEF Script
    <3>4. Closed'
      BY <1>4, <2>5, <3>2, <3>3 DEF Closed, Stamped
    <3> QED
      BY <1>2, <2>2, <2>3, <2>5, <3>4 DEF Closing
  <2>6. CASE pc = "work"
    BY <1>2, <1>4, <2>2, <2>3, <2>6 DEF Closing
  <2>7. CASE pc = "stopped"
    <3>1. /\ (\E j \in 1 .. idx[Self] : Vec("stop")[j] = Halt) => Halted
          /\ Stamped(idx[Self]) /\ cur[Self] = "stop"
      BY <1>3, <1>4, <2>7 DEF Closing
    <3>2. c.op = "WRITE" => c.value = 0
      BY <2>1, <3>1, StopFacts
    <3>3. /\ Len(Vec("start")') = Len(Vec("start")) /\ Len(Vec("stop")') = Len(Vec("stop"))
          /\ \A j \in 1 .. Len(Vec("start")) : Vec("start")'[j] = Vec("start")[j]
          /\ \A j \in 1 .. Len(Vec("stop")) :
               /\ Vec("stop")'[j].op = Vec("stop")[j].op
               /\ j # n => Vec("stop")'[j] = Vec("stop")[j]
               /\ j = n /\ Vec("stop")[j].op = "RDTSC" => Vec("stop")'[j].value = tsc
      BY <1>6, <3>1, Stored DEF Script
    <3>4. ASSUME NEW j \in 1 .. n, Vec("stop")'[j] = Halt PROVE Halted'
      <4>1. CASE j = n
        <5>1. c.op = "WRITE" /\ Halt.op = "WRITE" /\ Halt.ecx = GlobalCtrl /\ "stop" \in Script
          BY <2>1, <3>1, <3>3, <3>4, <4>1, Fields DEF Halt, Script
        <5>2. Sets(c) /\ Vec("stop")' = Vec("stop")
          BY <2>1, <5>1 DEF Sets, Vec
        <5>3. c = Halt /\ c.ecx = GlobalCtrl
          BY <3>1, <3>4, <4>1, <5>1, <5>2
        <5> QED
          BY <1>3, <2>2, <3>2, <5>1, <5>2, <5>3, SetsSwitch DEF Halted, Here
      <4>2. CASE j # n
        BY <1>3, <2>1, <2>4, <3>1, <3>2, <3>3, <3>4, <4>2
      <4> QED
        BY <4>1, <4>2
    <3>5. Stamped(idx[Self])'
      <4>1. "start" \in Script /\ n - 1 = idx[Self]
        BY <1>3 DEF Script
      <4>2. \A j \in 1 .. Len(Vec("start")) :
              Vec("start")[j].op = "RDTSC" => Vec("start")[j].value <= tsc
        BY <4>1 DEF Closing
      <4>3. \A j \in 1 .. Len(Vec("start")), k \in 1 .. n - 1 :
              Vec("start")[j].op = "RDTSC" /\ Vec("stop")[k].op = "RDTSC"
                => Vec("start")[j].value <= Vec("stop")[k].value
        BY <3>1, <4>1 DEF Stamped
      <4>4. n \in 1 .. Len(Vec("stop")) - 1
        BY <2>1, <3>1
      <4> HIDE DEF n
      <4>5. \A j \in 1 .. Len(Vec("start")'), k \in 1 .. n :
              Vec("start")'[j].op = "RDTSC" /\ Vec("stop")'[k].op = "RDTSC"
                => Vec("start")'[j].value <= Vec("stop")'[k].value
        BY <3>3, <4>2, <4>3, <4>4
      <4> QED
        BY <2>1, <4>5 DEF Stamped
    <3> QED
      BY <1>2, <2>1, <2>2, <2>3, <2>7, <3>4, <3>5 DEF Closing
  <2> QED
    BY <1>4, <2>5, <2>6, <2>7
<1> QED
  BY <1>3, <1>5, <1>6

LEMMA StartFacts ==
  ASSUME DP!Inv, Control
  PROVE  /\ \A j \in 1 .. Len(Vec("start")) :
              /\ Vec("start")[j].op # "READ"
              /\ Vec("start")[j].op = "WRITE" /\ Vec("start")[j].ecx \in D!Counter
                   => Vec("start")[j].value = 0 /\ Vec("start")[j].ecx \in StartZeroes(prog)
         /\ \A k \in StartZeroes(prog) : \E j \in 1 .. Len(Vec("start")) : Vec("start")[j] = W(k, 0)
         /\ \A c \in Enabling(prog) : LastIn(Vec("start"), c)
         /\ prog \in Looping => \E j \in 1 .. Len(Vec("start")) : Vec("start")[j].op = "RDTSC"
<1> DEFINE s == ScriptOf(prog, "start")
           v == Vec("start")
           Z == StartZeroes(prog)
<1>1. "start" \in Script /\ prog \in Program /\ s = StartScript(prog)
  BY DEF Script, ScriptOf, Control
<1>2. StartShape(s, Z, Enabling(prog)) /\ (prog \in Looping => Rdtsc \in Items(s))
  BY <1>1, Scripts
<1>3. Len(v) = Len(s) /\ \A j \in 1 .. Len(v) :
           /\ v[j] \in D!Cmd /\ s[j] \in Items(s) /\ v[j].op = s[j].op /\ v[j].ecx = s[j].ecx
           /\ v[j].op \notin {"READ", "RDTSC"} => v[j].value = s[j].value
  BY <1>1, VectorFacts
<1>4. \A d \in Items(s) : d \in D!Cmd =>
        \E j \in 1 .. Len(v) : v[j].op = d.op /\ (d.op \notin {"READ", "RDTSC"} => v[j] = d)
  BY <1>1, InVector
<1>5. Z \subseteq D!Counter
  <2>1. 1 \in 1 .. PMC_COUNT /\ 1 - 1 = 0
    BY Counts
  <2> QED
    BY <2>1, Commands, SameSets DEF StartZeroes, D!Counter, D!Pmc, Pmc
<1>6. \A c \in Enabling(prog) : c \in D!Cmd /\ c.op = "WRITE"
  <2>1. {FfcsOn, CountersOn} \cup Selects \subseteq D!Cmd
    BY Basic
  <2>2. W(EvtSel(0), 1) \in Selects
    <3>1. 1 \in 1 .. PMC_COUNT /\ 1 - 1 = 0
      BY Counts
    <3> QED
      BY <3>1 DEF Selects
  <2>3. \A c \in {FfcsOn, CountersOn} \cup Selects : c.op = "WRITE"
    BY Fields DEF FfcsOn, CountersOn, Selects
  <2> QED
    BY <2>1, <2>2, <2>3 DEF Enabling, FirstOn, AllOn
<1> HIDE DEF s, v, Z
<1>7. ASSUME NEW d \in Items(s)
      PROVE  /\ d.op # "READ"
             /\ d.op = "WRITE" /\ d.ecx \in D!Counter => d.value = 0 /\ d.ecx \in Z
  <2>1. d \in Controls \cup {Stop} \/ \E k \in Z : d = W(k, 0)
    BY <1>2 DEF StartShape
  <2> QED
    BY <2>1, Basic, Fields
<1>8. \A j \in 1 .. Len(v) :
        /\ v[j].op # "READ"
        /\ v[j].op = "WRITE" /\ v[j].ecx \in D!Counter => v[j].value = 0 /\ v[j].ecx \in Z
  BY <1>3, <1>7
<1>9. ASSUME NEW k \in Z PROVE \E j \in 1 .. Len(v) : v[j] = W(k, 0)
  <2>1. W(k, 0) \in Items(s) /\ W(k, 0) \in D!Cmd /\ W(k, 0).op = "WRITE"
    BY <1>2, <1>5, Basic, Fields DEF StartShape, Zeroes
  <2> QED
    BY <1>4, <2>1
<1>10. ASSUME NEW c \in Enabling(prog) PROVE LastIn(v, c)
  <2>1. LastIn(s, c)
    BY <1>2 DEF StartShape
  <2>2. PICK j \in 1 .. Len(s) :
          s[j] = c /\ \A i \in j + 1 .. Len(s) : s[i].op = "WRITE" => s[i].ecx # c.ecx
    BY <2>1 DEF LastIn
  <2>3. v[j] \in D!Cmd /\ v[j].op = c.op /\ v[j].ecx = c.ecx /\ v[j].value = c.value /\ c \in D!Cmd
    BY <1>3, <1>6, <2>2
  <2>4. v[j] = c
    BY <2>3 DEF D!Cmd
  <2>5. \A i \in j + 1 .. Len(v) : v[i].op = "WRITE" => v[i].ecx # c.ecx
    BY <1>3, <2>2
  <2> QED
    BY <1>3, <2>4, <2>5 DEF LastIn
<1>11. prog \in Looping => \E j \in 1 .. Len(v) : v[j].op = "RDTSC"
  BY <1>2, <1>4, Basic, Fields
<1> QED
  BY <1>8, <1>9, <1>10, <1>11 DEF v, Z

-----------------------------------------------------------------------------
(***************************************************************************)
(* What a program reads from its vectors.                                  *)
(***************************************************************************)
LEMMA ReadingOf ==
  ASSUME DP!Inv, Control, NEW k \in Shown(prog)
  PROVE  /\ Reading(k) \in Nat
         /\ \E j \in 1 .. Len(Vec("stop")) :
              Vec("stop")[j].op = "READ" /\ Vec("stop")[j].ecx = k /\ Reading(k) = Vec("stop")[j].value
<1> DEFINE v == Vec("stop")
           P(n) == v[n].op = "READ" /\ v[n].ecx = k
           j == CHOOSE n \in DOMAIN v : P(n)
<1>1. v \in Seq(D!Cmd) /\ DOMAIN v = 1 .. Len(v) /\ \A n \in DOMAIN v : v[n] \in D!Cmd
  BY VectorFacts DEF Script
<1>2. \E n \in DOMAIN v : P(n)
  BY <1>1, StopFacts
<1>3. j \in DOMAIN v /\ P(j)
  BY <1>2
<1>4. Reading(k) = v[j].value
  BY DEF Reading, Vec
<1> HIDE DEF j
<1>5. \A d \in D!Cmd : d.value \in Nat
  BY DEF D!Cmd
<1>6. v[j].value \in Nat
  BY <1>1, <1>3, <1>5
<1> QED
  BY <1>1, <1>3, <1>4, <1>6

LEMMA StampOf ==
  ASSUME DP!Inv, Control, prog \in Looping, NEW b \in {"start", "stop"}
  PROVE  /\ Stamp(b) \in Nat
         /\ \E j \in 1 .. Len(Vec(b)) : Vec(b)[j].op = "RDTSC" /\ Stamp(b) = Vec(b)[j].value
<1> DEFINE v == Vec(b)
           P(n) == v[n].op = "RDTSC"
           j == CHOOSE n \in DOMAIN v : P(n)
<1>1. v \in Seq(D!Cmd) /\ DOMAIN v = 1 .. Len(v) /\ \A n \in DOMAIN v : v[n] \in D!Cmd
  BY VectorFacts DEF Script
<1>2. \E n \in DOMAIN v : P(n)
  BY <1>1, StartFacts, StopFacts
<1>3. j \in DOMAIN v /\ P(j)
  BY <1>2
<1>4. Stamp(b) = v[j].value
  BY DEF Stamp, Vec
<1> HIDE DEF j
<1>5. \A d \in D!Cmd : d.value \in Nat
  BY DEF D!Cmd
<1>6. v[j].value \in Nat
  BY <1>1, <1>3, <1>5
<1> QED
  BY <1>1, <1>3, <1>4, <1>6

LEMMA StampsOrdered ==
  ASSUME DP!Inv, Control, prog \in Looping, Closed
  PROVE  Stamp("stop") - Stamp("start") \in Nat
<1>1. PICK j \in 1 .. Len(Vec("start")) :
        Vec("start")[j].op = "RDTSC" /\ Stamp("start") = Vec("start")[j].value
  BY StampOf
<1>2. PICK k \in 1 .. Len(Vec("stop")) :
        Vec("stop")[k].op = "RDTSC" /\ Stamp("stop") = Vec("stop")[k].value
  BY StampOf
<1>3. Stamp("start") <= Stamp("stop") /\ Stamp("start") \in Nat /\ Stamp("stop") \in Nat
  BY <1>1, <1>2, StampOf DEF Closed, Stamped
<1> QED
  BY <1>3

LEMMA NextTypes == ASSUME IInv, [Next]_vars PROVE TypeOK'
<1> USE DEF IInv, Goto, regs, results, history, places
<1>1. /\ Loops \in Nat \ {0} /\ Fd \in Nat /\ left \in 0 .. Loops
      /\ pc \in {"open", "reset", "start", "work", "stopped"} => left \in 1 .. Loops
      /\ prog \in {"test.0", "test.1", "test.2", "test.3", "test.4", "test.6"}
  BY PowerAssumption, TestAssumption DEF TypeOK, Control
<1>2. PMC_COUNT \in Nat \ {0} /\ FFC_COUNT \in Nat \ {0} /\ TSC \notin D!Counter
  BY Counts DEF TSC, D!Counter, D!Pmc, D!Ffc
<1>3. CASE OpenDevice
  BY <1>1, <1>3 DEF OpenDevice, TypeOK
<1>4. CASE OpenFails
  BY <1>1, <1>4 DEF OpenFails, TypeOK
<1>5. CASE Reset
  <2>1. eax' \in {0, -1}
    BY <1>5, IoctlEffect DEF Reset, Entered, Refused, Script
  <2> QED
    BY <1>1, <1>5, <2>1 DEF Reset, TypeOK
<1>6. CASE Start
  <2>1. eax' \in {0, -1}
    BY <1>6, IoctlEffect DEF Start, Entered, Refused, Script
  <2> QED
    BY <1>1, <1>6, <2>1 DEF Start, TypeOK
<1>7. CASE StopCounters
  <2>1. eax' \in {0, -1}
    BY <1>7, IoctlEffect DEF StopCounters, Entered, Refused, Script
  <2> QED
    BY <1>1, <1>7, <2>1 DEF StopCounters, TypeOK
<1>8. CASE PrintRead
  BY <1>1, <1>8 DEF PrintRead, TypeOK
<1>9. CASE Accumulate
  <2>1. prog \in Looping /\ pc = "stopped" /\ ~ incall[Self]
    BY <1>9 DEF Accumulate, Returned
  <2>2. Closed /\ Shown(prog) = D!Counter
    BY <2>1 DEF Closing, Shown, Looping
  <2>3. \A k \in D!Counter : Reading(k) \in Nat
    BY <2>2, ReadingOf
  <2>4. Stamp("stop") - Stamp("start") \in Nat
    BY <2>1, <2>2, StampsOrdered
  <2>5. Ffc(FFC_COUNT - 1) \in D!Counter
    BY <1>2 DEF D!Counter, D!Ffc, Ffc
  <2>6. acc' \in [D!Counter \cup {TSC} -> Nat]
    <3>1. \A k \in D!Counter \cup {TSC} :
            (IF k = TSC THEN Stamp("stop") - Stamp("start") ELSE Reading(k)) \in Nat
      BY <2>3, <2>4
    <3>2. \A k \in D!Counter \cup {TSC} : acc[k] \in Nat
      BY DEF TypeOK
    <3>3. acc' = [k \in D!Counter \cup {TSC} |->
                    acc[k] + (IF k = TSC THEN Stamp("stop") - Stamp("start") ELSE Reading(k))]
      BY <1>9 DEF Accumulate
    <3> QED
      BY <3>1, <3>2, <3>3
  <2> QED
    BY <1>1, <1>9, <2>1, <2>3, <2>5, <2>6 DEF Accumulate, TypeOK
<1>10. CASE Average
  BY <1>1, <1>10 DEF Average, TypeOK
<1>11. CASE BaselineRound
  BY <1>1, <1>11 DEF BaselineRound, TypeOK
<1>12. CASE BaselineMean
  <2>1. Shown(prog) = D!Counter
    BY <1>12 DEF BaselineMean, Control, Shown
  <2>2. \A k \in D!Counter : Reading(k) \div Loops \in Nat
    BY <1>1, <2>1, ReadingOf
  <2>3. fixed' \in [D!Counter -> Nat]
    BY <1>12, <2>2 DEF BaselineMean
  <2> QED
    BY <1>1, <1>12, <2>3 DEF BaselineMean, TypeOK
<1>13. CASE PrintResult
  BY <1>1, <1>13 DEF PrintResult, TypeOK
<1>14. CASE CloseDriver
  BY <1>1, <1>14 DEF CloseDriver, TypeOK
<1>15. CASE DriverStep
  BY <1>15, DriverStepKeeps DEF TypeOK
<1>16. CASE \E c \in Cpu : Tick(c)
  BY <1>16, TickKeeps DEF TypeOK
<1>17. CASE \E c \in Cpu : Move(c)
  <2>1. cpu[Self] \in Cpu
    BY DriverFacts, OneClient DEF DriverTypes
  <2> QED
    BY <1>17, <2>1, MoveKeeps DEF TypeOK
<1>18. CASE UNCHANGED vars
  BY <1>18 DEF vars, TypeOK
<1> QED
  BY <1>18, <1>3, <1>4, <1>5, <1>6, <1>7, <1>8, <1>9, <1>10, <1>11, <1>12, <1>13, <1>14, <1>15,
     <1>16, <1>17 DEF Next, ProgramStep

LEMMA NextIInv == ASSUME IInv, [Next]_vars PROVE IInv'
<1>1. DP!Inv'
  BY NextDriver DEF IInv
<1>2. Closing'
  <2>1. CASE UNCHANGED vars
    BY <2>1 DEF vars, driverVars, regs, history, places, IInv, Closing, Closed, Halted,
         Stamped, StopFd, Vec
  <2> QED
    BY <2>1, ProgramClosing, DriverClosing, TickClosing, MoveClosing DEF Next
<1> QED
  BY <1>1, <1>2, NextControl, NextTypes DEF IInv

LEMMA InitIInv == ASSUME Init PROVE IInv
<1>1. \A b \in Script : mem[Self][b] = ScriptOf(prog, b) /\ given[Self][b] = ScriptOf(prog, b)
  BY OneClient DEF Init
<1>2. DP!Inv
  <2>1. mem \in [Client -> [Script -> AllVectors]] /\ given = mem /\ AllVectors \subseteq Seq(D!Cmd)
    BY DriverAssumptions, SameSets DEF Init, AllVectors, DP!VectorAssumption
  <2>2. DP!TypeOK
    BY <2>1, Counts, SameSets
       DEF Init, DP!TypeOK, DP!Module, D!Module, Client, Script
  <2>3. DP!Pinned
    BY DEF Init, DP!Pinned, D!Module
  <2>4. DP!ScriptsReusable
    BY <2>1 DEF DP!ScriptsReusable, DP!SameScript
  <2>5. DP!StaysInVector
    BY DEF Init, DP!StaysInVector
  <2> QED
    BY <2>2, <2>3, <2>4, <2>5 DEF DP!Inv
<1>3. TypeOK
  BY PowerAssumption, TestAssumption DEF Init, TypeOK
<1>4. Control
  BY <1>1, PowerAssumption, TestAssumption, OneClient DEF Init, Control
<1>5. ASSUME NEW b \in Script, NEW j \in 1 .. Len(Vec(b)), Vec(b)[j].op = "RDTSC"
      PROVE  Vec(b)[j].value = 0
  <2>1. Vec(b)[j] \in Items(ScriptOf(prog, b)) /\ prog \in Program
    BY <1>1, <1>4, <1>5 DEF Vec, Items, Control
  <2>2. Vec(b)[j] \in Controls \cup {Stop} \/ \E k : Vec(b)[j] = R(k) \/ Vec(b)[j] = W(k, 0)
    <3>1. CASE b = "reset"
      BY <2>1, <3>1, PmcResetShape, Basic DEF ScriptOf, ResetShape
    <3>2. CASE b = "start"
      BY <2>1, <3>2, Scripts DEF ScriptOf, StartShape
    <3>3. CASE b = "stop"
      BY <2>1, <3>3, Scripts, Basic DEF ScriptOf, StopShape
    <3> QED
      BY <3>1, <3>2, <3>3 DEF Script
  <2> QED
    BY <1>5, <2>2, Fields DEF Controls, Halt, FfcsOff, FfcsOn, CountersOn, Selects
<1>6. Halted
  BY Commands DEF Init, Halted
<1>7. Stamped(Len(Vec("stop")))
  BY <1>5 DEF Stamped, Script
<1>8. Closing
  <2>1. Vec("stop") \in Seq(D!Cmd) /\ tsc = 0 /\ pc = "open"
    BY <1>2, <1>4, VectorFacts DEF Script, Init
  <2>2. Closed
    BY <1>6, <1>7, <2>1 DEF Closed
  <2> QED
    BY <1>5, <1>6, <2>1, <2>2 DEF Closing, Halted
<1> QED
  BY <1>2, <1>3, <1>4, <1>8 DEF IInv

LEMMA Invariance == Spec => []IInv
<1>1. Init => IInv
  BY InitIInv
<1>2. IInv /\ [Next]_vars => IInv'
  BY NextIInv
<1> QED
  BY <1>1, <1>2, PTL DEF Spec

(***************************************************************************)
(* Whatever fails in a test program, the call that opens the driver or the *)
(* one that starts the counters, with any number of CPUs, counters and     *)
(* rounds, and wherever the scheduler moves it in between: when it closes  *)
(* the driver, averages or exits, no counter is left running of any CPU    *)
(* but those the program was moved away from while it measured, and the    *)
(* sums are naturals.                                                      *)
(***************************************************************************)
THEOREM MsrTestsHalted == Spec => []HaltedAtExit
<1>1. IInv => HaltedAtExit
  BY DEF IInv, Closing, Closed, Halted, HaltedAtExit
<1> QED
  BY <1>1, Invariance, PTL

-----------------------------------------------------------------------------
(***************************************************************************)
(* The second invariant: what the counters and the vector that reads them  *)
(* hold, against the events the history counts.  It is about the rounds    *)
(* whose calls reach the driver, of a program that has not been moved      *)
(* (Live), and needs counters that do not overflow while they are watched. *)
(***************************************************************************)
Live == moved = {} /\ fd = Fd /\ (prog \in Looping => left = Loops)

ReadWithin(n, lo, hi) ==
  \A j \in 1 .. n : Vec("stop")[j].op = "READ" => Vec("stop")[j].value \in lo .. hi

CountersWithin(lo, hi) == \A k \in Shown(prog) : Here[k] \in lo .. hi

LastWrite(s, j) ==
  /\ s[j].op = "WRITE"
  /\ \A i \in j + 1 .. Len(s) : s[i].op = "WRITE" => s[i].ecx # s[j].ecx

\* What the first n commands of the start script have done.
Configured(n) ==
  \A j \in 1 .. n : LastWrite(Vec("start"), j) /\ Vec("start")[j].ecx \notin D!Counter
    => Here[Vec("start")[j].ecx] = Vec("start")[j].value

Zeroed(n) ==
  \A j \in 1 .. n : Vec("start")[j].op = "WRITE" /\ Vec("start")[j].ecx \in D!Counter
    => Here[Vec("start")[j].ecx] <= outer

Resetting ==
  pc = "start" /\ incall[Self] =>
    /\ inner = 0 /\ outer = 0
    /\ \A j \in 1 .. idx[Self] : Vec("reset")[j].op = "WRITE" => Here[Vec("reset")[j].ecx] = 0

Carried == pc = "start" /\ ~ incall[Self] /\ prog = "test.6" => CountersWithin(inner, outer)

Starting ==
  pc = "work" /\ incall[Self] =>
    /\ Configured(idx[Self])
    /\ prog = "test.6" => CountersWithin(inner, outer)
    /\ prog # "test.6" => inner = 0 /\ Zeroed(idx[Self])

Running ==
  pc = "work" /\ ~ incall[Self] =>
    CountersWithin(inner, outer) /\ Shown(prog) \subseteq D!EnabledCounters(Here)

\* A counter is as it was when the script that reads it has not written it.
Untouched(k, n) ==
  \A j \in 1 .. n : Vec("stop")[j].op = "WRITE" => Vec("stop")[j].ecx # k

Stopping ==
  pc = "stopped" /\ incall[Self] =>
    /\ ReadWithin(idx[Self], inner, outer)
    /\ \A k \in Shown(prog) : Untouched(k, idx[Self]) => Here[k] \in inner .. outer

HasRead ==
  /\ (pc = "stopped" /\ ~ incall[Self]) \/ pc = "baseline" =>
       ReadWithin(Len(Vec("stop")), inner, outer)
  /\ pc = "stopped" /\ ~ incall[Self] /\ prog \in {"test.4", "test.6"} =>
       CountersWithin(inner, outer)

Counting == Resetting /\ Carried /\ Starting /\ Running /\ Stopping /\ HasRead

Clock ==
  /\ inner \in Nat /\ outer \in Nat /\ outer <= tsc /\ tsc <= MaxTsc

\* Where the descriptor of test.3 and test.4 is in their first round.
Descriptor ==
  prog \in Looping /\ left = Loops /\ fd = Fd =>
    (pc = "start" => eax = Fd) /\ (pc = "work" => ebx = Fd)

Unopened == fd # Fd => mem = given

-----------------------------------------------------------------------------
LEMMA ShownCounters ==
  /\ \A g : Shown(g) \subseteq D!Counter
  /\ D!Counter \subseteq D!Reg
  /\ \A m : D!EnabledCounters(m) \subseteq D!Counter
  /\ Pmc(0) \in D!Counter
<1>1. 1 \in 1 .. PMC_COUNT /\ 1 - 1 = 0 /\ 0 \in 0 .. PMC_COUNT - 1
  BY Counts
<1>2. Pmc(0) \in D!Counter
  BY <1>1 DEF D!Counter, D!Pmc, Pmc
<1>3. \A m : D!EnabledCounters(m) \subseteq D!Counter
  BY DEF D!EnabledCounters, D!Counter
<1> QED
  BY <1>2, <1>3 DEF Shown, D!Reg

LEMMA TickEffect ==
  ASSUME IInv, Clock, MaxTsc < CounterSize, NEW c \in Cpu, Tick(c)
  PROVE  /\ \A r \in D!Reg \ D!Counter : Here'[r] = Here[r]
         /\ (Halted /\ moved = {}) \/ c # cpu[Self] => Here' = Here
         /\ D!EnabledCounters(Here)' = D!EnabledCounters(Here)
         /\ \A k \in D!Counter : Here[k] \in 0 .. outer =>
              /\ Here'[k] \in {Here[k], Here[k] + 1}
              /\ c = cpu[Self] /\ k \in D!EnabledCounters(Here) => Here'[k] = Here[k] + 1
<1>1. /\ DriverTypes /\ cpu' = cpu /\ cpu[Self] \in Cpu
      /\ tsc < MaxTsc
      /\ msr' = [msr EXCEPT ![c] =
               [r \in D!Reg |-> IF r \in D!EnabledCounters(msr[c])
                              THEN (msr[c][r] + 1) % CounterSize
                              ELSE msr[c][r]]]
  BY TickKeeps, DriverFacts, OneClient DEF Tick, D!Tick, IInv, DriverTypes
<1>2. ASSUME c # cpu[Self] PROVE Here' = Here
  BY <1>1, <1>2 DEF Here, DriverTypes
<1>3. ASSUME Halted, moved = {} PROVE Here' = Here
  BY <1>1, <1>3, TickOff DEF Halted, Here, IInv, TypeOK
<1>4. ASSUME c = cpu[Self], NEW r \in D!Reg
      PROVE  Here'[r] = IF r \in D!EnabledCounters(Here) THEN (Here[r] + 1) % CounterSize ELSE Here[r]
  BY <1>1, <1>4 DEF Here, DriverTypes
<1>5. ASSUME NEW r \in D!Reg \ D!Counter PROVE Here'[r] = Here[r]
  BY <1>2, <1>4, ShownCounters
<1>6. D!EnabledCounters(Here)' = D!EnabledCounters(Here)
  <2>1. /\ \A n \in 0 .. PMC_COUNT - 1 : EvtSel(n) \in D!Reg \ D!Counter
        /\ GlobalCtrl \in D!Reg \ D!Counter /\ FixedCtrl \in D!Reg \ D!Counter
    BY Registers DEF D!Reg, D!GlobalCtrl, GlobalCtrl, D!FixedCtrl, FixedCtrl, D!EvtSel, EvtSel
  <2>2. /\ D!GlobalCtrl = GlobalCtrl /\ D!FixedCtrl = FixedCtrl
        /\ \A n : D!EvtSel(n) = EvtSel(n)
    BY DEF D!GlobalCtrl, GlobalCtrl, D!FixedCtrl, FixedCtrl, D!EvtSel, EvtSel
  <2>3. \A n \in 0 .. PMC_COUNT - 1 : D!PmcEnabled(Here, n)' <=> D!PmcEnabled(Here, n)
    BY <1>5, <2>1, <2>2 DEF D!PmcEnabled, D!BitSet
  <2>4. \A n \in 0 .. FFC_COUNT - 1 : D!FfcEnabled(Here, n)' <=> D!FfcEnabled(Here, n)
    BY <1>5, <2>1, <2>2 DEF D!FfcEnabled, D!BitSet
  <2> QED
    BY <2>3, <2>4 DEF D!EnabledCounters
<1>7. ASSUME NEW k \in D!Counter, Here[k] \in 0 .. outer
      PROVE  /\ Here'[k] \in {Here[k], Here[k] + 1}
             /\ c = cpu[Self] /\ k \in D!EnabledCounters(Here) => Here'[k] = Here[k] + 1
  <2>1. k \in D!Reg /\ Here[k] \in Nat /\ Here[k] + 1 < CounterSize
    BY <1>1, <1>7, Counts, ShownCounters DEF Clock, DriverTypes
  <2>2. (Here[k] + 1) % CounterSize = Here[k] + 1
    BY <2>1, Counts
  <2> QED
    BY <1>2, <1>4, <2>1, <2>2
<1> QED
  BY <1>2, <1>3, <1>5, <1>6, <1>7

LEMMA TickCounting ==
  ASSUME IInv, Clock, Counting, moved = {}, MaxTsc < CounterSize, NEW c \in Cpu, Tick(c)
  PROVE  Counting'
<1> USE DEF IInv
<1>1. /\ UNCHANGED <<cpu, open, mem, given, incall, cur, idx>>
      /\ UNCHANGED <<prog, pc, phase, fd, eax, ebx, left, acc, fixed, shown, rounds>>
      /\ tsc' = tsc + 1
  BY TickKeeps
<1>2. /\ inner' = IF cpu[Self] = c /\ pc = "work" /\ ~ incall[Self] THEN inner + 1 ELSE inner
      /\ outer' = IF cpu[Self] = c /\ (pc = "work" \/ (pc = "stopped" /\ incall[Self]))
                  THEN outer + 1 ELSE outer
  BY DEF Tick, Returned
<1>3. inner \in Nat /\ outer \in Nat /\ tsc \in Nat /\ DriverTypes
  BY DriverFacts DEF Clock, DriverTypes
<1>4. /\ \A b : Vec(b)' = Vec(b)
      /\ Shown(prog)' = Shown(prog) /\ Shown(prog) \subseteq D!Counter
      /\ \A k, n : Untouched(k, n)' <=> Untouched(k, n)
  BY <1>1, ShownCounters DEF Vec, Shown, Untouched
<1>5. ASSUME Halted, pc # "work", ~ (pc = "stopped" /\ incall[Self])
      PROVE  Here' = Here /\ inner' = inner /\ outer' = outer
  BY <1>2, <1>5, TickEffect
<1>6. Resetting'
  <2>1. pc = "start" => Halted
    BY DEF Closing, Closed
  <2> QED
    BY <1>1, <1>4, <1>5, <2>1 DEF Resetting, Counting
<1>7. Carried'
  <2>1. pc = "start" => Halted
    BY DEF Closing, Closed
  <2> QED
    BY <1>1, <1>4, <1>5, <2>1 DEF Carried, CountersWithin, Counting
<1>8. HasRead'
  <2>1. (pc = "stopped" /\ ~ incall[Self]) \/ pc = "baseline" => Halted
    BY DEF Closing, Closed
  <2> QED
    BY <1>1, <1>4, <1>5, <2>1 DEF HasRead, ReadWithin, CountersWithin, Counting
<1>9. ASSUME NEW k \in Shown(prog), Here[k] \in inner .. outer, pc \in {"work", "stopped"},
             pc = "stopped" => incall[Self],
             pc = "work" /\ ~ incall[Self] => k \in D!EnabledCounters(Here)
      PROVE  Here'[k] \in inner' .. outer'
  <2>1. Here[k] \in 0 .. outer /\ k \in D!Counter
    BY <1>3, <1>4, <1>9
  <2>2. /\ c # cpu[Self] => Here'[k] = Here[k]
        /\ Here'[k] \in {Here[k], Here[k] + 1}
        /\ c = cpu[Self] /\ k \in D!EnabledCounters(Here) => Here'[k] = Here[k] + 1
    BY <2>1, TickEffect
  <2> QED
    BY <1>2, <1>3, <1>9, <2>2
<1>10. ASSUME NEW k \in D!Counter, Here[k] \in 0 .. outer, pc = "work"
       PROVE  Here'[k] <= outer'
  <2>1. /\ c # cpu[Self] => Here'[k] = Here[k]
        /\ Here'[k] \in {Here[k], Here[k] + 1}
    BY <1>10, TickEffect
  <2> QED
    BY <1>2, <1>3, <1>10, <2>1
<1>11. Starting'
  <2> SUFFICES ASSUME pc = "work", incall[Self] PROVE Starting'
    BY <1>1 DEF Starting
  <2>1. idx[Self] \in Nat /\ idx[Self] <= Len(Vec("start")) /\ cur[Self] = "start"
    BY <1>3, DriverFacts, OneClient DEF Vec, DriverTypes, Control
  <2>2. \A j \in 1 .. idx[Self] : j \in 1 .. Len(Vec("start")) /\ Vec("start")[j] \in D!Cmd
    <3>1. "start" \in Script
      BY DEF Script
    <3> QED
      BY <2>1, <3>1, VectorFacts
  <2>3. Configured(idx[Self])'
    <3>1. Configured(idx[Self])
      BY DEF Starting, Counting
    <3>2. \A j \in 1 .. idx[Self] : LastWrite(Vec("start"), j) /\ Vec("start")[j].ecx \notin D!Counter
            => Here'[Vec("start")[j].ecx] = Here[Vec("start")[j].ecx]
      BY <2>2, TickEffect DEF D!Cmd
    <3> QED
      BY <1>1, <1>4, <3>1, <3>2 DEF Configured
  <2>4. prog = "test.6" => CountersWithin(inner, outer)'
    BY <1>1, <1>4, <1>9 DEF CountersWithin, Starting, Counting
  <2>5. prog # "test.6" => inner' = 0 /\ Zeroed(idx[Self])'
    <3>1. prog # "test.6" => inner = 0 /\ Zeroed(idx[Self])
      BY DEF Starting, Counting
    <3>2. \A j \in 1 .. idx[Self] : Vec("start")[j].ecx \in D!Counter => Here[Vec("start")[j].ecx] \in Nat
      BY <1>3, OneClient, ShownCounters DEF Here, DriverTypes
    <3>3. ASSUME prog # "test.6", NEW j \in 1 .. idx[Self], Vec("start")[j].op = "WRITE",
                 Vec("start")[j].ecx \in D!Counter
          PROVE  Here'[Vec("start")[j].ecx] <= outer'
      <4>1. Here[Vec("start")[j].ecx] \in 0 .. outer
        BY <1>3, <3>1, <3>2, <3>3 DEF Zeroed
      <4> QED
        BY <1>10, <3>3, <4>1
    <3> QED
      BY <1>1, <1>2, <1>4, <3>1, <3>3 DEF Zeroed
  <2> QED
    BY <1>1, <2>3, <2>4, <2>5 DEF Starting
<1>12. Running'
  <2>1. D!EnabledCounters(Here)' = D!EnabledCounters(Here)
    BY TickEffect
  <2> QED
    BY <1>1, <1>4, <1>9, <2>1 DEF Running, CountersWithin, Counting
<1>13. Stopping'
  <2>1. pc = "stopped" /\ incall[Self] => inner' = inner /\ outer' \in {outer, outer + 1}
    BY <1>2
  <2>2. ASSUME pc = "stopped", incall[Self] PROVE ReadWithin(idx[Self], inner, outer)'
    <3>1. \A j \in 1 .. idx[Self] :
            Vec("stop")[j].op = "READ" => Vec("stop")[j].value \in inner .. outer
      BY <2>2 DEF Stopping, Counting, ReadWithin
    <3> QED
      BY <1>1, <1>3, <1>4, <2>1, <2>2, <3>1 DEF ReadWithin
  <2> QED
    BY <1>1, <1>4, <1>9, <2>2 DEF Stopping, Counting
<1> QED
  BY <1>6, <1>7, <1>8, <1>11, <1>12, <1>13 DEF Counting

\* What a command does to the program's registers.
LEMMA SetsRegister ==
  ASSUME DP!Inv, NEW c \in D!Cmd, Sets(c), cpu' = cpu, NEW r \in D!Reg
  PROVE  /\ r # c.ecx => Here'[r] = Here[r]
         /\ r = c.ecx /\ c.value = 0 => Here'[r] = 0
         /\ r = c.ecx /\ r \notin D!Counter => Here'[r] = c.value
<1>1. cpu[Self] \in Cpu
  BY DriverFacts, OneClient DEF DriverTypes
<1>2. Here'[r] = IF r = c.ecx THEN IF r \in D!Counter THEN c.value % CounterSize ELSE c.value
                 ELSE Here[r]
  BY <1>1 DEF Sets, Here
<1>3. 0 % CounterSize = 0
  BY Counts
<1> QED
  BY <1>2, <1>3

\* The script that resets: every counter is 0 when it returns.
LEMMA ResetCounting ==
  ASSUME IInv, Clock, Counting, DriverStep, pc = "start"
  PROVE  Counting'
<1> USE DEF IInv
<1> DEFINE n == idx[Self] + 1
<1>1. UNCHANGED <<prog, pc, fd, inner, outer>>
  BY DriverStepKeeps
<1>2. /\ incall[Self] /\ idx[Self] \in Nat /\ UNCHANGED <<cpu, cur>>
      /\ \/ Executes(n)
         \/ n = Len(Vec(cur[Self])) /\ ~ incall'[Self] /\ UNCHANGED <<msr, mem>>
  BY Command DEF DriverStep
<1>3. cur[Self] = "reset" /\ prog = "test.6" /\ "reset" \in Script
  BY <1>2 DEF Control, Script
<1>4. /\ inner = 0 /\ outer = 0
      /\ \A j \in 1 .. idx[Self] : Vec("reset")[j].op = "WRITE" => Here[Vec("reset")[j].ecx] = 0
  BY <1>2 DEF Counting, Resetting
<1>5. CASE n = Len(Vec("reset")) /\ ~ incall'[Self] /\ UNCHANGED <<msr, mem>>
  <2>1. ASSUME NEW k \in D!Counter PROVE Here'[k] = 0
    <3>1. PICK j \in 1 .. Len(Vec("reset")) : Vec("reset")[j] = W(k, 0)
      BY ResetFacts
    <3>2. Vec("reset")[n].op = "STOP"
      BY <1>3, <1>5, PlainFacts
    <3>3. j \in 1 .. idx[Self]
      BY <1>2, <1>5, <3>1, <3>2, Fields
    <3>4. Here' = Here
      BY <1>2, <1>5 DEF Here
    <3> QED
      BY <1>4, <3>1, <3>3, <3>4, Fields
  <2>2. CountersWithin(inner, outer)'
    BY <1>1, <1>4, <2>1, ShownCounters DEF CountersWithin
  <2>3. pc' = "start" /\ ~ incall'[Self]
    BY <1>1, <1>5
  <2> QED
    BY <2>2, <2>3 DEF Counting, Resetting, Carried, Starting, Running, Stopping, HasRead
<1>6. CASE Executes(n)
  <2> DEFINE c == Vec("reset")[n]
  <2>1. n \in 1 .. Len(Vec("reset")) - 1 /\ incall'[Self] /\ idx'[Self] = n
    BY <1>3, <1>6 DEF Executes
  <2>2. c \in D!Cmd /\ c.op \notin {"READ", "RDTSC"} /\ (c.op = "WRITE" => c.value = 0)
    BY <1>3, <2>1, VectorFacts, ResetFacts
  <2>3. Sets(c)
    BY <1>3, <1>6, <2>2 DEF Executes
  <2>4. Vec("reset")' = Vec("reset")
    BY <2>3 DEF Sets, Vec
  <2>5. ASSUME NEW j \in 1 .. n, Vec("reset")[j].op = "WRITE"
        PROVE  Here'[Vec("reset")[j].ecx] = 0
    <3>1. Vec("reset")[j] \in D!Cmd
      <4>1. j \in 1 .. Len(Vec("reset"))
        BY <1>2, <2>1
      <4> QED
        BY <1>3, <4>1, VectorFacts
    <3>2. Vec("reset")[j].ecx \in D!Reg
      BY <3>1 DEF D!Cmd
    <3>3. CASE Vec("reset")[j].ecx = c.ecx
      BY <1>2, <2>2, <2>3, <3>2, <3>3, SetsRegister DEF Sets
    <3>4. CASE Vec("reset")[j].ecx # c.ecx
      <4>1. j \in 1 .. idx[Self]
        BY <1>2, <3>4
      <4> QED
        BY <1>2, <1>4, <2>2, <2>3, <2>5, <3>2, <3>4, <4>1, SetsRegister
    <3> QED
      BY <3>3, <3>4
  <2> HIDE DEF n
  <2>6. pc' = "start" /\ incall'[Self] /\ inner' = 0 /\ outer' = 0
    BY <1>1, <1>4, <2>1
  <2>7. Resetting'
    BY <2>1, <2>4, <2>5, <2>6 DEF Resetting
  <2> QED
    BY <2>6, <2>7 DEF Counting, Carried, Starting, Running, Stopping, HasRead
<1> QED
  BY <1>2, <1>3, <1>5, <1>6

\* What the start script has done when it returns: the counters count.
LEMMA StartedCounters ==
  ASSUME IInv, Configured(Len(Vec("start")) - 1)
  PROVE  Shown(prog) \subseteq D!EnabledCounters(Here)
<1> USE DEF IInv
<1> DEFINE v == Vec("start")
<1>1. v[Len(v)].op = "STOP" /\ Len(v) \in Nat \ {0}
  BY PlainFacts
<1>2. ASSUME NEW c \in Enabling(prog), c.op = "WRITE", c.ecx \notin D!Counter
      PROVE  Here[c.ecx] = c.value
  <2>1. PICK j \in 1 .. Len(v) :
          v[j] = c /\ \A i \in j + 1 .. Len(v) : v[i].op = "WRITE" => v[i].ecx # c.ecx
    BY StartFacts DEF LastIn
  <2>2. j # Len(v)
    BY <1>1, <1>2, <2>1
  <2>3. j \in 1 .. Len(v) - 1
    BY <1>1, <2>1, <2>2
  <2>4. LastWrite(v, j)
    BY <1>2, <2>1 DEF LastWrite
  <2> QED
    BY <1>2, <2>1, <2>3, <2>4 DEF Configured
<1>3. CountersOn \in Enabling(prog) /\ W(EvtSel(0), 1) \in Enabling(prog)
  <2>1. 1 \in 1 .. PMC_COUNT /\ 1 - 1 = 0
    BY Counts
  <2>2. W(EvtSel(0), 1) \in Selects
    BY <2>1 DEF Selects
  <2> QED
    BY <2>2 DEF Enabling, FirstOn, AllOn
<1>4. Here[GlobalCtrl] = 2^(PMC_COUNT + FFC_COUNT) - 1
  BY <1>2, <1>3, Fields, Registers DEF CountersOn
<1>5. /\ DP!GlobalCtrl = GlobalCtrl /\ DP!FixedCtrl = FixedCtrl
      /\ \A m : DP!EnabledCounters(m) = D!EnabledCounters(m)
      /\ \A n : DP!Pmc(n) = Pmc(n) /\ DP!Ffc(n) = Ffc(n) /\ DP!EvtSel(n) = EvtSel(n)
  BY DEF D!EnabledCounters, DP!EnabledCounters, D!PmcEnabled, DP!PmcEnabled,
     D!FfcEnabled, DP!FfcEnabled, D!BitSet, DP!BitSet, D!Pmc, DP!Pmc, Pmc, D!Ffc, DP!Ffc, Ffc,
     D!GlobalCtrl, DP!GlobalCtrl, GlobalCtrl, D!FixedCtrl, DP!FixedCtrl, FixedCtrl,
     D!EvtSel, DP!EvtSel, EvtSel
<1>6. /\ \A n \in 0 .. PMC_COUNT - 1 : Here[EvtSel(n)] # 0 => Pmc(n) \in D!EnabledCounters(Here)
      /\ Here[FixedCtrl] = DP!FixedValue(2) =>
           \A n \in 0 .. FFC_COUNT - 1 : Ffc(n) \in D!EnabledCounters(Here)
  <2>1. Here[DP!GlobalCtrl] = 2^(PMC_COUNT + FFC_COUNT) - 1 /\ 2 \in 1 .. 3
    BY <1>4, <1>5
  <2>2. /\ \A n \in 0 .. PMC_COUNT - 1 : Here[DP!EvtSel(n)] # 0 => DP!Pmc(n) \in DP!EnabledCounters(Here)
        /\ Here[DP!FixedCtrl] = DP!FixedValue(2) =>
             \A n \in 0 .. FFC_COUNT - 1 : DP!Ffc(n) \in DP!EnabledCounters(Here)
    BY <2>1, DriverAssumptions, DP!WhenEnabled
  <2> QED
    BY <1>5, <2>2
<1>7. CASE prog = "test.0"
  <2>1. Here[EvtSel(0)] = 1 /\ 0 \in 0 .. PMC_COUNT - 1
    BY <1>2, <1>3, Fields, Registers, Counts
  <2> QED
    BY <1>6, <1>7, <2>1 DEF Shown
<1>8. CASE prog # "test.0"
  <2>1. FfcsOn \in Enabling(prog) /\ Selects \subseteq Enabling(prog)
    BY <1>8 DEF Enabling, AllOn
  <2>2. Here[FixedCtrl] = DP!FixedValue(2)
    BY <1>2, <2>1, Fields, Registers DEF FfcsOn, DP!FixedValue
  <2>3. ASSUME NEW n \in 0 .. PMC_COUNT - 1 PROVE Here[EvtSel(n)] # 0
    <3>1. n + 1 \in 1 .. PMC_COUNT /\ (n + 1) - 1 = n
      BY Counts
    <3>2. W(EvtSel(n), 1) \in Enabling(prog)
      BY <2>1, <3>1 DEF Selects
    <3> QED
      BY <1>2, <3>2, Fields, Registers
  <2> QED
    BY <1>5, <1>6, <1>8, <2>2, <2>3 DEF Shown, D!Counter, D!Pmc, D!Ffc, Pmc, Ffc
<1> QED
  BY <1>7, <1>8

\* The script that starts the counters.
LEMMA StartCounting ==
  ASSUME IInv, Clock, Counting, DriverStep, pc = "work"
  PROVE  Counting'
<1> USE DEF IInv
<1> DEFINE n == idx[Self] + 1
           v == Vec("start")
<1>1. UNCHANGED <<prog, pc, fd, inner, outer>>
  BY DriverStepKeeps
<1>2. /\ incall[Self] /\ idx[Self] \in Nat /\ UNCHANGED <<cpu, cur>>
      /\ \/ Executes(n)
         \/ n = Len(Vec(cur[Self])) /\ ~ incall'[Self] /\ UNCHANGED <<msr, mem>>
  BY Command DEF DriverStep
<1>3. cur[Self] = "start" /\ "start" \in Script
  BY <1>2 DEF Control, Script
<1>4. /\ Configured(idx[Self])
      /\ prog = "test.6" => CountersWithin(inner, outer)
      /\ prog # "test.6" => inner = 0 /\ Zeroed(idx[Self])
  BY <1>2 DEF Counting, Starting
<1>5. DriverTypes /\ cpu[Self] \in Cpu /\ inner \in Nat /\ outer \in Nat
  BY DriverFacts, OneClient DEF DriverTypes, Clock
<1>6. CASE n = Len(v) /\ ~ incall'[Self] /\ UNCHANGED <<msr, mem>>
  <2>1. idx[Self] = Len(v) - 1
    BY <1>2, <1>6
  <2>2. Here' = Here
    BY <1>2, <1>6 DEF Here
  <2>3. Shown(prog) \subseteq D!EnabledCounters(Here)
    BY <1>4, <2>1, StartedCounters
  <2>4. CountersWithin(inner, outer)
    <3>1. CASE prog = "test.6"
      BY <1>4, <3>1
    <3>2. ASSUME prog # "test.6", NEW k \in Shown(prog) PROVE Here[k] \in inner .. outer
      <4>1. k \in StartZeroes(prog) /\ k \in D!Counter
        BY <3>2, ShownCounters DEF StartZeroes, Shown
      <4>2. PICK j \in 1 .. Len(v) : v[j] = W(k, 0)
        BY <4>1, StartFacts
      <4>3. v[Len(v)].op = "STOP"
        BY PlainFacts
      <4>4. j \in 1 .. idx[Self]
        BY <1>2, <1>6, <4>2, <4>3, Fields
      <4>5. Here[k] <= outer
        BY <1>4, <3>2, <4>1, <4>2, <4>4, Fields DEF Zeroed
      <4>6. Here[k] \in Nat
        BY <1>5, <4>1, ShownCounters DEF Here, DriverTypes
      <4> QED
        BY <1>4, <1>5, <3>2, <4>5, <4>6
    <3> QED
      BY <3>1, <3>2 DEF CountersWithin
  <2>5. pc' = "work" /\ ~ incall'[Self] /\ Shown(prog)' = Shown(prog)
    BY <1>1, <1>6 DEF Shown
  <2>6. Running'
    BY <1>1, <2>2, <2>3, <2>4, <2>5 DEF Running, CountersWithin, D!EnabledCounters, D!PmcEnabled, D!FfcEnabled
  <2> QED
    BY <2>5, <2>6 DEF Counting, Resetting, Carried, Starting, Stopping, HasRead
<1>7. CASE Executes(n)
  <2> DEFINE c == v[n]
  <2>1. n \in 1 .. Len(v) - 1 /\ incall'[Self] /\ idx'[Self] = n
    BY <1>3, <1>7 DEF Executes
  <2>2. c \in D!Cmd /\ c.op # "READ"
        /\ (c.op = "WRITE" /\ c.ecx \in D!Counter => c.value = 0 /\ c.ecx \in StartZeroes(prog))
    BY <1>3, <2>1, VectorFacts, StartFacts
  <2>3. Sets(c) \/ (c.op = "RDTSC" /\ Here' = Here)
    <3>1. \/ Sets(c)
          \/ c.op = "READ" /\ Puts(n, Here[c.ecx])
          \/ c.op = "RDTSC" /\ Puts(n, tsc)
      BY <1>3, <1>7 DEF Executes
    <3> QED
      BY <1>2, <2>2, <3>1 DEF Puts, Here
  <2>4. /\ Len(v') = Len(v)
        /\ \A j \in 1 .. Len(v) : /\ v'[j].op = v[j].op /\ v'[j].ecx = v[j].ecx
                                  /\ v[j].op = "WRITE" => v'[j] = v[j]
    BY <1>3, <1>7, Stored
  <2>5. \A j \in 1 .. n : j \in 1 .. Len(v) /\ v[j] \in D!Cmd /\ v[j].ecx \in D!Reg
    <3>1. \A j \in 1 .. n : j \in 1 .. Len(v)
      BY <1>2, <2>1
    <3>2. \A d \in D!Cmd : d.ecx \in D!Reg
      BY DEF D!Cmd
    <3> QED
      BY <1>3, <3>1, <3>2, VectorFacts
  <2>6. Configured(idx[Self])'
    <3>1. ASSUME NEW j \in 1 .. n, LastWrite(v, j), v[j].ecx \notin D!Counter
          PROVE  Here'[v[j].ecx] = v[j].value
      <4>1. CASE j = n
        BY <1>2, <2>2, <2>3, <2>5, <3>1, <4>1, SetsRegister DEF LastWrite
      <4>2. CASE j # n
        <5>1. j \in 1 .. idx[Self] /\ n \in j + 1 .. Len(v)
          BY <1>2, <2>1, <4>2
        <5>2. Here[v[j].ecx] = v[j].value
          BY <1>4, <3>1, <5>1 DEF Configured
        <5>3. c.op = "WRITE" => c.ecx # v[j].ecx
          BY <3>1, <5>1 DEF LastWrite
        <5>4. Here'[v[j].ecx] = Here[v[j].ecx]
          <6>1. CASE Sets(c)
            BY <1>2, <2>2, <2>5, <5>3, <6>1, SetsRegister DEF Sets
          <6> QED
            BY <2>3, <6>1
        <5> QED
          BY <5>2, <5>4
      <4> QED
        BY <4>1, <4>2
    <3>2. ASSUME NEW j \in 1 .. n, LastWrite(v', j) PROVE LastWrite(v, j) /\ v'[j] = v[j]
      BY <2>4, <2>5, <3>2 DEF LastWrite
    <3>3. \A j \in 1 .. n : LastWrite(v', j) /\ v'[j].ecx \notin D!Counter
            => Here'[v'[j].ecx] = v'[j].value
      BY <3>1, <3>2
    <3> HIDE DEF n
    <3> QED
      BY <2>1, <3>3 DEF Configured
  <2>7. ASSUME prog = "test.6" PROVE CountersWithin(inner, outer)'
    <3>1. ASSUME NEW k \in D!Counter PROVE Here'[k] = Here[k]
      <4>1. CASE Sets(c)
        <5>1. c.ecx # k
          BY <2>2, <2>7, <4>1 DEF Sets, StartZeroes
        <5> QED
          BY <1>2, <2>2, <4>1, <5>1, SetsRegister, ShownCounters
      <4> QED
        BY <2>3, <4>1
    <3> QED
      BY <1>1, <1>4, <2>7, <3>1, ShownCounters DEF CountersWithin
  <2>8. ASSUME prog # "test.6" PROVE inner' = 0 /\ Zeroed(idx[Self])'
    <3>1. ASSUME NEW j \in 1 .. n, v[j].op = "WRITE", v[j].ecx \in D!Counter
          PROVE  Here'[v[j].ecx] <= outer
      <4>1. CASE Sets(c) /\ c.ecx = v[j].ecx
        <5>1. c.value = 0
          BY <2>2, <3>1, <4>1 DEF Sets
        <5>2. Here'[v[j].ecx] = 0
          BY <1>2, <2>2, <2>5, <4>1, <5>1, SetsRegister
        <5> QED
          BY <1>5, <5>2
      <4>2. CASE ~ (Sets(c) /\ c.ecx = v[j].ecx)
        <5>1. j # n
          BY <2>2, <2>3, <3>1, <4>2
        <5>2. j \in 1 .. idx[Self]
          BY <1>2, <5>1
        <5>3. Here[v[j].ecx] <= outer
          BY <1>4, <2>8, <3>1, <5>2 DEF Zeroed
        <5>4. Here'[v[j].ecx] = Here[v[j].ecx]
          <6>1. CASE Sets(c)
            BY <1>2, <2>2, <2>5, <4>2, <6>1, SetsRegister
          <6> QED
            BY <2>3, <6>1
        <5> QED
          BY <5>3, <5>4
      <4> QED
        BY <4>1, <4>2
    <3>2. \A j \in 1 .. n : v'[j].op = v[j].op /\ v'[j].ecx = v[j].ecx
      BY <2>4, <2>5
    <3> HIDE DEF n
    <3> QED
      BY <1>1, <1>4, <2>1, <2>8, <3>1, <3>2 DEF Zeroed
  <2>9. pc' = "work" /\ incall'[Self] /\ prog' = prog
    BY <1>1, <2>1
  <2>10. Starting'
    BY <2>6, <2>7, <2>8, <2>9 DEF Starting
  <2> QED
    BY <2>9, <2>10 DEF Counting, Resetting, Carried, Running, Stopping, HasRead
<1> QED
  BY <1>2, <1>3, <1>6, <1>7

\* The script that halts and reads the counters.
LEMMA StopCounting ==
  ASSUME IInv, Clock, Counting, DriverStep, pc = "stopped"
  PROVE  Counting'
<1> USE DEF IInv
<1> DEFINE n == idx[Self] + 1
           v == Vec("stop")
<1>1. UNCHANGED <<prog, pc, fd, inner, outer>> /\ Shown(prog)' = Shown(prog)
  BY DriverStepKeeps DEF Shown
<1>2. /\ incall[Self] /\ idx[Self] \in Nat /\ UNCHANGED <<cpu, cur>>
      /\ \/ Executes(n)
         \/ n = Len(Vec(cur[Self])) /\ ~ incall'[Self] /\ UNCHANGED <<msr, mem>>
  BY Command DEF DriverStep
<1>3. cur[Self] = "stop" /\ "stop" \in Script
  BY <1>2 DEF Control, Script
<1>4. /\ \A j \in 1 .. idx[Self] : v[j].op = "READ" => v[j].value \in inner .. outer
      /\ \A k \in Shown(prog) : Untouched(k, idx[Self]) => Here[k] \in inner .. outer
  BY <1>2 DEF Counting, Stopping, ReadWithin
<1>5. CASE n = Len(v) /\ ~ incall'[Self] /\ UNCHANGED <<msr, mem>>
  <2>1. v[Len(v)].op = "STOP" /\ Here' = Here /\ v' = v
    BY <1>2, <1>5, PlainFacts DEF Here, Vec
  <2>2. \A j \in 1 .. Len(v) : j # Len(v) => j \in 1 .. idx[Self]
    BY <1>2, <1>5
  <2>3. ReadWithin(Len(v), inner, outer)
    BY <1>4, <2>1, <2>2 DEF ReadWithin
  <2>4. ASSUME prog \in {"test.4", "test.6"} PROVE CountersWithin(inner, outer)
    <3>1. \A k \in Shown(prog) : Untouched(k, idx[Self])
      <4>1. \A j \in 1 .. idx[Self] : j \in 1 .. Len(v)
        BY <1>2, <1>5
      <4>2. \A j \in 1 .. Len(v) : v[j].op = "WRITE" => v[j].ecx \in {GlobalCtrl, FixedCtrl}
        BY <2>4, StopFacts DEF StopZeroes
      <4> QED
        BY <4>1, <4>2, ShownCounters, Registers DEF Untouched
    <3> QED
      BY <1>4, <3>1 DEF CountersWithin
  <2>5. pc' = "stopped" /\ ~ incall'[Self]
    BY <1>1, <1>5
  <2>6. HasRead'
    BY <1>1, <2>1, <2>3, <2>4 DEF HasRead, ReadWithin, CountersWithin
  <2> QED
    BY <2>5, <2>6 DEF Counting, Resetting, Carried, Starting, Running, Stopping
<1>6. CASE Executes(n)
  <2> DEFINE c == v[n]
  <2>1. n \in 1 .. Len(v) - 1 /\ incall'[Self] /\ idx'[Self] = n
    BY <1>3, <1>6 DEF Executes
  <2>2. c \in D!Cmd /\ (c.op = "READ" => c.ecx \in Shown(prog))
    BY <1>3, <2>1, VectorFacts, StopFacts
  <2>3. Sets(c) \/ (c.op \in {"READ", "RDTSC"} /\ Here' = Here)
    <3>1. \/ Sets(c)
          \/ c.op = "READ" /\ Puts(n, Here[c.ecx])
          \/ c.op = "RDTSC" /\ Puts(n, tsc)
      BY <1>3, <1>6 DEF Executes
    <3> QED
      BY <1>2, <3>1 DEF Puts, Here
  <2>4. /\ Len(v') = Len(v)
        /\ \A j \in 1 .. Len(v) :
             /\ v'[j].op = v[j].op /\ v'[j].ecx = v[j].ecx
             /\ j # n => v'[j] = v[j]
             /\ j = n /\ v[j].op = "READ" => v'[j].value = Here[v[j].ecx]
    BY <1>3, <1>6, Stored
  <2>5. \A j \in 1 .. n : j \in 1 .. Len(v) /\ (j # n => j \in 1 .. idx[Self])
    BY <1>2, <2>1
  <2>6. ASSUME c.op = "READ" PROVE Here[c.ecx] \in inner .. outer
    <3>1. Untouched(c.ecx, idx[Self])
      <4>1. \A j \in 1 .. idx[Self] : j \in 1 .. Len(v) /\ j < n /\ n \in 1 .. Len(v)
        BY <1>2, <2>1
      <4>2. ReadsFirst(v) /\ c.ecx \in D!Counter
        BY <2>2, <2>6, StopFacts, ShownCounters
      <4> QED
        BY <2>6, <4>1, <4>2 DEF ReadsFirst, Untouched
    <3> QED
      BY <1>4, <2>2, <2>6, <3>1
  <2>7. \A j \in 1 .. n : v'[j].op = "READ" => v'[j].value \in inner .. outer
    BY <1>4, <2>4, <2>5, <2>6
  <2>8. ASSUME NEW k \in Shown(prog), \A j \in 1 .. n : v[j].op = "WRITE" => v[j].ecx # k
        PROVE  Here'[k] \in inner .. outer
    <3>1. Untouched(k, idx[Self])
      <4>1. \A j \in 1 .. idx[Self] : j \in 1 .. n
        BY <1>2
      <4> QED
        BY <2>8, <4>1 DEF Untouched
    <3>2. Here'[k] = Here[k]
      <4>1. CASE Sets(c)
        <5>1. n \in 1 .. n /\ k \in D!Reg
          BY <2>1, ShownCounters
        <5>2. c.ecx # k
          BY <2>8, <4>1, <5>1 DEF Sets
        <5> QED
          BY <1>2, <2>2, <4>1, <5>1, <5>2, SetsRegister
      <4> QED
        BY <2>3, <4>1
    <3> QED
      BY <1>4, <3>1, <3>2
  <2>9. pc' = "stopped" /\ incall'[Self]
    BY <1>1, <2>1
  <2>10. \A j \in 1 .. n : v'[j].op = v[j].op /\ v'[j].ecx = v[j].ecx
    BY <2>4, <2>5
  <2> HIDE DEF n
  <2>11. Stopping'
    BY <1>1, <2>1, <2>7, <2>8, <2>10 DEF Stopping, ReadWithin, Untouched
  <2> QED
    BY <2>9, <2>11 DEF Counting, Resetting, Carried, Starting, Running, HasRead
<1> QED
  BY <1>2, <1>3, <1>5, <1>6

LEMMA DriverCounting == ASSUME IInv, Clock, Counting, DriverStep PROVE Counting'
<1>1. pc \in {"start", "work", "stopped"}
  BY Command DEF DriverStep, IInv, Control
<1> QED
  BY <1>1, ResetCounting, StartCounting, StopCounting

-----------------------------------------------------------------------------
(***************************************************************************)
(* What has been recorded and printed, and the second invariant.           *)
(***************************************************************************)
Line == UNION {[S -> Int] : S \in SUBSET (D!Counter \cup {TSC})}

SingleShot == {"test.0", "test.1", "test.2"}

Recorded ==
  /\ rounds \in Seq(Nat \X Nat) /\ shown \in Seq(Line)
  /\ pc = "open" => shown = <<>> /\ (prog = "test.6" => phase = "baseline")
  /\ prog \in SingleShot =>
       Len(rounds) = Len(shown) /\ \A n \in 1 .. Len(shown) : DOMAIN shown[n] = Shown(prog)
  /\ prog = "test.6" =>
       /\ \A n \in 1 .. Len(shown) : DOMAIN shown[n] = D!Counter
       /\ Len(rounds) = Len(shown) + IF phase = "test" THEN 1 ELSE 0
       /\ phase = "baseline" => shown = <<>>
       /\ phase = "test" /\ fd = Fd /\ moved = {} => \A k \in D!Counter :
            fixed[k] \in rounds[1][1] \div Loops .. rounds[1][2] \div Loops
  /\ PrintsItsCounts

IInv2 == IInv /\ Clock /\ (Live => Counting) /\ Descriptor /\ Unopened /\ Recorded

-----------------------------------------------------------------------------
LEMMA NextClock == ASSUME IInv2, [Next]_vars PROVE Clock'
<1> USE DEF IInv2, IInv
<1>1. DriverTypes /\ inner \in Nat /\ outer \in Nat /\ outer <= tsc /\ tsc <= MaxTsc
  BY DriverFacts DEF Clock
<1>2. CASE ProgramStep
  <2>1. tsc' = tsc
    BY <1>2, ProgramKeeps
  <2>2. inner' \in {inner, 0} /\ outer' \in {outer, 0}
    BY <1>2 DEF ProgramStep, OpenDevice, OpenFails, Reset, Start, StopCounters, PrintRead,
       Accumulate, Average, BaselineRound, BaselineMean, PrintResult, CloseDriver, history
  <2> QED
    BY <1>1, <2>1, <2>2 DEF Clock, DriverTypes
<1>3. CASE DriverStep
  <2>1. tsc' = tsc
    BY <1>3, Command DEF DriverStep
  <2> QED
    BY <1>1, <1>3, <2>1, DriverStepKeeps DEF Clock
<1>4. ASSUME NEW c \in Cpu, Tick(c) PROVE Clock'
  <2>1. tsc' = tsc + 1 /\ inner' \in {inner, inner + 1} /\ outer' \in {outer, outer + 1} /\ tsc < MaxTsc
    BY <1>4, TickKeeps DEF Tick, D!Tick
  <2> QED
    BY <1>1, <2>1, Counts DEF Clock, DriverTypes
<1>5. ASSUME NEW c \in Cpu, Move(c) PROVE Clock'
  BY <1>1, <1>5, MoveKeeps DEF Clock
<1>6. CASE UNCHANGED vars
  BY <1>6 DEF vars, driverVars, history, Clock
<1> QED
  BY <1>2, <1>3, <1>4, <1>5, <1>6 DEF Next

LEMMA NextUnopened == ASSUME IInv2, [Next]_vars PROVE Unopened'
<1> USE DEF IInv2, IInv
<1>1. CASE ProgramStep
  <2>1. mem' = mem /\ given' = given /\ fd' \in {fd, Fd}
    BY <1>1, ProgramKeeps
       DEF ProgramStep, OpenDevice, OpenFails, Reset, Start, StopCounters, PrintRead,
       Accumulate, Average, BaselineRound, BaselineMean, PrintResult, CloseDriver, regs
  <2> QED
    BY <2>1 DEF Unopened
<1>2. CASE DriverStep
  <2>1. fd = Fd /\ fd' = fd
    BY <1>2, Command, DriverFacts, OneClient, DriverStepKeeps DEF DriverStep, Control
  <2> QED
    BY <2>1 DEF Unopened
<1>3. CASE \E c \in Cpu : Tick(c) \/ Move(c)
  BY <1>3, TickKeeps, MoveKeeps DEF Unopened
<1>4. CASE UNCHANGED vars
  BY <1>4 DEF vars, driverVars, regs, Unopened
<1> QED
  BY <1>1, <1>2, <1>3, <1>4 DEF Next

LEMMA NextDescriptor == ASSUME IInv2, [Next]_vars PROVE Descriptor'
<1> USE DEF IInv2, IInv, Goto, regs
<1>1. Loops \in Nat \ {0} /\ left \in 0 .. Loops /\ (prog \in Looping => prog \in {"test.3", "test.4"})
  BY PowerAssumption DEF TypeOK, Looping
<1>2. ASSUME ProgramStep PROVE prog' = prog
  BY <1>2, ProgramKeeps
<1>3. CASE OpenDevice
  BY <1>3 DEF OpenDevice, Descriptor
<1>4. CASE OpenFails
  <2>1. fd' = -1 /\ Fd # -1
    BY <1>4, TestAssumption DEF OpenFails, Control
  <2> QED
    BY <2>1 DEF Descriptor
<1>5. CASE Reset
  BY <1>1, <1>2, <1>5 DEF Reset, Control, ProgramStep, Descriptor
<1>6. CASE Start
  BY <1>1, <1>2, <1>6 DEF Start, Control, ProgramStep, Descriptor
<1>7. CASE StopCounters
  BY <1>7 DEF StopCounters, Descriptor
<1>8. CASE PrintRead
  BY <1>8 DEF PrintRead, Descriptor
<1>9. CASE Accumulate
  BY <1>1, <1>9 DEF Accumulate, Descriptor
<1>10. CASE Average
  BY <1>10 DEF Average, Descriptor
<1>11. CASE BaselineRound
  BY <1>1, <1>2, <1>11 DEF BaselineRound, Control, ProgramStep, Descriptor
<1>12. CASE BaselineMean
  BY <1>12 DEF BaselineMean, Descriptor
<1>13. CASE PrintResult
  BY <1>1, <1>2, <1>13 DEF PrintResult, ProgramStep, Descriptor
<1>14. CASE CloseDriver
  BY <1>14 DEF CloseDriver, Descriptor
<1>15. CASE DriverStep
  BY <1>15, DriverStepKeeps DEF Descriptor
<1>16. CASE \E c \in Cpu : Tick(c) \/ Move(c)
  BY <1>16, TickKeeps, MoveKeeps DEF Descriptor
<1>17. CASE UNCHANGED vars
  BY <1>17 DEF vars, Descriptor
<1> QED
  BY <1>3, <1>4, <1>5, <1>6, <1>7, <1>8, <1>9, <1>10, <1>11, <1>12, <1>13, <1>14, <1>15,
     <1>16, <1>17 DEF Next, ProgramStep

LEMMA ProgramCounting == ASSUME IInv2, ProgramStep, Live' PROVE Counting'
<1> USE DEF IInv2, IInv, Goto, regs, history
<1>1. /\ UNCHANGED <<msr, cpu, mem, prog, moved>> /\ Here' = Here /\ \A b : Vec(b)' = Vec(b)
      /\ Shown(prog)' = Shown(prog)
  BY ProgramKeeps DEF Here, Vec, Shown
<1>2. Loops \in Nat \ {0} /\ left \in 0 .. Loops /\ Fd \in Nat
  BY PowerAssumption, TestAssumption DEF TypeOK
<1>3. ASSUME pc' \notin {"start", "work", "stopped", "baseline"} PROVE Counting'
  BY <1>3 DEF Counting, Resetting, Carried, Starting, Running, Stopping, HasRead
<1>4. CASE OpenDevice
  <2>1. pc = "open" /\ pc' = (IF prog = "test.6" THEN "reset" ELSE "start") /\ incall' = incall
    BY <1>4 DEF OpenDevice, D!Open, D!call
  <2>2. ~ incall[Self]
    BY <2>1 DEF Control
  <2> QED
    BY <1>1, <2>1, <2>2 DEF Counting, Resetting, Carried, Starting, Running, Stopping, HasRead
<1>5. CASE OpenFails
  <2>1. fd' = -1 /\ fd' = Fd
    BY <1>5 DEF OpenFails, Control, Live
  <2> QED
    BY <1>2, <2>1
<1>6. CASE Reset
  <2>1. Ioctl(fd, "reset") /\ pc = "reset" /\ pc' = "start" /\ fd' = fd /\ inner' = 0 /\ outer' = 0
    BY <1>6 DEF Reset
  <2>2. fd = Fd /\ open[Self] /\ "reset" \in Script
    BY <2>1 DEF Live, Control, Script
  <2>3. incall'[Self] /\ idx'[Self] = 0
    BY <2>1, <2>2, IoctlEffect DEF Entered
  <2>4. Resetting'
    BY <2>1, <2>3 DEF Resetting
  <2> QED
    BY <2>1, <2>3, <2>4 DEF Counting, Carried, Starting, Running, Stopping, HasRead
<1>7. CASE Start
  <2>1. /\ Ioctl(StartFd, "start") /\ pc = "start" /\ pc' = "work" /\ fd' = fd /\ left' = left
        /\ IF prog = "test.6" THEN UNCHANGED <<inner, outer>> ELSE inner' = 0 /\ outer' = 0
    BY <1>7 DEF Start
  <2>2. Live /\ fd = Fd /\ open[Self] /\ "start" \in Script
    BY <1>1, <2>1 DEF Live, Control, Script
  <2>3. StartFd = fd
    BY <2>1, <2>2 DEF StartFd, Descriptor, Live
  <2>4. incall'[Self] /\ idx'[Self] = 0 /\ ~ incall[Self]
    BY <2>1, <2>2, <2>3, IoctlEffect DEF Entered
  <2>5. Carried
    BY <2>2 DEF Counting
  <2>6. prog = "test.6" => CountersWithin(inner, outer)'
    BY <1>1, <2>1, <2>4, <2>5 DEF Carried, CountersWithin
  <2>7. Configured(idx[Self])' /\ Zeroed(idx[Self])'
    BY <2>4 DEF Configured, Zeroed
  <2>8. Starting'
    BY <1>1, <2>1, <2>6, <2>7 DEF Starting
  <2> QED
    BY <2>1, <2>4, <2>8 DEF Counting, Resetting, Carried, Running, Stopping, HasRead
<1>8. CASE StopCounters
  <2>1. /\ Ioctl(StopFd, "stop") /\ pc = "work" /\ pc' = "stopped" /\ fd' = fd /\ left' = left
        /\ UNCHANGED <<inner, outer>>
    BY <1>8 DEF StopCounters, StopFd
  <2>2. Live /\ fd = Fd /\ open[Self] /\ "stop" \in Script
    BY <1>1, <2>1 DEF Live, Control, Script
  <2>3. StopFd = fd
    BY <2>1, <2>2 DEF StopFd, Descriptor, Live
  <2>4. incall'[Self] /\ idx'[Self] = 0 /\ ~ incall[Self]
    BY <2>1, <2>2, <2>3, IoctlEffect DEF Entered
  <2>5. CountersWithin(inner, outer)
    BY <2>1, <2>2, <2>4 DEF Counting, Running
  <2>6. ReadWithin(idx[Self], inner, outer)'
    BY <2>4 DEF ReadWithin
  <2>7. Stopping'
    BY <1>1, <2>1, <2>5, <2>6 DEF Stopping, CountersWithin
  <2> QED
    BY <2>1, <2>4, <2>7 DEF Counting, Resetting, Carried, Starting, Running, HasRead
<1>9. CASE PrintRead
  BY <1>3, <1>9 DEF PrintRead
<1>10. CASE Accumulate
  <2>1. prog \in Looping /\ left' = left - 1 /\ left' = Loops
    BY <1>1, <1>10 DEF Accumulate, Live
  <2> QED
    BY <1>2, <2>1
<1>11. CASE Average
  BY <1>3, <1>11 DEF Average
<1>12. CASE BaselineRound
  <2>1. /\ phase = "baseline" /\ ~ incall[Self] /\ pc = "stopped" /\ incall' = incall
        /\ pc' \in {"start", "baseline"} /\ UNCHANGED <<fd, inner, outer>> /\ prog = "test.6"
    BY <1>12 DEF BaselineRound, Returned, driverVars, Control
  <2>2. Counting
    BY <1>1, <2>1 DEF Live, Looping
  <2>3. ReadWithin(Len(Vec("stop")), inner, outer) /\ CountersWithin(inner, outer)
    BY <2>1, <2>2 DEF Counting, HasRead
  <2>4. ReadWithin(Len(Vec("stop")), inner, outer)' /\ CountersWithin(inner, outer)'
    BY <1>1, <2>1, <2>3 DEF ReadWithin, CountersWithin
  <2> QED
    BY <2>1, <2>4 DEF Counting, Resetting, Carried, Starting, Running, Stopping, HasRead
<1>13. CASE BaselineMean
  BY <1>3, <1>13 DEF BaselineMean
<1>14. CASE PrintResult
  BY <1>3, <1>14 DEF PrintResult
<1>15. CASE CloseDriver
  BY <1>3, <1>15 DEF CloseDriver
<1> QED
  BY <1>4, <1>5, <1>6, <1>7, <1>8, <1>9, <1>10, <1>11, <1>12, <1>13, <1>14, <1>15
     DEF ProgramStep

LEMMA NextCounting ==
  ASSUME IInv2, MaxTsc < CounterSize, [Next]_vars, Live'
  PROVE  Counting'
<1> USE DEF IInv2
<1>1. CASE ProgramStep
  BY <1>1, ProgramCounting
<1>2. CASE DriverStep
  <2>1. Live
    BY <1>2, DriverStepKeeps DEF Live
  <2> QED
    BY <1>2, <2>1, DriverCounting
<1>3. ASSUME NEW c \in Cpu, Tick(c) PROVE Counting'
  <2>1. Live
    BY <1>3, TickKeeps DEF Live
  <2> QED
    BY <1>3, <2>1, TickCounting DEF Live
<1>5. ~ (\E c \in Cpu : Move(c))
  BY Unmoved DEF Live, IInv
<1>4. CASE UNCHANGED vars
  <2>1. Live /\ UNCHANGED <<prog, pc, incall, idx, inner, outer, mem, msr, cpu>>
    BY <1>4 DEF vars, driverVars, regs, history, places, Live
  <2>2. Here' = Here /\ (\A b : Vec(b)' = Vec(b)) /\ Shown(prog)' = Shown(prog)
    BY <2>1 DEF Here, Vec, Shown
  <2>3. D!EnabledCounters(Here)' = D!EnabledCounters(Here)
    BY <2>2 DEF D!EnabledCounters, D!PmcEnabled, D!FfcEnabled
  <2> QED
    BY <2>1, <2>2, <2>3 DEF Counting, Resetting, Carried, Starting, Running, Stopping, HasRead,
       ReadWithin, CountersWithin, Untouched, Configured, Zeroed, LastWrite
<1> QED
  BY <1>1, <1>2, <1>3, <1>4, <1>5 DEF Next

-----------------------------------------------------------------------------
LEMMA Appended ==
  ASSUME NEW S, NEW s \in Seq(S), NEW e \in S, NEW t, t = Append(s, e)
  PROVE  /\ t \in Seq(S) /\ Len(t) = Len(s) + 1 /\ t[Len(s) + 1] = e /\ Len(s) \in Nat
         /\ \A n \in 1 .. Len(s) : t[n] = s[n]
         /\ \A n \in 1 .. Len(t) : n \in 1 .. Len(s) \/ n = Len(s) + 1
OBVIOUS

LEMMA ALine ==
  ASSUME NEW S \in SUBSET (D!Counter \cup {TSC}), NEW f \in [S -> Int]
  PROVE  f \in Line
BY DEF Line

\* Without a driver the results are those the vector was written with: none.
LEMMA UnopenedReading ==
  ASSUME IInv, mem = given, NEW k \in Shown(prog)
  PROVE  Reading(k) = 0
<1> USE DEF IInv
<1>1. PICK j \in 1 .. Len(Vec("stop")) : Vec("stop")[j].op = "READ" /\ Reading(k) = Vec("stop")[j].value
  BY ReadingOf
<1>2. Vec("stop") = StopScript(prog) /\ prog \in Program
  BY DEF Control, Vec, ScriptOf, Script
<1>3. Vec("stop")[j] \in Items(StopScript(prog))
  BY <1>1, <1>2 DEF Items
<1>4. \/ Vec("stop")[j] \in {Halt, FfcsOff, Rdtsc, Stop}
      \/ \E r : Vec("stop")[j] = R(r)
      \/ \E r : Vec("stop")[j] = W(r, 0)
  BY <1>2, <1>3, Scripts DEF StopShape
<1>5. Vec("stop")[j].value = 0
  BY <1>1, <1>4, Fields DEF Halt, FfcsOff
<1> QED
  BY <1>1, <1>5

\* Both scripts have run in this round: the readings are its counts.
LEMMA ReadingWithin ==
  ASSUME IInv2, moved = {}, fd = Fd, prog \notin Looping, NEW k \in Shown(prog),
         pc = "baseline" \/ (pc = "stopped" /\ ~ incall[Self])
  PROVE  Reading(k) \in inner .. outer
<1>1. ReadWithin(Len(Vec("stop")), inner, outer)
  BY DEF IInv2, Live, Counting, HasRead
<1>2. PICK j \in 1 .. Len(Vec("stop")) : Vec("stop")[j].op = "READ" /\ Reading(k) = Vec("stop")[j].value
  BY ReadingOf DEF IInv2, IInv
<1> QED
  BY <1>1, <1>2 DEF ReadWithin

LEMMA SameRecords ==
  ASSUME Recorded, UNCHANGED <<rounds, shown, phase, fd, fixed, prog>>, pc' # "open" \/ pc' = pc,
         moved' = {} => moved = {}
  PROVE  Recorded'
BY DEF Recorded, PrintsItsCounts, SingleShotBracketed, LinesLessBaseline, Shown

LEMMA DivideMonotonic ==
  ASSUME NEW d \in Nat \ {0}, NEW a \in Nat, NEW b \in Nat, a <= b
  PROVE  a \div d <= b \div d /\ a \div d \in Nat
<1> DEFINE x == a \div d
           y == b \div d
<1>1. x \in Nat /\ x * d <= a /\ a < x * d + d
  OBVIOUS
<1>2. y \in Nat /\ y * d <= b /\ b < y * d + d
  OBVIOUS
<1> HIDE DEF x, y
<1>3. ~ (y < x)
  <2> SUFFICES ASSUME y + 1 <= x PROVE FALSE
    BY <1>1, <1>2
  <2>1. (y + 1) * d <= x * d
    BY <1>1, <1>2
  <2> QED
    BY <1>1, <1>2, <2>1
<1> QED
  BY <1>1, <1>2, <1>3 DEF x, y

LEMMA PrintReadRecorded == ASSUME IInv2, PrintRead PROVE Recorded'
<1> USE DEF IInv2, IInv
<1> DEFINE f == [k \in Shown(prog) |-> Reading(k)]
           m == Len(shown)
<1>1. /\ prog \in SingleShot /\ prog \notin Looping /\ pc = "stopped" /\ ~ incall[Self] /\ pc' = "close"
      /\ shown' = Append(shown, f) /\ rounds' = Append(rounds, <<inner, outer>>)
      /\ UNCHANGED <<prog, phase, fd, fixed, moved>>
  BY TestAssumption
     DEF PrintRead, Returned, Goto, Round, regs, places, Control, SingleShot, Looping
<1>2. f \in Line
  BY ReadingOf, ShownCounters, ALine
<1>3. <<inner, outer>> \in Nat \X Nat
  BY DEF Clock
<1>4. rounds \in Seq(Nat \X Nat) /\ shown \in Seq(Line) /\ Len(rounds) = m
  BY <1>1 DEF Recorded
<1>5. moved = {} => \A k \in Shown(prog) : IF fd = Fd THEN f[k] \in inner .. outer ELSE f[k] = 0
  BY <1>1, ReadingWithin, UnopenedReading DEF Unopened
<1>6. DOMAIN f = Shown(prog)
  OBVIOUS
<1> HIDE DEF f, m
<1>7. /\ shown' \in Seq(Line) /\ Len(shown') = m + 1 /\ shown'[m + 1] = f /\ m \in Nat
      /\ \A n \in 1 .. m : shown'[n] = shown[n]
      /\ \A n \in 1 .. Len(shown') : n \in 1 .. m \/ n = m + 1
  BY <1>1, <1>2, <1>4, Appended DEF m
<1>8. /\ rounds' \in Seq(Nat \X Nat) /\ Len(rounds') = m + 1 /\ rounds'[m + 1] = <<inner, outer>>
      /\ \A n \in 1 .. m : rounds'[n] = rounds[n]
  BY <1>1, <1>3, <1>4, Appended
<1>9. \A n \in 1 .. m : DOMAIN shown[n] = Shown(prog)
  BY <1>1 DEF Recorded, m
<1>10. moved = {} => \A n \in 1 .. m : \A k \in DOMAIN shown[n] :
         IF fd = Fd THEN shown[n][k] \in rounds[n][1] .. rounds[n][2] ELSE shown[n][k] = 0
  <2>1. (moved = {} => SingleShotBracketed) /\ prog \in {"test.0", "test.1", "test.2"}
    BY <1>1 DEF Recorded, PrintsItsCounts, SingleShot
  <2>2. DOMAIN shown = 1 .. m
    BY <1>4 DEF m
  <2> QED
    BY <2>1, <2>2 DEF SingleShotBracketed
<1>11. \A n \in 1 .. Len(shown') : DOMAIN shown'[n] = Shown(prog)
  BY <1>6, <1>7, <1>9
<1>12. ASSUME moved = {}
       PROVE  \A n \in 1 .. Len(shown') : \A k \in DOMAIN shown'[n] :
                IF fd = Fd THEN shown'[n][k] \in rounds'[n][1] .. rounds'[n][2]
                           ELSE shown'[n][k] = 0
  <2> TAKE n \in 1 .. Len(shown')
  <2>1. CASE n \in 1 .. m
    BY <1>7, <1>8, <1>10, <1>12, <2>1
  <2>2. CASE n = m + 1
    <3>1. shown'[n] = f /\ rounds'[n][1] = inner /\ rounds'[n][2] = outer
      BY <1>7, <1>8, <2>2
    <3> QED
      BY <1>5, <1>6, <1>12, <3>1
  <2> QED
    BY <1>7, <2>1, <2>2
<1>13. DOMAIN shown' = 1 .. Len(shown') /\ Shown(prog)' = Shown(prog) /\ prog # "test.6"
  BY <1>1, <1>7 DEF Shown, SingleShot
<1> QED
  BY <1>1, <1>7, <1>8, <1>11, <1>12, <1>13
     DEF Recorded, PrintsItsCounts, SingleShotBracketed, LinesLessBaseline

LEMMA MeanRecorded == ASSUME IInv2, BaselineMean PROVE Recorded'
<1> USE DEF IInv2, IInv
<1>1. /\ pc = "baseline" /\ phase = "baseline" /\ prog = "test.6" /\ pc' = "reset"
      /\ phase' = "test" /\ fixed' = [k \in D!Counter |-> Reading(k) \div Loops]
      /\ rounds' = Append(rounds, <<inner, outer>>) /\ UNCHANGED <<prog, fd, shown, moved>>
  BY DEF BaselineMean, Goto, Round, Control, places
<1>2. shown = <<>> /\ Len(rounds) = 0 /\ rounds \in Seq(Nat \X Nat) /\ shown \in Seq(Line) /\ Len(shown) = 0
  <2>1. /\ shown = <<>> /\ rounds \in Seq(Nat \X Nat) /\ shown \in Seq(Line)
        /\ Len(rounds) = Len(shown) + 0
    BY <1>1 DEF Recorded
  <2>2. Len(shown) = 0
    BY <2>1
  <2> QED
    BY <2>1, <2>2
<1>3. <<inner, outer>> \in Nat \X Nat /\ inner \in Nat /\ outer \in Nat
  BY DEF Clock
<1>4. rounds' \in Seq(Nat \X Nat) /\ Len(rounds') = 1 /\ rounds'[1] = <<inner, outer>>
  <2>1. /\ rounds' \in Seq(Nat \X Nat) /\ Len(rounds') = Len(rounds) + 1
        /\ rounds'[Len(rounds) + 1] = <<inner, outer>>
    BY <1>1, <1>2, <1>3, Appended
  <2> QED
    BY <1>2, <2>1
<1>5. ASSUME fd = Fd, moved = {}, NEW k \in D!Counter
      PROVE  fixed'[k] \in inner \div Loops .. outer \div Loops
  <2>1. Reading(k) \in inner .. outer
    BY <1>1, <1>5, ReadingWithin DEF Shown, Looping
  <2>2. /\ inner <= Reading(k) /\ Reading(k) <= outer /\ Reading(k) \in Nat
        /\ Loops \in Nat \ {0}
    BY <1>3, <2>1, PowerAssumption
  <2>3. /\ inner \div Loops <= Reading(k) \div Loops /\ inner \div Loops \in Nat
        /\ Reading(k) \div Loops <= outer \div Loops /\ Reading(k) \div Loops \in Nat
        /\ outer \div Loops \in Nat
    <3>1. outer <= outer
      BY <1>3
    <3> QED
      BY <1>3, <2>2, <3>1, DivideMonotonic
  <2>4. fixed'[k] = Reading(k) \div Loops
    BY <1>1
  <2> QED
    BY <2>3, <2>4
<1>6. \A n \in 1 .. Len(shown) : FALSE
  BY <1>2
<1>7. prog \notin SingleShot /\ DOMAIN shown = {}
  BY <1>1, <1>2 DEF SingleShot
<1>8. \A k \in D!Counter : fd = Fd /\ moved = {} =>
        fixed'[k] \in rounds'[1][1] \div Loops .. rounds'[1][2] \div Loops
  BY <1>4, <1>5
<1> QED
  BY <1>1, <1>2, <1>4, <1>6, <1>7, <1>8
     DEF Recorded, PrintsItsCounts, SingleShotBracketed, LinesLessBaseline, SingleShot

LEMMA ResultRecorded == ASSUME IInv2, PrintResult PROVE Recorded'
<1> USE DEF IInv2, IInv
<1> DEFINE f == [k \in D!Counter |-> Minus(Reading(k), fixed[k])]
           m == Len(shown)
           Lo == rounds[1][1] \div Loops
           Hi == rounds[1][2] \div Loops
<1>1. /\ prog = "test.6" /\ phase = "test" /\ pc = "stopped" /\ ~ incall[Self] /\ pc' \in {"close", "reset"}
      /\ shown' = Append(shown, f) /\ rounds' = Append(rounds, <<inner, outer>>)
      /\ UNCHANGED <<prog, phase, fd, fixed, moved>>
  BY DEF PrintResult, Returned, Goto, Round, places
<1>2. Shown(prog) = D!Counter /\ prog \notin Looping /\ prog \notin SingleShot
  BY <1>1 DEF Shown, Looping, SingleShot
<1>3. \A k \in D!Counter : fixed[k] \in Nat /\ Reading(k) \in Nat
  BY <1>2, ReadingOf DEF TypeOK
<1>4. f \in Line
  <2>1. f \in [D!Counter -> Int]
    BY <1>3, TestAssumption DEF Minus
  <2>2. D!Counter \in SUBSET (D!Counter \cup {TSC})
    OBVIOUS
  <2> QED
    BY <2>1, <2>2, ALine
<1>5. <<inner, outer>> \in Nat \X Nat /\ inner \in Nat /\ outer \in Nat
  BY DEF Clock
<1>6. /\ rounds \in Seq(Nat \X Nat) /\ shown \in Seq(Line) /\ Len(rounds) = m + 1 /\ m \in Nat
      /\ DOMAIN shown = 1 .. m
      /\ \A n \in 1 .. m : DOMAIN shown[n] = D!Counter
  BY <1>1 DEF Recorded
<1>7. fd = Fd /\ moved = {} => \A k \in D!Counter : fixed[k] \in Lo .. Hi
  BY <1>1 DEF Recorded
<1>8. rounds[1] \in Nat \X Nat
  BY <1>6
<1>9. Lo \in Nat /\ Hi \in Nat
  BY <1>8, PowerAssumption
<1>10. fd = Fd /\ moved = {} => \A k \in D!Counter : Reading(k) \in inner .. outer
  BY <1>1, <1>2, ReadingWithin
<1>11. DOMAIN f = D!Counter /\ \A k \in D!Counter : f[k] = (Reading(k) - fixed[k]) % Word
  BY DEF Minus
<1>12. fd = Fd /\ moved = {} => \A n \in 1 .. m, k \in D!Counter :
         \E d \in rounds[n + 1][1] - Hi .. rounds[n + 1][2] - Lo : shown[n][k] = d % Word
  <2>1. moved = {} => LinesLessBaseline
    BY DEF Recorded, PrintsItsCounts
  <2> QED
    BY <1>1, <1>6, <2>1 DEF LinesLessBaseline
<1> HIDE DEF f, m
<1>13. /\ shown' \in Seq(Line) /\ Len(shown') = m + 1 /\ shown'[m + 1] = f
       /\ \A n \in 1 .. m : shown'[n] = shown[n]
       /\ \A n \in 1 .. Len(shown') : n \in 1 .. m \/ n = m + 1
  BY <1>1, <1>4, <1>6, Appended DEF m
<1>14. /\ rounds' \in Seq(Nat \X Nat) /\ Len(rounds') = m + 1 + 1
       /\ rounds'[m + 1 + 1] = <<inner, outer>>
       /\ \A n \in 1 .. m + 1 : rounds'[n] = rounds[n]
  BY <1>1, <1>5, <1>6, Appended
<1>15. rounds'[1] = rounds[1]
  BY <1>6, <1>14
<1>16. ASSUME fd = Fd, moved = {}, NEW n \in 1 .. Len(shown'), NEW k \in D!Counter
       PROVE  \E d \in rounds'[n + 1][1] - Hi .. rounds'[n + 1][2] - Lo :
                shown'[n][k] = d % Word
  <2>1. CASE n \in 1 .. m
    <3>1. shown'[n] = shown[n] /\ n + 1 \in 1 .. m + 1
      BY <1>6, <1>13, <2>1
    <3>2. rounds'[n + 1] = rounds[n + 1]
      BY <1>14, <3>1
    <3> QED
      BY <1>12, <1>16, <2>1, <3>1, <3>2
  <2>2. CASE n = m + 1
    <3>1. shown'[n][k] = (Reading(k) - fixed[k]) % Word
      BY <1>11, <1>13, <2>2
    <3>2. rounds'[n + 1][1] = inner /\ rounds'[n + 1][2] = outer
      BY <1>14, <2>2
    <3>3. fixed[k] \in Lo .. Hi /\ Reading(k) \in inner .. outer
      BY <1>7, <1>10, <1>16
    <3> HIDE DEF Lo, Hi
    <3>4. Reading(k) - fixed[k] \in inner - Hi .. outer - Lo
      BY <1>3, <1>5, <1>9, <3>3
    <3> QED
      BY <3>1, <3>2, <3>4
  <2> QED
    BY <1>13, <2>1, <2>2
<1>17. \A n \in 1 .. Len(shown') : DOMAIN shown'[n] = D!Counter
  BY <1>6, <1>11, <1>13
<1>18. DOMAIN shown' = 1 .. Len(shown') /\ prog' \notin {"test.0", "test.1", "test.2"}
  BY <1>1, <1>13
<1>19. SingleShotBracketed'
  BY <1>18 DEF SingleShotBracketed
<1>20. ASSUME moved' = {} PROVE LinesLessBaseline'
  <2> SUFFICES ASSUME fd' = Fd, NEW n \in DOMAIN shown', NEW k \in D!Counter
               PROVE  \E d \in (rounds'[n + 1][1] - (rounds'[1][2] \div Loops))
                                 .. (rounds'[n + 1][2] - (rounds'[1][1] \div Loops)) :
                        shown'[n][k] = d % Word
    BY DEF LinesLessBaseline
  <2>1. fd = Fd /\ moved = {} /\ n \in 1 .. Len(shown')
    BY <1>1, <1>18, <1>20
  <2> QED
    BY <1>15, <1>16, <2>1
<1>21. fd' = Fd /\ moved' = {} => \A k \in D!Counter :
         fixed'[k] \in rounds'[1][1] \div Loops .. rounds'[1][2] \div Loops
  BY <1>1, <1>7, <1>15
<1> QED
  BY <1>1, <1>2, <1>6, <1>13, <1>14, <1>17, <1>19, <1>20, <1>21 DEF Recorded, PrintsItsCounts

LEMMA AccumulateRecorded == ASSUME IInv2, Accumulate PROVE Recorded'
<1> USE DEF IInv2, IInv
<1>1. /\ prog \in {"test.3", "test.4"} /\ pc' # "open" /\ prog' = prog /\ shown' = shown
      /\ rounds' = Append(rounds, <<inner, outer>>)
  BY DEF Accumulate, Goto, Round, Looping
<1>2. <<inner, outer>> \in Nat \X Nat
  BY DEF Clock
<1>3. rounds' \in Seq(Nat \X Nat) /\ shown' \in Seq(Line)
  BY <1>1, <1>2 DEF Recorded
<1> QED
  BY <1>1, <1>3 DEF Recorded, PrintsItsCounts, SingleShotBracketed, LinesLessBaseline, SingleShot

LEMMA AverageRecorded == ASSUME IInv2, Average PROVE Recorded'
<1> USE DEF IInv2, IInv
<1> DEFINE f == [k \in DOMAIN acc |-> acc[k] \div Loops]
<1>1. /\ prog \in {"test.3", "test.4"} /\ pc' = "exit" /\ prog' = prog /\ rounds' = rounds
      /\ shown' = Append(shown, f)
  BY DEF Average, Goto, history, Control, Looping
<1>2. f \in Line
  <2>1. f \in [D!Counter \cup {TSC} -> Int]
    BY PowerAssumption DEF TypeOK
  <2>2. D!Counter \cup {TSC} \in SUBSET (D!Counter \cup {TSC})
    OBVIOUS
  <2> QED
    BY <2>1, <2>2, ALine
<1> HIDE DEF f
<1>3. rounds' \in Seq(Nat \X Nat) /\ shown' \in Seq(Line)
  BY <1>1, <1>2 DEF Recorded
<1> QED
  BY <1>1, <1>3 DEF Recorded, PrintsItsCounts, SingleShotBracketed, LinesLessBaseline, SingleShot

LEMMA OpenRecorded == ASSUME IInv2, OpenDevice PROVE Recorded'
<1> USE DEF IInv2, IInv
<1>1. /\ pc = "open" /\ pc' \in {"reset", "start"}
      /\ UNCHANGED <<rounds, shown, phase, fixed, prog>> /\ Shown(prog)' = Shown(prog)
  BY DEF OpenDevice, Goto, results, history, Shown
<1>2. shown = <<>> /\ Len(shown) = 0 /\ DOMAIN shown = {}
  BY <1>1 DEF Recorded
<1>3. prog = "test.6" => phase = "baseline"
  BY <1>1 DEF Recorded
<1>4. SingleShotBracketed' /\ LinesLessBaseline'
  BY <1>1, <1>2 DEF SingleShotBracketed, LinesLessBaseline
<1> QED
  BY <1>1, <1>3, <1>4 DEF Recorded, PrintsItsCounts

LEMMA NextRecorded == ASSUME IInv2, [Next]_vars PROVE Recorded'
<1> USE DEF IInv2
<1>1. CASE OpenFails \/ Reset \/ Start \/ StopCounters \/ BaselineRound \/ CloseDriver
  <2>1. UNCHANGED <<rounds, shown, phase, fd, fixed, prog, moved>> /\ pc' # "open"
    BY <1>1 DEF OpenFails, Reset, Start, StopCounters, BaselineRound, CloseDriver, Goto,
       regs, results, history, places
  <2> QED
    BY <2>1, SameRecords
<1>2. CASE DriverStep
  BY <1>2, DriverStepKeeps, SameRecords
<1>3. CASE \E c \in Cpu : Tick(c)
  BY <1>3, TickKeeps, SameRecords
<1>4. CASE UNCHANGED vars
  BY <1>4, SameRecords DEF vars, regs, results, history, places
<1>5. CASE \E c \in Cpu : Move(c)
  BY <1>5, MoveKeeps, Unmoved, SameRecords DEF IInv
<1> QED
  BY <1>5, <1>1, <1>2, <1>3, <1>4, PrintReadRecorded, MeanRecorded, ResultRecorded,
     AccumulateRecorded, AverageRecorded, OpenRecorded DEF Next, ProgramStep

LEMMA InitIInv2 == ASSUME Init PROVE IInv2
<1>1. IInv
  BY InitIInv
<1>2. Clock
  BY Counts DEF Init, Clock
<1>3. Live => Counting
  BY DEF Init, Counting, Resetting, Carried, Starting, Running, Stopping, HasRead
<1>4. Descriptor
  BY DEF Init, Descriptor
<1>5. Unopened
  BY DEF Init, Unopened
<1>6. Recorded
  <2>1. /\ rounds = <<>> /\ shown = <<>> /\ pc = "open"
        /\ (prog = "test.6" => phase = "baseline")
    BY DEF Init
  <2>2. Len(rounds) = 0 /\ Len(shown) = 0 /\ DOMAIN shown = {}
        /\ rounds \in Seq(Nat \X Nat) /\ shown \in Seq(Line)
    BY <2>1
  <2>3. SingleShotBracketed /\ LinesLessBaseline
    BY <2>2 DEF SingleShotBracketed, LinesLessBaseline
  <2> QED
    BY <2>1, <2>2, <2>3 DEF Recorded, PrintsItsCounts
<1> QED
  BY <1>1, <1>2, <1>3, <1>4, <1>5, <1>6 DEF IInv2

LEMMA Invariance2 == ASSUME MaxTsc < CounterSize PROVE Spec => []IInv2
<1>1. Init => IInv2
  BY InitIInv2
<1>2. IInv2 /\ [Next]_vars => IInv2'
  <2> SUFFICES ASSUME IInv2, [Next]_vars PROVE IInv2'
    OBVIOUS
  <2>1. IInv'
    BY NextIInv DEF IInv2
  <2>2. (Live => Counting)'
    BY NextCounting
  <2> QED
    BY <2>1, <2>2, NextClock, NextDescriptor, NextUnopened, NextRecorded DEF IInv2
<1> QED
  BY <1>1, <1>2, PTL DEF Spec

(***************************************************************************)
(* With counters wide enough for the run (48 bits), every value that       *)
(* test.0, test.1 and test.2 print is between the number of events from    *)
(* the return of the ioctl that starts the counters to the call that stops *)
(* them and the number from its call to the other's return; a line of      *)
(* test.6 is so less the mean of the baseline's rounds, whatever the       *)
(* number of rounds, as the difference of unsigned words it is printed as; *)
(* and what is printed without a driver is 0.  All this as long as the     *)
(* scheduler does not move the program to another CPU.                     *)
(***************************************************************************)
THEOREM MsrTestsPrint == ASSUME MaxTsc < CounterSize PROVE Spec => []PrintsItsCounts
<1>1. IInv2 => PrintsItsCounts
  BY DEF IInv2, Recorded
<1> QED
  BY <1>1, Invariance2, PTL

-----------------------------------------------------------------------------
(***************************************************************************)
(* The third invariant: test.3 and test.4 lose their descriptor after the  *)
(* first round, and every later round adds that round's readings again.    *)
(***************************************************************************)
Lo == rounds[1][1]
Hi == rounds[1][2]

FirstRound ==
  prog \in Looping /\ left = Loops => rounds = <<>> /\ \A k \in D!Counter : acc[k] = 0

Again == moved = {} /\ prog \in Looping /\ left < Loops

\* What the first round has left behind is there still.
Kept ==
  /\ Len(rounds) > 0 /\ Hi <= tsc /\ Halted
  /\ ReadWithin(Len(Vec("stop")), Lo, Hi)
  /\ prog = "test.4" => CountersWithin(Lo, Hi)

\* Of the calls only test.4's second one reaches the driver.
Refusing ==
  /\ pc = "start" => eax # Fd
  /\ pc = "work" => ~ incall[Self] /\ (prog = "test.3" => ebx # Fd)
  /\ pc = "stopped" /\ incall[Self] => prog = "test.4"

Summed ==
  \A k \in D!Counter : acc[k] >= (Loops - left) * Lo /\ acc[k] <= (Loops - left) * Hi

LaterRounds == Again => Kept /\ Refusing /\ Summed

Averaging ==
  /\ prog \in Looping /\ pc = "open" => left = Loops
  /\ prog = "test.3" /\ pc = "stopped" => eax # Fd
  /\ pc = "average" => left = 0
  /\ prog \in Looping /\ pc # "exit" => shown = <<>>
  /\ moved = {} /\ prog \in Looping =>
       \A n \in 1 .. Len(shown), k \in D!Counter : shown[n][k] \in Lo .. Hi

IInv3 == IInv2 /\ FirstRound /\ LaterRounds /\ Averaging

-----------------------------------------------------------------------------
LEMMA NextFirstRound == ASSUME IInv3, [Next]_vars PROVE FirstRound'
<1> USE DEF IInv3, IInv2, IInv, FirstRound, regs, results, history
<1>1. Loops \in Nat \ {0} /\ left \in 0 .. Loops /\ "test.6" \notin Looping
  BY PowerAssumption DEF TypeOK, Looping
<1>2. ASSUME ProgramStep PROVE prog' = prog
  BY <1>2, ProgramKeeps
<1>3. CASE Accumulate
  BY <1>1, <1>3 DEF Accumulate
<1>4. CASE PrintRead
  BY <1>2, <1>4 DEF PrintRead, ProgramStep
<1>5. CASE BaselineRound
  BY <1>1, <1>2, <1>5 DEF BaselineRound, Control, ProgramStep
<1>6. CASE BaselineMean
  BY <1>1, <1>2, <1>6 DEF BaselineMean, Goto, Control, ProgramStep
<1>7. CASE PrintResult
  BY <1>1, <1>2, <1>7 DEF PrintResult, ProgramStep
<1>8. CASE OpenDevice \/ OpenFails \/ Reset \/ Start \/ StopCounters \/ Average \/ CloseDriver
  BY <1>2, <1>8 DEF OpenDevice, OpenFails, Reset, Start, StopCounters, Average, CloseDriver, ProgramStep
<1>9. CASE DriverStep
  BY <1>9, DriverStepKeeps
<1>10. CASE \E c \in Cpu : Tick(c) \/ Move(c)
  BY <1>10, TickKeeps, MoveKeeps
<1>11. CASE UNCHANGED vars
  BY <1>11 DEF vars
<1> QED
  BY <1>3, <1>4, <1>5, <1>6, <1>7, <1>8, <1>9, <1>10, <1>11 DEF Next, ProgramStep

\* A round of test.3 or test.4 ends: its readings are the first round's.
LEMMA LoopReadings ==
  ASSUME IInv3, Accumulate, moved = {}
  PROVE  /\ rounds' \in Seq(Nat \X Nat) /\ Len(rounds') > 0 /\ Hi' <= tsc
         /\ Lo' \in Nat /\ Hi' \in Nat
         /\ ReadWithin(Len(Vec("stop")), Lo', Hi')
         /\ prog = "test.4" => CountersWithin(Lo', Hi')
         /\ \A k \in D!Counter : Reading(k) \in Lo' .. Hi'
         /\ left < Loops => Lo' = Lo /\ Hi' = Hi
<1> USE DEF IInv3, IInv2, IInv
<1>1. /\ prog \in Looping /\ ~ incall[Self] /\ pc = "stopped"
      /\ rounds' = Append(rounds, <<inner, outer>>)
  BY DEF Accumulate, Returned, Goto, Round
<1>2. inner \in Nat /\ outer \in Nat /\ outer <= tsc /\ <<inner, outer>> \in Nat \X Nat
  BY DEF Clock
<1>3. /\ rounds \in Seq(Nat \X Nat) /\ Shown(prog) = D!Counter /\ left \in 0 .. Loops /\ Loops \in Nat \ {0}
      /\ fd = Fd
  BY <1>1, PowerAssumption DEF Recorded, Shown, Looping, TypeOK, Control
<1>4. /\ rounds' \in Seq(Nat \X Nat) /\ Len(rounds') = Len(rounds) + 1
      /\ rounds'[Len(rounds) + 1] = <<inner, outer>> /\ Len(rounds) \in Nat
      /\ \A n \in 1 .. Len(rounds) : rounds'[n] = rounds[n]
  BY <1>1, <1>2, <1>3, Appended
<1>5. rounds'[1] \in Nat \X Nat
  BY <1>4
<1>6. /\ Hi' <= tsc /\ ReadWithin(Len(Vec("stop")), Lo', Hi')
      /\ prog = "test.4" => CountersWithin(Lo', Hi')
      /\ left < Loops => Lo' = Lo /\ Hi' = Hi
  <2>1. CASE left = Loops
    <3>1. Len(rounds) = 0
      BY <1>1, <2>1 DEF FirstRound
    <3>2. Lo' = inner /\ Hi' = outer
      BY <1>4, <3>1 DEF Lo, Hi
    <3>3. ReadWithin(Len(Vec("stop")), inner, outer) /\ (prog = "test.4" => CountersWithin(inner, outer))
      BY <1>1, <1>3, <2>1 DEF Live, Counting, HasRead
    <3> QED
      BY <1>2, <1>3, <2>1, <3>2, <3>3
  <2>2. CASE left < Loops
    <3>1. Kept
      BY <1>1, <2>2 DEF LaterRounds, Again
    <3>2. Lo' = Lo /\ Hi' = Hi
      BY <1>4, <3>1 DEF Lo, Hi, Kept
    <3> QED
      BY <3>1, <3>2 DEF Kept
  <2> QED
    BY <1>3, <2>1, <2>2
<1>7. \A k \in D!Counter : Reading(k) \in Lo' .. Hi'
  <2> TAKE k \in D!Counter
  <2>1. PICK j \in 1 .. Len(Vec("stop")) : Vec("stop")[j].op = "READ" /\ Reading(k) = Vec("stop")[j].value
    BY <1>3, ReadingOf
  <2> QED
    BY <1>6, <2>1 DEF ReadWithin
<1>8. Lo' \in Nat /\ Hi' \in Nat
  BY <1>5 DEF Lo, Hi
<1> QED
  BY <1>4, <1>6, <1>7, <1>8

\* Steps that neither read nor reach the driver keep what the rounds left.
LEMMA KeptSteps ==
  ASSUME Kept, Summed, UNCHANGED <<rounds, prog, acc, left, mem, msr, cpu, deserted>>, tsc' = tsc
  PROVE  Kept' /\ Summed'
<1>1. Here' = Here /\ Vec("stop")' = Vec("stop") /\ Lo' = Lo /\ Hi' = Hi /\ Shown(prog)' = Shown(prog)
  BY DEF Here, Vec, Lo, Hi, Shown
<1> QED
  BY <1>1 DEF Kept, Summed, Halted, ReadWithin, CountersWithin

LEMMA AccumulateLater ==
  ASSUME IInv3, MaxTsc < Fd, Accumulate, moved = {}
  PROVE  Kept' /\ Refusing' /\ Summed'
<1> USE DEF IInv3, IInv2, IInv
<1>1. /\ prog \in {"test.3", "test.4"} /\ prog \in Looping /\ ~ incall[Self] /\ pc = "stopped"
      /\ pc' \in {"average", "start"} /\ left' = left - 1
      /\ UNCHANGED <<prog, incall, mem, msr, tsc, cpu, fd, ebx, deserted>>
      /\ acc' = [k \in D!Counter \cup {TSC} |->
               acc[k] + (IF k = TSC THEN Stamp("stop") - Stamp("start") ELSE Reading(k))]
      /\ eax' = IF prog = "test.4" THEN Reading(Ffc(FFC_COUNT - 1)) ELSE eax
  BY DEF Accumulate, Returned, Goto, driverVars, Looping, places
<1>2. /\ rounds' \in Seq(Nat \X Nat) /\ Len(rounds') > 0 /\ Hi' <= tsc
      /\ Lo' \in Nat /\ Hi' \in Nat
      /\ ReadWithin(Len(Vec("stop")), Lo', Hi')
      /\ prog = "test.4" => CountersWithin(Lo', Hi')
      /\ \A k \in D!Counter : Reading(k) \in Lo' .. Hi'
      /\ left < Loops => Lo' = Lo /\ Hi' = Hi
  BY LoopReadings
<1>3. Halted
  BY <1>1 DEF Closing, Closed
<1>4. Kept'
  BY <1>1, <1>2, <1>3 DEF Kept, Halted, ReadWithin, CountersWithin, Here, Vec, Shown
<1>5. Refusing'
  <2>1. Ffc(FFC_COUNT - 1) \in D!Counter
    <3>1. FFC_COUNT - 1 \in 0 .. FFC_COUNT - 1
      BY Counts
    <3> QED
      BY <3>1 DEF D!Counter, D!Ffc, Ffc
  <2>2. tsc <= MaxTsc /\ tsc \in Nat /\ MaxTsc \in Nat /\ Fd \in Nat
    BY DriverFacts, Counts, TestAssumption DEF Clock, DriverTypes
  <2>3. eax' # Fd
    <3>1. CASE prog = "test.4"
      <4>1. eax' \in Lo' .. Hi'
        BY <1>1, <1>2, <2>1, <3>1
      <4> QED
        BY <1>2, <2>2, <4>1
    <3>2. CASE prog = "test.3"
      BY <1>1, <3>2 DEF Averaging
    <3> QED
      BY <1>1, <3>1, <3>2
  <2> QED
    BY <1>1, <2>3 DEF Refusing
<1>6. Summed'
  <2>1. Loops \in Nat \ {0} /\ left \in 1 .. Loops
    BY <1>1, PowerAssumption DEF Control
  <2> SUFFICES ASSUME NEW k \in D!Counter
               PROVE  acc'[k] >= (Loops - left') * Lo' /\ acc'[k] <= (Loops - left') * Hi'
    BY DEF Summed
  <2>2. acc'[k] = acc[k] + Reading(k) /\ Reading(k) \in Lo' .. Hi' /\ acc[k] \in Nat
    <3>1. k # TSC
      BY DEF TSC, D!Counter, D!Pmc, D!Ffc
    <3> QED
      BY <1>1, <1>2, <3>1 DEF TypeOK
  <2>3. acc[k] >= (Loops - left) * Lo' /\ acc[k] <= (Loops - left) * Hi'
    <3>1. CASE left = Loops
      <4>1. acc[k] = 0 /\ Loops - left = 0
        BY <1>1, <2>1, <3>1 DEF FirstRound
      <4> QED
        BY <1>2, <4>1
    <3>2. CASE left < Loops
      BY <1>1, <1>2, <3>2 DEF LaterRounds, Again, Summed
    <3> QED
      BY <2>1, <3>1, <3>2
  <2> DEFINE d == Loops - left
  <2>4. Loops - left' = d + 1 /\ d \in Nat
    BY <1>1, <2>1
  <2>5. (d + 1) * Lo' = d * Lo' + Lo' /\ (d + 1) * Hi' = d * Hi' + Hi'
        /\ d * Lo' \in Nat /\ d * Hi' \in Nat
    <3>1. \A i, x \in Nat : (i + 1) * x = i * x + x /\ i * x \in Nat
      OBVIOUS
    <3> HIDE DEF d
    <3> QED
      BY <1>2, <2>4, <3>1
  <2>6. acc[k] >= d * Lo' /\ acc[k] <= d * Hi'
    BY <2>3
  <2> HIDE DEF d
  <2>7. acc'[k] >= (d + 1) * Lo' /\ acc'[k] <= (d + 1) * Hi'
    BY <1>2, <2>2, <2>5, <2>6
  <2> QED
    BY <2>4, <2>7
<1> QED
  BY <1>4, <1>5, <1>6

\* The commands of test.4's second script, in a round without the first one.
LEMMA DriverLater ==
  ASSUME IInv3, DriverStep, Again
  PROVE  Kept' /\ Refusing' /\ Summed'
<1> USE DEF IInv3, IInv2, IInv
<1> DEFINE n == idx[Self] + 1
           v == Vec("stop")
<1>1. UNCHANGED <<prog, pc, fd, eax, ebx, left, acc, rounds, deserted>> /\ Shown(prog)' = Shown(prog)
      /\ Lo' = Lo /\ Hi' = Hi
  BY DriverStepKeeps DEF Shown, Lo, Hi
<1>2. /\ incall[Self] /\ UNCHANGED <<tsc, cpu, cur>>
      /\ \/ Executes(n)
         \/ n = Len(Vec(cur[Self])) /\ ~ incall'[Self] /\ UNCHANGED <<msr, mem>>
  BY Command DEF DriverStep
<1>3. Kept /\ Refusing /\ Summed
  BY DEF LaterRounds
<1>4. pc = "stopped" /\ prog = "test.4" /\ cur[Self] = "stop"
  BY <1>2, <1>3 DEF Control, Refusing, Again, Looping
<1>5. Refusing' /\ Summed'
  BY <1>1, <1>3, <1>4 DEF Refusing, Summed
<1>6. CASE UNCHANGED <<msr, mem>>
  BY <1>1, <1>2, <1>3, <1>5, <1>6, KeptSteps
<1>7. CASE Executes(n)
  <2> DEFINE c == v[n]
  <2>1. n \in 1 .. Len(v) - 1 /\ "stop" \in Script
    BY <1>4, <1>7 DEF Executes, Script
  <2>2. /\ c \in D!Cmd /\ (c.op = "READ" => c.ecx \in Shown(prog))
        /\ c.op = "WRITE" => c.value = 0 /\ c.ecx \in {GlobalCtrl, FixedCtrl}
    BY <1>4, <2>1, VectorFacts, StopFacts DEF StopZeroes
  <2>3. Sets(c) \/ (msr' = msr /\ Here' = Here)
    <3>1. \/ Sets(c)
          \/ c.op = "READ" /\ Puts(n, Here[c.ecx])
          \/ c.op = "RDTSC" /\ Puts(n, tsc)
      BY <1>4, <1>7 DEF Executes
    <3> QED
      BY <1>2, <3>1 DEF Puts, Here
  <2>4. Halted'
    <3>1. CASE Sets(c)
      BY <1>1, <1>2, <1>3, <2>2, <3>1, SetsSwitch DEF Halted, Here, Kept, Sets
    <3> QED
      BY <1>1, <1>2, <1>3, <2>3, <3>1 DEF Halted, Kept
  <2>5. ASSUME NEW k \in Shown(prog) PROVE Here'[k] \in Lo .. Hi /\ Here[k] \in Lo .. Hi
    <3>1. Here[k] \in Lo .. Hi
      BY <1>3, <1>4 DEF Kept, CountersWithin
    <3>2. CASE Sets(c)
      <4>1. k \in D!Reg /\ k # c.ecx
        BY <2>2, <3>2, ShownCounters, Registers DEF Sets
      <4> QED
        BY <1>2, <2>2, <3>1, <3>2, <4>1, SetsRegister
    <3> QED
      BY <2>3, <3>1, <3>2
  <2>6. /\ Len(v') = Len(v)
        /\ \A j \in 1 .. Len(v) :
             /\ v'[j].op = v[j].op
             /\ j # n => v'[j] = v[j]
             /\ j = n /\ v[j].op = "READ" => v'[j].value = Here[v[j].ecx]
    BY <1>4, <1>7, <2>1, Stored
  <2>7. \A j \in 1 .. Len(v) : v[j].op = "READ" => v[j].value \in Lo .. Hi
    BY <1>3 DEF Kept, ReadWithin
  <2>8. \A j \in 1 .. Len(v') : v'[j].op = "READ" => v'[j].value \in Lo .. Hi
    BY <2>2, <2>5, <2>6, <2>7
  <2>9. Kept'
    BY <1>1, <1>2, <1>3, <2>4, <2>5, <2>8 DEF Kept, ReadWithin, CountersWithin
  <2> QED
    BY <1>5, <2>9
<1> QED
  BY <1>2, <1>6, <1>7

LEMMA NextLater ==
  ASSUME IInv3, MaxTsc < Fd, [Next]_vars
  PROVE  LaterRounds'
<1> USE DEF IInv3, IInv2, IInv, Goto, regs, results, history
<1>1. Loops \in Nat \ {0} /\ left \in 0 .. Loops /\ "test.6" \notin Looping /\ Fd \in Nat /\ Fd > 0
      /\ "test.3" # "test.4"
  BY PowerAssumption, TestAssumption, Counts DEF TypeOK, Looping
<1> SUFFICES ASSUME moved' = {} PROVE LaterRounds'
  BY DEF LaterRounds, Again
<1>19. moved = {} /\ deserted = {} /\ \A c \in Cpu : ~ Move(c)
  BY Unmoved DEF TypeOK
<1>2. ASSUME ProgramStep PROVE UNCHANGED <<prog, msr, mem, tsc, cpu, deserted>>
  BY <1>2, ProgramKeeps
<1>3. Again => Kept /\ Refusing /\ Summed
  BY DEF LaterRounds
<1>4. ASSUME prog' = prog, left' = left, Again => Kept' /\ Refusing' /\ Summed' PROVE LaterRounds'
  BY <1>4, <1>19 DEF LaterRounds, Again
<1>5. ASSUME prog' \notin Looping PROVE LaterRounds'
  BY <1>5 DEF LaterRounds, Again
<1>6. CASE OpenDevice \/ OpenFails
  <2>1. pc = "open" /\ left' = left /\ prog' = prog
    BY <1>2, <1>6 DEF OpenDevice, OpenFails, ProgramStep
  <2>2. ~ Again
    BY <1>1, <2>1 DEF Again, Averaging
  <2> QED
    BY <1>4, <2>1, <2>2
<1>7. CASE Reset
  BY <1>1, <1>2, <1>5, <1>7 DEF Reset, Control, ProgramStep
<1>8. CASE Start
  <2>1. /\ Ioctl(StartFd, "start") /\ pc = "start" /\ pc' = "work"
        /\ ebx' = IF prog = "test.3" THEN eax ELSE ebx
        /\ UNCHANGED <<rounds, acc, left>> /\ UNCHANGED <<prog, msr, mem, tsc, cpu, deserted>>
    BY <1>2, <1>8 DEF Start, ProgramStep
  <2>2. ASSUME Again PROVE Kept' /\ Refusing' /\ Summed'
    <3>1. StartFd = eax /\ eax # Fd /\ (open[Self] => fd = Fd)
      BY <1>3, <2>1, <2>2 DEF Refusing, StartFd, Control, Again
    <3>2. ~ incall'[Self]
      BY <2>1, <3>1, IoctlEffect DEF Refused, driverVars, Script
    <3>3. Refusing'
      BY <2>1, <3>1, <3>2 DEF Refusing
    <3> QED
      BY <1>3, <2>1, <2>2, <3>3, KeptSteps
  <2> QED
    BY <1>4, <2>1, <2>2
<1>9. CASE StopCounters
  <2>1. /\ Ioctl(StopFd, "stop") /\ pc = "work" /\ pc' = "stopped"
        /\ UNCHANGED <<rounds, acc, left>> /\ UNCHANGED <<prog, msr, mem, tsc, cpu, deserted>>
    BY <1>2, <1>9 DEF StopCounters, StopFd, ProgramStep
  <2>2. ASSUME Again PROVE Kept' /\ Refusing' /\ Summed'
    <3>1. ASSUME prog = "test.3" PROVE ~ incall'[Self]
      <4>1. StopFd # Fd /\ (open[Self] => fd = Fd)
        BY <1>3, <2>1, <2>2, <3>1 DEF Refusing, StopFd, Control, Again
      <4> QED
        BY <2>1, <4>1, IoctlEffect DEF Refused, driverVars, Script
    <3>2. Refusing'
      BY <2>1, <2>2, <3>1 DEF Refusing, Again, Looping
    <3> QED
      BY <1>3, <2>1, <2>2, <3>2, KeptSteps
  <2> QED
    BY <1>4, <2>1, <2>2
<1>10. CASE PrintRead
  BY <1>2, <1>5, <1>10 DEF PrintRead, ProgramStep
<1>11. CASE Accumulate
  BY <1>11, <1>19, AccumulateLater DEF LaterRounds
<1>12. CASE Average \/ CloseDriver
  <2>1. /\ pc' = "exit" /\ UNCHANGED <<rounds, acc, left>> /\ UNCHANGED <<prog, msr, mem, tsc, cpu, deserted>>
    BY <1>2, <1>12 DEF Average, CloseDriver, ProgramStep
  <2>2. Refusing'
    BY <2>1 DEF Refusing
  <2> QED
    BY <1>3, <1>4, <2>1, <2>2, KeptSteps
<1>13. CASE BaselineRound
  BY <1>1, <1>2, <1>5, <1>13 DEF BaselineRound, Control, ProgramStep
<1>14. CASE BaselineMean
  BY <1>1, <1>2, <1>5, <1>14 DEF BaselineMean, Control, ProgramStep
<1>15. CASE PrintResult
  BY <1>1, <1>2, <1>5, <1>15 DEF PrintResult, ProgramStep
<1>16. CASE DriverStep
  BY <1>4, <1>16, DriverLater, DriverStepKeeps
<1>17. ASSUME NEW c \in Cpu, Tick(c) PROVE LaterRounds'
  <2>1. /\ UNCHANGED <<cpu, mem, incall, prog, pc, eax, ebx, left, acc, rounds, deserted>>
        /\ tsc' = tsc + 1
    BY <1>17, TickKeeps
  <2>2. ASSUME Again PROVE Kept' /\ Refusing' /\ Summed'
    <3>1. Here' = Here /\ Halted /\ Halted'
      <4>1. Halted
        BY <1>3, <2>2 DEF Kept
      <4>2. Halted'
        BY <1>17, <2>1, <4>1, TickOff DEF Halted
      <4>3. Here' = Here
        <5>1. cpu[Self] \in Cpu
          BY DriverFacts, OneClient DEF DriverTypes
        <5> QED
          BY <1>17, <1>19, <2>1, <4>1, <5>1, TickOff DEF Halted, Here
      <4> QED
        BY <4>1, <4>2, <4>3
    <3>2. Vec("stop")' = Vec("stop") /\ Lo' = Lo /\ Hi' = Hi /\ Shown(prog)' = Shown(prog)
      BY <2>1 DEF Vec, Lo, Hi, Shown
    <3>3. Hi <= tsc'
      <4>1. rounds \in Seq(Nat \X Nat) /\ Len(rounds) > 0 /\ Hi <= tsc /\ tsc \in Nat
        BY <1>3, <2>2, DriverFacts DEF Kept, Recorded, DriverTypes
      <4>2. Hi \in Nat
        BY <4>1 DEF Hi
      <4> QED
        BY <2>1, <4>1, <4>2
    <3>4. Kept'
      BY <1>3, <2>1, <2>2, <3>1, <3>2, <3>3 DEF Kept, ReadWithin, CountersWithin
    <3> QED
      BY <1>3, <2>1, <2>2, <3>2, <3>4 DEF Refusing, Summed
  <2> QED
    BY <1>4, <2>1, <2>2
<1>18. CASE UNCHANGED vars
  <2>1. UNCHANGED <<rounds, prog, acc, left, mem, msr, cpu, tsc, pc, eax, ebx, incall, deserted>>
    BY <1>18 DEF vars, driverVars, places
  <2>2. Refusing' = Refusing
    BY <2>1 DEF Refusing
  <2> QED
    BY <1>3, <1>4, <2>1, <2>2, KeptSteps
<1> QED
  BY <1>6, <1>7, <1>8, <1>9, <1>10, <1>11, <1>12, <1>13, <1>14, <1>15, <1>16, <1>17, <1>18, <1>19
     DEF Next, ProgramStep

\* The mean of sums that are within a multiple of the bounds is within them.
LEMMA MeanWithin ==
  ASSUME NEW d \in Nat \ {0}, NEW x \in Nat, NEW lo \in Nat, NEW hi \in Nat,
         x >= d * lo, x <= d * hi
  PROVE  x \div d \in lo .. hi
<1> DEFINE q == x \div d
<1>1. q \in Nat /\ q * d <= x /\ x < q * d + d
  OBVIOUS
<1> HIDE DEF q
<1>2. ~ (q < lo)
  <2> SUFFICES ASSUME q + 1 <= lo PROVE FALSE
    BY <1>1
  <2>1. (q + 1) * d <= lo * d
    BY <1>1
  <2> QED
    BY <1>1, <2>1
<1>3. ~ (hi < q)
  <2> SUFFICES ASSUME hi + 1 <= q PROVE FALSE
    BY <1>1
  <2>1. (hi + 1) * d <= q * d
    BY <1>1
  <2> QED
    BY <1>1, <2>1
<1> QED
  BY <1>1, <1>2, <1>3 DEF q

LEMMA NextAveraging ==
  ASSUME IInv3, MaxTsc < Fd, [Next]_vars
  PROVE  Averaging'
<1> USE DEF IInv3, IInv2, IInv, Goto, regs, results, history
<1>1. /\ Loops \in Nat \ {0} /\ left \in 0 .. Loops /\ Fd \in Nat /\ Fd > 0
      /\ prog \in {"test.0", "test.1", "test.2", "test.3", "test.4", "test.6"}
      /\ "test.6" \notin Looping /\ "test.3" \in Looping
  BY PowerAssumption, TestAssumption, Counts DEF TypeOK, Looping, Control
<1>2. ASSUME ProgramStep PROVE prog' = prog /\ moved' = moved
  BY <1>2, ProgramKeeps
<1>3. ASSUME prog' = prog, shown' = shown, rounds' = rounds, left' = left,
             moved' = {} => moved = {}, pc' \notin {"open", "average"}, pc = "exit" => pc' = "exit",
             prog = "test.3" /\ pc' = "stopped" => eax' # Fd
      PROVE  Averaging'
  BY <1>3 DEF Averaging, Lo, Hi
<1>4. CASE OpenDevice
  BY <1>2, <1>3, <1>4 DEF OpenDevice, ProgramStep
<1>5. CASE OpenFails
  BY <1>2, <1>3, <1>5 DEF OpenFails, ProgramStep
<1>6. CASE Reset
  BY <1>2, <1>3, <1>6 DEF Reset, ProgramStep
<1>7. CASE Start
  BY <1>2, <1>3, <1>7 DEF Start, ProgramStep
<1>8. CASE StopCounters
  <2>1. /\ Ioctl(StopFd, "stop") /\ pc = "work" /\ pc' = "stopped"
        /\ UNCHANGED <<rounds, shown, left, prog, moved>>
    BY <1>2, <1>8 DEF StopCounters, StopFd, ProgramStep
  <2>2. eax' \in {0, -1}
    BY <2>1, IoctlEffect DEF Entered, Refused, Script
  <2> QED
    BY <1>1, <1>3, <2>1, <2>2
<1>9. CASE PrintRead
  BY <1>1, <1>2, <1>9 DEF PrintRead, ProgramStep, Averaging
<1>10. CASE Accumulate
  <2>1. /\ prog \in Looping /\ prog' = prog /\ pc = "stopped" /\ left' = left - 1 /\ shown' = shown
        /\ pc' = IF left = 1 THEN "average" ELSE "start"
    BY <1>2, <1>10 DEF Accumulate, ProgramStep
  <2>2. shown' = <<>> /\ Len(shown') = 0
    BY <2>1 DEF Averaging
  <2> QED
    BY <1>1, <2>1, <2>2 DEF Averaging
<1>11. CASE Average
  <2> DEFINE f == [k \in DOMAIN acc |-> acc[k] \div Loops]
  <2>1. /\ pc = "average" /\ pc' = "exit" /\ UNCHANGED <<prog, left, rounds, moved>>
        /\ shown' = Append(shown, f)
    BY <1>2, <1>11 DEF Average, ProgramStep
  <2>2. prog \in Looping /\ left = 0
    BY <2>1 DEF Averaging, Control
  <2>3. moved = {} => Kept /\ Summed
    BY <1>1, <2>2 DEF LaterRounds, Again
  <2>4. ASSUME moved = {} PROVE Lo \in Nat /\ Hi \in Nat
    <3>1. rounds \in Seq(Nat \X Nat) /\ Len(rounds) > 0
      BY <2>3, <2>4 DEF Recorded, Kept
    <3> QED
      BY <3>1 DEF Lo, Hi
  <2>5. ASSUME moved = {} PROVE \A k \in D!Counter : f[k] \in Lo .. Hi
    <3> TAKE k \in D!Counter
    <3>1. f[k] = acc[k] \div Loops /\ acc[k] \in Nat
      BY DEF TypeOK
    <3>2. acc[k] >= Loops * Lo /\ acc[k] <= Loops * Hi
      BY <1>1, <2>2, <2>3, <2>5 DEF Summed
    <3> HIDE DEF f
    <3> QED
      BY <1>1, <2>4, <2>5, <3>1, <3>2, MeanWithin
  <2> HIDE DEF f
  <2>6. Len(shown') = 1 /\ shown'[1] = f
    <3>1. shown = <<>>
      BY <2>1, <2>2 DEF Averaging
    <3> QED
      BY <2>1, <3>1
  <2>7. moved' = {} => \A n \in 1 .. Len(shown'), k \in D!Counter : shown'[n][k] \in Lo' .. Hi'
    BY <2>1, <2>5, <2>6 DEF Lo, Hi
  <2> QED
    BY <2>1, <2>7 DEF Averaging
<1>12. CASE BaselineRound
  BY <1>1, <1>2, <1>12 DEF BaselineRound, Control, ProgramStep, Averaging
<1>13. CASE BaselineMean
  BY <1>1, <1>2, <1>13 DEF BaselineMean, Control, ProgramStep, Averaging
<1>14. CASE PrintResult
  BY <1>1, <1>2, <1>14 DEF PrintResult, ProgramStep, Averaging
<1>15. CASE CloseDriver
  BY <1>2, <1>3, <1>15 DEF CloseDriver, ProgramStep
<1>16. CASE DriverStep
  BY <1>16, DriverStepKeeps DEF Averaging, Lo, Hi
<1>17. CASE \E c \in Cpu : Tick(c)
  BY <1>17, TickKeeps DEF Averaging, Lo, Hi
<1>19. CASE \E c \in Cpu : Move(c)
  BY <1>19, MoveKeeps, Unmoved DEF Averaging, Lo, Hi
<1>18. CASE UNCHANGED vars
  BY <1>18 DEF vars, places, Averaging, Lo, Hi
<1> QED
  BY <1>4, <1>5, <1>6, <1>7, <1>8, <1>9, <1>10, <1>11, <1>12, <1>13, <1>14, <1>15, <1>16,
     <1>17, <1>18, <1>19 DEF Next, ProgramStep

LEMMA Invariance3 == ASSUME MaxTsc < CounterSize, MaxTsc < Fd PROVE Spec => []IInv3
<1>1. Init => IInv3
  <2> SUFFICES ASSUME Init PROVE IInv3
    OBVIOUS
  <2>1. IInv2
    BY InitIInv2
  <2>2. FirstRound
    BY DEF Init, FirstRound
  <2>3. left = Loops \/ prog \notin Looping
    BY DEF Init
  <2>4. LaterRounds
    BY <2>3, PowerAssumption DEF LaterRounds, Again
  <2>5. Len(shown) = 0 /\ shown = <<>> /\ pc = "open"
    BY DEF Init
  <2>6. Averaging
    BY <2>3, <2>5 DEF Averaging
  <2> QED
    BY <2>1, <2>2, <2>4, <2>6 DEF IInv3
<1>2. IInv2 /\ IInv2' /\ IInv3 /\ [Next]_vars => IInv3'
  BY NextFirstRound, NextLater, NextAveraging DEF IInv3
<1> QED
  BY <1>1, <1>2, Invariance2, PTL DEF Spec

(***************************************************************************)
(* However many rounds test.3 and test.4 run, the averages they print are  *)
(* the counts of their first round: no later round resets a counter, and   *)
(* what it adds are the first round's readings.  (A descriptor above every *)
(* count: test.4 leaves a count where the descriptor should be.  And a     *)
(* program the scheduler does not move.)                                   *)
(***************************************************************************)
THEOREM MsrTestsAverage ==
  ASSUME MaxTsc < CounterSize
  PROVE  Spec => []AveragesAreTheFirstRound
<1>1. CASE MaxTsc < Fd
  <2>1. IInv3 => AveragesAreTheFirstRound
    <3> SUFFICES ASSUME IInv3, prog \in Looping PROVE AveragesAreTheFirstRound
      BY DEF AveragesAreTheFirstRound
    <3>1. DOMAIN shown = 1 .. Len(shown)
      BY DEF IInv3, IInv2, Recorded
    <3> QED
      BY <3>1 DEF IInv3, Averaging, AveragesAreTheFirstRound, Lo, Hi
  <2> QED
    BY <1>1, <2>1, Invariance3, PTL
<1>2. CASE ~ (MaxTsc < Fd)
  <2>1. AveragesAreTheFirstRound
    BY <1>2 DEF AveragesAreTheFirstRound
  <2> QED
    BY <2>1, PTL
<1> QED
  BY <1>1, <1>2

=============================================================================
