---- MODULE ProgramsProofs ----
EXTENDS Programs, SequenceTheorems, WellFoundedInduction, TLAPS
-----------------------------------------------------------------------------
\* A set of naturals that is not empty has a least element,
LEMMA Least ==
  ASSUME NEW S \in SUBSET Nat, S # {}
  PROVE  \E m \in S : \A p \in S : m <= p
<1> DEFINE R == OpToRel(<, Nat)
<1>1. \E m \in S : \A p \in S : ~ (<<p, m>> \in R)
  BY NatLessThanWellFounded, WFMin, Zenon
<1>2. PICK m \in S : \A p \in S : ~ (<<p, m>> \in R)
  BY <1>1
<1>3. \A k, l \in Nat : k < l => <<k, l>> \in R
  BY Zenon DEF OpToRel
<1> HIDE DEF R
<1>4. \A p \in S : ~ (p < m)
  BY <1>2, <1>3, Zenon
<1>5. \A p \in S : m <= p
  BY <1>4, SMT
<1> QED
  BY <1>5

\* and a greatest one if there is a bound.
LEMMA Greatest ==
  ASSUME NEW bound \in Nat, NEW S \in SUBSET (0 .. bound), S # {}
  PROVE  \E m \in S : \A p \in S : p <= m
<1> DEFINE D == {bound - p : p \in S}
<1>1. D \in SUBSET Nat /\ D # {}
  <2>1. \A p \in S : bound - p \in Nat
    OBVIOUS
  <2> QED
    BY <2>1
<1>2. PICK d \in D : \A q \in D : d <= q
  BY <1>1, Least
<1>3. PICK m \in S : d = bound - m
  OBVIOUS
<1>4. ASSUME NEW p \in S PROVE p <= m
  <2>1. bound - m <= bound - p
    BY <1>2, <1>3
  <2> QED
    BY <2>1
<1> QED
  BY <1>4

\* A sequence that is one longer.
LEMMA Longer ==
  ASSUME NEW m \in Nat, NEW s, s = [n \in 1 .. m |-> s[n]],
         NEW t, t = [n \in 1 .. m + 1 |-> t[n]], \A n \in 1 .. m : t[n] = s[n]
  PROVE  Append(s, t[m + 1]) = t
<1> DEFINE S == {t[n] : n \in 1 .. m + 1}
           last == t[m + 1]
<1>1. s \in [1 .. m -> S] /\ t \in [1 .. m + 1 -> S] /\ last \in S
  OBVIOUS
<1>2. m + 1 \in Nat
  OBVIOUS
<1> HIDE DEF S
<1>3. s \in Seq(S) /\ t \in Seq(S) /\ Len(s) = m /\ Len(t) = m + 1
  BY <1>1, <1>2, IsASeq, LenProperties
<1>4. last = t[m + 1]
  OBVIOUS
<1> HIDE DEF last
<1>5. /\ Append(s, last) \in Seq(S) /\ Len(Append(s, last)) = m + 1
      /\ \A n \in 1 .. m : Append(s, last)[n] = s[n]
      /\ Append(s, last)[m + 1] = last
  BY <1>1, <1>3, AppendProperties
<1>6. \A n \in 1 .. m + 1 : Append(s, last)[n] = t[n]
  <2>1. \A n \in 1 .. m + 1 : n \in 1 .. m \/ n = m + 1
    OBVIOUS
  <2> QED
    BY <1>4, <1>5, <2>1
<1>7. Append(s, last) = t
  BY <1>3, <1>5, <1>6, SeqEqual
<1> QED
  BY <1>4, <1>7

\* The length and the elements of a sequence given by its elements.
LEMMA Given ==
  ASSUME NEW m \in Nat, NEW s, s = [n \in 1 .. m |-> s[n]]
  PROVE  s \in Seq({s[n] : n \in 1 .. m}) /\ Len(s) = m
<1> DEFINE S == {s[n] : n \in 1 .. m}
<1>1. s \in [1 .. m -> S]
  OBVIOUS
<1> HIDE DEF S
<1>2. s \in Seq(S) /\ Len(s) = m
  BY <1>1, IsASeq, LenProperties
<1> QED
  BY <1>2 DEF S
-----------------------------------------------------------------------------
(***************************************************************************)
(* Running sums: the function that is 0 for 1 and then adds one element of *)
(* d after the other exists, its values are naturals, and if all elements  *)
(* are positive they rise.                                                 *)
(***************************************************************************)
RunningSum(f, d, L) ==
  f = [k \in 1 .. L + 1 |-> IF k = 1 THEN 0 ELSE f[k - 1] + d[k - 1]]

LEMMA SumExists ==
  ASSUME NEW L \in Nat, NEW d PROVE \E f : RunningSum(f, d, L)
<1> DEFINE Bad == {m \in Nat : m <= L /\ ~ \E f : RunningSum(f, d, m)}
<1>1. SUFFICES ASSUME Bad # {} PROVE FALSE
  <2>1. L \notin Bad
    BY <1>1
  <2> QED
    BY <2>1
<1>2. PICK m \in Bad : \A p \in Bad : m <= p
  <2>1. Bad \in SUBSET Nat
    OBVIOUS
  <2> HIDE DEF Bad
  <2> QED
    BY <1>1, <2>1, Least
<1>3. m \in Nat /\ m <= L /\ ~ \E f : RunningSum(f, d, m)
  OBVIOUS
<1>4. m # 0
  <2>1. RunningSum([k \in 1 .. 0 + 1 |-> 0], d, 0)
    <3>1. \A k \in 1 .. 0 + 1 : k = 1
      OBVIOUS
    <3> QED
      BY <3>1 DEF RunningSum
  <2> QED
    BY <1>3, <2>1
<1>5. m - 1 \in Nat /\ m - 1 <= L /\ ~ (m <= m - 1)
  BY <1>3, <1>4
<1>6. PICK f : RunningSum(f, d, m - 1)
  <2>1. m - 1 \notin Bad
    BY <1>2, <1>5
  <2> QED
    BY <1>5, <2>1
<1> HIDE DEF Bad
<1> DEFINE g == [k \in 1 .. m + 1 |-> IF k <= m THEN f[k] ELSE f[m] + d[m]]
<1>7. RunningSum(g, d, m)
  <2>1. f = [k \in 1 .. m |-> IF k = 1 THEN 0 ELSE f[k - 1] + d[k - 1]]
    <3>1. m - 1 + 1 = m
      BY <1>3
    <3> QED
      BY <1>6, <3>1 DEF RunningSum
  <2>2. ASSUME NEW k \in 1 .. m + 1
        PROVE  g[k] = IF k = 1 THEN 0 ELSE g[k - 1] + d[k - 1]
    <3>1. CASE k = 1
      <4>1. 1 \in 1 .. m /\ 1 <= m
        BY <1>3, <1>4
      <4>2. f[1] = 0
        BY <2>1, <4>1
      <4> QED
        BY <3>1, <4>1, <4>2
    <3>2. CASE k # 1 /\ k <= m
      <4>1. k \in 1 .. m /\ k - 1 \in 1 .. m + 1 /\ k - 1 <= m
        BY <1>3, <3>2
      <4>2. f[k] = f[k - 1] + d[k - 1]
        BY <2>1, <3>2, <4>1
      <4>3. g[k] = f[k] /\ g[k - 1] = f[k - 1]
        BY <4>1
      <4> QED
        BY <3>2, <4>2, <4>3
    <3>3. CASE k = m + 1
      <4>1. k # 1 /\ ~ (k <= m) /\ k - 1 = m /\ m \in 1 .. m + 1 /\ m <= m
        BY <1>3, <1>4, <3>3
      <4>2. g[k] = f[m] + d[m] /\ g[m] = f[m]
        BY <4>1
      <4> QED
        BY <4>1, <4>2
    <3> QED
      BY <1>3, <3>1, <3>2, <3>3
  <2> HIDE DEF g
  <2>3. g = [k \in 1 .. m + 1 |-> g[k]]
    BY DEF g
  <2> QED
    BY <2>2, <2>3 DEF RunningSum
<1> QED
  BY <1>3, <1>7

LEMMA SumValues ==
  ASSUME NEW L \in Nat, NEW d, \A n \in 1 .. L : d[n] \in Nat,
         NEW f, RunningSum(f, d, L)
  PROVE  /\ \A k \in 1 .. L + 1 : f[k] \in Nat
         /\ f[1] = 0
         /\ \A n \in 1 .. L : f[n + 1] = f[n] + d[n]
<1>1. \A k \in 1 .. L + 1 : f[k] = IF k = 1 THEN 0 ELSE f[k - 1] + d[k - 1]
  BY DEF RunningSum
<1>2. f[1] = 0
  BY <1>1, 1 \in 1 .. L + 1
<1>3. ASSUME NEW n \in 1 .. L PROVE f[n + 1] = f[n] + d[n]
  <2>1. n + 1 \in 1 .. L + 1 /\ n + 1 # 1 /\ n + 1 - 1 = n
    OBVIOUS
  <2> QED
    BY <1>1, <2>1
<1>4. \A k \in 1 .. L + 1 : f[k] \in Nat
  <2> DEFINE Bad == {k \in 1 .. L + 1 : f[k] \notin Nat}
  <2>1. SUFFICES ASSUME Bad # {} PROVE FALSE
    OBVIOUS
  <2>2. PICK k \in Bad : \A p \in Bad : k <= p
    <3>1. Bad \in SUBSET Nat
      OBVIOUS
    <3> HIDE DEF Bad
    <3> QED
      BY <2>1, <3>1, Least
  <2>3. k \in 1 .. L + 1 /\ f[k] \notin Nat /\ k # 1
    BY <1>2
  <2>4. k - 1 \in 1 .. L /\ k - 1 \in 1 .. L + 1 /\ ~ (k <= k - 1) /\ k - 1 + 1 = k
    BY <2>3
  <2>5. f[k - 1] \in Nat
    BY <2>2, <2>4
  <2>6. f[k] = f[k - 1] + d[k - 1]
    BY <1>3, <2>4
  <2> QED
    BY <2>3, <2>4, <2>5, <2>6
<1> QED
  BY <1>2, <1>3, <1>4

LEMMA SumRises ==
  ASSUME NEW L \in Nat, NEW d, \A n \in 1 .. L : d[n] \in Nat \ {0},
         NEW f, RunningSum(f, d, L)
  PROVE  \A j, k \in 1 .. L + 1 : j < k => f[j] < f[k]
<1>1. /\ \A k \in 1 .. L + 1 : f[k] \in Nat
      /\ \A n \in 1 .. L : f[n + 1] = f[n] + d[n]
  BY SumValues
<1>2. SUFFICES ASSUME NEW j \in 1 .. L + 1 PROVE \A k \in 1 .. L + 1 : j < k => f[j] < f[k]
  OBVIOUS
<1> DEFINE Bad == {k \in 1 .. L + 1 : j < k /\ ~ (f[j] < f[k])}
<1>3. SUFFICES ASSUME Bad # {} PROVE FALSE
  OBVIOUS
<1>4. PICK k \in Bad : \A p \in Bad : k <= p
  <2>1. Bad \in SUBSET Nat
    OBVIOUS
  <2> HIDE DEF Bad
  <2> QED
    BY <1>3, <2>1, Least
<1>5. k \in 1 .. L + 1 /\ j < k /\ ~ (f[j] < f[k])
  OBVIOUS
<1>6. k - 1 \in 1 .. L /\ k - 1 \in 1 .. L + 1 /\ ~ (k <= k - 1) /\ k - 1 + 1 = k
  BY <1>5
<1>7. f[k] = f[k - 1] + d[k - 1] /\ d[k - 1] \in Nat \ {0} /\ f[k - 1] \in Nat /\ f[j] \in Nat
  BY <1>1, <1>6
<1>8. CASE j = k - 1
  BY <1>5, <1>7, <1>8
<1>9. CASE j < k - 1
  <2>1. f[j] < f[k - 1]
    BY <1>4, <1>6, <1>9
  <2> QED
    BY <1>5, <1>7, <2>1
<1> QED
  BY <1>5, <1>6, <1>8, <1>9
-----------------------------------------------------------------------------
(***************************************************************************)
(* The directory listing. Off(d) is where the records of directory d       *)
(* start, Held(d) the number of those that the buffer holds.               *)
(***************************************************************************)
Records(d) == Len(d)
Off(d) == CHOOSE f : RunningSum(f, d, Len(d))
HeldSet(d) == {n \in 0 .. Len(d) : Off(d)[n + 1] <= Capacity}
Held(d) == Dents!Max(HeldSet(d))
Starts(d, k) == [n \in 1 .. k |-> Off(d)[n]]

DentsTypes ==
  /\ dents_pc \in {"start", "open_dir", "getdents", "write_header", "write_line",
                   "advance", "close_fd", "exit"}
  /\ dents_dir \in Seq(RecLen)
  /\ dents_fd \in {-1, 0, 3}
  /\ dents_buffer \in [0 .. Capacity - 1 -> Nat]

\* Nothing has been stored into the buffer.
Zeroes ==
  /\ dents_base = 0 /\ dents_ecx = 0
  /\ \A o \in 0 .. Capacity - 1 : dents_buffer[o] = 0

Unread ==
  /\ dents_pc \in {"start", "open_dir", "getdents"}
  /\ Zeroes /\ dents_end = 0 /\ dents_out = << >>

\* The kernel has answered with an error,
Refused ==
  /\ dents_pc \in {"write_header", "write_line", "advance"}
  /\ Zeroes /\ dents_end = -1 /\ dents_out \in {<< >>, << 0 >>}

\* with nothing,
Nothing ==
  /\ dents_pc \in {"write_header", "write_line", "advance", "close_fd", "exit"}
  /\ Zeroes /\ dents_end = 0 /\ dents_out \in {<< >>, << 0 >>}
  /\ Held(dents_dir) = 0

\* or with records, of which the program has come to the r-th.
AtRecord(r) ==
  /\ dents_base = Off(dents_dir)[r]
  /\ dents_pc = "write_header" => r = 1 /\ dents_out = Starts(dents_dir, 0)
  /\ dents_pc = "write_line" => dents_out = Starts(dents_dir, r - 1)
  /\ dents_pc = "advance" => dents_out = Starts(dents_dir, r) /\ dents_ecx = dents_dir[r]
  /\ dents_pc \in {"close_fd", "exit"} =>
       r = Held(dents_dir) /\ dents_out = Starts(dents_dir, r)

Stored ==
  /\ dents_pc \in {"write_header", "write_line", "advance", "close_fd", "exit"}
  /\ Held(dents_dir) > 0
  /\ dents_end = Off(dents_dir)[Held(dents_dir) + 1]
  /\ \A n \in 1 .. Held(dents_dir) : dents_buffer[Off(dents_dir)[n]] = dents_dir[n]
  /\ dents_ecx \in RecLen \cup {0}
  /\ \E r \in 1 .. Held(dents_dir) : AtRecord(r)

DentsInv == DentsTypes /\ (Unread \/ Refused \/ Nothing \/ Stored)

LEMMA DirFacts ==
  ASSUME NEW d \in Seq(RecLen)
  PROVE  /\ Records(d) \in Nat
         /\ \A n \in 1 .. Records(d) : d[n] \in RecLen /\ d[n] \in Nat \ {0} /\ d[n] <= Capacity
         /\ \A k \in 1 .. Records(d) + 1 : Off(d)[k] \in Nat
         /\ Off(d)[1] = 0
         /\ \A n \in 1 .. Records(d) : Off(d)[n + 1] = Off(d)[n] + d[n]
         /\ \A j, k \in 1 .. Records(d) + 1 : j < k => Off(d)[j] < Off(d)[k]
<1> DEFINE L == Records(d)
           f == Off(d)
<1>1. L \in Nat /\ L = Len(d) /\ \A n \in 1 .. L : d[n] \in RecLen
  BY LenProperties, ElementOfSeq DEF Records
<1>2. RecLen \subseteq 1 .. Capacity /\ Capacity \in Nat
  BY ProgramsAssumption DEF Dents!GetdentsAssumption
<1>3. \A n \in 1 .. L : d[n] \in RecLen /\ d[n] \in Nat \ {0} /\ d[n] <= Capacity
  <2>1. \A v \in 1 .. Capacity : v \in Nat \ {0} /\ v <= Capacity
    BY <1>2
  <2> HIDE DEF L
  <2> QED
    BY <1>1, <1>2, <2>1, Zenon
<1>4. RunningSum(f, d, L)
  <2>1. \E g : RunningSum(g, d, Len(d))
    BY <1>1, SumExists
  <2> QED
    BY <1>1, <2>1, Zenon DEF Off
<1> HIDE DEF f, L
<1>0. \A n \in 1 .. L : d[n] \in Nat
  BY <1>3
<1>5. /\ \A k \in 1 .. L + 1 : f[k] \in Nat
      /\ f[1] = 0
      /\ \A n \in 1 .. L : f[n + 1] = f[n] + d[n]
  BY <1>1, <1>0, <1>4, SumValues
<1>6. \A j, k \in 1 .. L + 1 : j < k => f[j] < f[k]
  BY <1>1, <1>3, <1>4, SumRises
<1> QED
  BY <1>1, <1>3, <1>5, <1>6 DEF f, L

LEMMA HeldFacts ==
  ASSUME NEW d \in Seq(RecLen)
  PROVE  /\ Held(d) \in 0 .. Records(d) /\ Off(d)[Held(d) + 1] <= Capacity
         /\ \A n \in 0 .. Records(d) : Off(d)[n + 1] <= Capacity => n <= Held(d)
         /\ Records(d) > 0 => Held(d) > 0
<1> DEFINE L == Records(d)
           f == Off(d)
           S == {n \in 0 .. L : f[n + 1] <= Capacity}
<1>1. /\ L \in Nat /\ f[1] = 0 /\ Capacity \in Nat
      /\ \A n \in 1 .. L : f[n + 1] = f[n] + d[n] /\ d[n] <= Capacity /\ d[n] \in Nat
  BY DirFacts, ProgramsAssumption DEF Dents!GetdentsAssumption
<1>2. HeldSet(d) = S
  BY Zenon DEF HeldSet, Records
<1>3. 0 \in S /\ S \in SUBSET (0 .. L)
  <2>1. 0 \in 0 .. L /\ 0 + 1 = 1
    BY <1>1
  <2> HIDE DEF f, L
  <2> QED
    BY <1>1, <2>1
<1> HIDE DEF S
<1>4. \E m \in S : \A p \in S : p <= m
  BY <1>1, <1>3, Greatest
<1>5. \E m \in S : \A p \in S : m >= p
  <2>1. PICK m \in S : \A p \in S : p <= m
    BY <1>4
  <2>2. \A p \in S : m >= p
    BY <1>3, <2>1
  <2> QED
    BY <2>2
<1>6. Held(d) \in S /\ \A p \in S : Held(d) >= p
  <2>1. Held(d) = CHOOSE m \in S : \A p \in S : m >= p
    BY <1>2, Zenon DEF Held, Dents!Max
  <2> QED
    BY <1>5, <2>1, Zenon
<1>7. Held(d) \in 0 .. L /\ f[Held(d) + 1] <= Capacity
  BY <1>6 DEF S
<1>8. ASSUME NEW n \in 0 .. L, f[n + 1] <= Capacity PROVE n <= Held(d)
  <2>1. n \in S
    BY <1>8 DEF S
  <2>2. Held(d) >= n
    BY <1>6, <2>1
  <2> HIDE DEF L
  <2> QED
    BY <1>1, <1>7, <2>2
<1>9. ASSUME L > 0 PROVE Held(d) > 0
  <2>1. 1 \in 0 .. L /\ 1 \in 1 .. L
    BY <1>1, <1>9
  <2>2. f[1 + 1] <= Capacity
    BY <1>1, <2>1
  <2>3. 1 <= Held(d)
    BY <1>8, <2>1, <2>2
  <2> HIDE DEF L
  <2> QED
    BY <1>1, <1>7, <2>3
<1> QED
  BY <1>7, <1>8, <1>9

LEMMA DentsInit == ASSUME Dents!Init PROVE DentsInv
<1>1. PICK m \in 0 .. MaxRecords : dents_dir \in [1 .. m -> RecLen]
  BY DEF Dents!Init
<1>2. m \in Nat
  BY ProgramsAssumption DEF Dents!GetdentsAssumption
<1>3. dents_dir \in Seq(RecLen)
  BY <1>1, <1>2, IsASeq
<1> QED
  BY <1>3 DEF Dents!Init, DentsInv, DentsTypes, Unread, Zeroes

\* The record after those that have a line.
LEMMA StartsNext ==
  ASSUME NEW d, NEW k \in Nat
  PROVE  Append(Starts(d, k), Off(d)[k + 1]) = Starts(d, k + 1)
<1>1. k + 1 \in 1 .. k + 1 /\ 1 .. k \subseteq 1 .. k + 1
  OBVIOUS
<1>2. /\ Starts(d, k) = [n \in 1 .. k |-> Starts(d, k)[n]]
      /\ Starts(d, k + 1) = [n \in 1 .. k + 1 |-> Starts(d, k + 1)[n]]
      /\ \A n \in 1 .. k : Starts(d, k + 1)[n] = Starts(d, k)[n]
      /\ Starts(d, k + 1)[k + 1] = Off(d)[k + 1]
  BY <1>1 DEF Starts
<1>3. Append(Starts(d, k), Starts(d, k + 1)[k + 1]) = Starts(d, k + 1)
  BY <1>2, Longer
<1> QED
  BY <1>2, <1>3

LEMMA StartsLen ==
  ASSUME NEW d, NEW r \in Nat
  PROVE  /\ Len(Starts(d, r)) = r /\ DOMAIN Starts(d, r) = 1 .. r
         /\ Starts(d, 0) = << >> /\ (r > 0 => Starts(d, r) # << >>)
         /\ r > 0 => Dents!Last(Starts(d, r)) = Off(d)[r]
<1> DEFINE s == Starts(d, r)
<1>1. s = [n \in 1 .. r |-> s[n]] /\ DOMAIN s = 1 .. r
  BY DEF Starts
<1> HIDE DEF s
<1>2. Len(s) = r
  BY <1>1, Given
<1> USE DEF s
<1>3. Starts(d, 0) = << >>
  BY DEF Starts
<1>4. ASSUME r > 0 PROVE Starts(d, r) # << >>
  <2>1. 1 \in DOMAIN Starts(d, r)
    BY <1>1, <1>4
  <2> QED
    BY <2>1
<1>5. ASSUME r > 0 PROVE Starts(d, r)[r] = Off(d)[r]
  BY <1>5 DEF Starts
<1> QED
  BY <1>1, <1>2, <1>3, <1>4, <1>5 DEF Dents!Last

\* The model's own names for the same.
LEMMA SameNames ==
  /\ Dents!Offset = Off(dents_dir) /\ Dents!Fitting = HeldSet(dents_dir)
  /\ Dents!Max(Dents!Fitting) = Held(dents_dir)
<1>1. Dents!Offset = Off(dents_dir)
  BY Zenon DEF Dents!Offset, Off, RunningSum
<1>2. Dents!Fitting = HeldSet(dents_dir)
  BY <1>1, Zenon DEF Dents!Fitting, HeldSet
<1> QED
  BY <1>1, <1>2, Zenon DEF Held

LEMMA DentsStart ==
  ASSUME DentsInv, Dents!Start \/ Dents!OpenDir
  PROVE  DentsInv'
<1>1. /\ dents_pc \in {"start", "open_dir"} /\ dents_pc' \in {"open_dir", "getdents"}
      /\ dents_fd' \in {dents_fd, 3, -1}
      /\ UNCHANGED <<dents_dir, dents_buffer, dents_base, dents_end, dents_ecx, dents_out>>
  BY DEF Dents!Start, Dents!OpenDir, Dents!Goto
<1>2. Unread
  BY <1>1 DEF DentsInv, Refused, Nothing, Stored
<1>3. Unread'
  BY <1>1, <1>2 DEF Unread, Zeroes
<1>4. DentsTypes'
  BY <1>1 DEF DentsInv, DentsTypes
<1> QED
  BY <1>3, <1>4 DEF DentsInv

LEMMA DentsRefused ==
  ASSUME DentsInv, Dents!GetdentsFails
  PROVE  DentsInv'
<1>1. /\ dents_pc = "getdents" /\ dents_pc' = "write_header" /\ dents_end' = -1
      /\ UNCHANGED <<dents_dir, dents_fd, dents_buffer, dents_base, dents_ecx, dents_out>>
  BY DEF Dents!GetdentsFails, Dents!Goto
<1>2. Unread
  BY <1>1 DEF DentsInv, Refused, Nothing, Stored
<1>3. Refused'
  BY <1>1, <1>2 DEF Unread, Refused, Zeroes
<1>4. DentsTypes'
  BY <1>1 DEF DentsInv, DentsTypes
<1> QED
  BY <1>3, <1>4 DEF DentsInv

LEMMA DentsAnswered ==
  ASSUME DentsInv, Dents!GetdentsOk
  PROVE  DentsInv'
<1> DEFINE d == dents_dir
           f == Off(d)
           count == Held(d)
<1>1. /\ dents_pc = "getdents" /\ dents_pc' = "write_header" /\ dents_end' = f[count + 1]
      /\ UNCHANGED <<dents_dir, dents_fd, dents_base, dents_ecx, dents_out>>
      /\ dents_buffer' = [o \in DOMAIN dents_buffer |->
                            IF \E n \in 1 .. count : f[n] = o
                            THEN d[CHOOSE n \in 1 .. count : f[n] = o] ELSE dents_buffer[o]]
  BY SameNames, Zenon DEF Dents!GetdentsOk, Dents!Goto
<1>2. Unread /\ DentsTypes
  BY <1>1 DEF DentsInv, Refused, Nothing, Stored
<1>3. d \in Seq(RecLen) /\ dents_buffer \in [0 .. Capacity - 1 -> Nat]
  BY <1>2 DEF DentsTypes
<1> DEFINE L == Records(d)
<1>4. /\ L \in Nat /\ count \in 0 .. L /\ f[1] = 0
      /\ \A n \in 1 .. L : d[n] \in Nat
      /\ \A k \in 1 .. L + 1 : f[k] \in Nat
      /\ \A j, k \in 1 .. L + 1 : j < k => f[j] < f[k]
      /\ f[count + 1] <= Capacity /\ Capacity \in Nat
  BY <1>3, DirFacts, HeldFacts, ProgramsAssumption DEF Dents!GetdentsAssumption
<1> HIDE DEF d, f, count, L
<1>5. \A n \in 1 .. count : f[n] \in 0 .. Capacity - 1 /\ n \in 1 .. L
  <2>1. ASSUME NEW n \in 1 .. count PROVE f[n] \in 0 .. Capacity - 1 /\ n \in 1 .. L
    <3>1. n \in 1 .. L /\ n \in 1 .. L + 1 /\ count + 1 \in 1 .. L + 1 /\ n < count + 1
      BY <1>4
    <3>2. f[n] < f[count + 1] /\ f[n] \in Nat /\ f[count + 1] \in Nat
      BY <1>4, <3>1
    <3> QED
      BY <1>4, <3>1, <3>2
  <2> QED
    BY <2>1
<1>6. \A j, k \in 1 .. count : f[j] = f[k] => j = k
  <2>1. ASSUME NEW j \in 1 .. count, NEW k \in 1 .. count, f[j] = f[k] PROVE j = k
    <3>1. j \in 1 .. L + 1 /\ k \in 1 .. L + 1 /\ j \in Int /\ k \in Int
      BY <1>4
    <3>2. f[j] \in Nat /\ f[k] \in Nat /\ (j < k => f[j] < f[k]) /\ (k < j => f[k] < f[j])
      BY <1>4, <3>1
    <3>3. ~ (j < k) /\ ~ (k < j)
      BY <2>1, <3>2
    <3> QED
      BY <3>1, <3>3
  <2> QED
    BY <2>1
<1>7. \A n \in 1 .. count : dents_buffer'[f[n]] = d[n]
  <2>1. ASSUME NEW n \in 1 .. count PROVE dents_buffer'[f[n]] = d[n]
    <3>1. f[n] \in DOMAIN dents_buffer
      BY <1>3, <1>5
    <3>2. dents_buffer'[f[n]] = d[CHOOSE m \in 1 .. count : f[m] = f[n]]
      BY <1>1, <3>1
    <3>3. (CHOOSE m \in 1 .. count : f[m] = f[n]) = n
      BY <1>6
    <3> QED
      BY <3>2, <3>3
  <2> QED
    BY <2>1
<1>8. dents_buffer' \in [0 .. Capacity - 1 -> Nat]
  <2>1. ASSUME NEW o \in 0 .. Capacity - 1
        PROVE  (IF \E n \in 1 .. count : f[n] = o
                THEN d[CHOOSE n \in 1 .. count : f[n] = o] ELSE dents_buffer[o]) \in Nat
    <3>1. ASSUME \E n \in 1 .. count : f[n] = o
          PROVE  d[CHOOSE n \in 1 .. count : f[n] = o] \in Nat
      <4>1. (CHOOSE n \in 1 .. count : f[n] = o) \in 1 .. count
        BY <3>1
      <4> QED
        BY <1>4, <1>5, <4>1
    <3> QED
      BY <1>3, <3>1
  <2>2. DOMAIN dents_buffer = 0 .. Capacity - 1
    BY <1>3
  <2> QED
    BY <1>1, <2>1, <2>2
<1>9. DentsTypes'
  BY <1>1, <1>2, <1>8 DEF DentsTypes
<1>10. CASE count = 0
  <2>1. f[count + 1] = 0 /\ 1 .. count = {}
    BY <1>4, <1>10
  <2>2. \A o \in 0 .. Capacity - 1 : dents_buffer'[o] = 0
    <3>1. \A o \in 0 .. Capacity - 1 : dents_buffer'[o] = dents_buffer[o]
      BY <1>1, <1>3, <2>1
    <3> QED
      BY <1>2, <3>1 DEF Unread, Zeroes
  <2>3. Nothing'
    BY <1>1, <1>2, <1>10, <2>1, <2>2 DEF Unread, Nothing, Zeroes, d, count
  <2> QED
    BY <1>9, <2>3 DEF DentsInv
<1>11. CASE count > 0
  <2>1. 1 \in 1 .. count /\ Starts(dents_dir, 0) = << >>
    BY <1>4, <1>11, StartsLen
  <2>2. AtRecord(1)'
    BY <1>1, <1>2, <1>4, <2>1 DEF Unread, Zeroes, AtRecord, d, f
  <2>3. Stored'
    BY <1>1, <1>2, <1>7, <1>11, <2>1, <2>2 DEF Unread, Zeroes, Stored, d, f, count
  <2> QED
    BY <1>9, <2>3 DEF DentsInv
<1> QED
  BY <1>4, <1>10, <1>11

\* With nothing stored, the program looks at the first word of the buffer.
LEMMA DentsIdle ==
  ASSUME DentsTypes, Refused \/ Nothing, Dents!WriteHeader \/ Dents!WriteLine \/ Dents!Advance
  PROVE  DentsInv'
<1>0. /\ Capacity - 1 \in Nat /\ 0 \in 0 .. Capacity - 1
  BY ProgramsAssumption DEF Dents!GetdentsAssumption
<1>1. Zeroes /\ dents_base = 0 /\ dents_ecx = 0 /\ dents_buffer[0] = 0
  BY <1>0 DEF Refused, Nothing, Zeroes
<1>2. UNCHANGED <<dents_dir, dents_fd, dents_buffer, dents_end>>
  BY DEF Dents!WriteHeader, Dents!WriteLine, Dents!Advance
<1>3. DentsTypes'
  BY <1>2 DEF DentsTypes, Dents!WriteHeader, Dents!WriteLine, Dents!Advance, Dents!Goto
<1>4. dents_ecx' = 0
  BY <1>1 DEF Dents!WriteHeader, Dents!WriteLine, Dents!Advance
<1>5. dents_base' = 0
  BY <1>1 DEF Dents!WriteHeader, Dents!WriteLine, Dents!Advance
<1>6. Zeroes'
  BY <1>1, <1>2, <1>4, <1>5 DEF Zeroes
<1>7. dents_out' \in {<< >>, << 0 >>}
  <2>1. dents_out \in {<< >>, << 0 >>}
    BY DEF Refused, Nothing
  <2>2. Dents!WriteHeader \/ Dents!Advance => dents_out' = dents_out
    BY DEF Dents!WriteHeader, Dents!Advance
  <2>3. ASSUME Dents!WriteLine PROVE dents_out' \in {<< >>, << 0 >>}
    <3>1. dents_out' = IF dents_out # << >> /\ Dents!Last(dents_out) = 0
                       THEN dents_out ELSE Append(dents_out, 0)
      BY <1>1, <2>3 DEF Dents!WriteLine
    <3>2. Append(<< >>, 0) = << 0 >>
      OBVIOUS
    <3>3. Dents!Last(<< 0 >>) = 0 /\ << 0 >> # << >>
      BY DEF Dents!Last
    <3> QED
      BY <2>1, <3>1, <3>2, <3>3, Zenon
  <2> QED
    BY <2>1, <2>2, <2>3
<1>8. CASE Refused
  <2>1. dents_base + dents_ecx # dents_end /\ dents_end = -1
    BY <1>1, <1>8 DEF Refused
  <2>2. dents_pc' \in {"write_header", "write_line", "advance"}
    BY <2>1 DEF Dents!WriteHeader, Dents!WriteLine, Dents!Advance, Dents!Goto
  <2>3. Refused'
    BY <1>2, <1>6, <1>7, <2>1, <2>2 DEF Refused
  <2> QED
    BY <1>3, <2>3 DEF DentsInv
<1>9. CASE Nothing
  <2>1. dents_end = 0 /\ Held(dents_dir) = 0
    BY <1>9 DEF Nothing
  <2>2. dents_pc' \in {"write_header", "write_line", "advance", "close_fd", "exit"}
    BY DEF Dents!WriteHeader, Dents!WriteLine, Dents!Advance, Dents!Goto
  <2>3. Nothing'
    BY <1>2, <1>6, <1>7, <2>1, <2>2 DEF Nothing
  <2> QED
    BY <1>3, <2>3 DEF DentsInv
<1> QED
  BY <1>8, <1>9

LEMMA DentsWalks ==
  ASSUME DentsTypes, Stored, Dents!WriteHeader \/ Dents!WriteLine \/ Dents!Advance
  PROVE  DentsInv'
<1> DEFINE d == dents_dir
           f == Off(d)
           count == Held(d)
           L == Records(d)
<1>1. PICK r \in 1 .. count : AtRecord(r)
  BY DEF Stored
<1>2. UNCHANGED <<dents_dir, dents_fd, dents_buffer, dents_end>>
  BY DEF Dents!WriteHeader, Dents!WriteLine, Dents!Advance
<1>3. DentsTypes'
  BY <1>2 DEF DentsTypes, Dents!WriteHeader, Dents!WriteLine, Dents!Advance, Dents!Goto
<1>4. /\ L \in Nat /\ count \in 0 .. L
      /\ \A n \in 1 .. L : d[n] \in RecLen
      /\ \A n \in 1 .. L : f[n + 1] = f[n] + d[n]
      /\ \A j, k \in 1 .. L + 1 : j < k => f[j] < f[k]
      /\ \A k \in 1 .. L + 1 : f[k] \in Nat
  <2>1. d \in Seq(RecLen)
    BY DEF DentsTypes
  <2> QED
    BY <2>1, DirFacts, HeldFacts
<1>5. r \in 1 .. L /\ r \in Nat \ {0} /\ r - 1 \in Nat /\ r - 1 + 1 = r
  <2> HIDE DEF count, L
  <2> QED
    BY <1>4
<1>6. /\ dents_pc' \in {"write_header", "write_line", "advance", "close_fd", "exit"}
      /\ dents_pc \in {"write_header", "write_line", "advance"}
  BY DEF Dents!WriteHeader, Dents!WriteLine, Dents!Advance, Dents!Goto
<1>7. SUFFICES dents_ecx' \in RecLen \cup {0} /\ \E q \in 1 .. count : AtRecord(q)'
  <2>1. ASSUME NEW q \in 1 .. count, AtRecord(q)'
        PROVE  (\E p \in 1 .. Held(dents_dir) : AtRecord(p))'
    BY <1>2, <2>1
  <2>2. Stored' <=> /\ dents_ecx' \in RecLen \cup {0}
                    /\ (\E p \in 1 .. Held(dents_dir) : AtRecord(p))'
    BY <1>2, <1>6 DEF Stored
  <2> QED
    BY <1>3, <1>7, <2>1, <2>2 DEF DentsInv
<1>8. CASE Dents!WriteHeader
  <2>1. /\ dents_pc = "write_header" /\ dents_pc' = "write_line"
        /\ UNCHANGED <<dents_base, dents_ecx, dents_out>>
    BY <1>8 DEF Dents!WriteHeader, Dents!Goto
  <2>2. r = 1 /\ dents_out = Starts(d, 0) /\ dents_base = f[r]
    BY <1>1, <2>1 DEF AtRecord
  <2>3. r - 1 = 0
    BY <2>2
  <2>4. AtRecord(r)'
    BY <1>2, <2>1, <2>2, <2>3 DEF AtRecord
  <2> QED
    BY <1>1, <2>1, <2>4 DEF Stored
<1>9. CASE Dents!WriteLine
  <2>1. /\ dents_pc = "write_line" /\ dents_pc' = "advance" /\ dents_ecx' = dents_buffer[dents_base]
        /\ dents_base' = dents_base
        /\ dents_out' = IF dents_out # << >> /\ Dents!Last(dents_out) = dents_base
                        THEN dents_out ELSE Append(dents_out, dents_base)
    BY <1>9 DEF Dents!WriteLine, Dents!Goto
  <2>2. dents_base = f[r] /\ dents_out = Starts(d, r - 1)
    BY <1>1, <2>1 DEF AtRecord
  <2>3. dents_ecx' = d[r]
    BY <1>1, <2>1, <2>2 DEF Stored
  <2>4. ~ (dents_out # << >> /\ Dents!Last(dents_out) = dents_base)
    <3>1. CASE r - 1 = 0
      BY <2>2, <3>1, StartsLen
    <3>2. CASE r - 1 > 0
      <4>1. Dents!Last(dents_out) = f[r - 1]
        BY <1>5, <2>2, <3>2, StartsLen
      <4>2. r - 1 \in 1 .. L + 1 /\ r \in 1 .. L + 1 /\ r - 1 < r
        <5> HIDE DEF L
        <5> QED
          BY <1>4, <1>5, <3>2
      <4> HIDE DEF f
      <4>3. f[r - 1] < f[r] /\ f[r - 1] \in Nat /\ f[r] \in Nat
        BY <1>4, <4>2
      <4>4. f[r - 1] # f[r]
        BY <4>3
      <4> QED
        BY <2>2, <4>1, <4>4
    <3> QED
      BY <1>5, <3>1, <3>2
  <2>5. dents_out' = Starts(d, r)
    <3>1. dents_out' = Append(Starts(d, r - 1), f[r])
      BY <2>1, <2>2, <2>4, Zenon
    <3>2. Append(Starts(d, r - 1), f[r - 1 + 1]) = Starts(d, r - 1 + 1)
      BY <1>5, StartsNext
    <3> QED
      BY <1>5, <3>1, <3>2
  <2>6. AtRecord(r)'
    BY <1>2, <2>1, <2>2, <2>3, <2>5 DEF AtRecord
  <2> QED
    BY <1>1, <1>4, <1>5, <2>3, <2>6
<1>10. CASE Dents!Advance
  <2>1. /\ dents_pc = "advance" /\ UNCHANGED <<dents_ecx, dents_out>>
        /\ dents_pc' = IF dents_base + dents_ecx = dents_end THEN "close_fd" ELSE "write_line"
        /\ dents_base' = IF dents_base + dents_ecx = dents_end THEN dents_base
                         ELSE dents_base + dents_ecx
    BY <1>10 DEF Dents!Advance, Dents!Goto
  <2>2. /\ dents_base = f[r] /\ dents_out = Starts(d, r) /\ dents_ecx = d[r]
        /\ dents_end = f[count + 1] /\ dents_ecx \in RecLen \cup {0}
    BY <1>1, <2>1 DEF AtRecord, Stored
  <2>3. dents_base + dents_ecx = f[r + 1]
    <3>1. f[r + 1] = f[r] + d[r]
      BY <1>4, <1>5
    <3> QED
      BY <2>2, <3>1, Zenon
  <2>4. CASE r = count
    <3>1. dents_base + dents_ecx = dents_end
      BY <2>2, <2>3, <2>4, Zenon
    <3>2. dents_pc' = "close_fd" /\ dents_base' = dents_base
      BY <2>1, <3>1, Zenon
    <3>3. AtRecord(r)'
      BY <1>2, <2>1, <2>2, <2>4, <3>2 DEF AtRecord
    <3> QED
      BY <2>1, <2>2, <3>3
  <2>5. CASE r < count
    <3>1. /\ r + 1 \in 1 .. L + 1 /\ count + 1 \in 1 .. L + 1 /\ r + 1 < count + 1
          /\ r + 1 \in 1 .. count /\ r + 1 - 1 = r
      <4> HIDE DEF L, count
      <4> QED
        BY <1>4, <1>5, <2>5
    <3>2. f[r + 1] # f[count + 1]
      <4> HIDE DEF L, count, f
      <4>1. f[r + 1] < f[count + 1] /\ f[r + 1] \in Nat /\ f[count + 1] \in Nat
        BY <1>4, <3>1
      <4> QED
        BY <4>1
    <3>3. dents_base + dents_ecx # dents_end
      BY <2>2, <2>3, <3>2, Zenon
    <3>4. dents_pc' = "write_line" /\ dents_base' = f[r + 1]
      BY <2>1, <2>3, <3>3, Zenon
    <3>5. AtRecord(r + 1)'
      <4>1. dents_out' = Starts(d, r + 1 - 1)
        BY <2>1, <2>2, <3>1
      <4> QED
        BY <1>2, <3>4, <4>1 DEF AtRecord
    <3> QED
      BY <2>1, <2>2, <3>1, <3>5
  <2>6. r = count \/ r < count
    <3> HIDE DEF count, L
    <3> QED
      BY <1>4, <1>5
  <2> QED
    BY <2>4, <2>5, <2>6
<1> QED
  BY <1>8, <1>9, <1>10

LEMMA DentsClose ==
  ASSUME DentsInv, Dents!CloseFd
  PROVE  DentsInv'
<1>1. /\ dents_pc = "close_fd" /\ dents_pc' = "exit" /\ dents_fd' = 0
      /\ UNCHANGED <<dents_dir, dents_buffer, dents_base, dents_end, dents_ecx, dents_out>>
  BY DEF Dents!CloseFd, Dents!Goto
<1>2. Nothing \/ Stored
  BY <1>1 DEF DentsInv, Unread, Refused
<1>3. DentsTypes'
  BY <1>1 DEF DentsInv, DentsTypes
<1>4. CASE Nothing
  <2>1. Nothing'
    BY <1>1, <1>4 DEF Nothing, Zeroes
  <2> QED
    BY <1>3, <2>1 DEF DentsInv
<1>5. CASE Stored
  <2>1. PICK r \in 1 .. Held(dents_dir) : AtRecord(r)
    BY <1>5 DEF Stored
  <2>2. AtRecord(r)'
    BY <1>1, <2>1 DEF AtRecord
  <2>3. Stored'
    BY <1>1, <1>5, <2>2 DEF Stored
  <2> QED
    BY <1>3, <2>3 DEF DentsInv
<1> QED
  BY <1>2, <1>4, <1>5

LEMMA DentsStep == ASSUME DentsInv, Dents!Next PROVE DentsInv'
<1>1. CASE Dents!Start \/ Dents!OpenDir
  BY <1>1, DentsStart
<1>2. CASE Dents!GetdentsFails
  BY <1>2, DentsRefused
<1>3. CASE Dents!GetdentsOk
  BY <1>3, DentsAnswered
<1>4. CASE Dents!WriteHeader \/ Dents!WriteLine \/ Dents!Advance
  <2>1. dents_pc \in {"write_header", "write_line", "advance"}
    BY <1>4 DEF Dents!WriteHeader, Dents!WriteLine, Dents!Advance, Dents!Goto
  <2>2. DentsTypes /\ (Refused \/ Nothing \/ Stored)
    BY <2>1 DEF DentsInv, Unread
  <2> QED
    BY <1>4, <2>2, DentsIdle, DentsWalks
<1>5. CASE Dents!CloseFd
  BY <1>5, DentsClose
<1> QED
  BY <1>1, <1>2, <1>3, <1>4, <1>5 DEF Dents!Next

LEMMA DentsStutter == ASSUME DentsInv, UNCHANGED dents_vars PROVE DentsInv'
<1>1. UNCHANGED <<dents_pc, dents_dir, dents_fd, dents_buffer, dents_base, dents_end,
                  dents_ecx, dents_out>>
  BY DEF dents_vars
<1>2. DentsTypes' /\ (Unread => Unread') /\ (Refused => Refused') /\ (Nothing => Nothing')
  BY <1>1 DEF DentsInv, DentsTypes, Unread, Refused, Nothing, Zeroes
<1>3. ASSUME Stored PROVE Stored'
  <2>1. PICK r \in 1 .. Held(dents_dir) : AtRecord(r)
    BY <1>3 DEF Stored
  <2>2. AtRecord(r)'
    BY <1>1, <2>1 DEF AtRecord
  <2> QED
    BY <1>1, <1>3, <2>2 DEF Stored
<1> QED
  BY <1>2, <1>3 DEF DentsInv

LEMMA DentsSafe ==
  ASSUME DentsInv
  PROVE  /\ Dents!TypeOK /\ Dents!LinesAreRecords
         /\ Dents!CompleteIfFits /\ Dents!ErrorNeverExits
<1> DEFINE d == dents_dir
           f == Off(d)
           count == Held(d)
           L == Records(d)
<1>1. DentsTypes /\ d \in Seq(RecLen) /\ DOMAIN dents_buffer = 0 .. Capacity - 1
  BY DEF DentsInv, DentsTypes
<1>2. /\ L \in Nat /\ count \in 0 .. L /\ f[count + 1] <= Capacity
      /\ \A n \in 1 .. L : d[n] \in RecLen
      /\ \A n \in 0 .. L : f[n + 1] <= Capacity => n <= count
      /\ L > 0 => count > 0
      /\ \A j, k \in 1 .. L + 1 : j < k => f[j] < f[k]
      /\ \A k \in 1 .. L + 1 : f[k] \in Nat /\ f[1] = 0
  BY <1>1, DirFacts, HeldFacts
<1>3. Capacity \in Nat \ {0}
  BY ProgramsAssumption DEF Dents!GetdentsAssumption
<1>4. Dents!Offset = f /\ Len(d) = L
  BY SameNames, Zenon DEF Records
<1>5. CASE Unread \/ Refused \/ Nothing
  <2>1. /\ dents_base = 0 /\ dents_ecx = 0 /\ dents_end \in {-1, 0}
        /\ dents_end = -1 => dents_pc # "exit"
    BY <1>5 DEF Unread, Refused, Nothing, Zeroes
  <2>2. Dents!TypeOK
    <3>1. 0 \in 0 .. Capacity - 1 /\ -1 \in -1 .. Capacity /\ 0 \in -1 .. Capacity
      BY <1>3
    <3> QED
      BY <1>1, <2>1, <3>1 DEF Dents!TypeOK, DentsTypes
  <2>3. Dents!LinesAreRecords /\ Dents!ErrorNeverExits
    BY <2>1 DEF Dents!LinesAreRecords, Dents!ErrorNeverExits
  <2>4. Dents!CompleteIfFits
    <3>1. SUFFICES ASSUME dents_pc = "exit" PROVE d = << >>
      BY DEF Dents!CompleteIfFits
    <3>2. count = 0
      BY <1>5, <3>1 DEF Unread, Refused, Nothing
    <3> HIDE DEF count, f
    <3>3. L = 0
      <4> HIDE DEF L
      <4> QED
        BY <1>2, <3>2
    <3>4. Len(d) = 0
      BY <1>4, <3>3
    <3> QED
      BY <1>1, <3>4, EmptySeq
  <2> QED
    BY <2>2, <2>3, <2>4
<1>6. CASE Stored
  <2>1. PICK r \in 1 .. count : AtRecord(r)
    BY <1>6 DEF Stored
  <2>2. /\ dents_end = f[count + 1] /\ dents_ecx \in RecLen \cup {0} /\ dents_base = f[r]
        /\ dents_pc \in {"write_header", "write_line", "advance", "close_fd", "exit"}
    BY <1>6, <2>1 DEF Stored, AtRecord
  <2>3. /\ r \in 1 .. L + 1 /\ count + 1 \in 1 .. L + 1 /\ r < count + 1 /\ r \in Nat
        /\ r - 1 \in Nat /\ r <= L /\ r <= count
    <3> HIDE DEF count, L
    <3> QED
      BY <1>2
  <2>4. f[r] \in 0 .. Capacity - 1 /\ f[count + 1] \in 0 .. Capacity
    <3> HIDE DEF count, L, f
    <3>1. f[r] < f[count + 1] /\ f[r] \in Nat /\ f[count + 1] \in Nat
      BY <1>2, <2>3
    <3> QED
      BY <1>2, <1>3, <3>1
  <2>5. Dents!TypeOK
    <3>1. \A e \in 0 .. Capacity : e \in -1 .. Capacity
      BY <1>3
    <3> QED
      BY <1>1, <2>2, <2>4, <3>1 DEF Dents!TypeOK, DentsTypes
  <2>6. PICK m \in 0 .. r : dents_out = Starts(d, m) /\ (dents_pc = "exit" => m = count)
    <3>1. 0 \in 0 .. r /\ r - 1 \in 0 .. r /\ r \in 0 .. r
      BY <2>3
    <3> QED
      BY <2>1, <2>2, <3>1 DEF AtRecord
  <2>7. m \in Nat /\ m <= L
    <3> HIDE DEF L
    <3> QED
      BY <1>2, <2>3
  <2>8. Len(dents_out) = m
    BY <2>6, <2>7, StartsLen
  <2>9. Dents!LinesAreRecords
    <3>1. dents_out = [n \in 1 .. m |-> f[n]]
      BY <2>6, Zenon DEF Starts
    <3> QED
      BY <1>4, <2>7, <2>8, <3>1, Zenon DEF Dents!LinesAreRecords
  <2>10. Dents!CompleteIfFits
    <3>1. ASSUME dents_pc = "exit" PROVE (m = L) <=> (f[L + 1] <= Capacity)
      <4>1. m = count
        BY <2>6, <3>1
      <4> HIDE DEF L, f, count
      <4>2. ASSUME m = L PROVE f[L + 1] <= Capacity
        BY <1>2, <4>1, <4>2
      <4>3. ASSUME f[L + 1] <= Capacity PROVE m = L
        <5>1. L \in 0 .. L
          BY <1>2
        <5>2. L <= count
          BY <1>2, <4>3, <5>1
        <5> QED
          BY <1>2, <2>7, <4>1, <5>2
      <4> QED
        BY <4>2, <4>3
    <3>2. dents_pc = "exit" => (Len(dents_out) = Len(d)) = (Dents!Offset[Len(d) + 1] <= Capacity)
      <4> HIDE DEF L, f, count
      <4> QED
        BY <1>4, <2>8, <3>1
    <3> QED
      BY <3>2 DEF Dents!CompleteIfFits
  <2>11. Dents!ErrorNeverExits
    <3>1. ~ (dents_end < 0)
      <4>1. \A e \in 0 .. Capacity : ~ (e < 0)
        BY <1>3
      <4> QED
        BY <2>2, <2>4, <4>1, Zenon
    <3> QED
      BY <3>1 DEF Dents!ErrorNeverExits
  <2> QED
    BY <2>5, <2>9, <2>10, <2>11
<1> QED
  BY <1>5, <1>6 DEF DentsInv
-----------------------------------------------------------------------------
(***************************************************************************)
(* Arguments and environment. What has been printed is determined by the   *)
(* slot to be read next. With arguments, loop counts those that are left;  *)
(* without, it counts down from 2^Width, and the program is killed before  *)
(* it comes to zero.                                                       *)
(***************************************************************************)
SlotsBefore(slot) ==
  IF env_bits = 32 THEN [n \in 1 .. slot - 1 |-> n]
  ELSE [n \in 1 .. slot - 2 |-> IF n <= env_argc THEN n ELSE n + 1]

CountsDown ==
  IF env_argc > 0
  THEN /\ env_ptr \in 1 .. env_argc /\ env_rcx = env_argc + 1 - env_ptr
       /\ env_out = [n \in 1 .. env_ptr - 1 |-> n]
  ELSE /\ env_ptr \in 1 .. env_envc + 3
       /\ env_rcx = IF env_ptr = 1 THEN 0 ELSE 2 ^ Width + 1 - env_ptr

\* The program is killed if and only if it has met a word that is no string.
Killed == env_fault = (env_pc = "killed")

EnvTypes ==
  /\ env_pc \in {"start", "print_arg", "args_finished", "print_env", "exit", "killed"}
  /\ env_rcx \in 0 .. 2 ^ Width - 1
  /\ env_ptr \in 0 .. env_argc + 3 + env_envc + AuxWords
  /\ env_bits \in {32, 64}
  /\ env_argc \in 0 .. MaxArgs /\ env_envc \in 0 .. MaxEnv

EnvPlaces ==
  /\ env_pc = "start" => env_out = <<>>
  /\ env_pc = "print_arg" => CountsDown
  /\ env_pc \in {"args_finished", "print_env", "exit"} => env_argc > 0
  /\ env_pc = "args_finished" =>
       env_ptr = env_argc + 1 /\ env_out = [n \in 1 .. env_argc |-> n]
  /\ env_pc = "print_env" => env_ptr \in env_argc + 2 .. env_argc + 2 + env_envc
  /\ env_pc = "exit" => env_ptr = env_argc + 2 + env_envc
  /\ env_pc \in {"print_env", "exit"} => env_out = SlotsBefore(env_ptr)

EnvInv == EnvTypes /\ Killed /\ EnvPlaces

\* A sequence that is one longer.
LEMMA OneMore ==
  ASSUME NEW m \in Nat, NEW s \in [1 .. m -> Int], NEW new \in Int,
         NEW t \in [1 .. m + 1 -> Int], \A n \in 1 .. m : t[n] = s[n], t[m + 1] = new
  PROVE  Append(s, new) = t
<1>1. s \in Seq(Int) /\ Len(s) = m
  BY IsASeq, LenProperties, SMT
<1>2. /\ Append(s, new) \in Seq(Int) /\ Len(Append(s, new)) = m + 1
      /\ \A n \in 1 .. m + 1 : Append(s, new)[n] = IF n <= m THEN s[n] ELSE new
  BY <1>1, AppendProperties, SMT
<1>3. t \in Seq(Int) /\ Len(t) = m + 1
  BY IsASeq, LenProperties, SMT
<1> QED
  BY <1>2, <1>3, SeqEqual

\* Two sequences, one after the other.
LEMMA Joined ==
  ASSUME NEW s \in Seq(Int), NEW t \in Seq(Int), NEW u \in Seq(Int),
         Len(u) = Len(s) + Len(t),
         \A n \in 1 .. Len(s) : u[n] = s[n],
         \A n \in 1 .. Len(t) : u[Len(s) + n] = t[n]
  PROVE  s \o t = u
<1>1. Len(s) \in Nat /\ Len(t) \in Nat
  BY LenProperties
<1>2. /\ s \o t \in Seq(Int) /\ Len(s \o t) = Len(s) + Len(t)
      /\ \A n \in 1 .. Len(s) + Len(t) :
           (s \o t)[n] = IF n <= Len(s) THEN s[n] ELSE t[n - Len(s)]
  BY ConcatProperties
<1>3. ASSUME NEW n \in 1 .. Len(u) PROVE (s \o t)[n] = u[n]
  <2>1. CASE n <= Len(s)
    BY <1>1, <1>2, <2>1
  <2>2. CASE n > Len(s)
    <3>0. n - Len(s) \in 1 .. Len(t) /\ n = Len(s) + (n - Len(s))
      BY <1>1, <2>2
    <3>1. PICK m \in 1 .. Len(t) : m = n - Len(s) /\ n = Len(s) + m
      BY <3>0
    <3>2. (s \o t)[n] = t[m]
      BY <1>1, <1>2, <2>2, <3>1
    <3>3. u[Len(s) + m] = t[m]
      BY <3>1
    <3> QED
      BY <3>1, <3>2, <3>3
  <2> QED
    BY <1>1, <2>1, <2>2
<1> QED
  BY <1>1, <1>2, <1>3, SeqEqual

LEMMA EnvConstants ==
  /\ MaxArgs \in Nat /\ MaxEnv \in Nat /\ AuxWords \in Nat /\ AuxWords > 0
  /\ 2 ^ Width \in Nat /\ MaxArgs + MaxEnv + 2 < 2 ^ Width
  BY ProgramsAssumption DEF Env!EnvAssumption

LEMMA EnvInit == ASSUME Env!Init PROVE EnvInv
<1>1. EnvTypes /\ EnvPlaces
  BY EnvConstants DEF Env!Init, EnvTypes, EnvPlaces
<1>2. env_fault = FALSE /\ env_pc = "start"
  BY DEF Env!Init
<1> QED
  BY <1>1, <1>2, Zenon DEF EnvInv, Killed

\* What printf does with the slot, and to which label the program goes.
LEMMA EnvPrinted ==
  ASSUME env_argc \in Nat, env_envc \in Nat, NEW slot \in Nat, Env!Printf(slot)
  PROVE  /\ env_fault' \in BOOLEAN
         /\ ~ env_fault' <=> slot \in 1 .. env_argc + 2 + env_envc
         /\ ~ env_fault' => env_out' = Append(env_out, slot)
<1>1. slot \in 1 .. env_argc + 2 + env_envc <=> Env!IsString(slot) \/ slot \in Env!NullSlots
  BY DEF Env!IsString, Env!ArgSlots, Env!EnvSlots, Env!NullSlots
<1>2. /\ env_fault' = ~ (Env!IsString(slot) \/ slot \in Env!NullSlots)
      /\ env_out' = IF env_fault' THEN env_out ELSE Append(env_out, slot)
  BY DEF Env!Printf
<1> QED
  BY <1>1, <1>2, Zenon

LEMMA EnvStart == ASSUME EnvInv, Env!Start PROVE EnvInv'
<1> USE EnvConstants DEF EnvInv, EnvTypes, EnvPlaces, Env!Start, Env!Goto
<1>1. env_pc' = "print_arg" /\ env_pc = "start" /\ env_fault' = FALSE
  <2>1. env_pc = "start" /\ UNCHANGED env_fault /\ env_pc' = IF env_fault' THEN "killed" ELSE "print_arg"
    OBVIOUS
  <2>2. env_fault = FALSE
    BY <2>1 DEF Killed
  <2> QED
    BY <2>1, <2>2
<1>2. <<>> = [n \in 1 .. 0 |-> n]
  OBVIOUS
<1>3. Killed'
  BY <1>1, Zenon DEF Killed
<1> QED
  BY <1>1, <1>2, <1>3 DEF CountsDown

LEMMA EnvPrintArg == ASSUME EnvInv, Env!PrintArg PROVE EnvInv'
<1> USE EnvConstants DEF EnvInv, EnvTypes, EnvPlaces
<1>1. /\ env_pc = "print_arg" /\ CountsDown /\ Env!Printf(env_ptr) /\ env_ptr' = env_ptr + 1
      /\ env_rcx' = IF env_rcx = 0 THEN 2 ^ Width - 1 ELSE env_rcx - 1
      /\ UNCHANGED <<env_bits, env_argc, env_envc>>
      /\ env_pc' = IF env_fault' THEN "killed"
                   ELSE IF env_rcx' = 0 THEN "args_finished" ELSE "print_arg"
  BY DEF Env!PrintArg, Env!Goto
<1>2. env_ptr \in Nat
  BY <1>1 DEF CountsDown
<1>3. /\ env_fault' \in BOOLEAN
      /\ ~ env_fault' <=> env_ptr \in 1 .. env_argc + 2 + env_envc
      /\ ~ env_fault' => env_out' = Append(env_out, env_ptr)
  BY <1>1, <1>2, EnvPrinted
<1>4. Killed'
  BY <1>1, <1>3 DEF Killed
<1>5. CASE env_argc > 0
  <2>1. /\ env_ptr \in 1 .. env_argc /\ env_rcx = env_argc + 1 - env_ptr
        /\ env_out = [n \in 1 .. env_ptr - 1 |-> n]
    BY <1>1, <1>5 DEF CountsDown
  <2>2. Append(env_out, env_ptr) = [n \in 1 .. env_ptr |-> n]
    <3> DEFINE m == env_ptr - 1
               longer == [n \in 1 .. m + 1 |-> n]
    <3>1. /\ m \in Nat /\ env_out \in [1 .. m -> Int] /\ longer \in [1 .. m + 1 -> Int]
          /\ longer[m + 1] = env_ptr /\ \A n \in 1 .. m : longer[n] = env_out[n]
      BY <2>1
    <3> HIDE DEF m, longer
    <3>2. Append(env_out, env_ptr) = longer
      BY <3>1, <1>2, OneMore
    <3> QED
      BY <3>2, <1>2 DEF m, longer
  <2>3. ~ env_fault' /\ env_rcx' = env_argc - env_ptr
    BY <2>1, <1>1, <1>3
  <2>4. env_out' = [n \in 1 .. env_ptr |-> n]
    BY <2>3, <2>2, <1>3
  <2>5. CASE env_ptr = env_argc
    BY <2>1, <2>3, <2>4, <2>5, <1>1, <1>4, <1>5
  <2>6. CASE env_ptr < env_argc
    <3>1. CountsDown'
      BY <2>1, <2>3, <2>4, <2>6, <1>1, <1>5 DEF CountsDown
    <3> QED
      BY <3>1, <2>1, <2>3, <2>6, <1>1, <1>4, <1>5
  <2> QED
    BY <2>1, <2>5, <2>6
<1>6. CASE env_argc = 0
  <2>1. /\ env_ptr \in 1 .. env_envc + 3
        /\ env_rcx = IF env_ptr = 1 THEN 0 ELSE 2 ^ Width + 1 - env_ptr
    BY <1>1, <1>6 DEF CountsDown
  <2>2. env_rcx' = 2 ^ Width - env_ptr
    BY <2>1, <1>1, <1>6
  <2>3. CASE env_ptr = env_envc + 3
    BY <2>1, <2>2, <2>3, <1>1, <1>3, <1>4, <1>6
  <2>4. CASE env_ptr < env_envc + 3
    <3>1. env_rcx' # 0 /\ ~ env_fault' /\ env_pc' = "print_arg"
      BY <2>1, <2>2, <2>4, <1>1, <1>3, <1>6
    <3>2. CountsDown'
      BY <3>1, <2>1, <2>2, <2>4, <1>1, <1>6 DEF CountsDown
    <3> QED
      BY <3>1, <3>2, <2>1, <2>2, <2>4, <1>1, <1>4, <1>6
  <2> QED
    BY <2>1, <2>3, <2>4
<1> QED
  BY <1>5, <1>6

LEMMA EnvArgsFinished == ASSUME EnvInv, Env!ArgsFinished PROVE EnvInv'
<1> USE EnvConstants DEF EnvInv, EnvTypes, EnvPlaces
<1>1. /\ env_pc = "args_finished" /\ env_argc > 0 /\ env_ptr = env_argc + 1
      /\ env_out = [n \in 1 .. env_argc |-> n]
      /\ UNCHANGED <<env_bits, env_argc, env_envc, env_rcx>>
      /\ env_pc' = IF env_fault' THEN "killed" ELSE "print_env"
  BY DEF Env!ArgsFinished, Env!Goto
<1>4. ASSUME ~ env_fault', env_fault' \in BOOLEAN PROVE Killed'
  BY <1>1, <1>4 DEF Killed
<1>2. CASE env_bits = 32
  <2>1. env_ptr' = env_argc + 2 /\ Env!Printf(env_argc + 1)
    BY <1>1, <1>2 DEF Env!ArgsFinished
  <2>2. ~ env_fault' /\ env_fault' \in BOOLEAN /\ env_out' = Append(env_out, env_argc + 1)
    BY <2>1, EnvPrinted
  <2>3. Append(env_out, env_argc + 1) = [n \in 1 .. env_argc + 1 |-> n]
    <3> DEFINE longer == [n \in 1 .. env_argc + 1 |-> n]
    <3>1. /\ env_out \in [1 .. env_argc -> Int] /\ longer \in [1 .. env_argc + 1 -> Int]
          /\ longer[env_argc + 1] = env_argc + 1 /\ \A n \in 1 .. env_argc : longer[n] = env_out[n]
      BY <1>1
    <3>2. env_argc \in Nat /\ env_argc + 1 \in Int
      OBVIOUS
    <3> HIDE DEF longer
    <3>3. Append(env_out, env_argc + 1) = longer
      BY <3>1, <3>2, OneMore
    <3> QED
      BY <3>3 DEF longer
  <2>4. SlotsBefore(env_ptr)' = [n \in 1 .. env_argc + 1 |-> n]
    BY <2>1, <1>1, <1>2 DEF SlotsBefore
  <2> QED
    BY <2>1, <2>2, <2>3, <2>4, <1>1, <1>2, <1>4
<1>3. CASE env_bits = 64
  <2>1. env_ptr' = env_argc + 2 /\ UNCHANGED <<env_out, env_fault>>
    BY <1>1, <1>3 DEF Env!ArgsFinished
  <2>2. SlotsBefore(env_ptr)' = [n \in 1 .. env_argc |-> IF n <= env_argc THEN n ELSE n + 1]
    BY <2>1, <1>1, <1>3 DEF SlotsBefore
  <2>3. SlotsBefore(env_ptr)' = env_out'
    BY <2>1, <2>2, <1>1
  <2>4. env_fault' = FALSE
    BY <1>1, <2>1 DEF Killed
  <2>5. Killed' /\ env_pc' = "print_env"
    BY <2>4, <1>1, <1>4
  <2> QED
    BY <2>1, <2>3, <2>5, <1>1, <1>3
<1> QED
  BY <1>2, <1>3

LEMMA EnvPrintEnv == ASSUME EnvInv, Env!PrintEnv PROVE EnvInv'
<1> USE EnvConstants DEF EnvInv, EnvTypes, EnvPlaces
<1>1. /\ env_pc = "print_env" /\ env_argc > 0 /\ env_ptr \in env_argc + 2 .. env_argc + 2 + env_envc
      /\ env_out = SlotsBefore(env_ptr) /\ env_ptr # env_argc + 2 + env_envc
      /\ UNCHANGED <<env_bits, env_argc, env_envc, env_rcx>>
      /\ Env!Printf(env_ptr) /\ env_ptr' = env_ptr + 1
      /\ env_pc' = IF env_fault' THEN "killed" ELSE "print_env"
  BY DEF Env!PrintEnv, Env!Goto, Env!IsNull, Env!NullSlots
<1>2. env_ptr \in Nat /\ env_ptr \in Int
  BY <1>1
<1>3. ~ env_fault' /\ env_fault' \in BOOLEAN /\ env_out' = Append(env_out, env_ptr)
  BY <1>1, <1>2, EnvPrinted
<1>6. Killed'
  BY <1>1, <1>3 DEF Killed
<1>4. Append(env_out, env_ptr) = SlotsBefore(env_ptr + 1)
  <2> DEFINE m == IF env_bits = 32 THEN env_ptr - 1 ELSE env_ptr - 2
             longer == SlotsBefore(env_ptr + 1)
  <2>1. /\ m \in Nat /\ env_out \in [1 .. m -> Int] /\ longer \in [1 .. m + 1 -> Int]
        /\ longer[m + 1] = env_ptr /\ \A n \in 1 .. m : longer[n] = env_out[n]
    BY <1>1, <1>2 DEF SlotsBefore
  <2> HIDE DEF m, longer
  <2>2. Append(env_out, env_ptr) = longer
    BY <2>1, <1>2, OneMore
  <2> QED
    BY <2>2 DEF longer
<1>5. SlotsBefore(env_ptr)' = SlotsBefore(env_ptr + 1)
  BY <1>1 DEF SlotsBefore
<1> QED
  BY <1>1, <1>3, <1>4, <1>5, <1>6

LEMMA EnvStep == ASSUME EnvInv, Env!Next PROVE EnvInv'
<1>1. CASE Env!Exit
  <2>1. /\ env_pc = "print_env" /\ env_pc' = "exit" /\ Env!IsNull(env_ptr)
        /\ UNCHANGED <<env_bits, env_argc, env_envc, env_rcx, env_ptr, env_out, env_fault>>
    <3>1. env_pc = "print_env" /\ UNCHANGED <<env_bits, env_argc, env_envc, env_rcx, env_ptr, env_out, env_fault>>
          /\ Env!IsNull(env_ptr) /\ env_pc' = IF env_fault' THEN "killed" ELSE "exit"
      BY <1>1 DEF Env!Exit, Env!Goto
    <3>2. env_fault = FALSE
      BY <3>1 DEF EnvInv, Killed
    <3> QED
      BY <3>1, <3>2
  <2>3. Killed'
    BY <2>1 DEF EnvInv, Killed
  <2>2. env_ptr = env_argc + 2 + env_envc
    BY <2>1, EnvConstants DEF Env!IsNull, Env!NullSlots, EnvInv, EnvTypes, EnvPlaces
  <2> QED
    BY <2>1, <2>2, <2>3 DEF EnvInv, EnvTypes, EnvPlaces, SlotsBefore
<1> QED
  BY <1>1, EnvStart, EnvPrintArg, EnvArgsFinished, EnvPrintEnv DEF Env!Next

LEMMA EnvStutter == ASSUME EnvInv, UNCHANGED env_vars PROVE EnvInv'
  BY DEF EnvInv, EnvTypes, EnvPlaces, Killed, env_vars, CountsDown, SlotsBefore

LEMMA EnvSafe ==
  ASSUME EnvInv
  PROVE  Env!TypeOK /\ Env!PrintsAll /\ Env!EmptyArgvNeverExits
<1>1. Env!TypeOK /\ Env!EmptyArgvNeverExits
  BY EnvConstants DEF EnvInv, EnvTypes, EnvPlaces, Killed, Env!TypeOK, Env!EmptyArgvNeverExits
<1>2. ASSUME env_pc = "exit"
      PROVE  env_out = [n \in 1 .. env_argc |-> n]
                         \o (IF env_bits = 32 THEN << env_argc + 1 >> ELSE << >>)
                         \o [n \in 1 .. env_envc |-> env_argc + 1 + n]
  <2> DEFINE args  == [n \in 1 .. env_argc |-> n]
             null  == IF env_bits = 32 THEN << env_argc + 1 >> ELSE << >>
             env   == [n \in 1 .. env_envc |-> env_argc + 1 + n]
             k     == IF env_bits = 32 THEN 1 ELSE 0
             front == [n \in 1 .. env_argc + k |-> n]
  <2>1. /\ env_argc \in Nat /\ env_envc \in Nat /\ env_bits \in {32, 64} /\ k \in {0, 1}
        /\ env_out = SlotsBefore(env_argc + 2 + env_envc)
    BY <1>2, EnvConstants DEF EnvInv, EnvTypes, EnvPlaces
  <2>2. args \in Seq(Int) /\ Len(args) = env_argc /\ \A n \in 1 .. env_argc : args[n] = n
    BY <2>1, IsASeq, LenProperties, SMT
  <2>3. /\ env \in Seq(Int) /\ Len(env) = env_envc
        /\ \A n \in 1 .. env_envc : env[n] = env_argc + 1 + n
    BY <2>1, IsASeq, LenProperties, SMT
  <2>4. null \in Seq(Int) /\ Len(null) = k /\ \A n \in 1 .. k : null[n] = env_argc + 1
    BY <2>1
  <2>5. /\ front \in Seq(Int) /\ Len(front) = env_argc + k
        /\ \A n \in 1 .. env_argc + k : front[n] = n
    <3>1. front \in [1 .. env_argc + k -> Int] /\ env_argc + k \in Nat
      BY <2>1
    <3> QED
      BY <3>1, IsASeq, LenProperties
  <2>6. /\ env_out \in Seq(Int) /\ Len(env_out) = env_argc + k + env_envc
        /\ \A n \in 1 .. env_argc + k : env_out[n] = n
        /\ \A n \in 1 .. env_envc : env_out[env_argc + k + n] = env_argc + 1 + n
    <3>1. /\ env_out \in [1 .. env_argc + k + env_envc -> Int]
          /\ \A n \in 1 .. env_argc + k : env_out[n] = n
          /\ \A n \in 1 .. env_envc : env_out[env_argc + k + n] = env_argc + 1 + n
      BY <2>1 DEF SlotsBefore
    <3>2. env_argc + k + env_envc \in Nat
      BY <2>1
    <3> HIDE DEF k
    <3> QED
      BY <3>1, <3>2, IsASeq, LenProperties
  <2> HIDE DEF args, null, env, front, k
  <2>7. args \o null = front
    BY <2>1, <2>2, <2>4, <2>5, Joined
  <2>8. front \o env = env_out
    <3>1. Len(env_out) = Len(front) + Len(env) /\ front \in Seq(Int) /\ env \in Seq(Int)
          /\ env_out \in Seq(Int)
      BY <2>1, <2>3, <2>5, <2>6
    <3>2. \A n \in 1 .. Len(front) : env_out[n] = front[n]
      BY <2>5, <2>6
    <3>3. \A n \in 1 .. Len(env) : env_out[Len(front) + n] = env[n]
      BY <2>3, <2>5, <2>6
    <3> QED
      BY <3>1, <3>2, <3>3, Joined
  <2> QED
    BY <2>7, <2>8 DEF args, null, env
<1> QED
  BY <1>1, <1>2 DEF Env!PrintsAll
-----------------------------------------------------------------------------
(***************************************************************************)
(* Processor identification, program by program: what is on the stack, in  *)
(* the buffer and printed at each label.                                   *)
(***************************************************************************)
EventLines == [n \in 1 .. 7 |->
  <<Cpuid!EventName(n - 1), Cpuid!YesNo(IF n <= 5 THEN n - 1 ELSE 12 - n)>>]
FixedLines == << <<"#fixed fn PMC", Cpuid!Edx % 32>>,
                 <<"FF bit-width", (Cpuid!Edx \div 32) % 256>> >>

Leaf0ah ==
  /\ cpuid_pc \in {"start", "printEvents", "printFixed", "exit"}
  /\ cpuid_fd = -1 /\ cpuid_buf = "undefined"
  /\ cpuid_stack = IF cpuid_pc = "start" THEN << >> ELSE <<Cpuid!YesNo(5), Cpuid!YesNo(6)>>
  /\ cpuid_pc \in {"start", "printEvents"} => cpuid_out = << >>
  /\ cpuid_pc = "printFixed" => cpuid_out = EventLines
  /\ cpuid_pc = "exit" => cpuid_out = EventLines \o FixedLines

\* The fields of EAX are bytes, the first four of them half ones at first.
Bytes5 == {s \in Seq(0 .. 255) : Len(s) = 5}

Family ==
  /\ cpuid_pc \in {"start", "extend", "printFamily", "exit"}
  /\ cpuid_fd = -1 /\ cpuid_buf = "undefined"
  /\ cpuid_pc = "start" => cpuid_stack = << >>
  /\ cpuid_pc # "start" =>
       cpuid_stack \in Bytes5 /\ \A n \in {1, 3, 4} : cpuid_stack[n] <= 15
  /\ cpuid_pc = "extend" => cpuid_stack[2] <= 15
  /\ cpuid_pc # "exit" => cpuid_out = << >>
  /\ cpuid_pc = "exit" => Len(cpuid_out) = 3

Brand ==
  /\ cpuid_pc \in {"start", "puts", "exit"}
  /\ cpuid_fd = -1 /\ cpuid_buf = "undefined"
  /\ cpuid_stack \in Seq(Nat)
  /\ cpuid_pc = "start" => Len(cpuid_stack) <= 2
  /\ cpuid_pc # "start" => Len(cpuid_stack) = 3
  /\ cpuid_pc # "exit" => cpuid_out = << >>
  /\ cpuid_pc = "exit" => Len(cpuid_out) = 1

Avx ==
  /\ cpuid_pc \in {"start", "exit"}
  /\ cpuid_fd = -1 /\ cpuid_buf = "undefined" /\ cpuid_stack = << >>
  /\ cpuid_pc # "exit" => cpuid_out = << >>
  /\ cpuid_pc = "exit" => Len(cpuid_out) = 1

Msr ==
  /\ cpuid_pc \in {"start", "open", "pread", "speed", "exit"}
  /\ cpuid_stack = << >> /\ cpuid_fd \in {-1, 3}
  /\ cpuid_buf \in {"undefined", "path", "0xCE"}
  /\ cpuid_pc # "exit" => cpuid_out = << >>
  /\ cpuid_pc = "exit" =>
       cpuid_out = << <<"MSR hex-Value", cpuid_buf>>,
                      <<"CPU Speed", <<0, Cpuid!Product(Cpuid!Ratio)[2]>> >> >>

Registers == {"0xCE", "IA32_MPERF", "0xE8"}

MsrTest ==
  /\ cpuid_pc \in {"start", "pread", "print", "close", "exit", "failed"}
  /\ cpuid_stack = << >> /\ cpuid_fd \in {-1, 3}
  /\ cpuid_buf \in {"undefined", "0xCE", "IA32_MPERF", "0xE8"}
  /\ cpuid_out \in Seq(Registers \X Registers) /\ Len(cpuid_out) <= 3
  /\ cpuid_pc = "start" => cpuid_out = << >>
  /\ cpuid_pc \in {"pread", "print"} => Len(cpuid_out) <= 2
  /\ cpuid_pc = "print" => cpuid_buf = Cpuid!MsrNumbers[Cpuid!Reg]
  /\ \A n \in DOMAIN cpuid_out : cpuid_out[n][1] = cpuid_out[n][2]

CpuInv ==
  /\ cpuid_prog \in Cpuid!Program /\ cpuid_input \in Cpuid!Input(cpuid_prog)
  /\ cpuid_prog = "leaf0ah" => Leaf0ah
  /\ cpuid_prog = "family" => Family
  /\ cpuid_prog = "brand" => Brand
  /\ cpuid_prog = "avx" => Avx
  /\ cpuid_prog = "msr" => Msr
  /\ cpuid_prog = "msrtest" => MsrTest

\* Any two sequences, one after the other.
LEMMA Concatenated ==
  ASSUME NEW m \in Nat, NEW k \in Nat, NEW s, s = [n \in 1 .. m |-> s[n]],
         NEW t, t = [n \in 1 .. k |-> t[n]]
  PROVE  s \o t = [n \in 1 .. m + k |-> IF n <= m THEN s[n] ELSE t[n - m]]
<1> DEFINE S == {s[n] : n \in 1 .. m} \cup {t[n] : n \in 1 .. k}
           u == [n \in 1 .. m + k |-> IF n <= m THEN s[n] ELSE t[n - m]]
<1>1. s \in [1 .. m -> S] /\ t \in [1 .. k -> S]
  OBVIOUS
<1>2. \A n \in 1 .. m + k : n > m => n - m \in 1 .. k
  OBVIOUS
<1>3. u \in [1 .. m + k -> S] /\ m + k \in Nat
  BY <1>1, <1>2
<1> HIDE DEF S, u
<1>4. /\ s \in Seq(S) /\ t \in Seq(S) /\ u \in Seq(S)
      /\ Len(s) = m /\ Len(t) = k /\ Len(u) = m + k
  BY <1>1, <1>3, IsASeq, LenProperties
<1>5. /\ s \o t \in Seq(S) /\ Len(s \o t) = m + k
      /\ \A n \in 1 .. m + k : (s \o t)[n] = IF n <= m THEN s[n] ELSE t[n - m]
  BY <1>4, ConcatProperties
<1>6. \A n \in 1 .. m + k : (s \o t)[n] = u[n]
  BY <1>5 DEF u
<1>7. s \o t = u
  BY <1>4, <1>5, <1>6, SeqEqual
<1> QED
  BY <1>7 DEF u

\* Nothing, and then a sequence.
LEMMA NothingBefore ==
  ASSUME NEW m \in Nat, NEW t, t = [n \in 1 .. m |-> t[n]]
  PROVE  << >> \o t = t
<1> DEFINE none == << >>
<1>1. none = [n \in 1 .. 0 |-> none[n]]
  OBVIOUS
<1> HIDE DEF none
<1>2. none \o t = [n \in 1 .. 0 + m |-> IF n <= 0 THEN none[n] ELSE t[n - 0]]
  BY <1>1, Concatenated
<1>3. [n \in 1 .. 0 + m |-> IF n <= 0 THEN none[n] ELSE t[n - 0]] = [n \in 1 .. m |-> t[n]]
  OBVIOUS
<1> QED
  BY <1>2, <1>3 DEF none

LEMMA CpuInit == ASSUME Cpuid!Init PROVE CpuInv
<1>1. << >> \in Seq(Nat) /\ Len(<< >>) = 0 /\ << >> \in Seq(Registers \X Registers)
  BY EmptySeq
<1>2. /\ cpuid_prog \in Cpuid!Program /\ cpuid_input \in Cpuid!Input(cpuid_prog)
      /\ cpuid_pc = "start" /\ cpuid_stack = << >> /\ cpuid_fd = -1
      /\ cpuid_buf = "undefined" /\ cpuid_out = << >>
  BY DEF Cpuid!Init
<1> QED
  BY <1>1, <1>2 DEF CpuInv, Leaf0ah, Family, Brand, Avx, Msr, MsrTest

LEMMA Leaf0ahStep ==
  ASSUME Leaf0ah, cpuid_prog = "leaf0ah", UNCHANGED <<cpuid_prog, cpuid_input>>,
         Cpuid!PushBranchFlags \/ Cpuid!PrintEvents \/ Cpuid!PrintFixed
  PROVE  Leaf0ah'
<1>0. /\ \A n : Cpuid!YesNo(n)' = Cpuid!YesNo(n)
      /\ EventLines' = EventLines /\ FixedLines' = FixedLines
  BY DEF Cpuid!YesNo, EventLines, FixedLines, Cpuid!EventName, Cpuid!Edx
<1>1. CASE Cpuid!PushBranchFlags
  BY <1>0, <1>1 DEF Cpuid!PushBranchFlags, Cpuid!Goto, Leaf0ah
<1>2. CASE Cpuid!PrintEvents
  <2> DEFINE first == [n \in 1 .. 5 |-> Cpuid!YesNo(n - 1)]
             last  == Cpuid!Reverse(cpuid_stack)
             shown == first \o last
             lines == [n \in 1 .. 7 |-> <<Cpuid!EventName(n - 1), shown[n]>>]
  <2>1. /\ cpuid_pc = "printEvents" /\ cpuid_pc' = "printFixed" /\ cpuid_out = << >>
        /\ cpuid_stack = <<Cpuid!YesNo(5), Cpuid!YesNo(6)>>
        /\ UNCHANGED <<cpuid_stack, cpuid_fd, cpuid_buf>> /\ cpuid_out' = cpuid_out \o lines
    BY <1>2 DEF Cpuid!PrintEvents, Cpuid!Goto, Leaf0ah
  <2>2. last = [n \in 1 .. 2 |-> Cpuid!YesNo(IF n = 1 THEN 6 ELSE 5)]
    BY <2>1 DEF Cpuid!Reverse
  <2>3. shown = [n \in 1 .. 7 |-> IF n <= 5 THEN first[n] ELSE last[n - 5]]
    <3>1. first = [n \in 1 .. 5 |-> first[n]]
      OBVIOUS
    <3>2. last = [n \in 1 .. 2 |-> last[n]]
      BY <2>2
    <3> HIDE DEF first, last
    <3> QED
      BY <3>1, <3>2, Concatenated
  <2>4. \A n \in 1 .. 7 : shown[n] = Cpuid!YesNo(IF n <= 5 THEN n - 1 ELSE 12 - n)
    BY <2>2, <2>3
  <2>5. lines = EventLines
    BY <2>4 DEF EventLines
  <2>6. << >> \o lines = lines
    <3>1. lines = [n \in 1 .. 7 |-> lines[n]]
      OBVIOUS
    <3> HIDE DEF lines
    <3> QED
      BY <3>1, NothingBefore
  <2> HIDE DEF lines
  <2> QED
    BY <1>0, <2>1, <2>5, <2>6 DEF Leaf0ah
<1>3. CASE Cpuid!PrintFixed
  BY <1>0, <1>3 DEF Cpuid!PrintFixed, Cpuid!Goto, Leaf0ah, FixedLines
<1> QED
  BY <1>1, <1>2, <1>3

LEMMA FamilyStep ==
  ASSUME Family, cpuid_prog = "family", cpuid_input \in Cpuid!Input("family"),
         Cpuid!StoreFields \/ Cpuid!Extend \/ Cpuid!PrintFamily
  PROVE  Family'
<1>1. CASE Cpuid!StoreFields
  <2> DEFINE e == Cpuid!Eax
  <2>0. /\ cpuid_input.stepping \in Int /\ cpuid_input.model \in Int /\ cpuid_input.family \in Int
        /\ cpuid_input.extModel \in Int /\ cpuid_input.extFamily \in Int
    <3>1. Families \subseteq Int /\ ExtFamilies \subseteq Int
      BY ProgramsAssumption DEF Cpuid!CpuAssumption
    <3> QED
      BY <3>1 DEF Cpuid!Input
  <2>1. e \in Int
    BY <2>0 DEF Cpuid!Eax
  <2>2. /\ cpuid_stack' = << e % 16, (e \div 16) % 16, (e \div 256) % 16,
                            (e \div 65536) % 16, (e \div 1048576) % 256 >>
        /\ cpuid_pc = "start" /\ cpuid_pc' = "extend" /\ UNCHANGED <<cpuid_fd, cpuid_buf, cpuid_out>>
    BY <1>1 DEF Cpuid!StoreFields, Cpuid!Goto
  <2> HIDE DEF e
  <2>3. /\ e % 16 \in 0 .. 15 /\ (e \div 16) % 16 \in 0 .. 15 /\ (e \div 256) % 16 \in 0 .. 15
        /\ (e \div 65536) % 16 \in 0 .. 15 /\ (e \div 1048576) % 256 \in 0 .. 255
    BY <2>1
  <2>4. cpuid_stack' \in Bytes5 /\ \A n \in {1, 2, 3, 4} : cpuid_stack'[n] <= 15
    BY <2>2, <2>3 DEF Bytes5
  <2> QED
    BY <2>2, <2>4 DEF Family
<1>2. CASE Cpuid!Extend
  <2>1. /\ cpuid_pc = "extend" /\ cpuid_pc' = "printFamily" /\ UNCHANGED <<cpuid_fd, cpuid_buf, cpuid_out>>
        /\ cpuid_stack \in Bytes5 /\ \A n \in {1, 3, 4} : cpuid_stack[n] <= 15
        /\ cpuid_stack' = IF cpuid_stack[3] \in {6, 15}
                          THEN [cpuid_stack EXCEPT ![2] = (16 * cpuid_stack[4] + cpuid_stack[2]) % 256]
                          ELSE cpuid_stack
    BY <1>2 DEF Cpuid!Extend, Cpuid!Goto, Family
  <2>0. /\ cpuid_stack \in Seq(0 .. 255) /\ Len(cpuid_stack) = 5
        /\ \A n \in 1 .. 5 : cpuid_stack[n] \in 0 .. 255
    BY <2>1, ElementOfSeq DEF Bytes5
  <2>2. ASSUME NEW v \in 0 .. 255
        PROVE  /\ [cpuid_stack EXCEPT ![2] = v] \in Bytes5
               /\ \A n \in {1, 3, 4} : [cpuid_stack EXCEPT ![2] = v][n] = cpuid_stack[n]
    <3> DEFINE Byte == 0 .. 255
               new == [cpuid_stack EXCEPT ![2] = v]
    <3>0. cpuid_stack \in Seq(Byte) /\ v \in Byte /\ 2 \in 1 .. Len(cpuid_stack)
      BY <2>0, <2>2
    <3> HIDE DEF Byte
    <3>00. /\ new \in Seq(Byte) /\ Len(new) = Len(cpuid_stack)
           /\ \A n \in 1 .. Len(cpuid_stack) : new[n] = IF n = 2 THEN v ELSE cpuid_stack[n]
      BY <3>0, ExceptSeq
    <3> HIDE DEF new
    <3>1. /\ new \in Seq(0 .. 255) /\ Len(new) = 5
          /\ \A n \in 1 .. 5 : new[n] = IF n = 2 THEN v ELSE cpuid_stack[n]
      BY <2>0, <3>00 DEF Byte
    <3> HIDE DEF new
    <3>2. new \in Bytes5 /\ \A n \in {1, 3, 4} : new[n] = cpuid_stack[n]
      BY <3>1 DEF Bytes5
    <3> QED
      BY <3>2 DEF new
  <2>3. (16 * cpuid_stack[4] + cpuid_stack[2]) % 256 \in 0 .. 255
    <3>1. PICK u \in 0 .. 255 : u = cpuid_stack[4]
      BY <2>0, 4 \in 1 .. 5
    <3>2. PICK v \in 0 .. 255 : v = cpuid_stack[2]
      BY <2>0, 2 \in 1 .. 5
    <3>3. (16 * u + v) % 256 \in 0 .. 255
      OBVIOUS
    <3> QED
      BY <3>1, <3>2, <3>3
  <2>4. cpuid_stack' \in Bytes5 /\ \A n \in {1, 3, 4} : cpuid_stack'[n] = cpuid_stack[n]
    BY <2>1, <2>2, <2>3
  <2> QED
    BY <2>1, <2>4 DEF Family
<1>3. CASE Cpuid!PrintFamily
  BY <1>3 DEF Cpuid!PrintFamily, Cpuid!Goto, Family
<1> QED
  BY <1>1, <1>2, <1>3

LEMMA BrandStep ==
  ASSUME Brand, cpuid_prog = "brand", cpuid_input \in Cpuid!Input("brand"),
         Cpuid!ReadBrand \/ Cpuid!PutsBrand
  PROVE  Brand'
<1>0. Len(cpuid_stack) \in Nat
  BY LenProperties DEF Brand
<1>1. CASE Cpuid!ReadBrand
  <2> DEFINE leaf == cpuid_input.leaf[4 - Len(cpuid_stack)]
  <2>1. /\ cpuid_pc = "start" /\ cpuid_stack' = <<leaf>> \o cpuid_stack
        /\ cpuid_pc' = IF Len(cpuid_stack) = 2 THEN "puts" ELSE "start"
        /\ UNCHANGED <<cpuid_fd, cpuid_buf, cpuid_out>>
    BY <1>1 DEF Cpuid!ReadBrand, Cpuid!Goto
  <2>2. leaf \in Nat
    BY <1>0, <2>1 DEF Brand, Cpuid!Input
  <2> HIDE DEF leaf
  <2>3. <<leaf>> \in Seq(Nat) /\ Len(<<leaf>>) = 1
    BY <2>2
  <2>4. cpuid_stack' \in Seq(Nat) /\ Len(cpuid_stack') = 1 + Len(cpuid_stack)
    BY <2>1, <2>3, ConcatProperties DEF Brand
  <2>5. Len(cpuid_stack) <= 2 /\ cpuid_out = << >> /\ cpuid_fd = -1 /\ cpuid_buf = "undefined"
    BY <2>1 DEF Brand
  <2>6. CASE Len(cpuid_stack) = 2
    BY <2>1, <2>4, <2>5, <2>6 DEF Brand
  <2>7. CASE Len(cpuid_stack) < 2
    BY <1>0, <2>1, <2>4, <2>5, <2>7 DEF Brand
  <2>8. Len(cpuid_stack) = 2 \/ Len(cpuid_stack) < 2
    <3>1. Len(cpuid_stack) <= 2
      BY <2>5
    <3>2. \A a \in Nat : a <= 2 => a = 2 \/ a < 2
      OBVIOUS
    <3> QED
      BY <1>0, <3>1, <3>2, Zenon
  <2> QED
    BY <2>6, <2>7, <2>8
<1>2. CASE Cpuid!PutsBrand
  BY <1>0, <1>2 DEF Cpuid!PutsBrand, Cpuid!Goto, Cpuid!Say, Brand
<1> QED
  BY <1>1, <1>2

LEMMA AvxStep == ASSUME Avx, cpuid_prog = "avx", Cpuid!PrintAvx PROVE Avx'
  BY DEF Avx, Cpuid!PrintAvx, Cpuid!Goto, Cpuid!Say

LEMMA MsrStep ==
  ASSUME Msr, cpuid_prog = "msr", UNCHANGED <<cpuid_prog, cpuid_input>>,
         Cpuid!BuildPath \/ Cpuid!OpenMsr \/ Cpuid!PreadMsr \/ Cpuid!PrintSpeed
  PROVE  Msr'
<1> USE DEF Msr, Cpuid!Goto
<1>1. CASE Cpuid!BuildPath
  BY <1>1 DEF Cpuid!BuildPath
<1>2. CASE Cpuid!OpenMsr
  BY <1>2 DEF Cpuid!OpenMsr
<1>3. CASE Cpuid!PreadMsr
  BY <1>3 DEF Cpuid!PreadMsr
<1>4. CASE Cpuid!PrintSpeed
  <2>1. /\ cpuid_pc = "speed" /\ cpuid_pc' = "exit" /\ UNCHANGED <<cpuid_stack, cpuid_fd, cpuid_buf>>
        /\ cpuid_out' = << <<"MSR hex-Value", cpuid_buf>>,
                           <<"CPU Speed", <<0, Cpuid!Product(Cpuid!Ratio)[2]>> >> >>
    BY <1>4 DEF Cpuid!PrintSpeed
  <2>2. (Cpuid!Product(Cpuid!Ratio))' = Cpuid!Product(Cpuid!Ratio)
    BY <2>1 DEF Cpuid!Product, Cpuid!Ratio
  <2> QED
    BY <2>1, <2>2
<1> QED
  BY <1>1, <1>2, <1>3, <1>4

LEMMA MsrTestStep ==
  ASSUME MsrTest, cpuid_prog = "msrtest", UNCHANGED <<cpuid_prog, cpuid_input>>,
         Cpuid!OpenTest \/ Cpuid!Pread \/ Cpuid!PrintRegister \/ Cpuid!CloseTest
  PROVE  MsrTest'
<1>0. /\ Len(cpuid_out) \in Nat /\ DOMAIN cpuid_out = 1 .. Len(cpuid_out)
      /\ \A n \in DOMAIN cpuid_out : cpuid_out[n] \in Registers \X Registers
  BY LenProperties, ElementOfSeq DEF MsrTest
<1>00. \A n \in 1 .. 3 : Cpuid!MsrNumbers[n] \in {"0xCE", "IA32_MPERF", "0xE8"}
  BY DEF Cpuid!MsrNumbers
<1>1. CASE Cpuid!OpenTest
  <2>1. /\ cpuid_pc = "start" /\ cpuid_pc' \in {"pread", "failed"} /\ cpuid_fd' \in {3, -1}
        /\ UNCHANGED <<cpuid_stack, cpuid_buf, cpuid_out>>
    BY <1>1 DEF Cpuid!OpenTest, Cpuid!Goto
  <2>2. cpuid_out = << >>
    BY <2>1 DEF MsrTest
  <2>3. Len(cpuid_out) <= 2
    BY <2>2
  <2> QED
    BY <2>1, <2>3 DEF MsrTest
<1>2. CASE Cpuid!Pread
  <2>1. /\ cpuid_pc = "pread" /\ cpuid_pc' \in {"print", "failed"}
        /\ UNCHANGED <<cpuid_stack, cpuid_fd, cpuid_out>> /\ Cpuid!Reg \in 1 .. 3
        /\ cpuid_buf' \in {cpuid_buf, Cpuid!MsrNumbers[Cpuid!Reg]}
        /\ cpuid_pc' = "print" => cpuid_buf' = Cpuid!MsrNumbers[Cpuid!Reg]
        /\ UNCHANGED Cpuid!Reg
    BY <1>0, <1>2 DEF Cpuid!Pread, Cpuid!Goto, Cpuid!Reg, MsrTest
  <2>2. UNCHANGED Cpuid!MsrNumbers
    BY DEF Cpuid!MsrNumbers
  <2>3. cpuid_buf' \in {"undefined", "0xCE", "IA32_MPERF", "0xE8"}
    BY <1>00, <2>1 DEF MsrTest
  <2>4. (cpuid_pc = "print" => cpuid_buf = Cpuid!MsrNumbers[Cpuid!Reg])'
    BY <2>1, <2>2
  <2>5. Len(cpuid_out) <= 2
    BY <2>1 DEF MsrTest
  <2> QED
    BY <2>1, <2>3, <2>4, <2>5 DEF MsrTest
<1>3. CASE Cpuid!PrintRegister
  <2> DEFINE name == Cpuid!MsrNumbers[Cpuid!Reg]
  <2>1. /\ cpuid_pc = "print" /\ cpuid_pc' = IF Len(cpuid_out) = 2 THEN "close" ELSE "pread"
        /\ UNCHANGED <<cpuid_stack, cpuid_fd, cpuid_buf>> /\ cpuid_buf = name
        /\ cpuid_out' = Append(cpuid_out, <<name, cpuid_buf>>)
        /\ cpuid_out \in Seq(Registers \X Registers) /\ Len(cpuid_out) <= 2
    BY <1>3 DEF Cpuid!PrintRegister, Cpuid!Goto, Cpuid!Say, MsrTest
  <2>2. <<name, cpuid_buf>> \in Registers \X Registers
    <3>1. Cpuid!Reg \in 1 .. 3
      BY <1>0, <2>1 DEF Cpuid!Reg
    <3>2. name \in {"0xCE", "IA32_MPERF", "0xE8"} /\ cpuid_buf = name
      BY <1>00, <2>1, <3>1
    <3> HIDE DEF name
    <3>3. name \in Registers
      BY <3>2 DEF Registers
    <3> QED
      BY <3>2, <3>3, Zenon
  <2>3. /\ cpuid_out' \in Seq(Registers \X Registers) /\ Len(cpuid_out') = Len(cpuid_out) + 1
        /\ \A n \in 1 .. Len(cpuid_out) : cpuid_out'[n] = cpuid_out[n]
        /\ cpuid_out'[Len(cpuid_out) + 1] = <<name, cpuid_buf>>
    BY <1>0, <2>1, <2>2, AppendProperties
  <2> HIDE DEF name
  <2>4. \A n \in DOMAIN cpuid_out' : cpuid_out'[n][1] = cpuid_out'[n][2]
    <3>1. DOMAIN cpuid_out' = 1 .. Len(cpuid_out) + 1
      BY <2>3, LenProperties
    <3>2. ASSUME NEW n \in 1 .. Len(cpuid_out) + 1 PROVE cpuid_out'[n][1] = cpuid_out'[n][2]
      <4>1. CASE n <= Len(cpuid_out)
        <5>1. n \in 1 .. Len(cpuid_out)
          BY <1>0, <4>1
        <5>2. cpuid_out[n][1] = cpuid_out[n][2]
          BY <1>0, <5>1 DEF MsrTest
        <5> QED
          BY <2>3, <5>1, <5>2
      <4>2. CASE n = Len(cpuid_out) + 1
        BY <2>1, <2>3, <4>2
      <4> QED
        BY <1>0, <4>1, <4>2
    <3> QED
      BY <3>1, <3>2
  <2>5. CASE Len(cpuid_out) = 2
    BY <2>1, <2>3, <2>4, <2>5 DEF MsrTest
  <2>6. CASE Len(cpuid_out) < 2
    BY <1>0, <2>1, <2>3, <2>4, <2>6 DEF MsrTest
  <2> QED
    BY <1>0, <2>1, <2>5, <2>6
<1>4. CASE Cpuid!CloseTest
  <2>1. /\ cpuid_pc = "close" /\ cpuid_pc' = "exit" /\ cpuid_fd' = -1
        /\ UNCHANGED <<cpuid_stack, cpuid_buf, cpuid_out>>
    BY <1>4 DEF Cpuid!CloseTest, Cpuid!Goto
  <2> QED
    BY <2>1 DEF MsrTest
<1> QED
  BY <1>1, <1>2, <1>3, <1>4

LEMMA CpuStep == ASSUME CpuInv, Cpuid!Next PROVE CpuInv'
<1>1. UNCHANGED <<cpuid_prog, cpuid_input>>
  <2>1. Cpuid!PushBranchFlags \/ Cpuid!PrintEvents \/ Cpuid!PrintFixed
          => UNCHANGED <<cpuid_prog, cpuid_input>>
    BY DEF Cpuid!PushBranchFlags, Cpuid!PrintEvents, Cpuid!PrintFixed
  <2>2. Cpuid!StoreFields => UNCHANGED <<cpuid_prog, cpuid_input>>
    BY SMT DEF Cpuid!StoreFields
  <2>3. Cpuid!Extend \/ Cpuid!PrintFamily => UNCHANGED <<cpuid_prog, cpuid_input>>
    BY Zenon DEF Cpuid!Extend, Cpuid!PrintFamily
  <2>4. Cpuid!PrintAvx \/ Cpuid!ReadBrand \/ Cpuid!PutsBrand
          => UNCHANGED <<cpuid_prog, cpuid_input>>
    BY Zenon DEF Cpuid!PrintAvx, Cpuid!ReadBrand, Cpuid!PutsBrand
  <2>5. Cpuid!BuildPath \/ Cpuid!OpenMsr \/ Cpuid!PreadMsr \/ Cpuid!PrintSpeed
          => UNCHANGED <<cpuid_prog, cpuid_input>>
    BY Zenon DEF Cpuid!BuildPath, Cpuid!OpenMsr, Cpuid!PreadMsr, Cpuid!PrintSpeed
  <2>6. Cpuid!OpenTest \/ Cpuid!Pread \/ Cpuid!PrintRegister \/ Cpuid!CloseTest
          => UNCHANGED <<cpuid_prog, cpuid_input>>
    BY Zenon DEF Cpuid!OpenTest, Cpuid!Pread, Cpuid!PrintRegister, Cpuid!CloseTest
  <2> QED
    BY <2>1, <2>2, <2>3, <2>4, <2>5, <2>6, Zenon DEF Cpuid!Next
<1>2. cpuid_prog' \in Cpuid!Program /\ (cpuid_input \in Cpuid!Input(cpuid_prog))'
  BY <1>1 DEF CpuInv, Cpuid!Input
<1>3. CASE Cpuid!PushBranchFlags \/ Cpuid!PrintEvents \/ Cpuid!PrintFixed
  <2>1. cpuid_prog = "leaf0ah"
    BY <1>3 DEF Cpuid!PushBranchFlags, Cpuid!PrintEvents, Cpuid!PrintFixed, Cpuid!Goto
  <2> QED
    BY <1>1, <1>2, <1>3, <2>1, Leaf0ahStep DEF CpuInv
<1>4. CASE Cpuid!StoreFields \/ Cpuid!Extend \/ Cpuid!PrintFamily
  <2>1. cpuid_prog = "family"
    <3>1. Cpuid!StoreFields => cpuid_prog = "family"
      BY SMT DEF Cpuid!StoreFields, Cpuid!Goto
    <3>2. Cpuid!Extend \/ Cpuid!PrintFamily => cpuid_prog = "family"
      BY Zenon DEF Cpuid!Extend, Cpuid!PrintFamily, Cpuid!Goto
    <3> QED
      BY <1>4, <3>1, <3>2
  <2> QED
    BY <1>1, <1>2, <1>4, <2>1, FamilyStep DEF CpuInv
<1>5. CASE Cpuid!ReadBrand \/ Cpuid!PutsBrand
  <2>1. cpuid_prog = "brand"
    BY <1>5 DEF Cpuid!ReadBrand, Cpuid!PutsBrand, Cpuid!Goto
  <2> QED
    BY <1>1, <1>2, <1>5, <2>1, BrandStep DEF CpuInv
<1>6. CASE Cpuid!PrintAvx
  <2>1. cpuid_prog = "avx"
    BY <1>6 DEF Cpuid!PrintAvx, Cpuid!Goto
  <2> QED
    BY <1>1, <1>2, <1>6, <2>1, AvxStep DEF CpuInv
<1>7. CASE Cpuid!BuildPath \/ Cpuid!OpenMsr \/ Cpuid!PreadMsr \/ Cpuid!PrintSpeed
  <2>1. cpuid_prog = "msr"
    BY <1>7 DEF Cpuid!BuildPath, Cpuid!OpenMsr, Cpuid!PreadMsr, Cpuid!PrintSpeed, Cpuid!Goto
  <2> QED
    BY <1>1, <1>2, <1>7, <2>1, MsrStep DEF CpuInv
<1>8. CASE Cpuid!OpenTest \/ Cpuid!Pread \/ Cpuid!PrintRegister \/ Cpuid!CloseTest
  <2>1. cpuid_prog = "msrtest"
    BY <1>8 DEF Cpuid!OpenTest, Cpuid!Pread, Cpuid!PrintRegister, Cpuid!CloseTest, Cpuid!Goto
  <2> QED
    BY <1>1, <1>2, <1>8, <2>1, MsrTestStep DEF CpuInv
<1> QED
  BY <1>3, <1>4, <1>5, <1>6, <1>7, <1>8 DEF Cpuid!Next

LEMMA CpuStutter == ASSUME CpuInv, UNCHANGED cpuid_vars PROVE CpuInv'
<1>1. UNCHANGED <<cpuid_prog, cpuid_pc, cpuid_input, cpuid_stack, cpuid_fd, cpuid_buf, cpuid_out>>
  BY DEF cpuid_vars
<1>2. (cpuid_input \in Cpuid!Input(cpuid_prog))'
  BY <1>1 DEF CpuInv, Cpuid!Input
<1>3. Leaf0ah => Leaf0ah'
  BY <1>1 DEF Leaf0ah, EventLines, FixedLines, Cpuid!EventName, Cpuid!YesNo, Cpuid!Edx
<1>4. (Family => Family') /\ (Brand => Brand') /\ (Avx => Avx')
  BY <1>1 DEF Family, Brand, Avx, Bytes5
<1>5. Msr => Msr'
  BY <1>1 DEF Msr, Cpuid!Product, Cpuid!Ratio
<1>6. MsrTest => MsrTest'
  BY <1>1 DEF MsrTest, Cpuid!MsrNumbers, Cpuid!Reg
<1> QED
  BY <1>1, <1>2, <1>3, <1>4, <1>5, <1>6 DEF CpuInv

\* A product with a ratio of 42 at most stays below 2^32.
LEMMA SmallProduct ==
  ASSUME NEW r \in Nat, r <= 42
  PROVE  Cpuid!Product(r)[2] = Cpuid!BusClock * r
<1>1. Cpuid!Product(r)[2] = (Cpuid!BusClock * r) % Cpuid!Units
  BY SMT DEF Cpuid!Product
<1>2. (Cpuid!BusClock * r) % Cpuid!Units = Cpuid!BusClock * r
  BY SMT DEF Cpuid!BusClock, Cpuid!Units
<1> QED
  BY <1>1, <1>2, SMT

\* The lengths that the stack and the lines may have.
LEMMA SmallNumbers ==
  /\ \A a \in {0, 5} : a <= 5
  /\ \A a \in {0, 2, 3} : a <= 9
  /\ \A a \in {0, 3} : a <= 9
BY SMT

LEMMA CpuSafe ==
  ASSUME CpuInv
  PROVE  /\ Cpuid!TypeOK /\ Cpuid!RegisterLinesShowTheirEvent
         /\ Cpuid!LinesAreFresh /\ Cpuid!SpeedIsRatioTo42
<1>1. CASE cpuid_prog = "leaf0ah"
  <2>1. Leaf0ah /\ cpuid_input \in Cpuid!Input("leaf0ah")
    BY <1>1 DEF CpuInv
  <2>2. FixedLines = [n \in 1 .. 2 |-> FixedLines[n]] /\ EventLines = [n \in 1 .. 7 |-> EventLines[n]]
    BY DEF FixedLines, EventLines
  <2>3. EventLines \o FixedLines =
          [n \in 1 .. 7 + 2 |-> IF n <= 7 THEN EventLines[n] ELSE FixedLines[n - 7]]
    BY <2>2, Concatenated
  <2>4. \A n \in 0 .. 6 :
          EventLines[n + 1] =
            <<Cpuid!EventName(n), IF (IF n < 5 THEN n ELSE 11 - n) \in cpuid_input.ebx THEN "no" ELSE "yes">>
    <3>1. ASSUME NEW n \in 0 .. 6
          PROVE  EventLines[n + 1] = <<Cpuid!EventName(n), Cpuid!YesNo(IF n < 5 THEN n ELSE 11 - n)>>
      <4>1. n + 1 \in 1 .. 7 /\ (n + 1) - 1 = n /\ 12 - (n + 1) = 11 - n /\ (n + 1 <= 5 <=> n < 5)
        OBVIOUS
      <4> QED
        BY <4>1 DEF EventLines
    <3> QED
      BY <3>1 DEF Cpuid!YesNo
  <2>5. FixedLines[1][2] = cpuid_input.fixed /\ FixedLines[2][2] = cpuid_input.bits
    <3>1. cpuid_input.fixed \in {0, 3, 31} /\ cpuid_input.bits \in {40, 48}
      BY <2>1 DEF Cpuid!Input
    <3>2. Cpuid!Edx % 32 = cpuid_input.fixed /\ (Cpuid!Edx \div 32) % 256 = cpuid_input.bits
      BY <3>1 DEF Cpuid!Edx
    <3> QED
      BY <3>2 DEF FixedLines
  <2>6. Cpuid!RegisterLinesShowTheirEvent
    <3>1. ASSUME cpuid_pc = "exit" PROVE cpuid_out = EventLines \o FixedLines
      BY <2>1, <3>1 DEF Leaf0ah
    <3>2. ASSUME cpuid_pc = "exit", NEW n \in 0 .. 6 PROVE cpuid_out[n + 1] = EventLines[n + 1]
      BY <2>3, <3>1, <3>2
    <3>3. ASSUME cpuid_pc = "exit"
          PROVE  cpuid_out[8] = FixedLines[1] /\ cpuid_out[9] = FixedLines[2]
      BY <2>3, <3>1, <3>3
    <3> QED
      BY <2>4, <2>5, <3>2, <3>3 DEF Cpuid!RegisterLinesShowTheirEvent, Cpuid!Done
  <2>7. Len(cpuid_stack) <= 5 /\ Len(cpuid_out) <= 9
    <3>1. Len(EventLines) = 7
      BY <2>2
    <3>3. Len(EventLines \o FixedLines) = 9
      <4> DEFINE both == EventLines \o FixedLines
      <4>1. both = [n \in 1 .. 9 |-> both[n]]
        BY <2>3
      <4> HIDE DEF both
      <4>2. Len(both) = 9
        BY <4>1
      <4> QED
        BY <4>2 DEF both
    <3>2. Len(cpuid_stack) <= 5
      BY <2>1 DEF Leaf0ah
    <3> QED
      BY <2>1, <3>1, <3>2, <3>3 DEF Leaf0ah
  <2> QED
    BY <1>1, <2>1, <2>6, <2>7
    DEF Cpuid!TypeOK, Leaf0ah, Cpuid!LinesAreFresh, Cpuid!SpeedIsRatioTo42, Cpuid!Done
<1>2. CASE cpuid_prog = "family"
  <2>1. Family /\ cpuid_input \in Cpuid!Input("family")
    BY <1>2 DEF CpuInv
  <2>2. ASSUME NEW n \in DOMAIN cpuid_stack
        PROVE  cpuid_stack[n] \in 0 .. (IF n \in {2, 5} THEN 255 ELSE 15)
    <3>1. cpuid_stack \in Bytes5 /\ \A k \in {1, 3, 4} : cpuid_stack[k] <= 15
      BY <2>1, <2>2 DEF Family
    <3>3. cpuid_stack \in Seq(0 .. 255) /\ Len(cpuid_stack) = 5
      BY <3>1 DEF Bytes5
    <3>4. n \in 1 .. 5
      BY <2>2, <3>3, LenProperties
    <3>2. cpuid_stack[n] \in 0 .. 255
      BY <3>3, <3>4, ElementOfSeq
    <3> QED
      BY <3>1, <3>2, <3>4
  <2>3. Len(cpuid_stack) <= 5 /\ Len(cpuid_out) <= 9
    <3>1. Len(<< >>) = 0
      BY EmptySeq
    <3>2. Len(cpuid_stack) \in {0, 5}
      BY <2>1, <3>1, Zenon DEF Family, Bytes5
    <3>3. Len(cpuid_out) \in {0, 3}
      BY <2>1, <3>1, Zenon DEF Family
    <3> QED
      BY <3>2, <3>3, SmallNumbers, Zenon
  <2> QED
    BY <1>2, <2>1, <2>2, <2>3
    DEF Cpuid!TypeOK, Family, Cpuid!LinesAreFresh, Cpuid!SpeedIsRatioTo42, Cpuid!Done,
        Cpuid!RegisterLinesShowTheirEvent
<1>3. CASE cpuid_prog \in {"brand", "avx"}
  <2>0. Len(<< >>) = 0
    BY EmptySeq
  <2>1. /\ cpuid_fd = -1 /\ cpuid_buf = "undefined" /\ Len(cpuid_stack) <= 5 /\ Len(cpuid_out) <= 9
    <3>1. CASE cpuid_prog = "brand"
      <4>1. /\ cpuid_fd = -1 /\ cpuid_buf = "undefined"
            /\ Len(cpuid_stack) <= 2 \/ Len(cpuid_stack) = 3
            /\ cpuid_out = << >> \/ Len(cpuid_out) = 1
        BY <3>1 DEF CpuInv, Brand
      <4>2. Len(cpuid_stack) \in Nat
        BY <3>1, LenProperties DEF CpuInv, Brand
      <4>3. \A a \in Nat : a <= 2 \/ a = 3 => a <= 5
        OBVIOUS
      <4>4. Len(cpuid_stack) <= 5
        BY <4>1, <4>2, <4>3, Zenon
      <4> QED
        BY <2>0, <4>1, <4>4
    <3>2. CASE cpuid_prog = "avx"
      BY <2>0, <3>2 DEF CpuInv, Avx
    <3> QED
      BY <1>3, <3>1, <3>2
  <2> QED
    BY <1>3, <2>1
    DEF CpuInv, Cpuid!TypeOK, Cpuid!LinesAreFresh, Cpuid!SpeedIsRatioTo42, Cpuid!Done,
        Cpuid!RegisterLinesShowTheirEvent
<1>4. CASE cpuid_prog = "msr"
  <2>1. Msr /\ cpuid_input \in Cpuid!Input("msr")
    BY <1>4 DEF CpuInv
  <2>2. Cpuid!SpeedIsRatioTo42
    <3>1. cpuid_input.ratio \in Nat
      <4>1. cpuid_input.ratio \in Ratios
        BY <2>1 DEF Cpuid!Input
      <4>2. Ratios \subseteq 0 .. 255
        BY ProgramsAssumption DEF Cpuid!CpuAssumption
      <4>3. \A a \in 0 .. 255 : a \in Nat
        OBVIOUS
      <4> QED
        BY <4>1, <4>2, <4>3, Zenon
    <3>2. ASSUME cpuid_pc = "exit", cpuid_buf = "0xCE", cpuid_input.ratio <= 42
          PROVE  Cpuid!BusClock * cpuid_input.ratio
                   = Cpuid!Units * cpuid_out[2][2][1] + cpuid_out[2][2][2]
      <4>1. Cpuid!Ratio = cpuid_input.ratio
        BY <3>2 DEF Cpuid!Ratio
      <4>2. Cpuid!Product(cpuid_input.ratio)[2] = Cpuid!BusClock * cpuid_input.ratio
        BY <3>1, <3>2, SmallProduct
      <4>3. /\ cpuid_out[2][2][1] = 0
            /\ cpuid_out[2][2][2] = Cpuid!BusClock * cpuid_input.ratio
        <5> DEFINE speed == Cpuid!Product(cpuid_input.ratio)[2]
        <5> HIDE DEF speed
        <5>1. cpuid_out = << <<"MSR hex-Value", cpuid_buf>>, <<"CPU Speed", <<0, speed>> >> >>
          BY <2>1, <3>2, <4>1 DEF Msr, speed
        <5>2. speed = Cpuid!BusClock * cpuid_input.ratio
          BY <4>2 DEF speed
        <5> QED
          BY <5>1, <5>2
      <4>4. \A a \in Nat : Cpuid!BusClock * a = Cpuid!Units * 0 + Cpuid!BusClock * a
        BY SMT DEF Cpuid!BusClock, Cpuid!Units
      <4> QED
        BY <3>1, <4>3, <4>4
    <3> QED
      BY <3>2 DEF Cpuid!SpeedIsRatioTo42, Cpuid!Done
  <2>3. Len(cpuid_stack) <= 5 /\ Len(cpuid_out) <= 9
    <3>1. Len(<< >>) = 0
      BY EmptySeq
    <3>2. \A a, b : Len(<<a, b>>) = 2
      OBVIOUS
    <3>3. Len(cpuid_stack) \in {0, 5}
      BY <2>1, <3>1, Zenon DEF Msr
    <3>4. cpuid_pc # "exit" => Len(cpuid_out) \in {0, 2, 3}
      BY <2>1, <3>1, Zenon DEF Msr
    <3>5. cpuid_pc = "exit" => Len(cpuid_out) \in {0, 2, 3}
      BY <2>1, <3>2, Zenon DEF Msr
    <3> QED
      BY <3>3, <3>4, <3>5, SmallNumbers, Zenon
  <2>4. "0xCE" \in Cpuid!Range(Cpuid!MsrNumbers)
    BY DEF Cpuid!Range, Cpuid!MsrNumbers
  <2> QED
    BY <1>4, <2>1, <2>2, <2>3, <2>4
    DEF Cpuid!TypeOK, Msr, Cpuid!LinesAreFresh, Cpuid!RegisterLinesShowTheirEvent, Cpuid!Done
<1>5. CASE cpuid_prog = "msrtest"
  <2>1. MsrTest /\ cpuid_input \in Cpuid!Input("msrtest")
    BY <1>5 DEF CpuInv
  <2>2. {"0xCE", "IA32_MPERF", "0xE8"} \subseteq Cpuid!Range(Cpuid!MsrNumbers)
    BY DEF Cpuid!Range, Cpuid!MsrNumbers
  <2>3. Len(cpuid_stack) <= 5 /\ Len(cpuid_out) <= 9
    BY <2>1, LenProperties DEF MsrTest
  <2> QED
    BY <1>5, <2>1, <2>2, <2>3
    DEF Cpuid!TypeOK, MsrTest, Cpuid!LinesAreFresh, Cpuid!RegisterLinesShowTheirEvent,
        Cpuid!SpeedIsRatioTo42, Cpuid!Done
<1> QED
  BY <1>1, <1>2, <1>3, <1>4, <1>5 DEF CpuInv, Cpuid!Program
-----------------------------------------------------------------------------
(***************************************************************************)
(* The dump of the mappings. What has been printed and dumped is           *)
(* determined by the line to be read next: the lines of maps, and after    *)
(* them the last once more, without its path.                              *)
(***************************************************************************)
Mapped(m) == Len(m)   \* the lines of maps
Shown(m, n) == IF n <= Mapped(m) THEN m[n] ELSE [range |-> m[Mapped(m)].range, path |-> ""]
ShownRange(m, n) == Shown(m, n).range
ShownPath(m, n) == Shown(m, n).path
Lines(m, k) == [n \in 1 .. k |-> Shown(m, n)]
Ranges(m, k) == [n \in 1 .. k |-> ShownRange(m, n)]

Line == [range : Mappings, path : Maps!Paths]

MapsTypes ==
  /\ maps_pc \in {"open", "scan", "print", "dump", "return", "exit"}
  /\ maps_maps \in Seq(Line) /\ Mapped(maps_maps) \in Nat \ {0}
  /\ maps_maps[1].path = "path"
  /\ maps_pos \in 1 .. Mapped(maps_maps) + 2
  /\ maps_range \in Mappings \cup {Maps!Unset} /\ maps_binPath \in Maps!Paths \cup {Maps!Unset}
  /\ maps_res \in {"five", "six", Maps!EOF, Maps!Unset}

MapsPlaces ==
  /\ maps_pc # "return" => maps_pos <= Mapped(maps_maps) + 1
  /\ maps_pc = "return" => maps_pos = Mapped(maps_maps) + 2
  /\ maps_pc = "open" => maps_pos = 1
  /\ maps_pc \in {"open", "scan"} => maps_binPath = IF maps_pos = 1 THEN Maps!Unset ELSE ""
  /\ maps_pc = "scan" /\ maps_pos > 1 => maps_range = ShownRange(maps_maps, maps_pos - 1)
  /\ maps_pc \in {"print", "dump"} => maps_range = ShownRange(maps_maps, maps_pos)
  /\ maps_pc = "print" => maps_binPath = ShownPath(maps_maps, maps_pos)

MapsHistory ==
  /\ maps_printed \in {Lines(maps_maps, maps_pos - 1), Lines(maps_maps, maps_pos)}
  /\ maps_pc = "dump" => maps_printed = Lines(maps_maps, maps_pos)
  /\ maps_pc \notin {"dump", "exit"} => maps_printed = Lines(maps_maps, maps_pos - 1)
  /\ maps_dumped = Ranges(maps_maps, maps_pos - 1)

MapsInv == MapsTypes /\ MapsPlaces /\ MapsHistory

LEMMA MapsInit == ASSUME Maps!Init PROVE MapsInv
<1>1. PICK m \in 1 .. MaxLines : maps_maps \in [1 .. m -> Line]
  BY DEF Maps!Init, Line, Maps!Paths
<1>2. m \in Nat \ {0}
  BY ProgramsAssumption DEF Maps!MapsAssumption
<1>3. maps_maps \in Seq(Line) /\ Len(maps_maps) = m
  BY <1>1, <1>2, IsASeq, LenProperties
<1>4. MapsTypes
  BY <1>2, <1>3 DEF Maps!Init, MapsTypes, Mapped
<1>5. Lines(maps_maps, 0) = << >> /\ Ranges(maps_maps, 0) = << >>
  BY DEF Lines, Ranges
<1>6. maps_pos - 1 = 0
  BY DEF Maps!Init
<1> QED
  BY <1>2, <1>3, <1>4, <1>5, <1>6 DEF Maps!Init, MapsInv, MapsPlaces, MapsHistory, Mapped

\* The line after those that are shown.
LEMMA ShownNext ==
  ASSUME NEW m, NEW k \in Nat
  PROVE  /\ Append(Lines(m, k), Shown(m, k + 1)) = Lines(m, k + 1)
         /\ Append(Ranges(m, k), ShownRange(m, k + 1)) = Ranges(m, k + 1)
<1>1. k + 1 \in 1 .. k + 1 /\ 1 .. k \subseteq 1 .. k + 1
  OBVIOUS
<1>2. /\ Lines(m, k) = [n \in 1 .. k |-> Lines(m, k)[n]]
      /\ Lines(m, k + 1) = [n \in 1 .. k + 1 |-> Lines(m, k + 1)[n]]
      /\ \A n \in 1 .. k : Lines(m, k + 1)[n] = Lines(m, k)[n]
      /\ Lines(m, k + 1)[k + 1] = Shown(m, k + 1)
  BY <1>1 DEF Lines
<1>3. /\ Ranges(m, k) = [n \in 1 .. k |-> Ranges(m, k)[n]]
      /\ Ranges(m, k + 1) = [n \in 1 .. k + 1 |-> Ranges(m, k + 1)[n]]
      /\ \A n \in 1 .. k : Ranges(m, k + 1)[n] = Ranges(m, k)[n]
      /\ Ranges(m, k + 1)[k + 1] = ShownRange(m, k + 1)
  BY <1>1 DEF Ranges
<1>4. Append(Lines(m, k), Lines(m, k + 1)[k + 1]) = Lines(m, k + 1)
  BY <1>2, Longer
<1>5. Append(Ranges(m, k), Ranges(m, k + 1)[k + 1]) = Ranges(m, k + 1)
  BY <1>3, Longer
<1> QED
  BY <1>2, <1>3, <1>4, <1>5

\* The fields of a line.
LEMMA Fields ==
  ASSUME NEW a, NEW b, NEW r, r = [range |-> a, path |-> b]
  PROVE  r.range = a /\ r.path = b
OBVIOUS

\* The number of the line after line k, of m lines.
LEMMA NextLine ==
  ASSUME NEW k \in Nat \ {0}, NEW m \in Nat \ {0}, k <= m + 1
  PROVE  /\ k + 1 \in 1 .. m + 2 /\ k + 1 - 1 = k /\ k + 1 # 1 /\ k - 1 + 1 = k
         /\ ~ (k <= m) => k > m /\ k + 1 = m + 2 /\ k + 1 # 1
         /\ k <= m => ~ (k > m) /\ k + 1 <= m + 1
OBVIOUS

LEMMA MapsStep == ASSUME MapsInv, Maps!Next PROVE MapsInv'
<1> USE DEF Maps!Goto
<1> DEFINE top == Mapped(maps_maps)
<1>00. MapsTypes /\ MapsPlaces /\ MapsHistory /\ UNCHANGED maps_maps
  BY Zenon DEF MapsInv, Maps!Next, Maps!Open, Maps!Scan, Maps!PrintLine, Maps!Dump
<1>0. /\ MapsTypes /\ MapsPlaces /\ MapsHistory /\ UNCHANGED maps_maps
      /\ maps_maps \in Seq(Line) /\ Len(maps_maps) = top /\ top \in Nat \ {0}
      /\ maps_pos \in Nat \ {0} /\ maps_pos - 1 \in Nat
  <2>1. /\ maps_maps \in Seq(Line) /\ Mapped(maps_maps) \in Nat \ {0}
        /\ maps_pos \in 1 .. Mapped(maps_maps) + 2
    BY <1>00 DEF MapsTypes
  <2>2. Len(maps_maps) = top
    BY Zenon DEF Mapped
  <2> QED
    BY <1>00, <2>1, <2>2
<1>1. CASE Maps!Open
  <2>1. /\ maps_pc = "open" /\ maps_pc' \in {"scan", "exit"}
        /\ UNCHANGED <<maps_pos, maps_range, maps_binPath, maps_res, maps_printed, maps_dumped>>
    BY <1>1 DEF Maps!Open
  <2>2. MapsTypes'
    BY <1>0, <2>1 DEF MapsTypes
  <2>3. MapsPlaces'
    BY <1>0, <2>1, SMT DEF MapsPlaces
  <2>4. MapsHistory'
    BY <1>0, <2>1 DEF MapsHistory
  <2> QED
    BY <2>2, <2>3, <2>4 DEF MapsInv
<1>2. CASE Maps!Scan
  <2>1. /\ maps_pc = "scan" /\ maps_pc' = "print" /\ UNCHANGED <<maps_pos, maps_printed, maps_dumped>>
        /\ maps_pos <= top + 1
    BY <1>0, <1>2 DEF Maps!Scan, MapsPlaces
  <2>2. CASE maps_pos <= top
    <3>1. /\ maps_range' = maps_maps[maps_pos].range
          /\ maps_binPath' = IF maps_maps[maps_pos].path = "" THEN maps_binPath ELSE maps_maps[maps_pos].path
          /\ maps_res' \in {"five", "six"}
      BY <1>0, <1>2, <2>2, Zenon DEF Maps!Scan
    <3>2. maps_maps[maps_pos] \in Line
      BY <1>0, <2>2, ElementOfSeq DEF MapsTypes
    <3>3. maps_binPath' = maps_maps[maps_pos].path
      BY <1>0, <2>1, <3>1, <3>2 DEF MapsPlaces, MapsTypes
    <3> QED
      BY <1>0, <2>1, <2>2, <3>1, <3>2, <3>3
      DEF MapsInv, MapsTypes, MapsPlaces, MapsHistory, Shown, ShownRange, ShownPath, Line
  <2>3. CASE ~ (maps_pos <= top)
    <3>0. maps_pos - 1 = top /\ maps_pos > 1 /\ maps_pos # 1
      BY <1>0, <2>1, <2>3
    <3>1. maps_res' = Maps!EOF /\ UNCHANGED <<maps_range, maps_binPath>>
      BY <1>0, <1>2, <2>3, Zenon DEF Maps!Scan
    <3>2. maps_range = maps_maps[top].range /\ maps_binPath = ""
      <4>1. maps_range = ShownRange(maps_maps, top) /\ maps_binPath = ""
        BY <1>0, <2>1, <3>0, Zenon DEF MapsPlaces
      <4>2. ShownRange(maps_maps, top) = maps_maps[top].range
        BY <1>0 DEF ShownRange, Shown
      <4> QED
        BY <4>1, <4>2
    <3>3. Shown(maps_maps, maps_pos) = [range |-> maps_maps[top].range, path |-> ""]
      BY <2>3, Zenon DEF Shown
    <3>4. maps_range = ShownRange(maps_maps, maps_pos) /\ maps_binPath = ShownPath(maps_maps, maps_pos)
      <4>1. /\ ShownRange(maps_maps, maps_pos) = maps_maps[top].range
            /\ ShownPath(maps_maps, maps_pos) = ""
        <5> DEFINE r == Shown(maps_maps, maps_pos)
        <5>1. r = [range |-> maps_maps[top].range, path |-> ""]
          BY <3>3
        <5> HIDE DEF r
        <5>2. r.range = maps_maps[top].range /\ r.path = ""
          BY <5>1, Fields
        <5> QED
          BY <5>2, Zenon DEF ShownRange, ShownPath, r
      <4> QED
        BY <3>2, <4>1
    <3>5. MapsTypes'
      BY <1>0, <2>1, <3>1 DEF MapsTypes
    <3>6. MapsPlaces'
      BY <1>0, <2>1, <3>1, <3>4, Zenon DEF MapsPlaces
    <3>7. MapsHistory'
      BY <1>0, <2>1 DEF MapsHistory
    <3> QED
      BY <3>5, <3>6, <3>7 DEF MapsInv
  <2> QED
    BY <2>2, <2>3
<1>3. CASE Maps!PrintLine
  <2>1. /\ maps_pc = "print" /\ maps_pc' \in {"dump", "exit"}
        /\ UNCHANGED <<maps_pos, maps_range, maps_binPath, maps_res, maps_dumped>>
        /\ maps_printed' = Append(maps_printed, [range |-> maps_range, path |-> maps_binPath])
        /\ maps_pos <= top + 1
    BY <1>0, <1>3 DEF Maps!PrintLine, MapsPlaces
  <2>2. [range |-> maps_range, path |-> maps_binPath] = Shown(maps_maps, maps_pos)
    <3>1. maps_range = ShownRange(maps_maps, maps_pos) /\ maps_binPath = ShownPath(maps_maps, maps_pos)
      BY <1>0, <2>1 DEF MapsPlaces
    <3>2. CASE maps_pos <= top
      <4>1. maps_maps[maps_pos] \in Line
        BY <1>0, <3>2, ElementOfSeq DEF MapsTypes
      <4> QED
        BY <3>1, <3>2, <4>1 DEF Shown, ShownRange, ShownPath, Line
    <3>3. CASE ~ (maps_pos <= top)
      BY <3>1, <3>3 DEF Shown, ShownRange, ShownPath
    <3> QED
      BY <3>2, <3>3
  <2>3. maps_printed' = Lines(maps_maps, maps_pos)
    <3>1. maps_printed = Lines(maps_maps, maps_pos - 1) /\ maps_pos - 1 + 1 = maps_pos
      BY <1>0, <2>1 DEF MapsHistory
    <3> QED
      BY <1>0, <2>1, <2>2, <3>1, ShownNext
  <2> QED
    BY <1>0, <2>1, <2>3 DEF MapsInv, MapsTypes, MapsPlaces, MapsHistory
<1>4. CASE Maps!Dump
  <2>1. /\ maps_pc = "dump" /\ maps_pc' = IF maps_pos > top THEN "return" ELSE "scan"
        /\ UNCHANGED <<maps_range, maps_res, maps_printed>> /\ maps_pos' = maps_pos + 1
        /\ maps_dumped' = Append(maps_dumped, maps_range)
        /\ maps_binPath' = IF maps_pos > top THEN maps_binPath ELSE ""
        /\ maps_pos <= top + 1
        /\ maps_range = ShownRange(maps_maps, maps_pos)
    BY <1>0, <1>4 DEF Maps!Dump, MapsPlaces
  <2>2. maps_dumped' = Ranges(maps_maps, maps_pos)
    <3>1. maps_dumped = Ranges(maps_maps, maps_pos - 1) /\ maps_pos - 1 + 1 = maps_pos
      BY <1>0 DEF MapsHistory
    <3> QED
      BY <1>0, <2>1, <3>1, ShownNext
  <2>3. maps_printed = Lines(maps_maps, maps_pos) /\ maps_pos' - 1 = maps_pos
    <3>1. maps_printed = Lines(maps_maps, maps_pos)
      BY <1>0, <2>1 DEF MapsHistory
    <3>2. \A a \in Nat : \A b : b = a + 1 => b - 1 = a
      OBVIOUS
    <3> QED
      BY <1>0, <2>1, <3>1, <3>2, Zenon
  <2>4. MapsHistory'
    BY <1>0, <2>1, <2>2, <2>3 DEF MapsHistory
  <2>5. MapsTypes'
    <3>1. maps_pos + 1 \in 1 .. top + 2 /\ maps_pc' \in {"return", "scan"}
      BY <1>0, <2>1, NextLine, Zenon
    <3>2. maps_binPath' \in Maps!Paths \cup {Maps!Unset}
      BY <1>0, <2>1 DEF MapsTypes, Maps!Paths
    <3> QED
      BY <1>0, <2>1, <3>1, <3>2 DEF MapsTypes
  <2>6. ASSUME ~ (maps_pos <= top) PROVE MapsPlaces'
    <3>1. maps_pos + 1 = top + 2 /\ maps_pc' = "return"
      BY <1>0, <2>1, <2>6, NextLine, Zenon
    <3>2. maps_pc' = "return" /\ maps_pos' = Mapped(maps_maps') + 2
      BY <1>0, <2>1, <3>1, Zenon
    <3> QED
      BY <3>2 DEF MapsPlaces
  <2>7. ASSUME maps_pos <= top PROVE MapsPlaces'
    <3>2. /\ maps_pc' = "scan" /\ maps_pos + 1 <= top + 1 /\ maps_pos + 1 - 1 = maps_pos
          /\ maps_binPath' = "" /\ maps_pos + 1 # 1
      BY <1>0, <2>1, <2>7, NextLine, Zenon
    <3>3. /\ maps_pc' = "scan" /\ maps_pos' <= Mapped(maps_maps') + 1 /\ maps_pos' # 1
          /\ maps_binPath' = "" /\ maps_range' = ShownRange(maps_maps', maps_pos' - 1)
      BY <1>0, <2>1, <2>3, <3>2, Zenon
    <3> QED
      BY <3>3 DEF MapsPlaces
  <2>8. MapsPlaces'
    BY <2>6, <2>7, Zenon
  <2> QED
    BY <2>4, <2>5, <2>8 DEF MapsInv
<1> QED
  BY <1>1, <1>2, <1>3, <1>4 DEF Maps!Next

LEMMA MapsStutter == ASSUME MapsInv, UNCHANGED maps_vars PROVE MapsInv'
BY DEF maps_vars, MapsInv, MapsTypes, MapsPlaces, MapsHistory

LEMMA MapsSafe ==
  ASSUME MapsInv PROVE Maps!TypeOK /\ Maps!PrintsOwnPath /\ Maps!DumpsAll
<1> DEFINE m == Mapped(maps_maps)
<1>0. /\ MapsTypes /\ MapsPlaces /\ MapsHistory
      /\ m \in Nat \ {0} /\ maps_pos \in 1 .. m + 2 /\ maps_maps \in Seq(Line)
      /\ Len(maps_maps) = m /\ DOMAIN maps_maps = 1 .. m
  <2>1. MapsTypes /\ MapsPlaces /\ MapsHistory
    BY DEF MapsInv
  <2>2. /\ Mapped(maps_maps) \in Nat \ {0} /\ maps_pos \in 1 .. Mapped(maps_maps) + 2
        /\ maps_maps \in Seq(Line)
    BY <2>1 DEF MapsTypes
  <2>3. Len(maps_maps) = m /\ DOMAIN maps_maps = 1 .. Len(maps_maps)
    BY <2>2, LenProperties, Zenon DEF Mapped
  <2> QED
    BY <2>1, <2>2, <2>3, Zenon
<1>1. PICK k \in 0 .. m + 1 : maps_printed = Lines(maps_maps, k) /\ k \in {maps_pos - 1, maps_pos}
  <2>1. CASE maps_pc = "return"
    BY <1>0, <2>1 DEF MapsPlaces, MapsHistory
  <2>2. CASE maps_pc # "return"
    <3>1. maps_pos <= m + 1
      BY <1>0, <2>2 DEF MapsPlaces
    <3>2. maps_pos \in 0 .. m + 1 /\ maps_pos - 1 \in 0 .. m + 1
      BY <1>0, <3>1
    <3> QED
      BY <1>0, <3>2 DEF MapsHistory
  <2> QED
    BY <2>1, <2>2
<1>2. Len(maps_printed) = k /\ DOMAIN maps_printed = 1 .. k
  <2>1. maps_printed = [n \in 1 .. k |-> maps_printed[n]] /\ k \in Nat
    BY <1>1 DEF Lines
  <2> QED
    BY <2>1, Given
<1>3. Len(maps_dumped) = maps_pos - 1 /\ maps_pos - 1 \in Nat
  <2>1. maps_dumped = [n \in 1 .. maps_pos - 1 |-> maps_dumped[n]] /\ maps_pos - 1 \in Nat
    BY <1>0 DEF MapsHistory, Ranges
  <2> QED
    BY <2>1, Given
<1>4. Maps!TypeOK
  BY <1>0, <1>1, <1>2, <1>3 DEF Maps!TypeOK, MapsTypes
<1>5. Maps!PrintsOwnPath
  <2> DEFINE j == IF k > m THEN m ELSE k
             first == SubSeq(maps_printed, 1, j)
  <2>1. j \in Nat /\ j <= m /\ j <= k
    BY <1>0
  <2>2. \A n \in 1 .. j : maps_printed[n] = maps_maps[n] /\ maps_maps[n] \in Line
    <3>1. ASSUME NEW n \in 1 .. j PROVE maps_printed[n] = maps_maps[n] /\ maps_maps[n] \in Line
      <4>1. n \in 1 .. k /\ n <= m /\ n \in 1 .. m
        BY <1>0, <2>1
      <4>2. maps_printed[n] = Shown(maps_maps, n)
        BY <1>1, <4>1 DEF Lines
      <4>3. Shown(maps_maps, n) = maps_maps[n]
        BY <4>1, Zenon DEF Shown
      <4> QED
        BY <1>0, <4>1, <4>2, <4>3, ElementOfSeq
    <3> QED
      BY <3>1
  <2> HIDE DEF m, j
  <2>3. /\ first \in Seq(Line) /\ Len(first) = j
        /\ \A n \in 1 .. j : first[n] = maps_maps[n]
    <3>1. \A n \in 1 .. j : maps_printed[n] \in Line
      BY <2>2
    <3>2. /\ first \in Seq(Line) /\ Len(first) = IF 1 <= j THEN j - 1 + 1 ELSE 0
          /\ \A n \in 1 .. j - 1 + 1 : first[n] = maps_printed[1 + n - 1]
      BY <2>1, <3>1, SubSeqProperties, SMT
    <3> QED
      BY <2>1, <2>2, <3>2
  <2> HIDE DEF first
  <2>4. SubSeq(first, 1, j) = SubSeq(maps_maps, 1, j)
    <3> DEFINE s == SubSeq(first, 1, j)
               t == SubSeq(maps_maps, 1, j)
    <3>1. \A n \in 1 .. j : first[n] \in Line /\ maps_maps[n] \in Line
      BY <2>2, <2>3
    <3>2. /\ s \in Seq(Line) /\ Len(s) = IF 1 <= j THEN j - 1 + 1 ELSE 0
          /\ \A n \in 1 .. j - 1 + 1 : s[n] = first[1 + n - 1]
      BY <2>1, <3>1, SubSeqProperties, SMT
    <3>3. /\ t \in Seq(Line) /\ Len(t) = IF 1 <= j THEN j - 1 + 1 ELSE 0
          /\ \A n \in 1 .. j - 1 + 1 : t[n] = maps_maps[1 + n - 1]
      BY <2>1, <3>1, SubSeqProperties, SMT
    <3> HIDE DEF s, t
    <3>4. Len(s) = j /\ Len(t) = j /\ \A n \in 1 .. j : s[n] = t[n]
      BY <2>1, <2>3, <3>2, <3>3
    <3>5. s = t
      BY <3>2, <3>3, <3>4, SeqEqual
    <3> QED
      BY <3>5 DEF s, t
  <2>5. Maps!IsPrefix(first, maps_maps)
    <3>1. Len(first) = j /\ j <= Len(maps_maps)
      BY <1>0, <2>1, <2>3, Zenon DEF m
    <3> QED
      BY <2>4, <3>1, Zenon DEF Maps!IsPrefix
  <2>6. ASSUME k > m
        PROVE  maps_printed[k] = [range |-> maps_maps[m].range, path |-> ""]
    <3>1. k \in 1 .. k /\ ~ (k <= m)
      BY <1>0, <2>6 DEF m
    <3>2. maps_printed[k] = Shown(maps_maps, k)
      BY <1>1, <3>1 DEF Lines
    <3> QED
      BY <3>1, <3>2, Zenon DEF Shown, m
  <2>7. Len(maps_printed) = k /\ Len(maps_maps) = m
    BY <1>0, <1>2, Zenon DEF m
  <2>8. Maps!IsPrefix(SubSeq(maps_printed, 1, IF k > m THEN m ELSE k), maps_maps)
    BY <2>5, Zenon DEF first, j
  <2> QED
    BY <2>6, <2>7, <2>8, Zenon DEF Maps!PrintsOwnPath
<1>6. Maps!DumpsAll
  <2>1. ASSUME maps_pc = "return" PROVE maps_dumped = Ranges(maps_maps, m + 1) /\ maps_pos = m + 2
    BY <1>0, <2>1 DEF MapsPlaces, MapsHistory
  <2>2. \A n \in 1 .. m : Ranges(maps_maps, m + 1)[n] = maps_maps[n].range
    BY <1>0 DEF Ranges, Shown, ShownRange
  <2> QED
    BY <1>0, <1>3, <2>1, <2>2 DEF Maps!DumpsAll
<1> QED
  BY <1>4, <1>5, <1>6
-----------------------------------------------------------------------------
(***************************************************************************)
(* asmcrypt.s: below the offset the frame holds the rotated bytes, of the  *)
(* text and of what lies behind it; the last block ends where the length   *)
(* is rounded up to blocks.                                                *)
(***************************************************************************)
RotTypes ==
  /\ rot_text \in Seq(0 .. 255) /\ Len(rot_text) \in Nat \ {0}
  /\ rot_rot \in 0 .. 25
  /\ rot_pc \in {"expand", "core", "write", "exit"}

\* While the vectors are filled.
Expanding ==
  /\ rot_rbx \in 1 .. 5 /\ rot_rax = 0
  /\ \A n \in 1 .. 5 : rot_vec[n] = IF n < 6 - rot_rbx THEN Rot!Source[n] ELSE 0

\* The five vectors are filled.
Expanded ==
  /\ rot_rbx = 0
  /\ rot_vec[1] = rot_rot /\ rot_vec[2] = 65 /\ rot_vec[3] = 90
  /\ rot_vec[4] = 97 /\ rot_vec[5] = 122

Whole == Rot!RoundUp(Len(rot_text))

RotInv ==
  /\ RotTypes
  /\ rot_rdx = Len(rot_text) - rot_rax
  /\ DOMAIN rot_vec = 1 .. 5
  /\ rot_pc = "expand" => Expanding
  /\ rot_pc # "expand" => Expanded
  /\ rot_rax \in 0 .. Whole /\ rot_rax % 16 = 0
  /\ rot_pc \in {"expand", "core"} => rot_rax < Len(rot_text)
  /\ rot_pc \in {"write", "exit"} => rot_rax = Whole
  /\ DOMAIN rot_stack = 0 .. Whole - 1
  /\ \A d \in 0 .. Whole - 1 :
       rot_stack[d] = IF d < rot_rax THEN Rot!Rotated(Rot!Load(d), rot_rot) ELSE Rot!Free
  /\ rot_pc = "exit" =>
       rot_out = [n \in DOMAIN rot_text |-> Rot!Rotated(rot_text[n], rot_rot)]

\* The masks of the two ranges.
LEMMA LetterMasks == Rot!BitAnd(90, 65) = 64 /\ Rot!BitAnd(122, 97) = 96
  BY DEF Rot!BitAnd

\* One range leaves every byte outside of it alone.
LEMMA UpperRotates ==
  ASSUME NEW c \in 0 .. 255, NEW r \in 0 .. 25
  PROVE  Rot!RotateRange(c, r, 65, 90) =
           IF c \in 65 .. 90 THEN 65 + ((c - 65 + r) % 26) ELSE c
  BY LetterMasks DEF Rot!RotateRange, Rot!Signed

LEMMA LowerRotates ==
  ASSUME NEW c \in 0 .. 255, NEW r \in 0 .. 25
  PROVE  Rot!RotateRange(c, r, 97, 122) =
           IF c \in 97 .. 122 THEN 97 + ((c - 97 + r) % 26) ELSE c
  BY LetterMasks DEF Rot!RotateRange, Rot!Signed

\* What one lane of the two passes does is the rotation by the alphabet.
LEMMA LaneRotates ==
  ASSUME Expanded, rot_rot \in 0 .. 25, NEW c \in 0 .. 255
  PROVE  /\ Rot!RotateLane(c) = Rot!Rotated(c, rot_rot)
         /\ Rot!Rotated(c, rot_rot) \in 0 .. 255
<1>1. Rot!RotateLane(c) =
        Rot!RotateRange(Rot!RotateRange(c, rot_rot, 65, 90), rot_rot, 97, 122)
  BY DEF Expanded, Rot!RotateLane
<1> DEFINE u == Rot!RotateRange(c, rot_rot, 65, 90)
<1>2. u = (IF c \in 65 .. 90 THEN 65 + ((c - 65 + rot_rot) % 26) ELSE c)
  BY UpperRotates
<1>3. u \in 0 .. 255
  BY <1>2
<1>4. Rot!RotateRange(u, rot_rot, 97, 122) =
        IF u \in 97 .. 122 THEN 97 + ((u - 97 + rot_rot) % 26) ELSE u
  BY <1>3, LowerRotates
<1> HIDE DEF u
<1> QED
  BY <1>1, <1>2, <1>3, <1>4 DEF Rot!Rotated, Rot!A, Rot!Z, Rot!a, Rot!z, u

\* The last block is the one the length ends in, at most eight bytes above
\* the room of the frame.
LEMMA Blocks ==
  ASSUME NEW n \in Nat \ {0}
  PROVE  /\ Rot!RoundUp(n) \in Nat /\ Rot!RoundUp(n) >= n /\ Rot!RoundUp(n) % 16 = 0
         /\ Rot!RoundUp(n) < n + 16
         /\ Rot!RoundUp(n) <= Rot!Room(n) + 8
         /\ 16 * (Rot!RoundUp(n) \div 16) = Rot!RoundUp(n)
  BY DEF Rot!RoundUp, Rot!Room, Rot!Block

LEMMA RotConstants == Rots \subseteq 0 .. 25 /\ Texts \subseteq Seq(0 .. 255) \ {<< >>}
  BY ProgramsAssumption DEF Rot!RotAssumption, Rot!Byte

\* What a block loads are bytes, behind the text, too.
LEMMA LoadsBytes ==
  ASSUME RotTypes, NEW d \in 0 .. Whole - 1
  PROVE  /\ Rot!Load(d) \in 0 .. 255
         /\ d < Len(rot_text) => Rot!Load(d) = rot_text[d + 1]
<1> DEFINE Bytes == 0 .. 255
           front == Rot!Source
           pad == [n \in 1 .. 16 |-> 0]
           behind == front \o pad
<1>1. Len(rot_text) \in Nat \ {0} /\ rot_text \in Seq(Bytes)
  BY DEF RotTypes
<1>2. Whole \in Nat /\ Whole < Len(rot_text) + 16
  BY <1>1, Blocks DEF Whole
<1>3. front \in Seq(Bytes) /\ Len(front) = 5
  BY DEF Rot!Source, RotTypes, Rot!A, Rot!Z, Rot!a, Rot!z
<1>4. pad \in Seq(Bytes) /\ Len(pad) = 16
  <2>1. \A n \in 1 .. 16 : 0 \in Bytes
    OBVIOUS
  <2> QED
    BY <2>1, IsASeq
<1> HIDE DEF Bytes, front, pad
<1>5. behind \in Seq(Bytes) /\ Len(behind) = 21
  <2>1. behind \in Seq(Bytes) /\ Len(behind) = Len(front) + Len(pad)
    BY <1>3, <1>4, ConcatProperties, Zenon
  <2> HIDE DEF behind
  <2> QED
    BY <2>1, <1>3, <1>4
<1> HIDE DEF behind
<1>6. CASE d < Len(rot_text)
  <2>1. Rot!Load(d) = rot_text[d + 1]
    BY <1>6 DEF Rot!Load
  <2>2. d + 1 \in 1 .. Len(rot_text)
    BY <1>6, <1>1
  <2>3. rot_text[d + 1] \in Bytes
    BY <1>1, <2>2, ElementOfSeq
  <2> QED
    BY <2>1, <2>3 DEF Bytes
<1>7. CASE ~ (d < Len(rot_text))
  <2>1. Rot!Load(d) = behind[d - Len(rot_text) + 1]
    BY <1>7 DEF Rot!Load, Rot!Block, behind, front, pad
  <2>2. d - Len(rot_text) + 1 \in 1 .. 21
    BY <1>7, <1>1, <1>2, SMTT(60)
  <2>3. behind[d - Len(rot_text) + 1] \in Bytes
    BY <1>5, <2>2, ElementOfSeq
  <2> QED
    BY <1>7, <2>1, <2>3 DEF Bytes
<1> QED
  BY <1>6, <1>7

LEMMA RotInit == ASSUME Rot!Init PROVE RotInv
<1>1. /\ rot_text \in Texts /\ rot_rot \in Rots /\ rot_pc = "expand" /\ rot_rbx = 5
      /\ rot_vec = [n \in 1 .. 5 |-> 0] /\ rot_rax = 0 /\ rot_rdx = Len(rot_text)
      /\ rot_stack = [d \in 0 .. Whole - 1 |-> Rot!Free]
  BY DEF Rot!Init, Whole
<1>2. rot_text \in Seq(0 .. 255) /\ rot_text # << >> /\ rot_rot \in 0 .. 25
  BY <1>1, RotConstants
<1>3. Len(rot_text) \in Nat \ {0}
  BY <1>2, EmptySeq, LenProperties
<1>4. Whole \in Nat
  BY <1>3, Blocks DEF Whole
<1>5. RotTypes
  BY <1>1, <1>2, <1>3 DEF RotTypes
<1>6. Expanding
  BY <1>1 DEF Expanding
<1>7. /\ rot_rdx = Len(rot_text) - rot_rax /\ rot_rax \in 0 .. Whole /\ rot_rax % 16 = 0
      /\ rot_rax < Len(rot_text)
  BY <1>1, <1>3, <1>4
<1>8. \A d \in 0 .. Whole - 1 :
        rot_stack[d] = IF d < rot_rax THEN Rot!Rotated(Rot!Load(d), rot_rot) ELSE Rot!Free
  BY <1>1
<1> QED
  BY <1>1, <1>5, <1>6, <1>7, <1>8 DEF RotInv

LEMMA RotExpands == ASSUME RotInv, Rot!ExpandAgain PROVE RotInv'
<1>1. /\ rot_pc = "expand" /\ rot_pc' = IF rot_rbx = 1 THEN "core" ELSE "expand"
      /\ rot_vec' = [rot_vec EXCEPT ![6 - rot_rbx] = Rot!Source[6 - rot_rbx]]
      /\ rot_rbx' = rot_rbx - 1
      /\ UNCHANGED <<rot_text, rot_rot, rot_rax, rot_rdx, rot_stack, rot_out>>
  BY DEF Rot!ExpandAgain, Rot!Goto
<1>2. Expanding /\ DOMAIN rot_vec = 1 .. 5 /\ rot_rbx \in 1 .. 5
  BY <1>1 DEF RotInv, Expanding
<1>3. DOMAIN rot_vec' = 1 .. 5
  BY <1>1, <1>2
<1>4. \A n \in 1 .. 5 : rot_vec'[n] = IF n < 7 - rot_rbx THEN Rot!Source[n] ELSE 0
  <2> SUFFICES ASSUME NEW n \in 1 .. 5
               PROVE  rot_vec'[n] = IF n < 7 - rot_rbx THEN Rot!Source[n] ELSE 0
    OBVIOUS
  <2>1. rot_vec[n] = IF n < 6 - rot_rbx THEN Rot!Source[n] ELSE 0
    BY <1>2 DEF Expanding
  <2>2. CASE n = 6 - rot_rbx
    BY <2>2, <1>1, <1>2
  <2>3. CASE n # 6 - rot_rbx
    <3>1. rot_vec'[n] = rot_vec[n]
      BY <2>3, <1>1, <1>2
    <3> QED
      BY <3>1, <2>1, <2>3, <1>2
  <2> QED
    BY <2>2, <2>3
<1>5. RotTypes' /\ Whole' = Whole
  BY <1>1 DEF RotInv, RotTypes, Whole
<1>6. /\ rot_rdx' = Len(rot_text') - rot_rax' /\ rot_rax' \in 0 .. Whole' /\ rot_rax' % 16 = 0
      /\ rot_rax' < Len(rot_text') /\ DOMAIN rot_stack' = 0 .. Whole' - 1
  BY <1>1, <1>5 DEF RotInv
<1>7. \A d \in 0 .. Whole' - 1 :
        rot_stack'[d] = IF d < rot_rax' THEN Rot!Rotated(Rot!Load(d)', rot_rot') ELSE Rot!Free
  BY <1>1, <1>5 DEF RotInv, Rot!Load, Rot!Source
<1>8. CASE rot_rbx = 1
  <2>1. rot_rbx' = 0 /\ rot_pc' = "core"
    BY <1>1, <1>8
  <2>2. \A n \in 1 .. 5 : rot_vec'[n] = Rot!Source[n]
    BY <1>4, <1>8
  <2>3. Expanded'
    BY <2>1, <2>2, <1>1 DEF Expanded, Rot!Source, Rot!A, Rot!Z, Rot!a, Rot!z
  <2> QED
    BY <2>1, <2>3, <1>3, <1>5, <1>6, <1>7 DEF RotInv
<1>9. CASE rot_rbx # 1
  <2>1. rot_pc' = "expand"
    BY <1>1, <1>9
  <2>2. rot_rbx' \in 1 .. 5 /\ 6 - rot_rbx' = 7 - rot_rbx
    BY <1>1, <1>2, <1>9
  <2>3. \A n \in 1 .. 5 : rot_vec'[n] = IF n < 6 - rot_rbx' THEN Rot!Source[n]' ELSE 0
    BY <1>1, <1>4, <2>2 DEF Rot!Source
  <2>4. Expanding'
    BY <2>2, <2>3, <1>1, <1>2 DEF Expanding
  <2> QED
    BY <2>1, <2>4, <1>3, <1>5, <1>6, <1>7 DEF RotInv
<1> QED
  BY <1>8, <1>9

LEMMA RotCore == ASSUME RotInv, Rot!CoreLoop PROVE RotInv'
<1> DEFINE n == Len(rot_text)
           w == Whole
<1>1. /\ rot_pc = "core" /\ rot_pc' = IF rot_rdx - 16 > 0 THEN "core" ELSE "write"
      /\ rot_stack' = [d \in DOMAIN rot_stack \cup rot_rax .. rot_rax + 16 - 1 |->
                         IF d \in rot_rax .. rot_rax + 16 - 1 THEN Rot!RotateLane(Rot!Load(d))
                         ELSE rot_stack[d]]
      /\ rot_rax' = rot_rax + 16 /\ rot_rdx' = rot_rdx - 16
      /\ UNCHANGED <<rot_text, rot_rot, rot_rbx, rot_vec, rot_out>>
  BY DEF Rot!CoreLoop, Rot!Goto, Rot!Block
<1>2. /\ n \in Nat \ {0} /\ w \in Nat /\ n <= w /\ w % 16 = 0 /\ w < n + 16
      /\ rot_rax \in Nat /\ rot_rax % 16 = 0 /\ rot_rax < n /\ rot_rdx = n - rot_rax
  BY <1>1, Blocks DEF RotInv, RotTypes, Whole
<1>3. rot_rax + 16 <= w /\ (rot_rax + 16) % 16 = 0
  <2> HIDE DEF n, w
  <2> QED
    BY <1>2
<1>4. rot_rdx - 16 > 0 => rot_rax + 16 < n
  BY <1>2
<1>5. ~ (rot_rdx - 16 > 0) => rot_rax + 16 = w
  <2> HIDE DEF n, w
  <2> QED
    BY <1>2, <1>3
<1>6. DOMAIN rot_stack = 0 .. w - 1 /\ Expanded /\ rot_rot \in 0 .. 25 /\ DOMAIN rot_vec = 1 .. 5
  BY <1>1 DEF RotInv, RotTypes
<1>7. 0 .. w - 1 \cup rot_rax .. rot_rax + 16 - 1 = 0 .. w - 1
  <2> HIDE DEF n, w
  <2> QED
    BY <1>2, <1>3
<1>8. DOMAIN rot_stack' = 0 .. w - 1
  BY <1>1, <1>6, <1>7
<1>9. RotTypes' /\ Whole' = w /\ Expanded'
  BY <1>1, <1>6 DEF RotInv, RotTypes, Whole, Expanded
<1>10. \A d \in 0 .. w - 1 :
         rot_stack'[d] = IF d < rot_rax' THEN Rot!Rotated(Rot!Load(d), rot_rot) ELSE Rot!Free
  <2> SUFFICES ASSUME NEW d \in 0 .. w - 1
               PROVE  rot_stack'[d] = IF d < rot_rax' THEN Rot!Rotated(Rot!Load(d), rot_rot)
                                      ELSE Rot!Free
    OBVIOUS
  <2>1. d \in DOMAIN rot_stack \cup rot_rax .. rot_rax + 16 - 1
    BY <1>6
  <2>2. rot_stack'[d] = IF d \in rot_rax .. rot_rax + 16 - 1
                        THEN Rot!RotateLane(Rot!Load(d)) ELSE rot_stack[d]
    BY <1>1, <2>1
  <2>3. Rot!RotateLane(Rot!Load(d)) = Rot!Rotated(Rot!Load(d), rot_rot)
    BY <1>6, LoadsBytes, LaneRotates DEF RotInv
  <2>4. rot_stack[d] = IF d < rot_rax THEN Rot!Rotated(Rot!Load(d), rot_rot) ELSE Rot!Free
    BY DEF RotInv
  <2>5. d \in Nat
    BY <1>2
  <2>6. CASE d \in rot_rax .. rot_rax + 16 - 1
    BY <2>6, <2>2, <2>3, <2>5, <1>1, <1>2
  <2>7. CASE ~ (d \in rot_rax .. rot_rax + 16 - 1)
    <3>1. (d < rot_rax') <=> (d < rot_rax)
      BY <2>7, <2>5, <1>1, <1>2
    <3> QED
      BY <2>7, <3>1, <2>2, <2>4
  <2> QED
    BY <2>6, <2>7
<1>11. \A d : Rot!Load(d)' = Rot!Load(d)
  BY <1>1 DEF Rot!Load, Rot!Source
<1>12. /\ rot_rdx' = Len(rot_text') - rot_rax' /\ rot_rax' \in 0 .. Whole' /\ rot_rax' % 16 = 0
       /\ rot_pc' \in {"core", "write"}
       /\ rot_pc' = "core" => rot_rax' < Len(rot_text')
       /\ rot_pc' = "write" => rot_rax' = Whole'
  BY <1>1, <1>2, <1>3, <1>4, <1>5, <1>9
<1>13. \A d \in 0 .. Whole' - 1 :
         rot_stack'[d] = IF d < rot_rax' THEN Rot!Rotated(Rot!Load(d)', rot_rot') ELSE Rot!Free
  BY <1>1, <1>9, <1>10, <1>11
<1>14. DOMAIN rot_stack' = 0 .. Whole' - 1 /\ DOMAIN rot_vec' = 1 .. 5
  BY <1>1, <1>6, <1>8, <1>9
<1> HIDE DEF n, w
<1> QED
  BY <1>9, <1>12, <1>13, <1>14 DEF RotInv

LEMMA RotWrites == ASSUME RotInv, Rot!Write PROVE RotInv'
<1>1. /\ rot_pc = "write" /\ rot_pc' = "exit"
      /\ rot_out' = [n \in 1 .. Len(rot_text) |-> rot_stack[n - 1]]
      /\ UNCHANGED <<rot_text, rot_rot, rot_rbx, rot_vec, rot_rax, rot_rdx, rot_stack>>
  BY DEF Rot!Write, Rot!Goto
<1>2. RotTypes /\ Expanded /\ rot_rax = Whole /\ Len(rot_text) \in Nat \ {0} /\ Whole >= Len(rot_text)
      /\ Whole \in Nat
  BY <1>1, Blocks DEF RotInv, RotTypes, Whole
<1>3. ASSUME NEW n \in 1 .. Len(rot_text)
      PROVE  rot_stack[n - 1] = Rot!Rotated(rot_text[n], rot_rot)
  <2>1. n - 1 \in 0 .. Whole - 1 /\ n - 1 < rot_rax /\ n - 1 < Len(rot_text) /\ n - 1 + 1 = n
    BY <1>2
  <2>2. rot_stack[n - 1] = Rot!Rotated(Rot!Load(n - 1), rot_rot)
    BY <2>1 DEF RotInv
  <2>3. Rot!Load(n - 1) = rot_text[n]
    BY <1>2, <2>1, LoadsBytes
  <2> QED
    BY <2>2, <2>3
<1>4. DOMAIN rot_text = 1 .. Len(rot_text)
  BY <1>2, LenProperties DEF RotTypes
<1>5. rot_out' = [n \in DOMAIN rot_text |-> Rot!Rotated(rot_text[n], rot_rot)]
  BY <1>1, <1>3, <1>4
<1>6. RotTypes' /\ Expanded' /\ Whole' = Whole /\ \A d : Rot!Load(d)' = Rot!Load(d)
  BY <1>1, <1>2 DEF RotTypes, Expanded, Whole, Rot!Load, Rot!Source
<1>7. /\ rot_rdx' = Len(rot_text') - rot_rax' /\ rot_rax' \in 0 .. Whole' /\ rot_rax' % 16 = 0
      /\ rot_rax' = Whole' /\ DOMAIN rot_stack' = 0 .. Whole' - 1 /\ DOMAIN rot_vec' = 1 .. 5
  BY <1>1, <1>2, <1>6 DEF RotInv
<1>8. \A d \in 0 .. Whole' - 1 :
        rot_stack'[d] = IF d < rot_rax' THEN Rot!Rotated(Rot!Load(d)', rot_rot') ELSE Rot!Free
  BY <1>1, <1>6 DEF RotInv
<1>9. rot_out' = [n \in DOMAIN rot_text' |-> Rot!Rotated(rot_text'[n], rot_rot')]
  BY <1>1, <1>5
<1> QED
  BY <1>1, <1>6, <1>7, <1>8, <1>9 DEF RotInv

LEMMA RotStep == ASSUME RotInv, Rot!Next PROVE RotInv'
  BY RotExpands, RotCore, RotWrites DEF Rot!Next

LEMMA RotStutter == ASSUME RotInv, UNCHANGED rot_vars PROVE RotInv'
<1>1. UNCHANGED <<rot_pc, rot_text, rot_rot, rot_rbx, rot_vec, rot_rax, rot_rdx, rot_stack, rot_out>>
  BY DEF rot_vars
<1>2. /\ RotTypes' = RotTypes /\ Expanding' = Expanding /\ Expanded' = Expanded
      /\ Whole' = Whole /\ \A d : Rot!Load(d)' = Rot!Load(d)
  BY <1>1 DEF RotTypes, Expanding, Expanded, Whole, Rot!Load, Rot!Source
<1> QED
  BY <1>1, <1>2 DEF RotInv

LEMMA RotSafe ==
  ASSUME RotInv
  PROVE  Rot!TypeOK /\ Rot!WritesRotation /\ Rot!SpillsOnlySavedRbp
<1>1. /\ Len(rot_text) \in Nat \ {0} /\ Whole \in Nat
      /\ Whole <= Rot!Room(Len(rot_text)) + 8 /\ 16 * (Whole \div 16) = Whole
  BY Blocks DEF RotInv, RotTypes, Whole
<1>2. rot_rax \in {16 * n : n \in 0 .. Whole \div 16}
  <2>1. rot_rax \div 16 \in 0 .. Whole \div 16 /\ rot_rax = 16 * (rot_rax \div 16)
    BY <1>1 DEF RotInv
  <2> QED
    BY <2>1
<1>3. rot_rbx \in 0 .. 5 /\ \A n \in 1 .. 5 : rot_vec[n] \in 0 .. 255
  <2>1. CASE rot_pc = "expand"
    <3>1. Expanding
      BY <2>1 DEF RotInv
    <3>2. \A n \in 1 .. 5 : Rot!Source[n] \in 0 .. 255
      <4>1. /\ Rot!Source[1] \in 0 .. 255 /\ Rot!Source[2] \in 0 .. 255
            /\ Rot!Source[3] \in 0 .. 255 /\ Rot!Source[4] \in 0 .. 255
            /\ Rot!Source[5] \in 0 .. 255
        BY DEF RotInv, RotTypes, Rot!Source, Rot!A, Rot!Z, Rot!a, Rot!z
      <4>2. \A n \in 1 .. 5 : n = 1 \/ n = 2 \/ n = 3 \/ n = 4 \/ n = 5
        OBVIOUS
      <4> QED
        BY <4>1, <4>2
    <3> QED
      BY <3>1, <3>2 DEF Expanding
  <2>2. CASE rot_pc # "expand"
    <3>1. Expanded /\ rot_rot \in 0 .. 25
      BY <2>2 DEF RotInv, RotTypes
    <3> QED
      BY <3>1 DEF Expanded
  <2> QED
    BY <2>1, <2>2
<1>4. \A d \in DOMAIN rot_stack : rot_stack[d] \in 0 .. 255 \cup {Rot!Free}
  <2> SUFFICES ASSUME NEW d \in 0 .. Whole - 1 PROVE rot_stack[d] \in 0 .. 255 \cup {Rot!Free}
    BY DEF RotInv
  <2>1. CASE d < rot_rax
    <3>1. Expanded
      <4>1. rot_rax \in Nat /\ (Expanding => rot_rax = 0)
        BY <1>1 DEF RotInv, Expanding
      <4>2. ~ Expanding
        BY <4>1, <2>1, <1>1
      <4> QED
        BY <4>2 DEF RotInv
    <3>2. Rot!Rotated(Rot!Load(d), rot_rot) \in 0 .. 255
      BY <3>1, LoadsBytes, LaneRotates DEF RotInv, RotTypes
    <3> QED
      BY <2>1, <3>2 DEF RotInv
  <2>2. CASE ~ (d < rot_rax)
    BY <2>2 DEF RotInv
  <2> QED
    BY <2>1, <2>2
<1>5. Rot!TypeOK
  <2>1. rot_rax \in {Rot!Block * n : n \in 0 .. Rot!RoundUp(Len(rot_text)) \div Rot!Block}
    BY <1>2 DEF Rot!Block, Whole
  <2> QED
    BY <2>1, <1>3, <1>4 DEF RotInv, RotTypes, Rot!TypeOK, Rot!Byte
<1>6. Rot!WritesRotation
  BY DEF RotInv, Rot!WritesRotation
<1>7. Rot!SpillsOnlySavedRbp
  <2> SUFFICES ASSUME NEW d \in 0 .. Whole - 1, rot_stack[d] # Rot!Free
               PROVE  d < Rot!Room(Len(rot_text)) + 8
    BY DEF RotInv, Rot!SpillsOnlySavedRbp
  <2>1. Rot!Room(Len(rot_text)) \in Int
    BY <1>1 DEF Rot!Room, Rot!Block
  <2> QED
    BY <1>1, <2>1
<1> QED
  BY <1>5, <1>6, <1>7

-----------------------------------------------------------------------------
(***************************************************************************)
(* The matrix programs: with row and column the sums are running sums of   *)
(* the products; in the shuffles each factor comes to its place.           *)
(***************************************************************************)
Index == 0 .. N - 1
Product(m0, m1, r, c) == [k \in 1 .. N |-> Mat!At(m0, N, r, k - 1) * Mat!At(m1, N, k - 1, c)]
SumTo(f, m0, m1, r, c) ==
  f = [k \in 0 .. N |->
         IF k = 0 THEN 0 ELSE f[k - 1] + Mat!At(m0, N, r, k - 1) * Mat!At(m1, N, k - 1, c)]
Summed(m0, m1, r, c) == CHOOSE f : SumTo(f, m0, m1, r, c)

LEMMA MatConstants ==
  /\ N \in Nat \ {0, 1} /\ N * N \in Nat /\ Entries \subseteq Int
  /\ \A m \in Squares : m \in [1 .. N * N -> Int]
<1>1. N \in Nat \ {0, 1} /\ Entries \subseteq Int /\ Squares \subseteq [1 .. N * N -> Int]
  BY ProgramsAssumption DEF Mat!MatrixAssumption
<1> QED
  BY <1>1

\* Rows and columns lie in the matrix,
LEMMA Inside ==
  ASSUME NEW r \in Index, NEW c \in Index PROVE N * r + c + 1 \in 1 .. N * N
<1>0. N \in Nat /\ r \in Nat /\ c \in Nat /\ r <= N - 1 /\ c <= N - 1
  BY MatConstants DEF Index
<1>1. N * r \in Nat /\ N * r <= N * (N - 1)
  BY <1>0
<1>2. N * (N - 1) = N * N - N /\ N * N \in Nat
  BY <1>0
<1> QED
  BY <1>0, <1>1, <1>2

\* and each place has its row and column.
LEMMA RowAndColumn ==
  ASSUME NEW n \in 1 .. N * N PROVE (n - 1) \div N \in Index /\ (n - 1) % N \in Index
<1> DEFINE q == (n - 1) \div N
<1>0. N \in Nat \ {0} /\ n - 1 \in Nat /\ n - 1 < N * N
  BY MatConstants
<1>1. (n - 1) % N \in Index
  BY <1>0 DEF Index
<1>2. q \in Nat /\ N * q <= n - 1
  BY <1>0
<1> HIDE DEF q
<1>3. ~ (q >= N)
  <2>1. q >= N => N * q >= N * N
    BY <1>0, <1>2
  <2> QED
    BY <1>0, <1>2, <2>1
<1> QED
  BY <1>0, <1>1, <1>2, <1>3 DEF Index, q

LEMMA ElementsAreInts ==
  ASSUME NEW m \in Squares, NEW r \in Index, NEW c \in Index
  PROVE  Mat!At(m, N, r, c) \in Int
  BY MatConstants, Inside DEF Mat!At

LEMMA DotIsSum == 
  ASSUME NEW r, NEW c, NEW upto
  PROVE  Mat!Dot(r, c, upto) = Summed(mat_a, mat_b, r, c)[upto + 1]
  BY Zenon DEF Mat!Dot, Summed, SumTo

LEMMA SumToExists ==
  ASSUME NEW m0, NEW m1, NEW r, NEW c PROVE \E f : SumTo(f, m0, m1, r, c)
<1> DEFINE d == Product(m0, m1, r, c)
<1>1. N \in Nat
  BY MatConstants
<1>2. PICK g : RunningSum(g, d, N)
  BY <1>1, SumExists
<1>3. \A k \in 1 .. N + 1 : g[k] = IF k = 1 THEN 0 ELSE g[k - 1] + d[k - 1]
  BY <1>2 DEF RunningSum
<1> DEFINE f == [k \in 0 .. N |-> g[k + 1]]
<1>4. ASSUME NEW k \in 0 .. N
      PROVE  f[k] = IF k = 0 THEN 0
                    ELSE f[k - 1] + Mat!At(m0, N, r, k - 1) * Mat!At(m1, N, k - 1, c)
  <2>1. CASE k = 0
    BY <2>1, <1>1, <1>3
  <2>2. CASE k # 0
    <3>1. k + 1 \in 1 .. N + 1 /\ k + 1 # 1 /\ k + 1 - 1 = k /\ k - 1 \in 0 .. N /\ k - 1 + 1 = k
          /\ k \in 1 .. N
      BY <2>2, <1>1
    <3>2. g[k + 1] = g[k] + d[k]
      BY <1>3, <3>1
    <3>3. f[k] = g[k + 1] /\ f[k - 1] = g[k]
      BY <3>1
    <3>4. d[k] = Mat!At(m0, N, r, k - 1) * Mat!At(m1, N, k - 1, c)
      BY <3>1 DEF Product
    <3> HIDE DEF f, d
    <3> QED
      BY <2>2, <3>2, <3>3, <3>4
  <2> QED
    BY <2>1, <2>2
<1> HIDE DEF f
<1>5. f = [k \in 0 .. N |-> f[k]]
  BY DEF f
<1> QED
  BY <1>4, <1>5 DEF SumTo

\* The dot product grows by a product for each column.
LEMMA DotGrows ==
  ASSUME mat_a \in Squares, mat_b \in Squares, NEW r \in Index, NEW c \in Index
  PROVE  /\ Mat!Dot(r, c, 0) = Mat!At(mat_a, N, r, 0) * Mat!At(mat_b, N, 0, c)
         /\ \A k \in Index : k + 1 \in Index =>
              Mat!Dot(r, c, k + 1) =
                Mat!Dot(r, c, k) + Mat!At(mat_a, N, r, k + 1) * Mat!At(mat_b, N, k + 1, c)
<1> DEFINE f == Summed(mat_a, mat_b, r, c)
           P(k) == Mat!At(mat_a, N, r, k) * Mat!At(mat_b, N, k, c)
<1>1. N \in Nat \ {0}
  BY MatConstants
<1>2. SumTo(f, mat_a, mat_b, r, c)
  BY SumToExists, Zenon DEF Summed
<1>3. \A k : Mat!Dot(r, c, k) = f[k + 1]
  BY DotIsSum
<1> HIDE DEF f
<1>4. \A k \in 0 .. N : f[k] = IF k = 0 THEN 0 ELSE f[k - 1] + P(k - 1)
  BY <1>2 DEF SumTo
<1>5. \A k \in Index : P(k) \in Int
  <2> SUFFICES ASSUME NEW k \in Index PROVE P(k) \in Int
    OBVIOUS
  <2>1. Mat!At(mat_a, N, r, k) \in Int /\ Mat!At(mat_b, N, k, c) \in Int
    BY ElementsAreInts
  <2> QED
    BY <2>1
<1>6. 0 \in Index
  BY <1>1 DEF Index
<1> HIDE DEF P
<1>7. f[1] = P(0)
  <2>1. f[0] = 0
    BY <1>1, <1>4
  <2>2. 1 \in 0 .. N /\ 1 # 0 /\ 1 - 1 = 0
    BY <1>1
  <2>3. f[1] = f[0] + P(0)
    BY <1>4, <2>2
  <2> QED
    BY <2>1, <2>3, <1>5, <1>6
<1>8. ASSUME NEW k \in Index, k + 1 \in Index PROVE f[k + 1 + 1] = f[k + 1] + P(k + 1)
  <2> DEFINE j == k + 1
  <2>1. \A m : m = j + 1 => m \in 0 .. N /\ m # 0 /\ m - 1 = j
    BY <1>1, <1>8 DEF Index
  <2> HIDE DEF j
  <2>2. f[j + 1] = f[j] + P(j)
    <3>1. \A m \in 0 .. N : \A l : m # 0 /\ m - 1 = l => f[m] = f[l] + P(l)
      BY <1>4, Zenon
    <3> QED
      BY <2>1, <3>1, Zenon
  <2> QED
    BY <2>2 DEF j
<1>9. 0 + 1 = 1
  OBVIOUS
<1> QED
  BY <1>3, <1>7, <1>8, <1>9 DEF P

LEMMA SameDot ==
  ASSUME UNCHANGED <<mat_a, mat_b>>, NEW r, NEW c, NEW k
  PROVE  Mat!Dot(r, c, k)' = Mat!Dot(r, c, k)
<1>1. Mat!Dot(r, c, k)' = Summed(mat_a', mat_b', r, c)[k + 1]
  BY Zenon DEF Mat!Dot, Summed, SumTo
<1> QED
  BY <1>1, DotIsSum

\* What the shuffles make of four lanes,
LEMMA Shuffles ==
  ASSUME NEW s
  PROVE  /\ Mat!Pshufd(17, s) = <<s[2], s[1], s[2], s[1]>>
         /\ Mat!Pshufd(34, s) = <<s[3], s[1], s[3], s[1]>>
         /\ Mat!Pshufd(51, s) = <<s[4], s[1], s[4], s[1]>>
         /\ Mat!Pshufd(57, s) = <<s[2], s[3], s[4], s[1]>>
         /\ Mat!Pshufd(136, s) = <<s[1], s[3], s[1], s[3]>>
         /\ Mat!Pshufd(221, s) = <<s[2], s[4], s[2], s[4]>>
  BY DEF Mat!Pshufd

\* and the arithmetic of two and of four lanes.
LEMMA PairSum ==
  ASSUME NEW p, NEW q, NEW u, NEW v
  PROVE  Mat!Plus(<<p, q>>, <<u, v>>)[1] = p + u /\ Mat!Plus(<<p, q>>, <<u, v>>)[2] = q + v
  BY DEF Mat!Plus

LEMMA LaneSum ==
  ASSUME NEW s, NEW t, NEW m, DOMAIN s = 1 .. 4
  PROVE  \A n \in 1 .. 4 : Mat!Plus(Mat!Times(s, m), Mat!Times(t, m))[n] = s[n] * m[n] + Mat!Times(t, m)[n]
  BY DEF Mat!Plus, Mat!Times

LEMMA LaneProduct ==
  ASSUME NEW t, NEW m, DOMAIN t = 1 .. 4
  PROVE  \A n \in 1 .. 4 : Mat!Times(t, m)[n] = t[n] * m[n]
  BY DEF Mat!Times

-----------------------------------------------------------------------------
MatTypes ==
  /\ mat_prog \in {"avxmul", "sse01", "sse02"}
  /\ mat_a \in Mat!Matrices(mat_prog) /\ mat_b \in Mat!Matrices(mat_prog)
  /\ mat_rax \in Index /\ mat_rcx \in Index
  /\ \A r \in Index : \A c \in Index : mat_acc[r][c] \in Int

AvxInv ==
  /\ mat_pc \in {"start", "loop", "store", "done"}
  /\ mat_pc = "start" => mat_rax = 0
  /\ mat_pc = "loop" => mat_rcx # 0 /\ mat_rax + mat_rcx = N - 1
  /\ mat_pc = "store" => mat_rax = N - 1
  /\ mat_pc \in {"loop", "store"} =>
       \A r \in Index : \A c \in Index : mat_acc[r][c] = Mat!Dot(r, c, mat_rax)
  /\ mat_pc # "done" => mat_result = << >>
  /\ mat_pc = "done" =>
       mat_result = [n \in 1 .. N * N |-> Mat!Dot((n - 1) \div N, (n - 1) % N, N - 1)]

\* The four places of the comments.
Place1 == mat_a[1] * mat_b[1] + mat_a[1] * mat_b[2]
Place2 == mat_a[2] * mat_b[3] + mat_a[2] * mat_b[4]
Place3 == mat_a[3] * mat_b[1] + mat_a[3] * mat_b[2]
Place4 == mat_a[4] * mat_b[3] + mat_a[4] * mat_b[4]

Sse01Inv ==
  /\ mat_pc \in {"start", "right", "done"}
  /\ mat_pc = "start" => mat_result = << >>
  /\ mat_pc = "right" => mat_result = <<Place1, 0, Place3, 0>>
  /\ mat_pc = "done" => mat_result = <<Place1, Place2, Place3, Place4>>

Sse02Inv ==
  /\ mat_pc \in {"start", "print", "done"}
  /\ mat_pc # "done" => mat_result = << >>
  /\ mat_pc = "print" => /\ mat_xmm8[1] = Place1 /\ mat_xmm8[2] = Place2
                         /\ mat_xmm8[3] = Place3 /\ mat_xmm8[4] = Place4
  /\ mat_pc = "done" => mat_result = <<Place1, Place2, Place3, Place4>>

MatInv ==
  /\ MatTypes
  /\ mat_prog = "avxmul" => AvxInv
  /\ mat_prog = "sse01" => Sse01Inv
  /\ mat_prog = "sse02" => Sse02Inv

LEMMA MatInit == ASSUME Mat!Init PROVE MatInv
<1>1. /\ mat_prog \in {"avxmul", "sse01", "sse02"}
      /\ mat_a \in Mat!Matrices(mat_prog) /\ mat_b \in Mat!Matrices(mat_prog)
      /\ mat_pc = "start" /\ mat_rax = 0 /\ mat_rcx = 0 /\ mat_result = << >>
      /\ mat_acc = [r \in Index |-> [c \in Index |-> 0]]
  BY DEF Mat!Init, Mat!Zeros, Index
<1>2. 0 \in Index
  BY MatConstants DEF Index
<1>3. \A r \in Index : \A c \in Index : mat_acc[r][c] \in Int
  BY <1>1
<1> QED
  BY <1>1, <1>2, <1>3 DEF MatInv, MatTypes, AvxInv, Sse01Inv, Sse02Inv

\* avxmul's three steps.
LEMMA AvxFirstStep == ASSUME MatInv, Mat!AvxFirst PROVE MatInv'
<1>1. /\ mat_prog = "avxmul" /\ mat_pc = "start" /\ mat_pc' = "loop"
      /\ mat_acc' = [r \in Index |-> Mat!Scaled(r, 0)] /\ mat_rcx' = N - 1
      /\ UNCHANGED <<mat_prog, mat_a, mat_b, mat_rax, mat_xmm8, mat_result>>
  BY DEF Mat!AvxFirst, Mat!Goto, Index
<1>2. mat_a \in Squares /\ mat_b \in Squares /\ mat_rax = 0 /\ mat_result = << >>
  BY <1>1 DEF MatInv, MatTypes, AvxInv, Mat!Matrices
<1>3. 0 \in Index /\ N - 1 \in Index /\ N - 1 # 0 /\ 0 + (N - 1) = N - 1
  BY MatConstants DEF Index
<1>4. ASSUME NEW r \in Index, NEW c \in Index
      PROVE  mat_acc'[r][c] \in Int /\ mat_acc'[r][c] = Mat!Dot(r, c, 0)
  <2>1. mat_acc'[r][c] = Mat!At(mat_a, N, r, 0) * Mat!At(mat_b, N, 0, c)
    BY <1>1 DEF Mat!Scaled, Index
  <2>2. Mat!At(mat_a, N, r, 0) \in Int /\ Mat!At(mat_b, N, 0, c) \in Int
    BY <1>2, <1>3, ElementsAreInts
  <2>3. mat_acc'[r][c] = Mat!Dot(r, c, 0)
    BY <1>2, <2>1, DotGrows
  <2> QED
    BY <2>1, <2>2, <2>3
<1>5. \A r, c, k : Mat!Dot(r, c, k)' = Mat!Dot(r, c, k)
  BY <1>1, SameDot
<1>6. MatTypes'
  BY <1>1, <1>2, <1>3, <1>4 DEF MatInv, MatTypes, Mat!Matrices
<1>7. \A r \in Index : \A c \in Index : mat_acc'[r][c] = Mat!Dot(r, c, mat_rax)'
  BY <1>1, <1>2, <1>4, <1>5
<1>8. mat_rax' + mat_rcx' = N - 1 /\ mat_rcx' # 0
  BY <1>1, <1>2, <1>3
<1> QED
  BY <1>1, <1>2, <1>6, <1>7, <1>8 DEF MatInv, AvxInv, Index

LEMMA AvxLoopStep == ASSUME MatInv, Mat!AvxLoop PROVE MatInv'
<1>1. /\ mat_prog = "avxmul" /\ mat_pc = "loop"
      /\ mat_pc' = IF mat_rcx = 1 THEN "store" ELSE "loop"
      /\ mat_rax' = mat_rax + 1 /\ mat_rcx' = mat_rcx - 1
      /\ mat_acc' = [r \in Index |-> [c \in Index |-> mat_acc[r][c] + Mat!Scaled(r, mat_rax')[c]]]
      /\ UNCHANGED <<mat_prog, mat_a, mat_b, mat_xmm8, mat_result>>
  BY DEF Mat!AvxLoop, Mat!Goto, Index
<1>2. /\ mat_a \in Squares /\ mat_b \in Squares /\ mat_result = << >>
      /\ mat_rax \in Index /\ mat_rcx \in Index /\ mat_rcx # 0 /\ mat_rax + mat_rcx = N - 1
      /\ \A r \in Index : \A c \in Index :
           mat_acc[r][c] \in Int /\ mat_acc[r][c] = Mat!Dot(r, c, mat_rax)
  BY <1>1 DEF MatInv, MatTypes, AvxInv, Mat!Matrices
<1>3. /\ mat_rax + 1 \in Index /\ mat_rcx - 1 \in Index
      /\ (mat_rax + 1) + (mat_rcx - 1) = N - 1
      /\ mat_rcx = 1 => mat_rax + 1 = N - 1
      /\ mat_rcx # 1 => mat_rcx - 1 # 0
  BY <1>2, MatConstants DEF Index
<1>4. ASSUME NEW r \in Index, NEW c \in Index
      PROVE  mat_acc'[r][c] \in Int /\ mat_acc'[r][c] = Mat!Dot(r, c, mat_rax + 1)
  <2>1. Mat!Scaled(r, mat_rax')[c] =
          Mat!At(mat_a, N, r, mat_rax + 1) * Mat!At(mat_b, N, mat_rax + 1, c)
    BY <1>1 DEF Mat!Scaled, Index
  <2>2. mat_acc'[r][c] = mat_acc[r][c] + Mat!Scaled(r, mat_rax')[c]
    BY <1>1
  <2>3. Mat!At(mat_a, N, r, mat_rax + 1) \in Int /\ Mat!At(mat_b, N, mat_rax + 1, c) \in Int
    BY <1>2, <1>3, ElementsAreInts
  <2>4. Mat!Dot(r, c, mat_rax + 1) = Mat!Dot(r, c, mat_rax) +
          Mat!At(mat_a, N, r, mat_rax + 1) * Mat!At(mat_b, N, mat_rax + 1, c)
    BY <1>2, <1>3, DotGrows
  <2>5. mat_acc[r][c] \in Int /\ mat_acc[r][c] = Mat!Dot(r, c, mat_rax)
    BY <1>2
  <2> QED
    BY <2>1, <2>2, <2>3, <2>4, <2>5
<1>5. \A r, c, k : Mat!Dot(r, c, k)' = Mat!Dot(r, c, k)
  BY <1>1, SameDot
<1>6. MatTypes'
  BY <1>1, <1>2, <1>3, <1>4 DEF MatInv, MatTypes, Mat!Matrices
<1>7. \A r \in Index : \A c \in Index : mat_acc'[r][c] = Mat!Dot(r, c, mat_rax)'
  BY <1>1, <1>4, <1>5
<1>8. /\ mat_pc' \in {"loop", "store"}
      /\ mat_pc' = "loop" => mat_rcx' # 0 /\ mat_rax' + mat_rcx' = N - 1
      /\ mat_pc' = "store" => mat_rax' = N - 1
  BY <1>1, <1>3
<1> QED
  BY <1>1, <1>2, <1>6, <1>7, <1>8 DEF MatInv, AvxInv, Index

LEMMA AvxStoreStep == ASSUME MatInv, Mat!AvxStore PROVE MatInv'
<1>1. /\ mat_prog = "avxmul" /\ mat_pc = "store" /\ mat_pc' = "done"
      /\ mat_result' = [n \in 1 .. N * N |-> mat_acc[(n - 1) \div N][(n - 1) % N]]
      /\ UNCHANGED <<mat_prog, mat_a, mat_b, mat_rax, mat_rcx, mat_acc, mat_xmm8>>
  BY DEF Mat!AvxStore, Mat!Goto
<1>2. \A r \in Index : \A c \in Index : mat_acc[r][c] = Mat!Dot(r, c, N - 1)
  BY <1>1 DEF MatInv, AvxInv
<1>3. \A r, c, k : Mat!Dot(r, c, k)' = Mat!Dot(r, c, k)
  BY <1>1, SameDot
<1>4. \A n \in 1 .. N * N : mat_acc[(n - 1) \div N][(n - 1) % N] =
                              Mat!Dot((n - 1) \div N, (n - 1) % N, N - 1)'
  BY <1>2, <1>3, RowAndColumn
<1>5. mat_result' = [n \in 1 .. N * N |-> Mat!Dot((n - 1) \div N, (n - 1) % N, N - 1)']
  BY <1>1, <1>4
<1>6. MatTypes'
  BY <1>1 DEF MatInv, MatTypes, Mat!Matrices, Index
<1> QED
  BY <1>1, <1>5, <1>6 DEF MatInv, AvxInv, Index

\* The small matrices have four numbers.
LEMMA FourNumbers ==
  ASSUME MatInv, mat_prog # "avxmul"
  PROVE  /\ mat_a[1] \in Int /\ mat_a[2] \in Int /\ mat_a[3] \in Int /\ mat_a[4] \in Int
         /\ mat_b[1] \in Int /\ mat_b[2] \in Int /\ mat_b[3] \in Int /\ mat_b[4] \in Int
<1>1. mat_a \in [1 .. 4 -> Entries] /\ mat_b \in [1 .. 4 -> Entries]
  BY DEF MatInv, MatTypes, Mat!Matrices
<1>2. \A n \in 1 .. 4 : mat_a[n] \in Int /\ mat_b[n] \in Int
  BY <1>1, MatConstants
<1> QED
  BY <1>2

\* pmuldq takes the first and the third lane.
LEMMA PairProduct ==
  ASSUME NEW s, NEW t, NEW p, NEW q, NEW u, NEW v, NEW p2, NEW q2, NEW u2, NEW v2,
         s = <<p, q, u, v>>, t = <<p2, q2, u2, v2>>
  PROVE  Mat!Pmuldq(s, t) = <<p * p2, u * u2>>
<1>1. s[1] = p /\ s[3] = u /\ t[1] = p2 /\ t[3] = u2
  OBVIOUS
<1> QED
  BY <1>1 DEF Mat!Pmuldq

\* The integers: two products per place, by pairs.
LEMMA SseIntegers ==
  ASSUME MatInv, Mat!SseLeft \/ Mat!SseRight PROVE MatInv'
<1>0. mat_prog = "sse01"
  BY DEF Mat!SseLeft, Mat!SseRight
<1>1. UNCHANGED <<mat_prog, mat_a, mat_b, mat_rax, mat_rcx, mat_acc>>
  BY DEF Mat!SseLeft, Mat!SseRight
<1>2. MatTypes'
  BY <1>1 DEF MatInv, MatTypes, Mat!Matrices
<1>3. /\ Place1' = Place1 /\ Place2' = Place2 /\ Place3' = Place3 /\ Place4' = Place4
  BY <1>1 DEF Place1, Place2, Place3, Place4
<1>4. /\ mat_a[1] \in Int /\ mat_a[2] \in Int /\ mat_a[3] \in Int /\ mat_a[4] \in Int
      /\ mat_b[1] \in Int /\ mat_b[2] \in Int /\ mat_b[3] \in Int /\ mat_b[4] \in Int
  BY <1>0, FourNumbers
<1>5. CASE Mat!SseLeft
  <2>1. /\ mat_pc' = "right" /\ mat_result' = <<mat_xmm8'[1], 0, mat_xmm8'[2], 0>>
        /\ mat_xmm8' = Mat!Plus(Mat!Pmuldq(Mat!Movddup(mat_b), Mat!Movsldup(mat_a)),
                                Mat!Pmuldq(Mat!Pshufd(17, mat_b), Mat!Movsldup(mat_a)))
    BY <1>5 DEF Mat!SseLeft, Mat!Goto
  <2>2. Mat!Pmuldq(Mat!Movddup(mat_b), Mat!Movsldup(mat_a)) =
          <<mat_b[1] * mat_a[1], mat_b[1] * mat_a[3]>>
    BY DEF Mat!Pmuldq, Mat!Movddup, Mat!Movsldup
  <2>3. Mat!Pmuldq(Mat!Pshufd(17, mat_b), Mat!Movsldup(mat_a)) =
          <<mat_b[2] * mat_a[1], mat_b[2] * mat_a[3]>>
    <3> DEFINE s == Mat!Pshufd(17, mat_b)
               t == Mat!Movsldup(mat_a)
    <3>1. s = <<mat_b[2], mat_b[1], mat_b[2], mat_b[1]>>
      BY Shuffles
    <3>2. t = <<mat_a[1], mat_a[1], mat_a[3], mat_a[3]>>
      BY DEF Mat!Movsldup
    <3> HIDE DEF s, t
    <3>3. Mat!Pmuldq(s, t) = <<mat_b[2] * mat_a[1], mat_b[2] * mat_a[3]>>
      BY <3>1, <3>2, PairProduct
    <3> QED
      BY <3>3 DEF s, t
  <2>4. /\ mat_xmm8'[1] = mat_b[1] * mat_a[1] + mat_b[2] * mat_a[1]
        /\ mat_xmm8'[2] = mat_b[1] * mat_a[3] + mat_b[2] * mat_a[3]
    BY <2>1, <2>2, <2>3, PairSum
  <2>5. mat_xmm8'[1] = Place1 /\ mat_xmm8'[2] = Place3
    BY <1>4, <2>4 DEF Place1, Place3
  <2>6. mat_result' = <<Place1, 0, Place3, 0>>
    BY <2>1, <2>5
  <2> QED
    BY <1>0, <1>1, <1>2, <1>3, <2>1, <2>6 DEF MatInv, Sse01Inv
<1>6. CASE Mat!SseRight
  <2>1. /\ mat_pc = "right" /\ mat_pc' = "done"
        /\ mat_result' = <<mat_result[1], mat_xmm8'[1], mat_result[3], mat_xmm8'[2]>>
        /\ mat_xmm8' = Mat!Plus(Mat!Pmuldq(Mat!Pshufd(34, mat_b), Mat!Movshdup(mat_a)),
                                Mat!Pmuldq(Mat!Pshufd(51, mat_b), Mat!Movshdup(mat_a)))
    BY <1>6 DEF Mat!SseRight, Mat!Goto
  <2>2. Mat!Pmuldq(Mat!Pshufd(34, mat_b), Mat!Movshdup(mat_a)) =
          <<mat_b[3] * mat_a[2], mat_b[3] * mat_a[4]>>
    <3> DEFINE s == Mat!Pshufd(34, mat_b)
               t == Mat!Movshdup(mat_a)
    <3>1. s = <<mat_b[3], mat_b[1], mat_b[3], mat_b[1]>>
      BY Shuffles
    <3>2. t = <<mat_a[2], mat_a[2], mat_a[4], mat_a[4]>>
      BY DEF Mat!Movshdup
    <3> HIDE DEF s, t
    <3>3. Mat!Pmuldq(s, t) = <<mat_b[3] * mat_a[2], mat_b[3] * mat_a[4]>>
      BY <3>1, <3>2, PairProduct
    <3> QED
      BY <3>3 DEF s, t
  <2>3. Mat!Pmuldq(Mat!Pshufd(51, mat_b), Mat!Movshdup(mat_a)) =
          <<mat_b[4] * mat_a[2], mat_b[4] * mat_a[4]>>
    <3> DEFINE s == Mat!Pshufd(51, mat_b)
               t == Mat!Movshdup(mat_a)
    <3>1. s = <<mat_b[4], mat_b[1], mat_b[4], mat_b[1]>>
      BY Shuffles
    <3>2. t = <<mat_a[2], mat_a[2], mat_a[4], mat_a[4]>>
      BY DEF Mat!Movshdup
    <3> HIDE DEF s, t
    <3>3. Mat!Pmuldq(s, t) = <<mat_b[4] * mat_a[2], mat_b[4] * mat_a[4]>>
      BY <3>1, <3>2, PairProduct
    <3> QED
      BY <3>3 DEF s, t
  <2>4. /\ mat_xmm8'[1] = mat_b[3] * mat_a[2] + mat_b[4] * mat_a[2]
        /\ mat_xmm8'[2] = mat_b[3] * mat_a[4] + mat_b[4] * mat_a[4]
    BY <2>1, <2>2, <2>3, PairSum
  <2>5. mat_xmm8'[1] = Place2 /\ mat_xmm8'[2] = Place4
    BY <1>4, <2>4 DEF Place2, Place4
  <2>6. mat_result[1] = Place1 /\ mat_result[3] = Place3
    BY <1>0, <2>1 DEF MatInv, Sse01Inv
  <2>7. mat_result' = <<Place1, Place2, Place3, Place4>>
    BY <2>1, <2>5, <2>6
  <2> QED
    BY <1>0, <1>1, <1>2, <1>3, <2>1, <2>7 DEF MatInv, Sse01Inv
<1> QED
  BY <1>5, <1>6

\* The floats: four lanes at once, then each to the front in turn.
LEMMA SseFloats ==
  ASSUME MatInv, Mat!SseFloat \/ Mat!SsePrint PROVE MatInv'
<1>0. mat_prog = "sse02"
  BY DEF Mat!SseFloat, Mat!SsePrint
<1>1. UNCHANGED <<mat_prog, mat_a, mat_b, mat_rax, mat_rcx, mat_acc>>
  BY DEF Mat!SseFloat, Mat!SsePrint
<1>2. MatTypes'
  BY <1>1 DEF MatInv, MatTypes, Mat!Matrices
<1>3. /\ Place1' = Place1 /\ Place2' = Place2 /\ Place3' = Place3 /\ Place4' = Place4
  BY <1>1 DEF Place1, Place2, Place3, Place4
<1>4. /\ mat_a[1] \in Int /\ mat_a[2] \in Int /\ mat_a[3] \in Int /\ mat_a[4] \in Int
      /\ mat_b[1] \in Int /\ mat_b[2] \in Int /\ mat_b[3] \in Int /\ mat_b[4] \in Int
  BY <1>0, FourNumbers
<1>5. CASE Mat!SseFloat
  <2> DEFINE s == Mat!Pshufd(136, mat_b)
             t == Mat!Pshufd(221, mat_b)
  <2>1. /\ mat_pc = "start" /\ mat_pc' = "print" /\ UNCHANGED mat_result
        /\ mat_xmm8' = Mat!Plus(Mat!Times(s, mat_a), Mat!Times(t, mat_a))
    BY <1>5 DEF Mat!SseFloat, Mat!Goto
  <2>2. /\ s = <<mat_b[1], mat_b[3], mat_b[1], mat_b[3]>>
        /\ t = <<mat_b[2], mat_b[4], mat_b[2], mat_b[4]>>
    BY Shuffles
  <2> HIDE DEF s, t
  <2>3. DOMAIN s = 1 .. 4 /\ DOMAIN t = 1 .. 4
    BY <2>2
  <2>4. \A n \in 1 .. 4 : mat_xmm8'[n] = s[n] * mat_a[n] + t[n] * mat_a[n]
    BY <2>1, <2>3, LaneSum, LaneProduct
  <2>5. /\ mat_xmm8'[1] = mat_b[1] * mat_a[1] + mat_b[2] * mat_a[1]
        /\ mat_xmm8'[2] = mat_b[3] * mat_a[2] + mat_b[4] * mat_a[2]
        /\ mat_xmm8'[3] = mat_b[1] * mat_a[3] + mat_b[2] * mat_a[3]
        /\ mat_xmm8'[4] = mat_b[3] * mat_a[4] + mat_b[4] * mat_a[4]
    BY <2>2, <2>4
  <2>6. /\ mat_xmm8'[1] = Place1 /\ mat_xmm8'[2] = Place2
        /\ mat_xmm8'[3] = Place3 /\ mat_xmm8'[4] = Place4
    BY <1>4, <2>5 DEF Place1, Place2, Place3, Place4
  <2>7. mat_result' = << >>
    BY <1>0, <2>1 DEF MatInv, Sse02Inv
  <2> QED
    BY <1>0, <1>1, <1>2, <1>3, <2>1, <2>6, <2>7 DEF MatInv, Sse02Inv
<1>6. CASE Mat!SsePrint
  <2> DEFINE s == mat_xmm8
             turn(q) == Mat!Pshufd(57, q)
  <2>1. /\ mat_pc = "print" /\ mat_pc' = "done"
        /\ mat_result' = <<s[1], turn(s)[1], turn(turn(s))[1], turn(turn(turn(s)))[1]>>
    BY <1>6 DEF Mat!SsePrint, Mat!Goto
  <2>2. \A q : turn(q) = <<q[2], q[3], q[4], q[1]>>
    BY Shuffles
  <2> HIDE DEF turn, s
  <2>3. turn(s) = <<s[2], s[3], s[4], s[1]>>
    BY <2>2
  <2>4. turn(turn(s)) = <<s[3], s[4], s[1], s[2]>>
    BY <2>2, <2>3
  <2>5. turn(turn(turn(s))) = <<s[4], s[1], s[2], s[3]>>
    BY <2>2, <2>4
  <2>6. /\ turn(s)[1] = s[2] /\ turn(turn(s))[1] = s[3] /\ turn(turn(turn(s)))[1] = s[4]
    BY <2>3, <2>4, <2>5
  <2>7. s[1] = Place1 /\ s[2] = Place2 /\ s[3] = Place3 /\ s[4] = Place4
    BY <1>0, <2>1 DEF MatInv, Sse02Inv, s
  <2>8. mat_result' = <<Place1, Place2, Place3, Place4>>
    BY <2>1, <2>6, <2>7
  <2> QED
    BY <1>0, <1>1, <1>2, <1>3, <2>1, <2>8 DEF MatInv, Sse02Inv
<1> QED
  BY <1>5, <1>6

LEMMA MatStep == ASSUME MatInv, Mat!Next PROVE MatInv'
  BY AvxFirstStep, AvxLoopStep, AvxStoreStep, SseIntegers, SseFloats DEF Mat!Next

LEMMA MatStutter == ASSUME MatInv, UNCHANGED mat_vars PROVE MatInv'
<1>1. UNCHANGED <<mat_pc, mat_prog, mat_a, mat_b, mat_rax, mat_rcx, mat_acc, mat_xmm8, mat_result>>
  BY DEF mat_vars
<1>2. \A r, c, k : Mat!Dot(r, c, k)' = Mat!Dot(r, c, k)
  BY <1>1, SameDot
<1>3. MatTypes' /\ (mat_prog = "avxmul" => AvxInv')
  BY <1>1, <1>2 DEF MatInv, MatTypes, AvxInv, Mat!Matrices
<1>4. (mat_prog = "sse01" => Sse01Inv') /\ (mat_prog = "sse02" => Sse02Inv')
  BY <1>1 DEF MatInv, Sse01Inv, Sse02Inv, Place1, Place2, Place3, Place4
<1> QED
  BY <1>1, <1>3, <1>4 DEF MatInv

LEMMA MatSafe ==
  ASSUME MatInv PROVE Mat!TypeOK /\ Mat!PartialProducts /\ Mat!AsTheCommentSays
<1>1. Mat!PartialProducts
  BY DEF MatInv, AvxInv, Mat!PartialProducts, Index
<1>2. Mat!AsTheCommentSays
  BY DEF MatInv, MatTypes, Sse01Inv, Sse02Inv, Mat!AsTheCommentSays, Place1, Place2, Place3, Place4
<1>3. Len(mat_result) \in {0, 4, N * N}
  <2>1. CASE mat_prog = "avxmul"
    <3>1. CASE mat_pc # "done"
      BY <2>1, <3>1 DEF MatInv, AvxInv
    <3>2. CASE mat_pc = "done"
      <4>1. mat_result = [n \in 1 .. N * N |-> mat_result[n]]
        BY <2>1, <3>2 DEF MatInv, AvxInv
      <4>2. Len(mat_result) = N * N
        BY <4>1, MatConstants, Given
      <4> QED
        BY <4>2
    <3> QED
      BY <3>1, <3>2
  <2>2. CASE mat_prog # "avxmul"
    <3>1. mat_result = << >> \/ \E p, q, u, v : mat_result = <<p, q, u, v>>
      BY <2>2 DEF MatInv, MatTypes, Sse01Inv, Sse02Inv
    <3> QED
      BY <3>1
  <2> QED
    BY <2>1, <2>2
<1>4. /\ mat_pc \in {"start", "loop", "store", "right", "print", "done"}
      /\ mat_pc = "loop" => mat_rax + mat_rcx = N - 1
  BY DEF MatInv, MatTypes, AvxInv, Sse01Inv, Sse02Inv
<1> QED
  BY <1>1, <1>2, <1>3, <1>4 DEF Mat!TypeOK, MatInv, MatTypes, Index

-----------------------------------------------------------------------------
(***************************************************************************)
(* Coloured hexdump. The class of every byte is known, and from the tenth  *)
(* on the open tspan is that of the byte before.                           *)
(***************************************************************************)
ClassOf(n) == Hex!GetSection(IF n <= 9 THEN hex_lineoff + n - 1 ELSE hex_lineoff + n - 2)

HexInv ==
  /\ Hex!TypeOK /\ Hex!TspansBalanced
  /\ hex_layout \in Layouts /\ hex_lineoff \in Nat /\ hex_bytelen \in Nat
  /\ hex_pc = "line" => hex_i = 1 /\ hex_open = 0
  /\ hex_pc = "byte" => hex_i <= hex_bytelen
  /\ hex_pc = "byte" /\ hex_i >= 10 => hex_s_sec = Hex!GetSection(hex_lineoff + hex_i - 2)
  /\ hex_classes \in Seq(Nat)
  /\ \A n \in DOMAIN hex_classes : hex_classes[n] = ClassOf(n)

LEMMA HexConstants ==
  /\ MaxBytes \in Nat /\ LineOffs \subseteq Nat
  /\ \A l \in Layouts : l # << >> /\ l \in Seq([addr : Nat, length : Nat])
  BY ProgramsAssumption DEF Hex!DumpAssumption

\* The section found is the last of those that hold the offset, if there is one.
LEMMA SectionFound ==
  ASSUME hex_layout \in Layouts, NEW pos \in Int
  PROVE  /\ Hex!GetSection(pos) \in DOMAIN hex_layout \cup {0}
         /\ Hex!GetSection(pos) \in Nat
         /\ Hex!Holds(Hex!GetSection(pos), pos)
         /\ Hex!GetSection(pos) = 0 =>
              \A j \in DOMAIN hex_layout : hex_layout[j].addr = 0 \/ ~ Hex!Holds(j, pos)
<1> DEFINE in == {j \in DOMAIN hex_layout :
                   /\ hex_layout[j].addr # 0
                   /\ pos >= hex_layout[j].addr /\ pos < hex_layout[j].addr + hex_layout[j].length}
<1>1. Len(hex_layout) \in Nat /\ DOMAIN hex_layout = 1 .. Len(hex_layout)
  BY HexConstants, LenProperties
<1>2. Hex!GetSection(pos) = IF in = {} THEN 0 ELSE CHOOSE j \in in : \A k \in in : k <= j
  BY DEF Hex!GetSection, Hex!None
<1>3. CASE in = {}
  BY <1>1, <1>2, <1>3 DEF Hex!Holds, Hex!None
<1>4. CASE in # {}
  <2>1. in \in SUBSET (0 .. Len(hex_layout))
    BY <1>1
  <2>2. \E j \in in : \A k \in in : k <= j
    BY <1>1, <1>4, <2>1, Greatest
  <2>3. Hex!GetSection(pos) \in in
    BY <1>2, <1>4, <2>2
  <2> QED
    BY <2>3, <1>1 DEF Hex!Holds, Hex!None
<1> QED
  BY <1>3, <1>4

LEMMA HexInit == ASSUME Hex!Init PROVE HexInv
<1>1. /\ hex_layout \in Layouts /\ hex_lineoff \in Nat /\ hex_bytelen \in Nat
      /\ hex_pc = "line" /\ hex_i = 1 /\ hex_s_sec \in {0, 1} /\ hex_open = 0
      /\ hex_classes = << >>
  BY HexConstants DEF Hex!Init, Hex!None
<1>2. Len(hex_layout) \in Nat \ {0} /\ DOMAIN hex_layout = 1 .. Len(hex_layout)
  BY <1>1, HexConstants, EmptySeq, LenProperties
<1> QED
  BY <1>1, <1>2 DEF HexInv, Hex!TypeOK, Hex!TspansBalanced, Hex!None

\* A byte more, in the class of its place.
LEMMA HexAppended ==
  ASSUME HexInv, hex_pc = "byte", NEW here, here = ClassOf(hex_i), hex_layout \in Layouts,
         UNCHANGED <<hex_layout, hex_lineoff>>, hex_classes' = Append(hex_classes, here)
  PROVE  /\ hex_classes' \in Seq(Nat) /\ Len(hex_classes)' = hex_i
         /\ \A n \in DOMAIN hex_classes' : hex_classes'[n] = ClassOf(n)'
<1>1. hex_i \in Nat /\ Len(hex_classes) = hex_i - 1 /\ hex_classes \in Seq(Nat) /\ hex_lineoff \in Nat
  BY DEF HexInv, Hex!TypeOK
<1>2. here \in Nat
  BY <1>1, SectionFound DEF ClassOf
<1>3. /\ hex_classes' \in Seq(Nat) /\ Len(hex_classes') = hex_i /\ DOMAIN hex_classes' = 1 .. hex_i
      /\ \A n \in 1 .. hex_i - 1 : hex_classes'[n] = hex_classes[n]
      /\ hex_classes'[hex_i] = here
  BY <1>1, <1>2, AppendProperties, LenProperties
<1>4. \A n \in 1 .. hex_i : ClassOf(n)' = ClassOf(n)
  BY DEF ClassOf, Hex!GetSection, Hex!None
<1>5. \A n \in 1 .. hex_i - 1 : hex_classes[n] = ClassOf(n)
  BY <1>1, LenProperties DEF HexInv
<1> QED
  BY <1>1, <1>3, <1>4, <1>5

LEMMA HexBytes == ASSUME HexInv, Hex!LeftByte \/ Hex!RightByte PROVE HexInv'
<1> DEFINE here == ClassOf(hex_i)
<1>1. /\ hex_pc = "byte" /\ hex_i \in 1 .. hex_bytelen /\ hex_i' = hex_i + 1
      /\ hex_pc' = IF hex_i = hex_bytelen THEN "chars" ELSE "byte"
      /\ UNCHANGED <<hex_layout, hex_lineoff, hex_bytelen>>
      /\ hex_layout \in Layouts /\ hex_lineoff \in Nat /\ hex_bytelen \in Nat
  BY DEF Hex!LeftByte, Hex!RightByte, Hex!NextByte, HexInv, Hex!TypeOK
<1>2. /\ hex_classes' = Append(hex_classes, here)
      /\ hex_s_sec' = IF hex_i < 9 \/ hex_i = hex_bytelen THEN here
                      ELSE Hex!GetSection(hex_lineoff + hex_i - 1)
  <2>1. CASE Hex!LeftByte
    BY <1>1, <2>1 DEF Hex!LeftByte, Hex!ByteOff, ClassOf
  <2>2. CASE Hex!RightByte
    BY <1>1, <2>2 DEF Hex!RightByte, Hex!ByteOff, ClassOf, HexInv
  <2> QED
    BY <2>1, <2>2
<1>3. hex_open' = IF hex_pc' = "chars" \/ hex_i' = 9 THEN 0 ELSE 1
  BY <1>1 DEF Hex!LeftByte, Hex!RightByte, HexInv, Hex!TspansBalanced
<1>4. /\ hex_classes' \in Seq(Nat) /\ Len(hex_classes)' = hex_i
      /\ \A n \in DOMAIN hex_classes' : hex_classes'[n] = ClassOf(n)'
  BY <1>1, <1>2, HexAppended
<1>5. hex_s_sec' \in DOMAIN hex_layout \cup {0}
  <2>1. /\ here \in DOMAIN hex_layout \cup {0}
        /\ Hex!GetSection(hex_lineoff + hex_i - 1) \in DOMAIN hex_layout \cup {0}
    BY <1>1, SectionFound DEF ClassOf
  <2> HIDE DEF here
  <2> QED
    BY <1>2, <2>1
<1>6. \A pos \in Int : Hex!GetSection(pos)' = Hex!GetSection(pos)
  BY <1>1 DEF Hex!GetSection, Hex!None
<1>7. Hex!TypeOK' /\ Hex!TspansBalanced'
  BY <1>1, <1>3, <1>4, <1>5 DEF Hex!TypeOK, Hex!TspansBalanced, Hex!None
<1>8. (hex_pc = "byte" /\ hex_i >= 10 => hex_s_sec = Hex!GetSection(hex_lineoff + hex_i - 2))'
  BY <1>1, <1>2, <1>6
<1> QED
  BY <1>1, <1>4, <1>7, <1>8 DEF HexInv

LEMMA HexStutter ==
  ASSUME HexInv,
         UNCHANGED <<hex_layout, hex_lineoff, hex_bytelen, hex_i, hex_s_sec, hex_open, hex_classes>>,
         \/ UNCHANGED hex_pc
         \/ hex_pc = "line" /\ hex_pc' = IF hex_bytelen = 0 THEN "next" ELSE "byte"
         \/ hex_pc = "chars" /\ hex_pc' = "next"
  PROVE  HexInv'
<1>1. \A n : ClassOf(n)' = ClassOf(n)
  BY DEF ClassOf, Hex!GetSection, Hex!None
<1>2. Hex!GetSection(hex_lineoff + hex_i - 2)' = Hex!GetSection(hex_lineoff + hex_i - 2)
  BY DEF Hex!GetSection, Hex!None
<1> QED
  BY <1>1, <1>2 DEF HexInv, Hex!TypeOK, Hex!TspansBalanced, Hex!None

LEMMA HexStep == ASSUME HexInv, Hex!Next \/ UNCHANGED hex_vars PROVE HexInv'
  BY HexBytes, HexStutter DEF Hex!Next, Hex!Line, Hex!Chars, hex_vars

LEMMA HexSafe ==
  ASSUME HexInv
  PROVE  Hex!TypeOK /\ Hex!TspansBalanced /\ Hex!ColourIsSectionOrLags
<1>1. ASSUME NEW n \in DOMAIN hex_classes
      PROVE  LET at == IF n <= 9 THEN hex_lineoff + n - 1 ELSE hex_lineoff + n - 1 - 1
             IN  /\ Hex!Holds(hex_classes[n], at)
                 /\ hex_classes[n] = 0 =>
                      \A j \in DOMAIN hex_layout : hex_layout[j].addr = 0 \/ ~ Hex!Holds(j, at)
  <2>1. n \in Nat /\ hex_lineoff \in Nat /\ hex_layout \in Layouts /\ hex_classes[n] = ClassOf(n)
    BY LenProperties DEF HexInv
  <2>2. hex_lineoff + n - 1 - 1 = hex_lineoff + n - 2
    BY <2>1
  <2>3. hex_lineoff + n - 1 \in Int /\ hex_lineoff + n - 2 \in Int
    BY <2>1
  <2> QED
    BY <2>1, <2>2, <2>3, SectionFound DEF ClassOf
<1> QED
  BY <1>1 DEF HexInv, Hex!ColourIsSectionOrLags, Hex!None

-----------------------------------------------------------------------------
(***************************************************************************)
(* idioms/: the ints that atoi returns fit into a register which is twice  *)
(* as wide, so that no sum or difference wraps where it should not.        *)
(***************************************************************************)
\* What the registers hold on the way to the computation.
OnTheWay ==
  /\ pc = "parse2" => prog = "min" /\ rax = Atoi(x, ext)
  /\ pc = "compute" /\ prog # "min" => rax = Atoi(x, ext)
  /\ pc = "compute" /\ prog = "min" => r12 = Atoi(x, ext) /\ rax = Atoi(y, ext)

IdiomsInv == TypeOK /\ OnTheWay /\ AbsExact /\ MinExact /\ BoundExact

-----------------------------------------------------------------------------
\* atoi's int fits a register, signed or not.
LEMMA AtoiInReg ==
  ASSUME NEW v \in Int32, NEW how \in {"sign", "zero"}
  PROVE  /\ Atoi(v, how) \in Reg
         /\ how = "sign" => Signed(Atoi(v, how)) = v
         /\ how = "zero" => Atoi(v, how) < 2 * IntHalf
  BY IdiomsAssumption DEF Atoi, Reg, Int32, Signed

\* abs of any register is a register; its value is the number without sign.
LEMMA AbsIsAbsolute ==
  ASSUME NEW r \in Reg
  PROVE  /\ Abs(r) \in Reg
         /\ Abs(r) = IF r >= RegHalf THEN 2 * RegHalf - r ELSE r
  BY IdiomsAssumption DEF Abs, Flip, Sign, Wrap, Ones, Reg

\* min of two registers whose difference does not overflow.
LEMMA MinIsSmaller ==
  ASSUME NEW b \in Reg, NEW a \in Reg,
         Signed(b) - Signed(a) \in -RegHalf .. RegHalf - 1
  PROVE  Min(b, a) = IF Signed(b) < Signed(a) THEN b ELSE a
<1> USE IdiomsAssumption
<1>1. Sign(Wrap(b - a)) = IF Signed(b) < Signed(a) THEN Ones ELSE 0
  BY DEF Sign, Wrap, Signed, Ones, Reg
<1>2. Ones # 0
  BY DEF Ones
<1>3. b \in Int /\ a \in Int
  BY DEF Reg
<1> QED
  BY <1>1, <1>2, <1>3 DEF Min, Masked, Not

\* bounds lets through what is below the limit as an unsigned number.
LEMMA BoundIsLimit ==
  ASSUME NEW r \in Reg
  PROVE  /\ Bound(r) \in Reg
         /\ Bound(r) = IF r < Upper THEN r ELSE Upper
<1> USE IdiomsAssumption
<1>1. Ones # 0
  BY DEF Ones
<1> QED
  BY <1>1 DEF Bound, Masked, Not, Wrap, Reg

-----------------------------------------------------------------------------
LEMMA IdiomsInit == Init => IdiomsInv
  BY IdiomsAssumption
  DEF Init, IdiomsInv, TypeOK, OnTheWay, AbsExact, MinExact, BoundExact, Printed, Reg

LEMMA IdiomsStep == IdiomsInv /\ [Next]_vars => IdiomsInv'
<1> SUFFICES ASSUME IdiomsInv, [Next]_vars PROVE IdiomsInv'
  OBVIOUS
<1> USE IdiomsAssumption
<1>1. CASE Parse
  <2>1. Atoi(x, ext) \in Reg
    BY AtoiInReg DEF IdiomsInv, TypeOK
  <2> QED
    BY <1>1, <2>1
    DEF Parse, Goto, IdiomsInv, TypeOK, OnTheWay, AbsExact, MinExact, BoundExact, Printed
<1>2. CASE ParseSecond
  <2>1. Atoi(y, ext) \in Reg
    BY AtoiInReg DEF IdiomsInv, TypeOK
  <2> QED
    BY <1>2, <2>1
    DEF ParseSecond, Goto, IdiomsInv, TypeOK, OnTheWay, AbsExact, MinExact, BoundExact, Printed
<1>3. CASE Compute
  <2> DEFINE b == Atoi(x, ext)
             a == Atoi(y, ext)
  <2>0. x \in Int32 /\ y \in Int32 /\ ext \in {"sign", "zero"} /\ prog \in {"abs", "min", "bounds"}
    BY DEF IdiomsInv, TypeOK
  <2>1. b \in Reg /\ a \in Reg
    BY <2>0, AtoiInReg
  <2>2. UNCHANGED <<prog, x, y, rax, r12, ext>> /\ pc = "compute" /\ pc' = "printed"
    BY <1>3 DEF Compute, Goto
  <2>3. CASE prog = "abs"
    <3>1. result' = Abs(b)
      BY <1>3, <2>2, <2>3 DEF Compute, IdiomsInv, OnTheWay
    <3>2. /\ Abs(b) \in Reg
          /\ Abs(b) = IF b >= RegHalf THEN 2 * RegHalf - b ELSE b
      BY <2>1, AbsIsAbsolute
    <3>3. AbsExact'
      BY <3>1, <3>2, <2>0, <2>2 DEF AbsExact, Extended, Printed, Atoi, Int32
    <3> QED
      BY <3>1, <3>2, <3>3, <2>2, <2>3
      DEF IdiomsInv, TypeOK, OnTheWay, MinExact, BoundExact, Printed
  <2>4. CASE prog = "min"
    <3>1. result' = Min(b, a)
      BY <1>3, <2>2, <2>4 DEF Compute, IdiomsInv, OnTheWay
    <3>2. Signed(b) - Signed(a) \in -RegHalf .. RegHalf - 1
      BY <2>0 DEF Signed, Atoi, Int32
    <3>3. Min(b, a) = IF Signed(b) < Signed(a) THEN b ELSE a
      BY <2>1, <3>2, MinIsSmaller
    <3>4. MinExact'
      BY <3>1, <3>3, <2>0, <2>2 DEF MinExact, Extended, Printed, Atoi, Int32, Signed
    <3>5. result' \in Reg
      BY <3>1, <3>3, <2>1
    <3> QED
      BY <3>4, <3>5, <2>2, <2>4
      DEF IdiomsInv, TypeOK, OnTheWay, AbsExact, BoundExact, Printed
  <2>5. CASE prog = "bounds"
    <3>1. result' = Bound(b)
      BY <1>3, <2>2, <2>5 DEF Compute, IdiomsInv, OnTheWay
    <3>2. /\ Bound(b) \in Reg
          /\ Bound(b) = IF b < Upper THEN b ELSE Upper
      BY <2>1, BoundIsLimit
    <3>3. BoundExact'
      BY <3>1, <3>2, <2>0, <2>2 DEF BoundExact, Printed, Atoi, Int32
    <3> QED
      BY <3>1, <3>2, <3>3, <2>2, <2>5
      DEF IdiomsInv, TypeOK, OnTheWay, AbsExact, MinExact, Printed
  <2> QED
    BY <2>0, <2>3, <2>4, <2>5
<1>4. CASE UNCHANGED vars
  BY <1>4 DEF vars, IdiomsInv, TypeOK, OnTheWay, AbsExact, MinExact, BoundExact, Printed, Extended
<1> QED
  BY <1>1, <1>2, <1>3, <1>4 DEF Next

LEMMA IdiomsSafe ==
  /\ IdiomsInv => IdiomsExact
  /\ NoIdioms => IdiomsExact
  BY DEF IdiomsInv, IdiomsExact, NoIdioms, Absent, AbsExact, MinExact, BoundExact, Printed

-----------------------------------------------------------------------------
\* The invariant of the one that runs.
ProgramsInv ==
  /\ program = "getdents" => DentsInv
  /\ program = "envvars" => EnvInv
  /\ program = "cpuid" => CpuInv
  /\ program = "libself" => MapsInv
  /\ program = "hdpp" => HexInv
  /\ program = "asmcrypt" => RotInv
  /\ program = "matrix" => MatInv
  /\ program = "idioms" => IdiomsInv
  /\ program # "idioms" => NoIdioms

LEMMA StartInv == Start => ProgramsInv
<1> SUFFICES ASSUME Start PROVE ProgramsInv
  OBVIOUS
<1>1. program = "getdents" => DentsInv
  BY DentsInit DEF Start
<1>2. program = "envvars" => EnvInv
  BY EnvInit DEF Start
<1>3. program = "cpuid" => CpuInv
  BY CpuInit DEF Start
<1>4. program = "libself" => MapsInv
  BY MapsInit DEF Start
<1>5. program = "hdpp" => HexInv
  BY HexInit DEF Start
<1>6. program = "asmcrypt" => RotInv
  BY RotInit DEF Start
<1>7. program = "matrix" => MatInv
  BY MatInit DEF Start
<1>8. (program = "idioms" => IdiomsInv) /\ (program # "idioms" => NoIdioms)
  BY IdiomsInit DEF Start
<1> QED
  BY <1>1, <1>2, <1>3, <1>4, <1>5, <1>6, <1>7, <1>8 DEF ProgramsInv

LEMMA NoIdiomsStays == ASSUME NoIdioms, UNCHANGED vars PROVE NoIdioms'
  BY DEF NoIdioms, vars

LEMMA ProgramsStep == ProgramsInv /\ [Step]_allVars => ProgramsInv'
<1> SUFFICES ASSUME ProgramsInv, [Step]_allVars PROVE ProgramsInv'
  OBVIOUS
<1>0. program' = program
  BY DEF Step, allVars
<1>1. ASSUME program = "getdents" PROVE DentsInv'
  <2>1. DentsInv /\ (Dents!Next \/ UNCHANGED dents_vars)
    BY <1>1 DEF ProgramsInv, Step, allVars
  <2> QED
    BY <2>1, DentsStep, DentsStutter
<1>2. ASSUME program = "envvars" PROVE EnvInv'
  <2>1. EnvInv /\ (Env!Next \/ UNCHANGED env_vars)
    BY <1>2 DEF ProgramsInv, Step, allVars
  <2> QED
    BY <2>1, EnvStep, EnvStutter
<1>3. ASSUME program = "cpuid" PROVE CpuInv'
  <2>1. CpuInv /\ (Cpuid!Next \/ UNCHANGED cpuid_vars)
    BY <1>3 DEF ProgramsInv, Step, allVars
  <2> QED
    BY <2>1, CpuStep, CpuStutter
<1>4. ASSUME program = "libself" PROVE MapsInv'
  <2>1. MapsInv /\ (Maps!Next \/ UNCHANGED maps_vars)
    BY <1>4 DEF ProgramsInv, Step, allVars
  <2> QED
    BY <2>1, MapsStep, MapsStutter
<1>5. ASSUME program = "hdpp" PROVE HexInv'
  <2>1. HexInv /\ (Hex!Next \/ UNCHANGED hex_vars)
    BY <1>5 DEF ProgramsInv, Step, allVars
  <2> QED
    BY <2>1, HexStep
<1>6. ASSUME program = "asmcrypt" PROVE RotInv'
  <2>1. RotInv /\ (Rot!Next \/ UNCHANGED rot_vars)
    BY <1>6 DEF ProgramsInv, Step, allVars
  <2> QED
    BY <2>1, RotStep, RotStutter
<1>7. ASSUME program = "matrix" PROVE MatInv'
  <2>1. MatInv /\ (Mat!Next \/ UNCHANGED mat_vars)
    BY <1>7 DEF ProgramsInv, Step, allVars
  <2> QED
    BY <2>1, MatStep, MatStutter
<1>8. ASSUME program = "idioms" PROVE IdiomsInv'
  <2>1. IdiomsInv /\ [Next]_vars
    BY <1>8 DEF ProgramsInv, Step, allVars
  <2> QED
    BY <2>1, IdiomsStep
<1>9. ASSUME program # "idioms" PROVE NoIdioms'
  <2>1. NoIdioms /\ UNCHANGED vars
    BY <1>9 DEF ProgramsInv, Step, allVars
  <2> QED
    BY <2>1, NoIdiomsStays
<1> QED
  BY <1>0, <1>1, <1>2, <1>3, <1>4, <1>5, <1>6, <1>7, <1>8, <1>9 DEF ProgramsInv

LEMMA Invariance == Behaviour => []ProgramsInv
  BY StartInv, ProgramsStep, PTL DEF Behaviour

-----------------------------------------------------------------------------
(***************************************************************************)
(* dents.s prints a line per record of every directory and the whole       *)
(* directory if it fits, envvars.s and vars.s all of argv and envp,        *)
(* however many there are, and printSelfMaps every mapping of every maps   *)
(* file, with its own path (dents.s, envvars.s, vars.s, libself.c).        *)
(***************************************************************************)
THEOREM ListsWalked == Behaviour => []WalksWholeList
<1>1. ProgramsInv => WalksWholeList
  BY DentsSafe, EnvSafe, MapsSafe DEF ProgramsInv, WalksWholeList
<1> QED
  BY Invariance, <1>1, PTL

(***************************************************************************)
(* What the programs of cpuid/ print is what the registers held, for every *)
(* level of the monitoring leaf and every family and ratio of the          *)
(* processor (leaf0ah.s, family.s, msr.s, msrtest.c).                      *)
(***************************************************************************)
THEOREM RegistersShown == Behaviour => []ShowsTheRegisters
<1>1. ProgramsInv => ShowsTheRegisters
  BY CpuSafe DEF ProgramsInv, ShowsTheRegisters
<1> QED
  BY Invariance, <1>1, PTL

(***************************************************************************)
(* asmcrypt.s writes the rotation of every text by every distance, and     *)
(* spills no further than over the saved rbp (asmcrypt.s).                 *)
(***************************************************************************)
THEOREM RotationWritten == Behaviour => []WritesRotation
<1>1. ProgramsInv => WritesRotation
  BY RotSafe DEF ProgramsInv, WritesRotation
<1> QED
  BY Invariance, <1>1, PTL

(***************************************************************************)
(* The three matrix programs end with the sums and products of their       *)
(* comments, for every entry of the matrices (avxmul.s, the programs of    *)
(* ssematrix).                                                             *)
(***************************************************************************)
THEOREM ProductsRight == Behaviour => []MatrixProducts
<1>1. ProgramsInv => MatrixProducts
  BY MatSafe DEF ProgramsInv, MatrixProducts
<1> QED
  BY Invariance, <1>1, PTL

(***************************************************************************)
(* hdpp.awk closes what it opens and colours each byte with its section,   *)
(* or that of the byte before, for every layout and every line (hdpp.awk). *)
(***************************************************************************)
THEOREM BytesColoured == Behaviour => []ColoursBytes
<1>1. ProgramsInv => ColoursBytes
  BY HexSafe DEF ProgramsInv, ColoursBytes
<1> QED
  BY Invariance, <1>1, PTL

(***************************************************************************)
(* abs and min are exact for every int if atoi extends the sign, and for   *)
(* those from 0 on if it does not, bounds for every int either way; for    *)
(* every width of int and register (absasm.s, minasm.s, bounds.s).         *)
(***************************************************************************)
THEOREM IdiomsCorrect == Behaviour => []IdiomsExact
<1>1. ProgramsInv => IdiomsExact
  BY IdiomsSafe DEF ProgramsInv
<1> QED
  BY Invariance, <1>1, PTL
====
