---------------------------- MODULE LibPmcProofs ----------------------------
(***************************************************************************)
(* The measuring library for every number of clients, CPUs, counters and   *)
(* tests, on top of what MsrDriverProofs shows of the driver.              *)
(***************************************************************************)
EXTENDS LibPmc, SequenceTheorems, TLAPS

DP == INSTANCE MsrDriverProofs WITH Vectors <- LibVectors, Buf <- Script

-----------------------------------------------------------------------------
LEMMA Counts ==
  /\ PMC_COUNT \in Nat /\ FFC_COUNT \in Nat /\ CounterSize \in Nat \ {0}
  /\ VecLimit \in Nat /\ MaxTsc \in Nat /\ Migrates \in BOOLEAN
BY DriverAssumption DEF D!CountAssumption

-----------------------------------------------------------------------------
(***************************************************************************)
(* The scripts, command by command.                                        *)
(***************************************************************************)
\* u is s followed by t, element by element.
Joined(u, s, t) ==
  /\ u = s \o t /\ Len(u) = Len(s) + Len(t)
  /\ \A j \in 1 .. Len(s) + Len(t) : u[j] = IF j <= Len(s) THEN s[j] ELSE t[j - Len(s)]

LEMMA Join ==
  ASSUME NEW S, NEW s \in Seq(S), NEW t \in Seq(S)
  PROVE  \E u \in Seq(S) : Joined(u, s, t)
<1>1. PICK u : u = s \o t /\ u \in Seq(S)
  BY ConcatProperties
<1>2. /\ Len(u) = Len(s) + Len(t)
      /\ \A j \in 1 .. Len(s) + Len(t) : u[j] = IF j <= Len(s) THEN s[j] ELSE t[j - Len(s)]
  BY <1>1, ConcatProperties
<1> QED
  BY <1>1, <1>2 DEF Joined

\* s is a first command, one for each counter, and a last one.
FourParts(s, e, f, g, h) ==
  /\ s = e \o f \o g \o h /\ Len(s) = Len(f) + Len(g) + 2
  /\ s[1] = e[1] /\ s[Len(f) + Len(g) + 2] = h[1]
  /\ \A j \in 1 .. Len(f) : s[1 + j] = f[j]
  /\ \A j \in 1 .. Len(g) : s[1 + Len(f) + j] = g[j]

LEMMA JoinFour ==
  ASSUME NEW S,
         NEW e \in Seq(S), NEW f \in Seq(S), NEW g \in Seq(S), NEW h \in Seq(S),
         Len(e) = 1, Len(h) = 1
  PROVE  \E s \in Seq(S) : FourParts(s, e, f, g, h)
<1> DEFINE n == Len(f)
           m == Len(g)
<1>1. n \in Nat /\ m \in Nat /\ n = Len(f) /\ m = Len(g)
  OBVIOUS
<1> HIDE DEF n, m
<1>2. PICK t \in Seq(S) : Joined(t, e, f)
  BY Join
<1>3. PICK u \in Seq(S) : Joined(u, t, g)
  BY Join
<1>4. PICK s \in Seq(S) : Joined(s, u, h)
  BY Join
<1>5. s = e \o f \o g \o h
  BY <1>2, <1>3, <1>4 DEF Joined
<1>6. Len(t) = 1 + n /\ Len(u) = 1 + n + m /\ Len(s) = n + m + 2
  BY <1>1, <1>2, <1>3, <1>4 DEF Joined
<1>7. \A j \in 1 .. 1 + n : t[j] = IF j <= 1 THEN e[j] ELSE f[j - 1]
  BY <1>1, <1>2 DEF Joined
<1>8. \A j \in 1 .. 1 + n + m : u[j] = IF j <= 1 + n THEN t[j] ELSE g[j - (1 + n)]
  BY <1>1, <1>6, <1>3 DEF Joined
<1>9. \A j \in 1 .. n + m + 2 : s[j] = IF j <= 1 + n + m THEN u[j] ELSE h[j - (1 + n + m)]
  BY <1>1, <1>6, <1>4 DEF Joined
<1>10. s[1] = e[1]
  <2>1. /\ 1 \in 1 .. 1 + n /\ 1 \in 1 .. 1 + n + m /\ 1 \in 1 .. n + m + 2
        /\ 1 <= 1 /\ 1 <= 1 + n /\ 1 <= 1 + n + m
    BY <1>1
  <2>2. t[1] = e[1]
    BY <1>7, <2>1
  <2>3. u[1] = t[1]
    BY <1>8, <2>1
  <2>4. s[1] = u[1]
    BY <1>9, <2>1
  <2> QED
    BY <2>2, <2>3, <2>4
<1>11. s[n + m + 2] = h[1]
  <2>1. n + m + 2 \in 1 .. n + m + 2 /\ ~ (n + m + 2 <= 1 + n + m)
        /\ n + m + 2 - (1 + n + m) = 1
    BY <1>1
  <2>2. PICK last \in 1 .. n + m + 2 :
          last = n + m + 2 /\ ~ (last <= 1 + n + m) /\ last - (1 + n + m) = 1
    BY <1>1, <2>1
  <2>3. s[last] = h[last - (1 + n + m)]
    BY <1>9, <2>2
  <2> QED
    BY <2>2, <2>3
<1>12. ASSUME NEW j \in 1 .. n PROVE s[1 + j] = f[j]
  <2>1. 1 + j \in 1 .. 1 + n /\ ~ (1 + j <= 1) /\ (1 + j) - 1 = j
    BY <1>1
  <2>2. t[1 + j] = f[j]
    BY <1>7, <2>1
  <2>3. u[1 + j] = t[1 + j]
    BY <1>1, <1>8, <2>1
  <2>4. s[1 + j] = u[1 + j]
    BY <1>1, <1>9, <2>1
  <2> QED
    BY <2>2, <2>3, <2>4
<1>13. ASSUME NEW j \in 1 .. m PROVE s[1 + n + j] = g[j]
  <2>1. /\ 1 + n + j \in 1 .. 1 + n + m /\ ~ (1 + n + j <= 1 + n)
        /\ (1 + n + j) - (1 + n) = j
    BY <1>1
  <2>2. u[1 + n + j] = g[j]
    BY <1>8, <2>1
  <2>3. s[1 + n + j] = u[1 + n + j]
    BY <1>1, <1>9, <2>1
  <2> QED
    BY <2>2, <2>3
<1> QED
  BY <1>1, <1>6, <1>5, <1>10, <1>11, <1>12, <1>13 DEF FourParts

LEMMA Commands ==
  /\ D!Counter \subseteq D!Reg
  /\ GlobalCtrl \in D!Reg /\ FixedCtrl \in D!Reg
  /\ \A n \in 0 .. PMC_COUNT - 1 : Pmc(n) \in D!Counter /\ EvtSel(n) \in D!Reg
  /\ \A n \in 0 .. FFC_COUNT - 1 : Ffc(n) \in D!Counter
  /\ \A r \in D!Reg, v \in Nat : msr_wr(r, v) \in D!Cmd
  /\ \A r \in D!Reg : msr_rd(r) \in D!Cmd
  /\ msr_wr_stop \in D!Cmd
BY DEF D!Counter, D!Reg, D!Cmd, D!Op, D!GlobalCtrl, D!FixedCtrl, D!Pmc, D!Ffc, D!EvtSel,
   GlobalCtrl, FixedCtrl, Pmc, Ffc, EvtSel, Command, msr_wr, msr_rd, msr_wr_stop

LEMMA ResetShape ==
  /\ ResetScript \in Seq(D!Cmd) /\ Len(ResetScript) = PMC_COUNT + FFC_COUNT + 2
  /\ ResetScript[1] = msr_wr(GlobalCtrl, 0)
  /\ ResetScript[PMC_COUNT + FFC_COUNT + 2] = msr_wr_stop
  /\ \A n \in 1 .. PMC_COUNT : ResetScript[1 + n] = msr_wr(Pmc(n - 1), 0)
  /\ \A n \in 1 .. FFC_COUNT : ResetScript[1 + PMC_COUNT + n] = msr_wr(Ffc(n - 1), 0)
<1> DEFINE e == <<msr_wr(GlobalCtrl, 0)>>
           f == [n \in 1 .. PMC_COUNT |-> msr_wr(Pmc(n - 1), 0)]
           g == [n \in 1 .. FFC_COUNT |-> msr_wr(Ffc(n - 1), 0)]
           h == <<msr_wr_stop>>
<1>1. /\ e \in Seq(D!Cmd) /\ Len(e) = 1 /\ e[1] = msr_wr(GlobalCtrl, 0)
      /\ h \in Seq(D!Cmd) /\ Len(h) = 1 /\ h[1] = msr_wr_stop
  BY Commands
<1>2. f \in [1 .. PMC_COUNT -> D!Cmd] /\ g \in [1 .. FFC_COUNT -> D!Cmd]
  BY Counts, Commands
<1>3. /\ \A n \in 1 .. PMC_COUNT : f[n] = msr_wr(Pmc(n - 1), 0)
      /\ \A n \in 1 .. FFC_COUNT : g[n] = msr_wr(Ffc(n - 1), 0)
  OBVIOUS
<1>4. ResetScript = e \o f \o g \o h
  BY DEF ResetScript
<1> HIDE DEF e, f, g, h
<1>5. f \in Seq(D!Cmd) /\ Len(f) = PMC_COUNT /\ g \in Seq(D!Cmd) /\ Len(g) = FFC_COUNT
  BY <1>2, Counts
<1>6. PICK s \in Seq(D!Cmd) : FourParts(s, e, f, g, h)
  BY <1>1, <1>5, JoinFour
<1>7. s = ResetScript
  BY <1>4, <1>6 DEF FourParts
<1>8. /\ Len(s) = PMC_COUNT + FFC_COUNT + 2
      /\ s[1] = e[1] /\ s[PMC_COUNT + FFC_COUNT + 2] = h[1]
      /\ \A j \in 1 .. PMC_COUNT : s[1 + j] = f[j]
      /\ \A j \in 1 .. FFC_COUNT : s[1 + PMC_COUNT + j] = g[j]
  BY <1>5, <1>6 DEF FourParts
<1> QED
  BY <1>1, <1>3, <1>7, <1>8

LEMMA ReadShape ==
  /\ ReadScript \in Seq(D!Cmd) /\ Len(ReadScript) = PMC_COUNT + FFC_COUNT + 2
  /\ ReadScript[1] = msr_wr(GlobalCtrl, 0)
  /\ ReadScript[PMC_COUNT + FFC_COUNT + 2] = msr_wr_stop
  /\ \A n \in 1 .. PMC_COUNT : ReadScript[1 + n] = msr_rd(Pmc(n - 1))
  /\ \A n \in 1 .. FFC_COUNT : ReadScript[1 + PMC_COUNT + n] = msr_rd(Ffc(n - 1))
<1> DEFINE e == <<msr_wr(GlobalCtrl, 0)>>
           f == [n \in 1 .. PMC_COUNT |-> msr_rd(Pmc(n - 1))]
           g == [n \in 1 .. FFC_COUNT |-> msr_rd(Ffc(n - 1))]
           h == <<msr_wr_stop>>
<1>1. /\ e \in Seq(D!Cmd) /\ Len(e) = 1 /\ e[1] = msr_wr(GlobalCtrl, 0)
      /\ h \in Seq(D!Cmd) /\ Len(h) = 1 /\ h[1] = msr_wr_stop
  BY Commands
<1>2. f \in [1 .. PMC_COUNT -> D!Cmd] /\ g \in [1 .. FFC_COUNT -> D!Cmd]
  BY Counts, Commands
<1>3. /\ \A n \in 1 .. PMC_COUNT : f[n] = msr_rd(Pmc(n - 1))
      /\ \A n \in 1 .. FFC_COUNT : g[n] = msr_rd(Ffc(n - 1))
  OBVIOUS
<1>4. ReadScript = e \o f \o g \o h
  BY DEF ReadScript
<1> HIDE DEF e, f, g, h
<1>5. f \in Seq(D!Cmd) /\ Len(f) = PMC_COUNT /\ g \in Seq(D!Cmd) /\ Len(g) = FFC_COUNT
  BY <1>2, Counts
<1>6. PICK s \in Seq(D!Cmd) : FourParts(s, e, f, g, h)
  BY <1>1, <1>5, JoinFour
<1>7. s = ReadScript
  BY <1>4, <1>6 DEF FourParts
<1>8. /\ Len(s) = PMC_COUNT + FFC_COUNT + 2
      /\ s[1] = e[1] /\ s[PMC_COUNT + FFC_COUNT + 2] = h[1]
      /\ \A j \in 1 .. PMC_COUNT : s[1 + j] = f[j]
      /\ \A j \in 1 .. FFC_COUNT : s[1 + PMC_COUNT + j] = g[j]
  BY <1>5, <1>6 DEF FourParts
<1> QED
  BY <1>1, <1>3, <1>7, <1>8

\* Each counter has its place in the scripts.
LEMMA Places ==
  ASSUME NEW k \in D!Counter
  PROVE  \E n \in 2 .. PMC_COUNT + FFC_COUNT + 1 :
           ReadScript[n] = msr_rd(k) /\ ResetScript[n] = msr_wr(k, 0)
<1>1. CASE \E n \in 0 .. PMC_COUNT - 1 : k = Pmc(n)
  <2>1. PICK n \in 0 .. PMC_COUNT - 1 : k = Pmc(n)
    BY <1>1
  <2>2. n + 1 \in 1 .. PMC_COUNT /\ (n + 1) - 1 = n
    BY Counts
  <2>3. 1 + (n + 1) \in 2 .. PMC_COUNT + FFC_COUNT + 1
    BY Counts
  <2>4. ReadScript[1 + (n + 1)] = msr_rd(k) /\ ResetScript[1 + (n + 1)] = msr_wr(k, 0)
    BY <2>1, <2>2, ReadShape, ResetShape
  <2> QED
    BY <2>3, <2>4
<1>2. CASE \E n \in 0 .. FFC_COUNT - 1 : k = Ffc(n)
  <2>1. PICK n \in 0 .. FFC_COUNT - 1 : k = Ffc(n)
    BY <1>2
  <2>2. n + 1 \in 1 .. FFC_COUNT /\ (n + 1) - 1 = n
    BY Counts
  <2>3. 1 + PMC_COUNT + (n + 1) \in 2 .. PMC_COUNT + FFC_COUNT + 1
    BY Counts
  <2>4. /\ ReadScript[1 + PMC_COUNT + (n + 1)] = msr_rd(k)
        /\ ResetScript[1 + PMC_COUNT + (n + 1)] = msr_wr(k, 0)
    BY <2>1, <2>2, ReadShape, ResetShape
  <2> QED
    BY <2>3, <2>4
<1> QED
  BY <1>1, <1>2 DEF D!Counter, D!Pmc, D!Ffc, Pmc, Ffc

LEMMA ReadAt ==
  ASSUME NEW k \in D!Counter
  PROVE  ReadIndex(k) \in 1 .. Len(ReadScript) /\ ReadScript[ReadIndex(k)] = msr_rd(k)
<1>1. \E n \in 1 .. Len(ReadScript) : ReadScript[n] = msr_rd(k)
  BY Places, ReadShape, Counts
<1> QED
  BY <1>1 DEF ReadIndex

\* What the enabling values of pmc_cfg are.
LEMMA EnableValues ==
  ASSUME NEW a \in Args
  PROVE  /\ toffcctrl(a.domain) \in Nat
         /\ (2^Len(a.evts) - 1) + (2^FFC_COUNT - 1) * 2^PMC_COUNT \in Nat
<1>1. a.domain \in 0 .. 3
  BY LibAssumption DEF Args
<1>2. PICK n \in 0 .. PMC_COUNT : a.evts \in [1 .. n -> Event]
  BY DEF Args
<1>3. Len(a.evts) = n
  BY <1>2, Counts
<1>4. /\ 2^n \in Nat \ {0} /\ 2^FFC_COUNT \in Nat \ {0} /\ 2^PMC_COUNT \in Nat \ {0}
      /\ 16^FFC_COUNT \in Nat \ {0}
  <2>1. n \in 0 .. PMC_COUNT + FFC_COUNT /\ FFC_COUNT \in 0 .. PMC_COUNT + FFC_COUNT
        /\ PMC_COUNT \in 0 .. PMC_COUNT + FFC_COUNT
    BY Counts
  <2> QED
    BY <2>1, PowerAssumption
<1>5. (16^FFC_COUNT - 1) \div 15 \in Nat
  BY <1>4
<1>6. ASSUME NEW x \in Nat, NEW y \in Nat PROVE x * y \in Nat
  OBVIOUS
<1>7. toffcctrl(a.domain) \in Nat
  <2>1. a.domain \in Nat
    BY <1>1
  <2> QED
    BY <1>5, <1>6, <2>1 DEF toffcctrl
<1>8. (2^FFC_COUNT - 1) * 2^PMC_COUNT \in Nat
  <2>1. 2^FFC_COUNT - 1 \in Nat
    BY <1>4
  <2> QED
    BY <1>4, <1>6, <2>1
<1>9. (2^n - 1) + (2^FFC_COUNT - 1) * 2^PMC_COUNT \in Nat
  <2>1. 2^n - 1 \in Nat
    BY <1>4
  <2> DEFINE x == (2^FFC_COUNT - 1) * 2^PMC_COUNT
  <2> HIDE DEF x
  <2>2. x \in Nat
    BY <1>8 DEF x
  <2>3. (2^n - 1) + x \in Nat
    BY <2>1, <2>2
  <2> QED
    BY <2>3 DEF x
<1> QED
  BY <1>3, <1>7, <1>9

LEMMA CfgCommands ==
  ASSUME NEW a \in Args
  PROVE  \E l \in 0 .. PMC_COUNT :
           /\ Len(a.evts) = l /\ a.evts \in [1 .. l -> Event]
           /\ CfgScript(a) \in Seq(D!Cmd) /\ Len(CfgScript(a)) = l + 3
           /\ \A n \in 1 .. l : CfgScript(a)[n] = msr_wr(EvtSel(n - 1), a.evts[n])
           /\ CfgScript(a)[l + 1] = msr_wr(FixedCtrl, toffcctrl(a.domain))
           /\ CfgScript(a)[l + 2] = msr_wr(GlobalCtrl, DP!GlobalValue(l))
           /\ CfgScript(a)[l + 3] = msr_wr_stop
<1> DEFINE f == [n \in DOMAIN a.evts |-> msr_wr(EvtSel(n - 1), a.evts[n])]
           v == (2^Len(a.evts) - 1) + (2^FFC_COUNT - 1) * 2^PMC_COUNT
           w == toffcctrl(a.domain)
           g == <<msr_wr(FixedCtrl, w), msr_wr(GlobalCtrl, v), msr_wr_stop>>
<1>1. PICK l \in 0 .. PMC_COUNT : a.evts \in [1 .. l -> Event]
  BY DEF Args
<1>2. v \in Nat /\ w \in Nat
  BY EnableValues
<1>3. l \in Nat /\ Len(a.evts) = l
  BY <1>1, Counts
<1>4. CfgScript(a) = f \o g
  BY DEF CfgScript
<1>5. v = DP!GlobalValue(l)
  BY <1>3 DEF DP!GlobalValue
<1> HIDE DEF v, w
<1>6. f \in [1 .. l -> D!Cmd] /\ \A j \in 1 .. l : f[j] = msr_wr(EvtSel(j - 1), a.evts[j])
  <2>1. DOMAIN a.evts = 1 .. l
    BY <1>1
  <2>2. ASSUME NEW j \in 1 .. l
        PROVE  msr_wr(EvtSel(j - 1), a.evts[j]) \in D!Cmd
    <3>1. j - 1 \in 0 .. PMC_COUNT - 1
      BY <1>1, Counts
    <3>2. a.evts[j] \in Nat
      BY <1>1, LibAssumption
    <3> QED
      BY <3>1, <3>2, Commands
  <2> QED
    BY <2>1, <2>2
<1>7. f \in Seq(D!Cmd) /\ Len(f) = l
  BY <1>3, <1>6
<1>8. /\ g \in Seq(D!Cmd) /\ Len(g) = 3
      /\ g[1] = msr_wr(FixedCtrl, w) /\ g[2] = msr_wr(GlobalCtrl, v) /\ g[3] = msr_wr_stop
  <2>1. /\ msr_wr(FixedCtrl, w) \in D!Cmd /\ msr_wr(GlobalCtrl, v) \in D!Cmd
        /\ msr_wr_stop \in D!Cmd
    BY <1>2, Commands
  <2>2. /\ g[1] = msr_wr(FixedCtrl, w) /\ g[2] = msr_wr(GlobalCtrl, v) /\ g[3] = msr_wr_stop
        /\ Len(g) = 3
    OBVIOUS
  <2>3. g \in Seq(D!Cmd)
    BY <2>1
  <2> QED
    BY <2>2, <2>3
<1> HIDE DEF f, g
<1> DEFINE s == CfgScript(a)
<1>9. s = f \o g
  BY <1>4
<1> HIDE DEF s
<1>10. PICK c \in Seq(D!Cmd) : Joined(c, f, g)
  BY <1>7, <1>8, Join
<1>11. Len(c) = l + 3 /\ \A j \in 1 .. l + 3 : c[j] = IF j <= l THEN f[j] ELSE g[j - l]
  BY <1>3, <1>7, <1>8, <1>10 DEF Joined
<1>12. /\ s \in Seq(D!Cmd) /\ Len(s) = l + 3
       /\ \A j \in 1 .. l + 3 : s[j] = IF j <= l THEN f[j] ELSE g[j - l]
  BY <1>9, <1>10, <1>11 DEF Joined
<1>13. \A j \in 1 .. l : s[j] = msr_wr(EvtSel(j - 1), a.evts[j])
  <2>1. ASSUME NEW j \in 1 .. l PROVE j \in 1 .. l + 3 /\ j <= l
    BY <1>3
  <2> QED
    BY <1>6, <1>12, <2>1
<1>14. ASSUME NEW e \in 1 .. 3 PROVE s[l + e] = g[e]
  <2>1. l + e \in 1 .. l + 3 /\ ~ (l + e <= l) /\ (l + e) - l = e
    BY <1>3
  <2> QED
    BY <1>12, <2>1
<1>15. s[l + 1] = g[1] /\ s[l + 2] = g[2] /\ s[l + 3] = g[3]
  <2>1. PICK x \in 1 .. 3, y \in 1 .. 3, z \in 1 .. 3 : x = 1 /\ y = 2 /\ z = 3
    OBVIOUS
  <2>2. s[l + x] = g[x] /\ s[l + y] = g[y] /\ s[l + z] = g[z]
    BY <1>14
  <2> QED
    BY <2>1, <2>2
<1>16. /\ s[l + 1] = msr_wr(FixedCtrl, w) /\ s[l + 2] = msr_wr(GlobalCtrl, v)
       /\ s[l + 3] = msr_wr_stop
  BY <1>8, <1>15
<1> QED
  BY <1>1, <1>3, <1>5, <1>12, <1>13, <1>16 DEF s, w
\* The number of registers that pmc_cfg writes.
Writes(a) == Len(CfgScript(a)) - 1

LEMMA CfgWrites ==
  ASSUME NEW a \in Args
  PROVE  /\ Writes(a) \in Nat /\ Writes(a) >= 2 /\ Writes(a) <= PMC_COUNT + 2
         /\ CfgScript(a) \in Seq(D!Cmd) /\ Len(CfgScript(a)) = Writes(a) + 1
         /\ CfgScript(a)[Writes(a) + 1].op = "STOP"
         /\ \A j \in 1 .. Writes(a) :
              /\ CfgScript(a)[j].op = "WRITE"
              /\ CfgScript(a)[j].ecx \in D!Reg \ D!Counter
              /\ CfgScript(a)[j].ecx = GlobalCtrl <=> j = Writes(a)
         /\ \A j, k \in 1 .. Writes(a) :
              CfgScript(a)[j].ecx = CfgScript(a)[k].ecx => j = k
<1> DEFINE s == CfgScript(a)
<1>1. PICK l \in 0 .. PMC_COUNT :
        /\ s \in Seq(D!Cmd) /\ Len(s) = l + 3
        /\ \A n \in 1 .. l : s[n] = msr_wr(EvtSel(n - 1), a.evts[n])
        /\ s[l + 1] = msr_wr(FixedCtrl, toffcctrl(a.domain))
        /\ s[l + 2] = msr_wr(GlobalCtrl, DP!GlobalValue(l))
        /\ s[l + 3] = msr_wr_stop
  BY CfgCommands
<1>2. l \in Nat /\ Writes(a) = l + 2 /\ PMC_COUNT \in Nat
  BY <1>1, Counts DEF Writes
<1> HIDE DEF s
<1>3. /\ \A r, v : msr_wr(r, v).op = "WRITE" /\ msr_wr(r, v).ecx = r
      /\ msr_wr_stop.op = "STOP"
  BY DEF msr_wr, msr_wr_stop, Command
<1>4. /\ \A n \in 1 .. l : s[n].op = "WRITE" /\ s[n].ecx = EvtSel(n - 1)
      /\ s[l + 1].op = "WRITE" /\ s[l + 1].ecx = FixedCtrl
      /\ s[l + 2].op = "WRITE" /\ s[l + 2].ecx = GlobalCtrl
      /\ s[l + 3].op = "STOP"
  BY <1>1, <1>3
<1>5. \A j \in 1 .. l + 2 : j \in 1 .. l \/ j = l + 1 \/ j = l + 2
  BY <1>2
<1>6. /\ FixedCtrl # GlobalCtrl
      /\ FixedCtrl \in D!Reg \ D!Counter /\ GlobalCtrl \in D!Reg \ D!Counter
      /\ \A n \in 1 .. l : /\ EvtSel(n - 1) \in D!Reg \ D!Counter
                           /\ EvtSel(n - 1) # FixedCtrl /\ EvtSel(n - 1) # GlobalCtrl
      /\ \A m, n \in 1 .. l : EvtSel(m - 1) = EvtSel(n - 1) => m = n
  <2>1. \A n \in 1 .. l : n - 1 \in 0 .. PMC_COUNT - 1
    BY <1>2
  <2> QED
    BY <2>1, Commands DEF FixedCtrl, GlobalCtrl, EvtSel, D!Counter, D!Pmc, D!Ffc
<1>7. \A j \in 1 .. l + 2 :
        /\ s[j].op = "WRITE" /\ s[j].ecx \in D!Reg \ D!Counter
        /\ s[j].ecx = GlobalCtrl <=> j = l + 2
  <2> TAKE j \in 1 .. l + 2
  <2>1. CASE j \in 1 .. l
    BY <1>2, <1>4, <1>6, <2>1
  <2>2. CASE j = l + 1
    BY <1>2, <1>4, <1>6, <2>2
  <2>3. CASE j = l + 2
    BY <1>2, <1>4, <1>6, <2>3
  <2> QED
    BY <1>5, <2>1, <2>2, <2>3
<1>8. ASSUME NEW j \in 1 .. l + 2, NEW k \in 1 .. l + 2, s[j].ecx = s[k].ecx
      PROVE  j = k
  <2>1. CASE j \in 1 .. l
    BY <1>4, <1>5, <1>6, <1>8, <2>1
  <2>2. CASE j = l + 1
    BY <1>4, <1>5, <1>6, <1>8, <2>2
  <2>3. CASE j = l + 2
    BY <1>4, <1>5, <1>6, <1>8, <2>3
  <2> QED
    BY <1>5, <2>1, <2>2, <2>3
<1>9. s[Writes(a) + 1].op = "STOP" /\ Len(s) = Writes(a) + 1
  <2>1. Writes(a) + 1 = l + 3
    BY <1>2
  <2> QED
    BY <1>1, <1>4, <2>1
<1>10. Writes(a) \in Nat /\ Writes(a) >= 2 /\ Writes(a) <= PMC_COUNT + 2 /\ s \in Seq(D!Cmd)
  BY <1>1, <1>2
<1> QED
  BY <1>2, <1>7, <1>8, <1>9, <1>10 DEF s

LEMMA CfgShape ==
  ASSUME NEW a \in Args
  PROVE  /\ CfgScript(a) \in Seq(D!Cmd)
         /\ Len(CfgScript(a)) \in Nat \ {0}
         /\ CfgScript(a)[Len(CfgScript(a))] = msr_wr_stop
         /\ \A n \in 1 .. Len(CfgScript(a)) : CfgScript(a)[n].op \in {"WRITE", "STOP"}
<1>1. PICK l \in 0 .. PMC_COUNT : Len(CfgScript(a)) = l + 3 /\ CfgScript(a)[l + 3] = msr_wr_stop
  BY CfgCommands
<1>2. l \in Nat /\ Writes(a) = l + 2
  BY <1>1 DEF Writes
<1>3. ASSUME NEW n \in 1 .. l + 3 PROVE CfgScript(a)[n].op \in {"WRITE", "STOP"}
  <2>1. n \in 1 .. Writes(a) \/ n = Writes(a) + 1
    BY <1>2
  <2> QED
    BY <2>1, CfgWrites
<1> QED
  BY <1>1, <1>2, <1>3, CfgWrites

-----------------------------------------------------------------------------
(***************************************************************************)
(* What MsrDriverProofs shows of the driver holds under the library: its   *)
(* scripts are vectors as the driver assumes them.                         *)
(***************************************************************************)
LEMMA SameSets ==
  DP!Cmd = D!Cmd /\ DP!Reg = D!Reg /\ DP!Counter = D!Counter
BY DEF DP!Cmd, D!Cmd, DP!Op, D!Op, DP!Reg, D!Reg, DP!Counter, D!Counter,
   DP!GlobalCtrl, D!GlobalCtrl, DP!FixedCtrl, D!FixedCtrl, DP!EvtSel, D!EvtSel,
   DP!Pmc, D!Pmc, DP!Ffc, D!Ffc

LEMMA DriverAssumptions == DP!CountAssumption /\ DP!VectorAssumption
<1>1. DP!CountAssumption
  BY Counts DEF DP!CountAssumption
<1>2. ASSUME NEW v \in Seq(D!Cmd), Len(v) \in Nat \ {0}, v[Len(v)] = msr_wr_stop
      PROVE  v \in Seq(DP!Cmd) /\ DP!Terminated(v)
  <2>1. v[Len(v)].op = "STOP"
    BY <1>2 DEF msr_wr_stop, Command
  <2>2. CASE Len(v) > VecLimit
    BY <2>2, SameSets DEF DP!Terminated
  <2>3. CASE ~ (Len(v) > VecLimit)
    <3>1. Len(v) \in 1 .. Len(v) /\ Len(v) <= VecLimit + 1
      BY <1>2, <2>3, Counts
    <3> QED
      BY <2>1, <3>1, SameSets DEF DP!Terminated
  <2> QED
    BY <2>2, <2>3
<1>3. PMC_COUNT + FFC_COUNT + 2 \in Nat \ {0}
  BY Counts
<1>4. ASSUME NEW v \in LibVectors
      PROVE  v \in Seq(DP!Cmd) /\ DP!Terminated(v)
  <2>1. CASE v = ResetScript
    BY <1>2, <1>3, <2>1, ResetShape
  <2>2. CASE v = ReadScript
    BY <1>2, <1>3, <2>2, ReadShape
  <2>3. CASE \E a \in Args : v = CfgScript(a)
    BY <1>2, <2>3, CfgShape
  <2> QED
    BY <2>1, <2>2, <2>3 DEF LibVectors
<1> QED
  BY <1>1, <1>4 DEF DP!VectorAssumption

LEMMA PowerLaw == DP!PowerLaw
BY PowerAssumption DEF DP!PowerLaw

\* Once pmc_cfg is written, the counters count that were asked for.
LEMMA EnabledWhenWritten ==
  ASSUME NEW a \in Args, NEW m,
         \A j \in 1 .. Writes(a) : m[CfgScript(a)[j].ecx] = CfgScript(a)[j].value
  PROVE  D!EnabledCounters(m) = Selected(a)
<1>1. PICK l \in 0 .. PMC_COUNT :
        /\ a.evts \in [1 .. l -> Event] /\ Len(CfgScript(a)) = l + 3
        /\ \A n \in 1 .. l : CfgScript(a)[n] = msr_wr(EvtSel(n - 1), a.evts[n])
        /\ CfgScript(a)[l + 1] = msr_wr(FixedCtrl, toffcctrl(a.domain))
        /\ CfgScript(a)[l + 2] = msr_wr(GlobalCtrl, DP!GlobalValue(l))
  BY CfgCommands
<1>2. l \in Nat /\ Writes(a) = l + 2 /\ PMC_COUNT \in Nat /\ FFC_COUNT \in Nat
  BY <1>1, Counts DEF Writes
<1>3. \A r, v : msr_wr(r, v).ecx = r /\ msr_wr(r, v).value = v
  BY DEF msr_wr, Command
<1>4. /\ \A n \in 1 .. l : m[EvtSel(n - 1)] = a.evts[n]
      /\ m[FixedCtrl] = toffcctrl(a.domain) /\ m[GlobalCtrl] = DP!GlobalValue(l)
  <2>1. (\A n \in 1 .. l : n \in 1 .. l + 2) /\ l + 1 \in 1 .. l + 2 /\ l + 2 \in 1 .. l + 2
    BY <1>2
  <2>2. /\ CfgScript(a)[l + 1].ecx = FixedCtrl
        /\ CfgScript(a)[l + 1].value = toffcctrl(a.domain)
        /\ CfgScript(a)[l + 2].ecx = GlobalCtrl
        /\ CfgScript(a)[l + 2].value = DP!GlobalValue(l)
    BY <1>1, <1>3
  <2>3. ASSUME NEW n \in 1 .. l PROVE m[EvtSel(n - 1)] = a.evts[n]
    <3>1. CfgScript(a)[n].ecx = EvtSel(n - 1) /\ CfgScript(a)[n].value = a.evts[n]
      BY <1>1, <1>3
    <3> QED
      BY <1>2, <2>1, <3>1
  <2> QED
    BY <1>2, <2>1, <2>2, <2>3
<1>5. \A n \in 0 .. PMC_COUNT - 1 :
        D!PmcEnabled(m, n) <=> n < l /\ a.evts[n + 1] # 0
  <2> TAKE n \in 0 .. PMC_COUNT - 1
  <2>1. D!BitSet(DP!GlobalValue(l), n) <=> n < l
    BY DriverAssumptions, PowerLaw, DP!GlobalBits DEF DP!BitSet, D!BitSet
  <2>2. n < l => n + 1 \in 1 .. l /\ (n + 1) - 1 = n
    BY <1>2
  <2>3. n < l => m[EvtSel(n)] = a.evts[n + 1]
    BY <1>4, <2>2
  <2> QED
    BY <1>4, <2>1, <2>3 DEF D!PmcEnabled, D!GlobalCtrl, GlobalCtrl, D!EvtSel, EvtSel
<1>6. \A n \in 0 .. FFC_COUNT - 1 : D!FfcEnabled(m, n) <=> a.domain # 0
  <2> TAKE n \in 0 .. FFC_COUNT - 1
  <2>1. a.domain \in 0 .. 3
    BY LibAssumption DEF Args
  <2>2. D!BitSet(DP!GlobalValue(l), PMC_COUNT + n)
    BY DriverAssumptions, PowerLaw, DP!GlobalBits DEF DP!BitSet, D!BitSet
  <2>3. (toffcctrl(a.domain) \div 16^n) % 4 = a.domain
    BY <2>1, DriverAssumptions, PowerLaw, DP!FixedBits DEF DP!FixedValue, toffcctrl
  <2> QED
    BY <1>4, <2>2, <2>3 DEF D!FfcEnabled, D!GlobalCtrl, GlobalCtrl, D!FixedCtrl, FixedCtrl
<1>7. {Pmc(n) : n \in {k \in 0 .. PMC_COUNT - 1 : k < l /\ a.evts[k + 1] # 0}}
        = {Pmc(n - 1) : n \in {k \in 1 .. l : a.evts[k] # 0}}
  <2>1. ASSUME NEW k \in 0 .. PMC_COUNT - 1, k < l, a.evts[k + 1] # 0
        PROVE  \E n \in 1 .. l : a.evts[n] # 0 /\ Pmc(k) = Pmc(n - 1)
    <3>1. k + 1 \in 1 .. l /\ (k + 1) - 1 = k
      BY <1>2, <2>1
    <3> QED
      BY <2>1, <3>1
  <2>2. ASSUME NEW n \in 1 .. l, a.evts[n] # 0
        PROVE  \E k \in 0 .. PMC_COUNT - 1 : k < l /\ a.evts[k + 1] # 0 /\ Pmc(n - 1) = Pmc(k)
    <3>1. n - 1 \in 0 .. PMC_COUNT - 1 /\ n - 1 < l /\ (n - 1) + 1 = n
      BY <1>2
    <3> QED
      BY <2>2, <3>1
  <2> QED
    BY <2>1, <2>2
<1>8. {n \in 0 .. FFC_COUNT - 1 : D!FfcEnabled(m, n)} =
        IF a.domain # 0 THEN 0 .. FFC_COUNT - 1 ELSE {}
  BY <1>6
<1>9. DOMAIN a.evts = 1 .. l
  BY <1>1
<1>10. D!EnabledCounters(m) =
        {Pmc(n) : n \in {k \in 0 .. PMC_COUNT - 1 : D!PmcEnabled(m, k)}} \cup
        {Ffc(n) : n \in {k \in 0 .. FFC_COUNT - 1 : D!FfcEnabled(m, k)}}
  BY DEF D!EnabledCounters, D!Pmc, D!Ffc, Pmc, Ffc
<1>11. {k \in 0 .. PMC_COUNT - 1 : D!PmcEnabled(m, k)} =
        {k \in 0 .. PMC_COUNT - 1 : k < l /\ a.evts[k + 1] # 0}
  BY <1>5
<1>12. {Ffc(n) : n \in {k \in 0 .. FFC_COUNT - 1 : D!FfcEnabled(m, k)}} =
         IF a.domain # 0 THEN Ffcs ELSE {}
  BY <1>8 DEF Ffcs
<1> QED
  BY <1>7, <1>9, <1>10, <1>11, <1>12 DEF Selected

\* A step of the driver, or of the processor, under the library.
DriverMoves ==
  \/ \E p \in Client :
       \/ D!Open(p) \/ D!Close(p) \/ D!IoctlStep(p)
       \/ \E b \in Script : D!IoctlEnter(p, b)
       \/ \E b \in Script, v \in LibVectors : D!Build(p, b, v)
       \/ \E c \in Cpu : D!Migrate(p, c)
  \/ \E c \in Cpu : D!Tick(c)
  \/ UNCHANGED driverVars

LEMMA DriverKeeps == ASSUME DP!Inv, DriverMoves PROVE DP!Inv'
<1> USE DEF D!device, D!client, D!memory, D!call, DP!device, DP!client, DP!memory, DP!call
<1>1. ASSUME [DP!Next]_(DP!vars) PROVE DP!Inv'
  BY <1>1, DriverAssumptions, DP!NextInv
<1>2. ASSUME NEW p \in Client, D!Open(p) PROVE DP!Open(p)
  BY <1>2 DEF D!Open, DP!Open
<1>3. ASSUME NEW p \in Client, D!Close(p) PROVE DP!Close(p)
  BY <1>3 DEF D!Close, DP!Close
<1>4. ASSUME NEW p \in Client, NEW b \in Script, D!IoctlEnter(p, b) PROVE DP!IoctlEnter(p, b)
  BY <1>4 DEF D!IoctlEnter, DP!IoctlEnter
<1>5. ASSUME NEW p \in Client, NEW b \in Script, NEW v \in LibVectors, D!Build(p, b, v)
      PROVE  DP!Build(p, b, v)
  BY <1>5 DEF D!Build, DP!Build
<1>6. ASSUME NEW p \in Client, NEW c \in Cpu, D!Migrate(p, c) PROVE DP!Migrate(p, c)
  BY <1>6 DEF D!Migrate, DP!Migrate
<1>7. ASSUME NEW c \in Cpu, D!Tick(c) PROVE DP!Tick(c)
  <2>1. \A m : DP!EnabledCounters(m) = D!EnabledCounters(m)
    BY DEF D!EnabledCounters, DP!EnabledCounters, D!PmcEnabled, DP!PmcEnabled,
       D!FfcEnabled, DP!FfcEnabled, D!BitSet, DP!BitSet, D!Pmc, DP!Pmc, D!Ffc, DP!Ffc,
       D!GlobalCtrl, DP!GlobalCtrl, D!FixedCtrl, DP!FixedCtrl, D!EvtSel, DP!EvtSel
  <2> QED
    BY <1>7, <2>1, SameSets DEF D!Tick, DP!Tick
<1>8. ASSUME NEW p \in Client, D!IoctlStep(p) PROVE DP!IoctlStep(p)
  <2>1. D!Current(p) = DP!Current(p)
    BY DEF D!Current, DP!Current
  <2>2. \A o : D!At(p, o) <=> DP!At(p, o)
    BY <2>1 DEF D!At, DP!At
  <2>3. \A v : D!Store(p, v) <=> DP!Store(p, v)
    BY DEF D!Store, DP!Store
  <2>4. \A v : D!Return(p, v) <=> DP!Return(p, v)
    BY DEF D!Return, DP!Return
  <2>5. D!Advance(p) <=> DP!Advance(p)
    BY DEF D!Advance, DP!Advance
  <2>6. D!Nop(p) => DP!Nop(p)
    BY <2>2, <2>5 DEF D!Nop, DP!Nop
  <2>7. D!ReadMsr(p) => DP!ReadMsr(p)
    BY <2>1, <2>2, <2>3, <2>5 DEF D!ReadMsr, DP!ReadMsr
  <2>8. D!WriteMsr(p) => DP!WriteMsr(p)
    BY <2>1, <2>2, <2>5, SameSets DEF D!WriteMsr, DP!WriteMsr
  <2>9. D!ReadTsc(p) => DP!ReadTsc(p)
    BY <2>2, <2>3, <2>5 DEF D!ReadTsc, DP!ReadTsc
  <2>10. D!Stop(p) => DP!Stop(p)
    BY <2>2, <2>4 DEF D!Stop, DP!Stop
  <2>11. D!UnknownOp(p) => DP!UnknownOp(p)
    BY <2>2, <2>4 DEF D!UnknownOp, DP!UnknownOp
  <2>12. D!LimitReached(p) => DP!LimitReached(p)
    BY <2>4 DEF D!LimitReached, DP!LimitReached
  <2> QED
    BY <1>8, <2>6, <2>7, <2>8, <2>9, <2>10, <2>11, <2>12 DEF D!IoctlStep, DP!IoctlStep
<1>9. UNCHANGED driverVars => UNCHANGED DP!vars
  BY DEF driverVars, DP!vars
<1> HIDE DEF D!device, D!client, D!memory, D!call, DP!device, DP!client, DP!memory, DP!call
<1>10. DriverMoves => [DP!Next]_(DP!vars)
  BY <1>2, <1>3, <1>4, <1>5, <1>6, <1>7, <1>8, <1>9 DEF DriverMoves, DP!Next
<1> QED
  BY <1>1, <1>10

(***************************************************************************)
(* The parts of the driver's invariant that the library relies on.         *)
(***************************************************************************)
DriverTypes ==
  /\ msr \in [Cpu -> [D!Reg -> Nat]]
  /\ tsc \in Nat
  /\ cpu \in [Client -> Cpu]
  /\ open \in [Client -> BOOLEAN]
  /\ mem \in [Client -> [Script -> Seq(D!Cmd)]]
  /\ given \in [Client -> [Script -> LibVectors]]
  /\ incall \in [Client -> BOOLEAN]
  /\ cur \in [Client -> Script]
  /\ idx \in [Client -> Nat]

LEMMA DriverFacts ==
  ASSUME DP!Inv
  PROVE  /\ DriverTypes
         /\ \A p \in Client : incall[p] => open[p]
         /\ \A p \in Client, b \in Script :
              /\ Len(mem[p][b]) = Len(given[p][b])
              /\ \A j \in 1 .. Len(mem[p][b]) :
                   /\ mem[p][b][j].op = given[p][b][j].op
                   /\ mem[p][b][j].ecx = given[p][b][j].ecx
                   /\ mem[p][b][j].op \notin {"READ", "RDTSC"}
                        => mem[p][b][j].value = given[p][b][j].value
         /\ \A p \in Client : incall[p] =>
              /\ idx[p] <= VecLimit + 1 /\ idx[p] <= Len(mem[p][cur[p]])
              /\ idx[p] <= VecLimit => idx[p] < Len(mem[p][cur[p]])
              /\ \A j \in 1 .. idx[p] : mem[p][cur[p]][j].op \notin {"STOP", "BAD"}
BY SameSets DEF DP!Inv, DP!TypeOK, DP!Pinned, DP!ScriptsReusable, DP!SameScript,
   DP!StaysInVector, DriverTypes

-----------------------------------------------------------------------------
(***************************************************************************)
(* The inductive invariant.  Beside the types it says, for each client and *)
(* each place in runtest: what the three vectors hold, which of them a     *)
(* running ioctl interprets, what is open and allocated, how far the loop  *)
(* of the baseline may go, and what pmc_read still shows from before.      *)
(***************************************************************************)
Types ==
  /\ TypeOK
  /\ failed \in [Client -> BOOLEAN]
  /\ rows \in [Client -> Seq([D!Counter -> Int])]
  /\ inner \in [Client -> Int] /\ outer \in [Client -> Int]
  /\ window \in [Client -> Seq(Int \X Int \X BOOLEAN)]

BeforeOpen == {"idle", "checkName", "dlsym", "open", "dead"}

\* The vectors are recorded once pmc_cfg is allocated.
Scripts(p) ==
  pc[p] \notin {"idle", "checkName", "dlsym", "dead"} =>
    /\ given[p]["reset"] = ResetScript
    /\ given[p]["read"] = ReadScript
    /\ given[p]["cfg"] = CfgScript(args[p])

Called(s) ==
  CASE s \in {"baseline", "execute", "closing"} -> "reset"
    [] s \in {"baseStarted", "started"}         -> "cfg"
    [] s \in {"baseStopped", "stopped"}         -> "read"
    [] OTHER                                    -> "none"

Calling(p) == incall[p] => cur[p] = Called(pc[p])

Needs(s, r) ==
  IF s \in (IF r = "handle" THEN {"idle", "checkName", "dead"}
                            ELSE {"idle", "checkName", "dlsym", "dead"})
  THEN 0 ELSE 1

Holding(p) ==
  /\ open[p] <=> pc[p] \notin BeforeOpen
  /\ \A r \in Resource : /\ held[p][r] >= Needs(pc[p], r)
                         /\ ~ failed[p] => held[p][r] = Needs(pc[p], r)

InBaseline == {"baseline", "baseStarted", "baseStopped"}
InTests    == {"test", "execute", "started", "stopped", "unstopped", "closing"}

Looping(p) ==
  /\ pc[p] \in InBaseline => i[p] <= args[p].count
  /\ pc[p] \in {"baseStarted", "baseStopped"} => i[p] > 0
  /\ pc[p] \in InTests => args[p].count > 0

\* What pmc_read holds until the next stop_counters: zeros, or the last reading.
Left(p, k) == IF rows[p] = <<>> THEN 0 ELSE rows[p][Len(rows[p])][k] + fixed[p][k]

Recording(p) ==
  /\ Len(window[p]) = Len(rows[p])
  /\ pc[p] \notin InTests \cup {"idle", "dead"} => rows[p] = <<>>
  /\ pc[p] \in {"test", "execute", "started", "unstopped"} =>
       \A k \in D!Counter : Reading(p, k) = Left(p, k)
  /\ \A n \in 1 .. Len(rows[p]) :
       ~ window[p][n][3] =>
         rows[p][n] = IF n = 1 THEN [k \in D!Counter |-> 0 - fixed[p][k]]
                               ELSE rows[p][n - 1]

Local(p) == Scripts(p) /\ Calling(p) /\ Holding(p) /\ Looping(p) /\ Recording(p)

IInv == DP!Inv /\ Types /\ \A p \in Client : Local(p)

-----------------------------------------------------------------------------
\* A counter's value in pmc_read is a number.
LEMMA ReadingNat ==
  ASSUME DP!Inv, NEW p \in Client, given[p]["read"] = ReadScript, NEW k \in D!Counter
  PROVE  Reading(p, k) \in Nat
<1>1. /\ "read" \in Script /\ mem[p]["read"] \in Seq(D!Cmd)
      /\ Len(mem[p]["read"]) = Len(ReadScript)
  BY DriverFacts DEF Script, DriverTypes
<1>2. ReadIndex(k) \in 1 .. Len(mem[p]["read"])
  BY <1>1, ReadAt
<1>3. mem[p]["read"][ReadIndex(k)] \in D!Cmd
  BY <1>1, <1>2
<1> QED
  BY <1>3 DEF Reading, D!Cmd

\* A freshly recorded pmc_read shows zeros.
LEMMA ReadingZero ==
  ASSUME NEW p \in Client, mem'[p]["read"] = ReadScript, NEW k \in D!Counter
  PROVE  Reading(p, k)' = 0
<1>1. ReadScript[ReadIndex(k)].value = 0
  <2>1. ReadScript[ReadIndex(k)] = msr_rd(k)
    BY ReadAt
  <2>2. msr_rd(k).value = 0
    BY DEF msr_rd, Command
  <2> QED
    BY <2>1, <2>2
<1>2. Reading(p, k)' = ReadScript[ReadIndex(k)].value
  BY DEF Reading
<1> QED
  BY <1>1, <1>2

\* The part of the state that belongs to client q stays as it is.
Kept(q) ==
  /\ pc'[q] = pc[q] /\ args'[q] = args[q] /\ i'[q] = i[q] /\ held'[q] = held[q]
  /\ failed'[q] = failed[q] /\ fixed'[q] = fixed[q] /\ rows'[q] = rows[q]
  /\ window'[q] = window[q] /\ open'[q] = open[q] /\ mem'[q] = mem[q]
  /\ given'[q] = given[q] /\ incall'[q] = incall[q] /\ cur'[q] = cur[q]

LEMMA LocalKept ==
  ASSUME NEW q \in Client, Local(q), Kept(q)
  PROVE  Local(q)'
<1> USE DEF Kept
<1>1. \A k : Reading(q, k)' = Reading(q, k) /\ Left(q, k)' = Left(q, k)
  BY DEF Reading, Left
<1>2. Scripts(q)'
  BY DEF Local, Scripts
<1>3. Calling(q)'
  BY DEF Local, Calling
<1>4. Holding(q)'
  BY DEF Local, Holding
<1>5. Looping(q)'
  BY DEF Local, Looping
<1>6. Recording(q)'
  <2>1. pc'[q] = pc[q] /\ fixed'[q] = fixed[q] /\ rows'[q] = rows[q] /\ window'[q] = window[q]
    OBVIOUS
  <2>2. Recording(q)
    BY DEF Local
  <2> HIDE DEF Kept
  <2>3. /\ Len(window'[q]) = Len(rows'[q])
        /\ pc'[q] \notin InTests \cup {"idle", "dead"} => rows'[q] = <<>>
    BY <2>1, <2>2 DEF Recording
  <2>4. ASSUME pc'[q] \in {"test", "execute", "started", "unstopped"}, NEW k \in D!Counter
        PROVE  Reading(q, k)' = Left(q, k)'
    BY <1>1, <2>1, <2>2, <2>4 DEF Recording
  <2>5. ASSUME NEW n \in 1 .. Len(rows'[q]), ~ window'[q][n][3]
        PROVE  rows'[q][n] = IF n = 1 THEN [k \in D!Counter |-> 0 - fixed'[q][k]]
                                      ELSE rows'[q][n - 1]
    BY <2>1, <2>2, <2>5 DEF Recording
  <2> QED
    BY <2>3, <2>4, <2>5 DEF Recording, InTests
<1> QED
  BY <1>2, <1>3, <1>4, <1>5, <1>6 DEF Local

\* An iteration of the driver's loop on behalf of p.
LEMMA IoctlEffect ==
  ASSUME DP!Inv, NEW p \in Client, D!IoctlStep(p)
  PROVE  /\ incall[p] /\ incall' \in [Client -> BOOLEAN]
         /\ UNCHANGED <<open, given, cur, cpu>>
         /\ \A q \in Client \ {p} : mem'[q] = mem[q] /\ incall'[q] = incall[q] /\ idx'[q] = idx[q]
         /\ \A b \in Script \ {cur[p]} : mem'[p][b] = mem[p][b]
<1>1. DriverTypes
  BY DriverFacts
<1>2. incall[p] /\ UNCHANGED <<open, given, cur, cpu>>
  BY DEF D!IoctlStep, D!Nop, D!ReadMsr, D!WriteMsr, D!ReadTsc, D!Stop, D!UnknownOp,
     D!LimitReached, D!At, D!client, D!memory
<1>3. /\ incall' \in [Client -> BOOLEAN]
      /\ \A q \in Client \ {p} : incall'[q] = incall[q] /\ idx'[q] = idx[q]
  BY <1>1 DEF D!IoctlStep, D!Nop, D!ReadMsr, D!WriteMsr, D!ReadTsc, D!Stop, D!UnknownOp,
     D!LimitReached, D!Return, D!Advance, DriverTypes
<1>4. mem' = mem \/ \E v : D!Store(p, v)
  BY DEF D!IoctlStep, D!Nop, D!ReadMsr, D!WriteMsr, D!ReadTsc, D!Stop, D!UnknownOp,
     D!LimitReached, D!memory
<1>5. ASSUME NEW v, D!Store(p, v)
      PROVE  /\ \A q \in Client \ {p} : mem'[q] = mem[q]
             /\ \A b \in Script \ {cur[p]} : mem'[p][b] = mem[p][b]
  BY <1>1, <1>5 DEF D!Store, DriverTypes
<1> QED
  BY <1>2, <1>3, <1>4, <1>5
-----------------------------------------------------------------------------
LEMMA SomeArgs == (CHOOSE a \in Args : TRUE) \in Args
<1>1. PICK d \in Domain, c \in TestCount : TRUE
  BY LibAssumption
<1>2. [n \in 1 .. 0 |-> 0] \in [1 .. 0 -> Event]
  OBVIOUS
<1>3. 0 \in 0 .. PMC_COUNT
  BY Counts
<1>4. [n \in 1 .. 0 |-> 0] \in UNION {[1 .. n -> Event] : n \in 0 .. PMC_COUNT}
  BY <1>2, <1>3
<1>5. [evts |-> [n \in 1 .. 0 |-> 0], domain |-> d, count |-> c] \in Args
  BY <1>1, <1>4 DEF Args
<1> QED
  BY <1>5

LEMMA InitIInv == Init => IInv
<1> SUFFICES ASSUME Init PROVE IInv
  OBVIOUS
<1>1. ResetScript \in LibVectors /\ LibVectors \subseteq Seq(D!Cmd)
  BY DriverAssumptions, SameSets DEF LibVectors, DP!VectorAssumption
<1>2. DP!TypeOK
  BY <1>1, Counts, SameSets DEF Init, DP!TypeOK, DP!Module, D!Module, Script
<1>3. DP!Pinned
  BY DEF Init, DP!Pinned, D!Module
<1>4. DP!ScriptsReusable
  BY DEF Init, DP!ScriptsReusable, DP!SameScript
<1>5. DP!StaysInVector
  BY DEF Init, DP!StaysInVector
<1>6. DP!Inv
  BY <1>2, <1>3, <1>4, <1>5 DEF DP!Inv
<1>7. Types
  BY SomeArgs DEF Init, Types, TypeOK
<1>8. ASSUME NEW p \in Client PROVE Local(p)
  <2>1. Scripts(p) /\ Calling(p) /\ Looping(p)
    BY DEF Init, Scripts, Calling, Looping, InBaseline, InTests
  <2>2. Holding(p)
    BY DEF Init, Holding, BeforeOpen, Needs
  <2>3. Recording(p)
    BY DEF Init, Recording, InTests
  <2> QED
    BY <2>1, <2>2, <2>3 DEF Local
<1> QED
  BY <1>6, <1>7, <1>8 DEF IInv

-----------------------------------------------------------------------------
(***************************************************************************)
(* The driver's invariant: the library moves the driver only by its calls, *)
(* except where it records all three vectors at once.                      *)
(***************************************************************************)
LEMMA NotCalling ==
  ASSUME IInv, NEW p \in Client, Called(pc[p]) = "none"
  PROVE  ~ incall[p]
<1>1. cur[p] \in Script /\ Calling(p)
  BY DriverFacts DEF IInv, Local, DriverTypes
<1> QED
  BY <1>1 DEF Calling, Script

LEMMA PrepareKeeps ==
  ASSUME IInv, NEW p \in Client, Prepare(p)
  PROVE  DP!Inv'
<1> DEFINE new == [b \in Script |-> CASE b = "reset" -> ResetScript
                                      [] b = "read"  -> ReadScript
                                      [] b = "cfg"   -> CfgScript(args[p])]
<1>1. DP!Inv /\ DriverTypes /\ args[p] \in Args
  BY DriverFacts DEF IInv, Types, TypeOK
<1>2. ~ incall[p]
  BY NotCalling DEF Prepare, Goto, Called
<1>3. /\ \A v \in LibVectors : v \in Seq(D!Cmd)
      /\ ResetScript \in LibVectors /\ ReadScript \in LibVectors
      /\ CfgScript(args[p]) \in LibVectors
  BY <1>1, DriverAssumptions, SameSets DEF LibVectors, DP!VectorAssumption
<1>4. new \in [Script -> LibVectors] /\ new \in [Script -> Seq(D!Cmd)]
  BY <1>3 DEF Script
<1>5. mem' = [mem EXCEPT ![p] = new] /\ given' = [given EXCEPT ![p] = new]
  BY <1>1 DEF Prepare, DriverTypes
<1>6. UNCHANGED <<loaded, chrdev, pce, msr, tsc, cpu, open, incall, cur, idx, ret>>
  BY DEF Prepare
<1> HIDE DEF new
<1>7. DP!TypeOK'
  <2>1. /\ mem' \in [Client -> [Script -> Seq(D!Cmd)]]
        /\ given' \in [Client -> [Script -> LibVectors]]
    BY <1>1, <1>4, <1>5 DEF DriverTypes
  <2> QED
    BY <1>1, <1>6, <2>1, SameSets DEF DP!Inv, DP!TypeOK
<1>8. DP!Pinned'
  BY <1>1, <1>6 DEF DP!Inv, DP!Pinned
<1>9. /\ mem'[p] = new /\ given'[p] = new
      /\ \A q \in Client \ {p} : mem'[q] = mem[q] /\ given'[q] = given[q]
  BY <1>1, <1>5 DEF DriverTypes
<1>10. DP!ScriptsReusable'
  <2>1. \A v : DP!SameScript(v, v)
    BY DEF DP!SameScript
  <2>2. ASSUME NEW q \in Client, NEW b \in Script
        PROVE  DP!SameScript(mem'[q][b], given'[q][b])
    BY <1>1, <1>9, <2>1, <2>2 DEF DP!Inv, DP!ScriptsReusable
  <2> QED
    BY <2>2 DEF DP!ScriptsReusable, DP!SameScript
<1>11. DP!StaysInVector'
  BY <1>1, <1>2, <1>6, <1>9 DEF DP!Inv, DP!StaysInVector
<1> QED
  BY <1>7, <1>8, <1>10, <1>11 DEF DP!Inv

LEMMA NextDriver == ASSUME IInv, Next PROVE DP!Inv'
<1>1. DP!Inv /\ DriverTypes
  BY DriverFacts DEF IInv
<1>2. ASSUME NEW p \in Client, LibStep(p) PROVE DriverMoves \/ Prepare(p)
  <2>1. CASE \/ BadLibName(p) \/ DlopenFails(p) \/ Dlopen(p) \/ DlsymFails(p)
             \/ MallocFails(p) \/ OpenFails(p) \/ BaselineNext(p) \/ BaselineEnd(p)
             \/ ReturnsUnstopped(p) \/ RecordResult(p)
    BY <2>1 DEF BadLibName, DlopenFails, Dlopen, DlsymFails, MallocFails, OpenFails,
       BaselineNext, BaselineEnd, ReturnsUnstopped, RecordResult, DriverMoves
  <2>2. CASE LoadDriver(p) \/ Release(p)
    BY <2>2 DEF LoadDriver, Release, DriverMoves
  <2>3. CASE \/ ResetForBaseline(p) \/ BaselineStart(p) \/ BaselineStop(p)
             \/ ResetForTest(p) \/ StartCounters(p) \/ StopCounters(p) \/ FinalReset(p)
    BY <2>3 DEF ResetForBaseline, BaselineStart, BaselineStop, ResetForTest,
       StartCounters, StopCounters, FinalReset, Ioctl, Script, DriverMoves
  <2>4. CASE Average(p)
    BY <2>4 DEF Average, DriverMoves, Script, LibVectors
  <2>5. CASE DivideByZero(p)
    <3>1. open[p] /\ ~ incall[p]
      BY <2>5, NotCalling DEF IInv, Local, Holding, BeforeOpen, DivideByZero, Goto, Called
    <3> QED
      BY <2>5, <3>1 DEF DivideByZero, DriverMoves, D!Close, D!device, D!memory, D!call
  <2> QED
    BY <1>2, <2>1, <2>2, <2>3, <2>4, <2>5 DEF LibStep
<1>3. ASSUME NEW p \in Client, DriverStep(p) PROVE DriverMoves
  BY <1>3 DEF DriverStep, DriverMoves
<1>4. ASSUME NEW p \in Client, NEW a \in Args, Runtest(p, a) PROVE DriverMoves
  BY <1>4 DEF Runtest, DriverMoves
<1>5. ASSUME NEW p \in Client, NEW c \in Cpu, Migrate(p, c) PROVE DriverMoves
  BY <1>5 DEF Migrate, DriverMoves
<1>6. ASSUME NEW c \in Cpu, Tick(c) PROVE DriverMoves
  BY <1>6 DEF Tick, DriverMoves
<1>7. DriverMoves \/ \E p \in Client : Prepare(p)
  BY <1>2, <1>3, <1>4, <1>5, <1>6 DEF Next
<1> QED
  BY <1>1, <1>7, DriverKeeps, PrepareKeeps

-----------------------------------------------------------------------------
(***************************************************************************)
(* Types of the library's variables.                                       *)
(***************************************************************************)
LEMMA NextTypes == ASSUME IInv, Next PROVE Types'
<1> DEFINE Row == [D!Counter -> Int]
           Window == Int \X Int \X BOOLEAN
           Rest == UNCHANGED <<pc, answer, args, i, held, failed, fixed>>
<1>1. /\ Types /\ TypeOK /\ DriverTypes /\ DP!Inv
      /\ rows \in [Client -> Seq(Row)] /\ window \in [Client -> Seq(Window)]
  BY DriverFacts DEF IInv, Types
<1> HIDE DEF Row, Window
<1>2. ASSUME rows' \in [Client -> Seq(Row)]
      PROVE  \A p \in Client : \A n \in 1 .. Len(rows'[p]) : rows'[p][n] \in Row
  BY <1>2
<1>3. ASSUME UNCHANGED libVars, UNCHANGED window,
             inner' \in [Client -> Int], outer' \in [Client -> Int]
      PROVE  Types'
  BY <1>1, <1>3 DEF libVars, Types, TypeOK
<1>4. ASSUME NEW p \in Client, NEW a \in Args, Runtest(p, a) PROVE Types'
  <2>1. rows' \in [Client -> Seq(Row)] /\ window' \in [Client -> Seq(Window)]
    BY <1>1, <1>4 DEF Runtest
  <2> QED
    BY <1>1, <1>2, <1>4, <2>1 DEF Runtest, Goto, Types, TypeOK, Row, Window
<1>5. ASSUME NEW p \in Client, LibStep(p) PROVE Types'
  <2>1. CASE BadLibName(p) \/ DlopenFails(p) \/ DlsymFails(p) \/ MallocFails(p) \/ OpenFails(p)
    BY <1>1, <2>1 DEF BadLibName, DlopenFails, DlsymFails, MallocFails, OpenFails, Return,
       Goto, history, Types, TypeOK
  <2>2. CASE Dlopen(p) \/ Prepare(p)
    <3>1. held \in [Client -> [Resource -> Nat]]
      BY <1>1 DEF TypeOK
    <3>2. ASSUME NEW r \in Resource, Acquire(p, r)
          PROVE  held' \in [Client -> [Resource -> Nat]]
      BY <3>1, <3>2 DEF Acquire
    <3>3. held' \in [Client -> [Resource -> Nat]]
      BY <2>2, <3>2 DEF Dlopen, Prepare, Resource
    <3> QED
      BY <1>1, <2>2, <3>3 DEF Dlopen, Prepare, Goto, history, Types, TypeOK
  <2>3. CASE LoadDriver(p) \/ BaselineStart(p) \/ BaselineStop(p) \/ StartCounters(p)
             \/ StopCounters(p) \/ FinalReset(p) \/ ReturnsUnstopped(p) \/ BaselineEnd(p)
    BY <1>1, <2>3 DEF LoadDriver, BaselineStart, BaselineStop, StartCounters, StopCounters,
       FinalReset, ReturnsUnstopped, BaselineEnd, Ioctl, Goto, history, Types, TypeOK
  <2>4. CASE ResetForBaseline(p) \/ ResetForTest(p)
    <3>1. args[p].count \in Nat
      BY <1>1, LibAssumption DEF TypeOK, Args
    <3>2. inner' \in [Client -> Int] /\ outer' \in [Client -> Int]
      BY <1>1, <2>4 DEF ResetForBaseline, ResetForTest, Types
    <3>3. i' \in [Client -> Nat]
      BY <1>1, <2>4, <3>1 DEF ResetForBaseline, ResetForTest, TypeOK
    <3>4. fixed' \in [Client -> [D!Counter -> Nat]]
      <4>1. [k \in D!Counter |-> 0] \in [D!Counter -> Nat]
        OBVIOUS
      <4> QED
        BY <1>1, <2>4, <4>1 DEF ResetForBaseline, ResetForTest, TypeOK
    <3> QED
      BY <1>1, <2>4, <3>2, <3>3, <3>4
      DEF ResetForBaseline, ResetForTest, Ioctl, Goto, Types, TypeOK
  <2>5. CASE BaselineNext(p)
    <3>1. i[p] \in Nat /\ i[p] > 0
      BY <1>1, <2>5 DEF BaselineNext, Goto, TypeOK, IInv, Local, Looping
    <3>2. i' \in [Client -> Nat]
      BY <1>1, <2>5, <3>1 DEF BaselineNext, TypeOK
    <3> QED
      BY <1>1, <2>5, <3>2 DEF BaselineNext, Goto, history, Types, TypeOK
  <2>6. CASE DivideByZero(p)
    BY <1>1, <2>6 DEF DivideByZero, Goto, history, Types, TypeOK
  <2>7. CASE Average(p)
    <3>1. args[p].count \in Nat \ {0} /\ given[p]["read"] = ReadScript
      BY <1>1, <2>7, LibAssumption
      DEF TypeOK, Args, Average, Goto, IInv, Local, Scripts
    <3>2. ASSUME NEW m \in Nat, NEW n \in Nat \ {0} PROVE m \div n \in Nat
      OBVIOUS
    <3>3. \A k \in D!Counter : Reading(p, k) \div args[p].count \in Nat
      BY <1>1, <3>1, <3>2, ReadingNat
    <3>4. fixed' \in [Client -> [D!Counter -> Nat]]
      BY <1>1, <2>7, <3>3 DEF Average, TypeOK
    <3>5. i' \in [Client -> Nat]
      BY <1>1, <2>7 DEF Average, TypeOK
    <3> QED
      BY <1>1, <2>7, <3>4, <3>5 DEF Average, Goto, history, Types, TypeOK
  <2>8. CASE RecordResult(p)
    <3>1. PICK from \in {"stopped", "unstopped"} :
            /\ Goto(p, from, "test")
            /\ window' = [window EXCEPT ![p] =
                            Append(@, <<inner[p], outer[p], from = "stopped">>)]
      BY <2>8 DEF RecordResult
    <3>2. given[p]["read"] = ReadScript
      BY <3>1 DEF Goto, IInv, Local, Scripts
    <3>3. ASSUME NEW m \in Nat, NEW n \in Nat PROVE m - n \in Int
      OBVIOUS
    <3>4. \A k \in D!Counter : Reading(p, k) - fixed[p][k] \in Int
      BY <1>1, <3>2, <3>3, ReadingNat DEF TypeOK
    <3>5. [k \in D!Counter |-> Reading(p, k) - fixed[p][k]] \in Row
      BY <3>4 DEF Row
    <3>6. rows' \in [Client -> Seq(Row)]
      BY <1>1, <2>8, <3>5 DEF RecordResult
    <3>7. <<inner[p], outer[p], from = "stopped">> \in Window
      BY <1>1 DEF Types, Window
    <3>8. window' \in [Client -> Seq(Window)]
      BY <1>1, <3>1, <3>7
    <3>9. i' \in [Client -> Nat]
      BY <1>1, <2>8 DEF RecordResult, TypeOK
    <3>10. pc' = [pc EXCEPT ![p] = "test"]
      BY <3>1 DEF Goto
    <3>11. \A q \in Client : \A n \in 1 .. Len(rows'[q]) : rows'[q][n] \in Row
      BY <1>2, <3>6
    <3>12. UNCHANGED <<args, held, failed, fixed, answer, inner, outer>>
      BY <2>8 DEF RecordResult
    <3> QED
      BY <1>1, <3>6, <3>8, <3>9, <3>10, <3>11, <3>12 DEF Types, TypeOK, Row, Window
  <2>9. CASE Release(p)
    <3>1. pc[p] = "closing"
      BY <2>9 DEF Release, Return, Goto
    <3>2. ASSUME NEW r \in Resource PROVE held[p][r] \in Nat /\ held[p][r] >= 1
      <4>1. held[p][r] \in Nat /\ held[p][r] >= Needs(pc[p], r)
        BY <1>1 DEF TypeOK, IInv, Local, Holding
      <4>2. Needs(pc[p], r) = 1
        BY <3>1 DEF Needs
      <4> QED
        BY <4>1, <4>2
    <3>3. ASSUME NEW m \in Nat, m >= 1 PROVE m - 1 \in Nat
      BY <3>3
    <3>4. [r \in Resource |-> held[p][r] - 1] \in [Resource -> Nat]
      BY <3>2, <3>3
    <3>5. held' \in [Client -> [Resource -> Nat]]
      BY <1>1, <2>9, <3>4 DEF Release, TypeOK
    <3> QED
      BY <1>1, <2>9, <3>5 DEF Release, Return, Goto, history, Types, TypeOK
  <2> QED
    BY <1>5, <2>1, <2>2, <2>3, <2>4, <2>5, <2>6, <2>7, <2>8, <2>9 DEF LibStep
<1>6. ASSUME NEW c \in Cpu, Tick(c) PROVE Types'
  <2>1. inner' \in [Client -> Int] /\ outer' \in [Client -> Int]
    BY <1>1, <1>6 DEF Tick, Types
  <2> QED
    BY <1>3, <1>6, <2>1 DEF Tick
<1>7. ASSUME NEW p \in Client, DriverStep(p) \/ \E c \in Cpu : Migrate(p, c) PROVE Types'
  BY <1>1, <1>3, <1>7 DEF DriverStep, Migrate, history, Types
<1> QED
  BY <1>4, <1>5, <1>6, <1>7 DEF Next

-----------------------------------------------------------------------------
(***************************************************************************)
(* A step of one client leaves the part of every other one alone.          *)
(***************************************************************************)
LEMMA OthersKept ==
  ASSUME IInv, NEW p \in Client, NEW q \in Client \ {p},
         LibStep(p) \/ DriverStep(p) \/ \E a \in Args : Runtest(p, a)
  PROVE  Kept(q)
<1>1. DriverTypes /\ Types /\ TypeOK
  BY DriverFacts DEF IInv, Types
<1> USE DEF Kept
<1>2. CASE DriverStep(p)
  BY <1>1, <1>2, IoctlEffect DEF IInv, DriverStep, libVars, history
<1>3. CASE \E a \in Args : Runtest(p, a)
  BY <1>1, <1>3 DEF Runtest, Goto, driverVars, TypeOK, Types, DriverTypes
<1>4. CASE BadLibName(p) \/ DlopenFails(p) \/ DlsymFails(p) \/ MallocFails(p) \/ OpenFails(p)
  BY <1>1, <1>4 DEF BadLibName, DlopenFails, DlsymFails, MallocFails, OpenFails, Return,
     Goto, history, driverVars, Types, TypeOK
<1>5. CASE Dlopen(p)
  BY <1>1, <1>5 DEF Dlopen, Acquire, Goto, history, driverVars, Types, TypeOK
<1>6. CASE Prepare(p)
  BY <1>1, <1>6 DEF Prepare, Acquire, Goto, history, Types, TypeOK, DriverTypes
<1>7. CASE LoadDriver(p)
  BY <1>1, <1>7 DEF LoadDriver, D!Open, D!memory, D!call, Goto, history, Types, TypeOK, DriverTypes
<1>8. CASE ResetForBaseline(p) \/ ResetForTest(p) \/ BaselineStart(p) \/ BaselineStop(p)
           \/ StartCounters(p) \/ StopCounters(p) \/ FinalReset(p)
  BY <1>1, <1>8 DEF ResetForBaseline, ResetForTest, BaselineStart, BaselineStop, StartCounters,
     StopCounters, FinalReset, Ioctl, D!IoctlEnter, D!client, D!memory, Goto, history,
     Types, TypeOK, DriverTypes
<1>9. CASE ReturnsUnstopped(p) \/ BaselineEnd(p) \/ BaselineNext(p) \/ RecordResult(p)
  BY <1>1, <1>9 DEF ReturnsUnstopped, BaselineEnd, BaselineNext, RecordResult, Goto, history,
     driverVars, Types, TypeOK
<1>10. CASE DivideByZero(p)
  BY <1>1, <1>10 DEF DivideByZero, Goto, history, Types, TypeOK, DriverTypes
<1>11. CASE Average(p)
  BY <1>1, <1>11 DEF Average, D!Build, D!client, D!call, Goto, history, Types, TypeOK, DriverTypes
<1>12. CASE Release(p)
  BY <1>1, <1>12 DEF Release, Return, D!Close, D!memory, D!call, Goto, history,
     Types, TypeOK, DriverTypes
<1> QED
  BY <1>2, <1>3, <1>4, <1>5, <1>6, <1>7, <1>8, <1>9, <1>10, <1>11, <1>12 DEF LibStep

-----------------------------------------------------------------------------
(***************************************************************************)
(* The moving client's own part, conjunct by conjunct.                     *)
(***************************************************************************)
Acts(p) == LibStep(p) \/ \E a \in Args : Runtest(p, a)

LEMMA ScriptsStep ==
  ASSUME IInv, NEW p \in Client, Acts(p)
  PROVE  Scripts(p)'
<1>1. DriverTypes /\ Types /\ TypeOK /\ Scripts(p)
  BY DriverFacts DEF IInv, Types, Local
<1> USE DEF Scripts
<1>3. CASE \E a \in Args : Runtest(p, a)
  BY <1>1, <1>3 DEF Runtest, Goto, TypeOK
<1>4. CASE BadLibName(p) \/ DlopenFails(p) \/ DlsymFails(p) \/ MallocFails(p) \/ OpenFails(p)
           \/ Dlopen(p) \/ DivideByZero(p) \/ Release(p)
  BY <1>1, <1>4 DEF BadLibName, DlopenFails, DlsymFails, MallocFails, OpenFails, Return,
     Dlopen, DivideByZero, Release, Goto, TypeOK
<1>6. CASE Prepare(p)
  BY <1>1, <1>6 DEF Prepare, Goto, TypeOK, DriverTypes, Script
<1>7. CASE LoadDriver(p)
  BY <1>1, <1>7 DEF LoadDriver, D!Open, D!memory, Goto, TypeOK
<1>8. CASE ResetForBaseline(p) \/ ResetForTest(p) \/ BaselineStart(p) \/ BaselineStop(p)
           \/ StartCounters(p) \/ StopCounters(p) \/ FinalReset(p)
  BY <1>1, <1>8 DEF ResetForBaseline, ResetForTest, BaselineStart, BaselineStop, StartCounters,
     StopCounters, FinalReset, Ioctl, D!IoctlEnter, D!memory, Goto, TypeOK
<1>9. CASE ReturnsUnstopped(p) \/ BaselineEnd(p) \/ BaselineNext(p) \/ RecordResult(p)
  BY <1>1, <1>9 DEF ReturnsUnstopped, BaselineEnd, BaselineNext, RecordResult, Goto,
     driverVars, TypeOK
<1>11. CASE Average(p)
  BY <1>1, <1>11 DEF Average, D!Build, Goto, TypeOK, DriverTypes, Script
<1> QED
  BY <1>3, <1>4, <1>6, <1>7, <1>8, <1>9, <1>11 DEF Acts, LibStep

LEMMA CallingStep ==
  ASSUME IInv, NEW p \in Client, Acts(p)
  PROVE  Calling(p)'
<1>1. DriverTypes /\ Types /\ TypeOK /\ Calling(p)
  BY DriverFacts DEF IInv, Types, Local
<1>2. CASE ResetForBaseline(p) \/ ResetForTest(p) \/ BaselineStart(p) \/ BaselineStop(p)
           \/ StartCounters(p) \/ StopCounters(p) \/ FinalReset(p)
  BY <1>1, <1>2 DEF ResetForBaseline, ResetForTest, BaselineStart, BaselineStop, StartCounters,
     StopCounters, FinalReset, Ioctl, D!IoctlEnter, Goto, Calling, Called, TypeOK, DriverTypes
<1>3. CASE ReturnsUnstopped(p) \/ BaselineEnd(p) \/ BaselineNext(p) \/ RecordResult(p)
  BY <1>1, <1>3 DEF ReturnsUnstopped, BaselineEnd, BaselineNext, RecordResult, Returned,
     driverVars, Calling
<1>4. CASE Called(pc[p]) = "none" /\ incall'[p] = incall[p]
  BY <1>4, NotCalling DEF Calling
<1>5. CASE \E a \in Args : Runtest(p, a)
  BY <1>4, <1>5 DEF Runtest, Goto, driverVars, Called
<1>6. CASE BadLibName(p) \/ DlopenFails(p) \/ DlsymFails(p) \/ MallocFails(p) \/ OpenFails(p)
           \/ Dlopen(p) \/ Prepare(p) \/ DivideByZero(p)
  BY <1>4, <1>6 DEF BadLibName, DlopenFails, DlsymFails, MallocFails, OpenFails, Return,
     Dlopen, Prepare, DivideByZero, Goto, driverVars, Called
<1>7. CASE LoadDriver(p) \/ Average(p)
  BY <1>4, <1>7 DEF LoadDriver, Average, D!Open, D!Build, D!call, Goto, Called
<1>8. CASE Release(p)
  BY <1>8 DEF Release, D!Close, D!call, Calling
<1> QED
  BY <1>2, <1>3, <1>5, <1>6, <1>7, <1>8 DEF Acts, LibStep

LEMMA HoldingStep ==
  ASSUME IInv, NEW p \in Client, Acts(p)
  PROVE  Holding(p)'
<1>1. DriverTypes /\ Types /\ TypeOK /\ Holding(p)
  BY DriverFacts DEF IInv, Types, Local
<1>2. \A r \in Resource : held[p][r] \in Nat
  BY <1>1 DEF TypeOK
<1> USE DEF Holding, BeforeOpen, Needs, Resource
<1>3. CASE \E a \in Args : Runtest(p, a)
  BY <1>1, <1>2, <1>3 DEF Runtest, Goto, driverVars, TypeOK
<1>4. CASE BadLibName(p) \/ DlopenFails(p) \/ DlsymFails(p) \/ MallocFails(p) \/ OpenFails(p)
  <2>1. /\ pc[p] \in {"checkName", "dlsym", "open"} /\ pc'[p] = "idle" /\ failed'[p] = TRUE
        /\ held' = held /\ open' = open
    BY <1>1, <1>4 DEF BadLibName, DlopenFails, DlsymFails, MallocFails, OpenFails, Return,
       Goto, driverVars, Types, TypeOK
  <2> QED
    BY <1>1, <1>2, <2>1
<1>5. CASE Dlopen(p)
  <2>1. /\ pc[p] = "checkName" /\ pc'[p] = "dlsym" /\ failed' = failed /\ open' = open
        /\ held'[p] = [held[p] EXCEPT !["handle"] = held[p]["handle"] + 1]
    BY <1>1, <1>5 DEF Dlopen, Acquire, Goto, driverVars, TypeOK
  <2>2. held'[p]["handle"] = held[p]["handle"] + 1 /\ held'[p]["pmc_cfg"] = held[p]["pmc_cfg"]
    BY <1>1, <2>1 DEF TypeOK
  <2> QED
    BY <1>1, <1>2, <2>1, <2>2
<1>12. CASE Prepare(p)
  <2>1. /\ pc[p] = "dlsym" /\ pc'[p] = "open" /\ failed' = failed /\ open' = open
        /\ held'[p] = [held[p] EXCEPT !["pmc_cfg"] = held[p]["pmc_cfg"] + 1]
    BY <1>1, <1>12 DEF Prepare, Acquire, Goto, TypeOK
  <2>2. held'[p]["pmc_cfg"] = held[p]["pmc_cfg"] + 1 /\ held'[p]["handle"] = held[p]["handle"]
    BY <1>1, <2>1 DEF TypeOK
  <2> QED
    BY <1>1, <1>2, <2>1, <2>2
<1>6. CASE DivideByZero(p)
  BY <1>1, <1>2, <1>6 DEF DivideByZero, Goto, TypeOK, DriverTypes
<1>7. CASE LoadDriver(p)
  BY <1>1, <1>2, <1>7 DEF LoadDriver, D!Open, Goto, TypeOK, DriverTypes
<1>8. CASE ResetForBaseline(p) \/ ResetForTest(p) \/ BaselineStart(p) \/ BaselineStop(p)
           \/ StartCounters(p) \/ StopCounters(p) \/ FinalReset(p)
  BY <1>1, <1>2, <1>8 DEF ResetForBaseline, ResetForTest, BaselineStart, BaselineStop, StartCounters,
     StopCounters, FinalReset, Ioctl, D!IoctlEnter, D!client, Goto, TypeOK
<1>9. CASE ReturnsUnstopped(p) \/ BaselineEnd(p) \/ BaselineNext(p) \/ RecordResult(p)
  BY <1>1, <1>2, <1>9 DEF ReturnsUnstopped, BaselineEnd, BaselineNext, RecordResult, Goto,
     driverVars, TypeOK
<1>10. CASE Average(p)
  BY <1>1, <1>2, <1>10 DEF Average, D!Build, D!client, Goto, TypeOK
<1>11. CASE Release(p)
  BY <1>1, <1>2, <1>11 DEF Release, Return, D!Close, Goto, Types, TypeOK, DriverTypes
<1> QED
  BY <1>3, <1>4, <1>5, <1>6, <1>7, <1>8, <1>9, <1>10, <1>11, <1>12 DEF Acts, LibStep

LEMMA LoopingStep ==
  ASSUME IInv, NEW p \in Client, Acts(p)
  PROVE  Looping(p)'
<1>1. TypeOK /\ Looping(p) /\ i[p] \in Nat /\ args[p].count \in Nat
  BY LibAssumption DEF IInv, Types, Local, TypeOK, Args
<1> USE DEF Looping, InBaseline, InTests
<1>3. CASE \E a \in Args : Runtest(p, a)
  BY <1>1, <1>3 DEF Runtest, Goto, TypeOK
<1>4. CASE BadLibName(p) \/ DlopenFails(p) \/ DlsymFails(p) \/ MallocFails(p) \/ OpenFails(p)
           \/ Dlopen(p) \/ DivideByZero(p) \/ Release(p) \/ Prepare(p) \/ LoadDriver(p)
           \/ BaselineEnd(p) \/ Average(p)
  BY <1>1, <1>4 DEF BadLibName, DlopenFails, DlsymFails, MallocFails, OpenFails, Return,
     Dlopen, DivideByZero, Release, Prepare, LoadDriver, BaselineEnd, Average, Goto, TypeOK
<1>5. CASE ResetForBaseline(p) \/ BaselineStart(p) \/ BaselineStop(p) \/ BaselineNext(p)
  BY <1>1, <1>5 DEF ResetForBaseline, BaselineStart, BaselineStop, BaselineNext, Ioctl, Goto, TypeOK
<1>6. CASE ResetForTest(p) \/ StartCounters(p) \/ StopCounters(p) \/ FinalReset(p)
           \/ ReturnsUnstopped(p) \/ RecordResult(p)
  BY <1>1, <1>6 DEF ResetForTest, StartCounters, StopCounters, FinalReset, ReturnsUnstopped,
     RecordResult, Ioctl, Goto, TypeOK
<1> QED
  BY <1>3, <1>4, <1>5, <1>6 DEF Acts, LibStep

\* The row that RecordResult appends is what the next one finds left over.
LEMMA Recorded ==
  ASSUME IInv, NEW p \in Client, RecordResult(p)
  PROVE  Recording(p)'
<1> DEFINE new == [k \in D!Counter |-> Reading(p, k) - fixed[p][k]]
           Row == [D!Counter -> Int]
<1>1. /\ Types /\ TypeOK /\ DP!Inv /\ Recording(p) /\ rows[p] \in Seq(Row)
      /\ window[p] \in Seq(Int \X Int \X BOOLEAN)
  BY DEF IInv, Types, Local
<1>2. PICK from \in {"stopped", "unstopped"} :
        /\ Goto(p, from, "test")
        /\ window' = [window EXCEPT ![p] =
                        Append(@, <<inner[p], outer[p], from = "stopped">>)]
  BY DEF RecordResult
<1>3. given[p]["read"] = ReadScript
  BY <1>2 DEF Goto, IInv, Local, Scripts
<1>4. \A k \in D!Counter : Reading(p, k) \in Nat /\ fixed[p][k] \in Nat
  BY <1>1, <1>3, ReadingNat DEF TypeOK
<1>5. new \in Row /\ \A k \in D!Counter : new[k] = Reading(p, k) - fixed[p][k]
  BY <1>4
<1>6. pc'[p] = "test" /\ pc[p] = from /\ fixed' = fixed /\ mem' = mem
  BY <1>1, <1>2 DEF Goto, RecordResult, driverVars, TypeOK
<1>7. rows'[p] = Append(rows[p], new)
  BY <1>1 DEF RecordResult, Types
<1> DEFINE w == <<inner[p], outer[p], from = "stopped">>
<1>8. window'[p] = Append(window[p], w) /\ w[3] = (from = "stopped")
      /\ w \in Int \X Int \X BOOLEAN
  BY <1>1, <1>2 DEF Types
<1> DEFINE len == Len(rows[p])
<1>9. len \in Nat /\ Len(window[p]) = len
  BY <1>1 DEF Recording
<1> HIDE DEF new, Row, w
<1>10. /\ Len(rows'[p]) = len + 1 /\ rows'[p][len + 1] = new
       /\ \A n \in 1 .. len : rows'[p][n] = rows[p][n]
       /\ rows'[p] # <<>>
  BY <1>1, <1>5, <1>7
<1>11. /\ Len(window'[p]) = len + 1 /\ window'[p][len + 1] = w
       /\ \A n \in 1 .. len : window'[p][n] = window[p][n]
  BY <1>1, <1>8, <1>9
<1> HIDE DEF len
<1>12. ASSUME NEW k \in D!Counter PROVE Reading(p, k)' = Left(p, k)'
  <2>1. Reading(p, k)' = Reading(p, k)
    BY <1>6 DEF Reading
  <2>2. Left(p, k)' = new[k] + fixed[p][k]
    BY <1>6, <1>10 DEF Left
  <2> QED
    BY <1>4, <1>5, <2>1, <2>2
<1>13. ASSUME NEW n \in 1 .. Len(rows'[p]), ~ window'[p][n][3]
       PROVE  rows'[p][n] = IF n = 1 THEN [k \in D!Counter |-> 0 - fixed'[p][k]]
                                     ELSE rows'[p][n - 1]
  <2>1. CASE n \in 1 .. len
    <3>1. n = 1 \/ n - 1 \in 1 .. len
      BY <1>9, <2>1
    <3>2. ~ window[p][n][3]
      BY <1>11, <1>13, <2>1
    <3>3. rows[p][n] = IF n = 1 THEN [k \in D!Counter |-> 0 - fixed[p][k]]
                                ELSE rows[p][n - 1]
      BY <1>1, <2>1, <3>2 DEF Recording, len
    <3> QED
      BY <1>6, <1>10, <2>1, <3>1, <3>3
  <2>2. CASE n = len + 1
    <3>1. from = "unstopped"
      BY <1>8, <1>11, <1>13, <2>2
    <3>2. \A k \in D!Counter : Reading(p, k) = Left(p, k)
      BY <1>1, <1>6, <3>1 DEF Recording
    <3>3. CASE len = 0
      <4>1. \A k \in D!Counter : new[k] = 0 - fixed[p][k]
        BY <1>1, <1>5, <3>2, <3>3 DEF Left, len
      <4>2. new = [k \in D!Counter |-> 0 - fixed[p][k]]
        BY <1>5, <4>1 DEF new
      <4> QED
        BY <1>6, <1>10, <2>2, <3>3, <4>2
    <3>4. CASE len # 0
      <4>1. len \in 1 .. len /\ len + 1 # 1 /\ (len + 1) - 1 = len /\ rows[p] # <<>>
        BY <1>1, <1>9, <3>4 DEF len
      <4>2. rows[p][len] \in Row
        BY <1>1, <4>1 DEF len
      <4>3. \A k \in D!Counter : rows[p][len][k] \in Int
        BY <4>2 DEF Row
      <4>4. \A k \in D!Counter : new[k] = rows[p][len][k]
        BY <1>4, <1>5, <3>2, <4>1, <4>3 DEF Left, len
      <4>5. new = rows[p][len]
        BY <1>5, <4>2, <4>4 DEF Row
      <4> QED
        BY <1>10, <2>2, <4>1, <4>5
    <3> QED
      BY <3>3, <3>4
  <2> QED
    BY <1>9, <1>10, <2>1, <2>2
<1> QED
  BY <1>6, <1>10, <1>11, <1>12, <1>13 DEF Recording, InTests

LEMMA RecordingStep ==
  ASSUME IInv, NEW p \in Client, Acts(p)
  PROVE  Recording(p)'
<1>1. DriverTypes /\ Types /\ TypeOK /\ Recording(p)
  BY DriverFacts DEF IInv, Types, Local
<1>2. ASSUME UNCHANGED <<rows, window, fixed, mem>>
      PROVE  \A k : Reading(p, k)' = Reading(p, k) /\ Left(p, k)' = Left(p, k)
  BY <1>2 DEF Reading, Left
<1> USE DEF Recording, InTests
<1>3. CASE \E a \in Args : Runtest(p, a)
  <2>1. pc'[p] = "checkName" /\ rows'[p] = <<>> /\ window'[p] = <<>>
    BY <1>1, <1>3 DEF Runtest, Goto, TypeOK, Types
  <2> QED
    BY <2>1
<1>4. CASE BadLibName(p) \/ DlopenFails(p) \/ DlsymFails(p) \/ MallocFails(p) \/ OpenFails(p)
           \/ Dlopen(p) \/ DivideByZero(p) \/ Release(p) \/ Prepare(p) \/ LoadDriver(p)
           \/ BaselineEnd(p) \/ BaselineStart(p) \/ BaselineStop(p) \/ BaselineNext(p)
  BY <1>1, <1>4 DEF BadLibName, DlopenFails, DlsymFails, MallocFails, OpenFails, Return,
     Dlopen, DivideByZero, Release, Prepare, LoadDriver, BaselineEnd, BaselineStart,
     BaselineStop, BaselineNext, Ioctl, Goto, history, TypeOK
<1>5. CASE ResetForBaseline(p)
  <2>1. pc'[p] = "baseline" /\ rows' = rows /\ window' = window /\ rows[p] = <<>>
    BY <1>1, <1>5 DEF ResetForBaseline, Ioctl, Goto, TypeOK
  <2> QED
    BY <1>1, <2>1
<1>6. CASE Average(p)
  <2>1. /\ pc'[p] = "test" /\ rows' = rows /\ window' = window /\ rows[p] = <<>>
        /\ mem'[p]["read"] = ReadScript
    BY <1>1, <1>6 DEF Average, Goto, D!Build, history, TypeOK, DriverTypes, Script
  <2>2. \A k \in D!Counter : Reading(p, k)' = 0 /\ Left(p, k)' = 0
    BY <2>1, ReadingZero DEF Left
  <2> QED
    BY <1>1, <2>1, <2>2
<1>7. CASE ResetForTest(p) \/ StartCounters(p) \/ StopCounters(p) \/ FinalReset(p)
           \/ ReturnsUnstopped(p)
  <2>1. UNCHANGED <<rows, window, fixed, mem>>
    BY <1>7 DEF ResetForTest, StartCounters, StopCounters, FinalReset,
       ReturnsUnstopped, Ioctl, D!IoctlEnter, D!memory, history, driverVars
  <2>2. /\ pc[p] \in {"test", "execute", "started"}
        /\ pc'[p] \in {"execute", "started", "unstopped", "stopped", "closing"}
    BY <1>1, <1>7 DEF ResetForTest, StartCounters, StopCounters, FinalReset,
       ReturnsUnstopped, Ioctl, Goto, TypeOK
  <2> QED
    BY <1>1, <1>2, <2>1, <2>2
<1>8. CASE RecordResult(p)
  BY <1>8, Recorded
<1> QED
  BY <1>3, <1>4, <1>5, <1>6, <1>7, <1>8 DEF Acts, LibStep

-----------------------------------------------------------------------------
LEMMA NextLocal ==
  ASSUME IInv, Next, NEW q \in Client
  PROVE  Local(q)'
<1>1. Local(q)
  BY DEF IInv
<1>2. CASE Kept(q)
  BY <1>1, <1>2, LocalKept
<1>3. ASSUME NEW c \in Cpu, Tick(c) PROVE Kept(q)
  BY <1>3 DEF Tick, D!Tick, D!client, D!memory, D!call, libVars, Kept
<1>4. ASSUME NEW p \in Client, NEW c \in Cpu, Migrate(p, c) PROVE Kept(q)
  BY <1>4 DEF Migrate, D!Migrate, D!memory, D!call, libVars, history, Kept
<1>5. ASSUME Acts(q) PROVE Local(q)'
  BY <1>5, ScriptsStep, CallingStep, HoldingStep, LoopingStep, RecordingStep DEF Local
<1>6. ASSUME DriverStep(q) PROVE Local(q)'
  <2>1. /\ incall[q] /\ open' = open /\ given' = given /\ cur' = cur /\ cur[q] \in Script
        /\ \A b \in Script \ {cur[q]} : mem'[q][b] = mem[q][b]
    BY <1>6, IoctlEffect, DriverFacts DEF IInv, DriverStep, DriverTypes
  <2>2. UNCHANGED <<libVars, window>>
    BY <1>6 DEF DriverStep, history
  <2>3. Scripts(q)'
    BY <1>1, <2>1, <2>2 DEF Local, Scripts, libVars
  <2>4. Calling(q)'
    BY <1>1, <2>1, <2>2 DEF Local, Calling, libVars
  <2>5. Holding(q)' /\ Looping(q)'
    BY <1>1, <2>1, <2>2 DEF Local, Holding, Looping, libVars
  <2>6. ASSUME pc[q] \in {"test", "execute", "started", "unstopped"}, NEW k \in D!Counter
        PROVE  Reading(q, k)' = Reading(q, k) /\ Left(q, k)' = Left(q, k)
    <3>1. cur[q] # "read"
      BY <1>1, <2>1, <2>6 DEF Local, Calling, Called, Script
    <3>2. mem'[q]["read"] = mem[q]["read"]
      BY <2>1, <3>1 DEF Script
    <3> QED
      BY <2>2, <3>2 DEF Reading, Left, libVars
  <2>7. Recording(q)'
    BY <1>1, <2>2, <2>6 DEF Local, Recording, libVars
  <2> QED
    BY <2>3, <2>4, <2>5, <2>7 DEF Local
<1>7. ASSUME NEW p \in Client \ {q}, Acts(p) \/ DriverStep(p) PROVE Kept(q)
  BY <1>7, OthersKept DEF Acts
<1> QED
  BY <1>2, <1>3, <1>4, <1>5, <1>6, <1>7 DEF Next, Acts

LEMMA StutterIInv == ASSUME IInv, UNCHANGED vars PROVE IInv'
<1> USE DEF vars, libVars, history
<1>1. DP!Inv'
  BY DriverKeeps DEF IInv, DriverMoves
<1>2. Types'
  BY DEF IInv, Types, TypeOK
<1>3. ASSUME NEW q \in Client PROVE Local(q)'
  BY LocalKept DEF IInv, driverVars, Kept
<1> QED
  BY <1>1, <1>2, <1>3 DEF IInv

LEMMA NextIInv == IInv /\ [Next]_vars => IInv'
BY NextDriver, NextTypes, NextLocal, StutterIInv DEF IInv

THEOREM Invariance == Spec => []IInv
BY InitIInv, NextIInv, PTL DEF Spec

(***************************************************************************)
(* runtest gives back what it took: the descriptor always, the handle and  *)
(* the vectors as long as no call failed.                                  *)
(***************************************************************************)
THEOREM LibPmcNothingHeld == Spec => []NothingHeldAtReturn
<1>1. IInv => NothingHeldAtReturn
  <2> SUFFICES ASSUME IInv, NEW p \in Client, pc[p] \in {"idle", "dead"}
               PROVE  ~ open[p] /\ (~ failed[p] => \A r \in Resource : held[p][r] = 0)
    BY DEF IInv, Types, NothingHeldAtReturn
  <2>1. Holding(p)
    BY DEF IInv, Local
  <2> QED
    BY <2>1 DEF Holding, BeforeOpen, Needs
<1> QED
  BY <1>1, Invariance, PTL

(***************************************************************************)
(* A test that does not stop its counters is recorded with what pmc_read   *)
(* held before: zeros less the baseline, or the row before it once more.   *)
(***************************************************************************)
THEOREM LibPmcStale == Spec => []UnstoppedIsStale
<1>1. IInv => UnstoppedIsStale
  BY DEF IInv, Local, Recording, UnstoppedIsStale
<1> QED
  BY <1>1, Invariance, PTL
=============================================================================
