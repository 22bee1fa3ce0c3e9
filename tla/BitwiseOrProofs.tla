-------------------------- MODULE BitwiseOrProofs ---------------------------
(***************************************************************************)
(* The kernels are right for every length and every admissible alignment.  *)
(***************************************************************************)
EXTENDS BitwiseOr, SequenceTheorems, TLAPS

AtHead == {"entry", "testInputType", "loop", "line", "lineEnd", "failed", "wild"}
Tail16 == {"eight", "four", "two", "one"}

\* How many elements may remain when a part of the tail is looked at.
Width(s) == CASE s = "eight" -> 16 [] s = "four" -> 8 [] s = "two" -> 4 [] s = "one" -> 2

(***************************************************************************)
(* rdx stays a multiple of 16 up to the tail; in the tail the stack block  *)
(* and rdx advance together, and each part leaves less than its width.     *)
(***************************************************************************)
Cursor ==
  /\ pc \in AtHead => stack = SavedArgs /\ rdx % 16 = 0
  /\ pc \in {"entry", "testInputType"} => rdx = 0
  /\ pc = "line" => AtLine /\ Remaining >= 64
  /\ pc = "lineEnd" => Remaining < 64
  /\ pc \in Tail16 => /\ stack \in 0 .. n /\ stack + rbx = rdx /\ n - stack < 16
                      /\ Remaining < Width(pc)

\* Everything before rdx is done, by the versions that do it right.
Progress ==
  /\ pc # "done" /\ kernel # "avx" => \A k \in 0 .. rdx - 1 : dst[k] = k
  /\ ResultRight

(***************************************************************************)
(* Whether the line loop has run is visible in the calls; as long as it    *)
(* has not, and will, the first line is still ahead.                       *)
(***************************************************************************)
LinePassed == calls = <<"start", "stop">>

Protocol ==
  /\ calls \in {<<>>, <<"start">>, <<"start", "stop">>}
  /\ kernel = "dso" => calls = <<>>
  /\ pc = "entry" => calls = <<>>
  /\ pc \in {"testInputType", "loop"} /\ ~ LinePassed
       => calls = IF kernel \in {"avx", "sse"} THEN <<"start">> ELSE <<>>
  /\ pc = "testInputType" => ~ LinePassed
  /\ pc \in {"line", "lineEnd"} => n >= Lead + 64 /\ (kernel # "dso" => calls = <<"start">>)
  /\ kernel # "dso" /\ LinePassed => n >= Lead + 64
  /\ pc = "loop" /\ LinePassed => Remaining < 64
  /\ pc \in {"testInputType", "loop"} /\ kernel # "dso" /\ ~ LinePassed /\ n >= Lead + 64
       => rdx <= Lead
  /\ pc \in Tail16 \cup {"done"} /\ kernel # "dso" => (LinePassed <=> n >= Lead + 64)

IInv == TypeOK /\ Cursor /\ StaysInside /\ Progress /\ Protocol

-----------------------------------------------------------------------------
(***************************************************************************)
(* One byte of the result: 1 if the input byte and the mask share a bit,   *)
(* 0 otherwise.                                                            *)
(***************************************************************************)
THEOREM ByteTest ==
  ASSUME NEW x \in Bits, NEW m \in Bits
  PROVE  OneByte(x, m) = IF \E j \in 0 .. 7 : x[j] /\ m[j] THEN One ELSE Zero
<1>1. CASE \E j \in 0 .. 7 : x[j] /\ m[j]
  <2>1. PICK j \in 0 .. 7 : x[j] /\ m[j]
    BY <1>1
  <2>2. pand(x, m)[j] # Zero[j]
    BY <2>1 DEF pand, Zero
  <2>3. pcmpeqb(pand(x, m), Zero) = Zero
    BY <2>2 DEF pcmpeqb
  <2>4. pand(pxor(Zero, Ones), One) = One
    BY DEF pand, pxor, Zero, Ones, One
  <2> QED
    BY <1>1, <2>3, <2>4 DEF OneByte
<1>2. CASE ~ \E j \in 0 .. 7 : x[j] /\ m[j]
  <2>1. pand(x, m) = Zero
    BY <1>2 DEF pand, Zero
  <2>2. pand(pxor(Ones, Ones), One) = Zero
    BY DEF pand, pxor, Zero, Ones, One
  <2> QED
    BY <1>2, <2>1, <2>2 DEF OneByte, pcmpeqb
<1> QED
  BY <1>1, <1>2

\* An object has room for its elements, and a 16-byte block that holds one of
\* them lies inside.
LEMMA PaddedFits ==
  ASSUME NEW k \in Nat
  PROVE  /\ Padded(k) \in Nat /\ Padded(k) >= k
         /\ \A r \in Nat : r % 16 = 0 /\ r < k => r + 16 <= Padded(k)
  BY DEF Padded

\* The cell function of a plain block.
LEMMA BlockCells ==
  ASSUME NEW base \in Nat, NEW w \in Nat, NEW j \in 0 .. w - 1
  PROVE  Block(base, w)[j] = base + j /\ Block(base, w) \in [0 .. w - 1 -> Nat]
  BY DEF Block

(***************************************************************************)
(* Storing w results at rdx: what the vector holds afterwards.             *)
(***************************************************************************)
LEMMA StoreCells ==
  ASSUME TypeOK, NEW w \in Nat, NEW cell \in [0 .. w - 1 -> Nat], Store(w, cell)
  PROVE  /\ dst' \in [0 .. Padded(n) - 1 -> Nat \cup {Unset}]
         /\ \A k \in 0 .. Padded(n) - 1 :
              dst'[k] = IF rdx <= k /\ k < rdx + w THEN cell[k - rdx] ELSE dst[k]
<1>1. n \in Nat /\ rdx \in Nat
  BY LensAssumption DEF TypeOK
<1>2. DOMAIN dst = 0 .. Padded(n) - 1
  BY DEF TypeOK
<1>3. Padded(n) \in Nat
  BY <1>1, PaddedFits
<1>4. ASSUME NEW k \in 0 .. Padded(n) - 1, rdx <= k, k < rdx + w
      PROVE  cell[k - rdx] \in Nat
  BY <1>1, <1>3, <1>4
<1>5. \A k \in 0 .. Padded(n) - 1 : dst[k] \in Nat \cup {Unset}
  BY DEF TypeOK
<1> QED
  BY <1>2, <1>4, <1>5 DEF Store

(***************************************************************************)
(* A block of consecutive results extends what is right by w elements.     *)
(***************************************************************************)
LEMMA StoreExtends ==
  ASSUME TypeOK, NEW w \in Nat, rdx + w <= n, Store(w, Block(rdx, w))
  PROVE  /\ dst' \in [0 .. Padded(n) - 1 -> Nat \cup {Unset}]
         /\ (\A k \in DOMAIN dst : k >= n => dst[k] = Unset)
              => \A k \in DOMAIN dst' : k >= n => dst'[k] = Unset
         /\ (\A k \in 0 .. rdx - 1 : dst[k] = k) => \A k \in 0 .. rdx + w - 1 : dst'[k] = k
<1>1. n \in Nat /\ rdx \in Nat /\ Padded(n) \in Nat /\ Padded(n) >= n
  BY LensAssumption, PaddedFits DEF TypeOK
<1>2. Block(rdx, w) \in [0 .. w - 1 -> Nat]
  BY <1>1 DEF Block
<1>3. \A j \in 0 .. w - 1 : Block(rdx, w)[j] = rdx + j
  BY <1>1 DEF Block
<1>4. dst' \in [0 .. Padded(n) - 1 -> Nat \cup {Unset}]
  BY <1>2, StoreCells
<1>5. \A k \in 0 .. Padded(n) - 1 :
        dst'[k] = IF rdx <= k /\ k < rdx + w THEN Block(rdx, w)[k - rdx] ELSE dst[k]
  BY <1>2, StoreCells
<1>6. DOMAIN dst = 0 .. Padded(n) - 1 /\ DOMAIN dst' = 0 .. Padded(n) - 1
  BY <1>4 DEF TypeOK
<1>7. ASSUME \A k \in DOMAIN dst : k >= n => dst[k] = Unset
      PROVE  \A k \in DOMAIN dst' : k >= n => dst'[k] = Unset
  BY <1>1, <1>5, <1>6, <1>7
<1>8. ASSUME \A k \in 0 .. rdx - 1 : dst[k] = k
      PROVE  \A k \in 0 .. rdx + w - 1 : dst'[k] = k
  <2> TAKE k \in 0 .. rdx + w - 1
  <2>1. k \in 0 .. Padded(n) - 1
    BY <1>1
  <2>2. CASE k < rdx
    BY <1>1, <1>5, <1>8, <2>1, <2>2
  <2>3. CASE k >= rdx
    <3>1. k - rdx \in 0 .. w - 1
      BY <1>1, <2>3
    <3> QED
      BY <1>1, <1>3, <1>5, <2>1, <2>3, <3>1
  <2> QED
    BY <1>1, <2>2, <2>3
<1> QED
  BY <1>4, <1>7, <1>8

\* The three sequences of calls.
LEMMA CallSeqs ==
  /\ {<<>>, <<"start">>, <<"start", "stop">>} \subseteq Seq({"start", "stop", "wild"})
  /\ Append(<<"start">>, "stop") = <<"start", "stop">>
<1>1. <<>> \in Seq({"start", "stop", "wild"})
  OBVIOUS
<1>2. <<"start">> \in Seq({"start", "stop", "wild"})
  OBVIOUS
<1>3. <<"start", "stop">> \in Seq({"start", "stop", "wild"})
  OBVIOUS
<1>4. Append(<<"start">>, "stop") = <<"start", "stop">>
  <2> DEFINE s == <<"start">>
             t == <<"start", "stop">>
  <2>1. Len(s) = 1 /\ s[1] = "start" /\ Len(t) = 2 /\ t[1] = "start" /\ t[2] = "stop"
    OBVIOUS
  <2>2. s \in Seq({"start", "stop", "wild"}) /\ t \in Seq({"start", "stop", "wild"})
    BY <1>2, <1>3
  <2> HIDE DEF s, t
  <2>3. Append(s, "stop") = t
    <3>1. /\ Append(s, "stop") \in Seq({"start", "stop", "wild"})
          /\ Len(Append(s, "stop")) = 2
          /\ Append(s, "stop")[1] = "start" /\ Append(s, "stop")[2] = "stop"
      BY <2>1, <2>2, AppendProperties
    <3> QED
      BY <2>1, <2>2, <3>1, SeqEqual
  <2> QED
    BY <2>3 DEF s, t
<1> QED
  BY <1>1, <1>2, <1>3, <1>4

-----------------------------------------------------------------------------
LEMMA InitIInv == Init => IInv
<1> SUFFICES ASSUME Init PROVE IInv
  OBVIOUS
<1>1. n \in Nat /\ Padded(n) \in Nat /\ Padded(n) >= n
  BY LensAssumption, PaddedFits DEF Init
<1>2. TypeOK
  BY <1>1 DEF Init, TypeOK, SavedArgs
<1>3. Cursor
  BY DEF Init, Cursor, AtHead, Tail16
<1>4. StaysInside
  BY <1>1 DEF Init, StaysInside
<1>5. Progress
  BY DEF Init, Progress, ResultRight
<1>6. Protocol
  BY DEF Init, Protocol, LinePassed, Tail16
<1> QED
  BY <1>2, <1>3, <1>4, <1>5, <1>6 DEF IInv

(***************************************************************************)
(* The facts about numbers that every step uses.                           *)
(***************************************************************************)
LEMMA Numbers ==
  ASSUME TypeOK
  PROVE  /\ n \in Nat /\ rdx \in Nat /\ rdx <= n /\ rbx \in Nat /\ touched \in Nat
         /\ stack \in Int
         /\ addr[1] \in Nat /\ addr[2] \in Nat /\ addr[1] % 16 = 0
         /\ Padded(n) \in Nat /\ Padded(n) >= n
  BY LensAssumption, AddrsAssumption, PaddedFits DEF TypeOK, SavedArgs

\* The first cache line starts at a multiple of 16, and no earlier one exists.
LEMMA LeadFacts ==
  ASSUME TypeOK
  PROVE  /\ Lead \in 0 .. 63 /\ Lead % 16 = 0
         /\ AtLine => rdx >= Lead
         /\ rdx = Lead => AtLine
<1>1. addr[1] \in Nat /\ rdx \in Nat /\ addr[1] % 16 = 0
  BY Numbers
<1> DEFINE a == (addr[1] + 16) % 64
<1>2. a \in 0 .. 63 /\ a % 16 = 0
  BY <1>1
<1>3. Lead = (64 - a) % 64
  BY DEF Lead
<1>4. Lead = IF a = 0 THEN 0 ELSE 64 - a
  BY <1>2, <1>3
<1>5. (addr[1] + 16 + rdx) % 64 = (a + rdx) % 64
  BY <1>1
<1> HIDE DEF a
<1> QED
  BY <1>1, <1>2, <1>4, <1>5 DEF AtLine

\* A step that leaves the vectors and the cursor alone.
LEMMA QuietStep ==
  ASSUME IInv, UNCHANGED <<args, rdx, dst, touched>>,
         pc' \in AtHead, pc # "done"
  PROVE  StaysInside' /\ Progress'
<1>1. StaysInside'
  BY DEF IInv, StaysInside, args
<1>2. pc' # "done"
  BY DEF AtHead
<1>3. Progress'
  BY <1>2 DEF IInv, Progress, ResultRight, args
<1> QED
  BY <1>1, <1>3

LEMMA EntryStep == ASSUME IInv, Entry PROVE IInv'
<1>1. pc = "entry" /\ pc' \in {"testInputType", "wild"} /\ stack = SavedArgs /\ rdx = 0
      /\ calls = <<>>
  BY DEF IInv, Entry, Goto, Cursor, Protocol, AtHead
<1>2. UNCHANGED <<args, rdx, rbx, stack, dst, touched>>
  BY DEF Entry
<1>3. \/ pc' = "wild" /\ calls' = <<>>
      \/ pc' = "testInputType"
         /\ calls' = IF kernel \in {"avx", "sse"} THEN <<"start">> ELSE <<>>
  BY <1>1 DEF Entry, Goto, Call
<1>4. TypeOK'
  <2>1. calls' \in Seq({"start", "stop", "wild"})
    BY <1>3, CallSeqs
  <2> QED
    BY <1>1, <1>2, <2>1 DEF IInv, TypeOK, args
<1>5. Cursor'
  BY <1>1, <1>2 DEF IInv, Cursor, AtHead, Tail16, args
<1>6. StaysInside' /\ Progress'
  BY <1>1, <1>2, QuietStep DEF AtHead
<1>7. Lead' = Lead /\ n' = n /\ kernel' = kernel
  BY <1>2 DEF Lead, args
<1>8. Lead \in 0 .. 63
  BY LeadFacts DEF IInv
<1>9. Protocol'
  BY <1>1, <1>2, <1>3, <1>7, <1>8 DEF Protocol, LinePassed, Tail16
<1> QED
  BY <1>4, <1>5, <1>6, <1>9 DEF IInv

LEMMA TypeTestStep == ASSUME IInv, HandleBadType \/ CreateResultObject PROVE IInv'
<1>1. pc = "testInputType" /\ pc' \in {"failed", "loop"}
  BY DEF HandleBadType, CreateResultObject, Goto
<1>2. UNCHANGED <<args, rdx, rbx, stack, dst, touched, calls>>
  BY DEF HandleBadType, CreateResultObject
<1>3. TypeOK'
  BY <1>1, <1>2 DEF IInv, TypeOK, args
<1>4. Cursor'
  BY <1>1, <1>2 DEF IInv, Cursor, AtHead, Tail16, args
<1>5. StaysInside' /\ Progress'
  BY <1>1, <1>2, QuietStep DEF AtHead
<1>6. Lead' = Lead /\ n' = n /\ kernel' = kernel /\ LinePassed' = LinePassed
  BY <1>2 DEF Lead, args, LinePassed
<1>7. Protocol'
  BY <1>1, <1>2, <1>6 DEF IInv, Protocol, Tail16
<1> QED
  BY <1>3, <1>4, <1>5, <1>7 DEF IInv

LEMMA SuccessExitStep == ASSUME IInv, SuccessExit PROVE IInv'
<1>1. pc = "loop" /\ pc' = "done" /\ rdx = n
  BY Numbers DEF IInv, SuccessExit, Goto, Remaining
<1>2. UNCHANGED <<args, rdx, rbx, stack, dst, touched, calls>>
  BY DEF SuccessExit
<1>3. TypeOK'
  BY <1>1, <1>2 DEF IInv, TypeOK, args
<1>4. Cursor'
  BY <1>1 DEF Cursor, AtHead, Tail16
<1>5. StaysInside'
  BY <1>2 DEF IInv, StaysInside, args
<1>6. Progress'
  BY <1>1, <1>2 DEF IInv, Progress, ResultRight, args
<1>7. Lead' = Lead /\ n' = n /\ kernel' = kernel /\ LinePassed' = LinePassed
  BY <1>2 DEF Lead, args, LinePassed
<1>8. n \in Nat /\ Lead \in 0 .. 63
  BY Numbers, LeadFacts DEF IInv
<1>9. Protocol'
  BY <1>1, <1>2, <1>7, <1>8 DEF IInv, Protocol, Tail16
<1> QED
  BY <1>3, <1>4, <1>5, <1>6, <1>9 DEF IInv

LEMMA OneXmmStep == ASSUME IInv, ProcessOneXmm PROVE IInv'
<1>1. pc = "loop" /\ pc' = "loop" /\ rdx' = rdx + 16 /\ rdx + 16 <= n /\ rdx % 16 = 0
  BY Numbers DEF IInv, ProcessOneXmm, Goto, Remaining, Cursor, AtHead
<1>2. Store(16, Block(rdx, 16)) /\ UNCHANGED <<args, rbx, stack, calls>>
  BY DEF ProcessOneXmm
<1>3. touched' = IF touched > rdx + 16 THEN touched ELSE rdx + 16
  BY DEF ProcessOneXmm, Load, Larger
<1>4. /\ dst' \in [0 .. Padded(n) - 1 -> Nat \cup {Unset}]
      /\ \A k \in DOMAIN dst' : k >= n => dst'[k] = Unset
      /\ kernel # "avx" => \A k \in 0 .. rdx + 15 : dst'[k] = k
  <2>1. \A k \in DOMAIN dst : k >= n => dst[k] = Unset
    BY DEF IInv, StaysInside
  <2>2. kernel # "avx" => \A k \in 0 .. rdx - 1 : dst[k] = k
    BY <1>1 DEF IInv, Progress
  <2>3. rdx + 16 - 1 = rdx + 15
    BY Numbers DEF IInv
  <2> QED
    BY <1>1, <1>2, <2>1, <2>2, <2>3, StoreExtends DEF IInv
<1>5. TypeOK'
  BY <1>1, <1>2, <1>3, <1>4, Numbers DEF IInv, TypeOK, args
<1>6. Cursor'
  BY <1>1, <1>2, Numbers DEF IInv, Cursor, AtHead, Tail16
<1>7. StaysInside'
  <2>1. touched <= Padded(n) /\ rdx + 16 <= Padded(n)
    BY <1>1, Numbers DEF IInv, StaysInside
  <2> QED
    BY <1>2, <1>3, <1>4, <2>1 DEF StaysInside, args
<1>8. Progress'
  BY <1>1, <1>2, <1>4, Numbers DEF IInv, Progress, ResultRight, args
<1>9. Protocol'
  <2>1. Lead' = Lead /\ n' = n /\ kernel' = kernel /\ LinePassed' = LinePassed
    BY <1>2 DEF Lead, args, LinePassed
  <2>2. Lead \in 0 .. 63 /\ Lead % 16 = 0 /\ (rdx = Lead => AtLine)
    BY LeadFacts DEF IInv
  <2>3. ASSUME kernel # "dso", ~ LinePassed, n >= Lead + 64
        PROVE  rdx + 16 <= Lead
    <3>1. rdx <= Lead
      BY <1>1, <2>3 DEF IInv, Protocol
    <3>2. rdx # Lead
      BY <2>2, <2>3, Numbers DEF IInv, ProcessOneXmm, Remaining
    <3> QED
      BY <1>1, <2>2, <3>1, <3>2, Numbers DEF IInv
  <2>4. LinePassed => Remaining < 64 /\ Remaining' < 64
    BY <1>1, <1>2, Numbers DEF IInv, Protocol, Remaining, args
  <2> QED
    BY <1>1, <1>2, <2>1, <2>3, <2>4 DEF IInv, Protocol, Tail16
<1> QED
  BY <1>5, <1>6, <1>7, <1>8, <1>9 DEF IInv

LEMMA CacheLinePreStep == ASSUME IInv, ProcessCacheLinePre PROVE IInv'
<1>1. pc = "loop" /\ pc' \in {"line", "wild"} /\ stack = SavedArgs /\ AtLine
      /\ Remaining >= 64
  BY DEF IInv, ProcessCacheLinePre, Goto, Cursor, AtHead
<1>2. UNCHANGED <<args, rdx, rbx, stack, dst, touched>>
  BY DEF ProcessCacheLinePre
<1>3. ~ LinePassed
  BY <1>1, Numbers DEF IInv, Protocol, Remaining
<1>4. calls = IF kernel \in {"avx", "sse"} THEN <<"start">> ELSE <<>>
  BY <1>1, <1>3 DEF IInv, Protocol
<1>5. \/ pc' = "wild" /\ calls' = calls
      \/ /\ pc' = "line"
         /\ calls' = IF kernel = "line" THEN <<"start">> ELSE calls
  BY <1>1, <1>4 DEF ProcessCacheLinePre, Goto, Call
<1>6. TypeOK'
  <2>1. calls' \in Seq({"start", "stop", "wild"})
    BY <1>5, CallSeqs DEF IInv, TypeOK
  <2> QED
    BY <1>1, <1>2, <2>1 DEF IInv, TypeOK, args
<1>7. Cursor'
  BY <1>1, <1>2 DEF IInv, Cursor, AtHead, Tail16, args, AtLine, Remaining
<1>8. StaysInside' /\ Progress'
  BY <1>1, <1>2, QuietStep DEF AtHead
<1>9. Protocol'
  <2>1. Lead' = Lead /\ n' = n /\ kernel' = kernel
    BY <1>2 DEF Lead, args
  <2>2. n >= Lead + 64
    BY <1>1, LeadFacts, Numbers DEF IInv, Remaining
  <2>3. kernel \in {"avx", "sse", "line", "dso"}
    BY KernelAssumption DEF IInv, TypeOK
  <2>4. pc' = "line" => (IF kernel = "dso" THEN calls' = <<>> ELSE calls' = <<"start">>)
    BY <1>4, <1>5, <2>3
  <2>5. pc' = "wild" => calls' = calls
    BY <1>5
  <2>6. <<"start">> # <<"start", "stop">> /\ <<>> # <<"start", "stop">>
    OBVIOUS
  <2> QED
    BY <1>3, <1>4, <1>5, <2>1, <2>2, <2>4, <2>5, <2>6 DEF Protocol, Tail16, LinePassed
<1> QED
  BY <1>6, <1>7, <1>8, <1>9 DEF IInv

LEMMA CacheLineStep == ASSUME IInv, ProcessCacheLine PROVE IInv'
<1>1. /\ pc = "line" /\ pc' \in {"line", "lineEnd"} /\ rdx' = rdx + 64 /\ rdx + 64 <= n
      /\ AtLine /\ rdx % 16 = 0 /\ stack = SavedArgs
  BY Numbers DEF IInv, ProcessCacheLine, Remaining, Cursor, AtHead
<1>2. Store(64, LineBlock) /\ UNCHANGED <<args, rbx, stack, calls>>
  BY DEF ProcessCacheLine
<1>3. touched' = IF touched > rdx + 64 THEN touched ELSE rdx + 64
  BY DEF ProcessCacheLine, Load, Larger
<1>4. LineBlock \in [0 .. 64 - 1 -> Nat]
  BY Numbers DEF IInv, LineBlock, Block
<1>5. /\ dst' \in [0 .. Padded(n) - 1 -> Nat \cup {Unset}]
      /\ \A k \in 0 .. Padded(n) - 1 :
           dst'[k] = IF rdx <= k /\ k < rdx + 64 THEN LineBlock[k - rdx] ELSE dst[k]
  BY <1>2, <1>4, StoreCells DEF IInv
<1>6. TypeOK'
  BY <1>1, <1>2, <1>3, <1>5, Numbers DEF IInv, TypeOK, args
<1>7. Cursor'
  BY <1>1, <1>2, Numbers
     DEF IInv, Cursor, AtHead, Tail16, ProcessCacheLine, Remaining, AtLine, args
<1>8. StaysInside'
  <2>1. touched <= Padded(n) /\ rdx + 64 <= Padded(n)
    BY <1>1, Numbers DEF IInv, StaysInside
  <2>2. DOMAIN dst' = 0 .. Padded(n) - 1 /\ DOMAIN dst = 0 .. Padded(n) - 1
    BY <1>5, CallSeqs DEF IInv, TypeOK
  <2>3. \A k \in DOMAIN dst' : k >= n => dst'[k] = Unset
    BY <1>1, <1>5, <2>2, Numbers DEF IInv, StaysInside
  <2> QED
    BY <1>2, <1>3, <2>1, <2>3 DEF StaysInside, args
<1>9. Progress'
  <2>1. ASSUME kernel # "avx"
        PROVE  \A k \in 0 .. rdx + 64 - 1 : dst'[k] = k
    <3>1. Store(64, Block(rdx, 64))
      BY <1>2, <2>1 DEF LineBlock
    <3>2. \A k \in 0 .. rdx - 1 : dst[k] = k
      BY <1>1, <2>1 DEF IInv, Progress
    <3> QED
      BY <1>1, <3>1, <3>2, StoreExtends DEF IInv
  <2> QED
    BY <1>1, <1>2, <2>1, Numbers DEF IInv, Progress, ResultRight, args
<1>10. Protocol'
  <2>1. Lead' = Lead /\ n' = n /\ kernel' = kernel /\ LinePassed' = LinePassed
    BY <1>2 DEF Lead, args, LinePassed
  <2> QED
    BY <1>1, <1>2, <2>1 DEF IInv, Protocol, Tail16
<1> QED
  BY <1>6, <1>7, <1>8, <1>9, <1>10 DEF IInv

LEMMA CacheLineEndStep == ASSUME IInv, CacheLineEnd PROVE IInv'
<1>1. pc = "lineEnd" /\ pc' = "loop" /\ stack = SavedArgs /\ Remaining < 64
  BY DEF IInv, CacheLineEnd, Goto, Cursor, AtHead
<1>2. UNCHANGED <<args, rdx, rbx, stack, dst, touched>>
  BY DEF CacheLineEnd
<1>3. calls' = IF kernel = "dso" THEN <<>> ELSE <<"start", "stop">>
  BY <1>1, CallSeqs DEF IInv, CacheLineEnd, Call, Protocol
<1>4. TypeOK'
  <2>1. calls' \in Seq({"start", "stop", "wild"})
    BY <1>3, CallSeqs
  <2> QED
    BY <1>1, <1>2, <2>1 DEF IInv, TypeOK, args
<1>5. Cursor'
  BY <1>1, <1>2 DEF IInv, Cursor, AtHead, Tail16, args
<1>6. StaysInside' /\ Progress'
  BY <1>1, <1>2, QuietStep DEF AtHead
<1>7. Protocol'
  <2>1. Lead' = Lead /\ n' = n /\ kernel' = kernel /\ Remaining' = Remaining
    BY <1>2 DEF Lead, args, Remaining
  <2>2. n >= Lead + 64
    BY <1>1 DEF IInv, Protocol
  <2>3. <<>> # <<"start", "stop">>
    OBVIOUS
  <2> QED
    BY <1>1, <1>3, <2>1, <2>2, <2>3 DEF Protocol, LinePassed, Tail16
<1> QED
  BY <1>4, <1>5, <1>6, <1>7 DEF IInv

LEMMA SubXmmStep == ASSUME IInv, SubXmmRemaining PROVE IInv'
<1>1. /\ pc = "loop" /\ pc' = "eight" /\ rdx % 16 = 0 /\ 0 < n - rdx /\ n - rdx < 16
      /\ stack' = rdx /\ rbx' = 0
  BY DEF IInv, SubXmmRemaining, Goto, Remaining, Cursor, AtHead
<1>2. UNCHANGED <<args, rdx, dst, calls>>
  BY DEF SubXmmRemaining
<1>3. touched' = IF touched > rdx + 16 THEN touched ELSE rdx + 16
  BY DEF SubXmmRemaining, Load, Larger
<1>4. TypeOK'
  BY <1>1, <1>2, <1>3, Numbers DEF IInv, TypeOK, args
<1>5. Cursor'
  BY <1>1, <1>2, Numbers DEF IInv, Cursor, AtHead, Tail16, Width, Remaining, args
<1>6. StaysInside'
  <2>1. touched <= Padded(n) /\ rdx + 16 <= Padded(n)
    BY <1>1, Numbers, PaddedFits DEF IInv, StaysInside
  <2> QED
    BY <1>2, <1>3, <2>1 DEF IInv, StaysInside, args
<1>7. Progress'
  BY <1>1, <1>2 DEF IInv, Progress, ResultRight, args
<1>8. Protocol'
  <2>1. Lead' = Lead /\ n' = n /\ kernel' = kernel /\ LinePassed' = LinePassed
    BY <1>2 DEF Lead, args, LinePassed
  <2>2. ASSUME kernel # "dso"
        PROVE  LinePassed <=> n >= Lead + 64
    <3>1. LinePassed => n >= Lead + 64
      BY <2>2 DEF IInv, Protocol
    <3>2. ~ LinePassed /\ n >= Lead + 64 => rdx <= Lead
      BY <1>1, <2>2 DEF IInv, Protocol
    <3>3. rdx <= Lead => ~ (n >= Lead + 64)
      BY <1>1, Numbers, LeadFacts DEF IInv
    <3> QED
      BY <3>1, <3>2, <3>3
  <2> QED
    BY <1>1, <1>2, <2>1, <2>2 DEF IInv, Protocol, Tail16
<1> QED
  BY <1>4, <1>5, <1>6, <1>7, <1>8 DEF IInv

(***************************************************************************)
(* One part of the tail: of width 8, 4 or 2.                               *)
(***************************************************************************)
LEMMA PartStep ==
  ASSUME IInv,
         NEW w \in {8, 4, 2}, NEW from \in Tail16, NEW to \in Tail16,
         Width(from) = 2 * w, Width(to) = w, Part(w, from, to)
  PROVE  IInv'
<1>1. /\ pc = from /\ pc' = to /\ stack \in 0 .. n /\ stack + rbx = rdx /\ n - stack < 16
      /\ n - rdx < 2 * w
  BY Numbers DEF IInv, Part, Goto, Cursor, Remaining, Width
<1>2. UNCHANGED <<args, stack, touched, calls>>
  BY DEF Part
<1>3. to \notin AtHead /\ from \notin AtHead /\ to # "done" /\ from # "done"
  BY DEF Tail16, AtHead
<1>4. Protocol'
  <2>1. Lead' = Lead /\ n' = n /\ kernel' = kernel /\ LinePassed' = LinePassed
    BY <1>2 DEF Lead, args, LinePassed
  <2> QED
    BY <1>1, <1>2, <1>3, <2>1 DEF IInv, Protocol, Tail16
<1>5. CASE n - rdx < w
  <2>1. UNCHANGED <<rdx, rbx, dst>>
    BY <1>5 DEF Part, Remaining
  <2>2. TypeOK'
    BY <1>1, <1>2, <2>1 DEF IInv, TypeOK, args, Tail16
  <2>3. Cursor'
    BY <1>1, <1>2, <1>3, <1>5, <2>1 DEF Cursor, AtHead, Tail16, Remaining, args
  <2>4. StaysInside'
    BY <1>2, <2>1 DEF IInv, StaysInside, args
  <2>5. Progress'
    BY <1>1, <1>2, <1>3, <2>1 DEF IInv, Progress, ResultRight, args
  <2> QED
    BY <1>4, <2>2, <2>3, <2>4, <2>5 DEF IInv
<1>6. CASE n - rdx >= w
  <2>1. Store(w, Block(rdx, w)) /\ rdx' = rdx + w /\ rbx' = rbx + w
    BY <1>1, <1>6, Numbers DEF IInv, Part, Remaining
  <2>2. rdx + w <= n /\ rbx + w < 16
    BY <1>1, <1>6, Numbers DEF IInv
  <2>3. /\ dst' \in [0 .. Padded(n) - 1 -> Nat \cup {Unset}]
        /\ \A k \in DOMAIN dst' : k >= n => dst'[k] = Unset
        /\ kernel # "avx" => \A k \in 0 .. rdx + w - 1 : dst'[k] = k
    <3>1. \A k \in DOMAIN dst : k >= n => dst[k] = Unset
      BY DEF IInv, StaysInside
    <3>2. kernel # "avx" => \A k \in 0 .. rdx - 1 : dst[k] = k
      BY <1>1, <1>3 DEF IInv, Progress
    <3> QED
      BY <2>1, <2>2, <3>1, <3>2, StoreExtends DEF IInv
  <2>4. TypeOK'
    BY <1>1, <1>2, <2>1, <2>2, <2>3, Numbers DEF IInv, TypeOK, args, Tail16
  <2>5. Cursor'
    BY <1>1, <1>2, <1>3, <2>1, Numbers DEF IInv, Cursor, AtHead, Tail16, Remaining, args
  <2>6. StaysInside'
    BY <1>2, <2>3 DEF IInv, StaysInside, args
  <2>7. Progress'
    <3>1. rdx' - 1 = rdx + w - 1
      BY <2>1, Numbers DEF IInv
    <3> QED
      BY <1>1, <1>2, <1>3, <2>3, <3>1 DEF Progress, ResultRight, args
  <2> QED
    BY <1>4, <2>4, <2>5, <2>6, <2>7 DEF IInv
<1> QED
  BY <1>5, <1>6, Numbers DEF IInv

LEMMA LtTwoStep == ASSUME IInv, LtTwo PROVE IInv'
<1>1. /\ pc = "one" /\ pc' = "done" /\ stack + rbx = rdx /\ n - rdx < 2
      /\ rdx <= n
  BY Numbers DEF IInv, LtTwo, Goto, Cursor, Tail16, Remaining, Width
<1>2. UNCHANGED <<args, rdx, rbx, stack, touched, calls>>
  BY DEF LtTwo
<1>3. /\ dst' \in [0 .. Padded(n) - 1 -> Nat \cup {Unset}]
      /\ \A k \in DOMAIN dst' : k >= n => dst'[k] = Unset
      /\ kernel # "avx" => \A k \in 0 .. n - 1 : dst'[k] = k
  <2>1. \A k \in DOMAIN dst : k >= n => dst[k] = Unset
    BY DEF IInv, StaysInside
  <2>2. kernel # "avx" => \A k \in 0 .. rdx - 1 : dst[k] = k
    BY <1>1 DEF IInv, Progress
  <2>3. CASE n = rdx
    <3>1. dst' = dst
      BY <2>3, Numbers DEF IInv, LtTwo, Remaining
    <3> QED
      BY <2>1, <2>2, <2>3, <3>1 DEF IInv, TypeOK
  <2>4. CASE n = rdx + 1
    <3>1. Store(1, Block(rdx, 1))
      BY <1>1, <2>4, Numbers DEF IInv, LtTwo, Remaining
    <3>2. rdx + 1 - 1 = n - 1
      BY <2>4, Numbers DEF IInv
    <3> QED
      BY <2>1, <2>2, <2>4, <3>1, <3>2, StoreExtends DEF IInv
  <2> QED
    BY <1>1, <2>3, <2>4, Numbers DEF IInv
<1>4. TypeOK'
  BY <1>1, <1>2, <1>3 DEF IInv, TypeOK, args
<1>5. Cursor'
  BY <1>1 DEF Cursor, AtHead, Tail16
<1>6. StaysInside'
  BY <1>2, <1>3 DEF IInv, StaysInside, args
<1>7. Progress'
  BY <1>1, <1>2, <1>3 DEF Progress, ResultRight, args
<1>8. Protocol'
  <2>1. Lead' = Lead /\ n' = n /\ kernel' = kernel /\ LinePassed' = LinePassed
    BY <1>2 DEF Lead, args, LinePassed
  <2> QED
    BY <1>1, <1>2, <2>1 DEF IInv, Protocol, Tail16
<1> QED
  BY <1>4, <1>5, <1>6, <1>7, <1>8 DEF IInv

-----------------------------------------------------------------------------
LEMMA StepIInv == IInv /\ [Next]_vars => IInv'
<1> SUFFICES ASSUME IInv, [Next]_vars PROVE IInv'
  OBVIOUS
<1>1. CASE LtSixteen
  BY <1>1, PartStep DEF LtSixteen, Tail16, Width
<1>2. CASE LtEight
  BY <1>2, PartStep DEF LtEight, Tail16, Width
<1>3. CASE LtFour
  BY <1>3, PartStep DEF LtFour, Tail16, Width
<1>4. CASE UNCHANGED vars
  BY <1>4 DEF vars, args, IInv, TypeOK, Cursor, StaysInside, Progress, Protocol,
     ResultRight, LinePassed, Remaining, AtLine, Lead
<1> QED
  BY <1>1, <1>2, <1>3, <1>4, EntryStep, TypeTestStep, SuccessExitStep, OneXmmStep,
     CacheLinePreStep, CacheLineStep, CacheLineEndStep, SubXmmStep, LtTwoStep
     DEF Next

-----------------------------------------------------------------------------
(***************************************************************************)
(* Where in the vector the callbacks are called: start at its beginning,   *)
(* or, by "line", at the first cache line; stop behind the last one that   *)
(* is whole. Between the calls elements are only ever added.               *)
(***************************************************************************)
AtLines == pc \in {"line", "lineEnd"} => AtLine

Calling ==
  \/ calls' = calls
  \/ /\ calls = <<>> /\ calls' = <<"start">>
     /\ rdx' = rdx /\ rdx = IF kernel = "line" THEN Lead ELSE 0
  \/ /\ calls = <<"start">> /\ calls' = <<"start", "stop">>
     /\ rdx' = rdx /\ rdx >= Lead /\ Remaining < 64 /\ AtLine

\* Behind the last whole line, all the lines from the first one on are done.
LEMMA LinesDone ==
  ASSUME TypeOK, AtLine, Remaining < 64
  PROVE  rdx - Lead = 64 * ((n - Lead) \div 64)
<1>1. addr[1] \in Nat /\ rdx \in Nat /\ n \in Nat /\ rdx <= n /\ rdx >= Lead /\ Lead \in 0 .. 63
  BY Numbers, LeadFacts
<1> DEFINE a == (addr[1] + 16) % 64
<1>2. a \in 0 .. 63 /\ Lead = (64 - a) % 64 /\ (addr[1] + 16 + rdx) % 64 = (a + rdx) % 64
  BY <1>1 DEF Lead
<1>3. (a + rdx) % 64 = 0
  BY <1>2 DEF AtLine
<1> HIDE DEF a
<1>4. (rdx - Lead) % 64 = 0
  BY <1>1, <1>2, <1>3
<1> DEFINE d == rdx - Lead
           r == n - rdx
<1>5. d \in Nat /\ r \in 0 .. 63 /\ n - Lead = d + r /\ d % 64 = 0
  BY <1>1, <1>4 DEF Remaining
<1> HIDE DEF d, r
<1>6. d = 64 * ((d + r) \div 64)
  BY <1>5
<1> QED
  BY <1>5, <1>6 DEF d

LEMMA CallbackPlaces ==
  ASSUME IInv, AtLines, Next
  PROVE  AtLines' /\ Calling /\ UNCHANGED args /\ rdx' \in Nat /\ rdx <= rdx' /\ rdx' <= n
<1>0. /\ n \in Nat /\ rdx \in Nat /\ rdx <= n /\ Lead \in 0 .. 63 /\ (AtLine => rdx >= Lead)
      /\ addr[1] \in Nat
  BY Numbers, LeadFacts DEF IInv
<1>1. CASE Entry
  <2>1. /\ pc = "entry" /\ pc' \in {"testInputType", "wild"} /\ calls = <<>> /\ rdx = 0
        /\ stack = SavedArgs /\ UNCHANGED <<args, rdx>>
    BY <1>1 DEF IInv, Entry, Goto, Cursor, Protocol, AtHead
  <2>2. calls' = calls \/ (kernel \in {"avx", "sse"} /\ calls' = Append(<<>>, "start"))
    BY <1>1, <2>1 DEF Entry, Call
  <2>3. Append(<<>>, "start") = <<"start">>
    OBVIOUS
  <2> QED
    BY <1>0, <2>1, <2>2, <2>3 DEF AtLines, Calling
<1>2. CASE HandleBadType \/ CreateResultObject \/ SuccessExit \/ SubXmmRemaining
  <2>1. pc' \in {"failed", "loop", "done", "eight"} /\ UNCHANGED <<args, rdx, calls>>
    BY <1>2 DEF HandleBadType, CreateResultObject, SuccessExit, SubXmmRemaining, Goto
  <2> QED
    BY <1>0, <2>1 DEF AtLines, Calling
<1>3. CASE ProcessOneXmm
  <2>1. pc' = "loop" /\ UNCHANGED <<args, calls>> /\ rdx' = rdx + 16 /\ n - rdx >= 16
    BY <1>3 DEF ProcessOneXmm, Goto, Remaining
  <2> QED
    BY <1>0, <2>1 DEF AtLines, Calling
<1>4. CASE ProcessCacheLinePre
  <2>1. /\ pc = "loop" /\ Remaining >= 64 /\ AtLine /\ pc' \in {"line", "wild"}
        /\ UNCHANGED <<args, rdx>> /\ stack = SavedArgs
        /\ calls' = calls \/ (kernel = "line" /\ calls' = Append(calls, "start"))
    BY <1>4 DEF IInv, ProcessCacheLinePre, Goto, Call, Cursor, AtHead
  <2>2. AtLines'
    BY <2>1 DEF AtLines, AtLine, args
  <2>3. ASSUME kernel = "line" PROVE calls = <<>> /\ rdx = Lead
    <3>1. n >= Lead + 64
      BY <1>0, <2>1 DEF Remaining
    <3>2. ~ LinePassed
      BY <1>0, <2>1 DEF IInv, Protocol, Remaining
    <3>3. calls = <<>> /\ rdx <= Lead
      BY <2>1, <2>3, <3>1, <3>2 DEF IInv, Protocol
    <3> QED
      BY <1>0, <2>1, <3>3
  <2>4. Append(<<>>, "start") = <<"start">>
    OBVIOUS
  <2>5. rdx' = rdx /\ args' = args /\ rdx' \in Nat /\ rdx <= rdx' /\ rdx' <= n
    BY <1>0, <2>1
  <2>6. Calling
    <3>1. CASE calls' = calls
      BY <3>1 DEF Calling
    <3>2. CASE kernel = "line" /\ calls' = Append(calls, "start")
      <4>1. calls' = <<"start">>
        BY <2>3, <2>4, <3>2
      <4> QED
        BY <2>3, <2>5, <3>2, <4>1, Zenon DEF Calling
    <3> QED
      BY <2>1, <3>1, <3>2
  <2> QED
    BY <2>2, <2>5, <2>6
<1>5. CASE ProcessCacheLine
  <2>1. /\ pc = "line" /\ pc' \in {"line", "lineEnd"} /\ rdx' = rdx + 64
        /\ UNCHANGED <<args, calls>> /\ n - rdx >= 64 /\ AtLine
    BY <1>5 DEF IInv, Cursor, ProcessCacheLine, Remaining
  <2>2. AtLines'
    BY <1>0, <2>1 DEF AtLines, AtLine, args
  <2> QED
    BY <1>0, <2>1, <2>2 DEF Calling
<1>6. CASE CacheLineEnd
  <2>1. /\ pc = "lineEnd" /\ pc' = "loop" /\ stack = SavedArgs /\ Remaining < 64 /\ AtLine
        /\ UNCHANGED <<args, rdx>>
        /\ calls' = calls \/ (kernel # "dso" /\ calls' = Append(calls, "stop"))
    BY <1>6 DEF IInv, CacheLineEnd, Goto, Call, Cursor, AtHead, AtLines
  <2>2. kernel # "dso" => calls = <<"start">>
    BY <2>1 DEF IInv, Protocol
  <2>3. rdx' = rdx /\ args' = args /\ rdx' \in Nat /\ rdx <= rdx' /\ rdx' <= n /\ rdx >= Lead
    BY <1>0, <2>1
  <2>4. Calling
    <3>1. CASE calls' = calls
      BY <3>1 DEF Calling
    <3>2. CASE kernel # "dso" /\ calls' = Append(calls, "stop")
      <4>1. calls = <<"start">> /\ calls' = <<"start", "stop">>
        BY <2>2, <3>2, CallSeqs
      <4> QED
        BY <2>1, <2>3, <4>1 DEF Calling
    <3> QED
      BY <2>1, <3>1, <3>2
  <2> QED
    BY <2>1, <2>3, <2>4 DEF AtLines
<1>7. CASE LtSixteen \/ LtEight \/ LtFour
  <2>1. /\ pc' \in {"four", "two", "one"} /\ UNCHANGED <<args, calls>>
        /\ rdx' = rdx \/ (\E w \in {8, 4, 2} : n - rdx >= w /\ rdx' = rdx + w)
    <3>1. ASSUME NEW w \in {8, 4, 2}, NEW from, NEW to \in {"four", "two", "one"}, Part(w, from, to)
          PROVE  /\ pc' \in {"four", "two", "one"} /\ UNCHANGED <<args, calls>>
                 /\ rdx' = rdx \/ (n - rdx >= w /\ rdx' = rdx + w)
      BY <1>0, <3>1 DEF Part, Goto, Remaining
    <3> QED
      BY <1>7, <3>1 DEF LtSixteen, LtEight, LtFour
  <2> QED
    BY <1>0, <2>1 DEF AtLines, Calling
<1>8. CASE LtTwo
  <2>1. pc' = "done" /\ UNCHANGED <<args, rdx, calls>>
    BY <1>8 DEF LtTwo, Goto
  <2> QED
    BY <1>0, <2>1 DEF AtLines, Calling
<1> QED
  BY <1>1, <1>2, <1>3, <1>4, <1>5, <1>6, <1>7, <1>8 DEF Next

LEMMA Invariance == Spec => []IInv
BY InitIInv, StepIInv, PTL DEF Spec

(***************************************************************************)
(* Every variable keeps its type, for every length and alignment.          *)
(***************************************************************************)
THEOREM BitwiseOrTypeOK == Spec => []TypeOK
BY Invariance, PTL DEF IInv

(***************************************************************************)
(* The result of the SSE kernels is complete and in place, for every       *)
(* length and every place in memory.                                       *)
(***************************************************************************)
THEOREM BitwiseOrRight == Spec => []ResultRight
<1>1. IInv => ResultRight
  BY DEF IInv, Progress
<1> QED
  BY Invariance, <1>1, PTL

(***************************************************************************)
(* No kernel stores behind the result or reads outside the input object.   *)
(***************************************************************************)
THEOREM BitwiseOrInside == Spec => []StaysInside
BY Invariance, PTL DEF IInv

(***************************************************************************)
(* No aligned move of a kernel faults.                                     *)
(***************************************************************************)
THEOREM BitwiseOrAligned == Spec => []MovesAligned
<1>1. IInv => MovesAligned
  <2> SUFFICES ASSUME IInv PROVE MovesAligned
    OBVIOUS
  <2>1. /\ addr[1] \in Nat /\ addr[2] \in Nat /\ addr[1] % 16 = 0
        /\ addr[1] % 32 = addr[2] % 32 /\ rdx \in Nat
    BY AddrsAssumption, Numbers DEF IInv, TypeOK
  <2>2. addr[2] % 16 = 0
    BY <2>1
  <2>3. pc = "loop" => rdx % 16 = 0
    BY DEF IInv, Cursor, AtHead
  <2>4. pc = "line" => (addr[1] + 16 + rdx) % 64 = 0
    BY DEF IInv, Cursor, AtLine
  <2>5. (addr[1] + 16 + rdx) % 64 = 0 => (addr[2] + 16 + rdx) % 32 = 0
    BY <2>1
  <2> QED
    BY <2>1, <2>2, <2>3, <2>4, <2>5 DEF MovesAligned, AtLine
<1> QED
  BY Invariance, <1>1, PTL

(***************************************************************************)
(* Every access of a kernel is inside its object and aligned.              *)
(***************************************************************************)
THEOREM BitwiseOrAccesses == Spec => []AccessesValid
BY BitwiseOrInside, BitwiseOrAligned, PTL DEF AccessesValid

(***************************************************************************)
(* The callbacks are called in order, at most once, never through the      *)
(* overwritten stack block, and stop exactly for inputs that hold a whole  *)
(* cache line.                                                             *)
(***************************************************************************)
THEOREM BitwiseOrProtocol == Spec => []CallbackProtocol
<1>1. IInv => CallbackProtocol
  BY DEF IInv, Protocol, CallbackProtocol, LinePassed
<1> QED
  BY Invariance, <1>1, PTL

-----------------------------------------------------------------------------
(***************************************************************************)
(* The AVX version stores some elements out of place, yet what is stored   *)
(* up to the cursor are the elements up to the cursor: each block of w     *)
(* results comes from the w elements at its place, in some order.          *)
(***************************************************************************)
Onto(f, m) == {f[k] : k \in 0 .. m - 1} = 0 .. m - 1

Permuted == IF pc = "done" THEN Onto(dst, n) ELSE Onto(dst, rdx)

\* Storing the results of the w elements at the cursor, in any order.
LEMMA StoreOnto ==
  ASSUME TypeOK, Onto(dst, rdx),
         NEW w \in Nat, rdx + w <= n,
         NEW cell \in [0 .. w - 1 -> Nat], {cell[j] : j \in 0 .. w - 1} = rdx .. rdx + w - 1,
         Store(w, cell)
  PROVE  Onto(dst', rdx + w)
<1>1. n \in Nat /\ rdx \in Nat /\ Padded(n) \in Nat /\ Padded(n) >= n
  BY Numbers
<1>2. ASSUME NEW k \in 0 .. rdx - 1
      PROVE  dst'[k] = dst[k]
  <2>1. k \in 0 .. Padded(n) - 1 /\ ~ (rdx <= k)
    BY <1>1
  <2> QED
    BY <2>1, StoreCells
<1>3. ASSUME NEW j \in 0 .. w - 1
      PROVE  dst'[rdx + j] = cell[j]
  <2>1. rdx + j \in 0 .. Padded(n) - 1 /\ rdx <= rdx + j /\ rdx + j < rdx + w
        /\ (rdx + j) - rdx = j
    BY <1>1
  <2> QED
    BY <2>1, StoreCells
<1>4. ASSUME NEW k \in 0 .. (rdx + w) - 1
      PROVE  dst'[k] \in 0 .. (rdx + w) - 1
  <2>1. CASE k < rdx
    <3>1. k \in 0 .. rdx - 1
      BY <1>1, <2>1
    <3>2. dst[k] \in 0 .. rdx - 1
      BY <3>1 DEF Onto
    <3> QED
      BY <1>1, <1>2, <3>1, <3>2
  <2>2. CASE k >= rdx
    <3>1. k - rdx \in 0 .. w - 1 /\ rdx + (k - rdx) = k
      BY <1>1, <2>2
    <3>2. cell[k - rdx] \in rdx .. rdx + w - 1
      BY <3>1
    <3>3. dst'[k] = cell[k - rdx]
      BY <1>3, <3>1
    <3> QED
      BY <1>1, <3>2, <3>3
  <2> QED
    BY <1>1, <2>1, <2>2
<1>5. ASSUME NEW v \in 0 .. (rdx + w) - 1
      PROVE  \E k \in 0 .. (rdx + w) - 1 : dst'[k] = v
  <2>1. CASE v < rdx
    <3>1. v \in 0 .. rdx - 1
      BY <1>1, <2>1
    <3>2. v \in {dst[k] : k \in 0 .. rdx - 1}
      BY <3>1 DEF Onto
    <3>3. PICK k \in 0 .. rdx - 1 : dst[k] = v
      BY <3>2
    <3>4. k \in 0 .. (rdx + w) - 1
      BY <1>1
    <3> QED
      BY <1>2, <3>3, <3>4
  <2>2. CASE v >= rdx
    <3>1. v \in rdx .. rdx + w - 1
      BY <1>1, <2>2
    <3>2. v \in {cell[j] : j \in 0 .. w - 1}
      BY <3>1
    <3>3. PICK j \in 0 .. w - 1 : cell[j] = v
      BY <3>2
    <3>4. rdx + j \in 0 .. (rdx + w) - 1
      BY <1>1
    <3> QED
      BY <1>3, <3>3, <3>4
  <2> QED
    BY <1>1, <2>1, <2>2
<1> QED
  BY <1>4, <1>5 DEF Onto

\* A block in the order of the input.
LEMMA BlockOnto ==
  ASSUME NEW base \in Nat, NEW w \in Nat
  PROVE  /\ Block(base, w) \in [0 .. w - 1 -> Nat]
         /\ {Block(base, w)[j] : j \in 0 .. w - 1} = base .. base + w - 1
<1>1. Block(base, w) \in [0 .. w - 1 -> Nat]
  BY DEF Block
<1>2. \A j \in 0 .. w - 1 : Block(base, w)[j] = base + j
  BY DEF Block
<1>3. ASSUME NEW v \in base .. base + w - 1
      PROVE  \E j \in 0 .. w - 1 : base + j = v
  <2>1. v - base \in 0 .. w - 1 /\ base + (v - base) = v
    OBVIOUS
  <2> QED
    BY <2>1
<1>4. \A j \in 0 .. w - 1 : base + j \in base .. base + w - 1
  OBVIOUS
<1> QED
  BY <1>1, <1>2, <1>3, <1>4

\* A cache line, with or without its halves exchanged.
LEMMA LineOnto ==
  ASSUME TypeOK
  PROVE  /\ LineBlock \in [0 .. 63 -> Nat]
         /\ {LineBlock[j] : j \in 0 .. 63} = rdx .. rdx + 63
<1>1. rdx \in Nat
  BY Numbers
<1>2. CASE kernel # "avx"
  <2>1. LineBlock = Block(rdx, 64)
    BY <1>2 DEF LineBlock
  <2>2. 64 - 1 = 63 /\ rdx + 64 - 1 = rdx + 63
    BY <1>1
  <2>3. /\ Block(rdx, 64) \in [0 .. 64 - 1 -> Nat]
        /\ {Block(rdx, 64)[j] : j \in 0 .. 64 - 1} = rdx .. rdx + 64 - 1
    BY <1>1, BlockOnto
  <2> QED
    BY <2>1, <2>2, <2>3
<1>3. CASE kernel = "avx"
  <2> DEFINE swap(j) == IF j % 32 < 16 THEN j + 16 ELSE j - 16
  <2>1. \A j \in 0 .. 63 : swap(j) \in 0 .. 63 /\ swap(swap(j)) = j
    OBVIOUS
  <2>2. LineBlock = [j \in 0 .. 63 |-> rdx + swap(j)]
    BY <1>3 DEF LineBlock
  <2> HIDE DEF swap
  <2>3. \A j \in 0 .. 63 : LineBlock[j] = rdx + swap(j)
    BY <2>2
  <2>4. \A j \in 0 .. 63 : rdx + swap(j) \in rdx .. rdx + 63 /\ rdx + swap(j) \in Nat
    BY <1>1, <2>1
  <2>5. LineBlock \in [0 .. 63 -> Nat]
    BY <2>2, <2>4
  <2>6. ASSUME NEW v \in rdx .. rdx + 63
        PROVE  \E j \in 0 .. 63 : LineBlock[j] = v
    <3>1. v - rdx \in 0 .. 63 /\ rdx + (v - rdx) = v
      BY <1>1
    <3>2. swap(v - rdx) \in 0 .. 63 /\ swap(swap(v - rdx)) = v - rdx
      BY <2>1, <3>1
    <3>3. LineBlock[swap(v - rdx)] = v
      BY <2>3, <3>1, <3>2
    <3> QED
      BY <3>2, <3>3
  <2> QED
    BY <2>3, <2>4, <2>5, <2>6
<1> QED
  BY <1>2, <1>3

LEMMA InitPermuted == Init => Permuted
<1> SUFFICES ASSUME Init PROVE Permuted
  OBVIOUS
<1>1. 0 .. rdx - 1 = {} /\ pc # "done"
  BY DEF Init
<1> QED
  BY <1>1 DEF Permuted, Onto

\* One part of the tail.
LEMMA PartPermuted ==
  ASSUME IInv, Permuted,
         NEW w \in {8, 4, 2}, NEW from \in Tail16, NEW to \in Tail16, Part(w, from, to)
  PROVE  Permuted'
<1>1. /\ pc # "done" /\ pc' # "done" /\ stack + rbx = rdx
  BY DEF IInv, Part, Goto, Cursor, Tail16
<1>2. CASE Remaining < w
  BY <1>1, <1>2 DEF Part, Permuted
<1>3. CASE ~ (Remaining < w)
  <2>1. Store(w, Block(rdx, w)) /\ rdx' = rdx + w
    BY <1>1, <1>3 DEF Part
  <2>2. rdx \in Nat /\ w \in Nat /\ rdx + w <= n
    BY <1>3, Numbers DEF IInv, Remaining
  <2>3. Onto(dst', rdx + w)
    BY <1>1, <2>1, <2>2, BlockOnto, StoreOnto DEF IInv, Permuted
  <2> QED
    BY <1>1, <2>1, <2>3 DEF Permuted
<1> QED
  BY <1>2, <1>3

LEMMA StepPermuted == IInv /\ Permuted /\ [Next]_vars => Permuted'
<1> SUFFICES ASSUME IInv, Permuted, [Next]_vars PROVE Permuted'
  OBVIOUS
<1>1. n \in Nat /\ rdx \in Nat /\ rdx <= n
  BY Numbers DEF IInv
<1>2. CASE \/ Entry \/ HandleBadType \/ CreateResultObject \/ ProcessCacheLinePre
           \/ CacheLineEnd \/ SubXmmRemaining
  <2>1. UNCHANGED <<dst, rdx>> /\ pc # "done" /\ pc' # "done"
    BY <1>2 DEF Entry, HandleBadType, CreateResultObject, ProcessCacheLinePre, CacheLineEnd,
       SubXmmRemaining, Goto
  <2> QED
    BY <2>1 DEF Permuted
<1>3. CASE SuccessExit
  <2>1. UNCHANGED <<dst, n>> /\ pc # "done" /\ pc' = "done" /\ rdx = n
    BY <1>1, <1>3 DEF SuccessExit, Goto, Remaining, args
  <2> QED
    BY <2>1 DEF Permuted
<1>4. CASE ProcessOneXmm
  <2>1. /\ pc # "done" /\ pc' # "done" /\ Store(16, Block(rdx, 16))
        /\ rdx' = rdx + 16 /\ rdx + 16 <= n
    BY <1>1, <1>4 DEF ProcessOneXmm, Goto, Remaining
  <2>2. Onto(dst', rdx + 16)
    BY <1>1, <2>1, BlockOnto, StoreOnto DEF IInv, Permuted
  <2> QED
    BY <2>1, <2>2 DEF Permuted
<1>5. CASE ProcessCacheLine
  <2>1. /\ pc # "done" /\ pc' # "done" /\ Store(64, LineBlock)
        /\ rdx' = rdx + 64 /\ rdx + 64 <= n
    BY <1>1, <1>5 DEF IInv, Cursor, ProcessCacheLine, Remaining
  <2>2. 64 - 1 = 63 /\ rdx + 64 - 1 = rdx + 63
    BY <1>1
  <2>3. Onto(dst', rdx + 64)
    BY <2>1, <2>2, LineOnto, StoreOnto DEF IInv, Permuted
  <2> QED
    BY <2>1, <2>3 DEF Permuted
<1>6. CASE LtSixteen \/ LtEight \/ LtFour
  BY <1>6, PartPermuted DEF LtSixteen, LtEight, LtFour, Tail16
<1>7. CASE LtTwo
  <2>1. /\ pc = "one" /\ pc' = "done" /\ stack + rbx = rdx /\ n' = n /\ n - rdx < 2
    BY <1>7 DEF IInv, LtTwo, Goto, Cursor, Tail16, Remaining, Width, args
  <2>2. CASE n = rdx
    BY <1>1, <1>7, <2>1, <2>2 DEF LtTwo, Remaining, Permuted
  <2>3. CASE n = rdx + 1
    <3>1. Store(1, Block(rdx, 1)) /\ rdx + 1 <= n
      BY <1>1, <1>7, <2>1, <2>3 DEF LtTwo, Remaining
    <3>2. Onto(dst', rdx + 1)
      BY <1>1, <2>1, <3>1, BlockOnto, StoreOnto DEF IInv, Permuted
    <3> QED
      BY <2>1, <2>3, <3>2 DEF Permuted
  <2> QED
    BY <1>1, <2>1, <2>2, <2>3
<1>8. CASE UNCHANGED vars
  BY <1>8 DEF vars, args, Permuted
<1> QED
  BY <1>2, <1>3, <1>4, <1>5, <1>6, <1>7, <1>8 DEF Next

(***************************************************************************)
(* Every version computes each element exactly once, for every length and  *)
(* place in memory: what the AVX version stores out of place is neither    *)
(* lost nor doubled.                                                       *)
(***************************************************************************)
THEOREM BitwiseOrOnce == Spec => []EachElementOnce
<1>1. IInv /\ Permuted /\ [Next]_vars => (IInv /\ Permuted)'
  BY StepIInv, StepPermuted
<1>2. Permuted => EachElementOnce
  BY DEF Permuted, Onto, EachElementOnce
<1> QED
  BY InitIInv, InitPermuted, <1>1, <1>2, PTL DEF Spec
=============================================================================
