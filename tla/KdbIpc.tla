------------------------------- MODULE KdbIpc -------------------------------
(***************************************************************************)
(* compress of blog.2013.01.11/kdb_ipc.s, the beginning of a compressor    *)
(* for kdb+ messages, and harness.s, which makes a message and calls it.   *)
(* compress copies the first sixteen bytes, enters them into a dictionary  *)
(* on its stack and looks up one more; there the code ends.                *)
(***************************************************************************)
EXTENDS Integers, Sequences, FiniteSetsExt

CONSTANTS
  XmmBytes,  \* 16: bytes in a register
  Byte,      \* 0 .. 255: a byte; and with it the dictionary's indices
  Header,    \* 6: bytes of a message before its symbols
  MaxSym,    \* bound: the length of the symbol, less than 8
  Repeats    \* how many times the symbol may be repeated; the harness: 400

\* pxor in one byte: the sum of the bits without their carries.
Xor(x, y) == MapThenSumSet(LAMBDA k : 2 ^ k * ((x \div 2 ^ k + y \div 2 ^ k) % 2), 0 .. 7)

\* What the composing module assumes of the constants: Byte is an interval of
\* naturals from 0 on, and the indices made of two bytes are in it, too.
IpcAssumption ==
  /\ XmmBytes \in Nat /\ XmmBytes % 2 = 0 /\ XmmBytes > 0
  /\ Byte \subseteq Nat /\ {0, 1} \subseteq Byte
  /\ \E b \in Byte : \A c \in Byte : c <= b
  /\ \A b \in Byte : 0 .. b \subseteq Byte
  /\ \A x, y \in Byte : Xor(x, y) \in Byte
  /\ Header \in Nat /\ MaxSym \in Nat /\ Repeats \subseteq Nat

Half == XmmBytes \div 2

\* What compress reads: three registers full, whatever the message's length.
\* Addresses start at 1; 0 is the null pointer.
Addr == 1 .. 3 * XmmBytes
Null == 0

\* What ret may take: the address the caller pushed, or an entry of dict.
Caller == -1
Nobody == -2

VARIABLES
  pc,
  symbol, count,  \* the harness: what it repeats, and how often
  aligned,        \* the caller's buffer is
  src,            \* the memory at and behind the message
  len,            \* esi: the length of the message
  dict,           \* the 256 pointers on the stack
  dst,            \* what has been stored in the block malloc returned
  r14, r12,       \* src.cursor and dst.cursor
  r8,             \* src.sentinel
  rdx,
  rcx,            \* a loop counter, the pointer looked up, the match length
  xmm0,           \* indices, shifted by a byte for each one used
  xmm14, xmm15,   \* the bytes they were made of, and those behind
  popped          \* what ret took for the return address

vars == <<pc, symbol, count, aligned, src, len, dict, dst, r14, r12, r8, rdx,
          rcx, xmm0, xmm14, xmm15, popped>>
xmms == <<xmm0, xmm14, xmm15>>

\* The bytes of a register: 0 is the lowest.
Lane == 0 .. XmmBytes - 1

Goto(from, to) == pc = from /\ pc' = to

Init ==
  /\ pc = "generate"
  /\ symbol \in UNION {[1 .. n -> Byte] : n \in 1 .. MaxSym}
  /\ count \in Repeats
  /\ aligned \in BOOLEAN
  /\ src = [a \in Addr |-> 0]
  /\ len = 0
  /\ dict \in {[i \in Byte |-> a] : a \in {Null, 1}}
  /\ dst = <<>>
  /\ r14 = 1 /\ r12 = 0 /\ r8 = 0 /\ rdx = 0 /\ rcx = 0
  /\ xmm0 = [n \in Lane |-> 0] /\ xmm14 = xmm0 /\ xmm15 = xmm0
  /\ popped = Nobody

(***************************************************************************)
(* The harness: a header that is not all zero, and the symbol over and     *)
(* over; harness.s has an aligned buffer, another caller may not.          *)
(***************************************************************************)
Generate ==
  /\ Goto("generate", "entry")
  /\ len' = Header + count * Len(symbol)
  /\ src' = [a \in Addr |->
               CASE a = 1 -> 1
                 [] a > Header /\ a <= len' -> symbol[((a - Header - 1) % Len(symbol)) + 1]
                 [] OTHER -> 0]
  /\ UNCHANGED <<symbol, count, aligned, dict, dst, r14, r12, r8, rdx, rcx, popped, xmms>>

\* A tail call of krr, which returns to the caller.
NotAligned ==
  /\ ~ aligned
  /\ Goto("entry", "returned")
  /\ popped' = Caller
  /\ UNCHANGED <<symbol, count, aligned, src, len, dict, dst, r14, r12, r8, rdx, rcx, xmms>>

\* malloc returns NULL: .LcompressEpilogue.
MallocFails ==
  /\ aligned
  /\ Goto("entry", "returned")
  /\ popped' = Caller
  /\ UNCHANGED <<symbol, count, aligned, src, len, dict, dst, r14, r12, r8, rdx, rcx, xmms>>

Largest == CHOOSE i \in Byte : \A j \in Byte : j <= i

MallocOk ==
  /\ aligned
  /\ Goto("entry", "zero")
  /\ dst' = <<0>>
  /\ rcx' = Largest
  /\ UNCHANGED <<symbol, count, aligned, src, len, dict, r14, r12, r8, rdx, popped, xmms>>

\* .Lcompress0
ZeroDict ==
  /\ Goto("zero", IF rcx = 0 THEN "copyFirst" ELSE "zero")
  /\ dict' = [dict EXCEPT ![rcx] = Null]
  /\ rcx' = rcx - 1
  /\ UNCHANGED <<symbol, count, aligned, src, len, dst, r14, r12, r8, rdx, popped, xmms>>

\* The offsets and values an index byte and Half bytes from cursor put at d.
Copied(d, cursor) ==
  [o \in d .. d + Half |-> IF o = d THEN 0 ELSE src[cursor + o - d - 1]]

\* dst as a sequence that starts at offset 0
Store(d, cursor) ==
  [n \in 1 .. d + Half + 1 |-> IF n - 1 < d THEN dst[n] ELSE Copied(d, cursor)[n - 1]]

\* movdqa; palignr by one and pxor, which make an index of each byte and the
\* one behind it; and psrldq by one.
Loaded(a) == [n \in Lane |-> src[a + n]]
Indices(low, high) ==
  [n \in Lane |-> Xor(low[n], IF n = XmmBytes - 1 THEN high[0] ELSE low[n + 1])]
Shifted(xmm) == [n \in Lane |-> IF n = XmmBytes - 1 THEN 0 ELSE xmm[n + 1]]

CopyFirst ==
  /\ Goto("copyFirst", "first")
  /\ xmm14' = Loaded(r14) /\ xmm15' = Loaded(r14 + XmmBytes)
  /\ xmm0' = Indices(xmm14', xmm15')
  /\ dst' = Store(r12, r14)
  /\ r12' = r12 + Half + 1
  /\ r8' = r14 + Half
  /\ UNCHANGED <<symbol, count, aligned, src, len, dict, r14, rdx, rcx, popped>>

\* Mutant: psrldq is missing.
EnterUnshifted(from, to) ==
  /\ Goto(from, IF r14 + 1 = r8 THEN to ELSE from)
  /\ dict' = [dict EXCEPT ![xmm0[0]] = r14]
  /\ r14' = r14 + 1
  /\ UNCHANGED <<symbol, count, aligned, src, len, dst, r12, r8, rdx, rcx, popped, xmms>>

\* .LwriteFirstEightDictBytes and .LwriteNextEightDictBytes
Enter(from, to) ==
  /\ Goto(from, IF r14 + 1 = r8 THEN to ELSE from)
  /\ dict' = [dict EXCEPT ![xmm0[0]] = r14]
  /\ xmm0' = Shifted(xmm0)
  /\ r14' = r14 + 1
  /\ UNCHANGED <<symbol, count, aligned, src, len, dst, r12, r8, rdx, rcx, xmm14, xmm15, popped>>

EnterFirst == Enter("first", "copyNext")
EnterNext  == Enter("next", "start")

\* Mutant: the second eight bytes are taken from the start again.
CopyNextFirst ==
  /\ Goto("copyNext", "next")
  /\ dst' = Store(r12, 1)
  /\ r12' = r12 + Half + 1
  /\ r8' = r8 + Half
  /\ UNCHANGED <<symbol, count, aligned, src, len, dict, r14, rdx, rcx, popped, xmms>>

CopyNext ==
  /\ Goto("copyNext", "next")
  /\ dst' = Store(r12, r14)
  /\ r12' = r12 + Half + 1
  /\ r8' = r8 + Half
  /\ UNCHANGED <<symbol, count, aligned, src, len, dict, r14, rdx, rcx, popped, xmms>>

\* Mutant: the second sixteen bytes are not taken over into xmm14.
StartRealStale ==
  /\ Goto("start", "lookup")
  /\ rdx' = XmmBytes
  /\ r8' = 0
  /\ xmm0' = Indices(xmm14, xmm15)
  /\ UNCHANGED <<symbol, count, aligned, src, len, dict, dst, r14, r12, rcx, xmm14, xmm15, popped>>

\* The number of bytes left is computed in rdx, and overwritten; the registers
\* move on by one load.
StartReal ==
  /\ Goto("start", "lookup")
  /\ rdx' = XmmBytes
  /\ r8' = 0
  /\ xmm14' = xmm15 /\ xmm15' = Loaded(r14 + XmmBytes)
  /\ xmm0' = Indices(xmm14', xmm15')
  /\ UNCHANGED <<symbol, count, aligned, src, len, dict, dst, r14, r12, rcx, popped>>

\* .LcompressAB: the previous position with this index, and this one for it.
Lookup ==
  /\ Goto("lookup", IF dict[xmm0[0]] = Null THEN "writeDict" ELSE "compare")
  /\ rcx' = dict[xmm0[0]]
  /\ dict' = [dict EXCEPT ![xmm0[0]] = r14]
  /\ UNCHANGED <<symbol, count, aligned, src, len, dst, r14, r12, r8, rdx, popped, xmms>>

AtMost(n) == IF n < 0 THEN (IF 0 - n < XmmBytes THEN 0 - n ELSE XmmBytes) ELSE IF n < XmmBytes THEN n ELSE XmmBytes

(***************************************************************************)
(* pcmpestri $0x18 finds the first byte in which the two registers differ; *)
(* bytes behind the length of one operand differ, behind both they do not. *)
(* The lengths are rdx for the old position and the distance from it to    *)
(* the end for the new one, of which the absolute value counts.            *)
(***************************************************************************)
FirstDifference(old, xmm, oldLen, newLen) ==
  LET differ == {n \in Lane :
                   IF n < oldLen /\ n < newLen THEN src[old + n] # xmm[n]
                                               ELSE n < oldLen \/ n < newLen}
  IN  IF differ = {} THEN XmmBytes ELSE CHOOSE n \in differ : \A m \in differ : n <= m

End == 1 + len

\* Mutant: the first position in which the bytes are the same.
CompareEqual ==
  /\ Goto("compare", "writeDict")
  /\ LET same == {n \in Lane : src[rcx + n] = xmm14[n]}
     IN  rcx' = IF same = {} THEN XmmBytes ELSE CHOOSE n \in same : \A m \in same : n <= m
  /\ UNCHANGED <<symbol, count, aligned, src, len, dict, dst, r14, r12, r8, rdx, popped, xmms>>

\* .LcompressAC; whatever the result, nothing is done with it yet.
Compare ==
  /\ Goto("compare", "writeDict")
  /\ rcx' = FirstDifference(rcx, xmm14, AtMost(rdx), AtMost(End - rcx))
  /\ UNCHANGED <<symbol, count, aligned, src, len, dict, dst, r14, r12, r8, rdx, popped, xmms>>

WriteDict ==
  /\ Goto("writeDict", "rotateRegs")
  /\ r14' = r14 + 1
  /\ rdx' = rdx - 1
  /\ UNCHANGED <<symbol, count, aligned, src, len, dict, dst, r12, r8, rcx, popped, xmms>>

\* Mutant: the epilogue instead of the ret.
RotateRegsEpilogue ==
  /\ Goto("rotateRegs", "returned")
  /\ popped' = Caller
  /\ UNCHANGED <<symbol, count, aligned, src, len, dict, dst, r14, r12, r8, rdx, rcx, xmms>>

(***************************************************************************)
(* .LcompressAErotateRegs is a ret, with rsp still at the dictionary: its  *)
(* entry 0 becomes the return address.                                     *)
(***************************************************************************)
RotateRegs ==
  /\ Goto("rotateRegs", "returned")
  /\ popped' = dict[0]
  /\ UNCHANGED <<symbol, count, aligned, src, len, dict, dst, r14, r12, r8, rdx, rcx, xmms>>

Next ==
  \/ Generate \/ NotAligned \/ MallocFails \/ MallocOk \/ ZeroDict
  \/ CopyFirst \/ EnterFirst \/ CopyNext \/ EnterNext \/ StartReal
  \/ Lookup \/ Compare \/ WriteDict \/ RotateRegs

\* The process keeps being scheduled.
Spec == Init /\ [][Next]_vars /\ WF_vars(Next)

-----------------------------------------------------------------------------
TypeOK ==
  /\ src \in [Addr -> Byte]
  /\ dict \in [Byte -> Addr \cup {Null}]
  /\ r14 \in 1 .. XmmBytes + 2 /\ popped \in Addr \cup {Null, Caller, Nobody} /\ rcx \in Byte \cup 0 .. XmmBytes \cup {-1}
  /\ \A n \in DOMAIN dst : dst[n] \in Byte
  /\ Len(dst) <= 2 * (Half + 1)
  /\ {xmm0, xmm14, xmm15} \subseteq [Lane -> Byte]

\* While compress enters positions, and when it has entered the last one.
Filling == {"copyFirst", "first", "copyNext", "next", "start", "lookup", "rotateRegs"}

\* The index that a byte and the one behind it make.
Index(a) == Xor(src[a], src[a + 1])

(***************************************************************************)
(* The dictionary gives for every index the last position before the       *)
(* cursor whose two bytes make it, and null if there is none.              *)
(***************************************************************************)
DictIsLastPosition ==
  pc \in Filling =>
    \A i \in Byte :
      LET before == {a \in 1 .. r14 - 1 : Index(a) = i}
      IN  dict[i] = IF before = {} THEN Null
                    ELSE CHOOSE a \in before : \A b \in before : b <= a

(***************************************************************************)
(* The block holds the bytes before the cursor, in groups of eight, each   *)
(* after an index byte that says that none of them is compressed.          *)
(***************************************************************************)
DstIsCopy ==
  pc \in {"start", "lookup", "compare", "writeDict", "rotateRegs"} =>
    dst = <<0>> \o [n \in 1 .. Half |-> src[n]]
            \o <<0>> \o [n \in 1 .. Half |-> src[Half + n]]

(***************************************************************************)
(* A match is one: so many bytes from the position that was looked up are  *)
(* those at the cursor, and the next ones differ or are behind the end or  *)
(* the register.                                                           *)
(***************************************************************************)
MatchIsLongest ==
  [][pc = "compare" =>
       /\ \A n \in 0 .. rcx' - 1 : src[rcx + n] = src[r14 + n]
       /\ rcx' < AtMost(End - rcx) => src[rcx + rcx'] # src[r14 + rcx']]_vars

\* compress returns to its caller if it has nothing to compress with; else
\* its ret takes a dictionary entry for the address ("Returns RAX: pointer to
\* malloc'd bytes", kdb_ipc.s).
ReturnsUnlessCompressing ==
  pc = "returned" => (popped = Caller) = (dst = <<>>)

\* compress comes to a ret.
Ends == <>(pc = "returned")
=============================================================================
