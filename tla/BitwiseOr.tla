----------------------------- MODULE BitwiseOr ------------------------------
(***************************************************************************)
(* The kernel r[i] := (x[i] & m) <> 0 over a kdb+ byte vector x and a byte *)
(* m, in its hand-written versions:                                        *)
(*   "avx"   blog.2012.12.02/kdbavxor.s                                    *)
(*   "sse"   blog.2012.12.02/kdbsseor.s                                    *)
(*   "line"  blog.2012.11.20/kdbasm.s and msrmod.kdb.1/kdbasm.s            *)
(*   "dso"   blog.2012.11.20/dso-src/kdbasm.s                              *)
(* One action per labelled block.  What the vector instructions compute    *)
(* for one byte is OneByte; in the state machine a cell of the result      *)
(* holds the index of the input byte it was computed from.                 *)
(***************************************************************************)
EXTENDS Integers, Sequences

CONSTANTS
  Kernels,    \* which of the four versions are run
  Lens,       \* lengths of the input vector
  Addrs,      \* pairs: addresses of the input and of the result object
  Passed,     \* does the caller pass the two callbacks?
  Unset       \* content of a cell that nothing was stored to

ASSUME KernelAssumption ==
  Kernels \subseteq {"avx", "sse", "line", "dso"} /\ Passed \subseteq BOOLEAN
ASSUME LensAssumption == Lens \subseteq Nat
ASSUME UnsetAssumption == Unset \notin Nat

(***************************************************************************)
(* The allocator of kdb+ returns 16-byte aligned objects, and two objects  *)
(* of the same size lie alike within 32 bytes.                             *)
(***************************************************************************)
ASSUME AddrsAssumption ==
  /\ Addrs \subseteq Nat \X Nat
  /\ \A a \in Addrs : a[1] % 16 = 0 /\ a[1] % 32 = a[2] % 32

VARIABLES
  pc,
  kernel,
  typ,      \* the input is a byte vector (type 4)
  passed,   \* rdx and rcx hold the callbacks on entry
  n,        \* r15: its length
  addr,     \* r12 and r14: addresses of the input and of the result object
  rdx,      \* elements done
  rbx,      \* elements of the tail copied from the stack
  stack,    \* the 16 bytes at (%rsp): SavedArgs, or the tail's results
  dst,      \* the result vector
  touched,  \* history: 1 + the highest element read from the input
  calls     \* history: callbacks called, in order

args == <<kernel, typ, passed, n, addr>>
vars == <<pc, args, rdx, rbx, stack, dst, touched, calls>>

-----------------------------------------------------------------------------
\* stack holds arg2 and arg3; otherwise it holds the results of 16 elements,
\* and stack is the first of them.
SavedArgs == -1

\* Room for elements in an object: blocks are multiples of 16 bytes.
Padded(k) == ((k + 15) \div 16) * 16

Remaining == n - rdx

Larger(a, b) == IF a > b THEN a ELSE b

Goto(from, to) == pc = from /\ pc' = to

\* test $0x3f: the next input byte starts a cache line.
AtLine == (addr[1] + 16 + rdx) % 64 = 0

\* w results are stored at rdx; the one at place j comes from element cell[j].
Store(w, cell) ==
  dst' = [k \in DOMAIN dst |-> IF rdx <= k /\ k < rdx + w THEN cell[k - rdx] ELSE dst[k]]

Load(w) == touched' = Larger(touched, rdx + w)

\* The results of w consecutive elements from base on.
Block(base, w) == [j \in 0 .. w - 1 |-> base + j]

\* Mutant: "vperm2f128 $0x00" joins two copies of the high half's results.
LineBlockTwice ==
  IF kernel = "avx"
  THEN [j \in 0 .. 63 |-> rdx + (IF j % 32 < 16 THEN j + 16 ELSE j)]
  ELSE Block(rdx, 64)

(***************************************************************************)
(* The results of a cache line.  The AVX version processes the two halves  *)
(* of a YMM register one by one and joins them with                        *)
(* "vperm2f128 $0x20, %ymm4, %ymm5, %ymm4": low half from YMM5, which      *)
(* holds the results of the high half.                                     *)
(***************************************************************************)
LineBlock ==
  IF kernel = "avx"
  THEN [j \in 0 .. 63 |-> rdx + (IF j % 32 < 16 THEN j + 16 ELSE j - 16)]
  ELSE Block(rdx, 64)

\* A callback is called through its copy on the stack.
Call(name) == calls' = Append(calls, IF stack = SavedArgs THEN name ELSE "wild")

-----------------------------------------------------------------------------
(***************************************************************************)
(* What the instructions compute for one byte, bit by bit: pand with the   *)
(* mask, compare with zero, flip, and keep the lowest bit.                 *)
(***************************************************************************)
Bits  == [0 .. 7 -> BOOLEAN]
Zero  == [j \in 0 .. 7 |-> FALSE]   \* XMM1
Ones  == [j \in 0 .. 7 |-> TRUE]    \* XMM2
One   == [j \in 0 .. 7 |-> j = 0]   \* XMM3

pand(a, b)    == [j \in 0 .. 7 |-> a[j] /\ b[j]]
pxor(a, b)    == [j \in 0 .. 7 |-> a[j] # b[j]]
pcmpeqb(a, b) == IF a = b THEN Ones ELSE Zero

OneByte(x, m) == pand(pxor(pcmpeqb(pand(x, m), Zero), Ones), One)

-----------------------------------------------------------------------------
Init ==
  /\ pc = "entry"
  /\ kernel \in Kernels
  /\ typ \in BOOLEAN
  /\ passed \in Passed
  /\ n \in Lens
  /\ addr \in Addrs
  /\ rdx = 0 /\ rbx = 0
  /\ stack = SavedArgs
  /\ dst = [k \in 0 .. Padded(n) - 1 |-> Unset]
  /\ touched = 0
  /\ calls = <<>>

\* The versions of 2012.12.02 call start_counters first of all.
Entry ==
  /\ IF kernel \in {"avx", "sse"}
     THEN IF passed THEN Goto("entry", "testInputType") /\ Call("start")
                    ELSE Goto("entry", "wild") /\ UNCHANGED calls
     ELSE Goto("entry", "testInputType") /\ UNCHANGED calls
  /\ UNCHANGED <<args, rdx, rbx, stack, dst, touched>>

\* krr("vectype")
HandleBadType ==
  /\ ~ typ
  /\ Goto("testInputType", "failed")
  /\ UNCHANGED <<args, rdx, rbx, stack, dst, touched, calls>>

\* ktn and the constants
CreateResultObject ==
  /\ typ
  /\ Goto("testInputType", "loop")
  /\ UNCHANGED <<args, rdx, rbx, stack, dst, touched, calls>>

SuccessExit ==
  /\ Remaining = 0
  /\ Goto("loop", "done")
  /\ UNCHANGED <<args, rdx, rbx, stack, dst, touched, calls>>

\* Mutant: fewer than 16 elements are stored as 16.
OneXmmTail ==
  /\ Remaining > 0
  /\ Remaining <= 16 \/ ~ AtLine \/ Remaining < 64
  /\ Goto("loop", "loop")
  /\ Load(16) /\ Store(16, Block(rdx, 16))
  /\ rdx' = IF Remaining < 16 THEN n ELSE rdx + 16
  /\ UNCHANGED <<args, rbx, stack, calls>>

ProcessOneXmm ==
  /\ Remaining >= 16
  /\ Remaining = 16 \/ ~ AtLine \/ Remaining < 64
  /\ Goto("loop", "loop")
  /\ Load(16) /\ Store(16, Block(rdx, 16))
  /\ rdx' = rdx + 16
  /\ UNCHANGED <<args, rbx, stack, calls>>

\* Mutant: no alignment test before the cache-line loop.
CacheLineUnaligned ==
  /\ Remaining >= 64
  /\ IF kernel = "line"
     THEN IF passed THEN Goto("loop", "line") /\ Call("start")
                    ELSE Goto("loop", "wild") /\ UNCHANGED calls
     ELSE Goto("loop", "line") /\ UNCHANGED calls
  /\ UNCHANGED <<args, rdx, rbx, stack, dst, touched>>

\* The versions of 2012.11.20 call start_counters here.
ProcessCacheLinePre ==
  /\ Remaining >= 64 /\ AtLine
  /\ IF kernel = "line"
     THEN IF passed THEN Goto("loop", "line") /\ Call("start")
                    ELSE Goto("loop", "wild") /\ UNCHANGED calls
     ELSE Goto("loop", "line") /\ UNCHANGED calls
  /\ UNCHANGED <<args, rdx, rbx, stack, dst, touched>>

\* One cache line; again while 64 elements remain.
ProcessCacheLine ==
  /\ pc = "line"
  /\ pc' = IF Remaining - 64 >= 64 THEN "line" ELSE "lineEnd"
  /\ Load(64) /\ Store(64, LineBlock)
  /\ rdx' = rdx + 64
  /\ UNCHANGED <<args, rbx, stack, calls>>

\* Mutant: stop_counters is called when all is done, for every length.
LineEndWithoutStop ==
  /\ Goto("lineEnd", "loop")
  /\ UNCHANGED <<args, rdx, rbx, stack, dst, touched, calls>>

\* stop_counters, once the last line is done.
CacheLineEnd ==
  /\ Goto("lineEnd", "loop")
  /\ IF kernel = "dso" THEN UNCHANGED calls ELSE Call("stop")
  /\ UNCHANGED <<args, rdx, rbx, stack, dst, touched>>

\* The results of the last elements go to the stack, over the saved callbacks.
SubXmmRemaining ==
  /\ Remaining > 0 /\ Remaining < 16
  /\ Goto("loop", "eight")
  /\ Load(16)
  /\ stack' = rdx
  /\ rbx' = 0
  /\ UNCHANGED <<args, rdx, dst, calls>>

\* Mutant: every part is copied from the start of the stack block.
PartFromStart(w, from, to) ==
  /\ Goto(from, to)
  /\ IF Remaining < w THEN UNCHANGED <<rdx, rbx, dst>>
     ELSE /\ Store(w, Block(stack, w))
          /\ rdx' = rdx + w /\ rbx' = rbx + w
  /\ UNCHANGED <<args, stack, touched, calls>>

\* If w elements remain they are copied from the stack to the result.
Part(w, from, to) ==
  /\ Goto(from, to)
  /\ IF Remaining < w THEN UNCHANGED <<rdx, rbx, dst>>
     ELSE /\ Store(w, Block(stack + rbx, w))
          /\ rdx' = rdx + w /\ rbx' = rbx + w
  /\ UNCHANGED <<args, stack, touched, calls>>

LtSixteen == Part(8, "eight", "four")
LtEight   == Part(4, "four", "two")
LtFour    == Part(2, "two", "one")

\* The last one, without counting it.
LtTwo ==
  /\ Goto("one", "done")
  /\ IF Remaining < 1 THEN UNCHANGED dst ELSE Store(1, Block(stack + rbx, 1))
  /\ UNCHANGED <<args, rdx, rbx, stack, touched, calls>>

Next ==
  \/ Entry \/ HandleBadType \/ CreateResultObject \/ SuccessExit
  \/ ProcessOneXmm \/ ProcessCacheLinePre \/ ProcessCacheLine \/ CacheLineEnd
  \/ SubXmmRemaining \/ LtSixteen \/ LtEight \/ LtFour \/ LtTwo

Spec == Init /\ [][Next]_vars

-----------------------------------------------------------------------------
\* Every variable has its type, and the result object keeps its size.
TypeOK ==
  /\ pc \in {"entry", "testInputType", "loop", "line", "lineEnd", "eight", "four",
             "two", "one", "done", "failed", "wild"}
  /\ kernel \in Kernels /\ typ \in BOOLEAN /\ passed \in Passed
  /\ n \in Lens /\ addr \in Addrs
  /\ rdx \in 0 .. n /\ rbx \in 0 .. 15 /\ stack \in {SavedArgs} \cup 0 .. n
  /\ dst \in [0 .. Padded(n) - 1 -> Nat \cup {Unset}]
  /\ touched \in Nat
  /\ calls \in Seq({"start", "stop", "wild"})

(***************************************************************************)
(* On the success exit every element of the result was computed from the   *)
(* element of the input in the same place, whichever mix of single         *)
(* registers, cache lines and tail parts the length and the alignment led  *)
(* to.  The AVX version is excepted: see AvxResultRight.                   *)
(***************************************************************************)
ResultRight ==
  pc = "done" /\ kernel # "avx" => \A k \in 0 .. n - 1 : dst[k] = k

(***************************************************************************)
(* The same for the AVX version: "Copy result to output" of the cache-line *)
(* loop (kdbavxor.s).                                                      *)
(***************************************************************************)
AvxResultRight ==
  pc = "done" /\ kernel = "avx" => \A k \in 0 .. n - 1 : dst[k] = k

(***************************************************************************)
(* Every version, the AVX one included, computes each element exactly      *)
(* once.                                                                   *)
(***************************************************************************)
EachElementOnce ==
  pc = "done" => {dst[k] : k \in 0 .. n - 1} = 0 .. n - 1

(***************************************************************************)
(* Nothing is stored behind the last element, and nothing is read outside  *)
(* the 16-byte blocks of the input, although the tail is read as a whole.  *)
(***************************************************************************)
StaysInside ==
  /\ \A k \in DOMAIN dst : k >= n => dst[k] = Unset
  /\ touched <= Padded(n)

(***************************************************************************)
(* The aligned moves are aligned, those of the input and those of the      *)
(* result: single registers at 16 bytes, YMM registers at 32; and a line   *)
(* of the input is a cache line.                                           *)
(***************************************************************************)
MovesAligned ==
  /\ pc = "loop" /\ Remaining > 0 => \A a \in {addr[1], addr[2]} : (a + 16 + rdx) % 16 = 0
  /\ pc = "line" => AtLine /\ (addr[2] + 16 + rdx) % 32 = 0

(***************************************************************************)
(* No access of a kernel is to another object or faults: both of the above *)
(* (kdbavxor.s, kdbsseor.s).                                               *)
(***************************************************************************)
AccessesValid == StaysInside /\ MovesAligned

\* Elements before the first cache line of the input.
Lead == (64 - ((addr[1] + 16) % 64)) % 64

(***************************************************************************)
(* The callbacks are called at most once each, start first, never through  *)
(* the stack block once the tail has overwritten it; and stop is called    *)
(* exactly for inputs that hold a whole cache line.  For shorter inputs    *)
(* the versions of 2012.12.02 leave the counters running.                  *)
(***************************************************************************)
CallbackProtocol ==
  /\ calls \in {<<>>, <<"start">>, <<"start", "stop">>}
  /\ pc = "done" /\ kernel # "dso" => (calls = <<"start", "stop">> <=> n >= Lead + 64)

=============================================================================
