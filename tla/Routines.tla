------------------------------- MODULE Routines -------------------------------
(***************************************************************************)
(* The routines that are called by code of other languages or call it: by  *)
(* C and kdb+ (the register-saving macros, the compressor), by Java, by a  *)
(* program across a shared library, by q. Each runs on its own; what       *)
(* surrounds it (signals, threads, the dynamic linker, memory) is part of  *)
(* its module. That of msrmod.kdb.1 is extended, the other modules are     *)
(* instances.                                                              *)
(***************************************************************************)
EXTENDS KdbPmc

\* The constants of the routines, as their modules explain them.
CONSTANTS
  RedZone, Sites, Times, MaxSignals, Threads, Objects, MaxRequests,
  Bases, MaxCalls, XmmBytes, Byte, Header, MaxSym, Repeats,
  Chunk, Lengths, Behind, Captures, Hellos, Garbage, MaxBeyond,
  Versions, Kernels, Lens, Addrs, Passed, Unset

VARIABLE program    \* the one that runs: the variables of the others are Absent

Absent == "absent"

\* savereg.macro.s and execute_baseline
VARIABLES regs_pc, regs_site, regs_times, regs_k, regs_reserved, regs_regs,
  regs_mem, regs_left, regs_calls, regs_signals, regs_exposed
Regs == INSTANCE SaveRegs WITH pc <- regs_pc, site <- regs_site,
  times <- regs_times, k <- regs_k, reserved <- regs_reserved,
  regs <- regs_regs, mem <- regs_mem, left <- regs_left, calls <- regs_calls,
  signals <- regs_signals, exposed <- regs_exposed
regs_vars == <<regs_pc, regs_site, regs_times, regs_k, regs_reserved,
  regs_regs, regs_mem, regs_left, regs_calls, regs_signals, regs_exposed>>
NoRegs == regs_pc = Absent /\ regs_site = Absent /\ regs_times = Absent /\
  regs_k = Absent /\ regs_reserved = Absent /\ regs_regs = Absent /\
  regs_mem = Absent /\ regs_left = Absent /\ regs_calls = Absent /\
  regs_signals = Absent /\ regs_exposed = Absent

\* asm2java.64 and asm2java.32
VARIABLES jni_pc, jni_rdi, jni_rsi, jni_rax, jni_frame, jni_object,
  jni_pending, jni_requests, jni_calls, jni_greeted, jni_crashed
Native == INSTANCE Jni WITH pc <- jni_pc, rdi <- jni_rdi, rsi <- jni_rsi,
  rax <- jni_rax, frame <- jni_frame, object <- jni_object,
  pending <- jni_pending, requests <- jni_requests, calls <- jni_calls,
  greeted <- jni_greeted, crashed <- jni_crashed
jni_vars == <<jni_pc, jni_rdi, jni_rsi, jni_rax, jni_frame, jni_object,
  jni_pending, jni_requests, jni_calls, jni_greeted, jni_crashed>>
NoNative == jni_pc = Absent /\ jni_rdi = Absent /\ jni_rsi = Absent /\
  jni_rax = Absent /\ jni_frame = Absent /\ jni_object = Absent /\
  jni_pending = Absent /\ jni_requests = Absent /\ jni_calls = Absent /\
  jni_greeted = Absent /\ jni_crashed = Absent

\* elf64/relocs.2
VARIABLES rel_variant, rel_base, rel_pc, rel_todo, rel_slots, rel_rax,
  rel_rdi, rel_rbx, rel_printed, rel_calls
Reloc == INSTANCE Relocs WITH variant <- rel_variant, base <- rel_base,
  pc <- rel_pc, todo <- rel_todo, slots <- rel_slots, rax <- rel_rax,
  rdi <- rel_rdi, rbx <- rel_rbx, printed <- rel_printed, calls <- rel_calls
rel_vars == <<rel_variant, rel_base, rel_pc, rel_todo, rel_slots, rel_rax,
  rel_rdi, rel_rbx, rel_printed, rel_calls>>
NoReloc == rel_variant = Absent /\ rel_base = Absent /\ rel_pc = Absent /\
  rel_todo = Absent /\ rel_slots = Absent /\ rel_rax = Absent /\
  rel_rdi = Absent /\ rel_rbx = Absent /\ rel_printed = Absent /\
  rel_calls = Absent

\* blog.2013.01.11/kdb_ipc.s
VARIABLES ipc_pc, ipc_symbol, ipc_count, ipc_aligned, ipc_src, ipc_len,
  ipc_dict, ipc_dst, ipc_r14, ipc_r12, ipc_r8, ipc_rdx, ipc_rcx, ipc_xmm0,
  ipc_xmm14, ipc_xmm15, ipc_popped
Ipc == INSTANCE KdbIpc WITH pc <- ipc_pc, symbol <- ipc_symbol,
  count <- ipc_count, aligned <- ipc_aligned, src <- ipc_src, len <- ipc_len,
  dict <- ipc_dict, dst <- ipc_dst, r14 <- ipc_r14, r12 <- ipc_r12,
  r8 <- ipc_r8, rdx <- ipc_rdx, rcx <- ipc_rcx,
  xmm0 <- ipc_xmm0, xmm14 <- ipc_xmm14, xmm15 <- ipc_xmm15,
  popped <- ipc_popped
ipc_vars == <<ipc_pc, ipc_symbol, ipc_count, ipc_aligned, ipc_src, ipc_len,
  ipc_dict, ipc_dst, ipc_r14, ipc_r12, ipc_r8, ipc_rdx, ipc_rcx,
  ipc_xmm0, ipc_xmm14, ipc_xmm15, ipc_popped>>
NoIpc == ipc_pc = Absent /\ ipc_symbol = Absent /\ ipc_count = Absent /\
  ipc_aligned = Absent /\ ipc_src = Absent /\ ipc_len = Absent /\
  ipc_dict = Absent /\ ipc_dst = Absent /\ ipc_r14 = Absent /\
  ipc_r12 = Absent /\ ipc_r8 = Absent /\ ipc_rdx = Absent /\
  ipc_rcx = Absent /\ ipc_xmm0 = Absent /\ ipc_xmm14 = Absent /\
  ipc_xmm15 = Absent /\ ipc_popped = Absent

\* kvparser
VARIABLES kv_pc, kv_length, kv_seps, kv_rdi, kv_r8d, kv_esi, kv_ecx, kv_eax
Kv == INSTANCE KvParser WITH pc <- kv_pc, length <- kv_length,
  seps <- kv_seps, rdi <- kv_rdi, r8d <- kv_r8d, esi <- kv_esi,
  ecx <- kv_ecx, eax <- kv_eax
kv_vars == <<kv_pc, kv_length, kv_seps, kv_rdi, kv_r8d, kv_esi, kv_ecx,
  kv_eax>>
NoKv == kv_pc = Absent /\ kv_length = Absent /\ kv_seps = Absent /\
  kv_rdi = Absent /\ kv_r8d = Absent /\ kv_esi = Absent /\ kv_ecx = Absent /\
  kv_eax = Absent

\* blog.2017.08.27/pcap.q
VARIABLES cap_pc, cap_capture, cap_count, cap_hello, cap_y, cap_idx, cap_rows
Cap == INSTANCE Pcap WITH pc <- cap_pc, capture <- cap_capture,
  count <- cap_count, hello <- cap_hello, y <- cap_y, idx <- cap_idx,
  rows <- cap_rows
cap_vars == <<cap_pc, cap_capture, cap_count, cap_hello, cap_y, cap_idx,
  cap_rows>>
NoCap == cap_pc = Absent /\ cap_capture = Absent /\ cap_count = Absent /\
  cap_hello = Absent /\ cap_y = Absent /\ cap_idx = Absent /\
  cap_rows = Absent

\* blog.2012.11.15, blog.2012.11.20 and blog.2012.12.02
VARIABLES blog_at, blog_version, blog_count, blog_i, blog_fd, blog_msr,
  blog_fixed, blog_rows, blog_handles, blog_blocks, blog_answer, blog_runs,
  blog_log, blog_missed, blog_pc, blog_kernel, blog_typ, blog_passed, blog_n,
  blog_addr, blog_rdx, blog_rbx, blog_stack, blog_dst, blog_touched,
  blog_calls
Blog == INSTANCE MeasuredKernel WITH at <- blog_at, version <- blog_version,
  count <- blog_count, i <- blog_i, fd <- blog_fd, msr <- blog_msr,
  fixed <- blog_fixed, rows <- blog_rows, handles <- blog_handles,
  blocks <- blog_blocks, answer <- blog_answer, runs <- blog_runs,
  log <- blog_log, missed <- blog_missed, pc <- blog_pc,
  kernel <- blog_kernel, typ <- blog_typ, passed <- blog_passed, n <- blog_n,
  addr <- blog_addr, rdx <- blog_rdx, rbx <- blog_rbx, stack <- blog_stack,
  dst <- blog_dst, touched <- blog_touched, calls <- blog_calls
blog_vars == <<blog_at, blog_version, blog_count, blog_i, blog_fd, blog_msr,
  blog_fixed, blog_rows, blog_handles, blog_blocks, blog_answer, blog_runs,
  blog_log, blog_missed, blog_pc, blog_kernel, blog_typ, blog_passed, blog_n,
  blog_addr, blog_rdx, blog_rbx, blog_stack, blog_dst, blog_touched,
  blog_calls>>
NoBlog == blog_at = Absent /\ blog_version = Absent /\ blog_count = Absent /\
  blog_i = Absent /\ blog_fd = Absent /\ blog_msr = Absent /\
  blog_fixed = Absent /\ blog_rows = Absent /\ blog_handles = Absent /\
  blog_blocks = Absent /\ blog_answer = Absent /\ blog_runs = Absent /\
  blog_log = Absent /\ blog_missed = Absent /\ blog_pc = Absent /\
  blog_kernel = Absent /\ blog_typ = Absent /\ blog_passed = Absent /\
  blog_n = Absent /\ blog_addr = Absent /\ blog_rdx = Absent /\
  blog_rbx = Absent /\ blog_stack = Absent /\ blog_dst = Absent /\
  blog_touched = Absent /\ blog_calls = Absent

\* RowsOfTheirTests looks at the rows whoever runs: there are none.
NoKdb == pc = Absent /\ count = Absent /\ len = Absent /\ i = Absent /\
  fd = Absent /\ frames = Absent /\ heap = Absent /\ ptr = Absent /\
  vec = Absent /\ counter = Absent /\ on = Absent /\ reading = Absent /\
  fixed = Absent /\ rows = <<>> /\ handles = Absent /\ objects = Absent /\
  pending = Absent /\ answer = Absent /\ runs = Absent /\ log = Absent /\
  failed = Absent

-----------------------------------------------------------------------------
ASSUME RoutinesAssumption ==
  /\ Regs!SaveAssumption /\ Native!JniAssumption /\ Reloc!RelocsAssumption
  /\ Ipc!IpcAssumption /\ Kv!KvAssumption /\ Cap!PcapAssumption
  /\ Blog!MeasureAssumption /\ Blog!LinesAssumption
  /\ Blog!K!KernelAssumption /\ Blog!K!LensAssumption /\ Blog!K!UnsetAssumption
  /\ Blog!K!AddrsAssumption

RoutineNames == {"savereg", "jni", "relocs", "kdb_ipc", "kvparser", "pcap",
  "kdb.1", "blog"}

Start ==
  /\ program \in RoutineNames
  /\ IF program = "savereg" THEN Regs!Init ELSE NoRegs
  /\ IF program = "jni" THEN Native!Init ELSE NoNative
  /\ IF program = "relocs" THEN Reloc!Init ELSE NoReloc
  /\ IF program = "kdb_ipc" THEN Ipc!Init ELSE NoIpc
  /\ IF program = "kvparser" THEN Kv!Init ELSE NoKv
  /\ IF program = "pcap" THEN Cap!Init ELSE NoCap
  /\ IF program = "kdb.1" THEN Init ELSE NoKdb
  /\ IF program = "blog" THEN Blog!Init ELSE NoBlog

\* A step of the one that runs.
Step ==
  /\ UNCHANGED program
  /\ \/ program = "savereg" /\ Regs!Next
        /\ UNCHANGED <<jni_vars, rel_vars, ipc_vars, kv_vars, cap_vars, vars,
           blog_vars>>
     \/ program = "jni" /\ Native!Next
        /\ UNCHANGED <<regs_vars, rel_vars, ipc_vars, kv_vars, cap_vars,
           vars, blog_vars>>
     \/ program = "relocs" /\ Reloc!Next
        /\ UNCHANGED <<regs_vars, jni_vars, ipc_vars, kv_vars, cap_vars,
           vars, blog_vars>>
     \/ program = "kdb_ipc" /\ Ipc!Next
        /\ UNCHANGED <<regs_vars, jni_vars, rel_vars, kv_vars, cap_vars,
           vars, blog_vars>>
     \/ program = "kvparser" /\ Kv!Next
        /\ UNCHANGED <<regs_vars, jni_vars, rel_vars, ipc_vars, cap_vars,
           vars, blog_vars>>
     \/ program = "pcap" /\ Cap!Next
        /\ UNCHANGED <<regs_vars, jni_vars, rel_vars, ipc_vars, kv_vars,
           vars, blog_vars>>
     \/ program = "kdb.1" /\ Next
        /\ UNCHANGED <<regs_vars, jni_vars, rel_vars, ipc_vars, kv_vars,
           cap_vars, blog_vars>>
     \/ program = "blog" /\ Blog!Next
        /\ UNCHANGED <<regs_vars, jni_vars, rel_vars, ipc_vars, kv_vars,
           cap_vars, vars>>

allVars == <<program, regs_vars, jni_vars, rel_vars, ipc_vars, kv_vars,
  cap_vars, vars, blog_vars>>

\* The processor keeps executing the one that runs.
Behaviour == Start /\ [][Step]_allVars /\ WF_allVars(Step)

-----------------------------------------------------------------------------
(***************************************************************************)
(* Whatever callbacks do to the registers and the stack, the code around a *)
(* call of the register-saving macros finds everything it needs, if no     *)
(* signal handler ran while the stack pointer was above the stores; if one *)
(* did, only the four registers stored beyond the red zone can be lost.    *)
(* execute_baseline calls both callbacks in turn, as often as it is told   *)
(* to, although all its state is in registers they may overwrite.          *)
(***************************************************************************)
SurvivesCallbacks ==
  program = "savereg" =>
    Regs!TypeOK /\ Regs!LiveSurvives /\ Regs!OnlyFarLost /\ Regs!BaselineExact

(***************************************************************************)
(* However threads interleave, every call of a native method into Java is  *)
(* on the object and with the JNIEnv of its own request, and a request has *)
(* greeted its object once, or an exception is pending: none fails in      *)
(* silence.                                                                *)
(***************************************************************************)
GreetsOnceOrThrows ==
  program = "jni" => Native!TypeOK /\ Native!OwnCalls /\ Native!GreetsOrThrows

(***************************************************************************)
(* someRelocations prints what its source says, at every load address,     *)
(* with symbols bound early or late, at the first call as at the next. The *)
(* @pltoff library redirects the slot of sayHello and no other, and once   *)
(* overwritten that slot is never bound again, not by lazy binding either. *)
(***************************************************************************)
RelocationsHold ==
  /\ [](program = "relocs" =>
         Reloc!TypeOK /\ Reloc!PrintsExpected /\ Reloc!OnlyHelloRedirected)
  /\ [][program = "relocs" => Reloc!KeepsRedirection]_allVars

(***************************************************************************)
(* The dictionary of compress holds for each hash the last position that   *)
(* has it, what is stored in the block is a copy of the message's first    *)
(* bytes, and the match found is as long as bytes agree and the message    *)
(* goes on. compress returns to its caller only if it did not begin to     *)
(* compress; else its ret takes a dictionary entry for the address.        *)
(***************************************************************************)
CompressorRight ==
  /\ [](program = "kdb_ipc" => /\ Ipc!TypeOK
                                /\ Ipc!DictIsLastPosition
                                /\ Ipc!DstIsCopy
                                /\ Ipc!ReturnsUnlessCompressing)
  /\ Ipc!MatchIsLongest

(***************************************************************************)
(* findKeyLen answers with the position of the first separator, or -1 if   *)
(* there is none, whatever is behind the text, of which it reads only      *)
(* chunks that hold a byte of it, or the first.                            *)
(***************************************************************************)
FindsKeyLength ==
  program = "kvparser" =>
    Kv!TypeOK /\ Kv!FirstSeparator /\ Kv!ReadsOnlyTouchingChunks

(***************************************************************************)
(* The two that look for the places to cut at find them. For findKeyLen    *)
(* see above.  readcap splits a capture at the starts of exactly the       *)
(* packets that are complete, wherever it is cut off, and each row holds   *)
(* the data of its own packet; only the last one of a capture cut short    *)
(* holds more. The extensions of a TLS hello are cut at their own starts,  *)
(* whatever comes behind them.                                             *)
(***************************************************************************)
SplitsItsInput ==
  /\ FindsKeyLength
  /\ program = "pcap" =>
       /\ Cap!TypeOK
       /\ Cap!CutsAtWholePackets
       /\ Cap!RowsHoldTheirData
       /\ Cap!ExtensionsFirst

(***************************************************************************)
(* With the kernels of the blog entries, a row is what lies between the    *)
(* callbacks of its own test: the cache lines of the vector, and for the   *)
(* later kernels what comes before them; and in q nothing counts and       *)
(* nothing is held but what failed calls have left.                        *)
(***************************************************************************)
MeasuresItsTests ==
  program = "blog" => Blog!TypeOK /\ Blog!CountsTheLines /\ Blog!QuietInQ

(***************************************************************************)
(* compress comes to a ret, findKeyLen returns, a capture is read to its   *)
(* end, and so is a hello that ends with its extensions.  A scan over      *)
(* extensions that stepped over the end of the message never ends: behind  *)
(* it everything reads as zero.  Every runtest comes back to q or dies of  *)
(* its division by zero.                                                   *)
(***************************************************************************)
Returns ==
  /\ program = "kdb_ipc" => Ipc!Ends
  /\ program = "kvparser" => Kv!Returns
  /\ program = "pcap" /\ Cap!Walkable ~> cap_pc \in {"done", "signalled"}
  /\ program = "pcap" => Cap!OverTheEndNeverEnds
  /\ program = "kdb.1" => RuntestReturns
  /\ program = "blog" => Blog!RuntestReturns
=============================================================================
