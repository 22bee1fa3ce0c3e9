------------------------------- MODULE Programs -------------------------------
(***************************************************************************)
(* The stand-alone programs of the repository, composed: each is started   *)
(* by a user on its own, runs alone and shares nothing with the others.    *)
(* The module says of each what it promises to the one who runs it. That   *)
(* of idioms/ is extended, the other modules are instances.                *)
(***************************************************************************)
EXTENDS Idioms

\* The constants of the programs, as their modules explain them.
CONSTANTS
  Capacity, RecLen, MaxRecords, MaxArgs, MaxEnv, AuxWords, Width,
  Ratios, Levels, Families, ExtFamilies, Mappings, MaxLines, Texts, Rots,
  N, Squares, Entries, Layouts, LineOffs, MaxBytes

VARIABLE program    \* the one that runs: the variables of the others are Absent

Absent == "absent"

\* getdents.32
VARIABLES dents_pc, dents_dir, dents_argc, dents_name, dents_fd,
  dents_buffer, dents_base, dents_end, dents_ecx, dents_out
Dents == INSTANCE Getdents WITH pc <- dents_pc, dir <- dents_dir,
  argc <- dents_argc, name <- dents_name, fd <- dents_fd,
  buffer <- dents_buffer, base <- dents_base, end <- dents_end,
  ecx <- dents_ecx, out <- dents_out
dents_vars == <<dents_pc, dents_dir, dents_argc, dents_name, dents_fd,
  dents_buffer, dents_base, dents_end, dents_ecx, dents_out>>
NoDents == dents_pc = Absent /\ dents_dir = Absent /\ dents_argc = Absent /\
  dents_name = Absent /\ dents_fd = Absent /\ dents_buffer = Absent /\
  dents_base = Absent /\ dents_end = Absent /\ dents_ecx = Absent /\
  dents_out = Absent

\* envvars.64 and envvars.32
VARIABLES env_bits, env_pc, env_argc, env_envc, env_rcx, env_ptr, env_out,
  env_fault
Env == INSTANCE EnvVars WITH bits <- env_bits, pc <- env_pc,
  argc <- env_argc, envc <- env_envc, rcx <- env_rcx, ptr <- env_ptr,
  out <- env_out, fault <- env_fault
env_vars == <<env_bits, env_pc, env_argc, env_envc, env_rcx, env_ptr,
  env_out, env_fault>>
NoEnv == env_bits = Absent /\ env_pc = Absent /\ env_argc = Absent /\
  env_envc = Absent /\ env_rcx = Absent /\ env_ptr = Absent /\
  env_out = Absent /\ env_fault = Absent

\* cpuid
VARIABLES cpuid_prog, cpuid_pc, cpuid_input, cpuid_stack, cpuid_fd,
  cpuid_buf, cpuid_out
Cpuid == INSTANCE CpuPrograms WITH prog <- cpuid_prog, pc <- cpuid_pc,
  input <- cpuid_input, stack <- cpuid_stack, fd <- cpuid_fd,
  buf <- cpuid_buf, out <- cpuid_out
cpuid_vars == <<cpuid_prog, cpuid_pc, cpuid_input, cpuid_stack, cpuid_fd,
  cpuid_buf, cpuid_out>>
NoCpuid == cpuid_prog = Absent /\ cpuid_pc = Absent /\
  cpuid_input = Absent /\ cpuid_stack = Absent /\ cpuid_fd = Absent /\
  cpuid_buf = Absent /\ cpuid_out = Absent

\* elf64/selftest.c and libself.c
VARIABLES maps_pc, maps_maps, maps_pos, maps_range, maps_binPath, maps_res,
  maps_printed, maps_dumped
Maps == INSTANCE SelfMaps WITH pc <- maps_pc, maps <- maps_maps,
  pos <- maps_pos, range <- maps_range, binPath <- maps_binPath,
  res <- maps_res, printed <- maps_printed, dumped <- maps_dumped
maps_vars == <<maps_pc, maps_maps, maps_pos, maps_range, maps_binPath,
  maps_res, maps_printed, maps_dumped>>
NoMaps == maps_pc = Absent /\ maps_maps = Absent /\ maps_pos = Absent /\
  maps_range = Absent /\ maps_binPath = Absent /\ maps_res = Absent /\
  maps_printed = Absent /\ maps_dumped = Absent

\* asmcrypt
VARIABLES rot_pc, rot_text, rot_rot, rot_rbx, rot_vec, rot_rax, rot_rdx,
  rot_stack, rot_out
Rot == INSTANCE Rot13 WITH pc <- rot_pc, text <- rot_text, rot <- rot_rot,
  rbx <- rot_rbx, vec <- rot_vec, rax <- rot_rax, rdx <- rot_rdx,
  stack <- rot_stack, out <- rot_out
rot_vars == <<rot_pc, rot_text, rot_rot, rot_rbx, rot_vec, rot_rax, rot_rdx,
  rot_stack, rot_out>>
NoRot == rot_pc = Absent /\ rot_text = Absent /\ rot_rot = Absent /\
  rot_rbx = Absent /\ rot_vec = Absent /\ rot_rax = Absent /\
  rot_rdx = Absent /\ rot_stack = Absent /\ rot_out = Absent

\* avx/avxmul.1 and ssematrix
VARIABLES mat_pc, mat_prog, mat_a, mat_b, mat_rax, mat_rcx, mat_acc,
  mat_xmm8, mat_result
Mat == INSTANCE Matrix WITH pc <- mat_pc, prog <- mat_prog, a <- mat_a,
  b <- mat_b, rax <- mat_rax, rcx <- mat_rcx, acc <- mat_acc,
  xmm8 <- mat_xmm8, result <- mat_result
mat_vars == <<mat_pc, mat_prog, mat_a, mat_b, mat_rax, mat_rcx, mat_acc,
  mat_xmm8, mat_result>>
NoMat == mat_pc = Absent /\ mat_prog = Absent /\ mat_a = Absent /\
  mat_b = Absent /\ mat_rax = Absent /\ mat_rcx = Absent /\
  mat_acc = Absent /\ mat_xmm8 = Absent /\ mat_result = Absent

\* bin/hdpp.awk
VARIABLES hex_pc, hex_layout, hex_lineoff, hex_bytelen, hex_i, hex_s_sec,
  hex_open, hex_classes
Hex == INSTANCE HexDump WITH pc <- hex_pc, layout <- hex_layout,
  lineoff <- hex_lineoff, bytelen <- hex_bytelen, i <- hex_i,
  s_sec <- hex_s_sec, open <- hex_open, classes <- hex_classes
hex_vars == <<hex_pc, hex_layout, hex_lineoff, hex_bytelen, hex_i, hex_s_sec,
  hex_open, hex_classes>>
NoHex == hex_pc = Absent /\ hex_layout = Absent /\ hex_lineoff = Absent /\
  hex_bytelen = Absent /\ hex_i = Absent /\ hex_s_sec = Absent /\
  hex_open = Absent /\ hex_classes = Absent

NoIdioms == pc = Absent /\ prog = Absent /\ x = Absent /\ y = Absent /\
  rax = Absent /\ r12 = Absent /\ ext = Absent /\ result = Absent

-----------------------------------------------------------------------------
ASSUME ProgramsAssumption ==
  /\ Dents!GetdentsAssumption /\ Env!EnvAssumption /\ Cpuid!CpuAssumption
  /\ Maps!MapsAssumption /\ Rot!RotAssumption /\ Mat!MatrixAssumption
  /\ Hex!DumpAssumption

ProgramNames == {"getdents", "envvars", "cpuid", "libself", "asmcrypt",
  "matrix", "hdpp", "idioms"}

Start ==
  /\ program \in ProgramNames
  /\ IF program = "getdents" THEN Dents!Init ELSE NoDents
  /\ IF program = "envvars" THEN Env!Init ELSE NoEnv
  /\ IF program = "cpuid" THEN Cpuid!Init ELSE NoCpuid
  /\ IF program = "libself" THEN Maps!Init ELSE NoMaps
  /\ IF program = "asmcrypt" THEN Rot!Init ELSE NoRot
  /\ IF program = "matrix" THEN Mat!Init ELSE NoMat
  /\ IF program = "hdpp" THEN Hex!Init ELSE NoHex
  /\ IF program = "idioms" THEN Init ELSE NoIdioms

\* A step of the one that runs.
Step ==
  /\ UNCHANGED program
  /\ \/ program = "getdents" /\ Dents!Next
        /\ UNCHANGED <<env_vars, cpuid_vars, maps_vars, rot_vars, mat_vars,
           hex_vars, vars>>
     \/ program = "envvars" /\ Env!Next
        /\ UNCHANGED <<dents_vars, cpuid_vars, maps_vars, rot_vars, mat_vars,
           hex_vars, vars>>
     \/ program = "cpuid" /\ Cpuid!Next
        /\ UNCHANGED <<dents_vars, env_vars, maps_vars, rot_vars, mat_vars,
           hex_vars, vars>>
     \/ program = "libself" /\ Maps!Next
        /\ UNCHANGED <<dents_vars, env_vars, cpuid_vars, rot_vars, mat_vars,
           hex_vars, vars>>
     \/ program = "asmcrypt" /\ Rot!Next
        /\ UNCHANGED <<dents_vars, env_vars, cpuid_vars, maps_vars, mat_vars,
           hex_vars, vars>>
     \/ program = "matrix" /\ Mat!Next
        /\ UNCHANGED <<dents_vars, env_vars, cpuid_vars, maps_vars, rot_vars,
           hex_vars, vars>>
     \/ program = "hdpp" /\ Hex!Next
        /\ UNCHANGED <<dents_vars, env_vars, cpuid_vars, maps_vars, rot_vars,
           mat_vars, vars>>
     \/ program = "idioms" /\ Next
        /\ UNCHANGED <<dents_vars, env_vars, cpuid_vars, maps_vars, rot_vars,
           mat_vars, hex_vars>>

allVars == <<program, dents_vars, env_vars, cpuid_vars, maps_vars, rot_vars,
  mat_vars, hex_vars, vars>>

\* The processor keeps executing the one that runs.
Behaviour == Start /\ [][Step]_allVars /\ WF_allVars(Step)

-----------------------------------------------------------------------------
(***************************************************************************)
(* Each of the three programs that walk a list of the kernel's comes to    *)
(* every entry once and in order, and to nothing else. dents.s prints a    *)
(* line per record, and the whole directory exactly if it fits into the    *)
(* buffer; after an error, which it does not look for, it never ends.      *)
(* envvars.s and vars.s have printed argv and envp; with an empty argv,    *)
(* which execve allows, they never exit. printSelfMaps prints and dumps    *)
(* each mapping, the last one twice, as EOF passes for success, and none   *)
(* with the path of another.                                               *)
(***************************************************************************)
WalksWholeList ==
  /\ program = "getdents" =>
       Dents!TypeOK /\ Dents!LinesAreRecords /\ Dents!CompleteIfFits /\ Dents!ErrorNeverExits
  /\ program = "envvars" => Env!TypeOK /\ Env!PrintsAll /\ Env!EmptyArgvNeverExits
  /\ program = "libself" => Maps!TypeOK /\ Maps!PrintsOwnPath /\ Maps!DumpsAll

(***************************************************************************)
(* The programs of cpuid/ show what the registers hold. leaf0ah.s shows    *)
(* each event by the name of its bit, but for the last two, which are      *)
(* swapped; msrtest.c prints no register after a read that failed, with    *)
(* the value of the one before; msr.s puts the product of ratio and clock  *)
(* together from its halves, up to a ratio of 42.                          *)
(***************************************************************************)
ShowsTheRegisters ==
  program = "cpuid" =>
    /\ Cpuid!TypeOK
    /\ Cpuid!RegisterLinesShowTheirEvent
    /\ Cpuid!LinesAreFresh
    /\ Cpuid!SpeedIsRatioTo42

(***************************************************************************)
(* asmcrypt.s writes the text with each letter rotated in its own case and *)
(* everything else as it was, whichever sign the sum has as a byte; and    *)
(* its last block, which spills over its frame, never spills further than  *)
(* over the saved rbp.                                                     *)
(***************************************************************************)
WritesRotation ==
  program = "asmcrypt" => Rot!TypeOK /\ Rot!WritesRotation /\ Rot!SpillsOnlySavedRbp

(***************************************************************************)
(* At every round of avxmul.s its registers hold the products of the rows  *)
(* with the columns met so far, and all three matrix programs end with the *)
(* products and sums that their comments give.                             *)
(***************************************************************************)
MatrixProducts ==
  program = "matrix" => Mat!TypeOK /\ Mat!PartialProducts /\ Mat!AsTheCommentSays

(***************************************************************************)
(* hdpp.awk closes every tspan it opens, wherever a section or the line    *)
(* ends, and prints a byte in the class of its section, or, from the tenth *)
(* byte of a line on, in that of the byte before.                          *)
(***************************************************************************)
ColoursBytes ==
  program = "hdpp" => Hex!TypeOK /\ Hex!TspansBalanced /\ Hex!ColourIsSectionOrLags

(***************************************************************************)
(* Each of the eight comes to its end: dents.s once the kernel has stored  *)
(* its records and reported no error, the others always. For envvars.s     *)
(* with an empty argv and for a failed open or read of the programs of     *)
(* cpuid/ and of libself.c that is the fault or the error exit.            *)
(***************************************************************************)
Terminates ==
  /\ program = "getdents" => Dents!Exits
  /\ program = "envvars" => Env!Ends
  /\ program = "cpuid" => Cpuid!Ends
  /\ program = "libself" => Maps!Ends
  /\ program = "asmcrypt" => Rot!Exits
  /\ program = "matrix" => Mat!Ends
  /\ program = "hdpp" => Hex!Ends
  /\ program = "idioms" => Prints
=============================================================================
