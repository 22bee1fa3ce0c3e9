# A verification of system-v-asm-64

The repository collects x86 assembly programs and the C, q, Java and awk code
around them. Its largest part measures code with the processor's performance
counters: a Linux kernel driver that executes scripts of MSR commands, test
programs that use it, a kdb+ library built on it, and the bitwise-or kernels
that library was written to measure. The rest are programs and routines that
share no state with each other.

The TLA+ modules here are written from the source. TLC checks them on small
instances; TLAPS proves theorems about most of them for every value of their
constants. `PROJECT.json` says which definition models which lines.

## 1. The system

### The measuring system

| Part | State | Operations | Used by |
|---|---|---|---|
| driver `msrmod.drv`, with `csrmod.drv` | loaded or not, the device, bit 0x100 of each CPU's CR4; no state per file | insmod, rmmod, open, close, `ioctl` with a vector of commands NOP, READ, WRITE, STOP, RDTSC | test programs, libpmc |
| a CPU's MSRs | control registers, event selects, counters, time stamp | written and read by the driver; they count while enabled | all clients on that CPU |
| test programs `msrmod.test.0` to `.6` | vectors in their own memory, the descriptor, sums | open, reset, start, stop, accumulate, average, baseline, print | a user |
| `libpmc` (blog.2012.12.02), `pmc.q`, `baseline_asm.s` | three vectors, a dlopen handle, a block, the mean baseline, result rows | `runtest`, `run_test`, `start_counters`, `stop_counters` | q; a test library calls back |
| the first `libpmc` (msrmod.kdb.1) with its bridge | static pointers into the frame of the call, a block, a handle and two objects per test, an error text for q | `runtest`, `execute_baseline`, `run_test`; the bridge loads the kernel anew for each test | q |
| the libraries, bridges and kernels of the three blog entries | as libpmc; a loaded kernel that calls back | `runtest`, `execute_test`, the kernel with its two callbacks | q |
| bitwise-or kernels (five versions) | the result object, the position, a stack block that first holds callback addresses and then the tail | one call, with callbacks around the first and behind the last cache line | libpmc, q |
| register-saving macros, `execute_baseline` | a frame below the stack pointer, a loop counter | save, call, restore | the kernels, libpmc |

A client builds a vector once and passes it to `ioctl` again and again; the
driver interprets it in the caller's memory, one command per iteration,
without a lock, with preemption enabled, on whatever CPU the caller happens to
run on. The hard behaviours follow from that: clients interleave between two
commands; a client may be moved between two commands or two calls while the
counters stay where they were programmed; the module may be removed while
others use it; a script may be aborted half way. In the library there are a
callback protocol with code loaded at run time, seven ways to return early,
each after another acquisition, and a baseline subtracted from every reading.

### Programs and routines of their own

| Part | What it keeps | What is hard |
|---|---|---|
| `hash.01` | arrays of keys, values and chains | chains over several puts; each of five mallocs may fail; `rehash` is empty |
| `getdents.32` | a buffer of records, a cursor | the walk stops on equality only; no result is checked |
| `envvars.32/.64` | a pointer into the initial stack, a counter | `loop` with a count of zero |
| `cpuid` (six programs) | the registers' fields, a buffer | arguments in reverse on the stack; products in halves; a buffer reused |
| `elf64/libself.c` | variables that `fscanf` fills | they are not reset; EOF passes for success |
| `asmcrypt` | five vectors, a frame on the stack | signed bytes, the last block |
| `avx/avxmul.1`, `ssematrix` | registers of four or sixteen values | shuffles, a counter used before and after its increment |
| `bin/hdpp.awk` | the current section, an open tag | two places that look up the section, one of them late |
| `idioms` | two registers | two's complement, what `atoi` leaves in the upper half |
| `asm2java.32/.64` | a frame with what the request needs | threads; lookups that fail |
| `elf64/relocs.2` (six libraries) | slots of the offset table | lazy binding of a slot that is overwritten |
| `blog.2013.01.11/kdb_ipc.s` | a dictionary on the stack, a cursor | cursor and shift register in step; a `ret` in the middle |
| `kvparser` | a pointer, a remaining length | whole chunks are read |
| `blog.2017.08.27/pcap.q` | positions found by a scan | the scan steps over the end; captures cut short |

### What makes each part correct

* Driver: a vector stays the script its owner built; the interpreter stays
  inside it; it runs only while loaded; the answer depends on the script alone;
  time stamps of one script are in order; without a module RDPMC is disabled.
* Test programs: while nobody moves them, what is printed is what the counters
  saw between start and stop; the counters are halted in the end, but where the
  program was moved away while it measured.
* libpmc: each result is the count of that very test less the mean of the
  baseline; counters are read and zeroed only while halted; when nobody
  measures nothing counts; nothing is held after a return without error.
* The first libpmc: a static pointer that is used leads into the running call;
  what is lost is what failed calls leave behind; a row is that of its test.
* A library and its kernel together: a row counts all the elements, or exactly
  those known to be missed.
* Kernels: each element is computed once and stored in its place, no access is
  outside the objects or unaligned, callbacks come in order and at most once.
* Macros: what the code around a call needs survives callbacks and signals.
* Hash table: it is a dictionary as long as it has room, chains hold exactly
  their entries, entry numbers stay valid, and `ht_init` is all or nothing.
* The others: the output is what the input asks for, or the places where it
  is not are exactly known; what is called returns.

## 2. Modules

| Module | Models | State and actions |
|---|---|---|
| `MsrDriver` | `msrdrv.c`, `csrmod.c`, MSRs and scheduler | `mem[p][b]` is a client's vector, `given` what it wrote there; one action per iteration and operation of the loop; `Build`, `IoctlEnter`, `Migrate`, `InsertModule`, `RemoveModule`, `Tick` |
| `MsrTests` | the six test programs | instance of `MsrDriver` with one client, which the scheduler moves (`Move`; `moved` and `deserted` record from where); `pc` over open, reset, start, work, stop, average, close; differences in unsigned words (`Minus`) |
| `LibPmc` | `libpmc.c`, `pmc.q`, `baseline_asm.s` | instance of `MsrDriver` with the three vectors; an action per step and per early return of `runtest` and `run_test`; `window` and `base` record what really happened |
| `CounterSession` | what libpmc promises for one counter | a stopwatch, set back and read only while it stands still |
| `KdbPmc` | `msrmod.kdb.1`: `libpmc.c`, `kdbbridge.c`, `baseline_asm.s`, `pmc.q` | an action per step and early return; `frames`, `heap` and `ptr` are the memory behind its pointers, `vec` which fields of the commands are written |
| `MeasuredKernel` | the libraries of the three blog entries with the test libraries and kernels they measure | instance of `BitwiseOr`, whose callbacks are ioctls here; `msr` counts elements |
| `BitwiseOr` | the kernels | `dst[k]` is the index of the element that was computed there; an action per block of the source |
| `HashTable` | `hashtable.c` | an action per call, per step along a chain and per malloc that fails; the mapping to `Dictionary` |
| `Dictionary` | what the table promises | a map, and the answer to the last operation |
| `Idioms` | abs, min, bounds | registers as numbers modulo their width |
| `Getdents`, `EnvVars`, `CpuPrograms`, `SelfMaps`, `Rot13`, `Matrix`, `HexDump` | one program or family each | `pc` over the labels of the source, registers by their names |
| `Programs` | all stand-alone programs | extends `Idioms`, instantiates the seven others; `program` is the one that runs |
| `SaveRegs`, `Jni`, `Relocs`, `KdbIpc`, `KvParser`, `Pcap` | one routine each, with signals, threads, binding, memory behind the text | as above |
| `Routines` | all routines called from other languages | extends `KdbPmc`, instantiates `MeasuredKernel` and the six others |
| `MsrDriverProofs`, `MsrTestsProofs`, `LibPmcProofs`, `LibPmcIsolatedProofs`, `RoutinesProofs`, `BitwiseOrProofs`, `HashTableProofs`, `ProgramsProofs` | theorems | section 5 |
| `MC...` | instances for TLC | inputs, symmetry, refinement mappings |

`Programs` and `Routines` compose by choice, not by interleaving: the programs
never meet. (The driver's clients do: `LibPmc` and `MsrTests` contain the driver,
and `MeasuredKernel` contains the kernel.) The variables of those that do not run are "absent", and each
property speaks of the one that runs. What an instance assumes of its constants
is a definition of its module (`RotAssumption` and so on) and the composing
module assumes all of them.

Where a definition has a neighbour marked `Mutant`, that is the same definition
with a plausible mistake. Each property is violated when such a mutant takes
the definition's place, each part of a composed one too.

Data are abstracted to what the properties tell apart. An element of a vector
is its index, a mapping or an object a model value, an event a number to
select, a signal what it may destroy. Formatting is left out; where a property
is about what is printed, a line is a record of what it shows.

## 3. The runs

| Run | Bounds | What it shows |
|---|---|---|
| `driver_safety` | two clients, two CPUs, vectors of three or four commands with the limit at four, one tick, both modules | all five driver properties under every interleaving and migration. A vector without STOP is as long as the limit, one with an unknown operation is aborted in the middle. The interpreter's steps depend on one command at a time, so longer vectors add repetition only |
| `driver_cr4` | one client, two CPUs | violated, see 6.1 |
| `msr_tests` | two CPUs with one programmable and one fixed counter, moves between them at any step and any number of them, up to six events, or two once the program has been moved (`Bounded`), loops of two rounds, words of seven bits | the programs print what the counters saw (`PrintsItsCounts`: a single measurement, and rounds less the baseline as unsigned numbers, so that a round that costs less than the baseline shows as a huge one); the averages of test.3 and test.4 are those of the first round; when a program is done the counters are halted of every CPU but those it was moved away from while it measured (`HaltedAtExit`). Two rounds are enough to tell a sum from a single reading and a stale descriptor from a good one. What is printed by a program that was moved is claimed nowhere, so that few events do there: moves and failures matter |
| `libpmc_results` | one client, two programmable counters and one fixed, no or two tests, four events | every result lies between the events seen inside the test and those seen around it, less the mean baseline; each counter implements `CounterSession` |
| `libpmc_two_clients` | two clients on a CPU each, one test, three shapes of test library | scripts interleaved command by command leave results their own, and nothing counts once both are back (`Isolated`) |
| `libpmc_calls` | one client on two CPUs that may be moved at any step, two calls with no or two tests, three shapes of library, every error | a test that does not stop records a stale reading and never a running counter; no return leaks unless a call failed; every call returns or dies of its division by zero |
| `libpmc_migrate` | as above, one call | violated, see 6.2 |
| `bitwise_or` | four kernels, 85 lengths around one, two and three cache lines, each place in a cache line | complete results in place, accesses valid, callbacks in order. The control flow depends on the length and the address modulo 64 and on whether one or more lines are left |
| `bitwise_or_avx` | the AVX kernel | violated, see 6.3 |
| `hash_table` | one and two buckets and a size that is refused, four keys of which some collide, two values | every sequence of puts, gets and reads up to the overflow: the chains, the dictionary, stable entries, all or nothing |
| `programs` | directories of up to four records that fill, exceed or leave the buffer; up to three arguments and variables; every flag and failure for cpuid; one to three mappings; texts of 1 to 39 bytes; matrices with a single one and those of the source; sections in every position of a line; all five-bit ints | seven properties, one per family, and that whatever starts ends where it should |
| `routines` | four call sites and two signals; two threads, objects and requests; six libraries at two addresses; messages up to 18 bytes with registers of four; texts of up to three chunks; three packets cut off at each byte, hellos with extensions, none, or bytes behind them; two calls of the first library with up to two tests, four and three counters and vectors of two lengths, every error; one or two tests of each blog entry, vectors of two and three cache lines that begin at each 16-byte place of one | ten properties: one per family, three for the first library and one for libraries with their kernels. The vector of 1000000 bytes is reduced to 128 and 192: what a row counts depends on its place in a cache line and on whether there is more than one line |

Bounds that exist for TLC only are constants: `MaxTsc` and `MaxTscMoved` (events), `MaxCalls`,
`MaxSignals`, `MaxRequests`, `MaxRecords`, `MaxBeyond` and the like. The widths
of counters, registers and vectors are constants as well and small in the runs.
`driver_safety`, `libpmc_two_clients` and `msr_tests` use symmetry of
clients or CPUs, and check no liveness.

Deadlock is not checked: programs end, and a client that has made its calls
does nothing more.

### Fairness

`libpmc_calls` assumes that each client's own steps, in the library and in the
driver on its behalf, keep being taken: the scheduler of a general-purpose
kernel gives that to every runnable process, and nothing in the code waits for
another client. Neither the passing of events nor migration is fair; the result
does not need them. `Programs` and `Routines` assume that the processor goes on
executing what runs. Signals and requests are bounded, so fairness of the whole
next-state relation does not force any of them on the program. That includes
`runtest` of the older libraries in `Routines`: one client, whose next step is
always its own.

## 4. Some results worth knowing

* `MsrTests`: no test program pins itself to a CPU. Moved between start and stop
  it halts and reads the new CPU's counters, and the old one's go on counting.
  `HaltedAtExit` says which, and what is said of numbers is said of programs
  that were not moved.
* `LibPmc`: where the library's test does not call `stop_counters`, the row
  recorded is that of the test before, and the first one is the negated
  baseline.
* `KdbPmc`: where the bridge cannot load the kernel, the row is that of the test
  before, or the negated baseline, and the table is returned as if nothing had
  happened: nobody looks at what `krr` left. A call that cannot open the device
  loses its block, a missing symbol loses a handle, and nothing else is lost.
* `MeasuredKernel`: the "line" kernel counts whole cache lines only, "avx" and
  "sse" also the elements in front of the first one. A row therefore depends on
  where kdb+ happened to put the vector, by up to a cache line.
* The kernels of 2012.12.02 call `stop_counters` only behind the loop over
  cache lines: for shorter inputs the counters run on until the caller resets
  them (`CallbackProtocol` says exactly when).
* `SaveRegs`: the macros store 160 bytes below the stack pointer before they
  move it, beyond the red zone of 128. A signal handler in between can destroy
  only r12 to r15, and none of the others.
* `Relocs`: the exchange of slots by the @pltoff library holds for good, under
  lazy binding as well; `sayHello` is never bound again.
* `Rot13`: the last block of `asmcrypt.s` overwrites the saved rbp for some
  lengths and never more.
* `SelfMaps`: the last mapping is printed and dumped twice, and the loop ends.
* `HexDump`: from the tenth byte of a line on, the colour lags one byte behind.
* `Getdents`: an error of open or getdents makes the program print for ever;
  `EnvVars`: an empty argv takes it through the stack to its end.
* `Pcap`: a scan over extensions that steps over the end of the message never
  ends, as everything behind it reads as zero. A comment in the source knows.

## 5. Proofs

Each theorem holds for every value of the constants that satisfies the named
assumptions of its module.

**MsrDriver**: any number of clients and CPUs, any set of vectors.
`Inv` is TypeOK, Pinned (a client in a call has the device open, and an open
device keeps the module loaded), ScriptsReusable and StaysInVector. TypeOK by
itself is not inductive: without StaysInVector a command outside the vector
could be looked at, and without ScriptsReusable a vector could lose its STOP.
From `Inv` follow `DriverTypeOK`, `DriverScriptsReusable`,
`DriverStaysLoaded`, `DriverStaysInVector`; `DriverAnswers` is an action
property from `Inv` and the fact that the first ending command of a vector and
of what its owner wrote are the same; `DriverTscOrdered` needs its own
strengthening, that every stamp taken so far is at most the present time.
Assumed: `CountAssumption`, `VectorAssumption` (each vector is a sequence of
commands that has an ending command within the limit or is longer than it).
The module also has what the clients of the driver need of its operators. The
prover does not know powers, so that their law is a premise (`PowerLaw`:
b^0 = 1, b^n is positive, b^(n+1) = b * b^n, for the bases 2 and 16 up to the
number of counters; the clients' `PowerAssumption`, which TLC evaluates). From
it, by least counterexample instead of induction: powers add, 16^n - 1 is a
multiple of 15, and the values written to `PERF_GLOBAL_CTRL` and
`FIXED_CTR_CTRL` set the bits of the counters that were asked for and no
others. `OneCommand` says what one iteration of the driver's loop does to a
script whose commands only write, read and stop.

**LibPmc**: any number of clients, CPUs, counters and tests, any arguments,
with migration. `IInv` is the driver's `Inv`, Types, and for each client five
things that belong to its place in `runtest`: Scripts (what it has recorded in
its three vectors), Calling (which of them a running `ioctl` interprets),
Holding (what is open and allocated), Looping and Recording (what `pmc_read`
still shows from before). The driver's part comes from `MsrDriverProofs`,
instantiated: each step of the library is a step of the driver (`DriverKeeps`),
except for the one that records all vectors at once (`PrepareKeeps`), and its
vectors are as the driver assumes them (`ResetShape`, `ReadShape`, `CfgShape`).
That a client's part is moved by nobody else (`OthersKept`) makes the rest a
proof about one client. Recording needs Calling: that nothing writes into
`pmc_read` between the reading of one test and the recording of the next is so
because only the reset and the enabling script run there. From `IInv`:
`LibPmcNothingHeld` and `LibPmcStale`. Without migration, `QInv` adds that
clients are on CPUs of their own, that a silent client's CPU is off, and how far
a running reset has come (Zeroed); from it `LibPmcQuiet`, which is what
`libpmc_migrate` (6.2) shows to fail when clients are moved.

`RInv` is `QInv` and, for each client, Measured, five things about numbers: Control
(while it is Counting the registers hold what `pmc_cfg` writes, while it is
Still the global one is zero, and in between as many are written as the driver
has come to), Bounds (a selected counter shows a number between the events of
`inner` and of `outer`, any other zero), Shown (what `pmc_read` has copied so far
is what the counters show), Mean (`fixed` lies between the two means of the
baseline) and Bracketed (the rows). Counting and Still are about the driver's index
as well as the library's place: the last command of `pmc_cfg` starts, the first of
`pmc_read` halts. From it `LibPmcBracketed` and, with `LibPmcQuiet`, `LibPmcIsolated`.
`SInv` adds Stopped, that a processor counts only while its client is Counting,
which is so if the test library calls both callbacks; then each step of the
library, of the driver and of time is a step of `CounterSession` or a stutter, for
each counter of each client: `LibPmcImplementsSessions`, and `LibPmcIsAStopwatch`
with the abstract specification itself.
Assumed: `LibAssumption`, `DriverAssumption`, `FitAssumption` (the longest script
is within the driver's limit, as 9 and 32 are) and `PowerAssumption` (above).
Premises of the theorems about numbers: `~ Migrates` (6.2 is what happens
otherwise) and `MaxTsc < CounterSize`: no counter, of 40 or 48 bits, wraps while
it is watched; nothing in the code handles one that does. Those about sessions need
`TestShape \subseteq {"both"}` too: a library that forgets stop_counters gets an
old reading recorded, which `LibPmcStale` describes.

**MsrTests**: any number of CPUs, counters and rounds, any of the programs, with
moves by the scheduler at any step for `MsrTestsHalted`; the two theorems about numbers
are about programs that have not been moved. The
scripts of six programs are handled by shape, not one by one: they are put together
of pieces of which only length and commands matter, and what the proofs use is
that a script that starts writes the registers that enable after it has halted and
zeroed (StartShape), that one that stops halts before it reads and reads before
it zeroes (StopShape), and what a reset does. Three invariants:
`IInv` is the driver's `Inv`, TypeOK, Control (which script a call interprets at
each place, and who still has the descriptor) and Closing (wherever no round is
open the counters of every CPU are halted, but of those deserted, and the stamps of
the two scripts are in order); from it `MsrTestsHalted`. A move while a round is open
takes the CPU with the running counters out of what Closing speaks of, one at any other
place leaves a halted CPU behind (`MoveClosing`). Control is needed because test.3 and test.4 lose
their descriptor: it separates calls that reach the driver from calls that fail.
`IInv2` adds Counting, for the rounds whose calls reach the driver on the CPU where
the program began: what is
written, counted, read and zeroed so far, by the driver's index; Unopened (without
a driver the vectors are as they were built, and show zeros) and Recorded; from
it `MsrTestsPrint`. `IInv3` adds LaterRounds: after the first round of test.3 and
test.4 no counter runs and no vector is written any more, except by test.4's
second call, which reads what it read before, and the sums are as many times the
first reading as rounds have passed; from it `MsrTestsAverage`, for any number of
rounds, where TLC has two.
Assumed: `TestAssumption`, `DriverAssumption`, `FitAssumption` (2(P+F)+5 commands are
within the limit), `PowerAssumption`; premise of the last two: `MaxTsc < CounterSize`.

**Routines**: one routine runs, so that `RoutinesInv` says of each what holds if
it is the one, and a step of one leaves the others' variables alone.
* The first library (`KdbPmc`): any number of counters, tests, commands and
  calls. `IInv` is TypeOK, Memory (one frame exists and the static pointers lead
  into it), Held, Clock (what the counter shows in the baseline: a multiple of the
  cost of a measurement), Rows and Errors. `KdbPmcIoctls` follows from Memory,
  `KdbPmcLoses` from Memory and Held, `KdbPmcRows` from Clock, Rows and Errors; also
  `KdbPmcTypeOK`.
* Macros (`CallbacksSurvived`): any number of signals at any places, any number
  of rounds of the baseline, any red zone of 128 bytes or more. `RegsInv` follows
  each register from where it is stored to where it is loaded again
  (ValuesKept); that excepts those stored beyond the red zone, once a handler
  has run at a bad time. CallsCounted ties the calls made to the counter.
* JNI (`NativeGreets`): any number of threads, objects and requests. `JniInv`
  is about each thread by itself, since what a thread keeps is in its own frame.
* Key parser (`KeyFound`): texts of any length, vectors of any size, anything
  behind the text. `KvInv` is that no separator lies before the pointer nor,
  behind the comparison, before what it has found there, and that a chunk is
  read only while the pointer is within the text.
* Relocations (`RelocationsRight`): any load addresses and number of calls.
  `RelInv` has SlotsLead (each slot leads to its own function, bound or by way of
  its entry of the procedure table, only that of `sayHello` perhaps to
  `sayGoodbye`), Progress (what has been printed at each place) and Prepared
  (what an indirect jump finds in its register).
* Compressor (`CompressorCorrect`): every message, every even number of bytes of
  a register, every range of bytes. `IpcInv` has Cursors, Registers (xmm14 and xmm15
  hold the bytes at and behind the cursor's block, and xmm0 their indices,
  shifted by as many bytes as the cursor has moved), Block (how much of the message
  is copied at each label) and Entries (each entry of the dictionary is the last
  position before the cursor that has its index). DictIsLastPosition is not
  inductive by itself: what is entered is the low byte of xmm0, and Registers is what
  makes that the index of the position at the cursor (`LowestIndex`).
* Packet and extension readers (`PacketsCut`, with the key parser): captures of any
  number and sizes of packets, cut off at any byte, hellos with any extensions and
  anything behind them. `CapInv` has Scan (each value the scan has found before its
  last is a start, or the end of the capture; the last one is, too, until the scan
  has stepped over the end, and then no later packet starts within the file), Split
  (the values kept and the rows made) and Found (the values of the walk are
  starts of extensions as far as there are any). Which of its last two values the scan
  has to give up depends on where the file is cut: that a start past the
  end is given up and one that is the end is given up, too, is `WholePackets`.
* Libraries of the blog with their kernels (`KernelsMeasured`): vectors of every
  length and alignment that hold a cache line, any cost of a command, any number of
  tests and calls, every error return. `BlogInv` has BlogHeld, BlogCounters (the baseline
  shows as many times the cost of a measurement as rounds have passed), BlogRows, and,
  while a kernel runs, KernelInv: the invariant of `BitwiseOrProofs`, instantiated, and
  what the counters show before, between and behind its callbacks. Its `CallbackPlaces`
  says at which element each callback comes, and `LinesDone` that behind the last
  line all whole lines have been processed; `LinesBetween` puts the two together.
  A kernel that stops no counter would leave BlogCounters false: `LinesAssumption` (a
  vector has at least two lines of room, as one of 1000000 elements does) is needed
  for it.

Assumed: `KdbPmcAssumption` and `RoutinesAssumption`. Of the latter the proofs use
that the red zone has at least 16 words, that a chunk and a register are not
empty, that a register's size is even, and that the bytes are an interval from 0
on which contains with two numbers their exclusive or; further `PcapAssumption`,
`LinesAssumption` and the assumptions of **BitwiseOr**.

**BitwiseOr**: any set of lengths and addresses. `IInv` is TypeOK, Cursor
(where in the vector each label can be, and how it is aligned), StaysInside,
Progress (what has been stored up to the cursor) and Protocol (which callbacks
have been called at each label). From it `BitwiseOrRight`, `BitwiseOrAccesses`
(with `BitwiseOrInside` and `BitwiseOrAligned`) and `BitwiseOrProtocol`.
`BitwiseOrOnce` needs a strengthening of its own, Permuted: what is stored up to
the cursor are the elements up to the cursor, in whatever order the AVX kernel
puts them.
Assumed: `AddrsAssumption` (objects of kdb+ are 16-byte aligned, and two of the
same size are alike modulo 32; without the second half the aligned stores of
the result would fault). `ByteTest` shows that the four instructions used for a
byte compute whether it has a bit of the mask.

**HashTable**: any keys, hash function and sizes. `IInv` is TypeOK, Fresh (a
table just made is empty), AllOrNothing, Stored, ChainsExact, LookupSound (what
the walk along a chain has ruled out so far) and OverflowSound. Stating a chain
by its youngest entry and each entry's next older one avoids recursion, and is
what makes `HashTableChains` provable. Also `HashTableTypeOK`,
`HashTableAllOrNothing`, `HashTableEntriesStable`, `HashTableOverflow`, and
`HashTableIsDictionary`: the table, seen as the map of its entries, implements
`Dictionary`; a put is complete when its entry is linked, the steps along the
chain are stutters, and LookupSound makes the answer of a walk the map's.
Assumed: `HashAssumption`, `PowerAssumption`, `ValAssumption`.

**Programs**: one program runs, so that `ProgramsInv` says of each what holds if
it is the one. Runs of any length are handled by the element that is next: what
has been printed is a prefix of what is to be printed, and `Longer` says that
appending the next element of a sequence gives the next prefix.
* Lists (`ListsWalked`): directories of any number and sizes of records and any
  buffer that holds the largest, any number of arguments and variables, maps
  files of any length. `DentsInv` separates what the kernel may have answered:
  nothing yet (Unread), an error (Refused), nothing at all (Nothing), records
  (Stored). In the last case the walk stands at the start of some record, and as the
  starts rise (`SumRises`), it meets the end of what is held exactly there. That
  the walk never lands inside a record is why the loop may test for equality.
  `EnvInv` has CountsDown: with arguments, rcx counts those that are left; with an empty
  argv it counts down from 2^64, and the walk meets a word that is no string before
  rcx comes back to zero (Killed). `MapsInv` says what is stale at each place: the
  range is always the one last read, and past the last line it is that
  line's once more, with an empty path.
* Processor (`RegistersShown`): any family, ratio up to 255 and level. `CpuInv` has
  a part per program: for `msrtest.c` that what is about to be printed is the
  register that has just been read, for `msr.s` that of the product the lower half is left.
* Rotation (`RotationWritten`): any bytes, lengths and distances below 26. `RotInv`
  says that the frame holds the rotated bytes below the offset and nothing above.
  `LaneRotates` is the pure part: the two passes, with a comparison of signed
  bytes and the mask for an odd constant, are the rotation of the alphabet.
  `Blocks` bounds the last block by the room of the frame.
* Matrices (`ProductsRight`): any size from two, any numbers. `AvxInv` has the sums
  over the columns met so far, which grow by a product per round (`DotGrows`). The SSE
  programs are computed through their shuffles (`Shuffles`, `PairProduct`).
* Colours (`BytesColoured`): any layout and line. `HexInv` says which section the
  script takes the next byte to be in: from the tenth on, that of the byte before.
* Idioms (`IdiomsCorrect`): any width of int and any register at least twice as
  wide. The absolute value and the minimum are exact for operands that reach them as
  numbers of the whole register: all with an atoi that extends the sign, those from 0
  on with one that clears the upper half. The bounds are exact with either. `IdiomsInv` is TypeOK, OnTheWay (what atoi has left where) and the results.

The prover has no induction over data, but a set of naturals has a least element
(`Least`, from the library's theorem on well-founded relations): that running sums exist (`SumExists`,
`SumToExists`) and what they are is proved by looking at the least length for which they would not.
Assumed: `IdiomsAssumption` and `ProgramsAssumption`.

Only model-checked:

* liveness (`RuntestReturns`, `Terminates`, `Returns`), as the prover has no ENABLED.

Every safety property that a passing run checks is the subject of a theorem.

TLC has checked the inductive invariants of `LibPmc` and `MsrTests` on the
instances of section 3 before they were proved.

## 6. Where code and text disagree

1. `driver_cr4` (`msrdrv.c:140`, "Disable RDPMC"): `msrdrv_exit` clears the bit
   on the CPU that executes rmmod, `msrdrv_init` had set it on the one that
   executed insmod.
2. `libpmc_migrate` (`libpmc.c:280`, "disable and zero the PMC MSRs"): the final
   reset goes to the CPU where the caller is then; nothing pins it, so that
   counters of another CPU may be left running.
3. `bitwise_or_avx` (`kdbavxor.s:159`, "Copy result to output"): the halves of
   each 32-byte register of the cache-line loop are stored in the wrong order.
   Every element is computed once (`EachElementOnce`), though not in place.

Seen while modelling, kept out of the runs, and part of the models as they are:

* `ldlib.q:17` binds the kernel of four arguments as a function of two; a call
  from q goes through whatever the register for the third holds.
* `msrmod.test.4/msrtest.s:123` passes a counter's value as the descriptor from
  the second round on; `AveragesAreTheFirstRound` is the consequence.
* `leaf0ah.s:88`: the last two flags stand under each other's names.
* `msr.s:88` drops the high half of the product from a ratio of 43 on, and
  prints the bytes of the path as the register when open or pread fails.
* `kdb_ipc.s`: the final `ret` pops a dictionary entry, and the count of
  remaining bytes is overwritten before its use; the routine is unfinished.
* `minasm.s:5` says that min works for unsigned integers only; with an `atoi` that
  extends the sign it is right for all signed ints.
* `absasm.s` and `minasm.s` use all 64 bits of what `atoi` leaves in rax. The
  calling convention says nothing of the upper half of an int: with an `atoi` that
  clears it, abs leaves a negative number as it is and min takes the other one.
* `msrmod.test.6/msrtest.c:186` subtracts unsigned numbers: a round that costs less
  than the mean baseline is printed as a number near 2^64.
* The test programs do not pin themselves, as libpmc does not (2 above).
* `@pltoff/libreloc.s:13` loads rbx, which belongs to the caller, and does not
  restore it.

## 7. Not modelled, and why

* `blum`, `fsub`: floating-point and single-instruction exercises without
  control flow; TLA+ integers do not have their values.
* `test_init`, `wingas`, `relocs`, `pcmpestri.s`, `palignr.s`: straight-line
  code without state.
* `bin` except `hdpp.awk`, the shell scripts: pipelines of other tools.
* Compiler output, headers, tables and pictures.
* `testcode.c` and `baseline.c` of msrmod.kdb.1, which nothing links; those of
  the blog entries are in `MeasuredKernel`.
* Two of the older libraries at once: they differ from `LibPmc` in memory and in
  what they measure, not in how they use the driver, so `LibPmc` has the
  interleaving and `KdbPmc` and `MeasuredKernel` take an `ioctl` as one step.
* The JVM, kdb+, the kernel's own code, the dynamic linker and `atoi` are
  external: modelled by what the code relies on.
* Unsynchronised time stamps: one `tsc` stands for the counters of all CPUs, as
  invariant, synchronised ones behave. `TscOrdered` is about the order in which one
  call takes its stamps, wherever it is moved, and not about CPUs that disagree.
* Two clients of libpmc on one CPU: they share its counters, and nothing in the
  code keeps them apart. The theorems about numbers are for clients on CPUs of
  their own.
* In modelled parts: sizes of strings (`libname`, `binPath`), values of packet
  fields, bytes of a mapping, the size of the block `kdb_ipc.s` allocates.

## 8. Plan

The order was: driver; what runs on it (test programs, libpmc); the kernels
libpmc measures, with the macros; the hash table; then the programs and
routines of their own and their composition. Then the earlier libraries, their
bridges and their composition with the kernels; `LibPmc` on top of the driver's
theorems; the refinement of `Dictionary`; the AVX kernel's permutation. Done so
far is all of that.
With the theorems of section 5, libpmc and the test programs are verified from the
driver's single commands up to the numbers they give back, and so are the
routines that other languages call, and all stand-alone programs.

Next:

1. The two theorems about sessions for libraries that forget a callback, with a
   session that may be read while it runs.
2. Ranking functions for the loops behind `RuntestReturns`, `Terminates` and
   `Returns`: that every step decreases a natural number is an action property
   and needs no ENABLED, so it can be proved where termination itself cannot.
3. `fsub`, if its status flags turn out to be worth a model.
