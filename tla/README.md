# TLA+ verification of riscvemu

riscvemu runs a statically linked RISC-V 64 program on x86-64 Linux.  Cold code
is interpreted, hot code is translated to C, compiled by a clang child process
and run as machine code.  This directory holds TLA+ modules that model the
emulator, TLC configurations that check them on small instances, and proofs
that TLAPS checks for every value of the constants.  Paths of the form
`src/src/cache.c` are those of PROJECT.json; `cache.c` is short for it.

## 1. The system

| Part | State | Operations | Modules |
|---|---|---|---|
| code cache, `cache.c` | hash table of 65536 slots `{pc, hot, offset}`, append-only code buffer of 64 MB | `cache_lookup`, `cache_hot`, `cache_add` | Cache, CodeMap, CacheProofs |
| block builder, `codegen.c:1074`, `stack.c`, `set.c` | worklist, visited set, register tracer, text: all static | `machine_genblock`, the `func_*` and the tracer | Genblock, Tracer, Insns, GenblockProofs |
| JIT compilation, `compile.c` | two pipes, file descriptor 1, static `elfbuf` | `machine_compile` | Compile, CompileProofs |
| dispatcher, `machine.c:8`, `riscvemu.c` | `state_t`, the code pointer | `machine_step`, the loop of `main` | Machine, Isa, MachineProofs |
| interpreter loop, `interpret.c:819` | `state_t` | `exec_block_interp` | Machine, Isa, MachineProofs |
| self-modifying code, `machine.c`, `codegen.c:919` | guest memory, compiled blocks | stores, `fence.i` | SelfMod, GeneratedProofs |
| integer instructions, `interpret.c`, `codegen.c`, `interpret_utils.h` | registers, memory | one function per instruction, in each engine | Alu, Alias, GeneratedProofs |
| floating point and CSRs, the same files | FP registers | one function per instruction, in each engine | Fpu |
| decoder, `decode.c` | the caller's `insn_t` | `insn_decode`; dispatch through two tables | Decode (16-bit words), Decode32, DecodeProofs |
| guest memory, `mmu.c`, `machine.c:104`, `syscall.c:160` | `mmu_t`, the host's mappings | `mmu_load_elf`, `mmu_alloc`, `machine_setup`, `sys_brk` | Mmu, MmuProofs |
| system calls, `syscall.c` | the descriptor table of the process, files, the end of memory | `do_syscall` and its handlers | Syscall, Posix, SyscallProofs; the pages of `brk` in Mmu |
| dynamic strings, `str.c` | two static buffers of generated source | `str_append`, `str_clear` | Str, GeneratedProofs |
| register dump, `state.c` | none | `state_print_regs` (never called) | not modelled |

How they interact.  `main` loads the program, sets up stack and arguments, and
calls `machine_step` until it returns `halt`; every return with `ecall` is
answered by `do_syscall`.  `machine_step` asks the cache for the current pc; on
a miss it heats the pc, and a hot one goes through `machine_genblock` and
`machine_compile`, which adds code to the cache.  Then it calls the code, or
`exec_block_interp`.  A block says why it returned in `exit_reason` and where to
go on in `reenter_pc`.  Everything runs in one thread; the only concurrency is
with clang, over two pipes.  The guest has no descriptor table of its own: it
uses the emulator's, in which every compilation takes four descriptors and turns
number 1 into a pipe for a while.

What is hard here is not parallelism but long sequences over shared state: a
hash table whose entries are used before they are complete, static state that
survives calls, a code pointer kept across block exits, guest registers that
live in two places, allocation books kept in two units, a child process that
must be fed and drained in the right order, and two engines that must mean the
same.  PROJECT.json lists these hazards at their lines with the properties that
would catch them going wrong.

## 2. Modules

Each module names the functions it translates.  Operators whose name ends in a
description (`cache_add_unchecked`, `start_stale_set`, ...) are deliberate
mutations used to make sure that a property can fail; no specification uses them.

**CodeMap** is what the dispatcher may rely on: one independent entry per pc
that warms up, gets code once, and from then on is returned by every lookup.

**Cache** is `cache.c` with the order of calls that `machine_step` and
`machine_compile` impose (`ctl`).  `table`, `offset` and `jitcode` are the fields
of `cache_t`; a byte of the buffer records which byte of which section of which
pc it is, so that overwritten or misplaced code is visible.  The probe loops are
the sets `Probe` (unbounded, of `cache_lookup`) and `BoundedProbe` (with the
assertion of the other two).  A failing assertion ends in status `abort`, the
endless probe of a full table in `spin`.  `Hotter` is the double evaluation of
`MIN(++hot, ...)`.

**Insns** classifies decoded instructions by what they do to control flow; the
other modules share it.

**Genblock** is `machine_genblock` with `stack.c` and `set.c`, one action per
part of the loop: `start` (the resets and the first push), `pop`, `emit` (label,
decode, the generator function), `fall` (the goto to the next address), `finish`,
and `again` for the next hot pc with the same static state.  Text is abstracted
to what clang will complain about: labels, gotos, and the locals it names.
**Tracer** has what each kind of `func_*` in `codegen.c` prints and what it tells the
tracer: the two are separate statements of the C code, with the integer and the
float registers traced by different calls, and they are separate here.  The locals of
the finished function are those that the prologue makes of the tracer.

**Isa** is a RISC-V hart, one instruction per step, with an environment that
answers ecalls.  **Machine** is the dispatcher, the interpreter's loop and the
execution of compiled blocks (locals `x`, a label, prologue and epilogue), over
the cache as CodeMap and blocks as the regions Genblock computes.  Arithmetic is
two representative functions of the operands, because values only matter here
through equality and as jump targets; Alu checks the real ones.  A lookup in a table
without a free slot never returns (`cache_lookup` goes to `spin`; CodeMap has no
slots, but the pcs that were warmed are those that have one), `machine_compile` may
wait for ever (`compile_waits`), and an assertion of the cache ends in `abort`.

**Compile** is `machine_compile`: the pipes hold blocks, clang is an external
process that reads its input to the end, then writes or fails.  `elfbuf` records
the compilation that each block comes from.  The linker part places sections and
computes displacements with the code's formulas.

**Mmu** is the loader, `mmu_alloc`, `machine_setup` and `brk` over a memory of
cells, indexed by host address as in the code.  A cell is a byte, or what holds
one pointer on the stack, so the stack's alignment of 16 bytes is two cells.  The
checks of the ELF header and a file that ends among its program headers end in
`fatal`, the latter with earlier segments mapped already; a segment with more pages of
file than of memory fails an assertion after the file was mapped, and a file with
nothing to load ends when the arguments are written (`setup_nowhere`).

**Alu** and **Fpu** execute one instruction in three ways: as `interpret.c` does,
as the C text of `codegen.c` does, and as the architecture defines it; Fpu extends
Alu and holds the specification of both.  The word is `W` bits and the half word
`H = W/2`, where the code has 64 and 32, and single and double precision are IEEE
formats of those sizes.  The host's floating-point arithmetic is external: exact
values rounded to nearest even; which NaN it produces is left open.  The architecture's
is the same exact values in the rounding mode of the instruction, in a register where
a single has ones above it and every NaN result is the canonical one, and CSRs that
keep what is written to them.  The undefined overflow in `mulh` is a choice between
the values a build can produce.

**Decode** is the decoder of compressed instructions, translated field by field,
with the encoding tables written as bit layouts.  **Decode32** adds the 32-bit
quadrant, over words that are records of their fields, and the two dispatch
tables, `funcs[]` of the interpreter and of the code generator, that the decoded
number indexes.  A decoding starts from a cleared `insn_t`, as in the interpreter,
or from one that a previous call left, as in the static one of the builder.

**Alias** is the order of a block's memory accesses.  `CType` is the C type through
which each load and store of `codegen.c` goes.  The code is compiled with `clang -O3`,
so accesses of different types through different registers may be exchanged;
characters alias with everything (`MayPass`, external).

**SelfMod** is the dispatcher for a guest that writes code.  A word of code is
abstracted to the number of times it was written, a compiled block to the words it
was made from; `late` and `fetched` are history.

**Posix** is a process with a descriptor table: `open` takes the lowest free
number, `close` of a standard stream is ignored, `brk` moves the end of memory or ends
the process, a compilation is invisible, or ends the process when descriptors run out.
**Syscall** is `do_syscall`, its two tables with their unsigned index arithmetic, the
handlers, which take the low half of a register where C has an `int` (`ToInt`),
`convert_flags`, and `machine_compile` reduced to its steps on the descriptor table; the refinement
mapping `GuestTable` hides what a compilation has opened and redirected.

**Str** is `str.c` and its use by `machine_genblock`: a pointer, a header with
length and capacity, and a block of cells that every `realloc` may move.  A static
string is used through its variable, or, between `call` and `return`, through the
parameter of the `func_*` or `tracer_append_*` it was handed to; the variable is out
of date until the caller assigns the result.

The theorems are in **CacheProofs**, **GenblockProofs**, **MachineProofs**,
**CompileProofs**, **MmuProofs**, **SyscallProofs**, **DecodeProofs** and, for Str,
Alias and SelfMod, **GeneratedProofs**.  **MC\*** are the instances for TLC.
MCGenerated explores Str, Alias and SelfMod, which share no state, one per behaviour.

## 3. What TLC checks

| Run | States | What it shows |
|---|---|---|
| `cache` | 215 k | entries stay findable (`EveryEntryIsFound`); a hit is the intact code of that pc (`HotEntryIsRunnable`); heat reaches the limit in time (`HotInTime`); the unbounded probe fails to end only in a full table; installed code never changes; Cache implements CodeMap |
| `genblock` | 234 k | unique labels, no dangling goto, the locals are exactly the registers the text names (`EveryRegisterIsLocal`), exactly the reachable region, the worklist is bounded by the branches of the region, and the translation ends |
| `machine` | 125 k | the function pointer called belongs to the pc and the interpreter is never at pc 0 (`CodeMatchesPc`); compiled code stays inside its block; the guest sees one hart (`ImplementsIsa`); guest instructions keep being executed, unless a lookup or a compilation never returns (`Progress`) |
| `compile` | 1 k | a whole object of this compilation is linked, standard output is the guest's again, constants are reached, and a compilation ends |
| `mmu` | 49 k | host end = guest end rounded up, exactly the allocated pages are mapped, the image is in memory, brk disturbs no cell that stays mapped, the command line is readable from `sp` |
| `insns` | 814 k | the interpreter follows the architecture (`FollowsIsa`, with its exceptions) and generated code agrees with it (`JitAgrees`), on integer, floating-point and CSR instructions |
| `decode` | 305 k | all 49152 compressed words, and all combinations of the selecting fields of 32-bit words, decode as the tables say whatever `insn_t` held before; both dispatch tables have every function in its place |
| `generated` | 1676 k | the source is collected without overrun, stale pointer or leftover (`TextIsIntact`); no order of accesses that clang may choose shows, unless the guest accesses the same bytes in two widths (`SameUnlessPunned`); an old instruction is executed only in a block compiled before the write (`FreshUnlessLate`) |
| `syscall` | 209 k | the guest keeps its standard streams (`StandardStreamsSurvive`, with its exception); with compilations between any two calls it sees an ordinary process (`ImplementsPosix`) |

Three more runs check what a document of the repository says of the program and
find it violated:

| Run | Statement | What happens |
|---|---|---|
| `machine_zero` | `doc/STAGE_II.md:165`: a pc of 0 is handled before `cache_lookup`'s assertion | a branch to 0 is looked up first (`machine.c:49`) and fails the assertion |
| `mmu_bss` | `doc/base.md:58`: the rest of the last page is set to 0 | it holds file contents |
| `insns_correct` | `README.md:5`: the interpreter is correct | an instruction differs from the architecture |

### Exceptions that the properties name

Passing properties say where the program leaves its specification; within what they
compare and the bounds of their run they also say that there is no other place:

- `FollowsIsa`: a word division by a register whose low half alone is 0 traps; `mulh`
  of a product that overflows to a low word of 0 may be one too small, when the
  compiler uses the freedom an overflow gives it, as clang -O3 does; every
  floating-point instruction rounds to nearest even whatever its mode is; results of
  arithmetic on singles leave the upper half of the register as it was, operands that
  are no boxed singles are read as if they were, and a NaN has the host's bits; fused
  operations round twice; `fmin` and `fmax` give a NaN that is second, and any zero
  for two zeros; conversions to integers out of range do not saturate (those to `u64`
  already beyond `i64`); CSRs forget what is written, counters read 0 and may be
  written.  What is compared is rd, memory and the CSR an instruction names: that
  arithmetic raises no exception flags is outside the property.
- `DecodesEveryWord`: `jalr` is recognised whatever its function field is.
- `HotInTime`: the macro `MIN` evaluates `++hot` twice, so a block is compiled after
  half the calls that `doc/STAGE_II.md:47` counts.
- `SameUnlessPunned`: memory that is accessed in two widths, neither of them a byte,
  through two registers may be read before it is written once the block is compiled.
  The generated C is then not equivalent to the guest's code, which `src/README.md:6,119`
  says it is; accesses of one width, integer or float, and of bytes are safe.
- `Progress`: a lookup in a full table spins, and `machine_compile` may wait for ever.
- `StandardStreamsSurvive`, and `Close` in Posix: `close` compares the whole register
  with 2 but closes its low half, so a register that holds 2^32 + 1 closes standard
  output.  A guest compiled for the ABI sign-extends its `int`s and never passes one.
- `FreshUnlessLate`: a compiled block outlives a write to its code and the `fence.i`
  after it.
- `CompilationEnds`: clang that fails, or an object larger than a pipe, blocks for ever.
- `ConstantsAreReached`: an object with two sections of constants is linked wrongly.
- `ImageIsLoaded` speaks of files that load: a segment without file contents on a page
  boundary fails an assertion, since `mmap` of 0 bytes does, and so does one with more
  pages of file than of memory.
- `ImplementsIsa` allows the emulator to stop: the builder decodes both sides of every
  branch, and bytes that are no instruction end it even if they are never executed.
- `ImplementsPosix`: a compilation that finds too few free descriptors ends the guest,
  as does a `brk` below the base or for more memory than the host has.

### Bounds, and why they are enough

- `cache`: four slots and five pcs, two pairs of which collide and one of
  which wraps around; two moves of a probe; a heat limit of 4; objects with and
  without `.rodata`, and a buffer of nine bytes that a few of them fill.  The
  probe limit, a full table and a full buffer all happen.
- `genblock`: all programs of four slots over nine instructions and five block
  ends, with both lengths, loops, diamonds, jumps into the middle of an instruction,
  to 0 and off the end; programs that begin with each kind of `func_*`, with and
  without register 0; three stack elements and four set slots are
  few enough to overflow, and any pc may be compiled after any other.
- `machine`: all programs of three slots over eleven instructions (writes to
  x0, `jalr` with rd = rs1, loops, traps, instructions left to the interpreter,
  jumps to 0 and off the end), compiled at heat 2, over a table of three slots, so
  that it fills up.
- `compile`: pipes of three blocks; sources and objects below, at and above that
  capacity; without constants, with one section of them and with two; two
  compilations, so that `elfbuf` holds an older object.
- `mmu`: pages of four cells; segments with unaligned ends, `.bss` on the last
  file page and beyond it, segments out of order and without file contents, with
  fewer bytes and with fewer pages of memory than of file, a first header that is not
  loaded (`PT_RISCV_ATTRIBUTES`), no segment and no header at all;
  files that are not supported and files that end too early; command lines of
  zero to three arguments, which leave the stack pointer aligned and not; brk to
  every address up to `Top` = 32.
- `insns`: `W = 8`; integers at and around the ends of all ranges; all singles of
  four bits, boxed and not; of doubles of eight bits zeros, subnormals, values at
  every kind of rounding edge, infinities, quiet and signalling NaNs of both signs; all
  five rounding modes wherever an instruction has one; destinations that held a boxed
  single and others; CSRs that hold something, that do not exist and that are counters.
- `decode`: every 16-bit word; of 32-bit words every value of the fields that
  select an instruction, and the ends of the ranges of the others (the theorems of
  DecodeProofs are about all of them).
- `generated`: pieces of one and two cells and a preallocation limit of 3, so that
  capacity is doubled, increased and met exactly, over two compilations; all blocks
  of three accesses of one, two and four bytes, integer and float, through registers
  that hold equal, overlapping and disjoint addresses; three addresses of code, so that blocks
  overlap, compiled at heat 2 and written twice each.
- `syscall`: seven descriptors, three of them the standard streams, so that a
  compilation meets none to four free ones; one file; every system call that is
  implemented, numbers at the ends of both tables, between and beyond them, and
  descriptors that are standard, open, closed and negative, and registers whose upper
  half is not their sign.  A moved break and the time in the buffer are followed only
  by calls of the same kind and by compilations (`AfterBrk`, `AfterTime`).  Once the
  guest has closed a standard stream through a wide register, it goes on with `open`
  and `close` only (`AfterAstray`), and no code gets hot any more (the guard of
  `make_pipe`, which binds the theorems, too): a compilation would take the place of
  the stream.
  Requests for `brk` lie below half of the address range, so that the signed increment
  of `syscall.c:164` does not wrap; in Mmu `Top` says the same.

`Stores`, `Top`, `MaxCompiles`, `Vals`, `Imms`, `Doubles`, `Singles`, `Fusible`,
`Ints`, `CsrNumbers`, `Words`, `Halves`, `Addrs`, `Blocks`, `MaxWrites`, `MaxLen`,
`MaxCalls` and `Requests` are bounds of the model, not of the code.
`CHECK_DEADLOCK FALSE` is used where the program really stops: an assertion, `fatal`, the end of the guest, or one instruction executed.

### Fairness

Genblock is sequential code that never waits, so its specification assumes weak
fairness of the steps of a call (not of `again`, which is the guest's choice).
Machine is one thread that keeps running: weak fairness of `Next`.  Where the thread
may wait for clang without end, or probe without end, the model has a step into a
state (`wait`, `spin`) that no step leaves, so that fairness does not make it return;
Compile says when the wait is endless and Cache when the probe is.  Compile assumes
weak fairness of each process, justified by the host's scheduler; `clang_fails` is not fair.  `CompilationEnds` names the two ways in
which the protocol waits for ever: clang failed, or its object exceeds the pipe.

## 4. What is proved

TLAPS checks the following for every value of the constants that satisfies the
modules' assumptions: every table, buffer, pipe and page size, every guest program,
ELF file, command line, object file and sequence of system calls.  Each theorem has
the form `Spec => []P`, `Spec => [][A]_vars` or, for the three refinements,
`Spec => Implements...`, shown step by step; the abstract specifications have no
fairness to implement.

**CacheProofs**: `CacheTypeCorrect`, `EntriesStayFindable`,
`LookupsRunTheRightCode`, `CodeIsAppendOnly`, `LookupReturns`, `HotOnTime` and
`CacheImplementsCodeMap`.  The inductive invariant is
`TypeOK /\ Layout /\ EveryEntryIsFound /\ HotEntryIsRunnable`.  `Layout` says that
nothing at or above `offset` is in use, and that every key is a dispatched pc; without
it a section could be appended over another.  Findability is preserved because slots
are only ever filled, at the place where a probe stops, so a chain can get no new end
before its old one.  Append-only code follows from `align_to` never rounding down.
`HotOnTime` needs `HeatInv`: the heat of a slot is a function of the number of calls
for its pc, and the pc being compiled is in the table and hot.  The refinement needs
both, and `MapIsRead`: what the mapping makes of a pc can be read off its one slot.

**GenblockProofs**: `TypesHold`, `NoDuplicateLabel`, `EveryGotoHasItsLabel`,
`RegistersAreLocals`, `TranslatesExactlyTheRegion` and `StackBound`.  The properties
speak of a finished function, so the invariant has to say what they are in the middle
of the loop.  `SetIsFindable`: an element of the set is where its own probe ends, so
`set_add` recognises it.  `Control`: the address being translated is new.
`NothingIsLost`: the entry and the target of every goto have a label, are on the
worklist or are being translated; when the worklist is empty this is
`NoDanglingGoto`.  `NothingIsExtra` says the opposite inclusion without recursion:
any set that holds the entry and is closed under the successors of what is labelled
holds everything the builder has collected.  With `GotosAreEmitted` the two give
equality with the reachable region.  `LocalsAreTraced` and `Depth` do the same for
the tracer and for the worklist; the former rests on `EveryFuncTraces`, a case
distinction over the functions of Tracer: each traces exactly what its text names, and
register 0, which is no local.

**MachineProofs**: `TypesHold`, `CalledCodeMatches`, `JitIsClosed` and
`EmulatorImplementsIsa`, from `TypeOK`, `Addresses` (pc and exit addresses are ones
the cache knows), `Installed` (the cache is asked about the current pc, and only
translatable pcs have code), `Running` (a running block's label is in its region and
its locals are those of its prologue) and `CodeMatchesPc`.  `LookupAnswers` says what a
lookup can do, spinning included.  The refinement shows that
each step is one instruction of the hart or invisible.  Its core is that the locals of
a block agree with the registers they stand for at every label, which is why the
mapping reads a register from the local while the block runs, and that the epilogue
stores exactly what the prologue loaded.

**CompileProofs**: `GuestKeepsStdout`, `WholeObjectIsRead` and `RelocationsHold`.
`Protocol` and `Conserved` describe the two processes together: what of the object is
not in the pipe is still to be written, clang writes only while descriptor 1 is the
pipe, and has ended before the pipe is read.  Since a pipe holds no more than `elfbuf`,
one `read` after `pclose` gets all of it.  `Placed` (constants lie below the code) and
`Patched` (no relocation undoes an earlier one) are the loop invariant of the linker.

**MmuProofs**: `MmuTypeCorrect`, `EndsNeverDrift`, `NoLeakNoHole`,
`BrkIsHarmless`, `ProgramIsLoaded` and `ArgumentsArrive`, from
`TypeOK /\ HostCoversGuest /\ HeapIsMappedExactly /\ Setup`.
The two ends are compared from the first loaded segment on (`InUse`), wherever among
the headers that is.  The heart is arithmetic: a page-aligned bound plus a rounded difference is the
rounded sum (`RoundUpIsUnique`), so one call leaves `host_alloc` at the rounded
guest end whether it grows, shrinks or stays.  `Setup` covers the phases before
the guest runs: nothing is mapped before the first segment, a guest without any never
runs, and the stack pointer has moved by one cell per pushed argument.  `Image`
adds that the segments handled so far are in place, which a later segment does not
change because they share no page.  `Pushing` adds that the arguments handled so far
are, and that mapped memory beyond the guest's end is zero: `mmu_write` copies no
terminator, so the strings end only because of that.

**SyscallProofs**: `StreamsSurvive` and `SyscallsImplementPosix`.  In the invariant
the emulator is either `Quiet`, holding no descriptor with all `Streams` but the ones
closed `astray` in place, or
has standard output `SetAside` in a descriptor that is neither a stream nor the
pipe's.  From this `GuestTable` is the same before and after every step of a
compilation.  Each system call has a lemma: numbers reach their handlers through the
tables (`Handlers`, `NoHandler`), flags survive their conversion (`FlagsArrive`), a
register becomes the `int` that Posix takes it for (`IntsArrive`), and the handler does what the process of Posix does.

**DecodeProofs**: `Decoding` and `Dispatching`, for every 32-bit and every 16-bit
word.  A decoding is a single step, so the invariant is short: `IInv` says that the
word is one of the given ones, that `insn` is cleared or stale until it has been
decoded, and the two properties.  The work is in the step.
- *Immediates.*  The encoding tables define an immediate as the sum of the
  instruction's bits, each times the weight its place has in the format, the sign bit
  with a negative one; the code shifts and masks fields and extends the sign.  There
  is one lemma for each format (`ImmediateI`, ...) and each compressed layout
  (`Immediate_CI`, ...) that the two are the same number.
- *32-bit words.*  For each opcode, `..._meanings` says which lines of the table of
  encodings match a word in terms of its function fields, and `..._right` that the
  branch of `insn_decode` makes an instruction of just that line, or dies when there
  is none.  `Families` puts the opcodes together.
- *Compressed words.*  `Read_...` says what each of the code's seventeen readers
  returns, `Mnemonic0` to `Mnemonic2` which instruction the table names in each
  quadrant, `Undecodable_...` which words must be refused, and a lemma for each
  mnemonic (`Half_...`) that the decoder gives the 32-bit instruction it expands to.
- *Tables.*  `InterpretTable` and `CodegenTable` compare the two dispatch tables
  with the enumeration place by place; `EncodedTypes` and `HalfTypes` say that the
  decoder only produces types that are in it.

**GeneratedProofs**: for strings `StringsAreTyped`, `StringsStayInBounds`,
`PointersAreLive` and `TextsAreIntact`, for every set of non-empty pieces and every
preallocation limit.  The inductive invariant `StrInv` is the type invariant, in which
capacity and block size are tied together, with `Phase`, `Pointers` and `Sound`.  In
`Pointers` the static variable may be out of date, but only for the string that a
function has been called with, and then the function's parameter is not.  `Phase` says
which string has been appended to at which point of `machine_genblock`, so that a
string whose first byte is read has one; `Sound` says that a string is its text
followed by a terminator inside the block, and that the text has none, so that
`strlen` finds the length.  For self-modifying code `FreshCode`, from `StaleIsLate`: the
words that *any* compiled block has decoded differ from memory only where memory was
written later, because the next instruction may come from any of them.  For memory
accesses `OrderIsInvisible`, for blocks of any length: `IsLast` says which access a
byte of memory must come from as a property of the set of accesses made, not of their
order; `Ordered` says that an access is made only if it may pass those it overtakes.
That accesses of one width are never exchanged is a fact about the types that
`codegen.c` names (`WidthDecidesType`, `ClassOfWidth`).  So without mixed widths those
overtaken do not touch a common byte unless both are loads, and an access keeps its
last store (`NoPassing`).

### Assumptions

They are in the modules, and TLC evaluates them on the runs' instances: positive
sizes, `CACHE_HOT_COUNT >= 2`, pc 0 never dispatched, guest and host addresses that
differ (`OffsetAssumption`), a stack with room for the arguments, no empty piece of
text.  Program headers are any list of any headers (`ElfsAssumption`).  Some
assumptions deserve a reason:

- `MachineJumpsAssumption`: the set of pcs holds every address an instruction can
  lead to, and only 32-bit encodings have an `ecall`, as in `decode.c`.
- `SegmentsAssumption`, of headers that are loaded: place in the file and in memory
  agree modulo the page size, and no two segments share a page.  `mmap` refuses the first, and a segment that
  shared a page would overwrite an earlier one, since `MAP_FIXED` replaces pages.
- `CapAssumption`: a pipe is no larger than `elfbuf`; both are 64 KiB (`compile.c`
  and Linux's default).
- `LinkableAssumption`: there is a `.text`, which `machine_compile` asserts, and no
  place is relocated twice, which assemblers for x86-64 do not do.
- `WordAssumption`: the standard streams exist, an `int` has more than twelve bits, so
  that numbers of system calls and newlib's flags fit, and a register has more bits.
- `WordsAssumption`, `HalvesAssumption`: the words to decode are 32-bit words given by
  their fields, or 16-bit words whose low bits are not 11.  Both sets may hold all.
- `RequestsAssumption`: arguments of system calls are of the types of the calls, where
  any register stands for a descriptor.

### Only model-checked

- Liveness (`Progress`, `Terminates`, `CompilationEnds`), which TLAPS does not prove.
- `FollowsIsa` and `JitAgrees`: Alu uses the Bitwise module, which is defined by
  recursion, and floating point is defined by powers of two and searches over them;
  what a recursive definition computes cannot be proved by the installed provers.

## 5. Not modelled, and what comes next

Not modelled: page protections, the exception flags that floating-point arithmetic
raises in a hart (the code has none), compilations after a guest has closed a standard
stream through a wide register,
the layout of `struct stat`, the wording of the generated source, the trace of
system calls on standard error, the register dump `state_print_regs`, which only
formats and is never called, and the sample programs.

Next: the type invariants of Compile and Syscall as theorems of their own, and the
integer instructions, with a definition of the bitwise operators that the provers can
reason about.
