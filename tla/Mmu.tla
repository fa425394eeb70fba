-------------------------------- MODULE Mmu --------------------------------
(***************************************************************************)
(* Guest memory (src/src/mmu.c): the segments of the ELF file are mapped   *)
(* at a fixed offset into the host's address space, machine_setup          *)
(* (src/src/machine.c:104-147) takes stack and arguments from above them,  *)
(* and the guest moves the end of its memory with brk                      *)
(* (src/src/syscall.c:160-167).  alloc is that end as the guest sees it,   *)
(* to the byte; host_alloc is what the host has mapped, in whole pages.    *)
(* Memory is a function of cells: a cell is a byte of a segment or string, *)
(* and also what holds a pointer on the stack, so the 8 bytes of a pointer *)
(* are one cell and the stack's alignment of 16 bytes is two.              *)
(***************************************************************************)
EXTENDS Integers, Sequences

CONSTANTS
    page_size,            \* getpagesize()
    GUEST_MEMORY_OFFSET,  \* host address of guest address 0
    Elfs,                 \* ELF files: program headers and contents
    Argvs,                \* argument vectors, each a sequence of strings
    STACK_SIZE,           \* cells of stack
    Stores,               \* bound: what the guest may store where, pairs <<a, v>>
    Top                   \* bound: guest addresses below Top are modelled

Unmapped == -1  \* no page is mapped here

ASSUME PageAssumption ==
    /\ page_size \in Nat \ {0}
    /\ GUEST_MEMORY_OFFSET \in Nat
    /\ GUEST_MEMORY_OFFSET % page_size = 0

\* Guest and host addresses differ.
ASSUME OffsetAssumption == GUEST_MEMORY_OFFSET # 0

\* The stack has room for argc, argv and the three terminators, aligned.
ASSUME SetupAssumption ==
    /\ STACK_SIZE \in Nat /\ Top \in Nat
    /\ Stores \subseteq Nat \X Nat
    /\ \A av \in Argvs :
         /\ av \in Seq(Seq(Nat))
         /\ Len(av) + 5 <= STACK_SIZE

Phdr == [type : {"PT_LOAD", "other"}, offset : Nat, vaddr : Nat, filesz : Nat, memsz : Nat]

\* What mmu_load_elf looks at in the file's header.
Ehdr == [complete : BOOLEAN, magic : {"ELFMAG", "other"},
         machine : {"EM_RISCV", "other"}, class : {"ELFCLASS64", "other"}]

\* readable is how many program headers the file is long enough for.  Headers
\* come in any order and number, and filesz may exceed memsz, as it does in
\* the header for the RISC-V attributes, which is not loaded.
ASSUME ElfsAssumption ==
    \A e \in Elfs :
        /\ e.ehdr \in Ehdr /\ e.readable \in Nat
        /\ e.phdrs \in Seq(Phdr) /\ e.file \in Seq(Nat)

VARIABLES
    elf,         \* the file being loaded
    i,           \* program headers handled
    base,        \* mmu->base
    alloc,       \* mmu->alloc
    host_alloc,  \* mmu->host_alloc
    mem,         \* the host's mapping of guest memory: host address -> cell
    argv,        \* the command line after the emulator's own name
    args,        \* arguments not yet copied: the loop counts down
    sp, a1,      \* the guest's registers that machine_setup fills
    ctl          \* "open", "load", "stack", "args", "run", or how it ended:
                 \* "abort" (an assertion), "fatal" or "crash"

mmu_t == <<base, alloc, host_alloc>>
input == <<elf, argv>>
vars == <<elf, i, base, alloc, host_alloc, mem, argv, args, sp, a1, ctl>>

TO_HOST(a) == a + GUEST_MEMORY_OFFSET
TO_GUEST(a) == a - GUEST_MEMORY_OFFSET

ROUNDDOWN(v) == (v \div page_size) * page_size

ROUNDUP(v) == ((v + page_size - 1) \div page_size) * page_size

HostRange == GUEST_MEMORY_OFFSET .. GUEST_MEMORY_OFFSET + Top - 1

MAX(a, b) == IF b < a THEN a ELSE b

\* What mmap with MAP_FIXED of whole pages needs of a program's segments, and
\* linkers provide: file and memory agree on the place within a page, and no
\* two segments share one.  Bound: segments lie below Top.
ASSUME SegmentsAssumption ==
    \A e \in Elfs : \A j \in 1 .. Len(e.phdrs) : e.phdrs[j].type = "PT_LOAD" =>
        LET End(p) == ROUNDUP(p.vaddr + p.memsz) IN
        /\ e.phdrs[j].offset % page_size = e.phdrs[j].vaddr % page_size
        /\ End(e.phdrs[j]) <= Top
        /\ \A k \in 1 .. j - 1 : e.phdrs[k].type = "PT_LOAD" =>
              \/ End(e.phdrs[j]) <= ROUNDDOWN(e.phdrs[k].vaddr)
              \/ End(e.phdrs[k]) <= ROUNDDOWN(e.phdrs[j].vaddr)

Init ==
    /\ elf \in Elfs /\ argv \in Argvs
    /\ i = 0
    /\ base = 0 /\ alloc = 0 /\ host_alloc = 0
    /\ mem = [h \in HostRange |-> Unmapped]
    /\ args = Len(argv)
    /\ sp = 0 /\ a1 = 0
    /\ ctl = "open"
-----------------------------------------------------------------------------
\* Byte k of the file; a page that reaches past the end of the file is
\* filled up with zeros.
FileByte(k) == IF k < Len(elf.file) THEN elf.file[k + 1] ELSE 0

\* Mutant: the file is mapped from the segment's offset, not from its page.
FileOffset_unaligned(ph) == ph.offset

\* The file offset mmap is called with.
FileOffset(ph) == ROUNDDOWN(ph.offset)

\* mmu_load_segment: the pages of the file, then anonymous pages up to memsz.
\* mmap refuses a length of 0, and the length that the subtraction gives when
\* memsz has fewer pages than filesz: it wraps.  Either fails an assertion.
mmu_load_segment(ph) ==
    LET vaddr == TO_HOST(ph.vaddr)
        aligned == ROUNDDOWN(vaddr)
        filesz == ph.filesz + (vaddr - aligned)
        memsz == ph.memsz + (vaddr - aligned)
        fileEnd == aligned + ROUNDUP(filesz)
        memEnd == aligned + ROUNDUP(memsz)
    IN  IF filesz = 0
        THEN ctl' = "abort" /\ UNCHANGED <<mem, mmu_t>>
        ELSE /\ mem' = [h \in HostRange |->
                          IF h \in aligned .. fileEnd - 1
                          THEN FileByte(FileOffset(ph) + (h - aligned))
                          ELSE IF h \in fileEnd .. memEnd - 1 THEN 0
                          ELSE mem[h]]
             /\ IF memEnd < fileEnd
                THEN ctl' = "abort" /\ UNCHANGED mmu_t
                ELSE /\ host_alloc' = MAX(host_alloc, memEnd)
                     /\ base' = TO_GUEST(host_alloc')
                     /\ alloc' = base'
                     /\ UNCHANGED ctl

\* A fatal error, which ends the emulator with everything as it is.
fatal ==
    /\ ctl' = "fatal"
    /\ UNCHANGED <<input, i, mmu_t, mem, args, sp, a1>>

Supported(eh) ==
    /\ eh.complete /\ eh.magic = "ELFMAG"
    /\ eh.machine = "EM_RISCV" /\ eh.class = "ELFCLASS64"

\* machine_load_program opens the file; mmu_load_elf checks its header.
load_ehdr ==
    /\ ctl = "open"
    /\ \/ /\ Supported(elf.ehdr)
          /\ ctl' = "load"
          /\ UNCHANGED <<input, i, mmu_t, mem, args, sp, a1>>
       \/ ~Supported(elf.ehdr) /\ fatal
       \/ fatal  \* open fails

\* mmu_load_elf: one program header after the other.
load_phdr ==
    /\ ctl = "load" /\ i < Len(elf.phdrs) /\ i < elf.readable
    /\ i' = i + 1
    /\ IF elf.phdrs[i + 1].type = "PT_LOAD"
       THEN mmu_load_segment(elf.phdrs[i + 1])
       ELSE UNCHANGED <<mmu_t, mem, ctl>>
    /\ UNCHANGED <<input, args, sp, a1>>

\* The file ends before its next program header, some segments already mapped.
truncated ==
    /\ ctl = "load" /\ i < Len(elf.phdrs) /\ i >= elf.readable
    /\ fatal

loaded ==
    /\ ctl = "load" /\ i = Len(elf.phdrs)
    /\ ctl' = "stack"
    /\ UNCHANGED <<input, i, mmu_t, mem, args, sp, a1>>
-----------------------------------------------------------------------------
\* Memory m with n cells from host address h0 set to v: mmap of anonymous
\* pages (v = 0) and munmap (v = Unmapped).
Filled(m, h0, n, v) == [h \in HostRange |-> IF h \in h0 .. h0 + n - 1 THEN v ELSE m[h]]

\* mmu_write(a, s): memory m with the cells of s stored from guest address a.
mmu_write(m, a, s) ==
    [h \in HostRange |-> IF h \in TO_HOST(a) .. TO_HOST(a) + Len(s) - 1
                         THEN s[h - TO_HOST(a) + 1] ELSE m[h]]

Grows(size) == size > 0 /\ alloc + size > TO_GUEST(host_alloc)

\* Mutant: the page that alloc still lies in is released, too.
KeptEnd_drops_partial_page(new) == ROUNDDOWN(new)

\* What is released starts at the end of the page that alloc lies in.
KeptEnd(new) == ROUNDUP(new)

Shrinks(size) == size < 0 /\ KeptEnd(alloc + size) < TO_GUEST(host_alloc)

\* Mutant: the length of a growth is counted from alloc, not from host_alloc.
Growth_from_alloc(size) == ROUNDUP(size)

\* Mutant: just what is missing is mapped.
Growth_exact(size) == alloc + size - TO_GUEST(host_alloc)

\* Cells to map so that the host covers the guest again.
Growth(size) == ROUNDUP((alloc + size) - TO_GUEST(host_alloc))

Surplus(size) == TO_GUEST(host_alloc) - KeptEnd(alloc + size)

\* Mutant: shrinking gives the pages back in the books only.
HostMem_not_unmapped(size) ==
    IF Grows(size) THEN Filled(mem, host_alloc, Growth(size), 0) ELSE mem

\* Memory and host_alloc after mmu_alloc(size).
HostMem(size) ==
    IF Grows(size) THEN Filled(mem, host_alloc, Growth(size), 0)
    ELSE IF Shrinks(size)
    THEN Filled(mem, TO_HOST(KeptEnd(alloc + size)), Surplus(size), Unmapped)
    ELSE mem

HostAlloc(size) ==
    IF Grows(size) THEN host_alloc + Growth(size)
    ELSE IF Shrinks(size) THEN host_alloc - Surplus(size)
    ELSE host_alloc

\* mmu_alloc(size): moves the guest's end, then maps or releases whole pages.
\* The callers say what memory holds in the end: HostMem(size) and, for
\* machine_setup, what it writes there.  Bound: the new end is within Top.
mmu_alloc(size) ==
    /\ ROUNDUP(alloc + size) <= Top
    /\ alloc + size >= base
    /\ alloc' = alloc + size
    /\ host_alloc' = HostAlloc(size)
    /\ UNCHANGED base

\* The host has no more memory for mmu_alloc(size): the emulator ends.
mmap_fails(size) == Grows(size) /\ fatal
-----------------------------------------------------------------------------
AUXV_SIZE == 1
ENVP_SIZE == 1
ARGV_END_SIZE == 1
ARGC_SIZE == 1

\* machine_setup: the stack, with room for the three terminators at its end.
setup_stack ==
    /\ ctl = "stack" /\ host_alloc # 0
    /\ \/ /\ mmu_alloc(STACK_SIZE)
          /\ mem' = HostMem(STACK_SIZE)
          /\ sp' = alloc + STACK_SIZE - (AUXV_SIZE + ENVP_SIZE + ARGV_END_SIZE)
          /\ ctl' = "args"
          /\ UNCHANGED <<input, i, args, a1>>
       \/ mmap_fails(STACK_SIZE)

\* A file without any segment to load: TO_GUEST(0) wraps to an address beyond
\* all others, so mmu_alloc maps nothing, and the first write to the stack, of
\* an argument or of argc, hits an unmapped page.
setup_nowhere ==
    /\ ctl = "stack" /\ host_alloc = 0
    /\ alloc' = alloc + STACK_SIZE
    /\ sp' = alloc + STACK_SIZE - (AUXV_SIZE + ENVP_SIZE + ARGV_END_SIZE)
    /\ ctl' = "crash"
    /\ UNCHANGED <<input, i, base, host_alloc, mem, args, a1>>

\* One argument, the last one first: its string goes to new memory (its
\* terminator is not written: it must be 0 already), its address on the stack.
setup_arg ==
    /\ ctl = "args" /\ args > 0
    /\ LET s == argv[args] IN
       \/ /\ mmu_alloc(Len(s) + 1)
          /\ sp' = sp - 1
          /\ mem' = mmu_write(mmu_write(HostMem(Len(s) + 1), alloc, s), sp', <<alloc>>)
          /\ args' = args - 1
          /\ UNCHANGED <<input, i, a1, ctl>>
       \/ mmap_fails(Len(s) + 1)

\* Mutant: the stack is not moved along with the stack pointer.
MovedDown_pointer_only(m, to, from) == m

\* memmove of the stack from `from` to its end (base + STACK_SIZE) down to `to`.
MovedDown(m, to, from) ==
    mmu_write(m, to, [k \in 1 .. (base + STACK_SIZE) - from |-> m[TO_HOST(from + k - 1)]])

\* argc, the argument registers, and the alignment of the stack.
setup_done ==
    /\ ctl = "args" /\ args = 0
    /\ LET sp0 == sp - ARGC_SIZE
           m == mmu_write(mem, sp0, <<Len(argv)>>)
           aligned == sp0 - (sp0 % 2)
       IN  /\ sp' = aligned
           /\ a1' = aligned + ARGC_SIZE
           /\ mem' = IF aligned # sp0 THEN MovedDown(m, aligned, sp0) ELSE m
    /\ ctl' = "run"
    /\ UNCHANGED <<input, i, mmu_t, args>>

\* sys_brk: 0 asks for the current end; an end below base fails the assertion.
sys_brk(addr) ==
    LET want == IF addr = 0 THEN alloc ELSE addr IN
    /\ ctl = "run"
    /\ \/ /\ mmu_alloc(want - alloc)
          /\ mem' = HostMem(want - alloc)
          /\ UNCHANGED <<input, i, args, sp, a1, ctl>>
       \/ mmap_fails(want - alloc)
       \/ /\ want < base
          /\ ctl' = "abort"
          /\ UNCHANGED <<input, i, mmu_t, mem, args, sp, a1>>

\* The guest stores to memory it was given.
store(a, v) ==
    /\ ctl = "run"
    /\ a < alloc /\ TO_HOST(a) \in HostRange /\ mem[TO_HOST(a)] # Unmapped
    /\ mem' = mmu_write(mem, a, <<v>>)
    /\ UNCHANGED <<input, i, mmu_t, args, sp, a1, ctl>>

Next ==
    \/ load_ehdr \/ load_phdr \/ truncated \/ loaded
    \/ setup_stack \/ setup_nowhere \/ setup_arg \/ setup_done
    \/ \E addr \in 0 .. Top : sys_brk(addr)
    \/ \E s \in Stores : store(s[1], s[2])

Spec == Init /\ [][Next]_vars
-----------------------------------------------------------------------------
\* Types of the memory's state: base and host_alloc are page boundaries.
TypeOK ==
    /\ elf \in Elfs /\ argv \in Argvs
    /\ i \in 0 .. Len(elf.phdrs)
    /\ base \in Nat /\ alloc \in Nat /\ host_alloc \in Nat
    /\ base % page_size = 0 /\ host_alloc % page_size = 0
    /\ mem \in [HostRange -> Nat \cup {Unmapped}]
    /\ args \in 0 .. Len(argv)
    /\ sp \in Nat /\ a1 \in Nat
    /\ ctl \in {"open", "load", "stack", "args", "run", "abort", "fatal", "crash"}

\* A segment has been loaded, or arguments are pushed or the guest runs, and no
\* assertion has failed half way.
InUse == (host_alloc # 0 \/ ctl \in {"args", "run"}) /\ ctl # "abort"

\* The host side is the guest side rounded up to pages, whatever mixture of
\* growing and shrinking led here; the guest's end is never below its base.
\* No guest runs in an address space where nothing was loaded.
HostCoversGuest ==
    InUse =>
        /\ base <= alloc
        /\ host_alloc = TO_HOST(ROUNDUP(alloc))

\* From base on, exactly the pages up to host_alloc are mapped: everything
\* that was allocated can be used, nothing beyond it.
HeapIsMappedExactly ==
    InUse =>
        \A h \in HostRange :
            h >= TO_HOST(base) => (mem[h] # Unmapped <=> h < host_alloc)

\* brk leaves every cell below both ends alone (program, stack, arguments and
\* heap); a cell it adds on a new page is zero; and a cell of a page that is
\* mapped before and after holds what it held, although it may lie beyond an
\* end in between: it comes back as the guest left it, never as another's.
KeepsCells ==
    \A h \in HostRange :
        /\ h < TO_HOST(alloc) /\ h < TO_HOST(alloc') => mem'[h] = mem[h]
        /\ mem[h] = Unmapped => mem'[h] \in {0, Unmapped}
        /\ mem[h] # Unmapped => mem'[h] \in {mem[h], Unmapped}

BrkKeepsCells == [][ctl = "run" /\ alloc' # alloc => KeepsCells]_vars

Loaded(e) == { e.phdrs[k] : k \in { k \in 1 .. Len(e.phdrs) : e.phdrs[k].type = "PT_LOAD" } }

\* After loading, every byte of every segment is at its address, and the
\* pages after the last file page of a segment are zero.
ImageIsLoaded ==
    ctl = "stack" =>
        \A ph \in Loaded(elf) : \A k \in 0 .. ph.memsz - 1 :
            LET h == TO_HOST(ph.vaddr + k) IN
            /\ k < ph.filesz => mem[h] = FileByte(ph.offset + k)
            /\ h >= ROUNDUP(TO_HOST(ph.vaddr + ph.filesz)) => mem[h] = 0

\* The guest's view of its command line, from the stack pointer: argc, then
\* the addresses of the strings in order, each string with its terminator,
\* then the three terminators, all of it inside the stack.
StringAt(a, s) ==
    /\ \A k \in 1 .. Len(s) : mem[TO_HOST(a + k - 1)] = s[k]
    /\ mem[TO_HOST(a + Len(s))] = 0

ArgvIsReadable ==
    /\ sp % 2 = 0 /\ a1 = sp + 1
    /\ mem[TO_HOST(sp)] = Len(argv)
    /\ \A k \in 1 .. Len(argv) : StringAt(mem[TO_HOST(sp + k)], argv[k])
    /\ \A k \in 1 .. 3 : mem[TO_HOST(sp + Len(argv) + k)] = 0
    /\ base <= sp /\ sp + Len(argv) + 4 <= base + STACK_SIZE

\* The guest starts with its command line readable: whatever the number of
\* arguments, the alignment of the stack pointer does not lose any of it.
GuestStartsWithArgv == [][ctl = "args" /\ ctl' = "run" => ArgvIsReadable']_vars

\* doc/base.md:58: the part of .bss on the last page of the file is set to 0.
\* The run that checks it finds file contents there.
BssIsZero ==
    ctl = "stack" =>
        \A ph \in Loaded(elf) : \A k \in ph.filesz .. ph.memsz - 1 :
            mem[TO_HOST(ph.vaddr + k)] = 0
=============================================================================
