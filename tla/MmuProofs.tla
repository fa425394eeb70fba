----------------------------- MODULE MmuProofs -----------------------------
(***************************************************************************)
(* The books of the guest's memory are right for every page size, every    *)
(* set of ELF files and command lines, and every sequence of brk calls.    *)
(***************************************************************************)
EXTENDS Mmu, TLAPS

USE PageAssumption

Aligned(x) == x % page_size = 0

\* A number is aligned exactly when it is a multiple of the page size.
LEMMA AlignedIsMultiple ==
    ASSUME NEW q \in Int
    PROVE  page_size * q \in Int /\ Aligned(page_size * q)
<1>1. page_size * q \in Int
    OBVIOUS
<1>2. (page_size * q) % page_size = 0
    OBVIOUS
<1> QED
    BY <1>1, <1>2 DEF Aligned

\* An aligned address is a multiple of the page size.
LEMMA MultipleOfAligned ==
    ASSUME NEW x \in Int, Aligned(x)
    PROVE  \E q \in Int : x = page_size * q
<1>1. x = page_size * (x \div page_size) + (x % page_size)
    OBVIOUS
<1>2. x \div page_size \in Int
    OBVIOUS
<1>3. x = page_size * (x \div page_size)
    BY <1>1, <1>2 DEF Aligned
<1> QED
    BY <1>2, <1>3

\* Sums and differences of aligned numbers are aligned.
LEMMA AlignedSum ==
    ASSUME NEW x \in Int, NEW y \in Int, Aligned(x), Aligned(y)
    PROVE  Aligned(x + y) /\ Aligned(x - y)
<1>1. PICK q \in Int : x = page_size * q
    BY MultipleOfAligned
<1>2. PICK r \in Int : y = page_size * r
    BY MultipleOfAligned
<1>3. x + y = page_size * (q + r) /\ x - y = page_size * (q - r)
    BY <1>1, <1>2
<1>4. q + r \in Int /\ q - r \in Int
    OBVIOUS
<1> QED
    BY <1>3, <1>4, AlignedIsMultiple

\* There is no aligned number strictly between two neighbouring ones.
LEMMA AlignedGap ==
    ASSUME NEW x \in Int, NEW y \in Int, Aligned(x), Aligned(y), x < y + page_size
    PROVE  x <= y
<1>1. PICK q \in Int : x = page_size * q
    BY MultipleOfAligned
<1>2. PICK r \in Int : y = page_size * r
    BY MultipleOfAligned
<1>3. page_size * q < page_size * (r + 1)
    BY <1>1, <1>2
<1>4. q < r + 1
    BY <1>3
<1>5. q <= r
    BY <1>4
<1> QED
    BY <1>1, <1>2, <1>5

\* ROUNDUP gives the page boundary at or just after a number, ROUNDDOWN the
\* one at or just before it.
LEMMA RoundUp ==
    ASSUME NEW x \in Int
    PROVE  /\ ROUNDUP(x) \in Int /\ Aligned(ROUNDUP(x))
           /\ x <= ROUNDUP(x) /\ ROUNDUP(x) < x + page_size
<1> DEFINE n == x + page_size - 1
           q == n \div page_size
<1>1. q \in Int /\ n % page_size \in 0 .. page_size - 1
    OBVIOUS
<1>2. n = page_size * q + (n % page_size)
    OBVIOUS
<1>3. ROUNDUP(x) = page_size * q
    BY <1>1 DEF ROUNDUP
<1>4. page_size * q \in Int /\ Aligned(page_size * q)
    BY <1>1, AlignedIsMultiple
<1>5. page_size * q <= n /\ n < page_size * q + page_size
    BY <1>1, <1>2, <1>4
<1> HIDE DEF q
<1> QED
    BY <1>3, <1>4, <1>5

\* ROUNDDOWN is the page boundary at or below an address.
LEMMA RoundDown ==
    ASSUME NEW x \in Int
    PROVE  /\ ROUNDDOWN(x) \in Int /\ Aligned(ROUNDDOWN(x))
           /\ ROUNDDOWN(x) <= x /\ x < ROUNDDOWN(x) + page_size
<1> DEFINE q == x \div page_size
<1>1. q \in Int /\ x % page_size \in 0 .. page_size - 1
    OBVIOUS
<1>2. x = page_size * q + (x % page_size)
    OBVIOUS
<1>3. ROUNDDOWN(x) = page_size * q
    BY <1>1 DEF ROUNDDOWN
<1>4. page_size * q \in Int /\ Aligned(page_size * q)
    BY <1>1, AlignedIsMultiple
<1>5. page_size * q <= x /\ x < page_size * q + page_size
    BY <1>1, <1>2, <1>4
<1> HIDE DEF q
<1> QED
    BY <1>3, <1>4, <1>5

\* An aligned number that is less than a page above x is ROUNDUP(x).
LEMMA RoundUpIsUnique ==
    ASSUME NEW x \in Int, NEW y \in Int, Aligned(y), x <= y, y < x + page_size
    PROVE  y = ROUNDUP(x)
<1>1. /\ ROUNDUP(x) \in Int /\ Aligned(ROUNDUP(x))
      /\ x <= ROUNDUP(x) /\ ROUNDUP(x) < x + page_size
    BY RoundUp
<1>2. y <= ROUNDUP(x) /\ ROUNDUP(x) <= y
    BY <1>1, AlignedGap
<1> QED
    BY <1>1, <1>2
-----------------------------------------------------------------------------
\* What the invariants need beyond themselves.  Until a segment is loaded
\* nothing is mapped, and the guest does not run.
Nothing ==
    host_alloc = 0 /\ ctl # "abort" =>
        /\ ctl \notin {"args", "run"}
        /\ \A h \in HostRange : mem[h] = Unmapped

\* The books are even until the stack is taken, and while the arguments are
\* pushed the stack pointer has moved one cell for each.
Setup ==
    /\ ctl \in {"open", "load", "stack"} => alloc = base /\ args = Len(argv)
    /\ ctl = "args" => /\ sp = base + STACK_SIZE - 3 - (Len(argv) - args)
                       /\ base + STACK_SIZE <= alloc /\ alloc <= Top

\* The inductive invariant.
IndInv == TypeOK /\ HostCoversGuest /\ HeapIsMappedExactly /\ Nothing /\ Setup

Books == base <= alloc /\ host_alloc = TO_HOST(ROUNDUP(alloc))

MappedExactly(m, b, end) ==
    \A h \in HostRange : h >= TO_HOST(b) => (m[h] # Unmapped <=> h < end)

Memory == [HostRange -> Nat \cup {Unmapped}]

\* Guest and host addresses have the same place in a page.
LEMMA OffsetIsAligned == Aligned(GUEST_MEMORY_OFFSET)
    BY DEF Aligned

\* mmu_alloc evens the books, in each of its three cases.
LEMMA AllocBooks ==
    ASSUME TypeOK, Books, NEW size \in Int, mmu_alloc(size)
    PROVE  /\ alloc' \in Nat /\ alloc' <= Top /\ host_alloc' \in Nat
           /\ Aligned(host_alloc') /\ Books' /\ alloc' = alloc + size /\ base' = base
<1> DEFINE new == alloc + size
           G == TO_GUEST(host_alloc)
<1>1. /\ alloc \in Nat /\ base \in Nat /\ host_alloc \in Nat /\ GUEST_MEMORY_OFFSET \in Nat
      /\ base <= new /\ alloc' = new /\ base' = base /\ host_alloc' = HostAlloc(size)
      /\ ROUNDUP(new) <= Top
    BY DEF TypeOK, mmu_alloc
<1>2. G = ROUNDUP(alloc) /\ host_alloc = G + GUEST_MEMORY_OFFSET
    BY <1>1, RoundUp DEF Books, TO_HOST, TO_GUEST
<1>3. G \in Int /\ Aligned(G) /\ alloc <= G /\ G < alloc + page_size
    BY <1>1, <1>2, RoundUp
<1>4. new \in Nat
    BY <1>1
<1> HIDE DEF new, G
<1>5. /\ ROUNDUP(new) \in Int /\ Aligned(ROUNDUP(new))
      /\ new <= ROUNDUP(new) /\ ROUNDUP(new) < new + page_size
    BY <1>4, RoundUp
<1>6. host_alloc' = TO_HOST(ROUNDUP(new))
  <2>1. CASE Grows(size)
    <3>1. new > G
        BY <2>1 DEF Grows, new, G
    <3>2. /\ ROUNDUP(new - G) \in Int /\ Aligned(ROUNDUP(new - G))
          /\ new - G <= ROUNDUP(new - G) /\ ROUNDUP(new - G) < new - G + page_size
        BY <1>3, <1>4, RoundUp
    <3>3. Aligned(G + ROUNDUP(new - G))
        BY <1>3, <3>2, AlignedSum
    <3>4. G + ROUNDUP(new - G) = ROUNDUP(new)
        BY <1>3, <1>4, <3>2, <3>3, RoundUpIsUnique
    <3>a. Growth(size) = ROUNDUP(new - G)
        BY DEF Growth, new, G
    <3>5. host_alloc' = host_alloc + ROUNDUP(new - G)
        BY <1>1, <2>1, <3>a DEF HostAlloc
    <3> QED
        BY <1>1, <1>2, <1>3, <1>5, <3>2, <3>4, <3>5 DEF TO_HOST
  <2>2. CASE ~Grows(size) /\ Shrinks(size)
    <3>1. host_alloc' = host_alloc - (G - ROUNDUP(new))
        BY <1>1, <2>2 DEF HostAlloc, Surplus, KeptEnd, new, G
    <3> QED
        BY <1>1, <1>2, <1>3, <1>5, <3>1 DEF TO_HOST
  <2>3. CASE ~Grows(size) /\ ~Shrinks(size)
    <3>1. host_alloc' = host_alloc
        BY <1>1, <2>3 DEF HostAlloc
    <3>2. size > 0 => new <= G
        BY <2>3, <1>3, <1>4 DEF Grows, new, G
    <3>3. size < 0 => G <= ROUNDUP(new)
        BY <2>3, <1>3, <1>5 DEF Shrinks, KeptEnd, new, G
    <3>4. new <= G /\ G < new + page_size
        BY <1>1, <1>3, <1>5, <3>2, <3>3 DEF new
    <3>5. G = ROUNDUP(new)
        BY <1>3, <1>4, <3>4, RoundUpIsUnique
    <3> QED
        BY <1>2, <3>1, <3>5 DEF TO_HOST
  <2> QED
    BY <2>1, <2>2, <2>3
<1>7. host_alloc' \in Nat
    BY <1>1, <1>4, <1>5, <1>6 DEF TO_HOST
<1>8. Aligned(host_alloc')
    BY <1>5, <1>6, <1>1, OffsetIsAligned, AlignedSum DEF TO_HOST
<1>9. alloc' \in Nat /\ alloc' <= Top
    BY <1>1, <1>4, <1>5, SetupAssumption
<1> QED
    BY <1>1, <1>6, <1>7, <1>8, <1>9 DEF Books, new

\* The memory mmu_alloc leaves has exactly the pages of the books, and keeps
\* the cells below both ends.
LEMMA AllocMemory ==
    ASSUME TypeOK, Books, MappedExactly(mem, base, host_alloc),
           NEW size \in Int, mmu_alloc(size)
    PROVE  /\ HostMem(size) \in Memory
           /\ MappedExactly(HostMem(size), base, host_alloc')
           /\ \A h \in HostRange :
                /\ h < TO_HOST(alloc) /\ h < TO_HOST(alloc') => HostMem(size)[h] = mem[h]
                /\ mem[h] = Unmapped => HostMem(size)[h] \in {0, Unmapped}
                /\ mem[h] # Unmapped => HostMem(size)[h] \in {mem[h], Unmapped}
<1> DEFINE new == alloc + size
           G == TO_GUEST(host_alloc)
<1>1. /\ alloc \in Nat /\ base \in Nat /\ host_alloc \in Nat /\ GUEST_MEMORY_OFFSET \in Nat
      /\ alloc' = new /\ host_alloc' = HostAlloc(size) /\ new \in Nat /\ base <= new
      /\ base <= alloc
      /\ mem \in Memory /\ HostRange \subseteq Int /\ Unmapped \in Int /\ Unmapped # 0
    BY DEF TypeOK, mmu_alloc, Memory, HostRange, Unmapped, Books
<1>2. G = ROUNDUP(alloc) /\ host_alloc = G + GUEST_MEMORY_OFFSET /\ G \in Int /\ alloc <= G
    BY <1>1, RoundUp DEF Books, TO_HOST, TO_GUEST
<1>3. /\ ROUNDUP(new) \in Int /\ new <= ROUNDUP(new)
      /\ ROUNDUP(new - G) \in Int /\ new - G <= ROUNDUP(new - G)
    BY <1>1, <1>2, RoundUp
<1> HIDE DEF new, G
<1>4. CASE Grows(size)
  <2>a. Growth(size) = ROUNDUP(new - G)
      BY DEF Growth, new, G
  <2>1. /\ host_alloc' = host_alloc + ROUNDUP(new - G)
        /\ HostMem(size) = Filled(mem, host_alloc, ROUNDUP(new - G), 0)
        /\ new > G
      BY <1>1, <1>4, <2>a DEF HostAlloc, HostMem, Grows, new, G
  <2>2. HostMem(size) \in Memory
      BY <1>1, <2>1 DEF Filled, Memory
  <2>3. \A h \in HostRange :
            HostMem(size)[h] = IF h >= host_alloc /\ h < host_alloc' THEN 0 ELSE mem[h]
      BY <1>1, <1>2, <1>3, <2>1 DEF Filled
  <2> QED
      BY <1>1, <1>2, <1>3, <2>1, <2>2, <2>3 DEF MappedExactly, TO_HOST
<1>5. CASE ~Grows(size) /\ Shrinks(size)
  <2>1. /\ host_alloc' = host_alloc - (G - ROUNDUP(new))
        /\ HostMem(size) = Filled(mem, TO_HOST(ROUNDUP(new)), G - ROUNDUP(new), Unmapped)
        /\ ROUNDUP(new) < G
      BY <1>1, <1>5 DEF HostAlloc, HostMem, Surplus, Shrinks, KeptEnd, new, G
  <2>2. HostMem(size) \in Memory
      BY <1>1, <2>1 DEF Filled, Memory
  <2>3. \A h \in HostRange :
            HostMem(size)[h] = IF h >= host_alloc' /\ h < host_alloc THEN Unmapped ELSE mem[h]
      BY <1>1, <1>2, <1>3, <2>1 DEF Filled, TO_HOST
  <2> QED
      BY <1>1, <1>2, <1>3, <2>1, <2>2, <2>3 DEF MappedExactly, TO_HOST
<1>6. CASE ~Grows(size) /\ ~Shrinks(size)
  <2>1. host_alloc' = host_alloc /\ HostMem(size) = mem
      BY <1>1, <1>6 DEF HostAlloc, HostMem
  <2> QED
      BY <1>1, <2>1 DEF MappedExactly
<1> QED
    BY <1>4, <1>5, <1>6

\* Writing into mapped memory maps nothing and unmaps nothing.
LEMMA WriteMemory ==
    ASSUME NEW m \in Memory, NEW a \in Nat, NEW s \in Seq(Nat), NEW b \in Nat, NEW end \in Nat,
           MappedExactly(m, b, end), TO_HOST(a) + Len(s) <= end
    PROVE  mmu_write(m, a, s) \in Memory /\ MappedExactly(mmu_write(m, a, s), b, end)
<1>1. HostRange \subseteq Int /\ Unmapped \notin Nat /\ TO_HOST(a) \in Nat /\ Len(s) \in Nat
    BY DEF HostRange, Unmapped, TO_HOST
<1>2. \A h \in HostRange :
        IF h >= TO_HOST(a) /\ h < TO_HOST(a) + Len(s)
        THEN mmu_write(m, a, s)[h] \in Nat
        ELSE mmu_write(m, a, s)[h] = m[h]
  <2> SUFFICES ASSUME NEW h \in HostRange
               PROVE  IF h >= TO_HOST(a) /\ h < TO_HOST(a) + Len(s)
                      THEN mmu_write(m, a, s)[h] \in Nat
                      ELSE mmu_write(m, a, s)[h] = m[h]
      OBVIOUS
  <2>1. CASE h >= TO_HOST(a) /\ h < TO_HOST(a) + Len(s)
    <3>1. h - TO_HOST(a) + 1 \in 1 .. Len(s)
        BY <1>1, <2>1
    <3>a. h \in TO_HOST(a) .. TO_HOST(a) + Len(s) - 1
        BY <1>1, <2>1
    <3>2. mmu_write(m, a, s)[h] = s[h - TO_HOST(a) + 1]
        BY <3>a DEF mmu_write
    <3> QED
        BY <2>1, <3>1, <3>2
  <2>2. CASE ~(h >= TO_HOST(a) /\ h < TO_HOST(a) + Len(s))
      BY <1>1, <2>2 DEF mmu_write
  <2> QED
      BY <2>1, <2>2
<1>3. mmu_write(m, a, s) = [h \in HostRange |-> mmu_write(m, a, s)[h]]
    BY DEF mmu_write
<1>4. \A h \in HostRange : mmu_write(m, a, s)[h] \in Nat \cup {Unmapped}
    BY <1>2 DEF Memory
<1>5. mmu_write(m, a, s) \in Memory
    BY <1>3, <1>4 DEF Memory
<1> QED
    BY <1>1, <1>2, <1>5 DEF MappedExactly

-----------------------------------------------------------------------------
\* The initial state, with nothing mapped.
LEMMA InitInv == Init => IndInv
<1> SUFFICES ASSUME Init PROVE IndInv
    OBVIOUS
<1>1. elf.phdrs \in Seq(Phdr) /\ argv \in Seq(Seq(Nat))
    BY ElfsAssumption, SetupAssumption DEF Init
<1>2. Len(elf.phdrs) \in Nat /\ Len(argv) \in Nat
    BY <1>1
<1>3. 0 % page_size = 0
    OBVIOUS
<1>4. TypeOK
    BY <1>2, <1>3 DEF Init, TypeOK
<1> QED
    BY <1>4 DEF Init, IndInv, HostCoversGuest, HeapIsMappedExactly, InUse, Nothing, Setup

\* The books of a machine in use name a host address.
LEMMA HostEnd ==
    ASSUME NEW a \in Nat
    PROVE  TO_HOST(ROUNDUP(a)) # 0
<1>1. PICK r \in Int : r = ROUNDUP(a) /\ a <= r
    BY RoundUp
<1> QED
    BY <1>1, OffsetAssumption DEF TO_HOST

\* A segment's pages end on a page boundary in the guest's part of the host's
\* address space.
LEMMA SegmentEnds ==
    ASSUME NEW ph \in Phdr
    PROVE  LET aligned == ROUNDDOWN(TO_HOST(ph.vaddr))
               off == TO_HOST(ph.vaddr) - aligned
               fileEnd == aligned + ROUNDUP(ph.filesz + off)
               memEnd == aligned + ROUNDUP(ph.memsz + off)
           IN  /\ memEnd \in Nat /\ Aligned(memEnd) /\ GUEST_MEMORY_OFFSET <= memEnd
               /\ fileEnd \in Int /\ aligned \in Int
               /\ GUEST_MEMORY_OFFSET <= aligned
<1> DEFINE v == TO_HOST(ph.vaddr)
           al == ROUNDDOWN(v)
           f == ph.filesz + (v - al)
           m == ph.memsz + (v - al)
<1>1. v \in Nat /\ v >= GUEST_MEMORY_OFFSET /\ GUEST_MEMORY_OFFSET \in Nat
    BY DEF TO_HOST, Phdr
<1>2. al \in Int /\ Aligned(al) /\ al <= v /\ v < al + page_size
    BY <1>1, RoundDown
<1> HIDE DEF v, al
<1>3. GUEST_MEMORY_OFFSET <= al
    BY <1>1, <1>2, OffsetIsAligned, AlignedGap
<1>4. f \in Nat /\ m \in Nat
    BY <1>1, <1>2 DEF Phdr
<1> HIDE DEF f, m
<1>5. /\ ROUNDUP(f) \in Int
      /\ ROUNDUP(m) \in Int /\ Aligned(ROUNDUP(m)) /\ m <= ROUNDUP(m)
    BY <1>4, RoundUp
<1>7. Aligned(al + ROUNDUP(m))
    BY <1>2, <1>5, AlignedSum
<1>8. al + ROUNDUP(m) \in Nat /\ GUEST_MEMORY_OFFSET <= al + ROUNDUP(m)
    BY <1>1, <1>2, <1>3, <1>4, <1>5
<1> QED
    BY <1>2, <1>3, <1>5, <1>7, <1>8 DEF v, al, f, m

\* What mmu_load_segment maps of the file are bytes.
LEMMA SegmentBytes ==
    ASSUME NEW ph \in Phdr, NEW aligned \in Int, NEW fileEnd \in Int, elf.file \in Seq(Nat)
    PROVE  \A h \in HostRange : h \in aligned .. fileEnd - 1 =>
                FileByte(FileOffset(ph) + (h - aligned)) \in Nat
<1>1. \A k \in Nat : FileByte(k) \in Nat
    BY DEF FileByte
<1>2. ROUNDDOWN(ph.offset) \in Nat
    <2>1. ph.offset \in Nat /\ ROUNDDOWN(ph.offset) \in Int
          /\ ph.offset < ROUNDDOWN(ph.offset) + page_size /\ Aligned(ROUNDDOWN(ph.offset))
        BY RoundDown DEF Phdr
    <2>2. Aligned(0)
        BY DEF Aligned
    <2>3. 0 <= ROUNDDOWN(ph.offset)
        BY <2>1, <2>2, AlignedGap
    <2> QED
        BY <2>1, <2>3
<1>3. \A h \in HostRange : h \in aligned .. fileEnd - 1 => FileOffset(ph) + (h - aligned) \in Nat
    BY <1>2 DEF FileOffset, HostRange
<1> QED
    BY <1>1, <1>3

\* Loading a segment: base moves to the end of the highest one.
LEMMA SegmentInv ==
    ASSUME IndInv, ctl = "load", i < Len(elf.phdrs), i' = i + 1,
           elf.phdrs[i + 1].type = "PT_LOAD",
           mmu_load_segment(elf.phdrs[i + 1]),
           UNCHANGED <<input, args, sp, a1>>
    PROVE  IndInv'
<1> DEFINE ph == elf.phdrs[i + 1]
           aligned == ROUNDDOWN(TO_HOST(ph.vaddr))
           off == TO_HOST(ph.vaddr) - aligned
           fileEnd == aligned + ROUNDUP(ph.filesz + off)
           memEnd == aligned + ROUNDUP(ph.memsz + off)
<1>1. TypeOK /\ elf.phdrs \in Seq(Phdr) /\ elf.file \in Seq(Nat) /\ i + 1 \in 1 .. Len(elf.phdrs)
    BY ElfsAssumption DEF IndInv, TypeOK
<1>2. ph \in Phdr
    BY <1>1
<1>3. /\ memEnd \in Nat /\ Aligned(memEnd) /\ GUEST_MEMORY_OFFSET <= memEnd
      /\ fileEnd \in Int /\ aligned \in Int
      /\ GUEST_MEMORY_OFFSET <= aligned
    BY <1>2, SegmentEnds
<1>4. i' \in 0 .. Len(elf.phdrs)
    BY <1>1 DEF TypeOK
<1>5. CASE ph.filesz + off = 0
  <2>1. ctl' = "abort" /\ UNCHANGED <<mem, mmu_t>>
      BY <1>5 DEF mmu_load_segment
  <2> QED
      BY <1>1, <1>4, <2>1 DEF IndInv, TypeOK, HostCoversGuest, HeapIsMappedExactly, InUse, Nothing, Setup, input, mmu_t
<1>6. CASE ph.filesz + off # 0
  <2>a. mem' = [h \in HostRange |->
                   IF h \in aligned .. fileEnd - 1
                   THEN FileByte(FileOffset(ph) + (h - aligned))
                   ELSE IF h \in fileEnd .. memEnd - 1 THEN 0 ELSE mem[h]]
      BY <1>6 DEF mmu_load_segment
  <2>d. \A h \in HostRange : h \in aligned .. fileEnd - 1 =>
            FileByte(FileOffset(ph) + (h - aligned)) \in Nat
      BY <1>1, <1>2, <1>3, SegmentBytes
  <2>b. CASE memEnd < fileEnd
    <3>1. ctl' = "abort" /\ UNCHANGED mmu_t
        BY <1>6, <2>b DEF mmu_load_segment
    <3> HIDE DEF ph, aligned, off, fileEnd, memEnd
    <3>2. mem' \in Memory
        BY <1>1, <2>d, <2>a DEF TypeOK, Memory
    <3> QED
        BY <1>1, <1>4, <3>1, <3>2
           DEF IndInv, TypeOK, HostCoversGuest, HeapIsMappedExactly, InUse, Nothing, Setup,
               Memory, input, mmu_t
  <2>c. CASE ~(memEnd < fileEnd)
    <3>1. /\ host_alloc' = MAX(host_alloc, memEnd) /\ fileEnd <= memEnd
          /\ base' = TO_GUEST(host_alloc') /\ alloc' = base' /\ ctl' = ctl
        BY <1>3, <1>6, <2>c DEF mmu_load_segment
    <3> HIDE DEF ph, aligned, off, fileEnd, memEnd
    <3>2. /\ host_alloc' \in Nat /\ Aligned(host_alloc') /\ GUEST_MEMORY_OFFSET <= host_alloc'
          /\ host_alloc <= host_alloc' /\ memEnd <= host_alloc'
        BY <1>1, <1>3, <3>1 DEF MAX, TypeOK, Aligned
    <3>3. base' \in Nat /\ alloc' = base' /\ host_alloc' = TO_HOST(base')
        BY <3>1, <3>2 DEF TO_GUEST, TO_HOST
    <3>4. Aligned(base')
        BY <3>1, <3>2, OffsetIsAligned, AlignedSum DEF TO_GUEST
    <3>5. ROUNDUP(base') = base'
        BY <3>3, <3>4, RoundUpIsUnique
    <3>8. mem' \in Memory
        BY <1>1, <2>d, <2>a DEF TypeOK, Memory
    <3>9. \A h \in HostRange : h >= host_alloc => mem[h] = Unmapped
      <4>1. CASE host_alloc = 0
          BY <4>1 DEF IndInv, Nothing
      <4>2. CASE host_alloc # 0
        <5>1. InUse /\ base = alloc /\ host_alloc = TO_HOST(ROUNDUP(alloc)) /\ base \in Nat
            BY <1>1, <4>2 DEF IndInv, TypeOK, HostCoversGuest, InUse, Setup
        <5>2. base <= ROUNDUP(alloc) /\ ROUNDUP(alloc) \in Int
            BY <5>1, RoundUp
        <5>3. \A h \in HostRange : h >= host_alloc => h >= TO_HOST(base)
            BY <5>1, <5>2 DEF TO_HOST, HostRange
        <5>4. \A h \in HostRange : h >= host_alloc => ~(h < host_alloc)
            BY <1>1 DEF TypeOK, HostRange
        <5>5. \A h \in HostRange : h >= TO_HOST(base) => (mem[h] # Unmapped <=> h < host_alloc)
            BY <5>1 DEF IndInv, HeapIsMappedExactly
        <5> QED
            BY <5>3, <5>4, <5>5
      <4> QED
          BY <4>1, <4>2
    <3>10. \A h \in HostRange : h >= host_alloc' => mem'[h] = Unmapped
        BY <1>1, <1>3, <2>a, <3>1, <3>2, <3>9 DEF TypeOK, HostRange
    <3>11. TypeOK'
        BY <1>1, <1>4, <3>1, <3>2, <3>3, <3>4, <3>8 DEF TypeOK, Memory, Aligned, input
    <3>12. HostCoversGuest'
        BY <3>3, <3>5 DEF HostCoversGuest
    <3>13. HeapIsMappedExactly'
        BY <3>2, <3>3, <3>10 DEF HeapIsMappedExactly, HostRange
    <3>14. Setup'
        BY <1>4, <3>1 DEF Setup, IndInv, input
    <3>15. Nothing'
        BY <3>2, OffsetAssumption DEF Nothing
    <3> QED
        BY <3>11, <3>12, <3>13, <3>14, <3>15 DEF IndInv
  <2> QED
      BY <2>b, <2>c
<1> QED
    BY <1>5, <1>6

\* The invariant, said for a machine that has been loaded.
LEMMA LoadedMachine ==
    ASSUME IndInv, ctl \in {"stack", "args", "run"}, ctl = "stack" => host_alloc # 0
    PROVE  TypeOK /\ host_alloc # 0 /\ Books /\ MappedExactly(mem, base, host_alloc)
<1>1. host_alloc # 0
    BY DEF IndInv, Nothing
<1> QED
    BY <1>1 DEF IndInv, HostCoversGuest, HeapIsMappedExactly, InUse, Books, MappedExactly

\* The invariant from its parts, after a segment.
LEMMA LoadedAgain ==
    ASSUME TypeOK', Books', MappedExactly(mem', base', host_alloc'), Setup'
    PROVE  IndInv'
<1>1. host_alloc' # 0
    BY HostEnd DEF TypeOK, Books
<1> QED
    BY <1>1 DEF IndInv, HostCoversGuest, HeapIsMappedExactly, InUse, Nothing, Books, MappedExactly

\* A step that only ends the run, or changes nothing.
LEMMA EndInv ==
    ASSUME IndInv, ctl \in {"stack", "args", "run"}, ctl' \in {"abort", "fatal"},
           UNCHANGED <<input, i, mmu_t, mem, args, sp, a1>>
    PROVE  IndInv'
    BY DEF IndInv, TypeOK, HostCoversGuest, HeapIsMappedExactly, InUse, Nothing, Setup, input, mmu_t

\* A rejected file leaves memory as it was.
LEMMA FatalInv ==
    ASSUME IndInv, ctl # "abort", fatal
    PROVE  IndInv'
    BY DEF fatal, IndInv, TypeOK, HostCoversGuest, HeapIsMappedExactly, InUse, Nothing, Setup, input, mmu_t

\* The file's header, checked before anything is mapped.
LEMMA HeaderInv == IndInv /\ (load_ehdr \/ truncated) => IndInv'
<1>1. ASSUME IndInv, load_ehdr, ~fatal PROVE IndInv'
  <2>1. /\ UNCHANGED <<input, i, mmu_t, mem, args, sp, a1>>
        /\ ctl = "open" /\ ctl' = "load"
      BY <1>1 DEF load_ehdr
  <2> QED
      BY <1>1, <2>1
         DEF IndInv, TypeOK, HostCoversGuest, HeapIsMappedExactly, InUse, Nothing, Setup, input, mmu_t
<1>2. ASSUME IndInv, load_ehdr \/ truncated, fatal PROVE IndInv'
    BY <1>2, FatalInv DEF load_ehdr, truncated
<1> QED
    BY <1>1, <1>2 DEF truncated

\* A program header, a segment or not, and the end of the headers.
LEMMA LoadInv == IndInv /\ (load_phdr \/ loaded) => IndInv'
<1>1. ASSUME IndInv, load_phdr PROVE IndInv'
  <2>1. CASE elf.phdrs[i + 1].type = "PT_LOAD"
      BY <1>1, <2>1, SegmentInv DEF load_phdr
  <2>2. CASE elf.phdrs[i + 1].type # "PT_LOAD"
    <3>1. /\ UNCHANGED <<mmu_t, mem, ctl>> /\ UNCHANGED <<input, args, sp, a1>>
          /\ i' = i + 1 /\ i < Len(elf.phdrs) /\ ctl = "load" /\ TypeOK
        BY <1>1, <2>2 DEF load_phdr, IndInv
    <3>3. Len(elf.phdrs) \in Nat
        BY <3>1, ElfsAssumption DEF TypeOK
    <3>4. i' \in 0 .. Len(elf.phdrs)
        BY <3>1, <3>3 DEF TypeOK
    <3> QED
        BY <1>1, <3>1, <3>4
           DEF IndInv, TypeOK, HostCoversGuest, HeapIsMappedExactly, InUse, Nothing, Setup, input, mmu_t
  <2> QED
      BY <2>1, <2>2
<1>2. ASSUME IndInv, loaded PROVE IndInv'
  <2>1. /\ UNCHANGED <<input, i, mmu_t, mem, args, sp, a1>>
        /\ ctl = "load" /\ ctl' = "stack" /\ i = Len(elf.phdrs) /\ TypeOK
      BY <1>2 DEF loaded, IndInv
  <2> QED
      BY <1>2, <2>1
         DEF IndInv, TypeOK, HostCoversGuest, HeapIsMappedExactly, InUse, Nothing, Setup, input, mmu_t
<1> QED
    BY <1>1, <1>2

\* Without a segment the run ends before anything is mapped.
LEMMA NowhereInv == IndInv /\ setup_nowhere => IndInv'
<1> SUFFICES ASSUME IndInv, setup_nowhere PROVE IndInv'
    OBVIOUS
<1>1. /\ ctl = "stack" /\ host_alloc = 0 /\ host_alloc' = 0 /\ ctl' = "crash" /\ mem' = mem
      /\ elf' = elf /\ argv' = argv /\ i' = i /\ base' = base /\ args' = args /\ a1' = a1
      /\ alloc' = alloc + STACK_SIZE /\ sp' = alloc + STACK_SIZE - 3
    BY DEF setup_nowhere, input, AUXV_SIZE, ENVP_SIZE, ARGV_END_SIZE
<1>2. STACK_SIZE \in Nat /\ STACK_SIZE >= 5
    <2>1. Len(argv) \in Nat /\ Len(argv) + 5 <= STACK_SIZE /\ STACK_SIZE \in Nat
        BY SetupAssumption DEF IndInv, TypeOK
    <2> QED
        BY <2>1
<1>3. TypeOK'
    BY <1>1, <1>2 DEF IndInv, TypeOK
<1> QED
    BY <1>1, <1>3
       DEF IndInv, HostCoversGuest, HeapIsMappedExactly, InUse, Nothing, Setup

\* The stack starts at base and ends where mmu_alloc put the guest's end.
LEMMA StackInv == IndInv /\ setup_stack => IndInv'
<1> SUFFICES ASSUME IndInv, setup_stack PROVE IndInv'
    OBVIOUS
<1>1. ctl = "stack" /\ host_alloc # 0 /\ STACK_SIZE \in Int /\ STACK_SIZE \in Nat
    BY SetupAssumption DEF setup_stack
<1>2. TypeOK /\ host_alloc # 0 /\ Books /\ MappedExactly(mem, base, host_alloc)
    BY <1>1, LoadedMachine
<1>3. CASE mmap_fails(STACK_SIZE)
    BY <1>1, <1>3, EndInv DEF mmap_fails, fatal
<1>4. CASE ~mmap_fails(STACK_SIZE)
  <2>1. /\ mmu_alloc(STACK_SIZE) /\ mem' = HostMem(STACK_SIZE)
        /\ sp' = alloc + STACK_SIZE - (AUXV_SIZE + ENVP_SIZE + ARGV_END_SIZE)
        /\ ctl' = "args" /\ UNCHANGED <<input, i, args, a1>>
      BY <1>4 DEF setup_stack
  <2>2. /\ alloc' \in Nat /\ alloc' <= Top /\ host_alloc' \in Nat /\ Aligned(host_alloc')
        /\ Books' /\ alloc' = alloc + STACK_SIZE /\ base' = base
      BY <1>1, <1>2, <2>1, AllocBooks
  <2>3. mem' \in Memory /\ MappedExactly(mem', base', host_alloc')
      BY <1>1, <1>2, <2>1, <2>2, AllocMemory
  <2>4. /\ Len(argv) + 5 <= STACK_SIZE /\ Len(argv) \in Nat
        /\ argv' = argv /\ args' = args /\ args = Len(argv)
      BY <1>1, <1>2, <2>1, SetupAssumption DEF IndInv, Setup, TypeOK, input
  <2>5. sp' = base' + STACK_SIZE - 3 - (Len(argv') - args') /\ sp' \in Nat
      BY <1>1, <1>2, <2>1, <2>2, <2>4 DEF IndInv, Setup, TypeOK, AUXV_SIZE, ENVP_SIZE, ARGV_END_SIZE
  <2>6. TypeOK'
      BY <1>2, <2>1, <2>2, <2>3, <2>5 DEF TypeOK, Memory, Aligned, input
  <2>7. Setup'
    <3>1. ctl' = "args"
        BY <1>2, <2>1 DEF TypeOK
    <3>2. alloc = base
        BY <1>1 DEF IndInv, Setup
    <3>3. base' + STACK_SIZE <= alloc'
        BY <1>1, <1>2, <2>2, <3>2 DEF TypeOK
    <3> QED
        BY <2>2, <2>5, <3>1, <3>3 DEF Setup
  <2> QED
      BY <2>2, <2>3, <2>6, <2>7, LoadedAgain
<1> QED
    BY <1>3, <1>4

\* An argument: its string lies in memory just allocated, its address on the
\* part of the stack that is still free.
LEMMA ArgInv == IndInv /\ setup_arg => IndInv'
<1> SUFFICES ASSUME IndInv, setup_arg PROVE IndInv'
    OBVIOUS
<1> DEFINE s == argv[args]
           n == Len(s) + 1
           m == HostMem(n)
<1>1. ctl = "args" /\ args > 0
    BY DEF setup_arg
<1>2. TypeOK /\ host_alloc # 0 /\ Books /\ MappedExactly(mem, base, host_alloc)
    BY <1>1, LoadedMachine
<1>3. /\ argv \in Seq(Seq(Nat)) /\ Len(argv) + 5 <= STACK_SIZE /\ Len(argv) \in Nat
      /\ args \in 1 .. Len(argv) /\ STACK_SIZE \in Nat
    BY <1>1, <1>2, SetupAssumption DEF TypeOK
<1>4. s \in Seq(Nat) /\ Len(s) \in Nat /\ n \in Int
    BY <1>3
<1>5. CASE mmap_fails(n)
    BY <1>1, <1>5, EndInv DEF mmap_fails, fatal
<1>6. CASE ~mmap_fails(n)
  <2>1. /\ mmu_alloc(n) /\ sp' = sp - 1
        /\ mem' = mmu_write(mmu_write(m, alloc, s), sp', <<alloc>>)
        /\ args' = args - 1 /\ UNCHANGED <<input, i, a1, ctl>>
      BY <1>6 DEF setup_arg
  <2> HIDE DEF s, n
  <2>2. /\ alloc' \in Nat /\ alloc' <= Top /\ host_alloc' \in Nat /\ Aligned(host_alloc')
        /\ Books' /\ alloc' = alloc + n /\ base' = base
      BY <1>2, <1>4, <2>1, AllocBooks
  <2>3. m \in Memory /\ MappedExactly(m, base, host_alloc')
      BY <1>2, <1>4, <2>1, AllocMemory
  <2> HIDE DEF m
  <2>4. TO_HOST(alloc') <= host_alloc'
    <3>1. alloc' <= ROUNDUP(alloc') /\ ROUNDUP(alloc') \in Int
        BY <2>2, RoundUp
    <3> QED
        BY <2>2, <3>1 DEF Books, TO_HOST
  <2>5. TO_HOST(alloc) + Len(s) <= host_alloc' /\ alloc \in Nat /\ base \in Nat
      BY <1>2, <1>4, <2>2, <2>4 DEF TO_HOST, n, TypeOK
  <2>6. /\ mmu_write(m, alloc, s) \in Memory
        /\ MappedExactly(mmu_write(m, alloc, s), base, host_alloc')
      BY <1>4, <2>2, <2>3, <2>5, WriteMemory
  <2>7. /\ sp' = base + STACK_SIZE - 3 - (Len(argv) - args') /\ sp' \in Nat
        /\ sp' + 1 <= alloc
      BY <1>1, <1>2, <1>3, <2>1, <2>5 DEF IndInv, Setup
  <2>8. <<alloc>> \in Seq(Nat) /\ Len(<<alloc>>) = 1
      BY <2>5
  <2>9. TO_HOST(sp') + Len(<<alloc>>) <= host_alloc'
      BY <1>4, <2>2, <2>4, <2>5, <2>7, <2>8 DEF TO_HOST, n
  <2>10. mem' \in Memory /\ MappedExactly(mem', base', host_alloc')
      BY <2>1, <2>2, <2>5, <2>6, <2>7, <2>8, <2>9, WriteMemory
  <2>11. TypeOK'
    <3>1. args' \in 0 .. Len(argv)
        BY <1>3, <2>1
    <3> QED
        BY <1>2, <2>1, <2>2, <2>7, <2>10, <3>1 DEF TypeOK, Memory, Aligned, input
  <2>12. Setup'
    <3>1. base + STACK_SIZE <= alloc'
        BY <1>1, <1>3, <1>4, <2>2, <2>5 DEF IndInv, Setup, n
    <3> QED
        BY <1>1, <1>2, <2>1, <2>2, <2>7, <3>1 DEF Setup, input
  <2> QED
      BY <2>2, <2>10, <2>11, <2>12, LoadedAgain
<1> QED
    BY <1>5, <1>6

\* The end of setup: argc, and the move of the stack down to its alignment,
\* which stays above base.
LEMMA DoneInv == IndInv /\ setup_done => IndInv'
<1> SUFFICES ASSUME IndInv, setup_done PROVE IndInv'
    OBVIOUS
<1> DEFINE sp0 == sp - ARGC_SIZE
           m == mmu_write(mem, sp0, <<Len(argv)>>)
           al == sp0 - (sp0 % 2)
           used == (base + STACK_SIZE) - sp0
           moved == [k \in 1 .. used |-> m[TO_HOST(sp0 + k - 1)]]
<1>1. /\ ctl = "args" /\ args = 0 /\ sp' = al /\ a1' = al + ARGC_SIZE
      /\ mem' = IF al # sp0 THEN MovedDown(m, al, sp0) ELSE m
      /\ ctl' = "run" /\ UNCHANGED <<input, i, mmu_t, args>>
    BY DEF setup_done
<1>2. TypeOK /\ host_alloc # 0 /\ Books /\ MappedExactly(mem, base, host_alloc)
    BY <1>1, LoadedMachine
<1>3. /\ Len(argv) + 5 <= STACK_SIZE /\ Len(argv) \in Nat /\ STACK_SIZE \in Nat
      /\ base \in Nat /\ alloc \in Nat /\ host_alloc \in Nat /\ mem \in Memory /\ Top \in Nat
    BY <1>2, SetupAssumption DEF TypeOK, Memory
<1>4. /\ sp = base + STACK_SIZE - 3 - Len(argv)
      /\ base + STACK_SIZE <= alloc /\ alloc <= Top
    BY <1>1, <1>3 DEF IndInv, Setup
<1>5. /\ sp0 \in Nat /\ base < sp0 /\ sp0 + 1 <= base + STACK_SIZE
    BY <1>3, <1>4 DEF ARGC_SIZE
<1> HIDE DEF sp0
<1>6. al \in Nat /\ base <= al /\ al <= sp0
    BY <1>3, <1>5
<1>7. TO_HOST(alloc) <= host_alloc
  <2>a. alloc \in Int
      BY <1>3
  <2>1. alloc <= ROUNDUP(alloc) /\ ROUNDUP(alloc) \in Int
      BY <2>a, RoundUp
  <2> QED
      BY <1>2, <1>3, <2>1 DEF Books, TO_HOST
<1>8. m \in Memory /\ MappedExactly(m, base, host_alloc)
  <2>1. <<Len(argv)>> \in Seq(Nat) /\ Len(<<Len(argv)>>) = 1
      BY <1>3
  <2>2. TO_HOST(sp0) + Len(<<Len(argv)>>) <= host_alloc
      BY <1>3, <1>4, <1>5, <1>7, <2>1 DEF TO_HOST
  <2> QED
      BY <1>2, <1>3, <1>5, <2>1, <2>2, WriteMemory
<1> HIDE DEF m
<1>9. \A k \in 1 .. used : m[TO_HOST(sp0 + k - 1)] \in Nat
  <2> SUFFICES ASSUME NEW k \in 1 .. used PROVE m[TO_HOST(sp0 + k - 1)] \in Nat
      OBVIOUS
  <2>1. /\ TO_HOST(sp0 + k - 1) \in HostRange
        /\ TO_HOST(sp0 + k - 1) >= TO_HOST(base) /\ TO_HOST(sp0 + k - 1) < host_alloc
      BY <1>3, <1>4, <1>5, <1>7 DEF TO_HOST, HostRange
  <2> QED
      BY <1>8, <2>1 DEF MappedExactly, Memory
<1>10. used \in Nat /\ moved \in Seq(Nat) /\ Len(moved) = used
  <2>1. used \in Nat
      BY <1>3, <1>5
  <2> HIDE DEF used
  <2> QED
      BY <1>9, <2>1
<1>11. TO_HOST(al) + Len(moved) <= host_alloc
    BY <1>3, <1>4, <1>5, <1>6, <1>7, <1>10 DEF TO_HOST
<1>12. MovedDown(m, al, sp0) = mmu_write(m, al, moved)
    BY DEF MovedDown
<1> HIDE DEF moved, used
<1>13. /\ mmu_write(m, al, moved) \in Memory
       /\ MappedExactly(mmu_write(m, al, moved), base, host_alloc)
    BY <1>3, <1>6, <1>8, <1>10, <1>11, WriteMemory
<1> HIDE DEF al
<1>14. mem' \in Memory /\ MappedExactly(mem', base', host_alloc')
    BY <1>1, <1>8, <1>12, <1>13 DEF mmu_t
<1>15. TypeOK'
    BY <1>1, <1>2, <1>6, <1>14 DEF TypeOK, Memory, input, mmu_t, ARGC_SIZE
<1>16. Setup' /\ Books'
    BY <1>1, <1>2 DEF Setup, Books, mmu_t
<1> QED
    BY <1>14, <1>15, <1>16, LoadedAgain

\* brk and the guest's stores.
LEMMA BrkInv == \A addr \in 0 .. Top : IndInv /\ sys_brk(addr) => IndInv'
<1> SUFFICES ASSUME NEW addr \in 0 .. Top, IndInv, sys_brk(addr) PROVE IndInv'
    OBVIOUS
<1> DEFINE want == IF addr = 0 THEN alloc ELSE addr
<1>1. ctl = "run"
    BY DEF sys_brk
<1>2. TypeOK /\ host_alloc # 0 /\ Books /\ MappedExactly(mem, base, host_alloc)
    BY <1>1, LoadedMachine
<1>3. want - alloc \in Int
    BY <1>2, SetupAssumption DEF TypeOK
<1>4. CASE mmap_fails(want - alloc) \/ ctl' = "abort"
    BY <1>1, <1>4, EndInv DEF mmap_fails, fatal, sys_brk
<1>5. CASE ~(mmap_fails(want - alloc) \/ ctl' = "abort")
  <2>1. /\ mmu_alloc(want - alloc) /\ mem' = HostMem(want - alloc)
        /\ UNCHANGED <<input, i, args, sp, a1, ctl>>
      BY <1>5 DEF sys_brk
  <2> HIDE DEF want
  <2>2. /\ alloc' \in Nat /\ host_alloc' \in Nat /\ Aligned(host_alloc')
        /\ Books' /\ base' = base
      BY <1>2, <1>3, <2>1, AllocBooks
  <2>3. mem' \in Memory /\ MappedExactly(mem', base', host_alloc')
      BY <1>2, <1>3, <2>1, <2>2, AllocMemory
  <2>4. TypeOK'
      BY <1>2, <2>1, <2>2, <2>3 DEF TypeOK, Memory, Aligned, input
  <2>5. Setup'
      BY <1>1, <1>2, <2>1 DEF Setup
  <2> QED
      BY <2>2, <2>3, <2>4, <2>5, LoadedAgain
<1> QED
    BY <1>4, <1>5

\* A store of the guest changes a mapped cell and nothing else.
LEMMA StoreInv == \A s \in Stores : IndInv /\ store(s[1], s[2]) => IndInv'
<1> SUFFICES ASSUME NEW s \in Stores, IndInv, store(s[1], s[2]) PROVE IndInv'
    OBVIOUS
<1> DEFINE a == s[1]
           v == s[2]
<1>1. a \in Nat /\ v \in Nat
    BY SetupAssumption
<1>2. /\ ctl = "run" /\ a < alloc /\ mem' = mmu_write(mem, a, <<v>>)
      /\ UNCHANGED <<input, i, mmu_t, args, sp, a1, ctl>>
    BY DEF store
<1> HIDE DEF a, v
<1>3. TypeOK /\ host_alloc # 0 /\ Books /\ MappedExactly(mem, base, host_alloc)
    BY <1>2, LoadedMachine
<1>4. alloc \in Nat /\ base \in Nat /\ host_alloc \in Nat /\ mem \in Memory
    BY <1>3 DEF TypeOK, Memory
<1>5. TO_HOST(a) + 1 <= host_alloc
  <2>1. alloc <= ROUNDUP(alloc) /\ ROUNDUP(alloc) \in Int
      BY <1>4, RoundUp
  <2> QED
      BY <1>1, <1>2, <1>3, <1>4, <2>1 DEF Books, TO_HOST
<1>6. <<v>> \in Seq(Nat) /\ Len(<<v>>) = 1
    BY <1>1
<1>7. mem' \in Memory /\ MappedExactly(mem', base', host_alloc')
    BY <1>1, <1>2, <1>3, <1>4, <1>5, <1>6, WriteMemory DEF mmu_t
<1>8. TypeOK' /\ Setup' /\ Books'
    BY <1>2, <1>3, <1>7 DEF TypeOK, Memory, input, mmu_t, Setup, Books
<1> QED
    BY <1>7, <1>8, LoadedAgain

\* Every step keeps the invariant.
LEMMA StepInv == IndInv /\ [Next]_vars => IndInv'
<1>1. ASSUME IndInv, UNCHANGED vars PROVE IndInv'
    BY <1>1 DEF IndInv, TypeOK, HostCoversGuest, HeapIsMappedExactly, InUse, Nothing, Setup, vars
<1>2. ASSUME IndInv, Next PROVE IndInv'
    BY <1>2, HeaderInv, LoadInv, NowhereInv, StackInv, ArgInv, DoneInv, BrkInv, StoreInv DEF Next
<1> QED
    BY <1>1, <1>2

\* The inductive invariant holds always.
LEMMA IndInvAlways == Spec => []IndInv
    BY InitInv, StepInv, PTL DEF Spec

-----------------------------------------------------------------------------
\* The memory's state keeps its types; base and host_alloc stay on page
\* boundaries.
THEOREM MmuTypeCorrect == Spec => []TypeOK
<1>1. IndInv => TypeOK
    BY DEF IndInv
<1> QED
    BY <1>1, IndInvAlways, PTL

\* The two ends that mmu_alloc keeps, the guest's and the host's, never drift
\* apart, whatever the guest asks brk for.
THEOREM EndsNeverDrift == Spec => []HostCoversGuest
<1>1. IndInv => HostCoversGuest
    BY DEF IndInv
<1> QED
    BY <1>1, IndInvAlways, PTL

\* What is mapped from base on is exactly what the books say.
THEOREM NoLeakNoHole == Spec => []HeapIsMappedExactly
<1>1. IndInv => HeapIsMappedExactly
    BY DEF IndInv
<1> QED
    BY <1>1, IndInvAlways, PTL

\* brk neither loses nor invents a cell.
THEOREM BrkIsHarmless == Spec => BrkKeepsCells
<1>1. IndInv /\ [Next]_vars => [ctl = "run" /\ alloc' # alloc => KeepsCells]_vars
  <2> SUFFICES ASSUME IndInv, Next, ctl = "run", alloc' # alloc PROVE KeepsCells
      BY DEF vars
  <2>1. TypeOK /\ host_alloc # 0 /\ Books /\ MappedExactly(mem, base, host_alloc)
      BY LoadedMachine
  <2>2. PICK addr \in 0 .. Top : sys_brk(addr)
      BY DEF Next, load_ehdr, load_phdr, truncated, fatal, loaded, setup_stack,
             setup_nowhere, setup_arg, setup_done, store, mmu_t
  <2> DEFINE want == IF addr = 0 THEN alloc ELSE addr
  <2>3. want - alloc \in Int
      BY <2>1, SetupAssumption DEF TypeOK
  <2>4. mmu_alloc(want - alloc) /\ mem' = HostMem(want - alloc)
      BY <2>2 DEF sys_brk, mmap_fails, fatal, mmu_t
  <2> HIDE DEF want
  <2>5. \A h \in HostRange :
          /\ h < TO_HOST(alloc) /\ h < TO_HOST(alloc') => mem'[h] = mem[h]
          /\ mem[h] = Unmapped => mem'[h] \in {0, Unmapped}
          /\ mem[h] # Unmapped => mem'[h] \in {mem[h], Unmapped}
      BY <2>1, <2>3, <2>4, AllocMemory
  <2> QED
      BY <2>5 DEF KeepsCells
<1> QED
    BY <1>1, IndInvAlways, PTL DEF Spec, BrkKeepsCells

-----------------------------------------------------------------------------
\* The program image.

\* A segment is in place: its bytes from the file, and the pages after them.
InPlace(ph) ==
    \A k \in 0 .. ph.memsz - 1 :
        LET h == TO_HOST(ph.vaddr + k) IN
        /\ k < ph.filesz => mem[h] = FileByte(ph.offset + k)
        /\ h >= ROUNDUP(TO_HOST(ph.vaddr + ph.filesz)) => mem[h] = 0

\* Until the stack is taken, the segments handled so far are in place.
Image ==
    /\ ctl = "open" => i = 0
    /\ ctl = "stack" => i = Len(elf.phdrs)
    /\ ctl \in {"load", "stack"} =>
          \A n \in 1 .. i : elf.phdrs[n].type = "PT_LOAD" => InPlace(elf.phdrs[n])

\* No other page boundary is within a page below an address.
LEMMA RoundDownIsUnique ==
    ASSUME NEW x \in Int, NEW y \in Int, Aligned(y), y <= x, x < y + page_size
    PROVE  y = ROUNDDOWN(x)
<1>1. /\ ROUNDDOWN(x) \in Int /\ Aligned(ROUNDDOWN(x))
      /\ ROUNDDOWN(x) <= x /\ x < ROUNDDOWN(x) + page_size
    BY RoundDown
<1>2. y <= ROUNDDOWN(x) /\ ROUNDDOWN(x) <= y
    BY <1>1, AlignedGap
<1> QED
    BY <1>1, <1>2

\* Rounding commutes with moving by whole pages.
LEMMA RoundShift ==
    ASSUME NEW x \in Int, NEW d \in Int, Aligned(d)
    PROVE  ROUNDUP(x + d) = ROUNDUP(x) + d /\ ROUNDDOWN(x + d) = ROUNDDOWN(x) + d
<1>1. /\ ROUNDUP(x) \in Int /\ Aligned(ROUNDUP(x))
      /\ x <= ROUNDUP(x) /\ ROUNDUP(x) < x + page_size
    BY RoundUp
<1>2. /\ ROUNDDOWN(x) \in Int /\ Aligned(ROUNDDOWN(x))
      /\ ROUNDDOWN(x) <= x /\ x < ROUNDDOWN(x) + page_size
    BY RoundDown
<1>3. PICK u \in Int : u = ROUNDUP(x)
    BY <1>1
<1>4. PICK v \in Int : v = ROUNDDOWN(x)
    BY <1>2
<1>5. Aligned(u + d) /\ Aligned(v + d)
    BY <1>1, <1>2, <1>3, <1>4, AlignedSum
<1>6. /\ x + d <= u + d /\ u + d < (x + d) + page_size
      /\ v + d <= x + d /\ x + d < (v + d) + page_size
    BY <1>1, <1>2, <1>3, <1>4
<1>7. u + d = ROUNDUP(x + d)
    BY <1>5, <1>6, RoundUpIsUnique
<1>8. v + d = ROUNDDOWN(x + d)
    BY <1>5, <1>6, RoundDownIsUnique
<1> QED
    BY <1>3, <1>4, <1>7, <1>8

\* Numbers with the same place in their page are equally far from its start.
LEMMA SamePlace ==
    ASSUME NEW x \in Int, NEW y \in Int, x % page_size = y % page_size
    PROVE  x - ROUNDDOWN(x) = y - ROUNDDOWN(y)
<1>1. x - ROUNDDOWN(x) = x % page_size
    <2>1. PICK q \in Int : q = x \div page_size
        OBVIOUS
    <2>2. x = page_size * q + (x % page_size) /\ (x % page_size) \in Int
        BY <2>1
    <2>3. q * page_size = page_size * q /\ page_size * q \in Int
        OBVIOUS
    <2> QED
        BY <2>1, <2>2, <2>3 DEF ROUNDDOWN
<1>2. y - ROUNDDOWN(y) = y % page_size
    <2>1. PICK q \in Int : q = y \div page_size
        OBVIOUS
    <2>2. y = page_size * q + (y % page_size) /\ (y % page_size) \in Int
        BY <2>1
    <2>3. q * page_size = page_size * q /\ page_size * q \in Int
        OBVIOUS
    <2> QED
        BY <2>1, <2>2, <2>3 DEF ROUNDDOWN
<1> QED
    BY <1>1, <1>2

\* The pages mmu_load_segment maps, in guest addresses.
LEMMA SegmentPages ==
    ASSUME NEW ph \in Phdr
    PROVE  LET aligned == ROUNDDOWN(TO_HOST(ph.vaddr))
               off == TO_HOST(ph.vaddr) - aligned
           IN  /\ aligned = TO_HOST(ROUNDDOWN(ph.vaddr)) /\ off \in Nat
               /\ aligned + ROUNDUP(ph.memsz + off) = TO_HOST(ROUNDUP(ph.vaddr + ph.memsz))
               /\ aligned + ROUNDUP(ph.filesz + off) = ROUNDUP(TO_HOST(ph.vaddr + ph.filesz))
               /\ ROUNDDOWN(ph.vaddr) \in Nat /\ ROUNDUP(ph.vaddr + ph.memsz) \in Int
<1>1. PICK v \in Nat, f \in Nat, m \in Nat, g \in Nat :
        v = ph.vaddr /\ f = ph.filesz /\ m = ph.memsz /\ g = GUEST_MEMORY_OFFSET
    BY DEF Phdr
<1>2. Aligned(g) /\ TO_HOST(v) = v + g /\ TO_HOST(v + f) = (v + f) + g
    BY <1>1, OffsetIsAligned DEF TO_HOST
<1>3. ROUNDDOWN(v + g) = ROUNDDOWN(v) + g
    BY <1>2, RoundShift
<1>4. /\ ROUNDDOWN(v) \in Int /\ Aligned(ROUNDDOWN(v))
      /\ ROUNDDOWN(v) <= v /\ v < ROUNDDOWN(v) + page_size
    BY RoundDown
<1>5. PICK r \in Int : r = ROUNDDOWN(v)
    BY <1>4
<1>6. r >= 0
    <2>1. Aligned(0)
        BY DEF Aligned
    <2> QED
        BY <1>4, <1>5, <2>1, AlignedGap
<1>7. PICK off \in Int : off = v - r
    BY <1>5
<1>8. off \in Nat /\ (v + g) - (r + g) = off /\ Aligned(r)
    BY <1>4, <1>5, <1>7
<1>9. ROUNDUP(v + m) = ROUNDUP(m + off) + r
    <2>1. (m + off) + r = v + m /\ m + off \in Int
        BY <1>7
    <2>2. ROUNDUP((m + off) + r) = ROUNDUP(m + off) + r
        BY <1>8, <2>1, RoundShift
    <2> QED
        BY <2>1, <2>2
<1>10. Aligned(r + g)
    BY <1>2, <1>8, AlignedSum
<1>11. ROUNDUP((v + f) + g) = ROUNDUP(f + off) + (r + g)
    <2>1. (f + off) + (r + g) = (v + f) + g /\ f + off \in Int /\ r + g \in Int
        BY <1>7
    <2>2. ROUNDUP((f + off) + (r + g)) = ROUNDUP(f + off) + (r + g)
        BY <1>10, <2>1, RoundShift
    <2> QED
        BY <2>1, <2>2
<1>12. ROUNDUP(m + off) \in Int /\ ROUNDUP(f + off) \in Int /\ ROUNDUP(v + m) \in Int
    BY <1>7, RoundUp
<1>13. PICK um \in Int, uf \in Int, u \in Int :
          um = ROUNDUP(m + off) /\ uf = ROUNDUP(f + off) /\ u = ROUNDUP(v + m)
    BY <1>12
<1>14. (r + g) + um = u + g /\ (r + g) + uf = ROUNDUP((v + f) + g)
    BY <1>9, <1>11, <1>13
<1> QED
    BY <1>1, <1>2, <1>3, <1>5, <1>6, <1>8, <1>12, <1>13, <1>14 DEF TO_HOST

\* A segment is in place once mmu_load_segment has returned.
LEMMA SegmentIsPlaced ==
    ASSUME NEW ph \in Phdr, ph.offset % page_size = ph.vaddr % page_size,
           ROUNDUP(ph.vaddr + ph.memsz) <= Top,
           mmu_load_segment(ph), ctl' # "abort", elf' = elf
    PROVE  /\ \A h \in HostRange :
                ~(/\ h >= TO_HOST(ROUNDDOWN(ph.vaddr))
                  /\ h < TO_HOST(ROUNDUP(ph.vaddr + ph.memsz)))
                => mem'[h] = mem[h]
           /\ InPlace(ph)'
<1>5. PICK v \in Nat, f \in Nat, m \in Nat, o \in Nat, g \in Nat :
        /\ v = ph.vaddr /\ f = ph.filesz /\ m = ph.memsz /\ o = ph.offset
        /\ g = GUEST_MEMORY_OFFSET
    BY DEF Phdr
<1>6. PICK al \in Int : al = ROUNDDOWN(TO_HOST(v))
    BY <1>5, RoundDown DEF TO_HOST
<1>7. PICK off \in Int : off = TO_HOST(v) - al
    BY <1>5, <1>6 DEF TO_HOST
<1>8. PICK fe : fe = al + ROUNDUP(f + off)
    OBVIOUS
<1>9. PICK me : me = al + ROUNDUP(m + off)
    OBVIOUS
<1>10. /\ al = TO_HOST(ROUNDDOWN(v)) /\ off \in Nat
       /\ me = TO_HOST(ROUNDUP(v + m)) /\ fe = ROUNDUP(TO_HOST(v + f))
       /\ ROUNDDOWN(v) \in Nat /\ ROUNDUP(v + m) \in Int
    BY <1>5, <1>6, <1>7, <1>8, <1>9, SegmentPages
<1>11. mem' = [h \in HostRange |->
                 IF h \in al .. fe - 1 THEN FileByte(FileOffset(ph) + (h - al))
                 ELSE IF h \in fe .. me - 1 THEN 0 ELSE mem[h]]
    BY <1>5, <1>6, <1>7, <1>8, <1>9 DEF mmu_load_segment
<1>12. fe \in Int /\ me \in Int /\ fe <= me
    <2>1. fe \in Int /\ me \in Int
        BY <1>5, <1>6, <1>7, <1>8, <1>9, SegmentEnds
    <2>2. ~(me < fe)
        BY <1>5, <1>6, <1>7, <1>8, <1>9 DEF mmu_load_segment
    <2> QED
        BY <2>1, <2>2
<1>13. v + f + g <= fe /\ v + m <= ROUNDUP(v + m)
    <2>1. v + f + g \in Int /\ v + m \in Int /\ TO_HOST(v + f) = v + f + g
        BY <1>5 DEF TO_HOST
    <2> QED
        BY <1>10, <2>1, RoundUp
<1>a. al + off = v + g /\ al <= v + g /\ al <= fe
    BY <1>5, <1>6, <1>7, <1>10, <1>12, <1>13 DEF TO_HOST
<1>b. HostRange = g .. g + Top - 1 /\ Top \in Int
    BY <1>5, SetupAssumption DEF HostRange
<1>14. ASSUME NEW h \in HostRange, ~(h >= al /\ h < me)
       PROVE  mem'[h] = mem[h]
    <2>1. h \in Int
        BY <1>b
    <2>2. h \notin al .. fe - 1 /\ h \notin fe .. me - 1
        BY <1>a, <1>6, <1>12, <1>14, <2>1
    <2> QED
        BY <1>11, <2>2
<1>15. o - ROUNDDOWN(o) = off /\ ROUNDDOWN(o) \in Int
    <2>1. v - ROUNDDOWN(v) = off
        BY <1>5, <1>7, <1>10 DEF TO_HOST
    <2>2. o - ROUNDDOWN(o) = v - ROUNDDOWN(v)
        BY <1>5, SamePlace
    <2> QED
        BY <2>1, <2>2, RoundDown
<1>16. ASSUME NEW k \in 0 .. m - 1
       PROVE  /\ k < f => mem'[TO_HOST(v + k)] = FileByte(o + k)
              /\ TO_HOST(v + k) >= fe => mem'[TO_HOST(v + k)] = 0
    <2>1. PICK h \in Int : h = v + k + g
        BY <1>5
    <2>a. h = TO_HOST(v + k)
        BY <1>5, <2>1 DEF TO_HOST
    <2>b. PICK u \in Int : u = ROUNDUP(v + m) /\ me = u + g /\ u <= Top /\ v + m <= u
        BY <1>5, <1>10, <1>13 DEF TO_HOST
    <2>2. h = TO_HOST(v + k) /\ h >= al /\ h < me /\ h \in HostRange
        BY <1>a, <1>b, <2>1, <2>a, <2>b
    <2>3. CASE k < f
        <3>1. h < fe
            BY <1>5, <1>12, <1>13, <2>1, <2>3
        <3>2. mem'[h] = FileByte(FileOffset(ph) + (h - al))
            BY <1>6, <1>11, <1>12, <2>2, <3>1
        <3>3. FileOffset(ph) = ROUNDDOWN(o)
            BY <1>5 DEF FileOffset
        <3>4. ROUNDDOWN(o) + (h - al) = o + k
            <4>1. PICK r \in Int : r = ROUNDDOWN(o)
                BY <1>15
            <4>2. o - r = off /\ h - al = off + k
                BY <1>15, <1>a, <2>1, <4>1
            <4>3. PICK d \in Int, kk \in Int : d = h - al /\ kk = k
                OBVIOUS
            <4>4. r + d = o + kk
                BY <4>2, <4>3
            <4> QED
                BY <4>1, <4>3, <4>4
        <3> QED
            BY <1>5, <1>12, <2>1, <2>2, <3>1, <3>2, <3>3, <3>4
    <2>4. CASE ~(k < f)
        <3>1. h >= fe => mem'[h] = 0
            BY <1>6, <1>11, <1>12, <2>1, <2>2
        <3> QED
            BY <2>2, <2>4, <3>1
    <2> QED
        BY <2>3, <2>4
<1>17. InPlace(ph)'
    BY <1>5, <1>10, <1>16 DEF InPlace, FileByte
<1>18. \A h \in HostRange :
          ~(h >= TO_HOST(ROUNDDOWN(ph.vaddr)) /\ h < TO_HOST(ROUNDUP(ph.vaddr + ph.memsz)))
          => mem'[h] = mem[h]
    BY <1>5, <1>10, <1>14
<1> QED
    BY <1>17, <1>18

\* Mapping other pages leaves a segment in place.
LEMMA OthersStayInPlace ==
    ASSUME NEW ph \in Phdr, InPlace(ph), elf' = elf, ROUNDUP(ph.vaddr + ph.memsz) <= Top,
           NEW lo \in Int, NEW hi \in Int,
           \A h \in HostRange : ~(h >= TO_HOST(lo) /\ h < TO_HOST(hi)) => mem'[h] = mem[h],
           hi <= ROUNDDOWN(ph.vaddr) \/ ROUNDUP(ph.vaddr + ph.memsz) <= lo
    PROVE  InPlace(ph)'
<1>1. PICK v \in Nat, m \in Nat, g \in Nat :
        v = ph.vaddr /\ m = ph.memsz /\ g = GUEST_MEMORY_OFFSET
    BY DEF Phdr
<1>2. PICK r \in Int : r = ROUNDDOWN(v) /\ r <= v
    BY RoundDown
<1>3. v + m \in Int
    OBVIOUS
<1>4. PICK u \in Int : u = ROUNDUP(v + m) /\ v + m <= u
    BY <1>3, RoundUp
<1>5. u <= Top /\ (hi <= r \/ u <= lo)
    BY <1>1, <1>2, <1>4
<1>6. HostRange = g .. g + Top - 1 /\ Top \in Int
    BY <1>1, SetupAssumption DEF HostRange
<1>7. ASSUME NEW k \in 0 .. m - 1
      PROVE  mem'[TO_HOST(v + k)] = mem[TO_HOST(v + k)]
    <2>1. PICK h \in Int : h = v + k + g
        OBVIOUS
    <2>2. h \in HostRange /\ ~(h >= lo + g /\ h < hi + g)
        BY <1>2, <1>4, <1>5, <1>6, <2>1
    <2>3. TO_HOST(v + k) = h /\ TO_HOST(lo) = lo + g /\ TO_HOST(hi) = hi + g
        BY <1>1, <2>1 DEF TO_HOST
    <2> QED
        BY <2>2, <2>3
<1> QED
    BY <1>1, <1>7 DEF InPlace, FileByte

\* mmu_load_elf: a segment stays as it was loaded while the others follow.
LEMMA LoadImage ==
    ASSUME IndInv, Image, load_phdr
    PROVE  Image'
<1>1. /\ ctl = "load" /\ i < Len(elf.phdrs) /\ i' = i + 1 /\ elf' = elf
    BY DEF load_phdr, input
<1>2. /\ elf \in Elfs /\ i \in Nat /\ elf.phdrs \in Seq(Phdr) /\ Len(elf.phdrs) \in Nat
    BY ElfsAssumption DEF IndInv, TypeOK
<1>3. ctl' \in {"load", "abort"}
    BY <1>1 DEF load_phdr, mmu_load_segment
<1>4. \A n \in 1 .. i : elf.phdrs[n].type = "PT_LOAD" => InPlace(elf.phdrs[n])
    BY <1>1 DEF Image
<1>5. PICK e : e = elf
    OBVIOUS
<1>6. CASE e.phdrs[i + 1].type # "PT_LOAD"
    <2>1. mem' = mem
        BY <1>5, <1>6 DEF load_phdr
    <2>2. \A n \in 1 .. i + 1 : e.phdrs[n].type = "PT_LOAD" => InPlace(e.phdrs[n])
        BY <1>2, <1>4, <1>5, <1>6
    <2>3. \A n \in 1 .. i' : e.phdrs[n].type = "PT_LOAD" => InPlace(e.phdrs[n])'
        BY <1>1, <2>1, <2>2 DEF InPlace, FileByte
    <2> QED
        BY <1>1, <1>3, <1>5, <2>3 DEF Image
<1>7. CASE e.phdrs[i + 1].type = "PT_LOAD" /\ ctl' = "abort"
    BY <1>7 DEF Image
<1>8. CASE e.phdrs[i + 1].type = "PT_LOAD" /\ ctl' # "abort"
    <2>1. PICK ph : ph = e.phdrs[i + 1]
        OBVIOUS
    <2>2. i + 1 \in 1 .. Len(e.phdrs)
        BY <1>1, <1>2, <1>5
    <2>3. /\ ph \in Phdr
          /\ ph.offset % page_size = ph.vaddr % page_size
          /\ ROUNDUP(ph.vaddr + ph.memsz) <= Top
          /\ \A k \in 1 .. i : e.phdrs[k].type = "PT_LOAD" =>
                \/ ROUNDUP(ph.vaddr + ph.memsz) <= ROUNDDOWN(e.phdrs[k].vaddr)
                \/ ROUNDUP(e.phdrs[k].vaddr + e.phdrs[k].memsz) <= ROUNDDOWN(ph.vaddr)
        <3>1. ph \in Phdr
            BY <1>2, <1>5, <2>1, <2>2
        <3>2. \A k \in 1 .. i : k \in 1 .. (i + 1) - 1
            BY <1>2
        <3> QED
            BY <1>2, <1>5, <1>8, <2>1, <2>2, <3>1, <3>2, SegmentsAssumption
    <2>4. mmu_load_segment(ph)
        BY <1>5, <1>8, <2>1 DEF load_phdr
    <2>5. /\ \A h \in HostRange :
                ~(/\ h >= TO_HOST(ROUNDDOWN(ph.vaddr))
                  /\ h < TO_HOST(ROUNDUP(ph.vaddr + ph.memsz)))
                => mem'[h] = mem[h]
          /\ InPlace(ph)'
        BY <1>1, <1>8, <2>3, <2>4, SegmentIsPlaced
    <2>6. ROUNDDOWN(ph.vaddr) \in Int /\ ROUNDUP(ph.vaddr + ph.memsz) \in Int
        <3>1. ph.vaddr \in Int /\ ph.vaddr + ph.memsz \in Int
            BY <2>3 DEF Phdr
        <3> QED
            BY <3>1, RoundDown, RoundUp
    <2>7. ASSUME NEW n \in 1 .. i, e.phdrs[n].type = "PT_LOAD"
          PROVE  InPlace(e.phdrs[n])'
        <3>1. PICK pn : pn = e.phdrs[n]
            OBVIOUS
        <3>2. n \in 1 .. Len(e.phdrs)
            BY <1>2, <2>2
        <3>3. pn \in Phdr /\ InPlace(pn)
            BY <1>2, <1>4, <1>5, <2>7, <3>1, <3>2
        <3>4. ROUNDUP(pn.vaddr + pn.memsz) <= Top
            BY <1>2, <1>5, <2>7, <3>1, <3>2, SegmentsAssumption
        <3>5. \/ ROUNDUP(ph.vaddr + ph.memsz) <= ROUNDDOWN(pn.vaddr)
              \/ ROUNDUP(pn.vaddr + pn.memsz) <= ROUNDDOWN(ph.vaddr)
            BY <2>3, <2>7, <3>1
        <3>6. InPlace(pn)'
            BY <1>1, <2>5, <2>6, <3>3, <3>4, <3>5, OthersStayInPlace
        <3> QED
            BY <3>1, <3>6
    <2>8. \A n \in 1 .. i' : e.phdrs[n].type = "PT_LOAD" => InPlace(e.phdrs[n])'
        <3>1. \A n \in 1 .. i' : n \in 1 .. i \/ n = i + 1
            BY <1>1, <1>2
        <3> QED
            BY <2>1, <2>5, <2>7, <3>1
    <2> QED
        BY <1>1, <1>3, <1>5, <2>8 DEF Image
<1> QED
    BY <1>6, <1>7, <1>8

\* The segments loaded so far stay in place.
LEMMA ImageAlways == Spec => []Image
<1>1. Init => Image
    BY DEF Init, Image
<1>2. IndInv /\ Image /\ [Next]_vars => Image'
    <2> SUFFICES ASSUME IndInv, Image, [Next]_vars PROVE Image'
        OBVIOUS
    <2>1. CASE load_ehdr
        BY <2>1 DEF load_ehdr, fatal, Image
    <2>2. CASE load_phdr
        BY <2>2, LoadImage
    <2>3. CASE truncated
        BY <2>3 DEF truncated, fatal, Image
    <2>4. CASE loaded
        BY <2>4 DEF loaded, Image, InPlace, FileByte, input
    <2>5. CASE setup_stack \/ setup_nowhere \/ setup_arg \/ setup_done
        BY <2>5 DEF setup_stack, setup_nowhere, setup_arg, setup_done, mmap_fails, fatal, Image
    <2>6. ASSUME NEW addr \in 0 .. Top, sys_brk(addr) PROVE Image'
        BY <2>6 DEF sys_brk, mmap_fails, fatal, Image
    <2>7. ASSUME NEW s \in Stores, store(s[1], s[2]) PROVE Image'
        BY <2>7 DEF store, Image
    <2>8. CASE UNCHANGED vars
        BY <2>8 DEF vars, Image, InPlace, FileByte
    <2> QED
        BY <2>1, <2>2, <2>3, <2>4, <2>5, <2>6, <2>7, <2>8 DEF Next
<1> QED
    BY <1>1, <1>2, IndInvAlways, PTL DEF Spec

\* When mmu_load_elf (mmu.c:66-105) has returned, every segment of the program
\* is where its header says, whatever the number and order of the headers.
THEOREM ProgramIsLoaded == Spec => []ImageIsLoaded
<1>1. IndInv /\ Image => ImageIsLoaded
    <2> SUFFICES ASSUME IndInv, Image, ctl = "stack" PROVE \A ph \in Loaded(elf) : InPlace(ph)
        BY DEF ImageIsLoaded, InPlace
    <2>1. \A n \in 1 .. i : elf.phdrs[n].type = "PT_LOAD" => InPlace(elf.phdrs[n])
        BY DEF Image
    <2>2. i = Len(elf.phdrs)
        BY DEF Image
    <2> QED
        BY <2>1, <2>2 DEF Loaded
<1> QED
    BY <1>1, IndInvAlways, ImageAlways, PTL

-----------------------------------------------------------------------------
\* The command line.

\* The guest address of the cell for the address of argument k.
ArgCell(k) == (base + STACK_SIZE - 3 - Len(argv)) + (k - 1)

\* Argument k is complete: its address is on the stack, and its string, with
\* the terminator, lies above the stack.
IsPushed(k) ==
    LET p == mem[TO_HOST(ArgCell(k))] IN
    /\ p \in Nat /\ base + STACK_SIZE <= p /\ p + Len(argv[k]) < alloc
    /\ StringAt(p, argv[k])

\* While the arguments are pushed: the terminators are in place, so are the
\* arguments handled so far, and mapped memory beyond the guest's end is zero,
\* as the terminators of the strings to come need it.
Pushing ==
    ctl = "args" =>
        /\ \A k \in 1 .. 3 : mem[TO_HOST(base + STACK_SIZE - k)] = 0
        /\ \A k \in args + 1 .. Len(argv) : IsPushed(k)
        /\ \A a \in 0 .. Top - 1 : a >= alloc /\ TO_HOST(a) < host_alloc => mem[TO_HOST(a)] = 0

\* What mmu_write leaves in a cell of the string and in another one.
LEMMA WriteInside ==
    ASSUME NEW m, NEW a \in Nat, NEW s \in Seq(Nat), NEW b \in 0 .. Top - 1,
           NEW k \in 1 .. Len(s), b = a + k - 1
    PROVE  mmu_write(m, a, s)[TO_HOST(b)] = s[k]
<1>1. PICK n \in Nat, g \in Nat : n = Len(s) /\ g = GUEST_MEMORY_OFFSET
    OBVIOUS
<1>2. b \in Nat /\ Top \in Nat /\ TO_HOST(b) = b + g /\ TO_HOST(a) = a + g
    BY <1>1, SetupAssumption DEF TO_HOST
<1>3. TO_HOST(b) \in HostRange
    BY <1>1, <1>2 DEF HostRange
<1>4. mmu_write(m, a, s)[b + g] = IF b + g \in a + g .. a + g + n - 1
                                  THEN s[b + g - (a + g) + 1] ELSE m[b + g]
    BY <1>1, <1>2, <1>3 DEF mmu_write
<1>5. b + g \in a + g .. a + g + n - 1 /\ b + g - (a + g) + 1 = k
    BY <1>1, <1>2
<1> QED
    BY <1>2, <1>4, <1>5

\* mmu_write leaves the other cells alone.
LEMMA WriteOutside ==
    ASSUME NEW m, NEW a \in Nat, NEW s \in Seq(Nat), NEW b \in 0 .. Top - 1,
           b < a \/ b >= a + Len(s)
    PROVE  mmu_write(m, a, s)[TO_HOST(b)] = m[TO_HOST(b)]
<1>1. PICK n \in Nat, g \in Nat : n = Len(s) /\ g = GUEST_MEMORY_OFFSET
    OBVIOUS
<1>2. b \in Nat /\ Top \in Nat /\ TO_HOST(b) = b + g /\ TO_HOST(a) = a + g
    BY <1>1, SetupAssumption DEF TO_HOST
<1>3. TO_HOST(b) \in HostRange
    BY <1>1, <1>2 DEF HostRange
<1>4. mmu_write(m, a, s)[b + g] = IF b + g \in a + g .. a + g + n - 1
                                  THEN s[b + g - (a + g) + 1] ELSE m[b + g]
    BY <1>1, <1>2, <1>3 DEF mmu_write
<1>5. b + g \notin a + g .. a + g + n - 1
    BY <1>1, <1>2
<1> QED
    BY <1>2, <1>4, <1>5

\* New memory is zero: mmu_alloc's new pages, and the rest of the last page.
LEMMA AllocIsClean ==
    ASSUME TypeOK, Books, MappedExactly(mem, base, host_alloc), NEW size \in Nat,
           mmu_alloc(size),
           \A a \in 0 .. Top - 1 : a >= alloc /\ TO_HOST(a) < host_alloc => mem[TO_HOST(a)] = 0,
           NEW a \in 0 .. Top - 1
    PROVE  /\ a < alloc => HostMem(size)[TO_HOST(a)] = mem[TO_HOST(a)]
           /\ a >= alloc /\ TO_HOST(a) < host_alloc' => HostMem(size)[TO_HOST(a)] = 0
<1>1. /\ MappedExactly(HostMem(size), base, host_alloc')
      /\ \A h \in HostRange :
           /\ h < TO_HOST(alloc) /\ h < TO_HOST(alloc') => HostMem(size)[h] = mem[h]
           /\ mem[h] = Unmapped => HostMem(size)[h] \in {0, Unmapped}
           /\ mem[h] # Unmapped => HostMem(size)[h] \in {mem[h], Unmapped}
    BY AllocMemory
<1>2. alloc \in Nat /\ alloc' = alloc + size /\ base \in Nat /\ base <= alloc /\ host_alloc \in Nat
    BY AllocBooks DEF TypeOK, Books
<1>3. PICK g \in Nat : g = GUEST_MEMORY_OFFSET
    OBVIOUS
<1>4. a \in Nat /\ TO_HOST(a) = a + g /\ TO_HOST(alloc) = alloc + g /\ TO_HOST(base) = base + g
      /\ TO_HOST(alloc') = alloc + size + g
    BY <1>2, <1>3, SetupAssumption DEF TO_HOST
<1>5. TO_HOST(a) \in HostRange
    BY <1>3, <1>4, SetupAssumption DEF HostRange
<1>6. CASE a < alloc
    <2>1. TO_HOST(a) < TO_HOST(alloc) /\ TO_HOST(a) < TO_HOST(alloc')
        BY <1>2, <1>4, <1>6
    <2> QED
        BY <1>1, <1>2, <1>4, <1>5, <1>6, <2>1
<1>7. CASE ~(a < alloc)
    <2> SUFFICES ASSUME TO_HOST(a) < host_alloc' PROVE HostMem(size)[TO_HOST(a)] = 0
        BY <1>7
    <2>1. a >= alloc /\ TO_HOST(a) >= TO_HOST(base)
        BY <1>2, <1>4, <1>7
    <2>2. HostMem(size)[TO_HOST(a)] # Unmapped
        BY <1>1, <1>5, <2>1 DEF MappedExactly
    <2>3. CASE mem[TO_HOST(a)] = Unmapped
        BY <1>1, <1>5, <2>2, <2>3
    <2>4. CASE mem[TO_HOST(a)] # Unmapped
        <3>1. TO_HOST(a) < host_alloc
            BY <1>5, <2>1, <2>4 DEF MappedExactly
        <3>2. mem[TO_HOST(a)] = 0
            BY <2>1, <3>1
        <3> QED
            BY <1>1, <1>5, <2>2, <2>4, <3>2
    <2> QED
        BY <2>3, <2>4
<1> QED
    BY <1>6, <1>7

\* The stack is taken from fresh pages, so its terminators are there already.
LEMMA StackPushing ==
    ASSUME IndInv, setup_stack
    PROVE  Pushing'
<1>1. ctl = "stack" /\ host_alloc # 0 /\ STACK_SIZE \in Nat
    BY SetupAssumption DEF setup_stack
<1>2. TypeOK /\ Books /\ MappedExactly(mem, base, host_alloc) /\ alloc = base /\ args = Len(argv)
    BY <1>1, LoadedMachine DEF IndInv, Setup
<1>3. CASE ctl' # "args"
    BY <1>3 DEF Pushing
<1>4. CASE ctl' = "args"
    <2>1. /\ mmu_alloc(STACK_SIZE) /\ mem' = HostMem(STACK_SIZE) /\ UNCHANGED <<input, args>>
        BY <1>4 DEF setup_stack, mmap_fails, fatal
    <2>2. base' = base /\ alloc' = alloc + STACK_SIZE /\ alloc' <= Top /\ Books' /\ alloc' \in Nat
        BY <1>1, <1>2, <2>1, AllocBooks
    <2>3. /\ base \in Nat /\ alloc \in Nat /\ Len(argv) \in Nat /\ Len(argv) + 5 <= STACK_SIZE
          /\ base % page_size = 0 /\ Top \in Nat
        BY <1>2, SetupAssumption DEF TypeOK
    <2>4. host_alloc = TO_HOST(base)
        <3>1. base = ROUNDUP(base)
            BY <2>3, RoundUpIsUnique DEF Aligned
        <3> QED
            BY <1>2, <3>1 DEF Books
    <2>5. \A a \in 0 .. Top - 1 : a >= alloc /\ TO_HOST(a) < host_alloc => mem[TO_HOST(a)] = 0
        BY <1>2, <2>3, <2>4 DEF TO_HOST
    <2>6. \A a \in 0 .. Top - 1 : a >= alloc /\ TO_HOST(a) < host_alloc' => mem'[TO_HOST(a)] = 0
        BY <1>1, <1>2, <2>1, <2>5, AllocIsClean
    <2>7. PICK u \in Int : u = ROUNDUP(alloc') /\ alloc' <= u
        BY <2>2, RoundUp
    <2>8. host_alloc' = u + GUEST_MEMORY_OFFSET
        BY <2>2, <2>7 DEF Books, TO_HOST
    <2>9. ASSUME NEW k \in 1 .. 3
          PROVE  mem'[TO_HOST(base' + STACK_SIZE - k)] = 0
        <3>1. PICK a \in Int : a = base + STACK_SIZE - k
            BY <1>1, <2>3
        <3>2. a \in 0 .. Top - 1 /\ a >= alloc /\ a < alloc'
            BY <1>1, <1>2, <2>2, <2>3, <3>1
        <3>3. TO_HOST(a) < host_alloc'
            BY <2>2, <2>7, <2>8, <3>1, <3>2 DEF TO_HOST
        <3> QED
            BY <2>2, <2>6, <3>1, <3>2, <3>3
    <2>10. \A k \in args' + 1 .. Len(argv') : FALSE
        BY <1>2, <2>1, <2>3 DEF input
    <2>11. \A a \in 0 .. Top - 1 : a >= alloc' /\ TO_HOST(a) < host_alloc' => mem'[TO_HOST(a)] = 0
        BY <1>1, <2>2, <2>3, <2>6
    <2> QED
        BY <2>9, <2>10, <2>11 DEF Pushing
<1> QED
    BY <1>3, <1>4

\* What memory holds after an argument has been pushed.
LEMMA ArgMemory ==
    ASSUME IndInv, Pushing, setup_arg, ctl' = "args", NEW s, s = argv[args]
    PROVE  /\ base' = base /\ argv' = argv /\ args' = args - 1 /\ args \in 1 .. Len(argv)
           /\ s \in Seq(Nat) /\ alloc' = alloc + Len(s) + 1 /\ alloc' <= Top /\ alloc \in Nat
           /\ sp' = ArgCell(args) /\ sp' \in Nat
           /\ TO_HOST(alloc') <= host_alloc' /\ host_alloc' \in Nat
           /\ \A a \in 0 .. Top - 1 :
                TO_HOST(a) < host_alloc' =>
                    mem'[TO_HOST(a)] = IF a = sp' THEN alloc
                                       ELSE IF a < alloc THEN mem[TO_HOST(a)]
                                       ELSE IF a < alloc + Len(s) THEN s[a - alloc + 1]
                                       ELSE 0
<1>1. ctl = "args" /\ args > 0
    BY DEF setup_arg
<1>2. TypeOK /\ Books /\ MappedExactly(mem, base, host_alloc)
    BY <1>1, LoadedMachine
<1>3. /\ argv \in Seq(Seq(Nat)) /\ Len(argv) + 5 <= STACK_SIZE /\ Len(argv) \in Nat
      /\ args \in 1 .. Len(argv) /\ STACK_SIZE \in Nat /\ base \in Nat /\ alloc \in Nat
    BY <1>1, <1>2, SetupAssumption DEF TypeOK
<1>4. s = argv[args] /\ s \in Seq(Nat)
    BY <1>3
<1>5. PICK n \in Nat : n = Len(s)
    BY <1>4
<1>6. /\ mmu_alloc(n + 1) /\ sp' = sp - 1
      /\ mem' = mmu_write(mmu_write(HostMem(n + 1), alloc, s), sp', <<alloc>>)
      /\ args' = args - 1 /\ argv' = argv
    BY <1>4, <1>5 DEF setup_arg, mmap_fails, fatal, input
<1>7. /\ alloc' \in Nat /\ alloc' <= Top /\ host_alloc' \in Nat /\ Books'
      /\ alloc' = alloc + (n + 1) /\ base' = base
    BY <1>2, <1>5, <1>6, AllocBooks
<1>8. TO_HOST(alloc') <= host_alloc'
    <2>1. alloc' <= ROUNDUP(alloc') /\ ROUNDUP(alloc') \in Int
        BY <1>7, RoundUp
    <2> QED
        BY <1>7, <2>1 DEF Books, TO_HOST
<1>9. sp' = ArgCell(args) /\ sp' \in Nat
    BY <1>1, <1>3, <1>6 DEF IndInv, Setup, ArgCell
<1>10. PICK w : w = HostMem(n + 1)
    OBVIOUS
<1>11. ASSUME NEW a \in 0 .. Top - 1, TO_HOST(a) < host_alloc'
       PROVE  mem'[TO_HOST(a)] = IF a = sp' THEN alloc
                                 ELSE IF a < alloc THEN mem[TO_HOST(a)]
                                 ELSE IF a < alloc + n THEN s[a - alloc + 1]
                                 ELSE 0
    <2>0. a \in Nat
        BY SetupAssumption
    <2>1. /\ a < alloc => w[TO_HOST(a)] = mem[TO_HOST(a)]
          /\ a >= alloc => w[TO_HOST(a)] = 0
        BY <1>1, <1>2, <1>5, <1>6, <1>10, <1>11, AllocIsClean DEF Pushing
    <2>2. mmu_write(w, alloc, s)[TO_HOST(a)] =
            IF alloc <= a /\ a < alloc + n THEN s[a - alloc + 1] ELSE w[TO_HOST(a)]
        <3>1. PICK b \in Nat : b = alloc
            BY <1>3
        <3>2. CASE b <= a /\ a < b + n
            <4>1. PICK k \in 1 .. n : k = a - b + 1
                BY <2>0, <3>2
            <4>2. k \in 1 .. Len(s) /\ a = b + k - 1
                BY <1>5, <2>0, <4>1
            <4>3. mmu_write(w, b, s)[TO_HOST(a)] = s[k]
                BY <1>4, <4>2, WriteInside
            <4> QED
                BY <3>1, <3>2, <4>1, <4>3
        <3>3. CASE ~(b <= a /\ a < b + n)
            <4>1. a < b \/ a >= b + Len(s)
                BY <1>5, <2>0, <3>3
            <4>2. mmu_write(w, b, s)[TO_HOST(a)] = w[TO_HOST(a)]
                BY <1>4, <4>1, WriteOutside
            <4> QED
                BY <3>1, <3>3, <4>2
        <3> QED
            BY <3>2, <3>3
    <2>3. PICK t : t = <<alloc>>
        OBVIOUS
    <2>a. t \in Seq(Nat) /\ Len(t) = 1 /\ t[1] = alloc
        BY <1>3, <2>3
    <2>4. PICK q \in Nat : q = sp'
        BY <1>9
    <2>5. PICK w2 : w2 = mmu_write(w, alloc, s)
        OBVIOUS
    <2>6. mmu_write(w2, q, t)[TO_HOST(a)] = IF a = q THEN alloc ELSE w2[TO_HOST(a)]
        <3>1. CASE a = q
            <4>1. 1 \in 1 .. Len(t) /\ a = q + 1 - 1
                BY <2>a, <3>1
            <4>2. mmu_write(w2, q, t)[TO_HOST(a)] = t[1]
                BY <2>a, <4>1, WriteInside
            <4> QED
                BY <2>a, <3>1, <4>2
        <3>2. CASE a # q
            <4>1. (a < q \/ a >= q + Len(t)) /\ t \in Seq(Nat)
                BY <2>0, <2>a, <3>2
            <4>2. mmu_write(w2, q, t)[TO_HOST(a)] = w2[TO_HOST(a)]
                BY <4>1, WriteOutside
            <4> QED
                BY <3>2, <4>2
        <3> QED
            BY <3>1, <3>2
    <2>7. mem'[TO_HOST(a)] = IF a = q THEN alloc ELSE w2[TO_HOST(a)]
        BY <1>6, <1>10, <2>3, <2>4, <2>5, <2>6
    <2> QED
        BY <1>3, <2>0, <2>1, <2>2, <2>4, <2>5, <2>7
<1>12. alloc' = alloc + Len(s) + 1 /\ args \in 1 .. Len(argv)
    BY <1>3, <1>5, <1>7
<1>13. ASSUME NEW a \in 0 .. Top - 1, TO_HOST(a) < host_alloc'
       PROVE  mem'[TO_HOST(a)] = IF a = sp' THEN alloc
                                 ELSE IF a < alloc THEN mem[TO_HOST(a)]
                                 ELSE IF a < alloc + Len(s) THEN s[a - alloc + 1]
                                 ELSE 0
    BY <1>5, <1>11, <1>13, Zenon
<1> QED
    BY <1>3, <1>4, <1>6, <1>7, <1>8, <1>9, <1>12, <1>13, Zenon

\* A string at or above lo survives when the cells from lo on do.
LEMMA StringStays ==
    ASSUME NEW p \in Nat, NEW s \in Seq(Nat), StringAt(p, s), NEW lo \in Nat, NEW hi \in Nat,
           lo <= p, p + Len(s) < hi, hi <= Top,
           \A a \in 0 .. Top - 1 : lo <= a /\ a < hi => mem'[TO_HOST(a)] = mem[TO_HOST(a)]
    PROVE  StringAt(p, s)'
<1>1. PICK n \in Nat : n = Len(s)
    OBVIOUS
<1>2. Top \in Nat
    BY SetupAssumption
<1>3. ASSUME NEW k \in 1 .. n PROVE mem'[TO_HOST(p + k - 1)] = mem[TO_HOST(p + k - 1)]
    <2>1. PICK a \in Nat : a = p + k - 1
        OBVIOUS
    <2>2. a \in 0 .. Top - 1 /\ lo <= a /\ a < hi
        BY <1>1, <1>2, <2>1
    <2> QED
        BY <2>1, <2>2
<1>4. mem'[TO_HOST(p + n)] = mem[TO_HOST(p + n)]
    <2>1. PICK a \in Nat : a = p + n
        OBVIOUS
    <2>2. a \in 0 .. Top - 1 /\ lo <= a /\ a < hi
        BY <1>1, <1>2, <2>1
    <2> QED
        BY <2>1, <2>2
<1> QED
    BY <1>1, <1>3, <1>4 DEF StringAt

\* One more argument, and the earlier ones where they were.
LEMMA ArgPushing ==
    ASSUME IndInv, Pushing, setup_arg
    PROVE  Pushing'
<1>1. CASE ctl' # "args"
    BY <1>1 DEF Pushing
<1>2. CASE ctl' = "args"
    <2>1. PICK s : s = argv[args]
        OBVIOUS
    <2>2. /\ base' = base /\ argv' = argv /\ args' = args - 1 /\ args \in 1 .. Len(argv)
          /\ s \in Seq(Nat) /\ alloc' = alloc + Len(s) + 1 /\ alloc' <= Top /\ alloc \in Nat
          /\ sp' = ArgCell(args) /\ sp' \in Nat
          /\ TO_HOST(alloc') <= host_alloc' /\ host_alloc' \in Nat
        BY <1>2, <2>1, ArgMemory
    <2>3. \A a \in 0 .. Top - 1 :
             TO_HOST(a) < host_alloc' =>
                 mem'[TO_HOST(a)] = IF a = sp' THEN alloc
                                    ELSE IF a < alloc THEN mem[TO_HOST(a)]
                                    ELSE IF a < alloc + Len(s) THEN s[a - alloc + 1]
                                    ELSE 0
        BY <1>2, <2>1, ArgMemory
    <2>4. PICK n \in Nat, L \in Nat, g \in Nat : n = Len(s) /\ L = Len(argv) /\ g = GUEST_MEMORY_OFFSET
        <3>1. Len(argv) \in Nat
            BY <2>2, SetupAssumption DEF IndInv, TypeOK
        <3> QED
            BY <2>2, <3>1
    <2>5. /\ base \in Nat /\ STACK_SIZE \in Nat /\ Top \in Nat /\ L + 5 <= STACK_SIZE
          /\ base + STACK_SIZE <= alloc /\ argv \in Seq(Seq(Nat)) /\ ctl = "args"
        BY <2>4, SetupAssumption DEF IndInv, TypeOK, Setup, setup_arg
    <2>6. PICK q \in Nat : q = sp' /\ q = base + STACK_SIZE - 3 - L + (args - 1)
        BY <2>2, <2>4, <2>5 DEF ArgCell
    <2>7. q + 3 < base + STACK_SIZE /\ args \in Nat
        BY <2>2, <2>4, <2>5, <2>6
    <2>8. PICK al2 \in Nat : al2 = alloc' /\ al2 = alloc + n + 1
        BY <2>2, <2>4
    <2>9. \A a \in 0 .. Top - 1 : a < al2 =>
             mem'[TO_HOST(a)] = IF a = q THEN alloc
                                ELSE IF a < alloc THEN mem[TO_HOST(a)]
                                ELSE IF a < alloc + n THEN s[a - alloc + 1]
                                ELSE 0
        <3> SUFFICES ASSUME NEW a \in 0 .. Top - 1, a < al2
                     PROVE  mem'[TO_HOST(a)] = IF a = q THEN alloc
                                ELSE IF a < alloc THEN mem[TO_HOST(a)]
                                ELSE IF a < alloc + n THEN s[a - alloc + 1]
                                ELSE 0
            OBVIOUS
        <3>1. TO_HOST(a) < host_alloc'
            <4>1. TO_HOST(a) = a + g /\ TO_HOST(al2) = al2 + g /\ a \in Nat
                BY <2>4, <2>5 DEF TO_HOST
            <4> QED
                BY <2>2, <2>8, <4>1
        <3> QED
            BY <2>3, <2>4, <2>6, <3>1
    <2>10. ASSUME NEW k \in 1 .. 3
           PROVE  mem'[TO_HOST(base' + STACK_SIZE - k)] = 0
        <3>1. PICK a \in Nat : a = base + STACK_SIZE - k
            BY <2>5
        <3>2. a \in 0 .. Top - 1 /\ a < al2 /\ a # q /\ a < alloc
            BY <2>2, <2>5, <2>6, <2>7, <2>8, <3>1
        <3>3. mem'[TO_HOST(a)] = mem[TO_HOST(a)]
            BY <2>9, <3>2
        <3>4. mem[TO_HOST(base + STACK_SIZE - k)] = 0
            BY <2>5 DEF Pushing
        <3> QED
            BY <2>2, <3>1, <3>3, <3>4
    <2>11. \A a \in 0 .. Top - 1 : a >= alloc' /\ TO_HOST(a) < host_alloc' => mem'[TO_HOST(a)] = 0
        <3> SUFFICES ASSUME NEW a \in 0 .. Top - 1, a >= alloc', TO_HOST(a) < host_alloc'
                     PROVE  mem'[TO_HOST(a)] = 0
            OBVIOUS
        <3>1. a \in Nat /\ a # q /\ ~(a < alloc) /\ ~(a < alloc + n)
            BY <2>2, <2>5, <2>7, <2>8
        <3> QED
            BY <2>3, <2>4, <2>6, <3>1
    <2>12. ASSUME NEW k \in args .. L
           PROVE  IsPushed(k)'
        <3>1. PICK c \in Nat : c = base + STACK_SIZE - 3 - L + (k - 1)
            BY <2>2, <2>5, <2>7
        <3>2. c \in 0 .. Top - 1 /\ c < alloc /\ c < al2 /\ (c = q <=> k = args) /\ k \in Nat
            BY <2>2, <2>5, <2>6, <2>7, <2>8, <3>1
        <3>3. ArgCell(k) = c /\ ArgCell(k)' = c
            BY <2>2, <2>4, <3>1 DEF ArgCell
        <3>4. PICK t : t = argv[k]
            OBVIOUS
        <3>5. t \in Seq(Nat) /\ argv'[k] = t
            <4>1. k \in 1 .. Len(argv)
                BY <2>2, <2>4, <2>7
            <4> QED
                BY <2>2, <2>5, <3>4, <4>1
        <3>6. CASE k = args
            <4>1. PICK p \in Nat : p = alloc
                BY <2>2
            <4>2. mem'[TO_HOST(c)] = p
                BY <2>9, <3>2, <3>6, <4>1
            <4>3. ASSUME NEW j \in 1 .. n PROVE mem'[TO_HOST(p + j - 1)] = s[j]
                <5>1. PICK a \in Nat : a = p + j - 1
                    OBVIOUS
                <5>2. /\ a \in 0 .. Top - 1 /\ a < al2 /\ a # q /\ ~(a < alloc) /\ a < alloc + n
                      /\ a - alloc + 1 = j
                    BY <2>2, <2>5, <2>7, <2>8, <4>1, <5>1
                <5>3. mem'[TO_HOST(a)] = s[a - alloc + 1]
                    BY <2>9, <5>2
                <5> QED
                    BY <5>1, <5>2, <5>3
            <4>4. mem'[TO_HOST(p + n)] = 0
                <5>1. PICK a \in Nat : a = p + n
                    OBVIOUS
                <5>2. a \in 0 .. Top - 1 /\ a < al2 /\ a # q /\ ~(a < alloc) /\ ~(a < alloc + n)
                    BY <2>2, <2>5, <2>7, <2>8, <4>1, <5>1
                <5> QED
                    BY <2>9, <5>1, <5>2
            <4>5. t = s
                BY <2>1, <3>4, <3>6
            <4>6. StringAt(p, t)'
                BY <2>4, <4>3, <4>4, <4>5 DEF StringAt
            <4>7. base' + STACK_SIZE <= p /\ p + Len(t) < alloc'
                BY <2>2, <2>4, <2>5, <2>8, <4>1, <4>5
            <4>8. mem'[TO_HOST(ArgCell(k)')] = p
                BY <3>3, <4>2
            <4> QED
                BY <3>5, <4>1, <4>6, <4>7, <4>8 DEF IsPushed, StringAt
        <3>7. CASE k # args
            <4>1. k \in args + 1 .. Len(argv)
                BY <2>4, <2>7, <3>2, <3>7
            <4>2. IsPushed(k)
                BY <2>5, <4>1 DEF Pushing
            <4>3. PICK p : p = mem[TO_HOST(c)]
                OBVIOUS
            <4>4. /\ p \in Nat /\ base + STACK_SIZE <= p /\ p + Len(t) < alloc
                  /\ StringAt(p, t)
                BY <3>3, <3>4, <4>2, <4>3 DEF IsPushed
            <4>5. mem'[TO_HOST(c)] = p
                BY <2>9, <3>2, <3>7, <4>3
            <4>6. PICK lo \in Nat, hi \in Nat : lo = base + STACK_SIZE /\ hi = alloc
                BY <2>2, <2>5
            <4>7. \A a \in 0 .. Top - 1 : lo <= a /\ a < hi => mem'[TO_HOST(a)] = mem[TO_HOST(a)]
                <5> SUFFICES ASSUME NEW a \in 0 .. Top - 1, lo <= a, a < hi
                             PROVE  mem'[TO_HOST(a)] = mem[TO_HOST(a)]
                    OBVIOUS
                <5>1. a < al2 /\ a # q /\ a < alloc
                    BY <2>2, <2>5, <2>7, <2>8, <4>6
                <5> QED
                    BY <2>9, <5>1
            <4>8. lo <= p /\ p + Len(t) < hi /\ hi <= Top
                BY <2>2, <2>4, <2>5, <2>8, <4>4, <4>6
            <4>9. StringAt(p, t)'
                BY <3>5, <4>4, <4>7, <4>8, StringStays
            <4>10. base' + STACK_SIZE <= p /\ p + Len(t) < alloc'
                <5>1. PICK x \in Nat : x = Len(t)
                    BY <3>5
                <5> QED
                    BY <2>2, <2>8, <4>4, <5>1
            <4>11. mem'[TO_HOST(ArgCell(k)')] = p
                BY <3>3, <4>5
            <4> QED
                BY <3>5, <4>4, <4>9, <4>10, <4>11 DEF IsPushed, StringAt
        <3> QED
            BY <3>6, <3>7
    <2>13. \A k \in args' + 1 .. Len(argv') : k \in args .. L
        BY <2>2, <2>4, <2>7
    <2> QED
        BY <2>10, <2>11, <2>12, <2>13 DEF Pushing
<1> QED
    BY <1>1, <1>2

\* What holds while arguments are pushed holds always.
LEMMA PushingAlways == Spec => []Pushing
<1>1. Init => Pushing
    BY DEF Init, Pushing
<1>2. IndInv /\ Pushing /\ [Next]_vars => Pushing'
    <2> SUFFICES ASSUME IndInv, Pushing, [Next]_vars PROVE Pushing'
        OBVIOUS
    <2>1. CASE setup_stack
        BY <2>1, StackPushing
    <2>2. CASE setup_arg
        BY <2>2, ArgPushing
    <2>3. CASE load_ehdr \/ truncated \/ loaded \/ setup_nowhere \/ setup_done
        BY <2>3 DEF load_ehdr, truncated, loaded, setup_nowhere, setup_done, fatal, Pushing
    <2>4. CASE load_phdr
        BY <2>4 DEF load_phdr, mmu_load_segment, Pushing
    <2>5. ASSUME NEW addr \in 0 .. Top, sys_brk(addr) PROVE Pushing'
        BY <2>5 DEF sys_brk, mmap_fails, fatal, Pushing
    <2>6. ASSUME NEW s \in Stores, store(s[1], s[2]) PROVE Pushing'
        BY <2>6 DEF store, Pushing
    <2>7. CASE UNCHANGED vars
        BY <2>7 DEF vars, Pushing, IsPushed, ArgCell, StringAt
    <2> QED
        BY <2>1, <2>2, <2>3, <2>4, <2>5, <2>6, <2>7 DEF Next
<1> QED
    BY <1>1, <1>2, IndInvAlways, PTL DEF Spec

\* Between base and the guest's end a cell holds a value.
LEMMA CellIsMapped ==
    ASSUME IndInv, ctl \in {"args", "run"}, NEW a \in 0 .. Top - 1, base <= a, a < alloc
    PROVE  mem[TO_HOST(a)] \in Nat
<1>1. TypeOK /\ Books /\ MappedExactly(mem, base, host_alloc)
    BY LoadedMachine
<1>2. PICK b \in Nat, al \in Nat, g \in Nat : b = base /\ al = alloc /\ g = GUEST_MEMORY_OFFSET
    BY <1>1 DEF TypeOK
<1>3. PICK u \in Int : u = ROUNDUP(al) /\ al <= u
    BY RoundUp
<1>4. host_alloc = u + g /\ TO_HOST(a) = a + g /\ TO_HOST(base) = b + g
    BY <1>1, <1>2, <1>3 DEF Books, TO_HOST
<1>5. a \in Nat /\ Top \in Nat
    BY SetupAssumption
<1>6. TO_HOST(a) \in HostRange /\ TO_HOST(a) >= TO_HOST(base) /\ TO_HOST(a) < host_alloc
    BY <1>2, <1>3, <1>4, <1>5 DEF HostRange
<1>7. mem[TO_HOST(a)] # Unmapped
    BY <1>1, <1>6 DEF MappedExactly
<1> QED
    BY <1>1, <1>6, <1>7 DEF TypeOK

\* What memory holds when the guest starts: the stack, moved down by d cells.
LEMMA DoneMemory ==
    ASSUME IndInv, setup_done
    PROVE  \E q \in Nat, d \in 0 .. 1 :
             /\ q = base + STACK_SIZE - 4 - Len(argv) /\ q > base
             /\ sp' = q - d /\ sp' % 2 = 0 /\ a1' = sp' + 1
             /\ mem'[TO_HOST(q - d)] = Len(argv)
             /\ \A a \in 0 .. Top - 1 : q < a /\ a < base + STACK_SIZE =>
                   mem'[TO_HOST(a - d)] = mem[TO_HOST(a)]
             /\ \A a \in 0 .. Top - 1 : base + STACK_SIZE <= a => mem'[TO_HOST(a)] = mem[TO_HOST(a)]
<1>1. ctl = "args" /\ args = 0 /\ ARGC_SIZE = 1
    BY DEF setup_done, ARGC_SIZE
<1>2. PICK L \in Nat, b \in Nat, S \in Nat :
        L = Len(argv) /\ b = base /\ S = STACK_SIZE /\ L + 5 <= S
    BY <1>1, SetupAssumption DEF IndInv, TypeOK
<1>3. b + S <= alloc /\ alloc <= Top /\ sp = b + S - 3 - L /\ Top \in Nat /\ alloc \in Nat
    BY <1>1, <1>2, SetupAssumption DEF IndInv, Setup, TypeOK
<1>a. L + 5 <= S
    BY <1>2
<1>4. PICK q \in Nat : q = b + S - 4 - L
    BY <1>a
<1>5. PICK d \in 0 .. 1 : d = q % 2
    OBVIOUS
<1>6. q - d \in Nat /\ (q - d) % 2 = 0 /\ q > b
    <2>1. PICK h \in Nat : h = q \div 2
        OBVIOUS
    <2>2. q = 2 * h + d
        BY <1>5, <2>1
    <2>3. q - d = 2 * h /\ (2 * h) % 2 = 0
        BY <2>2
    <2> QED
        BY <1>a, <1>4, <2>3
<1>7. PICK t : t = <<L>>
    OBVIOUS
<1>8. t \in Seq(Nat) /\ Len(t) = 1 /\ t[1] = L
    BY <1>7
<1>9. PICK m : m = mmu_write(mem, q, t)
    OBVIOUS
<1>10. /\ sp' = q - d /\ a1' = sp' + 1
       /\ mem' = IF q - d # q THEN MovedDown(m, q - d, q) ELSE m
    <2>1. sp - ARGC_SIZE = q
        BY <1>1, <1>3, <1>4
    <2> QED
        BY <1>1, <1>2, <1>5, <1>7, <1>9, <2>1 DEF setup_done
<1>11. ASSUME NEW a \in 0 .. Top - 1
       PROVE  m[TO_HOST(a)] = IF a = q THEN L ELSE mem[TO_HOST(a)]
    <2>1. CASE a = q
        <3>1. 1 \in 1 .. Len(t) /\ a = q + 1 - 1
            BY <1>8, <2>1
        <3>2. mmu_write(mem, q, t)[TO_HOST(a)] = t[1]
            BY <1>8, <3>1, WriteInside
        <3> QED
            BY <1>8, <1>9, <2>1, <3>2
    <2>2. CASE a # q
        <3>1. (a < q \/ a >= q + Len(t)) /\ t \in Seq(Nat)
            BY <1>3, <1>8, <2>2
        <3>2. mmu_write(mem, q, t)[TO_HOST(a)] = mem[TO_HOST(a)]
            BY <3>1, WriteOutside
        <3> QED
            BY <1>9, <2>2, <3>2
    <2> QED
        BY <2>1, <2>2
<1>12. q \in 0 .. Top - 1 /\ q < b + S
    BY <1>a, <1>3, <1>4
<1>13. /\ mem'[TO_HOST(q - d)] = L
       /\ \A a \in 0 .. Top - 1 : q < a /\ a < b + S => mem'[TO_HOST(a - d)] = mem[TO_HOST(a)]
       /\ \A a \in 0 .. Top - 1 : b + S <= a => mem'[TO_HOST(a)] = mem[TO_HOST(a)]
  <2>0. CASE d = 0
    <3>1. mem' = m /\ q - d = q
        BY <1>10, <2>0
    <3>2. \A a \in 0 .. Top - 1 : a - d = a
        BY <2>0, <1>3
    <3>3. \A a \in 0 .. Top - 1 : q < a => mem'[TO_HOST(a)] = mem[TO_HOST(a)]
        BY <1>3, <1>11, <3>1
    <3>4. mem'[TO_HOST(q - d)] = L
        BY <1>11, <1>12, <3>1
    <3>5. \A a \in 0 .. Top - 1 : b + S <= a => q < a
        BY <1>3, <1>12
    <3> QED
        BY <3>2, <3>3, <3>4, <3>5
  <2>1. CASE d = 1
    <3>1. PICK used \in Nat : used = (b + S) - q
        BY <1>12
    <3>2. PICK moved : moved = [k \in 1 .. used |-> m[TO_HOST(q + k - 1)]]
        OBVIOUS
    <3>3. q - d \in Nat /\ q - d # q
        BY <1>6, <2>1
    <3>4. PICK e \in Nat : e = q - d
        BY <3>3
    <3>5. mem' = mmu_write(m, e, moved)
        BY <1>2, <1>10, <3>1, <3>2, <3>3, <3>4 DEF MovedDown
    <3>6. ASSUME NEW k \in 1 .. used
          PROVE  m[TO_HOST(q + k - 1)] \in Nat
        <4>1. PICK a \in Nat : a = q + k - 1
            OBVIOUS
        <4>2. a \in 0 .. Top - 1 /\ a >= b /\ a < alloc
            BY <1>3, <1>6, <3>1, <4>1
        <4>3. mem[TO_HOST(a)] \in Nat
            BY <1>1, <1>2, <1>3, <4>2, CellIsMapped
        <4> QED
            BY <1>11, <4>1, <4>2, <4>3
    <3>7. moved \in Seq(Nat) /\ Len(moved) = used
        BY <3>2, <3>6
    <3>8. ASSUME NEW a \in 0 .. Top - 1, q <= a, a < b + S
          PROVE  mem'[TO_HOST(a - d)] = m[TO_HOST(a)]
        <4>1. PICK c \in Nat : c = a - d
            BY <1>3, <1>6, <3>8
        <4>2. PICK k \in 1 .. used : k = a - q + 1
            BY <1>3, <3>1, <3>8
        <4>3. c \in 0 .. Top - 1 /\ c = e + k - 1 /\ q + k - 1 = a
            BY <1>3, <3>4, <4>1, <4>2
        <4>4. mmu_write(m, e, moved)[TO_HOST(c)] = moved[k]
            BY <3>7, <4>3, WriteInside
        <4>5. moved[k] = m[TO_HOST(a)]
            BY <3>2, <4>3
        <4> QED
            BY <3>5, <4>1, <4>4, <4>5
    <3>9. ASSUME NEW a \in 0 .. Top - 1, b + S <= a
          PROVE  mem'[TO_HOST(a)] = m[TO_HOST(a)]
        <4>1. moved \in Seq(Nat) /\ (a < e \/ a >= e + Len(moved))
            BY <1>3, <2>1, <3>1, <3>4, <3>7, <3>9
        <4>2. mmu_write(m, e, moved)[TO_HOST(a)] = m[TO_HOST(a)]
            BY <4>1, WriteOutside
        <4> QED
            BY <3>5, <4>2
    <3>10. mem'[TO_HOST(q - d)] = L
        BY <1>11, <1>12, <3>8
    <3>11. \A a \in 0 .. Top - 1 : q < a => m[TO_HOST(a)] = mem[TO_HOST(a)] /\ q <= a
        BY <1>3, <1>11
    <3>12. \A a \in 0 .. Top - 1 : b + S <= a => q < a
        BY <1>3, <1>12
    <3> QED
        BY <3>8, <3>9, <3>10, <3>11, <3>12
  <2> QED
    BY <2>0, <2>1
<1>14. q = base + STACK_SIZE - 4 - Len(argv) /\ q > base
    BY <1>2, <1>4, <1>6
<1>15. sp' % 2 = 0
    BY <1>6, <1>10
<1> WITNESS q \in Nat, d \in 0 .. 1
<1> QED
    BY <1>2, <1>10, <1>13, <1>14, <1>15

\* argc is the last to be pushed, and then all can be read from sp.
LEMMA DoneIsReadable ==
    ASSUME IndInv, Pushing, setup_done
    PROVE  ArgvIsReadable'
<1>1. PICK q \in Nat, d \in 0 .. 1 :
        /\ q = base + STACK_SIZE - 4 - Len(argv) /\ q > base
        /\ sp' = q - d /\ sp' % 2 = 0 /\ a1' = sp' + 1
        /\ mem'[TO_HOST(q - d)] = Len(argv)
        /\ \A a \in 0 .. Top - 1 : q < a /\ a < base + STACK_SIZE =>
              mem'[TO_HOST(a - d)] = mem[TO_HOST(a)]
        /\ \A a \in 0 .. Top - 1 : base + STACK_SIZE <= a => mem'[TO_HOST(a)] = mem[TO_HOST(a)]
    BY DoneMemory
<1>2. ctl = "args" /\ args = 0 /\ base' = base /\ argv' = argv
    BY DEF setup_done, mmu_t, input
<1>3. PICK L \in Nat, b \in Nat, S \in Nat : L = Len(argv) /\ b = base /\ S = STACK_SIZE
    BY <1>2, SetupAssumption DEF IndInv, TypeOK
<1>4. /\ argv \in Seq(Seq(Nat)) /\ Top \in Nat /\ alloc \in Nat
      /\ b + S <= alloc /\ alloc <= Top
    BY <1>2, <1>3, SetupAssumption DEF IndInv, TypeOK, Setup
<1>5. q = b + S - 4 - L /\ q > b
    BY <1>1, <1>3
<1>6. PICK e \in Nat : e = q - d /\ e = sp'
    <2>1. sp' = q - d
        BY <1>1
    <2>2. q - d \in Nat
        BY <1>5
    <2> QED
        BY <2>1, <2>2
<1>7. ASSUME NEW a \in Nat, q < a, a < b + S
      PROVE  mem'[TO_HOST(a - d)] = mem[TO_HOST(a)]
    <2>1. a \in 0 .. Top - 1
        BY <1>4, <1>7
    <2> QED
        BY <1>1, <1>3, <1>7, <2>1
<1>8. ASSUME NEW k \in 1 .. L
      PROVE  StringAt(mem[TO_HOST(sp + k)], argv[k])'
    <2>1. PICK a \in Nat : a = q + k
        OBVIOUS
    <2>2. q < a /\ a < b + S /\ a - d = e + k
        BY <1>5, <1>6, <2>1
    <2>3. mem'[TO_HOST(e + k)] = mem[TO_HOST(a)]
        BY <1>7, <2>2
    <2>4. ArgCell(k) = a
        BY <1>3, <1>5, <2>1 DEF ArgCell
    <2>5. IsPushed(k)
        <3>1. k \in args + 1 .. Len(argv)
            BY <1>2, <1>3
        <3> QED
            BY <1>2, <3>1 DEF Pushing
    <2>6. PICK p : p = mem[TO_HOST(a)]
        OBVIOUS
    <2>7. PICK t : t = argv[k]
        OBVIOUS
    <2>8. t \in Seq(Nat)
        BY <1>3, <1>4, <2>7
    <2>9. p \in Nat /\ b + S <= p /\ p + Len(t) < alloc /\ StringAt(p, t)
        BY <1>3, <2>4, <2>5, <2>6, <2>7 DEF IsPushed
    <2>10. PICK lo \in Nat, hi \in Nat : lo = b + S /\ hi = alloc
        BY <1>4
    <2>11. \A c \in 0 .. Top - 1 : lo <= c /\ c < hi => mem'[TO_HOST(c)] = mem[TO_HOST(c)]
        BY <1>1, <1>3, <2>10
    <2>12. lo <= p /\ p + Len(t) < hi /\ hi <= Top
        BY <1>4, <2>9, <2>10
    <2>13. StringAt(p, t)'
        BY <2>8, <2>9, <2>11, <2>12, StringStays
    <2>14. mem'[TO_HOST(sp' + k)] = p /\ argv'[k] = t
        BY <1>2, <1>6, <2>3, <2>6, <2>7
    <2> QED
        BY <2>13, <2>14 DEF StringAt
<1>9. ASSUME NEW k \in 1 .. 3
      PROVE  mem'[TO_HOST(sp' + L + k)] = 0
    <2>1. PICK a \in Nat : a = q + L + k
        OBVIOUS
    <2>2. q < a /\ a < b + S /\ a - d = e + L + k
        BY <1>5, <1>6, <2>1
    <2>3. mem'[TO_HOST(e + L + k)] = mem[TO_HOST(a)]
        BY <1>7, <2>2
    <2>4. PICK j \in 1 .. 3 : j = 4 - k
        OBVIOUS
    <2>5. a = b + S - j
        BY <1>5, <2>1, <2>4
    <2>6. mem[TO_HOST(base + STACK_SIZE - j)] = 0
        BY <1>2 DEF Pushing
    <2> QED
        BY <1>3, <1>6, <2>3, <2>5, <2>6
<1>10. base' <= sp' /\ sp' + L + 4 <= base' + STACK_SIZE
    <2>1. b <= e /\ e + L + 4 <= b + S
        BY <1>5, <1>6
    <2> QED
        BY <1>2, <1>3, <1>6, <2>1
<1>11. mem'[TO_HOST(sp')] = L /\ Len(argv') = L
    BY <1>1, <1>2, <1>3
<1>12. sp' % 2 = 0 /\ a1' = sp' + 1
    BY <1>1
<1> QED
    BY <1>8, <1>9, <1>10, <1>11, <1>12 DEF ArgvIsReadable

\* machine_setup (machine.c:104-147) hands the guest a stack on which argc,
\* every argument and the terminators can be read, for every command line that
\* fits, whether or not the stack had to be moved down to its alignment.
THEOREM ArgumentsArrive == Spec => GuestStartsWithArgv
<1>1. IndInv /\ Pushing /\ [Next]_vars => [ctl = "args" /\ ctl' = "run" => ArgvIsReadable']_vars
    <2> SUFFICES ASSUME IndInv, Pushing, Next, ctl = "args", ctl' = "run" PROVE ArgvIsReadable'
        OBVIOUS
    <2>1. setup_done
        BY DEF Next, load_ehdr, load_phdr, truncated, fatal, loaded, setup_stack, setup_nowhere,
               setup_arg, sys_brk, store, mmap_fails
    <2> QED
        BY <2>1, DoneIsReadable
<1> QED
    BY <1>1, IndInvAlways, PushingAlways, PTL DEF Spec, GuestStartsWithArgv
=============================================================================
