---------------------------- MODULE CacheProofs ----------------------------
(***************************************************************************)
(* The safety of the code cache for every table size, buffer size, probe   *)
(* bound, heat limit, set of pcs and set of objects.                       *)
(***************************************************************************)
EXTENDS Cache, WellFoundedInduction, TLAPS

USE SizesAssumption, PCsAssumption, ObjectsAssumption, NullAssumption

\* Rounding up to an alignment never moves below the old end of the buffer.
LEMMA AlignUp ==
    ASSUME NEW v \in Nat, NEW a \in Nat
    PROVE  align_to(v, a) \in Nat /\ align_to(v, a) >= v
<1>1. CASE a = 0
    BY <1>1 DEF align_to
<1>2. CASE a # 0
    <2> DEFINE n == v + a - 1
               q == n \div a
    <2>1. n \in Nat /\ a \in Nat /\ a > 0
        BY <1>2
    <2>2. q \in Nat /\ n = a * q + (n % a) /\ n % a \in 0 .. a - 1
        BY <2>1
    <2>3. q * a \in Nat /\ q * a = n - (n % a)
        BY <2>1, <2>2
    <2> QED
        BY <2>1, <2>2, <2>3, <1>2 DEF align_to
<1> QED
    BY <1>1, <1>2

\* Every probe visits slots of the table.
LEMMA SlotIsIndex ==
    ASSUME NEW p \in Nat, NEW k \in Nat
    PROVE  Slot(p, k) \in Index
<1>1. hash(p) \in Nat
    BY DEF hash
<1>2. hash(hash(p) + k) \in 0 .. CACHE_ENTRY_SIZE - 1
    BY <1>1 DEF hash
<1> QED
    BY <1>2 DEF Slot, Index

\* A probe ends in at most one place.
LEMMA ProbeIsUnique ==
    ASSUME NEW p, NEW k1 \in Probe(p), NEW k2 \in Probe(p)
    PROVE  k1 = k2
<1>1. k1 \in Nat /\ k2 \in Nat
    BY DEF Probe, Index
<1>2. ~(k1 < k2) /\ ~(k2 < k1)
    BY <1>1 DEF Probe
<1> QED
    BY <1>1, <1>2

-----------------------------------------------------------------------------
\* Bytes at and above cache->offset have never been written, and every key of
\* the table is a dispatched pc: what the invariants below need beyond
\* themselves.
Layout ==
    /\ \A b \in DOMAIN jitcode : jitcode[b] # NULL => b < offset
    /\ \A i \in Index : table[i].pc \in PCs \cup {0}

\* The inductive invariant.
IndInv == TypeOK /\ Layout /\ EveryEntryIsFound /\ HotEntryIsRunnable

\* What cache_hot and cache_add do to the keys of the table: at most the slot
\* in which the probe for cur ended gets the key cur.
KeyStored(i) ==
    /\ \E k \in BoundedProbe(cur) : i = Slot(cur, k)
    /\ table' \in [Index -> Item]
    /\ table'[i].pc = cur
    /\ \A j \in Index \ {i} : table'[j] = table[j]

\* Storing a key where its probe ended breaks no probe chain.
LEMMA StoreKeepsChains ==
    ASSUME TypeOK, EveryEntryIsFound, NEW i \in Index, KeyStored(i)
    PROVE  EveryEntryIsFound'
<1> SUFFICES ASSUME NEW j \in Index, (table[j].pc # 0)'
             PROVE  (\E k \in BoundedProbe(table[j].pc) : Slot(table[j].pc, k) = j)'
    BY DEF EveryEntryIsFound
<1>a. PICK k0 \in BoundedProbe(cur) : i = Slot(cur, k0)
    BY DEF KeyStored
<1>b. k0 \in Index /\ k0 \in Nat /\ k0 <= MAX_SEARCH_COUNT /\ Stops(cur, k0)
         /\ \A m \in 0 .. k0 - 1 : ~Stops(cur, m)
    BY <1>a DEF BoundedProbe, Probe, Index
<1>c. cur \in Nat /\ cur # 0
    BY DEF TypeOK
<1>d. table[i].pc \in {0, cur}
    BY <1>a, <1>b DEF Stops
<1>1. CASE j = i
    <2>1. table'[j].pc = cur
        BY <1>1 DEF KeyStored
    <2>2. ASSUME NEW m \in 0 .. k0 - 1
          PROVE  ~(table'[Slot(cur, m)].pc \in {0, cur})
        <3>1. m \in Nat /\ Slot(cur, m) \in Index
            BY <1>b, <1>c, SlotIsIndex
        <3>2. table[Slot(cur, m)].pc \notin {0, cur}
            BY <1>b DEF Stops
        <3>3. Slot(cur, m) # i
            BY <3>2, <1>d
        <3> QED
            BY <3>1, <3>2, <3>3 DEF KeyStored
    <2>3. table'[Slot(cur, k0)].pc \in {0, cur}
        BY <1>a DEF KeyStored
    <2>4. (k0 \in BoundedProbe(table[j].pc) /\ Slot(table[j].pc, k0) = j)'
        BY <1>1, <1>a, <1>b, <2>1, <2>2, <2>3 DEF BoundedProbe, Probe, Stops, Slot, hash
    <2> QED
        BY <2>4
<1>2. CASE j # i
    <2> DEFINE q == table[j].pc
    <2>1. table'[j].pc = q /\ q # 0
        BY <1>2 DEF KeyStored
    <2>2. PICK k \in BoundedProbe(q) : Slot(q, k) = j
        BY <2>1 DEF EveryEntryIsFound
    <2>3. k \in Index /\ k \in Nat /\ k <= MAX_SEARCH_COUNT
          /\ \A m \in 0 .. k - 1 : ~Stops(q, m)
        BY <2>2 DEF BoundedProbe, Probe, Index
    <2>4. q \in Nat
        BY DEF TypeOK, Item
    <2>5. ASSUME NEW m \in 0 .. k - 1
          PROVE  ~(table'[Slot(q, m)].pc \in {0, q})
        <3>1. m \in Nat /\ Slot(q, m) \in Index
            BY <2>3, <2>4, SlotIsIndex
        <3>2. table[Slot(q, m)].pc \notin {0, q}
            BY <2>3 DEF Stops
        <3>3. CASE Slot(q, m) = i
            \* the slot was not free, so it already held cur
            BY <3>2, <3>3, <1>c, <1>d DEF KeyStored
        <3>4. CASE Slot(q, m) # i
            BY <3>1, <3>2, <3>4 DEF KeyStored
        <3> QED
            BY <3>3, <3>4
    <2>6. table'[Slot(q, k)].pc \in {0, q}
        BY <2>1, <2>2
    <2>7. (k \in BoundedProbe(table[j].pc) /\ Slot(table[j].pc, k) = j)'
        BY <2>1, <2>2, <2>3, <2>5, <2>6 DEF BoundedProbe, Probe, Stops, Slot, hash
    <2> QED
        BY <2>7
<1> QED
    BY <1>1, <1>2

\* Text that has been installed stays intact while written bytes stay.
LEMMA TextStays ==
    ASSUME TypeOK, NEW p, NEW b, TextAt(p, b), p \in PCs,
           DOMAIN jitcode' = DOMAIN jitcode,
           \A c \in DOMAIN jitcode : jitcode[c] # NULL => jitcode'[c] = jitcode[c]
    PROVE  TextAt(p, b)'
<1>1. b \in DOMAIN jitcode /\ jitcode[b] # NULL /\ jitcode'[b] = jitcode[b]
    BY DEF TextAt
<1>2. jitcode[b] \in Byte /\ jitcode[b].sz \in Nat
    BY <1>1 DEF TypeOK, Byte
<1>3. ASSUME NEW k \in 0 .. jitcode[b].sz - 1
      PROVE  /\ b + k \in DOMAIN jitcode
             /\ jitcode'[b + k] = [pc |-> p, sec |-> "text", sz |-> jitcode[b].sz, k |-> k]
    <2>1. /\ b + k \in DOMAIN jitcode
          /\ jitcode[b + k] = [pc |-> p, sec |-> "text", sz |-> jitcode[b].sz, k |-> k]
        BY DEF TextAt
    <2>2. [pc |-> p, sec |-> "text", sz |-> jitcode[b].sz, k |-> k] \in Byte
        BY <1>2 DEF Byte
    <2> QED
        BY <2>1, <2>2
<1> QED
    BY <1>1, <1>3 DEF TextAt

\* The empty cache.
LEMMA InitInv == Init => IndInv
<1> SUFFICES ASSUME Init PROVE IndInv
    OBVIOUS
<1>1. TypeOK
    BY DEF Init, TypeOK, Item, Index
<1>2. \A i \in Index : table[i].pc = 0 /\ table[i].hot = 0
    BY DEF Init
<1> QED
    BY <1>1, <1>2 DEF IndInv, Layout, EveryEntryIsFound, HotEntryIsRunnable, Init

\* cache_lookup changes nothing but the control state.
LEMMA LookupInv ==
    ASSUME IndInv, NEW p \in PCs, cache_lookup(p)
    PROVE  IndInv'
<1> USE DEF IndInv
<1>1. UNCHANGED <<table, offset, jitcode, obj, calls>>
    BY DEF cache_lookup
<1>2. ret' \in Nat \cup {NULL} /\ ctl' \in {"idle", "miss"} /\ status' \in {"run", "spin"}
    <2>1. CASE Probe(p) = {}
        BY <2>1 DEF cache_lookup, TypeOK
    <2>2. CASE Probe(p) # {}
        <3>1. PICK k \in Probe(p) :
                LET i == Slot(p, k)
                    hit == table[i].pc = p /\ IsHot(i)
                IN  /\ ret' = IF hit THEN table[i].offset ELSE NULL
                    /\ ctl' = IF hit THEN "idle" ELSE "miss"
            BY <2>2 DEF cache_lookup
        <3>2. Slot(p, k) \in Index
            BY SlotIsIndex DEF Probe, Index
        <3>3. table[Slot(p, k)].offset \in Nat
            BY <3>2 DEF TypeOK, Item
        <3> QED
            BY <3>1, <3>3, <2>2 DEF cache_lookup, TypeOK
    <2> QED
        BY <2>1, <2>2
<1>3. TypeOK'
    BY <1>1, <1>2 DEF TypeOK, cache_lookup
<1>4. Layout' /\ EveryEntryIsFound'
    BY <1>1 DEF Layout, EveryEntryIsFound, BoundedProbe, Probe, Stops
<1>5. HotEntryIsRunnable'
    BY <1>1 DEF HotEntryIsRunnable, IsHot, TextAt, BeingCompiled, cache_lookup
<1> QED
    BY <1>3, <1>4, <1>5

\* cache_hot stores a key or heats an entry; an entry that becomes hot is
\* being compiled from that moment.
LEMMA HotInv ==
    ASSUME IndInv, cache_hot
    PROVE  IndInv'
<1> USE DEF IndInv
<1>1. UNCHANGED <<offset, jitcode, cur, obj, ret>> /\ calls' \in [PCs -> Nat] /\ ctl = "miss"
    BY DEF cache_hot, TypeOK
<1>2. CASE BoundedProbe(cur) = {}
    <2>1. UNCHANGED <<table, ctl>> /\ status' = "abort"
        BY <1>2 DEF cache_hot
    <2>2. TypeOK'
        BY <1>1, <2>1 DEF TypeOK
    <2>3. Layout' /\ EveryEntryIsFound'
        BY <1>1, <2>1 DEF Layout, EveryEntryIsFound, BoundedProbe, Probe, Stops
    <2>4. HotEntryIsRunnable'
        BY <1>1, <2>1 DEF HotEntryIsRunnable, IsHot, TextAt, BeingCompiled
    <2> QED
        BY <2>2, <2>3, <2>4
<1>3. CASE BoundedProbe(cur) # {}
    <2>1. PICK k \in BoundedProbe(cur) :
            LET i == Slot(cur, k)
                known == table[i].pc = cur
                heat == IF known THEN Hotter(table[i].hot) ELSE 1
            IN  /\ table' = [table EXCEPT ![i].pc = cur, ![i].hot = heat]
                /\ ctl' = IF known /\ heat >= CACHE_HOT_COUNT
                          THEN "compile" ELSE "idle"
        BY <1>3 DEF cache_hot
    <2> DEFINE i == Slot(cur, k)
               known == table[i].pc = cur
               heat == IF known THEN Hotter(table[i].hot) ELSE 1
    <2>2. i \in Index /\ cur \in PCs /\ cur \in Nat /\ cur # 0
        BY SlotIsIndex DEF BoundedProbe, Probe, Index, TypeOK
    <2>3. table[i] \in Item /\ table[i].hot \in Nat /\ heat \in Nat
        BY <2>2 DEF TypeOK, Item, Hotter
    <2>4. /\ table' \in [Index -> Item]
          /\ table'[i].pc = cur /\ table'[i].hot = heat
          /\ \A j \in Index \ {i} : table'[j] = table[j]
        <3> DEFINE t1 == [table EXCEPT ![i] = [@ EXCEPT !.pc = cur]]
        <3>1. table' = [t1 EXCEPT ![i] = [@ EXCEPT !.hot = heat]]
            BY <2>1
        <3>2. t1 \in [Index -> Item] /\ t1[i].pc = cur
            BY <2>2, <2>3 DEF TypeOK, Item
        <3> QED
            BY <2>2, <2>3, <3>1, <3>2 DEF TypeOK, Item
    <2>5. KeyStored(i)
        BY <2>2, <2>4 DEF KeyStored, TypeOK
    <2>6. status' = "run" /\ ctl' \in {"compile", "idle"}
        BY <1>3, <2>1 DEF cache_hot
    <2>7. TypeOK'
        BY <1>1, <2>4, <2>6 DEF TypeOK
    <2>8. EveryEntryIsFound'
        BY <2>2, <2>5, StoreKeepsChains
    <2>9. Layout'
        BY <1>1, <2>2, <2>4 DEF Layout, TypeOK
    <2>10. HotEntryIsRunnable'
        <3> SUFFICES ASSUME NEW j \in Index,
                            (table[j].pc # 0 /\ IsHot(j) /\ ~BeingCompiled(table[j].pc))'
                     PROVE  TextAt(table[j].pc, table[j].offset)'
            BY DEF HotEntryIsRunnable
        <3>1. j # i
            <4>1. CASE known
                BY <2>1, <2>2, <2>4, <4>1, <1>1 DEF IsHot, BeingCompiled, TypeOK
            <4>2. CASE ~known
                BY <2>2, <2>4, <4>2 DEF IsHot, TypeOK
            <4> QED
                BY <4>1, <4>2
        <3>2. table'[j] = table[j]
            BY <3>1, <2>4 DEF TypeOK
        <3>3. TextAt(table[j].pc, table[j].offset)
            BY <3>2, <1>1 DEF HotEntryIsRunnable, IsHot, BeingCompiled
        <3> QED
            BY <3>2, <3>3, <1>1 DEF TextAt
    <2> QED
        BY <2>7, <2>8, <2>9, <2>10
<1> QED
    BY <1>2, <1>3

\* machine_compile picks an object; the pc stays under compilation.
LEMMA CompileInv ==
    ASSUME IndInv, NEW o \in Objects, machine_compile(o)
    PROVE  IndInv'
<1> USE DEF IndInv
<1>1. UNCHANGED <<table, offset, jitcode, status, cur, ret, calls>>
    BY DEF machine_compile
<1>2. TypeOK'
    BY <1>1 DEF TypeOK, machine_compile
<1>3. Layout' /\ EveryEntryIsFound'
    BY <1>1 DEF Layout, EveryEntryIsFound, BoundedProbe, Probe, Stops
<1>4. HotEntryIsRunnable'
    BY <1>1 DEF HotEntryIsRunnable, IsHot, TextAt, BeingCompiled, machine_compile
<1> QED
    BY <1>2, <1>3, <1>4

\* cache_add writes only unwritten bytes.
LEMMA AddKeepsBytes ==
    ASSUME TypeOK, Layout, NEW sec, NEW sz \in Nat, NEW align \in Nat, NEW next,
           cache_add(sec, sz, align, next)
    PROVE  /\ DOMAIN jitcode' = DOMAIN jitcode
           /\ \A c \in DOMAIN jitcode : jitcode[c] # NULL => jitcode'[c] = jitcode[c]
<1>0. offset \in Nat
    BY DEF TypeOK
<1>1. align_to(offset, align) \in Nat /\ align_to(offset, align) >= offset
    BY <1>0, AlignUp
<1>2. \A c \in DOMAIN jitcode : c \in Nat /\ (jitcode[c] # NULL => c < offset)
    BY DEF TypeOK, Layout
<1> QED
    BY <1>0, <1>1, <1>2 DEF cache_add

\* A section appended under the current pc: the entry either stays under
\* compilation (next = "text") or now points at its intact text.
LEMMA AddInv ==
    ASSUME IndInv, NEW sec \in {"rodata", "text"}, NEW sz \in Nat, NEW align \in Nat,
           NEW next \in {"text", "idle"}, cache_add(sec, sz, align, next),
           next = "text" \/ (sec = "text" /\ sz > 0),
           ret' \in Nat \cup {NULL}
    PROVE  IndInv'
<1> USE DEF IndInv
<1> DEFINE at == align_to(offset, align)
<1>1. UNCHANGED <<cur, obj, calls>> /\ ctl = sec /\ status = "run"
    BY DEF cache_add
<1>0. offset \in Nat
    BY DEF TypeOK
<1>2. at \in Nat /\ at >= offset /\ offset \in Nat
    BY <1>0, AlignUp
<1>3. CASE at + sz > CACHE_SIZE \/ BoundedProbe(cur) = {}
    <2>1. UNCHANGED <<table, offset, jitcode, ctl>> /\ status' = "abort"
        BY <1>3 DEF cache_add
    <2>2. TypeOK'
        BY <1>1, <2>1 DEF TypeOK
    <2>3. Layout' /\ EveryEntryIsFound'
        BY <2>1 DEF Layout, EveryEntryIsFound, BoundedProbe, Probe, Stops
    <2>4. HotEntryIsRunnable'
        BY <1>1, <2>1 DEF HotEntryIsRunnable, IsHot, TextAt, BeingCompiled
    <2> QED
        BY <2>2, <2>3, <2>4
<1>4. CASE ~(at + sz > CACHE_SIZE \/ BoundedProbe(cur) = {})
    <2>1. PICK k \in BoundedProbe(cur) :
            table' = [table EXCEPT ![Slot(cur, k)].pc = cur, ![Slot(cur, k)].offset = at]
        BY <1>4 DEF cache_add
    <2> DEFINE i == Slot(cur, k)
    <2>2. /\ offset' = at + sz /\ ctl' = next /\ status' = "run"
          /\ jitcode' = [b \in DOMAIN jitcode |->
                           IF b \in at .. at + sz - 1
                           THEN [pc |-> cur, sec |-> sec, sz |-> sz, k |-> b - at]
                           ELSE jitcode[b]]
        BY <1>1, <1>4 DEF cache_add
    <2>3. i \in Index /\ cur \in PCs /\ cur \in Nat /\ cur # 0
        BY SlotIsIndex DEF BoundedProbe, Probe, Index, TypeOK
    <2>4. /\ table' \in [Index -> Item]
          /\ table'[i].pc = cur /\ table'[i].offset = at
          /\ \A j \in Index \ {i} : table'[j] = table[j]
        <3> DEFINE t1 == [table EXCEPT ![i] = [@ EXCEPT !.pc = cur]]
        <3>1. table' = [t1 EXCEPT ![i] = [@ EXCEPT !.offset = at]]
            BY <2>1
        <3>0. table \in [Index -> Item] /\ table[i] \in Item
            BY <2>3 DEF TypeOK
        <3>2. t1 \in [Index -> Item] /\ t1[i].pc = cur
            BY <2>3, <3>0 DEF Item
        <3> QED
            BY <1>2, <2>3, <3>1, <3>2 DEF TypeOK, Item
    <2>5. offset' \in 0 .. CACHE_SIZE
        BY <1>2, <1>4, <2>2
    <2>6. jitcode' \in [0 .. CACHE_SIZE - 1 -> Byte \cup {NULL}]
        <3>1. \A b \in at .. at + sz - 1 :
                [pc |-> cur, sec |-> sec, sz |-> sz, k |-> b - at] \in Byte
            BY <1>2, <2>3 DEF Byte
        <3> QED
            BY <2>2, <3>1 DEF TypeOK
    <2>7. TypeOK'
        BY <1>1, <2>2, <2>4, <2>5, <2>6 DEF TypeOK
    <2>8. EveryEntryIsFound'
        BY <2>3, <2>4, StoreKeepsChains DEF KeyStored
    <2>9. Layout'
        <3>1. ASSUME NEW b \in DOMAIN jitcode', jitcode'[b] # NULL
              PROVE  b < offset'
            <4>1. b \in DOMAIN jitcode /\ b \in Nat
                BY <2>2 DEF TypeOK
            <4>2. CASE b \in at .. at + sz - 1
                BY <1>2, <2>2, <4>1, <4>2
            <4>3. CASE b \notin at .. at + sz - 1
                BY <1>2, <2>2, <3>1, <4>1, <4>3 DEF Layout
            <4> QED
                BY <4>2, <4>3
        <3>2. \A j \in Index : (table[j].pc \in PCs \cup {0})'
            BY <2>3, <2>4 DEF Layout
        <3> QED
            BY <3>1, <3>2 DEF Layout
    <2>10. HotEntryIsRunnable'
        <3> SUFFICES ASSUME NEW j \in Index,
                            (table[j].pc # 0 /\ IsHot(j) /\ ~BeingCompiled(table[j].pc))'
                     PROVE  TextAt(table[j].pc, table[j].offset)'
            BY DEF HotEntryIsRunnable
        <3>1. CASE j = i
            <4>1. next # "text" /\ sec = "text" /\ sz > 0
                BY <1>1, <2>2, <2>4, <3>1 DEF BeingCompiled
            <4>2. \A m \in 0 .. sz - 1 :
                    /\ at + m \in DOMAIN jitcode
                    /\ jitcode'[at + m] = [pc |-> cur, sec |-> sec, sz |-> sz, k |-> m]
                <5> TAKE m \in 0 .. sz - 1
                <5>1. /\ at + m \in 0 .. CACHE_SIZE - 1 /\ at + m \in at .. at + sz - 1
                      /\ (at + m) - at = m
                    BY <1>2, <1>4
                <5>2. DOMAIN jitcode = 0 .. CACHE_SIZE - 1
                    BY DEF TypeOK
                <5> QED
                    BY <5>1, <5>2, <2>2
            <4>3. at + 0 = at /\ 0 \in 0 .. sz - 1
                BY <1>2, <4>1
            <4>4. [pc |-> cur, sec |-> sec, sz |-> sz, k |-> 0] \in Byte
                BY <2>3 DEF Byte
            <4>5. at \in DOMAIN jitcode /\ jitcode'[at] # NULL /\ jitcode'[at].sz = sz
                BY <4>2, <4>3, <4>4
            <4> QED
                BY <2>2, <2>4, <3>1, <4>1, <4>2, <4>5 DEF TextAt
        <3>2. CASE j # i
            <4>1. table'[j] = table[j]
                BY <2>4, <3>2
            <4>2. table[j].pc # cur
                \* a second slot with the key cur would be where its probe ends
                <5> SUFFICES ASSUME table[j].pc = cur PROVE FALSE
                    OBVIOUS
                <5>1. PICK k2 \in BoundedProbe(cur) : Slot(cur, k2) = j
                    BY <2>3 DEF EveryEntryIsFound
                <5>2. k2 = k
                    BY <5>1, ProbeIsUnique DEF BoundedProbe
                <5> QED
                    BY <5>1, <5>2, <3>2
            <4>3. TextAt(table[j].pc, table[j].offset)
                BY <4>1, <4>2 DEF HotEntryIsRunnable, IsHot, BeingCompiled
            <4>4. table[j].pc \in PCs
                BY <4>1 DEF Layout
            <4>5. TextAt(table[j].pc, table[j].offset)'
                <5>0. PICK p, b : p = table[j].pc /\ b = table[j].offset
                    OBVIOUS
                <5>1. \A c \in DOMAIN jitcode : jitcode[c] # NULL => jitcode'[c] = jitcode[c]
                    BY AddKeepsBytes
                <5>2. DOMAIN jitcode' = DOMAIN jitcode
                    BY AddKeepsBytes
                <5>3. TextAt(p, b)'
                    BY <4>3, <4>4, <5>0, <5>1, <5>2, TextStays
                <5> QED
                    BY <5>0, <5>3, <4>1 DEF TextAt
            <4> QED
                BY <4>5
        <3> QED
            BY <3>1, <3>2
    <2> QED
        BY <2>7, <2>8, <2>9, <2>10
<1> QED
    BY <1>3, <1>4

\* Every step of the cache preserves the inductive invariant.
LEMMA StepInv == IndInv /\ [Next]_vars => IndInv'
<1> SUFFICES ASSUME IndInv, [Next]_vars PROVE IndInv'
    OBVIOUS
<1>1. ASSUME NEW p \in PCs, cache_lookup(p) PROVE IndInv'
    BY <1>1, LookupInv
<1>2. CASE cache_hot
    BY <1>2, HotInv
<1>3. ASSUME NEW o \in Objects, machine_compile(o) PROVE IndInv'
    BY <1>3, CompileInv
<1>o. obj.rodata \in Nat /\ obj.ralign \in Nat /\ obj.text \in Nat /\ obj.text > 0
      /\ obj.talign \in Nat /\ offset \in Nat
    BY DEF IndInv, TypeOK
<1>4. CASE add_rodata
    <2>1. ret' \in Nat \cup {NULL}
        BY <1>4 DEF add_rodata, IndInv, TypeOK
    <2> QED
        BY <1>4, <1>o, <2>1, AddInv DEF add_rodata
<1>5. CASE add_text
    <2>1. align_to(offset, obj.talign) \in Nat
        BY <1>o, AlignUp
    <2>2. ret' \in Nat \cup {NULL}
        BY <1>5, <2>1 DEF add_text, IndInv, TypeOK
    <2> QED
        BY <1>5, <1>o, <2>2, AddInv DEF add_text
<1>6. CASE UNCHANGED vars
    BY <1>6 DEF vars, IndInv, TypeOK, Layout, EveryEntryIsFound, BoundedProbe, Probe,
                Stops, HotEntryIsRunnable, IsHot, TextAt, BeingCompiled
<1> QED
    BY <1>1, <1>2, <1>3, <1>4, <1>5, <1>6 DEF Next

\* The inductive invariant holds throughout.
LEMMA IndInvAlways == Spec => []IndInv
<1> QED
    BY InitInv, StepInv, PTL DEF Spec

\* The cache's state keeps its types: in particular cache->offset never passes
\* the end of the code buffer (the assertion of cache.c:50).
THEOREM CacheTypeCorrect == Spec => []TypeOK
<1>1. IndInv => TypeOK
    BY DEF IndInv
<1> QED
    BY <1>1, IndInvAlways, PTL

\* Whatever pcs collide, every pc in the table stays reachable by its probe
\* within the bound that cache_hot and cache_add assert (cache.c:62, 85).
THEOREM EntriesStayFindable == Spec => []EveryEntryIsFound
<1>1. IndInv => EveryEntryIsFound
    BY DEF IndInv
<1> QED
    BY <1>1, IndInvAlways, PTL

\* machine_step never calls into anything but the intact text compiled for the
\* pc it looked up (machine.c:19, 42, 49).
THEOREM LookupsRunTheRightCode == Spec => []HotEntryIsRunnable
<1>1. IndInv => HotEntryIsRunnable
    BY DEF IndInv
<1> QED
    BY <1>1, IndInvAlways, PTL

\* No step of the cache changes a byte of code once it is written.
THEOREM CodeIsAppendOnly == Spec => CodeNeverChanges
<1> DEFINE Keep == \A b \in DOMAIN jitcode : jitcode[b] # NULL => jitcode'[b] = jitcode[b]
<1>1. IndInv /\ [Next]_vars => [Keep]_vars
    <2> SUFFICES ASSUME IndInv, Next PROVE Keep
        OBVIOUS
    <2>o. obj.rodata \in Nat /\ obj.ralign \in Nat /\ obj.text \in Nat /\ obj.talign \in Nat
        BY DEF IndInv, TypeOK
    <2>1. ASSUME NEW p \in PCs, cache_lookup(p) PROVE Keep
        BY <2>1 DEF cache_lookup
    <2>2. CASE cache_hot
        BY <2>2 DEF cache_hot
    <2>3. ASSUME NEW o \in Objects, machine_compile(o) PROVE Keep
        BY <2>3 DEF machine_compile
    <2>4. CASE add_rodata
        BY <2>4, <2>o, AddKeepsBytes DEF add_rodata, IndInv
    <2>5. CASE add_text
        BY <2>5, <2>o, AddKeepsBytes DEF add_text, IndInv
    <2> QED
        BY <2>1, <2>2, <2>3, <2>4, <2>5 DEF Next
<1> QED
    BY <1>1, IndInvAlways, PTL DEF Spec, CodeNeverChanges

-----------------------------------------------------------------------------
\* Termination of a lookup.

\* A nonempty set of natural numbers has a least one.
LEMMA LeastElement ==
    ASSUME NEW T \in SUBSET Nat, T # {}
    PROVE  \E m \in T : \A n \in T : m <= n
<1>1. PICK R : R = OpToRel(<, Nat)
    OBVIOUS
<1>2. IsWellFoundedOn(R, Nat)
    BY <1>1, NatLessThanWellFounded
<1>3. PICK m \in T : \A n \in T : ~(<<n, m>> \in R)
    BY <1>2, WFMin
<1>4. \A n \in Nat, k \in Nat : n < k => <<n, k>> \in R
    BY <1>1 DEF OpToRel
<1>5. ASSUME NEW n \in T
      PROVE  m <= n
    <2>1. m \in Nat /\ n \in Nat /\ ~(n < m)
        BY <1>3, <1>4
    <2> QED
        BY <2>1
<1> QED
    BY <1>5

\* The probe passes every slot of the table.
LEMMA ProbeIsComplete ==
    ASSUME NEW p \in Nat, NEW i \in Index
    PROVE  \E k \in Index : Slot(p, k) = i
<1>1. PICK n \in Nat \ {0} : n = CACHE_ENTRY_SIZE
    OBVIOUS
<1>2. PICK h : h = hash(p)
    OBVIOUS
<1>3. h \in 0 .. n - 1 /\ i \in 0 .. n - 1
    BY <1>1, <1>2 DEF hash, Index
<1>4. CASE i >= h
    <2>1. i - h \in 0 .. n - 1 /\ h + (i - h) = i /\ i % n = i
        BY <1>3, <1>4
    <2> QED
        BY <1>1, <1>2, <2>1 DEF Slot, hash, Index
<1>5. CASE i < h
    <2>1. PICK k : k = i + n - h
        OBVIOUS
    <2>2. k \in 0 .. n - 1 /\ h + k = i + n
        BY <1>3, <1>5, <2>1
    <2>3. (i + n) % n = i
        BY <1>3
    <2> QED
        BY <1>1, <1>2, <2>2, <2>3 DEF Slot, hash, Index
<1> QED
    BY <1>3, <1>4, <1>5

\* A free slot ends every probe.
LEMMA FreeSlotEndsProbe ==
    ASSUME NEW p \in Nat, NEW i \in Index, table[i].pc = 0
    PROVE  Probe(p) # {}
<1> DEFINE T == { k \in Index : Stops(p, k) }
<1>1. PICK k0 \in Index : Slot(p, k0) = i
    BY ProbeIsComplete
<1>2. k0 \in T
    BY <1>1 DEF Stops
<1>3. T \in SUBSET Nat /\ T # {}
    BY <1>2 DEF Index
<1>4. PICK k \in T : \A j \in T : k <= j
    BY <1>3, LeastElement
<1>5. \A j \in 0 .. k - 1 : ~Stops(p, j)
    BY <1>4 DEF Index
<1>6. k \in Probe(p)
    BY <1>4, <1>5 DEF Probe
<1> QED
    BY <1>6

\* cache_lookup's unbounded loop (cache.c:28-37) fails to return only when the
\* table is full.
THEOREM LookupReturns == Spec => []SpinsOnlyWhenFull
<1>1. Init => SpinsOnlyWhenFull
    BY DEF Init, SpinsOnlyWhenFull
<1>2. IndInv /\ SpinsOnlyWhenFull /\ [Next]_vars => SpinsOnlyWhenFull'
    <2> SUFFICES ASSUME IndInv, SpinsOnlyWhenFull, [Next]_vars, status' = "spin"
                 PROVE  \A i \in Index : table'[i].pc # 0
        BY DEF SpinsOnlyWhenFull
    <2>1. ASSUME NEW p \in PCs, cache_lookup(p)
          PROVE  \A i \in Index : table'[i].pc # 0
        <3>1. table' = table /\ Probe(p) = {} /\ p \in Nat
            BY <2>1 DEF cache_lookup
        <3> QED
            BY <3>1, FreeSlotEndsProbe
    <2>2. CASE cache_hot \/ add_rodata \/ add_text \/ \E o \in Objects : machine_compile(o)
        <3>1. status' # "spin"
            BY <2>2 DEF cache_hot, add_rodata, add_text, cache_add, machine_compile
        <3> QED
            BY <3>1
    <2>3. CASE UNCHANGED vars
        BY <2>3 DEF vars, SpinsOnlyWhenFull
    <2> QED
        BY <2>1, <2>2, <2>3 DEF Next
<1> QED
    BY <1>1, <1>2, IndInvAlways, PTL DEF Spec

-----------------------------------------------------------------------------
\* Heat.

\* What the counter of a pc is after c calls of cache_hot: one, then two more
\* for each further call, until it saturates.
HeatAfter(c) == IF 2 * c > CACHE_HOT_COUNT THEN CACHE_HOT_COUNT ELSE 2 * c - 1

\* As long as nothing has failed, the table holds exactly the pcs that
\* cache_hot was called for, with the heat of that many calls.
HeatCounts ==
    status = "run" =>
        /\ \A p \in PCs : (\A i \in Index : table[i].pc # p) => calls[p] = 0
        /\ \A i \in Index : table[i].pc # 0 =>
              calls[table[i].pc] > 0 /\ table[i].hot = HeatAfter(calls[table[i].pc])

\* The pc that is compiled is in the table, and hot; a pc that missed is not.
CompiledIsHot ==
    status = "run" =>
        /\ ctl \in {"compile", "rodata", "text"} => \E i \in Index : table[i].pc = cur /\ IsHot(i)
        /\ ctl = "miss" => \A i \in Index : table[i].pc = cur => ~IsHot(i)

HeatInv == HeatCounts /\ CompiledIsHot

\* One more call of cache_hot for a pc in the table.
LEMMA HotterCounts ==
    ASSUME NEW c \in Nat \ {0}
    PROVE  /\ HeatAfter(c) \in 1 .. CACHE_HOT_COUNT /\ HeatAfter(1) = 1
           /\ Hotter(HeatAfter(c)) = HeatAfter(c + 1)
           /\ HeatAfter(c) >= CACHE_HOT_COUNT <=> c > CACHE_HOT_COUNT \div 2
<1>1. PICK m \in Nat : m = CACHE_HOT_COUNT \div 2
    OBVIOUS
<1>2. CACHE_HOT_COUNT = 2 * m \/ CACHE_HOT_COUNT = 2 * m + 1
    <2>1. PICK n \in Nat : n = CACHE_HOT_COUNT
        OBVIOUS
    <2>2. n = 2 * (n \div 2) + (n % 2) /\ (n % 2) \in 0 .. 1
        OBVIOUS
    <2> QED
        BY <1>1, <2>1, <2>2
<1>3. 2 * c > CACHE_HOT_COUNT <=> c > m
    BY <1>2
<1> QED
    BY <1>1, <1>2, <1>3 DEF HeatAfter, Hotter

\* A pc has at most one slot, the one its probe ends in.
LEMMA OneSlot ==
    ASSUME IndInv, NEW p \in PCs, NEW k \in Probe(p), NEW j \in Index, table[j].pc = p
    PROVE  j = Slot(p, k)
<1>1. p # 0
    OBVIOUS
<1>2. PICK k2 \in BoundedProbe(p) : Slot(p, k2) = j
    BY <1>1 DEF IndInv, EveryEntryIsFound
<1>3. k2 = k
    BY <1>2, ProbeIsUnique DEF BoundedProbe
<1> QED
    BY <1>2, <1>3

\* A lookup changes neither the table nor the heat, and hits exactly what is hot.
LEMMA LookupEffect ==
    ASSUME IndInv, NEW p \in PCs, cache_lookup(p)
    PROVE  /\ status = "run" /\ ctl \in {"idle", "miss"} /\ cur' = p
           /\ table' = table /\ calls' = calls
           /\ \/ status' = "spin" /\ ctl' = ctl /\ ret' = ret
              \/ \E i \in Index :
                    /\ \A j \in Index : table[j].pc = p => j = i
                    /\ status' = "run"
                    /\ IF table[i].pc = p /\ IsHot(i)
                       THEN ret' = table[i].offset /\ ctl' = "idle"
                       ELSE ret' = NULL /\ ctl' = "miss"
<1>1. /\ status = "run" /\ ctl \in {"idle", "miss"} /\ cur' = p
      /\ table' = table /\ calls' = calls
    BY DEF cache_lookup
<1>2. CASE Probe(p) = {}
    BY <1>1, <1>2 DEF cache_lookup
<1>3. CASE Probe(p) # {}
    <2>1. PICK k \in Probe(p) :
            LET i == Slot(p, k)
                hit == table[i].pc = p /\ IsHot(i)
            IN  /\ ret' = IF hit THEN table[i].offset ELSE NULL
                /\ ctl' = IF hit THEN "idle" ELSE "miss"
        BY <1>3 DEF cache_lookup
    <2>2. PICK i : i = Slot(p, k)
        OBVIOUS
    <2>3. i \in Index
        BY <2>2, SlotIsIndex DEF Probe, Index
    <2>4. \A j \in Index : table[j].pc = p => j = i
        BY <2>2, OneSlot
    <2>5. status' = "run"
        BY <1>1, <1>3 DEF cache_lookup
    <2>6. IF table[i].pc = p /\ IsHot(i)
          THEN ret' = table[i].offset /\ ctl' = "idle"
          ELSE ret' = NULL /\ ctl' = "miss"
        BY <2>1, <2>2
    <2> QED
        BY <1>1, <2>3, <2>4, <2>5, <2>6
<1> QED
    BY <1>2, <1>3

\* cache_hot counts one call, for the current pc only.
LEMMA HotEffect ==
    ASSUME IndInv, cache_hot
    PROVE  /\ status = "run" /\ ctl = "miss" /\ cur' = cur /\ ret' = ret
           /\ calls' = [calls EXCEPT ![cur] = calls[cur] + 1]
           /\ \/ status' = "abort" /\ table' = table /\ ctl' = ctl
              \/ \E i \in Index :
                    /\ status' = "run" /\ table[i].pc \in {0, cur}
                    /\ \A j \in Index : table[j].pc = cur => j = i
                    /\ table'[i].pc = cur /\ table'[i].offset = table[i].offset
                    /\ table'[i].hot = IF table[i].pc = cur THEN Hotter(table[i].hot) ELSE 1
                    /\ \A j \in Index \ {i} : table'[j] = table[j]
                    /\ ctl' = IF table[i].pc = cur /\ Hotter(table[i].hot) >= CACHE_HOT_COUNT
                              THEN "compile" ELSE "idle"
<1>1. /\ status = "run" /\ ctl = "miss" /\ cur' = cur /\ ret' = ret
      /\ calls' = [calls EXCEPT ![cur] = calls[cur] + 1]
    BY DEF cache_hot
<1>2. CASE BoundedProbe(cur) = {}
    BY <1>1, <1>2 DEF cache_hot
<1>3. CASE BoundedProbe(cur) # {}
    <2>1. PICK k \in BoundedProbe(cur) :
            LET i == Slot(cur, k)
                known == table[i].pc = cur
                heat == IF known THEN Hotter(table[i].hot) ELSE 1
            IN  /\ table' = [table EXCEPT ![i].pc = cur, ![i].hot = heat]
                /\ ctl' = IF known /\ heat >= CACHE_HOT_COUNT THEN "compile" ELSE "idle"
        BY <1>3 DEF cache_hot
    <2>2. PICK i : i = Slot(cur, k)
        OBVIOUS
    <2>3. i \in Index /\ k \in Probe(cur) /\ cur \in PCs /\ cur \in Nat /\ Stops(cur, k)
        BY <2>2, SlotIsIndex DEF BoundedProbe, Probe, Index, IndInv, TypeOK
    <2>4. (\A j \in Index : table[j].pc = cur => j = i) /\ table[i].pc \in {0, cur}
        BY <2>2, <2>3, OneSlot DEF Stops
    <2>5. PICK heat : heat = IF table[i].pc = cur THEN Hotter(table[i].hot) ELSE 1
        OBVIOUS
    <2>6. table' = [table EXCEPT ![i].pc = cur, ![i].hot = heat]
        BY <2>1, <2>2, <2>5
    <2>7. /\ table'[i].pc = cur /\ table'[i].hot = heat /\ table'[i].offset = table[i].offset
          /\ \A j \in Index \ {i} : table'[j] = table[j]
        <3>0. table \in [Index -> Item] /\ table[i] \in Item
            BY <2>3 DEF IndInv, TypeOK
        <3>1. table[i] = [pc |-> table[i].pc, hot |-> table[i].hot, offset |-> table[i].offset]
            BY <3>0 DEF Item
        <3> QED
            BY <2>3, <2>6, <3>0, <3>1
    <2>8. /\ ctl' = IF table[i].pc = cur /\ Hotter(table[i].hot) >= CACHE_HOT_COUNT
                    THEN "compile" ELSE "idle"
          /\ status' = "run"
        BY <1>1, <1>3, <2>1, <2>2 DEF cache_hot
    <2> QED
        BY <1>1, <2>3, <2>4, <2>5, <2>7, <2>8
<1> QED
    BY <1>2, <1>3

\* cache_add finds the entry that cache_hot made, and only moves its offset.
LEMMA AddEffect ==
    ASSUME IndInv, HeatInv, NEW sec \in {"rodata", "text"}, NEW sz \in Nat, NEW align \in Nat,
           NEW next, cache_add(sec, sz, align, next)
    PROVE  /\ status = "run" /\ ctl = sec /\ cur' = cur /\ calls' = calls
           /\ \/ status' = "abort" /\ table' = table /\ ctl' = ctl
              \/ \E i \in Index :
                    /\ status' = "run" /\ ctl' = next
                    /\ table[i].pc = cur /\ IsHot(i)
                    /\ table'[i].pc = cur /\ table'[i].hot = table[i].hot
                    /\ table'[i].offset = align_to(offset, align)
                    /\ align_to(offset, align) \in 0 .. CACHE_SIZE
                    /\ \A j \in Index \ {i} : table'[j] = table[j]
<1>1. /\ status = "run" /\ ctl = sec /\ cur' = cur /\ calls' = calls
    BY DEF cache_add
<1> DEFINE at == align_to(offset, align)
<1>2. CASE at + sz > CACHE_SIZE \/ BoundedProbe(cur) = {}
    BY <1>1, <1>2 DEF cache_add
<1>3. CASE ~(at + sz > CACHE_SIZE \/ BoundedProbe(cur) = {})
    <2>1. PICK k \in BoundedProbe(cur) :
            table' = [table EXCEPT ![Slot(cur, k)].pc = cur, ![Slot(cur, k)].offset = at]
        BY <1>3 DEF cache_add
    <2>2. PICK i : i = Slot(cur, k)
        OBVIOUS
    <2>3. i \in Index /\ k \in Probe(cur) /\ cur \in PCs /\ cur \in Nat
        BY <2>2, SlotIsIndex DEF BoundedProbe, Probe, Index, IndInv, TypeOK
    <2>4. \A j \in Index : table[j].pc = cur => j = i
        BY <2>2, <2>3, OneSlot
    <2>5. table[i].pc = cur /\ IsHot(i)
        BY <1>1, <2>4 DEF HeatInv, CompiledIsHot
    <2>6. /\ table'[i].pc = cur /\ table'[i].hot = table[i].hot /\ table'[i].offset = at
          /\ \A j \in Index \ {i} : table'[j] = table[j]
        <3>0. table \in [Index -> Item] /\ table[i] \in Item
            BY <2>3 DEF IndInv, TypeOK
        <3>1. table[i] = [pc |-> table[i].pc, hot |-> table[i].hot, offset |-> table[i].offset]
            BY <3>0 DEF Item
        <3> QED
            BY <2>1, <2>2, <2>3, <3>0, <3>1
    <2>7. at \in 0 .. CACHE_SIZE
        <3>1. offset \in Nat
            BY DEF IndInv, TypeOK
        <3>2. at \in Nat
            BY <3>1, AlignUp
        <3> QED
            BY <1>3, <3>2
    <2>8. status' = "run" /\ ctl' = next
        BY <1>1, <1>3 DEF cache_add
    <2> QED
        BY <1>1, <2>3, <2>5, <2>6, <2>7, <2>8
<1> QED
    BY <1>2, <1>3

\* cache_lookup heats nothing; what it misses is not hot.
LEMMA LookupHeat ==
    ASSUME IndInv, HeatInv, NEW p \in PCs, cache_lookup(p)
    PROVE  HeatInv'
<1>1. /\ status = "run" /\ cur' = p /\ table' = table /\ calls' = calls
      /\ ctl \in {"idle", "miss"}
    BY LookupEffect
<1>2. CASE status' = "spin"
    BY <1>2 DEF HeatInv, HeatCounts, CompiledIsHot
<1>3. CASE status' # "spin"
    <2>1. PICK i \in Index :
            /\ \A j \in Index : table[j].pc = p => j = i
            /\ IF table[i].pc = p /\ IsHot(i) THEN ctl' = "idle" ELSE ctl' = "miss"
        BY <1>3, LookupEffect
    <2>2. HeatCounts'
        BY <1>1 DEF HeatInv, HeatCounts, HeatAfter
    <2>3. CompiledIsHot'
        BY <1>1, <2>1 DEF CompiledIsHot, IsHot
    <2> QED
        BY <2>2, <2>3 DEF HeatInv
<1> QED
    BY <1>2, <1>3

\* cache_hot counts one call for cur and leaves every other pc alone.
LEMMA HotHeat ==
    ASSUME IndInv, HeatInv, cache_hot
    PROVE  HeatInv'
<1>1. /\ status = "run" /\ ctl = "miss" /\ cur' = cur
      /\ calls' = [calls EXCEPT ![cur] = calls[cur] + 1]
    BY HotEffect
<1>2. cur \in PCs /\ cur # 0 /\ calls \in [PCs -> Nat] /\ \A j \in Index : table[j].pc \in PCs \cup {0}
    BY DEF IndInv, TypeOK, Layout
<1>3. CASE status' = "abort"
    BY <1>3 DEF HeatInv, HeatCounts, CompiledIsHot
<1>4. CASE status' # "abort"
    <2>1. PICK i \in Index :
            /\ table[i].pc \in {0, cur}
            /\ \A j \in Index : table[j].pc = cur => j = i
            /\ table'[i].pc = cur
            /\ table'[i].hot = IF table[i].pc = cur THEN Hotter(table[i].hot) ELSE 1
            /\ \A j \in Index \ {i} : table'[j] = table[j]
            /\ ctl' = IF table[i].pc = cur /\ Hotter(table[i].hot) >= CACHE_HOT_COUNT
                      THEN "compile" ELSE "idle"
        BY <1>4, HotEffect
    <2>2. calls'[cur] = calls[cur] + 1 /\ \A q \in PCs \ {cur} : calls'[q] = calls[q]
        BY <1>1, <1>2
    <2>3. /\ \A q \in PCs : (\A j \in Index : table[j].pc # q) => calls[q] = 0
          /\ \A j \in Index : table[j].pc # 0 =>
                calls[table[j].pc] > 0 /\ table[j].hot = HeatAfter(calls[table[j].pc])
        BY <1>1 DEF HeatInv, HeatCounts
    <2>4. ASSUME NEW q \in PCs, \A j \in Index : table'[j].pc # q
          PROVE  calls'[q] = 0
        <3>1. q # cur /\ q # 0
            BY <2>1, <2>4
        <3>2. \A j \in Index : table[j].pc # q
            BY <2>1, <2>4, <3>1
        <3> QED
            BY <2>2, <2>3, <3>1, <3>2
    <2>5. calls'[cur] > 0 /\ table'[i].hot = HeatAfter(calls'[cur])
        <3>1. CASE table[i].pc = cur
            <4>1. table[i].pc # 0 /\ calls[cur] \in Nat
                BY <1>2, <3>1
            <4>2. calls[cur] > 0 /\ table[i].hot = HeatAfter(calls[cur])
                BY <2>3, <3>1, <4>1
            <4>3. calls[cur] \in Nat \ {0}
                BY <4>1, <4>2
            <4> QED
                BY <2>1, <2>2, <3>1, <4>2, <4>3, HotterCounts
        <3>2. CASE table[i].pc # cur
            <4>1. calls[cur] = 0
                BY <1>2, <2>1, <2>3, <3>2
            <4> QED
                BY <2>1, <2>2, <3>2, <4>1, HotterCounts
        <3> QED
            BY <3>1, <3>2
    <2>6. ASSUME NEW j \in Index, table'[j].pc # 0
          PROVE  calls'[table'[j].pc] > 0 /\ table'[j].hot = HeatAfter(calls'[table'[j].pc])
        <3>1. CASE j = i
            BY <2>1, <2>5, <3>1
        <3>2. CASE j # i
            <4>1. table'[j] = table[j] /\ table[j].pc \in PCs \ {cur}
                BY <1>2, <2>1, <2>6, <3>2
            <4> QED
                BY <2>2, <2>3, <2>6, <4>1
        <3> QED
            BY <3>1, <3>2
    <2>7. HeatCounts'
        BY <2>4, <2>6 DEF HeatCounts, HeatAfter
    <2>8. CompiledIsHot'
        BY <1>1, <2>1 DEF CompiledIsHot, IsHot
    <2> QED
        BY <2>7, <2>8 DEF HeatInv
<1> QED
    BY <1>3, <1>4

\* cache_add finds cur in the table and leaves its heat alone.
LEMMA AddHeat ==
    ASSUME IndInv, HeatInv, NEW sec \in {"rodata", "text"}, NEW sz \in Nat, NEW align \in Nat,
           NEW next \in {"text", "idle"}, cache_add(sec, sz, align, next)
    PROVE  HeatInv'
<1>1. status = "run" /\ ctl = sec /\ cur' = cur /\ calls' = calls
    BY AddEffect
<1>2. CASE status' = "abort"
    BY <1>2 DEF HeatInv, HeatCounts, CompiledIsHot
<1>3. CASE status' # "abort"
    <2>1. PICK i \in Index :
            /\ ctl' = next
            /\ table[i].pc = cur /\ IsHot(i)
            /\ table'[i].pc = cur /\ table'[i].hot = table[i].hot
            /\ \A j \in Index \ {i} : table'[j] = table[j]
        BY <1>3, AddEffect
    <2>2. \A j \in Index : table'[j].pc = table[j].pc /\ table'[j].hot = table[j].hot
        BY <2>1
    <2>3. HeatCounts'
        BY <1>1, <2>2 DEF HeatInv, HeatCounts, HeatAfter
    <2>4. CompiledIsHot'
        BY <1>1, <2>1 DEF CompiledIsHot, IsHot
    <2> QED
        BY <2>3, <2>4 DEF HeatInv
<1> QED
    BY <1>2, <1>3

\* The heat of every pc follows from the number of its cold dispatches.
LEMMA HeatAlways == Spec => []HeatInv
<1>1. Init => HeatInv
    BY DEF Init, HeatInv, HeatCounts, CompiledIsHot, Index
<1>2. IndInv /\ HeatInv /\ [Next]_vars => HeatInv'
    <2> SUFFICES ASSUME IndInv, HeatInv, [Next]_vars PROVE HeatInv'
        OBVIOUS
    <2>o. obj.rodata \in Nat /\ obj.ralign \in Nat /\ obj.text \in Nat /\ obj.talign \in Nat
        BY DEF IndInv, TypeOK
    <2>1. ASSUME NEW p \in PCs, cache_lookup(p) PROVE HeatInv'
        BY <2>1, LookupHeat
    <2>2. CASE cache_hot
        BY <2>2, HotHeat
    <2>3. ASSUME NEW o \in Objects, machine_compile(o) PROVE HeatInv'
        BY <2>3 DEF machine_compile, HeatInv, HeatCounts, HeatAfter, CompiledIsHot, IsHot
    <2>4. CASE add_rodata
        BY <2>o, <2>4, AddHeat DEF add_rodata
    <2>5. CASE add_text
        BY <2>o, <2>5, AddHeat DEF add_text
    <2>6. CASE UNCHANGED vars
        BY <2>6 DEF vars, HeatInv, HeatCounts, HeatAfter, CompiledIsHot, IsHot
    <2> QED
        BY <2>1, <2>2, <2>3, <2>4, <2>5, <2>6 DEF Next
<1> QED
    BY <1>1, <1>2, IndInvAlways, PTL DEF Spec

\* A pc becomes hot on the call of cache_hot after half of CACHE_HOT_COUNT,
\* because MIN(++hot, ...) counts twice (cache.c:78), whatever collides with it.
THEOREM HotOnTime == Spec => []HotInTime
<1>1. IndInv /\ HeatInv => HotInTime
    <2> SUFFICES ASSUME IndInv, HeatInv, NEW p \in PCs, status = "run"
                 PROVE  calls[p] > CACHE_HOT_COUNT \div 2
                            <=> \E i \in Index : table[i].pc = p /\ IsHot(i)
        BY DEF HotInTime
    <2>0. calls[p] \in Nat /\ p # 0
        BY DEF IndInv, TypeOK
    <2>1. CASE \E i \in Index : table[i].pc = p
        <3>1. ASSUME NEW i \in Index, table[i].pc = p
              PROVE  IsHot(i) <=> calls[p] > CACHE_HOT_COUNT \div 2
            <4>1. calls[p] \in Nat \ {0} /\ table[i].hot = HeatAfter(calls[p])
                BY <2>0, <3>1 DEF HeatInv, HeatCounts
            <4> QED
                BY <4>1, HotterCounts DEF IsHot
        <3> QED
            BY <2>1, <3>1
    <2>2. CASE \A i \in Index : table[i].pc # p
        <3>1. calls[p] = 0
            BY <2>2 DEF HeatInv, HeatCounts
        <3> QED
            BY <2>2, <3>1
    <2> QED
        BY <2>1, <2>2
<1> QED
    BY <1>1, IndInvAlways, HeatAlways, PTL

-----------------------------------------------------------------------------
\* Refinement of CodeMap.

\* The refinement mapping, read off the one slot of a pc.
MapIsRead ==
    /\ MapHeat = [p \in PCs |-> MapHeat[p]] /\ MapEntry = [p \in PCs |-> MapEntry[p]]
    /\ \A p \in PCs, i \in Index : table[i].pc = p =>
          /\ MapHeat[p] = table[i].hot
          /\ MapEntry[p] = IF IsHot(i) /\ ~BeingCompiled(p) THEN table[i].offset ELSE NULL
    /\ \A p \in PCs : (\A i \in Index : table[i].pc # p) => MapHeat[p] = 0 /\ MapEntry[p] = NULL

\* The CHOOSE of the mapping has one candidate.
LEMMA MapRead == IndInv => MapIsRead
<1> SUFFICES ASSUME IndInv PROVE MapIsRead
    OBVIOUS
<1>1. MapHeat = [p \in PCs |-> MapHeat[p]] /\ MapEntry = [p \in PCs |-> MapEntry[p]]
    BY DEF MapHeat, MapEntry
<1>2. ASSUME NEW p \in PCs, NEW i \in Index, table[i].pc = p
      PROVE  /\ MapHeat[p] = table[i].hot
             /\ MapEntry[p] = IF IsHot(i) /\ ~BeingCompiled(p) THEN table[i].offset ELSE NULL
    <2>1. PICK k \in BoundedProbe(p) : Slot(p, k) = i
        BY <1>2 DEF IndInv, EveryEntryIsFound
    <2>2. \A j \in Index : table[j].pc = p => j = i
        BY <2>1, OneSlot DEF BoundedProbe
    <2>3. SlotOf(p) = {i}
        BY <1>2, <2>2 DEF SlotOf
    <2>4. (CHOOSE j \in SlotOf(p) : TRUE) = i
        BY <2>3
    <2> QED
        BY <2>3, <2>4 DEF MapHeat, MapEntry
<1>3. ASSUME NEW p \in PCs, \A i \in Index : table[i].pc # p
      PROVE  MapHeat[p] = 0 /\ MapEntry[p] = NULL
    <2>1. SlotOf(p) = {}
        BY <1>3 DEF SlotOf
    <2> QED
        BY <2>1 DEF MapHeat, MapEntry
<1> QED
    BY <1>1, <1>2, <1>3 DEF MapIsRead

\* A call on cur does not show in the entry of another pc.
LEMMA OthersUndisturbed ==
    ASSUME MapIsRead, MapIsRead', NEW i \in Index, table[i].pc \in {0, cur}, cur' = cur,
           table'[i].pc = cur, \A j \in Index \ {i} : table'[j] = table[j],
           NEW q \in PCs \ {cur}
    PROVE  MapHeat'[q] = MapHeat[q] /\ MapEntry'[q] = MapEntry[q]
<1>1. ~BeingCompiled(q) /\ ~BeingCompiled(q)' /\ q # 0
    BY DEF BeingCompiled
<1>2. CASE \E j \in Index : table[j].pc = q
    <2>1. PICK j \in Index : table[j].pc = q
        BY <1>2
    <2>2. table'[j] = table[j]
        BY <1>1, <2>1
    <2>3. /\ MapHeat[q] = table[j].hot
          /\ MapEntry[q] = IF IsHot(j) /\ ~BeingCompiled(q) THEN table[j].offset ELSE NULL
        BY <2>1 DEF MapIsRead
    <2>4. /\ MapHeat'[q] = table'[j].hot
          /\ MapEntry'[q] = IF IsHot(j)' /\ ~BeingCompiled(q)' THEN table'[j].offset ELSE NULL
        BY <2>1, <2>2 DEF MapIsRead
    <2> QED
        BY <1>1, <2>2, <2>3, <2>4 DEF IsHot
<1>3. CASE \A j \in Index : table[j].pc # q
    <2>1. \A j \in Index : table'[j].pc # q
        BY <1>3
    <2> QED
        BY <1>3, <2>1 DEF MapIsRead
<1> QED
    BY <1>2, <1>3

\* A call that fails leaves every entry as it was.
LEMMA FailureIsFail ==
    ASSUME status = "run", status' # "run", table' = table, ret' = ret, cur' \in PCs,
           MapEntry' = MapEntry, ctl \in {"idle", "miss", "compile", "rodata", "text"}
    PROVE  Map!Fail
<1>1. MapHeat' = MapHeat
    BY DEF MapHeat, SlotOf
<1>2. MapStage # "dead" /\ MapStage' = "dead"
    BY DEF MapStage
<1> QED
    BY <1>1, <1>2 DEF Map!Fail

\* cache_lookup is Find of the abstract map, or fails.
LEMMA LookupIsFind ==
    ASSUME IndInv, MapIsRead, NEW p \in PCs, cache_lookup(p)
    PROVE  Map!Find(p) \/ Map!Fail
<1>1. /\ status = "run" /\ ctl \in {"idle", "miss"} /\ cur' = p /\ table' = table
      /\ ctl' \in {"idle", "miss"}
    BY LookupEffect
<1>2. MapHeat' = MapHeat
    BY <1>1 DEF MapHeat, SlotOf
<1>3. MapEntry' = MapEntry
    <2>1. \A q \in PCs : ~BeingCompiled(q) /\ ~BeingCompiled(q)'
        BY <1>1 DEF BeingCompiled
    <2> QED
        BY <1>1, <2>1 DEF MapEntry, SlotOf, IsHot
<1>4. CASE status' = "spin"
    <2>1. ret' = ret
        BY <1>4, LookupEffect
    <2> QED
        BY <1>1, <1>3, <1>4, <2>1, FailureIsFail
<1>5. CASE status' # "spin"
    <2>1. PICK i \in Index :
            /\ \A j \in Index : table[j].pc = p => j = i
            /\ status' = "run"
            /\ IF table[i].pc = p /\ IsHot(i)
               THEN ret' = table[i].offset /\ ctl' = "idle"
               ELSE ret' = NULL /\ ctl' = "miss"
        BY <1>5, LookupEffect
    <2>2. MapEntry[p] = IF table[i].pc = p /\ IsHot(i) THEN table[i].offset ELSE NULL
        <3>1. CASE table[i].pc = p
            BY <1>1, <3>1 DEF MapIsRead, BeingCompiled
        <3>2. CASE table[i].pc # p
            <4>1. \A j \in Index : table[j].pc # p
                BY <2>1, <3>2
            <4> QED
                BY <3>2, <4>1 DEF MapIsRead
        <3> QED
            BY <3>1, <3>2
    <2>3. table[i].offset # NULL
        <3>1. table[i].offset \in Nat
            BY DEF IndInv, TypeOK, Item
        <3> QED
            BY <3>1
    <2>4. MapStage = ctl /\ MapStage' = ctl'
        BY <1>1, <2>1 DEF MapStage
    <2>5. ret' = MapEntry[p] /\ ctl' = IF MapEntry[p] = NULL THEN "miss" ELSE "idle"
        BY <2>1, <2>2, <2>3
    <2> QED
        BY <1>1, <1>2, <1>3, <2>4, <2>5 DEF Map!Find
<1> QED
    BY <1>4, <1>5

\* cache_hot is Warm of the abstract map, or fails.
LEMMA HotIsWarm ==
    ASSUME IndInv, HeatInv, MapIsRead, MapIsRead', cache_hot
    PROVE  Map!Warm \/ Map!Fail
<1>1. status = "run" /\ ctl = "miss" /\ cur' = cur /\ ret' = ret /\ cur \in PCs
    BY HotEffect DEF IndInv, TypeOK
<1>2. CASE status' = "abort"
    <2>1. table' = table /\ ctl' = ctl
        BY <1>2, HotEffect
    <2>2. MapEntry' = MapEntry
        BY <1>1, <2>1 DEF MapEntry, SlotOf, IsHot, BeingCompiled
    <2> QED
        BY <1>1, <1>2, <2>1, <2>2, FailureIsFail
<1>3. CASE status' # "abort"
    <2>1. PICK i \in Index :
            /\ status' = "run" /\ table[i].pc \in {0, cur}
            /\ \A j \in Index : table[j].pc = cur => j = i
            /\ table'[i].pc = cur
            /\ table'[i].hot = IF table[i].pc = cur THEN Hotter(table[i].hot) ELSE 1
            /\ \A j \in Index \ {i} : table'[j] = table[j]
            /\ ctl' = IF table[i].pc = cur /\ Hotter(table[i].hot) >= CACHE_HOT_COUNT
                      THEN "compile" ELSE "idle"
        BY <1>3, HotEffect
    <2>2. PICK h : h = table'[i].hot
        OBVIOUS
    <2>3. \A q \in PCs \ {cur} : MapHeat'[q] = MapHeat[q] /\ MapEntry'[q] = MapEntry[q]
        BY <1>1, <2>1, OthersUndisturbed
    <2>4. MapHeat'[cur] = h /\ MapEntry'[cur] =
            IF h >= CACHE_HOT_COUNT /\ ctl' \notin {"compile", "rodata", "text"}
            THEN table'[i].offset ELSE NULL
        BY <1>1, <2>1, <2>2 DEF MapIsRead, IsHot, BeingCompiled
    <2>5. CASE table[i].pc = cur
        <3>1. table[i].hot \in Nat /\ table[i].hot < CACHE_HOT_COUNT /\ ~IsHot(i)
            BY <1>1, <2>5 DEF IndInv, TypeOK, Item, HeatInv, CompiledIsHot, IsHot
        <3>2. MapHeat[cur] = table[i].hot /\ MapEntry[cur] = NULL
            BY <1>1, <2>5, <3>1 DEF MapIsRead
        <3>3. h \in table[i].hot + 1 .. CACHE_HOT_COUNT
            BY <2>1, <2>2, <2>5, <3>1 DEF Hotter
        <3>4. MapEntry'[cur] = NULL /\ ctl' = IF h = CACHE_HOT_COUNT THEN "compile" ELSE "idle"
            BY <2>1, <2>2, <2>4, <2>5, <3>3
        <3> QED
            BY <1>1, <2>1, <2>3, <2>4, <3>2, <3>3, <3>4
               DEF MapIsRead, MapStage, Map!Warm
    <2>6. CASE table[i].pc # cur
        <3>1. \A j \in Index : table[j].pc # cur
            BY <2>1, <2>6
        <3>2. MapHeat[cur] = 0 /\ MapEntry[cur] = NULL
            BY <1>1, <3>1 DEF MapIsRead
        <3>3. h = 1 /\ h \in 0 + 1 .. CACHE_HOT_COUNT /\ h # CACHE_HOT_COUNT /\ ctl' = "idle"
            BY <2>1, <2>2, <2>6
        <3>4. MapEntry'[cur] = NULL
            BY <2>4, <3>3
        <3> QED
            BY <1>1, <2>1, <2>3, <2>4, <3>2, <3>3, <3>4
               DEF MapIsRead, MapStage, Map!Warm
    <2> QED
        BY <2>5, <2>6
<1> QED
    BY <1>2, <1>3

\* What cache_add shows of itself: nothing while more sections follow, and
\* with the last one the code of cur.
LEMMA AddIsInstall ==
    ASSUME IndInv, HeatInv, MapIsRead, MapIsRead',
           NEW sec \in {"rodata", "text"}, NEW sz \in Nat, NEW align \in Nat,
           NEW next \in {"text", "idle"}, cache_add(sec, sz, align, next),
           status' = "run"
    PROVE  /\ cur' = cur /\ ctl' = next /\ MapStage = "compile"
           /\ MapHeat' = MapHeat /\ MapEntry[cur] = NULL
           /\ align_to(offset, align) \in 0 .. CACHE_SIZE
           /\ MapEntry' = [MapEntry EXCEPT ![cur] =
                             IF next = "text" THEN NULL ELSE align_to(offset, align)]
<1>1. status = "run" /\ ctl = sec /\ cur' = cur /\ cur \in PCs
    BY AddEffect DEF IndInv, TypeOK
<1>2. PICK i \in Index :
        /\ ctl' = next
        /\ table[i].pc = cur /\ IsHot(i)
        /\ table'[i].pc = cur /\ table'[i].hot = table[i].hot
        /\ table'[i].offset = align_to(offset, align)
        /\ align_to(offset, align) \in 0 .. CACHE_SIZE
        /\ \A j \in Index \ {i} : table'[j] = table[j]
    BY AddEffect
<1>3. \A q \in PCs \ {cur} : MapHeat'[q] = MapHeat[q] /\ MapEntry'[q] = MapEntry[q]
    BY <1>1, <1>2, OthersUndisturbed
<1>4. BeingCompiled(cur) /\ (BeingCompiled(cur)' <=> next = "text") /\ IsHot(i)'
    BY <1>1, <1>2 DEF BeingCompiled, IsHot
<1>5. MapHeat[cur] = table[i].hot /\ MapEntry[cur] = NULL
    BY <1>1, <1>2, <1>4 DEF MapIsRead
<1>6. MapHeat'[cur] = table[i].hot
      /\ MapEntry'[cur] = IF next = "text" THEN NULL ELSE align_to(offset, align)
    BY <1>1, <1>2, <1>4 DEF MapIsRead
<1>7. MapHeat' = MapHeat
    BY <1>3, <1>5, <1>6 DEF MapIsRead
<1>8. MapEntry' = [MapEntry EXCEPT ![cur] =
                     IF next = "text" THEN NULL ELSE align_to(offset, align)]
    BY <1>1, <1>3, <1>6 DEF MapIsRead
<1> QED
    BY <1>1, <1>2, <1>5, <1>7, <1>8 DEF MapStage

\* A cache_add that fails an assertion is Fail of the abstract map.
LEMMA AddFailureIsFail ==
    ASSUME IndInv, HeatInv, NEW sec \in {"rodata", "text"}, NEW sz \in Nat, NEW align \in Nat,
           NEW next \in {"text", "idle"}, cache_add(sec, sz, align, next),
           status' # "run", ret' = ret
    PROVE  Map!Fail
<1>1. /\ status = "run" /\ ctl = sec /\ cur' = cur /\ table' = table /\ ctl' = ctl
      /\ cur \in PCs
    BY AddEffect DEF IndInv, TypeOK
<1>2. MapEntry' = MapEntry
    BY <1>1 DEF MapEntry, SlotOf, IsHot, BeingCompiled
<1> QED
    BY <1>1, <1>2, FailureIsFail

\* Every step of the cache is a step of the abstract map or changes nothing of it.
LEMMA StepIsMapped ==
    ASSUME IndInv, HeatInv, MapIsRead, MapIsRead', [Next]_vars
    PROVE  [Map!MapNext]_(Map!mapVars)
<1>o. obj.rodata \in Nat /\ obj.ralign \in Nat /\ obj.text \in Nat /\ obj.talign \in Nat
    BY DEF IndInv, TypeOK
<1>1. ASSUME NEW p \in PCs, cache_lookup(p) PROVE Map!MapNext
    BY <1>1, LookupIsFind DEF Map!MapNext
<1>2. CASE cache_hot
    BY <1>2, HotIsWarm DEF Map!MapNext
<1>3. ASSUME NEW o \in Objects, machine_compile(o) PROVE UNCHANGED Map!mapVars
    <2>1. /\ table' = table /\ cur' = cur /\ ret' = ret /\ status' = status
          /\ ctl = "compile" /\ ctl' \in {"text", "rodata"} /\ status = "run"
        BY <1>3 DEF machine_compile
    <2>2. MapHeat' = MapHeat
        BY <2>1 DEF MapHeat, SlotOf
    <2>3. MapEntry' = MapEntry
        BY <2>1 DEF MapEntry, SlotOf, IsHot, BeingCompiled
    <2>4. MapStage' = MapStage
        BY <2>1 DEF MapStage
    <2> QED
        BY <2>1, <2>2, <2>3, <2>4 DEF Map!mapVars
<1>4. CASE add_rodata
    <2>1. cache_add("rodata", obj.rodata, obj.ralign, "text") /\ ret' = ret
        BY <1>4 DEF add_rodata
    <2>2. CASE status' = "run"
        <3>1. /\ cur' = cur /\ ctl' = "text" /\ MapStage = "compile"
              /\ MapHeat' = MapHeat /\ MapEntry[cur] = NULL
              /\ MapEntry' = [MapEntry EXCEPT ![cur] = NULL]
            BY <1>o, <2>1, <2>2, AddIsInstall
        <3>2. MapEntry' = MapEntry
            BY <3>1 DEF MapIsRead
        <3>3. MapStage' = MapStage
            BY <2>2, <3>1 DEF MapStage
        <3> QED
            BY <2>1, <3>1, <3>2, <3>3 DEF Map!mapVars
    <2>3. CASE status' # "run"
        BY <1>o, <2>1, <2>3, AddFailureIsFail DEF Map!MapNext
    <2> QED
        BY <2>2, <2>3
<1>5. CASE add_text
    <2>1. /\ cache_add("text", obj.text, obj.talign, "idle")
          /\ ret' = IF status' = "run" THEN align_to(offset, obj.talign) ELSE ret
        BY <1>5 DEF add_text
    <2>2. CASE status' = "run"
        <3>1. /\ cur' = cur /\ ctl' = "idle" /\ MapStage = "compile"
              /\ MapHeat' = MapHeat /\ MapEntry[cur] = NULL
              /\ align_to(offset, obj.talign) \in 0 .. CACHE_SIZE
              /\ MapEntry' = [MapEntry EXCEPT ![cur] = align_to(offset, obj.talign)]
            BY <1>o, <2>1, <2>2, AddIsInstall
        <3>2. MapStage' = "idle"
            BY <2>2, <3>1 DEF MapStage
        <3>3. Map!Install
            BY <2>1, <2>2, <3>1, <3>2 DEF Map!Install
        <3> QED
            BY <3>3 DEF Map!MapNext
    <2>3. CASE status' # "run"
        BY <1>o, <2>1, <2>3, AddFailureIsFail DEF Map!MapNext
    <2> QED
        BY <2>2, <2>3
<1>6. CASE UNCHANGED vars
    BY <1>6 DEF vars, MapHeat, MapEntry, MapStage, SlotOf, IsHot, BeingCompiled, Map!mapVars
<1> QED
    BY <1>1, <1>2, <1>3, <1>4, <1>5, <1>6 DEF Next

\* Hashing, probing, double counting and buffer layout are invisible to
\* machine_step: every behaviour of cache_lookup, cache_hot and cache_add
\* (cache.c:23-91) is one of a map with an independent entry per pc.
THEOREM CacheImplementsCodeMap == Spec => ImplementsCodeMap
<1>1. Init => Map!MapInit
    <2> SUFFICES ASSUME Init PROVE Map!MapInit
        OBVIOUS
    <2>1. \A p \in PCs : SlotOf(p) = {}
        BY DEF Init, SlotOf
    <2>2. MapHeat = [p \in PCs |-> 0] /\ MapEntry = [p \in PCs |-> NULL]
        BY <2>1 DEF MapHeat, MapEntry
    <2> QED
        BY <2>2 DEF Init, MapStage, Map!MapInit
<1>2. IndInv /\ HeatInv /\ MapIsRead /\ MapIsRead' /\ [Next]_vars => [Map!MapNext]_(Map!mapVars)
    BY StepIsMapped
<1> QED
    BY <1>1, <1>2, MapRead, IndInvAlways, HeatAlways, PTL
       DEF Spec, ImplementsCodeMap, Map!MapSpec
=============================================================================
