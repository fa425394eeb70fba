------------------------------- MODULE Cache -------------------------------
(***************************************************************************)
(* The code cache of src/src/cache.c: an open-addressing hash table keyed  *)
(* by guest pc (pc = 0 marks a free slot) over an append-only buffer of    *)
(* machine code.  The calls come in the order in which machine_step        *)
(* (src/src/machine.c:19-49) and machine_compile (src/src/compile.c:59-72) *)
(* issue them:  cache_lookup;  on a miss cache_hot;  if that says hot,     *)
(* cache_add of .rodata (when the object has one) and cache_add of .text.  *)
(***************************************************************************)
EXTENDS Naturals

CONSTANTS
    CACHE_ENTRY_SIZE,  \* slots of the table
    CACHE_SIZE,        \* bytes of the code buffer
    MAX_SEARCH_COUNT,  \* probes cache_hot and cache_add may make
    CACHE_HOT_COUNT,   \* heat at which a pc is compiled
    PCs,               \* guest addresses that are dispatched
    Objects,           \* what clang may return: sizes and alignments
    NULL               \* the null pointer

ASSUME SizesAssumption ==
    /\ CACHE_ENTRY_SIZE \in Nat \ {0}
    /\ CACHE_SIZE \in Nat
    /\ MAX_SEARCH_COUNT \in Nat
    /\ CACHE_HOT_COUNT \in Nat /\ CACHE_HOT_COUNT >= 2

\* cache_lookup asserts pc != 0, and 0 is the mark of a free slot.
ASSUME PCsAssumption == PCs \subseteq Nat \ {0} /\ PCs # {}

\* rodata = 0 stands for an object without a .rodata.* section.
ASSUME ObjectsAssumption ==
    Objects \subseteq [text : Nat \ {0}, talign : Nat, rodata : Nat, ralign : Nat]

\* A byte of the buffer: byte k of the section sec, of size sz, compiled for pc.
Byte == [pc : PCs, sec : {"text", "rodata"}, sz : Nat, k : Nat]

ASSUME NullAssumption == NULL \notin Nat \cup Byte

VARIABLES
    table,    \* cache->table
    offset,   \* cache->offset
    jitcode,  \* cache->jitcode: what each byte of the buffer holds
    ctl,      \* which call comes next
    status,   \* "run", "abort" (an assertion failed) or "spin" (no return)
    cur,      \* the pc being dispatched
    obj,      \* the object being installed
    ret,      \* the code pointer the dispatcher last got, as an offset
    calls     \* history: calls of cache_hot, per pc

vars == <<table, offset, jitcode, ctl, status, cur, obj, ret, calls>>

Index == 0 .. CACHE_ENTRY_SIZE - 1

Item == [pc : Nat, hot : Nat, offset : Nat]

hash(pc) == pc % CACHE_ENTRY_SIZE

\* The slot reached after k turns of "index++; index = hash(index)".
Slot(pc, k) == hash(hash(pc) + k)

\* Mutant: two pcs with the same hash are taken for the same key.
Stops_same_hash(pc, k) ==
    table[Slot(pc, k)].pc = 0 \/ hash(table[Slot(pc, k)].pc) = hash(pc)

\* The loops stop at a free slot or at the pc itself.
Stops(pc, k) == table[Slot(pc, k)].pc \in {0, pc}

\* Mutant: the probe gives up before the last slot.
Probe_short(pc) ==
    { k \in 0 .. CACHE_ENTRY_SIZE - 2 : Stops(pc, k) /\ \A j \in 0 .. k-1 : ~Stops(pc, j) }

\* Where an unbounded probe ends: a singleton, or {} when it never ends.
Probe(pc) ==
    { k \in Index : Stops(pc, k) /\ \A j \in 0 .. k-1 : ~Stops(pc, j) }

\* assert(++search_count <= MAX_SEARCH_COUNT) admits MAX_SEARCH_COUNT moves.
BoundedProbe(pc) == { k \in Probe(pc) : k <= MAX_SEARCH_COUNT }

\* Mutant: > instead of >=, on a counter that saturates at the limit.
IsHot_strict(i) == table[i].hot > CACHE_HOT_COUNT

IsHot(i) == table[i].hot >= CACHE_HOT_COUNT

\* MIN(++hot, CACHE_HOT_COUNT): the macro evaluates its argument a second
\* time when the first value is below the limit.
Hotter(h) == IF CACHE_HOT_COUNT > h + 1 THEN h + 2 ELSE CACHE_HOT_COUNT

\* Mutant: rounds down.
align_to_down(val, align) ==
    IF align = 0 THEN val ELSE (val \div align) * align

align_to(val, align) ==
    IF align = 0 THEN val ELSE ((val + align - 1) \div align) * align

Init ==
    /\ table = [i \in Index |-> [pc |-> 0, hot |-> 0, offset |-> 0]]
    /\ offset = 0
    /\ jitcode = [b \in 0 .. CACHE_SIZE - 1 |-> NULL]
    /\ ctl = "idle" /\ status = "run"
    /\ cur \in PCs
    /\ obj \in Objects
    /\ ret = NULL
    /\ calls = [p \in PCs |-> 0]

\* u8 *cache_lookup(cache, pc): no bound on the probe.  It may follow a miss:
\* machine_step looks the target of a branch up twice (machine.c:49 and 19).
cache_lookup(pc) ==
    /\ status = "run" /\ ctl \in {"idle", "miss"}
    /\ cur' = pc
    /\ IF Probe(pc) = {}
       THEN status' = "spin" /\ UNCHANGED <<ctl, ret>>
       ELSE /\ \E k \in Probe(pc) :
                 LET i == Slot(pc, k)
                     hit == table[i].pc = pc /\ IsHot(i)
                 IN  /\ ret' = IF hit THEN table[i].offset ELSE NULL
                     /\ ctl' = IF hit THEN "idle" ELSE "miss"
            /\ UNCHANGED status
    /\ UNCHANGED <<table, offset, jitcode, obj, calls>>

\* Mutant: the new entry is stored one slot after the one the probe found.
cache_hot_off_by_one ==
    /\ status = "run" /\ ctl = "miss"
    /\ calls' = [calls EXCEPT ![cur] = @ + 1]
    /\ \E k \in BoundedProbe(cur) :
         LET i == IF table[Slot(cur, k)].pc = cur THEN Slot(cur, k) ELSE Slot(cur, k + 1)
             heat == IF table[i].pc = cur THEN Hotter(table[i].hot) ELSE 1
         IN  /\ table' = [table EXCEPT ![i].pc = cur, ![i].hot = heat]
             /\ ctl' = IF heat >= CACHE_HOT_COUNT THEN "compile" ELSE "idle"
    /\ UNCHANGED <<offset, jitcode, status, cur, obj, ret>>

\* bool cache_hot(cache, pc): heats the entry, or creates it with hot = 1.
cache_hot ==
    /\ status = "run" /\ ctl = "miss"
    /\ calls' = [calls EXCEPT ![cur] = @ + 1]
    /\ IF BoundedProbe(cur) = {}
       THEN status' = "abort" /\ UNCHANGED <<table, ctl>>
       ELSE /\ \E k \in BoundedProbe(cur) :
                 LET i == Slot(cur, k)
                     known == table[i].pc = cur
                     heat == IF known THEN Hotter(table[i].hot) ELSE 1
                 IN  /\ table' = [table EXCEPT ![i].pc = cur, ![i].hot = heat]
                     /\ ctl' = IF known /\ heat >= CACHE_HOT_COUNT
                               THEN "compile" ELSE "idle"
            /\ UNCHANGED status
    /\ UNCHANGED <<offset, jitcode, cur, obj, ret>>

\* clang answers: the sections of the object decide which cache_add is first.
machine_compile(o) ==
    /\ status = "run" /\ ctl = "compile"
    /\ obj' = o
    /\ ctl' = IF o.rodata = 0 THEN "text" ELSE "rodata"
    /\ UNCHANGED <<table, offset, jitcode, status, cur, ret, calls>>

\* Mutant: the space check forgets the size of the section.
cache_add_unchecked(sec, sz, align, next) ==
    LET at == align_to(offset, align) IN
    /\ status = "run" /\ ctl = sec
    /\ at <= CACHE_SIZE
    /\ \E k \in BoundedProbe(cur) :
         table' = [table EXCEPT ![Slot(cur, k)].pc = cur,
                                ![Slot(cur, k)].offset = at]
    /\ jitcode' = [b \in DOMAIN jitcode |->
                     IF b \in at .. at + sz - 1
                     THEN [pc |-> cur, sec |-> sec, sz |-> sz, k |-> b - at]
                     ELSE jitcode[b]]
    /\ offset' = at + sz
    /\ ctl' = next
    /\ UNCHANGED <<cur, obj, calls, status>>

\* u8 *cache_add(cache, pc, code, sz, align): appends a section to the buffer
\* and points the entry of pc at it.  hot is left alone.
cache_add(sec, sz, align, next) ==
    LET at == align_to(offset, align) IN
    /\ status = "run" /\ ctl = sec
    /\ IF at + sz > CACHE_SIZE \/ BoundedProbe(cur) = {}
       THEN status' = "abort" /\ UNCHANGED <<table, offset, jitcode, ctl>>
       ELSE /\ \E k \in BoundedProbe(cur) :
                 table' = [table EXCEPT ![Slot(cur, k)].pc = cur,
                                        ![Slot(cur, k)].offset = at]
            /\ jitcode' = [b \in DOMAIN jitcode |->
                             IF b \in at .. at + sz - 1
                             THEN [pc |-> cur, sec |-> sec, sz |-> sz, k |-> b - at]
                             ELSE jitcode[b]]
            /\ offset' = at + sz
            /\ ctl' = next
            /\ UNCHANGED status
    /\ UNCHANGED <<cur, obj, calls>>

\* Mutant: returns after .rodata, leaving the hot entry pointing at it.
add_rodata_only ==
    /\ cache_add("rodata", obj.rodata, obj.ralign, "idle")
    /\ UNCHANGED ret

\* rodata_addr stays with the mini-linker.
add_rodata ==
    /\ cache_add("rodata", obj.rodata, obj.ralign, "text")
    /\ UNCHANGED ret

\* text_addr is the code machine_step runs.
add_text ==
    /\ cache_add("text", obj.text, obj.talign, "idle")
    /\ ret' = IF status' = "run" THEN align_to(offset, obj.talign) ELSE ret

Next ==
    \/ \E p \in PCs : cache_lookup(p)
    \/ cache_hot
    \/ \E o \in Objects : machine_compile(o)
    \/ add_rodata
    \/ add_text

Spec == Init /\ [][Next]_vars
-----------------------------------------------------------------------------
\* Types of the cache's state.
TypeOK ==
    /\ table \in [Index -> Item]
    /\ offset \in 0 .. CACHE_SIZE
    /\ jitcode \in [0 .. CACHE_SIZE - 1 -> Byte \cup {NULL}]
    /\ ctl \in {"idle", "miss", "compile", "rodata", "text"}
    /\ status \in {"run", "abort", "spin"}
    /\ cur \in PCs
    /\ obj \in Objects
    /\ ret \in Nat \cup {NULL}
    /\ calls \in [PCs -> Nat]

\* Every pc stored in the table is where a probe for it stops, within the
\* number of moves cache_hot and cache_add allow themselves: no insertion of
\* another pc breaks a probe chain, and no pc is stored twice.
EveryEntryIsFound ==
    \A i \in Index :
        table[i].pc # 0 =>
            \E k \in BoundedProbe(table[i].pc) : Slot(table[i].pc, k) = i

\* Byte b of the buffer starts an intact copy of the .text compiled for p.
TextAt(p, b) ==
    /\ b \in DOMAIN jitcode
    /\ jitcode[b] # NULL
    /\ \A k \in 0 .. jitcode[b].sz - 1 :
         /\ b + k \in DOMAIN jitcode
         /\ jitcode[b + k] = [pc |-> p, sec |-> "text", sz |-> jitcode[b].sz, k |-> k]

\* An entry is hot from cache_hot on, but has code only after the last
\* cache_add; in between its offset is 0 or that of .rodata.
BeingCompiled(p) == cur = p /\ ctl \in {"compile", "rodata", "text"}

\* Whenever cache_lookup may be called, an entry it would return is the intact
\* .text of that very pc: never a stale offset, never .rodata, never bytes
\* that a later block has overwritten.
HotEntryIsRunnable ==
    \A i \in Index :
        table[i].pc # 0 /\ IsHot(i) /\ ~BeingCompiled(table[i].pc)
            => TextAt(table[i].pc, table[i].offset)

\* A pc becomes hot on one and the same cold dispatch, whatever collides with
\* it: the first call of cache_hot counts one and every other one two, so it is
\* not the CACHE_HOT_COUNT-th, as doc/STAGE_II.md:47 has it, but the one after
\* half of that.
HotInTime ==
    \A p \in PCs :
        status = "run" =>
            (calls[p] > CACHE_HOT_COUNT \div 2 <=> \E i \in Index : table[i].pc = p /\ IsHot(i))

\* cache_lookup fails to return only when no slot is free.
SpinsOnlyWhenFull ==
    status = "spin" => \A i \in Index : table[i].pc # 0

\* Code is never moved or overwritten: blocks keep absolute addresses of their
\* .rodata, and machine_step keeps code pointers across calls.
CodeNeverChanges ==
    [][\A b \in DOMAIN jitcode : jitcode[b] # NULL => jitcode'[b] = jitcode[b]]_vars

\* The cache implements one independent entry per pc.
SlotOf(p) == { i \in Index : table[i].pc = p }

MapHeat ==
    [p \in PCs |-> IF SlotOf(p) = {} THEN 0 ELSE table[CHOOSE i \in SlotOf(p) : TRUE].hot]

MapEntry ==
    [p \in PCs |-> IF \E i \in SlotOf(p) : IsHot(i) /\ ~BeingCompiled(p)
                   THEN table[CHOOSE i \in SlotOf(p) : TRUE].offset ELSE NULL]

MapStage ==
    IF status # "run" THEN "dead" ELSE IF ctl \in {"rodata", "text"} THEN "compile" ELSE ctl

Map == INSTANCE CodeMap WITH heat <- MapHeat, entry <- MapEntry, stage <- MapStage

\* Hashing, probing and layout are invisible to the dispatcher: the cache is
\* CodeMap, in which an operation on one pc never touches another.
ImplementsCodeMap == Map!MapSpec
=============================================================================
