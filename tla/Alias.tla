------------------------------- MODULE Alias -------------------------------
(***************************************************************************)
(* The order of a block's memory accesses.  The interpreter makes them one *)
(* by one (src/src/interpret.c:20-139, 370-391).  Generated code makes     *)
(* each through a pointer to a C type that its func_* names (MEM_LOAD and  *)
(* MEM_STORE, src/src/codegen.c:92-98), and clang -O3 may exchange         *)
(* accesses whose types say that they do not overlap.  A guest knows no    *)
(* types: it may store a word with sw and load it with flw.                *)
(***************************************************************************)
EXTENDS Integers, Sequences

CONSTANTS
    Blocks,  \* blocks: sequences of accesses [insn, reg], reg holds the address
    Addrs,   \* bound: addresses that registers may hold
    Top      \* bound: bytes of memory

\* The instructions that access memory, and the bytes they access.
WidthOf == [lb |-> 1, lbu |-> 1, sb |-> 1, lh |-> 2, lhu |-> 2, sh |-> 2,
            lw |-> 4, lwu |-> 4, sw |-> 4, flw |-> 4, fsw |-> 4,
            ld |-> 8, sd |-> 8, fld |-> 8, fsd |-> 8]
Stores == {"sb", "sh", "sw", "sd", "fsw", "fsd"}

Access == [insn : DOMAIN WidthOf, reg : {1, 2}]

ASSUME BlocksAssumption ==
    /\ Blocks \subseteq Seq(Access) /\ Addrs \subseteq Nat /\ Top \in Nat
    /\ \A b \in Blocks : \A k \in 1 .. Len(b) : \A ad \in Addrs : ad + WidthOf[b[k].insn] <= Top

VARIABLES
    accesses,     \* the accesses of the block
    regs,         \* the registers their addresses come from
    mem, got,     \* interpreter: memory, and what each load has returned
    jmem, jgot,   \* the same for generated code
    done, jdone   \* accesses made: a number, and a set

aliasVars == <<accesses, regs, mem, got, jmem, jgot, done, jdone>>

Unread == <<>>

AliasInit ==
    /\ accesses \in Blocks /\ regs \in [{1, 2} -> Addrs]
    /\ mem = [a \in 0 .. Top - 1 |-> 0] /\ jmem = mem
    /\ got = [k \in 1 .. Len(accesses) |-> Unread] /\ jgot = got
    /\ done = 0 /\ jdone = {}

Width(k) == WidthOf[accesses[k].insn]
Bytes(k) == regs[accesses[k].reg] .. regs[accesses[k].reg] + Width(k) - 1

\* Access k: what a load returns, and memory after a store, whose bytes are
\* all marked with k.
Loaded(m, k) == [j \in 1 .. Width(k) |-> m[regs[accesses[k].reg] + j - 1]]
Stored(m, k) == [a \in DOMAIN m |-> IF a \in Bytes(k) THEN k ELSE m[a]]

IsLoad(k) == accesses[k].insn \notin Stores

interp_access ==
    /\ done < Len(accesses)
    /\ LET k == done + 1 IN
       /\ done' = k
       /\ IF IsLoad(k) THEN got' = [got EXCEPT ![k] = Loaded(mem, k)] /\ UNCHANGED mem
          ELSE mem' = Stored(mem, k) /\ UNCHANGED got
    /\ UNCHANGED <<accesses, regs, jmem, jgot, jdone>>

\* Mutant: floats are accessed as floats.
CType_float(insn) ==
    CASE insn \in {"flw", "fsw"} -> "float" [] insn \in {"fld", "fsd"} -> "double"
      [] WidthOf[insn] = 1 -> "uint8_t" [] WidthOf[insn] = 2 -> "uint16_t"
      [] WidthOf[insn] = 4 /\ insn # "flw" /\ insn # "fsw" -> "uint32_t"
      [] WidthOf[insn] = 8 /\ insn # "fld" /\ insn # "fsd" -> "uint64_t"

\* The C type that an instruction's func_* gives to MEM_LOAD or MEM_STORE.
CType(insn) ==
    CASE insn = "lb" -> "int8_t"  [] insn \in {"lbu", "sb"} -> "uint8_t"
      [] insn = "lh" -> "int16_t" [] insn \in {"lhu", "sh"} -> "uint16_t"
      [] insn = "lw" -> "int32_t" [] insn \in {"lwu", "sw", "flw", "fsw"} -> "uint32_t"
      [] insn = "ld" -> "int64_t" [] insn \in {"sd", "fld", "fsd"} -> "uint64_t"

\* clang's view of it: signed and unsigned are one type, characters are any.
TypeClass(t) ==
    CASE t \in {"int8_t", "uint8_t"} -> "char" [] t \in {"int16_t", "uint16_t"} -> "short"
      [] t \in {"int32_t", "uint32_t"} -> "int" [] t \in {"int64_t", "uint64_t"} -> "long"
      [] t \in {"float", "double"} -> t

\* clang may make access k of the block before access j: two loads, and two
\* accesses as different types that are not seen to overlap because they go
\* through the same register.
MayPass(k, j) ==
    LET tk == TypeClass(CType(accesses[k].insn))
        tj == TypeClass(CType(accesses[j].insn))
    IN  \/ IsLoad(k) /\ IsLoad(j)
        \/ tk # tj /\ "char" \notin {tk, tj} /\ accesses[k].reg # accesses[j].reg

jit_access(k) ==
    /\ k \notin jdone /\ \A j \in 1 .. k - 1 : j \in jdone \/ MayPass(k, j)
    /\ jdone' = jdone \cup {k}
    /\ IF IsLoad(k) THEN jgot' = [jgot EXCEPT ![k] = Loaded(jmem, k)] /\ UNCHANGED jmem
       ELSE jmem' = Stored(jmem, k) /\ UNCHANGED jgot
    /\ UNCHANGED <<accesses, regs, mem, got, done>>

AliasNext == interp_access \/ \E k \in 1 .. Len(accesses) : jit_access(k)

AliasSpec == AliasInit /\ [][AliasNext]_aliasVars
-----------------------------------------------------------------------------
Ended == done = Len(accesses) /\ jdone = 1 .. Len(accesses)

Agree == mem = jmem /\ got = jgot

\* The guest accesses the same bytes in two widths, none of them single bytes.
MixesWidths ==
    \E j, k \in 1 .. Len(accesses) :
        /\ Width(j) # Width(k) /\ 1 \notin {Width(j), Width(k)}
        /\ Bytes(j) \cap Bytes(k) # {}

\* Generated code leaves the memory and the registers that the interpreter
\* leaves, in whatever order clang puts the accesses, also where the guest
\* loads as a float what it stored as an integer, or byte by byte.  The
\* exception: a guest that accesses the same bytes in two widths (-O3 without
\* -fno-strict-aliasing, compile.c:17).
SameUnlessPunned == Ended /\ ~MixesWidths => Agree
=============================================================================
