-------------------------------- MODULE Alu --------------------------------
(***************************************************************************)
(* The integer instructions: what the interpreter computes                 *)
(* (src/src/interpret.c:20-326, src/inc/interpret_utils.h:6-32), what the  *)
(* C code emitted by the code generator computes                           *)
(* (src/src/codegen.c:84-421), and what the RISC-V architecture says.     *)
(* Words have W bits and half words H bits where the code has 64 and 32,   *)
(* so that wrap-around, sign extension and the shift masks all happen.     *)
(* One step executes one instruction on a memory word or two operands; the *)
(* specification is in Fpu, which adds the other instructions.             *)
(***************************************************************************)
EXTENDS Integers, Bitwise

CONSTANTS
    W, H,  \* bits of a word and of a half word: 64 and 32 in the code
    Vals,  \* bound: the register values tried
    Imms   \* bound: the immediates tried

ASSUME WidthAssumption ==
    /\ W \in Nat /\ H \in Nat /\ W = 2 * H /\ W % 8 = 0
    /\ Vals \subseteq 0 .. 2^W - 1
    /\ Imms \subseteq Int

VARIABLES
    op,      \* the instruction
    rs1,     \* for auipc the pc, for a load or a store the memory word
    rs2,     \* or the immediate
    interp,  \* what the interpreter leaves in rd, in memory, or as the
             \* condition of a branch; None before, Trap if it dies
    jit      \* the same for generated code

None == -1  \* no word
Trap == -2  \* the host's divide instruction traps: the emulator dies

Loads == {"lb", "lh", "lw", "ld", "lbu", "lhu", "lwu"}
SaveOps == {"sb", "sh", "sw", "sd"}
ImmOps == {"addi", "slli", "slti", "sltiu", "xori", "srli", "srai", "ori", "andi",
           "addiw", "slliw", "srliw", "sraiw", "lui", "auipc"}
WordDivs == {"divw", "divuw", "remw", "remuw"}
RegOps == {"add", "sll", "slt", "sltu", "xor", "srl", "or", "and", "mul", "mulh", "mulhsu",
           "mulhu", "sub", "sra", "remu", "addw", "sllw", "srlw", "mulw", "subw", "sraw",
           "div", "divu", "rem"} \cup WordDivs
Branches == {"beq", "bne", "blt", "bge", "bltu", "bgeu"}

IntOps == Loads \cup SaveOps \cup ImmOps \cup RegOps \cup Branches

AluInit ==
    /\ \/ op \in Loads /\ rs1 \in Vals /\ rs2 = 0
       \/ op \in SaveOps \cup RegOps \cup Branches /\ rs1 \in Vals /\ rs2 \in Vals
       \/ op \in ImmOps /\ rs1 \in Vals /\ rs2 \in Imms
    /\ interp = None /\ jit = None
-----------------------------------------------------------------------------
\* C's conversions to integer types of n bits, and its division.
Unsigned(v, n) == v % 2^n
Signed(v, n) == LET u == v % 2^n IN IF u >= 2^(n-1) THEN u - 2^n ELSE u

U64(v) == Unsigned(v, W)
I64(v) == Signed(v, W)
U32(v) == Unsigned(v, H)
I32(v) == Signed(v, H)
Bool(b) == IF b THEN 1 ELSE 0

Abs(a) == IF a < 0 THEN -a ELSE a
CDiv(a, b) == LET q == Abs(a) \div Abs(b) IN IF (a < 0) # (b < 0) THEN -q ELSE q
CRem(a, b) == a - b * CDiv(a, b)

Shl(v, k) == v * 2^k
Shr(v, k) == v \div 2^k

UINT64_MAX == 2^W - 1
INT64_MIN == 2^(W-1)  \* as a u64

\* Mutant: the carry out of the first middle product is lost.
mulhu_no_carry(a, b) ==
    LET a0 == U32(a)  a1 == Shr(a, H)
        b0 == U32(b)  b1 == Shr(b, H)
        t1 == U64(a1 * b0 + Shr(U64(a0 * b0), H))
        t2 == U64(a0 * b1 + U32(t1))
        t3 == U64(a1 * b1 + Shr(t2, H))
    IN  Shl(Shr(t3, H), H) + U32(t3)

\* mulhu: the high word of a product from products of half words.
mulhu(a, b) ==
    LET a0 == U32(a)  a1 == Shr(a, H)
        b0 == U32(b)  b1 == Shr(b, H)
        t1 == U64(a1 * b0 + Shr(U64(a0 * b0), H))
        t2 == U64(a0 * b1 + U32(t1))
        t3 == U64(a1 * b1 + U32(Shr(t1, H)) + Shr(t2, H))
    IN  Shl(Shr(t3, H), H) + U32(t3)

\* mulh and mulhsu: the sign is put back by hand; zero says whether the code
\* takes the product a * b to be 0.
mulh(a, b, zero) ==
    LET res == mulhu(U64(Abs(a)), U64(Abs(b)))
    IN  IF (a < 0) # (b < 0) THEN UINT64_MAX - res + Bool(zero) ELSE res

mulhsu(a, b) ==
    LET res == mulhu(U64(Abs(a)), b)
    IN  IF a < 0 THEN UINT64_MAX - res + Bool(U64(a * b) = 0) ELSE res

Overflows(a, b) == a * b \notin -(2^(W-1)) .. 2^(W-1) - 1

\* The values a * b == 0 may have in mulh.  A signed product that overflows is
\* undefined: it may wrap, or the compiler may test a == 0 || b == 0 instead,
\* as clang -O3 does.
ProductIsZero(a, b) ==
    IF Overflows(a, b) THEN {U64(a * b) = 0, FALSE} ELSE {a * b = 0}
-----------------------------------------------------------------------------
\* A load extends the low bits of the memory word; a store replaces them.
Extended(o, m) ==
    CASE o = "lb"  -> Signed(m, W \div 8)   [] o = "lbu" -> Unsigned(m, W \div 8)
      [] o = "lh"  -> Signed(m, W \div 4)   [] o = "lhu" -> Unsigned(m, W \div 4)
      [] o = "lw"  -> I32(m)                [] o = "lwu" -> U32(m)
      [] o = "ld"  -> I64(m)

StoreBits(o) ==
    CASE o = "sb" -> W \div 8 [] o = "sh" -> W \div 4 [] o = "sw" -> H [] o = "sd" -> W

Replaced(o, m, v) == LET n == StoreBits(o) IN (m - Unsigned(m, n)) + Unsigned(v, n)

\* The branch conditions.
Taken(o, a, b) ==
    CASE o = "beq"  -> a = b            [] o = "bne"  -> a # b
      [] o = "blt"  -> I64(a) < I64(b)  [] o = "bge"  -> I64(a) >= I64(b)
      [] o = "bltu" -> a < b            [] o = "bgeu" -> a >= b

\* The interpreter on a register and an immediate: & 0x3f is % W, & 0x1f is % H.
InterpImm(o, a, imm) ==
    CASE o = "addi"  -> a + imm
      [] o = "slli"  -> Shl(a, imm % W)
      [] o = "slti"  -> Bool(I64(a) < imm)
      [] o = "sltiu" -> Bool(a < U64(imm))
      [] o = "xori"  -> a ^^ U64(imm)
      [] o = "srli"  -> Shr(a, imm % W)
      [] o = "srai"  -> Shr(I64(a), imm % W)
      [] o = "ori"   -> a | U64(imm)
      [] o = "andi"  -> a & U64(imm)
      [] o = "addiw" -> I32(a + imm)
      [] o = "slliw" -> I32(Shl(a, imm % H))
      [] o = "srliw" -> I32(Shr(U32(a), imm % H))
      [] o = "sraiw" -> Shr(I32(a), imm % H)
      [] o = "lui"   -> imm
      [] o = "auipc" -> a + imm

\* The interpreter on two registers.
InterpReg(o, a, b, zero) ==
    CASE o = "add"    -> a + b
      [] o = "sll"    -> Shl(a, b % W)
      [] o = "slt"    -> Bool(I64(a) < I64(b))
      [] o = "sltu"   -> Bool(a < b)
      [] o = "xor"    -> a ^^ b
      [] o = "srl"    -> Shr(a, b % W)
      [] o = "or"     -> a | b
      [] o = "and"    -> a & b
      [] o = "mul"    -> a * b
      [] o = "mulh"   -> mulh(I64(a), I64(b), zero)
      [] o = "mulhsu" -> mulhsu(I64(a), b)
      [] o = "mulhu"  -> mulhu(a, b)
      [] o = "sub"    -> a - b
      [] o = "sra"    -> Shr(I64(a), b % W)
      [] o = "remu"   -> IF b = 0 THEN a ELSE a % b
      [] o = "addw"   -> I32(a + b)
      [] o = "sllw"   -> I32(Shl(a, b % H))
      [] o = "srlw"   -> I32(Shr(U32(a), b % H))
      [] o = "mulw"   -> I32(a * b)
      [] o = "divw"   -> IF b = 0 THEN UINT64_MAX ELSE I32(CDiv(I32(a), I32(b)))
      [] o = "divuw"  -> IF b = 0 THEN UINT64_MAX ELSE I32(CDiv(U32(a), U32(b)))
      [] o = "remw"   -> IF b = 0 THEN I32(a) ELSE I32(CRem(I32(a), I32(b)))
      [] o = "remuw"  -> IF b = 0 THEN I32(U32(a)) ELSE I32(CRem(U32(a), U32(b)))
      [] o = "subw"   -> I32(a - b)
      [] o = "sraw"   -> I32(Shr(I32(a), b % H))
      [] o = "div"    -> IF b = 0 THEN UINT64_MAX
                         ELSE IF a = INT64_MIN /\ b = UINT64_MAX THEN INT64_MIN
                         ELSE CDiv(I64(a), I64(b))
      [] o = "divu"   -> IF b = 0 THEN UINT64_MAX ELSE a \div b
      [] o = "rem"    -> IF b = 0 THEN a
                         ELSE IF a = INT64_MIN /\ b = UINT64_MAX THEN 0
                         ELSE CRem(I64(a), I64(b))

\* The test rs2 == 0 looks at the whole register, the division of a word
\* instruction at its low half: the host's divide instruction traps.
Traps(o, b) == o \in WordDivs /\ b # 0 /\ U32(b) = 0

\* What the interpreter leaves; a register and memory hold unsigned words.
Interp(o, a, b, zero) ==
    CASE o \in Loads    -> U64(Extended(o, a))
      [] o \in SaveOps  -> U64(Replaced(o, a, b))
      [] o \in Branches -> Bool(Taken(o, a, b))
      [] o \in ImmOps   -> U64(InterpImm(o, a, b))
      [] o \in RegOps   -> IF Traps(o, b) THEN Trap ELSE U64(InterpReg(o, a, b, zero))
-----------------------------------------------------------------------------
\* How an immediate is written into the generated C code: (i64)imm as %ldLL
\* is a signed constant, as %luULL an unsigned one.
ldLL(imm) == imm

luULL(imm) == U64(imm)

\* Generated code on a register and an immediate.
JitImm(o, a, imm) ==
    CASE o = "addi"  -> a + ldLL(imm)
      [] o = "slli"  -> Shl(a, imm % W)
      [] o = "slti"  -> Bool(I64(a) < ldLL(imm))
      [] o = "sltiu" -> Bool(a < luULL(imm))
      [] o = "xori"  -> a ^^ U64(ldLL(imm))
      [] o = "srli"  -> Shr(a, imm % W)
      [] o = "srai"  -> Shr(I64(a), imm % W)
      [] o = "ori"   -> a | luULL(imm)
      [] o = "andi"  -> a & luULL(imm)
      [] o = "addiw" -> I32(a + ldLL(imm))
      [] o = "slliw" -> I32(Shl(a, imm % H))
      [] o = "srliw" -> I32(Shr(U32(a), imm % H))
      [] o = "sraiw" -> Shr(I32(a), imm % H)
      [] o = "lui"   -> ldLL(imm)
      [] o = "auipc" -> ldLL(I64(U64(a + imm)))  \* known when the code is generated

\* Generated code on two registers; the high products are not translated but
\* left to the interpreter (src/src/codegen.c:813-830).
JitReg(o, a, b) ==
    CASE o = "add"    -> a + b
      [] o = "sll"    -> Shl(a, b % W)
      [] o = "slt"    -> Bool(I64(a) < I64(b))
      [] o = "sltu"   -> Bool(U64(a) < U64(b))
      [] o = "xor"    -> a ^^ b
      [] o = "srl"    -> Shr(a, b % W)
      [] o = "or"     -> a | b
      [] o = "and"    -> a & b
      [] o = "mul"    -> a * b
      [] o = "sub"    -> a - b
      [] o = "sra"    -> Shr(I64(a), b % W)
      [] o = "remu"   -> IF b = 0 THEN a ELSE a % b
      [] o = "addw"   -> I32(a + b)
      [] o = "sllw"   -> I32(Shl(a, b % H))
      [] o = "srlw"   -> I32(Shr(U32(a), b % H))
      [] o = "mulw"   -> I32(a * b)
      [] o = "divw"   -> IF b = 0 THEN UINT64_MAX ELSE I32(CDiv(I32(a), I32(b)))
      [] o = "divuw"  -> IF b = 0 THEN UINT64_MAX ELSE I32(CDiv(U32(a), U32(b)))
      [] o = "remw"   -> IF b = 0 THEN I32(a) ELSE I32(CRem(I32(a), I32(b)))
      [] o = "remuw"  -> IF b = 0 THEN I32(U32(a)) ELSE I32(CRem(U32(a), U32(b)))
      [] o = "subw"   -> I32(a - b)
      [] o = "sraw"   -> I32(Shr(I32(a), b % H))
      [] o = "div"    -> IF b = 0 THEN UINT64_MAX
                         ELSE IF a = INT64_MIN /\ b = UINT64_MAX THEN INT64_MIN
                         ELSE CDiv(I64(a), I64(b))
      [] o = "divu"   -> IF b = 0 THEN UINT64_MAX ELSE a \div b
      [] o = "rem"    -> IF b = 0 THEN a
                         ELSE IF a = INT64_MIN /\ b = UINT64_MAX THEN 0
                         ELSE CRem(I64(a), I64(b))

\* The C types of MEM_LOAD and MEM_STORE: signedness and bits.
JitExtended(o, m) ==
    LET bits == CASE o \in {"lb", "lbu"} -> W \div 8 [] o \in {"lh", "lhu"} -> W \div 4
                  [] o \in {"lw", "lwu"} -> H        [] o = "ld" -> W
    IN  IF o \in {"lb", "lh", "lw", "ld"} THEN Signed(m, bits) ELSE Unsigned(m, bits)

JitReplaced(o, m, v) ==
    LET n == CASE o = "sb" -> W \div 8 [] o = "sh" -> W \div 4 [] o = "sw" -> H [] o = "sd" -> W
    IN  Shl(Shr(m, n), n) + Unsigned(v, n)

\* if ((type)rs1 op (type)rs2)
JitTaken(o, a, b) ==
    LET T(v) == IF o \in {"blt", "bge"} THEN I64(v) ELSE U64(v)
    IN  CASE o = "beq" -> T(a) = T(b)
          [] o = "bne" -> T(a) # T(b)
          [] o \in {"blt", "bltu"} -> T(a) < T(b)
          [] o \in {"bge", "bgeu"} -> T(a) >= T(b)

Fallback == {"mulh", "mulhsu", "mulhu"}

Jit(o, a, b, zero) ==
    CASE o \in Loads    -> U64(JitExtended(o, a))
      [] o \in SaveOps  -> U64(JitReplaced(o, a, b))
      [] o \in Branches -> Bool(JitTaken(o, a, b))
      [] o \in ImmOps   -> U64(JitImm(o, a, b))
      [] o \in Fallback -> Interp(o, a, b, zero)
      [] o \in RegOps \ Fallback -> IF Traps(o, b) THEN Trap ELSE U64(JitReg(o, a, b))

\* One instruction, by both engines.
exec_int ==
    /\ interp = None /\ op \in IntOps
    /\ \E zero \in IF op = "mulh" THEN ProductIsZero(I64(rs1), I64(rs2)) ELSE {FALSE} :
         /\ interp' = Interp(op, rs1, rs2, zero)
         /\ jit' = Jit(op, rs1, rs2, zero)
    /\ UNCHANGED <<op, rs1, rs2>>

-----------------------------------------------------------------------------
(***************************************************************************)
(* The architecture: mathematical definitions that share nothing with the  *)
(* code's way of computing.  Ref(o, n, a, b) is the instruction o on       *)
(* n-bit words a and b.                                                    *)
(***************************************************************************)
Bits(a, n) == { k \in 0 .. n - 1 : (a \div 2^k) % 2 = 1 }
OfBits(S, n) == LET f[k \in 0 .. n] == IF k = 0 THEN 0
                                        ELSE f[k-1] + (IF k - 1 \in S THEN 2^(k-1) ELSE 0)
                IN  f[n]

\* Division rounds towards zero: the remainder has the sign of the dividend.
IsQuotient(q, a, b) ==
    LET r == a - b * q IN Abs(r) < Abs(b) /\ (r = 0 \/ (r < 0) = (a < 0))
Quotient(a, b, n) == CHOOSE q \in -(2^n) .. 2^n : IsQuotient(q, a, b)
DivRef(a, b, n) == IF b = 0 THEN -1 ELSE Quotient(a, b, n)
RemRef(a, b, n) == IF b = 0 THEN a ELSE a - b * Quotient(a, b, n)

Ref(o, n, a, b) ==
    LET s(v) == Signed(v, n)
        k == b % n
    IN  Unsigned(
          CASE o = "add"    -> a + b          [] o = "sub"    -> a - b
            [] o = "sll"    -> a * 2^k        [] o = "srl"    -> a \div 2^k
            [] o = "sra"    -> s(a) \div 2^k
            [] o = "slt"    -> Bool(s(a) < s(b))
            [] o = "sltu"   -> Bool(a < b)
            [] o = "xor"    -> OfBits((Bits(a, n) \cup Bits(b, n))
                                        \ (Bits(a, n) \cap Bits(b, n)), n)
            [] o = "or"     -> OfBits(Bits(a, n) \cup Bits(b, n), n)
            [] o = "and"    -> OfBits(Bits(a, n) \cap Bits(b, n), n)
            [] o = "mul"    -> a * b
            [] o = "mulh"   -> (s(a) * s(b)) \div 2^n
            [] o = "mulhsu" -> (s(a) * b) \div 2^n
            [] o = "mulhu"  -> (a * b) \div 2^n
            [] o = "div"    -> DivRef(s(a), s(b), n)
            [] o = "divu"   -> DivRef(a, b, n)
            [] o = "rem"    -> RemRef(s(a), s(b), n)
            [] o = "remu"   -> RemRef(a, b, n), n)

\* The word instructions work on the low halves and extend the sign of the
\* result; an immediate is extended to a word.
WordOf ==
    [addw |-> "add", subw |-> "sub", sllw |-> "sll", srlw |-> "srl", sraw |-> "sra",
     mulw |-> "mul", divw |-> "div", divuw |-> "divu", remw |-> "rem", remuw |-> "remu"]

RegisterForm ==
    [addi |-> "add", slli |-> "sll", slti |-> "slt", sltiu |-> "sltu", xori |-> "xor",
     srli |-> "srl", srai |-> "sra", ori |-> "or", andi |-> "and",
     addiw |-> "addw", slliw |-> "sllw", srliw |-> "srlw", sraiw |-> "sraw"]

AluRef(o, a, b) ==
    IF o \in DOMAIN WordOf
    THEN Unsigned(Signed(Ref(WordOf[o], H, Unsigned(a, H), Unsigned(b, H)), H), W)
    ELSE Ref(o, W, a, b)

\* Loads and stores on the bits of the memory word.
LoadRef(o, m) ==
    LET n == CASE o \in {"lb", "lbu"} -> W \div 8 [] o \in {"lh", "lhu"} -> W \div 4
               [] o \in {"lw", "lwu"} -> H [] o = "ld" -> W
        low == { k \in Bits(m, W) : k < n }
        sign == IF o \in {"lb", "lh", "lw"} /\ n - 1 \in low THEN n .. W - 1 ELSE {}
    IN  OfBits(low \cup sign, W)

StoreRef(o, m, v) ==
    LET n == CASE o = "sb" -> W \div 8 [] o = "sh" -> W \div 4 [] o = "sw" -> H [] o = "sd" -> W
    IN  OfBits({ k \in 0 .. W - 1 : k \in IF k < n THEN Bits(v, W) ELSE Bits(m, W) }, W)

BranchRef(o, a, b) ==
    LET s(v) == Signed(v, W)
    IN  Bool(CASE o = "beq"  -> a = b        [] o = "bne"  -> ~(a = b)
               [] o = "blt"  -> s(a) < s(b)  [] o = "bge"  -> ~(s(a) < s(b))
               [] o = "bltu" -> a < b        [] o = "bgeu" -> ~(a < b))

Isa(o, a, b) ==
    CASE o \in Loads    -> LoadRef(o, a)
      [] o \in SaveOps  -> StoreRef(o, a, b)
      [] o \in Branches -> BranchRef(o, a, b)
      [] o = "lui"      -> Unsigned(b, W)
      [] o = "auipc"    -> AluRef("add", a, Unsigned(b, W))
      [] o \in DOMAIN RegisterForm -> AluRef(RegisterForm[o], a, Unsigned(b, W))
      [] o \in RegOps   -> AluRef(o, a, b)
-----------------------------------------------------------------------------
Done == interp # None

\* The interpreter computes what the architecture says, on every operand but
\* two kinds: a word division by a register whose low half alone is 0, and
\* mulh of a product that overflows with low word 0.
IntFollowsIsa ==
    \/ interp = Isa(op, rs1, rs2)
    \/ op \in WordDivs /\ rs2 # 0 /\ U32(rs2) = 0
    \/ op = "mulh" /\ Overflows(I64(rs1), I64(rs2)) /\ U64(rs1 * rs2) = 0
=============================================================================
