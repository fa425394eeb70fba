-------------------------------- MODULE Fpu --------------------------------
(***************************************************************************)
(* The floating-point and CSR instructions: what the interpreter computes  *)
(* (src/src/interpret.c:350-675, src/inc/interpret_utils.h:34-113), what   *)
(* the C code emitted by the code generator computes                       *)
(* (src/src/codegen.c:461-906), and what the RISC-V architecture says.     *)
(* Registers have W bits and single precision H bits where the code has 64 *)
(* and 32; the formats are those of IEEE 754 with fewer bits.  The host's  *)
(* own arithmetic rounds to nearest, ties to even, whatever the guest has  *)
(* asked for.  One step executes one instruction.  What it leaves in rd,   *)
(* in memory or in a CSR is compared; exception flags, which the code does *)
(* not keep, show only when a CSR instruction reads them.                  *)
(***************************************************************************)
EXTENDS Alu

CONSTANTS
    ES, FS, ED, FD, \* exponent and fraction bits of a single and of a double
    Doubles,        \* bound: the register contents tried as doubles
    Singles,        \* bound: those tried as singles
    Fusible,        \* bound: those tried by the fused instructions
    Ints            \* bound: the integer registers tried

ASSUME FormatAssumption ==
    /\ {ES, FS, ED, FD} \subseteq Nat \ {0}
    /\ H = 1 + ES + FS /\ W = 1 + ED + FD
    /\ Doubles \cup Singles \cup Fusible \cup Ints \subseteq 0 .. 2^W - 1

VARIABLES
    prec,     \* the precision of op, "s" or "d"
    a, b, c,  \* rs1, rs2, rs3: whole registers; for a load the memory word is
              \* a; for a CSR instruction a is the number, b what a hart's CSR
              \* holds before it, and c the operand
    rm,       \* the rounding mode in effect: the instruction's, or that of frm
    old       \* rd, or the memory word, before the instruction

fp == <<prec, a, b, c, rm, old>>
vars == <<op, rs1, rs2, fp, interp, jit>>

NaN  == -3  \* a result that is no number, before its bits are chosen

FpLoads == {"fl"}
FpSaveOps == {"fs"}
FusedOps == {"fmadd", "fmsub", "fnmsub", "fnmadd"}
Arith == {"fadd", "fsub", "fmul", "fdiv"}
MinMax == {"fmin", "fmax"}
SignOps == {"fsgnj", "fsgnjn", "fsgnjx"}
ToInt == {"fcvt_w", "fcvt_wu", "fcvt_l", "fcvt_lu"}
FromInt == {"from_w", "from_wu", "from_l", "from_lu"}
Compares == {"feq", "flt", "fle"}
CsrOps == {"csrrw", "csrrs", "csrrc", "csrrwi", "csrrsi", "csrrci"}
RoundingModes == {"rne", "rtz", "rdn", "rup", "rmm"}

\* The CSR numbers: one that does not exist, fflags, frm, fcsr, and a counter.
CsrNumbers == 0 .. 4
counter == 4

\* The fused instructions on singles: the low halves, boxed, and one that is not.
Fused(p) == IF p = "d" THEN Fusible
            ELSE { (2^W - 2^H) + (v % 2^H) : v \in Fusible } \cup {1}

\* fcvt_fp converts from the other precision to prec.
FpuInit ==
    /\ prec \in {"s", "d"}
    /\ LET Fps == IF prec = "s" THEN Singles ELSE Doubles
           Olds == IF prec = "s" THEN {0, 2^W - 1} ELSE {0}
       IN  \/ /\ op \in MinMax \cup SignOps \cup Compares \cup FpSaveOps
              /\ a \in Fps /\ b \in Fps /\ c = 0 /\ old \in Olds /\ rm = "rne"
           \/ /\ op \in Arith
              /\ a \in Fps /\ b \in Fps /\ c = 0 /\ old \in Olds /\ rm \in RoundingModes
           \/ /\ op \in FusedOps
              /\ a \in Fused(prec) /\ b \in Fused(prec) /\ c \in Fused(prec)
              /\ old \in Olds /\ rm \in RoundingModes
           \/ /\ op \in ToInt \cup {"fsqrt"}
              /\ a \in Fps /\ b = 0 /\ c = 0 /\ old \in Olds /\ rm \in RoundingModes
           \/ /\ op \in {"fclass", "fmv_x"} \cup FpLoads
              /\ a \in Fps /\ b = 0 /\ c = 0 /\ old \in Olds /\ rm = "rne"
           \/ /\ op = "fcvt_fp"
              /\ a \in (IF prec = "s" THEN Doubles ELSE Singles)
              /\ b = 0 /\ c = 0 /\ old \in Olds /\ rm \in RoundingModes
           \/ /\ op \in FromInt
              /\ a \in Ints /\ b = 0 /\ c = 0 /\ old \in Olds /\ rm \in RoundingModes
           \/ /\ op = "fmv_f"
              /\ a \in Ints /\ b = 0 /\ c = 0 /\ old \in Olds /\ rm = "rne"
           \/ /\ op \in CsrOps /\ prec = "d"
              /\ a \in CsrNumbers /\ b \in 0 .. 3 /\ c \in 0 .. 3 /\ old = 0 /\ rm = "rne"
    /\ rs1 = 0 /\ rs2 = 0 /\ interp = None /\ jit = None

\* One instruction is about to be executed, of either kind.
Init ==
    \/ AluInit /\ prec = "d" /\ a = 0 /\ b = 0 /\ c = 0 /\ rm = "rne" /\ old = 0
    \/ FpuInit
-----------------------------------------------------------------------------
(***************************************************************************)
(* Arithmetic in a rounding mode.  A finite value is Mant * 2^Pow.         *)
(***************************************************************************)
Format == [s |-> [e |-> ES, f |-> FS], d |-> [e |-> ED, f |-> FD]]
E(p) == Format[p].e
F(p) == Format[p].f
Bias(p) == 2^(E(p)-1) - 1
SignBit(p) == 2^(E(p) + F(p))
Inf(p) == (2^E(p) - 1) * 2^F(p)
QuietBit(p) == 2^(F(p)-1)
\* The bits a NaN result may have: which operand's payload and sign it gets
\* depends on how the compiler arranges the operation.  Two stand for all.
QuietNaNs(p) == {Inf(p) + QuietBit(p), SignBit(p) + Inf(p) + QuietBit(p)}

Larger(m, n) == IF m > n THEN m ELSE n

Neg(x, p) == x # NaN /\ x >= SignBit(p)
Mag(x, p) == x % SignBit(p)
Exp(x, p) == Mag(x, p) \div 2^F(p)
Frac(x, p) == x % 2^F(p)
IsNaN(x, p) == x = NaN \/ Mag(x, p) > Inf(p)
IsInf(x, p) == x # NaN /\ Mag(x, p) = Inf(p)
IsZero(x, p) == x # NaN /\ Mag(x, p) = 0
WithSign(neg, m, p) == m + (IF neg THEN SignBit(p) ELSE 0)
Negated(x, p) == IF x = NaN THEN NaN ELSE WithSign(~Neg(x, p), Mag(x, p), p)

Mant(x, p) == Frac(x, p) + (IF Exp(x, p) = 0 THEN 0 ELSE 2^F(p))
Pow(x, p) == Larger(Exp(x, p), 1) - Bias(p) - F(p)

\* n / 2^j for the magnitude of a number, rounded in mode m.
RoundedQuotient(neg, n, j, m) ==
    IF j <= 0 THEN n * 2^(-j)
    ELSE LET q == n \div 2^j
             r == n % 2^j
             away == CASE m = "rne" -> 2 * r > 2^j \/ (2 * r = 2^j /\ q % 2 = 1)
                       [] m = "rmm" -> 2 * r >= 2^j
                       [] m = "rtz" -> FALSE
                       [] m = "rdn" -> neg /\ r # 0
                       [] m = "rup" -> ~neg /\ r # 0
         IN  IF away THEN q + 1 ELSE q

\* What is too large: infinity, or the largest number if the mode leads there.
Overflow(neg, p, m) ==
    WithSign(neg, IF m = "rtz" \/ (m = "rdn" /\ ~neg) \/ (m = "rup" /\ neg)
                  THEN Inf(p) - 1 ELSE Inf(p), p)

Log2(n) == CHOOSE k \in 0 .. 29 : 2^k <= n /\ n < 2^(k+1)

\* The float for n * 2^k: the exponent is that of the value, or the smallest
\* one; a carry out of the fraction moves into it.
Round(neg, n, k, p, m) ==
    IF n = 0 THEN WithSign(neg, 0, p)
    ELSE LET least == 1 - Bias(p)
             exp == Larger(Log2(n) + k, least)
         IN  IF exp > Bias(p) THEN Overflow(neg, p, m)
             ELSE WithSign(neg, (exp - least) * 2^F(p)
                                  + RoundedQuotient(neg, n, exp - F(p) - k, m), p)

\* A value in units of 2^-Unit, the smallest step of a double.
Unit == Bias("d") + FD - 1
Scaled(x, p) == (IF Neg(x, p) THEN -1 ELSE 1) * Mant(x, p) * 2^(Pow(x, p) + Unit)

\* A sum s of two numbers with these signs; a sum of 0 is -0 if both are, or if
\* rounding is downwards and one is.
SumIsNeg(s, negx, negy, m) ==
    s < 0 \/ (s = 0 /\ IF negx = negy THEN negx ELSE m = "rdn")

Sum(x, y, p, m) ==
    CASE IsNaN(x, p) \/ IsNaN(y, p) -> NaN
      [] IsInf(x, p) /\ ~IsNaN(y, p) -> IF y = Negated(x, p) THEN NaN ELSE x
      [] ~IsNaN(x, p) /\ ~IsInf(x, p) /\ IsInf(y, p) -> y
      [] OTHER -> LET s == Scaled(x, p) + Scaled(y, p)
                  IN  Round(SumIsNeg(s, Neg(x, p), Neg(y, p), m), Abs(s), -Unit, p, m)

Product(x, y, p, m) ==
    LET neg == Neg(x, p) # Neg(y, p) IN
    CASE IsNaN(x, p) \/ IsNaN(y, p) -> NaN
      [] IsInf(x, p) /\ ~IsNaN(y, p) -> IF IsZero(y, p) THEN NaN ELSE WithSign(neg, Inf(p), p)
      [] ~IsNaN(x, p) /\ ~IsInf(x, p) /\ IsInf(y, p) ->
           IF IsZero(x, p) THEN NaN ELSE WithSign(neg, Inf(p), p)
      [] OTHER -> Round(neg, Mant(x, p) * Mant(y, p), Pow(x, p) + Pow(y, p), p, m)

\* Enough bits of the quotient, and one that says whether there are more.
Ratio(x, y, p, m) ==
    LET neg == Neg(x, p) # Neg(y, p)
        n == Mant(x, p) * 2^(2 * F(p) + 4)
    IN  CASE IsNaN(x, p) \/ IsNaN(y, p) -> NaN
          [] IsInf(x, p) /\ ~IsNaN(y, p) -> IF IsInf(y, p) THEN NaN ELSE WithSign(neg, Inf(p), p)
          [] ~IsNaN(x, p) /\ ~IsInf(x, p) /\ IsInf(y, p) -> WithSign(neg, 0, p)
          [] ~IsNaN(x, p) /\ ~IsInf(x, p) /\ IsZero(y, p) ->
               IF IsZero(x, p) THEN NaN ELSE WithSign(neg, Inf(p), p)
          [] OTHER -> Round(neg, 2 * (n \div Mant(y, p)) + Bool(n % Mant(y, p) # 0),
                            Pow(x, p) - Pow(y, p) - 2 * F(p) - 5, p, m)

Root(n) == CHOOSE r \in 0 .. n : r * r <= n /\ (r + 1) * (r + 1) > n
SquareRoot(x, p, m) ==
    LET k == Pow(x, p) - 2 * F(p) - 4
        even == k - (k % 2)
        n == Mant(x, p) * 2^(Pow(x, p) - even)
        r == Root(n)
    IN  CASE IsNaN(x, p) \/ (Neg(x, p) /\ ~IsZero(x, p)) -> NaN
          [] IsZero(x, p) \/ x = Inf(p) -> x
          [] OTHER -> Round(FALSE, 2 * r + Bool(r * r # n), even \div 2 - 1, p, m)

\* A float of the other precision, and an integer, in precision p.
Other(p) == IF p = "s" THEN "d" ELSE "s"
Converted(x, p, m) ==
    LET q == Other(p) IN
    CASE IsNaN(x, q) -> NaN
      [] IsInf(x, q) -> WithSign(Neg(x, q), Inf(p), p)
      [] OTHER -> Round(Neg(x, q), Mant(x, q), Pow(x, q), p, m)

FloatOf(n, p, m) == Round(n < 0, Abs(n), 0, p, m)

\* The host's operators and casts.
Add(x, y, p) == Sum(x, y, p, "rne")
Sub(x, y, p) == Add(x, Negated(y, p), p)
Mul(x, y, p) == Product(x, y, p, "rne")
Div(x, y, p) == Ratio(x, y, p, "rne")
Sqrt(x, p) == SquareRoot(x, p, "rne")
Convert(x, p) == Converted(x, p, "rne")
OfInt(n, p) == FloatOf(n, p, "rne")

\* rs1 < rs2 and its kin: false if one is a NaN, and the two zeros are equal.
Key(x, p) == IF Neg(x, p) THEN -Mag(x, p) ELSE Mag(x, p)
Ordered(x, y, p) == ~IsNaN(x, p) /\ ~IsNaN(y, p)
Lt(x, y, p) == Ordered(x, y, p) /\ Key(x, p) < Key(y, p)
Le(x, y, p) == Ordered(x, y, p) /\ Key(x, p) <= Key(y, p)
Eq(x, y, p) == Ordered(x, y, p) /\ Key(x, p) = Key(y, p)

LLONG_MIN == -(2^(W-1))

\* llrint and llrintf: to nearest, ties to even, whatever the instruction
\* says; a value that is no i64 gives LLONG_MIN.
llrint(x, p) ==
    IF IsNaN(x, p) \/ IsInf(x, p) THEN LLONG_MIN
    ELSE LET n == RoundedQuotient(Neg(x, p), Mant(x, p), -Pow(x, p), "rne")
             v == IF Neg(x, p) THEN -n ELSE n
         IN  IF v \in LLONG_MIN .. -(LLONG_MIN + 1) THEN v ELSE LLONG_MIN
-----------------------------------------------------------------------------
\* The fields of fp_reg_t: .f and .w are the low half of a register.
Low(v) == v % 2^H
Boxed(lo) == (2^W - 2^H) + lo
ReadFp(v, p) == IF p = "s" THEN Low(v) ELSE v

WriteFp(v, x, p) == IF p = "s" THEN (v - Low(v)) + x ELSE x

\* fsgnj32 and fsgnj64: a with the sign of b, negated, or xor-ed with a's own.
fsgnj(x, y, n, xor, p) ==
    LET v == IF xor THEN Neg(x, p) ELSE n
    IN  WithSign(v # Neg(y, p), Mag(x, p), p)

\* f32_classify and f64_classify: ten flags, shifted into place.
classify(x, p) ==
    LET infOrNaN == Exp(x, p) = 2^E(p) - 1
        subnormalOrZero == Exp(x, p) = 0
        sign == Neg(x, p)
        fracZero == Frac(x, p) = 0
        isNaN == infOrNaN /\ ~fracZero
        isSNaN == infOrNaN /\ Frac(x, p) < QuietBit(p) /\ ~fracZero
        flags == <<sign /\ infOrNaN /\ fracZero,
                   sign /\ ~infOrNaN /\ ~subnormalOrZero,
                   sign /\ subnormalOrZero /\ ~fracZero,
                   sign /\ subnormalOrZero /\ fracZero,
                   ~sign /\ subnormalOrZero /\ fracZero,
                   ~sign /\ subnormalOrZero /\ ~fracZero,
                   ~sign /\ ~infOrNaN /\ ~subnormalOrZero,
                   ~sign /\ infOrNaN /\ fracZero,
                   isNaN /\ isSNaN,
                   isNaN /\ ~isSNaN>>
        sum[k \in 0 .. 10] == IF k = 0 THEN 0 ELSE sum[k-1] + Bool(flags[k]) * 2^(k-1)
    IN  sum[10]

\* The C expression of an interpreter function.
Expr(o, x, y, z, p) ==
    CASE o = "fmadd"  -> Add(Mul(x, y, p), z, p)
      [] o = "fmsub"  -> Sub(Mul(x, y, p), z, p)
      [] o = "fnmsub" -> Add(Negated(Mul(x, y, p), p), z, p)
      [] o = "fnmadd" -> Sub(Negated(Mul(x, y, p), p), z, p)
      [] o = "fadd"   -> Add(x, y, p)
      [] o = "fsub"   -> Sub(x, y, p)
      [] o = "fmul"   -> Mul(x, y, p)
      [] o = "fdiv"   -> Div(x, y, p)
      [] o = "fsqrt"  -> Sqrt(x, p)
      [] o = "fmin"   -> IF Lt(x, y, p) THEN x ELSE y
      [] o = "fmax"   -> IF Lt(y, x, p) THEN x ELSE y

ConvertToInt(o, x, p) ==
    CASE o = "fcvt_w"  -> Signed(llrint(x, p), H)
      [] o = "fcvt_wu" -> Signed(Unsigned(llrint(x, p), H), H)
      [] o \in {"fcvt_l", "fcvt_lu"} -> llrint(x, p)

FromReg(o, v) ==
    CASE o = "from_w"  -> Signed(v, H)
      [] o = "from_wu" -> Unsigned(v, H)
      [] o = "from_l"  -> Signed(v, W)
      [] o = "from_lu" -> v

Condition(o, x, y, p) ==
    CASE o = "feq" -> Eq(x, y, p) [] o = "flt" -> Lt(x, y, p) [] o = "fle" -> Le(x, y, p)

\* What a CSR instruction leaves in rd and in the CSR.
RdAndCsr(rd, csr) == rd + csr * 2^W

\* FUNC of the CSR instructions: fflags, frm and fcsr are not kept, so that
\* they read as 0 after whatever is written; any other number is fatal.
csr_func(n) == IF n \in {1, 2, 3} THEN RdAndCsr(0, 0) ELSE Trap

NaNBits(r, nan) == IF r = NaN THEN nan ELSE r

\* The instruction in the interpreter; nan are the bits of a NaN result.
FpInterp(nan) ==
    LET x == ReadFp(a, prec)
        y == ReadFp(b, prec)
        z == ReadFp(c, prec)
    IN  CASE op \in FpLoads    -> IF prec = "s" THEN Boxed(Low(a)) ELSE a
          [] op \in FpSaveOps  -> WriteFp(old, ReadFp(b, prec), prec)
          [] op \in FusedOps \cup Arith \cup MinMax \cup {"fsqrt"} ->
               WriteFp(old, NaNBits(Expr(op, x, y, z, prec), nan), prec)
          [] op \in SignOps  ->
               LET r == fsgnj(x, y, op = "fsgnjn", op = "fsgnjx", prec)
               IN  IF prec = "s" THEN Boxed(r) ELSE r
          [] op \in ToInt    -> Unsigned(ConvertToInt(op, x, prec), W)
          [] op \in FromInt  -> WriteFp(old, OfInt(FromReg(op, a), prec), prec)
          [] op = "fcvt_fp"  -> WriteFp(old, NaNBits(Convert(ReadFp(a, Other(prec)), prec), nan), prec)
          [] op = "fmv_x"    -> IF prec = "s" THEN Unsigned(Signed(Low(a), H), W) ELSE a
          [] op = "fmv_f"    -> WriteFp(old, ReadFp(a, prec), prec)
          [] op \in Compares -> Bool(Condition(op, x, y, prec))
          [] op = "fclass"   -> classify(x, prec)
          [] op \in CsrOps   -> csr_func(a)
-----------------------------------------------------------------------------
\* Mutant: the operands of the subtraction are exchanged.
JitExpr_fmsub(o, x, y, z, p) ==
    IF o = "fmsub" THEN Sub(z, Mul(x, y, p), p) ELSE Expr(o, x, y, z, p)

\* The C expression the code generator writes.
JitExpr(o, x, y, z, p) ==
    LET product == Mul(x, y, p) IN
    CASE o = "fmadd"  -> Add(product, z, p)
      [] o = "fmsub"  -> Sub(product, z, p)
      [] o = "fnmsub" -> Add(Negated(product, p), z, p)
      [] o = "fnmadd" -> Sub(Negated(product, p), z, p)
      [] o = "fadd"   -> Add(x, y, p)
      [] o = "fsub"   -> Sub(x, y, p)
      [] o = "fmul"   -> product
      [] o = "fdiv"   -> Div(x, y, p)
      [] o = "fmin"   -> IF Lt(x, y, p) THEN x ELSE y
      [] o = "fmax"   -> IF Lt(y, x, p) THEN x ELSE y

\* What is not translated: the block returns to the interpreter.
FpFallback == {"fsqrt", "fclass"} \cup ToInt \cup SignOps

\* The instruction in generated code: f%d is a copy of the whole register,
\* written back after the block.
FpJit(nan) ==
    LET x == ReadFp(a, prec)
        y == ReadFp(b, prec)
        z == ReadFp(c, prec)
    IN  CASE op \in FpFallback -> FpInterp(nan)
          [] op \in FpLoads    -> IF prec = "s" THEN Unsigned(a, H) + (2^W - 2^H) ELSE a
          [] op \in FpSaveOps  -> IF prec = "s" THEN (old - Low(old)) + Unsigned(b, H) ELSE b
          [] op \in FusedOps \cup Arith \cup MinMax ->
               WriteFp(old, NaNBits(JitExpr(op, x, y, z, prec), nan), prec)
          [] op = "from_w"   -> WriteFp(old, OfInt(Signed(a, H), prec), prec)
          [] op = "from_wu"  -> WriteFp(old, OfInt(Unsigned(a, H), prec), prec)
          [] op = "from_l"   -> WriteFp(old, OfInt(Signed(a, W), prec), prec)
          [] op = "from_lu"  -> WriteFp(old, OfInt(Unsigned(a, W), prec), prec)
          [] op = "fcvt_fp"  -> WriteFp(old, NaNBits(Convert(ReadFp(a, Other(prec)), prec), nan), prec)
          [] op = "fmv_x"    -> IF prec = "s" THEN Unsigned(Signed(Low(a), H), W) ELSE a
          [] op = "fmv_f"    -> IF prec = "s" THEN (old - Low(old)) + Unsigned(a, H) ELSE a
          [] op = "feq"      -> Bool(Eq(x, y, prec))
          [] op = "flt"      -> Bool(Lt(x, y, prec))
          [] op = "fle"      -> Bool(Le(x, y, prec))
          [] op \in CsrOps   -> csr_func(a)

\* One instruction, by both engines.
exec_fp ==
    /\ interp = None /\ op \notin IntOps
    /\ \E n \in QuietNaNs(prec) : interp' = FpInterp(n)
    /\ \E n \in QuietNaNs(prec) : jit' = FpJit(n)
    /\ UNCHANGED <<op, rs1, rs2, fp>>

Next == (exec_int /\ UNCHANGED fp) \/ exec_fp

Spec == Init /\ [][Next]_vars
-----------------------------------------------------------------------------
(***************************************************************************)
(* The architecture.                                                       *)
(***************************************************************************)
\* x * y + z with one rounding.  A product of 2^(Bias + 2) or more stays
\* beyond the largest number whatever is added.
FusedRef(x, y, z, p, mode) ==
    IF IsNaN(x, p) \/ IsNaN(y, p) \/ IsNaN(z, p) \/ IsInf(x, p) \/ IsInf(y, p)
    THEN Sum(Product(x, y, p, mode), z, p, mode)
    ELSE IF IsInf(z, p) THEN z
    ELSE LET m == Mant(x, p) * Mant(y, p)
             k == Pow(x, p) + Pow(y, p)
             neg == Neg(x, p) # Neg(y, p)
             s == (IF neg THEN -m ELSE m) * 2^(k + 2 * Unit) + Scaled(z, p) * 2^Unit
         IN  IF m # 0 /\ Log2(m) + k > Bias(p) + 1 THEN Overflow(neg, p, mode)
             ELSE Round(SumIsNeg(s, neg, Neg(z, p), mode), Abs(s), -2 * Unit, p, mode)

\* The smaller operand: -0 is below +0, and a NaN gives way to a number.
Below(x, y, p) == Key(x, p) < Key(y, p) \/ (Key(x, p) = Key(y, p) /\ Neg(x, p) /\ ~Neg(y, p))
MinRef(x, y, p) ==
    CASE IsNaN(x, p) /\ IsNaN(y, p) -> NaN
      [] IsNaN(x, p) /\ ~IsNaN(y, p) -> y
      [] ~IsNaN(x, p) /\ IsNaN(y, p) -> x
      [] OTHER -> IF Below(y, x, p) THEN y ELSE x
MaxRef(x, y, p) ==
    CASE IsNaN(x, p) /\ IsNaN(y, p) -> NaN
      [] IsNaN(x, p) /\ ~IsNaN(y, p) -> y
      [] ~IsNaN(x, p) /\ IsNaN(y, p) -> x
      [] OTHER -> IF Below(x, y, p) THEN y ELSE x

ArithRef(o, x, y, z, p, mode) ==
    CASE o = "fmadd"  -> FusedRef(x, y, z, p, mode)
      [] o = "fmsub"  -> FusedRef(x, y, Negated(z, p), p, mode)
      [] o = "fnmsub" -> FusedRef(Negated(x, p), y, z, p, mode)
      [] o = "fnmadd" -> FusedRef(Negated(x, p), y, Negated(z, p), p, mode)
      [] o = "fadd"   -> Sum(x, y, p, mode)
      [] o = "fsub"   -> Sum(x, Negated(y, p), p, mode)
      [] o = "fmul"   -> Product(x, y, p, mode)
      [] o = "fdiv"   -> Ratio(x, y, p, mode)
      [] o = "fsqrt"  -> SquareRoot(x, p, mode)
      [] o = "fmin"   -> MinRef(x, y, p)
      [] o = "fmax"   -> MaxRef(x, y, p)
      [] o = "fcvt_fp" -> Converted(x, p, mode)

\* The classes of the architecture, in the order of their bits.
ClassRef(x, p) ==
    2^(CASE IsNaN(x, p) -> IF Frac(x, p) >= QuietBit(p) THEN 9 ELSE 8
         [] IsInf(x, p) -> IF Neg(x, p) THEN 0 ELSE 7
         [] IsZero(x, p) -> IF Neg(x, p) THEN 3 ELSE 4
         [] OTHER -> LET subnormal == Mag(x, p) < 2^F(p)
                     IN  IF Neg(x, p) THEN (IF subnormal THEN 2 ELSE 1)
                         ELSE (IF subnormal THEN 5 ELSE 6))

\* The integer next to a finite value in the direction of the rounding mode.
Floor(x, p) ==
    LET n == Mant(x, p)
        j == -Pow(x, p)
        down == IF j <= 0 THEN n * 2^(-j) ELSE n \div 2^j
        up == IF j > 0 /\ n % 2^j # 0 THEN down + 1 ELSE down
    IN  IF Neg(x, p) THEN -up ELSE down
Integral(x, p) == Pow(x, p) >= 0 \/ Mant(x, p) % 2^(-Pow(x, p)) = 0
Rounded(x, p, mode) ==
    LET lo == Floor(x, p)
        hi == IF Integral(x, p) THEN lo ELSE lo + 1
        twice == (Mant(x, p) * 2^(Larger(Pow(x, p), 0) + 1)) \div 2^(Larger(-Pow(x, p), 0))
        even == RoundedQuotient(Neg(x, p), Mant(x, p), -Pow(x, p), "rne")
    IN  CASE mode = "rne" -> IF Neg(x, p) THEN -even ELSE even
          [] mode = "rtz" -> IF Neg(x, p) THEN hi ELSE lo
          [] mode = "rdn" -> lo
          [] mode = "rup" -> hi
          [] mode = "rmm" -> LET n == (twice + 1) \div 2 IN IF Neg(x, p) THEN -n ELSE n

Least(o) == CASE o = "fcvt_w" -> -(2^(H-1)) [] o = "fcvt_l" -> -(2^(W-1)) [] OTHER -> 0
Most(o) == CASE o = "fcvt_w" -> 2^(H-1) - 1 [] o = "fcvt_wu" -> 2^H - 1
             [] o = "fcvt_l" -> 2^(W-1) - 1 [] o = "fcvt_lu" -> 2^W - 1

\* A value outside the range of the target gives the nearer end of it, a NaN
\* the upper one; a word is sign-extended, also one without sign.
ToIntRef(o, x, p, mode) ==
    LET v == CASE IsNaN(x, p) -> Most(o)
               [] IsInf(x, p) -> IF Neg(x, p) THEN Least(o) ELSE Most(o)
               [] OTHER -> LET n == Rounded(x, p, mode)
                           IN  IF n < Least(o) THEN Least(o)
                               ELSE IF n > Most(o) THEN Most(o) ELSE n
    IN  Unsigned(IF o \in {"fcvt_w", "fcvt_wu"} THEN Signed(v, H) ELSE v, W)

SignRef(o, x, y, p) ==
    WithSign(CASE o = "fsgnj" -> Neg(y, p) [] o = "fsgnjn" -> ~Neg(y, p)
               [] o = "fsgnjx" -> Neg(x, p) # Neg(y, p), Mag(x, p), p)

IntRef(o, v) ==
    LET n == IF o \in {"from_w", "from_wu"} THEN H ELSE W
    IN  IF o \in {"from_w", "from_l"} THEN Signed(v % 2^n, n) ELSE v % 2^n

\* A CSR instruction gives rd the contents; those of the flags and the rounding
\* mode can be changed, a counter can only be read.
CsrWidth(n) == CASE n = 1 -> 5 [] n = 2 -> 3 [] n = 3 -> 8
Written(o, v, w, n) ==
    LET bits == Bits(w, CsrWidth(n))
        held == Bits(v, CsrWidth(n))
    IN  OfBits(CASE o \in {"csrrw", "csrrwi"} -> bits
                 [] o \in {"csrrs", "csrrsi"} -> held \cup bits
                 [] o \in {"csrrc", "csrrci"} -> held \ bits, CsrWidth(n))
CsrRef(o, n, v, w) ==
    CASE n \in {1, 2, 3} -> RdAndCsr(v, Written(o, v, w, n))
      [] n = counter -> IF w = 0 /\ o \notin {"csrrw", "csrrwi"} THEN RdAndCsr(v, v) ELSE Trap
      [] n = 0 -> Trap

\* A single in a register of W bits has ones above it; one that has not is
\* read as the canonical NaN.
IsBoxed(v) == v >= Boxed(0)
CanonicalNaN(p) == Inf(p) + QuietBit(p)
Operand(v, p) == IF p = "s" /\ ~IsBoxed(v) THEN CanonicalNaN(p) ELSE ReadFp(v, p)
Register(r, p) == LET bits == IF r = NaN THEN CanonicalNaN(p) ELSE r
                  IN  IF p = "s" THEN Boxed(bits) ELSE bits
-----------------------------------------------------------------------------
Results == FusedOps \cup Arith \cup MinMax \cup {"fsqrt", "fcvt_fp"}

X == Operand(a, IF op = "fcvt_fp" THEN Other(prec) ELSE prec)
Y == Operand(b, prec)
Z == Operand(c, prec)

\* What the architecture says the instruction leaves, in a rounding mode: the
\* whole register or memory word.
IsaResult(mode) ==
    CASE op \in Results -> Register(ArithRef(op, X, Y, Z, prec, mode), prec)
      [] op \in SignOps -> Register(SignRef(op, X, Y, prec), prec)
      [] op \in FromInt -> Register(FloatOf(IntRef(op, a), prec, mode), prec)
      [] op \in ToInt -> ToIntRef(op, X, prec, mode)
      [] op = "feq" -> Bool(Le(X, Y, prec) /\ Le(Y, X, prec))
      [] op = "flt" -> Bool(Ordered(X, Y, prec) /\ ~Le(Y, X, prec))
      [] op = "fle" -> Bool(Lt(X, Y, prec) \/ Eq(X, Y, prec))
      [] op = "fclass" -> ClassRef(X, prec)
      [] op \in FpLoads -> Register(ReadFp(a, prec), prec)
      [] op \in FpSaveOps -> IF prec = "s" THEN (old \div 2^H) * 2^H + (b % 2^H) ELSE b
      [] op = "fmv_x" -> (IF prec = "s" THEN Signed(a, H) ELSE a) % 2^W
      [] op = "fmv_f" -> Register(ReadFp(a, prec), prec)
      [] op \in CsrOps -> CsrRef(op, a, b, c)

AgreesWithIsa == interp = IsaResult(rm)

\* Two registers with the same number; a NaN may have other bits, and the upper
\* half is kept if it did not hold ones.
SameFp(u, v, p) == u = v \/ (IsNaN(u, p) /\ IsNaN(v, p))
SameNumber(u, v) ==
    /\ SameFp(ReadFp(u, prec), ReadFp(v, prec), prec)
    /\ \/ u - ReadFp(u, prec) = v - ReadFp(v, prec)
       \/ ~IsBoxed(old) /\ u - ReadFp(u, prec) = old - ReadFp(old, prec)

\* The instruction rounds to nearest, ties to even, in every mode; the number
\* is right for that mode, but the bits of a NaN are the host's, and the
\* register is not made a boxed single.
RoundsToNearest ==
    \/ op \in Results \cup FromInt \cup {"fmv_f"} /\ SameNumber(interp, IsaResult("rne"))
    \/ op \in ToInt /\ interp = IsaResult("rne")

Operands ==
    CASE op \in FusedOps -> {a, b, c}
      [] op \in Arith \cup MinMax \cup SignOps \cup Compares -> {a, b}
      [] op \in ToInt \cup {"fsqrt", "fclass", "fcvt_fp"} -> {a}
      [] OTHER -> {}

\* An operand that is no boxed single is read as one.
ReadsUnboxed ==
    /\ "s" = IF op = "fcvt_fp" THEN Other(prec) ELSE prec
    /\ \E v \in Operands : ~IsBoxed(v)

\* A fused instruction rounds the product too.
ProductIsExact ==
    LET r == Mul(X, Y, prec)
        m == Mant(X, prec) * Mant(Y, prec)
    IN  \/ IsInf(X, prec) \/ IsInf(Y, prec) \/ IsNaN(r, prec) \/ m = 0
        \/ /\ ~IsInf(r, prec)
           /\ \E j \in 0 .. 20 :
                \/ /\ Mant(r, prec) * 2^j = m
                   /\ Pow(r, prec) - j = Pow(X, prec) + Pow(Y, prec)
                \/ /\ Mant(r, prec) = m * 2^j
                   /\ Pow(r, prec) + j = Pow(X, prec) + Pow(Y, prec)

\* The result of llrint is the conversion's: it fits both i64 and the target.
Representable == /\ ~IsNaN(X, prec) /\ ~IsInf(X, prec)
                 /\ Rounded(X, prec, "rne") \in Least(op) .. Most(op)
                 /\ Rounded(X, prec, "rne") <= -(LLONG_MIN + 1)

\* A CSR holds something, or would after the instruction, or is a counter.
UsesCsr == a = counter \/ (a \in {1, 2, 3} /\ (b # 0 \/ Written(op, b, c, a) # 0))

\* The places where the interpreter and the architecture part: the rounding
\* mode, the bits of a NaN and the boxing of a single, which it ignores, a
\* fused instruction whose product has to be rounded, fmin and fmax of a NaN
\* that is second or of zeros, conversions to integers that are out of range
\* (of i64, also when the target is u64), and CSRs with contents.
Deviates ==
    \/ RoundsToNearest
    \/ ReadsUnboxed
    \/ op \in FusedOps /\ ~ProductIsExact
    \/ op \in MinMax /\ (IsNaN(Y, prec) \/ (IsZero(X, prec) /\ IsZero(Y, prec)))
    \/ op \in ToInt /\ ~Representable
    \/ op \in CsrOps /\ UsesCsr

\* Every instruction of the interpreter leaves in the whole register, in memory
\* or in a CSR what the architecture says, in every rounding mode, outside the
\* cases that IntFollowsIsa and Deviates name.
FollowsIsa ==
    Done => IF op \in IntOps THEN IntFollowsIsa ELSE AgreesWithIsa \/ Deviates

\* Generated code leaves in the register what the interpreter leaves, in its
\* upper half too, but for the bits of a NaN: a block means the same before
\* and after it is compiled.
JitAgrees ==
    Done => \/ jit = interp
            \/ /\ op \in Results
               /\ SameFp(ReadFp(jit, prec), ReadFp(interp, prec), prec)
               /\ jit - ReadFp(jit, prec) = interp - ReadFp(interp, prec)

\* README.md:5: interpretation guarantees correctness.  It does not, among
\* others, for a word division that traps, mulh of an overflowing product,
\* fmin and fmax of a NaN, a rounding mode other than to nearest, a fused
\* operation that rounds twice, and a CSR that was written.
InterpreterIsCorrect ==
    Done => IF op \in IntOps THEN interp = Isa(op, rs1, rs2) ELSE AgreesWithIsa
=============================================================================
