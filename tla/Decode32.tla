------------------------------ MODULE Decode32 ------------------------------
(***************************************************************************)
(* The decoder for 32-bit instructions (the fourth quadrant of             *)
(* insn_decode, src/src/decode.c:619-1352, and its readers, 41-121) and    *)
(* the two tables through which the decoded type is dispatched, the        *)
(* interpreter's (src/src/interpret.c:679-811) and the code generator's    *)
(* (src/src/codegen.c:910-1042).  A word is the record of its fields.      *)
(* One step decodes one word over what the previous one left and looks the *)
(* type up in both tables.  Compressed words take the same way through     *)
(* Decode.                                                                 *)
(***************************************************************************)
EXTENDS Decode

CONSTANTS Words,  \* bound: the 32-bit words tried
          Halves  \* bound: the 16-bit words tried

\* opcode is bits 6..2; bits 1..0 are both set.
Word32 == [opcode : 0 .. 31, rd : 0 .. 31, funct3 : 0 .. 7, rs1 : 0 .. 31, rs2 : 0 .. 31,
           funct7 : 0 .. 127]

ASSUME WordsAssumption == Words \subseteq Word32
ASSUME HalvesAssumption == Halves \subseteq { h \in 0 .. (2^16 - 1) : h % 4 # 3 }

VARIABLES
    data,    \* the word fetched
    insn,    \* insn_t: what the previous call left, then this word's
    interp,  \* the function funcs[insn.type] of the interpreter
    codegen  \* and of the code generator; "none" before the call

vars == <<data, insn, interp, codegen>>

\* A compressed jump that uses every field: the interpreter clears insn
\* before each call, the code generator's is static and keeps the last one.
Stale == [Zero EXCEPT !.type = "jalr", !.rd = 1, !.rs1 = 7, !.rs2 = 9, !.rs3 = 3, !.imm = -2,
                      !.csr = 1, !.rvc = TRUE, !.cont = TRUE]

\* A compressed word is a record of its own kind.
IsRvc(d) == DOMAIN d = {"half"}

Init ==
    /\ data \in Words \/ \E h \in Halves : data = [half |-> h]
    /\ insn \in {Zero, Stale} /\ interp = "none" /\ codegen = "none"
-----------------------------------------------------------------------------
FUNCT2(d) == d.funct7 % 4
RS3(d) == d.funct7 \div 4
IMM116(d) == d.funct7 \div 2

insn_utype_read(d) ==
    [Zero EXCEPT !.imm = Extend(d.funct7 * 8192 + d.rs2 * 256 + d.rs1 * 8 + d.funct3, 20) * 4096,
                 !.rd = d.rd]

insn_itype_read(d) ==
    [Zero EXCEPT !.imm = Extend(d.funct7 * 32 + d.rs2, 12), !.rs1 = d.rs1, !.rd = d.rd]

insn_jtype_read(d) ==
    LET imm20 == d.funct7 \div 64
        imm101 == (d.funct7 % 64) * 16 + d.rs2 \div 2
        imm11 == d.rs2 % 2
        imm1912 == d.rs1 * 8 + d.funct3
    IN  [Zero EXCEPT !.imm = Extend(imm20 * 2^20 + imm1912 * 2^12 + imm11 * 2^11 + imm101 * 2, 21),
                     !.rd = d.rd]

insn_btype_read(d) ==
    LET imm12 == d.funct7 \div 64
        imm105 == d.funct7 % 64
        imm41 == d.rd \div 2
        imm11 == d.rd % 2
    IN  [Zero EXCEPT !.imm = Extend(imm12 * 4096 + imm11 * 2048 + imm105 * 32 + imm41 * 2, 13),
                     !.rs1 = d.rs1, !.rs2 = d.rs2]

insn_rtype_read(d) == [Zero EXCEPT !.rs1 = d.rs1, !.rs2 = d.rs2, !.rd = d.rd]

insn_stype_read(d) ==
    [Zero EXCEPT !.imm = Extend(d.funct7 * 32 + d.rd, 12), !.rs1 = d.rs1, !.rs2 = d.rs2]

insn_csrtype_read(d) ==
    [Zero EXCEPT !.csr = d.funct7 * 32 + d.rs2, !.rs1 = d.rs1, !.rd = d.rd]

insn_fprtype_read(d) == [insn_rtype_read(d) EXCEPT !.rs3 = RS3(d)]
-----------------------------------------------------------------------------
\* insn->type = the k-th of the types, counted from 0; "dies" where a switch
\* has no case, and beyond the last.
TypeAt(i, types, k) ==
    IF k < Len(types) /\ types[k+1] # "dies" THEN [i EXCEPT !.type = types[k+1]] ELSE Dies
X == "dies"
loads(d) ==
    TypeAt(insn_itype_read(d), <<"lb", "lh", "lw", "ld", "lbu", "lhu", "lwu">>, d.funct3)
fp_loads(d) == TypeAt(insn_itype_read(d), <<X, X, "flw", "fld">>, d.funct3)
fences(d) == TypeAt(Zero, <<"fence", "fence_i">>, d.funct3)

op_imm(d) ==
    LET right == CASE IMM116(d) = 0 -> "srli" [] IMM116(d) = 16 -> "srai" [] OTHER -> X
    IN  Asserted(d.funct3 = 1 => IMM116(d) = 0,
                 TypeAt(insn_itype_read(d),
                       <<"addi", "slli", "slti", "sltiu", "xori", right, "ori", "andi">>,
                       d.funct3))

op_imm_32(d) ==
    LET right == CASE d.funct7 = 0 -> "srliw" [] d.funct7 = 32 -> "sraiw" [] OTHER -> X
    IN  Asserted(d.funct3 = 1 => d.funct7 = 0,
                 TypeAt(insn_itype_read(d), <<"addiw", "slliw", X, X, X, right>>, d.funct3))

stores(d) == TypeAt(insn_stype_read(d), <<"sb", "sh", "sw", "sd">>, d.funct3)
fp_stores(d) == TypeAt(insn_stype_read(d), <<X, X, "fsw", "fsd">>, d.funct3)

op(d) ==
    LET types ==
          CASE d.funct7 = 0  -> <<"add", "sll", "slt", "sltu", "xor", "srl", "or", "and">>
            [] d.funct7 = 1  -> <<"mul", "mulh", "mulhsu", "mulhu", "div", "divu", "rem", "remu">>
            [] d.funct7 = 32 -> <<"sub", X, X, X, X, "sra">>
            [] OTHER -> <<>>
    IN  TypeAt(insn_rtype_read(d), types, d.funct3)

op_32(d) ==
    LET types ==
          CASE d.funct7 = 0  -> <<"addw", "sllw", X, X, X, "srlw">>
            [] d.funct7 = 1  -> <<"mulw", X, X, X, "divw", "divuw", "remw", "remuw">>
            [] d.funct7 = 32 -> <<"subw", X, X, X, X, "sraw">>
            [] OTHER -> <<>>
    IN  TypeAt(insn_rtype_read(d), types, d.funct3)

fused(d) ==
    LET types == CASE d.opcode = 16 -> <<"fmadd_s", "fmadd_d">>
                   [] d.opcode = 17 -> <<"fmsub_s", "fmsub_d">>
                   [] d.opcode = 18 -> <<"fnmsub_s", "fnmsub_d">>
                   [] d.opcode = 19 -> <<"fnmadd_s", "fnmadd_d">>
    IN  TypeAt(insn_fprtype_read(d), types, FUNCT2(d))

\* 0x14: bits 31..27 say which operation, bits 26..25 the precision.
fp_arith(d) ==
    LET i == insn_rtype_read(d)
        sd(s, dbl) == TypeAt(i, <<s, dbl>>, FUNCT2(d))
        f3(s, dbl) == TypeAt(i, IF FUNCT2(d) = 0 THEN s ELSE dbl, d.funct3)
    IN  CASE RS3(d) = 0  -> sd("fadd_s", "fadd_d")
          [] RS3(d) = 1  -> sd("fsub_s", "fsub_d")
          [] RS3(d) = 2  -> sd("fmul_s", "fmul_d")
          [] RS3(d) = 3  -> sd("fdiv_s", "fdiv_d")
          [] RS3(d) = 4  -> f3(<<"fsgnj_s", "fsgnjn_s", "fsgnjx_s">>,
                               <<"fsgnj_d", "fsgnjn_d", "fsgnjx_d">>)
          [] RS3(d) = 5  -> f3(<<"fmin_s", "fmax_s">>, <<"fmin_d", "fmax_d">>)
          [] RS3(d) = 8  -> Asserted(d.rs2 = 1 - FUNCT2(d), sd("fcvt_s_d", "fcvt_d_s"))
          [] RS3(d) = 11 -> Asserted(i.rs2 = 0, sd("fsqrt_s", "fsqrt_d"))

fp_move_convert(d) ==
    LET i == insn_rtype_read(d)
        sd(s, dbl) == TypeAt(i, <<s, dbl>>, FUNCT2(d))
        f3(s, dbl) == TypeAt(i, IF FUNCT2(d) = 0 THEN s ELSE dbl, d.funct3)
        r2(s, dbl) == TypeAt(i, IF FUNCT2(d) = 0 THEN s ELSE dbl, d.rs2)
    IN  CASE RS3(d) = 20 -> f3(<<"fle_s", "flt_s", "feq_s">>, <<"fle_d", "flt_d", "feq_d">>)
          [] RS3(d) = 24 -> r2(<<"fcvt_w_s", "fcvt_wu_s", "fcvt_l_s", "fcvt_lu_s">>,
                               <<"fcvt_w_d", "fcvt_wu_d", "fcvt_l_d", "fcvt_lu_d">>)
          [] RS3(d) = 26 -> r2(<<"fcvt_s_w", "fcvt_s_wu", "fcvt_s_l", "fcvt_s_lu">>,
                               <<"fcvt_d_w", "fcvt_d_wu", "fcvt_d_l", "fcvt_d_lu">>)
          [] RS3(d) = 28 -> Asserted(d.rs2 = 0, f3(<<"fmv_x_w", "fclass_s">>,
                                                   <<"fmv_x_d", "fclass_d">>))
          [] RS3(d) = 30 -> Asserted(d.rs2 = 0 /\ d.funct3 = 0, sd("fmv_w_x", "fmv_d_x"))

op_fp(d) ==
    CASE FUNCT2(d) > 1 -> Dies
      [] FUNCT2(d) <= 1 /\ RS3(d) \in {0, 1, 2, 3, 4, 5, 8, 11} -> fp_arith(d)
      [] FUNCT2(d) <= 1 /\ RS3(d) \in {20, 24, 26, 28, 30} -> fp_move_convert(d)
      [] OTHER -> Dies

branches(d) ==
    TypeAt(insn_btype_read(d), <<"beq", "bne", X, X, "blt", "bge", "bltu", "bgeu">>, d.funct3)

\* data == 0x73: only two fields of insn are set, the others stay.
system(d, i) ==
    IF d = [opcode |-> 28, rd |-> 0, funct3 |-> 0, rs1 |-> 0, rs2 |-> 0, funct7 |-> 0]
    THEN [i EXCEPT !.type = "ecall", !.cont = TRUE]
    ELSE TypeAt(insn_csrtype_read(d),
               <<X, "csrrw", "csrrs", "csrrc", X, "csrrwi", "csrrsi", "csrrci">>, d.funct3)

insn_decode(d, i) ==
    IF IsRvc(d) THEN insn_decode_rvc(d.half)
    ELSE CASE d.opcode = 0  -> loads(d)
           [] d.opcode = 1  -> fp_loads(d)
           [] d.opcode = 3  -> fences(d)
           [] d.opcode = 4  -> op_imm(d)
           [] d.opcode = 5  -> [insn_utype_read(d) EXCEPT !.type = "auipc"]
           [] d.opcode = 6  -> op_imm_32(d)
           [] d.opcode = 8  -> stores(d)
           [] d.opcode = 9  -> fp_stores(d)
           [] d.opcode = 12 -> op(d)
           [] d.opcode = 13 -> [insn_utype_read(d) EXCEPT !.type = "lui"]
           [] d.opcode = 14 -> op_32(d)
           [] d.opcode \in 16 .. 19 -> fused(d)
           [] d.opcode = 20 -> op_fp(d)
           [] d.opcode = 24 -> branches(d)
           [] d.opcode = 25 -> [insn_itype_read(d) EXCEPT !.type = "jalr", !.cont = TRUE]
           [] d.opcode = 27 -> [insn_jtype_read(d) EXCEPT !.type = "jal", !.cont = TRUE]
           [] d.opcode = 28 -> system(d, i)
           [] OTHER -> Dies
-----------------------------------------------------------------------------
\* enum insn_type_t: a type's number is its place here.
insn_type_t ==
    <<"lb", "lh", "lw", "ld", "lbu", "lhu", "lwu", "fence", "fence_i", "addi", "slli", "slti",
      "sltiu", "xori", "srli", "srai", "ori", "andi", "auipc", "addiw", "slliw", "srliw", "sraiw",
      "sb", "sh", "sw", "sd", "add", "sll", "slt", "sltu", "xor", "srl", "or", "and", "mul", "mulh",
      "mulhsu", "mulhu", "div", "divu", "rem", "remu", "sub", "sra", "lui", "addw", "sllw", "srlw",
      "mulw", "divw", "divuw", "remw", "remuw", "subw", "sraw", "beq", "bne", "blt", "bge", "bltu",
      "bgeu", "jalr", "jal", "ecall", "csrrc", "csrrci", "csrrs", "csrrsi", "csrrw", "csrrwi",
      "flw", "fsw", "fmadd_s", "fmsub_s", "fnmsub_s", "fnmadd_s", "fadd_s", "fsub_s", "fmul_s",
      "fdiv_s", "fsqrt_s", "fsgnj_s", "fsgnjn_s", "fsgnjx_s", "fmin_s", "fmax_s", "fcvt_w_s",
      "fcvt_wu_s", "fmv_x_w", "feq_s", "flt_s", "fle_s", "fclass_s", "fcvt_s_w", "fcvt_s_wu",
      "fmv_w_x", "fcvt_l_s", "fcvt_lu_s", "fcvt_s_l", "fcvt_s_lu", "fld", "fsd", "fmadd_d",
      "fmsub_d", "fnmsub_d", "fnmadd_d", "fadd_d", "fsub_d", "fmul_d", "fdiv_d", "fsqrt_d",
      "fsgnj_d", "fsgnjn_d", "fsgnjx_d", "fmin_d", "fmax_d", "fcvt_s_d", "fcvt_d_s", "feq_d",
      "flt_d", "fle_d", "fclass_d", "fcvt_w_d", "fcvt_wu_d", "fcvt_d_w", "fcvt_d_wu", "fcvt_l_d",
      "fcvt_lu_d", "fmv_x_d", "fcvt_d_l", "fcvt_d_lu", "fmv_d_x">>

\* funcs[] of the interpreter.
interpret_funcs ==
    <<"lb", "lh", "lw", "ld", "lbu", "lhu", "lwu", "empty", "empty", "addi", "slli", "slti",
      "sltiu", "xori", "srli", "srai", "ori", "andi", "auipc", "addiw", "slliw", "srliw", "sraiw",
      "sb", "sh", "sw", "sd", "add", "sll", "slt", "sltu", "xor", "srl", "or", "and", "mul", "mulh",
      "mulhsu", "mulhu", "div", "divu", "rem", "remu", "sub", "sra", "lui", "addw", "sllw", "srlw",
      "mulw", "divw", "divuw", "remw", "remuw", "subw", "sraw", "beq", "bne", "blt", "bge", "bltu",
      "bgeu", "jalr", "jal", "ecall", "csrrc", "csrrci", "csrrs", "csrrsi", "csrrw", "csrrwi",
      "flw", "fsw", "fmadd_s", "fmsub_s", "fnmsub_s", "fnmadd_s", "fadd_s", "fsub_s", "fmul_s",
      "fdiv_s", "fsqrt_s", "fsgnj_s", "fsgnjn_s", "fsgnjx_s", "fmin_s", "fmax_s", "fcvt_w_s",
      "fcvt_wu_s", "fmv_x_w", "feq_s", "flt_s", "fle_s", "fclass_s", "fcvt_s_w", "fcvt_s_wu",
      "fmv_w_x", "fcvt_l_s", "fcvt_lu_s", "fcvt_s_l", "fcvt_s_lu", "fld", "fsd", "fmadd_d",
      "fmsub_d", "fnmsub_d", "fnmadd_d", "fadd_d", "fsub_d", "fmul_d", "fdiv_d", "fsqrt_d",
      "fsgnj_d", "fsgnjn_d", "fsgnjx_d", "fmin_d", "fmax_d", "fcvt_s_d", "fcvt_d_s", "feq_d",
      "flt_d", "fle_d", "fclass_d", "fcvt_w_d", "fcvt_wu_d", "fcvt_d_w", "fcvt_d_wu", "fcvt_l_d",
      "fcvt_lu_d", "fmv_x_d", "fcvt_d_l", "fcvt_d_lu", "fmv_d_x">>

\* funcs[] of the code generator, and the six entries of it that are in
\* another order than the types.
\* Mutant: one of the six is missing, and every later one moves up.
codegen_csr_funcs_short == <<"csrrw", "csrrs", "csrrc", "csrrwi", "csrrsi">>

codegen_csr_funcs == <<"csrrw", "csrrs", "csrrc", "csrrwi", "csrrsi", "csrrci">>

codegen_funcs ==
    <<"lb", "lh", "lw", "ld", "lbu", "lhu", "lwu", "empty", "empty", "addi", "slli", "slti",
      "sltiu", "xori", "srli", "srai", "ori", "andi", "auipc", "addiw", "slliw", "srliw", "sraiw",
      "sb", "sh", "sw", "sd", "add", "sll", "slt", "sltu", "xor", "srl", "or", "and", "mul", "mulh",
      "mulhsu", "mulhu", "div", "divu", "rem", "remu", "sub", "sra", "lui", "addw", "sllw", "srlw",
      "mulw", "divw", "divuw", "remw", "remuw", "subw", "sraw", "beq", "bne", "blt", "bge", "bltu",
      "bgeu", "jalr", "jal", "ecall">>
    \o codegen_csr_funcs \o
    <<"flw", "fsw", "fmadd_s", "fmsub_s", "fnmsub_s", "fnmadd_s", "fadd_s", "fsub_s", "fmul_s",
      "fdiv_s", "fsqrt_s", "fsgnj_s", "fsgnjn_s", "fsgnjx_s", "fmin_s", "fmax_s", "fcvt_w_s",
      "fcvt_wu_s", "fmv_x_w", "feq_s", "flt_s", "fle_s", "fclass_s", "fcvt_s_w", "fcvt_s_wu",
      "fmv_w_x", "fcvt_l_s", "fcvt_lu_s", "fcvt_s_l", "fcvt_s_lu", "fld", "fsd", "fmadd_d",
      "fmsub_d", "fnmsub_d", "fnmadd_d", "fadd_d", "fsub_d", "fmul_d", "fdiv_d", "fsqrt_d",
      "fsgnj_d", "fsgnjn_d", "fsgnjx_d", "fmin_d", "fmax_d", "fcvt_s_d", "fcvt_d_s", "feq_d",
      "flt_d", "fle_d", "fclass_d", "fcvt_w_d", "fcvt_wu_d", "fcvt_d_w", "fcvt_d_wu", "fcvt_l_d",
      "fcvt_lu_d", "fmv_x_d", "fcvt_d_l", "fcvt_d_lu", "fmv_d_x">>

Number == [t \in Range(insn_type_t) |-> CHOOSE k \in DOMAIN insn_type_t : insn_type_t[k] = t]

\* funcs[insn.type]; nothing is looked up when insn_decode ends the emulator.
Dispatch(funcs, i) == IF i = Dies THEN "dies" ELSE funcs[Number[i.type]]

decode ==
    /\ interp = "none"
    /\ insn' = insn_decode(data, insn)
    /\ interp' = Dispatch(interpret_funcs, insn')
    /\ codegen' = Dispatch(codegen_funcs, insn')
    /\ UNCHANGED data

Next == decode

Spec == Init /\ [][Next]_vars
-----------------------------------------------------------------------------
(***************************************************************************)
(* The encodings of the architecture: a format, the opcode, and the values *)
(* that bits 14..12, 31..25 and 24..20 may have.  The rounding mode of a   *)
(* floating-point instruction may be any.                                  *)
(***************************************************************************)
Any3 == 0 .. 7
Any5 == 0 .. 31
Any7 == 0 .. 127
I(o, f3) == <<"I", o, {f3}, Any7, Any5>>
Shift(o, f3, f7) == <<"I", o, {f3}, f7, Any5>>
S(o, f3) == <<"S", o, {f3}, Any7, Any5>>
B(f3) == <<"B", 24, {f3}, Any7, Any5>>
U(o) == <<"U", o, Any3, Any7, Any5>>
Reg(f3, f7) == <<"R", 12, {f3}, {f7}, Any5>>
RegW(f3, f7) == <<"R", 14, {f3}, {f7}, Any5>>
Fused(o, p) == <<"R4", o, Any3, { f \in Any7 : f % 4 = p }, Any5>>
Fp(f7) == <<"R", 20, Any3, {f7}, Any5>>
Fp3(f7, f3) == <<"R", 20, {f3}, {f7}, Any5>>
FpTo(f7, r2) == <<"R", 20, Any3, {f7}, {r2}>>
FpMove(f7, f3) == <<"R", 20, {f3}, {f7}, {0}>>
Csr(f3) == <<"C", 28, {f3}, Any7, Any5>>

Encoding ==
    [lb |-> I(0, 0), lh |-> I(0, 1), lw |-> I(0, 2), ld |-> I(0, 3), lbu |-> I(0, 4),
     lhu |-> I(0, 5), lwu |-> I(0, 6), flw |-> I(1, 2), fld |-> I(1, 3),
     fence |-> <<"N", 3, {0}, Any7, Any5>>, fence_i |-> <<"N", 3, {1}, Any7, Any5>>,
     addi |-> I(4, 0), slti |-> I(4, 2), sltiu |-> I(4, 3), xori |-> I(4, 4), ori |-> I(4, 6),
     andi |-> I(4, 7), slli |-> Shift(4, 1, {0, 1}), srli |-> Shift(4, 5, {0, 1}),
     srai |-> Shift(4, 5, {32, 33}), auipc |-> U(5), lui |-> U(13),
     addiw |-> I(6, 0), slliw |-> Shift(6, 1, {0}), srliw |-> Shift(6, 5, {0}),
     sraiw |-> Shift(6, 5, {32}),
     sb |-> S(8, 0), sh |-> S(8, 1), sw |-> S(8, 2), sd |-> S(8, 3), fsw |-> S(9, 2),
     fsd |-> S(9, 3),
     add |-> Reg(0, 0), sub |-> Reg(0, 32), sll |-> Reg(1, 0), slt |-> Reg(2, 0),
     sltu |-> Reg(3, 0), xor |-> Reg(4, 0), srl |-> Reg(5, 0), sra |-> Reg(5, 32),
     or |-> Reg(6, 0), and |-> Reg(7, 0), mul |-> Reg(0, 1), mulh |-> Reg(1, 1),
     mulhsu |-> Reg(2, 1), mulhu |-> Reg(3, 1), div |-> Reg(4, 1), divu |-> Reg(5, 1),
     rem |-> Reg(6, 1), remu |-> Reg(7, 1),
     addw |-> RegW(0, 0), subw |-> RegW(0, 32), sllw |-> RegW(1, 0), srlw |-> RegW(5, 0),
     sraw |-> RegW(5, 32), mulw |-> RegW(0, 1), divw |-> RegW(4, 1), divuw |-> RegW(5, 1),
     remw |-> RegW(6, 1), remuw |-> RegW(7, 1),
     fmadd_s |-> Fused(16, 0), fmsub_s |-> Fused(17, 0), fnmsub_s |-> Fused(18, 0),
     fnmadd_s |-> Fused(19, 0), fmadd_d |-> Fused(16, 1), fmsub_d |-> Fused(17, 1),
     fnmsub_d |-> Fused(18, 1), fnmadd_d |-> Fused(19, 1),
     fadd_s |-> Fp(0), fsub_s |-> Fp(4), fmul_s |-> Fp(8), fdiv_s |-> Fp(12),
     fadd_d |-> Fp(1), fsub_d |-> Fp(5), fmul_d |-> Fp(9), fdiv_d |-> Fp(13),
     fsqrt_s |-> FpTo(44, 0), fsqrt_d |-> FpTo(45, 0), fcvt_s_d |-> FpTo(32, 1),
     fcvt_d_s |-> FpTo(33, 0), fsgnj_s |-> Fp3(16, 0), fsgnjn_s |-> Fp3(16, 1),
     fsgnjx_s |-> Fp3(16, 2), fsgnj_d |-> Fp3(17, 0), fsgnjn_d |-> Fp3(17, 1),
     fsgnjx_d |-> Fp3(17, 2), fmin_s |-> Fp3(20, 0), fmax_s |-> Fp3(20, 1),
     fmin_d |-> Fp3(21, 0), fmax_d |-> Fp3(21, 1), fle_s |-> Fp3(80, 0), flt_s |-> Fp3(80, 1),
     feq_s |-> Fp3(80, 2), fle_d |-> Fp3(81, 0), flt_d |-> Fp3(81, 1), feq_d |-> Fp3(81, 2),
     fcvt_w_s |-> FpTo(96, 0), fcvt_wu_s |-> FpTo(96, 1), fcvt_l_s |-> FpTo(96, 2),
     fcvt_lu_s |-> FpTo(96, 3), fcvt_w_d |-> FpTo(97, 0), fcvt_wu_d |-> FpTo(97, 1),
     fcvt_l_d |-> FpTo(97, 2), fcvt_lu_d |-> FpTo(97, 3), fcvt_s_w |-> FpTo(104, 0),
     fcvt_s_wu |-> FpTo(104, 1), fcvt_s_l |-> FpTo(104, 2), fcvt_s_lu |-> FpTo(104, 3),
     fcvt_d_w |-> FpTo(105, 0), fcvt_d_wu |-> FpTo(105, 1), fcvt_d_l |-> FpTo(105, 2),
     fcvt_d_lu |-> FpTo(105, 3), fmv_x_w |-> FpMove(112, 0), fclass_s |-> FpMove(112, 1),
     fmv_x_d |-> FpMove(113, 0), fclass_d |-> FpMove(113, 1), fmv_w_x |-> FpMove(120, 0),
     fmv_d_x |-> FpMove(121, 0),
     beq |-> B(0), bne |-> B(1), blt |-> B(4), bge |-> B(5), bltu |-> B(6), bgeu |-> B(7),
     jalr |-> I(25, 0), jal |-> <<"J", 27, Any3, Any7, Any5>>,
     csrrw |-> Csr(1), csrrs |-> Csr(2), csrrc |-> Csr(3), csrrwi |-> Csr(5), csrrsi |-> Csr(6),
     csrrci |-> Csr(7)]

IsEcall(d) == d = [opcode |-> 28, rd |-> 0, funct3 |-> 0, rs1 |-> 0, rs2 |-> 0, funct7 |-> 0]

\* The instructions a word encodes: none or one.
Meanings(d) ==
    { t \in DOMAIN Encoding : LET e == Encoding[t] IN
        d.opcode = e[2] /\ d.funct3 \in e[3] /\ d.funct7 \in e[4] /\ d.rs2 \in e[5] }

\* Bit k of a word, from 7 on.
Bit(d, k) ==
    CASE k \in 7 .. 11  -> (d.rd \div 2^(k - 7)) % 2
      [] k \in 12 .. 14 -> (d.funct3 \div 2^(k - 12)) % 2
      [] k \in 15 .. 19 -> (d.rs1 \div 2^(k - 15)) % 2
      [] k \in 20 .. 24 -> (d.rs2 \div 2^(k - 20)) % 2
      [] k \in 25 .. 31 -> (d.funct7 \div 2^(k - 25)) % 2

\* Where bit k of the word goes in the immediate of a format; -1: nowhere.
Place(format, k) ==
    CASE format = "I" -> IF k >= 20 THEN k - 20 ELSE -1
      [] format = "S" -> IF k >= 25 THEN k - 20 ELSE IF k <= 11 THEN k - 7 ELSE -1
      [] format = "B" -> IF k = 31 THEN 12 ELSE IF k >= 25 THEN k - 20
                         ELSE IF k = 7 THEN 11 ELSE IF k <= 11 THEN k - 7 ELSE -1
      [] format = "U" -> IF k >= 12 THEN k ELSE -1
      [] format = "J" -> IF k = 31 THEN 20 ELSE IF k >= 21 THEN k - 20
                         ELSE IF k = 20 THEN 11 ELSE IF k >= 12 THEN k ELSE -1
      [] OTHER -> -1

\* Bit 31 is the sign.
Weight(format, k) ==
    CASE Place(format, k) = -1 -> 0
      [] Place(format, k) # -1 /\ k = 31 -> (-2) * 2^(Place(format, k) - 1)
      [] OTHER -> 2^Place(format, k)

\* The value of the immediate: the bits of each field of the word, at their
\* weights.
At(d, format, k) == Bit(d, k) * Weight(format, k)
FromRd(d, format) ==
    At(d, format, 7) + At(d, format, 8) + At(d, format, 9) + At(d, format, 10)
      + At(d, format, 11)
FromFunct3(d, format) == At(d, format, 12) + At(d, format, 13) + At(d, format, 14)
FromRs1(d, format) ==
    At(d, format, 15) + At(d, format, 16) + At(d, format, 17) + At(d, format, 18)
      + At(d, format, 19)
FromRs2(d, format) ==
    At(d, format, 20) + At(d, format, 21) + At(d, format, 22) + At(d, format, 23)
      + At(d, format, 24)
FromFunct7(d, format) ==
    At(d, format, 25) + At(d, format, 26) + At(d, format, 27) + At(d, format, 28)
      + At(d, format, 29) + At(d, format, 30) + At(d, format, 31)
Immediate32(d, format) ==
    FromRd(d, format) + FromFunct3(d, format) + FromRs1(d, format) + FromRs2(d, format)
      + FromFunct7(d, format)

\* The instruction as the architecture describes it.
Meaning(d, t) ==
    LET f == Encoding[t][1]
        If(formats, v) == IF f \in formats THEN v ELSE 0
    IN  [type |-> t,
         rd   |-> If({"R", "R4", "I", "U", "J", "C"}, d.rd),
         rs1  |-> If({"R", "R4", "I", "S", "B", "C"}, d.rs1),
         rs2  |-> If({"R", "R4", "S", "B"}, d.rs2),
         rs3  |-> If({"R4"}, d.funct7 \div 4),
         imm  |-> Immediate32(d, f),
         csr  |-> If({"C"}, d.funct7 * 32 + d.rs2),
         rvc  |-> FALSE,
         cont |-> t \in {"jal", "jalr"}]
-----------------------------------------------------------------------------
Done == interp # "none"

\* A 32-bit word has the type, registers, immediate and flags of the
\* instruction it encodes, and the words that encode none end the emulator.
\* There is one exception: jalr is recognised whatever bits 14..12 are.  An
\* ecall keeps the other fields of the previous instruction, so only its type
\* and its flag count.
Decodes32 ==
    CASE IsEcall(data) -> insn.type = "ecall" /\ insn.cont
      [] ~IsEcall(data) /\ Meanings(data) # {} ->
           \A t \in Meanings(data) : insn = Meaning(data, t)
      [] OTHER -> insn = IF data.opcode = 25 THEN Meaning(data, "jalr") ELSE Dies

ShiftTypes == {"slli", "srli", "srai"}

\* A compressed word has the type, immediate and registers of the instruction
\* it expands to.  The amount of a shift is compared modulo 64: the code
\* extends its sign and the operations mask it.
DecodesRvc ==
    LET h == data.half
        e == Expansion[Mnemonic(h)]
        imm == Immediate(h, e[2], e[3])
    IN  IF Undecodable(h) THEN insn = Dies
        ELSE /\ insn.type = e[1] /\ insn.rvc
             /\ IF e[1] \in ShiftTypes THEN (insn.imm - imm) % 64 = 0 ELSE insn.imm = imm
             /\ insn.rd = Register(h, e[4])
             /\ insn.rs1 = Register(h, e[5])
             /\ insn.rs2 = Register(h, e[6])
             /\ insn.cont <=> e[1] \in {"jal", "jalr"}

\* Whatever the previous call left in insn, insn_decode gives every word the
\* instruction that the encoding tables give, or refuses it if they give none.
\* The flag that stops exec_block_interp is set on exactly the jumps and the
\* ecall: missing, the interpreter runs on past one; set on another
\* instruction, the block ends with no reason to exit.
DecodesEveryWord == Done => IF IsRvc(data) THEN DecodesRvc ELSE Decodes32

CsrTypes == {"csrrw", "csrrs", "csrrc", "csrrwi", "csrrsi", "csrrci"}

\* Both tables have the function of each type in its place: the number that
\* insn_decode stores means the same instruction to both engines.  The two
\* fences share an empty function, and among the six CSR instructions, whose
\* functions are one, the order is free.
TablesMatchTypes ==
    Done /\ insn # Dies =>
      LET func == IF insn.type \in {"fence", "fence_i"} THEN "empty" ELSE insn.type
      IN  /\ interp = func
          /\ IF func \in CsrTypes THEN codegen \in CsrTypes ELSE codegen = func
=============================================================================
