------------------------------- MODULE Tracer -------------------------------
(***************************************************************************)
(* The locals of a generated function (src/src/codegen.c:3-97): what the   *)
(* text of an instruction names, and what its func_* tells the tracer.     *)
(* The two are written by hand in every func_*, one next to the other.     *)
(* The functions differ in the expression they print, which is Alu's and   *)
(* Fpu's business; here there is one form for each way to use registers.   *)
(***************************************************************************)
EXTENDS Naturals

IntForms == {"load", "op_imm", "upper", "store", "op"}
JumpForms == {"branch", "jalr", "jal", "ecall", "csr"}
FpForms == {"fload", "fstore", "fused", "farith", "from_int", "fmv_x", "fcmp", "fcvt_fp"}
Forms == IntForms \cup JumpForms \cup FpForms \cup {"empty", "interp"}

\* The class, for control flow, of an instruction of a form.
ClassOf(form) == IF form \in {"branch", "jalr", "jal", "ecall", "interp"} THEN form ELSE "op"

\* REG_GET, REG_SET_VAL and REG_SET_EXPR: zero is a constant when read, and
\* nothing is printed to write it.
REG(r) == IF r = 0 THEN {} ELSE {<<"x", r>>}

\* FREG_GET and FREG_SET_EXPR.
FREG(r) == {<<"f", r>>}

\* tracer_add_gp_reg_usage and tracer_add_fp_reg_usage.
gp_reg_usage(S) == { <<"x", r>> : r \in S }
fp_reg_usage(S) == { <<"f", r>> : r \in S }

\* The locals that the text names, and the registers that are traced.
Emits(named, traced) == [named |-> named, traced |-> traced]

func_int(i) ==
    CASE i.form = "load"   -> Emits(REG(i.rs1) \cup REG(i.rd), gp_reg_usage({i.rs1, i.rd}))
      [] i.form = "op_imm" -> Emits(REG(i.rs1) \cup REG(i.rd), gp_reg_usage({i.rs1, i.rd}))
      [] i.form = "upper"  -> Emits(REG(i.rd), gp_reg_usage({i.rd}))
      [] i.form = "store"  -> Emits(REG(i.rs1) \cup REG(i.rs2), gp_reg_usage({i.rs1, i.rs2}))
      [] i.form = "op"     -> Emits(REG(i.rs1) \cup REG(i.rs2) \cup REG(i.rd),
                                    gp_reg_usage({i.rs1, i.rs2, i.rd}))

\* A csr is only read, as 0, into a register other than zero.
func_jump(i) ==
    CASE i.form = "branch" -> Emits(REG(i.rs1) \cup REG(i.rs2), gp_reg_usage({i.rs1, i.rs2}))
      [] i.form = "jalr"   -> Emits(REG(i.rs1) \cup REG(i.rd), gp_reg_usage({i.rs1, i.rd}))
      [] i.form = "jal"    -> Emits(REG(i.rd), gp_reg_usage({i.rd}))
      [] i.form = "ecall"  -> Emits({}, {})
      [] i.form = "csr"    -> IF i.rd # 0 THEN Emits({<<"x", i.rd>>}, gp_reg_usage({i.rd}))
                              ELSE Emits({}, {})

\* Mutant: flw and fld trace their destination as an integer register.
func_fp_load_gp(i) ==
    CASE i.form = "fload" -> Emits(REG(i.rs1) \cup FREG(i.rd), gp_reg_usage({i.rs1, i.rd}))
      [] i.form = "fstore" -> Emits(REG(i.rs1) \cup FREG(i.rs2),
                                    gp_reg_usage({i.rs1}) \cup fp_reg_usage({i.rs2}))
      [] OTHER -> Emits({}, {})

\* "from_int" are the conversions from an integer register and fmv_w_x and
\* fmv_d_x, "fmv_x" the moves to one.
func_fp(i) ==
    CASE i.form = "fload"    -> Emits(REG(i.rs1) \cup FREG(i.rd),
                                      gp_reg_usage({i.rs1}) \cup fp_reg_usage({i.rd}))
      [] i.form = "fstore"   -> Emits(REG(i.rs1) \cup FREG(i.rs2),
                                      gp_reg_usage({i.rs1}) \cup fp_reg_usage({i.rs2}))
      [] i.form = "fused"    -> Emits(FREG(i.rs1) \cup FREG(i.rs2) \cup FREG(i.rs3) \cup FREG(i.rd),
                                      fp_reg_usage({i.rs1, i.rs2, i.rs3, i.rd}))
      [] i.form = "farith"   -> Emits(FREG(i.rs1) \cup FREG(i.rs2) \cup FREG(i.rd),
                                      fp_reg_usage({i.rs1, i.rs2, i.rd}))
      [] i.form = "from_int" -> Emits(REG(i.rs1) \cup FREG(i.rd),
                                      gp_reg_usage({i.rs1}) \cup fp_reg_usage({i.rd}))
      [] i.form = "fmv_x"    -> Emits(FREG(i.rs1) \cup REG(i.rd),
                                      gp_reg_usage({i.rd}) \cup fp_reg_usage({i.rs1}))
      [] i.form = "fcmp"     -> Emits(FREG(i.rs1) \cup FREG(i.rs2) \cup REG(i.rd),
                                      gp_reg_usage({i.rd}) \cup fp_reg_usage({i.rs1, i.rs2}))
      [] i.form = "fcvt_fp"  -> Emits(FREG(i.rs1) \cup FREG(i.rd), fp_reg_usage({i.rs1, i.rd}))

\* funcs[insn.type]: func_empty, and the functions that leave an instruction to
\* the interpreter, name no register.
funcs(i) ==
    CASE i.form \in IntForms -> func_int(i)
      [] i.form \in JumpForms -> func_jump(i)
      [] i.form \in FpForms -> func_fp(i)
      [] OTHER -> Emits({}, {})

\* The locals that the prologue declares and the epilogue writes back: the loop
\* over integer registers starts at 1.
Locals(traced) == traced \ {<<"x", 0>>}
=============================================================================
