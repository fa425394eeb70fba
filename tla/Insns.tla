------------------------------- MODULE Insns -------------------------------
(***************************************************************************)
(* Decoded instructions (insn_t, src/inc/riscvemu.h:91-102) as the block   *)
(* builder, the interpreter and the generated code see them.  The 140      *)
(* instruction types fall into six classes by what they do to control      *)
(* flow; inside a class the arithmetic differs, which is Alu's business.   *)
(***************************************************************************)
EXTENDS Naturals

\* "op" falls through and computes rd from rs1 and the immediate; "interp" is
\* one the code generator leaves to the interpreter (codegen.c:813-906).
InsnTypes == {"op", "branch", "jal", "jalr", "ecall", "interp"}

\* target is pc + imm of a direct jump.
Insn == [type : InsnTypes, rvc : BOOLEAN, rd : Nat, rs1 : Nat, rs2 : Nat,
         imm : Nat, target : Nat]

NextPc(a, insn) == a + (IF insn.rvc THEN 2 ELSE 4)

\* Mutant: a call is taken to fall through to the instruction after it.
EndsBlock_call_returns(insn) == insn.type \in {"jalr", "ecall", "interp"}

\* insn->cont after the code generator has handled the instruction: the
\* emitted code does not fall through.
EndsBlock(insn) == insn.type \in {"jal", "jalr", "ecall", "interp"}

\* The targets of the gotos the code generator emits, next address aside.
Targets(insn) == IF insn.type \in {"branch", "jal"} THEN {insn.target} ELSE {}

\* The direct successors of instruction insn at address a.
Successors(a, insn) ==
    Targets(insn) \cup (IF EndsBlock(insn) THEN {} ELSE {NextPc(a, insn)})

\* tracer_add_gp_reg_usage of each func_*: the registers that become locals.
\* x0 never does (the loops of codegen.c:28 and 46 start at 1).
Traces(insn) ==
    CASE insn.type = "op"     -> {insn.rd, insn.rs1} \ {0}
      [] insn.type = "branch" -> {insn.rs1, insn.rs2} \ {0}
      [] insn.type = "jal"    -> {insn.rd} \ {0}
      [] insn.type = "jalr"   -> {insn.rd, insn.rs1} \ {0}
      [] OTHER                -> {}
=============================================================================
