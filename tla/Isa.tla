-------------------------------- MODULE Isa --------------------------------
(***************************************************************************)
(* What the guest program may expect of the emulator: a RISC-V hart that   *)
(* executes one instruction after another, x0 reads as zero, and an ecall  *)
(* traps to an environment that answers in a0.  Blocks, hotness, compiled  *)
(* code and the interpreter, which Machine.tla models, are invisible here. *)
(***************************************************************************)
EXTENDS Insns

CONSTANTS
    Word,     \* number of values of a register
    Regs,     \* register numbers; 0 is the zero register
    a0,       \* the register of an ecall's result
    Programs, \* guest programs: address -> instruction
    Results   \* what a system call may return

VARIABLES
    prog,   \* the program in memory
    gpc,    \* the guest's program counter
    gregs,  \* the guest's registers
    mode    \* "run", "trap" (in an ecall) or "halt"

isaVars == <<prog, gpc, gregs, mode>>

IsaInit ==
    /\ prog \in Programs
    /\ gpc \in DOMAIN prog \cup {0}
    /\ gregs \in [Regs -> 0 .. Word - 1]
    /\ gregs[0] = 0
    /\ mode = "run"

\* Writing x0 has no effect.
SetReg(rd, v) == IF rd = 0 THEN gregs ELSE [gregs EXCEPT ![rd] = v % Word]

\* The value "op" computes, and the one of the class left to the interpreter.
OpVal(a, imm) == (a + imm) % Word
InterpVal(a, b) == (a * b + 1) % Word

Exec(insn) ==
    LET next == NextPc(gpc, insn) IN
    CASE insn.type = "op" ->
           /\ gregs' = SetReg(insn.rd, OpVal(gregs[insn.rs1], insn.imm))
           /\ gpc' = next /\ mode' = mode
      [] insn.type = "interp" ->
           /\ gregs' = SetReg(insn.rd, InterpVal(gregs[insn.rs1], gregs[insn.rs2]))
           /\ gpc' = next /\ mode' = mode
      [] insn.type = "branch" ->
           /\ gpc' = IF gregs[insn.rs1] = gregs[insn.rs2] THEN insn.target ELSE next
           /\ gregs' = gregs /\ mode' = mode
      [] insn.type = "jal" ->
           /\ gregs' = SetReg(insn.rd, next)
           /\ gpc' = insn.target /\ mode' = mode
      [] insn.type = "jalr" ->
           \* the target is that of the old rs1, even if rd = rs1; bit 0 is cleared
           LET t == OpVal(gregs[insn.rs1], insn.imm) IN
           /\ gregs' = SetReg(insn.rd, next)
           /\ gpc' = t - (t % 2) /\ mode' = mode
      [] insn.type = "ecall" ->
           /\ gpc' = next /\ mode' = "trap"
           /\ gregs' = gregs

Step ==
    /\ mode = "run" /\ gpc \in DOMAIN prog
    /\ Exec(prog[gpc])
    /\ prog' = prog

\* The environment answers the system call, or ends the program.
Sysret ==
    /\ mode = "trap"
    /\ \/ \E v \in Results : gregs' = [gregs EXCEPT ![a0] = v] /\ mode' = "run"
       \/ mode' = "halt" /\ gregs' = gregs
    /\ UNCHANGED <<prog, gpc>>

\* Jumping to address 0 ends the program.
Halt ==
    /\ mode = "run" /\ gpc = 0
    /\ mode' = "halt"
    /\ UNCHANGED <<prog, gpc, gregs>>

IsaNext == Step \/ Sysret \/ Halt

IsaSpec == IsaInit /\ [][IsaNext]_isaVars
=============================================================================
