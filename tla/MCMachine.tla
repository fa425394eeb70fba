----------------------------- MODULE MCMachine -----------------------------
(***************************************************************************)
(* Every program of three instruction slots over a choice of instructions  *)
(* that covers each class: writes to x0, a jalr whose rd is its rs1,       *)
(* self-loops, loops, calls, traps, instructions left to the interpreter,  *)
(* jumps to 0 and off the end of the program.  The cache has a slot for    *)
(* each instruction, so that only an address off the end finds it full.    *)
(***************************************************************************)
EXTENDS Machine

I(type, rd, rs1, rs2, imm, target) ==
    [type |-> type, rvc |-> type # "ecall", rd |-> rd, rs1 |-> rs1, rs2 |-> rs2,
     imm |-> imm, target |-> target]

Choice ==
    { I("op", 1, 1, 0, 2, 0), I("op", 0, 1, 0, 2, 0), I("op", 2, 1, 0, 1, 0),
      I("branch", 0, 1, 2, 0, 2), I("branch", 0, 1, 0, 0, 6),
      I("branch", 0, 1, 0, 0, 8),
      I("jal", 1, 0, 0, 0, 2), I("jal", 0, 0, 0, 0, 6), I("jal", 1, 0, 0, 0, 6),
      I("jalr", 1, 1, 0, 0, 0), I("jalr", 0, 2, 0, 1, 0),
      I("interp", 2, 1, 2, 0, 0),
      I("ecall", 0, 0, 0, 0, 0) }

MCPrograms == [{2, 4, 6} -> Choice]

MCRegs == 0 .. 2

MCPCs == 1 .. 10
=============================================================================
