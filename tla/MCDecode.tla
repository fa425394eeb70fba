----------------------------- MODULE MCDecode -----------------------------
(***************************************************************************)
(* Every 16-bit word that is a compressed instruction.  Of 32-bit words,   *)
(* every combination of the bits that select an instruction, and every     *)
(* format with registers and immediates at the ends of their ranges.       *)
(***************************************************************************)
EXTENDS Decode32

Selected == {4, 6, 12, 14, 16, 20}

MCWords ==
    [opcode : Selected, rd : {21}, funct3 : 0 .. 7, rs1 : {10}, rs2 : {0, 1, 2, 3, 4},
     funct7 : 0 .. 127]
    \cup
    [opcode : 0 .. 31 \ Selected, rd : {0, 21}, funct3 : 0 .. 7, rs1 : {0, 10}, rs2 : {0, 1},
     funct7 : {0, 1, 2, 3, 86}]
    \cup
    [opcode : {0, 8, 13, 19, 24, 27, 28}, rd : {0, 1, 16, 31}, funct3 : {0, 3, 5, 7},
     rs1 : {0, 1, 16, 31}, rs2 : {0, 1, 2, 16, 31}, funct7 : {0, 1, 32, 63, 64, 127}]

MCHalves == { w \in 0 .. 65535 : w % 4 # 3 }
=============================================================================
