------------------------------- MODULE Decode -------------------------------
(***************************************************************************)
(* The decoder for compressed instructions (src/src/decode.c:126-368 and   *)
(* the first three quadrants of insn_decode, 370-619), for every 16-bit    *)
(* word, and the encoding tables of the architecture that Decode32 compares *)
(* it with.  A word is its number here.                                    *)
(***************************************************************************)
EXTENDS Integers, Sequences, Functions

\* insn_t before its fields are set, and the mark of a word on which insn_decode
\* ends the emulator.
Zero == [type |-> "lb", rd |-> 0, rs1 |-> 0, rs2 |-> 0, rs3 |-> 0, imm |-> 0, csr |-> 0,
         rvc |-> FALSE, cont |-> FALSE]
Dies == [Zero EXCEPT !.type = "dies"]
-----------------------------------------------------------------------------
\* n bits of d from bit lo on: (d >> lo) & mask.
Field(d, lo, n) == (d \div 2^lo) % 2^n

\* (imm << (32 - n)) >> (32 - n): the sign extension of n bits.
Extend(v, n) == IF v >= 2^(n-1) THEN v - 2^n ELSE v

QUADRANT(d) == Field(d, 0, 2)
COPCODE(d) == Field(d, 13, 3)
CFUNCT1(d) == Field(d, 12, 1)
CFUNCT2LOW(d) == Field(d, 5, 2)
CFUNCT2HIGH(d) == Field(d, 10, 2)
RP1(d) == Field(d, 7, 3)
RP2(d) == Field(d, 2, 3)
RC1(d) == Field(d, 7, 5)
RC2(d) == Field(d, 2, 5)

zero == 0
ra == 1
sp == 2

\* What the readers return: the fields they do not name are 0.
Rvc == [Zero EXCEPT !.rvc = TRUE]

insn_catype_read(d) == [Rvc EXCEPT !.rd = RP1(d) + 8, !.rs2 = RP2(d) + 8]

insn_crtype_read(d) == [Rvc EXCEPT !.rs1 = RC1(d), !.rs2 = RC2(d)]

insn_citype_read(d) ==
    [Rvc EXCEPT !.imm = Extend(Field(d, 12, 1) * 32 + Field(d, 2, 5), 6), !.rd = RC1(d)]

insn_citype_read2(d) ==
    [Rvc EXCEPT !.imm = Field(d, 2, 3) * 64 + Field(d, 5, 2) * 8 + Field(d, 12, 1) * 32,
                !.rd = RC1(d)]

\* Mutant: bits 8:7 and bit 6 of the immediate change places.
insn_citype_read3_swapped(d) ==
    [Rvc EXCEPT !.imm = Extend(Field(d, 2, 1) * 32 + Field(d, 3, 1) * 64 + Field(d, 4, 2) * 128
                                 + Field(d, 6, 1) * 16 + Field(d, 12, 1) * 512, 10),
                !.rd = RC1(d)]

insn_citype_read3(d) ==
    [Rvc EXCEPT !.imm = Extend(Field(d, 2, 1) * 32 + Field(d, 3, 2) * 128 + Field(d, 5, 1) * 64
                                 + Field(d, 6, 1) * 16 + Field(d, 12, 1) * 512, 10),
                !.rd = RC1(d)]

insn_citype_read4(d) ==
    [Rvc EXCEPT !.imm = Field(d, 12, 1) * 32 + Field(d, 4, 3) * 4 + Field(d, 2, 2) * 64,
                !.rd = RC1(d)]

insn_citype_read5(d) ==
    [Rvc EXCEPT !.imm = Extend(Field(d, 2, 5) * 2^12 + Field(d, 12, 1) * 2^17, 18),
                !.rd = RC1(d)]

insn_cbtype_read(d) ==
    [Rvc EXCEPT !.imm = Extend(Field(d, 12, 1) * 256 + Field(d, 5, 2) * 64 + Field(d, 2, 1) * 32
                                 + Field(d, 10, 2) * 8 + Field(d, 3, 2) * 2, 9),
                !.rs1 = RP1(d) + 8]

insn_cbtype_read2(d) ==
    [Rvc EXCEPT !.imm = Extend(Field(d, 12, 1) * 32 + Field(d, 2, 5), 6), !.rd = RP1(d) + 8]

insn_cstype_read(d) ==
    [Rvc EXCEPT !.imm = Field(d, 5, 2) * 64 + Field(d, 10, 3) * 8,
                !.rs1 = RP1(d) + 8, !.rs2 = RP2(d) + 8]

insn_cstype_read2(d) ==
    [Rvc EXCEPT !.imm = Field(d, 5, 1) * 64 + Field(d, 6, 1) * 4 + Field(d, 10, 3) * 8,
                !.rs1 = RP1(d) + 8, !.rs2 = RP2(d) + 8]

insn_cjtype_read(d) ==
    [Rvc EXCEPT !.imm = Extend(Field(d, 2, 1) * 32 + Field(d, 3, 3) * 2 + Field(d, 6, 1) * 128
                                 + Field(d, 7, 1) * 64 + Field(d, 8, 1) * 2^10
                                 + Field(d, 9, 2) * 2^8 + Field(d, 11, 1) * 16
                                 + Field(d, 12, 1) * 2^11, 12)]

insn_cltype_read(d) ==
    [Rvc EXCEPT !.imm = Field(d, 5, 1) * 64 + Field(d, 6, 1) * 4 + Field(d, 10, 3) * 8,
                !.rs1 = RP1(d) + 8, !.rd = RP2(d) + 8]

insn_cltype_read2(d) ==
    [Rvc EXCEPT !.imm = Field(d, 5, 2) * 64 + Field(d, 10, 3) * 8,
                !.rs1 = RP1(d) + 8, !.rd = RP2(d) + 8]

insn_csstype_read(d) ==
    [Rvc EXCEPT !.imm = Field(d, 7, 3) * 64 + Field(d, 10, 3) * 8, !.rs2 = RC2(d)]

insn_csstype_read2(d) ==
    [Rvc EXCEPT !.imm = Field(d, 7, 2) * 64 + Field(d, 9, 4) * 4, !.rs2 = RC2(d)]

insn_ciwtype_read(d) ==
    [Rvc EXCEPT !.imm = Field(d, 5, 1) * 8 + Field(d, 6, 1) * 4 + Field(d, 7, 4) * 64
                          + Field(d, 11, 2) * 16,
                !.rd = RP2(d) + 8]
-----------------------------------------------------------------------------
\* insn->rs1 = insn->rd
OnItself(i) == [i EXCEPT !.rs1 = i.rd]
Typed(i, t) == [i EXCEPT !.type = t]
\* assert(ok)
Asserted(ok, i) == IF ok THEN i ELSE Dies

quadrant0(d) ==
    CASE COPCODE(d) = 0 -> LET i == insn_ciwtype_read(d) IN
                           Asserted(i.imm # 0, [Typed(i, "addi") EXCEPT !.rs1 = sp])
      [] COPCODE(d) = 1 -> Typed(insn_cltype_read2(d), "fld")
      [] COPCODE(d) = 2 -> Typed(insn_cltype_read(d), "lw")
      [] COPCODE(d) = 3 -> Typed(insn_cltype_read2(d), "ld")
      [] COPCODE(d) = 5 -> Typed(insn_cstype_read(d), "fsd")
      [] COPCODE(d) = 6 -> Typed(insn_cstype_read2(d), "sw")
      [] COPCODE(d) = 7 -> Typed(insn_cstype_read(d), "sd")
      [] OTHER -> Dies

quadrant1(d) ==
    CASE COPCODE(d) = 0 -> Typed(OnItself(insn_citype_read(d)), "addi")
      [] COPCODE(d) = 1 -> LET i == insn_citype_read(d) IN
                           Asserted(i.rd # 0, Typed(OnItself(i), "addiw"))
      [] COPCODE(d) = 2 -> [Typed(insn_citype_read(d), "addi") EXCEPT !.rs1 = zero]
      [] COPCODE(d) = 3 -> IF RC1(d) = 2
                           THEN LET i == insn_citype_read3(d) IN
                                Asserted(i.imm # 0, Typed(OnItself(i), "addi"))
                           ELSE LET i == insn_citype_read5(d) IN
                                Asserted(i.imm # 0, Typed(i, "lui"))
      [] COPCODE(d) = 4 ->
           (CASE CFUNCT2HIGH(d) = 0 -> Typed(OnItself(insn_cbtype_read2(d)), "srli")
              [] CFUNCT2HIGH(d) = 1 -> Typed(OnItself(insn_cbtype_read2(d)), "srai")
              [] CFUNCT2HIGH(d) = 2 -> Typed(OnItself(insn_cbtype_read2(d)), "andi")
              [] CFUNCT2HIGH(d) = 3 ->
                   LET types == IF CFUNCT1(d) = 0 THEN <<"sub", "xor", "or", "and">>
                                ELSE <<"subw", "addw">>
                   IN  IF CFUNCT2LOW(d) < Len(types)
                       THEN Typed(OnItself(insn_catype_read(d)), types[CFUNCT2LOW(d) + 1])
                       ELSE Dies)
      [] COPCODE(d) = 5 -> [Typed(insn_cjtype_read(d), "jal") EXCEPT !.rd = zero, !.cont = TRUE]
      [] COPCODE(d) = 6 -> [Typed(insn_cbtype_read(d), "beq") EXCEPT !.rs2 = zero]
      [] COPCODE(d) = 7 -> [Typed(insn_cbtype_read(d), "bne") EXCEPT !.rs2 = zero]

\* C.JR and C.MV, C.JALR and C.ADD.
jump_or_move(d) ==
    LET i == insn_crtype_read(d) IN
    IF CFUNCT1(d) = 0
    THEN IF i.rs2 = 0
         THEN Asserted(i.rs1 # 0, [Typed(i, "jalr") EXCEPT !.rd = zero, !.cont = TRUE])
         ELSE [Typed(i, "add") EXCEPT !.rd = i.rs1, !.rs1 = zero]
    ELSE IF i.rs1 = 0 /\ i.rs2 = 0 THEN Dies
    ELSE IF i.rs2 = 0 THEN [Typed(i, "jalr") EXCEPT !.rd = ra, !.cont = TRUE]
    ELSE [Typed(i, "add") EXCEPT !.rd = i.rs1]

quadrant2(d) ==
    CASE COPCODE(d) = 0 -> Typed(OnItself(insn_citype_read(d)), "slli")
      [] COPCODE(d) = 1 -> [Typed(insn_citype_read2(d), "fld") EXCEPT !.rs1 = sp]
      [] COPCODE(d) = 2 -> LET i == insn_citype_read4(d) IN
                           Asserted(i.rd # 0, [Typed(i, "lw") EXCEPT !.rs1 = sp])
      [] COPCODE(d) = 3 -> LET i == insn_citype_read2(d) IN
                           Asserted(i.rd # 0, [Typed(i, "ld") EXCEPT !.rs1 = sp])
      [] COPCODE(d) = 4 -> jump_or_move(d)
      [] COPCODE(d) = 5 -> [Typed(insn_csstype_read(d), "fsd") EXCEPT !.rs1 = sp]
      [] COPCODE(d) = 6 -> [Typed(insn_csstype_read2(d), "sw") EXCEPT !.rs1 = sp]
      [] COPCODE(d) = 7 -> [Typed(insn_csstype_read(d), "sd") EXCEPT !.rs1 = sp]

insn_decode_rvc(d) ==
    CASE QUADRANT(d) = 0 -> quadrant0(d)
      [] QUADRANT(d) = 1 -> quadrant1(d)
      [] QUADRANT(d) = 2 -> quadrant2(d)
-----------------------------------------------------------------------------
(***************************************************************************)
(* The encoding tables of the architecture: an instruction is the one it   *)
(* expands to, where each of bits 12..2 goes in the immediate (-1:         *)
(* nowhere), whether bit 12 is its sign, and where the registers are.      *)
(***************************************************************************)
no == -1
CI       == <<5, no, no, no, no, no, 4, 3, 2, 1, 0>>
CILui    == <<17, no, no, no, no, no, 16, 15, 14, 13, 12>>
CI16sp   == <<9, no, no, no, no, no, 4, 6, 8, 7, 5>>
CILwsp   == <<5, no, no, no, no, no, 4, 3, 2, 7, 6>>
CILdsp   == <<5, no, no, no, no, no, 4, 3, 8, 7, 6>>
CSSSwsp  == <<5, 4, 3, 2, 7, 6, no, no, no, no, no>>
CSSSdsp  == <<5, 4, 3, 8, 7, 6, no, no, no, no, no>>
CIW      == <<5, 4, 9, 8, 7, 6, 2, 3, no, no, no>>
CLw      == <<5, 4, 3, no, no, no, 2, 6, no, no, no>>
CLd      == <<5, 4, 3, no, no, no, 7, 6, no, no, no>>
CB       == <<8, 4, 3, no, no, no, 7, 6, 2, 1, 5>>
CJ       == <<11, 4, 9, 8, 10, 6, 7, 3, 2, 1, 5>>
CR       == [k \in 1 .. 11 |-> no]

\* The value of the immediate: the bits of d that are set, at their weights.
RvcWeight(layout, signed, k) ==
    IF layout[k] = no THEN 0 ELSE IF signed /\ k = 1 THEN -(2^layout[k]) ELSE 2^layout[k]
RvcAt(d, layout, signed, k) == Field(d, 13 - k, 1) * RvcWeight(layout, signed, k)
RvcHigh(d, layout, signed) ==
    RvcAt(d, layout, signed, 1) + RvcAt(d, layout, signed, 2) + RvcAt(d, layout, signed, 3)
      + RvcAt(d, layout, signed, 4) + RvcAt(d, layout, signed, 5) + RvcAt(d, layout, signed, 6)
RvcLow(d, layout, signed) ==
    RvcAt(d, layout, signed, 7) + RvcAt(d, layout, signed, 8) + RvcAt(d, layout, signed, 9)
      + RvcAt(d, layout, signed, 10) + RvcAt(d, layout, signed, 11)
Immediate(d, layout, signed) == RvcHigh(d, layout, signed) + RvcLow(d, layout, signed)

\* Where a register comes from: five bits at 11..7 or 6..2, three bits there
\* for x8 to x15, or always the same one.
Register(d, r) ==
    CASE r = "r7" -> Field(d, 7, 5) [] r = "r2" -> Field(d, 2, 5)
      [] r = "p7" -> Field(d, 7, 3) + 8 [] r = "p2" -> Field(d, 2, 3) + 8
      [] r = "x0" -> 0 [] r = "x1" -> 1 [] r = "x2" -> 2

\* What each instruction expands to: type, layout, sign, rd, rs1, rs2.
Expansion ==
    [addi4spn |-> <<"addi", CIW, FALSE, "p2", "x2", "x0">>,
     fld      |-> <<"fld", CLd, FALSE, "p2", "p7", "x0">>,
     lw       |-> <<"lw", CLw, FALSE, "p2", "p7", "x0">>,
     ld       |-> <<"ld", CLd, FALSE, "p2", "p7", "x0">>,
     fsd      |-> <<"fsd", CLd, FALSE, "x0", "p7", "p2">>,
     sw       |-> <<"sw", CLw, FALSE, "x0", "p7", "p2">>,
     sd       |-> <<"sd", CLd, FALSE, "x0", "p7", "p2">>,
     addi     |-> <<"addi", CI, TRUE, "r7", "r7", "x0">>,
     addiw    |-> <<"addiw", CI, TRUE, "r7", "r7", "x0">>,
     li       |-> <<"addi", CI, TRUE, "r7", "x0", "x0">>,
     addi16sp |-> <<"addi", CI16sp, TRUE, "x2", "x2", "x0">>,
     lui      |-> <<"lui", CILui, TRUE, "r7", "x0", "x0">>,
     srli     |-> <<"srli", CI, FALSE, "p7", "p7", "x0">>,
     srai     |-> <<"srai", CI, FALSE, "p7", "p7", "x0">>,
     andi     |-> <<"andi", CI, TRUE, "p7", "p7", "x0">>,
     sub      |-> <<"sub", CR, FALSE, "p7", "p7", "p2">>,
     xor      |-> <<"xor", CR, FALSE, "p7", "p7", "p2">>,
     or       |-> <<"or", CR, FALSE, "p7", "p7", "p2">>,
     and      |-> <<"and", CR, FALSE, "p7", "p7", "p2">>,
     subw     |-> <<"subw", CR, FALSE, "p7", "p7", "p2">>,
     addw     |-> <<"addw", CR, FALSE, "p7", "p7", "p2">>,
     j        |-> <<"jal", CJ, TRUE, "x0", "x0", "x0">>,
     beqz     |-> <<"beq", CB, TRUE, "x0", "p7", "x0">>,
     bnez     |-> <<"bne", CB, TRUE, "x0", "p7", "x0">>,
     slli     |-> <<"slli", CI, FALSE, "r7", "r7", "x0">>,
     fldsp    |-> <<"fld", CILdsp, FALSE, "r7", "x2", "x0">>,
     lwsp     |-> <<"lw", CILwsp, FALSE, "r7", "x2", "x0">>,
     ldsp     |-> <<"ld", CILdsp, FALSE, "r7", "x2", "x0">>,
     jr       |-> <<"jalr", CR, FALSE, "x0", "r7", "x0">>,
     mv       |-> <<"add", CR, FALSE, "r7", "x0", "r2">>,
     jalr     |-> <<"jalr", CR, FALSE, "x1", "r7", "x0">>,
     add      |-> <<"add", CR, FALSE, "r7", "r7", "r2">>,
     fsdsp    |-> <<"fsd", CSSSdsp, FALSE, "x0", "x2", "r2">>,
     swsp     |-> <<"sw", CSSSwsp, FALSE, "x0", "x2", "r2">>,
     sdsp     |-> <<"sd", CSSSdsp, FALSE, "x0", "x2", "r2">>]

\* Bits 15..13 and 1..0 select the instruction, for two of the values
\* together with others.
Arithmetic(d) ==
    IF Field(d, 10, 2) < 3 THEN <<"srli", "srai", "andi">>[Field(d, 10, 2) + 1]
    ELSE <<"sub", "xor", "or", "and", "subw", "addw", "reserved", "reserved">>
             [Field(d, 12, 1) * 4 + Field(d, 5, 2) + 1]
Jump(d) ==
    CASE Field(d, 2, 5) # 0 -> <<"mv", "add">>[Field(d, 12, 1) + 1]
      [] Field(d, 2, 5) = 0 /\ Field(d, 7, 5) # 0 -> <<"jr", "jalr">>[Field(d, 12, 1) + 1]
      [] OTHER -> <<"reserved", "ebreak">>[Field(d, 12, 1) + 1]

Mnemonic(d) ==
    <<<<"addi4spn", "fld", "lw", "ld", "reserved", "fsd", "sw", "sd">>,
      <<"addi", "addiw", "li", IF Field(d, 7, 5) = 2 THEN "addi16sp" ELSE "lui",
        Arithmetic(d), "j", "beqz", "bnez">>,
      <<"slli", "fldsp", "lwsp", "ldsp", Jump(d), "fsdsp", "swsp", "sdsp">>>>
        [(d % 4) + 1][Field(d, 13, 3) + 1]

\* The words that stand for no instruction, and the one the decoder does not
\* implement.
Undecodable(d) ==
    LET m == Mnemonic(d) IN
    \/ m \in {"reserved", "ebreak"}
    \/ m \in {"addi4spn", "addi16sp", "lui"} /\ Immediate(d, Expansion[m][2], FALSE) = 0
    \/ m \in {"addiw", "lwsp", "ldsp"} /\ Field(d, 7, 5) = 0
=============================================================================
