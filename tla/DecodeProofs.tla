---------------------------- MODULE DecodeProofs ----------------------------
(***************************************************************************)
(* For every 32-bit and every 16-bit word, not only those tried by TLC:    *)
(* insn_decode gives the instruction that the encoding tables give, and    *)
(* both dispatch tables have the function of its type.                     *)
(*                                                                         *)
(* The argument follows the two halves of Decodes32.  The readers return   *)
(* the registers and the immediate of the six formats (Immediates,         *)
(* Formats); an opcode's switch selects the type whose encoding the word   *)
(* matches, or none (one lemma per opcode).  Compressed words are treated  *)
(* instruction by instruction, over their sixteen bits.                    *)
(***************************************************************************)
EXTENDS Decode32, TLAPS
-----------------------------------------------------------------------------
(***************************************************************************)
(* Immediates: a reader's shifts and masks put the bits of the word at the *)
(* weights of the format.                                                  *)
(***************************************************************************)
\* The fields of a word are within their widths.
LEMMA FieldTypes ==
    ASSUME NEW d \in Word32
    PROVE  /\ d.opcode \in 0 .. 31 /\ d.rd \in 0 .. 31 /\ d.funct3 \in 0 .. 7
           /\ d.rs1 \in 0 .. 31 /\ d.rs2 \in 0 .. 31 /\ d.funct7 \in 0 .. 127
  BY DEF Word32

\* A word is not taken for a compressed one.
LEMMA IsWord ==
    ASSUME NEW d \in Word32
    PROVE  ~IsRvc(d)
  BY DEF IsRvc, Word32

\* A value of five bits, and one of seven, is the sum of its bits.
LEMMA Sum5 ==
    ASSUME NEW v \in 0 .. 31
    PROVE  v = ((v \div 1) % 2) + 2 * ((v \div 2) % 2) + 4 * ((v \div 4) % 2)
                 + 8 * ((v \div 8) % 2) + 16 * ((v \div 16) % 2)
  OBVIOUS

\* And of seven bits.
LEMMA Sum7 ==
    ASSUME NEW v \in 0 .. 127
    PROVE  v = ((v \div 1) % 2) + 2 * ((v \div 2) % 2) + 4 * ((v \div 4) % 2)
                 + 8 * ((v \div 8) % 2) + 16 * ((v \div 16) % 2) + 32 * ((v \div 32) % 2)
                 + 64 * ((v \div 64) % 2)
  OBVIOUS

\* Every field is the sum of the bits of the word that it covers.
LEMMA WordBits ==
    ASSUME NEW d \in Word32
    PROVE  /\ d.rd = Bit(d, 7) + 2 * Bit(d, 8) + 4 * Bit(d, 9) + 8 * Bit(d, 10)
                       + 16 * Bit(d, 11)
           /\ d.funct3 = Bit(d, 12) + 2 * Bit(d, 13) + 4 * Bit(d, 14)
           /\ d.rs1 = Bit(d, 15) + 2 * Bit(d, 16) + 4 * Bit(d, 17) + 8 * Bit(d, 18)
                        + 16 * Bit(d, 19)
           /\ d.rs2 = Bit(d, 20) + 2 * Bit(d, 21) + 4 * Bit(d, 22) + 8 * Bit(d, 23)
                        + 16 * Bit(d, 24)
           /\ d.funct7 = Bit(d, 25) + 2 * Bit(d, 26) + 4 * Bit(d, 27) + 8 * Bit(d, 28)
                           + 16 * Bit(d, 29) + 32 * Bit(d, 30) + 64 * Bit(d, 31)
           /\ \A k \in 7 .. 31 : Bit(d, k) \in 0 .. 1
<1>1. /\ d.rd = Bit(d, 7) + 2 * Bit(d, 8) + 4 * Bit(d, 9) + 8 * Bit(d, 10) + 16 * Bit(d, 11)
      /\ \A k \in 7 .. 11 : Bit(d, k) \in 0 .. 1
  BY FieldTypes, Sum5 DEF Bit
<1>2. /\ d.funct3 = Bit(d, 12) + 2 * Bit(d, 13) + 4 * Bit(d, 14)
      /\ \A k \in 12 .. 14 : Bit(d, k) \in 0 .. 1
  BY FieldTypes DEF Bit
<1>3. /\ d.rs1 = Bit(d, 15) + 2 * Bit(d, 16) + 4 * Bit(d, 17) + 8 * Bit(d, 18) + 16 * Bit(d, 19)
      /\ \A k \in 15 .. 19 : Bit(d, k) \in 0 .. 1
  BY FieldTypes, Sum5 DEF Bit
<1>4. /\ d.rs2 = Bit(d, 20) + 2 * Bit(d, 21) + 4 * Bit(d, 22) + 8 * Bit(d, 23) + 16 * Bit(d, 24)
      /\ \A k \in 20 .. 24 : Bit(d, k) \in 0 .. 1
  BY FieldTypes, Sum5 DEF Bit
<1>5. /\ d.funct7 = Bit(d, 25) + 2 * Bit(d, 26) + 4 * Bit(d, 27) + 8 * Bit(d, 28)
                      + 16 * Bit(d, 29) + 32 * Bit(d, 30) + 64 * Bit(d, 31)
      /\ \A k \in 25 .. 31 : Bit(d, k) \in 0 .. 1
  BY FieldTypes, Sum7 DEF Bit
<1> QED BY <1>1, <1>2, <1>3, <1>4, <1>5

\* The bits that B and J immediates move away from their neighbours.
LEMMA LoneBits ==
    ASSUME NEW d \in Word32
    PROVE  /\ Bit(d, 7) \in 0 .. 1 /\ Bit(d, 20) \in 0 .. 1 /\ Bit(d, 31) \in 0 .. 1
           /\ d.funct7 \div 64 = Bit(d, 31) /\ d.funct7 % 64 = d.funct7 - 64 * Bit(d, 31)
           /\ d.rs2 % 2 = Bit(d, 20) /\ 2 * (d.rs2 \div 2) = d.rs2 - Bit(d, 20)
           /\ d.rd % 2 = Bit(d, 7) /\ 2 * (d.rd \div 2) = d.rd - Bit(d, 7)
  BY WordBits

\* A field whose bits have no weight contributes nothing.
LEMMA NoWeight ==
    ASSUME NEW d \in Word32, NEW f
    PROVE  /\ (\A k \in 7 .. 11 : Weight(f, k) = 0) => FromRd(d, f) = 0
           /\ (\A k \in 12 .. 14 : Weight(f, k) = 0) => FromFunct3(d, f) = 0
           /\ (\A k \in 15 .. 19 : Weight(f, k) = 0) => FromRs1(d, f) = 0
           /\ (\A k \in 20 .. 24 : Weight(f, k) = 0) => FromRs2(d, f) = 0
           /\ (\A k \in 25 .. 31 : Weight(f, k) = 0) => FromFunct7(d, f) = 0
<1>1. \A k \in 7 .. 31 : Bit(d, k) \in Int
  BY WordBits
<1>2. \A k \in 7 .. 31 : Weight(f, k) = 0 => At(d, f, k) = 0
  BY <1>1 DEF At
<1> QED BY <1>2, SMT DEF FromRd, FromFunct3, FromRs1, FromRs2, FromFunct7

\* insn_itype_read: bits 31..20.
LEMMA ImmediateI ==
    ASSUME NEW d \in Word32
    PROVE  Immediate32(d, "I") = Extend(d.funct7 * 32 + d.rs2, 12)
<1>1. PICK f \in 0 .. 127, q \in 0 .. 31, s \in 0 .. 1 :
        f = d.funct7 /\ q = d.rs2 /\ s = Bit(d, 31)
  BY FieldTypes, LoneBits, Zenon
<1>2. FromRd(d, "I") = 0 /\ FromFunct3(d, "I") = 0 /\ FromRs1(d, "I") = 0
  <2>1. \A k \in 7 .. 19 : Place("I", k) = -1
    BY SMT DEF Place
  <2>2. \A k \in 7 .. 19 : Weight("I", k) = 0
    BY <2>1, SMT DEF Weight
  <2> QED BY <2>2, NoWeight, SMT
<1>3. FromRs2(d, "I") = q
  BY <1>1, WordBits, SMT DEF FromRs2, At, Weight, Place
<1>4. FromFunct7(d, "I") = 32 * f - 4096 * s
  BY <1>1, WordBits, SMT DEF FromFunct7, At, Weight, Place
<1>5. f \div 64 = s
  BY <1>1, LoneBits
<1>6. Immediate32(d, "I") = f * 32 + q - 4096 * s
  BY <1>2, <1>3, <1>4, SMT DEF Immediate32
<1>7. Extend(f * 32 + q, 12) = f * 32 + q - 4096 * s
  BY <1>5, SMT DEF Extend
<1> QED BY <1>1, <1>6, <1>7, SMTT(30)

\* insn_stype_read: bits 31..25 and 11..7.
LEMMA ImmediateS ==
    ASSUME NEW d \in Word32
    PROVE  Immediate32(d, "S") = Extend(d.funct7 * 32 + d.rd, 12)
<1>1. PICK f \in 0 .. 127, r \in 0 .. 31, s \in 0 .. 1 :
        f = d.funct7 /\ r = d.rd /\ s = Bit(d, 31)
  BY FieldTypes, LoneBits, Zenon
<1>2. FromFunct3(d, "S") = 0 /\ FromRs1(d, "S") = 0 /\ FromRs2(d, "S") = 0
  <2>1. \A k \in 12 .. 24 : Place("S", k) = -1
    BY SMT DEF Place
  <2>2. \A k \in 12 .. 24 : Weight("S", k) = 0
    BY <2>1, SMT DEF Weight
  <2> QED BY <2>2, NoWeight, SMT
<1>3. FromRd(d, "S") = r
  BY <1>1, WordBits, SMT DEF FromRd, At, Weight, Place
<1>4. FromFunct7(d, "S") = 32 * f - 4096 * s
  BY <1>1, WordBits, SMT DEF FromFunct7, At, Weight, Place
<1>5. f \div 64 = s
  BY <1>1, LoneBits
<1>6. Immediate32(d, "S") = f * 32 + r - 4096 * s
  BY <1>2, <1>3, <1>4, SMT DEF Immediate32
<1>7. Extend(f * 32 + r, 12) = f * 32 + r - 4096 * s
  BY <1>5, SMT DEF Extend
<1> QED BY <1>1, <1>6, <1>7, SMTT(30)

\* insn_btype_read: the bits of S, with bit 7 moved to bit 11.
LEMMA ImmediateB ==
    ASSUME NEW d \in Word32
    PROVE  Immediate32(d, "B")
             = Extend((d.funct7 \div 64) * 4096 + (d.rd % 2) * 2048 + (d.funct7 % 64) * 32
                        + (d.rd \div 2) * 2, 13)
<1>1. PICK f \in 0 .. 127, r \in 0 .. 31, s \in 0 .. 1, e \in 0 .. 1 :
        f = d.funct7 /\ r = d.rd /\ s = Bit(d, 31) /\ e = Bit(d, 7)
  BY FieldTypes, LoneBits, Zenon
<1>2. FromFunct3(d, "B") = 0 /\ FromRs1(d, "B") = 0 /\ FromRs2(d, "B") = 0
  <2>1. \A k \in 12 .. 24 : Place("B", k) = -1
    BY SMT DEF Place
  <2>2. \A k \in 12 .. 24 : Weight("B", k) = 0
    BY <2>1, SMT DEF Weight
  <2> QED BY <2>2, NoWeight, SMT
<1>3. FromRd(d, "B") = r + 2047 * e
  BY <1>1, WordBits, SMT DEF FromRd, At, Weight, Place
<1>4. FromFunct7(d, "B") = 32 * f - 6144 * s
  BY <1>1, WordBits, SMT DEF FromFunct7, At, Weight, Place
<1>5. f \div 64 = s /\ f % 64 = f - 64 * s /\ r % 2 = e /\ 2 * (r \div 2) = r - e
  BY <1>1, LoneBits
<1>6. (f \div 64) * 4096 + (r % 2) * 2048 + (f % 64) * 32 + (r \div 2) * 2
        = r + 2047 * e + 32 * f + 2048 * s
  BY <1>5, SMT
<1>7. Extend(r + 2047 * e + 32 * f + 2048 * s, 13) = r + 2047 * e + 32 * f - 6144 * s
  BY <1>5, SMT DEF Extend
<1> QED BY <1>1, <1>2, <1>3, <1>4, <1>6, <1>7, SMT DEF Immediate32

\* insn_utype_read: bits 31..12, in their places.
LEMMA ImmediateU ==
    ASSUME NEW d \in Word32
    PROVE  Immediate32(d, "U")
             = Extend(d.funct7 * 8192 + d.rs2 * 256 + d.rs1 * 8 + d.funct3, 20) * 4096
<1>1. PICK f \in 0 .. 127, g \in 0 .. 7, r \in 0 .. 31, q \in 0 .. 31, s \in 0 .. 1 :
        f = d.funct7 /\ g = d.funct3 /\ r = d.rs1 /\ q = d.rs2 /\ s = Bit(d, 31)
  BY FieldTypes, LoneBits, Zenon
<1>2. FromRd(d, "U") = 0
  <2>1. \A k \in 7 .. 11 : Place("U", k) = -1
    BY SMT DEF Place
  <2>2. \A k \in 7 .. 11 : Weight("U", k) = 0
    BY <2>1, SMT DEF Weight
  <2> QED BY <2>2, NoWeight, SMT
<1>3. FromFunct3(d, "U") = 4096 * g
  BY <1>1, WordBits, SMT DEF FromFunct3, At, Weight, Place
<1>4. FromRs1(d, "U") = 32768 * r
  BY <1>1, WordBits, SMT DEF FromRs1, At, Weight, Place
<1>5. FromRs2(d, "U") = 1048576 * q
  BY <1>1, WordBits, SMT DEF FromRs2, At, Weight, Place
<1>6. FromFunct7(d, "U") = 33554432 * f - 4294967296 * s
  BY <1>1, WordBits, SMT DEF FromFunct7, At, Weight, Place
<1>7. f \div 64 = s
  BY <1>1, LoneBits
<1>8. Immediate32(d, "U")
        = (f * 8192 + q * 256 + r * 8 + g - 1048576 * s) * 4096
  BY <1>2, <1>3, <1>4, <1>5, <1>6, SMT DEF Immediate32
<1>9. Extend(f * 8192 + q * 256 + r * 8 + g, 20) = f * 8192 + q * 256 + r * 8 + g - 1048576 * s
  BY <1>7, SMT DEF Extend
<1> QED BY <1>1, <1>8, <1>9, SMT

\* insn_jtype_read: bits 19..12 in their places, bits 30..21 at 10..1 and bit
\* 20 at 11.
LEMMA ImmediateJ ==
    ASSUME NEW d \in Word32
    PROVE  Immediate32(d, "J")
             = Extend((d.funct7 \div 64) * 2^20 + (d.rs1 * 8 + d.funct3) * 2^12
                        + (d.rs2 % 2) * 2^11 + ((d.funct7 % 64) * 16 + d.rs2 \div 2) * 2, 21)
<1>1. PICK f \in 0 .. 127, g \in 0 .. 7, r \in 0 .. 31, q \in 0 .. 31, s \in 0 .. 1,
     e \in 0 .. 1 :
        /\ f = d.funct7 /\ g = d.funct3 /\ r = d.rs1 /\ q = d.rs2
        /\ s = Bit(d, 31) /\ e = Bit(d, 20)
  BY FieldTypes, LoneBits, Zenon
<1>2. FromRd(d, "J") = 0
  <2>1. \A k \in 7 .. 11 : Place("J", k) = -1
    BY SMT DEF Place
  <2>2. \A k \in 7 .. 11 : Weight("J", k) = 0
    BY <2>1, SMT DEF Weight
  <2> QED BY <2>2, NoWeight, SMT
<1>3. FromFunct3(d, "J") = 4096 * g
  BY <1>1, WordBits, SMT DEF FromFunct3, At, Weight, Place
<1>4. FromRs1(d, "J") = 32768 * r
  BY <1>1, WordBits, SMT DEF FromRs1, At, Weight, Place
<1>5. FromRs2(d, "J") = q + 2047 * e
  BY <1>1, WordBits, SMT DEF FromRs2, At, Weight, Place
<1>6. FromFunct7(d, "J") = 32 * f - 1050624 * s
  BY <1>1, WordBits, SMT DEF FromFunct7, At, Weight, Place
<1>7. f \div 64 = s /\ f % 64 = f - 64 * s /\ q % 2 = e /\ 2 * (q \div 2) = q - e
  BY <1>1, LoneBits
<1>8. Immediate32(d, "J") = 4096 * g + 32768 * r + q + 2047 * e + 32 * f - 1050624 * s
  BY <1>2, <1>3, <1>4, <1>5, <1>6, SMT DEF Immediate32
<1>9. (f \div 64) * 2^20 + (r * 8 + g) * 2^12 + (q % 2) * 2^11 + ((f % 64) * 16 + q \div 2) * 2
        = 4096 * g + 32768 * r + q + 2047 * e + 32 * f + 1046528 * s
  BY <1>7, SMT
<1>10. Extend(4096 * g + 32768 * r + q + 2047 * e + 32 * f + 1046528 * s, 21)
         = 4096 * g + 32768 * r + q + 2047 * e + 32 * f - 1050624 * s
  BY <1>7, SMT DEF Extend
<1> QED BY <1>1, <1>8, <1>9, <1>10, SMT

\* The other formats have no immediate.
LEMMA NoImmediate ==
    ASSUME NEW d \in Word32, NEW f \in {"R", "R4", "C", "N"}
    PROVE  Immediate32(d, f) = 0
<1>1. \A k \in 7 .. 31 : Weight(f, k) = 0
  BY DEF Weight, Place
<1>2. /\ FromRd(d, f) = 0 /\ FromFunct3(d, f) = 0 /\ FromRs1(d, f) = 0 /\ FromRs2(d, f) = 0
      /\ FromFunct7(d, f) = 0
  BY <1>1, NoWeight, SMT
<1> QED BY <1>2, SMT DEF Immediate32
-----------------------------------------------------------------------------
(***************************************************************************)
(* Formats: what a reader returns, with the type put in, is the            *)
(* instruction as the architecture describes it.                           *)
(***************************************************************************)

\* The register and immediate format.
LEMMA FormatI ==
    ASSUME NEW d \in Word32, NEW t, Encoding[t][1] = "I", t \notin {"jal", "jalr"},
           NEW x, x = [insn_itype_read(d) EXCEPT !.type = t]
    PROVE  x = Meaning(d, t)
<1>1. PICK v : v = Extend(d.funct7 * 32 + d.rs2, 12)
  OBVIOUS
<1>2. insn_itype_read(d) = [Zero EXCEPT !.imm = v, !.rs1 = d.rs1, !.rd = d.rd]
  BY <1>1 DEF insn_itype_read
<1>3. x = [type |-> t, rd |-> d.rd, rs1 |-> d.rs1, rs2 |-> 0, rs3 |-> 0,
           imm |-> v, csr |-> 0, rvc |-> FALSE,
           cont |-> FALSE]
  BY <1>2 DEF Zero
<1>4. v = Immediate32(d, "I")
  BY <1>1, ImmediateI
<1>5. PICK m : m = Meaning(d, t)
  OBVIOUS
<1>6. m = [type |-> t, rd |-> d.rd, rs1 |-> d.rs1, rs2 |-> 0, rs3 |-> 0,
           imm |-> Immediate32(d, "I"), csr |-> 0, rvc |-> FALSE,
           cont |-> t \in {"jal", "jalr"}]
  BY <1>5 DEF Meaning
<1>7. (t \in {"jal", "jalr"}) = FALSE
  OBVIOUS
<1> QED BY <1>3, <1>4, <1>5, <1>6, <1>7

\* The store format.
LEMMA FormatS ==
    ASSUME NEW d \in Word32, NEW t, Encoding[t][1] = "S", t \notin {"jal", "jalr"},
           NEW x, x = [insn_stype_read(d) EXCEPT !.type = t]
    PROVE  x = Meaning(d, t)
<1>1. PICK v : v = Extend(d.funct7 * 32 + d.rd, 12)
  OBVIOUS
<1>2. insn_stype_read(d) = [Zero EXCEPT !.imm = v, !.rs1 = d.rs1, !.rs2 = d.rs2]
  BY <1>1 DEF insn_stype_read
<1>3. x = [type |-> t, rd |-> 0, rs1 |-> d.rs1, rs2 |-> d.rs2, rs3 |-> 0,
           imm |-> v, csr |-> 0, rvc |-> FALSE,
           cont |-> FALSE]
  BY <1>2 DEF Zero
<1>4. v = Immediate32(d, "S")
  BY <1>1, ImmediateS
<1>5. PICK m : m = Meaning(d, t)
  OBVIOUS
<1>6. m = [type |-> t, rd |-> 0, rs1 |-> d.rs1, rs2 |-> d.rs2, rs3 |-> 0,
           imm |-> Immediate32(d, "S"), csr |-> 0, rvc |-> FALSE,
           cont |-> t \in {"jal", "jalr"}]
  BY <1>5 DEF Meaning
<1>7. (t \in {"jal", "jalr"}) = FALSE
  OBVIOUS
<1> QED BY <1>3, <1>4, <1>5, <1>6, <1>7

\* The branch format.
LEMMA FormatB ==
    ASSUME NEW d \in Word32, NEW t, Encoding[t][1] = "B", t \notin {"jal", "jalr"},
           NEW x, x = [insn_btype_read(d) EXCEPT !.type = t]
    PROVE  x = Meaning(d, t)
<1>1. PICK v : v = Extend((d.funct7 \div 64) * 4096 + (d.rd % 2) * 2048 + (d.funct7 % 64) * 32
                       + (d.rd \div 2) * 2, 13)
  OBVIOUS
<1>2. insn_btype_read(d) = [Zero EXCEPT !.imm = v, !.rs1 = d.rs1, !.rs2 = d.rs2]
  BY <1>1 DEF insn_btype_read
<1>3. x = [type |-> t, rd |-> 0, rs1 |-> d.rs1, rs2 |-> d.rs2, rs3 |-> 0,
           imm |-> v, csr |-> 0, rvc |-> FALSE,
           cont |-> FALSE]
  BY <1>2 DEF Zero
<1>4. v = Immediate32(d, "B")
  BY <1>1, ImmediateB
<1>5. PICK m : m = Meaning(d, t)
  OBVIOUS
<1>6. m = [type |-> t, rd |-> 0, rs1 |-> d.rs1, rs2 |-> d.rs2, rs3 |-> 0,
           imm |-> Immediate32(d, "B"), csr |-> 0, rvc |-> FALSE,
           cont |-> t \in {"jal", "jalr"}]
  BY <1>5 DEF Meaning
<1>7. (t \in {"jal", "jalr"}) = FALSE
  OBVIOUS
<1> QED BY <1>3, <1>4, <1>5, <1>6, <1>7

\* The upper immediate format.
LEMMA FormatU ==
    ASSUME NEW d \in Word32, NEW t, Encoding[t][1] = "U", t \notin {"jal", "jalr"},
           NEW x, x = [insn_utype_read(d) EXCEPT !.type = t]
    PROVE  x = Meaning(d, t)
<1>1. PICK v : v = Extend(d.funct7 * 8192 + d.rs2 * 256 + d.rs1 * 8 + d.funct3, 20) * 4096
  OBVIOUS
<1>2. insn_utype_read(d) = [Zero EXCEPT !.imm = v, !.rd = d.rd]
  BY <1>1 DEF insn_utype_read
<1>3. x = [type |-> t, rd |-> d.rd, rs1 |-> 0, rs2 |-> 0, rs3 |-> 0,
           imm |-> v, csr |-> 0, rvc |-> FALSE,
           cont |-> FALSE]
  BY <1>2 DEF Zero
<1>4. v = Immediate32(d, "U")
  BY <1>1, ImmediateU
<1>5. PICK m : m = Meaning(d, t)
  OBVIOUS
<1>6. m = [type |-> t, rd |-> d.rd, rs1 |-> 0, rs2 |-> 0, rs3 |-> 0,
           imm |-> Immediate32(d, "U"), csr |-> 0, rvc |-> FALSE,
           cont |-> t \in {"jal", "jalr"}]
  BY <1>5 DEF Meaning
<1>7. (t \in {"jal", "jalr"}) = FALSE
  OBVIOUS
<1> QED BY <1>3, <1>4, <1>5, <1>6, <1>7

\* The register format.
LEMMA FormatR ==
    ASSUME NEW d \in Word32, NEW t, Encoding[t][1] = "R", t \notin {"jal", "jalr"},
           NEW x, x = [insn_rtype_read(d) EXCEPT !.type = t]
    PROVE  x = Meaning(d, t)
<1>1. x = [type |-> t, rd |-> d.rd, rs1 |-> d.rs1, rs2 |-> d.rs2, rs3 |-> 0,
           imm |-> 0, csr |-> 0, rvc |-> FALSE,
           cont |-> FALSE]
  BY DEF insn_rtype_read, Zero
<1>2. Immediate32(d, "R") = 0
  BY NoImmediate
<1>3. PICK m : m = Meaning(d, t)
  OBVIOUS
<1>4. m = [type |-> t, rd |-> d.rd, rs1 |-> d.rs1, rs2 |-> d.rs2, rs3 |-> 0,
           imm |-> Immediate32(d, "R"), csr |-> 0, rvc |-> FALSE,
           cont |-> t \in {"jal", "jalr"}]
  BY <1>3 DEF Meaning
<1>5. (t \in {"jal", "jalr"}) = FALSE
  OBVIOUS
<1> QED BY <1>1, <1>2, <1>3, <1>4, <1>5

\* The fused multiply-add format.
LEMMA FormatR4 ==
    ASSUME NEW d \in Word32, NEW t, Encoding[t][1] = "R4", t \notin {"jal", "jalr"},
           NEW x, x = [insn_fprtype_read(d) EXCEPT !.type = t]
    PROVE  x = Meaning(d, t)
<1>1. x = [type |-> t, rd |-> d.rd, rs1 |-> d.rs1, rs2 |-> d.rs2, rs3 |-> d.funct7 \div 4,
           imm |-> 0, csr |-> 0, rvc |-> FALSE,
           cont |-> FALSE]
  BY DEF insn_fprtype_read, insn_rtype_read, RS3, Zero
<1>2. Immediate32(d, "R4") = 0
  BY NoImmediate
<1>3. PICK m : m = Meaning(d, t)
  OBVIOUS
<1>4. m = [type |-> t, rd |-> d.rd, rs1 |-> d.rs1, rs2 |-> d.rs2, rs3 |-> d.funct7 \div 4,
           imm |-> Immediate32(d, "R4"), csr |-> 0, rvc |-> FALSE,
           cont |-> t \in {"jal", "jalr"}]
  BY <1>3 DEF Meaning
<1>5. (t \in {"jal", "jalr"}) = FALSE
  OBVIOUS
<1> QED BY <1>1, <1>2, <1>3, <1>4, <1>5

\* The CSR format.
LEMMA FormatC ==
    ASSUME NEW d \in Word32, NEW t, Encoding[t][1] = "C", t \notin {"jal", "jalr"},
           NEW x, x = [insn_csrtype_read(d) EXCEPT !.type = t]
    PROVE  x = Meaning(d, t)
<1>1. x = [type |-> t, rd |-> d.rd, rs1 |-> d.rs1, rs2 |-> 0, rs3 |-> 0,
           imm |-> 0, csr |-> d.funct7 * 32 + d.rs2, rvc |-> FALSE,
           cont |-> FALSE]
  BY DEF insn_csrtype_read, Zero
<1>2. Immediate32(d, "C") = 0
  BY NoImmediate
<1>3. PICK m : m = Meaning(d, t)
  OBVIOUS
<1>4. m = [type |-> t, rd |-> d.rd, rs1 |-> d.rs1, rs2 |-> 0, rs3 |-> 0,
           imm |-> Immediate32(d, "C"), csr |-> d.funct7 * 32 + d.rs2, rvc |-> FALSE,
           cont |-> t \in {"jal", "jalr"}]
  BY <1>3 DEF Meaning
<1>5. (t \in {"jal", "jalr"}) = FALSE
  OBVIOUS
<1> QED BY <1>1, <1>2, <1>3, <1>4, <1>5

\* The fence format.
LEMMA FormatN ==
    ASSUME NEW d \in Word32, NEW t, Encoding[t][1] = "N", t \notin {"jal", "jalr"},
           NEW x, x = [Zero EXCEPT !.type = t]
    PROVE  x = Meaning(d, t)
<1>1. x = [type |-> t, rd |-> 0, rs1 |-> 0, rs2 |-> 0, rs3 |-> 0,
           imm |-> 0, csr |-> 0, rvc |-> FALSE,
           cont |-> FALSE]
  BY DEF Zero
<1>2. Immediate32(d, "N") = 0
  BY NoImmediate
<1>3. PICK m : m = Meaning(d, t)
  OBVIOUS
<1>4. m = [type |-> t, rd |-> 0, rs1 |-> 0, rs2 |-> 0, rs3 |-> 0,
           imm |-> Immediate32(d, "N"), csr |-> 0, rvc |-> FALSE,
           cont |-> t \in {"jal", "jalr"}]
  BY <1>3 DEF Meaning
<1>5. (t \in {"jal", "jalr"}) = FALSE
  OBVIOUS
<1> QED BY <1>1, <1>2, <1>3, <1>4, <1>5

\* An indirect jump also ends its block.
LEMMA FormatJalr ==
    ASSUME NEW d \in Word32,
           NEW x, x = [insn_itype_read(d) EXCEPT !.type = "jalr", !.cont = TRUE]
    PROVE  x = Meaning(d, "jalr")
<1>1. PICK v : v = Extend(d.funct7 * 32 + d.rs2, 12)
  OBVIOUS
<1>2. insn_itype_read(d) = [Zero EXCEPT !.imm = v, !.rs1 = d.rs1, !.rd = d.rd]
  BY <1>1 DEF insn_itype_read
<1>3. x = [type |-> "jalr", rd |-> d.rd, rs1 |-> d.rs1, rs2 |-> 0, rs3 |-> 0,
           imm |-> v, csr |-> 0, rvc |-> FALSE,
           cont |-> TRUE]
  BY <1>2 DEF Zero
<1>4. v = Immediate32(d, "I")
  BY <1>1, ImmediateI
<1>5. PICK m : m = Meaning(d, "jalr")
  OBVIOUS
<1>6. Encoding["jalr"][1] = "I"
  BY DEF Encoding, I
<1>7. m = [type |-> "jalr", rd |-> d.rd, rs1 |-> d.rs1, rs2 |-> 0, rs3 |-> 0,
           imm |-> Immediate32(d, "I"), csr |-> 0, rvc |-> FALSE,
           cont |-> "jalr" \in {"jal", "jalr"}]
  BY <1>5, <1>6 DEF Meaning
<1>8. ("jalr" \in {"jal", "jalr"}) = TRUE
  OBVIOUS
<1> QED BY <1>3, <1>4, <1>5, <1>7, <1>8

\* So does a direct one.
LEMMA FormatJal ==
    ASSUME NEW d \in Word32,
           NEW x, x = [insn_jtype_read(d) EXCEPT !.type = "jal", !.cont = TRUE]
    PROVE  x = Meaning(d, "jal")
<1>1. PICK v : v = Extend((d.funct7 \div 64) * 2^20 + (d.rs1 * 8 + d.funct3) * 2^12
                       + (d.rs2 % 2) * 2^11 + ((d.funct7 % 64) * 16 + d.rs2 \div 2) * 2, 21)
  OBVIOUS
<1>2. insn_jtype_read(d) = [Zero EXCEPT !.imm = v, !.rd = d.rd]
  BY <1>1 DEF insn_jtype_read
<1>3. x = [type |-> "jal", rd |-> d.rd, rs1 |-> 0, rs2 |-> 0, rs3 |-> 0,
           imm |-> v, csr |-> 0, rvc |-> FALSE,
           cont |-> TRUE]
  BY <1>2 DEF Zero
<1>4. v = Immediate32(d, "J")
  BY <1>1, ImmediateJ
<1>5. PICK m : m = Meaning(d, "jal")
  OBVIOUS
<1>6. Encoding["jal"][1] = "J"
  BY DEF Encoding, I
<1>7. m = [type |-> "jal", rd |-> d.rd, rs1 |-> 0, rs2 |-> 0, rs3 |-> 0,
           imm |-> Immediate32(d, "J"), csr |-> 0, rvc |-> FALSE,
           cont |-> "jal" \in {"jal", "jalr"}]
  BY <1>5, <1>6 DEF Meaning
<1>8. ("jal" \in {"jal", "jalr"}) = TRUE
  OBVIOUS
<1> QED BY <1>3, <1>4, <1>5, <1>7, <1>8
-----------------------------------------------------------------------------
(***************************************************************************)
(* 32-bit words: the instructions come in families, one for each switch of *)
(* insn_decode.  Of each, which words encode its members, and that the     *)
(* decoder's choice is that one, or the end of the emulator.               *)
(***************************************************************************)

\* What the decoder owes to a word that is neither an ecall nor a jalr.
Right(d, x) ==
    /\ \A t \in Meanings(d) : x = Meaning(d, t)
    /\ Meanings(d) = {} => x = Dies

\* The families.
Load_types == {"lb", "lh", "lw", "ld", "lbu", "lhu", "lwu"}
FpLoad_types == {"flw", "fld"}
Fence_types == {"fence", "fence_i"}
OpImm_types == {"addi", "slti", "sltiu", "xori", "ori", "andi", "slli", "srli", "srai"}
Auipc_types == {"auipc"}
OpImm32_types == {"addiw", "slliw", "srliw", "sraiw"}
Store_types == {"sb", "sh", "sw", "sd"}
FpStore_types == {"fsw", "fsd"}
OpBase_types == {"add", "sll", "slt", "sltu", "xor", "srl", "or", "and"}
OpMul_types == {"mul", "mulh", "mulhsu", "mulhu", "div", "divu", "rem", "remu"}
OpAlt_types == {"sub", "sra"}
Lui_types == {"lui"}
Op32_types == {"addw", "sllw", "srlw", "mulw", "divw", "divuw", "remw", "remuw", "subw", "sraw"}
Fmadd_types == {"fmadd_s", "fmadd_d"}
Fmsub_types == {"fmsub_s", "fmsub_d"}
Fnmsub_types == {"fnmsub_s", "fnmsub_d"}
Fnmadd_types == {"fnmadd_s", "fnmadd_d"}
FpAdd_types == {"fadd_s", "fadd_d", "fsub_s", "fsub_d"}
FpMul_types == {"fmul_s", "fmul_d", "fdiv_s", "fdiv_d"}
FpSign_types == {"fsgnj_s", "fsgnjn_s", "fsgnjx_s", "fsgnj_d", "fsgnjn_d", "fsgnjx_d"}
FpMinMax_types == {"fmin_s", "fmax_s", "fmin_d", "fmax_d"}
FpPrecision_types == {"fcvt_s_d", "fcvt_d_s"}
FpSqrt_types == {"fsqrt_s", "fsqrt_d"}
FpCompare_types == {"fle_s", "flt_s", "feq_s", "fle_d", "flt_d", "feq_d"}
FpToInt_types == {"fcvt_w_s", "fcvt_wu_s", "fcvt_l_s", "fcvt_lu_s", "fcvt_w_d", "fcvt_wu_d",
    "fcvt_l_d", "fcvt_lu_d"}
FpFromInt_types == {"fcvt_s_w", "fcvt_s_wu", "fcvt_s_l", "fcvt_s_lu", "fcvt_d_w", "fcvt_d_wu",
    "fcvt_d_l", "fcvt_d_lu"}
FpMoveTo_types == {"fmv_x_w", "fclass_s", "fmv_x_d", "fclass_d"}
FpMoveFrom_types == {"fmv_w_x", "fmv_d_x"}
Branch_types == {"beq", "bne", "blt", "bge", "bltu", "bgeu"}
Jalr_types == {"jalr"}
Jal_types == {"jal"}
Csr_types == {"csrrw", "csrrs", "csrrc", "csrrwi", "csrrsi", "csrrci"}

\* Which words an encoding of each shape matches.
LEMMA MeansI ==
    ASSUME NEW d \in Word32, NEW t \in DOMAIN Encoding, NEW o, NEW f, Encoding[t] = I(o, f)
    PROVE  /\ Encoding[t][1] = "I"
           /\ t \in Meanings(d) <=> d.opcode = o /\ d.funct3 = f
  BY FieldTypes DEF Meanings, I, Any5, Any7

\* Shifts, whose upper bits are fixed.
LEMMA MeansShift ==
    ASSUME NEW d \in Word32, NEW t \in DOMAIN Encoding, NEW o, NEW f, NEW s,
           Encoding[t] = Shift(o, f, s)
    PROVE  /\ Encoding[t][1] = "I"
           /\ t \in Meanings(d) <=> d.opcode = o /\ d.funct3 = f /\ d.funct7 \in s
  BY FieldTypes DEF Meanings, Shift, Any5

\* Stores.
LEMMA MeansS ==
    ASSUME NEW d \in Word32, NEW t \in DOMAIN Encoding, NEW o, NEW f, Encoding[t] = S(o, f)
    PROVE  /\ Encoding[t][1] = "S"
           /\ t \in Meanings(d) <=> d.opcode = o /\ d.funct3 = f
  BY FieldTypes DEF Meanings, S, Any5, Any7

\* Branches.
LEMMA MeansB ==
    ASSUME NEW d \in Word32, NEW t \in DOMAIN Encoding, NEW f, Encoding[t] = B(f)
    PROVE  /\ Encoding[t][1] = "B"
           /\ t \in Meanings(d) <=> d.opcode = 24 /\ d.funct3 = f
  BY FieldTypes DEF Meanings, B, Any5, Any7

\* Upper immediates.
LEMMA MeansU ==
    ASSUME NEW d \in Word32, NEW t \in DOMAIN Encoding, NEW o, Encoding[t] = U(o)
    PROVE  /\ Encoding[t][1] = "U"
           /\ t \in Meanings(d) <=> d.opcode = o
  BY FieldTypes DEF Meanings, U, Any3, Any5, Any7

\* Two registers.
LEMMA MeansReg ==
    ASSUME NEW d \in Word32, NEW t \in DOMAIN Encoding, NEW f, NEW g, Encoding[t] = Reg(f, g)
    PROVE  /\ Encoding[t][1] = "R"
           /\ t \in Meanings(d) <=> d.opcode = 12 /\ d.funct3 = f /\ d.funct7 = g
  BY FieldTypes DEF Meanings, Reg, Any5

\* Two registers, on words.
LEMMA MeansRegW ==
    ASSUME NEW d \in Word32, NEW t \in DOMAIN Encoding, NEW f, NEW g, Encoding[t] = RegW(f, g)
    PROVE  /\ Encoding[t][1] = "R"
           /\ t \in Meanings(d) <=> d.opcode = 14 /\ d.funct3 = f /\ d.funct7 = g
  BY FieldTypes DEF Meanings, RegW, Any5

\* Fused multiply-add.
LEMMA MeansFused ==
    ASSUME NEW d \in Word32, NEW t \in DOMAIN Encoding, NEW o, NEW p, Encoding[t] = Fused(o, p)
    PROVE  /\ Encoding[t][1] = "R4"
           /\ t \in Meanings(d) <=> d.opcode = o /\ d.funct7 % 4 = p
  BY FieldTypes DEF Meanings, Fused, Any3, Any5, Any7

\* Floating point, any rounding mode.
LEMMA MeansFp ==
    ASSUME NEW d \in Word32, NEW t \in DOMAIN Encoding, NEW g, Encoding[t] = Fp(g)
    PROVE  /\ Encoding[t][1] = "R"
           /\ t \in Meanings(d) <=> d.opcode = 20 /\ d.funct7 = g
  BY FieldTypes DEF Meanings, Fp, Any3, Any5

\* Floating point, selected by funct3.
LEMMA MeansFp3 ==
    ASSUME NEW d \in Word32, NEW t \in DOMAIN Encoding, NEW g, NEW f, Encoding[t] = Fp3(g, f)
    PROVE  /\ Encoding[t][1] = "R"
           /\ t \in Meanings(d) <=> d.opcode = 20 /\ d.funct7 = g /\ d.funct3 = f
  BY FieldTypes DEF Meanings, Fp3, Any5

\* Floating point, selected by rs2.
LEMMA MeansFpTo ==
    ASSUME NEW d \in Word32, NEW t \in DOMAIN Encoding, NEW g, NEW r, Encoding[t] = FpTo(g, r)
    PROVE  /\ Encoding[t][1] = "R"
           /\ t \in Meanings(d) <=> d.opcode = 20 /\ d.funct7 = g /\ d.rs2 = r
  BY FieldTypes DEF Meanings, FpTo, Any3

\* Moves between the register files.
LEMMA MeansFpMove ==
    ASSUME NEW d \in Word32, NEW t \in DOMAIN Encoding, NEW g, NEW f, Encoding[t] = FpMove(g, f)
    PROVE  /\ Encoding[t][1] = "R"
           /\ t \in Meanings(d) <=> /\ d.opcode = 20 /\ d.funct7 = g /\ d.funct3 = f
                                    /\ d.rs2 = 0
  BY FieldTypes DEF Meanings, FpMove

\* CSR instructions.
LEMMA MeansCsr ==
    ASSUME NEW d \in Word32, NEW t \in DOMAIN Encoding, NEW f, Encoding[t] = Csr(f)
    PROVE  /\ Encoding[t][1] = "C"
           /\ t \in Meanings(d) <=> d.opcode = 28 /\ d.funct3 = f
  BY FieldTypes DEF Meanings, Csr, Any5, Any7

\* Fences.
LEMMA MeansN ==
    ASSUME NEW d \in Word32, NEW t \in DOMAIN Encoding, NEW f,
           Encoding[t] = <<"N", 3, {f}, Any7, Any5>>
    PROVE  /\ Encoding[t][1] = "N"
           /\ t \in Meanings(d) <=> d.opcode = 3 /\ d.funct3 = f
  BY FieldTypes DEF Meanings, Any5, Any7

\* The jump.
LEMMA MeansJ ==
    ASSUME NEW d \in Word32, NEW t \in DOMAIN Encoding,
           Encoding[t] = <<"J", 27, Any3, Any7, Any5>>
    PROVE  /\ Encoding[t][1] = "J"
           /\ t \in Meanings(d) <=> d.opcode = 27
  BY FieldTypes DEF Meanings, Any3, Any5, Any7

\* Opcode 0x0, loads: which words these encode.
LEMMA Load_meanings ==
    ASSUME NEW d \in Word32
    PROVE  /\ \A t \in Load_types : Encoding[t][1] = "I"
           /\ "lb" \in Meanings(d) <=> d.opcode = 0 /\ d.funct3 = 0
           /\ "lh" \in Meanings(d) <=> d.opcode = 0 /\ d.funct3 = 1
           /\ "lw" \in Meanings(d) <=> d.opcode = 0 /\ d.funct3 = 2
           /\ "ld" \in Meanings(d) <=> d.opcode = 0 /\ d.funct3 = 3
           /\ "lbu" \in Meanings(d) <=> d.opcode = 0 /\ d.funct3 = 4
           /\ "lhu" \in Meanings(d) <=> d.opcode = 0 /\ d.funct3 = 5
           /\ "lwu" \in Meanings(d) <=> d.opcode = 0 /\ d.funct3 = 6
<1>1. /\ Encoding["lb"] = I(0, 0) /\ Encoding["lh"] = I(0, 1) /\ Encoding["lw"] = I(0, 2)
  BY SMTT(30) DEF Encoding
<1>2. /\ Encoding["ld"] = I(0, 3) /\ Encoding["lbu"] = I(0, 4) /\ Encoding["lhu"] = I(0, 5)
  BY SMT DEF Encoding
<1>3. Encoding["lwu"] = I(0, 6)
  BY SMT DEF Encoding
<1>4. Load_types \subseteq DOMAIN Encoding
  BY SMT DEF Load_types, Encoding
<1> QED BY <1>1, <1>2, <1>3, <1>4, MeansI, SMTT(30) DEF Load_types

\* The decoder agrees.
LEMMA Load_right ==
    ASSUME NEW d \in Word32, d.opcode = 0, NEW i, NEW x, x = insn_decode(d, i),
           \A t \in Meanings(d) : t \in Load_types
    PROVE  Right(d, x)
<1>1. \/ x = Dies /\ d.funct3 = 7
      \/ x = [insn_itype_read(d) EXCEPT !.type = "lb"] /\ d.funct3 = 0
      \/ x = [insn_itype_read(d) EXCEPT !.type = "lh"] /\ d.funct3 = 1
      \/ x = [insn_itype_read(d) EXCEPT !.type = "lw"] /\ d.funct3 = 2
      \/ x = [insn_itype_read(d) EXCEPT !.type = "ld"] /\ d.funct3 = 3
      \/ x = [insn_itype_read(d) EXCEPT !.type = "lbu"] /\ d.funct3 = 4
      \/ x = [insn_itype_read(d) EXCEPT !.type = "lhu"] /\ d.funct3 = 5
      \/ x = [insn_itype_read(d) EXCEPT !.type = "lwu"] /\ d.funct3 = 6
  BY IsWord, FieldTypes, SMT DEF insn_decode, loads, TypeAt
<1>2. ASSUME NEW t \in Meanings(d)
      PROVE  x = Meaning(d, t)
  <2>1. t \in Load_types
    OBVIOUS
  <2>2. x = [insn_itype_read(d) EXCEPT !.type = t]
    BY <1>1, <2>1, Load_meanings, SMT DEF Load_types
  <2>3. Encoding[t][1] = "I" /\ t \notin {"jal", "jalr"}
    BY <2>1, Load_meanings, SMT DEF Load_types
  <2> QED BY <2>2, <2>3, FormatI
<1>3. Meanings(d) = {} => x = Dies
  BY <1>1, Load_meanings, SMT
<1> QED BY <1>2, <1>3 DEF Right

\* Opcode 0x1, floating-point loads: which words these encode.
LEMMA FpLoad_meanings ==
    ASSUME NEW d \in Word32
    PROVE  /\ \A t \in FpLoad_types : Encoding[t][1] = "I"
           /\ "flw" \in Meanings(d) <=> d.opcode = 1 /\ d.funct3 = 2
           /\ "fld" \in Meanings(d) <=> d.opcode = 1 /\ d.funct3 = 3
<1>1. /\ Encoding["flw"] = I(1, 2) /\ Encoding["fld"] = I(1, 3)
  BY SMT DEF Encoding
<1>2. FpLoad_types \subseteq DOMAIN Encoding
  BY SMT DEF FpLoad_types, Encoding
<1> QED BY <1>1, <1>2, MeansI, SMT DEF FpLoad_types

\* The decoder agrees.
LEMMA FpLoad_right ==
    ASSUME NEW d \in Word32, d.opcode = 1, NEW i, NEW x, x = insn_decode(d, i),
           \A t \in Meanings(d) : t \in FpLoad_types
    PROVE  Right(d, x)
<1>1. \/ x = Dies /\ d.funct3 \notin {2, 3}
      \/ x = [insn_itype_read(d) EXCEPT !.type = "flw"] /\ d.funct3 = 2
      \/ x = [insn_itype_read(d) EXCEPT !.type = "fld"] /\ d.funct3 = 3
  BY IsWord, FieldTypes, SMT DEF insn_decode, fp_loads, X, TypeAt
<1>2. ASSUME NEW t \in Meanings(d)
      PROVE  x = Meaning(d, t)
  <2>1. t \in FpLoad_types
    OBVIOUS
  <2>2. x = [insn_itype_read(d) EXCEPT !.type = t]
    BY <1>1, <2>1, FpLoad_meanings, SMT DEF FpLoad_types
  <2>3. Encoding[t][1] = "I" /\ t \notin {"jal", "jalr"}
    BY <2>1, FpLoad_meanings, SMT DEF FpLoad_types
  <2> QED BY <2>2, <2>3, FormatI
<1>3. Meanings(d) = {} => x = Dies
  BY <1>1, FpLoad_meanings, SMT
<1> QED BY <1>2, <1>3 DEF Right

\* Opcode 0x3, the fences: which words these encode.
LEMMA Fence_meanings ==
    ASSUME NEW d \in Word32
    PROVE  /\ \A t \in Fence_types : Encoding[t][1] = "N"
           /\ "fence" \in Meanings(d) <=> d.opcode = 3 /\ d.funct3 = 0
           /\ "fence_i" \in Meanings(d) <=> d.opcode = 3 /\ d.funct3 = 1
<1>1. /\ Encoding["fence"] = <<"N", 3, {0}, Any7, Any5>>
      /\ Encoding["fence_i"] = <<"N", 3, {1}, Any7, Any5>>
  BY SMT DEF Encoding
<1>2. Fence_types \subseteq DOMAIN Encoding
  BY SMT DEF Fence_types, Encoding
<1> QED BY <1>1, <1>2, MeansN, SMTT(30) DEF Fence_types

\* The decoder agrees.
LEMMA Fence_right ==
    ASSUME NEW d \in Word32, d.opcode = 3, NEW i, NEW x, x = insn_decode(d, i),
           \A t \in Meanings(d) : t \in Fence_types
    PROVE  Right(d, x)
<1>1. \/ x = Dies /\ d.funct3 \notin {0, 1}
      \/ x = [Zero EXCEPT !.type = "fence"] /\ d.funct3 = 0
      \/ x = [Zero EXCEPT !.type = "fence_i"] /\ d.funct3 = 1
  BY IsWord, FieldTypes, SMT DEF insn_decode, fences, TypeAt
<1>2. ASSUME NEW t \in Meanings(d)
      PROVE  x = Meaning(d, t)
  <2>1. t \in Fence_types
    OBVIOUS
  <2>2. x = [Zero EXCEPT !.type = t]
    BY <1>1, <2>1, Fence_meanings, SMT DEF Fence_types
  <2>3. Encoding[t][1] = "N" /\ t \notin {"jal", "jalr"}
    BY <2>1, Fence_meanings, SMT DEF Fence_types
  <2> QED BY <2>2, <2>3, FormatN
<1>3. Meanings(d) = {} => x = Dies
  BY <1>1, Fence_meanings, SMT
<1> QED BY <1>2, <1>3 DEF Right

\* Opcode 0x4, register and immediate; a shift is checked by the six
\* bits above its amount: which words these encode.
LEMMA OpImm_meanings ==
    ASSUME NEW d \in Word32
    PROVE  /\ \A t \in OpImm_types : Encoding[t][1] = "I"
           /\ "addi" \in Meanings(d) <=> d.opcode = 4 /\ d.funct3 = 0
           /\ "slti" \in Meanings(d) <=> d.opcode = 4 /\ d.funct3 = 2
           /\ "sltiu" \in Meanings(d) <=> d.opcode = 4 /\ d.funct3 = 3
           /\ "xori" \in Meanings(d) <=> d.opcode = 4 /\ d.funct3 = 4
           /\ "ori" \in Meanings(d) <=> d.opcode = 4 /\ d.funct3 = 6
           /\ "andi" \in Meanings(d) <=> d.opcode = 4 /\ d.funct3 = 7
           /\ "slli" \in Meanings(d) <=> d.opcode = 4 /\ d.funct3 = 1 /\ d.funct7 \in {0, 1}
           /\ "srli" \in Meanings(d) <=> d.opcode = 4 /\ d.funct3 = 5 /\ d.funct7 \in {0, 1}
           /\ "srai" \in Meanings(d) <=> d.opcode = 4 /\ d.funct3 = 5 /\ d.funct7 \in {32, 33}
<1>1. /\ Encoding["addi"] = I(4, 0) /\ Encoding["slti"] = I(4, 2) /\ Encoding["sltiu"] = I(4, 3)
  BY SMTT(30) DEF Encoding
<1>2. /\ Encoding["xori"] = I(4, 4) /\ Encoding["ori"] = I(4, 6) /\ Encoding["andi"] = I(4, 7)
  BY SMTT(30) DEF Encoding
<1>3. /\ Encoding["slli"] = Shift(4, 1, {0, 1}) /\ Encoding["srli"] = Shift(4, 5, {0, 1})
      /\ Encoding["srai"] = Shift(4, 5, {32, 33})
  BY SMT DEF Encoding
<1>4. OpImm_types \subseteq DOMAIN Encoding
  BY SMT DEF OpImm_types, Encoding
<1> QED BY <1>1, <1>2, <1>3, <1>4, MeansI, MeansShift, SMTT(30) DEF OpImm_types

\* The decoder agrees.
LEMMA OpImm_right ==
    ASSUME NEW d \in Word32, d.opcode = 4, NEW i, NEW x, x = insn_decode(d, i),
           \A t \in Meanings(d) : t \in OpImm_types
    PROVE  Right(d, x)
<1>1. \/ x = Dies /\ d.funct3 = 1 /\ d.funct7 \notin {0, 1}
      \/ x = Dies /\ d.funct3 = 5 /\ d.funct7 \notin {0, 1, 32, 33}
      \/ x = [insn_itype_read(d) EXCEPT !.type = "addi"] /\ d.funct3 = 0
      \/ x = [insn_itype_read(d) EXCEPT !.type = "slti"] /\ d.funct3 = 2
      \/ x = [insn_itype_read(d) EXCEPT !.type = "sltiu"] /\ d.funct3 = 3
      \/ x = [insn_itype_read(d) EXCEPT !.type = "xori"] /\ d.funct3 = 4
      \/ x = [insn_itype_read(d) EXCEPT !.type = "ori"] /\ d.funct3 = 6
      \/ x = [insn_itype_read(d) EXCEPT !.type = "andi"] /\ d.funct3 = 7
      \/ x = [insn_itype_read(d) EXCEPT !.type = "slli"] /\ d.funct3 = 1 /\ d.funct7 \in {0, 1}
      \/ x = [insn_itype_read(d) EXCEPT !.type = "srli"] /\ d.funct3 = 5 /\ d.funct7 \in {0, 1}
      \/ x = [insn_itype_read(d) EXCEPT !.type = "srai"] /\ d.funct3 = 5 /\ d.funct7 \in {32, 33}
  <2>1. d.funct3 = 1 /\ d.funct7 \notin {0, 1} => x = Dies
    BY IsWord, FieldTypes, SMT DEF insn_decode, op_imm, Asserted, IMM116, X
  <2>2. (d.funct3 = 1 => d.funct7 \in {0, 1}) /\ d.funct7 \in {0, 1} => x = 
               TypeAt(insn_itype_read(d), 
                      <<"addi", "slli", "slti", "sltiu", "xori", "srli", "ori", "andi">>,
                           d.funct3)
    BY IsWord, FieldTypes, SMT DEF insn_decode, op_imm, Asserted, IMM116, X
  <2>3. (d.funct3 = 1 => d.funct7 \in {0, 1}) /\ d.funct7 \in {32, 33} => x = 
               TypeAt(insn_itype_read(d), 
                      <<"addi", "slli", "slti", "sltiu", "xori", "srai", "ori", "andi">>,
                           d.funct3)
    BY IsWord, FieldTypes, SMT DEF insn_decode, op_imm, Asserted, IMM116, X
  <2>4. (d.funct3 = 1 => d.funct7 \in {0, 1}) /\ d.funct7 \notin {0, 1, 32, 33} => x = 
               TypeAt(insn_itype_read(d), 
                      <<"addi", "slli", "slti", "sltiu", "xori", X, "ori", "andi">>, d.funct3)
    BY IsWord, FieldTypes, SMT DEF insn_decode, op_imm, Asserted, IMM116, X
  <2> QED BY <2>1, <2>2, <2>3, <2>4, FieldTypes, SMT DEF TypeAt, X
<1>2. ASSUME NEW t \in Meanings(d)
      PROVE  x = Meaning(d, t)
  <2>1. t \in OpImm_types
    OBVIOUS
  <2>2. x = [insn_itype_read(d) EXCEPT !.type = t]
    BY <1>1, <2>1, OpImm_meanings, SMT DEF OpImm_types
  <2>3. Encoding[t][1] = "I" /\ t \notin {"jal", "jalr"}
    BY <2>1, OpImm_meanings, SMT DEF OpImm_types
  <2> QED BY <2>2, <2>3, FormatI
<1>3. Meanings(d) = {} => x = Dies
  BY <1>1, OpImm_meanings, SMT
<1> QED BY <1>2, <1>3 DEF Right

\* Opcode 0x5, auipc: which words these encode.
LEMMA Auipc_meanings ==
    ASSUME NEW d \in Word32
    PROVE  /\ \A t \in Auipc_types : Encoding[t][1] = "U"
           /\ "auipc" \in Meanings(d) <=> d.opcode = 5
<1>1. Encoding["auipc"] = U(5)
  BY SMT DEF Encoding
<1>2. Auipc_types \subseteq DOMAIN Encoding
  BY SMT DEF Auipc_types, Encoding
<1> QED BY <1>1, <1>2, MeansU, SMT DEF Auipc_types

\* The decoder agrees.
LEMMA Auipc_right ==
    ASSUME NEW d \in Word32, d.opcode = 5, NEW i, NEW x, x = insn_decode(d, i),
           \A t \in Meanings(d) : t \in Auipc_types
    PROVE  Right(d, x)
<1>1. x = [insn_utype_read(d) EXCEPT !.type = "auipc"]
  BY IsWord DEF insn_decode
<1>2. ASSUME NEW t \in Meanings(d)
      PROVE  x = Meaning(d, t)
  <2>1. t \in Auipc_types
    OBVIOUS
  <2>2. x = [insn_utype_read(d) EXCEPT !.type = t]
    BY <1>1, <2>1, Auipc_meanings, SMT DEF Auipc_types
  <2>3. Encoding[t][1] = "U" /\ t \notin {"jal", "jalr"}
    BY <2>1, Auipc_meanings, SMT DEF Auipc_types
  <2> QED BY <2>2, <2>3, FormatU
<1>3. Meanings(d) = {} => x = Dies
  BY <1>1, Auipc_meanings, SMT
<1> QED BY <1>2, <1>3 DEF Right

\* Opcode 0x6, register and immediate on words: which words these encode.
LEMMA OpImm32_meanings ==
    ASSUME NEW d \in Word32
    PROVE  /\ \A t \in OpImm32_types : Encoding[t][1] = "I"
           /\ "addiw" \in Meanings(d) <=> d.opcode = 6 /\ d.funct3 = 0
           /\ "slliw" \in Meanings(d) <=> d.opcode = 6 /\ d.funct3 = 1 /\ d.funct7 \in {0}
           /\ "srliw" \in Meanings(d) <=> d.opcode = 6 /\ d.funct3 = 5 /\ d.funct7 \in {0}
           /\ "sraiw" \in Meanings(d) <=> d.opcode = 6 /\ d.funct3 = 5 /\ d.funct7 \in {32}
<1>1. /\ Encoding["addiw"] = I(6, 0) /\ Encoding["slliw"] = Shift(6, 1, {0})
      /\ Encoding["srliw"] = Shift(6, 5, {0})
  BY SMT DEF Encoding
<1>2. Encoding["sraiw"] = Shift(6, 5, {32})
  BY SMT DEF Encoding
<1>3. OpImm32_types \subseteq DOMAIN Encoding
  BY SMT DEF OpImm32_types, Encoding
<1> QED BY <1>1, <1>2, <1>3, MeansI, MeansShift, SMTT(30) DEF OpImm32_types

\* The decoder agrees.
LEMMA OpImm32_right ==
    ASSUME NEW d \in Word32, d.opcode = 6, NEW i, NEW x, x = insn_decode(d, i),
           \A t \in Meanings(d) : t \in OpImm32_types
    PROVE  Right(d, x)
<1>1. \/ x = Dies /\ d.funct3 \notin {0, 1, 5}
      \/ x = Dies /\ d.funct3 = 1 /\ d.funct7 # 0
      \/ x = Dies /\ d.funct3 = 5 /\ d.funct7 \notin {0, 32}
      \/ x = [insn_itype_read(d) EXCEPT !.type = "addiw"] /\ d.funct3 = 0
      \/ x = [insn_itype_read(d) EXCEPT !.type = "slliw"] /\ d.funct3 = 1 /\ d.funct7 \in {0}
      \/ x = [insn_itype_read(d) EXCEPT !.type = "srliw"] /\ d.funct3 = 5 /\ d.funct7 \in {0}
      \/ x = [insn_itype_read(d) EXCEPT !.type = "sraiw"] /\ d.funct3 = 5 /\ d.funct7 \in {32}
  BY IsWord, FieldTypes, SMT DEF insn_decode, op_imm_32, Asserted, X, TypeAt
<1>2. ASSUME NEW t \in Meanings(d)
      PROVE  x = Meaning(d, t)
  <2>1. t \in OpImm32_types
    OBVIOUS
  <2>2. x = [insn_itype_read(d) EXCEPT !.type = t]
    BY <1>1, <2>1, OpImm32_meanings, SMT DEF OpImm32_types
  <2>3. Encoding[t][1] = "I" /\ t \notin {"jal", "jalr"}
    BY <2>1, OpImm32_meanings, SMT DEF OpImm32_types
  <2> QED BY <2>2, <2>3, FormatI
<1>3. Meanings(d) = {} => x = Dies
  BY <1>1, OpImm32_meanings, SMT
<1> QED BY <1>2, <1>3 DEF Right

\* Opcode 0x8, stores: which words these encode.
LEMMA Store_meanings ==
    ASSUME NEW d \in Word32
    PROVE  /\ \A t \in Store_types : Encoding[t][1] = "S"
           /\ "sb" \in Meanings(d) <=> d.opcode = 8 /\ d.funct3 = 0
           /\ "sh" \in Meanings(d) <=> d.opcode = 8 /\ d.funct3 = 1
           /\ "sw" \in Meanings(d) <=> d.opcode = 8 /\ d.funct3 = 2
           /\ "sd" \in Meanings(d) <=> d.opcode = 8 /\ d.funct3 = 3
<1>1. /\ Encoding["sb"] = S(8, 0) /\ Encoding["sh"] = S(8, 1) /\ Encoding["sw"] = S(8, 2)
  BY SMT DEF Encoding
<1>2. Encoding["sd"] = S(8, 3)
  BY SMT DEF Encoding
<1>3. Store_types \subseteq DOMAIN Encoding
  BY SMT DEF Store_types, Encoding
<1> QED BY <1>1, <1>2, <1>3, MeansS, SMTT(30) DEF Store_types

\* The decoder agrees.
LEMMA Store_right ==
    ASSUME NEW d \in Word32, d.opcode = 8, NEW i, NEW x, x = insn_decode(d, i),
           \A t \in Meanings(d) : t \in Store_types
    PROVE  Right(d, x)
<1>1. \/ x = Dies /\ d.funct3 \notin {0, 1, 2, 3}
      \/ x = [insn_stype_read(d) EXCEPT !.type = "sb"] /\ d.funct3 = 0
      \/ x = [insn_stype_read(d) EXCEPT !.type = "sh"] /\ d.funct3 = 1
      \/ x = [insn_stype_read(d) EXCEPT !.type = "sw"] /\ d.funct3 = 2
      \/ x = [insn_stype_read(d) EXCEPT !.type = "sd"] /\ d.funct3 = 3
  BY IsWord, FieldTypes, SMT DEF insn_decode, stores, TypeAt
<1>2. ASSUME NEW t \in Meanings(d)
      PROVE  x = Meaning(d, t)
  <2>1. t \in Store_types
    OBVIOUS
  <2>2. x = [insn_stype_read(d) EXCEPT !.type = t]
    BY <1>1, <2>1, Store_meanings, SMT DEF Store_types
  <2>3. Encoding[t][1] = "S" /\ t \notin {"jal", "jalr"}
    BY <2>1, Store_meanings, SMT DEF Store_types
  <2> QED BY <2>2, <2>3, FormatS
<1>3. Meanings(d) = {} => x = Dies
  BY <1>1, Store_meanings, SMT
<1> QED BY <1>2, <1>3 DEF Right

\* Opcode 0x9, floating-point stores: which words these encode.
LEMMA FpStore_meanings ==
    ASSUME NEW d \in Word32
    PROVE  /\ \A t \in FpStore_types : Encoding[t][1] = "S"
           /\ "fsw" \in Meanings(d) <=> d.opcode = 9 /\ d.funct3 = 2
           /\ "fsd" \in Meanings(d) <=> d.opcode = 9 /\ d.funct3 = 3
<1>1. /\ Encoding["fsw"] = S(9, 2) /\ Encoding["fsd"] = S(9, 3)
  BY SMT DEF Encoding
<1>2. FpStore_types \subseteq DOMAIN Encoding
  BY SMT DEF FpStore_types, Encoding
<1> QED BY <1>1, <1>2, MeansS, SMT DEF FpStore_types

\* The decoder agrees.
LEMMA FpStore_right ==
    ASSUME NEW d \in Word32, d.opcode = 9, NEW i, NEW x, x = insn_decode(d, i),
           \A t \in Meanings(d) : t \in FpStore_types
    PROVE  Right(d, x)
<1>1. \/ x = Dies /\ d.funct3 \notin {2, 3}
      \/ x = [insn_stype_read(d) EXCEPT !.type = "fsw"] /\ d.funct3 = 2
      \/ x = [insn_stype_read(d) EXCEPT !.type = "fsd"] /\ d.funct3 = 3
  BY IsWord, FieldTypes, SMT DEF insn_decode, fp_stores, X, TypeAt
<1>2. ASSUME NEW t \in Meanings(d)
      PROVE  x = Meaning(d, t)
  <2>1. t \in FpStore_types
    OBVIOUS
  <2>2. x = [insn_stype_read(d) EXCEPT !.type = t]
    BY <1>1, <2>1, FpStore_meanings, SMT DEF FpStore_types
  <2>3. Encoding[t][1] = "S" /\ t \notin {"jal", "jalr"}
    BY <2>1, FpStore_meanings, SMT DEF FpStore_types
  <2> QED BY <2>2, <2>3, FormatS
<1>3. Meanings(d) = {} => x = Dies
  BY <1>1, FpStore_meanings, SMT
<1> QED BY <1>2, <1>3 DEF Right

\* Opcode 0xc, two registers, funct7 = 0: which words these encode.
LEMMA OpBase_meanings ==
    ASSUME NEW d \in Word32
    PROVE  /\ \A t \in OpBase_types : Encoding[t][1] = "R"
           /\ "add" \in Meanings(d) <=> d.opcode = 12 /\ d.funct3 = 0 /\ d.funct7 = 0
           /\ "sll" \in Meanings(d) <=> d.opcode = 12 /\ d.funct3 = 1 /\ d.funct7 = 0
           /\ "slt" \in Meanings(d) <=> d.opcode = 12 /\ d.funct3 = 2 /\ d.funct7 = 0
           /\ "sltu" \in Meanings(d) <=> d.opcode = 12 /\ d.funct3 = 3 /\ d.funct7 = 0
           /\ "xor" \in Meanings(d) <=> d.opcode = 12 /\ d.funct3 = 4 /\ d.funct7 = 0
           /\ "srl" \in Meanings(d) <=> d.opcode = 12 /\ d.funct3 = 5 /\ d.funct7 = 0
           /\ "or" \in Meanings(d) <=> d.opcode = 12 /\ d.funct3 = 6 /\ d.funct7 = 0
           /\ "and" \in Meanings(d) <=> d.opcode = 12 /\ d.funct3 = 7 /\ d.funct7 = 0
<1>1. /\ Encoding["add"] = Reg(0, 0) /\ Encoding["sll"] = Reg(1, 0) /\ Encoding["slt"] = Reg(2, 0)
  BY SMTT(30) DEF Encoding
<1>2. /\ Encoding["sltu"] = Reg(3, 0) /\ Encoding["xor"] = Reg(4, 0)
     /\ Encoding["srl"] = Reg(5, 0)
  BY SMT DEF Encoding
<1>3. /\ Encoding["or"] = Reg(6, 0) /\ Encoding["and"] = Reg(7, 0)
  BY SMT DEF Encoding
<1>4. OpBase_types \subseteq DOMAIN Encoding
  BY SMT DEF OpBase_types, Encoding
<1> QED BY <1>1, <1>2, <1>3, <1>4, MeansReg, SMTT(30) DEF OpBase_types

\* The decoder agrees.
LEMMA OpBase_right ==
    ASSUME NEW d \in Word32, d.opcode = 12, d.funct7 = 0, NEW i, NEW x, x = insn_decode(d, i),
           \A t \in Meanings(d) : t \in OpBase_types
    PROVE  Right(d, x)
<1>1. \/ x = [insn_rtype_read(d) EXCEPT !.type = "add"] /\ d.funct3 = 0 /\ d.funct7 = 0
      \/ x = [insn_rtype_read(d) EXCEPT !.type = "sll"] /\ d.funct3 = 1 /\ d.funct7 = 0
      \/ x = [insn_rtype_read(d) EXCEPT !.type = "slt"] /\ d.funct3 = 2 /\ d.funct7 = 0
      \/ x = [insn_rtype_read(d) EXCEPT !.type = "sltu"] /\ d.funct3 = 3 /\ d.funct7 = 0
      \/ x = [insn_rtype_read(d) EXCEPT !.type = "xor"] /\ d.funct3 = 4 /\ d.funct7 = 0
      \/ x = [insn_rtype_read(d) EXCEPT !.type = "srl"] /\ d.funct3 = 5 /\ d.funct7 = 0
      \/ x = [insn_rtype_read(d) EXCEPT !.type = "or"] /\ d.funct3 = 6 /\ d.funct7 = 0
      \/ x = [insn_rtype_read(d) EXCEPT !.type = "and"] /\ d.funct3 = 7 /\ d.funct7 = 0
  BY IsWord, FieldTypes, SMT DEF insn_decode, op, TypeAt
<1>2. ASSUME NEW t \in Meanings(d)
      PROVE  x = Meaning(d, t)
  <2>1. t \in OpBase_types
    OBVIOUS
  <2>2. x = [insn_rtype_read(d) EXCEPT !.type = t]
    BY <1>1, <2>1, OpBase_meanings, SMT DEF OpBase_types
  <2>3. Encoding[t][1] = "R" /\ t \notin {"jal", "jalr"}
    BY <2>1, OpBase_meanings, SMT DEF OpBase_types
  <2> QED BY <2>2, <2>3, FormatR
<1>3. Meanings(d) = {} => x = Dies
  BY <1>1, OpBase_meanings, SMT
<1> QED BY <1>2, <1>3 DEF Right

\* Opcode 0xc, two registers, funct7 = 1: which words these encode.
LEMMA OpMul_meanings ==
    ASSUME NEW d \in Word32
    PROVE  /\ \A t \in OpMul_types : Encoding[t][1] = "R"
           /\ "mul" \in Meanings(d) <=> d.opcode = 12 /\ d.funct3 = 0 /\ d.funct7 = 1
           /\ "mulh" \in Meanings(d) <=> d.opcode = 12 /\ d.funct3 = 1 /\ d.funct7 = 1
           /\ "mulhsu" \in Meanings(d) <=> d.opcode = 12 /\ d.funct3 = 2 /\ d.funct7 = 1
           /\ "mulhu" \in Meanings(d) <=> d.opcode = 12 /\ d.funct3 = 3 /\ d.funct7 = 1
           /\ "div" \in Meanings(d) <=> d.opcode = 12 /\ d.funct3 = 4 /\ d.funct7 = 1
           /\ "divu" \in Meanings(d) <=> d.opcode = 12 /\ d.funct3 = 5 /\ d.funct7 = 1
           /\ "rem" \in Meanings(d) <=> d.opcode = 12 /\ d.funct3 = 6 /\ d.funct7 = 1
           /\ "remu" \in Meanings(d) <=> d.opcode = 12 /\ d.funct3 = 7 /\ d.funct7 = 1
<1>1. /\ Encoding["mul"] = Reg(0, 1) /\ Encoding["mulh"] = Reg(1, 1)
     /\ Encoding["mulhsu"] = Reg(2, 1)
  BY SMTT(30) DEF Encoding
<1>2. /\ Encoding["mulhu"] = Reg(3, 1) /\ Encoding["div"] = Reg(4, 1)
     /\ Encoding["divu"] = Reg(5, 1)
  BY SMT DEF Encoding
<1>3. /\ Encoding["rem"] = Reg(6, 1) /\ Encoding["remu"] = Reg(7, 1)
  BY SMT DEF Encoding
<1>4. OpMul_types \subseteq DOMAIN Encoding
  BY SMT DEF OpMul_types, Encoding
<1> QED BY <1>1, <1>2, <1>3, <1>4, MeansReg, SMTT(30) DEF OpMul_types

\* The decoder agrees.
LEMMA OpMul_right ==
    ASSUME NEW d \in Word32, d.opcode = 12, d.funct7 = 1, NEW i, NEW x, x = insn_decode(d, i),
           \A t \in Meanings(d) : t \in OpMul_types
    PROVE  Right(d, x)
<1>1. \/ x = [insn_rtype_read(d) EXCEPT !.type = "mul"] /\ d.funct3 = 0 /\ d.funct7 = 1
      \/ x = [insn_rtype_read(d) EXCEPT !.type = "mulh"] /\ d.funct3 = 1 /\ d.funct7 = 1
      \/ x = [insn_rtype_read(d) EXCEPT !.type = "mulhsu"] /\ d.funct3 = 2 /\ d.funct7 = 1
      \/ x = [insn_rtype_read(d) EXCEPT !.type = "mulhu"] /\ d.funct3 = 3 /\ d.funct7 = 1
      \/ x = [insn_rtype_read(d) EXCEPT !.type = "div"] /\ d.funct3 = 4 /\ d.funct7 = 1
      \/ x = [insn_rtype_read(d) EXCEPT !.type = "divu"] /\ d.funct3 = 5 /\ d.funct7 = 1
      \/ x = [insn_rtype_read(d) EXCEPT !.type = "rem"] /\ d.funct3 = 6 /\ d.funct7 = 1
      \/ x = [insn_rtype_read(d) EXCEPT !.type = "remu"] /\ d.funct3 = 7 /\ d.funct7 = 1
  BY IsWord, FieldTypes, SMT DEF insn_decode, op, TypeAt
<1>2. ASSUME NEW t \in Meanings(d)
      PROVE  x = Meaning(d, t)
  <2>1. t \in OpMul_types
    OBVIOUS
  <2>2. x = [insn_rtype_read(d) EXCEPT !.type = t]
    BY <1>1, <2>1, OpMul_meanings, SMT DEF OpMul_types
  <2>3. Encoding[t][1] = "R" /\ t \notin {"jal", "jalr"}
    BY <2>1, OpMul_meanings, SMT DEF OpMul_types
  <2> QED BY <2>2, <2>3, FormatR
<1>3. Meanings(d) = {} => x = Dies
  BY <1>1, OpMul_meanings, SMT
<1> QED BY <1>2, <1>3 DEF Right

\* Opcode 0xc, two registers, funct7 = 32: which words these encode.
LEMMA OpAlt_meanings ==
    ASSUME NEW d \in Word32
    PROVE  /\ \A t \in OpAlt_types : Encoding[t][1] = "R"
           /\ "sub" \in Meanings(d) <=> d.opcode = 12 /\ d.funct3 = 0 /\ d.funct7 = 32
           /\ "sra" \in Meanings(d) <=> d.opcode = 12 /\ d.funct3 = 5 /\ d.funct7 = 32
<1>1. /\ Encoding["sub"] = Reg(0, 32) /\ Encoding["sra"] = Reg(5, 32)
  BY SMT DEF Encoding
<1>2. OpAlt_types \subseteq DOMAIN Encoding
  BY SMT DEF OpAlt_types, Encoding
<1> QED BY <1>1, <1>2, MeansReg, SMT DEF OpAlt_types

\* The decoder agrees.
LEMMA OpAlt_right ==
    ASSUME NEW d \in Word32, d.opcode = 12, d.funct7 = 32, NEW i, NEW x, x = insn_decode(d, i),
           \A t \in Meanings(d) : t \in OpAlt_types
    PROVE  Right(d, x)
<1>1. \/ x = Dies /\ d.funct3 \notin {0, 5}
      \/ x = [insn_rtype_read(d) EXCEPT !.type = "sub"] /\ d.funct3 = 0 /\ d.funct7 = 32
      \/ x = [insn_rtype_read(d) EXCEPT !.type = "sra"] /\ d.funct3 = 5 /\ d.funct7 = 32
  BY IsWord, FieldTypes, SMT DEF insn_decode, op, X, TypeAt
<1>2. ASSUME NEW t \in Meanings(d)
      PROVE  x = Meaning(d, t)
  <2>1. t \in OpAlt_types
    OBVIOUS
  <2>2. x = [insn_rtype_read(d) EXCEPT !.type = t]
    BY <1>1, <2>1, OpAlt_meanings, SMT DEF OpAlt_types
  <2>3. Encoding[t][1] = "R" /\ t \notin {"jal", "jalr"}
    BY <2>1, OpAlt_meanings, SMT DEF OpAlt_types
  <2> QED BY <2>2, <2>3, FormatR
<1>3. Meanings(d) = {} => x = Dies
  BY <1>1, OpAlt_meanings, SMT
<1> QED BY <1>2, <1>3 DEF Right

\* Opcode 0xd, lui: which words these encode.
LEMMA Lui_meanings ==
    ASSUME NEW d \in Word32
    PROVE  /\ \A t \in Lui_types : Encoding[t][1] = "U"
           /\ "lui" \in Meanings(d) <=> d.opcode = 13
<1>1. Encoding["lui"] = U(13)
  BY SMT DEF Encoding
<1>2. Lui_types \subseteq DOMAIN Encoding
  BY SMT DEF Lui_types, Encoding
<1> QED BY <1>1, <1>2, MeansU, SMT DEF Lui_types

\* The decoder agrees.
LEMMA Lui_right ==
    ASSUME NEW d \in Word32, d.opcode = 13, NEW i, NEW x, x = insn_decode(d, i),
           \A t \in Meanings(d) : t \in Lui_types
    PROVE  Right(d, x)
<1>1. x = [insn_utype_read(d) EXCEPT !.type = "lui"]
  BY IsWord DEF insn_decode
<1>2. ASSUME NEW t \in Meanings(d)
      PROVE  x = Meaning(d, t)
  <2>1. t \in Lui_types
    OBVIOUS
  <2>2. x = [insn_utype_read(d) EXCEPT !.type = t]
    BY <1>1, <2>1, Lui_meanings, SMT DEF Lui_types
  <2>3. Encoding[t][1] = "U" /\ t \notin {"jal", "jalr"}
    BY <2>1, Lui_meanings, SMT DEF Lui_types
  <2> QED BY <2>2, <2>3, FormatU
<1>3. Meanings(d) = {} => x = Dies
  BY <1>1, Lui_meanings, SMT
<1> QED BY <1>2, <1>3 DEF Right

\* Opcode 0xe, two registers, on words: which words these encode.
LEMMA Op32_meanings ==
    ASSUME NEW d \in Word32
    PROVE  /\ \A t \in Op32_types : Encoding[t][1] = "R"
           /\ "addw" \in Meanings(d) <=> d.opcode = 14 /\ d.funct3 = 0 /\ d.funct7 = 0
           /\ "sllw" \in Meanings(d) <=> d.opcode = 14 /\ d.funct3 = 1 /\ d.funct7 = 0
           /\ "srlw" \in Meanings(d) <=> d.opcode = 14 /\ d.funct3 = 5 /\ d.funct7 = 0
           /\ "mulw" \in Meanings(d) <=> d.opcode = 14 /\ d.funct3 = 0 /\ d.funct7 = 1
           /\ "divw" \in Meanings(d) <=> d.opcode = 14 /\ d.funct3 = 4 /\ d.funct7 = 1
           /\ "divuw" \in Meanings(d) <=> d.opcode = 14 /\ d.funct3 = 5 /\ d.funct7 = 1
           /\ "remw" \in Meanings(d) <=> d.opcode = 14 /\ d.funct3 = 6 /\ d.funct7 = 1
           /\ "remuw" \in Meanings(d) <=> d.opcode = 14 /\ d.funct3 = 7 /\ d.funct7 = 1
           /\ "subw" \in Meanings(d) <=> d.opcode = 14 /\ d.funct3 = 0 /\ d.funct7 = 32
           /\ "sraw" \in Meanings(d) <=> d.opcode = 14 /\ d.funct3 = 5 /\ d.funct7 = 32
<1>1. /\ Encoding["addw"] = RegW(0, 0) /\ Encoding["sllw"] = RegW(1, 0)
      /\ Encoding["srlw"] = RegW(5, 0)
  BY SMTT(30) DEF Encoding
<1>2. /\ Encoding["mulw"] = RegW(0, 1) /\ Encoding["divw"] = RegW(4, 1)
      /\ Encoding["divuw"] = RegW(5, 1)
  BY SMTT(30) DEF Encoding
<1>3. /\ Encoding["remw"] = RegW(6, 1) /\ Encoding["remuw"] = RegW(7, 1)
      /\ Encoding["subw"] = RegW(0, 32)
  BY SMT DEF Encoding
<1>4. Encoding["sraw"] = RegW(5, 32)
  BY SMT DEF Encoding
<1>5. Op32_types \subseteq DOMAIN Encoding
  BY SMT DEF Op32_types, Encoding
<1> QED BY <1>1, <1>2, <1>3, <1>4, <1>5, MeansRegW, SMTT(30) DEF Op32_types

\* The decoder agrees.
LEMMA Op32_right ==
    ASSUME NEW d \in Word32, d.opcode = 14, NEW i, NEW x, x = insn_decode(d, i),
           \A t \in Meanings(d) : t \in Op32_types
    PROVE  Right(d, x)
<1>1. \/ x = Dies /\ d.funct7 = 0 /\ d.funct3 \notin {0, 1, 5}
      \/ x = Dies /\ d.funct7 = 1 /\ d.funct3 \in {1, 2, 3}
      \/ x = Dies /\ d.funct7 = 32 /\ d.funct3 \notin {0, 5}
      \/ x = Dies /\ d.funct7 \notin {0, 1, 32}
      \/ x = [insn_rtype_read(d) EXCEPT !.type = "addw"] /\ d.funct3 = 0 /\ d.funct7 = 0
      \/ x = [insn_rtype_read(d) EXCEPT !.type = "sllw"] /\ d.funct3 = 1 /\ d.funct7 = 0
      \/ x = [insn_rtype_read(d) EXCEPT !.type = "srlw"] /\ d.funct3 = 5 /\ d.funct7 = 0
      \/ x = [insn_rtype_read(d) EXCEPT !.type = "mulw"] /\ d.funct3 = 0 /\ d.funct7 = 1
      \/ x = [insn_rtype_read(d) EXCEPT !.type = "divw"] /\ d.funct3 = 4 /\ d.funct7 = 1
      \/ x = [insn_rtype_read(d) EXCEPT !.type = "divuw"] /\ d.funct3 = 5 /\ d.funct7 = 1
      \/ x = [insn_rtype_read(d) EXCEPT !.type = "remw"] /\ d.funct3 = 6 /\ d.funct7 = 1
      \/ x = [insn_rtype_read(d) EXCEPT !.type = "remuw"] /\ d.funct3 = 7 /\ d.funct7 = 1
      \/ x = [insn_rtype_read(d) EXCEPT !.type = "subw"] /\ d.funct3 = 0 /\ d.funct7 = 32
      \/ x = [insn_rtype_read(d) EXCEPT !.type = "sraw"] /\ d.funct3 = 5 /\ d.funct7 = 32
  <2>1. d.funct7 = 0 => x = TypeAt(insn_rtype_read(d), <<"addw", "sllw", X, X, X, "srlw">>,
       d.funct3)
    BY IsWord, FieldTypes, SMT DEF insn_decode, op_32, X
  <2>2. d.funct7 = 1 => x = TypeAt(insn_rtype_read(d), <<"mulw", X, X, X, "divw", "divuw",
       "remw", "remuw">>, d.funct3)
    BY IsWord, FieldTypes, SMT DEF insn_decode, op_32, X
  <2>3. d.funct7 = 32 => x = TypeAt(insn_rtype_read(d), <<"subw", X, X, X, X, "sraw">>, d.funct3)
    BY IsWord, FieldTypes, SMT DEF insn_decode, op_32, X
  <2>4. d.funct7 \notin {0, 1, 32} => x = TypeAt(insn_rtype_read(d), <<>>, d.funct3)
    BY IsWord, FieldTypes, SMT DEF insn_decode, op_32, X
  <2> QED BY <2>1, <2>2, <2>3, <2>4, FieldTypes, SMT DEF TypeAt, X
<1>2. ASSUME NEW t \in Meanings(d)
      PROVE  x = Meaning(d, t)
  <2>1. t \in Op32_types
    OBVIOUS
  <2>2. x = [insn_rtype_read(d) EXCEPT !.type = t]
    BY <1>1, <2>1, Op32_meanings, SMT DEF Op32_types
  <2>3. Encoding[t][1] = "R" /\ t \notin {"jal", "jalr"}
    BY <2>1, Op32_meanings, SMT DEF Op32_types
  <2> QED BY <2>2, <2>3, FormatR
<1>3. Meanings(d) = {} => x = Dies
  BY <1>1, Op32_meanings, SMT
<1> QED BY <1>2, <1>3 DEF Right

\* Opcode 0x10, fmadd: which words these encode.
LEMMA Fmadd_meanings ==
    ASSUME NEW d \in Word32
    PROVE  /\ \A t \in Fmadd_types : Encoding[t][1] = "R4"
           /\ "fmadd_s" \in Meanings(d) <=> d.opcode = 16 /\ d.funct7 % 4 = 0
           /\ "fmadd_d" \in Meanings(d) <=> d.opcode = 16 /\ d.funct7 % 4 = 1
<1>1. /\ Encoding["fmadd_s"] = Fused(16, 0) /\ Encoding["fmadd_d"] = Fused(16, 1)
  BY SMT DEF Encoding
<1>2. Fmadd_types \subseteq DOMAIN Encoding
  BY SMT DEF Fmadd_types, Encoding
<1> QED BY <1>1, <1>2, MeansFused, SMT DEF Fmadd_types

\* The decoder agrees.
LEMMA Fmadd_right ==
    ASSUME NEW d \in Word32, d.opcode = 16, NEW i, NEW x, x = insn_decode(d, i),
           \A t \in Meanings(d) : t \in Fmadd_types
    PROVE  Right(d, x)
<1>1. \/ x = Dies /\ d.funct7 % 4 \notin {0, 1}
      \/ x = [insn_fprtype_read(d) EXCEPT !.type = "fmadd_s"] /\ d.funct7 % 4 = 0
      \/ x = [insn_fprtype_read(d) EXCEPT !.type = "fmadd_d"] /\ d.funct7 % 4 = 1
  BY IsWord, FieldTypes, SMT DEF insn_decode, fused, FUNCT2, TypeAt
<1>2. ASSUME NEW t \in Meanings(d)
      PROVE  x = Meaning(d, t)
  <2>1. t \in Fmadd_types
    OBVIOUS
  <2>2. x = [insn_fprtype_read(d) EXCEPT !.type = t]
    BY <1>1, <2>1, Fmadd_meanings, SMT DEF Fmadd_types
  <2>3. Encoding[t][1] = "R4" /\ t \notin {"jal", "jalr"}
    BY <2>1, Fmadd_meanings, SMT DEF Fmadd_types
  <2> QED BY <2>2, <2>3, FormatR4
<1>3. Meanings(d) = {} => x = Dies
  BY <1>1, Fmadd_meanings, SMT
<1> QED BY <1>2, <1>3 DEF Right

\* Opcode 0x11, fmsub: which words these encode.
LEMMA Fmsub_meanings ==
    ASSUME NEW d \in Word32
    PROVE  /\ \A t \in Fmsub_types : Encoding[t][1] = "R4"
           /\ "fmsub_s" \in Meanings(d) <=> d.opcode = 17 /\ d.funct7 % 4 = 0
           /\ "fmsub_d" \in Meanings(d) <=> d.opcode = 17 /\ d.funct7 % 4 = 1
<1>1. /\ Encoding["fmsub_s"] = Fused(17, 0) /\ Encoding["fmsub_d"] = Fused(17, 1)
  BY SMT DEF Encoding
<1>2. Fmsub_types \subseteq DOMAIN Encoding
  BY SMT DEF Fmsub_types, Encoding
<1> QED BY <1>1, <1>2, MeansFused, SMT DEF Fmsub_types

\* The decoder agrees.
LEMMA Fmsub_right ==
    ASSUME NEW d \in Word32, d.opcode = 17, NEW i, NEW x, x = insn_decode(d, i),
           \A t \in Meanings(d) : t \in Fmsub_types
    PROVE  Right(d, x)
<1>1. \/ x = Dies /\ d.funct7 % 4 \notin {0, 1}
      \/ x = [insn_fprtype_read(d) EXCEPT !.type = "fmsub_s"] /\ d.funct7 % 4 = 0
      \/ x = [insn_fprtype_read(d) EXCEPT !.type = "fmsub_d"] /\ d.funct7 % 4 = 1
  BY IsWord, FieldTypes, SMT DEF insn_decode, fused, FUNCT2, TypeAt
<1>2. ASSUME NEW t \in Meanings(d)
      PROVE  x = Meaning(d, t)
  <2>1. t \in Fmsub_types
    OBVIOUS
  <2>2. x = [insn_fprtype_read(d) EXCEPT !.type = t]
    BY <1>1, <2>1, Fmsub_meanings, SMT DEF Fmsub_types
  <2>3. Encoding[t][1] = "R4" /\ t \notin {"jal", "jalr"}
    BY <2>1, Fmsub_meanings, SMT DEF Fmsub_types
  <2> QED BY <2>2, <2>3, FormatR4
<1>3. Meanings(d) = {} => x = Dies
  BY <1>1, Fmsub_meanings, SMT
<1> QED BY <1>2, <1>3 DEF Right

\* Opcode 0x12, fnmsub: which words these encode.
LEMMA Fnmsub_meanings ==
    ASSUME NEW d \in Word32
    PROVE  /\ \A t \in Fnmsub_types : Encoding[t][1] = "R4"
           /\ "fnmsub_s" \in Meanings(d) <=> d.opcode = 18 /\ d.funct7 % 4 = 0
           /\ "fnmsub_d" \in Meanings(d) <=> d.opcode = 18 /\ d.funct7 % 4 = 1
<1>1. /\ Encoding["fnmsub_s"] = Fused(18, 0) /\ Encoding["fnmsub_d"] = Fused(18, 1)
  BY SMT DEF Encoding
<1>2. Fnmsub_types \subseteq DOMAIN Encoding
  BY SMT DEF Fnmsub_types, Encoding
<1> QED BY <1>1, <1>2, MeansFused, SMT DEF Fnmsub_types

\* The decoder agrees.
LEMMA Fnmsub_right ==
    ASSUME NEW d \in Word32, d.opcode = 18, NEW i, NEW x, x = insn_decode(d, i),
           \A t \in Meanings(d) : t \in Fnmsub_types
    PROVE  Right(d, x)
<1>1. \/ x = Dies /\ d.funct7 % 4 \notin {0, 1}
      \/ x = [insn_fprtype_read(d) EXCEPT !.type = "fnmsub_s"] /\ d.funct7 % 4 = 0
      \/ x = [insn_fprtype_read(d) EXCEPT !.type = "fnmsub_d"] /\ d.funct7 % 4 = 1
  BY IsWord, FieldTypes, SMT DEF insn_decode, fused, FUNCT2, TypeAt
<1>2. ASSUME NEW t \in Meanings(d)
      PROVE  x = Meaning(d, t)
  <2>1. t \in Fnmsub_types
    OBVIOUS
  <2>2. x = [insn_fprtype_read(d) EXCEPT !.type = t]
    BY <1>1, <2>1, Fnmsub_meanings, SMT DEF Fnmsub_types
  <2>3. Encoding[t][1] = "R4" /\ t \notin {"jal", "jalr"}
    BY <2>1, Fnmsub_meanings, SMT DEF Fnmsub_types
  <2> QED BY <2>2, <2>3, FormatR4
<1>3. Meanings(d) = {} => x = Dies
  BY <1>1, Fnmsub_meanings, SMT
<1> QED BY <1>2, <1>3 DEF Right

\* Opcode 0x13, fnmadd: which words these encode.
LEMMA Fnmadd_meanings ==
    ASSUME NEW d \in Word32
    PROVE  /\ \A t \in Fnmadd_types : Encoding[t][1] = "R4"
           /\ "fnmadd_s" \in Meanings(d) <=> d.opcode = 19 /\ d.funct7 % 4 = 0
           /\ "fnmadd_d" \in Meanings(d) <=> d.opcode = 19 /\ d.funct7 % 4 = 1
<1>1. /\ Encoding["fnmadd_s"] = Fused(19, 0) /\ Encoding["fnmadd_d"] = Fused(19, 1)
  BY SMT DEF Encoding
<1>2. Fnmadd_types \subseteq DOMAIN Encoding
  BY SMT DEF Fnmadd_types, Encoding
<1> QED BY <1>1, <1>2, MeansFused, SMT DEF Fnmadd_types

\* The decoder agrees.
LEMMA Fnmadd_right ==
    ASSUME NEW d \in Word32, d.opcode = 19, NEW i, NEW x, x = insn_decode(d, i),
           \A t \in Meanings(d) : t \in Fnmadd_types
    PROVE  Right(d, x)
<1>1. \/ x = Dies /\ d.funct7 % 4 \notin {0, 1}
      \/ x = [insn_fprtype_read(d) EXCEPT !.type = "fnmadd_s"] /\ d.funct7 % 4 = 0
      \/ x = [insn_fprtype_read(d) EXCEPT !.type = "fnmadd_d"] /\ d.funct7 % 4 = 1
  BY IsWord, FieldTypes, SMTT(30) DEF insn_decode, fused, FUNCT2, TypeAt
<1>2. ASSUME NEW t \in Meanings(d)
      PROVE  x = Meaning(d, t)
  <2>1. t \in Fnmadd_types
    OBVIOUS
  <2>2. x = [insn_fprtype_read(d) EXCEPT !.type = t]
    BY <1>1, <2>1, Fnmadd_meanings, SMT DEF Fnmadd_types
  <2>3. Encoding[t][1] = "R4" /\ t \notin {"jal", "jalr"}
    BY <2>1, Fnmadd_meanings, SMT DEF Fnmadd_types
  <2> QED BY <2>2, <2>3, FormatR4
<1>3. Meanings(d) = {} => x = Dies
  BY <1>1, Fnmadd_meanings, SMT
<1> QED BY <1>2, <1>3 DEF Right

\* Opcode 0x14, floating-point sum and difference: which words these encode.
LEMMA FpAdd_meanings ==
    ASSUME NEW d \in Word32
    PROVE  /\ \A t \in FpAdd_types : Encoding[t][1] = "R"
           /\ "fadd_s" \in Meanings(d) <=> d.opcode = 20 /\ d.funct7 = 0
           /\ "fadd_d" \in Meanings(d) <=> d.opcode = 20 /\ d.funct7 = 1
           /\ "fsub_s" \in Meanings(d) <=> d.opcode = 20 /\ d.funct7 = 4
           /\ "fsub_d" \in Meanings(d) <=> d.opcode = 20 /\ d.funct7 = 5
<1>1. /\ Encoding["fadd_s"] = Fp(0) /\ Encoding["fadd_d"] = Fp(1) /\ Encoding["fsub_s"] = Fp(4)
  BY SMT DEF Encoding
<1>2. Encoding["fsub_d"] = Fp(5)
  BY SMT DEF Encoding
<1>3. FpAdd_types \subseteq DOMAIN Encoding
  BY SMT DEF FpAdd_types, Encoding
<1> QED BY <1>1, <1>2, <1>3, MeansFp, SMT DEF FpAdd_types

\* The decoder agrees.
LEMMA FpAdd_right ==
    ASSUME NEW d \in Word32, d.opcode = 20, d.funct7 \in {0, 1, 4, 5}, NEW i, NEW x,
         x = insn_decode(d, i),
           \A t \in Meanings(d) : t \in FpAdd_types
    PROVE  Right(d, x)
<1>1. \/ x = [insn_rtype_read(d) EXCEPT !.type = "fadd_s"] /\ d.funct7 = 0
      \/ x = [insn_rtype_read(d) EXCEPT !.type = "fadd_d"] /\ d.funct7 = 1
      \/ x = [insn_rtype_read(d) EXCEPT !.type = "fsub_s"] /\ d.funct7 = 4
      \/ x = [insn_rtype_read(d) EXCEPT !.type = "fsub_d"] /\ d.funct7 = 5
  BY IsWord, FieldTypes, SMT DEF insn_decode, op_fp, fp_arith, RS3, FUNCT2, TypeAt
<1>2. ASSUME NEW t \in Meanings(d)
      PROVE  x = Meaning(d, t)
  <2>1. t \in FpAdd_types
    OBVIOUS
  <2>2. x = [insn_rtype_read(d) EXCEPT !.type = t]
    BY <1>1, <2>1, FpAdd_meanings, SMT DEF FpAdd_types
  <2>3. Encoding[t][1] = "R" /\ t \notin {"jal", "jalr"}
    BY <2>1, FpAdd_meanings, SMT DEF FpAdd_types
  <2> QED BY <2>2, <2>3, FormatR
<1>3. Meanings(d) = {} => x = Dies
  BY <1>1, FpAdd_meanings, SMT
<1> QED BY <1>2, <1>3, SMTT(30) DEF Right

\* Opcode 0x14, floating-point product and quotient: which words these encode.
LEMMA FpMul_meanings ==
    ASSUME NEW d \in Word32
    PROVE  /\ \A t \in FpMul_types : Encoding[t][1] = "R"
           /\ "fmul_s" \in Meanings(d) <=> d.opcode = 20 /\ d.funct7 = 8
           /\ "fmul_d" \in Meanings(d) <=> d.opcode = 20 /\ d.funct7 = 9
           /\ "fdiv_s" \in Meanings(d) <=> d.opcode = 20 /\ d.funct7 = 12
           /\ "fdiv_d" \in Meanings(d) <=> d.opcode = 20 /\ d.funct7 = 13
<1>1. /\ Encoding["fmul_s"] = Fp(8) /\ Encoding["fmul_d"] = Fp(9) /\ Encoding["fdiv_s"] = Fp(12)
  BY SMTT(30) DEF Encoding
<1>2. Encoding["fdiv_d"] = Fp(13)
  BY SMT DEF Encoding
<1>3. FpMul_types \subseteq DOMAIN Encoding
  BY SMT DEF FpMul_types, Encoding
<1> QED BY <1>1, <1>2, <1>3, MeansFp, SMT DEF FpMul_types

\* The decoder agrees.
LEMMA FpMul_right ==
    ASSUME NEW d \in Word32, d.opcode = 20, d.funct7 \in {8, 9, 12, 13}, NEW i, NEW x,
         x = insn_decode(d, i),
           \A t \in Meanings(d) : t \in FpMul_types
    PROVE  Right(d, x)
<1>1. \/ x = [insn_rtype_read(d) EXCEPT !.type = "fmul_s"] /\ d.funct7 = 8
      \/ x = [insn_rtype_read(d) EXCEPT !.type = "fmul_d"] /\ d.funct7 = 9
      \/ x = [insn_rtype_read(d) EXCEPT !.type = "fdiv_s"] /\ d.funct7 = 12
      \/ x = [insn_rtype_read(d) EXCEPT !.type = "fdiv_d"] /\ d.funct7 = 13
  BY IsWord, FieldTypes, SMTT(30) DEF insn_decode, op_fp, fp_arith, RS3, FUNCT2, TypeAt
<1>2. ASSUME NEW t \in Meanings(d)
      PROVE  x = Meaning(d, t)
  <2>1. t \in FpMul_types
    OBVIOUS
  <2>2. x = [insn_rtype_read(d) EXCEPT !.type = t]
    BY <1>1, <2>1, FpMul_meanings, SMT DEF FpMul_types
  <2>3. Encoding[t][1] = "R" /\ t \notin {"jal", "jalr"}
    BY <2>1, FpMul_meanings, SMT DEF FpMul_types
  <2> QED BY <2>2, <2>3, FormatR
<1>3. Meanings(d) = {} => x = Dies
  BY <1>1, FpMul_meanings, SMT
<1> QED BY <1>2, <1>3, SMTT(30) DEF Right

\* Opcode 0x14, sign injection: which words these encode.
LEMMA FpSign_meanings ==
    ASSUME NEW d \in Word32
    PROVE  /\ \A t \in FpSign_types : Encoding[t][1] = "R"
           /\ "fsgnj_s" \in Meanings(d) <=> d.opcode = 20 /\ d.funct7 = 16 /\ d.funct3 = 0
           /\ "fsgnjn_s" \in Meanings(d) <=> d.opcode = 20 /\ d.funct7 = 16 /\ d.funct3 = 1
           /\ "fsgnjx_s" \in Meanings(d) <=> d.opcode = 20 /\ d.funct7 = 16 /\ d.funct3 = 2
           /\ "fsgnj_d" \in Meanings(d) <=> d.opcode = 20 /\ d.funct7 = 17 /\ d.funct3 = 0
           /\ "fsgnjn_d" \in Meanings(d) <=> d.opcode = 20 /\ d.funct7 = 17 /\ d.funct3 = 1
           /\ "fsgnjx_d" \in Meanings(d) <=> d.opcode = 20 /\ d.funct7 = 17 /\ d.funct3 = 2
<1>1. /\ Encoding["fsgnj_s"] = Fp3(16, 0) /\ Encoding["fsgnjn_s"] = Fp3(16, 1)
      /\ Encoding["fsgnjx_s"] = Fp3(16, 2)
  BY SMTT(30) DEF Encoding
<1>2. /\ Encoding["fsgnj_d"] = Fp3(17, 0) /\ Encoding["fsgnjn_d"] = Fp3(17, 1)
      /\ Encoding["fsgnjx_d"] = Fp3(17, 2)
  BY SMT DEF Encoding
<1>3. FpSign_types \subseteq DOMAIN Encoding
  BY SMT DEF FpSign_types, Encoding
<1> QED BY <1>1, <1>2, <1>3, MeansFp3, SMT DEF FpSign_types

\* The decoder agrees.
LEMMA FpSign_right ==
    ASSUME NEW d \in Word32, d.opcode = 20, d.funct7 \in {16, 17}, NEW i, NEW x,
         x = insn_decode(d, i),
           \A t \in Meanings(d) : t \in FpSign_types
    PROVE  Right(d, x)
<1>1. \/ x = Dies /\ d.funct3 \notin {0, 1, 2}
      \/ x = [insn_rtype_read(d) EXCEPT !.type = "fsgnj_s"] /\ d.funct7 = 16 /\ d.funct3 = 0
      \/ x = [insn_rtype_read(d) EXCEPT !.type = "fsgnjn_s"] /\ d.funct7 = 16 /\ d.funct3 = 1
      \/ x = [insn_rtype_read(d) EXCEPT !.type = "fsgnjx_s"] /\ d.funct7 = 16 /\ d.funct3 = 2
      \/ x = [insn_rtype_read(d) EXCEPT !.type = "fsgnj_d"] /\ d.funct7 = 17 /\ d.funct3 = 0
      \/ x = [insn_rtype_read(d) EXCEPT !.type = "fsgnjn_d"] /\ d.funct7 = 17 /\ d.funct3 = 1
      \/ x = [insn_rtype_read(d) EXCEPT !.type = "fsgnjx_d"] /\ d.funct7 = 17 /\ d.funct3 = 2
  <2>1. d.funct7 = 16 => x = TypeAt(insn_rtype_read(d), <<"fsgnj_s", "fsgnjn_s", "fsgnjx_s">>,
       d.funct3)
    BY IsWord, FieldTypes, SMT DEF insn_decode, op_fp, fp_arith, RS3, FUNCT2
  <2>2. d.funct7 = 17 => x = TypeAt(insn_rtype_read(d), <<"fsgnj_d", "fsgnjn_d", "fsgnjx_d">>,
       d.funct3)
    BY IsWord, FieldTypes, SMT DEF insn_decode, op_fp, fp_arith, RS3, FUNCT2
  <2> QED BY <2>1, <2>2, FieldTypes, SMT DEF TypeAt
<1>2. ASSUME NEW t \in Meanings(d)
      PROVE  x = Meaning(d, t)
  <2>1. t \in FpSign_types
    OBVIOUS
  <2>2. x = [insn_rtype_read(d) EXCEPT !.type = t]
    BY <1>1, <2>1, FpSign_meanings, SMT DEF FpSign_types
  <2>3. Encoding[t][1] = "R" /\ t \notin {"jal", "jalr"}
    BY <2>1, FpSign_meanings, SMT DEF FpSign_types
  <2> QED BY <2>2, <2>3, FormatR
<1>3. Meanings(d) = {} => x = Dies
  BY <1>1, FpSign_meanings, SMT
<1> QED BY <1>2, <1>3 DEF Right

\* Opcode 0x14, minimum and maximum: which words these encode.
LEMMA FpMinMax_meanings ==
    ASSUME NEW d \in Word32
    PROVE  /\ \A t \in FpMinMax_types : Encoding[t][1] = "R"
           /\ "fmin_s" \in Meanings(d) <=> d.opcode = 20 /\ d.funct7 = 20 /\ d.funct3 = 0
           /\ "fmax_s" \in Meanings(d) <=> d.opcode = 20 /\ d.funct7 = 20 /\ d.funct3 = 1
           /\ "fmin_d" \in Meanings(d) <=> d.opcode = 20 /\ d.funct7 = 21 /\ d.funct3 = 0
           /\ "fmax_d" \in Meanings(d) <=> d.opcode = 20 /\ d.funct7 = 21 /\ d.funct3 = 1
<1>1. /\ Encoding["fmin_s"] = Fp3(20, 0) /\ Encoding["fmax_s"] = Fp3(20, 1)
      /\ Encoding["fmin_d"] = Fp3(21, 0)
  BY SMT DEF Encoding
<1>2. Encoding["fmax_d"] = Fp3(21, 1)
  BY SMT DEF Encoding
<1>3. FpMinMax_types \subseteq DOMAIN Encoding
  BY SMT DEF FpMinMax_types, Encoding
<1> QED BY <1>1, <1>2, <1>3, MeansFp3, SMTT(30) DEF FpMinMax_types

\* The decoder agrees.
LEMMA FpMinMax_right ==
    ASSUME NEW d \in Word32, d.opcode = 20, d.funct7 \in {20, 21}, NEW i, NEW x,
         x = insn_decode(d, i),
           \A t \in Meanings(d) : t \in FpMinMax_types
    PROVE  Right(d, x)
<1>1. \/ x = Dies /\ d.funct3 \notin {0, 1}
      \/ x = [insn_rtype_read(d) EXCEPT !.type = "fmin_s"] /\ d.funct7 = 20 /\ d.funct3 = 0
      \/ x = [insn_rtype_read(d) EXCEPT !.type = "fmax_s"] /\ d.funct7 = 20 /\ d.funct3 = 1
      \/ x = [insn_rtype_read(d) EXCEPT !.type = "fmin_d"] /\ d.funct7 = 21 /\ d.funct3 = 0
      \/ x = [insn_rtype_read(d) EXCEPT !.type = "fmax_d"] /\ d.funct7 = 21 /\ d.funct3 = 1
  BY IsWord, FieldTypes, SMTT(30) DEF insn_decode, op_fp, fp_arith, RS3, FUNCT2, TypeAt
<1>2. ASSUME NEW t \in Meanings(d)
      PROVE  x = Meaning(d, t)
  <2>1. t \in FpMinMax_types
    OBVIOUS
  <2>2. x = [insn_rtype_read(d) EXCEPT !.type = t]
    BY <1>1, <2>1, FpMinMax_meanings, SMT DEF FpMinMax_types
  <2>3. Encoding[t][1] = "R" /\ t \notin {"jal", "jalr"}
    BY <2>1, FpMinMax_meanings, SMT DEF FpMinMax_types
  <2> QED BY <2>2, <2>3, FormatR
<1>3. Meanings(d) = {} => x = Dies
  BY <1>1, FpMinMax_meanings, SMT
<1> QED BY <1>2, <1>3, SMTT(30) DEF Right

\* Opcode 0x14, conversion between the precisions: which words these encode.
LEMMA FpPrecision_meanings ==
    ASSUME NEW d \in Word32
    PROVE  /\ \A t \in FpPrecision_types : Encoding[t][1] = "R"
           /\ "fcvt_s_d" \in Meanings(d) <=> d.opcode = 20 /\ d.funct7 = 32 /\ d.rs2 = 1
           /\ "fcvt_d_s" \in Meanings(d) <=> d.opcode = 20 /\ d.funct7 = 33 /\ d.rs2 = 0
<1>1. /\ Encoding["fcvt_s_d"] = FpTo(32, 1) /\ Encoding["fcvt_d_s"] = FpTo(33, 0)
  BY SMTT(30) DEF Encoding
<1>2. FpPrecision_types \subseteq DOMAIN Encoding
  BY SMT DEF FpPrecision_types, Encoding
<1> QED BY <1>1, <1>2, MeansFpTo, SMT DEF FpPrecision_types

\* The decoder agrees.
LEMMA FpPrecision_right ==
    ASSUME NEW d \in Word32, d.opcode = 20, d.funct7 \in {32, 33}, NEW i, NEW x,
         x = insn_decode(d, i),
           \A t \in Meanings(d) : t \in FpPrecision_types
    PROVE  Right(d, x)
<1>1. \/ x = Dies /\ d.funct7 = 32 /\ d.rs2 # 1
      \/ x = Dies /\ d.funct7 = 33 /\ d.rs2 # 0
      \/ x = [insn_rtype_read(d) EXCEPT !.type = "fcvt_s_d"] /\ d.funct7 = 32 /\ d.rs2 = 1
      \/ x = [insn_rtype_read(d) EXCEPT !.type = "fcvt_d_s"] /\ d.funct7 = 33 /\ d.rs2 = 0
  BY IsWord, FieldTypes, SMT DEF insn_decode, op_fp, fp_arith, RS3, FUNCT2, Asserted, TypeAt
<1>2. ASSUME NEW t \in Meanings(d)
      PROVE  x = Meaning(d, t)
  <2>1. t \in FpPrecision_types
    OBVIOUS
  <2>2. x = [insn_rtype_read(d) EXCEPT !.type = t]
    BY <1>1, <2>1, FpPrecision_meanings, SMT DEF FpPrecision_types
  <2>3. Encoding[t][1] = "R" /\ t \notin {"jal", "jalr"}
    BY <2>1, FpPrecision_meanings, SMT DEF FpPrecision_types
  <2> QED BY <2>2, <2>3, FormatR
<1>3. Meanings(d) = {} => x = Dies
  BY <1>1, FpPrecision_meanings, SMT
<1> QED BY <1>2, <1>3 DEF Right

\* Opcode 0x14, square root: which words these encode.
LEMMA FpSqrt_meanings ==
    ASSUME NEW d \in Word32
    PROVE  /\ \A t \in FpSqrt_types : Encoding[t][1] = "R"
           /\ "fsqrt_s" \in Meanings(d) <=> d.opcode = 20 /\ d.funct7 = 44 /\ d.rs2 = 0
           /\ "fsqrt_d" \in Meanings(d) <=> d.opcode = 20 /\ d.funct7 = 45 /\ d.rs2 = 0
<1>1. /\ Encoding["fsqrt_s"] = FpTo(44, 0) /\ Encoding["fsqrt_d"] = FpTo(45, 0)
  BY SMT DEF Encoding
<1>2. FpSqrt_types \subseteq DOMAIN Encoding
  BY SMT DEF FpSqrt_types, Encoding
<1> QED BY <1>1, <1>2, MeansFpTo, SMT DEF FpSqrt_types

\* The decoder agrees.
LEMMA FpSqrt_right ==
    ASSUME NEW d \in Word32, d.opcode = 20, d.funct7 \in {44, 45}, NEW i, NEW x,
         x = insn_decode(d, i),
           \A t \in Meanings(d) : t \in FpSqrt_types
    PROVE  Right(d, x)
<1>1. \/ x = Dies /\ d.rs2 # 0
      \/ x = [insn_rtype_read(d) EXCEPT !.type = "fsqrt_s"] /\ d.funct7 = 44 /\ d.rs2 = 0
      \/ x = [insn_rtype_read(d) EXCEPT !.type = "fsqrt_d"] /\ d.funct7 = 45 /\ d.rs2 = 0
  <2>1. insn_rtype_read(d).rs2 = d.rs2
    BY DEF insn_rtype_read, Zero
  <2>2. d.rs2 # 0 => x = Dies
    BY <2>1, IsWord, FieldTypes, SMT DEF insn_decode, op_fp, fp_arith, RS3, FUNCT2, Asserted,
         TypeAt
  <2>3. d.rs2 = 0 /\ d.funct7 = 44 => x = [insn_rtype_read(d) EXCEPT !.type = "fsqrt_s"]
    BY <2>1, IsWord, FieldTypes, SMT DEF insn_decode, op_fp, fp_arith, RS3, FUNCT2, Asserted,
         TypeAt
  <2>4. d.rs2 = 0 /\ d.funct7 = 45 => x = [insn_rtype_read(d) EXCEPT !.type = "fsqrt_d"]
    BY <2>1, IsWord, FieldTypes, SMT DEF insn_decode, op_fp, fp_arith, RS3, FUNCT2, Asserted,
         TypeAt
  <2> QED BY <2>2, <2>3, <2>4, FieldTypes, SMT DEF TypeAt
<1>2. ASSUME NEW t \in Meanings(d)
      PROVE  x = Meaning(d, t)
  <2>1. t \in FpSqrt_types
    OBVIOUS
  <2>2. x = [insn_rtype_read(d) EXCEPT !.type = t]
    BY <1>1, <2>1, FpSqrt_meanings, SMT DEF FpSqrt_types
  <2>3. Encoding[t][1] = "R" /\ t \notin {"jal", "jalr"}
    BY <2>1, FpSqrt_meanings, SMT DEF FpSqrt_types
  <2> QED BY <2>2, <2>3, FormatR
<1>3. Meanings(d) = {} => x = Dies
  BY <1>1, FpSqrt_meanings, SMT
<1> QED BY <1>2, <1>3 DEF Right

\* Opcode 0x14, floating-point comparison: which words these encode.
LEMMA FpCompare_meanings ==
    ASSUME NEW d \in Word32
    PROVE  /\ \A t \in FpCompare_types : Encoding[t][1] = "R"
           /\ "fle_s" \in Meanings(d) <=> d.opcode = 20 /\ d.funct7 = 80 /\ d.funct3 = 0
           /\ "flt_s" \in Meanings(d) <=> d.opcode = 20 /\ d.funct7 = 80 /\ d.funct3 = 1
           /\ "feq_s" \in Meanings(d) <=> d.opcode = 20 /\ d.funct7 = 80 /\ d.funct3 = 2
           /\ "fle_d" \in Meanings(d) <=> d.opcode = 20 /\ d.funct7 = 81 /\ d.funct3 = 0
           /\ "flt_d" \in Meanings(d) <=> d.opcode = 20 /\ d.funct7 = 81 /\ d.funct3 = 1
           /\ "feq_d" \in Meanings(d) <=> d.opcode = 20 /\ d.funct7 = 81 /\ d.funct3 = 2
<1>1. /\ Encoding["fle_s"] = Fp3(80, 0) /\ Encoding["flt_s"] = Fp3(80, 1)
      /\ Encoding["feq_s"] = Fp3(80, 2)
  BY SMTT(30) DEF Encoding
<1>2. /\ Encoding["fle_d"] = Fp3(81, 0) /\ Encoding["flt_d"] = Fp3(81, 1)
      /\ Encoding["feq_d"] = Fp3(81, 2)
  BY SMT DEF Encoding
<1>3. FpCompare_types \subseteq DOMAIN Encoding
  BY SMT DEF FpCompare_types, Encoding
<1> QED BY <1>1, <1>2, <1>3, MeansFp3, SMTT(30) DEF FpCompare_types

\* The decoder agrees.
LEMMA FpCompare_right ==
    ASSUME NEW d \in Word32, d.opcode = 20, d.funct7 \in {80, 81}, NEW i, NEW x,
         x = insn_decode(d, i),
           \A t \in Meanings(d) : t \in FpCompare_types
    PROVE  Right(d, x)
<1>1. \/ x = Dies /\ d.funct3 \notin {0, 1, 2}
      \/ x = [insn_rtype_read(d) EXCEPT !.type = "fle_s"] /\ d.funct7 = 80 /\ d.funct3 = 0
      \/ x = [insn_rtype_read(d) EXCEPT !.type = "flt_s"] /\ d.funct7 = 80 /\ d.funct3 = 1
      \/ x = [insn_rtype_read(d) EXCEPT !.type = "feq_s"] /\ d.funct7 = 80 /\ d.funct3 = 2
      \/ x = [insn_rtype_read(d) EXCEPT !.type = "fle_d"] /\ d.funct7 = 81 /\ d.funct3 = 0
      \/ x = [insn_rtype_read(d) EXCEPT !.type = "flt_d"] /\ d.funct7 = 81 /\ d.funct3 = 1
      \/ x = [insn_rtype_read(d) EXCEPT !.type = "feq_d"] /\ d.funct7 = 81 /\ d.funct3 = 2
  <2>1. d.funct7 = 80 => x = TypeAt(insn_rtype_read(d), <<"fle_s", "flt_s", "feq_s">>, d.funct3)
    BY IsWord, FieldTypes, SMT DEF insn_decode, op_fp, fp_move_convert, RS3, FUNCT2
  <2>2. d.funct7 = 81 => x = TypeAt(insn_rtype_read(d), <<"fle_d", "flt_d", "feq_d">>, d.funct3)
    BY IsWord, FieldTypes, SMT DEF insn_decode, op_fp, fp_move_convert, RS3, FUNCT2
  <2> QED BY <2>1, <2>2, FieldTypes, SMT DEF TypeAt
<1>2. ASSUME NEW t \in Meanings(d)
      PROVE  x = Meaning(d, t)
  <2>1. t \in FpCompare_types
    OBVIOUS
  <2>2. x = [insn_rtype_read(d) EXCEPT !.type = t]
    BY <1>1, <2>1, FpCompare_meanings, SMT DEF FpCompare_types
  <2>3. Encoding[t][1] = "R" /\ t \notin {"jal", "jalr"}
    BY <2>1, FpCompare_meanings, SMT DEF FpCompare_types
  <2> QED BY <2>2, <2>3, FormatR
<1>3. Meanings(d) = {} => x = Dies
  BY <1>1, FpCompare_meanings, SMT
<1> QED BY <1>2, <1>3 DEF Right

\* Opcode 0x14, conversion to integers: which words these encode.
LEMMA FpToInt_meanings ==
    ASSUME NEW d \in Word32
    PROVE  /\ \A t \in FpToInt_types : Encoding[t][1] = "R"
           /\ "fcvt_w_s" \in Meanings(d) <=> d.opcode = 20 /\ d.funct7 = 96 /\ d.rs2 = 0
           /\ "fcvt_wu_s" \in Meanings(d) <=> d.opcode = 20 /\ d.funct7 = 96 /\ d.rs2 = 1
           /\ "fcvt_l_s" \in Meanings(d) <=> d.opcode = 20 /\ d.funct7 = 96 /\ d.rs2 = 2
           /\ "fcvt_lu_s" \in Meanings(d) <=> d.opcode = 20 /\ d.funct7 = 96 /\ d.rs2 = 3
           /\ "fcvt_w_d" \in Meanings(d) <=> d.opcode = 20 /\ d.funct7 = 97 /\ d.rs2 = 0
           /\ "fcvt_wu_d" \in Meanings(d) <=> d.opcode = 20 /\ d.funct7 = 97 /\ d.rs2 = 1
           /\ "fcvt_l_d" \in Meanings(d) <=> d.opcode = 20 /\ d.funct7 = 97 /\ d.rs2 = 2
           /\ "fcvt_lu_d" \in Meanings(d) <=> d.opcode = 20 /\ d.funct7 = 97 /\ d.rs2 = 3
<1>1. /\ Encoding["fcvt_w_s"] = FpTo(96, 0) /\ Encoding["fcvt_wu_s"] = FpTo(96, 1)
      /\ Encoding["fcvt_l_s"] = FpTo(96, 2)
  BY SMTT(30) DEF Encoding
<1>2. /\ Encoding["fcvt_lu_s"] = FpTo(96, 3) /\ Encoding["fcvt_w_d"] = FpTo(97, 0)
      /\ Encoding["fcvt_wu_d"] = FpTo(97, 1)
  BY SMT DEF Encoding
<1>3. /\ Encoding["fcvt_l_d"] = FpTo(97, 2) /\ Encoding["fcvt_lu_d"] = FpTo(97, 3)
  BY SMT DEF Encoding
<1>4. FpToInt_types \subseteq DOMAIN Encoding
  BY SMT DEF FpToInt_types, Encoding
<1> QED BY <1>1, <1>2, <1>3, <1>4, MeansFpTo, SMTT(30) DEF FpToInt_types

\* The decoder agrees.
LEMMA FpToInt_right ==
    ASSUME NEW d \in Word32, d.opcode = 20, d.funct7 \in {96, 97}, NEW i, NEW x,
         x = insn_decode(d, i),
           \A t \in Meanings(d) : t \in FpToInt_types
    PROVE  Right(d, x)
<1>1. \/ x = Dies /\ d.rs2 \notin {0, 1, 2, 3}
      \/ x = [insn_rtype_read(d) EXCEPT !.type = "fcvt_w_s"] /\ d.funct7 = 96 /\ d.rs2 = 0
      \/ x = [insn_rtype_read(d) EXCEPT !.type = "fcvt_wu_s"] /\ d.funct7 = 96 /\ d.rs2 = 1
      \/ x = [insn_rtype_read(d) EXCEPT !.type = "fcvt_l_s"] /\ d.funct7 = 96 /\ d.rs2 = 2
      \/ x = [insn_rtype_read(d) EXCEPT !.type = "fcvt_lu_s"] /\ d.funct7 = 96 /\ d.rs2 = 3
      \/ x = [insn_rtype_read(d) EXCEPT !.type = "fcvt_w_d"] /\ d.funct7 = 97 /\ d.rs2 = 0
      \/ x = [insn_rtype_read(d) EXCEPT !.type = "fcvt_wu_d"] /\ d.funct7 = 97 /\ d.rs2 = 1
      \/ x = [insn_rtype_read(d) EXCEPT !.type = "fcvt_l_d"] /\ d.funct7 = 97 /\ d.rs2 = 2
      \/ x = [insn_rtype_read(d) EXCEPT !.type = "fcvt_lu_d"] /\ d.funct7 = 97 /\ d.rs2 = 3
  <2>1. d.funct7 = 96 => x = TypeAt(insn_rtype_read(d), <<"fcvt_w_s", "fcvt_wu_s", "fcvt_l_s",
       "fcvt_lu_s">>, d.rs2)
    BY IsWord, FieldTypes, SMT DEF insn_decode, op_fp, fp_move_convert, RS3, FUNCT2
  <2>2. d.funct7 = 97 => x = TypeAt(insn_rtype_read(d), <<"fcvt_w_d", "fcvt_wu_d", "fcvt_l_d",
       "fcvt_lu_d">>, d.rs2)
    BY IsWord, FieldTypes, SMT DEF insn_decode, op_fp, fp_move_convert, RS3, FUNCT2
  <2> QED BY <2>1, <2>2, FieldTypes, SMT DEF TypeAt
<1>2. ASSUME NEW t \in Meanings(d)
      PROVE  x = Meaning(d, t)
  <2>1. t \in FpToInt_types
    OBVIOUS
  <2>2. x = [insn_rtype_read(d) EXCEPT !.type = t]
    BY <1>1, <2>1, FpToInt_meanings, SMT DEF FpToInt_types
  <2>3. Encoding[t][1] = "R" /\ t \notin {"jal", "jalr"}
    BY <2>1, FpToInt_meanings, SMT DEF FpToInt_types
  <2> QED BY <2>2, <2>3, FormatR
<1>3. Meanings(d) = {} => x = Dies
  BY <1>1, FpToInt_meanings, SMT
<1> QED BY <1>2, <1>3 DEF Right

\* Opcode 0x14, conversion from integers: which words these encode.
LEMMA FpFromInt_meanings ==
    ASSUME NEW d \in Word32
    PROVE  /\ \A t \in FpFromInt_types : Encoding[t][1] = "R"
           /\ "fcvt_s_w" \in Meanings(d) <=> d.opcode = 20 /\ d.funct7 = 104 /\ d.rs2 = 0
           /\ "fcvt_s_wu" \in Meanings(d) <=> d.opcode = 20 /\ d.funct7 = 104 /\ d.rs2 = 1
           /\ "fcvt_s_l" \in Meanings(d) <=> d.opcode = 20 /\ d.funct7 = 104 /\ d.rs2 = 2
           /\ "fcvt_s_lu" \in Meanings(d) <=> d.opcode = 20 /\ d.funct7 = 104 /\ d.rs2 = 3
           /\ "fcvt_d_w" \in Meanings(d) <=> d.opcode = 20 /\ d.funct7 = 105 /\ d.rs2 = 0
           /\ "fcvt_d_wu" \in Meanings(d) <=> d.opcode = 20 /\ d.funct7 = 105 /\ d.rs2 = 1
           /\ "fcvt_d_l" \in Meanings(d) <=> d.opcode = 20 /\ d.funct7 = 105 /\ d.rs2 = 2
           /\ "fcvt_d_lu" \in Meanings(d) <=> d.opcode = 20 /\ d.funct7 = 105 /\ d.rs2 = 3
<1>1. /\ Encoding["fcvt_s_w"] = FpTo(104, 0) /\ Encoding["fcvt_s_wu"] = FpTo(104, 1)
      /\ Encoding["fcvt_s_l"] = FpTo(104, 2)
  BY SMTT(30) DEF Encoding
<1>2. /\ Encoding["fcvt_s_lu"] = FpTo(104, 3) /\ Encoding["fcvt_d_w"] = FpTo(105, 0)
      /\ Encoding["fcvt_d_wu"] = FpTo(105, 1)
  BY SMTT(30) DEF Encoding
<1>3. /\ Encoding["fcvt_d_l"] = FpTo(105, 2) /\ Encoding["fcvt_d_lu"] = FpTo(105, 3)
  BY SMT DEF Encoding
<1>4. FpFromInt_types \subseteq DOMAIN Encoding
  BY SMT DEF FpFromInt_types, Encoding
<1> QED BY <1>1, <1>2, <1>3, <1>4, MeansFpTo, SMTT(30) DEF FpFromInt_types

\* The decoder agrees.
LEMMA FpFromInt_right ==
    ASSUME NEW d \in Word32, d.opcode = 20, d.funct7 \in {104, 105}, NEW i, NEW x,
         x = insn_decode(d, i),
           \A t \in Meanings(d) : t \in FpFromInt_types
    PROVE  Right(d, x)
<1>1. \/ x = Dies /\ d.rs2 \notin {0, 1, 2, 3}
      \/ x = [insn_rtype_read(d) EXCEPT !.type = "fcvt_s_w"] /\ d.funct7 = 104 /\ d.rs2 = 0
      \/ x = [insn_rtype_read(d) EXCEPT !.type = "fcvt_s_wu"] /\ d.funct7 = 104 /\ d.rs2 = 1
      \/ x = [insn_rtype_read(d) EXCEPT !.type = "fcvt_s_l"] /\ d.funct7 = 104 /\ d.rs2 = 2
      \/ x = [insn_rtype_read(d) EXCEPT !.type = "fcvt_s_lu"] /\ d.funct7 = 104 /\ d.rs2 = 3
      \/ x = [insn_rtype_read(d) EXCEPT !.type = "fcvt_d_w"] /\ d.funct7 = 105 /\ d.rs2 = 0
      \/ x = [insn_rtype_read(d) EXCEPT !.type = "fcvt_d_wu"] /\ d.funct7 = 105 /\ d.rs2 = 1
      \/ x = [insn_rtype_read(d) EXCEPT !.type = "fcvt_d_l"] /\ d.funct7 = 105 /\ d.rs2 = 2
      \/ x = [insn_rtype_read(d) EXCEPT !.type = "fcvt_d_lu"] /\ d.funct7 = 105 /\ d.rs2 = 3
  <2>1. d.funct7 = 104 => x = TypeAt(insn_rtype_read(d), <<"fcvt_s_w", "fcvt_s_wu", "fcvt_s_l",
       "fcvt_s_lu">>, d.rs2)
    BY IsWord, FieldTypes, SMT DEF insn_decode, op_fp, fp_move_convert, RS3, FUNCT2
  <2>2. d.funct7 = 105 => x = TypeAt(insn_rtype_read(d), <<"fcvt_d_w", "fcvt_d_wu", "fcvt_d_l",
       "fcvt_d_lu">>, d.rs2)
    BY IsWord, FieldTypes, SMT DEF insn_decode, op_fp, fp_move_convert, RS3, FUNCT2
  <2> QED BY <2>1, <2>2, FieldTypes, SMT DEF TypeAt
<1>2. ASSUME NEW t \in Meanings(d)
      PROVE  x = Meaning(d, t)
  <2>1. t \in FpFromInt_types
    OBVIOUS
  <2>2. x = [insn_rtype_read(d) EXCEPT !.type = t]
    BY <1>1, <2>1, FpFromInt_meanings, SMT DEF FpFromInt_types
  <2>3. Encoding[t][1] = "R" /\ t \notin {"jal", "jalr"}
    BY <2>1, FpFromInt_meanings, SMT DEF FpFromInt_types
  <2> QED BY <2>2, <2>3, FormatR
<1>3. Meanings(d) = {} => x = Dies
  BY <1>1, FpFromInt_meanings, SMT
<1> QED BY <1>2, <1>3 DEF Right

\* Opcode 0x14, moves to an integer register: which words these encode.
LEMMA FpMoveTo_meanings ==
    ASSUME NEW d \in Word32
    PROVE  /\ \A t \in FpMoveTo_types : Encoding[t][1] = "R"
           /\ "fmv_x_w" \in Meanings(d) <=> d.opcode = 20 /\ d.funct7 = 112 /\ d.funct3 = 0
                /\ d.rs2 = 0
           /\ "fclass_s" \in Meanings(d) <=> d.opcode = 20 /\ d.funct7 = 112 /\ d.funct3 = 1
                /\ d.rs2 = 0
           /\ "fmv_x_d" \in Meanings(d) <=> d.opcode = 20 /\ d.funct7 = 113 /\ d.funct3 = 0
                /\ d.rs2 = 0
           /\ "fclass_d" \in Meanings(d) <=> d.opcode = 20 /\ d.funct7 = 113 /\ d.funct3 = 1
                /\ d.rs2 = 0
<1>1. /\ Encoding["fmv_x_w"] = FpMove(112, 0) /\ Encoding["fclass_s"] = FpMove(112, 1)
      /\ Encoding["fmv_x_d"] = FpMove(113, 0)
  BY SMT DEF Encoding
<1>2. Encoding["fclass_d"] = FpMove(113, 1)
  BY SMT DEF Encoding
<1>3. FpMoveTo_types \subseteq DOMAIN Encoding
  BY SMT DEF FpMoveTo_types, Encoding
<1> QED BY <1>1, <1>2, <1>3, MeansFpMove, SMTT(30) DEF FpMoveTo_types

\* The decoder agrees.
LEMMA FpMoveTo_right ==
    ASSUME NEW d \in Word32, d.opcode = 20, d.funct7 \in {112, 113}, NEW i, NEW x,
         x = insn_decode(d, i),
           \A t \in Meanings(d) : t \in FpMoveTo_types
    PROVE  Right(d, x)
<1>1. \/ x = Dies /\ d.rs2 # 0
      \/ x = Dies /\ d.funct3 \notin {0, 1}
      \/ x = [insn_rtype_read(d) EXCEPT !.type = "fmv_x_w"] /\ d.funct7 = 112
           /\ d.funct3 = 0 /\ d.rs2 = 0
      \/ x = [insn_rtype_read(d) EXCEPT !.type = "fclass_s"] /\ d.funct7 = 112
           /\ d.funct3 = 1 /\ d.rs2 = 0
      \/ x = [insn_rtype_read(d) EXCEPT !.type = "fmv_x_d"] /\ d.funct7 = 113
           /\ d.funct3 = 0 /\ d.rs2 = 0
      \/ x = [insn_rtype_read(d) EXCEPT !.type = "fclass_d"] /\ d.funct7 = 113
           /\ d.funct3 = 1 /\ d.rs2 = 0
  BY IsWord, FieldTypes, SMT DEF insn_decode, op_fp, fp_move_convert, RS3, FUNCT2, Asserted,
       TypeAt
<1>2. ASSUME NEW t \in Meanings(d)
      PROVE  x = Meaning(d, t)
  <2>1. t \in FpMoveTo_types
    OBVIOUS
  <2>2. x = [insn_rtype_read(d) EXCEPT !.type = t]
    BY <1>1, <2>1, FpMoveTo_meanings, SMT DEF FpMoveTo_types
  <2>3. Encoding[t][1] = "R" /\ t \notin {"jal", "jalr"}
    BY <2>1, FpMoveTo_meanings, SMT DEF FpMoveTo_types
  <2> QED BY <2>2, <2>3, FormatR
<1>3. Meanings(d) = {} => x = Dies
  BY <1>1, FpMoveTo_meanings, SMT
<1> QED BY <1>2, <1>3, SMTT(30) DEF Right

\* Opcode 0x14, moves from an integer register: which words these encode.
LEMMA FpMoveFrom_meanings ==
    ASSUME NEW d \in Word32
    PROVE  /\ \A t \in FpMoveFrom_types : Encoding[t][1] = "R"
           /\ "fmv_w_x" \in Meanings(d) <=> d.opcode = 20 /\ d.funct7 = 120 /\ d.funct3 = 0
                /\ d.rs2 = 0
           /\ "fmv_d_x" \in Meanings(d) <=> d.opcode = 20 /\ d.funct7 = 121 /\ d.funct3 = 0
                /\ d.rs2 = 0
<1>1. /\ Encoding["fmv_w_x"] = FpMove(120, 0) /\ Encoding["fmv_d_x"] = FpMove(121, 0)
  BY SMT DEF Encoding
<1>2. FpMoveFrom_types \subseteq DOMAIN Encoding
  BY SMT DEF FpMoveFrom_types, Encoding
<1> QED BY <1>1, <1>2, MeansFpMove, SMT DEF FpMoveFrom_types

\* The decoder agrees.
LEMMA FpMoveFrom_right ==
    ASSUME NEW d \in Word32, d.opcode = 20, d.funct7 \in {120, 121}, NEW i, NEW x,
         x = insn_decode(d, i),
           \A t \in Meanings(d) : t \in FpMoveFrom_types
    PROVE  Right(d, x)
<1>1. \/ x = Dies /\ d.rs2 # 0
      \/ x = Dies /\ d.funct3 # 0
      \/ x = [insn_rtype_read(d) EXCEPT !.type = "fmv_w_x"] /\ d.funct7 = 120
           /\ d.funct3 = 0 /\ d.rs2 = 0
      \/ x = [insn_rtype_read(d) EXCEPT !.type = "fmv_d_x"] /\ d.funct7 = 121
           /\ d.funct3 = 0 /\ d.rs2 = 0
  BY IsWord, FieldTypes, SMTT(30) DEF insn_decode, op_fp, fp_move_convert, RS3, FUNCT2,
       Asserted, TypeAt
<1>2. ASSUME NEW t \in Meanings(d)
      PROVE  x = Meaning(d, t)
  <2>1. t \in FpMoveFrom_types
    OBVIOUS
  <2>2. x = [insn_rtype_read(d) EXCEPT !.type = t]
    BY <1>1, <2>1, FpMoveFrom_meanings, SMT DEF FpMoveFrom_types
  <2>3. Encoding[t][1] = "R" /\ t \notin {"jal", "jalr"}
    BY <2>1, FpMoveFrom_meanings, SMT DEF FpMoveFrom_types
  <2> QED BY <2>2, <2>3, FormatR
<1>3. Meanings(d) = {} => x = Dies
  BY <1>1, FpMoveFrom_meanings, SMT
<1> QED BY <1>2, <1>3, SMTT(30) DEF Right

\* Opcode 0x18, branches: which words these encode.
LEMMA Branch_meanings ==
    ASSUME NEW d \in Word32
    PROVE  /\ \A t \in Branch_types : Encoding[t][1] = "B"
           /\ "beq" \in Meanings(d) <=> d.opcode = 24 /\ d.funct3 = 0
           /\ "bne" \in Meanings(d) <=> d.opcode = 24 /\ d.funct3 = 1
           /\ "blt" \in Meanings(d) <=> d.opcode = 24 /\ d.funct3 = 4
           /\ "bge" \in Meanings(d) <=> d.opcode = 24 /\ d.funct3 = 5
           /\ "bltu" \in Meanings(d) <=> d.opcode = 24 /\ d.funct3 = 6
           /\ "bgeu" \in Meanings(d) <=> d.opcode = 24 /\ d.funct3 = 7
<1>1. /\ Encoding["beq"] = B(0) /\ Encoding["bne"] = B(1) /\ Encoding["blt"] = B(4)
  BY SMTT(30) DEF Encoding
<1>2. /\ Encoding["bge"] = B(5) /\ Encoding["bltu"] = B(6) /\ Encoding["bgeu"] = B(7)
  BY SMT DEF Encoding
<1>3. Branch_types \subseteq DOMAIN Encoding
  BY SMT DEF Branch_types, Encoding
<1> QED BY <1>1, <1>2, <1>3, MeansB, SMT DEF Branch_types

\* The decoder agrees.
LEMMA Branch_right ==
    ASSUME NEW d \in Word32, d.opcode = 24, NEW i, NEW x, x = insn_decode(d, i),
           \A t \in Meanings(d) : t \in Branch_types
    PROVE  Right(d, x)
<1>1. \/ x = Dies /\ d.funct3 \in {2, 3}
      \/ x = [insn_btype_read(d) EXCEPT !.type = "beq"] /\ d.funct3 = 0
      \/ x = [insn_btype_read(d) EXCEPT !.type = "bne"] /\ d.funct3 = 1
      \/ x = [insn_btype_read(d) EXCEPT !.type = "blt"] /\ d.funct3 = 4
      \/ x = [insn_btype_read(d) EXCEPT !.type = "bge"] /\ d.funct3 = 5
      \/ x = [insn_btype_read(d) EXCEPT !.type = "bltu"] /\ d.funct3 = 6
      \/ x = [insn_btype_read(d) EXCEPT !.type = "bgeu"] /\ d.funct3 = 7
  BY IsWord, FieldTypes, SMT DEF insn_decode, branches, X, TypeAt
<1>2. ASSUME NEW t \in Meanings(d)
      PROVE  x = Meaning(d, t)
  <2>1. t \in Branch_types
    OBVIOUS
  <2>2. x = [insn_btype_read(d) EXCEPT !.type = t]
    BY <1>1, <2>1, Branch_meanings, SMT DEF Branch_types
  <2>3. Encoding[t][1] = "B" /\ t \notin {"jal", "jalr"}
    BY <2>1, Branch_meanings, SMT DEF Branch_types
  <2> QED BY <2>2, <2>3, FormatB
<1>3. Meanings(d) = {} => x = Dies
  BY <1>1, Branch_meanings, SMT
<1> QED BY <1>2, <1>3 DEF Right

\* Opcode 0x19, jalr: which words these encode.
LEMMA Jalr_meanings ==
    ASSUME NEW d \in Word32
    PROVE  /\ \A t \in Jalr_types : Encoding[t][1] = "I"
           /\ "jalr" \in Meanings(d) <=> d.opcode = 25 /\ d.funct3 = 0
<1>1. Encoding["jalr"] = I(25, 0)
  BY SMT DEF Encoding
<1>2. Jalr_types \subseteq DOMAIN Encoding
  BY SMT DEF Jalr_types, Encoding
<1> QED BY <1>1, <1>2, MeansI, SMT DEF Jalr_types

\* Opcode 0x1b, jal: which words these encode.
LEMMA Jal_meanings ==
    ASSUME NEW d \in Word32
    PROVE  /\ \A t \in Jal_types : Encoding[t][1] = "J"
           /\ "jal" \in Meanings(d) <=> d.opcode = 27
<1>1. Encoding["jal"] = <<"J", 27, Any3, Any7, Any5>>
  BY SMT DEF Encoding
<1>2. Jal_types \subseteq DOMAIN Encoding
  BY SMT DEF Jal_types, Encoding
<1> QED BY <1>1, <1>2, MeansJ, SMTT(30) DEF Jal_types

\* Opcode 0x1c, the CSR instructions: which words these encode.
LEMMA Csr_meanings ==
    ASSUME NEW d \in Word32
    PROVE  /\ \A t \in Csr_types : Encoding[t][1] = "C"
           /\ "csrrw" \in Meanings(d) <=> d.opcode = 28 /\ d.funct3 = 1
           /\ "csrrs" \in Meanings(d) <=> d.opcode = 28 /\ d.funct3 = 2
           /\ "csrrc" \in Meanings(d) <=> d.opcode = 28 /\ d.funct3 = 3
           /\ "csrrwi" \in Meanings(d) <=> d.opcode = 28 /\ d.funct3 = 5
           /\ "csrrsi" \in Meanings(d) <=> d.opcode = 28 /\ d.funct3 = 6
           /\ "csrrci" \in Meanings(d) <=> d.opcode = 28 /\ d.funct3 = 7
<1>1. /\ Encoding["csrrw"] = Csr(1) /\ Encoding["csrrs"] = Csr(2) /\ Encoding["csrrc"] = Csr(3)
  BY SMTT(30) DEF Encoding
<1>2. /\ Encoding["csrrwi"] = Csr(5) /\ Encoding["csrrsi"] = Csr(6) /\ Encoding["csrrci"] = Csr(7)
  BY SMT DEF Encoding
<1>3. Csr_types \subseteq DOMAIN Encoding
  BY SMT DEF Csr_types, Encoding
<1> QED BY <1>1, <1>2, <1>3, MeansCsr, SMT DEF Csr_types

\* The decoder agrees.
LEMMA Csr_right ==
    ASSUME NEW d \in Word32, d.opcode = 28, ~IsEcall(d), NEW i, NEW x, x = insn_decode(d, i),
           \A t \in Meanings(d) : t \in Csr_types
    PROVE  Right(d, x)
<1>1. \/ x = Dies /\ d.funct3 \in {0, 4}
      \/ x = [insn_csrtype_read(d) EXCEPT !.type = "csrrw"] /\ d.funct3 = 1
      \/ x = [insn_csrtype_read(d) EXCEPT !.type = "csrrs"] /\ d.funct3 = 2
      \/ x = [insn_csrtype_read(d) EXCEPT !.type = "csrrc"] /\ d.funct3 = 3
      \/ x = [insn_csrtype_read(d) EXCEPT !.type = "csrrwi"] /\ d.funct3 = 5
      \/ x = [insn_csrtype_read(d) EXCEPT !.type = "csrrsi"] /\ d.funct3 = 6
      \/ x = [insn_csrtype_read(d) EXCEPT !.type = "csrrci"] /\ d.funct3 = 7
  BY IsWord, FieldTypes, SMT DEF insn_decode, system, X, TypeAt, IsEcall
<1>2. ASSUME NEW t \in Meanings(d)
      PROVE  x = Meaning(d, t)
  <2>1. t \in Csr_types
    OBVIOUS
  <2>2. x = [insn_csrtype_read(d) EXCEPT !.type = t]
    BY <1>1, <2>1, Csr_meanings, SMT DEF Csr_types
  <2>3. Encoding[t][1] = "C" /\ t \notin {"jal", "jalr"}
    BY <2>1, Csr_meanings, SMT DEF Csr_types
  <2> QED BY <2>2, <2>3, FormatC
<1>3. Meanings(d) = {} => x = Dies
  BY <1>1, Csr_meanings, SMTT(30)
<1> QED BY <1>2, <1>3 DEF Right

\* Every instruction is in one of the families.
LEMMA AllTypes ==
    ASSUME NEW t \in DOMAIN Encoding
    PROVE  \/ t \in Load_types \/ t \in FpLoad_types \/ t \in Fence_types \/ t \in OpImm_types
           \/ t \in Auipc_types \/ t \in OpImm32_types \/ t \in Store_types
           \/ t \in FpStore_types \/ t \in OpBase_types \/ t \in OpMul_types
           \/ t \in OpAlt_types \/ t \in Lui_types \/ t \in Op32_types \/ t \in Fmadd_types
           \/ t \in Fmsub_types \/ t \in Fnmsub_types \/ t \in Fnmadd_types \/ t \in FpAdd_types
           \/ t \in FpMul_types \/ t \in FpSign_types \/ t \in FpMinMax_types
           \/ t \in FpPrecision_types \/ t \in FpSqrt_types \/ t \in FpCompare_types
           \/ t \in FpToInt_types \/ t \in FpFromInt_types \/ t \in FpMoveTo_types
           \/ t \in FpMoveFrom_types \/ t \in Branch_types \/ t \in Jalr_types
           \/ t \in Jal_types \/ t \in Csr_types
  BY SMT DEF Encoding, Load_types, FpLoad_types, Fence_types, OpImm_types, Auipc_types,
    OpImm32_types, Store_types, FpStore_types, OpBase_types, OpMul_types, OpAlt_types,
    Lui_types, Op32_types, Fmadd_types, Fmsub_types, Fnmsub_types, Fnmadd_types, FpAdd_types,
    FpMul_types, FpSign_types, FpMinMax_types, FpPrecision_types, FpSqrt_types, FpCompare_types,
    FpToInt_types, FpFromInt_types, FpMoveTo_types, FpMoveFrom_types, Branch_types, Jalr_types,
    Jal_types, Csr_types

\* The opcode, and funct7 where it matters, of each family.
LEMMA Families ==
    ASSUME NEW d \in Word32, NEW t \in Meanings(d)
    PROVE  \/ t \in Load_types /\ d.opcode = 0
           \/ t \in FpLoad_types /\ d.opcode = 1
           \/ t \in Fence_types /\ d.opcode = 3
           \/ t \in OpImm_types /\ d.opcode = 4
           \/ t \in Auipc_types /\ d.opcode = 5
           \/ t \in OpImm32_types /\ d.opcode = 6
           \/ t \in Store_types /\ d.opcode = 8
           \/ t \in FpStore_types /\ d.opcode = 9
           \/ t \in OpBase_types /\ d.opcode = 12 /\ d.funct7 = 0
           \/ t \in OpMul_types /\ d.opcode = 12 /\ d.funct7 = 1
           \/ t \in OpAlt_types /\ d.opcode = 12 /\ d.funct7 = 32
           \/ t \in Lui_types /\ d.opcode = 13
           \/ t \in Op32_types /\ d.opcode = 14
           \/ t \in Fmadd_types /\ d.opcode = 16
           \/ t \in Fmsub_types /\ d.opcode = 17
           \/ t \in Fnmsub_types /\ d.opcode = 18
           \/ t \in Fnmadd_types /\ d.opcode = 19
           \/ t \in FpAdd_types /\ d.opcode = 20 /\ d.funct7 \in {0, 1, 4, 5}
           \/ t \in FpMul_types /\ d.opcode = 20 /\ d.funct7 \in {8, 9, 12, 13}
           \/ t \in FpSign_types /\ d.opcode = 20 /\ d.funct7 \in {16, 17}
           \/ t \in FpMinMax_types /\ d.opcode = 20 /\ d.funct7 \in {20, 21}
           \/ t \in FpPrecision_types /\ d.opcode = 20 /\ d.funct7 \in {32, 33}
           \/ t \in FpSqrt_types /\ d.opcode = 20 /\ d.funct7 \in {44, 45}
           \/ t \in FpCompare_types /\ d.opcode = 20 /\ d.funct7 \in {80, 81}
           \/ t \in FpToInt_types /\ d.opcode = 20 /\ d.funct7 \in {96, 97}
           \/ t \in FpFromInt_types /\ d.opcode = 20 /\ d.funct7 \in {104, 105}
           \/ t \in FpMoveTo_types /\ d.opcode = 20 /\ d.funct7 \in {112, 113}
           \/ t \in FpMoveFrom_types /\ d.opcode = 20 /\ d.funct7 \in {120, 121}
           \/ t \in Branch_types /\ d.opcode = 24
           \/ t \in Jalr_types /\ d.opcode = 25
           \/ t \in Jal_types /\ d.opcode = 27
           \/ t \in Csr_types /\ d.opcode = 28
<1>1. t \in DOMAIN Encoding
  BY DEF Meanings
<1>2. t \in Load_types => d.opcode = 0
  BY Load_meanings, SMT DEF Load_types
<1>3. t \in FpLoad_types => d.opcode = 1
  BY FpLoad_meanings, SMT DEF FpLoad_types
<1>4. t \in Fence_types => d.opcode = 3
  BY Fence_meanings, SMT DEF Fence_types
<1>5. t \in OpImm_types => d.opcode = 4
  BY OpImm_meanings, SMT DEF OpImm_types
<1>6. t \in Auipc_types => d.opcode = 5
  BY Auipc_meanings, SMT DEF Auipc_types
<1>7. t \in OpImm32_types => d.opcode = 6
  BY OpImm32_meanings, SMT DEF OpImm32_types
<1>8. t \in Store_types => d.opcode = 8
  BY Store_meanings, SMT DEF Store_types
<1>9. t \in FpStore_types => d.opcode = 9
  BY FpStore_meanings, SMT DEF FpStore_types
<1>10. t \in OpBase_types => d.opcode = 12 /\ d.funct7 = 0
  BY OpBase_meanings, SMT DEF OpBase_types
<1>11. t \in OpMul_types => d.opcode = 12 /\ d.funct7 = 1
  BY OpMul_meanings, SMT DEF OpMul_types
<1>12. t \in OpAlt_types => d.opcode = 12 /\ d.funct7 = 32
  BY OpAlt_meanings, SMT DEF OpAlt_types
<1>13. t \in Lui_types => d.opcode = 13
  BY Lui_meanings, SMT DEF Lui_types
<1>14. t \in Op32_types => d.opcode = 14
  BY Op32_meanings, SMT DEF Op32_types
<1>15. t \in Fmadd_types => d.opcode = 16
  BY Fmadd_meanings, SMT DEF Fmadd_types
<1>16. t \in Fmsub_types => d.opcode = 17
  BY Fmsub_meanings, SMT DEF Fmsub_types
<1>17. t \in Fnmsub_types => d.opcode = 18
  BY Fnmsub_meanings, SMT DEF Fnmsub_types
<1>18. t \in Fnmadd_types => d.opcode = 19
  BY Fnmadd_meanings, SMT DEF Fnmadd_types
<1>19. t \in FpAdd_types => d.opcode = 20 /\ d.funct7 \in {0, 1, 4, 5}
  BY FpAdd_meanings, SMT DEF FpAdd_types
<1>20. t \in FpMul_types => d.opcode = 20 /\ d.funct7 \in {8, 9, 12, 13}
  BY FpMul_meanings, SMT DEF FpMul_types
<1>21. t \in FpSign_types => d.opcode = 20 /\ d.funct7 \in {16, 17}
  BY FpSign_meanings, SMT DEF FpSign_types
<1>22. t \in FpMinMax_types => d.opcode = 20 /\ d.funct7 \in {20, 21}
  BY FpMinMax_meanings, SMT DEF FpMinMax_types
<1>23. t \in FpPrecision_types => d.opcode = 20 /\ d.funct7 \in {32, 33}
  BY FpPrecision_meanings, SMT DEF FpPrecision_types
<1>24. t \in FpSqrt_types => d.opcode = 20 /\ d.funct7 \in {44, 45}
  BY FpSqrt_meanings, SMT DEF FpSqrt_types
<1>25. t \in FpCompare_types => d.opcode = 20 /\ d.funct7 \in {80, 81}
  BY FpCompare_meanings, SMT DEF FpCompare_types
<1>26. t \in FpToInt_types => d.opcode = 20 /\ d.funct7 \in {96, 97}
  BY FpToInt_meanings, SMT DEF FpToInt_types
<1>27. t \in FpFromInt_types => d.opcode = 20 /\ d.funct7 \in {104, 105}
  BY FpFromInt_meanings, SMT DEF FpFromInt_types
<1>28. t \in FpMoveTo_types => d.opcode = 20 /\ d.funct7 \in {112, 113}
  BY FpMoveTo_meanings, SMT DEF FpMoveTo_types
<1>29. t \in FpMoveFrom_types => d.opcode = 20 /\ d.funct7 \in {120, 121}
  BY FpMoveFrom_meanings, SMT DEF FpMoveFrom_types
<1>30. t \in Branch_types => d.opcode = 24
  BY Branch_meanings, SMT DEF Branch_types
<1>31. t \in Jalr_types => d.opcode = 25
  BY Jalr_meanings, SMT DEF Jalr_types
<1>32. t \in Jal_types => d.opcode = 27
  BY Jal_meanings, SMT DEF Jal_types
<1>33. t \in Csr_types => d.opcode = 28
  BY Csr_meanings, SMT DEF Csr_types
<1> QED BY <1>1, <1>2, <1>3, <1>4, <1>5, <1>6, <1>7, <1>8, <1>9, <1>10, <1>11, <1>12, <1>13,
  <1>14, <1>15, <1>16, <1>17, <1>18, <1>19, <1>20, <1>21, <1>22, <1>23, <1>24, <1>25, <1>26,
  <1>27, <1>28, <1>29, <1>30, <1>31, <1>32, <1>33, AllTypes

\* Every word but ecall and jalr: one instruction, or none and the emulator
\* ends.
LEMMA Word_right ==
    ASSUME NEW d \in Word32, ~IsEcall(d), d.opcode # 25,
           NEW i, NEW x, x = insn_decode(d, i)
    PROVE  Right(d, x)
<1>1. CASE d.opcode = 0
  <2>1. \A t \in Meanings(d) : t \in Load_types
    BY <1>1, Families
  <2> QED BY <1>1, <2>1, Load_right
<1>2. CASE d.opcode = 1
  <2>1. \A t \in Meanings(d) : t \in FpLoad_types
    BY <1>2, Families
  <2> QED BY <1>2, <2>1, FpLoad_right
<1>3. CASE d.opcode = 3
  <2>1. \A t \in Meanings(d) : t \in Fence_types
    BY <1>3, Families
  <2> QED BY <1>3, <2>1, Fence_right
<1>4. CASE d.opcode = 4
  <2>1. \A t \in Meanings(d) : t \in OpImm_types
    BY <1>4, Families
  <2> QED BY <1>4, <2>1, OpImm_right
<1>5. CASE d.opcode = 5
  <2>1. \A t \in Meanings(d) : t \in Auipc_types
    BY <1>5, Families
  <2> QED BY <1>5, <2>1, Auipc_right
<1>6. CASE d.opcode = 6
  <2>1. \A t \in Meanings(d) : t \in OpImm32_types
    BY <1>6, Families
  <2> QED BY <1>6, <2>1, OpImm32_right
<1>7. CASE d.opcode = 8
  <2>1. \A t \in Meanings(d) : t \in Store_types
    BY <1>7, Families
  <2> QED BY <1>7, <2>1, Store_right
<1>8. CASE d.opcode = 9
  <2>1. \A t \in Meanings(d) : t \in FpStore_types
    BY <1>8, Families
  <2> QED BY <1>8, <2>1, FpStore_right
<1>9. CASE d.opcode = 12
  <2>1. CASE d.funct7 = 0
    <3>1. \A t \in Meanings(d) : t \in OpBase_types
      BY <1>9, <2>1, Families, SMT
    <3> QED BY <1>9, <2>1, <3>1, OpBase_right
  <2>2. CASE d.funct7 = 1
    <3>1. \A t \in Meanings(d) : t \in OpMul_types
      BY <1>9, <2>2, Families, SMT
    <3> QED BY <1>9, <2>2, <3>1, OpMul_right
  <2>3. CASE d.funct7 = 32
    <3>1. \A t \in Meanings(d) : t \in OpAlt_types
      BY <1>9, <2>3, Families, SMT
    <3> QED BY <1>9, <2>3, <3>1, OpAlt_right
  <2>4. CASE d.funct7 \notin {0, 1, 32}
    <3>1. Meanings(d) = {}
      BY <1>9, <2>4, Families, SMT
    <3>2. x = Dies
      BY <1>9, <2>4, IsWord, FieldTypes, SMT DEF insn_decode, op, TypeAt
    <3> QED BY <3>1, <3>2 DEF Right
  <2> QED BY <2>1, <2>2, <2>3, <2>4
<1>10. CASE d.opcode = 13
  <2>1. \A t \in Meanings(d) : t \in Lui_types
    BY <1>10, Families
  <2> QED BY <1>10, <2>1, Lui_right
<1>11. CASE d.opcode = 14
  <2>1. \A t \in Meanings(d) : t \in Op32_types
    BY <1>11, Families
  <2> QED BY <1>11, <2>1, Op32_right
<1>12. CASE d.opcode = 16
  <2>1. \A t \in Meanings(d) : t \in Fmadd_types
    BY <1>12, Families
  <2> QED BY <1>12, <2>1, Fmadd_right
<1>13. CASE d.opcode = 17
  <2>1. \A t \in Meanings(d) : t \in Fmsub_types
    BY <1>13, Families
  <2> QED BY <1>13, <2>1, Fmsub_right
<1>14. CASE d.opcode = 18
  <2>1. \A t \in Meanings(d) : t \in Fnmsub_types
    BY <1>14, Families
  <2> QED BY <1>14, <2>1, Fnmsub_right
<1>15. CASE d.opcode = 19
  <2>1. \A t \in Meanings(d) : t \in Fnmadd_types
    BY <1>15, Families
  <2> QED BY <1>15, <2>1, Fnmadd_right
<1>16. CASE d.opcode = 20
  <2>1. CASE d.funct7 \in {0, 1, 4, 5}
    <3>1. \A t \in Meanings(d) : t \in FpAdd_types
      BY <1>16, <2>1, Families, SMT
    <3> QED BY <1>16, <2>1, <3>1, FpAdd_right
  <2>2. CASE d.funct7 \in {8, 9, 12, 13}
    <3>1. \A t \in Meanings(d) : t \in FpMul_types
      BY <1>16, <2>2, Families, SMT
    <3> QED BY <1>16, <2>2, <3>1, FpMul_right
  <2>3. CASE d.funct7 \in {16, 17}
    <3>1. \A t \in Meanings(d) : t \in FpSign_types
      BY <1>16, <2>3, Families, SMT
    <3> QED BY <1>16, <2>3, <3>1, FpSign_right
  <2>4. CASE d.funct7 \in {20, 21}
    <3>1. \A t \in Meanings(d) : t \in FpMinMax_types
      BY <1>16, <2>4, Families, SMTT(30)
    <3> QED BY <1>16, <2>4, <3>1, FpMinMax_right
  <2>5. CASE d.funct7 \in {32, 33}
    <3>1. \A t \in Meanings(d) : t \in FpPrecision_types
      BY <1>16, <2>5, Families, SMT
    <3> QED BY <1>16, <2>5, <3>1, FpPrecision_right
  <2>6. CASE d.funct7 \in {44, 45}
    <3>1. \A t \in Meanings(d) : t \in FpSqrt_types
      BY <1>16, <2>6, Families, SMT
    <3> QED BY <1>16, <2>6, <3>1, FpSqrt_right
  <2>7. CASE d.funct7 \in {80, 81}
    <3>1. \A t \in Meanings(d) : t \in FpCompare_types
      BY <1>16, <2>7, Families, SMT
    <3> QED BY <1>16, <2>7, <3>1, FpCompare_right
  <2>8. CASE d.funct7 \in {96, 97}
    <3>1. \A t \in Meanings(d) : t \in FpToInt_types
      BY <1>16, <2>8, Families, SMT
    <3> QED BY <1>16, <2>8, <3>1, FpToInt_right
  <2>9. CASE d.funct7 \in {104, 105}
    <3>1. \A t \in Meanings(d) : t \in FpFromInt_types
      BY <1>16, <2>9, Families, SMT
    <3> QED BY <1>16, <2>9, <3>1, FpFromInt_right
  <2>10. CASE d.funct7 \in {112, 113}
    <3>1. \A t \in Meanings(d) : t \in FpMoveTo_types
      BY <1>16, <2>10, Families, SMT
    <3> QED BY <1>16, <2>10, <3>1, FpMoveTo_right
  <2>11. CASE d.funct7 \in {120, 121}
    <3>1. \A t \in Meanings(d) : t \in FpMoveFrom_types
      BY <1>16, <2>11, Families, SMT
    <3> QED BY <1>16, <2>11, <3>1, FpMoveFrom_right
  <2>12. CASE d.funct7 \notin {0, 1, 4, 5, 8, 9, 12, 13, 16, 17, 20, 21, 32, 33, 44, 45, 80,
       81, 96, 97, 104,
                   105, 112, 113, 120, 121}
    <3>1. Meanings(d) = {}
      BY <1>16, <2>12, Families, SMT
    <3>2. x = Dies
      BY <1>16, <2>12, IsWord, FieldTypes, SMT DEF insn_decode, op_fp, RS3, FUNCT2
    <3> QED BY <3>1, <3>2 DEF Right
  <2> QED BY <2>1, <2>2, <2>3, <2>4, <2>5, <2>6, <2>7, <2>8, <2>9, <2>10, <2>11, <2>12
<1>17. CASE d.opcode = 24
  <2>1. \A t \in Meanings(d) : t \in Branch_types
    BY <1>17, Families
  <2> QED BY <1>17, <2>1, Branch_right
<1>18. CASE d.opcode = 27
  <2>1. x = [insn_jtype_read(d) EXCEPT !.type = "jal", !.cont = TRUE]
    BY <1>18, IsWord DEF insn_decode
  <2>2. x = Meaning(d, "jal")
    BY <2>1, FormatJal, Zenon
  <2>3. \A t \in Meanings(d) : t \in Jal_types
    BY <1>18, Families
  <2>4. "jal" \in Meanings(d)
    BY <1>18, Jal_meanings
  <2> QED BY <2>2, <2>3, <2>4 DEF Right, Jal_types
<1>19. CASE d.opcode = 28
  <2>1. \A t \in Meanings(d) : t \in Csr_types
    BY <1>19, Families
  <2> QED BY <1>19, <2>1, Csr_right
<1>20. CASE d.opcode \in {2, 7, 10, 11, 15, 21, 22, 23, 26, 29, 30, 31}
  <2>1. Meanings(d) = {}
    BY <1>20, Families, SMT
  <2>2. x = Dies
    BY <1>20, IsWord, SMT DEF insn_decode
  <2> QED BY <2>1, <2>2 DEF Right
<1> QED BY <1>1, <1>2, <1>3, <1>4, <1>5, <1>6, <1>7, <1>8, <1>9, <1>10, <1>11, <1>12, <1>13,
  <1>14, <1>15, <1>16, <1>17, <1>18, <1>19, <1>20, FieldTypes, SMT

\* Decodes32, of a word and what insn_decode makes of it.
\* Decodes32 of a word and an instruction.
RightWord(d, x) ==
    CASE IsEcall(d) -> x.type = "ecall" /\ x.cont
      [] ~IsEcall(d) /\ Meanings(d) # {} -> \A t \in Meanings(d) : x = Meaning(d, t)
      [] OTHER -> x = IF d.opcode = 25 THEN Meaning(d, "jalr") ELSE Dies

\* insn_decode gives every 32-bit word the instruction it encodes, whatever insn
\* held before.
LEMMA Decodes_word ==
    ASSUME NEW d \in Word32, NEW i \in {Zero, Stale}, NEW x, x = insn_decode(d, i)
    PROVE  RightWord(d, x)
<1>1. CASE IsEcall(d)
  <2>1. x = [i EXCEPT !.type = "ecall", !.cont = TRUE]
    BY <1>1, IsWord DEF insn_decode, system, IsEcall
  <2>2. x.type = "ecall" /\ x.cont
    BY <2>1 DEF Zero, Stale
  <2> QED BY <1>1, <2>2 DEF RightWord
<1>2. CASE ~IsEcall(d) /\ d.opcode = 25
  <2>1. x = [insn_itype_read(d) EXCEPT !.type = "jalr", !.cont = TRUE]
    BY <1>2, IsWord DEF insn_decode
  <2>2. x = Meaning(d, "jalr")
    BY <2>1, FormatJalr, Zenon
  <2>3. \A t \in Meanings(d) : t = "jalr"
    BY <1>2, Families, SMT DEF Jalr_types
  <2> QED BY <1>2, <2>2, <2>3 DEF RightWord
<1>3. CASE ~IsEcall(d) /\ d.opcode # 25
  BY <1>3, Word_right DEF RightWord, Right
<1> QED BY <1>1, <1>2, <1>3
-----------------------------------------------------------------------------
(***************************************************************************)
(* Compressed words: a field of several bits is the sum of its bits, and a *)
(* reader puts them at the weights of the layout.                          *)
(***************************************************************************)

\* The low bits of a number are the sum of its bits.
LEMMA Split2 ==
    ASSUME NEW q \in Nat
    PROVE  q % 4 = (q % 2) + 2 * ((q \div 2) % 2)
  OBVIOUS

\* The same for 3 bits.
LEMMA Split3 ==
    ASSUME NEW q \in Nat
    PROVE  q % 8 = (q % 2) + 2 * ((q \div 2) % 2) + 4 * ((q \div 4) % 2)
  OBVIOUS

\* The same for 4 bits.
LEMMA Split4 ==
    ASSUME NEW q \in Nat
    PROVE  q % 16 = (q % 2) + 2 * ((q \div 2) % 2) + 4 * ((q \div 4) % 2) + 8 * ((q \div 8) % 2)
  OBVIOUS

\* The same for 5 bits.
LEMMA Split5 ==
    ASSUME NEW q \in Nat
    PROVE  q % 32 = (q % 2) + 2 * ((q \div 2) % 2) + 4 * ((q \div 4) % 2) + 8 * ((q \div 8) % 2)
             + 16 * ((q \div 16) % 2)
  OBVIOUS

\* A quotient halved is the quotient by twice as much.
LEMMA Quotients2 ==
    ASSUME NEW d \in Nat
    PROVE  /\ d \div 4 \in Nat /\ (d \div 4) \div 2 = d \div 8 /\ (d \div 4) \div 4 = d \div 16
           /\ (d \div 4) \div 8 = d \div 32 /\ (d \div 4) \div 16 = d \div 64
  OBVIOUS

\* From bit 3 on.
LEMMA Quotients3 ==
    ASSUME NEW d \in Nat
    PROVE  /\ d \div 8 \in Nat /\ (d \div 8) \div 2 = d \div 16 /\ (d \div 8) \div 4 = d \div 32
  OBVIOUS

\* From bit 4 on.
LEMMA Quotients4 ==
    ASSUME NEW d \in Nat
    PROVE  /\ d \div 16 \in Nat /\ (d \div 16) \div 2 = d \div 32
         /\ (d \div 16) \div 4 = d \div 64
  OBVIOUS

\* From bit 5 on.
LEMMA Quotients5 ==
    ASSUME NEW d \in Nat
    PROVE  /\ d \div 32 \in Nat /\ (d \div 32) \div 2 = d \div 64
  OBVIOUS

\* From bit 7 on.
LEMMA Quotients7 ==
    ASSUME NEW d \in Nat
    PROVE  /\ d \div 128 \in Nat /\ (d \div 128) \div 2 = d \div 256
         /\ (d \div 128) \div 4 = d \div 512
           /\ (d \div 128) \div 8 = d \div 1024 /\ (d \div 128) \div 16 = d \div 2048
  OBVIOUS

\* From bit 9 on.
LEMMA Quotients9 ==
    ASSUME NEW d \in Nat
    PROVE  /\ d \div 512 \in Nat /\ (d \div 512) \div 2 = d \div 1024
         /\ (d \div 512) \div 4 = d \div 2048
           /\ (d \div 512) \div 8 = d \div 4096
  OBVIOUS

\* From bit 10 on.
LEMMA Quotients10 ==
    ASSUME NEW d \in Nat
    PROVE  /\ d \div 1024 \in Nat /\ (d \div 1024) \div 2 = d \div 2048
           /\ (d \div 1024) \div 4 = d \div 4096
  OBVIOUS

\* From bit 11 on.
LEMMA Quotients11 ==
    ASSUME NEW d \in Nat
    PROVE  /\ d \div 2048 \in Nat /\ (d \div 2048) \div 2 = d \div 4096
  OBVIOUS

\* From bit 13 on.
LEMMA Quotients13 ==
    ASSUME NEW d \in Nat
    PROVE  /\ d \div 8192 \in Nat /\ (d \div 8192) \div 2 = d \div 16384
           /\ (d \div 8192) \div 4 = d \div 32768
  OBVIOUS

\* A field of a compressed word is the sum of its bits.
LEMMA HalfBits ==
    ASSUME NEW d \in Nat
    PROVE  /\ \A k \in 0 .. 15 : Field(d, k, 1) \in 0 .. 1
           /\ Field(d, 0, 2) = Field(d, 0, 1) + 2 * Field(d, 1, 1)
           /\ Field(d, 2, 2) = Field(d, 2, 1) + 2 * Field(d, 3, 1)
           /\ Field(d, 2, 3) = Field(d, 2, 1) + 2 * Field(d, 3, 1) + 4 * Field(d, 4, 1)
           /\ Field(d, 2, 5) = Field(d, 2, 1) + 2 * Field(d, 3, 1) + 4 * Field(d, 4, 1)
                   + 8 * Field(d, 5, 1) + 16 * Field(d, 6, 1)
           /\ Field(d, 3, 2) = Field(d, 3, 1) + 2 * Field(d, 4, 1)
           /\ Field(d, 3, 3) = Field(d, 3, 1) + 2 * Field(d, 4, 1) + 4 * Field(d, 5, 1)
           /\ Field(d, 4, 3) = Field(d, 4, 1) + 2 * Field(d, 5, 1) + 4 * Field(d, 6, 1)
           /\ Field(d, 5, 2) = Field(d, 5, 1) + 2 * Field(d, 6, 1)
           /\ Field(d, 7, 2) = Field(d, 7, 1) + 2 * Field(d, 8, 1)
           /\ Field(d, 7, 3) = Field(d, 7, 1) + 2 * Field(d, 8, 1) + 4 * Field(d, 9, 1)
           /\ Field(d, 7, 4) = Field(d, 7, 1) + 2 * Field(d, 8, 1) + 4 * Field(d, 9, 1)
                   + 8 * Field(d, 10, 1)
           /\ Field(d, 7, 5) = Field(d, 7, 1) + 2 * Field(d, 8, 1) + 4 * Field(d, 9, 1)
                   + 8 * Field(d, 10, 1) + 16 * Field(d, 11, 1)
           /\ Field(d, 9, 2) = Field(d, 9, 1) + 2 * Field(d, 10, 1)
           /\ Field(d, 9, 4) = Field(d, 9, 1) + 2 * Field(d, 10, 1) + 4 * Field(d, 11, 1)
                   + 8 * Field(d, 12, 1)
           /\ Field(d, 10, 2) = Field(d, 10, 1) + 2 * Field(d, 11, 1)
           /\ Field(d, 10, 3) = Field(d, 10, 1) + 2 * Field(d, 11, 1) + 4 * Field(d, 12, 1)
           /\ Field(d, 11, 2) = Field(d, 11, 1) + 2 * Field(d, 12, 1)
           /\ Field(d, 13, 3) = Field(d, 13, 1) + 2 * Field(d, 14, 1) + 4 * Field(d, 15, 1)
<1>1. \A k \in 0 .. 15 : Field(d, k, 1) \in 0 .. 1
  <2>1. Field(d, 0, 1) \in 0 .. 1
    BY SMT DEF Field
  <2>2. Field(d, 1, 1) \in 0 .. 1
    BY SMT DEF Field
  <2>3. Field(d, 2, 1) \in 0 .. 1
    BY SMT DEF Field
  <2>4. Field(d, 3, 1) \in 0 .. 1
    BY SMT DEF Field
  <2>5. Field(d, 4, 1) \in 0 .. 1
    BY SMT DEF Field
  <2>6. Field(d, 5, 1) \in 0 .. 1
    BY SMT DEF Field
  <2>7. Field(d, 6, 1) \in 0 .. 1
    BY SMT DEF Field
  <2>8. Field(d, 7, 1) \in 0 .. 1
    BY SMT DEF Field
  <2>9. Field(d, 8, 1) \in 0 .. 1
    BY SMT DEF Field
  <2>10. Field(d, 9, 1) \in 0 .. 1
    BY SMT DEF Field
  <2>11. Field(d, 10, 1) \in 0 .. 1
    BY SMT DEF Field
  <2>12. Field(d, 11, 1) \in 0 .. 1
    BY SMT DEF Field
  <2>13. Field(d, 12, 1) \in 0 .. 1
    BY SMT DEF Field
  <2>14. Field(d, 13, 1) \in 0 .. 1
    BY SMT DEF Field
  <2>15. Field(d, 14, 1) \in 0 .. 1
    BY SMT DEF Field
  <2>16. Field(d, 15, 1) \in 0 .. 1
    BY SMT DEF Field
  <2> QED BY <2>1, <2>2, <2>3, <2>4, <2>5, <2>6, <2>7, <2>8, <2>9, <2>10, <2>11, <2>12, <2>13,
    <2>14, <2>15, <2>16, SMT
<1>2. Field(d, 0, 2) = Field(d, 0, 1) + 2 * Field(d, 1, 1)
  <2>1. /\ Field(d, 0, 2) = d % 4 /\ Field(d, 0, 1) = d % 2 /\ Field(d, 1, 1) = (d \div 2) % 2
    BY SMT DEF Field
  <2>2. PICK q \in Nat : q = d
    OBVIOUS
  <2>4. /\ Field(d, 0, 2) = q % 4 /\ Field(d, 0, 1) = q % 2 /\ Field(d, 1, 1) = (q \div 2) % 2
    BY <2>1, <2>2
  <2> QED BY <2>4, Split2, Zenon
<1>3. Field(d, 2, 2) = Field(d, 2, 1) + 2 * Field(d, 3, 1)
  <2>1. /\ Field(d, 2, 2) = (d \div 4) % 4 /\ Field(d, 2, 1) = (d \div 4) % 2
        /\ Field(d, 3, 1) = (d \div 8) % 2
    BY SMT DEF Field
  <2>2. PICK q \in Nat : q = d \div 4
    BY Quotients2
  <2>3. q \div 2 = d \div 8
    BY <2>2, Quotients2
  <2>4. /\ Field(d, 2, 2) = q % 4 /\ Field(d, 2, 1) = q % 2 /\ Field(d, 3, 1) = (q \div 2) % 2
    BY <2>1, <2>2, <2>3
  <2> QED BY <2>4, Split2, Zenon
<1>4. Field(d, 2, 3) = Field(d, 2, 1) + 2 * Field(d, 3, 1) + 4 * Field(d, 4, 1)
  <2>1. /\ Field(d, 2, 3) = (d \div 4) % 8 /\ Field(d, 2, 1) = (d \div 4) % 2
        /\ Field(d, 3, 1) = (d \div 8) % 2 /\ Field(d, 4, 1) = (d \div 16) % 2
    BY SMT DEF Field
  <2>2. PICK q \in Nat : q = d \div 4
    BY Quotients2
  <2>3. /\ q \div 2 = d \div 8 /\ q \div 4 = d \div 16
    BY <2>2, Quotients2
  <2>4. /\ Field(d, 2, 3) = q % 8 /\ Field(d, 2, 1) = q % 2 /\ Field(d, 3, 1) = (q \div 2) % 2
        /\ Field(d, 4, 1) = (q \div 4) % 2
    BY <2>1, <2>2, <2>3
  <2> QED BY <2>4, Split3, Zenon
<1>5. Field(d, 2, 5) = Field(d, 2, 1) + 2 * Field(d, 3, 1) + 4 * Field(d, 4, 1)
              + 8 * Field(d, 5, 1) + 16 * Field(d, 6, 1)
  <2>1. /\ Field(d, 2, 5) = (d \div 4) % 32 /\ Field(d, 2, 1) = (d \div 4) % 2
        /\ Field(d, 3, 1) = (d \div 8) % 2 /\ Field(d, 4, 1) = (d \div 16) % 2
        /\ Field(d, 5, 1) = (d \div 32) % 2 /\ Field(d, 6, 1) = (d \div 64) % 2
    BY SMT DEF Field
  <2>2. PICK q \in Nat : q = d \div 4
    BY Quotients2
  <2>3. /\ q \div 2 = d \div 8 /\ q \div 4 = d \div 16 /\ q \div 8 = d \div 32
       /\ q \div 16 = d \div 64
    BY <2>2, Quotients2
  <2>4. /\ Field(d, 2, 5) = q % 32 /\ Field(d, 2, 1) = q % 2 /\ Field(d, 3, 1) = (q \div 2) % 2
        /\ Field(d, 4, 1) = (q \div 4) % 2 /\ Field(d, 5, 1) = (q \div 8) % 2
        /\ Field(d, 6, 1) = (q \div 16) % 2
    BY <2>1, <2>2, <2>3
  <2> QED BY <2>4, Split5, Zenon
<1>6. Field(d, 3, 2) = Field(d, 3, 1) + 2 * Field(d, 4, 1)
  <2>1. /\ Field(d, 3, 2) = (d \div 8) % 4 /\ Field(d, 3, 1) = (d \div 8) % 2
        /\ Field(d, 4, 1) = (d \div 16) % 2
    BY SMT DEF Field
  <2>2. PICK q \in Nat : q = d \div 8
    BY Quotients3
  <2>3. q \div 2 = d \div 16
    BY <2>2, Quotients3
  <2>4. /\ Field(d, 3, 2) = q % 4 /\ Field(d, 3, 1) = q % 2 /\ Field(d, 4, 1) = (q \div 2) % 2
    BY <2>1, <2>2, <2>3
  <2> QED BY <2>4, Split2, Zenon
<1>7. Field(d, 3, 3) = Field(d, 3, 1) + 2 * Field(d, 4, 1) + 4 * Field(d, 5, 1)
  <2>1. /\ Field(d, 3, 3) = (d \div 8) % 8 /\ Field(d, 3, 1) = (d \div 8) % 2
        /\ Field(d, 4, 1) = (d \div 16) % 2 /\ Field(d, 5, 1) = (d \div 32) % 2
    BY SMT DEF Field
  <2>2. PICK q \in Nat : q = d \div 8
    BY Quotients3
  <2>3. /\ q \div 2 = d \div 16 /\ q \div 4 = d \div 32
    BY <2>2, Quotients3
  <2>4. /\ Field(d, 3, 3) = q % 8 /\ Field(d, 3, 1) = q % 2 /\ Field(d, 4, 1) = (q \div 2) % 2
        /\ Field(d, 5, 1) = (q \div 4) % 2
    BY <2>1, <2>2, <2>3
  <2> QED BY <2>4, Split3, Zenon
<1>8. Field(d, 4, 3) = Field(d, 4, 1) + 2 * Field(d, 5, 1) + 4 * Field(d, 6, 1)
  <2>1. /\ Field(d, 4, 3) = (d \div 16) % 8 /\ Field(d, 4, 1) = (d \div 16) % 2
        /\ Field(d, 5, 1) = (d \div 32) % 2 /\ Field(d, 6, 1) = (d \div 64) % 2
    BY SMT DEF Field
  <2>2. PICK q \in Nat : q = d \div 16
    BY Quotients4
  <2>3. /\ q \div 2 = d \div 32 /\ q \div 4 = d \div 64
    BY <2>2, Quotients4
  <2>4. /\ Field(d, 4, 3) = q % 8 /\ Field(d, 4, 1) = q % 2 /\ Field(d, 5, 1) = (q \div 2) % 2
        /\ Field(d, 6, 1) = (q \div 4) % 2
    BY <2>1, <2>2, <2>3
  <2> QED BY <2>4, Split3, Zenon
<1>9. Field(d, 5, 2) = Field(d, 5, 1) + 2 * Field(d, 6, 1)
  <2>1. /\ Field(d, 5, 2) = (d \div 32) % 4 /\ Field(d, 5, 1) = (d \div 32) % 2
        /\ Field(d, 6, 1) = (d \div 64) % 2
    BY SMT DEF Field
  <2>2. PICK q \in Nat : q = d \div 32
    BY Quotients5
  <2>3. q \div 2 = d \div 64
    BY <2>2, Quotients5
  <2>4. /\ Field(d, 5, 2) = q % 4 /\ Field(d, 5, 1) = q % 2 /\ Field(d, 6, 1) = (q \div 2) % 2
    BY <2>1, <2>2, <2>3
  <2> QED BY <2>4, Split2, Zenon
<1>10. Field(d, 7, 2) = Field(d, 7, 1) + 2 * Field(d, 8, 1)
  <2>1. /\ Field(d, 7, 2) = (d \div 128) % 4 /\ Field(d, 7, 1) = (d \div 128) % 2
        /\ Field(d, 8, 1) = (d \div 256) % 2
    BY SMT DEF Field
  <2>2. PICK q \in Nat : q = d \div 128
    BY Quotients7
  <2>3. q \div 2 = d \div 256
    BY <2>2, Quotients7
  <2>4. /\ Field(d, 7, 2) = q % 4 /\ Field(d, 7, 1) = q % 2 /\ Field(d, 8, 1) = (q \div 2) % 2
    BY <2>1, <2>2, <2>3
  <2> QED BY <2>4, Split2, Zenon
<1>11. Field(d, 7, 3) = Field(d, 7, 1) + 2 * Field(d, 8, 1) + 4 * Field(d, 9, 1)
  <2>1. /\ Field(d, 7, 3) = (d \div 128) % 8 /\ Field(d, 7, 1) = (d \div 128) % 2
        /\ Field(d, 8, 1) = (d \div 256) % 2 /\ Field(d, 9, 1) = (d \div 512) % 2
    BY SMT DEF Field
  <2>2. PICK q \in Nat : q = d \div 128
    BY Quotients7
  <2>3. /\ q \div 2 = d \div 256 /\ q \div 4 = d \div 512
    BY <2>2, Quotients7
  <2>4. /\ Field(d, 7, 3) = q % 8 /\ Field(d, 7, 1) = q % 2 /\ Field(d, 8, 1) = (q \div 2) % 2
        /\ Field(d, 9, 1) = (q \div 4) % 2
    BY <2>1, <2>2, <2>3
  <2> QED BY <2>4, Split3, Zenon
<1>12. Field(d, 7, 4) = Field(d, 7, 1) + 2 * Field(d, 8, 1) + 4 * Field(d, 9, 1)
              + 8 * Field(d, 10, 1)
  <2>1. /\ Field(d, 7, 4) = (d \div 128) % 16 /\ Field(d, 7, 1) = (d \div 128) % 2
        /\ Field(d, 8, 1) = (d \div 256) % 2 /\ Field(d, 9, 1) = (d \div 512) % 2
        /\ Field(d, 10, 1) = (d \div 1024) % 2
    BY SMT DEF Field
  <2>2. PICK q \in Nat : q = d \div 128
    BY Quotients7
  <2>3. /\ q \div 2 = d \div 256 /\ q \div 4 = d \div 512 /\ q \div 8 = d \div 1024
    BY <2>2, Quotients7
  <2>4. /\ Field(d, 7, 4) = q % 16 /\ Field(d, 7, 1) = q % 2 /\ Field(d, 8, 1) = (q \div 2) % 2
        /\ Field(d, 9, 1) = (q \div 4) % 2 /\ Field(d, 10, 1) = (q \div 8) % 2
    BY <2>1, <2>2, <2>3
  <2> QED BY <2>4, Split4, Zenon
<1>13. Field(d, 7, 5) = Field(d, 7, 1) + 2 * Field(d, 8, 1) + 4 * Field(d, 9, 1)
              + 8 * Field(d, 10, 1) + 16 * Field(d, 11, 1)
  <2>1. /\ Field(d, 7, 5) = (d \div 128) % 32 /\ Field(d, 7, 1) = (d \div 128) % 2
        /\ Field(d, 8, 1) = (d \div 256) % 2 /\ Field(d, 9, 1) = (d \div 512) % 2
        /\ Field(d, 10, 1) = (d \div 1024) % 2 /\ Field(d, 11, 1) = (d \div 2048) % 2
    BY SMT DEF Field
  <2>2. PICK q \in Nat : q = d \div 128
    BY Quotients7
  <2>3. /\ q \div 2 = d \div 256 /\ q \div 4 = d \div 512 /\ q \div 8 = d \div 1024
        /\ q \div 16 = d \div 2048
    BY <2>2, Quotients7
  <2>4. /\ Field(d, 7, 5) = q % 32 /\ Field(d, 7, 1) = q % 2 /\ Field(d, 8, 1) = (q \div 2) % 2
        /\ Field(d, 9, 1) = (q \div 4) % 2 /\ Field(d, 10, 1) = (q \div 8) % 2
        /\ Field(d, 11, 1) = (q \div 16) % 2
    BY <2>1, <2>2, <2>3
  <2> QED BY <2>4, Split5, Zenon
<1>14. Field(d, 9, 2) = Field(d, 9, 1) + 2 * Field(d, 10, 1)
  <2>1. /\ Field(d, 9, 2) = (d \div 512) % 4 /\ Field(d, 9, 1) = (d \div 512) % 2
        /\ Field(d, 10, 1) = (d \div 1024) % 2
    BY SMT DEF Field
  <2>2. PICK q \in Nat : q = d \div 512
    BY Quotients9
  <2>3. q \div 2 = d \div 1024
    BY <2>2, Quotients9
  <2>4. /\ Field(d, 9, 2) = q % 4 /\ Field(d, 9, 1) = q % 2 /\ Field(d, 10, 1) = (q \div 2) % 2
    BY <2>1, <2>2, <2>3
  <2> QED BY <2>4, Split2, Zenon
<1>15. Field(d, 9, 4) = Field(d, 9, 1) + 2 * Field(d, 10, 1) + 4 * Field(d, 11, 1)
              + 8 * Field(d, 12, 1)
  <2>1. /\ Field(d, 9, 4) = (d \div 512) % 16 /\ Field(d, 9, 1) = (d \div 512) % 2
        /\ Field(d, 10, 1) = (d \div 1024) % 2 /\ Field(d, 11, 1) = (d \div 2048) % 2
        /\ Field(d, 12, 1) = (d \div 4096) % 2
    BY SMT DEF Field
  <2>2. PICK q \in Nat : q = d \div 512
    BY Quotients9
  <2>3. /\ q \div 2 = d \div 1024 /\ q \div 4 = d \div 2048 /\ q \div 8 = d \div 4096
    BY <2>2, Quotients9
  <2>4. /\ Field(d, 9, 4) = q % 16 /\ Field(d, 9, 1) = q % 2 /\ Field(d, 10, 1) = (q \div 2) % 2
        /\ Field(d, 11, 1) = (q \div 4) % 2 /\ Field(d, 12, 1) = (q \div 8) % 2
    BY <2>1, <2>2, <2>3
  <2> QED BY <2>4, Split4, Zenon
<1>16. Field(d, 10, 2) = Field(d, 10, 1) + 2 * Field(d, 11, 1)
  <2>1. /\ Field(d, 10, 2) = (d \div 1024) % 4 /\ Field(d, 10, 1) = (d \div 1024) % 2
        /\ Field(d, 11, 1) = (d \div 2048) % 2
    BY SMT DEF Field
  <2>2. PICK q \in Nat : q = d \div 1024
    BY Quotients10
  <2>3. q \div 2 = d \div 2048
    BY <2>2, Quotients10
  <2>4. /\ Field(d, 10, 2) = q % 4 /\ Field(d, 10, 1) = q % 2 /\ Field(d, 11, 1) = (q \div 2) % 2
    BY <2>1, <2>2, <2>3
  <2> QED BY <2>4, Split2, Zenon
<1>17. Field(d, 10, 3) = Field(d, 10, 1) + 2 * Field(d, 11, 1) + 4 * Field(d, 12, 1)
  <2>1. /\ Field(d, 10, 3) = (d \div 1024) % 8 /\ Field(d, 10, 1) = (d \div 1024) % 2
        /\ Field(d, 11, 1) = (d \div 2048) % 2 /\ Field(d, 12, 1) = (d \div 4096) % 2
    BY SMT DEF Field
  <2>2. PICK q \in Nat : q = d \div 1024
    BY Quotients10
  <2>3. /\ q \div 2 = d \div 2048 /\ q \div 4 = d \div 4096
    BY <2>2, Quotients10
  <2>4. /\ Field(d, 10, 3) = q % 8 /\ Field(d, 10, 1) = q % 2 /\ Field(d, 11, 1) = (q \div 2) % 2
        /\ Field(d, 12, 1) = (q \div 4) % 2
    BY <2>1, <2>2, <2>3
  <2> QED BY <2>4, Split3, Zenon
<1>18. Field(d, 11, 2) = Field(d, 11, 1) + 2 * Field(d, 12, 1)
  <2>1. /\ Field(d, 11, 2) = (d \div 2048) % 4 /\ Field(d, 11, 1) = (d \div 2048) % 2
        /\ Field(d, 12, 1) = (d \div 4096) % 2
    BY SMT DEF Field
  <2>2. PICK q \in Nat : q = d \div 2048
    BY Quotients11
  <2>3. q \div 2 = d \div 4096
    BY <2>2, Quotients11
  <2>4. /\ Field(d, 11, 2) = q % 4 /\ Field(d, 11, 1) = q % 2 /\ Field(d, 12, 1) = (q \div 2) % 2
    BY <2>1, <2>2, <2>3
  <2> QED BY <2>4, Split2, Zenon
<1>19. Field(d, 13, 3) = Field(d, 13, 1) + 2 * Field(d, 14, 1) + 4 * Field(d, 15, 1)
  <2>1. /\ Field(d, 13, 3) = (d \div 8192) % 8 /\ Field(d, 13, 1) = (d \div 8192) % 2
        /\ Field(d, 14, 1) = (d \div 16384) % 2 /\ Field(d, 15, 1) = (d \div 32768) % 2
    BY SMT DEF Field
  <2>2. PICK q \in Nat : q = d \div 8192
    BY Quotients13
  <2>3. /\ q \div 2 = d \div 16384 /\ q \div 4 = d \div 32768
    BY <2>2, Quotients13
  <2>4. /\ Field(d, 13, 3) = q % 8 /\ Field(d, 13, 1) = q % 2 /\ Field(d, 14, 1) = (q \div 2) % 2
        /\ Field(d, 15, 1) = (q \div 4) % 2
    BY <2>1, <2>2, <2>3, SMTT(30)
  <2> QED BY <2>4, Split3, Zenon
<1> QED BY <1>1, <1>2, <1>3, <1>4, <1>5, <1>6, <1>7, <1>8, <1>9, <1>10, <1>11, <1>12, <1>13,
  <1>14, <1>15, <1>16, <1>17, <1>18, <1>19

\* Bits 2 to 12, as numbers.
Bits(d, b2, b3, b4, b5, b6, b7, b8, b9, b10, b11, b12) ==
    /\ Field(d, 2, 1) = b2 /\ Field(d, 3, 1) = b3 /\ Field(d, 4, 1) = b4
    /\ Field(d, 5, 1) = b5 /\ Field(d, 6, 1) = b6 /\ Field(d, 7, 1) = b7
    /\ Field(d, 8, 1) = b8 /\ Field(d, 9, 1) = b9 /\ Field(d, 10, 1) = b10
    /\ Field(d, 11, 1) = b11 /\ Field(d, 12, 1) = b12

\* There are such numbers.
LEMMA HaveBits ==
    ASSUME NEW d \in Nat
    PROVE  \E b2, b3, b4, b5, b6, b7, b8, b9, b10, b11, b12 \in 0 .. 1 :
             Bits(d, b2, b3, b4, b5, b6, b7, b8, b9, b10, b11, b12)
<1>1. \A k \in 0 .. 15 : Field(d, k, 1) \in 0 .. 1
  BY HalfBits
<1> QED BY <1>1, SMT DEF Bits

\* What the code shifts and masks together, before the sign is extended.
Raw_CI(d) == Field(d, 12, 1) * 32 + Field(d, 2, 5)

\* Layout CI.
LEMMA Immediate_CI ==
    ASSUME NEW d \in Nat
    PROVE  Extend(Raw_CI(d), 6) = Immediate(d, CI, TRUE)
<1>1. PICK b2, b3, b4, b5, b6, b7, b8, b9, b10, b11, b12 \in 0 .. 1 :
        Bits(d, b2, b3, b4, b5, b6, b7, b8, b9, b10, b11, b12)
  BY HaveBits
<1>2. Field(d, 2, 5) = b2 + 2 * b3 + 4 * b4 + 8 * b5 + 16 * b6
  BY <1>1, HalfBits DEF Bits
<1>3. PICK m \in Int : m = b2 + 2 * b3 + 4 * b4 + 8 * b5 + 16 * b6 - 32 * b12
  OBVIOUS
<1>4. Immediate(d, CI, TRUE) = m
  <2>1. PICK h \in Int : h = -(32 * b12)
    OBVIOUS
  <2>2. PICK l \in Int : l = b2 + 2 * b3 + 4 * b4 + 8 * b5 + 16 * b6
    OBVIOUS
  <2>3. RvcHigh(d, CI, TRUE) = h
    BY <1>1, <2>1, SMT DEF Bits, RvcHigh, RvcAt, RvcWeight, CI, no
  <2>4. RvcLow(d, CI, TRUE) = l
    BY <1>1, <2>2, SMT DEF Bits, RvcLow, RvcAt, RvcWeight, CI, no
  <2>5. m = h + l
    BY <1>3, <2>1, <2>2
  <2> QED BY <2>3, <2>4, <2>5 DEF Immediate
<1>5. PICK v \in Int : v = b12 * 32 + (b2 + 2 * b3 + 4 * b4 + 8 * b5 + 16 * b6)
  OBVIOUS
<1>6. Raw_CI(d) = v
  BY <1>1, <1>2, <1>5, SMT DEF Bits, Raw_CI
<1>7. Extend(v, 6) = m
  BY <1>3, <1>5, SMT DEF Extend
<1> QED BY <1>4, <1>6, <1>7, Zenon

\* What the code shifts and masks together, before the sign is extended.
Raw_CILdsp(d) == Field(d, 2, 3) * 64 + Field(d, 5, 2) * 8 + Field(d, 12, 1) * 32

\* Layout CILdsp.
LEMMA Immediate_CILdsp ==
    ASSUME NEW d \in Nat
    PROVE  Raw_CILdsp(d) = Immediate(d, CILdsp, FALSE)
<1>1. PICK b2, b3, b4, b5, b6, b7, b8, b9, b10, b11, b12 \in 0 .. 1 :
        Bits(d, b2, b3, b4, b5, b6, b7, b8, b9, b10, b11, b12)
  BY HaveBits
<1>2. /\ Field(d, 2, 3) = b2 + 2 * b3 + 4 * b4 /\ Field(d, 5, 2) = b5 + 2 * b6
  BY <1>1, HalfBits DEF Bits
<1>3. PICK m \in Int : m = 8 * b5 + 16 * b6 + 64 * b2 + 128 * b3 + 256 * b4 + 32 * b12
  OBVIOUS
<1>4. Immediate(d, CILdsp, FALSE) = m
  <2>1. PICK h \in Int : h = 32 * b12
    OBVIOUS
  <2>2. PICK l \in Int : l = 8 * b5 + 16 * b6 + 64 * b2 + 128 * b3 + 256 * b4
    OBVIOUS
  <2>3. RvcHigh(d, CILdsp, FALSE) = h
    BY <1>1, <2>1, SMT DEF Bits, RvcHigh, RvcAt, RvcWeight, CILdsp, no
  <2>4. RvcLow(d, CILdsp, FALSE) = l
    BY <1>1, <2>2, SMT DEF Bits, RvcLow, RvcAt, RvcWeight, CILdsp, no
  <2>5. m = h + l
    BY <1>3, <2>1, <2>2
  <2> QED BY <2>3, <2>4, <2>5 DEF Immediate
<1>5. PICK v \in Int : v = (b2 + 2 * b3 + 4 * b4) * 64 + (b5 + 2 * b6) * 8 + b12 * 32
  OBVIOUS
<1>6. Raw_CILdsp(d) = v
  BY <1>1, <1>2, <1>5, SMT DEF Bits, Raw_CILdsp
<1>7. v = m
  BY <1>3, <1>5, SMT
<1> QED BY <1>4, <1>6, <1>7, Zenon

\* What the code shifts and masks together, before the sign is extended.
Raw_CI16sp(d) == Field(d, 2, 1) * 32 + Field(d, 3, 2) * 128 + Field(d, 5, 1) * 64 + Field(d, 6,
     1) * 16 +
                  Field(d, 12, 1) * 512

\* Layout CI16sp.
LEMMA Immediate_CI16sp ==
    ASSUME NEW d \in Nat
    PROVE  Extend(Raw_CI16sp(d), 10) = Immediate(d, CI16sp, TRUE)
<1>1. PICK b2, b3, b4, b5, b6, b7, b8, b9, b10, b11, b12 \in 0 .. 1 :
        Bits(d, b2, b3, b4, b5, b6, b7, b8, b9, b10, b11, b12)
  BY HaveBits
<1>2. Field(d, 3, 2) = b3 + 2 * b4
  BY <1>1, HalfBits DEF Bits
<1>3. PICK m \in Int : m = 16 * b6 + 32 * b2 + 64 * b5 + 128 * b3 + 256 * b4 - 512 * b12
  OBVIOUS
<1>4. Immediate(d, CI16sp, TRUE) = m
  <2>1. PICK h \in Int : h = -(512 * b12)
    OBVIOUS
  <2>2. PICK l \in Int : l = 16 * b6 + 32 * b2 + 64 * b5 + 128 * b3 + 256 * b4
    OBVIOUS
  <2>3. RvcHigh(d, CI16sp, TRUE) = h
    BY <1>1, <2>1, SMT DEF Bits, RvcHigh, RvcAt, RvcWeight, CI16sp, no
  <2>4. RvcLow(d, CI16sp, TRUE) = l
    BY <1>1, <2>2, SMT DEF Bits, RvcLow, RvcAt, RvcWeight, CI16sp, no
  <2>5. m = h + l
    BY <1>3, <2>1, <2>2
  <2> QED BY <2>3, <2>4, <2>5 DEF Immediate
<1>5. PICK v \in Int : v = b2 * 32 + (b3 + 2 * b4) * 128 + b5 * 64 + b6 * 16 + b12 * 512
  OBVIOUS
<1>6. Raw_CI16sp(d) = v
  BY <1>1, <1>2, <1>5, SMT DEF Bits, Raw_CI16sp
<1>7. Extend(v, 10) = m
  BY <1>3, <1>5, SMT DEF Extend
<1> QED BY <1>4, <1>6, <1>7, Zenon

\* What the code shifts and masks together, before the sign is extended.
Raw_CILwsp(d) == Field(d, 12, 1) * 32 + Field(d, 4, 3) * 4 + Field(d, 2, 2) * 64

\* Layout CILwsp.
LEMMA Immediate_CILwsp ==
    ASSUME NEW d \in Nat
    PROVE  Raw_CILwsp(d) = Immediate(d, CILwsp, FALSE)
<1>1. PICK b2, b3, b4, b5, b6, b7, b8, b9, b10, b11, b12 \in 0 .. 1 :
        Bits(d, b2, b3, b4, b5, b6, b7, b8, b9, b10, b11, b12)
  BY HaveBits
<1>2. /\ Field(d, 4, 3) = b4 + 2 * b5 + 4 * b6 /\ Field(d, 2, 2) = b2 + 2 * b3
  BY <1>1, HalfBits DEF Bits
<1>3. PICK m \in Int : m = 4 * b4 + 8 * b5 + 16 * b6 + 64 * b2 + 128 * b3 + 32 * b12
  OBVIOUS
<1>4. Immediate(d, CILwsp, FALSE) = m
  <2>1. PICK h \in Int : h = 32 * b12
    OBVIOUS
  <2>2. PICK l \in Int : l = 4 * b4 + 8 * b5 + 16 * b6 + 64 * b2 + 128 * b3
    OBVIOUS
  <2>3. RvcHigh(d, CILwsp, FALSE) = h
    BY <1>1, <2>1, SMT DEF Bits, RvcHigh, RvcAt, RvcWeight, CILwsp, no
  <2>4. RvcLow(d, CILwsp, FALSE) = l
    BY <1>1, <2>2, SMT DEF Bits, RvcLow, RvcAt, RvcWeight, CILwsp, no
  <2>5. m = h + l
    BY <1>3, <2>1, <2>2
  <2> QED BY <2>3, <2>4, <2>5 DEF Immediate
<1>5. PICK v \in Int : v = b12 * 32 + (b4 + 2 * b5 + 4 * b6) * 4 + (b2 + 2 * b3) * 64
  OBVIOUS
<1>6. Raw_CILwsp(d) = v
  BY <1>1, <1>2, <1>5, SMT DEF Bits, Raw_CILwsp
<1>7. v = m
  BY <1>3, <1>5, SMT
<1> QED BY <1>4, <1>6, <1>7, Zenon

\* What the code shifts and masks together, before the sign is extended.
Raw_CILui(d) == Field(d, 2, 5) * 2^12 + Field(d, 12, 1) * 2^17

\* Layout CILui.
LEMMA Immediate_CILui ==
    ASSUME NEW d \in Nat
    PROVE  Extend(Raw_CILui(d), 18) = Immediate(d, CILui, TRUE)
<1>1. PICK b2, b3, b4, b5, b6, b7, b8, b9, b10, b11, b12 \in 0 .. 1 :
        Bits(d, b2, b3, b4, b5, b6, b7, b8, b9, b10, b11, b12)
  BY HaveBits
<1>2. Field(d, 2, 5) = b2 + 2 * b3 + 4 * b4 + 8 * b5 + 16 * b6
  BY <1>1, HalfBits DEF Bits
<1>3. PICK m \in Int : m = 4096 * b2 + 8192 * b3 + 16384 * b4 + 32768 * b5
     + 65536 * b6 - 131072 * b12
  OBVIOUS
<1>4. Immediate(d, CILui, TRUE) = m
  <2>1. PICK h \in Int : h = -(131072 * b12)
    OBVIOUS
  <2>2. PICK l \in Int : l = 4096 * b2 + 8192 * b3 + 16384 * b4 + 32768 * b5 + 65536 * b6
    OBVIOUS
  <2>3. RvcHigh(d, CILui, TRUE) = h
    BY <1>1, <2>1, SMT DEF Bits, RvcHigh, RvcAt, RvcWeight, CILui, no
  <2>4. RvcLow(d, CILui, TRUE) = l
    BY <1>1, <2>2, SMT DEF Bits, RvcLow, RvcAt, RvcWeight, CILui, no
  <2>5. m = h + l
    BY <1>3, <2>1, <2>2
  <2> QED BY <2>3, <2>4, <2>5 DEF Immediate
<1>5. PICK v \in Int : v = (b2 + 2 * b3 + 4 * b4 + 8 * b5 + 16 * b6) * 2^12 + b12 * 2^17
  OBVIOUS
<1>6. Raw_CILui(d) = v
  BY <1>1, <1>2, <1>5, SMT DEF Bits, Raw_CILui
<1>7. Extend(v, 18) = m
  BY <1>3, <1>5, SMT DEF Extend
<1> QED BY <1>4, <1>6, <1>7, Zenon

\* What the code shifts and masks together, before the sign is extended.
Raw_CB(d) == Field(d, 12, 1) * 256 + Field(d, 5, 2) * 64 + Field(d, 2, 1) * 32 + Field(d, 10,
     2) * 8 +
              Field(d, 3, 2) * 2

\* Layout CB.
LEMMA Immediate_CB ==
    ASSUME NEW d \in Nat
    PROVE  Extend(Raw_CB(d), 9) = Immediate(d, CB, TRUE)
<1>1. PICK b2, b3, b4, b5, b6, b7, b8, b9, b10, b11, b12 \in 0 .. 1 :
        Bits(d, b2, b3, b4, b5, b6, b7, b8, b9, b10, b11, b12)
  BY HaveBits
<1>2. /\ Field(d, 5, 2) = b5 + 2 * b6 /\ Field(d, 10, 2) = b10 + 2 * b11
      /\ Field(d, 3, 2) = b3 + 2 * b4
  BY <1>1, HalfBits DEF Bits
<1>3. PICK m \in Int : m = 2 * b3 + 4 * b4 + 8 * b10 + 16 * b11 + 32 * b2 + 64 * b5
     + 128 * b6 - 256 * b12
  OBVIOUS
<1>4. Immediate(d, CB, TRUE) = m
  <2>1. PICK h \in Int : h = 8 * b10 + 16 * b11 - 256 * b12
    OBVIOUS
  <2>2. PICK l \in Int : l = 2 * b3 + 4 * b4 + 32 * b2 + 64 * b5 + 128 * b6
    OBVIOUS
  <2>3. RvcHigh(d, CB, TRUE) = h
    BY <1>1, <2>1, SMT DEF Bits, RvcHigh, RvcAt, RvcWeight, CB, no
  <2>4. RvcLow(d, CB, TRUE) = l
    BY <1>1, <2>2, SMT DEF Bits, RvcLow, RvcAt, RvcWeight, CB, no
  <2>5. m = h + l
    BY <1>3, <2>1, <2>2
  <2> QED BY <2>3, <2>4, <2>5 DEF Immediate
<1>5. PICK v \in Int : v = b12 * 256 + (b5 + 2 * b6) * 64 + b2 * 32 + (b10 + 2 * b11) * 8
     + (b3 + 2 * b4) * 2
  OBVIOUS
<1>6. Raw_CB(d) = v
  BY <1>1, <1>2, <1>5, SMT DEF Bits, Raw_CB
<1>7. Extend(v, 9) = m
  BY <1>3, <1>5, SMT DEF Extend
<1> QED BY <1>4, <1>6, <1>7, Zenon

\* What the code shifts and masks together, before the sign is extended.
Raw_CLd(d) == Field(d, 5, 2) * 64 + Field(d, 10, 3) * 8

\* Layout CLd.
LEMMA Immediate_CLd ==
    ASSUME NEW d \in Nat
    PROVE  Raw_CLd(d) = Immediate(d, CLd, FALSE)
<1>1. PICK b2, b3, b4, b5, b6, b7, b8, b9, b10, b11, b12 \in 0 .. 1 :
        Bits(d, b2, b3, b4, b5, b6, b7, b8, b9, b10, b11, b12)
  BY HaveBits
<1>2. /\ Field(d, 5, 2) = b5 + 2 * b6 /\ Field(d, 10, 3) = b10 + 2 * b11 + 4 * b12
  BY <1>1, HalfBits DEF Bits
<1>3. PICK m \in Int : m = 8 * b10 + 16 * b11 + 64 * b5 + 128 * b6 + 32 * b12
  OBVIOUS
<1>4. Immediate(d, CLd, FALSE) = m
  <2>1. PICK h \in Int : h = 8 * b10 + 16 * b11 + 32 * b12
    OBVIOUS
  <2>2. PICK l \in Int : l = 64 * b5 + 128 * b6
    OBVIOUS
  <2>3. RvcHigh(d, CLd, FALSE) = h
    BY <1>1, <2>1, SMT DEF Bits, RvcHigh, RvcAt, RvcWeight, CLd, no
  <2>4. RvcLow(d, CLd, FALSE) = l
    BY <1>1, <2>2, SMT DEF Bits, RvcLow, RvcAt, RvcWeight, CLd, no
  <2>5. m = h + l
    BY <1>3, <2>1, <2>2
  <2> QED BY <2>3, <2>4, <2>5 DEF Immediate
<1>5. PICK v \in Int : v = (b5 + 2 * b6) * 64 + (b10 + 2 * b11 + 4 * b12) * 8
  OBVIOUS
<1>6. Raw_CLd(d) = v
  BY <1>1, <1>2, <1>5, SMT DEF Bits, Raw_CLd
<1>7. v = m
  BY <1>3, <1>5, SMT
<1> QED BY <1>4, <1>6, <1>7, Zenon

\* What the code shifts and masks together, before the sign is extended.
Raw_CLw(d) == Field(d, 5, 1) * 64 + Field(d, 6, 1) * 4 + Field(d, 10, 3) * 8

\* Layout CLw.
LEMMA Immediate_CLw ==
    ASSUME NEW d \in Nat
    PROVE  Raw_CLw(d) = Immediate(d, CLw, FALSE)
<1>1. PICK b2, b3, b4, b5, b6, b7, b8, b9, b10, b11, b12 \in 0 .. 1 :
        Bits(d, b2, b3, b4, b5, b6, b7, b8, b9, b10, b11, b12)
  BY HaveBits
<1>2. Field(d, 10, 3) = b10 + 2 * b11 + 4 * b12
  BY <1>1, HalfBits DEF Bits
<1>3. PICK m \in Int : m = 4 * b6 + 8 * b10 + 16 * b11 + 64 * b5 + 32 * b12
  OBVIOUS
<1>4. Immediate(d, CLw, FALSE) = m
  <2>1. PICK h \in Int : h = 8 * b10 + 16 * b11 + 32 * b12
    OBVIOUS
  <2>2. PICK l \in Int : l = 4 * b6 + 64 * b5
    OBVIOUS
  <2>3. RvcHigh(d, CLw, FALSE) = h
    BY <1>1, <2>1, SMT DEF Bits, RvcHigh, RvcAt, RvcWeight, CLw, no
  <2>4. RvcLow(d, CLw, FALSE) = l
    BY <1>1, <2>2, SMT DEF Bits, RvcLow, RvcAt, RvcWeight, CLw, no
  <2>5. m = h + l
    BY <1>3, <2>1, <2>2
  <2> QED BY <2>3, <2>4, <2>5 DEF Immediate
<1>5. PICK v \in Int : v = b5 * 64 + b6 * 4 + (b10 + 2 * b11 + 4 * b12) * 8
  OBVIOUS
<1>6. Raw_CLw(d) = v
  BY <1>1, <1>2, <1>5, SMT DEF Bits, Raw_CLw
<1>7. v = m
  BY <1>3, <1>5, SMT
<1> QED BY <1>4, <1>6, <1>7, Zenon

\* What the code shifts and masks together, before the sign is extended.
Raw_CJ(d) == Field(d, 2, 1) * 32 + Field(d, 3, 3) * 2 + Field(d, 6, 1) * 128 + Field(d, 7,
     1) * 64 + Field(d,
              8, 1) * 2^10 + Field(d, 9, 2) * 2^8 + Field(d, 11, 1) * 16 + Field(d, 12, 1) *
              2^11

\* Layout CJ.
LEMMA Immediate_CJ ==
    ASSUME NEW d \in Nat
    PROVE  Extend(Raw_CJ(d), 12) = Immediate(d, CJ, TRUE)
<1>1. PICK b2, b3, b4, b5, b6, b7, b8, b9, b10, b11, b12 \in 0 .. 1 :
        Bits(d, b2, b3, b4, b5, b6, b7, b8, b9, b10, b11, b12)
  BY HaveBits
<1>2. /\ Field(d, 3, 3) = b3 + 2 * b4 + 4 * b5 /\ Field(d, 9, 2) = b9 + 2 * b10
  BY <1>1, HalfBits DEF Bits
<1>3. PICK m \in Int : m = 2 * b3 + 4 * b4 + 8 * b5 + 16 * b11 + 32 * b2 + 64 * b7 + 128 * b6
     + 256 * b9 + 512 * b10 +
            1024 * b8 - 2048 * b12
  OBVIOUS
<1>4. Immediate(d, CJ, TRUE) = m
  <2>1. PICK h \in Int : h = 16 * b11 + 64 * b7 + 256 * b9 + 512 * b10 + 1024 * b8 - 2048 * b12
    OBVIOUS
  <2>2. PICK l \in Int : l = 2 * b3 + 4 * b4 + 8 * b5 + 32 * b2 + 128 * b6
    OBVIOUS
  <2>3. RvcHigh(d, CJ, TRUE) = h
    BY <1>1, <2>1, SMT DEF Bits, RvcHigh, RvcAt, RvcWeight, CJ, no
  <2>4. RvcLow(d, CJ, TRUE) = l
    BY <1>1, <2>2, SMT DEF Bits, RvcLow, RvcAt, RvcWeight, CJ, no
  <2>5. m = h + l
    BY <1>3, <2>1, <2>2
  <2> QED BY <2>3, <2>4, <2>5 DEF Immediate
<1>5. PICK v \in Int : v = b2 * 32 + (b3 + 2 * b4 + 4 * b5) * 2 + b6 * 128 + b7 * 64
     + b8 * 2^10 + (b9 + 2 * b10) * 2^8
            + b11 * 16 + b12 * 2^11
  OBVIOUS
<1>6. Raw_CJ(d) = v
  BY <1>1, <1>2, <1>5, SMT DEF Bits, Raw_CJ
<1>7. Extend(v, 12) = m
  BY <1>3, <1>5, SMT DEF Extend
<1> QED BY <1>4, <1>6, <1>7, Zenon

\* What the code shifts and masks together, before the sign is extended.
Raw_CSSSdsp(d) == Field(d, 7, 3) * 64 + Field(d, 10, 3) * 8

\* Layout CSSSdsp.
LEMMA Immediate_CSSSdsp ==
    ASSUME NEW d \in Nat
    PROVE  Raw_CSSSdsp(d) = Immediate(d, CSSSdsp, FALSE)
<1>1. PICK b2, b3, b4, b5, b6, b7, b8, b9, b10, b11, b12 \in 0 .. 1 :
        Bits(d, b2, b3, b4, b5, b6, b7, b8, b9, b10, b11, b12)
  BY HaveBits
<1>2. /\ Field(d, 7, 3) = b7 + 2 * b8 + 4 * b9 /\ Field(d, 10, 3) = b10 + 2 * b11 + 4 * b12
  BY <1>1, HalfBits DEF Bits
<1>3. PICK m \in Int : m = 8 * b10 + 16 * b11 + 64 * b7 + 128 * b8 + 256 * b9 + 32 * b12
  OBVIOUS
<1>4. Immediate(d, CSSSdsp, FALSE) = m
  <2>1. PICK h \in Int : h = 8 * b10 + 16 * b11 + 64 * b7 + 128 * b8 + 256 * b9 + 32 * b12
    OBVIOUS
  <2>2. PICK l \in Int : l = 0
    OBVIOUS
  <2>3. RvcHigh(d, CSSSdsp, FALSE) = h
    BY <1>1, <2>1, SMT DEF Bits, RvcHigh, RvcAt, RvcWeight, CSSSdsp, no
  <2>4. RvcLow(d, CSSSdsp, FALSE) = l
    BY <1>1, <2>2, SMT DEF Bits, RvcLow, RvcAt, RvcWeight, CSSSdsp, no
  <2>5. m = h + l
    BY <1>3, <2>1, <2>2
  <2> QED BY <2>3, <2>4, <2>5 DEF Immediate
<1>5. PICK v \in Int : v = (b7 + 2 * b8 + 4 * b9) * 64 + (b10 + 2 * b11 + 4 * b12) * 8
  OBVIOUS
<1>6. Raw_CSSSdsp(d) = v
  BY <1>1, <1>2, <1>5, SMT DEF Bits, Raw_CSSSdsp
<1>7. v = m
  BY <1>3, <1>5, SMT
<1> QED BY <1>4, <1>6, <1>7, Zenon

\* What the code shifts and masks together, before the sign is extended.
Raw_CSSSwsp(d) == Field(d, 7, 2) * 64 + Field(d, 9, 4) * 4

\* Layout CSSSwsp.
LEMMA Immediate_CSSSwsp ==
    ASSUME NEW d \in Nat
    PROVE  Raw_CSSSwsp(d) = Immediate(d, CSSSwsp, FALSE)
<1>1. PICK b2, b3, b4, b5, b6, b7, b8, b9, b10, b11, b12 \in 0 .. 1 :
        Bits(d, b2, b3, b4, b5, b6, b7, b8, b9, b10, b11, b12)
  BY HaveBits
<1>2. /\ Field(d, 7, 2) = b7 + 2 * b8 /\ Field(d, 9, 4) = b9 + 2 * b10 + 4 * b11 + 8 * b12
  BY <1>1, HalfBits DEF Bits
<1>3. PICK m \in Int : m = 4 * b9 + 8 * b10 + 16 * b11 + 64 * b7 + 128 * b8 + 32 * b12
  OBVIOUS
<1>4. Immediate(d, CSSSwsp, FALSE) = m
  <2>1. PICK h \in Int : h = 4 * b9 + 8 * b10 + 16 * b11 + 64 * b7 + 128 * b8 + 32 * b12
    OBVIOUS
  <2>2. PICK l \in Int : l = 0
    OBVIOUS
  <2>3. RvcHigh(d, CSSSwsp, FALSE) = h
    BY <1>1, <2>1, SMT DEF Bits, RvcHigh, RvcAt, RvcWeight, CSSSwsp, no
  <2>4. RvcLow(d, CSSSwsp, FALSE) = l
    BY <1>1, <2>2, SMT DEF Bits, RvcLow, RvcAt, RvcWeight, CSSSwsp, no
  <2>5. m = h + l
    BY <1>3, <2>1, <2>2
  <2> QED BY <2>3, <2>4, <2>5 DEF Immediate
<1>5. PICK v \in Int : v = (b7 + 2 * b8) * 64 + (b9 + 2 * b10 + 4 * b11 + 8 * b12) * 4
  OBVIOUS
<1>6. Raw_CSSSwsp(d) = v
  BY <1>1, <1>2, <1>5, SMT DEF Bits, Raw_CSSSwsp
<1>7. v = m
  BY <1>3, <1>5, SMT
<1> QED BY <1>4, <1>6, <1>7, Zenon

\* What the code shifts and masks together, before the sign is extended.
Raw_CIW(d) == Field(d, 5, 1) * 8 + Field(d, 6, 1) * 4 + Field(d, 7, 4) * 64 + Field(d, 11, 2) * 16

\* Layout CIW.
LEMMA Immediate_CIW ==
    ASSUME NEW d \in Nat
    PROVE  Raw_CIW(d) = Immediate(d, CIW, FALSE)
<1>1. PICK b2, b3, b4, b5, b6, b7, b8, b9, b10, b11, b12 \in 0 .. 1 :
        Bits(d, b2, b3, b4, b5, b6, b7, b8, b9, b10, b11, b12)
  BY HaveBits
<1>2. /\ Field(d, 7, 4) = b7 + 2 * b8 + 4 * b9 + 8 * b10 /\ Field(d, 11, 2) = b11 + 2 * b12
  BY <1>1, HalfBits DEF Bits
<1>3. PICK m \in Int : m = 4 * b6 + 8 * b5 + 16 * b11 + 64 * b7 + 128 * b8 + 256 * b9
     + 512 * b10 + 32 * b12
  OBVIOUS
<1>4. Immediate(d, CIW, FALSE) = m
  <2>1. PICK h \in Int : h = 16 * b11 + 64 * b7 + 128 * b8 + 256 * b9 + 512 * b10 + 32 * b12
    OBVIOUS
  <2>2. PICK l \in Int : l = 4 * b6 + 8 * b5
    OBVIOUS
  <2>3. RvcHigh(d, CIW, FALSE) = h
    BY <1>1, <2>1, SMT DEF Bits, RvcHigh, RvcAt, RvcWeight, CIW, no
  <2>4. RvcLow(d, CIW, FALSE) = l
    BY <1>1, <2>2, SMT DEF Bits, RvcLow, RvcAt, RvcWeight, CIW, no
  <2>5. m = h + l
    BY <1>3, <2>1, <2>2
  <2> QED BY <2>3, <2>4, <2>5 DEF Immediate
<1>5. PICK v \in Int : v = b5 * 8 + b6 * 4 + (b7 + 2 * b8 + 4 * b9 + 8 * b10) * 64 + (b11
     + 2 * b12) * 16
  OBVIOUS
<1>6. Raw_CIW(d) = v
  BY <1>1, <1>2, <1>5, SMT DEF Bits, Raw_CIW
<1>7. v = m
  BY <1>3, <1>5, SMT
<1> QED BY <1>4, <1>6, <1>7, Zenon

\* The amount of a shift, modulo 64.
LEMMA Shift_amount ==
    ASSUME NEW d \in Nat
    PROVE  (Immediate(d, CI, TRUE) - Immediate(d, CI, FALSE)) % 64 = 0
<1>1. PICK b2, b3, b4, b5, b6, b7, b8, b9, b10, b11, b12 \in 0 .. 1 :
        Bits(d, b2, b3, b4, b5, b6, b7, b8, b9, b10, b11, b12)
  BY HaveBits
<1>2. PICK m \in Int : m = b2 + 2 * b3 + 4 * b4 + 8 * b5 + 16 * b6 - 32 * b12
  OBVIOUS
<1>3. Immediate(d, CI, TRUE) = m
  <2>1. PICK h \in Int : h = -(32 * b12)
    OBVIOUS
  <2>2. PICK l \in Int : l = b2 + 2 * b3 + 4 * b4 + 8 * b5 + 16 * b6
    OBVIOUS
  <2>3. RvcHigh(d, CI, TRUE) = h
    BY <1>1, <2>1, SMT DEF Bits, RvcHigh, RvcAt, RvcWeight, CI, no
  <2>4. RvcLow(d, CI, TRUE) = l
    BY <1>1, <2>2, SMT DEF Bits, RvcLow, RvcAt, RvcWeight, CI, no
  <2>5. m = h + l
    BY <1>2, <2>1, <2>2
  <2> QED BY <2>3, <2>4, <2>5 DEF Immediate
<1>4. PICK u \in Int : u = b2 + 2 * b3 + 4 * b4 + 8 * b5 + 16 * b6 + 32 * b12
  OBVIOUS
<1>5. Immediate(d, CI, FALSE) = u
  <2>1. PICK h \in Int : h = 32 * b12
    OBVIOUS
  <2>2. PICK l \in Int : l = b2 + 2 * b3 + 4 * b4 + 8 * b5 + 16 * b6
    OBVIOUS
  <2>3. RvcHigh(d, CI, FALSE) = h
    BY <1>1, <2>1, SMT DEF Bits, RvcHigh, RvcAt, RvcWeight, CI, no
  <2>4. RvcLow(d, CI, FALSE) = l
    BY <1>1, <2>2, SMT DEF Bits, RvcLow, RvcAt, RvcWeight, CI, no
  <2>5. u = h + l
    BY <1>4, <2>1, <2>2
  <2> QED BY <2>3, <2>4, <2>5 DEF Immediate
<1>6. (m - u) % 64 = 0
  BY <1>2, <1>4
<1> QED BY <1>3, <1>5, <1>6

\* An immediate is 0 with a sign if it is 0 without.
LEMMA Zero_CI16sp ==
    ASSUME NEW d \in Nat
    PROVE  Immediate(d, CI16sp, TRUE) = 0 <=> Immediate(d, CI16sp, FALSE) = 0
<1>1. PICK b2, b3, b4, b5, b6, b7, b8, b9, b10, b11, b12 \in 0 .. 1 :
        Bits(d, b2, b3, b4, b5, b6, b7, b8, b9, b10, b11, b12)
  BY HaveBits
<1>2. PICK m \in Int : m = 16 * b6 + 32 * b2 + 64 * b5 + 128 * b3 + 256 * b4 - 512 * b12
  OBVIOUS
<1>3. Immediate(d, CI16sp, TRUE) = m
  <2>1. PICK h \in Int : h = -(512 * b12)
    OBVIOUS
  <2>2. PICK l \in Int : l = 16 * b6 + 32 * b2 + 64 * b5 + 128 * b3 + 256 * b4
    OBVIOUS
  <2>3. RvcHigh(d, CI16sp, TRUE) = h
    BY <1>1, <2>1, SMT DEF Bits, RvcHigh, RvcAt, RvcWeight, CI16sp, no
  <2>4. RvcLow(d, CI16sp, TRUE) = l
    BY <1>1, <2>2, SMT DEF Bits, RvcLow, RvcAt, RvcWeight, CI16sp, no
  <2>5. m = h + l
    BY <1>2, <2>1, <2>2
  <2> QED BY <2>3, <2>4, <2>5 DEF Immediate
<1>4. PICK u \in Int : u = 16 * b6 + 32 * b2 + 64 * b5 + 128 * b3 + 256 * b4 + 512 * b12
  OBVIOUS
<1>5. Immediate(d, CI16sp, FALSE) = u
  <2>1. PICK h \in Int : h = 512 * b12
    OBVIOUS
  <2>2. PICK l \in Int : l = 16 * b6 + 32 * b2 + 64 * b5 + 128 * b3 + 256 * b4
    OBVIOUS
  <2>3. RvcHigh(d, CI16sp, FALSE) = h
    BY <1>1, <2>1, SMT DEF Bits, RvcHigh, RvcAt, RvcWeight, CI16sp, no
  <2>4. RvcLow(d, CI16sp, FALSE) = l
    BY <1>1, <2>2, SMT DEF Bits, RvcLow, RvcAt, RvcWeight, CI16sp, no
  <2>5. u = h + l
    BY <1>4, <2>1, <2>2
  <2> QED BY <2>3, <2>4, <2>5 DEF Immediate
<1>6. m = 0 <=> u = 0
  BY <1>2, <1>4
<1> QED BY <1>3, <1>5, <1>6

\* And for lui.
LEMMA Zero_CILui ==
    ASSUME NEW d \in Nat
    PROVE  Immediate(d, CILui, TRUE) = 0 <=> Immediate(d, CILui, FALSE) = 0
<1>1. PICK b2, b3, b4, b5, b6, b7, b8, b9, b10, b11, b12 \in 0 .. 1 :
        Bits(d, b2, b3, b4, b5, b6, b7, b8, b9, b10, b11, b12)
  BY HaveBits
<1>2. PICK m \in Int : m = 4096 * b2 + 8192 * b3 + 16384 * b4 + 32768 * b5
     + 65536 * b6 - 131072 * b12
  OBVIOUS
<1>3. Immediate(d, CILui, TRUE) = m
  <2>1. PICK h \in Int : h = -(131072 * b12)
    OBVIOUS
  <2>2. PICK l \in Int : l = 4096 * b2 + 8192 * b3 + 16384 * b4 + 32768 * b5 + 65536 * b6
    OBVIOUS
  <2>3. RvcHigh(d, CILui, TRUE) = h
    BY <1>1, <2>1, SMT DEF Bits, RvcHigh, RvcAt, RvcWeight, CILui, no
  <2>4. RvcLow(d, CILui, TRUE) = l
    BY <1>1, <2>2, SMT DEF Bits, RvcLow, RvcAt, RvcWeight, CILui, no
  <2>5. m = h + l
    BY <1>2, <2>1, <2>2
  <2> QED BY <2>3, <2>4, <2>5 DEF Immediate
<1>4. PICK u \in Int : u = 4096 * b2 + 8192 * b3 + 16384 * b4 + 32768 * b5 + 65536 * b6
     + 131072 * b12
  OBVIOUS
<1>5. Immediate(d, CILui, FALSE) = u
  <2>1. PICK h \in Int : h = 131072 * b12
    OBVIOUS
  <2>2. PICK l \in Int : l = 4096 * b2 + 8192 * b3 + 16384 * b4 + 32768 * b5 + 65536 * b6
    OBVIOUS
  <2>3. RvcHigh(d, CILui, FALSE) = h
    BY <1>1, <2>1, SMT DEF Bits, RvcHigh, RvcAt, RvcWeight, CILui, no
  <2>4. RvcLow(d, CILui, FALSE) = l
    BY <1>1, <2>2, SMT DEF Bits, RvcLow, RvcAt, RvcWeight, CILui, no
  <2>5. u = h + l
    BY <1>4, <2>1, <2>2
  <2> QED BY <2>3, <2>4, <2>5 DEF Immediate
<1>6. m = 0 <=> u = 0
  BY <1>2, <1>4
<1> QED BY <1>3, <1>5, <1>6

\* Two registers leave no room for an immediate.
LEMMA Immediate_CR ==
    ASSUME NEW d \in Nat
    PROVE  Immediate(d, CR, FALSE) = 0
<1>1. PICK b2, b3, b4, b5, b6, b7, b8, b9, b10, b11, b12 \in 0 .. 1 :
        Bits(d, b2, b3, b4, b5, b6, b7, b8, b9, b10, b11, b12)
  BY HaveBits
<1>2. PICK m \in Int : m = 0
  OBVIOUS
<1>3. Immediate(d, CR, FALSE) = m
  <2>1. PICK h \in Int : h = 0
    OBVIOUS
  <2>2. PICK l \in Int : l = 0
    OBVIOUS
  <2>3. RvcHigh(d, CR, FALSE) = h
    BY <1>1, <2>1, SMT DEF Bits, RvcHigh, RvcAt, RvcWeight, CR, no
  <2>4. RvcLow(d, CR, FALSE) = l
    BY <1>1, <2>2, SMT DEF Bits, RvcLow, RvcAt, RvcWeight, CR, no
  <2>5. m = h + l
    BY <1>2, <2>1, <2>2
  <2> QED BY <2>3, <2>4, <2>5 DEF Immediate
<1> QED BY <1>2, <1>3
-----------------------------------------------------------------------------
(***************************************************************************)
(* Compressed words: what the readers return.                              *)
(***************************************************************************)

\* A compressed instruction, by the fields that differ from 0.
Insn(t, rd, rs1, rs2, imm, cont) ==
    [type |-> t, rd |-> rd, rs1 |-> rs1, rs2 |-> rs2, rs3 |-> 0, imm |-> imm, csr |-> 0,
     rvc |-> TRUE, cont |-> cont]

\* The registers of the encoding tables are those the readers take.
LEMMA Registers ==
    ASSUME NEW h
    PROVE  /\ Register(h, "r7") = RC1(h) /\ Register(h, "r2") = RC2(h)
           /\ Register(h, "p7") = RP1(h) + 8 /\ Register(h, "p2") = RP2(h) + 8
           /\ Register(h, "x0") = 0 /\ Register(h, "x1") = 1 /\ Register(h, "x2") = 2
  BY SMT DEF Register, RC1, RC2, RP1, RP2

\* insn_catype_read.
LEMMA Read_ca ==
    ASSUME NEW h \in Nat
    PROVE  insn_catype_read(h) = Insn("lb", Register(h, "p7"), 0, Register(h, "p2"), 0, FALSE)
<1>1. PICK v : v = 0
  OBVIOUS
<1>2. PICK y : y = insn_catype_read(h)
  OBVIOUS
<1>3. y = [Rvc EXCEPT !.rd = RP1(h) + 8, !.rs2 = RP2(h) + 8]
  BY <1>1, <1>2, Zenon DEF insn_catype_read
<1>4. y = Insn("lb", RP1(h) + 8, 0, RP2(h) + 8, 0, FALSE)
  BY <1>3, Zenon DEF Rvc, Zero, Insn
<1> QED BY <1>1, <1>2, <1>4, Registers, Zenon

\* insn_crtype_read.
LEMMA Read_cr ==
    ASSUME NEW h \in Nat
    PROVE  insn_crtype_read(h) = Insn("lb", 0, Register(h, "r7"), Register(h, "r2"), 0, FALSE)
<1>1. PICK v : v = 0
  OBVIOUS
<1>2. PICK y : y = insn_crtype_read(h)
  OBVIOUS
<1>3. y = [Rvc EXCEPT !.rs1 = RC1(h), !.rs2 = RC2(h)]
  BY <1>1, <1>2, Zenon DEF insn_crtype_read
<1>4. y = Insn("lb", 0, RC1(h), RC2(h), 0, FALSE)
  BY <1>3, Zenon DEF Rvc, Zero, Insn
<1> QED BY <1>1, <1>2, <1>4, Registers, Zenon

\* insn_citype_read.
LEMMA Read_ci ==
    ASSUME NEW h \in Nat
    PROVE  insn_citype_read(h) = Insn("lb", Register(h, "r7"), 0, 0, Immediate(h, CI, TRUE),
         FALSE)
<1>1. PICK v : v = Extend(Raw_CI(h), 6)
  OBVIOUS
<1>2. PICK y : y = insn_citype_read(h)
  OBVIOUS
<1>3. y = [Rvc EXCEPT !.imm = v, !.rd = RC1(h)]
  BY <1>1, <1>2, Zenon DEF insn_citype_read, Raw_CI
<1>4. y = Insn("lb", RC1(h), 0, 0, v, FALSE)
  BY <1>3, Zenon DEF Rvc, Zero, Insn
<1> QED BY <1>1, <1>2, <1>4, Immediate_CI, Registers, Zenon

\* insn_citype_read2.
LEMMA Read_ci2 ==
    ASSUME NEW h \in Nat
    PROVE  insn_citype_read2(h) = Insn("lb", Register(h, "r7"), 0, 0, Immediate(h, CILdsp,
         FALSE), FALSE)
<1>1. PICK v : v = Raw_CILdsp(h)
  OBVIOUS
<1>2. PICK y : y = insn_citype_read2(h)
  OBVIOUS
<1>3. y = [Rvc EXCEPT !.imm = v, !.rd = RC1(h)]
  BY <1>1, <1>2, Zenon DEF insn_citype_read2, Raw_CILdsp
<1>4. y = Insn("lb", RC1(h), 0, 0, v, FALSE)
  BY <1>3, Zenon DEF Rvc, Zero, Insn
<1> QED BY <1>1, <1>2, <1>4, Immediate_CILdsp, Registers, Zenon

\* insn_citype_read3.
LEMMA Read_ci3 ==
    ASSUME NEW h \in Nat
    PROVE  insn_citype_read3(h) = Insn("lb", Register(h, "r7"), 0, 0, Immediate(h, CI16sp,
         TRUE), FALSE)
<1>1. PICK v : v = Extend(Raw_CI16sp(h), 10)
  OBVIOUS
<1>2. PICK y : y = insn_citype_read3(h)
  OBVIOUS
<1>3. y = [Rvc EXCEPT !.imm = v, !.rd = RC1(h)]
  BY <1>1, <1>2, Zenon DEF insn_citype_read3, Raw_CI16sp
<1>4. y = Insn("lb", RC1(h), 0, 0, v, FALSE)
  BY <1>3, Zenon DEF Rvc, Zero, Insn
<1> QED BY <1>1, <1>2, <1>4, Immediate_CI16sp, Registers, Zenon

\* insn_citype_read4.
LEMMA Read_ci4 ==
    ASSUME NEW h \in Nat
    PROVE  insn_citype_read4(h) = Insn("lb", Register(h, "r7"), 0, 0, Immediate(h, CILwsp,
         FALSE), FALSE)
<1>1. PICK v : v = Raw_CILwsp(h)
  OBVIOUS
<1>2. PICK y : y = insn_citype_read4(h)
  OBVIOUS
<1>3. y = [Rvc EXCEPT !.imm = v, !.rd = RC1(h)]
  BY <1>1, <1>2, Zenon DEF insn_citype_read4, Raw_CILwsp
<1>4. y = Insn("lb", RC1(h), 0, 0, v, FALSE)
  BY <1>3, Zenon DEF Rvc, Zero, Insn
<1> QED BY <1>1, <1>2, <1>4, Immediate_CILwsp, Registers, Zenon

\* insn_citype_read5.
LEMMA Read_ci5 ==
    ASSUME NEW h \in Nat
    PROVE  insn_citype_read5(h) = Insn("lb", Register(h, "r7"), 0, 0, Immediate(h, CILui,
         TRUE), FALSE)
<1>1. PICK v : v = Extend(Raw_CILui(h), 18)
  OBVIOUS
<1>2. PICK y : y = insn_citype_read5(h)
  OBVIOUS
<1>3. y = [Rvc EXCEPT !.imm = v, !.rd = RC1(h)]
  BY <1>1, <1>2, Zenon DEF insn_citype_read5, Raw_CILui
<1>4. y = Insn("lb", RC1(h), 0, 0, v, FALSE)
  BY <1>3, Zenon DEF Rvc, Zero, Insn
<1> QED BY <1>1, <1>2, <1>4, Immediate_CILui, Registers, Zenon

\* insn_cbtype_read.
LEMMA Read_cb ==
    ASSUME NEW h \in Nat
    PROVE  insn_cbtype_read(h) = Insn("lb", 0, Register(h, "p7"), 0, Immediate(h, CB, TRUE),
         FALSE)
<1>1. PICK v : v = Extend(Raw_CB(h), 9)
  OBVIOUS
<1>2. PICK y : y = insn_cbtype_read(h)
  OBVIOUS
<1>3. y = [Rvc EXCEPT !.imm = v, !.rs1 = RP1(h) + 8]
  BY <1>1, <1>2, Zenon DEF insn_cbtype_read, Raw_CB
<1>4. y = Insn("lb", 0, RP1(h) + 8, 0, v, FALSE)
  BY <1>3, Zenon DEF Rvc, Zero, Insn
<1> QED BY <1>1, <1>2, <1>4, Immediate_CB, Registers, Zenon

\* insn_cbtype_read2.
LEMMA Read_cb2 ==
    ASSUME NEW h \in Nat
    PROVE  insn_cbtype_read2(h) = Insn("lb", Register(h, "p7"), 0, 0, Immediate(h, CI, TRUE),
         FALSE)
<1>1. PICK v : v = Extend(Raw_CI(h), 6)
  OBVIOUS
<1>2. PICK y : y = insn_cbtype_read2(h)
  OBVIOUS
<1>3. y = [Rvc EXCEPT !.imm = v, !.rd = RP1(h) + 8]
  BY <1>1, <1>2, Zenon DEF insn_cbtype_read2, Raw_CI
<1>4. y = Insn("lb", RP1(h) + 8, 0, 0, v, FALSE)
  BY <1>3, Zenon DEF Rvc, Zero, Insn
<1> QED BY <1>1, <1>2, <1>4, Immediate_CI, Registers, Zenon

\* insn_cstype_read.
LEMMA Read_cs ==
    ASSUME NEW h \in Nat
    PROVE  insn_cstype_read(h) = Insn("lb", 0, Register(h, "p7"), Register(h, "p2"),
         Immediate(h, CLd, FALSE), FALSE)
<1>1. PICK v : v = Raw_CLd(h)
  OBVIOUS
<1>2. PICK y : y = insn_cstype_read(h)
  OBVIOUS
<1>3. y = [Rvc EXCEPT !.imm = v, !.rs1 = RP1(h) + 8, !.rs2 = RP2(h) + 8]
  BY <1>1, <1>2, Zenon DEF insn_cstype_read, Raw_CLd
<1>4. y = Insn("lb", 0, RP1(h) + 8, RP2(h) + 8, v, FALSE)
  BY <1>3, Zenon DEF Rvc, Zero, Insn
<1> QED BY <1>1, <1>2, <1>4, Immediate_CLd, Registers, Zenon

\* insn_cstype_read2.
LEMMA Read_cs2 ==
    ASSUME NEW h \in Nat
    PROVE  insn_cstype_read2(h) = Insn("lb", 0, Register(h, "p7"), Register(h, "p2"),
         Immediate(h, CLw, FALSE), FALSE)
<1>1. PICK v : v = Raw_CLw(h)
  OBVIOUS
<1>2. PICK y : y = insn_cstype_read2(h)
  OBVIOUS
<1>3. y = [Rvc EXCEPT !.imm = v, !.rs1 = RP1(h) + 8, !.rs2 = RP2(h) + 8]
  BY <1>1, <1>2, Zenon DEF insn_cstype_read2, Raw_CLw
<1>4. y = Insn("lb", 0, RP1(h) + 8, RP2(h) + 8, v, FALSE)
  BY <1>3, Zenon DEF Rvc, Zero, Insn
<1> QED BY <1>1, <1>2, <1>4, Immediate_CLw, Registers, Zenon

\* insn_cjtype_read.
LEMMA Read_cj ==
    ASSUME NEW h \in Nat
    PROVE  insn_cjtype_read(h) = Insn("lb", 0, 0, 0, Immediate(h, CJ, TRUE), FALSE)
<1>1. PICK v : v = Extend(Raw_CJ(h), 12)
  OBVIOUS
<1>2. PICK y : y = insn_cjtype_read(h)
  OBVIOUS
<1>3. y = [Rvc EXCEPT !.imm = v]
  BY <1>1, <1>2, Zenon DEF insn_cjtype_read, Raw_CJ
<1>4. y = Insn("lb", 0, 0, 0, v, FALSE)
  BY <1>3, Zenon DEF Rvc, Zero, Insn
<1> QED BY <1>1, <1>2, <1>4, Immediate_CJ, Registers, Zenon

\* insn_cltype_read.
LEMMA Read_cl ==
    ASSUME NEW h \in Nat
    PROVE  insn_cltype_read(h) = Insn("lb", Register(h, "p2"), Register(h, "p7"), 0,
         Immediate(h, CLw, FALSE), FALSE)
<1>1. PICK v : v = Raw_CLw(h)
  OBVIOUS
<1>2. PICK y : y = insn_cltype_read(h)
  OBVIOUS
<1>3. y = [Rvc EXCEPT !.imm = v, !.rs1 = RP1(h) + 8, !.rd = RP2(h) + 8]
  BY <1>1, <1>2, Zenon DEF insn_cltype_read, Raw_CLw
<1>4. y = Insn("lb", RP2(h) + 8, RP1(h) + 8, 0, v, FALSE)
  BY <1>3, Zenon DEF Rvc, Zero, Insn
<1> QED BY <1>1, <1>2, <1>4, Immediate_CLw, Registers, Zenon

\* insn_cltype_read2.
LEMMA Read_cl2 ==
    ASSUME NEW h \in Nat
    PROVE  insn_cltype_read2(h) = Insn("lb", Register(h, "p2"), Register(h, "p7"), 0,
         Immediate(h, CLd, FALSE), FALSE)
<1>1. PICK v : v = Raw_CLd(h)
  OBVIOUS
<1>2. PICK y : y = insn_cltype_read2(h)
  OBVIOUS
<1>3. y = [Rvc EXCEPT !.imm = v, !.rs1 = RP1(h) + 8, !.rd = RP2(h) + 8]
  BY <1>1, <1>2, Zenon DEF insn_cltype_read2, Raw_CLd
<1>4. y = Insn("lb", RP2(h) + 8, RP1(h) + 8, 0, v, FALSE)
  BY <1>3, Zenon DEF Rvc, Zero, Insn
<1> QED BY <1>1, <1>2, <1>4, Immediate_CLd, Registers, Zenon

\* insn_csstype_read.
LEMMA Read_css ==
    ASSUME NEW h \in Nat
    PROVE  insn_csstype_read(h) = Insn("lb", 0, 0, Register(h, "r2"), Immediate(h, CSSSdsp,
         FALSE), FALSE)
<1>1. PICK v : v = Raw_CSSSdsp(h)
  OBVIOUS
<1>2. PICK y : y = insn_csstype_read(h)
  OBVIOUS
<1>3. y = [Rvc EXCEPT !.imm = v, !.rs2 = RC2(h)]
  BY <1>1, <1>2, Zenon DEF insn_csstype_read, Raw_CSSSdsp
<1>4. y = Insn("lb", 0, 0, RC2(h), v, FALSE)
  BY <1>3, Zenon DEF Rvc, Zero, Insn
<1> QED BY <1>1, <1>2, <1>4, Immediate_CSSSdsp, Registers, Zenon

\* insn_csstype_read2.
LEMMA Read_css2 ==
    ASSUME NEW h \in Nat
    PROVE  insn_csstype_read2(h) = Insn("lb", 0, 0, Register(h, "r2"), Immediate(h, CSSSwsp,
         FALSE), FALSE)
<1>1. PICK v : v = Raw_CSSSwsp(h)
  OBVIOUS
<1>2. PICK y : y = insn_csstype_read2(h)
  OBVIOUS
<1>3. y = [Rvc EXCEPT !.imm = v, !.rs2 = RC2(h)]
  BY <1>1, <1>2, Zenon DEF insn_csstype_read2, Raw_CSSSwsp
<1>4. y = Insn("lb", 0, 0, RC2(h), v, FALSE)
  BY <1>3, Zenon DEF Rvc, Zero, Insn
<1> QED BY <1>1, <1>2, <1>4, Immediate_CSSSwsp, Registers, Zenon

\* insn_ciwtype_read.
LEMMA Read_ciw ==
    ASSUME NEW h \in Nat
    PROVE  insn_ciwtype_read(h) = Insn("lb", Register(h, "p2"), 0, 0, Immediate(h, CIW, FALSE),
         FALSE)
<1>1. PICK v : v = Raw_CIW(h)
  OBVIOUS
<1>2. PICK y : y = insn_ciwtype_read(h)
  OBVIOUS
<1>3. y = [Rvc EXCEPT !.imm = v, !.rd = RP2(h) + 8]
  BY <1>1, <1>2, Zenon DEF insn_ciwtype_read, Raw_CIW
<1>4. y = Insn("lb", RP2(h) + 8, 0, 0, v, FALSE)
  BY <1>3, Zenon DEF Rvc, Zero, Insn
<1> QED BY <1>1, <1>2, <1>4, Immediate_CIW, Registers, Zenon
-----------------------------------------------------------------------------
(***************************************************************************)
(* Compressed words: which instruction a word is, and that insn_decode     *)
(* makes it the one it expands to.                                         *)
(***************************************************************************)

\* The types that compressed instructions expand to.
Half_types == {"addi", "fld", "lw", "ld", "fsd", "sw", "sd", "addiw", "lui", "srli", "srai",
     "andi", "sub",
    "xor", "or", "and", "subw", "addw", "jal", "beq", "bne", "slli", "jalr", "add"}

\* DecodesRvc of a word and an instruction, with the range of its type.
RightHalf(h, x) ==
    LET e == Expansion[Mnemonic(h)]
        imm == Immediate(h, e[2], e[3])
    IN  IF Undecodable(h) THEN x = Dies
        ELSE /\ x.type = e[1] /\ x.rvc
             /\ IF e[1] \in ShiftTypes THEN (x.imm - imm) % 64 = 0 ELSE x.imm = imm
             /\ x.rd = Register(h, e[4])
             /\ x.rs1 = Register(h, e[5])
             /\ x.rs2 = Register(h, e[6])
             /\ x.cont <=> e[1] \in {"jal", "jalr"}
             /\ x.type \in Half_types

\* Bits 15..13 and 1..0 select the instruction, in the tables and in the code.
LEMMA Mnemonic0 ==
    ASSUME NEW h \in Nat, QUADRANT(h) = 0
    PROVE  /\ COPCODE(h) = 0 => Mnemonic(h) = "addi4spn"
           /\ COPCODE(h) = 1 => Mnemonic(h) = "fld"
           /\ COPCODE(h) = 2 => Mnemonic(h) = "lw"
           /\ COPCODE(h) = 3 => Mnemonic(h) = "ld"
           /\ COPCODE(h) = 4 => Mnemonic(h) = "reserved"
           /\ COPCODE(h) = 5 => Mnemonic(h) = "fsd"
           /\ COPCODE(h) = 6 => Mnemonic(h) = "sw"
           /\ COPCODE(h) = 7 => Mnemonic(h) = "sd"
  BY SMT DEF Mnemonic, QUADRANT, COPCODE, Field

\* In the second quadrant.
LEMMA Mnemonic1 ==
    ASSUME NEW h \in Nat, QUADRANT(h) = 1
    PROVE  /\ COPCODE(h) = 0 => Mnemonic(h) = "addi"
           /\ COPCODE(h) = 1 => Mnemonic(h) = "addiw"
           /\ COPCODE(h) = 2 => Mnemonic(h) = "li"
           /\ COPCODE(h) = 3 /\ RC1(h) = 2 => Mnemonic(h) = "addi16sp"
           /\ COPCODE(h) = 3 /\ RC1(h) # 2 => Mnemonic(h) = "lui"
           /\ COPCODE(h) = 4 => Mnemonic(h) = Arithmetic(h)
           /\ COPCODE(h) = 5 => Mnemonic(h) = "j"
           /\ COPCODE(h) = 6 => Mnemonic(h) = "beqz"
           /\ COPCODE(h) = 7 => Mnemonic(h) = "bnez"
  BY SMT DEF Mnemonic, QUADRANT, COPCODE, RC1, Field

\* In the third.
LEMMA Mnemonic2 ==
    ASSUME NEW h \in Nat, QUADRANT(h) = 2
    PROVE  /\ COPCODE(h) = 0 => Mnemonic(h) = "slli"
           /\ COPCODE(h) = 1 => Mnemonic(h) = "fldsp"
           /\ COPCODE(h) = 2 => Mnemonic(h) = "lwsp"
           /\ COPCODE(h) = 3 => Mnemonic(h) = "ldsp"
           /\ COPCODE(h) = 4 => Mnemonic(h) = Jump(h)
           /\ COPCODE(h) = 5 => Mnemonic(h) = "fsdsp"
           /\ COPCODE(h) = 6 => Mnemonic(h) = "swsp"
           /\ COPCODE(h) = 7 => Mnemonic(h) = "sdsp"
  BY SMT DEF Mnemonic, QUADRANT, COPCODE, Field

\* Bits 11..10, 12 and 6..5 select among the arithmetic instructions.
LEMMA ArithmeticOf ==
    ASSUME NEW h \in Nat
    PROVE  /\ CFUNCT2HIGH(h) = 0 => Arithmetic(h) = "srli"
           /\ CFUNCT2HIGH(h) = 1 => Arithmetic(h) = "srai"
           /\ CFUNCT2HIGH(h) = 2 => Arithmetic(h) = "andi"
           /\ CFUNCT2HIGH(h) = 3 /\ CFUNCT1(h) = 0 /\ CFUNCT2LOW(h) = 0 => Arithmetic(h) = "sub"
           /\ CFUNCT2HIGH(h) = 3 /\ CFUNCT1(h) = 0 /\ CFUNCT2LOW(h) = 1 => Arithmetic(h) = "xor"
           /\ CFUNCT2HIGH(h) = 3 /\ CFUNCT1(h) = 0 /\ CFUNCT2LOW(h) = 2 => Arithmetic(h) = "or"
           /\ CFUNCT2HIGH(h) = 3 /\ CFUNCT1(h) = 0 /\ CFUNCT2LOW(h) = 3 => Arithmetic(h) = "and"
           /\ CFUNCT2HIGH(h) = 3 /\ CFUNCT1(h) = 1 /\ CFUNCT2LOW(h) = 0 => Arithmetic(h) = "subw"
           /\ CFUNCT2HIGH(h) = 3 /\ CFUNCT1(h) = 1 /\ CFUNCT2LOW(h) = 1 => Arithmetic(h) = "addw"
           /\ CFUNCT2HIGH(h) = 3 /\ CFUNCT1(h) = 1
                /\ CFUNCT2LOW(h) = 2 => Arithmetic(h) = "reserved"
           /\ CFUNCT2HIGH(h) = 3 /\ CFUNCT1(h) = 1
                /\ CFUNCT2LOW(h) = 3 => Arithmetic(h) = "reserved"
  BY SMT DEF Arithmetic, CFUNCT2HIGH, CFUNCT1, CFUNCT2LOW

\* Bit 12 and the two registers select among the jumps and moves.
LEMMA JumpOf ==
    ASSUME NEW h \in Nat
    PROVE  /\ CFUNCT1(h) = 0 /\ RC2(h) # 0 => Jump(h) = "mv"
           /\ CFUNCT1(h) = 0 /\ RC2(h) = 0 /\ RC1(h) # 0 => Jump(h) = "jr"
           /\ CFUNCT1(h) = 0 /\ RC2(h) = 0 /\ RC1(h) = 0 => Jump(h) = "reserved"
           /\ CFUNCT1(h) = 1 /\ RC2(h) # 0 => Jump(h) = "add"
           /\ CFUNCT1(h) = 1 /\ RC2(h) = 0 /\ RC1(h) # 0 => Jump(h) = "jalr"
           /\ CFUNCT1(h) = 1 /\ RC2(h) = 0 /\ RC1(h) = 0 => Jump(h) = "ebreak"
  BY SMT DEF Jump, CFUNCT1, RC1, RC2

\* The rows of the table.
LEMMA Expansion1 ==
    /\ Expansion["addi4spn"] = <<"addi", CIW, FALSE, "p2", "x2", "x0">>
    /\ Expansion["fld"] = <<"fld", CLd, FALSE, "p2", "p7", "x0">>
    /\ Expansion["lw"] = <<"lw", CLw, FALSE, "p2", "p7", "x0">>
    /\ Expansion["ld"] = <<"ld", CLd, FALSE, "p2", "p7", "x0">>
    /\ Expansion["fsd"] = <<"fsd", CLd, FALSE, "x0", "p7", "p2">>
  BY DEF Expansion

\* More of them.
LEMMA Expansion2 ==
    /\ Expansion["sw"] = <<"sw", CLw, FALSE, "x0", "p7", "p2">>
    /\ Expansion["sd"] = <<"sd", CLd, FALSE, "x0", "p7", "p2">>
    /\ Expansion["addi"] = <<"addi", CI, TRUE, "r7", "r7", "x0">>
    /\ Expansion["addiw"] = <<"addiw", CI, TRUE, "r7", "r7", "x0">>
    /\ Expansion["li"] = <<"addi", CI, TRUE, "r7", "x0", "x0">>
  BY DEF Expansion

\* More of them.
LEMMA Expansion3 ==
    /\ Expansion["addi16sp"] = <<"addi", CI16sp, TRUE, "x2", "x2", "x0">>
    /\ Expansion["lui"] = <<"lui", CILui, TRUE, "r7", "x0", "x0">>
    /\ Expansion["srli"] = <<"srli", CI, FALSE, "p7", "p7", "x0">>
    /\ Expansion["srai"] = <<"srai", CI, FALSE, "p7", "p7", "x0">>
    /\ Expansion["andi"] = <<"andi", CI, TRUE, "p7", "p7", "x0">>
  BY DEF Expansion

\* More of them.
LEMMA Expansion4 ==
    /\ Expansion["sub"] = <<"sub", CR, FALSE, "p7", "p7", "p2">>
    /\ Expansion["xor"] = <<"xor", CR, FALSE, "p7", "p7", "p2">>
    /\ Expansion["or"] = <<"or", CR, FALSE, "p7", "p7", "p2">>
    /\ Expansion["and"] = <<"and", CR, FALSE, "p7", "p7", "p2">>
    /\ Expansion["subw"] = <<"subw", CR, FALSE, "p7", "p7", "p2">>
  BY DEF Expansion

\* More of them.
LEMMA Expansion5 ==
    /\ Expansion["addw"] = <<"addw", CR, FALSE, "p7", "p7", "p2">>
    /\ Expansion["j"] = <<"jal", CJ, TRUE, "x0", "x0", "x0">>
    /\ Expansion["beqz"] = <<"beq", CB, TRUE, "x0", "p7", "x0">>
    /\ Expansion["bnez"] = <<"bne", CB, TRUE, "x0", "p7", "x0">>
    /\ Expansion["slli"] = <<"slli", CI, FALSE, "r7", "r7", "x0">>
  BY DEF Expansion

\* More of them.
LEMMA Expansion6 ==
    /\ Expansion["fldsp"] = <<"fld", CILdsp, FALSE, "r7", "x2", "x0">>
    /\ Expansion["lwsp"] = <<"lw", CILwsp, FALSE, "r7", "x2", "x0">>
    /\ Expansion["ldsp"] = <<"ld", CILdsp, FALSE, "r7", "x2", "x0">>
    /\ Expansion["jr"] = <<"jalr", CR, FALSE, "x0", "r7", "x0">>
    /\ Expansion["mv"] = <<"add", CR, FALSE, "r7", "x0", "r2">>
  BY DEF Expansion

\* More of them.
LEMMA Expansion7 ==
    /\ Expansion["jalr"] = <<"jalr", CR, FALSE, "x1", "r7", "x0">>
    /\ Expansion["add"] = <<"add", CR, FALSE, "r7", "r7", "r2">>
    /\ Expansion["fsdsp"] = <<"fsd", CSSSdsp, FALSE, "x0", "x2", "r2">>
    /\ Expansion["swsp"] = <<"sw", CSSSwsp, FALSE, "x0", "x2", "r2">>
    /\ Expansion["sdsp"] = <<"sd", CSSSdsp, FALSE, "x0", "x2", "r2">>
  BY DEF Expansion

\* Which words are undecodable.
LEMMA Decodable1 ==
    ASSUME NEW h, Mnemonic(h) \in {"fld", "lw", "ld", "fsd", "sw", "sd", "addi", "li", "srli",
         "srai"}
    PROVE  ~Undecodable(h)
  BY DEF Undecodable

\* More of them.
LEMMA Decodable2 ==
    ASSUME NEW h, Mnemonic(h) \in {"andi", "sub", "xor", "or", "and", "subw", "addw", "j",
         "beqz", "bnez"}
    PROVE  ~Undecodable(h)
  BY DEF Undecodable

\* More of them.
LEMMA Decodable3 ==
    ASSUME NEW h, Mnemonic(h) \in {"slli", "fldsp", "jr", "mv", "jalr", "add", "fsdsp", "swsp",
         "sdsp"}
    PROVE  ~Undecodable(h)
  BY DEF Undecodable

\* Three of the instructions need a register other than x0.
LEMMA Undecodable_rd ==
    ASSUME NEW h, Mnemonic(h) \in {"addiw", "lwsp", "ldsp"}
    PROVE  Undecodable(h) <=> RC1(h) = 0
  BY DEF Undecodable, RC1

\* Reserved words and the ebreak are never decoded.
LEMMA Undecodable_reserved ==
    ASSUME NEW h, Mnemonic(h) \in {"reserved", "ebreak"}
    PROVE  Undecodable(h)
  BY DEF Undecodable

\* c.addi4spn needs an immediate other than 0.
LEMMA Undecodable_addi4spn ==
    ASSUME NEW h \in Nat, Mnemonic(h) = "addi4spn"
    PROVE  Undecodable(h) <=> Immediate(h, CIW, FALSE) = 0
<1>1. Expansion["addi4spn"][2] = CIW
  BY Expansion1
<1>2. Undecodable(h) <=> Immediate(h, CIW, FALSE) = 0
  BY <1>1, Zenon DEF Undecodable
<1> QED BY <1>2, Zenon

\* c.addi16sp needs an immediate other than 0.
LEMMA Undecodable_addi16sp ==
    ASSUME NEW h \in Nat, Mnemonic(h) = "addi16sp"
    PROVE  Undecodable(h) <=> Immediate(h, CI16sp, TRUE) = 0
<1>1. Expansion["addi16sp"][2] = CI16sp
  BY Expansion3
<1>2. Undecodable(h) <=> Immediate(h, CI16sp, FALSE) = 0
  BY <1>1, Zenon DEF Undecodable
<1> QED BY <1>2, Zero_CI16sp, Zenon

\* c.lui needs an immediate other than 0.
LEMMA Undecodable_lui ==
    ASSUME NEW h \in Nat, Mnemonic(h) = "lui"
    PROVE  Undecodable(h) <=> Immediate(h, CILui, TRUE) = 0
<1>1. Expansion["lui"][2] = CILui
  BY Expansion3
<1>2. Undecodable(h) <=> Immediate(h, CILui, FALSE) = 0
  BY <1>1, Zenon DEF Undecodable
<1> QED BY <1>2, Zero_CILui, Zenon

\* What makes an instruction the one a word expands to.
LEMMA Expands ==
    ASSUME NEW h \in Nat, NEW m, Mnemonic(h) = m, ~Undecodable(h),
           NEW t \in Half_types, NEW layout, NEW signed, NEW a, NEW b, NEW c, NEW imm, NEW x,
           Expansion[m] = <<t, layout, signed, a, b, c>>, t \notin {"jal", "jalr"},
                t \notin ShiftTypes,
           x = Insn(t, Register(h, a), Register(h, b), Register(h, c), imm, FALSE),
           imm = Immediate(h, layout, signed)
    PROVE  RightHalf(h, x)
<1>1. PICK e : e = Expansion[Mnemonic(h)]
  OBVIOUS
<1>2. e[1] = t /\ e[2] = layout /\ e[3] = signed /\ e[4] = a /\ e[5] = b /\ e[6] = c
  BY <1>1, SMT
<1>3. /\ x.type = t /\ x.rvc = TRUE /\ x.imm = imm /\ x.rd = Register(h, a)
      /\ x.rs1 = Register(h, b) /\ x.rs2 = Register(h, c) /\ x.cont = FALSE
  BY SMT DEF Insn
<1>4. t \in {"jal", "jalr"} <=> FALSE
  BY DEF ShiftTypes
<1>5. t \in ShiftTypes <=> FALSE
  BY DEF ShiftTypes
<1> QED BY <1>1, <1>2, <1>3, <1>4, <1>5, Zenon DEF RightHalf

\* The same for a jump, which sets the flag.
LEMMA Expands_jump ==
    ASSUME NEW h \in Nat, NEW m, Mnemonic(h) = m, ~Undecodable(h),
           NEW t \in Half_types, NEW layout, NEW signed, NEW a, NEW b, NEW c, NEW imm, NEW x,
           Expansion[m] = <<t, layout, signed, a, b, c>>, t \in {"jal", "jalr"},
           x = Insn(t, Register(h, a), Register(h, b), Register(h, c), imm, TRUE),
           imm = Immediate(h, layout, signed)
    PROVE  RightHalf(h, x)
<1>1. PICK e : e = Expansion[Mnemonic(h)]
  OBVIOUS
<1>2. e[1] = t /\ e[2] = layout /\ e[3] = signed /\ e[4] = a /\ e[5] = b /\ e[6] = c
  BY <1>1, SMT
<1>3. /\ x.type = t /\ x.rvc = TRUE /\ x.imm = imm /\ x.rd = Register(h, a)
      /\ x.rs1 = Register(h, b) /\ x.rs2 = Register(h, c) /\ x.cont = TRUE
  BY SMT DEF Insn
<1>4. t \in {"jal", "jalr"} <=> TRUE
  BY DEF ShiftTypes
<1>5. t \in ShiftTypes <=> FALSE
  BY DEF ShiftTypes
<1> QED BY <1>1, <1>2, <1>3, <1>4, <1>5, Zenon DEF RightHalf

\* And for a shift, whose amount is compared modulo 64.
LEMMA Expands_shift ==
    ASSUME NEW h \in Nat, NEW m, Mnemonic(h) = m, ~Undecodable(h),
           NEW t \in Half_types, NEW layout, NEW signed, NEW a, NEW b, NEW c, NEW imm, NEW x,
           Expansion[m] = <<t, layout, signed, a, b, c>>, t \in ShiftTypes,
           x = Insn(t, Register(h, a), Register(h, b), Register(h, c), imm, FALSE),
           (imm - Immediate(h, layout, signed)) % 64 = 0
    PROVE  RightHalf(h, x)
<1>1. PICK e : e = Expansion[Mnemonic(h)]
  OBVIOUS
<1>2. e[1] = t /\ e[2] = layout /\ e[3] = signed /\ e[4] = a /\ e[5] = b /\ e[6] = c
  BY <1>1, SMT
<1>3. /\ x.type = t /\ x.rvc = TRUE /\ x.imm = imm /\ x.rd = Register(h, a)
      /\ x.rs1 = Register(h, b) /\ x.rs2 = Register(h, c) /\ x.cont = FALSE
  BY SMT DEF Insn
<1>4. t \in {"jal", "jalr"} <=> FALSE
  BY DEF ShiftTypes
<1>5. t \in ShiftTypes <=> TRUE
  BY DEF ShiftTypes
<1> QED BY <1>1, <1>2, <1>3, <1>4, <1>5, Zenon DEF RightHalf

\* What makes the end of the emulator right.
LEMMA Refused ==
    ASSUME NEW h, Undecodable(h), NEW x, x = Dies
    PROVE  RightHalf(h, x)
  BY Zenon DEF RightHalf

\* c.addi4spn.
LEMMA Half_addi4spn ==
    ASSUME NEW h \in Nat, QUADRANT(h) = 0, COPCODE(h) = 0,
           NEW x, x = insn_decode_rvc(h)
    PROVE  RightHalf(h, x)
<1>1. Mnemonic(h) = "addi4spn"
  BY Mnemonic0
<1>2. PICK y, v : y = insn_ciwtype_read(h) /\ v = Immediate(h, CIW, FALSE)
  OBVIOUS
<1>3. y = Insn("lb", Register(h, "p2"), 0, 0, v, FALSE)
  BY <1>2, Read_ciw, Zenon
<1>4. x = Asserted(y.imm # 0, [Typed(y, "addi") EXCEPT !.rs1 = sp])
  BY <1>2, SMT DEF insn_decode_rvc, quadrant0
<1>5. y.imm = v
  BY <1>3, Registers, Zenon DEF Insn
<1>6. Undecodable(h) <=> v = 0
  BY <1>1, <1>2, Undecodable_addi4spn
<1>7. CASE Undecodable(h)
  <2>1. x = Dies
    BY <1>4, <1>5, <1>6, <1>7, Zenon DEF Asserted
  <2> QED BY <1>7, <2>1, Refused
<1>8. CASE ~Undecodable(h)
  <2>1. x = [Typed(y, "addi") EXCEPT !.rs1 = sp]
    BY <1>4, <1>5, <1>6, <1>8, Zenon DEF Asserted
  <2>2. x = Insn("addi", Register(h, "p2"), 2, 0, v, FALSE)
    BY <1>3, <2>1, Zenon DEF Insn, Typed, sp
  <2>3. x = Insn("addi", Register(h, "p2"), Register(h, "x2"), Register(h, "x0"), v, FALSE)
    BY <2>2, Registers, Zenon
  <2>4. v = Immediate(h, CIW, FALSE)
    BY <1>2
  <2>5. Expansion["addi4spn"] = <<"addi", CIW, FALSE, "p2", "x2", "x0">>
    BY Expansion1
  <2>6. "addi" \in Half_types /\ "addi" \notin {"jal", "jalr"} /\ "addi" \notin ShiftTypes
    BY DEF Half_types, ShiftTypes
  <2> QED BY <1>1, <2>3, <2>4, <2>5, <2>6, <1>8, Expands, Zenon
<1> QED BY <1>7, <1>8

\* c.fld.
LEMMA Half_fld ==
    ASSUME NEW h \in Nat, QUADRANT(h) = 0, COPCODE(h) = 1,
           NEW x, x = insn_decode_rvc(h)
    PROVE  RightHalf(h, x)
<1>1. Mnemonic(h) = "fld"
  BY Mnemonic0
<1>2. PICK y, v : y = insn_cltype_read2(h) /\ v = Immediate(h, CLd, FALSE)
  OBVIOUS
<1>3. y = Insn("lb", Register(h, "p2"), Register(h, "p7"), 0, v, FALSE)
  BY <1>2, Read_cl2, Zenon
<1>4. x = Typed(y, "fld")
  BY <1>2, SMT DEF insn_decode_rvc, quadrant0
<1>5. x = Insn("fld", Register(h, "p2"), Register(h, "p7"), 0, v, FALSE)
  BY <1>3, <1>4, Zenon DEF Insn, Typed
<1>6. x = Insn("fld", Register(h, "p2"), Register(h, "p7"), Register(h, "x0"), v, FALSE)
  BY <1>5, Registers, Zenon
<1>7. v = Immediate(h, CLd, FALSE)
  BY <1>2
<1>8. Expansion["fld"] = <<"fld", CLd, FALSE, "p2", "p7", "x0">>
  BY Expansion1
<1>9. "fld" \in Half_types /\ "fld" \notin {"jal", "jalr"} /\ "fld" \notin ShiftTypes
  BY DEF Half_types, ShiftTypes
<1>10. ~Undecodable(h)
  BY <1>1, Decodable1
<1> QED BY <1>1, <1>6, <1>7, <1>8, <1>9, <1>10, Expands, Zenon

\* c.lw.
LEMMA Half_lw ==
    ASSUME NEW h \in Nat, QUADRANT(h) = 0, COPCODE(h) = 2,
           NEW x, x = insn_decode_rvc(h)
    PROVE  RightHalf(h, x)
<1>1. Mnemonic(h) = "lw"
  BY Mnemonic0
<1>2. PICK y, v : y = insn_cltype_read(h) /\ v = Immediate(h, CLw, FALSE)
  OBVIOUS
<1>3. y = Insn("lb", Register(h, "p2"), Register(h, "p7"), 0, v, FALSE)
  BY <1>2, Read_cl, Zenon
<1>4. x = Typed(y, "lw")
  BY <1>2, SMT DEF insn_decode_rvc, quadrant0
<1>5. x = Insn("lw", Register(h, "p2"), Register(h, "p7"), 0, v, FALSE)
  BY <1>3, <1>4, Zenon DEF Insn, Typed
<1>6. x = Insn("lw", Register(h, "p2"), Register(h, "p7"), Register(h, "x0"), v, FALSE)
  BY <1>5, Registers, Zenon
<1>7. v = Immediate(h, CLw, FALSE)
  BY <1>2
<1>8. Expansion["lw"] = <<"lw", CLw, FALSE, "p2", "p7", "x0">>
  BY Expansion1
<1>9. "lw" \in Half_types /\ "lw" \notin {"jal", "jalr"} /\ "lw" \notin ShiftTypes
  BY DEF Half_types, ShiftTypes
<1>10. ~Undecodable(h)
  BY <1>1, Decodable1
<1> QED BY <1>1, <1>6, <1>7, <1>8, <1>9, <1>10, Expands, Zenon

\* c.ld.
LEMMA Half_ld ==
    ASSUME NEW h \in Nat, QUADRANT(h) = 0, COPCODE(h) = 3,
           NEW x, x = insn_decode_rvc(h)
    PROVE  RightHalf(h, x)
<1>1. Mnemonic(h) = "ld"
  BY Mnemonic0
<1>2. PICK y, v : y = insn_cltype_read2(h) /\ v = Immediate(h, CLd, FALSE)
  OBVIOUS
<1>3. y = Insn("lb", Register(h, "p2"), Register(h, "p7"), 0, v, FALSE)
  BY <1>2, Read_cl2, Zenon
<1>4. x = Typed(y, "ld")
  BY <1>2, SMT DEF insn_decode_rvc, quadrant0
<1>5. x = Insn("ld", Register(h, "p2"), Register(h, "p7"), 0, v, FALSE)
  BY <1>3, <1>4, Zenon DEF Insn, Typed
<1>6. x = Insn("ld", Register(h, "p2"), Register(h, "p7"), Register(h, "x0"), v, FALSE)
  BY <1>5, Registers, Zenon
<1>7. v = Immediate(h, CLd, FALSE)
  BY <1>2
<1>8. Expansion["ld"] = <<"ld", CLd, FALSE, "p2", "p7", "x0">>
  BY Expansion1
<1>9. "ld" \in Half_types /\ "ld" \notin {"jal", "jalr"} /\ "ld" \notin ShiftTypes
  BY DEF Half_types, ShiftTypes
<1>10. ~Undecodable(h)
  BY <1>1, Decodable1
<1> QED BY <1>1, <1>6, <1>7, <1>8, <1>9, <1>10, Expands, Zenon

\* c.fsd.
LEMMA Half_fsd ==
    ASSUME NEW h \in Nat, QUADRANT(h) = 0, COPCODE(h) = 5,
           NEW x, x = insn_decode_rvc(h)
    PROVE  RightHalf(h, x)
<1>1. Mnemonic(h) = "fsd"
  BY Mnemonic0
<1>2. PICK y, v : y = insn_cstype_read(h) /\ v = Immediate(h, CLd, FALSE)
  OBVIOUS
<1>3. y = Insn("lb", 0, Register(h, "p7"), Register(h, "p2"), v, FALSE)
  BY <1>2, Read_cs, Zenon
<1>4. x = Typed(y, "fsd")
  BY <1>2, SMT DEF insn_decode_rvc, quadrant0
<1>5. x = Insn("fsd", 0, Register(h, "p7"), Register(h, "p2"), v, FALSE)
  BY <1>3, <1>4, Zenon DEF Insn, Typed
<1>6. x = Insn("fsd", Register(h, "x0"), Register(h, "p7"), Register(h, "p2"), v, FALSE)
  BY <1>5, Registers, Zenon
<1>7. v = Immediate(h, CLd, FALSE)
  BY <1>2
<1>8. Expansion["fsd"] = <<"fsd", CLd, FALSE, "x0", "p7", "p2">>
  BY Expansion1
<1>9. "fsd" \in Half_types /\ "fsd" \notin {"jal", "jalr"} /\ "fsd" \notin ShiftTypes
  BY DEF Half_types, ShiftTypes
<1>10. ~Undecodable(h)
  BY <1>1, Decodable1
<1> QED BY <1>1, <1>6, <1>7, <1>8, <1>9, <1>10, Expands, Zenon

\* c.sw.
LEMMA Half_sw ==
    ASSUME NEW h \in Nat, QUADRANT(h) = 0, COPCODE(h) = 6,
           NEW x, x = insn_decode_rvc(h)
    PROVE  RightHalf(h, x)
<1>1. Mnemonic(h) = "sw"
  BY Mnemonic0
<1>2. PICK y, v : y = insn_cstype_read2(h) /\ v = Immediate(h, CLw, FALSE)
  OBVIOUS
<1>3. y = Insn("lb", 0, Register(h, "p7"), Register(h, "p2"), v, FALSE)
  BY <1>2, Read_cs2, Zenon
<1>4. x = Typed(y, "sw")
  BY <1>2, SMT DEF insn_decode_rvc, quadrant0
<1>5. x = Insn("sw", 0, Register(h, "p7"), Register(h, "p2"), v, FALSE)
  BY <1>3, <1>4, Zenon DEF Insn, Typed
<1>6. x = Insn("sw", Register(h, "x0"), Register(h, "p7"), Register(h, "p2"), v, FALSE)
  BY <1>5, Registers, Zenon
<1>7. v = Immediate(h, CLw, FALSE)
  BY <1>2
<1>8. Expansion["sw"] = <<"sw", CLw, FALSE, "x0", "p7", "p2">>
  BY Expansion2
<1>9. "sw" \in Half_types /\ "sw" \notin {"jal", "jalr"} /\ "sw" \notin ShiftTypes
  BY DEF Half_types, ShiftTypes
<1>10. ~Undecodable(h)
  BY <1>1, Decodable1
<1> QED BY <1>1, <1>6, <1>7, <1>8, <1>9, <1>10, Expands, Zenon

\* c.sd.
LEMMA Half_sd ==
    ASSUME NEW h \in Nat, QUADRANT(h) = 0, COPCODE(h) = 7,
           NEW x, x = insn_decode_rvc(h)
    PROVE  RightHalf(h, x)
<1>1. Mnemonic(h) = "sd"
  BY Mnemonic0
<1>2. PICK y, v : y = insn_cstype_read(h) /\ v = Immediate(h, CLd, FALSE)
  OBVIOUS
<1>3. y = Insn("lb", 0, Register(h, "p7"), Register(h, "p2"), v, FALSE)
  BY <1>2, Read_cs, Zenon
<1>4. x = Typed(y, "sd")
  BY <1>2, SMT DEF insn_decode_rvc, quadrant0
<1>5. x = Insn("sd", 0, Register(h, "p7"), Register(h, "p2"), v, FALSE)
  BY <1>3, <1>4, Zenon DEF Insn, Typed
<1>6. x = Insn("sd", Register(h, "x0"), Register(h, "p7"), Register(h, "p2"), v, FALSE)
  BY <1>5, Registers, Zenon
<1>7. v = Immediate(h, CLd, FALSE)
  BY <1>2
<1>8. Expansion["sd"] = <<"sd", CLd, FALSE, "x0", "p7", "p2">>
  BY Expansion2
<1>9. "sd" \in Half_types /\ "sd" \notin {"jal", "jalr"} /\ "sd" \notin ShiftTypes
  BY DEF Half_types, ShiftTypes
<1>10. ~Undecodable(h)
  BY <1>1, Decodable1
<1> QED BY <1>1, <1>6, <1>7, <1>8, <1>9, <1>10, Expands, Zenon

\* c.addi.
LEMMA Half_addi ==
    ASSUME NEW h \in Nat, QUADRANT(h) = 1, COPCODE(h) = 0,
           NEW x, x = insn_decode_rvc(h)
    PROVE  RightHalf(h, x)
<1>1. Mnemonic(h) = "addi"
  BY Mnemonic1
<1>2. PICK y, v : y = insn_citype_read(h) /\ v = Immediate(h, CI, TRUE)
  OBVIOUS
<1>3. y = Insn("lb", Register(h, "r7"), 0, 0, v, FALSE)
  BY <1>2, Read_ci, Zenon
<1>4. x = Typed(OnItself(y), "addi")
  BY <1>2, SMT DEF insn_decode_rvc, quadrant1
<1>5. x = Insn("addi", Register(h, "r7"), Register(h, "r7"), 0, v, FALSE)
  BY <1>3, <1>4, Zenon DEF Insn, Typed, OnItself
<1>6. x = Insn("addi", Register(h, "r7"), Register(h, "r7"), Register(h, "x0"), v, FALSE)
  BY <1>5, Registers, Zenon
<1>7. v = Immediate(h, CI, TRUE)
  BY <1>2
<1>8. Expansion["addi"] = <<"addi", CI, TRUE, "r7", "r7", "x0">>
  BY Expansion2
<1>9. "addi" \in Half_types /\ "addi" \notin {"jal", "jalr"} /\ "addi" \notin ShiftTypes
  BY DEF Half_types, ShiftTypes
<1>10. ~Undecodable(h)
  BY <1>1, Decodable1
<1> QED BY <1>1, <1>6, <1>7, <1>8, <1>9, <1>10, Expands, Zenon

\* c.addiw.
LEMMA Half_addiw ==
    ASSUME NEW h \in Nat, QUADRANT(h) = 1, COPCODE(h) = 1,
           NEW x, x = insn_decode_rvc(h)
    PROVE  RightHalf(h, x)
<1>1. Mnemonic(h) = "addiw"
  BY Mnemonic1
<1>2. PICK y, v : y = insn_citype_read(h) /\ v = Immediate(h, CI, TRUE)
  OBVIOUS
<1>3. y = Insn("lb", Register(h, "r7"), 0, 0, v, FALSE)
  BY <1>2, Read_ci, Zenon
<1>4. x = Asserted(y.rd # 0, Typed(OnItself(y), "addiw"))
  BY <1>2, SMT DEF insn_decode_rvc, quadrant1
<1>5. y.rd = RC1(h)
  BY <1>3, Registers, Zenon DEF Insn
<1>6. Undecodable(h) <=> RC1(h) = 0
  BY <1>1, Undecodable_rd
<1>7. CASE Undecodable(h)
  <2>1. x = Dies
    BY <1>4, <1>5, <1>6, <1>7, Zenon DEF Asserted
  <2> QED BY <1>7, <2>1, Refused
<1>8. CASE ~Undecodable(h)
  <2>1. x = Typed(OnItself(y), "addiw")
    BY <1>4, <1>5, <1>6, <1>8, Zenon DEF Asserted
  <2>2. x = Insn("addiw", Register(h, "r7"), Register(h, "r7"), 0, v, FALSE)
    BY <1>3, <2>1, Zenon DEF Insn, Typed, OnItself
  <2>3. x = Insn("addiw", Register(h, "r7"), Register(h, "r7"), Register(h, "x0"), v, FALSE)
    BY <2>2, Registers, Zenon
  <2>4. v = Immediate(h, CI, TRUE)
    BY <1>2
  <2>5. Expansion["addiw"] = <<"addiw", CI, TRUE, "r7", "r7", "x0">>
    BY Expansion2
  <2>6. "addiw" \in Half_types /\ "addiw" \notin {"jal", "jalr"} /\ "addiw" \notin ShiftTypes
    BY DEF Half_types, ShiftTypes
  <2> QED BY <1>1, <2>3, <2>4, <2>5, <2>6, <1>8, Expands, Zenon
<1> QED BY <1>7, <1>8

\* c.li.
LEMMA Half_li ==
    ASSUME NEW h \in Nat, QUADRANT(h) = 1, COPCODE(h) = 2,
           NEW x, x = insn_decode_rvc(h)
    PROVE  RightHalf(h, x)
<1>1. Mnemonic(h) = "li"
  BY Mnemonic1
<1>2. PICK y, v : y = insn_citype_read(h) /\ v = Immediate(h, CI, TRUE)
  OBVIOUS
<1>3. y = Insn("lb", Register(h, "r7"), 0, 0, v, FALSE)
  BY <1>2, Read_ci, Zenon
<1>4. x = [Typed(y, "addi") EXCEPT !.rs1 = zero]
  BY <1>2, SMT DEF insn_decode_rvc, quadrant1
<1>5. x = Insn("addi", Register(h, "r7"), 0, 0, v, FALSE)
  BY <1>3, <1>4, Zenon DEF Insn, Typed, zero
<1>6. x = Insn("addi", Register(h, "r7"), Register(h, "x0"), Register(h, "x0"), v, FALSE)
  BY <1>5, Registers, Zenon
<1>7. v = Immediate(h, CI, TRUE)
  BY <1>2
<1>8. Expansion["li"] = <<"addi", CI, TRUE, "r7", "x0", "x0">>
  BY Expansion2
<1>9. "addi" \in Half_types /\ "addi" \notin {"jal", "jalr"} /\ "addi" \notin ShiftTypes
  BY DEF Half_types, ShiftTypes
<1>10. ~Undecodable(h)
  BY <1>1, Decodable1
<1> QED BY <1>1, <1>6, <1>7, <1>8, <1>9, <1>10, Expands, Zenon

\* c.addi16sp.
LEMMA Half_addi16sp ==
    ASSUME NEW h \in Nat, QUADRANT(h) = 1, COPCODE(h) = 3, RC1(h) = 2,
           NEW x, x = insn_decode_rvc(h)
    PROVE  RightHalf(h, x)
<1>1. Mnemonic(h) = "addi16sp"
  BY Mnemonic1
<1>2. PICK y, v : y = insn_citype_read3(h) /\ v = Immediate(h, CI16sp, TRUE)
  OBVIOUS
<1>3. y = Insn("lb", Register(h, "r7"), 0, 0, v, FALSE)
  BY <1>2, Read_ci3, Zenon
<1>4. x = Asserted(y.imm # 0, Typed(OnItself(y), "addi"))
  BY <1>2, SMT DEF insn_decode_rvc, quadrant1
<1>5. y.imm = v
  BY <1>3, Registers, Zenon DEF Insn
<1>6. Undecodable(h) <=> v = 0
  BY <1>1, <1>2, Undecodable_addi16sp
<1>7. CASE Undecodable(h)
  <2>1. x = Dies
    BY <1>4, <1>5, <1>6, <1>7, Zenon DEF Asserted
  <2> QED BY <1>7, <2>1, Refused
<1>8. CASE ~Undecodable(h)
  <2>1. x = Typed(OnItself(y), "addi")
    BY <1>4, <1>5, <1>6, <1>8, Zenon DEF Asserted
  <2>2. x = Insn("addi", Register(h, "r7"), Register(h, "r7"), 0, v, FALSE)
    BY <1>3, <2>1, Zenon DEF Insn, Typed, OnItself
  <2>3. x = Insn("addi", Register(h, "x2"), Register(h, "x2"), Register(h, "x0"), v, FALSE)
    BY <2>2, Registers, Zenon
  <2>4. v = Immediate(h, CI16sp, TRUE)
    BY <1>2
  <2>5. Expansion["addi16sp"] = <<"addi", CI16sp, TRUE, "x2", "x2", "x0">>
    BY Expansion3
  <2>6. "addi" \in Half_types /\ "addi" \notin {"jal", "jalr"} /\ "addi" \notin ShiftTypes
    BY DEF Half_types, ShiftTypes
  <2> QED BY <1>1, <2>3, <2>4, <2>5, <2>6, <1>8, Expands, Zenon
<1> QED BY <1>7, <1>8

\* c.lui.
LEMMA Half_lui ==
    ASSUME NEW h \in Nat, QUADRANT(h) = 1, COPCODE(h) = 3, RC1(h) # 2,
           NEW x, x = insn_decode_rvc(h)
    PROVE  RightHalf(h, x)
<1>1. Mnemonic(h) = "lui"
  BY Mnemonic1
<1>2. PICK y, v : y = insn_citype_read5(h) /\ v = Immediate(h, CILui, TRUE)
  OBVIOUS
<1>3. y = Insn("lb", Register(h, "r7"), 0, 0, v, FALSE)
  BY <1>2, Read_ci5, Zenon
<1>4. x = Asserted(y.imm # 0, Typed(y, "lui"))
  BY <1>2, SMT DEF insn_decode_rvc, quadrant1
<1>5. y.imm = v
  BY <1>3, Registers, Zenon DEF Insn
<1>6. Undecodable(h) <=> v = 0
  BY <1>1, <1>2, Undecodable_lui
<1>7. CASE Undecodable(h)
  <2>1. x = Dies
    BY <1>4, <1>5, <1>6, <1>7, Zenon DEF Asserted
  <2> QED BY <1>7, <2>1, Refused
<1>8. CASE ~Undecodable(h)
  <2>1. x = Typed(y, "lui")
    BY <1>4, <1>5, <1>6, <1>8, Zenon DEF Asserted
  <2>2. x = Insn("lui", Register(h, "r7"), 0, 0, v, FALSE)
    BY <1>3, <2>1, Zenon DEF Insn, Typed
  <2>3. x = Insn("lui", Register(h, "r7"), Register(h, "x0"), Register(h, "x0"), v, FALSE)
    BY <2>2, Registers, Zenon
  <2>4. v = Immediate(h, CILui, TRUE)
    BY <1>2
  <2>5. Expansion["lui"] = <<"lui", CILui, TRUE, "r7", "x0", "x0">>
    BY Expansion3
  <2>6. "lui" \in Half_types /\ "lui" \notin {"jal", "jalr"} /\ "lui" \notin ShiftTypes
    BY DEF Half_types, ShiftTypes
  <2> QED BY <1>1, <2>3, <2>4, <2>5, <2>6, <1>8, Expands, Zenon
<1> QED BY <1>7, <1>8

\* c.srli.
LEMMA Half_srli ==
    ASSUME NEW h \in Nat, QUADRANT(h) = 1, COPCODE(h) = 4, CFUNCT2HIGH(h) = 0,
           NEW x, x = insn_decode_rvc(h)
    PROVE  RightHalf(h, x)
<1>1. Mnemonic(h) = "srli"
  BY Mnemonic1, ArithmeticOf
<1>2. PICK y, v : y = insn_cbtype_read2(h) /\ v = Immediate(h, CI, TRUE)
  OBVIOUS
<1>3. y = Insn("lb", Register(h, "p7"), 0, 0, v, FALSE)
  BY <1>2, Read_cb2, Zenon
<1>4. x = Typed(OnItself(y), "srli")
  BY <1>2, SMT DEF insn_decode_rvc, quadrant1
<1>5. x = Insn("srli", Register(h, "p7"), Register(h, "p7"), 0, v, FALSE)
  BY <1>3, <1>4, Zenon DEF Insn, Typed, OnItself
<1>6. x = Insn("srli", Register(h, "p7"), Register(h, "p7"), Register(h, "x0"), v, FALSE)
  BY <1>5, Registers, Zenon
<1>7. (v - Immediate(h, CI, FALSE)) % 64 = 0
  BY <1>2, Shift_amount
<1>8. Expansion["srli"] = <<"srli", CI, FALSE, "p7", "p7", "x0">>
  BY Expansion3
<1>9. "srli" \in Half_types /\ "srli" \in ShiftTypes
  BY DEF Half_types, ShiftTypes
<1>10. ~Undecodable(h)
  BY <1>1, Decodable1
<1> QED BY <1>1, <1>6, <1>7, <1>8, <1>9, <1>10, Expands_shift, Zenon

\* c.srai.
LEMMA Half_srai ==
    ASSUME NEW h \in Nat, QUADRANT(h) = 1, COPCODE(h) = 4, CFUNCT2HIGH(h) = 1,
           NEW x, x = insn_decode_rvc(h)
    PROVE  RightHalf(h, x)
<1>1. Mnemonic(h) = "srai"
  BY Mnemonic1, ArithmeticOf
<1>2. PICK y, v : y = insn_cbtype_read2(h) /\ v = Immediate(h, CI, TRUE)
  OBVIOUS
<1>3. y = Insn("lb", Register(h, "p7"), 0, 0, v, FALSE)
  BY <1>2, Read_cb2, Zenon
<1>4. x = Typed(OnItself(y), "srai")
  BY <1>2, SMT DEF insn_decode_rvc, quadrant1
<1>5. x = Insn("srai", Register(h, "p7"), Register(h, "p7"), 0, v, FALSE)
  BY <1>3, <1>4, Zenon DEF Insn, Typed, OnItself
<1>6. x = Insn("srai", Register(h, "p7"), Register(h, "p7"), Register(h, "x0"), v, FALSE)
  BY <1>5, Registers, Zenon
<1>7. (v - Immediate(h, CI, FALSE)) % 64 = 0
  BY <1>2, Shift_amount
<1>8. Expansion["srai"] = <<"srai", CI, FALSE, "p7", "p7", "x0">>
  BY Expansion3
<1>9. "srai" \in Half_types /\ "srai" \in ShiftTypes
  BY DEF Half_types, ShiftTypes
<1>10. ~Undecodable(h)
  BY <1>1, Decodable1
<1> QED BY <1>1, <1>6, <1>7, <1>8, <1>9, <1>10, Expands_shift, Zenon

\* c.andi.
LEMMA Half_andi ==
    ASSUME NEW h \in Nat, QUADRANT(h) = 1, COPCODE(h) = 4, CFUNCT2HIGH(h) = 2,
           NEW x, x = insn_decode_rvc(h)
    PROVE  RightHalf(h, x)
<1>1. Mnemonic(h) = "andi"
  BY Mnemonic1, ArithmeticOf
<1>2. PICK y, v : y = insn_cbtype_read2(h) /\ v = Immediate(h, CI, TRUE)
  OBVIOUS
<1>3. y = Insn("lb", Register(h, "p7"), 0, 0, v, FALSE)
  BY <1>2, Read_cb2, Zenon
<1>4. x = Typed(OnItself(y), "andi")
  BY <1>2, SMT DEF insn_decode_rvc, quadrant1
<1>5. x = Insn("andi", Register(h, "p7"), Register(h, "p7"), 0, v, FALSE)
  BY <1>3, <1>4, Zenon DEF Insn, Typed, OnItself
<1>6. x = Insn("andi", Register(h, "p7"), Register(h, "p7"), Register(h, "x0"), v, FALSE)
  BY <1>5, Registers, Zenon
<1>7. v = Immediate(h, CI, TRUE)
  BY <1>2
<1>8. Expansion["andi"] = <<"andi", CI, TRUE, "p7", "p7", "x0">>
  BY Expansion3
<1>9. "andi" \in Half_types /\ "andi" \notin {"jal", "jalr"} /\ "andi" \notin ShiftTypes
  BY DEF Half_types, ShiftTypes
<1>10. ~Undecodable(h)
  BY <1>1, Decodable2
<1> QED BY <1>1, <1>6, <1>7, <1>8, <1>9, <1>10, Expands, Zenon

\* c.sub.
LEMMA Half_sub ==
    ASSUME NEW h \in Nat, QUADRANT(h) = 1, COPCODE(h) = 4, CFUNCT2HIGH(h) = 3, CFUNCT1(h) = 0,
         CFUNCT2LOW(h) = 0,
           NEW x, x = insn_decode_rvc(h)
    PROVE  RightHalf(h, x)
<1>1. Mnemonic(h) = "sub"
  BY Mnemonic1, ArithmeticOf
<1>2. PICK y, v : y = insn_catype_read(h) /\ v = 0
  OBVIOUS
<1>3. y = Insn("lb", Register(h, "p7"), 0, Register(h, "p2"), v, FALSE)
  BY <1>2, Read_ca, Zenon
<1>4. x = Typed(OnItself(y), "sub")
  BY <1>2, SMT DEF insn_decode_rvc, quadrant1
<1>5. x = Insn("sub", Register(h, "p7"), Register(h, "p7"), Register(h, "p2"), v, FALSE)
  BY <1>3, <1>4, Zenon DEF Insn, Typed, OnItself
<1>6. x = Insn("sub", Register(h, "p7"), Register(h, "p7"), Register(h, "p2"), v, FALSE)
  BY <1>5, Registers, Zenon
<1>7. v = Immediate(h, CR, FALSE)
  BY <1>2, Immediate_CR
<1>8. Expansion["sub"] = <<"sub", CR, FALSE, "p7", "p7", "p2">>
  BY Expansion4
<1>9. "sub" \in Half_types /\ "sub" \notin {"jal", "jalr"} /\ "sub" \notin ShiftTypes
  BY DEF Half_types, ShiftTypes
<1>10. ~Undecodable(h)
  BY <1>1, Decodable2
<1> QED BY <1>1, <1>6, <1>7, <1>8, <1>9, <1>10, Expands, Zenon

\* c.xor.
LEMMA Half_xor ==
    ASSUME NEW h \in Nat, QUADRANT(h) = 1, COPCODE(h) = 4, CFUNCT2HIGH(h) = 3, CFUNCT1(h) = 0,
         CFUNCT2LOW(h) = 1,
           NEW x, x = insn_decode_rvc(h)
    PROVE  RightHalf(h, x)
<1>1. Mnemonic(h) = "xor"
  BY Mnemonic1, ArithmeticOf
<1>2. PICK y, v : y = insn_catype_read(h) /\ v = 0
  OBVIOUS
<1>3. y = Insn("lb", Register(h, "p7"), 0, Register(h, "p2"), v, FALSE)
  BY <1>2, Read_ca, Zenon
<1>4. x = Typed(OnItself(y), "xor")
  BY <1>2, SMT DEF insn_decode_rvc, quadrant1
<1>5. x = Insn("xor", Register(h, "p7"), Register(h, "p7"), Register(h, "p2"), v, FALSE)
  BY <1>3, <1>4, Zenon DEF Insn, Typed, OnItself
<1>6. x = Insn("xor", Register(h, "p7"), Register(h, "p7"), Register(h, "p2"), v, FALSE)
  BY <1>5, Registers, Zenon
<1>7. v = Immediate(h, CR, FALSE)
  BY <1>2, Immediate_CR
<1>8. Expansion["xor"] = <<"xor", CR, FALSE, "p7", "p7", "p2">>
  BY Expansion4
<1>9. "xor" \in Half_types /\ "xor" \notin {"jal", "jalr"} /\ "xor" \notin ShiftTypes
  BY DEF Half_types, ShiftTypes
<1>10. ~Undecodable(h)
  BY <1>1, Decodable2
<1> QED BY <1>1, <1>6, <1>7, <1>8, <1>9, <1>10, Expands, Zenon

\* c.or.
LEMMA Half_or ==
    ASSUME NEW h \in Nat, QUADRANT(h) = 1, COPCODE(h) = 4, CFUNCT2HIGH(h) = 3, CFUNCT1(h) = 0,
         CFUNCT2LOW(h) = 2,
           NEW x, x = insn_decode_rvc(h)
    PROVE  RightHalf(h, x)
<1>1. Mnemonic(h) = "or"
  BY Mnemonic1, ArithmeticOf
<1>2. PICK y, v : y = insn_catype_read(h) /\ v = 0
  OBVIOUS
<1>3. y = Insn("lb", Register(h, "p7"), 0, Register(h, "p2"), v, FALSE)
  BY <1>2, Read_ca, Zenon
<1>4. x = Typed(OnItself(y), "or")
  BY <1>2, SMT DEF insn_decode_rvc, quadrant1
<1>5. x = Insn("or", Register(h, "p7"), Register(h, "p7"), Register(h, "p2"), v, FALSE)
  BY <1>3, <1>4, Zenon DEF Insn, Typed, OnItself
<1>6. x = Insn("or", Register(h, "p7"), Register(h, "p7"), Register(h, "p2"), v, FALSE)
  BY <1>5, Registers, Zenon
<1>7. v = Immediate(h, CR, FALSE)
  BY <1>2, Immediate_CR
<1>8. Expansion["or"] = <<"or", CR, FALSE, "p7", "p7", "p2">>
  BY Expansion4
<1>9. "or" \in Half_types /\ "or" \notin {"jal", "jalr"} /\ "or" \notin ShiftTypes
  BY DEF Half_types, ShiftTypes
<1>10. ~Undecodable(h)
  BY <1>1, Decodable2
<1> QED BY <1>1, <1>6, <1>7, <1>8, <1>9, <1>10, Expands, Zenon

\* c.and.
LEMMA Half_and ==
    ASSUME NEW h \in Nat, QUADRANT(h) = 1, COPCODE(h) = 4, CFUNCT2HIGH(h) = 3, CFUNCT1(h) = 0,
         CFUNCT2LOW(h) = 3,
           NEW x, x = insn_decode_rvc(h)
    PROVE  RightHalf(h, x)
<1>1. Mnemonic(h) = "and"
  BY Mnemonic1, ArithmeticOf
<1>2. PICK y, v : y = insn_catype_read(h) /\ v = 0
  OBVIOUS
<1>3. y = Insn("lb", Register(h, "p7"), 0, Register(h, "p2"), v, FALSE)
  BY <1>2, Read_ca, Zenon
<1>4. x = Typed(OnItself(y), "and")
  BY <1>2, SMT DEF insn_decode_rvc, quadrant1
<1>5. x = Insn("and", Register(h, "p7"), Register(h, "p7"), Register(h, "p2"), v, FALSE)
  BY <1>3, <1>4, Zenon DEF Insn, Typed, OnItself
<1>6. x = Insn("and", Register(h, "p7"), Register(h, "p7"), Register(h, "p2"), v, FALSE)
  BY <1>5, Registers, Zenon
<1>7. v = Immediate(h, CR, FALSE)
  BY <1>2, Immediate_CR
<1>8. Expansion["and"] = <<"and", CR, FALSE, "p7", "p7", "p2">>
  BY Expansion4
<1>9. "and" \in Half_types /\ "and" \notin {"jal", "jalr"} /\ "and" \notin ShiftTypes
  BY DEF Half_types, ShiftTypes
<1>10. ~Undecodable(h)
  BY <1>1, Decodable2
<1> QED BY <1>1, <1>6, <1>7, <1>8, <1>9, <1>10, Expands, Zenon

\* c.subw.
LEMMA Half_subw ==
    ASSUME NEW h \in Nat, QUADRANT(h) = 1, COPCODE(h) = 4, CFUNCT2HIGH(h) = 3, CFUNCT1(h) = 1,
         CFUNCT2LOW(h) = 0,
           NEW x, x = insn_decode_rvc(h)
    PROVE  RightHalf(h, x)
<1>1. Mnemonic(h) = "subw"
  BY Mnemonic1, ArithmeticOf
<1>2. PICK y, v : y = insn_catype_read(h) /\ v = 0
  OBVIOUS
<1>3. y = Insn("lb", Register(h, "p7"), 0, Register(h, "p2"), v, FALSE)
  BY <1>2, Read_ca, Zenon
<1>4. x = Typed(OnItself(y), "subw")
  BY <1>2, SMT DEF insn_decode_rvc, quadrant1
<1>5. x = Insn("subw", Register(h, "p7"), Register(h, "p7"), Register(h, "p2"), v, FALSE)
  BY <1>3, <1>4, Zenon DEF Insn, Typed, OnItself
<1>6. x = Insn("subw", Register(h, "p7"), Register(h, "p7"), Register(h, "p2"), v, FALSE)
  BY <1>5, Registers, Zenon
<1>7. v = Immediate(h, CR, FALSE)
  BY <1>2, Immediate_CR
<1>8. Expansion["subw"] = <<"subw", CR, FALSE, "p7", "p7", "p2">>
  BY Expansion4
<1>9. "subw" \in Half_types /\ "subw" \notin {"jal", "jalr"} /\ "subw" \notin ShiftTypes
  BY DEF Half_types, ShiftTypes
<1>10. ~Undecodable(h)
  BY <1>1, Decodable2
<1> QED BY <1>1, <1>6, <1>7, <1>8, <1>9, <1>10, Expands, Zenon

\* c.addw.
LEMMA Half_addw ==
    ASSUME NEW h \in Nat, QUADRANT(h) = 1, COPCODE(h) = 4, CFUNCT2HIGH(h) = 3, CFUNCT1(h) = 1,
         CFUNCT2LOW(h) = 1,
           NEW x, x = insn_decode_rvc(h)
    PROVE  RightHalf(h, x)
<1>1. Mnemonic(h) = "addw"
  BY Mnemonic1, ArithmeticOf
<1>2. PICK y, v : y = insn_catype_read(h) /\ v = 0
  OBVIOUS
<1>3. y = Insn("lb", Register(h, "p7"), 0, Register(h, "p2"), v, FALSE)
  BY <1>2, Read_ca, Zenon
<1>4. x = Typed(OnItself(y), "addw")
  BY <1>2, SMT DEF insn_decode_rvc, quadrant1
<1>5. x = Insn("addw", Register(h, "p7"), Register(h, "p7"), Register(h, "p2"), v, FALSE)
  BY <1>3, <1>4, Zenon DEF Insn, Typed, OnItself
<1>6. x = Insn("addw", Register(h, "p7"), Register(h, "p7"), Register(h, "p2"), v, FALSE)
  BY <1>5, Registers, Zenon
<1>7. v = Immediate(h, CR, FALSE)
  BY <1>2, Immediate_CR
<1>8. Expansion["addw"] = <<"addw", CR, FALSE, "p7", "p7", "p2">>
  BY Expansion5
<1>9. "addw" \in Half_types /\ "addw" \notin {"jal", "jalr"} /\ "addw" \notin ShiftTypes
  BY DEF Half_types, ShiftTypes
<1>10. ~Undecodable(h)
  BY <1>1, Decodable2
<1> QED BY <1>1, <1>6, <1>7, <1>8, <1>9, <1>10, Expands, Zenon

\* c.j.
LEMMA Half_j ==
    ASSUME NEW h \in Nat, QUADRANT(h) = 1, COPCODE(h) = 5,
           NEW x, x = insn_decode_rvc(h)
    PROVE  RightHalf(h, x)
<1>1. Mnemonic(h) = "j"
  BY Mnemonic1
<1>2. PICK y, v : y = insn_cjtype_read(h) /\ v = Immediate(h, CJ, TRUE)
  OBVIOUS
<1>3. y = Insn("lb", 0, 0, 0, v, FALSE)
  BY <1>2, Read_cj, Zenon
<1>4. x = [Typed(y, "jal") EXCEPT !.rd = zero, !.cont = TRUE]
  BY <1>2, SMT DEF insn_decode_rvc, quadrant1
<1>5. x = Insn("jal", 0, 0, 0, v, TRUE)
  BY <1>3, <1>4, Zenon DEF Insn, Typed, zero
<1>6. x = Insn("jal", Register(h, "x0"), Register(h, "x0"), Register(h, "x0"), v, TRUE)
  BY <1>5, Registers, Zenon
<1>7. v = Immediate(h, CJ, TRUE)
  BY <1>2
<1>8. Expansion["j"] = <<"jal", CJ, TRUE, "x0", "x0", "x0">>
  BY Expansion5
<1>9. "jal" \in Half_types /\ "jal" \in {"jal", "jalr"}
  BY DEF Half_types, ShiftTypes
<1>10. ~Undecodable(h)
  BY <1>1, Decodable2
<1> QED BY <1>1, <1>6, <1>7, <1>8, <1>9, <1>10, Expands_jump, Zenon

\* c.beqz.
LEMMA Half_beqz ==
    ASSUME NEW h \in Nat, QUADRANT(h) = 1, COPCODE(h) = 6,
           NEW x, x = insn_decode_rvc(h)
    PROVE  RightHalf(h, x)
<1>1. Mnemonic(h) = "beqz"
  BY Mnemonic1
<1>2. PICK y, v : y = insn_cbtype_read(h) /\ v = Immediate(h, CB, TRUE)
  OBVIOUS
<1>3. y = Insn("lb", 0, Register(h, "p7"), 0, v, FALSE)
  BY <1>2, Read_cb, Zenon
<1>4. x = [Typed(y, "beq") EXCEPT !.rs2 = zero]
  BY <1>2, SMT DEF insn_decode_rvc, quadrant1
<1>5. x = Insn("beq", 0, Register(h, "p7"), 0, v, FALSE)
  BY <1>3, <1>4, Zenon DEF Insn, Typed, zero
<1>6. x = Insn("beq", Register(h, "x0"), Register(h, "p7"), Register(h, "x0"), v, FALSE)
  BY <1>5, Registers, Zenon
<1>7. v = Immediate(h, CB, TRUE)
  BY <1>2
<1>8. Expansion["beqz"] = <<"beq", CB, TRUE, "x0", "p7", "x0">>
  BY Expansion5
<1>9. "beq" \in Half_types /\ "beq" \notin {"jal", "jalr"} /\ "beq" \notin ShiftTypes
  BY DEF Half_types, ShiftTypes
<1>10. ~Undecodable(h)
  BY <1>1, Decodable2
<1> QED BY <1>1, <1>6, <1>7, <1>8, <1>9, <1>10, Expands, Zenon

\* c.bnez.
LEMMA Half_bnez ==
    ASSUME NEW h \in Nat, QUADRANT(h) = 1, COPCODE(h) = 7,
           NEW x, x = insn_decode_rvc(h)
    PROVE  RightHalf(h, x)
<1>1. Mnemonic(h) = "bnez"
  BY Mnemonic1
<1>2. PICK y, v : y = insn_cbtype_read(h) /\ v = Immediate(h, CB, TRUE)
  OBVIOUS
<1>3. y = Insn("lb", 0, Register(h, "p7"), 0, v, FALSE)
  BY <1>2, Read_cb, Zenon
<1>4. x = [Typed(y, "bne") EXCEPT !.rs2 = zero]
  BY <1>2, SMT DEF insn_decode_rvc, quadrant1
<1>5. x = Insn("bne", 0, Register(h, "p7"), 0, v, FALSE)
  BY <1>3, <1>4, Zenon DEF Insn, Typed, zero
<1>6. x = Insn("bne", Register(h, "x0"), Register(h, "p7"), Register(h, "x0"), v, FALSE)
  BY <1>5, Registers, Zenon
<1>7. v = Immediate(h, CB, TRUE)
  BY <1>2
<1>8. Expansion["bnez"] = <<"bne", CB, TRUE, "x0", "p7", "x0">>
  BY Expansion5
<1>9. "bne" \in Half_types /\ "bne" \notin {"jal", "jalr"} /\ "bne" \notin ShiftTypes
  BY DEF Half_types, ShiftTypes
<1>10. ~Undecodable(h)
  BY <1>1, Decodable2
<1> QED BY <1>1, <1>6, <1>7, <1>8, <1>9, <1>10, Expands, Zenon

\* c.slli.
LEMMA Half_slli ==
    ASSUME NEW h \in Nat, QUADRANT(h) = 2, COPCODE(h) = 0,
           NEW x, x = insn_decode_rvc(h)
    PROVE  RightHalf(h, x)
<1>1. Mnemonic(h) = "slli"
  BY Mnemonic2
<1>2. PICK y, v : y = insn_citype_read(h) /\ v = Immediate(h, CI, TRUE)
  OBVIOUS
<1>3. y = Insn("lb", Register(h, "r7"), 0, 0, v, FALSE)
  BY <1>2, Read_ci, Zenon
<1>4. x = Typed(OnItself(y), "slli")
  BY <1>2, SMT DEF insn_decode_rvc, quadrant2
<1>5. x = Insn("slli", Register(h, "r7"), Register(h, "r7"), 0, v, FALSE)
  BY <1>3, <1>4, Zenon DEF Insn, Typed, OnItself
<1>6. x = Insn("slli", Register(h, "r7"), Register(h, "r7"), Register(h, "x0"), v, FALSE)
  BY <1>5, Registers, Zenon
<1>7. (v - Immediate(h, CI, FALSE)) % 64 = 0
  BY <1>2, Shift_amount
<1>8. Expansion["slli"] = <<"slli", CI, FALSE, "r7", "r7", "x0">>
  BY Expansion5
<1>9. "slli" \in Half_types /\ "slli" \in ShiftTypes
  BY DEF Half_types, ShiftTypes
<1>10. ~Undecodable(h)
  BY <1>1, Decodable3
<1> QED BY <1>1, <1>6, <1>7, <1>8, <1>9, <1>10, Expands_shift, Zenon

\* c.fldsp.
LEMMA Half_fldsp ==
    ASSUME NEW h \in Nat, QUADRANT(h) = 2, COPCODE(h) = 1,
           NEW x, x = insn_decode_rvc(h)
    PROVE  RightHalf(h, x)
<1>1. Mnemonic(h) = "fldsp"
  BY Mnemonic2
<1>2. PICK y, v : y = insn_citype_read2(h) /\ v = Immediate(h, CILdsp, FALSE)
  OBVIOUS
<1>3. y = Insn("lb", Register(h, "r7"), 0, 0, v, FALSE)
  BY <1>2, Read_ci2, Zenon
<1>4. x = [Typed(y, "fld") EXCEPT !.rs1 = sp]
  BY <1>2, SMT DEF insn_decode_rvc, quadrant2
<1>5. x = Insn("fld", Register(h, "r7"), 2, 0, v, FALSE)
  BY <1>3, <1>4, Zenon DEF Insn, Typed, sp
<1>6. x = Insn("fld", Register(h, "r7"), Register(h, "x2"), Register(h, "x0"), v, FALSE)
  BY <1>5, Registers, Zenon
<1>7. v = Immediate(h, CILdsp, FALSE)
  BY <1>2
<1>8. Expansion["fldsp"] = <<"fld", CILdsp, FALSE, "r7", "x2", "x0">>
  BY Expansion6
<1>9. "fld" \in Half_types /\ "fld" \notin {"jal", "jalr"} /\ "fld" \notin ShiftTypes
  BY DEF Half_types, ShiftTypes
<1>10. ~Undecodable(h)
  BY <1>1, Decodable3
<1> QED BY <1>1, <1>6, <1>7, <1>8, <1>9, <1>10, Expands, Zenon

\* c.lwsp.
LEMMA Half_lwsp ==
    ASSUME NEW h \in Nat, QUADRANT(h) = 2, COPCODE(h) = 2,
           NEW x, x = insn_decode_rvc(h)
    PROVE  RightHalf(h, x)
<1>1. Mnemonic(h) = "lwsp"
  BY Mnemonic2
<1>2. PICK y, v : y = insn_citype_read4(h) /\ v = Immediate(h, CILwsp, FALSE)
  OBVIOUS
<1>3. y = Insn("lb", Register(h, "r7"), 0, 0, v, FALSE)
  BY <1>2, Read_ci4, Zenon
<1>4. x = Asserted(y.rd # 0, [Typed(y, "lw") EXCEPT !.rs1 = sp])
  BY <1>2, SMT DEF insn_decode_rvc, quadrant2
<1>5. y.rd = RC1(h)
  BY <1>3, Registers, Zenon DEF Insn
<1>6. Undecodable(h) <=> RC1(h) = 0
  BY <1>1, Undecodable_rd
<1>7. CASE Undecodable(h)
  <2>1. x = Dies
    BY <1>4, <1>5, <1>6, <1>7, Zenon DEF Asserted
  <2> QED BY <1>7, <2>1, Refused
<1>8. CASE ~Undecodable(h)
  <2>1. x = [Typed(y, "lw") EXCEPT !.rs1 = sp]
    BY <1>4, <1>5, <1>6, <1>8, Zenon DEF Asserted
  <2>2. x = Insn("lw", Register(h, "r7"), 2, 0, v, FALSE)
    BY <1>3, <2>1, Zenon DEF Insn, Typed, sp
  <2>3. x = Insn("lw", Register(h, "r7"), Register(h, "x2"), Register(h, "x0"), v, FALSE)
    BY <2>2, Registers, Zenon
  <2>4. v = Immediate(h, CILwsp, FALSE)
    BY <1>2
  <2>5. Expansion["lwsp"] = <<"lw", CILwsp, FALSE, "r7", "x2", "x0">>
    BY Expansion6
  <2>6. "lw" \in Half_types /\ "lw" \notin {"jal", "jalr"} /\ "lw" \notin ShiftTypes
    BY DEF Half_types, ShiftTypes
  <2> QED BY <1>1, <2>3, <2>4, <2>5, <2>6, <1>8, Expands, Zenon
<1> QED BY <1>7, <1>8

\* c.ldsp.
LEMMA Half_ldsp ==
    ASSUME NEW h \in Nat, QUADRANT(h) = 2, COPCODE(h) = 3,
           NEW x, x = insn_decode_rvc(h)
    PROVE  RightHalf(h, x)
<1>1. Mnemonic(h) = "ldsp"
  BY Mnemonic2
<1>2. PICK y, v : y = insn_citype_read2(h) /\ v = Immediate(h, CILdsp, FALSE)
  OBVIOUS
<1>3. y = Insn("lb", Register(h, "r7"), 0, 0, v, FALSE)
  BY <1>2, Read_ci2, Zenon
<1>4. x = Asserted(y.rd # 0, [Typed(y, "ld") EXCEPT !.rs1 = sp])
  BY <1>2, SMT DEF insn_decode_rvc, quadrant2
<1>5. y.rd = RC1(h)
  BY <1>3, Registers, Zenon DEF Insn
<1>6. Undecodable(h) <=> RC1(h) = 0
  BY <1>1, Undecodable_rd
<1>7. CASE Undecodable(h)
  <2>1. x = Dies
    BY <1>4, <1>5, <1>6, <1>7, Zenon DEF Asserted
  <2> QED BY <1>7, <2>1, Refused
<1>8. CASE ~Undecodable(h)
  <2>1. x = [Typed(y, "ld") EXCEPT !.rs1 = sp]
    BY <1>4, <1>5, <1>6, <1>8, Zenon DEF Asserted
  <2>2. x = Insn("ld", Register(h, "r7"), 2, 0, v, FALSE)
    BY <1>3, <2>1, Zenon DEF Insn, Typed, sp
  <2>3. x = Insn("ld", Register(h, "r7"), Register(h, "x2"), Register(h, "x0"), v, FALSE)
    BY <2>2, Registers, Zenon
  <2>4. v = Immediate(h, CILdsp, FALSE)
    BY <1>2
  <2>5. Expansion["ldsp"] = <<"ld", CILdsp, FALSE, "r7", "x2", "x0">>
    BY Expansion6
  <2>6. "ld" \in Half_types /\ "ld" \notin {"jal", "jalr"} /\ "ld" \notin ShiftTypes
    BY DEF Half_types, ShiftTypes
  <2> QED BY <1>1, <2>3, <2>4, <2>5, <2>6, <1>8, Expands, Zenon
<1> QED BY <1>7, <1>8

\* c.jr.
LEMMA Half_jr ==
    ASSUME NEW h \in Nat, QUADRANT(h) = 2, COPCODE(h) = 4, CFUNCT1(h) = 0, RC2(h) = 0, RC1(h) # 0,
           NEW x, x = insn_decode_rvc(h)
    PROVE  RightHalf(h, x)
<1>1. Mnemonic(h) = "jr"
  BY Mnemonic2, JumpOf
<1>2. PICK y, v : y = insn_crtype_read(h) /\ v = 0
  OBVIOUS
<1>3. y = Insn("lb", 0, Register(h, "r7"), Register(h, "r2"), v, FALSE)
  BY <1>2, Read_cr, Zenon
<1>4. y.rs1 = RC1(h) /\ y.rs2 = RC2(h)
  BY <1>3, Registers, Zenon DEF Insn
<1>5. x = jump_or_move(h)
  BY SMT DEF insn_decode_rvc, quadrant2
<1>6. x = [Typed(y, "jalr") EXCEPT !.rd = zero, !.cont = TRUE]
  BY <1>2, <1>4, <1>5, SMT DEF jump_or_move, Asserted
<1>7. x = Insn("jalr", 0, Register(h, "r7"), Register(h, "r2"), v, TRUE)
  BY <1>3, <1>6, Zenon DEF Insn, Typed, zero
<1>8. x = Insn("jalr", Register(h, "x0"), Register(h, "r7"), Register(h, "x0"), v, TRUE)
  BY <1>7, Registers, Zenon
<1>9. v = Immediate(h, CR, FALSE)
  BY <1>2, Immediate_CR
<1>10. Expansion["jr"] = <<"jalr", CR, FALSE, "x0", "r7", "x0">>
  BY Expansion6
<1>11. "jalr" \in Half_types /\ "jalr" \in {"jal", "jalr"}
  BY DEF Half_types, ShiftTypes
<1>12. ~Undecodable(h)
  BY <1>1, Decodable3
<1> QED BY <1>1, <1>8, <1>9, <1>10, <1>11, <1>12, Expands_jump, Zenon

\* c.mv.
LEMMA Half_mv ==
    ASSUME NEW h \in Nat, QUADRANT(h) = 2, COPCODE(h) = 4, CFUNCT1(h) = 0, RC2(h) # 0,
           NEW x, x = insn_decode_rvc(h)
    PROVE  RightHalf(h, x)
<1>1. Mnemonic(h) = "mv"
  BY Mnemonic2, JumpOf
<1>2. PICK y, v : y = insn_crtype_read(h) /\ v = 0
  OBVIOUS
<1>3. y = Insn("lb", 0, Register(h, "r7"), Register(h, "r2"), v, FALSE)
  BY <1>2, Read_cr, Zenon
<1>4. y.rs1 = RC1(h) /\ y.rs2 = RC2(h)
  BY <1>3, Registers, Zenon DEF Insn
<1>5. x = jump_or_move(h)
  BY SMT DEF insn_decode_rvc, quadrant2
<1>6. x = [Typed(y, "add") EXCEPT !.rd = y.rs1, !.rs1 = zero]
  BY <1>2, <1>4, <1>5, SMT DEF jump_or_move
<1>7. x = Insn("add", Register(h, "r7"), 0, Register(h, "r2"), v, FALSE)
  BY <1>3, <1>6, Zenon DEF Insn, Typed, zero
<1>8. x = Insn("add", Register(h, "r7"), Register(h, "x0"), Register(h, "r2"), v, FALSE)
  BY <1>7, Registers, Zenon
<1>9. v = Immediate(h, CR, FALSE)
  BY <1>2, Immediate_CR
<1>10. Expansion["mv"] = <<"add", CR, FALSE, "r7", "x0", "r2">>
  BY Expansion6
<1>11. "add" \in Half_types /\ "add" \notin {"jal", "jalr"} /\ "add" \notin ShiftTypes
  BY DEF Half_types, ShiftTypes
<1>12. ~Undecodable(h)
  BY <1>1, Decodable3
<1> QED BY <1>1, <1>8, <1>9, <1>10, <1>11, <1>12, Expands, Zenon

\* c.jalr.
LEMMA Half_jalr ==
    ASSUME NEW h \in Nat, QUADRANT(h) = 2, COPCODE(h) = 4, CFUNCT1(h) = 1, RC2(h) = 0, RC1(h) # 0,
           NEW x, x = insn_decode_rvc(h)
    PROVE  RightHalf(h, x)
<1>1. Mnemonic(h) = "jalr"
  BY Mnemonic2, JumpOf
<1>2. PICK y, v : y = insn_crtype_read(h) /\ v = 0
  OBVIOUS
<1>3. y = Insn("lb", 0, Register(h, "r7"), Register(h, "r2"), v, FALSE)
  BY <1>2, Read_cr, Zenon
<1>4. y.rs1 = RC1(h) /\ y.rs2 = RC2(h)
  BY <1>3, Registers, Zenon DEF Insn
<1>5. x = jump_or_move(h)
  BY SMT DEF insn_decode_rvc, quadrant2
<1>6. x = [Typed(y, "jalr") EXCEPT !.rd = ra, !.cont = TRUE]
  BY <1>2, <1>4, <1>5, SMT DEF jump_or_move
<1>7. x = Insn("jalr", 1, Register(h, "r7"), Register(h, "r2"), v, TRUE)
  BY <1>3, <1>6, Zenon DEF Insn, Typed, ra
<1>8. x = Insn("jalr", Register(h, "x1"), Register(h, "r7"), Register(h, "x0"), v, TRUE)
  BY <1>7, Registers, Zenon
<1>9. v = Immediate(h, CR, FALSE)
  BY <1>2, Immediate_CR
<1>10. Expansion["jalr"] = <<"jalr", CR, FALSE, "x1", "r7", "x0">>
  BY Expansion7
<1>11. "jalr" \in Half_types /\ "jalr" \in {"jal", "jalr"}
  BY DEF Half_types, ShiftTypes
<1>12. ~Undecodable(h)
  BY <1>1, Decodable3
<1> QED BY <1>1, <1>8, <1>9, <1>10, <1>11, <1>12, Expands_jump, Zenon

\* c.add.
LEMMA Half_add ==
    ASSUME NEW h \in Nat, QUADRANT(h) = 2, COPCODE(h) = 4, CFUNCT1(h) = 1, RC2(h) # 0,
           NEW x, x = insn_decode_rvc(h)
    PROVE  RightHalf(h, x)
<1>1. Mnemonic(h) = "add"
  BY Mnemonic2, JumpOf
<1>2. PICK y, v : y = insn_crtype_read(h) /\ v = 0
  OBVIOUS
<1>3. y = Insn("lb", 0, Register(h, "r7"), Register(h, "r2"), v, FALSE)
  BY <1>2, Read_cr, Zenon
<1>4. y.rs1 = RC1(h) /\ y.rs2 = RC2(h)
  BY <1>3, Registers, Zenon DEF Insn
<1>5. x = jump_or_move(h)
  BY SMT DEF insn_decode_rvc, quadrant2
<1>6. x = [Typed(y, "add") EXCEPT !.rd = y.rs1]
  BY <1>2, <1>4, <1>5, SMT DEF jump_or_move
<1>7. x = Insn("add", Register(h, "r7"), Register(h, "r7"), Register(h, "r2"), v, FALSE)
  BY <1>3, <1>6, Zenon DEF Insn, Typed
<1>8. x = Insn("add", Register(h, "r7"), Register(h, "r7"), Register(h, "r2"), v, FALSE)
  BY <1>7, Registers, Zenon
<1>9. v = Immediate(h, CR, FALSE)
  BY <1>2, Immediate_CR
<1>10. Expansion["add"] = <<"add", CR, FALSE, "r7", "r7", "r2">>
  BY Expansion7
<1>11. "add" \in Half_types /\ "add" \notin {"jal", "jalr"} /\ "add" \notin ShiftTypes
  BY DEF Half_types, ShiftTypes
<1>12. ~Undecodable(h)
  BY <1>1, Decodable3
<1> QED BY <1>1, <1>8, <1>9, <1>10, <1>11, <1>12, Expands, Zenon

\* c.fsdsp.
LEMMA Half_fsdsp ==
    ASSUME NEW h \in Nat, QUADRANT(h) = 2, COPCODE(h) = 5,
           NEW x, x = insn_decode_rvc(h)
    PROVE  RightHalf(h, x)
<1>1. Mnemonic(h) = "fsdsp"
  BY Mnemonic2
<1>2. PICK y, v : y = insn_csstype_read(h) /\ v = Immediate(h, CSSSdsp, FALSE)
  OBVIOUS
<1>3. y = Insn("lb", 0, 0, Register(h, "r2"), v, FALSE)
  BY <1>2, Read_css, Zenon
<1>4. x = [Typed(y, "fsd") EXCEPT !.rs1 = sp]
  BY <1>2, SMT DEF insn_decode_rvc, quadrant2
<1>5. x = Insn("fsd", 0, 2, Register(h, "r2"), v, FALSE)
  BY <1>3, <1>4, Zenon DEF Insn, Typed, sp
<1>6. x = Insn("fsd", Register(h, "x0"), Register(h, "x2"), Register(h, "r2"), v, FALSE)
  BY <1>5, Registers, Zenon
<1>7. v = Immediate(h, CSSSdsp, FALSE)
  BY <1>2
<1>8. Expansion["fsdsp"] = <<"fsd", CSSSdsp, FALSE, "x0", "x2", "r2">>
  BY Expansion7
<1>9. "fsd" \in Half_types /\ "fsd" \notin {"jal", "jalr"} /\ "fsd" \notin ShiftTypes
  BY DEF Half_types, ShiftTypes
<1>10. ~Undecodable(h)
  BY <1>1, Decodable3
<1> QED BY <1>1, <1>6, <1>7, <1>8, <1>9, <1>10, Expands, Zenon

\* c.swsp.
LEMMA Half_swsp ==
    ASSUME NEW h \in Nat, QUADRANT(h) = 2, COPCODE(h) = 6,
           NEW x, x = insn_decode_rvc(h)
    PROVE  RightHalf(h, x)
<1>1. Mnemonic(h) = "swsp"
  BY Mnemonic2
<1>2. PICK y, v : y = insn_csstype_read2(h) /\ v = Immediate(h, CSSSwsp, FALSE)
  OBVIOUS
<1>3. y = Insn("lb", 0, 0, Register(h, "r2"), v, FALSE)
  BY <1>2, Read_css2, Zenon
<1>4. x = [Typed(y, "sw") EXCEPT !.rs1 = sp]
  BY <1>2, SMT DEF insn_decode_rvc, quadrant2
<1>5. x = Insn("sw", 0, 2, Register(h, "r2"), v, FALSE)
  BY <1>3, <1>4, Zenon DEF Insn, Typed, sp
<1>6. x = Insn("sw", Register(h, "x0"), Register(h, "x2"), Register(h, "r2"), v, FALSE)
  BY <1>5, Registers, Zenon
<1>7. v = Immediate(h, CSSSwsp, FALSE)
  BY <1>2
<1>8. Expansion["swsp"] = <<"sw", CSSSwsp, FALSE, "x0", "x2", "r2">>
  BY Expansion7
<1>9. "sw" \in Half_types /\ "sw" \notin {"jal", "jalr"} /\ "sw" \notin ShiftTypes
  BY DEF Half_types, ShiftTypes
<1>10. ~Undecodable(h)
  BY <1>1, Decodable3
<1> QED BY <1>1, <1>6, <1>7, <1>8, <1>9, <1>10, Expands, Zenon

\* c.sdsp.
LEMMA Half_sdsp ==
    ASSUME NEW h \in Nat, QUADRANT(h) = 2, COPCODE(h) = 7,
           NEW x, x = insn_decode_rvc(h)
    PROVE  RightHalf(h, x)
<1>1. Mnemonic(h) = "sdsp"
  BY Mnemonic2
<1>2. PICK y, v : y = insn_csstype_read(h) /\ v = Immediate(h, CSSSdsp, FALSE)
  OBVIOUS
<1>3. y = Insn("lb", 0, 0, Register(h, "r2"), v, FALSE)
  BY <1>2, Read_css, Zenon
<1>4. x = [Typed(y, "sd") EXCEPT !.rs1 = sp]
  BY <1>2, SMT DEF insn_decode_rvc, quadrant2
<1>5. x = Insn("sd", 0, 2, Register(h, "r2"), v, FALSE)
  BY <1>3, <1>4, Zenon DEF Insn, Typed, sp
<1>6. x = Insn("sd", Register(h, "x0"), Register(h, "x2"), Register(h, "r2"), v, FALSE)
  BY <1>5, Registers, Zenon
<1>7. v = Immediate(h, CSSSdsp, FALSE)
  BY <1>2
<1>8. Expansion["sdsp"] = <<"sd", CSSSdsp, FALSE, "x0", "x2", "r2">>
  BY Expansion7
<1>9. "sd" \in Half_types /\ "sd" \notin {"jal", "jalr"} /\ "sd" \notin ShiftTypes
  BY DEF Half_types, ShiftTypes
<1>10. ~Undecodable(h)
  BY <1>1, Decodable3
<1> QED BY <1>1, <1>6, <1>7, <1>8, <1>9, <1>10, Expands, Zenon

\* Words whose bits select no instruction end the emulator.
LEMMA Half_none0 ==
    ASSUME NEW h \in Nat, QUADRANT(h) = 0, COPCODE(h) = 4, NEW x, x = insn_decode_rvc(h)
    PROVE  RightHalf(h, x)
<1>1. x = Dies
  BY SMT DEF insn_decode_rvc, quadrant0
<1>2. Undecodable(h)
  BY Mnemonic0, Undecodable_reserved
<1> QED BY <1>1, <1>2, Refused

\* In the second quadrant, two values of the arithmetic instructions.
LEMMA Half_none1 ==
    ASSUME NEW h \in Nat, QUADRANT(h) = 1, COPCODE(h) = 4, CFUNCT2HIGH(h) = 3, CFUNCT1(h) = 1,
           CFUNCT2LOW(h) \in {2, 3}, NEW x, x = insn_decode_rvc(h)
    PROVE  RightHalf(h, x)
<1>1. x = Dies
  BY SMT DEF insn_decode_rvc, quadrant1
<1>2. Mnemonic(h) = "reserved"
  BY Mnemonic1, ArithmeticOf
<1>3. Undecodable(h)
  BY <1>2, Undecodable_reserved
<1> QED BY <1>1, <1>3, Refused

\* In the third, a jump through x0 and the ebreak.
LEMMA Half_none2 ==
    ASSUME NEW h \in Nat, QUADRANT(h) = 2, COPCODE(h) = 4, CFUNCT1(h) \in {0, 1}, RC1(h) = 0,
           RC2(h) = 0, NEW x, x = insn_decode_rvc(h)
    PROVE  RightHalf(h, x)
<1>1. PICK y : y = insn_crtype_read(h)
  OBVIOUS
<1>2. y = Insn("lb", 0, Register(h, "r7"), Register(h, "r2"), 0, FALSE)
  BY <1>1, Read_cr, Zenon
<1>3. y.rs1 = RC1(h) /\ y.rs2 = RC2(h)
  BY <1>2, Registers, Zenon DEF Insn
<1>4. x = jump_or_move(h)
  BY SMT DEF insn_decode_rvc, quadrant2
<1>5. x = Dies
  BY <1>1, <1>3, <1>4, SMT DEF jump_or_move, Asserted
<1>6. Mnemonic(h) \in {"reserved", "ebreak"}
  BY Mnemonic2, JumpOf
<1> QED BY <1>5, <1>6, Undecodable_reserved, Refused

\* The values of the bits that select.
LEMMA Selectors ==
    ASSUME NEW h \in Nat
    PROVE  /\ QUADRANT(h) = h % 4 /\ QUADRANT(h) \in 0 .. 3 /\ COPCODE(h) \in 0 .. 7
           /\ CFUNCT1(h) \in {0, 1} /\ CFUNCT2HIGH(h) \in 0 .. 3 /\ CFUNCT2LOW(h) \in 0 .. 3
  BY SMT DEF QUADRANT, COPCODE, CFUNCT1, CFUNCT2HIGH, CFUNCT2LOW, Field

\* insn_decode expands every compressed word.
LEMMA Decodes_half ==
    ASSUME NEW h \in Nat, h % 4 # 3, NEW x, x = insn_decode_rvc(h)
    PROVE  RightHalf(h, x)
<1>1. CASE QUADRANT(h) = 0
  BY <1>1, Selectors, Half_addi4spn, Half_fld, Half_lw, Half_ld, Half_none0, Half_fsd, Half_sw,
     Half_sd
<1>2. CASE QUADRANT(h) = 1
  <2>1. CASE COPCODE(h) # 4
    BY <1>2, <2>1, Selectors, Half_addi, Half_addiw, Half_li, Half_addi16sp, Half_lui, Half_j,
       Half_beqz, Half_bnez
  <2>2. CASE COPCODE(h) = 4 /\ CFUNCT2HIGH(h) # 3
    BY <1>2, <2>2, Selectors, Half_srli, Half_srai, Half_andi
  <2>3. CASE COPCODE(h) = 4 /\ CFUNCT2HIGH(h) = 3
    BY <1>2, <2>3, Selectors, Half_sub, Half_xor, Half_or, Half_and, Half_subw, Half_addw,
       Half_none1
  <2> QED BY <2>1, <2>2, <2>3
<1>3. CASE QUADRANT(h) = 2
  <2>1. CASE COPCODE(h) # 4
    BY <1>3, <2>1, Selectors, Half_slli, Half_fldsp, Half_lwsp, Half_ldsp, Half_fsdsp, Half_swsp,
       Half_sdsp
  <2>2. CASE COPCODE(h) = 4
    BY <1>3, <2>2, Selectors, Half_jr, Half_mv, Half_jalr, Half_add, Half_none2
  <2> QED BY <2>1, <2>2
<1> QED BY <1>1, <1>2, <1>3, Selectors
-----------------------------------------------------------------------------
(***************************************************************************)
(* The dispatch tables.                                                    *)
(***************************************************************************)

\* There are 133 types.
LEMMA TypeCount == DOMAIN insn_type_t = 1 .. 133
  BY SMT DEF insn_type_t

\* A type at a place of the enumeration has a number.
LEMMA HasNumber ==
    ASSUME NEW k \in 1 .. 133, NEW t, insn_type_t[k] = t
    PROVE  t \in Range(insn_type_t)
  BY TypeCount, Zenon DEF Range

\* Every type of an encoding has a number.
LEMMA EncodedTypes ==
    ASSUME NEW t \in DOMAIN Encoding
    PROVE  t \in Range(insn_type_t)
<1>1. CASE t \in Load_types
  <2>1. /\ insn_type_t[1] = "lb" /\ insn_type_t[2] = "lh" /\ insn_type_t[3] = "lw"
        /\ insn_type_t[4] = "ld" /\ insn_type_t[5] = "lbu" /\ insn_type_t[6] = "lhu"
        /\ insn_type_t[7] = "lwu"
    BY SMT DEF insn_type_t
  <2> QED BY <1>1, <2>1, HasNumber, SMT DEF Load_types
<1>2. CASE t \in FpLoad_types
  <2>1. /\ insn_type_t[72] = "flw" /\ insn_type_t[102] = "fld"
    BY SMT DEF insn_type_t
  <2> QED BY <1>2, <2>1, HasNumber, SMT DEF FpLoad_types
<1>3. CASE t \in Fence_types
  <2>1. /\ insn_type_t[8] = "fence" /\ insn_type_t[9] = "fence_i"
    BY SMT DEF insn_type_t
  <2> QED BY <1>3, <2>1, HasNumber, SMT DEF Fence_types
<1>4. CASE t \in OpImm_types
  <2>1. /\ insn_type_t[10] = "addi" /\ insn_type_t[12] = "slti" /\ insn_type_t[13] = "sltiu"
        /\ insn_type_t[14] = "xori" /\ insn_type_t[17] = "ori" /\ insn_type_t[18] = "andi"
        /\ insn_type_t[11] = "slli" /\ insn_type_t[15] = "srli" /\ insn_type_t[16] = "srai"
    BY SMT DEF insn_type_t
  <2> QED BY <1>4, <2>1, HasNumber, SMT DEF OpImm_types
<1>5. CASE t \in Auipc_types
  <2>1. /\ insn_type_t[19] = "auipc"
    BY SMT DEF insn_type_t
  <2> QED BY <1>5, <2>1, HasNumber, SMT DEF Auipc_types
<1>6. CASE t \in OpImm32_types
  <2>1. /\ insn_type_t[20] = "addiw" /\ insn_type_t[21] = "slliw" /\ insn_type_t[22] = "srliw"
        /\ insn_type_t[23] = "sraiw"
    BY SMT DEF insn_type_t
  <2> QED BY <1>6, <2>1, HasNumber, SMT DEF OpImm32_types
<1>7. CASE t \in Store_types
  <2>1. /\ insn_type_t[24] = "sb" /\ insn_type_t[25] = "sh" /\ insn_type_t[26] = "sw"
        /\ insn_type_t[27] = "sd"
    BY SMT DEF insn_type_t
  <2> QED BY <1>7, <2>1, HasNumber, SMT DEF Store_types
<1>8. CASE t \in FpStore_types
  <2>1. /\ insn_type_t[73] = "fsw" /\ insn_type_t[103] = "fsd"
    BY SMT DEF insn_type_t
  <2> QED BY <1>8, <2>1, HasNumber, SMT DEF FpStore_types
<1>9. CASE t \in OpBase_types
  <2>1. /\ insn_type_t[28] = "add" /\ insn_type_t[29] = "sll" /\ insn_type_t[30] = "slt"
        /\ insn_type_t[31] = "sltu" /\ insn_type_t[32] = "xor" /\ insn_type_t[33] = "srl"
        /\ insn_type_t[34] = "or" /\ insn_type_t[35] = "and"
    BY SMT DEF insn_type_t
  <2> QED BY <1>9, <2>1, HasNumber, SMT DEF OpBase_types
<1>10. CASE t \in OpMul_types
  <2>1. /\ insn_type_t[36] = "mul" /\ insn_type_t[37] = "mulh" /\ insn_type_t[38] = "mulhsu"
        /\ insn_type_t[39] = "mulhu" /\ insn_type_t[40] = "div" /\ insn_type_t[41] = "divu"
        /\ insn_type_t[42] = "rem" /\ insn_type_t[43] = "remu"
    BY SMT DEF insn_type_t
  <2> QED BY <1>10, <2>1, HasNumber, SMT DEF OpMul_types
<1>11. CASE t \in OpAlt_types
  <2>1. /\ insn_type_t[44] = "sub" /\ insn_type_t[45] = "sra"
    BY SMT DEF insn_type_t
  <2> QED BY <1>11, <2>1, HasNumber, SMT DEF OpAlt_types
<1>12. CASE t \in Lui_types
  <2>1. /\ insn_type_t[46] = "lui"
    BY SMT DEF insn_type_t
  <2> QED BY <1>12, <2>1, HasNumber, SMT DEF Lui_types
<1>13. CASE t \in Op32_types
  <2>1. /\ insn_type_t[47] = "addw" /\ insn_type_t[48] = "sllw" /\ insn_type_t[49] = "srlw"
        /\ insn_type_t[50] = "mulw" /\ insn_type_t[51] = "divw" /\ insn_type_t[52] = "divuw"
        /\ insn_type_t[53] = "remw" /\ insn_type_t[54] = "remuw" /\ insn_type_t[55] = "subw"
        /\ insn_type_t[56] = "sraw"
    BY SMT DEF insn_type_t
  <2> QED BY <1>13, <2>1, HasNumber, SMT DEF Op32_types
<1>14. CASE t \in Fmadd_types
  <2>1. /\ insn_type_t[74] = "fmadd_s" /\ insn_type_t[104] = "fmadd_d"
    BY SMT DEF insn_type_t
  <2> QED BY <1>14, <2>1, HasNumber, SMT DEF Fmadd_types
<1>15. CASE t \in Fmsub_types
  <2>1. /\ insn_type_t[75] = "fmsub_s" /\ insn_type_t[105] = "fmsub_d"
    BY SMT DEF insn_type_t
  <2> QED BY <1>15, <2>1, HasNumber, SMT DEF Fmsub_types
<1>16. CASE t \in Fnmsub_types
  <2>1. /\ insn_type_t[76] = "fnmsub_s" /\ insn_type_t[106] = "fnmsub_d"
    BY SMT DEF insn_type_t
  <2> QED BY <1>16, <2>1, HasNumber, SMT DEF Fnmsub_types
<1>17. CASE t \in Fnmadd_types
  <2>1. /\ insn_type_t[77] = "fnmadd_s" /\ insn_type_t[107] = "fnmadd_d"
    BY SMT DEF insn_type_t
  <2> QED BY <1>17, <2>1, HasNumber, SMT DEF Fnmadd_types
<1>18. CASE t \in FpAdd_types
  <2>1. /\ insn_type_t[78] = "fadd_s" /\ insn_type_t[108] = "fadd_d" /\ insn_type_t[79] = "fsub_s"
        /\ insn_type_t[109] = "fsub_d"
    BY SMT DEF insn_type_t
  <2> QED BY <1>18, <2>1, HasNumber, SMT DEF FpAdd_types
<1>19. CASE t \in FpMul_types
  <2>1. /\ insn_type_t[80] = "fmul_s" /\ insn_type_t[110] = "fmul_d" /\ insn_type_t[81] = "fdiv_s"
        /\ insn_type_t[111] = "fdiv_d"
    BY SMT DEF insn_type_t
  <2> QED BY <1>19, <2>1, HasNumber, SMT DEF FpMul_types
<1>20. CASE t \in FpSign_types
  <2>1. /\ insn_type_t[83] = "fsgnj_s" /\ insn_type_t[84] = "fsgnjn_s"
       /\ insn_type_t[85] = "fsgnjx_s"
        /\ insn_type_t[113] = "fsgnj_d" /\ insn_type_t[114] = "fsgnjn_d"
        /\ insn_type_t[115] = "fsgnjx_d"
    BY SMT DEF insn_type_t
  <2> QED BY <1>20, <2>1, HasNumber, SMT DEF FpSign_types
<1>21. CASE t \in FpMinMax_types
  <2>1. /\ insn_type_t[86] = "fmin_s" /\ insn_type_t[87] = "fmax_s" /\ insn_type_t[116] = "fmin_d"
        /\ insn_type_t[117] = "fmax_d"
    BY SMT DEF insn_type_t
  <2> QED BY <1>21, <2>1, HasNumber, SMT DEF FpMinMax_types
<1>22. CASE t \in FpPrecision_types
  <2>1. /\ insn_type_t[118] = "fcvt_s_d" /\ insn_type_t[119] = "fcvt_d_s"
    BY SMT DEF insn_type_t
  <2> QED BY <1>22, <2>1, HasNumber, SMT DEF FpPrecision_types
<1>23. CASE t \in FpSqrt_types
  <2>1. /\ insn_type_t[82] = "fsqrt_s" /\ insn_type_t[112] = "fsqrt_d"
    BY SMT DEF insn_type_t
  <2> QED BY <1>23, <2>1, HasNumber, SMT DEF FpSqrt_types
<1>24. CASE t \in FpCompare_types
  <2>1. /\ insn_type_t[93] = "fle_s" /\ insn_type_t[92] = "flt_s" /\ insn_type_t[91] = "feq_s"
        /\ insn_type_t[122] = "fle_d" /\ insn_type_t[121] = "flt_d"
        /\ insn_type_t[120] = "feq_d"
    BY SMT DEF insn_type_t
  <2> QED BY <1>24, <2>1, HasNumber, SMT DEF FpCompare_types
<1>25. CASE t \in FpToInt_types
  <2>1. /\ insn_type_t[88] = "fcvt_w_s" /\ insn_type_t[89] = "fcvt_wu_s"
       /\ insn_type_t[98] = "fcvt_l_s"
        /\ insn_type_t[99] = "fcvt_lu_s" /\ insn_type_t[124] = "fcvt_w_d"
        /\ insn_type_t[125] = "fcvt_wu_d" /\ insn_type_t[128] = "fcvt_l_d"
        /\ insn_type_t[129] = "fcvt_lu_d"
    BY SMT DEF insn_type_t
  <2> QED BY <1>25, <2>1, HasNumber, SMT DEF FpToInt_types
<1>26. CASE t \in FpFromInt_types
  <2>1. /\ insn_type_t[95] = "fcvt_s_w" /\ insn_type_t[96] = "fcvt_s_wu"
        /\ insn_type_t[100] = "fcvt_s_l" /\ insn_type_t[101] = "fcvt_s_lu"
        /\ insn_type_t[126] = "fcvt_d_w" /\ insn_type_t[127] = "fcvt_d_wu"
        /\ insn_type_t[131] = "fcvt_d_l" /\ insn_type_t[132] = "fcvt_d_lu"
    BY SMT DEF insn_type_t
  <2> QED BY <1>26, <2>1, HasNumber, SMT DEF FpFromInt_types
<1>27. CASE t \in FpMoveTo_types
  <2>1. /\ insn_type_t[90] = "fmv_x_w" /\ insn_type_t[94] = "fclass_s"
       /\ insn_type_t[130] = "fmv_x_d"
        /\ insn_type_t[123] = "fclass_d"
    BY SMT DEF insn_type_t
  <2> QED BY <1>27, <2>1, HasNumber, SMT DEF FpMoveTo_types
<1>28. CASE t \in FpMoveFrom_types
  <2>1. /\ insn_type_t[97] = "fmv_w_x" /\ insn_type_t[133] = "fmv_d_x"
    BY SMT DEF insn_type_t
  <2> QED BY <1>28, <2>1, HasNumber, SMT DEF FpMoveFrom_types
<1>29. CASE t \in Branch_types
  <2>1. /\ insn_type_t[57] = "beq" /\ insn_type_t[58] = "bne" /\ insn_type_t[59] = "blt"
        /\ insn_type_t[60] = "bge" /\ insn_type_t[61] = "bltu" /\ insn_type_t[62] = "bgeu"
    BY SMT DEF insn_type_t
  <2> QED BY <1>29, <2>1, HasNumber, SMT DEF Branch_types
<1>30. CASE t \in Jalr_types
  <2>1. /\ insn_type_t[63] = "jalr"
    BY SMT DEF insn_type_t
  <2> QED BY <1>30, <2>1, HasNumber, SMT DEF Jalr_types
<1>31. CASE t \in Jal_types
  <2>1. /\ insn_type_t[64] = "jal"
    BY SMT DEF insn_type_t
  <2> QED BY <1>31, <2>1, HasNumber, SMT DEF Jal_types
<1>32. CASE t \in Csr_types
  <2>1. /\ insn_type_t[70] = "csrrw" /\ insn_type_t[68] = "csrrs" /\ insn_type_t[66] = "csrrc"
        /\ insn_type_t[71] = "csrrwi" /\ insn_type_t[69] = "csrrsi"
        /\ insn_type_t[67] = "csrrci"
    BY SMT DEF insn_type_t
  <2> QED BY <1>32, <2>1, HasNumber, SMT DEF Csr_types
<1> QED BY <1>1, <1>2, <1>3, <1>4, <1>5, <1>6, <1>7, <1>8, <1>9, <1>10, <1>11, <1>12, <1>13,
     <1>14, <1>15,
  <1>16, <1>17, <1>18, <1>19, <1>20, <1>21, <1>22, <1>23, <1>24, <1>25, <1>26, <1>27, <1>28,
  <1>29, <1>30, <1>31, <1>32, AllTypes

\* And so has every type of an expansion, and the ecall.
LEMMA HalfTypes ==
    ASSUME NEW t \in Half_types \cup {"ecall"}
    PROVE  t \in Range(insn_type_t)
<1>1. CASE t \in {"addi", "fld", "lw", "ld", "fsd", "sw", "sd", "addiw", "lui"}
  <2>1. /\ insn_type_t[10] = "addi" /\ insn_type_t[102] = "fld" /\ insn_type_t[3] = "lw"
        /\ insn_type_t[4] = "ld" /\ insn_type_t[103] = "fsd" /\ insn_type_t[26] = "sw"
        /\ insn_type_t[27] = "sd" /\ insn_type_t[20] = "addiw" /\ insn_type_t[46] = "lui"
    BY SMT DEF insn_type_t
  <2> QED BY <1>1, <2>1, HasNumber, SMT
<1>2. CASE t \in {"srli", "srai", "andi", "sub", "xor", "or", "and", "subw", "addw"}
  <2>1. /\ insn_type_t[15] = "srli" /\ insn_type_t[16] = "srai" /\ insn_type_t[18] = "andi"
        /\ insn_type_t[44] = "sub" /\ insn_type_t[32] = "xor" /\ insn_type_t[34] = "or"
        /\ insn_type_t[35] = "and" /\ insn_type_t[55] = "subw" /\ insn_type_t[47] = "addw"
    BY SMT DEF insn_type_t
  <2> QED BY <1>2, <2>1, HasNumber, SMT
<1>3. CASE t \in {"jal", "beq", "bne", "slli", "jalr", "add", "ecall"}
  <2>1. /\ insn_type_t[64] = "jal" /\ insn_type_t[57] = "beq" /\ insn_type_t[58] = "bne"
        /\ insn_type_t[11] = "slli" /\ insn_type_t[63] = "jalr" /\ insn_type_t[28] = "add"
        /\ insn_type_t[65] = "ecall"
    BY SMT DEF insn_type_t
  <2> QED BY <1>3, <2>1, HasNumber, SMT
<1> QED BY <1>1, <1>2, <1>3 DEF Half_types

\* The function of a type.
Func(t) == IF t \in {"fence", "fence_i"} THEN "empty" ELSE t

\* Both tables, place by place.
LEMMA InterpretTable ==
    ASSUME NEW k \in 1 .. 133
    PROVE  interpret_funcs[k] = Func(insn_type_t[k])
  BY SMT DEF insn_type_t, interpret_funcs, Func

\* The six CSR instructions are in another order in the code generator's.
LEMMA CodegenTable ==
    ASSUME NEW k \in 1 .. 133
    PROVE  IF Func(insn_type_t[k]) \in CsrTypes THEN codegen_funcs[k] \in CsrTypes
           ELSE codegen_funcs[k] = Func(insn_type_t[k])
<1>1. CASE k \in 1 .. 65
  <2>1. codegen_funcs[k] = Func(insn_type_t[k])
    BY <1>1, SMT DEF insn_type_t, codegen_funcs, codegen_csr_funcs, Func
  <2> QED BY <2>1
<1>2. CASE k \in 66 .. 71
  <2>1. codegen_funcs[k] \in CsrTypes
    BY <1>2, SMT DEF codegen_funcs, codegen_csr_funcs, CsrTypes
  <2>2. Func(insn_type_t[k]) \in CsrTypes
    BY <1>2, SMT DEF insn_type_t, Func, CsrTypes
  <2> QED BY <2>1, <2>2
<1>3. CASE k \in 72 .. 133
  <2>1. codegen_funcs[k] = Func(insn_type_t[k])
    BY <1>3, SMT DEF insn_type_t, codegen_funcs, codegen_csr_funcs, Func
  <2> QED BY <2>1
<1> QED BY <1>1, <1>2, <1>3

\* What the engines look up for an instruction that has a number.
LEMMA Dispatched ==
    ASSUME NEW x, x # Dies, x.type \in Range(insn_type_t)
    PROVE  /\ Dispatch(interpret_funcs, x) = Func(x.type)
           /\ IF Func(x.type) \in CsrTypes THEN Dispatch(codegen_funcs, x) \in CsrTypes
              ELSE Dispatch(codegen_funcs, x) = Func(x.type)
<1>1. PICK t : t = x.type
  OBVIOUS
<1>2. PICK k : k = Number[t]
  OBVIOUS
<1>3. k \in DOMAIN insn_type_t /\ insn_type_t[k] = t
  <2>1. k = CHOOSE j \in DOMAIN insn_type_t : insn_type_t[j] = t
    BY <1>1, <1>2 DEF Number
  <2>2. \E j \in DOMAIN insn_type_t : insn_type_t[j] = t
    BY <1>1 DEF Range
  <2> QED BY <2>1, <2>2, Zenon
<1>4. k \in 1 .. 133
  BY <1>3, TypeCount
<1>5. /\ Dispatch(interpret_funcs, x) = interpret_funcs[k]
      /\ Dispatch(codegen_funcs, x) = codegen_funcs[k]
  BY <1>1, <1>2, Zenon DEF Dispatch
<1>6. interpret_funcs[k] = Func(t)
  BY <1>3, <1>4, InterpretTable
<1>7. IF Func(t) \in CsrTypes THEN codegen_funcs[k] \in CsrTypes ELSE codegen_funcs[k] = Func(t)
  BY <1>3, <1>4, CodegenTable
<1> QED BY <1>1, <1>5, <1>6, <1>7, Zenon

\* What insn_decode returns has a number, or ends the emulator.
LEMMA Word_type ==
    ASSUME NEW d \in Word32, NEW x, RightWord(d, x), x # Dies
    PROVE  x.type \in Range(insn_type_t)
<1>1. CASE IsEcall(d)
  <2>1. x.type = "ecall"
    BY <1>1 DEF RightWord
  <2> QED BY <2>1, HalfTypes
<1>2. ASSUME NEW t \in DOMAIN Encoding, x = Meaning(d, t)
      PROVE  x.type \in Range(insn_type_t)
  <2>1. x.type = t
    BY <1>2 DEF Meaning
  <2> QED BY <2>1, EncodedTypes
<1>3. CASE ~IsEcall(d) /\ Meanings(d) # {}
  <2>1. PICK t \in Meanings(d) : x = Meaning(d, t)
    BY <1>3 DEF RightWord
  <2>2. t \in DOMAIN Encoding
    BY <2>1 DEF Meanings
  <2> QED BY <1>2, <2>1, <2>2
<1>4. CASE ~IsEcall(d) /\ Meanings(d) = {}
  <2>1. x = Meaning(d, "jalr")
    BY <1>4, SMTT(30) DEF RightWord
  <2>2. "jalr" \in DOMAIN Encoding
    BY SMT DEF Encoding
  <2> QED BY <1>2, <2>1, <2>2
<1> QED BY <1>1, <1>3, <1>4

\* And for compressed words.
LEMMA Half_type ==
    ASSUME NEW h, NEW x, RightHalf(h, x), x # Dies
    PROVE  x.type \in Range(insn_type_t)
<1>1. x.type \in Half_types
  BY Zenon DEF RightHalf
<1> QED BY <1>1, HalfTypes
-----------------------------------------------------------------------------
(***************************************************************************)
(* The specification: one call of insn_decode, over any word.              *)
(***************************************************************************)

\* The word is one of the two kinds; insn holds what the previous call left
\* until it is decoded, and then the two properties hold.
Fetched == data \in Words \/ \E h \in Halves : data = [half |-> h]
IInv ==
    /\ Fetched
    /\ ~Done => insn \in {Zero, Stale}
    /\ DecodesEveryWord
    /\ TablesMatchTypes

\* A compressed word is a number whose quadrant is not the last.
LEMMA Fetched_half ==
    ASSUME NEW h \in Halves
    PROVE  h \in Nat /\ h % 4 # 3
<1>1. h \in { k \in 0 .. (2^16 - 1) : k % 4 # 3 }
  BY HalvesAssumption, Zenon
<1>2. h \in 0 .. (2^16 - 1)
  BY <1>1, Zenon
<1>3. h % 4 # 3
  BY <1>1, Zenon
<1>4. h \in Nat
  BY <1>2
<1> QED BY <1>3, <1>4

\* No type is called as the mark of a word not yet decoded.
LEMMA Marked ==
    ASSUME NEW t \in Range(insn_type_t)
    PROVE  Func(t) # "none"
<1>1. PICK k \in 1 .. 133 : insn_type_t[k] = t
  BY TypeCount, Zenon DEF Range
<1>2. insn_type_t[k] # "none"
  BY SMT DEF insn_type_t
<1> QED BY <1>1, <1>2 DEF Func

\* What the engines look up for a type that has a number is its function.
LEMMA Looked_up ==
    ASSUME NEW x, x = Dies \/ x.type \in Range(insn_type_t), insn' = x,
           interp' = Dispatch(interpret_funcs, insn'), codegen' = Dispatch(codegen_funcs, insn')
    PROVE  TablesMatchTypes' /\ Done'
<1>1. CASE x = Dies
  <2>1. interp' = "dies"
    BY <1>1 DEF Dispatch
  <2> QED BY <1>1, <2>1 DEF TablesMatchTypes, Done
<1>2. CASE x # Dies
  <2>1. /\ interp' = Func(x.type)
        /\ IF Func(x.type) \in CsrTypes THEN codegen' \in CsrTypes ELSE codegen' = Func(x.type)
    BY <1>2, Dispatched, Zenon
  <2>2. TablesMatchTypes'
    BY <2>1, Zenon DEF TablesMatchTypes, Func
  <2>3. Done'
    BY <1>2, <2>1, Marked DEF Done
  <2> QED BY <2>2, <2>3
<1> QED BY <1>1, <1>2

\* The step that decodes, on the two kinds of words.
LEMMA Decode_word ==
    ASSUME IInv, decode, data \in Words
    PROVE  DecodesEveryWord' /\ TablesMatchTypes' /\ Done'
<1>1. data \in Word32 /\ data' = data /\ insn \in {Zero, Stale}
  <2>1. data \in Word32
    BY WordsAssumption
  <2>2. data' = data
    BY DEF decode
  <2>3. insn \in {Zero, Stale}
    BY DEF decode, IInv, Done
  <2> QED BY <2>1, <2>2, <2>3
<1>2. PICK x : x = insn_decode(data, insn)
  OBVIOUS
<1>3. insn' = x
  BY <1>2 DEF decode
<1>4. RightWord(data, x)
  BY <1>1, <1>2, Decodes_word
<1>5. DecodesEveryWord'
  <2>1. ~IsRvc(data')
    BY <1>1, IsWord
  <2>2. RightWord(data', insn')
    BY <1>1, <1>3, <1>4, Zenon
  <2> QED BY <2>1, <2>2, Zenon DEF DecodesEveryWord, Decodes32, RightWord
<1>6. TablesMatchTypes' /\ Done'
  <2>1. x = Dies \/ x.type \in Range(insn_type_t)
    BY <1>1, <1>4, Word_type
  <2> QED BY <1>3, <2>1, Looked_up DEF decode
<1> QED BY <1>5, <1>6

\* On a compressed one.
LEMMA Decode_half ==
    ASSUME IInv, decode, NEW h \in Halves, data = [half |-> h]
    PROVE  DecodesEveryWord' /\ TablesMatchTypes' /\ Done'
<1>1. h \in Nat /\ h % 4 # 3 /\ data' = data
  <2>1. h \in Nat /\ h % 4 # 3
    BY Fetched_half
  <2>2. data' = data
    BY DEF decode
  <2> QED BY <2>1, <2>2
<1>2. IsRvc(data) /\ data.half = h
  BY DEF IsRvc
<1>3. PICK x : x = insn_decode_rvc(h)
  OBVIOUS
<1>4. insn' = x
  BY <1>2, <1>3, Zenon DEF decode, insn_decode
<1>5. RightHalf(h, x)
  BY <1>1, <1>3, Decodes_half
<1>6. DecodesEveryWord'
  <2>1. IsRvc(data') /\ data'.half = h
    BY <1>1, <1>2, Zenon
  <2>2. RightHalf(h, insn')
    BY <1>4, <1>5, Zenon
  <2> QED BY <2>1, <2>2, Zenon DEF DecodesEveryWord, DecodesRvc, RightHalf
<1>7. TablesMatchTypes' /\ Done'
  <2>1. x = Dies \/ x.type \in Range(insn_type_t)
    BY <1>5, Half_type
  <2> QED BY <1>4, <2>1, Looked_up DEF decode
<1> QED BY <1>6, <1>7

\* The invariant holds before the call.
LEMMA Initial == Init => IInv
  BY DEF Init, IInv, Fetched, Done, DecodesEveryWord, TablesMatchTypes

\* And the call keeps it.
LEMMA Inductive == IInv /\ [Next]_vars => IInv'
<1> SUFFICES ASSUME IInv, [Next]_vars
             PROVE  IInv'
  OBVIOUS
<1>1. CASE decode
  <2>1. Fetched'
    BY <1>1, Zenon DEF decode, IInv, Fetched
  <2>2. DecodesEveryWord' /\ TablesMatchTypes' /\ Done'
    BY <1>1, Decode_word, Decode_half DEF IInv, Fetched
  <2> QED BY <2>1, <2>2 DEF IInv
<1>2. CASE UNCHANGED vars
  BY <1>2, Zenon DEF vars, IInv, Fetched, Done, DecodesEveryWord, Decodes32, DecodesRvc,
     TablesMatchTypes
<1> QED BY <1>1, <1>2 DEF Next

\* insn_decode gives every word, of either kind, the instruction that the
\* encoding tables of the architecture give it, and refuses the others.
THEOREM Decoding == Spec => []DecodesEveryWord
<1>1. IInv => DecodesEveryWord
  BY DEF IInv
<1> QED BY <1>1, Initial, Inductive, PTL DEF Spec

\* What it decodes is the same instruction to the interpreter and to the code
\* generator: both tables have the function of its type at its number.
THEOREM Dispatching == Spec => []TablesMatchTypes
<1>1. IInv => TablesMatchTypes
  BY DEF IInv
<1> QED BY <1>1, Initial, Inductive, PTL DEF Spec
=============================================================================
