--------------------------- MODULE GenblockProofs ---------------------------
(***************************************************************************)
(* The block builder for every set of guest programs, stack capacity, set  *)
(* size and probe bound: what a finished function looks like, and how deep *)
(* the worklist gets on the way.                                           *)
(***************************************************************************)
EXTENDS Genblock, FiniteSetTheorems, SequenceTheorems, TLAPS

USE CapsAssumption

-----------------------------------------------------------------------------
\* The elements of a stack after a push, a pop and a reset.
LEMMA ElemsAppend ==
    ASSUME NEW s \in Seq(Nat), NEW e \in Nat
    PROVE  Elems(Append(s, e)) = Elems(s) \cup {e}
<1>1. /\ Append(s, e) \in Seq(Nat) /\ Len(Append(s, e)) = Len(s) + 1
      /\ Append(s, e)[Len(s) + 1] = e
      /\ \A i \in 1 .. Len(s) : Append(s, e)[i] = s[i]
    OBVIOUS
<1>2. Len(s) \in Nat
    OBVIOUS
<1>3. 1 .. (Len(s) + 1) = (1 .. Len(s)) \cup {Len(s) + 1}
    BY <1>2
<1> QED
    BY <1>1, <1>2, <1>3 DEF Elems

\* Popping removes the last element and nothing else.
LEMMA ElemsPop ==
    ASSUME NEW s \in Seq(Nat), s # <<>>
    PROVE  LET t == SubSeq(s, 1, Len(s) - 1) IN
           /\ t \in Seq(Nat) /\ Len(t) = Len(s) - 1 /\ Len(s) \in Nat \ {0}
           /\ s[Len(s)] \in Nat
           /\ Elems(s) = Elems(t) \cup {s[Len(s)]}
<1>1. PICK t : t = SubSeq(s, 1, Len(s) - 1)
    OBVIOUS
<1>2. PICK n \in Nat \ {0} : n = Len(s)
    OBVIOUS
<1>3. s[n] \in Nat /\ \A i \in 1 .. n - 1 : s[i] \in Nat
    BY <1>2
<1>4. PICK m : m = IF 1 <= n - 1 THEN (n - 1) - 1 + 1 ELSE 0
    OBVIOUS
<1>5. m = n - 1
    BY <1>2, <1>4
<1>6. /\ t \in Seq(Nat) /\ Len(t) = m
      /\ \A i \in 1 .. (n - 1) - 1 + 1 : t[i] = s[1 + i - 1]
    BY <1>1, <1>2, <1>3, <1>4, SubSeqProperties
<1>7. ASSUME NEW i \in 1 .. n - 1
      PROVE  t[i] = s[i]
    BY <1>2, <1>6
<1>8. 1 .. n = (1 .. n - 1) \cup {n}
    BY <1>2
<1>9. Elems(s) = Elems(t) \cup {s[n]}
    <2>1. Elems(s) = { s[i] : i \in 1 .. n } /\ Elems(t) = { t[i] : i \in 1 .. n - 1 }
        BY <1>2, <1>5, <1>6 DEF Elems
    <2>2. { s[i] : i \in 1 .. n } = { s[i] : i \in 1 .. n - 1 } \cup {s[n]}
        BY <1>8, Zenon
    <2>3. { s[i] : i \in 1 .. n - 1 } = { t[i] : i \in 1 .. n - 1 }
        BY <1>7, Zenon
    <2> QED
        BY <2>1, <2>2, <2>3
<1> QED
    BY <1>1, <1>2, <1>3, <1>5, <1>6, <1>9

\* The elements of a sequence of one.
LEMMA ElemsOne ==
    ASSUME NEW e \in Nat
    PROVE  <<e>> \in Seq(Nat) /\ Len(<<e>>) = 1 /\ Elems(<<e>>) = {e}
    BY DEF Elems

\* The elements of the empty sequence.
LEMMA ElemsNone == <<>> \in Seq(Nat) /\ Len(<<>>) = 0 /\ Elems(<<>>) = {}
    BY DEF Elems

\* What stack_push does: it refuses, or the element is on the stack afterwards
\* and nothing else is new.
LEMMA PushEffect ==
    ASSUME NEW e \in Nat, NEW next, stack \in Seq(Nat), Len(stack) <= STACK_CAP,
           stack_push(e, next)
    PROVE  \/ /\ ctl' = "overflow" /\ stack' = stack /\ Len(stack) >= STACK_CAP
           \/ /\ ctl' = next /\ stack' \in Seq(Nat)
              /\ Elems(stack') = Elems(stack) \cup {e}
              /\ Len(stack') <= Len(stack) + 1 /\ Len(stack') <= STACK_CAP
<1>1. CASE Len(stack) >= STACK_CAP
    BY <1>1 DEF stack_push
<1>2. CASE Len(stack) < STACK_CAP /\ e \in Elems(stack)
    BY <1>2 DEF stack_push
<1>3. CASE Len(stack) < STACK_CAP /\ e \notin Elems(stack)
    <2>1. stack' = Append(stack, e) /\ ctl' = next
        BY <1>3 DEF stack_push
    <2>2. stack' \in Seq(Nat) /\ Len(stack') = Len(stack) + 1
        BY <2>1
    <2> QED
        BY <1>3, <2>1, <2>2, ElemsAppend
<1> QED
    BY <1>1, <1>2, <1>3

\* The names of locals.
Regs == {"x", "f"} \X Nat

\* Every func_* traces the registers that its text names, integer ones as
\* integer ones and float ones as float ones, and nothing else but x0.
LEMMA EveryFuncTraces ==
    ASSUME NEW i \in GenInsn
    PROVE  /\ funcs(i).named = Locals(funcs(i).traced)
           /\ funcs(i).named \subseteq Regs /\ funcs(i).traced \subseteq Regs
<1>1. i.rd \in Nat /\ i.rs1 \in Nat /\ i.rs2 \in Nat /\ i.rs3 \in Nat /\ i.form \in Forms
    BY DEF GenInsn
<1> USE DEF Emits
<1>3. CASE i.form \in IntForms
    <2>1. funcs(i) = func_int(i)
        BY <1>3 DEF funcs, IntForms, JumpForms, FpForms
    <2>2. CASE i.form = "load"
        BY <1>1, <2>1, <2>2 DEF func_int, REG, FREG, Locals, gp_reg_usage, fp_reg_usage, Regs
    <2>3. CASE i.form = "op_imm"
        BY <1>1, <2>1, <2>3 DEF func_int, REG, FREG, Locals, gp_reg_usage, fp_reg_usage, Regs
    <2>4. CASE i.form = "upper"
        BY <1>1, <2>1, <2>4 DEF func_int, REG, FREG, Locals, gp_reg_usage, fp_reg_usage, Regs
    <2>5. CASE i.form = "store"
        BY <1>1, <2>1, <2>5 DEF func_int, REG, FREG, Locals, gp_reg_usage, fp_reg_usage, Regs
    <2>6. CASE i.form = "op"
        BY <1>1, <2>1, <2>6 DEF func_int, REG, FREG, Locals, gp_reg_usage, fp_reg_usage, Regs
    <2> QED
        BY <1>3, <2>2, <2>3, <2>4, <2>5, <2>6 DEF IntForms
<1>4. CASE i.form \in JumpForms
    <2>1. funcs(i) = func_jump(i)
        BY <1>4 DEF funcs, IntForms, JumpForms, FpForms
    <2>2. CASE i.form = "branch"
        BY <1>1, <2>1, <2>2 DEF func_jump, REG, FREG, Locals, gp_reg_usage, fp_reg_usage, Regs
    <2>3. CASE i.form = "jalr"
        BY <1>1, <2>1, <2>3 DEF func_jump, REG, FREG, Locals, gp_reg_usage, fp_reg_usage, Regs
    <2>4. CASE i.form = "jal"
        BY <1>1, <2>1, <2>4 DEF func_jump, REG, FREG, Locals, gp_reg_usage, fp_reg_usage, Regs
    <2>5. CASE i.form = "ecall"
        BY <1>1, <2>1, <2>5 DEF func_jump, REG, FREG, Locals, gp_reg_usage, fp_reg_usage, Regs
    <2>6. CASE i.form = "csr"
        BY <1>1, <2>1, <2>6 DEF func_jump, REG, FREG, Locals, gp_reg_usage, fp_reg_usage, Regs
    <2> QED
        BY <1>4, <2>2, <2>3, <2>4, <2>5, <2>6 DEF JumpForms
<1>5. CASE i.form \in FpForms
    <2>1. funcs(i) = func_fp(i)
        BY <1>5 DEF funcs, IntForms, JumpForms, FpForms
    <2> QED
        BY <1>1, <1>5, <2>1 DEF func_fp, FpForms, REG, FREG, Locals, gp_reg_usage, fp_reg_usage, Regs
<1>6. CASE i.form \in {"empty", "interp"}
    <2>1. funcs(i) = Emits({}, {})
        BY <1>6 DEF funcs, IntForms, JumpForms, FpForms
    <2> QED
        BY <2>1 DEF Locals
<1> QED
    BY <1>1, <1>3, <1>4, <1>5, <1>6 DEF Forms

\* Facts about a decoded instruction.
LEMMA InsnFacts ==
    ASSUME prog \in Programs, NEW a \in DOMAIN prog
    PROVE  /\ a \in Nat \ {0}
           /\ prog[a].target \in Nat
           /\ Targets(prog[a]) \subseteq {prog[a].target}
           /\ funcs(prog[a]).named = Locals(funcs(prog[a]).traced)
           /\ funcs(prog[a]).named \subseteq Regs /\ funcs(prog[a]).traced \subseteq Regs
           /\ NextPc(a, prog[a]) \in Nat
           /\ Succ(a) \subseteq Nat
           /\ Targets(prog[a]) \subseteq Succ(a)
<1>1. a \in Nat \ {0} /\ prog[a] \in GenInsn
    BY ProgramsAssumption
<1>2. prog[a].target \in Nat /\ prog[a].rvc \in BOOLEAN
    BY <1>1 DEF GenInsn
<1>3. Targets(prog[a]) \subseteq {prog[a].target}
    BY DEF Targets
<1>4. NextPc(a, prog[a]) \in Nat
    BY <1>1, <1>2 DEF NextPc
<1>5. /\ funcs(prog[a]).named = Locals(funcs(prog[a]).traced)
      /\ funcs(prog[a]).named \subseteq Regs /\ funcs(prog[a]).traced \subseteq Regs
    BY <1>1, EveryFuncTraces
<1>6. Succ(a) \subseteq Nat /\ Targets(prog[a]) \subseteq Succ(a)
    BY <1>2, <1>3, <1>4 DEF Succ, Successors
<1> QED
    BY <1>1, <1>2, <1>3, <1>4, <1>5, <1>6

-----------------------------------------------------------------------------
\* Where the loop is while its results count.
Looping == {"pop", "emit", "fall", "done"}

\* The address that is in the set but has no label yet.
Pending == IF ctl = "emit" THEN {pc} ELSE {}

\* Every element of the set is where its own probe ends.
SetIsFindable ==
    \A i \in SetIndex : set[i] # 0 => \E k \in SetProbe(set[i]) : SetSlot(set[i], k) = i

\* An address is new when it is translated, and has its label when it falls
\* through.
Control ==
    /\ ctl = "fall" => pc \in Elems(labels) /\ ~EndsBlock(prog[pc])
    /\ ctl = "emit" => pc # 0 /\ pc \notin Elems(labels)
    /\ ctl = "done" => stack = <<>>
    /\ ctl \in Looping => Elems(labels) \subseteq DOMAIN prog

\* The gotos are those of the labelled instructions, up to the one being
\* translated.
GotosAreEmitted ==
    ctl \in Looping =>
        \A a \in Elems(labels) :
            /\ Targets(prog[a]) \subseteq gotos
            /\ ~(ctl = "fall" /\ a = pc) => Succ(a) \subseteq gotos

\* The entry and the target of every goto are labelled or still to come.
NothingIsLost ==
    ctl \in Looping =>
        /\ entry \in Elems(labels) \cup Elems(stack) \cup Pending
        /\ gotos \subseteq Elems(labels) \cup Elems(stack) \cup Pending

\* Nothing is translated that the entry does not lead to.
NothingIsExtra ==
    ctl \in Looping =>
        \A S \in SUBSET Nat :
            entry \in S /\ (\A b \in S \cap Elems(labels) : Succ(b) \subseteq S)
                => Elems(labels) \cup Elems(stack) \cup Pending \cup gotos \subseteq S

\* At every moment the locals are the registers that the text names so far.
LocalsAreTraced ==
    ctl \in Looping => used = Locals(traced)

\* One address above the branches only between two translations.
Depth ==
    /\ ctl # "start" => Len(stack) <= Cardinality(Branches) + (IF ctl = "pop" THEN 1 ELSE 0)
    /\ ctl = "overflow" => Len(stack) >= STACK_CAP

\* The inductive invariant.
IndInv ==
    /\ TypeOK /\ SetIsFindable /\ LabelsAreUnique /\ Control
    /\ GotosAreEmitted /\ NothingIsLost /\ NothingIsExtra /\ LocalsAreTraced /\ Depth

-----------------------------------------------------------------------------
\* The hash set.

\* A probe stays inside the table of the set.
LEMMA SetSlotIsIndex ==
    ASSUME NEW e \in Nat, NEW k \in Nat
    PROVE  SetSlot(e, k) \in SetIndex
<1>1. PICK h : h = (e % SET_SIZE) + k
    OBVIOUS
<1>2. h \in Nat
    BY <1>1
<1>3. h % SET_SIZE \in 0 .. SET_SIZE - 1
    BY <1>2
<1> QED
    BY <1>1, <1>3 DEF SetSlot, SetIndex

\* A probe ends in at most one place.
LEMMA SetProbeIsUnique ==
    ASSUME NEW e, NEW k1 \in SetProbe(e), NEW k2 \in SetProbe(e)
    PROVE  k1 = k2
<1>1. k1 \in Nat /\ k2 \in Nat
    BY DEF SetProbe, SetIndex
<1>2. ~(k1 < k2) /\ ~(k2 < k1)
    BY <1>1 DEF SetProbe
<1> QED
    BY <1>1, <1>2

\* The members of the set.
Members == { a \in { set[i] : i \in SetIndex } : a # 0 }

\* A probe that ends in a free slot is proof that the element is not there.
LEMMA FreeMeansAbsent ==
    ASSUME SetIsFindable, NEW e \in Nat \ {0}, NEW k \in SetProbe(e),
           set[SetSlot(e, k)] # e
    PROVE  e \notin Members
<1> SUFFICES ASSUME NEW i \in SetIndex, set[i] = e
             PROVE  FALSE
    BY DEF Members
<1>1. PICK k2 \in SetProbe(e) : SetSlot(e, k2) = i
    BY DEF SetIsFindable
<1>2. k2 = k
    BY SetProbeIsUnique
<1> QED
    BY <1>1, <1>2

\* Storing an element where its probe ended breaks no probe chain.
LEMMA StoreKeepsFindable ==
    ASSUME set \in [SetIndex -> Nat], SetIsFindable,
           NEW e \in Nat \ {0}, NEW k \in SetProbe(e),
           set' = [set EXCEPT ![SetSlot(e, k)] = e]
    PROVE  SetIsFindable'
<1> SUFFICES ASSUME NEW i \in SetIndex, set'[i] # 0
             PROVE  (\E n \in SetProbe(set[i]) : SetSlot(set[i], n) = i)'
    BY DEF SetIsFindable
<1>1. /\ k \in SetIndex /\ k \in Nat /\ k <= MAX_SEARCH_COUNT
      /\ set[SetSlot(e, k)] \in {0, e}
      /\ \A j \in 0 .. k-1 : set[SetSlot(e, j)] \notin {0, e}
    BY DEF SetProbe, SetIndex
<1>2. PICK s \in SetIndex : s = SetSlot(e, k)
    BY <1>1, SetSlotIsIndex
<1>3. set'[s] = e /\ \A j \in SetIndex \ {s} : set'[j] = set[j]
    BY <1>2
<1>4. CASE i = s
    <2>1. ASSUME NEW j \in 0 .. k-1
          PROVE  set'[SetSlot(e, j)] \notin {0, e}
        <3>1. SetSlot(e, j) \in SetIndex /\ set[SetSlot(e, j)] \notin {0, e}
            BY <1>1, SetSlotIsIndex
        <3>2. SetSlot(e, j) # s
            BY <1>1, <1>2, <3>1
        <3> QED
            BY <1>3, <3>1, <3>2
    <2>2. k \in SetProbe(set[i])'
        BY <1>1, <1>2, <1>3, <1>4, <2>1 DEF SetProbe, SetSlot
    <2> QED
        BY <1>2, <1>3, <1>4, <2>2 DEF SetSlot
<1>5. CASE i # s
    <2>1. PICK q \in Nat \ {0} : q = set[i] /\ q = set'[i]
        BY <1>3, <1>5
    <2>2. PICK n \in SetProbe(q) : SetSlot(q, n) = i
        BY <2>1 DEF SetIsFindable
    <2>3. /\ n \in SetIndex /\ n \in Nat /\ n <= MAX_SEARCH_COUNT
          /\ \A j \in 0 .. n-1 : set[SetSlot(q, j)] \notin {0, q}
        BY <2>2 DEF SetProbe, SetIndex
    <2>4. ASSUME NEW j \in 0 .. n-1
          PROVE  set'[SetSlot(q, j)] \notin {0, q}
        <3>1. SetSlot(q, j) \in SetIndex /\ set[SetSlot(q, j)] \notin {0, q}
            BY <2>3, SetSlotIsIndex
        <3>2. CASE SetSlot(q, j) = s
            <4>1. set[s] = e
                BY <1>1, <1>2, <3>1, <3>2
            <4> QED
                BY <1>3, <3>1, <3>2, <4>1
        <3>3. CASE SetSlot(q, j) # s
            BY <1>3, <3>1, <3>3
        <3> QED
            BY <3>2, <3>3
    <2>5. n \in SetProbe(set[i])'
        BY <2>1, <2>2, <2>3, <2>4 DEF SetProbe, SetSlot
    <2> QED
        BY <2>1, <2>2, <2>5 DEF SetSlot
<1> QED
    BY <1>4, <1>5

\* Storing where the probe ends adds one member and removes none.
LEMMA StoreAddsMember ==
    ASSUME set \in [SetIndex -> Nat], NEW e \in Nat \ {0}, NEW k \in SetProbe(e),
           set' = [set EXCEPT ![SetSlot(e, k)] = e]
    PROVE  set' \in [SetIndex -> Nat] /\ Members' = Members \cup {e}
<1>1. k \in Nat /\ set[SetSlot(e, k)] \in {0, e}
    BY DEF SetProbe, SetIndex
<1>2. PICK s \in SetIndex : s = SetSlot(e, k)
    BY <1>1, SetSlotIsIndex
<1>3. set'[s] = e /\ \A j \in SetIndex \ {s} : set'[j] = set[j]
    BY <1>2
<1>4. \A a : a \in Members' <=> a \in Members \cup {e}
    BY <1>1, <1>2, <1>3 DEF Members
<1> QED
    BY <1>2, <1>4

-----------------------------------------------------------------------------
\* What one turn of the loop's head does: the popped address is refused, was
\* translated before, or is new and will be translated.
LEMMA PopEffect ==
    ASSUME IndInv, pop
    PROVE  /\ prog' = prog /\ entry' = entry /\ labels' = labels
           /\ gotos' = gotos /\ used' = used /\ traced' = traced
           /\ pc' \in Nat /\ stack' \in Seq(Nat) /\ Len(stack') = Len(stack) - 1
           /\ Len(stack) \in Nat \ {0}
           /\ Elems(stack) = Elems(stack') \cup {pc'}
           /\ set' \in [SetIndex -> Nat] /\ SetIsFindable'
           /\ \/ ctl' = "abort" /\ Members' = Members
              \/ ctl' = "pop" /\ pc' \in Elems(labels) /\ Members' = Members
              \/ /\ ctl' = "emit" /\ pc' # 0 /\ pc' \notin Elems(labels)
                 /\ Members' = Members \cup {pc'}
<1>1. /\ prog' = prog /\ entry' = entry /\ labels' = labels /\ gotos' = gotos
      /\ used' = used /\ traced' = traced /\ ctl = "pop" /\ stack # <<>>
      /\ pc' = stack[Len(stack)] /\ stack' = SubSeq(stack, 1, Len(stack) - 1)
    BY DEF pop
<1>2. stack \in Seq(Nat) /\ set \in [SetIndex -> Nat] /\ SetIsFindable
    BY DEF IndInv, TypeOK
<1>3. /\ pc' \in Nat /\ stack' \in Seq(Nat) /\ Len(stack') = Len(stack) - 1
      /\ Len(stack) \in Nat \ {0} /\ Elems(stack) = Elems(stack') \cup {pc'}
    BY <1>1, <1>2, ElemsPop
<1>4. Members = Elems(labels)
    BY <1>1 DEF IndInv, LabelsAreUnique, Members
<1>5. CASE ctl' = "abort" /\ set' = set
    <2>1. SetIsFindable' /\ Members' = Members
        BY <1>2, <1>5 DEF SetIsFindable, SetProbe, SetSlot, Members
    <2> QED
        BY <1>1, <1>2, <1>3, <1>5, <2>1
<1>6. ASSUME pc' # 0, NEW k \in SetProbe(pc'),
             set' = [set EXCEPT ![SetSlot(pc', k)] = pc'],
             ctl' = IF set[SetSlot(pc', k)] = pc' THEN "pop" ELSE "emit"
      PROVE  /\ set' \in [SetIndex -> Nat] /\ SetIsFindable'
             /\ \/ ctl' = "pop" /\ pc' \in Elems(labels) /\ Members' = Members
                \/ /\ ctl' = "emit" /\ pc' # 0 /\ pc' \notin Elems(labels)
                   /\ Members' = Members \cup {pc'}
    <2>1. PICK e \in Nat \ {0} : e = pc'
        BY <1>3, <1>6
    <2>2. SetIsFindable' /\ set' \in [SetIndex -> Nat] /\ Members' = Members \cup {e}
        BY <1>2, <1>6, <2>1, StoreKeepsFindable, StoreAddsMember
    <2>3. CASE set[SetSlot(e, k)] = e
        <3>1. k \in Nat
            BY <1>6 DEF SetProbe, SetIndex
        <3>2. e \in Members
            BY <2>1, <2>3, <3>1, SetSlotIsIndex DEF Members
        <3> QED
            BY <1>4, <1>6, <2>1, <2>2, <2>3, <3>2
    <2>4. CASE set[SetSlot(e, k)] # e
        <3>1. e \notin Members
            BY <1>2, <1>6, <2>1, <2>4, FreeMeansAbsent
        <3> QED
            BY <1>4, <1>6, <2>1, <2>2, <2>4, <3>1
    <2> QED
        BY <2>3, <2>4
<1> QED
    BY <1>1, <1>3, <1>5, <1>6 DEF pop

\* The label, gotos, locals and pushes of one instruction.
LEMMA EmitEffect ==
    ASSUME IndInv, emit
    PROVE  /\ prog' = prog /\ entry' = entry /\ set' = set /\ pc' = pc /\ ctl = "emit"
           /\ labels' = Append(labels, pc) /\ labels' \in Seq(Nat)
           /\ Elems(labels') = Elems(labels) \cup {pc}
           /\ stack' \in Seq(Nat) /\ Len(stack') <= STACK_CAP
           /\ \/ /\ ctl' = "fatal" /\ pc \notin DOMAIN prog
                 /\ stack' = stack /\ gotos' = gotos /\ used' = used /\ traced' = traced
              \/ /\ pc \in DOMAIN prog
                 /\ gotos' = gotos \cup Targets(prog[pc])
                 /\ used' = used \cup funcs(prog[pc]).named /\ traced' = traced \cup funcs(prog[pc]).traced
                 /\ \/ ctl' = "overflow" /\ stack' = stack /\ Len(stack) >= STACK_CAP
                    \/ /\ ctl' = IF EndsBlock(prog[pc]) THEN "pop" ELSE "fall"
                       /\ Elems(stack') = Elems(stack) \cup Targets(prog[pc])
                       /\ Len(stack') <= Len(stack) +
                                         (IF Targets(prog[pc]) = {} THEN 0 ELSE 1)
<1>1. /\ prog' = prog /\ entry' = entry /\ set' = set /\ pc' = pc /\ ctl = "emit"
      /\ labels' = Append(labels, pc)
    BY DEF emit
<1>2. /\ prog \in Programs /\ labels \in Seq(Nat) /\ pc \in Nat
      /\ stack \in Seq(Nat) /\ Len(stack) <= STACK_CAP /\ Len(stack) \in Nat
    BY DEF IndInv, TypeOK
<1>3. labels' \in Seq(Nat) /\ Elems(labels') = Elems(labels) \cup {pc}
    BY <1>1, <1>2, ElemsAppend
<1>4. CASE pc \notin DOMAIN prog
    <2>1. ctl' = "fatal" /\ stack' = stack /\ gotos' = gotos /\ used' = used /\ traced' = traced
        BY <1>4 DEF emit
    <2> QED
        BY <1>1, <1>2, <1>3, <1>4, <2>1
<1>5. CASE pc \in DOMAIN prog
    <2> DEFINE next == IF EndsBlock(prog[pc]) THEN "pop" ELSE "fall"
    <2>1. /\ gotos' = gotos \cup Targets(prog[pc])
          /\ used' = used \cup funcs(prog[pc]).named /\ traced' = traced \cup funcs(prog[pc]).traced
          /\ IF Targets(prog[pc]) = {} THEN ctl' = next /\ stack' = stack
             ELSE stack_push(prog[pc].target, next)
        BY <1>5 DEF emit
    <2>2. CASE Targets(prog[pc]) = {}
        BY <1>1, <1>2, <1>3, <1>5, <2>1, <2>2
    <2>3. CASE Targets(prog[pc]) # {}
        <3>1. prog[pc].target \in Nat /\ Targets(prog[pc]) = {prog[pc].target}
            BY <1>2, <1>5, <2>3, InsnFacts
        <3>2. stack_push(prog[pc].target, next)
            BY <2>1, <2>3
        <3>3. \/ /\ ctl' = "overflow" /\ stack' = stack /\ Len(stack) >= STACK_CAP
              \/ /\ ctl' = next /\ stack' \in Seq(Nat)
                 /\ Elems(stack') = Elems(stack) \cup {prog[pc].target}
                 /\ Len(stack') <= Len(stack) + 1 /\ Len(stack') <= STACK_CAP
            BY <1>2, <3>1, <3>2, PushEffect
        <3> QED
            BY <1>1, <1>2, <1>3, <1>5, <2>1, <2>3, <3>1, <3>3
    <2> QED
        BY <2>2, <2>3
<1> QED
    BY <1>4, <1>5

\* The goto and the push of the next address.
LEMMA FallEffect ==
    ASSUME IndInv, fall
    PROVE  /\ prog' = prog /\ entry' = entry /\ set' = set /\ labels' = labels
           /\ used' = used /\ traced' = traced /\ ctl = "fall"
           /\ pc \in DOMAIN prog /\ pc \in Elems(labels) /\ ~EndsBlock(prog[pc])
           /\ pc' \in Nat /\ pc' = NextPc(pc, prog[pc])
           /\ gotos' = gotos \cup {pc'}
           /\ stack' \in Seq(Nat) /\ Len(stack') <= STACK_CAP
           /\ \/ ctl' = "overflow" /\ stack' = stack /\ Len(stack) >= STACK_CAP
              \/ /\ ctl' = "pop" /\ Elems(stack') = Elems(stack) \cup {pc'}
                 /\ Len(stack') <= Len(stack) + 1
<1>1. /\ prog' = prog /\ entry' = entry /\ set' = set /\ labels' = labels
      /\ used' = used /\ traced' = traced /\ ctl = "fall" /\ pc' = NextPc(pc, prog[pc])
      /\ gotos' = gotos \cup {pc'} /\ stack_push(pc', "pop")
    BY DEF fall
<1>2. /\ prog \in Programs /\ stack \in Seq(Nat) /\ Len(stack) <= STACK_CAP
    BY DEF IndInv, TypeOK
<1>3. pc \in DOMAIN prog /\ pc \in Elems(labels) /\ ~EndsBlock(prog[pc])
    BY <1>1 DEF IndInv, Control, Looping
<1>4. pc' \in Nat
    BY <1>1, <1>2, <1>3, InsnFacts
<1>5. \/ /\ ctl' = "overflow" /\ stack' = stack /\ Len(stack) >= STACK_CAP
      \/ /\ ctl' = "pop" /\ stack' \in Seq(Nat)
         /\ Elems(stack') = Elems(stack) \cup {pc'}
         /\ Len(stack') <= Len(stack) + 1 /\ Len(stack') <= STACK_CAP
    BY <1>1, <1>2, <1>4, PushEffect
<1> QED
    BY <1>1, <1>2, <1>3, <1>4, <1>5

\* What is said of the set depends on the set alone.
LEMMA SetUnchanged ==
    ASSUME set' = set
    PROVE  (SetIsFindable => SetIsFindable') /\ Members' = Members
    BY DEF SetIsFindable, SetProbe, SetSlot, Members

\* The number of branches translated.
LEMMA BranchesAreFinite ==
    ASSUME labels \in Seq(Nat)
    PROVE  IsFiniteSet(Branches) /\ Cardinality(Branches) \in Nat
<1>1. IsFiniteSet(1 .. Len(labels))
    BY FS_Interval
<1>2. Branches \subseteq 1 .. Len(labels)
    BY DEF Branches
<1> QED
    BY <1>1, <1>2, FS_Subset, FS_CardinalityType

\* A new label counts as a branch if its instruction is one.
LEMMA BranchesAppend ==
    ASSUME labels \in Seq(Nat), pc \in Nat, labels' = Append(labels, pc), prog' = prog
    PROVE  Cardinality(Branches') = Cardinality(Branches) +
              (IF pc \in DOMAIN prog /\ prog[pc].type = "branch" THEN 1 ELSE 0)
<1>1. PICK n \in Nat : n = Len(labels)
    OBVIOUS
<1>2. /\ Len(labels') = n + 1 /\ labels'[n + 1] = pc
      /\ \A i \in 1 .. n : labels'[i] = labels[i]
    BY <1>1
<1>3. 1 .. n + 1 = (1 .. n) \cup {n + 1} /\ n + 1 \notin 1 .. n
    BY <1>1
<1>4. n + 1 \notin Branches
    BY <1>1, <1>3 DEF Branches
<1>5. Branches' = IF pc \in DOMAIN prog /\ prog[pc].type = "branch"
                  THEN Branches \cup {n + 1} ELSE Branches
    BY <1>1, <1>2, <1>3 DEF Branches
<1>6. IsFiniteSet(Branches) /\ Cardinality(Branches) \in Nat
    BY BranchesAreFinite
<1>7. Cardinality(Branches \cup {n + 1}) = Cardinality(Branches) + 1
    BY <1>4, <1>6, FS_AddElement
<1> QED
    BY <1>5, <1>6, <1>7

-----------------------------------------------------------------------------
\* The invariant holds at first and every action keeps it.

\* The invariant before the first translation.
LEMMA IndInvInit == Init => IndInv
<1> SUFFICES ASSUME Init
             PROVE  IndInv
    OBVIOUS
<1>1. /\ ctl = "start" /\ prog \in Programs /\ entry \in DOMAIN prog /\ pc = entry
      /\ stack = <<>> /\ labels = <<>> /\ gotos = {} /\ used = {} /\ traced = {}
      /\ set = [i \in SetIndex |-> 0]
    BY DEF Init
<1>2. pc \in Nat
    BY <1>1, InsnFacts
<1>3. TypeOK
    BY <1>1, <1>2, ElemsNone DEF TypeOK
<1>4. SetIsFindable
    BY <1>1 DEF SetIsFindable
<1> QED
    BY <1>1, <1>3, <1>4 DEF IndInv, LabelsAreUnique, Control, Looping, GotosAreEmitted,
        NothingIsLost, NothingIsExtra, LocalsAreTraced, Depth

\* Whatever the last call left behind, the new one starts clean.
LEMMA StartKeeps == IndInv /\ start => IndInv'
<1> SUFFICES ASSUME IndInv, start
             PROVE  IndInv'
    OBVIOUS
<1>1. /\ prog' = prog /\ entry' = entry /\ pc' = pc /\ stack' = <<entry>> /\ labels' = <<>>
      /\ gotos' = {} /\ used' = {} /\ traced' = {} /\ ctl' = "pop" /\ set' = [i \in SetIndex |-> 0]
    BY DEF start
<1>2. prog \in Programs /\ entry \in DOMAIN prog /\ pc \in Nat /\ entry \in Nat
    BY InsnFacts DEF IndInv, TypeOK
<1>3. stack' \in Seq(Nat) /\ Len(stack') = 1 /\ Elems(stack') = {entry}
    BY <1>1, <1>2, ElemsOne
<1>4. labels' \in Seq(Nat) /\ Len(labels') = 0 /\ Elems(labels') = {}
    BY <1>1, ElemsNone
<1>5. TypeOK'
    BY <1>1, <1>2, <1>3, <1>4 DEF TypeOK
<1>6. SetIsFindable'
    BY <1>1 DEF SetIsFindable
<1>7. LabelsAreUnique'
    BY <1>1, <1>4 DEF LabelsAreUnique
<1>8. Control' /\ GotosAreEmitted' /\ NothingIsLost' /\ NothingIsExtra'
    BY <1>1, <1>3, <1>4 DEF Control, GotosAreEmitted, NothingIsLost, NothingIsExtra,
        Looping, Pending
<1>9. LocalsAreTraced'
    BY <1>1, <1>4 DEF LocalsAreTraced, Locals
<1>10. Depth'
    <2>1. Branches' = {}
        BY <1>4 DEF Branches
    <2>2. Cardinality(Branches') = 0
        BY <2>1, FS_EmptySet
    <2> QED
        BY <1>1, <1>3, <2>2 DEF Depth
<1> QED
    BY <1>5, <1>6, <1>7, <1>8, <1>9, <1>10 DEF IndInv

\* Taking an address from the worklist: it is new, or has its label already.
LEMMA PopKeeps == IndInv /\ pop => IndInv'
<1> SUFFICES ASSUME IndInv, pop
             PROVE  IndInv'
    OBVIOUS
<1>0. ctl = "pop"
    BY DEF pop
<1>1. /\ prog' = prog /\ entry' = entry /\ labels' = labels
      /\ gotos' = gotos /\ used' = used /\ traced' = traced
      /\ pc' \in Nat /\ stack' \in Seq(Nat) /\ Len(stack') = Len(stack) - 1
      /\ Len(stack) \in Nat \ {0}
      /\ Elems(stack) = Elems(stack') \cup {pc'}
      /\ set' \in [SetIndex -> Nat] /\ SetIsFindable'
    BY PopEffect
<1>2. \/ ctl' = "abort" /\ Members' = Members
      \/ ctl' = "pop" /\ pc' \in Elems(labels) /\ Members' = Members
      \/ /\ ctl' = "emit" /\ pc' # 0 /\ pc' \notin Elems(labels)
         /\ Members' = Members \cup {pc'}
    BY PopEffect
<1>3. TypeOK'
    BY <1>1, <1>2 DEF IndInv, TypeOK, Ended
<1>4. LabelsAreUnique'
    <2>1. /\ \A i, j \in 1 .. Len(labels) : labels[i] = labels[j] => i = j
          /\ Members = Elems(labels)
        BY <1>0 DEF IndInv, LabelsAreUnique, Members
    <2>2. Members' = Elems(labels) \cup (IF ctl' = "emit" THEN {pc'} ELSE {})
        BY <1>2, <2>1
    <2>3. Elems(labels)' = Elems(labels)
        BY <1>1 DEF Elems
    <2>4. \A i, j \in 1 .. Len(labels') : labels'[i] = labels'[j] => i = j
        BY <1>1, <2>1
    <2> QED
        BY <2>2, <2>3, <2>4 DEF LabelsAreUnique, Members
<1>5. Elems(labels)' = Elems(labels)
    BY <1>1 DEF Elems
<1>6. Control'
    BY <1>0, <1>1, <1>2, <1>5 DEF IndInv, Control, Looping
<1>7. GotosAreEmitted'
    BY <1>0, <1>1, <1>2, <1>5 DEF IndInv, GotosAreEmitted, Looping, Succ
<1>8. NothingIsLost'
    BY <1>0, <1>1, <1>2, <1>5 DEF IndInv, NothingIsLost, Looping, Pending
<1>9. NothingIsExtra'
    <2> SUFFICES ASSUME NEW S \in SUBSET Nat, entry \in S, ctl' \in Looping,
                        \A b \in S \cap Elems(labels) : Succ(b) \subseteq S
                 PROVE  Elems(labels) \cup Elems(stack') \cup Pending' \cup gotos \subseteq S
        BY <1>1, <1>5 DEF NothingIsExtra, Succ
    <2>1. Elems(labels) \cup Elems(stack) \cup gotos \subseteq S
        BY <1>0 DEF IndInv, NothingIsExtra, Looping
    <2>2. Pending' \subseteq {pc'}
        BY DEF Pending
    <2> QED
        BY <1>1, <2>1, <2>2
<1>10. LocalsAreTraced'
    BY <1>0, <1>1, <1>5 DEF IndInv, LocalsAreTraced, Looping
<1>11. Depth'
    <2>1. Cardinality(Branches) \in Nat
        BY BranchesAreFinite DEF IndInv, TypeOK
    <2>2. Branches' = Branches
        BY <1>1 DEF Branches
    <2>3. Len(stack) <= Cardinality(Branches) + 1
        BY <1>0 DEF IndInv, Depth
    <2> QED
        BY <1>1, <1>2, <2>1, <2>2, <2>3 DEF Depth
<1> QED
    BY <1>1, <1>3, <1>4, <1>6, <1>7, <1>8, <1>9, <1>10, <1>11 DEF IndInv

\* Translating an instruction: its targets go to the worklist.
LEMMA EmitKeeps == IndInv /\ emit => IndInv'
<1> SUFFICES ASSUME IndInv, emit
             PROVE  IndInv'
    OBVIOUS
<1>1. /\ prog' = prog /\ entry' = entry /\ set' = set /\ pc' = pc /\ ctl = "emit"
      /\ labels' = Append(labels, pc) /\ labels' \in Seq(Nat)
      /\ Elems(labels') = Elems(labels) \cup {pc}
      /\ stack' \in Seq(Nat) /\ Len(stack') <= STACK_CAP
    BY EmitEffect
<1>2. \/ /\ ctl' = "fatal" /\ pc \notin DOMAIN prog
         /\ stack' = stack /\ gotos' = gotos /\ used' = used /\ traced' = traced
      \/ /\ pc \in DOMAIN prog
         /\ gotos' = gotos \cup Targets(prog[pc])
         /\ used' = used \cup funcs(prog[pc]).named /\ traced' = traced \cup funcs(prog[pc]).traced
         /\ \/ ctl' = "overflow" /\ stack' = stack /\ Len(stack) >= STACK_CAP
            \/ /\ ctl' = IF EndsBlock(prog[pc]) THEN "pop" ELSE "fall"
               /\ Elems(stack') = Elems(stack) \cup Targets(prog[pc])
               /\ Len(stack') <= Len(stack) + (IF Targets(prog[pc]) = {} THEN 0 ELSE 1)
    BY EmitEffect
<1>3. /\ prog \in Programs /\ labels \in Seq(Nat) /\ pc \in Nat
      /\ stack \in Seq(Nat) /\ gotos \subseteq Nat /\ used \subseteq Regs /\ traced \subseteq Regs
    BY DEF IndInv, TypeOK, Regs
<1>4. Elems(labels)' = Elems(labels) \cup {pc}
    BY <1>1 DEF Elems
<1>5. ctl' \in {"pop", "fall", "overflow", "fatal"} /\ ctl' # "emit" /\ Pending' = {}
    BY <1>2 DEF Pending
<1>6. ctl' \in Looping =>
        /\ pc \in DOMAIN prog
        /\ gotos' = gotos \cup Targets(prog[pc])
        /\ used' = used \cup funcs(prog[pc]).named /\ traced' = traced \cup funcs(prog[pc]).traced
        /\ ctl' = IF EndsBlock(prog[pc]) THEN "pop" ELSE "fall"
        /\ Elems(stack') = Elems(stack) \cup Targets(prog[pc])
    BY <1>2 DEF Looping
<1>7. TypeOK'
    <2>1. gotos' \subseteq Nat /\ used' \subseteq Regs /\ traced' \subseteq Regs
        BY <1>2, <1>3, InsnFacts
    <2> QED
        BY <1>1, <1>5, <2>1 DEF IndInv, TypeOK, Ended, Regs
<1>8. SetIsFindable'
    BY <1>1, SetUnchanged DEF IndInv
<1>9. LabelsAreUnique'
    <2>1. /\ \A i, j \in 1 .. Len(labels) : labels[i] = labels[j] => i = j
          /\ Members = Elems(labels) \cup {pc}
        BY <1>1 DEF IndInv, LabelsAreUnique, Members
    <2>2. pc \notin Elems(labels)
        BY <1>1 DEF IndInv, Control
    <2>3. PICK n \in Nat : n = Len(labels)
        BY <1>3
    <2>4. /\ Len(labels') = n + 1 /\ labels'[n + 1] = pc
          /\ \A i \in 1 .. n : labels'[i] = labels[i] /\ labels[i] # pc
        BY <1>1, <1>3, <2>2, <2>3 DEF Elems
    <2>5. ASSUME NEW i \in 1 .. n + 1, NEW j \in 1 .. n + 1, labels'[i] = labels'[j]
          PROVE  i = j
        BY <2>1, <2>3, <2>4, <2>5
    <2>6. Members' = Elems(labels)'
        BY <1>1, <1>4, <2>1, SetUnchanged
    <2> QED
        BY <1>5, <2>4, <2>5, <2>6 DEF LabelsAreUnique, Members
<1>10. Control'
    BY <1>1, <1>4, <1>5, <1>6 DEF IndInv, Control, Looping
<1>11. GotosAreEmitted'
    <2> SUFFICES ASSUME ctl' \in Looping, NEW a \in Elems(labels) \cup {pc}
                 PROVE  /\ Targets(prog[a]) \subseteq gotos'
                        /\ ~(ctl' = "fall" /\ a = pc) => Succ(a) \subseteq gotos'
        BY <1>1, <1>4 DEF GotosAreEmitted, Succ
    <2>1. CASE a \in Elems(labels)
        BY <1>1, <1>6, <2>1 DEF IndInv, GotosAreEmitted, Looping
    <2>2. CASE a = pc
        BY <1>6, <2>2 DEF Succ, Successors
    <2> QED
        BY <2>1, <2>2
<1>12. NothingIsLost'
    BY <1>1, <1>4, <1>5, <1>6 DEF IndInv, NothingIsLost, Looping, Pending
<1>13. NothingIsExtra'
    <2> SUFFICES ASSUME NEW S \in SUBSET Nat, entry \in S, ctl' \in Looping,
                        \A b \in S \cap (Elems(labels) \cup {pc}) : Succ(b) \subseteq S
                 PROVE  Elems(labels) \cup {pc} \cup Elems(stack') \cup gotos' \subseteq S
        BY <1>1, <1>4, <1>5 DEF NothingIsExtra, Succ
    <2>1. Elems(labels) \cup Elems(stack) \cup {pc} \cup gotos \subseteq S
        BY <1>1 DEF IndInv, NothingIsExtra, Looping, Pending
    <2>2. Targets(prog[pc]) \subseteq S
        <3>1. Targets(prog[pc]) \subseteq Succ(pc)
            BY <1>3, <1>6, InsnFacts
        <3> QED
            BY <2>1, <3>1
    <2> QED
        BY <1>6, <2>1, <2>2
<1>14. LocalsAreTraced'
    <2> SUFFICES ASSUME ctl' \in Looping
                 PROVE  used' = Locals(traced')
        BY DEF LocalsAreTraced, Locals
    <2>1. used = Locals(traced)
        BY <1>1 DEF IndInv, LocalsAreTraced, Looping
    <2>2. funcs(prog[pc]).named = Locals(funcs(prog[pc]).traced)
        BY <1>3, <1>6, InsnFacts
    <2> QED
        BY <1>6, <2>1, <2>2 DEF Locals
<1>15. Depth'
    <2>1. Cardinality(Branches) \in Nat /\ Len(stack) \in Nat
          /\ Len(stack) <= Cardinality(Branches) /\ Len(stack') \in Nat
        BY <1>1, <1>3, BranchesAreFinite DEF IndInv, Depth
    <2>2. Cardinality(Branches') = Cardinality(Branches) +
             (IF pc \in DOMAIN prog /\ prog[pc].type = "branch" THEN 1 ELSE 0)
        BY <1>1, <1>3, BranchesAppend
    <2>3. CASE ctl' \in {"fatal", "overflow"}
        BY <1>2, <2>1, <2>2, <2>3 DEF Depth
    <2>4. CASE ctl' \in {"pop", "fall"}
        <3>1. /\ pc \in DOMAIN prog /\ ctl' = IF EndsBlock(prog[pc]) THEN "pop" ELSE "fall"
              /\ Len(stack') <= Len(stack) + (IF Targets(prog[pc]) = {} THEN 0 ELSE 1)
            BY <1>2, <2>4
        <3>2. CASE prog[pc].type = "branch"
            BY <2>1, <2>2, <3>1, <3>2 DEF Depth, EndsBlock
        <3>3. CASE prog[pc].type = "jal"
            BY <2>1, <2>2, <3>1, <3>3 DEF Depth, EndsBlock
        <3>4. CASE prog[pc].type \notin {"branch", "jal"}
            <4>1. Targets(prog[pc]) = {}
                BY <3>4 DEF Targets
            <4> QED
                BY <2>1, <2>2, <3>1, <3>4, <4>1 DEF Depth
        <3> QED
            BY <3>2, <3>3, <3>4
    <2> QED
        BY <1>5, <2>3, <2>4
<1> QED
    BY <1>7, <1>8, <1>9, <1>10, <1>11, <1>12, <1>13, <1>14, <1>15 DEF IndInv

\* The goto to the next address, and that address on the worklist.
LEMMA FallKeeps == IndInv /\ fall => IndInv'
<1> SUFFICES ASSUME IndInv, fall
             PROVE  IndInv'
    OBVIOUS
<1>1. /\ prog' = prog /\ entry' = entry /\ set' = set /\ labels' = labels
      /\ used' = used /\ traced' = traced /\ ctl = "fall"
      /\ pc \in DOMAIN prog /\ pc \in Elems(labels) /\ ~EndsBlock(prog[pc])
      /\ pc' \in Nat /\ pc' = NextPc(pc, prog[pc])
      /\ gotos' = gotos \cup {pc'}
      /\ stack' \in Seq(Nat) /\ Len(stack') <= STACK_CAP
    BY FallEffect
<1>2. \/ ctl' = "overflow" /\ stack' = stack /\ Len(stack) >= STACK_CAP
      \/ /\ ctl' = "pop" /\ Elems(stack') = Elems(stack) \cup {pc'}
         /\ Len(stack') <= Len(stack) + 1
    BY FallEffect
<1>3. Elems(labels)' = Elems(labels) /\ Pending' = {}
    BY <1>1, <1>2 DEF Elems, Pending
<1>4. ctl' \in Looping => ctl' = "pop" /\ Elems(stack') = Elems(stack) \cup {pc'}
    BY <1>2 DEF Looping
<1>5. pc' \in Succ(pc) /\ Succ(pc) = Targets(prog[pc]) \cup {pc'}
    BY <1>1 DEF Succ, Successors
<1>6. TypeOK'
    BY <1>1, <1>2 DEF IndInv, TypeOK, Ended
<1>7. SetIsFindable' /\ Members' = Members
    BY <1>1, SetUnchanged DEF IndInv
<1>8. LabelsAreUnique'
    <2>1. /\ \A i, j \in 1 .. Len(labels) : labels[i] = labels[j] => i = j
          /\ Members = Elems(labels)
        BY <1>1 DEF IndInv, LabelsAreUnique, Members
    <2>2. \A i, j \in 1 .. Len(labels') : labels'[i] = labels'[j] => i = j
        BY <1>1, <2>1
    <2>3. ctl' # "emit" /\ Members' = Elems(labels)'
        BY <1>2, <1>3, <1>7, <2>1
    <2> QED
        BY <2>2, <2>3 DEF LabelsAreUnique, Members
<1>9. Control'
    BY <1>1, <1>2, <1>3 DEF IndInv, Control, Looping
<1>10. GotosAreEmitted'
    <2> SUFFICES ASSUME ctl' = "pop", NEW a \in Elems(labels)
                 PROVE  Targets(prog[a]) \subseteq gotos' /\ Succ(a) \subseteq gotos'
        BY <1>1, <1>3, <1>4 DEF GotosAreEmitted, Succ
    <2>1. /\ Targets(prog[a]) \subseteq gotos
          /\ a # pc => Succ(a) \subseteq gotos
        BY <1>1 DEF IndInv, GotosAreEmitted, Looping
    <2> QED
        BY <1>1, <1>5, <2>1
<1>11. NothingIsLost'
    BY <1>1, <1>3, <1>4 DEF IndInv, NothingIsLost, Looping, Pending
<1>12. NothingIsExtra'
    <2> SUFFICES ASSUME NEW S \in SUBSET Nat, entry \in S, ctl' \in Looping,
                        \A b \in S \cap Elems(labels) : Succ(b) \subseteq S
                 PROVE  Elems(labels) \cup Elems(stack') \cup gotos' \subseteq S
        BY <1>1, <1>3 DEF NothingIsExtra, Succ
    <2>1. Elems(labels) \cup Elems(stack) \cup gotos \subseteq S
        BY <1>1 DEF IndInv, NothingIsExtra, Looping
    <2>2. pc' \in S
        BY <1>1, <1>5, <2>1
    <2> QED
        BY <1>1, <1>4, <2>1, <2>2
<1>13. LocalsAreTraced'
    BY <1>1, <1>3 DEF IndInv, LocalsAreTraced, Looping
<1>14. Depth'
    <2>1. Cardinality(Branches) \in Nat /\ Len(stack) \in Nat
          /\ Len(stack) <= Cardinality(Branches)
        BY <1>1, BranchesAreFinite DEF IndInv, TypeOK, Depth
    <2>2. Branches' = Branches
        BY <1>1 DEF Branches
    <2> QED
        BY <1>1, <1>2, <2>1, <2>2 DEF Depth
<1> QED
    BY <1>6, <1>7, <1>8, <1>9, <1>10, <1>11, <1>12, <1>13, <1>14 DEF IndInv

\* The loop's end changes nothing but the control; the next call's entry
\* counts only once start has cleared everything.
LEMMA FinishKeeps == IndInv /\ finish => IndInv'
<1> SUFFICES ASSUME IndInv, finish
             PROVE  IndInv'
    OBVIOUS
<1>1. /\ ctl = "pop" /\ ctl' = "done" /\ stack = <<>> /\ Len(stack) = 0 /\ prog' = prog
      /\ entry' = entry /\ stack' = stack /\ set' = set /\ pc' = pc /\ labels' = labels
      /\ gotos' = gotos /\ used' = used /\ traced' = traced
    BY DEF finish
<1>2. TypeOK' /\ Control' /\ SetIsFindable'
    <2>1. TypeOK'
        BY <1>1 DEF IndInv, TypeOK, Ended
    <2>2. Control' /\ SetIsFindable'
        BY <1>1, SetUnchanged DEF IndInv, Control, Elems, Looping
    <2> QED
        BY <2>1, <2>2
<1>3. LabelsAreUnique'
    <2>1. /\ \A i, j \in 1 .. Len(labels) : labels[i] = labels[j] => i = j
          /\ Members = Elems(labels) \cup {}
        BY <1>1 DEF IndInv, LabelsAreUnique, Members
    <2>2. Members' = Members /\ Elems(labels)' = Elems(labels)
        BY <1>1, SetUnchanged DEF Elems
    <2> QED
        BY <1>1, <2>1, <2>2 DEF LabelsAreUnique, Members
<1>4. GotosAreEmitted' /\ NothingIsLost' /\ LocalsAreTraced'
    BY <1>1 DEF IndInv, GotosAreEmitted, NothingIsLost, LocalsAreTraced,
        Looping, Pending, Elems, Succ
<1>5. NothingIsExtra'
    BY <1>1 DEF IndInv, NothingIsExtra, Looping, Pending, Elems, Succ
<1>6. Depth'
    <2>1. Branches' = Branches /\ Cardinality(Branches) \in Nat
        BY <1>1, BranchesAreFinite DEF IndInv, TypeOK, Branches
    <2> QED
        BY <1>1, <2>1 DEF Depth
<1> QED
    BY <1>2, <1>3, <1>4, <1>5, <1>6 DEF IndInv

\* The next translation finds the static state of this one.
LEMMA AgainKeeps ==
    ASSUME IndInv, NEW e \in DOMAIN prog, again(e)
    PROVE  IndInv'
<1>1. /\ ctl' = "start" /\ entry' = e /\ prog' = prog /\ stack' = stack /\ set' = set
      /\ pc' = pc /\ labels' = labels /\ gotos' = gotos /\ used' = used /\ traced' = traced
    BY DEF again
<1>2. TypeOK' /\ SetIsFindable'
    BY <1>1, SetUnchanged DEF IndInv, TypeOK
<1> QED
    BY <1>1, <1>2 DEF IndInv, LabelsAreUnique, Control, Looping, GotosAreEmitted,
        NothingIsLost, NothingIsExtra, LocalsAreTraced, Depth

\* A step of the rest of the emulator.
LEMMA StutterKeeps == IndInv /\ UNCHANGED vars => IndInv'
<1> SUFFICES ASSUME IndInv, UNCHANGED vars
             PROVE  IndInv'
    OBVIOUS
<1>1. /\ ctl' = ctl /\ entry' = entry /\ prog' = prog /\ stack' = stack /\ set' = set
      /\ pc' = pc /\ labels' = labels /\ gotos' = gotos /\ used' = used /\ traced' = traced
    BY DEF vars
<1>2. TypeOK' /\ SetIsFindable' /\ Control'
    BY <1>1, SetUnchanged DEF IndInv, TypeOK, Control, Elems
<1>3. LabelsAreUnique'
    <2>1. Elems(labels)' = Elems(labels) /\ Members' = Members
        BY <1>1, SetUnchanged DEF Elems
    <2> QED
        BY <1>1, <2>1 DEF IndInv, LabelsAreUnique, Members
<1>4. GotosAreEmitted' /\ NothingIsLost' /\ LocalsAreTraced' /\ Depth'
    BY <1>1 DEF IndInv, GotosAreEmitted, NothingIsLost, LocalsAreTraced, Depth, Branches,
        Pending, Elems, Succ
<1>5. NothingIsExtra'
    BY <1>1 DEF IndInv, NothingIsExtra, Pending, Elems, Succ
<1> QED
    BY <1>2, <1>3, <1>4, <1>5 DEF IndInv

\* The inductive invariant holds always.
LEMMA InductiveInvariant == Spec => []IndInv
<1>1. IndInv /\ [Next]_vars => IndInv'
    BY StartKeeps, PopKeeps, EmitKeeps, FallKeeps, FinishKeeps, AgainKeeps, StutterKeeps
       DEF Next
<1> QED
    BY IndInvInit, <1>1, PTL DEF Spec

-----------------------------------------------------------------------------
\* Types of everything machine_genblock keeps in static storage.
THEOREM TypesHold == Spec => []TypeOK
<1>1. IndInv => TypeOK
    BY DEF IndInv
<1> QED
    BY InductiveInvariant, <1>1, PTL

\* set_add (src/src/set.c) never reports an address as new twice, whatever the
\* collisions: no label is defined twice.
THEOREM NoDuplicateLabel == Spec => []LabelsAreUnique
<1>1. IndInv => LabelsAreUnique
    BY DEF IndInv
<1> QED
    BY InductiveInvariant, <1>1, PTL

\* Every goto of a finished function, and its entry, has its label: the
\* duplicate check of stack_push and the skip of a translated address lose
\* nothing.
THEOREM EveryGotoHasItsLabel == Spec => []NoDanglingGoto
<1>1. IndInv => NoDanglingGoto
    BY ElemsNone DEF IndInv, NoDanglingGoto, NothingIsLost, Control, Looping, Pending
<1> QED
    BY InductiveInvariant, <1>1, PTL

\* The prologue and epilogue of a finished function (src/src/codegen.c:22-59)
\* cover exactly the registers that its text names: every func_* tells the
\* tracer what it uses, and nothing is left over from the function before.
THEOREM RegistersAreLocals == Spec => []EveryRegisterIsLocal
<1>1. IndInv => EveryRegisterIsLocal
    BY DEF IndInv, EveryRegisterIsLocal, LocalsAreTraced, Looping
<1> QED
    BY InductiveInvariant, <1>1, PTL

\* A finished function translates the code reachable from its entry by direct
\* jumps and fall-through, all of it and no more.
THEOREM TranslatesExactlyTheRegion == Spec => []CoversRegion
<1>1. IndInv => CoversRegion
    <2> SUFFICES ASSUME IndInv, ctl = "done"
                 PROVE  /\ \A a \in Elems(labels) : Succ(a) \subseteq Elems(labels)
                        /\ Elems(labels) = Region
        BY DEF CoversRegion
    <2>1. gotos \subseteq Elems(labels)
        BY ElemsNone DEF IndInv, NothingIsLost, Control, Looping, Pending
    <2>2. \A a \in Elems(labels) : Succ(a) \subseteq Elems(labels)
        BY <2>1 DEF IndInv, GotosAreEmitted, Looping
    <2>3. Elems(labels) \subseteq Nat
        BY DEF IndInv, TypeOK, Elems
    <2>4. ASSUME NEW a \in Elems(labels), NEW S \in SUBSET Elems(labels),
                 entry \in S, \A b \in S : Succ(b) \subseteq S
          PROVE  a \in S
        <3>1. S \in SUBSET Nat
            BY <2>3
        <3> QED
            BY <2>4, <3>1 DEF IndInv, NothingIsExtra, Looping
    <2> QED
        BY <2>2, <2>4 DEF Region
<1> QED
    BY InductiveInvariant, <1>1, PTL

\* stack_push's assertion (src/src/stack.c) fails only for a region with at
\* least STACK_CAP conditional branches: a deep chain of calls or jumps alone
\* never exhausts the stack.
THEOREM StackBound == Spec => []StackIsShallow
<1>1. IndInv => StackIsShallow
    <2> SUFFICES ASSUME IndInv, ctl # "start"
                 PROVE  /\ Len(stack) <= Cardinality(Branches) + 1
                        /\ ctl = "overflow" => Cardinality(Branches) >= STACK_CAP
        BY DEF StackIsShallow
    <2>1. Cardinality(Branches) \in Nat /\ Len(stack) \in Nat
        BY BranchesAreFinite DEF IndInv, TypeOK
    <2>2. /\ Len(stack) <= Cardinality(Branches) + (IF ctl = "pop" THEN 1 ELSE 0)
          /\ ctl = "overflow" => Len(stack) >= STACK_CAP
        BY DEF IndInv, Depth
    <2> QED
        BY <2>1, <2>2
<1> QED
    BY InductiveInvariant, <1>1, PTL
=============================================================================
