------------------------------ MODULE Genblock ------------------------------
(***************************************************************************)
(* machine_genblock (src/src/codegen.c:1074-1127): the worklist that turns *)
(* a hot pc into one C function.  The stack (src/src/stack.c) holds the    *)
(* addresses still to translate, the hash set (src/src/set.c) those        *)
(* already translated, the tracer the registers that become locals.  Every *)
(* translated address becomes a label, every direct successor a goto, and  *)
(* clang rejects the function if a goto has no label, a label appears      *)
(* twice or a register was not traced.  Stack, set, tracer and text are    *)
(* static: they outlive a call, and the next one has to clear them.        *)
(***************************************************************************)
EXTENDS Insns, Tracer, Sequences, FiniteSets

CONSTANTS
    Programs,          \* guest programs: address -> decoded instruction
    STACK_CAP,         \* elements of stack_t
    SET_SIZE,          \* slots of set_t
    MAX_SEARCH_COUNT   \* probes set_add may make

ASSUME CapsAssumption ==
    /\ STACK_CAP \in Nat \ {0}
    /\ SET_SIZE \in Nat \ {0}
    /\ MAX_SEARCH_COUNT \in Nat

\* An instruction as the code generator sees it.
GenInsn == [type : InsnTypes, form : Forms, rvc : BOOLEAN, target : Nat,
            rd : Nat, rs1 : Nat, rs2 : Nat, rs3 : Nat]

\* Address 0 is never mapped.
ASSUME ProgramsAssumption ==
    \A g \in Programs :
        /\ DOMAIN g \subseteq Nat \ {0}
        /\ \A a \in DOMAIN g : g[a] \in GenInsn /\ g[a].type = ClassOf(g[a].form)

VARIABLES
    prog,    \* the guest program
    entry,   \* m->state.pc
    stack,   \* stack.elems[0 .. top-1]
    set,     \* set.table
    pc,      \* the address being translated
    labels,  \* the labels of body, in the order they are emitted
    gotos,   \* the targets of the gotos of body
    used,    \* the locals that body names
    traced,  \* tracer.gp_reg and tracer.fp_reg
    ctl      \* where the loop is

vars == <<prog, entry, stack, set, pc, labels, gotos, used, traced, ctl>>

Elems(s) == { s[i] : i \in 1 .. Len(s) }

SetIndex == 0 .. SET_SIZE - 1

\* The slot reached after k turns of "index++; index = hash(index)".
SetSlot(elem, k) == ((elem % SET_SIZE) + k) % SET_SIZE

\* Mutant: the probe does not notice the element itself.
SetProbe_no_match(elem) ==
    { k \in SetIndex :
        /\ k <= MAX_SEARCH_COUNT
        /\ set[SetSlot(elem, k)] = 0
        /\ \A j \in 0 .. k-1 : set[SetSlot(elem, j)] # 0 }

\* Where set_add's probe for elem ends, if it ends within its bound.
SetProbe(elem) ==
    { k \in SetIndex :
        /\ k <= MAX_SEARCH_COUNT
        /\ set[SetSlot(elem, k)] \in {0, elem}
        /\ \A j \in 0 .. k-1 : set[SetSlot(elem, j)] \notin {0, elem} }

Init ==
    /\ prog \in Programs
    /\ entry \in DOMAIN prog
    /\ stack = <<>>
    /\ set = [i \in SetIndex |-> 0]
    /\ pc = entry
    /\ labels = <<>>
    /\ gotos = {}
    /\ used = {} /\ traced = {}
    /\ ctl = "start"

\* Mutant: no capacity check.
stack_push_unchecked(elem, next) ==
    /\ stack' = IF elem \in Elems(stack) THEN stack ELSE Append(stack, elem)
    /\ ctl' = next

\* void stack_push(stack, elem): the capacity is asserted before the scan for
\* duplicates.
stack_push(elem, next) ==
    IF Len(stack) >= STACK_CAP
    THEN ctl' = "overflow" /\ UNCHANGED stack
    ELSE /\ stack' = IF elem \in Elems(stack) THEN stack ELSE Append(stack, elem)
         /\ ctl' = next

\* Mutant: no set_reset.
start_stale_set ==
    /\ ctl = "start"
    /\ stack' = <<entry>> /\ labels' = <<>> /\ gotos' = {} /\ used' = {} /\ traced' = {}
    /\ ctl' = "pop"
    /\ UNCHANGED <<prog, entry, pc, set>>

\* machine_genblock is called: everything static is cleared, and the entry is
\* the first address to translate.
start ==
    /\ ctl = "start"
    /\ stack' = <<entry>>
    /\ set' = [i \in SetIndex |-> 0]
    /\ labels' = <<>>
    /\ gotos' = {}
    /\ used' = {} /\ traced' = {}
    /\ ctl' = "pop"
    /\ UNCHANGED <<prog, entry, pc>>

\* Later another pc of the same program is hot.
again(e) ==
    /\ ctl = "done"
    /\ entry' = e
    /\ ctl' = "start"
    /\ UNCHANGED <<prog, stack, set, pc, labels, gotos, used, traced>>

\* The loop ends, and the source is put together, when the stack is empty.
finish ==
    /\ ctl = "pop" /\ stack = <<>>
    /\ ctl' = "done"
    /\ UNCHANGED <<prog, entry, stack, set, pc, labels, gotos, used, traced>>

\* Mutant: the element is read but not removed.
pop_keeps ==
    /\ ctl = "pop" /\ stack # <<>>
    /\ LET elem == stack[Len(stack)] IN
       /\ pc' = elem
       /\ IF elem = 0 \/ SetProbe(elem) = {}
          THEN ctl' = "abort" /\ UNCHANGED set
          ELSE \E k \in SetProbe(elem) :
                 /\ set' = [set EXCEPT ![SetSlot(elem, k)] = elem]
                 /\ ctl' = IF set[SetSlot(elem, k)] = elem THEN "pop" ELSE "emit"
    /\ UNCHANGED <<prog, entry, stack, labels, gotos, used, traced>>

\* stack_pop, then set_add: an address seen before is skipped; set_add asserts
\* elem != 0 and the length of its probe.
pop ==
    /\ ctl = "pop" /\ stack # <<>>
    /\ LET elem == stack[Len(stack)] IN
       /\ pc' = elem
       /\ stack' = SubSeq(stack, 1, Len(stack) - 1)
       /\ IF elem = 0 \/ SetProbe(elem) = {}
          THEN ctl' = "abort" /\ UNCHANGED set
          ELSE \E k \in SetProbe(elem) :
                 /\ set' = [set EXCEPT ![SetSlot(elem, k)] = elem]
                 /\ ctl' = IF set[SetSlot(elem, k)] = elem THEN "pop" ELSE "emit"
    /\ UNCHANGED <<prog, entry, labels, gotos, used, traced>>

\* Fetch, decode and funcs[insn.type]: the label and, for a direct branch or
\* jal, the goto and the push of its target.  Bytes that are no instruction,
\* and a csr that is not one of the three, end the emulator (fatal,
\* unreachable).
emit ==
    /\ ctl = "emit"
    /\ labels' = Append(labels, pc)
    /\ IF pc \notin DOMAIN prog
       THEN ctl' = "fatal" /\ UNCHANGED <<stack, gotos, used, traced>>
       ELSE LET insn == prog[pc]
                next == IF EndsBlock(insn) THEN "pop" ELSE "fall"
            IN  /\ gotos' = gotos \cup Targets(insn)
                /\ used' = used \cup funcs(insn).named
                /\ traced' = traced \cup funcs(insn).traced
                /\ IF Targets(insn) = {}
                   THEN ctl' = next /\ UNCHANGED stack
                   ELSE stack_push(insn.target, next)
    /\ UNCHANGED <<prog, entry, set, pc>>

\* Mutant: every instruction is taken to be 4 bytes long.
fall_ignores_rvc ==
    /\ ctl = "fall"
    /\ pc' = pc + 4
    /\ gotos' = gotos \cup {pc + 4}
    /\ stack_push(pc + 4, "pop")
    /\ UNCHANGED <<prog, entry, set, labels, used, traced>>

\* if (insn.cont) continue;  otherwise goto and push of the next address.
fall ==
    /\ ctl = "fall"
    /\ pc' = NextPc(pc, prog[pc])
    /\ gotos' = gotos \cup {NextPc(pc, prog[pc])}
    /\ stack_push(NextPc(pc, prog[pc]), "pop")
    /\ UNCHANGED <<prog, entry, set, labels, used, traced>>

Next ==
    \/ start \/ finish \/ pop \/ emit \/ fall
    \/ \E e \in DOMAIN prog : again(e)

\* The loop is sequential code: a call keeps running until it returns.
Spec == Init /\ [][Next]_vars /\ WF_vars(start \/ finish \/ pop \/ emit \/ fall)
-----------------------------------------------------------------------------
Ended == {"done", "overflow", "abort", "fatal"}

TypeOK ==
    /\ prog \in Programs
    /\ entry \in DOMAIN prog
    /\ stack \in Seq(Nat) /\ Len(stack) <= STACK_CAP
    /\ set \in [SetIndex -> Nat]
    /\ pc \in Nat
    /\ labels \in Seq(Nat)
    /\ gotos \in SUBSET Nat
    /\ used \in SUBSET ({"x", "f"} \X Nat)
    /\ traced \in SUBSET ({"x", "f"} \X Nat)
    /\ ctl \in {"start", "pop", "emit", "fall"} \cup Ended

\* Every address gets at most one label, and what the set holds is exactly
\* what has been or is about to be labelled.
LabelsAreUnique ==
    ctl # "start" =>
    /\ \A i, j \in 1 .. Len(labels) : labels[i] = labels[j] => i = j
    /\ { a \in { set[i] : i \in SetIndex } : a # 0 } =
         Elems(labels) \cup (IF ctl = "emit" THEN {pc} ELSE {})

\* The finished function jumps only to labels it has.
NoDanglingGoto ==
    ctl = "done" => entry \in Elems(labels) /\ gotos \subseteq Elems(labels)

\* Every register that the text of the finished function names is one of its
\* locals, loaded from the state and stored back to it: no func_* that took
\* part forgot one, or took an integer register for a float one.  And no local
\* is left over from an earlier function.
EveryRegisterIsLocal ==
    ctl = "done" => used = Locals(traced)

Succ(a) == Successors(a, prog[a])

\* The smallest set of addresses that holds the entry and is closed under
\* direct succession.
Region ==
    { a \in Elems(labels) :
        \A S \in SUBSET Elems(labels) :
            entry \in S /\ (\A b \in S : Succ(b) \subseteq S) => a \in S }

\* The finished function covers exactly the code reachable from the entry
\* without leaving the function: nothing is missing, nothing extra is decoded.
CoversRegion ==
    ctl = "done" =>
        /\ \A a \in Elems(labels) : Succ(a) \subseteq Elems(labels)
        /\ Elems(labels) = Region

\* The worklist is no deeper than one address plus one per conditional branch
\* translated so far: STACK_CAP is exceeded only by a region with at least
\* STACK_CAP branches.
Branches == { i \in 1 .. Len(labels) :
                labels[i] \in DOMAIN prog /\ prog[labels[i]].type = "branch" }

StackIsShallow ==
    ctl # "start" =>
    /\ Len(stack) <= Cardinality(Branches) + 1
    /\ ctl = "overflow" => Cardinality(Branches) >= STACK_CAP

\* A translation ends, loops in the guest code or not.
Terminates == ctl = "start" ~> ctl \in Ended
=============================================================================
