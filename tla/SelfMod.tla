------------------------------ MODULE SelfMod ------------------------------
(***************************************************************************)
(* A guest that writes code: it stores instructions, executes fence.i and  *)
(* jumps to them.  The interpreter fetches every instruction from memory   *)
(* (src/src/interpret.c:819-849); a compiled block is what                 *)
(* machine_genblock decoded when the block became hot                      *)
(* (src/src/codegen.c:1085-1112) and is kept for ever; a store is a store  *)
(* (src/src/interpret.c:118-139) and fence.i does nothing                  *)
(* (src/src/interpret.c:687, src/src/codegen.c:919).  What an instruction  *)
(* at an address is, is abstracted to how often the address was written;   *)
(* what it does is the guest's choice.  Code runs straight from an address *)
(* to Last, where a jump ends the block.                                   *)
(***************************************************************************)
EXTENDS Naturals

CONSTANTS
    Last,             \* addresses of code: 1 .. Last
    CACHE_HOT_COUNT,  \* heat at which a pc is compiled
    MaxWrites         \* bound: stores to one address

ASSUME SelfModAssumption ==
    Last \in Nat \ {0} /\ CACHE_HOT_COUNT \in Nat \ {0} /\ MaxWrites \in Nat

PCs == 1 .. Last
NULL == <<>>  \* no compiled block

VARIABLES
    word,      \* address -> number of times it was written
    heat,      \* pc -> count of cache_hot
    compiled,  \* pc -> compiled block, the decoded word of each of its addresses, or NULL
    pc,
    mode,      \* what executes: the dispatcher ("step"), "interp" or "jit"
    code,      \* the pc whose block the function pointer is, if mode = "jit"
    late,      \* history: <<p, a>> if address a was written when p was compiled already
    fetched    \* history: the last instruction: its address, the block it was in (0 if
               \* interpreted), the word executed and the word in memory

selfmodVars == <<word, heat, compiled, pc, mode, code, late, fetched>>

SelfModInit ==
    /\ word = [a \in PCs |-> 0]
    /\ heat = word
    /\ compiled = [p \in PCs |-> NULL]
    /\ pc \in PCs /\ code = pc /\ mode = "step"
    /\ late = {}
    /\ fetched = [pc |-> pc, by |-> 0, got |-> 0, word |-> 0]
-----------------------------------------------------------------------------
\* Mutant: what an overlapping block has translated already is taken over.
Decoded_shared(p) ==
    [a \in p .. Last |->
        LET Has == { q \in PCs : compiled[q] # NULL /\ a \in DOMAIN compiled[q] }
        IN  IF Has = {} THEN word[a] ELSE compiled[CHOOSE q \in Has : TRUE][a]]

\* What machine_genblock reads: every address of the block, as it is now.
Decoded(p) == [a \in p .. Last |-> word[a]]

\* machine_step: a compiled block, a fresh one, or the interpreter.
machine_step ==
    /\ mode = "step"
    /\ \/ /\ compiled[pc] # NULL
          /\ mode' = "jit" /\ code' = pc
          /\ UNCHANGED <<heat, compiled>>
       \/ /\ compiled[pc] = NULL
          /\ \E h \in heat[pc] + 1 .. CACHE_HOT_COUNT :  \* as CodeMap's Warm
               /\ heat' = [heat EXCEPT ![pc] = h]
               /\ IF h < CACHE_HOT_COUNT
                  THEN mode' = "interp" /\ UNCHANGED <<compiled, code>>
                  ELSE /\ compiled' = [compiled EXCEPT ![pc] = Decoded(pc)]
                       /\ mode' = "jit" /\ code' = pc
    /\ UNCHANGED <<word, pc, late, fetched>>

\* The word that executes at pc: the interpreter reads memory.
Fetch ==
    /\ mode # "step"
    /\ fetched' = [pc |-> pc, by |-> IF mode = "jit" THEN code ELSE 0,
                   got |-> IF mode = "jit" THEN compiled[code][pc] ELSE word[pc],
                   word |-> word[pc]]

\* An instruction that goes on to the next one; fence.i is one of them, as
\* func_empty does nothing about compiled blocks.
insn_plain ==
    /\ Fetch /\ pc < Last /\ pc' = pc + 1
    /\ UNCHANGED <<word, heat, compiled, mode, code, late>>

insn_store(a) ==
    /\ Fetch /\ pc < Last /\ pc' = pc + 1
    /\ word[a] < MaxWrites
    /\ word' = [word EXCEPT ![a] = @ + 1]
    /\ late' = late \cup { <<p, a>> : p \in { p \in PCs : compiled[p] # NULL /\ p <= a } }
    /\ UNCHANGED <<heat, compiled, mode, code>>

\* An indirect jump: back to the dispatcher.
insn_jalr(p) ==
    /\ Fetch /\ pc' = p /\ mode' = "step"
    /\ UNCHANGED <<word, heat, compiled, code, late>>

SelfModNext ==
    \/ machine_step
    \/ insn_plain
    \/ \E a \in PCs : insn_store(a) \/ insn_jalr(a)

SelfModSpec == SelfModInit /\ [][SelfModNext]_selfmodVars
-----------------------------------------------------------------------------
\* An instruction is executed in an old form only in a block that was compiled
\* before the write, whatever blocks overlap there: the interpreter, and every
\* block compiled later, executes what the guest wrote, with or without a
\* fence.i.
FreshUnlessLate == fetched.got # fetched.word => <<fetched.by, fetched.pc>> \in late
=============================================================================
