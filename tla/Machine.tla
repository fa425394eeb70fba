------------------------------ MODULE Machine ------------------------------
(***************************************************************************)
(* The emulator's dispatch loop: main (src/src/riscvemu.c:14-47),          *)
(* machine_step (src/src/machine.c:8-82), the interpreter's block loop     *)
(* (src/src/interpret.c:819-849) and a compiled block (the C function that *)
(* src/src/codegen.c emits).  The code cache is used through its promise,  *)
(* CodeMap, which Cache.tla implements; a compiled block is the region     *)
(* that Genblock.tla computes.                                             *)
(***************************************************************************)
EXTENDS Insns, FiniteSets

CONSTANTS Word, Regs, a0, Programs, Results,   \* as in Isa.tla
          PCs, CACHE_HOT_COUNT, CACHE_SIZE,    \* as in CodeMap.tla
          CACHE_ENTRY_SIZE,   \* slots of the cache's table, as in Cache.tla
          NULL,
          exec_block_interp,  \* the address of the interpreter
          Entries             \* entry points of the ELF file (e_entry)

ASSUME MachineAssumption ==
    /\ Word \in Nat \ {0}
    /\ Regs \subseteq Nat /\ 0 \in Regs /\ a0 \in Regs \ {0}
    /\ Results \subseteq 0 .. Word - 1
    /\ PCs \subseteq Nat \ {0}
    /\ CACHE_HOT_COUNT \in Nat \ {0} /\ CACHE_SIZE \in Nat /\ CACHE_ENTRY_SIZE \in Nat
    /\ NULL \notin Nat /\ exec_block_interp \notin Nat \cup {NULL}

\* Instructions of the guest only name existing registers and addresses.
ASSUME MachineProgramsAssumption ==
    \A g \in Programs :
        /\ DOMAIN g \subseteq PCs /\ Entries \subseteq DOMAIN g \cup {0}
        /\ \A a \in DOMAIN g : g[a] \in Insn /\ {g[a].rd, g[a].rs1, g[a].rs2} \subseteq Regs

\* PCs holds every address an instruction can lead to, 0 aside; only the 32-bit
\* encodings have an ecall (decode.c:1316).
ASSUME MachineJumpsAssumption ==
    /\ 0 .. Word - 1 \subseteq PCs \cup {0}
    /\ \A g \in Programs : \A a \in DOMAIN g :
        /\ Targets(g[a]) \subseteq PCs \cup {0} /\ NextPc(a, g[a]) \in PCs
        /\ g[a].type = "ecall" => ~g[a].rvc

VARIABLES
    prog,         \* guest memory, as decoded instructions
    gp_regs,      \* state.gp_regs
    pc,           \* state.pc
    reenter_pc,   \* state.reenter_pc
    exit_reason,  \* state.exit_reason
    ctl,          \* where main / machine_step / the block is
    code,         \* the function pointer: the interpreter, or the pc whose block it is
    x,            \* the locals of a running compiled block: traced register -> value
    label,        \* the label a running compiled block is at
    tick,         \* history: parity of the guest instructions executed
    heat, entry, stage, cur, ret   \* the code cache (CodeMap.tla)

state == <<gp_regs, pc, reenter_pc, exit_reason>>
cacheVars == <<heat, entry, stage, cur, ret>>
jitVars == <<x, label>>
vars == <<prog, gp_regs, pc, reenter_pc, exit_reason, ctl, code, x, label, tick,
          heat, entry, stage, cur, ret>>

Cache == INSTANCE CodeMap

\* Mutant: branch targets are not translated.
Region_without_targets(p) ==
    { a \in DOMAIN prog :
        \A S \in SUBSET DOMAIN prog :
            p \in S /\ (\A b \in S : {NextPc(b, prog[b])} \cap DOMAIN prog \subseteq S)
                => a \in S }

\* The addresses a compiled block for p covers, as far as they are code.
Region(p) ==
    { a \in DOMAIN prog :
        \A S \in SUBSET DOMAIN prog :
            p \in S /\ (\A b \in S : Successors(b, prog[b]) \cap DOMAIN prog \subseteq S)
                => a \in S }

\* machine_genblock decodes every address of the region, run or not: it ends
\* the emulator unless all of them hold instructions.
Translatable(p) ==
    p \in DOMAIN prog /\ \A a \in Region(p) : Successors(a, prog[a]) \subseteq DOMAIN prog

\* The registers the prologue loads and the epilogue stores.
Traced(p) == UNION { Traces(prog[a]) : a \in Region(p) }

Init ==
    /\ prog \in Programs
    /\ \E argc \in Results : gp_regs = [r \in Regs |-> IF r = a0 THEN argc ELSE 0]
    /\ pc \in Entries
    /\ reenter_pc = 0
    /\ exit_reason = "none"
    /\ ctl = "step"
    /\ code = NULL
    /\ x = <<>> /\ label = 0
    /\ tick = 0
    /\ Cache!MapInit /\ cur = CHOOSE p \in PCs : TRUE
-----------------------------------------------------------------------------
\* machine_step, top of the loop (machine.c:12-19): a pc of 0 halts, otherwise
\* the cache is asked.
step_halt ==
    /\ ctl = "step" /\ pc = 0
    /\ ctl' = "exit"
    /\ UNCHANGED <<prog, state, code, jitVars, tick, cacheVars>>

\* Every pc that was warmed has a slot of its own.  cache_lookup has no bound
\* on its probe (cache.c:28): in a table without a free slot it never returns
\* for a pc that has none.
Spins(p) == heat[p] = 0 /\ Cardinality({ q \in PCs : heat[q] > 0 }) >= CACHE_ENTRY_SIZE

\* code = cache_lookup(p); ctl goes to miss if there is none.
cache_lookup(p, miss) ==
    IF Spins(p)
    THEN Cache!Fail /\ cur' = p /\ ctl' = "spin" /\ UNCHANGED code
    ELSE /\ Cache!Find(p)
         /\ code' = IF ret' = NULL THEN code ELSE p
         /\ ctl' = IF ret' = NULL THEN miss ELSE "call"

step_lookup ==
    /\ ctl = "step" /\ pc # 0
    /\ cache_lookup(pc, "miss")
    /\ UNCHANGED <<prog, state, jitVars, tick>>

\* A miss (machine.c:22, 33-37): a pc that is not yet hot is interpreted.
step_hot ==
    /\ ctl = "miss" /\ cur = pc
    /\ Cache!Warm
    /\ code' = exec_block_interp
    /\ ctl' = IF stage' = "compile" THEN "genblock" ELSE "call"
    /\ UNCHANGED <<prog, state, jitVars, tick>>

\* A hot pc (machine.c:26): machine_genblock, which ends the emulator if it
\* meets bytes that are no instruction.
step_genblock ==
    /\ ctl = "genblock"
    /\ ctl' = IF Translatable(pc) THEN "compile" ELSE "fatal"
    /\ UNCHANGED <<prog, state, code, jitVars, tick, cacheVars>>

\* machine_compile (machine.c:29): clang returns, and the block is installed.
step_compile ==
    /\ ctl = "compile"
    /\ Cache!Install /\ code' = pc /\ ctl' = "call"
    /\ UNCHANGED <<prog, state, jitVars, tick>>

\* Or it waits for ever (compile.c:20-23): clang has failed, or its object is
\* larger than the pipe; Compile.tla shows that there is no other reason.
compile_waits ==
    /\ ctl = "compile"
    /\ ctl' = "wait"
    /\ UNCHANGED <<prog, state, code, jitVars, tick, cacheVars>>

\* An assertion of cache_hot (probe bound), or of machine_compile and cache_add
\* (no object, probe bound, buffer full), ends the emulator.
cache_dies ==
    /\ ctl \in {"miss", "compile"}
    /\ Cache!Fail /\ cur' = cur
    /\ ctl' = "abort"
    /\ UNCHANGED <<prog, state, code, jitVars, tick>>

\* The call of the block (machine.c:41-42), with the prologue of a compiled
\* block: traced registers become locals.
call ==
    /\ ctl = "call"
    /\ exit_reason' = "none"
    /\ IF code = exec_block_interp
       THEN ctl' = "interp" /\ UNCHANGED jitVars
       ELSE /\ ctl' = "jit"
            /\ x' = [r \in Traced(code) |-> gp_regs[r]]
            /\ label' = code
    /\ UNCHANGED <<prog, gp_regs, pc, reenter_pc, code, tick, cacheVars>>
-----------------------------------------------------------------------------
\* exec_block_interp, one turn of its loop.  Its guard pc == 0
\* (interpret.c:823-827) is not an action: CodeMatchesPc shows that it
\* cannot fire.

\* Mutant: the interpreter forgets gp_regs[zero] = 0.
Written_to_zero(rd, v) == [gp_regs EXCEPT ![rd] = v % Word]

\* funcs[insn.type] writes rd unconditionally; gp_regs[zero] = 0 follows.
Written(rd, v) == [gp_regs EXCEPT ![rd] = v % Word, ![0] = 0]

\* The value of an "op" and of an instruction only the interpreter executes.
AluVal(a, imm) == (a + imm) % Word
FallbackVal(a, b) == (a * b + 1) % Word

\* "& ~(u64)1"
ClearBit0(a) == a - (a % 2)

\* Bytes that are no instruction end the emulator in insn_decode.
interp_fatal ==
    /\ ctl = "interp" /\ pc \notin DOMAIN prog
    /\ ctl' = "fatal"
    /\ UNCHANGED <<prog, state, code, jitVars, tick, cacheVars>>

\* An instruction that does not end the interpreter's block.
interp_op ==
    /\ ctl = "interp" /\ pc \in DOMAIN prog
    /\ LET insn == prog[pc] IN
       /\ \/ /\ insn.type = "op"
             /\ gp_regs' = Written(insn.rd, AluVal(gp_regs[insn.rs1], insn.imm))
          \/ /\ insn.type = "interp"
             /\ gp_regs' = Written(insn.rd, FallbackVal(gp_regs[insn.rs1], gp_regs[insn.rs2]))
          \/ /\ insn.type = "branch" /\ gp_regs[insn.rs1] # gp_regs[insn.rs2]
             /\ UNCHANGED gp_regs
       /\ pc' = NextPc(pc, insn)
    /\ tick' = 1 - tick
    /\ UNCHANGED <<prog, reenter_pc, exit_reason, ctl, code, jitVars, cacheVars>>

\* One that does: branch taken, jal, jalr, ecall (interpret.c:292-344).
interp_exit ==
    /\ ctl = "interp" /\ pc \in DOMAIN prog
    /\ LET insn == prog[pc] IN
       \/ /\ insn.type = "branch" /\ gp_regs[insn.rs1] = gp_regs[insn.rs2]
          /\ reenter_pc' = insn.target /\ pc' = insn.target
          /\ exit_reason' = "direct_branch"
          /\ UNCHANGED gp_regs
       \/ /\ insn.type = "jal"
          /\ gp_regs' = Written(insn.rd, NextPc(pc, insn))
          /\ reenter_pc' = insn.target /\ pc' = insn.target
          /\ exit_reason' = "direct_branch"
       \/ /\ insn.type = "jalr"
          /\ gp_regs' = Written(insn.rd, NextPc(pc, insn))
          /\ reenter_pc' = ClearBit0(AluVal(gp_regs[insn.rs1], insn.imm))
          /\ exit_reason' = "indirect_branch"
          /\ UNCHANGED pc
       \/ /\ insn.type = "ecall"
          /\ reenter_pc' = pc + 4
          /\ exit_reason' = "ecall"
          /\ UNCHANGED <<gp_regs, pc>>
    /\ ctl' = "ret"
    /\ tick' = 1 - tick
    /\ UNCHANGED <<prog, code, jitVars, cacheVars>>
-----------------------------------------------------------------------------
\* A compiled block, one label at a time.

\* REG_GET and REG_SET_*: x0 is the literal 0 and is never assigned.
Get(r) == IF r = 0 THEN 0 ELSE x[r]
Put(rd, v) == IF rd = 0 THEN x ELSE [x EXCEPT ![rd] = v % Word]

\* Mutant: the epilogue's loop stops one register early.
Epilogue_off_by_one(locals) ==
    gp_regs' = [r \in Regs |-> IF r \in DOMAIN locals /\ r + 1 \in Regs
                               THEN locals[r] ELSE gp_regs[r]]

\* The epilogue (codegen.c:43-59): every local goes back to the state.
Epilogue(locals) ==
    gp_regs' = [r \in Regs |-> IF r \in DOMAIN locals THEN locals[r] ELSE gp_regs[r]]

\* Instructions whose code ends in a goto to another label of the block.
jit_goto ==
    /\ ctl = "jit"
    /\ LET insn == prog[label] IN
       \/ /\ insn.type = "op"
          /\ x' = Put(insn.rd, AluVal(Get(insn.rs1), insn.imm))
          /\ label' = NextPc(label, insn)
       \/ /\ insn.type = "branch"
          /\ label' = IF Get(insn.rs1) = Get(insn.rs2)
                      THEN insn.target ELSE NextPc(label, insn)
          /\ UNCHANGED x
       \/ /\ insn.type = "jal"
          /\ x' = Put(insn.rd, NextPc(label, insn))
          /\ label' = insn.target
    /\ tick' = 1 - tick
    /\ UNCHANGED <<prog, state, ctl, code, cacheVars>>

\* Instructions whose code sets exit_reason and reenter_pc and goes to "end".
jit_exit ==
    /\ ctl = "jit"
    /\ LET insn == prog[label] IN
       \/ /\ insn.type = "jalr"
          /\ x' = Put(insn.rd, NextPc(label, insn))
          /\ reenter_pc' = ClearBit0(AluVal(Get(insn.rs1), insn.imm))
          /\ exit_reason' = "indirect_branch"
          /\ tick' = 1 - tick
       \/ /\ insn.type = "ecall"
          /\ reenter_pc' = label + 4
          /\ exit_reason' = "ecall"
          /\ tick' = 1 - tick
          /\ UNCHANGED x
       \/ /\ insn.type = "interp"
          /\ reenter_pc' = label
          /\ exit_reason' = "interp"
          /\ UNCHANGED <<x, tick>>
    /\ Epilogue(x')
    /\ ctl' = "ret"
    /\ UNCHANGED <<prog, pc, code, label, cacheVars>>
-----------------------------------------------------------------------------
\* The block has returned (machine.c:44-78).

\* Mutant: after a hit the old block is called again.
ret_branch_stale_code ==
    /\ ctl = "ret" /\ exit_reason \in {"direct_branch", "indirect_branch"}
    /\ pc' = reenter_pc
    /\ reenter_pc # 0
    /\ Cache!Find(reenter_pc)
    /\ ctl' = IF ret' # NULL THEN "call" ELSE "step"
    /\ UNCHANGED <<prog, gp_regs, reenter_pc, exit_reason, code, jitVars, tick>>

\* A branch: the target's code is looked up, and run if there is any; if not,
\* the outer loop starts over.  cache_lookup asserts pc != 0.
ret_branch ==
    /\ ctl = "ret" /\ exit_reason \in {"direct_branch", "indirect_branch"}
    /\ pc' = reenter_pc
    /\ IF reenter_pc = 0
       THEN ctl' = "assert" /\ UNCHANGED <<code, cacheVars>>
       ELSE cache_lookup(reenter_pc, "step")
    /\ UNCHANGED <<prog, gp_regs, reenter_pc, exit_reason, jitVars, tick>>

\* Mutant: the cache is preferred here too.
ret_interp_looks_up ==
    /\ ctl = "ret" /\ exit_reason = "interp"
    /\ pc' = reenter_pc
    /\ code' = IF entry[reenter_pc] # NULL THEN reenter_pc ELSE exec_block_interp
    /\ ctl' = "call"
    /\ UNCHANGED <<prog, gp_regs, reenter_pc, exit_reason, jitVars, tick, cacheVars>>

\* An instruction the block leaves to the interpreter.
ret_interp ==
    /\ ctl = "ret" /\ exit_reason = "interp"
    /\ pc' = reenter_pc
    /\ code' = exec_block_interp
    /\ ctl' = "call"
    /\ UNCHANGED <<prog, gp_regs, reenter_pc, exit_reason, jitVars, tick, cacheVars>>

\* machine_step returns ecall to main.
ret_ecall ==
    /\ ctl = "ret" /\ exit_reason = "ecall"
    /\ pc' = reenter_pc
    /\ ctl' = "main"
    /\ UNCHANGED <<prog, gp_regs, reenter_pc, exit_reason, code, jitVars, tick, cacheVars>>

\* main (riscvemu.c:30-43): do_syscall either returns a value for a0 or ends
\* the process (sys_exit, or a call that is not implemented).
syscall ==
    /\ ctl = "main"
    /\ \/ \E v \in Results :
            gp_regs' = [gp_regs EXCEPT ![a0] = v] /\ ctl' = "step"
       \/ ctl' = "exit" /\ UNCHANGED gp_regs
    /\ UNCHANGED <<prog, pc, reenter_pc, exit_reason, code, jitVars, tick, cacheVars>>

Next ==
    \/ step_halt \/ step_lookup \/ step_hot
    \/ step_genblock \/ step_compile \/ compile_waits \/ cache_dies
    \/ call
    \/ interp_fatal \/ interp_op \/ interp_exit
    \/ jit_goto \/ jit_exit
    \/ ret_branch \/ ret_interp \/ ret_ecall
    \/ syscall

\* One thread, which keeps taking steps until it ends or gets stuck.  Where it
\* may wait for clang without end, or probe without end, it has a step to a
\* state from which no step leads, so fairness promises nothing there.
Spec == Init /\ [][Next]_vars /\ WF_vars(Next)
-----------------------------------------------------------------------------
\* The process has ended: cleanly, by fatal(), or by a failed assertion.
Stopped == {"exit", "fatal", "assert", "abort"}

\* It never returns from cache_lookup, or from machine_compile.
Stuck == {"spin", "wait"}

\* Types of the dispatcher's state; x0 of the architectural state is 0.
TypeOK ==
    /\ prog \in Programs
    /\ gp_regs \in [Regs -> 0 .. Word - 1] /\ gp_regs[0] = 0
    /\ pc \in Nat /\ reenter_pc \in Nat /\ label \in Nat
    /\ exit_reason \in {"none", "direct_branch", "indirect_branch", "interp", "ecall"}
    /\ ctl \in {"step", "miss", "genblock", "compile", "call", "interp", "jit", "ret", "main"}
               \cup Stopped \cup Stuck
    /\ code \in PCs \cup {exec_block_interp, NULL}
    /\ tick \in {0, 1}
    /\ DOMAIN x \subseteq Regs \ {0} /\ \A r \in DOMAIN x : x[r] \in 0 .. Word - 1

\* The block that is about to run is the interpreter, at the current pc, or
\* the installed code of exactly the current pc: the function pointer kept
\* across a block exit is never that of another pc.  And the interpreter never
\* starts or arrives at pc 0: the halt exit of interpret.c:823-827 is dead code.
CodeMatchesPc ==
    /\ ctl = "call" => \/ code = exec_block_interp
                       \/ code = pc /\ entry[pc] # NULL
    /\ ctl = "interp" => pc # 0

\* A compiled block only ever reaches labels it has, and at each of them the
\* registers the instruction uses are locals of the block.
JitStaysInRegion ==
    ctl = "jit" => /\ label \in Region(code)
                   /\ Traces(prog[label]) \subseteq DOMAIN x

\* The guest's view: where a compiled block runs, its locals are the registers
\* and its label is the pc.
GuestRegs ==
    IF ctl = "jit" THEN [r \in Regs |-> IF r \in DOMAIN x THEN x[r] ELSE gp_regs[r]]
    ELSE gp_regs

GuestPc == IF ctl = "jit" THEN label ELSE IF ctl = "ret" THEN reenter_pc ELSE pc

GuestMode ==
    IF ctl = "exit" THEN "halt"
    ELSE IF ctl = "main" \/ (ctl = "ret" /\ exit_reason = "ecall") THEN "trap"
    ELSE "run"

Hart == INSTANCE Isa WITH gpc <- GuestPc, gregs <- GuestRegs, mode <- GuestMode

\* Whatever mix of interpreted and compiled blocks runs the program, and
\* whenever a block becomes hot, the guest sees one RISC-V hart.
ImplementsIsa == Hart!IsaSpec

\* The dispatcher never goes round without executing guest instructions: a
\* block that leaves its first instruction to the interpreter, a miss after a
\* branch and a fresh compilation all lead to another instruction, or to the
\* end.  It gets stuck in two places only, a lookup in a full table and a
\* compilation that waits for ever.
Progress == <>(ctl \in Stopped \cup Stuck) \/ []<><<tick' # tick>>_vars

\* doc/STAGE_I.md:107, 188-192 and doc/STAGE_II.md:165: a guest that returns
\* to address 0 is halted instead of failing cache_lookup's assertion.
ReturnToZeroIsNoAssertion == ctl # "assert"
=============================================================================
