--------------------------- MODULE MachineProofs ---------------------------
(***************************************************************************)
(* The dispatch loop for every word size, register file, guest program,    *)
(* heat limit and code buffer: which code runs, where a compiled block can *)
(* get to, and that the mix of interpreter and compiled blocks is one      *)
(* RISC-V hart.                                                            *)
(***************************************************************************)
EXTENDS Machine, TLAPS

USE MachineAssumption

-----------------------------------------------------------------------------
\* The pc of the machine and of a block's exit are addresses the cache knows.
Addresses ==
    /\ pc \in PCs \cup {0} /\ reenter_pc \in PCs \cup {0}
    /\ ctl \in {"miss", "genblock", "compile", "call", "interp"} => pc \in PCs
    /\ ctl = "ret" /\ exit_reason = "interp" => reenter_pc \in PCs

\* The cache: it is asked about the current pc, and only translatable pcs are
\* compiled and have code.
Installed ==
    /\ entry \in [PCs -> (0 .. CACHE_SIZE) \cup {NULL}]
    /\ ctl \in {"miss", "genblock", "compile"} => cur = pc
    /\ ctl = "compile" => Translatable(pc)
    /\ \A p \in PCs : entry[p] # NULL => Translatable(p)

\* A running compiled block: its locals are those of its prologue.
Running ==
    ctl = "jit" => /\ code \in PCs /\ Translatable(code)
                   /\ label \in Region(code) /\ DOMAIN x = Traced(code)

\* The inductive invariant.
IndInv == TypeOK /\ Addresses /\ Installed /\ Running /\ CodeMatchesPc

-----------------------------------------------------------------------------
\* Lemmas about instructions, regions and registers.

\* What the assumptions say of an instruction of the guest.
LEMMA InsnFacts ==
    ASSUME prog \in Programs, NEW a \in DOMAIN prog
    PROVE  /\ a \in PCs /\ a \in Nat
           /\ prog[a].type \in InsnTypes /\ prog[a].rvc \in BOOLEAN
           /\ prog[a].rd \in Regs /\ prog[a].rs1 \in Regs /\ prog[a].rs2 \in Regs
           /\ prog[a].imm \in Nat /\ prog[a].target \in Nat
           /\ prog[a].type \in {"branch", "jal"} => prog[a].target \in PCs \cup {0}
           /\ NextPc(a, prog[a]) \in PCs
           /\ prog[a].type = "ecall" => a + 4 = NextPc(a, prog[a])
           /\ Traces(prog[a]) \subseteq Regs \ {0}
<1>1. /\ a \in PCs /\ prog[a] \in Insn /\ {prog[a].rd, prog[a].rs1, prog[a].rs2} \subseteq Regs
    BY MachineProgramsAssumption
<1>2. /\ Targets(prog[a]) \subseteq PCs \cup {0} /\ NextPc(a, prog[a]) \in PCs
      /\ prog[a].type = "ecall" => ~prog[a].rvc
    BY MachineJumpsAssumption
<1>3. /\ prog[a].type \in InsnTypes /\ prog[a].rvc \in BOOLEAN
      /\ prog[a].imm \in Nat /\ prog[a].target \in Nat
    BY <1>1 DEF Insn
<1>4. prog[a].type \in {"branch", "jal"} => prog[a].target \in PCs \cup {0}
    BY <1>2 DEF Targets
<1>5. prog[a].type = "ecall" => a + 4 = NextPc(a, prog[a])
    BY <1>2 DEF NextPc
<1>6. Traces(prog[a]) \subseteq Regs \ {0}
    BY <1>1 DEF Traces
<1> QED
    BY <1>1, <1>2, <1>3, <1>4, <1>5, <1>6

\* Arithmetic on registers stays in range.
LEMMA ValuesInRange ==
    ASSUME NEW v \in Nat
    PROVE  v % Word \in 0 .. Word - 1 /\ ClearBit0(v) \in Nat /\ ClearBit0(v) <= v
<1>1. v % Word \in 0 .. Word - 1
    OBVIOUS
<1>2. v % 2 \in 0 .. 1 /\ v = 2 * (v \div 2) + (v % 2) /\ v \div 2 \in Nat
    OBVIOUS
<1> QED
    BY <1>1, <1>2 DEF ClearBit0

\* Results are values of a register.
LEMMA AluInRange ==
    ASSUME NEW a \in Nat, NEW b \in Nat
    PROVE  /\ AluVal(a, b) \in 0 .. Word - 1 /\ AluVal(a, b) \in Nat
           /\ FallbackVal(a, b) \in 0 .. Word - 1 /\ FallbackVal(a, b) \in Nat
<1>1. a + b \in Nat /\ a * b + 1 \in Nat
    OBVIOUS
<1>2. AluVal(a, b) \in 0 .. Word - 1 /\ FallbackVal(a, b) \in 0 .. Word - 1
    BY <1>1, ValuesInRange DEF AluVal, FallbackVal
<1>3. \A v \in 0 .. Word - 1 : v \in Nat
    OBVIOUS
<1> QED
    BY <1>2, <1>3

\* A register holds a value.
LEMMA RegisterValue ==
    ASSUME gp_regs \in [Regs -> 0 .. Word - 1], NEW r \in Regs
    PROVE  gp_regs[r] \in 0 .. Word - 1 /\ gp_regs[r] \in Nat
    OBVIOUS

\* A jalr leads to an address the cache knows.
LEMMA JumpInRange ==
    ASSUME NEW a \in Nat, NEW b \in Nat
    PROVE  ClearBit0(AluVal(a, b)) \in PCs \cup {0}
<1>1. PICK v \in 0 .. Word - 1 : v = AluVal(a, b)
    BY AluInRange
<1>2. v \in Nat /\ v <= Word - 1
    OBVIOUS
<1>3. ClearBit0(v) \in Nat /\ ClearBit0(v) <= v
    BY <1>2, ValuesInRange
<1>4. ClearBit0(v) \in 0 .. Word - 1
    BY <1>2, <1>3
<1> QED
    BY <1>1, <1>4, MachineJumpsAssumption

\* A block's region holds its entry and is closed under succession, as far as
\* there is code.
LEMMA RegionIsClosed ==
    ASSUME NEW p, Translatable(p)
    PROVE  /\ p \in Region(p) /\ Region(p) \subseteq DOMAIN prog
           /\ \A a \in Region(p) : Successors(a, prog[a]) \subseteq Region(p)
<1>1. p \in DOMAIN prog /\ \A a \in Region(p) : Successors(a, prog[a]) \subseteq DOMAIN prog
    BY DEF Translatable
<1>2. p \in Region(p) /\ Region(p) \subseteq DOMAIN prog
    BY <1>1 DEF Region
<1>3. ASSUME NEW a \in Region(p), NEW b \in Successors(a, prog[a])
      PROVE  b \in Region(p)
    BY <1>1 DEF Region
<1> QED
    BY <1>2, <1>3

\* The registers of an instruction in the block are its locals, and locals are
\* registers other than x0.
LEMMA TracedRegisters ==
    ASSUME prog \in Programs, NEW p, Translatable(p)
    PROVE  /\ Traced(p) \subseteq Regs \ {0}
           /\ \A a \in Region(p) : Traces(prog[a]) \subseteq Traced(p)
<1>1. Region(p) \subseteq DOMAIN prog
    BY DEF Region
<1>2. \A a \in Region(p) : Traces(prog[a]) \subseteq Regs \ {0}
    BY <1>1, InsnFacts
<1> QED
    BY <1>2 DEF Traced

\* Writing a register through the interpreter, and through a local.
LEMMA WrittenType ==
    ASSUME gp_regs \in [Regs -> 0 .. Word - 1], NEW rd \in Regs, NEW v \in Nat
    PROVE  Written(rd, v) \in [Regs -> 0 .. Word - 1] /\ Written(rd, v)[0] = 0
<1>1. v % Word \in 0 .. Word - 1 /\ 0 \in 0 .. Word - 1
    BY ValuesInRange
<1> QED
    BY <1>1 DEF Written

\* Writing a local keeps the locals what they are, x0 included.
LEMMA PutType ==
    ASSUME \A r \in DOMAIN x : x[r] \in 0 .. Word - 1, NEW rd, NEW v \in Nat
    PROVE  /\ DOMAIN Put(rd, v) = DOMAIN x
           /\ \A r \in DOMAIN x : Put(rd, v)[r] \in 0 .. Word - 1
<1>1. v % Word \in 0 .. Word - 1
    BY ValuesInRange
<1> QED
    BY <1>1 DEF Put

\* The program in memory does not change, and with it the regions.
LEMMA RegionFrame ==
    ASSUME prog' = prog, NEW p
    PROVE  /\ Region(p)' = Region(p) /\ Translatable(p)' = Translatable(p)
           /\ Traced(p)' = Traced(p)
<1>1. Region(p)' = Region(p)
    BY DEF Region
<1> QED
    BY <1>1 DEF Translatable, Traced

\* Most steps leave the cache's entries alone.
LEMMA InstalledFrame ==
    ASSUME Installed, prog' = prog, entry' = entry,
           ctl' \in {"miss", "genblock", "compile"} => cur' = pc',
           ctl' = "compile" => Translatable(pc)'
    PROVE  Installed'
<1>1. ASSUME NEW p \in PCs, entry[p] # NULL
      PROVE  Translatable(p)'
    <2>1. Translatable(p)
        BY <1>1 DEF Installed
    <2> QED
        BY <2>1, RegionFrame
<1> QED
    BY <1>1 DEF Installed

-----------------------------------------------------------------------------
\* The invariant holds at first and every step keeps it.

\* The invariant when the guest starts.
LEMMA IndInvInit == Init => IndInv
<1> SUFFICES ASSUME Init
             PROVE  IndInv
    OBVIOUS
<1>1. /\ prog \in Programs /\ pc \in Entries /\ reenter_pc = 0 /\ exit_reason = "none"
      /\ ctl = "step" /\ code = NULL /\ x = <<>> /\ label = 0 /\ tick = 0
      /\ entry = [p \in PCs |-> NULL]
    BY DEF Init, Cache!MapInit
<1>2. PICK argc \in Results : gp_regs = [r \in Regs |-> IF r = a0 THEN argc ELSE 0]
    BY DEF Init
<1>3. gp_regs \in [Regs -> 0 .. Word - 1] /\ gp_regs[0] = 0
    <2>1. argc \in 0 .. Word - 1 /\ 0 \in 0 .. Word - 1
        OBVIOUS
    <2> QED
        BY <1>2, <2>1
<1>4. pc \in PCs \cup {0} /\ pc \in Nat
    BY <1>1, MachineProgramsAssumption
<1>5. DOMAIN x = {}
    BY <1>1
<1>6. TypeOK
    BY <1>1, <1>3, <1>4, <1>5 DEF TypeOK
<1>7. Addresses /\ Running /\ CodeMatchesPc
    BY <1>1, <1>4 DEF Addresses, Running, CodeMatchesPc
<1>8. Installed
    BY <1>1 DEF Installed
<1> QED
    BY <1>6, <1>7, <1>8 DEF IndInv

\* A lookup changes no entry: it never returns, misses, or finds the pc's code.
LEMMA LookupAnswers ==
    ASSUME NEW p, NEW miss, cache_lookup(p, miss)
    PROVE  /\ entry' = entry /\ cur' = p
           /\ \/ ctl' = "spin" /\ code' = code
              \/ ctl' = miss /\ code' = code
              \/ ctl' = "call" /\ code' = p /\ entry[p] # NULL
<1>1. CASE Spins(p)
    BY <1>1 DEF cache_lookup, Cache!Fail
<1>2. CASE ~Spins(p)
    BY <1>2 DEF cache_lookup, Cache!Find
<1> QED
    BY <1>1, <1>2

\* The dispatcher asks the cache.
LEMMA LookupKeeps == IndInv /\ (step_halt \/ step_lookup) => IndInv'
<1> SUFFICES ASSUME IndInv, step_halt \/ step_lookup
             PROVE  IndInv'
    OBVIOUS
<1>1. CASE step_halt
    <2>1. /\ ctl' = "exit" /\ prog' = prog /\ gp_regs' = gp_regs /\ pc' = pc
          /\ reenter_pc' = reenter_pc /\ exit_reason' = exit_reason /\ code' = code
          /\ x' = x /\ label' = label /\ tick' = tick /\ entry' = entry /\ cur' = cur
        BY <1>1 DEF step_halt, state, jitVars, cacheVars
    <2>2. Installed'
        BY <2>1, InstalledFrame DEF IndInv
    <2> QED
        BY <2>1, <2>2 DEF IndInv, TypeOK, Stopped, Addresses, Running, CodeMatchesPc
<1>2. CASE step_lookup
    <2>1. /\ ctl = "step" /\ pc # 0 /\ prog' = prog /\ gp_regs' = gp_regs /\ pc' = pc
          /\ reenter_pc' = reenter_pc /\ exit_reason' = exit_reason
          /\ x' = x /\ label' = label /\ tick' = tick /\ entry' = entry /\ cur' = pc
          /\ \/ ctl' = "spin" /\ code' = code
             \/ ctl' = "miss" /\ code' = code
             \/ ctl' = "call" /\ code' = pc /\ entry[pc] # NULL
        BY <1>2, LookupAnswers DEF step_lookup, state, jitVars
    <2>2. pc \in PCs
        BY <2>1 DEF IndInv, Addresses
    <2>3. Installed'
        BY <2>1, InstalledFrame DEF IndInv
    <2>4. TypeOK'
        BY <2>1, <2>2 DEF IndInv, TypeOK, Stuck
    <2>5. Addresses' /\ Running' /\ CodeMatchesPc'
        BY <2>1, <2>2 DEF IndInv, Addresses, Running, CodeMatchesPc
    <2> QED
        BY <2>3, <2>4, <2>5 DEF IndInv
<1> QED
    BY <1>1, <1>2

\* A miss: the interpreter, a translation, or the end.
LEMMA MissKeeps ==
    IndInv /\ (step_hot \/ step_genblock \/ step_compile \/ compile_waits \/ cache_dies)
        => IndInv'
<1> SUFFICES ASSUME IndInv,
                    step_hot \/ step_genblock \/ step_compile \/ compile_waits \/ cache_dies
             PROVE  IndInv'
    OBVIOUS
<1>1. CASE step_hot
    <2>1. /\ ctl = "miss" /\ cur = pc /\ prog' = prog /\ gp_regs' = gp_regs /\ pc' = pc
          /\ reenter_pc' = reenter_pc /\ exit_reason' = exit_reason
          /\ x' = x /\ label' = label /\ tick' = tick /\ entry' = entry /\ cur' = cur
          /\ code' = exec_block_interp
          /\ ctl' = IF stage' = "compile" THEN "genblock" ELSE "call"
        BY <1>1 DEF step_hot, state, jitVars, Cache!Warm
    <2>2. Installed'
        BY <2>1, InstalledFrame DEF IndInv
    <2>3. TypeOK'
        BY <2>1 DEF IndInv, TypeOK
    <2>4. Addresses' /\ Running' /\ CodeMatchesPc'
        BY <2>1 DEF IndInv, Addresses, Running, CodeMatchesPc
    <2> QED
        BY <2>2, <2>3, <2>4 DEF IndInv
<1>2. CASE step_compile
    <2>1. /\ ctl = "compile" /\ prog' = prog /\ gp_regs' = gp_regs /\ pc' = pc
          /\ reenter_pc' = reenter_pc /\ exit_reason' = exit_reason
          /\ x' = x /\ label' = label /\ tick' = tick /\ cur' = cur
          /\ code' = pc /\ ctl' = "call"
          /\ \E o \in 0 .. CACHE_SIZE : entry' = [entry EXCEPT ![cur] = o]
        BY <1>2 DEF step_compile, state, jitVars, Cache!Install
    <2>2. pc \in PCs /\ cur = pc /\ Translatable(pc)
        BY <2>1 DEF IndInv, Addresses, Installed
    <2>3. PICK o \in 0 .. CACHE_SIZE : entry' = [entry EXCEPT ![pc] = o]
        BY <2>1, <2>2
    <2>4. o \in Nat /\ o # NULL
        OBVIOUS
    <2>5. /\ entry' \in [PCs -> (0 .. CACHE_SIZE) \cup {NULL}]
          /\ entry'[pc] = o /\ \A p \in PCs \ {pc} : entry'[p] = entry[p]
        BY <2>2, <2>3 DEF IndInv, Installed
    <2>6. ASSUME NEW p \in PCs, entry'[p] # NULL
          PROVE  Translatable(p)'
        <3>1. Translatable(p)
            BY <2>2, <2>5, <2>6 DEF IndInv, Installed
        <3> QED
            BY <2>1, <3>1, RegionFrame
    <2>7. Installed'
        BY <2>1, <2>5, <2>6 DEF Installed
    <2>8. TypeOK'
        BY <2>1, <2>2 DEF IndInv, TypeOK, Stopped
    <2>9. Addresses' /\ Running' /\ CodeMatchesPc'
        BY <2>1, <2>2, <2>4, <2>5 DEF IndInv, Addresses, Running, CodeMatchesPc
    <2> QED
        BY <2>7, <2>8, <2>9 DEF IndInv
<1>3. CASE step_genblock \/ compile_waits \/ cache_dies
    <2>1. /\ prog' = prog /\ gp_regs' = gp_regs /\ pc' = pc
          /\ reenter_pc' = reenter_pc /\ exit_reason' = exit_reason /\ code' = code
          /\ x' = x /\ label' = label /\ tick' = tick /\ entry' = entry /\ cur' = cur
          /\ \/ ctl' \in {"fatal", "wait", "abort"}
             \/ ctl = "genblock" /\ ctl' = "compile" /\ Translatable(pc)
        BY <1>3 DEF step_genblock, compile_waits, cache_dies, state, jitVars, cacheVars,
                    Cache!Fail
    <2>2. Installed'
        <3>1. ctl' = "compile" => Translatable(pc)'
            <4>1. Translatable(pc)' = Translatable(pc)
                BY <2>1 DEF Translatable, Region
            <4> QED
                BY <2>1, <4>1
        <3> QED
            BY <2>1, <3>1, InstalledFrame DEF IndInv, Installed
    <2>3. TypeOK' /\ Addresses'
        BY <2>1 DEF IndInv, TypeOK, Stopped, Stuck, Addresses
    <2> QED
        BY <2>1, <2>2, <2>3 DEF IndInv, Running, CodeMatchesPc
<1> QED
    BY <1>1, <1>2, <1>3

\* What is called is the interpreter or the block of pc, and the block of pc is
\* translatable.
LEMMA CalledCode ==
    ASSUME IndInv, ctl = "call", code # exec_block_interp
    PROVE  code = pc /\ code \in PCs /\ code \in Nat /\ Translatable(code)
<1>1. pc \in PCs /\ code = pc /\ entry[pc] # NULL
    BY DEF IndInv, Addresses, CodeMatchesPc
<1> QED
    BY <1>1 DEF IndInv, Installed

\* Calling the code pointer: the prologue of a block loads its locals.
LEMMA CallKeeps == IndInv /\ call => IndInv'
<1> SUFFICES ASSUME IndInv, call
             PROVE  IndInv'
    OBVIOUS
<1>1. /\ ctl = "call" /\ prog' = prog /\ gp_regs' = gp_regs /\ pc' = pc
      /\ reenter_pc' = reenter_pc /\ exit_reason' = "none" /\ code' = code
      /\ tick' = tick /\ entry' = entry /\ cur' = cur
    BY DEF call, cacheVars
<1>2. pc \in PCs
    BY <1>1 DEF IndInv, Addresses
<1>3. CASE code = exec_block_interp
    <2>1. ctl' = "interp" /\ x' = x /\ label' = label
        BY <1>3 DEF call, jitVars
    <2>2. Installed'
        BY <1>1, <2>1, InstalledFrame DEF IndInv
    <2>3. TypeOK'
        BY <1>1, <2>1 DEF IndInv, TypeOK, Stopped
    <2> QED
        BY <1>1, <1>2, <2>1, <2>2, <2>3 DEF IndInv, Addresses, Running, CodeMatchesPc
<1>4. CASE code # exec_block_interp
    <2>1. ctl' = "jit" /\ x' = [r \in Traced(code) |-> gp_regs[r]] /\ label' = code
        BY <1>4 DEF call
    <2>2. PICK c \in PCs : c = code
        BY <1>1, <1>4, CalledCode
    <2>3. Translatable(c) /\ c \in Nat
        BY <1>1, <1>4, <2>2, CalledCode
    <2>4. Traced(c) \subseteq Regs \ {0} /\ prog \in Programs
        BY <2>3, TracedRegisters DEF IndInv, TypeOK
    <2>5. DOMAIN x' = Traced(c) /\ \A r \in DOMAIN x' : x'[r] \in 0 .. Word - 1
        BY <2>1, <2>2, <2>4 DEF IndInv, TypeOK
    <2>6. c \in Region(c)
        BY <2>3, RegionIsClosed
    <2>7. Installed'
        BY <1>1, <2>1, InstalledFrame DEF IndInv
    <2>8. TypeOK'
        BY <1>1, <2>1, <2>2, <2>3, <2>4, <2>5 DEF IndInv, TypeOK, Stopped
    <2>9. Running'
        <3>1. Region(c)' = Region(c) /\ Translatable(c)' /\ Traced(c)' = Traced(c)
            BY <1>1, <2>3, RegionFrame
        <3>2. code' = c /\ label' = c
            BY <1>1, <2>1, <2>2
        <3> QED
            BY <2>5, <2>6, <3>1, <3>2 DEF Running, Translatable, Region, Traced
    <2>10. Addresses' /\ CodeMatchesPc'
        BY <1>1, <1>2, <2>1 DEF IndInv, Addresses, CodeMatchesPc
    <2> QED
        BY <2>7, <2>8, <2>9, <2>10 DEF IndInv
<1> QED
    BY <1>3, <1>4

\* The interpreter.
LEMMA InterpKeeps == IndInv /\ (interp_fatal \/ interp_op \/ interp_exit) => IndInv'
<1> SUFFICES ASSUME IndInv, interp_fatal \/ interp_op \/ interp_exit
             PROVE  IndInv'
    OBVIOUS
<1>a. /\ ctl = "interp" /\ prog' = prog /\ code' = code /\ x' = x /\ label' = label
      /\ entry' = entry /\ cur' = cur
    BY DEF interp_fatal, interp_op, interp_exit, state, jitVars, cacheVars
<1>b. /\ prog \in Programs /\ gp_regs \in [Regs -> 0 .. Word - 1] /\ gp_regs[0] = 0
      /\ tick \in {0, 1} /\ pc \in PCs
    BY <1>a DEF IndInv, TypeOK, Addresses
<1>1. CASE interp_fatal
    <2>1. /\ ctl' = "fatal" /\ gp_regs' = gp_regs /\ pc' = pc
          /\ reenter_pc' = reenter_pc /\ exit_reason' = exit_reason /\ tick' = tick
        BY <1>1 DEF interp_fatal, state
    <2>2. Installed'
        BY <1>a, <2>1, InstalledFrame DEF IndInv
    <2> QED
        BY <1>a, <2>1, <2>2 DEF IndInv, TypeOK, Stopped, Addresses, Running, CodeMatchesPc
<1>2. CASE interp_op \/ interp_exit
    <2>0. pc \in DOMAIN prog
        BY <1>2 DEF interp_op, interp_exit
    <2> DEFINE insn == prog[pc]
    <2>1. /\ insn.rd \in Regs /\ insn.rs1 \in Regs /\ insn.rs2 \in Regs /\ insn.imm \in Nat
          /\ NextPc(pc, insn) \in PCs /\ NextPc(pc, insn) \in Nat
          /\ insn.type \in {"branch", "jal"} => insn.target \in PCs \cup {0}
          /\ insn.type = "ecall" => pc + 4 = NextPc(pc, insn)
        BY <1>b, <2>0, InsnFacts
    <2>2. gp_regs[insn.rs1] \in Nat /\ gp_regs[insn.rs2] \in Nat
        BY <1>b, <2>1, RegisterValue
    <2>3. /\ AluVal(gp_regs[insn.rs1], insn.imm) \in Nat
          /\ FallbackVal(gp_regs[insn.rs1], gp_regs[insn.rs2]) \in Nat
          /\ ClearBit0(AluVal(gp_regs[insn.rs1], insn.imm)) \in PCs \cup {0}
        BY <2>1, <2>2, AluInRange, JumpInRange
    <2>4. \A v \in Nat : /\ Written(insn.rd, v) \in [Regs -> 0 .. Word - 1]
                         /\ Written(insn.rd, v)[0] = 0
        BY <1>b, <2>1, WrittenType
    <2>5. tick' \in {0, 1}
        BY <1>b, <1>2 DEF interp_op, interp_exit
    <2>6. CASE interp_op
        <3>1. ctl' = "interp" /\ reenter_pc' = reenter_pc /\ exit_reason' = exit_reason
              /\ pc' = NextPc(pc, insn)
            BY <1>a, <2>6 DEF interp_op
        <3>2. gp_regs' \in [Regs -> 0 .. Word - 1] /\ gp_regs'[0] = 0
            BY <1>b, <2>3, <2>4, <2>6 DEF interp_op
        <3>3. Installed'
            BY <1>a, <3>1, InstalledFrame DEF IndInv
        <3>4. TypeOK'
            BY <1>a, <2>1, <2>5, <3>1, <3>2 DEF IndInv, TypeOK, Stopped
        <3> QED
            BY <1>a, <2>1, <3>1, <3>3, <3>4
               DEF IndInv, Addresses, Running, CodeMatchesPc
    <2>7. CASE interp_exit
        <3>1. /\ ctl' = "ret" /\ pc' \in PCs \cup {0} /\ reenter_pc' \in PCs \cup {0}
              /\ exit_reason' \in {"direct_branch", "indirect_branch", "ecall"}
            BY <1>b, <2>1, <2>3, <2>7 DEF interp_exit
        <3>2. gp_regs' \in [Regs -> 0 .. Word - 1] /\ gp_regs'[0] = 0
            BY <1>b, <2>1, <2>4, <2>7 DEF interp_exit
        <3>3. Installed'
            BY <1>a, <3>1, InstalledFrame DEF IndInv
        <3>4. TypeOK'
            BY <1>a, <2>5, <3>1, <3>2 DEF IndInv, TypeOK, Stopped
        <3> QED
            BY <3>1, <3>3, <3>4 DEF IndInv, Addresses, Running, CodeMatchesPc
    <2> QED
        BY <1>2, <2>6, <2>7
<1> QED
    BY <1>1, <1>2

\* At a label of a running block: there is an instruction, its registers are
\* locals or x0, and its direct successors are labels.
LEMMA JitFacts ==
    ASSUME IndInv, ctl = "jit"
    PROVE  /\ prog \in Programs /\ label \in DOMAIN prog /\ label \in PCs /\ label \in Nat
           /\ Traces(prog[label]) \subseteq DOMAIN x /\ 0 \notin DOMAIN x
           /\ \A r \in DOMAIN x \cup {0} : Get(r) \in Nat
           /\ \A r \in DOMAIN x : x[r] \in 0 .. Word - 1
           /\ Region(code) \subseteq DOMAIN prog
           /\ Successors(label, prog[label]) \subseteq Region(code)
           /\ NextPc(label, prog[label]) \in PCs /\ NextPc(label, prog[label]) \in Nat
           /\ prog[label].imm \in Nat
<1>1. /\ prog \in Programs /\ code \in PCs /\ Translatable(code)
      /\ label \in Region(code) /\ DOMAIN x = Traced(code)
    BY DEF IndInv, TypeOK, Running
<1>2. Region(code) \subseteq DOMAIN prog /\ Successors(label, prog[label]) \subseteq Region(code)
    BY <1>1, RegionIsClosed
<1>3. Traces(prog[label]) \subseteq DOMAIN x
    BY <1>1, TracedRegisters
<1>4. DOMAIN x \subseteq Regs \ {0} /\ \A r \in DOMAIN x : x[r] \in 0 .. Word - 1
    BY DEF IndInv, TypeOK
<1>5. \A r \in DOMAIN x \cup {0} : Get(r) \in Nat
    BY <1>4 DEF Get
<1>6. /\ label \in PCs /\ label \in Nat /\ prog[label].imm \in Nat
      /\ NextPc(label, prog[label]) \in PCs /\ NextPc(label, prog[label]) \in Nat
    BY <1>1, <1>2, InsnFacts
<1> QED
    BY <1>1, <1>2, <1>3, <1>4, <1>5, <1>6

\* A goto inside a block ends at a label of the block.
LEMMA JitGotoKeeps == IndInv /\ jit_goto => IndInv'
<1> SUFFICES ASSUME IndInv, jit_goto
             PROVE  IndInv'
    OBVIOUS
<1>1. /\ ctl = "jit" /\ ctl' = "jit" /\ prog' = prog /\ code' = code
      /\ gp_regs' = gp_regs /\ pc' = pc /\ reenter_pc' = reenter_pc
      /\ exit_reason' = exit_reason /\ entry' = entry /\ cur' = cur /\ tick' = 1 - tick
    BY DEF jit_goto, state, cacheVars
<1> DEFINE insn == prog[label]
<1>2. /\ prog \in Programs /\ label \in DOMAIN prog
      /\ Traces(insn) \subseteq DOMAIN x /\ 0 \notin DOMAIN x
      /\ \A r \in DOMAIN x \cup {0} : Get(r) \in Nat
      /\ \A r \in DOMAIN x : x[r] \in 0 .. Word - 1
      /\ Region(code) \subseteq DOMAIN prog
      /\ Successors(label, insn) \subseteq Region(code)
      /\ NextPc(label, insn) \in Nat /\ insn.imm \in Nat
    BY <1>1, JitFacts
<1>3. \A rd : \A v \in Nat : /\ DOMAIN Put(rd, v) = DOMAIN x
                             /\ \A r \in DOMAIN x : Put(rd, v)[r] \in 0 .. Word - 1
    BY <1>2, PutType
<1>4. /\ DOMAIN x' = DOMAIN x /\ \A r \in DOMAIN x : x'[r] \in 0 .. Word - 1
      /\ label' \in Region(code)
    <2>1. CASE insn.type = "op"
        <3>1. insn.rs1 \in DOMAIN x \cup {0}
            BY <1>2, <2>1 DEF Traces
        <3>2. AluVal(Get(insn.rs1), insn.imm) \in Nat
            BY <1>2, <3>1, AluInRange
        <3>3. NextPc(label, insn) \in Region(code)
            BY <1>2, <2>1 DEF Successors, EndsBlock
        <3>4. x' = Put(insn.rd, AluVal(Get(insn.rs1), insn.imm)) /\ label' = NextPc(label, insn)
            BY <2>1 DEF jit_goto
        <3> QED
            BY <1>3, <3>2, <3>3, <3>4
    <2>2. CASE insn.type = "branch"
        <3>1. insn.target \in Region(code) /\ NextPc(label, insn) \in Region(code)
            BY <1>2, <2>2 DEF Successors, EndsBlock, Targets
        <3>2. x' = x /\ label' \in {insn.target, NextPc(label, insn)}
            BY <2>2 DEF jit_goto
        <3> QED
            BY <1>2, <3>1, <3>2
    <2>3. CASE insn.type = "jal"
        <3>1. insn.target \in Region(code)
            BY <1>2, <2>3 DEF Successors, EndsBlock, Targets
        <3>2. x' = Put(insn.rd, NextPc(label, insn)) /\ label' = insn.target
            BY <2>3 DEF jit_goto
        <3> QED
            BY <1>2, <1>3, <3>1, <3>2
    <2> QED
        BY <2>1, <2>2, <2>3 DEF jit_goto
<1>5. label' \in Nat
    BY <1>2, <1>4, InsnFacts
<1>6. TypeOK'
    BY <1>1, <1>4, <1>5 DEF IndInv, TypeOK
<1>7. Installed'
    BY <1>1, InstalledFrame DEF IndInv
<1>8. Running'
    <2>1. PICK c \in PCs : c = code
        BY <1>1 DEF IndInv, Running
    <2>2. Translatable(c) /\ DOMAIN x = Traced(c)
        BY <1>1, <2>1 DEF IndInv, Running
    <2>3. Region(c)' = Region(c) /\ Translatable(c)' /\ Traced(c)' = Traced(c)
        BY <1>1, <2>2, RegionFrame
    <2>4. code' = c /\ label' \in Region(c)' /\ DOMAIN x' = Traced(c)'
        BY <1>1, <1>4, <2>1, <2>2, <2>3
    <2> QED
        BY <2>3, <2>4 DEF Running, Translatable, Region, Traced
<1> QED
    BY <1>1, <1>6, <1>7, <1>8 DEF IndInv, Addresses, CodeMatchesPc

\* The registers after the epilogue.
LEMMA EpilogueType ==
    ASSUME gp_regs \in [Regs -> 0 .. Word - 1], gp_regs[0] = 0, NEW locals,
           0 \notin DOMAIN locals, \A r \in DOMAIN locals : locals[r] \in 0 .. Word - 1,
           Epilogue(locals)
    PROVE  gp_regs' \in [Regs -> 0 .. Word - 1] /\ gp_regs'[0] = 0
    BY DEF Epilogue

\* The epilogue of a block names an address the cache knows.
LEMMA JitExitKeeps == IndInv /\ jit_exit => IndInv'
<1> SUFFICES ASSUME IndInv, jit_exit
             PROVE  IndInv'
    OBVIOUS
<1>1. /\ ctl = "jit" /\ ctl' = "ret" /\ prog' = prog /\ code' = code /\ label' = label
      /\ pc' = pc /\ entry' = entry /\ cur' = cur /\ Epilogue(x')
    BY DEF jit_exit, cacheVars
<1> DEFINE insn == prog[label]
<1>2. /\ prog \in Programs /\ label \in DOMAIN prog /\ label \in PCs
      /\ Traces(insn) \subseteq DOMAIN x /\ 0 \notin DOMAIN x
      /\ \A r \in DOMAIN x \cup {0} : Get(r) \in Nat
      /\ \A r \in DOMAIN x : x[r] \in 0 .. Word - 1
      /\ NextPc(label, insn) \in Nat /\ NextPc(label, insn) \in PCs /\ insn.imm \in Nat
    BY <1>1, JitFacts
<1>3. /\ DOMAIN x' = DOMAIN x /\ \A r \in DOMAIN x : x'[r] \in 0 .. Word - 1
      /\ reenter_pc' \in PCs \cup {0} /\ (exit_reason' = "interp" => reenter_pc' \in PCs)
      /\ exit_reason' \in {"indirect_branch", "ecall", "interp"}
      /\ tick' \in {tick, 1 - tick}
    <2>1. CASE insn.type = "jalr"
        <3>1. insn.rs1 \in DOMAIN x \cup {0}
            BY <1>2, <2>1 DEF Traces
        <3>2. ClearBit0(AluVal(Get(insn.rs1), insn.imm)) \in PCs \cup {0}
            BY <1>2, <3>1, JumpInRange
        <3>3. /\ DOMAIN Put(insn.rd, NextPc(label, insn)) = DOMAIN x
              /\ \A r \in DOMAIN x : Put(insn.rd, NextPc(label, insn))[r] \in 0 .. Word - 1
            BY <1>2, PutType
        <3>4. /\ x' = Put(insn.rd, NextPc(label, insn))
              /\ reenter_pc' = ClearBit0(AluVal(Get(insn.rs1), insn.imm))
              /\ exit_reason' = "indirect_branch" /\ tick' = 1 - tick
            BY <2>1 DEF jit_exit
        <3> QED
            BY <3>2, <3>3, <3>4
    <2>2. CASE insn.type = "ecall"
        <3>1. label + 4 = NextPc(label, insn)
            BY <1>2, <2>2, InsnFacts
        <3>2. x' = x /\ reenter_pc' = label + 4 /\ exit_reason' = "ecall" /\ tick' = 1 - tick
            BY <2>2 DEF jit_exit
        <3> QED
            BY <1>2, <3>1, <3>2
    <2>3. CASE insn.type = "interp"
        <3>1. x' = x /\ reenter_pc' = label /\ exit_reason' = "interp" /\ tick' = tick
            BY <2>3 DEF jit_exit
        <3> QED
            BY <1>2, <3>1
    <2> QED
        BY <2>1, <2>2, <2>3 DEF jit_exit
<1>4. gp_regs' \in [Regs -> 0 .. Word - 1] /\ gp_regs'[0] = 0
    <2>1. PICK locals : locals = x'
        OBVIOUS
    <2>2. Epilogue(locals) /\ 0 \notin DOMAIN locals
          /\ \A r \in DOMAIN locals : locals[r] \in 0 .. Word - 1
        BY <1>1, <1>2, <1>3, <2>1
    <2> QED
        BY <2>2, EpilogueType DEF IndInv, TypeOK
<1>5. tick' \in {0, 1}
    BY <1>3 DEF IndInv, TypeOK
<1>6. TypeOK'
    BY <1>1, <1>3, <1>4, <1>5 DEF IndInv, TypeOK
<1>7. Installed'
    BY <1>1, InstalledFrame DEF IndInv
<1> QED
    BY <1>1, <1>3, <1>6, <1>7 DEF IndInv, Addresses, Running, CodeMatchesPc

\* The dispatcher after a block, and the system call.
LEMMA RetKeeps == IndInv /\ (ret_branch \/ ret_interp \/ ret_ecall \/ syscall) => IndInv'
<1> SUFFICES ASSUME IndInv, ret_branch \/ ret_interp \/ ret_ecall \/ syscall
             PROVE  IndInv'
    OBVIOUS
<1>a. /\ prog' = prog /\ reenter_pc' = reenter_pc /\ exit_reason' = exit_reason
      /\ x' = x /\ label' = label /\ tick' = tick /\ entry' = entry
    BY LookupAnswers DEF ret_branch, ret_interp, ret_ecall, syscall, jitVars, cacheVars
<1>b. /\ reenter_pc \in PCs \cup {0}
      /\ reenter_pc \in Nat
    BY DEF IndInv, Addresses
<1>1. CASE ret_branch
    <2>1. ctl = "ret" /\ pc' = reenter_pc /\ gp_regs' = gp_regs
        BY <1>1 DEF ret_branch
    <2>2. CASE reenter_pc = 0
        <3>1. ctl' = "assert" /\ code' = code
            BY <1>1, <2>2 DEF ret_branch
        <3>2. Installed'
            BY <1>a, <3>1, InstalledFrame DEF IndInv
        <3> QED
            BY <1>a, <1>b, <2>1, <3>1, <3>2
               DEF IndInv, TypeOK, Stopped, Addresses, Running, CodeMatchesPc
    <2>3. CASE reenter_pc # 0
        <3>1. \/ ctl' = "spin" /\ code' = code
              \/ ctl' = "step" /\ code' = code
              \/ ctl' = "call" /\ code' = reenter_pc /\ entry[reenter_pc] # NULL
            BY <1>1, <2>3, LookupAnswers DEF ret_branch
        <3>2. Installed'
            BY <1>a, <3>1, InstalledFrame DEF IndInv
        <3>3. TypeOK'
            BY <1>a, <1>b, <2>1, <2>3, <3>1 DEF IndInv, TypeOK, Stuck
        <3> QED
            BY <1>a, <1>b, <2>1, <2>3, <3>1, <3>2, <3>3
               DEF IndInv, Addresses, Running, CodeMatchesPc
    <2> QED
        BY <2>2, <2>3
<1>2. CASE ret_interp
    <2>1. /\ ctl = "ret" /\ exit_reason = "interp" /\ pc' = reenter_pc /\ gp_regs' = gp_regs
          /\ code' = exec_block_interp /\ ctl' = "call"
        BY <1>2 DEF ret_interp
    <2>2. Installed'
        BY <1>a, <2>1, InstalledFrame DEF IndInv
    <2> QED
        BY <1>a, <1>b, <2>1, <2>2
           DEF IndInv, TypeOK, Stopped, Addresses, Running, CodeMatchesPc
<1>3. CASE ret_ecall
    <2>1. /\ pc' = reenter_pc /\ gp_regs' = gp_regs /\ code' = code /\ ctl' = "main"
        BY <1>3 DEF ret_ecall
    <2>2. Installed'
        BY <1>a, <2>1, InstalledFrame DEF IndInv
    <2> QED
        BY <1>a, <1>b, <2>1, <2>2
           DEF IndInv, TypeOK, Stopped, Addresses, Running, CodeMatchesPc
<1>4. CASE syscall
    <2>1. pc' = pc /\ code' = code /\ ctl' \in {"step", "exit"}
        BY <1>4 DEF syscall
    <2>2. gp_regs' = gp_regs \/ \E v \in Results : gp_regs' = [gp_regs EXCEPT ![a0] = v]
        BY <1>4 DEF syscall
    <2>3. gp_regs' \in [Regs -> 0 .. Word - 1] /\ gp_regs'[0] = 0
        BY <2>2 DEF IndInv, TypeOK
    <2>4. Installed'
        BY <1>a, <2>1, InstalledFrame DEF IndInv
    <2> QED
        BY <1>a, <1>b, <2>1, <2>3, <2>4
           DEF IndInv, TypeOK, Stopped, Addresses, Running, CodeMatchesPc
<1> QED
    BY <1>1, <1>2, <1>3, <1>4

\* A step that changes nothing.
LEMMA StutterKeeps == IndInv /\ UNCHANGED vars => IndInv'
<1> SUFFICES ASSUME IndInv, UNCHANGED vars
             PROVE  IndInv'
    OBVIOUS
<1>1. /\ prog' = prog /\ gp_regs' = gp_regs /\ pc' = pc /\ reenter_pc' = reenter_pc
      /\ exit_reason' = exit_reason /\ ctl' = ctl /\ code' = code /\ x' = x
      /\ label' = label /\ tick' = tick /\ entry' = entry /\ cur' = cur
    BY DEF vars
<1>2. Installed'
    <2>1. Translatable(pc)' = Translatable(pc)
        BY <1>1 DEF Translatable, Region
    <2> QED
        BY <1>1, <2>1, InstalledFrame DEF IndInv, Installed
<1>3. TypeOK' /\ Addresses' /\ CodeMatchesPc'
    BY <1>1 DEF IndInv, TypeOK, Addresses, CodeMatchesPc
<1>4. Running'
    BY <1>1 DEF IndInv, Running, Translatable, Traced, Region
<1> QED
    BY <1>2, <1>3, <1>4 DEF IndInv

\* Every step of the emulator keeps the invariant.
LEMMA IndInvStep == IndInv /\ [Next]_vars => IndInv'
    BY LookupKeeps, MissKeeps, CallKeeps, InterpKeeps, JitGotoKeeps, JitExitKeeps,
       RetKeeps, StutterKeeps DEF Next

\* The inductive invariant holds always.
LEMMA InductiveInvariant == Spec => []IndInv
    BY IndInvInit, IndInvStep, PTL DEF Spec

-----------------------------------------------------------------------------
\* Registers stay in range and x0 stays 0, whoever executes.
THEOREM TypesHold == Spec => []TypeOK
<1>1. IndInv => TypeOK
    BY DEF IndInv
<1> QED
    BY InductiveInvariant, <1>1, PTL

\* The function pointer of machine_step (src/src/machine.c:8-82) is never that
\* of another pc than the one it is called for, and the interpreter's exit at
\* pc 0 (src/src/interpret.c:823-827) is dead code.
THEOREM CalledCodeMatches == Spec => []CodeMatchesPc
<1>1. IndInv => CodeMatchesPc
    BY DEF IndInv
<1> QED
    BY InductiveInvariant, <1>1, PTL

\* A compiled block jumps only to labels it has, and everything its
\* instructions read or write is a local of it.
THEOREM JitIsClosed == Spec => []JitStaysInRegion
<1>1. IndInv => JitStaysInRegion
    BY JitFacts DEF IndInv, Running, JitStaysInRegion
<1> QED
    BY InductiveInvariant, <1>1, PTL

-----------------------------------------------------------------------------
\* The refinement: every step of the emulator is a step of the hart or does not
\* change what the guest sees.

\* Outside compiled blocks the guest's registers are the state's.
LEMMA GuestOutside ==
    ASSUME ctl # "jit"
    PROVE  /\ GuestRegs = gp_regs
           /\ GuestPc = IF ctl = "ret" THEN reenter_pc ELSE pc
    BY DEF GuestRegs, GuestPc

\* Inside, a register that is no local has not changed since the prologue.
LEMMA GuestInside ==
    ASSUME IndInv, ctl = "jit"
    PROVE  /\ GuestRegs = [r \in Regs |-> IF r \in DOMAIN x THEN x[r] ELSE gp_regs[r]]
           /\ GuestPc = label /\ GuestMode = "run"
           /\ DOMAIN x \subseteq Regs \ {0}
           /\ \A r \in DOMAIN x \cup {0} : Get(r) = GuestRegs[r]
<1>1. DOMAIN x \subseteq Regs \ {0} /\ gp_regs[0] = 0 /\ 0 \in Regs
    BY DEF IndInv, TypeOK
<1>2. GuestRegs = [r \in Regs |-> IF r \in DOMAIN x THEN x[r] ELSE gp_regs[r]]
      /\ GuestPc = label /\ GuestMode = "run"
    BY DEF GuestRegs, GuestPc, GuestMode
<1>3. \A r \in DOMAIN x \cup {0} : Get(r) = GuestRegs[r]
    BY <1>1, <1>2 DEF Get
<1> QED
    BY <1>1, <1>2, <1>3

\* The interpreter writes what the hart writes.
LEMMA WrittenIsSetReg ==
    ASSUME gp_regs \in [Regs -> 0 .. Word - 1], gp_regs[0] = 0, GuestRegs = gp_regs,
           NEW rd \in Regs, NEW v
    PROVE  Written(rd, v) = Hart!SetReg(rd, v)
    BY DEF Written, Hart!SetReg

\* And so does a compiled block.
LEMMA PutIsSetReg ==
    ASSUME IndInv, ctl = "jit", NEW rd \in DOMAIN x \cup {0}, NEW v,
           NEW locals, locals = Put(rd, v)
    PROVE  [r \in Regs |-> IF r \in DOMAIN locals THEN locals[r] ELSE gp_regs[r]]
               = Hart!SetReg(rd, v)
<1>1. /\ GuestRegs = [r \in Regs |-> IF r \in DOMAIN x THEN x[r] ELSE gp_regs[r]]
      /\ DOMAIN x \subseteq Regs \ {0}
    BY GuestInside
<1>2. CASE rd = 0
    BY <1>1, <1>2 DEF Put, Hart!SetReg
<1>3. CASE rd # 0
    <2>1. locals = [x EXCEPT ![rd] = v % Word] /\ rd \in DOMAIN x
        BY <1>3 DEF Put
    <2>2. Hart!SetReg(rd, v) = [GuestRegs EXCEPT ![rd] = v % Word]
        BY <1>3 DEF Hart!SetReg
    <2> QED
        BY <1>1, <2>1, <2>2
<1> QED
    BY <1>2, <1>3

\* The hart executes the instruction at the guest's pc.
LEMMA HartSteps ==
    ASSUME prog' = prog, GuestMode = "run", GuestPc \in DOMAIN prog, Hart!Exec(prog[GuestPc])
    PROVE  Hart!IsaNext
    BY DEF Hart!IsaNext, Hart!Step

\* The emulator starts as the hart does.
LEMMA InitMaps == Init => Hart!IsaInit
<1> SUFFICES ASSUME Init
             PROVE  Hart!IsaInit
    OBVIOUS
<1>1. TypeOK
    BY IndInvInit DEF IndInv
<1>2. ctl = "step" /\ pc \in DOMAIN prog \cup {0}
    BY MachineProgramsAssumption DEF Init
<1>3. GuestRegs = gp_regs /\ GuestPc = pc /\ GuestMode = "run"
    BY <1>2 DEF GuestRegs, GuestPc, GuestMode
<1> QED
    BY <1>1, <1>2, <1>3 DEF Hart!IsaInit, TypeOK

\* An instruction inside the loop of the interpreter is one of the hart.
LEMMA InterpOpMaps == IndInv /\ interp_op => Hart!IsaNext
<1> SUFFICES ASSUME IndInv, interp_op
             PROVE  Hart!IsaNext
    OBVIOUS
<1>1. /\ ctl = "interp" /\ ctl' = "interp" /\ prog' = prog /\ pc \in DOMAIN prog
      /\ pc' = NextPc(pc, prog[pc])
    BY DEF interp_op
<1>2. /\ GuestRegs = gp_regs /\ GuestPc = pc /\ GuestMode = "run"
      /\ GuestRegs' = gp_regs' /\ GuestPc' = pc' /\ GuestMode' = "run"
    BY <1>1 DEF GuestRegs, GuestPc, GuestMode
<1>3. /\ gp_regs \in [Regs -> 0 .. Word - 1] /\ gp_regs[0] = 0 /\ prog[pc].rd \in Regs
    BY <1>1, InsnFacts DEF IndInv, TypeOK
<1>4. \A v : Written(prog[pc].rd, v) = Hart!SetReg(prog[pc].rd, v)
    BY <1>2, <1>3, WrittenIsSetReg
<1>5. Hart!Exec(prog[pc])
    <2>1. CASE prog[pc].type = "op"
        BY <1>1, <1>2, <1>4, <2>1
           DEF interp_op, Hart!Exec, Hart!OpVal, AluVal, Hart!NextPc, NextPc
    <2>2. CASE prog[pc].type = "interp"
        BY <1>1, <1>2, <1>4, <2>2
           DEF interp_op, Hart!Exec, Hart!InterpVal, FallbackVal, Hart!NextPc, NextPc
    <2>3. CASE prog[pc].type = "branch"
        BY <1>1, <1>2, <2>3 DEF interp_op, Hart!Exec, Hart!NextPc, NextPc
    <2> QED
        BY <2>1, <2>2, <2>3 DEF interp_op
<1> QED
    BY <1>1, <1>2, <1>5, HartSteps

\* An instruction that ends the loop of the interpreter is one of the hart.
LEMMA InterpExitMaps == IndInv /\ interp_exit => Hart!IsaNext
<1> SUFFICES ASSUME IndInv, interp_exit
             PROVE  Hart!IsaNext
    OBVIOUS
<1>1. ctl = "interp" /\ ctl' = "ret" /\ prog' = prog /\ pc \in DOMAIN prog
    BY DEF interp_exit
<1>2. /\ GuestRegs = gp_regs /\ GuestPc = pc /\ GuestMode = "run"
      /\ GuestRegs' = gp_regs' /\ GuestPc' = reenter_pc'
      /\ GuestMode' = IF exit_reason' = "ecall" THEN "trap" ELSE "run"
    BY <1>1 DEF GuestRegs, GuestPc, GuestMode
<1>3. /\ gp_regs \in [Regs -> 0 .. Word - 1] /\ gp_regs[0] = 0 /\ prog[pc].rd \in Regs
      /\ prog[pc].type = "ecall" => pc + 4 = NextPc(pc, prog[pc])
    BY <1>1, InsnFacts DEF IndInv, TypeOK
<1>4. \A v : Written(prog[pc].rd, v) = Hart!SetReg(prog[pc].rd, v)
    BY <1>2, <1>3, WrittenIsSetReg
<1>5. Hart!Exec(prog[pc])
    <2>1. CASE prog[pc].type = "branch"
        BY <1>2, <2>1 DEF interp_exit, Hart!Exec
    <2>2. CASE prog[pc].type = "jal"
        BY <1>2, <1>4, <2>2 DEF interp_exit, Hart!Exec, Hart!NextPc, NextPc
    <2>3. CASE prog[pc].type = "jalr"
        BY <1>2, <1>4, <2>3
           DEF interp_exit, Hart!Exec, Hart!OpVal, AluVal, ClearBit0, Hart!NextPc, NextPc
    <2>4. CASE prog[pc].type = "ecall"
        BY <1>2, <1>3, <2>4 DEF interp_exit, Hart!Exec, Hart!NextPc, NextPc
    <2> QED
        BY <2>1, <2>2, <2>3, <2>4 DEF interp_exit
<1> QED
    BY <1>1, <1>2, <1>5, HartSteps

\* An instruction inside a compiled block is one of the hart.
LEMMA JitGotoMaps == IndInv /\ jit_goto => Hart!IsaNext
<1> SUFFICES ASSUME IndInv, jit_goto
             PROVE  Hart!IsaNext
    OBVIOUS
<1>1. ctl = "jit" /\ ctl' = "jit" /\ prog' = prog /\ gp_regs' = gp_regs
    BY DEF jit_goto, state
<1>2. /\ GuestPc = label /\ GuestMode = "run" /\ DOMAIN x \subseteq Regs \ {0}
      /\ \A r \in DOMAIN x \cup {0} : Get(r) = GuestRegs[r]
    BY <1>1, GuestInside
<1>3. /\ GuestPc' = label' /\ GuestMode' = "run"
      /\ GuestRegs' = [r \in Regs |-> IF r \in DOMAIN x' THEN x'[r] ELSE gp_regs[r]]
    BY <1>1 DEF GuestPc, GuestMode, GuestRegs
<1>4. label \in DOMAIN prog /\ Traces(prog[label]) \subseteq DOMAIN x
    BY <1>1, JitFacts
<1>5. \A rd \in DOMAIN x \cup {0} : \A v :
        x' = Put(rd, v) => GuestRegs' = Hart!SetReg(rd, v)
    BY <1>1, <1>3, PutIsSetReg
<1>6. Hart!Exec(prog[label])
    <2>1. CASE prog[label].type = "op"
        <3>1. {prog[label].rd, prog[label].rs1} \subseteq DOMAIN x \cup {0}
            BY <1>4, <2>1 DEF Traces
        <3>2. /\ x' = Put(prog[label].rd, AluVal(Get(prog[label].rs1), prog[label].imm))
              /\ label' = NextPc(label, prog[label])
            BY <2>1 DEF jit_goto
        <3>3. GuestRegs' = Hart!SetReg(prog[label].rd,
                                AluVal(GuestRegs[prog[label].rs1], prog[label].imm))
            BY <1>2, <1>5, <3>1, <3>2
        <3> QED
            BY <1>2, <1>3, <2>1, <3>2, <3>3
               DEF Hart!Exec, Hart!OpVal, AluVal, Hart!NextPc, NextPc
    <2>2. CASE prog[label].type = "branch"
        <3>1. {prog[label].rs1, prog[label].rs2} \subseteq DOMAIN x \cup {0}
            BY <1>4, <2>2 DEF Traces
        <3>2. /\ x' = x
              /\ label' = IF Get(prog[label].rs1) = Get(prog[label].rs2)
                          THEN prog[label].target ELSE NextPc(label, prog[label])
            BY <2>2 DEF jit_goto
        <3>3. GuestRegs' = GuestRegs
            BY <1>1, <1>3, <3>2 DEF GuestRegs
        <3> QED
            BY <1>2, <1>3, <2>2, <3>1, <3>2, <3>3 DEF Hart!Exec, Hart!NextPc, NextPc
    <2>3. CASE prog[label].type = "jal"
        <3>1. prog[label].rd \in DOMAIN x \cup {0}
            BY <1>4, <2>3 DEF Traces
        <3>2. /\ x' = Put(prog[label].rd, NextPc(label, prog[label]))
              /\ label' = prog[label].target
            BY <2>3 DEF jit_goto
        <3>3. GuestRegs' = Hart!SetReg(prog[label].rd, NextPc(label, prog[label]))
            BY <1>5, <3>1, <3>2
        <3> QED
            BY <1>2, <1>3, <2>3, <3>2, <3>3 DEF Hart!Exec, Hart!NextPc, NextPc
    <2> QED
        BY <2>1, <2>2, <2>3 DEF jit_goto
<1> QED
    BY <1>1, <1>2, <1>4, <1>6, HartSteps

\* A block ends with an instruction of the hart, or hands one to the interpreter.
LEMMA JitExitMaps == IndInv /\ jit_exit => Hart!IsaNext \/ UNCHANGED Hart!isaVars
<1> SUFFICES ASSUME IndInv, jit_exit
             PROVE  Hart!IsaNext \/ UNCHANGED Hart!isaVars
    OBVIOUS
<1>1. ctl = "jit" /\ ctl' = "ret" /\ prog' = prog /\ Epilogue(x')
    BY DEF jit_exit
<1>2. /\ GuestPc = label /\ GuestMode = "run" /\ DOMAIN x \subseteq Regs \ {0}
      /\ \A r \in DOMAIN x \cup {0} : Get(r) = GuestRegs[r]
    BY <1>1, GuestInside
<1>3. /\ GuestPc' = reenter_pc'
      /\ GuestMode' = IF exit_reason' = "ecall" THEN "trap" ELSE "run"
      /\ GuestRegs' = [r \in Regs |-> IF r \in DOMAIN x' THEN x'[r] ELSE gp_regs[r]]
    BY <1>1 DEF GuestPc, GuestMode, GuestRegs, Epilogue
<1>4. label \in DOMAIN prog /\ Traces(prog[label]) \subseteq DOMAIN x /\ prog \in Programs
    BY <1>1, JitFacts
<1>5. x' = x => GuestRegs' = GuestRegs
    BY <1>1, <1>3 DEF GuestRegs
<1>6. CASE prog[label].type = "jalr"
    <2>1. {prog[label].rd, prog[label].rs1} \subseteq DOMAIN x \cup {0}
        BY <1>4, <1>6 DEF Traces
    <2>2. /\ x' = Put(prog[label].rd, NextPc(label, prog[label]))
          /\ reenter_pc' = ClearBit0(AluVal(Get(prog[label].rs1), prog[label].imm))
          /\ exit_reason' = "indirect_branch"
        BY <1>6 DEF jit_exit
    <2>3. GuestRegs' = Hart!SetReg(prog[label].rd, NextPc(label, prog[label]))
        <3>1. \A rd \in DOMAIN x \cup {0} : \A v :
                x' = Put(rd, v) => GuestRegs' = Hart!SetReg(rd, v)
            BY <1>1, <1>3, PutIsSetReg
        <3> QED
            BY <2>1, <2>2, <3>1
    <2>4. Hart!Exec(prog[label])
        BY <1>2, <1>3, <1>6, <2>1, <2>2, <2>3
           DEF Hart!Exec, Hart!OpVal, AluVal, ClearBit0, Hart!NextPc, NextPc
    <2> QED
        BY <1>1, <1>2, <1>4, <2>4, HartSteps
<1>7. CASE prog[label].type = "ecall"
    <2>1. label + 4 = NextPc(label, prog[label])
        BY <1>4, <1>7, InsnFacts
    <2>2. x' = x /\ reenter_pc' = label + 4 /\ exit_reason' = "ecall"
        BY <1>7 DEF jit_exit
    <2>3. Hart!Exec(prog[label])
        BY <1>2, <1>3, <1>5, <1>7, <2>1, <2>2 DEF Hart!Exec, Hart!NextPc, NextPc
    <2> QED
        BY <1>1, <1>2, <1>4, <2>3, HartSteps
<1>8. CASE prog[label].type = "interp"
    <2>1. x' = x /\ reenter_pc' = label /\ exit_reason' = "interp"
        BY <1>8 DEF jit_exit
    <2> QED
        BY <1>1, <1>2, <1>3, <1>5, <2>1 DEF Hart!isaVars
<1> QED
    BY <1>6, <1>7, <1>8 DEF jit_exit

\* Dispatching, translating, entering and leaving blocks are invisible.
LEMMA DispatchIsInvisible ==
    IndInv /\ (step_lookup \/ step_hot \/ step_genblock \/ step_compile \/ compile_waits
               \/ cache_dies \/ call \/ interp_fatal
               \/ ret_branch \/ ret_interp \/ ret_ecall)
        => UNCHANGED Hart!isaVars
<1> SUFFICES ASSUME IndInv,
                    step_lookup \/ step_hot \/ step_genblock \/ step_compile
                    \/ compile_waits \/ cache_dies \/ call
                    \/ interp_fatal \/ ret_branch \/ ret_interp \/ ret_ecall
             PROVE  UNCHANGED Hart!isaVars
    OBVIOUS
<1>1. CASE step_lookup \/ step_hot \/ step_genblock \/ step_compile \/ compile_waits
           \/ cache_dies \/ interp_fatal
    <2>1. /\ prog' = prog /\ gp_regs' = gp_regs /\ pc' = pc
          /\ ctl \in {"step", "miss", "genblock", "compile", "interp"}
          /\ ctl' \in {"miss", "genblock", "compile", "call"} \cup Stopped \cup Stuck
          /\ ctl' # "exit"
        BY <1>1, LookupAnswers
           DEF step_lookup, step_hot, step_genblock, step_compile, compile_waits,
               cache_dies, interp_fatal, state, Stopped, Stuck
    <2> QED
        BY <2>1 DEF Hart!isaVars, GuestRegs, GuestPc, GuestMode, Stopped, Stuck
<1>2. CASE call
    <2>1. ctl = "call" /\ prog' = prog /\ gp_regs' = gp_regs /\ pc' = pc
        BY <1>2 DEF call
    <2>2. GuestRegs = gp_regs /\ GuestPc = pc /\ GuestMode = "run"
        BY <2>1 DEF GuestRegs, GuestPc, GuestMode
    <2>3. CASE code = exec_block_interp
        <3>1. ctl' = "interp"
            BY <1>2, <2>3 DEF call
        <3> QED
            BY <2>1, <2>2, <3>1 DEF Hart!isaVars, GuestRegs, GuestPc, GuestMode
    <2>4. CASE code # exec_block_interp
        <3>1. ctl' = "jit" /\ label' = code /\ x' = [r \in Traced(code) |-> gp_regs[r]]
            BY <1>2, <2>4 DEF call
        <3>2. code = pc
            BY <2>1, <2>4, CalledCode
        <3>3. GuestPc' = pc /\ GuestMode' = "run"
            BY <3>1, <3>2 DEF GuestPc, GuestMode
        <3>4. GuestRegs' = [r \in Regs |-> IF r \in DOMAIN x' THEN x'[r] ELSE gp_regs[r]]
            BY <2>1, <3>1 DEF GuestRegs
        <3>5. \A r \in Regs : (IF r \in DOMAIN x' THEN x'[r] ELSE gp_regs[r]) = gp_regs[r]
            BY <3>1
        <3>6. GuestRegs' = gp_regs
            BY <3>4, <3>5 DEF IndInv, TypeOK
        <3> QED
            BY <2>1, <2>2, <3>3, <3>6 DEF Hart!isaVars
    <2> QED
        BY <2>3, <2>4
<1>3. CASE ret_branch \/ ret_interp
    <2>1. /\ prog' = prog /\ gp_regs' = gp_regs /\ pc' = reenter_pc
          /\ ctl = "ret" /\ exit_reason # "ecall"
          /\ ctl' \in {"assert", "call", "step", "spin"}
        BY <1>3, LookupAnswers DEF ret_branch, ret_interp
    <2> QED
        BY <2>1 DEF Hart!isaVars, GuestRegs, GuestPc, GuestMode
<1>4. CASE ret_ecall
    <2>1. /\ prog' = prog /\ gp_regs' = gp_regs /\ pc' = reenter_pc
          /\ ctl = "ret" /\ exit_reason = "ecall" /\ ctl' = "main"
        BY <1>4 DEF ret_ecall
    <2> QED
        BY <2>1 DEF Hart!isaVars, GuestRegs, GuestPc, GuestMode
<1> QED
    BY <1>1, <1>2, <1>3, <1>4

\* A return to address 0 and the end of a system call are the hart's own.
LEMMA HaltMaps == step_halt => Hart!IsaNext
<1> SUFFICES ASSUME step_halt
             PROVE  Hart!IsaNext
    OBVIOUS
<1>1. ctl = "step" /\ pc = 0 /\ ctl' = "exit" /\ prog' = prog /\ gp_regs' = gp_regs /\ pc' = pc
    BY DEF step_halt, state
<1> QED
    BY <1>1 DEF Hart!IsaNext, Hart!Halt, GuestRegs, GuestPc, GuestMode

\* An answered ecall is the answer of the environment.
LEMMA SyscallMaps == syscall => Hart!IsaNext
<1> SUFFICES ASSUME syscall
             PROVE  Hart!IsaNext
    OBVIOUS
<1>1. /\ ctl = "main" /\ prog' = prog /\ pc' = pc
      /\ \/ \E v \in Results : gp_regs' = [gp_regs EXCEPT ![a0] = v] /\ ctl' = "step"
         \/ ctl' = "exit" /\ gp_regs' = gp_regs
    BY DEF syscall
<1>2. /\ GuestRegs = gp_regs /\ GuestPc = pc /\ GuestMode = "trap"
      /\ GuestRegs' = gp_regs' /\ GuestPc' = pc
      /\ GuestMode' = IF ctl' = "exit" THEN "halt" ELSE "run"
    BY <1>1 DEF GuestRegs, GuestPc, GuestMode
<1> QED
    BY <1>1, <1>2 DEF Hart!IsaNext, Hart!Sysret

\* Every step of the emulator is a step of the hart or invisible.
LEMMA StepMaps == IndInv /\ [Next]_vars => [Hart!IsaNext]_Hart!isaVars
<1>1. UNCHANGED vars => UNCHANGED Hart!isaVars
    BY DEF vars, Hart!isaVars, GuestRegs, GuestPc, GuestMode
<1> QED
    BY <1>1, InterpOpMaps, InterpExitMaps, JitGotoMaps, JitExitMaps, DispatchIsInvisible,
       HaltMaps, SyscallMaps DEF Next

\* The emulator is a RISC-V hart: whichever blocks are interpreted and whichever
\* compiled, and whenever the change happens, the guest's registers and pc go
\* through the states of one instruction after another.
THEOREM EmulatorImplementsIsa == Spec => ImplementsIsa
    BY InitMaps, StepMaps, InductiveInvariant, PTL DEF Spec, ImplementsIsa, Hart!IsaSpec
=============================================================================
