--------------------------- MODULE SyscallProofs ---------------------------
(***************************************************************************)
(* The emulator's system calls implement Posix, for every number of        *)
(* descriptors, every set of files and every sequence of calls, with       *)
(* compilations at any time in between.                                    *)
(***************************************************************************)
EXTENDS Syscall, FiniteSetTheorems, WellFoundedInduction, TLAPS

-----------------------------------------------------------------------------
(***************************************************************************)
(* Conversions of arguments.                                               *)
(***************************************************************************)
\* convert_flags recovers what the guest put into the register.
LEMMA FlagsArrive ==
    ASSUME NEW flags \in SUBSET DOMAIN NEWLIB_O
    PROVE  convert_flags(FlagBits(flags)) = flags
<1>1. PICK a \in {0, 1} : a = IF "O_WRONLY" \in flags THEN 1 ELSE 0
    OBVIOUS
<1>2. PICK b \in {0, 1} : b = IF "O_RDWR" \in flags THEN 1 ELSE 0
    OBVIOUS
<1>3. PICK c \in {0, 1} : c = IF "O_APPEND" \in flags THEN 1 ELSE 0
    OBVIOUS
<1>4. PICK d \in {0, 1} : d = IF "O_CREAT" \in flags THEN 1 ELSE 0
    OBVIOUS
<1>5. PICK e \in {0, 1} : e = IF "O_TRUNC" \in flags THEN 1 ELSE 0
    OBVIOUS
<1>6. PICK x \in {0, 1} : x = IF "O_EXCL" \in flags THEN 1 ELSE 0
    OBVIOUS
<1>7. PICK v \in Nat : v = a + 2 * b + 8 * c + 512 * d + 1024 * e + 2048 * x
    OBVIOUS
<1>8. FlagBits(flags) = v
    BY <1>1, <1>2, <1>3, <1>4, <1>5, <1>6, <1>7 DEF FlagBits, NEWLIB_O
<1>9. /\ v % 2 = a
      /\ (v \div 2) % 2 = b
      /\ (v \div 8) % 2 = c
      /\ (v \div 512) % 2 = d
      /\ (v \div 1024) % 2 = e
      /\ (v \div 2048) % 2 = x
    BY <1>7
<1>10. /\ HasFlag(v, 1) <=> "O_WRONLY" \in flags
       /\ HasFlag(v, 2) <=> "O_RDWR" \in flags
       /\ HasFlag(v, 8) <=> "O_APPEND" \in flags
       /\ HasFlag(v, 512) <=> "O_CREAT" \in flags
       /\ HasFlag(v, 1024) <=> "O_TRUNC" \in flags
       /\ HasFlag(v, 2048) <=> "O_EXCL" \in flags
    BY <1>1, <1>2, <1>3, <1>4, <1>5, <1>6, <1>9 DEF HasFlag
<1>11. DOMAIN NEWLIB_O = {"O_WRONLY", "O_RDWR", "O_APPEND", "O_CREAT", "O_TRUNC", "O_EXCL"}
    BY DEF NEWLIB_O
<1>12. ASSUME NEW f \in DOMAIN NEWLIB_O
       PROVE  HasFlag(v, NEWLIB_O[f]) <=> f \in flags
    BY <1>10, <1>11, <1>12 DEF NEWLIB_O
<1> QED
    BY <1>8, <1>12 DEF convert_flags

\* An int is the same number on both sides.
LEMMA IntsArrive ==
    ASSUME NEW req, req.fd \in Nat
    PROVE  ToInt(req.fd) = P!FdOf(req) /\ ToInt(req.fd) \in Int
<1>1. PICK low \in Int : low = req.fd % IntWord
    BY WordAssumption
<1>2. PICK half \in Int : half = IntWord \div 2
    BY WordAssumption
<1>3. IntWord \in Int
    BY WordAssumption
<1> QED
    BY <1>1, <1>2, <1>3 DEF ToInt, P!FdOf

-----------------------------------------------------------------------------
(***************************************************************************)
(* The tables.                                                             *)
(***************************************************************************)
\* A number of the first table has the handler that lists it.
LEMMA FirstTable ==
    ASSUME NEW m \in 0 .. 291, m \notin Unimplemented,
           NEW f \in DOMAIN Implemented, m \in Implemented[f]
    PROVE  Lookup(m) = f
<1>1. \A g \in DOMAIN Implemented : m \in Implemented[g] => g = f
    BY DEF Implemented
<1>2. syscall_table(m) = f
    BY <1>1 DEF syscall_table
<1> QED
    BY <1>2 DEF Lookup, ArraySize

\* The two tables have every handler under its number.
LEMMA Handlers ==
    /\ Lookup(1024) = "open" /\ Lookup(56) = "openat" /\ Lookup(57) = "close"
    /\ Lookup(63) = "read" /\ Lookup(64) = "write" /\ Lookup(62) = "lseek"
    /\ Lookup(80) = "fstat" /\ Lookup(169) = "gettimeofday" /\ Lookup(214) = "brk"
    /\ Lookup(93) = "exit" /\ Lookup(94) = "exit"
<1>1. Lookup(1024) = "open"
    <2>1. (1024 - 1024) % Word = 0
        BY WordAssumption
    <2> QED
        BY <2>1 DEF Lookup, ArraySize, OldArraySize, OLD_SYSCALL_THRESHOLD, old_syscall_table
<1>2. DOMAIN Implemented = {"exit", "read", "write", "openat", "close", "fstat", "lseek", "brk",
                            "gettimeofday"}
    BY DEF Implemented
<1>3. /\ 56 \in Implemented["openat"]
      /\ 57 \in Implemented["close"]
      /\ 63 \in Implemented["read"]
      /\ 64 \in Implemented["write"]
      /\ 62 \in Implemented["lseek"]
      /\ 80 \in Implemented["fstat"]
      /\ 169 \in Implemented["gettimeofday"]
      /\ 214 \in Implemented["brk"]
      /\ 93 \in Implemented["exit"]
      /\ 94 \in Implemented["exit"]
    BY DEF Implemented
<1>4. {56, 57, 63, 64, 62, 80, 169, 214, 93, 94} \cap Unimplemented = {}
    BY DEF Unimplemented
<1>5. Lookup(56) = "openat"
    BY <1>2, <1>3, <1>4, FirstTable
<1>6. Lookup(57) = "close"
    BY <1>2, <1>3, <1>4, FirstTable
<1>7. Lookup(63) = "read"
    BY <1>2, <1>3, <1>4, FirstTable
<1>8. Lookup(64) = "write"
    BY <1>2, <1>3, <1>4, FirstTable
<1>9. Lookup(62) = "lseek"
    BY <1>2, <1>3, <1>4, FirstTable
<1>10. Lookup(80) = "fstat"
    BY <1>2, <1>3, <1>4, FirstTable
<1>11. Lookup(169) = "gettimeofday"
    BY <1>2, <1>3, <1>4, FirstTable
<1>12. Lookup(214) = "brk"
    BY <1>2, <1>3, <1>4, FirstTable
<1>13. Lookup(93) = "exit"
    BY <1>2, <1>3, <1>4, FirstTable
<1>14. Lookup(94) = "exit"
    BY <1>2, <1>3, <1>4, FirstTable
<1> QED
    BY <1>1, <1>5, <1>6, <1>7, <1>8, <1>9, <1>10, <1>11, <1>12, <1>13, <1>14

\* Every other number, up to the largest, ends the emulator: there is no entry
\* that is reached by accident, not by the wrap-around either.
LEMMA NoHandler ==
    ASSUME NEW m \in 0 .. Word - 1, \A c \in DOMAIN Number : m # Number[c]
    PROVE  Lookup(m) \in {"unimplemented", "NULL"}
<1>1. m \notin {1024, 56, 57, 63, 64, 62, 80, 169, 214, 93, 94}
    BY DEF Number
<1>2. CASE m < 292
    <2>1. \A f \in DOMAIN Implemented : m \notin Implemented[f]
        BY <1>1 DEF Implemented
    <2> QED
        BY <1>2, <2>1 DEF Lookup, ArraySize, syscall_table
<1>3. CASE m >= 292
    <2>1. PICK k \in Nat : k = (m - 1024) % Word
        BY WordAssumption
    <2>2. k # 0
        <3>1. CASE m < 1024
            BY <2>1, <3>1, WordAssumption
        <3>2. CASE m > 1024
            BY <2>1, <3>2, WordAssumption
        <3> QED
            BY <1>1, <3>1, <3>2
    <2>3. old_syscall_table(k) \in {"unimplemented", "NULL"}
        BY <2>2 DEF old_syscall_table
    <2> QED
        BY <1>3, <2>1, <2>3 DEF Lookup, ArraySize, OLD_SYSCALL_THRESHOLD
<1> QED
    BY <1>2, <1>3

\* The registers of each call.
LEMMA RegistersOf ==
    ASSUME NEW req
    PROVE  /\ req.call = "open" =>
                Registers(req) = [a7 |-> 1024, a0 |-> req.name, a1 |-> FlagBits(req.flags)]
           /\ req.call = "openat" =>
                Registers(req) = [a7 |-> 56, a0 |-> Word - 100, a1 |-> req.name,
                                  a2 |-> FlagBits(req.flags)]
           /\ req.call = "other" => Registers(req) = [a7 |-> req.number]
           /\ req.call \notin {"open", "openat", "other"} =>
                Registers(req) = [a7 |-> Number[req.call], a0 |-> req.fd]
BY DEF Registers

-----------------------------------------------------------------------------
(***************************************************************************)
(* The inductive invariant.                                                *)
(***************************************************************************)
Entry == [file : Names \cup {"none", "tty", "pipe", "elf"},
          flags : SUBSET {"O_WRONLY", "O_RDWR", "O_APPEND"}]

\* The numbers that are not the standard streams'.
Others == 3 .. MaxFd

\* Outside machine_compile, the emulator holds nothing and the streams are in
\* their places but for those closed through a wide register.
Quiet == saved_stdout = -1 /\ outp = <<-1, -1>> /\ pipe_to_clang = -1
Streams == \A fd \in (0 .. 2) \ astray : fds[fd] = P!Terminal

\* Inside, standard output is set aside in a descriptor that is neither a
\* stream nor the pipe's.
SetAside ==
    /\ saved_stdout \in Others /\ outp \in Others \X (Others \cup {-1})
    /\ saved_stdout # outp[1]
    /\ fds[0] = P!Terminal /\ fds[2] = P!Terminal /\ fds[saved_stdout] = P!Terminal
    /\ fds[outp[1]] = Reader

IndInv ==
    /\ fds \in [Fds -> Entry]
    /\ ctl \in {"load", "run", "dup2", "popen", "pclose", "read", "exit", "fatal"}
    /\ ctl = "load" => last = P!NoRequest
    /\ ctl \notin {"run", "exit", "fatal"} => astray = {}
    /\ brk \in Nat
    /\ ctl \in {"load", "run", "exit"} => Quiet /\ Streams
    /\ ctl \in {"dup2", "popen", "pclose", "read"} => SetAside
    /\ ctl = "dup2" => /\ outp[2] \in Others \ {saved_stdout, outp[1]}
                       /\ fds[outp[2]] = Writer /\ pipe_to_clang = -1
    /\ ctl \in {"popen", "pclose", "read"} => outp[2] = -1 /\ fds[1] = Writer
    /\ ctl \in {"popen", "read"} => pipe_to_clang = -1
    /\ ctl = "pclose" => pipe_to_clang \in Others \ {saved_stdout, outp[1]}

-----------------------------------------------------------------------------
(***************************************************************************)
(* Free descriptors.                                                       *)
(***************************************************************************)
LEMMA Entries ==
    P!Terminal \in Entry /\ P!Closed \in Entry /\ Reader \in Entry /\ Writer \in Entry
BY DEF Entry, P!Terminal, P!Closed, Reader, Writer

\* Open descriptors are not closed ones.
LEMMA Distinct ==
    P!Terminal # P!Closed /\ Reader # P!Closed /\ Writer # P!Closed
BY DEF P!Terminal, P!Closed, Reader, Writer

\* Both modules count alike.
LEMMA SameCardinality == \A S : P!Cardinality(S) = Cardinality(S)
BY DEF Cardinality, P!Cardinality

\* open, dup and pipe get a free descriptor if there is one.
LEMMA LowestIsFree ==
    ASSUME NEW S \in SUBSET Fds, S # {}
    PROVE  P!Lowest(S) \in S
<1>1. PICK R : R = OpToRel(<, Nat)
    OBVIOUS
<1>2. IsWellFoundedOn(R, Nat)
    BY <1>1, NatLessThanWellFounded
<1>3. S \in SUBSET Nat
    BY DEF Fds
<1>4. PICK m \in S : \A k \in S : ~(<<k, m>> \in R)
    BY <1>2, <1>3, WFMin
<1>5. \A k \in Nat, j \in Nat : k < j => <<k, j>> \in R
    BY <1>1 DEF OpToRel
<1>6. ASSUME NEW k \in S
      PROVE  m <= k
    <2>1. m \in Nat /\ k \in Nat /\ ~(k < m)
        BY <1>3, <1>4, <1>5
    <2> QED
        BY <2>1
<1> QED
    BY <1>6 DEF P!Lowest

\* With three free descriptors, three can be taken; with two, two.
LEMMA TakeThree ==
    ASSUME NEW S \in SUBSET Fds
    PROVE  /\ IsFiniteSet(S) /\ Cardinality(S) \in Nat
           /\ Cardinality(S) >= 2 => /\ P!Lowest(S) \in S
                                     /\ P!Lowest(S \ {P!Lowest(S)}) \in S \ {P!Lowest(S)}
           /\ Cardinality(S) >= 3 =>
                LET s == P!Lowest(S)
                    r == P!Lowest(S \ {s})
                IN  P!Lowest(S \ {s, r}) \in S \ {s, r}
<1>1. IsFiniteSet(Fds)
    BY FS_Interval, WordAssumption DEF Fds
<1>2. IsFiniteSet(S) /\ Cardinality(S) \in Nat
    BY <1>1, FS_Subset, FS_CardinalityType
<1>3. ASSUME Cardinality(S) >= 2
      PROVE  /\ P!Lowest(S) \in S
             /\ P!Lowest(S \ {P!Lowest(S)}) \in S \ {P!Lowest(S)}
             /\ IsFiniteSet(S \ {P!Lowest(S)})
             /\ Cardinality(S \ {P!Lowest(S)}) = Cardinality(S) - 1
    <2>1. S # {}
        BY <1>2, <1>3, FS_EmptySet
    <2>2. PICK s \in S : s = P!Lowest(S)
        BY <2>1, LowestIsFree
    <2>3. IsFiniteSet(S \ {s}) /\ Cardinality(S \ {s}) = Cardinality(S) - 1
        BY <1>2, <2>2, FS_RemoveElement
    <2>4. S \ {s} # {}
        BY <1>2, <1>3, <2>3, FS_EmptySet
    <2>5. P!Lowest(S \ {s}) \in S \ {s}
        BY <2>4, LowestIsFree
    <2> QED
        BY <2>2, <2>3, <2>5
<1>4. ASSUME Cardinality(S) >= 3,
             NEW s, s = P!Lowest(S), NEW r, r = P!Lowest(S \ {s})
      PROVE  P!Lowest(S \ {s, r}) \in S \ {s, r}
    <2>1. /\ r \in S \ {s} /\ IsFiniteSet(S \ {s})
          /\ Cardinality(S \ {s}) = Cardinality(S) - 1
        BY <1>2, <1>3, <1>4
    <2>2. PICK T : T = S \ {s}
        OBVIOUS
    <2>3. IsFiniteSet(T) /\ r \in T /\ Cardinality(T) = Cardinality(S) - 1
        BY <2>1, <2>2
    <2>4. Cardinality(T \ {r}) = Cardinality(T) - 1
        BY <2>3, FS_RemoveElement
    <2>5. Cardinality(T \ {r}) # 0
        BY <1>2, <1>4, <2>3, <2>4
    <2>6. T \ {r} # {}
        BY <2>5, FS_EmptySet
    <2>7. T \ {r} = S \ {s, r}
        BY <2>2
    <2> QED
        BY <2>6, <2>7, LowestIsFree
<1> QED
    BY <1>2, <1>3, <1>4

-----------------------------------------------------------------------------
(***************************************************************************)
(* What the guest sees.                                                    *)
(***************************************************************************)
\* Outside machine_compile it sees the host's table.
LEMMA QuietTable == Quiet /\ fds \in [Fds -> Entry] => GuestTable = fds
<1> SUFFICES ASSUME Quiet, fds \in [Fds -> Entry]
             PROVE  GuestTable = fds
    OBVIOUS
<1>1. \A fd \in Fds : fd \notin Held
    BY DEF Fds, Held, Quiet
<1>2. GuestTable = [fd \in Fds |-> fds[fd]]
    BY <1>1 DEF GuestTable, Quiet
<1> QED
    BY <1>2

\* The same after a step.
LEMMA QuietTableNext == (Quiet /\ fds \in [Fds -> Entry] => GuestTable = fds)'
BY QuietTable, PTL

\* The process starts with its standard streams.
LEMMA InvInit == Init => IndInv /\ P!Init
<1> SUFFICES ASSUME Init
             PROVE  IndInv /\ P!Init
    OBVIOUS
<1>1. fds = [fd \in Fds |-> IF fd \in 0 .. 2 THEN P!Terminal ELSE P!Closed]
    BY DEF Init
<1>2. fds \in [Fds -> Entry]
    BY <1>1, Entries
<1>3. 0 \in Fds /\ 1 \in Fds /\ 2 \in Fds
    BY WordAssumption DEF Fds
<1>4. Quiet /\ Streams
    BY <1>1, <1>3 DEF Init, Quiet, Streams
<1>5. IndInv
    BY <1>2, <1>4, WordAssumption DEF Init, IndInv
<1>6. GuestTable = fds
    BY <1>2, <1>4, QuietTable
<1>7. Status = "running"
    BY DEF Init, Status
<1>8. P!Init
    BY <1>1, <1>6, <1>7 DEF Init, P!Init, P!Terminal, P!Closed, P!NoRequest
<1> QED
    BY <1>5, <1>8

\* A descriptor that is opened and closed again leaves the table as it was.
LEMMA LoadStep ==
    ASSUME IndInv, machine_load_program
    PROVE  IndInv' /\ (UNCHANGED P!vars \/ P!Unloadable)
<1>1. /\ ctl = "load" /\ Quiet /\ Streams /\ last = P!NoRequest /\ fds \in [Fds -> Entry]
      /\ UNCHANGED <<files, buf, brk, astray, saved_stdout, outp, pipe_to_clang, last, ret>>
    BY DEF IndInv, machine_load_program, held
<1>2. fds' = fds
    <2>1. CASE ctl' = "fatal" /\ UNCHANGED fds
        BY <2>1
    <2>2. CASE P!Free(fds) # {} /\ fds' = Close(Put(fds, P!Lowest(P!Free(fds)),
                                       [file |-> "elf", flags |-> {}]), P!Lowest(P!Free(fds)))
        <3>1. P!Free(fds) \in SUBSET Fds
            BY <1>1 DEF P!Free
        <3>2. PICK q : q = P!Lowest(P!Free(fds))
            OBVIOUS
        <3>3. q \in P!Free(fds)
            BY <2>2, <3>1, <3>2, LowestIsFree
        <3>4. q \in Fds /\ fds[q] = P!Closed
            BY <1>1, <3>3 DEF P!Free
        <3>5. fds' = [fds EXCEPT ![q] = P!Closed]
            BY <1>1, <2>2, <3>2, <3>4 DEF Close, Put
        <3> QED
            BY <1>1, <3>4, <3>5
    <2> QED
        BY <2>1, <2>2 DEF machine_load_program
<1>3. GuestTable' = GuestTable
    BY <1>1, <1>2 DEF GuestTable, Held
<1>4. ctl' = "run" \/ ctl' = "fatal"
    BY DEF machine_load_program
<1>5. IndInv'
    BY <1>1, <1>2, <1>4 DEF IndInv, Quiet, Streams
<1>6. CASE ctl' = "run"
    BY <1>1, <1>3, <1>5, <1>6 DEF P!vars, Status
<1>7. CASE ctl' = "fatal"
    BY <1>1, <1>3, <1>5, <1>7 DEF P!Unloadable, Status, P!NoRequest
<1> QED
    BY <1>4, <1>5, <1>6, <1>7

-----------------------------------------------------------------------------
(***************************************************************************)
(* machine_compile: the guest sees nothing of it.                          *)
(***************************************************************************)
\* dup and pipe take free descriptors, none of them a stream's.
LEMMA FreeIsOther ==
    ASSUME fds \in [Fds -> Entry], Streams, astray = {}, NEW q \in P!Free(fds)
    PROVE  q \in Others /\ q \in Fds /\ fds[q] = P!Closed
<1>1. q \in Fds /\ fds[q] = P!Closed
    BY DEF P!Free
<1>2. q # 0 /\ q # 1 /\ q # 2
    BY <1>1, Distinct DEF Streams
<1> QED
    BY <1>1, <1>2, WordAssumption DEF Fds, Others

\* The pipe takes two free numbers, or the process ends.
LEMMA MakePipeStep ==
    ASSUME IndInv, make_pipe
    PROVE  IndInv' /\ (UNCHANGED P!vars \/ P!OutOfDescriptors)
<1>1. /\ ctl = "run" /\ Quiet /\ Streams /\ fds \in [Fds -> Entry] /\ astray = {} /\ brk \in Nat
      /\ fds[0] = P!Terminal /\ fds[1] = P!Terminal /\ fds[2] = P!Terminal
      /\ UNCHANGED <<files, buf, brk, astray, pipe_to_clang, last, ret>>
    BY DEF IndInv, make_pipe, Streams
<1>2. P!Free(fds) \in SUBSET Fds
    BY <1>1 DEF P!Free
<1>3. PICK free \in SUBSET Fds : free = P!Free(fds)
    BY <1>2
<1>4. Cardinality(free) \in Nat
    BY TakeThree
<1>5. CASE Cardinality(free) < 3
    <2>1. ctl' = "fatal" /\ UNCHANGED <<fds, saved_stdout, outp>>
        BY <1>3, <1>5 DEF make_pipe
    <2>2. GuestTable' = GuestTable
        BY <1>1, <2>1 DEF GuestTable, Held
    <2>3. GuestTable = fds
        BY <1>1, QuietTable
    <2>4. Cardinality(P!Free(GuestTable)) < 4
        BY <1>3, <1>4, <1>5, <2>3
    <2>5. P!OutOfDescriptors
        <3>1. Status = "running" /\ Status' = "killed"
            BY <1>1, <2>1 DEF Status
        <3> QED
            BY <1>1, <2>2, <2>4, <3>1, SameCardinality DEF P!OutOfDescriptors
    <2>6. IndInv'
        BY <1>1, <2>1 DEF IndInv
    <2> QED
        BY <2>5, <2>6
<1>6. CASE ~(Cardinality(free) < 3)
    <2>1. PICK s : s = P!Lowest(free)
        OBVIOUS
    <2>2. PICK r : r = P!Lowest(free \ {s})
        OBVIOUS
    <2>3. PICK w : w = P!Lowest(free \ {s, r})
        OBVIOUS
    <2>4. s \in free /\ r \in free \ {s} /\ w \in free \ {s, r}
        BY <1>4, <1>6, <2>1, <2>2, <2>3, TakeThree
    <2>5. /\ s \in Others /\ s \in Fds /\ fds[s] = P!Closed
          /\ r \in Others /\ r \in Fds /\ fds[r] = P!Closed
          /\ w \in Others /\ w \in Fds /\ fds[w] = P!Closed
          /\ s # r /\ s # w /\ r # w
        BY <1>1, <1>3, <2>4, FreeIsOther
    <2>6. /\ saved_stdout' = s /\ outp' = <<r, w>> /\ ctl' = "dup2"
          /\ fds' = Put(Put(Put(fds, s, fds[1]), r, Reader), w, Writer)
        BY <1>3, <1>6, <2>1, <2>2, <2>3 DEF make_pipe
    <2>7. fds' = [[[fds EXCEPT ![s] = P!Terminal] EXCEPT ![r] = Reader] EXCEPT ![w] = Writer]
        BY <1>1, <2>6 DEF Put, Streams
    <2>8. /\ fds' \in [Fds -> Entry]
          /\ fds'[s] = P!Terminal /\ fds'[r] = Reader /\ fds'[w] = Writer
          /\ \A fd \in Fds \ {s, r, w} : fds'[fd] = fds[fd]
        BY <1>1, <2>5, <2>7, Entries
    <2>9. 0 \in Fds \ {s, r, w} /\ 2 \in Fds \ {s, r, w} /\ 1 \in Fds \ {s, r, w}
        BY <2>5, WordAssumption DEF Others, Fds
    <2>10. SetAside'
        BY <1>1, <2>5, <2>6, <2>8, <2>9 DEF SetAside, Streams
    <2>11. IndInv'
        BY <1>1, <2>5, <2>6, <2>8, <2>10 DEF IndInv, Quiet
    <2>12. ASSUME NEW fd \in Fds
           PROVE  GuestTable'[fd] = fds[fd]
        <3>1. Held' = {s, r, w, -1}
            BY <1>1, <2>6 DEF Held, Quiet
        <3>2. s # -1 /\ fd # -1
            BY <2>5, WordAssumption DEF Others, Fds
        <3>3. GuestTable'[fd] = IF fd = 1 THEN fds'[s]
                                ELSE IF fd \in {s, r, w} THEN P!Closed ELSE fds'[fd]
            BY <2>6, <3>1, <3>2 DEF GuestTable, P!Closed
        <3> QED
            BY <1>1, <2>5, <2>8, <2>9, <3>3 DEF Streams
    <2>13. GuestTable = fds
        BY <1>1, QuietTable
    <2>14. GuestTable' = [fd \in Fds |-> GuestTable'[fd]]
        BY DEF GuestTable
    <2>15. GuestTable' = GuestTable
        BY <1>1, <2>12, <2>13, <2>14
    <2>16. UNCHANGED P!vars
        BY <1>1, <2>6, <2>15 DEF P!vars, Status
    <2> QED
        BY <2>11, <2>16
<1> QED
    BY <1>5, <1>6

\* What SetAside says of the three numbers.
LEMMA AsideTypes ==
    ASSUME SetAside
    PROVE  /\ saved_stdout \in Others /\ outp[1] \in Others /\ saved_stdout # outp[1]
           /\ saved_stdout \in Fds /\ outp[1] \in Fds
           /\ outp = <<outp[1], outp[2]>>
BY WordAssumption DEF SetAside, Others, Fds

\* The guest's table while standard output is set aside.
LEMMA AsideTable ==
    SetAside =>
      GuestTable = [fd \in Fds |->
         IF fd = 1 THEN P!Terminal
         ELSE IF fd \in {saved_stdout, outp[1], outp[2], pipe_to_clang} THEN P!Closed
         ELSE fds[fd]]
<1> SUFFICES ASSUME SetAside
             PROVE  GuestTable = [fd \in Fds |->
                       IF fd = 1 THEN P!Terminal
                       ELSE IF fd \in {saved_stdout, outp[1], outp[2], pipe_to_clang} THEN P!Closed
                       ELSE fds[fd]]
    OBVIOUS
<1>1. saved_stdout # -1 /\ fds[saved_stdout] = P!Terminal
    BY DEF SetAside, Others
<1> QED
    BY <1>1 DEF GuestTable, Held, P!Closed

\* The same after a step.
LEMMA AsideTableNext ==
    SetAside' =>
      GuestTable' = [fd \in Fds |->
         IF fd = 1 THEN P!Terminal
         ELSE IF fd \in {saved_stdout', outp'[1], outp'[2], pipe_to_clang'} THEN P!Closed
         ELSE fds'[fd]]
<1>1. (SetAside =>
         GuestTable = [fd \in Fds |->
            IF fd = 1 THEN P!Terminal
            ELSE IF fd \in {saved_stdout, outp[1], outp[2], pipe_to_clang} THEN P!Closed
            ELSE fds[fd]])'
    BY AsideTable, PTL
<1> QED
    BY <1>1 DEF P!Terminal, P!Closed

\* dup2 puts the pipe in the place of standard output, which the guest does not see.
LEMMA RedirectStep ==
    ASSUME IndInv, redirect
    PROVE  IndInv' /\ UNCHANGED P!vars
<1>1. /\ ctl = "dup2" /\ SetAside /\ fds \in [Fds -> Entry]
      /\ outp[2] \in Others \ {saved_stdout, outp[1]} /\ fds[outp[2]] = Writer
      /\ pipe_to_clang = -1
      /\ UNCHANGED <<files, buf, brk, astray, saved_stdout, pipe_to_clang, last, ret>>
      /\ ctl' = "popen" /\ outp' = <<outp[1], -1>>
      /\ fds' = Close(Put(fds, 1, fds[outp[2]]), outp[2])
    BY DEF IndInv, redirect
<1>2. PICK s, r, w : s = saved_stdout /\ r = outp[1] /\ w = outp[2]
    OBVIOUS
<1>3. /\ s \in Others /\ r \in Others /\ w \in Others /\ s # r /\ w # s /\ w # r
      /\ s \in Fds /\ r \in Fds /\ w \in Fds
    BY <1>1, <1>2, AsideTypes, WordAssumption DEF Others, Fds
<1>4. 0 \in Fds \ {1, w} /\ 2 \in Fds \ {1, w} /\ 1 \in Fds /\ s \in Fds \ {1, w}
      /\ r \in Fds \ {1, w} /\ w # 1
    BY <1>3, WordAssumption DEF Others, Fds
<1>5. fds' = [[fds EXCEPT ![1] = fds[w]] EXCEPT ![w] = P!Closed]
    BY <1>1, <1>2 DEF Close, Put
<1>6. /\ fds' \in [Fds -> Entry]
      /\ \A fd \in Fds \ {1, w} : fds'[fd] = fds[fd]
      /\ fds'[w] = P!Closed /\ fds'[1] = Writer
    BY <1>1, <1>2, <1>3, <1>4, <1>5, Entries
<1>7. saved_stdout' = s /\ outp' = <<r, -1>> /\ outp'[1] = r /\ outp'[2] = -1
    BY <1>1, <1>2
<1>8. SetAside'
    BY <1>1, <1>2, <1>3, <1>4, <1>6, <1>7 DEF SetAside
<1>9. IndInv'
    BY <1>1, <1>6, <1>7, <1>8 DEF IndInv
<1>10. GuestTable' = [fd \in Fds |-> IF fd = 1 THEN P!Terminal
                                     ELSE IF fd \in {s, r, -1} THEN P!Closed ELSE fds'[fd]]
    BY <1>1, <1>7, <1>8, AsideTableNext
<1>11. GuestTable = [fd \in Fds |-> IF fd = 1 THEN P!Terminal
                                    ELSE IF fd \in {s, r, w, -1} THEN P!Closed ELSE fds[fd]]
    BY <1>1, <1>2, AsideTable
<1>12. GuestTable' = GuestTable
    BY <1>6, <1>10, <1>11
<1>13. UNCHANGED P!vars
    BY <1>1, <1>12 DEF P!vars, Status
<1> QED
    BY <1>9, <1>13

\* The pipe to clang is closed.
LEMMA PcloseStep ==
    ASSUME IndInv, pclose
    PROVE  IndInv' /\ UNCHANGED P!vars
<1>1. /\ ctl = "pclose" /\ SetAside /\ fds \in [Fds -> Entry] /\ outp[2] = -1
      /\ fds[1] = Writer /\ pipe_to_clang \in Others \ {saved_stdout, outp[1]}
      /\ UNCHANGED <<files, buf, brk, astray, saved_stdout, outp, last, ret>>
      /\ ctl' = "read" /\ pipe_to_clang' = -1
      /\ fds' = Close(fds, pipe_to_clang)
    BY DEF IndInv, pclose
<1>2. PICK s, r, w : s = saved_stdout /\ r = outp[1] /\ w = pipe_to_clang
    OBVIOUS
<1>3. /\ s \in Others /\ r \in Others /\ w \in Others /\ s # r /\ w # s /\ w # r
      /\ s \in Fds /\ r \in Fds /\ w \in Fds
    BY <1>1, <1>2, AsideTypes, WordAssumption DEF Others, Fds
<1>4. {0, 1, 2, s, r} \subseteq Fds \ {w}
    BY <1>3, WordAssumption DEF Others, Fds
<1>5. fds' = [fds EXCEPT ![w] = P!Closed]
    BY <1>1, <1>2 DEF Close, Put
<1>6. /\ fds' \in [Fds -> Entry]
      /\ \A fd \in Fds \ {w} : fds'[fd] = fds[fd]
      /\ fds'[w] = P!Closed
    BY <1>1, <1>3, <1>5, Entries
<1>7. saved_stdout' = s /\ outp' = outp /\ outp'[1] = r /\ outp'[2] = -1
    BY <1>1, <1>2
<1>8. SetAside'
    BY <1>1, <1>2, <1>3, <1>4, <1>6, <1>7 DEF SetAside
<1>9. IndInv'
    BY <1>1, <1>4, <1>6, <1>7, <1>8 DEF IndInv
<1>10. GuestTable' = [fd \in Fds |-> IF fd = 1 THEN P!Terminal
                                     ELSE IF fd \in {s, r, -1} THEN P!Closed ELSE fds'[fd]]
    BY <1>1, <1>7, <1>8, AsideTableNext
<1>11. GuestTable = [fd \in Fds |-> IF fd = 1 THEN P!Terminal
                                    ELSE IF fd \in {s, r, w, -1} THEN P!Closed ELSE fds[fd]]
    BY <1>1, <1>2, AsideTable
<1>12. GuestTable' = GuestTable
    BY <1>6, <1>10, <1>11
<1>13. UNCHANGED P!vars
    BY <1>1, <1>12 DEF P!vars, Status
<1> QED
    BY <1>9, <1>13

\* The pipe to clang takes a free number, or the process ends.
LEMMA PopenStep ==
    ASSUME IndInv, popen
    PROVE  IndInv' /\ (UNCHANGED P!vars \/ P!OutOfDescriptors)
<1>1. /\ ctl = "popen" /\ SetAside /\ fds \in [Fds -> Entry] /\ outp[2] = -1
      /\ fds[1] = Writer /\ pipe_to_clang = -1
      /\ UNCHANGED <<files, buf, brk, astray, saved_stdout, outp, last, ret>>
    BY DEF IndInv, popen
<1>2. P!Free(fds) \in SUBSET Fds
    BY <1>1 DEF P!Free
<1>3. PICK free \in SUBSET Fds : free = P!Free(fds)
    BY <1>2
<1>4. Cardinality(free) \in Nat /\ IsFiniteSet(free)
    BY TakeThree
<1>5. PICK s, r : s = saved_stdout /\ r = outp[1]
    OBVIOUS
<1>6. s \in Others /\ r \in Others /\ s # r /\ s \in Fds /\ r \in Fds
    BY <1>1, <1>5, AsideTypes
<1>7. GuestTable = [fd \in Fds |-> IF fd = 1 THEN P!Terminal
                                   ELSE IF fd \in {s, r, -1} THEN P!Closed ELSE fds[fd]]
    BY <1>1, <1>5, AsideTable
<1>8. CASE Cardinality(free) < 2
    <2>1. ctl' = "fatal" /\ UNCHANGED <<fds, pipe_to_clang>>
        BY <1>3, <1>8 DEF popen
    <2>2. GuestTable' = GuestTable
        BY <1>1, <2>1 DEF GuestTable, Held
    <2>3. PICK F : F = P!Free(GuestTable)
        OBVIOUS
    <2>4. PICK T : T = free \cup {s}
        OBVIOUS
    <2>5. F \in SUBSET (T \cup {r})
        <3>1. ASSUME NEW fd \in F
              PROVE  fd \in Fds /\ GuestTable[fd] = P!Closed
            BY <1>7, <2>3 DEF P!Free
        <3>2. ASSUME NEW fd \in F, fd \notin {s, r}
              PROVE  fd \in free
            <4>1. fd \in Fds /\ GuestTable[fd] = P!Closed /\ fd # -1
                BY <3>1, WordAssumption DEF Fds
            <4>2. fd # 1
                BY <1>7, <4>1, Distinct
            <4>3. fds[fd] = P!Closed
                BY <1>7, <3>2, <4>1, <4>2
            <4> QED
                BY <1>1, <1>3, <4>1, <4>3 DEF P!Free
        <3> QED
            BY <2>4, <3>2
    <2>6. IsFiniteSet(T) /\ Cardinality(T) <= Cardinality(free) + 1 /\ Cardinality(T) \in Nat
        BY <1>4, <2>4, FS_AddElement, FS_CardinalityType
    <2>7. PICK U : U = T \cup {r}
        OBVIOUS
    <2>8. IsFiniteSet(U) /\ Cardinality(U) <= Cardinality(T) + 1 /\ Cardinality(U) \in Nat
        <3>1. /\ IsFiniteSet(U)
              /\ Cardinality(U) = IF r \in T THEN Cardinality(T) ELSE Cardinality(T) + 1
            BY <2>6, <2>7, FS_AddElement
        <3> QED
            BY <2>6, <3>1
    <2>9. Cardinality(F) <= Cardinality(U) /\ Cardinality(F) \in Nat
        BY <2>5, <2>7, <2>8, FS_Subset, FS_CardinalityType
    <2>10. Cardinality(F) < 4
        BY <1>4, <1>8, <2>6, <2>8, <2>9
    <2>11. P!OutOfDescriptors
        <3>1. Status = "running" /\ Status' = "killed"
            BY <1>1, <2>1 DEF Status
        <3> QED
            BY <1>1, <2>2, <2>3, <2>10, <3>1, SameCardinality DEF P!OutOfDescriptors
    <2>12. IndInv'
        BY <1>1, <2>1 DEF IndInv
    <2> QED
        BY <2>11, <2>12
<1>9. CASE ~(Cardinality(free) < 2)
    <2>1. PICK w : w = P!Lowest(free \ {P!Lowest(free)})
        OBVIOUS
    <2>2. w \in free
        BY <1>4, <1>9, <2>1, TakeThree
    <2>3. w \in Fds /\ fds[w] = P!Closed
        BY <1>3, <2>2 DEF P!Free
    <2>4. pipe_to_clang' = w /\ fds' = [fds EXCEPT ![w] = Writer] /\ ctl' = "pclose"
        BY <1>3, <1>9, <2>1 DEF popen, Put
    <2>5. w # 0 /\ w # 1 /\ w # 2 /\ w # s /\ w # r
        BY <1>1, <1>5, <2>3, Distinct DEF SetAside
    <2>6. w \in Others
        BY <2>3, <2>5, WordAssumption DEF Fds, Others
    <2>7. 0 \in Fds /\ 1 \in Fds /\ 2 \in Fds
        BY WordAssumption DEF Fds
    <2>8. /\ fds' \in [Fds -> Entry]
          /\ \A fd \in Fds \ {w} : fds'[fd] = fds[fd]
        BY <1>1, <2>3, <2>4, Entries
    <2>9. saved_stdout' = s /\ outp' = outp /\ outp'[1] = r /\ outp'[2] = -1
        BY <1>1, <1>5
    <2>10. SetAside'
        BY <1>1, <1>5, <1>6, <2>5, <2>7, <2>8, <2>9 DEF SetAside
    <2>11. IndInv'
        BY <1>1, <2>4, <2>5, <2>6, <2>7, <2>8, <2>9, <2>10 DEF IndInv
    <2>12. GuestTable' = [fd \in Fds |-> IF fd = 1 THEN P!Terminal
                                         ELSE IF fd \in {s, r, -1, w} THEN P!Closed ELSE fds'[fd]]
        BY <2>4, <2>9, <2>10, AsideTableNext
    <2>13. GuestTable' = GuestTable
        BY <1>7, <2>3, <2>5, <2>8, <2>12
    <2>14. UNCHANGED P!vars
        BY <1>1, <2>4, <2>13 DEF P!vars, Status
    <2> QED
        BY <2>11, <2>14
<1> QED
    BY <1>8, <1>9

\* Standard output comes back, and everything taken is free again.
LEMMA RestoreStep ==
    ASSUME IndInv, restore
    PROVE  IndInv' /\ UNCHANGED P!vars
<1>1. /\ ctl = "read" /\ SetAside /\ fds \in [Fds -> Entry] /\ outp[2] = -1
      /\ pipe_to_clang = -1 /\ ctl' = "run" /\ saved_stdout' = -1 /\ outp' = <<-1, -1>>
      /\ UNCHANGED <<files, buf, brk, astray, pipe_to_clang, last, ret>>
      /\ fds' = Close(Put(Close(fds, outp[1]), 1, fds[saved_stdout]), saved_stdout)
    BY DEF IndInv, restore
<1>2. PICK s, r : s = saved_stdout /\ r = outp[1]
    OBVIOUS
<1>3. s \in Others /\ r \in Others /\ s # r /\ s \in Fds /\ r \in Fds
    BY <1>1, <1>2, AsideTypes
<1>4. 0 \in Fds \ {1, s, r} /\ 2 \in Fds \ {1, s, r} /\ 1 \in Fds /\ s # 1 /\ r # 1
    BY <1>3, WordAssumption DEF Fds, Others
<1>5. fds' = [[[fds EXCEPT ![r] = P!Closed] EXCEPT ![1] = P!Terminal] EXCEPT ![s] = P!Closed]
    BY <1>1, <1>2 DEF Close, Put, SetAside
<1>6. /\ fds' \in [Fds -> Entry]
      /\ \A fd \in Fds \ {1, s, r} : fds'[fd] = fds[fd]
      /\ fds'[1] = P!Terminal /\ fds'[s] = P!Closed /\ fds'[r] = P!Closed
    BY <1>1, <1>3, <1>4, <1>5, Entries
<1>7. Quiet' /\ Streams'
    BY <1>1, <1>4, <1>6 DEF Quiet, Streams, SetAside
<1>8. IndInv'
    BY <1>1, <1>6, <1>7 DEF IndInv
<1>9. GuestTable' = fds'
    BY <1>6, <1>7, QuietTableNext
<1>10. GuestTable = [fd \in Fds |-> IF fd = 1 THEN P!Terminal
                                    ELSE IF fd \in {s, r, -1} THEN P!Closed ELSE fds[fd]]
    BY <1>1, <1>2, AsideTable
<1>11. \A fd \in Fds : fd # -1
    BY WordAssumption DEF Fds
<1>12. GuestTable' = GuestTable
    BY <1>6, <1>9, <1>10, <1>11
<1>13. UNCHANGED P!vars
    BY <1>1, <1>12 DEF P!vars, Status
<1> QED
    BY <1>8, <1>13

-----------------------------------------------------------------------------
(***************************************************************************)
(* System calls.                                                           *)
(***************************************************************************)
\* open gives a free descriptor and touches no other.
LEMMA OpenedTable ==
    ASSUME NEW t \in [Fds -> Entry], NEW fs, NEW name \in Names, NEW flags,
           NEW res, res = P!Opened(t, fs, name, flags)
    PROVE  /\ res.table \in [Fds -> Entry]
           /\ \A fd \in Fds : t[fd] # P!Closed => res.table[fd] = t[fd]
<1>2. PICK q : q = P!Lowest(P!Free(t))
    OBVIOUS
<1>3. PICK what : what = [file |-> name, flags |-> flags \cap {"O_WRONLY", "O_RDWR", "O_APPEND"}]
    OBVIOUS
<1>4. what \in Entry
    BY <1>3 DEF Entry
<1>5. res.table = t \/ (P!Free(t) # {} /\ res.table = [t EXCEPT ![q] = what])
    BY <1>2, <1>3 DEF P!Opened, P!Result
<1>6. CASE res.table = t
    BY <1>6
<1>7. CASE P!Free(t) # {} /\ res.table = [t EXCEPT ![q] = what]
    <2>1. P!Free(t) \in SUBSET Fds
        BY DEF P!Free
    <2>2. q \in P!Free(t)
        BY <1>2, <1>7, <2>1, LowestIsFree
    <2>3. q \in Fds /\ t[q] = P!Closed
        BY <2>2 DEF P!Free
    <2>4. res.table \in [Fds -> Entry]
        BY <1>4, <1>7, <2>3
    <2>5. \A fd \in Fds : t[fd] # P!Closed => res.table[fd] = t[fd]
        BY <1>7, <2>3
    <2> QED
        BY <2>4, <2>5
<1> QED
    BY <1>5, <1>6, <1>7

\* A call that leaves the streams open, but for astray, keeps the invariant, and the guest sees
\* the host's table before it and after it.
LEMMA CallFrame ==
    ASSUME IndInv, ctl = "run", UNCHANGED <<saved_stdout, outp, pipe_to_clang>>,
           ctl' \in {"run", "exit", "fatal"}, fds' \in [Fds -> Entry], brk' \in Nat,
           astray \subseteq astray',
           \A fd \in (0 .. 2) \ astray' : fds'[fd] = fds[fd]
    PROVE  IndInv' /\ GuestTable = fds /\ GuestTable' = fds'
<1>1. Quiet /\ Streams /\ fds \in [Fds -> Entry]
    BY DEF IndInv
<1>2. Quiet' /\ Streams'
    BY <1>1 DEF Quiet, Streams
<1>3. IndInv'
    BY <1>2 DEF IndInv
<1> QED
    BY <1>1, <1>2, <1>3, QuietTable, QuietTableNext

\* open and openat: flags are converted, and the lowest free number returned.
LEMMA OpenStep ==
    ASSUME IndInv, NEW req \in Requests, do_syscall(req), req.call \in {"open", "openat"}
    PROVE  IndInv' /\ P!Call(req)
<1>1. /\ ctl = "run" /\ last' = req /\ Streams /\ fds \in [Fds -> Entry] /\ brk \in Nat
      /\ UNCHANGED <<saved_stdout, outp, pipe_to_clang>>
    BY DEF do_syscall, held, IndInv
<1>2. req.name \in Names /\ req.flags \in SUBSET DOMAIN NEWLIB_O
    BY RequestsAssumption
<1>3. PICK res : res = P!Opened(fds, files, req.name, req.flags)
    OBVIOUS
<1>4. /\ fds' = res.table /\ files' = res.files /\ ret' = res.ret
      /\ UNCHANGED <<buf, brk, ctl, astray>>
    <2>1. PICK fl : fl = FlagBits(req.flags)
        OBVIOUS
    <2>2. convert_flags(fl) = req.flags
        BY <1>2, <2>1, FlagsArrive
    <2>3. CASE req.call = "open"
        <3>1. PICK r : r = Registers(req)
            OBVIOUS
        <3>2. r.a7 = 1024 /\ r.a0 = req.name /\ r.a1 = fl
            BY <2>1, <2>3, <3>1, RegistersOf
        <3>3. sys_open(r) /\ UNCHANGED astray
            BY <3>1, <3>2, Handlers DEF do_syscall
        <3> QED
            BY <1>3, <2>2, <3>2, <3>3 DEF sys_open, Returns
    <2>4. CASE req.call = "openat"
        <3>1. PICK r : r = Registers(req)
            OBVIOUS
        <3>2. r.a7 = 56 /\ r.a1 = req.name /\ r.a2 = fl
            BY <2>1, <2>4, <3>1, RegistersOf
        <3>3. sys_openat(r) /\ UNCHANGED astray
            BY <3>1, <3>2, Handlers DEF do_syscall
        <3> QED
            BY <1>3, <2>2, <3>2, <3>3 DEF sys_openat, Returns
    <2> QED
        BY <2>3, <2>4
<1>5. fds' \in [Fds -> Entry] /\ \A fd \in Fds : fds[fd] # P!Closed => fds'[fd] = fds[fd]
    <2>1. PICK t \in [Fds -> Entry] : t = fds
        BY <1>1
    <2>2. PICK name \in Names : name = req.name
        BY <1>2
    <2>3. PICK fs : fs = files
        OBVIOUS
    <2>4. PICK flags : flags = req.flags
        OBVIOUS
    <2>5. res = P!Opened(t, fs, name, flags)
        BY <1>3, <2>1, <2>2, <2>3, <2>4
    <2>6. res.table \in [Fds -> Entry] /\ \A fd \in Fds : t[fd] # P!Closed => res.table[fd] = t[fd]
        BY <2>5, OpenedTable
    <2> QED
        BY <1>4, <2>1, <2>6
<1>6. \A fd \in (0 .. 2) \ astray : fd \in Fds /\ fds[fd] # P!Closed
    BY <1>1, WordAssumption, Distinct DEF Streams, Fds
<1>7. IndInv' /\ GuestTable = fds /\ GuestTable' = fds'
    BY <1>1, <1>4, <1>5, <1>6, CallFrame
<1>8. P!Open(req)
    BY <1>3, <1>4, <1>7 DEF P!Open, P!Becomes, Status
<1>9. Status = "running"
    BY <1>1 DEF Status
<1> QED
    BY <1>1, <1>7, <1>8, <1>9 DEF P!Call

\* Calls with a descriptor in a0.
LEMMA FdArrives ==
    ASSUME NEW req \in Requests,
           req.call \in {"close", "read", "write", "lseek", "fstat"}
    PROVE  /\ Registers(req).a7 = Number[req.call]
           /\ Registers(req).a0 = req.fd /\ req.fd \in Nat
           /\ ToInt(req.fd) = P!FdOf(req) /\ ToInt(req.fd) \in Int
<1>1. req.fd \in Nat
    BY RequestsAssumption, WordAssumption
<1>2. Registers(req) = [a7 |-> Number[req.call], a0 |-> req.fd]
    BY RegistersOf
<1> QED
    BY <1>1, <1>2, IntsArrive

\* close frees a number, unless the register is that of a standard stream.
LEMMA CloseStep ==
    ASSUME IndInv, NEW req \in Requests, do_syscall(req), req.call = "close"
    PROVE  IndInv' /\ P!Call(req)
<1>1. /\ ctl = "run" /\ last' = req /\ Streams /\ fds \in [Fds -> Entry] /\ brk \in Nat
      /\ UNCHANGED <<saved_stdout, outp, pipe_to_clang>>
    BY DEF do_syscall, held, IndInv
<1>2. PICK r, fd : r = Registers(req) /\ fd = P!FdOf(req)
    OBVIOUS
<1>3. r.a7 = 57 /\ r.a0 = req.fd /\ req.fd \in Nat /\ ToInt(r.a0) = fd /\ fd \in Int
    BY <1>2, FdArrives DEF Number
<1>4. sys_close(r)
    BY <1>2, <1>3, Handlers DEF do_syscall
<1>5. UNCHANGED <<buf, brk, ctl>>
    BY <1>4 DEF sys_close, CloseHost
<1>6. r.a0 > 2 <=> req.fd \notin 0 .. 2
    BY <1>3
<1>7. P!IsOpen(fds, fd) => fd \in Fds
    BY <1>1, WordAssumption DEF P!IsOpen, Fds
<1>8. PICK res : res = IF req.fd \notin 0 .. 2 /\ P!IsOpen(fds, fd)
                       THEN P!Result([fds EXCEPT ![fd] = P!Closed], files, 0)
                       ELSE P!Result(fds, files, IF req.fd \in 0 .. 2 THEN 0 ELSE -1)
    OBVIOUS
<1>9. /\ fds' = res.table /\ files' = res.files /\ ret' = res.ret
      /\ astray' = IF req.fd \in 0 .. 2 THEN astray ELSE astray \cup ({fd} \cap 0 .. 2)
    <2>1. CASE req.fd \in 0 .. 2
        <3>1. res = P!Result(fds, files, 0)
            BY <1>8, <2>1
        <3> QED
            BY <1>4, <1>6, <2>1, <3>1 DEF sys_close, Returns
    <2>2. CASE req.fd \notin 0 .. 2 /\ P!IsOpen(fds, fd)
        <3>1. res = P!Result(Close(fds, fd), files, 0)
            BY <1>8, <2>2 DEF Close, Put
        <3> QED
            BY <1>3, <1>4, <1>6, <2>2, <3>1 DEF sys_close, Returns, CloseHost
    <2>3. CASE req.fd \notin 0 .. 2 /\ ~P!IsOpen(fds, fd)
        <3>1. res = P!Result(fds, files, -1)
            BY <1>8, <2>3
        <3> QED
            BY <1>3, <1>4, <1>6, <2>3, <3>1 DEF sys_close, Returns, CloseHost
    <2> QED
        BY <2>1, <2>2, <2>3
<1>10. \/ fds' = fds
       \/ req.fd \notin 0 .. 2 /\ fd \in Fds /\ fds' = [fds EXCEPT ![fd] = P!Closed]
    BY <1>7, <1>8, <1>9 DEF P!Result
<1>11. /\ fds' \in [Fds -> Entry] /\ astray \subseteq astray'
       /\ \A k \in (0 .. 2) \ astray' : fds'[k] = fds[k]
    <2>1. CASE fds' = fds
        BY <1>1, <1>9, <2>1
    <2>2. CASE req.fd \notin 0 .. 2 /\ fd \in Fds /\ fds' = [fds EXCEPT ![fd] = P!Closed]
        <3>1. fds' \in [Fds -> Entry]
            BY <1>1, <2>2, Entries
        <3>2. \A k \in (0 .. 2) \ astray' : k \in Fds /\ k # fd
            <4>1. astray' = astray \cup ({fd} \cap 0 .. 2)
                BY <1>9, <2>2
            <4>2. \A k \in 0 .. 2 : k \in Fds
                BY WordAssumption DEF Fds
            <4> QED
                BY <4>1, <4>2
        <3> QED
            BY <1>1, <1>9, <2>2, <3>1, <3>2
    <2> QED
        BY <1>10, <2>1, <2>2
<1>12. IndInv' /\ GuestTable = fds /\ GuestTable' = fds'
    BY <1>1, <1>5, <1>11, CallFrame
<1>13. Status = "running" /\ Status' = Status
    BY <1>1, <1>5 DEF Status
<1>14. P!Close(req)
    BY <1>2, <1>5, <1>8, <1>9, <1>12, <1>13 DEF P!Close, P!Becomes, P!Closed
<1> QED
    BY <1>1, <1>12, <1>13, <1>14 DEF P!Call

\* write appends to what the descriptor is open on.
LEMMA WriteStep ==
    ASSUME IndInv, NEW req \in Requests, do_syscall(req), req.call = "write"
    PROVE  IndInv' /\ P!Call(req)
<1>1. /\ ctl = "run" /\ last' = req /\ fds \in [Fds -> Entry] /\ brk \in Nat
      /\ UNCHANGED <<saved_stdout, outp, pipe_to_clang>>
    BY DEF do_syscall, held, IndInv
<1>2. PICK r : r = Registers(req)
    OBVIOUS
<1>3. r.a7 = 64 /\ ToInt(r.a0) = P!FdOf(req)
    BY <1>2, FdArrives DEF Number
<1>4. sys_write(r) /\ UNCHANGED astray
    BY <1>2, <1>3, Handlers DEF do_syscall
<1>5. PICK res : res = P!Wrote(fds, files, P!FdOf(req))
    OBVIOUS
<1>6. fds' = res.table /\ files' = res.files /\ ret' = res.ret /\ UNCHANGED <<buf, brk, ctl, astray>>
    BY <1>3, <1>4, <1>5 DEF sys_write, Returns
<1>7. res.table = fds
    BY <1>5 DEF P!Wrote, P!Result
<1>8. IndInv' /\ GuestTable = fds /\ GuestTable' = fds'
    BY <1>1, <1>6, <1>7, CallFrame
<1>9. Status = "running" /\ Status' = Status
    BY <1>1, <1>6 DEF Status
<1>10. P!Write(req)
    BY <1>5, <1>6, <1>8, <1>9 DEF P!Write, P!Becomes
<1> QED
    BY <1>1, <1>8, <1>9, <1>10 DEF P!Call

\* The calls that leave the table and the files alone.
LEMMA OtherFrame ==
    ASSUME IndInv, NEW req, do_syscall(req), UNCHANGED <<fds, files, ctl, astray>>, brk' \in Nat
    PROVE  /\ IndInv' /\ GuestTable = fds /\ UNCHANGED <<GuestTable, files, Status>>
           /\ Status = "running" /\ last' = req
<1>1. /\ ctl = "run" /\ last' = req /\ fds \in [Fds -> Entry] /\ brk \in Nat
      /\ UNCHANGED <<saved_stdout, outp, pipe_to_clang>>
    BY DEF do_syscall, held, IndInv
<1>2. IndInv' /\ GuestTable = fds /\ GuestTable' = fds'
    BY <1>1, CallFrame
<1>3. Status = "running" /\ Status' = Status
    BY <1>1 DEF Status
<1> QED
    BY <1>1, <1>2, <1>3

\* read returns what the descriptor is open on.
LEMMA ReadStep ==
    ASSUME IndInv, NEW req \in Requests, do_syscall(req), req.call = "read"
    PROVE  IndInv' /\ P!Call(req)
<1>1. PICK r : r = Registers(req)
    OBVIOUS
<1>2. r.a7 = 63 /\ ToInt(r.a0) = P!FdOf(req)
    BY <1>1, FdArrives DEF Number
<1>3. sys_read(r) /\ UNCHANGED astray
    BY <1>1, <1>2, Handlers DEF do_syscall
<1>4. UNCHANGED <<fds, files, ctl, brk, astray>>
    BY <1>3 DEF sys_read
<1>5. /\ IndInv' /\ GuestTable = fds /\ UNCHANGED <<GuestTable, files, Status>>
      /\ Status = "running" /\ last' = req
    BY <1>4, OtherFrame DEF IndInv
<1>6. P!Read(req)
    BY <1>2, <1>3, <1>4, <1>5 DEF P!Read, P!Fill, sys_read
<1> QED
    BY <1>5, <1>6 DEF P!Call

\* lseek looks the descriptor up and changes nothing.
LEMMA LseekStep ==
    ASSUME IndInv, NEW req \in Requests, do_syscall(req), req.call = "lseek"
    PROVE  IndInv' /\ P!Call(req)
<1>1. PICK r : r = Registers(req)
    OBVIOUS
<1>2. r.a7 = 62 /\ ToInt(r.a0) = P!FdOf(req)
    BY <1>1, FdArrives DEF Number
<1>3. sys_lseek(r) /\ UNCHANGED astray
    BY <1>1, <1>2, Handlers DEF do_syscall
<1>4. UNCHANGED <<fds, files, ctl, buf, brk, astray>>
    BY <1>3 DEF sys_lseek
<1>5. /\ IndInv' /\ GuestTable = fds /\ UNCHANGED <<GuestTable, files, Status>>
      /\ Status = "running" /\ last' = req
    BY <1>4, OtherFrame DEF IndInv
<1>6. P!Lseek(req)
    BY <1>2, <1>3, <1>4, <1>5 DEF P!Lseek, sys_lseek
<1> QED
    BY <1>5, <1>6 DEF P!Call

\* fstat fills the buffer, if the descriptor is open.
LEMMA FstatStep ==
    ASSUME IndInv, NEW req \in Requests, do_syscall(req), req.call = "fstat"
    PROVE  IndInv' /\ P!Call(req)
<1>1. PICK r : r = Registers(req)
    OBVIOUS
<1>2. r.a7 = 80 /\ ToInt(r.a0) = P!FdOf(req)
    BY <1>1, FdArrives DEF Number
<1>3. sys_fstat(r) /\ UNCHANGED astray
    BY <1>1, <1>2, Handlers DEF do_syscall
<1>4. UNCHANGED <<fds, files, ctl, brk, astray>>
    BY <1>3 DEF sys_fstat
<1>5. /\ IndInv' /\ GuestTable = fds /\ UNCHANGED <<GuestTable, files, Status>>
      /\ Status = "running" /\ last' = req
    BY <1>4, OtherFrame DEF IndInv
<1>6. P!Fstat(req)
    BY <1>2, <1>3, <1>4, <1>5 DEF P!Fstat, P!Fill, sys_fstat
<1> QED
    BY <1>5, <1>6 DEF P!Call

\* gettimeofday fills the guest's buffer and touches no descriptor.
LEMMA GettimeofdayStep ==
    ASSUME IndInv, NEW req \in Requests, do_syscall(req), req.call = "gettimeofday"
    PROVE  IndInv' /\ P!Call(req)
<1>1. PICK r : r = Registers(req)
    OBVIOUS
<1>2. r.a7 = 169
    BY <1>1, RegistersOf DEF Number
<1>3. sys_gettimeofday /\ UNCHANGED astray
    BY <1>1, <1>2, Handlers DEF do_syscall
<1>4. UNCHANGED <<fds, files, ctl, brk, astray>>
    BY <1>3 DEF sys_gettimeofday
<1>5. /\ IndInv' /\ GuestTable = fds /\ UNCHANGED <<GuestTable, files, Status>>
      /\ Status = "running" /\ last' = req
    BY <1>4, OtherFrame DEF IndInv
<1>6. P!Gettimeofday(req)
    BY <1>3, <1>4, <1>5 DEF P!Gettimeofday, P!Fill, sys_gettimeofday
<1> QED
    BY <1>5, <1>6 DEF P!Call

\* brk moves the end of memory, or ends the process where the host has no
\* more or the assertion fails.
LEMMA BrkStep ==
    ASSUME IndInv, NEW req \in Requests, do_syscall(req), req.call = "brk"
    PROVE  IndInv' /\ P!Call(req)
<1>1. PICK r : r = Registers(req)
    OBVIOUS
<1>2. r.a7 = 214 /\ r.a0 = req.fd
    BY <1>1, RegistersOf DEF Number
<1>3. req.fd \in Nat /\ brk \in Nat /\ Base \in Nat
    BY RequestsAssumption, WordAssumption DEF IndInv
<1>4. sys_brk(r) /\ UNCHANGED astray
    BY <1>1, <1>2, Handlers DEF do_syscall
<1>5. PICK end \in Nat : end = IF req.fd = 0 THEN brk ELSE req.fd
    BY <1>3
<1>6. CASE end \notin Base .. brk /\ fatal
    <2>1. ctl' = "fatal" /\ UNCHANGED <<fds, files, buf, brk, ret>>
        BY <1>6 DEF fatal
    <2>2. /\ ctl = "run" /\ last' = req /\ fds \in [Fds -> Entry]
          /\ UNCHANGED <<saved_stdout, outp, pipe_to_clang>>
        BY DEF do_syscall, held, IndInv
    <2>3. IndInv' /\ GuestTable = fds /\ GuestTable' = fds'
        BY <1>3, <1>4, <2>1, <2>2, CallFrame
    <2>4. Status = "running" /\ Status' = "killed"
        BY <2>1, <2>2 DEF Status
    <2>5. P!Brk(req)
        BY <1>5, <1>6, <2>1, <2>3, <2>4 DEF P!Brk
    <2> QED
        BY <2>2, <2>3, <2>4, <2>5 DEF P!Call
<1>7. CASE end >= Base /\ brk' = end /\ ret' = end /\ UNCHANGED <<fds, files, buf, ctl>>
    <2>1. /\ IndInv' /\ GuestTable = fds /\ UNCHANGED <<GuestTable, files, Status>>
          /\ Status = "running" /\ last' = req
        BY <1>4, <1>7, OtherFrame
    <2>2. P!Brk(req)
        BY <1>5, <1>7, <2>1 DEF P!Brk
    <2> QED
        BY <2>1, <2>2 DEF P!Call
<1>8. \/ end < Base /\ fatal
      \/ end > brk /\ fatal
      \/ end >= Base /\ brk' = end /\ ret' = end /\ UNCHANGED <<fds, files, buf, ctl>>
    BY <1>2, <1>4, <1>5 DEF sys_brk
<1> QED
    BY <1>3, <1>6, <1>7, <1>8

\* exit ends the process, and so does a number without a handler.
LEMMA EndStep ==
    ASSUME IndInv, NEW req \in Requests, do_syscall(req),
           req.call \in {"exit", "exit_group", "other"}
    PROVE  IndInv' /\ P!Call(req)
<1>1. /\ ctl = "run" /\ last' = req /\ fds \in [Fds -> Entry] /\ brk \in Nat
      /\ UNCHANGED <<saved_stdout, outp, pipe_to_clang>>
    BY DEF do_syscall, held, IndInv
<1>2. PICK r : r = Registers(req)
    OBVIOUS
<1>3. CASE req.call \in {"exit", "exit_group"}
    <2>1. r.a7 = 93 \/ r.a7 = 94
        BY <1>2, <1>3, RegistersOf DEF Number
    <2>2. sys_exit /\ UNCHANGED astray
        BY <1>2, <2>1, Handlers DEF do_syscall
    <2>3. ctl' = "exit" /\ UNCHANGED <<fds, files, buf, brk, ret>>
        BY <2>2 DEF sys_exit
    <2>4. IndInv' /\ GuestTable = fds /\ GuestTable' = fds'
        BY <1>1, <2>2, <2>3, CallFrame
    <2>5. Status = "running" /\ Status' = "exited"
        BY <1>1, <2>3 DEF Status
    <2>6. P!Exit(req)
        BY <1>3, <2>3, <2>4, <2>5 DEF P!Exit
    <2> QED
        BY <1>1, <2>4, <2>5, <2>6 DEF P!Call
<1>4. CASE req.call = "other"
    <2>1. PICK m : m = req.number
        OBVIOUS
    <2>2. m \in 0 .. Word - 1 /\ \A c \in DOMAIN Number : m # Number[c]
        BY <1>4, <2>1, RequestsAssumption
    <2>3. Lookup(m) \in {"unimplemented", "NULL"}
        BY <2>2, NoHandler
    <2>4. r.a7 = m
        BY <1>2, <1>4, <2>1, RegistersOf
    <2>5. fatal /\ UNCHANGED astray
        BY <1>2, <2>3, <2>4 DEF do_syscall
    <2>6. ctl' = "fatal" /\ UNCHANGED <<fds, files, buf, brk, ret>>
        BY <2>5 DEF fatal
    <2>7. IndInv' /\ GuestTable = fds /\ GuestTable' = fds'
        BY <1>1, <2>5, <2>6, CallFrame
    <2>8. Status = "running" /\ Status' = "killed"
        BY <1>1, <2>6 DEF Status
    <2>9. P!Unsupported(req)
        BY <1>4, <2>6, <2>7, <2>8 DEF P!Unsupported
    <2> QED
        BY <1>1, <2>7, <2>8, <2>9 DEF P!Call
<1> QED
    BY <1>3, <1>4

-----------------------------------------------------------------------------
(***************************************************************************)
(* The theorems.                                                           *)
(***************************************************************************)
LEMMA EveryStep ==
    ASSUME IndInv, [Next]_vars
    PROVE  IndInv' /\ [P!Next]_(P!vars)
<1>1. CASE machine_load_program
    BY <1>1, LoadStep DEF P!Next
<1>2. CASE make_pipe
    BY <1>2, MakePipeStep DEF P!Next
<1>3. CASE redirect
    BY <1>3, RedirectStep
<1>4. CASE popen
    BY <1>4, PopenStep DEF P!Next
<1>5. CASE pclose
    BY <1>5, PcloseStep
<1>6. CASE restore
    BY <1>6, RestoreStep
<1>7. ASSUME NEW req \in Requests, do_syscall(req)
      PROVE  IndInv' /\ [P!Next]_(P!vars)
    <2>1. req.call \in {"open", "openat", "close", "read", "write", "lseek", "fstat", "brk",
                        "gettimeofday", "exit", "exit_group", "other"}
        BY RequestsAssumption
    <2>2. IndInv' /\ P!Call(req)
        BY <1>7, <2>1, OpenStep, CloseStep, ReadStep, WriteStep, LseekStep, FstatStep, BrkStep,
           GettimeofdayStep, EndStep
    <2> QED
        BY <2>2 DEF P!Next
<1>8. CASE UNCHANGED vars
    <2>1. UNCHANGED <<fds, files, buf, brk, ctl, saved_stdout, outp, pipe_to_clang, astray, last, ret>>
        BY <1>8 DEF vars, held
    <2>2. IndInv'
        BY <2>1 DEF IndInv, Quiet, Streams, SetAside
    <2>3. UNCHANGED P!vars
        BY <2>1 DEF P!vars, GuestTable, Held, Status
    <2> QED
        BY <2>2, <2>3
<1> QED
    BY <1>1, <1>2, <1>3, <1>4, <1>5, <1>6, <1>7, <1>8 DEF Next, machine_compile

\* The guest has its three standard streams whatever it closes: sys_close spares
\* them, and machine_compile puts back the one it takes.  A stream is lost only
\* by a close whose register has more in it than the int (syscall.c:85).
THEOREM StreamsSurvive == Spec => []StandardStreamsSurvive
<1>1. Init => IndInv
    BY InvInit
<1>2. IndInv /\ [Next]_vars => IndInv'
    BY EveryStep
<1>3. IndInv => StandardStreamsSurvive
    BY DEF IndInv, Streams, StandardStreamsSurvive
<1> QED
    BY <1>1, <1>2, <1>3, PTL DEF Spec

\* syscall.c and compile.c together implement Posix: every call is dispatched
\* to its handler with the arguments the guest meant, brk answers with the end
\* of memory it leaves or ends the process, and no compilation changes a
\* descriptor of the guest.
THEOREM SyscallsImplementPosix == Spec => ImplementsPosix
<1>1. Init => IndInv /\ P!Init
    BY InvInit
<1>2. IndInv /\ [Next]_vars => IndInv' /\ [P!Next]_(P!vars)
    BY EveryStep
<1> QED
    BY <1>1, <1>2, PTL DEF Spec, ImplementsPosix, P!Spec
=============================================================================
