------------------------------ MODULE Syscall ------------------------------
(***************************************************************************)
(* System calls (src/src/syscall.c) and the file descriptors that they     *)
(* share with machine_compile (src/src/compile.c:8-27): the guest uses the *)
(* emulator's own descriptor table, and every compilation takes            *)
(* descriptors from it and puts a pipe in the place of standard output.    *)
(* Shown to implement Posix: the guest never notices.  The host's kernel   *)
(* is external; of memory there is only the guest's buffer and its end,    *)
(* the pages are in Mmu.                                                   *)
(***************************************************************************)
EXTENDS Integers, FiniteSets

CONSTANTS
    MaxFd,     \* bound: the highest descriptor (RLIMIT_NOFILE)
    Names,     \* bound: files in the file system
    Requests,  \* bound: calls of the guest, as Posix has them
    Word,      \* 2^64 in the code: registers are numbers modulo Word
    IntWord,   \* 2^32: an int is the low half of a register
    Base,      \* mmu.base
    Start      \* mmu.alloc when the guest starts

ASSUME WordAssumption ==
    /\ MaxFd \in Nat /\ MaxFd >= 2
    /\ IntWord \in Nat /\ IntWord > 4096 /\ Word \in Nat /\ Word > IntWord
    /\ Base \in Nat /\ Start \in Nat /\ Base <= Start

VARIABLES
    fds,            \* the host's descriptor table
    files,          \* the file system
    buf,            \* the guest's buffer
    brk,            \* mmu.alloc
    ctl,            \* "load", "run", a step of a compilation, "exit" or "fatal"
    saved_stdout,   \* the descriptors machine_compile holds, or -1
    outp,
    pipe_to_clang,
    astray,         \* history: standard streams closed through a wide register
    last, ret       \* the last call and the a0 it left

held == <<saved_stdout, outp, pipe_to_clang>>
vars == <<fds, files, buf, brk, ctl, held, astray, last, ret>>

Fds == 0 .. MaxFd
Held == {saved_stdout, outp[1], outp[2], pipe_to_clang}

\* The guest's descriptors: what the host's table holds but for what belongs
\* to the emulator; standard output may be set aside.
GuestTable ==
    [fd \in Fds |->
        IF fd = 1 /\ saved_stdout # -1 THEN fds[saved_stdout]
        ELSE IF fd \in Held THEN [file |-> "none", flags |-> {}]
        ELSE fds[fd]]

Status == CASE ctl = "exit" -> "exited" [] ctl = "fatal" -> "killed" [] OTHER -> "running"

P == INSTANCE Posix WITH table <- GuestTable, status <- Status, Needed <- 4

Init ==
    /\ fds = [fd \in Fds |-> IF fd \in 0 .. 2 THEN P!Terminal ELSE P!Closed]
    /\ files \in [Names -> {"absent", "old"}]
    /\ buf = "nothing" /\ brk = Start /\ astray = {} /\ ctl = "load"
    /\ saved_stdout = -1 /\ outp = <<-1, -1>> /\ pipe_to_clang = -1
    /\ last = P!NoRequest /\ ret = 0

Put(t, fd, what) == [t EXCEPT ![fd] = what]
Close(t, fd) == Put(t, fd, P!Closed)

\* machine_load_program: the ELF file has a descriptor while it is mapped; a
\* file that the host cannot open, or that is no program, ends the emulator.
machine_load_program ==
    /\ ctl = "load"
    /\ \/ /\ P!Free(fds) # {}
          /\ LET fd == P!Lowest(P!Free(fds))
                 open == Put(fds, fd, [file |-> "elf", flags |-> {}])
             IN  fds' = Close(open, fd)
          /\ ctl' = "run"
       \/ ctl' = "fatal" /\ UNCHANGED fds
    /\ UNCHANGED <<files, buf, brk, held, astray, last, ret>>
-----------------------------------------------------------------------------
(***************************************************************************)
(* machine_compile.                                                        *)
(***************************************************************************)
Reader == [file |-> "pipe", flags |-> {}]
Writer == [file |-> "pipe", flags |-> {"O_WRONLY"}]

\* dup(1), which may fail unnoticed, and pipe.  Bound: code that gets hot after
\* the guest has closed a standard stream is not compiled.
make_pipe ==
    /\ ctl = "run" /\ astray = {}
    /\ LET free == P!Free(fds)
           s == P!Lowest(free)
           r == P!Lowest(free \ {s})
           w == P!Lowest(free \ {s, r})
       IN  IF Cardinality(free) < 3
           THEN ctl' = "fatal" /\ UNCHANGED <<fds, saved_stdout, outp>>
           ELSE /\ saved_stdout' = s /\ outp' = <<r, w>>
                /\ fds' = Put(Put(Put(fds, s, fds[1]), r, Reader), w, Writer)
                /\ ctl' = "dup2"
    /\ UNCHANGED <<files, buf, brk, pipe_to_clang, astray, last, ret>>

\* dup2(outp[1], 1); close(outp[1]).
redirect ==
    /\ ctl = "dup2"
    /\ fds' = Close(Put(fds, 1, fds[outp[2]]), outp[2])
    /\ outp' = <<outp[1], -1>>
    /\ ctl' = "popen"
    /\ UNCHANGED <<files, buf, brk, saved_stdout, pipe_to_clang, astray, last, ret>>

\* popen: a second pipe, whose reading end only the child keeps.
popen ==
    /\ ctl = "popen"
    /\ LET free == P!Free(fds)
           w == P!Lowest(free \ {P!Lowest(free)})
       IN  IF Cardinality(free) < 2
           THEN ctl' = "fatal" /\ UNCHANGED <<fds, pipe_to_clang>>
           ELSE /\ pipe_to_clang' = w /\ fds' = Put(fds, w, Writer)
                /\ ctl' = "pclose"
    /\ UNCHANGED <<files, buf, brk, saved_stdout, outp, astray, last, ret>>

pclose ==
    /\ ctl = "pclose"
    /\ fds' = Close(fds, pipe_to_clang) /\ pipe_to_clang' = -1
    /\ ctl' = "read"
    /\ UNCHANGED <<files, buf, brk, saved_stdout, outp, astray, last, ret>>

\* The object is read; close(outp[0]), dup2(saved_stdout, 1), close(saved_stdout).
restore ==
    /\ ctl = "read"
    /\ fds' = Close(Put(Close(fds, outp[1]), 1, fds[saved_stdout]), saved_stdout)
    /\ saved_stdout' = -1 /\ outp' = <<-1, -1>>
    /\ ctl' = "run"
    /\ UNCHANGED <<files, buf, brk, pipe_to_clang, astray, last, ret>>
-----------------------------------------------------------------------------
(***************************************************************************)
(* The tables and the handlers.  Registers hold numbers, or the name of a  *)
(* file for a pointer to one.                                              *)
(***************************************************************************)
Implemented == [exit |-> {93, 94}, read |-> {63}, write |-> {64}, openat |-> {56},
                close |-> {57}, fstat |-> {80}, lseek |-> {62}, brk |-> {214},
                gettimeofday |-> {169}]
Unimplemented == {67, 291, 79, 37, 35, 34, 38, 17, 160, 172, 174, 175, 176, 177, 178, 131,
                  222, 215, 216, 226, 134, 153, 66, 48, 25, 46, 61, 23, 24, 135, 113, 49}

syscall_table(n) ==
    IF n \in Unimplemented THEN "unimplemented"
    ELSE IF \E f \in DOMAIN Implemented : n \in Implemented[f]
    THEN CHOOSE f \in DOMAIN Implemented : n \in Implemented[f]
    ELSE "NULL"

old_syscall_table(k) ==
    CASE k = 0 -> "open" [] k \in {1, 2, 6, 9, 14, 15, 38} -> "unimplemented" [] OTHER -> "NULL"

ArraySize == 292
OldArraySize == 39
OLD_SYSCALL_THRESHOLD == 1024

\* The table entry of number n; the subtraction wraps around.
Lookup(n) ==
    LET k == (n - OLD_SYSCALL_THRESHOLD) % Word
    IN  IF n < ArraySize THEN syscall_table(n)
        ELSE IF k < OldArraySize THEN old_syscall_table(k)
        ELSE "NULL"

\* v & mask, for a mask of one bit.
HasFlag(v, mask) == (v \div mask) % 2 = 1

\* The flags in newlib's encoding, and in the host's.
NEWLIB_O == [O_WRONLY |-> 1, O_RDWR |-> 2, O_APPEND |-> 8, O_CREAT |-> 512, O_TRUNC |-> 1024,
             O_EXCL |-> 2048]
HOST_O == [O_WRONLY |-> 1, O_RDWR |-> 2, O_APPEND |-> 1024, O_CREAT |-> 64, O_TRUNC |-> 512,
           O_EXCL |-> 128]

\* Mutant: the guest's flags are handed to the host as they are.
convert_flags_not(flags) == { f \in DOMAIN HOST_O : HasFlag(flags, HOST_O[f]) }

\* The flags the host understands from what the guest passes.
convert_flags(flags) == { f \in DOMAIN NEWLIB_O : HasFlag(flags, NEWLIB_O[f]) }

\* A register as an int: its low half, signed.
ToInt(v) == LET low == v % IntWord IN IF low >= IntWord \div 2 THEN low - IntWord ELSE low

Returns(r) == fds' = r.table /\ files' = r.files /\ ret' = r.ret

sys_open(r) ==
    /\ Returns(P!Opened(fds, files, r.a0, convert_flags(r.a1)))
    /\ UNCHANGED <<buf, brk, ctl>>

sys_openat(r) ==
    /\ Returns(P!Opened(fds, files, r.a1, convert_flags(r.a2)))
    /\ UNCHANGED <<buf, brk, ctl>>

CloseHost(fd) ==
    /\ Returns(IF P!IsOpen(fds, fd) THEN P!Result(Close(fds, fd), files, 0)
               ELSE P!Result(fds, files, -1))
    /\ UNCHANGED <<buf, brk, ctl>>

\* Mutant: the standard streams are closed like any other descriptor.
sys_close_any(r) == CloseHost(ToInt(r.a0)) /\ UNCHANGED astray

\* The guard compares all of the register, close gets its low half.
sys_close(r) ==
    IF r.a0 > 2
    THEN /\ CloseHost(ToInt(r.a0))
         /\ astray' = astray \cup ({ToInt(r.a0)} \cap 0 .. 2)
    ELSE Returns(P!Result(fds, files, 0)) /\ UNCHANGED <<buf, brk, ctl, astray>>

sys_write(r) ==
    /\ Returns(P!Wrote(fds, files, ToInt(r.a0)))
    /\ UNCHANGED <<buf, brk, ctl>>

sys_read(r) ==
    LET fd == ToInt(r.a0)
        ok == P!Readable(fds, files, fd)
    IN  /\ buf' = IF ok THEN "data" ELSE buf
        /\ ret' = IF ok THEN 1
                  ELSE IF P!IsOpen(fds, fd) /\ "O_WRONLY" \notin fds[fd].flags THEN 0 ELSE -1
        /\ UNCHANGED <<fds, files, brk, ctl>>

sys_lseek(r) ==
    /\ ret' = IF P!IsOpen(fds, ToInt(r.a0)) /\ fds[ToInt(r.a0)] # P!Terminal THEN 0 ELSE -1
    /\ UNCHANGED <<fds, files, buf, brk, ctl>>

\* The guest's structure is only written if the host knows the descriptor.
sys_fstat(r) ==
    LET rc == IF P!IsOpen(fds, ToInt(r.a0)) THEN 0 ELSE -1
    IN  /\ ret' = rc
        /\ buf' = IF rc # 0 THEN buf ELSE "stat"
        /\ UNCHANGED <<fds, files, brk, ctl>>

sys_gettimeofday ==
    /\ buf' = "time" /\ ret' = 0
    /\ UNCHANGED <<fds, files, brk, ctl>>

sys_exit == ctl' = "exit" /\ UNCHANGED <<fds, files, buf, brk, ret>>

fatal == ctl' = "fatal" /\ UNCHANGED <<fds, files, buf, brk, ret>>

\* 0 asks for the present end; an end below the base fails the assertion, and
\* for a higher end the host may have no memory.
sys_brk(r) ==
    LET addr == IF r.a0 = 0 THEN brk ELSE r.a0 IN
    \/ addr < Base /\ fatal
    \/ addr > brk /\ fatal
    \/ /\ addr >= Base /\ brk' = addr /\ ret' = addr
       /\ UNCHANGED <<fds, files, buf, ctl>>

\* The registers of a call.  Where an int belongs the guest may leave anything
\* in the upper half.
Number == [open |-> 1024, openat |-> 56, close |-> 57, read |-> 63, write |-> 64, lseek |-> 62,
           fstat |-> 80, gettimeofday |-> 169, brk |-> 214, exit |-> 93, exit_group |-> 94]
FlagBits(flags) ==
    LET value(f) == IF f \in flags THEN NEWLIB_O[f] ELSE 0
    IN  value("O_WRONLY") + value("O_RDWR") + value("O_APPEND")
          + value("O_CREAT") + value("O_TRUNC") + value("O_EXCL")
Registers(req) ==
    CASE req.call = "open" -> [a7 |-> 1024, a0 |-> req.name, a1 |-> FlagBits(req.flags)]
      [] req.call = "openat" ->
           [a7 |-> 56, a0 |-> Word - 100, a1 |-> req.name, a2 |-> FlagBits(req.flags)]
      [] req.call = "other" -> [a7 |-> req.number]
      [] OTHER -> [a7 |-> Number[req.call], a0 |-> req.fd]

\* Calls a guest can make: what stands for a descriptor is any register, and a
\* call that is not one of the above has another number.  Bound: brk addresses
\* are in the lower half of the range, where the increment is no negative
\* number (syscall.c:164).
ASSUME RequestsAssumption ==
    \A req \in Requests :
        \/ /\ req.call \in {"open", "openat"}
           /\ req.name \in Names /\ req.flags \in SUBSET DOMAIN NEWLIB_O
        \/ /\ req.call \in {"close", "read", "write", "lseek", "fstat"}
           /\ req.fd \in 0 .. Word - 1
        \/ req.call = "brk" /\ req.fd \in 0 .. (Word \div 2) - 1
        \/ req.call \in {"gettimeofday", "exit", "exit_group"}
        \/ /\ req.call = "other"
           /\ req.number \in (0 .. Word - 1) \ { Number[c] : c \in DOMAIN Number }

\* main and do_syscall.
do_syscall(req) ==
    LET r == Registers(req)
        f == Lookup(r.a7)
    IN  /\ ctl = "run" /\ last' = req /\ UNCHANGED held
        /\ \/ f = "close" /\ sys_close(r)
           \/ /\ \/ f = "open" /\ sys_open(r)
                 \/ f = "openat" /\ sys_openat(r)
                 \/ f = "write" /\ sys_write(r)
                 \/ f = "read" /\ sys_read(r)
                 \/ f = "lseek" /\ sys_lseek(r)
                 \/ f = "fstat" /\ sys_fstat(r)
                 \/ f = "gettimeofday" /\ sys_gettimeofday
                 \/ f = "brk" /\ sys_brk(r)
                 \/ f = "exit" /\ sys_exit
                 \/ f \in {"unimplemented", "NULL"} /\ fatal
              /\ UNCHANGED astray

machine_compile == make_pipe \/ redirect \/ popen \/ pclose \/ restore

Next == machine_load_program \/ machine_compile \/ \E req \in Requests : do_syscall(req)

Spec == Init /\ [][Next]_vars
-----------------------------------------------------------------------------
\* Types; what machine_compile holds is open and its own.
TypeOK ==
    /\ DOMAIN fds = Fds /\ DOMAIN files = Names
    /\ files \in [Names -> {"absent", "empty", "old", "new", "both"}]
    /\ buf \in {"nothing", "data", "stat", "time"}
    /\ ctl \in {"load", "run", "dup2", "popen", "pclose", "read", "exit", "fatal"}
    /\ brk \in Nat /\ brk >= Base /\ astray \subseteq 0 .. 2
    /\ Held \subseteq Fds \cup {-1}
    /\ \A fd \in Held \ {-1} : fds[fd] # P!Closed
    /\ ctl \in {"dup2", "popen", "pclose", "read"} => saved_stdout # -1 /\ outp[1] # -1

\* Whatever the guest closes, and however often code is compiled, it runs
\* with the three standard streams in their places.  The one exception: close
\* with a number of a stream in the low half of a register and something in
\* the upper half passes the guard of syscall.c:85.
StandardStreamsSurvive ==
    ctl \in {"run", "exit"} => \A fd \in (0 .. 2) \ astray : fds[fd] = P!Terminal

\* The guest's calls do what Posix says, by number, with their arguments and
\* flags in the guest's encoding, and compilations in between are invisible:
\* none of its descriptors is lost, exchanged or added.  brk moves the end of
\* memory.  The emulator ends only at a call it does not support, at a brk it
\* cannot serve, or with fewer than 4 free descriptors.
ImplementsPosix == P!Spec
=============================================================================
