------------------------------ MODULE Compile ------------------------------
(***************************************************************************)
(* machine_compile (src/src/compile.c): clang runs as a child process that *)
(* reads C source from one pipe and writes an object file to another, the  *)
(* emulator's standard output while it runs; then a small linker takes     *)
(* .text and .rodata.* out of the object, appends them to the code cache   *)
(* and patches .text.  Pipes and files are counted in blocks.  The child   *)
(* is external: it reads its input to the end, then writes its output, or  *)
(* fails and writes nothing.                                               *)
(***************************************************************************)
EXTENDS Integers, Sequences

CONSTANTS
    PIPE_CAP,     \* blocks a pipe holds
    BINBUF_CAP,   \* blocks of elfbuf
    Sources,      \* sizes of the generated C source
    Objects,      \* object files clang may produce
    Failures,     \* whether clang may fail
    MaxCompiles   \* bound: compilations

\* A Linux pipe holds 64 KiB, and so does elfbuf.
ASSUME CapAssumption ==
    /\ PIPE_CAP \in Nat \ {0} /\ BINBUF_CAP \in Nat \ {0} /\ PIPE_CAP <= BINBUF_CAP
    /\ Sources \subseteq Nat \ {0} /\ Failures \in BOOLEAN /\ MaxCompiles \in Nat

\* secs: the sections in order; relas: the relocations of .text, sec and value
\* the section and value of the symbol each refers to.
ASSUME ObjectsAssumption ==
    \A o \in Objects :
        /\ o.size \in Nat \ {0}
        /\ o.secs \in Seq([name : STRING, size : Nat, align : Nat])
        /\ o.relas \in Seq([off : Nat, addend : Int, sec : Nat, value : Nat])

\* There is a .text (machine_compile asserts it), and an assembler for x86-64
\* relocates no place twice.
ASSUME LinkableAssumption ==
    \A o \in Objects :
        /\ \E k \in 1 .. Len(o.secs) : o.secs[k].name = ".text"
        /\ \A j, k \in 1 .. Len(o.relas) : o.relas[j].off = o.relas[k].off => j = k

VARIABLES
    ctl,      \* where the emulator is
    src,      \* blocks of source not yet written
    srcpipe,  \* blocks in the pipe to clang
    srcopen,  \* the emulator still holds the writing end of it
    clang,    \* "none", "read", "write", "failed" or "exited"
    obj,      \* the object clang is to write, or is writing
    left,     \* blocks of it not yet written
    outpipe,  \* blocks in the pipe from clang, or -1: no such pipe
    stdout,   \* what file descriptor 1 is: "terminal" or "pipe"
    elfbuf,   \* which compilation each block of elfbuf is from
    n,        \* compilations begun
    offset,   \* cache->offset
    place,    \* where rodata and text were put
    rel,      \* relocations applied
    code      \* patched places of .text: offset -> displacement

io == <<src, srcpipe, srcopen, clang, left, outpipe, stdout>>
linker == <<offset, place, rel, code>>
vars == <<ctl, src, srcpipe, srcopen, clang, obj, left, outpipe, stdout, elfbuf, n,
          offset, place, rel, code>>

Init ==
    /\ ctl = "idle"
    /\ src = 0 /\ srcpipe = 0 /\ srcopen = FALSE
    /\ clang = "none" /\ obj \in Objects /\ left = 0
    /\ outpipe = -1 /\ stdout = "terminal"
    /\ elfbuf = [b \in 1 .. BINBUF_CAP |-> 0]
    /\ n = 0
    /\ offset = 0 /\ place = [rodata |-> 0, text |-> 0]
    /\ rel = 0 /\ code = [k \in {} |-> 0]
-----------------------------------------------------------------------------
\* pipe, dup2, popen: from here on file descriptor 1 is the pipe, in the
\* emulator and in clang.
popen ==
    /\ ctl = "idle" /\ n < MaxCompiles
    /\ ctl' = "fwrite" /\ n' = n + 1
    /\ src' \in Sources /\ srcpipe' = 0 /\ srcopen' = TRUE
    /\ obj' \in Objects
    /\ clang' = "read" /\ left' = obj'.size
    /\ outpipe' = 0 /\ stdout' = "pipe"
    /\ rel' = 0 /\ code' = [k \in {} |-> 0]
    /\ UNCHANGED <<elfbuf, offset, place>>

\* A write to a pipe that nobody reads any more kills the emulator (SIGPIPE).
fwrite ==
    /\ ctl = "fwrite" /\ src > 0
    /\ \/ /\ clang \notin {"failed", "exited"} /\ srcpipe < PIPE_CAP
          /\ srcpipe' = srcpipe + 1 /\ src' = src - 1
          /\ UNCHANGED ctl
       \/ /\ clang \in {"failed", "exited"}
          /\ ctl' = "dead" /\ UNCHANGED <<src, srcpipe>>
    /\ UNCHANGED <<srcopen, clang, obj, left, outpipe, stdout, elfbuf, n, linker>>

\* Mutant: clang's input is left open.
pclose_leaves_open ==
    /\ ctl = "fwrite" /\ src = 0
    /\ ctl' = "wait"
    /\ UNCHANGED <<io, obj, elfbuf, n, linker>>

\* pclose closes the pipe, which ends clang's input, and waits for clang.
pclose ==
    /\ ctl = "fwrite" /\ src = 0
    /\ ctl' = "wait" /\ srcopen' = FALSE
    /\ UNCHANGED <<src, srcpipe, clang, obj, left, outpipe, stdout, elfbuf, n, linker>>

\* Mutant: does not wait.
wait_not ==
    /\ ctl = "wait"
    /\ ctl' = "read"
    /\ UNCHANGED <<io, obj, elfbuf, n, linker>>

wait ==
    /\ ctl = "wait" /\ clang \in {"failed", "exited"}
    /\ ctl' = "read"
    /\ UNCHANGED <<io, obj, elfbuf, n, linker>>

\* Mutant: standard output is not given back.
read_keeps_stdout ==
    /\ ctl = "read" /\ outpipe > 0
    /\ elfbuf' = [b \in DOMAIN elfbuf |-> IF b <= outpipe THEN n ELSE elfbuf[b]]
    /\ ctl' = "link" /\ outpipe' = -1
    /\ UNCHANGED <<src, srcpipe, srcopen, clang, left, stdout, obj, n, linker>>

\* One read of up to BINBUF_CAP blocks, then standard output is restored.
\* The emulator itself holds a writing end of the pipe: an empty pipe is not
\* the end of the file, read waits for ever.
read ==
    /\ ctl = "read" /\ outpipe > 0
    /\ elfbuf' = [b \in DOMAIN elfbuf |-> IF b <= outpipe THEN n ELSE elfbuf[b]]
    /\ ctl' = "link" /\ outpipe' = -1 /\ stdout' = "terminal"
    /\ UNCHANGED <<src, srcpipe, srcopen, clang, left, obj, n, linker>>
-----------------------------------------------------------------------------
\* clang, external.
clang_reads ==
    /\ clang = "read" /\ srcpipe > 0
    /\ srcpipe' = srcpipe - 1
    /\ UNCHANGED <<ctl, src, srcopen, clang, obj, left, outpipe, stdout, elfbuf, n, linker>>

clang_compiles ==
    /\ clang = "read" /\ srcpipe = 0 /\ ~srcopen
    /\ clang' = "write"
    /\ UNCHANGED <<ctl, src, srcpipe, srcopen, obj, left, outpipe, stdout, elfbuf, n, linker>>

\* It is not installed, or rejects the source: it may not even read it.
clang_fails ==
    /\ Failures /\ clang = "read"
    /\ clang' = "failed"
    /\ UNCHANGED <<ctl, src, srcpipe, srcopen, obj, left, outpipe, stdout, elfbuf, n, linker>>

\* A write waits while the pipe is full.
clang_writes ==
    /\ clang = "write" /\ left > 0 /\ outpipe < PIPE_CAP
    /\ left' = left - 1
    /\ outpipe' = IF outpipe = -1 THEN -1 ELSE outpipe + 1
    /\ UNCHANGED <<ctl, src, srcpipe, srcopen, clang, obj, stdout, elfbuf, n, linker>>

clang_exits ==
    /\ clang = "write" /\ left = 0
    /\ clang' = "exited"
    /\ UNCHANGED <<ctl, src, srcpipe, srcopen, obj, left, outpipe, stdout, elfbuf, n, linker>>
-----------------------------------------------------------------------------
\* The section scan: the last section of each name wins, 0 means none.
\* strncmp(".rodata.") matches .rodata.cst16 and the like, not .rodata.
IndexOf(names) ==
    LET found == { k \in 1 .. Len(obj.secs) : obj.secs[k].name \in names }
    IN  IF found = {} THEN 0 ELSE CHOOSE k \in found : \A j \in found : j <= k

RodataDot == {".rodata.cst8", ".rodata.cst16"}

rodata_idx == IndexOf(RodataDot)
text_idx == IndexOf({".text"})

align_to(val, align) == IF align = 0 THEN val ELSE ((val + align - 1) \div align) * align

\* cache_add: where a section of size sz goes.
PlaceOf(at, sec) == align_to(at, sec.align)

\* Without relocations or without .rodata.* only .text is installed.
link_text_only ==
    /\ ctl = "link" /\ (obj.relas = <<>> \/ rodata_idx = 0)
    /\ place' = [place EXCEPT !.text = PlaceOf(offset, obj.secs[text_idx])]
    /\ offset' = place'.text + obj.secs[text_idx].size
    /\ ctl' = "idle"
    /\ UNCHANGED <<io, obj, elfbuf, n, rel, code>>

\* cache_add of .rodata, then of .text.
link_sections ==
    /\ ctl = "link" /\ obj.relas # <<>> /\ rodata_idx # 0
    /\ LET r == PlaceOf(offset, obj.secs[rodata_idx])
           t == PlaceOf(r + obj.secs[rodata_idx].size, obj.secs[text_idx])
       IN  /\ place' = [rodata |-> r, text |-> t]
           /\ offset' = t + obj.secs[text_idx].size
    /\ ctl' = "relocate"
    /\ UNCHANGED <<io, obj, elfbuf, n, rel, code>>

\* Mutant: the relocation is made relative to the start of .text.
Displacement_of_text(r) == place.rodata + r.value + r.addend - place.text

\* S + A - P, where S takes every symbol to be in the .rodata.* section.
Displacement(r) ==
    LET S == place.rodata + r.value
        P == place.text + r.off
    IN  S + r.addend - P

relocate ==
    /\ ctl = "relocate" /\ rel < Len(obj.relas)
    /\ LET r == obj.relas[rel + 1] IN
       code' = [k \in DOMAIN code \cup {r.off} |-> IF k = r.off THEN Displacement(r) ELSE code[k]]
    /\ rel' = rel + 1
    /\ UNCHANGED <<ctl, io, obj, elfbuf, n, offset, place>>

linked ==
    /\ ctl = "relocate" /\ rel = Len(obj.relas)
    /\ ctl' = "idle"
    /\ UNCHANGED <<io, obj, elfbuf, n, linker>>

Emulator ==
    popen \/ fwrite \/ pclose \/ wait \/ read
      \/ link_text_only \/ link_sections \/ relocate \/ linked

Clang == clang_reads \/ clang_compiles \/ clang_fails \/ clang_writes \/ clang_exits

Next == Emulator \/ Clang

\* Both processes are scheduled; whether clang fails is not.
Fairness == WF_vars(fwrite \/ pclose \/ wait \/ read \/ link_text_only \/ link_sections
                      \/ relocate \/ linked)
              /\ WF_vars(clang_reads \/ clang_compiles \/ clang_writes \/ clang_exits)

Spec == Init /\ [][Next]_vars /\ Fairness
-----------------------------------------------------------------------------
\* Types; a pipe never holds more than its capacity.
TypeOK ==
    /\ ctl \in {"idle", "fwrite", "wait", "read", "link", "relocate", "dead"}
    /\ srcpipe \in 0 .. PIPE_CAP /\ outpipe \in -1 .. PIPE_CAP
    /\ src \in Nat /\ left \in Nat
    /\ clang \in {"none", "read", "write", "failed", "exited"}
    /\ stdout \in {"terminal", "pipe"}
    /\ elfbuf \in [1 .. BINBUF_CAP -> 0 .. n]
    /\ rel \in 0 .. Len(obj.relas)

\* The linker works on the whole object of this compilation, though elfbuf is
\* static, is never cleared, and is filled by one read.
LinksWholeObject ==
    ctl \in {"link", "relocate"} =>
        obj.size <= BINBUF_CAP /\ \A b \in 1 .. obj.size : elfbuf[b] = n

\* Whenever the guest runs, file descriptor 1 is the emulator's own standard
\* output again, the pipe is closed and clang is gone: what the guest prints
\* cannot end up in an object file.
StdoutIsTheGuests ==
    ctl = "idle" => stdout = "terminal" /\ outpipe = -1 /\ clang \in {"none", "exited"}

\* Objects with one .rodata.* section, to which every relocation refers.
Supported(o) ==
    /\ \A j, k \in 1 .. Len(o.secs) :
         o.secs[j].name \in RodataDot /\ o.secs[k].name \in RodataDot => j = k
    /\ \A k \in 1 .. Len(o.relas) :
         /\ o.relas[k].sec \in 1 .. Len(o.secs)
         /\ o.secs[o.relas[k].sec].name \in RodataDot

\* When such an object is installed, every patched instruction finds its
\* constant: its end (the patched place minus the addend) plus the
\* displacement is the constant's address in the code cache, inside .rodata.
ConstantsAreReached ==
    ctl = "idle" /\ n > 0 /\ Supported(obj) =>
        \A k \in 1 .. Len(obj.relas) :
            LET r == obj.relas[k]
                target == (place.text + r.off - r.addend) + code[r.off]
            IN  /\ target = place.rodata + r.value
                /\ r.value < obj.secs[r.sec].size => target < place.text

\* A compilation comes to an end: it returns, or the emulator dies, or it
\* waits for ever because clang failed or the object does not fit the pipe.
\* The last two are what is left of the protocol's deadlocks.
CompilationEnds ==
    ctl = "fwrite" ~> \/ ctl \in {"idle", "dead"}
                      \/ clang = "failed"
                      \/ obj.size > PIPE_CAP
=============================================================================
