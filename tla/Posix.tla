------------------------------- MODULE Posix -------------------------------
(***************************************************************************)
(* What a guest may expect of its file descriptors: a table of its own, in *)
(* which open takes the lowest free number, 0 to 2 stay open, and nothing  *)
(* changes but by its own calls.  Files are contents without offsets: a    *)
(* write replaces what a file holds, or adds to it with O_APPEND.  And of  *)
(* brk: it moves the end of memory, never below its base.  The emulator    *)
(* may end the guest at a call it does not support, when fewer descriptors *)
(* are free than translating code needs, and at a brk below the base or    *)
(* for more memory than there is.                                          *)
(***************************************************************************)
EXTENDS Integers, FiniteSets

CONSTANTS
    Fds,       \* the numbers of file descriptors
    Names,     \* the files that the guest may open
    Requests,  \* bound: the calls the guest may make
    IntWord,   \* 2^32: an int is the low half of a register
    Base,      \* where the guest's memory for brk begins
    Start,     \* and where it ends at first
    Needed     \* free descriptors without which code is not translated

VARIABLES
    table,   \* descriptor -> [file, flags]
    files,   \* file -> "absent", "empty", "old", "new" or "both"
    buf,     \* what the guest's buffer holds
    brk,     \* the end of its memory
    status,  \* "running", "exited" or "killed"
    last,    \* the last call
    ret      \* its result

vars == <<table, files, buf, brk, status, last, ret>>

Closed == [file |-> "none", flags |-> {}]
Terminal == [file |-> "tty", flags |-> {"O_RDWR"}]

NoRequest == [call |-> "none"]

Init ==
    /\ table = [fd \in Fds |-> IF fd \in 0 .. 2 THEN Terminal ELSE Closed]
    /\ files \in [Names -> {"absent", "old"}]
    /\ buf = "nothing" /\ brk = Start /\ status = "running" /\ last = NoRequest /\ ret = 0
-----------------------------------------------------------------------------
Free(t) == { fd \in DOMAIN t : t[fd] = Closed }
Lowest(S) == CHOOSE fd \in S : \A other \in S : fd <= other
IsOpen(t, fd) == fd \in DOMAIN t /\ t[fd] # Closed

\* The descriptor that a call names: a signed number in half a register.
FdOf(req) ==
    LET low == req.fd % IntWord IN IF low < IntWord \div 2 THEN low ELSE low - IntWord

\* Each call on table t and files fs: the two after it, and its result.
Result(t, fs, r) == [table |-> t, files |-> fs, ret |-> r]

Opened(t, fs, name, flags) ==
    IF \/ Free(t) = {}
       \/ fs[name] = "absent" /\ "O_CREAT" \notin flags
       \/ fs[name] # "absent" /\ {"O_CREAT", "O_EXCL"} \subseteq flags
    THEN Result(t, fs, -1)
    ELSE LET fd == Lowest(Free(t))
             kept == flags \cap {"O_WRONLY", "O_RDWR", "O_APPEND"}
         IN  Result([t EXCEPT ![fd] = [file |-> name, flags |-> kept]],
                    [fs EXCEPT ![name] = IF @ = "absent" \/ "O_TRUNC" \in flags
                                         THEN "empty" ELSE @],
                    fd)

Wrote(t, fs, fd) ==
    IF ~IsOpen(t, fd) \/ t[fd].flags \cap {"O_WRONLY", "O_RDWR"} = {} THEN Result(t, fs, -1)
    ELSE IF t[fd].file \notin DOMAIN fs THEN Result(t, fs, 1)
    ELSE Result(t, [fs EXCEPT ![t[fd].file] =
                      IF @ \in {"old", "both"} /\ "O_APPEND" \in t[fd].flags THEN "both" ELSE "new"], 1)

\* A read that finds something; what a terminal gives is not told apart.
Readable(t, fs, fd) ==
    /\ IsOpen(t, fd) /\ "O_WRONLY" \notin t[fd].flags
    /\ t[fd].file \in DOMAIN fs => fs[t[fd].file] # "empty"
-----------------------------------------------------------------------------
Becomes(r) == table' = r.table /\ files' = r.files /\ ret' = r.ret

Open(req) ==
    /\ req.call \in {"open", "openat"}
    /\ Becomes(Opened(table, files, req.name, req.flags))
    /\ UNCHANGED <<buf, brk, status>>

\* The standard streams only seem to be closed.  The exception: a register
\* with more in it than the number of the stream closes it.
Close(req) ==
    /\ req.call = "close"
    /\ LET fd == FdOf(req) IN
       Becomes(IF req.fd \notin 0 .. 2 /\ IsOpen(table, fd)
               THEN Result([table EXCEPT ![fd] = Closed], files, 0)
               ELSE Result(table, files, IF req.fd \in 0 .. 2 THEN 0 ELSE -1))
    /\ UNCHANGED <<buf, brk, status>>

Write(req) ==
    /\ req.call = "write"
    /\ Becomes(Wrote(table, files, FdOf(req)))
    /\ UNCHANGED <<buf, brk, status>>

\* Calls that fill the buffer, if they succeed.
Fill(req, ok, what) ==
    /\ buf' = IF ok THEN what ELSE buf
    /\ ret' = IF ok THEN (IF what = "data" THEN 1 ELSE 0)
              ELSE IF what = "data" /\ IsOpen(table, FdOf(req))
                      /\ "O_WRONLY" \notin table[FdOf(req)].flags THEN 0 ELSE -1
    /\ UNCHANGED <<table, files, brk, status>>

Read(req) == req.call = "read" /\ Fill(req, Readable(table, files, FdOf(req)), "data")
Fstat(req) == req.call = "fstat" /\ Fill(req, IsOpen(table, FdOf(req)), "stat")
Gettimeofday(req) == req.call = "gettimeofday" /\ Fill(req, TRUE, "time")

\* A terminal cannot be positioned.
Lseek(req) ==
    /\ req.call = "lseek"
    /\ ret' = IF IsOpen(table, FdOf(req)) /\ table[FdOf(req)] # Terminal THEN 0 ELSE -1
    /\ UNCHANGED <<table, files, buf, brk, status>>

\* brk answers with the new end of memory; 0 asks for the present one.
Brk(req) ==
    /\ req.call = "brk"
    /\ LET end == IF req.fd = 0 THEN brk ELSE req.fd IN
       \/ end >= Base /\ brk' = end /\ ret' = end /\ UNCHANGED status
       \/ end \notin Base .. brk /\ status' = "killed" /\ UNCHANGED <<brk, ret>>
    /\ UNCHANGED <<table, files, buf>>

Exit(req) ==
    /\ req.call \in {"exit", "exit_group"}
    /\ status' = "exited"
    /\ UNCHANGED <<table, files, buf, brk, ret>>

Unsupported(req) ==
    /\ req.call = "other"
    /\ status' = "killed"
    /\ UNCHANGED <<table, files, buf, brk, ret>>

Call(req) ==
    /\ status = "running" /\ last' = req
    /\ \/ Open(req) \/ Close(req) \/ Write(req) \/ Read(req) \/ Fstat(req)
       \/ Gettimeofday(req) \/ Lseek(req) \/ Brk(req) \/ Exit(req) \/ Unsupported(req)

OutOfDescriptors ==
    /\ status = "running" /\ Cardinality(Free(table)) < Needed
    /\ status' = "killed"
    /\ UNCHANGED <<table, files, buf, brk, last, ret>>

\* The guest does not even start.
Unloadable ==
    /\ status = "running" /\ last = NoRequest
    /\ status' = "killed"
    /\ UNCHANGED <<table, files, buf, brk, last, ret>>

Next == Unloadable \/ OutOfDescriptors \/ \E req \in Requests : Call(req)

Spec == Init /\ [][Next]_vars
=============================================================================
