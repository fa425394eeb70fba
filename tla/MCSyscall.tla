----------------------------- MODULE MCSyscall -----------------------------
(***************************************************************************)
(* Seven descriptors: three standard streams and at most four files, so    *)
(* that a compilation meets 0 to 4 free ones.  Registers are ints, -1      *)
(* sign-extended, and two whose upper half is not their sign.              *)
(***************************************************************************)
EXTENDS Syscall

MCRequests ==
    [call : {"open"}, name : Names, flags : {{}, {"O_RDWR", "O_CREAT", "O_EXCL"}}]
      \cup [call : {"openat"}, name : Names,
            flags : {{"O_WRONLY", "O_CREAT", "O_TRUNC"}, {"O_WRONLY", "O_APPEND"}}]
      \cup [call : {"close"}, fd : {1, 3, 4, IntWord + 1, Word - 1}]
      \cup [call : {"read", "write"}, fd : {1, IntWord + 3}]
      \cup [call : {"lseek", "fstat"}, fd : {3, Word - 1}]
      \cup [call : {"brk"}, fd : {0, Base - 1, Start + 1}]
      \cup [call : {"gettimeofday", "exit", "exit_group"}, fd : {0}]
      \cup [call : {"other"}, number : {58, 291, 292, 1023, 1062, 1063, Word - 1}]

\* Bound: once a standard stream is closed, what follows are closes and opens.
AfterAstray == astray = {} \/ last.call \in {"close", "open"}

\* Bound: a moved break, and the time in the buffer, are followed by calls of
\* the same kind and by compilations; after any other call the search stops.
AfterBrk == brk = Start \/ last.call = "brk"
AfterTime == buf # "time" \/ last.call = "gettimeofday"
=============================================================================
