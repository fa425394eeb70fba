----------------------------- MODULE MCCompile -----------------------------
(***************************************************************************)
(* Pipes of three blocks; sources and objects that fit, fill and overfill  *)
(* them; objects without constants, with two constants, and with constants *)
(* in two sections, which the linker does not support.                     *)
(***************************************************************************)
EXTENDS Compile

Sec(name, size, align) == [name |-> name, size |-> size, align |-> align]
Rela(off, addend, sec, value) ==
    [off |-> off, addend |-> addend, sec |-> sec, value |-> value]

MCObjects ==
    { [size |-> 1, secs |-> <<Sec(".strtab", 1, 0), Sec(".text", 3, 4)>>, relas |-> <<>>],
      [size |-> 4, secs |-> <<Sec(".text", 3, 4)>>, relas |-> <<>>] }
      \cup
    { [size |-> s,
       secs |-> <<Sec(".text", 5, 4), Sec(".rela.text", 2, 1), Sec(".rodata.cst16", 4, 2)>>,
       relas |-> <<Rela(1, -1, 3, 0), Rela(3, -2, 3, 2)>>] : s \in {2, 3} }
      \cup
    { [size |-> 3,
       secs |-> <<Sec(".text", 5, 4), Sec(".rodata.cst16", 4, 2), Sec(".rodata.cst8", 2, 2)>>,
       relas |-> <<Rela(1, -1, 2, 0), Rela(3, -2, 3, 0)>>] }
=============================================================================
