------------------------------- MODULE MCMmu -------------------------------
(***************************************************************************)
(* Pages of four cells.  The files have a text and a data segment whose    *)
(* addresses are not page aligned, data with and without .bss, on the last *)
(* file page and beyond it, a header that is not loaded, segments out of   *)
(* order and a page aligned segment that is all .bss; one file begins with *)
(* the RISC-V attributes, one has nothing to load, and two have less memory*)
(* than file contents, by bytes or by pages; one file is cut off in its    *)
(* program headers, others are no RISC-V programs.  The command lines      *)
(* leave the stack pointer aligned and not, and fill a page exactly.       *)
(***************************************************************************)
EXTENDS Mmu

P(type, offset, vaddr, filesz, memsz) ==
    [type |-> type, offset |-> offset, vaddr |-> vaddr, filesz |-> filesz, memsz |-> memsz]

MCFile == <<2, 2, 2, 2, 2, 3, 3, 2, 2>>

Riscv64 == [complete |-> TRUE, magic |-> "ELFMAG", machine |-> "EM_RISCV",
            class |-> "ELFCLASS64"]

\* A file with all its program headers.
E(phdrs) == [ehdr |-> Riscv64, readable |-> Len(phdrs), phdrs |-> phdrs, file |-> MCFile]

TextAndData(m) ==
    E(<<P("PT_LOAD", 0, 0, 3, 3), P("other", 0, 0, 0, 0), P("PT_LOAD", 5, 5, 2, m)>>)

\* PT_RISCV_ATTRIBUTES: contents of the file, no memory.
Attributes == P("other", 6, 0, 3, 0)

MCElfs ==
    { TextAndData(m) : m \in {2, 3, 4} }
      \cup
    { E(<<P("PT_LOAD", 1, 5, 2, 2), P("PT_LOAD", 0, 0, f, 2)>>) : f \in {0, 1} }
      \cup
    { E(<<Attributes, P("PT_LOAD", 0, 0, 3, 3), P("PT_LOAD", 5, 5, f, 2)>>) : f \in {3, 4} }
      \cup
    { E(<<Attributes>>), E(<<>>) }
      \cup
    { [TextAndData(2) EXCEPT !.readable = 2], [TextAndData(2) EXCEPT !.ehdr.complete = FALSE],
      [TextAndData(2) EXCEPT !.ehdr.machine = "other"] }

MCArgvs == { <<>>, << <<5>> >>, << <<5, 6, 7>>, <<>> >>, << <<5>>, <<>>, <<6, 5>> >> }

MCStores == { <<4, 9>>, <<17, 9>>, <<21, 9>>, <<25, 9>>, <<27, 9>> }
=============================================================================
