------------------------------ MODULE MCCache ------------------------------
(***************************************************************************)
(* A table of 4 slots for 5 pcs: 2 and 6 hash to one slot, 3 and 7 to the  *)
(* next, which is the last one (so probes wrap around), 9 to the slot      *)
(* before.  The buffer is full before every pc is compiled.                *)
(***************************************************************************)
EXTENDS Cache

MCPCs == {2, 3, 6, 7, 9}

\* With and without .rodata, aligned and unaligned.
MCObjects == { [text |-> 2, talign |-> 2, rodata |-> 0, ralign |-> 0],
               [text |-> 1, talign |-> 2, rodata |-> 1, ralign |-> 1] }
=============================================================================
