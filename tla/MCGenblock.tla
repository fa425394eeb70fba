----------------------------- MODULE MCGenblock -----------------------------
(***************************************************************************)
(* Every program of four instruction slots whose last one ends a block:    *)
(* loops, diamonds, jumps into the middle of a 4-byte instruction, jumps   *)
(* to 0 and off the end; and every way to use registers in the first slot. *)
(* Three stack elements and four set slots are few enough to overflow and  *)
(* to collide.                                                             *)
(***************************************************************************)
EXTENDS Genblock

G(form, rvc, target) ==
    [type |-> ClassOf(form), form |-> form, rvc |-> rvc, target |-> target,
     rd |-> 1, rs1 |-> 2, rs2 |-> 3, rs3 |-> 4]

Body ==
    { G("op", TRUE, 0), G("fused", FALSE, 0), G("jalr", TRUE, 0) }
        \cup { G("branch", TRUE, t) : t \in {2, 4, 6, 8} }
        \cup { G("jal", TRUE, t) : t \in {2, 8} }

\* One of every form; f0 is a register as any other, x0 is not.
Every ==
    { [G(f, FALSE, 4) EXCEPT !.rd = IF f \in FpForms \ {"fmv_x", "fcmp"} THEN 0 ELSE 1] :
        f \in Forms \ {"branch", "jal"} }
      \cup { [G(f, FALSE, 4) EXCEPT !.rd = 0, !.rs1 = 0] : f \in {"op", "csr", "fcmp"} }

Last == { G("branch", FALSE, 2), G("jal", FALSE, 0), G("jal", FALSE, 4),
          G("ecall", FALSE, 0), G("interp", FALSE, 0) }

MCPrograms == { g \in [{2, 4, 6, 8} -> Body \cup Every \cup Last] :
                  /\ \/ g[2] \in Body /\ g[4] \in Body
                     \/ g[2] \in Every /\ g[4] = G("op", TRUE, 0)
                  /\ g[6] \in Body /\ g[8] \in Last }
=============================================================================
