---------------------------- MODULE MCGenerated ----------------------------
(***************************************************************************)
(* Three questions about generated code: is its source put together in     *)
(* bounds (Str), does it access memory in the order of the block (Alias),  *)
(* and which version of the guest's code is it made from (SelfMod).  They  *)
(* share no state, so a behaviour takes one of them, and the variables of  *)
(* the others keep their initial values.                                   *)
(*                                                                         *)
(* Strings grow by pieces of one and two cells, so that capacity is        *)
(* doubled, increased by STR_MAX_PREALLOC, and met exactly.  Accesses are  *)
(* all triples of loads and stores of one, two or four bytes, integers and *)
(* floats, through two registers that hold the same address, overlapping   *)
(* ones or disjoint ones.  Code has three addresses, so that blocks        *)
(* overlap, each written twice at most.                                    *)
(***************************************************************************)
EXTENDS Str, Alias, SelfMod

VARIABLE part  \* which of the three is explored

MCPieces == {<<1>>, <<2, 3>>}

Small == [insn : {"lb", "sb", "lh", "sh", "lw", "sw", "flw", "fsw"}, reg : {1, 2}]
MCBlocks == { <<p, q, r>> : p \in { a \in Small : a.reg = 1 }, q \in Small, r \in Small }

SomeBlock == CHOOSE b \in Blocks : TRUE
SomeAddr == CHOOSE a \in Addrs : TRUE

MCInit ==
    /\ part \in {"str", "alias", "selfmod"}
    /\ part = "alias" \/ (accesses = SomeBlock /\ regs = [r \in {1, 2} |-> SomeAddr])
    /\ part = "selfmod" \/ pc = 1
    /\ Init /\ AliasInit /\ SelfModInit

MCNext ==
    /\ UNCHANGED part
    /\ \/ part = "str" /\ Next /\ UNCHANGED <<aliasVars, selfmodVars>>
       \/ part = "alias" /\ AliasNext /\ UNCHANGED <<vars, selfmodVars>>
       \/ part = "selfmod" /\ SelfModNext /\ UNCHANGED <<vars, aliasVars>>

MCSpec == MCInit /\ [][MCNext]_<<part, vars, aliasVars, selfmodVars>>
=============================================================================
