------------------------------ MODULE CodeMap ------------------------------
(***************************************************************************)
(* What the dispatcher may rely on when it uses the code cache: one        *)
(* independent entry per guest pc.  An entry warms up, is then given code  *)
(* exactly once, and from that moment every lookup of the pc returns that  *)
(* code.  Hashing, probing and the layout of the code buffer, which        *)
(* Cache.tla models, are invisible here.                                   *)
(***************************************************************************)
EXTENDS Naturals

CONSTANTS
    PCs,              \* guest addresses that are dispatched
    CACHE_HOT_COUNT,  \* heat at which a pc is compiled
    CACHE_SIZE,       \* bytes of the code buffer: entry points lie below it
    NULL              \* the answer of a lookup that misses

VARIABLES
    heat,   \* pc -> 0..CACHE_HOT_COUNT
    entry,  \* pc -> entry point of its code, or NULL
    stage,  \* where the dispatcher is in its lookup / warm / install protocol
    cur,    \* the pc the protocol is about
    ret     \* what the last finished call returned

mapVars == <<heat, entry, stage, cur, ret>>

MapInit ==
    /\ heat = [p \in PCs |-> 0]
    /\ entry = [p \in PCs |-> NULL]
    /\ stage = "idle"
    /\ cur \in PCs
    /\ ret = NULL

\* A lookup changes no entry; it answers with the installed code, if any.
\* After a miss the dispatcher may look up again before it warms the pc.
Find(p) ==
    /\ stage \in {"idle", "miss"}
    /\ cur' = p
    /\ ret' = entry[p]
    /\ stage' = IF entry[p] = NULL THEN "miss" ELSE "idle"
    /\ UNCHANGED <<heat, entry>>

\* After a miss the pc, and no other, gets warmer.
Warm ==
    /\ stage = "miss"
    /\ \E h \in heat[cur]+1 .. CACHE_HOT_COUNT :
         /\ heat' = [heat EXCEPT ![cur] = h]
         /\ stage' = IF h = CACHE_HOT_COUNT THEN "compile" ELSE "idle"
    /\ UNCHANGED <<entry, cur, ret>>

\* A hot pc is given its code, once; no other pc is disturbed.
Install ==
    /\ stage = "compile"
    /\ entry[cur] = NULL
    /\ \E o \in 0 .. CACHE_SIZE :
         /\ entry' = [entry EXCEPT ![cur] = o]
         /\ ret' = o
    /\ stage' = "idle"
    /\ UNCHANGED <<heat, cur>>

\* The emulator may die in any call (an assertion), or never return.
Fail ==
    /\ stage # "dead"
    /\ stage' = "dead"
    /\ cur' \in PCs
    /\ UNCHANGED <<heat, entry, ret>>

MapNext == (\E p \in PCs : Find(p)) \/ Warm \/ Install \/ Fail

MapSpec == MapInit /\ [][MapNext]_mapVars
=============================================================================
