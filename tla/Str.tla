-------------------------------- MODULE Str --------------------------------
(***************************************************************************)
(* The growing strings (src/src/str.c, src/inc/riscvemu.h:127-152) and how *)
(* machine_genblock uses its two static ones (src/src/codegen.c:1077-1124):*)
(* the body of the function is collected in one and then appended to the   *)
(* other.  A string is a pointer into a heap block behind a header with    *)
(* its length and capacity; realloc may move the block, and then only the  *)
(* pointer that str_append returns is valid.  The functions that print an  *)
(* instruction or the locals get the pointer by value and return it, so    *)
(* that the static one is out of date until they have returned.  Memory is *)
(* kept cell by cell.                                                      *)
(***************************************************************************)
EXTENDS Integers, Sequences

CONSTANTS
    STR_MAX_PREALLOC,  \* where doubling the capacity ends
    Pieces,            \* the texts that are appended
    MaxLen,            \* bound: length of a string
    MaxCalls           \* bound: calls of machine_genblock

NUL == 0
Junk == -1  \* what fresh memory holds

\* No piece is empty: an empty one appended to a new string would write its
\* terminator outside the block.
ASSUME StrAssumption ==
    /\ STR_MAX_PREALLOC \in Nat /\ MaxLen \in Nat /\ MaxCalls \in Nat
    /\ Pieces \subseteq Seq(Nat \ {NUL}) /\ <<>> \notin Pieces

Strs == {"body", "source"}

VARIABLES
    ctl,        \* where machine_genblock is
    calls,      \* calls of it so far
    ptr,        \* string -> the static pointer: the number of a block, 0 is NULL
    called,     \* the string a func_* or tracer_append_* was called with, or "none"
    local,      \* its parameter s
    block,      \* string -> the block that is allocated
    len, alloc, \* string -> the fields of its header
    size,       \* string -> cells allocated behind the header
    data,       \* string -> cell -> contents
    overrun,    \* something was written behind the end of a block
    text        \* string -> what has been appended since it was cleared

callee == <<called, local>>
memory == <<block, len, alloc, size, data, overrun, text>>
vars == <<ctl, calls, ptr, callee, memory>>

Init ==
    /\ ctl = "idle" /\ calls = 0
    /\ called = "none" /\ local = 0
    /\ ptr = [s \in Strs |-> 0] /\ block = [s \in Strs |-> 0]
    /\ len = [s \in Strs |-> 0] /\ alloc = [s \in Strs |-> 0]
    /\ size = [s \in Strs |-> 0] /\ data = [s \in Strs |-> <<>>]
    /\ overrun = FALSE
    /\ text = [s \in Strs |-> <<>>]
-----------------------------------------------------------------------------
str_new(s) ==
    /\ ptr' = [ptr EXCEPT ![s] = 1] /\ block' = [block EXCEPT ![s] = 1]
    /\ len' = [len EXCEPT ![s] = 0] /\ alloc' = [alloc EXCEPT ![s] = 0]
    /\ size' = [size EXCEPT ![s] = 0] /\ data' = [data EXCEPT ![s] = [k \in {} |-> NUL]]
    /\ text' = [text EXCEPT ![s] = <<>>]
    /\ UNCHANGED overrun

\* Mutant: only the terminator is written.
str_clear_terminator(s) ==
    /\ data' = [data EXCEPT ![s] = [k \in 0 .. size[s] - 1 |-> IF k = 0 THEN NUL ELSE data[s][k]]]
    /\ overrun' = (overrun \/ 0 >= size[s])
    /\ text' = [text EXCEPT ![s] = <<>>]
    /\ UNCHANGED <<ptr, block, len, alloc, size>>

str_clear(s) ==
    /\ len' = [len EXCEPT ![s] = 0]
    /\ data' = [data EXCEPT ![s] = [k \in 0 .. size[s] - 1 |-> IF k = 0 THEN NUL ELSE data[s][k]]]
    /\ overrun' = (overrun \/ 0 >= size[s])
    /\ text' = [text EXCEPT ![s] = <<>>]
    /\ UNCHANGED <<ptr, block, alloc, size>>

\* A static string is made once and cleared from then on.
DECLEAR_STATIC_STR(s) == IF ptr[s] # 0 THEN str_clear(s) ELSE str_new(s)

Grows(s, addlen) == alloc[s] - len[s] < addlen

NewLen(s, addlen) ==
    LET newlen == len[s] + addlen
    IN  IF newlen < STR_MAX_PREALLOC THEN newlen * 2 ELSE newlen + STR_MAX_PREALLOC

\* Mutant: no room for the terminator.
Cells_without_terminator(newlen) == newlen

\* Cells realloc is asked for, behind the header.
Cells(newlen) == newlen + 1

\* Where realloc may put the block.
Moves(s, n) == IF Grows(s, n) THEN {block[s], block[s] + 1} ELSE {block[s]}

\* What str_make_room, and with it str_append, returns when it was given p.
Returned(s, p, n, now) == IF Grows(s, n) THEN now ELSE p

\* str_append on string s, where what is appended is known to be the text g,
\* and str_make_room leaves the block at now; cells that fit are kept.
str_append(s, t, g, now) ==
    LET grows == Grows(s, Len(t))
        cap == IF grows THEN NewLen(s, Len(t)) ELSE alloc[s]
        cells == IF grows THEN Cells(cap) ELSE size[s]
        end == len[s] + Len(t)
        Old(k) == IF k < size[s] THEN data[s][k] ELSE Junk
    IN  /\ now \in Moves(s, Len(t))
        /\ block' = [block EXCEPT ![s] = now]
        /\ alloc' = [alloc EXCEPT ![s] = cap]
        /\ size' = [size EXCEPT ![s] = cells]
        /\ data' = [data EXCEPT ![s] = [k \in 0 .. cells - 1 |->
                      IF k = end THEN NUL
                      ELSE IF len[s] <= k /\ k < end THEN t[k - len[s] + 1]
                      ELSE Old(k)]]
        /\ overrun' = (overrun \/ end >= cells)
        /\ len' = [len EXCEPT ![s] = end]
        /\ text' = [text EXCEPT ![s] = @ \o g]
-----------------------------------------------------------------------------
(***************************************************************************)
(* machine_genblock, as far as its strings go.                             *)
(***************************************************************************)
begin ==
    /\ ctl = "idle" /\ calls < MaxCalls
    /\ DECLEAR_STATIC_STR("body")
    /\ ctl' = "first" /\ calls' = calls + 1
    /\ UNCHANGED callee

\* Bound: the length of the text.
Fits(s, n) == len[s] + n <= MaxLen

\* s = str_append(s, t) for a static string.
append(s, t, g) ==
    /\ called = "none" /\ Fits(s, Len(t))
    /\ \E now \in Moves(s, Len(t)) :
         /\ str_append(s, t, g, now)
         /\ ptr' = [ptr EXCEPT ![s] = Returned(s, ptr[s], Len(t), now)]
    /\ UNCHANGED callee

\* The label of an instruction, and the goto behind it.
append_to_body(t) ==
    /\ ctl \in {"first", "body"}
    /\ append("body", t, t)
    /\ ctl' = "body" /\ UNCHANGED calls

\* funcs[insn.type](body, ...), tracer_append_prologue and tracer_append_epilogue
\* are called.
call(s) ==
    /\ called = "none"
    /\ \/ s = "body" /\ ctl = "body"
       \/ s = "source" /\ ctl \in {"head", "tail"}
    /\ called' = s /\ local' = ptr[s]
    /\ UNCHANGED <<ctl, calls, ptr, memory>>

\* s = str_append(s, t) in such a function.
func_append(t) ==
    /\ called # "none" /\ Fits(called, Len(t))
    /\ \E now \in Moves(called, Len(t)) :
         /\ str_append(called, t, t, now)
         /\ local' = Returned(called, local, Len(t), now)
    /\ UNCHANGED <<ctl, calls, ptr, called>>

\* Mutant: the function is called for its effect, its result is ignored.
return_ignored ==
    /\ called # "none"
    /\ called' = "none" /\ local' = 0
    /\ UNCHANGED <<ctl, calls, ptr, memory>>

\* return s; the caller assigns it to the static string.
return ==
    /\ called # "none"
    /\ ptr' = [ptr EXCEPT ![called] = local]
    /\ called' = "none" /\ local' = 0
    /\ UNCHANGED <<ctl, calls, memory>>

begin_source ==
    /\ ctl = "body" /\ called = "none"
    /\ DECLEAR_STATIC_STR("source")
    /\ ctl' = "head" /\ UNCHANGED <<calls, callee>>

\* Includes and declarations before the body, the end of the function after it.
append_to_source(t) ==
    /\ ctl \in {"head", "tail"}
    /\ append("source", t, t)
    /\ UNCHANGED <<ctl, calls>>

\* strlen: the first terminator.
IsFirstNul(s, k) == data[s][k] = NUL /\ \A j \in 0 .. k - 1 : data[s][j] # NUL
strlen(s) == CHOOSE k \in 0 .. size[s] - 1 : IsFirstNul(s, k)
Chars(s) == [k \in 1 .. strlen(s) |-> data[s][k - 1]]

append_body ==
    /\ ctl = "head"
    /\ append("source", Chars("body"), text["body"])
    /\ ctl' = "tail" /\ UNCHANGED calls

\* The source goes to clang, str_len(source) cells of it.
finish ==
    /\ ctl = "tail" /\ called = "none"
    /\ ctl' = "idle"
    /\ UNCHANGED <<calls, ptr, callee, memory>>

Next ==
    \/ begin \/ begin_source \/ append_body \/ finish
    \/ \E t \in Pieces : append_to_body(t) \/ append_to_source(t) \/ func_append(t)
    \/ \E s \in Strs : call(s)
    \/ return

Spec == Init /\ [][Next]_vars
-----------------------------------------------------------------------------
\* Types; a header never claims more than its block has, and there is room
\* for the terminator as soon as anything was appended.
TypeOK ==
    /\ ctl \in {"idle", "first", "body", "head", "tail"} /\ calls \in Nat
    /\ called \in Strs \cup {"none"} /\ local \in Nat
    /\ ptr \in [Strs -> Nat] /\ block \in [Strs -> Nat]
    /\ len \in [Strs -> Nat] /\ alloc \in [Strs -> Nat] /\ size \in [Strs -> Nat]
    /\ overrun \in BOOLEAN /\ text \in [Strs -> Seq(Nat \ {NUL})]
    /\ \A s \in Strs : /\ len[s] <= alloc[s]
                       /\ size[s] = (IF alloc[s] = 0 THEN 0 ELSE alloc[s] + 1)

\* Nothing is written behind the end of a block, terminators included, though
\* a new string has no cells at all.
NoOverrun == ~overrun

\* The pointer through which a string is used next: while a function has it,
\* the function's parameter.
PointerTo(s) == IF called = s THEN local ELSE ptr[s]

\* No string is used through a pointer to a block that realloc has given up:
\* every function that appends keeps what str_append returns and hands it to
\* its caller, and the caller keeps that, however often the block has moved.
PointerIsLive == \A s \in Strs : PointerTo(s) = block[s]

\* However often a string was grown, moved and cleared before, it holds what
\* was appended since, and the terminator: also the source, into which the
\* body was copied up to its first terminator.
TextIsIntact ==
    \A s \in Strs : size[s] > 0 =>
        /\ len[s] = Len(text[s])
        /\ \A k \in 1 .. len[s] : data[s][k - 1] = text[s][k]
        /\ data[s][len[s]] = NUL
=============================================================================
