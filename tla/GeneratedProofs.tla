-------------------------- MODULE GeneratedProofs --------------------------
(***************************************************************************)
(* Three facts about generated code.  Its text is built in bounds, for     *)
(* every sequence of pieces and every value of STR_MAX_PREALLOC: nothing   *)
(* is written outside a block, no pointer is stale, and the text is what   *)
(* was appended.  For every length of the code, heat limit and number of   *)
(* writes, an instruction runs in an old form only in a block compiled     *)
(* before the write.  And for every block, memory and content of its       *)
(* registers, whatever order clang gives the accesses to memory, the       *)
(* result is the interpreter's, unless the guest accesses the same bytes   *)
(* in two widths.                                                          *)
(***************************************************************************)
EXTENDS Str, SelfMod, Alias, SequenceTheorems, TLAPS
-----------------------------------------------------------------------------
(***************************************************************************)
(* The text: dynamic strings.                                              *)
(***************************************************************************)

Texts == Seq(Nat \ {NUL})

\* What holds of one string at any time; a string without cells is empty.
Sound(s) ==
    /\ len[s] <= alloc[s]
    /\ size[s] = (IF alloc[s] = 0 THEN 0 ELSE alloc[s] + 1)
    /\ DOMAIN data[s] = 0 .. size[s] - 1
    /\ len[s] = Len(text[s])
    /\ \A k \in 1 .. len[s] : data[s][k - 1] = text[s][k]
    /\ size[s] > 0 => data[s][len[s]] = NUL

\* A string that will be cleared next, or read, has cells.
Phase ==
    /\ ctl \in {"body", "head", "tail"} => size["body"] > 0 /\ Len(text["body"]) > 0
    /\ ctl = "tail" => size["source"] > 0
    /\ ctl = "idle" /\ block["body"] # 0 => size["body"] > 0
    /\ ctl \in {"idle", "first", "body"} /\ block["source"] # 0 => size["source"] > 0

\* Only the string that a function works on has a static pointer that may be
\* out of date, and the function has been called where machine_genblock does.
Pointers ==
    /\ ptr \in [Strs -> Nat] /\ local \in Nat /\ called \in Strs \cup {"none"}
    /\ called = "body" => ctl = "body"
    /\ called = "source" => ctl \in {"head", "tail"}
    /\ PointerIsLive

StringTypes ==
    /\ block \in [Strs -> Nat]
    /\ len \in [Strs -> Nat] /\ alloc \in [Strs -> Nat] /\ size \in [Strs -> Nat]
    /\ DOMAIN data = Strs
    /\ overrun = FALSE /\ text \in [Strs -> Texts]

StrInv ==
    /\ ctl \in {"idle", "first", "body", "head", "tail"} /\ calls \in Nat
    /\ StringTypes /\ Phase /\ Pointers
    /\ \A s \in Strs : Sound(s)

\* The state of every string but s.
SameBut(s) ==
    \A o \in Strs \ {s} : /\ block'[o] = block[o]
                          /\ len'[o] = len[o] /\ alloc'[o] = alloc[o] /\ size'[o] = size[o]
                          /\ data'[o] = data[o] /\ text'[o] = text[o]

\* Appending a text to a sound string gives a sound string with cells, in
\* bounds: also to one that str_new has just made.
LEMMA AppendIsSound ==
    ASSUME StringTypes, NEW s \in Strs, Sound(s),
           NEW t, NEW g \in Texts, Len(t) = Len(g), Len(g) > 0,
           \A k \in 1 .. Len(g) : t[k] = g[k],
           NEW now, str_append(s, t, g, now)
    PROVE  /\ StringTypes' /\ Sound(s)' /\ SameBut(s) /\ size'[s] > 0 /\ Len(text'[s]) > 0
           /\ block'[s] = now /\ now \in Nat /\ Returned(s, block[s], Len(t), now) = now
<1> DEFINE n == Len(g)
           grows == Grows(s, n)
           cap == IF grows THEN NewLen(s, n) ELSE alloc[s]
           cells == IF grows THEN Cells(cap) ELSE size[s]
           end == len[s] + n
<1>1. n \in Nat /\ n > 0
  BY DEF Texts
<1>2. cap \in Nat /\ cap >= end /\ cap > 0
  BY <1>1, StrAssumption DEF StringTypes, Sound, Grows, NewLen
<1>3. cells = cap + 1
  BY <1>1, <1>2 DEF StringTypes, Sound, Grows, Cells
<1>4. /\ alloc' = [alloc EXCEPT ![s] = cap]
      /\ size' = [size EXCEPT ![s] = cells]
      /\ len' = [len EXCEPT ![s] = end]
      /\ text' = [text EXCEPT ![s] = text[s] \o g]
      /\ overrun' = (overrun \/ end >= cells)
      /\ now \in Moves(s, n) /\ block' = [block EXCEPT ![s] = now]
  BY DEF str_append, StringTypes
<1>14. now \in Nat /\ Returned(s, block[s], n, now) = now
  BY <1>4 DEF Moves, Returned, StringTypes
<1>5. text[s] \o g \in Texts
  BY DEF StringTypes, Texts
<1>6. StringTypes'
  <2>0. ~(end >= cells)
    BY <1>1, <1>2, <1>3 DEF StringTypes
  <2>1. overrun' = FALSE
    BY <2>0, <1>4, Zenon DEF StringTypes
  <2>2. DOMAIN data' = Strs
    BY DEF str_append, StringTypes
  <2>3. block' \in [Strs -> Nat]
    BY <1>4, <1>14 DEF StringTypes
  <2>4. end \in Nat /\ cells \in Nat
    BY <1>1, <1>2, <1>3 DEF StringTypes
  <2>5. len' \in [Strs -> Nat] /\ alloc' \in [Strs -> Nat] /\ size' \in [Strs -> Nat]
    <3> HIDE DEF end, cells, cap
    <3> QED
      BY <1>2, <1>4, <2>4 DEF StringTypes
  <2>6. text' \in [Strs -> Texts]
    BY <1>4, <1>5 DEF StringTypes
  <2> QED
    BY <2>1, <2>2, <2>3, <2>5, <2>6 DEF StringTypes
<1>7. SameBut(s)
  <2>1. \A o \in Strs \ {s} : data'[o] = data[o]
    BY DEF str_append, StringTypes
  <2> QED
    BY <2>1, <1>4 DEF SameBut, StringTypes
<1>8. /\ size'[s] = cap + 1 /\ alloc'[s] = cap /\ len'[s] = end
      /\ text'[s] = text[s] \o g /\ block'[s] = now
  BY <1>3, <1>4 DEF StringTypes
<1>9. /\ DOMAIN data'[s] = 0 .. cap
      /\ \A k \in 0 .. cap :
           data'[s][k] = IF k = end THEN NUL
                         ELSE IF len[s] <= k /\ k < end THEN t[k - len[s] + 1]
                         ELSE IF k < size[s] THEN data[s][k] ELSE Junk
  <2>1. data'[s] = [k \in 0 .. cells - 1 |->
                      IF k = end THEN NUL
                      ELSE IF len[s] <= k /\ k < end THEN t[k - len[s] + 1]
                      ELSE IF k < size[s] THEN data[s][k] ELSE Junk]
    BY DEF str_append, StringTypes
  <2>2. cells - 1 = cap
    BY <1>2, <1>3
  <2> QED
    BY <2>1, <2>2
<1>10. /\ Len(text[s] \o g) = end
       /\ \A k \in 1 .. end : (text[s] \o g)[k] = IF k <= len[s] THEN text[s][k] ELSE g[k - len[s]]
  BY ConcatProperties DEF StringTypes, Texts, Sound
<1>11. ASSUME NEW k \in 1 .. end
       PROVE  data'[s][k - 1] = (text[s] \o g)[k]
  <2> DEFINE j == k - 1
  <2>0. end \in Nat /\ len[s] \in Nat /\ k \in Int /\ k >= 1 /\ k <= end
    BY <1>1 DEF StringTypes
  <2>1. /\ j \in 0 .. cap /\ j # end /\ j < end
        /\ j < len[s] <=> k <= len[s]
        /\ j - len[s] + 1 = k - len[s]
    <3> HIDE DEF cap, end
    <3> QED
      BY <2>0, <1>2
  <2>4. data'[s][j] = IF len[s] <= j THEN t[k - len[s]]
                      ELSE IF j < size[s] THEN data[s][j] ELSE Junk
    <3> HIDE DEF j, cap, end
    <3> QED
      BY <1>9, <2>1
  <2>5. (text[s] \o g)[k] = IF k <= len[s] THEN text[s][k] ELSE g[k - len[s]]
    BY <1>10
  <2> HIDE DEF end, cap, cells, grows, n
  <2>2. CASE k <= len[s]
    <3>1. data'[s][k - 1] = data[s][k - 1]
      BY <2>0, <2>1, <2>2, <2>4 DEF Sound, StringTypes
    <3> QED
      BY <3>1, <2>5, <2>0, <2>2 DEF Sound
  <2>3. CASE k > len[s]
    <3>1. data'[s][k - 1] = t[k - len[s]]
      BY <2>0, <2>1, <2>3, <2>4
    <3>2. k - len[s] \in 1 .. Len(g)
      BY <2>0, <2>3, <1>1 DEF end, n
    <3> QED
      BY <3>1, <3>2, <2>5, <2>0, <2>3
  <2>6. k <= len[s] \/ k > len[s]
    BY <2>0
  <2> QED
    BY <2>2, <2>3, <2>6
<1>12. data'[s][end] = NUL
  BY <1>1, <1>2, <1>9 DEF StringTypes
<1>13. Len(text'[s]) > 0
  BY <1>1, <1>8, <1>10 DEF StringTypes
<1> QED
  BY <1>1, <1>2, <1>6, <1>7, <1>8, <1>9, <1>10, <1>11, <1>12, <1>13, <1>14 DEF Sound

\* A string that has cells, or is not there yet, is sound and empty once it
\* is declared.
LEMMA DeclareIsSound ==
    ASSUME StringTypes, NEW s \in Strs, Sound(s), ptr \in [Strs -> Nat],
           ptr[s] = block[s], ptr[s] # 0 => size[s] > 0, DECLEAR_STATIC_STR(s)
    PROVE  /\ StringTypes' /\ Sound(s)' /\ SameBut(s)
           /\ ptr' \in [Strs -> Nat] /\ ptr'[s] = block'[s]
           /\ \A o \in Strs \ {s} : ptr'[o] = ptr[o]
<1>0. <<>> \in Texts /\ Len(<<>>) = 0
  BY DEF Texts
<1>1. CASE ptr[s] # 0
  <2>1. str_clear(s)
    BY <1>1 DEF DECLEAR_STATIC_STR
  <2>2. /\ len' = [len EXCEPT ![s] = 0] /\ text' = [text EXCEPT ![s] = <<>>]
        /\ ptr' = ptr /\ block' = block /\ alloc' = alloc /\ size' = size
        /\ overrun' = (overrun \/ 0 >= size[s])
        /\ data' = [data EXCEPT ![s] = [k \in 0 .. size[s] - 1 |-> IF k = 0 THEN NUL ELSE data[s][k]]]
    BY <2>1 DEF str_clear
  <2>3. size[s] \in Nat /\ size[s] > 0
    BY <1>1 DEF StringTypes
  <2>10. ~(0 >= size[s])
    BY <2>3
  <2>4. overrun' = FALSE
    BY <2>2, <2>10, Zenon DEF StringTypes
  <2>5. StringTypes'
    BY <2>2, <2>4, <1>0 DEF StringTypes
  <2>6. SameBut(s)
    BY <2>2 DEF SameBut, StringTypes
  <2>7. data'[s] = [k \in 0 .. size[s] - 1 |-> IF k = 0 THEN NUL ELSE data[s][k]]
    BY <2>2 DEF StringTypes
  <2>8. /\ len'[s] = 0 /\ text'[s] = <<>> /\ ptr'[s] = block'[s]
        /\ alloc'[s] = alloc[s] /\ size'[s] = size[s] /\ alloc[s] \in Nat
    BY <2>2 DEF StringTypes, Sound
  <2>9. Sound(s)'
    BY <2>3, <2>7, <2>8, <1>0 DEF Sound
  <2> QED
    BY <2>2, <2>5, <2>6, <2>9
<1>2. CASE ptr[s] = 0
  <2>1. str_new(s)
    BY <1>2 DEF DECLEAR_STATIC_STR
  <2>2. StringTypes'
    BY <2>1, <1>0 DEF str_new, StringTypes
  <2>3. SameBut(s)
    BY <2>1 DEF str_new, SameBut, StringTypes
  <2>4. /\ len'[s] = 0 /\ alloc'[s] = 0 /\ size'[s] = 0 /\ text'[s] = <<>>
        /\ ptr'[s] = block'[s] /\ data'[s] = [k \in {} |-> NUL]
    BY <2>1 DEF str_new, StringTypes
  <2>5. DOMAIN data'[s] = 0 .. size'[s] - 1
    BY <2>4
  <2>6. Sound(s)'
    BY <2>4, <2>5, <1>0 DEF Sound
  <2>7. ptr' \in [Strs -> Nat] /\ \A o \in Strs \ {s} : ptr'[o] = ptr[o]
    BY <2>1 DEF str_new
  <2> QED
    BY <2>2, <2>3, <2>4, <2>6, <2>7
<1> QED
  BY <1>1, <1>2

\* strlen finds the terminator behind the text, and no earlier one.
LEMMA CharsAreText ==
    ASSUME StringTypes, NEW s \in Strs, Sound(s), size[s] > 0
    PROVE  /\ Len(Chars(s)) = Len(text[s])
           /\ \A k \in 1 .. Len(text[s]) : Chars(s)[k] = text[s][k]
<1>1. len[s] \in Nat /\ len[s] \in 0 .. size[s] - 1
  BY DEF StringTypes, Sound
<1>2. \A j \in 0 .. len[s] - 1 : data[s][j] # NUL
  <2> TAKE j \in 0 .. len[s] - 1
  <2>1. j + 1 \in 1 .. len[s] /\ (j + 1) - 1 = j
    BY <1>1
  <2>2. text[s][j + 1] \in Nat \ {NUL}
    BY <2>1 DEF StringTypes, Sound, Texts
  <2>3. data[s][j] = text[s][j + 1]
    BY <2>1 DEF Sound
  <2> QED
    BY <2>2, <2>3
<1>3. IsFirstNul(s, len[s])
  BY <1>1, <1>2 DEF IsFirstNul, Sound
<1>4. \A k \in 0 .. size[s] - 1 : IsFirstNul(s, k) => k = len[s]
  <2> SUFFICES ASSUME NEW k \in 0 .. size[s] - 1, IsFirstNul(s, k)
               PROVE  k = len[s]
    OBVIOUS
  <2>0. k \in Int /\ size[s] \in Nat
    BY DEF StringTypes
  <2>1. ~(k < len[s])
    BY <2>0, <1>1, <1>2 DEF IsFirstNul
  <2>2. ~(len[s] < k)
    BY <2>0, <1>1, <1>3 DEF IsFirstNul
  <2> QED
    BY <2>0, <2>1, <2>2, <1>1
<1>5. strlen(s) = len[s]
  BY <1>1, <1>3, <1>4 DEF strlen
<1>6. Chars(s) = [k \in 1 .. len[s] |-> data[s][k - 1]]
  BY <1>5 DEF Chars
<1>7. Len(Chars(s)) = len[s]
  BY <1>1, <1>6
<1> QED
  BY <1>1, <1>6, <1>7 DEF Sound

\* Both strings are unallocated at the start.
LEMMA InitIsSound == Init => StrInv
<1> SUFFICES ASSUME Init PROVE StrInv
  OBVIOUS
<1>0. <<>> \in Texts /\ Len(<<>>) = 0 /\ DOMAIN <<>> = 0 .. 0 - 1
  BY DEF Texts
<1>1. StringTypes
  BY <1>0 DEF Init, StringTypes
<1>2. \A s \in Strs : Sound(s)
  BY <1>0 DEF Init, Sound
<1>3. Phase
  BY DEF Init, Phase, Strs
<1>4. Pointers
  BY DEF Init, Pointers, PointerIsLive, PointerTo, Strs
<1> QED
  BY <1>1, <1>2, <1>3, <1>4 DEF Init, StrInv

\* Sound strings stay sound when the step is about another string.
LEMMA OthersStaySound ==
    ASSUME NEW s \in Strs, SameBut(s), \A o \in Strs : Sound(o), Sound(s)'
    PROVE  \A o \in Strs : Sound(o)'
<1> TAKE o \in Strs
<1>1. CASE o = s
  BY <1>1
<1>2. CASE o # s
  <2>1. /\ block'[o] = block[o]
        /\ len'[o] = len[o] /\ alloc'[o] = alloc[o] /\ size'[o] = size[o]
        /\ data'[o] = data[o] /\ text'[o] = text[o]
    BY <1>2 DEF SameBut
  <2>2. Sound(o)
    OBVIOUS
  <2> QED
    BY <2>1, <2>2 DEF Sound
<1> QED
  BY <1>1, <1>2

\* An append to a static string, whose result is kept.
LEMMA AppendKeeps ==
    ASSUME StringTypes, \A o \in Strs : Sound(o), Pointers,
           NEW s \in Strs, NEW t, NEW g \in Texts, Len(t) = Len(g), Len(g) > 0,
           \A k \in 1 .. Len(g) : t[k] = g[k],
           append(s, t, g)
    PROVE  /\ StringTypes' /\ (\A o \in Strs : Sound(o)') /\ SameBut(s)
           /\ size'[s] > 0 /\ Len(text'[s]) > 0 /\ called' = "none"
           /\ Pointers'
<1>1. PICK now : /\ str_append(s, t, g, now)
                 /\ ptr' = [ptr EXCEPT ![s] = Returned(s, ptr[s], Len(t), now)]
  BY DEF append
<1>2. called = "none" /\ called' = "none" /\ local' = local
  BY DEF append, callee
<1>3. /\ StringTypes' /\ Sound(s)' /\ SameBut(s) /\ size'[s] > 0 /\ Len(text'[s]) > 0
      /\ block'[s] = now /\ now \in Nat /\ Returned(s, block[s], Len(t), now) = now
  BY <1>1, AppendIsSound
<1>4. \A o \in Strs : ptr[o] = block[o]
  BY <1>2 DEF Pointers, PointerIsLive, PointerTo, Strs
<1>5. ptr' = [ptr EXCEPT ![s] = now]
  BY <1>1, <1>3, <1>4
<1>6. \A o \in Strs : ptr'[o] = block'[o]
  BY <1>3, <1>4, <1>5 DEF Pointers, SameBut
<1>7. Pointers'
  BY <1>2, <1>3, <1>5, <1>6 DEF Pointers, PointerIsLive, PointerTo, Strs
<1> QED
  BY <1>2, <1>3, <1>7, OthersStaySound

\* Every append, clear, call and return keeps both strings sound.
LEMMA StepIsSound == StrInv /\ [Next]_vars => StrInv'
<1> SUFFICES ASSUME StrInv, [Next]_vars PROVE StrInv'
  OBVIOUS
<1>0. /\ "body" \in Strs /\ "source" \in Strs /\ "body" # "source"
      /\ StringTypes /\ Phase /\ Pointers /\ \A s \in Strs : Sound(s)
      /\ calls \in Nat /\ ctl \in {"idle", "first", "body", "head", "tail"}
  BY DEF StrInv, Strs
<1>10. ASSUME called = "none"
       PROVE  \A s \in Strs : ptr[s] = block[s]
  BY <1>0, <1>10 DEF Pointers, PointerIsLive, PointerTo, Strs
<1>1. CASE begin
  <2>1. /\ ctl = "idle" /\ ctl' = "first" /\ calls' \in Nat /\ DECLEAR_STATIC_STR("body")
        /\ called' = called /\ local' = local
    BY <1>0, <1>1 DEF begin, callee
  <2>2. called = "none"
    BY <1>0, <2>1 DEF Pointers, Strs
  <2>3. ptr["body"] = block["body"] /\ (ptr["body"] # 0 => size["body"] > 0)
    BY <1>0, <1>10, <2>1, <2>2 DEF Phase
  <2>4. /\ StringTypes' /\ Sound("body")' /\ SameBut("body")
        /\ ptr' \in [Strs -> Nat] /\ ptr'["body"] = block'["body"]
        /\ \A o \in Strs \ {"body"} : ptr'[o] = ptr[o]
    BY <1>0, <2>1, <2>3, DeclareIsSound DEF Pointers
  <2>5. \A s \in Strs : Sound(s)'
    BY <1>0, <2>4, OthersStaySound
  <2>6. block'["source"] = block["source"] /\ size'["source"] = size["source"]
    BY <1>0, <2>4 DEF SameBut
  <2>7. Phase'
    BY <1>0, <2>1, <2>6 DEF Phase
  <2>8. \A s \in Strs : ptr'[s] = block'[s]
    BY <1>0, <1>10, <2>2, <2>4 DEF SameBut
  <2>9. Pointers'
    BY <1>0, <2>1, <2>2, <2>4, <2>8 DEF Pointers, PointerIsLive, PointerTo, Strs
  <2> QED
    BY <2>1, <2>4, <2>5, <2>7, <2>9 DEF StrInv
<1>2. CASE begin_source
  <2>1. /\ ctl = "body" /\ ctl' = "head" /\ calls' \in Nat /\ DECLEAR_STATIC_STR("source")
        /\ called = "none" /\ called' = called /\ local' = local
    BY <1>0, <1>2 DEF begin_source, callee
  <2>3. ptr["source"] = block["source"] /\ (ptr["source"] # 0 => size["source"] > 0)
    BY <1>0, <1>10, <2>1 DEF Phase
  <2>4. /\ StringTypes' /\ Sound("source")' /\ SameBut("source")
        /\ ptr' \in [Strs -> Nat] /\ ptr'["source"] = block'["source"]
        /\ \A o \in Strs \ {"source"} : ptr'[o] = ptr[o]
    BY <1>0, <2>1, <2>3, DeclareIsSound DEF Pointers
  <2>5. \A s \in Strs : Sound(s)'
    BY <1>0, <2>4, OthersStaySound
  <2>6. size'["body"] = size["body"] /\ text'["body"] = text["body"]
    BY <1>0, <2>4 DEF SameBut
  <2>7. Phase'
    BY <1>0, <2>1, <2>6 DEF Phase
  <2>8. \A s \in Strs : ptr'[s] = block'[s]
    BY <1>0, <1>10, <2>1, <2>4 DEF SameBut
  <2>9. Pointers'
    BY <1>0, <2>1, <2>4, <2>8 DEF Pointers, PointerIsLive, PointerTo, Strs
  <2> QED
    BY <2>1, <2>4, <2>5, <2>7, <2>9 DEF StrInv
<1>3. ASSUME NEW t \in Pieces, append_to_body(t)
      PROVE  StrInv'
  <2>1. /\ ctl \in {"first", "body"} /\ ctl' = "body" /\ calls' \in Nat
        /\ append("body", t, t)
    BY <1>0, <1>3 DEF append_to_body
  <2>2. t \in Texts /\ Len(t) > 0
    BY StrAssumption, <1>3 DEF Texts
  <2>3. /\ StringTypes' /\ (\A o \in Strs : Sound(o)') /\ SameBut("body")
        /\ size'["body"] > 0 /\ Len(text'["body"]) > 0 /\ Pointers'
    BY <1>0, <2>1, <2>2, AppendKeeps
  <2>5. block'["source"] = block["source"] /\ size'["source"] = size["source"]
    BY <1>0, <2>3 DEF SameBut
  <2>6. Phase'
    BY <1>0, <2>1, <2>3, <2>5 DEF Phase
  <2> QED
    BY <2>1, <2>3, <2>6 DEF StrInv
<1>4. ASSUME NEW t \in Pieces, append_to_source(t)
      PROVE  StrInv'
  <2>1. /\ ctl \in {"head", "tail"} /\ ctl' = ctl /\ calls' \in Nat
        /\ append("source", t, t)
    BY <1>0, <1>4 DEF append_to_source
  <2>2. t \in Texts /\ Len(t) > 0
    BY StrAssumption, <1>4 DEF Texts
  <2>3. /\ StringTypes' /\ (\A o \in Strs : Sound(o)') /\ SameBut("source")
        /\ size'["source"] > 0 /\ Pointers'
    BY <1>0, <2>1, <2>2, AppendKeeps
  <2>5. size'["body"] = size["body"] /\ text'["body"] = text["body"]
    BY <1>0, <2>3 DEF SameBut
  <2>6. Phase'
    BY <1>0, <2>1, <2>3, <2>5 DEF Phase
  <2> QED
    BY <2>1, <2>3, <2>6 DEF StrInv
<1>5. CASE append_body
  <2>1. /\ ctl = "head" /\ ctl' = "tail" /\ calls' \in Nat
        /\ append("source", Chars("body"), text["body"])
    BY <1>0, <1>5 DEF append_body
  <2>2. /\ Len(Chars("body")) = Len(text["body"])
        /\ \A k \in 1 .. Len(text["body"]) : Chars("body")[k] = text["body"][k]
    <3>1. size["body"] > 0
      BY <1>0, <2>1 DEF Phase
    <3> QED
      BY <1>0, <3>1, CharsAreText
  <2>3. text["body"] \in Texts /\ Len(text["body"]) > 0
    BY <1>0, <2>1 DEF Phase, StringTypes
  <2>4. /\ StringTypes' /\ (\A o \in Strs : Sound(o)') /\ SameBut("source")
        /\ size'["source"] > 0 /\ Pointers'
    <3> DEFINE t == Chars("body")
               g == text["body"]
    <3>1. Len(t) = Len(g) /\ \A k \in 1 .. Len(g) : t[k] = g[k]
      BY <2>2
    <3>2. append("source", t, g) /\ g \in Texts /\ Len(g) > 0
      BY <2>1, <2>3
    <3> HIDE DEF t, g
    <3> QED
      BY <1>0, <3>1, <3>2, AppendKeeps
  <2>6. size'["body"] = size["body"] /\ text'["body"] = text["body"]
    BY <1>0, <2>4 DEF SameBut
  <2>7. Phase'
    BY <1>0, <2>1, <2>4, <2>6 DEF Phase
  <2> QED
    BY <2>1, <2>4, <2>7 DEF StrInv
<1>6. CASE finish
  <2>1. /\ ctl = "tail" /\ ctl' = "idle" /\ calls' = calls /\ called = "none"
        /\ UNCHANGED <<ptr, called, local, block, len, alloc, size, data, overrun, text>>
    BY <1>6 DEF finish, callee, memory
  <2>2. Pointers'
    BY <1>0, <2>1 DEF Pointers, PointerIsLive, PointerTo
  <2> QED
    BY <1>0, <2>1, <2>2 DEF StrInv, Phase, StringTypes, Sound
<1>7. CASE UNCHANGED vars
  BY <1>0, <1>7 DEF vars, callee, memory, StrInv, Phase, Pointers, PointerIsLive, PointerTo,
                    StringTypes, Sound
<1>8. ASSUME NEW s \in Strs, call(s)
      PROVE  StrInv'
  <2>1. /\ called = "none" /\ called' = s /\ local' = ptr[s]
        /\ s = "body" => ctl = "body"
        /\ s = "source" => ctl \in {"head", "tail"}
        /\ UNCHANGED <<ctl, calls, ptr, block, len, alloc, size, data, overrun, text>>
    BY <1>8 DEF call, memory
  <2>2. Pointers'
    BY <1>0, <1>10, <2>1 DEF Pointers, PointerIsLive, PointerTo, Strs
  <2> QED
    BY <1>0, <2>1, <2>2 DEF StrInv, Phase, StringTypes, Sound
<1>9. CASE return
  <2>1. /\ called # "none" /\ called' = "none" /\ local' = 0
        /\ ptr' = [ptr EXCEPT ![called] = local]
        /\ UNCHANGED <<ctl, calls, block, len, alloc, size, data, overrun, text>>
    BY <1>9 DEF return, memory
  <2>2. Pointers'
    BY <1>0, <2>1 DEF Pointers, PointerIsLive, PointerTo, Strs
  <2> QED
    BY <1>0, <2>1, <2>2 DEF StrInv, Phase, StringTypes, Sound
<1>11. ASSUME NEW t \in Pieces, func_append(t)
       PROVE  StrInv'
  <2>1. PICK s \in Strs : s = called
    BY <1>0, <1>11 DEF func_append, Pointers
  <2>2. PICK now : /\ str_append(s, t, t, now)
                   /\ local' = Returned(s, local, Len(t), now)
    BY <1>11, <2>1 DEF func_append
  <2>3. UNCHANGED <<ctl, calls, ptr, called>> /\ local = block[s]
    BY <1>0, <1>11, <2>1 DEF func_append, Pointers, PointerIsLive, PointerTo
  <2>4. t \in Texts /\ Len(t) > 0
    BY StrAssumption, <1>11 DEF Texts
  <2>5. /\ StringTypes' /\ Sound(s)' /\ SameBut(s) /\ size'[s] > 0 /\ Len(text'[s]) > 0
        /\ block'[s] = now /\ now \in Nat /\ Returned(s, block[s], Len(t), now) = now
    BY <1>0, <2>2, <2>4, AppendIsSound
  <2>6. \A o \in Strs : Sound(o)'
    BY <1>0, <2>5, OthersStaySound
  <2>7. local' = now
    BY <2>2, <2>3, <2>5
  <2>8. Pointers'
    BY <1>0, <2>1, <2>3, <2>5, <2>7 DEF Pointers, PointerIsLive, PointerTo, SameBut
  <2>9. Phase'
    <3>1. CASE s = "body"
      <4>1. ctl = "body"
        BY <1>0, <2>1, <3>1 DEF Pointers
      <4>2. block'["source"] = block["source"] /\ size'["source"] = size["source"]
        BY <1>0, <2>5, <3>1 DEF SameBut
      <4> QED
        BY <1>0, <2>3, <2>5, <3>1, <4>1, <4>2 DEF Phase
    <3>2. CASE s = "source"
      <4>1. ctl \in {"head", "tail"}
        BY <1>0, <2>1, <3>2 DEF Pointers
      <4>2. size'["body"] = size["body"] /\ text'["body"] = text["body"]
        BY <1>0, <2>5, <3>2 DEF SameBut
      <4> QED
        BY <1>0, <2>3, <2>5, <3>2, <4>1, <4>2 DEF Phase
    <3> QED
      BY <3>1, <3>2 DEF Strs
  <2> QED
    BY <1>0, <2>3, <2>5, <2>6, <2>8, <2>9 DEF StrInv
<1> QED
  BY <1>1, <1>2, <1>3, <1>4, <1>5, <1>6, <1>7, <1>8, <1>9, <1>11 DEF Next

\* The inductive invariant holds always.
LEMMA AlwaysSound == Spec => []StrInv
<1>1. Init => StrInv
  BY InitIsSound
<1>2. StrInv /\ [Next]_vars => StrInv'
  BY StepIsSound
<1> QED
  BY <1>1, <1>2, PTL DEF Spec

\* The headers of the strings never claim more than their blocks have.
THEOREM StringsAreTyped == Spec => []TypeOK
<1>1. StrInv => TypeOK
  BY DEF StrInv, StringTypes, Sound, Pointers, TypeOK, Texts
<1> QED
  BY <1>1, AlwaysSound, PTL

\* str_append and str_clear stay inside their blocks: DECLEAR_STATIC_STR only
\* clears a string that something was appended to.
THEOREM StringsStayInBounds == Spec => []NoOverrun
<1>1. StrInv => NoOverrun
  BY DEF StrInv, StringTypes, NoOverrun
<1> QED
  BY <1>1, AlwaysSound, PTL

\* No string is used through a pointer that realloc has made invalid: every
\* function that appends to a string it was given returns the pointer it has
\* then, and machine_genblock keeps it.
THEOREM PointersAreLive == Spec => []PointerIsLive
<1>1. StrInv => PointerIsLive
  BY DEF StrInv, Pointers
<1> QED
  BY <1>1, AlwaysSound, PTL

\* The text given to clang is the concatenation of what was appended.
THEOREM TextsAreIntact == Spec => []TextIsIntact
<1>1. StrInv => TextIsIntact
  BY DEF StrInv, Sound, TextIsIntact
<1> QED
  BY <1>1, AlwaysSound, PTL
-----------------------------------------------------------------------------
(***************************************************************************)
(* Code that the guest changes.                                            *)
(***************************************************************************)

USE SelfModAssumption

\* Types, as far as the argument needs them: a compiled block covers the
\* addresses from its pc to Last.
SelfModTypes ==
    /\ word \in [PCs -> Nat]
    /\ DOMAIN compiled = PCs
    /\ \A p \in PCs : compiled[p] # NULL => compiled[p] \in [p .. Last -> Nat]
    /\ pc \in PCs /\ code \in PCs
    /\ mode \in {"step", "interp", "jit"}

\* A running block is an installed one, and the pc is one of its addresses.
InBlock == mode = "jit" => compiled[code] # NULL /\ code <= pc

\* The words a compiled block has decoded differ from memory only where memory
\* was written after the block was compiled.
StaleIsLate ==
    \A p \in PCs : \A a \in p .. Last :
        compiled[p] # NULL /\ compiled[p][a] # word[a] => <<p, a>> \in late

\* FreshUnlessLate is about the last instruction only; what a step executes
\* next depends on every block.
SelfModInv == SelfModTypes /\ InBlock /\ StaleIsLate /\ FreshUnlessLate

\* A translation is a block, never the absence of one.
LEMMA DecodedIsBlock ==
    ASSUME SelfModTypes, NEW p \in PCs
    PROVE  Decoded(p) \in [p .. Last -> Nat] /\ Decoded(p) # NULL
<1>1. p \in p .. Last /\ \A a \in p .. Last : a \in PCs
    BY DEF PCs
<1>2. Decoded(p) \in [p .. Last -> Nat] /\ DOMAIN Decoded(p) = p .. Last
    BY <1>1 DEF Decoded, SelfModTypes
<1>3. DOMAIN NULL = {}
    BY DEF NULL
<1> QED
    BY <1>1, <1>2, <1>3

\* Whatever executes, the word is that of memory unless the block is stale.
LEMMA FetchIsFresh ==
    ASSUME SelfModInv, Fetch, late \subseteq late'
    PROVE  FreshUnlessLate'
<1>1. CASE mode = "jit"
    <2>1. fetched'.got = compiled[code][pc] /\ fetched'.word = word[pc]
          /\ fetched'.by = code /\ fetched'.pc = pc
        BY <1>1 DEF Fetch
    <2>2. code \in PCs /\ pc \in code .. Last /\ compiled[code] # NULL
        BY <1>1 DEF SelfModInv, SelfModTypes, InBlock, PCs
    <2>3. compiled[code][pc] # word[pc] => <<code, pc>> \in late
        BY <2>2 DEF SelfModInv, StaleIsLate
    <2> QED
        BY <2>1, <2>3 DEF FreshUnlessLate
<1>2. CASE mode # "jit"
    BY <1>2 DEF Fetch, FreshUnlessLate
<1> QED
    BY <1>1, <1>2

\* Nothing is compiled and nothing written at the start.
LEMMA SelfModInvInit == SelfModInit => SelfModInv
    BY DEF SelfModInit, SelfModInv, SelfModTypes, InBlock, StaleIsLate, FreshUnlessLate, PCs

\* Writes make blocks late, and compilations start fresh.
LEMMA SelfModInvStep == SelfModInv /\ [SelfModNext]_selfmodVars => SelfModInv'
<1> SUFFICES ASSUME SelfModInv, [SelfModNext]_selfmodVars
             PROVE  SelfModInv'
    OBVIOUS
<1> USE DEF SelfModInv
<1>1. CASE machine_step
    <2>1. word' = word /\ pc' = pc /\ late' = late /\ fetched' = fetched /\ pc \in PCs
        BY <1>1 DEF machine_step, SelfModTypes
    <2>2. FreshUnlessLate'
        BY <2>1 DEF FreshUnlessLate
    <2>3. CASE compiled[pc] # NULL
        <3>1. mode' = "jit" /\ code' = pc /\ compiled' = compiled
            BY <1>1, <2>3 DEF machine_step
        <3>2. SelfModTypes' /\ StaleIsLate'
            BY <2>1, <3>1 DEF SelfModTypes, StaleIsLate
        <3>3. InBlock'
            BY <2>1, <2>3, <3>1 DEF InBlock, PCs
        <3> QED
            BY <2>2, <3>2, <3>3
    <2>4. CASE compiled[pc] = NULL /\ compiled' = compiled /\ mode' = "interp" /\ code' = code
        BY <2>1, <2>2, <2>4 DEF SelfModTypes, StaleIsLate, InBlock
    <2>5. CASE /\ compiled[pc] = NULL /\ mode' = "jit" /\ code' = pc
               /\ compiled' = [compiled EXCEPT ![pc] = Decoded(pc)]
        <3>1. compiled'[pc] = Decoded(pc) /\ DOMAIN compiled' = PCs
              /\ \A p \in PCs \ {pc} : compiled'[p] = compiled[p]
            BY <2>1, <2>5 DEF SelfModTypes
        <3>2. Decoded(pc) \in [pc .. Last -> Nat] /\ Decoded(pc) # NULL
            BY <2>1, DecodedIsBlock
        <3>3. SelfModTypes'
            BY <2>1, <2>5, <3>1, <3>2 DEF SelfModTypes
        <3>4. InBlock'
            BY <2>1, <2>5, <3>1, <3>2 DEF InBlock, PCs
        <3>5. \A a \in pc .. Last : Decoded(pc)[a] = word[a]
            BY DEF Decoded
        <3>6. StaleIsLate'
            BY <2>1, <3>1, <3>5 DEF StaleIsLate
        <3> QED
            BY <2>2, <3>3, <3>4, <3>6
    <2> QED
        BY <1>1, <2>3, <2>4, <2>5 DEF machine_step
<1>2. CASE insn_plain
    <2>1. /\ pc \in PCs /\ pc < Last /\ pc' = pc + 1 /\ Fetch
          /\ word' = word /\ compiled' = compiled /\ mode' = mode /\ code' = code /\ late' = late
        BY <1>2 DEF insn_plain, SelfModTypes
    <2>2. SelfModTypes' /\ StaleIsLate' /\ InBlock'
        BY <2>1 DEF SelfModTypes, StaleIsLate, InBlock, PCs
    <2>3. FreshUnlessLate'
        BY <2>1, FetchIsFresh
    <2> QED
        BY <2>2, <2>3
<1>3. ASSUME NEW a \in PCs, insn_store(a)
      PROVE  SelfModInv'
    <2>1. /\ pc \in PCs /\ pc < Last /\ pc' = pc + 1 /\ Fetch
          /\ compiled' = compiled /\ mode' = mode /\ code' = code
          /\ word' = [word EXCEPT ![a] = word[a] + 1]
          /\ late' = late \cup { <<p, a>> : p \in { p \in PCs : compiled[p] # NULL /\ p <= a } }
        BY <1>3 DEF insn_store, SelfModTypes
    <2>2. SelfModTypes' /\ InBlock'
        BY <2>1 DEF SelfModTypes, InBlock, PCs
    <2>3. StaleIsLate'
        <3> SUFFICES ASSUME NEW p \in PCs, NEW b \in p .. Last,
                            compiled[p] # NULL, compiled[p][b] # word'[b]
                     PROVE  <<p, b>> \in late'
            BY <2>1 DEF StaleIsLate
        <3>1. CASE b = a
            BY <2>1, <3>1 DEF PCs
        <3>2. CASE b # a
            <4>1. word'[b] = word[b]
                BY <2>1, <3>2 DEF SelfModTypes, PCs
            <4> QED
                BY <2>1, <4>1 DEF StaleIsLate
        <3> QED
            BY <3>1, <3>2
    <2>4. FreshUnlessLate'
        BY <2>1, FetchIsFresh
    <2> QED
        BY <2>2, <2>3, <2>4
<1>4. ASSUME NEW p \in PCs, insn_jalr(p)
      PROVE  SelfModInv'
    <2>1. /\ Fetch /\ pc' = p /\ mode' = "step"
          /\ word' = word /\ compiled' = compiled /\ code' = code /\ late' = late
        BY <1>4 DEF insn_jalr
    <2>2. SelfModTypes' /\ StaleIsLate' /\ InBlock'
        BY <2>1 DEF SelfModTypes, StaleIsLate, InBlock
    <2>3. FreshUnlessLate'
        BY <2>1, FetchIsFresh
    <2> QED
        BY <2>2, <2>3
<1>5. CASE UNCHANGED selfmodVars
    BY <1>5 DEF selfmodVars, SelfModTypes, StaleIsLate, InBlock, FreshUnlessLate
<1> QED
    BY <1>1, <1>2, <1>3, <1>4, <1>5 DEF SelfModNext

\* However blocks overlap and whenever they are compiled, the guest executes
\* an instruction it has replaced only inside a block that was compiled before
\* the replacement: neither the interpreter (src/src/interpret.c:819-849) nor
\* a later machine_genblock (src/src/codegen.c:1085-1112) serves an old one.
THEOREM FreshCode == SelfModSpec => []FreshUnlessLate
<1>1. SelfModInv => FreshUnlessLate
    BY DEF SelfModInv
<1> QED
    BY SelfModInvInit, SelfModInvStep, <1>1, PTL DEF SelfModSpec

-----------------------------------------------------------------------------
(***************************************************************************)
(* The order of accesses to memory.                                        *)
(***************************************************************************)
Accesses == 1 .. Len(accesses)
Places == 0 .. Top - 1

Covers(k, a) == ~IsLoad(k) /\ a \in Bytes(k)

\* v is the last of the accesses in S that store to address a, or 0.  Memory
\* is marked with the access that stored last, so this says what memory must
\* hold without saying in which order the accesses were made.
IsLast(v, a, S) ==
    \/ v = 0 /\ \A j \in S : ~Covers(j, a)
    \/ v \in S /\ Covers(v, a) /\ \A j \in S : Covers(j, a) => j <= v

\* What load k must return.
RightLoad(v, k) ==
    /\ v = [i \in 1 .. Width(k) |-> v[i]]
    /\ \A i \in 1 .. Width(k) :
         IsLast(v[i], regs[accesses[k].reg] + i - 1, 1 .. k - 1)

AliasTypes ==
    /\ accesses \in Blocks /\ regs \in [{1, 2} -> Addrs]
    /\ done \in 0 .. Len(accesses) /\ jdone \in SUBSET Accesses
    /\ mem = [a \in Places |-> mem[a]] /\ jmem = [a \in Places |-> jmem[a]]
    /\ got = [k \in Accesses |-> got[k]] /\ jgot = [k \in Accesses |-> jgot[k]]

\* The interpreter.
InterpRight ==
    /\ \A a \in Places : IsLast(mem[a], a, 1 .. done)
    /\ \A k \in Accesses : IF IsLoad(k) /\ k <= done THEN RightLoad(got[k], k)
                           ELSE got[k] = Unread

\* Generated code overtakes only where it may.
Ordered == \A k \in jdone : \A j \in 1 .. k - 1 : j \in jdone \/ MayPass(k, j)

\* Generated code, in the middle of the block, if no bytes are accessed in two widths.
JitRight ==
    ~MixesWidths =>
      /\ \A a \in Places : IsLast(jmem[a], a, jdone)
      /\ \A k \in Accesses : IF IsLoad(k) /\ k \in jdone THEN RightLoad(jgot[k], k)
                             ELSE jgot[k] = Unread

AliasInv == AliasTypes /\ InterpRight /\ Ordered /\ JitRight

\* The type that generated code uses depends on nothing but the width: on
\* neither sign nor register file.
ClassOfWidth(w) == CASE w = 1 -> "char" [] w = 2 -> "short" [] w = 4 -> "int" [] w = 8 -> "long"

\* The func_* of all loads and stores agree on the type of each width.
LEMMA WidthDecidesType ==
    ASSUME NEW i \in DOMAIN WidthOf
    PROVE  /\ WidthOf[i] \in {1, 2, 4, 8}
           /\ TypeClass(CType(i)) = ClassOfWidth(WidthOf[i])
<1>1. i \in {"lb", "lbu", "sb"} \cup {"lh", "lhu", "sh"} \cup {"lw", "lwu", "sw", "flw", "fsw"}
           \cup {"ld", "sd", "fld", "fsd"}
    BY DEF WidthOf
<1>2. CASE i \in {"lb", "lbu", "sb"}
    BY <1>2 DEF WidthOf, TypeClass, CType, ClassOfWidth
<1>3. CASE i \in {"lh", "lhu", "sh"}
    BY <1>3 DEF WidthOf, TypeClass, CType, ClassOfWidth
<1>4. CASE i \in {"lw", "lwu", "sw", "flw", "fsw"}
    BY <1>4 DEF WidthOf, TypeClass, CType, ClassOfWidth
<1>5. CASE i \in {"ld", "sd", "fld", "fsd"}
    BY <1>5 DEF WidthOf, TypeClass, CType, ClassOfWidth
<1> QED
    BY <1>1, <1>2, <1>3, <1>4, <1>5

\* Accesses stay within memory.
LEMMA InMemory ==
    ASSUME AliasTypes, NEW k \in Accesses
    PROVE  /\ Width(k) \in {1, 2, 4, 8} /\ accesses[k].insn \in DOMAIN WidthOf
           /\ accesses[k].reg \in {1, 2}
           /\ regs[accesses[k].reg] \in Nat
           /\ regs[accesses[k].reg] + Width(k) <= Top
           /\ Top \in Nat /\ Bytes(k) \subseteq Places /\ Len(accesses) \in Nat
<1>1. accesses \in Blocks /\ accesses \in Seq(Access) /\ Addrs \subseteq Nat /\ Top \in Nat
    BY BlocksAssumption DEF AliasTypes
<1>2. PICK x \in Access : x = accesses[k]
    BY <1>1 DEF Accesses
<1>3. x.insn \in DOMAIN WidthOf /\ x.reg \in {1, 2}
    BY DEF Access
<1>10. PICK w \in {1, 2, 4, 8} : w = WidthOf[x.insn]
    BY <1>3, WidthDecidesType
<1>11. Width(k) = w
    BY <1>2, <1>10 DEF Width
<1>4. PICK ad \in Addrs : ad = regs[x.reg]
    BY <1>3 DEF AliasTypes
<1>5. ad + w <= Top
    BY <1>1, <1>2, <1>4, <1>10, BlocksAssumption DEF Accesses
<1>6. ad \in Nat
    BY <1>1
<1>7. Bytes(k) = ad .. ad + w - 1
    BY <1>2, <1>4, <1>11 DEF Bytes
<1>8. Bytes(k) \subseteq Places
    BY <1>1, <1>3, <1>5, <1>6, <1>7 DEF Places
<1>9. Len(accesses) \in Nat
    BY <1>1
<1> QED
    BY <1>1, <1>2, <1>3, <1>4, <1>5, <1>6, <1>8, <1>9, <1>11

\* There is only one last access.
LEMMA LastIsUnique ==
    ASSUME NEW S \in SUBSET (Nat \ {0}), NEW a, NEW v, NEW w, IsLast(v, a, S), IsLast(w, a, S)
    PROVE  v = w
<1>1. CASE v \in S /\ w \in S
    <2>1. v \in Nat /\ w \in Nat /\ v # 0 /\ w # 0
        BY <1>1
    <2>2. Covers(v, a) /\ Covers(w, a)
        BY <2>1 DEF IsLast
    <2>3. v <= w /\ w <= v
        BY <1>1, <2>1, <2>2 DEF IsLast
    <2> QED
        BY <2>1, <2>3
<1>2. CASE v \notin S
    BY <1>2, Zenon DEF IsLast
<1>3. CASE w \notin S
    BY <1>3, Zenon DEF IsLast
<1> QED
    BY <1>1, <1>2, <1>3

\* A load changes nothing about the stores made.
LEMMA LoadKeepsLast ==
    ASSUME NEW k, IsLoad(k), NEW v, NEW a, NEW S, IsLast(v, a, S)
    PROVE  IsLast(v, a, S \cup {k})
BY DEF IsLast, Covers

\* A store that comes after the stores to its bytes is the last one.
LEMMA StoreIsLast ==
    ASSUME NEW S \in SUBSET Nat, NEW k \in Nat, ~IsLoad(k), NEW m,
           m = [a \in Places |-> m[a]],
           \A a \in Places : IsLast(m[a], a, S),
           \A j \in S : \A a \in Bytes(k) : Covers(j, a) => j < k
    PROVE  /\ Stored(m, k) = [a \in Places |-> Stored(m, k)[a]]
           /\ \A a \in Places : IsLast(Stored(m, k)[a], a, S \cup {k})
<1>1. PICK s : s = Stored(m, k)
    OBVIOUS
<1>2. s = [a \in Places |-> IF a \in Bytes(k) THEN k ELSE m[a]]
    BY <1>1 DEF Stored
<1>3. ASSUME NEW a \in Places, a \in Bytes(k)
      PROVE  IsLast(k, a, S \cup {k})
    BY <1>3 DEF IsLast, Covers
<1>4. ASSUME NEW a \in Places, a \notin Bytes(k)
      PROVE  IsLast(m[a], a, S \cup {k})
    <2>1. IsLast(m[a], a, S) /\ ~Covers(k, a)
        BY <1>4 DEF Covers
    <2> QED
        BY <2>1 DEF IsLast
<1>5. \A a \in Places : IsLast(s[a], a, S \cup {k})
    BY <1>2, <1>3, <1>4
<1> QED
    BY <1>1, <1>2, <1>5

\* A load that comes after the earlier stores to its bytes and before the
\* later ones returns what it should.
LEMMA LoadIsRight ==
    ASSUME AliasTypes, NEW S \in SUBSET Nat, NEW k \in Accesses, NEW m,
           \A a \in Places : IsLast(m[a], a, S),
           \A a \in Bytes(k) : \A j \in 1 .. k - 1 : Covers(j, a) => j \in S,
           \A a \in Bytes(k) : \A j \in S : Covers(j, a) => j \in 1 .. k - 1
    PROVE  RightLoad(Loaded(m, k), k)
<1>1. PICK v : v = Loaded(m, k)
    OBVIOUS
<1>2. PICK ad \in Nat : ad = regs[accesses[k].reg]
    BY InMemory
<1>3. PICK typ \in {1, 2, 4, 8} : typ = Width(k)
    BY InMemory
<1>4. v = [i \in 1 .. typ |-> m[ad + i - 1]]
    BY <1>1, <1>2, <1>3 DEF Loaded
<1>5. Bytes(k) = ad .. ad + typ - 1 /\ Bytes(k) \subseteq Places
    BY <1>2, <1>3, InMemory DEF Bytes
<1>6. ASSUME NEW i \in 1 .. typ
      PROVE  IsLast(v[i], ad + i - 1, 1 .. k - 1)
    <2>1. PICK a \in Nat : a = ad + i - 1
        OBVIOUS
    <2>2. a \in Bytes(k) /\ a \in Places
        BY <1>5, <2>1
    <2>3. v[i] = m[a]
        BY <1>4, <2>1
    <2>4. PICK w : w = m[a]
        OBVIOUS
    <2>5. IsLast(w, a, S)
        BY <2>2, <2>4
    <2>6. \A j : Covers(j, a) => (j \in S <=> j \in 1 .. k - 1)
        BY <2>2
    <2>7. IsLast(w, a, 1 .. k - 1)
        BY <2>5, <2>6 DEF IsLast
    <2> QED
        BY <2>1, <2>3, <2>4, <2>7
<1> QED
    BY <1>1, <1>2, <1>3, <1>4, <1>6 DEF RightLoad

\* The block and its registers do not change.
LEMMA SameBlock ==
    ASSUME accesses' = accesses, regs' = regs
    PROVE  /\ Accesses' = Accesses
           /\ \A k : IsLoad(k)' <=> IsLoad(k)
           /\ \A k : Bytes(k)' = Bytes(k)
           /\ \A v, a, S : IsLast(v, a, S)' <=> IsLast(v, a, S)
           /\ \A v, k : RightLoad(v, k)' <=> RightLoad(v, k)
           /\ \A k, j : MayPass(k, j)' <=> MayPass(k, j)
           /\ MixesWidths' <=> MixesWidths
<1>1. Accesses' = Accesses
    BY DEF Accesses
<1>2. \A k : IsLoad(k)' <=> IsLoad(k)
    BY DEF IsLoad
<1>9. \A k : Width(k)' = Width(k)
    BY DEF Width, WidthOf
<1>3. \A k : Bytes(k)' = Bytes(k)
    BY <1>9 DEF Bytes
<1>4. \A k, a : Covers(k, a)' <=> Covers(k, a)
    BY <1>2, <1>3 DEF Covers
<1>5. \A v, a, S : IsLast(v, a, S)' <=> IsLast(v, a, S)
    BY <1>4 DEF IsLast
<1>6. \A v, k : RightLoad(v, k)' <=> RightLoad(v, k)
    BY <1>5, <1>9 DEF RightLoad
<1>7. \A k, j : MayPass(k, j)' <=> MayPass(k, j)
    <2>1. \A k : CType(accesses[k].insn)' = CType(accesses[k].insn)
        BY DEF CType
    <2>2. \A k : TypeClass(CType(accesses[k].insn))' = TypeClass(CType(accesses[k].insn))
        BY <2>1 DEF TypeClass
    <2> QED
        BY <1>2, <2>2 DEF MayPass
<1>8. MixesWidths' <=> MixesWidths
    BY <1>3, <1>9 DEF MixesWidths
<1> QED
    BY <1>1, <1>2, <1>3, <1>5, <1>6, <1>7, <1>8

\* Before the first access both memories are empty.
LEMMA AliasInvInit == AliasInit => AliasInv
<1> SUFFICES ASSUME AliasInit
             PROVE  AliasInv
    OBVIOUS
<1>1. accesses \in Seq(Access) /\ Top \in Nat
    BY BlocksAssumption DEF AliasInit
<1>2. PICK l \in Nat : l = Len(accesses)
    BY <1>1
<1>3. AliasTypes
    BY <1>2 DEF AliasInit, AliasTypes, Accesses, Places
<1>4. \A a \in Places : IsLast(mem[a], a, {})
    BY DEF AliasInit, IsLast, Places
<1>5. 1 .. done = {} /\ jdone = {} /\ \A k \in Accesses : ~(k <= done)
    BY DEF AliasInit, Accesses
<1>6. InterpRight
    BY <1>4, <1>5 DEF AliasInit, InterpRight, Accesses
<1>7. Ordered /\ JitRight
    BY <1>4, <1>5 DEF AliasInit, Ordered, JitRight, Accesses
<1> QED
    BY <1>3, <1>6, <1>7 DEF AliasInv

\* The interpreter makes its next access in program order.
LEMMA InterpStep ==
    ASSUME AliasInv, interp_access
    PROVE  AliasInv'
<1>1. /\ AliasTypes /\ done < Len(accesses) /\ done' = done + 1
      /\ UNCHANGED <<accesses, regs, jmem, jgot, jdone>>
    BY DEF AliasInv, interp_access
<1>2. PICK l \in Nat : l = Len(accesses)
    BY <1>1, BlocksAssumption DEF AliasTypes
<1>3. PICK k \in Nat : k = done + 1
    BY <1>1, <1>2 DEF AliasTypes
<1>4. /\ k \in Accesses /\ done \in Nat /\ done' = k
      /\ 1 .. done = 1 .. k - 1 /\ 1 .. done' = (1 .. done) \cup {k}
    BY <1>1, <1>2, <1>3 DEF AliasTypes, Accesses
<1>5. PICK S \in SUBSET Nat : S = 1 .. k - 1
    BY <1>3
<1>6. \A a \in Places : IsLast(mem[a], a, S)
    BY <1>4, <1>5 DEF AliasInv, InterpRight
<1>7. /\ Accesses' = Accesses
      /\ \A j : IsLoad(j)' <=> IsLoad(j)
      /\ \A v, a, T : IsLast(v, a, T)' <=> IsLast(v, a, T)
      /\ \A v, j : RightLoad(v, j)' <=> RightLoad(v, j)
      /\ \A i, j : MayPass(i, j)' <=> MayPass(i, j)
      /\ MixesWidths' <=> MixesWidths
    BY <1>1, SameBlock
<1>8. Ordered' /\ JitRight'
    BY <1>1, <1>7 DEF AliasInv, Ordered, JitRight, Places
<1>9. \A j \in Accesses : j # k => (j <= done' <=> j <= done)
    BY <1>3, <1>4 DEF Accesses
<1>10. /\ mem' = [a \in Places |-> mem'[a]] /\ got' = [j \in Accesses |-> got'[j]]
       /\ \A a \in Places : IsLast(mem'[a], a, S \cup {k})
       /\ \A j \in Accesses \ {k} : got'[j] = got[j]
       /\ IF IsLoad(k) THEN RightLoad(got'[k], k) ELSE got'[k] = Unread
    <2>1. CASE IsLoad(k)
        <3>1. PICK v : v = Loaded(mem, k)
            OBVIOUS
        <3>2. got' = [got EXCEPT ![k] = v] /\ mem' = mem
            BY <1>3, <2>1, <3>1 DEF interp_access
        <3>3. /\ \A a \in Bytes(k) : \A j \in 1 .. k - 1 : Covers(j, a) => j \in S
              /\ \A a \in Bytes(k) : \A j \in S : Covers(j, a) => j \in 1 .. k - 1
            BY <1>5
        <3>4. PICK m : m = mem
            OBVIOUS
        <3>5. RightLoad(v, k)
            BY <1>1, <1>4, <1>6, <3>1, <3>3, <3>4, LoadIsRight
        <3>6. \A a \in Places : IsLast(mem'[a], a, S \cup {k})
            BY <1>6, <2>1, <3>2, LoadKeepsLast
        <3>7. got' = [j \in Accesses |-> IF j = k THEN v ELSE got[j]]
            BY <1>1, <1>4, <3>2 DEF AliasTypes
        <3> QED
            BY <1>1, <1>4, <2>1, <3>2, <3>5, <3>6, <3>7 DEF AliasTypes
    <2>2. CASE ~IsLoad(k)
        <3>1. PICK m : m = mem
            OBVIOUS
        <3>2. mem' = Stored(m, k) /\ got' = got
            BY <1>3, <2>2, <3>1 DEF interp_access
        <3>3. \A j \in S : \A a \in Bytes(k) : Covers(j, a) => j < k
            BY <1>5
        <3>4. m = [a \in Places |-> m[a]] /\ \A a \in Places : IsLast(m[a], a, S)
            BY <1>1, <1>6, <3>1 DEF AliasTypes
        <3>5. /\ Stored(m, k) = [a \in Places |-> Stored(m, k)[a]]
              /\ \A a \in Places : IsLast(Stored(m, k)[a], a, S \cup {k})
            BY <2>2, <3>3, <3>4, StoreIsLast
        <3>6. got[k] = Unread
            BY <1>4, <2>2 DEF AliasInv, InterpRight
        <3> QED
            BY <1>1, <2>2, <3>2, <3>5, <3>6 DEF AliasTypes
    <2> QED
        BY <2>1, <2>2
<1>11. AliasTypes'
    BY <1>1, <1>2, <1>3, <1>4, <1>7, <1>10 DEF AliasTypes, Places
<1>12. \A a \in Places : IsLast(mem'[a], a, 1 .. done')
    BY <1>4, <1>5, <1>10
<1>13. ASSUME NEW j \in Accesses
       PROVE  IF IsLoad(j) /\ j <= done' THEN RightLoad(got'[j], j) ELSE got'[j] = Unread
    <2>1. CASE j = k
        BY <1>4, <1>10, <2>1
    <2>2. CASE j # k
        BY <1>9, <1>10, <2>2 DEF AliasInv, InterpRight
    <2> QED
        BY <2>1, <2>2
<1>14. InterpRight'
    <2>1. PICK mm, gg, dd : mm = mem' /\ gg = got' /\ dd = done'
        OBVIOUS
    <2>2. \A a \in Places : IsLast(mm[a], a, 1 .. dd)'
        BY <1>7, <1>12, <2>1
    <2>3. \A j \in Accesses : IF IsLoad(j)' /\ j <= dd THEN RightLoad(gg[j], j)' ELSE gg[j] = Unread
        BY <1>7, <1>13, <2>1
    <2> QED
        BY <1>7, <2>1, <2>2, <2>3 DEF InterpRight, Places, Unread
<1> QED
    BY <1>8, <1>11, <1>14 DEF AliasInv

\* Accesses to the same byte, one of them a store, never pass each other: they
\* have the same width, or one of them is a single byte.
LEMMA NoPassing ==
    ASSUME AliasTypes, ~MixesWidths, NEW j \in Accesses, NEW k \in Accesses,
           NEW a, a \in Bytes(k), Covers(j, a)
    PROVE  ~MayPass(k, j) /\ ~MayPass(j, k)
<1>1. ~IsLoad(j) /\ a \in Bytes(j) /\ Bytes(j) \cap Bytes(k) # {}
    BY DEF Covers
<1>2. Width(j) = Width(k) \/ Width(j) = 1 \/ Width(k) = 1
    BY <1>1 DEF MixesWidths, Accesses
<1>3. /\ TypeClass(CType(accesses[j].insn)) = ClassOfWidth(Width(j))
      /\ TypeClass(CType(accesses[k].insn)) = ClassOfWidth(Width(k))
    BY InMemory, WidthDecidesType DEF Width
<1>4. ClassOfWidth(1) = "char"
    BY DEF ClassOfWidth
<1> QED
    BY <1>1, <1>2, <1>3, <1>4 DEF MayPass

\* Generated code makes an access that may pass those it overtakes.
LEMMA JitStep ==
    ASSUME AliasInv, NEW k \in Accesses, jit_access(k)
    PROVE  AliasInv'
<1>1. /\ AliasTypes /\ k \notin jdone /\ jdone' = jdone \cup {k}
      /\ UNCHANGED <<accesses, regs, mem, got, done>>
      /\ \A j \in 1 .. k - 1 : j \in jdone \/ MayPass(k, j)
    BY DEF AliasInv, jit_access
<1>2. PICK l \in Nat : l = Len(accesses)
    BY <1>1, BlocksAssumption DEF AliasTypes
<1>3. k \in Nat /\ Accesses = 1 .. l /\ jdone \in SUBSET Accesses
    BY <1>1, <1>2 DEF AliasTypes, Accesses
<1>4. PICK S \in SUBSET Nat : S = jdone
    BY <1>3
<1>5. /\ Accesses' = Accesses
      /\ \A j : IsLoad(j)' <=> IsLoad(j)
      /\ \A v, a, T : IsLast(v, a, T)' <=> IsLast(v, a, T)
      /\ \A v, j : RightLoad(v, j)' <=> RightLoad(v, j)
      /\ \A i, j : MayPass(i, j)' <=> MayPass(i, j)
      /\ MixesWidths' <=> MixesWidths
    BY <1>1, SameBlock
<1>6. InterpRight'
    BY <1>1, <1>5 DEF AliasInv, InterpRight, Places, Unread
<1>7. Ordered'
    <2>1. ASSUME NEW i \in jdone', NEW j \in 1 .. i - 1
          PROVE  j \in jdone' \/ MayPass(i, j)
        <3>1. CASE i = k
            BY <1>1, <3>1
        <3>2. CASE i \in jdone
            BY <1>1, <3>2 DEF AliasInv, Ordered
        <3> QED
            BY <1>1, <3>1, <3>2
    <2> QED
        BY <1>5, <2>1 DEF Ordered
<1>8. /\ jmem' = [a \in Places |-> jmem'[a]] /\ jgot' = [j \in Accesses |-> jgot'[j]]
      /\ \A j \in Accesses \ {k} : jgot'[j] = jgot[j]
    BY <1>1 DEF jit_access, AliasTypes, Stored
<1>9. AliasTypes'
    BY <1>1, <1>3, <1>5, <1>8 DEF AliasTypes, Places
<1>10. ASSUME ~MixesWidths
       PROVE  /\ \A a \in Places : IsLast(jmem'[a], a, S \cup {k})
              /\ IF IsLoad(k) THEN RightLoad(jgot'[k], k) ELSE jgot'[k] = Unread
    <2>1. PICK m : m = jmem
        OBVIOUS
    <2>2. m = [a \in Places |-> m[a]] /\ \A a \in Places : IsLast(m[a], a, S)
        BY <1>1, <1>4, <1>10, <2>1 DEF AliasInv, AliasTypes, JitRight
    <2>3. \A a \in Bytes(k) : \A j \in 1 .. k - 1 : Covers(j, a) => j \in S
        BY <1>1, <1>3, <1>4, <1>10, NoPassing
    <2>4. ASSUME NEW a \in Bytes(k), NEW j \in S, Covers(j, a)
          PROVE  j \in 1 .. k - 1 /\ j < k
        <3>1. j \in Accesses /\ j # k /\ j \in Nat /\ j >= 1
            BY <1>1, <1>3, <1>4
        <3>2. ~MayPass(j, k)
            BY <1>1, <1>10, <2>4, <3>1, NoPassing
        <3>3. ~(k \in 1 .. j - 1)
            BY <1>1, <1>4, <3>2 DEF AliasInv, Ordered
        <3> QED
            BY <1>3, <3>1, <3>3
    <2>5. CASE IsLoad(k)
        <3>1. PICK v : v = Loaded(m, k)
            OBVIOUS
        <3>2. jgot' = [jgot EXCEPT ![k] = v] /\ jmem' = m
            BY <2>1, <2>5, <3>1 DEF jit_access
        <3>3. \A a \in Bytes(k) : \A j \in S : Covers(j, a) => j \in 1 .. k - 1
            BY <2>4
        <3>4. RightLoad(v, k)
            BY <1>1, <2>2, <2>3, <3>1, <3>3, LoadIsRight
        <3>5. \A a \in Places : IsLast(m[a], a, S \cup {k})
            BY <2>2, <2>5, LoadKeepsLast
        <3>6. jgot'[k] = v
            BY <1>1, <3>2 DEF AliasTypes
        <3> QED
            BY <2>5, <3>2, <3>4, <3>5, <3>6
    <2>6. CASE ~IsLoad(k)
        <3>1. jmem' = Stored(m, k) /\ jgot' = jgot
            BY <2>1, <2>6 DEF jit_access
        <3>2. \A j \in S : \A a \in Bytes(k) : Covers(j, a) => j < k
            BY <2>4
        <3>3. \A a \in Places : IsLast(Stored(m, k)[a], a, S \cup {k})
            BY <1>3, <2>2, <2>6, <3>2, StoreIsLast
        <3>4. jgot[k] = Unread
            BY <1>10, <2>6 DEF AliasInv, JitRight
        <3> QED
            BY <2>6, <3>1, <3>3, <3>4
    <2> QED
        BY <2>5, <2>6
<1>11. ASSUME ~MixesWidths, NEW j \in Accesses
       PROVE  IF IsLoad(j) /\ j \in jdone' THEN RightLoad(jgot'[j], j) ELSE jgot'[j] = Unread
    <2>1. CASE j = k
        BY <1>1, <1>10, <1>11, <2>1
    <2>2. CASE j # k
        <3>1. jgot'[j] = jgot[j] /\ (j \in jdone' <=> j \in jdone)
            BY <1>1, <1>8, <2>2
        <3> QED
            BY <1>11, <3>1 DEF AliasInv, JitRight
    <2> QED
        BY <2>1, <2>2
<1>12. JitRight'
    <2>1. PICK mm, gg, dd : mm = jmem' /\ gg = jgot' /\ dd = jdone'
        OBVIOUS
    <2>2. ~MixesWidths => \A a \in Places : IsLast(mm[a], a, dd)'
        BY <1>1, <1>4, <1>5, <1>10, <2>1
    <2>3. ~MixesWidths => \A j \in Accesses :
             IF IsLoad(j)' /\ j \in dd THEN RightLoad(gg[j], j)' ELSE gg[j] = Unread
        BY <1>5, <1>11, <2>1
    <2> QED
        BY <1>5, <2>1, <2>2, <2>3 DEF JitRight, Places, Unread
<1> QED
    BY <1>6, <1>7, <1>9, <1>12 DEF AliasInv

\* Either engine may be the next to make an access.
LEMMA AliasInvStep == AliasInv /\ [AliasNext]_aliasVars => AliasInv'
<1> SUFFICES ASSUME AliasInv, [AliasNext]_aliasVars
             PROVE  AliasInv'
    OBVIOUS
<1>1. CASE interp_access
    BY <1>1, InterpStep
<1>2. ASSUME NEW k \in 1 .. Len(accesses), jit_access(k)
      PROVE  AliasInv'
    BY <1>2, JitStep DEF Accesses
<1>3. CASE UNCHANGED aliasVars
    <2>1. /\ UNCHANGED <<accesses, regs, mem, got, jmem, jgot, done, jdone>>
          /\ Accesses' = Accesses
          /\ \A j : IsLoad(j)' <=> IsLoad(j)
          /\ \A v, a, T : IsLast(v, a, T)' <=> IsLast(v, a, T)
          /\ \A v, j : RightLoad(v, j)' <=> RightLoad(v, j)
          /\ \A i, j : MayPass(i, j)' <=> MayPass(i, j)
          /\ MixesWidths' <=> MixesWidths
        BY <1>3, SameBlock DEF aliasVars
    <2>2. AliasTypes' /\ Ordered'
        BY <2>1 DEF AliasInv, AliasTypes, Ordered, Places
    <2>3. InterpRight'
        BY <2>1 DEF AliasInv, InterpRight, Places, Unread
    <2>4. JitRight'
        BY <2>1 DEF AliasInv, JitRight, Places, Unread
    <2> QED
        BY <2>2, <2>3, <2>4 DEF AliasInv
<1> QED
    BY <1>1, <1>2, <1>3 DEF AliasNext

\* MEM_LOAD and MEM_STORE may be reordered by clang as far as their types
\* allow; the block leaves the interpreter's memory and registers all the
\* same, unless it accesses the same bytes in two widths.
THEOREM OrderIsInvisible == AliasSpec => []SameUnlessPunned
<1>1. ASSUME AliasInv, Ended, ~MixesWidths
      PROVE  Agree
    <2>1. AliasTypes /\ done = Len(accesses) /\ jdone = Accesses /\ 1 .. done = Accesses
        BY <1>1 DEF AliasInv, Ended, Accesses
    <2>2. PICK l \in Nat : l = Len(accesses)
        BY <2>1, BlocksAssumption DEF AliasTypes
    <2>3. PICK S \in SUBSET (Nat \ {0}) : S = Accesses
        BY <2>2 DEF Accesses
    <2>4. \A a \in Places : IsLast(mem[a], a, S) /\ IsLast(jmem[a], a, S)
        BY <1>1, <2>1, <2>3 DEF AliasInv, InterpRight, JitRight
    <2>5. \A a \in Places : mem[a] = jmem[a]
        BY <2>4, LastIsUnique
    <2>6. mem = jmem
        BY <2>1, <2>5 DEF AliasTypes
    <2>7. ASSUME NEW k \in Accesses
          PROVE  got[k] = jgot[k]
        <3>1. CASE IsLoad(k)
            <4>1. PICK v, w : v = got[k] /\ w = jgot[k]
                OBVIOUS
            <4>2. k <= done /\ k \in jdone
                BY <2>1, <2>2 DEF Accesses
            <4>3. RightLoad(v, k) /\ RightLoad(w, k)
                BY <1>1, <3>1, <4>1, <4>2 DEF AliasInv, InterpRight, JitRight
            <4>4. PICK T \in SUBSET (Nat \ {0}) : T = 1 .. k - 1
                BY <2>2 DEF Accesses
            <4>5. ASSUME NEW i \in 1 .. Width(k)
                  PROVE  v[i] = w[i]
                <5>1. PICK a : a = regs[accesses[k].reg] + i - 1
                    OBVIOUS
                <5>2. IsLast(v[i], a, T) /\ IsLast(w[i], a, T)
                    BY <4>3, <4>4, <5>1 DEF RightLoad
                <5> QED
                    BY <5>2, LastIsUnique
            <4>6. v = w
                BY <4>3, <4>5 DEF RightLoad
            <4> QED
                BY <4>1, <4>6
        <3>2. CASE ~IsLoad(k)
            BY <1>1, <3>2 DEF AliasInv, InterpRight, JitRight
        <3> QED
            BY <3>1, <3>2
    <2>8. got = jgot
        BY <2>1, <2>7 DEF AliasTypes
    <2> QED
        BY <2>6, <2>8 DEF Agree
<1>2. AliasInv => SameUnlessPunned
    BY <1>1 DEF SameUnlessPunned
<1> QED
    BY <1>2, AliasInvInit, AliasInvStep, PTL DEF AliasSpec
=============================================================================
