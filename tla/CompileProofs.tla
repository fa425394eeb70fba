--------------------------- MODULE CompileProofs ---------------------------
(***************************************************************************)
(* machine_compile is right for every size of pipe, every source and every *)
(* object file that clang may produce: standard output is the guest's      *)
(* whenever the guest runs, whole objects are linked, and the relocated    *)
(* instructions find their constants.                                      *)
(***************************************************************************)
EXTENDS Compile, WellFoundedInduction, TLAPS

Section == [name : STRING, size : Nat, align : Nat]
Relocation == [off : Nat, addend : Int, sec : Nat, value : Nat]

-----------------------------------------------------------------------------
\* Aligning never moves backwards.
LEMMA AlignTo ==
    ASSUME NEW v \in Nat, NEW a \in Nat
    PROVE  align_to(v, a) \in Nat /\ v <= align_to(v, a)
<1>1. CASE a = 0
    BY <1>1 DEF align_to
<1>2. CASE a # 0
    <2>1. PICK w \in Nat : w = v + a - 1
        BY <1>2
    <2>2. PICK q \in Nat : q = w \div a
        BY <1>2
    <2>3. w = a * q + (w % a) /\ w % a \in 0 .. a - 1
        BY <1>2, <2>2
    <2>4. align_to(v, a) = q * a
        BY <1>2, <2>1, <2>2 DEF align_to
    <2>5. q * a = a * q /\ a * q \in Nat
        OBVIOUS
    <2>6. w <= a * q + (a - 1)
        BY <1>2, <2>3, <2>5
    <2> QED
        BY <2>1, <2>4, <2>5, <2>6
<1> QED
    BY <1>1, <1>2

\* A nonempty set of natural numbers has a least one.
LEMMA LeastOf ==
    ASSUME NEW T \in SUBSET Nat, T # {}
    PROVE  \E m \in T : \A k \in T : m <= k
<1>1. PICK R : R = OpToRel(<, Nat)
    OBVIOUS
<1>2. IsWellFoundedOn(R, Nat)
    BY <1>1, NatLessThanWellFounded
<1>3. PICK m \in T : \A k \in T : ~(<<k, m>> \in R)
    BY <1>2, WFMin
<1>4. \A k \in Nat, j \in Nat : k < j => <<k, j>> \in R
    BY <1>1 DEF OpToRel
<1>5. ASSUME NEW k \in T
      PROVE  m <= k
    <2>1. m \in Nat /\ k \in Nat /\ ~(k < m)
        BY <1>3, <1>4
    <2> QED
        BY <2>1
<1> QED
    BY <1>5

\* So a nonempty set of numbers up to m has a greatest one.
LEMMA LastOf ==
    ASSUME NEW m \in Nat, NEW S \in SUBSET (1 .. m), S # {}
    PROVE  \E k \in S : \A j \in S : j <= k
<1>1. PICK T : T = { m - k : k \in S }
    OBVIOUS
<1>2. T \in SUBSET Nat /\ T # {}
    <2>1. \A k \in S : m - k \in Nat
        OBVIOUS
    <2> QED
        BY <1>1, <2>1
<1>3. PICK l \in T : \A t \in T : l <= t
    BY <1>2, LeastOf
<1>4. PICK k \in S : l = m - k
    BY <1>1, <1>3
<1>5. ASSUME NEW j \in S
      PROVE  j <= k
    <2>1. m - j \in T
        BY <1>1
    <2>2. l <= m - j
        BY <1>3, <2>1
    <2> QED
        BY <1>4, <2>2
<1> QED
    BY <1>5

\* The section scan finds a section of one of the names if there is one.
LEMMA ScanFinds ==
    ASSUME NEW names, obj.secs \in Seq(Section)
    PROVE  LET found == { k \in 1 .. Len(obj.secs) : obj.secs[k].name \in names }
           IN  /\ found = {} => IndexOf(names) = 0
               /\ found # {} => IndexOf(names) \in found
<1> DEFINE found == { k \in 1 .. Len(obj.secs) : obj.secs[k].name \in names }
<1>1. CASE found = {}
    BY <1>1 DEF IndexOf
<1>2. CASE found # {}
    <2>1. PICK m \in Nat : m = Len(obj.secs)
        OBVIOUS
    <2>2. found \in SUBSET (1 .. m)
        BY <2>1
    <2>3. \E k \in found : \A j \in found : j <= k
        BY <1>2, <2>2, LastOf
    <2>4. IndexOf(names) = CHOOSE k \in found : \A j \in found : j <= k
        BY <1>2 DEF IndexOf
    <2>5. IndexOf(names) \in found
        <3> HIDE DEF found
        <3> QED
            BY <2>3, <2>4
    <2> QED
        BY <1>2, <2>5
<1> QED
    BY <1>1, <1>2
-----------------------------------------------------------------------------
(***************************************************************************)
(* The inductive invariant.                                                *)
(***************************************************************************)
Types ==
    /\ ctl \in {"idle", "fwrite", "wait", "read", "link", "relocate", "dead"}
    /\ clang \in {"none", "read", "write", "failed", "exited"}
    /\ obj \in Objects
    /\ left \in Nat /\ outpipe \in -1 .. PIPE_CAP
    /\ n \in Nat /\ DOMAIN elfbuf = 1 .. BINBUF_CAP

\* What of the object is not in the pipe is still to be written; clang writes
\* only once it has its input, and what ended has written everything or
\* nothing.
Conserved ==
    /\ clang # "none" /\ outpipe >= 0
    /\ outpipe + left = obj.size
    /\ clang \in {"read", "failed"} => outpipe = 0
    /\ clang = "exited" => left = 0

\* While clang may write, descriptor 1 is the pipe; when the emulator has read
\* the object, clang is gone and descriptor 1 is the terminal.
Protocol ==
    /\ ctl \in {"fwrite", "wait", "read"} => Conserved
    /\ ctl = "read" => clang \in {"failed", "exited"}
    /\ ctl \in {"idle", "link", "relocate"} =>
         stdout = "terminal" /\ outpipe = -1 /\ clang \in {"none", "exited"}

LinkerTypes ==
    /\ offset \in Nat
    /\ place \in [rodata : Nat, text : Nat]
    /\ rel \in Nat /\ rel <= Len(obj.relas)
    /\ ctl \notin {"relocate", "idle"} => rel = 0

\* The constants lie before the code that refers to them.
Placed ==
    ctl \in {"relocate", "idle"} /\ n > 0 /\ obj.relas # <<>> /\ rodata_idx # 0 =>
        place.rodata + obj.secs[rodata_idx].size <= place.text

\* No relocation undoes an earlier one.
Patched ==
    \A k \in 1 .. rel :
        /\ obj.relas[k].off \in DOMAIN code
        /\ code[obj.relas[k].off] = Displacement(obj.relas[k])

\* An object is handed out with all its relocations done, if there are
\* constants at all.
AllDone ==
    ctl = "idle" /\ n > 0 => rodata_idx = 0 \/ rel = Len(obj.relas)

IoInv == Types /\ Protocol /\ LinksWholeObject

LinkInv == LinkerTypes /\ Placed /\ Patched /\ AllDone

IndInv == IoInv /\ LinkInv

-----------------------------------------------------------------------------
(***************************************************************************)
(* Pipes and processes.                                                    *)
(***************************************************************************)
LEMMA ObjectTypes ==
    ASSUME NEW o \in Objects
    PROVE  /\ o.size \in Nat \ {0}
           /\ o.secs \in Seq(Section)
           /\ o.relas \in Seq(Relocation)
           /\ \E k \in 1 .. Len(o.secs) : o.secs[k].name = ".text"
           /\ \A j, k \in 1 .. Len(o.relas) : o.relas[j].off = o.relas[k].off => j = k
<1>1. o.size \in Nat \ {0}
    BY ObjectsAssumption
<1>2. o.secs \in Seq(Section)
    BY ObjectsAssumption, Zenon DEF Section
<1>3. o.relas \in Seq(Relocation)
    BY ObjectsAssumption, Zenon DEF Relocation
<1>4. \E k \in 1 .. Len(o.secs) : o.secs[k].name = ".text"
    BY LinkableAssumption
<1>5. \A j, k \in 1 .. Len(o.relas) : o.relas[j].off = o.relas[k].off => j = k
    BY LinkableAssumption
<1> QED
    BY <1>1, <1>2, <1>3, <1>4, <1>5, Zenon

\* Nothing is open and nothing was read before the first compilation.
LEMMA IoInit == Init => IoInv
BY CapAssumption DEF Init, IoInv, Types, Protocol, LinksWholeObject

\* The pipes and clang: one step per action.
LEMMA IoStep == IoInv /\ [Next]_vars => IoInv'
<1> SUFFICES ASSUME IoInv, [Next]_vars
             PROVE  IoInv'
    OBVIOUS
<1> USE CapAssumption DEF IoInv, Types, Protocol, LinksWholeObject, Conserved, io, linker
<1>0. obj.size \in Nat \ {0} /\ (obj' \in Objects => obj'.size \in Nat \ {0})
    BY ObjectTypes
<1>1. CASE popen
    BY <1>0, <1>1 DEF popen
<1>2. CASE fwrite
    BY <1>2 DEF fwrite
<1>3. CASE pclose
    BY <1>3 DEF pclose
<1>4. CASE wait
    BY <1>4 DEF wait
<1>5. CASE read
    <2>1. clang = "exited" /\ left = 0 /\ outpipe = obj.size
        BY <1>5, <1>0 DEF read
    <2>2. obj.size <= BINBUF_CAP
        BY <2>1
    <2>3. ASSUME NEW b \in 1 .. obj.size
          PROVE  elfbuf'[b] = n
        <3>1. b \in DOMAIN elfbuf /\ b <= outpipe
            BY <2>1, <2>2, <1>0
        <3> QED
            BY <3>1, <1>5 DEF read
    <2> QED
        BY <1>5, <2>1, <2>2, <2>3 DEF read
<1>6. CASE link_text_only
    BY <1>6 DEF link_text_only
<1>7. CASE link_sections
    BY <1>7 DEF link_sections
<1>8. CASE relocate
    BY <1>8 DEF relocate
<1>9. CASE linked
    BY <1>9 DEF linked
<1>10. CASE clang_reads
    BY <1>10 DEF clang_reads
<1>11. CASE clang_compiles
    BY <1>11 DEF clang_compiles
<1>12. CASE clang_fails
    BY <1>12 DEF clang_fails
<1>13. CASE clang_writes
    BY <1>13 DEF clang_writes
<1>14. CASE clang_exits
    BY <1>14 DEF clang_exits
<1>15. CASE UNCHANGED vars
    BY <1>15 DEF vars
<1> QED
    BY <1>1, <1>2, <1>3, <1>4, <1>5, <1>6, <1>7, <1>8, <1>9, <1>10, <1>11, <1>12,
       <1>13, <1>14, <1>15 DEF Next, Emulator, Clang

-----------------------------------------------------------------------------
(***************************************************************************)
(* The linker.                                                             *)
(***************************************************************************)
\* The indexes of the scan are sections of the object.
LEMMA Sections ==
    ASSUME obj \in Objects
    PROVE  /\ text_idx \in 1 .. Len(obj.secs)
           /\ rodata_idx # 0 => /\ rodata_idx \in 1 .. Len(obj.secs)
                                /\ obj.secs[rodata_idx].name \in RodataDot
           /\ \A k \in 1 .. Len(obj.secs) : obj.secs[k] \in Section
           /\ \A k \in 1 .. Len(obj.secs) : obj.secs[k].name \in RodataDot => rodata_idx # 0
<1>1. obj.secs \in Seq(Section)
    BY ObjectTypes
<1>2. PICK t \in 1 .. Len(obj.secs) : obj.secs[t].name = ".text"
    BY ObjectTypes
<1>3. text_idx \in 1 .. Len(obj.secs)
    BY <1>1, <1>2, ScanFinds DEF text_idx
<1>4. rodata_idx # 0 => /\ rodata_idx \in 1 .. Len(obj.secs)
                        /\ obj.secs[rodata_idx].name \in RodataDot
    BY <1>1, ScanFinds DEF rodata_idx
<1>5. \A k \in 1 .. Len(obj.secs) : obj.secs[k] \in Section
    BY <1>1
<1>6. ASSUME NEW k \in 1 .. Len(obj.secs), obj.secs[k].name \in RodataDot
      PROVE  rodata_idx # 0
    BY <1>1, <1>6, ScanFinds DEF rodata_idx
<1> QED
    BY <1>3, <1>4, <1>5, <1>6

\* Nothing but popen exchanges the object.
LEMMA SameObject ==
    ASSUME obj' = obj
    PROVE  rodata_idx' = rodata_idx /\ text_idx' = text_idx
BY DEF rodata_idx, text_idx, IndexOf

\* Nothing is linked before the first compilation.
LEMMA LinkInit == Init => LinkInv
<1> SUFFICES ASSUME Init
             PROVE  LinkInv
    OBVIOUS
<1>1. obj \in Objects /\ obj.relas \in Seq(Relocation)
    BY ObjectTypes DEF Init
<1>2. PICK l \in Nat : l = Len(obj.relas)
    BY <1>1
<1>3. LinkerTypes
    BY <1>2 DEF Init, LinkerTypes
<1>4. Placed /\ AllDone /\ Patched
    BY DEF Init, Placed, AllDone, Patched
<1> QED
    BY <1>3, <1>4 DEF LinkInv

\* A step that leaves the linker's state alone and does not return from
\* machine_compile keeps its invariant.
LEMMA LinkFrame ==
    ASSUME LinkInv, UNCHANGED <<linker, obj, n>>,
           ctl' = ctl \/ (ctl \notin {"relocate", "idle"} /\ ctl' \notin {"relocate", "idle"})
    PROVE  LinkInv'
<1>1. rodata_idx' = rodata_idx
    BY SameObject
<1>2. offset' = offset /\ place' = place /\ rel' = rel /\ code' = code
    BY DEF linker
<1>3. LinkerTypes'
    BY <1>2 DEF LinkInv, LinkerTypes
<1>4. Placed'
    BY <1>1, <1>2 DEF LinkInv, Placed
<1>5. Patched'
    BY <1>2 DEF LinkInv, Patched, Displacement
<1>6. AllDone'
    BY <1>1, <1>2 DEF LinkInv, AllDone
<1> QED
    BY <1>3, <1>4, <1>5, <1>6 DEF LinkInv

\* A new compilation starts with no relocation done.
LEMMA PopenStep ==
    ASSUME IoInv, LinkInv, popen
    PROVE  LinkInv'
<1>1. obj' \in Objects /\ rel' = 0 /\ ctl' = "fwrite" /\ offset' = offset /\ place' = place
    BY DEF popen
<1>2. PICK l \in Nat : l = Len(obj'.relas)
    BY <1>1, ObjectTypes
<1>3. LinkerTypes'
    BY <1>1, <1>2 DEF LinkInv, LinkerTypes
<1>4. Placed' /\ Patched' /\ AllDone'
    BY <1>1 DEF Placed, Patched, AllDone
<1> QED
    BY <1>3, <1>4 DEF LinkInv

\* cache_add puts a section at or after the offset.
LEMMA PlaceOfTypes ==
    ASSUME NEW at \in Nat, NEW sec \in Section
    PROVE  PlaceOf(at, sec) \in Nat /\ at <= PlaceOf(at, sec) /\ sec.size \in Nat
BY AlignTo DEF PlaceOf, Section

\* An object without constants is installed as it is.
LEMMA TextOnlyStep ==
    ASSUME IoInv, LinkInv, link_text_only
    PROVE  LinkInv'
<1>1. obj \in Objects /\ ctl = "link" /\ ctl' = "idle" /\ obj' = obj /\ n' = n
      /\ rel' = rel /\ code' = code
    BY DEF IoInv, Types, link_text_only
<1>2. rodata_idx' = rodata_idx
    BY <1>1, SameObject
<1>3. obj.relas = <<>> \/ rodata_idx = 0
    BY DEF link_text_only
<1>4. rel = 0 /\ offset \in Nat /\ place \in [rodata : Nat, text : Nat]
    BY <1>1 DEF LinkInv, LinkerTypes
<1>5. PICK sec \in Section : sec = obj.secs[text_idx]
    BY <1>1, Sections
<1>6. PICK t \in Nat : t = PlaceOf(offset, sec)
    BY <1>4, PlaceOfTypes
<1>7. place' = [place EXCEPT !.text = t] /\ offset' = place'.text + sec.size
    BY <1>5, <1>6 DEF link_text_only
<1>8. place' \in [rodata : Nat, text : Nat] /\ place'.text = t
    BY <1>4, <1>7
<1>9. offset' \in Nat
    BY <1>7, <1>8, <1>4, PlaceOfTypes
<1>10. LinkerTypes'
    BY <1>1, <1>4, <1>8, <1>9 DEF LinkInv, LinkerTypes
<1>11. Placed' /\ AllDone' /\ Patched'
    BY <1>1, <1>2, <1>3, <1>4 DEF Placed, AllDone, Patched
<1> QED
    BY <1>10, <1>11 DEF LinkInv

\* Constants are added to the cache before the code, so they lie below it.
LEMMA SectionsStep ==
    ASSUME IoInv, LinkInv, link_sections
    PROVE  LinkInv'
<1>1. obj \in Objects /\ ctl = "link" /\ ctl' = "relocate" /\ obj' = obj /\ n' = n
      /\ rel' = rel /\ code' = code /\ rodata_idx # 0
    BY DEF IoInv, Types, link_sections
<1>2. rodata_idx' = rodata_idx
    BY <1>1, SameObject
<1>3. rel = 0 /\ offset \in Nat
    BY <1>1 DEF LinkInv, LinkerTypes
<1>4. PICK sec \in Section : sec = obj.secs[text_idx]
    BY <1>1, Sections
<1>5. PICK ro \in Section : ro = obj.secs[rodata_idx]
    BY <1>1, Sections
<1>6. PICK r \in Nat : r = PlaceOf(offset, ro)
    BY <1>3, PlaceOfTypes
<1>7. PICK z \in Nat : z = r + ro.size
    BY PlaceOfTypes
<1>8. PICK t \in Nat : t = PlaceOf(z, sec) /\ z <= t
    BY PlaceOfTypes
<1>9. place' = [rodata |-> r, text |-> t] /\ offset' = t + sec.size
    BY <1>4, <1>5, <1>6, <1>7, <1>8 DEF link_sections
<1>10. offset' \in Nat
    BY <1>9, PlaceOfTypes, <1>3
<1>11. LinkerTypes'
    BY <1>1, <1>3, <1>9, <1>10 DEF LinkInv, LinkerTypes
<1>12. Placed'
    BY <1>1, <1>2, <1>5, <1>7, <1>8, <1>9 DEF Placed
<1>13. AllDone' /\ Patched'
    BY <1>1, <1>3 DEF AllDone, Patched
<1> QED
    BY <1>11, <1>12, <1>13 DEF LinkInv

\* A relocation patches its own place, and no other relocation has that one.
LEMMA RelocateStep ==
    ASSUME IoInv, LinkInv, relocate
    PROVE  LinkInv'
<1>1. obj \in Objects /\ ctl = "relocate" /\ ctl' = "relocate" /\ obj' = obj /\ n' = n
      /\ offset' = offset /\ place' = place /\ rel' = rel + 1 /\ rel < Len(obj.relas)
    BY DEF IoInv, Types, relocate
<1>2. rodata_idx' = rodata_idx
    BY <1>1, SameObject
<1>3. rel \in Nat
    BY DEF LinkInv, LinkerTypes
<1>4. PICK l \in Nat : l = Len(obj.relas)
    BY <1>1, ObjectTypes
<1>5. LinkerTypes'
    BY <1>1, <1>3, <1>4 DEF LinkInv, LinkerTypes
<1>6. Placed' /\ AllDone'
    BY <1>1, <1>2 DEF LinkInv, Placed, AllDone
<1>7. PICK m \in Nat : m = rel + 1
    BY <1>3
<1>8. PICK r : r = obj.relas[m]
    OBVIOUS
<1>9. PICK d : d = Displacement(r)
    OBVIOUS
<1>10. code' = [k \in DOMAIN code \cup {r.off} |-> IF k = r.off THEN d ELSE code[k]]
    BY <1>7, <1>8, <1>9 DEF relocate
<1>11. ASSUME NEW k \in 1 .. m
       PROVE  /\ obj.relas[k].off \in DOMAIN code'
              /\ code'[obj.relas[k].off] = Displacement(obj.relas[k])
    <2>1. CASE k = m
        BY <1>8, <1>9, <1>10, <2>1
    <2>2. CASE k # m
        <3>1. k \in 1 .. rel
            BY <1>3, <1>7, <2>2
        <3>2. PICK q : q = obj.relas[k].off
            OBVIOUS
        <3>3. q \in DOMAIN code /\ code[q] = Displacement(obj.relas[k])
            BY <3>1, <3>2 DEF LinkInv, Patched
        <3>4. k \in 1 .. Len(obj.relas) /\ m \in 1 .. Len(obj.relas)
            BY <1>1, <1>3, <1>4, <1>7
        <3>5. q # r.off
            BY <1>1, <1>8, <3>2, <3>4, <2>2, ObjectTypes
        <3> QED
            BY <1>10, <3>2, <3>3, <3>5
    <2> QED
        BY <2>1, <2>2
<1>12. Patched'
    BY <1>1, <1>7, <1>11 DEF Patched, Displacement
<1> QED
    BY <1>5, <1>6, <1>12 DEF LinkInv

\* The object is handed out when the loop over the relocations is over.
LEMMA LinkedStep ==
    ASSUME IoInv, LinkInv, linked
    PROVE  LinkInv'
<1>1. obj' = obj /\ n' = n /\ offset' = offset /\ place' = place /\ rel' = rel /\ code' = code
      /\ ctl = "relocate" /\ ctl' = "idle" /\ rel = Len(obj.relas)
    BY DEF linked, linker
<1>2. rodata_idx' = rodata_idx
    BY <1>1, SameObject
<1>3. LinkerTypes'
    BY <1>1 DEF LinkInv, LinkerTypes
<1>4. Placed'
    BY <1>1, <1>2 DEF LinkInv, Placed
<1>5. AllDone'
    BY <1>1 DEF AllDone
<1>6. Patched'
    BY <1>1 DEF LinkInv, Patched, Displacement
<1> QED
    BY <1>3, <1>4, <1>5, <1>6 DEF LinkInv

\* The linker: the other actions leave its state alone.
LEMMA LinkStep == IoInv /\ LinkInv /\ [Next]_vars => LinkInv'
<1> SUFFICES ASSUME IoInv, LinkInv, [Next]_vars
             PROVE  LinkInv'
    OBVIOUS
<1>1. CASE fwrite \/ pclose \/ wait \/ read
    <2>1. UNCHANGED <<linker, obj, n>>
          /\ ctl \notin {"relocate", "idle"} /\ ctl' \notin {"relocate", "idle"}
        BY <1>1 DEF fwrite, pclose, wait, read
    <2> QED
        BY <2>1, LinkFrame
<1>2. CASE Clang \/ UNCHANGED vars
    <2>1. UNCHANGED <<linker, obj, n>> /\ ctl' = ctl
        BY <1>2 DEF Clang, clang_reads, clang_compiles, clang_fails, clang_writes,
                    clang_exits, vars, linker
    <2> QED
        BY <2>1, LinkFrame
<1>3. CASE popen
    BY <1>3, PopenStep
<1>4. CASE link_text_only
    BY <1>4, TextOnlyStep
<1>5. CASE link_sections
    BY <1>5, SectionsStep
<1>6. CASE relocate
    BY <1>6, RelocateStep
<1>7. CASE linked
    BY <1>7, LinkedStep
<1> QED
    BY <1>1, <1>2, <1>3, <1>4, <1>5, <1>6, <1>7 DEF Next, Emulator

\* The inductive invariant holds always.
LEMMA IndInvHolds == Spec => []IndInv
<1>1. Init => IndInv
    BY IoInit, LinkInit DEF IndInv
<1>2. IndInv /\ [Next]_vars => IndInv'
    BY IoStep, LinkStep DEF IndInv
<1> QED
    BY <1>1, <1>2, PTL DEF Spec

-----------------------------------------------------------------------------
(***************************************************************************)
(* The theorems.                                                           *)
(***************************************************************************)
\* machine_compile's last two calls give standard output back, on every way
\* that returns to the guest (compile.c:23-26).
THEOREM GuestKeepsStdout == Spec => []StdoutIsTheGuests
<1>1. IndInv => StdoutIsTheGuests
    BY DEF IndInv, IoInv, Protocol, StdoutIsTheGuests
<1> QED
    BY <1>1, IndInvHolds, PTL

\* One read after pclose is enough: it gets the whole object (compile.c:20-23).
THEOREM WholeObjectIsRead == Spec => []LinksWholeObject
<1>1. IndInv => LinksWholeObject
    BY DEF IndInv, IoInv
<1> QED
    BY <1>1, IndInvHolds, PTL

\* The assertion after each relocation (compile.c:97), at the end, for all of
\* them at once, in unbounded arithmetic.
THEOREM RelocationsHold == Spec => []ConstantsAreReached
<1>1. ASSUME IndInv, ctl = "idle", n > 0, Supported(obj),
             NEW k \in 1 .. Len(obj.relas)
      PROVE  LET r == obj.relas[k]
                 target == (place.text + r.off - r.addend) + code[r.off]
             IN  /\ target = place.rodata + r.value
                 /\ r.value < obj.secs[r.sec].size => target < place.text
    <2>1. obj \in Objects
        BY <1>1 DEF IndInv, IoInv, Types
    <2>2. PICK r \in Relocation : r = obj.relas[k]
        BY <2>1, ObjectTypes
    <2>3. r.off \in Nat /\ r.addend \in Int /\ r.value \in Nat
        BY DEF Relocation
    <2>4. r.sec \in 1 .. Len(obj.secs) /\ obj.secs[r.sec].name \in RodataDot
        BY <1>1, <2>2 DEF Supported
    <2>5. rodata_idx # 0 /\ rodata_idx \in 1 .. Len(obj.secs)
          /\ obj.secs[rodata_idx].name \in RodataDot
        BY <2>1, <2>4, Sections
    <2>6. rodata_idx = r.sec
        BY <1>1, <2>4, <2>5 DEF Supported
    <2>7. rel = Len(obj.relas)
        BY <1>1, <2>5 DEF IndInv, LinkInv, AllDone
    <2>8. code[r.off] = Displacement(r)
        BY <1>1, <2>2, <2>7 DEF IndInv, LinkInv, Patched
    <2>9. PICK sz \in Nat : sz = obj.secs[r.sec].size
        BY <2>1, <2>4, Sections DEF Section
    <2>10. obj.relas # <<>>
        OBVIOUS
    <2>11. place.rodata \in Nat /\ place.text \in Nat
        BY <1>1 DEF IndInv, LinkInv, LinkerTypes
    <2>12. place.rodata + sz <= place.text
        BY <1>1, <2>5, <2>6, <2>9, <2>10 DEF IndInv, LinkInv, Placed
    <2>13. code[r.off] = place.rodata + r.value + r.addend - (place.text + r.off)
        BY <2>8 DEF Displacement
    <2>14. (place.text + r.off - r.addend) + code[r.off] = place.rodata + r.value
        BY <2>3, <2>11, <2>13
    <2>15. r.value < sz => place.rodata + r.value < place.text
        BY <2>3, <2>11, <2>12
    <2> QED
        BY <2>2, <2>9, <2>14, <2>15
<1>2. IndInv => ConstantsAreReached
    BY <1>1 DEF ConstantsAreReached
<1> QED
    BY <1>2, IndInvHolds, PTL
=============================================================================
