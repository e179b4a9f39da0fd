--------------------------- MODULE RtldObjectsCalls ---------------------------
(***************************************************************************)
(* Further theorems about RtldObjects, from its inductive invariant: who   *)
(* runs the functions of an object, which objects are relocated, and what  *)
(* stays dead.                                                             *)
(***************************************************************************)
EXTENDS RtldObjectsProofs

\* A call that runs a function of l.
Running(f, l) == f.pc = "calling" /\ Head(f.todo)[2] = l

\* initfinilock, for each object.
RunOK ==
    \A l \in Libs, c \in Threads \X Nat : Running(Rec(c), l) =>
        /\ obj[l].initfini = c[1]
        /\ Head(Rec(c).todo)[1] # "fini" => Listed(l)
        /\ \A d \in Threads \X Nat : Running(Rec(d), l) => d = c

HeldOK == \A l \in Libs : obj[l].initfini # None => \E c \in Threads \X Nat : Running(Rec(c), l)

\* A dlopen that has relocated its object, or found it relocated.
Relocated(f) ==
    /\ f.phase = "init"
    /\ f.pc \in {"sort", "call", "calling", "opened"} \/ (f.pc = "ref" /\ f.pos = None)

RelocOK(f) ==
    /\ Relocated(f) => obj[f.root].reloc = "done"
    /\ f.pc = "dag" /\ f.work # << f.root >> => obj[f.root].reloc # "notyet"

RelocInv ==
    /\ \A c \in Threads \X Nat : RelocOK(Rec(c))
    /\ \A l \in Libs : obj[l].reloc # "failed" /\ (handles[l] > 0 => obj[l].reloc = "done")

-----------------------------------------------------------------------------
(* What a step does to the objects *)

\* Functions, locks and relocation stay, and no dead object comes back.
Kept ==
    \A l \in Libs :
        /\ obj'[l].left = obj[l].left /\ obj'[l].initfini = obj[l].initfini
        /\ obj'[l].reloc = obj[l].reloc
        /\ obj'[l].ref > 0 => obj[l].ref > 0 \/ ~Listed(l)
        /\ Listed(l) => Listed(l)'

\* The steps that do not keep them.
Special(t) == Dag(t) \/ Relocate(t) \/ Call(t) \/ Return(t) \/ Free(t)

\* A step that leaves objects alone.
LEMMA KeptSame == ASSUME obj' = obj, objlist' = objlist PROVE Kept
BY DEF Kept, Listed

\* dlopen takes a reference.
LEMMA KeptLoad == ASSUME IInv, NEW t \in Threads, LoadNew(t) \/ LoadOld(t) PROVE Kept
<1>1. PICK U : Frames(U)
    BY DEF IInv
<1>2. PICK l : l = th[t].root
    OBVIOUS
<1>3. th[t].pc = "load" /\ LocalsOK(th[t])
    BY <1>1, Mine DEF LoadNew, LoadOld, At
<1>4. l \in Libs /\ obj \in [Libs -> Entry] /\ objlist \in Seq(Libs)
    BY <1>2, <1>3 DEF IInv, Data, LocalsOK
<1>5. \A z \in Libs : Listed(z) => Listed(z)'
    <2>1. CASE objlist' = objlist
        BY <2>1 DEF Listed
    <2>2. CASE objlist' = Append(objlist, l)
        BY <1>4, <2>2 DEF Listed
    <2> QED
        BY <1>2, <2>1, <2>2 DEF LoadNew, LoadOld, Map
<1>6. CASE LoadNew(t)
    <2>1. obj' = [obj EXCEPT ![l].ref = 1, ![l].dlref = 1] /\ ~Listed(l)
        BY <1>2, <1>6 DEF LoadNew, Map
    <2> QED
        BY <1>4, <1>5, <2>1 DEF Kept, Entry
<1>7. CASE LoadOld(t)
    <2>1. obj' = [obj EXCEPT ![l].ref = @ + 1, ![l].dlref = @ + 1] /\ obj[l].ref > 0
        BY <1>2, <1>7 DEF LoadOld
    <2> QED
        BY <1>4, <1>5, <2>1 DEF Kept, Entry
<1> QED
    BY <1>6, <1>7

\* A DT_NEEDED entry is resolved.
LEMMA KeptResolved == ASSUME IInv, NEW t \in Threads, ByNameOld(t) \/ ByNameNew(t) PROVE Kept
<1>1. PICK U : Frames(U)
    BY DEF IInv
<1>2. PICK n, p : n = Name(t) /\ p = th[t].pos
    OBVIOUS
<1>3. th[t].pc = "byname" /\ lock = t /\ obj' = Resolved(t, obj)
    BY DEF ByNameOld, ByNameNew, At, Map
<1>4. n \in Libs /\ p \in Libs
    BY <1>1, <1>2, <1>3, NameFacts
<1>5. obj \in [Libs -> Entry] /\ objlist \in Seq(Libs) /\ Data
    BY DEF IInv, Data
<1>6. \A z \in Libs : Listed(z) => Listed(z)'
    <2>1. CASE objlist' = objlist
        BY <2>1 DEF Listed
    <2>2. CASE objlist' = Append(objlist, n)
        BY <1>4, <1>5, <2>2 DEF Listed
    <2> QED
        BY <1>2, <2>1, <2>2 DEF ByNameOld, ByNameNew, Map
<1>7. \A z \in Libs : z # n => obj'[z].ref = obj[z].ref
    BY <1>2, <1>3, <1>4, <1>5, ResolvedFacts
<1>8. ~Listed(n) \/ obj[n].ref > 0
    BY <1>2 DEF ByNameOld, ByNameNew
<1>9. PICK v : v = Pins(t)
    OBVIOUS
<1>10. obj' = [obj EXCEPT ![p].need = @ \cup {n}, ![n].ref = @ + 1, ![n].nodel = @ \/ v]
    BY <1>2, <1>3, <1>9 DEF Resolved
<1>11. \A z \in Libs : /\ obj'[z].left = obj[z].left /\ obj'[z].initfini = obj[z].initfini
                       /\ obj'[z].reloc = obj[z].reloc
    <2>1. PICK f : f = [obj EXCEPT ![p].need = @ \cup {n}]
        OBVIOUS
    <2>2. \A z \in Libs : /\ f[z].left = obj[z].left /\ f[z].initfini = obj[z].initfini
                          /\ f[z].reloc = obj[z].reloc
        BY <1>4, <1>5, <2>1, SMTT(60) DEF Entry
    <2>3. f \in [Libs -> Entry]
        <3>1. obj[p].need \cup {n} \in SUBSET Libs
            BY <1>4, <1>5 DEF Entry
        <3>2. obj[p] \in Entry
            BY <1>4, <1>5
        <3>3. [obj[p] EXCEPT !.need = obj[p].need \cup {n}] \in Entry
            BY <3>1, <3>2 DEF Entry
        <3> QED
            BY <1>4, <1>5, <2>1, <3>3
    <2>4. obj' = [f EXCEPT ![n].ref = @ + 1, ![n].nodel = @ \/ v]
        BY <1>10, <2>1
    <2>5. \A z \in Libs : z # n => obj'[z] = f[z]
        BY <2>3, <2>4
    <2>6. PICK x, y : obj'[n] = [f[n] EXCEPT !.ref = x, !.nodel = y]
        <3>1. obj'[n] = [f[n] EXCEPT !.ref = f[n].ref + 1, !.nodel = f[n].nodel \/ v]
            BY <1>4, <2>3, <2>4 DEF Entry
        <3> QED
            BY <3>1
    <2>7. /\ obj'[n].left = f[n].left /\ obj'[n].initfini = f[n].initfini
          /\ obj'[n].reloc = f[n].reloc
        <3>1. f[n] \in Entry
            BY <1>4, <2>3
        <3> QED
            BY <2>6, <3>1 DEF Entry
    <2> QED
        BY <2>2, <2>5, <2>7
<1> QED
    BY <1>4, <1>6, <1>7, <1>8, <1>11 DEF Kept

\* Counters and marks of one object.
LEMMA KeptEdit ==
    ASSUME Data, objlist' = objlist, NEW p, NEW x, NEW y,
           \/ obj' = [obj EXCEPT ![p].nref = x]
           \/ obj' = [obj EXCEPT ![p].nref = x, ![p].need = y]
           \/ obj' = [obj EXCEPT ![p].dlref = x]
           \/ obj' = [obj EXCEPT ![p].znodel = x, ![p].nodel = y]
           \/ obj' = [obj EXCEPT ![p].ref = x] /\ (x > 0 => obj[p].ref > 0)
           \/ obj' = [obj EXCEPT ![p].cxa = y, ![p].ref = x] /\ (x > 0 => obj[p].ref > 0)
    PROVE  Kept
<1>1. obj \in [Libs -> Entry] /\ \A l \in Libs : Listed(l) => Listed(l)'
    BY DEF Data, Listed
<1>2. CASE p \notin Libs
    <2>1. obj' = obj
        BY <1>1, <1>2
    <2> QED
        BY <1>1, <2>1 DEF Kept
<1>3. CASE p \in Libs
    <2>1. \A l \in Libs : l # p => obj'[l] = obj[l]
        BY <1>1, <1>3
    <2>2. /\ obj'[p].left = obj[p].left /\ obj'[p].initfini = obj[p].initfini
          /\ obj'[p].reloc = obj[p].reloc /\ (obj'[p].ref = obj[p].ref \/ (obj'[p].ref > 0 => obj[p].ref > 0))
        BY <1>1, <1>3 DEF Entry
    <2> QED
        BY <1>1, <2>1, <2>2 DEF Kept
<1> QED
    BY <1>2, <1>3

\* The steps that count references, loads and opens.
LEMMA KeptCounts ==
    ASSUME IInv, NEW t \in Threads,
           Scan(t) \/ Need(t) \/ ByNameFail(t) \/ RefDag(t) \/ OpenFails(t) \/ Pin(t) \/ Unref(t)
    PROVE  Kept
<1>1. PICK U : Frames(U)
    BY DEF IInv
<1>2. PICK p : p = th[t].pos
    OBVIOUS
<1>3. Data /\ objlist' = objlist
    BY DEF IInv, Scan, Need, ByNameFail, RefDag, OpenFails, Pin, Unref
<1>4. CASE Scan(t)
    <2>1. obj' = obj \/ obj' = [obj EXCEPT ![p].nref = obj[p].nref + 1]
        BY <1>2, <1>4 DEF Scan
    <2> QED
        BY <1>3, <2>1, KeptEdit, KeptSame
<1>5. CASE Need(t)
    <2>1. obj' = obj \/ obj' = [obj EXCEPT ![p].nref = obj[p].nref - 1]
        BY <1>2, <1>5 DEF Need
    <2> QED
        BY <1>3, <2>1, KeptEdit, KeptSame
<1>6. CASE ByNameFail(t)
    <2>1. obj' = [obj EXCEPT ![p].nref = @ - 1, ![p].need = @ \ {Name(t)}]
        BY <1>2, <1>6 DEF ByNameFail
    <2>2. obj' = [obj EXCEPT ![p].nref = obj[p].nref - 1, ![p].need = obj[p].need \ {Name(t)}]
        BY <1>3, <2>1 DEF Data, Entry
    <2> QED
        BY <1>3, <2>2, KeptEdit
<1>7. CASE RefDag(t)
    <2>1. PICK o : o = Head(th[t].work)
        OBVIOUS
    <2>2. obj' = [obj EXCEPT ![o].ref = obj[o].ref + 1]
        BY <1>7, <2>1 DEF RefDag
    <2>3. lock = t /\ th[t].pc = "ref" /\ th[t].work \in Seq(Libs) /\ th[t].work # << >>
        BY <1>1, <1>7, Mine DEF RefDag, At, CallOf
    <2>4. o = th[t].work[1] /\ 1 \in 1 .. Len(th[t].work)
        BY <2>1, <2>3
    <2>5. obj[o].ref > 0
        BY <2>3, <2>4 DEF IInv, Working
    <2> QED
        BY <1>3, <2>2, <2>5, KeptEdit
<1>8. CASE OpenFails(t)
    <2>1. obj' = [obj EXCEPT ![th[t].root].dlref = obj[th[t].root].dlref - 1]
        BY <1>8 DEF OpenFails
    <2> QED
        BY <1>3, <2>1, KeptEdit
<1>9. CASE Pin(t)
    <2>1. obj' = [obj EXCEPT ![th[t].root].znodel = TRUE, ![th[t].root].nodel = TRUE]
        BY <1>9 DEF Pin
    <2> QED
        BY <1>3, <2>1, KeptEdit
<1>10. CASE Unref(t)
    <2>1. PICK o : o = Head(th[t].work)
        OBVIOUS
    <2>2. obj' = [obj EXCEPT ![o].ref = obj[o].ref - 1]
        BY <1>10, <2>1 DEF Unref
    <2>3. th[t].work \in Seq(Libs) /\ th[t].work # << >>
        BY <1>1, <1>10, Mine DEF Unref, CallOf
    <2>4. o \in Libs
        BY <2>1, <2>3
    <2>5. obj[o].ref \in Nat
        BY <1>3, <2>4 DEF Data, Entry
    <2>6. obj[o].ref - 1 > 0 => obj[o].ref > 0
        BY <2>5
    <2> QED
        BY <1>3, <2>2, <2>6, KeptEdit
<1> QED
    BY <1>4, <1>5, <1>6, <1>7, <1>8, <1>9, <1>10

\* Callers close handles and register destructors.
LEMMA KeptCallers ==
    ASSUME IInv, NEW t \in Threads, NEW l \in Libs, Dlclose(t, l) \/ CxaRef(t, l) \/ CxaUnref(t, l)
    PROVE  Kept
<1>1. PICK U : Frames(U)
    BY DEF IInv
<1>2. Data /\ objlist' = objlist /\ obj[l].ref \in Nat
    BY DEF IInv, Dlclose, CxaRef, CxaUnref, Data, Entry
<1>3. CASE Dlclose(t, l)
    <2>1. obj' = obj \/ obj' = [obj EXCEPT ![l].dlref = obj[l].dlref - 1]
        BY <1>3 DEF Dlclose
    <2> QED
        BY <1>2, <2>1, KeptEdit, KeptSame
<1>4. CASE CxaRef(t, l)
    <2>1. PICK x : x = IF obj[l].cxa = 0 THEN obj[l].ref + 1 ELSE obj[l].ref
        OBVIOUS
    <2>2. obj' = obj \/ obj' = [obj EXCEPT ![l].cxa = @ + 1, ![l].ref = IF obj[l].cxa = 0 THEN @ + 1 ELSE @]
        BY <1>4 DEF CxaRef
    <2>3. obj' = obj \/ obj' = [obj EXCEPT ![l].cxa = obj[l].cxa + 1, ![l].ref = x]
        BY <1>2, <2>1, <2>2 DEF Data, Entry
    <2>4. handles[l] > 0
        BY <1>4 DEF CxaRef
    <2>5. obj[l].ref >= 1
        BY <1>1, <2>4, MyCounts
    <2>6. x > 0 => obj[l].ref > 0
        BY <1>2, <2>5
    <2> QED
        BY <1>2, <2>3, <2>6, KeptEdit, KeptSame
<1>5. CASE CxaUnref(t, l)
    <2>1. PICK x : x = IF obj[l].cxa = 1 THEN obj[l].ref - 1 ELSE obj[l].ref
        OBVIOUS
    <2>2. obj' = obj \/ obj' = [obj EXCEPT ![l].cxa = @ - 1, ![l].ref = IF obj[l].cxa = 1 THEN @ - 1 ELSE @]
        BY <1>5 DEF CxaUnref
    <2>3. obj' = obj \/ obj' = [obj EXCEPT ![l].cxa = obj[l].cxa - 1, ![l].ref = x]
        BY <1>2, <2>1, <2>2 DEF Data, Entry
    <2>4. x > 0 => obj[l].ref > 0
        BY <1>2, <2>1
    <2> QED
        BY <1>2, <2>3, <2>4, KeptEdit, KeptSame
<1> QED
    BY <1>3, <1>4, <1>5

\* dlclosing.
LEMMA KeptMarks == ASSUME IInv, NEW t \in Threads, Closing(t) \/ Undag(t) PROVE Kept
<1>1. obj \in [Libs -> Entry]
    BY DEF IInv, Data
<1>2. \A l \in Libs : Listed(l) => Listed(l)'
    BY DEF Closing, Undag, Listed
<1>3. CASE Closing(t)
    <2>1. ASSUME NEW l \in Libs PROVE obj'[l] = [obj[l] EXCEPT !.closing = obj'[l].closing]
        BY <1>1, <1>3 DEF Closing, Mark, Entry
    <2> QED
        BY <1>1, <1>2, <2>1, ZenonT(60) DEF Kept, Entry
<1>4. CASE Undag(t)
    <2>1. ASSUME NEW l \in Libs
          PROVE  /\ obj'[l].left = obj[l].left /\ obj'[l].initfini = obj[l].initfini
                 /\ obj'[l].reloc = obj[l].reloc /\ obj'[l].ref = obj[l].ref
        <3>1. PICK m : m = Mark(th[t].root, -1)[l]
            OBVIOUS
        <3>2. PICK x : m = [obj[l] EXCEPT !.closing = x]
            BY <3>1 DEF Mark
        <3>3. obj[l] \in Entry
            BY <1>1
        <3>4. PICK y : obj'[l] = [m EXCEPT !.dldags = y]
            BY <1>4, <3>1 DEF Undag
        <3>5. obj'[l] = [[obj[l] EXCEPT !.closing = x] EXCEPT !.dldags = y]
            BY <3>2, <3>4
        <3> QED
            BY <3>3, <3>5 DEF Entry
    <2> QED
        BY <1>2, <2>1 DEF Kept
<1> QED
    BY <1>3, <1>4

\* Every step but the special ones.
LEMMA KeptNext == ASSUME IInv, [Next]_vars PROVE Kept \/ \E t \in Threads : Special(t)
<1>1. ASSUME NEW t \in Threads, LoadStep(t), ~Special(t) PROVE Kept
    BY <1>1, KeptSame, KeptLoad, KeptResolved, KeptCounts
    DEF LoadStep, Special, LoadFail, LoadWait, ByNameWait, RefDone
<1>2. ASSUME NEW t \in Threads, CallStep(t), ~Special(t) PROVE Kept
    BY <1>2, KeptSame, KeptCounts DEF CallStep, Special, Sort, Skip, CallWait, Initialized, Opened, Finalized
<1>3. ASSUME NEW t \in Threads, UnloadStep(t), ~Special(t) PROVE Kept
    BY <1>3, KeptSame, KeptCounts, KeptMarks DEF UnloadStep, Special, StillReferenced, FreeWait, Unloaded
<1>4. ASSUME NEW t \in Threads, NEW l \in Libs, NEW nodelete \in Modes[l], Dlopen(t, l, nodelete) PROVE Kept
    BY <1>4, KeptSame DEF Dlopen
<1>5. ASSUME NEW t \in Threads, Relock(t) PROVE Kept
    BY <1>5, KeptSame DEF Relock
<1>6. CASE UNCHANGED vars
    BY <1>6, KeptSame DEF vars
<1> QED
    BY <1>1, <1>2, <1>3, <1>4, <1>5, <1>6, KeptCallers DEF Next, Step, Terminated
-----------------------------------------------------------------------------
(* What a step does to the calls *)

\* A thread goes on in its innermost call.
LEMMA LocalMoves ==
    ASSUME IInv, IInv', NEW t \in Threads, outer' = outer, lock \in {t, None}, lock' \in {t, None},
           th[t].pc # "idle", \A u \in Threads : u # t => th'[u] = th[u]
    PROVE  \E me \in Threads \X Nat : me = << t, Depth(t) >> /\ Moves(me, th[t], th'[t])
<1>1. PICK U : Frames(U)
    BY DEF IInv
<1>2. PICK W : Frames(W)'
    BY DEF IInv
<1>3. Stacks /\ Stacks'
    BY DEF IInv
<1>4. th'[t] \in CallOf(W) /\ th' = [th EXCEPT ![t] = th'[t]]
    BY <1>1, <1>2 DEF Frames
<1>5. th'[t].pc # "idle"
    BY <1>3 DEF Stacks
<1>6. lock' = t => th'[t].pc # "calling"
    BY <1>3 DEF Stacks
<1>7. lock' = None => th'[t].pc \in Parked
    BY <1>3, ConstantFacts DEF Stacks
<1> QED
    BY <1>1, <1>3, <1>4, <1>5, <1>6, <1>7, LocalStep

\* No call changes.
LEMMA NoMoves ==
    ASSUME IInv, NEW t \in Threads, th' = th, outer' = outer
    PROVE  \E me \in Threads \X Nat : Moves(me, Idle, Idle)
<1>1. PICK U : Frames(U)
    BY DEF IInv
<1>2. Frames(U)'
    BY <1>1 DEF Frames
<1>3. PICK n : n = Len(outer[t]) + 1
    OBVIOUS
<1>4. Len(outer[t]) \in Nat /\ n \in Nat /\ << t, n >> \in Threads \X Nat
    BY <1>1, <1>3, RecFacts
<1>5. Rec(<< t, n >>) = Idle
    BY <1>1, <1>3, <1>4, RecFacts
<1>6. ASSUME NEW c \in Threads \X Nat PROVE Rec(c)' = Rec(c)
    <2>1. PICK u \in Threads, k \in Nat : c = << u, k >>
        OBVIOUS
    <2> QED
        BY <1>1, <1>2, <2>1, RecFacts, RecFactsPrime
<1>7. Moves(<< t, n >>, Idle, Idle)
    BY <1>4, <1>5, <1>6 DEF Moves
<1> QED
    BY <1>4, <1>7

\* Where a call goes in a step that is not one of the special ones.
Ordinary(b, g) ==
    /\ b.pc # "calling" /\ g.pc # "calling"
    /\ Relocated(g) => Relocated(b) /\ g.root = b.root
    /\ g.pc = "dag" => g.work = << g.root >>

\* A step of a thread in its innermost call.
Inside(t) ==
    /\ outer' = outer /\ lock \in {t, None} /\ lock' \in {t, None} /\ th[t].pc # "idle"
    /\ \A u \in Threads : u # t => th'[u] = th[u]

\* Of its innermost call.
Advances(t) == \E me \in Threads \X Nat : me = << t, Depth(t) >> /\ Moves(me, th[t], th'[t])

\* The steps of dlopen that relocate the object, or find it relocated.
Finds(t) == Relocate(t) \/ (LoadOld(t) /\ pending = 0)

\* The steps that load objects.
LEMMA LoadInside ==
    ASSUME IInv, NEW t \in Threads, LoadStep(t), ~LoadFail(t)
    PROVE  Inside(t) /\ (Ordinary(th[t], th'[t]) \/ Dag(t) \/ Finds(t))
<1>1. PICK U : Frames(U)
    BY DEF IInv
<1>2. th[t] \in CallOf(U) /\ LocalsOK(th[t]) /\ th \in [Threads -> CallOf(U)]
    BY <1>1, Mine DEF Frames
<1>3. lock = t /\ th[t].pc \notin {"idle", "calling"} /\ outer' = outer
    BY DEF LoadStep, LoadWait, LoadNew, LoadOld, Scan, Need, ByNameWait, ByNameOld, ByNameNew, ByNameFail,
           Dag, RefDag, RefDone, Relocate, OpenFails, At, Wait, clients
<1>4. lock' \in {t, None}
    BY <1>3 DEF LoadStep, LoadWait, LoadNew, LoadOld, Scan, Need, ByNameWait, ByNameOld, ByNameNew, ByNameFail,
           Dag, RefDag, RefDone, Relocate, OpenFails, Wait
<1>5. CASE LoadWait(t)
    <2>1. th' = [th EXCEPT ![t].pc = "load"]
        BY <1>5 DEF LoadWait, Wait, Goto
    <2> QED
        BY <1>2, <1>3, <1>4, <2>1 DEF Inside, Ordinary, Relocated, CallOf
<1>6. CASE LoadNew(t)
    <2>1. th' = [th EXCEPT ![t].pc = "scan", ![t].pos = th[t].root]
        BY <1>6 DEF LoadNew
    <2> QED
        BY <1>2, <1>3, <1>4, <2>1 DEF Inside, Ordinary, Relocated, CallOf
<1>7. CASE LoadOld(t) /\ pending # 0
    <2>1. th' = [th EXCEPT ![t].pc = "scan", ![t].pos = th[t].root]
        BY <1>7 DEF LoadOld
    <2> QED
        BY <1>2, <1>3, <1>4, <2>1 DEF Inside, Ordinary, Relocated, CallOf
<1>8. CASE LoadOld(t) /\ pending = 0
    <2>1. th' = [th EXCEPT ![t].pc = "opened"]
        BY <1>8 DEF LoadOld
    <2> QED
        BY <1>2, <1>3, <1>4, <1>8, <2>1 DEF Inside, Finds
<1>9. CASE Scan(t)
    <2>1. \/ th' = [th EXCEPT ![t].pc = "dag", ![t].work = << th[t].root >>]
          \/ th' = [th EXCEPT ![t].pos = NextOf(th[t].pos)] /\ th[t].pc = "scan"
          \/ th' = [th EXCEPT ![t].pc = "need", ![t].idx = 1]
        BY <1>9 DEF Scan, At
    <2> QED
        BY <1>2, <1>3, <1>4, <2>1 DEF Inside, Ordinary, Relocated, CallOf
<1>10. CASE Need(t)
    <2>1. \/ th' = [th EXCEPT ![t].pc = "scan", ![t].pos = NextOf(th[t].pos), ![t].idx = 0]
          \/ th' = [th EXCEPT ![t].idx = @ + 1] /\ th[t].pc = "need"
          \/ th' = [th EXCEPT ![t].pc = "byname"]
        BY <1>10 DEF Need, At, Goto
    <2> QED
        BY <1>2, <1>3, <1>4, <2>1 DEF Inside, Ordinary, Relocated, CallOf
<1>11. CASE ByNameWait(t)
    <2>1. th' = [th EXCEPT ![t].pc = "byname"]
        BY <1>11 DEF ByNameWait, Wait, Goto
    <2> QED
        BY <1>2, <1>3, <1>4, <2>1 DEF Inside, Ordinary, Relocated, CallOf
<1>12. CASE ByNameOld(t) \/ ByNameNew(t)
    <2>1. /\ \/ th' = [th EXCEPT ![t].pc = "ref", ![t].work = << Name(t) >>]
             \/ th' = [th EXCEPT ![t].pc = "need", ![t].idx = @ + 1]
          /\ th[t].pc = "byname"
        BY <1>12 DEF ByNameOld, ByNameNew, At, AfterResolved
    <2>2. th[t].pos # None
        BY <1>2, <2>1, ConstantFacts DEF LocalsOK
    <2> QED
        BY <1>2, <1>3, <1>4, <2>1, <2>2 DEF Inside, Ordinary, Relocated, CallOf
<1>13. CASE ByNameFail(t) \/ OpenFails(t)
    <2>1. \/ th' = [th EXCEPT ![t].pc = "fail", ![t].pos = None, ![t].idx = 0]
          \/ th' = [th EXCEPT ![t].pc = "unref", ![t].work = << th[t].root >>, ![t].phase = "failed"]
        BY <1>13 DEF ByNameFail, OpenFails
    <2> QED
        BY <1>2, <1>3, <1>4, <2>1 DEF Inside, Ordinary, Relocated, CallOf
<1>14. CASE RefDag(t)
    <2>1. th' = [th EXCEPT ![t].work = Needed(Head(@)) \o Tail(@)] /\ th[t].pc = "ref"
        BY <1>14 DEF RefDag, At
    <2> QED
        BY <1>2, <1>3, <1>4, <2>1 DEF Inside, Ordinary, Relocated, CallOf
<1>15. CASE RefDone(t)
    <2>1. /\ th[t].pc = "ref"
          /\ \/ th' = [th EXCEPT ![t].pc = "opened"] /\ th[t].pos = None
             \/ th' = [th EXCEPT ![t].pc = "need", ![t].idx = @ + 1]
        BY <1>15 DEF RefDone, At
    <2> QED
        BY <1>2, <1>3, <1>4, <2>1 DEF Inside, Ordinary, Relocated, CallOf
<1>16. CASE Dag(t)
    <2>1. \A u \in Threads : u # t => th'[u] = th[u]
        BY <1>2, <1>16 DEF Dag
    <2> QED
        BY <1>3, <1>4, <1>16, <2>1 DEF Inside
<1>17. CASE Relocate(t)
    <2>1. \A u \in Threads : u # t => th'[u] = th[u]
        BY <1>2, <1>17 DEF Relocate, Goto
    <2> QED
        BY <1>3, <1>4, <1>17, <2>1 DEF Inside, Finds
<1> QED
    BY <1>5, <1>6, <1>7, <1>8, <1>9, <1>10, <1>11, <1>12, <1>13, <1>14, <1>15, <1>16, <1>17 DEF LoadStep

\* The steps that run functions.
LEMMA CallInside ==
    ASSUME IInv, NEW t \in Threads, CallStep(t), ~Opened(t)
    PROVE  Inside(t) /\ (Ordinary(th[t], th'[t]) \/ Call(t) \/ Return(t))
<1>1. PICK U : Frames(U)
    BY DEF IInv
<1>2. th[t] \in CallOf(U) /\ LocalsOK(th[t]) /\ th \in [Threads -> CallOf(U)]
    BY <1>1, Mine DEF Frames
<1>3. lock \in {t, None} /\ th[t].pc # "idle" /\ outer' = outer
    BY DEF CallStep, Sort, Skip, CallWait, Call, Return, Initialized, Pin, Finalized, At, clients
<1>4. lock' \in {t, None}
    BY <1>3 DEF CallStep, Sort, Skip, CallWait, Call, Return, Initialized, Pin, Finalized, At, Wait
<1>5. CASE Sort(t)
    <2>1. PICK x : th' = [th EXCEPT ![t].pc = "call", ![t].todo = x] /\ th[t].pc = "sort"
        BY <1>5 DEF Sort, At
    <2> QED
        BY <1>2, <1>3, <1>4, <2>1 DEF Inside, Ordinary, Relocated, CallOf
<1>6. CASE Skip(t)
    <2>1. th' = [th EXCEPT ![t].todo = Tail(@)] /\ th[t].pc = "call"
        BY <1>6 DEF Skip, At
    <2> QED
        BY <1>2, <1>3, <1>4, <2>1 DEF Inside, Ordinary, Relocated, CallOf
<1>7. CASE CallWait(t)
    <2>1. th' = [th EXCEPT ![t].pc = "sort", ![t].todo = << >>] /\ th[t].pc = "call"
        BY <1>7 DEF CallWait, At
    <2> QED
        BY <1>2, <1>3, <1>4, <2>1 DEF Inside, Ordinary, Relocated, CallOf
<1>8. CASE Initialized(t) \/ Finalized(t)
    <2>1. /\ th' = [th EXCEPT ![t].pc = "opened"] \/ th' = [th EXCEPT ![t].pc = "undag"]
          /\ th[t].pc = "call"
        BY <1>8 DEF Initialized, Finalized, At, Goto
    <2> QED
        BY <1>2, <1>3, <1>4, <2>1 DEF Inside, Ordinary, Relocated, CallOf
<1>9. CASE Pin(t)
    <2>1. th' = [th EXCEPT ![t].pc = "ref", ![t].work = << th[t].root >>] /\ th[t].pc = "opened"
        BY <1>9 DEF Pin, At
    <2> QED
        BY <1>2, <1>3, <1>4, <2>1 DEF Inside, Ordinary, Relocated, CallOf
<1>10. CASE Call(t) \/ Return(t)
    <2>1. \A u \in Threads : u # t => th'[u] = th[u]
        BY <1>2, <1>10 DEF Call, Return, Wait, Goto
    <2> QED
        BY <1>3, <1>4, <1>10, <2>1 DEF Inside
<1> QED
    BY <1>5, <1>6, <1>7, <1>8, <1>9, <1>10 DEF CallStep

\* The steps that unload.
LEMMA UnloadInside ==
    ASSUME IInv, NEW t \in Threads, Unref(t) \/ Closing(t) \/ Undag(t) \/ FreeWait(t)
    PROVE  Inside(t) /\ Ordinary(th[t], th'[t])
<1>1. PICK U : Frames(U)
    BY DEF IInv
<1>2. th[t] \in CallOf(U) /\ LocalsOK(th[t]) /\ th \in [Threads -> CallOf(U)]
    BY <1>1, Mine DEF Frames
<1>3. lock = t /\ th[t].pc \in {"unref", "undag", "gc"} /\ outer' = outer /\ lock' \in {t, None}
    BY DEF Unref, Closing, Undag, FreeWait, At, Wait, clients
<1>4. th[t].phase # "init"
    BY <1>2, <1>3 DEF LocalsOK
<1>5. CASE Unref(t)
    <2>1. PICK x : th' = [th EXCEPT ![t].work = x] /\ th[t].pc = "unref"
        BY <1>5 DEF Unref, At
    <2> QED
        BY <1>2, <1>3, <1>4, <2>1 DEF Inside, Ordinary, Relocated, CallOf
<1>6. CASE Closing(t) \/ FreeWait(t)
    <2>1. PICK x : th' = [th EXCEPT ![t].pc = x] /\ x \in {"sort", "undag", "gc"}
        BY <1>6 DEF Closing, FreeWait, Wait, Goto
    <2> QED
        BY <1>2, <1>3, <1>4, <2>1 DEF Inside, Ordinary, Relocated, CallOf
<1>7. CASE Undag(t)
    <2>1. th' = [th EXCEPT ![t].pc = "gc", ![t].root = None]
        BY <1>7 DEF Undag
    <2> QED
        BY <1>2, <1>3, <1>4, <2>1 DEF Inside, Ordinary, Relocated, CallOf
<1> QED
    BY <1>5, <1>6, <1>7

\* A call begins: EnterStep, as it is used here.
LEMMA EnterMoves ==
    ASSUME IInv, NEW t \in Threads, NEW g, InCode(t), Enter(t, g), NEW V, g \in CallOf(V),
           g.pc \in {"load", "unref"}
    PROVE  \E me \in Threads \X Nat : Moves(me, Idle, g) /\ Ordinary(Idle, g)
<1>1. PICK U : Frames(U)
    BY DEF IInv
<1>2. Stacks
    BY DEF IInv
<1>3. \E me \in Threads \X Nat : Moves(me, Idle, g)
    BY <1>1, <1>2, EnterStep
<1>4. Ordinary(Idle, g)
    BY DEF Ordinary, Relocated, Idle
<1> QED
    BY <1>3, <1>4

\* What becomes of the calls in a step.
LEMMA StepMoves ==
    ASSUME IInv, IInv', Next
    PROVE  \/ UNCHANGED vars
           \/ \E me \in Threads \X Nat : \E b, g : Moves(me, b, g) /\ Ordinary(b, g)
           \/ \E t \in Threads : /\ Dag(t) \/ Finds(t) \/ Call(t) \/ Return(t)
                                 /\ Advances(t)
<1> DEFINE Ord == \E me \in Threads \X Nat : \E b, g : Moves(me, b, g) /\ Ordinary(b, g)
           Odd == \E t \in Threads : /\ Dag(t) \/ Finds(t) \/ Call(t) \/ Return(t)
                                     /\ Advances(t)
<1>1. PICK U : Frames(U)
    BY DEF IInv
<1>2. Ordinary(Idle, Idle)
    BY DEF Ordinary, Relocated, Idle
<1>3. ASSUME NEW t \in Threads, th' = th, outer' = outer PROVE Ord
    BY <1>2, <1>3, NoMoves
<1>4. ASSUME NEW t \in Threads, Inside(t) PROVE Advances(t)
    BY <1>4, LocalMoves DEF Inside, Advances
<1>5. ASSUME NEW t \in Threads, Inside(t), Ordinary(th[t], th'[t]) PROVE Ord
    <2>1. PICK me \in Threads \X Nat : Moves(me, th[t], th'[t])
        BY <1>4, <1>5 DEF Advances
    <2> QED
        BY <1>5, <2>1
<1>6. ASSUME NEW t \in Threads, lock = t, Finish(t) PROVE Ord
    <2>1. Stacks
        BY DEF IInv
    <2>2. PICK me \in Threads \X Nat : Moves(me, th[t], Idle)
        BY <1>1, <1>6, <2>1, FinishStep
    <2>3. th[t].pc # "calling"
        BY <1>6, <2>1 DEF Stacks
    <2>4. Ordinary(th[t], Idle)
        BY <2>3 DEF Ordinary, Relocated, Idle
    <2> QED
        BY <2>2, <2>4
<1>7. ASSUME NEW t \in Threads, LoadStep(t) PROVE Ord \/ Odd
    <2>1. CASE LoadFail(t)
        BY <1>6, <2>1 DEF LoadFail, At
    <2>2. CASE ~LoadFail(t)
        <3>1. Inside(t) /\ (Ordinary(th[t], th'[t]) \/ Dag(t) \/ Finds(t))
            BY <1>7, <2>2, LoadInside
        <3> QED
            BY <1>4, <1>5, <3>1
    <2> QED
        BY <2>1, <2>2
<1>8. ASSUME NEW t \in Threads, CallStep(t) PROVE Ord \/ Odd
    <2>1. CASE Opened(t)
        BY <1>6, <2>1 DEF Opened, At
    <2>2. CASE ~Opened(t)
        <3>1. Inside(t) /\ (Ordinary(th[t], th'[t]) \/ Call(t) \/ Return(t))
            BY <1>8, <2>2, CallInside
        <3> QED
            BY <1>4, <1>5, <3>1
    <2> QED
        BY <2>1, <2>2
<1>9. ASSUME NEW t \in Threads, UnloadStep(t) PROVE Ord
    <2>1. CASE StillReferenced(t) \/ Unloaded(t)
        BY <1>6, <2>1 DEF StillReferenced, Unloaded, At
    <2>2. CASE Free(t)
        BY <1>3, <2>2 DEF Free, clients
    <2>3. CASE Unref(t) \/ Closing(t) \/ Undag(t) \/ FreeWait(t)
        BY <1>5, <2>3, UnloadInside
    <2> QED
        BY <1>9, <2>1, <2>2, <2>3 DEF UnloadStep
<1>10. ASSUME NEW t \in Threads, NEW l \in Libs, NEW nodelete \in Modes[l], Dlopen(t, l, nodelete) PROVE Ord
    <2>1. PICK g : g = [Idle EXCEPT !.pc = "load", !.root = l, !.nodelete = nodelete]
        OBVIOUS
    <2>2. InCode(t) /\ Enter(t, g)
        BY <1>10, <2>1 DEF Dlopen
    <2>3. g \in CallOf({<< >>}) /\ g.pc = "load"
        <3>1. Idle \in CallOf({<< >>}) /\ nodelete \in BOOLEAN
            BY IdleFacts, ObjectsAssumption
        <3> QED
            BY <2>1, <3>1 DEF CallOf, Labels
    <2> QED
        BY <2>2, <2>3, EnterMoves
<1>11. ASSUME NEW t \in Threads, NEW l \in Libs, InCode(t), Enter(t, Unloading(l)) PROVE Ord
    <2>1. Unloading(l) \in CallOf({<< >>}) /\ Unloading(l).pc = "unref"
        <3>1. Idle \in CallOf({<< >>})
            BY IdleFacts
        <3>2. << l >> \in Seq(Libs)
            OBVIOUS
        <3> QED
            BY <3>1, <3>2 DEF Unloading, CallOf, Labels
    <2> QED
        BY <1>11, <2>1, EnterMoves
<1>12. ASSUME NEW t \in Threads, NEW l \in Libs, Dlclose(t, l) \/ CxaRef(t, l) \/ CxaUnref(t, l) PROVE Ord
    <2>1. (th' = th /\ outer' = outer) \/ Enter(t, Unloading(l))
        BY <1>12 DEF Dlclose, CxaRef, CxaUnref
    <2>2. InCode(t)
        BY <1>12 DEF Dlclose, CxaRef, CxaUnref, InCode
    <2> QED
        BY <1>3, <1>11, <2>1, <2>2
<1>13. ASSUME NEW t \in Threads, Relock(t) PROVE Ord
    BY <1>3, <1>13 DEF Relock, clients
<1> QED
    BY <1>7, <1>8, <1>9, <1>10, <1>12, <1>13 DEF Next, Step, Terminated

-----------------------------------------------------------------------------
(* Functions *)

\* Nothing about functions changes in an ordinary step.
LEMMA RunOrdinary ==
    ASSUME RunOK, HeldOK, NEW me \in Threads \X Nat, NEW b, NEW g, Moves(me, b, g),
           b.pc # "calling", g.pc # "calling",
           \A l \in Libs : /\ obj'[l].initfini = obj[l].initfini
                           /\ Listed(l) => Listed(l)' \/ obj[l].initfini = None
    PROVE  RunOK' /\ HeldOK'
<1>1. \A c \in Threads \X Nat : \A l :
         /\ Running(Rec(c)', l) <=> Running(Rec(c), l)
         /\ Running(Rec(c), l) => Rec(c)' = Rec(c)
    BY DEF Moves, Running
<1>2. ASSUME NEW l \in Libs, NEW c \in Threads \X Nat, Running(Rec(c)', l)
      PROVE  /\ obj'[l].initfini = c[1]
             /\ Head(Rec(c)'.todo)[1] # "fini" => Listed(l)'
             /\ \A d \in Threads \X Nat : Running(Rec(d)', l) => d = c
    <2>1. /\ obj[l].initfini = c[1] /\ (Head(Rec(c).todo)[1] # "fini" => Listed(l))
          /\ \A d \in Threads \X Nat : Running(Rec(d), l) => d = c
        BY <1>1, <1>2 DEF RunOK
    <2>2. c[1] # None
        BY ConstantFacts
    <2> QED
        BY <1>1, <1>2, <2>1, <2>2
<1>3. RunOK'
    BY <1>2 DEF RunOK
<1>4. HeldOK'
    BY <1>1 DEF HeldOK
<1> QED
    BY <1>3, <1>4

\* _rtld_initfini_enter.
LEMMA RunCall ==
    ASSUME IInv, RunOK, HeldOK, NEW t \in Threads, Call(t), Advances(t)
    PROVE  RunOK' /\ HeldOK'
<1>1. PICK U : Frames(U)
    BY DEF IInv
<1>2. th[t] \in CallOf(U) /\ th \in [Threads -> CallOf(U)] /\ obj \in [Libs -> Entry]
    BY <1>1, Mine DEF Frames, IInv, Data
<1>3. PICK me \in Threads \X Nat : me = << t, Depth(t) >> /\ Moves(me, th[t], th'[t])
    BY DEF Advances
<1>4. PICK l : l = Head(th[t].todo)[2]
    OBVIOUS
<1>5. th[t].pc = "call" /\ th'[t].pc = "calling" /\ th'[t].todo = th[t].todo
    BY <1>2 DEF Call, At, Wait, Goto, CallOf
<1>6. /\ Rec(me) = th[t] /\ Rec(me)' = th'[t]
      /\ \A c \in Threads \X Nat : c # me => Rec(c)' = Rec(c)
    BY <1>3 DEF Moves
<1>7. \A z \in Libs : Listed(z)' <=> Listed(z)
    BY DEF Call, Listed
<1>8. \A z \in Libs : obj'[z].initfini = IF z = l THEN t ELSE obj[z].initfini
    <2>1. PICK k : k = Kind(t)
        OBVIOUS
    <2>2. obj' = [obj EXCEPT ![l].initfini = t, ![l].left[k] = @ - 1]
        BY <1>4, <2>1 DEF Call, Callee
    <2>3. CASE l \in Libs
        <3>1. obj'[l].initfini = t
            <4>1. PICK x : obj'[l] = [obj[l] EXCEPT !.initfini = t, !.left = x]
                BY <1>2, <2>2, <2>3 DEF Entry
            <4>2. obj[l] \in Entry
                BY <1>2, <2>3
            <4> QED
                BY <4>1, <4>2 DEF Entry
        <3>2. \A z \in Libs : z # l => obj'[z] = obj[z]
            BY <1>2, <2>2
        <3> QED
            BY <3>1, <3>2
    <2>4. CASE l \notin Libs
        BY <1>2, <2>2, <2>4
    <2> QED
        BY <2>3, <2>4
<1>9. l \in Libs => obj[l].initfini = None
    BY <1>4 DEF Call, Blocked, Callee
<1>10. l \in Libs /\ Head(th[t].todo)[1] # "fini" => Listed(l)
    <2> SUFFICES ASSUME l \in Libs, Head(th[t].todo)[1] # "fini" PROVE Listed(l)
        OBVIOUS
    <2>1. obj[l].ref # 0
        BY <1>4 DEF Call, Blocked, Callee, Kind
    <2> QED
        BY <2>1 DEF IInv, Unlisted
<1>11. \A c \in Threads \X Nat : l \in Libs => ~Running(Rec(c), l)
    <2>1. \A c \in Threads \X Nat : c[1] # None
        BY ConstantFacts
    <2> QED
        BY <1>9, <2>1 DEF RunOK
<1>12. \A z : Running(Rec(me)', z) <=> z = l
    BY <1>4, <1>5, <1>6 DEF Running
<1>13. RunOK'
    <2> SUFFICES ASSUME NEW z \in Libs, NEW c \in Threads \X Nat, Running(Rec(c)', z)
                 PROVE  /\ obj'[z].initfini = c[1]
                        /\ Head(Rec(c)'.todo)[1] # "fini" => Listed(z)'
                        /\ \A d \in Threads \X Nat : Running(Rec(d)', z) => d = c
        BY DEF RunOK
    <2>1. CASE z = l
        <3>1. c = me /\ \A d \in Threads \X Nat : Running(Rec(d)', z) => d = me
            BY <1>6, <1>11, <2>1
        <3> QED
            BY <1>3, <1>5, <1>6, <1>7, <1>8, <1>10, <2>1, <3>1
    <2>2. CASE z # l
        <3>1. c # me /\ \A d \in Threads \X Nat : Running(Rec(d)', z) => d # me
            BY <1>12, <2>2
        <3> QED
            BY <1>6, <1>7, <1>8, <2>2, <3>1 DEF RunOK
    <2> QED
        BY <2>1, <2>2
<1>14. HeldOK'
    <2> SUFFICES ASSUME NEW z \in Libs, obj'[z].initfini # None
                 PROVE  \E c \in Threads \X Nat : Running(Rec(c)', z)
        BY DEF HeldOK
    <2>1. CASE z = l
        BY <1>12, <2>1
    <2>2. CASE z # l
        <3>1. PICK c \in Threads \X Nat : Running(Rec(c), z)
            BY <1>8, <2>2 DEF HeldOK
        <3>2. c # me
            BY <1>5, <1>6, <3>1 DEF Running
        <3> QED
            BY <1>6, <3>1, <3>2
    <2> QED
        BY <2>1, <2>2
<1> QED
    BY <1>13, <1>14

\* _rtld_initfini_exit, or the next function of the array.
LEMMA RunReturn ==
    ASSUME IInv, RunOK, HeldOK, NEW t \in Threads, Return(t), Advances(t)
    PROVE  RunOK' /\ HeldOK'
<1>1. PICK U : Frames(U)
    BY DEF IInv
<1>2. th[t] \in CallOf(U) /\ th \in [Threads -> CallOf(U)] /\ obj \in [Libs -> Entry]
    BY <1>1, Mine DEF Frames, IInv, Data
<1>3. PICK me \in Threads \X Nat : me = << t, Depth(t) >> /\ Moves(me, th[t], th'[t])
    BY DEF Advances
<1>4. PICK l : l = Head(th[t].todo)[2]
    OBVIOUS
<1>5. th[t].pc = "calling"
    BY DEF Return
<1>6. /\ Rec(me) = th[t] /\ Rec(me)' = th'[t]
      /\ \A c \in Threads \X Nat : c # me => Rec(c)' = Rec(c)
    BY <1>3 DEF Moves
<1>7. \A z \in Libs : Listed(z)' <=> Listed(z)
    BY DEF Return, Listed
<1>8. Running(Rec(me), l)
    BY <1>4, <1>5, <1>6 DEF Running
<1>9. CASE ~Stale(t) /\ obj[l].left[Kind(t)] > 0
    <2>1. PICK k : k = Kind(t)
        OBVIOUS
    <2>2. obj' = [obj EXCEPT ![l].left[k] = @ - 1] /\ th' = th
        BY <1>4, <1>9, <2>1 DEF Return, Callee
    <2>3. \A z \in Libs : obj'[z].initfini = obj[z].initfini
        <3>1. CASE l \in Libs
            <4>1. PICK x : obj'[l] = [obj[l] EXCEPT !.left = x]
                BY <1>2, <2>2, <3>1
            <4>2. obj[l] \in Entry
                BY <1>2, <3>1
            <4>3. obj'[l].initfini = obj[l].initfini
                BY <4>1, <4>2 DEF Entry
            <4>4. \A z \in Libs : z # l => obj'[z] = obj[z]
                BY <1>2, <2>2
            <4> QED
                BY <4>3, <4>4
        <3>2. CASE l \notin Libs
            BY <1>2, <2>2, <3>2
        <3> QED
            BY <3>1, <3>2
    <2>4. \A c \in Threads \X Nat : Rec(c)' = Rec(c)
        BY <1>6, <2>2
    <2>5. RunOK'
        BY <1>7, <2>3, <2>4 DEF RunOK
    <2>6. HeldOK'
        BY <2>3, <2>4 DEF HeldOK
    <2> QED
        BY <2>5, <2>6
<1>10. CASE ~(~Stale(t) /\ obj[l].left[Kind(t)] > 0)
    <2>1. /\ obj' = [obj EXCEPT ![l].initfini = None]
          /\ \/ th' = [th EXCEPT ![t].pc = "sort", ![t].todo = << >>]
             \/ th' = [th EXCEPT ![t].pc = "call", ![t].todo = Tail(@)]
        BY <1>4, <1>10 DEF Return, Callee
    <2>2. th'[t].pc # "calling"
        BY <1>2, <2>1 DEF CallOf
    <2>3. \A z \in Libs : obj'[z].initfini = IF z = l THEN None ELSE obj[z].initfini
        BY <1>2, <2>1 DEF Entry
    <2>4. ASSUME NEW z \in Libs, NEW c \in Threads \X Nat, Running(Rec(c)', z)
          PROVE  c # me /\ Running(Rec(c), z) /\ Rec(c)' = Rec(c) /\ z # l
        <3>1. c # me
            BY <1>6, <2>2, <2>4 DEF Running
        <3>2. Running(Rec(c), z) /\ Rec(c)' = Rec(c)
            BY <1>6, <2>4, <3>1
        <3>3. z # l
            BY <1>8, <3>1, <3>2 DEF RunOK
        <3> QED
            BY <3>1, <3>2, <3>3
    <2>5. RunOK'
        <3> SUFFICES ASSUME NEW z \in Libs, NEW c \in Threads \X Nat, Running(Rec(c)', z)
                     PROVE  /\ obj'[z].initfini = c[1]
                            /\ Head(Rec(c)'.todo)[1] # "fini" => Listed(z)'
                            /\ \A d \in Threads \X Nat : Running(Rec(d)', z) => d = c
            BY DEF RunOK
        <3>1. /\ Running(Rec(c), z) /\ Rec(c)' = Rec(c) /\ z # l
              /\ \A d \in Threads \X Nat : Running(Rec(d)', z) => Running(Rec(d), z)
            BY <2>4
        <3> QED
            BY <1>7, <2>3, <3>1 DEF RunOK
    <2>6. HeldOK'
        <3> SUFFICES ASSUME NEW z \in Libs, obj'[z].initfini # None
                     PROVE  \E c \in Threads \X Nat : Running(Rec(c)', z)
            BY DEF HeldOK
        <3>1. z # l /\ obj[z].initfini # None
            BY <2>3
        <3>2. PICK c \in Threads \X Nat : Running(Rec(c), z)
            BY <3>1 DEF HeldOK
        <3>3. c # me
            BY <1>4, <1>6, <3>1, <3>2 DEF Running
        <3> QED
            BY <1>6, <3>2, <3>3
    <2> QED
        BY <2>5, <2>6
<1> QED
    BY <1>9, <1>10

\* _rtld_init_dag1 and _rtld_relocate_objects change relocation only.
LEMMA RelocOnly ==
    ASSUME IInv, NEW t \in Threads, Dag(t) \/ Relocate(t)
    PROVE  \A l \in Libs : /\ obj'[l].initfini = obj[l].initfini /\ obj'[l].left = obj[l].left
                           /\ obj'[l].ref = obj[l].ref /\ (Listed(l)' <=> Listed(l))
<1>1. PICK U : Frames(U)
    BY DEF IInv
<1>2. obj \in [Libs -> Entry]
    BY DEF IInv, Data
<1>3. \A l \in Libs : Listed(l)' <=> Listed(l)
    BY DEF Dag, Relocate, Listed
<1>4. CASE Relocate(t)
    <2>1. CASE obj' = obj
        BY <1>3, <2>1
    <2>2. CASE obj' # obj
        <3> DEFINE ready == {i \in DOMAIN objlist : obj[objlist[i]].reloc = "ready"}
                   bad == {i \in ready : objlist[i] \in BadReloc}
                   now == {objlist[i] : i \in {j \in ready : \A b \in bad : j <= b}}
        <3>1. PICK tried : tried = now
            OBVIOUS
        <3>2. obj' = [l \in Libs |-> IF l \notin tried THEN obj[l]
                      ELSE [obj[l] EXCEPT !.reloc = IF l \in BadReloc THEN "failed" ELSE "done"]]
            BY <1>4, <2>2, <3>1 DEF Relocate
        <3> HIDE DEF ready, bad, now
        <3> QED
            BY <1>2, <1>3, <3>2 DEF Entry
    <2> QED
        BY <2>1, <2>2
<1>5. CASE Dag(t)
    <2>1. PICK root, o, y : /\ root = th[t].root /\ o = Head(th[t].work)
                            /\ y = [obj EXCEPT ![o].reloc = IF @ = "notyet" THEN "ready" ELSE @]
        OBVIOUS
    <2>2. \/ obj' = y
          \/ obj' = [y EXCEPT ![o].dldags = @ \cup {root}, ![root].dagmembers = @ \cup {o}]
        BY <1>5, <2>1 DEF Dag
    <2>3. th[t].pc = "dag" /\ th[t] \in CallOf(U) /\ LocalsOK(th[t]) /\ th[t].work # << >>
        BY <1>1, <1>5, Mine DEF Dag, At
    <2>4. root \in Libs /\ o \in Libs
        BY <2>1, <2>3 DEF LocalsOK, CallOf
    <2>5. y \in [Libs -> Entry]
        <3>1. obj[o] \in Entry
            BY <1>2, <2>4
        <3>2. [obj[o] EXCEPT !.reloc = IF obj[o].reloc = "notyet" THEN "ready" ELSE obj[o].reloc] \in Entry
            BY <3>1 DEF Entry, RelocStates
        <3> QED
            BY <1>2, <2>1, <2>4, <3>2
    <2>6. \A l \in Libs : /\ y[l].initfini = obj[l].initfini /\ y[l].left = obj[l].left
                          /\ y[l].ref = obj[l].ref
        BY <1>2, <2>1, <2>4 DEF Entry
    <2>7. CASE obj' = [y EXCEPT ![o].dldags = @ \cup {root}, ![root].dagmembers = @ \cup {o}]
        <3>1. PICK v : v = [y EXCEPT ![o].dldags = @ \cup {root}]
            OBVIOUS
        <3>2. obj' = [v EXCEPT ![root].dagmembers = @ \cup {o}]
            BY <2>7, <3>1
        <3>3. v \in [Libs -> Entry]
            <4>1. y[o] \in Entry /\ y[o].dldags \cup {root} \in SUBSET Libs
                BY <2>4, <2>5 DEF Entry
            <4>2. [y[o] EXCEPT !.dldags = y[o].dldags \cup {root}] \in Entry
                BY <4>1 DEF Entry
            <4> QED
                BY <2>4, <2>5, <3>1, <4>2
        <3>4. \A l \in Libs : v[l].initfini = y[l].initfini /\ v[l].left = y[l].left /\ v[l].ref = y[l].ref
            BY <2>4, <2>5, <3>1 DEF Entry
        <3>5. \A l \in Libs : /\ obj'[l].initfini = v[l].initfini /\ obj'[l].left = v[l].left
                              /\ obj'[l].ref = v[l].ref
            BY <2>4, <3>2, <3>3 DEF Entry
        <3> QED
            BY <1>3, <2>6, <3>4, <3>5
    <2> QED
        BY <1>3, <2>2, <2>6, <2>7
<1> QED
    BY <1>4, <1>5

\* An object is freed only when nobody has its initfinilock.
LEMMA FreeFacts ==
    ASSUME IInv, NEW t \in Threads, Free(t)
    PROVE  \E f \in Libs :
              /\ obj[f].ref = 0 /\ obj[f].initfini = None /\ Listed(f)
              /\ obj'[f] = Fresh(f)
              /\ \A l \in Libs : l # f => obj'[l] = obj[l] /\ (Listed(l)' <=> Listed(l))
              /\ ~Listed(f)'
<1>1. Data /\ Distinct /\ Garbage # {}
    BY DEF IInv, Free
<1>2. objlist \in Seq(Libs) /\ obj \in [Libs -> Entry]
    BY <1>1 DEF Data
<1>3. PICK f : f = FirstGarbage
    OBVIOUS
<1>4. /\ FirstPlace \in DOMAIN objlist /\ f \in Libs /\ f = objlist[FirstPlace] /\ Listed(f)
      /\ obj[f].ref = 0
    BY <1>1, <1>2, <1>3, GarbageFacts
<1>5. obj[f].initfini = None
    <2>1. \E i \in Garbage : \A j \in Garbage : i <= j
        <3>1. Garbage \in SUBSET Nat
            BY <1>2 DEF Garbage
        <3> HIDE DEF Garbage
        <3> QED
            BY <1>1, <3>1, SmallestIn
    <2>2. FirstPlace \in Garbage
        BY <2>1 DEF FirstPlace
    <2> QED
        BY <1>4, <2>2 DEF Garbage
<1>6. obj' = [obj EXCEPT ![f] = Fresh(f)] /\ objlist' = RemoveAt(objlist, FirstPlace)
    BY <1>3 DEF Free
<1>7. \A m \in Libs : Listed(m)' <=> Listed(m) /\ m # f
    BY <1>1, <1>2, <1>4, <1>6, ListRemove
<1> QED
    BY <1>2, <1>4, <1>5, <1>6, <1>7

\* Functions, in every step.
LEMMA RunStep ==
    ASSUME IInv, IInv', RunOK, HeldOK, [Next]_vars PROVE RunOK' /\ HeldOK'
<1>1. CASE UNCHANGED vars
    <2>1. \A c : Rec(c)' = Rec(c)
        BY <1>1 DEF vars, clients, Rec, CallAt, Calls, Depth, Idle
    <2>2. obj' = obj /\ objlist' = objlist
        BY <1>1 DEF vars
    <2> QED
        BY <2>1, <2>2 DEF RunOK, HeldOK, Listed
<1>2. ASSUME NEW me \in Threads \X Nat, NEW b, NEW g, Moves(me, b, g), Ordinary(b, g), Next
      PROVE  \/ RunOK' /\ HeldOK'
             \/ \E t \in Threads : Call(t) \/ Return(t)
    <2>1. b.pc # "calling" /\ g.pc # "calling"
        BY <1>2 DEF Ordinary
    <2>2. CASE Kept
        BY <1>2, <2>1, <2>2, RunOrdinary DEF Kept
    <2>3. ASSUME NEW t \in Threads, Dag(t) \/ Relocate(t) PROVE RunOK' /\ HeldOK'
        <3>1. \A l \in Libs : obj'[l].initfini = obj[l].initfini /\ (Listed(l)' <=> Listed(l))
            BY <2>3, RelocOnly
        <3> QED
            BY <1>2, <2>1, <3>1, RunOrdinary
    <2>4. ASSUME NEW t \in Threads, Free(t) PROVE RunOK' /\ HeldOK'
        <3>1. PICK f \in Libs : /\ obj[f].initfini = None /\ obj'[f] = Fresh(f)
                                /\ \A l \in Libs : l # f => obj'[l] = obj[l] /\ (Listed(l)' <=> Listed(l))
            BY <2>4, FreeFacts
        <3>2. obj'[f].initfini = None
            BY <3>1 DEF Fresh
        <3> QED
            BY <1>2, <2>1, <3>1, <3>2, RunOrdinary
    <2> QED
        BY <1>2, <2>2, <2>3, <2>4, KeptNext DEF Special
<1>3. ASSUME NEW t \in Threads, Dag(t) \/ Finds(t), Advances(t), Next PROVE RunOK' /\ HeldOK'
    <2>1. PICK me \in Threads \X Nat : Moves(me, th[t], th'[t])
        BY <1>3 DEF Advances
    <2>2. lock = t /\ lock' = t
        BY <1>3 DEF Dag, Finds, Relocate, LoadOld, At
    <2>3. th[t].pc # "calling" /\ th'[t].pc # "calling"
        BY <2>2 DEF IInv, Stacks
    <2>4. \A l \in Libs : obj'[l].initfini = obj[l].initfini /\ (Listed(l) => Listed(l)')
        <3>1. CASE LoadOld(t)
            BY <3>1, KeptLoad DEF Kept
        <3>2. CASE Dag(t) \/ Relocate(t)
            BY <3>2, RelocOnly
        <3> QED
            BY <1>3, <3>1, <3>2 DEF Finds
    <2> QED
        BY <2>1, <2>3, <2>4, RunOrdinary
<1>4. ASSUME NEW t \in Threads, Call(t) \/ Return(t) PROVE Advances(t)
    <2>1. Inside(t)
        <3>1. CallStep(t) /\ ~Opened(t)
            BY <1>4 DEF CallStep, Call, Return, Opened, At
        <3> QED
            BY <3>1, CallInside
    <2> QED
        BY <2>1, LocalMoves DEF Inside, Advances
<1>5. ASSUME NEW t \in Threads, Call(t) \/ Return(t) PROVE RunOK' /\ HeldOK'
    BY <1>4, <1>5, RunCall, RunReturn
<1>6. CASE Next
    <2>1. \/ UNCHANGED vars
          \/ \E me \in Threads \X Nat : \E b, g : Moves(me, b, g) /\ Ordinary(b, g)
          \/ \E t \in Threads : (Dag(t) \/ Finds(t) \/ Call(t) \/ Return(t)) /\ Advances(t)
        BY <1>6, StepMoves
    <2> QED
        BY <1>1, <1>2, <1>3, <1>5, <1>6, <2>1
<1> QED
    BY <1>1, <1>6

\* At the start no function runs.
LEMMA RunInit == Init => RunOK /\ HeldOK
<1> SUFFICES ASSUME Init PROVE RunOK /\ HeldOK
    OBVIOUS
<1>1. IInv
    BY InitInv
<1>2. PICK U : Frames(U)
    BY <1>1 DEF IInv
<1>3. ASSUME NEW c \in Threads \X Nat PROVE Rec(c).pc = "idle"
    <2>1. PICK t \in Threads, n \in Nat : c = << t, n >>
        OBVIOUS
    <2>2. outer[t] = << >> /\ th[t] = Idle
        BY DEF Init
    <2>3. Rec(c) = Idle
        BY <1>2, <2>1, <2>2, RecFacts
    <2> QED
        BY <2>3 DEF Idle
<1>4. \A l \in Libs : obj[l].initfini = None
    BY DEF Init, Fresh
<1> QED
    BY <1>3, <1>4 DEF RunOK, HeldOK, Running

\* So initfinilock is right always.
LEMMA LocksKept == Spec => [](RunOK /\ HeldOK)
<1>1. IInv /\ IInv' /\ RunOK /\ HeldOK /\ [Next]_vars => RunOK' /\ HeldOK'
    BY RunStep
<1> QED
    BY <1>1, RunInit, Invariant, PTL DEF Spec

\* The functions of one object run one at a time, initfinilock tells which
\* thread runs one, and an object is not freed while a constructor of its runs.
THEOREM FunctionsExclusive == Spec => []OneAtATime
<1>1. RunOK /\ HeldOK /\ IInv => OneAtATime
    <2> SUFFICES ASSUME RunOK, HeldOK, IInv PROVE OneAtATime
        OBVIOUS
    <2>1. PICK U : Frames(U)
        BY DEF IInv
    <2>2. ASSUME NEW c \in Calls, NEW l \in Libs, RunsOne(c, l)
          PROVE  c \in Threads \X Nat /\ Rec(c) = CallAt(c[1], c[2]) /\ Running(Rec(c), l)
        BY <2>1, <2>2, CallsFacts DEF RunsOne, Running, Rec
    <2>3. ASSUME NEW c \in Threads \X Nat, NEW l \in Libs, Running(Rec(c), l)
          PROVE  c \in Calls /\ RunsOne(c, l)
        <3>1. c \in Calls
            BY <2>3 DEF Running, Rec, Idle
        <3> QED
            BY <2>3, <3>1 DEF Running, Rec, RunsOne
    <2>4. ASSUME NEW c \in Calls, NEW l \in Libs, RunsOne(c, l)
          PROVE  /\ obj[l].initfini = c[1]
                 /\ Head(CallAt(c[1], c[2]).todo)[1] # "fini" => Listed(l)
                 /\ \A d \in Calls : RunsOne(d, l) => d = c
        BY <2>2, <2>4 DEF RunOK
    <2>5. \A l \in Libs : obj[l].initfini # None => \E c \in Calls : RunsOne(c, l)
        BY <2>3 DEF HeldOK
    <2> QED
        BY <2>4, <2>5 DEF OneAtATime
<1> QED
    BY <1>1, LocksKept, Invariant, PTL

-----------------------------------------------------------------------------
(* Relocation *)

\* The object that a dlopen is for is referenced.
LEMMA OpensLive ==
    ASSUME IInv, NEW c \in Threads \X Nat, NEW l \in Libs, Opens(Rec(c), l) PROVE obj[l].ref > 0
<1>1. PICK U : Frames(U)
    BY DEF IInv
<1>2. Data /\ Counts /\ References
    BY DEF IInv
<1> DEFINE o == Opening(l)
<1>3. c \in o
    BY <1>1, CountedSets
<1>4. IsFiniteSet(o)
    BY <1>1, CountedFinite
<1>5. obj[l].dlref = handles[l] + Cardinality(o)
    BY <1>2 DEF Counts
<1> HIDE DEF o
<1>6. Cardinality(o) \in Nat /\ Cardinality(o) # 0
    BY <1>3, <1>4, FS_CardinalityType, FS_EmptySet
<1>7. handles[l] \in Nat /\ obj[l].ref \in Nat
    BY <1>2 DEF Data, Entry
<1>8. obj[l].ref >= Base(l) /\ Base(l) \in Nat /\ Base(l) >= obj[l].dlref
    BY <1>1, <1>2, BaseFacts DEF References
<1> QED
    BY <1>5, <1>6, <1>7, <1>8

\* So is that of a call of which RelocOK says something.
LEMMA RelocRoots ==
    ASSUME IInv, NEW c \in Threads \X Nat, Relocated(Rec(c)) \/ Rec(c).pc = "dag"
    PROVE  Rec(c).root \in Libs /\ obj[Rec(c).root].ref > 0
<1>1. PICK U : Frames(U)
    BY DEF IInv
<1>2. LocalsOK(Rec(c))
    BY <1>1, ByRec DEF IInv
<1>3. Rec(c).root \in Libs /\ Opens(Rec(c), Rec(c).root)
    BY <1>2 DEF LocalsOK, Relocated, Opens
<1> QED
    BY <1>3, OpensLive

\* One visit of _rtld_init_dag1.
LEMMA DagReloc ==
    ASSUME IInv, NEW t \in Threads, Dag(t)
    PROVE  /\ Head(th[t].work) \in Libs
           /\ \A l \in Libs : obj'[l].reloc =
                 IF l = Head(th[t].work) /\ obj[l].reloc = "notyet" THEN "ready" ELSE obj[l].reloc
<1>1. PICK U : Frames(U)
    BY DEF IInv
<1>2. obj \in [Libs -> Entry]
    BY DEF IInv, Data
<1>3. PICK root, o, y : /\ root = th[t].root /\ o = Head(th[t].work)
                        /\ y = [obj EXCEPT ![o].reloc = IF @ = "notyet" THEN "ready" ELSE @]
    OBVIOUS
<1>4. \/ obj' = y
      \/ obj' = [y EXCEPT ![o].dldags = @ \cup {root}, ![root].dagmembers = @ \cup {o}]
    BY <1>3 DEF Dag
<1>5. th[t].pc = "dag" /\ th[t] \in CallOf(U) /\ LocalsOK(th[t]) /\ th[t].work # << >>
    BY <1>1, Mine DEF Dag, At
<1>6. root \in Libs /\ o \in Libs
    BY <1>3, <1>5 DEF LocalsOK, CallOf
<1>7. obj[o] \in Entry
    BY <1>2, <1>6
<1>8. y \in [Libs -> Entry]
    <2>1. [obj[o] EXCEPT !.reloc = IF obj[o].reloc = "notyet" THEN "ready" ELSE obj[o].reloc] \in Entry
        BY <1>7 DEF Entry, RelocStates
    <2> QED
        BY <1>2, <1>3, <1>6, <2>1
<1>9. \A l \in Libs : y[l].reloc = IF l = o /\ obj[l].reloc = "notyet" THEN "ready" ELSE obj[l].reloc
    <2>1. \A l \in Libs : l # o => y[l] = obj[l]
        BY <1>2, <1>3
    <2>2. y[o].reloc = IF obj[o].reloc = "notyet" THEN "ready" ELSE obj[o].reloc
        BY <1>2, <1>3, <1>6, <1>7 DEF Entry
    <2> QED
        BY <2>1, <2>2
<1>10. CASE obj' = [y EXCEPT ![o].dldags = @ \cup {root}, ![root].dagmembers = @ \cup {o}]
    <2>1. PICK v : v = [y EXCEPT ![o].dldags = @ \cup {root}]
        OBVIOUS
    <2>2. obj' = [v EXCEPT ![root].dagmembers = @ \cup {o}]
        BY <1>10, <2>1
    <2>3. v \in [Libs -> Entry]
        <3>1. y[o] \in Entry /\ y[o].dldags \cup {root} \in SUBSET Libs
            BY <1>6, <1>8 DEF Entry
        <3>2. [y[o] EXCEPT !.dldags = y[o].dldags \cup {root}] \in Entry
            BY <3>1 DEF Entry
        <3> QED
            BY <1>6, <1>8, <2>1, <3>2
    <2>4. \A l \in Libs : v[l].reloc = y[l].reloc
        BY <1>6, <1>8, <2>1 DEF Entry
    <2>5. \A l \in Libs : obj'[l].reloc = v[l].reloc
        BY <1>6, <2>2, <2>3 DEF Entry
    <2> QED
        BY <1>3, <1>6, <1>9, <2>4, <2>5
<1>11. CASE obj' = y
    <2>1. \A l \in Libs : obj'[l].reloc = y[l].reloc
        BY <1>11
    <2> QED
        BY <1>3, <1>6, <1>9, <2>1
<1> QED
    BY <1>4, <1>10, <1>11

\* _rtld_relocate_objects, when every library can be relocated.
LEMMA AllRelocate ==
    ASSUME BadReloc = {}, IInv, NEW t \in Threads, Relocate(t)
    PROVE  /\ \A l \in Libs : obj'[l].reloc = obj[l].reloc \/ (obj[l].reloc = "ready" /\ obj'[l].reloc = "done")
           /\ th'[t].root = th[t].root /\ th'[t].pc # "dag"
           /\ Relocated(th'[t]) => \A l \in Libs : Listed(l) /\ obj[l].reloc = "ready" => obj'[l].reloc = "done"
<1>1. PICK U : Frames(U)
    BY DEF IInv
<1>2. obj \in [Libs -> Entry] /\ objlist \in Seq(Libs)
    BY DEF IInv, Data
<1>3. th[t] \in CallOf(U) /\ th \in [Threads -> CallOf(U)] /\ th[t].pc = "dag"
    BY <1>1, Mine DEF Frames, Relocate, At
<1>4. CASE obj[th[t].root].dagmembers \cap BadVersion # {}
    <2>1. obj' = obj /\ th' = [th EXCEPT ![t].pc = "fail"]
        BY <1>4 DEF Relocate, Goto
    <2>2. th'[t].pc = "fail" /\ th'[t].root = th[t].root
        BY <1>3, <2>1 DEF CallOf
    <2> QED
        BY <2>1, <2>2 DEF Relocated
<1>5. CASE obj[th[t].root].dagmembers \cap BadVersion = {}
    <2> DEFINE ready == {i \in DOMAIN objlist : obj[objlist[i]].reloc = "ready"}
               bad == {i \in ready : objlist[i] \in BadReloc}
               now == {objlist[i] : i \in {j \in ready : \A b \in bad : j <= b}}
    <2>1. bad = {}
        OBVIOUS
    <2>2. PICK tried : tried = now
        OBVIOUS
    <2>3. obj' = [l \in Libs |-> IF l \notin tried THEN obj[l]
                  ELSE [obj[l] EXCEPT !.reloc = IF l \in BadReloc THEN "failed" ELSE "done"]]
        BY <1>5, <2>2 DEF Relocate
    <2>4. PICK x : th' = [th EXCEPT ![t].pc = x, ![t].phase = "init"] /\ x \in {"fail", "sort"}
        BY <1>5 DEF Relocate
    <2>5. \A l \in Libs : l \in tried <=> Listed(l) /\ obj[l].reloc = "ready"
        BY <2>1, <2>2 DEF Listed
    <2> HIDE DEF ready, bad, now
    <2>6. \A l \in Libs : obj'[l].reloc = IF l \in tried THEN "done" ELSE obj[l].reloc
        BY <1>2, <2>3 DEF Entry
    <2>7. th'[t].root = th[t].root /\ th'[t].pc # "dag"
        BY <1>3, <2>4 DEF CallOf
    <2> QED
        BY <2>5, <2>6, <2>7
<1> QED
    BY <1>4, <1>5

\* Functions and relocation have nothing to do with each other.
LEMMA FnsReloc ==
    ASSUME IInv, NEW t \in Threads, Call(t) \/ Return(t)
    PROVE  /\ \A l \in Libs : obj'[l].reloc = obj[l].reloc /\ obj'[l].ref = obj[l].ref
           /\ th'[t].root = th[t].root /\ th'[t].pc # "dag"
           /\ Relocated(th'[t]) => Relocated(th[t])
<1>1. PICK U : Frames(U)
    BY DEF IInv
<1>2. th[t] \in CallOf(U) /\ th \in [Threads -> CallOf(U)] /\ obj \in [Libs -> Entry]
    BY <1>1, Mine DEF Frames, IInv, Data
<1>3. PICK l, k : l = Callee(t) /\ k = Kind(t)
    OBVIOUS
<1>4. PICK x : \/ obj' = [obj EXCEPT ![l].initfini = x]
               \/ obj' = [obj EXCEPT ![l].left[k] = @ - 1]
               \/ obj' = [obj EXCEPT ![l].initfini = x, ![l].left[k] = @ - 1]
    BY <1>3 DEF Call, Return
<1>5. /\ th'[t].root = th[t].root /\ th'[t].pc # "dag"
      /\ Relocated(th'[t]) => Relocated(th[t])
    <2>1. \/ th' = [th EXCEPT ![t].pc = "calling"]
          \/ th' = th
          \/ th' = [th EXCEPT ![t].pc = "sort", ![t].todo = << >>]
          \/ th' = [th EXCEPT ![t].pc = "call", ![t].todo = Tail(@)]
        BY DEF Call, Return, Wait, Goto
    <2>2. th[t].pc \in {"call", "calling"}
        BY DEF Call, Return, At
    <2> QED
        BY <1>2, <2>1, <2>2 DEF Relocated, CallOf
<1>6. CASE l \in Libs
    <2>1. \A z \in Libs : z # l => obj'[z] = obj[z]
        BY <1>2, <1>4
    <2>2. PICK v, y : obj'[l] = [obj[l] EXCEPT !.initfini = v, !.left = y]
        <3>1. obj[l] \in Entry
            BY <1>2, <1>6
        <3>2. CASE obj' = [obj EXCEPT ![l].initfini = x]
            <4>1. obj'[l] = [obj[l] EXCEPT !.initfini = x, !.left = obj[l].left]
                BY <1>2, <1>6, <3>1, <3>2 DEF Entry
            <4> QED
                BY <4>1
        <3>3. CASE obj' = [obj EXCEPT ![l].left[k] = @ - 1]
            <4>1. PICK y : obj'[l] = [obj[l] EXCEPT !.left = y]
                BY <1>2, <1>6, <3>3
            <4>2. obj'[l] = [obj[l] EXCEPT !.initfini = obj[l].initfini, !.left = y]
                BY <3>1, <4>1 DEF Entry
            <4> QED
                BY <4>2
        <3>4. CASE obj' = [obj EXCEPT ![l].initfini = x, ![l].left[k] = @ - 1]
            <4>1. PICK y : obj'[l] = [obj[l] EXCEPT !.initfini = x, !.left = y]
                BY <1>2, <1>6, <3>4 DEF Entry
            <4> QED
                BY <4>1
        <3> QED
            BY <1>4, <3>2, <3>3, <3>4
    <2>3. obj[l] \in Entry
        BY <1>2, <1>6
    <2>4. obj'[l].reloc = obj[l].reloc /\ obj'[l].ref = obj[l].ref
        BY <2>2, <2>3 DEF Entry
    <2> QED
        BY <1>5, <2>1, <2>4
<1>7. CASE l \notin Libs
    <2>1. obj' = obj
        BY <1>2, <1>4, <1>7
    <2> QED
        BY <1>5, <2>1
<1> QED
    BY <1>6, <1>7

\* A referenced object that is relocated stays so.
LEMMA RelocGoes ==
    ASSUME BadReloc = {}, IInv, [Next]_vars, \A l \in Libs : obj[l].reloc # "failed"
    PROVE  \A l \in Libs : /\ obj'[l].reloc # "failed"
                           /\ obj[l].ref > 0 => /\ obj[l].reloc = "done" => obj'[l].reloc = "done"
                                                /\ obj[l].reloc # "notyet" => obj'[l].reloc # "notyet"
<1>1. CASE Kept
    BY <1>1 DEF Kept
<1>2. ASSUME NEW t \in Threads, Dag(t)
      PROVE  \A l \in Libs : obj'[l].reloc = obj[l].reloc \/ (obj[l].reloc = "notyet" /\ obj'[l].reloc = "ready")
    BY <1>2, DagReloc
<1>3. ASSUME NEW t \in Threads, Relocate(t)
      PROVE  \A l \in Libs : obj'[l].reloc = obj[l].reloc \/ (obj[l].reloc = "ready" /\ obj'[l].reloc = "done")
    BY <1>3, AllRelocate
<1>4. ASSUME NEW t \in Threads, Call(t) \/ Return(t) PROVE \A l \in Libs : obj'[l].reloc = obj[l].reloc
    BY <1>4, FnsReloc
<1>5. ASSUME NEW t \in Threads, Free(t)
      PROVE  \A l \in Libs : obj'[l].reloc = obj[l].reloc \/ (obj[l].ref = 0 /\ obj'[l].reloc = "notyet")
    <2>1. PICK f \in Libs : /\ obj[f].ref = 0 /\ obj'[f] = Fresh(f)
                            /\ \A l \in Libs : l # f => obj'[l] = obj[l]
        BY <1>5, FreeFacts
    <2>2. obj'[f].reloc = "notyet"
        BY <2>1 DEF Fresh
    <2> QED
        BY <2>1, <2>2
<1> QED
    BY <1>1, <1>2, <1>3, <1>4, <1>5, KeptNext DEF Special

\* Handles come from Opened.
LEMMA HandlesGo ==
    ASSUME IInv, [Next]_vars, NEW l \in Libs, handles'[l] > 0
    PROVE  handles[l] > 0 \/ \E t \in Threads : Opened(t) /\ th[t].root = l
<1>1. handles \in [Libs -> Nat]
    BY DEF IInv, Data
<1>2. CASE handles' = handles
    BY <1>2
<1>3. ASSUME NEW t \in Threads, Opened(t) PROVE handles[l] > 0 \/ (Opened(t) /\ th[t].root = l)
    BY <1>1, <1>3 DEF Opened
<1>4. ASSUME NEW t \in Threads, NEW m \in Libs, Dlclose(t, m) PROVE handles[l] > 0
    <2>1. handles' = [handles EXCEPT ![m] = @ - 1]
        BY <1>4 DEF Dlclose
    <2> QED
        BY <1>1, <2>1
<1>5. ASSUME NEW t \in Threads, LoadStep(t) PROVE handles' = handles
    BY <1>5 DEF LoadStep, LoadFail, LoadWait, LoadNew, LoadOld, Scan, Need, ByNameWait, ByNameOld, ByNameNew,
                ByNameFail, Dag, RefDag, RefDone, Relocate, OpenFails, clients
<1>6. ASSUME NEW t \in Threads, CallStep(t) PROVE handles' = handles \/ Opened(t)
    BY <1>6 DEF CallStep, Sort, Skip, CallWait, Call, Return, Initialized, Pin, Finalized, clients
<1>7. ASSUME NEW t \in Threads, UnloadStep(t) PROVE handles' = handles
    BY <1>7 DEF UnloadStep, Unref, StillReferenced, Closing, Undag, Free, FreeWait, Unloaded, clients
<1>8. ASSUME NEW t \in Threads, NEW m \in Libs, CxaRef(t, m) \/ CxaUnref(t, m) PROVE handles' = handles
    BY <1>8 DEF CxaRef, CxaUnref
<1>9. ASSUME NEW t \in Threads, NEW m \in Libs, NEW nodelete \in Modes[m], Dlopen(t, m, nodelete)
      PROVE  handles' = handles
    BY <1>9 DEF Dlopen
<1>10. ASSUME NEW t \in Threads, Relock(t) PROVE handles' = handles
    BY <1>10 DEF Relock, clients
<1>11. CASE UNCHANGED vars
    BY <1>11 DEF vars, clients
<1> QED
    BY <1>2, <1>3, <1>4, <1>5, <1>6, <1>7, <1>8, <1>9, <1>10, <1>11 DEF Next, Step, Terminated

\* The innermost call of a thread, as one of the calls.
LEMMA Innermost ==
    ASSUME IInv, NEW t \in Threads
    PROVE  \E c \in Threads \X Nat : c = << t, Depth(t) >> /\ Rec(c) = th[t]
<1>1. PICK U : Frames(U)
    BY DEF IInv
<1>2. << t, Depth(t) >> \in Threads \X Nat /\ << t, Depth(t) >> \in Calls
    BY <1>1, CallsFacts
<1> QED
    BY <1>2 DEF Rec, CallAt

\* A dlopen finds its object relocated, or relocates it.
LEMMA FindsReloc ==
    ASSUME BadReloc = {}, IInv, RelocInv, NEW t \in Threads, Finds(t), [Next]_vars
    PROVE  th'[t].pc # "dag" /\ (Relocated(th'[t]) => obj'[th'[t].root].reloc = "done")
<1>1. PICK U : Frames(U)
    BY DEF IInv
<1>2. th[t] \in CallOf(U) /\ th \in [Threads -> CallOf(U)] /\ LocalsOK(th[t]) /\ obj \in [Libs -> Entry]
    BY <1>1, Mine DEF Frames, IInv, Data
<1>3. PICK c \in Threads \X Nat : Rec(c) = th[t]
    BY Innermost
<1>4. CASE LoadOld(t) /\ pending = 0
    <2>1. th' = [th EXCEPT ![t].pc = "opened"] /\ Listed(th[t].root) /\ th[t].pc = "load"
        BY <1>4 DEF LoadOld, At
    <2>2. th'[t].pc = "opened" /\ th'[t].root = th[t].root
        BY <1>2, <2>1 DEF CallOf
    <2>3. th[t].root \in Libs
        BY <1>2, <2>1 DEF LocalsOK
    <2>4. Unrelocated = {}
        <3>1. Unrelocated \in SUBSET Libs
            BY DEF Unrelocated
        <3>2. pending >= Cardinality(Unrelocated)
            BY DEF IInv, Pending
        <3> HIDE DEF Unrelocated
        <3>3. IsFiniteSet(Unrelocated) /\ Cardinality(Unrelocated) \in Nat
            BY <3>1, LibSets
        <3>4. Cardinality(Unrelocated) = 0
            BY <1>4, <3>2, <3>3
        <3> QED
            BY <3>3, <3>4, FS_EmptySet
    <2>5. obj[th[t].root].reloc = "done"
        <3>1. obj[th[t].root].reloc \in RelocStates /\ obj[th[t].root].reloc # "failed"
            BY <1>2, <2>3 DEF Entry, RelocInv
        <3>2. obj[th[t].root].reloc \notin {"notyet", "ready"}
            BY <2>1, <2>3, <2>4 DEF Unrelocated
        <3> QED
            BY <3>1, <3>2 DEF RelocStates
    <2>6. obj'[th[t].root].reloc = obj[th[t].root].reloc
        BY <1>4, <2>3, KeptLoad DEF Kept
    <2> QED
        BY <2>2, <2>5, <2>6
<1>5. CASE Relocate(t)
    <2>1. /\ th'[t].root = th[t].root /\ th'[t].pc # "dag"
          /\ Relocated(th'[t]) => \A l \in Libs : Listed(l) /\ obj[l].reloc = "ready" => obj'[l].reloc = "done"
        BY <1>5, AllRelocate
    <2>2. th[t].pc = "dag" /\ th[t].work = << >>
        BY <1>5 DEF Relocate, At
    <2>3. th[t].root \in Libs /\ obj[th[t].root].ref > 0
        BY <1>3, <2>2, RelocRoots
    <2>4. obj[th[t].root].reloc # "notyet"
        <3>1. RelocOK(th[t])
            BY <1>3 DEF RelocInv
        <3>2. << >> # << th[t].root >>
            OBVIOUS
        <3> QED
            BY <2>2, <3>1, <3>2 DEF RelocOK
    <2>5. Listed(th[t].root)
        BY <2>3 DEF IInv, Unlisted
    <2>6. obj[th[t].root].reloc \in {"ready", "done"}
        BY <1>2, <2>3, <2>4 DEF Entry, RelocStates, RelocInv
    <2>7. obj[th[t].root].reloc = "done" => obj'[th[t].root].reloc = "done"
        BY <2>3, RelocGoes DEF RelocInv
    <2> QED
        BY <2>1, <2>3, <2>5, <2>6, <2>7
<1> QED
    BY <1>4, <1>5 DEF Finds

\* Relocation, in every step.
LEMMA RelocStep ==
    ASSUME BadReloc = {}, IInv, IInv', RelocInv, [Next]_vars PROVE RelocInv'
<1>1. \A l \in Libs : /\ obj'[l].reloc # "failed"
                      /\ obj[l].ref > 0 => /\ obj[l].reloc = "done" => obj'[l].reloc = "done"
                                           /\ obj[l].reloc # "notyet" => obj'[l].reloc # "notyet"
    BY RelocGoes DEF RelocInv
<1>2. ASSUME NEW l \in Libs, handles'[l] > 0 PROVE obj'[l].reloc = "done"
    <2>1. CASE handles[l] > 0
        <3>1. PICK U : Frames(U)
            BY DEF IInv
        <3>2. obj[l].ref > 0
            <4>1. obj[l].ref \in Nat /\ obj[l].dlref = handles[l] + Cardinality(Opening(l)) /\ handles[l] \in Nat
                BY DEF IInv, Data, Entry, Counts
            <4>2. Cardinality(Opening(l)) \in Nat
                BY <3>1, CountedFinite, FS_CardinalityType
            <4>3. obj[l].ref >= Base(l) /\ Base(l) \in Nat /\ Base(l) >= obj[l].dlref
                BY <3>1, BaseFacts DEF IInv, References
            <4> QED
                BY <2>1, <4>1, <4>2, <4>3
        <3> QED
            BY <1>1, <2>1, <3>2 DEF RelocInv
    <2>2. ASSUME NEW t \in Threads, Opened(t), th[t].root = l PROVE obj'[l].reloc = "done"
        <3>1. PICK U : Frames(U)
            BY DEF IInv
        <3>2. PICK c \in Threads \X Nat : Rec(c) = th[t]
            BY Innermost
        <3>3. th[t].pc = "opened" /\ LocalsOK(th[t]) /\ obj' = obj
            BY <2>2, <3>1, Mine DEF Opened, At
        <3>4. Relocated(th[t])
            BY <3>3 DEF Relocated, LocalsOK
        <3> QED
            BY <2>2, <3>2, <3>3, <3>4 DEF RelocInv, RelocOK
    <2> QED
        BY <1>2, <2>1, <2>2, HandlesGo
<1>3. ASSUME NEW c \in Threads \X Nat, Rec(c)' = Rec(c) PROVE RelocOK(Rec(c))'
    <2>1. RelocOK(Rec(c))
        BY DEF RelocInv
    <2>2. Relocated(Rec(c)) \/ Rec(c).pc = "dag" => Rec(c).root \in Libs /\ obj[Rec(c).root].ref > 0
        BY RelocRoots
    <2>3. PICK f : f = Rec(c)
        OBVIOUS
    <2>4. f = Rec(c)'
        BY <1>3, <2>3
    <2>5. /\ Relocated(f) => obj'[f.root].reloc = "done"
          /\ f.pc = "dag" /\ f.work # << f.root >> => obj'[f.root].reloc # "notyet"
        BY <1>1, <2>1, <2>2, <2>3 DEF RelocOK
    <2> QED
        BY <2>4, <2>5 DEF RelocOK, Relocated
<1>4. ASSUME NEW me \in Threads \X Nat, NEW b, NEW g, Moves(me, b, g),
             /\ Relocated(g) => obj'[g.root].reloc = "done"
             /\ g.pc = "dag" /\ g.work # << g.root >> => obj'[g.root].reloc # "notyet"
      PROVE  RelocInv'
    <2>1. RelocOK(Rec(me))'
        BY <1>4 DEF Moves, RelocOK, Relocated
    <2>2. \A c \in Threads \X Nat : c # me => Rec(c)' = Rec(c)
        BY <1>4 DEF Moves
    <2>3. \A c \in Threads \X Nat : RelocOK(Rec(c))'
        BY <1>3, <2>1, <2>2
    <2> QED
        BY <1>1, <1>2, <2>3 DEF RelocInv
<1>5. ASSUME NEW me \in Threads \X Nat, NEW b, NEW g, Moves(me, b, g),
             Relocated(g) => Relocated(b) /\ g.root = b.root
      PROVE  Relocated(g) => obj'[g.root].reloc = "done"
    <2> SUFFICES ASSUME Relocated(g) PROVE obj'[g.root].reloc = "done"
        OBVIOUS
    <2>1. Rec(me) = b /\ Relocated(b) /\ g.root = b.root
        BY <1>5 DEF Moves
    <2>2. b.root \in Libs /\ obj[b.root].ref > 0
        BY <2>1, RelocRoots
    <2>3. obj[b.root].reloc = "done"
        BY <2>1 DEF RelocInv, RelocOK
    <2> QED
        BY <1>1, <2>1, <2>2, <2>3
<1>6. ASSUME NEW me \in Threads \X Nat, NEW b, NEW g, Moves(me, b, g), Ordinary(b, g) PROVE RelocInv'
    BY <1>4, <1>5, <1>6 DEF Ordinary
<1>7. ASSUME NEW t \in Threads, Advances(t), Finds(t) PROVE RelocInv'
    BY <1>4, <1>7, FindsReloc DEF Advances
<1>8. ASSUME NEW t \in Threads, Advances(t), Call(t) \/ Return(t) PROVE RelocInv'
    BY <1>4, <1>5, <1>8, FnsReloc DEF Advances
<1>9. ASSUME NEW t \in Threads, Advances(t), Dag(t) PROVE RelocInv'
    <2>1. PICK U : Frames(U)
        BY DEF IInv
    <2>2. th[t] \in CallOf(U) /\ th \in [Threads -> CallOf(U)] /\ th[t].pc = "dag" /\ th[t].work # << >>
        BY <1>9, <2>1, Mine DEF Frames, Dag, At
    <2>3. PICK x : th' = [th EXCEPT ![t].work = x]
        BY <1>9 DEF Dag
    <2>4. th'[t].pc = "dag" /\ th'[t].root = th[t].root
        BY <2>2, <2>3 DEF CallOf
    <2>5. PICK c \in Threads \X Nat : Rec(c) = th[t]
        BY Innermost
    <2>6. th[t].root \in Libs /\ obj[th[t].root].ref > 0
        BY <2>2, <2>5, RelocRoots
    <2>7. obj'[th[t].root].reloc # "notyet"
        <3>1. CASE th[t].work = << th[t].root >>
            <4>1. Head(th[t].work) = th[t].root
                BY <3>1
            <4> QED
                BY <1>9, <2>6, <4>1, DagReloc
        <3>2. CASE th[t].work # << th[t].root >>
            <4>1. obj[th[t].root].reloc # "notyet"
                BY <2>2, <2>5, <3>2 DEF RelocInv, RelocOK
            <4> QED
                BY <1>1, <2>6, <4>1
        <3> QED
            BY <3>1, <3>2
    <2>8. ~Relocated(th'[t])
        BY <2>4 DEF Relocated
    <2> QED
        BY <1>4, <1>9, <2>4, <2>7, <2>8 DEF Advances
<1>10. CASE UNCHANGED vars
    <2>1. \A c \in Threads \X Nat : Rec(c)' = Rec(c)
        BY <1>10 DEF vars, clients, Rec, CallAt, Calls, Depth, Idle
    <2> QED
        BY <1>1, <1>2, <1>3, <2>1 DEF RelocInv
<1>11. CASE Next
    <2>1. \/ UNCHANGED vars
          \/ \E me \in Threads \X Nat : \E b, g : Moves(me, b, g) /\ Ordinary(b, g)
          \/ \E t \in Threads : (Dag(t) \/ Finds(t) \/ Call(t) \/ Return(t)) /\ Advances(t)
        BY <1>11, StepMoves
    <2> QED
        BY <1>6, <1>7, <1>8, <1>9, <1>10, <2>1
<1> QED
    BY <1>10, <1>11

\* No object is there at first, and no call.
LEMMA RelocInit == Init => RelocInv
<1> SUFFICES ASSUME Init PROVE RelocInv
    OBVIOUS
<1>1. IInv
    BY InitInv
<1>2. PICK U : Frames(U)
    BY <1>1 DEF IInv
<1>3. ASSUME NEW c \in Threads \X Nat PROVE Rec(c).pc = "idle"
    <2>1. PICK t \in Threads, n \in Nat : c = << t, n >>
        OBVIOUS
    <2>2. outer[t] = << >> /\ th[t] = Idle
        BY DEF Init
    <2>3. Rec(c) = Idle
        BY <1>2, <2>1, <2>2, RecFacts
    <2> QED
        BY <2>3 DEF Idle
<1>4. \A l \in Libs : obj[l].reloc = "notyet" /\ handles[l] = 0
    BY DEF Init, Fresh
<1> QED
    BY <1>3, <1>4 DEF RelocInv, RelocOK, Relocated

\* Where relocation does not fail: a handle that dlopen has returned is the
\* handle of a relocated object, listed and referenced until it is closed.
THEOREM HandlesUsable == ASSUME BadReloc = {} PROVE Spec => []HandleUsable
<1>1. LocalsListed /\ RelocInv => HandleUsable
    BY DEF LocalsListed, RelocInv, HandleUsable
<1>2. IInv /\ IInv' /\ RelocInv /\ [Next]_vars => RelocInv'
    BY RelocStep
<1>3. Spec => []RelocInv
    BY <1>2, RelocInit, Invariant, PTL DEF Spec
<1> QED
    BY <1>1, <1>3, NoDanglingLocals, PTL
-----------------------------------------------------------------------------
(* Destructors *)

\* An object that is freed has its destructors before it again, and one whose
\* destructor runs is there and nobody's.
DeadInv ==
    /\ FiniDead
    /\ \A l \in Libs : ~Listed(l) => obj[l].left["fini"] = FnCount[l]["fini"]
    /\ \A l \in Libs, c \in Threads \X Nat :
           Running(Rec(c), l) /\ Head(Rec(c).todo)[1] = "fini" => Listed(l) /\ obj[l].ref = 0

\* Dead objects, in a step that calls no function and ends none.
LEMMA DeadOrdinary ==
    ASSUME IInv, IInv', RunOK, DeadInv, NEW me \in Threads \X Nat, NEW b, NEW g, Moves(me, b, g),
           b.pc # "calling", g.pc # "calling",
           \A l \in Libs :
              \/ /\ obj'[l].left = obj[l].left /\ (Listed(l) => Listed(l)')
                 /\ obj'[l].ref > 0 => obj[l].ref > 0 \/ ~Listed(l)
              \/ obj'[l] = Fresh(l) /\ obj[l].initfini = None
    PROVE  DeadInv'
<1>1. \A c \in Threads \X Nat : \A l :
         /\ Running(Rec(c)', l) <=> Running(Rec(c), l)
         /\ Running(Rec(c), l) => Rec(c)' = Rec(c)
    BY DEF Moves, Running
<1>2. \A l \in Libs : /\ obj'[l].ref \in Nat /\ FnCount[l]["fini"] \in Nat
                      /\ obj[l].left["fini"] \in Nat /\ obj[l].ref \in Nat
    <2>1. obj \in [Libs -> Entry] /\ obj' \in [Libs -> Entry]
        BY DEF IInv, Data
    <2>2. FnCount \in [Libs -> [Kinds -> Nat]]
        BY ObjectsAssumption
    <2>3. \A l \in Libs : FnCount[l]["fini"] \in Nat
        BY <2>2 DEF Kinds
    <2>4. \A l \in Libs : obj[l].left \in [Kinds -> Nat] /\ obj[l].ref \in Nat
        BY <2>1 DEF Entry
    <2>5. \A l \in Libs : obj[l].left["fini"] \in Nat
        BY <2>4 DEF Kinds
    <2>6. \A l \in Libs : obj'[l].ref \in Nat
        BY <2>1 DEF Entry
    <2> QED
        BY <2>3, <2>4, <2>5, <2>6
<1>3. ASSUME NEW l \in Libs, obj'[l] = Fresh(l), obj[l].initfini = None
      PROVE  /\ obj'[l].left["fini"] = FnCount[l]["fini"] /\ obj'[l].ref = 0
             /\ \A c \in Threads \X Nat : ~Running(Rec(c), l)
    <2>1. \A c \in Threads \X Nat : c[1] # None
        BY ConstantFacts
    <2> QED
        BY <1>3, <2>1 DEF Fresh, RunOK
<1>4. ASSUME NEW l \in Libs, Begun(l, "fini")' PROVE obj'[l].ref = 0
    BY <1>2, <1>3, <1>4 DEF DeadInv, FiniDead, Begun
<1>5. ASSUME NEW l \in Libs, ~Listed(l)' PROVE obj'[l].left["fini"] = FnCount[l]["fini"]
    BY <1>3, <1>5 DEF DeadInv
<1>6. ASSUME NEW l \in Libs, NEW c \in Threads \X Nat,
             Running(Rec(c)', l), Head(Rec(c)'.todo)[1] = "fini"
      PROVE  Listed(l)' /\ obj'[l].ref = 0
    <2>1. Running(Rec(c), l) /\ Head(Rec(c).todo)[1] = "fini"
        BY <1>1, <1>6
    <2>2. Listed(l) /\ obj[l].ref = 0
        BY <2>1 DEF DeadInv
    <2> QED
        BY <1>2, <1>3, <2>1, <2>2
<1> QED
    BY <1>4, <1>5, <1>6 DEF DeadInv, FiniDead

\* A call or a return changes no reference, and counts the functions of one kind.
LEMMA FnEffect ==
    ASSUME IInv, NEW t \in Threads, Call(t) \/ Return(t)
    PROVE  \A z \in Libs :
              /\ obj'[z].ref = obj[z].ref /\ (Listed(z)' <=> Listed(z))
              /\ \/ obj'[z].left["fini"] = obj[z].left["fini"]
                 \/ z = Callee(t) /\ Kind(t) = "fini"
<1>1. obj \in [Libs -> Entry]
    BY DEF IInv, Data
<1>2. PICK l, k : l = Callee(t) /\ k = Kind(t)
    OBVIOUS
<1>3. \/ obj' = [obj EXCEPT ![l].initfini = t, ![l].left[k] = @ - 1]
      \/ obj' = [obj EXCEPT ![l].left[k] = @ - 1]
      \/ obj' = [obj EXCEPT ![l].initfini = None]
    BY <1>2 DEF Call, Return
<1>4. \A z \in Libs : Listed(z)' <=> Listed(z)
    BY DEF Call, Return, Listed
<1>5. \A z \in Libs : z # l => obj'[z] = obj[z]
    BY <1>1, <1>3
<1>6. CASE l \in Libs
    <2>1. obj[l] \in Entry /\ obj[l].left \in [Kinds -> Nat]
        BY <1>1, <1>6 DEF Entry
    <2>2. PICK x : x = [obj[l].left EXCEPT ![k] = @ - 1]
        OBVIOUS
    <2>3. \/ obj'[l] = [obj[l] EXCEPT !.initfini = t, !.left = x]
          \/ obj'[l] = [obj[l] EXCEPT !.left = x]
          \/ obj'[l] = [obj[l] EXCEPT !.initfini = None]
        BY <1>1, <1>3, <1>6, <2>1, <2>2 DEF Entry
    <2>4. k # "fini" => x["fini"] = obj[l].left["fini"]
        BY <2>1, <2>2 DEF Kinds
    <2>5. obj'[l].ref = obj[l].ref /\ (obj'[l].left = x \/ obj'[l].left = obj[l].left)
        BY <2>1, <2>3 DEF Entry
    <2> QED
        BY <1>2, <1>4, <1>5, <2>4, <2>5
<1> QED
    BY <1>4, <1>5, <1>6

\* A destructor is called for an object that is dead and, by NoUseAfterFree, there.
LEMMA DeadCall ==
    ASSUME IInv, DeadInv, NoUseAfterFree', NEW t \in Threads, Call(t), Advances(t), Kind(t) = "fini",
           Callee(t) \in Libs
    PROVE  Listed(Callee(t)) /\ obj[Callee(t)].ref = 0
<1>1. PICK U : Frames(U)
    BY DEF IInv
<1>2. th[t] \in CallOf(U) /\ th \in [Threads -> CallOf(U)]
    BY <1>1, Mine DEF Frames
<1>3. PICK me \in Threads \X Nat : me = << t, Depth(t) >> /\ Moves(me, th[t], th'[t])
    BY DEF Advances
<1>4. PICK l : l = Callee(t)
    OBVIOUS
<1>5. th'[t].pc = "calling" /\ th'[t].todo = th[t].todo /\ lock' = None
    BY <1>2 DEF Call, At, Wait, Goto, CallOf
<1>6. Rec(me)' = th'[t]
    BY <1>3 DEF Moves
<1>7. me \in Calls' /\ CallAt(me[1], me[2])' = th'[t]
    BY <1>5, <1>6 DEF Rec, Idle
<1>8. l \in Uses(me)'
    <2>1. CallAt(me[1], me[2])'.pc = "calling" /\ Head(CallAt(me[1], me[2])'.todo)[2] = l
        BY <1>4, <1>5, <1>7 DEF Callee
    <2> QED
        BY <2>1 DEF Uses
<1>9. Listed(l)'
    BY <1>5, <1>7, <1>8 DEF NoUseAfterFree
<1>10. Listed(l)
    BY <1>9 DEF Call, Listed
<1>11. ~(obj[l].ref > 0) /\ obj[l].ref \in Nat
    BY <1>4 DEF Call, Skips, IInv, Data, Entry
<1> QED
    BY <1>4, <1>10, <1>11

\* _rtld_call_fini_function: the references of the object are gone for good.
LEMMA DeadFn ==
    ASSUME IInv, IInv', DeadInv, NoUseAfterFree', NEW t \in Threads, Call(t) \/ Return(t), Advances(t)
    PROVE  DeadInv'
<1>1. PICK U : Frames(U)
    BY DEF IInv
<1>2. th[t] \in CallOf(U) /\ th \in [Threads -> CallOf(U)]
    BY <1>1, Mine DEF Frames
<1>3. PICK me \in Threads \X Nat : me = << t, Depth(t) >> /\ Moves(me, th[t], th'[t])
    BY DEF Advances
<1>4. /\ Rec(me) = th[t] /\ Rec(me)' = th'[t]
      /\ \A c \in Threads \X Nat : c # me => Rec(c)' = Rec(c)
    BY <1>3 DEF Moves
<1>5. Callee(t) \in Libs /\ Kind(t) = "fini" => Listed(Callee(t)) /\ obj[Callee(t)].ref = 0
    <2>1. CASE Call(t)
        BY <2>1, DeadCall
    <2>2. CASE Return(t)
        <3>1. Running(Rec(me), Callee(t)) /\ Head(Rec(me).todo)[1] = Kind(t)
            BY <1>4, <2>2 DEF Return, Running, Callee, Kind
        <3> QED
            BY <3>1 DEF DeadInv
    <2> QED
        BY <2>1, <2>2
<1>6. th'[t].pc = "calling" => th'[t].todo = th[t].todo
    BY <1>2 DEF Call, Return, Wait, Goto, CallOf
<1>7. \A z \in Libs : /\ obj'[z].ref = obj[z].ref /\ (Listed(z)' <=> Listed(z))
                      /\ \/ obj'[z].left["fini"] = obj[z].left["fini"]
                         \/ z = Callee(t) /\ Kind(t) = "fini"
    BY FnEffect
<1>8. ASSUME NEW l \in Libs, Begun(l, "fini")' PROVE obj'[l].ref = 0
    BY <1>5, <1>7, <1>8 DEF DeadInv, FiniDead, Begun
<1>9. ASSUME NEW l \in Libs, ~Listed(l)' PROVE obj'[l].left["fini"] = FnCount[l]["fini"]
    BY <1>5, <1>7, <1>9 DEF DeadInv
<1>10. ASSUME NEW l \in Libs, NEW c \in Threads \X Nat,
              Running(Rec(c)', l), Head(Rec(c)'.todo)[1] = "fini"
       PROVE  Listed(l)' /\ obj'[l].ref = 0
    <2>1. CASE c = me
        <3>1. l = Callee(t) /\ Kind(t) = "fini"
            BY <1>4, <1>6, <1>10, <2>1 DEF Running, Callee, Kind
        <3> QED
            BY <1>5, <1>7, <3>1
    <2>2. CASE c # me
        BY <1>4, <1>7, <1>10, <2>2 DEF DeadInv
    <2> QED
        BY <2>1, <2>2
<1> QED
    BY <1>8, <1>9, <1>10 DEF DeadInv, FiniDead

\* Dead objects, in every step.
LEMMA DeadStep ==
    ASSUME IInv, IInv', RunOK, DeadInv, NoUseAfterFree', [Next]_vars PROVE DeadInv'
<1>1. CASE UNCHANGED vars
    <2>1. \A c : Rec(c)' = Rec(c)
        BY <1>1 DEF vars, clients, Rec, CallAt, Calls, Depth, Idle
    <2>2. obj' = obj /\ objlist' = objlist
        BY <1>1 DEF vars
    <2> QED
        BY <2>1, <2>2 DEF DeadInv, FiniDead, Begun, Listed
<1>2. ASSUME NEW me \in Threads \X Nat, NEW b, NEW g, Moves(me, b, g), Next,
             b.pc # "calling", g.pc # "calling"
      PROVE  DeadInv' \/ \E t \in Threads : Call(t) \/ Return(t)
    <2>1. CASE Kept
        BY <1>2, <2>1, DeadOrdinary DEF Kept
    <2>2. ASSUME NEW t \in Threads, Dag(t) \/ Relocate(t) PROVE DeadInv'
        <3>1. \A l \in Libs : /\ obj'[l].left = obj[l].left /\ (Listed(l)' <=> Listed(l))
                              /\ obj'[l].ref = obj[l].ref
            BY <2>2, RelocOnly
        <3> QED
            BY <1>2, <3>1, DeadOrdinary
    <2>3. ASSUME NEW t \in Threads, Free(t) PROVE DeadInv'
        <3>1. PICK f \in Libs : /\ obj[f].initfini = None /\ obj'[f] = Fresh(f)
                                /\ \A l \in Libs : l # f => obj'[l] = obj[l] /\ (Listed(l)' <=> Listed(l))
            BY <2>3, FreeFacts
        <3> QED
            BY <1>2, <3>1, DeadOrdinary
    <2> QED
        BY <1>2, <2>1, <2>2, <2>3, KeptNext DEF Special
<1>3. ASSUME NEW t \in Threads, Call(t) \/ Return(t) PROVE DeadInv'
    <2>1. CallStep(t) /\ ~Opened(t)
        BY <1>3 DEF CallStep, Call, Return, Opened, At
    <2>2. Advances(t)
        BY <2>1, CallInside, LocalMoves DEF Inside, Advances
    <2> QED
        BY <1>3, <2>2, DeadFn
<1>4. ASSUME NEW t \in Threads, Dag(t) \/ Finds(t), Advances(t), Next PROVE DeadInv'
    <2>1. PICK me \in Threads \X Nat : Moves(me, th[t], th'[t])
        BY <1>4 DEF Advances
    <2>2. lock = t /\ lock' = t
        BY <1>4 DEF Dag, Finds, Relocate, LoadOld, At
    <2>3. th[t].pc # "calling" /\ th'[t].pc # "calling"
        BY <2>2 DEF IInv, Stacks
    <2> QED
        BY <1>2, <1>3, <1>4, <2>1, <2>3
<1>5. CASE Next
    <2>1. \/ UNCHANGED vars
          \/ \E me \in Threads \X Nat : \E b, g : Moves(me, b, g) /\ Ordinary(b, g)
          \/ \E t \in Threads : (Dag(t) \/ Finds(t) \/ Call(t) \/ Return(t)) /\ Advances(t)
        BY <1>5, StepMoves
    <2>2. ASSUME NEW me \in Threads \X Nat, NEW b, NEW g, Moves(me, b, g), Ordinary(b, g)
          PROVE  DeadInv'
        BY <1>2, <1>3, <1>5, <2>2 DEF Ordinary
    <2> QED
        BY <1>1, <1>3, <1>4, <1>5, <2>1, <2>2
<1> QED
    BY <1>1, <1>5

\* At the start no destructor has been called.
LEMMA DeadInit == Init => DeadInv
<1> SUFFICES ASSUME Init PROVE DeadInv
    OBVIOUS
<1>1. RunOK
    BY RunInit
<1>2. \A l \in Libs : obj[l].left["fini"] = FnCount[l]["fini"] /\ obj[l].initfini = None /\ obj[l].ref = 0
    BY DEF Init, Fresh
<1>3. \A l \in Libs, c \in Threads \X Nat : ~Running(Rec(c), l)
    <2>1. \A c \in Threads \X Nat : c[1] # None
        BY ConstantFacts
    <2> QED
        BY <1>1, <1>2, <2>1 DEF RunOK
<1> QED
    BY <1>2, <1>3 DEF DeadInv, FiniDead

\* As long as no init or fini list is followed to a freed object: an object
\* whose destructors have begun is not referenced again before it is freed.
THEOREM DestroyedStaysDead == Spec /\ []NoUseAfterFree => []FiniDead
<1>1. IInv /\ IInv' /\ RunOK /\ DeadInv /\ NoUseAfterFree' /\ [Next]_vars => DeadInv'
    BY DeadStep
<1>2. DeadInv => FiniDead
    BY DEF DeadInv
<1> QED
    BY <1>1, <1>2, DeadInit, LocksKept, Invariant, PTL DEF Spec
==============================================================================
