-------------------------- MODULE RtldObjectsProofs --------------------------
(***************************************************************************)
(* Proofs about RtldObjects for any threads, libraries, dependencies,      *)
(* failures and bounds: what the reference counts are worth.               *)
(* RtldObjectsInv has the inductive invariant, RtldObjectsQuiet the steps  *)
(* that change no reference; here are the others, and the theorems.        *)
(***************************************************************************)
EXTENDS RtldObjectsQuiet

-----------------------------------------------------------------------------
(* What a step may do to the references *)

\* Live objects lose no entry, and a DAG grows within reach.
Grows ==
    /\ \A x \in Libs : obj[x].ref > 0 /\ obj'[x].ref > 0 => obj[x].need \subseteq obj'[x].need
    /\ \A l \in Libs : obj'[l].ref > 0 =>
          IF obj[l].ref > 0 THEN \A m \in obj'[l].dagmembers : m \in obj[l].dagmembers \/ Reach(l, m)
          ELSE obj'[l].dagmembers = {}

\* refcount changes by at least as much as the references it stands for.
Balanced ==
    \A l \in Libs :
       /\ Base(l)' + obj[l].ref <= Base(l) + obj'[l].ref
       /\ obj'[l].nodel /\ ~Pinning(l)' =>
             (obj[l].nodel /\ ~Pinning(l)) \/ obj'[l].ref >= Base(l)' + 1

\* A step of one call keeps the invariant when it keeps accounts.
LEMMA Changed ==
    ASSUME IInv, Data', NEW U, Frames(U), NEW W, Frames(W)', Stacks',
           NEW me \in Threads \X Nat, NEW b, NEW g, Moves(me, b, g),
           LocalsOK(g), StaleKept(me, g), Counted(b, g), RootsKept(g),
           Distinct', Unlisted', Grows, Balanced, Working', Pending', Dtors'
    PROVE  IInv'
<1>1. Data /\ Locals /\ StaleOK /\ Counts /\ RootsDead /\ Unlisted /\ References /\ Members
    BY DEF IInv
<1>2. Locals' /\ StaleOK' /\ Counts' /\ RootsDead'
    BY <1>1, CallsPart
<1>3. Members'
    BY <1>1, MembersKept DEF Grows
<1>4. References'
    BY <1>1, ReferencesKept DEF Balanced
<1> QED
    BY <1>2, <1>3, <1>4 DEF IInv

\* What Balanced asks of a step that leaves the DT_NEEDED entries of live objects alone.
LEMMA BalancedBy ==
    ASSUME NEW U, Frames(U), NEW W, Frames(W)', Data, Data',
           \A l \in Libs : Needers(l)' = Needers(l),
           \A l \in Libs :
              /\ obj'[l].dlref + One(obj'[l].cxa > 0) + Due(l)' + obj[l].ref
                    <= obj[l].dlref + One(obj[l].cxa > 0) + Due(l) + obj'[l].ref
              /\ obj'[l].nodel /\ ~Pinning(l)' =>
                    (obj[l].nodel /\ ~Pinning(l)) \/ obj'[l].ref >= Base(l)' + 1
    PROVE  Balanced
<1> SUFFICES ASSUME NEW l \in Libs PROVE Base(l)' + obj[l].ref <= Base(l) + obj'[l].ref
    BY DEF Balanced
<1> DEFINE n == Cardinality(Needers(l))  x == One(obj[l].cxa > 0)  y == One(obj'[l].cxa > 0)
           d == Due(l)  e == Due(l)'
<1>1. n \in Nat /\ x \in Nat /\ y \in Nat /\ d \in Nat /\ e \in Nat
    BY BaseFacts, DueFacts, DueFactsPrime DEF One
<1>2. /\ obj[l].ref \in Nat /\ obj'[l].ref \in Nat
      /\ obj[l].dlref \in Nat /\ obj'[l].dlref \in Nat
    BY DEF Data, Entry
<1>3. Base(l) = obj[l].dlref + x + n + d
    BY DEF Base, One
<1>4. Base(l)' = obj'[l].dlref + y + n + e
    BY DEF Base, One
<1>5. obj'[l].dlref + y + e + obj[l].ref <= obj[l].dlref + x + d + obj'[l].ref
    OBVIOUS
<1> HIDE DEF n, x, y, d, e
<1> QED
    BY <1>1, <1>2, <1>3, <1>4, <1>5

\* The set of those that need a library stays.
LEMMA NeedersSame ==
    ASSUME \A m \in Libs : obj'[m].need = obj[m].need,
           \A m \in Libs : (obj'[m].ref > 0 <=> obj[m].ref > 0) \/ obj[m].need = {}
    PROVE  \A l \in Libs : Needers(l)' = Needers(l)
BY DEF Needers

\* What the thread with the lock has still to drop or to add, before and after its step.
LEMMA LocalDue ==
    ASSUME IInv, NEW U, Frames(U), NEW t \in Threads, NEW V, NEW g \in CallOf(V),
           th' = [th EXCEPT ![t] = g], lock = t, lock' = t, clients' = clients
    PROVE  /\ \E W : Frames(W)'
           /\ th'[t] = g
           /\ \A l \in Libs : /\ Due(l) = DueIn(th[t], l) /\ Due(l)' = DueIn(g, l)
                              /\ Pinning(l) <=> PinIn(th[t], l)
                              /\ Pinning(l)' <=> PinIn(g, l)
                              /\ DueIn(th[t], l) \in Nat /\ DueIn(g, l) \in Nat
<1>1. outer' = outer
    BY DEF clients
<1>2. th'[t] = g
    BY DEF Frames
<1>3. Frames(U \cup V)'
    <2>1. th' \in [Threads -> CallOf(U \cup V)]
        BY Wider DEF Frames
    <2>2. outer \in [Threads -> Seq(CallOf(U \cup V))]
        BY Wider DEF Frames
    <2> QED
        BY <1>1, <2>1, <2>2 DEF Frames
<1> QED
    BY <1>2, <1>3, DueFacts, DueFactsPrime

\* A step of the thread with the lock, in its innermost call.
LEMMA LocalChange ==
    ASSUME IInv, NEW U, Frames(U), NEW t \in Threads, NEW V, NEW g \in CallOf(V),
           th' = [th EXCEPT ![t] = g], lock = t, lock' = t, clients' = clients, Data',
           th[t].pc # "idle", g.pc \notin {"idle", "calling"},
           \A c \in stale' : c \in Threads \X Nat /\ c # << t, Depth(t) >> /\ Rec(c).pc \in {"calling", "sort"},
           LocalsOK(g), Counted(th[t], g), RootsKept(g), Distinct', Unlisted', Grows, Working', Pending', Dtors',
           Balanced
    PROVE  IInv'
<1>1. outer' = outer
    BY DEF clients
<1>2. Stacks
    BY DEF IInv
<1>3. PICK W : Frames(W)'
    BY <1>1, <1>2, ConstantFacts, LocalStep
<1>4. PICK me \in Threads \X Nat : me = << t, Depth(t) >> /\ Moves(me, th[t], g)
    BY <1>1, <1>2, ConstantFacts, LocalStep
<1>5. Stacks'
    BY <1>1, <1>2, ConstantFacts, LocalStep
<1>6. StaleKept(me, g)
    BY <1>4 DEF StaleKept
<1> QED
    BY <1>3, <1>4, <1>5, <1>6, Changed

\* -1 in the arithmetic of size_t.
LEMMA MinusOne == ASSUME NEW n \in Nat, n >= 2 PROVE (-1 + -(-1 + 1)) % (n + 1) = n
<1>1. -1 + -(-1 + 1) = -1
    OBVIOUS
<1>2. (-1) % (n + 1) = n
    OBVIOUS
<1> QED
    BY <1>1, <1>2

-----------------------------------------------------------------------------
(* dlopen counts *)

\* One more object waits for relocation.
LEMMA PendingMore ==
    ASSUME Data, Pending, NEW l \in Libs, pending' = pending + 1,
           \A m \in Libs : Listed(m)' <=> Listed(m) \/ m = l,
           \A m \in Libs : m # l => obj'[m].reloc = obj[m].reloc
    PROVE  Pending'
<1> DEFINE A == Unrelocated  B == Unrelocated'
<1>1. B \subseteq A \cup {l} /\ A \in SUBSET Libs
    BY DEF Unrelocated
<1>2. A \cup {l} \in SUBSET Libs /\ B \in SUBSET (A \cup {l})
    BY <1>1
<1>3. pending \in Nat /\ pending >= Cardinality(A)
    BY DEF Data, Pending
<1> HIDE DEF A, B
<1>4. Cardinality(B) <= Cardinality(A \cup {l}) /\ Cardinality(B) \in Nat
    BY <1>2, LibSets
<1>5. Cardinality(A \cup {l}) \in Nat /\ Cardinality(A \cup {l}) <= Cardinality(A) + 1 /\ Cardinality(A) \in Nat
    BY <1>1, LibSets
<1>6. pending + 1 >= Cardinality(B)
    BY <1>3, <1>4, <1>5
<1> QED
    BY <1>6 DEF Pending, B

\* dlopen of an object that is in use.
LEMMA LoadOldStep == ASSUME IInv, NEW t \in Threads, LoadOld(t) PROVE IInv'
<1>1. PICK U : Frames(U)
    BY DEF IInv
<1>2. PICK l : l = th[t].root
    OBVIOUS
<1>3. th[t].pc = "load" /\ lock = t /\ lock' = t /\ Listed(l) /\ obj[l].ref > 0
    BY <1>2 DEF LoadOld, At
<1>4. th[t] \in CallOf(U) /\ LocalsOK(th[t]) /\ << t, Depth(t) >> \notin stale
    BY <1>1, <1>3, Mine
<1>5. l \in Libs /\ th[t].phase = "init" /\ th[t].pos = None
    BY <1>2, <1>3, <1>4 DEF LocalsOK, CallOf
<1>6. objlist' = objlist /\ pending' = pending /\ clients' = clients /\ stale' = stale
    BY DEF LoadOld
<1>7. handles' = handles /\ dtors' = dtors /\ ops' = ops
    BY <1>6 DEF clients
<1>8. PICK g : g = IF pending = 0 THEN [th[t] EXCEPT !.pc = "opened"]
                   ELSE [th[t] EXCEPT !.pc = "scan", !.pos = l]
    OBVIOUS
<1>9. th' = [th EXCEPT ![t] = g]
    BY <1>1, <1>2, <1>8 DEF LoadOld, Frames
<1>10. g \in CallOf(U)
    BY <1>4, <1>5, <1>8 DEF CallOf, Labels
<1>11. /\ g.root = l /\ g.phase = "init"
       /\ (g.pc = "opened" /\ g.pos = None) \/ (g.pc = "scan" /\ g.pos = l)
    <2>1. CASE pending = 0
        BY <1>2, <1>4, <1>5, <1>8, <2>1 DEF CallOf
    <2>2. CASE pending # 0
        BY <1>2, <1>4, <1>5, <1>8, <2>2 DEF CallOf
    <2> QED
        BY <2>1, <2>2
<1>12. Data /\ Pending /\ Distinct /\ Unlisted /\ Dtors
    BY DEF IInv
<1>13. PICK e : e = [obj[l] EXCEPT !.ref = obj[l].ref + 1, !.dlref = obj[l].dlref + 1]
    OBVIOUS
<1>14. obj' = [obj EXCEPT ![l] = e]
    BY <1>2, <1>5, <1>12, <1>13 DEF LoadOld, Data
<1>15. obj[l] \in Entry /\ obj[l].ref \in Nat /\ obj[l].dlref \in Nat
    BY <1>5, <1>12 DEF Data, Entry
<1>16. /\ e \in Entry /\ e.ref = obj[l].ref + 1 /\ e.dlref = obj[l].dlref + 1
       /\ e.nref = obj[l].nref /\ e.closing = obj[l].closing /\ e.cxa = obj[l].cxa
       /\ e.nodel = obj[l].nodel /\ e.dagmembers = obj[l].dagmembers /\ e.need = obj[l].need
       /\ e.reloc = obj[l].reloc
    <2>1. obj[l].ref + 1 \in Nat /\ obj[l].dlref + 1 \in Nat
        BY <1>15
    <2>2. e \in Entry
        BY <1>13, <1>15, <2>1 DEF Entry
    <2> QED
        BY <1>13, <1>15, <2>2 DEF Entry
<1>17. obj' \in [Libs -> Entry] /\ obj'[l] = e /\ \A z \in Libs : z # l => obj'[z] = obj[z]
    BY <1>5, <1>12, <1>14, <1>16, OneObject
<1>18. Data'
    BY <1>3, <1>6, <1>7, <1>12, <1>17 DEF Data
<1>19. \A z \in Libs : /\ Opens(g, z) <=> z = l
                       /\ ~Opens(th[t], z)
                       /\ ~Loads(g, z) /\ ~Loads(th[t], z)
                       /\ ~Marks(g, z) /\ ~Marks(th[t], z)
    BY <1>3, <1>5, <1>11, ConstantFacts DEF Opens, Loads, Marks
<1>20. LocalsOK(g)
    BY <1>5, <1>11 DEF LocalsOK
<1>21. Counted(th[t], g)
    <2>1. ASSUME NEW z \in Libs
          PROVE  obj'[z].dlref + handles[z] + One(Opens(th[t], z)) = obj[z].dlref + handles'[z] + One(Opens(g, z))
        <3>1. One(Opens(th[t], z)) = 0 /\ One(Opens(g, z)) = IF z = l THEN 1 ELSE 0
            BY <1>19 DEF One
        <3>2. obj[z].dlref \in Nat /\ handles[z] \in Nat
            BY <1>12 DEF Data, Entry
        <3>3. obj'[z].dlref = IF z = l THEN obj[z].dlref + 1 ELSE obj[z].dlref
            BY <1>16, <1>17
        <3> QED
            BY <1>7, <3>1, <3>2, <3>3
    <2>2. \A z \in Libs : /\ obj'[z].nref = obj[z].nref /\ obj'[z].closing = obj[z].closing
                          /\ Loads(g, z) <=> Loads(th[t], z)
                          /\ Marks(g, z) <=> Marks(th[t], z)
        BY <1>16, <1>17, <1>19
    <2> QED
        BY <2>1, <2>2, CountedOpens
<1>22. RootsKept(g)
    BY <1>15, <1>3, <1>17, <1>19 DEF RootsKept
<1>23. Distinct' /\ Unlisted' /\ Dtors'
    BY <1>3, <1>6, <1>7, <1>12, <1>16, <1>17 DEF Distinct, Unlisted, Dtors, Listed
<1>24. Grows
    BY <1>3, <1>15, <1>16, <1>17 DEF Grows
<1>25. Pending'
    <2>1. Unrelocated' = Unrelocated
        BY <1>6, <1>16, <1>17 DEF Unrelocated, Listed
    <2> QED
        BY <1>6, <1>12, <2>1 DEF Pending
<1>26. PICK W : Frames(W)'
    BY <1>1, <1>3, <1>6, <1>9, <1>10, LocalDue
<1>27. /\ th'[t] = g
       /\ \A z \in Libs : Due(z) = 0 /\ Due(z)' = 0 /\ ~Pinning(z)
    BY <1>1, <1>3, <1>6, <1>9, <1>10, <1>11, LocalDue, ZenonT(60) DEF DueIn, PinIn
<1>28. Working'
    <2>1. Listed(l)'
        BY <1>3, <1>6 DEF Listed
    <2> QED
        BY <1>3, <1>11, <1>27, <2>1, WorkingBy
<1>29. Balanced
    <2>1. \A z \in Libs : Needers(z)' = Needers(z)
        <3>1. \A z \in Libs : obj'[z].need = obj[z].need /\ (obj'[z].ref > 0 <=> obj[z].ref > 0)
            BY <1>3, <1>15, <1>16, <1>17
        <3> QED
            BY <3>1, NeedersSame
    <2>2. ASSUME NEW z \in Libs
          PROVE  obj'[z].dlref + One(obj'[z].cxa > 0) + Due(z)' + obj[z].ref
                    <= obj[z].dlref + One(obj[z].cxa > 0) + Due(z) + obj'[z].ref
        <3>1. obj[z].dlref \in Nat /\ obj[z].ref \in Nat /\ One(obj[z].cxa > 0) \in Nat
            BY <1>12 DEF Data, Entry, One
        <3>2. /\ obj'[z].dlref = IF z = l THEN obj[z].dlref + 1 ELSE obj[z].dlref
              /\ obj'[z].ref = IF z = l THEN obj[z].ref + 1 ELSE obj[z].ref
              /\ obj'[z].cxa = obj[z].cxa
            BY <1>16, <1>17
        <3> QED
            BY <1>27, <3>1, <3>2
    <2>3. \A z \in Libs : obj'[z].nodel = obj[z].nodel
        BY <1>16, <1>17
    <2> QED
        BY <1>1, <1>12, <1>18, <1>26, <1>27, <2>1, <2>2, <2>3, BalancedBy
<1>30. \A c \in stale' : c \in Threads \X Nat /\ c # << t, Depth(t) >> /\ Rec(c).pc \in {"calling", "sort"}
    BY <1>1, <1>3, <1>6, StaleOthers
<1> QED
    BY <1>1, <1>3, <1>6, <1>9, <1>10, <1>11, <1>18, <1>20, <1>21, <1>22, <1>23, <1>24, <1>25, <1>28, <1>29,
       <1>30, LocalChange

\* dlopen of an object that is not in the list.
LEMMA LoadNewStep == ASSUME IInv, NEW t \in Threads, LoadNew(t) PROVE IInv'
<1>1. PICK U : Frames(U)
    BY DEF IInv
<1>2. PICK l : l = th[t].root
    OBVIOUS
<1>3. th[t].pc = "load" /\ lock = t /\ lock' = t /\ ~Listed(l)
    BY <1>2 DEF LoadNew, At
<1>4. th[t] \in CallOf(U) /\ LocalsOK(th[t])
    BY <1>1, <1>3, Mine
<1>5. l \in Libs /\ th[t].phase = "init" /\ th[t].pos = None
    BY <1>2, <1>3, <1>4 DEF LocalsOK, CallOf
<1>6. /\ objlist' = Append(objlist, l) /\ pending' = pending + 1 /\ clients' = clients /\ NewGeneration
      /\ obj' = [obj EXCEPT ![l].ref = 1, ![l].dlref = 1]
    BY <1>2 DEF LoadNew, Map
<1>7. handles' = handles /\ dtors' = dtors /\ ops' = ops
    BY <1>6 DEF clients
<1>8. PICK g : g = [th[t] EXCEPT !.pc = "scan", !.pos = l]
    OBVIOUS
<1>9. th' = [th EXCEPT ![t] = g]
    BY <1>1, <1>2, <1>8 DEF LoadNew, Frames
<1>10. g \in CallOf(U)
    BY <1>4, <1>5, <1>8 DEF CallOf, Labels
<1>11. g.root = l /\ g.phase = "init" /\ g.pc = "scan" /\ g.pos = l
    BY <1>2, <1>4, <1>5, <1>8 DEF CallOf
<1>12. Data /\ Pending /\ Distinct /\ Unlisted /\ Dtors /\ References
    BY DEF IInv
<1>13. PICK e : e = [obj[l] EXCEPT !.ref = 1, !.dlref = 1]
    OBVIOUS
<1>14. obj' = [obj EXCEPT ![l] = e]
    BY <1>5, <1>6, <1>12, <1>13 DEF Data
<1>15. /\ obj[l] \in Entry /\ obj[l].ref = 0 /\ obj[l].nref = 0 /\ obj[l].closing = 0
       /\ ~obj[l].nodel /\ obj[l].need = {} /\ obj[l].dagmembers = {}
    BY <1>3, <1>5, <1>12 DEF Data, Unlisted
<1>16. obj[l].dlref = 0
    <2>1. obj[l].ref >= Base(l) /\ Base(l) \in Nat /\ Base(l) >= obj[l].dlref /\ obj[l].dlref \in Nat
        BY <1>1, <1>5, <1>12, BaseFacts DEF References
    <2> QED
        BY <1>15, <2>1
<1>17. e \in Entry
    BY <1>13, <1>15 DEF Entry
<1>18. /\ e.ref = 1 /\ e.dlref = 1
       /\ e.nref = obj[l].nref /\ e.closing = obj[l].closing /\ e.cxa = obj[l].cxa
       /\ e.nodel = obj[l].nodel /\ e.dagmembers = obj[l].dagmembers /\ e.need = obj[l].need
       /\ e.reloc = obj[l].reloc
    BY <1>13, <1>15 DEF Entry
<1>19. obj' \in [Libs -> Entry] /\ obj'[l] = e /\ \A z \in Libs : z # l => obj'[z] = obj[z]
    BY <1>5, <1>12, <1>14, <1>17, OneObject
<1>20. objlist' \in Seq(Libs) /\ Distinct' /\ \A m \in Libs : Listed(m)' <=> Listed(m) \/ m = l
    BY <1>3, <1>5, <1>6, <1>12, ListAppend DEF Data
<1>21. Data'
    <2>1. pending' \in Nat
        BY <1>6, <1>12 DEF Data
    <2> QED
        BY <1>3, <1>7, <1>12, <1>19, <1>20, <2>1 DEF Data
<1>22. \A z \in Libs : /\ Opens(g, z) <=> z = l
                       /\ ~Opens(th[t], z)
                       /\ ~Loads(g, z) /\ ~Loads(th[t], z)
                       /\ ~Marks(g, z) /\ ~Marks(th[t], z)
    BY <1>3, <1>5, <1>11, ConstantFacts DEF Opens, Loads, Marks
<1>23. LocalsOK(g)
    BY <1>5, <1>11 DEF LocalsOK
<1>24. Counted(th[t], g)
    <2>1. ASSUME NEW z \in Libs
          PROVE  obj'[z].dlref + handles[z] + One(Opens(th[t], z)) = obj[z].dlref + handles'[z] + One(Opens(g, z))
        <3>1. One(Opens(th[t], z)) = 0 /\ One(Opens(g, z)) = IF z = l THEN 1 ELSE 0
            BY <1>22 DEF One
        <3>2. obj[z].dlref \in Nat /\ handles[z] \in Nat
            BY <1>12 DEF Data, Entry
        <3>3. obj'[z].dlref = IF z = l THEN obj[z].dlref + 1 ELSE obj[z].dlref
            BY <1>16, <1>18, <1>19
        <3> QED
            BY <1>7, <3>1, <3>2, <3>3
    <2>2. \A z \in Libs : /\ obj'[z].nref = obj[z].nref /\ obj'[z].closing = obj[z].closing
                          /\ Loads(g, z) <=> Loads(th[t], z)
                          /\ Marks(g, z) <=> Marks(th[t], z)
        BY <1>18, <1>19, <1>22
    <2> QED
        BY <2>1, <2>2, CountedOpens
<1>25. RootsKept(g)
    BY <1>3, <1>19, <1>22 DEF RootsKept
<1>26. Unlisted' /\ Dtors'
    BY <1>5, <1>7, <1>12, <1>18, <1>19, <1>20, ZenonT(60) DEF Unlisted, Dtors
<1>27. Grows
    BY <1>15, <1>18, <1>19 DEF Grows
<1>28. Pending'
    <2>1. \A m \in Libs : m # l => obj'[m].reloc = obj[m].reloc
        BY <1>19
    <2> QED
        BY <1>5, <1>6, <1>12, <1>20, <2>1, PendingMore
<1>29. PICK W : Frames(W)'
    BY <1>1, <1>3, <1>6, <1>9, <1>10, LocalDue
<1>30. /\ th'[t] = g
       /\ \A z \in Libs : Due(z) = 0 /\ Due(z)' = 0 /\ ~Pinning(z)
    BY <1>1, <1>3, <1>6, <1>9, <1>10, <1>11, LocalDue, ZenonT(60) DEF DueIn, PinIn
<1>31. Working'
    <2>1. Listed(l)'
        BY <1>5, <1>20
    <2> QED
        BY <1>3, <1>11, <1>30, <2>1, WorkingBy
<1>32. Balanced
    <2>1. \A z \in Libs : Needers(z)' = Needers(z)
        <3>1. \A z \in Libs : obj'[z].need = obj[z].need
            BY <1>18, <1>19
        <3>2. \A z \in Libs : (obj'[z].ref > 0 <=> obj[z].ref > 0) \/ obj[z].need = {}
            BY <1>15, <1>19
        <3> QED
            BY <3>1, <3>2, NeedersSame
    <2>2. ASSUME NEW z \in Libs
          PROVE  obj'[z].dlref + One(obj'[z].cxa > 0) + Due(z)' + obj[z].ref
                    <= obj[z].dlref + One(obj[z].cxa > 0) + Due(z) + obj'[z].ref
        <3>1. obj[z].dlref \in Nat /\ obj[z].ref \in Nat /\ One(obj[z].cxa > 0) \in Nat
            BY <1>12 DEF Data, Entry, One
        <3>2. /\ obj'[z].dlref = IF z = l THEN obj[z].dlref + 1 ELSE obj[z].dlref
              /\ obj'[z].ref = IF z = l THEN obj[z].ref + 1 ELSE obj[z].ref
              /\ obj'[z].cxa = obj[z].cxa
            BY <1>15, <1>16, <1>18, <1>19
        <3> QED
            BY <1>30, <3>1, <3>2
    <2>3. \A z \in Libs : obj'[z].nodel = obj[z].nodel
        BY <1>18, <1>19
    <2> QED
        BY <1>1, <1>12, <1>21, <1>29, <1>30, <2>1, <2>2, <2>3, BalancedBy
<1>33. \A c \in stale' : c \in Threads \X Nat /\ c # << t, Depth(t) >> /\ Rec(c).pc \in {"calling", "sort"}
    BY <1>1, <1>3, <1>6, GenerationFacts
<1> QED
    BY <1>1, <1>3, <1>6, <1>9, <1>10, <1>11, <1>20, <1>21, <1>23, <1>24, <1>25, <1>26, <1>27, <1>28, <1>31,
       <1>32, <1>33, LocalChange

-----------------------------------------------------------------------------
(* A DT_NEEDED entry is resolved *)

\* What Resolved changes.
LEMMA ResolvedFacts ==
    ASSUME Data, NEW t \in Threads, NEW n \in Libs, n = Name(t), NEW p \in Libs, p = th[t].pos,
           obj' = Resolved(t, obj)
    PROVE  /\ obj' \in [Libs -> Entry]
           /\ \A z \in Libs :
                 /\ z # n => obj'[z].ref = obj[z].ref
                 /\ z # p => obj'[z].need = obj[z].need
                 /\ obj'[z].dlref = obj[z].dlref /\ obj'[z].nref = obj[z].nref
                 /\ obj'[z].closing = obj[z].closing /\ obj'[z].cxa = obj[z].cxa
                 /\ obj'[z].dagmembers = obj[z].dagmembers /\ obj'[z].reloc = obj[z].reloc
           /\ obj'[n].ref = obj[n].ref + 1
           /\ obj'[p].need = obj[p].need \cup {n}
           /\ \A z \in Libs : z # n => obj'[z].nodel = obj[z].nodel
           /\ obj'[n].nodel <=> (obj[n].nodel \/ Pins(t))
<1>1. PICK b \in BOOLEAN : b = Pins(t)
    BY DEF Pins
<1>2. obj' = [obj EXCEPT ![p].need = @ \cup {n}, ![n].ref = @ + 1, ![n].nodel = @ \/ b]
    BY <1>1 DEF Resolved
<1>3. ASSUME NEW z \in Libs
      PROVE  /\ obj[z] \in Entry /\ obj[z].need \cup {n} \in SUBSET Libs
             /\ obj[z].ref + 1 \in Nat /\ (obj[z].nodel \/ b) \in BOOLEAN
    <2>1. obj[z] \in Entry /\ obj[z].need \in SUBSET Libs /\ obj[z].ref \in Nat
        BY DEF Data, Entry
    <2>2. (obj[z].nodel \/ b) \in BOOLEAN
        OBVIOUS
    <2> QED
        BY <2>1, <2>2
<1>4. ASSUME NEW z \in Libs
      PROVE  /\ obj'[z] \in Entry
             /\ obj'[z].ref = IF z = n THEN obj[z].ref + 1 ELSE obj[z].ref
             /\ obj'[z].need = IF z = p THEN obj[z].need \cup {n} ELSE obj[z].need
             /\ obj'[z].nodel = IF z = n THEN obj[z].nodel \/ b ELSE obj[z].nodel
             /\ obj'[z].dlref = obj[z].dlref /\ obj'[z].nref = obj[z].nref
             /\ obj'[z].closing = obj[z].closing /\ obj'[z].cxa = obj[z].cxa
             /\ obj'[z].dagmembers = obj[z].dagmembers /\ obj'[z].reloc = obj[z].reloc
    <2>1. CASE z # n /\ z # p
        BY <1>2, <1>3, <2>1 DEF Data
    <2>2. CASE z # n /\ z = p
        <3>1. obj'[z] = [obj[z] EXCEPT !.need = obj[z].need \cup {n}]
            BY <1>2, <2>2 DEF Data
        <3>2. obj'[z] \in Entry
            BY <1>3, <3>1 DEF Entry
        <3> QED
            BY <1>3, <2>2, <3>1, <3>2 DEF Entry
    <2>3. CASE z = n /\ z # p
        <3>1. obj'[z] = [obj[z] EXCEPT !.ref = obj[z].ref + 1, !.nodel = obj[z].nodel \/ b]
            BY <1>2, <1>3, <2>3 DEF Data, Entry
        <3>2. obj'[z] \in Entry
            BY <1>3, <3>1, ZenonT(60) DEF Entry
        <3> QED
            BY <1>3, <2>3, <3>1, <3>2 DEF Entry
    <2>4. CASE z = n /\ z = p
        <3>1. PICK f : f = [obj EXCEPT ![z] = [obj[z] EXCEPT !.need = obj[z].need \cup {n}]]
            OBVIOUS
        <3>2. f[z] = [obj[z] EXCEPT !.need = obj[z].need \cup {n}] /\ DOMAIN f = Libs
            BY <3>1 DEF Data
        <3>3. f[z] \in Entry
            BY <1>3, <3>2 DEF Entry
        <3>4. /\ f[z].need = obj[z].need \cup {n}
              /\ f[z].ref = obj[z].ref /\ f[z].nodel = obj[z].nodel
              /\ f[z].dlref = obj[z].dlref /\ f[z].nref = obj[z].nref
              /\ f[z].closing = obj[z].closing /\ f[z].cxa = obj[z].cxa
              /\ f[z].dagmembers = obj[z].dagmembers /\ f[z].reloc = obj[z].reloc
            BY <1>3, <3>2 DEF Entry
        <3>5. obj' = [f EXCEPT ![z].ref = @ + 1, ![z].nodel = @ \/ b]
            <4>1. obj' = [[obj EXCEPT ![z].need = @ \cup {n}] EXCEPT ![z].ref = @ + 1, ![z].nodel = @ \/ b]
                BY <1>2, <2>4
            <4>2. [obj EXCEPT ![z].need = @ \cup {n}] = f
                BY <3>1 DEF Data
            <4> QED
                BY <4>1, <4>2
        <3>6. obj'[z] = [f[z] EXCEPT !.ref = obj[z].ref + 1, !.nodel = obj[z].nodel \/ b]
            BY <3>2, <3>3, <3>4, <3>5 DEF Entry
        <3>7. obj'[z] \in Entry
            BY <1>3, <3>3, <3>6, ZenonT(60) DEF Entry
        <3>8. /\ obj'[z].ref = obj[z].ref + 1 /\ obj'[z].nodel = (obj[z].nodel \/ b)
              /\ obj'[z].need = f[z].need
              /\ obj'[z].dlref = f[z].dlref /\ obj'[z].nref = f[z].nref
              /\ obj'[z].closing = f[z].closing /\ obj'[z].cxa = f[z].cxa
              /\ obj'[z].dagmembers = f[z].dagmembers /\ obj'[z].reloc = f[z].reloc
            BY <3>3, <3>6 DEF Entry
        <3> QED
            BY <2>4, <3>4, <3>7, <3>8
    <2> QED
        BY <2>1, <2>2, <2>3, <2>4
<1>5. obj' = [z \in Libs |-> obj'[z]]
    BY <1>2 DEF Data
<1>6. obj' \in [Libs -> Entry]
    BY <1>4, <1>5
<1>7. obj'[n].nodel <=> (obj[n].nodel \/ Pins(t))
    BY <1>1, <1>4
<1>8. \A z \in Libs : z # n => obj'[z].nodel = obj[z].nodel
    BY <1>4
<1>9. \A z \in Libs :
         /\ z # n => obj'[z].ref = obj[z].ref
         /\ z # p => obj'[z].need = obj[z].need
         /\ obj'[z].dlref = obj[z].dlref /\ obj'[z].nref = obj[z].nref
         /\ obj'[z].closing = obj[z].closing /\ obj'[z].cxa = obj[z].cxa
         /\ obj'[z].dagmembers = obj[z].dagmembers /\ obj'[z].reloc = obj[z].reloc
    BY <1>4
<1>10. obj'[n].ref = obj[n].ref + 1 /\ obj'[p].need = obj[p].need \cup {n}
    BY <1>4
<1> QED
    BY <1>6, <1>7, <1>8, <1>9, <1>10

\* The references of an object, before and after a step.
LEMMA BaseParts ==
    ASSUME NEW U, Frames(U), NEW W, Frames(W)', Data, Data', NEW l \in Libs
    PROVE  /\ Base(l) = obj[l].dlref + One(obj[l].cxa > 0) + Cardinality(Needers(l)) + Due(l)
           /\ Base(l)' = obj'[l].dlref + One(obj'[l].cxa > 0) + Cardinality(Needers(l)') + Due(l)'
           /\ Needers(l) \in SUBSET Libs /\ Needers(l)' \in SUBSET Libs
           /\ Cardinality(Needers(l)) \in Nat /\ Cardinality(Needers(l)') \in Nat
           /\ One(obj[l].cxa > 0) \in Nat /\ One(obj'[l].cxa > 0) \in Nat
           /\ obj[l].ref \in Nat /\ obj'[l].ref \in Nat /\ obj[l].dlref \in Nat /\ obj'[l].dlref \in Nat
<1>1. Needers(l) \in SUBSET Libs /\ Needers(l)' \in SUBSET Libs
    BY DEF Needers
<1> DEFINE A == Needers(l)  B == Needers(l)'
<1> HIDE DEF A, B
<1>2. Cardinality(A) \in Nat /\ Cardinality(B) \in Nat
    BY <1>1, LibSets DEF A, B
<1>3. /\ obj[l].ref \in Nat /\ obj'[l].ref \in Nat
      /\ obj[l].dlref \in Nat /\ obj'[l].dlref \in Nat
    BY DEF Data, Entry
<1> QED
    BY <1>1, <1>2, <1>3 DEF A, B, Base, One

\* An entry is resolved to an object in use, or to one that has just been mapped.
LEMMA NameResolved ==
    ASSUME IInv, NEW U, Frames(U), NEW t \in Threads, th[t].pc = "byname", lock = t, lock' = t,
           clients' = clients, obj' = Resolved(t, obj), AfterResolved(t), NEW n, n = Name(t),
           (Listed(n) /\ obj[n].ref > 0) \/ ~Listed(n),
           objlist' \in Seq(Libs), Distinct', \A m \in Libs : Listed(m)' <=> Listed(m) \/ m = n,
           pending' \in Nat, Pending',
           \A c \in stale' : c \in Threads \X Nat /\ c # << t, Depth(t) >> /\ Rec(c).pc \in {"calling", "sort"}
    PROVE  IInv'
<1>1. th[t] \in CallOf(U) /\ LocalsOK(th[t])
    BY Mine
<1>2. PICK p : p = th[t].pos
    OBVIOUS
<1>3. /\ p \in Libs /\ n \in Libs /\ th[t].root \in Libs /\ th[t].phase = "init" /\ th[t].idx \in Nat
      /\ Listed(p)
    BY <1>2, NameFacts
<1>4. Data /\ Unlisted /\ Dtors
    BY DEF IInv
<1>5. obj' \in [Libs -> Entry]
    BY <1>2, <1>3, <1>4, ResolvedFacts
<1>6. \A z \in Libs :
         /\ z # n => obj'[z].ref = obj[z].ref
         /\ z # p => obj'[z].need = obj[z].need
         /\ obj'[z].dlref = obj[z].dlref /\ obj'[z].nref = obj[z].nref
         /\ obj'[z].closing = obj[z].closing /\ obj'[z].cxa = obj[z].cxa
         /\ obj'[z].dagmembers = obj[z].dagmembers /\ obj'[z].reloc = obj[z].reloc
    BY <1>2, <1>3, <1>4, ResolvedFacts
<1>7. obj'[n].ref = obj[n].ref + 1 /\ obj'[p].need = obj[p].need \cup {n}
    BY <1>2, <1>3, <1>4, ResolvedFacts, SMTT(60)
<1>8. /\ \A z \in Libs : z # n => obj'[z].nodel = obj[z].nodel
      /\ obj'[n].nodel <=> (obj[n].nodel \/ Pins(t))
    BY <1>2, <1>3, <1>4, ResolvedFacts
<1>9. handles' = handles /\ dtors' = dtors /\ ops' = ops
    BY DEF clients
<1>10. Data'
    BY <1>4, <1>5, <1>9 DEF Data
<1>11. PICK g : g = IF Pins(t) THEN [th[t] EXCEPT !.pc = "ref", !.work = << n >>]
                   ELSE [th[t] EXCEPT !.pc = "need", !.idx = th[t].idx + 1]
    OBVIOUS
<1>12. th' = [th EXCEPT ![t] = g]
    BY <1>11 DEF AfterResolved, Frames
<1>13. g \in CallOf(U)
    <2>1. << n >> \in Seq(Libs) /\ th[t].idx + 1 \in Nat
        BY <1>3
    <2>2. [th[t] EXCEPT !.pc = "ref", !.work = << n >>] \in CallOf(U)
        BY <1>1, <2>1 DEF CallOf, Labels
    <2>3. [th[t] EXCEPT !.pc = "need", !.idx = th[t].idx + 1] \in CallOf(U)
        BY <1>1, <2>1 DEF CallOf, Labels
    <2> QED
        BY <1>11, <2>2, <2>3
<1>14. /\ g.root = th[t].root /\ g.phase = "init" /\ g.pos = p
       /\ Pins(t) => g.pc = "ref" /\ g.work = << n >>
       /\ ~Pins(t) => g.pc = "need" /\ g.idx = th[t].idx + 1
    <2>1. CASE Pins(t)
        BY <1>1, <1>2, <1>3, <1>11, <2>1 DEF CallOf
    <2>2. CASE ~Pins(t)
        BY <1>1, <1>2, <1>3, <1>11, <2>2 DEF CallOf
    <2> QED
        BY <2>1, <2>2
<1>15. g.pc \in {"ref", "need"}
    BY <1>14
<1>16. LocalsOK(g)
    BY <1>3, <1>14, <1>15 DEF LocalsOK
<1>17. \A z \in Libs : /\ Opens(g, z) <=> Opens(th[t], z)
                       /\ Loads(g, z) <=> Loads(th[t], z)
                       /\ Marks(g, z) <=> Marks(th[t], z)
                       /\ ~Marks(g, z)
    BY <1>2, <1>3, <1>14, <1>15 DEF Opens, Loads, Marks
<1>18. Counted(th[t], g)
    BY <1>4, <1>6, <1>9, <1>17, CountedSame
<1>19. RootsKept(g)
    <2>1. \A r \in Libs : Listed(r) /\ obj[r].ref = 0 => r # n
        OBVIOUS
    <2> QED
        BY <1>6, <1>7, <1>17, <2>1 DEF RootsKept
<1>20. ~Listed(n) => n # p /\ obj[n].ref = 0 /\ obj[n].need = {} /\ obj[n].dagmembers = {} /\ ~obj[n].nodel
    BY <1>3, <1>4 DEF Unlisted
<1>21. Unlisted' /\ Dtors'
    <2>1. ASSUME NEW z \in Libs, ~Listed(z)' PROVE ~Listed(z) /\ z # n /\ z # p
        BY <1>3, <2>1
    <2>2. Unlisted'
        <3> SUFFICES ASSUME NEW z \in Libs, ~Listed(z)'
                     PROVE  /\ obj'[z].ref = 0 /\ obj'[z].nref = 0 /\ obj'[z].closing = 0 /\ obj'[z].cxa = 0
                            /\ ~obj'[z].nodel /\ obj'[z].need = {} /\ obj'[z].dagmembers = {}
            BY DEF Unlisted
        <3>1. ~Listed(z) /\ z # n /\ z # p
            BY <2>1
        <3>2. /\ obj[z].ref = 0 /\ obj[z].nref = 0 /\ obj[z].closing = 0 /\ obj[z].cxa = 0
              /\ ~obj[z].nodel /\ obj[z].need = {} /\ obj[z].dagmembers = {}
            BY <1>4, <3>1 DEF Unlisted
        <3>3. obj'[z].nodel = obj[z].nodel
            BY <1>8, <3>1
        <3>4. ~obj'[z].nodel
            BY <3>2, <3>3
        <3> QED
            BY <1>6, <3>1, <3>2, <3>4
    <2>3. Dtors'
        BY <1>4, <1>6, <1>9 DEF Dtors
    <2> QED
        BY <2>2, <2>3
<1>22. \A z \in Libs : obj[z].ref \in Nat
    BY <1>4 DEF Data, Entry
<1>23. \A z \in Libs : (obj'[z].ref > 0 <=> obj[z].ref > 0) \/ (z = n /\ obj[z].ref = 0 /\ ~Listed(n))
    BY <1>6, <1>7, <1>22
<1>24. Grows
    <2>1. \A x \in Libs : obj[x].need \subseteq obj'[x].need
        BY <1>6, <1>7
    <2>2. ASSUME NEW z \in Libs, obj'[z].ref > 0, ~(obj[z].ref > 0) PROVE obj'[z].dagmembers = {}
        BY <1>6, <1>7, <1>20, <1>23, <2>2
    <2>3. \A z \in Libs : obj'[z].dagmembers = obj[z].dagmembers
        BY <1>6, <1>7
    <2> QED
        BY <2>1, <2>2, <2>3 DEF Grows
<1>25. PICK W : Frames(W)'
    BY <1>12, <1>13, LocalDue
<1>26. /\ th'[t] = g
       /\ \A z \in Libs : /\ Due(z) = 0 /\ Due(z)' = 0 /\ ~Pinning(z)
                          /\ Pinning(z)' <=> PinIn(g, z)
    BY <1>12, <1>13, <1>15, LocalDue DEF DueIn, PinIn
<1>27. Working'
    <2>1. g.pc = "ref" => \A i \in 1 .. Len(g.work) : obj'[g.work[i]].ref > 0
        <3> SUFFICES ASSUME g.pc = "ref", NEW i \in 1 .. Len(g.work) PROVE obj'[g.work[i]].ref > 0
            OBVIOUS
        <3>1. g.work = << n >>
            BY <1>14
        <3>2. g.work[i] = n
            BY <3>1
        <3> QED
            BY <1>3, <1>6, <1>7, <1>22, <3>2
    <2> QED
        BY <1>15, <1>26, <2>1, WorkingBy
<1>28. \A z \in Libs : z # n => Needers(z)' = Needers(z)
    <2> SUFFICES ASSUME NEW z \in Libs, z # n, NEW m \in Libs
                 PROVE  (obj'[m].ref > 0 /\ z \in obj'[m].need) <=> (obj[m].ref > 0 /\ z \in obj[m].need)
        BY DEF Needers
    <2>1. z \in obj'[m].need <=> z \in obj[m].need
        BY <1>6, <1>7
    <2>2. obj[m].need = {} \/ (obj'[m].ref > 0 <=> obj[m].ref > 0)
        BY <1>20, <1>23
    <2> QED
        BY <2>1, <2>2
<1>29. Needers(n)' \subseteq Needers(n) \cup {p}
    <2> SUFFICES ASSUME NEW m \in Libs, obj'[m].ref > 0, n \in obj'[m].need, m # p
                 PROVE  obj[m].ref > 0 /\ n \in obj[m].need
        BY DEF Needers
    <2>1. n \in obj[m].need
        BY <1>6, <1>7
    <2> QED
        BY <1>20, <1>23, <2>1
<1>30. Balanced
    <2> SUFFICES ASSUME NEW z \in Libs
                 PROVE  /\ Base(z)' + obj[z].ref <= Base(z) + obj'[z].ref
                        /\ obj'[z].nodel /\ ~Pinning(z)' => obj[z].nodel /\ ~Pinning(z)
        BY DEF Balanced
    <2> DEFINE A == Needers(z)  B == Needers(z)'  x == One(obj[z].cxa > 0)
    <2>1. /\ Base(z) = obj[z].dlref + x + Cardinality(A) + 0
          /\ Base(z)' = obj[z].dlref + x + Cardinality(B) + 0
        <3>1. obj'[z].dlref = obj[z].dlref /\ obj'[z].cxa = obj[z].cxa /\ Due(z) = 0 /\ Due(z)' = 0
            BY <1>6, <1>7, <1>26
        <3> QED
            BY <1>4, <1>10, <1>25, <3>1, BaseParts
    <2>2. /\ A \in SUBSET Libs /\ B \in SUBSET Libs /\ Cardinality(A) \in Nat /\ Cardinality(B) \in Nat
          /\ x \in Nat /\ obj[z].ref \in Nat /\ obj[z].dlref \in Nat
        BY <1>4, <1>10, <1>25, BaseParts
    <2>3. z # n => Cardinality(B) = Cardinality(A)
        BY <1>28
    <2>4. z = n => B \subseteq A \cup {p}
        BY <1>29
    <2> HIDE DEF A, B, x
    <2>5. z = n => Cardinality(B) <= Cardinality(A) + 1
        <3>1. A \cup {p} \in SUBSET Libs
            BY <1>3, <2>2
        <3>2. Cardinality(A \cup {p}) \in Nat /\ Cardinality(A \cup {p}) <= Cardinality(A) + 1
            BY <2>2, LibSets
        <3>3. z = n => Cardinality(B) <= Cardinality(A \cup {p})
            BY <2>4, <3>1, LibSets
        <3> QED
            BY <2>2, <3>2, <3>3
    <2>6. /\ z # n => obj'[z].ref = obj[z].ref
          /\ z = n => obj'[z].ref = obj[z].ref + 1
        BY <1>6, <1>7
    <2>7. Base(z)' + obj[z].ref <= Base(z) + obj'[z].ref
        <3>1. CASE z = n
            <4>1. PICK a \in Nat, b \in Nat, r \in Nat, d \in Nat, y \in Nat :
                     a = Cardinality(A) /\ b = Cardinality(B) /\ r = obj[z].ref /\ d = obj[z].dlref /\ y = x
                BY <2>2
            <4>2. b <= a + 1 /\ obj'[z].ref = r + 1 /\ Base(z) = d + y + a + 0 /\ Base(z)' = d + y + b + 0
                BY <2>1, <2>5, <2>6, <3>1, <4>1
            <4>3. (d + y + b + 0) + r <= (d + y + a + 0) + (r + 1)
                BY <4>2
            <4> QED
                BY <4>1, <4>2, <4>3
        <3>2. CASE z # n
            BY <2>1, <2>2, <2>3, <2>6, <3>2
        <3> QED
            BY <3>1, <3>2
    <2>8. ASSUME obj'[z].nodel, ~Pinning(z)' PROVE obj[z].nodel /\ ~Pinning(z)
        <3>1. CASE z = n /\ Pins(t)
            <4>1. g.work = << n >> /\ g.pc = "ref"
                BY <1>14, <3>1
            <4>2. 1 \in 1 .. Len(g.work) /\ g.work[1] = n
                BY <4>1
            <4>3. PinIn(g, z)
                BY <3>1, <4>1, <4>2 DEF PinIn
            <4> QED
                BY <1>26, <2>8, <4>3
        <3>2. CASE ~(z = n /\ Pins(t))
            <4>1. CASE z # n
                <5>1. obj'[z].nodel = obj[z].nodel
                    BY <1>8, <4>1
                <5> QED
                    BY <1>26, <2>8, <5>1
            <4>2. CASE z = n
                <5>1. obj[n].nodel \/ Pins(t)
                    BY <1>8, <2>8, <4>2
                <5>2. ~Pinning(z)
                    BY <1>26
                <5> QED
                    BY <3>2, <4>2, <5>1, <5>2
            <4> QED
                BY <4>1, <4>2
        <3> QED
            BY <3>1, <3>2
    <2> QED
        BY <2>7, <2>8
<1> QED
    BY <1>10, <1>12, <1>13, <1>15, <1>16, <1>18, <1>19, <1>21, <1>24, <1>27, <1>30, LocalChange

\* The library is in the list and in use.
LEMMA ByNameOldStep == ASSUME IInv, NEW t \in Threads, ByNameOld(t) PROVE IInv'
<1>1. PICK U : Frames(U)
    BY DEF IInv
<1>2. PICK n : n = Name(t)
    OBVIOUS
<1>3. /\ th[t].pc = "byname" /\ lock = t /\ lock' = t /\ Listed(n) /\ obj[n].ref > 0
      /\ obj' = Resolved(t, obj) /\ AfterResolved(t)
      /\ objlist' = objlist /\ pending' = pending /\ clients' = clients /\ stale' = stale
    BY <1>2 DEF ByNameOld, At
<1>4. Data /\ Pending /\ Distinct
    BY DEF IInv
<1>5. n \in Libs /\ th[t].pos \in Libs
    BY <1>1, <1>2, <1>3, NameFacts
<1>6. \A z \in Libs : obj'[z].reloc = obj[z].reloc
    BY <1>2, <1>3, <1>4, <1>5, ResolvedFacts
<1>7. Pending'
    <2>1. Unrelocated' = Unrelocated
        BY <1>3, <1>6 DEF Unrelocated, Listed
    <2> QED
        BY <1>3, <1>4, <2>1 DEF Pending
<1>8. objlist' \in Seq(Libs) /\ Distinct' /\ \A m \in Libs : Listed(m)' <=> Listed(m) \/ m = n
    BY <1>3, <1>4 DEF Data, Distinct, Listed
<1>9. pending' \in Nat
    BY <1>3, <1>4 DEF Data
<1>10. \A c \in stale' : c \in Threads \X Nat /\ c # << t, Depth(t) >> /\ Rec(c).pc \in {"calling", "sort"}
    BY <1>1, <1>3, StaleOthers
<1> QED
    BY <1>1, <1>2, <1>3, <1>7, <1>8, <1>9, <1>10, NameResolved

\* The library is mapped.
LEMMA ByNameNewStep == ASSUME IInv, NEW t \in Threads, ByNameNew(t) PROVE IInv'
<1>1. PICK U : Frames(U)
    BY DEF IInv
<1>2. PICK n : n = Name(t)
    OBVIOUS
<1>3. /\ th[t].pc = "byname" /\ lock = t /\ lock' = t /\ ~Listed(n)
      /\ obj' = Resolved(t, obj) /\ AfterResolved(t)
      /\ objlist' = Append(objlist, n) /\ pending' = pending + 1 /\ clients' = clients /\ NewGeneration
    BY <1>2 DEF ByNameNew, At, Map
<1>4. Data /\ Pending /\ Distinct
    BY DEF IInv
<1>5. n \in Libs /\ th[t].pos \in Libs
    BY <1>1, <1>2, <1>3, NameFacts
<1>6. \A z \in Libs : obj'[z].reloc = obj[z].reloc
    BY <1>2, <1>3, <1>4, <1>5, ResolvedFacts
<1>7. objlist' \in Seq(Libs) /\ Distinct' /\ \A m \in Libs : Listed(m)' <=> Listed(m) \/ m = n
    BY <1>3, <1>4, <1>5, ListAppend DEF Data
<1>8. Pending'
    BY <1>3, <1>4, <1>5, <1>6, <1>7, PendingMore
<1>9. pending' \in Nat
    BY <1>3, <1>4 DEF Data
<1>10. \A c \in stale' : c \in Threads \X Nat /\ c # << t, Depth(t) >> /\ Rec(c).pc \in {"calling", "sort"}
    BY <1>1, <1>3, GenerationFacts
<1> QED
    BY <1>1, <1>2, <1>3, <1>7, <1>8, <1>9, <1>10, NameResolved

-----------------------------------------------------------------------------
(* DAGs *)

\* The objects after a visit of o: one that root's DAG has, a new one.
Readied(o) == [obj EXCEPT ![o].reloc = IF @ = "notyet" THEN "ready" ELSE @]
Grafted(o, root) == [Readied(o) EXCEPT ![o].dldags = @ \cup {root}, ![root].dagmembers = @ \cup {o}]

\* What a visit of _rtld_init_dag1 changes.
LEMMA DagFacts ==
    ASSUME Data, NEW root \in Libs, NEW o \in Libs, obj' \in {Readied(o), Grafted(o, root)}
    PROVE  /\ obj' \in [Libs -> Entry]
           /\ \A z \in Libs :
                 /\ obj'[z].ref = obj[z].ref /\ obj'[z].dlref = obj[z].dlref /\ obj'[z].nref = obj[z].nref
                 /\ obj'[z].closing = obj[z].closing /\ obj'[z].cxa = obj[z].cxa
                 /\ obj'[z].nodel = obj[z].nodel /\ obj'[z].need = obj[z].need
                 /\ obj[z].dagmembers \subseteq obj'[z].dagmembers
                 /\ z # root => obj'[z].dagmembers = obj[z].dagmembers
                 /\ obj'[z].reloc \in {"notyet", "ready"} => obj[z].reloc \in {"notyet", "ready"}
           /\ obj'[root].dagmembers \subseteq obj[root].dagmembers \cup {o}
<1>1. \A z \in Libs : obj[z] \in Entry
    BY DEF Data
<1>2. PICK r : r = Readied(o)
    OBVIOUS
<1>3. PICK c : c = IF obj[o].reloc = "notyet" THEN "ready" ELSE obj[o].reloc
    OBVIOUS
<1>4. c \in RelocStates /\ (c \in {"notyet", "ready"} => obj[o].reloc \in {"notyet", "ready"})
    BY <1>1, <1>3 DEF Entry, RelocStates
<1>5. r = [obj EXCEPT ![o] = [obj[o] EXCEPT !.reloc = c]]
    BY <1>2, <1>1, <1>3 DEF Data, Entry, Readied
<1>6. DOMAIN r = Libs /\ r[o] = [obj[o] EXCEPT !.reloc = c] /\ \A z \in Libs : z # o => r[z] = obj[z]
    BY <1>5 DEF Data
<1>7. r[o] \in Entry
    <2>1. c \in RelocStates /\ obj[o] \in Entry
        BY <1>1, <1>4
    <2> HIDE DEF RelocStates
    <2> QED
        BY <1>6, <2>1 DEF Entry
<1>8. /\ r[o].ref = obj[o].ref /\ r[o].dlref = obj[o].dlref /\ r[o].nref = obj[o].nref
      /\ r[o].closing = obj[o].closing /\ r[o].cxa = obj[o].cxa
      /\ r[o].nodel = obj[o].nodel /\ r[o].need = obj[o].need
      /\ r[o].dagmembers = obj[o].dagmembers /\ r[o].reloc = c
    BY <1>1, <1>6 DEF Entry
<1>9. ASSUME NEW z \in Libs
      PROVE  /\ r[z] \in Entry /\ r[z].dldags \in SUBSET Libs /\ r[z].dagmembers \in SUBSET Libs
             /\ r[z].ref = obj[z].ref /\ r[z].dlref = obj[z].dlref /\ r[z].nref = obj[z].nref
             /\ r[z].closing = obj[z].closing /\ r[z].cxa = obj[z].cxa
             /\ r[z].nodel = obj[z].nodel /\ r[z].need = obj[z].need
             /\ r[z].dagmembers = obj[z].dagmembers
             /\ r[z].reloc \in {"notyet", "ready"} => obj[z].reloc \in {"notyet", "ready"}
    <2>1. r[z] \in Entry
        BY <1>1, <1>6, <1>7
    <2>2. r[z].dldags \in SUBSET Libs /\ r[z].dagmembers \in SUBSET Libs
        BY <2>1 DEF Entry
    <2>3. CASE z = o
        BY <1>4, <1>8, <2>1, <2>2, <2>3
    <2>4. CASE z # o
        BY <1>6, <2>1, <2>2, <2>4
    <2> QED
        BY <2>3, <2>4
<1>10. r \in [Libs -> Entry]
    <2>1. r = [z \in Libs |-> r[z]]
        BY <1>5 DEF Data
    <2> QED
        BY <1>9, <2>1
<1>11. CASE obj' = r
    BY <1>9, <1>11, <1>10
<1>12. CASE obj' = Grafted(o, root)
    <2>1. obj' = [r EXCEPT ![o].dldags = @ \cup {root}, ![root].dagmembers = @ \cup {o}]
        BY <1>2, <1>12 DEF Grafted
    <2>2. PICK s : s = [r EXCEPT ![o] = [r[o] EXCEPT !.dldags = r[o].dldags \cup {root}]]
        OBVIOUS
    <2>3. DOMAIN s = Libs /\ s[o] = [r[o] EXCEPT !.dldags = r[o].dldags \cup {root}] /\ \A z \in Libs : z # o => s[z] = r[z]
        BY <1>6, <2>2
    <2>4. r[o].dldags \cup {root} \in SUBSET Libs
        BY <1>9
    <2>5. s[o] \in Entry
        BY <1>7, <2>3, <2>4 DEF Entry
    <2>6. /\ s[o].ref = r[o].ref /\ s[o].dlref = r[o].dlref /\ s[o].nref = r[o].nref
          /\ s[o].closing = r[o].closing /\ s[o].cxa = r[o].cxa
          /\ s[o].nodel = r[o].nodel /\ s[o].need = r[o].need
          /\ s[o].dagmembers = r[o].dagmembers /\ s[o].reloc = r[o].reloc
        BY <1>7, <2>3 DEF Entry
    <2>7. ASSUME NEW z \in Libs
          PROVE  /\ s[z] \in Entry
                 /\ s[z].ref = obj[z].ref /\ s[z].dlref = obj[z].dlref /\ s[z].nref = obj[z].nref
                 /\ s[z].closing = obj[z].closing /\ s[z].cxa = obj[z].cxa
                 /\ s[z].nodel = obj[z].nodel /\ s[z].need = obj[z].need
                 /\ s[z].dagmembers = obj[z].dagmembers /\ s[z].reloc = r[z].reloc
        <3>1. CASE z = o
            BY <1>9, <2>5, <2>6, <3>1
        <3>2. CASE z # o
            BY <1>9, <2>3, <3>2
        <3> QED
            BY <3>1, <3>2
    <2>8. PICK e : e = [s[root] EXCEPT !.dagmembers = s[root].dagmembers \cup {o}]
        OBVIOUS
    <2>9. s[root].dagmembers \cup {o} \in SUBSET Libs
        BY <1>9, <2>7
    <2>10. e \in Entry
        BY <2>7, <2>8, <2>9 DEF Entry
    <2>11. /\ e.ref = s[root].ref /\ e.dlref = s[root].dlref /\ e.nref = s[root].nref
           /\ e.closing = s[root].closing /\ e.cxa = s[root].cxa
           /\ e.nodel = s[root].nodel /\ e.need = s[root].need
           /\ e.dagmembers = s[root].dagmembers \cup {o} /\ e.reloc = s[root].reloc
        BY <2>7, <2>8 DEF Entry
    <2>12. obj' = [z \in Libs |-> obj'[z]]
        BY <2>1, <1>10
    <2>13. obj'[root] = e /\ \A z \in Libs : z # root => obj'[z] = s[z]
        <3>1. CASE o # root
            <4>1. obj'[root] = [r[root] EXCEPT !.dagmembers = r[root].dagmembers \cup {o}]
                BY <1>6, <2>1, <3>1
            <4>2. obj'[o] = [r[o] EXCEPT !.dldags = r[o].dldags \cup {root}]
                BY <1>6, <2>1, <3>1
            <4>3. \A z \in Libs : z # o /\ z # root => obj'[z] = r[z]
                BY <1>6, <2>1
            <4>4. s[root] = r[root]
                BY <2>3, <3>1
            <4> QED
                BY <2>3, <2>8, <4>1, <4>2, <4>3, <4>4
        <3>2. CASE o = root
            <4>1. obj' = [[r EXCEPT ![o].dldags = @ \cup {root}] EXCEPT ![o].dagmembers = @ \cup {o}]
                BY <2>1, <1>10, <3>2
            <4>2. [r EXCEPT ![o].dldags = @ \cup {root}] = s
                BY <1>6, <2>2
            <4>3. obj' = [s EXCEPT ![o].dagmembers = @ \cup {o}]
                BY <4>1, <4>2
            <4> QED
                BY <2>3, <2>8, <3>2, <4>3
        <3> QED
            BY <3>1, <3>2
    <2>14. obj' \in [Libs -> Entry]
        <3>1. \A z \in Libs : obj'[z] \in Entry
            BY <2>7, <2>10, <2>13
        <3> QED
            BY <2>12, <3>1
    <2>15. ASSUME NEW z \in Libs
           PROVE  /\ obj'[z].ref = obj[z].ref /\ obj'[z].dlref = obj[z].dlref /\ obj'[z].nref = obj[z].nref
                  /\ obj'[z].closing = obj[z].closing /\ obj'[z].cxa = obj[z].cxa
                  /\ obj'[z].nodel = obj[z].nodel /\ obj'[z].need = obj[z].need
                  /\ obj[z].dagmembers \subseteq obj'[z].dagmembers
                  /\ z # root => obj'[z].dagmembers = obj[z].dagmembers
                  /\ obj'[z].reloc \in {"notyet", "ready"} => obj[z].reloc \in {"notyet", "ready"}
        <3>1. CASE z = root
            BY <1>9, <2>7, <2>11, <2>13, <3>1
        <3>2. CASE z # root
            BY <1>9, <2>7, <2>13, <3>2
        <3> QED
            BY <3>1, <3>2
    <2>16. obj'[root].dagmembers \subseteq obj[root].dagmembers \cup {o}
        BY <2>7, <2>11, <2>13
    <2> QED
        BY <2>14, <2>15, <2>16
<1> QED
    BY <1>2, <1>11, <1>12

\* A visit of _rtld_init_dag1.
LEMMA DagStep == ASSUME IInv, NEW t \in Threads, Dag(t) PROVE IInv'
<1>1. PICK U : Frames(U)
    BY DEF IInv
<1>2. PICK root, o, w : root = th[t].root /\ w = th[t].work /\ o = Head(w)
    OBVIOUS
<1>3. th[t].pc = "dag" /\ lock = t /\ lock' = t /\ w # << >>
    BY <1>2 DEF Dag, At
<1>4. th[t] \in CallOf(U) /\ LocalsOK(th[t])
    BY <1>1, <1>3, Mine
<1>5. root \in Libs /\ th[t].phase = "init" /\ th[t].pos = None /\ w \in Seq(Libs)
    BY <1>2, <1>3, <1>4 DEF LocalsOK, CallOf
<1>6. objlist' = objlist /\ pending' = pending /\ clients' = clients /\ stale' = stale
    BY DEF Dag
<1>7. handles' = handles /\ dtors' = dtors /\ ops' = ops
    BY <1>6 DEF clients
<1>8. /\ Data /\ Pending /\ Distinct /\ Unlisted /\ Dtors /\ References /\ Working
    BY DEF IInv
<1>9. o \in Libs /\ o = w[1] /\ 1 \in 1 .. Len(w)
    BY <1>2, <1>3, <1>5, <1>8, OccursReplace
<1>10. obj[o].need \subseteq Libs
    BY <1>8, <1>9 DEF Data, Entry
<1>11. /\ Needed(o) \in Seq(Libs)
       /\ \A i \in 1 .. Len(Needed(o)) : Needed(o)[i] \in obj[o].need
    BY <1>9, <1>10, NeededFacts
<1>12. PICK x \in {<< >>, Needed(o)} : th' = [th EXCEPT ![t].work = x \o Tail(w)]
    <2>1. \/ th' = [th EXCEPT ![t].work = Tail(w)]
          \/ th' = [th EXCEPT ![t].work = Needed(o) \o Tail(w)]
        BY <1>2 DEF Dag
    <2>2. << >> \o Tail(w) = Tail(w)
        BY <1>3, <1>5
    <2>3. CASE th' = [th EXCEPT ![t].work = Tail(w)]
        <3>1. th' = [th EXCEPT ![t].work = << >> \o Tail(w)]
            BY <2>2, <2>3
        <3> QED
            BY <3>1
    <2>4. CASE th' = [th EXCEPT ![t].work = Needed(o) \o Tail(w)]
        BY <2>4
    <2> QED
        BY <2>1, <2>3, <2>4
<1>13. x \in Seq(Libs) /\ \A i \in 1 .. Len(x) : x[i] \in obj[o].need
    <2>1. CASE x = << >>
        BY <2>1
    <2>2. CASE x = Needed(o)
        BY <1>11, <2>2
    <2> QED
        BY <1>12, <2>1, <2>2
<1>14. /\ x \o Tail(w) \in Seq(Libs)
       /\ \A i \in 1 .. Len(x \o Tail(w)) :
             (\E j \in 1 .. Len(x) : (x \o Tail(w))[i] = x[j])
             \/ \E j \in 1 .. Len(w) : (x \o Tail(w))[i] = w[j]
    BY <1>3, <1>5, <1>13, OccursReplace
<1>15. PICK v : v = x \o Tail(w)
    OBVIOUS
<1>16. PICK g : g = [th[t] EXCEPT !.work = v]
    OBVIOUS
<1>17. th' = [th EXCEPT ![t] = g]
    <2>1. th' = [th EXCEPT ![t].work = v]
        BY <1>12, <1>15
    <2> QED
        BY <1>1, <1>16, <2>1 DEF Frames
<1>18. g \in CallOf(U)
    BY <1>4, <1>14, <1>15, <1>16 DEF CallOf
<1>19. g.pc = "dag" /\ g.root = root /\ g.phase = "init" /\ g.pos = None /\ g.work = v
    BY <1>2, <1>3, <1>4, <1>5, <1>16 DEF CallOf
<1>20. obj' \in {Readied(o), Grafted(o, root)}
    BY <1>2 DEF Dag, Readied, Grafted
<1>21. /\ obj' \in [Libs -> Entry]
       /\ \A z \in Libs :
             /\ obj'[z].ref = obj[z].ref /\ obj'[z].dlref = obj[z].dlref /\ obj'[z].nref = obj[z].nref
             /\ obj'[z].closing = obj[z].closing /\ obj'[z].cxa = obj[z].cxa
             /\ obj'[z].nodel = obj[z].nodel /\ obj'[z].need = obj[z].need
             /\ z # root => obj'[z].dagmembers = obj[z].dagmembers
             /\ obj'[z].reloc \in {"notyet", "ready"} => obj[z].reloc \in {"notyet", "ready"}
       /\ obj'[root].dagmembers \subseteq obj[root].dagmembers \cup {o}
    BY <1>5, <1>8, <1>9, <1>20, DagFacts
<1>22. Data'
    BY <1>3, <1>6, <1>7, <1>8, <1>21 DEF Data
<1>23. Opens(th[t], root)
    BY <1>2, <1>3, <1>5 DEF Opens
<1>24. obj[root].ref >= 1 /\ Listed(root) /\ obj[root].ref \in Nat
    <2>1. obj[root].ref \in Nat
        BY <1>5, <1>8 DEF Data, Entry
    <2> QED
        BY <1>1, <1>5, <1>23, <2>1, MyCounts
<1>25. \A z \in Libs : /\ Opens(g, z) <=> Opens(th[t], z)
                       /\ Loads(g, z) <=> Loads(th[t], z)
                       /\ Marks(g, z) <=> Marks(th[t], z)
    BY <1>2, <1>3, <1>5, <1>19 DEF Opens, Loads, Marks
<1>26. \A z \in Libs : ~Marks(g, z)
    BY <1>19 DEF Marks
<1>27. LocalsOK(g)
    BY <1>5, <1>19 DEF LocalsOK
<1>28. Counted(th[t], g)
    BY <1>7, <1>8, <1>21, <1>25, CountedSame
<1>29. RootsKept(g)
    BY <1>21, <1>24, <1>26 DEF RootsKept
<1>30. Distinct' /\ Unlisted' /\ Dtors'
    BY <1>6, <1>7, <1>8, <1>21, <1>24 DEF Distinct, Unlisted, Dtors, Listed
<1>31. \A i \in 1 .. Len(w) : Reach(root, w[i])
    BY <1>2, <1>3, <1>8 DEF Working
<1>32. Reach(root, o)
    BY <1>9, <1>31
<1>33. Grows
    <2>1. ASSUME NEW l \in Libs, obj'[l].ref > 0
          PROVE  obj[l].ref > 0 /\ \A m \in obj'[l].dagmembers : m \in obj[l].dagmembers \/ Reach(l, m)
        <3>1. CASE l = root
            BY <1>21, <1>32, <2>1, <3>1
        <3>2. CASE l # root
            BY <1>21, <2>1, <3>2
        <3> QED
            BY <3>1, <3>2
    <2> QED
        BY <1>21, <2>1 DEF Grows
<1>34. Pending'
    <2>1. Unrelocated' \in SUBSET Unrelocated /\ Unrelocated \in SUBSET Libs
        BY <1>6, <1>21 DEF Unrelocated, Listed
    <2>2. /\ Cardinality(Unrelocated') \in Nat /\ Cardinality(Unrelocated) \in Nat
          /\ Cardinality(Unrelocated') <= Cardinality(Unrelocated)
        BY <2>1, LibSets
    <2>3. pending \in Nat /\ pending >= Cardinality(Unrelocated)
        BY <1>8 DEF Data, Pending
    <2> QED
        BY <1>6, <2>2, <2>3 DEF Pending
<1>35. PICK W : Frames(W)'
    BY <1>1, <1>3, <1>6, <1>17, <1>18, LocalDue
<1>36. /\ th'[t] = g
       /\ \A z \in Libs : Due(z) = 0 /\ Due(z)' = 0 /\ ~Pinning(z)
    BY <1>1, <1>3, <1>6, <1>17, <1>18, <1>19, LocalDue DEF DueIn, PinIn
<1>37. ASSUME NEW i \in 1 .. Len(v) PROVE Reach(root, v[i])'
    <2>1. Reach(root, v[i])
        <3>1. CASE \E j \in 1 .. Len(x) : v[i] = x[j]
            BY <1>13, <1>32, <3>1, ReachSteps
        <3>2. CASE \E j \in 1 .. Len(w) : v[i] = w[j]
            BY <1>31, <3>2
        <3> QED
            BY <1>14, <1>15, <3>1, <3>2
    <2>2. root \in Live
        BY <1>5, <1>24 DEF Live
    <2> QED
        BY <1>1, <1>8, <1>21, <2>1, <2>2, ReachKept
<1>38. Working'
    BY <1>3, <1>19, <1>36, <1>37, WorkingBy
<1>39. Balanced
    <2>1. \A z \in Libs : Needers(z)' = Needers(z)
        BY <1>21, NeedersSame
    <2>2. ASSUME NEW z \in Libs
          PROVE  obj'[z].dlref + One(obj'[z].cxa > 0) + Due(z)' + obj[z].ref
                    <= obj[z].dlref + One(obj[z].cxa > 0) + Due(z) + obj'[z].ref
        <3>1. obj[z].dlref \in Nat /\ obj[z].ref \in Nat /\ One(obj[z].cxa > 0) \in Nat
            BY <1>8 DEF Data, Entry, One
        <3> QED
            BY <1>21, <1>36, <3>1
    <2>3. \A z \in Libs : obj'[z].nodel = obj[z].nodel
        BY <1>21
    <2> QED
        BY <1>1, <1>8, <1>22, <1>35, <1>36, <2>1, <2>2, <2>3, BalancedBy
<1>40. \A c \in stale' : c \in Threads \X Nat /\ c # << t, Depth(t) >> /\ Rec(c).pc \in {"calling", "sort"}
    BY <1>1, <1>3, <1>6, StaleOthers
<1> QED
    BY <1>1, <1>3, <1>6, <1>17, <1>18, <1>19, <1>22, <1>27, <1>28, <1>29, <1>30, <1>33, <1>34, <1>38, <1>39,
       <1>40, LocalChange

-----------------------------------------------------------------------------
(* RTLD_NODELETE *)

\* What comes after the head of w is in x \o Tail(w).
LEMMA TailStays ==
    ASSUME NEW x \in Seq(Libs), NEW w \in Seq(Libs), w # << >>, NEW l \in Libs, l # Head(w),
           NEW j \in 1 .. Len(w), w[j] = l
    PROVE  \E i \in 1 .. Len(x \o Tail(w)) : (x \o Tail(w))[i] = l
<1>1. PICK v : v = x \o Tail(w)
    OBVIOUS
<1>2. /\ Occurs(w, l) \in Nat /\ Occurs(x, l) \in Nat /\ Occurs(v, l) \in Nat
      /\ Occurs(v, l) = Occurs(w, l) + Occurs(x, l)
    <2>1. /\ Occurs(w, l) \in Nat /\ Occurs(x, l) \in Nat /\ Occurs(v, l) \in Nat
          /\ Occurs(v, l) + (IF Head(w) = l THEN 1 ELSE 0) = Occurs(w, l) + Occurs(x, l)
        BY <1>1, OccursReplace
    <2> QED
        BY <2>1
<1>3. Occurs(w, l) >= 1
    BY OccursSome
<1>4. ASSUME ~\E i \in 1 .. Len(v) : v[i] = l PROVE FALSE
    <2>1. {i \in 1 .. Len(v) : v[i] = l} = {}
        BY <1>4
    <2>2. Occurs(v, l) = 0
        BY <2>1, FS_EmptySet DEF Occurs
    <2> QED
        BY <1>2, <1>3, <2>2
<1> QED
    BY <1>1, <1>4

\* A visit of _rtld_ref_dag.
LEMMA RefDagStep == ASSUME IInv, NEW t \in Threads, RefDag(t) PROVE IInv'
<1>1. PICK U : Frames(U)
    BY DEF IInv
<1>2. PICK o, w : w = th[t].work /\ o = Head(w)
    OBVIOUS
<1>3. th[t].pc = "ref" /\ lock = t /\ lock' = t /\ w # << >>
    BY <1>2 DEF RefDag, At
<1>4. th[t] \in CallOf(U) /\ LocalsOK(th[t])
    BY <1>1, <1>3, Mine
<1>5. th[t].root \in Libs /\ th[t].phase = "init" /\ w \in Seq(Libs)
    BY <1>2, <1>3, <1>4 DEF LocalsOK, CallOf
<1>6. objlist' = objlist /\ pending' = pending /\ clients' = clients /\ stale' = stale
    BY DEF RefDag
<1>7. handles' = handles /\ dtors' = dtors /\ ops' = ops
    BY <1>6 DEF clients
<1>8. /\ Data /\ Pending /\ Distinct /\ Unlisted /\ Dtors /\ References /\ Working
    BY DEF IInv
<1>9. o \in Libs /\ o = w[1] /\ 1 \in 1 .. Len(w)
    BY <1>2, <1>3, <1>5, <1>8, OccursReplace
<1>10. obj[o].need \subseteq Libs /\ obj[o] \in Entry /\ obj[o].ref \in Nat
    BY <1>8, <1>9 DEF Data, Entry
<1>11. PICK x : x = Needed(o)
    OBVIOUS
<1>12. x \in Seq(Libs) /\ \A i \in 1 .. Len(x) : x[i] \in obj[o].need
    BY <1>9, <1>10, <1>11, NeededFacts
<1>13. /\ x \o Tail(w) \in Seq(Libs)
       /\ \A i \in 1 .. Len(x \o Tail(w)) :
             (\E j \in 1 .. Len(x) : (x \o Tail(w))[i] = x[j])
             \/ \E j \in 1 .. Len(w) : (x \o Tail(w))[i] = w[j]
    BY <1>3, <1>5, <1>12, OccursReplace
<1>14. PICK v : v = x \o Tail(w)
    OBVIOUS
<1>15. PICK g : g = [th[t] EXCEPT !.work = v]
    OBVIOUS
<1>16. th' = [th EXCEPT ![t] = g]
    BY <1>1, <1>2, <1>11, <1>14, <1>15 DEF RefDag, Frames
<1>17. g \in CallOf(U)
    BY <1>4, <1>13, <1>14, <1>15 DEF CallOf
<1>18. g.pc = "ref" /\ g.root = th[t].root /\ g.phase = "init" /\ g.pos = th[t].pos /\ g.work = v
    BY <1>3, <1>4, <1>5, <1>15 DEF CallOf
<1>19. PICK e : e = [obj[o] EXCEPT !.ref = obj[o].ref + 1]
    OBVIOUS
<1>20. obj' = [obj EXCEPT ![o] = e]
    BY <1>2, <1>9, <1>8, <1>19 DEF RefDag, Data
<1>21. e \in Entry
    <2>1. obj[o].ref + 1 \in Nat
        BY <1>10
    <2> QED
        BY <1>10, <1>19, <2>1 DEF Entry
<1>22. /\ e.ref = obj[o].ref + 1 /\ e.dlref = obj[o].dlref /\ e.nref = obj[o].nref
       /\ e.closing = obj[o].closing /\ e.cxa = obj[o].cxa /\ e.nodel = obj[o].nodel
       /\ e.need = obj[o].need /\ e.dagmembers = obj[o].dagmembers /\ e.reloc = obj[o].reloc
    BY <1>10, <1>19 DEF Entry
<1>23. obj' \in [Libs -> Entry] /\ obj'[o] = e /\ \A z \in Libs : z # o => obj'[z] = obj[z]
    BY <1>8, <1>9, <1>20, <1>21, OneObject
<1>24. Data'
    BY <1>3, <1>6, <1>7, <1>8, <1>23 DEF Data
<1>25. \A z \in Libs : /\ Opens(g, z) <=> Opens(th[t], z)
                       /\ Loads(g, z) <=> Loads(th[t], z)
                       /\ Marks(g, z) <=> Marks(th[t], z)
    BY <1>3, <1>5, <1>18 DEF Opens, Loads, Marks
<1>26. \A z \in Libs : ~Marks(g, z)
    BY <1>18 DEF Marks
<1>27. LocalsOK(g)
    BY <1>3, <1>4, <1>18 DEF LocalsOK
<1>28. Counted(th[t], g)
    BY <1>7, <1>8, <1>22, <1>23, <1>25, CountedSame
<1>29. \A i \in 1 .. Len(w) : obj[w[i]].ref > 0
    BY <1>2, <1>3, <1>8 DEF Working
<1>30. obj[o].ref > 0
    BY <1>9, <1>29
<1>31. RootsKept(g)
    BY <1>10, <1>22, <1>23, <1>26, <1>30 DEF RootsKept
<1>32. Distinct' /\ Unlisted' /\ Dtors'
    BY <1>6, <1>7, <1>8, <1>10, <1>22, <1>23, <1>30 DEF Distinct, Unlisted, Dtors, Listed
<1>33. Grows
    BY <1>10, <1>22, <1>23, <1>30 DEF Grows
<1>34. Pending'
    <2>1. Unrelocated' = Unrelocated
        BY <1>6, <1>22, <1>23 DEF Unrelocated, Listed
    <2> QED
        BY <1>6, <1>8, <2>1 DEF Pending
<1>35. PICK W : Frames(W)'
    BY <1>1, <1>3, <1>6, <1>16, <1>17, LocalDue
<1>36. /\ th'[t] = g
       /\ \A z \in Libs : /\ Due(z) = 0 /\ Due(z)' = 0
                          /\ Pinning(z) <=> \E i \in 1 .. Len(w) : w[i] = z
                          /\ Pinning(z)' <=> \E i \in 1 .. Len(v) : v[i] = z
    <2>1. /\ th'[t] = g
          /\ \A z \in Libs : /\ Due(z) = DueIn(th[t], z) /\ Due(z)' = DueIn(g, z)
                             /\ Pinning(z) <=> PinIn(th[t], z)
                             /\ Pinning(z)' <=> PinIn(g, z)
        BY <1>1, <1>3, <1>6, <1>16, <1>17, LocalDue
    <2> QED
        BY <1>2, <1>3, <1>18, <2>1 DEF DueIn, PinIn
<1>37. ASSUME NEW z \in Libs, obj[z].ref > 0 PROVE obj'[z].ref > 0
    BY <1>10, <1>22, <1>23, <1>37
<1>38. ASSUME NEW i \in 1 .. Len(v) PROVE obj'[v[i]].ref > 0
    <2>1. v[i] \in Libs
        BY <1>13, <1>14
    <2>2. obj[v[i]].ref > 0
        <3>1. obj[o].need \subseteq Live
            BY <1>1, <1>8, <1>9, <1>30, NeedLive
        <3>2. CASE \E j \in 1 .. Len(x) : v[i] = x[j]
            BY <1>12, <3>1, <3>2 DEF Live
        <3>3. CASE \E j \in 1 .. Len(w) : v[i] = w[j]
            BY <1>29, <3>3
        <3> QED
            BY <1>13, <1>14, <3>2, <3>3
    <2> QED
        BY <1>37, <2>1, <2>2
<1>39. Working'
    BY <1>3, <1>18, <1>36, <1>38, WorkingBy
<1>40. Balanced
    <2>1. \A z \in Libs : Needers(z)' = Needers(z)
        <3>1. \A z \in Libs : obj'[z].need = obj[z].need /\ (obj'[z].ref > 0 <=> obj[z].ref > 0)
            BY <1>10, <1>22, <1>23, <1>30
        <3> QED
            BY <3>1, NeedersSame
    <2>2. ASSUME NEW z \in Libs
          PROVE  obj'[z].dlref + One(obj'[z].cxa > 0) + Due(z)' + obj[z].ref
                    <= obj[z].dlref + One(obj[z].cxa > 0) + Due(z) + obj'[z].ref
        <3>1. obj[z].dlref \in Nat /\ obj[z].ref \in Nat /\ One(obj[z].cxa > 0) \in Nat
            BY <1>8 DEF Data, Entry, One
        <3>2. /\ obj'[z].ref >= obj[z].ref /\ obj'[z].ref \in Nat
              /\ obj'[z].dlref = obj[z].dlref /\ obj'[z].cxa = obj[z].cxa
            BY <1>10, <1>22, <1>23, <3>1
        <3> QED
            BY <1>36, <3>1, <3>2
    <2>3. ASSUME NEW z \in Libs, obj'[z].nodel, ~Pinning(z)'
          PROVE  (obj[z].nodel /\ ~Pinning(z)) \/ obj'[z].ref >= Base(z)' + 1
        <3>1. obj[z].nodel
            BY <1>22, <1>23, <2>3
        <3>2. CASE z = o
            <4>1. obj[o].ref >= Base(o)
                BY <1>8, <1>9 DEF References
            <4>2. Base(o)' = Base(o)
                BY <1>9, <1>22, <1>23, <1>36, <2>1 DEF Base
            <4>3. Base(o) \in Nat
                BY <1>1, <1>8, <1>9, BaseFacts
            <4> QED
                BY <1>10, <1>22, <1>23, <3>2, <4>1, <4>2, <4>3
        <3>3. CASE z # o
            <4>1. ASSUME NEW j \in 1 .. Len(w), w[j] = z PROVE FALSE
                <5>1. \E i \in 1 .. Len(v) : v[i] = z
                    BY <1>2, <1>3, <1>5, <1>12, <1>14, <3>3, <4>1, TailStays, ZenonT(60)
                <5> QED
                    BY <1>36, <2>3, <5>1
            <4> QED
                BY <1>36, <3>1, <4>1
        <3> QED
            BY <3>2, <3>3
    <2> QED
        BY <1>1, <1>8, <1>24, <1>35, <2>1, <2>2, <2>3, BalancedBy
<1>41. \A c \in stale' : c \in Threads \X Nat /\ c # << t, Depth(t) >> /\ Rec(c).pc \in {"calling", "sort"}
    BY <1>1, <1>3, <1>6, StaleOthers
<1> QED
    BY <1>1, <1>3, <1>6, <1>16, <1>17, <1>18, <1>24, <1>27, <1>28, <1>31, <1>32, <1>33, <1>34, <1>39, <1>40,
       <1>41, LocalChange

\* dlopen pins the library.
LEMMA PinStep == ASSUME IInv, NEW t \in Threads, Pin(t) PROVE IInv'
<1>1. PICK U : Frames(U)
    BY DEF IInv
<1>2. PICK l : l = th[t].root
    OBVIOUS
<1>3. th[t].pc = "opened" /\ lock = t /\ lock' = t
    BY DEF Pin, At
<1>4. th[t] \in CallOf(U) /\ LocalsOK(th[t])
    BY <1>1, <1>3, Mine
<1>5. l \in Libs /\ th[t].phase = "init" /\ th[t].pos = None
    BY <1>2, <1>3, <1>4 DEF LocalsOK
<1>6. objlist' = objlist /\ pending' = pending /\ clients' = clients /\ stale' = stale
    BY DEF Pin
<1>7. handles' = handles /\ dtors' = dtors /\ ops' = ops
    BY <1>6 DEF clients
<1>8. /\ Data /\ Pending /\ Distinct /\ Unlisted /\ Dtors
    BY DEF IInv
<1>9. PICK v : v = << l >>
    OBVIOUS
<1>10. PICK g : g = [th[t] EXCEPT !.pc = "ref", !.work = v]
    OBVIOUS
<1>11. th' = [th EXCEPT ![t] = g]
    BY <1>1, <1>2, <1>9, <1>10 DEF Pin, Frames
<1>12. g \in CallOf(U)
    <2>1. v \in Seq(Libs)
        BY <1>5, <1>9
    <2> QED
        BY <1>4, <1>10, <2>1 DEF CallOf, Labels
<1>13. g.pc = "ref" /\ g.root = l /\ g.phase = "init" /\ g.pos = None /\ g.work = v
    BY <1>2, <1>4, <1>5, <1>10 DEF CallOf
<1>14. PICK e : e = [obj[l] EXCEPT !.znodel = TRUE, !.nodel = TRUE]
    OBVIOUS
<1>15. obj' = [obj EXCEPT ![l] = e]
    BY <1>2, <1>5, <1>8, <1>14 DEF Pin, Data
<1>16. obj[l] \in Entry /\ obj[l].ref \in Nat
    BY <1>5, <1>8 DEF Data, Entry
<1>17. e \in Entry
    BY <1>14, <1>16 DEF Entry
<1>18. /\ e.ref = obj[l].ref /\ e.dlref = obj[l].dlref /\ e.nref = obj[l].nref
       /\ e.closing = obj[l].closing /\ e.cxa = obj[l].cxa
       /\ e.need = obj[l].need /\ e.dagmembers = obj[l].dagmembers /\ e.reloc = obj[l].reloc
    BY <1>14, <1>16 DEF Entry
<1>19. obj' \in [Libs -> Entry] /\ obj'[l] = e /\ \A z \in Libs : z # l => obj'[z] = obj[z]
    BY <1>5, <1>8, <1>15, <1>17, OneObject
<1>20. Data'
    BY <1>3, <1>6, <1>7, <1>8, <1>19 DEF Data
<1>21. \A z \in Libs : /\ Opens(g, z) <=> Opens(th[t], z)
                       /\ Loads(g, z) <=> Loads(th[t], z)
                       /\ Marks(g, z) <=> Marks(th[t], z)
    BY <1>2, <1>3, <1>5, <1>13, ConstantFacts DEF Opens, Loads, Marks
<1>22. Opens(th[t], l) /\ \A z \in Libs : ~Marks(g, z)
    BY <1>2, <1>3, <1>5, <1>13 DEF Opens, Marks
<1>23. obj[l].ref > 0 /\ Listed(l)
    <2>1. obj[l].ref >= 1 /\ Listed(l)
        BY <1>1, <1>5, <1>22, MyCounts
    <2> QED
        BY <1>16, <2>1
<1>24. LocalsOK(g)
    BY <1>5, <1>13 DEF LocalsOK
<1>25. Counted(th[t], g)
    BY <1>7, <1>8, <1>18, <1>19, <1>21, CountedSame
<1>26. RootsKept(g)
    BY <1>16, <1>18, <1>19, <1>22 DEF RootsKept
<1>27. Distinct' /\ Unlisted' /\ Dtors'
    BY <1>6, <1>7, <1>8, <1>18, <1>19, <1>23 DEF Distinct, Unlisted, Dtors, Listed
<1>28. Grows
    BY <1>18, <1>19, <1>23 DEF Grows
<1>29. Pending'
    <2>1. Unrelocated' = Unrelocated
        BY <1>6, <1>18, <1>19 DEF Unrelocated, Listed
    <2> QED
        BY <1>6, <1>8, <2>1 DEF Pending
<1>30. PICK W : Frames(W)'
    BY <1>1, <1>3, <1>6, <1>11, <1>12, LocalDue
<1>31. /\ th'[t] = g
       /\ \A z \in Libs : Due(z) = 0 /\ Due(z)' = 0 /\ ~Pinning(z)
       /\ Pinning(l)'
    <2>1. /\ th'[t] = g
          /\ \A z \in Libs : /\ Due(z) = DueIn(th[t], z) /\ Due(z)' = DueIn(g, z)
                             /\ Pinning(z) <=> PinIn(th[t], z)
                             /\ Pinning(z)' <=> PinIn(g, z)
        BY <1>1, <1>3, <1>6, <1>11, <1>12, LocalDue
    <2>2. PinIn(g, l)
        BY <1>9, <1>13 DEF PinIn
    <2> QED
        BY <1>3, <1>5, <1>13, <2>1, <2>2 DEF DueIn, PinIn
<1>32. Working'
    <2>1. \A i \in 1 .. Len(v) : obj'[v[i]].ref > 0
        BY <1>9, <1>18, <1>19, <1>23
    <2> QED
        BY <1>3, <1>13, <1>31, <2>1, WorkingBy
<1>33. Balanced
    <2>1. \A z \in Libs : Needers(z)' = Needers(z)
        BY <1>18, <1>19, NeedersSame
    <2>2. ASSUME NEW z \in Libs
          PROVE  obj'[z].dlref + One(obj'[z].cxa > 0) + Due(z)' + obj[z].ref
                    <= obj[z].dlref + One(obj[z].cxa > 0) + Due(z) + obj'[z].ref
        <3>1. obj[z].dlref \in Nat /\ obj[z].ref \in Nat /\ One(obj[z].cxa > 0) \in Nat
            BY <1>8 DEF Data, Entry, One
        <3>2. obj'[z].dlref = obj[z].dlref /\ obj'[z].ref = obj[z].ref /\ obj'[z].cxa = obj[z].cxa
            BY <1>18, <1>19
        <3> QED
            BY <1>31, <3>1, <3>2
    <2>3. ASSUME NEW z \in Libs, obj'[z].nodel, ~Pinning(z)' PROVE obj[z].nodel /\ ~Pinning(z)
        BY <1>19, <1>31, <2>3
    <2> QED
        BY <1>1, <1>8, <1>20, <1>30, <2>1, <2>2, <2>3, BalancedBy
<1>34. \A c \in stale' : c \in Threads \X Nat /\ c # << t, Depth(t) >> /\ Rec(c).pc \in {"calling", "sort"}
    BY <1>1, <1>3, <1>6, StaleOthers
<1> QED
    BY <1>1, <1>3, <1>6, <1>11, <1>12, <1>13, <1>20, <1>24, <1>25, <1>26, <1>27, <1>28, <1>29, <1>32, <1>33,
       <1>34, LocalChange

-----------------------------------------------------------------------------
(* References are dropped *)

\* dlopen fails.
LEMMA OpenFailsStep == ASSUME IInv, NEW t \in Threads, OpenFails(t) PROVE IInv'
<1>1. PICK U : Frames(U)
    BY DEF IInv
<1>2. PICK l : l = th[t].root
    OBVIOUS
<1>3. th[t].pc = "fail" /\ lock = t /\ lock' = t
    BY DEF OpenFails, At
<1>4. th[t] \in CallOf(U) /\ LocalsOK(th[t])
    BY <1>1, <1>3, Mine
<1>5. l \in Libs /\ th[t].phase = "init" /\ th[t].pos = None
    BY <1>2, <1>3, <1>4 DEF LocalsOK
<1>6. objlist' = objlist /\ pending' = pending /\ clients' = clients /\ stale' = stale
    BY DEF OpenFails
<1>7. handles' = handles /\ dtors' = dtors /\ ops' = ops
    BY <1>6 DEF clients
<1>8. /\ Data /\ Pending /\ Distinct /\ Unlisted /\ Dtors /\ References /\ Members
    BY DEF IInv
<1>9. PICK v : v = << l >>
    OBVIOUS
<1>10. PICK g : g = [th[t] EXCEPT !.pc = "unref", !.work = v, !.phase = "failed"]
    OBVIOUS
<1>11. th' = [th EXCEPT ![t] = g]
    BY <1>1, <1>2, <1>9, <1>10 DEF OpenFails, Frames
<1>12. g \in CallOf(U)
    <2>1. v \in Seq(Libs)
        BY <1>5, <1>9
    <2> QED
        BY <1>4, <1>10, <2>1 DEF CallOf, Labels
<1>13. g.pc = "unref" /\ g.root = l /\ g.phase = "failed" /\ g.pos = None /\ g.work = v
    BY <1>2, <1>4, <1>5, <1>10 DEF CallOf
<1>14. PICK e : e = [obj[l] EXCEPT !.dlref = obj[l].dlref - 1]
    OBVIOUS
<1>15. obj' = [obj EXCEPT ![l] = e]
    BY <1>2, <1>5, <1>8, <1>14 DEF OpenFails, Data
<1>16. obj[l] \in Entry /\ obj[l].ref \in Nat /\ obj[l].dlref \in Nat
    BY <1>5, <1>8 DEF Data, Entry
<1>17. Opens(th[t], l)
    BY <1>2, <1>3, <1>5 DEF Opens
<1>18. obj[l].dlref >= 1 /\ obj[l].ref >= 1 /\ Listed(l)
    BY <1>1, <1>5, <1>17, MyCounts
<1>19. e \in Entry
    <2>1. obj[l].dlref - 1 \in Nat
        BY <1>16, <1>18
    <2> QED
        BY <1>14, <1>16, <2>1 DEF Entry
<1>20. /\ e.ref = obj[l].ref /\ e.dlref = obj[l].dlref - 1 /\ e.nref = obj[l].nref
       /\ e.closing = obj[l].closing /\ e.cxa = obj[l].cxa /\ e.nodel = obj[l].nodel
       /\ e.need = obj[l].need /\ e.dagmembers = obj[l].dagmembers /\ e.reloc = obj[l].reloc
    BY <1>14, <1>16 DEF Entry
<1>21. obj' \in [Libs -> Entry] /\ obj'[l] = e /\ \A z \in Libs : z # l => obj'[z] = obj[z]
    BY <1>5, <1>8, <1>15, <1>19, OneObject
<1>22. Data'
    BY <1>3, <1>6, <1>7, <1>8, <1>21 DEF Data
<1>23. \A z \in Libs : /\ Opens(th[t], z) <=> z = l
                       /\ ~Opens(g, z)
                       /\ ~Loads(g, z) /\ ~Loads(th[t], z)
                       /\ ~Marks(g, z) /\ ~Marks(th[t], z)
    BY <1>2, <1>3, <1>5, <1>13 DEF Opens, Loads, Marks
<1>24. LocalsOK(g)
    BY <1>5, <1>13 DEF LocalsOK
<1>25. Counted(th[t], g)
    <2>1. ASSUME NEW z \in Libs
          PROVE  obj'[z].dlref + handles[z] + One(Opens(th[t], z)) = obj[z].dlref + handles'[z] + One(Opens(g, z))
        <3>1. One(Opens(g, z)) = 0 /\ One(Opens(th[t], z)) = IF z = l THEN 1 ELSE 0
            BY <1>23 DEF One
        <3>2. obj[z].dlref \in Nat /\ handles[z] \in Nat
            BY <1>8 DEF Data, Entry
        <3>3. obj'[z].dlref = IF z = l THEN obj[z].dlref - 1 ELSE obj[z].dlref
            BY <1>20, <1>21
        <3> QED
            BY <1>7, <3>1, <3>2, <3>3
    <2>2. \A z \in Libs : /\ obj'[z].nref = obj[z].nref /\ obj'[z].closing = obj[z].closing
                          /\ Loads(g, z) <=> Loads(th[t], z)
                          /\ Marks(g, z) <=> Marks(th[t], z)
        BY <1>20, <1>21, <1>23
    <2> QED
        BY <2>1, <2>2, CountedOpens
<1>26. RootsKept(g)
    BY <1>20, <1>21, <1>23 DEF RootsKept
<1>27. Distinct' /\ Unlisted' /\ Dtors'
    BY <1>6, <1>7, <1>8, <1>18, <1>20, <1>21 DEF Distinct, Unlisted, Dtors, Listed
<1>28. Grows
    BY <1>16, <1>18, <1>20, <1>21 DEF Grows
<1>29. Pending'
    <2>1. Unrelocated' = Unrelocated
        BY <1>6, <1>20, <1>21 DEF Unrelocated, Listed
    <2> QED
        BY <1>6, <1>8, <2>1 DEF Pending
<1>30. PICK W : Frames(W)'
    BY <1>1, <1>3, <1>6, <1>11, <1>12, LocalDue
<1>31. /\ th'[t] = g
       /\ \A z \in Libs : Due(z) = 0 /\ Due(z)' = (IF z = l THEN 1 ELSE 0) /\ ~Pinning(z)
    <2>1. /\ th'[t] = g
          /\ \A z \in Libs : /\ Due(z) = DueIn(th[t], z) /\ Due(z)' = DueIn(g, z)
                             /\ Pinning(z) <=> PinIn(th[t], z)
        BY <1>1, <1>3, <1>6, <1>11, <1>12, LocalDue
    <2>2. \A z \in Libs : Occurs(v, z) = IF z = l THEN 1 ELSE 0
        BY <1>5, <1>9, OccursShort
    <2> QED
        BY <1>3, <1>13, <2>1, <2>2 DEF DueIn, PinIn
<1>32. Working'
    <2>1. \A m \in obj[l].dagmembers : Listed(m)
        <3>1. l \in Live
            BY <1>5, <1>16, <1>18 DEF Live
        <3>2. \A m \in obj[l].dagmembers : m \in Live
            BY <1>1, <1>8, <3>1, ReachLive DEF Members
        <3> QED
            BY <1>1, <3>2, MyCounts DEF Live
    <2>2. Listed(l)' /\ \A m \in obj'[l].dagmembers : Listed(m)'
        BY <1>6, <1>18, <1>20, <1>21, <2>1 DEF Listed
    <2> QED
        BY <1>3, <1>13, <1>31, <2>2, WorkingBy
<1>33. Balanced
    <2>1. \A z \in Libs : Needers(z)' = Needers(z)
        BY <1>20, <1>21, NeedersSame
    <2>2. ASSUME NEW z \in Libs
          PROVE  obj'[z].dlref + One(obj'[z].cxa > 0) + Due(z)' + obj[z].ref
                    <= obj[z].dlref + One(obj[z].cxa > 0) + Due(z) + obj'[z].ref
        <3>1. obj[z].dlref \in Nat /\ obj[z].ref \in Nat /\ One(obj[z].cxa > 0) \in Nat
            BY <1>8 DEF Data, Entry, One
        <3>2. /\ obj'[z].dlref = IF z = l THEN obj[z].dlref - 1 ELSE obj[z].dlref
              /\ obj'[z].ref = obj[z].ref /\ obj'[z].cxa = obj[z].cxa
            BY <1>20, <1>21
        <3> QED
            BY <1>31, <3>1, <3>2
    <2>3. \A z \in Libs : obj'[z].nodel = obj[z].nodel
        BY <1>20, <1>21
    <2> QED
        BY <1>1, <1>8, <1>22, <1>30, <1>31, <2>1, <2>2, <2>3, BalancedBy
<1>34. \A c \in stale' : c \in Threads \X Nat /\ c # << t, Depth(t) >> /\ Rec(c).pc \in {"calling", "sort"}
    BY <1>1, <1>3, <1>6, StaleOthers
<1> QED
    BY <1>1, <1>3, <1>6, <1>11, <1>12, <1>13, <1>22, <1>24, <1>25, <1>26, <1>27, <1>28, <1>29, <1>32, <1>33,
       <1>34, LocalChange

\* A visit of _rtld_unref_dag.  An object that loses its last reference no longer
\* counts where its DT_NEEDED entries lead: there the recursion has one to drop.
LEMMA UnrefStep == ASSUME IInv, NEW t \in Threads, Unref(t) PROVE IInv'
<1>1. PICK U : Frames(U)
    BY DEF IInv
<1>2. PICK o, w : w = th[t].work /\ o = Head(w)
    OBVIOUS
<1>3. th[t].pc = "unref" /\ lock = t /\ lock' = t /\ w # << >>
    BY <1>2 DEF Unref, At
<1>4. th[t] \in CallOf(U) /\ LocalsOK(th[t])
    BY <1>1, <1>3, Mine
<1>5. th[t].root \in Libs /\ th[t].phase # "init" /\ th[t].pos = None /\ w \in Seq(Libs)
    BY <1>2, <1>3, <1>4 DEF LocalsOK, CallOf
<1>6. objlist' = objlist /\ pending' = pending /\ clients' = clients /\ stale' = stale
    BY DEF Unref
<1>7. handles' = handles /\ dtors' = dtors /\ ops' = ops
    BY <1>6 DEF clients
<1>8. /\ Data /\ Pending /\ Distinct /\ Unlisted /\ Dtors /\ References /\ Working
    BY DEF IInv
<1>9. o \in Libs /\ o = w[1] /\ 1 \in 1 .. Len(w)
    BY <1>2, <1>3, <1>5, <1>8, OccursReplace
<1>10. obj[o].need \subseteq Libs /\ obj[o] \in Entry /\ obj[o].ref \in Nat
    BY <1>8, <1>9 DEF Data, Entry
<1>11. PICK x : x = IF obj[o].ref = 1 THEN Needed(o) ELSE << >>
    OBVIOUS
<1>12. /\ x \in Seq(Libs) /\ \A i \in 1 .. Len(x) : x[i] \in obj[o].need
       /\ \A i, j \in 1 .. Len(x) : x[i] = x[j] => i = j
    BY <1>9, <1>10, <1>11, NeededFacts
<1>13. PICK v : v = x \o Tail(w)
    OBVIOUS
<1>14. v \in Seq(Libs)
    BY <1>3, <1>5, <1>12, <1>13, OccursReplace
<1>15. PICK g : g = [th[t] EXCEPT !.work = v]
    OBVIOUS
<1>16. th' = [th EXCEPT ![t] = g]
    <2>1. th' = [th EXCEPT ![t].work = (IF obj[o].ref = 1 THEN Needed(o) ELSE << >>) \o Tail(w)]
        BY <1>1, <1>2 DEF Unref, Frames
    <2> QED
        BY <1>1, <1>11, <1>13, <1>15, <2>1 DEF Frames
<1>17. g \in CallOf(U)
    BY <1>4, <1>14, <1>15 DEF CallOf
<1>18. g.pc = "unref" /\ g.root = th[t].root /\ g.phase = th[t].phase /\ g.pos = th[t].pos /\ g.work = v
    BY <1>3, <1>4, <1>15 DEF CallOf
<1>19. PICK W : Frames(W)'
    BY <1>1, <1>3, <1>6, <1>16, <1>17, LocalDue
<1>20. /\ th'[t] = g
       /\ \A z \in Libs : /\ Due(z) = Occurs(w, z) /\ Due(z)' = Occurs(v, z) /\ ~Pinning(z)
    <2>1. /\ th'[t] = g
          /\ \A z \in Libs : /\ Due(z) = DueIn(th[t], z) /\ Due(z)' = DueIn(g, z)
                             /\ Pinning(z) <=> PinIn(th[t], z)
        BY <1>1, <1>3, <1>6, <1>16, <1>17, LocalDue
    <2> QED
        BY <1>2, <1>3, <1>18, <2>1 DEF DueIn, PinIn
<1>21. obj[o].ref >= 1
    <2>1. Occurs(w, o) >= 1
        BY <1>5, <1>9, OccursSome
    <2>2. Base(o) \in Nat /\ Base(o) >= Due(o) /\ Due(o) \in Nat
        BY <1>1, <1>8, <1>9, BaseFacts, DueFacts
    <2>3. obj[o].ref >= Base(o)
        BY <1>8, <1>9 DEF References
    <2> QED
        BY <1>9, <1>10, <1>20, <2>1, <2>2, <2>3
<1>22. Listed(o)
    BY <1>8, <1>9, <1>21 DEF Unlisted
<1>23. PICK e : e = [obj[o] EXCEPT !.ref = obj[o].ref - 1]
    OBVIOUS
<1>24. obj' = [obj EXCEPT ![o] = e]
    BY <1>2, <1>8, <1>9, <1>23 DEF Unref, Data
<1>25. e \in Entry
    <2>1. obj[o].ref - 1 \in Nat
        BY <1>10, <1>21
    <2> QED
        BY <1>10, <1>23, <2>1 DEF Entry
<1>26. /\ e.ref = obj[o].ref - 1 /\ e.dlref = obj[o].dlref /\ e.nref = obj[o].nref
       /\ e.closing = obj[o].closing /\ e.cxa = obj[o].cxa /\ e.nodel = obj[o].nodel
       /\ e.need = obj[o].need /\ e.dagmembers = obj[o].dagmembers /\ e.reloc = obj[o].reloc
    BY <1>10, <1>23 DEF Entry
<1>27. obj' \in [Libs -> Entry] /\ obj'[o] = e /\ \A z \in Libs : z # o => obj'[z] = obj[z]
    BY <1>8, <1>9, <1>24, <1>25, OneObject
<1>28. Data'
    BY <1>3, <1>6, <1>7, <1>8, <1>27 DEF Data
<1>29. \A z \in Libs : /\ Opens(g, z) <=> Opens(th[t], z)
                       /\ Loads(g, z) <=> Loads(th[t], z)
                       /\ Marks(g, z) <=> Marks(th[t], z)
    BY <1>3, <1>18 DEF Opens, Loads, Marks
<1>30. \A z \in Libs : ~Marks(g, z)
    BY <1>18 DEF Marks
<1>31. LocalsOK(g)
    BY <1>3, <1>4, <1>18 DEF LocalsOK
<1>32. Counted(th[t], g)
    BY <1>7, <1>8, <1>26, <1>27, <1>29, CountedSame
<1>33. RootsKept(g)
    BY <1>21, <1>27, <1>30 DEF RootsKept
<1>34. Distinct' /\ Unlisted' /\ Dtors'
    BY <1>6, <1>7, <1>8, <1>22, <1>26, <1>27 DEF Distinct, Unlisted, Dtors, Listed
<1>35. ASSUME NEW z \in Libs
       PROVE  /\ obj'[z].need = obj[z].need /\ obj'[z].dagmembers = obj[z].dagmembers
              /\ obj'[z].ref > 0 => obj[z].ref > 0
    BY <1>10, <1>21, <1>26, <1>27
<1>36. Grows
    BY <1>35 DEF Grows
<1>37. Pending'
    <2>1. Unrelocated' = Unrelocated
        BY <1>6, <1>26, <1>27 DEF Unrelocated, Listed
    <2> QED
        BY <1>6, <1>8, <2>1 DEF Pending
<1>38. Working'
    <2>1. Listed(g.root) /\ \A m \in obj[g.root].dagmembers : Listed(m)
        BY <1>3, <1>8, <1>18 DEF Working
    <2>2. Listed(g.root)' /\ \A m \in obj'[g.root].dagmembers : Listed(m)'
        BY <1>5, <1>6, <1>18, <1>35, <2>1 DEF Listed
    <2> QED
        BY <1>3, <1>18, <1>20, <2>2, WorkingBy
<1>39. ASSUME NEW z \in Libs
       PROVE  Cardinality(Needers(z)') + Occurs(x, z) <= Cardinality(Needers(z))
    <2>1. Needers(z) \in SUBSET Libs
        BY DEF Needers
    <2>2. Occurs(x, z) = IF \E i \in 1 .. Len(x) : x[i] = z THEN 1 ELSE 0
        BY <1>12, OccursOnce
    <2>3. CASE \E i \in 1 .. Len(x) : x[i] = z
        <3>1. obj[o].ref = 1
            BY <1>11, <2>3
        <3>2. z \in obj[o].need
            BY <1>12, <2>3
        <3>3. o \in Needers(z)
            BY <1>9, <1>10, <1>21, <3>2 DEF Needers
        <3>4. Needers(z)' = Needers(z) \ {o}
            <4>1. ASSUME NEW m \in Libs
                  PROVE  m \in Needers(z)' <=> m \in Needers(z) /\ m # o
                <5>1. CASE m = o
                    BY <1>26, <1>27, <3>1, <5>1 DEF Needers
                <5>2. CASE m # o
                    BY <1>27, <5>2 DEF Needers
                <5> QED
                    BY <5>1, <5>2
            <4>2. Needers(z)' \in SUBSET Libs
                BY DEF Needers
            <4> QED
                BY <2>1, <4>1, <4>2
        <3>5. /\ Cardinality(Needers(z)) \in Nat
              /\ Cardinality(Needers(z) \ {o}) = Cardinality(Needers(z)) - 1
            BY <2>1, <3>3, LibSets
        <3> QED
            BY <2>2, <2>3, <3>4, <3>5
    <2>4. CASE ~\E i \in 1 .. Len(x) : x[i] = z
        <3>1. Needers(z)' \in SUBSET Needers(z)
            BY <1>35 DEF Needers
        <3>2. /\ Cardinality(Needers(z)) \in Nat /\ Cardinality(Needers(z)') \in Nat
              /\ Cardinality(Needers(z)') <= Cardinality(Needers(z))
            BY <2>1, <3>1, LibSets
        <3> QED
            BY <2>2, <2>4, <3>2
    <2> QED
        BY <2>3, <2>4
<1>40. Balanced
    <2>1. ASSUME NEW z \in Libs PROVE Base(z)' + obj[z].ref <= Base(z) + obj'[z].ref
        <3>1. /\ Base(z) = obj[z].dlref + One(obj[z].cxa > 0) + Cardinality(Needers(z)) + Due(z)
              /\ Base(z)' = obj'[z].dlref + One(obj'[z].cxa > 0) + Cardinality(Needers(z)') + Due(z)'
              /\ Cardinality(Needers(z)) \in Nat /\ Cardinality(Needers(z)') \in Nat
              /\ One(obj[z].cxa > 0) \in Nat /\ obj[z].ref \in Nat /\ obj[z].dlref \in Nat
            BY <1>1, <1>8, <1>19, <1>28, BaseParts
        <3>2. /\ Occurs(w, z) \in Nat /\ Occurs(x, z) \in Nat /\ Occurs(v, z) \in Nat
              /\ Occurs(v, z) + (IF o = z THEN 1 ELSE 0) = Occurs(w, z) + Occurs(x, z)
            <4>1. /\ Occurs(w, z) \in Nat /\ Occurs(x, z) \in Nat /\ Occurs(x \o Tail(w), z) \in Nat
                  /\ Occurs(x \o Tail(w), z) + (IF Head(w) = z THEN 1 ELSE 0) = Occurs(w, z) + Occurs(x, z)
                BY <1>3, <1>5, <1>12, OccursReplace
            <4> QED
                BY <1>2, <1>13, <4>1
        <3>3. /\ obj'[z].dlref = obj[z].dlref /\ obj'[z].cxa = obj[z].cxa
              /\ obj'[z].ref = IF o = z THEN obj[z].ref - 1 ELSE obj[z].ref
            BY <1>26, <1>27
        <3>4. PICK c \in Nat : c = One(obj[z].cxa > 0)
            BY <3>1
        <3>5. /\ Base(z) = obj[z].dlref + c + Cardinality(Needers(z)) + Occurs(w, z)
              /\ Base(z)' = obj[z].dlref + c + Cardinality(Needers(z)') + Occurs(v, z)
            <4>1. One(obj'[z].cxa > 0) = c
                BY <3>3, <3>4
            <4> QED
                BY <1>20, <3>1, <3>3, <3>4, <4>1
        <3>6. CASE o = z
            BY <1>39, <3>1, <3>2, <3>3, <3>5, <3>6
        <3>7. CASE o # z
            BY <1>39, <3>1, <3>2, <3>3, <3>5, <3>7
        <3> QED
            BY <3>6, <3>7
    <2>2. \A z \in Libs : obj'[z].nodel = obj[z].nodel
        BY <1>26, <1>27
    <2> QED
        BY <1>20, <2>1, <2>2 DEF Balanced
<1>41. \A c \in stale' : c \in Threads \X Nat /\ c # << t, Depth(t) >> /\ Rec(c).pc \in {"calling", "sort"}
    BY <1>1, <1>3, <1>6, StaleOthers
<1> QED
    BY <1>1, <1>3, <1>6, <1>16, <1>17, <1>18, <1>28, <1>31, <1>32, <1>33, <1>34, <1>36, <1>37, <1>38, <1>40,
       <1>41, LocalChange

\* An unreferenced object is freed.
LEMMA FreeStep == ASSUME IInv, NEW t \in Threads, Free(t) PROVE IInv'
<1>1. PICK U : Frames(U)
    BY DEF IInv
<1>2. PICK l : l = FirstGarbage
    OBVIOUS
<1>3. th[t].pc = "gc" /\ lock = t /\ lock' = t /\ Garbage # {} /\ obj[l].nref = 0
    BY <1>2 DEF Free, At
<1>4. th[t] \in CallOf(U) /\ LocalsOK(th[t])
    BY <1>1, <1>3, Mine
<1>5. /\ Data /\ Pending /\ Distinct /\ Unlisted /\ Dtors /\ References
    BY DEF IInv
<1>6. /\ FirstPlace \in DOMAIN objlist /\ l \in Libs /\ l = objlist[FirstPlace] /\ Listed(l)
      /\ obj[l].ref = 0 /\ obj[l].closing = 0
    BY <1>2, <1>3, <1>5, GarbageFacts DEF Data
<1>7. /\ objlist' = RemoveAt(objlist, FirstPlace) /\ obj' = [obj EXCEPT ![l] = Fresh(l)]
      /\ pending' = pending /\ clients' = clients /\ stale' = stale /\ th' = th
    BY <1>2 DEF Free
<1>8. handles' = handles /\ dtors' = dtors /\ ops' = ops
    BY <1>7 DEF clients
<1>9. th' = [th EXCEPT ![t] = th[t]]
    BY <1>1, <1>7 DEF Frames
<1>10. PICK W : Frames(W)'
    BY <1>1, <1>3, <1>4, <1>7, <1>9, LocalDue
<1>11. /\ th'[t] = th[t]
       /\ \A z \in Libs : Due(z) = 0 /\ Due(z)' = 0 /\ ~Pinning(z)
    <2>1. /\ th'[t] = th[t]
          /\ \A z \in Libs : /\ Due(z) = DueIn(th[t], z) /\ Due(z)' = DueIn(th[t], z)
                             /\ Pinning(z) <=> PinIn(th[t], z)
        BY <1>1, <1>3, <1>4, <1>7, <1>9, LocalDue
    <2> QED
        BY <1>3, <2>1 DEF DueIn, PinIn
<1>12. obj[l].dlref = 0 /\ obj[l].cxa = 0 /\ ~obj[l].nodel
    <2>1. Base(l) \in Nat /\ Base(l) >= obj[l].dlref /\ obj[l].dlref \in Nat /\ obj[l].cxa \in Nat
        BY <1>1, <1>5, <1>6, BaseFacts
    <2>2. obj[l].ref >= Base(l) /\ (obj[l].nodel => obj[l].ref >= Base(l) + 1)
        BY <1>5, <1>6, <1>11 DEF References
    <2>3. obj[l].dlref = 0 /\ Base(l) = 0 /\ ~obj[l].nodel
        BY <1>6, <2>1, <2>2
    <2>4. ASSUME obj[l].cxa > 0 PROVE FALSE
        <3>1. Cardinality(Needers(l)) \in Nat
            BY <1>1, <1>5, <1>6, BaseFacts
        <3>2. Base(l) = obj[l].dlref + 1 + Cardinality(Needers(l)) + 0
            BY <1>6, <1>11, <2>4 DEF Base
        <3> QED
            BY <2>3, <3>1, <3>2
    <2> QED
        BY <2>1, <2>3, <2>4
<1>13. Fresh(l) \in Entry
    <2>1. FnCount[l] \in [Kinds -> Nat] /\ (l \in NoDelete) \in BOOLEAN /\ SizeMax \in Nat
        BY <1>6, ObjectsAssumption
    <2>2. "notyet" \in RelocStates
        BY DEF RelocStates
    <2>3. 0 \in 0 .. SizeMax
        BY <2>1
    <2> QED
        BY <2>1, <2>2, <2>3 DEF Entry, Fresh
<1>14. PICK e : e = Fresh(l)
    OBVIOUS
<1>15. /\ e.ref = 0 /\ e.dlref = 0 /\ e.nref = 0 /\ e.closing = 0 /\ e.cxa = 0 /\ ~e.nodel
       /\ e.need = {} /\ e.dagmembers = {}
    BY <1>14 DEF Fresh
<1>16. obj' \in [Libs -> Entry] /\ obj'[l] = e /\ \A z \in Libs : z # l => obj'[z] = obj[z]
    BY <1>5, <1>6, <1>7, <1>13, <1>14, OneObject
<1>17. objlist' \in Seq(Libs) /\ Distinct' /\ \A m \in Libs : Listed(m)' <=> Listed(m) /\ m # l
    BY <1>5, <1>6, <1>7, ListRemove DEF Data
<1>18. Data'
    BY <1>3, <1>5, <1>7, <1>8, <1>16, <1>17 DEF Data
<1>19. Counted(th[t], th[t])
    BY <1>3, <1>5, <1>6, <1>8, <1>12, <1>15, <1>16, CountedSame
<1>20. RootsKept(th[t])
    BY <1>3, <1>6, <1>16 DEF RootsKept, Marks
<1>21. Unlisted' /\ Dtors'
    BY <1>5, <1>8, <1>12, <1>15, <1>16, <1>17 DEF Unlisted, Dtors
<1>22. Grows
    BY <1>6, <1>15, <1>16 DEF Grows
<1>23. Pending'
    <2>1. Unrelocated' \in SUBSET Unrelocated /\ Unrelocated \in SUBSET Libs
        BY <1>16, <1>17 DEF Unrelocated
    <2>2. /\ Cardinality(Unrelocated') \in Nat /\ Cardinality(Unrelocated) \in Nat
          /\ Cardinality(Unrelocated') <= Cardinality(Unrelocated)
        BY <2>1, LibSets
    <2>3. pending \in Nat /\ pending >= Cardinality(Unrelocated)
        BY <1>5 DEF Data, Pending
    <2> QED
        BY <1>7, <2>2, <2>3 DEF Pending
<1>24. Working'
    BY <1>3, <1>11, WorkingBy
<1>25. Balanced
    <2>1. \A z \in Libs : Needers(z)' = Needers(z)
        BY <1>6, <1>15, <1>16 DEF Needers
    <2>2. ASSUME NEW z \in Libs
          PROVE  obj'[z].dlref + One(obj'[z].cxa > 0) + Due(z)' + obj[z].ref
                    <= obj[z].dlref + One(obj[z].cxa > 0) + Due(z) + obj'[z].ref
        <3>1. obj[z].dlref \in Nat /\ obj[z].ref \in Nat /\ One(obj[z].cxa > 0) \in Nat
            BY <1>5 DEF Data, Entry, One
        <3>2. obj'[z].dlref = obj[z].dlref /\ obj'[z].ref = obj[z].ref /\ obj'[z].cxa = obj[z].cxa
            BY <1>6, <1>12, <1>15, <1>16
        <3> QED
            BY <1>11, <3>1, <3>2
    <2>3. \A z \in Libs : obj'[z].nodel => obj[z].nodel
        BY <1>15, <1>16
    <2> QED
        BY <1>1, <1>5, <1>10, <1>11, <1>18, <2>1, <2>2, <2>3, BalancedBy
<1>26. \A c \in stale' : c \in Threads \X Nat /\ c # << t, Depth(t) >> /\ Rec(c).pc \in {"calling", "sort"}
    BY <1>1, <1>3, <1>7, StaleOthers
<1> QED
    BY <1>1, <1>3, <1>4, <1>7, <1>9, <1>17, <1>18, <1>19, <1>20, <1>21, <1>22, <1>23, <1>24, <1>25, <1>26,
       LocalChange

\* dlclose is called.  The handle is counted, so the call is not refused.
LEMMA DlcloseStep == ASSUME IInv, NEW t \in Threads, NEW l \in Libs, Dlclose(t, l) PROVE IInv'
<1>1. PICK U : Frames(U)
    BY DEF IInv
<1>2. Data /\ Stacks /\ Pending /\ StaleOK /\ Distinct /\ Unlisted /\ Dtors /\ References /\ Members
    BY DEF IInv
<1>3. InCode(t) /\ ops[t] > 0 /\ handles[l] > 0
    BY DEF Dlclose
<1>4. obj[l] \in Entry /\ obj[l].ref \in Nat /\ obj[l].dlref \in Nat /\ handles[l] \in Nat
    BY <1>2 DEF Data, Entry
<1>5. obj[l].dlref >= 1 /\ obj[l].ref >= 1 /\ Listed(l)
    BY <1>1, <1>3, MyCounts
<1>6. PICK g : g = Unloading(l)
    OBVIOUS
<1>7. /\ handles' = [handles EXCEPT ![l] = @ - 1] /\ ops' = [ops EXCEPT ![t] = @ - 1]
      /\ obj' = [obj EXCEPT ![l].dlref = @ - 1] /\ Enter(t, g)
      /\ objlist' = objlist /\ pending' = pending /\ stale' = stale /\ dtors' = dtors
    BY <1>4, <1>5, <1>6 DEF Dlclose
<1>8. g \in CallOf({<< >>})
    <2>1. Idle \in CallOf({<< >>}) /\ << l >> \in Seq(Libs)
        BY IdleFacts
    <2> QED
        BY <1>6, <2>1 DEF CallOf, Labels, Unloading
<1>9. g.pc = "unref" /\ g.root = l /\ g.pos = None /\ g.phase = "fini" /\ g.work = << l >>
    BY <1>6 DEF Idle, Unloading
<1>10. PICK W : Frames(W)'
    BY <1>1, <1>2, <1>3, <1>7, <1>8, <1>9, EnterStep
<1>11. PICK me \in Threads \X Nat : me = << t, Depth(t) + 1 >> /\ Moves(me, Idle, g)
    BY <1>1, <1>2, <1>3, <1>7, <1>8, <1>9, EnterStep
<1>12. Stacks'
    BY <1>1, <1>2, <1>3, <1>7, <1>8, <1>9, EnterStep
<1>13. lock = None /\ lock' = t /\ th' = [th EXCEPT ![t] = g]
    BY <1>3, <1>7 DEF InCode, Enter
<1>14. th'[t] = g
    BY <1>1, <1>13 DEF Frames
<1>15. ops' \in [Threads -> Nat] /\ \A u \in Threads : ops'[u] <= MaxOps[u]
    <2>1. MaxOps \in [Threads -> Nat] /\ ops \in [Threads -> Nat] /\ \A u \in Threads : ops[u] <= MaxOps[u]
        BY <1>2, ObjectsAssumption DEF Data
    <2> QED
        BY <1>3, <1>7, <2>1
<1>16. /\ handles' \in [Libs -> Nat] /\ handles'[l] = handles[l] - 1
       /\ \A z \in Libs : z # l => handles'[z] = handles[z]
    <2>1. handles[l] - 1 \in Nat /\ handles \in [Libs -> Nat]
        BY <1>2, <1>3, <1>4 DEF Data
    <2> QED
        BY <1>7, <2>1
<1>17. PICK e : e = [obj[l] EXCEPT !.dlref = obj[l].dlref - 1]
    OBVIOUS
<1>18. obj' = [obj EXCEPT ![l] = e]
    BY <1>2, <1>7, <1>17 DEF Data
<1>19. e \in Entry
    <2>1. obj[l].dlref - 1 \in Nat
        BY <1>4, <1>5
    <2> QED
        BY <1>4, <1>17, <2>1 DEF Entry
<1>20. /\ e.ref = obj[l].ref /\ e.dlref = obj[l].dlref - 1 /\ e.nref = obj[l].nref
       /\ e.closing = obj[l].closing /\ e.cxa = obj[l].cxa /\ e.nodel = obj[l].nodel
       /\ e.need = obj[l].need /\ e.dagmembers = obj[l].dagmembers /\ e.reloc = obj[l].reloc
    BY <1>4, <1>17 DEF Entry
<1>21. obj' \in [Libs -> Entry] /\ obj'[l] = e /\ \A z \in Libs : z # l => obj'[z] = obj[z]
    BY <1>2, <1>18, <1>19, OneObject
<1>22. Data'
    BY <1>2, <1>7, <1>13, <1>15, <1>16, <1>21 DEF Data
<1>23. \A z \in Libs : /\ ~Opens(g, z) /\ ~Loads(g, z) /\ ~Marks(g, z)
                       /\ ~Opens(Idle, z) /\ ~Loads(Idle, z) /\ ~Marks(Idle, z)
    BY <1>9, IdleFacts DEF Opens, Loads, Marks
<1>24. LocalsOK(g)
    BY <1>9 DEF LocalsOK
<1>25. Counted(Idle, g)
    <2>1. ASSUME NEW z \in Libs
          PROVE  obj'[z].dlref + handles[z] + One(Opens(Idle, z)) = obj[z].dlref + handles'[z] + One(Opens(g, z))
        <3>1. One(Opens(g, z)) = 0 /\ One(Opens(Idle, z)) = 0
            BY <1>23 DEF One
        <3>2. obj[z].dlref \in Nat /\ handles[z] \in Nat
            BY <1>2 DEF Data, Entry
        <3>3. CASE z = l
            BY <1>16, <1>20, <1>21, <3>1, <3>2, <3>3
        <3>4. CASE z # l
            BY <1>16, <1>21, <3>1, <3>2, <3>4
        <3> QED
            BY <3>3, <3>4
    <2>2. \A z \in Libs : /\ obj'[z].nref = obj[z].nref /\ obj'[z].closing = obj[z].closing
                          /\ Loads(g, z) <=> Loads(Idle, z)
                          /\ Marks(g, z) <=> Marks(Idle, z)
        BY <1>20, <1>21, <1>23
    <2> QED
        BY <2>1, <2>2, CountedOpens
<1>26. StaleKept(me, g)
    <2>1. Depth(t) \in Nat /\ (me \in Calls <=> Depth(t) + 1 <= Depth(t))
        BY <1>1, <1>11, CallsFacts
    <2>2. me \notin stale
        BY <1>2, <2>1 DEF StaleOK
    <2> QED
        BY <1>1, <1>2, <1>7, <2>2, ByRec DEF StaleKept
<1>27. RootsKept(g)
    BY <1>20, <1>21, <1>23 DEF RootsKept
<1>28. Distinct' /\ Unlisted' /\ Dtors'
    BY <1>2, <1>5, <1>7, <1>20, <1>21 DEF Distinct, Unlisted, Dtors, Listed
<1>29. Grows
    BY <1>4, <1>5, <1>20, <1>21 DEF Grows
<1>30. Pending'
    <2>1. Unrelocated' = Unrelocated
        BY <1>7, <1>20, <1>21 DEF Unrelocated, Listed
    <2> QED
        BY <1>2, <1>7, <2>1 DEF Pending
<1>31. \A z \in Libs : Due(z) = 0 /\ ~Pinning(z)
    BY <1>1, <1>13, DueFacts
<1>32. \A z \in Libs : Due(z)' = IF z = l THEN 1 ELSE 0
    <2>1. \A z \in Libs : Due(z)' = DueIn(g, z)
        BY <1>10, <1>13, <1>14, DueFactsPrime
    <2>2. \A z \in Libs : Occurs(<< l >>, z) = IF z = l THEN 1 ELSE 0
        BY OccursShort
    <2> QED
        BY <1>9, <2>1, <2>2 DEF DueIn
<1>33. Working'
    <2>1. \A m \in obj[l].dagmembers : Listed(m)
        <3>1. l \in Live
            BY <1>4, <1>5 DEF Live
        <3>2. \A m \in obj[l].dagmembers : m \in Live
            BY <1>1, <1>2, <3>1, ReachLive DEF Members
        <3> QED
            BY <1>1, <3>2, MyCounts DEF Live
    <2>2. Listed(l)' /\ \A m \in obj'[l].dagmembers : Listed(m)'
        BY <1>5, <1>7, <1>20, <1>21, <2>1 DEF Listed
    <2> QED
        BY <1>9, <1>13, <1>14, <2>2, WorkingBy
<1>34. Balanced
    <2>1. \A z \in Libs : Needers(z)' = Needers(z)
        BY <1>20, <1>21, NeedersSame
    <2>2. ASSUME NEW z \in Libs
          PROVE  obj'[z].dlref + One(obj'[z].cxa > 0) + Due(z)' + obj[z].ref
                    <= obj[z].dlref + One(obj[z].cxa > 0) + Due(z) + obj'[z].ref
        <3>1. obj[z].dlref \in Nat /\ obj[z].ref \in Nat /\ One(obj[z].cxa > 0) \in Nat
            BY <1>2 DEF Data, Entry, One
        <3>2. /\ obj'[z].dlref = IF z = l THEN obj[z].dlref - 1 ELSE obj[z].dlref
              /\ obj'[z].ref = obj[z].ref /\ obj'[z].cxa = obj[z].cxa
            BY <1>20, <1>21
        <3> QED
            BY <1>31, <1>32, <3>1, <3>2
    <2>3. \A z \in Libs : obj'[z].nodel = obj[z].nodel
        BY <1>20, <1>21
    <2> QED
        BY <1>1, <1>2, <1>10, <1>22, <1>31, <2>1, <2>2, <2>3, BalancedBy
<1> QED
    BY <1>1, <1>10, <1>11, <1>12, <1>22, <1>24, <1>25, <1>26, <1>27, <1>28, <1>29, <1>30, <1>33, <1>34, Changed

-----------------------------------------------------------------------------
(* Thread-local destructors *)

\* No call goes on.
LEMMA StandStill ==
    ASSUME IInv, NEW U, Frames(U), NEW t \in Threads, lock = None, Data',
           lock' = lock, th' = th, outer' = outer, stale' = stale, objlist' = objlist, pending' = pending,
           \A l \in Libs : /\ obj'[l].dlref = obj[l].dlref /\ obj'[l].nref = obj[l].nref
                           /\ obj'[l].closing = obj[l].closing /\ handles'[l] = handles[l],
           \A l \in Libs : /\ obj[l].ref = 0 => obj'[l].ref = 0
                           /\ obj'[l].dagmembers = obj[l].dagmembers /\ obj'[l].reloc = obj[l].reloc,
           Unlisted', Grows, Balanced, Dtors'
    PROVE  IInv'
<1>1. Data /\ Stacks /\ Locals /\ StaleOK /\ RootsDead /\ Distinct /\ Pending
    BY DEF IInv
<1>2. Frames(U)' /\ Stacks'
    BY <1>1 DEF Frames, Stacks
<1>3. PICK me \in Threads \X Nat : me = << t, Depth(t) >>
    BY CallsFacts
<1>4. PICK b : b = Rec(me)
    OBVIOUS
<1>5. \A c : Rec(c)' = Rec(c)
    BY DEF Rec, Calls, CallAt, Depth
<1>6. Moves(me, b, b)
    BY <1>4, <1>5 DEF Moves
<1>7. LocalsOK(b) /\ \A r \in Libs : Marks(b, r) => obj[r].ref = 0
    BY <1>1, <1>4, ByRec
<1>8. StaleKept(me, b)
    BY <1>1, <1>4, ByRec DEF StaleKept
<1>9. Counted(b, b)
    BY <1>1, CountedSame
<1>10. RootsKept(b)
    BY <1>7 DEF RootsKept
<1>11. Distinct'
    BY <1>1 DEF Distinct
<1>12. Pending'
    BY <1>1 DEF Pending, Unrelocated, Listed
<1>13. Working'
    BY ConstantFacts DEF Working
<1> QED
    BY <1>2, <1>6, <1>7, <1>8, <1>9, <1>10, <1>11, <1>12, <1>13, Changed

\* __dl_cxa_refcount(addr, 1).
LEMMA CxaRefStep == ASSUME IInv, NEW t \in Threads, NEW l \in Libs, CxaRef(t, l) PROVE IInv'
<1>1. PICK U : Frames(U)
    BY DEF IInv
<1>2. Data /\ Unlisted /\ Dtors
    BY DEF IInv
<1>3. /\ lock = None /\ handles[l] > 0 /\ dtors' = [dtors EXCEPT ![l] = @ + 1]
      /\ lock' = lock /\ objlist' = objlist /\ pending' = pending /\ stale' = stale /\ th' = th
      /\ outer' = outer /\ handles' = handles /\ ops' = ops
    BY DEF CxaRef
<1>4. obj[l] \in Entry /\ obj[l].ref \in Nat /\ obj[l].cxa \in Nat /\ obj[l].cxa <= SizeMax
    BY <1>2, ConstantFacts DEF Data, Entry
<1>5. obj[l].ref >= 1 /\ Listed(l)
    BY <1>1, <1>3, MyCounts
<1>6. PICK c, n : /\ c = IF obj[l].cxa > SizeMax - 1 THEN obj[l].cxa ELSE obj[l].cxa + 1
                  /\ n = IF obj[l].cxa = 0 THEN obj[l].ref + 1 ELSE obj[l].ref
    OBVIOUS
<1>7. /\ c \in 0 .. SizeMax /\ c > 0 /\ n \in Nat /\ n >= 1
      /\ n = obj[l].ref + (IF obj[l].cxa > 0 THEN 0 ELSE 1)
    BY <1>4, <1>5, <1>6, ConstantFacts, SMTT(60)
<1>8. PICK e : e = [obj[l] EXCEPT !.cxa = c, !.ref = n]
    OBVIOUS
<1>9. e \in Entry
    BY <1>4, <1>7, <1>8 DEF Entry
<1>10. /\ e.ref = n /\ e.cxa = c /\ e.dlref = obj[l].dlref /\ e.nref = obj[l].nref
       /\ e.closing = obj[l].closing /\ e.nodel = obj[l].nodel
       /\ e.need = obj[l].need /\ e.dagmembers = obj[l].dagmembers /\ e.reloc = obj[l].reloc
    BY <1>4, <1>8 DEF Entry
<1>11. obj' = [obj EXCEPT ![l] = e]
    <2>1. CASE obj[l].cxa > SizeMax - 1
        <3>1. c = obj[l].cxa /\ n = obj[l].ref /\ obj' = obj
            BY <1>4, <1>6, <2>1, ConstantFacts DEF CxaRef
        <3>2. e = obj[l]
            BY <1>4, <1>8, <3>1 DEF Entry
        <3> QED
            BY <1>2, <3>1, <3>2 DEF Data
    <2>2. CASE ~(obj[l].cxa > SizeMax - 1)
        <3>1. obj' = [obj EXCEPT ![l].cxa = @ + 1, ![l].ref = IF obj[l].cxa = 0 THEN @ + 1 ELSE @]
            BY <2>2 DEF CxaRef
        <3>2. obj' = [obj EXCEPT ![l] = [obj[l] EXCEPT !.cxa = obj[l].cxa + 1,
                                                       !.ref = IF obj[l].cxa = 0 THEN obj[l].ref + 1 ELSE obj[l].ref]]
            BY <1>2, <1>4, <3>1 DEF Data, Entry
        <3> QED
            BY <1>6, <1>8, <2>2, <3>2
    <2> QED
        BY <2>1, <2>2
<1>12. obj' \in [Libs -> Entry] /\ obj'[l] = e /\ \A z \in Libs : z # l => obj'[z] = obj[z]
    BY <1>2, <1>9, <1>11, OneObject
<1>13. dtors' \in [Libs -> Nat] /\ \A z \in Libs : z # l => dtors'[z] = dtors[z]
    BY <1>2, <1>3 DEF Data
<1>14. Data'
    BY <1>2, <1>3, <1>12, <1>13 DEF Data
<1>15. Unlisted' /\ Dtors'
    BY <1>2, <1>3, <1>5, <1>7, <1>10, <1>12, <1>13 DEF Unlisted, Dtors, Listed
<1>16. Grows
    BY <1>4, <1>5, <1>10, <1>12 DEF Grows
<1>17. Balanced
    <2>1. \A z \in Libs : Needers(z)' = Needers(z)
        <3>1. \A z \in Libs : obj'[z].need = obj[z].need /\ (obj'[z].ref > 0 <=> obj[z].ref > 0)
            BY <1>4, <1>5, <1>7, <1>10, <1>12
        <3> QED
            BY <3>1, NeedersSame
    <2>2. Frames(U)'
        BY <1>1, <1>3 DEF Frames
    <2>3. \A z \in Libs : Due(z) = 0 /\ Due(z)' = 0 /\ ~Pinning(z)
        BY <1>1, <1>3, <2>2, DueFacts, DueFactsPrime
    <2>4. ASSUME NEW z \in Libs
          PROVE  obj'[z].dlref + One(obj'[z].cxa > 0) + Due(z)' + obj[z].ref
                    <= obj[z].dlref + One(obj[z].cxa > 0) + Due(z) + obj'[z].ref
        <3>1. obj[z].dlref \in Nat /\ obj[z].ref \in Nat /\ One(obj[z].cxa > 0) \in Nat
            BY <1>2 DEF Data, Entry, One
        <3>2. CASE z = l
            <4>1. One(obj'[l].cxa > 0) = 1 /\ One(obj[l].cxa > 0) = IF obj[l].cxa > 0 THEN 1 ELSE 0
                BY <1>7, <1>10, <1>12 DEF One
            <4>2. obj'[l].ref = obj[l].ref + (IF obj[l].cxa > 0 THEN 0 ELSE 1) /\ obj'[l].dlref = obj[l].dlref
                BY <1>7, <1>10, <1>12
            <4> QED
                BY <2>3, <3>1, <3>2, <4>1, <4>2
        <3>3. CASE z # l
            BY <1>12, <2>3, <3>1, <3>3
        <3> QED
            BY <3>2, <3>3
    <2>5. \A z \in Libs : obj'[z].nodel = obj[z].nodel
        BY <1>10, <1>12
    <2> QED
        BY <1>1, <1>2, <1>14, <2>1, <2>2, <2>3, <2>4, <2>5, BalancedBy
<1>18. \A z \in Libs : /\ obj'[z].dlref = obj[z].dlref /\ obj'[z].nref = obj[z].nref
                       /\ obj'[z].closing = obj[z].closing /\ handles'[z] = handles[z]
    BY <1>3, <1>10, <1>12
<1>19. \A z \in Libs : /\ obj[z].ref = 0 => obj'[z].ref = 0
                       /\ obj'[z].dagmembers = obj[z].dagmembers /\ obj'[z].reloc = obj[z].reloc
    BY <1>5, <1>10, <1>12
<1> QED
    BY <1>1, <1>3, <1>14, <1>15, <1>16, <1>17, <1>18, <1>19, StandStill

\* __dl_cxa_refcount(addr, -1): no reference is ever dropped.
LEMMA CxaUnrefStep == ASSUME IInv, NEW t \in Threads, NEW l \in Libs, CxaUnref(t, l) PROVE IInv'
<1>1. PICK U : Frames(U)
    BY DEF IInv
<1>2. Data /\ Unlisted /\ Dtors
    BY DEF IInv
<1>3. /\ lock = None /\ dtors[l] > 0 /\ dtors' = [dtors EXCEPT ![l] = @ - 1]
      /\ objlist' = objlist /\ pending' = pending /\ stale' = stale
      /\ handles' = handles /\ ops' = ops
    BY DEF CxaUnref
<1>4. obj[l] \in Entry /\ obj[l].ref \in Nat /\ obj[l].cxa \in Nat /\ obj[l].cxa <= SizeMax
    BY <1>2, ConstantFacts DEF Data, Entry
<1>5. obj[l].cxa > 0 /\ Listed(l)
    BY <1>2, <1>3, <1>4 DEF Dtors, Unlisted
<1>6. Underflows(l, -1) <=> obj[l].cxa < SizeMax
    BY ConstantFacts, MinusOne DEF Underflows
<1>7. PICK c : c = IF obj[l].cxa < SizeMax THEN obj[l].cxa ELSE obj[l].cxa - 1
    OBVIOUS
<1>8. c \in 0 .. SizeMax /\ c > 0
    BY <1>4, <1>5, <1>7, ConstantFacts
<1>9. PICK e : e = [obj[l] EXCEPT !.cxa = c]
    OBVIOUS
<1>10. e \in Entry
    BY <1>4, <1>8, <1>9 DEF Entry
<1>11. /\ e.ref = obj[l].ref /\ e.cxa = c /\ e.dlref = obj[l].dlref /\ e.nref = obj[l].nref
       /\ e.closing = obj[l].closing /\ e.nodel = obj[l].nodel
       /\ e.need = obj[l].need /\ e.dagmembers = obj[l].dagmembers /\ e.reloc = obj[l].reloc
    BY <1>4, <1>9 DEF Entry
<1>12. obj' = [obj EXCEPT ![l] = e] /\ lock' = lock /\ th' = th /\ outer' = outer
    <2>1. CASE obj[l].cxa < SizeMax
        <3>1. c = obj[l].cxa /\ obj' = obj /\ lock' = lock /\ th' = th /\ outer' = outer
            BY <1>6, <1>7, <2>1 DEF CxaUnref
        <3>2. e = obj[l]
            BY <1>4, <1>9, <3>1 DEF Entry
        <3> QED
            BY <1>2, <3>1, <3>2 DEF Data
    <2>2. CASE ~(obj[l].cxa < SizeMax)
        <3>1. obj[l].cxa # 1 /\ c = obj[l].cxa - 1
            BY <1>4, <1>7, <2>2, ConstantFacts
        <3>2. /\ obj' = [obj EXCEPT ![l].cxa = @ - 1, ![l].ref = IF obj[l].cxa = 1 THEN @ - 1 ELSE @]
              /\ lock' = lock /\ th' = th /\ outer' = outer
            BY <1>6, <2>2, <3>1 DEF CxaUnref
        <3>3. obj' = [obj EXCEPT ![l] = [obj[l] EXCEPT !.cxa = obj[l].cxa - 1, !.ref = obj[l].ref]]
            BY <1>2, <1>4, <3>1, <3>2 DEF Data, Entry
        <3>4. [obj[l] EXCEPT !.cxa = obj[l].cxa - 1, !.ref = obj[l].ref] = e
            BY <1>4, <1>9, <3>1 DEF Entry
        <3> QED
            BY <3>2, <3>3, <3>4
    <2> QED
        BY <2>1, <2>2
<1>13. obj' \in [Libs -> Entry] /\ obj'[l] = e /\ \A z \in Libs : z # l => obj'[z] = obj[z]
    BY <1>2, <1>10, <1>12, OneObject
<1>14. dtors' \in [Libs -> Nat] /\ \A z \in Libs : z # l => dtors'[z] = dtors[z]
    <2>1. dtors \in [Libs -> Nat] /\ dtors[l] - 1 \in Nat
        BY <1>2, <1>3 DEF Data
    <2> QED
        BY <1>3, <2>1
<1>15. Data'
    BY <1>2, <1>3, <1>12, <1>13, <1>14 DEF Data
<1>16. Unlisted' /\ Dtors'
    BY <1>2, <1>3, <1>5, <1>8, <1>11, <1>13, <1>14 DEF Unlisted, Dtors, Listed
<1>17. Grows
    BY <1>11, <1>13 DEF Grows
<1>18. Balanced
    <2>1. \A z \in Libs : Needers(z)' = Needers(z)
        BY <1>11, <1>13, NeedersSame
    <2>2. Frames(U)'
        BY <1>1, <1>12 DEF Frames
    <2>3. \A z \in Libs : Due(z) = 0 /\ Due(z)' = 0 /\ ~Pinning(z)
        BY <1>1, <1>3, <1>12, <2>2, DueFacts, DueFactsPrime
    <2>4. ASSUME NEW z \in Libs
          PROVE  obj'[z].dlref + One(obj'[z].cxa > 0) + Due(z)' + obj[z].ref
                    <= obj[z].dlref + One(obj[z].cxa > 0) + Due(z) + obj'[z].ref
        <3>1. obj[z].dlref \in Nat /\ obj[z].ref \in Nat /\ One(obj[z].cxa > 0) \in Nat
            BY <1>2 DEF Data, Entry, One
        <3>2. obj'[z].ref = obj[z].ref /\ obj'[z].dlref = obj[z].dlref
            BY <1>11, <1>13
        <3>3. One(obj'[z].cxa > 0) = One(obj[z].cxa > 0)
            BY <1>5, <1>8, <1>11, <1>13 DEF One
        <3> QED
            BY <2>3, <3>1, <3>2, <3>3
    <2>5. \A z \in Libs : obj'[z].nodel = obj[z].nodel
        BY <1>11, <1>13
    <2> QED
        BY <1>1, <1>2, <1>15, <2>1, <2>2, <2>3, <2>4, <2>5, BalancedBy
<1>19. \A z \in Libs : /\ obj'[z].dlref = obj[z].dlref /\ obj'[z].nref = obj[z].nref
                       /\ obj'[z].closing = obj[z].closing /\ handles'[z] = handles[z]
    BY <1>3, <1>11, <1>13
<1>20. \A z \in Libs : /\ obj[z].ref = 0 => obj'[z].ref = 0
                       /\ obj'[z].dagmembers = obj[z].dagmembers /\ obj'[z].reloc = obj[z].reloc
    BY <1>11, <1>13
<1> QED
    BY <1>1, <1>3, <1>12, <1>15, <1>16, <1>17, <1>18, <1>19, <1>20, StandStill

-----------------------------------------------------------------------------
(* The inductive invariant *)

\* It holds at the start.
LEMMA InitInv == Init => IInv
<1> SUFFICES ASSUME Init PROVE IInv
    OBVIOUS
<1>1. ASSUME NEW l \in Libs PROVE Fresh(l) \in Entry
    <2>1. FnCount[l] \in [Kinds -> Nat] /\ (l \in NoDelete) \in BOOLEAN /\ SizeMax \in Nat
        BY ObjectsAssumption
    <2>2. "notyet" \in RelocStates
        BY DEF RelocStates
    <2>3. 0 \in 0 .. SizeMax
        BY <2>1
    <2> QED
        BY <2>1, <2>2, <2>3 DEF Entry, Fresh
<1>2. Data
    <2>1. MaxOps \in [Threads -> Nat]
        BY ObjectsAssumption
    <2> QED
        BY <1>1, <2>1 DEF Init, Data
<1>3. \A l \in Libs : /\ obj[l].ref = 0 /\ obj[l].dlref = 0 /\ obj[l].nref = 0 /\ obj[l].closing = 0
                      /\ obj[l].cxa = 0 /\ ~obj[l].nodel /\ obj[l].need = {} /\ obj[l].dagmembers = {}
    BY DEF Init, Fresh
<1>4. Frames({<< >>})
    <2>1. Idle \in CallOf({<< >>})
        BY IdleFacts
    <2> QED
        BY <2>1 DEF Init, Frames
<1>5. \A t \in Threads : th[t] = Idle /\ outer[t] = << >>
    BY DEF Init
<1>6. Idle.pc = "idle"
    BY DEF Idle
<1>7. Stacks
    <2>1. lock = None
        BY DEF Init
    <2>2. ASSUME NEW t \in Threads
          PROVE  /\ lock # t /\ th[t].pc = "idle" /\ outer[t] = << >> /\ Len(outer[t]) = 0
        BY <1>5, <1>6, <2>1, ConstantFacts
    <2>3. "idle" \in Parked
        BY DEF Parked
    <2> SUFFICES ASSUME NEW t \in Threads
                 PROVE  /\ lock # t => th[t].pc \in Parked
                        /\ lock = t => th[t].pc \notin {"idle", "calling"}
                        /\ th[t].pc = "idle" <=> outer[t] = << >>
                        /\ \A i \in 1 .. Len(outer[t]) : /\ outer[t][i].pc \in {"idle", "calling"}
                                                         /\ outer[t][i].pc = "idle" <=> i = Len(outer[t])
        BY DEF Stacks
    <2>4. 1 .. Len(outer[t]) = {}
        BY <2>2
    <2> QED
        BY <2>2, <2>3, <2>4
<1>8. \A c \in Threads \X Nat : Rec(c) = Idle
    <2>1. ASSUME NEW t \in Threads, NEW n \in Nat PROVE Rec(<< t, n >>) = Idle
        <3>1. Len(outer[t]) = 0
            BY <1>5
        <3>2. Rec(<< t, n >>) = IF n = Len(outer[t]) THEN th[t]
                                ELSE IF n < Len(outer[t]) THEN outer[t][Len(outer[t]) - n] ELSE Idle
            BY <1>4, RecFacts
        <3> QED
            BY <1>5, <3>1, <3>2
    <2> QED
        BY <2>1
<1>9. Locals /\ StaleOK /\ RootsDead
    BY <1>4, <1>8, ByRec, IdleFacts DEF Init
<1>10. Counts
    <2>1. \A l \in Libs : Opening(l) = {} /\ Loading(l) = {} /\ Marking(l) = {} /\ MarkingDag(l) = {}
        BY <1>4, <1>8, CountedSets, IdleFacts
    <2>2. Cardinality({}) = 0 /\ \A l \in Libs : handles[l] = 0
        BY FS_EmptySet DEF Init
    <2> QED
        BY <1>3, <2>1, <2>2 DEF Counts
<1>11. Distinct /\ Unlisted
    BY <1>3 DEF Init, Distinct, Unlisted
<1>12. \A l \in Libs : Due(l) = 0 /\ ~Pinning(l)
    BY <1>4, DueFacts DEF Init
<1>13. References
    <2>1. \A l \in Libs : Needers(l) = {}
        BY <1>3 DEF Needers
    <2>2. ASSUME NEW l \in Libs PROVE Base(l) = 0
        <3>1. Base(l) = 0 + 0 + Cardinality({}) + 0
            BY <1>3, <1>12, <2>1 DEF Base
        <3> QED
            BY <3>1, FS_EmptySet
    <2> QED
        BY <1>3, <2>2 DEF References
<1>14. Members /\ Working
    BY <1>3, ConstantFacts DEF Init, Members, Live, Working
<1>15. Pending
    <2>1. Unrelocated = {}
        BY DEF Init, Unrelocated, Listed
    <2> QED
        BY <2>1, FS_EmptySet DEF Init, Pending
<1>16. Dtors
    BY DEF Init, Dtors
<1> QED
    BY <1>2, <1>4, <1>7, <1>9, <1>10, <1>11, <1>13, <1>14, <1>15, <1>16 DEF IInv

\* It is kept where nothing happens.
LEMMA Stutter == ASSUME IInv, UNCHANGED vars PROVE IInv'
<1>1. /\ lock' = lock /\ objlist' = objlist /\ obj' = obj /\ pending' = pending /\ stale' = stale /\ th' = th
      /\ outer' = outer /\ handles' = handles /\ dtors' = dtors /\ ops' = ops
    BY DEF vars, clients
<1>2. Data' /\ (\E U : Frames(U)') /\ Stacks'
    BY <1>1 DEF IInv, Data, Frames, Stacks
<1>3. Locals' /\ StaleOK' /\ RootsDead'
    <2>1. PICK U : Frames(U)
        BY DEF IInv
    <2>2. Frames(U)'
        BY <1>1, <2>1 DEF Frames
    <2>3. \A c : Rec(c)' = Rec(c)
        BY <1>1 DEF Rec, Calls, CallAt, Depth
    <2>4. Locals /\ StaleOK /\ RootsDead
        BY DEF IInv
    <2> QED
        BY <1>1, <2>1, <2>2, <2>3, <2>4, ByRec, ByRecPrime
<1>4. Counts'
    <2>1. /\ Counts
          /\ \A l \in Libs : /\ Opening(l)' = Opening(l) /\ Loading(l)' = Loading(l)
                             /\ Marking(l)' = Marking(l) /\ MarkingDag(l)' = MarkingDag(l)
        BY <1>1 DEF IInv, Opening, Loading, Marking, MarkingDag, Calls, CallAt, Depth
    <2> QED
        BY <1>1, <2>1 DEF Counts
<1>5. Distinct' /\ Unlisted'
    BY <1>1 DEF IInv, Distinct, Unlisted, Listed
<1>6. References'
    BY <1>1 DEF IInv, References, Base, Due, Pinning, Needers
<1>7. Members' /\ Working'
    BY <1>1 DEF IInv, Members, Working, Reach, Closed, Live, Listed
<1>8. Pending' /\ Dtors'
    BY <1>1 DEF IInv, Pending, Unrelocated, Dtors, Listed
<1> QED
    BY <1>2, <1>3, <1>4, <1>5, <1>6, <1>7, <1>8 DEF IInv

\* Every step keeps it.
LEMMA NextInv == IInv /\ [Next]_vars => IInv'
<1> SUFFICES ASSUME IInv, [Next]_vars PROVE IInv'
    OBVIOUS
<1>1. ASSUME NEW t \in Threads, LoadStep(t) PROVE IInv'
    <2>1. CASE Scan(t)
        <3>1. CASE th[t].pos = None \/ obj[th[t].pos].ref = 0
            BY <2>1, <3>1, ScanStillStep
        <3>2. CASE th[t].pos # None /\ obj[th[t].pos].ref > 0
            BY <2>1, <3>2, ScanTakeStep
        <3> QED
            BY <2>1, <3>1, <3>2 DEF Scan
    <2>2. CASE Need(t)
        <3>1. CASE th[t].idx <= Len(Needs[th[t].pos])
            BY <2>2, <3>1, NeedStillStep
        <3>2. CASE th[t].idx > Len(Needs[th[t].pos])
            BY <2>2, <3>2, NeedNextStep
        <3> QED
            BY <2>2, <3>1, <3>2 DEF Need
    <2> QED
        BY <1>1, <2>1, <2>2, LoadFailStep, LoadWaitStep, LoadNewStep, LoadOldStep, ByNameWaitStep,
           ByNameOldStep, ByNameNewStep, ByNameFailStep, DagStep, RefDagStep, RefDoneStep, RelocateStep,
           OpenFailsStep
        DEF LoadStep
<1>2. ASSUME NEW t \in Threads, CallStep(t) PROVE IInv'
    BY <1>2, SortStep, SkipStep, CallWaitStep, CallFnStep, ReturnStep, InitializedStep, PinStep, OpenedStep,
       FinalizedStep
    DEF CallStep
<1>3. ASSUME NEW t \in Threads, UnloadStep(t) PROVE IInv'
    BY <1>3, UnrefStep, StillReferencedStep, ClosingStep, UndagStep, FreeStep, FreeWaitStep, UnloadedStep
    DEF UnloadStep
<1>4. ASSUME NEW t \in Threads, NEW l \in Libs, Dlclose(t, l) \/ CxaRef(t, l) \/ CxaUnref(t, l) PROVE IInv'
    BY <1>4, DlcloseStep, CxaRefStep, CxaUnrefStep
<1>5. CASE UNCHANGED vars
    BY <1>5, Stutter
<1> QED
    BY <1>1, <1>2, <1>3, <1>4, <1>5, DlopenStep, RelockStep DEF Next, Step, Terminated

\* So it holds of every behaviour.
LEMMA Invariant == Spec => []IInv
BY InitInv, NextInv, PTL DEF Spec

-----------------------------------------------------------------------------
(* Theorems *)

\* Every variable has its type in every reachable state, whatever the threads,
\* the libraries and what fails: no count of an Obj_Entry goes below zero.
THEOREM TypeCorrect == Spec => []TypeOK
<1>1. ASSUME IInv PROVE TypeOK
    <2>1. PICK U : Frames(U)
        BY <1>1 DEF IInv
    <2>2. Data /\ StaleOK
        BY <1>1 DEF IInv
    <2>3. \A t \in Threads : th[t].root \in Libs \cup {None} /\ th[t].pos \in Libs \cup {None}
        BY <2>1 DEF Frames, CallOf
    <2>4. \A t \in Threads : ops[t] \in 0 .. MaxOps[t]
        <3>1. MaxOps \in [Threads -> Nat]
            BY ObjectsAssumption
        <3> QED
            BY <2>2, <3>1 DEF Data
    <2>5. stale \subseteq Calls
        BY <2>2 DEF StaleOK
    <2> QED
        BY <2>2, <2>3, <2>4, <2>5 DEF TypeOK, Data, Entry
<1> QED
    BY <1>1, Invariant, PTL

\* refcount covers every reference there is, whatever the order in which threads
\* open, fail to open and close libraries.
THEOREM CountsSufficient == Spec => []NeverUndercounted
<1>1. ASSUME IInv PROVE NeverUndercounted
    <2>1. PICK U : Frames(U)
        BY <1>1 DEF IInv
    <2>2. Data /\ References /\ Dtors
        BY <1>1 DEF IInv
    <2> SUFFICES ASSUME lock = None, NEW l \in Libs
                 PROVE  obj[l].ref >= obj[l].dlref + (IF obj[l].nodel THEN 1 ELSE 0)
                            + (IF dtors[l] > 0 THEN 1 ELSE 0)
                            + Cardinality({m \in Libs : Listed(m) /\ obj[m].ref > 0 /\ l \in obj[m].need})
        BY DEF NeverUndercounted
    <2>3. PICK S : S = {m \in Libs : Listed(m) /\ obj[m].ref > 0 /\ l \in obj[m].need}
        OBVIOUS
    <2>4. S \in SUBSET Needers(l) /\ Needers(l) \in SUBSET Libs
        BY <2>3 DEF Needers
    <2>5. /\ Cardinality(S) \in Nat /\ Cardinality(Needers(l)) \in Nat
          /\ Cardinality(S) <= Cardinality(Needers(l))
        BY <2>4, LibSets
    <2>6. Due(l) = 0 /\ ~Pinning(l)
        BY <2>1, DueFacts
    <2>7. obj[l].ref >= Base(l) /\ (obj[l].nodel => obj[l].ref >= Base(l) + 1)
        BY <2>2, <2>6 DEF References
    <2>8. obj[l].ref \in Nat /\ obj[l].dlref \in Nat /\ obj[l].cxa \in Nat /\ dtors[l] \in Nat
        BY <2>1, <2>2, BaseFacts DEF Data
    <2>9. PICK n : n = IF obj[l].cxa > 0 THEN 1 ELSE 0
        OBVIOUS
    <2>10. n \in Nat /\ (IF dtors[l] > 0 THEN 1 ELSE 0) <= n
        BY <2>2, <2>8, <2>9 DEF Dtors
    <2>11. Base(l) = obj[l].dlref + n + Cardinality(Needers(l)) + 0
        BY <2>6, <2>9 DEF Base
    <2>12. CASE obj[l].nodel
        BY <2>3, <2>5, <2>7, <2>8, <2>10, <2>11, <2>12
    <2>13. CASE ~obj[l].nodel
        BY <2>3, <2>5, <2>7, <2>8, <2>10, <2>11, <2>13
    <2> QED
        BY <2>12, <2>13
<1> QED
    BY <1>1, Invariant, PTL

\* What a referenced object needs, and what its DAG has, is referenced and listed.
THEOREM MembersStayLive == Spec => []MembersLive
<1>1. ASSUME IInv PROVE MembersLive
    <2>1. PICK U : Frames(U)
        BY <1>1 DEF IInv
    <2>2. Data /\ References /\ Members /\ Unlisted
        BY <1>1 DEF IInv
    <2>3. ASSUME NEW l \in Libs, obj[l].ref > 0, NEW m \in obj[l].dagmembers \cup obj[l].need
          PROVE  Listed(m) /\ obj[m].ref > 0
        <3>1. l \in Live
            BY <2>3 DEF Live
        <3>2. m \in Live
            <4>1. CASE m \in obj[l].dagmembers
                BY <2>1, <2>2, <3>1, <4>1, ReachLive DEF Members
            <4>2. CASE m \in obj[l].need
                BY <2>1, <2>2, <2>3, <4>2, NeedLive
            <4> QED
                BY <4>1, <4>2
        <3> QED
            BY <2>2, <3>2 DEF Live, Unlisted
    <2> QED
        BY <2>3 DEF MembersLive
<1> QED
    BY <1>1, Invariant, PTL

\* dl_refcount is the number of handles and of dlopen calls under way.
THEOREM HandlesCounted == Spec => []DlrefExact
<1>1. ASSUME IInv PROVE DlrefExact
    BY <1>1 DEF IInv, Counts, DlrefExact, Opening, Opens
<1> QED
    BY <1>1, Invariant, PTL

\* The Obj_Entry pointers in the locals of a call, where the code reads them.
Pointers(c) ==
    LET me == CallAt(c[1], c[2])
    IN  (IF me.pc = "load" THEN {} ELSE {me.root, me.pos} \ {None})
        \cup (IF me.pc \in {"dag", "ref", "unref"} THEN Range(me.work) ELSE {})
        \cup {m \in Libs : \E r \in Libs : Marks(me, r) /\ m \in obj[r].dagmembers}

\* No call follows a pointer of these to an object that was freed, and what a
\* caller has a handle of, or a thread a destructor of, is there.
LocalsListed ==
    /\ \A c \in Calls : \A l \in Pointers(c) : Listed(l)
    /\ \A l \in Libs : handles[l] > 0 \/ dtors[l] > 0 => Listed(l) /\ obj[l].ref > 0

\* What a call is counted in is listed.
LEMMA CallListed ==
    ASSUME IInv, NEW U, Frames(U), NEW c \in Calls, NEW f, f = CallAt(c[1], c[2]), NEW l \in Libs,
           Opens(f, l) \/ Loads(f, l) \/ Marks(f, l) \/ MarksDag(f, l)
    PROVE  Listed(l)
<1> DEFINE o == Opening(l)  d == Loading(l)  m == Marking(l)  k == MarkingDag(l)
<1>1. c \in o \/ c \in d \/ c \in m \/ c \in k
    BY DEF Opening, Loading, Marking, MarkingDag, MarksDag
<1>2. Data /\ Counts /\ Unlisted /\ References
    BY DEF IInv
<1>3. IsFiniteSet(o) /\ IsFiniteSet(d) /\ IsFiniteSet(m) /\ IsFiniteSet(k)
    BY CountedFinite
<1>4. /\ obj[l].dlref = handles[l] + Cardinality(o) /\ obj[l].nref = Cardinality(d)
      /\ obj[l].closing = Cardinality(m) + Cardinality(k)
    BY <1>2 DEF Counts
<1>5. handles[l] \in Nat /\ obj[l].ref \in Nat
    BY <1>2 DEF Data, Entry
<1>6. obj[l].ref >= Base(l) /\ Base(l) \in Nat /\ Base(l) >= obj[l].dlref /\ obj[l].dlref \in Nat
    BY <1>2, BaseFacts DEF References
<1> HIDE DEF o, d, m, k
<1>7. /\ Cardinality(o) \in Nat /\ Cardinality(d) \in Nat /\ Cardinality(m) \in Nat /\ Cardinality(k) \in Nat
      /\ c \in o => Cardinality(o) # 0
      /\ c \in d => Cardinality(d) # 0
      /\ c \in m => Cardinality(m) # 0
      /\ c \in k => Cardinality(k) # 0
    BY <1>3, FS_CardinalityType, FS_EmptySet
<1>8. obj[l].ref # 0 \/ obj[l].nref # 0 \/ obj[l].closing # 0
    BY <1>1, <1>4, <1>5, <1>6, <1>7
<1> QED
    BY <1>2, <1>8 DEF Unlisted

\* A call is its thread's last, or one that runs a constructor or destructor.
LEMMA CallPlace ==
    ASSUME IInv, NEW U, Frames(U), NEW c \in Calls
    PROVE  /\ c[1] \in Threads /\ CallAt(c[1], c[2]) \in CallOf(U) /\ LocalsOK(CallAt(c[1], c[2]))
           /\ \/ CallAt(c[1], c[2]) = th[c[1]] /\ (lock = c[1] \/ th[c[1]].pc \in Parked)
              \/ CallAt(c[1], c[2]).pc \in {"idle", "calling"}
<1>1. Stacks /\ Locals
    BY DEF IInv
<1>2. PICK t \in Threads, n \in Nat : c = << t, n >> /\ n <= Depth(t) /\ Depth(t) \in Nat
    BY CallsFacts
<1>3. CASE n = Depth(t)
    <2>1. CallAt(c[1], c[2]) = th[t] /\ c[1] = t
        BY <1>2, <1>3 DEF CallAt
    <2> QED
        BY <1>1, <2>1 DEF Locals, Stacks, Frames
<1>4. CASE n # Depth(t)
    <2>1. CallAt(c[1], c[2]) = outer[t][Depth(t) - n] /\ c[1] = t
        BY <1>2, <1>4 DEF CallAt
    <2>2. Depth(t) - n \in 1 .. Len(outer[t]) /\ outer[t] \in Seq(CallOf(U))
        BY <1>2, <1>4 DEF Depth, Frames
    <2>3. outer[t][Depth(t) - n] \in CallOf(U)
        BY <2>2
    <2>4. outer[t][Depth(t) - n].pc \in {"idle", "calling"}
        BY <1>1, <2>2 DEF Stacks
    <2> QED
        BY <1>1, <2>1, <2>3, <2>4 DEF Locals
<1> QED
    BY <1>3, <1>4

\* Obj_Entry pointers in the locals of a call never dangle: what the code reads
\* through obj, through the recursions' arguments and through the marked DAG is
\* in the list, whatever other threads, or functions called in between, close.
THEOREM NoDanglingLocals == Spec => []LocalsListed
<1>1. ASSUME IInv PROVE LocalsListed
    <2>1. PICK U : Frames(U)
        BY <1>1 DEF IInv
    <2>2. /\ Data /\ Counts /\ Unlisted /\ References /\ Working /\ Dtors
        BY <1>1 DEF IInv
    <2>3. ASSUME NEW l \in Libs, handles[l] > 0 \/ dtors[l] > 0 PROVE Listed(l) /\ obj[l].ref > 0
        <3>1. obj[l].ref >= Base(l) /\ Base(l) \in Nat /\ Base(l) >= obj[l].dlref
            BY <2>1, <2>2, BaseFacts DEF References
        <3>2. obj[l].ref \in Nat /\ obj[l].dlref \in Nat /\ obj[l].cxa \in Nat /\ handles[l] \in Nat
            BY <2>1, <2>2, BaseFacts DEF Data
        <3>3. CASE handles[l] > 0
            <4>1. Cardinality(Opening(l)) \in Nat
                BY <2>1, CountedFinite, FS_CardinalityType
            <4>2. obj[l].dlref = handles[l] + Cardinality(Opening(l))
                BY <2>2 DEF Counts
            <4>3. obj[l].ref > 0
                BY <3>1, <3>2, <3>3, <4>1, <4>2
            <4> QED
                BY <2>2, <4>3 DEF Unlisted
        <3>4. CASE dtors[l] > 0
            <4>1. obj[l].cxa > 0
                BY <2>2, <3>4 DEF Dtors
            <4>2. Cardinality(Needers(l)) \in Nat /\ Due(l) \in Nat
                BY <2>1, <2>2, BaseFacts, DueFacts
            <4>3. Base(l) = obj[l].dlref + 1 + Cardinality(Needers(l)) + Due(l)
                BY <4>1 DEF Base
            <4>4. obj[l].ref > 0
                BY <3>1, <3>2, <4>2, <4>3
            <4> QED
                BY <2>2, <4>4 DEF Unlisted
        <3> QED
            BY <2>3, <3>3, <3>4
    <2>4. ASSUME NEW c \in Calls, NEW l \in Pointers(c) PROVE Listed(l)
        <3>1. PICK f, t : f = CallAt(c[1], c[2]) /\ t = c[1]
            OBVIOUS
        <3>2. t \in Threads /\ f \in CallOf(U) /\ LocalsOK(f)
            BY <1>1, <2>1, <3>1, CallPlace
        <3>3. \/ f = th[t] /\ (lock = t \/ th[t].pc \in Parked)
              \/ f.pc \in {"idle", "calling"}
            BY <1>1, <2>1, <3>1, CallPlace
        <3>4. ASSUME f.pc \in {"scan", "dag", "ref", "unref"} PROVE lock = t /\ f = th[t]
            BY <3>3, <3>4 DEF Parked
        <3>5. \A z \in Libs : Opens(f, z) \/ Loads(f, z) \/ Marks(f, z) \/ MarksDag(f, z) => Listed(z)
            BY <1>1, <2>1, <3>1, CallListed
        <3>6. \A z \in Libs : obj[z].ref > 0 => Listed(z)
            BY <2>2 DEF Unlisted
        <3>7. /\ f.pc \in Labels /\ f.root \in Libs \cup {None} /\ f.pos \in Libs \cup {None}
              /\ f.work \in Seq(Libs) /\ f.phase \in {"init", "fini", "failed"}
            BY <3>2 DEF CallOf
        <3>8. ASSUME f.pc # "load", l = f.root, l # None PROVE Listed(l)
            <4>1. l \in Libs /\ f.pc \notin {"idle", "gc"}
                BY <3>2, <3>7, <3>8 DEF LocalsOK
            <4>2. CASE f.phase = "init"
                BY <3>5, <3>8, <4>1, <4>2 DEF Opens
            <4>3. CASE f.phase # "init" /\ f.pc # "unref"
                BY <3>2, <3>5, <3>7, <3>8, <4>1, <4>3 DEF Marks, LocalsOK, Labels
            <4>4. CASE f.pc = "unref"
                BY <2>2, <3>2, <3>4, <3>8, <4>4 DEF Working
            <4> QED
                BY <4>2, <4>3, <4>4
        <3>9. ASSUME f.pc # "load", l = f.pos, l # None PROVE Listed(l)
            <4>1. l \in Libs /\ f.pc \in {"scan", "need", "byname", "ref"}
                BY <3>2, <3>7, <3>9 DEF LocalsOK
            <4>2. CASE f.pc = "scan"
                BY <2>2, <3>2, <3>4, <3>9, <4>2 DEF Working
            <4>3. CASE f.pc # "scan"
                BY <3>5, <3>9, <4>1, <4>3 DEF Loads
            <4> QED
                BY <4>2, <4>3
        <3>10. ASSUME f.pc \in {"dag", "ref", "unref"}, NEW i \in 1 .. Len(f.work), l = f.work[i]
               PROVE  Listed(l)
            <4>1. lock = t /\ f = th[t] /\ l \in Libs
                BY <3>4, <3>7, <3>10
            <4>2. CASE f.pc = "dag"
                <5>1. Reach(f.root, l)
                    BY <2>2, <3>2, <3>10, <4>1, <4>2 DEF Working
                <5>2. f.root \in Libs /\ Opens(f, f.root)
                    BY <3>2, <4>2 DEF LocalsOK, Opens
                <5>3. f.root \in Live
                    <6>1. obj[f.root].ref \in Nat /\ obj[f.root].ref >= 1
                        BY <1>1, <2>1, <2>2, <3>2, <4>1, <5>2, MyCounts DEF Data, Entry
                    <6> QED
                        BY <5>2, <6>1 DEF Live
                <5>4. l \in Live
                    BY <2>1, <2>2, <5>1, <5>3, ReachLive
                <5> QED
                    BY <3>6, <5>4 DEF Live
            <4>3. CASE f.pc = "ref"
                BY <2>2, <3>2, <3>6, <3>10, <4>1, <4>3 DEF Working
            <4>4. CASE f.pc = "unref"
                <5>1. Occurs(f.work, l) >= 1
                    BY <3>7, <3>10, OccursSome
                <5>2. Due(l) = Occurs(f.work, l)
                    <6>1. Due(l) = DueIn(th[t], l)
                        BY <2>1, <3>2, <4>1, DueFacts
                    <6> QED
                        BY <4>1, <4>4, <6>1 DEF DueIn
                <5>3. Base(l) \in Nat /\ Base(l) >= Due(l) /\ Due(l) \in Nat /\ obj[l].ref \in Nat
                    BY <2>1, <2>2, <4>1, BaseFacts, DueFacts
                <5>4. obj[l].ref >= Base(l)
                    BY <2>2, <4>1 DEF References
                <5>5. obj[l].ref > 0
                    BY <5>1, <5>2, <5>3, <5>4
                <5> QED
                    BY <3>6, <4>1, <5>5
            <4> QED
                BY <3>10, <4>2, <4>3, <4>4
        <3>11. ASSUME l \in Libs, MarksDag(f, l) PROVE Listed(l)
            BY <3>5, <3>11
        <3>12. \/ f.pc # "load" /\ l # None /\ (l = f.root \/ l = f.pos)
               \/ f.pc \in {"dag", "ref", "unref"} /\ l \in Range(f.work)
               \/ l \in Libs /\ MarksDag(f, l)
            BY <2>4, <3>1 DEF Pointers, MarksDag
        <3>13. ASSUME l \in Range(f.work) PROVE \E i \in 1 .. Len(f.work) : l = f.work[i]
            BY <3>7, <3>13 DEF Range
        <3> QED
            BY <3>8, <3>9, <3>10, <3>11, <3>12, <3>13
    <2> QED
        BY <2>3, <2>4 DEF LocalsListed
<1> QED
    BY <1>1, Invariant, PTL
==============================================================================
