---------------------------- MODULE RtldObjectsInv ----------------------------
(***************************************************************************)
(* The inductive invariant of RtldObjects and lemmas about its parts, for  *)
(* the proofs in RtldObjectsProofs.                                        *)
(*                                                                         *)
(* The inductive invariant accounts for every count.  dl_refcount,         *)
(* neededrefcount and dlclosing are sums over the calls in progress;       *)
(* refcount is at least the sum of the references there are and of those   *)
(* that a recursion in progress (_rtld_unref_dag) has still to drop.  It   *)
(* says nothing of the init and fini lists, on which none of this depends. *)
(***************************************************************************)
EXTENDS RtldObjects, SequenceTheorems, FiniteSetTheorems, NaturalsInduction, TLAPS

Labels == {"idle", "load", "scan", "need", "byname", "dag", "ref", "fail", "sort", "call",
           "calling", "opened", "unref", "undag", "gc"}

\* Where a thread may be without the lock.
Parked == {"idle", "calling", "load", "byname", "sort", "undag", "gc"}

CallOf(U) == [pc : Labels, root : Libs \cup {None}, pos : Libs \cup {None}, idx : Nat,
              work : Seq(Libs), todo : U, phase : {"init", "fini", "failed"}, nodelete : BOOLEAN]

Entry == [ref : Nat, dlref : Nat, nref : Nat, closing : Nat,
          initfini : Threads \cup {None}, reloc : RelocStates,
          need : SUBSET Libs, dldags : SUBSET Libs, dagmembers : SUBSET Libs,
          left : [Kinds -> Nat], znodel : BOOLEAN, nodel : BOOLEAN, cxa : 0 .. SizeMax]

Data ==
    /\ lock \in Threads \cup {None} /\ objlist \in Seq(Libs) /\ obj \in [Libs -> Entry]
    /\ pending \in Nat /\ handles \in [Libs -> Nat] /\ dtors \in [Libs -> Nat]
    /\ ops \in [Threads -> Nat] /\ \A t \in Threads : ops[t] <= MaxOps[t]

\* U is a set that has the init and fini lists: nothing is said of them.
Frames(U) == th \in [Threads -> CallOf(U)] /\ outer \in [Threads -> Seq(CallOf(U))]

\* Who has the lock, and what a thread's outer calls are doing.
Stacks ==
    \A t \in Threads :
        /\ lock # t => th[t].pc \in Parked
        /\ lock = t => th[t].pc \notin {"idle", "calling"}
        /\ th[t].pc = "idle" <=> outer[t] = << >>
        /\ \A i \in 1 .. Len(outer[t]) : /\ outer[t][i].pc \in {"idle", "calling"}
                                         /\ outer[t][i].pc = "idle" <=> i = Len(outer[t])

\* The locals of a call.
LocalsOK(f) ==
    /\ f.pc = "idle" => f.root = None
    /\ f.pc = "gc" => f.root = None
    /\ f.pc \notin {"idle", "gc"} => f.root \in Libs
    /\ f.pc \in {"idle", "load", "scan", "need", "byname", "dag", "ref", "fail", "opened"} =>
          f.phase = "init"
    /\ f.pc \in {"unref", "undag", "gc"} => f.phase # "init"
    /\ f.pc \notin {"scan", "need", "byname", "ref"} => f.pos = None
    /\ f.pc \in {"need", "byname"} => f.pos \in Libs /\ f.idx >= 1
    /\ f.pc = "byname" => f.idx <= Len(Needs[f.pos])

Locals == \A c \in Calls : LocalsOK(CallAt(c[1], c[2]))

StaleOK == \A c \in stale : c \in Calls /\ CallAt(c[1], c[2]).pc \in {"calling", "sort"}

\* What a call counts in dl_refcount, neededrefcount and dlclosing.
Opens(f, l) == f.root = l /\ f.phase = "init" /\ f.pc # "load"
Loads(f, l) == f.pos = l /\ f.pc \in {"need", "byname", "ref"}
Marks(f, l) == f.root = l /\ f.phase # "init" /\ f.pc \in {"sort", "call", "calling", "undag"}

Opening(l) == {c \in Calls : Opens(CallAt(c[1], c[2]), l)}
Loading(l) == {c \in Calls : Loads(CallAt(c[1], c[2]), l)}
Marking(l) == {c \in Calls : Marks(CallAt(c[1], c[2]), l)}
MarkingDag(l) ==
    {c \in Calls : \E r \in Libs : Marks(CallAt(c[1], c[2]), r) /\ l \in obj[r].dagmembers}

Counts ==
    \A l \in Libs :
        /\ obj[l].dlref = handles[l] + Cardinality(Opening(l))
        /\ obj[l].nref = Cardinality(Loading(l))
        /\ obj[l].closing = Cardinality(Marking(l)) + Cardinality(MarkingDag(l))

\* An object marked as the root of a dlclose is not taken up again.
RootsDead == \A c \in Calls, r \in Libs : Marks(CallAt(c[1], c[2]), r) => obj[r].ref = 0

Live == {l \in Libs : obj[l].ref > 0}

\* A library is listed once.
Distinct == \A i, j \in DOMAIN objlist : objlist[i] = objlist[j] => i = j

\* What is not listed is as _rtld_obj_new leaves it.
Unlisted ==
    \A l \in Libs : ~Listed(l) =>
        /\ obj[l].ref = 0 /\ obj[l].nref = 0 /\ obj[l].closing = 0 /\ obj[l].cxa = 0
        /\ ~obj[l].nodel /\ obj[l].need = {} /\ obj[l].dagmembers = {}

\* How often l is in w.
Occurs(w, l) == Cardinality({i \in 1 .. Len(w) : w[i] = l})

\* The references that the thread with the lock has still to drop or to add.
Due(l) == IF lock \in Threads /\ th[lock].pc = "unref" THEN Occurs(th[lock].work, l) ELSE 0
Pinning(l) == lock \in Threads /\ th[lock].pc = "ref"
              /\ \E i \in 1 .. Len(th[lock].work) : th[lock].work[i] = l

Needers(l) == {m \in Libs : obj[m].ref > 0 /\ l \in obj[m].need}
Base(l) == obj[l].dlref + (IF obj[l].cxa > 0 THEN 1 ELSE 0) + Cardinality(Needers(l)) + Due(l)

References ==
    \A l \in Libs : /\ obj[l].ref >= Base(l)
                    /\ obj[l].nodel /\ ~Pinning(l) => obj[l].ref >= Base(l) + 1

\* m can be reached from l through resolved DT_NEEDED entries of live objects.
Closed(S) == \A x \in S : obj[x].need \subseteq S
Reach(l, m) == \A S \in SUBSET Live : l \in S /\ Closed(S) => m \in S

Members == \A l \in Live : \A m \in obj[l].dagmembers : Reach(l, m)

\* The thread with the lock, in the recursions and in the walk over the list.
Working ==
    \A t \in Threads : lock = t =>
        LET f == th[t] IN
        /\ f.pc = "scan" /\ f.pos # None => Listed(f.pos)
        /\ f.pc = "dag" => \A i \in 1 .. Len(f.work) : Reach(f.root, f.work[i])
        /\ f.pc = "ref" => \A i \in 1 .. Len(f.work) : obj[f.work[i]].ref > 0
        /\ f.pc = "unref" => Listed(f.root) /\ \A m \in obj[f.root].dagmembers : Listed(m)

Unrelocated == {l \in Libs : Listed(l) /\ obj[l].reloc \in {"notyet", "ready"}}
Pending == pending >= Cardinality(Unrelocated)

Dtors == \A l \in Libs : dtors[l] > 0 => obj[l].cxa > 0

IInv == /\ Data /\ (\E U : Frames(U)) /\ Stacks /\ Locals /\ StaleOK
        /\ Counts /\ RootsDead /\ Distinct /\ Unlisted /\ References /\ Members /\ Working
        /\ Pending /\ Dtors

-----------------------------------------------------------------------------
(* Calls *)

\* A call, or what an idle thread has in place of one.
Rec(c) == IF c \in Calls THEN CallAt(c[1], c[2]) ELSE Idle

\* A step that changes one call, from b to g; Idle stands for no call.
Moves(me, b, g) ==
    /\ Rec(me) = b /\ Rec(me)' = g
    /\ \A c \in Threads \X Nat : c # me => Rec(c)' = Rec(c)

\* The constants, as the proofs use them.
LEMMA ConstantFacts ==
    /\ IsFiniteSet(Libs) /\ IsFiniteSet(Threads) /\ None \notin Libs /\ None \notin Threads
    /\ Needs \in [Libs -> Seq(Libs)]
    /\ SizeMax \in Nat /\ SizeMax >= 2
BY ObjectsAssumption

\* An idle thread has nothing open.
LEMMA IdleFacts ==
    /\ \A U : << >> \in U => Idle \in CallOf(U)
    /\ LocalsOK(Idle)
    /\ \A l \in Libs : ~Opens(Idle, l) /\ ~Loads(Idle, l) /\ ~Marks(Idle, l)
<1>1. Idle = [pc |-> "idle", root |-> None, pos |-> None, idx |-> 0, work |-> << >>,
              todo |-> << >>, phase |-> "init", nodelete |-> FALSE]
    BY DEF Idle
<1>2. << >> \in Seq(Libs)
    OBVIOUS
<1>3. \A U : << >> \in U => Idle \in CallOf(U)
    BY <1>1, <1>2 DEF CallOf, Labels
<1> QED
    BY <1>1, <1>3, ConstantFacts DEF LocalsOK, Opens, Loads, Marks

\* Which calls there are.
LEMMA CallsFacts ==
    ASSUME NEW U, Frames(U)
    PROVE  /\ \A t \in Threads : Depth(t) \in Nat
           /\ Calls \subseteq Threads \X Nat
           /\ \A t \in Threads, n \in Nat : << t, n >> \in Calls <=> n <= Depth(t)
           /\ \A t \in Threads : << t, Depth(t) >> \in Calls
<1>1. \A t \in Threads : Depth(t) \in Nat
    BY DEF Frames, Depth
<1>2. ASSUME NEW c \in Calls
      PROVE  \E t \in Threads : c \in {t} \X (0 .. Depth(t))
    BY DEF Calls
<1>3. ASSUME NEW c \in Calls PROVE c \in Threads \X Nat
    BY <1>1, <1>2
<1>4. ASSUME NEW t \in Threads, NEW n \in Nat
      PROVE  << t, n >> \in Calls <=> n <= Depth(t)
    <2>1. ASSUME n <= Depth(t) PROVE << t, n >> \in Calls
        <3>1. << t, n >> \in {t} \X (0 .. Depth(t))
            BY <1>1, <2>1
        <3> QED
            BY <3>1 DEF Calls
    <2>2. ASSUME << t, n >> \in Calls PROVE n <= Depth(t)
        BY <1>1, <1>2, <2>2
    <2> QED
        BY <2>1, <2>2
<1>5. \A t \in Threads : << t, Depth(t) >> \in Calls
    BY <1>1, <1>4
<1> QED
    BY <1>1, <1>3, <1>4, <1>5

\* There are finitely many.
LEMMA CallsFinite ==
    ASSUME NEW U, Frames(U) PROVE IsFiniteSet(Calls)
<1> DEFINE Of(t) == {t} \X (0 .. Depth(t))
<1>1. \A t \in Threads : Depth(t) \in Nat
    BY CallsFacts
<1>2. ASSUME NEW t \in Threads PROVE IsFiniteSet(Of(t))
    <2> DEFINE N == 0 .. Depth(t)  f == [n \in N |-> << t, n >>]
    <2>1. IsFiniteSet(N)
        BY <1>1, FS_Interval
    <2>2. \A c \in Of(t) : c[2] \in N /\ f[c[2]] = c
        OBVIOUS
    <2>3. f \in [N -> Of(t)]
        OBVIOUS
    <2>4. f \in Surjection(N, Of(t))
        BY <2>2, <2>3 DEF Surjection
    <2> HIDE DEF f, N, Of
    <2> QED
        BY <2>1, <2>4, FS_Surjection
<1>3. IsFiniteSet({Of(t) : t \in Threads})
    <2> DEFINE T == {Of(t) : t \in Threads}  f == [t \in Threads |-> Of(t)]
    <2>1. f \in Surjection(Threads, T)
        BY DEF Surjection
    <2>2. IsFiniteSet(Threads)
        BY ConstantFacts
    <2> HIDE DEF f, T
    <2>3. IsFiniteSet(T)
        BY <2>1, <2>2, FS_Surjection
    <2> QED
        BY <2>3 DEF T
<1> HIDE DEF Of
<1>4. IsFiniteSet(UNION {Of(t) : t \in Threads})
    BY <1>2, <1>3, FS_UNION
<1>5. Calls = UNION {Of(t) : t \in Threads}
    BY DEF Calls, Of
<1> QED
    BY <1>4, <1>5

\* The set of calls that have something changes by one at most.
LEMMA Recount ==
    ASSUME NEW X, NEW Y, NEW me, IsFiniteSet(X), IsFiniteSet(Y),
           \A c : c # me => (c \in X <=> c \in Y)
    PROVE  /\ Cardinality(X) \in Nat /\ Cardinality(Y) \in Nat
           /\ Cardinality(Y) + (IF me \in X THEN 1 ELSE 0)
                 = Cardinality(X) + (IF me \in Y THEN 1 ELSE 0)
<1>1. Cardinality(X) \in Nat /\ Cardinality(Y) \in Nat
    BY FS_CardinalityType
<1>2. CASE (me \in X) = (me \in Y)
    <2>1. X = Y
        BY <1>2
    <2> QED
        BY <1>1, <2>1
<1>3. CASE me \in X /\ me \notin Y
    <2>1. Y = X \ {me}
        BY <1>3
    <2>2. Cardinality(X \ {me}) = Cardinality(X) - 1
        BY <1>3, FS_RemoveElement
    <2> QED
        BY <1>1, <1>3, <2>1, <2>2
<1>4. CASE me \notin X /\ me \in Y
    <2>1. Y = X \cup {me}
        BY <1>4
    <2>2. Cardinality(X \cup {me}) = Cardinality(X) + 1
        BY <1>4, FS_AddElement
    <2> QED
        BY <1>1, <1>4, <2>1, <2>2
<1> QED
    BY <1>2, <1>3, <1>4

\* A larger set of lists.
LEMMA Wider ==
    ASSUME NEW U, NEW V PROVE CallOf(U) \subseteq CallOf(U \cup V) /\ CallOf(V) \subseteq CallOf(U \cup V)
BY DEF CallOf

\* What a call is, before and after a step.
LEMMA RecFacts ==
    ASSUME NEW U, Frames(U)
    PROVE  /\ \A t \in Threads : Len(outer[t]) \in Nat
           /\ \A t \in Threads, n \in Nat : Rec(<< t, n >>) =
                 IF n = Len(outer[t]) THEN th[t]
                 ELSE IF n < Len(outer[t]) THEN outer[t][Len(outer[t]) - n] ELSE Idle
BY CallsFacts DEF Rec, CallAt, Depth

\* The same of the next state.
LEMMA RecFactsPrime ==
    ASSUME NEW U, Frames(U)'
    PROVE  /\ \A t \in Threads : Len(outer'[t]) \in Nat
           /\ \A t \in Threads, n \in Nat : Rec(<< t, n >>)' =
                 IF n = Len(outer'[t]) THEN th'[t]
                 ELSE IF n < Len(outer'[t]) THEN outer'[t][Len(outer'[t]) - n] ELSE Idle
<1>1. \A t \in Threads : Len(outer'[t]) \in Nat
    BY DEF Frames
<1>2. ASSUME NEW t \in Threads, NEW n \in Nat
      PROVE  << t, n >> \in Calls' <=> n <= Len(outer'[t])
    <2>1. ASSUME n <= Len(outer'[t]) PROVE << t, n >> \in Calls'
        <3>1. << t, n >> \in {t} \X (0 .. Len(outer'[t]))
            BY <1>1, <2>1
        <3> QED
            BY <3>1 DEF Calls, Depth
    <2>2. ASSUME << t, n >> \in Calls' PROVE n <= Len(outer'[t])
        BY <1>1, <2>2 DEF Calls, Depth
    <2> QED
        BY <2>1, <2>2
<1> QED
    BY <1>1, <1>2 DEF Rec, CallAt, Depth, Idle

\* A thread goes on in its innermost call.
LEMMA LocalStep ==
    ASSUME NEW U, Frames(U), Stacks, NEW t \in Threads, NEW V, NEW g \in CallOf(V),
           th' = [th EXCEPT ![t] = g], outer' = outer,
           lock \in {t, None}, lock' \in {t, None}, th[t].pc # "idle",
           g.pc # "idle", lock' = t => g.pc # "calling", lock' = None => g.pc \in Parked
    PROVE  /\ \E W : Frames(W)'
           /\ Stacks'
           /\ \E me \in Threads \X Nat : me = << t, Depth(t) >> /\ Moves(me, th[t], g)
<1>1. th'[t] = g /\ \A u \in Threads : u # t => th'[u] = th[u]
    BY DEF Frames
<1>2. Frames(U \cup V)'
    <2>1. th' \in [Threads -> CallOf(U \cup V)]
        BY Wider DEF Frames
    <2>2. outer \in [Threads -> Seq(CallOf(U \cup V))]
        BY Wider DEF Frames
    <2> QED
        BY <2>1, <2>2 DEF Frames
<1>3. Stacks'
    <2> SUFFICES ASSUME NEW u \in Threads
                 PROVE  /\ lock' # u => th'[u].pc \in Parked
                        /\ lock' = u => th'[u].pc \notin {"idle", "calling"}
                        /\ th'[u].pc = "idle" <=> outer[u] = << >>
                        /\ \A i \in 1 .. Len(outer[u]) :
                              /\ outer[u][i].pc \in {"idle", "calling"}
                              /\ outer[u][i].pc = "idle" <=> i = Len(outer[u])
        BY DEF Stacks
    <2>1. CASE u = t
        BY <1>1, <2>1, ConstantFacts DEF Stacks
    <2>2. CASE u # t
        BY <1>1, <2>2, ConstantFacts DEF Stacks
    <2> QED
        BY <2>1, <2>2
<1>4. PICK me : me = << t, Depth(t) >>
    OBVIOUS
<1>5. me \in Threads \X Nat /\ me = << t, Len(outer[t]) >>
    BY <1>4, CallsFacts DEF Depth
<1>6. Rec(me) = th[t] /\ Rec(me)' = g
    BY <1>1, <1>2, <1>5, RecFacts, RecFactsPrime
<1>7. ASSUME NEW c \in Threads \X Nat, c # me PROVE Rec(c)' = Rec(c)
    <2>1. PICK u \in Threads, n \in Nat : c = << u, n >>
        OBVIOUS
    <2>2. u # t \/ n # Len(outer[t])
        BY <1>5, <1>7, <2>1
    <2> QED
        BY <1>1, <1>2, <2>1, <2>2, RecFacts, RecFactsPrime
<1> QED
    BY <1>2, <1>3, <1>4, <1>5, <1>6, <1>7 DEF Moves

\* A call begins.
LEMMA EnterStep ==
    ASSUME NEW U, Frames(U), Stacks, NEW t \in Threads, NEW V, NEW g \in CallOf(V),
           Enter(t, g), InCode(t), g.pc \notin {"idle", "calling"}
    PROVE  /\ \E W : Frames(W)'
           /\ Stacks'
           /\ \E me \in Threads \X Nat : me = << t, Depth(t) + 1 >> /\ Moves(me, Idle, g)
<1> DEFINE old == outer[t]  new == << th[t] >> \o old
<1>1. th'[t] = g /\ \A u \in Threads : u # t => th'[u] = th[u]
    BY DEF Frames, Enter
<1>2. outer'[t] = new /\ \A u \in Threads : u # t => outer'[u] = outer[u]
    BY DEF Frames, Enter
<1>3. old \in Seq(CallOf(U \cup V)) /\ << th[t] >> \in Seq(CallOf(U \cup V))
    <2>1. th[t] \in CallOf(U \cup V)
        BY Wider DEF Frames
    <2> QED
        BY <2>1, Wider DEF Frames
<1>4. /\ new \in Seq(CallOf(U \cup V)) /\ Len(old) \in Nat /\ Len(new) = Len(old) + 1
      /\ new[1] = th[t] /\ \A i \in 1 .. Len(old) : new[i + 1] = old[i]
    BY <1>3
<1>5. Frames(U \cup V)'
    <2>1. th' \in [Threads -> CallOf(U \cup V)]
        BY Wider DEF Frames, Enter
    <2>2. outer' \in [Threads -> Seq(CallOf(U \cup V))]
        BY <1>4, Wider, SMTT(60) DEF Frames, Enter
    <2> QED
        BY <2>1, <2>2 DEF Frames
<1>6. lock = None /\ lock' = t /\ th[t].pc \in {"idle", "calling"}
    BY DEF InCode, Enter
<1> HIDE DEF old, new
<1>7. ASSUME NEW u \in Threads
      PROVE  /\ lock' # u => th'[u].pc \in Parked
             /\ lock' = u => th'[u].pc \notin {"idle", "calling"}
             /\ th'[u].pc = "idle" <=> outer'[u] = << >>
             /\ \A i \in 1 .. Len(outer'[u]) :
                   /\ outer'[u][i].pc \in {"idle", "calling"}
                   /\ outer'[u][i].pc = "idle" <=> i = Len(outer'[u])
    <2>1. CASE u = t
        <3>1. outer'[t] # << >>
            BY <1>2, <1>4
        <3>2. ASSUME NEW i \in 1 .. Len(new)
              PROVE  /\ new[i].pc \in {"idle", "calling"}
                     /\ new[i].pc = "idle" <=> i = Len(new)
            <4>1. CASE i = 1
                <5>1. th[t].pc = "idle" <=> Len(old) = 0
                    BY <1>4 DEF Stacks, old, Frames
                <5> QED
                    BY <1>4, <1>6, <4>1, <5>1
            <4>2. CASE i # 1
                <5>1. i - 1 \in 1 .. Len(old) /\ new[i] = old[i - 1]
                    BY <1>4, <4>2
                <5>2. /\ old[i - 1].pc \in {"idle", "calling"}
                      /\ old[i - 1].pc = "idle" <=> i - 1 = Len(old)
                    BY <5>1 DEF Stacks, old
                <5> QED
                    BY <1>4, <5>1, <5>2
            <4> QED
                BY <4>1, <4>2
        <3> QED
            BY <1>1, <1>2, <1>6, <2>1, <3>1, <3>2
    <2>2. CASE u # t
        BY <1>1, <1>2, <1>6, <2>2, ConstantFacts DEF Stacks
    <2> QED
        BY <2>1, <2>2
<1>8. PICK me : me = << t, Depth(t) + 1 >>
    OBVIOUS
<1>9. me \in Threads \X Nat /\ me = << t, Len(old) + 1 >>
    BY <1>4, <1>8 DEF Depth, old
<1>10. Rec(me) = Idle /\ Rec(me)' = g
    BY <1>1, <1>2, <1>4, <1>5, <1>9, RecFacts, RecFactsPrime DEF old
<1>11. ASSUME NEW c \in Threads \X Nat, c # me PROVE Rec(c)' = Rec(c)
    <2>1. PICK u \in Threads, n \in Nat : c = << u, n >>
        OBVIOUS
    <2>2. CASE u # t
        BY <1>1, <1>2, <1>5, <2>1, <2>2, RecFacts, RecFactsPrime
    <2>3. CASE u = t
        <3>1. n # Len(old) + 1
            BY <1>9, <1>11, <2>1, <2>3
        <3>2. /\ Rec(c) = IF n = Len(old) THEN th[t]
                          ELSE IF n < Len(old) THEN old[Len(old) - n] ELSE Idle
              /\ Rec(c)' = IF n = Len(new) THEN g
                           ELSE IF n < Len(new) THEN new[Len(new) - n] ELSE Idle
            BY <1>1, <1>2, <1>5, <2>1, <2>3, RecFacts, RecFactsPrime DEF old
        <3>3. CASE n = Len(old)
            BY <1>4, <3>2, <3>3
        <3>4. CASE n < Len(old)
            <4>1. Len(old) - n \in 1 .. Len(old) /\ Len(new) - n = (Len(old) - n) + 1
                BY <1>4, <3>4
            <4>2. new[Len(new) - n] = old[Len(old) - n]
                BY <1>4, <4>1
            <4> QED
                BY <1>4, <3>2, <3>4, <4>2
        <3>5. CASE n > Len(old)
            BY <1>4, <3>1, <3>2, <3>5
        <3> QED
            BY <1>4, <3>3, <3>4, <3>5
    <2> QED
        BY <2>2, <2>3
<1> QED
    BY <1>5, <1>7, <1>8, <1>9, <1>10, <1>11 DEF Moves, Stacks

\* A call returns.
LEMMA FinishStep ==
    ASSUME NEW U, Frames(U), Stacks, NEW t \in Threads, lock = t, Finish(t)
    PROVE  /\ \E W : Frames(W)'
           /\ Stacks'
           /\ \E me \in Threads \X Nat : me = << t, Depth(t) >> /\ Moves(me, th[t], Idle)
<1> DEFINE old == outer[t]  new == Tail(old)
<1>1. th'[t] = Head(old) /\ \A u \in Threads : u # t => th'[u] = th[u]
    BY DEF Frames, Finish
<1>2. outer'[t] = new /\ \A u \in Threads : u # t => outer'[u] = outer[u]
    BY DEF Frames, Finish
<1>3. old \in Seq(CallOf(U)) /\ old # << >>
    BY DEF Frames, Stacks
<1>4. /\ new \in Seq(CallOf(U)) /\ Len(old) \in Nat \ {0} /\ Len(new) = Len(old) - 1
      /\ Head(old) = old[1] /\ old[1] \in CallOf(U) /\ \A i \in 1 .. Len(new) : new[i] = old[i + 1]
    BY <1>3
<1>5. Frames(U)'
    <2>1. th' \in [Threads -> CallOf(U)]
        BY <1>4 DEF Frames, Finish
    <2>2. outer' \in [Threads -> Seq(CallOf(U))]
        BY <1>4 DEF Frames, Finish
    <2> QED
        BY <2>1, <2>2 DEF Frames
<1>6. lock' = None
    BY DEF Finish
<1> HIDE DEF old, new
<1>7. ASSUME NEW u \in Threads
      PROVE  /\ lock' # u => th'[u].pc \in Parked
             /\ lock' = u => th'[u].pc \notin {"idle", "calling"}
             /\ th'[u].pc = "idle" <=> outer'[u] = << >>
             /\ \A i \in 1 .. Len(outer'[u]) :
                   /\ outer'[u][i].pc \in {"idle", "calling"}
                   /\ outer'[u][i].pc = "idle" <=> i = Len(outer'[u])
    <2>1. CASE u = t
        <3>1. new = << >> <=> Len(new) = 0
            BY <1>4
        <3>2. /\ old[1].pc \in {"idle", "calling"}
              /\ old[1].pc = "idle" <=> 1 = Len(old)
              /\ new = << >> <=> 1 = Len(old)
            <4>1. 1 \in 1 .. Len(old)
                BY <1>4
            <4> QED
                BY <1>4, <3>1, <4>1 DEF Stacks, old
        <3>3. ASSUME NEW i \in 1 .. Len(new)
              PROVE  /\ new[i].pc \in {"idle", "calling"}
                     /\ new[i].pc = "idle" <=> i = Len(new)
            <4>1. i + 1 \in 1 .. Len(old) /\ new[i] = old[i + 1]
                BY <1>4
            <4>2. /\ old[i + 1].pc \in {"idle", "calling"}
                  /\ old[i + 1].pc = "idle" <=> i + 1 = Len(old)
                BY <4>1 DEF Stacks, old
            <4> QED
                BY <1>4, <4>1, <4>2
        <3> QED
            BY <1>1, <1>2, <1>4, <1>6, <2>1, <3>2, <3>3, ConstantFacts DEF Parked
    <2>2. CASE u # t
        BY <1>1, <1>2, <1>6, <2>2, ConstantFacts DEF Stacks
    <2> QED
        BY <2>1, <2>2
<1>8. PICK me : me = << t, Depth(t) >>
    OBVIOUS
<1>9. me \in Threads \X Nat /\ me = << t, Len(old) >>
    BY <1>4, <1>8 DEF Depth, old
<1>10. Rec(me) = th[t] /\ Rec(me)' = Idle
    BY <1>1, <1>2, <1>4, <1>5, <1>9, RecFacts, RecFactsPrime DEF old
<1>11. ASSUME NEW c \in Threads \X Nat, c # me PROVE Rec(c)' = Rec(c)
    <2>1. PICK u \in Threads, n \in Nat : c = << u, n >>
        OBVIOUS
    <2>2. CASE u # t
        BY <1>1, <1>2, <1>5, <2>1, <2>2, RecFacts, RecFactsPrime
    <2>3. CASE u = t
        <3>1. n # Len(old)
            BY <1>9, <1>11, <2>1, <2>3
        <3>2. /\ Rec(c) = IF n = Len(old) THEN th[t]
                          ELSE IF n < Len(old) THEN old[Len(old) - n] ELSE Idle
              /\ Rec(c)' = IF n = Len(new) THEN old[1]
                           ELSE IF n < Len(new) THEN new[Len(new) - n] ELSE Idle
            BY <1>1, <1>2, <1>4, <1>5, <2>1, <2>3, RecFacts, RecFactsPrime DEF old
        <3>3. CASE n = Len(new)
            BY <1>4, <3>2, <3>3
        <3>4. CASE n < Len(new)
            <4>1. Len(new) - n \in 1 .. Len(new) /\ Len(old) - n = (Len(new) - n) + 1
                BY <1>4, <3>4
            <4>2. new[Len(new) - n] = old[Len(old) - n]
                BY <1>4, <4>1
            <4> QED
                BY <1>4, <3>2, <3>4, <4>2
        <3>5. CASE n > Len(new)
            BY <1>4, <3>1, <3>2, <3>5
        <3> QED
            BY <1>4, <3>3, <3>4, <3>5
    <2> QED
        BY <2>2, <2>3
<1> QED
    BY <1>5, <1>7, <1>8, <1>9, <1>10, <1>11 DEF Moves, Stacks

-----------------------------------------------------------------------------
(* Counts over calls *)

\* The calls that are counted, before and after a step.
LEMMA CountedSets ==
    ASSUME NEW U, Frames(U)
    PROVE  \A l \in Libs :
              /\ \A c : c \in Opening(l) <=> c \in Threads \X Nat /\ Opens(Rec(c), l)
              /\ \A c : c \in Loading(l) <=> c \in Threads \X Nat /\ Loads(Rec(c), l)
              /\ \A c : c \in Marking(l) <=> c \in Threads \X Nat /\ Marks(Rec(c), l)
              /\ \A c : c \in MarkingDag(l) <=>
                    c \in Threads \X Nat
                    /\ \E r \in Libs : Marks(Rec(c), r) /\ l \in obj[r].dagmembers
<1>1. \A c : c \in Calls => c \in Threads \X Nat /\ Rec(c) = CallAt(c[1], c[2])
    BY CallsFacts DEF Rec
<1>2. \A c : c \notin Calls => Rec(c) = Idle
    BY DEF Rec
<1> QED
    BY <1>1, <1>2, IdleFacts DEF Opening, Loading, Marking, MarkingDag

\* The same of the next state.
LEMMA CountedSetsPrime ==
    ASSUME NEW U, Frames(U)'
    PROVE  \A l \in Libs :
              /\ \A c : c \in Opening(l)' <=> c \in Threads \X Nat /\ Opens(Rec(c)', l)
              /\ \A c : c \in Loading(l)' <=> c \in Threads \X Nat /\ Loads(Rec(c)', l)
              /\ \A c : c \in Marking(l)' <=> c \in Threads \X Nat /\ Marks(Rec(c)', l)
              /\ \A c : c \in MarkingDag(l)' <=>
                    c \in Threads \X Nat
                    /\ \E r \in Libs : Marks(Rec(c)', r) /\ l \in obj'[r].dagmembers
<1>1. \A t \in Threads : Len(outer'[t]) \in Nat
    BY DEF Frames
<1>2. \A c : c \in Calls' => c \in Threads \X Nat /\ Rec(c)' = CallAt(c[1], c[2])'
    BY <1>1 DEF Rec, Calls, Depth
<1>3. \A c : c \notin Calls' => Rec(c)' = Idle
    BY DEF Rec, Idle
<1>4. \A l \in Libs : \A c : c \in Opening(l)' <=> c \in Calls' /\ Opens(CallAt(c[1], c[2])', l)
    BY DEF Opening, Opens
<1>5. \A l \in Libs : \A c : c \in Loading(l)' <=> c \in Calls' /\ Loads(CallAt(c[1], c[2])', l)
    BY DEF Loading, Loads
<1>6. \A l \in Libs : \A c : c \in Marking(l)' <=> c \in Calls' /\ Marks(CallAt(c[1], c[2])', l)
    BY DEF Marking, Marks
<1>7. \A l \in Libs : \A c : c \in MarkingDag(l)' <=>
           c \in Calls' /\ \E r \in Libs : Marks(CallAt(c[1], c[2])', r) /\ l \in obj'[r].dagmembers
    BY DEF MarkingDag, Marks
<1> QED
    BY <1>2, <1>3, <1>4, <1>5, <1>6, <1>7, IdleFacts

\* Counted sets are finite.
LEMMA CountedFinite ==
    ASSUME NEW U, Frames(U)
    PROVE  \A l \in Libs : /\ IsFiniteSet(Opening(l)) /\ IsFiniteSet(Loading(l))
                           /\ IsFiniteSet(Marking(l)) /\ IsFiniteSet(MarkingDag(l))
<1>1. IsFiniteSet(Calls)
    BY CallsFinite
<1>2. \A l \in Libs : /\ Opening(l) \subseteq Calls /\ Loading(l) \subseteq Calls
                      /\ Marking(l) \subseteq Calls /\ MarkingDag(l) \subseteq Calls
    BY DEF Opening, Loading, Marking, MarkingDag
<1> QED
    BY <1>1, <1>2, FS_Subset

\* What a step of one call does to a counted set.
LEMMA OneMore ==
    ASSUME NEW X, NEW Y, NEW me, IsFiniteSet(X), \A c : c # me => (c \in X <=> c \in Y)
    PROVE  /\ IsFiniteSet(Y) /\ Cardinality(X) \in Nat /\ Cardinality(Y) \in Nat
           /\ Cardinality(Y) + (IF me \in X THEN 1 ELSE 0)
                 = Cardinality(X) + (IF me \in Y THEN 1 ELSE 0)
<1>1. Y \subseteq X \cup {me}
    OBVIOUS
<1>2. IsFiniteSet(X \cup {me})
    BY FS_AddElement
<1>3. IsFiniteSet(Y)
    BY <1>1, <1>2, FS_Subset
<1> QED
    BY <1>3, Recount

\* How a step of one call changes the sets behind the three counts.
LEMMA CountMoves ==
    ASSUME NEW U, Frames(U), NEW W, Frames(W)', NEW me \in Threads \X Nat, NEW b, NEW g,
           Moves(me, b, g), NEW l \in Libs
    PROVE  /\ Cardinality(Opening(l)) \in Nat /\ Cardinality(Opening(l)') \in Nat
           /\ Cardinality(Opening(l)') + (IF Opens(b, l) THEN 1 ELSE 0)
                 = Cardinality(Opening(l)) + (IF Opens(g, l) THEN 1 ELSE 0)
           /\ Cardinality(Loading(l)) \in Nat /\ Cardinality(Loading(l)') \in Nat
           /\ Cardinality(Loading(l)') + (IF Loads(b, l) THEN 1 ELSE 0)
                 = Cardinality(Loading(l)) + (IF Loads(g, l) THEN 1 ELSE 0)
           /\ Cardinality(Marking(l)) \in Nat /\ Cardinality(Marking(l)') \in Nat
           /\ Cardinality(Marking(l)') + (IF Marks(b, l) THEN 1 ELSE 0)
                 = Cardinality(Marking(l)) + (IF Marks(g, l) THEN 1 ELSE 0)
<1> DEFINE o == Opening(l)  o1 == Opening(l)'  d == Loading(l)  d1 == Loading(l)'
           m == Marking(l)  m1 == Marking(l)'
<1>1. IsFiniteSet(o) /\ IsFiniteSet(d) /\ IsFiniteSet(m)
    BY CountedFinite
<1>2. /\ \A c : c # me => (c \in o <=> c \in o1)
      /\ me \in o <=> Opens(b, l)
      /\ me \in o1 <=> Opens(g, l)
    BY CountedSets, CountedSetsPrime DEF Moves
<1>3. /\ \A c : c # me => (c \in d <=> c \in d1)
      /\ me \in d <=> Loads(b, l)
      /\ me \in d1 <=> Loads(g, l)
    BY CountedSets, CountedSetsPrime DEF Moves
<1>4. /\ \A c : c # me => (c \in m <=> c \in m1)
      /\ me \in m <=> Marks(b, l)
      /\ me \in m1 <=> Marks(g, l)
    BY CountedSets, CountedSetsPrime DEF Moves
<1> HIDE DEF o, o1, d, d1, m, m1
<1>5. /\ Cardinality(o) \in Nat /\ Cardinality(o1) \in Nat
      /\ Cardinality(o1) + (IF Opens(b, l) THEN 1 ELSE 0)
            = Cardinality(o) + (IF Opens(g, l) THEN 1 ELSE 0)
    BY <1>1, <1>2, OneMore
<1>6. /\ Cardinality(d) \in Nat /\ Cardinality(d1) \in Nat
      /\ Cardinality(d1) + (IF Loads(b, l) THEN 1 ELSE 0)
            = Cardinality(d) + (IF Loads(g, l) THEN 1 ELSE 0)
    BY <1>1, <1>3, OneMore
<1>7. /\ Cardinality(m) \in Nat /\ Cardinality(m1) \in Nat
      /\ Cardinality(m1) + (IF Marks(b, l) THEN 1 ELSE 0)
            = Cardinality(m) + (IF Marks(g, l) THEN 1 ELSE 0)
    BY <1>1, <1>4, OneMore
<1> QED
    BY <1>5, <1>6, <1>7 DEF o, o1, d, d1, m, m1

\* The DAGs of marked roots do not change.
LEMMA CountDag ==
    ASSUME NEW U, Frames(U), NEW W, Frames(W)', NEW me \in Threads \X Nat, NEW b, NEW g,
           Moves(me, b, g), NEW l \in Libs,
           \A r \in Libs, c \in Threads \X Nat :
              Marks(Rec(c), r) \/ Marks(Rec(c)', r) => obj'[r].dagmembers = obj[r].dagmembers
    PROVE  /\ Cardinality(MarkingDag(l)) \in Nat /\ Cardinality(MarkingDag(l)') \in Nat
           /\ Cardinality(MarkingDag(l)')
                 + (IF \E r \in Libs : Marks(b, r) /\ l \in obj[r].dagmembers THEN 1 ELSE 0)
              = Cardinality(MarkingDag(l))
                 + (IF \E r \in Libs : Marks(g, r) /\ l \in obj[r].dagmembers THEN 1 ELSE 0)
<1> DEFINE o == MarkingDag(l)  o1 == MarkingDag(l)'
           B == \E r \in Libs : Marks(b, r) /\ l \in obj[r].dagmembers
           G == \E r \in Libs : Marks(g, r) /\ l \in obj[r].dagmembers
<1>1. IsFiniteSet(o)
    BY CountedFinite
<1>2. \A c : c # me => (c \in o <=> c \in o1)
    BY CountedSets, CountedSetsPrime DEF Moves
<1>3. me \in o <=> B
    BY CountedSets DEF Moves
<1>4. me \in o1 <=> G
    BY CountedSetsPrime DEF Moves
<1> HIDE DEF o, o1, B, G
<1>5. /\ Cardinality(o) \in Nat /\ Cardinality(o1) \in Nat
      /\ Cardinality(o1) + (IF B THEN 1 ELSE 0) = Cardinality(o) + (IF G THEN 1 ELSE 0)
    BY <1>1, <1>2, <1>3, <1>4, OneMore
<1> QED
    BY <1>5 DEF o, o1, B, G

-----------------------------------------------------------------------------
(* Lists of libraries *)

\* A set of numbers that is not empty has a smallest one.
LEMMA SmallestIn ==
    ASSUME NEW S \in SUBSET Nat, S # {} PROVE \E n \in S : \A m \in S : n <= m
<1> DEFINE R == {xy \in Nat \X Nat : xy[1] < xy[2]}
<1>1. IsWellFoundedOn(R, Nat)
    BY NatLessThanWellFounded, Zenon DEF OpToRel
<1>2. \A x, y \in Nat : << y, x >> \in R <=> y < x
    OBVIOUS
<1> HIDE DEF R
<1>3. PICK n \in S : \A m \in S : ~(<< m, n >> \in R)
    BY <1>1, WFMin
<1>4. ASSUME NEW m \in S PROVE n <= m
    <2>1. m \in Nat /\ n \in Nat /\ ~(m < n)
        BY <1>2, <1>3
    <2> QED
        BY <2>1
<1> QED
    BY <1>4

\* A list built up by appending to what is built so far exists.
LEMMA BuiltUp ==
    ASSUME NEW n \in Nat, NEW E
    PROVE  \E f : f = [i \in 0 .. n |-> IF i = 0 THEN << >> ELSE f[i - 1] \o E[i]]
<1> DEFINE P(k) == \E f : f = [i \in 0 .. k |-> IF i = 0 THEN << >> ELSE f[i - 1] \o E[i]]
           Bad == {k \in Nat : ~P(k)}
<1>1. P(0)
    <2> DEFINE f == [i \in 0 .. 0 |-> << >>]
    <2>1. f = [i \in 0 .. 0 |-> IF i = 0 THEN << >> ELSE f[i - 1] \o E[i]]
        OBVIOUS
    <2> QED
        BY <2>1
<1>2. ASSUME NEW k \in Nat, P(k) PROVE P(k + 1)
    <2>1. PICK f : f = [i \in 0 .. k |-> IF i = 0 THEN << >> ELSE f[i - 1] \o E[i]]
        BY <1>2
    <2> DEFINE g == [i \in 0 .. k + 1 |-> IF i <= k THEN f[i] ELSE f[k] \o E[k + 1]]
    <2>2. ASSUME NEW i \in 0 .. k + 1
          PROVE  g[i] = IF i = 0 THEN << >> ELSE g[i - 1] \o E[i]
        <3>1. CASE i = 0
            BY <2>1, <3>1
        <3>2. CASE i # 0 /\ i <= k
            <4>1. i \in 0 .. k /\ i - 1 \in 0 .. k + 1 /\ i - 1 <= k
                BY <3>2
            <4>2. f[i] = f[i - 1] \o E[i]
                BY <2>1, <3>2, <4>1
            <4> QED
                BY <3>2, <4>1, <4>2
        <3>3. CASE i = k + 1
            BY <3>3
        <3> QED
            BY <3>1, <3>2, <3>3
    <2>3. g = [i \in 0 .. k + 1 |-> g[i]]
        OBVIOUS
    <2>4. g = [i \in 0 .. k + 1 |-> IF i = 0 THEN << >> ELSE g[i - 1] \o E[i]]
        <3> HIDE DEF g
        <3> QED
            BY <2>2, <2>3
    <2> HIDE DEF g
    <2> QED
        BY <2>4
<1> HIDE DEF P
<1>3. CASE Bad = {}
    <2>1. P(n)
        BY <1>3
    <2> QED
        BY <2>1 DEF P
<1>4. CASE Bad # {}
    <2>1. PICK k \in Bad : \A m \in Bad : k <= m
        BY <1>4, SmallestIn
    <2>2. k # 0 /\ k \in Nat /\ ~P(k)
        BY <1>1, <2>1
    <2>3. k - 1 \in Nat /\ k - 1 \notin Bad
        BY <2>1, <2>2
    <2>4. P((k - 1) + 1)
        BY <1>2, <2>3
    <2> QED
        BY <2>2, <2>4
<1> QED
    BY <1>3, <1>4

\* The resolved entries of an object are libraries that it needs, each once.
LEMMA NeededFacts ==
    ASSUME NEW l \in Libs, obj[l].need \subseteq Libs
    PROVE  /\ Needed(l) \in Seq(Libs)
           /\ \A i \in 1 .. Len(Needed(l)) : Needed(l)[i] \in obj[l].need
           /\ \A i, j \in 1 .. Len(Needed(l)) : Needed(l)[i] = Needed(l)[j] => i = j
<1> DEFINE s == Needs[l]  n == Len(s)
           E == [i \in 1 .. n |-> IF s[i] \in obj[l].need THEN << s[i] >> ELSE << >>]
           Built(g) == g = [i \in 0 .. n |-> IF i = 0 THEN << >>
                         ELSE g[i - 1] \o IF s[i] \in obj[l].need THEN << s[i] >> ELSE << >>]
           f == CHOOSE g : Built(g)
           Good(w, k) == /\ w \in Seq(Libs)
                         /\ \A i \in 1 .. Len(w) : w[i] \in obj[l].need
                         /\ \A i \in 1 .. Len(w) : \E x \in 1 .. k : w[i] = s[x]
                         /\ \A i, j \in 1 .. Len(w) : w[i] = w[j] => i = j
           Bad == {k \in 0 .. n : ~Good(f[k], k)}
<1>1. s \in Seq(Libs) /\ n \in Nat
    BY ConstantFacts
<1>2. \A i, j \in 1 .. n : s[i] = s[j] => i = j
    BY ObjectsAssumption
<1>3. Needed(l) = f[n]
    BY DEF Needed
<1>4. \A i \in 0 .. n : i # 0 => E[i] = IF s[i] \in obj[l].need THEN << s[i] >> ELSE << >>
    BY <1>1
<1>5. \E g : Built(g)
    <2> HIDE DEF E
    <2>1. PICK g : g = [i \in 0 .. n |-> IF i = 0 THEN << >> ELSE g[i - 1] \o E[i]]
        BY <1>1, BuiltUp
    <2>2. Built(g)
        BY <1>4, <2>1
    <2> QED
        BY <2>2
<1>6. Built(f)
    <2> HIDE DEF Built
    <2> QED
        BY <1>5
<1> HIDE DEF f
<1>7. Good(f[0], 0)
    <2>1. f[0] = << >>
        BY <1>1, <1>6
    <2> QED
        BY <2>1
<1>8. ASSUME NEW k \in 0 .. n, k # 0, Good(f[k - 1], k - 1) PROVE Good(f[k], k)
    <2> DEFINE w == f[k - 1]
    <2>1. f[k] = w \o IF s[k] \in obj[l].need THEN << s[k] >> ELSE << >>
        BY <1>6, <1>8
    <2>2. w \in Seq(Libs) /\ Len(w) \in Nat /\ k \in 1 .. n
        BY <1>1, <1>8
    <2>3. CASE s[k] \notin obj[l].need
        <3>1. f[k] = w
            <4>1. f[k] = w \o << >>
                BY <2>1, <2>3
            <4>2. w \o << >> = w
                BY <2>2
            <4> QED
                BY <4>1, <4>2
        <3>2. \A x : x \in 1 .. (k - 1) => x \in 1 .. k
            BY <2>2, <1>1
        <3> QED
            BY <1>8, <3>1, <3>2
    <2>4. CASE s[k] \in obj[l].need
        <3> DEFINE v == w \o << s[k] >>
        <3>1. f[k] = v
            BY <2>1, <2>4
        <3>2. /\ v \in Seq(Libs) /\ Len(v) = Len(w) + 1 /\ v[Len(w) + 1] = s[k]
              /\ \A i \in 1 .. Len(w) : v[i] = w[i]
            BY <2>2, <2>4
        <3> HIDE DEF v
        <3>3. ASSUME NEW i \in 1 .. Len(v)
              PROVE  /\ v[i] \in obj[l].need
                     /\ \E x \in 1 .. k : v[i] = s[x]
            <4>1. CASE i = Len(w) + 1
                BY <2>2, <2>4, <3>2, <4>1
            <4>2. CASE i # Len(w) + 1
                <5>1. i \in 1 .. Len(w) /\ v[i] = w[i]
                    BY <2>2, <3>2, <4>2
                <5>2. PICK x \in 1 .. (k - 1) : w[i] = s[x]
                    BY <1>8, <5>1
                <5>3. x \in 1 .. k
                    BY <1>1, <2>2
                <5> QED
                    BY <1>8, <5>1, <5>2, <5>3
            <4> QED
                BY <4>1, <4>2
        <3>4. ASSUME NEW i \in 1 .. Len(v), NEW j \in 1 .. Len(v), v[i] = v[j], i < j
              PROVE  FALSE
            <4>1. i \in 1 .. Len(w) /\ v[i] = w[i]
                BY <2>2, <3>2, <3>4
            <4>2. CASE j = Len(w) + 1
                <5>1. PICK x \in 1 .. (k - 1) : w[i] = s[x]
                    BY <1>8, <4>1
                <5>2. x \in 1 .. n /\ x # k
                    BY <1>1, <2>2
                <5> QED
                    BY <1>2, <2>2, <3>2, <3>4, <4>1, <4>2, <5>1, <5>2
            <4>3. CASE j # Len(w) + 1
                <5>1. j \in 1 .. Len(w) /\ v[j] = w[j]
                    BY <2>2, <3>2, <4>3
                <5>2. i = j
                    BY <1>8, <3>4, <4>1, <5>1
                <5> QED
                    BY <2>2, <3>4, <5>2
            <4> QED
                BY <4>2, <4>3
        <3>5. \A i, j \in 1 .. Len(v) : v[i] = v[j] => i = j
            <4>1. ASSUME NEW i \in 1 .. Len(v), NEW j \in 1 .. Len(v), v[i] = v[j], i # j
                  PROVE  FALSE
                <5>1. i < j \/ j < i
                    BY <2>2, <3>2, <4>1
                <5> QED
                    BY <3>4, <4>1, <5>1
            <4> QED
                BY <4>1
        <3> QED
            BY <3>1, <3>2, <3>3, <3>5
    <2> QED
        BY <2>3, <2>4
<1> HIDE DEF Good
<1>9. CASE Bad = {}
    <2>1. Good(f[n], n)
        BY <1>1, <1>9
    <2> QED
        BY <1>3, <2>1 DEF Good
<1>10. CASE Bad # {}
    <2>1. Bad \in SUBSET Nat
        BY <1>1
    <2>2. PICK k \in Bad : \A m \in Bad : k <= m
        BY <1>10, <2>1, SmallestIn
    <2>3. k \in 0 .. n /\ k # 0 /\ ~Good(f[k], k)
        BY <1>7, <2>2
    <2>4. k - 1 \in 0 .. n /\ k - 1 \notin Bad
        BY <1>1, <2>2, <2>3
    <2>5. Good(f[k - 1], k - 1)
        BY <2>4
    <2> QED
        BY <1>8, <2>3, <2>5
<1> QED
    BY <1>9, <1>10

\* How often a library is in two lists, one after the other.
LEMMA OccursCat ==
    ASSUME NEW v \in Seq(Libs), NEW w \in Seq(Libs), NEW l \in Libs
    PROVE  /\ Occurs(v, l) \in Nat /\ Occurs(w, l) \in Nat
           /\ Occurs(v \o w, l) = Occurs(v, l) + Occurs(w, l)
<1> DEFINE x == v \o w
           A == {i \in 1 .. Len(v) : v[i] = l}
           B == {i \in 1 .. Len(w) : w[i] = l}
           C == {i \in 1 .. Len(x) : x[i] = l}
           D == C \ A
           f == [i \in B |-> i + Len(v)]
<1>1. /\ Len(v) \in Nat /\ Len(w) \in Nat /\ Len(x) = Len(v) + Len(w)
      /\ \A i \in 1 .. Len(v) : x[i] = v[i]
      /\ \A i \in 1 .. Len(w) : x[i + Len(v)] = w[i]
    OBVIOUS
<1> HIDE DEF x
<1>2. IsFiniteSet(A) /\ IsFiniteSet(B) /\ IsFiniteSet(C)
    <2>1. \A n \in Nat : IsFiniteSet(1 .. n)
        BY FS_Interval
    <2>2. Len(x) \in Nat /\ A \subseteq 1 .. Len(v) /\ B \subseteq 1 .. Len(w) /\ C \subseteq 1 .. Len(x)
        BY <1>1
    <2> HIDE DEF A, B, C
    <2> QED
        BY <1>1, <2>1, <2>2, FS_Subset
<1>3. A \subseteq C
    BY <1>1
<1>4. f \in Bijection(B, D)
    <2>1. ASSUME NEW i \in B PROVE i + Len(v) \in D
        BY <1>1
    <2>2. ASSUME NEW j \in D PROVE j - Len(v) \in B /\ (j - Len(v)) + Len(v) = j
        <3>1. j \in 1 .. Len(x) /\ x[j] = l
            OBVIOUS
        <3>2. j \notin 1 .. Len(v)
            BY <1>1, <3>1
        <3>3. j - Len(v) \in 1 .. Len(w) /\ (j - Len(v)) + Len(v) = j
            BY <1>1, <3>1, <3>2
        <3>4. x[(j - Len(v)) + Len(v)] = w[j - Len(v)]
            BY <1>1, <3>3
        <3> QED
            BY <3>1, <3>3, <3>4
    <2>3. \A i, j \in B : i + Len(v) = j + Len(v) => i = j
        BY <1>1
    <2> HIDE DEF B, D
    <2>4. f \in [B -> D]
        BY <2>1
    <2>5. \A i, j \in B : f[i] = f[j] => i = j
        BY <2>3
    <2>6. \A j \in D : \E i \in B : f[i] = j
        BY <2>2
    <2> HIDE DEF f
    <2>7. f \in Injection(B, D)
        BY <2>4, <2>5 DEF Injection, IsInjective
    <2>8. f \in Surjection(B, D)
        BY <2>4, <2>6 DEF Surjection
    <2> QED
        BY <2>7, <2>8 DEF Bijection
<1>5. IsFiniteSet(D)
    BY <1>2, FS_Subset
<1>6. C = A \cup D /\ A \cap D = {}
    BY <1>3
<1> HIDE DEF A, B, C, D, f
<1>7. Cardinality(D) = Cardinality(B)
    <2>1. ExistsBijection(B, D)
        BY <1>4 DEF ExistsBijection
    <2> QED
        BY <1>2, <2>1, FS_Bijection
<1>8. Cardinality(A \cup D) = Cardinality(A) + Cardinality(D) - Cardinality(A \cap D)
    BY <1>2, <1>5, FS_Union
<1>9. Cardinality({}) = 0
    BY FS_EmptySet
<1>10. Cardinality(A) \in Nat /\ Cardinality(B) \in Nat
    BY <1>2, FS_CardinalityType
<1>11. Cardinality(C) = Cardinality(A) + Cardinality(B)
    <2>1. Cardinality(C) = Cardinality(A \cup D) /\ Cardinality(A \cap D) = 0
        BY <1>6, <1>9
    <2> QED
        BY <1>7, <1>8, <1>10, <2>1
<1> QED
    BY <1>10, <1>11 DEF Occurs, A, B, C, x

\* A library that is not in a list, and one that is in it once.
LEMMA OccursOnce ==
    ASSUME NEW w \in Seq(Libs), NEW l \in Libs,
           \A i, j \in 1 .. Len(w) : w[i] = w[j] => i = j
    PROVE  Occurs(w, l) = IF \E i \in 1 .. Len(w) : w[i] = l THEN 1 ELSE 0
<1> DEFINE A == {i \in 1 .. Len(w) : w[i] = l}
<1>1. CASE \E i \in 1 .. Len(w) : w[i] = l
    <2>1. PICK i \in 1 .. Len(w) : w[i] = l
        BY <1>1
    <2>2. A = {i}
        BY <2>1
    <2>3. Cardinality({i}) = 1
        BY FS_Singleton
    <2> HIDE DEF A
    <2>4. Cardinality(A) = 1
        BY <2>2, <2>3
    <2> QED
        BY <1>1, <2>4 DEF Occurs, A
<1>2. CASE ~\E i \in 1 .. Len(w) : w[i] = l
    <2>1. A = {}
        BY <1>2
    <2> HIDE DEF A
    <2>2. Cardinality(A) = 0
        BY <2>1, FS_EmptySet
    <2> QED
        BY <1>2, <2>2 DEF Occurs, A
<1> QED
    BY <1>1, <1>2

\* A library that is in a list is in it at least once.
LEMMA OccursSome ==
    ASSUME NEW w \in Seq(Libs), NEW i \in 1 .. Len(w)
    PROVE  Occurs(w, w[i]) >= 1
<1> DEFINE A == {j \in 1 .. Len(w) : w[j] = w[i]}
<1>1. IsFiniteSet(A)
    <2>1. IsFiniteSet(1 .. Len(w))
        BY FS_Interval
    <2> QED
        BY <2>1, FS_Subset
<1>2. i \in A
    OBVIOUS
<1> HIDE DEF A
<1>3. Cardinality(A) \in Nat /\ Cardinality(A) # 0
    BY <1>1, <1>2, FS_CardinalityType, FS_EmptySet
<1>4. Cardinality(A) >= 1
    BY <1>3
<1> QED
    BY <1>4 DEF Occurs, A

\* Lists of length nought and one.
LEMMA OccursShort ==
    ASSUME NEW l \in Libs
    PROVE  /\ Occurs(<< >>, l) = 0
           /\ \A x \in Libs : Occurs(<< x >>, l) = IF x = l THEN 1 ELSE 0
<1>1. Occurs(<< >>, l) = 0
    <2>1. << >> \in Seq(Libs) /\ Len(<< >>) = 0
        OBVIOUS
    <2>2. \A i : i \notin 1 .. Len(<< >>)
        BY <2>1
    <2> QED
        BY <2>1, <2>2, OccursOnce
<1>2. ASSUME NEW x \in Libs PROVE Occurs(<< x >>, l) = IF x = l THEN 1 ELSE 0
    <2>1. << x >> \in Seq(Libs) /\ Len(<< x >>) = 1 /\ << x >>[1] = x
        OBVIOUS
    <2>2. \A i, j \in 1 .. Len(<< x >>) : i = j
        BY <2>1
    <2>3. (\E i \in 1 .. Len(<< x >>) : << x >>[i] = l) <=> x = l
        BY <2>1
    <2> QED
        BY <2>1, <2>2, <2>3, OccursOnce
<1> QED
    BY <1>1, <1>2

\* A recursion takes the first of its stack and puts a list there instead.
LEMMA OccursReplace ==
    ASSUME NEW x \in Seq(Libs), NEW w \in Seq(Libs), w # << >>, NEW l \in Libs
    PROVE  /\ x \o Tail(w) \in Seq(Libs) /\ Head(w) \in Libs /\ Head(w) = w[1]
           /\ Len(w) \in Nat /\ 1 \in 1 .. Len(w)
           /\ Occurs(w, l) \in Nat /\ Occurs(x, l) \in Nat /\ Occurs(x \o Tail(w), l) \in Nat
           /\ Occurs(x \o Tail(w), l) + (IF Head(w) = l THEN 1 ELSE 0) = Occurs(w, l) + Occurs(x, l)
           /\ \A i \in 1 .. Len(x \o Tail(w)) :
                 (\E j \in 1 .. Len(x) : (x \o Tail(w))[i] = x[j])
                 \/ \E j \in 1 .. Len(w) : (x \o Tail(w))[i] = w[j]
<1> DEFINE h == Head(w)  r == Tail(w)
<1>1. h \in Libs /\ r \in Seq(Libs) /\ << h >> \in Seq(Libs) /\ w = << h >> \o r /\ h = w[1]
    OBVIOUS
<1>2. Len(w) \in Nat /\ Len(w) > 0 /\ Len(r) = Len(w) - 1 /\ \A j \in 1 .. Len(r) : r[j] = w[j + 1]
    OBVIOUS
<1> HIDE DEF h, r
<1>3. Occurs(w, l) = Occurs(<< h >>, l) + Occurs(r, l) /\ Occurs(r, l) \in Nat /\ Occurs(w, l) \in Nat
    BY <1>1, OccursCat
<1>4. Occurs(<< h >>, l) = IF h = l THEN 1 ELSE 0
    BY <1>1, OccursShort
<1>5. Occurs(x \o r, l) = Occurs(x, l) + Occurs(r, l) /\ Occurs(x, l) \in Nat
    BY <1>1, OccursCat
<1>6. ASSUME NEW i \in 1 .. Len(x \o r)
      PROVE  (\E j \in 1 .. Len(x) : (x \o r)[i] = x[j]) \/ \E j \in 1 .. Len(w) : (x \o r)[i] = w[j]
    <2>1. Len(x) \in Nat /\ Len(x \o r) = Len(x) + Len(r) /\ Len(r) \in Nat
        BY <1>1
    <2>2. CASE i <= Len(x)
        <3>1. i \in 1 .. Len(x) /\ (x \o r)[i] = x[i]
            BY <1>1, <2>1, <2>2
        <3> QED
            BY <3>1
    <2>3. CASE i > Len(x)
        <3>1. i - Len(x) \in 1 .. Len(r) /\ (x \o r)[i] = r[i - Len(x)]
            BY <1>1, <2>1, <2>3
        <3>2. (i - Len(x)) + 1 \in 1 .. Len(w)
            BY <1>2, <2>1, <3>1
        <3> QED
            BY <1>2, <3>1, <3>2
    <2> QED
        BY <2>1, <2>2, <2>3
<1>7. x \o r \in Seq(Libs) /\ 1 \in 1 .. Len(w)
    BY <1>1, <1>2
<1>8. Occurs(x \o r, l) \in Nat /\ Occurs(x \o r, l) + (IF h = l THEN 1 ELSE 0) = Occurs(w, l) + Occurs(x, l)
    BY <1>3, <1>4, <1>5
<1> QED
    BY <1>1, <1>2, <1>3, <1>5, <1>6, <1>7, <1>8 DEF h, r

\* The next object of the list.
LEMMA ListNext ==
    ASSUME objlist \in Seq(Libs), NEW p \in Libs, Listed(p)
    PROVE  NextOf(p) \in Libs \cup {None} /\ (NextOf(p) # None => Listed(NextOf(p)))
<1> DEFINE i == CHOOSE j \in DOMAIN objlist : objlist[j] = p
<1>1. i \in DOMAIN objlist
    BY DEF Listed
<1>2. NextOf(p) = IF i < Len(objlist) THEN objlist[i + 1] ELSE None
    BY DEF NextOf
<1> HIDE DEF i
<1>3. Len(objlist) \in Nat /\ DOMAIN objlist = 1 .. Len(objlist)
    OBVIOUS
<1>4. CASE i < Len(objlist)
    <2>1. i + 1 \in DOMAIN objlist /\ objlist[i + 1] \in Libs
        BY <1>1, <1>3, <1>4
    <2> QED
        BY <1>2, <1>4, <2>1 DEF Listed
<1> QED
    BY <1>2, <1>4

\* An object is added at the end.
LEMMA ListAppend ==
    ASSUME objlist \in Seq(Libs), Distinct, NEW l \in Libs, ~Listed(l), objlist' = Append(objlist, l)
    PROVE  /\ objlist' \in Seq(Libs) /\ Distinct'
           /\ \A m \in Libs : Listed(m)' <=> Listed(m) \/ m = l
<1> DEFINE n == Len(objlist)  new == Append(objlist, l)
<1>1. /\ n \in Nat /\ new \in Seq(Libs) /\ DOMAIN objlist = 1 .. n /\ DOMAIN new = 1 .. (n + 1)
      /\ new[n + 1] = l /\ \A i \in 1 .. n : new[i] = objlist[i]
    OBVIOUS
<1> HIDE DEF new
<1>2. objlist' = new
    BY DEF new
<1>3. \A i \in DOMAIN objlist : objlist[i] # l
    BY DEF Listed
<1>4. Distinct'
    <2> SUFFICES ASSUME NEW i \in DOMAIN new, NEW j \in DOMAIN new, new[i] = new[j]
                 PROVE  i = j
        BY <1>2 DEF Distinct
    <2>1. CASE i \in 1 .. n /\ j \in 1 .. n
        BY <1>1, <2>1 DEF Distinct
    <2>2. CASE i = n + 1 /\ j \in 1 .. n
        BY <1>1, <1>3, <2>2
    <2>3. CASE j = n + 1 /\ i \in 1 .. n
        BY <1>1, <1>3, <2>3
    <2> QED
        BY <1>1, <2>1, <2>2, <2>3
<1>5. ASSUME NEW m \in Libs PROVE Listed(m)' <=> Listed(m) \/ m = l
    <2>1. ASSUME Listed(m)' PROVE Listed(m) \/ m = l
        <3>1. PICK i \in DOMAIN new : new[i] = m
            BY <1>2, <2>1 DEF Listed
        <3>2. i = n + 1 \/ i \in 1 .. n
            BY <1>1
        <3> QED
            BY <1>1, <3>1, <3>2 DEF Listed
    <2>2. ASSUME Listed(m) PROVE Listed(m)'
        <3>1. PICK i \in DOMAIN objlist : objlist[i] = m
            BY <2>2 DEF Listed
        <3>2. i \in DOMAIN new /\ new[i] = m
            BY <1>1, <3>1
        <3> QED
            BY <1>2, <3>2 DEF Listed
    <2>3. Listed(l)'
        <3>1. n + 1 \in DOMAIN new /\ new[n + 1] = l
            BY <1>1
        <3> QED
            BY <1>2, <3>1 DEF Listed
    <2> QED
        BY <2>1, <2>2, <2>3
<1> QED
    BY <1>1, <1>2, <1>4, <1>5

\* The collection finds an object to free.
LEMMA GarbageFacts ==
    ASSUME objlist \in Seq(Libs), Garbage # {}
    PROVE  /\ FirstPlace \in DOMAIN objlist /\ FirstGarbage \in Libs
           /\ FirstGarbage = objlist[FirstPlace] /\ Listed(FirstGarbage)
           /\ obj[FirstGarbage].ref = 0 /\ obj[FirstGarbage].closing = 0
<1>1. Garbage \in SUBSET Nat
    BY DEF Garbage
<1>2. \E i \in Garbage : \A j \in Garbage : i <= j
    BY <1>1, SmallestIn
<1>3. FirstPlace \in Garbage
    BY <1>2 DEF FirstPlace
<1>4. FirstGarbage = objlist[FirstPlace]
    BY DEF FirstGarbage
<1>5. FirstPlace \in DOMAIN objlist /\ obj[objlist[FirstPlace]].ref = 0 /\ obj[objlist[FirstPlace]].closing = 0
    BY <1>3 DEF Garbage
<1> QED
    BY <1>4, <1>5 DEF Listed

\* An object is taken out.
LEMMA ListRemove ==
    ASSUME objlist \in Seq(Libs), Distinct, NEW p \in DOMAIN objlist, objlist' = RemoveAt(objlist, p)
    PROVE  /\ objlist' \in Seq(Libs) /\ Distinct'
           /\ \A m \in Libs : Listed(m)' <=> Listed(m) /\ m # objlist[p]
<1> DEFINE n == Len(objlist)  a == SubSeq(objlist, 1, p - 1)  b == SubSeq(objlist, p + 1, n)
           new == a \o b
<1>1. n \in Nat /\ DOMAIN objlist = 1 .. n /\ p \in 1 .. n
    OBVIOUS
<1>2. a \in Seq(Libs) /\ Len(a) = p - 1 /\ \A i \in 1 .. (p - 1) : a[i] = objlist[i]
    BY <1>1, SubSeqProperties
<1>3. b \in Seq(Libs) /\ Len(b) = n - p /\ \A i \in 1 .. (n - p) : b[i] = objlist[p + i]
    <2>1. CASE p = n
        <3>1. b = << >>
            BY <1>1, <2>1
        <3> QED
            BY <1>1, <2>1, <3>1
    <2>2. CASE p # n
        BY <1>1, <2>2, SubSeqProperties
    <2> QED
        BY <2>1, <2>2
<1>4. objlist' = new
    BY DEF RemoveAt
<1> HIDE DEF a, b
<1>5. /\ new \in Seq(Libs) /\ DOMAIN new = 1 .. (n - 1)
      /\ \A i \in 1 .. (p - 1) : new[i] = objlist[i]
      /\ \A i \in p .. (n - 1) : new[i] = objlist[i + 1]
    <2>1. new \in Seq(Libs) /\ DOMAIN new = 1 .. (n - 1)
        <3>1. new \in Seq(Libs) /\ Len(new) = Len(a) + Len(b)
            BY <1>2, <1>3, ConcatProperties
        <3>2. Len(new) = n - 1
            BY <1>1, <1>2, <1>3, <3>1
        <3> QED
            BY <3>1, <3>2
    <2>2. ASSUME NEW i \in 1 .. (p - 1) PROVE new[i] = objlist[i]
        BY <1>1, <1>2, <1>3
    <2>3. ASSUME NEW i \in p .. (n - 1) PROVE new[i] = objlist[i + 1]
        <3>1. i - (p - 1) \in 1 .. (n - p) /\ p + (i - (p - 1)) = i + 1
            BY <1>1
        <3>2. new[i] = b[i - (p - 1)]
            BY <1>1, <1>2, <1>3
        <3> QED
            BY <1>3, <3>1, <3>2
    <2> QED
        BY <2>1, <2>2, <2>3
<1> HIDE DEF new
<1>6. ASSUME NEW i \in DOMAIN new
      PROVE  \E j \in DOMAIN objlist : /\ j # p /\ new[i] = objlist[j]
                                       /\ i = IF j < p THEN j ELSE j - 1
    <2>1. CASE i < p
        <3>1. i \in 1 .. (p - 1) /\ i \in DOMAIN objlist /\ i # p
            BY <1>1, <1>5, <2>1
        <3> QED
            BY <1>5, <2>1, <3>1
    <2>2. CASE i >= p
        <3>1. i \in p .. (n - 1) /\ i + 1 \in DOMAIN objlist /\ i + 1 # p /\ ~(i + 1 < p) /\ i = (i + 1) - 1
            BY <1>1, <1>5, <2>2
        <3> QED
            BY <1>5, <3>1
    <2> QED
        BY <1>1, <1>5, <2>1, <2>2
<1>7. ASSUME NEW j \in DOMAIN objlist, j # p
      PROVE  \E i \in DOMAIN new : new[i] = objlist[j]
    <2>1. CASE j < p
        <3>1. j \in 1 .. (p - 1) /\ j \in DOMAIN new
            BY <1>1, <1>5, <2>1
        <3> QED
            BY <1>5, <3>1
    <2>2. CASE j > p
        <3>1. j - 1 \in p .. (n - 1) /\ j - 1 \in DOMAIN new /\ (j - 1) + 1 = j
            BY <1>1, <1>5, <2>2
        <3>2. new[j - 1] = objlist[(j - 1) + 1]
            BY <1>5, <3>1
        <3> QED
            BY <3>1, <3>2
    <2> QED
        BY <1>1, <1>7, <2>1, <2>2
<1>8. Distinct'
    <2> SUFFICES ASSUME NEW i \in DOMAIN new, NEW j \in DOMAIN new, new[i] = new[j]
                 PROVE  i = j
        BY <1>4 DEF Distinct
    <2>1. PICK x \in DOMAIN objlist : new[i] = objlist[x] /\ i = IF x < p THEN x ELSE x - 1
        BY <1>6
    <2>2. PICK y \in DOMAIN objlist : new[j] = objlist[y] /\ j = IF y < p THEN y ELSE y - 1
        BY <1>6
    <2>3. x = y
        BY <2>1, <2>2 DEF Distinct
    <2> QED
        BY <2>1, <2>2, <2>3
<1>9. ASSUME NEW m \in Libs PROVE Listed(m)' <=> Listed(m) /\ m # objlist[p]
    <2>1. Listed(m)' <=> \E i \in DOMAIN new : new[i] = m
        BY <1>4 DEF Listed
    <2>2. Listed(m) <=> \E i \in DOMAIN objlist : objlist[i] = m
        BY DEF Listed
    <2>3. ASSUME Listed(m)' PROVE Listed(m) /\ m # objlist[p]
        BY <1>6, <2>1, <2>2, <2>3 DEF Distinct
    <2>4. ASSUME Listed(m), m # objlist[p] PROVE Listed(m)'
        BY <1>7, <2>1, <2>2, <2>4
    <2> QED
        BY <2>3, <2>4
<1> QED
    BY <1>4, <1>5, <1>8, <1>9

-----------------------------------------------------------------------------
(* The parts of the invariant that are about calls *)

\* The invariants over calls, in terms of Rec.
LEMMA ByRec ==
    ASSUME NEW U, Frames(U)
    PROVE  /\ Locals <=> \A c \in Threads \X Nat : LocalsOK(Rec(c))
           /\ RootsDead <=> \A c \in Threads \X Nat, r \in Libs : Marks(Rec(c), r) => obj[r].ref = 0
           /\ StaleOK <=> \A c \in stale : c \in Threads \X Nat /\ Rec(c).pc \in {"calling", "sort"}
<1>1. \A c : c \in Calls => c \in Threads \X Nat /\ Rec(c) = CallAt(c[1], c[2])
    BY CallsFacts DEF Rec
<1>2. \A c : c \notin Calls => Rec(c) = Idle
    BY DEF Rec
<1>3. Idle.pc = "idle"
    BY DEF Idle
<1>4. Locals <=> \A c \in Threads \X Nat : LocalsOK(Rec(c))
    BY <1>1, <1>2, IdleFacts DEF Locals
<1>5. RootsDead <=> \A c \in Threads \X Nat, r \in Libs : Marks(Rec(c), r) => obj[r].ref = 0
    BY <1>1, <1>2, IdleFacts DEF RootsDead
<1>6. StaleOK <=> \A c \in stale : c \in Threads \X Nat /\ Rec(c).pc \in {"calling", "sort"}
    BY <1>1, <1>2, <1>3 DEF StaleOK
<1> QED
    BY <1>4, <1>5, <1>6

\* The same of the next state.
LEMMA ByRecPrime ==
    ASSUME NEW U, Frames(U)'
    PROVE  /\ Locals' <=> \A c \in Threads \X Nat : LocalsOK(Rec(c)')
           /\ RootsDead' <=> \A c \in Threads \X Nat, r \in Libs : Marks(Rec(c)', r) => obj'[r].ref = 0
           /\ StaleOK' <=> \A c \in stale' : c \in Threads \X Nat /\ Rec(c)'.pc \in {"calling", "sort"}
<1>1. \A t \in Threads : Len(outer'[t]) \in Nat
    BY DEF Frames
<1>2. \A c : c \in Calls' => c \in Threads \X Nat /\ Rec(c)' = CallAt(c[1], c[2])'
    BY <1>1 DEF Rec, Calls, Depth
<1>3. \A c : c \notin Calls' => Rec(c)' = Idle
    BY DEF Rec, Idle
<1>4. Idle.pc = "idle"
    BY DEF Idle
<1>5. Locals' <=> \A c \in Calls' : LocalsOK(CallAt(c[1], c[2])')
    BY DEF Locals, LocalsOK
<1>6. RootsDead' <=> \A c \in Calls', r \in Libs : Marks(CallAt(c[1], c[2])', r) => obj'[r].ref = 0
    BY DEF RootsDead, Marks
<1>7. StaleOK' <=> \A c \in stale' : c \in Calls' /\ CallAt(c[1], c[2])'.pc \in {"calling", "sort"}
    BY DEF StaleOK
<1> QED
    BY <1>2, <1>3, <1>4, <1>5, <1>6, <1>7, IdleFacts

One(p) == IF p THEN 1 ELSE 0
MarksDag(f, l) == \E r \in Libs : Marks(f, r) /\ l \in obj[r].dagmembers

\* The three counts follow a step of one call from b to g.
Counted(b, g) ==
    \A l \in Libs :
        /\ obj'[l].dlref + handles[l] + One(Opens(b, l)) = obj[l].dlref + handles'[l] + One(Opens(g, l))
        /\ obj'[l].nref + One(Loads(b, l)) = obj[l].nref + One(Loads(g, l))
        /\ obj'[l].closing + One(Marks(b, l)) + One(MarksDag(b, l))
              = obj[l].closing + One(Marks(g, l)) + One(MarksDag(g, l))

\* Marked roots stay as they are.
RootsKept(g) ==
    \A r \in Libs :
        \/ Listed(r) /\ obj[r].ref = 0 /\ obj[r].closing > 0
        \/ Marks(g, r)
        => obj'[r].ref = 0 /\ obj'[r].dagmembers = obj[r].dagmembers

\* Which calls are stale after a step of me.
StaleKept(me, g) ==
    \A c \in stale' : /\ c \in Threads \X Nat
                      /\ IF c = me THEN g.pc \in {"calling", "sort"}
                         ELSE Rec(c).pc \in {"calling", "sort"}

\* A step of one call that is counted keeps them.
LEMMA CallsPart ==
    ASSUME NEW U, Frames(U), NEW W, Frames(W)', Data, Data',
           Locals, StaleOK, Counts, RootsDead, Unlisted,
           NEW me \in Threads \X Nat, NEW b, NEW g, Moves(me, b, g),
           LocalsOK(g), StaleKept(me, g), Counted(b, g), RootsKept(g)
    PROVE  Locals' /\ StaleOK' /\ Counts' /\ RootsDead'
<1>1. ASSUME NEW c \in Threads \X Nat PROVE Rec(c)' = IF c = me THEN g ELSE Rec(c)
    BY DEF Moves
<1>2. Locals'
    BY <1>1, ByRec, ByRecPrime
<1>3. StaleOK'
    BY <1>1, ByRec, ByRecPrime DEF StaleKept
<1>4. ASSUME NEW c \in Threads \X Nat, NEW r \in Libs, Marks(Rec(c), r)
      PROVE  Listed(r) /\ obj[r].ref = 0 /\ obj[r].closing > 0
    <2>1. obj[r].ref = 0
        BY <1>4, ByRec
    <2>2. c \in Marking(r)
        BY <1>4, CountedSets
    <2>3. IsFiniteSet(Marking(r)) /\ IsFiniteSet(MarkingDag(r))
        BY CountedFinite
    <2>4. Cardinality(Marking(r)) \in Nat /\ Cardinality(Marking(r)) # 0 /\ Cardinality(MarkingDag(r)) \in Nat
        BY <2>2, <2>3, FS_CardinalityType, FS_EmptySet
    <2>5. obj[r].closing > 0
        BY <2>4 DEF Counts
    <2>6. obj[r].closing # 0
        BY <2>5
    <2> QED
        BY <2>1, <2>5, <2>6 DEF Unlisted
<1>5. ASSUME NEW c \in Threads \X Nat, NEW r \in Libs, Marks(Rec(c), r) \/ Marks(Rec(c)', r)
      PROVE  obj'[r].ref = 0 /\ obj'[r].dagmembers = obj[r].dagmembers
    BY <1>1, <1>4, <1>5 DEF RootsKept
<1>6. RootsDead'
    BY <1>5, ByRecPrime
<1>7. ASSUME NEW l \in Libs
      PROVE  /\ obj'[l].dlref = handles'[l] + Cardinality(Opening(l)')
             /\ obj'[l].nref = Cardinality(Loading(l)')
             /\ obj'[l].closing = Cardinality(Marking(l)') + Cardinality(MarkingDag(l)')
    <2> DEFINE o == Cardinality(Opening(l))  o1 == Cardinality(Opening(l)')
               d == Cardinality(Loading(l))  d1 == Cardinality(Loading(l)')
               m == Cardinality(Marking(l))  m1 == Cardinality(Marking(l)')
               k == Cardinality(MarkingDag(l))  k1 == Cardinality(MarkingDag(l)')
               ob == One(Opens(b, l))  og == One(Opens(g, l))
               db == One(Loads(b, l))  dg == One(Loads(g, l))
               mb == One(Marks(b, l))  mg == One(Marks(g, l))
               kb == One(MarksDag(b, l))  kg == One(MarksDag(g, l))
    <2>1. /\ o \in Nat /\ o1 \in Nat /\ o1 + ob = o + og
          /\ d \in Nat /\ d1 \in Nat /\ d1 + db = d + dg
          /\ m \in Nat /\ m1 \in Nat /\ m1 + mb = m + mg
        BY CountMoves DEF One
    <2>2. k \in Nat /\ k1 \in Nat /\ k1 + kb = k + kg
        BY <1>5, CountDag DEF One, MarksDag
    <2>3. obj[l].dlref = handles[l] + o /\ obj[l].nref = d /\ obj[l].closing = m + k
        BY DEF Counts
    <2>4. /\ obj'[l].dlref + handles[l] + ob = obj[l].dlref + handles'[l] + og
          /\ obj'[l].nref + db = obj[l].nref + dg
          /\ obj'[l].closing + mb + kb = obj[l].closing + mg + kg
        BY DEF Counted
    <2>5. /\ ob \in Nat /\ og \in Nat /\ db \in Nat /\ dg \in Nat
          /\ mb \in Nat /\ mg \in Nat /\ kb \in Nat /\ kg \in Nat
        BY DEF One
    <2>6. /\ obj'[l].dlref \in Nat /\ obj'[l].nref \in Nat /\ obj'[l].closing \in Nat
          /\ handles[l] \in Nat /\ handles'[l] \in Nat
        BY DEF Data, Entry
    <2> HIDE DEF o, o1, d, d1, m, m1, k, k1, ob, og, db, dg, mb, mg, kb, kg
    <2>7. obj'[l].dlref = handles'[l] + o1
        BY <2>1, <2>3, <2>4, <2>5, <2>6
    <2>8. obj'[l].nref = d1
        <3>1. obj'[l].nref + db = d + dg
            BY <2>3, <2>4
        <3> QED
            BY <2>1, <2>5, <2>6, <3>1
    <2>9. obj'[l].closing = m1 + k1
        <3>1. obj'[l].closing + mb + kb = m + k + mg + kg
            BY <2>3, <2>4
        <3>2. m \in Nat /\ m1 \in Nat /\ m1 + mb = m + mg
            BY <2>1
        <3> QED
            BY <2>2, <2>5, <2>6, <3>1, <3>2
    <2> QED
        BY <2>7, <2>8, <2>9 DEF o1, d1, m1, k1
<1>8. Counts'
    BY <1>7 DEF Counts
<1> QED
    BY <1>2, <1>3, <1>6, <1>8

-----------------------------------------------------------------------------
(* The parts of the invariant that are about objects *)

\* Sets of libraries are finite.
LEMMA LibSets ==
    ASSUME NEW S \in SUBSET Libs
    PROVE  /\ IsFiniteSet(S) /\ Cardinality(S) \in Nat
           /\ \A x \in S : Cardinality(S) >= 1 /\ Cardinality(S \ {x}) = Cardinality(S) - 1
           /\ \A T \in SUBSET S : Cardinality(T) \in Nat /\ Cardinality(T) <= Cardinality(S)
           /\ \A x : Cardinality(S \cup {x}) \in Nat /\ Cardinality(S \cup {x}) <= Cardinality(S) + 1
<1>1. IsFiniteSet(S)
    BY ConstantFacts, FS_Subset
<1>2. Cardinality(S) \in Nat
    BY <1>1, FS_CardinalityType
<1>3. ASSUME NEW x \in S PROVE Cardinality(S) >= 1 /\ Cardinality(S \ {x}) = Cardinality(S) - 1
    <2>1. Cardinality(S \ {x}) = Cardinality(S) - 1
        BY <1>1, FS_RemoveElement
    <2>2. Cardinality(S) # 0
        BY <1>1, FS_EmptySet
    <2> QED
        BY <1>2, <2>1, <2>2
<1>4. ASSUME NEW T \in SUBSET S PROVE Cardinality(T) \in Nat /\ Cardinality(T) <= Cardinality(S)
    BY <1>1, FS_Subset, FS_CardinalityType
<1>5. ASSUME NEW x PROVE Cardinality(S \cup {x}) \in Nat /\ Cardinality(S \cup {x}) <= Cardinality(S) + 1
    BY <1>1, <1>2, FS_AddElement
<1> QED
    BY <1>1, <1>2, <1>3, <1>4, <1>5

\* What a call has still to drop or to pin.
DueIn(f, l) == IF f.pc = "unref" THEN Occurs(f.work, l) ELSE 0
PinIn(f, l) == f.pc = "ref" /\ \E i \in 1 .. Len(f.work) : f.work[i] = l

\* Only the call of the thread with the lock matters.
LEMMA DueFacts ==
    ASSUME NEW U, Frames(U), NEW l \in Libs
    PROVE  /\ Due(l) \in Nat
           /\ lock = None => Due(l) = 0 /\ ~Pinning(l)
           /\ \A t \in Threads : lock = t => Due(l) = DueIn(th[t], l) /\ (Pinning(l) <=> PinIn(th[t], l))
<1>1. ASSUME NEW t \in Threads PROVE Occurs(th[t].work, l) \in Nat
    BY OccursCat DEF Frames, CallOf
<1>2. Due(l) \in Nat
    BY <1>1 DEF Due
<1> QED
    BY <1>2, ConstantFacts DEF Due, Pinning, DueIn, PinIn

\* The same of the next state.
LEMMA DueFactsPrime ==
    ASSUME NEW U, Frames(U)', NEW l \in Libs
    PROVE  /\ Due(l)' \in Nat
           /\ lock' = None => Due(l)' = 0 /\ ~Pinning(l)'
           /\ \A t \in Threads : lock' = t => Due(l)' = DueIn(th'[t], l) /\ (Pinning(l)' <=> PinIn(th'[t], l))
<1>1. ASSUME NEW t \in Threads PROVE Occurs(th'[t].work, l) \in Nat
    BY OccursCat DEF Frames, CallOf
<1>2. Due(l)' = IF lock' \in Threads /\ th'[lock'].pc = "unref" THEN Occurs(th'[lock'].work, l) ELSE 0
    BY DEF Due, Occurs
<1>3. Due(l)' \in Nat
    BY <1>1, <1>2
<1>4. Pinning(l)' <=> /\ lock' \in Threads /\ th'[lock'].pc = "ref"
                      /\ \E i \in 1 .. Len(th'[lock'].work) : th'[lock'].work[i] = l
    BY DEF Pinning
<1> QED
    BY <1>2, <1>3, <1>4, ConstantFacts DEF DueIn, PinIn

\* The counts are numbers.
LEMMA BaseFacts ==
    ASSUME NEW U, Frames(U), Data, NEW l \in Libs
    PROVE  /\ Needers(l) \in SUBSET Libs /\ Cardinality(Needers(l)) \in Nat
           /\ Base(l) \in Nat /\ Base(l) >= Cardinality(Needers(l)) /\ Base(l) >= Due(l)
           /\ Base(l) >= obj[l].dlref
           /\ obj[l].ref \in Nat /\ obj[l].dlref \in Nat /\ obj[l].cxa \in Nat /\ obj[l].nodel \in BOOLEAN
<1>1. Needers(l) \in SUBSET Libs
    BY DEF Needers
<1>2. Cardinality(Needers(l)) \in Nat
    BY <1>1, LibSets
<1>3. obj[l].ref \in Nat /\ obj[l].dlref \in Nat /\ obj[l].cxa \in Nat /\ obj[l].nodel \in BOOLEAN
    <2>1. obj[l] \in Entry
        BY DEF Data
    <2> QED
        BY <2>1, ConstantFacts DEF Entry
<1>4. Due(l) \in Nat
    BY DueFacts
<1> QED
    BY <1>1, <1>2, <1>3, <1>4 DEF Base

\* What a referenced object needs is referenced, and what is referenced is listed.
LEMMA NeedLive ==
    ASSUME NEW U, Frames(U), Data, References, NEW x \in Libs, obj[x].ref > 0
    PROVE  obj[x].need \subseteq Live
<1> SUFFICES ASSUME NEW l \in obj[x].need PROVE l \in Live
    OBVIOUS
<1>1. l \in Libs
    BY DEF Data, Entry
<1>2. x \in Needers(l)
    BY DEF Needers
<1>3. Cardinality(Needers(l)) >= 1
    BY <1>1, <1>2, BaseFacts, LibSets
<1>4. obj[l].ref >= Base(l) /\ Base(l) >= Cardinality(Needers(l))
    BY <1>1, BaseFacts DEF References
<1>5. obj[l].ref > 0
    BY <1>1, <1>3, <1>4, BaseFacts
<1> QED
    BY <1>1, <1>5 DEF Live

\* Reachability survives as long as live objects lose no entry.
LEMMA ReachKept ==
    ASSUME NEW U, Frames(U), Data, References,
           \A x \in Libs : obj[x].ref > 0 /\ obj'[x].ref > 0 => obj[x].need \subseteq obj'[x].need,
           NEW l \in Live, NEW m, Reach(l, m)
    PROVE  Reach(l, m)'
<1> SUFFICES ASSUME NEW S \in SUBSET Live', l \in S, Closed(S)' PROVE m \in S
    BY DEF Reach
<1> DEFINE T == S \cap Live
<1>1. ASSUME NEW x \in T PROVE obj[x].need \subseteq T
    <2>1. x \in Libs /\ obj[x].ref > 0 /\ obj'[x].ref > 0 /\ x \in S
        BY DEF Live
    <2>2. obj'[x].need \subseteq S
        BY <2>1 DEF Closed
    <2>3. obj[x].need \subseteq Live
        BY <2>1, NeedLive
    <2> QED
        BY <2>1, <2>2, <2>3
<1>2. T \in SUBSET Live /\ l \in T /\ Closed(T)
    BY <1>1 DEF Closed
<1>3. m \in T
    BY <1>2 DEF Reach
<1> QED
    BY <1>3

\* What a live object has in its DAG is live.
LEMMA ReachLive ==
    ASSUME NEW U, Frames(U), Data, References, NEW l \in Live, NEW m, Reach(l, m)
    PROVE  m \in Live
<1>1. Closed(Live)
    BY NeedLive DEF Closed, Live
<1> QED
    BY <1>1 DEF Reach

\* A live object reaches itself, and what is needed by what it reaches.
LEMMA ReachSteps ==
    ASSUME NEW l
    PROVE  Reach(l, l) /\ \A x : Reach(l, x) => \A y \in obj[x].need : Reach(l, y)
BY DEF Reach, Closed

\* DAGs stay within reach.
LEMMA MembersKept ==
    ASSUME NEW U, Frames(U), Data, References, Members,
           \A x \in Libs : obj[x].ref > 0 /\ obj'[x].ref > 0 => obj[x].need \subseteq obj'[x].need,
           \A l \in Libs : obj'[l].ref > 0 =>
              IF obj[l].ref > 0 THEN \A m \in obj'[l].dagmembers : m \in obj[l].dagmembers \/ Reach(l, m)
              ELSE obj'[l].dagmembers = {}
    PROVE  Members'
<1> SUFFICES ASSUME NEW l \in Live', NEW m \in obj'[l].dagmembers PROVE Reach(l, m)'
    BY DEF Members
<1>1. l \in Libs /\ obj'[l].ref > 0
    BY DEF Live
<1>2. obj[l].ref > 0 /\ l \in Live
    BY <1>1 DEF Live
<1>3. Reach(l, m)
    BY <1>1, <1>2 DEF Members
<1> QED
    BY <1>2, <1>3, ReachKept

\* References do not outgrow refcount.
LEMMA ReferencesKept ==
    ASSUME NEW U, Frames(U), NEW W, Frames(W)', Data, Data', References,
           \A l \in Libs :
              /\ Base(l)' + obj[l].ref <= Base(l) + obj'[l].ref
              /\ obj'[l].nodel /\ ~Pinning(l)' =>
                    (obj[l].nodel /\ ~Pinning(l)) \/ obj'[l].ref >= Base(l)' + 1
    PROVE  References'
<1>1. ASSUME NEW l \in Libs
      PROVE  /\ obj'[l].ref >= Base(l)'
             /\ obj'[l].nodel /\ ~Pinning(l)' => obj'[l].ref >= Base(l)' + 1
    <2>1. Base(l) \in Nat /\ obj[l].ref \in Nat
        BY BaseFacts
    <2>2. obj'[l].ref \in Nat /\ obj'[l].dlref \in Nat
        BY DEF Data, Entry
    <2>3. Base(l)' \in Nat
        <3>1. Needers(l)' \in SUBSET Libs
            BY DEF Needers
        <3>2. Cardinality(Needers(l)') \in Nat
            BY <3>1, LibSets
        <3>3. Due(l)' \in Nat
            BY DueFactsPrime
        <3> QED
            BY <2>2, <3>2, <3>3 DEF Base
    <2>4. obj[l].ref >= Base(l)
        BY DEF References
    <2>5. obj[l].nodel /\ ~Pinning(l) => obj[l].ref >= Base(l) + 1
        BY DEF References
    <2>6. Base(l)' + obj[l].ref <= Base(l) + obj'[l].ref
        OBVIOUS
    <2>7. obj'[l].ref >= Base(l)'
        BY <2>1, <2>2, <2>3, <2>4, <2>6
    <2>8. ASSUME obj'[l].nodel, ~Pinning(l)' PROVE obj'[l].ref >= Base(l)' + 1
        <3>1. CASE obj[l].nodel /\ ~Pinning(l)
            BY <2>1, <2>2, <2>3, <2>5, <2>6, <3>1
        <3>2. CASE ~(obj[l].nodel /\ ~Pinning(l))
            BY <2>8, <3>2
        <3> QED
            BY <3>1, <3>2
    <2> QED
        BY <2>7, <2>8
<1> QED
    BY <1>1 DEF References

\* The step changes no reference.
QuietObjects ==
    /\ objlist' = objlist
    /\ \A l \in Libs :
          /\ obj'[l].ref = obj[l].ref /\ obj'[l].dlref = obj[l].dlref /\ obj'[l].cxa = obj[l].cxa
          /\ obj'[l].nodel = obj[l].nodel /\ obj'[l].dagmembers = obj[l].dagmembers
          /\ obj[l].ref > 0 => obj'[l].need = obj[l].need
          /\ ~Listed(l) => /\ obj'[l].need = obj[l].need
                           /\ obj'[l].nref = obj[l].nref /\ obj'[l].closing = obj[l].closing

\* Such a step keeps the invariants about objects.
LEMMA QuietPart ==
    ASSUME NEW U, Frames(U), NEW W, Frames(W)', Data, Data',
           Distinct, Unlisted, References, Members, QuietObjects,
           \A l \in Libs : Due(l)' = 0 /\ ~Pinning(l)
    PROVE  /\ Distinct' /\ Unlisted' /\ References' /\ Members'
           /\ \A l \in Libs : Listed(l)' <=> Listed(l)
<1>1. \A l \in Libs : Listed(l)' <=> Listed(l)
    BY DEF QuietObjects, Listed
<1>2. Distinct'
    BY DEF Distinct, QuietObjects
<1>3. Unlisted'
    BY <1>1 DEF Unlisted, QuietObjects
<1>4. Members'
    BY MembersKept DEF QuietObjects
<1>5. References'
    <2>1. ASSUME NEW l \in Libs PROVE Base(l)' + obj[l].ref <= Base(l) + obj'[l].ref
        <3>1. Needers(l)' = Needers(l)
            BY DEF Needers, QuietObjects
        <3>2. Due(l) \in Nat /\ Due(l)' = 0
            BY DueFacts
        <3>3. Cardinality(Needers(l)) \in Nat /\ obj[l].ref \in Nat /\ obj[l].dlref \in Nat
            BY BaseFacts
        <3>4. /\ obj'[l].ref = obj[l].ref /\ obj'[l].dlref = obj[l].dlref /\ obj'[l].cxa = obj[l].cxa
            BY DEF QuietObjects
        <3>5. Base(l)' = obj'[l].dlref + (IF obj'[l].cxa > 0 THEN 1 ELSE 0) + Cardinality(Needers(l)') + Due(l)'
            BY DEF Base
        <3>6. Base(l) = obj[l].dlref + (IF obj[l].cxa > 0 THEN 1 ELSE 0) + Cardinality(Needers(l)) + Due(l)
            BY DEF Base
        <3> QED
            BY <3>1, <3>2, <3>3, <3>4, <3>5, <3>6
    <2>2. \A l \in Libs : obj'[l].nodel = obj[l].nodel
        BY DEF QuietObjects
    <2> QED
        BY <2>1, <2>2, ReferencesKept
<1> QED
    BY <1>1, <1>2, <1>3, <1>4, <1>5

\* A step of one call that changes no reference keeps the whole invariant.
LEMMA QuietStep ==
    ASSUME IInv, Data', NEW W, Frames(W)', Stacks',
           NEW me \in Threads \X Nat, NEW b, NEW g, Moves(me, b, g),
           LocalsOK(g), StaleKept(me, g), Counted(b, g), RootsKept(g),
           QuietObjects, \A l \in Libs : Due(l)' = 0 /\ ~Pinning(l),
           Working', Pending', dtors' = dtors
    PROVE  IInv'
<1>1. PICK U : Frames(U)
    BY DEF IInv
<1>2. /\ Data /\ Stacks /\ Locals /\ StaleOK /\ Counts /\ RootsDead /\ Distinct /\ Unlisted
      /\ References /\ Members /\ Dtors
    BY DEF IInv
<1>3. Locals' /\ StaleOK' /\ Counts' /\ RootsDead'
    BY <1>1, <1>2, CallsPart
<1>4. Distinct' /\ Unlisted' /\ References' /\ Members'
    BY <1>1, <1>2, QuietPart
<1>5. Dtors'
    BY <1>2 DEF Dtors, QuietObjects
<1> QED
    BY <1>3, <1>4, <1>5 DEF IInv

\* What Counted asks of a step that changes no counter.
LEMMA CountedSame ==
    ASSUME NEW b, NEW g, Data,
           \A l \in Libs : /\ obj'[l].dlref = obj[l].dlref /\ obj'[l].nref = obj[l].nref
                           /\ obj'[l].closing = obj[l].closing /\ handles'[l] = handles[l],
           \A l \in Libs : /\ Opens(g, l) <=> Opens(b, l)
                           /\ Loads(g, l) <=> Loads(b, l)
                           /\ Marks(g, l) <=> Marks(b, l)
    PROVE  Counted(b, g)
<1> SUFFICES ASSUME NEW l \in Libs
             PROVE  /\ obj'[l].dlref + handles[l] + One(Opens(b, l)) = obj[l].dlref + handles'[l] + One(Opens(g, l))
                    /\ obj'[l].nref + One(Loads(b, l)) = obj[l].nref + One(Loads(g, l))
                    /\ obj'[l].closing + One(Marks(b, l)) + One(MarksDag(b, l))
                          = obj[l].closing + One(Marks(g, l)) + One(MarksDag(g, l))
    BY DEF Counted
<1>1. MarksDag(g, l) <=> MarksDag(b, l)
    BY DEF MarksDag
<1>2. /\ One(Opens(g, l)) = One(Opens(b, l)) /\ One(Loads(g, l)) = One(Loads(b, l))
      /\ One(Marks(g, l)) = One(Marks(b, l)) /\ One(MarksDag(g, l)) = One(MarksDag(b, l))
    BY <1>1 DEF One
<1> QED
    BY <1>2

\* The locals that Working asks about, of the next state.
LEMMA WorkingBy ==
    ASSUME NEW t \in Threads, lock' \in {t, None}, NEW g, th'[t] = g,
           lock' = t =>
              /\ g.pc = "scan" /\ g.pos # None => Listed(g.pos)'
              /\ g.pc = "dag" => \A i \in 1 .. Len(g.work) : Reach(g.root, g.work[i])'
              /\ g.pc = "ref" => \A i \in 1 .. Len(g.work) : obj'[g.work[i]].ref > 0
              /\ g.pc = "unref" => Listed(g.root)' /\ \A m \in obj'[g.root].dagmembers : Listed(m)'
    PROVE  Working'
<1>1. ASSUME NEW u \in Threads, lock' = u PROVE u = t
    BY <1>1, ConstantFacts
<1> QED
    BY <1>1 DEF Working, Reach, Closed, Listed
==============================================================================
