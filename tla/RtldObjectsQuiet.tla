--------------------------- MODULE RtldObjectsQuiet ---------------------------
(***************************************************************************)
(* The steps of RtldObjects that change no reference count keep the        *)
(* inductive invariant: one lemma for each action.                         *)
(***************************************************************************)
EXTENDS RtldObjectsInv

-----------------------------------------------------------------------------
(* Steps that change no object *)

\* A thread goes on in its innermost call and changes nothing else.
LEMMA LocalStill ==
    ASSUME IInv, NEW U, Frames(U), NEW t \in Threads, NEW V, NEW g \in CallOf(V),
           th' = [th EXCEPT ![t] = g],
           objlist' = objlist, obj' = obj, pending' = pending, clients' = clients,
           lock \in {t, None}, lock' \in {t, None}, th[t].pc # "idle",
           g.pc # "idle", lock' = t => g.pc # "calling", lock' = None => g.pc \in Parked,
           stale' \subseteq stale, << t, Depth(t) >> \in stale' => g.pc \in {"calling", "sort"},
           LocalsOK(g),
           \A l \in Libs : /\ Opens(g, l) <=> Opens(th[t], l)
                           /\ Loads(g, l) <=> Loads(th[t], l)
                           /\ Marks(g, l) <=> Marks(th[t], l)
                           /\ ~PinIn(th[t], l),
           lock' = t => /\ g.pc \notin {"unref", "ref"}
                        /\ g.pc = "scan" /\ g.pos # None => Listed(g.pos)
                        /\ g.pc = "dag" => \A i \in 1 .. Len(g.work) : Reach(g.root, g.work[i])
    PROVE  IInv'
<1>1. outer' = outer /\ handles' = handles /\ dtors' = dtors /\ ops' = ops
    BY DEF clients
<1>2. /\ Data /\ Stacks /\ Locals /\ StaleOK /\ Counts /\ RootsDead /\ Distinct /\ Unlisted
      /\ References /\ Members /\ Dtors /\ Pending
    BY DEF IInv
<1>3. PICK W : Frames(W)'
    BY <1>1, <1>2, LocalStep
<1>4. PICK me \in Threads \X Nat : me = << t, Depth(t) >> /\ Moves(me, th[t], g)
    BY <1>1, <1>2, LocalStep
<1>5. Stacks'
    BY <1>1, <1>2, LocalStep
<1>6. Data'
    BY <1>1, <1>2 DEF Data
<1>7. StaleKept(me, g)
    BY <1>2, <1>4, ByRec DEF StaleKept
<1>8. Counted(th[t], g)
    BY <1>1, <1>2, CountedSame
<1>9. RootsKept(g)
    <2>1. ASSUME NEW r \in Libs, Marks(g, r) PROVE obj[r].ref = 0
        <3>1. Marks(Rec(me), r)
            BY <1>4, <2>1 DEF Moves
        <3> QED
            BY <1>2, <3>1, ByRec
    <2> QED
        BY <2>1 DEF RootsKept
<1>10. th'[t] = g
    BY DEF Frames
<1>11. \A l \in Libs : Due(l)' = 0 /\ ~Pinning(l)
    BY <1>3, <1>10, DueFacts, DueFactsPrime DEF DueIn
<1>12. Working'
    <2>1. \A l, m : Reach(l, m) => Reach(l, m)'
        BY DEF Reach, Closed, Live
    <2>2. \A l : Listed(l) => Listed(l)'
        BY DEF Listed
    <2> QED
        BY <1>10, <2>1, <2>2, WorkingBy
<1>13. Pending'
    BY <1>2 DEF Pending, Unrelocated, Listed
<1>14. QuietObjects
    BY DEF QuietObjects
<1> QED
    BY <1>1, <1>3, <1>4, <1>5, <1>6, <1>7, <1>8, <1>9, <1>11, <1>12, <1>13, <1>14, QuietStep

\* A thread's innermost call.
LEMMA Mine ==
    ASSUME IInv, NEW U, Frames(U), NEW t \in Threads
    PROVE  /\ th[t] \in CallOf(U) /\ LocalsOK(th[t])
           /\ << t, Depth(t) >> \in stale => th[t].pc \in {"calling", "sort"}
           /\ \A r \in Libs : Marks(th[t], r) => obj[r].ref = 0
<1>1. th[t] \in CallOf(U)
    BY DEF Frames
<1>2. << t, Depth(t) >> \in Calls /\ CallAt(t, Depth(t)) = th[t]
    BY CallsFacts DEF CallAt
<1>3. LocalsOK(th[t])
    BY <1>2 DEF IInv, Locals
<1>4. << t, Depth(t) >> \in stale => th[t].pc \in {"calling", "sort"}
    BY <1>2 DEF IInv, StaleOK
<1>5. \A r \in Libs : Marks(th[t], r) => obj[r].ref = 0
    BY <1>2 DEF IInv, RootsDead
<1> QED
    BY <1>1, <1>3, <1>4, <1>5

\* Only the label of a call changes.
LEMMA GotoStill ==
    ASSUME IInv, NEW U, Frames(U), NEW t \in Threads, NEW p \in Labels, Goto(t, p),
           objlist' = objlist, obj' = obj, pending' = pending, clients' = clients,
           lock \in {t, None}, lock' \in {t, None}, th[t].pc # "idle",
           p \notin {"idle", "calling", "scan", "dag", "ref", "unref"}, lock' = None => p \in Parked,
           stale' = stale, << t, Depth(t) >> \notin stale,
           NEW g, g = [th[t] EXCEPT !.pc = p], LocalsOK(g),
           \A l \in Libs : /\ Opens(g, l) <=> Opens(th[t], l)
                           /\ Loads(g, l) <=> Loads(th[t], l)
                           /\ Marks(g, l) <=> Marks(th[t], l)
                           /\ ~PinIn(th[t], l)
    PROVE  IInv'
<1>1. th' = [th EXCEPT ![t] = g]
    BY DEF Goto, Frames
<1>2. g \in CallOf(U) /\ g.pc = p
    BY Mine DEF CallOf
<1> QED
    BY <1>1, <1>2, LocalStill

\* The label in a call that has got another one.
LEMMA Relabelled ==
    ASSUME NEW U, NEW b \in CallOf(U), NEW p
    PROVE  \A g : g = [b EXCEPT !.pc = p] =>
              /\ g.pc = p /\ g.root = b.root /\ g.pos = b.pos /\ g.idx = b.idx /\ g.work = b.work
              /\ g.phase = b.phase /\ g.todo = b.todo
BY DEF CallOf

\* The wait in _rtld_load_library.
LEMMA LoadWaitStep == ASSUME IInv, NEW t \in Threads, LoadWait(t) PROVE IInv'
<1>1. PICK U : Frames(U)
    BY DEF IInv
<1>2. th[t].pc = "load" /\ lock = t /\ lock' = None /\ Goto(t, "load")
    BY DEF LoadWait, At, Wait
<1>3. PICK g : g = [th[t] EXCEPT !.pc = "load"]
    OBVIOUS
<1>4. th[t] \in CallOf(U) /\ LocalsOK(th[t])
    BY <1>1, Mine
<1>5. /\ g.pc = "load" /\ g.root = th[t].root /\ g.pos = th[t].pos /\ g.idx = th[t].idx
      /\ g.phase = th[t].phase
    BY <1>3, <1>4, Relabelled
<1>6. /\ LocalsOK(g)
      /\ \A l \in Libs : /\ Opens(g, l) <=> Opens(th[t], l)
                         /\ Loads(g, l) <=> Loads(th[t], l)
                         /\ Marks(g, l) <=> Marks(th[t], l)
                         /\ ~PinIn(th[t], l)
    BY <1>2, <1>4, <1>5 DEF LocalsOK, Opens, Loads, Marks, PinIn
<1>7. /\ objlist' = objlist /\ obj' = obj /\ pending' = pending /\ clients' = clients
      /\ stale' = stale
    BY DEF LoadWait
<1>8. << t, Depth(t) >> \notin stale
    BY <1>1, <1>2, Mine
<1>9. "load" \in Labels /\ (lock' = None => "load" \in Parked)
    BY <1>2, ConstantFacts DEF Labels, Parked
<1> QED
    BY <1>1, <1>2, <1>3, <1>6, <1>7, <1>8, <1>9, GotoStill

\* The wait in _rtld_load_by_name.
LEMMA ByNameWaitStep == ASSUME IInv, NEW t \in Threads, ByNameWait(t) PROVE IInv'
<1>1. PICK U : Frames(U)
    BY DEF IInv
<1>2. th[t].pc = "byname" /\ lock = t /\ lock' = None /\ Goto(t, "byname")
    BY DEF ByNameWait, At, Wait
<1>3. PICK g : g = [th[t] EXCEPT !.pc = "byname"]
    OBVIOUS
<1>4. th[t] \in CallOf(U) /\ LocalsOK(th[t])
    BY <1>1, Mine
<1>5. /\ g.pc = "byname" /\ g.root = th[t].root /\ g.pos = th[t].pos /\ g.idx = th[t].idx
      /\ g.phase = th[t].phase
    BY <1>3, <1>4, Relabelled
<1>6. /\ LocalsOK(g)
      /\ \A l \in Libs : /\ Opens(g, l) <=> Opens(th[t], l)
                         /\ Loads(g, l) <=> Loads(th[t], l)
                         /\ Marks(g, l) <=> Marks(th[t], l)
                         /\ ~PinIn(th[t], l)
    BY <1>2, <1>4, <1>5 DEF LocalsOK, Opens, Loads, Marks, PinIn
<1>7. /\ objlist' = objlist /\ obj' = obj /\ pending' = pending /\ clients' = clients
      /\ stale' = stale
    BY DEF ByNameWait
<1>8. << t, Depth(t) >> \notin stale
    BY <1>1, <1>2, Mine
<1>9. "byname" \in Labels /\ (lock' = None => "byname" \in Parked)
    BY <1>2, ConstantFacts DEF Labels, Parked
<1> QED
    BY <1>1, <1>2, <1>3, <1>6, <1>7, <1>8, <1>9, GotoStill

\* The wait in the collection.
LEMMA FreeWaitStep == ASSUME IInv, NEW t \in Threads, FreeWait(t) PROVE IInv'
<1>1. PICK U : Frames(U)
    BY DEF IInv
<1>2. th[t].pc = "gc" /\ lock = t /\ lock' = None /\ Goto(t, "gc")
    BY DEF FreeWait, At, Wait
<1>3. PICK g : g = [th[t] EXCEPT !.pc = "gc"]
    OBVIOUS
<1>4. th[t] \in CallOf(U) /\ LocalsOK(th[t])
    BY <1>1, Mine
<1>5. /\ g.pc = "gc" /\ g.root = th[t].root /\ g.pos = th[t].pos /\ g.idx = th[t].idx
      /\ g.phase = th[t].phase
    BY <1>3, <1>4, Relabelled
<1>6. /\ LocalsOK(g)
      /\ \A l \in Libs : /\ Opens(g, l) <=> Opens(th[t], l)
                         /\ Loads(g, l) <=> Loads(th[t], l)
                         /\ Marks(g, l) <=> Marks(th[t], l)
                         /\ ~PinIn(th[t], l)
    BY <1>2, <1>4, <1>5 DEF LocalsOK, Opens, Loads, Marks, PinIn
<1>7. /\ objlist' = objlist /\ obj' = obj /\ pending' = pending /\ clients' = clients
      /\ stale' = stale
    BY DEF FreeWait
<1>8. << t, Depth(t) >> \notin stale
    BY <1>1, <1>2, Mine
<1>9. "gc" \in Labels /\ (lock' = None => "gc" \in Parked)
    BY <1>2, ConstantFacts DEF Labels, Parked
<1> QED
    BY <1>1, <1>2, <1>3, <1>6, <1>7, <1>8, <1>9, GotoStill

\* The init list has been called through.
LEMMA InitializedStep == ASSUME IInv, NEW t \in Threads, Initialized(t) PROVE IInv'
<1>1. PICK U : Frames(U)
    BY DEF IInv
<1>2. th[t].pc = "call" /\ th[t].phase = "init" /\ lock = t /\ lock' = t /\ Goto(t, "opened")
    BY DEF Initialized, At, Wait
<1>3. PICK g : g = [th[t] EXCEPT !.pc = "opened"]
    OBVIOUS
<1>4. th[t] \in CallOf(U) /\ LocalsOK(th[t])
    BY <1>1, Mine
<1>5. /\ g.pc = "opened" /\ g.root = th[t].root /\ g.pos = th[t].pos /\ g.idx = th[t].idx
      /\ g.phase = th[t].phase
    BY <1>3, <1>4, Relabelled
<1>6. /\ LocalsOK(g)
      /\ \A l \in Libs : /\ Opens(g, l) <=> Opens(th[t], l)
                         /\ Loads(g, l) <=> Loads(th[t], l)
                         /\ Marks(g, l) <=> Marks(th[t], l)
                         /\ ~PinIn(th[t], l)
    BY <1>2, <1>4, <1>5 DEF LocalsOK, Opens, Loads, Marks, PinIn
<1>7. /\ objlist' = objlist /\ obj' = obj /\ pending' = pending /\ clients' = clients
      /\ stale' = stale
    BY DEF Initialized
<1>8. << t, Depth(t) >> \notin stale
    BY <1>1, <1>2, Mine
<1>9. "opened" \in Labels /\ (lock' = None => "opened" \in Parked)
    BY <1>2, ConstantFacts DEF Labels, Parked
<1> QED
    BY <1>1, <1>2, <1>3, <1>6, <1>7, <1>8, <1>9, GotoStill

\* The fini list has been called through.
LEMMA FinalizedStep == ASSUME IInv, NEW t \in Threads, Finalized(t) PROVE IInv'
<1>1. PICK U : Frames(U)
    BY DEF IInv
<1>2. th[t].pc = "call" /\ th[t].phase = "fini" /\ lock = t /\ lock' = t /\ Goto(t, "undag")
    BY DEF Finalized, At, Wait
<1>3. PICK g : g = [th[t] EXCEPT !.pc = "undag"]
    OBVIOUS
<1>4. th[t] \in CallOf(U) /\ LocalsOK(th[t])
    BY <1>1, Mine
<1>5. /\ g.pc = "undag" /\ g.root = th[t].root /\ g.pos = th[t].pos /\ g.idx = th[t].idx
      /\ g.phase = th[t].phase
    BY <1>3, <1>4, Relabelled
<1>6. /\ LocalsOK(g)
      /\ \A l \in Libs : /\ Opens(g, l) <=> Opens(th[t], l)
                         /\ Loads(g, l) <=> Loads(th[t], l)
                         /\ Marks(g, l) <=> Marks(th[t], l)
                         /\ ~PinIn(th[t], l)
    BY <1>2, <1>4, <1>5 DEF LocalsOK, Opens, Loads, Marks, PinIn
<1>7. /\ objlist' = objlist /\ obj' = obj /\ pending' = pending /\ clients' = clients
      /\ stale' = stale
    BY DEF Finalized
<1>8. << t, Depth(t) >> \notin stale
    BY <1>1, <1>2, Mine
<1>9. "undag" \in Labels /\ (lock' = None => "undag" \in Parked)
    BY <1>2, ConstantFacts DEF Labels, Parked
<1> QED
    BY <1>1, <1>2, <1>3, <1>6, <1>7, <1>8, <1>9, GotoStill

\* A thread takes the lock again.
LEMMA RelockStep == ASSUME IInv, NEW t \in Threads, Relock(t) PROVE IInv'
<1>1. PICK U : Frames(U)
    BY DEF IInv
<1>2. th[t].pc \notin {"idle", "calling"} /\ lock = None /\ lock' = t /\ th' = th
    BY DEF Relock
<1>3. PICK g : g = th[t]
    OBVIOUS
<1>4. g \in CallOf(U) /\ LocalsOK(g)
    BY <1>1, <1>3, Mine
<1>5. g.pc \in Parked
    BY <1>2, <1>3, ConstantFacts DEF IInv, Stacks
<1>6. \A l \in Libs : ~PinIn(th[t], l)
    BY <1>3, <1>5 DEF PinIn, Parked
<1>7. /\ objlist' = objlist /\ obj' = obj /\ pending' = pending /\ clients' = clients
      /\ stale' = stale
    BY DEF Relock
<1>8. << t, Depth(t) >> \in stale => g.pc \in {"calling", "sort"}
    BY <1>1, <1>3, Mine
<1>9. th' = [th EXCEPT ![t] = g]
    BY <1>1, <1>2, <1>3 DEF Frames
<1>10. g.pc \notin {"scan", "dag", "ref", "unref"} /\ lock' # None
    BY <1>2, <1>5, ConstantFacts DEF Parked
<1> QED
    BY <1>1, <1>2, <1>3, <1>4, <1>6, <1>7, <1>8, <1>9, <1>10, LocalStill

\* _rtld_load_needed_objects comes to an object that is not referenced, or to the end.
LEMMA ScanStillStep ==
    ASSUME IInv, NEW t \in Threads, Scan(t), th[t].pos = None \/ obj[th[t].pos].ref = 0
    PROVE  IInv'
<1>1. PICK U : Frames(U)
    BY DEF IInv
<1>2. th[t].pc = "scan" /\ lock = t /\ lock' = t
    BY DEF Scan, At
<1>3. PICK g : g = IF th[t].pos = None THEN [th[t] EXCEPT !.pc = "dag", !.work = << th[t].root >>]
                   ELSE [th[t] EXCEPT !.pos = NextOf(th[t].pos)]
    OBVIOUS
<1>4. th[t] \in CallOf(U) /\ LocalsOK(th[t])
    BY <1>1, Mine
<1>5. th' = [th EXCEPT ![t] = g] /\ obj' = obj
    <2>1. ~(th[t].pos # None /\ obj[th[t].pos].ref > 0)
        OBVIOUS
    <2>2. CASE th[t].pos = None
        BY <1>1, <1>3, <1>4, <2>2 DEF Scan, Frames
    <2>3. CASE th[t].pos # None
        BY <1>1, <1>3, <1>4, <2>1, <2>3 DEF Scan, Frames
    <2> QED
        BY <2>2, <2>3
<1>6. /\ objlist' = objlist /\ pending' = pending /\ clients' = clients /\ stale' = stale
    BY DEF Scan
<1>7. << t, Depth(t) >> \notin stale
    BY <1>1, <1>2, Mine
<1>8. /\ th[t].root \in Libs /\ th[t].phase = "init" /\ th[t].pos \in Libs \cup {None}
      /\ \A l \in Libs : ~PinIn(th[t], l)
    BY <1>2, <1>4 DEF LocalsOK, CallOf, PinIn
<1>9. CASE th[t].pos = None
    <2>1. << th[t].root >> \in Seq(Libs)
        BY <1>8
    <2>2. g \in CallOf(U)
        BY <1>3, <1>4, <1>9, <2>1 DEF CallOf, Labels
    <2>3. /\ g.pc = "dag" /\ g.root = th[t].root /\ g.pos = None /\ g.phase = "init"
          /\ g.work = << g.root >>
        BY <1>3, <1>4, <1>8, <1>9 DEF CallOf
    <2>4. /\ LocalsOK(g)
          /\ \A l \in Libs : /\ Opens(g, l) <=> Opens(th[t], l)
                             /\ Loads(g, l) <=> Loads(th[t], l)
                             /\ Marks(g, l) <=> Marks(th[t], l)
        BY <1>2, <1>8, <2>3 DEF LocalsOK, Opens, Loads, Marks
    <2>5. \A i \in 1 .. Len(g.work) : Reach(g.root, g.work[i])
        BY <1>8, <2>3, ReachSteps
    <2> QED
        BY <1>1, <1>2, <1>5, <1>6, <1>7, <1>8, <2>2, <2>3, <2>4, <2>5, ConstantFacts, LocalStill
<1>10. CASE th[t].pos # None
    <2>1. Listed(th[t].pos) /\ th[t].pos \in Libs /\ objlist \in Seq(Libs)
        BY <1>2, <1>8, <1>10 DEF IInv, Working, Data
    <2>2. PICK q : q = NextOf(th[t].pos)
        OBVIOUS
    <2>3. q \in Libs \cup {None} /\ (q # None => Listed(q))
        BY <2>1, <2>2, ListNext
    <2>4. g = [th[t] EXCEPT !.pos = q]
        BY <1>3, <1>10, <2>2
    <2>5. g \in CallOf(U)
        BY <1>4, <2>3, <2>4 DEF CallOf
    <2>6. g.pc = "scan" /\ g.root = th[t].root /\ g.pos = q /\ g.phase = "init"
        BY <1>2, <1>4, <1>8, <2>4 DEF CallOf
    <2>7. /\ LocalsOK(g)
          /\ \A l \in Libs : /\ Opens(g, l) <=> Opens(th[t], l)
                             /\ Loads(g, l) <=> Loads(th[t], l)
                             /\ Marks(g, l) <=> Marks(th[t], l)
        BY <1>2, <1>8, <2>6 DEF LocalsOK, Opens, Loads, Marks
    <2> QED
        BY <1>1, <1>2, <1>5, <1>6, <1>7, <1>8, <2>3, <2>5, <2>6, <2>7, ConstantFacts, LocalStill
<1> QED
    BY <1>9, <1>10

\* A DT_NEEDED entry that is resolved, or is to be resolved.
LEMMA NeedStillStep ==
    ASSUME IInv, NEW t \in Threads, Need(t), th[t].idx <= Len(Needs[th[t].pos])
    PROVE  IInv'
<1>1. PICK U : Frames(U)
    BY DEF IInv
<1>2. th[t].pc = "need" /\ lock = t /\ lock' = t
    BY DEF Need, At
<1>3. th[t] \in CallOf(U) /\ LocalsOK(th[t])
    BY <1>1, Mine
<1>4. /\ th[t].root \in Libs /\ th[t].phase = "init" /\ th[t].pos \in Libs /\ th[t].idx \in Nat
      /\ th[t].idx >= 1 /\ \A l \in Libs : ~PinIn(th[t], l)
    BY <1>2, <1>3 DEF LocalsOK, CallOf, PinIn
<1>5. Len(Needs[th[t].pos]) \in Nat
    BY <1>4, ConstantFacts
<1>6. PICK g : g = IF Needs[th[t].pos][th[t].idx] \in obj[th[t].pos].need
                   THEN [th[t] EXCEPT !.idx = @ + 1] ELSE [th[t] EXCEPT !.pc = "byname"]
    OBVIOUS
<1>7. ~(th[t].idx > Len(Needs[th[t].pos]))
    BY <1>4, <1>5
<1>8. th' = [th EXCEPT ![t] = g] /\ obj' = obj
    BY <1>1, <1>3, <1>6, <1>7 DEF Need, Frames, Goto
<1>9. /\ objlist' = objlist /\ pending' = pending /\ clients' = clients /\ stale' = stale
    BY DEF Need
<1>10. << t, Depth(t) >> \notin stale
    BY <1>1, <1>2, Mine
<1>11. g \in CallOf(U)
    <2>1. [th[t] EXCEPT !.idx = @ + 1] \in CallOf(U)
        BY <1>3, <1>4 DEF CallOf
    <2>2. [th[t] EXCEPT !.pc = "byname"] \in CallOf(U)
        BY <1>3 DEF CallOf, Labels
    <2> QED
        BY <1>6, <2>1, <2>2
<1>12. /\ g.root = th[t].root /\ g.pos = th[t].pos /\ g.phase = "init"
       /\ \/ g.pc = "need" /\ g.idx = th[t].idx + 1
          \/ g.pc = "byname" /\ g.idx = th[t].idx
    BY <1>2, <1>3, <1>4, <1>6 DEF CallOf
<1>13. /\ LocalsOK(g)
       /\ \A l \in Libs : /\ Opens(g, l) <=> Opens(th[t], l)
                          /\ Loads(g, l) <=> Loads(th[t], l)
                          /\ Marks(g, l) <=> Marks(th[t], l)
    BY <1>2, <1>4, <1>12 DEF LocalsOK, Opens, Loads, Marks
<1> QED
    BY <1>1, <1>2, <1>4, <1>8, <1>9, <1>10, <1>11, <1>12, <1>13, ConstantFacts, LocalStill

\* _rtld_ref_dag returns.
LEMMA RefDoneStep == ASSUME IInv, NEW t \in Threads, RefDone(t) PROVE IInv'
<1>1. PICK U : Frames(U)
    BY DEF IInv
<1>2. th[t].pc = "ref" /\ lock = t /\ lock' = t /\ th[t].work = << >>
    BY DEF RefDone, At
<1>3. th[t] \in CallOf(U) /\ LocalsOK(th[t])
    BY <1>1, Mine
<1>4. /\ th[t].root \in Libs /\ th[t].phase = "init" /\ th[t].pos \in Libs \cup {None}
      /\ th[t].idx \in Nat
    BY <1>2, <1>3 DEF LocalsOK, CallOf
<1>5. \A l \in Libs : ~PinIn(th[t], l)
    BY <1>2 DEF PinIn
<1>6. PICK g : g = IF th[t].pos = None THEN [th[t] EXCEPT !.pc = "opened"]
                   ELSE [th[t] EXCEPT !.pc = "need", !.idx = @ + 1]
    OBVIOUS
<1>7. th' = [th EXCEPT ![t] = g]
    BY <1>1, <1>3, <1>6 DEF RefDone, Frames
<1>8. /\ objlist' = objlist /\ obj' = obj /\ pending' = pending /\ clients' = clients /\ stale' = stale
    BY DEF RefDone
<1>9. << t, Depth(t) >> \notin stale
    BY <1>1, <1>2, Mine
<1>10. g \in CallOf(U)
    <2>1. [th[t] EXCEPT !.pc = "need", !.idx = @ + 1] \in CallOf(U)
        <3>1. th[t].idx + 1 \in Nat /\ "need" \in Labels
            BY <1>4 DEF Labels
        <3> QED
            BY <1>3, <3>1 DEF CallOf
    <2>2. [th[t] EXCEPT !.pc = "opened"] \in CallOf(U)
        BY <1>3 DEF CallOf, Labels
    <2> QED
        BY <1>6, <2>1, <2>2
<1>11. /\ g.root = th[t].root /\ g.pos = th[t].pos /\ g.phase = "init"
       /\ \/ g.pc = "need" /\ g.idx = th[t].idx + 1 /\ g.pos \in Libs
          \/ g.pc = "opened" /\ g.pos = None
    BY <1>2, <1>3, <1>4, <1>6 DEF CallOf
<1>12. /\ LocalsOK(g)
       /\ \A l \in Libs : /\ Opens(g, l) <=> Opens(th[t], l)
                          /\ Loads(g, l) <=> Loads(th[t], l)
                          /\ Marks(g, l) <=> Marks(th[t], l)
    BY <1>2, <1>4, <1>11, ConstantFacts DEF LocalsOK, Opens, Loads, Marks
<1> QED
    BY <1>1, <1>2, <1>5, <1>7, <1>8, <1>9, <1>10, <1>11, <1>12, ConstantFacts, LocalStill

\* A thread that holds the lock makes or goes through its list.
LEMMA ListStill ==
    ASSUME IInv, NEW U, Frames(U), NEW t \in Threads, NEW V, NEW g \in CallOf(V),
           th[t].pc \in {"call", "sort"}, lock = t,
           g.pc \in {"call", "sort"}, lock' \in {t, None}, lock' = None => g.pc = "sort",
           g.root = th[t].root, g.pos = th[t].pos, g.phase = th[t].phase,
           th' = [th EXCEPT ![t] = g],
           objlist' = objlist, obj' = obj, pending' = pending, clients' = clients,
           stale' \subseteq stale, << t, Depth(t) >> \notin stale'
    PROVE  IInv'
<1>1. LocalsOK(g)
    BY Mine DEF LocalsOK
<1>2. \A l \in Libs : /\ Opens(g, l) <=> Opens(th[t], l)
                      /\ Loads(g, l) <=> Loads(th[t], l)
                      /\ Marks(g, l) <=> Marks(th[t], l)
                      /\ ~PinIn(th[t], l)
    BY DEF Opens, Loads, Marks, PinIn
<1>3. g.pc \notin {"idle", "calling", "scan", "dag", "ref", "unref"} /\ (lock' = None => g.pc \in Parked)
    BY ConstantFacts DEF Parked
<1> QED
    BY <1>1, <1>2, <1>3, LocalStill

\* _rtld_call_init_functions and _rtld_call_fini_functions make their lists.
LEMMA SortStep == ASSUME IInv, NEW t \in Threads, Sort(t) PROVE IInv'
<1>1. PICK U : Frames(U)
    BY DEF IInv
<1>2. th[t].pc = "sort" /\ lock = t /\ lock' = t
    BY DEF Sort, At
<1>3. PICK X : X = IF th[t].phase = "init" THEN InitCalls(t) ELSE FiniCalls(t)
    OBVIOUS
<1>4. PICK g : g = [th[t] EXCEPT !.pc = "call", !.todo = X]
    OBVIOUS
<1>5. th' = [th EXCEPT ![t] = g]
    BY <1>1, <1>3, <1>4 DEF Sort, Frames
<1>6. /\ g \in CallOf({X}) /\ g.pc = "call" /\ g.root = th[t].root /\ g.pos = th[t].pos
      /\ g.phase = th[t].phase
    <2>1. th[t] \in CallOf(U)
        BY <1>1, Mine
    <2> QED
        BY <1>2, <1>4, <2>1 DEF CallOf, Labels
<1>7. objlist' = objlist /\ obj' = obj /\ pending' = pending /\ clients' = clients
    BY DEF Sort
<1>8. stale' \subseteq stale /\ << t, Depth(t) >> \notin stale'
    BY DEF Sort
<1> QED
    BY <1>1, <1>2, <1>5, <1>6, <1>7, <1>8, ConstantFacts, ListStill

\* A function that is not called.
LEMMA SkipStep == ASSUME IInv, NEW t \in Threads, Skip(t) PROVE IInv'
<1>1. PICK U : Frames(U)
    BY DEF IInv
<1>2. th[t].pc = "call" /\ lock = t /\ lock' = t
    BY DEF Skip, At
<1>3. PICK X : X = Tail(th[t].todo)
    OBVIOUS
<1>4. PICK g : g = [th[t] EXCEPT !.todo = X]
    OBVIOUS
<1>5. th' = [th EXCEPT ![t] = g]
    BY <1>1, <1>3, <1>4 DEF Skip, Frames
<1>6. /\ g \in CallOf({X}) /\ g.pc = "call" /\ g.root = th[t].root /\ g.pos = th[t].pos
      /\ g.phase = th[t].phase
    <2>1. th[t] \in CallOf(U)
        BY <1>1, Mine
    <2> QED
        BY <1>2, <1>4, <2>1 DEF CallOf, Labels
<1>7. objlist' = objlist /\ obj' = obj /\ pending' = pending /\ clients' = clients
    BY DEF Skip
<1>8. stale' \subseteq stale /\ << t, Depth(t) >> \notin stale'
    BY <1>1, <1>2, Mine DEF Skip
<1> QED
    BY <1>1, <1>2, <1>5, <1>6, <1>7, <1>8, ConstantFacts, ListStill

\* _rtld_initfini_enter waits, and the list is made again.
LEMMA CallWaitStep == ASSUME IInv, NEW t \in Threads, CallWait(t) PROVE IInv'
<1>1. PICK U : Frames(U)
    BY DEF IInv
<1>2. th[t].pc = "call" /\ lock = t /\ lock' = None
    BY DEF CallWait, At
<1>3. PICK X : X = << >>
    OBVIOUS
<1>4. PICK g : g = [th[t] EXCEPT !.pc = "sort", !.todo = X]
    OBVIOUS
<1>5. th' = [th EXCEPT ![t] = g]
    BY <1>1, <1>3, <1>4 DEF CallWait, Frames
<1>6. /\ g \in CallOf({X}) /\ g.pc = "sort" /\ g.root = th[t].root /\ g.pos = th[t].pos
      /\ g.phase = th[t].phase
    <2>1. th[t] \in CallOf(U)
        BY <1>1, Mine
    <2> QED
        BY <1>2, <1>4, <2>1 DEF CallOf, Labels
<1>7. objlist' = objlist /\ obj' = obj /\ pending' = pending /\ clients' = clients
    BY DEF CallWait
<1>8. stale' \subseteq stale /\ << t, Depth(t) >> \notin stale'
    BY <1>1, <1>2, Mine DEF CallWait
<1> QED
    BY <1>1, <1>2, <1>5, <1>6, <1>7, <1>8, ConstantFacts, ListStill

-----------------------------------------------------------------------------
(* Steps that change objects but no reference *)

\* A thread goes on in its innermost call, and objects keep their references.
LEMMA LocalQuiet ==
    ASSUME IInv, NEW U, Frames(U), NEW t \in Threads, NEW V, NEW g \in CallOf(V),
           th' = [th EXCEPT ![t] = g], clients' = clients, Data', QuietObjects, Pending',
           lock \in {t, None}, lock' \in {t, None}, th[t].pc # "idle",
           g.pc # "idle", lock' = t => g.pc # "calling", lock' = None => g.pc \in Parked,
           stale' = stale, << t, Depth(t) >> \in stale => g.pc \in {"calling", "sort"},
           LocalsOK(g), Counted(th[t], g),
           \A l \in Libs : (Marks(g, l) => obj[l].ref = 0) /\ ~PinIn(th[t], l),
           lock' = t => /\ g.pc \notin {"unref", "ref", "dag"}
                        /\ g.pc = "scan" /\ g.pos # None => Listed(g.pos)
    PROVE  IInv'
<1>1. outer' = outer /\ dtors' = dtors
    BY DEF clients
<1>2. Data /\ Stacks /\ StaleOK
    BY DEF IInv
<1>3. PICK W : Frames(W)'
    BY <1>1, <1>2, LocalStep
<1>4. PICK me \in Threads \X Nat : me = << t, Depth(t) >> /\ Moves(me, th[t], g)
    BY <1>1, <1>2, LocalStep
<1>5. Stacks'
    BY <1>1, <1>2, LocalStep
<1>6. StaleKept(me, g)
    BY <1>2, <1>4, ByRec DEF StaleKept
<1>7. RootsKept(g)
    BY DEF RootsKept, QuietObjects
<1>8. th'[t] = g
    BY DEF Frames
<1>9. \A l \in Libs : Due(l)' = 0 /\ ~Pinning(l)
    BY <1>3, <1>8, DueFacts, DueFactsPrime DEF DueIn
<1>10. Working'
    <2>1. \A l : Listed(l) => Listed(l)'
        BY DEF Listed, QuietObjects
    <2> QED
        BY <1>8, <2>1, WorkingBy
<1> QED
    BY <1>1, <1>3, <1>4, <1>5, <1>6, <1>7, <1>9, <1>10, QuietStep

\* What a call is counted in.
LEMMA MyCounts ==
    ASSUME IInv, NEW U, Frames(U), NEW t \in Threads, NEW l \in Libs
    PROVE  /\ Loads(th[t], l) => obj[l].nref >= 1 /\ Listed(l)
           /\ Opens(th[t], l) => obj[l].dlref >= 1 /\ obj[l].ref >= 1 /\ Listed(l)
           /\ handles[l] > 0 => obj[l].dlref >= 1 /\ obj[l].ref >= 1 /\ Listed(l)
           /\ obj[l].closing >= One(Marks(th[t], l)) + One(MarksDag(th[t], l))
           /\ obj[l].ref > 0 => Listed(l)
<1>1. /\ Data /\ Counts /\ Unlisted /\ References
    BY DEF IInv
<1>2. PICK me : me = << t, Depth(t) >>
    OBVIOUS
<1>3. me \in Calls /\ CallAt(me[1], me[2]) = th[t]
    BY <1>2, CallsFacts DEF CallAt
<1> DEFINE o == Opening(l)  d == Loading(l)  m == Marking(l)  k == MarkingDag(l)
<1>4. /\ Opens(th[t], l) => me \in o
      /\ Loads(th[t], l) => me \in d
      /\ Marks(th[t], l) => me \in m
      /\ MarksDag(th[t], l) => me \in k
    BY <1>3 DEF Opening, Loading, Marking, MarkingDag, MarksDag
<1>5. IsFiniteSet(o) /\ IsFiniteSet(d) /\ IsFiniteSet(m) /\ IsFiniteSet(k)
    BY CountedFinite
<1>6. /\ obj[l].dlref = handles[l] + Cardinality(o) /\ obj[l].nref = Cardinality(d)
      /\ obj[l].closing = Cardinality(m) + Cardinality(k)
    BY <1>1 DEF Counts
<1> HIDE DEF o, d, m, k
<1>7. /\ Cardinality(o) \in Nat /\ Cardinality(d) \in Nat /\ Cardinality(m) \in Nat /\ Cardinality(k) \in Nat
      /\ me \in o => Cardinality(o) # 0
      /\ me \in d => Cardinality(d) # 0
      /\ me \in m => Cardinality(m) # 0
      /\ me \in k => Cardinality(k) # 0
    BY <1>5, FS_CardinalityType, FS_EmptySet
<1>8. obj[l].ref > 0 => Listed(l)
    BY <1>1 DEF Unlisted
<1>9. obj[l].dlref >= 1 => obj[l].ref >= 1 /\ Listed(l)
    <2>1. obj[l].ref >= Base(l) /\ Base(l) >= obj[l].dlref
        BY <1>1, BaseFacts DEF References
    <2>2. obj[l].ref \in Nat /\ obj[l].dlref \in Nat /\ Base(l) \in Nat
        BY <1>1, BaseFacts
    <2>3. obj[l].dlref >= 1 => obj[l].ref >= 1 /\ obj[l].ref > 0
        BY <2>1, <2>2
    <2> QED
        BY <1>8, <2>3
<1>10. handles[l] \in Nat
    BY <1>1 DEF Data
<1>11. Loads(th[t], l) => obj[l].nref >= 1 /\ Listed(l)
    <2>1. Loads(th[t], l) => obj[l].nref >= 1 /\ obj[l].nref # 0
        BY <1>4, <1>6, <1>7
    <2> QED
        BY <1>1, <2>1 DEF Unlisted
<1>12. Opens(th[t], l) \/ handles[l] > 0 => obj[l].dlref >= 1
    BY <1>4, <1>6, <1>7, <1>10
<1>13. obj[l].closing >= One(Marks(th[t], l)) + One(MarksDag(th[t], l))
    <2>1. One(Marks(th[t], l)) \in Nat /\ One(Marks(th[t], l)) <= Cardinality(m)
        BY <1>4, <1>7 DEF One
    <2>2. One(MarksDag(th[t], l)) \in Nat /\ One(MarksDag(th[t], l)) <= Cardinality(k)
        BY <1>4, <1>7 DEF One
    <2> QED
        BY <1>6, <1>7, <2>1, <2>2
<1> QED
    BY <1>8, <1>9, <1>11, <1>12, <1>13

\* What Counted asks of a step that changes one of the three counts only.
LEMMA CountedOpens ==
    ASSUME NEW b, NEW g,
           \A l \in Libs : /\ obj'[l].nref = obj[l].nref /\ obj'[l].closing = obj[l].closing
                           /\ Loads(g, l) <=> Loads(b, l)
                           /\ Marks(g, l) <=> Marks(b, l),
           \A l \in Libs : obj'[l].dlref + handles[l] + One(Opens(b, l))
                              = obj[l].dlref + handles'[l] + One(Opens(g, l))
    PROVE  Counted(b, g)
<1>1. ASSUME NEW l \in Libs
      PROVE  /\ One(Loads(g, l)) = One(Loads(b, l)) /\ One(Marks(g, l)) = One(Marks(b, l))
             /\ One(MarksDag(g, l)) = One(MarksDag(b, l))
    BY DEF One, MarksDag
<1> QED
    BY <1>1 DEF Counted

\* The same for neededrefcount.
LEMMA CountedLoads ==
    ASSUME NEW b, NEW g,
           \A l \in Libs : /\ obj'[l].dlref = obj[l].dlref /\ obj'[l].closing = obj[l].closing
                           /\ handles'[l] = handles[l],
           \A l \in Libs : /\ Opens(g, l) <=> Opens(b, l)
                           /\ Marks(g, l) <=> Marks(b, l),
           \A l \in Libs : obj'[l].nref + One(Loads(b, l)) = obj[l].nref + One(Loads(g, l))
    PROVE  Counted(b, g)
<1>1. ASSUME NEW l \in Libs
      PROVE  /\ One(Opens(g, l)) = One(Opens(b, l)) /\ One(Marks(g, l)) = One(Marks(b, l))
             /\ One(MarksDag(g, l)) = One(MarksDag(b, l))
    BY DEF One, MarksDag
<1> QED
    BY <1>1 DEF Counted

\* The same for dlclosing.
LEMMA CountedMarks ==
    ASSUME NEW b, NEW g,
           \A l \in Libs : /\ obj'[l].dlref = obj[l].dlref /\ obj'[l].nref = obj[l].nref
                           /\ handles'[l] = handles[l],
           \A l \in Libs : /\ Opens(g, l) <=> Opens(b, l)
                           /\ Loads(g, l) <=> Loads(b, l),
           \A l \in Libs : obj'[l].closing + One(Marks(b, l)) + One(MarksDag(b, l))
                              = obj[l].closing + One(Marks(g, l)) + One(MarksDag(g, l))
    PROVE  Counted(b, g)
<1>1. ASSUME NEW l \in Libs
      PROVE  One(Opens(g, l)) = One(Opens(b, l)) /\ One(Loads(g, l)) = One(Loads(b, l))
    BY DEF One
<1> QED
    BY <1>1 DEF Counted

\* One object changes.
LEMMA OneObject ==
    ASSUME Data, NEW p \in Libs, NEW e \in Entry, obj' = [obj EXCEPT ![p] = e]
    PROVE  obj' \in [Libs -> Entry] /\ obj'[p] = e /\ \A l \in Libs : l # p => obj'[l] = obj[l]
BY DEF Data

\* _rtld_load_needed_objects comes to an object that is referenced: nref++.
LEMMA ScanTakeStep ==
    ASSUME IInv, NEW t \in Threads, Scan(t), th[t].pos # None, obj[th[t].pos].ref > 0
    PROVE  IInv'
<1>1. PICK U : Frames(U)
    BY DEF IInv
<1>2. th[t].pc = "scan" /\ lock = t /\ lock' = t
    BY DEF Scan, At
<1>3. th[t] \in CallOf(U) /\ LocalsOK(th[t])
    BY <1>1, Mine
<1>4. PICK p : p = th[t].pos
    OBVIOUS
<1>5. /\ th[t].root \in Libs /\ th[t].phase = "init" /\ p \in Libs
      /\ \A l \in Libs : ~PinIn(th[t], l)
    BY <1>2, <1>3, <1>4 DEF LocalsOK, CallOf, PinIn
<1>6. Data /\ Pending
    BY DEF IInv
<1>7. obj[p] \in Entry /\ obj[p].nref \in Nat /\ obj[p].ref \in Nat /\ obj[p].ref > 0
    BY <1>4, <1>5, <1>6 DEF Data, Entry
<1>8. ~(obj[p].ref = 0)
    BY <1>7
<1>9. PICK g : g = [th[t] EXCEPT !.pc = "need", !.idx = 1]
    OBVIOUS
<1>10. PICK e : e = [obj[p] EXCEPT !.nref = @ + 1]
    OBVIOUS
<1>11. th' = [th EXCEPT ![t] = g] /\ obj' = [obj EXCEPT ![p] = e]
    BY <1>1, <1>4, <1>6, <1>8, <1>9, <1>10 DEF Scan, Frames, Data
<1>12. g \in CallOf(U)
    BY <1>3, <1>9 DEF CallOf, Labels
<1>13. g.pc = "need" /\ g.root = th[t].root /\ g.pos = p /\ g.phase = "init" /\ g.idx = 1
    BY <1>3, <1>4, <1>5, <1>9 DEF CallOf
<1>14. /\ e \in Entry /\ e.nref = obj[p].nref + 1 /\ e.ref = obj[p].ref /\ e.dlref = obj[p].dlref
       /\ e.closing = obj[p].closing /\ e.cxa = obj[p].cxa /\ e.nodel = obj[p].nodel
       /\ e.dagmembers = obj[p].dagmembers /\ e.need = obj[p].need /\ e.reloc = obj[p].reloc
    BY <1>7, <1>10 DEF Entry
<1>15. obj' \in [Libs -> Entry] /\ obj'[p] = e /\ \A l \in Libs : l # p => obj'[l] = obj[l]
    BY <1>5, <1>6, <1>11, <1>14, OneObject
<1>16. /\ objlist' = objlist /\ pending' = pending /\ clients' = clients /\ stale' = stale /\ lock' = lock
    BY DEF Scan
<1>17. handles' = handles /\ dtors' = dtors /\ ops' = ops
    BY <1>16 DEF clients
<1>18. Data'
    BY <1>6, <1>15, <1>16, <1>17 DEF Data
<1>19. Listed(p)
    BY <1>1, <1>5, <1>7, MyCounts
<1>20. QuietObjects
    BY <1>14, <1>15, <1>16, <1>19 DEF QuietObjects
<1>21. Pending'
    <2>1. \A l \in Libs : obj'[l].reloc = obj[l].reloc
        BY <1>14, <1>15
    <2>2. Unrelocated' = Unrelocated
        BY <1>16, <2>1 DEF Unrelocated, Listed
    <2> QED
        BY <1>6, <1>16, <2>2 DEF Pending
<1>22. LocalsOK(g)
    BY <1>5, <1>13 DEF LocalsOK
<1>23. \A l \in Libs : /\ Opens(g, l) <=> Opens(th[t], l)
                       /\ ~Loads(th[t], l)
                       /\ Loads(g, l) <=> l = p
                       /\ ~Marks(g, l) /\ ~Marks(th[t], l)
    BY <1>2, <1>5, <1>13 DEF Opens, Loads, Marks
<1>24. Counted(th[t], g)
    <2>1. ASSUME NEW l \in Libs
          PROVE  obj'[l].nref + One(Loads(th[t], l)) = obj[l].nref + One(Loads(g, l))
        <3> DEFINE x == One(Loads(th[t], l))  y == One(Loads(g, l))
        <3>1. x = 0 /\ (l = p => y = 1) /\ (l # p => y = 0)
            BY <1>23 DEF One
        <3>2. /\ obj[l].nref \in Nat
              /\ l = p => obj'[l].nref = obj[l].nref + 1
              /\ l # p => obj'[l].nref = obj[l].nref
            BY <1>6, <1>14, <1>15 DEF Data, Entry
        <3> HIDE DEF x, y
        <3>3. obj'[l].nref + x = obj[l].nref + y
            BY <3>1, <3>2
        <3> QED
            BY <3>3 DEF x, y
    <2>2. \A l \in Libs : /\ obj'[l].dlref = obj[l].dlref /\ obj'[l].closing = obj[l].closing
                          /\ handles'[l] = handles[l]
        BY <1>14, <1>15, <1>17
    <2> QED
        BY <1>23, <2>1, <2>2, CountedLoads
<1>25. << t, Depth(t) >> \notin stale
    BY <1>1, <1>2, Mine
<1> QED
    BY <1>1, <1>2, <1>5, <1>11, <1>12, <1>13, <1>16, <1>18, <1>20, <1>21, <1>22, <1>23, <1>24, <1>25,
       ConstantFacts, LocalQuiet

\* nref-- at the end of an object's DT_NEEDED entries, or when one cannot be loaded.
LEMMA NeedEnds ==
    ASSUME IInv, NEW U, Frames(U), NEW t \in Threads, th[t].pc \in {"need", "byname"},
           lock = t, lock' = t, objlist' = objlist, pending' = pending, clients' = clients, stale' = stale,
           NEW g \in CallOf(U), th' = [th EXCEPT ![t] = g],
           g.root = th[t].root, g.phase = th[t].phase, g.pc \in {"scan", "fail"},
           g.pc = "fail" => g.pos = None, g.pos # None => Listed(g.pos),
           NEW p, p = th[t].pos, NEW e \in Entry, obj' = [obj EXCEPT ![p] = e],
           e.nref = obj[p].nref - 1, e.ref = obj[p].ref, e.dlref = obj[p].dlref,
           e.closing = obj[p].closing, e.cxa = obj[p].cxa, e.nodel = obj[p].nodel,
           e.dagmembers = obj[p].dagmembers, e.reloc = obj[p].reloc,
           obj[p].ref > 0 => e.need = obj[p].need
    PROVE  IInv'
<1>1. th[t] \in CallOf(U) /\ LocalsOK(th[t])
    BY Mine
<1>2. /\ th[t].root \in Libs /\ th[t].phase = "init" /\ p \in Libs
      /\ \A l \in Libs : ~PinIn(th[t], l)
    BY <1>1 DEF LocalsOK, CallOf, PinIn
<1>3. Data /\ Pending
    BY DEF IInv
<1>4. obj' \in [Libs -> Entry] /\ obj'[p] = e /\ \A l \in Libs : l # p => obj'[l] = obj[l]
    BY <1>2, <1>3, OneObject
<1>5. handles' = handles /\ dtors' = dtors /\ ops' = ops
    BY DEF clients
<1>6. Data'
    BY <1>3, <1>4, <1>5 DEF Data
<1>7. Loads(th[t], p)
    BY DEF Loads
<1>8. Listed(p) /\ obj[p].nref \in Nat
    BY <1>2, <1>3, <1>7, MyCounts DEF Data, Entry
<1>9. QuietObjects
    BY <1>4, <1>8 DEF QuietObjects
<1>10. Pending'
    <2>1. \A l \in Libs : obj'[l].reloc = obj[l].reloc
        BY <1>4
    <2>2. Unrelocated' = Unrelocated
        BY <2>1 DEF Unrelocated, Listed
    <2> QED
        BY <1>3, <2>2 DEF Pending
<1>11. LocalsOK(g)
    BY <1>2 DEF LocalsOK
<1>12. \A l \in Libs : /\ Opens(g, l) <=> Opens(th[t], l)
                       /\ Loads(th[t], l) <=> l = p
                       /\ ~Loads(g, l)
                       /\ ~Marks(g, l) /\ ~Marks(th[t], l)
    BY <1>2 DEF Opens, Loads, Marks
<1>13. Counted(th[t], g)
    <2>1. ASSUME NEW l \in Libs
          PROVE  obj'[l].nref + One(Loads(th[t], l)) = obj[l].nref + One(Loads(g, l))
        <3> DEFINE x == One(Loads(th[t], l))  y == One(Loads(g, l))
        <3>1. y = 0 /\ (l = p => x = 1) /\ (l # p => x = 0)
            BY <1>12 DEF One
        <3>2. /\ obj[l].nref \in Nat
              /\ l = p => obj'[l].nref = obj[l].nref - 1
              /\ l # p => obj'[l].nref = obj[l].nref
            BY <1>3, <1>4 DEF Data, Entry
        <3> HIDE DEF x, y
        <3>3. obj'[l].nref + x = obj[l].nref + y
            BY <3>1, <3>2
        <3> QED
            BY <3>3 DEF x, y
    <2>2. \A l \in Libs : /\ obj'[l].dlref = obj[l].dlref /\ obj'[l].closing = obj[l].closing
                          /\ handles'[l] = handles[l]
        BY <1>4, <1>5
    <2> QED
        BY <1>12, <2>1, <2>2, CountedLoads
<1>14. << t, Depth(t) >> \notin stale
    BY Mine
<1> QED
    BY <1>2, <1>6, <1>9, <1>10, <1>11, <1>12, <1>13, <1>14, ConstantFacts, LocalQuiet

\* No DT_NEEDED entry left: on to the next object of the list.
LEMMA NeedNextStep ==
    ASSUME IInv, NEW t \in Threads, Need(t), th[t].idx > Len(Needs[th[t].pos])
    PROVE  IInv'
<1>1. PICK U : Frames(U)
    BY DEF IInv
<1>2. th[t].pc = "need" /\ lock = t /\ lock' = t
    BY DEF Need, At
<1>3. th[t] \in CallOf(U) /\ LocalsOK(th[t])
    BY <1>1, Mine
<1>4. PICK p : p = th[t].pos
    OBVIOUS
<1>5. p \in Libs /\ th[t].idx \in Nat /\ Len(Needs[p]) \in Nat /\ Loads(th[t], p)
    BY <1>2, <1>3, <1>4, ConstantFacts DEF LocalsOK, CallOf, Loads
<1>6. Listed(p) /\ obj[p].nref >= 1
    BY <1>1, <1>5, MyCounts
<1>7. Data
    BY DEF IInv
<1>8. PICK q : q = NextOf(p)
    OBVIOUS
<1>9. q \in Libs \cup {None} /\ (q # None => Listed(q))
    BY <1>5, <1>6, <1>7, <1>8, ListNext DEF Data
<1>10. PICK g : g = [th[t] EXCEPT !.pc = "scan", !.pos = q, !.idx = 0]
    OBVIOUS
<1>11. PICK e : e = [obj[p] EXCEPT !.nref = @ - 1]
    OBVIOUS
<1>12. ~(th[t].idx <= Len(Needs[p]))
    BY <1>4, <1>5
<1>13. th' = [th EXCEPT ![t] = g] /\ obj' = [obj EXCEPT ![p] = e]
    BY <1>1, <1>4, <1>7, <1>8, <1>10, <1>11, <1>12 DEF Need, Frames, Data
<1>14. g \in CallOf(U)
    BY <1>3, <1>9, <1>10 DEF CallOf, Labels
<1>15. g.pc = "scan" /\ g.root = th[t].root /\ g.pos = q /\ g.phase = th[t].phase
    BY <1>3, <1>10 DEF CallOf
<1>16. obj[p] \in Entry /\ obj[p].nref - 1 \in Nat
    <2>1. obj[p] \in Entry /\ obj[p].nref \in Nat
        BY <1>5, <1>7 DEF Data, Entry
    <2> QED
        BY <1>6, <2>1
<1>17. /\ e \in Entry /\ e.nref = obj[p].nref - 1 /\ e.ref = obj[p].ref /\ e.dlref = obj[p].dlref
       /\ e.closing = obj[p].closing /\ e.cxa = obj[p].cxa /\ e.nodel = obj[p].nodel
       /\ e.dagmembers = obj[p].dagmembers /\ e.need = obj[p].need /\ e.reloc = obj[p].reloc
    BY <1>11, <1>16 DEF Entry
<1>18. /\ objlist' = objlist /\ pending' = pending /\ clients' = clients /\ stale' = stale
    BY DEF Need
<1> QED
    BY <1>1, <1>2, <1>4, <1>9, <1>13, <1>14, <1>15, <1>17, <1>18, NeedEnds

\* The library that the current entry names.
LEMMA NameFacts ==
    ASSUME IInv, NEW U, Frames(U), NEW t \in Threads, th[t].pc = "byname"
    PROVE  /\ Name(t) \in Libs /\ th[t].pos \in Libs /\ th[t].idx \in Nat /\ th[t].root \in Libs
           /\ th[t].phase = "init" /\ Loads(th[t], th[t].pos)
           /\ Listed(th[t].pos) /\ obj[th[t].pos].nref >= 1
           /\ ~Listed(Name(t)) /\ obj[th[t].pos].ref > 0 => Name(t) \notin obj[th[t].pos].need
<1>1. /\ th[t].pos \in Libs /\ th[t].idx \in Nat /\ th[t].idx >= 1 /\ th[t].root \in Libs
      /\ th[t].phase = "init" /\ th[t].idx <= Len(Needs[th[t].pos])
    BY Mine DEF LocalsOK, CallOf
<1>2. Needs[th[t].pos] \in Seq(Libs)
    BY <1>1, ConstantFacts
<1>3. Name(t) \in Libs
    BY <1>1, <1>2 DEF Name
<1>4. Loads(th[t], th[t].pos)
    BY DEF Loads
<1>5. Listed(th[t].pos) /\ obj[th[t].pos].nref >= 1
    BY <1>1, <1>4, MyCounts
<1>6. ASSUME ~Listed(Name(t)), obj[th[t].pos].ref > 0, Name(t) \in obj[th[t].pos].need PROVE FALSE
    <2>1. Name(t) \in Live
        BY <1>1, <1>6, NeedLive DEF IInv
    <2> QED
        BY <1>3, <1>6, <2>1, MyCounts DEF Live
<1> QED
    BY <1>1, <1>3, <1>4, <1>5, <1>6

\* A needed library cannot be loaded.
LEMMA ByNameFailStep == ASSUME IInv, NEW t \in Threads, ByNameFail(t) PROVE IInv'
<1>1. PICK U : Frames(U)
    BY DEF IInv
<1>2. th[t].pc = "byname" /\ lock = t /\ lock' = t /\ ~Listed(Name(t))
    BY DEF ByNameFail, At
<1>3. th[t] \in CallOf(U)
    BY <1>1, Mine
<1>4. PICK p : p = th[t].pos
    OBVIOUS
<1>5. PICK n : n = Name(t)
    OBVIOUS
<1>6. p \in Libs /\ n \in Libs /\ obj[p].nref >= 1 /\ (obj[p].ref > 0 => n \notin obj[p].need)
    BY <1>1, <1>2, <1>4, <1>5, NameFacts
<1>7. Data
    BY DEF IInv
<1>8. PICK g : g = [th[t] EXCEPT !.pc = "fail", !.pos = None, !.idx = 0]
    OBVIOUS
<1>9. PICK e : e = [obj[p] EXCEPT !.nref = @ - 1, !.need = @ \ {n}]
    OBVIOUS
<1>10. th' = [th EXCEPT ![t] = g] /\ obj' = [obj EXCEPT ![p] = e]
    BY <1>1, <1>4, <1>5, <1>6, <1>7, <1>8, <1>9 DEF ByNameFail, Frames, Data
<1>11. g \in CallOf(U)
    BY <1>3, <1>8 DEF CallOf, Labels
<1>12. g.pc = "fail" /\ g.root = th[t].root /\ g.pos = None /\ g.phase = th[t].phase
    BY <1>3, <1>8 DEF CallOf
<1>13. obj[p] \in Entry /\ obj[p].nref - 1 \in Nat /\ obj[p].need \ {n} \in SUBSET Libs
    <2>1. obj[p] \in Entry /\ obj[p].nref \in Nat /\ obj[p].need \in SUBSET Libs
        BY <1>6, <1>7 DEF Data, Entry
    <2> QED
        BY <1>6, <2>1
<1>14. /\ e \in Entry /\ e.nref = obj[p].nref - 1 /\ e.ref = obj[p].ref /\ e.dlref = obj[p].dlref
       /\ e.closing = obj[p].closing /\ e.cxa = obj[p].cxa /\ e.nodel = obj[p].nodel
       /\ e.dagmembers = obj[p].dagmembers /\ e.need = obj[p].need \ {n} /\ e.reloc = obj[p].reloc
    BY <1>9, <1>13 DEF Entry
<1>15. obj[p].ref > 0 => e.need = obj[p].need
    BY <1>6, <1>14
<1>16. /\ objlist' = objlist /\ pending' = pending /\ clients' = clients /\ stale' = stale
    BY DEF ByNameFail
<1> QED
    BY <1>1, <1>2, <1>4, <1>10, <1>11, <1>12, <1>14, <1>15, <1>16, NeedEnds

\* Only initfinilock and the functions left to call change.
FnsOnly ==
    /\ obj' \in [Libs -> Entry]
    /\ \A l \in Libs :
          /\ obj'[l].ref = obj[l].ref /\ obj'[l].dlref = obj[l].dlref /\ obj'[l].nref = obj[l].nref
          /\ obj'[l].closing = obj[l].closing /\ obj'[l].cxa = obj[l].cxa /\ obj'[l].nodel = obj[l].nodel
          /\ obj'[l].need = obj[l].need /\ obj'[l].dagmembers = obj[l].dagmembers
          /\ obj'[l].reloc = obj[l].reloc

\* A thread calls a function, or returns from one.
LEMMA FnsQuiet ==
    ASSUME IInv, NEW U, Frames(U), NEW t \in Threads, NEW V, NEW g \in CallOf(V),
           th[t].pc \in {"call", "calling"}, g.pc \in {"call", "calling", "sort"},
           g.root = th[t].root, g.pos = th[t].pos, g.phase = th[t].phase,
           th' = [th EXCEPT ![t] = g], lock \in {t, None}, lock' \in {t, None},
           lock' = t <=> g.pc # "calling",
           objlist' = objlist, pending' = pending, clients' = clients, stale' = stale,
           << t, Depth(t) >> \in stale => g.pc \in {"calling", "sort"},
           FnsOnly
    PROVE  IInv'
<1>1. th[t] \in CallOf(U) /\ LocalsOK(th[t])
    BY Mine
<1>2. LocalsOK(g)
    BY <1>1 DEF LocalsOK
<1>3. \A l \in Libs : /\ Opens(g, l) <=> Opens(th[t], l)
                      /\ Loads(g, l) <=> Loads(th[t], l)
                      /\ Marks(g, l) <=> Marks(th[t], l)
                      /\ ~PinIn(th[t], l)
    BY DEF Opens, Loads, Marks, PinIn
<1>4. Data /\ Pending
    BY DEF IInv
<1>5. handles' = handles /\ dtors' = dtors /\ ops' = ops
    BY DEF clients
<1>6. Data'
    BY <1>4, <1>5, ConstantFacts DEF Data, FnsOnly
<1>7. QuietObjects
    BY DEF QuietObjects, FnsOnly
<1>8. Pending'
    <2>1. Unrelocated' = Unrelocated
        BY DEF Unrelocated, Listed, FnsOnly
    <2> QED
        BY <1>4, <2>1 DEF Pending
<1>9. Counted(th[t], g)
    <2>1. \A l \in Libs : /\ obj'[l].dlref = obj[l].dlref /\ obj'[l].nref = obj[l].nref
                          /\ obj'[l].closing = obj[l].closing /\ handles'[l] = handles[l]
        BY <1>5 DEF FnsOnly
    <2> QED
        BY <1>3, <1>4, <2>1, CountedSame
<1>10. \A l \in Libs : Marks(g, l) => obj[l].ref = 0
    BY <1>3, Mine
<1>11. /\ g.pc \notin {"idle", "scan", "dag", "ref", "unref"}
       /\ lock' = t => g.pc # "calling"
       /\ lock' = None => g.pc \in Parked
       /\ th[t].pc # "idle"
    BY ConstantFacts DEF Parked
<1> QED
    BY <1>2, <1>3, <1>6, <1>7, <1>8, <1>9, <1>10, <1>11, LocalQuiet

\* An object's entry with another initfinilock, or with a function less to call.
LEMMA FnsEdit ==
    ASSUME Data, NEW l, NEW k, NEW o \in Threads \cup {None},
           \/ obj' = [obj EXCEPT ![l].initfini = o]
           \/ /\ l \in Libs /\ k \in Kinds => obj[l].left[k] # 0
              /\ \/ obj' = [obj EXCEPT ![l].left[k] = @ - 1]
                 \/ obj' = [obj EXCEPT ![l].initfini = o, ![l].left[k] = @ - 1]
    PROVE  FnsOnly
<1>1. ASSUME NEW z \in Libs PROVE obj[z] \in Entry /\ obj[z].left \in [Kinds -> Nat]
    BY DEF Data, Entry
<1>2. CASE l \notin Libs
    <2>1. obj' = obj
        BY <1>2 DEF Data
    <2> QED
        BY <1>1, <2>1 DEF FnsOnly, Data
<1>3. CASE l \in Libs
    <2>1. PICK w : w = [obj[l].left EXCEPT ![k] = @ - 1]
        OBVIOUS
    <2>2. (k \in Kinds => obj[l].left[k] # 0) => w \in [Kinds -> Nat]
        <3>1. ASSUME NEW x \in Kinds, k \in Kinds => obj[l].left[k] # 0
              PROVE  (IF x = k THEN obj[l].left[k] - 1 ELSE obj[l].left[x]) \in Nat
            <4>1. obj[l].left[x] \in Nat
                BY <1>1, <1>3
            <4> QED
                BY <3>1, <4>1
        <3>2. w = [x \in Kinds |-> IF x = k THEN obj[l].left[k] - 1 ELSE obj[l].left[x]]
            BY <1>1, <1>3, <2>1
        <3> QED
            BY <3>1, <3>2
    <2>3. \/ obj' = [obj EXCEPT ![l] = [obj[l] EXCEPT !.initfini = o]]
          \/ /\ k \in Kinds => obj[l].left[k] # 0
             /\ \/ obj' = [obj EXCEPT ![l] = [obj[l] EXCEPT !.left = w]]
                \/ obj' = [obj EXCEPT ![l] = [obj[l] EXCEPT !.initfini = o, !.left = w]]
        BY <1>3, <2>1 DEF Data
    <2>4. PICK e : /\ obj' = [obj EXCEPT ![l] = e] /\ e \in Entry
                   /\ e.ref = obj[l].ref /\ e.dlref = obj[l].dlref /\ e.nref = obj[l].nref
                   /\ e.closing = obj[l].closing /\ e.cxa = obj[l].cxa /\ e.nodel = obj[l].nodel
                   /\ e.need = obj[l].need /\ e.dagmembers = obj[l].dagmembers
                   /\ e.reloc = obj[l].reloc
        <3>1. CASE obj' = [obj EXCEPT ![l] = [obj[l] EXCEPT !.initfini = o]]
            <4>1. PICK e : e = [obj[l] EXCEPT !.initfini = o]
                OBVIOUS
            <4>2. /\ e \in Entry /\ e.ref = obj[l].ref /\ e.dlref = obj[l].dlref
                  /\ e.nref = obj[l].nref /\ e.closing = obj[l].closing /\ e.cxa = obj[l].cxa
                  /\ e.nodel = obj[l].nodel /\ e.need = obj[l].need
                  /\ e.dagmembers = obj[l].dagmembers /\ e.reloc = obj[l].reloc
                BY <1>1, <1>3, <3>1, <4>1 DEF Entry
            <4> QED
                BY <3>1, <4>1, <4>2
        <3>2. CASE /\ k \in Kinds => obj[l].left[k] # 0
                   /\ obj' = [obj EXCEPT ![l] = [obj[l] EXCEPT !.left = w]]
            <4>1. PICK e : e = [obj[l] EXCEPT !.left = w]
                OBVIOUS
            <4>2. /\ e \in Entry /\ e.ref = obj[l].ref /\ e.dlref = obj[l].dlref
                  /\ e.nref = obj[l].nref /\ e.closing = obj[l].closing /\ e.cxa = obj[l].cxa
                  /\ e.nodel = obj[l].nodel /\ e.need = obj[l].need
                  /\ e.dagmembers = obj[l].dagmembers /\ e.reloc = obj[l].reloc
                BY <1>1, <1>3, <2>2, <3>2, <4>1 DEF Entry
            <4> QED
                BY <3>2, <4>1, <4>2
        <3>3. CASE /\ k \in Kinds => obj[l].left[k] # 0
                   /\ obj' = [obj EXCEPT ![l] = [obj[l] EXCEPT !.initfini = o, !.left = w]]
            <4>1. PICK e : e = [obj[l] EXCEPT !.initfini = o, !.left = w]
                OBVIOUS
            <4>2. w \in [Kinds -> Nat] /\ obj[l] \in Entry
                BY <1>1, <1>3, <2>2, <3>3
            <4>3. e \in Entry
                BY <4>1, <4>2 DEF Entry
            <4>4. /\ e.ref = obj[l].ref /\ e.dlref = obj[l].dlref
                  /\ e.nref = obj[l].nref /\ e.closing = obj[l].closing /\ e.cxa = obj[l].cxa
                  /\ e.nodel = obj[l].nodel /\ e.need = obj[l].need
                  /\ e.dagmembers = obj[l].dagmembers /\ e.reloc = obj[l].reloc
                BY <4>1, <4>2 DEF Entry
            <4> QED
                BY <3>3, <4>1, <4>3, <4>4
        <3> QED
            BY <2>3, <3>1, <3>2, <3>3
    <2>5. obj' \in [Libs -> Entry] /\ obj'[l] = e /\ \A z \in Libs : z # l => obj'[z] = obj[z]
        BY <1>3, <2>4, OneObject
    <2> QED
        BY <2>4, <2>5 DEF FnsOnly
<1> QED
    BY <1>2, <1>3

\* A function is called.
LEMMA CallFnStep == ASSUME IInv, NEW t \in Threads, Call(t) PROVE IInv'
<1>1. PICK U : Frames(U)
    BY DEF IInv
<1>2. th[t].pc = "call" /\ lock = t /\ lock' = None
    BY DEF Call, At, Wait
<1>3. Data /\ th[t] \in CallOf(U)
    BY <1>1, Mine DEF IInv
<1>4. PICK l : l = Callee(t)
    OBVIOUS
<1>5. PICK k : k = Kind(t)
    OBVIOUS
<1>6. l \in Libs /\ k \in Kinds => obj[l].left[k] # 0
    <2> SUFFICES ASSUME l \in Libs, k \in Kinds PROVE obj[l].left[k] # 0
        OBVIOUS
    <2>1. ~Skips(t) /\ ~Blocked(t)
        BY DEF Call
    <2>2. obj[l].ref \in Nat /\ obj[l].initfini = None /\ (k # "fini" => obj[l].ref # 0)
        BY <1>3, <1>4, <1>5, <2>1 DEF Data, Entry, Blocked
    <2>3. CASE k = "fini"
        BY <1>4, <1>5, <2>1, <2>2, <2>3 DEF Skips
    <2>4. CASE k # "fini"
        <3>1. k # "check" /\ obj[l].ref > 0
            BY <2>2, <2>4 DEF Kinds
        <3> QED
            BY <1>4, <1>5, <2>1, <2>2, <2>4, <3>1 DEF Skips
    <2> QED
        BY <2>3, <2>4
<1>7. obj' = [obj EXCEPT ![l].initfini = t, ![l].left[k] = @ - 1]
    BY <1>4, <1>5 DEF Call
<1>8. FnsOnly
    BY <1>3, <1>6, <1>7, FnsEdit
<1>9. PICK g : g = [th[t] EXCEPT !.pc = "calling"]
    OBVIOUS
<1>10. th' = [th EXCEPT ![t] = g]
    BY <1>1, <1>9 DEF Call, Wait, Goto, Frames
<1>11. g \in CallOf(U)
    BY <1>3, <1>9 DEF CallOf, Labels
<1>12. g.pc = "calling" /\ g.root = th[t].root /\ g.pos = th[t].pos /\ g.phase = th[t].phase
    BY <1>3, <1>9 DEF CallOf
<1>13. objlist' = objlist /\ pending' = pending /\ clients' = clients /\ stale' = stale
    BY DEF Call
<1> QED
    BY <1>1, <1>2, <1>8, <1>10, <1>11, <1>12, <1>13, ConstantFacts, FnsQuiet

\* A function returns.
LEMMA ReturnStep == ASSUME IInv, NEW t \in Threads, Return(t) PROVE IInv'
<1>1. PICK U : Frames(U)
    BY DEF IInv
<1>2. th[t].pc = "calling" /\ lock = None
    BY DEF Return
<1>3. Data /\ th[t] \in CallOf(U)
    BY <1>1, Mine DEF IInv
<1>4. PICK l : l = Callee(t)
    OBVIOUS
<1>5. PICK k : k = Kind(t)
    OBVIOUS
<1>6. objlist' = objlist /\ pending' = pending /\ clients' = clients /\ stale' = stale
    BY DEF Return
<1>7. CASE ~Stale(t) /\ obj[l].left[k] > 0
    <2>1. obj' = [obj EXCEPT ![l].left[k] = @ - 1] /\ lock' = lock /\ th' = th
        BY <1>4, <1>5, <1>7 DEF Return
    <2>2. obj[l].left[k] # 0
        BY <1>7
    <2>3. FnsOnly
        BY <1>3, <2>1, <2>2, FnsEdit
    <2>4. PICK g : g = th[t]
        OBVIOUS
    <2>5. th' = [th EXCEPT ![t] = g] /\ g \in CallOf(U)
        BY <1>1, <1>3, <2>1, <2>4 DEF Frames
    <2>6. g.pc = "calling" /\ g.root = th[t].root /\ g.pos = th[t].pos /\ g.phase = th[t].phase
        BY <1>2, <2>4
    <2> QED
        BY <1>1, <1>2, <1>6, <2>1, <2>3, <2>5, <2>6, ConstantFacts, FnsQuiet
<1>8. CASE ~(~Stale(t) /\ obj[l].left[k] > 0)
    <2>1. PICK X : X = IF Stale(t) THEN << >> ELSE Tail(th[t].todo)
        OBVIOUS
    <2>2. PICK g : g = [th[t] EXCEPT !.pc = IF Stale(t) THEN "sort" ELSE "call", !.todo = X]
        OBVIOUS
    <2>3. lock' = t /\ obj' = [obj EXCEPT ![l].initfini = None]
        BY <1>4, <1>5, <1>8 DEF Return
    <2>4. th' = IF Stale(t) THEN [th EXCEPT ![t].pc = "sort", ![t].todo = << >>]
                ELSE [th EXCEPT ![t].pc = "call", ![t].todo = Tail(@)]
        BY <1>4, <1>5, <1>8 DEF Return
    <2>5. th' = [th EXCEPT ![t] = g]
        BY <1>1, <2>1, <2>2, <2>4 DEF Frames
    <2>6. FnsOnly
        BY <1>3, <2>3, FnsEdit
    <2>7. g \in CallOf({X})
        BY <1>3, <2>2 DEF CallOf, Labels
    <2>8. /\ g.pc \in {"call", "sort"} /\ (Stale(t) => g.pc = "sort")
          /\ g.root = th[t].root /\ g.pos = th[t].pos /\ g.phase = th[t].phase
        BY <1>3, <2>2 DEF CallOf
    <2>9. << t, Depth(t) >> \in stale => g.pc \in {"calling", "sort"}
        BY <2>8 DEF Stale
    <2> QED
        BY <1>1, <1>2, <1>6, <2>3, <2>5, <2>6, <2>7, <2>8, <2>9, ConstantFacts, FnsQuiet
<1> QED
    BY <1>7, <1>8

\* Part of a finite set is taken away.
LEMMA TakeAway ==
    ASSUME NEW S \in SUBSET Libs, NEW T \in SUBSET S
    PROVE  /\ Cardinality(S) \in Nat /\ Cardinality(T) \in Nat /\ Cardinality(S \ T) \in Nat
           /\ Cardinality(S \ T) = Cardinality(S) - Cardinality(T)
<1>1. IsFiniteSet(S) /\ IsFiniteSet(T) /\ IsFiniteSet(S \ T)
    BY LibSets
<1>2. S \cap T = T
    OBVIOUS
<1> QED
    BY <1>1, <1>2, FS_Difference, FS_CardinalityType

\* _rtld_relocate_objects.
LEMMA RelocateStep == ASSUME IInv, NEW t \in Threads, Relocate(t) PROVE IInv'
<1>1. PICK U : Frames(U)
    BY DEF IInv
<1>2. th[t].pc = "dag" /\ lock = t /\ lock' = t
    BY DEF Relocate, At
<1>3. th[t] \in CallOf(U) /\ LocalsOK(th[t]) /\ << t, Depth(t) >> \notin stale
    BY <1>1, <1>2, Mine
<1>4. /\ th[t].root \in Libs /\ th[t].phase = "init" /\ th[t].pos = None
      /\ \A l \in Libs : ~PinIn(th[t], l)
    BY <1>2, <1>3 DEF LocalsOK, CallOf, PinIn
<1>5. objlist' = objlist /\ clients' = clients /\ stale' = stale
    BY DEF Relocate
<1>6. CASE obj[th[t].root].dagmembers \cap BadVersion # {}
    <2>1. Goto(t, "fail") /\ obj' = obj /\ pending' = pending
        BY <1>6 DEF Relocate
    <2>2. PICK g : g = [th[t] EXCEPT !.pc = "fail"]
        OBVIOUS
    <2>3. g.pc = "fail" /\ g.root = th[t].root /\ g.pos = th[t].pos /\ g.phase = th[t].phase
        BY <1>3, <2>2, Relabelled
    <2>4. /\ LocalsOK(g)
          /\ \A l \in Libs : /\ Opens(g, l) <=> Opens(th[t], l)
                             /\ Loads(g, l) <=> Loads(th[t], l)
                             /\ Marks(g, l) <=> Marks(th[t], l)
                             /\ ~PinIn(th[t], l)
        BY <1>2, <1>4, <2>3 DEF LocalsOK, Opens, Loads, Marks
    <2>5. "fail" \in Labels
        BY DEF Labels
    <2> QED
        BY <1>1, <1>2, <1>3, <1>5, <2>1, <2>2, <2>4, <2>5, ConstantFacts, GotoStill
<1>7. CASE obj[th[t].root].dagmembers \cap BadVersion = {}
    <2> DEFINE ready == {i \in DOMAIN objlist : obj[objlist[i]].reloc = "ready"}
               bad == {i \in ready : objlist[i] \in BadReloc}
               now == {objlist[i] : i \in {j \in ready : \A b \in bad : j <= b}}
    <2>1. PICK tried : tried = now
        OBVIOUS
    <2>2. PICK g : g = [th[t] EXCEPT !.pc = IF bad # {} THEN "fail" ELSE "sort", !.phase = "init"]
        OBVIOUS
    <2>3. /\ obj' = [l \in Libs |-> IF l \notin tried THEN obj[l]
                     ELSE [obj[l] EXCEPT !.reloc = IF l \in BadReloc THEN "failed" ELSE "done"]]
          /\ pending' = pending - Cardinality(tried)
        BY <1>7, <2>1 DEF Relocate
    <2>4. th' = [th EXCEPT ![t] = g]
        BY <1>1, <1>7, <2>2 DEF Relocate, Frames
    <2>5. Data /\ Pending
        BY DEF IInv
    <2>6. \A l \in tried : l \in Unrelocated
        <3>1. ASSUME NEW l \in tried PROVE l \in Libs /\ Listed(l) /\ obj[l].reloc = "ready"
            BY <2>1, <2>5 DEF Data, Listed
        <3> QED
            BY <3>1 DEF Unrelocated
    <2>7. g \in CallOf(U)
        BY <1>3, <2>2 DEF CallOf, Labels
    <2>8. g.pc \in {"fail", "sort"} /\ g.root = th[t].root /\ g.pos = None /\ g.phase = "init"
        BY <1>3, <1>4, <2>2 DEF CallOf
    <2> HIDE DEF ready, bad, now
    <2>9. ASSUME NEW l \in Libs
          PROVE  /\ obj'[l] \in Entry
                 /\ obj'[l].ref = obj[l].ref /\ obj'[l].dlref = obj[l].dlref
                 /\ obj'[l].nref = obj[l].nref /\ obj'[l].closing = obj[l].closing
                 /\ obj'[l].cxa = obj[l].cxa /\ obj'[l].nodel = obj[l].nodel
                 /\ obj'[l].need = obj[l].need /\ obj'[l].dagmembers = obj[l].dagmembers
                 /\ obj'[l].reloc = IF l \in tried THEN IF l \in BadReloc THEN "failed" ELSE "done"
                                    ELSE obj[l].reloc
        <3>1. obj[l] \in Entry
            BY <2>5 DEF Data
        <3> QED
            BY <2>3, <3>1 DEF Entry, RelocStates
    <2>10. /\ Cardinality(Unrelocated) \in Nat /\ Cardinality(tried) \in Nat
           /\ Cardinality(Unrelocated \ tried) \in Nat
           /\ Cardinality(Unrelocated \ tried) = Cardinality(Unrelocated) - Cardinality(tried)
        <3>1. Unrelocated \in SUBSET Libs /\ tried \in SUBSET Unrelocated
            BY <2>6 DEF Unrelocated
        <3> HIDE DEF Unrelocated
        <3> QED
            BY <3>1, TakeAway
    <2>11. Unrelocated' = Unrelocated \ tried
        <3>1. \A l \in Libs : l \in Unrelocated' <=> (Listed(l) /\ obj'[l].reloc \in {"notyet", "ready"})
            BY <1>5 DEF Unrelocated, Listed
        <3>2. \A l \in Libs : l \in Unrelocated <=> (Listed(l) /\ obj[l].reloc \in {"notyet", "ready"})
            BY DEF Unrelocated
        <3>3. Unrelocated' \subseteq Libs /\ Unrelocated \subseteq Libs
            BY DEF Unrelocated
        <3> QED
            BY <2>9, <3>1, <3>2, <3>3
    <2>12. pending' \in Nat /\ Pending'
        <3>1. pending \in Nat /\ pending >= Cardinality(Unrelocated)
            BY <2>5 DEF Data, Pending
        <3>2. pending' \in Nat /\ pending' >= Cardinality(Unrelocated \ tried)
            BY <2>3, <2>10, <3>1
        <3> QED
            BY <2>11, <3>2 DEF Pending
    <2>13. handles' = handles /\ dtors' = dtors /\ ops' = ops
        BY <1>5 DEF clients
    <2>14. Data'
        <3>1. obj' \in [Libs -> Entry]
            BY <2>3, <2>9
        <3> QED
            BY <1>2, <1>5, <2>5, <2>12, <2>13, <3>1 DEF Data
    <2>15. QuietObjects
        BY <1>5, <2>9 DEF QuietObjects
    <2>16. LocalsOK(g)
        BY <1>4, <2>8 DEF LocalsOK
    <2>17. \A l \in Libs : /\ Opens(g, l) <=> Opens(th[t], l)
                           /\ Loads(g, l) <=> Loads(th[t], l)
                           /\ Marks(g, l) <=> Marks(th[t], l)
                           /\ ~Marks(g, l)
        BY <1>2, <1>4, <2>8 DEF Opens, Loads, Marks
    <2>18. Counted(th[t], g)
        <3>1. \A l \in Libs : /\ obj'[l].dlref = obj[l].dlref /\ obj'[l].nref = obj[l].nref
                              /\ obj'[l].closing = obj[l].closing /\ handles'[l] = handles[l]
            BY <2>9, <2>13
        <3> QED
            BY <2>5, <2>17, <3>1, CountedSame
    <2> QED
        BY <1>1, <1>2, <1>3, <1>4, <1>5, <2>4, <2>7, <2>8, <2>12, <2>14, <2>15, <2>16, <2>17, <2>18,
           ConstantFacts, LocalQuiet
<1> QED
    BY <1>6, <1>7

\* dlclosing++ on a dead root and on its DAG.
LEMMA ClosingStep == ASSUME IInv, NEW t \in Threads, Closing(t) PROVE IInv'
<1>1. PICK U : Frames(U)
    BY DEF IInv
<1>2. PICK root : root = th[t].root
    OBVIOUS
<1>3. th[t].pc = "unref" /\ lock = t /\ lock' \in {t, None} /\ obj[root].ref = 0
    BY <1>2 DEF Closing, At
<1>4. th[t] \in CallOf(U) /\ LocalsOK(th[t]) /\ << t, Depth(t) >> \notin stale
    BY <1>1, <1>3, Mine
<1>5. /\ root \in Libs /\ th[t].phase # "init" /\ th[t].pos = None
      /\ \A l \in Libs : ~PinIn(th[t], l)
    BY <1>2, <1>3, <1>4 DEF LocalsOK, CallOf, PinIn
<1>6. objlist' = objlist /\ pending' = pending /\ clients' = clients /\ stale' = stale
    BY DEF Closing
<1>7. PICK g : g = [th[t] EXCEPT !.pc = IF th[t].phase = "fini" THEN "sort" ELSE "undag"]
    OBVIOUS
<1>8. th' = [th EXCEPT ![t] = g]
    BY <1>1, <1>7 DEF Closing, Goto, Frames
<1>9. g \in CallOf(U)
    BY <1>4, <1>7 DEF CallOf, Labels
<1>10. g.pc \in {"sort", "undag"} /\ g.root = root /\ g.pos = None /\ g.phase = th[t].phase
    BY <1>2, <1>4, <1>5, <1>7 DEF CallOf
<1>11. Data /\ Pending
    BY DEF IInv
<1>12. Listed(root) /\ \A m \in obj[root].dagmembers : Listed(m)
    BY <1>2, <1>3 DEF IInv, Working
<1>13. \A l \in Libs : /\ Opens(g, l) <=> Opens(th[t], l)
                       /\ Loads(g, l) <=> Loads(th[t], l)
                       /\ ~Marks(th[t], l)
                       /\ Marks(g, l) <=> l = root
    BY <1>3, <1>5, <1>10 DEF Opens, Loads, Marks
<1>14. \A l \in Libs : /\ ~MarksDag(th[t], l)
                       /\ MarksDag(g, l) <=> l \in obj[root].dagmembers
    BY <1>5, <1>13 DEF MarksDag
<1>15. ASSUME NEW l \in Libs
       PROVE  /\ obj'[l] \in Entry
              /\ obj'[l].ref = obj[l].ref /\ obj'[l].dlref = obj[l].dlref
              /\ obj'[l].nref = obj[l].nref /\ obj'[l].cxa = obj[l].cxa
              /\ obj'[l].nodel = obj[l].nodel /\ obj'[l].need = obj[l].need
              /\ obj'[l].dagmembers = obj[l].dagmembers /\ obj'[l].reloc = obj[l].reloc
              /\ obj[l].closing \in Nat
              /\ obj'[l].closing = obj[l].closing + One(Marks(g, l)) + One(MarksDag(g, l))
    <2>1. PICK n : n = obj[l].closing + (IF l = root THEN 1 ELSE 0)
                          + (IF l \in obj[root].dagmembers THEN 1 ELSE 0)
        OBVIOUS
    <2>2. obj[l] \in Entry /\ obj[l].closing \in Nat
        BY <1>11 DEF Data, Entry
    <2>3. n \in Nat /\ n = obj[l].closing + One(Marks(g, l)) + One(MarksDag(g, l))
        BY <1>13, <1>14, <2>1, <2>2 DEF One
    <2>4. obj'[l] = [obj[l] EXCEPT !.closing = n]
        BY <1>2, <2>1 DEF Closing, Mark
    <2>5. obj'[l] \in Entry
        BY <2>2, <2>3, <2>4 DEF Entry
    <2> QED
        BY <2>2, <2>3, <2>4, <2>5 DEF Entry
<1>16. obj' = [l \in Libs |-> obj'[l]]
    BY DEF Closing, Mark
<1>17. handles' = handles /\ dtors' = dtors /\ ops' = ops
    BY <1>6 DEF clients
<1>18. Data'
    <2>1. obj' \in [Libs -> Entry]
        BY <1>15, <1>16
    <2> QED
        BY <1>3, <1>6, <1>11, <1>17, <2>1 DEF Data
<1>19. QuietObjects
    <2>1. ASSUME NEW l \in Libs, ~Listed(l) PROVE obj'[l].closing = obj[l].closing
        <3>1. ~Marks(g, l) /\ ~MarksDag(g, l)
            BY <1>12, <1>13, <1>14, <2>1
        <3>2. obj'[l].closing = obj[l].closing + 0 + 0
            BY <1>15, <3>1 DEF One
        <3> QED
            BY <1>15, <3>2
    <2> QED
        BY <1>6, <1>15, <2>1 DEF QuietObjects
<1>20. Pending'
    <2>1. Unrelocated' = Unrelocated
        BY <1>6, <1>15 DEF Unrelocated, Listed
    <2> QED
        BY <1>6, <1>11, <2>1 DEF Pending
<1>21. LocalsOK(g)
    BY <1>5, <1>10 DEF LocalsOK
<1>22. Counted(th[t], g)
    <2>1. ASSUME NEW l \in Libs
          PROVE  obj'[l].closing + One(Marks(th[t], l)) + One(MarksDag(th[t], l))
                    = obj[l].closing + One(Marks(g, l)) + One(MarksDag(g, l))
        <3>1. One(Marks(th[t], l)) = 0 /\ One(MarksDag(th[t], l)) = 0
            BY <1>13, <1>14 DEF One
        <3>2. obj'[l].closing \in Nat
            BY <1>18 DEF Data, Entry
        <3> QED
            BY <1>15, <3>1, <3>2
    <2> QED
        BY <1>13, <1>15, <1>17, <2>1, CountedMarks
<1>23. lock' = None => g.pc \in Parked
    BY <1>10 DEF Parked
<1>24. \A l \in Libs : Marks(g, l) => obj[l].ref = 0
    BY <1>3, <1>13
<1> QED
    BY <1>1, <1>3, <1>4, <1>5, <1>6, <1>8, <1>9, <1>10, <1>18, <1>19, <1>20, <1>21, <1>22, <1>23, <1>24,
       ConstantFacts, LocalQuiet

\* The root's DAG is taken off its members, and dlclosing--.
LEMMA UndagStep == ASSUME IInv, NEW t \in Threads, Undag(t) PROVE IInv'
<1>1. PICK U : Frames(U)
    BY DEF IInv
<1>2. PICK root : root = th[t].root
    OBVIOUS
<1>3. th[t].pc = "undag" /\ lock = t /\ lock' = t
    BY DEF Undag, At
<1>4. th[t] \in CallOf(U) /\ LocalsOK(th[t]) /\ << t, Depth(t) >> \notin stale
    BY <1>1, <1>3, Mine
<1>5. /\ root \in Libs /\ th[t].phase # "init" /\ th[t].pos = None
      /\ \A l \in Libs : ~PinIn(th[t], l)
    BY <1>2, <1>3, <1>4 DEF LocalsOK, CallOf, PinIn
<1>6. objlist' = objlist /\ pending' = pending /\ clients' = clients /\ stale' = stale
    BY DEF Undag
<1>7. PICK g : g = [th[t] EXCEPT !.pc = "gc", !.root = None]
    OBVIOUS
<1>8. th' = [th EXCEPT ![t] = g]
    BY <1>1, <1>7 DEF Undag, Frames
<1>9. g \in CallOf(U)
    BY <1>4, <1>7 DEF CallOf, Labels
<1>10. g.pc = "gc" /\ g.root = None /\ g.pos = None /\ g.phase = th[t].phase
    BY <1>4, <1>5, <1>7 DEF CallOf
<1>11. Data /\ Pending /\ Unlisted
    BY DEF IInv
<1>12. \A l \in Libs : /\ ~Opens(g, l) /\ ~Opens(th[t], l)
                       /\ ~Loads(g, l) /\ ~Loads(th[t], l)
                       /\ ~Marks(g, l)
                       /\ Marks(th[t], l) <=> l = root
    BY <1>2, <1>3, <1>5, <1>10 DEF Opens, Loads, Marks
<1>13. \A l \in Libs : /\ ~MarksDag(g, l)
                       /\ MarksDag(th[t], l) <=> l \in obj[root].dagmembers
    BY <1>5, <1>12 DEF MarksDag
<1>14. ASSUME NEW l \in Libs
       PROVE  /\ obj'[l] \in Entry
              /\ obj'[l].ref = obj[l].ref /\ obj'[l].dlref = obj[l].dlref
              /\ obj'[l].nref = obj[l].nref /\ obj'[l].cxa = obj[l].cxa
              /\ obj'[l].nodel = obj[l].nodel /\ obj'[l].need = obj[l].need
              /\ obj'[l].dagmembers = obj[l].dagmembers /\ obj'[l].reloc = obj[l].reloc
              /\ obj'[l].closing + One(Marks(th[t], l)) + One(MarksDag(th[t], l)) = obj[l].closing
              /\ ~Listed(l) => obj'[l].closing = obj[l].closing
    <2>1. PICK n : n = obj[l].closing + (IF l = root THEN -1 ELSE 0)
                          + (IF l \in obj[root].dagmembers THEN -1 ELSE 0)
        OBVIOUS
    <2>2. PICK d : d = IF l \in obj[root].dagmembers THEN obj[l].dldags \ {root} ELSE obj[l].dldags
        OBVIOUS
    <2>3. obj[l] \in Entry /\ obj[l].closing \in Nat /\ obj[l].dldags \in SUBSET Libs
        BY <1>11 DEF Data, Entry
    <2>4. obj[l].closing >= One(Marks(th[t], l)) + One(MarksDag(th[t], l))
        BY <1>1, MyCounts
    <2>5. n \in Nat /\ n + One(Marks(th[t], l)) + One(MarksDag(th[t], l)) = obj[l].closing
        BY <1>12, <1>13, <2>1, <2>3, <2>4 DEF One
    <2>6. ~Listed(l) => n = obj[l].closing
        BY <1>11, <1>12, <1>13, <2>1, <2>3, <2>4 DEF One, Unlisted
    <2>7. d \in SUBSET Libs
        BY <2>2, <2>3
    <2>8. obj'[l] = [obj[l] EXCEPT !.closing = n, !.dldags = d]
        <3>1. obj'[l] = [Mark(root, -1)[l] EXCEPT !.dldags =
                            IF l \in obj[root].dagmembers THEN @ \ {root} ELSE @]
            BY <1>2 DEF Undag
        <3>2. Mark(root, -1)[l] = [obj[l] EXCEPT !.closing = n]
            BY <2>1 DEF Mark
        <3>3. [obj[l] EXCEPT !.closing = n].dldags = obj[l].dldags
            BY <2>3 DEF Entry
        <3>4. obj'[l] = [[obj[l] EXCEPT !.closing = n] EXCEPT !.dldags = d]
            BY <2>2, <3>1, <3>2, <3>3
        <3> QED
            BY <2>3, <3>4 DEF Entry
    <2>9. obj'[l] \in Entry
        BY <2>3, <2>5, <2>7, <2>8 DEF Entry
    <2>10. /\ obj'[l].ref = obj[l].ref /\ obj'[l].dlref = obj[l].dlref
           /\ obj'[l].nref = obj[l].nref /\ obj'[l].cxa = obj[l].cxa
           /\ obj'[l].nodel = obj[l].nodel /\ obj'[l].need = obj[l].need
           /\ obj'[l].dagmembers = obj[l].dagmembers /\ obj'[l].reloc = obj[l].reloc
           /\ obj'[l].closing = n
        BY <2>3, <2>8 DEF Entry
    <2> QED
        BY <2>5, <2>6, <2>9, <2>10
<1>15. obj' = [l \in Libs |-> obj'[l]]
    BY DEF Undag
<1>16. handles' = handles /\ dtors' = dtors /\ ops' = ops
    BY <1>6 DEF clients
<1>17. Data'
    <2>1. obj' \in [Libs -> Entry]
        BY <1>14, <1>15
    <2> QED
        BY <1>3, <1>6, <1>11, <1>16, <2>1 DEF Data
<1>18. QuietObjects
    BY <1>6, <1>14 DEF QuietObjects
<1>19. Pending'
    <2>1. Unrelocated' = Unrelocated
        BY <1>6, <1>14 DEF Unrelocated, Listed
    <2> QED
        BY <1>6, <1>11, <2>1 DEF Pending
<1>20. LocalsOK(g)
    BY <1>5, <1>10 DEF LocalsOK
<1>21. Counted(th[t], g)
    <2>1. ASSUME NEW l \in Libs
          PROVE  obj'[l].closing + One(Marks(th[t], l)) + One(MarksDag(th[t], l))
                    = obj[l].closing + One(Marks(g, l)) + One(MarksDag(g, l))
        <3>1. One(Marks(g, l)) = 0 /\ One(MarksDag(g, l)) = 0
            BY <1>12, <1>13 DEF One
        <3>2. obj[l].closing \in Nat
            BY <1>11 DEF Data, Entry
        <3> QED
            BY <1>14, <3>1, <3>2
    <2> QED
        BY <1>12, <1>14, <1>16, <2>1, CountedMarks
<1> QED
    BY <1>1, <1>3, <1>4, <1>5, <1>6, <1>8, <1>9, <1>10, <1>12, <1>17, <1>18, <1>19, <1>20, <1>21,
       ConstantFacts, LocalQuiet

-----------------------------------------------------------------------------
(* Calls begin and return *)

\* _rtld_objgen++: the calls that are running a function see it.
LEMMA GenerationFacts ==
    ASSUME IInv, NEW U, Frames(U), NEW t \in Threads, lock = t, th[t].pc # "call", NewGeneration
    PROVE  \A c \in stale' : c \in Threads \X Nat /\ c # << t, Depth(t) >> /\ Rec(c).pc = "calling"
<1> SUFFICES ASSUME NEW c \in stale'
             PROVE  c \in Threads \X Nat /\ c # << t, Depth(t) >> /\ Rec(c).pc = "calling"
    OBVIOUS
<1>1. c \in Calls /\ CallAt(c[1], c[2]).pc \in {"call", "calling"}
    BY DEF NewGeneration
<1>2. c \in Threads \X Nat
    BY <1>1, CallsFacts
<1>3. PICK u \in Threads, n \in Nat : c = << u, n >>
    BY <1>2
<1>4. n <= Depth(u) /\ Depth(u) \in Nat
    BY <1>1, <1>3, CallsFacts
<1>5. Stacks
    BY DEF IInv
<1>6. CASE n = Depth(u)
    <2>1. th[u].pc \in {"call", "calling"}
        BY <1>1, <1>3, <1>6 DEF CallAt
    <2>2. u # t
        BY <1>5, <2>1 DEF Stacks
    <2>3. th[u].pc = "calling"
        BY <1>5, <2>1, <2>2 DEF Stacks, Parked
    <2> QED
        BY <1>1, <1>2, <1>3, <1>6, <2>2, <2>3 DEF Rec, CallAt
<1>7. CASE n # Depth(u)
    <2>1. CallAt(u, n) = outer[u][Depth(u) - n] /\ Depth(u) - n \in 1 .. Len(outer[u])
        BY <1>4, <1>7 DEF CallAt, Depth
    <2>2. CallAt(u, n).pc \in {"idle", "calling"}
        BY <1>5, <2>1 DEF Stacks
    <2>3. Rec(c).pc = "calling"
        BY <1>1, <1>3, <2>2 DEF Rec
    <2>4. c # << t, Depth(t) >>
        BY <1>3, <1>7
    <2> QED
        BY <1>2, <2>3, <2>4
<1> QED
    BY <1>6, <1>7

\* A call returns, and objects stay as they are.
LEMMA FinishQuiet ==
    ASSUME IInv, NEW U, Frames(U), NEW t \in Threads, lock = t, Finish(t),
           objlist' = objlist, obj' = obj, pending' = pending, dtors' = dtors, ops' = ops,
           handles' \in [Libs -> Nat],
           \A c \in stale' : c \in Threads \X Nat /\ c # << t, Depth(t) >> /\ Rec(c).pc \in {"calling", "sort"},
           Counted(th[t], Idle), \A l \in Libs : ~PinIn(th[t], l)
    PROVE  IInv'
<1>1. Data /\ Stacks /\ Pending
    BY DEF IInv
<1>2. PICK W : Frames(W)'
    BY <1>1, FinishStep
<1>3. PICK me \in Threads \X Nat : me = << t, Depth(t) >> /\ Moves(me, th[t], Idle)
    BY <1>1, FinishStep
<1>4. Stacks'
    BY <1>1, FinishStep
<1>5. lock' = None
    BY DEF Finish
<1>6. Data'
    BY <1>1, <1>5 DEF Data
<1>7. LocalsOK(Idle) /\ \A l \in Libs : ~Marks(Idle, l)
    BY IdleFacts
<1>8. StaleKept(me, Idle)
    BY <1>3 DEF StaleKept
<1>9. RootsKept(Idle)
    BY <1>7 DEF RootsKept
<1>10. QuietObjects
    BY DEF QuietObjects
<1>11. \A l \in Libs : Due(l)' = 0 /\ ~Pinning(l)
    BY <1>2, <1>5, DueFacts, DueFactsPrime
<1>12. Working'
    BY <1>5, ConstantFacts DEF Working
<1>13. Pending'
    BY <1>1 DEF Pending, Unrelocated, Listed
<1> QED
    BY <1>2, <1>3, <1>4, <1>6, <1>7, <1>8, <1>9, <1>10, <1>11, <1>12, <1>13, QuietStep

\* A call that is counted nowhere returns.
LEMMA FinishUncounted ==
    ASSUME IInv, NEW U, Frames(U), NEW t \in Threads, lock = t, Finish(t),
           th[t].pc \in {"load", "unref", "gc"},
           objlist' = objlist, obj' = obj, pending' = pending, handles' = handles, dtors' = dtors, ops' = ops,
           \A c \in stale' : c \in Threads \X Nat /\ c # << t, Depth(t) >> /\ Rec(c).pc \in {"calling", "sort"}
    PROVE  IInv'
<1>1. LocalsOK(th[t])
    BY Mine
<1>2. Data
    BY DEF IInv
<1>3. \A l \in Libs : ~Opens(th[t], l) /\ ~Loads(th[t], l) /\ ~Marks(th[t], l) /\ ~PinIn(th[t], l)
    BY <1>1 DEF LocalsOK, Opens, Loads, Marks, PinIn
<1>4. \A l \in Libs : /\ Opens(Idle, l) <=> Opens(th[t], l)
                      /\ Loads(Idle, l) <=> Loads(th[t], l)
                      /\ Marks(Idle, l) <=> Marks(th[t], l)
    BY <1>3, IdleFacts
<1>5. Counted(th[t], Idle)
    BY <1>2, <1>4, CountedSame
<1>6. handles' \in [Libs -> Nat]
    BY <1>2 DEF Data
<1> QED
    BY <1>3, <1>5, <1>6, FinishQuiet

\* The stale calls of others.
LEMMA StaleOthers ==
    ASSUME IInv, NEW U, Frames(U), NEW t \in Threads, th[t].pc \notin {"calling", "sort"}
    PROVE  \A c \in stale : c \in Threads \X Nat /\ c # << t, Depth(t) >> /\ Rec(c).pc \in {"calling", "sort"}
BY Mine, ByRec DEF IInv

\* dlopen cannot load the library.
LEMMA LoadFailStep == ASSUME IInv, NEW t \in Threads, LoadFail(t) PROVE IInv'
<1>1. PICK U : Frames(U)
    BY DEF IInv
<1>2. /\ th[t].pc = "load" /\ lock = t /\ Finish(t) /\ stale' = stale
      /\ objlist' = objlist /\ obj' = obj /\ pending' = pending /\ handles' = handles
      /\ dtors' = dtors /\ ops' = ops
    BY DEF LoadFail, At
<1> QED
    BY <1>1, <1>2, StaleOthers, FinishUncounted

\* The object is still referenced.
LEMMA StillReferencedStep == ASSUME IInv, NEW t \in Threads, StillReferenced(t) PROVE IInv'
<1>1. PICK U : Frames(U)
    BY DEF IInv
<1>2. /\ th[t].pc = "unref" /\ lock = t /\ Finish(t) /\ stale' = stale
      /\ objlist' = objlist /\ obj' = obj /\ pending' = pending /\ handles' = handles
      /\ dtors' = dtors /\ ops' = ops
    BY DEF StillReferenced, At
<1> QED
    BY <1>1, <1>2, StaleOthers, FinishUncounted

\* _rtld_unload_object returns.
LEMMA UnloadedStep == ASSUME IInv, NEW t \in Threads, Unloaded(t) PROVE IInv'
<1>1. PICK U : Frames(U)
    BY DEF IInv
<1>2. /\ th[t].pc = "gc" /\ lock = t /\ Finish(t) /\ NewGeneration
      /\ objlist' = objlist /\ obj' = obj /\ pending' = pending /\ handles' = handles
      /\ dtors' = dtors /\ ops' = ops
    BY DEF Unloaded, At
<1>3. \A c \in stale' : c \in Threads \X Nat /\ c # << t, Depth(t) >> /\ Rec(c).pc \in {"calling", "sort"}
    BY <1>1, <1>2, GenerationFacts
<1> QED
    BY <1>1, <1>2, <1>3, FinishUncounted

\* dlopen returns a handle.
LEMMA OpenedStep == ASSUME IInv, NEW t \in Threads, Opened(t) PROVE IInv'
<1>1. PICK U : Frames(U)
    BY DEF IInv
<1>2. PICK root : root = th[t].root
    OBVIOUS
<1>3. /\ th[t].pc = "opened" /\ lock = t /\ Finish(t) /\ stale' = stale
      /\ objlist' = objlist /\ obj' = obj /\ pending' = pending
      /\ dtors' = dtors /\ ops' = ops /\ handles' = [handles EXCEPT ![root] = @ + 1]
    BY <1>2 DEF Opened, At
<1>4. LocalsOK(th[t])
    BY <1>1, Mine
<1>5. Data
    BY DEF IInv
<1>6. root \in Libs
    BY <1>2, <1>3, <1>4 DEF LocalsOK
<1>7. \A l \in Libs : /\ Opens(th[t], l) <=> l = root
                      /\ ~Loads(th[t], l) /\ ~Marks(th[t], l) /\ ~PinIn(th[t], l)
    BY <1>2, <1>3, <1>4 DEF LocalsOK, Opens, Loads, Marks, PinIn
<1>8. handles' \in [Libs -> Nat]
    BY <1>3, <1>5, <1>6 DEF Data
<1>9. Counted(th[t], Idle)
    <2>1. ASSUME NEW l \in Libs
          PROVE  obj'[l].dlref + handles[l] + One(Opens(th[t], l)) = obj[l].dlref + handles'[l] + One(Opens(Idle, l))
        <3>1. One(Opens(Idle, l)) = 0 /\ One(Opens(th[t], l)) = IF l = root THEN 1 ELSE 0
            BY <1>7, IdleFacts DEF One
        <3>2. handles[l] \in Nat /\ obj[l].dlref \in Nat
            BY <1>5 DEF Data, Entry
        <3>3. handles'[l] = IF l = root THEN handles[l] + 1 ELSE handles[l]
            BY <1>3, <1>5 DEF Data
        <3>4. obj'[l].dlref = obj[l].dlref
            BY <1>3
        <3> QED
            BY <3>1, <3>2, <3>3, <3>4
    <2>2. \A l \in Libs : /\ obj'[l].nref = obj[l].nref /\ obj'[l].closing = obj[l].closing
                          /\ Loads(Idle, l) <=> Loads(th[t], l)
                          /\ Marks(Idle, l) <=> Marks(th[t], l)
        BY <1>3, <1>7, IdleFacts
    <2> QED
        BY <2>1, <2>2, CountedOpens
<1> QED
    BY <1>1, <1>3, <1>7, <1>8, <1>9, StaleOthers, FinishQuiet

\* dlopen is called.
LEMMA DlopenStep ==
    ASSUME IInv, NEW t \in Threads, NEW l \in Libs, NEW nodelete \in Modes[l], Dlopen(t, l, nodelete)
    PROVE  IInv'
<1>1. PICK U : Frames(U)
    BY DEF IInv
<1>2. PICK g : g = [Idle EXCEPT !.pc = "load", !.root = l, !.nodelete = nodelete]
    OBVIOUS
<1>3. InCode(t) /\ Enter(t, g)
    BY <1>2 DEF Dlopen
<1>4. nodelete \in BOOLEAN
    BY ObjectsAssumption
<1>5. g \in CallOf({<< >>})
    <2>1. Idle \in CallOf({<< >>})
        BY IdleFacts
    <2> QED
        BY <1>2, <1>4, <2>1 DEF CallOf, Labels
<1>6. g.pc = "load" /\ g.root = l /\ g.pos = None /\ g.phase = "init"
    BY <1>2 DEF Idle
<1>7. Data /\ Stacks /\ Pending /\ StaleOK
    BY DEF IInv
<1>8. PICK W : Frames(W)'
    BY <1>1, <1>3, <1>5, <1>6, <1>7, EnterStep
<1>9. PICK me \in Threads \X Nat : me = << t, Depth(t) + 1 >> /\ Moves(me, Idle, g)
    BY <1>1, <1>3, <1>5, <1>6, <1>7, EnterStep
<1>10. Stacks'
    BY <1>1, <1>3, <1>5, <1>6, <1>7, EnterStep
<1>11. lock = None /\ lock' = t /\ th' = [th EXCEPT ![t] = g]
    BY <1>3 DEF InCode, Enter
<1>12. /\ ops' = [ops EXCEPT ![t] = @ - 1] /\ ops[t] > 0 /\ objlist' = objlist /\ obj' = obj
       /\ pending' = pending /\ stale' = stale /\ handles' = handles /\ dtors' = dtors
    BY DEF Dlopen
<1>13. ops' \in [Threads -> Nat] /\ \A u \in Threads : ops'[u] <= MaxOps[u]
    <2>1. MaxOps \in [Threads -> Nat] /\ ops \in [Threads -> Nat] /\ \A u \in Threads : ops[u] <= MaxOps[u]
        BY <1>7, ObjectsAssumption DEF Data
    <2> QED
        BY <1>12, <2>1
<1>14. Data'
    BY <1>7, <1>11, <1>12, <1>13 DEF Data
<1>15. LocalsOK(g)
    BY <1>6 DEF LocalsOK
<1>16. Counted(Idle, g)
    <2>1. \A x \in Libs : ~Opens(g, x) /\ ~Loads(g, x) /\ ~Marks(g, x)
        BY <1>6 DEF Opens, Loads, Marks
    <2>2. \A x \in Libs : /\ Opens(g, x) <=> Opens(Idle, x)
                          /\ Loads(g, x) <=> Loads(Idle, x)
                          /\ Marks(g, x) <=> Marks(Idle, x)
        BY <2>1, IdleFacts
    <2> QED
        BY <1>7, <1>12, <2>2, CountedSame
<1>17. StaleKept(me, g)
    <2>1. Depth(t) \in Nat /\ (me \in Calls <=> Depth(t) + 1 <= Depth(t))
        BY <1>1, <1>9, CallsFacts
    <2>2. me \notin stale
        BY <1>7, <2>1 DEF StaleOK
    <2> QED
        BY <1>1, <1>7, <1>12, <2>2, ByRec DEF StaleKept
<1>18. RootsKept(g)
    BY <1>6, <1>12 DEF RootsKept, Marks
<1>19. QuietObjects
    BY <1>12 DEF QuietObjects
<1>20. th'[t] = g
    BY <1>1, <1>11 DEF Frames
<1>21. \A x \in Libs : Due(x)' = 0 /\ ~Pinning(x)
    BY <1>1, <1>6, <1>8, <1>11, <1>20, DueFacts, DueFactsPrime DEF DueIn
<1>22. Working'
    BY <1>6, <1>11, <1>20, WorkingBy
<1>23. Pending'
    BY <1>7, <1>12 DEF Pending, Unrelocated, Listed
<1> QED
    BY <1>8, <1>9, <1>10, <1>12, <1>14, <1>15, <1>16, <1>17, <1>18, <1>19, <1>21, <1>22, <1>23, QuietStep
==============================================================================
