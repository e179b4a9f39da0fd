----------------------------- MODULE RtldObjects -----------------------------
(***************************************************************************)
(* Loading and unloading shared objects: dlopen and dlclose of ld.elf_so,  *)
(* called by several threads at once.                                      *)
(*                                                                         *)
(* All of this state is protected by the exclusive lock that RtldLock      *)
(* models, so here the lock is one variable.  A thread holds it from step  *)
(* to step and gives it up in two situations only: while it runs an        *)
(* object's constructor, destructor or ifunc resolver, and while it waits  *)
(* (_rtld_wait_for_fini, _rtld_wait_for_load_needed, _rtld_initfini_enter) *)
(* for another thread.  _lwp_park returns at once in this library, so such *)
(* a wait is: release the lock, take it again at some later time, start    *)
(* over; the waiter fields serve only the unpark that does nothing.        *)
(*                                                                         *)
(* A library has at most one Obj_Entry in the list (the lookup that finds  *)
(* none and the insertion are one step of the lock), so an Obj_Entry is    *)
(* identified with its library.  The main program is not in the list here. *)
(*                                                                         *)
(* Constructors and destructors may call dlopen and dlclose themselves:    *)
(* th is a thread's innermost call, outer the calls it was made from.      *)
(***************************************************************************)
EXTENDS Integers, Sequences, FiniteSets, SequencesExt

CONSTANTS Threads, Libs, None,
          Needs,        \* [Libs -> Seq(Libs)]: the DT_NEEDED entries, in order
          Unloadable,   \* libraries that cannot be opened or mapped
          BadVersion,   \* libraries that _rtld_verify_object_versions rejects
          BadReloc,     \* libraries whose relocation fails
          InitFirst,    \* libraries marked DF_1_INITFIRST
          FnCount,      \* [Libs -> [Kinds -> Nat]]: how many ifuncs, inits, finis
          NoDelete,     \* libraries marked DF_1_NODELETE
          Modes,        \* [Libs -> SUBSET BOOLEAN]: opened with RTLD_NODELETE, without
          Callers,      \* libraries whose functions call dlopen and dlclose
          SizeMax,      \* SIZE_MAX
          MaxCxa,       \* [Libs -> Nat], bound: thread-local destructors of a library
          MaxOps        \* [Threads -> Nat], bound: dlopen and dlclose calls of each thread

Kinds == {"ifunc", "init", "fini"}
RelocStates == {"notyet", "ready", "done", "failed"}

ASSUME ObjectsAssumption ==
    /\ IsFiniteSet(Libs) /\ IsFiniteSet(Threads) /\ None \notin Libs \cup Threads
    /\ MaxOps \in [Threads -> Nat]
    \* No DT_NEEDED entry comes twice: an entry is told by the library it names.
    /\ Needs \in [Libs -> Seq(Libs)]
    /\ \A l \in Libs : \A i, j \in 1 .. Len(Needs[l]) : Needs[l][i] = Needs[l][j] => i = j
    /\ FnCount \in [Libs -> [Kinds -> Nat]]
    /\ Unloadable \subseteq Libs /\ BadVersion \subseteq Libs
    /\ BadReloc \subseteq Libs /\ InitFirst \subseteq Libs
    /\ NoDelete \subseteq Libs /\ Callers \subseteq Libs
    /\ Modes \in [Libs -> SUBSET BOOLEAN]
    /\ SizeMax \in Nat /\ SizeMax >= 2 /\ MaxCxa \in [Libs -> Nat]

VARIABLES lock,       \* holder of the exclusive lock, or None
          objlist,    \* _rtld_objlist after the main program
          obj,        \* the Obj_Entry of each listed library
          pending,    \* _rtld_objrelocpending
          stale,      \* calls whose cur_objgen differs from _rtld_objgen
          th,         \* each thread's control and locals
          outer,      \* the calls each thread is in besides, innermost first
          handles,    \* handles of each library that callers have and may close
          dtors,      \* thread-local destructors of each library still to run
          ops         \* calls left to each thread

\* What callers have and do, and the calls they have made.
clients == << outer, handles, dtors, ops >>

vars == << lock, objlist, obj, pending, stale, th, clients >>

\* _rtld_map_object and _rtld_digest_dynamic: what a new Obj_Entry holds.
Fresh(l) ==
    [ref |-> 0, dlref |-> 0, nref |-> 0, closing |-> 0, initfini |-> None,
     reloc |-> "notyet", need |-> {}, dldags |-> {}, dagmembers |-> {},
     left |-> FnCount[l], znodel |-> l \in NoDelete, nodel |-> FALSE, cxa |-> 0]

\* A thread outside dlopen and dlclose.
Idle == [pc |-> "idle", root |-> None, pos |-> None, idx |-> 0, work |-> << >>,
         todo |-> << >>, phase |-> "init", nodelete |-> FALSE]

Init ==
    /\ lock = None /\ objlist = << >> /\ pending = 0 /\ stale = {}
    /\ obj = [l \in Libs |-> Fresh(l)]
    /\ th = [t \in Threads |-> Idle] /\ outer = [t \in Threads |-> << >>]
    /\ handles = [l \in Libs |-> 0] /\ dtors = [l \in Libs |-> 0]
    /\ ops = MaxOps

Listed(l) == \E i \in DOMAIN objlist : objlist[i] = l

\* obj->next, None at the end of the list.
NextOf(l) ==
    LET i == CHOOSE j \in DOMAIN objlist : objlist[j] = l
    IN  IF i < Len(objlist) THEN objlist[i + 1] ELSE None

At(t, label) == lock = t /\ th[t].pc = label
Goto(t, label) == th' = [th EXCEPT ![t].pc = label]

\* A thread whose own code, or a function of a library, calls dlopen or dlclose.
InCode(t) ==
    /\ lock = None
    /\ th[t].pc = "idle" \/ (th[t].pc = "calling" /\ Head(th[t].todo)[2] \in Callers)

\* A call begins, in the state f; a call returns.
Enter(t, f) ==
    /\ lock' = t
    /\ th' = [th EXCEPT ![t] = f]
    /\ outer' = [outer EXCEPT ![t] = << th[t] >> \o @]

Finish(t) ==
    /\ lock' = None
    /\ th' = [th EXCEPT ![t] = Head(outer[t])]
    /\ outer' = [outer EXCEPT ![t] = Tail(@)]

\* A thread's calls are numbered from the outermost; th is the last of them.
Depth(t) == Len(outer[t])
CallAt(t, n) == IF n = Depth(t) THEN th[t] ELSE outer[t][Depth(t) - n]
Calls == UNION {{t} \X (0 .. Depth(t)) : t \in Threads}
Stale(t) == << t, Depth(t) >> \in stale

\* Wait: give up the lock, and continue at label once it is taken again.
Wait(t, label) == lock' = None /\ Goto(t, label)

\* _rtld_objgen++
NewGeneration == stale' = {c \in Calls : CallAt(c[1], c[2]).pc \in {"call", "calling"}}

\* A thread in the middle of a call takes the lock again after waiting.
Relock(t) ==
    /\ lock = None /\ th[t].pc \notin {"idle", "calling"}
    /\ lock' = t
    /\ UNCHANGED << objlist, obj, pending, stale, th, clients >>

-----------------------------------------------------------------------------
(* dlopen: find or map the object, then load what it needs *)

Dlopen(t, l, nodelete) ==
    /\ InCode(t) /\ ops[t] > 0
    /\ Enter(t, [Idle EXCEPT !.pc = "load", !.root = l, !.nodelete = nodelete])
    /\ ops' = [ops EXCEPT ![t] = @ - 1]
    /\ UNCHANGED << objlist, obj, pending, stale, handles, dtors >>

\* _rtld_load_object for a library that is not listed.
Map(l, o) ==
    /\ objlist' = Append(objlist, l)
    /\ obj' = o
    /\ pending' = pending + 1
    /\ NewGeneration

\* _rtld_load_library for the name passed to dlopen, and ++dl_refcount.
LoadFail(t) ==
    /\ At(t, "load")
    /\ ~Listed(th[t].root) /\ th[t].root \in Unloadable
    /\ Finish(t)
    /\ UNCHANGED << objlist, obj, pending, stale, handles, dtors, ops >>

LoadWait(t) ==
    /\ At(t, "load")
    /\ Listed(th[t].root) /\ obj[th[t].root].ref = 0
    /\ Wait(t, "load")
    /\ UNCHANGED << objlist, obj, pending, stale, clients >>

LoadNew(t) ==
    LET l == th[t].root IN
    /\ At(t, "load")
    /\ ~Listed(l) /\ l \notin Unloadable
    /\ Map(l, [obj EXCEPT ![l].ref = 1, ![l].dlref = 1])
    /\ th' = [th EXCEPT ![t].pc = "scan", ![t].pos = l]
    /\ UNCHANGED << lock, clients >>

\* Mutant of LoadOld: an object in the list is taken for a usable one.
LoadOldUsable(t) ==
    LET l == th[t].root IN
    /\ At(t, "load")
    /\ Listed(l) /\ obj[l].ref > 0
    /\ obj' = [obj EXCEPT ![l].ref = @ + 1, ![l].dlref = @ + 1]
    /\ Goto(t, "opened")
    /\ UNCHANGED << lock, objlist, pending, stale, clients >>

\* With nothing pending relocation the call is nearly over.
LoadOld(t) ==
    LET l == th[t].root IN
    /\ At(t, "load")
    /\ Listed(l) /\ obj[l].ref > 0
    /\ obj' = [obj EXCEPT ![l].ref = @ + 1, ![l].dlref = @ + 1]
    /\ th' = IF pending = 0 THEN [th EXCEPT ![t].pc = "opened"]
             ELSE [th EXCEPT ![t].pc = "scan", ![t].pos = l]
    /\ UNCHANGED << lock, objlist, pending, stale, clients >>

\* _rtld_load_needed_objects: the object at pos, or the end of the list.
Scan(t) ==
    LET p == th[t].pos IN
    /\ At(t, "scan")
    /\ \/ /\ p = None
          /\ th' = [th EXCEPT ![t].pc = "dag", ![t].work = << th[t].root >>]
          /\ UNCHANGED obj
       \/ /\ p # None /\ obj[p].ref = 0
          /\ th' = [th EXCEPT ![t].pos = NextOf(p)]
          /\ UNCHANGED obj
       \/ /\ p # None /\ obj[p].ref > 0
          /\ th' = [th EXCEPT ![t].pc = "need", ![t].idx = 1]
          /\ obj' = [obj EXCEPT ![p].nref = @ + 1]
    /\ UNCHANGED << lock, objlist, pending, stale, clients >>

\* One DT_NEEDED entry of pos: already resolved, to be loaded, or none left.
Need(t) ==
    LET p == th[t].pos
        i == th[t].idx IN
    /\ At(t, "need")
    /\ \/ /\ i > Len(Needs[p])
          /\ obj' = [obj EXCEPT ![p].nref = @ - 1]
          /\ th' = [th EXCEPT ![t].pc = "scan", ![t].pos = NextOf(p), ![t].idx = 0]
       \/ /\ i <= Len(Needs[p]) /\ Needs[p][i] \in obj[p].need
          /\ th' = [th EXCEPT ![t].idx = @ + 1]
          /\ UNCHANGED obj
       \/ /\ i <= Len(Needs[p]) /\ Needs[p][i] \notin obj[p].need
          /\ Goto(t, "byname")
          /\ UNCHANGED obj
    /\ UNCHANGED << lock, objlist, pending, stale, clients >>

\* The library named by the current entry, and the object that needs it.
Name(t) == Needs[th[t].pos][th[t].idx]

\* Mutant of Resolved: the needed object is not counted.
ResolvedUncounted(t, o) == [o EXCEPT ![th[t].pos].need = @ \cup {Name(t)}]

\* A library marked NODELETE is pinned for the object that needs it, unless
\* that object (not the library itself) is pinned already.
Pins(t) == obj[Name(t)].znodel /\ ~obj[th[t].pos].nodel

Resolved(t, o) == [o EXCEPT ![th[t].pos].need = @ \cup {Name(t)}, ![Name(t)].ref = @ + 1,
                            ![Name(t)].nodel = @ \/ Pins(t)]

\* On to _rtld_ref_dag for a pinned object, or to the next entry.
AfterResolved(t) ==
    th' = IF Pins(t) THEN [th EXCEPT ![t].pc = "ref", ![t].work = << Name(t) >>]
          ELSE [th EXCEPT ![t].pc = "need", ![t].idx = @ + 1]

\* _rtld_load_by_name: it starts over here after each wait.
ByNameWait(t) ==
    /\ At(t, "byname")
    /\ Listed(Name(t)) /\ obj[Name(t)].ref = 0
    /\ Wait(t, "byname")
    /\ UNCHANGED << objlist, obj, pending, stale, clients >>

\* Mutant of ByNameOld: an object under destruction is taken up again.
ByNameDying(t) ==
    /\ At(t, "byname") /\ Listed(Name(t))
    /\ obj' = Resolved(t, obj)
    /\ AfterResolved(t)
    /\ UNCHANGED << lock, objlist, pending, stale, clients >>

ByNameOld(t) ==
    /\ At(t, "byname")
    /\ Listed(Name(t)) /\ obj[Name(t)].ref > 0
    /\ obj' = Resolved(t, obj)
    /\ AfterResolved(t)
    /\ UNCHANGED << lock, objlist, pending, stale, clients >>

ByNameNew(t) ==
    /\ At(t, "byname")
    /\ ~Listed(Name(t)) /\ Name(t) \notin Unloadable
    /\ Map(Name(t), Resolved(t, obj))
    /\ AfterResolved(t)
    /\ UNCHANGED << lock, clients >>

ByNameFail(t) ==
    /\ At(t, "byname")
    /\ ~Listed(Name(t)) /\ Name(t) \in Unloadable
    /\ obj' = [obj EXCEPT ![th[t].pos].nref = @ - 1, ![th[t].pos].need = @ \ {Name(t)}]
    /\ th' = [th EXCEPT ![t].pc = "fail", ![t].pos = None, ![t].idx = 0]
    /\ UNCHANGED << lock, objlist, pending, stale, clients >>

-----------------------------------------------------------------------------
(* dlopen: the DAG, relocation *)

\* The resolved DT_NEEDED entries of an object, in order.
Needed(l) ==
    LET upto[i \in 0 .. Len(Needs[l])] ==
            IF i = 0 THEN << >>
            ELSE upto[i - 1] \o IF Needs[l][i] \in obj[l].need THEN << Needs[l][i] >> ELSE << >>
    IN  upto[Len(Needs[l])]

\* One visit of _rtld_init_dag1, depth first; work is its stack.  The search for the
\* root in dldags compares pointers: an entry left there by an earlier, freed
\* Obj_Entry of the root matches only if the new one has its address.
Dag(t) ==
    LET root == th[t].root
        o == Head(th[t].work)
        readied == [obj EXCEPT ![o].reloc = IF @ = "notyet" THEN "ready" ELSE @] IN
    /\ At(t, "dag") /\ th[t].work # << >>
    /\ \E reused \in BOOLEAN :
          IF root \in obj[o].dldags /\ (o \in obj[root].dagmembers \/ reused)
          THEN /\ obj' = readied
               /\ th' = [th EXCEPT ![t].work = Tail(@)]
          ELSE /\ obj' = [readied EXCEPT ![o].dldags = @ \cup {root}, ![root].dagmembers = @ \cup {o}]
               /\ th' = [th EXCEPT ![t].work = Needed(o) \o Tail(@)]
    /\ UNCHANGED << lock, objlist, pending, stale, clients >>

\* One call of _rtld_ref_dag, which goes along every path; then on with the
\* next DT_NEEDED entry, or to the end of dlopen.
RefDag(t) ==
    /\ At(t, "ref") /\ th[t].work # << >>
    /\ obj' = [obj EXCEPT ![Head(th[t].work)].ref = @ + 1]
    /\ th' = [th EXCEPT ![t].work = Needed(Head(@)) \o Tail(@)]
    /\ UNCHANGED << lock, objlist, pending, stale, clients >>

RefDone(t) ==
    /\ At(t, "ref") /\ th[t].work = << >>
    /\ th' = IF th[t].pos = None THEN [th EXCEPT ![t].pc = "opened"]
             ELSE [th EXCEPT ![t].pc = "need", ![t].idx = @ + 1]
    /\ UNCHANGED << lock, objlist, obj, pending, stale, clients >>

\* _rtld_relocate_objects stops at the first object that cannot be relocated.
Relocate(t) ==
    LET ready == {i \in DOMAIN objlist : obj[objlist[i]].reloc = "ready"}
        bad == {i \in ready : objlist[i] \in BadReloc}
        tried == {objlist[i] : i \in {j \in ready : \A b \in bad : j <= b}} IN
    /\ At(t, "dag") /\ th[t].work = << >>
    /\ IF obj[th[t].root].dagmembers \cap BadVersion # {}
       THEN Goto(t, "fail") /\ UNCHANGED << obj, pending >>
       ELSE /\ obj' = [l \in Libs |-> IF l \notin tried THEN obj[l]
                       ELSE [obj[l] EXCEPT !.reloc = IF l \in BadReloc THEN "failed" ELSE "done"]]
            /\ pending' = pending - Cardinality(tried)
            /\ th' = [th EXCEPT ![t].pc = IF bad # {} THEN "fail" ELSE "sort", ![t].phase = "init"]
    /\ UNCHANGED << lock, objlist, stale, clients >>

\* Mutant of OpenFails: dl_refcount keeps the failed call.
OpenFailsCounted(t) ==
    /\ At(t, "fail")
    /\ th' = [th EXCEPT ![t].pc = "unref", ![t].work = << th[t].root >>, ![t].phase = "failed"]
    /\ UNCHANGED << lock, objlist, obj, pending, stale, clients >>

\* dlopen's failure path: dl_refcount--, then _rtld_unload_object without
\* destructors.
OpenFails(t) ==
    /\ At(t, "fail")
    /\ obj' = [obj EXCEPT ![th[t].root].dlref = @ - 1]
    /\ th' = [th EXCEPT ![t].pc = "unref", ![t].work = << th[t].root >>, ![t].phase = "failed"]
    /\ UNCHANGED << lock, objlist, pending, stale, clients >>

-----------------------------------------------------------------------------
(* Running constructors and destructors *)

\* Mutants of TSort: list order; list order with the unrelocated objects.
ListOrder(t) == SelectSeq(objlist, LAMBDA l : obj[l].reloc \in {"done", "failed"})
Unfiltered(t) == objlist

\* _rtld_initlist_tsort: depth-first post-order over the list.  Objects not
\* yet relocated are passed over, and not visited below.  An object whose
\* function this thread is running is left out, with all that need it.
TSort(t) ==
    LET Visited == [list : Seq(Libs), done : SUBSET Libs, blocked : SUBSET Libs]
        own == {l \in Libs : Listed(l) /\ obj[l].initfini = t}
        visit[d \in 0 .. Cardinality(Libs)] ==
            [v \in Visited, l \in Libs |->
                IF d = 0 \/ obj[l].reloc \in {"notyet", "ready"} \/ l \in v.done THEN v
                ELSE LET below == FoldLeft(LAMBDA a, n : visit[d - 1][a, n],
                                           [v EXCEPT !.done = @ \cup {l}], Needed(l))
                     IN  IF Range(Needed(l)) \cap below.blocked # {}
                         THEN [below EXCEPT !.blocked = @ \cup {l}]
                         ELSE [below EXCEPT !.list = Append(@, l)]]
    IN  FoldLeft(LAMBDA a, l : visit[Cardinality(Libs)][a, l],
                 [list |-> << >>, done |-> own, blocked |-> own], objlist).list

Each(kind, list) == [i \in DOMAIN list |-> << kind, list[i] >>]

\* The calls of _rtld_call_init_functions and _rtld_call_fini_functions, pass
\* after pass.
InitCalls(t) == LET s == TSort(t)
                    first == [i \in DOMAIN s |-> << IF s[i] \in InitFirst THEN "init" ELSE "check", s[i] >>]
                IN  Each("ifunc", s) \o first \o Each("init", s)

FiniCalls(t) == LET s == Reverse(TSort(t))
                IN  Each("fini", SelectSeq(s, LAMBDA l : l \notin InitFirst)) \o Each("fini", s)

Sort(t) ==
    /\ At(t, "sort")
    /\ th' = [th EXCEPT ![t].pc = "call",
                        ![t].todo = IF th[t].phase = "init" THEN InitCalls(t) ELSE FiniCalls(t)]
    /\ stale' = stale \ {<< t, Depth(t) >>}
    /\ UNCHANGED << lock, objlist, obj, pending, clients >>

Kind(t) == Head(th[t].todo)[1]
Callee(t) == Head(th[t].todo)[2]

\* A destructor of an object that is referenced is not called, and neither
\* is a function that has been called.  The INITFIRST pass only looks at the
\* objects that do not have the mark.
Skips(t) ==
    LET o == obj[Callee(t)] IN
    CASE Kind(t) = "check" -> o.ref > 0
      [] Kind(t) = "fini" -> o.ref > 0 \/ (o.initfini = None /\ o.left["fini"] = 0)
      [] OTHER -> o.ref > 0 /\ o.initfini = None /\ o.left[Kind(t)] = 0

\* Mutant of Blocked: nobody looks at initfinilock.
Unlocked(t) == Kind(t) # "fini" /\ obj[Callee(t)].ref = 0

\* Mutant of Blocked: nobody waits for an object under destruction.
OnlyLocked(t) == obj[Callee(t)].initfini # None

\* Another thread is destroying the object, or runs a function of it.
Blocked(t) ==
    \/ Kind(t) # "fini" /\ obj[Callee(t)].ref = 0
    \/ obj[Callee(t)].initfini # None

Skip(t) ==
    /\ At(t, "call") /\ th[t].todo # << >> /\ Skips(t)
    /\ th' = [th EXCEPT ![t].todo = Tail(@)]
    /\ UNCHANGED << lock, objlist, obj, pending, stale, clients >>

CallWait(t) ==
    /\ At(t, "call") /\ th[t].todo # << >> /\ ~Skips(t) /\ Blocked(t)
    /\ lock' = None
    /\ th' = [th EXCEPT ![t].pc = "sort", ![t].todo = << >>]
    /\ UNCHANGED << objlist, obj, pending, stale, clients >>

\* _rtld_initfini_enter, then the function runs without the lock.
Call(t) ==
    LET l == Callee(t) IN
    /\ At(t, "call") /\ th[t].todo # << >> /\ ~Skips(t) /\ ~Blocked(t)
    /\ obj' = [obj EXCEPT ![l].initfini = t, ![l].left[Kind(t)] = @ - 1]
    /\ Wait(t, "calling")
    /\ UNCHANGED << objlist, pending, stale, clients >>

\* The function returns.  The next one of the same array follows unless the
\* list has changed; then _rtld_initfini_exit, and on or from the start.
Return(t) ==
    LET l == Callee(t) IN
    /\ lock = None /\ th[t].pc = "calling"
    /\ IF ~Stale(t) /\ obj[l].left[Kind(t)] > 0
       THEN /\ obj' = [obj EXCEPT ![l].left[Kind(t)] = @ - 1]
            /\ UNCHANGED << lock, th >>
       ELSE /\ lock' = t
            /\ obj' = [obj EXCEPT ![l].initfini = None]
            /\ th' = IF Stale(t)
                     THEN [th EXCEPT ![t].pc = "sort", ![t].todo = << >>]
                     ELSE [th EXCEPT ![t].pc = "call", ![t].todo = Tail(@)]
    /\ UNCHANGED << objlist, pending, stale, clients >>

Initialized(t) ==
    /\ At(t, "call") /\ th[t].todo = << >> /\ th[t].phase = "init"
    /\ Goto(t, "opened")
    /\ UNCHANGED << lock, objlist, obj, pending, stale, clients >>

\* The end of dlopen: RTLD_NODELETE, or the mark of the library, pins it once;
\* then the caller has a handle.
MustPin(t) == (th[t].nodelete \/ obj[th[t].root].znodel) /\ ~obj[th[t].root].nodel

Pin(t) ==
    /\ At(t, "opened") /\ MustPin(t)
    /\ obj' = [obj EXCEPT ![th[t].root].znodel = TRUE, ![th[t].root].nodel = TRUE]
    /\ th' = [th EXCEPT ![t].pc = "ref", ![t].work = << th[t].root >>]
    /\ UNCHANGED << lock, objlist, pending, stale, clients >>

Opened(t) ==
    /\ At(t, "opened") /\ ~MustPin(t)
    /\ handles' = [handles EXCEPT ![th[t].root] = @ + 1]
    /\ Finish(t)
    /\ UNCHANGED << objlist, obj, pending, stale, dtors, ops >>

-----------------------------------------------------------------------------
(* dlclose and _rtld_unload_object *)

\* _rtld_unload_object begins.
Unloading(l) == [Idle EXCEPT !.pc = "unref", !.root = l, !.work = << l >>, !.phase = "fini"]

Dlclose(t, l) ==
    /\ InCode(t) /\ ops[t] > 0 /\ handles[l] > 0
    /\ handles' = [handles EXCEPT ![l] = @ - 1]
    /\ ops' = [ops EXCEPT ![t] = @ - 1]
    /\ IF Listed(l) /\ obj[l].dlref > 0
       THEN /\ obj' = [obj EXCEPT ![l].dlref = @ - 1]
            /\ Enter(t, Unloading(l))
       ELSE UNCHANGED << lock, obj, th, outer >>
    /\ UNCHANGED << objlist, pending, stale, dtors >>

\* __dl_cxa_refcount(addr, 1): a function of the library, called by someone who
\* has it open, registers a thread-local destructor.
CxaRef(t, l) ==
    /\ lock = None /\ th[t].pc = "idle" /\ handles[l] > 0
    /\ obj[l].cxa < MaxCxa[l]
    /\ obj' = IF obj[l].cxa > SizeMax - 1 THEN obj
              ELSE [obj EXCEPT ![l].cxa = @ + 1, ![l].ref = IF obj[l].cxa = 0 THEN @ + 1 ELSE @]
    /\ dtors' = [dtors EXCEPT ![l] = @ + 1]
    /\ UNCHANGED << lock, objlist, pending, stale, th, outer, handles, ops >>

\* cxa_refcount < -1 + (size_t)-(delta + 1), in the arithmetic of size_t: for
\* delta = -1 the right-hand side is SIZE_MAX.
Underflows(l, delta) == obj[l].cxa < (-1 + -(delta + 1)) % (SizeMax + 1)

\* __dl_cxa_refcount(addr, -1), after the destructor has run at thread exit.
\* The decrement is refused as an underflow unless the count is SIZE_MAX.
CxaUnref(t, l) ==
    LET last == obj[l].cxa = 1 IN
    /\ lock = None /\ th[t].pc = "idle" /\ dtors[l] > 0
    /\ dtors' = [dtors EXCEPT ![l] = @ - 1]
    /\ IF Underflows(l, -1)
       THEN UNCHANGED << lock, obj, th, outer >>
       ELSE /\ obj' = [obj EXCEPT ![l].cxa = @ - 1, ![l].ref = IF last THEN @ - 1 ELSE @]
            /\ IF last /\ obj[l].ref = 1 THEN Enter(t, Unloading(l))
               ELSE UNCHANGED << lock, th, outer >>
    /\ UNCHANGED << objlist, pending, stale, handles, ops >>

\* Mutant of Unref: what the object needs loses a reference at every dlclose.
UnrefAll(t) ==
    LET o == Head(th[t].work) IN
    /\ At(t, "unref") /\ th[t].work # << >> /\ obj[o].ref > 0
    /\ obj' = [obj EXCEPT ![o].ref = @ - 1]
    /\ th' = [th EXCEPT ![t].work = Needed(o) \o Tail(@)]
    /\ UNCHANGED << lock, objlist, pending, stale, clients >>

\* One call of _rtld_unref_dag; work is its stack.
Unref(t) ==
    LET o == Head(th[t].work) IN
    /\ At(t, "unref") /\ th[t].work # << >>
    /\ obj' = [obj EXCEPT ![o].ref = @ - 1]
    /\ th' = [th EXCEPT ![t].work = (IF obj[o].ref = 1 THEN Needed(o) ELSE << >>) \o Tail(@)]
    /\ UNCHANGED << lock, objlist, pending, stale, clients >>

StillReferenced(t) ==
    /\ At(t, "unref") /\ th[t].work = << >> /\ obj[th[t].root].ref > 0
    /\ Finish(t)
    /\ UNCHANGED << objlist, obj, pending, stale, handles, dtors, ops >>

\* dlclosing++ on the root and on each member of its DAG; the root itself is
\* a member once its DAG was built.
Mark(l, step) ==
    [o \in Libs |-> [obj[o] EXCEPT !.closing =
        @ + (IF o = l THEN step ELSE 0) + (IF o \in obj[l].dagmembers THEN step ELSE 0)]]

\* Mutant of Closing: only the root is marked, while Undag unmarks them all.
ClosingRoot(t) ==
    LET root == th[t].root IN
    /\ At(t, "unref") /\ th[t].work = << >> /\ obj[root].ref = 0
    /\ obj' = [obj EXCEPT ![root].closing = @ + 1]
    /\ lock' = IF obj[root].nref > 0 THEN None ELSE lock
    /\ Goto(t, IF th[t].phase = "fini" THEN "sort" ELSE "undag")
    /\ UNCHANGED << objlist, pending, stale, clients >>

\* The last reference is gone: mark, and wait once if another thread is
\* loading what the root needs.
Closing(t) ==
    LET root == th[t].root IN
    /\ At(t, "unref") /\ th[t].work = << >> /\ obj[root].ref = 0
    /\ obj' = Mark(root, 1)
    /\ lock' = IF obj[root].nref > 0 THEN None ELSE lock
    /\ Goto(t, IF th[t].phase = "fini" THEN "sort" ELSE "undag")
    /\ UNCHANGED << objlist, pending, stale, clients >>

Finalized(t) ==
    /\ At(t, "call") /\ th[t].todo = << >> /\ th[t].phase = "fini"
    /\ Goto(t, "undag")
    /\ UNCHANGED << lock, objlist, obj, pending, stale, clients >>

\* Take the root's DAG off its members, and unmark them and the root.
Undag(t) ==
    LET root == th[t].root
        unmarked == Mark(root, -1) IN
    /\ At(t, "undag")
    /\ obj' = [o \in Libs |-> [unmarked[o] EXCEPT !.dldags = 
                  IF o \in obj[root].dagmembers THEN @ \ {root} ELSE @]]
    /\ th' = [th EXCEPT ![t].pc = "gc", ![t].root = None]
    /\ UNCHANGED << lock, objlist, pending, stale, clients >>

\* Mutant of Garbage: objects that another thread is closing are freed too.
AnyUnreferenced == {i \in DOMAIN objlist : obj[objlist[i]].ref = 0}

Garbage == {i \in DOMAIN objlist : LET o == obj[objlist[i]] IN
                o.ref = 0 /\ o.closing = 0 /\ o.initfini = None}
FirstPlace == CHOOSE i \in Garbage : \A j \in Garbage : i <= j
FirstGarbage == objlist[FirstPlace]

\* Mutant of Free: it does not wait for threads that load what the object needs.
FreeAnyway(t) ==
    /\ At(t, "gc") /\ Garbage # {}
    /\ objlist' = RemoveAt(objlist, FirstPlace)
    /\ obj' = [obj EXCEPT ![FirstGarbage] = Fresh(FirstGarbage)]
    /\ UNCHANGED << lock, pending, stale, th, clients >>

\* The collection loop, one object at a time.
Free(t) ==
    LET l == FirstGarbage IN
    /\ At(t, "gc") /\ Garbage # {} /\ obj[l].nref = 0
    /\ objlist' = RemoveAt(objlist, FirstPlace)
    /\ obj' = [obj EXCEPT ![l] = Fresh(l)]
    /\ UNCHANGED << lock, pending, stale, th, clients >>

FreeWait(t) ==
    /\ At(t, "gc") /\ Garbage # {} /\ obj[FirstGarbage].nref > 0
    /\ Wait(t, "gc")
    /\ UNCHANGED << objlist, obj, pending, stale, clients >>

Unloaded(t) ==
    /\ At(t, "gc") /\ Garbage = {}
    /\ NewGeneration
    /\ Finish(t)
    /\ UNCHANGED << objlist, obj, pending, handles, dtors, ops >>

-----------------------------------------------------------------------------
LoadStep(t) == \/ LoadFail(t) \/ LoadWait(t) \/ LoadNew(t) \/ LoadOld(t)
               \/ Scan(t) \/ Need(t)
               \/ ByNameWait(t) \/ ByNameOld(t) \/ ByNameNew(t) \/ ByNameFail(t)
               \/ Dag(t) \/ RefDag(t) \/ RefDone(t) \/ Relocate(t) \/ OpenFails(t)

CallStep(t) == \/ Sort(t) \/ Skip(t) \/ CallWait(t) \/ Call(t) \/ Return(t)
               \/ Initialized(t) \/ Pin(t) \/ Opened(t) \/ Finalized(t)

UnloadStep(t) == \/ Unref(t) \/ StillReferenced(t) \/ Closing(t) \/ Undag(t)
                 \/ Free(t) \/ FreeWait(t) \/ Unloaded(t)

Step(t) == LoadStep(t) \/ CallStep(t) \/ UnloadStep(t)

\* Nobody has a call to make and nobody is in one.
Terminated == (\A t \in Threads : th[t].pc = "idle") /\ UNCHANGED vars

Next == \/ \E t \in Threads, l \in Libs : \E nodelete \in Modes[l] : Dlopen(t, l, nodelete)
        \/ \E t \in Threads, l \in Libs : Dlclose(t, l) \/ CxaRef(t, l) \/ CxaUnref(t, l)
        \/ \E t \in Threads : Relock(t) \/ Step(t)
        \/ Terminated

Spec == Init /\ [][Next]_vars

(***************************************************************************)
(* A thread that can go on does so.  The lock is a spin lock, free again   *)
(* and again while others wait or run constructors, and the scheduler may  *)
(* keep a thread from it for any finite time but not for ever: hence       *)
(* strong fairness where a thread takes it.  Return is among those steps:  *)
(* constructors and destructors terminate.                                 *)
(***************************************************************************)
FairSpec == Spec /\ \A t \in Threads :
                WF_vars(Step(t)) /\ SF_vars(Relock(t)) /\ SF_vars(Return(t))

-----------------------------------------------------------------------------
(* Properties *)

\* Every variable has its type.  refcount, dl_refcount, neededrefcount,
\* dlclosing and _rtld_objrelocpending are never decremented below zero.
TypeOK ==
    /\ lock \in Threads \cup {None}
    /\ objlist \in Seq(Libs)
    /\ obj \in [Libs -> [ref : Nat, dlref : Nat, nref : Nat, closing : Nat,
                         initfini : Threads \cup {None}, reloc : RelocStates,
                         need : SUBSET Libs, dldags : SUBSET Libs, dagmembers : SUBSET Libs,
                         left : [Kinds -> Nat], znodel : BOOLEAN, nodel : BOOLEAN,
                         cxa : 0 .. SizeMax]]
    /\ pending \in Nat /\ stale \subseteq Calls
    /\ \A t \in Threads : /\ th[t].root \in Libs \cup {None} /\ th[t].pos \in Libs \cup {None}
                          /\ ops[t] \in 0 .. MaxOps[t]
    /\ handles \in [Libs -> Nat] /\ dtors \in [Libs -> Nat]

\* The objects of a call's init or fini list, unless the list will be thrown
\* away.  A call looks at its list only when the calls made from its constructor
\* or destructor have returned.
ListOf(c) ==
    LET me == CallAt(c[1], c[2])
    IN  IF c[2] = Depth(c[1]) /\ c \notin stale /\ me.pc \in {"call", "calling"}
        THEN {f[2] : f \in Range(me.todo)} ELSE {}

Collecting == \E t \in Threads : th[t].pc = "gc"

\* A call between marking a DAG with dlclosing and unmarking it.
Closes(c) == LET me == CallAt(c[1], c[2])
             IN  me.phase # "init" /\ me.pc \in {"sort", "call", "calling", "undag"}

\* The object is referenced, or some dlclose has it in the DAG it has marked.
Protected(l) ==
    obj[l].ref > 0 \/ \E c \in Calls : Closes(c) /\ l \in obj[CallAt(c[1], c[2]).root].dagmembers

\* The needed->obj pointers that _rtld_initlist_visit follows from such objects.
Visits == UNION {obj[l].need : l \in {x \in Libs : /\ Listed(x) /\ Protected(x)
                                                  /\ obj[x].reloc \in {"done", "failed"}}}

\* The Obj_Entry pointers that a call still follows: its locals, those of the sort
\* it is about to make, its init or fini list and what it has marked with dlclosing.
Uses(c) ==
    LET me == CallAt(c[1], c[2])
    IN  (IF me.pc = "load" THEN {} ELSE {me.root, me.pos} \ {None})
        \cup Range(me.work)
        \cup (IF me.pc = "sort" THEN Visits ELSE {})
        \cup (IF me.pc = "calling" THEN {Head(me.todo)[2]} ELSE {})
        \cup (IF Collecting THEN {} ELSE ListOf(c))
        \cup (IF Closes(c) THEN obj[me.root].dagmembers ELSE {})

\* No thread that may run follows a pointer to an Obj_Entry that has been
\* freed while the lock was given up for a constructor, a destructor or a
\* wait: by another thread's _rtld_unload_object, or by one that the
\* constructor or destructor itself has called.  Two kinds of pointers are
\* outside: init and fini lists while a collection is interrupted in the middle
\* (GenerationTells, below), and needed->obj of an unreferenced object in no
\* marked DAG, which can dangle: dlclose of an object that never got a DAG marks
\* only that object, and a collection passes over one whose constructor runs.
NoUseAfterFree == \A c \in Calls : lock \in {None, c[1]} => \A l \in Uses(c) : Listed(l)

\* refcount never falls short of the references there are: one for each
\* dlopen (dl_refcount), one for each live object with a resolved DT_NEEDED
\* entry for it, one if RTLD_NODELETE has pinned it and one if it has
\* thread-local destructors to run.  A shortfall would unmap a library in use.
NeverUndercounted ==
    lock = None => \A l \in Libs : Listed(l) =>
        obj[l].ref >= obj[l].dlref + (IF obj[l].nodel THEN 1 ELSE 0) + (IF dtors[l] > 0 THEN 1 ELSE 0)
            + Cardinality({m \in Libs : Listed(m) /\ obj[m].ref > 0 /\ l \in obj[m].need})

\* A referenced object needs, and has in its DAG, only objects that are
\* themselves referenced and listed, so a symbol lookup through it finds no
\* unmapped object.
MembersLive ==
    lock = None => \A l \in Libs : Listed(l) /\ obj[l].ref > 0 =>
        \A m \in obj[l].dagmembers \cup obj[l].need : Listed(m) /\ obj[m].ref > 0

\* dl_refcount counts the handles callers have and the dlopen calls under way:
\* dlclose of such a handle is never refused by _rtld_dlcheck.
DlrefExact ==
    \A l \in Libs : obj[l].dlref = handles[l]
        + Cardinality({c \in Calls : LET me == CallAt(c[1], c[2]) IN
                           me.root = l /\ me.phase = "init" /\ me.pc # "load"})

Runs(l, kind) == \E c \in Calls : LET me == CallAt(c[1], c[2]) IN
                     me.pc = "calling" /\ Head(me.todo) = << kind, l >>
Begun(l, kind) == obj[l].left[kind] < FnCount[l][kind]
Ran(l, kind) == obj[l].left[kind] = 0 /\ ~Runs(l, kind)

\* An object whose destructors have begun is referenced by nobody and stays
\* so until it is freed: dlopen waits for it (_rtld_wait_for_fini) instead of
\* taking up a half destroyed object.
FiniDead == \A l \in Libs : Begun(l, "fini") => obj[l].ref = 0

\* Once a destructor of an object has begun, none of its constructors and ifunc
\* resolvers is running and none begins, whichever threads are at it.  It does
\* not follow that all constructors have run: where a constructor calls dlopen,
\* those of the objects that need its own are put off, the handle is returned
\* all the same and may be closed by another thread, and _rtld_objgen can change
\* between two constructors of an object.  What has not run by then never will.
FiniAfterInit == \A l \in Libs : Begun(l, "fini") => ~Runs(l, "init") /\ ~Runs(l, "ifunc")

RunsOne(c, l) == LET me == CallAt(c[1], c[2]) IN me.pc = "calling" /\ Head(me.todo)[2] = l

\* _rtld_initfini_enter and _rtld_initfini_exit: at any time one call at most,
\* of all threads and of the nested calls of each, runs a function of an object.
\* initfinilock names its thread, and nobody when there is none: no lock is left
\* behind.  An object whose ifunc resolver or constructor runs is not freed.
OneAtATime ==
    /\ \A c \in Calls, l \in Libs : RunsOne(c, l) =>
           /\ obj[l].initfini = c[1]
           /\ Head(CallAt(c[1], c[2]).todo)[1] # "fini" => Listed(l)
           /\ \A d \in Calls : RunsOne(d, l) => d = c
    /\ \A l \in Libs : obj[l].initfini # None => \E c \in Calls : RunsOne(c, l)

\* When dlopen has returned a handle, to a thread that loaded the object or to
\* one that found it loaded, the object is relocated, and it stays listed and
\* referenced as long as a caller has the handle or a thread has a destructor
\* of its to run.
HandleUsable ==
    \A l \in Libs :
        /\ handles[l] > 0 \/ dtors[l] > 0 => Listed(l) /\ obj[l].ref > 0
        /\ handles[l] > 0 => obj[l].reloc = "done"

\* assert(obj->relocstate == OBJRELOC_DONE) in the loops that call ifunc
\* resolvers, constructors and destructors.
CallsRelocated == \A t \in Threads : th[t].pc = "calling" => obj[Callee(t)].reloc = "done"

\* The first constructor of an object is called only when the constructors of
\* all the objects loaded for its DT_NEEDED entries have returned, whichever
\* threads run them.  An INITFIRST object goes before those it needs that are
\* not, but before no other.
InitAfterNeeded ==
    [][\A l \in Libs : ~Begun(l, "init") /\ Begun(l, "init")' =>
           \A m \in obj[l].need : Ran(m, "init") \/ (l \in InitFirst /\ m \notin InitFirst)]_vars

\* Every dlopen and dlclose returns.
AllReturn == <>[](\A t \in Threads : th[t].pc = "idle")

-----------------------------------------------------------------------------
(* What comments and documentation of the code say *)

\* OBJRELOC_READY, "NEEDED loaded, dldags inited", and what follows it.
NeededLoaded ==
    lock = None => \A l \in Libs :
        Listed(l) /\ obj[l].ref > 0 /\ obj[l].reloc \in {"ready", "done"} =>
            Range(Needs[l]) \subseteq obj[l].need

\* "Remove the DAG from all objects' DAG lists": the DAGs that a listed object
\* belongs to are those of listed objects.
DagsLive ==
    lock = None => \A l \in Libs : Listed(l) => \A m \in obj[l].dldags : Listed(m)

\* "Generation count for _rtld_objlist": an init or fini list made in the
\* current generation has no object that has been freed.
GenerationTells ==
    lock = None => \A c \in Calls : \A l \in ListOf(c) : Listed(l)

=============================================================================
