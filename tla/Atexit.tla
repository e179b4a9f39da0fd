------------------------------- MODULE Atexit -------------------------------
(***************************************************************************)
(* atexit, __cxa_atexit, __cxa_finalize and exit (libc/stdlib/atexit.c).   *)
(*                                                                         *)
(* The handlers are a linked list whose nodes are the slots of a static    *)
(* array (for atexit) or come from malloc.  __cxa_finalize calls handlers  *)
(* with the recursive __atexit_mutex held, so other threads wait, but the  *)
(* handler itself may register handlers, finalize another library (dlclose *)
(* and the dynamic linker's own handler do) or call exit: the list changes *)
(* under the walk, at any depth of nesting.  What a handler does is left   *)
(* open; that it returns is assumed by the liveness property alone.        *)
(***************************************************************************)
EXTENDS Naturals, Sequences, FiniteSets, FiniteSetsExt, SequencesExt

CONSTANTS Threads, NoThread,
          Dsos, NoDso,  \* libraries, and the null dso of atexit and exit
          NStatic,      \* NSTATIC_HANDLERS
          NHeap,        \* bound: nodes malloc can hand out
          MaxHandlers,  \* bound: registrations, also those that fail
          MaxFinalize   \* bound: calls of __cxa_finalize other than by exit

ASSUME AtexitAssumption ==
    /\ NoThread \notin Threads /\ NoDso \notin Dsos
    /\ {NStatic, NHeap, MaxHandlers, MaxFinalize} \subseteq Nat

NULL == 0
Slots == 1..NStatic
HeapNodes == (NStatic + 1)..(NStatic + NHeap)
Nodes == Slots \cup HeapNodes

\* Handlers are named by the order of their registration: a function registered
\* twice is two of them.
Handlers == 1..MaxHandlers
NoFn == 0

VARIABLES node,        \* struct atexit_handler: ah_fun, ah_dso, ah_next
          top,         \* atexit_handler_stack
          heap,        \* the malloc'ed nodes not freed
          mutex,       \* holder of __atexit_mutex
          call_depth,
          frames,      \* each thread's calls of __cxa_finalize, innermost first
          made,        \* registrations so far
          budget,      \* calls of __cxa_finalize left to the program
          exited

vars == << node, top, heap, mutex, call_depth, frames, made, budget, exited >>

Blank == [fn |-> NoFn, dso |-> NoDso, next |-> NULL]

\* A call of __cxa_finalize: prevp = NULL stands for &atexit_handler_stack,
\* another value n for &n->ah_next; p is the stack top before the handler ran.
Frame(d) == [pc |-> "scan", dso |-> d, prevp |-> NULL, ah |-> NULL, p |-> NULL,
             dead |-> {}]

Init ==
    /\ node = [n \in Nodes |-> Blank]
    /\ top = NULL /\ heap = {} /\ mutex = NoThread /\ call_depth = 0
    /\ frames = [t \in Threads |-> << >>]
    /\ made = 0 /\ budget = MaxFinalize /\ exited = FALSE

-----------------------------------------------------------------------------
In(t, pc) == ~exited /\ frames[t] # << >> /\ frames[t][1].pc = pc

\* Application code runs in t: outside any __cxa_finalize or in a handler.
InCode(t) == (~exited /\ frames[t] = << >>) \/ In(t, "call")

CanLock(t) == mutex \in {NoThread, t}

\* *prevp.
Deref(prevp) == IF prevp = NULL THEN top ELSE node[prevp].next

-----------------------------------------------------------------------------
(* Registration *)

\* The slot test without its second half.
AnyUncalled(n) == node[n].fn = NoFn

SlotFree(n) == node[n].fn = NoFn /\ node[n].next = NULL

\* Library handlers allocated from the static pool too.
StaticForAll(d) ==
    IF \E n \in Slots : SlotFree(n)
    THEN {Min({n \in Slots : SlotFree(n)})}
    ELSE {NULL} \cup {n \in HeapNodes : HeapNodes \ heap # {} /\ n = Min(HeapNodes \ heap)}

\* What the allocation may return.  malloc may fail; which free node it takes
\* makes no difference.
atexit_handler_alloc(d) ==
    IF d = NoDso /\ \E n \in Slots : SlotFree(n)
    THEN {Min({n \in Slots : SlotFree(n)})}
    ELSE {NULL} \cup {n \in HeapNodes : HeapNodes \ heap # {} /\ n = Min(HeapNodes \ heap)}

\* __cxa_atexit_internal for a new handler of library d, or of none.
Register(t, d) ==
    /\ InCode(t) /\ CanLock(t) /\ made < MaxHandlers
    /\ \E ah \in atexit_handler_alloc(d) \ {NULL} :
          /\ node' = [node EXCEPT ![ah] = [fn |-> made + 1, dso |-> d, next |-> top]]
          /\ top' = ah
          /\ heap' = heap \cup ({ah} \ Slots)
    /\ made' = made + 1
    /\ UNCHANGED << mutex, call_depth, frames, budget, exited >>

\* It returns -1 and nothing is registered.
RegisterFails(t, d) ==
    /\ InCode(t) /\ CanLock(t) /\ made < MaxHandlers
    /\ NULL \in atexit_handler_alloc(d)
    /\ made' = made + 1
    /\ UNCHANGED << node, top, heap, mutex, call_depth, frames, budget, exited >>

-----------------------------------------------------------------------------
(* __cxa_finalize *)

Begin(t, d) ==
    /\ mutex' = t
    /\ call_depth' = call_depth + 1
    /\ frames' = [frames EXCEPT ![t] = << Frame(d) >> \o @]
    /\ UNCHANGED << node, top, heap, made, exited >>

\* Called when a library is closed.
Finalize(t, d) ==
    /\ InCode(t) /\ CanLock(t) /\ budget > 0
    /\ budget' = budget - 1
    /\ Begin(t, d)

Exiting == \E t \in Threads : \E i \in DOMAIN frames[t] : frames[t][i].dso = NoDso

\* exit: __cxa_finalize(NULL).  Calling it twice is undefined.
Exit(t) ==
    /\ InCode(t) /\ CanLock(t) /\ ~Exiting
    /\ Begin(t, NoDso)
    /\ UNCHANGED budget

Goto(t, f) == frames' = [frames EXCEPT ![t][1] = f]

Chosen(d, ah) == d \in {NoDso, node[ah].dso} \/ node[ah].fn = NoFn

\* Entries are called again: ah_atexit is not cleared before the call.
ClearNone(ah) == node' = node

ClearFn(ah) == node' = [node EXCEPT ![ah].fn = NoFn]

Scanning(f) == [f EXCEPT !.pc = "scan", !.ah = NULL, !.p = NULL]

\* *prevp = ah->ah_next; a slot is free again, another node waits to be freed.
Unlink(t, f, ah) ==
    /\ top' = IF f.prevp = NULL THEN node[ah].next ELSE top
    /\ node' = [n \in Nodes |->
                  CASE n = ah -> [node[n] EXCEPT !.next = NULL]
                    [] n = f.prevp /\ n # ah -> [node[n] EXCEPT !.next = node[ah].next]
                    [] OTHER -> node[n]]
    /\ Goto(t, [Scanning(f) EXCEPT !.dead = @ \cup ({ah} \ Slots)])
    /\ UNCHANGED heap

\* The dead entry stays the current one.
StayOn(t, f, ah) == Goto(t, Scanning(f)) /\ UNCHANGED << node, top, heap >>

StepOver(t, f, ah) ==
    Goto(t, [Scanning(f) EXCEPT !.prevp = ah]) /\ UNCHANGED << node, top, heap >>

\* A dead entry is unlinked and freed at once, at any depth.
FreeAtOnce(t, f, ah) ==
    /\ top' = IF f.prevp = NULL THEN node[ah].next ELSE top
    /\ node' = [node EXCEPT ![f.prevp].next = node[ah].next]
    /\ heap' = heap \ {ah}
    /\ Goto(t, Scanning(f))

\* An entry that was called: the outermost call unlinks it, a nested one only
\* steps over it.
Retire(t, f, ah) ==
    IF call_depth = 1 THEN Unlink(t, f, ah) ELSE StepOver(t, f, ah)

\* The loop at an entry of another library.
Skip(t) ==
    LET f == frames[t][1]  ah == Deref(f.prevp) IN
    /\ In(t, "scan") /\ ah # NULL /\ ~Chosen(f.dso, ah)
    /\ Goto(t, [f EXCEPT !.prevp = ah])
    /\ UNCHANGED << node, top, heap, mutex, call_depth, made, budget, exited >>

\* The loop at an entry already called.
Sweep(t) ==
    LET f == frames[t][1]  ah == Deref(f.prevp) IN
    /\ In(t, "scan") /\ ah # NULL /\ Chosen(f.dso, ah) /\ node[ah].fn = NoFn
    /\ Retire(t, f, ah)
    /\ UNCHANGED << mutex, call_depth, made, budget, exited >>

\* The loop at an entry to call: the handler starts.
Call(t) ==
    LET f == frames[t][1]  ah == Deref(f.prevp) IN
    /\ In(t, "scan") /\ ah # NULL /\ Chosen(f.dso, ah) /\ node[ah].fn # NoFn
    /\ ClearFn(ah)
    /\ Goto(t, [f EXCEPT !.pc = "call", !.ah = ah, !.p = top])
    /\ UNCHANGED << top, heap, mutex, call_depth, made, budget, exited >>

\* The walk goes on where it was although handlers were added.
NeverAgain(t, f) == FALSE

\* Restart if new atexit handler was added.
Again(t, f) == f.p # top

HandlerReturns(t) ==
    LET f == frames[t][1] IN
    /\ In(t, "call")
    /\ IF Again(t, f)
       THEN /\ Goto(t, [Scanning(f) EXCEPT !.prevp = NULL])
            /\ UNCHANGED << node, top, heap >>
       ELSE Retire(t, f, f.ah)
    /\ UNCHANGED << mutex, call_depth, made, budget, exited >>

\* A mutex that is not recursive.
PlainMutex(t) == NoThread

\* mutex_unlock of the recursive mutex by a call of __cxa_finalize.
Released(t) == IF Len(frames[t]) = 1 THEN NoThread ELSE t

\* The end of the list.
Unlock(t) ==
    LET f == frames[t][1] IN
    /\ In(t, "scan") /\ Deref(f.prevp) = NULL
    /\ call_depth' = call_depth - 1
    /\ mutex' = Released(t)
    /\ Goto(t, [f EXCEPT !.pc = "free", !.prevp = NULL])
    /\ UNCHANGED << node, top, heap, made, budget, exited >>

\* Frees the dead entries, unless call_depth, read without the mutex, shows
\* that another call is going on; exit then ends the process.
Return(t) ==
    LET f == frames[t][1] IN
    /\ In(t, "free")
    /\ IF call_depth > 0
       THEN UNCHANGED << heap, node >>
       ELSE /\ heap' = heap \ f.dead
            /\ node' = [n \in Nodes |-> IF n \in f.dead THEN Blank ELSE node[n]]
    /\ exited' = (f.dso = NoDso)
    /\ frames' = [frames EXCEPT ![t] = Tail(@)]
    /\ UNCHANGED << top, mutex, call_depth, made, budget >>

-----------------------------------------------------------------------------
\* The process is gone.
Gone == exited /\ UNCHANGED vars

Finalizing(t) == \/ Skip(t) \/ Sweep(t) \/ Call(t) \/ HandlerReturns(t)
                 \/ Unlock(t) \/ Return(t)

Next == \/ \E t \in Threads, d \in Dsos \cup {NoDso} :
              Register(t, d) \/ RegisterFails(t, d)
        \/ \E t \in Threads, d \in Dsos : Finalize(t, d)
        \/ \E t \in Threads : Exit(t)
        \/ \E t \in Threads : Finalizing(t)
        \/ Gone

Spec == Init /\ [][Next]_vars /\ \A t \in Threads : WF_vars(Finalizing(t))

-----------------------------------------------------------------------------
(* Properties *)

\* The nodes met by following ah_next from the stack top: one more than there
\* are nodes, so that the last is NULL unless the list has a cycle.
Nth[i \in 1..(NStatic + NHeap + 1)] ==
    IF i = 1 THEN top
    ELSE IF Nth[i - 1] = NULL THEN NULL ELSE node[Nth[i - 1]].next

Linked == {Nth[i] : i \in DOMAIN Nth} \ {NULL}

Acyclic == Nth[NStatic + NHeap + 1] = NULL

\* The calls that hold the mutex: only the innermost can have released it.
Holding(fs) == IF fs # << >> /\ fs[1].pc = "free" THEN Tail(fs) ELSE fs

\* The finalizations that hold the mutex, innermost first.
ActiveDsos ==
    IF mutex = NoThread THEN << >>
    ELSE LET held == Holding(frames[mutex]) IN [i \in DOMAIN held |-> held[i].dso]

FrameOK(f) ==
    /\ f.pc \in {"scan", "call", "free"} /\ f.dso \in Dsos \cup {NoDso}
    /\ {f.prevp, f.ah, f.p} \subseteq Nodes \cup {NULL}
    /\ f.dead \subseteq HeapNodes

\* Types; call_depth counts the finalizations that hold the mutex, and all but
\* the innermost of a thread wait for a handler (__cxa_finalize).
TypeOK ==
    /\ node \in [Nodes -> [fn : Handlers \cup {NoFn}, dso : Dsos \cup {NoDso},
                           next : Nodes \cup {NULL}]]
    /\ top \in Nodes \cup {NULL} /\ heap \subseteq HeapNodes
    /\ mutex \in Threads \cup {NoThread}
    /\ made \in 0..MaxHandlers /\ budget \in Nat /\ exited \in BOOLEAN
    /\ \A t \in Threads : \A i \in DOMAIN frames[t] :
          FrameOK(frames[t][i]) /\ (i > 1 => frames[t][i].pc = "call")
    /\ call_depth = Len(ActiveDsos)
    /\ \A t \in Threads \ {mutex} : Len(frames[t]) <= 1

\* No entry that is linked, waits to be freed, or is in use by a walk that a
\* handler interrupted has been freed (atexit.c:229-255).
NoUseAfterFree ==
    /\ Linked \subseteq Slots \cup heap
    /\ \A t \in Threads : \A i \in DOMAIN frames[t] :
          LET f == frames[t][i] IN
          ({f.prevp, f.ah} \cup f.dead) \ {NULL} \subseteq Slots \cup heap

\* The list can only become cyclic while exit runs handlers: a slot that is
\* linked is taken for a free one ("Slot is free", atexit.c:100) only when it is
\* the last and its handler is running, and no handler of a library is in a slot.
CyclicOnlyAtExit == Acyclic \/ Exiting \/ exited

\* Every call of __cxa_finalize returns if the handlers do, unless the list has
\* become cyclic (atexit.c:210-241; "goto again" may restart the walk).
FinalizeReturns ==
    \A t \in Threads : []<>(frames[t] = << >> \/ exited \/ ~Acyclic)

\* What a node contributes to the entries not yet called.
Uncalled(n) ==
    IF node[n].fn = NoFn THEN << >>
    ELSE << [fn |-> node[n].fn, dso |-> node[n].dso] >>

\* The entries not yet called among the first i nodes, in list order.
FirstPending[i \in 0..(NStatic + NHeap)] ==
    IF i = 0 THEN << >> ELSE FirstPending[i - 1] \o Uncalled(Nth[i])

PendingEntries == FirstPending[Cardinality(Linked)]

EH == INSTANCE ExitHandlers WITH pending <- PendingEntries, active <- ActiveDsos

\* Handlers are called newest first, each once, none is lost, and a
\* finalization returns only when no handler it should call is left, whatever
\* the handlers register or finalize ("Handlers must be called in the opposite
\* order they were registered", atexit.c:71): every step is one the abstract
\* specification allows.  Steps from a cyclic list are excepted; there the
\* restart test (p != atexit_handler_stack) can miss a new handler.
CallsInOrder == EH!Init /\ [][Acyclic => EH!Next]_(EH!vars)
=============================================================================
