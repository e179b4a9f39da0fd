---------------------------- MODULE AtexitProofs ----------------------------
(***************************************************************************)
(* Proofs about Atexit for any number of threads, libraries, slots, nodes  *)
(* and handlers.  The inductive invariant IInv speaks of the nodes that    *)
(* are not freed (Live) and of where their pointers lead.  That Atexit     *)
(* implements ExitHandlers is shown in the second half: there the list is  *)
(* a sequence s of n nodes (ListIs), whose last may lead back into it, and *)
(* each walk has passed a known number of them (WalkOrder).                *)
(***************************************************************************)
EXTENDS Atexit, SequenceTheorems, FiniteSetTheorems, WellFoundedInduction, TLAPS

AllDsos == Dsos \cup {NoDso}
Entry == [fn : Handlers \cup {NoFn}, dso : AllDsos, next : Nodes \cup {NULL}]
Call1 == [pc : {"scan", "call", "free"}, dso : AllDsos, prevp : Nodes \cup {NULL},
          ah : Nodes \cup {NULL}, p : Nodes \cup {NULL}, dead : SUBSET HeapNodes]

Live == Slots \cup heap

Types ==
    /\ node \in [Nodes -> Entry] /\ top \in Nodes \cup {NULL} /\ heap \subseteq HeapNodes
    /\ mutex \in Threads \cup {NoThread} /\ call_depth \in Nat
    /\ frames \in [Threads -> Seq(Call1)]
    /\ made \in 0..MaxHandlers /\ budget \in Nat /\ exited \in BOOLEAN

\* Who holds the mutex, and how deep the calls of __cxa_finalize are nested.
Nesting ==
    /\ \A t \in Threads : \A i \in DOMAIN frames[t] : i > 1 => frames[t][i].pc = "call"
    /\ \A t \in Threads : mutex = t <=> Holding(frames[t]) # << >>
    /\ mutex = NoThread => call_depth = 0
    /\ \A t \in Threads : mutex = t => call_depth = Len(Holding(frames[t]))

\* Pointers lead to nodes that are not freed, and a heap node has one predecessor.
Pointers ==
    /\ top \in Live \cup {NULL}
    /\ \A n \in Live : node[n].next \in Live \cup {NULL}
    /\ \A m, n \in Live : node[m].next \in HeapNodes /\ node[m].next = node[n].next => m = n
    /\ top \in HeapNodes => \A m \in Live : node[m].next # top

\* The entries that wait to be freed are off the list, and lead nowhere.
DeadOK(n) ==
    n \in heap /\ n # top /\ node[n].next = NULL /\ \A m \in Live : node[m].next # n

DeadOnes ==
    /\ \A t \in Threads : \A i \in DOMAIN frames[t] :
          /\ i < Len(frames[t]) => frames[t][i].dead = {}
          /\ \A n \in frames[t][i].dead : DeadOK(n)
    /\ \A t, u \in Threads : \A i \in DOMAIN frames[t], k \in DOMAIN frames[u] :
          t # u => frames[t][i].dead \cap frames[u][k].dead = {}

\* The walks: the entry of a handler that the outermost call runs still follows
\* the entry the walk came from.
WalkOK(fr, outermost) ==
    /\ fr.prevp \in Live \cup {NULL} /\ fr.ah \in Live \cup {NULL}
    /\ fr.pc = "free" => fr.prevp = NULL
    /\ fr.pc # "call" => fr.ah = NULL
    /\ fr.pc = "call" => fr.ah # NULL
    /\ fr.pc = "call" /\ outermost /\ fr.prevp = NULL => fr.p = fr.ah
    /\ fr.pc = "call" /\ outermost /\ fr.prevp # NULL => node[fr.prevp].next = fr.ah

Walks ==
    \A t \in Threads : \A i \in DOMAIN frames[t] :
       WalkOK(frames[t][i], i = Len(frames[t]))

\* Before exit no slot has been called, and ah_next has no cycle.
Quiet == ~Exiting /\ ~exited

SlotsOK ==
    /\ \A n \in Slots : node[n].dso = NoDso
    /\ Quiet => \A n \in Slots :
          node[n].fn = NoFn => n # top /\ \A m \in Live : node[m].next # n

NoCycle ==
    Quiet => \A C \in SUBSET Live : C # {} => \E n \in C : node[n].next \notin C

IInv == Types /\ Nesting /\ Pointers /\ DeadOnes /\ Walks /\ SlotsOK /\ NoCycle

-----------------------------------------------------------------------------
(* Constants and frames *)

\* A node is a slot or a heap node, never both, and never NULL.
LEMMA NodeFacts ==
    /\ Slots \cap HeapNodes = {} /\ NULL \notin Nodes /\ Slots \subseteq Nodes
    /\ HeapNodes \subseteq Nodes /\ Nodes \subseteq Nat /\ Nodes = Slots \cup HeapNodes
BY AtexitAssumption DEF Slots, HeapNodes, Nodes, NULL

\* What is not freed is a node.
LEMMA LiveNodes ==
    ASSUME Types PROVE Live \subseteq Nodes /\ NULL \notin Live
BY NodeFacts DEF Types, Live

\* A step of the innermost call of __cxa_finalize of thread t.
LEMMA GotoFacts ==
    ASSUME frames \in [Threads -> Seq(Call1)], NEW t \in Threads, frames[t] # << >>,
           NEW g \in Call1, Goto(t, g)
    PROVE  /\ frames' \in [Threads -> Seq(Call1)]
           /\ frames'[t] # << >> /\ Len(frames'[t]) = Len(frames[t])
           /\ DOMAIN frames'[t] = DOMAIN frames[t]
           /\ frames'[t][1] = g
           /\ \A i \in DOMAIN frames[t] : i # 1 => frames'[t][i] = frames[t][i]
           /\ \A u \in Threads : u # t => frames'[u] = frames[u]
<1> DEFINE s == frames[t]  r == [s EXCEPT ![1] = g]
<1>1. s \in Seq(Call1) /\ s # << >>
    OBVIOUS
<1>2. frames' = [frames EXCEPT ![t] = r]
    BY DEF Goto
<1>3. frames'[t] = r /\ \A u \in Threads : u # t => frames'[u] = frames[u]
    BY <1>2
<1>4. r \in Seq(Call1) /\ Len(r) = Len(s) /\ DOMAIN r = DOMAIN s /\ r # << >>
      /\ r[1] = g /\ \A i \in DOMAIN s : i # 1 => r[i] = s[i]
    BY <1>1
<1>5. frames' \in [Threads -> Seq(Call1)]
    BY <1>2, <1>4
<1> QED
    BY <1>3, <1>4, <1>5

\* A new call of __cxa_finalize.
LEMMA PushFacts ==
    ASSUME frames \in [Threads -> Seq(Call1)], NEW t \in Threads, NEW g \in Call1,
           frames' = [frames EXCEPT ![t] = << g >> \o @]
    PROVE  /\ frames' \in [Threads -> Seq(Call1)]
           /\ frames'[t] # << >> /\ Len(frames'[t]) = Len(frames[t]) + 1
           /\ DOMAIN frames'[t] = 1..(Len(frames[t]) + 1)
           /\ frames'[t][1] = g
           /\ \A i \in DOMAIN frames'[t] : i # 1 =>
                 i - 1 \in DOMAIN frames[t] /\ frames'[t][i] = frames[t][i - 1]
           /\ \A u \in Threads : u # t => frames'[u] = frames[u]
<1> DEFINE s == frames[t]  r == << g >> \o s
<1>1. s \in Seq(Call1)
    OBVIOUS
<1>3. frames'[t] = r /\ \A u \in Threads : u # t => frames'[u] = frames[u]
    OBVIOUS
<1>4. r \in Seq(Call1) /\ Len(r) = Len(s) + 1 /\ DOMAIN r = 1..(Len(s) + 1) /\ r # << >>
      /\ r[1] = g
      /\ \A i \in DOMAIN r : i # 1 => i - 1 \in DOMAIN s /\ r[i] = s[i - 1]
    BY <1>1
<1>5. frames' \in [Threads -> Seq(Call1)]
    BY <1>4
<1> QED
    BY <1>3, <1>4, <1>5

\* The innermost call returns.
LEMMA PopFacts ==
    ASSUME frames \in [Threads -> Seq(Call1)], NEW t \in Threads, frames[t] # << >>,
           frames' = [frames EXCEPT ![t] = Tail(@)]
    PROVE  /\ frames' \in [Threads -> Seq(Call1)]
           /\ frames'[t] = Tail(frames[t])
           /\ Len(frames'[t]) = Len(frames[t]) - 1
           /\ DOMAIN frames'[t] = 1..(Len(frames[t]) - 1)
           /\ \A i \in DOMAIN frames'[t] :
                 i + 1 \in DOMAIN frames[t] /\ frames'[t][i] = frames[t][i + 1]
           /\ \A u \in Threads : u # t => frames'[u] = frames[u]
<1> DEFINE s == frames[t]  r == Tail(s)
<1>1. s \in Seq(Call1) /\ s # << >>
    OBVIOUS
<1>3. frames'[t] = r /\ \A u \in Threads : u # t => frames'[u] = frames[u]
    OBVIOUS
<1>4. r \in Seq(Call1) /\ Len(r) = Len(s) - 1 /\ DOMAIN r = 1..(Len(s) - 1)
      /\ \A i \in DOMAIN r : i + 1 \in DOMAIN s /\ r[i] = s[i + 1]
    BY <1>1
<1>5. frames' \in [Threads -> Seq(Call1)]
    BY <1>4
<1> QED
    BY <1>3, <1>4, <1>5

\* The calls that hold the mutex are all but an innermost one that released it.
LEMMA HoldingFacts ==
    ASSUME NEW s \in Seq(Call1)
    PROVE  /\ s = << >> => Holding(s) = << >> /\ Len(Holding(s)) = 0
           /\ s # << >> => 1 \in DOMAIN s /\ s[1] \in Call1 /\ Len(s) \in Nat /\ Len(s) >= 1
           /\ s # << >> /\ s[1].pc # "free" => Holding(s) = s
           /\ s # << >> /\ s[1].pc = "free" =>
                 Holding(s) = Tail(s) /\ Len(Holding(s)) = Len(s) - 1
                 /\ (Holding(s) = << >> <=> Len(s) = 1)
           /\ Len(Holding(s)) \in Nat /\ Len(s) \in Nat
           /\ (Holding(s) = << >> <=> Len(Holding(s)) = 0)
           /\ DOMAIN s = 1..Len(s)
<1>1. CASE s = << >>
    BY <1>1 DEF Holding
<1>2. CASE s # << >> /\ s[1].pc # "free"
    BY <1>2 DEF Holding
<1>3. CASE s # << >> /\ s[1].pc = "free"
    <2>1. Holding(s) = Tail(s)
        BY <1>3 DEF Holding
    <2>2. Tail(s) \in Seq(Call1) /\ Len(Tail(s)) = Len(s) - 1 /\ Len(s) \in Nat /\ Len(s) >= 1
        BY <1>3
    <2>3. Tail(s) = << >> <=> Len(Tail(s)) = 0
        BY <2>2
    <2> QED
        BY <1>3, <2>1, <2>2, <2>3
<1> QED
    BY <1>1, <1>2, <1>3

-----------------------------------------------------------------------------
(* The mutex *)

\* A thread without the mutex is in no call, or in one that released it.
LEMMA Others ==
    ASSUME Types, Nesting, NEW u \in Threads, mutex # u
    PROVE  frames[u] = << >> \/ (Len(frames[u]) = 1 /\ frames[u][1].pc = "free")
<1>1. frames[u] \in Seq(Call1)
    BY DEF Types
<1>2. Holding(frames[u]) = << >>
    BY DEF Nesting
<1> QED
    BY <1>1, <1>2, HoldingFacts

\* The thread whose walk goes on holds the mutex; call_depth is its nesting.
LEMMA Holder ==
    ASSUME Types, Nesting, NEW t \in Threads, frames[t] # << >>, frames[t][1].pc # "free"
    PROVE  mutex = t /\ call_depth = Len(frames[t]) /\ Holding(frames[t]) = frames[t]
<1>1. frames[t] \in Seq(Call1)
    BY DEF Types
<1>2. Holding(frames[t]) = frames[t]
    BY <1>1, HoldingFacts
<1> QED
    BY <1>2 DEF Nesting

\* Application code that can take the mutex: the nesting is call_depth.
LEMMA Outside ==
    ASSUME Types, Nesting, NEW t \in Threads, InCode(t), CanLock(t)
    PROVE  /\ call_depth = Len(frames[t])
           /\ frames[t] # << >> => frames[t][1].pc = "call"
           /\ \A u \in Threads : u # t => mutex # u
<1>1. frames[t] \in Seq(Call1) /\ NoThread \notin Threads
    BY AtexitAssumption DEF Types
<1>2. frames[t] # << >> => frames[t][1].pc = "call"
    BY DEF InCode, In
<1>3. Holding(frames[t]) = frames[t]
    BY <1>1, <1>2, HoldingFacts
<1>4. CASE mutex = t
    BY <1>1, <1>2, <1>3, <1>4 DEF Nesting
<1>5. CASE mutex = NoThread
    <2>1. Holding(frames[t]) = << >>
        BY <1>1, <1>5 DEF Nesting
    <2>2. Len(frames[t]) = 0
        BY <2>1, <1>1, <1>3, HoldingFacts
    <2> QED
        BY <1>1, <1>2, <2>2, <1>5 DEF Nesting
<1> QED
    BY <1>4, <1>5 DEF CanLock

\* The walk of t goes on.
LEMMA NestingGoto ==
    ASSUME Types, Nesting, NEW t \in Threads, frames[t] # << >>, frames[t][1].pc # "free",
           NEW g \in Call1, g.pc # "free", Goto(t, g), mutex' = mutex,
           call_depth' = call_depth
    PROVE  Nesting'
<1>1. frames \in [Threads -> Seq(Call1)]
    BY DEF Types
<1>2. /\ frames' \in [Threads -> Seq(Call1)]
      /\ frames'[t] # << >> /\ Len(frames'[t]) = Len(frames[t])
      /\ DOMAIN frames'[t] = DOMAIN frames[t]
      /\ frames'[t][1] = g
      /\ \A i \in DOMAIN frames[t] : i # 1 => frames'[t][i] = frames[t][i]
      /\ \A u \in Threads : u # t => frames'[u] = frames[u]
    BY <1>1, GotoFacts
<1>3. mutex = t /\ call_depth = Len(frames[t])
    BY Holder
<1>4. Holding(frames'[t]) = frames'[t]
    BY <1>2, HoldingFacts
<1>5. \A u \in Threads : \A i \in DOMAIN frames'[u] : i > 1 => frames'[u][i].pc = "call"
    <2> SUFFICES ASSUME NEW u \in Threads, NEW i \in DOMAIN frames'[u], i > 1
                 PROVE  frames'[u][i].pc = "call"
        OBVIOUS
    <2>1. CASE u = t
        BY <2>1, <1>2 DEF Nesting
    <2>2. CASE u # t
        BY <2>2, <1>2 DEF Nesting
    <2> QED
        BY <2>1, <2>2
<1>6. \A u \in Threads : mutex' = u <=> Holding(frames'[u]) # << >>
    BY <1>2, <1>3, <1>4 DEF Nesting
<1>7. t # NoThread
    BY AtexitAssumption
<1> QED
    BY <1>2, <1>3, <1>4, <1>5, <1>6, <1>7 DEF Nesting

\* The walk of t ends: it releases the mutex, or gives it back to the call that
\* runs the handler it was called from.
LEMMA NestingUnlock ==
    ASSUME Types, Nesting, NEW t \in Threads, frames[t] # << >>, frames[t][1].pc # "free",
           NEW g \in Call1, g.pc = "free", Goto(t, g), mutex' = Released(t),
           call_depth' = call_depth - 1
    PROVE  Nesting' /\ call_depth' \in Nat
<1>1. frames \in [Threads -> Seq(Call1)]
    BY DEF Types
<1>2. /\ frames' \in [Threads -> Seq(Call1)]
      /\ frames'[t] # << >> /\ Len(frames'[t]) = Len(frames[t])
      /\ DOMAIN frames'[t] = DOMAIN frames[t]
      /\ frames'[t][1] = g
      /\ \A i \in DOMAIN frames[t] : i # 1 => frames'[t][i] = frames[t][i]
      /\ \A u \in Threads : u # t => frames'[u] = frames[u]
    BY <1>1, GotoFacts
<1>3. mutex = t /\ call_depth = Len(frames[t]) /\ t # NoThread
    BY Holder, AtexitAssumption
<1>4. /\ Len(Holding(frames'[t])) = Len(frames[t]) - 1
      /\ (Holding(frames'[t]) = << >> <=> Len(frames[t]) = 1)
      /\ Len(frames[t]) \in Nat /\ Len(frames[t]) >= 1
    BY <1>1, <1>2, HoldingFacts
<1>5. \A u \in Threads : \A i \in DOMAIN frames'[u] : i > 1 => frames'[u][i].pc = "call"
    <2> SUFFICES ASSUME NEW u \in Threads, NEW i \in DOMAIN frames'[u], i > 1
                 PROVE  frames'[u][i].pc = "call"
        OBVIOUS
    <2>1. CASE u = t
        BY <2>1, <1>2 DEF Nesting
    <2>2. CASE u # t
        BY <2>2, <1>2 DEF Nesting
    <2> QED
        BY <2>1, <2>2
<1>6. \A u \in Threads : u # t => Holding(frames'[u]) = << >> /\ u # NoThread
    BY <1>2, <1>3, AtexitAssumption DEF Nesting
<1>7. CASE Len(frames[t]) = 1
    <2>1. mutex' = NoThread /\ call_depth' = 0 /\ Holding(frames'[t]) = << >>
        BY <1>3, <1>4, <1>7 DEF Released
    <2> QED
        BY <2>1, <1>3, <1>5, <1>6 DEF Nesting
<1>8. CASE Len(frames[t]) # 1
    <2>1. mutex' = t /\ call_depth' = Len(Holding(frames'[t])) /\ Holding(frames'[t]) # << >>
          /\ call_depth' \in Nat
        BY <1>3, <1>4, <1>8 DEF Released
    <2> QED
        BY <2>1, <1>3, <1>5, <1>6 DEF Nesting
<1> QED
    BY <1>7, <1>8

\* A call of __cxa_finalize takes the mutex.
LEMMA NestingBegin ==
    ASSUME Types, Nesting, NEW t \in Threads, InCode(t), CanLock(t), NEW g \in Call1,
           g.pc = "scan", frames' = [frames EXCEPT ![t] = << g >> \o @], mutex' = t,
           call_depth' = call_depth + 1
    PROVE  Nesting'
<1>1. frames \in [Threads -> Seq(Call1)]
    BY DEF Types
<1>2. /\ frames' \in [Threads -> Seq(Call1)]
      /\ frames'[t] # << >> /\ Len(frames'[t]) = Len(frames[t]) + 1
      /\ DOMAIN frames'[t] = 1..(Len(frames[t]) + 1)
      /\ frames'[t][1] = g
      /\ \A i \in DOMAIN frames'[t] : i # 1 =>
            i - 1 \in DOMAIN frames[t] /\ frames'[t][i] = frames[t][i - 1]
      /\ \A u \in Threads : u # t => frames'[u] = frames[u]
    BY <1>1, PushFacts
<1>3. /\ call_depth = Len(frames[t])
      /\ frames[t] # << >> => frames[t][1].pc = "call"
      /\ \A u \in Threads : u # t => mutex # u
    BY Outside
<1>4. Holding(frames'[t]) = frames'[t] /\ t # NoThread
    BY <1>2, HoldingFacts, AtexitAssumption
<1>5. \A u \in Threads : \A i \in DOMAIN frames'[u] : i > 1 => frames'[u][i].pc = "call"
    <2> SUFFICES ASSUME NEW u \in Threads, NEW i \in DOMAIN frames'[u], i > 1
                 PROVE  frames'[u][i].pc = "call"
        OBVIOUS
    <2>1. CASE u = t
        <3>1. i \in Nat /\ i - 1 \in DOMAIN frames[t] /\ frames'[t][i] = frames[t][i - 1]
            BY <2>1, <1>2
        <3>2. CASE i - 1 = 1
            <4>1. frames[t] # << >>
                BY <3>1, <1>1
            <4> QED
                BY <2>1, <3>1, <3>2, <4>1, <1>3
        <3>3. CASE i - 1 # 1
            BY <2>1, <3>1, <3>3 DEF Nesting
        <3> QED
            BY <3>2, <3>3
    <2>2. CASE u # t
        BY <2>2, <1>2 DEF Nesting
    <2> QED
        BY <2>1, <2>2
<1>6. \A u \in Threads : u # t => Holding(frames'[u]) = << >>
    BY <1>2, <1>3 DEF Nesting
<1> QED
    BY <1>2, <1>3, <1>4, <1>5, <1>6 DEF Nesting

\* A call that released the mutex returns.
LEMMA NestingReturn ==
    ASSUME Types, Nesting, NEW t \in Threads, frames[t] # << >>, frames[t][1].pc = "free",
           frames' = [frames EXCEPT ![t] = Tail(@)], mutex' = mutex,
           call_depth' = call_depth
    PROVE  Nesting'
<1>1. frames \in [Threads -> Seq(Call1)]
    BY DEF Types
<1>2. /\ frames' \in [Threads -> Seq(Call1)]
      /\ frames'[t] = Tail(frames[t])
      /\ Len(frames'[t]) = Len(frames[t]) - 1
      /\ DOMAIN frames'[t] = 1..(Len(frames[t]) - 1)
      /\ \A i \in DOMAIN frames'[t] :
            i + 1 \in DOMAIN frames[t] /\ frames'[t][i] = frames[t][i + 1]
      /\ \A u \in Threads : u # t => frames'[u] = frames[u]
    BY <1>1, PopFacts
<1>3. Holding(frames[t]) = Tail(frames[t])
    BY <1>1, HoldingFacts
<1>4. \A i \in DOMAIN frames'[t] : i \in Nat /\ i >= 1 /\ frames'[t][i].pc = "call"
    <2> SUFFICES ASSUME NEW i \in DOMAIN frames'[t]
                 PROVE  i \in Nat /\ i >= 1 /\ frames'[t][i].pc = "call"
        OBVIOUS
    <2>1. i \in Nat /\ i >= 1 /\ i + 1 > 1
        BY <1>2
    <2> QED
        BY <2>1, <1>2 DEF Nesting
<1>5. Holding(frames'[t]) = Holding(frames[t])
    <2>1. CASE frames'[t] = << >>
        BY <2>1, <1>2, <1>3, HoldingFacts
    <2>2. CASE frames'[t] # << >>
        <3>1. frames'[t][1].pc = "call"
            BY <2>2, <1>2, <1>4, HoldingFacts
        <3> QED
            BY <2>2, <3>1, <1>2, <1>3, HoldingFacts
    <2> QED
        BY <2>1, <2>2
<1>6. \A u \in Threads : Holding(frames'[u]) = Holding(frames[u])
    BY <1>2, <1>5
<1>7. \A u \in Threads : \A i \in DOMAIN frames'[u] : i > 1 => frames'[u][i].pc = "call"
    BY <1>2, <1>4 DEF Nesting
<1> QED
    BY <1>6, <1>7 DEF Nesting

-----------------------------------------------------------------------------
(* Steps that leave the list as it is *)

ListSame == top' = top /\ heap' = heap /\ \A n \in Live : node'[n].next = node[n].next

\* Slots hold the handlers of no library, and before exit keep them.
SlotsSame == \A n \in Slots : node'[n].dso = node[n].dso /\ (Quiet => node'[n].fn = node[n].fn)

\* The list and the entries waiting to be freed.
LEMMA ListSameKeeps ==
    ASSUME ListSame
    PROVE  /\ Live' = Live /\ (Pointers => Pointers')
           /\ \A n : DeadOK(n) => DeadOK(n)'
           /\ \A fr, b : WalkOK(fr, b) => WalkOK(fr, b)'
<1>1. Live' = Live
    BY DEF ListSame, Live
<1>2. Pointers => Pointers'
    BY <1>1 DEF ListSame, Pointers
<1>3. ASSUME NEW n, DeadOK(n) PROVE DeadOK(n)'
    <2>1. n \in Live
        BY <1>3 DEF DeadOK, Live
    <2> QED
        BY <1>1, <1>3, <2>1 DEF ListSame, DeadOK
<1>4. ASSUME NEW fr, NEW b, WalkOK(fr, b) PROVE WalkOK(fr, b)'
    <2>1. fr.prevp # NULL => node'[fr.prevp].next = node[fr.prevp].next
        BY <1>4 DEF WalkOK, ListSame
    <2> QED
        BY <1>1, <1>4, <2>1 DEF WalkOK
<1> QED
    BY <1>1, <1>2, <1>3, <1>4

\* No cycle is made by a step that leaves the list as it is.
LEMMA ListSameNoCycle ==
    ASSUME ListSame, NoCycle, Quiet' => Quiet
    PROVE  NoCycle'
<1>1. Live' = Live
    BY ListSameKeeps
<1> SUFFICES ASSUME Quiet', NEW C \in SUBSET Live, C # {}
             PROVE  \E n \in C : node'[n].next \notin C
    BY <1>1 DEF NoCycle
<1>2. PICK n \in C : node[n].next \notin C
    BY DEF NoCycle
<1> QED
    BY <1>2 DEF ListSame

\* Slots stay free of library handlers and, if they were called, off the list.
LEMMA ListSameSlots ==
    ASSUME ListSame, SlotsSame, SlotsOK, Quiet' => Quiet
    PROVE  SlotsOK'
<1>1. Live' = Live
    BY ListSameKeeps
<1>2. \A n \in Slots : node'[n].dso = NoDso
    BY DEF SlotsOK, SlotsSame
<1>3. ASSUME Quiet', NEW n \in Slots, node'[n].fn = NoFn
      PROVE  n # top' /\ \A m \in Live' : node'[m].next # n
    <2>1. node[n].fn = NoFn
        BY <1>3 DEF SlotsSame
    <2> QED
        BY <1>1, <1>3, <2>1 DEF SlotsOK, ListSame
<1> QED
    BY <1>2, <1>3 DEF SlotsOK

\* A call of __cxa_finalize that goes on is still for the same library.
LEMMA GotoQuiet ==
    ASSUME Types, NEW t \in Threads, frames[t] # << >>, NEW g \in Call1, Goto(t, g),
           g.dso = frames[t][1].dso, exited' = exited
    PROVE  Quiet' <=> Quiet
<1>1. frames \in [Threads -> Seq(Call1)]
    BY DEF Types
<1>2. /\ frames' \in [Threads -> Seq(Call1)]
      /\ DOMAIN frames'[t] = DOMAIN frames[t]
      /\ frames'[t][1] = g
      /\ \A i \in DOMAIN frames[t] : i # 1 => frames'[t][i] = frames[t][i]
      /\ \A u \in Threads : u # t => frames'[u] = frames[u]
    BY <1>1, GotoFacts
<1>3. \A u \in Threads : DOMAIN frames'[u] = DOMAIN frames[u]
    BY <1>2
<1>4. \A u \in Threads : \A i \in DOMAIN frames[u] : frames'[u][i].dso = frames[u][i].dso
    BY <1>2
<1>5. Exiting' <=> Exiting
    BY <1>3, <1>4 DEF Exiting
<1> QED
    BY <1>5 DEF Quiet

\* The entries waiting to be freed, when a walk goes on.
LEMMA GotoDead ==
    ASSUME Types, DeadOnes, NEW t \in Threads, frames[t] # << >>, NEW g \in Call1,
           Goto(t, g), g.dead = frames[t][1].dead, \A n : DeadOK(n) => DeadOK(n)'
    PROVE  DeadOnes'
<1>1. frames \in [Threads -> Seq(Call1)]
    BY DEF Types
<1>2. /\ frames' \in [Threads -> Seq(Call1)]
      /\ Len(frames'[t]) = Len(frames[t])
      /\ DOMAIN frames'[t] = DOMAIN frames[t]
      /\ frames'[t][1] = g
      /\ \A i \in DOMAIN frames[t] : i # 1 => frames'[t][i] = frames[t][i]
      /\ \A u \in Threads : u # t => frames'[u] = frames[u]
    BY <1>1, GotoFacts
<1>3. \A u \in Threads : DOMAIN frames'[u] = DOMAIN frames[u] /\ Len(frames'[u]) = Len(frames[u])
    BY <1>2
<1>4. \A u \in Threads : \A i \in DOMAIN frames[u] : frames'[u][i].dead = frames[u][i].dead
    BY <1>2
<1>5. ASSUME NEW u \in Threads, NEW i \in DOMAIN frames'[u]
      PROVE  /\ i < Len(frames'[u]) => frames'[u][i].dead = {}
             /\ \A n \in frames'[u][i].dead : DeadOK(n)'
    BY <1>3, <1>4 DEF DeadOnes
<1>6. \A u, v \in Threads : \A i \in DOMAIN frames'[u], k \in DOMAIN frames'[v] :
          u # v => frames'[u][i].dead \cap frames'[v][k].dead = {}
    BY <1>3, <1>4 DEF DeadOnes
<1> QED
    BY <1>5, <1>6 DEF DeadOnes

\* The walks, when one of them goes on.
LEMMA GotoWalks ==
    ASSUME Types, Walks, NEW t \in Threads, frames[t] # << >>, NEW g \in Call1,
           Goto(t, g), WalkOK(g, 1 = Len(frames[t]))',
           \A fr, b : WalkOK(fr, b) => WalkOK(fr, b)'
    PROVE  Walks'
<1>1. frames \in [Threads -> Seq(Call1)]
    BY DEF Types
<1>2. /\ frames' \in [Threads -> Seq(Call1)]
      /\ Len(frames'[t]) = Len(frames[t])
      /\ DOMAIN frames'[t] = DOMAIN frames[t]
      /\ frames'[t][1] = g
      /\ \A i \in DOMAIN frames[t] : i # 1 => frames'[t][i] = frames[t][i]
      /\ \A u \in Threads : u # t => frames'[u] = frames[u]
    BY <1>1, GotoFacts
<1> SUFFICES ASSUME NEW u \in Threads, NEW i \in DOMAIN frames'[u]
             PROVE  WalkOK(frames[u][i], i = Len(frames[u]))'
    BY DEF Walks
<1>3. CASE u = t /\ i = 1
    BY <1>2, <1>3
<1>4. CASE ~(u = t /\ i = 1)
    <2>1. i \in DOMAIN frames[u] /\ frames'[u][i] = frames[u][i]
          /\ Len(frames'[u]) = Len(frames[u])
        BY <1>2, <1>4
    <2>2. WalkOK(frames[u][i], i = Len(frames[u]))
        BY <2>1 DEF Walks
    <2> DEFINE fr == frames[u][i]  b == (i = Len(frames[u]))
    <2>3. fr' = fr /\ b' = b
        BY <2>1
    <2> HIDE DEF fr, b
    <2>4. WalkOK(fr, b)
        BY <2>2 DEF fr, b
    <2> QED
        BY <2>3, <2>4 DEF fr, b, WalkOK
<1> QED
    BY <1>3, <1>4

\* A walk goes on and the list stays as it is.
LEMMA GotoStep ==
    ASSUME IInv, NEW t \in Threads, frames[t] # << >>, NEW g \in Call1, Goto(t, g),
           g.dso = frames[t][1].dso, g.dead = frames[t][1].dead, exited' = exited,
           ListSame, SlotsSame, Types', Nesting', WalkOK(g, 1 = Len(frames[t]))'
    PROVE  IInv'
<1>1. Types /\ Pointers /\ DeadOnes /\ Walks /\ SlotsOK /\ NoCycle
    BY DEF IInv
<1>2. /\ Pointers'
      /\ \A n : DeadOK(n) => DeadOK(n)'
      /\ \A fr, b : WalkOK(fr, b) => WalkOK(fr, b)'
    BY <1>1, ListSameKeeps
<1>3. Quiet' <=> Quiet
    BY <1>1, GotoQuiet
<1>4. DeadOnes'
    BY <1>1, <1>2, GotoDead
<1>5. Walks'
    BY <1>1, <1>2, GotoWalks
<1>6. SlotsOK' /\ NoCycle'
    BY <1>1, <1>3, ListSameSlots, ListSameNoCycle
<1> QED
    BY <1>2, <1>4, <1>5, <1>6 DEF IInv

\* The entry a walk is at.
LEMMA DerefFacts ==
    ASSUME IInv, NEW fr \in Call1, NEW b, WalkOK(fr, b)
    PROVE  Deref(fr.prevp) \in Live \cup {NULL} /\ Deref(fr.prevp) \in Nodes \cup {NULL}
<1>1. Types /\ Pointers
    BY DEF IInv
<1>2. Live \subseteq Nodes
    BY <1>1, LiveNodes
<1>3. fr.prevp \in Live \cup {NULL}
    BY DEF WalkOK
<1>4. CASE fr.prevp = NULL
    BY <1>1, <1>2, <1>4 DEF Deref, Pointers
<1>5. CASE fr.prevp # NULL
    BY <1>1, <1>2, <1>3, <1>5 DEF Deref, Pointers
<1> QED
    BY <1>4, <1>5

\* The innermost call of a thread.
LEMMA Innermost ==
    ASSUME IInv, NEW t \in Threads, frames[t] # << >>
    PROVE  /\ frames[t][1] \in Call1 /\ WalkOK(frames[t][1], 1 = Len(frames[t]))
           /\ 1 \in DOMAIN frames[t] /\ frames[t] \in Seq(Call1)
           /\ Deref(frames[t][1].prevp) \in Live \cup {NULL}
           /\ Deref(frames[t][1].prevp) \in Nodes \cup {NULL}
<1>1. frames[t] \in Seq(Call1)
    BY DEF IInv, Types
<1>2. frames[t][1] \in Call1 /\ 1 \in DOMAIN frames[t]
    BY <1>1, HoldingFacts
<1>3. WalkOK(frames[t][1], 1 = Len(frames[t]))
    BY <1>2 DEF IInv, Walks
<1> QED
    BY <1>1, <1>2, <1>3, DerefFacts

\* The walk of t is at an entry.
LEMMA AtEntry ==
    ASSUME IInv, NEW t \in Threads, frames[t] # << >>, frames[t][1].pc # "free",
           Deref(frames[t][1].prevp) # NULL
    PROVE  \E f \in Call1, ah \in Live :
              /\ f = frames[t][1] /\ ah = Deref(f.prevp) /\ ah \in Nodes
              /\ WalkOK(f, 1 = Len(frames[t]))
BY Innermost

\* The walk passes an entry of another library.
LEMMA SkipStep ==
    ASSUME IInv, NEW t \in Threads, Skip(t)
    PROVE  IInv'
<1>1. frames[t] # << >> /\ frames[t][1].pc = "scan" /\ Deref(frames[t][1].prevp) # NULL
    BY DEF Skip, In
<1>2. PICK f \in Call1, ah \in Live :
         /\ f = frames[t][1] /\ ah = Deref(f.prevp) /\ ah \in Nodes
         /\ WalkOK(f, 1 = Len(frames[t]))
    BY <1>1, AtEntry
<1>3. PICK g : g = [f EXCEPT !.prevp = ah]
    OBVIOUS
<1>4. Goto(t, g) /\ UNCHANGED << node, top, heap, mutex, call_depth, made, budget, exited >>
    BY <1>2, <1>3 DEF Skip
<1>5. g \in Call1 /\ g.pc = "scan" /\ g.prevp = ah /\ g.ah = f.ah /\ g.dead = f.dead
      /\ g.dso = f.dso
    BY <1>1, <1>2, <1>3 DEF Call1
<1>6. ListSame /\ SlotsSame /\ Live' = Live
    BY <1>4 DEF ListSame, SlotsSame, Live
<1>7. WalkOK(g, 1 = Len(frames[t]))'
    BY <1>1, <1>2, <1>5, <1>6 DEF WalkOK
<1>8. Types /\ Nesting
    BY DEF IInv
<1>9. Types'
    BY <1>1, <1>4, <1>5, <1>8, GotoFacts DEF Types
<1>10. Nesting'
    BY <1>1, <1>4, <1>5, <1>8, NestingGoto
<1> QED
    BY <1>1, <1>2, <1>4, <1>5, <1>6, <1>7, <1>9, <1>10, GotoStep

\* A handler starts: its entry is marked as called.
LEMMA CallStep ==
    ASSUME IInv, NEW t \in Threads, Call(t)
    PROVE  IInv'
<1>1. frames[t] # << >> /\ frames[t][1].pc = "scan" /\ Deref(frames[t][1].prevp) # NULL
    BY DEF Call, In
<1>2. PICK f \in Call1, ah \in Live :
         /\ f = frames[t][1] /\ ah = Deref(f.prevp) /\ ah \in Nodes
         /\ WalkOK(f, 1 = Len(frames[t]))
    BY <1>1, AtEntry
<1>3. PICK g : g = [f EXCEPT !.pc = "call", !.ah = ah, !.p = top]
    OBVIOUS
<1>4. /\ Goto(t, g) /\ node' = [node EXCEPT ![ah].fn = NoFn]
      /\ Chosen(f.dso, ah) /\ node[ah].fn # NoFn
      /\ UNCHANGED << top, heap, mutex, call_depth, made, budget, exited >>
    BY <1>2, <1>3 DEF Call, ClearFn
<1>8. Types /\ Nesting
    BY DEF IInv
<1>5. g \in Call1 /\ g.pc = "call" /\ g.prevp = f.prevp /\ g.ah = ah /\ g.dead = f.dead
      /\ g.dso = f.dso /\ g.p = top
    BY <1>1, <1>2, <1>3, <1>8 DEF Call1, Types
<1>a. node' \in [Nodes -> Entry]
    <2>1. node[ah] \in Entry
        BY <1>2, <1>8 DEF Types
    <2>2. [node[ah] EXCEPT !.fn = NoFn] \in Entry
        BY <2>1 DEF Entry
    <2> QED
        BY <1>2, <1>4, <1>8, <2>2 DEF Types
<1>b. \A n \in Nodes : node'[n].next = node[n].next /\ node'[n].dso = node[n].dso
                        /\ (n # ah => node'[n].fn = node[n].fn)
    <2> SUFFICES ASSUME NEW n \in Nodes
                 PROVE  node'[n].next = node[n].next /\ node'[n].dso = node[n].dso
                        /\ (n # ah => node'[n].fn = node[n].fn)
        OBVIOUS
    <2>1. node \in [Nodes -> Entry] /\ node[n] \in Entry
        BY <1>8 DEF Types
    <2> QED
        BY <1>4, <2>1 DEF Entry
<1>6. ListSame /\ Live' = Live
    BY <1>4, <1>8, <1>b, LiveNodes DEF ListSame, Live
\* Before exit the handler is one of a library, so its entry is not a slot.
<1>c. ASSUME Quiet PROVE ah \notin Slots
    <2>1. f.dso # NoDso
        <3>1. 1 \in DOMAIN frames[t]
            BY <1>1, Innermost
        <3> QED
            BY <1>c, <1>2, <3>1 DEF Quiet, Exiting
    <2>2. node[ah].dso = f.dso
        BY <2>1, <1>4 DEF Chosen
    <2> QED
        BY <2>1, <2>2 DEF IInv, SlotsOK
<1>d. SlotsSame
    BY <1>b, <1>c, NodeFacts DEF SlotsSame
<1>7. WalkOK(g, 1 = Len(frames[t]))'
    <2>1. f.prevp \in Live \cup {NULL} /\ NULL \notin Live /\ Live \subseteq Nodes
        BY <1>2, <1>8, LiveNodes DEF WalkOK
    <2>2. f.prevp # NULL => node'[f.prevp].next = ah
        BY <2>1, <1>2, <1>b DEF Deref
    <2>3. f.prevp = NULL => top = ah
        BY <1>2 DEF Deref
    <2> QED
        BY <2>1, <2>2, <2>3, <1>2, <1>5, <1>6 DEF WalkOK
<1>9. Types'
    <2>1. frames' \in [Threads -> Seq(Call1)]
        BY <1>1, <1>4, <1>5, <1>8, GotoFacts DEF Types
    <2> QED
        BY <2>1, <1>4, <1>8, <1>a DEF Types
<1>10. Nesting'
    BY <1>1, <1>4, <1>5, <1>8, NestingGoto
<1> QED
    BY <1>1, <1>2, <1>4, <1>5, <1>6, <1>7, <1>9, <1>10, <1>d, GotoStep

\* The walk goes on from another place of the list, or from the stack top.
LEMMA MoveStep ==
    ASSUME IInv, NEW t \in Threads, frames[t] # << >>, frames[t][1].pc # "free",
           NEW f, f = frames[t][1], NEW q \in Live \cup {NULL},
           Goto(t, [Scanning(f) EXCEPT !.prevp = q]), UNCHANGED << node, top, heap >>,
           UNCHANGED << mutex, call_depth, made, budget, exited >>
    PROVE  IInv'
<1>1. PICK g : g = [Scanning(f) EXCEPT !.prevp = q]
    OBVIOUS
<1>2. Types /\ Nesting /\ f \in Call1
    BY Innermost DEF IInv
<1>3. q \in Nodes \cup {NULL} /\ NULL \in Nodes \cup {NULL}
    BY <1>2, LiveNodes
<1>4. g \in Call1 /\ g.pc = "scan" /\ g.prevp = q /\ g.ah = NULL /\ g.dead = f.dead
      /\ g.dso = f.dso
    BY <1>1, <1>2, <1>3 DEF Call1, Scanning
<1>5. Goto(t, g)
    BY <1>1
<1>6. ListSame /\ SlotsSame /\ Live' = Live
    BY DEF ListSame, SlotsSame, Live
<1>7. WalkOK(g, 1 = Len(frames[t]))'
    BY <1>4, <1>6 DEF WalkOK
<1>8. Types'
    <2>1. frames' \in [Threads -> Seq(Call1)]
        BY <1>2, <1>4, <1>5, GotoFacts DEF Types
    <2> QED
        BY <1>2, <2>1 DEF Types
<1>9. Nesting'
    BY <1>2, <1>4, <1>5, NestingGoto
<1> QED
    BY <1>4, <1>5, <1>6, <1>7, <1>8, <1>9, GotoStep

\* The end of the list.
LEMMA UnlockStep ==
    ASSUME IInv, NEW t \in Threads, Unlock(t)
    PROVE  IInv'
<1>1. frames[t] # << >> /\ frames[t][1].pc = "scan"
    BY DEF Unlock, In
<1>2. PICK f : f = frames[t][1]
    OBVIOUS
<1>3. PICK g : g = [f EXCEPT !.pc = "free", !.prevp = NULL]
    OBVIOUS
<1>4. /\ Goto(t, g) /\ UNCHANGED << node, top, heap, made, budget, exited >>
      /\ mutex' = Released(t) /\ call_depth' = call_depth - 1
    BY <1>2, <1>3 DEF Unlock
<1>5. Types /\ Nesting /\ f \in Call1 /\ WalkOK(f, 1 = Len(frames[t]))
    BY <1>1, <1>2, Innermost DEF IInv
<1>6. g \in Call1 /\ g.pc = "free" /\ g.prevp = NULL /\ g.ah = f.ah /\ g.dead = f.dead
      /\ g.dso = f.dso
    BY <1>3, <1>5 DEF Call1
<1>7. ListSame /\ SlotsSame /\ Live' = Live
    BY <1>4 DEF ListSame, SlotsSame, Live
<1>8. WalkOK(g, 1 = Len(frames[t]))'
    BY <1>1, <1>2, <1>5, <1>6, <1>7 DEF WalkOK
<1>9. Nesting' /\ call_depth' \in Nat
    BY <1>1, <1>4, <1>5, <1>6, NestingUnlock
<1>10. Types'
    <2>1. frames' \in [Threads -> Seq(Call1)]
        BY <1>1, <1>4, <1>5, <1>6, GotoFacts DEF Types
    <2>2. mutex' \in Threads \cup {NoThread}
        BY <1>4 DEF Released
    <2> QED
        BY <1>4, <1>5, <1>9, <2>1, <2>2 DEF Types
<1> QED
    BY <1>1, <1>2, <1>4, <1>6, <1>7, <1>8, <1>9, <1>10, GotoStep

-----------------------------------------------------------------------------
(* An entry leaves the list *)

\* ah_next after an entry has been unlinked.
Unlinked(q, ah) ==
    /\ node' \in [Nodes -> Entry] /\ heap' = heap
    /\ top' = IF q = NULL THEN node[ah].next ELSE top
    /\ node'[ah].next = NULL
    /\ q # NULL /\ q # ah => node'[q].next = node[ah].next
    /\ \A n \in Nodes : n # ah /\ n # q => node'[n].next = node[n].next
    /\ \A n \in Nodes : node'[n].fn = node[n].fn /\ node'[n].dso = node[n].dso

\* ah is the entry after q, or the first when q is NULL.
Follows(q, ah) ==
    /\ q \in Live \cup {NULL} /\ ah \in Live
    /\ q = NULL => top = ah
    /\ q # NULL => node[q].next = ah

\* Unlink does that.
LEMMA UnlinkNodes ==
    ASSUME Types, NEW t, NEW f, NEW ah \in Nodes, f.prevp \in Nodes \cup {NULL},
           Unlink(t, f, ah)
    PROVE  Unlinked(f.prevp, ah)
<1> DEFINE q == f.prevp
           Nd(n) == CASE n = ah -> [node[n] EXCEPT !.next = NULL]
                      [] n = q /\ n # ah -> [node[n] EXCEPT !.next = node[ah].next]
                      [] OTHER -> node[n]
<1>1. node' = [n \in Nodes |-> Nd(n)] /\ heap' = heap
      /\ top' = IF q = NULL THEN node[ah].next ELSE top
    BY DEF Unlink
<1>2. node \in [Nodes -> Entry] /\ node[ah] \in Entry /\ node[ah].next \in Nodes \cup {NULL}
      /\ NULL \notin Nodes
    BY NodeFacts DEF Types, Entry
<1>3. ASSUME NEW n \in Nodes
      PROVE  /\ Nd(n) \in Entry /\ Nd(n).fn = node[n].fn /\ Nd(n).dso = node[n].dso
             /\ n = ah => Nd(n).next = NULL
             /\ n = q /\ n # ah => Nd(n).next = node[ah].next
             /\ n # q /\ n # ah => Nd(n).next = node[n].next
    <2>1. node[n] \in Entry
        BY <1>2
    <2>2. CASE n = ah
        <3>1. Nd(n) = [node[n] EXCEPT !.next = NULL]
            BY <2>2
        <3> QED
            BY <2>1, <2>2, <3>1 DEF Entry
    <2>3. CASE n # ah /\ n = q
        <3>1. Nd(n) = [node[n] EXCEPT !.next = node[ah].next]
            BY <2>3
        <3> QED
            BY <1>2, <2>1, <2>3, <3>1 DEF Entry
    <2>4. CASE n # ah /\ n # q
        <3>1. Nd(n) = node[n]
            BY <2>4
        <3> QED
            BY <2>1, <2>4, <3>1
    <2> QED
        BY <2>2, <2>3, <2>4
<1> HIDE DEF Nd
<1>4. node' \in [Nodes -> Entry] /\ \A n \in Nodes : node'[n] = Nd(n)
    BY <1>1, <1>3
<1> QED
    BY <1>1, <1>2, <1>3, <1>4 DEF Unlinked

\* Pointers still lead to entries, and a heap node has one predecessor.
LEMMA UnlinkPointers ==
    ASSUME Types, Pointers, NEW q, NEW ah, Follows(q, ah), Unlinked(q, ah)
    PROVE  Pointers' /\ Live' = Live
<1>1. Live' = Live /\ Live \subseteq Nodes /\ NULL \notin Live /\ NULL \notin HeapNodes
    BY LiveNodes, NodeFacts DEF Unlinked, Live
<1>2. top' \in Live \cup {NULL}
    BY DEF Unlinked, Pointers, Follows
<1>3. \A n \in Live : \/ n = ah /\ node'[n].next = NULL
                      \/ n # ah /\ n = q /\ node'[n].next = node[ah].next
                      \/ n # ah /\ n # q /\ node'[n].next = node[n].next
    BY <1>1 DEF Unlinked
<1>4. \A n \in Live : node'[n].next \in Live \cup {NULL}
    BY <1>3 DEF Pointers, Follows
<1>5. \A m, n \in Live : node'[m].next \in HeapNodes /\ node'[m].next = node'[n].next => m = n
    BY <1>1, <1>3 DEF Pointers, Follows
<1>6. top' \in HeapNodes => \A m \in Live : node'[m].next # top'
    <2> SUFFICES ASSUME top' \in HeapNodes, NEW m \in Live, node'[m].next = top' PROVE FALSE
        OBVIOUS
    <2>1. CASE q = NULL
        <3>1. top' = node[ah].next /\ m # q
            BY <1>1, <2>1 DEF Unlinked
        <3> QED
            BY <1>1, <1>3, <3>1 DEF Pointers, Follows
    <2>2. CASE q # NULL
        <3>1. top' = top
            BY <2>2 DEF Unlinked
        <3> QED
            BY <1>1, <1>3, <3>1 DEF Pointers, Follows
    <2> QED
        BY <2>1, <2>2
<1> QED
    BY <1>1, <1>2, <1>4, <1>5, <1>6 DEF Pointers

\* An entry that waits to be freed still may be; the one unlinked may too.
LEMMA UnlinkDeadOK ==
    ASSUME Types, Pointers, NEW q, NEW ah, Follows(q, ah), Unlinked(q, ah)
    PROVE  /\ \A n : DeadOK(n) => DeadOK(n)' /\ n # ah
           /\ ah \in HeapNodes => DeadOK(ah)'
<1>1. Live' = Live /\ Live \subseteq Nodes /\ NULL \notin Live /\ NULL \notin HeapNodes
      /\ heap \subseteq Live /\ heap' = heap
    BY LiveNodes, NodeFacts DEF Unlinked, Live
<1>3. \A n \in Live : \/ n = ah /\ node'[n].next = NULL
                      \/ n # ah /\ n = q /\ node'[n].next = node[ah].next
                      \/ n # ah /\ n # q /\ node'[n].next = node[n].next
    BY <1>1 DEF Unlinked
<1>4. ASSUME NEW n, DeadOK(n) PROVE DeadOK(n)' /\ n # ah
    <2>1. n \in Live /\ n # ah /\ n # q
        BY <1>1, <1>4 DEF DeadOK, Follows
    <2>2. top' # n
        BY <1>4 DEF DeadOK, Unlinked, Follows
    <2>3. \A m \in Live : node'[m].next # n
        BY <1>1, <1>3, <1>4, <2>1 DEF DeadOK, Follows
    <2> QED
        BY <1>1, <1>3, <1>4, <2>1, <2>2, <2>3 DEF DeadOK
<1>5. ASSUME ah \in HeapNodes PROVE DeadOK(ah)'
    <2>1. ah \in heap /\ ah \in Live
        BY <1>5, NodeFacts DEF Follows, Live
    <2>2. top' # ah
        <3>1. CASE q = NULL
            BY <3>1, <1>5, <2>1 DEF Unlinked, Follows, Pointers
        <3>2. CASE q # NULL
            BY <3>2, <1>5, <2>1 DEF Unlinked, Follows, Pointers
        <3> QED
            BY <3>1, <3>2
    <2>3. \A m \in Live : node'[m].next # ah
        <3> SUFFICES ASSUME NEW m \in Live, node'[m].next = ah PROVE FALSE
            OBVIOUS
        <3>1. m # ah
            BY <1>1, <1>3, <2>1
        <3>2. CASE m = q
            <4>1. node[ah].next = ah /\ node[q].next = ah
                BY <1>1, <1>3, <3>1, <3>2 DEF Follows
            <4> QED
                BY <4>1, <3>1, <3>2, <2>1, <1>5 DEF Pointers
        <3>3. CASE m # q
            <4>1. node[m].next = ah
                BY <1>3, <3>1, <3>3
            <4> QED
                BY <4>1, <3>3, <2>1, <1>5 DEF Pointers, Follows
        <3> QED
            BY <3>2, <3>3
    <2> QED
        BY <1>1, <1>3, <2>1, <2>2, <2>3 DEF DeadOK
<1> QED
    BY <1>4, <1>5

\* Unlinking makes no cycle, and links no slot that was called.
LEMMA UnlinkQuiet ==
    ASSUME Types, Pointers, SlotsOK, NoCycle, NEW q, NEW ah, Follows(q, ah),
           Unlinked(q, ah), Quiet' => Quiet
    PROVE  SlotsOK' /\ NoCycle'
<1>1. Live' = Live /\ Live \subseteq Nodes /\ NULL \notin Live /\ Slots \subseteq Nodes
      /\ NULL \notin Slots
    BY LiveNodes, NodeFacts DEF Unlinked, Live
<1>3. \A n \in Live : \/ n = ah /\ node'[n].next = NULL
                      \/ n # ah /\ n = q /\ node'[n].next = node[ah].next
                      \/ n # ah /\ n # q /\ node'[n].next = node[n].next
    BY <1>1 DEF Unlinked
<1>4. \A n \in Slots : node'[n].dso = NoDso
    BY <1>1 DEF SlotsOK, Unlinked
<1>5. ASSUME Quiet', NEW n \in Slots, node'[n].fn = NoFn
      PROVE  n # top' /\ \A m \in Live : node'[m].next # n
    <2>1. n # top /\ \A m \in Live : node[m].next # n
        BY <1>1, <1>5 DEF SlotsOK, Unlinked
    <2>2. n # top'
        BY <2>1 DEF Unlinked, Follows
    <2> QED
        BY <1>1, <1>3, <1>5, <2>1, <2>2 DEF Follows
<1>6. ASSUME Quiet', NEW C \in SUBSET Live, C # {}
      PROVE  \E n \in C : node'[n].next \notin C
    <2>1. CASE ah \in C
        BY <1>1, <1>3, <2>1
    <2>2. CASE ah \notin C /\ q \notin C
        <3>1. PICK n \in C : node[n].next \notin C
            BY <1>6 DEF NoCycle
        <3> QED
            BY <1>3, <2>2, <3>1
    <2>3. CASE ah \notin C /\ q \in C
        <3> DEFINE D == C \cup {ah}
        <3>1. D \in SUBSET Live /\ D # {}
            BY DEF Follows
        <3>2. PICK n \in D : node[n].next \notin D
            BY <1>6, <3>1 DEF NoCycle
        <3>3. n # q
            BY <1>1, <2>3, <3>2 DEF Follows
        <3>4. CASE n = ah
            BY <1>3, <2>3, <3>2, <3>4
        <3>5. CASE n # ah
            BY <1>3, <2>3, <3>2, <3>3, <3>5
        <3> QED
            BY <3>4, <3>5
    <2> QED
        BY <2>1, <2>2, <2>3
<1> QED
    BY <1>1, <1>4, <1>5, <1>6 DEF SlotsOK, NoCycle

\* The outermost call unlinks an entry and keeps it until it returns.
LEMMA UnlinkStep ==
    ASSUME IInv, NEW t \in Threads, frames[t] # << >>, frames[t][1].pc # "free",
           Len(frames[t]) = 1, NEW f, f = frames[t][1], NEW ah, Follows(f.prevp, ah),
           Unlink(t, f, ah), UNCHANGED << mutex, call_depth, made, budget, exited >>
    PROVE  IInv'
<1>1. Types /\ Nesting /\ Pointers /\ DeadOnes /\ Walks /\ SlotsOK /\ NoCycle
    BY DEF IInv
<1>2. f \in Call1 /\ WalkOK(f, 1 = Len(frames[t])) /\ frames[t] \in Seq(Call1)
    BY Innermost
<1>3. ah \in Nodes /\ ah \in Live /\ f.prevp \in Live \cup {NULL} /\ f.prevp \in Nodes \cup {NULL}
    BY <1>1, LiveNodes DEF Follows
<1>4. Unlinked(f.prevp, ah)
    BY <1>1, <1>3, UnlinkNodes
<1>5. Pointers' /\ Live' = Live
    BY <1>1, <1>4, UnlinkPointers
<1>6. /\ \A n : DeadOK(n) => DeadOK(n)' /\ n # ah
      /\ ah \in HeapNodes => DeadOK(ah)'
    BY <1>1, <1>4, UnlinkDeadOK
<1>7. PICK g : g = [Scanning(f) EXCEPT !.dead = @ \cup ({ah} \ Slots)]
    OBVIOUS
<1>8. Goto(t, g)
    BY <1>7 DEF Unlink
<1>9. {ah} \ Slots \subseteq HeapNodes /\ f.dead \subseteq HeapNodes
    BY <1>2, <1>3, NodeFacts DEF Call1
<1>10. /\ g \in Call1 /\ g.pc = "scan" /\ g.prevp = f.prevp /\ g.ah = NULL
       /\ g.dead = f.dead \cup ({ah} \ Slots) /\ g.dso = f.dso
    <2>1. f.dead \cup ({ah} \ Slots) \in SUBSET HeapNodes
        BY <1>9
    <2> QED
        BY <1>2, <1>7, <2>1 DEF Call1, Scanning
<1>11. /\ frames' \in [Threads -> Seq(Call1)]
       /\ Len(frames'[t]) = 1 /\ DOMAIN frames'[t] = {1}
       /\ frames'[t][1] = g
       /\ \A u \in Threads : u # t => frames'[u] = frames[u]
    <2>1. DOMAIN frames[t] = {1}
        BY <1>2
    <2> QED
        BY <1>1, <1>8, <1>10, <2>1, GotoFacts DEF Types
<1>12. Types'
    <2>1. top' \in Nodes \cup {NULL}
        BY <1>1, <1>5, LiveNodes DEF Pointers
    <2>2. node' \in [Nodes -> Entry] /\ heap' = heap
        BY <1>4 DEF Unlinked
    <2> QED
        BY <1>1, <1>11, <2>1, <2>2 DEF Types
<1>13. Nesting'
    BY <1>1, <1>8, <1>10, NestingGoto
<1>14. SlotsOK' /\ NoCycle'
    <2>1. Quiet' <=> Quiet
        BY <1>1, <1>8, <1>10, GotoQuiet
    <2> QED
        BY <1>1, <1>4, <2>1, UnlinkQuiet
<1>15. DeadOnes'
    <2>1. 1 \in DOMAIN frames[t]
        BY <1>2
    <2>2. \A n \in g.dead : DeadOK(n)'
        BY <1>1, <1>6, <1>9, <1>10, <2>1 DEF DeadOnes
    <2>3. ASSUME NEW u \in Threads, NEW i \in DOMAIN frames'[u]
          PROVE  /\ i < Len(frames'[u]) => frames'[u][i].dead = {}
                 /\ \A n \in frames'[u][i].dead : DeadOK(n)'
        <3>1. CASE u = t
            <4>1. i = 1 /\ ~(1 < 1) /\ frames'[u][i] = g /\ Len(frames'[u]) = 1
                BY <1>11, <3>1
            <4> QED
                BY <4>1, <2>2
        <3>2. CASE u # t
            BY <1>1, <1>6, <1>11, <3>2 DEF DeadOnes
        <3> QED
            BY <3>1, <3>2
    <2>4. ASSUME NEW u \in Threads, NEW i \in DOMAIN frames[u], u # t
          PROVE  g.dead \cap frames[u][i].dead = {}
        <3>1. f.dead \cap frames[u][i].dead = {}
            BY <1>1, <2>1, <2>4 DEF DeadOnes
        <3>2. ah \notin frames[u][i].dead
            BY <1>1, <1>6 DEF DeadOnes
        <3> QED
            BY <1>10, <3>1, <3>2
    <2>5. ASSUME NEW u \in Threads, NEW v \in Threads, NEW i \in DOMAIN frames'[u],
                 NEW k \in DOMAIN frames'[v], u # v
          PROVE  frames'[u][i].dead \cap frames'[v][k].dead = {}
        <3>1. CASE u = t
            BY <1>11, <2>4, <2>5, <3>1
        <3>2. CASE v = t
            BY <1>11, <2>4, <2>5, <3>2
        <3>3. CASE u # t /\ v # t
            BY <1>1, <1>11, <2>5, <3>3 DEF DeadOnes
        <3> QED
            BY <3>1, <3>2, <3>3
    <2> QED
        BY <2>3, <2>5 DEF DeadOnes
<1>16. Walks'
    <2> SUFFICES ASSUME NEW u \in Threads, NEW i \in DOMAIN frames'[u]
                 PROVE  WalkOK(frames[u][i], i = Len(frames[u]))'
        BY DEF Walks
    <2>1. CASE u = t
        <3>1. frames'[u][i] = g
            BY <1>11, <2>1
        <3> QED
            BY <1>3, <1>5, <1>10, <3>1 DEF WalkOK
    <2>2. CASE u # t
        <3>1. frames'[u] = frames[u] /\ mutex # u
            BY <1>1, <1>11, <2>2, Holder
        <3>2. i \in DOMAIN frames[u] /\ frames[u] \in Seq(Call1) /\ frames[u] # << >>
            BY <1>1, <3>1 DEF Types
        <3>3. i = 1 /\ frames[u][1].pc = "free"
            BY <1>1, <3>1, <3>2, Others
        <3>4. WalkOK(frames[u][1], 1 = Len(frames[u]))
            BY <1>1, <3>2, <3>3 DEF Walks
        <3> QED
            BY <3>1, <3>3, <3>4 DEF WalkOK
    <2> QED
        BY <2>1, <2>2
<1> QED
    BY <1>5, <1>12, <1>13, <1>14, <1>15, <1>16 DEF IInv

\* An entry that has been called.
LEMMA RetireStep ==
    ASSUME IInv, NEW t \in Threads, frames[t] # << >>, frames[t][1].pc # "free",
           NEW f, f = frames[t][1], NEW ah \in Live,
           Len(frames[t]) = 1 => Follows(f.prevp, ah),
           Retire(t, f, ah), UNCHANGED << mutex, call_depth, made, budget, exited >>
    PROVE  IInv'
<1>1. call_depth = Len(frames[t])
    BY Holder DEF IInv
<1>2. CASE call_depth = 1
    BY <1>1, <1>2, UnlinkStep DEF Retire
<1>3. CASE call_depth # 1
    BY <1>1, <1>3, MoveStep DEF Retire, StepOver
<1> QED
    BY <1>2, <1>3

\* The walk is at an entry already called.
LEMMA SweepStep ==
    ASSUME IInv, NEW t \in Threads, Sweep(t)
    PROVE  IInv'
<1>1. frames[t] # << >> /\ frames[t][1].pc = "scan" /\ Deref(frames[t][1].prevp) # NULL
    BY DEF Sweep, In
<1>2. PICK f \in Call1, ah \in Live :
         /\ f = frames[t][1] /\ ah = Deref(f.prevp) /\ ah \in Nodes
         /\ WalkOK(f, 1 = Len(frames[t]))
    BY <1>1, AtEntry
<1>3. Retire(t, f, ah) /\ UNCHANGED << mutex, call_depth, made, budget, exited >>
    BY <1>2 DEF Sweep
<1>4. Follows(f.prevp, ah)
    BY <1>2 DEF Follows, Deref, WalkOK
<1> QED
    BY <1>1, <1>2, <1>3, <1>4, RetireStep

\* A handler returns: the walk restarts if the stack top has changed.
LEMMA HandlerReturnsStep ==
    ASSUME IInv, NEW t \in Threads, HandlerReturns(t)
    PROVE  IInv'
<1>1. frames[t] # << >> /\ frames[t][1].pc = "call"
    BY DEF HandlerReturns, In
<1>2. PICK f : f = frames[t][1]
    OBVIOUS
<1>3. UNCHANGED << mutex, call_depth, made, budget, exited >>
    BY DEF HandlerReturns
<1>4. CASE Again(t, f)
    <2>1. Goto(t, [Scanning(f) EXCEPT !.prevp = NULL]) /\ UNCHANGED << node, top, heap >>
        BY <1>2, <1>4 DEF HandlerReturns
    <2>2. NULL \in Live \cup {NULL}
        OBVIOUS
    <2> QED
        BY <1>1, <1>2, <1>3, <2>1, <2>2, MoveStep
<1>5. CASE ~Again(t, f)
    <2>1. Retire(t, f, f.ah)
        BY <1>2, <1>5 DEF HandlerReturns
    <2>2. WalkOK(f, 1 = Len(frames[t]))
        BY <1>1, <1>2, Innermost
    <2>3. f.ah \in Live
        BY <1>1, <1>2, <2>2 DEF WalkOK
    <2>4. ASSUME Len(frames[t]) = 1 PROVE Follows(f.prevp, f.ah)
        BY <1>1, <1>2, <1>5, <2>2, <2>3, <2>4 DEF WalkOK, Follows, Again
    <2> QED
        BY <1>1, <1>2, <1>3, <2>1, <2>3, <2>4, RetireStep
<1> QED
    BY <1>4, <1>5

-----------------------------------------------------------------------------
(* Least numbers *)

\* A nonempty set of numbers has a least one.
LEMMA SmallestIn ==
    ASSUME NEW S \in SUBSET Nat, S # {}
    PROVE  \E m \in S : \A x \in S : m <= x
<1> DEFINE R == {xy \in Nat \X Nat : xy[1] < xy[2]}
<1>1. IsWellFoundedOn(R, Nat)
    BY NatLessThanWellFounded, Zenon DEF OpToRel
<1>2. \A x, y \in Nat : << y, x >> \in R <=> y < x
    OBVIOUS
<1> HIDE DEF R
<1>3. PICK m \in S : \A x \in S : ~(<< x, m >> \in R)
    BY <1>1, WFMin
<1>4. ASSUME NEW x \in S PROVE m <= x
    <2>1. m \in Nat /\ x \in Nat /\ ~(x < m)
        BY <1>2, <1>3
    <2> QED
        BY <2>1
<1> QED
    BY <1>4

\* Min is a member of its set.
LEMMA MinIn ==
    ASSUME NEW S \in SUBSET Nat, S # {}
    PROVE  Min(S) \in S
<1>1. PICK m \in S : \A x \in S : m <= x
    BY SmallestIn
<1>2. \E z : z \in S /\ \A x \in S : z <= x
    BY <1>1
<1>3. Min(S) = CHOOSE z : z \in S /\ \A x \in S : z <= x
    BY DEF Min
<1> QED
    BY <1>2, <1>3

-----------------------------------------------------------------------------
(* A new entry *)

\* The node a registration takes: a slot not in use, or a heap node not in use.
Fresh(ah) ==
    ah \in Nodes /\ (ah \in HeapNodes \ heap \/ (ah \in Slots /\ SlotFree(ah)))

\* The allocator takes such a node, and a slot only for a handler of no library.
LEMMA AllocFacts ==
    ASSUME NEW d, NEW ah \in atexit_handler_alloc(d) \ {NULL}
    PROVE  Fresh(ah) /\ (ah \in Slots => d = NoDso)
<1>1. CASE d = NoDso /\ \E n \in Slots : SlotFree(n)
    <2> DEFINE S == {n \in Slots : SlotFree(n)}
    <2>1. ah = Min(S)
        BY <1>1 DEF atexit_handler_alloc
    <2>2. S \in SUBSET Nat /\ S # {}
        BY <1>1, NodeFacts
    <2>3. Min(S) \in S
        BY <2>2, MinIn
    <2> QED
        BY <1>1, <2>1, <2>3, NodeFacts DEF Fresh
<1>2. CASE ~(d = NoDso /\ \E n \in Slots : SlotFree(n))
    <2>1. ah \in HeapNodes /\ HeapNodes \ heap # {} /\ ah = Min(HeapNodes \ heap)
        BY <1>2 DEF atexit_handler_alloc
    <2>2. HeapNodes \ heap \in SUBSET Nat
        BY NodeFacts
    <2>3. ah \in HeapNodes \ heap
        BY <2>1, <2>2, MinIn
    <2> QED
        BY <2>1, <2>3, NodeFacts DEF Fresh
<1> QED
    BY <1>1, <1>2

\* The list after a registration.
Linked1(ah, d) ==
    /\ top' = ah /\ heap' = heap \cup ({ah} \ Slots)
    /\ node' \in [Nodes -> Entry]
    /\ node'[ah].fn # NoFn /\ node'[ah].dso = d /\ node'[ah].next = top
    /\ \A n \in Nodes : n # ah => node'[n] = node[n]

\* The new entry is in no list and no walk is at it.
LEMMA NewEntry ==
    ASSUME IInv, NEW ah, NEW d, Fresh(ah), Linked1(ah, d)
    PROVE  /\ Live' = Live \cup {ah} /\ Live \subseteq Nodes
           /\ Pointers' /\ (\A n : DeadOK(n) => DeadOK(n)')
           /\ \A fr, b : WalkOK(fr, b) => WalkOK(fr, b)'
<1>1. Types /\ Pointers
    BY DEF IInv
<1>2. Live \subseteq Nodes /\ NULL \notin Live /\ NULL \notin HeapNodes /\ Slots \cap HeapNodes = {}
      /\ heap \subseteq Live /\ Slots \subseteq Live /\ heap \subseteq HeapNodes
    BY <1>1, LiveNodes, NodeFacts DEF Live, Types
<1>3. Live' = Live \cup {ah}
    BY <1>2, NodeFacts DEF Live, Linked1, Fresh
<1>4. ah \in HeapNodes => ah \notin Live
    BY <1>2 DEF Fresh, Live
<1>5. ah \in Live => ah \in Slots /\ node[ah].next = NULL
    BY <1>2 DEF Fresh, Live, SlotFree
<1>6. \A n \in Live : n # ah => node'[n] = node[n]
    BY <1>2 DEF Linked1
<1>7. top \in Live \cup {NULL} /\ \A n \in Live : node[n].next \in Live \cup {NULL}
    BY <1>1 DEF Pointers
<1>8. Pointers'
    <2>1. top' \in Live' \cup {NULL}
        BY <1>3 DEF Linked1
    <2>2. \A n \in Live' : node'[n].next \in Live' \cup {NULL}
        BY <1>3, <1>6, <1>7 DEF Linked1
    <2>3. ASSUME NEW m \in Live', NEW n \in Live', node'[m].next \in HeapNodes,
                 node'[m].next = node'[n].next
          PROVE  m = n
        <3>1. CASE m = ah /\ n # ah
            BY <1>1, <1>3, <1>6, <2>3, <3>1 DEF Linked1, Pointers
        <3>2. CASE m # ah /\ n = ah
            BY <1>1, <1>3, <1>6, <2>3, <3>2 DEF Linked1, Pointers
        <3>3. CASE m # ah /\ n # ah
            BY <1>1, <1>3, <1>6, <2>3, <3>3 DEF Pointers
        <3> QED
            BY <3>1, <3>2, <3>3
    <2>4. ASSUME top' \in HeapNodes, NEW m \in Live' PROVE node'[m].next # top'
        <3>1. ah \notin Live /\ top' = ah /\ ah # NULL
            BY <1>2, <1>4, <2>4 DEF Linked1
        <3> QED
            BY <1>3, <1>6, <1>7, <3>1 DEF Linked1
    <2> QED
        BY <2>1, <2>2, <2>3, <2>4 DEF Pointers
<1>9. ASSUME NEW n, DeadOK(n) PROVE DeadOK(n)'
    <2>1. n \in heap /\ n # ah
        BY <1>2, <1>9 DEF DeadOK, Fresh
    <2>2. n \in heap' /\ n # top' /\ node'[n].next = NULL
        BY <1>2, <1>6, <1>9, <2>1 DEF DeadOK, Linked1
    <2>3. \A m \in Live' : node'[m].next # n
        BY <1>3, <1>6, <1>9 DEF DeadOK, Linked1
    <2> QED
        BY <2>2, <2>3 DEF DeadOK
<1>10. ASSUME NEW fr, NEW b, WalkOK(fr, b) PROVE WalkOK(fr, b)'
    <2>1. fr.prevp \in Live' \cup {NULL} /\ fr.ah \in Live' \cup {NULL}
        BY <1>3, <1>10 DEF WalkOK
    <2>2. ASSUME fr.pc = "call", b, fr.prevp # NULL PROVE node'[fr.prevp].next = fr.ah
        <3>1. fr.prevp \in Live /\ node[fr.prevp].next = fr.ah /\ fr.ah # NULL
            BY <1>10, <2>2 DEF WalkOK
        <3> QED
            BY <1>5, <1>6, <3>1
    <2> QED
        BY <1>10, <2>1, <2>2 DEF WalkOK
<1> QED
    BY <1>2, <1>3, <1>8, <1>9, <1>10

\* A registration.
LEMMA RegisterStep ==
    ASSUME IInv, NEW t \in Threads, NEW d \in AllDsos, Register(t, d)
    PROVE  IInv'
<1>1. Types /\ Nesting /\ Pointers /\ DeadOnes /\ Walks /\ SlotsOK /\ NoCycle
    BY DEF IInv
<1>2. PICK ah \in atexit_handler_alloc(d) \ {NULL} :
          /\ node' = [node EXCEPT ![ah] = [fn |-> made + 1, dso |-> d, next |-> top]]
          /\ top' = ah
          /\ heap' = heap \cup ({ah} \ Slots)
    BY DEF Register
<1>3. made < MaxHandlers /\ made' = made + 1
      /\ UNCHANGED << mutex, call_depth, frames, budget, exited >>
    BY DEF Register
<1>4. Fresh(ah) /\ (ah \in Slots => d = NoDso) /\ ah \in Nodes
    BY AllocFacts DEF Fresh
<1>5. made + 1 \in Handlers /\ made + 1 # NoFn /\ made + 1 \in 0..MaxHandlers
    BY <1>1, <1>3, AtexitAssumption DEF Types, Handlers, NoFn
<1> DEFINE e == [fn |-> made + 1, dso |-> d, next |-> top]
<1>6. e \in Entry /\ e.fn # NoFn /\ e.dso = d /\ e.next = top
    BY <1>1, <1>5 DEF Entry, Types
<1>7. Linked1(ah, d)
    <2>1. node' = [node EXCEPT ![ah] = e]
        BY <1>2
    <2> HIDE DEF e
    <2>2. node' \in [Nodes -> Entry] /\ node'[ah] = e
          /\ \A n \in Nodes : n # ah => node'[n] = node[n]
        BY <1>1, <1>4, <1>6, <2>1 DEF Types
    <2> QED
        BY <1>2, <1>6, <2>2 DEF Linked1
<1>8. /\ Live' = Live \cup {ah} /\ Live \subseteq Nodes
      /\ Pointers' /\ (\A n : DeadOK(n) => DeadOK(n)')
      /\ \A fr, b : WalkOK(fr, b) => WalkOK(fr, b)'
    BY <1>4, <1>7, NewEntry
<1>9. Types'
    <2>1. heap' \subseteq HeapNodes
        BY <1>1, <1>2, <1>4, NodeFacts DEF Types
    <2> QED
        BY <1>1, <1>2, <1>3, <1>4, <1>5, <1>7, <2>1 DEF Types, Linked1
<1>10. Nesting'
    BY <1>1, <1>3 DEF Nesting
<1>11. DeadOnes'
    BY <1>1, <1>3, <1>8 DEF DeadOnes
<1>12. Walks'
    <2> SUFFICES ASSUME NEW u \in Threads, NEW i \in DOMAIN frames'[u]
                 PROVE  WalkOK(frames[u][i], i = Len(frames[u]))'
        BY DEF Walks
    <2>1. WalkOK(frames[u][i], i = Len(frames[u]))
        BY <1>1, <1>3 DEF Walks
    <2>2. PICK fr, b : fr = frames[u][i] /\ b = (i = Len(frames[u]))
        OBVIOUS
    <2>3. fr = frames'[u][i] /\ b = (i = Len(frames'[u]))
        BY <1>3, <2>2
    <2>4. WalkOK(fr, b)'
        BY <1>8, <2>1, <2>2
    <2> QED
        BY <2>3, <2>4
<1>13. Quiet' <=> Quiet
    BY <1>3 DEF Quiet, Exiting
\* Before exit, a slot that was called is off the list.
<1>14. ASSUME Quiet PROVE ah # top /\ \A m \in Live : node[m].next # ah
    <2>1. CASE ah \in Slots
        BY <1>1, <1>4, <1>14, <2>1, NodeFacts DEF SlotsOK, Fresh, SlotFree
    <2>2. CASE ah \notin Slots
        <3>1. ah \notin Live /\ ah # NULL
            BY <1>4, <2>2, NodeFacts DEF Fresh, Live
        <3> QED
            BY <1>1, <3>1 DEF Pointers
    <2> QED
        BY <2>1, <2>2
<1>15. SlotsOK'
    <2>1. \A n \in Slots : node'[n].dso = NoDso
        BY <1>1, <1>4, <1>7, NodeFacts DEF SlotsOK, Linked1
    <2>2. ASSUME Quiet', NEW n \in Slots, node'[n].fn = NoFn
          PROVE  n # top' /\ \A m \in Live' : node'[m].next # n
        <3>1. n # ah /\ node[n].fn = NoFn /\ top' = ah
            BY <1>7, <2>2, NodeFacts DEF Linked1
        <3>2. n # top /\ \A m \in Live : node[m].next # n
            BY <1>1, <1>13, <2>2, <3>1 DEF SlotsOK
        <3> QED
            BY <1>7, <1>8, <3>1, <3>2 DEF Linked1
    <2> QED
        BY <2>1, <2>2 DEF SlotsOK
<1>16. NoCycle'
    <2> SUFFICES ASSUME Quiet', NEW C \in SUBSET (Live \cup {ah}), C # {}
                 PROVE  \E n \in C : node'[n].next \notin C
        BY <1>8 DEF NoCycle
    <2>1. \A n \in Live : n # ah => node'[n] = node[n]
        BY <1>7, <1>8 DEF Linked1
    <2>2. CASE C = {ah}
        BY <1>7, <1>13, <1>14, <2>2 DEF Linked1
    <2>3. CASE C # {ah}
        <3> DEFINE D == C \ {ah}
        <3>1. D \in SUBSET Live /\ D # {}
            BY <2>3
        <3>2. PICK n \in D : node[n].next \notin D
            BY <1>1, <1>13, <3>1 DEF NoCycle
        <3>3. node[n].next # ah
            BY <1>13, <1>14, <3>1, <3>2
        <3> QED
            BY <2>1, <3>1, <3>2, <3>3
    <2> QED
        BY <2>2, <2>3
<1> QED
    BY <1>8, <1>9, <1>10, <1>11, <1>12, <1>15, <1>16 DEF IInv

\* malloc fails: nothing is registered.
LEMMA RegisterFailsStep ==
    ASSUME IInv, NEW t \in Threads, NEW d \in AllDsos, RegisterFails(t, d)
    PROVE  IInv'
<1>1. made < MaxHandlers /\ made' = made + 1
      /\ UNCHANGED << node, top, heap, mutex, call_depth, frames, budget, exited >>
    BY DEF RegisterFails
<1>2. Types'
    BY <1>1, AtexitAssumption DEF IInv, Types
<1>3. Nesting' /\ Walks'
    BY <1>1 DEF IInv, Nesting, Walks, WalkOK, Live
<1>4. Pointers' /\ DeadOnes'
    BY <1>1 DEF IInv, Pointers, DeadOnes, DeadOK, Live
<1>5. SlotsOK' /\ NoCycle'
    BY <1>1 DEF IInv, SlotsOK, NoCycle, Quiet, Exiting, Live
<1> QED
    BY <1>2, <1>3, <1>4, <1>5 DEF IInv

-----------------------------------------------------------------------------
(* Calls of __cxa_finalize begin and return *)

\* A call begins.
LEMMA BeginStep ==
    ASSUME IInv, NEW t \in Threads, NEW d \in AllDsos, InCode(t), CanLock(t), Begin(t, d),
           budget' \in Nat
    PROVE  IInv'
<1>1. Types /\ Nesting /\ Pointers /\ DeadOnes /\ Walks /\ SlotsOK /\ NoCycle
    BY DEF IInv
<1>2. PICK g : g = Frame(d)
    OBVIOUS
<1>3. g \in Call1 /\ g.pc = "scan" /\ g.prevp = NULL /\ g.ah = NULL /\ g.dead = {}
    BY <1>2 DEF Frame, Call1
<1>4. /\ frames' = [frames EXCEPT ![t] = << g >> \o @]
      /\ mutex' = t /\ call_depth' = call_depth + 1
      /\ UNCHANGED << node, top, heap, made, exited >>
    BY <1>2 DEF Begin
<1>5. /\ frames' \in [Threads -> Seq(Call1)]
      /\ frames'[t] # << >> /\ Len(frames'[t]) = Len(frames[t]) + 1
      /\ DOMAIN frames'[t] = 1..(Len(frames[t]) + 1)
      /\ frames'[t][1] = g
      /\ \A i \in DOMAIN frames'[t] : i # 1 =>
            i - 1 \in DOMAIN frames[t] /\ frames'[t][i] = frames[t][i - 1]
      /\ \A u \in Threads : u # t => frames'[u] = frames[u]
    BY <1>1, <1>3, <1>4, PushFacts DEF Types
<1>6. Types'
    BY <1>1, <1>4, <1>5 DEF Types
<1>7. Nesting'
    BY <1>1, <1>3, <1>4, NestingBegin
<1>8. ListSame /\ SlotsSame
    BY <1>4 DEF ListSame, SlotsSame
<1>9. /\ Pointers'
      /\ \A n : DeadOK(n) => DeadOK(n)'
      /\ \A fr, b : WalkOK(fr, b) => WalkOK(fr, b)'
    BY <1>1, <1>8, ListSameKeeps
<1>10. Len(frames[t]) \in Nat /\ DOMAIN frames[t] = 1..Len(frames[t])
    BY <1>1, HoldingFacts DEF Types
\* Every frame is the new one or was there.
<1>11. ASSUME NEW u \in Threads, NEW i \in DOMAIN frames'[u]
       PROVE  \/ u = t /\ i = 1 /\ frames'[u][i] = g
              \/ \E k \in DOMAIN frames[u] :
                    /\ frames'[u][i] = frames[u][k]
                    /\ (i = Len(frames'[u])) = (k = Len(frames[u]))
                    /\ (i < Len(frames'[u])) = (k < Len(frames[u]))
    <2>1. CASE u # t
        BY <1>5, <2>1
    <2>2. CASE u = t /\ i = 1
        BY <1>5, <2>2
    <2>3. CASE u = t /\ i # 1
        <3>1. i - 1 \in DOMAIN frames[t] /\ frames'[t][i] = frames[t][i - 1] /\ i \in Nat
            BY <1>5, <1>10, <2>3
        <3>2. (i = Len(frames'[t])) = (i - 1 = Len(frames[t]))
              /\ (i < Len(frames'[t])) = (i - 1 < Len(frames[t]))
            BY <1>5, <1>10, <3>1
        <3> QED
            BY <2>3, <3>1, <3>2
    <2> QED
        BY <2>1, <2>2, <2>3
<1>12. DeadOnes'
    <2>1. ASSUME NEW u \in Threads, NEW i \in DOMAIN frames'[u]
          PROVE  /\ i < Len(frames'[u]) => frames'[u][i].dead = {}
                 /\ \A n \in frames'[u][i].dead : DeadOK(n)'
        <3>1. CASE frames'[u][i] = g
            BY <1>3, <3>1
        <3>2. CASE frames'[u][i] # g
            <4>1. PICK k \in DOMAIN frames[u] :
                     /\ frames'[u][i] = frames[u][k]
                     /\ (i < Len(frames'[u])) = (k < Len(frames[u]))
                BY <1>11, <3>2
            <4> QED
                BY <1>1, <1>9, <4>1 DEF DeadOnes
        <3> QED
            BY <3>1, <3>2
    <2>2. ASSUME NEW u \in Threads, NEW v \in Threads, NEW i \in DOMAIN frames'[u],
                 NEW k \in DOMAIN frames'[v], u # v
          PROVE  frames'[u][i].dead \cap frames'[v][k].dead = {}
        <3>1. frames'[u][i].dead = {} \/
              \E j \in DOMAIN frames[u] : frames'[u][i].dead = frames[u][j].dead
            BY <1>3, <1>11
        <3>2. frames'[v][k].dead = {} \/
              \E j \in DOMAIN frames[v] : frames'[v][k].dead = frames[v][j].dead
            BY <1>3, <1>11
        <3> QED
            BY <1>1, <2>2, <3>1, <3>2 DEF DeadOnes
    <2> QED
        BY <2>1, <2>2 DEF DeadOnes
<1>13. Walks'
    <2> SUFFICES ASSUME NEW u \in Threads, NEW i \in DOMAIN frames'[u]
                 PROVE  WalkOK(frames[u][i], i = Len(frames[u]))'
        BY DEF Walks
    <2>1. CASE frames'[u][i] = g
        BY <1>3, <2>1 DEF WalkOK
    <2>2. CASE frames'[u][i] # g
        <3>1. PICK k \in DOMAIN frames[u] :
                 /\ frames'[u][i] = frames[u][k]
                 /\ (i = Len(frames'[u])) = (k = Len(frames[u]))
            BY <1>11, <2>2
        <3>2. PICK fr, b : fr = frames[u][k] /\ b = (k = Len(frames[u]))
            OBVIOUS
        <3>3. WalkOK(fr, b)
            BY <1>1, <3>2 DEF Walks
        <3>4. WalkOK(fr, b)' /\ fr = frames'[u][i] /\ b = (i = Len(frames'[u]))
            BY <1>9, <3>1, <3>2, <3>3
        <3> QED
            BY <3>4
    <2> QED
        BY <2>1, <2>2
<1>14. Quiet' => Quiet
    <2> SUFFICES ASSUME NEW u \in Threads, NEW i \in DOMAIN frames[u], frames[u][i].dso = NoDso
                 PROVE  Exiting'
        BY <1>4 DEF Quiet, Exiting
    <2>1. CASE u = t
        <3>1. i + 1 \in DOMAIN frames'[t] /\ i + 1 # 1 /\ (i + 1) - 1 = i
            BY <1>5, <1>10, <2>1
        <3>2. frames'[t][i + 1] = frames[t][i]
            BY <1>5, <3>1
        <3> QED
            BY <2>1, <3>1, <3>2 DEF Exiting
    <2>2. CASE u # t
        BY <1>5, <2>2 DEF Exiting
    <2> QED
        BY <2>1, <2>2
<1>15. SlotsOK' /\ NoCycle'
    BY <1>1, <1>8, <1>14, ListSameSlots, ListSameNoCycle
<1> QED
    BY <1>6, <1>7, <1>9, <1>12, <1>13, <1>15 DEF IInv

\* A call returns; the last one of all frees what it unlinked.
LEMMA ReturnStep ==
    ASSUME IInv, NEW t \in Threads, Return(t)
    PROVE  IInv'
<1>1. Types /\ Nesting /\ Pointers /\ DeadOnes /\ Walks /\ SlotsOK /\ NoCycle
    BY DEF IInv
<1>2. frames[t] # << >> /\ frames[t][1].pc = "free" /\ ~exited
    BY DEF Return, In
<1>3. PICK f : f = frames[t][1]
    OBVIOUS
<1>4. f \in Call1 /\ 1 \in DOMAIN frames[t] /\ f.dead \subseteq HeapNodes
    BY <1>2, <1>3, Innermost DEF Call1
<1>5. /\ frames' = [frames EXCEPT ![t] = Tail(@)] /\ exited' = (f.dso = NoDso)
      /\ UNCHANGED << top, mutex, call_depth, made, budget >>
    BY <1>3 DEF Return
<1>6. /\ frames' \in [Threads -> Seq(Call1)]
      /\ frames'[t] = Tail(frames[t])
      /\ Len(frames'[t]) = Len(frames[t]) - 1
      /\ DOMAIN frames'[t] = 1..(Len(frames[t]) - 1)
      /\ \A i \in DOMAIN frames'[t] :
            i + 1 \in DOMAIN frames[t] /\ frames'[t][i] = frames[t][i + 1]
      /\ \A u \in Threads : u # t => frames'[u] = frames[u]
    BY <1>1, <1>2, <1>5, PopFacts DEF Types
<1>7. Nesting'
    BY <1>1, <1>2, <1>5, NestingReturn
<1>8. Len(frames[t]) \in Nat /\ DOMAIN frames[t] = 1..Len(frames[t]) /\ exited' \in BOOLEAN
    BY <1>1, <1>5, HoldingFacts DEF Types
\* Every frame left was there.
<1>9. ASSUME NEW u \in Threads, NEW i \in DOMAIN frames'[u]
      PROVE  \E k \in DOMAIN frames[u] :
                /\ frames'[u][i] = frames[u][k] /\ (u = t => k # 1)
                /\ (i = Len(frames'[u])) = (k = Len(frames[u]))
                /\ (i < Len(frames'[u])) = (k < Len(frames[u]))
    <2>1. CASE u # t
        BY <1>6, <2>1
    <2>2. CASE u = t
        <3>1. i + 1 \in DOMAIN frames[t] /\ frames'[t][i] = frames[t][i + 1] /\ i \in Nat
              /\ i + 1 # 1
            BY <1>6, <1>8, <2>2
        <3>2. (i = Len(frames'[t])) = (i + 1 = Len(frames[t]))
              /\ (i < Len(frames'[t])) = (i + 1 < Len(frames[t]))
            BY <1>6, <1>8, <3>1
        <3> QED
            BY <2>2, <3>1, <3>2
    <2> QED
        BY <2>1, <2>2
<1>10. Quiet' => Quiet
    <2> SUFFICES ASSUME ~Exiting', ~exited',
                        NEW u \in Threads, NEW i \in DOMAIN frames[u], frames[u][i].dso = NoDso
                 PROVE  FALSE
        BY <1>2 DEF Quiet, Exiting
    <2>1. CASE u = t
        <3>1. i # 1
            BY <1>3, <1>5, <2>1
        <3>2. i - 1 \in DOMAIN frames'[t] /\ (i - 1) + 1 = i
            BY <1>6, <1>8, <2>1, <3>1
        <3>3. frames'[t][i - 1] = frames[t][i]
            BY <1>6, <3>2
        <3> QED
            BY <2>1, <3>2, <3>3 DEF Exiting
    <2>2. CASE u # t
        BY <1>6, <2>2 DEF Exiting
    <2> QED
        BY <2>1, <2>2
<1>11. CASE call_depth > 0
    <2>1. heap' = heap /\ node' = node
        BY <1>11 DEF Return
    <2>2. ListSame /\ SlotsSame
        BY <1>5, <2>1 DEF ListSame, SlotsSame
    <2>3. /\ Pointers'
          /\ \A n : DeadOK(n) => DeadOK(n)'
          /\ \A fr, b : WalkOK(fr, b) => WalkOK(fr, b)'
        BY <1>1, <2>2, ListSameKeeps
    <2>4. Types'
        BY <1>1, <1>5, <1>6, <1>8, <2>1 DEF Types
    <2>5. DeadOnes'
        <3>1. ASSUME NEW u \in Threads, NEW i \in DOMAIN frames'[u]
              PROVE  /\ i < Len(frames'[u]) => frames'[u][i].dead = {}
                     /\ \A n \in frames'[u][i].dead : DeadOK(n)'
            <4>1. PICK k \in DOMAIN frames[u] :
                     /\ frames'[u][i] = frames[u][k]
                     /\ (i < Len(frames'[u])) = (k < Len(frames[u]))
                BY <1>9
            <4> QED
                BY <1>1, <2>3, <4>1 DEF DeadOnes
        <3>2. \A u, v \in Threads : \A i \in DOMAIN frames'[u], k \in DOMAIN frames'[v] :
                 u # v => frames'[u][i].dead \cap frames'[v][k].dead = {}
            BY <1>1, <1>9 DEF DeadOnes
        <3> QED
            BY <3>1, <3>2 DEF DeadOnes
    <2>6. Walks'
        <3> SUFFICES ASSUME NEW u \in Threads, NEW i \in DOMAIN frames'[u]
                     PROVE  WalkOK(frames[u][i], i = Len(frames[u]))'
            BY DEF Walks
        <3>1. PICK k \in DOMAIN frames[u] :
                 /\ frames'[u][i] = frames[u][k]
                 /\ (i = Len(frames'[u])) = (k = Len(frames[u]))
            BY <1>9
        <3>2. PICK fr, b : fr = frames[u][k] /\ b = (k = Len(frames[u]))
            OBVIOUS
        <3>3. WalkOK(fr, b)
            BY <1>1, <3>2 DEF Walks
        <3>4. WalkOK(fr, b)' /\ fr = frames'[u][i] /\ b = (i = Len(frames'[u]))
            BY <2>3, <3>1, <3>2, <3>3
        <3> QED
            BY <3>4
    <2>7. SlotsOK' /\ NoCycle'
        BY <1>1, <1>10, <2>2, ListSameSlots, ListSameNoCycle
    <2> QED
        BY <1>7, <2>3, <2>4, <2>5, <2>6, <2>7 DEF IInv
<1>12. CASE ~(call_depth > 0)
    \* No call holds the mutex, so no walk is at a node.
    <2>1. mutex = NoThread
        <3> SUFFICES ASSUME mutex \in Threads PROVE FALSE
            BY <1>1 DEF Types
        <3>1. Holding(frames[mutex]) # << >> /\ call_depth = Len(Holding(frames[mutex]))
            BY <1>1 DEF Nesting
        <3>2. frames[mutex] \in Seq(Call1)
            BY <1>1 DEF Types
        <3> QED
            BY <1>12, <3>1, <3>2, HoldingFacts
    <2>2. \A u \in Threads : \A i \in DOMAIN frames[u] :
             i = 1 /\ Len(frames[u]) = 1 /\ frames[u][i].pc = "free"
        <3> SUFFICES ASSUME NEW u \in Threads, NEW i \in DOMAIN frames[u]
                     PROVE  i = 1 /\ Len(frames[u]) = 1 /\ frames[u][i].pc = "free"
            OBVIOUS
        <3>1. frames[u] \in Seq(Call1) /\ mutex # u /\ frames[u] # << >>
            BY <1>1, <2>1, AtexitAssumption DEF Types
        <3> QED
            BY <1>1, <3>1, Others
    <2>3. DOMAIN frames'[t] = {}
        BY <1>6, <1>8, <1>4, <2>2
    <2>4. heap' = heap \ f.dead
          /\ node' = [n \in Nodes |-> IF n \in f.dead THEN Blank ELSE node[n]]
        BY <1>3, <1>12 DEF Return
    <2>5. node' \in [Nodes -> Entry]
        <3>1. Blank \in Entry
            BY DEF Blank, Entry, AllDsos
        <3> QED
            BY <1>1, <2>4, <3>1 DEF Types
    <2>6. Types'
        BY <1>1, <1>5, <1>6, <1>8, <2>4, <2>5 DEF Types
    <2>7. /\ Live' = Live \ f.dead /\ Live \subseteq Nodes /\ NULL \notin Live
          /\ Slots \cap f.dead = {} /\ Slots \subseteq Nodes /\ Slots \subseteq Live'
        BY <1>1, <1>4, <2>4, NodeFacts, LiveNodes DEF Live
    <2>8. /\ \A n \in Live' : node'[n] = node[n]
          /\ \A n \in Nodes : n \notin f.dead => node'[n] = node[n]
        BY <2>4, <2>7
    \* What is freed is in no list.
    <2>9. \A n \in f.dead : DeadOK(n)
        BY <1>1, <1>3, <1>4 DEF DeadOnes
    <2>10. Pointers'
        <3>1. top \in Live' \cup {NULL}
            BY <1>1, <2>7, <2>9 DEF Pointers, DeadOK
        <3>2. \A n \in Live' : node[n].next \in Live' \cup {NULL}
            BY <1>1, <2>7, <2>9 DEF Pointers, DeadOK
        <3> QED
            BY <1>1, <1>5, <2>7, <2>8, <3>1, <3>2 DEF Pointers
    <2>11. DeadOnes'
        <3>1. ASSUME NEW u \in Threads, NEW i \in DOMAIN frames'[u]
              PROVE  /\ i < Len(frames'[u]) => frames'[u][i].dead = {}
                     /\ \A n \in frames'[u][i].dead : DeadOK(n)'
            <4>1. u # t /\ frames'[u] = frames[u]
                BY <1>6, <2>3
            <4>2. frames[u][i].dead \cap f.dead = {}
                BY <1>1, <1>3, <1>4, <4>1 DEF DeadOnes
            <4>3. ASSUME NEW n \in frames[u][i].dead PROVE DeadOK(n)'
                <5>1. DeadOK(n) /\ n \notin f.dead
                    BY <1>1, <4>1, <4>2, <4>3 DEF DeadOnes
                <5>2. n \in heap' /\ n \in Live'
                    BY <2>4, <5>1 DEF DeadOK, Live
                <5> QED
                    BY <1>5, <2>7, <2>8, <5>1, <5>2 DEF DeadOK
            <4> QED
                BY <1>1, <4>1, <4>3 DEF DeadOnes
        <3>2. \A u, v \in Threads : \A i \in DOMAIN frames'[u], k \in DOMAIN frames'[v] :
                 u # v => frames'[u][i].dead \cap frames'[v][k].dead = {}
            BY <1>1, <1>9 DEF DeadOnes
        <3> QED
            BY <3>1, <3>2 DEF DeadOnes
    <2>12. Walks'
        <3> SUFFICES ASSUME NEW u \in Threads, NEW i \in DOMAIN frames'[u]
                     PROVE  WalkOK(frames[u][i], i = Len(frames[u]))'
            BY DEF Walks
        <3>1. frames'[u] = frames[u] /\ frames[u][i].pc = "free"
            BY <1>6, <2>2, <2>3
        <3>2. WalkOK(frames[u][i], i = Len(frames[u]))
            BY <1>1, <3>1 DEF Walks
        <3> QED
            BY <3>1, <3>2 DEF WalkOK
    <2>13. SlotsOK'
        <3>1. \A n \in Slots : node'[n] = node[n]
            BY <2>7, <2>8
        <3> QED
            BY <1>1, <1>5, <1>10, <2>7, <2>8, <3>1 DEF SlotsOK
    <2>14. NoCycle'
        <3> SUFFICES ASSUME Quiet', NEW C \in SUBSET Live', C # {}
                     PROVE  \E n \in C : node'[n].next \notin C
            BY DEF NoCycle
        <3>1. C \in SUBSET Live
            BY <2>7
        <3>2. PICK n \in C : node[n].next \notin C
            BY <1>1, <1>10, <3>1 DEF NoCycle
        <3> QED
            BY <2>8, <3>2
    <2> QED
        BY <1>7, <2>6, <2>10, <2>11, <2>12, <2>13, <2>14 DEF IInv
<1> QED
    BY <1>11, <1>12

-----------------------------------------------------------------------------
(* The inductive invariant *)

\* The process starts with an empty list and no call of __cxa_finalize.
LEMMA InitIInv ==
    ASSUME Init PROVE IInv
<1>1. Blank \in Entry /\ Blank.fn = NoFn /\ Blank.dso = NoDso /\ Blank.next = NULL
    BY DEF Blank, Entry, AllDsos
<1>2. Types
    <2>1. node \in [Nodes -> Entry]
        BY <1>1 DEF Init
    <2>2. frames \in [Threads -> Seq(Call1)]
        BY DEF Init
    <2>3. made \in 0..MaxHandlers /\ budget \in Nat /\ call_depth \in Nat
        BY AtexitAssumption DEF Init
    <2> QED
        BY <2>1, <2>2, <2>3 DEF Init, Types
<1>3. \A t \in Threads : DOMAIN frames[t] = {} /\ frames[t] = << >> /\ Holding(frames[t]) = << >>
    BY DEF Init, Holding
<1>4. Nesting
    BY <1>3, AtexitAssumption DEF Init, Nesting
<1>5. Live \subseteq Nodes /\ NULL \notin Live /\ NULL \notin HeapNodes /\ Slots \subseteq Nodes
      /\ NULL \notin Slots
    BY <1>2, LiveNodes, NodeFacts
<1>6. \A n \in Nodes : node[n].next = NULL /\ node[n].dso = NoDso
    BY <1>1 DEF Init
<1>7. Pointers /\ SlotsOK
    BY <1>5, <1>6 DEF Init, Pointers, SlotsOK
<1>8. DeadOnes /\ Walks
    BY <1>3 DEF DeadOnes, Walks
<1>9. NoCycle
    BY <1>5, <1>6 DEF NoCycle
<1> QED
    BY <1>2, <1>4, <1>7, <1>8, <1>9 DEF IInv

\* Every step preserves it.
LEMMA NextIInv ==
    ASSUME IInv, [Next]_vars PROVE IInv'
<1>1. CASE UNCHANGED vars
    <2>1. Types' /\ Nesting' /\ Walks'
        BY <1>1 DEF vars, IInv, Types, Nesting, Walks, WalkOK, Live
    <2>2. Pointers' /\ DeadOnes'
        BY <1>1 DEF vars, IInv, Pointers, DeadOnes, DeadOK, Live
    <2>3. SlotsOK' /\ NoCycle'
        BY <1>1 DEF vars, IInv, SlotsOK, NoCycle, Quiet, Exiting, Live
    <2> QED
        BY <2>1, <2>2, <2>3 DEF IInv
<1>2. ASSUME NEW t \in Threads, NEW d \in Dsos \cup {NoDso},
             Register(t, d) \/ RegisterFails(t, d)
      PROVE  IInv'
    BY <1>2, RegisterStep, RegisterFailsStep DEF AllDsos
<1>3. ASSUME NEW t \in Threads, NEW d \in Dsos, Finalize(t, d) PROVE IInv'
    <2>1. budget' \in Nat
        BY <1>3 DEF Finalize, IInv, Types
    <2> QED
        BY <1>3, <2>1, BeginStep DEF Finalize, AllDsos
<1>4. ASSUME NEW t \in Threads, Exit(t) PROVE IInv'
    <2>1. budget' \in Nat
        BY <1>4 DEF Exit, IInv, Types
    <2> QED
        BY <1>4, <2>1, BeginStep DEF Exit, AllDsos
<1>5. ASSUME NEW t \in Threads, Finalizing(t) PROVE IInv'
    BY <1>5, SkipStep, SweepStep, CallStep, HandlerReturnsStep, UnlockStep, ReturnStep
       DEF Finalizing
<1> QED
    BY <1>1, <1>2, <1>3, <1>4, <1>5 DEF Next, Gone

\* IInv holds in every reachable state.
LEMMA Inductive ==
    Spec => []IInv
BY InitIInv, NextIInv, PTL DEF Spec

\* The types, and what call_depth counts.
LEMMA IInvTypeOK ==
    ASSUME IInv PROVE TypeOK
<1>1. Types /\ Nesting
    BY DEF IInv
<1>2. /\ node \in [Nodes -> [fn : Handlers \cup {NoFn}, dso : Dsos \cup {NoDso},
                             next : Nodes \cup {NULL}]]
      /\ top \in Nodes \cup {NULL} /\ heap \subseteq HeapNodes
      /\ mutex \in Threads \cup {NoThread}
      /\ made \in 0..MaxHandlers /\ budget \in Nat /\ exited \in BOOLEAN
    BY <1>1 DEF Types, Entry, AllDsos
<1>3. ASSUME NEW t \in Threads, NEW i \in DOMAIN frames[t]
      PROVE  FrameOK(frames[t][i]) /\ (i > 1 => frames[t][i].pc = "call")
    <2>1. frames[t] \in Seq(Call1)
        BY <1>1 DEF Types
    <2>2. frames[t][i] \in Call1
        BY <2>1
    <2> QED
        BY <1>1, <2>2 DEF Call1, FrameOK, AllDsos, Nesting
<1>4. call_depth = Len(ActiveDsos)
    <2>1. CASE mutex = NoThread
        <3>1. ActiveDsos = << >> /\ Len(<< >>) = 0
            BY <2>1 DEF ActiveDsos
        <3> QED
            BY <1>1, <2>1, <3>1 DEF Nesting
    <2>2. CASE mutex # NoThread
        <3> DEFINE h == Holding(frames[mutex])
        <3>1. mutex \in Threads /\ frames[mutex] \in Seq(Call1)
            BY <1>1, <2>2 DEF Types
        <3>2. h \in Seq(Call1) /\ call_depth = Len(h)
            BY <1>1, <3>1 DEF Holding, Nesting
        <3>3. ActiveDsos = [i \in DOMAIN h |-> h[i].dso]
            BY <2>2 DEF ActiveDsos
        <3> HIDE DEF h
        <3> DEFINE a == [i \in 1..Len(h) |-> h[i].dso]
        <3>4. Len(h) \in Nat /\ DOMAIN h = 1..Len(h)
            BY <3>2
        <3>5. a \in Seq({h[i].dso : i \in 1..Len(h)}) /\ Len(a) = Len(h)
            BY <3>4
        <3> QED
            BY <3>2, <3>3, <3>4, <3>5
    <2> QED
        BY <2>1, <2>2
<1>5. ASSUME NEW t \in Threads \ {mutex} PROVE Len(frames[t]) <= 1
    <2>1. frames[t] = << >> \/ Len(frames[t]) = 1
        BY <1>1, Others
    <2>2. 0 <= 1 /\ 1 <= 1
        OBVIOUS
    <2>3. frames[t] \in Seq(Call1)
        BY <1>1 DEF Types
    <2>4. Len(frames[t]) = 0 \/ Len(frames[t]) = 1
        BY <2>1, <2>3, HoldingFacts
    <2> QED
        BY <2>2, <2>4
<1> QED
    BY <1>2, <1>3, <1>4, <1>5 DEF TypeOK

\* In every reachable state of atexit and __cxa_finalize the variables have
\* their types, call_depth counts the calls of __cxa_finalize that hold the
\* mutex, and all but the innermost wait for a handler.
THEOREM TypeCorrect == Spec => []TypeOK
BY Inductive, IInvTypeOK, PTL

-----------------------------------------------------------------------------
(* The list *)

LastNth == NStatic + NHeap + 1

NthStep(g, i) ==
    IF i = 1 THEN top ELSE IF g[i - 1] = NULL THEN NULL ELSE node[g[i - 1]].next

NthUpTo(g, k) == g = [i \in 1..k |-> NthStep(g, i)]

\* The nodes met by following ah_next, however far it is followed.
LEMMA NthExists ==
    ASSUME NEW k \in Nat PROVE \E g : NthUpTo(g, k)
<1> DEFINE S == {n \in Nat : ~ \E g : NthUpTo(g, n)}
<1> SUFFICES ASSUME S # {} PROVE FALSE
    OBVIOUS
<1>1. PICK m \in S : \A x \in S : m <= x
    BY SmallestIn
<1>2. m \in Nat /\ ~ \E g : NthUpTo(g, m)
    OBVIOUS
<1>3. CASE m = 0
    <2>1. PICK g : g = [i \in 1..0 |-> 0]
        OBVIOUS
    <2>2. g = [i \in 1..0 |-> NthStep(g, i)]
        BY <2>1
    <2> QED
        BY <1>2, <1>3, <2>2 DEF NthUpTo
<1>4. CASE m # 0
    <2>1. m - 1 \in Nat /\ m - 1 \notin S
        BY <1>1, <1>2, <1>4
    <2>2. PICK g : NthUpTo(g, m - 1)
        BY <2>1
    <2>3. PICK h : h = [i \in 1..m |-> IF i = m THEN NthStep(g, m) ELSE g[i]]
        OBVIOUS
    <2>4. ASSUME NEW i \in 1..m PROVE h[i] = NthStep(h, i)
        <3>1. i \in Nat /\ (i # 1 => i - 1 \in 1..m /\ i - 1 # m)
            BY <1>2
        <3>2. i # 1 => h[i - 1] = g[i - 1]
            BY <2>3, <3>1
        <3>3. NthStep(h, i) = NthStep(g, i)
            BY <3>2 DEF NthStep
        <3>4. CASE i = m
            BY <2>3, <3>3, <3>4
        <3>5. CASE i # m
            <4>1. i \in 1..(m - 1)
                BY <1>2, <3>5
            <4>2. g[i] = NthStep(g, i)
                BY <2>2, <4>1 DEF NthUpTo
            <4> QED
                BY <2>3, <3>3, <3>5, <4>2
        <3> QED
            BY <3>4, <3>5
    <2>5. h = [i \in 1..m |-> NthStep(h, i)]
        BY <2>3, <2>4
    <2> QED
        BY <1>2, <2>5 DEF NthUpTo
<1> QED
    BY <1>3, <1>4

\* Nth is the function that its recursive definition describes.
LEMMA NthDef ==
    /\ LastNth \in Nat /\ LastNth >= 1 /\ DOMAIN Nth = 1..LastNth
    /\ \A i \in 1..LastNth : Nth[i] = NthStep(Nth, i)
<1>1. LastNth \in Nat /\ LastNth >= 1
    BY AtexitAssumption DEF LastNth
<1>2. PICK g : NthUpTo(g, LastNth)
    BY <1>1, NthExists
<1>3. Nth = CHOOSE n : n = [i \in 1..LastNth |-> NthStep(n, i)]
    BY DEF Nth, LastNth, NthStep
<1>4. g = [i \in 1..LastNth |-> NthStep(g, i)]
    BY <1>2 DEF NthUpTo
<1>5. Nth = [i \in 1..LastNth |-> NthStep(Nth, i)]
    BY <1>3, <1>4
<1> QED
    BY <1>1, <1>5

\* Following ah_next leads to nodes that are not freed.
LEMMA NthLive ==
    ASSUME IInv PROVE \A i \in 1..LastNth : Nth[i] \in Live \cup {NULL}
<1> DEFINE S == {i \in 1..LastNth : Nth[i] \notin Live \cup {NULL}}
<1> SUFFICES ASSUME S # {} PROVE FALSE
    OBVIOUS
<1>1. S \in SUBSET Nat
    OBVIOUS
<1>2. PICK m \in S : \A x \in S : m <= x
    BY <1>1, SmallestIn
<1>3. m \in 1..LastNth /\ LastNth \in Nat /\ Nth[m] = NthStep(Nth, m)
    BY NthDef
<1>4. CASE m = 1
    BY <1>2, <1>3, <1>4 DEF NthStep, IInv, Pointers
<1>5. CASE m # 1
    <2>1. m - 1 \in 1..LastNth /\ ~(m <= m - 1)
        BY <1>3, <1>5
    <2>2. Nth[m - 1] \in Live \cup {NULL}
        BY <1>2, <2>1
    <2> QED
        BY <1>2, <1>3, <1>5, <2>2 DEF NthStep, IInv, Pointers
<1> QED
    BY <1>4, <1>5

\* The invariant shows that nothing freed is in use.
LEMMA IInvNoUseAfterFree ==
    ASSUME IInv PROVE NoUseAfterFree
<1>1. Linked \subseteq Slots \cup heap
    BY NthDef, NthLive DEF Linked, Live
<1>2. ASSUME NEW t \in Threads, NEW i \in DOMAIN frames[t], NEW n \in frames[t][i].dead
      PROVE  n \in heap
    BY DEF IInv, DeadOnes, DeadOK
<1>3. ASSUME NEW t \in Threads, NEW i \in DOMAIN frames[t]
      PROVE  {frames[t][i].prevp, frames[t][i].ah} \subseteq Live \cup {NULL}
    BY DEF IInv, Walks, WalkOK
<1> QED
    BY <1>1, <1>2, <1>3 DEF NoUseAfterFree, Live

\* No entry of the list, and none that a walk of __cxa_finalize holds while a
\* handler runs or keeps to free later, is ever freed: whatever handlers
\* register, finalize or call exit, at any depth and in any thread.
THEOREM EntriesNotFreed == Spec => []NoUseAfterFree
BY Inductive, IInvNoUseAfterFree, PTL

\* Before exit the list ends.
LEMMA IInvAcyclic ==
    ASSUME IInv, Quiet PROVE Acyclic
<1> SUFFICES ASSUME Nth[LastNth] # NULL PROVE FALSE
    BY DEF Acyclic, LastNth
<1>1. /\ LastNth \in Nat /\ LastNth >= 1 /\ DOMAIN Nth = 1..LastNth
      /\ \A i \in 1..LastNth : Nth[i] = NthStep(Nth, i)
    BY NthDef
\* Each is followed by the next.
<1>2. \A i \in 1..LastNth : Nth[i] # NULL
    <2> SUFFICES ASSUME NEW e \in 1..LastNth, Nth[e] = NULL PROVE FALSE
        OBVIOUS
    <2> DEFINE T == {i \in 1..LastNth : e <= i /\ Nth[i] # NULL}
    <2>1. LastNth \in T
        BY <1>1
    <2>2. PICK m \in T : \A x \in T : m <= x
        <3>1. T \in SUBSET Nat /\ T # {}
            BY <2>1
        <3> HIDE DEF T
        <3> QED
            BY <3>1, SmallestIn
    <2>3. m # e /\ m \in 1..LastNth /\ e <= m /\ m # 1 /\ m - 1 \in 1..LastNth /\ e <= m - 1
          /\ ~(m <= m - 1)
        BY <1>1, <2>2
    <2>4. Nth[m - 1] = NULL
        BY <2>2, <2>3
    <2>5. Nth[m] = NULL
        BY <1>1, <2>3, <2>4 DEF NthStep
    <2> QED
        BY <2>2, <2>5
<1>3. \A i \in 1..LastNth : Nth[i] \in Live
    BY <1>2, NthLive
<1>4. ASSUME NEW i \in 1..LastNth, i # LastNth
      PROVE  i + 1 \in 1..LastNth /\ node[Nth[i]].next = Nth[i + 1]
    <2>1. i + 1 \in 1..LastNth /\ i + 1 # 1 /\ (i + 1) - 1 = i
        BY <1>1, <1>4
    <2>2. Nth[i + 1] = NthStep(Nth, i + 1)
        BY <1>1, <2>1
    <2> QED
        BY <1>2, <2>1, <2>2 DEF NthStep
\* There are more of them than nodes, so one comes twice.
<1>5. PICK i \in 1..LastNth, j \in 1..LastNth : i # j /\ Nth[i] = Nth[j]
    <2>1. Nodes = 1..(NStatic + NHeap) /\ NStatic + NHeap \in Nat
        BY AtexitAssumption DEF Nodes, Slots, HeapNodes
    <2>2. IsFiniteSet(Nodes) /\ Cardinality(Nodes) = NStatic + NHeap
        <3>1. /\ IsFiniteSet(1..(NStatic + NHeap))
              /\ Cardinality(1..(NStatic + NHeap)) =
                    IF 1 > NStatic + NHeap THEN 0 ELSE (NStatic + NHeap) - 1 + 1
            BY <2>1, FS_Interval
        <3> QED
            BY <2>1, <3>1
    <2>3. IsFiniteSet(1..LastNth) /\ Cardinality(1..LastNth) = LastNth
        <3>1. /\ IsFiniteSet(1..LastNth)
              /\ Cardinality(1..LastNth) = IF 1 > LastNth THEN 0 ELSE LastNth - 1 + 1
            BY <1>1, FS_Interval
        <3> QED
            BY <1>1, <3>1
    <2>4. NStatic + NHeap < LastNth
        BY <2>1 DEF LastNth
    <2>5. \A k \in 1..LastNth : Nth[k] \in Nodes
        BY <1>3, LiveNodes DEF IInv
    <2> DEFINE h == [k \in 1..LastNth |-> Nth[k]]
    <2>6. h \in [1..LastNth -> Nodes]
        BY <2>5
    <2> HIDE DEF h
    <2>7. \E x, y \in 1..LastNth : x # y /\ h[x] = h[y]
        BY <2>2, <2>3, <2>4, <2>6, FS_PigeonHole
    <2> QED
        BY <2>7 DEF h
<1>6. ASSUME NEW a \in 1..LastNth, NEW b \in 1..LastNth, a < b, Nth[a] = Nth[b] PROVE FALSE
    <2> DEFINE C == {Nth[k] : k \in a..(b - 1)}
    <2>1. \A k \in a..(b - 1) : k \in 1..LastNth /\ k # LastNth
        BY <1>1, <1>6
    <2>2. C \in SUBSET Live
        BY <1>3, <2>1
    <2>3. a \in a..(b - 1)
        BY <1>1, <1>6
    <2>4. ASSUME NEW k \in a..(b - 1) PROVE node[Nth[k]].next \in C
        <3>1. node[Nth[k]].next = Nth[k + 1]
            BY <1>4, <2>1
        <3>2. CASE k + 1 = b
            BY <1>6, <2>3, <3>1, <3>2
        <3>3. CASE k + 1 # b
            <4>1. k + 1 \in a..(b - 1)
                BY <1>1, <3>3
            <4> QED
                BY <3>1, <4>1
        <3> QED
            BY <3>2, <3>3
    <2>5. C # {} /\ \A n \in C : node[n].next \in C
        BY <2>3, <2>4
    <2> HIDE DEF C
    <2> QED
        BY <2>2, <2>5 DEF IInv, NoCycle
<1> QED
    BY <1>1, <1>5, <1>6

\* The list of handlers can only become cyclic while exit runs handlers: no slot
\* that is linked is taken for a free one before.
THEOREM CyclesOnlyAtExit == Spec => []CyclicOnlyAtExit
<1>1. IInv => CyclicOnlyAtExit
    BY IInvAcyclic DEF Quiet, CyclicOnlyAtExit
<1> QED
    BY <1>1, Inductive, PTL

-----------------------------------------------------------------------------
(* The list as a sequence *)

\* What holds of a, and of the next number with each up to n, holds up to n.
LEMMA UpTo ==
    ASSUME NEW a \in Nat, NEW n \in Nat, NEW S, a \in S,
           \A i \in a..n : i < n /\ i \in S => i + 1 \in S
    PROVE  \A i \in a..n : i \in S
<1> DEFINE T == {i \in a..n : i \notin S}
<1> SUFFICES ASSUME T # {} PROVE FALSE
    OBVIOUS
<1>1. T \in SUBSET Nat
    OBVIOUS
<1>2. PICK m \in T : \A x \in T : m <= x
    BY <1>1, SmallestIn
<1>3. m \in a..n /\ m # a /\ m - 1 \in a..n /\ m - 1 < n /\ (m - 1) + 1 = m
      /\ ~(m <= m - 1) /\ m \notin S
    BY <1>2
<1>4. m - 1 \in S
    BY <1>2, <1>3
<1> QED
    BY <1>3, <1>4

\* s is the list's nodes in order; the last leads to none or back into the list.
ListIs(s, n) ==
    /\ n \in Nat /\ s \in [1..n -> Live]
    /\ \A i, j \in 1..n : s[i] = s[j] => i = j
    /\ top = IF n = 0 THEN NULL ELSE s[1]
    /\ \A i \in 1..n : i < n => node[s[i]].next = s[i + 1]
    /\ n # 0 => node[s[n]].next = NULL \/ \E i \in 1..n : node[s[n]].next = s[i]

Ends(s, n) == n = 0 \/ node[s[n]].next = NULL

\* How many numbers there are up to n.
LEMMA CountTo ==
    ASSUME NEW n \in Nat PROVE IsFiniteSet(1..n) /\ Cardinality(1..n) = n
<1>1. IsFiniteSet(1..n) /\ Cardinality(1..n) = IF 1 > n THEN 0 ELSE n - 1 + 1
    BY FS_Interval
<1> QED
    BY <1>1

\* A list has no more entries than there are nodes.
LEMMA ListBound ==
    ASSUME IInv, NEW s, NEW n, ListIs(s, n)
    PROVE  n \in Nat /\ NStatic + NHeap \in Nat /\ n <= NStatic + NHeap
<1>1. Nodes = 1..(NStatic + NHeap) /\ NStatic + NHeap \in Nat /\ n \in Nat
    <2>1. Nodes = 1..(NStatic + NHeap) /\ NStatic + NHeap \in Nat
        BY AtexitAssumption DEF Nodes, Slots, HeapNodes
    <2>2. n \in Nat
        BY DEF ListIs
    <2> QED
        BY <2>1, <2>2
<1>2. IsFiniteSet(Nodes) /\ Cardinality(Nodes) = NStatic + NHeap
    BY <1>1, CountTo
<1>3. IsFiniteSet(1..n) /\ Cardinality(1..n) = n
    BY <1>1, CountTo
<1>4. s \in [1..n -> Nodes]
    BY LiveNodes DEF IInv, ListIs
<1>5. ASSUME NStatic + NHeap < n PROVE FALSE
    <2>1. \E x, y \in 1..n : x # y /\ s[x] = s[y]
        BY <1>2, <1>3, <1>4, <1>5, FS_PigeonHole
    <2> QED
        BY <2>1 DEF ListIs
<1> QED
    BY <1>1, <1>5

\* Following ah_next meets the entries in order, then none or some again.
LEMMA ListNth ==
    ASSUME IInv, NEW s, NEW n, ListIs(s, n)
    PROVE  /\ \A i \in 1..n : i \in DOMAIN Nth /\ Nth[i] = s[i]
           /\ \A i \in DOMAIN Nth : Nth[i] = NULL \/ \E k \in 1..n : Nth[i] = s[k]
<1>1. n \in Nat /\ n <= LastNth - 1 /\ LastNth \in Nat /\ LastNth >= 1
      /\ DOMAIN Nth = 1..LastNth /\ \A i \in 1..LastNth : Nth[i] = NthStep(Nth, i)
    BY ListBound, NthDef DEF LastNth
<1>2. NULL \notin Live /\ \A i \in 1..n : s[i] \in Live
    BY LiveNodes DEF IInv, ListIs
<1>3. \A i \in 1..n : Nth[i] = s[i]
    <2> DEFINE S == {i \in 1..n : Nth[i] = s[i]}
    <2>1. CASE n = 0
        BY <2>1
    <2>2. CASE n # 0
        <3>1. 1 \in S
            BY <1>1, <2>2 DEF NthStep, ListIs
        <3>2. ASSUME NEW i \in 1..n, i < n, i \in S PROVE i + 1 \in S
            <4>1. i + 1 \in 1..n /\ i + 1 \in 1..LastNth /\ i + 1 # 1 /\ (i + 1) - 1 = i
                BY <1>1, <3>2
            <4>2. Nth[i] = s[i] /\ s[i] # NULL /\ node[s[i]].next = s[i + 1]
                BY <1>2, <3>2 DEF ListIs
            <4>3. Nth[i + 1] = s[i + 1]
                BY <1>1, <4>1, <4>2 DEF NthStep
            <4> QED
                BY <4>1, <4>3
        <3> HIDE DEF S
        <3>3. \A i \in 1..n : i \in S
            BY <1>1, <3>1, <3>2, UpTo
        <3> QED
            BY <3>3 DEF S
    <2> QED
        BY <2>1, <2>2
<1>4. \A i \in 1..LastNth : Nth[i] = NULL \/ \E k \in 1..n : Nth[i] = s[k]
    <2> DEFINE S == {i \in 1..LastNth : Nth[i] = NULL \/ \E k \in 1..n : Nth[i] = s[k]}
    <2>1. 1 \in S
        <3>1. Nth[1] = top /\ 1 \in 1..LastNth
            BY <1>1 DEF NthStep
        <3>2. n # 0 => 1 \in 1..n
            BY <1>1
        <3> QED
            BY <3>1, <3>2 DEF ListIs
    <2>2. ASSUME NEW i \in 1..LastNth, i < LastNth, i \in S PROVE i + 1 \in S
        <3>1. i + 1 \in 1..LastNth /\ i + 1 # 1 /\ (i + 1) - 1 = i
            BY <1>1, <2>2
        <3>2. Nth[i + 1] = IF Nth[i] = NULL THEN NULL ELSE node[Nth[i]].next
            BY <1>1, <3>1 DEF NthStep
        <3>3. CASE Nth[i] = NULL
            BY <3>1, <3>2, <3>3
        <3>4. CASE Nth[i] # NULL
            <4>1. PICK k \in 1..n : Nth[i] = s[k]
                BY <2>2, <3>4
            <4>2. CASE k < n
                <5>1. k + 1 \in 1..n /\ node[s[k]].next = s[k + 1]
                    BY <1>1, <4>2 DEF ListIs
                <5> QED
                    BY <3>1, <3>2, <3>4, <4>1, <5>1
            <4>3. CASE ~(k < n)
                <5>1. k = n /\ n # 0
                    BY <1>1, <4>3
                <5>2. node[s[n]].next = NULL \/ \E j \in 1..n : node[s[n]].next = s[j]
                    BY <5>1 DEF ListIs
                <5> QED
                    BY <3>1, <3>2, <3>4, <4>1, <5>1, <5>2
            <4> QED
                BY <4>2, <4>3
        <3> QED
            BY <3>3, <3>4
    <2> HIDE DEF S
    <2>3. \A i \in 1..LastNth : i \in S
        BY <1>1, <2>1, <2>2, UpTo
    <2> QED
        BY <2>3 DEF S
<1> QED
    BY <1>1, <1>3, <1>4

\* The linked nodes, and how many they are.
LEMMA ListLinked ==
    ASSUME IInv, NEW s, NEW n, ListIs(s, n)
    PROVE  Cardinality(Linked) = n /\ \A m : m \in Linked <=> \E i \in 1..n : m = s[i]
<1>1. /\ \A i \in 1..n : i \in DOMAIN Nth /\ Nth[i] = s[i]
      /\ \A i \in DOMAIN Nth : Nth[i] = NULL \/ \E k \in 1..n : Nth[i] = s[k]
    BY ListNth
<1>2. NULL \notin Live /\ \A i \in 1..n : s[i] \in Live
    BY LiveNodes DEF IInv, ListIs
<1>3. \A m : m \in Linked <=> \E i \in 1..n : m = s[i]
    <2>1. ASSUME NEW m \in Linked PROVE \E i \in 1..n : m = s[i]
        BY <1>1 DEF Linked
    <2>2. ASSUME NEW i \in 1..n PROVE s[i] \in Linked
        BY <1>1, <1>2 DEF Linked
    <2> QED
        BY <2>1, <2>2
<1>4. n \in Nat /\ s \in [1..n -> Linked]
    BY <1>3 DEF ListIs
<1>5. IsFiniteSet(1..n) /\ Cardinality(1..n) = n
    BY <1>4, CountTo
<1>6. s \in Injection(1..n, Linked)
    BY <1>4 DEF Injection, IsInjective, ListIs
<1>7. s \in Surjection(1..n, Linked)
    BY <1>3, <1>4 DEF Surjection
<1>8. ExistsBijection(1..n, Linked)
    BY <1>6, <1>7 DEF ExistsBijection, Bijection
<1>9. Cardinality(Linked) = Cardinality(1..n)
    BY <1>5, <1>8, FS_Bijection
<1> QED
    BY <1>3, <1>5, <1>9

\* The list has no cycle exactly when its last entry leads to none.
LEMMA ListAcyclic ==
    ASSUME IInv, NEW s, NEW n, ListIs(s, n)
    PROVE  Acyclic <=> Ends(s, n)
<1>1. n \in Nat /\ n <= LastNth - 1 /\ LastNth \in Nat /\ LastNth >= 1
      /\ DOMAIN Nth = 1..LastNth /\ \A i \in 1..LastNth : Nth[i] = NthStep(Nth, i)
    BY ListBound, NthDef DEF LastNth
<1>2. NULL \notin Live /\ \A i \in 1..n : s[i] \in Live
    BY LiveNodes DEF IInv, ListIs
<1>3. /\ \A i \in 1..n : i \in DOMAIN Nth /\ Nth[i] = s[i]
      /\ \A i \in DOMAIN Nth : Nth[i] = NULL \/ \E k \in 1..n : Nth[i] = s[k]
    BY ListNth
<1>4. \A i \in 1..LastNth : i < LastNth =>
         i + 1 \in 1..LastNth /\ Nth[i + 1] = IF Nth[i] = NULL THEN NULL ELSE node[Nth[i]].next
    <2> SUFFICES ASSUME NEW i \in 1..LastNth, i < LastNth
                 PROVE  /\ i + 1 \in 1..LastNth
                        /\ Nth[i + 1] = IF Nth[i] = NULL THEN NULL ELSE node[Nth[i]].next
        OBVIOUS
    <2>1. i + 1 \in 1..LastNth /\ i + 1 # 1 /\ (i + 1) - 1 = i
        BY <1>1
    <2> QED
        BY <1>1, <2>1 DEF NthStep
<1>5. ASSUME Ends(s, n) PROVE Nth[LastNth] = NULL
    <2> DEFINE S == {i \in 1..LastNth : Nth[i] = NULL}
    <2>1. n + 1 \in 1..LastNth
        BY <1>1
    <2>2. Nth[n + 1] = NULL
        <3>1. CASE n = 0
            BY <1>1, <2>1, <3>1 DEF NthStep, ListIs
        <3>2. CASE n # 0
            <4>1. n \in 1..n /\ n \in 1..LastNth /\ n < LastNth
                BY <1>1, <3>2
            <4>2. Nth[n] = s[n] /\ s[n] # NULL /\ node[s[n]].next = NULL
                BY <1>2, <1>3, <1>5, <3>2, <4>1 DEF Ends
            <4> QED
                BY <1>4, <4>1, <4>2
        <3> QED
            BY <3>1, <3>2
    <2>3. n + 1 \in Nat /\ n + 1 \in S
        BY <1>1, <2>1, <2>2
    <2>4. ASSUME NEW i \in (n + 1)..LastNth, i < LastNth, i \in S PROVE i + 1 \in S
        <3>1. i \in 1..LastNth /\ Nth[i] = NULL
            BY <2>4
        <3> QED
            BY <1>4, <2>4, <3>1
    <2> HIDE DEF S
    <2>5. \A i \in (n + 1)..LastNth : i \in S
        BY <1>1, <2>3, <2>4, UpTo
    <2>6. LastNth \in (n + 1)..LastNth
        BY <1>1
    <2>7. LastNth \in S
        BY <2>5, <2>6
    <2> QED
        BY <2>7 DEF S
<1>6. ASSUME ~Ends(s, n) PROVE Nth[LastNth] # NULL
    <2> DEFINE S == {i \in 1..LastNth : Nth[i] # NULL}
    <2>1. n # 0 /\ \E j \in 1..n : node[s[n]].next = s[j]
        BY <1>6 DEF Ends, ListIs
    <2>2. 1 \in S
        <3>1. 1 \in 1..n /\ 1 \in 1..LastNth
            BY <1>1, <2>1
        <3> QED
            BY <1>2, <1>3, <3>1
    <2>3. ASSUME NEW i \in 1..LastNth, i < LastNth, i \in S PROVE i + 1 \in S
        <3>1. PICK k \in 1..n : Nth[i] = s[k]
            BY <1>1, <1>3, <2>3
        <3>2. node[s[k]].next \in Live
            <4>1. CASE k < n
                <5>1. k + 1 \in 1..n /\ node[s[k]].next = s[k + 1]
                    BY <1>1, <4>1 DEF ListIs
                <5> QED
                    BY <1>2, <5>1
            <4>2. CASE ~(k < n)
                <5>1. k = n
                    BY <1>1, <4>2
                <5> QED
                    BY <1>2, <2>1, <5>1
            <4> QED
                BY <4>1, <4>2
        <3> QED
            BY <1>2, <1>4, <2>3, <3>1, <3>2
    <2> HIDE DEF S
    <2>4. \A i \in 1..LastNth : i \in S
        BY <1>1, <2>2, <2>3, UpTo
    <2>5. LastNth \in 1..LastNth
        BY <1>1
    <2>6. LastNth \in S
        BY <2>4, <2>5
    <2> QED
        BY <2>6 DEF S
<1> QED
    BY <1>5, <1>6 DEF Acyclic, LastNth

-----------------------------------------------------------------------------
(* The entries not yet called *)

Ev == [fn : Handlers, dso : AllDsos]

\* What the first i nodes of the list s contribute, for each i.
Collects(q, s, n) ==
    /\ q \in [0..n -> Seq(Ev)] /\ q[0] = << >>
    /\ \A i \in 1..n : q[i] = q[i - 1] \o Uncalled(s[i])

\* A node contributes its entry, or nothing once its handler was called.
LEMMA UncalledFacts ==
    ASSUME Types, NEW m \in Nodes
    PROVE  /\ Uncalled(m) \in Seq(Ev)
           /\ node[m].fn = NoFn => Uncalled(m) = << >>
           /\ node[m].fn # NoFn =>
                 Uncalled(m) = << [fn |-> node[m].fn, dso |-> node[m].dso] >>
                 /\ [fn |-> node[m].fn, dso |-> node[m].dso] \in Ev
<1>1. node[m].fn \in Handlers \cup {NoFn} /\ node[m].dso \in AllDsos
    BY DEF Types, Entry
<1>2. CASE node[m].fn = NoFn
    BY <1>2 DEF Uncalled
<1>3. CASE node[m].fn # NoFn
    <2>1. [fn |-> node[m].fn, dso |-> node[m].dso] \in Ev
        BY <1>1, <1>3 DEF Ev
    <2>2. Uncalled(m) = << [fn |-> node[m].fn, dso |-> node[m].dso] >>
        BY <1>3 DEF Uncalled
    <2> QED
        BY <1>3, <2>1, <2>2
<1> QED
    BY <1>2, <1>3

FirstStep(g, i) == IF i = 0 THEN << >> ELSE g[i - 1] \o Uncalled(Nth[i])

FirstUpTo(g, k) == g = [i \in 0..k |-> FirstStep(g, i)]

\* FirstPending is the function that its recursive definition describes.
LEMMA FirstDef ==
    /\ FirstPending[0] = << >>
    /\ \A i \in 1..(NStatic + NHeap) :
          FirstPending[i] = FirstPending[i - 1] \o Uncalled(Nth[i])
<1> DEFINE N == NStatic + NHeap
           S == {k \in 0..N : \E g : FirstUpTo(g, k)}
<1>1. N \in Nat
    BY AtexitAssumption
<1>2. 0 \in S
    <2>1. PICK g : g = [i \in 0..0 |-> << >>]
        OBVIOUS
    <2>2. g = [i \in 0..0 |-> FirstStep(g, i)]
        BY <2>1 DEF FirstStep
    <2> QED
        BY <1>1, <2>2 DEF FirstUpTo
<1>3. ASSUME NEW k \in 0..N, k < N, k \in S PROVE k + 1 \in S
    <2>1. PICK g : FirstUpTo(g, k)
        BY <1>3
    <2>2. PICK h : h = [i \in 0..(k + 1) |-> IF i = k + 1 THEN FirstStep(g, i) ELSE g[i]]
        OBVIOUS
    <2>3. ASSUME NEW i \in 0..(k + 1) PROVE h[i] = FirstStep(h, i)
        <3>1. i # 0 => i - 1 \in 0..(k + 1) /\ i - 1 # k + 1
            BY <1>1
        <3>2. i # 0 => h[i - 1] = g[i - 1]
            BY <2>2, <3>1
        <3>3. FirstStep(h, i) = FirstStep(g, i)
            BY <3>2 DEF FirstStep
        <3>4. CASE i = k + 1
            BY <2>2, <3>3, <3>4
        <3>5. CASE i # k + 1
            <4>1. i \in 0..k
                BY <1>1, <3>5
            <4>2. g[i] = FirstStep(g, i)
                BY <2>1, <4>1 DEF FirstUpTo
            <4> QED
                BY <2>2, <3>3, <3>5, <4>2
        <3> QED
            BY <3>4, <3>5
    <2>4. h = [i \in 0..(k + 1) |-> FirstStep(h, i)]
        BY <2>2, <2>3
    <2>5. k + 1 \in 0..N
        BY <1>1, <1>3
    <2> QED
        BY <2>4, <2>5 DEF FirstUpTo
<1>4. \A k \in 0..N : k \in S
    <2> HIDE DEF S, N
    <2> QED
        BY <1>1, <1>2, <1>3, UpTo
<1>5. N \in 0..N
    BY <1>1
<1>6. PICK g : g = [i \in 0..N |-> FirstStep(g, i)]
    BY <1>4, <1>5 DEF FirstUpTo
<1>7. FirstPending = CHOOSE f : f = [i \in 0..N |-> FirstStep(f, i)]
    BY DEF FirstPending, FirstStep
<1> HIDE DEF N
<1>8. FirstPending = [i \in 0..N |-> FirstStep(FirstPending, i)]
    BY <1>6, <1>7
<1>9. 0 \in 0..N /\ \A i \in 1..N : i \in 0..N /\ i # 0
    BY <1>1
<1>10. FirstPending[0] = << >> /\ \A i \in 1..N : FirstPending[i] = FirstPending[i - 1] \o Uncalled(Nth[i])
    BY <1>8, <1>9 DEF FirstStep
<1> QED
    BY <1>10 DEF N

\* The entries not yet called are those that all the nodes of the list contribute.
LEMMA PendingIs ==
    ASSUME IInv, NEW s, NEW n, ListIs(s, n), NEW q, Collects(q, s, n)
    PROVE  PendingEntries = q[n]
<1>1. n \in Nat /\ n <= NStatic + NHeap /\ NStatic + NHeap \in Nat
    BY ListBound
<1>2. \A i \in 1..n : Nth[i] = s[i]
    BY ListNth
<1>3. PendingEntries = FirstPending[n]
    BY ListLinked DEF PendingEntries
<1> DEFINE S == {i \in 0..n : FirstPending[i] = q[i]}
<1>4. 0 \in S
    BY <1>1, FirstDef DEF Collects
<1>5. ASSUME NEW i \in 0..n, i < n, i \in S PROVE i + 1 \in S
    <2>1. i + 1 \in 1..n /\ i + 1 \in 0..n /\ i + 1 \in 1..(NStatic + NHeap) /\ (i + 1) - 1 = i
        BY <1>1, <1>5
    <2>2. FirstPending[i + 1] = FirstPending[i] \o Uncalled(Nth[i + 1])
        BY <2>1, FirstDef
    <2>3. q[i + 1] = q[i] \o Uncalled(s[i + 1])
        BY <2>1 DEF Collects
    <2> QED
        BY <1>2, <1>5, <2>1, <2>2, <2>3
<1>6. \A i \in 0..n : i \in S
    <2> HIDE DEF S
    <2> QED
        BY <1>1, <1>4, <1>5, UpTo
<1>7. n \in 0..n
    BY <1>1
<1> QED
    BY <1>3, <1>6, <1>7

\* There are such contributions.
LEMMA CollectsExists ==
    ASSUME IInv, NEW s, NEW n, ListIs(s, n)
    PROVE  \E q : Collects(q, s, n) /\ PendingEntries = q[n]
<1>1. n \in Nat /\ n <= NStatic + NHeap /\ NStatic + NHeap \in Nat
    BY ListBound
<1>2. \A i \in 1..n : Nth[i] = s[i] /\ s[i] \in Nodes
    BY ListNth, LiveNodes DEF ListIs, IInv
<1>3. PICK q : q = [i \in 0..n |-> FirstPending[i]]
    OBVIOUS
<1>4. q[0] = << >> /\ \A i \in 1..n : q[i] = q[i - 1] \o Uncalled(s[i])
    <2>1. 0 \in 0..n /\ \A i \in 1..n : i \in 0..n /\ i - 1 \in 0..n /\ i \in 1..(NStatic + NHeap)
        BY <1>1
    <2> QED
        BY <1>2, <1>3, <2>1, FirstDef
<1> DEFINE S == {i \in 0..n : q[i] \in Seq(Ev)}
<1>5. 0 \in S
    <2>1. 0 \in 0..n /\ << >> \in Seq(Ev)
        BY <1>1
    <2> QED
        BY <1>4, <2>1, Zenon
<1>6. ASSUME NEW i \in 0..n, i < n, i \in S PROVE i + 1 \in S
    <2>1. i + 1 \in 1..n /\ i + 1 \in 0..n /\ (i + 1) - 1 = i
        BY <1>1, <1>6
    <2>2. q[i + 1] = q[i] \o Uncalled(s[i + 1])
        BY <1>4, <2>1
    <2>3. s[i + 1] \in Nodes /\ q[i] \in Seq(Ev)
        BY <1>2, <1>6, <2>1
    <2>4. Uncalled(s[i + 1]) \in Seq(Ev)
        BY <2>3, UncalledFacts, Zenon DEF IInv
    <2>5. q[i + 1] \in Seq(Ev)
        BY <2>2, <2>3, <2>4
    <2> QED
        BY <2>1, <2>5
<1>7. \A i \in 0..n : i \in S
    <2> HIDE DEF S
    <2> QED
        BY <1>1, <1>5, <1>6, UpTo
<1>8. q \in [0..n -> Seq(Ev)]
    BY <1>3, <1>7
<1>9. Collects(q, s, n)
    BY <1>4, <1>8 DEF Collects
<1> QED
    BY <1>9, PendingIs

\* The entries of two sequences, one after the other.
LEMMA ConcatFacts ==
    ASSUME NEW a \in Seq(Ev), NEW b \in Seq(Ev)
    PROVE  /\ a \o b \in Seq(Ev) /\ Len(a \o b) = Len(a) + Len(b)
           /\ Len(a) \in Nat /\ Len(b) \in Nat
           /\ \A x \in 1..Len(a) : (a \o b)[x] = a[x]
           /\ \A x \in 1..Len(b) : (a \o b)[Len(a) + x] = b[x]
OBVIOUS

Sequences(s, n) == \A i \in 1..n : Uncalled(s[i]) \in Seq(Ev)

Grows(q, n) ==
    \A i \in 0..n : \A j \in i..n :
       Len(q[i]) <= Len(q[j]) /\ \A x \in 1..Len(q[i]) : q[j][x] = q[i][x]

\* What the first nodes contribute is a prefix of what more of them do.
LEMMA CollectsGrows ==
    ASSUME NEW s, NEW n \in Nat, NEW q, Collects(q, s, n), Sequences(s, n)
    PROVE  Grows(q, n)
<1> SUFFICES ASSUME NEW i \in 0..n
             PROVE  \A j \in i..n : /\ Len(q[i]) <= Len(q[j])
                                   /\ \A x \in 1..Len(q[i]) : q[j][x] = q[i][x]
    BY DEF Grows
<1> DEFINE S == {j \in i..n : /\ Len(q[i]) <= Len(q[j])
                              /\ \A x \in 1..Len(q[i]) : q[j][x] = q[i][x]}
<1>1. i \in S /\ i \in Nat /\ q[i] \in Seq(Ev)
    BY DEF Collects
<1>2. ASSUME NEW j \in i..n, j < n, j \in S PROVE j + 1 \in S
    <2>1. j + 1 \in i..n /\ j + 1 \in 1..n /\ (j + 1) - 1 = j /\ j \in 0..n
        BY <1>2
    <2>2. q[j + 1] = q[j] \o Uncalled(s[j + 1])
        BY <2>1 DEF Collects
    <2>3. q[j] \in Seq(Ev) /\ Uncalled(s[j + 1]) \in Seq(Ev)
        BY <2>1 DEF Collects, Sequences
    <2> DEFINE a == q[j]  b == Uncalled(s[j + 1])
    <2>4. Len(a \o b) >= Len(a) /\ (\A x \in 1..Len(a) : (a \o b)[x] = a[x])
          /\ Len(a) \in Nat /\ Len(a \o b) \in Nat
        <3> HIDE DEF a, b
        <3>1. a \in Seq(Ev) /\ b \in Seq(Ev)
            BY <2>3 DEF a, b
        <3>2. Len(a \o b) = Len(a) + Len(b) /\ Len(a) \in Nat /\ Len(b) \in Nat
              /\ \A x \in 1..Len(a) : (a \o b)[x] = a[x]
            BY <3>1, ConcatFacts, Zenon
        <3> QED
            BY <3>2
    <2>5. Len(q[i]) <= Len(a) /\ (\A x \in 1..Len(q[i]) : a[x] = q[i][x])
          /\ Len(q[i]) \in Nat /\ Len(a) \in Nat /\ Len(a \o b) \in Nat
        <3>1. Len(q[i]) \in Nat
            BY <1>1
        <3> QED
            BY <1>2, <2>4, <3>1
    <2> HIDE DEF a, b
    <2>6. Len(q[i]) <= Len(a \o b) /\ \A x \in 1..Len(q[i]) : (a \o b)[x] = q[i][x]
        BY <2>4, <2>5
    <2> QED
        BY <2>1, <2>2, <2>6 DEF a, b
<1>3. \A j \in i..n : j \in S
    <2> HIDE DEF S
    <2> QED
        BY <1>1, <1>2, UpTo
<1> QED
    BY <1>3

\* Each entry not yet called comes from a node whose handler was not called.
LEMMA CollectsFrom ==
    ASSUME Types, NEW n \in Nat, NEW s \in [1..n -> Nodes], NEW q, Collects(q, s, n)
    PROVE  \A k \in 0..n : \A x \in 1..Len(q[k]) : \E i \in 1..k :
              node[s[i]].fn # NoFn /\ q[k][x].dso = node[s[i]].dso
<1> DEFINE P(k) == \A x \in 1..Len(q[k]) : \E i \in 1..k :
                      node[s[i]].fn # NoFn /\ q[k][x].dso = node[s[i]].dso
           S == {k \in 0..n : P(k)}
<1>1. 0 \in S
    <2>1. Len(q[0]) = 0
        BY DEF Collects
    <2> QED
        BY <2>1
<1>2. ASSUME NEW k \in 0..n, k < n, k \in S PROVE k + 1 \in S
    <2>1. k + 1 \in 0..n /\ k + 1 \in 1..n /\ (k + 1) - 1 = k
          /\ (\A i \in 1..k : i \in 1..(k + 1)) /\ k + 1 \in 1..(k + 1)
        BY <1>2
    <2>2. q[k + 1] = q[k] \o Uncalled(s[k + 1]) /\ q[k] \in Seq(Ev)
        BY <2>1 DEF Collects
    <2>3. s[k + 1] \in Nodes
        BY <2>1
    <2>4. P(k)
        BY <1>2
    <2>5. CASE node[s[k + 1]].fn = NoFn
        <3>1. Uncalled(s[k + 1]) = << >>
            BY <2>3, <2>5, UncalledFacts
        <3>2. q[k + 1] = q[k]
            BY <2>2, <3>1
        <3> QED
            BY <2>1, <2>4, <3>2, SMTT(60)
    <2>6. CASE node[s[k + 1]].fn # NoFn
        <3> DEFINE e == [fn |-> node[s[k + 1]].fn, dso |-> node[s[k + 1]].dso]
        <3>1. Uncalled(s[k + 1]) = << e >> /\ e \in Ev /\ e.dso = node[s[k + 1]].dso
            BY <2>3, <2>6, UncalledFacts
        <3> HIDE DEF e
        <3>2. q[k + 1] = q[k] \o << e >>
            BY <2>2, <3>1
        <3>3. ASSUME NEW x \in 1..Len(q[k] \o << e >>)
              PROVE  (x \in 1..Len(q[k]) /\ (q[k] \o << e >>)[x] = q[k][x])
                     \/ (q[k] \o << e >>)[x] = e
            <4>1. << e >> \in Seq(Ev) /\ Len(<< e >>) = 1 /\ << e >>[1] = e
                BY <3>1
            <4>2. x \in 1..Len(q[k]) \/ x = Len(q[k]) + 1
                BY <2>2, <4>1, ConcatFacts
            <4>3. 1 \in 1..Len(<< e >>)
                BY <4>1
            <4>4. x = Len(q[k]) + 1 => (q[k] \o << e >>)[x] = e
                BY <2>2, <4>1, <4>3, ConcatFacts
            <4>5. x \in 1..Len(q[k]) => (q[k] \o << e >>)[x] = q[k][x]
                BY <2>2, <4>1, ConcatFacts
            <4> QED
                BY <4>2, <4>4, <4>5
        <3>4. ASSUME NEW x \in 1..Len(q[k + 1])
              PROVE  \E i \in 1..(k + 1) : node[s[i]].fn # NoFn /\ q[k + 1][x].dso = node[s[i]].dso
            <4>1. (x \in 1..Len(q[k]) /\ q[k + 1][x] = q[k][x]) \/ q[k + 1][x] = e
                BY <3>2, <3>3
            <4>2. CASE x \in 1..Len(q[k]) /\ q[k + 1][x] = q[k][x]
                BY <2>1, <2>4, <4>2, Zenon
            <4>3. CASE q[k + 1][x] = e
                BY <2>1, <2>6, <3>1, <4>3, Zenon
            <4> QED
                BY <4>1, <4>2, <4>3
        <3>5. P(k + 1)
            BY <3>4
        <3> QED
            BY <2>1, <3>5
    <2> QED
        BY <2>5, <2>6
<1>3. \A k \in 0..n : k \in S
    <2> HIDE DEF S
    <2> QED
        BY <1>1, <1>2, UpTo
<1> QED
    BY <1>3

\* Removing an entry.
LEMMA RemoveFacts ==
    ASSUME NEW a \in Seq(Ev), NEW p \in 1..Len(a)
    PROVE  /\ RemoveAt(a, p) \in Seq(Ev) /\ Len(RemoveAt(a, p)) = Len(a) - 1
           /\ \A x \in 1..(Len(a) - 1) : RemoveAt(a, p)[x] = IF x < p THEN a[x] ELSE a[x + 1]
<1> DEFINE b == SubSeq(a, 1, p - 1)  c == SubSeq(a, p + 1, Len(a))
<1>1. Len(a) \in Nat /\ p \in Nat /\ 1 <= p /\ p <= Len(a)
    OBVIOUS
<1>2. b \in Seq(Ev) /\ Len(b) = p - 1 /\ \A x \in 1..(p - 1) : b[x] = a[x]
    BY <1>1
<1>3. c \in Seq(Ev) /\ Len(c) = Len(a) - p /\ \A x \in 1..(Len(a) - p) : c[x] = a[p + x]
    BY <1>1
<1>4. RemoveAt(a, p) = b \o c
    BY DEF RemoveAt
<1> HIDE DEF b, c
<1>5. b \o c \in Seq(Ev) /\ Len(b \o c) = Len(a) - 1
    <2>1. b \o c \in Seq(Ev) /\ Len(b \o c) = Len(b) + Len(c)
        BY <1>2, <1>3, ConcatFacts, Zenon
    <2>2. (p - 1) + (Len(a) - p) = Len(a) - 1
        BY <1>1
    <2> QED
        BY <1>2, <1>3, <2>1, <2>2
<1>6. ASSUME NEW x \in 1..(Len(a) - 1) PROVE (b \o c)[x] = IF x < p THEN a[x] ELSE a[x + 1]
    <2>1. CASE x < p
        <3>1. x \in 1..Len(b) /\ x \in 1..(p - 1)
            BY <1>1, <1>2, <2>1
        <3> QED
            BY <1>2, <1>3, <2>1, <3>1, ConcatFacts
    <2>2. CASE ~(x < p)
        <3>1. x - (p - 1) \in 1..Len(c) /\ x = Len(b) + (x - (p - 1)) /\ p + (x - (p - 1)) = x + 1
              /\ x - (p - 1) \in 1..(Len(a) - p)
            BY <1>1, <1>2, <1>3, <2>2
        <3>2. (b \o c)[Len(b) + (x - (p - 1))] = c[x - (p - 1)]
            BY <1>2, <1>3, <3>1, ConcatFacts
        <3>3. c[x - (p - 1)] = a[p + (x - (p - 1))]
            BY <1>3, <3>1
        <3> QED
            BY <2>2, <3>1, <3>2, <3>3
    <2> QED
        BY <2>1, <2>2
<1> QED
    BY <1>4, <1>5, <1>6

\* Removing an entry of the first of two sequences.
LEMMA RemoveConcat ==
    ASSUME NEW a \in Seq(Ev), NEW b \in Seq(Ev), NEW p \in 1..Len(a)
    PROVE  RemoveAt(a \o b, p) = RemoveAt(a, p) \o b
<1> DEFINE c == RemoveAt(a \o b, p)  d == RemoveAt(a, p) \o b  r == RemoveAt(a, p)
<1>1. Len(a) \in Nat /\ Len(b) \in Nat /\ p \in Nat /\ 1 <= p /\ p <= Len(a)
    OBVIOUS
<1>2. a \o b \in Seq(Ev) /\ Len(a \o b) = Len(a) + Len(b) /\ p \in 1..Len(a \o b)
    BY <1>1, ConcatFacts
<1>3. r \in Seq(Ev) /\ Len(r) = Len(a) - 1
      /\ \A x \in 1..(Len(a) - 1) : r[x] = IF x < p THEN a[x] ELSE a[x + 1]
    BY RemoveFacts
<1>4. c \in Seq(Ev) /\ Len(c) = Len(a) + Len(b) - 1
      /\ \A x \in 1..(Len(a) + Len(b) - 1) : c[x] = IF x < p THEN (a \o b)[x] ELSE (a \o b)[x + 1]
    <2> HIDE DEF c
    <2>1. c \in Seq(Ev) /\ Len(c) = Len(a \o b) - 1
          /\ \A x \in 1..(Len(a \o b) - 1) : c[x] = IF x < p THEN (a \o b)[x] ELSE (a \o b)[x + 1]
        BY <1>2, RemoveFacts, Zenon DEF c
    <2> QED
        BY <1>2, <2>1
<1> HIDE DEF c, r
<1>5. r \o b \in Seq(Ev) /\ Len(r \o b) = Len(a) + Len(b) - 1
    <2>1. r \o b \in Seq(Ev) /\ Len(r \o b) = Len(r) + Len(b)
        BY <1>3, ConcatFacts, Zenon
    <2>2. (Len(a) - 1) + Len(b) = Len(a) + Len(b) - 1
        BY <1>1
    <2> QED
        BY <1>3, <2>1, <2>2
<1>6. ASSUME NEW x \in 1..(Len(a) + Len(b) - 1) PROVE c[x] = (r \o b)[x]
    <2>1. CASE x < p
        <3>1. x \in 1..Len(a) /\ x \in 1..Len(r) /\ x \in 1..(Len(a) - 1)
            BY <1>1, <1>3, <2>1
        <3>2. c[x] = a[x]
            BY <1>4, <2>1, <3>1, ConcatFacts
        <3>3. (r \o b)[x] = r[x]
            BY <1>3, <3>1, ConcatFacts
        <3> QED
            BY <1>3, <2>1, <3>1, <3>2, <3>3
    <2>2. CASE ~(x < p) /\ x < Len(a)
        <3>1. x + 1 \in 1..Len(a) /\ x \in 1..Len(r) /\ x \in 1..(Len(a) - 1)
            BY <1>1, <1>3, <2>2
        <3>2. c[x] = a[x + 1]
            BY <1>4, <2>2, <3>1, ConcatFacts
        <3>3. (r \o b)[x] = r[x]
            BY <1>3, <3>1, ConcatFacts
        <3> QED
            BY <1>3, <2>2, <3>1, <3>2, <3>3
    <2>3. CASE ~(x < Len(a))
        <3> DEFINE y == x + 1 - Len(a)
        <3>1. y \in 1..Len(b) /\ x + 1 = Len(a) + y /\ x = Len(r) + y /\ ~(x < p)
            BY <1>1, <1>3, <2>3
        <3> HIDE DEF y
        <3>2. c[x] = (a \o b)[Len(a) + y]
            BY <1>4, <3>1
        <3>3. (a \o b)[Len(a) + y] = b[y]
            BY <3>1, ConcatFacts
        <3>4. (r \o b)[Len(r) + y] = b[y]
            BY <1>3, <3>1, ConcatFacts
        <3> QED
            BY <3>1, <3>2, <3>3, <3>4
    <2> QED
        BY <2>1, <2>2, <2>3
<1>7. c = r \o b
    BY <1>4, <1>5, <1>6, SeqEqual
<1> QED
    BY <1>7 DEF c, r

\* Removing the last entry.
LEMMA RemoveLast ==
    ASSUME NEW a \in Seq(Ev), NEW e \in Ev
    PROVE  RemoveAt(a \o << e >>, Len(a) + 1) = a
<1> DEFINE b == a \o << e >>
<1>1. b \in Seq(Ev) /\ Len(b) = Len(a) + 1 /\ Len(a) \in Nat
    OBVIOUS
<1>2. SubSeq(b, 1, (Len(a) + 1) - 1) = a
    BY <1>1
<1>3. SubSeq(b, (Len(a) + 1) + 1, Len(b)) = << >>
    BY <1>1
<1>4. a \o << >> = a
    OBVIOUS
<1> QED
    BY <1>2, <1>3, <1>4 DEF RemoveAt

\* A step that changes what at most the node at the place k + 1 contributes.
SameBut(s, n, k) == \A i \in 1..n : i # k + 1 => Uncalled(s[i])' = Uncalled(s[i])

SameFirst(s, k) == \A i \in 1..k : Uncalled(s[i])' = Uncalled(s[i]) /\ Uncalled(s[i]) \in Seq(Ev)

\* The list z is ah and then the first k nodes of s.
Prefixed(z, ah, s, k) == \A i \in 1..(k + 1) : z[i] = IF i = 1 THEN ah ELSE s[i - 1]

\* The list z is s without the node at the place k + 1.
Dropped(z, s, n, k) == \A i \in 1..(n - 1) : z[i] = IF i <= k THEN s[i] ELSE s[i + 1]

\* A new entry at the head of the list, or of its first k nodes.
LEMMA CollectsNew ==
    ASSUME NEW n \in Nat, NEW s, NEW q, Collects(q, s, n), NEW k \in 0..n, NEW ah, NEW e \in Ev,
           Uncalled(ah)' = << e >>,
           SameFirst(s, k), NEW z, Prefixed(z, ah, s, k)
    PROVE  \E r : Collects(r, z, k + 1)' /\ r[k + 1] = << e >> \o q[k]
<1> USE DEF SameFirst, Prefixed
<1>1. PICK r : r = [i \in 0..(k + 1) |-> IF i = 0 THEN << >> ELSE << e >> \o q[i - 1]]
    OBVIOUS
<1>2. << e >> \in Seq(Ev) /\ << >> \in Seq(Ev) /\ (<< e >> \o << >>) = << e >>
      /\ (<< >> \o << e >>) = << e >>
    OBVIOUS
<1>3. ASSUME NEW i \in 1..(k + 1) PROVE i - 1 \in 0..n /\ q[i - 1] \in Seq(Ev)
    <2>1. i - 1 \in 0..n
        OBVIOUS
    <2> QED
        BY <2>1 DEF Collects
<1>4. r \in [0..(k + 1) -> Seq(Ev)]
    <2> SUFFICES ASSUME NEW i \in 0..(k + 1) PROVE r[i] \in Seq(Ev)
        BY <1>1
    <2>1. CASE i = 0
        BY <1>1, <1>2, <2>1
    <2>2. CASE i # 0
        <3>1. i \in 1..(k + 1)
            BY <2>2
        <3>2. << e >> \o q[i - 1] \in Seq(Ev)
            BY <1>2, <1>3, <3>1, ConcatFacts, Zenon
        <3> QED
            BY <1>1, <2>2, <3>2
    <2> QED
        BY <2>1, <2>2
<1>5. r[0] = << >> /\ r[k + 1] = << e >> \o q[k]
    <2>1. 0 \in 0..(k + 1) /\ k + 1 \in 0..(k + 1) /\ k + 1 # 0 /\ (k + 1) - 1 = k
        OBVIOUS
    <2> QED
        BY <1>1, <2>1
<1>6. ASSUME NEW i \in 1..(k + 1) PROVE r[i] = r[i - 1] \o (Uncalled(z[i])')
    <2>1. i \in 0..(k + 1) /\ i - 1 \in 0..(k + 1) /\ i # 0
        OBVIOUS
    <2>2. CASE i = 1
        <3>1. z[i] = ah
            BY <2>2
        <3>2. i - 1 = 0 /\ 1 - 1 = 0
            BY <2>2
        <3>3. r[i - 1] = << >> /\ r[i] = << e >> \o q[0]
            BY <1>1, <2>1, <3>2
        <3>4. q[0] = << >>
            BY DEF Collects
        <3> QED
            BY <1>2, <3>1, <3>3, <3>4
    <2>3. CASE i # 1
        <3>1. i - 1 \in 1..k /\ i - 1 \in 1..n /\ i - 1 # 0 /\ (i - 1) - 1 = i - 2 /\ i - 1 \in 1..(k + 1)
            BY <2>3
        <3>2. r[i] = << e >> \o q[i - 1] /\ r[i - 1] = << e >> \o q[i - 2] /\ z[i] = s[i - 1]
            BY <1>1, <2>1, <2>3, <3>1
        <3>3. q[i - 1] = q[i - 2] \o Uncalled(s[i - 1])
            BY <3>1 DEF Collects
        <3>4. q[i - 2] \in Seq(Ev) /\ Uncalled(s[i - 1]) \in Seq(Ev) /\ Uncalled(s[i - 1])' = Uncalled(s[i - 1])
            BY <1>3, <3>1
        <3>5. (<< e >> \o q[i - 2]) \o Uncalled(s[i - 1]) = << e >> \o (q[i - 2] \o Uncalled(s[i - 1]))
            <4> DEFINE a == q[i - 2]  b == Uncalled(s[i - 1])  c == << e >>
            <4>1. a \in Seq(Ev) /\ b \in Seq(Ev) /\ c \in Seq(Ev)
                BY <1>2, <3>4
            <4> HIDE DEF a, b, c
            <4>2. (c \o a) \o b = c \o (a \o b)
                BY <4>1, ConcatAssociative, SMTT(60)
            <4> QED
                BY <4>2 DEF a, b, c
        <3> QED
            BY <3>2, <3>3, <3>4, <3>5
    <2> QED
        BY <2>2, <2>3
<1>7. Collects(r, z, k + 1)'
    BY <1>4, <1>5, <1>6 DEF Collects
<1> QED
    BY <1>5, <1>7

\* A called entry is unlinked from the place k + 1.
LEMMA CollectsDrop ==
    ASSUME NEW n \in Nat, NEW s, NEW q, Collects(q, s, n), NEW k \in 0..n, k < n,
           Uncalled(s[k + 1]) = << >>,
           SameBut(s, n, k), NEW z, Dropped(z, s, n, k)
    PROVE  \E r : Collects(r, z, n - 1)' /\ r[n - 1] = q[n]
<1> USE DEF SameBut, Dropped
<1>1. PICK r : r = [i \in 0..(n - 1) |-> IF i <= k THEN q[i] ELSE q[i + 1]]
    OBVIOUS
<1>2. q[k + 1] = q[k]
    <2>1. k + 1 \in 1..n /\ (k + 1) - 1 = k
        OBVIOUS
    <2>2. q[k + 1] = q[k] \o << >> /\ q[k] \in Seq(Ev)
        BY <2>1 DEF Collects
    <2> QED
        BY <2>2
<1>3. r \in [0..(n - 1) -> Seq(Ev)]
    <2> SUFFICES ASSUME NEW i \in 0..(n - 1) PROVE r[i] \in Seq(Ev)
        BY <1>1
    <2>1. i \in 0..n /\ i + 1 \in 0..n
        OBVIOUS
    <2> QED
        BY <1>1, <2>1 DEF Collects
<1>4. r[0] = << >> /\ r[n - 1] = q[n]
    <2>1. 0 \in 0..(n - 1) /\ n - 1 \in 0..(n - 1) /\ 0 <= k /\ (n - 1) + 1 = n /\ (n - 1 <= k => n - 1 = k)
        OBVIOUS
    <2> QED
        BY <1>1, <1>2, <2>1 DEF Collects
<1>5. ASSUME NEW i \in 1..(n - 1) PROVE r[i] = r[i - 1] \o (Uncalled(z[i])')
    <2>1. i \in 0..(n - 1) /\ i - 1 \in 0..(n - 1) /\ i \in 1..n /\ i + 1 \in 1..n /\ (i + 1) - 1 = i
          /\ (i - 1) + 1 = i
        OBVIOUS
    <2>2. q[i] = q[i - 1] \o Uncalled(s[i]) /\ q[i + 1] = q[i] \o Uncalled(s[i + 1])
        BY <2>1 DEF Collects
    <2>3. CASE i <= k
        <3>1. i - 1 <= k /\ i # k + 1
            BY <2>3
        <3> QED
            BY <1>1, <2>1, <2>2, <2>3, <3>1
    <2>4. CASE i = k + 1
        <3>1. ~(i <= k) /\ i - 1 <= k /\ i - 1 = k /\ i + 1 # k + 1
            BY <2>4
        <3>2. r[i] = q[i + 1] /\ r[i - 1] = q[k] /\ z[i] = s[i + 1]
            BY <1>1, <2>1, <3>1
        <3> QED
            BY <1>2, <2>1, <2>2, <2>4, <3>1, <3>2
    <2>5. CASE ~(i <= k) /\ i # k + 1
        <3>1. ~(i - 1 <= k) /\ i + 1 # k + 1
            BY <2>5
        <3>2. r[i] = q[i + 1] /\ r[i - 1] = q[i] /\ z[i] = s[i + 1]
            BY <1>1, <2>1, <2>5, <3>1
        <3> QED
            BY <2>1, <2>2, <3>1, <3>2
    <2> QED
        BY <2>3, <2>4, <2>5
<1>6. Collects(r, z, n - 1)'
    BY <1>3, <1>4, <1>5 DEF Collects
<1> QED
    BY <1>4, <1>6

\* The handler of the entry at the place k + 1 is called.
LEMMA CollectsClear ==
    ASSUME NEW n \in Nat, NEW s, NEW q, Collects(q, s, n), NEW k \in 0..n, k < n, NEW e \in Ev,
           Sequences(s, n), Uncalled(s[k + 1]) = << e >>, Uncalled(s[k + 1])' = << >>,
           SameBut(s, n, k)
    PROVE  /\ \E r : Collects(r, s, n)' /\ r[n] = RemoveAt(q[n], Len(q[k]) + 1)
           /\ Len(q[k]) + 1 \in 1..Len(q[n]) /\ q[n][Len(q[k]) + 1] = e
           /\ Len(q[k]) \in Nat /\ \A x \in 1..Len(q[k]) : q[n][x] = q[k][x]
<1> USE DEF SameBut
<1> DEFINE p == Len(q[k]) + 1
<1>1. k + 1 \in 1..n /\ (k + 1) - 1 = k /\ k + 1 \in 0..n /\ n \in k..n /\ n \in (k + 1)..n
    OBVIOUS
<1>2. q[k] \in Seq(Ev) /\ q[k + 1] = q[k] \o << e >> /\ << e >> \in Seq(Ev) /\ Len(<< e >>) = 1
      /\ << e >>[1] = e
    <2>1. q[k] \in Seq(Ev) /\ q[k + 1] = q[k] \o << e >>
        BY <1>1 DEF Collects
    <2>2. << e >> \in Seq(Ev) /\ Len(<< e >>) = 1 /\ << e >>[1] = e
        OBVIOUS
    <2> QED
        BY <2>1, <2>2
<1>3. Len(q[k]) \in Nat /\ Len(q[k + 1]) = p /\ q[k + 1][p] = e
    <2>1. Len(q[k]) \in Nat /\ Len(q[k] \o << e >>) = Len(q[k]) + Len(<< e >>)
          /\ \A x \in 1..Len(<< e >>) : (q[k] \o << e >>)[Len(q[k]) + x] = << e >>[x]
        BY <1>2, ConcatFacts, Zenon
    <2>2. 1 \in 1..Len(<< e >>)
        BY <1>2
    <2>3. Len(q[k] \o << e >>) = Len(q[k]) + 1 /\ (q[k] \o << e >>)[Len(q[k]) + 1] = e
        BY <1>2, <2>1, <2>2, Zenon
    <2> QED
        BY <1>2, <2>1, <2>3, Zenon
<1>4. \A i \in 0..n : \A j \in i..n :
          Len(q[i]) <= Len(q[j]) /\ \A x \in 1..Len(q[i]) : q[j][x] = q[i][x]
    <2>1. Grows(q, n)
        BY CollectsGrows
    <2> QED
        BY <2>1 DEF Grows
<1>5. \A x \in 1..Len(q[k]) : q[n][x] = q[k][x]
    BY <1>1, <1>4, Zenon
<1>6. \A j \in (k + 1)..n : p \in 1..Len(q[j]) /\ j \in 0..n /\ q[j] \in Seq(Ev)
    <2> SUFFICES ASSUME NEW j \in (k + 1)..n PROVE p \in 1..Len(q[j]) /\ j \in 0..n /\ q[j] \in Seq(Ev)
        OBVIOUS
    <2>1. j \in 0..n
        OBVIOUS
    <2>2. q[j] \in Seq(Ev)
        BY <2>1 DEF Collects
    <2>3. Len(q[j]) \in Nat
        BY <2>2
    <2>4. p <= Len(q[j])
        BY <1>1, <1>3, <1>4, Zenon
    <2> QED
        BY <1>3, <2>1, <2>2, <2>3, <2>4
<1>7. q[n][p] = e
    <2>1. p \in 1..p
        BY <1>3
    <2> QED
        BY <1>1, <1>3, <1>4, <2>1, Zenon
<1> HIDE DEF p
<1>8. PICK r : r = [i \in 0..n |-> IF i <= k THEN q[i] ELSE RemoveAt(q[i], p)]
    OBVIOUS
<1>9. r \in [0..n -> Seq(Ev)]
    <2> SUFFICES ASSUME NEW i \in 0..n PROVE r[i] \in Seq(Ev)
        BY <1>8
    <2>1. CASE i <= k
        BY <1>8, <2>1 DEF Collects
    <2>2. CASE ~(i <= k)
        <3>1. i \in (k + 1)..n
            BY <2>2
        <3>2. RemoveAt(q[i], p) \in Seq(Ev)
            BY <1>6, <3>1, RemoveFacts, Zenon
        <3> QED
            BY <1>8, <2>2, <3>2
    <2> QED
        BY <2>1, <2>2
<1>10. r[0] = << >> /\ r[n] = RemoveAt(q[n], p)
    <2>1. 0 \in 0..n /\ n \in 0..n /\ 0 <= k /\ ~(n <= k)
        OBVIOUS
    <2> QED
        BY <1>8, <2>1 DEF Collects
<1>11. ASSUME NEW i \in 1..n PROVE r[i] = r[i - 1] \o (Uncalled(s[i])')
    <2>1. i \in 0..n /\ i - 1 \in 0..n
        OBVIOUS
    <2>2. q[i] = q[i - 1] \o Uncalled(s[i]) /\ q[i - 1] \in Seq(Ev) /\ Uncalled(s[i]) \in Seq(Ev)
        BY <2>1 DEF Collects, Sequences
    <2>3. CASE i <= k
        <3>1. i - 1 <= k /\ i # k + 1
            BY <2>3
        <3> QED
            BY <1>8, <2>1, <2>2, <2>3, <3>1
    <2>4. CASE i = k + 1
        <3>1. ~(i <= k) /\ i - 1 <= k /\ i - 1 = k
            BY <2>4
        <3>2. r[i] = RemoveAt(q[k] \o << e >>, Len(q[k]) + 1) /\ r[i - 1] = q[k]
            BY <1>2, <1>8, <2>1, <2>4, <3>1 DEF p
        <3>3. r[i] = q[k]
            BY <1>2, <3>2, RemoveLast, Zenon
        <3>4. q[k] \o << >> = q[k]
            BY <1>2
        <3> QED
            BY <2>4, <3>2, <3>3, <3>4
    <2>5. CASE ~(i <= k) /\ i # k + 1
        <3>1. ~(i - 1 <= k) /\ i - 1 \in (k + 1)..n
            BY <2>5
        <3>2. r[i] = RemoveAt(q[i - 1] \o Uncalled(s[i]), p) /\ r[i - 1] = RemoveAt(q[i - 1], p)
            BY <1>8, <2>1, <2>2, <2>5, <3>1
        <3>3. p \in 1..Len(q[i - 1])
            BY <1>6, <3>1
        <3>4. RemoveAt(q[i - 1] \o Uncalled(s[i]), p) = RemoveAt(q[i - 1], p) \o Uncalled(s[i])
            BY <2>2, <3>3, RemoveConcat, Zenon
        <3> QED
            BY <2>5, <3>2, <3>4
    <2> QED
        BY <2>3, <2>4, <2>5
<1>12. Collects(r, s, n)'
    BY <1>9, <1>10, <1>11 DEF Collects
<1>13. p \in 1..Len(q[n])
    BY <1>1, <1>6
<1> QED
    BY <1>3, <1>5, <1>7, <1>10, <1>12, <1>13 DEF p

-----------------------------------------------------------------------------
(* The steps *)

Pended(s, n, q) ==
    /\ IInv /\ ListIs(s, n) =>
          (Acyclic <=> Ends(s, n)) /\ (Collects(q, s, n) => PendingEntries = q[n])

\* The entries not yet called, now and after a step.
LEMMA PendingLaw ==
    \A s, n, q : Pended(s, n, q)
BY PendingIs, ListAcyclic DEF Pended

\* The entries not yet called, now and after a step.
LEMMA PendingLawNext ==
    (\A s, n, q : Pended(s, n, q))'
BY PendingLaw, PTL

\* The libraries of a sequence of calls of __cxa_finalize.
DsosOf(h) == [i \in DOMAIN h |-> h[i].dso]

\* They follow the calls.
LEMMA DsosOfFacts ==
    ASSUME NEW h \in Seq(Call1)
    PROVE  /\ DsosOf(h) \in Seq(AllDsos) /\ Len(DsosOf(h)) = Len(h)
           /\ \A i \in 1..Len(h) : DsosOf(h)[i] = h[i].dso
<1>1. Len(h) \in Nat /\ DOMAIN h = 1..Len(h) /\ \A i \in 1..Len(h) : h[i] \in Call1
    OBVIOUS
<1>2. \A i \in 1..Len(h) : h[i].dso \in AllDsos
    BY <1>1 DEF Call1
<1>3. DsosOf(h) = [i \in 1..Len(h) |-> h[i].dso]
    BY <1>1 DEF DsosOf
<1>4. [i \in 1..Len(h) |-> h[i].dso] \in Seq(AllDsos) /\ Len([i \in 1..Len(h) |-> h[i].dso]) = Len(h)
    BY <1>1, <1>2
<1> QED
    BY <1>1, <1>3, <1>4

\* A step of the innermost call.
LEMMA DsosOfGoto ==
    ASSUME NEW h \in Seq(Call1), NEW r \in Seq(Call1), Len(h) = Len(r),
           \A i \in 1..Len(h) : h[i].dso = r[i].dso
    PROVE  DsosOf(h) = DsosOf(r)
<1>1. Len(h) \in Nat /\ DOMAIN h = 1..Len(h) /\ DOMAIN r = 1..Len(h)
    OBVIOUS
<1> QED
    BY <1>1 DEF DsosOf

\* A new innermost call.
LEMMA DsosOfPush ==
    ASSUME NEW h \in Seq(Call1), NEW r \in Seq(Call1), NEW d \in AllDsos, Len(r) = Len(h) + 1,
           r[1].dso = d, \A i \in 1..Len(h) : r[i + 1] = h[i]
    PROVE  DsosOf(r) = << d >> \o DsosOf(h)
<1> DEFINE a == DsosOf(r)  b == DsosOf(h)
<1>1. a \in Seq(AllDsos) /\ Len(a) = Len(r) /\ \A i \in 1..Len(r) : a[i] = r[i].dso
    BY DsosOfFacts
<1>2. b \in Seq(AllDsos) /\ Len(b) = Len(h) /\ \A i \in 1..Len(h) : b[i] = h[i].dso
    BY DsosOfFacts
<1>3. Len(h) \in Nat
    OBVIOUS
<1> HIDE DEF a, b
<1> DEFINE c == << d >> \o b
<1>4. c \in Seq(AllDsos) /\ Len(c) = Len(h) + 1 /\ c[1] = d
      /\ \A i \in 1..Len(h) : c[i + 1] = b[i]
    BY <1>2, <1>3
<1> HIDE DEF c
<1>5. ASSUME NEW i \in 1..(Len(h) + 1) PROVE a[i] = c[i]
    <2>1. CASE i = 1
        BY <1>1, <1>3, <1>4, <2>1
    <2>2. CASE i # 1
        <3>1. i - 1 \in 1..Len(h) /\ (i - 1) + 1 = i /\ i \in 1..Len(r)
            BY <1>3, <2>2
        <3>2. r[i] = h[i - 1] /\ c[i] = b[i - 1]
            BY <1>4, <3>1
        <3> QED
            BY <1>1, <1>2, <3>1, <3>2
    <2> QED
        BY <2>1, <2>2
<1>6. a = c
    BY <1>1, <1>4, <1>5, SeqEqual
<1> QED
    BY <1>6 DEF a, b, c

\* The innermost call ends.
LEMMA DsosOfPop ==
    ASSUME NEW h \in Seq(Call1), h # << >>
    PROVE  /\ DsosOf(Tail(h)) = Tail(DsosOf(h)) /\ DsosOf(h) # << >>
           /\ Head(DsosOf(h)) = h[1].dso
<1> DEFINE a == DsosOf(h)  b == DsosOf(Tail(h))
<1>1. Tail(h) \in Seq(Call1) /\ Len(Tail(h)) = Len(h) - 1 /\ Len(h) \in Nat /\ Len(h) >= 1
      /\ \A i \in 1..(Len(h) - 1) : Tail(h)[i] = h[i + 1]
    OBVIOUS
<1>2. a \in Seq(AllDsos) /\ Len(a) = Len(h) /\ \A i \in 1..Len(h) : a[i] = h[i].dso
    BY DsosOfFacts
<1>3. b \in Seq(AllDsos) /\ Len(b) = Len(h) - 1 /\ \A i \in 1..(Len(h) - 1) : b[i] = Tail(h)[i].dso
    <2>1. b \in Seq(AllDsos) /\ Len(b) = Len(Tail(h)) /\ \A i \in 1..Len(Tail(h)) : b[i] = Tail(h)[i].dso
        BY <1>1, DsosOfFacts, Zenon
    <2> QED
        BY <1>1, <2>1
<1> HIDE DEF a, b
<1>4. a # << >> /\ Head(a) = a[1] /\ Tail(a) \in Seq(AllDsos) /\ Len(Tail(a)) = Len(h) - 1
      /\ \A i \in 1..(Len(h) - 1) : Tail(a)[i] = a[i + 1]
    BY <1>1, <1>2
<1>5. ASSUME NEW i \in 1..(Len(h) - 1) PROVE b[i] = Tail(a)[i]
    <2>1. i + 1 \in 1..Len(h)
        BY <1>1
    <2> QED
        BY <1>1, <1>2, <1>3, <1>4, <2>1
<1>6. b = Tail(a)
    BY <1>3, <1>4, <1>5, SeqEqual
<1>7. 1 \in 1..Len(h)
    BY <1>1
<1> QED
    BY <1>2, <1>4, <1>6, <1>7 DEF a, b

\* The finalizations that hold the mutex are those of its holder.
LEMMA ActiveIs ==
    ASSUME NEW t \in Threads
    PROVE  /\ mutex = t => ActiveDsos = DsosOf(Holding(frames[t]))
           /\ mutex' = t => ActiveDsos' = DsosOf(Holding(frames'[t]))
           /\ mutex = NoThread => ActiveDsos = << >>
           /\ mutex' = NoThread => ActiveDsos' = << >>
BY AtexitAssumption DEF ActiveDsos, DsosOf, Holding

\* The walk of t goes on.
LEMMA ActiveWalk ==
    ASSUME Types, Nesting, NEW t \in Threads, frames[t] # << >>, frames[t][1].pc # "free",
           NEW g \in Call1, g.pc # "free", g.dso = frames[t][1].dso, Goto(t, g), mutex' = mutex
    PROVE  ActiveDsos' = ActiveDsos /\ ActiveDsos # << >> /\ Head(ActiveDsos) = g.dso
<1>1. frames \in [Threads -> Seq(Call1)] /\ frames[t] \in Seq(Call1)
    BY DEF Types
<1>2. /\ frames' \in [Threads -> Seq(Call1)]
      /\ frames'[t] # << >> /\ Len(frames'[t]) = Len(frames[t])
      /\ DOMAIN frames'[t] = DOMAIN frames[t]
      /\ frames'[t][1] = g
      /\ \A i \in DOMAIN frames[t] : i # 1 => frames'[t][i] = frames[t][i]
    BY <1>1, GotoFacts
<1>3. mutex = t /\ Holding(frames[t]) = frames[t]
    BY Holder
<1>4. frames'[t] \in Seq(Call1)
    BY <1>2
<1>5. Holding(frames'[t]) = frames'[t] /\ DOMAIN frames[t] = 1..Len(frames[t])
    BY <1>1, <1>2, <1>4, HoldingFacts
<1>6. \A i \in 1..Len(frames[t]) : frames'[t][i].dso = frames[t][i].dso
    BY <1>2, <1>5
<1>7. DsosOf(frames'[t]) = DsosOf(frames[t])
    BY <1>1, <1>2, <1>4, <1>6, DsosOfGoto
<1>8. DsosOf(frames[t]) # << >> /\ Head(DsosOf(frames[t])) = frames[t][1].dso
    BY <1>1, DsosOfPop
<1> QED
    BY <1>3, <1>5, <1>7, <1>8, ActiveIs

\* The walk of t ends.
LEMMA ActiveEnds ==
    ASSUME Types, Nesting, NEW t \in Threads, frames[t] # << >>, frames[t][1].pc # "free",
           NEW g \in Call1, g.pc = "free", g.dso = frames[t][1].dso, Goto(t, g),
           mutex' = Released(t)
    PROVE  ActiveDsos' = Tail(ActiveDsos) /\ ActiveDsos # << >> /\ Head(ActiveDsos) = g.dso
<1>1. frames \in [Threads -> Seq(Call1)] /\ frames[t] \in Seq(Call1)
    BY DEF Types
<1>2. /\ frames' \in [Threads -> Seq(Call1)]
      /\ frames'[t] # << >> /\ Len(frames'[t]) = Len(frames[t])
      /\ DOMAIN frames'[t] = DOMAIN frames[t]
      /\ frames'[t][1] = g
      /\ \A i \in DOMAIN frames[t] : i # 1 => frames'[t][i] = frames[t][i]
    BY <1>1, GotoFacts
<1>3. mutex = t /\ Holding(frames[t]) = frames[t]
    BY Holder
<1>4. frames'[t] \in Seq(Call1)
    BY <1>2
<1>5. Holding(frames'[t]) = Tail(frames'[t]) /\ DOMAIN frames[t] = 1..Len(frames[t])
    BY <1>1, <1>2, <1>4, HoldingFacts
<1>6. \A i \in 1..Len(frames[t]) : frames'[t][i].dso = frames[t][i].dso
    BY <1>2, <1>5
<1>7. DsosOf(frames'[t]) = DsosOf(frames[t])
    BY <1>1, <1>2, <1>4, <1>6, DsosOfGoto
<1>8. /\ DsosOf(frames[t]) # << >> /\ Head(DsosOf(frames[t])) = frames[t][1].dso
      /\ ActiveDsos = DsosOf(frames[t])
    BY <1>1, <1>3, DsosOfPop, ActiveIs
<1>9. DsosOf(Tail(frames'[t])) = Tail(DsosOf(frames[t]))
    BY <1>2, <1>4, <1>7, DsosOfPop
<1>10. CASE Len(frames[t]) = 1
    <2>1. ActiveDsos' = << >>
        BY <1>10, ActiveIs DEF Released
    <2>2. DsosOf(frames[t]) \in Seq(AllDsos) /\ Len(DsosOf(frames[t])) = 1
        BY <1>1, <1>10, DsosOfFacts
    <2>3. Tail(DsosOf(frames[t])) = << >>
        <3> DEFINE a == DsosOf(frames[t])
        <3>1. a \in Seq(AllDsos) /\ Len(a) = 1 /\ a # << >>
            BY <1>8, <2>2
        <3> HIDE DEF a
        <3>2. Tail(a) \in Seq(AllDsos) /\ Len(Tail(a)) = Len(a) - 1
            BY <3>1, HeadTailProperties, Zenon
        <3>3. Len(Tail(a)) = 0
            BY <3>1, <3>2
        <3>4. Tail(a) = << >>
            BY <3>2, <3>3, EmptySeq
        <3> QED
            BY <3>4 DEF a
    <2> QED
        BY <1>8, <2>1, <2>3
<1>11. CASE Len(frames[t]) # 1
    <2>1. mutex' = t
        BY <1>11 DEF Released
    <2>2. ActiveDsos' = DsosOf(Tail(frames'[t]))
        BY <1>5, <2>1, ActiveIs
    <2> QED
        BY <1>8, <1>9, <2>2
<1> QED
    BY <1>10, <1>11

\* A call of __cxa_finalize takes the mutex.
LEMMA ActiveBegins ==
    ASSUME Types, Nesting, NEW t \in Threads, InCode(t), CanLock(t), NEW g \in Call1,
           g.pc = "scan", frames' = [frames EXCEPT ![t] = << g >> \o @], mutex' = t
    PROVE  ActiveDsos' = << g.dso >> \o ActiveDsos
<1>1. frames \in [Threads -> Seq(Call1)] /\ frames[t] \in Seq(Call1)
    BY DEF Types
<1>2. /\ frames' \in [Threads -> Seq(Call1)]
      /\ frames'[t] # << >> /\ Len(frames'[t]) = Len(frames[t]) + 1
      /\ DOMAIN frames'[t] = 1..(Len(frames[t]) + 1)
      /\ frames'[t][1] = g
      /\ \A i \in DOMAIN frames'[t] : i # 1 =>
            i - 1 \in DOMAIN frames[t] /\ frames'[t][i] = frames[t][i - 1]
    BY <1>1, PushFacts
<1>3. frames'[t] \in Seq(Call1) /\ g.dso \in AllDsos /\ Len(frames[t]) \in Nat
    BY <1>1, <1>2 DEF Call1
<1>4. ASSUME NEW i \in 1..Len(frames[t]) PROVE frames'[t][i + 1] = frames[t][i]
    <2>1. i + 1 \in 1..(Len(frames[t]) + 1) /\ i + 1 # 1 /\ (i + 1) - 1 = i
        BY <1>3
    <2> QED
        BY <1>2, <2>1
<1>5. DsosOf(frames'[t]) = << g.dso >> \o DsosOf(frames[t])
    BY <1>1, <1>2, <1>3, <1>4, DsosOfPush
<1>6. Holding(frames'[t]) = frames'[t]
    BY <1>2, <1>3, HoldingFacts
<1>7. ActiveDsos' = << g.dso >> \o DsosOf(frames[t])
    BY <1>5, <1>6, ActiveIs
<1>8. frames[t] # << >> => frames[t][1].pc = "call"
    BY Outside
<1>9. Holding(frames[t]) = frames[t]
    BY <1>1, <1>8, HoldingFacts
<1>10. CASE mutex = t
    BY <1>7, <1>9, <1>10, ActiveIs
<1>11. CASE mutex = NoThread
    <2>1. frames[t] = << >>
        BY <1>9, <1>11, AtexitAssumption DEF Nesting
    <2>2. DsosOf(<< >>) = << >>
        BY DEF DsosOf
    <2> QED
        BY <1>7, <1>11, <2>1, <2>2, ActiveIs
<1> QED
    BY <1>10, <1>11 DEF CanLock

\* A call that released the mutex returns.
LEMMA ActiveReturns ==
    ASSUME Types, Nesting, NEW t \in Threads, frames[t] # << >>, frames[t][1].pc = "free",
           frames' = [frames EXCEPT ![t] = Tail(@)], mutex' = mutex
    PROVE  ActiveDsos' = ActiveDsos
<1>1. frames \in [Threads -> Seq(Call1)] /\ frames[t] \in Seq(Call1)
    BY DEF Types
<1>2. /\ frames' \in [Threads -> Seq(Call1)] /\ frames'[t] = Tail(frames[t])
      /\ Len(frames'[t]) = Len(frames[t]) - 1
      /\ \A i \in DOMAIN frames'[t] :
            i + 1 \in DOMAIN frames[t] /\ frames'[t][i] = frames[t][i + 1]
      /\ \A u \in Threads : u # t => frames'[u] = frames[u]
    BY <1>1, PopFacts
<1>3. frames'[t] \in Seq(Call1)
    BY <1>2
<1>4. Holding(frames[t]) = frames'[t]
    BY <1>1, <1>2, HoldingFacts
<1>5. ASSUME frames'[t] # << >> PROVE frames'[t][1].pc # "free"
    <2>1. 1 \in DOMAIN frames'[t]
        BY <1>3, <1>5, HoldingFacts
    <2>2. 1 + 1 > 1
        OBVIOUS
    <2> QED
        BY <1>2, <2>1, <2>2 DEF Nesting
<1>6. Holding(frames'[t]) = frames'[t]
    BY <1>3, <1>5, HoldingFacts
<1>7. CASE mutex = t
    BY <1>4, <1>6, <1>7, ActiveIs
<1>8. CASE mutex = NoThread
    BY <1>8, ActiveIs
<1>9. CASE mutex # t /\ mutex # NoThread
    <2>1. mutex \in Threads /\ mutex' = mutex /\ frames'[mutex] = frames[mutex]
        BY <1>2, <1>9 DEF Types
    <2>2. PICK u \in Threads : u = mutex
        BY <2>1
    <2> QED
        BY <2>1, <2>2, ActiveIs
<1> QED
    BY <1>7, <1>8, <1>9

-----------------------------------------------------------------------------
(* What the walks have passed *)

Wanted(d, m) == node[m].fn # NoFn /\ d \in {NoDso, node[m].dso}

\* The walk of f has passed the first k entries of the list, none of which it
\* is to call, and runs the handler of the next if it runs one.
PassedTo(f, s, n, k) ==
    /\ f.prevp = IF k = 0 THEN NULL ELSE s[k]
    /\ \A i \in 1..k : ~Wanted(f.dso, s[i])
    /\ f.pc = "call" => k < n /\ s[k + 1] = f.ah /\ node[f.ah].fn = NoFn

\* No walk that will go on where it is has left an entry out; a handler that
\* registered one changed the stack top, so that the walk starts again.
WalkOrder(f, s, n) ==
    /\ f.pc = "call" => \E i \in 1..n : f.p = s[i]
    /\ Ends(s, n) /\ (f.pc = "scan" \/ (f.pc = "call" /\ f.p = top)) =>
          \E k \in 0..n : PassedTo(f, s, n, k)

\* A call of exit has released the mutex and not returned.
ExitDone ==
    \E t \in Threads :
       Len(frames[t]) = 1 /\ frames[t][1].dso = NoDso /\ frames[t][1].pc = "free"

\* Then the list has no cycle, and no slot in it has been called.
AfterExit(s, n) ==
    Ends(s, n) /\ \A i \in 1..n : s[i] \in Slots => node[s[i]].fn # NoFn

Order(s, n) ==
    /\ ListIs(s, n)
    /\ \A t \in Threads : \A i \in DOMAIN frames[t] : WalkOrder(frames[t][i], s, n)
    /\ ExitDone => AfterExit(s, n)

Ordered == \E s, n : Order(s, n)

\* exit is called once, and when it is the outermost call it unlinks all it meets.
Exits ==
    /\ \A t \in Threads : \A i \in DOMAIN frames[t] :
          frames[t][i].dso = NoDso /\ i = Len(frames[t]) => frames[t][i].prevp = NULL
    /\ \A t, u \in Threads : \A i \in DOMAIN frames[t], k \in DOMAIN frames[u] :
          frames[t][i].dso = NoDso /\ frames[u][k].dso = NoDso => t = u /\ i = k

\* What the abstract specification allows.
Allowed == (Acyclic => EH!Next) \/ (PendingEntries' = PendingEntries /\ ActiveDsos' = ActiveDsos)

\* The nodes of the list.
LEMMA ListNodes ==
    ASSUME Types, NEW s, NEW n, ListIs(s, n)
    PROVE  /\ n \in Nat /\ s \in [1..n -> Nodes] /\ Sequences(s, n)
           /\ \A i \in 1..n : s[i] \in Nodes /\ s[i] \in Live /\ s[i] # NULL
<1>1. n \in Nat /\ \A i \in 1..n : s[i] \in Nodes /\ s[i] \in Live /\ s[i] # NULL
    BY LiveNodes DEF ListIs
<1>2. s \in [1..n -> Nodes]
    BY <1>1 DEF ListIs
<1>3. Sequences(s, n)
    BY <1>1, UncalledFacts DEF Sequences
<1> QED
    BY <1>1, <1>2, <1>3

\* The entry after the first k.
LEMMA NextPlace ==
    ASSUME Types, NEW s, NEW n, ListIs(s, n), Ends(s, n), NEW k \in 0..n, NEW p,
           p = IF k = 0 THEN NULL ELSE s[k]
    PROVE  Deref(p) = IF k < n THEN s[k + 1] ELSE NULL
<1>1. n \in Nat /\ \A i \in 1..n : s[i] # NULL
    BY ListNodes
<1>2. CASE k = 0
    <2>1. p = NULL /\ Deref(p) = top /\ (k < n <=> n # 0) /\ k + 1 = 1
        BY <1>1, <1>2 DEF Deref
    <2> QED
        BY <2>1 DEF ListIs
<1>3. CASE k # 0
    <2>1. k \in 1..n /\ (~(k < n) => k = n /\ n # 0)
        BY <1>1, <1>3
    <2>2. p = s[k] /\ Deref(p) = node[s[k]].next
        BY <1>1, <1>3, <2>1 DEF Deref
    <2>3. CASE k < n
        BY <2>1, <2>2, <2>3 DEF ListIs
    <2>4. CASE ~(k < n)
        BY <2>1, <2>2, <2>4 DEF Ends
    <2> QED
        BY <2>3, <2>4
<1> QED
    BY <1>2, <1>3

\* A step that leaves the list, and what its nodes contribute, as they are.
LEMMA PendingSame ==
    ASSUME IInv, IInv', NEW s, NEW n, ListIs(s, n), ListIs(s, n)',
           \A i \in 1..n : Uncalled(s[i])' = Uncalled(s[i])
    PROVE  PendingEntries' = PendingEntries
<1>1. PICK q : Collects(q, s, n) /\ PendingEntries = q[n]
    BY CollectsExists
<1>2. Collects(q, s, n)'
    BY <1>1 DEF Collects
<1>3. Pended(s, n, q)'
    BY PendingLawNext
<1> QED
    BY <1>1, <1>2, <1>3 DEF Pended

\* A step that leaves the list as it is, but may clear ah_atexit.
LEMMA OrderKept ==
    ASSUME Types, ListSame, NEW s, NEW n, ListIs(s, n),
           \A m \in Live : node'[m].dso = node[m].dso /\ node'[m].fn \in {node[m].fn, NoFn}
    PROVE  /\ ListIs(s, n)' /\ (Ends(s, n)' <=> Ends(s, n))
           /\ \A f, k : k \in 0..n /\ PassedTo(f, s, n, k) => PassedTo(f, s, n, k)'
           /\ \A f : WalkOrder(f, s, n) => WalkOrder(f, s, n)'
<1>1. Live' = Live /\ top' = top /\ \A m \in Live : node'[m].next = node[m].next
    BY DEF ListSame, Live
<1>2. n \in Nat /\ \A i \in 1..n : s[i] \in Live
    BY DEF ListIs
<1>3. n # 0 => n \in 1..n
    BY <1>2
<1>4. \A i \in 1..n : node'[s[i]].next = node[s[i]].next
    BY <1>1, <1>2
<1>5. ListIs(s, n)'
    BY <1>1, <1>3, <1>4 DEF ListIs
<1>6. Ends(s, n)' <=> Ends(s, n)
    BY <1>3, <1>4 DEF Ends
<1>7. ASSUME NEW f, NEW k \in 0..n, PassedTo(f, s, n, k) PROVE PassedTo(f, s, n, k)'
    <2>1. \A i \in 1..k : i \in 1..n
        BY <1>2
    <2>2. \A i \in 1..k : ~Wanted(f.dso, s[i])'
        BY <1>2, <1>7, <2>1 DEF PassedTo, Wanted
    <2>3. ASSUME f.pc = "call" PROVE node'[f.ah].fn = NoFn
        <3>1. k + 1 \in 1..n /\ s[k + 1] = f.ah /\ node[f.ah].fn = NoFn
            BY <1>2, <1>7, <2>3 DEF PassedTo
        <3> QED
            BY <1>2, <3>1
    <2> QED
        BY <1>7, <2>2, <2>3 DEF PassedTo
<1>8. ASSUME NEW f, WalkOrder(f, s, n) PROVE WalkOrder(f, s, n)'
    BY <1>1, <1>6, <1>7, <1>8 DEF WalkOrder
<1> QED
    BY <1>5, <1>6, <1>7, <1>8

\* The calls of exit after a step of the innermost call of t.
LEMMA ExitsGoto ==
    ASSUME Types, Exits, NEW t \in Threads, frames[t] # << >>, NEW g \in Call1, Goto(t, g),
           g.dso = frames[t][1].dso, g.dso = NoDso /\ Len(frames[t]) = 1 => g.prevp = NULL
    PROVE  /\ Exits'
           /\ ExitDone' => \/ ExitDone
                           \/ g.pc = "free" /\ g.dso = NoDso /\ Len(frames[t]) = 1
<1>1. frames \in [Threads -> Seq(Call1)]
    BY DEF Types
<1>2. /\ frames'[t] # << >> /\ Len(frames'[t]) = Len(frames[t])
      /\ DOMAIN frames'[t] = DOMAIN frames[t]
      /\ frames'[t][1] = g
      /\ \A i \in DOMAIN frames[t] : i # 1 => frames'[t][i] = frames[t][i]
      /\ \A u \in Threads : u # t => frames'[u] = frames[u]
    BY <1>1, GotoFacts
<1>3. \A u \in Threads : DOMAIN frames'[u] = DOMAIN frames[u] /\ Len(frames'[u]) = Len(frames[u])
    BY <1>2
<1>4. \A u \in Threads : \A i \in DOMAIN frames[u] : frames'[u][i].dso = frames[u][i].dso
    BY <1>2
<1>5. ASSUME NEW u \in Threads, NEW i \in DOMAIN frames[u], frames'[u][i].dso = NoDso,
             i = Len(frames[u])
      PROVE  frames'[u][i].prevp = NULL
    <2>1. CASE u = t /\ i = 1
        BY <1>2, <1>5, <2>1
    <2>2. CASE ~(u = t /\ i = 1)
        <3>1. frames'[u][i] = frames[u][i]
            BY <1>2, <2>2
        <3> QED
            BY <1>5, <3>1 DEF Exits
    <2> QED
        BY <2>1, <2>2
<1>6. Exits'
    BY <1>3, <1>4, <1>5, SMTT(60) DEF Exits
<1>7. ExitDone' => ExitDone \/ (g.pc = "free" /\ g.dso = NoDso /\ Len(frames[t]) = 1)
    BY <1>2 DEF ExitDone
<1> QED
    BY <1>6, <1>7

\* The order after a step of the innermost call of t.
LEMMA OrderGoto ==
    ASSUME Types, NEW t \in Threads, frames[t] # << >>, NEW g \in Call1, Goto(t, g),
           NEW s, NEW n, ListIs(s, n)', WalkOrder(g, s, n)',
           \A u \in Threads : \A i \in DOMAIN frames[u] : \A f :
              f = frames[u][i] /\ (u # t \/ i # 1) => WalkOrder(f, s, n)',
           ExitDone' => AfterExit(s, n)'
    PROVE  Order(s, n)'
<1>1. frames \in [Threads -> Seq(Call1)]
    BY DEF Types
<1>2. /\ DOMAIN frames'[t] = DOMAIN frames[t] /\ frames'[t][1] = g
      /\ \A i \in DOMAIN frames[t] : i # 1 => frames'[t][i] = frames[t][i]
      /\ \A u \in Threads : u # t => frames'[u] = frames[u]
    BY <1>1, GotoFacts
<1>3. ASSUME NEW u \in Threads, NEW i \in DOMAIN frames'[u], NEW f, f = frames'[u][i]
      PROVE  WalkOrder(f, s, n)'
    <2>1. i \in DOMAIN frames[u]
        BY <1>2
    <2>2. CASE u = t /\ i = 1
        <3>1. f = g
            BY <1>2, <1>3, <2>2
        <3> QED
            BY <3>1
    <2>3. CASE u # t \/ i # 1
        <3>1. f = frames[u][i]
            BY <1>2, <1>3, <2>1, <2>3
        <3> QED
            BY <2>1, <2>3, <3>1
    <2> QED
        BY <2>2, <2>3
<1>4. (\A u \in Threads : \A i \in DOMAIN frames[u] : WalkOrder(frames[u][i], s, n))'
    BY <1>3 DEF WalkOrder, PassedTo, Wanted, Ends
<1> QED
    BY <1>4 DEF Order

\* A step of the walk of t that leaves the list, the entries and who holds the
\* mutex as they are.
LEMMA MoveOrder ==
    ASSUME IInv, IInv', Exits, Ordered, NEW t \in Threads, frames[t] # << >>, frames[t][1].pc # "free",
           NEW g \in Call1, Goto(t, g), g.pc = "scan", g.dso = frames[t][1].dso,
           g.dso = NoDso /\ Len(frames[t]) = 1 => g.prevp = NULL,
           \A s, n : Order(s, n) /\ Ends(s, n) => \E k \in 0..n : PassedTo(g, s, n, k),
           UNCHANGED << node, top, heap, mutex >>
    PROVE  Ordered' /\ Exits' /\ Allowed
<1>1. PICK s, n : Order(s, n)
    BY DEF Ordered
<1>2. Types /\ Nesting
    BY DEF IInv
<1>3. ListSame /\ \A m \in Live : node'[m].dso = node[m].dso /\ node'[m].fn \in {node[m].fn, NoFn}
    BY DEF ListSame
<1>4. ListIs(s, n)
    BY <1>1 DEF Order
<1>5. /\ ListIs(s, n)' /\ (Ends(s, n)' <=> Ends(s, n))
      /\ \A f, k : k \in 0..n /\ PassedTo(f, s, n, k) => PassedTo(f, s, n, k)'
      /\ \A f : WalkOrder(f, s, n) => WalkOrder(f, s, n)'
    BY <1>2, <1>3, <1>4, OrderKept
<1>6. WalkOrder(g, s, n)'
    <2>1. g.pc # "call"
        OBVIOUS
    <2>2. Ends(s, n)' => \E k \in 0..n : PassedTo(g, s, n, k)'
        BY <1>1, <1>5
    <2> QED
        BY <2>1, <2>2 DEF WalkOrder
<1>7. Exits' /\ (ExitDone' => ExitDone)
    BY <1>2, ExitsGoto
<1>8. ExitDone' => AfterExit(s, n)'
    BY <1>1, <1>5, <1>7 DEF Order, AfterExit
<1>9. \A u \in Threads : \A i \in DOMAIN frames[u] : \A f :
         f = frames[u][i] => WalkOrder(f, s, n)'
    BY <1>1, <1>5 DEF Order
<1>10. Order(s, n)'
    BY <1>2, <1>5, <1>6, <1>8, <1>9, OrderGoto
<1>11. \A i \in 1..n : Uncalled(s[i])' = Uncalled(s[i])
    BY DEF Uncalled
<1>12. PendingEntries' = PendingEntries
    BY <1>4, <1>5, <1>11, PendingSame
<1>13. ActiveDsos' = ActiveDsos
    BY <1>2, ActiveWalk
<1> QED
    BY <1>7, <1>10, <1>12, <1>13 DEF Ordered, Allowed

\* The walk of f is at ah, and has left out no entry before it.
Reached(f, ah, s, n) ==
    \E k \in 0..n : /\ k < n /\ s[k + 1] = ah /\ f.prevp = IF k = 0 THEN NULL ELSE s[k]
                    /\ \A i \in 1..k : ~Wanted(f.dso, s[i])

AllReached(f, ah) == \A s, n : Order(s, n) /\ Ends(s, n) => Reached(f, ah, s, n)

\* The loop is at *prevp.
LEMMA ScanReaches ==
    ASSUME IInv, NEW t \in Threads, frames[t] # << >>, frames[t][1].pc = "scan", NEW ah,
           ah = Deref(frames[t][1].prevp), ah # NULL
    PROVE  AllReached(frames[t][1], ah)
<1> SUFFICES ASSUME NEW s, NEW n, Order(s, n), Ends(s, n)
             PROVE  Reached(frames[t][1], ah, s, n)
    BY DEF AllReached
<1>1. Types /\ ListIs(s, n) /\ 1 \in DOMAIN frames[t]
    BY Innermost DEF IInv, Order
<1>2. PICK k \in 0..n : PassedTo(frames[t][1], s, n, k)
    BY <1>1 DEF Order, WalkOrder
<1>3. frames[t][1].prevp = IF k = 0 THEN NULL ELSE s[k]
    BY <1>2 DEF PassedTo
<1>4. Deref(frames[t][1].prevp) = IF k < n THEN s[k + 1] ELSE NULL
    BY <1>1, <1>3, NextPlace
<1> QED
    BY <1>2, <1>3, <1>4 DEF Reached, PassedTo

\* The walk that a handler interrupted, if it is not to start again.
LEMMA ReturnReaches ==
    ASSUME IInv, NEW t \in Threads, frames[t] # << >>, frames[t][1].pc = "call",
           frames[t][1].p = top
    PROVE  /\ AllReached(frames[t][1], frames[t][1].ah)
           /\ \A s, n : Order(s, n) /\ Ends(s, n) => node[frames[t][1].ah].fn = NoFn
<1> SUFFICES ASSUME NEW s, NEW n, Order(s, n), Ends(s, n)
             PROVE  /\ Reached(frames[t][1], frames[t][1].ah, s, n)
                    /\ node[frames[t][1].ah].fn = NoFn
    BY DEF AllReached
<1>1. ListIs(s, n) /\ 1 \in DOMAIN frames[t]
    BY Innermost DEF Order
<1>2. PICK k \in 0..n : PassedTo(frames[t][1], s, n, k)
    BY <1>1 DEF Order, WalkOrder
<1> QED
    BY <1>2 DEF Reached, PassedTo

\* The walk of t goes on after the entry ah.
LEMMA PassOrder ==
    ASSUME IInv, IInv', Exits, Ordered, NEW t \in Threads, frames[t] # << >>,
           frames[t][1].pc # "free", NEW ah, NEW g \in Call1, Goto(t, g), g.pc = "scan",
           g.dso = frames[t][1].dso, g.prevp = ah, g.dso = NoDso => Len(frames[t]) # 1,
           AllReached(frames[t][1], ah),
           \A s, n : Order(s, n) /\ Ends(s, n) => ~Wanted(g.dso, ah),
           UNCHANGED << node, top, heap, mutex >>
    PROVE  Ordered' /\ Exits' /\ Allowed
<1>1. ASSUME NEW s, NEW n, Order(s, n), Ends(s, n) PROVE \E k \in 0..n : PassedTo(g, s, n, k)
    <2>1. PICK k \in 0..n : /\ k < n /\ s[k + 1] = ah
                            /\ \A i \in 1..k : ~Wanted(g.dso, s[i])
        BY <1>1 DEF AllReached, Reached
    <2>2. n \in Nat
        BY <1>1 DEF Order, ListIs
    <2>3. k + 1 \in 0..n /\ k + 1 # 0 /\ \A i \in 1..(k + 1) : i = k + 1 \/ i \in 1..k
        BY <2>1, <2>2
    <2>4. ~Wanted(g.dso, ah)
        BY <1>1
    <2>5. \A i \in 1..(k + 1) : ~Wanted(g.dso, s[i])
        BY <2>1, <2>3, <2>4
    <2>6. PassedTo(g, s, n, k + 1)
        BY <2>1, <2>3, <2>5 DEF PassedTo
    <2> QED
        BY <2>3, <2>6
<1> QED
    BY <1>1, MoveOrder

\* The walk passes an entry of another library.
LEMMA SkipOrder ==
    ASSUME IInv, IInv', Exits, Ordered, NEW t \in Threads, Skip(t)
    PROVE  Ordered' /\ Exits' /\ Allowed
<1>1. frames[t] # << >> /\ frames[t][1].pc = "scan" /\ Deref(frames[t][1].prevp) # NULL
    BY DEF Skip, In
<1>2. PICK f \in Call1, ah \in Live : f = frames[t][1] /\ ah = Deref(f.prevp) /\ ah \in Nodes
    BY <1>1, AtEntry
<1>3. PICK g : g = [f EXCEPT !.prevp = ah]
    OBVIOUS
<1>4. Goto(t, g) /\ UNCHANGED << node, top, heap, mutex >> /\ ~Chosen(f.dso, ah)
    BY <1>2, <1>3 DEF Skip
<1>5. g \in Call1 /\ g.pc = "scan" /\ g.prevp = ah /\ g.dso = f.dso
    BY <1>1, <1>2, <1>3 DEF Call1
<1>6. ~Wanted(g.dso, ah) /\ g.dso # NoDso
    BY <1>4, <1>5 DEF Chosen, Wanted
<1>7. AllReached(frames[t][1], ah)
    BY <1>1, <1>2, ScanReaches
<1> QED
    BY <1>1, <1>2, <1>4, <1>5, <1>6, <1>7, PassOrder

\* A nested call steps over an entry that was called.
LEMMA StepOverOrder ==
    ASSUME IInv, IInv', Exits, Ordered, NEW t \in Threads, frames[t] # << >>,
           frames[t][1].pc # "free", Len(frames[t]) # 1, NEW ah \in Live,
           StepOver(t, frames[t][1], ah), AllReached(frames[t][1], ah),
           \A s, n : Order(s, n) /\ Ends(s, n) => node[ah].fn = NoFn, mutex' = mutex
    PROVE  Ordered' /\ Exits' /\ Allowed
<1>1. PICK f \in Call1 : f = frames[t][1]
    BY Innermost
<1>2. PICK g : g = [Scanning(f) EXCEPT !.prevp = ah]
    OBVIOUS
<1>3. Goto(t, g) /\ UNCHANGED << node, top, heap, mutex >>
    BY <1>1, <1>2 DEF StepOver
<1>4. ah \in Nodes
    BY LiveNodes DEF IInv
<1>5. g \in Call1 /\ g.pc = "scan" /\ g.prevp = ah /\ g.dso = f.dso
    BY <1>1, <1>2, <1>4 DEF Call1, Scanning
<1>6. \A s, n : Order(s, n) /\ Ends(s, n) => ~Wanted(g.dso, ah)
    BY DEF Wanted
<1> QED
    BY <1>1, <1>3, <1>5, <1>6, PassOrder

\* The list without its entry at the place k + 1.
LEMMA UnlinkList ==
    ASSUME Types, NEW s, NEW n, ListIs(s, n), Ends(s, n), NEW k \in 0..n, k < n, NEW p,
           p = IF k = 0 THEN NULL ELSE s[k], Unlinked(p, s[k + 1]), Live' = Live, NEW z,
           z = [i \in 1..(n - 1) |-> IF i <= k THEN s[i] ELSE s[i + 1]]
    PROVE  ListIs(z, n - 1)' /\ Ends(z, n - 1)'
<1> DEFINE ah == s[k + 1]
<1>1. n \in Nat /\ n # 0 /\ n - 1 \in Nat /\ k + 1 \in 1..n /\ n \in 1..n /\ NULL \notin Nodes
    BY ListNodes, NodeFacts
<1>2. \A i \in 1..n : s[i] \in Nodes /\ s[i] \in Live /\ s[i] # NULL
    BY ListNodes
<1>3. \A i, j \in 1..n : s[i] = s[j] => i = j
    BY DEF ListIs
<1>4. \A i \in 1..n : node[s[i]].next = IF i < n THEN s[i + 1] ELSE NULL
    <2> SUFFICES ASSUME NEW i \in 1..n PROVE node[s[i]].next = IF i < n THEN s[i + 1] ELSE NULL
        OBVIOUS
    <2>1. i < n \/ i = n
        BY <1>1
    <2> QED
        BY <1>1, <2>1 DEF ListIs, Ends
<1>5. /\ top' = IF p = NULL THEN node[ah].next ELSE top
      /\ p # NULL /\ p # ah => node'[p].next = node[ah].next
      /\ \A m \in Nodes : m # ah /\ m # p => node'[m].next = node[m].next
    BY DEF Unlinked
<1>6. z \in [1..(n - 1) -> Live'] /\ \A i \in 1..(n - 1) : z[i] \in Live
    <2>1. \A i \in 1..(n - 1) : i \in 1..n /\ i + 1 \in 1..n
        BY <1>1
    <2> QED
        BY <1>2, <2>1
<1>7. ASSUME NEW i \in 1..(n - 1), NEW j \in 1..(n - 1), z[i] = z[j] PROVE i = j
    <2>1. i \in 1..n /\ i + 1 \in 1..n /\ j \in 1..n /\ j + 1 \in 1..n
        BY <1>1
    <2> QED
        BY <1>1, <1>3, <1>7, <2>1
<1>8. top' = IF n - 1 = 0 THEN NULL ELSE z[1]
    <2>1. top = s[1] /\ 1 \in 1..n
        BY <1>1 DEF ListIs
    <2>2. CASE k = 0
        <3>1. top' = node[s[1]].next /\ k + 1 = 1 /\ p = NULL
            BY <1>5, <2>2
        <3>2. top' = IF 1 < n THEN s[1 + 1] ELSE NULL
            BY <1>4, <2>1, <3>1
        <3>3. n - 1 # 0 => 1 \in 1..(n - 1) /\ ~(1 <= k) /\ 1 < n
            BY <1>1, <2>2
        <3>4. n - 1 = 0 => ~(1 < n)
            BY <1>1
        <3> QED
            BY <3>2, <3>3, <3>4
    <2>3. CASE k # 0
        <3>1. k \in 1..n /\ n - 1 # 0 /\ 1 \in 1..(n - 1) /\ 1 <= k
            BY <1>1, <2>3
        <3>2. p # NULL
            BY <1>2, <2>3, <3>1
        <3> QED
            BY <1>5, <2>1, <3>1, <3>2
    <2> QED
        BY <2>2, <2>3
<1>9. ASSUME NEW i \in 1..(n - 1) PROVE node'[z[i]].next = IF i < n - 1 THEN z[i + 1] ELSE NULL
    <2>1. i \in 1..n /\ i + 1 \in 1..n /\ (i < n - 1 => i + 1 \in 1..(n - 1)) /\ (i + 1 < n <=> i < n - 1)
        BY <1>1
    <2>2. CASE i < k
        <3>1. z[i] = s[i] /\ i # k + 1 /\ i # k /\ i < n - 1 /\ k # 0 /\ k \in 1..n /\ i + 1 <= k /\ i < n
            BY <1>1, <2>1, <2>2
        <3>2. s[i] # ah /\ s[i] # p
            BY <1>1, <1>3, <2>1, <3>1
        <3>3. node'[s[i]].next = s[i + 1]
            BY <1>2, <1>4, <1>5, <2>1, <3>1, <3>2
        <3> QED
            BY <2>1, <3>1, <3>3
    <2>3. CASE i = k
        <3>1. z[i] = s[k] /\ k # 0 /\ p = s[k] /\ k \in 1..n /\ k # k + 1 /\ (k + 1) + 1 = (i + 1) + 1
              /\ ~(i + 1 <= k)
            BY <1>1, <2>1, <2>3
        <3>2. p # ah /\ p # NULL
            BY <1>1, <1>2, <1>3, <3>1
        <3>3. node'[s[k]].next = node[s[k + 1]].next
            BY <1>5, <3>1, <3>2
        <3>4. node[s[k + 1]].next = IF k + 1 < n THEN s[(k + 1) + 1] ELSE NULL
            BY <1>1, <1>4
        <3>5. i < n - 1 => z[i + 1] = s[(i + 1) + 1]
            BY <2>1, <3>1
        <3> QED
            BY <2>1, <2>3, <3>1, <3>3, <3>4, <3>5
    <2>4. CASE i > k
        <3>1. z[i] = s[i + 1] /\ i + 1 # k + 1 /\ i + 1 # k /\ ~(i + 1 <= k) /\ (k # 0 => k \in 1..n)
            BY <1>1, <2>1, <2>4
        <3>2. s[i + 1] # ah /\ s[i + 1] # p
            BY <1>1, <1>2, <1>3, <2>1, <3>1
        <3>3. node'[s[i + 1]].next = IF i + 1 < n THEN s[(i + 1) + 1] ELSE NULL
            BY <1>2, <1>4, <1>5, <2>1, <3>2
        <3>4. i < n - 1 => z[i + 1] = s[(i + 1) + 1]
            BY <2>1, <3>1
        <3> QED
            BY <2>1, <3>1, <3>3, <3>4
    <2> QED
        BY <1>1, <2>2, <2>3, <2>4
<1>10. n - 1 # 0 => n - 1 \in 1..(n - 1) /\ ~(n - 1 < n - 1)
    BY <1>1
<1>11. Ends(z, n - 1)'
    BY <1>9, <1>10 DEF Ends
<1>12. ListIs(z, n - 1)'
    BY <1>1, <1>6, <1>7, <1>8, <1>9, <1>10 DEF ListIs
<1> QED
    BY <1>11, <1>12

\* The first entry of a list with a cycle is unlinked: if it was in the cycle,
\* it is now the last.
LEMMA UnlinkCycle ==
    ASSUME Types, NEW s, NEW n, ListIs(s, n), ~Ends(s, n), Unlinked(NULL, top), Live' = Live
    PROVE  \E z, m : ListIs(z, m)'
<1>1. n \in Nat /\ n # 0 /\ n - 1 \in Nat /\ 1 \in 1..n /\ n \in 1..n /\ NULL \notin Nodes
    BY ListNodes, NodeFacts DEF Ends
<1>2. \A i \in 1..n : s[i] \in Nodes /\ s[i] \in Live /\ s[i] # NULL
    BY ListNodes
<1>3. (\A i, j \in 1..n : s[i] = s[j] => i = j) /\ top = s[1]
      /\ \A i \in 1..n : i < n => node[s[i]].next = s[i + 1]
    BY <1>1 DEF ListIs
<1>4. PICK c \in 1..n : node[s[n]].next = s[c]
    BY <1>1 DEF ListIs, Ends
<1>5. /\ top' = node[s[1]].next /\ node'[s[1]].next = NULL
      /\ \A m \in Nodes : m # s[1] /\ m # NULL => node'[m].next = node[m].next
    BY <1>3 DEF Unlinked
<1>6. \A i \in 1..n : i # 1 => node'[s[i]].next = node[s[i]].next
    BY <1>1, <1>2, <1>3, <1>5
<1>7. CASE c = 1
    <2>1. PICK z : z = [i \in 1..n |-> IF i = n THEN s[1] ELSE s[i + 1]]
        OBVIOUS
    <2>2. \A i \in 1..n : i # n => i + 1 \in 1..n /\ i + 1 # 1 /\ i < n /\ (i + 1 < n \/ i + 1 = n)
        BY <1>1
    <2>3. z \in [1..n -> Live']
        BY <1>1, <1>2, <2>1, <2>2
    <2>4. ASSUME NEW i \in 1..n, NEW j \in 1..n, z[i] = z[j] PROVE i = j
        <3>1. (i # n => z[i] = s[i + 1]) /\ (j # n => z[j] = s[j + 1]) /\ z[n] = s[1]
            BY <1>1, <2>1
        <3>2. CASE i # n /\ j # n
            <4>1. i + 1 = j + 1
                BY <1>3, <2>2, <2>4, <3>1, <3>2
            <4> QED
                BY <4>1
        <3>3. CASE i = n /\ j # n
            BY <1>1, <1>3, <2>2, <2>4, <3>1, <3>3
        <3>4. CASE i # n /\ j = n
            BY <1>1, <1>3, <2>2, <2>4, <3>1, <3>4
        <3> QED
            BY <3>2, <3>3, <3>4
    <2>5. top' = z[1]
        <3>1. CASE n = 1
            BY <1>1, <1>4, <1>5, <1>7, <2>1, <3>1
        <3>2. CASE n # 1
            <4>1. 1 < n
                BY <1>1, <3>2
            <4> QED
                BY <1>1, <1>3, <1>5, <2>1, <3>2, <4>1
        <3> QED
            BY <3>1, <3>2
    <2>6. ASSUME NEW i \in 1..n, i < n PROVE node'[z[i]].next = z[i + 1]
        <3>1. i # n /\ i + 1 \in 1..n /\ i + 1 # 1 /\ z[i] = s[i + 1]
            BY <1>1, <2>1, <2>2, <2>6
        <3>2. node'[z[i]].next = node[s[i + 1]].next
            BY <1>6, <3>1
        <3>3. CASE i + 1 < n
            <4>1. i + 1 # n /\ z[i + 1] = s[(i + 1) + 1]
                BY <1>1, <2>1, <3>1, <3>3
            <4> QED
                BY <1>3, <3>1, <3>2, <3>3, <4>1
        <3>4. CASE i + 1 = n
            <4>1. z[i + 1] = s[1]
                BY <1>1, <2>1, <3>1, <3>4
            <4> QED
                BY <1>4, <1>7, <3>2, <3>4, <4>1
        <3> QED
            BY <2>2, <3>1, <3>3, <3>4
    <2>7. node'[z[n]].next = NULL
        BY <1>1, <1>5, <2>1
    <2>8. ListIs(z, n)'
        BY <1>1, <2>3, <2>4, <2>5, <2>6, <2>7 DEF ListIs
    <2> QED
        BY <2>8
<1>8. CASE c # 1
    <2>1. PICK z : z = [i \in 1..(n - 1) |-> s[i + 1]]
        OBVIOUS
    <2>2. \A i \in 1..(n - 1) : i + 1 \in 1..n /\ i + 1 # 1 /\ (i < n - 1 <=> i + 1 < n)
        BY <1>1
    <2>3. z \in [1..(n - 1) -> Live']
        BY <1>2, <2>1, <2>2
    <2>4. ASSUME NEW i \in 1..(n - 1), NEW j \in 1..(n - 1), z[i] = z[j] PROVE i = j
        <3>1. i + 1 = j + 1
            BY <1>3, <2>1, <2>2, <2>4
        <3> QED
            BY <3>1
    <2>5. n - 1 # 0 /\ 1 \in 1..(n - 1) /\ 1 < n /\ n - 1 \in 1..(n - 1) /\ (n - 1) + 1 = n
          /\ c - 1 \in 1..(n - 1) /\ (c - 1) + 1 = c
        BY <1>1, <1>8
    <2>6. top' = z[1]
        BY <1>1, <1>3, <1>5, <2>1, <2>5
    <2>7. ASSUME NEW i \in 1..(n - 1), i < n - 1 PROVE node'[z[i]].next = z[i + 1]
        <3>1. i + 1 \in 1..n /\ i + 1 # 1 /\ i + 1 < n /\ z[i] = s[i + 1] /\ i + 1 \in 1..(n - 1)
            BY <1>1, <2>1, <2>2, <2>7
        <3>2. z[i + 1] = s[(i + 1) + 1]
            BY <2>1, <3>1
        <3> QED
            BY <1>3, <1>6, <3>1, <3>2
    <2>8. node'[z[n - 1]].next = z[c - 1]
        <3>1. z[n - 1] = s[n] /\ z[c - 1] = s[c] /\ n # 1
            BY <2>1, <2>5
        <3> QED
            BY <1>1, <1>4, <1>6, <3>1
    <2>9. ListIs(z, n - 1)'
        BY <1>1, <2>3, <2>4, <2>5, <2>6, <2>7, <2>8 DEF ListIs
    <2> QED
        BY <2>9
<1> QED
    BY <1>7, <1>8

\* A list with a cycle that the outermost call walks: it is the call of exit.
LEMMA CycleAtExit ==
    ASSUME IInv, Exits, ~exited, NEW t \in Threads, frames[t] # << >>, frames[t][1].pc # "free",
           Len(frames[t]) = 1, NEW s, NEW n, Order(s, n), ~Ends(s, n)
    PROVE  frames[t][1].dso = NoDso /\ frames[t][1].prevp = NULL
<1>1. Types /\ Nesting /\ ListIs(s, n)
    BY DEF IInv, Order
<1>2. ~Acyclic
    BY <1>1, ListAcyclic
<1>3. Exiting
    BY <1>2, IInvAcyclic DEF Quiet
<1>4. PICK u \in Threads : \E j \in DOMAIN frames[u] : frames[u][j].dso = NoDso
    BY <1>3 DEF Exiting
<1>8. PICK j \in DOMAIN frames[u] : frames[u][j].dso = NoDso
    BY <1>4
<1>5. frames[u] \in Seq(Call1) /\ DOMAIN frames[u] = 1..Len(frames[u])
    BY <1>1 DEF Types
<1>6. CASE u = t
    <2>1. j = 1 /\ 1 \in DOMAIN frames[t]
        BY <1>8, <1>5, <1>6
    <2> QED
        BY <1>8, <1>6, <2>1 DEF Exits
<1>7. CASE u # t
    <2>1. mutex = t
        BY <1>1, Holder
    <2>2. frames[u] = << >> \/ (Len(frames[u]) = 1 /\ frames[u][1].pc = "free")
        BY <1>1, <1>7, <2>1, Others
    <2>3. Len(frames[u]) = 1 /\ frames[u][1].pc = "free" /\ j = 1
        BY <1>8, <1>5, <2>2
    <2>4. ExitDone
        BY <1>8, <2>3 DEF ExitDone
    <2> QED
        BY <2>4 DEF Order, AfterExit
<1> QED
    BY <1>6, <1>7

\* The outermost call unlinks an entry that was called.
LEMMA UnlinkOrder ==
    ASSUME IInv, IInv', Exits, Ordered, ~exited, NEW t \in Threads, frames[t] # << >>,
           frames[t][1].pc # "free", Len(frames[t]) = 1, NEW f, f = frames[t][1], NEW ah,
           Follows(f.prevp, ah), Unlink(t, f, ah), mutex' = mutex, AllReached(f, ah),
           \A s, n : Order(s, n) /\ Ends(s, n) => node[ah].fn = NoFn
    PROVE  Ordered' /\ Exits' /\ Allowed
<1>1. Types /\ Nesting /\ Pointers
    BY DEF IInv
<1>2. f \in Call1 /\ frames[t] \in Seq(Call1)
    BY Innermost
<1>3. ah \in Nodes /\ ah \in Live /\ f.prevp \in Live \cup {NULL} /\ f.prevp \in Nodes \cup {NULL}
    BY <1>1, LiveNodes DEF Follows
<1>4. Unlinked(f.prevp, ah)
    BY <1>1, <1>3, UnlinkNodes
<1>5. Live' = Live
    BY <1>1, <1>4, UnlinkPointers
<1>6. PICK g : g = [Scanning(f) EXCEPT !.dead = @ \cup ({ah} \ Slots)]
    OBVIOUS
<1>7. Goto(t, g)
    BY <1>6 DEF Unlink
<1>8. g \in Call1 /\ g.pc = "scan" /\ g.prevp = f.prevp /\ g.dso = f.dso
    <2>1. {ah} \ Slots \subseteq HeapNodes /\ f.dead \subseteq HeapNodes
        BY <1>2, <1>3, NodeFacts DEF Call1
    <2>2. f.dead \cup ({ah} \ Slots) \in SUBSET HeapNodes
        BY <2>1
    <2> QED
        BY <1>2, <1>6, <2>2 DEF Call1, Scanning
<1>9. g.dso = NoDso => g.prevp = NULL
    BY <1>8, Innermost, ZenonT(60) DEF Exits
<1>10. Exits' /\ (ExitDone' => ExitDone)
    BY <1>1, <1>7, <1>8, <1>9, ExitsGoto
<1>11. ActiveDsos' = ActiveDsos
    BY <1>1, <1>7, <1>8, ActiveWalk
\* No other call is in a walk.
<1>12. ASSUME NEW u \in Threads, NEW i \in DOMAIN frames[u], u # t \/ i # 1
       PROVE  frames[u][i].pc = "free"
    <2>1. mutex = t
        BY <1>1, Holder
    <2>2. frames[u] \in Seq(Call1) /\ DOMAIN frames[u] = 1..Len(frames[u])
        BY <1>1 DEF Types
    <2>3. u # t
        <3>1. ASSUME u = t PROVE FALSE
            <4>1. DOMAIN frames[u] = 1..1 /\ i # 1
                BY <1>12, <2>2, <3>1
            <4>2. i \in 1..1
                BY <4>1
            <4> QED
                BY <4>1, <4>2
        <3> QED
            BY <3>1
    <2>4. frames[u] = << >> \/ (Len(frames[u]) = 1 /\ frames[u][1].pc = "free")
        BY <1>1, <2>1, <2>3, Others
    <2>5. frames[u] # << >>
        <3>1. ASSUME frames[u] = << >> PROVE FALSE
            <4>1. Len(frames[u]) = 0
                BY <3>1
            <4>2. i \in 1..0
                BY <2>2, <4>1
            <4> QED
                BY <4>2
        <3> QED
            BY <3>1
    <2>6. i \in 1..1 /\ frames[u][1].pc = "free"
        BY <2>2, <2>4, <2>5
    <2>7. i = 1
        BY <2>6
    <2> QED
        BY <2>6, <2>7
<1>13. \A s, n : \A u \in Threads : \A i \in DOMAIN frames[u] : \A fr :
          fr = frames[u][i] /\ (u # t \/ i # 1) => WalkOrder(fr, s, n)'
    BY <1>12 DEF WalkOrder
<1>14. PICK s, n : Order(s, n)
    BY DEF Ordered
<1>15. ListIs(s, n)
    BY <1>14 DEF Order
<1>16. CASE Ends(s, n)
    <2>1. PICK k \in 0..n : /\ k < n /\ s[k + 1] = ah /\ f.prevp = IF k = 0 THEN NULL ELSE s[k]
                            /\ \A i \in 1..k : ~Wanted(f.dso, s[i])
        BY <1>14, <1>16 DEF AllReached, Reached
    <2>2. PICK z : z = [i \in 1..(n - 1) |-> IF i <= k THEN s[i] ELSE s[i + 1]]
        OBVIOUS
    <2>3. ListIs(z, n - 1)' /\ Ends(z, n - 1)'
        BY <1>1, <1>4, <1>5, <1>15, <1>16, <2>1, <2>2, UnlinkList
    <2>4. n \in Nat /\ (\A i \in 1..n : s[i] \in Nodes) /\ k \in 0..(n - 1)
          /\ (\A i \in 1..k : i \in 1..n /\ i \in 1..(n - 1)) /\ (k # 0 => k \in 1..k)
          /\ \A i \in 1..(n - 1) : i \in 1..n /\ i + 1 \in 1..n
        BY <1>1, <1>15, <2>1, ListNodes
    <2>5. \A m \in Nodes : node'[m].fn = node[m].fn /\ node'[m].dso = node[m].dso
        BY <1>4 DEF Unlinked
    <2>6. PassedTo(g, z, n - 1, k)'
        <3>1. \A i \in 1..k : z[i] = s[i]
            BY <2>2, <2>4
        <3>2. \A i \in 1..k : ~Wanted(g.dso, z[i])'
            BY <1>8, <2>1, <2>4, <2>5, <3>1, SMTT(60) DEF Wanted
        <3>3. g.prevp = IF k = 0 THEN NULL ELSE z[k]
            BY <1>8, <2>1, <2>4, <3>1
        <3> QED
            BY <1>8, <3>2, <3>3 DEF PassedTo
    <2>7. WalkOrder(g, z, n - 1)'
        BY <1>8, <2>4, <2>6 DEF WalkOrder
    <2>8. ExitDone' => AfterExit(z, n - 1)'
        <3>1. ASSUME ExitDone PROVE \A i \in 1..(n - 1) : z[i] \in Slots => node'[z[i]].fn # NoFn
            BY <1>14, <2>2, <2>4, <2>5, <3>1 DEF Order, AfterExit
        <3> QED
            BY <1>10, <2>3, <3>1 DEF AfterExit
    <2>9. Order(z, n - 1)'
        BY <1>1, <1>7, <1>8, <1>13, <2>3, <2>7, <2>8, OrderGoto
    <2>10. PICK q : Collects(q, s, n) /\ PendingEntries = q[n]
        BY <1>15, CollectsExists
    <2>11. \A i \in 1..n : Uncalled(s[i])' = Uncalled(s[i])
        BY <2>4, <2>5 DEF Uncalled
    <2>12. Uncalled(s[k + 1]) = << >>
        BY <1>14, <1>16, <2>1 DEF Uncalled
    <2>16. Dropped(z, s, n, k)
        BY <2>2 DEF Dropped
    <2>17. n \in Nat /\ k < n /\ Collects(q, s, n) /\ SameBut(s, n, k)
        BY <2>1, <2>4, <2>10, <2>11 DEF SameBut
    <2>18. \E r : Collects(r, z, n - 1)' /\ r[n - 1] = q[n]
        BY <2>12, <2>16, <2>17, CollectsDrop
    <2>13. PICK r : Collects(r, z, n - 1)' /\ r[n - 1] = q[n]
        BY <2>18
    <2>14. Pended(z, n - 1, r)'
        BY PendingLawNext
    <2>15. PendingEntries' = PendingEntries
        BY <2>3, <2>10, <2>13, <2>14 DEF Pended
    <2> QED
        BY <1>10, <1>11, <2>9, <2>15 DEF Ordered, Allowed
<1>17. CASE ~Ends(s, n)
    <2>1. f.prevp = NULL /\ ah = top
        BY <1>14, <1>17, CycleAtExit DEF Follows
    <2>2. PICK z, m : ListIs(z, m)'
        BY <1>1, <1>4, <1>5, <1>15, <1>17, <2>1, UnlinkCycle
    <2>3. PassedTo(g, z, m, 0)' /\ 0 \in 0..m
        <3>1. m \in Nat
            BY <2>2 DEF ListIs
        <3> QED
            BY <1>8, <2>1, <3>1 DEF PassedTo
    <2>4. WalkOrder(g, z, m)'
        BY <1>8, <2>3 DEF WalkOrder
    <2>5. ~ExitDone'
        BY <1>10, <1>14, <1>17 DEF Order, AfterExit
    <2>6. Order(z, m)'
        BY <1>1, <1>7, <1>8, <1>13, <2>2, <2>4, <2>5, OrderGoto
    <2>7. ~Acyclic
        BY <1>15, <1>17, ListAcyclic
    <2> QED
        BY <1>10, <2>6, <2>7 DEF Ordered, Allowed
<1> QED
    BY <1>16, <1>17

\* An entry that was called is unlinked or stepped over.
LEMMA RetireOrder ==
    ASSUME IInv, IInv', Exits, Ordered, ~exited, NEW t \in Threads, frames[t] # << >>,
           frames[t][1].pc # "free", NEW f, f = frames[t][1], NEW ah \in Live,
           Len(frames[t]) = 1 => Follows(f.prevp, ah), Retire(t, f, ah), mutex' = mutex,
           AllReached(f, ah), \A s, n : Order(s, n) /\ Ends(s, n) => node[ah].fn = NoFn
    PROVE  Ordered' /\ Exits' /\ Allowed
<1>1. call_depth = Len(frames[t])
    BY Holder DEF IInv
<1>2. CASE call_depth = 1
    BY <1>1, <1>2, UnlinkOrder DEF Retire
<1>3. CASE call_depth # 1
    BY <1>1, <1>3, StepOverOrder DEF Retire
<1> QED
    BY <1>2, <1>3

\* The walk is at an entry already called.
LEMMA SweepOrder ==
    ASSUME IInv, IInv', Exits, Ordered, NEW t \in Threads, Sweep(t)
    PROVE  Ordered' /\ Exits' /\ Allowed
<1>1. frames[t] # << >> /\ frames[t][1].pc = "scan" /\ Deref(frames[t][1].prevp) # NULL /\ ~exited
    BY DEF Sweep, In
<1>2. PICK f \in Call1, ah \in Live :
         /\ f = frames[t][1] /\ ah = Deref(f.prevp) /\ ah \in Nodes
         /\ WalkOK(f, 1 = Len(frames[t]))
    BY <1>1, AtEntry
<1>3. Retire(t, f, ah) /\ mutex' = mutex /\ node[ah].fn = NoFn
    BY <1>2 DEF Sweep
<1>4. Follows(f.prevp, ah)
    BY <1>2 DEF Follows, Deref, WalkOK
<1>5. AllReached(f, ah)
    BY <1>1, <1>2, ScanReaches
<1> QED
    BY <1>1, <1>2, <1>3, <1>4, <1>5, RetireOrder

\* A handler returns.
LEMMA HandlerReturnsOrder ==
    ASSUME IInv, IInv', Exits, Ordered, NEW t \in Threads, HandlerReturns(t)
    PROVE  Ordered' /\ Exits' /\ Allowed
<1>1. frames[t] # << >> /\ frames[t][1].pc = "call" /\ ~exited
    BY DEF HandlerReturns, In
<1>2. PICK f \in Call1 : f = frames[t][1]
    BY <1>1, Innermost
<1>3. mutex' = mutex
    BY DEF HandlerReturns
<1>4. CASE Again(t, f)
    <2>1. PICK g : g = [Scanning(f) EXCEPT !.prevp = NULL]
        OBVIOUS
    <2>2. Goto(t, g) /\ UNCHANGED << node, top, heap >>
        BY <1>2, <1>4, <2>1 DEF HandlerReturns
    <2>3. g \in Call1 /\ g.pc = "scan" /\ g.prevp = NULL /\ g.dso = f.dso
        BY <1>2, <2>1 DEF Call1, Scanning
    <2>4. ASSUME NEW s, NEW n, Order(s, n), Ends(s, n) PROVE \E k \in 0..n : PassedTo(g, s, n, k)
        <3>1. n \in Nat
            BY <2>4 DEF Order, ListIs
        <3>2. 0 \in 0..n /\ PassedTo(g, s, n, 0)
            BY <2>3, <3>1 DEF PassedTo
        <3> QED
            BY <3>2
    <2> QED
        BY <1>1, <1>2, <1>3, <2>2, <2>3, <2>4, MoveOrder
<1>5. CASE ~Again(t, f)
    <2>1. Retire(t, f, f.ah) /\ f.p = top
        BY <1>2, <1>5 DEF HandlerReturns, Again
    <2>2. WalkOK(f, 1 = Len(frames[t]))
        BY <1>1, <1>2, Innermost
    <2>3. f.ah \in Live
        BY <1>1, <1>2, <2>2 DEF WalkOK
    <2>4. ASSUME Len(frames[t]) = 1 PROVE Follows(f.prevp, f.ah)
        BY <1>1, <1>2, <2>1, <2>2, <2>3, <2>4 DEF WalkOK, Follows
    <2>5. /\ AllReached(f, f.ah)
          /\ \A s, n : Order(s, n) /\ Ends(s, n) => node[f.ah].fn = NoFn
        BY <1>1, <1>2, <2>1, ReturnReaches
    <2> QED
        BY <1>1, <1>2, <1>3, <2>1, <2>3, <2>4, <2>5, RetireOrder
<1> QED
    BY <1>4, <1>5

\* The loop is at an entry to call.
LEMMA CallOrder ==
    ASSUME IInv, IInv', Exits, Ordered, NEW t \in Threads, Call(t)
    PROVE  Ordered' /\ Exits' /\ Allowed
<1>1. frames[t] # << >> /\ frames[t][1].pc = "scan" /\ Deref(frames[t][1].prevp) # NULL
    BY DEF Call, In
<1>2. PICK f \in Call1, ah \in Live : f = frames[t][1] /\ ah = Deref(f.prevp) /\ ah \in Nodes
    BY <1>1, AtEntry
<1>3. PICK g : g = [f EXCEPT !.pc = "call", !.ah = ah, !.p = top]
    OBVIOUS
<1>4. /\ Goto(t, g) /\ node' = [node EXCEPT ![ah].fn = NoFn] /\ UNCHANGED << top, heap, mutex >>
      /\ f.dso \in {NoDso, node[ah].dso} /\ node[ah].fn # NoFn
    BY <1>2, <1>3 DEF Call, ClearFn, Chosen
<1>5. Types /\ Nesting /\ SlotsOK
    BY DEF IInv
<1>6. /\ g \in Call1 /\ g.pc = "call" /\ g.dso = f.dso /\ g.prevp = f.prevp /\ g.ah = ah
      /\ g.p = top
    BY <1>2, <1>3, <1>5 DEF Call1, Types
<1>7. /\ node'[ah].fn = NoFn /\ node \in [Nodes -> Entry]
      /\ \A m \in Nodes : node'[m].dso = node[m].dso /\ node'[m].next = node[m].next
      /\ \A m \in Nodes : m # ah => node'[m].fn = node[m].fn
    BY <1>2, <1>4, <1>5 DEF Types, Entry
<1>8. ListSame /\ \A m \in Live : node'[m].dso = node[m].dso /\ node'[m].fn \in {node[m].fn, NoFn}
    BY <1>4, <1>5, <1>7, LiveNodes DEF ListSame
<1>9. AllReached(f, ah)
    BY <1>1, <1>2, ScanReaches
<1>10. g.dso = NoDso /\ Len(frames[t]) = 1 => g.prevp = NULL
    BY <1>1, <1>2, <1>6, Innermost, ZenonT(60) DEF Exits
<1>11. Exits' /\ (ExitDone' => ExitDone)
    BY <1>1, <1>2, <1>4, <1>5, <1>6, <1>10, ExitsGoto
<1>12. ActiveDsos' = ActiveDsos /\ ActiveDsos # << >> /\ Head(ActiveDsos) = f.dso
    BY <1>1, <1>2, <1>4, <1>5, <1>6, ActiveWalk
<1>13. PICK s, n : Order(s, n)
    BY DEF Ordered
<1>14. ListIs(s, n)
    BY <1>13 DEF Order
<1>15. /\ ListIs(s, n)' /\ (Ends(s, n)' <=> Ends(s, n))
       /\ \A fr : WalkOrder(fr, s, n) => WalkOrder(fr, s, n)'
    BY <1>5, <1>8, <1>14, OrderKept
<1>16. n \in Nat /\ s \in [1..n -> Nodes] /\ Sequences(s, n) /\ \A i \in 1..n : s[i] \in Nodes
    BY <1>5, <1>14, ListNodes
<1>17. ASSUME Ends(s, n)
       PROVE  \E k \in 0..n : /\ k < n /\ s[k + 1] = ah /\ f.prevp = IF k = 0 THEN NULL ELSE s[k]
                              /\ \A i \in 1..k : ~Wanted(f.dso, s[i])
    BY <1>9, <1>13, <1>17 DEF AllReached, Reached
<1>18. WalkOrder(g, s, n)'
    <2>1. n # 0
        BY <1>16, <1>17 DEF Ends
    <2>2. 1 \in 1..n /\ top = s[1]
        BY <1>14, <1>16, <2>1 DEF ListIs
    <2>3. ASSUME Ends(s, n) PROVE \E k \in 0..n : PassedTo(g, s, n, k)'
        <3>1. PICK k \in 0..n : /\ k < n /\ s[k + 1] = ah /\ f.prevp = IF k = 0 THEN NULL ELSE s[k]
                                /\ \A i \in 1..k : ~Wanted(f.dso, s[i])
            BY <1>17, <2>3
        <3>2. \A i \in 1..k : s[i] \in Nodes
            BY <1>16
        <3>3. \A i \in 1..k : ~Wanted(g.dso, s[i])'
            BY <1>6, <1>7, <3>1, <3>2 DEF Wanted
        <3>4. PassedTo(g, s, n, k)'
            BY <1>6, <1>7, <3>1, <3>3 DEF PassedTo
        <3> QED
            BY <3>4
    <2> QED
        BY <1>6, <1>15, <2>2, <2>3 DEF WalkOrder
<1>19. ExitDone' => AfterExit(s, n)'
    <2>1. SUFFICES ASSUME ExitDone PROVE AfterExit(s, n)'
        BY <1>11
    <2>2. AfterExit(s, n)
        BY <1>13, <2>1 DEF Order
    <2>3. ah \notin Slots
        <3>1. SUFFICES ASSUME ah \in Slots PROVE FALSE
            OBVIOUS
        <3>2. f.dso = NoDso
            BY <1>4, <1>5, <3>1 DEF SlotsOK
        <3>3. PICK u \in Threads :
                 Len(frames[u]) = 1 /\ frames[u][1].dso = NoDso /\ frames[u][1].pc = "free"
            BY <2>1 DEF ExitDone
        <3>4. frames[u] \in Seq(Call1) /\ 1 \in DOMAIN frames[u] /\ 1 \in DOMAIN frames[t]
            BY <1>1, <1>5, <3>3, Innermost DEF Types
        <3>5. u = t
            BY <1>2, <3>2, <3>3, <3>4 DEF Exits
        <3> QED
            BY <1>1, <3>3, <3>5
    <2> QED
        BY <1>7, <1>15, <1>16, <2>2, <2>3 DEF AfterExit
<1>20. \A u \in Threads : \A i \in DOMAIN frames[u] : \A fr :
          fr = frames[u][i] => WalkOrder(fr, s, n)'
    BY <1>13, <1>15 DEF Order
<1>21. Order(s, n)'
    BY <1>1, <1>4, <1>5, <1>6, <1>15, <1>18, <1>19, <1>20, OrderGoto
<1>22. CASE ~Ends(s, n)
    <2>1. ~Acyclic
        BY <1>14, <1>22, ListAcyclic
    <2> QED
        BY <1>11, <1>21, <2>1 DEF Ordered, Allowed
<1>23. CASE Ends(s, n)
    <2>1. PICK k \in 0..n : k < n /\ s[k + 1] = ah /\ \A i \in 1..k : ~Wanted(f.dso, s[i])
        BY <1>17, <1>23
    <2>2. PICK q : Collects(q, s, n) /\ PendingEntries = q[n]
        BY <1>14, CollectsExists
    <2>3. PICK e : e = [fn |-> node[ah].fn, dso |-> node[ah].dso]
        OBVIOUS
    <2>4. e \in Ev /\ e.dso = node[ah].dso /\ Uncalled(s[k + 1]) = << e >>
          /\ Uncalled(s[k + 1])' = << >>
        BY <1>2, <1>4, <1>7, <2>1, <2>3 DEF Uncalled, Ev, Entry
    <2>5. SameBut(s, n, k)
        <3>1. ASSUME NEW i \in 1..n, i # k + 1 PROVE s[i] # ah
            <4>1. k + 1 \in 1..n
                BY <1>16, <2>1
            <4> QED
                BY <1>14, <2>1, <3>1, <4>1 DEF ListIs
        <3> QED
            BY <1>7, <1>16, <3>1 DEF SameBut, Uncalled
    <2>6. /\ \E r : Collects(r, s, n)' /\ r[n] = RemoveAt(q[n], Len(q[k]) + 1)
          /\ Len(q[k]) + 1 \in 1..Len(q[n]) /\ q[n][Len(q[k]) + 1] = e
          /\ Len(q[k]) \in Nat /\ \A x \in 1..Len(q[k]) : q[n][x] = q[k][x]
        BY <1>16, <2>1, <2>2, <2>4, <2>5, CollectsClear
    <2>7. PICK r : Collects(r, s, n)' /\ r[n] = RemoveAt(q[n], Len(q[k]) + 1)
        BY <2>6
    <2>8. Pended(s, n, r)'
        BY PendingLawNext
    <2>9. PendingEntries' = RemoveAt(PendingEntries, Len(q[k]) + 1)
        BY <1>15, <2>2, <2>7, <2>8 DEF Pended
    <2>10. ASSUME NEW x \in 1..Len(q[k]) PROVE f.dso # NoDso /\ f.dso # q[n][x].dso
        <3>1. PICK i \in 1..k : node[s[i]].fn # NoFn /\ q[k][x].dso = node[s[i]].dso
            BY <1>5, <1>16, <2>2, CollectsFrom
        <3> QED
            BY <2>1, <2>6, <3>1 DEF Wanted
    <2>11. PICK c : c = Len(q[k]) + 1
        OBVIOUS
    <2>12. c - 1 = Len(q[k]) /\ c \in 1..Len(PendingEntries) /\ PendingEntries[c] = e
           /\ PendingEntries' = RemoveAt(PendingEntries, c)
        BY <2>2, <2>6, <2>9, <2>11
    <2>13. \A x \in 1..(c - 1) : f.dso # NoDso /\ f.dso # PendingEntries[x].dso
        BY <2>2, <2>10, <2>12
    <2>14. f.dso = NoDso \/ f.dso = e.dso
        BY <1>4, <2>4
    <2>16. PendingEntries' = EH!RemoveAt(PendingEntries, c)
        BY <2>12 DEF RemoveAt, EH!RemoveAt
    <2>15. EH!Call
        BY <1>12, <2>12, <2>13, <2>14, <2>16 DEF EH!Call, EH!Matches
    <2> QED
        BY <1>11, <1>21, <2>15 DEF Ordered, Allowed, EH!Next
<1> QED
    BY <1>22, <1>23

\* The walk is at the end of the list.
LEMMA UnlockOrder ==
    ASSUME IInv, IInv', Exits, Ordered, NEW t \in Threads, Unlock(t)
    PROVE  Ordered' /\ Exits' /\ Allowed
<1>1. frames[t] # << >> /\ frames[t][1].pc = "scan" /\ Deref(frames[t][1].prevp) = NULL
    BY DEF Unlock, In
<1>2. PICK f \in Call1 : f = frames[t][1] /\ 1 \in DOMAIN frames[t]
    BY <1>1, Innermost
<1>3. PICK g : g = [f EXCEPT !.pc = "free", !.prevp = NULL]
    OBVIOUS
<1>4. Goto(t, g) /\ mutex' = Released(t) /\ UNCHANGED << node, top, heap >>
    BY <1>2, <1>3 DEF Unlock
<1>5. Types /\ Nesting
    BY DEF IInv
<1>6. g \in Call1 /\ g.pc = "free" /\ g.dso = f.dso /\ g.prevp = NULL
    BY <1>2, <1>3 DEF Call1
<1>7. ListSame /\ \A m \in Live : node'[m].dso = node[m].dso /\ node'[m].fn \in {node[m].fn, NoFn}
    BY <1>4 DEF ListSame
<1>8. Exits' /\ (ExitDone' => ExitDone \/ (f.dso = NoDso /\ Len(frames[t]) = 1))
    BY <1>1, <1>2, <1>4, <1>5, <1>6, ExitsGoto
<1>9. ActiveDsos' = Tail(ActiveDsos) /\ ActiveDsos # << >> /\ Head(ActiveDsos) = f.dso
    BY <1>1, <1>2, <1>4, <1>5, <1>6, ActiveEnds
<1>10. PICK s, n : Order(s, n)
    BY DEF Ordered
<1>11. ListIs(s, n)
    BY <1>10 DEF Order
<1>12. /\ ListIs(s, n)' /\ (Ends(s, n)' <=> Ends(s, n))
       /\ \A fr : WalkOrder(fr, s, n) => WalkOrder(fr, s, n)'
    BY <1>5, <1>7, <1>11, OrderKept
<1>13. n \in Nat /\ s \in [1..n -> Nodes] /\ \A i \in 1..n : s[i] \in Nodes /\ s[i] # NULL
    BY <1>5, <1>11, ListNodes
<1>14. WalkOrder(g, s, n)'
    BY <1>6 DEF WalkOrder
<1>15. ExitDone' => AfterExit(s, n)'
    <2>1. CASE ExitDone
        <3>1. AfterExit(s, n)
            BY <1>10, <2>1 DEF Order
        <3> QED
            BY <1>4, <1>12, <3>1 DEF AfterExit
    <2>2. CASE f.dso = NoDso /\ Len(frames[t]) = 1
        <3>1. f.prevp = NULL
            BY <1>2, <2>2 DEF Exits
        <3>2. top = NULL
            BY <1>1, <1>2, <3>1 DEF Deref
        <3>3. n = 0
            <4>1. ASSUME n # 0 PROVE FALSE
                <5>1. 1 \in 1..n /\ top = s[1]
                    BY <1>11, <1>13, <4>1 DEF ListIs
                <5> QED
                    BY <1>13, <3>2, <5>1
            <4> QED
                BY <4>1
        <3> QED
            BY <3>3 DEF AfterExit, Ends
    <2> QED
        BY <1>8, <2>1, <2>2
<1>16. \A u \in Threads : \A i \in DOMAIN frames[u] : \A fr :
          fr = frames[u][i] => WalkOrder(fr, s, n)'
    BY <1>10, <1>12 DEF Order
<1>17. Order(s, n)'
    BY <1>1, <1>4, <1>5, <1>6, <1>12, <1>14, <1>15, <1>16, OrderGoto
<1>18. CASE ~Ends(s, n)
    <2>1. ~Acyclic
        BY <1>11, <1>18, ListAcyclic
    <2> QED
        BY <1>8, <1>17, <2>1 DEF Ordered, Allowed
<1>19. CASE Ends(s, n)
    <2>1. PICK k \in 0..n : PassedTo(f, s, n, k)
        BY <1>1, <1>2, <1>10, <1>19 DEF Order, WalkOrder
    <2>2. f.prevp = (IF k = 0 THEN NULL ELSE s[k]) /\ \A i \in 1..k : ~Wanted(f.dso, s[i])
        BY <2>1 DEF PassedTo
    <2>3. Deref(f.prevp) = IF k < n THEN s[k + 1] ELSE NULL
        BY <1>5, <1>11, <1>19, <2>2, NextPlace
    <2>4. k = n
        <3>1. ASSUME k < n PROVE FALSE
            <4>1. k + 1 \in 1..n
                BY <1>13, <3>1
            <4> QED
                BY <1>1, <1>2, <1>13, <2>3, <3>1, <4>1
        <3> QED
            BY <1>13, <3>1
    <2>5. PICK q : Collects(q, s, n) /\ PendingEntries = q[n]
        BY <1>11, CollectsExists
    <2>6. n \in 0..n
        BY <1>13
    <2>7. ASSUME NEW x \in 1..Len(q[n]) PROVE f.dso # NoDso /\ f.dso # q[n][x].dso
        <3>1. PICK i \in 1..n : node[s[i]].fn # NoFn /\ q[n][x].dso = node[s[i]].dso
            BY <1>5, <1>13, <2>5, <2>6, CollectsFrom
        <3> QED
            BY <2>2, <2>4, <3>1 DEF Wanted
    <2>8. PendingEntries' = PendingEntries
        <3>1. \A i \in 1..n : Uncalled(s[i])' = Uncalled(s[i])
            BY <1>4 DEF Uncalled
        <3> QED
            BY <1>11, <1>12, <3>1, PendingSame
    <2>9. EH!Return
        BY <1>9, <2>5, <2>7, <2>8 DEF EH!Return, EH!Matches
    <2> QED
        BY <1>8, <1>17, <2>9 DEF Ordered, Allowed, EH!Next
<1> QED
    BY <1>18, <1>19

\* A node that is not in the list becomes its first.
LEMMA NewList ==
    ASSUME Types, NEW ah, NEW d, Fresh(ah), Linked1(ah, d), Live' = Live \cup {ah},
           NEW s, NEW n, ListIs(s, n), \A i \in 1..n : s[i] # ah
    PROVE  \E z : ListIs(z, n + 1)' /\ Prefixed(z, ah, s, n) /\ (Ends(z, n + 1)' <=> Ends(s, n))
<1>1. n \in Nat /\ s \in [1..n -> Live] /\ \A i \in 1..n : s[i] \in Nodes /\ s[i] \in Live
    BY ListNodes DEF ListIs
<1>2. PICK z : z = [i \in 1..(n + 1) |-> IF i = 1 THEN ah ELSE s[i - 1]]
    OBVIOUS
<1>3. /\ 1 \in 1..(n + 1) /\ n + 1 \in 1..(n + 1) /\ n + 1 # 0 /\ n + 1 \in Nat
      /\ \A i \in 1..(n + 1) : i # 1 => i - 1 \in 1..n
      /\ \A i \in 1..n : i + 1 \in 1..(n + 1) /\ i + 1 # 1 /\ (i + 1) - 1 = i
    BY <1>1
<1>4. z[1] = ah /\ \A i \in 1..n : z[i + 1] = s[i]
    BY <1>2, <1>3
<1>5. z \in [1..(n + 1) -> Live']
    BY <1>1, <1>2, <1>3
<1>6. ASSUME NEW i \in 1..(n + 1), NEW j \in 1..(n + 1), z[i] = z[j] PROVE i = j
    <2>1. CASE i = 1 \/ j = 1
        BY <1>2, <1>3, <1>6, <2>1
    <2>2. CASE i # 1 /\ j # 1
        <3>1. i - 1 \in 1..n /\ j - 1 \in 1..n /\ s[i - 1] = s[j - 1]
            BY <1>2, <1>3, <1>6, <2>2
        <3>2. i - 1 = j - 1
            BY <3>1 DEF ListIs
        <3> QED
            BY <3>2
    <2> QED
        BY <2>1, <2>2
<1>7. \A i \in 1..n : node'[z[i + 1]] = node[s[i]]
    BY <1>1, <1>4 DEF Linked1
<1>8. ASSUME NEW i \in 1..(n + 1), i < n + 1 PROVE node'[z[i]].next = z[i + 1]
    <2>1. i \in 1..n /\ n # 0 /\ 1 \in 1..n
        BY <1>1, <1>8
    <2>2. CASE i = 1
        BY <1>4, <2>1, <2>2 DEF Linked1, ListIs
    <2>3. CASE i # 1
        <3>1. PICK j \in 1..n : j = i - 1 /\ j < n /\ j + 1 = i
            BY <1>1, <1>8, <2>3
        <3>2. node'[z[i]].next = node[s[j]].next
            BY <1>7, <3>1
        <3>3. node[s[j]].next = s[i]
            BY <3>1 DEF ListIs
        <3> QED
            BY <1>4, <2>1, <3>2, <3>3
    <2> QED
        BY <2>2, <2>3
<1>9. CASE n = 0
    <2>1. z[n + 1] = ah /\ node'[ah].next = NULL /\ top' = z[1]
        BY <1>4, <1>9 DEF Linked1, ListIs
    <2>2. Ends(z, n + 1)' /\ Ends(s, n)
        BY <1>9, <2>1 DEF Ends
    <2>3. ListIs(z, n + 1)'
        BY <1>3, <1>5, <1>6, <1>8, <2>1 DEF ListIs
    <2> QED
        BY <1>2, <2>2, <2>3 DEF Prefixed
<1>10. CASE n # 0
    <2>1. n \in 1..n /\ node'[z[n + 1]].next = node[s[n]].next /\ top' = z[1]
        BY <1>1, <1>4, <1>7, <1>10 DEF Linked1
    <2>2. Ends(z, n + 1)' <=> Ends(s, n)
        BY <1>3, <1>10, <2>1 DEF Ends
    <2>3. node'[z[n + 1]].next = NULL \/ \E i \in 1..(n + 1) : node'[z[n + 1]].next = z[i]
        BY <1>3, <1>4, <1>10, <2>1 DEF ListIs
    <2>4. ListIs(z, n + 1)'
        BY <1>3, <1>5, <1>6, <1>8, <2>1, <2>3 DEF ListIs
    <2> QED
        BY <1>2, <2>2, <2>4 DEF Prefixed
<1> QED
    BY <1>9, <1>10

\* The last node of the list is taken for a free slot: the list gets a cycle.
LEMMA NewCycle ==
    ASSUME Types, NEW ah, NEW d, Fresh(ah), Linked1(ah, d), Live' = Live \cup {ah},
           NEW s, NEW n, ListIs(s, n), NEW j \in 1..n, s[j] = ah
    PROVE  /\ n # 0 /\ j = n /\ SlotFree(ah) /\ ah \in Slots
           /\ \E z : ListIs(z, n)' /\ Prefixed(z, ah, s, n - 1) /\ ~Ends(z, n)'
<1>1. n \in Nat /\ s \in [1..n -> Live]
      /\ \A i \in 1..n : s[i] \in Nodes /\ s[i] \in Live /\ s[i] # NULL
    BY ListNodes DEF ListIs
<1>2. SlotFree(ah) /\ ah \in Slots /\ ah # NULL
    BY <1>1, NodeFacts DEF Fresh, Live
<1>3. j = n /\ n # 0
    <2>1. ASSUME j # n PROVE FALSE
        <3>1. j < n /\ j + 1 \in 1..n
            BY <1>1, <2>1
        <3>2. node[ah].next = s[j + 1]
            BY <3>1 DEF ListIs
        <3> QED
            BY <1>1, <1>2, <3>1, <3>2 DEF SlotFree
    <2> QED
        BY <1>1, <2>1
<1>4. PICK z : z = [i \in 1..n |-> IF i = 1 THEN ah ELSE s[i - 1]]
    OBVIOUS
<1>5. /\ 1 \in 1..n /\ n \in 1..n /\ (n - 1) + 1 = n /\ 1..((n - 1) + 1) = 1..n
      /\ \A i \in 1..n : i # 1 => i - 1 \in 1..n /\ i - 1 < n /\ i - 1 # n /\ (i - 1) + 1 = i
      /\ \A i \in 1..n : i < n => i + 1 \in 1..n /\ i + 1 # 1 /\ (i + 1) - 1 = i
    BY <1>1, <1>3
<1>6. z[1] = ah /\ \A i \in 1..n : i < n => z[i + 1] = s[i]
    BY <1>4, <1>5
<1>7. z \in [1..n -> Live']
    BY <1>1, <1>4, <1>5
<1>8. \A i \in 1..n : i # n => s[i] # ah
    BY <1>3, <1>5 DEF ListIs
<1>9. ASSUME NEW i \in 1..n, NEW k \in 1..n, z[i] = z[k] PROVE i = k
    <2>1. CASE i = 1 \/ k = 1
        BY <1>4, <1>5, <1>8, <1>9, <2>1
    <2>2. CASE i # 1 /\ k # 1
        <3>1. i - 1 \in 1..n /\ k - 1 \in 1..n /\ s[i - 1] = s[k - 1]
            BY <1>4, <1>5, <1>9, <2>2
        <3>2. i - 1 = k - 1
            BY <3>1 DEF ListIs
        <3> QED
            BY <3>2
    <2> QED
        BY <2>1, <2>2
<1>10. \A i \in 1..n : i # n => node'[s[i]] = node[s[i]]
    BY <1>1, <1>8 DEF Linked1
<1>11. node'[ah].next = s[1] /\ top' = ah
    BY <1>3 DEF Linked1, ListIs
<1>12. ASSUME NEW i \in 1..n, i # 1 PROVE node'[z[i]].next = s[i]
    <2>1. PICK k \in 1..n : k = i - 1 /\ k < n /\ k # n /\ k + 1 = i
        BY <1>5, <1>12
    <2>2. z[i] = s[k] /\ node'[s[k]] = node[s[k]]
        BY <1>6, <1>10, <2>1
    <2>3. node[s[k]].next = s[i]
        BY <2>1 DEF ListIs
    <2> QED
        BY <2>2, <2>3
<1>13. ASSUME NEW i \in 1..n, i < n PROVE node'[z[i]].next = z[i + 1]
    <2>1. z[i + 1] = s[i]
        BY <1>6, <1>13
    <2>2. CASE i = 1
        BY <1>6, <1>11, <2>1, <2>2
    <2>3. CASE i # 1
        BY <1>12, <2>1, <2>3
    <2> QED
        BY <2>2, <2>3
<1>14. node'[z[n]].next = z[1]
    <2>1. CASE n = 1
        BY <1>3, <1>6, <1>11, <2>1
    <2>2. CASE n # 1
        BY <1>3, <1>5, <1>6, <1>12, <2>2
    <2> QED
        BY <2>1, <2>2
<1>15. ListIs(z, n)'
    BY <1>1, <1>3, <1>5, <1>6, <1>7, <1>9, <1>11, <1>13, <1>14 DEF ListIs
<1>16. ~Ends(z, n)'
    BY <1>2, <1>3, <1>6, <1>14 DEF Ends
<1>17. Prefixed(z, ah, s, n - 1)
    BY <1>4, <1>5 DEF Prefixed
<1> QED
    BY <1>2, <1>3, <1>15, <1>16, <1>17

\* Every walk is in order after the step.
WalksNext(s, n) ==
    \A u \in Threads : \A i \in DOMAIN frames'[u] : \A f :
       f = frames'[u][i] => WalkOrder(f, s, n)'

\* The list z has every node of s, and s lacks ah.
Covers(z, m, s, n) == \A i \in 1..n : \E j \in 1..m : z[j] = s[i]

Lacks(s, n, ah) == \A i \in 1..n : s[i] # ah

\* The order, from what holds of every call after the step.
LEMMA OrderNext ==
    ASSUME NEW s, NEW n, ListIs(s, n)', ExitDone' => AfterExit(s, n)', WalksNext(s, n)
    PROVE  Order(s, n)'
<1>1. (\A u \in Threads : \A i \in DOMAIN frames[u] : WalkOrder(frames[u][i], s, n))'
    BY DEF WalksNext, WalkOrder, PassedTo, Wanted, Ends
<1> QED
    BY <1>1 DEF Order

\* A new entry, however it is linked, leaves every walk in order: the handler that
\* registered it was called before it was on the list.
LEMMA NewWalks ==
    ASSUME Types, Nesting, NEW t \in Threads, InCode(t), CanLock(t), frames' = frames, NEW ah,
           NEW s, NEW n, Order(s, n), NEW z, NEW m, top' = ah, Covers(z, m, s, n),
           ~Ends(z, m)' \/ Lacks(s, n, ah)
    PROVE  WalksNext(z, m)
<1> SUFFICES ASSUME NEW u \in Threads, NEW i \in DOMAIN frames[u], NEW f, f = frames[u][i]
             PROVE  WalkOrder(f, z, m)'
    BY DEF WalksNext
<1>1. frames[u] \in Seq(Call1) /\ DOMAIN frames[u] = 1..Len(frames[u])
    BY DEF Types
<1>2. f.pc # "scan"
    <2>1. CASE i # 1
        <3>1. i > 1
            BY <1>1, <2>1
        <3> QED
            BY <3>1 DEF Nesting
    <2>2. CASE i = 1 /\ u = t
        BY <1>1, <2>2, Outside
    <2>3. CASE i = 1 /\ u # t
        <3>1. mutex # u
            BY <2>3, Outside
        <3>2. frames[u] # << >>
            BY <1>1
        <3> QED
            BY <2>3, <3>1, <3>2, Others
    <2> QED
        BY <2>1, <2>2, <2>3
<1>3. WalkOrder(f, s, n)
    BY DEF Order
<1>4. ASSUME f.pc = "call" PROVE (\E j \in 1..m : f.p = z[j]) /\ (~Ends(z, m)' \/ f.p # ah)
    BY <1>3, <1>4 DEF WalkOrder, Covers, Lacks
<1> QED
    BY <1>2, <1>4 DEF WalkOrder

\* A registration.
LEMMA RegisterOrder ==
    ASSUME IInv, IInv', Exits, Ordered, NEW t \in Threads, NEW d \in AllDsos, Register(t, d)
    PROVE  Ordered' /\ Exits' /\ Allowed
<1>1. Types /\ Nesting
    BY DEF IInv
<1>2. PICK ah \in atexit_handler_alloc(d) \ {NULL} :
          /\ node' = [node EXCEPT ![ah] = [fn |-> made + 1, dso |-> d, next |-> top]]
          /\ top' = ah
          /\ heap' = heap \cup ({ah} \ Slots)
    BY DEF Register
<1>3. InCode(t) /\ CanLock(t) /\ made < MaxHandlers /\ frames' = frames /\ mutex' = mutex
    BY DEF Register
<1>4. Fresh(ah) /\ ah \in Nodes
    BY AllocFacts DEF Fresh
<1>5. made + 1 \in Handlers /\ made + 1 # NoFn
    BY <1>1, <1>3, AtexitAssumption DEF Types, Handlers, NoFn
<1>6. PICK e : e = [fn |-> made + 1, dso |-> d, next |-> top]
    OBVIOUS
<1>7. e \in Entry /\ e.fn = made + 1 /\ e.dso = d /\ e.next = top
    BY <1>1, <1>5, <1>6 DEF Entry, Types
<1>8. node' \in [Nodes -> Entry] /\ node'[ah] = e
      /\ \A m \in Nodes : m # ah => node'[m] = node[m]
    BY <1>1, <1>2, <1>4, <1>6, <1>7 DEF Types
<1>9. Linked1(ah, d)
    BY <1>2, <1>5, <1>7, <1>8 DEF Linked1
<1>10. Live' = Live \cup {ah}
    BY <1>4, <1>9, NewEntry
<1>11. Exits' /\ (ExitDone' <=> ExitDone)
    BY <1>3 DEF Exits, ExitDone
<1>12. ActiveDsos' = ActiveDsos
    BY <1>3 DEF ActiveDsos, Holding
<1>13. PICK v : v = [fn |-> made + 1, dso |-> d]
    OBVIOUS
<1>14. v \in Ev /\ Uncalled(ah)' = << v >>
    BY <1>5, <1>7, <1>8, <1>13 DEF Uncalled, Ev
<1>15. PICK s, n : Order(s, n)
    BY DEF Ordered
<1>16. ListIs(s, n)
    BY <1>15 DEF Order
<1>17. n \in Nat /\ Sequences(s, n) /\ \A i \in 1..n : s[i] \in Nodes
    BY <1>1, <1>16, ListNodes
<1>18. PICK q : Collects(q, s, n) /\ PendingEntries = q[n]
    BY <1>16, CollectsExists
<1>19. ASSUME PendingEntries' = << v >> \o PendingEntries PROVE Allowed
    <2>1. EH!Register(made + 1, d)
        BY <1>12, <1>13, <1>19 DEF EH!Register
    <2> QED
        BY <1>5, <2>1 DEF Allowed, EH!Next, AllDsos
<1>20. CASE \A i \in 1..n : s[i] # ah
    <2>1. PICK z : ListIs(z, n + 1)' /\ Prefixed(z, ah, s, n) /\ (Ends(z, n + 1)' <=> Ends(s, n))
        BY <1>1, <1>4, <1>9, <1>10, <1>16, <1>20, NewList
    <2>2. \A i \in 1..n : i + 1 \in 1..(n + 1) /\ i + 1 # 1 /\ (i + 1) - 1 = i
        BY <1>17
    <2>3. \A i \in 1..n : z[i + 1] = s[i]
        BY <2>1, <2>2 DEF Prefixed
    <2>4. Covers(z, n + 1, s, n)
        BY <2>2, <2>3 DEF Covers
    <2>5. Lacks(s, n, ah)
        BY <1>20 DEF Lacks
    <2>6. WalksNext(z, n + 1)
        BY <1>1, <1>2, <1>3, <1>15, <2>4, <2>5, NewWalks, ZenonT(60)
    <2>7. ExitDone' => AfterExit(z, n + 1)'
        <3>1. SUFFICES ASSUME AfterExit(s, n) PROVE AfterExit(z, n + 1)'
            BY <1>11, <1>15 DEF Order
        <3>2. Ends(z, n + 1)'
            BY <2>1, <3>1 DEF AfterExit
        <3>3. ASSUME NEW i \in 1..(n + 1), z[i] \in Slots PROVE node'[z[i]].fn # NoFn
            <4>1. CASE i = 1
                <5>1. z[i] = ah
                    BY <2>1, <4>1 DEF Prefixed
                <5> QED
                    BY <1>5, <1>7, <1>8, <5>1
            <4>2. CASE i # 1
                <5>1. PICK j \in 1..n : j = i - 1
                    BY <1>17, <4>2
                <5>2. z[i] = s[j]
                    BY <2>1, <4>2, <5>1 DEF Prefixed
                <5> QED
                    BY <1>8, <1>17, <1>20, <3>1, <3>3, <5>2 DEF AfterExit
            <4> QED
                BY <4>1, <4>2
        <3> QED
            BY <3>2, <3>3 DEF AfterExit
    <2>8. Order(z, n + 1)'
        BY <2>1, <2>6, <2>7, OrderNext
    <2>9. SameFirst(s, n)
        BY <1>8, <1>17, <1>20 DEF SameFirst, Sequences, Uncalled
    <2>10. n \in 0..n
        BY <1>17
    <2>11. PICK r : Collects(r, z, n + 1)' /\ r[n + 1] = << v >> \o q[n]
        BY <1>14, <1>17, <1>18, <2>1, <2>9, <2>10, CollectsNew
    <2>12. Pended(z, n + 1, r)'
        BY PendingLawNext
    <2>13. PendingEntries' = << v >> \o PendingEntries
        BY <1>18, <2>1, <2>11, <2>12 DEF Pended
    <2> QED
        BY <1>11, <1>19, <2>8, <2>13 DEF Ordered
<1>21. CASE \E j \in 1..n : s[j] = ah
    <2>1. PICK j \in 1..n : s[j] = ah
        BY <1>21
    <2>2. /\ n # 0 /\ j = n /\ SlotFree(ah) /\ ah \in Slots
          /\ \E z : ListIs(z, n)' /\ Prefixed(z, ah, s, n - 1) /\ ~Ends(z, n)'
        BY <1>1, <1>4, <1>9, <1>10, <1>16, <2>1, NewCycle
    <2>3. PICK z : ListIs(z, n)' /\ Prefixed(z, ah, s, n - 1) /\ ~Ends(z, n)'
        BY <2>2
    <2>4. PICK k \in 0..n : k = n - 1 /\ k + 1 = n /\ \A i \in 1..k : i \in 1..n /\ i # n
        BY <1>17, <2>2
    <2>5. Prefixed(z, ah, s, k)
        BY <2>3, <2>4
    <2>6. ASSUME NEW i \in 1..n PROVE \E c \in 1..n : z[c] = s[i]
        <3>1. CASE i = n
            <4>1. 1 \in 1..(k + 1) /\ 1 \in 1..n
                BY <1>17, <2>2, <2>4
            <4>2. z[1] = s[i]
                BY <2>1, <2>2, <2>5, <3>1, <4>1 DEF Prefixed
            <4> QED
                BY <4>1, <4>2
        <3>2. CASE i # n
            <4>1. i + 1 \in 1..(k + 1) /\ i + 1 # 1 /\ (i + 1) - 1 = i /\ i + 1 \in 1..n
                BY <1>17, <2>4, <3>2
            <4>2. z[i + 1] = s[i]
                BY <2>5, <4>1 DEF Prefixed
            <4> QED
                BY <4>1, <4>2
        <3> QED
            BY <3>1, <3>2
    <2>16. Covers(z, n, s, n)
        BY <2>6 DEF Covers
    <2>7. WalksNext(z, n)
        BY <1>1, <1>2, <1>3, <1>15, <2>3, <2>16, NewWalks, ZenonT(60)
    <2>8. ~ExitDone'
        BY <1>11, <1>15, <2>1, <2>2 DEF Order, AfterExit, SlotFree
    <2>9. Order(z, n)'
        BY <2>3, <2>7, <2>8, OrderNext
    <2>10. SameFirst(s, k)
        <3>1. \A i \in 1..k : s[i] # ah
            BY <1>16, <2>1, <2>2, <2>4 DEF ListIs
        <3> QED
            BY <1>8, <1>17, <2>4, <3>1 DEF SameFirst, Sequences, Uncalled
    <2>11. \E r : Collects(r, z, k + 1)' /\ r[k + 1] = << v >> \o q[k]
        BY <1>14, <1>17, <1>18, <2>5, <2>10, CollectsNew
    <2>12. PICK r : Collects(r, z, n)' /\ r[n] = << v >> \o q[k]
        BY <2>4, <2>11
    <2>13. Pended(z, n, r)'
        BY PendingLawNext
    <2>14. q[n] = q[k]
        <3>1. q[n] = q[k] \o Uncalled(ah) /\ Uncalled(ah) = << >> /\ q[k] \in Seq(Ev)
            BY <1>18, <2>1, <2>2, <2>4 DEF Collects, Uncalled, SlotFree
        <3> QED
            BY <3>1
    <2>15. PendingEntries' = << v >> \o PendingEntries
        BY <1>18, <2>3, <2>12, <2>13, <2>14 DEF Pended
    <2> QED
        BY <1>11, <1>19, <2>9, <2>15 DEF Ordered
<1> QED
    BY <1>20, <1>21

\* A step that leaves the nodes of the list as they are.
LEMMA ListKept ==
    ASSUME NEW s, NEW n, ListIs(s, n), top' = top,
           \A i \in 1..n : s[i] \in Live' /\ node'[s[i]] = node[s[i]]
    PROVE  /\ ListIs(s, n)' /\ (Ends(s, n)' <=> Ends(s, n))
           /\ \A f : WalkOrder(f, s, n) => WalkOrder(f, s, n)'
           /\ AfterExit(s, n) => AfterExit(s, n)'
           /\ \A i \in 1..n : Uncalled(s[i])' = Uncalled(s[i])
<1>1. n \in Nat /\ (n # 0 => n \in 1..n)
    BY DEF ListIs
<1>2. ListIs(s, n)'
    <2>1. s \in [1..n -> Live']
        BY DEF ListIs
    <2> QED
        BY <1>1, <2>1 DEF ListIs
<1>3. Ends(s, n)' <=> Ends(s, n)
    BY <1>1 DEF Ends
<1>4. ASSUME NEW f, NEW k \in 0..n, PassedTo(f, s, n, k) PROVE PassedTo(f, s, n, k)'
    <2>1. \A i \in 1..k : i \in 1..n
        BY <1>1
    <2>2. \A i \in 1..k : ~Wanted(f.dso, s[i])'
        BY <1>4, <2>1 DEF PassedTo, Wanted
    <2>3. ASSUME f.pc = "call" PROVE node'[f.ah].fn = NoFn
        <3>1. k + 1 \in 1..n /\ s[k + 1] = f.ah /\ node[f.ah].fn = NoFn
            BY <1>1, <1>4, <2>3 DEF PassedTo
        <3> QED
            BY <3>1
    <2> QED
        BY <1>4, <2>2, <2>3 DEF PassedTo
<1>5. ASSUME NEW f, WalkOrder(f, s, n) PROVE WalkOrder(f, s, n)'
    BY <1>3, <1>4, <1>5 DEF WalkOrder
<1>6. AfterExit(s, n) => AfterExit(s, n)'
    BY <1>3 DEF AfterExit
<1>7. \A i \in 1..n : Uncalled(s[i])' = Uncalled(s[i])
    BY DEF Uncalled
<1> QED
    BY <1>2, <1>3, <1>5, <1>6, <1>7

\* A step that leaves the list and the calls as they are.
LEMMA StillOrder ==
    ASSUME IInv, IInv', Exits, Ordered, UNCHANGED << node, top, heap, mutex, frames >>
    PROVE  Ordered' /\ Exits' /\ Allowed
<1>1. Exits' /\ (ExitDone' <=> ExitDone)
    BY DEF Exits, ExitDone
<1>2. ActiveDsos' = ActiveDsos
    BY DEF ActiveDsos, Holding
<1>3. PICK s, n : Order(s, n)
    BY DEF Ordered
<1>4. ListIs(s, n) /\ Live' = Live
    BY <1>3 DEF Order, Live
<1>5. \A i \in 1..n : s[i] \in Live' /\ node'[s[i]] = node[s[i]]
    BY <1>4 DEF ListIs
<1>6. /\ ListIs(s, n)' /\ (\A f : WalkOrder(f, s, n) => WalkOrder(f, s, n)')
      /\ (AfterExit(s, n) => AfterExit(s, n)')
      /\ \A i \in 1..n : Uncalled(s[i])' = Uncalled(s[i])
    BY <1>4, <1>5, ListKept
<1>7. WalksNext(s, n)
    BY <1>3, <1>6 DEF WalksNext, Order
<1>8. Order(s, n)'
    BY <1>1, <1>3, <1>6, <1>7, OrderNext DEF Order
<1>9. PendingEntries' = PendingEntries
    BY <1>4, <1>6, PendingSame
<1> QED
    BY <1>1, <1>2, <1>8, <1>9 DEF Ordered, Allowed

\* A call of __cxa_finalize begins.
LEMMA BeginOrder ==
    ASSUME IInv, IInv', Exits, Ordered, NEW t \in Threads, NEW d \in AllDsos, InCode(t),
           CanLock(t), Begin(t, d), d = NoDso => ~Exiting
    PROVE  Ordered' /\ Exits' /\ Allowed
<1>1. Types /\ Nesting /\ frames \in [Threads -> Seq(Call1)]
    BY DEF IInv, Types
<1>2. PICK g : g = Frame(d)
    OBVIOUS
<1>3. g \in Call1 /\ g.pc = "scan" /\ g.dso = d /\ g.prevp = NULL
    BY <1>2 DEF Frame, Call1
<1>4. /\ mutex' = t /\ frames' = [frames EXCEPT ![t] = << g >> \o @]
      /\ UNCHANGED << node, top, heap >>
    BY <1>2 DEF Begin
<1>5. /\ Len(frames'[t]) = Len(frames[t]) + 1 /\ DOMAIN frames'[t] = 1..(Len(frames[t]) + 1)
      /\ frames'[t][1] = g
      /\ \A i \in DOMAIN frames'[t] : i # 1 =>
            i - 1 \in DOMAIN frames[t] /\ frames'[t][i] = frames[t][i - 1]
      /\ \A u \in Threads : u # t => frames'[u] = frames[u]
    BY <1>1, <1>3, <1>4, PushFacts
<1>6. Len(frames[t]) \in Nat
    BY <1>1
<1>7. Exits'
    <2>1. ASSUME NEW u \in Threads, NEW i \in DOMAIN frames'[u], frames'[u][i].dso = NoDso,
                 i = Len(frames'[u])
          PROVE  frames'[u][i].prevp = NULL
        <3>1. CASE u # t
            BY <1>5, <2>1, <3>1 DEF Exits
        <3>2. CASE u = t /\ i = 1
            BY <1>3, <1>5, <3>2
        <3>3. CASE u = t /\ i # 1
            <4>1. PICK j \in DOMAIN frames[t] : j = i - 1 /\ frames'[t][i] = frames[t][j]
                BY <1>5, <2>1, <3>3
            <4>2. j = Len(frames[t])
                BY <1>5, <1>6, <2>1, <3>3, <4>1
            <4> QED
                BY <2>1, <3>3, <4>1, <4>2 DEF Exits
        <3> QED
            BY <3>1, <3>2, <3>3
    <2>2. ASSUME NEW u \in Threads, NEW v \in Threads, NEW i \in DOMAIN frames'[u],
                 NEW k \in DOMAIN frames'[v], frames'[u][i].dso = NoDso, frames'[v][k].dso = NoDso
          PROVE  u = v /\ i = k
        <3>1. CASE d = NoDso
            <4>1. \A w \in Threads : \A j \in DOMAIN frames[w] : frames[w][j].dso # NoDso
                BY <3>1 DEF Exiting
            <4>2. u = t /\ i = 1
                BY <1>5, <2>2, <4>1
            <4>3. v = t /\ k = 1
                BY <1>5, <2>2, <4>1
            <4> QED
                BY <4>2, <4>3
        <3>2. CASE d # NoDso
            <4>1. \A w \in Threads : \A j \in DOMAIN frames'[w] : frames'[w][j].dso = NoDso =>
                     IF w = t THEN j # 1 /\ j - 1 \in DOMAIN frames[t]
                                   /\ frames[t][j - 1].dso = NoDso
                     ELSE j \in DOMAIN frames[w] /\ frames[w][j].dso = NoDso
                BY <1>3, <1>5, <3>2
            <4>2. u = v
                BY <2>2, <4>1 DEF Exits
            <4>3. CASE u = t
                <5>1. /\ i - 1 \in DOMAIN frames[t] /\ frames[t][i - 1].dso = NoDso
                      /\ k - 1 \in DOMAIN frames[t] /\ frames[t][k - 1].dso = NoDso
                    BY <2>2, <4>1, <4>2, <4>3
                <5>2. i - 1 = k - 1 /\ i \in Nat /\ k \in Nat
                    BY <1>5, <4>2, <4>3, <5>1, SMTT(60) DEF Exits
                <5> QED
                    BY <4>2, <5>2
            <4>4. CASE u # t
                BY <2>2, <4>1, <4>2, <4>4 DEF Exits
            <4> QED
                BY <4>3, <4>4
        <3> QED
            BY <3>1, <3>2
    <2> QED
        BY <2>1, <2>2 DEF Exits
<1>8. ExitDone' => ExitDone
    BY <1>3, <1>5 DEF ExitDone
<1>9. ActiveDsos' = << d >> \o ActiveDsos
    BY <1>1, <1>3, <1>4, ActiveBegins
<1>10. PICK s, n : Order(s, n)
    BY DEF Ordered
<1>11. ListIs(s, n) /\ Live' = Live /\ n \in Nat
    BY <1>4, <1>10 DEF Order, Live, ListIs
<1>12. \A i \in 1..n : s[i] \in Live' /\ node'[s[i]] = node[s[i]]
    BY <1>4, <1>11 DEF ListIs
<1>13. /\ ListIs(s, n)' /\ (\A f : WalkOrder(f, s, n) => WalkOrder(f, s, n)')
       /\ (AfterExit(s, n) => AfterExit(s, n)')
       /\ \A i \in 1..n : Uncalled(s[i])' = Uncalled(s[i])
    BY <1>4, <1>11, <1>12, ListKept
<1>14. WalkOrder(g, s, n)'
    <2>1. PassedTo(g, s, n, 0)' /\ 0 \in 0..n
        BY <1>3, <1>11 DEF PassedTo
    <2> QED
        BY <1>3, <2>1 DEF WalkOrder
<1>15. WalksNext(s, n)
    <2>1. ASSUME NEW u \in Threads, NEW i \in DOMAIN frames'[u], NEW f, f = frames'[u][i]
          PROVE  WalkOrder(f, s, n)'
        <3>1. CASE u = t /\ i = 1
            <4>1. f = g
                BY <1>5, <2>1, <3>1
            <4> QED
                BY <1>14, <4>1
        <3>2. CASE ~(u = t /\ i = 1)
            <4>1. WalkOrder(f, s, n)
                BY <1>5, <1>10, <2>1, <3>2 DEF Order
            <4> QED
                BY <1>13, <4>1
        <3> QED
            BY <3>1, <3>2
    <2> QED
        BY <2>1 DEF WalksNext
<1>16. Order(s, n)'
    BY <1>8, <1>10, <1>13, <1>15, OrderNext DEF Order
<1>17. PendingEntries' = PendingEntries
    BY <1>11, <1>13, PendingSame
<1>18. EH!Begin(d)
    BY <1>9, <1>17 DEF EH!Begin
<1> QED
    BY <1>7, <1>16, <1>18 DEF Ordered, Allowed, EH!Next, AllDsos

\* A call of __cxa_finalize frees the entries it unlinked, and returns.
LEMMA ReturnOrder ==
    ASSUME IInv, IInv', Exits, Ordered, NEW t \in Threads, Return(t)
    PROVE  Ordered' /\ Exits' /\ Allowed
<1>1. Types /\ Nesting /\ DeadOnes /\ frames \in [Threads -> Seq(Call1)]
    BY DEF IInv, Types
<1>2. frames[t] # << >> /\ frames[t][1].pc = "free"
    BY DEF Return, In
<1>3. PICK f \in Call1 : f = frames[t][1] /\ 1 \in DOMAIN frames[t]
    BY <1>2, Innermost
<1>4. frames' = [frames EXCEPT ![t] = Tail(@)] /\ mutex' = mutex /\ top' = top
    BY DEF Return
<1>5. /\ Len(frames'[t]) = Len(frames[t]) - 1 /\ DOMAIN frames'[t] = 1..(Len(frames[t]) - 1)
      /\ \A i \in DOMAIN frames'[t] :
            i + 1 \in DOMAIN frames[t] /\ frames'[t][i] = frames[t][i + 1]
      /\ \A u \in Threads : u # t => frames'[u] = frames[u]
    BY <1>1, <1>2, <1>4, PopFacts
<1>6. Len(frames[t]) \in Nat
    BY <1>1
<1>7. Exits'
    <2>1. ASSUME NEW u \in Threads, NEW i \in DOMAIN frames'[u], frames'[u][i].dso = NoDso,
                 i = Len(frames'[u])
          PROVE  frames'[u][i].prevp = NULL
        <3>1. CASE u # t
            BY <1>5, <2>1, <3>1 DEF Exits
        <3>2. CASE u = t
            <4>1. PICK j \in DOMAIN frames[t] : j = i + 1 /\ frames'[t][i] = frames[t][j]
                BY <1>5, <2>1, <3>2
            <4>2. j = Len(frames[t])
                BY <1>5, <1>6, <2>1, <3>2, <4>1
            <4> QED
                BY <2>1, <3>2, <4>1, <4>2 DEF Exits
        <3> QED
            BY <3>1, <3>2
    <2>2. ASSUME NEW u \in Threads, NEW v \in Threads, NEW i \in DOMAIN frames'[u],
                 NEW k \in DOMAIN frames'[v], frames'[u][i].dso = NoDso, frames'[v][k].dso = NoDso
          PROVE  u = v /\ i = k
        <3>1. \A w \in Threads : \A j \in DOMAIN frames'[w] : frames'[w][j].dso = NoDso =>
                 IF w = t THEN j + 1 \in DOMAIN frames[t] /\ frames[t][j + 1].dso = NoDso
                 ELSE j \in DOMAIN frames[w] /\ frames[w][j].dso = NoDso
            BY <1>5
        <3>2. u = v
            BY <2>2, <3>1 DEF Exits
        <3>3. CASE u = t
            <4>1. /\ i + 1 \in DOMAIN frames[t] /\ frames[t][i + 1].dso = NoDso
                  /\ k + 1 \in DOMAIN frames[t] /\ frames[t][k + 1].dso = NoDso
                BY <2>2, <3>1, <3>2, <3>3
            <4>2. i + 1 = k + 1 /\ i \in Nat /\ k \in Nat
                BY <1>5, <3>2, <3>3, <4>1 DEF Exits
            <4> QED
                BY <3>2, <4>2
        <3>4. CASE u # t
            BY <2>2, <3>1, <3>2, <3>4 DEF Exits
        <3> QED
            BY <3>3, <3>4
    <2> QED
        BY <2>1, <2>2 DEF Exits
<1>8. ExitDone' => ExitDone
    <2>1. SUFFICES ASSUME NEW u \in Threads, Len(frames'[u]) = 1, frames'[u][1].dso = NoDso,
                          frames'[u][1].pc = "free"
                   PROVE  ExitDone
        BY DEF ExitDone
    <2>2. u # t
        <3>1. SUFFICES ASSUME u = t PROVE FALSE
            OBVIOUS
        <3>2. 1 \in DOMAIN frames'[t]
            BY <1>5, <1>6, <2>1, <3>1
        <3>3. 2 \in DOMAIN frames[t] /\ frames'[t][1] = frames[t][2] /\ 2 > 1
            BY <1>5, <3>2
        <3>4. frames[t][2].pc = "call"
            BY <1>1, <3>3 DEF Nesting
        <3> QED
            BY <2>1, <3>1, <3>3, <3>4
    <2> QED
        BY <1>5, <2>1, <2>2 DEF ExitDone
<1>9. ActiveDsos' = ActiveDsos
    BY <1>1, <1>2, <1>4, ActiveReturns
<1>10. PICK s, n : Order(s, n)
    BY DEF Ordered
<1>11. ListIs(s, n) /\ n \in Nat /\ \A i \in 1..n : s[i] \in Nodes /\ s[i] \in Live
    BY <1>1, <1>10, ListNodes DEF Order
\* The entries freed are not in the list.
<1>12. ASSUME NEW i \in 1..n PROVE s[i] \notin f.dead
    <2>1. SUFFICES ASSUME DeadOK(s[i]) PROVE FALSE
        BY <1>1, <1>3 DEF DeadOnes
    <2>2. CASE i = 1
        BY <1>11, <2>1, <2>2 DEF ListIs, DeadOK
    <2>3. CASE i # 1
        <3>1. PICK j \in 1..n : j < n /\ j + 1 = i
            <4>1. i - 1 \in 1..n /\ i - 1 < n /\ (i - 1) + 1 = i
                BY <1>11, <2>3
            <4> QED
                BY <4>1
        <3>2. node[s[j]].next = s[i]
            BY <1>11, <3>1 DEF ListIs
        <3> QED
            BY <1>11, <2>1, <3>2 DEF DeadOK
    <2> QED
        BY <2>2, <2>3
<1>13. ASSUME NEW i \in 1..n PROVE s[i] \in Live' /\ node'[s[i]] = node[s[i]]
    <2>1. CASE call_depth > 0
        <3>1. heap' = heap /\ node' = node
            BY <2>1 DEF Return
        <3> QED
            BY <1>11, <3>1 DEF Live
    <2>2. CASE ~(call_depth > 0)
        <3>1. /\ heap' = heap \ f.dead
              /\ node' = [m \in Nodes |-> IF m \in f.dead THEN Blank ELSE node[m]]
            BY <1>3, <2>2 DEF Return
        <3> QED
            BY <1>11, <1>12, <3>1 DEF Live
    <2> QED
        BY <2>1, <2>2
<1>14. /\ ListIs(s, n)' /\ (\A fr : WalkOrder(fr, s, n) => WalkOrder(fr, s, n)')
       /\ (AfterExit(s, n) => AfterExit(s, n)')
       /\ \A i \in 1..n : Uncalled(s[i])' = Uncalled(s[i])
    BY <1>4, <1>11, <1>13, ListKept
<1>15. WalksNext(s, n)
    <2>1. ASSUME NEW u \in Threads, NEW i \in DOMAIN frames'[u], NEW fr, fr = frames'[u][i]
          PROVE  WalkOrder(fr, s, n)
        BY <1>5, <1>10, <2>1 DEF Order
    <2> QED
        BY <1>14, <2>1 DEF WalksNext
<1>16. Order(s, n)'
    BY <1>8, <1>10, <1>14, <1>15, OrderNext DEF Order
<1>17. PendingEntries' = PendingEntries
    BY <1>11, <1>14, PendingSame
<1> QED
    BY <1>7, <1>9, <1>16, <1>17 DEF Ordered, Allowed

\* Each step keeps the walks in order, and is one the abstract specification allows.
LEMMA NextOrder ==
    ASSUME IInv, Exits, Ordered, [Next]_vars
    PROVE  Ordered' /\ Exits' /\ Allowed
<1>1. IInv'
    BY NextIInv
<1>2. ASSUME NEW t \in Threads, NEW d \in AllDsos, Register(t, d)
      PROVE  Ordered' /\ Exits' /\ Allowed
    BY <1>1, <1>2, RegisterOrder
<1>3. ASSUME NEW t \in Threads, NEW d \in AllDsos, RegisterFails(t, d)
      PROVE  Ordered' /\ Exits' /\ Allowed
    BY <1>1, <1>3, StillOrder DEF RegisterFails
<1>4. ASSUME NEW t \in Threads, NEW d \in Dsos, Finalize(t, d)
      PROVE  Ordered' /\ Exits' /\ Allowed
    BY <1>1, <1>4, BeginOrder, AtexitAssumption DEF Finalize, AllDsos
<1>5. ASSUME NEW t \in Threads, Exit(t)
      PROVE  Ordered' /\ Exits' /\ Allowed
    BY <1>1, <1>5, BeginOrder DEF Exit, AllDsos
<1>6. ASSUME NEW t \in Threads, Finalizing(t)
      PROVE  Ordered' /\ Exits' /\ Allowed
    BY <1>1, <1>6, SkipOrder, SweepOrder, CallOrder, HandlerReturnsOrder, UnlockOrder, ReturnOrder
       DEF Finalizing
<1>7. CASE UNCHANGED vars
    BY <1>1, <1>7, StillOrder DEF vars
<1> QED
    BY <1>2, <1>3, <1>4, <1>5, <1>6, <1>7 DEF Next, Gone, AllDsos

\* At first nothing is registered and no call is in progress.
LEMMA InitOrder ==
    ASSUME Init
    PROVE  Ordered /\ Exits /\ EH!Init
<1>1. IInv /\ top = NULL /\ mutex = NoThread /\ \A t \in Threads : frames[t] = << >>
    BY InitIInv DEF Init
<1>2. \A t \in Threads : DOMAIN frames[t] = {} /\ Len(frames[t]) = 0
    BY <1>1
<1>3. Exits
    BY <1>2 DEF Exits
<1>4. ~ExitDone
    BY <1>2 DEF ExitDone
<1>5. PICK s : s = [i \in 1..0 |-> NULL]
    OBVIOUS
<1>6. ListIs(s, 0)
    BY <1>1, <1>5 DEF ListIs
<1>7. Order(s, 0)
    BY <1>2, <1>4, <1>6 DEF Order
<1>8. PICK q : q = [i \in 0..0 |-> << >>]
    OBVIOUS
<1>9. Collects(q, s, 0) /\ q[0] = << >>
    <2>1. q \in [0..0 -> Seq(Ev)] /\ q[0] = << >>
        BY <1>8
    <2>2. \A i \in 1..0 : FALSE
        OBVIOUS
    <2> QED
        BY <2>1, <2>2 DEF Collects
<1>10. PendingEntries = << >>
    BY <1>1, <1>6, <1>9, PendingLaw DEF Pended
<1>11. ActiveDsos = << >>
    BY <1>1 DEF ActiveDsos
<1> QED
    BY <1>3, <1>7, <1>10, <1>11 DEF Ordered, EH!Init

\* Whatever the handlers register or finalize, at any depth of nesting and with
\* any number of threads, handlers are called newest first, each once, none is
\* lost, and a finalization returns only when no handler it should call is left,
\* as long as the list has no cycle: __cxa_finalize implements ExitHandlers.
THEOREM HandlersInOrder == Spec => CallsInOrder
<1>1. Init => IInv /\ Exits /\ Ordered /\ EH!Init
    BY InitIInv, InitOrder
<1>2. IInv /\ Exits /\ Ordered /\ [Next]_vars => (IInv /\ Exits /\ Ordered)'
    BY NextIInv, NextOrder
<1>3. IInv /\ Exits /\ Ordered /\ [Next]_vars => [Acyclic => EH!Next]_(EH!vars)
    <2> SUFFICES ASSUME IInv, Exits, Ordered, [Next]_vars
                 PROVE  [Acyclic => EH!Next]_(EH!vars)
        OBVIOUS
    <2>1. Allowed
        BY NextOrder
    <2> QED
        BY <2>1 DEF Allowed, EH!vars
<1> QED
    BY <1>1, <1>2, <1>3, PTL DEF Spec, CallsInOrder
==============================================================================
