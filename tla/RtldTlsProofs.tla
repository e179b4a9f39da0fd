---------------------------- MODULE RtldTlsProofs ----------------------------
(***************************************************************************)
(* Proofs about RtldTls for every set of objects, sizes, alignments and    *)
(* relocations, every set of threads and every bound.                      *)
(*                                                                         *)
(* The inductive invariant says of modules that indices are given once; of *)
(* the static space that it is filled from one end; of vectors that one of *)
(* the current generation is long enough, and that an entry of a loaded    *)
(* module was made for it; of blocks that the vectors account for them.    *)
(***************************************************************************)
EXTENDS RtldTls, SequenceTheorems, TLAPS

Alignments == {BaseAlign} \cup {Align[o] : o \in Objs}

RelocStates == {"mapped", "done", "failed"}
ObjEntry == [index : Nat, load : Nat, offset : Nat, static : BOOLEAN, dynamic : BOOLEAN,
             reloc : RelocStates]
Address == [at : {"null", "static", "block"}, n : Nat]
Vector == [gen : Nat, ptr : Seq(Address)]

Types ==
    /\ generation \in Nat \ {0} /\ max_index \in Nat
    /\ static_space \in Nat /\ static_offset \in Nat /\ static_max_align \in Alignments
    /\ plain \in BOOLEAN
    /\ obj \in [Objs -> ObjEntry] /\ loaded \subseteq Objs
    /\ dtv \in [Threads -> Vector]

\* An index is given to one module only, and an object that is not loaded has
\* none of it.
Modules ==
    /\ \A o \in Objs \ loaded : obj[o] = Unmapped
    /\ \A o \in loaded : /\ obj[o].index \in 1..max_index /\ obj[o].load \in 1..generation
                         /\ ~(obj[o].static /\ obj[o].dynamic)
    /\ \A o, x \in loaded : o # x => obj[o].index # obj[x].index

\* While an object is relocated, that and the objects referred to stay.
Relocating ==
    /\ opening \in loaded \cup {NoObj}
    /\ todo \in Seq(loaded)
    /\ opening = NoObj => todo = << >>

\* Static storage is handed out in one direction, up to static_space.
Layout ==
    /\ \A o \in loaded : obj[o].offset <= static_offset
    /\ \A o \in StaticObjs : /\ Size[o] <= obj[o].offset /\ obj[o].offset % Align[o] = 0
                             /\ Align[o] <= static_max_align
    /\ \A o, x \in StaticObjs : o # x =>
          \/ obj[o].offset <= obj[x].offset - Size[x]
          \/ obj[x].offset <= obj[o].offset - Size[o]
    /\ Started => /\ static_offset <= static_space
                  /\ \A o \in Initial : static_space % Align[o] = 0

\* A vector of the current generation has an entry for every module, and none is
\* longer; an entry of a loaded module is the storage it has in the thread.
Vectors ==
    \A t \in Threads :
        /\ dtv[t].gen <= generation /\ Len(dtv[t].ptr) <= max_index
        /\ dtv[t].gen = generation => Len(dtv[t].ptr) = max_index
        /\ ~Started => dtv[t] = NoDtv
        /\ \A o \in loaded :
              \/ Entry(t, o) = Null
              \/ obj[o].static /\ Entry(t, o) = Static(obj[o].offset)
              \/ obj[o].dynamic /\ Entry(t, o) = Block(obj[o].load)

\* Blocks are what the vectors point to.
Blocks ==
    /\ blocks \subseteq Threads \X (1..generation)
    /\ \A t \in Threads : \A i \in 1..Len(dtv[t].ptr) :
          dtv[t].ptr[i].at = "block" => << t, dtv[t].ptr[i].n >> \in blocks
    /\ \A t \in Threads, n \in Nat : << t, n >> \in blocks =>
          \E i \in 1..Len(dtv[t].ptr) : dtv[t].ptr[i] = Block(n)

IInv == Types /\ Modules /\ Relocating /\ Layout /\ Vectors /\ Blocks

-----------------------------------------------------------------------------
(* Rounding *)

\* x is a multiple of a when the remainder is 0.
LEMMA Multiple ==
    ASSUME NEW a \in Nat \ {0}
    PROVE  /\ \A q \in Int : (a * q) % a = 0
           /\ \A x \in Int : x % a = 0 => \E q \in Int : x = a * q
<1>1. ASSUME NEW q \in Int PROVE (a * q) % a = 0
  OBVIOUS
<1>2. ASSUME NEW x \in Int, x % a = 0 PROVE x \div a \in Int /\ x = a * (x \div a)
  BY <1>2
<1> QED
  BY <1>1, <1>2

\* A multiple of a multiple is a multiple.
LEMMA Divides ==
    ASSUME NEW a \in Nat \ {0}, NEW b \in Nat \ {0}, NEW x \in Nat, b % a = 0, x % b = 0
    PROVE  x % a = 0
<1>1. PICK r \in Int : b = a * r
  BY Multiple
<1>2. \A z \in Int : z % b = 0 => \E q \in Int : z = b * q
  BY Multiple
<1>3. PICK q \in Int : x = b * q
  BY <1>2
<1>4. x = (a * r) * q
  BY <1>1, <1>3
<1>5. (a * r) * q = a * (r * q) /\ r * q \in Int
  OBVIOUS
<1> QED
  BY <1>4, <1>5, Multiple

\* roundup2 gives the next multiple.
LEMMA RoundUp ==
    ASSUME NEW x \in Nat, NEW a \in Nat \ {0}
    PROVE  roundup2(x, a) \in Nat /\ x <= roundup2(x, a) /\ roundup2(x, a) % a = 0
<1>1. /\ (-x) \div a \in Int /\ -x = a * ((-x) \div a) + ((-x) % a)
      /\ (-x) % a \in 0..(a - 1)
  OBVIOUS
<1>2. PICK q \in Int : -x = a * q + ((-x) % a)
  BY <1>1
<1>3. a * (-q) = -(a * q) /\ a * q \in Int
  OBVIOUS
<1>4. (a * (-q)) % a = 0
  BY Multiple
<1> QED
  BY <1>1, <1>2, <1>3, <1>4 DEF roundup2

\* The constants, as the proofs below use them.
LEMMA ConstantFacts ==
    /\ Alignments \subseteq Nat \ {0}
    /\ \A o \in Objs : Size[o] \in Nat \ {0} /\ Align[o] \in Alignments
    /\ \A a, b \in Alignments : a <= b => b % a = 0
    /\ NoObj \notin Objs /\ MainObj \in Objs /\ Reservation \in Nat \ {0}
    /\ Initial \subseteq Objs
  BY TlsAssumption DEF Alignments

-----------------------------------------------------------------------------
(* The inductive invariant *)

\* The invariant holds when the program starts.
LEMMA InitInv == Init => IInv
<1> SUFFICES ASSUME Init PROVE IInv
  OBVIOUS
<1> USE ConstantFacts DEF Init
<1>1. Types
  <2>1. static_max_align \in Alignments
    BY DEF Alignments
  <2>2. \A t \in Threads : dtv[t] \in Vector
    BY DEF NoDtv, Vector
  <2>3. /\ Unmapped \in ObjEntry
        /\ [Unmapped EXCEPT !.index = 1, !.load = 1] \in ObjEntry
    BY DEF ObjEntry, RelocStates, Unmapped
  <2> QED
    BY <2>1, <2>2, <2>3 DEF Types
<1>2. Modules
  BY DEF Modules, Unmapped
<1>3. Relocating
  BY DEF Relocating
<1>4. Layout
  BY DEF Layout, Started, StaticObjs, Unmapped
<1>5. Vectors
  BY DEF Vectors, NoDtv, Entry, Unmapped
<1>6. Blocks
  BY DEF Blocks, NoDtv
<1> QED
  BY <1>1, <1>2, <1>3, <1>4, <1>5, <1>6 DEF IInv

\* The entry of a module that was just mapped.
Mapped(i, n) == [Unmapped EXCEPT !.index = i, !.load = n]

\* Its fields.
LEMMA MappedEntry ==
    ASSUME NEW i \in Nat, NEW n \in Nat
    PROVE  /\ Mapped(i, n) \in ObjEntry
           /\ Mapped(i, n).index = i /\ Mapped(i, n).load = n /\ Mapped(i, n).offset = 0
           /\ ~Mapped(i, n).static /\ ~Mapped(i, n).dynamic
  BY DEF Mapped, Unmapped, ObjEntry, RelocStates

\* Mapping: the new module's index is beyond the end of every vector.
LEMMA MapStep ==
    ASSUME IInv, NEW o \in Objs, Map(o), Relocating',
           UNCHANGED << static_space, static_offset, static_max_align, plain, dtv, blocks >>
    PROVE  IInv'
<1> USE ConstantFacts
<1>1. /\ o \notin loaded /\ loaded' = loaded \cup {o}
      /\ generation' = generation + 1 /\ max_index' = max_index + 1
      /\ obj' = [obj EXCEPT ![o] = Mapped(max_index + 1, generation + 1)]
  <2>1. max_index + 1 > max_index
    BY DEF IInv, Types
  <2> QED
    BY <2>1 DEF Map, NewIndex, Mapped
<1>2. /\ obj'[o] \in ObjEntry
      /\ obj'[o].index = max_index + 1 /\ obj'[o].load = generation + 1
      /\ obj'[o].offset = 0 /\ ~obj'[o].static /\ ~obj'[o].dynamic
      /\ \A x \in Objs \ {o} : obj'[x] = obj[x]
  <2>1. /\ max_index + 1 \in Nat /\ generation + 1 \in Nat
        /\ obj'[o] = Mapped(max_index + 1, generation + 1)
        /\ \A x \in Objs \ {o} : obj'[x] = obj[x]
    BY <1>1 DEF IInv, Types
  <2> QED
    BY <2>1, MappedEntry
<1>3. Types'
  BY <1>1, <1>2 DEF IInv, Types
<1>4. Modules'
  BY <1>1, <1>2 DEF IInv, Types, Modules
<1>5. Layout'
  <2>1. StaticObjs' = StaticObjs /\ o \notin StaticObjs /\ StaticObjs \subseteq Objs
    BY <1>1, <1>2 DEF IInv, Types, StaticObjs
  <2> QED
    BY <1>1, <1>2, <2>1 DEF IInv, Types, Layout, Started
<1>6. Vectors'
  BY <1>1, <1>2 DEF IInv, Types, Modules, Vectors, Vector, Entry, Started, Null
<1>7. Blocks'
  <2>1. 1..generation \subseteq 1..generation'
    BY <1>1 DEF IInv, Types
  <2> QED
    BY <1>1, <2>1 DEF IInv, Types, Blocks
<1> QED
  BY <1>3, <1>4, <1>5, <1>6, <1>7 DEF IInv

\* Placing a module in the static space: above what was handed out.  It was not
\* dynamic, so no vector has an entry for it.
LEMMA PlaceStep ==
    ASSUME IInv, NEW o \in loaded, ~obj[o].static, OffsetAllocate(o), Relocating',
           UNCHANGED << loaded, generation, max_index, static_space, plain, dtv, blocks >>
    PROVE  IInv'
<1> USE ConstantFacts
<1>1. /\ o \in Objs /\ Size[o] \in Nat \ {0} /\ Align[o] \in Nat \ {0}
      /\ static_offset \in Nat /\ static_offset + Size[o] \in Nat
  <2>1. o \in Objs /\ static_offset \in Nat
    BY DEF IInv, Types
  <2>2. Size[o] \in Nat \ {0} /\ Align[o] \in Nat \ {0}
    BY <2>1
  <2> QED
    BY <2>1, <2>2
<1>2. /\ NewOffset(o) \in Nat /\ static_offset + Size[o] <= NewOffset(o)
      /\ NewOffset(o) % Align[o] = 0
  BY <1>1, RoundUp DEF NewOffset
<1>3. /\ static_offset' = NewOffset(o)
      /\ obj' = [obj EXCEPT ![o].offset = NewOffset(o), ![o].static = TRUE]
      /\ ~obj[o].dynamic /\ (Started => NewOffset(o) <= static_space)
  <2>1. ~Refused(o)
    BY DEF OffsetAllocate
  <2> QED
    BY <1>1, <1>2, <2>1 DEF OffsetAllocate, Refused, IInv, Types, ObjEntry
<1>4. /\ obj'[o] \in ObjEntry
      /\ obj'[o].index = obj[o].index /\ obj'[o].load = obj[o].load
      /\ obj'[o].offset = NewOffset(o) /\ obj'[o].static /\ ~obj'[o].dynamic
      /\ \A x \in Objs \ {o} : obj'[x] = obj[x]
  BY <1>1, <1>2, <1>3 DEF IInv, Types, ObjEntry
<1>5. /\ static_max_align' \in Alignments /\ static_max_align <= static_max_align'
      /\ Align[o] <= static_max_align'
  BY <1>1 DEF OffsetAllocate, IInv, Types
<1>6. Types'
  BY <1>1, <1>2, <1>3, <1>4, <1>5 DEF IInv, Types
<1>7. Modules'
  BY <1>1, <1>4 DEF IInv, Types, Modules
<1>8. Layout'
  <2>1. StaticObjs' = StaticObjs \cup {o} /\ o \notin StaticObjs /\ StaticObjs \subseteq loaded
    BY <1>1, <1>4 DEF IInv, Types, StaticObjs
  <2>2. \A x \in loaded : obj[x].offset \in Nat /\ obj[x].offset <= static_offset
    BY DEF IInv, Types, ObjEntry, Layout
  <2>3. static_offset \in Nat /\ static_offset <= static_offset'
    BY <1>1, <1>2, <1>3 DEF IInv, Types
  <2>4. \A x \in loaded : obj'[x].offset <= static_offset'
    BY <1>1, <1>2, <1>3, <1>4, <2>2, <2>3 DEF IInv, Types
  <2>5. ASSUME NEW x \in StaticObjs'
        PROVE  /\ Size[x] <= obj'[x].offset /\ obj'[x].offset % Align[x] = 0
               /\ Align[x] <= static_max_align'
    <3>1. CASE x = o
      BY <3>1, <1>1, <1>2, <1>4, <1>5
    <3>2. CASE x \in StaticObjs
      <4>1. Align[x] \in Nat /\ static_max_align \in Nat /\ static_max_align' \in Nat
        BY <3>2, <1>5, <2>1 DEF IInv, Types
      <4>2. obj'[x] = obj[x] /\ Align[x] <= static_max_align
        BY <3>2, <1>4, <2>1 DEF IInv, Types, Layout
      <4> QED
        BY <3>2, <4>1, <4>2, <1>5 DEF IInv, Layout
    <3> QED
      BY <3>1, <3>2, <2>1
  <2>6. \A x \in StaticObjs : obj'[x].offset <= obj'[o].offset - Size[o]
    BY <1>1, <1>2, <1>4, <2>1, <2>2 DEF IInv, Types
  <2>7. \A y, x \in StaticObjs' : y # x =>
            \/ obj'[y].offset <= obj'[x].offset - Size[x]
            \/ obj'[x].offset <= obj'[y].offset - Size[y]
    BY <1>4, <2>1, <2>6 DEF IInv, Types, Layout
  <2>8. Started' => /\ static_offset' <= static_space'
                    /\ \A x \in Initial : static_space' % Align[x] = 0
    BY <1>3 DEF IInv, Layout, Started
  <2> QED
    BY <2>4, <2>5, <2>7, <2>8 DEF Layout
<1>9. Vectors'
  <2>1. ASSUME NEW t \in Threads, NEW x \in loaded
        PROVE  /\ Entry(t, x)' = Entry(t, x)
               /\ x = o => Entry(t, x) = Null
    BY <1>1, <1>3, <1>4, SMTT(60) DEF IInv, Types, Modules, Vectors, Entry
  <2> QED
    BY <1>1, <1>4, <2>1 DEF IInv, Types, Vectors, Started
<1>10. Blocks'
  BY DEF IInv, Blocks
<1> QED
  BY <1>6, <1>7, <1>8, <1>9, <1>10 DEF IInv

\* Unloading: what vectors have for the module belongs to no loaded module.
LEMMA UnloadStep ==
    ASSUME IInv, NEW o \in loaded, Unload(o), Relocating'
    PROVE  IInv'
<1>1. /\ o \in Objs /\ loaded' = loaded \ {o}
      /\ obj'[o] = Unmapped /\ \A x \in Objs \ {o} : obj'[x] = obj[x]
      /\ obj' \in [Objs -> ObjEntry]
      /\ UNCHANGED << generation, max_index, static_space, static_offset, static_max_align,
                      plain, dtv, blocks >>
  <2>1. Unmapped \in ObjEntry
    BY DEF Unmapped, ObjEntry, RelocStates
  <2> QED
    BY <2>1 DEF Unload, OffsetFree, IInv, Types
<1>2. Types'
  BY <1>1 DEF IInv, Types
<1>3. Modules'
  BY <1>1 DEF IInv, Types, Modules
<1>4. Layout'
  <2>1. StaticObjs' = StaticObjs \ {o} /\ StaticObjs \subseteq Objs
    BY <1>1 DEF IInv, Types, StaticObjs
  <2> QED
    BY <1>1, <2>1 DEF IInv, Types, Layout, Started
<1>5. Vectors'
  BY <1>1 DEF IInv, Types, Vectors, Entry, Started
<1>6. Blocks'
  BY <1>1 DEF IInv, Blocks
<1> QED
  BY <1>2, <1>3, <1>4, <1>5, <1>6 DEF IInv

\* The addresses in a vector.
LEMMA Addresses ==
    /\ Null \in Address /\ Null.at # "block"
    /\ \A n \in Nat : /\ Static(n) \in Address /\ Static(n).at # "block" /\ Static(n) # Null
                      /\ Block(n) \in Address /\ Block(n).at = "block" /\ Block(n).n = n
                      /\ Block(n) # Null
    /\ \A a \in Address : a.at = "block" => a.n \in Nat /\ a = Block(a.n)
  BY DEF Address, Null, Static, Block

\* A new thread's vector has the static modules and nothing else.
LEMMA AllocateStep ==
    ASSUME IInv, NEW t \in Threads, dtv[t] = NoDtv, Allocate(t), Relocating', Layout',
           static_space' \in Nat, Started',
           UNCHANGED << obj, loaded, generation, max_index, static_offset, static_max_align,
                        plain, blocks >>
    PROVE  IInv'
<1> DEFINE Of(i) == CHOOSE o \in loaded : obj[o].index = i
           New == [i \in 1..max_index |->
                     IF \E o \in loaded : obj[o].static /\ obj[o].index = i
                     THEN Static(obj[Of(i)].offset) ELSE Null]
<1>1. /\ dtv'[t] = [gen |-> FirstGeneration, ptr |-> New]
      /\ \A u \in Threads \ {t} : dtv'[u] = dtv[u]
      /\ DOMAIN dtv' = Threads
      /\ dtv' = [dtv EXCEPT ![t] = [gen |-> FirstGeneration, ptr |-> New]]
  BY DEF Allocate, IInv, Types
<1>2. \A o \in loaded : obj[o].index \in 1..max_index /\ Of(obj[o].index) = o
  BY DEF IInv, Modules
<1>3. \A i \in 1..max_index : New[i] \in Address /\ New[i].at # "block"
  <2> SUFFICES ASSUME NEW i \in 1..max_index
               PROVE  New[i] \in Address /\ New[i].at # "block"
    OBVIOUS
  <2>1. CASE \E o \in loaded : obj[o].static /\ obj[o].index = i
    <3>1. PICK o \in loaded : obj[o].index = i
      BY <2>1
    <3>2. Of(i) = o /\ obj[o].offset \in Nat
      BY <3>1, <1>2 DEF IInv, Types, ObjEntry
    <3> QED
      BY <2>1, <3>2, Addresses
  <2>2. CASE ~(\E o \in loaded : obj[o].static /\ obj[o].index = i)
    BY <2>2, Addresses
  <2> QED
    BY <2>1, <2>2
<1>4. \A o \in loaded : New[obj[o].index] = IF obj[o].static THEN Static(obj[o].offset) ELSE Null
  BY <1>2 DEF IInv, Modules
<1> HIDE DEF Of
<1>5. New \in Seq(Address) /\ Len(New) = max_index /\ DOMAIN New = 1..max_index
  BY <1>3 DEF IInv, Types
<1> HIDE DEF New
<1>6. FirstGeneration \in Nat /\ FirstGeneration <= generation
  BY DEF FirstGeneration, IInv, Types
<1>7. dtv'[t] \in Vector /\ dtv'[t].gen = FirstGeneration /\ dtv'[t].ptr = New
  BY <1>1, <1>5, <1>6 DEF Vector
<1>8. Types'
  <2>1. dtv' \in [Threads -> Vector]
    BY <1>1, <1>7 DEF IInv, Types
  <2> QED
    BY <2>1 DEF IInv, Types
<1>9. Modules'
  BY DEF IInv, Modules
<1>10. Vectors'
  <2>1. ASSUME NEW u \in Threads, u # t
        PROVE  /\ dtv'[u] = dtv[u] /\ \A o \in loaded : Entry(u, o)' = Entry(u, o)
    BY <2>1, <1>1 DEF Entry
  <2>2. ASSUME NEW o \in loaded
        PROVE  Entry(t, o)' = IF obj[o].static THEN Static(obj[o].offset) ELSE Null
    BY <1>2, <1>4, <1>5, <1>7 DEF Entry
  <2>3. Len(dtv'[t].ptr) = max_index
    BY <1>5, <1>7
  <2> QED
    BY <2>1, <2>2, <2>3, <1>6, <1>7 DEF IInv, Types, Vectors
<1>11. Blocks'
  <2>1. \A n \in Nat : << t, n >> \notin blocks
    BY DEF IInv, Blocks, NoDtv
  <2>2. ASSUME NEW u \in Threads, NEW i \in 1..Len(dtv'[u].ptr), dtv'[u].ptr[i].at = "block"
        PROVE  << u, dtv'[u].ptr[i].n >> \in blocks
    BY <2>2, <1>1, <1>3, <1>5, <1>7 DEF IInv, Blocks
  <2>3. ASSUME NEW u \in Threads, NEW n \in Nat, << u, n >> \in blocks
        PROVE  \E i \in 1..Len(dtv'[u].ptr) : dtv'[u].ptr[i] = Block(n)
    BY <2>1, <2>3, <1>1 DEF IInv, Blocks
  <2> QED
    BY <2>2, <2>3 DEF IInv, Blocks
<1> QED
  BY <1>8, <1>9, <1>10, <1>11 DEF IInv

\* A thread that ends takes its vector's blocks along, and no other's.
LEMMA ExitStep ==
    ASSUME IInv, NEW t \in Threads, ExitThread(t)
    PROVE  IInv'
<1>1. /\ UNCHANGED << obj, loaded, generation, max_index, static_space, static_offset,
                      static_max_align, plain, opening, todo >>
      /\ dtv' = [dtv EXCEPT ![t] = NoDtv] /\ blocks' = blocks \ {<< t, n >> : n \in FreedBlocks(t)}
      /\ dtv'[t] = NoDtv /\ \A u \in Threads \ {t} : dtv'[u] = dtv[u]
      /\ Started
  BY DEF ExitThread, Lockable, globals, IInv, Types
<1>2. NoDtv \in Vector /\ NoDtv.gen = 0 /\ Len(NoDtv.ptr) = 0
  BY DEF NoDtv, Vector
<1>3. Types'
  BY <1>1, <1>2 DEF IInv, Types
<1>4. Modules' /\ Relocating' /\ Layout'
  BY <1>1 DEF IInv, Modules, Relocating, Layout, StaticObjs, Started
<1>5. Vectors'
  <2>1. ASSUME NEW u \in Threads, u # t
        PROVE  /\ dtv'[u] = dtv[u] /\ \A o \in loaded : Entry(u, o)' = Entry(u, o)
    BY <2>1, <1>1 DEF Entry
  <2>2. ASSUME NEW o \in loaded PROVE Entry(t, o)' = Null
    BY <1>1, <1>2 DEF Entry, IInv, Modules
  <2> QED
    BY <1>1, <1>2, <2>1, <2>2 DEF IInv, Types, Vectors, Started
<1>6. Blocks'
  <2>1. \A n \in Nat : << t, n >> \in blocks => n \in FreedBlocks(t)
    <3> SUFFICES ASSUME NEW n \in Nat, << t, n >> \in blocks PROVE n \in FreedBlocks(t)
      OBVIOUS
    <3>1. PICK i \in 1..Len(dtv[t].ptr) : dtv[t].ptr[i] = Block(n)
      BY DEF IInv, Blocks
    <3>2. dtv[t].ptr \in Seq(Address)
      BY DEF IInv, Types, Vector
    <3> QED
      BY <3>1, <3>2, Addresses DEF FreedBlocks
  <2>2. \A u \in Threads, n \in Nat : << u, n >> \in blocks' <=> u # t /\ << u, n >> \in blocks
    BY <1>1, <2>1
  <2>3. blocks' \subseteq Threads \X (1..generation)
    BY <1>1 DEF IInv, Blocks
  <2>4. ASSUME NEW u \in Threads, NEW i \in 1..Len(dtv'[u].ptr), dtv'[u].ptr[i].at = "block"
        PROVE  << u, dtv'[u].ptr[i].n >> \in blocks'
    BY <2>4, <1>1, <1>2 DEF IInv, Blocks
  <2>5. ASSUME NEW u \in Threads, NEW n \in Nat, << u, n >> \in blocks'
        PROVE  \E i \in 1..Len(dtv'[u].ptr) : dtv'[u].ptr[i] = Block(n)
    BY <2>2, <2>5, <1>1 DEF IInv, Blocks
  <2> QED
    BY <2>3, <2>4, <2>5, <1>1 DEF Blocks
<1> QED
  BY <1>3, <1>4, <1>5, <1>6 DEF IInv

\* A vector after one entry was set.
SetEntry(d, i, a) == [d EXCEPT !.ptr[i] = a]

\* What setting an entry leaves.
LEMMA SetEntryFacts ==
    ASSUME NEW d \in Vector, NEW i \in 1..Len(d.ptr), NEW a \in Address
    PROVE  /\ SetEntry(d, i, a) \in Vector
           /\ SetEntry(d, i, a).gen = d.gen
           /\ Len(SetEntry(d, i, a).ptr) = Len(d.ptr)
           /\ \A j \in 1..Len(d.ptr) :
                 SetEntry(d, i, a).ptr[j] = IF j = i THEN a ELSE d.ptr[j]
<1>1. /\ SetEntry(d, i, a).gen = d.gen
      /\ SetEntry(d, i, a).ptr = [d.ptr EXCEPT ![i] = a]
      /\ SetEntry(d, i, a) = [gen |-> d.gen, ptr |-> [d.ptr EXCEPT ![i] = a]]
  BY DEF SetEntry, Vector
<1>2. d.ptr \in Seq(Address) /\ d.gen \in Nat
  BY DEF Vector
<1>3. /\ [d.ptr EXCEPT ![i] = a] \in Seq(Address)
      /\ Len([d.ptr EXCEPT ![i] = a]) = Len(d.ptr)
      /\ \A j \in 1..Len(d.ptr) : [d.ptr EXCEPT ![i] = a][j] = IF j = i THEN a ELSE d.ptr[j]
  BY <1>2
<1> QED
  BY <1>1, <1>2, <1>3 DEF Vector

\* The vector _rtld_tls_get_addr works on is current, has room for every module
\* and keeps what the thread's vector had.
LEMMA RenewedFacts ==
    ASSUME IInv, NEW t \in Threads
    PROVE  /\ Renewed(dtv[t]) \in Vector
           /\ Renewed(dtv[t]).gen = generation /\ Len(Renewed(dtv[t]).ptr) = max_index
           /\ \A i \in 1..max_index :
                 Renewed(dtv[t]).ptr[i] = IF i <= Len(dtv[t].ptr) THEN dtv[t].ptr[i] ELSE Null
<1>1. /\ dtv[t] \in Vector /\ dtv[t].ptr \in Seq(Address) /\ Len(dtv[t].ptr) \in Nat
      /\ Len(dtv[t].ptr) <= max_index /\ max_index \in Nat /\ generation \in Nat
      /\ dtv[t].gen = generation => Len(dtv[t].ptr) = max_index
  BY DEF IInv, Types, Vector, Vectors
<1>2. CASE dtv[t].gen = generation
  BY <1>1, <1>2 DEF Renewed
<1>3. CASE dtv[t].gen # generation
  <2> DEFINE New == [i \in 1..max_index |-> IF i <= Len(dtv[t].ptr) THEN dtv[t].ptr[i] ELSE Null]
  <2>1. \A i \in 1..max_index : New[i] \in Address
    BY <1>1, Addresses
  <2>2. New \in Seq(Address) /\ Len(New) = max_index
    BY <1>1, <2>1
  <2>3. Renewed(dtv[t]) = [gen |-> generation, ptr |-> New]
    BY <1>3 DEF Renewed
  <2>4. \A i \in 1..max_index : New[i] = IF i <= Len(dtv[t].ptr) THEN dtv[t].ptr[i] ELSE Null
    OBVIOUS
  <2> HIDE DEF New
  <2> QED
    BY <1>1, <2>2, <2>3, <2>4 DEF Vector
<1> QED
  BY <1>2, <1>3

\* The address a thread that has none for o is given.
NewAddress(o) == IF obj[o].static THEN Static(obj[o].offset) ELSE Block(obj[o].load)

\* What a step of GetAddr does: it fills the empty entry of o.
LEMMA GetAddrEffect ==
    ASSUME IInv, NEW t \in Threads, NEW o \in Objs, GetAddr(t, o)
    PROVE  /\ o \in loaded /\ Started /\ NewAddress(o) \in Address
           /\ dtv' \in [Threads -> Vector] /\ \A u \in Threads \ {t} : dtv'[u] = dtv[u]
           /\ dtv'[t].gen = generation /\ Len(dtv'[t].ptr) = max_index
           /\ Entry(t, o) = Null /\ dtv'[t].ptr[obj[o].index] = NewAddress(o)
           /\ \A i \in 1..max_index : i # obj[o].index =>
                 dtv'[t].ptr[i] = IF i <= Len(dtv[t].ptr) THEN dtv[t].ptr[i] ELSE Null
<1> DEFINE d == Renewed(dtv[t])
           i == obj[o].index
           a == NewAddress(o)
<1>1. /\ o \in loaded /\ Started /\ d.ptr[i] = Null
      /\ dtv' = [dtv EXCEPT ![t] = SetEntry(d, i, a)]
  BY DEF GetAddr, Lockable, SetEntry, NewAddress
<1>2. i \in 1..max_index /\ a \in Address
  BY <1>1, Addresses DEF IInv, Modules, Types, ObjEntry, NewAddress
<1>3. /\ d \in Vector /\ d.gen = generation /\ Len(d.ptr) = max_index
      /\ \A j \in 1..max_index : d.ptr[j] = IF j <= Len(dtv[t].ptr) THEN dtv[t].ptr[j] ELSE Null
  BY RenewedFacts
<1>4. Entry(t, o) = Null
  BY <1>1, <1>2, <1>3 DEF Entry
<1> HIDE DEF d, i, a
<1>5. /\ SetEntry(d, i, a) \in Vector /\ SetEntry(d, i, a).gen = generation
      /\ Len(SetEntry(d, i, a).ptr) = max_index
      /\ \A j \in 1..max_index : SetEntry(d, i, a).ptr[j] = IF j = i THEN a ELSE d.ptr[j]
  BY <1>2, <1>3, SetEntryFacts
<1>6. /\ dtv'[t] = SetEntry(d, i, a) /\ \A u \in Threads \ {t} : dtv'[u] = dtv[u]
      /\ dtv' \in [Threads -> Vector]
  BY <1>1, <1>5 DEF IInv, Types
<1> QED
  BY <1>1, <1>2, <1>3, <1>4, <1>5, <1>6 DEF i, a

\* __tls_get_addr: no other module's entry is touched, and a block is allocated
\* exactly when the vector gets it.
LEMMA GetAddrStep ==
    ASSUME IInv, NEW t \in Threads, NEW o \in Objs, GetAddr(t, o)
    PROVE  IInv'
<1> DEFINE i == obj[o].index
<1>1. /\ UNCHANGED << loaded, generation, max_index, static_space, static_offset,
                      static_max_align, plain, opening, todo >>
      /\ obj' = IF obj[o].static THEN obj ELSE [obj EXCEPT ![o].dynamic = TRUE]
      /\ blocks' = IF obj[o].static THEN blocks ELSE blocks \cup {<< t, obj[o].load >>}
  BY DEF GetAddr, globals
<1>2. /\ o \in loaded /\ Started /\ NewAddress(o) \in Address
      /\ dtv' \in [Threads -> Vector] /\ \A u \in Threads \ {t} : dtv'[u] = dtv[u]
      /\ dtv'[t].gen = generation /\ Len(dtv'[t].ptr) = max_index
      /\ Entry(t, o) = Null /\ dtv'[t].ptr[i] = NewAddress(o)
      /\ \A j \in 1..max_index : j # i =>
            dtv'[t].ptr[j] = IF j <= Len(dtv[t].ptr) THEN dtv[t].ptr[j] ELSE Null
  BY GetAddrEffect
<1>3. /\ obj' \in [Objs -> ObjEntry]
      /\ \A x \in Objs : /\ obj'[x].index = obj[x].index /\ obj'[x].load = obj[x].load
                         /\ obj'[x].offset = obj[x].offset /\ obj'[x].static = obj[x].static
      /\ \A x \in Objs \ {o} : obj'[x] = obj[x]
      /\ \A x \in Objs : obj[x].dynamic => obj'[x].dynamic
      /\ obj[o].static => obj'[o] = obj[o]
      /\ ~obj[o].static => obj'[o].dynamic
  <2>1. CASE obj[o].static
    BY <1>1, <2>1 DEF IInv, Types, ObjEntry
  <2>2. CASE ~obj[o].static
    BY <1>1, <2>2 DEF IInv, Types, ObjEntry
  <2> QED
    BY <2>1, <2>2
<1>4. i \in 1..max_index /\ \A x \in loaded : x # o => obj[x].index # i
  BY <1>2 DEF IInv, Modules
<1>5. Types'
  BY <1>1, <1>2, <1>3 DEF IInv, Types
<1>6. Modules'
  BY <1>1, <1>2, <1>3 DEF IInv, Types, Modules
<1>7. Relocating'
  BY <1>1 DEF IInv, Relocating
<1>8. Layout'
  <2>1. StaticObjs' = StaticObjs /\ StaticObjs \subseteq Objs
    BY <1>1, <1>3 DEF StaticObjs, IInv, Types
  <2> QED
    BY <1>1, <1>3, <2>1 DEF Layout, IInv, Types, Started
<1>9. Vectors'
  <2>1. ASSUME NEW u \in Threads, NEW x \in loaded, u # t
        PROVE  Entry(u, x)' = Entry(u, x)
    BY <2>1, <1>2, <1>3 DEF Entry, IInv, Types
  <2>2. ASSUME NEW u \in Threads, NEW x \in loaded, u = t, x # o
        PROVE  Entry(u, x)' = Entry(u, x)
    BY <2>2, <1>2, <1>3, <1>4 DEF Entry, IInv, Types, Modules
  <2>3. Entry(t, o)' = NewAddress(o)
    BY <1>2, <1>3, <1>4 DEF Entry, IInv, Types
  <2>4. ASSUME NEW u \in Threads, NEW x \in loaded
        PROVE  \/ Entry(u, x)' = Null
               \/ obj'[x].static /\ Entry(u, x)' = Static(obj'[x].offset)
               \/ obj'[x].dynamic /\ Entry(u, x)' = Block(obj'[x].load)
    <3>1. CASE u = t /\ x = o
      BY <3>1, <2>3, <1>2, <1>3 DEF NewAddress
    <3>2. CASE u # t \/ x # o
      <4>1. CASE u # t
        BY <4>1, <2>1, <1>3 DEF IInv, Vectors, Types
      <4>2. CASE u = t /\ x # o
        BY <4>2, <2>2, <1>3 DEF IInv, Vectors, Types
      <4> QED
        BY <3>2, <4>1, <4>2
    <3> QED
      BY <3>1, <3>2
  <2>5. ASSUME NEW u \in Threads
        PROVE  /\ dtv'[u].gen <= generation /\ Len(dtv'[u].ptr) <= max_index
               /\ dtv'[u].gen = generation => Len(dtv'[u].ptr) = max_index
    BY <1>2 DEF IInv, Vectors, Types
  <2> QED
    BY <1>1, <1>2, <2>4, <2>5 DEF Vectors, Started
<1>10. Blocks'
  <2>1. blocks' \subseteq Threads \X (1..generation)
    BY <1>1, <1>2 DEF IInv, Blocks, Modules
  <2>2. ASSUME NEW u \in Threads, NEW j \in 1..Len(dtv'[u].ptr), dtv'[u].ptr[j].at = "block"
        PROVE  << u, dtv'[u].ptr[j].n >> \in blocks'
    <3>1. CASE u # t
      BY <2>2, <3>1, <1>1, <1>2 DEF IInv, Blocks
    <3>2. CASE u = t /\ j = i
      BY <2>2, <3>2, <1>1, <1>2, Addresses DEF NewAddress, IInv, Types, ObjEntry
    <3>3. CASE u = t /\ j # i
      <4>1. /\ j \in 1..max_index /\ Len(dtv[t].ptr) \in Nat /\ max_index \in Nat
            /\ j <= Len(dtv[t].ptr) /\ dtv'[t].ptr[j] = dtv[t].ptr[j]
        BY <2>2, <3>3, <1>2, Addresses DEF IInv, Types, Vector
      <4> QED
        BY <2>2, <3>3, <4>1, <1>1 DEF IInv, Blocks
    <3> QED
      BY <3>1, <3>2, <3>3
  <2>3. ASSUME NEW u \in Threads, NEW n \in Nat, << u, n >> \in blocks'
        PROVE  \E j \in 1..Len(dtv'[u].ptr) : dtv'[u].ptr[j] = Block(n)
    <3>1. CASE << u, n >> \in blocks
      <4>1. PICK j \in 1..Len(dtv[u].ptr) : dtv[u].ptr[j] = Block(n)
        BY <3>1 DEF IInv, Blocks
      <4>2. Len(dtv[u].ptr) \in Nat /\ Len(dtv[u].ptr) <= max_index /\ max_index \in Nat
        BY DEF IInv, Types, Vector, Vectors
      <4>3. CASE u = t
        <5>1. j # i
          BY <4>1, <4>2, <4>3, <1>2, <1>4, Addresses DEF Entry
        <5> QED
          BY <4>1, <4>2, <4>3, <5>1, <1>2
      <4> QED
        BY <4>1, <4>3, <1>2
    <3>2. CASE << u, n >> \notin blocks
      <4>1. ~obj[o].static /\ u = t /\ n = obj[o].load
        BY <2>3, <3>2, <1>1
      <4> QED
        BY <4>1, <1>2, <1>4 DEF NewAddress
    <3> QED
      BY <3>1, <3>2
  <2> QED
    BY <2>1, <2>2, <2>3, <1>1 DEF Blocks
<1> QED
  BY <1>5, <1>6, <1>7, <1>8, <1>9, <1>10 DEF IInv

\* Taking up an object: those that its relocations refer to are loaded.
LEMMA StartTodo ==
    ASSUME IInv, NEW o \in Objs, StartRelocation(o)
    PROVE  Relocating'
<1>1. Tpoff[o] \in Seq(Objs) /\ \A i \in 1..Len(Tpoff[o]) : Tpoff[o][i] \in loaded
  <2>1. Tpoff[o] \in Seq(Objs)
    BY TlsAssumption
  <2>2. DOMAIN Tpoff[o] = 1..Len(Tpoff[o])
    BY <2>1
  <2> QED
    BY <2>1, <2>2 DEF StartRelocation
<1>2. Tpoff[o] \in Seq(loaded)
  BY <1>1
<1>3. o \in loaded /\ loaded' = loaded /\ opening' = o /\ todo' = Tpoff[o]
  BY DEF StartRelocation
<1> QED
  BY <1>2, <1>3, ConstantFacts DEF Relocating

\* What a change of relocstate leaves: all that the storage is about.
LEMMA StateEffect ==
    ASSUME IInv, NEW o \in loaded, NEW s \in RelocStates,
           obj' = [obj EXCEPT ![o].reloc = s]
    PROVE  /\ obj' \in [Objs -> ObjEntry] /\ \A x \in Objs \ {o} : obj'[x] = obj[x]
           /\ \A x \in Objs : /\ obj'[x].index = obj[x].index /\ obj'[x].load = obj[x].load
                              /\ obj'[x].offset = obj[x].offset
                              /\ obj'[x].static = obj[x].static
                              /\ obj'[x].dynamic = obj[x].dynamic
<1>1. o \in Objs /\ obj \in [Objs -> ObjEntry]
  BY DEF IInv, Types
<1>2. obj'[o] = [obj[o] EXCEPT !.reloc = s]
  BY <1>1
<1> QED
  BY <1>1, <1>2 DEF ObjEntry

\* The end of an object's relocation, good or bad.
LEMMA StateStep ==
    ASSUME IInv, NEW o \in loaded, NEW s \in RelocStates,
           obj' = [obj EXCEPT ![o].reloc = s], Relocating',
           UNCHANGED << loaded, generation, max_index, static_space, static_offset,
                        static_max_align, plain, dtv, blocks >>
    PROVE  IInv'
<1>1. /\ obj' \in [Objs -> ObjEntry] /\ \A x \in Objs \ {o} : obj'[x] = obj[x]
      /\ \A x \in Objs : /\ obj'[x].index = obj[x].index /\ obj'[x].load = obj[x].load
                         /\ obj'[x].offset = obj[x].offset /\ obj'[x].static = obj[x].static
                         /\ obj'[x].dynamic = obj[x].dynamic
  BY StateEffect
<1>2. loaded \subseteq Objs
  BY DEF IInv, Types
<1>3. Types'
  BY <1>1 DEF IInv, Types
<1>4. Modules'
  BY <1>1, <1>2 DEF IInv, Modules
<1>5. Layout'
  <2>1. StaticObjs' = StaticObjs /\ StaticObjs \subseteq Objs
    BY <1>1, <1>2 DEF StaticObjs
  <2> QED
    BY <1>1, <1>2, <2>1 DEF IInv, Layout, Started
<1>6. Vectors'
  BY <1>1, <1>2 DEF IInv, Vectors, Entry, Started
<1>7. Blocks'
  BY DEF IInv, Blocks
<1> QED
  BY <1>3, <1>4, <1>5, <1>6, <1>7 DEF IInv

\* Every step preserves it.
LEMMA InvStep == IInv /\ [Next]_vars => IInv'
<1> SUFFICES ASSUME IInv, [Next]_vars PROVE IInv'
  OBVIOUS
<1> USE ConstantFacts
<1>0. ASSUME NEW o \in Objs, Map(o), UNCHANGED << opening, todo >> PROVE Relocating'
  <2>1. loaded \subseteq loaded' /\ UNCHANGED << opening, todo >>
    BY <1>0 DEF Map
  <2>2. todo \in Seq(loaded')
    BY <2>1 DEF IInv, Relocating
  <2> QED
    BY <2>1, <2>2 DEF IInv, Relocating
<1>1. ASSUME NEW o \in Objs, MapInitial(o) PROVE IInv'
  BY <1>0, <1>1, MapStep DEF MapInitial
<1>2. ASSUME NEW o \in Objs, PlaceInitial(o) PROVE IInv'
  <2>1. Relocating'
    BY <1>2 DEF PlaceInitial, IInv, Relocating
  <2> QED
    BY <1>2, <2>1, PlaceStep DEF PlaceInitial
<1>3. ASSUME NEW o \in Objs, Dlopen(o) PROVE IInv'
  BY <1>0, <1>3, MapStep DEF Dlopen
<1>4. ASSUME NEW o \in Objs, Dlclose(o) PROVE IInv'
  <2>1. Relocating'
    BY <1>4 DEF Dlclose, Lockable, IInv, Relocating
  <2> QED
    BY <1>4, <2>1, UnloadStep DEF Dlclose
<1>5. CASE InitialAllocation
  <2>1. /\ ~Started /\ loaded = Initial /\ \A o \in loaded : obj[o].static
        /\ static_space' = roundup2(static_offset + Reservation, static_max_align)
        /\ UNCHANGED << obj, loaded, generation, max_index, static_offset, static_max_align,
                        plain, blocks, opening, todo >>
    BY <1>5 DEF InitialAllocation
  <2>2. /\ static_offset + Reservation \in Nat /\ static_max_align \in Nat \ {0}
        /\ static_offset \in Nat
    BY DEF IInv, Types
  <2>3. /\ static_space' \in Nat /\ static_offset + Reservation <= static_space'
        /\ static_space' % static_max_align = 0
    BY <2>1, <2>2, RoundUp
  <2>4. Started'
    BY <2>2, <2>3 DEF Started
  <2>5. \A o \in Initial : static_space' % Align[o] = 0
    <3> SUFFICES ASSUME NEW o \in Initial PROVE static_space' % Align[o] = 0
      OBVIOUS
    <3>1. Align[o] \in Alignments /\ Align[o] \in Nat \ {0} /\ Align[o] <= static_max_align
      BY <2>1 DEF IInv, Layout, StaticObjs
    <3>2. static_max_align % Align[o] = 0
      BY <3>1 DEF IInv, Types
    <3> QED
      BY <3>1, <3>2, <2>2, <2>3, Divides
  <2>6. Layout'
    <3>1. StaticObjs' = StaticObjs
      BY <2>1 DEF StaticObjs
    <3>2. static_offset' <= static_space'
      BY <2>1, <2>2, <2>3
    <3> QED
      BY <2>1, <2>5, <3>1, <3>2 DEF IInv, Layout
  <2>7. Relocating'
    BY <2>1 DEF IInv, Relocating
  <2>8. dtv[MainThread] = NoDtv /\ MainThread \in Threads /\ Allocate(MainThread)
    BY <1>5, <2>1, TlsAssumption DEF IInv, Vectors, InitialAllocation
  <2> QED
    BY <2>1, <2>3, <2>4, <2>6, <2>7, <2>8, AllocateStep
<1>6. CASE RelocateTpoff
  <2>1. /\ Head(todo) \in loaded /\ Tail(todo) \in Seq(loaded) /\ opening # NoObj
        /\ todo' = Tail(todo)
        /\ UNCHANGED << loaded, generation, max_index, static_space, plain, dtv, blocks, opening >>
    BY <1>6 DEF RelocateTpoff, IInv, Relocating
  <2>2. Relocating'
    BY <2>1 DEF IInv, Relocating
  <2>3. CASE /\ obj[Head(todo)].static
             /\ UNCHANGED << obj, static_offset, static_max_align >>
    BY <2>1, <2>2, <2>3 DEF IInv, Types, Modules, Layout, Started, StaticObjs, Vectors,
       Entry, Blocks
  <2>4. CASE ~obj[Head(todo)].static /\ OffsetAllocate(Head(todo))
    BY <2>1, <2>2, <2>4, PlaceStep
  <2> QED
    BY <1>6, <2>3, <2>4 DEF RelocateTpoff
<1>7. CASE RelocateFails
  <2>1. opening \in loaded /\ Relocating'
    BY <1>7 DEF RelocateFails, IInv, Relocating
  <2>2. "failed" \in RelocStates
    BY DEF RelocStates
  <2> QED
    BY <1>7, <2>1, <2>2, StateStep DEF RelocateFails, globals
<1>8. CASE Relocated
  <2>1. opening \in loaded /\ Relocating'
    BY <1>8 DEF Relocated, IInv, Relocating
  <2>2. "done" \in RelocStates
    BY DEF RelocStates
  <2> QED
    BY <1>8, <2>1, <2>2, StateStep DEF Relocated, globals
<1>9. ASSUME NEW t \in Threads, CreateThread(t) PROVE IInv'
  <2>1. /\ Started /\ dtv[t] = NoDtv /\ Allocate(t)
        /\ UNCHANGED << obj, loaded, generation, max_index, static_space, static_offset,
                        static_max_align, plain, blocks, opening, todo >>
    BY <1>9 DEF CreateThread, Lockable, Alive, globals
  <2>2. Relocating' /\ Layout' /\ Started' /\ static_space' \in Nat
    BY <2>1 DEF IInv, Types, Relocating, Layout, StaticObjs, Started
  <2> QED
    BY <2>1, <2>2, AllocateStep
<1>10. ASSUME NEW t \in Threads, ExitThread(t) PROVE IInv'
  BY <1>10, ExitStep
<1>11. ASSUME NEW t \in Threads, NEW o \in Objs, GetAddr(t, o) PROVE IInv'
  BY <1>11, GetAddrStep
<1>12. CASE UNCHANGED vars
  BY <1>12 DEF vars, globals, IInv, Types, Modules, Relocating, Layout, Started, StaticObjs,
     Vectors, Entry, Blocks
<1>13. ASSUME NEW o \in Objs, StartRelocation(o) PROVE IInv'
  <2>1. UNCHANGED << obj, loaded, globals, dtv, blocks >>
    BY <1>13 DEF StartRelocation
  <2>2. Relocating'
    BY <1>13, StartTodo
  <2>3. Types' /\ Modules' /\ Layout' /\ Vectors' /\ Blocks'
    BY <2>1 DEF globals, IInv, Types, Modules, Layout, Started, StaticObjs, Vectors, Entry, Blocks
  <2> QED
    BY <2>2, <2>3 DEF IInv
<1> QED
  BY <1>1, <1>2, <1>3, <1>4, <1>5, <1>6, <1>7, <1>8, <1>9, <1>10, <1>11, <1>12, <1>13 DEF Next

-----------------------------------------------------------------------------
(* The theorems *)

\* The inductive invariant holds in every reachable state.
LEMMA Invariance == Spec => []IInv
<1> QED
  BY InitInv, InvStep, PTL DEF Spec

\* Types and ranges of _rtld_tls_max_index, _rtld_tls_dtv_generation and the
\* static offsets hold whatever is loaded, unloaded and referred to.
THEOREM TypeCorrect == Spec => []TypeOK
<1>1. IInv => TypeOK
  <2> SUFFICES ASSUME IInv PROVE TypeOK
    OBVIOUS
  <2>1. obj \in [Objs -> [index : 0..max_index, load : 0..generation, offset : 0..static_offset,
                          static : BOOLEAN, dynamic : BOOLEAN, reloc : RelocStates]]
    <3> SUFFICES ASSUME NEW o \in Objs
                 PROVE  obj[o] \in [index : 0..max_index, load : 0..generation,
                                    offset : 0..static_offset,
                                    static : BOOLEAN, dynamic : BOOLEAN,
                                    reloc : RelocStates]
      BY DEF IInv, Types
    <3>1. generation \in Nat /\ max_index \in Nat /\ static_offset \in Nat
      BY DEF IInv, Types
    <3>2. CASE o \in loaded
      <4>1. /\ obj[o].index \in 0..max_index /\ obj[o].load \in 0..generation
            /\ obj[o].offset \in 0..static_offset
        BY <3>1, <3>2 DEF IInv, Types, ObjEntry, Modules, Layout
      <4>2. obj[o] \in ObjEntry
        BY DEF IInv, Types
      <4> QED
        BY <4>1, <4>2 DEF ObjEntry
    <3>3. CASE o \notin loaded
      <4>1. /\ 0 \in 0..max_index /\ 0 \in 0..generation /\ 0 \in 0..static_offset
            /\ obj[o] = Unmapped
        BY <3>1, <3>3 DEF IInv, Modules
      <4> QED
        BY <4>1 DEF Unmapped, RelocStates
    <3> QED
      BY <3>2, <3>3
  <2>2. loaded \subseteq Objs /\ opening \in loaded \cup {NoObj} /\ todo \in Seq(Objs)
    BY DEF IInv, Types, Relocating
  <2>3. /\ {generation, max_index, static_space, static_offset, static_max_align} \subseteq Nat
        /\ plain \in BOOLEAN
    BY ConstantFacts DEF IInv, Types
  <2>4. ASSUME NEW t \in Threads
        PROVE  /\ dtv[t].gen \in 0..generation
               /\ \A i \in DOMAIN dtv[t].ptr : dtv[t].ptr[i].at \in {"null", "static", "block"}
    <3>1. dtv[t].gen \in Nat /\ generation \in Nat /\ dtv[t].ptr \in Seq(Address)
      BY DEF IInv, Types, Vector
    <3>2. \A i \in DOMAIN dtv[t].ptr : dtv[t].ptr[i] \in Address
      BY <3>1
    <3> QED
      BY <3>1, <3>2 DEF IInv, Vectors, Address
  <2>5. blocks \subseteq Threads \X (1..generation)
    BY DEF IInv, Blocks
  <2> QED
    BY <2>1, <2>2, <2>3, <2>4, <2>5 DEF TypeOK, RelocStates
<1> QED
  BY <1>1, Invariance, PTL

\* The pieces of static storage that _rtld_tls_offset_allocate hands out, at
\* start-up and to dlopened objects, never overlap, lie in what every thread has
\* below its thread pointer and are aligned, whatever the sizes and alignments.
THEOREM StaticStorageCorrect == Spec => []StaticPlaced
<1>1. IInv => StaticPlaced
  <2> SUFFICES ASSUME IInv PROVE StaticPlaced
    OBVIOUS
  <2>1. ASSUME NEW o \in StaticObjs, Started
        PROVE  obj[o].offset <= static_space
    <3>1. /\ o \in loaded /\ obj[o].offset \in Nat /\ static_offset \in Nat /\ static_space \in Nat
      BY DEF IInv, Types, ObjEntry, StaticObjs
    <3> QED
      BY <2>1, <3>1 DEF IInv, Layout
  <2> QED
    BY <2>1 DEF IInv, Layout, StaticPlaced
<1> QED
  BY <1>1, Invariance, PTL

\* A module with static storage has no block in any thread: initial-exec code and
\* __tls_get_addr agree, also for a dlopened module made static late.
THEOREM AccessModelsAgree == Spec => []ModelsAgree
<1>1. IInv => ModelsAgree
  BY DEF IInv, Types, Modules, Vectors, ModelsAgree, StaticObjs
<1> QED
  BY <1>1, Invariance, PTL

\* A vector never leads to storage of a module unloaded earlier: the entry of a
\* dynamic module is a block allocated for this load, and there is room for it.
THEOREM EntriesBelong == Spec => []OwnBlock
<1>1. IInv => OwnBlock
  <2> SUFFICES ASSUME IInv, NEW o \in loaded \ StaticObjs, NEW t \in Threads
               PROVE  /\ Entry(t, o) # Null => /\ Entry(t, o) = Block(obj[o].load)
                                               /\ << t, obj[o].load >> \in blocks
                                               /\ obj[o].dynamic
                      /\ obj[o].index <= Len(Renewed(dtv[t]).ptr)
    BY DEF OwnBlock
  <2>1. Entry(t, o) = Null \/ (obj[o].dynamic /\ Entry(t, o) = Block(obj[o].load))
    BY DEF IInv, Vectors, StaticObjs
  <2>2. ASSUME Entry(t, o) # Null PROVE << t, obj[o].load >> \in blocks
    <3>1. /\ obj[o].index \in 1..max_index /\ Len(dtv[t].ptr) \in Nat /\ max_index \in Nat
          /\ obj[o].load \in Nat
      BY DEF IInv, Types, ObjEntry, Vector, Modules
    <3>2. /\ obj[o].index \in 1..Len(dtv[t].ptr)
          /\ dtv[t].ptr[obj[o].index] = Block(obj[o].load)
      BY <2>1, <2>2, <3>1 DEF Entry
    <3>3. /\ dtv[t].ptr[obj[o].index].at = "block"
          /\ dtv[t].ptr[obj[o].index].n = obj[o].load
      BY <3>1, <3>2, Addresses
    <3> QED
      BY <3>2, <3>3 DEF IInv, Blocks
  <2>3. obj[o].index <= Len(Renewed(dtv[t]).ptr)
    BY RenewedFacts DEF IInv, Modules
  <2> QED
    BY <2>1, <2>2, <2>3
<1> QED
  BY <1>1, Invariance, PTL

\* The blocks allocated are exactly those that the vectors of live threads have:
\* a thread that ends frees all of its own, once, however often modules came and
\* went and vectors were replaced.
THEOREM BlocksAccounted == Spec => []NoLeak
<1>1. IInv => NoLeak
  <2> SUFFICES ASSUME IInv PROVE NoLeak
    OBVIOUS
  <2>1. ASSUME NEW t \in Threads, NEW n \in 1..generation
        PROVE  << t, n >> \in blocks
                 <=> \E i \in DOMAIN dtv[t].ptr : dtv[t].ptr[i] = Block(n)
    <3>1. dtv[t].ptr \in Seq(Address) /\ n \in Nat
      BY DEF IInv, Types, Vector
    <3>2. DOMAIN dtv[t].ptr = 1..Len(dtv[t].ptr)
      BY <3>1
    <3>3. ASSUME << t, n >> \in blocks
          PROVE  \E i \in DOMAIN dtv[t].ptr : dtv[t].ptr[i] = Block(n)
      BY <3>1, <3>2, <3>3 DEF IInv, Blocks
    <3>4. ASSUME NEW i \in DOMAIN dtv[t].ptr, dtv[t].ptr[i] = Block(n)
          PROVE  << t, n >> \in blocks
      <4>1. dtv[t].ptr[i].at = "block" /\ dtv[t].ptr[i].n = n
        BY <3>1, <3>4, Addresses
      <4> QED
        BY <3>2, <4>1 DEF IInv, Blocks
    <3> QED
      BY <3>3, <3>4
  <2>2. blocks \subseteq Threads \X (1..generation)
    BY DEF IInv, Blocks
  <2>3. ASSUME NEW b \in Threads \X (1..generation)
        PROVE  b \in blocks <=> \E i \in DOMAIN dtv[b[1]].ptr : dtv[b[1]].ptr[i] = Block(b[2])
    <3>1. b = << b[1], b[2] >> /\ b[1] \in Threads /\ b[2] \in 1..generation
      OBVIOUS
    <3>2. PICK t \in Threads, n \in 1..generation : b = << t, n >>
      BY <3>1
    <3> QED
      BY <2>1, <3>2
  <2> QED
    BY <2>2, <2>3 DEF NoLeak
<1> QED
  BY <1>1, Invariance, PTL

\* The body of AddressStable, for one thread and one object.
Kept(t, o) == Alive(t) /\ Alive(t)' /\ o \in loaded' /\ Entry(t, o) # Null
              => Entry(t, o)' = Entry(t, o)

\* An address that a thread has got for a loaded module stays what it is through
\* new vectors, threads, loads and unloads of others.
THEOREM AddressesStable == Spec => AddressStable
<1>1. IInv /\ [Next]_vars => [\A t \in Threads, o \in loaded : Kept(t, o)]_vars
  <2> SUFFICES ASSUME IInv, Next, NEW t \in Threads, NEW o \in loaded,
                      Alive(t), Alive(t)', o \in loaded', Entry(t, o) # Null
               PROVE  Entry(t, o)' = Entry(t, o)
    BY DEF Kept
  <2>1. o \in Objs /\ obj \in [Objs -> ObjEntry]
    BY DEF IInv, Types
  <2>2. CASE dtv'[t] = dtv[t] /\ obj'[o].index = obj[o].index
    BY <2>2 DEF Entry
  <2>3. ASSUME NEW x \in Objs, Map(x), UNCHANGED dtv PROVE Entry(t, o)' = Entry(t, o)
    BY <2>1, <2>2, <2>3 DEF Map
  <2>4. ASSUME NEW x \in Objs, OffsetAllocate(x), UNCHANGED dtv PROVE Entry(t, o)' = Entry(t, o)
    BY <2>1, <2>2, <2>4 DEF OffsetAllocate, ObjEntry
  <2>5. ASSUME NEW x \in Objs, Unload(x) PROVE Entry(t, o)' = Entry(t, o)
    BY <2>1, <2>2, <2>5 DEF Unload, OffsetFree
  <2>6. ASSUME NEW u \in Threads, ~Alive(u), Allocate(u), UNCHANGED obj
        PROVE  Entry(t, o)' = Entry(t, o)
    <3>1. u # t
      BY <2>6
    <3> QED
      BY <2>2, <2>6, <3>1 DEF Allocate, IInv, Types
  <2>7. ASSUME NEW u \in Threads, NEW x \in Objs, GetAddr(u, x)
        PROVE  Entry(t, o)' = Entry(t, o)
    <3>1. /\ x \in loaded /\ \A v \in Threads \ {u} : dtv'[v] = dtv[v]
          /\ Len(dtv'[u].ptr) = max_index /\ Entry(u, x) = Null
          /\ \A i \in 1..max_index : i # obj[x].index =>
                dtv'[u].ptr[i] = IF i <= Len(dtv[u].ptr) THEN dtv[u].ptr[i] ELSE Null
      BY <2>7, GetAddrEffect
    <3>2. obj'[o].index = obj[o].index
      BY <2>1, <2>7 DEF GetAddr, ObjEntry
    <3>3. CASE u = t
      <4>1. x # o
        BY <3>1, <3>3
      <4>2. obj[o].index \in 1..max_index /\ max_index \in Nat /\ obj[o].index # obj[x].index
        BY <3>1, <4>1 DEF IInv, Types, Modules
      <4> QED
        BY <3>1, <3>2, <3>3, <4>2 DEF Entry
    <3>4. CASE u # t
      BY <2>2, <3>1, <3>2, <3>4
    <3> QED
      BY <3>3, <3>4
  <2>8. CASE InitialAllocation
    BY <2>8, <2>6, TlsAssumption DEF InitialAllocation, Alive, IInv, Vectors
  <2>9. CASE RelocateTpoff
    <3>1. Head(todo) \in Objs
      BY <2>9 DEF RelocateTpoff, IInv, Types, Relocating
    <3> QED
      BY <2>9, <2>2, <2>4, <3>1 DEF RelocateTpoff
  <2>10. CASE RelocateFails
    BY <2>10, <2>1, <2>2 DEF RelocateFails, ObjEntry
  <2>11. CASE Relocated
    BY <2>11, <2>1, <2>2 DEF Relocated, ObjEntry
  <2>12. ASSUME NEW u \in Threads, ExitThread(u) PROVE Entry(t, o)' = Entry(t, o)
    <3>1. CASE u = t
      BY <2>12, <3>1 DEF ExitThread, Alive, IInv, Types
    <3>2. CASE u # t
      BY <2>2, <2>12, <3>2 DEF ExitThread, IInv, Types
    <3> QED
      BY <3>1, <3>2
  <2>13. ASSUME NEW x \in Objs, StartRelocation(x) PROVE Entry(t, o)' = Entry(t, o)
    BY <2>2, <2>13 DEF StartRelocation
  <2> QED
    BY <2>3, <2>4, <2>5, <2>6, <2>7, <2>8, <2>9, <2>10, <2>11, <2>12, <2>13
       DEF Next, MapInitial, PlaceInitial, Dlopen, Dlclose, CreateThread
<1> QED
  BY <1>1, Invariance, PTL DEF AddressStable, Spec, Kept
==============================================================================
