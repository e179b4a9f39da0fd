------------------------------- MODULE RtldTls -------------------------------
(***************************************************************************)
(* Thread-local storage in ld.elf_so (tls.c, x86_64: variant II).          *)
(*                                                                         *)
(* Each object with a PT_TLS segment is a module with an index.  A thread  *)
(* finds a module's storage in two ways: at a fixed offset below its       *)
(* thread pointer (initial-exec code; static storage), or through its      *)
(* dynamic thread vector (__tls_get_addr).  Objects present at start-up    *)
(* have static storage; a dlopened object gets a block per thread when the *)
(* thread first asks for it, or, if some initial-exec code refers to it,   *)
(* a piece of a small static reserve.  Threads bring their vectors up to   *)
(* date one by one, when they notice that theirs is old.                   *)
(*                                                                         *)
(* All of it but the fast path of __tls_get_addr, which only reads the     *)
(* thread's own vector, runs under the exclusive lock.  dlopen may give    *)
(* the lock up after mapping an object, when a library that it needs is    *)
(* being unloaded (_rtld_wait_for_fini): an object can be in the list,     *)
(* with an index and without its relocations, while other threads create   *)
(* threads, touch variables, load and unload.                              *)
(***************************************************************************)
EXTENDS Integers, Sequences, FiniteSets

CONSTANTS Threads, MainThread,
          Objs,             \* objects with a TLS segment
          MainObj,          \* the main program, one of them
          Initial,          \* objects loaded at start-up, the main program among them
          Size, Align, InitSize,   \* p_memsz, p_align, p_filesz of the segment
          Tpoff,            \* [Objs -> Seq(Objs)]: the objects an object's TPOFF64
                            \* relocations refer to, in order
          Reservation,      \* RTLD_STATIC_TLS_RESERVATION
          BaseAlign,        \* the first value of _rtld_tls_static_max_align
          NoObj,
          MaxLoads          \* bound: calls of dlopen that map an object

ASSUME TlsAssumption ==
    /\ MainThread \in Threads /\ NoObj \notin Objs
    /\ MainObj \in Initial /\ Initial \subseteq Objs
    /\ Size \in [Objs -> Nat \ {0}] /\ Align \in [Objs -> Nat \ {0}]
    /\ InitSize \in [Objs -> Nat] /\ Tpoff \in [Objs -> Seq(Objs)]
    /\ Reservation \in Nat \ {0} /\ BaseAlign \in Nat \ {0} /\ MaxLoads \in Nat
    \* Alignments are powers of two (asserted in tls.c:586-591): one divides the other.
    /\ \A a, b \in {BaseAlign} \cup {Align[o] : o \in Objs} : a <= b => b % a = 0

VARIABLES obj,            \* the Obj_Entry of each object; load tells its loads apart
          loaded,         \* the objects in _rtld_objlist
          generation,     \* _rtld_tls_dtv_generation
          max_index,      \* _rtld_tls_max_index
          static_space,   \* _rtld_tls_static_space, 0 until start-up has set it
          static_offset,  \* _rtld_tls_static_offset
          static_max_align,
          plain,          \* an object without TLS segment is loaded at start-up
          dtv,            \* each thread's vector; no thread: NoDtv
          blocks,         \* allocated blocks: << thread, load >>
          opening,        \* the object _rtld_relocate_objects is at
          todo            \* its TPOFF64 relocations left

globals == << generation, max_index, static_space, static_offset, static_max_align, plain >>
vars == << obj, loaded, globals, dtv, blocks, opening, todo >>

\* Addresses, in the thread whose vector holds them: off bytes below the thread
\* pointer, or a block of the heap.
Null == [at |-> "null", n |-> 0]
Static(off) == [at |-> "static", n |-> off]
Block(load) == [at |-> "block", n |-> load]

NoDtv == [gen |-> 0, ptr |-> << >>]

\* reloc is relocstate: "mapped" until _rtld_relocate_objects comes to the object.
Unmapped == [index |-> 0, load |-> 0, offset |-> 0, static |-> FALSE, dynamic |-> FALSE,
             reloc |-> "mapped"]

\* The main program's segment is found by _rtld_digest_phdr.
Init ==
    /\ obj = [o \in Objs |-> IF o = MainObj THEN [Unmapped EXCEPT !.index = 1, !.load = 1]
                             ELSE Unmapped]
    /\ loaded = {MainObj}
    /\ generation = 1 /\ max_index = 1
    /\ static_space = 0 /\ static_offset = 0 /\ static_max_align = BaseAlign
    /\ plain \in BOOLEAN
    /\ dtv = [t \in Threads |-> NoDtv] /\ blocks = {}
    /\ opening = NoObj /\ todo = << >>

Started == static_space # 0

\* Nobody is relocating: _rtld_relocate_objects does not give up the lock.
Lockable == Started /\ opening = NoObj
Alive(t) == dtv[t] # NoDtv

-----------------------------------------------------------------------------
(* Modules *)

\* The lowest index no loaded object has.
ReusedIndex == CHOOSE i \in 1..(max_index + 1) :
    /\ \A o \in loaded : obj[o].index # i
    /\ \A j \in 1..(i - 1) : \E o \in loaded : obj[o].index = j

NewIndex == max_index + 1

\* The part of _rtld_map_object about the TLS segment.
Map(o) ==
    /\ o \notin loaded
    /\ generation' = generation + 1
    /\ max_index' = IF NewIndex > max_index THEN NewIndex ELSE max_index
    /\ obj' = [obj EXCEPT ![o] = [Unmapped EXCEPT !.index = NewIndex,
                                                  !.load = generation + 1]]
    /\ loaded' = loaded \cup {o}

roundup2(x, a) == x + ((-x) % a)

NewOffset(o) == roundup2(static_offset + Size[o], Align[o])

\* A dynamic module may become static.
RefusedIfNoRoom(o) ==
    Started /\ (InitSize[o] # 0 \/ NewOffset(o) > static_space)

\* A dlopened module need not fit.
RefusedIfInitialised(o) == obj[o].dynamic \/ (Started /\ InitSize[o] # 0)

\* _rtld_tls_offset_allocate returns -1.
Refused(o) ==
    \/ obj[o].dynamic
    \/ Started /\ (InitSize[o] # 0 \/ NewOffset(o) > static_space)

\* The next offset is not remembered.
OffsetNotAdvanced(o) ==
    /\ ~Refused(o)
    /\ obj' = [obj EXCEPT ![o].offset = NewOffset(o), ![o].static = TRUE]
    /\ UNCHANGED << static_offset, static_max_align >>

\* It makes the module static.
OffsetAllocate(o) ==
    /\ ~Refused(o)
    /\ static_offset' = NewOffset(o)
    /\ static_max_align' = IF Align[o] > static_max_align THEN Align[o] ELSE static_max_align
    /\ obj' = [obj EXCEPT ![o].offset = NewOffset(o), ![o].static = TRUE]

-----------------------------------------------------------------------------
(* Vectors *)

\* An object without TLS segment has index 0 and offset 0: with one in the list
\* dtv[0], the generation, is overwritten with the thread pointer.
FirstGeneration == IF plain THEN 0 ELSE generation

\* _rtld_tls_allocate_locked.
Allocate(t) ==
    dtv' = [dtv EXCEPT ![t] =
        [gen |-> FirstGeneration,
         ptr |-> [i \in 1..max_index |->
                    IF \E o \in loaded : obj[o].static /\ obj[o].index = i
                    THEN Static(obj[CHOOSE o \in loaded : obj[o].index = i].offset)
                    ELSE Null]]]

\* One entry too few is copied.
RenewedShort(d) ==
    IF d.gen = generation THEN d
    ELSE [gen |-> generation,
          ptr |-> [i \in 1..max_index |-> IF i < Len(d.ptr) THEN d.ptr[i] ELSE Null]]

\* The vector _rtld_tls_get_addr uses: a new one if the generation has changed.
Renewed(d) ==
    IF d.gen = generation THEN d
    ELSE [gen |-> generation,
          ptr |-> [i \in 1..max_index |-> IF i <= Len(d.ptr) THEN d.ptr[i] ELSE Null]]

-----------------------------------------------------------------------------
(* Start-up: _rtld *)

MapInitial(o) ==
    /\ ~Started /\ o \in Initial /\ \A x \in loaded : ~obj[x].static
    /\ Map(o)
    /\ UNCHANGED << static_space, static_offset, static_max_align, plain, dtv, blocks,
                    opening, todo >>

\* Initial objects get their offsets in list order, after all are mapped.
PlaceInitial(o) ==
    /\ ~Started /\ loaded = Initial /\ o \in loaded /\ ~obj[o].static
    /\ \A x \in loaded : obj[x].index < obj[o].index => obj[x].static
    /\ OffsetAllocate(o)
    /\ UNCHANGED << loaded, generation, max_index, static_space, plain, dtv, blocks,
                    opening, todo >>

\* _rtld_tls_initial_allocation.
InitialAllocation ==
    /\ ~Started /\ loaded = Initial /\ \A o \in loaded : obj[o].static
    /\ static_space' = roundup2(static_offset + Reservation, static_max_align)
    /\ Allocate(MainThread)
    /\ UNCHANGED << obj, loaded, generation, max_index, static_offset, static_max_align,
                    plain, blocks, opening, todo >>

-----------------------------------------------------------------------------
(* dlopen and dlclose *)

\* _rtld_load_object, for the object or for one that it needs.
Dlopen(o) ==
    /\ Lockable /\ generation <= MaxLoads
    /\ Map(o)
    /\ UNCHANGED << static_space, static_offset, static_max_align, plain, dtv, blocks,
                    opening, todo >>

\* _rtld_relocate_objects takes up an object that is OBJRELOC_READY: those it needs,
\* where its relocations lead, are mapped, but need not be relocated.
StartRelocation(o) ==
    /\ Lockable /\ o \in loaded \ Initial /\ obj[o].reloc = "mapped"
    /\ \A i \in DOMAIN Tpoff[o] : Tpoff[o][i] \in loaded
    /\ opening' = o /\ todo' = Tpoff[o]
    /\ UNCHANGED << obj, loaded, globals, dtv, blocks >>

\* R_TYPE(TPOFF64) in _rtld_relocate_nonplt_objects.
RelocateTpoff ==
    /\ opening # NoObj /\ todo # << >>
    /\ \/ /\ obj[Head(todo)].static
          /\ UNCHANGED << obj, static_offset, static_max_align >>
       \/ ~obj[Head(todo)].static /\ OffsetAllocate(Head(todo))
    /\ todo' = Tail(todo)
    /\ UNCHANGED << loaded, generation, max_index, static_space, plain, dtv, blocks, opening >>

\* _rtld_obj_free and _rtld_tls_offset_free: nothing is given back.
OffsetFree(o) == obj' = [obj EXCEPT ![o] = Unmapped] /\ UNCHANGED static_offset

Unload(o) ==
    /\ loaded' = loaded \ {o}
    /\ OffsetFree(o)
    /\ UNCHANGED << generation, max_index, static_space, static_max_align, plain, dtv, blocks >>

\* OBJRELOC_FAILED, and dlopen fails: it unloads what it has loaded.
RelocateFails ==
    /\ opening # NoObj /\ todo # << >>
    /\ ~obj[Head(todo)].static /\ Refused(Head(todo))
    /\ obj' = [obj EXCEPT ![opening].reloc = "failed"]
    /\ opening' = NoObj /\ todo' = << >>
    /\ UNCHANGED << loaded, globals, dtv, blocks >>

Relocated ==
    /\ opening # NoObj /\ todo = << >>
    /\ obj' = [obj EXCEPT ![opening].reloc = "done"]
    /\ opening' = NoObj
    /\ UNCHANGED << loaded, globals, dtv, blocks, todo >>

\* dlclose, or the end of a dlopen that failed, frees an object that nobody refers
\* to; one that is only mapped may not have found the object yet.
Dlclose(o) ==
    /\ Lockable /\ o \in loaded \ Initial
    /\ \A x \in loaded \ {o} : obj[x].reloc # "mapped" =>
          \A i \in DOMAIN Tpoff[x] : Tpoff[x][i] # o
    /\ Unload(o)
    /\ UNCHANGED << opening, todo >>

-----------------------------------------------------------------------------
(* Threads *)

\* _rtld_tls_allocate, called by pthread_create.
CreateThread(t) ==
    /\ Lockable /\ ~Alive(t)
    /\ Allocate(t)
    /\ UNCHANGED << obj, loaded, globals, blocks, opening, todo >>

\* The last entry of the vector is left out.
FreesAllButLast(t) ==
    {dtv[t].ptr[i].n : i \in {j \in 1..(Len(dtv[t].ptr) - 1) : dtv[t].ptr[j].at = "block"}}

\* What _rtld_tls_free passes to xfree: the pointers outside the static space.
FreedBlocks(t) ==
    {dtv[t].ptr[i].n : i \in {j \in DOMAIN dtv[t].ptr : dtv[t].ptr[j].at = "block"}}

\* _rtld_tls_free, when a thread other than the first ends.
ExitThread(t) ==
    /\ Lockable /\ Alive(t) /\ t # MainThread
    /\ blocks' = blocks \ {<< t, n >> : n \in FreedBlocks(t)}
    /\ dtv' = [dtv EXCEPT ![t] = NoDtv]
    /\ UNCHANGED << obj, loaded, globals, opening, todo >>

\* __tls_get_addr by code of o, or of an object that needs o, once it can run: the
\* fast path changes nothing.
FastPath(t, o) ==
    obj[o].index <= Len(dtv[t].ptr) /\ dtv[t].ptr[obj[o].index] # Null

\* _rtld_tls_get_addr and _rtld_tls_module_allocate.  Renewing the vector cannot
\* fill the entry that was missing.
GetAddr(t, o) ==
    LET d == Renewed(dtv[t])  i == obj[o].index IN
    /\ Lockable /\ Alive(t) /\ o \in loaded /\ ~FastPath(t, o)
    /\ o \in Initial \/ obj[o].reloc = "done"
    /\ d.ptr[i] = Null
    /\ \/ /\ obj[o].static
          /\ dtv' = [dtv EXCEPT ![t] = [d EXCEPT !.ptr[i] = Static(obj[o].offset)]]
          /\ UNCHANGED << obj, blocks >>
       \/ /\ ~obj[o].static
          /\ dtv' = [dtv EXCEPT ![t] = [d EXCEPT !.ptr[i] = Block(obj[o].load)]]
          /\ obj' = [obj EXCEPT ![o].dynamic = TRUE]
          /\ blocks' = blocks \cup {<< t, obj[o].load >>}
    /\ UNCHANGED << loaded, globals, opening, todo >>

Next == \/ \E o \in Objs : MapInitial(o) \/ PlaceInitial(o) \/ Dlopen(o) \/ Dlclose(o)
        \/ \E o \in Objs : StartRelocation(o)
        \/ InitialAllocation \/ RelocateTpoff \/ RelocateFails \/ Relocated
        \/ \E t \in Threads : CreateThread(t) \/ ExitThread(t)
        \/ \E t \in Threads, o \in Objs : GetAddr(t, o)

Spec == Init /\ [][Next]_vars

-----------------------------------------------------------------------------
(* Properties *)

\* Types, and numbers that only grow (tls.c:109-117).
TypeOK ==
    /\ obj \in [Objs -> [index : 0..max_index, load : 0..generation, offset : 0..static_offset,
                         static : BOOLEAN, dynamic : BOOLEAN,
                         reloc : {"mapped", "done", "failed"}]]
    /\ loaded \subseteq Objs /\ opening \in loaded \cup {NoObj} /\ todo \in Seq(Objs)
    /\ {generation, max_index, static_space, static_offset, static_max_align} \subseteq Nat
    /\ plain \in BOOLEAN
    /\ \A t \in Threads : /\ dtv[t].gen \in 0..generation
                          /\ \A i \in DOMAIN dtv[t].ptr :
                                dtv[t].ptr[i].at \in {"null", "static", "block"}
    /\ blocks \subseteq Threads \X (1..generation)

StaticObjs == {o \in loaded : obj[o].static}

\* The static storage of one object overlaps no other's, lies inside what every
\* thread has below its thread pointer, and is aligned there for the objects the
\* space was laid out for (_rtld_tls_offset_allocate, _rtld_tls_initial_allocation).
StaticPlaced ==
    /\ \A o \in StaticObjs :
          /\ Size[o] <= obj[o].offset /\ obj[o].offset % Align[o] = 0
          /\ Started => obj[o].offset <= static_space
          /\ Started /\ o \in Initial => static_space % Align[o] = 0
    /\ \A o, x \in StaticObjs : o # x =>
          \/ obj[o].offset <= obj[x].offset - Size[x]
          \/ obj[x].offset <= obj[o].offset - Size[o]

Entry(t, o) == IF obj[o].index <= Len(dtv[t].ptr) THEN dtv[t].ptr[obj[o].index] ELSE Null

\* Initial-exec code and __tls_get_addr find the same variable: a static module
\* has no block in any thread, also when it became static after threads were
\* started and vectors made (mdreloc.c TPOFF64, tls_dynamic in tls.c).
ModelsAgree ==
    \A o \in StaticObjs : \A t \in Threads :
        Entry(t, o) \in {Null, Static(obj[o].offset)} /\ ~obj[o].dynamic

\* What a vector has for a loaded module that is not static is a block allocated
\* for this load of it, in this thread, and not freed: never what an unloaded
\* module has left there; and the slow path finds room for a missing entry.
OwnBlock ==
    \A o \in loaded \ StaticObjs : \A t \in Threads : Alive(t) =>
        /\ Entry(t, o) # Null => /\ Entry(t, o) = Block(obj[o].load)
                                 /\ << t, obj[o].load >> \in blocks
                                 /\ obj[o].dynamic
        /\ obj[o].index <= Len(Renewed(dtv[t]).ptr)

\* Each allocated block belongs to a live thread whose vector still has it, so
\* that it is freed when the thread ends (_rtld_tls_free), and only then: dlclose
\* frees none, although tls.c:671-674 says that entries are freed there and only
\* there.
NoLeak == blocks = {b \in Threads \X (1..generation) :
                      \E i \in DOMAIN dtv[b[1]].ptr : dtv[b[1]].ptr[i] = Block(b[2])}

\* A thread's variables never move: while an object stays loaded, its address in
\* a thread, once known, survives new vectors, other loads and unloads.
AddressStable ==
    [][\A t \in Threads, o \in loaded :
          Alive(t) /\ Alive(t)' /\ o \in loaded' /\ Entry(t, o) # Null
          => Entry(t, o)' = Entry(t, o)]_vars
==============================================================================
