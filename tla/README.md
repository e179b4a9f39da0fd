# Verification of BSDLibC

BSDLibC is a port of NetBSD's libc, start-up files and dynamic linker to Linux
on x86_64. Most of it is a library of independent functions. This project
models the parts that have a protocol of their own: the dynamic linker
`ld.elf_so` (one reader/writer lock, one list of shared objects,
`dlopen`/`dlclose` calls that give up the lock in the middle, thread-local
storage that threads bring up to date one by one), the exit handlers of libc,
whose list changes while it is walked, and the buffers of stdio, where a dozen
functions keep the same counters consistent. It checks them with TLC and proves
most of their safety properties with TLAPS for instances of any size.

## 1. Inventory

| component | state | operations | interaction | what makes it correct |
|---|---|---|---|---|
| lock of the dynamic linker (`rtld.c` 2317-2439) | `_rtld_mutex`, `_rtld_waiter_exclusive`, `_rtld_waiter_shared`, the threads' signal masks | shared and exclusive enter and exit | taken by everything below; parks through `libc/sys/lwp.c`; asked for by lazily bound calls in signal handlers | exclusion; the lock word tells who is inside; no lost wake-up; no false dead lock report |
| loading and unloading (`rtld.c`, `load.c`, `search.c`, `reloc.c`, `map_object.c`) | `_rtld_objlist`, per `Obj_Entry` the counts `refcount`, `dl_refcount`, `neededrefcount`, `dlclosing`, the flag `initfinilock`, `relocstate`, resolved `needed` entries, `dldags`, `dagmembers`, remaining constructors and destructors; `_rtld_objrelocpending`, `_rtld_objgen` | `dlopen`, `dlclose`, `_rtld_load_needed_objects`, `_rtld_init_dag`, `_rtld_relocate_objects`, `_rtld_call_init_functions`, `_rtld_call_fini_functions`, `_rtld_unload_object` | under the exclusive lock, given up around constructors, destructors, ifunc resolvers and three kinds of wait | no use of a freed object; counts never too low; constructors and destructors in order and once; what fails takes nothing with it; every call returns |
| symbol lookup, versions (`symbol.c`, `symver.c`) | none of its own | `_rtld_symlook_*`, `_rtld_verify_*` | walks `dldags`, `dagmembers`, `needed` under the shared lock | finds the definition in load order; meets no freed object |
| thread-local storage (`tls.c`) | DTV of each thread, generation, largest index, static offset | `_rtld_tls_get_addr`, `_allocate`, `_free`, `_offset_allocate` | exclusive lock; called while mapping and relocating | a thread's block of a module is its own and that of the module; static space not exceeded |
| start-up and exit (`_rtld`, `_rtld_exit`) | as above | load the program, forced destructors | single threaded at start | every object relocated before a constructor runs |
| `atexit`, `__cxa_finalize`, `exit` (`libc/stdlib/atexit.c`, `exit.c`) | list of handlers in static slots and heap nodes, `call_depth`, a recursive mutex | register, finalize, exit | called from destructors and by handlers themselves | each handler once, newest first; no freed node is used; finalization ends |
| stdio (`libc/stdio`) | per `FILE` the flags, `_p`, `_r`, `_w`, `_lbfsize`, buffer, ungetc buffer, cached offset | getc, putc, ungetc, fread, fwrite, fflush, fseek, ftell | read, write and lseek on the descriptor, which may do less than asked or fail | the stream is a file of bytes with a position; the counters allow no access outside the buffer |
| page cache of db (`libc/db/mpool`) | hash and LRU queues, pins, `curcache` | get, new, put, delete, sync | used by btree, hash, recno | a pinned page is not evicted, a dirty one is written |
| other libc parts, headers, start-up files | | | | library functions without shared protocol |

Hard behaviours: readers, writers and signal handlers meeting on three words
without a queue; threads that give up the lock in the middle of a pass over a
list that others change; objects that die while another thread wants them;
failure in the middle of loading; progress when everybody waits by starting
over; constructors and exit handlers that call back into the code that runs
them; vectors that are older than the set of modules; short and failed
transfers between a buffer and its file. `PROJECT.json` lists them as hazards, each at its line.

## 2. Modules

| module | models |
|---|---|
| `RwLock` | what callers assume of the lock: acquire and release, shared (nested) or exclusive, one step each |
| `RtldLock` | the code of the lock; INSTANCEs `RwLock` to state that it implements it |
| `RtldObjects` | `dlopen` and `dlclose` by several threads, and by constructors and destructors; `RTLD_NODELETE`; `__dl_cxa_refcount` |
| `RtldTls` | thread-local storage: module indices, static storage, dynamic thread vectors |
| `ExitHandlers` | what callers assume of the exit handlers: a stack |
| `Atexit` | the code of `atexit`, `__cxa_finalize`, `exit`; INSTANCEs `ExitHandlers` |
| `ByteStream` | what callers assume of a stdio stream: a file of bytes, a position, pushed back bytes |
| `Stdio` | the code of a stdio stream; INSTANCEs `ByteStream` |
| `RtldLockProofs`, `RtldObjectsProofs`, `RtldTlsProofs`, `AtexitProofs`, `StdioProofs` | the theorems about the module of that name (section 4) |
| `RtldObjectsCalls` | further theorems about `RtldObjects`: its functions, relocation, destructors |
| `RtldObjectsInv`, `RtldObjectsQuiet` | the inductive invariant of `RtldObjects`, and the lemmas `RtldObjectsProofs` rests on |
| `MCRtldLock`, `MCRtldObjects`, `MCRtldScript`, `MCRtldTls`, `MCAtexit`, `MCStdio` | instances for TLC |

### RtldLock

Each action is one access to a shared word: a load, a compare-and-swap, a
swap, a park or unpark. A *context* is a thread's main flow or the handler
that interrupts it; while a handler runs, the main flow of its thread does
not. `cur` and `waiter` are the C locals, `depth` counts the shared sections a
context is inside (ghost), `masked` are the threads that have blocked their
signals. `mutex` is the reader count, or `Mask` plus the owner's id; `Mask` is
2^31 in the code and a parameter here, larger than any reader count.

`_rtld_exclusive_enter` blocks every signal but SIGTRAP ("Allow the debugger",
`rtld.c` 2400). `Signal` therefore delivers any signal to a thread that has
blocked none, and SIGTRAP to every thread; its handler makes one lazily bound
call. A handler of SIGTRAP that does so on top of its own thread's exclusive
section gets "dead lock detected" and the process ends (`dead`).

`_lwp_park` and `_lwp_unpark` are stubs in `libc/sys/lwp.c` (75-86) that return
at once, so waiting is spinning; `ParkModes = {FALSE}` says so. With
`ParkModes = {TRUE}` a park sleeps until an unpark comes, as `_lwp_park(2)`
documents; the code around it is written for that.

Left out: the branch on `_rtld_mutex_may_recurse` (`rtld.c` 2346; nothing in
the repository sets the flag), memory barriers (the model is sequentially
consistent; on x86_64 the atomic operations are full barriers, and
`_rtld_exclusive_exit` has a `membar_sync` after its plain store). Assumed of
the callers: nobody asks for the exclusive lock inside a shared section
(a `dl_iterate_phdr` callback that calls `dlopen` would), and handlers only
take the shared lock. A handler is not interrupted by a second one of its
thread.

### RtldObjects

The lock is one variable here: the refinement proved for `RtldLock` justifies
it. A thread holds it from step to step and gives it up in `Call` (around a
constructor, destructor or ifunc resolver), and in the waits `LoadWait`,
`ByNameWait` (`_rtld_wait_for_fini`), `CallWait` (`_rtld_wait_for_fini`,
`_rtld_initfini_enter`), `Closing` and `FreeWait`
(`_rtld_wait_for_load_needed`). Because `_lwp_park` returns at once, a wait is:
release, take the lock again at some time, start over; the waiter fields only
feed an unpark that does nothing and are left out.

| code | actions |
|---|---|
| `dlopen`, `_rtld_load_library`, `_rtld_load_object` | `Dlopen`, `LoadFail`, `LoadWait`, `LoadNew`, `LoadOld` |
| `_rtld_load_needed_objects`, `_rtld_load_by_name` | `Scan`, `Need`, `ByNameWait`, `ByNameOld`, `ByNameNew`, `ByNameFail` |
| `_rtld_init_dag`, versions, `_rtld_relocate_objects`, failure | `Dag`, `Relocate`, `OpenFails` |
| `_rtld_ref_dag`, `RTLD_NODELETE` at the end of `dlopen` | `AfterResolved`, `RefDag`, `RefDone`, `Pin`, `Opened` |
| `_rtld_call_init_functions`, `_rtld_call_fini_functions` | `Sort`, `Skip`, `CallWait`, `Call`, `Return`, `Initialized`, `Finalized` |
| `__dl_cxa_refcount` | `CxaRef`, `CxaUnref` |
| `dlclose`, `_rtld_unref_dag`, `_rtld_unload_object` | `Dlclose`, `Unref`, `StillReferenced`, `Closing`, `Undag`, `Free`, `FreeWait`, `Unloaded` |

Actions are finer than the code where it holds the lock (a recursion is a
stack in `work`, one visit a step), which changes nothing for other threads.
An `Obj_Entry` is identified with its library: the lookup that finds none and
the insertion happen under one hold of the lock, so there is at most one. A
pointer that still leads to a freed `Obj_Entry` when its library has been loaded
again is taken for one to the new entry, where the code would as a rule have two
addresses; the properties about freed objects look at the state before that.
Objects found listed with reference count 0 are being destroyed. `stale` is
the set of calls whose `cur_objgen` differs from `_rtld_objgen`: the value of
the counter does not matter, only the comparison. A constructor or destructor
of a library in `Callers` may call `dlopen` and `dlclose`: `th` is the
thread's innermost call, `outer` the stack of the calls around it, and `TSort`
leaves out the objects whose functions this thread is running and all that
need them (`init_blocked`). `left` counts the ifuncs,
constructors and destructors not yet called (`init`, then `init_array`).
`handles` is what callers may pass to `dlclose`; callers close only handles
they have.

Data abstracted: paths, files and ELF contents become the constants `Needs`
(DT_NEEDED in order, each library once), `Unloadable`, `BadVersion`, `BadReloc`, `InitFirst`,
`NoDelete` and `FnCount`. `dtors` is the number of thread-local destructors
that threads have registered and not yet run (`libc/stdlib/cxa_thread_atexit.c`);
the functions that register them are called by someone who has the library
open. From a constructor or destructor of a library that has been closed in the
meantime `__dl_cxa_refcount` would raise a count of 0, which the assertion at
`rtld.c` 2176, compiled out, rules out; with such callers `NeverUndercounted`
fails. Left out: `RTLD_GLOBAL`, `RTLD_NOLOAD`, `dlopen(NULL)`,
`Library_Xform`, cyclic DT_NEEDED entries (on which `_rtld_ref_dag` does not
end), the main program as a member of the list.

### RtldTls

Each object with a TLS segment has an index, given when it is mapped and never
used again, and possibly an offset in static storage. Start-up maps and places
the initial objects (`MapInitial`, `PlaceInitial`) and fixes the static space
(`InitialAllocation`); then `dlopen` maps an object (`Dlopen`) and later takes
up its relocations (`StartRelocation`), those that ask for static offsets, of
itself and of other objects, one by one (`RelocateTpoff`, `RelocateFails`), and
ends (`Relocated`). The relocations are one hold of the exclusive lock; between
mapping and relocation `_rtld_wait_for_fini` (`rtld.c` 456) may give it up, so
that other threads are created, renew their vectors, load and unload while the
object is mapped and not relocated. `CreateThread`, `ExitThread` and `GetAddr` are the operations of
threads; the fast path of `__tls_get_addr` changes nothing. An address is a
static offset or the number of the load a block was allocated for, so that a
block left over from an unloaded object differs from a new one.

Abstracted: contents of the storage. Variant II layout only (x86_64). Every
segment has a size of at least 1. `plain` says whether an object without
segment is loaded at start-up: it has index 0 and overwrites the size field of
the vector while this is built. Dynamic blocks are freed when their thread
ends and not at `dlclose`, as in the code; the comment at `tls.c` 671-674 says
otherwise (finding 11).

### Atexit

`node` are the list entries, the first `NStatic` of them the static slots;
`heap` are those malloc has handed out. A thread's `frames` are its calls of
`__cxa_finalize`, innermost first, with their locals. The mutex is recursive,
so the thread that runs a handler may register, finalize and exit from it while
other threads wait; handlers do any of these, in any order, within the bounds.
`Sweep`, `Call`, `HandlerReturns` are one turn of the loop up to the call of a
handler and from its return; `Retire` unlinks a heap node onto the list of
those to be freed, or steps over a static slot; `Unlock` and `Return` are the
end, where `call_depth` is read after the mutex has been released.

`exit` is `__cxa_finalize(NULL)`; its calls of `__cxa_thread_run_atexit` and
`__cleanup` are outside.

### Stdio

`f` is the `FILE` with the file and offset behind its descriptor. A call holds
the stream's lock and is one action, except that each turn of the loops of
`fread` and `fwrite` is one (`FreadStep`, `FreadDirect`, `FwriteStep`).
`fflush(NULL)`, and the flush of line-buffered streams by another stream's
`__srefill`, go through `_fwalk`, which takes no stream's lock (`fwalk.c` 61-64):
`Fflush` with `all` may therefore come between two turns of an `fread` or
`fwrite` of another thread. Inside a turn it would be a data race, and that is
left out. The results of read and write are chosen by the environment: up to the
number of bytes asked for, or an error. `dir` keeps the program to the rule of
the C standard that reading and writing have a seek or flush between them.

`kind` is the buffering: what `setvbuf` asked for right after opening, or what
`__smakebuf` will choose when it makes the buffer: full, line if STDBUF says so,
none if STDBUF says so or malloc fails. `BufSize` is the size that STDBUF,
`setvbuf` or `st_blksize` gives, `BlkSize` is `st_blksize`, which `fseeko` rounds
to. `Made` (`__smakebuf`) sets no counter; `__swsetup` does that for a buffer it
makes. `fseeko` makes one without it, and if it is line buffered and the stream
open for writing, `_lbfsize` stays 0 against `stdio.h` 91-94: a *misfit* stream.
Its `_w` no longer tells how full the buffer is, and `fwrite` may copy past the
end (`fvwrite.c` 204-219). What memory holds after that the model does not say:
`Overrun` is a state of its own in which nothing further happens (finding 12).

`ByteStream` has no buffer: `data` is the file the program has written,
`input` what it will read next, `tell` its position. `Stdio` maps the bytes
still in the write buffer into `data`, and the ungetc buffer, the read buffer
and the rest of the file into `input`.

Left out: append mode, `setvbuf` later than right after opening, `fclose`,
`fgetln` and other users of `__SMOD`, wide characters, `printf` and `scanf`,
string streams, terminals, descriptors without seek.

## 3. Runs

| run | instance | checks |
|---|---|---|
| `rtld_lock` | 2 threads, 2 operations each, depth 2, 2 signals of any kind, park as in `lwp.c`; 203,699 states | types, exclusion, lock word, dead lock report, nothing left behind, everybody enters, implements `RwLock` |
| `rtld_lock_park` | 3 threads, 1 operation each, sleeping park, no signals | exclusion, nothing left behind, no lost wake-up |
| `objects` | 3 threads, two of them with 2 calls and one with 1, 4 libraries with shared dependencies, b with two constructors and INITFIRST although it needs d, functions of b and d that call `dlopen` and `dlclose`, c with an ifunc and opened with `RTLD_NODELETE`, a with a thread-local destructor; 1,222,737 states up to symmetry of the two threads | counts, lifetimes, one function of an object at a time, order of constructors and destructors |
| `objects_fail` | 3 threads, 2 calls each, 7 libraries, of which one cannot be loaded, one has a wrong version, one cannot be relocated, one is marked NODELETE; 1,215,932 states up to symmetry of the threads | the same after failures, and exact `dl_refcount` |
| `tls` | 2 threads, 2 initial objects, 3 libraries, 5 loads, a static reserve of 3; 261,535 states | static storage disjoint, inside the space and aligned; static and dynamic access agree; a vector holds the thread's own blocks of the present load; no block is lost; addresses do not change |
| `atexit` | 2 threads, 2 libraries, 4 registrations, 2 static slots, 2 heap nodes, 2 finalizations and exit; 380,913 states | no freed node in use, when a list can be cyclic, implements `ExitHandlers`, finalizations return |
| `stdio` | files of up to 4 bytes, buffers of 3 with blocks of 2, ungetc buffers of 1 and 2, transfers of up to 3, `setvbuf` or not, each kind of buffering; 269,330 states up to the view | counters safe, cached offset right, implements `ByteStream` |
| `objects_dags`, `objects_needed`, `objects_reloc`, `objects_hang` | 1 or 2 threads, 2 to 5 calls | four statements of comments and assertions that the code does not keep, see below |
| `objects_gen` | 4 threads, 8 calls in a given order, 6 libraries | a fifth one |

Bounds. The lock's waiter words hold one id, so three threads are what it
takes for a waiter to displace another that is displaced in turn; with two
threads and two handlers there are four contexts. Depth 2 has a nested
section. For the objects, two calls per thread are an open and a close of one
library by each, or of each other's (in `objects` the third thread has one);
three threads are one that loads, one that destroys and one that waits for
either. In `Shared` a needs b, b needs d
and c needs d, so an object is a root of its own and a member of two other
DAGs, and is freed in a collection for another root. All bounds are constants
(`MaxOps`, `MaxDepth`, `MaxSignals`, ...). A nested call uses one of its
thread's two calls: a constructor of b that opens a, which needs b, meets the
blocked case of the sort, and since d may call too and b, which needs d, has two
constructors, so is an object whose constructors are put off when one of them
has run. b is INITFIRST and needs d, which is not: its constructors come before
d's. For TLS, five loads let a library be unloaded and
loaded again while another thread's vector still has the old entry, and exhaust
the reserve of 3; the other thread comes and goes between any two steps. For atexit, two slots and two nodes let both kinds run out,
and four handlers allow one that registers a handler from a handler. For stdio,
a buffer of 3 in a file of 4 has a full, a partial and an empty buffer, a seek
inside it, to a block boundary inside and beyond it, an ungetc buffer that is
moved to a larger one, and room for the two bytes it takes to mislead `fwrite` on
a misfit stream.

`MCStdio` uses a VIEW (`StreamView`) without `call`, which no action reads; without
`__SERR`, which only `clearerr` looks at, to clear it; without the bytes of the
buffer beyond those read or written; without `__SNPT` of a stream that may be
written (`fseeko` asks for that first) and without `dir` of a stream that is not
open for both. States that differ in these alone have the same futures up to
these, and the action property is evaluated on every step, also to a state seen
before.

Fairness. `RtldLock`: weak fairness of each context's steps, i.e. the kernel
runs every thread and sections end. `RtldObjects`: weak fairness of each
thread's steps; strong fairness of taking the lock again (`Relock`, `Return`),
since the lock is a spin lock that is free again and again, and a scheduler
does not make one thread lose every time; constructors end. No fairness is
assumed for starting operations, signals or calls. `Atexit`: weak fairness of
each thread's `Finalizing` steps, that is, handlers return and the thread that
holds the mutex runs. `RtldTls` and `Stdio` have safety properties only.

### Findings

1. `objects_gen` (`GenerationTells`). The collection loop gives up the lock to
   wait, with objects already freed, and increments `_rtld_objgen` only at its
   end; another thread then goes on with an init or fini list that has a freed
   object. `NoUseAfterFree`, which the other runs check, leaves out the lists of
   other threads while a collection is interrupted; what the program does once
   it has used such a list is undefined, and the model reads the entry of a
   library that is not loaded. The situation takes four threads, more than TLC
   can explore with every choice of calls, so the run fixes the calls and leaves
   the interleaving of their steps open.
2. `objects_dags` (`DagsLive`). A freed object that was the root of a DAG stays
   in the `dldags` of its live members; one thread and five calls suffice.
3. `objects_needed` (`NeededLoaded`). An object is relocated, initialized and
   returned while another thread is still waiting to load what it needs.
4. `objects_reloc` (`CallsRelocated`). The constructor of an object whose
   relocation failed is called by another `dlopen`. The same property holds in
   `objects`, where nothing fails.
5. `objects_hang` (`AllReturn`). After a failed `dlopen` an unreferenced object
   stays listed because another `dlopen` was in its constructor; nobody
   collects it and that `dlopen` starts over for ever.

Seven more came up while modelling and are not runs of their own, to keep the number of
runs small; the models contain the behaviour and the properties say what they leave
out.

6. `__dl_cxa_refcount` refuses every decrement: `-1 + (size_t)-(delta + 1)` is
   `SIZE_MAX` for -1 (`rtld.c` 2172). A library with a thread-local destructor
   is never unloaded. With the test corrected TLC finds the count below zero
   (`TypeOK` of `RtldObjects`), because `_rtld_unload_object` drops the
   reference a second time (2182-2184).
7. `atexit_handler_alloc` takes the bottom static slot for free while its
   handler is running; a handler that registers another then makes the list a
   cycle, in which the order of the handlers is not kept and a nested
   finalization of one library does not end. `CyclicOnlyAtExit` shows that this
   takes an exit under way; `CallsInOrder` and `FinalizeReturns` except cyclic
   lists.
8. `fread` on an unbuffered stream loses pushed back bytes (`fread.c` 88);
   `BehavesAsFile` excepts that call (`FreadDropsPushback`). It also excepts
   calls that report, or cause, the loss of buffered bytes in a write error:
   `ftell` and `fseek` relative to the position ignore a failed flush.
9. A `dlopen`ed initial-exec object with a large alignment raises
   `_rtld_tls_static_max_align` after the static space was laid out (`tls.c`
   583); `StaticPlaced` claims aligned addresses for the start-up objects only.
10. `dlopen` of a loaded object with nothing pending builds no DAG, so `dlclose`
    of it marks only the root. While it waits, another `dlclose` frees a
    dependency that the root, still listed, points to, and the next sort follows
    that `needed->obj` (`rtld.c` 1332-1334). The comment at `rtld.c` 1545 says this
    is avoided. In `objects_fail` there is a second way: a failing `dlopen` drops the
    last reference to an object that another `dlopen` is initializing, passes over
    it because of its `initfinilock`, and frees what it needs; the sort after the
    constructor's return follows the pointer. `Uses` has the `needed->obj` pointers
    of every listed object that is referenced or in a marked DAG (`Protected`);
    `NoUseAfterFree` excepts those of the others, which are these two cases.
11. `tls.c` 671-674 says that entries of a vector "are only freed on dlclose()".
    They are freed when their thread ends, and never at `dlclose`; `NoLeak` states
    that.
12. A seek as the first call on a stream opened for writing, with line buffering
    by STDBUF (or on a terminal), makes a misfit stream, and after some `putc` an
    `fwrite` overruns its buffer. `BufferSafe` shows that only misfit streams are
    overrun; `TypeOK` and `BehavesAsFile` hold up to there.

Statements that are tempting and do not hold, and that no document makes: that
reference counts are exact (two threads may count the same DT_NEEDED entry),
that a handle is returned only when the constructors have returned (another
thread may be running them), that destructors are ordered across two
concurrent `dlclose` calls, that a destructor runs only after the constructors
(a `dlopen` in a constructor returns handles to objects whose constructors are
put off, and another thread may close them), that all constructors of an object
have run or none when its destructor runs (`_rtld_objgen` may change between two
of them), that an INITFIRST object waits for those it needs (`rtld.h` 220 says
that it takes priority), that `_rtld_objrelocpending` is
the number of listed objects not relocated.

## 4. Proofs

Each proof module EXTENDS the module it is about. Its theorems hold for every
value of the constants that satisfies the named assumption of that module; TLC
evaluates the assumption on every run. The layout is the same everywhere: an
inductive invariant `IInv` as a conjunction of named parts, that `Init` implies it, one
lemma per action (or group of actions that change the same things), that `Spec`
implies `[]IInv`, and the properties as consequences. TLC checked
each `IInv` on the instance of the component's run before it was proved.

| module | theorem | states |
|---|---|---|
| `RtldLockProofs` | `TypeCorrect`, `LockWordCorrect`, `Exclusion`, `DeadlockReportSound`, `NothingLeftBehind` | `TypeOK`, `LockWord`, `MutualExclusion`, `NoFalseDeadlock`, `QuiescentClean` |
| | `Refinement` | `Implements`: `RtldLock` implements `RwLock` |
| `RtldObjectsProofs` | `TypeCorrect`, `CountsSufficient`, `MembersStayLive`, `HandlesCounted` | `TypeOK`, `NeverUndercounted`, `MembersLive`, `DlrefExact` |
| | `NoDanglingLocals` | `LocalsListed`: the pointers to objects that a call keeps lead to objects not freed, and so do handles |
| `RtldObjectsCalls` | `FunctionsExclusive` | `OneAtATime` |
| | `HandlesUsable`, if `BadReloc = {}` | `HandleUsable` |
| | `DestroyedStaysDead`, where `NoUseAfterFree` holds | `FiniDead` |
| `RtldTlsProofs` | `TypeCorrect`, `StaticStorageCorrect`, `AccessModelsAgree`, `EntriesBelong`, `BlocksAccounted` | `TypeOK`, `StaticPlaced`, `ModelsAgree`, `OwnBlock`, `NoLeak` |
| | `AddressesStable` | the action property `AddressStable` |
| `AtexitProofs` | `TypeCorrect`, `EntriesNotFreed`, `CyclesOnlyAtExit` | `TypeOK`, `NoUseAfterFree`, `CyclicOnlyAtExit` |
| | `HandlersInOrder` | `CallsInOrder`: `Atexit` implements `ExitHandlers`, except for steps from a cyclic list |
| `StdioProofs` | `TypeCorrect`, `BufferSafety`, `OffsetCorrect` | `TypeOK`, `BufferSafe`, `OffsetKnown` |
| | `StreamIsFile` | `BehavesAsFile`: `Stdio` implements `ByteStream`, except for calls that lose bytes in a write error, `fread` of an unbuffered stream with bytes pushed back, and an overrun of a misfit stream |

### The lock

`LockAssumption` says that thread ids and the number of shared sections there
can be fit below the mask bit, as the code takes for granted. The theorems hold
for every finite set of threads, every `Mask`, depth and number of operations
and signals, and for both kinds of park.

None of the invariants is inductive alone. `MutualExclusion` follows from
`LockWord`: the lock word equals the number of shared sections, or names the
one owner. `LockWord` needs to know, at each control point, what the context
has and has not: a context at `sx_dec` is inside a section (so the word is
positive and not exclusive when it decrements), a handler never is on the
exclusive path, and a thread on the exclusive path has its signals blocked, so
that a handler above it is one of SIGTRAP. That is `Control`; `IInv` is
`TypeOK /\ LockWord /\ Control /\ NoFalseDeadlock`. A context that finds its own
thread's id in the lock word cannot be the main flow, which is at a label of the
exclusive path then, so it is the handler. The lemmas on `Holds` give the
cardinality of the set of sections when one is entered or left. `Refinement`
maps each action to a step of `RwLock` or to none.

`QuiescentClean` (when everybody is out, no waiter word names anyone) needs
`Queued`: a waiter word that is not 0 names a context that is still between
announcing itself and taking its name back. A word may be overwritten by the
next waiter, so this is about some context with that id, not the one that
wrote the word first.

### Loading and unloading

`ObjectsAssumption`: the sets of libraries and threads are finite, an object
names no library twice in DT_NEEDED, `SIZE_MAX` is at least 2. The theorems
hold for every set of libraries and every relation between them, also a cyclic
one, for every choice of libraries that cannot be loaded or relocated, and
for constructors that call `dlopen` to any depth.

`NeverUndercounted` is a statement about states in which nobody has the lock,
and each count is changed in many small steps, so the invariant follows every
count through every step:

- `Counts`: `dl_refcount` is the number of handles and of `dlopen` calls past
  the load, `neededrefcount` the number of calls that load what the object
  needs, `dlclosing` the number of `dlclose` calls that have marked it. They are
  sums over all calls of all threads, the outer ones of nested calls included;
  `Moves` and `Recount` say how such a sum changes when one call changes.
- `References`: `refcount` is at least the `dl_refcount`, plus one for a
  `cxa_refcount`, plus one for each live object that has it as a resolved
  DT_NEEDED entry, plus `Due`, what the recursion of `_rtld_unref_dag` has still to
  drop; and one more for an object marked `nodelete`, unless the recursion that
  pins it has not got there yet (`Pinning`).
- `Members`: an object's DAG members can be reached from it through live
  objects. `Reach` is stated with closed sets, so no path is ever built, and a
  count that falls to 0 takes the object out of every such set at the same
  time as its own needs become `Due`.
- `Working`: what the thread with the lock has in its hands in `_rtld_init_dag`,
  `_rtld_ref_dag`, `_rtld_unref_dag` and the walk over the list.
- `RootsDead`, `Unlisted`, `Distinct`, `Pending`, `Dtors`, `StaleOK`: a closing
  root stays at count 0; what is not listed is as new; a library is listed
  once; the relocation counter covers what is unrelocated.
- `Data`, `Frames`, `Stacks`, `Locals`: the types, who may be without the lock
  where, and what the locals are at each control point. `Frames` says of the init
  and fini lists only that they are something: no other part depends on them.

`MembersLive` is `Members` with `Reach` unfolded at the set of live objects, and
`LocalsListed` follows since whatever is counted has a count above 0 and
what is not listed has none. `RtldObjectsInv` has the invariant and lemmas about sums and
lists, `RtldObjectsQuiet` the actions that change no reference,
`RtldObjectsProofs` the others and the theorems.

`RtldObjectsCalls` adds three invariants to `IInv`, each inductive together
with it, and checked by TLC on `objects` before they were proved:

- `RunOK` and `HeldOK`, for `OneAtATime`: `initfinilock` of an object is the
  thread of the only call that runs a function of it, or nobody's when there is
  none. A resolver or constructor is called only for a referenced object, and
  one that is not listed has no reference; the collection passes over objects
  with an `initfinilock`.
- `RelocInv`, for `HandleUsable`: the root of a `dlopen` is relocated from the
  relocation on, and not new (`OBJRELOC_NOTYET`) once its DAG has begun to be
  built. The shortcut at `rtld.c` 1704 is covered by the part `Pending` of
  `IInv`: with nothing pending, no listed object is unrelocated. `BadReloc = {}`
  is needed: an object that failed to be relocated in one `dlopen` is found by
  another one, as `objects_reloc` shows, and a handle for it is returned.
- `DeadInv`, for `FiniDead`: besides `FiniDead`, that an object whose
  destructor runs is listed and unreferenced, and that one not listed has all
  its destructors before it. That the object is listed when its destructor is
  called is a fact about the fini list, so the theorem has `[]NoUseAfterFree` as
  a hypothesis. It cannot be dropped: by `objects_gen` a list may have a freed
  object.

What each step does to functions and relocation is stated once: `KeptNext` (all
steps but five leave them alone and do not revive a dead object) and `StepMoves`
(which call a step changes, and how).

### Thread-local storage

`TlsAssumption`: alignments divide one another, which is what it means for them
to be powers of two (`tls.c` 586-591 asserts it). `IInv` has six parts: `Types`;
`Modules` (an index is given to one module only); `Relocating` (what a `dlopen`
in progress still refers to is loaded); `Layout` (static storage is handed out
in one direction, so a new block ends where no old one begins); `Vectors` (a
vector of the current generation is as long as the largest index, and an entry
for a loaded module was made for this load of it); `Blocks`. `OwnBlock`
follows from `Vectors`: what an unloaded module has left in a vector, however
old that is, stands at an index that no later module gets.
`StaticPlaced` rests on the lemmas on `roundup2`: a multiple of the largest
alignment is a multiple of every smaller one.

### Exit handlers

For the safety of memory the list is not described as a sequence: the invariant
speaks of the nodes not freed (`Live`) and where their pointers lead:
`Pointers` (into `Live`, and a heap node has one predecessor), `DeadOnes` (an
entry that waits to be freed is off the list, and only the outermost call of
`__cxa_finalize` has any), `Walks` (while a handler runs, its entry is still the
one that follows `prevp`, in the outermost call), `Nesting` (which calls hold the
mutex and how deep they are), `SlotsOK` and `NoCycle`. `NoUseAfterFree` follows
because a node is freed by the outermost call after it left the list, when no
inner call can have met it.

`CyclicOnlyAtExit` is about `Nth`, a recursive function. That `NoCycle` (every
set of live nodes has one whose successor is outside) implies it is shown with
the pigeonhole principle: a list longer than there are nodes would visit one
twice. Where a fact is needed for every `n`, it is proved by taking the least
counterexample, as a set of numbers and not as an operator.

`HandlersInOrder` needs the list as a sequence after all. `ListIs(s, n)` says that `s`
is the list's `n` nodes in order and that the last leads to none or back to one of
them, so it also describes a list with a cycle, which `Ends` tells apart and
which a step of `exit` may take apart again. `Collects(q, s, n)` relates the nodes to
the pending entries of the abstract specification, one place at a time; what
unlinking, linking and clearing an entry do to it (`CollectsDrop`, `CollectsNew`,
`CollectsClear`) is proved once. The invariant on top of `IInv`:

- `WalkOrder`, for each call of `__cxa_finalize` on any thread's stack: it has passed
  the first `k` nodes, and none of them is to be called by it. For a call whose
  handler is running this is only claimed while the stack top is the one it saw
  (`p`). This is the restart test of the code (`atexit.c` 225); a handler that
  registers another changes the top, and since `p` was on the list before, no new
  entry can make it equal again unless the list becomes cyclic.
- `AfterExit`: while `exit` has released the mutex and has not returned, the list has
  no cycle and none of its slots has been called, so that a registration in that
  window cannot link a slot twice.
- `Exits`: there is one call of `exit`; when it is outermost it is always at the top.

Each action is then a step of `ExitHandlers` or leaves both of its variables alone.

### Streams

`StdioAssumption`: the static ungetc buffer is smaller than the first one from
malloc. The operators of `Stdio` map streams to streams, so the invariant is a
predicate `Good` on streams, with one lemma per operator (`SflushFacts`,
`SrefillFacts`, `SwsetupFacts`, ...) and one per call. `Good` says which of the two
counters is in use in each mode and what it counts: `_w` is the room left in a
full buffer and minus what a line buffer holds; with an ungetc buffer `_r` counts
that and the saved counters the rest. Of a misfit stream (`_lbfsize` 0) it says
that `_w` is not positive, accounts for no more bytes than the buffer holds, and is
negative if there are any. That is enough for `putc`, which then always goes
through `__swbuf` and its test of `_p`, and too little for `fwrite`, whose turn
either stays in the buffer or is the overrun. `fflush(NULL)` keeps `BusyOK`: the
turns that follow find an empty buffer that is set up for writing. `DirOK` is the rule that a program does
not write after it has read without a seek or flush in between, so that a
stream open for both never starts writing with bytes left to read. `BusyOK` and `Fits` describe
`fread` and `fwrite` between two turns of their loops.

`StreamIsFile` compares what the program sees of two streams: `DataOf`, `TellOf` and
`InputOf` are `Data`, `Tell` and `Input` of any stream, and `SameView` says that two streams
agree on them. Most operators leave the view alone (`SflushView`, `FillView`,
`StartReadingView`, `KnowOffsetView`, `ReadyView`); `Taken`, `Pushed`, `Store`, `Swrite`, `Dumb` and
`Optimised` change it as `ByteStream` says. Under them are lemmas on parts of sequences:
adjacent parts make up one (`AdjacentParts`), two writes in a row are one
(`OverwriteTwice`), equal bytes are equal pieces (`SamePiece`). `Good` speaks of counters
only, so the invariant needs a second part, `More`, about the bytes:

- `EndOK`: `__SEOF` is set only where the input ends; `__srefill` returns at once if it is
  set.
- `ReadAhead`: the buffer of a stream that is only read equals the file before the
  descriptor's offset, the bytes already read included. A seek inside the buffer moves
  `_p` back over them.
- `MadeOK`: what has no buffer yet has nothing in it, so that `__smakebuf`, which sets
  `_p`, moves nothing.

`LeftOK` says that an `fread` in progress has something left to read. A call is
a step of `ByteStream`, or has call `lost`, or shows the program nothing (`Abides`).

### Only model-checked

- Liveness: `EveryoneEnters`, `AllReturn`, `FinalizeReturns`. The prover has no
  rules for fairness.
- `FiniAfterInit`, `CallsRelocated`, `InitAfterNeeded` of
  `RtldObjects`, and the part of its `NoUseAfterFree` about init and fini lists.
  They depend on what the topological sort puts on a list: a fold over the
  objects, again an induction over data.
- That the hypothesis of `DestroyedStaysDead` holds: `NoUseAfterFree` on
  `objects` and `objects_fail`.

## 5. Plan

Done: the lock, its refinement and proofs; `dlopen` and `dlclose`, nested
calls, `RTLD_NODELETE` and `__dl_cxa_refcount`; thread-local storage; exit
handlers; stdio streams; proofs of the safety properties of the lock, of
thread-local storage, exit handlers and streams, and of the counts, lifetimes,
functions and relocation of objects; proofs that the lock, the exit handlers and
the streams implement their abstract specifications.

Next: what the lists of the sort contain, as far as it follows without
induction.

Further modelling, if the project grows: `RTLD_GLOBAL` and `dlopen(NULL)`, the
forced destructor pass of `_rtld_exit`, symbol lookup order over DAGs, the page
cache of db (`libc/db/mpool`: pins, LRU, write-back).

## 6. Not modelled

Relocation arithmetic, ELF parsing, path search, string and number conversion,
regular expressions, locales, hashes: pure functions on data that no protocol
shares. The resolver, RPC, time zones, gdtoa, jemalloc: third-party code. The
access methods of db: sequential data structures of several thousand lines.
Thread stubs, system call wrappers, start-up files, headers: no state.
`PROJECT.json` lists every component with its reason.
