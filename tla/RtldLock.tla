------------------------------ MODULE RtldLock ------------------------------
(***************************************************************************)
(* The reader/writer lock of the dynamic linker (ld.elf_so/rtld.c, from    *)
(* _rtld_shared_enter to _rtld_exclusive_exit), one action per access to   *)
(* a shared word.                                                          *)
(*                                                                         *)
(* A context is a thread's normal flow ("main") or the signal handler that *)
(* interrupts it ("handler"), one at a time.  Handlers only take the       *)
(* shared lock: that is what a lazily bound call made in a handler does    *)
(* (_rtld_bind).  The exclusive section blocks every signal but SIGTRAP.   *)
(* The main flow takes either lock and may nest shared sections, as a      *)
(* callback of dl_iterate_phdr that calls dlsym does; it does not ask for  *)
(* the exclusive lock inside a shared section.                             *)
(***************************************************************************)
EXTENDS Integers, FiniteSets

CONSTANTS Threads,      \* lwp ids, as _lwp_self() returns them
          Mask,         \* RTLD_EXCLUSIVE_MASK (2^31 in the code)
          ParkModes,    \* does _lwp_park sleep?  {FALSE} as lwp.c has it,
                        \* {TRUE} as _lwp_park(2) says
          MaxDepth,     \* bound: nested shared sections of one context
          MaxOps,       \* bound: lock operations a thread's main flow begins
          MaxSignals    \* bound: signals delivered in a behaviour

ASSUME LockAssumption ==
    /\ Mask \in Nat /\ MaxDepth \in Nat \ {0} /\ MaxOps \in Nat /\ MaxSignals \in Nat
    /\ ParkModes \subseteq BOOLEAN
    /\ IsFiniteSet(Threads) /\ Threads \subseteq 1 .. Mask - 1
    /\ 2 * Cardinality(Threads) * MaxDepth < Mask

VARIABLES mutex,            \* _rtld_mutex: reader count, or Mask + owner
          waiterExclusive,  \* _rtld_waiter_exclusive, 0 for nobody
          waiterShared,     \* _rtld_waiter_shared, 0 for nobody
          pc,               \* where each context is
          cur, waiter,      \* each context's locals of those names, 0 when not in use
          depth,            \* shared sections each context is inside
          masked,           \* threads that have blocked every signal but SIGTRAP
          unparked,         \* threads with an undelivered _lwp_unpark
          parkBlocks,       \* the behaviour's park mode, never changed
          ops, signals,     \* operations and signals left
          dead              \* _rtld_die() was called

vars == << mutex, waiterExclusive, waiterShared, pc, cur, waiter, depth, masked,
           unparked, parkBlocks, ops, signals, dead >>

words == << mutex, waiterExclusive, waiterShared >>
locals == << cur, waiter >>
budget == << ops, signals >>

Ctx == Threads \X {"main", "handler"}
Lwp(c) == c[1]
Main(t) == << t, "main" >>
Handler(t) == << t, "handler" >>

IsExclusive(m) == m >= Mask
LockedValue(c) == Mask + Lwp(c)

Labels == { "idle", "s_load", "s_cas", "s_swap", "s_check", "s_check2", "s_park",
            "s_dequeue", "s_wake", "sx_dec", "sx_read", "sx_wake",
            "x_cas", "x_swap", "x_check", "x_park", "x_dequeue", "x_wake", "x_held",
            "xx_readx", "xx_wakex", "xx_reads", "xx_wakes", "xx_unmask" }

Init ==
    /\ mutex = 0 /\ waiterExclusive = 0 /\ waiterShared = 0
    /\ pc = [c \in Ctx |-> "idle"]
    /\ cur = [c \in Ctx |-> 0] /\ waiter = [c \in Ctx |-> 0]
    /\ depth = [c \in Ctx |-> 0]
    /\ masked = {} /\ unparked = {} /\ parkBlocks \in ParkModes
    /\ ops = [t \in Threads |-> MaxOps] /\ signals = MaxSignals
    /\ dead = FALSE

\* A handler that is not idle runs instead of the flow it interrupted.
Runs(c) == /\ ~dead
           /\ c[2] = "main" => pc[Handler(Lwp(c))] = "idle" /\ depth[Handler(Lwp(c))] = 0

At(c, label) == Runs(c) /\ pc[c] = label
Goto(c, label) == pc' = [pc EXCEPT ![c] = label]

\* _lwp_unpark: remembered until the thread next parks; the stub forgets it.
Unpark(w) == unparked' = IF parkBlocks THEN unparked \cup {w} ELSE unparked

-----------------------------------------------------------------------------
(* _rtld_shared_enter *)

\* cur = _rtld_mutex, and the branches on it up to the next shared access.
SharedLoad(c) ==
    /\ cur' = [cur EXCEPT ![c] = IF IsExclusive(mutex) THEN 0 ELSE mutex]
    /\ dead' = (mutex = LockedValue(c))
    /\ Goto(c, IF IsExclusive(mutex) THEN "s_swap" ELSE "s_cas")
    /\ UNCHANGED << words, waiter, depth, masked, unparked, parkBlocks >>

SharedEnter(c) ==
    /\ c[2] = "main" /\ At(c, "idle") /\ ops[Lwp(c)] > 0 /\ depth[c] < MaxDepth
    /\ ops' = [ops EXCEPT ![Lwp(c)] = @ - 1]
    /\ SharedLoad(c)
    /\ UNCHANGED signals

SharedRetry(c) == At(c, "s_load") /\ SharedLoad(c) /\ UNCHANGED budget

\* Mutant of SharedCas: a plain store in place of the compare-and-swap.
SharedStore(c) ==
    /\ At(c, "s_cas")
    /\ mutex' = cur[c] + 1
    /\ depth' = [depth EXCEPT ![c] = @ + 1]
    /\ cur' = [cur EXCEPT ![c] = 0]
    /\ Goto(c, "idle")
    /\ UNCHANGED << waiterExclusive, waiterShared, waiter, masked, unparked, parkBlocks, budget, dead >>

SharedCas(c) ==
    /\ At(c, "s_cas")
    /\ IF mutex = cur[c]
       THEN /\ mutex' = cur[c] + 1
            /\ depth' = [depth EXCEPT ![c] = @ + 1]
            /\ Goto(c, "idle")
       ELSE Goto(c, "s_load") /\ UNCHANGED << mutex, depth >>
    /\ cur' = [cur EXCEPT ![c] = 0]
    /\ UNCHANGED << waiterExclusive, waiterShared, waiter, masked, unparked, parkBlocks, budget, dead >>

SharedSwap(c) ==
    /\ At(c, "s_swap")
    /\ waiter' = [waiter EXCEPT ![c] = waiterShared]
    /\ waiterShared' = Lwp(c)
    /\ Goto(c, "s_check")
    /\ UNCHANGED << mutex, waiterExclusive, cur, depth, masked, unparked, parkBlocks, budget, dead >>

\* The two reads of the race check, before going to sleep.
SharedCheck(c) ==
    /\ At(c, "s_check")
    /\ Goto(c, IF IsExclusive(mutex) THEN "s_park" ELSE "s_check2")
    /\ UNCHANGED << words, locals, depth, masked, unparked, parkBlocks, budget, dead >>

SharedCheckWaiter(c) ==
    /\ At(c, "s_check2")
    /\ Goto(c, IF waiterExclusive # 0 THEN "s_park" ELSE "s_dequeue")
    /\ UNCHANGED << words, locals, depth, masked, unparked, parkBlocks, budget, dead >>

\* _lwp_park: returns at once in lwp.c; as documented, when an unpark came.
Park(c, from, to) ==
    /\ At(c, from)
    /\ parkBlocks => Lwp(c) \in unparked
    /\ unparked' = unparked \ {Lwp(c)}
    /\ Goto(c, to)
    /\ UNCHANGED << words, locals, depth, masked, parkBlocks, budget, dead >>

SharedPark(c) == Park(c, "s_park", "s_dequeue")

\* Mutant of SharedDequeue: the waiter word keeps the thread's id.
SharedStaysQueued(c) ==
    /\ At(c, "s_dequeue")
    /\ Goto(c, IF waiter[c] # 0 THEN "s_wake" ELSE "s_load")
    /\ UNCHANGED << words, locals, depth, masked, unparked, parkBlocks, budget, dead >>

SharedDequeue(c) ==
    /\ At(c, "s_dequeue")
    /\ waiterShared' = IF waiterShared = Lwp(c) THEN 0 ELSE waiterShared
    /\ Goto(c, IF waiter[c] # 0 THEN "s_wake" ELSE "s_load")
    /\ UNCHANGED << mutex, waiterExclusive, locals, depth, masked, unparked, parkBlocks, budget, dead >>

\* _lwp_unpark(waiter), the local that an earlier step has read.
Wake(c, from, to) ==
    /\ At(c, from)
    /\ Unpark(waiter[c])
    /\ waiter' = [waiter EXCEPT ![c] = 0]
    /\ Goto(c, to)
    /\ UNCHANGED << words, cur, depth, masked, parkBlocks, budget, dead >>

SharedWake(c) == Wake(c, "s_wake", "s_load")

-----------------------------------------------------------------------------
(* _rtld_shared_exit *)

SharedExit(c) ==
    /\ At(c, "idle") /\ depth[c] > 0
    /\ Goto(c, IF IsExclusive(mutex) THEN "idle" ELSE "sx_dec")
    /\ UNCHANGED << words, locals, depth, masked, unparked, parkBlocks, budget, dead >>

SharedDec(c) ==
    /\ At(c, "sx_dec")
    /\ mutex' = mutex - 1
    /\ depth' = [depth EXCEPT ![c] = @ - 1]
    /\ Goto(c, IF mutex - 1 # 0 THEN "idle" ELSE "sx_read")
    /\ UNCHANGED << waiterExclusive, waiterShared, locals, masked, unparked, parkBlocks, budget, dead >>

\* waiter = <word>, then to a wake-up if it is not 0.
ReadWaiter(c, from, word, wake, skip) ==
    /\ At(c, from)
    /\ waiter' = [waiter EXCEPT ![c] = word]
    /\ Goto(c, IF word # 0 THEN wake ELSE skip)
    /\ UNCHANGED << words, cur, depth, masked, unparked, parkBlocks, budget, dead >>

SharedExitRead(c) == ReadWaiter(c, "sx_read", waiterExclusive, "sx_wake", "idle")
SharedExitWake(c) == Wake(c, "sx_wake", "idle")

-----------------------------------------------------------------------------
(* _rtld_exclusive_enter *)

\* Mutant of ExclusiveEnter: signals stay unblocked.
ExclusiveEnterUnmasked(c) ==
    /\ c[2] = "main" /\ At(c, "idle") /\ ops[Lwp(c)] > 0 /\ depth[c] = 0
    /\ ops' = [ops EXCEPT ![Lwp(c)] = @ - 1]
    /\ Goto(c, "x_cas")
    /\ UNCHANGED << words, locals, depth, masked, unparked, parkBlocks, signals, dead >>

ExclusiveEnter(c) ==
    /\ c[2] = "main" /\ At(c, "idle") /\ ops[Lwp(c)] > 0 /\ depth[c] = 0
    /\ ops' = [ops EXCEPT ![Lwp(c)] = @ - 1]
    /\ masked' = masked \cup {Lwp(c)}
    /\ Goto(c, "x_cas")
    /\ UNCHANGED << words, locals, depth, unparked, parkBlocks, signals, dead >>

\* Mutant of ExclusiveCas: it expects no owner, where it must expect nobody.
ExclusiveCasOverReaders(c) ==
    /\ At(c, "x_cas")
    /\ mutex' = IF ~IsExclusive(mutex) THEN LockedValue(c) ELSE mutex
    /\ Goto(c, IF ~IsExclusive(mutex) THEN "x_held" ELSE "x_swap")
    /\ UNCHANGED << waiterExclusive, waiterShared, locals, depth, masked, unparked, parkBlocks, budget, dead >>

ExclusiveCas(c) ==
    /\ At(c, "x_cas")
    /\ mutex' = IF mutex = 0 THEN LockedValue(c) ELSE mutex
    /\ Goto(c, IF mutex = 0 THEN "x_held" ELSE "x_swap")
    /\ UNCHANGED << waiterExclusive, waiterShared, locals, depth, masked, unparked, parkBlocks, budget, dead >>

ExclusiveSwap(c) ==
    /\ At(c, "x_swap")
    /\ waiter' = [waiter EXCEPT ![c] = waiterExclusive]
    /\ waiterExclusive' = Lwp(c)
    /\ Goto(c, "x_check")
    /\ UNCHANGED << mutex, waiterShared, cur, depth, masked, unparked, parkBlocks, budget, dead >>

\* Mutant of ExclusiveCheck: to sleep without looking at the lock again.
ExclusiveSleep(c) ==
    /\ At(c, "x_check")
    /\ Goto(c, "x_park")
    /\ UNCHANGED << words, locals, depth, masked, unparked, parkBlocks, budget, dead >>

ExclusiveCheck(c) ==
    /\ At(c, "x_check")
    /\ dead' = (mutex = LockedValue(c))
    /\ Goto(c, IF mutex # 0 THEN "x_park" ELSE "x_dequeue")
    /\ UNCHANGED << words, locals, depth, masked, unparked, parkBlocks, budget >>

ExclusivePark(c) == Park(c, "x_park", "x_dequeue")

ExclusiveDequeue(c) ==
    /\ At(c, "x_dequeue")
    /\ waiterExclusive' = IF waiterExclusive = Lwp(c) THEN 0 ELSE waiterExclusive
    /\ Goto(c, IF waiter[c] # 0 THEN "x_wake" ELSE "x_cas")
    /\ UNCHANGED << mutex, waiterShared, locals, depth, masked, unparked, parkBlocks, budget, dead >>

ExclusiveWake(c) == Wake(c, "x_wake", "x_cas")

-----------------------------------------------------------------------------
(* _rtld_exclusive_exit *)

\* Mutant of ExclusiveExit: it clears the mask bit and leaves the owner's id.
ExclusiveExitMaskOnly(c) ==
    /\ At(c, "x_held")
    /\ mutex' = mutex - Mask
    /\ Goto(c, "xx_readx")
    /\ UNCHANGED << waiterExclusive, waiterShared, locals, depth, masked, unparked, parkBlocks, budget, dead >>

ExclusiveExit(c) ==
    /\ At(c, "x_held")
    /\ mutex' = 0
    /\ Goto(c, "xx_readx")
    /\ UNCHANGED << waiterExclusive, waiterShared, locals, depth, masked, unparked, parkBlocks, budget, dead >>

ExitReadExclusive(c) == ReadWaiter(c, "xx_readx", waiterExclusive, "xx_wakex", "xx_reads")
ExitWakeExclusive(c) == Wake(c, "xx_wakex", "xx_reads")
ExitReadShared(c) == ReadWaiter(c, "xx_reads", waiterShared, "xx_wakes", "xx_unmask")
ExitWakeShared(c) == Wake(c, "xx_wakes", "xx_unmask")

ExitUnmask(c) ==
    /\ At(c, "xx_unmask")
    /\ masked' = masked \ {Lwp(c)}
    /\ Goto(c, "idle")
    /\ UNCHANGED << words, locals, depth, unparked, parkBlocks, budget, dead >>

-----------------------------------------------------------------------------
\* sigdelset(&blockmask, SIGTRAP): the debugger's signal comes through.
Delivered(t, sig) == t \notin masked \/ sig = "SIGTRAP"

\* Where a flow goes on after a signal: a park that it interrupts returns (EINTR).
Resumed(label) == {label} \cup (CASE label = "s_park" -> {"s_dequeue"}
                                 [] label = "x_park" -> {"x_dequeue"}
                                 [] OTHER -> {})

\* A signal reaches thread t, and its handler makes a lazily bound call.
Signal(t, sig) ==
    /\ signals > 0 /\ Delivered(t, sig) /\ Runs(Main(t))
    /\ signals' = signals - 1
    /\ \E resume \in Resumed(pc[Main(t)]) :
          pc' = [pc EXCEPT ![Main(t)] = resume, ![Handler(t)] = "s_load"]
    /\ UNCHANGED << words, locals, depth, masked, unparked, parkBlocks, ops, dead >>

SharedStep(c) ==
    \/ SharedRetry(c) \/ SharedCas(c) \/ SharedSwap(c) \/ SharedCheck(c)
    \/ SharedCheckWaiter(c) \/ SharedPark(c) \/ SharedDequeue(c) \/ SharedWake(c)
    \/ SharedExit(c) \/ SharedDec(c) \/ SharedExitRead(c) \/ SharedExitWake(c)

ExclusiveStep(c) ==
    \/ ExclusiveCas(c) \/ ExclusiveSwap(c) \/ ExclusiveCheck(c) \/ ExclusivePark(c)
    \/ ExclusiveDequeue(c) \/ ExclusiveWake(c)
    \/ ExclusiveExit(c) \/ ExitReadExclusive(c) \/ ExitWakeExclusive(c)
    \/ ExitReadShared(c) \/ ExitWakeShared(c) \/ ExitUnmask(c)

\* What a context does once it has begun: it gets through its sections.
Step(c) == SharedStep(c) \/ ExclusiveStep(c)

AllOut == \A c \in Ctx : pc[c] = "idle" /\ depth[c] = 0

\* Everybody has left, or _rtld_die has ended the process.
Terminated == (AllOut \/ dead) /\ UNCHANGED vars

Next == \/ \E c \in Ctx : SharedEnter(c) \/ ExclusiveEnter(c) \/ Step(c)
        \/ \E t \in Threads, sig \in {"SIGTRAP", "other"} : Signal(t, sig)
        \/ Terminated

Spec == Init /\ [][Next]_vars
FairSpec == Spec /\ \A c \in Ctx : WF_vars(Step(c))

-----------------------------------------------------------------------------
(* Properties *)

\* Every variable has its type: the lock word stays below 2 * Mask and is
\* never decremented below zero, the waiter words hold ids of threads.
TypeOK ==
    /\ mutex \in 0 .. 2 * Mask - 1
    /\ waiterExclusive \in Threads \cup {0} /\ waiterShared \in Threads \cup {0}
    /\ pc \in [Ctx -> Labels]
    /\ cur \in [Ctx -> 0 .. 2 * Mask - 1] /\ waiter \in [Ctx -> Threads \cup {0}]
    /\ depth \in [Ctx -> 0 .. MaxDepth]
    /\ masked \subseteq Threads /\ unparked \subseteq Threads /\ parkBlocks \in BOOLEAN
    /\ ops \in [Threads -> 0 .. MaxOps] /\ signals \in 0 .. MaxSignals
    /\ dead \in BOOLEAN

Writers == {c \in Ctx : pc[c] = "x_held"}

\* One element for each shared section somebody is inside.
Holds == {h \in Ctx \X (1 .. MaxDepth) : h[2] <= depth[h[1]]}

\* A thread inside _rtld_exclusive_enter/_exit excludes every other thread's
\* exclusive section and every shared section, whatever the two waiter words,
\* late wake-ups and signal handlers do.
MutualExclusion ==
    \A c \in Writers : Writers = {c} /\ Holds = {}

\* The lock word always says who is inside: the one owner's lwp id under
\* the mask and no shared section, or the number of shared sections and no
\* owner.  This is why the decrement in _rtld_shared_exit never underflows
\* and never hits an exclusive lock.
LockWord ==
    IF IsExclusive(mutex)
    THEN Holds = {} /\ \E c \in Ctx : Writers = {c} /\ mutex = LockedValue(c)
    ELSE Writers = {} /\ mutex = Cardinality(Holds)

\* "dead lock detected" is reported in one situation only: a handler asks for
\* the shared lock on top of its own thread's exclusive section, and it is a
\* handler of SIGTRAP, the one signal _rtld_exclusive_enter leaves unblocked
\* (its thread has blocked all others).  A main flow that keeps the lock's
\* discipline, or a handler of any other signal, is never killed by it.
NoFalseDeadlock ==
    dead => \E t \in masked : mutex = LockedValue(Main(t)) /\ pc[Handler(t)] # "idle"

\* Once everybody has left, nothing of them is left behind: a waiter word
\* that kept a stale id would send later readers to sleep for nobody.
QuiescentClean ==
    AllOut => mutex = 0 /\ waiterExclusive = 0 /\ waiterShared = 0

\* No wake-up is lost: whoever asks for either lock gets it, so every
\* operation that was begun is finished, unless _rtld_die ends the process
\* (NoFalseDeadlock says when).
EveryoneEnters == <>[](AllOut \/ dead)

\* The lock word, the waiter words and the parking implement the lock that
\* dlopen, dlsym and the lazy binder assume: each step of the code is one
\* step of RwLock, or none.
Abstract == INSTANCE RwLock WITH Clients <- Ctx, readers <- depth, writers <- Writers
Implements == Abstract!Spec

=============================================================================
