--------------------------- MODULE RtldLockProofs ---------------------------
(***************************************************************************)
(* Proofs about RtldLock for every set of threads, every mask that is      *)
(* large enough and every bound.  The inductive invariant is TypeOK, the   *)
(* accounting of the lock word (LockWord), what the code has established   *)
(* by the time control reaches a label (Control), and the one situation in *)
(* which the process dies (NoFalseDeadlock).                               *)
(***************************************************************************)
EXTENDS RtldLock, FiniteSetTheorems, TLAPS

ExclusiveLabels == { "x_cas", "x_swap", "x_check", "x_park", "x_dequeue", "x_wake", "x_held",
                     "xx_readx", "xx_wakex", "xx_reads", "xx_wakes", "xx_unmask" }
EnteringShared == { "s_load", "s_cas", "s_swap", "s_check", "s_check2", "s_park",
                    "s_dequeue", "s_wake" }
WakeLabels == { "s_wake", "sx_wake", "x_wake", "xx_wakex", "xx_wakes" }

Control ==
    \A c \in Ctx :
        /\ pc[c] \in ExclusiveLabels => c[2] = "main" /\ Lwp(c) \in masked
        /\ pc[c] = "s_cas" => cur[c] < Mask
        /\ pc[c] \in EnteringShared => depth[c] < MaxDepth
        /\ pc[c] = "sx_dec" => depth[c] > 0
        /\ pc[c] \in WakeLabels => waiter[c] # 0

IInv == TypeOK /\ LockWord /\ Control /\ NoFalseDeadlock

-----------------------------------------------------------------------------
\* Facts about contexts: a context is the main flow or the handler of one
\* thread, and the two differ.
LEMMA CtxFacts ==
    /\ \A c \in Ctx : /\ Lwp(c) \in Threads
                      /\ c[2] = "main" \/ c = Handler(Lwp(c))
                      /\ c[2] = "main" => c = Main(Lwp(c))
    /\ \A t \in Threads : /\ Main(t) \in Ctx /\ Handler(t) \in Ctx /\ Main(t) # Handler(t)
                          /\ Lwp(Main(t)) = t /\ Lwp(Handler(t)) = t
                          /\ Main(t)[2] = "main" /\ Handler(t)[2] # "main"
  BY DEF Ctx, Lwp, Main, Handler

\* The arithmetic of the constants that the other proofs use: lwp ids are
\* positive and lie below the exclusive bit.
LEMMA ConstantFacts ==
    /\ Mask \in Nat /\ Mask > 0 /\ MaxDepth \in Nat \ {0} /\ MaxOps \in Nat /\ MaxSignals \in Nat
    /\ \A t \in Threads : t \in Nat /\ t > 0 /\ t < Mask
<1>1. Cardinality(Threads) \in Nat
  BY LockAssumption, FS_CardinalityType
<1>2. 2 * Cardinality(Threads) * MaxDepth \in Nat
  BY <1>1, LockAssumption
<1> QED
  BY <1>2, LockAssumption

\* Any set of shared sections is finite and smaller than the mask, so the
\* reader count never reaches the exclusive bit.
LEMMA SectionsFinite ==
    ASSUME NEW S, S \subseteq Ctx \X (1 .. MaxDepth)
    PROVE  IsFiniteSet(S) /\ Cardinality(S) \in Nat /\ Cardinality(S) < Mask
<1>1. IsFiniteSet(Threads) /\ Cardinality(Threads) \in Nat
  BY LockAssumption, FS_CardinalityType
<1>2. IsFiniteSet({"main", "handler"}) /\ Cardinality({"main", "handler"}) = 2
  <2>1. IsFiniteSet({"main"}) /\ Cardinality({"main"}) = 1
    BY FS_Singleton
  <2>2. {"main", "handler"} = {"main"} \cup {"handler"} /\ "handler" \notin {"main"}
    OBVIOUS
  <2> QED
    BY <2>1, <2>2, FS_AddElement
<1>3. IsFiniteSet(Ctx) /\ Cardinality(Ctx) = Cardinality(Threads) * 2
  BY <1>1, <1>2, FS_Product DEF Ctx
<1>4. IsFiniteSet(1 .. MaxDepth) /\ Cardinality(1 .. MaxDepth) = MaxDepth
  BY FS_Interval, LockAssumption
<1>5. /\ IsFiniteSet(Ctx \X (1 .. MaxDepth))
      /\ Cardinality(Ctx \X (1 .. MaxDepth)) = (Cardinality(Threads) * 2) * MaxDepth
  <2>1. /\ IsFiniteSet(Ctx \X (1 .. MaxDepth))
        /\ Cardinality(Ctx \X (1 .. MaxDepth)) = Cardinality(Ctx) * Cardinality(1 .. MaxDepth)
    BY <1>3, <1>4, FS_Product
  <2> QED
    BY <1>3, <1>4, <2>1
<1>6. IsFiniteSet(S) /\ Cardinality(S) <= (Cardinality(Threads) * 2) * MaxDepth
  BY <1>5, FS_Subset
<1>7. (Cardinality(Threads) * 2) * MaxDepth = 2 * Cardinality(Threads) * MaxDepth
  BY <1>1, LockAssumption
<1> QED
  BY <1>1, <1>6, <1>7, FS_CardinalityType, LockAssumption

\* The instance of SectionsFinite for the sections held before a step.
LEMMA HoldsFinite == IsFiniteSet(Holds) /\ Cardinality(Holds) \in Nat /\ Cardinality(Holds) < Mask
<1>1. Holds \subseteq Ctx \X (1 .. MaxDepth)
  BY DEF Holds
<1> QED
  BY <1>1, SectionsFinite

\* The instance of SectionsFinite for the sections held after a step.
LEMMA HoldsFinitePrime == Cardinality(Holds') \in Nat /\ Cardinality(Holds') < Mask
<1>1. Holds' \subseteq Ctx \X (1 .. MaxDepth)
  BY DEF Holds
<1> QED
  BY <1>1, SectionsFinite

\* A step that leaves the lock word, the nesting depths and the set of
\* writers alone keeps the accounting.
LEMMA QuietStep ==
    ASSUME LockWord, mutex' = mutex, depth' = depth, Writers' = Writers
    PROVE  LockWord'
<1>1. Holds' = Holds
  BY DEF Holds
<1> QED
  BY <1>1 DEF LockWord, IsExclusive, LockedValue

\* Control moves between two labels that are not the exclusive section.
LEMMA WritersKept ==
    ASSUME NEW c \in Ctx, NEW label, pc \in [Ctx -> Labels],
           pc[c] # "x_held", label # "x_held", Goto(c, label)
    PROVE  Writers' = Writers
  BY DEF Writers, Goto

\* Entering a shared section adds one element to the sections held.
LEMMA HoldsGrow ==
    ASSUME NEW c \in Ctx, depth \in [Ctx -> 0 .. MaxDepth], depth[c] < MaxDepth,
           depth' = [depth EXCEPT ![c] = @ + 1]
    PROVE  Cardinality(Holds') = Cardinality(Holds) + 1
<1> DEFINE h == << c, depth[c] + 1 >>
<1>1. h \notin Holds
  BY DEF Holds
<1>2. Holds' = Holds \cup {h}
  BY LockAssumption DEF Holds
<1> QED
  BY <1>1, <1>2, HoldsFinite, FS_AddElement

\* Leaving a shared section removes one element from the sections held.
LEMMA HoldsShrink ==
    ASSUME NEW c \in Ctx, depth \in [Ctx -> 0 .. MaxDepth], depth[c] > 0,
           depth' = [depth EXCEPT ![c] = @ - 1]
    PROVE  Holds # {} /\ Cardinality(Holds') = Cardinality(Holds) - 1
<1> DEFINE h == << c, depth[c] >>
<1>1. h \in Holds
  BY LockAssumption DEF Holds
<1>2. Holds' = Holds \ {h}
  BY LockAssumption DEF Holds
<1> QED
  BY <1>1, <1>2, HoldsFinite, FS_RemoveElement

-----------------------------------------------------------------------------
(* Preservation, one lemma per function and one step per action. *)

\* If the lock word names this context's thread, that thread's main flow is
\* in its exclusive section and has blocked the signals.
LEMMA Owner ==
    ASSUME IInv, NEW c \in Ctx, mutex = LockedValue(c)
    PROVE  pc[Main(Lwp(c))] = "x_held" /\ Lwp(c) \in masked
<1>1. IsExclusive(mutex)
  BY CtxFacts, ConstantFacts DEF IsExclusive, LockedValue
<1>2. PICK w \in Ctx : Writers = {w} /\ mutex = LockedValue(w)
  BY <1>1 DEF IInv, LockWord
<1>3. pc[w] = "x_held" /\ Lwp(w) = Lwp(c)
  BY <1>2, CtxFacts, ConstantFacts DEF Writers, LockedValue
<1>4. w[2] = "main" /\ Lwp(w) \in masked
  BY <1>3 DEF IInv, Control, ExclusiveLabels
<1> QED
  BY <1>3, <1>4, CtxFacts

\* The look at the lock word in _rtld_shared_enter reports a dead lock only to a
\* handler above its own thread's exclusive section.
LEMMA DeadLoad ==
    ASSUME IInv, NEW c \in Ctx, pc[c] # "x_held", SharedLoad(c)
    PROVE  NoFalseDeadlock'
<1>1. CASE mutex # LockedValue(c)
  BY <1>1 DEF SharedLoad, NoFalseDeadlock
<1>2. CASE mutex = LockedValue(c)
  <2>1. pc[Main(Lwp(c))] = "x_held" /\ Lwp(c) \in masked /\ Lwp(c) \in Threads
    BY <1>2, Owner, CtxFacts
  <2>2. c = Handler(Lwp(c)) /\ Lwp(Main(Lwp(c))) = Lwp(c)
    BY <2>1, CtxFacts
  <2>3. IsExclusive(mutex)
    BY <1>2, <2>1, ConstantFacts DEF IsExclusive, LockedValue
  <2>4. mutex' = mutex /\ masked' = masked /\ pc'[c] = "s_swap"
    BY <2>3 DEF SharedLoad, words, Goto, IInv, TypeOK
  <2>5. mutex' = LockedValue(Main(Lwp(c)))' /\ pc'[Handler(Lwp(c))] # "idle"
    BY <1>2, <2>2, <2>4 DEF LockedValue
  <2> QED
    BY <2>1, <2>4, <2>5 DEF NoFalseDeadlock
<1> QED
  BY <1>1, <1>2

\* Every step inside _rtld_shared_enter keeps the invariant: taking the lock
\* counts one more section, waiting changes neither the word nor who is inside.
LEMMA SharedEnterSteps ==
    ASSUME IInv, NEW x \in Ctx,
              \/ SharedRetry(x) \/ SharedCas(x) \/ SharedSwap(x) \/ SharedCheck(x)
              \/ SharedCheckWaiter(x) \/ SharedPark(x) \/ SharedDequeue(x) \/ SharedWake(x)
    PROVE  IInv'
<1>1. ASSUME NEW c \in Ctx, SharedRetry(c) PROVE IInv'
  <2>1. TypeOK'
    BY <1>1, CtxFacts, ConstantFacts DEF IInv, TypeOK, Control, SharedRetry, SharedLoad,
          words, budget, At, Runs, Goto, Labels, WakeLabels, EnteringShared
  <2>2. LockWord'
    BY <1>1, WritersKept, QuietStep DEF IInv, TypeOK, SharedRetry, SharedLoad, words,
          budget, At, Runs, Goto
  <2>3. Control'
    BY <1>1, CtxFacts, ConstantFacts DEF IInv, TypeOK, Control, SharedRetry, SharedLoad,
          words, budget, At, Runs, Goto, ExclusiveLabels,
          EnteringShared, WakeLabels, IsExclusive
  <2>4. NoFalseDeadlock'
    BY <1>1, DeadLoad DEF SharedRetry, At
  <2> QED
    BY <2>1, <2>2, <2>3, <2>4 DEF IInv, NoFalseDeadlock
<1>2. ASSUME NEW c \in Ctx, SharedCas(c) PROVE IInv'
  <2>a. CASE mutex # cur[c]
    <3>1. TypeOK'
      BY <1>2, <2>a, CtxFacts, ConstantFacts DEF IInv, TypeOK, SharedCas, budget, At,
          Runs, Goto, Labels
    <3>2. LockWord'
      BY <1>2, <2>a, WritersKept, QuietStep DEF IInv, TypeOK, SharedCas, budget, At,
          Runs, Goto
    <3>3. Control'
      BY <1>2, <2>a, CtxFacts DEF IInv, TypeOK, Control, SharedCas, budget,
          At, Runs, Goto, ExclusiveLabels, EnteringShared, WakeLabels
    <3> QED
      BY <1>2, <3>1, <3>2, <3>3 DEF IInv, NoFalseDeadlock, SharedCas, budget, At, Runs, Goto
  <2> SUFFICES ASSUME mutex = cur[c] PROVE IInv'
    BY <2>a
  <2>1. depth[c] < MaxDepth /\ mutex < Mask
    BY <1>2 DEF IInv, Control, EnteringShared, SharedCas, budget, At, Runs, Goto
  <2>2. mutex = Cardinality(Holds) /\ Writers = {} /\ mutex + 1 < Mask
    <3>1. mutex = Cardinality(Holds) /\ Writers = {}
      BY <2>1, ConstantFacts DEF IInv, TypeOK, LockWord, IsExclusive
    <3>2. depth' = [depth EXCEPT ![c] = @ + 1] /\ depth \in [Ctx -> 0 .. MaxDepth]
      BY <1>2 DEF IInv, TypeOK, SharedCas, budget, At, Runs, Goto
    <3>3. Cardinality(Holds') = mutex + 1
      BY <2>1, <3>1, <3>2, HoldsGrow
    <3>4. Cardinality(Holds') < Mask
      BY HoldsFinitePrime
    <3> QED
      BY <3>1, <3>3, <3>4
  <2>3. TypeOK'
    BY <1>2, <2>1, <2>2, CtxFacts, ConstantFacts DEF IInv, TypeOK, SharedCas, budget,
          At, Runs, Goto, Labels
  <2>4. LockWord'
    <3>1. Writers' = Writers
      BY <1>2, WritersKept DEF IInv, TypeOK, SharedCas, budget, At, Runs, Goto
    <3>2. Cardinality(Holds') = Cardinality(Holds) + 1
      BY <1>2, <2>1, HoldsGrow DEF IInv, TypeOK, SharedCas, budget, At, Runs, Goto
    <3>3. mutex' = mutex + 1
      BY <1>2 DEF SharedCas, budget, At, Runs, Goto
    <3> QED
      BY <2>2, <3>1, <3>2, <3>3, HoldsFinite, ConstantFacts DEF LockWord, IsExclusive
  <2>5. Control'
    BY <1>2, <2>1, CtxFacts DEF IInv, TypeOK, Control, SharedCas, budget,
          At, Runs, Goto, ExclusiveLabels, EnteringShared, WakeLabels
  <2>6. ~dead'
    BY <1>2 DEF IInv, NoFalseDeadlock, SharedCas, budget, At, Runs, Goto
  <2> QED
    BY <2>3, <2>4, <2>5, <2>6 DEF IInv, NoFalseDeadlock
<1>3. ASSUME NEW c \in Ctx, SharedSwap(c) PROVE IInv'
  <2>1. TypeOK'
    BY <1>3, CtxFacts, ConstantFacts DEF IInv, TypeOK, Control, SharedSwap, budget, At,
          Runs, Goto, Labels, WakeLabels, EnteringShared
  <2>2. LockWord'
    BY <1>3, WritersKept, QuietStep DEF IInv, TypeOK, SharedSwap, budget, At, Runs, Goto
  <2>3. Control'
    BY <1>3, CtxFacts DEF IInv, TypeOK, Control, SharedSwap, budget, At,
          Runs, Goto, ExclusiveLabels, EnteringShared, WakeLabels
  <2>4. ~dead'
    BY <1>3 DEF IInv, SharedSwap, budget, At, Runs, Goto
  <2> QED
    BY <2>1, <2>2, <2>3, <2>4 DEF IInv, NoFalseDeadlock
<1>4. ASSUME NEW c \in Ctx, SharedCheck(c) PROVE IInv'
  <2>1. TypeOK'
    BY <1>4, CtxFacts, ConstantFacts DEF IInv, TypeOK, Control, SharedCheck, words,
          locals, budget, At, Runs, Goto, Labels, WakeLabels, EnteringShared
  <2>2. LockWord'
    BY <1>4, WritersKept, QuietStep DEF IInv, TypeOK, SharedCheck, words, locals,
          budget, At, Runs, Goto
  <2>3. Control'
    BY <1>4, CtxFacts DEF IInv, TypeOK, Control, SharedCheck, words,
          locals, budget, At, Runs, Goto, ExclusiveLabels, EnteringShared, WakeLabels
  <2>4. ~dead'
    BY <1>4 DEF IInv, SharedCheck, words, locals, budget, At, Runs, Goto
  <2> QED
    BY <2>1, <2>2, <2>3, <2>4 DEF IInv, NoFalseDeadlock
<1>5. ASSUME NEW c \in Ctx, SharedCheckWaiter(c) PROVE IInv'
  <2>1. TypeOK'
    BY <1>5, CtxFacts, ConstantFacts DEF IInv, TypeOK, Control, SharedCheckWaiter,
          words, locals, budget, At, Runs, Goto, Labels, WakeLabels, EnteringShared
  <2>2. LockWord'
    BY <1>5, WritersKept, QuietStep DEF IInv, TypeOK, SharedCheckWaiter, words, locals,
          budget, At, Runs, Goto
  <2>3. Control'
    BY <1>5, CtxFacts DEF IInv, TypeOK, Control, SharedCheckWaiter, words,
          locals, budget, At, Runs, Goto, ExclusiveLabels, EnteringShared, WakeLabels
  <2>4. ~dead'
    BY <1>5 DEF IInv, SharedCheckWaiter, words, locals, budget, At, Runs, Goto
  <2> QED
    BY <2>1, <2>2, <2>3, <2>4 DEF IInv, NoFalseDeadlock
<1>6. ASSUME NEW c \in Ctx, SharedPark(c) PROVE IInv'
  <2>1. TypeOK'
    BY <1>6, CtxFacts, ConstantFacts DEF IInv, TypeOK, Control, SharedPark, Park, words,
          locals, budget, At, Runs, Goto, Labels, WakeLabels, EnteringShared
  <2>2. LockWord'
    BY <1>6, WritersKept, QuietStep DEF IInv, TypeOK, SharedPark, Park, words, locals,
          budget, At, Runs, Goto
  <2>3. Control'
    BY <1>6, CtxFacts DEF IInv, TypeOK, Control, SharedPark, Park, words,
          locals, budget, At, Runs, Goto, ExclusiveLabels, EnteringShared, WakeLabels
  <2>4. ~dead'
    BY <1>6 DEF IInv, SharedPark, Park, words, locals, budget, At, Runs, Goto
  <2> QED
    BY <2>1, <2>2, <2>3, <2>4 DEF IInv, NoFalseDeadlock
<1>7. ASSUME NEW c \in Ctx, SharedDequeue(c) PROVE IInv'
  <2>1. TypeOK'
    BY <1>7, CtxFacts, ConstantFacts DEF IInv, TypeOK, Control, SharedDequeue, locals,
          budget, At, Runs, Goto, Labels, WakeLabels, EnteringShared
  <2>2. LockWord'
    BY <1>7, WritersKept, QuietStep DEF IInv, TypeOK, SharedDequeue, locals, budget, At,
          Runs, Goto
  <2>3. Control'
    BY <1>7, CtxFacts DEF IInv, TypeOK, Control, SharedDequeue, locals,
          budget, At, Runs, Goto, ExclusiveLabels, EnteringShared, WakeLabels
  <2>4. ~dead'
    BY <1>7 DEF IInv, SharedDequeue, locals, budget, At, Runs, Goto
  <2> QED
    BY <2>1, <2>2, <2>3, <2>4 DEF IInv, NoFalseDeadlock
<1>8. ASSUME NEW c \in Ctx, SharedWake(c) PROVE IInv'
  <2>0. waiter[c] \in Threads
    BY <1>8 DEF IInv, TypeOK, Control, WakeLabels, SharedWake, Wake, Unpark, words,
          budget, At, Runs, Goto
  <2>1. TypeOK'
    BY <1>8, <2>0, CtxFacts, ConstantFacts DEF IInv, TypeOK, SharedWake, Wake, Unpark,
          words, budget, At, Runs, Goto, Labels
  <2>2. LockWord'
    BY <1>8, WritersKept, QuietStep DEF IInv, TypeOK, SharedWake, Wake, Unpark, words,
          budget, At, Runs, Goto
  <2>3. Control'
    BY <1>8, CtxFacts DEF IInv, TypeOK, Control, SharedWake, Wake, Unpark,
          words, budget, At, Runs, Goto, ExclusiveLabels, EnteringShared, WakeLabels
  <2>4. ~dead'
    BY <1>8 DEF IInv, SharedWake, Wake, Unpark, words, budget, At, Runs, Goto
  <2> QED
    BY <2>1, <2>2, <2>3, <2>4 DEF IInv, NoFalseDeadlock
<1> QED
  BY <1>1, <1>2, <1>3, <1>4, <1>5, <1>6, <1>7, <1>8

\* Every step of _rtld_shared_exit keeps the invariant: the decrement takes
\* away the one section its caller was inside.
LEMMA SharedExitSteps ==
    ASSUME IInv, NEW x \in Ctx,
              \/ SharedExit(x) \/ SharedDec(x) \/ SharedExitRead(x) \/ SharedExitWake(x)
    PROVE  IInv'
<1>1. ASSUME NEW c \in Ctx, SharedExit(c) PROVE IInv'
  <2>1. TypeOK'
    BY <1>1, CtxFacts, ConstantFacts DEF IInv, TypeOK, Control, SharedExit, words,
          locals, budget, At, Runs, Goto, Labels, WakeLabels, EnteringShared
  <2>2. LockWord'
    BY <1>1, WritersKept, QuietStep DEF IInv, TypeOK, SharedExit, words, locals, budget,
          At, Runs, Goto
  <2>3. Control'
    BY <1>1, CtxFacts DEF IInv, TypeOK, Control, SharedExit, words, locals,
          budget, At, Runs, Goto, ExclusiveLabels, EnteringShared, WakeLabels
  <2>4. ~dead'
    BY <1>1 DEF IInv, SharedExit, words, locals, budget, At, Runs, Goto
  <2> QED
    BY <2>1, <2>2, <2>3, <2>4 DEF IInv, NoFalseDeadlock
<1>2. ASSUME NEW c \in Ctx, SharedDec(c) PROVE IInv'
  <2>1. depth[c] > 0 /\ depth \in [Ctx -> 0 .. MaxDepth] /\ depth' = [depth EXCEPT ![c] = @ - 1]
    BY <1>2 DEF IInv, TypeOK, Control, SharedDec, locals, budget, At, Runs, Goto
  <2>2. Holds # {} /\ Cardinality(Holds') = Cardinality(Holds) - 1
    BY <2>1, HoldsShrink
  <2>3. ~IsExclusive(mutex) /\ mutex = Cardinality(Holds) /\ Writers = {}
    BY <2>2 DEF IInv, LockWord
  <2>4. mutex \in Nat /\ mutex < Mask /\ mutex - 1 \in Nat
    BY <2>2, <2>3, HoldsFinite, HoldsFinitePrime
  <2>5. TypeOK'
    BY <1>2, <2>1, <2>4, CtxFacts, ConstantFacts DEF IInv, TypeOK, SharedDec, locals,
          budget, At, Runs, Goto, Labels
  <2>6. LockWord'
    <3>1. Writers' = Writers /\ mutex' = mutex - 1
      BY <1>2, WritersKept DEF IInv, TypeOK, SharedDec, locals, budget, At, Runs, Goto
    <3> QED
      BY <2>2, <2>3, <2>4, <3>1, ConstantFacts DEF LockWord, IsExclusive
  <2>7. Control'
    BY <1>2, <2>1, CtxFacts DEF IInv, TypeOK, Control, SharedDec, locals,
          budget, At, Runs, Goto, ExclusiveLabels, EnteringShared, WakeLabels
  <2>8. ~dead'
    BY <1>2 DEF IInv, SharedDec, locals, budget, At, Runs, Goto
  <2> QED
    BY <2>5, <2>6, <2>7, <2>8 DEF IInv, NoFalseDeadlock
<1>3. ASSUME NEW c \in Ctx, SharedExitRead(c) PROVE IInv'
  <2>1. TypeOK'
    BY <1>3, CtxFacts, ConstantFacts DEF IInv, TypeOK, Control, SharedExitRead,
          ReadWaiter, words, budget, At, Runs, Goto, Labels, WakeLabels, EnteringShared
  <2>2. LockWord'
    BY <1>3, WritersKept, QuietStep DEF IInv, TypeOK, SharedExitRead, ReadWaiter, words,
          budget, At, Runs, Goto
  <2>3. Control'
    BY <1>3, CtxFacts DEF IInv, TypeOK, Control, SharedExitRead,
          ReadWaiter, words, budget, At, Runs, Goto, ExclusiveLabels, EnteringShared,
          WakeLabels
  <2>4. ~dead'
    BY <1>3 DEF IInv, SharedExitRead, ReadWaiter, words, budget, At, Runs, Goto
  <2> QED
    BY <2>1, <2>2, <2>3, <2>4 DEF IInv, NoFalseDeadlock
<1>4. ASSUME NEW c \in Ctx, SharedExitWake(c) PROVE IInv'
  <2>0. waiter[c] \in Threads
    BY <1>4 DEF IInv, TypeOK, Control, WakeLabels, SharedExitWake, Wake, Unpark, words,
          budget, At, Runs, Goto
  <2>1. TypeOK'
    BY <1>4, <2>0, CtxFacts, ConstantFacts DEF IInv, TypeOK, SharedExitWake, Wake,
          Unpark, words, budget, At, Runs, Goto, Labels
  <2>2. LockWord'
    BY <1>4, WritersKept, QuietStep DEF IInv, TypeOK, SharedExitWake, Wake, Unpark,
          words, budget, At, Runs, Goto
  <2>3. Control'
    BY <1>4, CtxFacts DEF IInv, TypeOK, Control, SharedExitWake, Wake,
          Unpark, words, budget, At, Runs, Goto, ExclusiveLabels, EnteringShared,
          WakeLabels
  <2>4. ~dead'
    BY <1>4 DEF IInv, SharedExitWake, Wake, Unpark, words, budget, At, Runs, Goto
  <2> QED
    BY <2>1, <2>2, <2>3, <2>4 DEF IInv, NoFalseDeadlock
<1> QED
  BY <1>1, <1>2, <1>3, <1>4

\* Every step inside _rtld_exclusive_enter keeps the invariant: the word is
\* taken only from 0, when nobody is inside.
LEMMA ExclusiveEnterSteps ==
    ASSUME IInv, NEW x \in Ctx,
              \/ ExclusiveCas(x) \/ ExclusiveSwap(x) \/ ExclusiveCheck(x) \/ ExclusivePark(x)
              \/ ExclusiveDequeue(x) \/ ExclusiveWake(x)
    PROVE  IInv'
<1>1. ASSUME NEW c \in Ctx, ExclusiveCas(c) PROVE IInv'
  <2>1. TypeOK'
    BY <1>1, CtxFacts, ConstantFacts DEF IInv, TypeOK, Control, ExclusiveCas, locals,
          budget, At, Runs, Goto, Labels, WakeLabels, EnteringShared, LockedValue
  <2>2. LockWord'
    <3>1. CASE mutex # 0
      BY <1>1, <3>1, WritersKept, QuietStep DEF IInv, TypeOK, ExclusiveCas, locals,
          budget, At, Runs, Goto
    <3>2. CASE mutex = 0
      <4>1. ~IsExclusive(mutex) /\ Cardinality(Holds) = 0 /\ Writers = {}
        <5>1. ~IsExclusive(mutex)
          BY <3>2, ConstantFacts DEF IsExclusive
        <5> QED
          BY <3>2, <5>1 DEF IInv, LockWord
      <4>2. Holds = {}
        BY <4>1, HoldsFinite, FS_EmptySet
      <4>3. Holds' = {}
        BY <1>1, <4>2 DEF Holds, ExclusiveCas, locals, budget, At, Runs, Goto
      <4>4. Writers' = {c}
        BY <1>1, <3>2, <4>1 DEF IInv, TypeOK, Writers, ExclusiveCas, locals, budget, At,
          Runs, Goto
      <4>5. mutex' = LockedValue(c) /\ IsExclusive(mutex')
        BY <1>1, <3>2, CtxFacts, ConstantFacts DEF IsExclusive, LockedValue,
          ExclusiveCas, locals, budget, At, Runs, Goto
      <4> QED
        BY <4>3, <4>4, <4>5 DEF LockWord, LockedValue
    <3> QED
      BY <3>1, <3>2
  <2>3. Control'
    BY <1>1, CtxFacts DEF IInv, TypeOK, Control, ExclusiveCas, locals,
          budget, At, Runs, Goto, ExclusiveLabels, EnteringShared, WakeLabels
  <2>4. ~dead'
    BY <1>1 DEF IInv, ExclusiveCas, locals, budget, At, Runs, Goto
  <2> QED
    BY <2>1, <2>2, <2>3, <2>4 DEF IInv, NoFalseDeadlock
<1>2. ASSUME NEW c \in Ctx, ExclusiveSwap(c) PROVE IInv'
  <2>1. TypeOK'
    BY <1>2, CtxFacts, ConstantFacts DEF IInv, TypeOK, Control, ExclusiveSwap, budget,
          At, Runs, Goto, Labels, WakeLabels, EnteringShared
  <2>2. LockWord'
    BY <1>2, WritersKept, QuietStep DEF IInv, TypeOK, ExclusiveSwap, budget, At, Runs,
          Goto
  <2>3. Control'
    BY <1>2, CtxFacts DEF IInv, TypeOK, Control, ExclusiveSwap, budget, At,
          Runs, Goto, ExclusiveLabels, EnteringShared, WakeLabels
  <2>4. ~dead'
    BY <1>2 DEF IInv, ExclusiveSwap, budget, At, Runs, Goto
  <2> QED
    BY <2>1, <2>2, <2>3, <2>4 DEF IInv, NoFalseDeadlock
<1>3. ASSUME NEW c \in Ctx, ExclusiveCheck(c) PROVE IInv'
  <2>1. TypeOK'
    BY <1>3, CtxFacts, ConstantFacts DEF IInv, TypeOK, Control, ExclusiveCheck, words,
          locals, budget, At, Runs, Goto, Labels, WakeLabels, EnteringShared
  <2>2. LockWord'
    BY <1>3, WritersKept, QuietStep DEF IInv, TypeOK, ExclusiveCheck, words, locals,
          budget, At, Runs, Goto
  <2>3. Control'
    BY <1>3, CtxFacts, ConstantFacts DEF IInv, TypeOK, Control, ExclusiveCheck, words,
          locals, budget, At, Runs, Goto, ExclusiveLabels, EnteringShared, WakeLabels,
          IsExclusive
  <2>4. ~dead'
    <3>1. c = Main(Lwp(c)) /\ pc[c] # "x_held"
      BY <1>3, CtxFacts DEF IInv, Control, ExclusiveCheck, At, ExclusiveLabels
    <3>2. mutex # LockedValue(c)
      BY <3>1, Owner
    <3> QED
      BY <1>3, <3>2 DEF ExclusiveCheck
  <2> QED
    BY <2>1, <2>2, <2>3, <2>4 DEF IInv, NoFalseDeadlock
<1>4. ASSUME NEW c \in Ctx, ExclusivePark(c) PROVE IInv'
  <2>1. TypeOK'
    BY <1>4, CtxFacts, ConstantFacts DEF IInv, TypeOK, Control, ExclusivePark, Park,
          words, locals, budget, At, Runs, Goto, Labels, WakeLabels, EnteringShared
  <2>2. LockWord'
    BY <1>4, WritersKept, QuietStep DEF IInv, TypeOK, ExclusivePark, Park, words,
          locals, budget, At, Runs, Goto
  <2>3. Control'
    BY <1>4, CtxFacts DEF IInv, TypeOK, Control, ExclusivePark, Park,
          words, locals, budget, At, Runs, Goto, ExclusiveLabels, EnteringShared,
          WakeLabels
  <2>4. ~dead'
    BY <1>4 DEF IInv, ExclusivePark, Park, words, locals, budget, At, Runs, Goto
  <2> QED
    BY <2>1, <2>2, <2>3, <2>4 DEF IInv, NoFalseDeadlock
<1>5. ASSUME NEW c \in Ctx, ExclusiveDequeue(c) PROVE IInv'
  <2>1. TypeOK'
    BY <1>5, CtxFacts, ConstantFacts DEF IInv, TypeOK, Control, ExclusiveDequeue,
          locals, budget, At, Runs, Goto, Labels, WakeLabels, EnteringShared
  <2>2. LockWord'
    BY <1>5, WritersKept, QuietStep DEF IInv, TypeOK, ExclusiveDequeue, locals, budget,
          At, Runs, Goto
  <2>3. Control'
    BY <1>5, CtxFacts DEF IInv, TypeOK, Control, ExclusiveDequeue, locals,
          budget, At, Runs, Goto, ExclusiveLabels, EnteringShared, WakeLabels
  <2>4. ~dead'
    BY <1>5 DEF IInv, ExclusiveDequeue, locals, budget, At, Runs, Goto
  <2> QED
    BY <2>1, <2>2, <2>3, <2>4 DEF IInv, NoFalseDeadlock
<1>6. ASSUME NEW c \in Ctx, ExclusiveWake(c) PROVE IInv'
  <2>0. waiter[c] \in Threads
    BY <1>6 DEF IInv, TypeOK, Control, WakeLabels, ExclusiveWake, Wake, Unpark, words,
          budget, At, Runs, Goto
  <2>1. TypeOK'
    BY <1>6, <2>0, CtxFacts, ConstantFacts DEF IInv, TypeOK, ExclusiveWake, Wake,
          Unpark, words, budget, At, Runs, Goto, Labels
  <2>2. LockWord'
    BY <1>6, WritersKept, QuietStep DEF IInv, TypeOK, ExclusiveWake, Wake, Unpark,
          words, budget, At, Runs, Goto
  <2>3. Control'
    BY <1>6, CtxFacts DEF IInv, TypeOK, Control, ExclusiveWake, Wake,
          Unpark, words, budget, At, Runs, Goto, ExclusiveLabels, EnteringShared,
          WakeLabels
  <2>4. ~dead'
    BY <1>6 DEF IInv, ExclusiveWake, Wake, Unpark, words, budget, At, Runs, Goto
  <2> QED
    BY <2>1, <2>2, <2>3, <2>4 DEF IInv, NoFalseDeadlock
<1> QED
  BY <1>1, <1>2, <1>3, <1>4, <1>5, <1>6

\* Every step of _rtld_exclusive_exit keeps the invariant: its plain store of
\* 0 overwrites its own lock and nobody else's.
LEMMA ExclusiveExitSteps ==
    ASSUME IInv, NEW x \in Ctx,
              \/ ExclusiveExit(x) \/ ExitReadExclusive(x) \/ ExitWakeExclusive(x) \/ ExitReadShared(x)
              \/ ExitWakeShared(x) \/ ExitUnmask(x)
    PROVE  IInv'
<1>1. ASSUME NEW c \in Ctx, ExclusiveExit(c) PROVE IInv'
  <2>1. TypeOK'
    BY <1>1, CtxFacts, ConstantFacts DEF IInv, TypeOK, Control, ExclusiveExit, locals,
          budget, At, Runs, Goto, Labels, WakeLabels, EnteringShared
  <2>2. LockWord'
    <3>1. c \in Writers
      BY <1>1 DEF Writers, ExclusiveExit, locals, budget, At, Runs, Goto
    <3>2. Holds = {} /\ Writers = {c}
      BY <3>1 DEF IInv, LockWord
    <3>3. Holds' = {} /\ mutex' = 0
      BY <1>1, <3>2 DEF Holds, ExclusiveExit, locals, budget, At, Runs, Goto
    <3>4. Writers' = {}
      BY <1>1, <3>2 DEF IInv, TypeOK, Writers, ExclusiveExit, locals, budget, At, Runs,
          Goto
    <3> QED
      BY <3>3, <3>4, FS_EmptySet, ConstantFacts DEF LockWord, IsExclusive
  <2>3. Control'
    BY <1>1, CtxFacts DEF IInv, TypeOK, Control, ExclusiveExit, locals,
          budget, At, Runs, Goto, ExclusiveLabels, EnteringShared, WakeLabels
  <2>4. ~dead'
    BY <1>1 DEF IInv, ExclusiveExit, locals, budget, At, Runs, Goto
  <2> QED
    BY <2>1, <2>2, <2>3, <2>4 DEF IInv, NoFalseDeadlock
<1>2. ASSUME NEW c \in Ctx, ExitReadExclusive(c) PROVE IInv'
  <2>1. TypeOK'
    BY <1>2, CtxFacts, ConstantFacts DEF IInv, TypeOK, Control, ExitReadExclusive,
          ReadWaiter, words, budget, At, Runs, Goto, Labels, WakeLabels, EnteringShared
  <2>2. LockWord'
    BY <1>2, WritersKept, QuietStep DEF IInv, TypeOK, ExitReadExclusive, ReadWaiter,
          words, budget, At, Runs, Goto
  <2>3. Control'
    BY <1>2, CtxFacts DEF IInv, TypeOK, Control, ExitReadExclusive,
          ReadWaiter, words, budget, At, Runs, Goto, ExclusiveLabels, EnteringShared,
          WakeLabels
  <2>4. ~dead'
    BY <1>2 DEF IInv, ExitReadExclusive, ReadWaiter, words, budget, At, Runs, Goto
  <2> QED
    BY <2>1, <2>2, <2>3, <2>4 DEF IInv, NoFalseDeadlock
<1>3. ASSUME NEW c \in Ctx, ExitWakeExclusive(c) PROVE IInv'
  <2>0. waiter[c] \in Threads
    BY <1>3 DEF IInv, TypeOK, Control, WakeLabels, ExitWakeExclusive, Wake, Unpark,
          words, budget, At, Runs, Goto
  <2>1. TypeOK'
    BY <1>3, <2>0, CtxFacts, ConstantFacts DEF IInv, TypeOK, ExitWakeExclusive, Wake,
          Unpark, words, budget, At, Runs, Goto, Labels
  <2>2. LockWord'
    BY <1>3, WritersKept, QuietStep DEF IInv, TypeOK, ExitWakeExclusive, Wake, Unpark,
          words, budget, At, Runs, Goto
  <2>3. Control'
    BY <1>3, CtxFacts DEF IInv, TypeOK, Control, ExitWakeExclusive, Wake,
          Unpark, words, budget, At, Runs, Goto, ExclusiveLabels, EnteringShared,
          WakeLabels
  <2>4. ~dead'
    BY <1>3 DEF IInv, ExitWakeExclusive, Wake, Unpark, words, budget, At, Runs, Goto
  <2> QED
    BY <2>1, <2>2, <2>3, <2>4 DEF IInv, NoFalseDeadlock
<1>4. ASSUME NEW c \in Ctx, ExitReadShared(c) PROVE IInv'
  <2>1. TypeOK'
    BY <1>4, CtxFacts, ConstantFacts DEF IInv, TypeOK, Control, ExitReadShared,
          ReadWaiter, words, budget, At, Runs, Goto, Labels, WakeLabels, EnteringShared
  <2>2. LockWord'
    BY <1>4, WritersKept, QuietStep DEF IInv, TypeOK, ExitReadShared, ReadWaiter, words,
          budget, At, Runs, Goto
  <2>3. Control'
    BY <1>4, CtxFacts DEF IInv, TypeOK, Control, ExitReadShared,
          ReadWaiter, words, budget, At, Runs, Goto, ExclusiveLabels, EnteringShared,
          WakeLabels
  <2>4. ~dead'
    BY <1>4 DEF IInv, ExitReadShared, ReadWaiter, words, budget, At, Runs, Goto
  <2> QED
    BY <2>1, <2>2, <2>3, <2>4 DEF IInv, NoFalseDeadlock
<1>5. ASSUME NEW c \in Ctx, ExitWakeShared(c) PROVE IInv'
  <2>0. waiter[c] \in Threads
    BY <1>5 DEF IInv, TypeOK, Control, WakeLabels, ExitWakeShared, Wake, Unpark, words,
          budget, At, Runs, Goto
  <2>1. TypeOK'
    BY <1>5, <2>0, CtxFacts, ConstantFacts DEF IInv, TypeOK, ExitWakeShared, Wake,
          Unpark, words, budget, At, Runs, Goto, Labels
  <2>2. LockWord'
    BY <1>5, WritersKept, QuietStep DEF IInv, TypeOK, ExitWakeShared, Wake, Unpark,
          words, budget, At, Runs, Goto
  <2>3. Control'
    BY <1>5, CtxFacts DEF IInv, TypeOK, Control, ExitWakeShared, Wake,
          Unpark, words, budget, At, Runs, Goto, ExclusiveLabels, EnteringShared,
          WakeLabels
  <2>4. ~dead'
    BY <1>5 DEF IInv, ExitWakeShared, Wake, Unpark, words, budget, At, Runs, Goto
  <2> QED
    BY <2>1, <2>2, <2>3, <2>4 DEF IInv, NoFalseDeadlock
<1>6. ASSUME NEW c \in Ctx, ExitUnmask(c) PROVE IInv'
  <2>1. TypeOK'
    BY <1>6, CtxFacts, ConstantFacts DEF IInv, TypeOK, Control, ExitUnmask, words,
          locals, budget, At, Runs, Goto, Labels, WakeLabels, EnteringShared
  <2>2. LockWord'
    BY <1>6, WritersKept, QuietStep DEF IInv, TypeOK, ExitUnmask, words, locals, budget,
          At, Runs, Goto
  <2>3. Control'
    BY <1>6, CtxFacts DEF IInv, TypeOK, Control, ExitUnmask, words, locals,
          budget, At, Runs, Goto, ExclusiveLabels, EnteringShared, WakeLabels
  <2>4. ~dead'
    BY <1>6 DEF IInv, ExitUnmask, words, locals, budget, At, Runs, Goto
  <2> QED
    BY <2>1, <2>2, <2>3, <2>4 DEF IInv, NoFalseDeadlock
<1> QED
  BY <1>1, <1>2, <1>3, <1>4, <1>5, <1>6

\* A signal leaves the interrupted flow where it was, or ends its park.
LEMMA Interrupted ==
    ASSUME IInv, NEW t \in Threads, NEW sig, Signal(t, sig)
    PROVE  \E resume \in Labels :
              /\ pc' = [pc EXCEPT ![Main(t)] = resume, ![Handler(t)] = "s_load"]
              /\ \/ resume = pc[Main(t)]
                 \/ resume = "s_dequeue" /\ pc[Main(t)] = "s_park"
                 \/ resume = "x_dequeue" /\ pc[Main(t)] = "x_park"
<1>1. pc[Main(t)] \in Labels /\ "s_dequeue" \in Labels /\ "x_dequeue" \in Labels
  BY CtxFacts DEF IInv, TypeOK, Labels
<1>2. PICK resume \in Resumed(pc[Main(t)]) :
         pc' = [pc EXCEPT ![Main(t)] = resume, ![Handler(t)] = "s_load"]
  BY DEF Signal
<1>3. \/ resume = pc[Main(t)]
      \/ resume = "s_dequeue" /\ pc[Main(t)] = "s_park"
      \/ resume = "x_dequeue" /\ pc[Main(t)] = "x_park"
  BY DEF Resumed
<1> QED
  BY <1>1, <1>2, <1>3

\* Beginning an operation, or interrupting a thread, keeps the invariant: a
\* handler that starts over an exclusive section has done nothing yet.
LEMMA RequestSteps ==
    ASSUME IInv,
           \/ \E c \in Ctx : SharedEnter(c) \/ ExclusiveEnter(c)
           \/ \E t \in Threads, sig \in {"SIGTRAP", "other"} : Signal(t, sig)
    PROVE  IInv'
<1>1. ASSUME NEW c \in Ctx, SharedEnter(c) PROVE IInv'
  <2>1. TypeOK'
    BY <1>1, CtxFacts, ConstantFacts DEF IInv, TypeOK, SharedEnter, SharedLoad, words,
          At, Runs, Goto, Labels
  <2>2. LockWord'
    BY <1>1, WritersKept, QuietStep DEF IInv, TypeOK, SharedEnter, SharedLoad, words,
          At, Runs, Goto
  <2>3. Control'
    BY <1>1, CtxFacts, ConstantFacts DEF IInv, TypeOK, Control, SharedEnter,
          SharedLoad, words, At, Runs, Goto, ExclusiveLabels, EnteringShared, WakeLabels,
          IsExclusive
  <2>4. NoFalseDeadlock'
    BY <1>1, DeadLoad DEF SharedEnter, At
  <2> QED
    BY <2>1, <2>2, <2>3, <2>4 DEF IInv, NoFalseDeadlock
<1>2. ASSUME NEW c \in Ctx, ExclusiveEnter(c) PROVE IInv'
  <2>1. TypeOK'
    BY <1>2, CtxFacts, ConstantFacts DEF IInv, TypeOK, ExclusiveEnter, words, locals, At,
          Runs, Goto, Labels
  <2>2. LockWord'
    BY <1>2, WritersKept, QuietStep DEF IInv, TypeOK, ExclusiveEnter, words, At, Runs, Goto
  <2>3. Control'
    BY <1>2, CtxFacts DEF IInv, TypeOK, Control, ExclusiveEnter, locals, At,
          Runs, Goto, ExclusiveLabels, EnteringShared, WakeLabels
  <2>4. ~dead'
    BY <1>2 DEF ExclusiveEnter, At, Runs
  <2> QED
    BY <2>1, <2>2, <2>3, <2>4 DEF IInv, NoFalseDeadlock
<1>3. ASSUME NEW t \in Threads, NEW sig, Signal(t, sig) PROVE IInv'
  <2>1. PICK resume \in Labels :
           /\ pc' = [pc EXCEPT ![Main(t)] = resume, ![Handler(t)] = "s_load"]
           /\ \/ resume = pc[Main(t)]
              \/ resume = "s_dequeue" /\ pc[Main(t)] = "s_park"
              \/ resume = "x_dequeue" /\ pc[Main(t)] = "x_park"
    BY <1>3, Interrupted
  <2>2. pc[Handler(t)] = "idle" /\ depth[Handler(t)] = 0
    BY <1>3, CtxFacts DEF Signal, Runs
  <2>3. TypeOK'
    BY <1>3, <2>1, CtxFacts, ConstantFacts DEF IInv, TypeOK, Signal, words, locals, Labels
  <2>4. LockWord'
    <3>1. Writers' = Writers
      BY <2>1, <2>2, CtxFacts DEF IInv, TypeOK, Writers
    <3> QED
      BY <1>3, <3>1, QuietStep DEF IInv, Signal, words
  <2>5. Control'
    BY <1>3, <2>1, <2>2, CtxFacts, ConstantFacts DEF IInv, TypeOK, Control,
          Signal, locals, ExclusiveLabels, EnteringShared, WakeLabels
  <2>6. ~dead'
    BY <1>3 DEF Signal, Runs
  <2> QED
    BY <2>3, <2>4, <2>5, <2>6 DEF IInv, NoFalseDeadlock
<1> QED
  BY <1>1, <1>2, <1>3

-----------------------------------------------------------------------------
(* The theorems. *)

\* The inductive invariant of the lock holds in every reachable state.
THEOREM Invariance == Spec => []IInv
<1>1. Init => IInv
  <2> SUFFICES ASSUME Init PROVE IInv
    OBVIOUS
  <2>1. TypeOK
    <3>1. ParkModes \subseteq BOOLEAN
      BY LockAssumption
    <3>2. parkBlocks \in BOOLEAN
      BY <3>1, Zenon DEF Init
    <3>3. mutex \in 0 .. 2 * Mask - 1 /\ 0 \in 0 .. 2 * Mask - 1 /\ 0 \in 0 .. MaxDepth
      BY ConstantFacts DEF Init
    <3>4. ops \in [Threads -> 0 .. MaxOps] /\ signals \in 0 .. MaxSignals
      BY ConstantFacts DEF Init
    <3>5. pc \in [Ctx -> Labels]
      BY DEF Init, Labels
    <3> QED
      BY <3>2, <3>3, <3>4, <3>5, Zenon DEF Init, TypeOK
  <2>2. Holds = {} /\ Writers = {}
    BY ConstantFacts DEF Init, Holds, Writers
  <2>3. LockWord
    BY <2>2, ConstantFacts, FS_EmptySet DEF Init, LockWord, IsExclusive
  <2>4. Control
    BY DEF Init, Control, ExclusiveLabels, EnteringShared, WakeLabels
  <2> QED
    BY <2>1, <2>3, <2>4 DEF IInv, NoFalseDeadlock, Init
<1>2. IInv /\ [Next]_vars => IInv'
  <2> SUFFICES ASSUME IInv, [Next]_vars PROVE IInv'
    OBVIOUS
  <2>1. ASSUME NEW c \in Ctx, SharedStep(c) PROVE IInv'
    BY <2>1, SharedEnterSteps, SharedExitSteps DEF SharedStep
  <2>2. ASSUME NEW c \in Ctx, ExclusiveStep(c) PROVE IInv'
    BY <2>2, ExclusiveEnterSteps, ExclusiveExitSteps DEF ExclusiveStep
  <2>3. CASE UNCHANGED vars
    BY <2>3 DEF vars, IInv, NoFalseDeadlock, TypeOK, LockWord, Control, Holds, Writers,
          IsExclusive, LockedValue
  <2> QED
    BY <2>1, <2>2, <2>3, RequestSteps DEF Next, Step, Terminated
<1> QED
  BY <1>1, <1>2, PTL DEF Spec

\* Type correctness of the lock, for any number of threads.
THEOREM TypeCorrect == Spec => []TypeOK
<1>1. IInv => TypeOK
  BY DEF IInv
<1> QED
  BY <1>1, Invariance, PTL

\* _rtld_mutex always counts the shared sections or names the one owner.
THEOREM LockWordCorrect == Spec => []LockWord
<1>1. IInv => LockWord
  BY DEF IInv
<1> QED
  BY <1>1, Invariance, PTL

\* An exclusive section excludes every other section of every thread and of
\* every signal handler.
THEOREM Exclusion == Spec => []MutualExclusion
<1>1. IInv => MutualExclusion
  <2> SUFFICES ASSUME IInv, NEW c \in Writers PROVE Writers = {c} /\ Holds = {}
    BY DEF MutualExclusion
  <2>1. IsExclusive(mutex)
    BY DEF IInv, LockWord
  <2> QED
    BY <2>1 DEF IInv, LockWord
<1> QED
  BY <1>1, Invariance, PTL

\* "dead lock detected" is reported only to the handler of a SIGTRAP that came
\* through the mask of its own thread's exclusive section: to no main flow, and
\* to no handler of a signal that the mask blocks.
THEOREM DeadlockReportSound == Spec => []NoFalseDeadlock
<1>1. IInv => NoFalseDeadlock
  BY DEF IInv
<1> QED
  BY <1>1, Invariance, PTL

-----------------------------------------------------------------------------
\* With a zero lock word nobody is inside.
LEMMA FreeLock ==
    ASSUME IInv, mutex = 0
    PROVE  Writers = {} /\ \A c \in Ctx : depth[c] = 0
<1>1. Writers = {} /\ Cardinality(Holds) = 0
  BY ConstantFacts DEF IInv, LockWord, IsExclusive
<1>2. Holds = {}
  BY <1>1, HoldsFinite, FS_EmptySet
<1>3. ASSUME NEW c \in Ctx, depth[c] # 0 PROVE FALSE
  <2>1. depth[c] \in 0 .. MaxDepth
    BY DEF IInv, TypeOK
  <2>2. << c, depth[c] >> \in Holds
    BY <1>3, <2>1, LockAssumption DEF Holds
  <2> QED
    BY <1>2, <2>2
<1> QED
  BY <1>1, <1>3

\* The two steps that enter a section and the two that leave one are the
\* abstract lock's.
LEMMA SectionSteps ==
    ASSUME IInv, NEW c \in Ctx,
           SharedCas(c) \/ SharedDec(c) \/ ExclusiveCas(c) \/ ExclusiveExit(c)
    PROVE  Abstract!Next \/ (depth' = depth /\ Writers' = Writers)
<1> USE DEF IInv, TypeOK
<1>1. CASE SharedCas(c) /\ mutex = cur[c]
  <2>1. Writers = {}
    <3>1. pc[c] = "s_cas" /\ mutex \in Int /\ mutex < Mask
      BY <1>1, ConstantFacts DEF Control, SharedCas, At
    <3>2. ~IsExclusive(mutex)
      BY <3>1, ConstantFacts DEF IsExclusive
    <3> QED
      BY <3>2 DEF LockWord
  <2>2. Writers' = Writers
    BY <1>1, WritersKept DEF SharedCas, At
  <2>3. Abstract!AcquireShared(c)
    BY <1>1, <2>1, <2>2 DEF Abstract!AcquireShared, SharedCas
  <2> QED
    BY <2>3 DEF Abstract!Next
<1>2. CASE SharedCas(c) /\ mutex # cur[c]
  BY <1>2, WritersKept DEF SharedCas, At
<1>3. CASE SharedDec(c)
  <2>1. depth[c] > 0
    BY <1>3 DEF Control, SharedDec, At
  <2>2. Writers' = Writers
    <3>1. pc[c] = "sx_dec" /\ Goto(c, IF mutex - 1 # 0 THEN "idle" ELSE "sx_read")
      BY <1>3 DEF SharedDec, At
    <3> QED
      BY <3>1, WritersKept
  <2>3. Abstract!ReleaseShared(c)
    BY <1>3, <2>1, <2>2 DEF Abstract!ReleaseShared, SharedDec
  <2> QED
    BY <2>3 DEF Abstract!Next
<1>4. CASE ExclusiveCas(c) /\ mutex = 0
  <2>1. Writers = {} /\ \A r \in Ctx : depth[r] = 0
    BY <1>4, FreeLock
  <2>2. pc' = [pc EXCEPT ![c] = "x_held"] /\ depth' = depth
    BY <1>4 DEF ExclusiveCas, Goto
  <2>3. Writers' = {c}
    BY <2>1, <2>2 DEF Writers
  <2>4. Abstract!AcquireExclusive(c)
    BY <2>1, <2>2, <2>3 DEF Abstract!AcquireExclusive
  <2> QED
    BY <2>4 DEF Abstract!Next
<1>5. CASE ExclusiveCas(c) /\ mutex # 0
  BY <1>5, WritersKept DEF ExclusiveCas, At
<1>6. CASE ExclusiveExit(c)
  <2>1. c \in Writers
    BY <1>6 DEF ExclusiveExit, At, Writers
  <2>2. Writers = {c}
    BY <2>1 DEF LockWord
  <2>3. pc' = [pc EXCEPT ![c] = "xx_readx"] /\ depth' = depth
    BY <1>6 DEF ExclusiveExit, Goto
  <2>4. Writers' = {}
    BY <2>2, <2>3 DEF Writers
  <2>5. Abstract!ReleaseExclusive(c)
    BY <2>2, <2>3, <2>4 DEF Abstract!ReleaseExclusive
  <2> QED
    BY <2>5 DEF Abstract!Next
<1> QED
  BY <1>1, <1>2, <1>3, <1>4, <1>5, <1>6

\* The other steps neither enter nor leave a section.
LEMMA OtherSteps ==
    ASSUME IInv, NEW c \in Ctx,
           \/ SharedRetry(c) \/ SharedSwap(c) \/ SharedCheck(c) \/ SharedCheckWaiter(c)
           \/ SharedPark(c) \/ SharedDequeue(c) \/ SharedWake(c) \/ SharedExit(c)
           \/ SharedExitRead(c) \/ SharedExitWake(c) \/ ExclusiveSwap(c) \/ ExclusiveCheck(c)
           \/ ExclusivePark(c) \/ ExclusiveDequeue(c) \/ ExclusiveWake(c)
           \/ ExitReadExclusive(c) \/ ExitWakeExclusive(c) \/ ExitReadShared(c)
           \/ ExitWakeShared(c) \/ ExitUnmask(c) \/ SharedEnter(c) \/ ExclusiveEnter(c)
    PROVE  depth' = depth /\ Writers' = Writers
<1>0. pc \in [Ctx -> Labels]
  BY DEF IInv, TypeOK
<1>1. PICK label : label # "x_held" /\ pc[c] # "x_held" /\ Goto(c, label) /\ depth' = depth
  <2>1. CASE SharedRetry(c) \/ SharedEnter(c)
    BY <2>1, Zenon DEF SharedRetry, SharedEnter, SharedLoad, At
  <2>2. CASE SharedSwap(c) \/ SharedCheck(c) \/ SharedCheckWaiter(c) \/ SharedDequeue(c) \/ SharedExit(c)
    BY <2>2, Zenon DEF SharedSwap, SharedCheck, SharedCheckWaiter, SharedDequeue, SharedExit, At
  <2>3. CASE ExclusiveSwap(c) \/ ExclusiveCheck(c) \/ ExclusiveDequeue(c) \/ ExitUnmask(c)
             \/ ExclusiveEnter(c)
    BY <2>3, Zenon DEF ExclusiveSwap, ExclusiveCheck, ExclusiveDequeue, ExitUnmask, ExclusiveEnter, At
  <2>4. CASE SharedPark(c) \/ ExclusivePark(c)
    BY <2>4, Zenon DEF SharedPark, ExclusivePark, Park, At
  <2>5. CASE SharedWake(c) \/ SharedExitWake(c) \/ ExclusiveWake(c) \/ ExitWakeExclusive(c)
             \/ ExitWakeShared(c)
    BY <2>5, Zenon DEF SharedWake, SharedExitWake, ExclusiveWake, ExitWakeExclusive,
          ExitWakeShared, Wake, At
  <2>6. CASE SharedExitRead(c) \/ ExitReadExclusive(c) \/ ExitReadShared(c)
    BY <2>6, Zenon DEF SharedExitRead, ExitReadExclusive, ExitReadShared, ReadWaiter, At
  <2> QED
    BY <2>1, <2>2, <2>3, <2>4, <2>5, <2>6
<1> QED
  BY <1>0, <1>1, WritersKept

\* A signal leaves the interrupted flow outside or inside its section.
LEMMA SignalStep ==
    ASSUME IInv, NEW t \in Threads, NEW sig, Signal(t, sig)
    PROVE  depth' = depth /\ Writers' = Writers
<1>1. pc[Handler(t)] = "idle" /\ Main(t) # Handler(t) /\ Main(t) \in Ctx /\ Handler(t) \in Ctx
  BY CtxFacts DEF Signal, Runs
<1>2. PICK resume : /\ \/ resume = pc[Main(t)]
                       \/ pc[Main(t)] = "s_park" /\ resume = "s_dequeue"
                       \/ pc[Main(t)] = "x_park" /\ resume = "x_dequeue"
                    /\ pc' = [pc EXCEPT ![Main(t)] = resume, ![Handler(t)] = "s_load"]
  BY Interrupted
<1>3. pc \in [Ctx -> Labels] /\ depth' = depth
  BY DEF IInv, TypeOK, Signal
<1> QED
  BY <1>1, <1>2, <1>3 DEF Writers

\* The lock of ld.elf_so implements the reader/writer lock of RwLock, for any
\* number of threads, nesting depth and signals, and whether or not _lwp_park
\* sleeps.
THEOREM Refinement == Spec => Implements
<1>1. Init => Abstract!Init
  BY DEF Init, Abstract!Init, Writers
<1>2. IInv /\ [Next]_vars => [Abstract!Next]_<< depth, Writers >>
  <2> SUFFICES ASSUME IInv, [Next]_vars
               PROVE  Abstract!Next \/ (depth' = depth /\ Writers' = Writers)
    OBVIOUS
  <2>1. ASSUME NEW c \in Ctx, SharedEnter(c) \/ ExclusiveEnter(c) \/ Step(c)
        PROVE  Abstract!Next \/ (depth' = depth /\ Writers' = Writers)
    BY <2>1, SectionSteps, OtherSteps DEF Step, SharedStep, ExclusiveStep
  <2>2. CASE UNCHANGED vars
    BY <2>2 DEF vars, Writers
  <2> QED
    BY <2>1, <2>2, SignalStep DEF Next, Terminated
<1> QED
  BY <1>1, <1>2, Invariance, PTL DEF Spec, Implements, Abstract!Spec


-----------------------------------------------------------------------------
(* The waiter words *)

WaitingShared == {"s_check", "s_check2", "s_park", "s_dequeue"}
WaitingExclusive == {"x_check", "x_park", "x_dequeue"}

\* A waiter word names a thread that will still clear it.
Queued ==
    /\ waiterShared # 0 => \E c \in Ctx : Lwp(c) = waiterShared /\ pc[c] \in WaitingShared
    /\ waiterExclusive # 0 => \E c \in Ctx : Lwp(c) = waiterExclusive /\ pc[c] \in WaitingExclusive

\* Control moves, and does not pass the step that clears the word.
LEMMA QueuedGoto ==
    ASSUME Queued, pc \in [Ctx -> Labels], NEW c \in Ctx, NEW label, Goto(c, label),
           waiterShared' = waiterShared, waiterExclusive' = waiterExclusive,
           pc[c] \in WaitingShared => label \in WaitingShared,
           pc[c] \in WaitingExclusive => label \in WaitingExclusive
    PROVE  Queued'
<1>1. pc'[c] = label /\ \A d \in Ctx : d # c => pc'[d] = pc[d]
  BY DEF Goto
<1>2. ASSUME waiterShared # 0
      PROVE  \E d \in Ctx : Lwp(d) = waiterShared /\ pc'[d] \in WaitingShared
  BY <1>1, <1>2 DEF Queued
<1>3. ASSUME waiterExclusive # 0
      PROVE  \E d \in Ctx : Lwp(d) = waiterExclusive /\ pc'[d] \in WaitingExclusive
  BY <1>1, <1>3 DEF Queued
<1> QED
  BY <1>2, <1>3 DEF Queued

\* The steps that write a waiter word.
LEMMA QueueSteps ==
    ASSUME IInv, Queued, NEW c \in Ctx,
           SharedSwap(c) \/ ExclusiveSwap(c) \/ SharedDequeue(c) \/ ExclusiveDequeue(c)
    PROVE  Queued'
<1>0. pc \in [Ctx -> Labels]
  BY DEF IInv, TypeOK
<1>1. CASE SharedSwap(c)
  <2>1. /\ pc[c] = "s_swap" /\ waiterShared' = Lwp(c) /\ waiterExclusive' = waiterExclusive
        /\ pc'[c] = "s_check" /\ \A d \in Ctx : d # c => pc'[d] = pc[d]
    BY <1>0, <1>1 DEF SharedSwap, At, Goto
  <2>2. Lwp(c) = waiterShared' /\ pc'[c] \in WaitingShared
    BY <2>1 DEF WaitingShared
  <2>3. pc[c] \notin WaitingExclusive
    BY <2>1 DEF WaitingExclusive
  <2> QED
    BY <2>1, <2>2, <2>3 DEF Queued
<1>2. CASE ExclusiveSwap(c)
  <2>1. /\ pc[c] = "x_swap" /\ waiterExclusive' = Lwp(c) /\ waiterShared' = waiterShared
        /\ pc'[c] = "x_check" /\ \A d \in Ctx : d # c => pc'[d] = pc[d]
    BY <1>0, <1>2 DEF ExclusiveSwap, At, Goto
  <2>2. Lwp(c) = waiterExclusive' /\ pc'[c] \in WaitingExclusive
    BY <2>1 DEF WaitingExclusive
  <2>3. pc[c] \notin WaitingShared
    BY <2>1 DEF WaitingShared
  <2> QED
    BY <2>1, <2>2, <2>3 DEF Queued
<1>3. CASE SharedDequeue(c)
  <2>1. /\ pc[c] = "s_dequeue" /\ waiterExclusive' = waiterExclusive
        /\ waiterShared' = IF waiterShared = Lwp(c) THEN 0 ELSE waiterShared
        /\ \A d \in Ctx : d # c => pc'[d] = pc[d]
    BY <1>0, <1>3 DEF SharedDequeue, At, Goto
  <2>2. pc[c] \notin WaitingExclusive
    BY <2>1 DEF WaitingExclusive
  <2> QED
    BY <2>1, <2>2 DEF Queued
<1>4. CASE ExclusiveDequeue(c)
  <2>1. /\ pc[c] = "x_dequeue" /\ waiterShared' = waiterShared
        /\ waiterExclusive' = IF waiterExclusive = Lwp(c) THEN 0 ELSE waiterExclusive
        /\ \A d \in Ctx : d # c => pc'[d] = pc[d]
    BY <1>0, <1>4 DEF ExclusiveDequeue, At, Goto
  <2>2. pc[c] \notin WaitingShared
    BY <2>1 DEF WaitingShared
  <2> QED
    BY <2>1, <2>2 DEF Queued
<1> QED
  BY <1>1, <1>2, <1>3, <1>4

\* The steps that read them or concern other words.
LEMMA UnqueuedSteps ==
    ASSUME IInv, Queued, NEW c \in Ctx,
           \/ SharedEnter(c) \/ ExclusiveEnter(c)
           \/ SharedRetry(c) \/ SharedCas(c) \/ SharedCheck(c)
           \/ SharedCheckWaiter(c) \/ SharedPark(c) \/ SharedWake(c)
           \/ SharedExit(c) \/ SharedDec(c) \/ SharedExitRead(c) \/ SharedExitWake(c)
           \/ ExclusiveCas(c) \/ ExclusiveCheck(c) \/ ExclusivePark(c) \/ ExclusiveWake(c)
           \/ ExclusiveExit(c) \/ ExitReadExclusive(c) \/ ExitWakeExclusive(c)
           \/ ExitReadShared(c) \/ ExitWakeShared(c) \/ ExitUnmask(c)
    PROVE  Queued'
<1>0. pc \in [Ctx -> Labels]
  BY DEF IInv, TypeOK
<1>1. PICK label : /\ Goto(c, label)
                   /\ waiterShared' = waiterShared /\ waiterExclusive' = waiterExclusive
                   /\ pc[c] \in WaitingShared => label \in WaitingShared
                   /\ pc[c] \in WaitingExclusive => label \in WaitingExclusive
  <2>1. CASE SharedEnter(c) \/ SharedRetry(c)
    BY <2>1 DEF SharedEnter, SharedRetry, SharedLoad, At, words, WaitingShared, WaitingExclusive
  <2>2. CASE ExclusiveEnter(c)
    BY <2>2 DEF ExclusiveEnter, At, words, WaitingShared, WaitingExclusive
  <2>3. CASE SharedCas(c)
    BY <2>3 DEF SharedCas, At, words, WaitingShared, WaitingExclusive
  <2>4. CASE SharedCheck(c) \/ SharedCheckWaiter(c)
    BY <2>4 DEF SharedCheck, SharedCheckWaiter, At, words, WaitingShared, WaitingExclusive
  <2>5. CASE SharedPark(c) \/ ExclusivePark(c)
    BY <2>5 DEF SharedPark, ExclusivePark, Park, At, words, WaitingShared, WaitingExclusive
  <2>6. CASE SharedWake(c) \/ SharedExitWake(c) \/ ExclusiveWake(c) \/ ExitWakeExclusive(c)
             \/ ExitWakeShared(c)
    BY <2>6 DEF SharedWake, SharedExitWake, ExclusiveWake, ExitWakeExclusive, ExitWakeShared,
          Wake, At, words, WaitingShared, WaitingExclusive
  <2>7. CASE SharedExit(c) \/ SharedDec(c)
    BY <2>7 DEF SharedExit, SharedDec, At, words, WaitingShared, WaitingExclusive
  <2>8. CASE SharedExitRead(c) \/ ExitReadExclusive(c) \/ ExitReadShared(c)
    BY <2>8 DEF SharedExitRead, ExitReadExclusive, ExitReadShared, ReadWaiter, At, words,
          WaitingShared, WaitingExclusive
  <2>9. CASE ExclusiveCas(c) \/ ExclusiveExit(c)
    BY <2>9 DEF ExclusiveCas, ExclusiveExit, At, words, WaitingShared, WaitingExclusive
  <2>10. CASE ExclusiveCheck(c) \/ ExitUnmask(c)
    BY <2>10 DEF ExclusiveCheck, ExitUnmask, At, words, WaitingShared, WaitingExclusive
  <2> QED
    BY <2>1, <2>2, <2>3, <2>4, <2>5, <2>6, <2>7, <2>8, <2>9, <2>10
<1> QED
  BY <1>0, <1>1, QueuedGoto

\* A signal that ends a park leaves the thread in the queue.
LEMMA QueuedSignal ==
    ASSUME IInv, Queued, NEW t \in Threads, NEW sig, Signal(t, sig)
    PROVE  Queued'
<1>1. pc[Handler(t)] = "idle" /\ Main(t) # Handler(t) /\ Main(t) \in Ctx /\ Handler(t) \in Ctx
  BY CtxFacts DEF Signal, Runs
<1>2. PICK resume : /\ \/ resume = pc[Main(t)]
                       \/ pc[Main(t)] = "s_park" /\ resume = "s_dequeue"
                       \/ pc[Main(t)] = "x_park" /\ resume = "x_dequeue"
                    /\ pc' = [pc EXCEPT ![Main(t)] = resume, ![Handler(t)] = "s_load"]
  BY Interrupted
<1>3. pc \in [Ctx -> Labels] /\ waiterShared' = waiterShared /\ waiterExclusive' = waiterExclusive
  BY DEF IInv, TypeOK, Signal, words
<1>4. \A d \in Ctx : /\ pc[d] \in WaitingShared => pc'[d] \in WaitingShared
                     /\ pc[d] \in WaitingExclusive => pc'[d] \in WaitingExclusive
  BY <1>1, <1>2, <1>3 DEF WaitingShared, WaitingExclusive
<1> QED
  BY <1>3, <1>4 DEF Queued

\* When every thread has left the lock, the lock word and the two waiter words
\* are 0: whatever interleaving of swaps, late wake-ups and signals led there,
\* no stale id is left behind.
THEOREM NothingLeftBehind == Spec => []QuiescentClean
<1>1. Init => Queued
  BY DEF Init, Queued
<1>2. IInv /\ Queued /\ [Next]_vars => Queued'
  <2> SUFFICES ASSUME IInv, Queued, [Next]_vars PROVE Queued'
    OBVIOUS
  <2>1. ASSUME NEW c \in Ctx, SharedEnter(c) \/ ExclusiveEnter(c) \/ Step(c) PROVE Queued'
    BY <2>1, QueueSteps, UnqueuedSteps DEF Step, SharedStep, ExclusiveStep
  <2>2. CASE UNCHANGED vars
    BY <2>2 DEF vars, Queued
  <2> QED
    BY <2>1, <2>2, QueuedSignal DEF Next, Terminated
<1>3. IInv /\ Queued => QuiescentClean
  <2> SUFFICES ASSUME IInv, Queued, \A c \in Ctx : pc[c] = "idle" /\ depth[c] = 0
               PROVE  mutex = 0 /\ waiterExclusive = 0 /\ waiterShared = 0
    BY DEF QuiescentClean, AllOut
  <2>1. waiterExclusive = 0 /\ waiterShared = 0
    BY DEF Queued, WaitingShared, WaitingExclusive
  <2>2. Writers = {} /\ Holds = {}
    BY DEF Writers, Holds
  <2>3. Cardinality({}) = 0
    BY FS_EmptySet
  <2> QED
    BY <2>1, <2>2, <2>3 DEF IInv, LockWord
<1> QED
  BY <1>1, <1>2, <1>3, Invariance, PTL DEF Spec
==============================================================================
