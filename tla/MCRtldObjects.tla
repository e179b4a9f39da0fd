---------------------------- MODULE MCRtldObjects ----------------------------
(* Instances of RtldObjects for TLC: which library needs which, what         *)
(* functions they have, and how many calls each thread makes.                *)
EXTENDS RtldObjects

CONSTANTS a, b, c, d, e, f, g, t1, t2, t3

\* a needs b, b needs d, and d is also what c needs.
Shared == a :> << b >> @@ b :> << d >> @@ c :> << d >> @@ d :> << >>

\* The same, with c needing b.
Stacked == a :> << b >> @@ b :> << d >> @@ c :> << b >> @@ d :> << >>

\* a and f need b, b needs d, e needs d and c, f also g: for loads that fail.
Failing == a :> << b >> @@ b :> << d >> @@ c :> << >> @@ d :> << >>
               @@ e :> << d, c >> @@ f :> << b, g >> @@ g :> << >>

\* One constructor and one destructor each.
OneEach == [l \in Libs |-> [ifunc |-> 0, init |-> 1, fini |-> 1]]

\* The same, with a second constructor in b and an ifunc in c.
Arrays == [l \in Libs |-> [ifunc |-> IF l = c THEN 1 ELSE 0,
                           init |-> IF l = b THEN 2 ELSE 1, fini |-> 1]]

\* dlopen without RTLD_NODELETE; c with it; g not at all.
Plain == [l \in Libs |-> {FALSE}]
PinC == [Plain EXCEPT ![c] = {TRUE}]
NotG == [Plain EXCEPT ![g] = {}]

NoDtors == [l \in Libs |-> 0]
DtorInA == [l \in Libs |-> IF l = a THEN 1 ELSE 0]

TwoCalls == [t \in Threads |-> 2]
FiveInAll == [t \in Threads |-> IF t = t3 THEN 1 ELSE 2]
ThreeCalls == [t \in Threads |-> 3]
FiveCalls == [t \in Threads |-> 5]

\* Threads are interchangeable: no constant of the model tells them apart.
ThreadSymmetry == Permutations(Threads)

\* Those with as many calls to make are.
PairSymmetry == Permutations(Threads \ {t3})
=============================================================================
