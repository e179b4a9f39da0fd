---------------------------- MODULE MCRtldScript ----------------------------
(***************************************************************************)
(* RtldObjects with clients that make given calls in a given order, for    *)
(* situations that take more threads than TLC can explore with all calls.  *)
(* How the steps of the calls interleave is left open.                     *)
(***************************************************************************)
EXTENDS RtldObjects

CONSTANTS n, u, k, m, r, x, t1, t2, t3, t4

\* r needs k and m; m needs n and u, of which u cannot be loaded.
NeedsScript == n :> << >> @@ u :> << >> @@ k :> << >> @@ x :> << >>
                   @@ m :> << n, u >> @@ r :> << k, m >>

\* x has two ifuncs, n has a destructor.
FnScript == [l \in Libs |-> [ifunc |-> IF l = x THEN 2 ELSE 0, init |-> 0,
                             fini |-> IF l = n THEN 1 ELSE 0]]
ModesScript == [l \in Libs |-> {FALSE}]
CxaScript == [l \in Libs |-> 0]
OpsScript == [t \in Threads |-> 3]

(***************************************************************************)
(* t1's dlopen(r) and t2's dlopen(x) both come to wait for the destructor  *)
(* of n, to load it again for m.  Then t1 goes on, fails at u, and its     *)
(* collection frees k and has to wait before m.                            *)
(***************************************************************************)
Script == << << t4, "dlopen", n >>, << t3, "dlopen", k >>, << t3, "dlopen", x >>,
             << t4, "dlclose", n >>, << t1, "dlopen", r >>, << t2, "dlclose", k >>,
             << t2, "dlopen", x >>, << t4, "dlopen", n >> >>

Made == MapThenSumSet(LAMBDA t : MaxOps[t] - ops[t], Threads)

ScriptNext ==
    \/ /\ Made < Len(Script)
       /\ LET c == Script[Made + 1] IN
          \/ c[2] = "dlopen" /\ Dlopen(c[1], c[3], FALSE)
          \/ c[2] = "dlclose" /\ Dlclose(c[1], c[3])
    \/ \E t \in Threads : Relock(t) \/ Step(t)
    \/ Terminated

ScriptSpec == Init /\ [][ScriptNext]_vars
=============================================================================
