---------------------------- MODULE ExitHandlers ----------------------------
(* What atexit, __cxa_atexit and __cxa_finalize promise their callers: a     *)
(* finalization calls the pending handlers of its library (all of them, at   *)
(* exit), the newest first, each exactly once, including those registered    *)
(* or finalized by the handlers it calls, and returns when none is left.     *)
EXTENDS Naturals, Sequences, SequencesExt

CONSTANTS Handlers,     \* handlers: a function registered twice is two of them
          Dsos,         \* libraries that have handlers of their own
          NoDso         \* no library: a handler of atexit, the argument of exit

VARIABLES pending,      \* registered and not yet called, newest first
          active        \* the libraries of the finalizations begun, innermost first

vars == << pending, active >>

Matches(d, e) == d = NoDso \/ d = e.dso

Init == pending = << >> /\ active = << >>

Register(h, d) ==
    /\ pending' = << [fn |-> h, dso |-> d] >> \o pending
    /\ UNCHANGED active

Begin(d) == active' = << d >> \o active /\ UNCHANGED pending

\* The innermost finalization calls the newest handler it is to call.
Call == \E i \in 1..Len(pending) :
    /\ active # << >>
    /\ Matches(Head(active), pending[i])
    /\ \A j \in 1..(i - 1) : ~Matches(Head(active), pending[j])
    /\ pending' = RemoveAt(pending, i)
    /\ UNCHANGED active

Return ==
    /\ active # << >>
    /\ \A i \in 1..Len(pending) : ~Matches(Head(active), pending[i])
    /\ active' = Tail(active)
    /\ UNCHANGED pending

Next == \/ \E h \in Handlers, d \in Dsos \cup {NoDso} : Register(h, d)
        \/ \E d \in Dsos \cup {NoDso} : Begin(d)
        \/ Call
        \/ Return

Spec == Init /\ [][Next]_vars
=============================================================================
