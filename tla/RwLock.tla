------------------------------- MODULE RwLock -------------------------------
(***************************************************************************)
(* What the callers of _rtld_shared_enter and _rtld_exclusive_enter rely   *)
(* on: a reader/writer lock with nested shared sections.  No lock word, no *)
(* waiters, no signals: acquiring and releasing are one step each.         *)
(***************************************************************************)
EXTENDS Integers

CONSTANT Clients

VARIABLES readers,   \* shared sections each client is inside
          writers    \* clients inside the exclusive section

Init == readers = [c \in Clients |-> 0] /\ writers = {}

AcquireShared(c) ==
    /\ writers = {}
    /\ readers' = [readers EXCEPT ![c] = @ + 1]
    /\ UNCHANGED writers

ReleaseShared(c) ==
    /\ readers[c] > 0
    /\ readers' = [readers EXCEPT ![c] = @ - 1]
    /\ UNCHANGED writers

AcquireExclusive(c) ==
    /\ writers = {} /\ \A r \in Clients : readers[r] = 0
    /\ writers' = {c}
    /\ UNCHANGED readers

ReleaseExclusive(c) ==
    /\ writers = {c}
    /\ writers' = {}
    /\ UNCHANGED readers

Next == \E c \in Clients : \/ AcquireShared(c) \/ ReleaseShared(c)
                           \/ AcquireExclusive(c) \/ ReleaseExclusive(c)

Spec == Init /\ [][Next]_<< readers, writers >>

=============================================================================
