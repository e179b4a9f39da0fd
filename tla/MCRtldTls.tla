------------------------------ MODULE MCRtldTls ------------------------------
(* Instance of RtldTls for TLC.                                              *)
EXTENDS RtldTls, TLC

CONSTANTS main, libi, p, q, r, t0, t1

\* main and libi are there from the start.  p is a plugin; q is one that refers
\* to p's and then its own variables with initial-exec code; r is one with
\* initialised variables that refers to its own.
Sizes == main :> 3 @@ libi :> 2 @@ p :> 2 @@ q :> 2 @@ r :> 1
Aligns == main :> 2 @@ libi :> 4 @@ p :> 1 @@ q :> 2 @@ r :> 1
InitSizes == main :> 1 @@ libi :> 0 @@ p :> 0 @@ q :> 0 @@ r :> 1
TpoffRefs == main :> << >> @@ libi :> << main >> @@ p :> << >> @@ q :> << p, q >> @@ r :> << r >>
==============================================================================
