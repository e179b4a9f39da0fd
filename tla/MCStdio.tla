------------------------------ MODULE MCStdio ------------------------------
(* Instance of Stdio for TLC.                                               *)
EXTENDS Stdio

CONSTANTS x, nl

\* Every file of up to two bytes, and longer ones.
Contents == BoundedSeq({x, nl}, 2) \cup {<< nl, x, x >>, << x, nl, x >>, << x, x, nl, x >>}

\* No action reads call, the part of the buffer that holds no byte read or written,
\* __SNPT of a stream that may be written, dir if the stream is not for both, or,
\* but for clearing it, __SERR: states that differ in these alone need no second
\* visit.
\* BehavesAsFile is evaluated on every step, also to a state seen before.
Held == SubSeq(f.buf, 1, Min({BufSize, IF f.hasub THEN f.up + f.ur ELSE f.p + f.r}))
StreamView == << [f EXCEPT !.buf = Held, !.err = FALSE, !.npt = @ /\ ~f.wr /\ ~f.rw],
                 busy, IF f.rw THEN dir ELSE "any" >>
=============================================================================
