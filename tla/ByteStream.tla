----------------------------- MODULE ByteStream -----------------------------
(* What a stdio stream promises the program, with no buffer in sight: a file *)
(* of bytes, a position, and the bytes that will be read next, which differ  *)
(* from the file's after ungetc.  call is the last call and its result.      *)
EXTENDS Integers, Sequences, SequencesExt

CONSTANTS Bytes

VARIABLES data, tell, input, call

vars == << data, tell, input, call >>

Rest(d, n) == SubSeq(d, n + 1, Len(d))

\* The bytes of d with those from n on replaced by b.
Put(d, n, b) == SubSeq(d, 1, n) \o b \o Rest(d, n + Len(b))

\* getc, fread: the next bytes of the input; end of file only at its end.
Read ==
    /\ call'.op = "read" /\ Len(call'.bytes) > 0
    /\ input = call'.bytes \o input'
    /\ tell' = tell + Len(call'.bytes) /\ data' = data

Eof == call'.op = "eof" /\ input = << >> /\ UNCHANGED << data, tell, input >>

Unread ==
    /\ call'.op = "unread" /\ input' = call'.bytes \o input
    /\ tell' = tell - 1 /\ data' = data

Write ==
    /\ call'.op = "write"
    /\ data' = Put(data, tell, call'.bytes) /\ tell' = tell + Len(call'.bytes)
    /\ input' = Rest(data', tell')

\* The pushed-back bytes are forgotten.
Seek ==
    /\ call'.op = "seek" /\ data' = data /\ tell' = call'.pos
    /\ input' = Rest(data, tell')

\* fflush and ftell change nothing; ftell returns the position.
Flush == call'.op = "flush" /\ UNCHANGED << data, tell, input >>
Tell == call'.op = "tell" /\ call'.pos = tell /\ UNCHANGED << data, tell, input >>

\* A call that fails without a write error has no effect.
Fail == call'.op = "fail" /\ UNCHANGED << data, tell, input >>

Next == Read \/ Eof \/ Unread \/ Write \/ Seek \/ Flush \/ Tell \/ Fail
=============================================================================
