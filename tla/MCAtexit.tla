------------------------------ MODULE MCAtexit ------------------------------
(* Instance of Atexit for TLC.                                               *)
EXTENDS Atexit

CONSTANTS t1, t2, d1, d2
=============================================================================
