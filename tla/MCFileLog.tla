----------------------------- MODULE MCFileLog ------------------------------
(* FileLog with two writing threads, in one process or in two. *)
EXTENDS FileLog

CONSTANTS a, b, p, q

OneProcess == [w \in Writers |-> p]
TwoProcesses == [w \in Writers |-> IF w = a THEN p ELSE q]
=============================================================================
