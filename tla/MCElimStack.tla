---------------------------- MODULE MCElimStack ----------------------------
(***************************************************************************)
(* Small instances of ElimStack for TLC.                                   *)
(***************************************************************************)
EXTENDS ElimStack, TLC

CONSTANTS t1, t2, t3, v1, v2, v3

Push(v) == {[kind |-> "push", val |-> v]}
Pop == {[kind |-> "pop", val |-> NoVal]}

\* Three threads on one exchange slot: pushes racing on the inner
\* head (the loser offers its request in the slot) and a pop that may find
\* the inner stack contended and take the offered request.
MCThreads == {t1, t2, t3}
MCProgram ==
    t1 :> <<Push(v1), Push(v3)>> @@
    t2 :> <<Push(v2)>> @@
    t3 :> <<Pop, Pop>>

====
