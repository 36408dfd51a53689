------------------------------ MODULE MCCache ------------------------------
(***************************************************************************)
(* Small instances of Cache for TLC.                                       *)
(***************************************************************************)
EXTENDS Cache, TLC

CONSTANTS t1, t2, t3, k1, k2

MCThreads == {t1, t2, t3}
MCKeys == {k1, k2}

Get(k) == {[kind |-> "get", key |-> k]}
Replace(k) == {[kind |-> "replace", key |-> k]}

\* t1 gets k1 and then replaces it; t2 and t3 race t1 and each other for
\* k1 or k2 and then ask again.  Every replace is of a key the cache holds.
LiveProgram ==
    t1 :> <<Get(k1), Replace(k1)>> @@
    t2 :> <<Get(k1) \cup Get(k2), Get(k2)>> @@
    t3 :> <<Get(k1) \cup Get(k2), Get(k1)>>

\* replace_with of a key the cache does not hold.
AbsentProgram == t1 :> <<Replace(k1)>> @@ t2 :> <<Get(k1)>> @@ t3 :> <<>>


====
