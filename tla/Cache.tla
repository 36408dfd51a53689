------------------------------- MODULE Cache -------------------------------
(***************************************************************************)
(* The key/value cache of src/homework/src/hello_server/cache.rs.          *)
(*                                                                         *)
(* raw_map holds the values, lock_map a flag per key that is true while    *)
(* some thread computes the key's value with f.  Every critical section    *)
(* of either RwLock that ends before the next lock is taken is one step;   *)
(* f runs outside all locks.  Only replace_with holds a write guard of     *)
(* lock_map from one step to the next (wlock).  replace_with takes         *)
(* &mut self: it runs while no other call is in progress.                  *)
(*                                                                         *)
(* A value f returns is named by its key and by how many times f has been  *)
(* called for that key before.                                             *)
(***************************************************************************)
EXTENDS Integers, Sequences, FiniteSets

CONSTANTS
    Threads,   \* the threads calling the cache
    Keys,      \* the keys they ask for
    None,      \* absent entry / no thread / no value
    Program    \* Program[t][i]: the operations t may call i-th

ASSUME ParamAssumption == None \notin Threads

Ops == [kind : {"get", "replace"}, key : Keys]
NoOp == [kind |-> "none", key |-> None]

ASSUME ProgramAssumption == Program \in [Threads -> Seq(SUBSET Ops)]

Vals == Keys \X (Nat \ {0})

\* None stands for Option::None: no flag, no value.
ASSUME NoneAssumption == None \notin BOOLEAN \cup Vals

VARIABLES
    flag,     \* flag[k]: lock_map's AtomicBool for k, or None
    raw,      \* raw[k]: raw_map's value for k, or None
    wlock,    \* the thread holding lock_map's write guard across steps
    fcalls,   \* fcalls[k]: calls of f for k by get_or_insert_with
    ncalls,   \* ncalls[k]: calls of f for k by either method
    pc,       \* where each thread is
    op,       \* its operation
    val,      \* the value its f returned
    ret,      \* the value it returned
    done      \* operations completed per thread

vars == <<flag, raw, wlock, fcalls, ncalls, pc, op, val, ret, done>>

PCs == {"idle", "check", "relock", "f", "store", "clear", "spin",
        "r_lock", "r_relock", "r_f", "r_store", "r_clear", "ret"}

\* Cache::default: both maps empty.
Init ==
    /\ flag = [k \in Keys |-> None]
    /\ raw = [k \in Keys |-> None]
    /\ wlock = None
    /\ fcalls = [k \in Keys |-> 0]
    /\ ncalls = [k \in Keys |-> 0]
    /\ pc = [t \in Threads |-> "idle"]
    /\ op = [t \in Threads |-> NoOp]
    /\ val = [t \in Threads |-> None]
    /\ ret = [t \in Threads |-> None]
    /\ done = [t \in Threads |-> 0]

Key(t) == op[t].key
\* A replace_with in progress excludes every other call (&mut self).
Exclusive(t) == \A u \in Threads \ {t} : pc[u] = "idle"
Replacing == \E t \in Threads : op[t].kind = "replace"

Invoke(t) ==
    /\ pc[t] = "idle"
    /\ done[t] < Len(Program[t])
    /\ ~Replacing
    /\ \E o \in Program[t][done[t] + 1] :
         /\ o.kind = "replace" => Exclusive(t)
         /\ op' = [op EXCEPT ![t] = o]
         /\ pc' = [pc EXCEPT ![t] = IF o.kind = "get" THEN "check" ELSE "r_lock"]
    /\ UNCHANGED <<flag, raw, wlock, fcalls, ncalls, val, ret, done>>

(***************************************************************************)
(* get_or_insert_with                                                      *)
(***************************************************************************)
\* lock_map.read(): is the key absent?
Check(t) ==
    /\ pc[t] = "check"
    /\ wlock = None
    /\ pc' = [pc EXCEPT ![t] = IF flag[Key(t)] = None THEN "relock" ELSE "spin"]
    /\ UNCHANGED <<flag, raw, wlock, fcalls, ncalls, op, val, ret, done>>

\* Mutant: the absence is not checked again under the write lock.
RelockNoRecheck(t) ==
    /\ pc[t] = "relock"
    /\ wlock = None
    /\ flag' = [flag EXCEPT ![Key(t)] = TRUE]
    /\ pc' = [pc EXCEPT ![t] = "f"]
    /\ UNCHANGED <<raw, wlock, fcalls, ncalls, op, val, ret, done>>

\* lock_map.write(): if still absent, insert the flag true and go compute;
\* otherwise wait for the thread that does.
Relock(t) ==
    /\ pc[t] = "relock"
    /\ wlock = None
    /\ \/ /\ flag[Key(t)] = None
          /\ flag' = [flag EXCEPT ![Key(t)] = TRUE]
          /\ pc' = [pc EXCEPT ![t] = "f"]
       \/ /\ flag[Key(t)] # None
          /\ pc' = [pc EXCEPT ![t] = "spin"]
          /\ UNCHANGED flag
    /\ UNCHANGED <<raw, wlock, fcalls, ncalls, op, val, ret, done>>

\* Mutant: the value is never put in raw_map.
CallFNoStore(t) ==
    LET k == Key(t) IN
    /\ pc[t] = "f"
    /\ fcalls' = [fcalls EXCEPT ![k] = @ + 1]
    /\ ncalls' = [ncalls EXCEPT ![k] = @ + 1]
    /\ val' = [val EXCEPT ![t] = <<k, ncalls[k] + 1>>]
    /\ pc' = [pc EXCEPT ![t] = "clear"]
    /\ UNCHANGED <<flag, raw, wlock, op, ret, done>>

\* val = f(key), outside every lock.
CallF(t) ==
    LET k == Key(t) IN
    /\ pc[t] = "f"
    /\ fcalls' = [fcalls EXCEPT ![k] = @ + 1]
    /\ ncalls' = [ncalls EXCEPT ![k] = @ + 1]
    /\ val' = [val EXCEPT ![t] = <<k, ncalls[k] + 1>>]
    /\ pc' = [pc EXCEPT ![t] = "store"]
    /\ UNCHANGED <<flag, raw, wlock, op, ret, done>>

\* raw_map.write().insert(key, val).
Store(t) ==
    /\ pc[t] = "store"
    /\ raw' = [raw EXCEPT ![Key(t)] = val[t]]
    /\ pc' = [pc EXCEPT ![t] = "clear"]
    /\ UNCHANGED <<flag, wlock, fcalls, ncalls, op, val, ret, done>>

\* Mutant: the flag is left set.
ClearNoStore(t) ==
    /\ pc[t] = "clear"
    /\ wlock = None
    /\ ret' = [ret EXCEPT ![t] = val[t]]
    /\ pc' = [pc EXCEPT ![t] = "ret"]
    /\ UNCHANGED <<flag, raw, wlock, fcalls, ncalls, op, val, done>>

\* lock_map.write(), flag.store(false); return val.
Clear(t) ==
    /\ pc[t] = "clear"
    /\ wlock = None
    /\ flag' = [flag EXCEPT ![Key(t)] = FALSE]
    /\ ret' = [ret EXCEPT ![t] = val[t]]
    /\ pc' = [pc EXCEPT ![t] = "ret"]
    /\ UNCHANGED <<raw, wlock, fcalls, ncalls, op, val, done>>

\* One iteration of the wait loop: under lock_map.read(), once the flag is
\* false, return raw_map.read().get(key).unwrap().clone() (None would be
\* the unwrap's panic).
Spin(t) ==
    LET k == Key(t) IN
    /\ pc[t] = "spin"
    /\ wlock = None
    /\ \/ /\ flag[k] = TRUE
          /\ UNCHANGED <<ret, pc>>
       \/ /\ flag[k] = FALSE
          /\ ret' = [ret EXCEPT ![t] = raw[k]]
          /\ pc' = [pc EXCEPT ![t] = "ret"]
    /\ UNCHANGED <<flag, raw, wlock, fcalls, ncalls, op, val, done>>

(***************************************************************************)
(* replace_with                                                            *)
(***************************************************************************)
\* let m_wlock = lock_map.write(); a present key: flag.store(true), drop
\* the guard, go compute.  An absent key: the guard is kept, and the else
\* branch calls lock_map.write() again while holding it; that call waits
\* for the thread itself, so r_relock has no step.
ReplaceLock(t) ==
    /\ pc[t] = "r_lock"
    /\ wlock = None
    /\ \/ /\ flag[Key(t)] # None
          /\ flag' = [flag EXCEPT ![Key(t)] = TRUE]
          /\ pc' = [pc EXCEPT ![t] = "r_f"]
          /\ UNCHANGED wlock
       \/ /\ flag[Key(t)] = None
          /\ wlock' = t
          /\ pc' = [pc EXCEPT ![t] = "r_relock"]
          /\ UNCHANGED flag
    /\ UNCHANGED <<raw, fcalls, ncalls, op, val, ret, done>>

\* f(key), raw_map.write().insert, then lock_map.write() and
\* flag.store(false); return val.
ReplaceF(t) ==
    LET k == Key(t) IN
    /\ pc[t] = "r_f"
    /\ ncalls' = [ncalls EXCEPT ![k] = @ + 1]
    /\ val' = [val EXCEPT ![t] = <<k, ncalls[k] + 1>>]
    /\ pc' = [pc EXCEPT ![t] = "r_store"]
    /\ UNCHANGED <<flag, raw, wlock, fcalls, op, ret, done>>

ReplaceStore(t) ==
    /\ pc[t] = "r_store"
    /\ raw' = [raw EXCEPT ![Key(t)] = val[t]]
    /\ pc' = [pc EXCEPT ![t] = "r_clear"]
    /\ UNCHANGED <<flag, wlock, fcalls, ncalls, op, val, ret, done>>

ReplaceClear(t) ==
    /\ pc[t] = "r_clear"
    /\ wlock = None
    /\ flag' = [flag EXCEPT ![Key(t)] = FALSE]
    /\ ret' = [ret EXCEPT ![t] = val[t]]
    /\ pc' = [pc EXCEPT ![t] = "ret"]
    /\ UNCHANGED <<raw, wlock, fcalls, ncalls, op, val, done>>

Finish(t) ==
    /\ pc[t] = "ret"
    /\ pc' = [pc EXCEPT ![t] = "idle"]
    /\ op' = [op EXCEPT ![t] = NoOp]
    /\ val' = [val EXCEPT ![t] = None]
    /\ ret' = [ret EXCEPT ![t] = None]
    /\ done' = [done EXCEPT ![t] = done[t] + 1]
    /\ UNCHANGED <<flag, raw, wlock, fcalls, ncalls>>

Terminated ==
    /\ \A t \in Threads : pc[t] = "idle" /\ done[t] = Len(Program[t])
    /\ UNCHANGED vars

Step(t) ==
    \/ Invoke(t) \/ Check(t) \/ Relock(t) \/ CallF(t) \/ Store(t) \/ Clear(t)
    \/ Spin(t) \/ ReplaceLock(t) \/ ReplaceF(t)
    \/ ReplaceStore(t) \/ ReplaceClear(t) \/ Finish(t)

Next == (\E t \in Threads : Step(t)) \/ Terminated

Spec == Init /\ [][Next]_vars

\* Threads are preemptively scheduled and std's RwLock hands the lock to
\* a waiting writer: a thread that can go on eventually does.
FairSpec == Spec /\ \A t \in Threads : WF_vars(Step(t))

-----------------------------------------------------------------------------
(***************************************************************************)
(* Properties.                                                             *)
(***************************************************************************)
TypeOK ==
    /\ flag \in [Keys -> BOOLEAN \cup {None}]
    /\ raw \in [Keys -> Vals \cup {None}]
    /\ wlock \in Threads \cup {None}
    /\ fcalls \in [Keys -> Nat]
    /\ ncalls \in [Keys -> Nat]
    /\ pc \in [Threads -> PCs]
    /\ op \in [Threads -> Ops \cup {NoOp}]
    /\ val \in [Threads -> Vals \cup {None}]
    /\ ret \in [Threads -> Vals \cup {None}]
    /\ done \in [Threads -> Nat]

\* get_or_insert_with calls f at most once per key, however many threads
\* ask for it at once (the doc comment of get_or_insert_with).
FOnce == \A k \in Keys : fcalls[k] <= 1

\* Every call of get_or_insert_with that returns returns a value (the
\* unwrap of a waiter does not meet None), the one the cache holds for
\* its key: what storing the value before clearing the flag ensures.
GetsAgree ==
    \A t \in Threads :
        pc[t] = "ret" /\ op[t].kind = "get" => ret[t] # None /\ ret[t] = raw[Key(t)]

\* Every call returns.
OpsReturn == \A t \in Threads : pc[t] # "idle" ~> pc[t] = "idle"

=============================================================================
