---------------------------- MODULE CacheProofs ----------------------------
(***************************************************************************)
(* Proofs about Cache for every thread set, key set and program: f runs    *)
(* at most once per key, and every get returns the value the cache holds.  *)
(***************************************************************************)
EXTENDS Cache, TLAPS

GetPCs == {"check", "relock", "f", "store", "clear", "spin"}
ReplacePCs == {"r_lock", "r_relock", "r_f", "r_store", "r_clear"}

\* A thread of get_or_insert_with between its flag insertion and its flag
\* store computes the key's value.
Computing(t) == pc[t] \in {"f", "store", "clear"}

\* Each thread's program counter agrees with the method it runs, and a
\* thread that has a value from f keeps it until it returns.
OpsMatch ==
    \A t \in Threads :
        /\ pc[t] = "idle" => op[t] = NoOp
        /\ pc[t] # "idle" => op[t] \in Ops
        /\ pc[t] \in GetPCs => op[t].kind = "get"
        /\ pc[t] \in ReplacePCs => op[t].kind = "replace"
        /\ pc[t] \in {"store", "clear", "r_store", "r_clear"} => val[t] \in Vals

\* replace_with takes &mut self: while it runs, every other thread is idle.
ReplaceAlone ==
    \A t \in Threads :
        op[t].kind = "replace" => \A u \in Threads \ {t} : pc[u] = "idle"

\* The thread computing a key holds its flag true, and is the only one.
OneComputer ==
    \A t \in Threads :
        Computing(t) =>
            /\ flag[Key(t)] = TRUE
            /\ \A u \in Threads \ {t} : Computing(u) => Key(u) # Key(t)

\* f has not been called for a key whose flag was never inserted, nor by
\* the thread about to call it.
NotYetCalled ==
    /\ \A k \in Keys : flag[k] = None => fcalls[k] = 0
    /\ \A t \in Threads : pc[t] = "f" => fcalls[Key(t)] = 0

\* The value is in raw_map before its flag is cleared, and a returned get
\* sees its key's flag cleared.
Stored ==
    /\ \A t \in Threads : pc[t] \in {"clear", "r_clear"} => raw[Key(t)] = val[t]
    /\ \A k \in Keys : flag[k] = FALSE => raw[k] \in Vals
    /\ \A t \in Threads :
           pc[t] = "ret" /\ op[t].kind = "get" => flag[Key(t)] = FALSE

\* The inductive invariant behind FOnce and GetsAgree.
IInv ==
    /\ TypeOK /\ OpsMatch /\ ReplaceAlone /\ OneComputer /\ NotYetCalled
    /\ Stored /\ FOnce /\ GetsAgree

USE ParamAssumption, NoneAssumption

\* Cache::default starts in the invariant.
THEOREM InitIInv == Init => IInv
<1> SUFFICES ASSUME Init PROVE IInv
    OBVIOUS
<1>1. TypeOK
    BY DEF Init, TypeOK, PCs, NoOp
<1>2. OpsMatch /\ ReplaceAlone
    BY DEF Init, OpsMatch, ReplaceAlone, NoOp, GetPCs, ReplacePCs
<1>3. OneComputer /\ NotYetCalled /\ Stored
    BY DEF Init, OneComputer, Computing, NotYetCalled, Stored
<1>4. FOnce /\ GetsAgree
    BY DEF Init, FOnce, GetsAgree
<1> QED BY <1>1, <1>2, <1>3, <1>4 DEF IInv

\* A thread inside a call runs an operation of Ops on a key of Keys.
LEMMA InCall ==
    ASSUME IInv, NEW t \in Threads, pc[t] # "idle"
    PROVE  op[t] \in Ops /\ Key(t) \in Keys
BY DEF IInv, OpsMatch, Ops, Key

\* While replace_with runs, every other thread is idle: none computes,
\* none has returned.
LEMMA ReplacerAlone ==
    ASSUME IInv, NEW t \in Threads, pc[t] \in ReplacePCs
    PROVE  \A u \in Threads \ {t} :
               pc[u] = "idle" /\ ~Computing(u) /\ pc[u] \notin {"ret", "clear", "r_clear"}
BY DEF IInv, OpsMatch, ReplaceAlone, Computing, ReplacePCs

\* Cache's entry: a thread starts its next call.
LEMMA InvokeIInv ==
    ASSUME IInv, NEW t \in Threads, Invoke(t)
    PROVE  IInv'
<1>0. /\ pc[t] = "idle" /\ ~Replacing
      /\ UNCHANGED <<flag, raw, wlock, fcalls, ncalls, val, ret, done>>
    BY DEF Invoke
<1>a. done[t] + 1 \in 1 .. Len(Program[t])
    BY DEF Invoke, IInv, TypeOK
<1>b. Program[t][done[t] + 1] \subseteq Ops
    BY <1>a, ProgramAssumption
<1>c. PICK o \in Program[t][done[t] + 1] :
          /\ o.kind = "replace" => Exclusive(t)
          /\ op' = [op EXCEPT ![t] = o]
          /\ pc' = [pc EXCEPT ![t] = IF o.kind = "get" THEN "check" ELSE "r_lock"]
    BY DEF Invoke
<1>d. o \in Ops /\ o.kind \in {"get", "replace"}
    BY <1>b, <1>c DEF Ops
<1>1. TypeOK'
    BY <1>0, <1>c, <1>d DEF IInv, TypeOK, PCs
<1>2. OpsMatch'
    BY <1>0, <1>c, <1>d DEF IInv, OpsMatch, TypeOK, GetPCs, ReplacePCs, NoOp
<1>3. ReplaceAlone'
    <2>1. \A u \in Threads : op[u].kind # "replace"
        BY <1>0 DEF Replacing
    <2> QED BY <1>0, <1>c, <1>d, <2>1 DEF ReplaceAlone, Exclusive, IInv, TypeOK
<1>4. OneComputer'
    BY DEF Invoke, IInv, OneComputer, Computing, ReplaceAlone, OpsMatch, TypeOK, GetPCs, Key
<1>5. NotYetCalled'
    BY DEF Invoke, IInv, NotYetCalled, OneComputer, Computing, ReplaceAlone, OpsMatch, TypeOK, Key
<1>6. Stored'
    BY DEF Invoke, IInv, Stored, OneComputer, Computing, ReplaceAlone, OpsMatch, TypeOK, GetPCs, ReplacePCs, Key
<1>7. FOnce'
    BY DEF Invoke, IInv, FOnce, NotYetCalled, OpsMatch, TypeOK, Key
<1>8. GetsAgree'
    BY DEF Invoke, IInv, GetsAgree, Stored, OneComputer, Computing, ReplaceAlone, OpsMatch, TypeOK, GetPCs, Key
<1> QED BY <1>1, <1>2, <1>3, <1>4, <1>5, <1>6, <1>7, <1>8 DEF IInv

\* get_or_insert_with's first look under lock_map's read guard.
LEMMA CheckIInv ==
    ASSUME IInv, NEW t \in Threads, Check(t)
    PROVE  IInv'
<1>1. TypeOK'
    BY DEF Check, IInv, TypeOK, PCs, Key, Vals, Ops, NoOp
<1>2. OpsMatch'
    BY DEF Check, IInv, OpsMatch, TypeOK, GetPCs, ReplacePCs, Ops, NoOp, Key, Vals
<1>3. ReplaceAlone'
    BY DEF Check, IInv, ReplaceAlone, OpsMatch, TypeOK, GetPCs, ReplacePCs, NoOp
<1>4. OneComputer'
    BY DEF Check, IInv, OneComputer, Computing, ReplaceAlone, OpsMatch, TypeOK, GetPCs, Key
<1>5. NotYetCalled'
    BY DEF Check, IInv, NotYetCalled, OneComputer, Computing, ReplaceAlone, OpsMatch, TypeOK, Key
<1>6. Stored'
    BY DEF Check, IInv, Stored, OneComputer, Computing, ReplaceAlone, OpsMatch, TypeOK, GetPCs, ReplacePCs, Key
<1>7. FOnce'
    BY DEF Check, IInv, FOnce, NotYetCalled, OpsMatch, TypeOK, Key
<1>8. GetsAgree'
    BY DEF Check, IInv, GetsAgree, Stored, OneComputer, Computing, ReplaceAlone, OpsMatch, TypeOK, GetPCs, Key
<1> QED BY <1>1, <1>2, <1>3, <1>4, <1>5, <1>6, <1>7, <1>8 DEF IInv

\* The look again under lock_map's write guard, and the flag insertion.
LEMMA RelockIInv ==
    ASSUME IInv, NEW t \in Threads, Relock(t)
    PROVE  IInv'
<1>1. TypeOK'
    BY DEF Relock, IInv, TypeOK, PCs, Key, Vals, Ops, NoOp
<1>2. OpsMatch'
    BY DEF Relock, IInv, OpsMatch, TypeOK, GetPCs, ReplacePCs, Ops, NoOp, Key, Vals
<1>3. ReplaceAlone'
    BY DEF Relock, IInv, ReplaceAlone, OpsMatch, TypeOK, GetPCs, ReplacePCs, NoOp
<1>0. /\ pc[t] = "relock" /\ Key(t) \in Keys /\ op[t].kind = "get"
      /\ UNCHANGED <<raw, wlock, fcalls, ncalls, op, val, ret, done>>
    BY InCall DEF Relock, IInv, OpsMatch, GetPCs
<1>e. ASSUME flag[Key(t)] = None
      PROVE  OneComputer' /\ NotYetCalled' /\ Stored'
    <2>1. /\ flag' = [flag EXCEPT ![Key(t)] = TRUE]
          /\ pc' = [pc EXCEPT ![t] = "f"]
        BY <1>e DEF Relock
    <2>2. /\ \A u \in Threads : Computing(u) => Key(u) # Key(t)
          /\ \A u \in Threads : pc[u] = "ret" /\ op[u].kind = "get" => Key(u) # Key(t)
          /\ fcalls[Key(t)] = 0
        BY <1>0, <1>e DEF IInv, OneComputer, Computing, Stored, NotYetCalled
    <2>3. \A k \in Keys : flag'[k] = None => flag[k] = None
        BY <1>0, <2>1 DEF IInv, TypeOK
    <2>4. OneComputer'
        BY <1>0, <2>1, <2>2 DEF IInv, OneComputer, Computing, Key, TypeOK
    <2>5. NotYetCalled'
        BY <1>0, <2>1, <2>2, <2>3 DEF IInv, NotYetCalled, TypeOK, Key
    <2>6. Stored'
        BY <1>0, <2>1, <2>2 DEF IInv, Stored, TypeOK, Key
    <2> QED BY <2>4, <2>5, <2>6
<1>f. ASSUME flag[Key(t)] # None
      PROVE  OneComputer' /\ NotYetCalled' /\ Stored'
    <2>1. pc' = [pc EXCEPT ![t] = "spin"] /\ UNCHANGED flag
        BY <1>f DEF Relock
    <2> QED BY <1>0, <2>1 DEF IInv, OneComputer, Computing, NotYetCalled, Stored,
                              TypeOK, Key
<1>4. OneComputer'
    BY <1>e, <1>f
<1>5. NotYetCalled'
    BY <1>e, <1>f
<1>6. Stored'
    BY <1>e, <1>f
<1>7. FOnce'
    BY DEF Relock, IInv, FOnce, NotYetCalled, OpsMatch, TypeOK, Key
<1>8. GetsAgree'
    BY DEF Relock, IInv, GetsAgree, Stored, OneComputer, Computing, ReplaceAlone, OpsMatch, TypeOK, GetPCs, Key
<1> QED BY <1>1, <1>2, <1>3, <1>4, <1>5, <1>6, <1>7, <1>8 DEF IInv

\* The call of f outside every lock.
LEMMA CallFIInv ==
    ASSUME IInv, NEW t \in Threads, CallF(t)
    PROVE  IInv'
<1>0. /\ pc[t] = "f" /\ Key(t) \in Keys /\ ncalls[Key(t)] \in Nat
      /\ flag[Key(t)] = TRUE /\ fcalls[Key(t)] = 0
      /\ \A u \in Threads \ {t} : pc[u] = "f" => Key(u) # Key(t)
      /\ fcalls' = [fcalls EXCEPT ![Key(t)] = @ + 1]
      /\ UNCHANGED <<flag, op>>
    <2>1. pc[t] = "f" /\ Key(t) \in Keys
        BY InCall DEF CallF
    <2> QED BY <2>1 DEF CallF, IInv, TypeOK, OneComputer, Computing, NotYetCalled
<1>1. TypeOK'
    BY <1>0 DEF CallF, IInv, TypeOK, PCs, Key, Vals, Ops, NoOp
<1>2. OpsMatch'
    BY DEF CallF, IInv, OpsMatch, TypeOK, GetPCs, ReplacePCs, Ops, NoOp, Key, Vals
<1>3. ReplaceAlone'
    BY DEF CallF, IInv, ReplaceAlone, OpsMatch, TypeOK, GetPCs, ReplacePCs, NoOp
<1>4. OneComputer'
    BY DEF CallF, IInv, OneComputer, Computing, ReplaceAlone, OpsMatch, TypeOK, GetPCs, Key
<1>5. NotYetCalled'
    <2>1. \A k \in Keys \ {Key(t)} : fcalls'[k] = fcalls[k]
        BY <1>0 DEF IInv, TypeOK
    <2>2. \A k \in Keys : flag'[k] = None => fcalls'[k] = 0
        BY <1>0, <2>1 DEF IInv, NotYetCalled
    <2>3. \A u \in Threads : pc'[u] = "f" => fcalls'[Key(u)'] = 0
        <3> SUFFICES ASSUME NEW u \in Threads, pc'[u] = "f"
                     PROVE  fcalls'[Key(u)'] = 0
            OBVIOUS
        <3>1. u # t /\ pc[u] = "f" /\ Key(u)' = Key(u) /\ Key(u) \in Keys
            BY <1>0, InCall DEF CallF, IInv, TypeOK, Key
        <3> QED BY <1>0, <2>1, <3>1 DEF IInv, NotYetCalled
    <2> QED BY <2>2, <2>3 DEF NotYetCalled
<1>6. Stored'
    BY DEF CallF, IInv, Stored, OneComputer, Computing, ReplaceAlone, OpsMatch, TypeOK, GetPCs, ReplacePCs, Key
<1>7. FOnce'
    BY DEF CallF, IInv, FOnce, NotYetCalled, OpsMatch, TypeOK, Key
<1>8. GetsAgree'
    BY DEF CallF, IInv, GetsAgree, Stored, OneComputer, Computing, ReplaceAlone, OpsMatch, TypeOK, GetPCs, Key
<1> QED BY <1>1, <1>2, <1>3, <1>4, <1>5, <1>6, <1>7, <1>8 DEF IInv

\* raw_map's insertion.
LEMMA StoreIInv ==
    ASSUME IInv, NEW t \in Threads, Store(t)
    PROVE  IInv'
<1>1. TypeOK'
    BY DEF Store, IInv, TypeOK, PCs, Key, Vals, Ops, NoOp
<1>2. OpsMatch'
    BY DEF Store, IInv, OpsMatch, TypeOK, GetPCs, ReplacePCs, Ops, NoOp, Key, Vals
<1>3. ReplaceAlone'
    BY DEF Store, IInv, ReplaceAlone, OpsMatch, TypeOK, GetPCs, ReplacePCs, NoOp
<1>4. OneComputer'
    BY DEF Store, IInv, OneComputer, Computing, ReplaceAlone, OpsMatch, TypeOK, GetPCs, Key
<1>5. NotYetCalled'
    BY DEF Store, IInv, NotYetCalled, OneComputer, Computing, ReplaceAlone, OpsMatch, TypeOK, Key
<1>6. Stored'
    <2>1. /\ pc[t] = "store" /\ Key(t) \in Keys /\ val[t] \in Vals
          /\ flag[Key(t)] = TRUE
          /\ raw' = [raw EXCEPT ![Key(t)] = val[t]]
          /\ pc' = [pc EXCEPT ![t] = "clear"]
          /\ UNCHANGED <<flag, op, val>>
        BY InCall DEF Store, IInv, OpsMatch, OneComputer, Computing
    <2>2. \A u \in Threads \ {t} :
              /\ pc[u] = "clear" => Key(u) # Key(t)
              /\ pc[u] # "r_clear"
        BY <2>1 DEF IInv, OneComputer, Computing, OpsMatch, ReplaceAlone, ReplacePCs
    <2>3. \A k \in Keys \ {Key(t)} : raw'[k] = raw[k]
        BY <2>1 DEF IInv, TypeOK
    <2>4. \A u \in Threads : pc'[u] \in {"clear", "r_clear"} => raw'[Key(u)'] = val'[u]
        BY <2>1, <2>2, <2>3, InCall DEF IInv, Stored, TypeOK, Key
    <2>5. \A k \in Keys : flag'[k] = FALSE => raw'[k] \in Vals
        BY <2>1, <2>3 DEF IInv, Stored
    <2>6. \A u \in Threads : pc'[u] = "ret" /\ op'[u].kind = "get" => flag'[Key(u)'] = FALSE
        BY <2>1 DEF IInv, Stored, TypeOK, Key
    <2> QED BY <2>4, <2>5, <2>6 DEF Stored
<1>7. FOnce'
    BY DEF Store, IInv, FOnce, NotYetCalled, OpsMatch, TypeOK, Key
<1>8. GetsAgree'
    BY DEF Store, IInv, GetsAgree, Stored, OneComputer, Computing, ReplaceAlone, OpsMatch, TypeOK, GetPCs, Key
<1> QED BY <1>1, <1>2, <1>3, <1>4, <1>5, <1>6, <1>7, <1>8 DEF IInv

\* The flag store under lock_map's write guard.
LEMMA ClearIInv ==
    ASSUME IInv, NEW t \in Threads, Clear(t)
    PROVE  IInv'
<1>1. TypeOK'
    BY DEF Clear, IInv, TypeOK, PCs, Key, Vals, Ops, NoOp
<1>2. OpsMatch'
    BY DEF Clear, IInv, OpsMatch, TypeOK, GetPCs, ReplacePCs, Ops, NoOp, Key, Vals
<1>3. ReplaceAlone'
    BY DEF Clear, IInv, ReplaceAlone, OpsMatch, TypeOK, GetPCs, ReplacePCs, NoOp
<1>4. OneComputer'
    BY DEF Clear, IInv, OneComputer, Computing, ReplaceAlone, OpsMatch, TypeOK, GetPCs, Key
<1>5. NotYetCalled'
    BY DEF Clear, IInv, NotYetCalled, OneComputer, Computing, ReplaceAlone, OpsMatch, TypeOK, Key
<1>6. Stored'
    <2>1. /\ pc[t] = "clear" /\ Key(t) \in Keys /\ val[t] \in Vals
          /\ raw[Key(t)] = val[t]
          /\ flag' = [flag EXCEPT ![Key(t)] = FALSE]
          /\ pc' = [pc EXCEPT ![t] = "ret"]
          /\ UNCHANGED <<raw, op, val>>
        BY InCall DEF Clear, IInv, OpsMatch, Stored
    <2>2. \A k \in Keys : flag'[k] = FALSE => raw'[k] \in Vals
        BY <2>1 DEF IInv, Stored, TypeOK
    <2>3. \A u \in Threads : pc'[u] \in {"clear", "r_clear"} => raw'[Key(u)'] = val'[u]
        BY <2>1 DEF IInv, Stored, TypeOK, Key
    <2>4. \A u \in Threads : pc'[u] = "ret" /\ op'[u].kind = "get" => flag'[Key(u)'] = FALSE
        <3> SUFFICES ASSUME NEW u \in Threads, pc'[u] = "ret", op'[u].kind = "get"
                     PROVE  flag'[Key(u)'] = FALSE
            OBVIOUS
        <3>1. CASE u = t
            BY <3>1, <2>1 DEF IInv, TypeOK, Key
        <3>2. CASE u # t
            <4>1. pc[u] = "ret" /\ op[u].kind = "get" /\ Key(u) \in Keys
                BY <3>2, <2>1, InCall DEF IInv, TypeOK
            <4> QED BY <4>1, <2>1 DEF IInv, Stored, TypeOK, Key
        <3> QED BY <3>1, <3>2
    <2> QED BY <2>2, <2>3, <2>4 DEF Stored
<1>7. FOnce'
    BY DEF Clear, IInv, FOnce, NotYetCalled, OpsMatch, TypeOK, Key
<1>8. GetsAgree'
    BY DEF Clear, IInv, GetsAgree, Stored, OneComputer, Computing, ReplaceAlone, OpsMatch, TypeOK, GetPCs, Key
<1> QED BY <1>1, <1>2, <1>3, <1>4, <1>5, <1>6, <1>7, <1>8 DEF IInv

\* One round of the wait loop.
LEMMA SpinIInv ==
    ASSUME IInv, NEW t \in Threads, Spin(t)
    PROVE  IInv'
<1>0. /\ pc[t] = "spin" /\ Key(t) \in Keys /\ op[t].kind = "get"
      /\ UNCHANGED <<flag, raw, wlock, fcalls, ncalls, op, val, done>>
    BY InCall DEF Spin, IInv, OpsMatch, GetPCs
<1>a. CASE flag[Key(t)] = TRUE
    BY <1>a, <1>0 DEF Spin, IInv, TypeOK, OpsMatch, ReplaceAlone, OneComputer,
                      NotYetCalled, Stored, FOnce, GetsAgree, Computing, Key
<1>b. ASSUME flag[Key(t)] # TRUE PROVE TypeOK' /\ GetsAgree'
    <2>1. /\ flag[Key(t)] = FALSE
          /\ ret' = [ret EXCEPT ![t] = raw[Key(t)]]
          /\ pc' = [pc EXCEPT ![t] = "ret"]
        BY <1>b DEF Spin
    <2>2. raw[Key(t)] \in Vals
        BY <1>0, <2>1 DEF IInv, Stored
    <2>3. TypeOK'
        BY <1>0, <2>1, <2>2 DEF IInv, TypeOK, PCs
    <2>4. GetsAgree'
        BY <1>0, <2>1, <2>2, NoneAssumption DEF IInv, GetsAgree, TypeOK, Key
    <2> QED BY <2>3, <2>4
<1>1. TypeOK'
    BY <1>a, <1>b DEF IInv
<1>2. OpsMatch'
    BY DEF Spin, IInv, OpsMatch, TypeOK, GetPCs, ReplacePCs, Ops, NoOp, Key, Vals
<1>3. ReplaceAlone'
    BY DEF Spin, IInv, ReplaceAlone, OpsMatch, TypeOK, GetPCs, ReplacePCs, NoOp
<1>4. OneComputer'
    BY DEF Spin, IInv, OneComputer, Computing, ReplaceAlone, OpsMatch, TypeOK, GetPCs, Key
<1>5. NotYetCalled'
    BY DEF Spin, IInv, NotYetCalled, OneComputer, Computing, ReplaceAlone, OpsMatch, TypeOK, Key
<1>6. Stored'
    BY DEF Spin, IInv, Stored, OneComputer, Computing, ReplaceAlone, OpsMatch, TypeOK, GetPCs, ReplacePCs, Key
<1>7. FOnce'
    BY DEF Spin, IInv, FOnce, NotYetCalled, OpsMatch, TypeOK, Key
<1>8. GetsAgree'
    BY <1>a, <1>b DEF IInv
<1> QED BY <1>1, <1>2, <1>3, <1>4, <1>5, <1>6, <1>7, <1>8 DEF IInv

\* replace_with's write guard and flag store.
LEMMA ReplaceLockIInv ==
    ASSUME IInv, NEW t \in Threads, ReplaceLock(t)
    PROVE  IInv'
<1>1. TypeOK'
    BY DEF ReplaceLock, IInv, TypeOK, PCs, Key, Vals, Ops, NoOp
<1>2. OpsMatch'
    BY DEF ReplaceLock, IInv, OpsMatch, TypeOK, GetPCs, ReplacePCs, Ops, NoOp, Key, Vals
<1>3. ReplaceAlone'
    BY DEF ReplaceLock, IInv, ReplaceAlone, OpsMatch, TypeOK, GetPCs, ReplacePCs, NoOp
<1>0. /\ pc[t] = "r_lock" /\ Key(t) \in Keys
      /\ \A u \in Threads \ {t} : pc[u] = "idle"
      /\ pc'[t] \in {"r_f", "r_relock"}
      /\ \A u \in Threads \ {t} : pc'[u] = pc[u]
      /\ \A k \in Keys : flag'[k] = None => flag[k] = None
      /\ UNCHANGED <<fcalls, op>>
    <2>1. pc[t] = "r_lock" /\ Key(t) \in Keys
        BY InCall DEF ReplaceLock
    <2>2. \A u \in Threads \ {t} : pc[u] = "idle"
        BY <2>1, ReplacerAlone DEF ReplacePCs
    <2> QED BY <2>1, <2>2 DEF ReplaceLock, IInv, TypeOK
<1>4. OneComputer'
    BY <1>0 DEF OneComputer, Computing
<1>5. NotYetCalled'
    BY <1>0 DEF IInv, NotYetCalled
<1>6. Stored'
    BY DEF ReplaceLock, IInv, Stored, OneComputer, Computing, ReplaceAlone, OpsMatch, TypeOK, GetPCs, ReplacePCs, Key
<1>7. FOnce'
    BY DEF ReplaceLock, IInv, FOnce, NotYetCalled, OpsMatch, TypeOK, Key
<1>8. GetsAgree'
    BY DEF ReplaceLock, IInv, GetsAgree, Stored, OneComputer, Computing, ReplaceAlone, OpsMatch, TypeOK, GetPCs, Key
<1> QED BY <1>1, <1>2, <1>3, <1>4, <1>5, <1>6, <1>7, <1>8 DEF IInv

\* replace_with's call of f.
LEMMA ReplaceFIInv ==
    ASSUME IInv, NEW t \in Threads, ReplaceF(t)
    PROVE  IInv'
<1>0. Key(t) \in Keys /\ ncalls[Key(t)] \in Nat
    BY InCall DEF ReplaceF, IInv, TypeOK
<1>1. TypeOK'
    BY <1>0 DEF ReplaceF, IInv, TypeOK, PCs, Key, Vals, Ops, NoOp
<1>2. OpsMatch'
    BY DEF ReplaceF, IInv, OpsMatch, TypeOK, GetPCs, ReplacePCs, Ops, NoOp, Key, Vals
<1>3. ReplaceAlone'
    BY DEF ReplaceF, IInv, ReplaceAlone, OpsMatch, TypeOK, GetPCs, ReplacePCs, NoOp
<1>4. OneComputer'
    BY DEF ReplaceF, IInv, OneComputer, Computing, ReplaceAlone, OpsMatch, TypeOK, GetPCs, Key
<1>5. NotYetCalled'
    BY DEF ReplaceF, IInv, NotYetCalled, OneComputer, Computing, ReplaceAlone, OpsMatch, TypeOK, Key
<1>6. Stored'
    BY DEF ReplaceF, IInv, Stored, OneComputer, Computing, ReplaceAlone, OpsMatch, TypeOK, GetPCs, ReplacePCs, Key
<1>7. FOnce'
    BY DEF ReplaceF, IInv, FOnce, NotYetCalled, OpsMatch, TypeOK, Key
<1>8. GetsAgree'
    BY DEF ReplaceF, IInv, GetsAgree, Stored, OneComputer, Computing, ReplaceAlone, OpsMatch, TypeOK, GetPCs, Key
<1> QED BY <1>1, <1>2, <1>3, <1>4, <1>5, <1>6, <1>7, <1>8 DEF IInv

\* replace_with's insertion.
LEMMA ReplaceStoreIInv ==
    ASSUME IInv, NEW t \in Threads, ReplaceStore(t)
    PROVE  IInv'
<1>1. TypeOK'
    BY DEF ReplaceStore, IInv, TypeOK, PCs, Key, Vals, Ops, NoOp
<1>2. OpsMatch'
    BY DEF ReplaceStore, IInv, OpsMatch, TypeOK, GetPCs, ReplacePCs, Ops, NoOp, Key, Vals
<1>3. ReplaceAlone'
    BY DEF ReplaceStore, IInv, ReplaceAlone, OpsMatch, TypeOK, GetPCs, ReplacePCs, NoOp
<1>4. OneComputer'
    BY DEF ReplaceStore, IInv, OneComputer, Computing, ReplaceAlone, OpsMatch, TypeOK, GetPCs, Key
<1>5. NotYetCalled'
    BY DEF ReplaceStore, IInv, NotYetCalled, OneComputer, Computing, ReplaceAlone, OpsMatch, TypeOK, Key
<1>0. /\ pc[t] = "r_store" /\ Key(t) \in Keys /\ val[t] \in Vals
      /\ \A u \in Threads \ {t} : pc[u] = "idle"
      /\ raw' = [raw EXCEPT ![Key(t)] = val[t]]
      /\ pc' = [pc EXCEPT ![t] = "r_clear"]
      /\ UNCHANGED <<flag, op, val, ret>>
    <2>1. pc[t] = "r_store" /\ Key(t) \in Keys
        BY InCall DEF ReplaceStore
    <2>2. \A u \in Threads \ {t} : pc[u] = "idle"
        BY <2>1, ReplacerAlone DEF ReplacePCs
    <2> QED BY <2>1, <2>2 DEF ReplaceStore, IInv, OpsMatch
<1>a. raw' \in [Keys -> Vals \cup {None}]
    BY <1>0 DEF IInv, TypeOK
<1>6. Stored'
    BY <1>0, <1>a DEF IInv, Stored, TypeOK, Key
<1>7. FOnce'
    BY DEF ReplaceStore, IInv, FOnce, NotYetCalled, OpsMatch, TypeOK, Key
<1>8. GetsAgree'
    BY <1>0 DEF GetsAgree
<1> QED BY <1>1, <1>2, <1>3, <1>4, <1>5, <1>6, <1>7, <1>8 DEF IInv

\* replace_with's flag store.
LEMMA ReplaceClearIInv ==
    ASSUME IInv, NEW t \in Threads, ReplaceClear(t)
    PROVE  IInv'
<1>1. TypeOK'
    BY DEF ReplaceClear, IInv, TypeOK, PCs, Key, Vals, Ops, NoOp
<1>2. OpsMatch'
    BY DEF ReplaceClear, IInv, OpsMatch, TypeOK, GetPCs, ReplacePCs, Ops, NoOp, Key, Vals
<1>3. ReplaceAlone'
    BY DEF ReplaceClear, IInv, ReplaceAlone, OpsMatch, TypeOK, GetPCs, ReplacePCs, NoOp
<1>0. /\ pc[t] = "r_clear"
      /\ \A u \in Threads \ {t} : pc[u] = "idle"
      /\ pc' = [pc EXCEPT ![t] = "ret"]
    <2>1. pc[t] = "r_clear"
        BY DEF ReplaceClear
    <2> QED BY <2>1, ReplacerAlone DEF ReplacePCs, ReplaceClear
<1>4. OneComputer'
    BY <1>0 DEF OneComputer, Computing, IInv, TypeOK
<1>5. NotYetCalled'
    BY DEF ReplaceClear, IInv, NotYetCalled, OneComputer, Computing, ReplaceAlone, OpsMatch, TypeOK, Key
<1>6. Stored'
    BY DEF ReplaceClear, IInv, Stored, OneComputer, Computing, ReplaceAlone, OpsMatch, TypeOK, GetPCs, ReplacePCs, Key
<1>7. FOnce'
    BY DEF ReplaceClear, IInv, FOnce, NotYetCalled, OpsMatch, TypeOK, Key
<1>8. GetsAgree'
    BY DEF ReplaceClear, IInv, GetsAgree, Stored, OneComputer, Computing, ReplaceAlone, OpsMatch, TypeOK, GetPCs, Key
<1> QED BY <1>1, <1>2, <1>3, <1>4, <1>5, <1>6, <1>7, <1>8 DEF IInv

\* The return.
LEMMA FinishIInv ==
    ASSUME IInv, NEW t \in Threads, Finish(t)
    PROVE  IInv'
<1>1. TypeOK'
    BY DEF Finish, IInv, TypeOK, PCs, Key, Vals, Ops, NoOp
<1>2. OpsMatch'
    BY DEF Finish, IInv, OpsMatch, TypeOK, GetPCs, ReplacePCs, Ops, NoOp, Key, Vals
<1>3. ReplaceAlone'
    BY DEF Finish, IInv, ReplaceAlone, OpsMatch, TypeOK, GetPCs, ReplacePCs, NoOp
<1>4. OneComputer'
    BY DEF Finish, IInv, OneComputer, Computing, ReplaceAlone, OpsMatch, TypeOK, GetPCs, Key
<1>5. NotYetCalled'
    BY DEF Finish, IInv, NotYetCalled, OneComputer, Computing, ReplaceAlone, OpsMatch, TypeOK, Key
<1>6. Stored'
    BY DEF Finish, IInv, Stored, OneComputer, Computing, ReplaceAlone, OpsMatch, TypeOK, GetPCs, ReplacePCs, Key
<1>7. FOnce'
    BY DEF Finish, IInv, FOnce, NotYetCalled, OpsMatch, TypeOK, Key
<1>8. GetsAgree'
    BY DEF Finish, IInv, GetsAgree, Stored, OneComputer, Computing, ReplaceAlone, OpsMatch, TypeOK, GetPCs, Key
<1> QED BY <1>1, <1>2, <1>3, <1>4, <1>5, <1>6, <1>7, <1>8 DEF IInv

\* Every step of every thread, and the final stutter, keeps IInv.
THEOREM NextIInv == IInv /\ [Next]_vars => IInv'
<1> SUFFICES ASSUME IInv, [Next]_vars PROVE IInv'
    OBVIOUS
<1>1. CASE UNCHANGED vars
    BY <1>1 DEF vars, IInv, TypeOK, OpsMatch, ReplaceAlone, OneComputer,
                NotYetCalled, Stored, FOnce, GetsAgree, Computing, Key
<1>2. CASE Terminated
    BY <1>2 DEF Terminated, vars, IInv, TypeOK, OpsMatch, ReplaceAlone,
                OneComputer, NotYetCalled, Stored, FOnce, GetsAgree, Computing, Key
<1>3. ASSUME NEW t \in Threads, Step(t) PROVE IInv'
    BY <1>3, InvokeIInv, CheckIInv, RelockIInv, CallFIInv, StoreIInv, ClearIInv,
       SpinIInv, ReplaceLockIInv, ReplaceFIInv, ReplaceStoreIInv,
       ReplaceClearIInv, FinishIInv DEF Step
<1> QED BY <1>1, <1>2, <1>3 DEF Next

\* IInv holds in every reachable state of the cache.
THEOREM IInvInvariant == Spec => []IInv
BY InitIInv, NextIInv, PTL DEF Spec

\* f at most once per key (the property FOnce) for every number of
\* threads, keys and calls: get_or_insert_with calls f only after it has
\* inserted the key's flag itself, under lock_map's write guard, into an
\* absent entry, and an entry never becomes absent again.
THEOREM FOnceInvariant == Spec => []FOnce
BY IInvInvariant, PTL DEF IInv

\* Gets agree (the property GetsAgree) for every instance: a returning
\* get_or_insert_with returns a value, the one raw_map holds for its key,
\* because the value is inserted before the flag is cleared and only a
\* replace_with, which runs alone, writes a key once its flag is cleared.
THEOREM GetsAgreeInvariant == Spec => []GetsAgree
BY IInvInvariant, PTL DEF IInv

====
