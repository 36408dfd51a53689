------------------------ MODULE HazardPointerProofs ------------------------
(***************************************************************************)
(* Proofs about HazardPointer for every reader set and every bound on      *)
(* slots, pointers and rounds: each Shield owns its slot alone, and no     *)
(* reader dereferences a freed object.  The second rests on the shape of  *)
(* the bag's list, given by ListFrom, the least next-closed set of slots.  *)
(***************************************************************************)
EXTENDS HazardPointer, TLAPS

\* A reader owns slot[r] from the moment acquire_slot has set its active
\* flag (by the CAS, or as a fresh slot not yet published) until Drop has
\* cleared it.
Owned(r) == Holding(r) \/ pc[r] = "alloc_cas"

Alloced == 1 .. nslots

\* The bag's list, and every scan of try_acquire_inactive, stay within the
\* allocated slots; an owned slot is allocated and active.
SlotsAlloced ==
    /\ head \in Alloced \cup {Null}
    /\ \A s \in Alloced : snext[s] \in Alloced \cup {Null}
    /\ \A r \in Readers : pc[r] = "acq_scan" => slot[r] \in Alloced \cup {Null}
    /\ \A r \in Readers : Owned(r) => slot[r] \in Alloced /\ active[slot[r]]

\* No two readers own the same slot, a fresh one included.
OwnersDistinct ==
    \A r, q \in Readers : r # q /\ Owned(r) /\ Owned(q) => slot[r] # slot[q]

\* The counters and the collector's registers a step increments or reads.
Bounds ==
    /\ \A r \in Readers : pc[r] # "idle" => rounds[r] < Rounds
    /\ cpc # "idle" => retired \in Ptrs
    /\ cpc = "scan_hazard" => cur # Null

\* The inductive invariant behind SlotsExclusive.
IInv == TypeOK /\ Bounds /\ SlotsAlloced /\ OwnersDistinct

USE ParamAssumption

\* HazardBag::new starts in the invariant.
THEOREM InitIInv == Init => IInv
BY DEF Init, IInv, TypeOK, Bounds, SlotsAlloced, OwnersDistinct, Owned,
       Holding, Alloced, SlotIds, Ptrs, Null, PCs

\* The collector touches no slot and no reader.
LEMMA CollectorIInv ==
    ASSUME IInv, CollectorStep
    PROVE  IInv'
<1>1. UNCHANGED <<head, nslots, snext, active, pc, slot, ptrv, rounds>>
    BY DEF CollectorStep, Unlink, ScanHead, ScanActive, ScanHazard, Free
<1>2. SlotsAlloced' /\ OwnersDistinct'
    BY <1>1 DEF IInv, SlotsAlloced, OwnersDistinct, Owned, Holding, Alloced
<1>3. TypeOK' /\ Bounds'
    <2> USE <1>1 DEF IInv, TypeOK, Bounds, Holding, Ptrs, SlotIds, Null
    <2>1. CASE Unlink
        BY <2>1 DEF Unlink
    <2>2. CASE ScanHead
        BY <2>2 DEF ScanHead
    <2>3. CASE ScanActive
        BY <2>3 DEF ScanActive
    <2>4. CASE ScanHazard
        BY <2>4 DEF ScanHazard
    <2>5. CASE Free
        BY <2>5 DEF Free
    <2> QED BY <2>1, <2>2, <2>3, <2>4, <2>5 DEF CollectorStep
<1> QED BY <1>2, <1>3 DEF IInv

\* A step of a reader that keeps its Shield and writes at most the hazard
\* and the pointer being protected keeps the invariant.
LEMMA HoldingStep ==
    ASSUME IInv, NEW r \in Readers, Holding(r), Holding(r)',
           UNCHANGED <<head, nslots, snext, active, slot, rounds, src, freed,
                       cpc, cur, seen, retired>>,
           pc' = [pc EXCEPT ![r] = pc'[r]],
           pc'[r] \in PCs,
           hazard' \in [SlotIds -> Ptrs \cup {Null}],
           ptrv' \in [Readers -> Ptrs \cup {Null}]
    PROVE  IInv'
<1>1. \A q \in Readers : Owned(q)' = Owned(q) /\ (pc'[q] = "acq_scan") = (pc[q] = "acq_scan")
    BY DEF Owned, Holding, IInv, TypeOK
<1>2. TypeOK'
    BY DEF IInv, TypeOK, Holding
<1>3. Bounds'
    BY DEF IInv, Bounds, Holding, TypeOK
<1>4. SlotsAlloced' /\ OwnersDistinct'
    BY <1>1 DEF IInv, SlotsAlloced, OwnersDistinct, Alloced
<1> QED BY <1>2, <1>3, <1>4 DEF IInv

\* Shield::protect, set, validate and clear, and the use of the pointer.
LEMMA ProtectIInv ==
    ASSUME IInv, NEW r \in Readers,
           Protect(r) \/ Set(r) \/ Validate(r) \/ Clear(r) \/ Use(r)
    PROVE  IInv'
<1>1. slot[r] \in SlotIds /\ src \in Ptrs /\ ptrv[r] \in Ptrs \cup {Null}
    BY DEF Protect, Set, Validate, Clear, Use, IInv, TypeOK, Holding
<1>2. CASE Protect(r)
    BY <1>1, <1>2, HoldingStep DEF Protect, Holding, IInv, TypeOK, PCs
<1>3. CASE Set(r)
    BY <1>1, <1>3, HoldingStep DEF Set, Holding, IInv, TypeOK, PCs
<1>4. CASE Validate(r)
    BY <1>1, <1>4, HoldingStep DEF Validate, Holding, IInv, TypeOK, PCs
<1>5. CASE Clear(r)
    BY <1>1, <1>5, HoldingStep DEF Clear, Holding, IInv, TypeOK, PCs, Null
<1>6. CASE Use(r)
    BY <1>1, <1>6, HoldingStep DEF Use, Holding, IInv, TypeOK, PCs
<1> QED BY <1>2, <1>3, <1>4, <1>5, <1>6

\* Shield::new loads the bag's head.
LEMMA NewShieldIInv ==
    ASSUME IInv, NEW r \in Readers, NewShield(r)
    PROVE  IInv'
<1>1. ~Owned(r) /\ Owned(r)' = FALSE /\ \A q \in Readers \ {r} : Owned(q)' = Owned(q)
    BY DEF NewShield, Owned, Holding, IInv, TypeOK
<1>2. TypeOK' /\ Bounds'
    BY DEF NewShield, IInv, TypeOK, Bounds, Holding, PCs, SlotIds, Null
<1>3. SlotsAlloced' /\ OwnersDistinct'
    BY <1>1 DEF NewShield, IInv, TypeOK, SlotsAlloced, OwnersDistinct, Alloced
<1> QED BY <1>2, <1>3 DEF IInv

\* try_acquire_inactive's scan and CAS, and the allocation of a fresh slot.
LEMMA AcqScanIInv ==
    ASSUME IInv, NEW r \in Readers, AcqScan(r)
    PROVE  IInv'
<1> DEFINE s == slot[r]
<1>0. /\ pc[r] = "acq_scan" /\ ~Owned(r) /\ s \in Alloced \cup {Null}
      /\ \A q \in Readers \ {r} : pc'[q] = pc[q] /\ slot'[q] = slot[q]
      /\ UNCHANGED <<head, hazard, src, freed, ptrv, rounds, cpc, cur, seen, retired>>
    BY DEF AcqScan, Owned, Holding, IInv, SlotsAlloced, TypeOK
<1>1. \A q \in Readers \ {r} : Owned(q)' = Owned(q) /\ (pc'[q] = "acq_scan") = (pc[q] = "acq_scan")
    BY <1>0 DEF Owned, Holding
<1>2. nslots \in 0 .. MaxSlots /\ Alloced \subseteq SlotIds
    BY DEF IInv, TypeOK, Alloced, SlotIds
<1>3. CASE s = Null
    <2> DEFINE n == nslots + 1
    <2>1. /\ nslots < MaxSlots /\ nslots' = n /\ n \in SlotIds /\ n \notin Alloced
          /\ snext' = [snext EXCEPT ![n] = head]
          /\ active' = [active EXCEPT ![n] = TRUE]
          /\ slot' = [slot EXCEPT ![r] = n]
          /\ pc' = [pc EXCEPT ![r] = "alloc_cas"]
        BY <1>3 DEF AcqScan, IInv, TypeOK, SlotIds, Alloced, Null
    <2>2. Alloced' = Alloced \cup {n}
        BY <2>1 DEF Alloced, IInv, TypeOK
    <2>3. TypeOK' /\ Bounds'
        BY <1>0, <2>1 DEF IInv, TypeOK, Bounds, Holding, PCs, SlotIds, Null
    <2>4. \A q \in Readers \ {r} : Owned(q) => slot[q] # n
        BY <2>1 DEF IInv, SlotsAlloced
    <2>5. SlotsAlloced'
        BY <1>0, <1>1, <2>1, <2>2, <2>4 DEF IInv, SlotsAlloced, Owned, Holding, TypeOK
    <2>6. OwnersDistinct'
        BY <1>0, <1>1, <2>1, <2>4 DEF IInv, OwnersDistinct, TypeOK
    <2> QED BY <2>3, <2>5, <2>6 DEF IInv
<1>4. CASE s # Null /\ ~active[s]
    <2>1. /\ active' = [active EXCEPT ![s] = TRUE]
          /\ pc' = [pc EXCEPT ![r] = "protect"]
          /\ UNCHANGED <<nslots, snext, slot>>
        BY <1>4 DEF AcqScan, Null
    <2>2. s \in Alloced /\ \A q \in Readers \ {r} : Owned(q) => slot[q] # s
        BY <1>0, <1>4 DEF IInv, SlotsAlloced, Null
    <2>3. TypeOK' /\ Bounds'
        BY <1>0, <1>2, <2>1, <2>2 DEF IInv, TypeOK, Bounds, Holding, PCs
    <2>4. SlotsAlloced'
        <3>1. \A c \in SlotIds : active[c] => active'[c]
            BY <2>1 DEF IInv, TypeOK
        <3>2. ASSUME NEW q \in Readers, Owned(q)'
              PROVE  slot'[q] \in Alloced' /\ active'[slot'[q]]
            <4>1. CASE q = r
                BY <4>1, <1>2, <2>1, <2>2 DEF Alloced, IInv, TypeOK
            <4>2. CASE q # r
                BY <4>2, <3>2, <3>1, <1>1, <2>1 DEF IInv, SlotsAlloced, TypeOK, Alloced
            <4> QED BY <4>1, <4>2
        <3>3. \A q \in Readers : pc'[q] = "acq_scan" => slot'[q] \in Alloced' \cup {Null}
            BY <1>1, <2>1 DEF IInv, SlotsAlloced, Alloced, TypeOK
        <3> QED BY <3>2, <3>3, <1>0, <2>1 DEF SlotsAlloced, IInv, Alloced
    <2>5. OwnersDistinct'
        <3> SUFFICES ASSUME NEW a \in Readers, NEW b \in Readers, a # b,
                            Owned(a)', Owned(b)'
                     PROVE  slot'[a] # slot'[b]
            BY DEF OwnersDistinct
        <3>1. \A q \in Readers : slot'[q] = slot[q]
            BY <2>1
        <3>2. CASE a = r
            BY <3>1, <3>2, <1>1, <2>2
        <3>3. CASE b = r
            BY <3>1, <3>3, <1>1, <2>2
        <3>4. CASE a # r /\ b # r
            BY <3>1, <3>4, <1>1 DEF IInv, OwnersDistinct
        <3> QED BY <3>2, <3>3, <3>4
    <2> QED BY <2>3, <2>4, <2>5 DEF IInv
<1>5. CASE s # Null /\ active[s]
    <2>1. /\ slot' = [slot EXCEPT ![r] = snext[s]]
          /\ UNCHANGED <<nslots, snext, active, pc>>
        BY <1>5 DEF AcqScan, Null
    <2>2. s \in Alloced /\ snext[s] \in Alloced \cup {Null}
        BY <1>0, <1>5 DEF IInv, SlotsAlloced, Null
    <2>3. TypeOK' /\ Bounds'
        BY <1>0, <1>2, <2>1, <2>2 DEF IInv, TypeOK, Bounds, Holding, SlotIds, Null
    <2>4. SlotsAlloced' /\ OwnersDistinct'
        BY <1>0, <1>1, <2>1, <2>2 DEF IInv, SlotsAlloced, OwnersDistinct, Owned,
                                      Holding, Alloced, TypeOK
    <2> QED BY <2>3, <2>4 DEF IInv
<1> QED BY <1>3, <1>4, <1>5

\* acquire_slot's publishing CAS on head, and its retry.
LEMMA AllocCasIInv ==
    ASSUME IInv, NEW r \in Readers, AllocCas(r)
    PROVE  IInv'
<1> DEFINE s == slot[r]
<1>0. /\ pc[r] = "alloc_cas" /\ Owned(r) /\ s \in Alloced /\ s \in SlotIds
      /\ UNCHANGED <<nslots, active, hazard, src, freed, slot, ptrv, rounds,
                     cpc, cur, seen, retired>>
    <2>1. pc[r] = "alloc_cas" /\ Owned(r)
        BY DEF AllocCas, Owned
    <2>2. nslots \in 0 .. MaxSlots
        BY DEF IInv, TypeOK
    <2> QED BY <2>1, <2>2 DEF AllocCas, IInv, SlotsAlloced, Alloced, SlotIds
<1>1. \A q \in Readers : Owned(q)' = Owned(q) /\ (pc'[q] = "acq_scan") = (pc[q] = "acq_scan")
    BY <1>0 DEF AllocCas, Owned, Holding, IInv, TypeOK
<1>2. /\ head' \in Alloced \cup {Null}
      /\ \A c \in Alloced : snext'[c] \in Alloced \cup {Null}
      /\ snext' \in [SlotIds -> SlotIds \cup {Null}]
    <2>1. head \in Alloced \cup {Null} /\ Alloced \subseteq SlotIds
        BY DEF IInv, SlotsAlloced, TypeOK, Alloced, SlotIds
    <2>2. CASE head = snext[s]
        BY <1>0, <2>1, <2>2 DEF AllocCas, IInv, SlotsAlloced, TypeOK
    <2>3. CASE head # snext[s]
        <3>1. snext' = [snext EXCEPT ![s] = head] /\ UNCHANGED head
            BY <2>3 DEF AllocCas
        <3> QED BY <1>0, <2>1, <3>1 DEF IInv, SlotsAlloced, TypeOK
    <2> QED BY <2>2, <2>3
<1>3. TypeOK' /\ Bounds'
    BY <1>0, <1>2 DEF AllocCas, IInv, TypeOK, Bounds, Holding, PCs, Alloced, SlotIds, Null
<1>4. SlotsAlloced' /\ OwnersDistinct'
    BY <1>0, <1>1, <1>2 DEF IInv, SlotsAlloced, OwnersDistinct, Alloced
<1> QED BY <1>3, <1>4 DEF IInv

\* Shield::drop: clear the hazard, then release the slot.
LEMMA DropIInv ==
    ASSUME IInv, NEW r \in Readers, Drop(r)
    PROVE  IInv'
<1>1. CASE pc[r] = "drop_hazard"
    <2>1. slot[r] \in SlotIds
        BY <1>1 DEF IInv, TypeOK, Holding
    <2> QED BY <1>1, <2>1, HoldingStep DEF Drop, Holding, IInv, TypeOK, PCs, Null
<1>2. CASE pc[r] = "drop_active"
    <2> DEFINE s == slot[r]
    <2>1. /\ active' = [active EXCEPT ![s] = FALSE]
          /\ pc' = [pc EXCEPT ![r] = "idle"]
          /\ slot' = [slot EXCEPT ![r] = Null]
          /\ ptrv' = [ptrv EXCEPT ![r] = Null]
          /\ rounds' = [rounds EXCEPT ![r] = rounds[r] + 1]
          /\ UNCHANGED <<head, nslots, snext, hazard, src, freed, cpc, cur, seen, retired>>
        BY <1>2 DEF Drop
    <2>2. /\ Owned(r) /\ s \in SlotIds /\ rounds[r] < Rounds
          /\ \A q \in Readers \ {r} : Owned(q) => slot[q] # s
        BY <1>2 DEF IInv, TypeOK, Bounds, Holding, Owned, OwnersDistinct
    <2>3. ~Owned(r)' /\ \A q \in Readers \ {r} : Owned(q)' = Owned(q)
        BY <2>1 DEF Owned, Holding, IInv, TypeOK
    <2>4. TypeOK' /\ Bounds'
        BY <2>1, <2>2 DEF IInv, TypeOK, Bounds, Holding, PCs, Null
    <2>5. SlotsAlloced'
        BY <2>1, <2>2, <2>3 DEF IInv, SlotsAlloced, Alloced, TypeOK
    <2>6. OwnersDistinct'
        BY <2>1, <2>3 DEF IInv, OwnersDistinct
    <2> QED BY <2>4, <2>5, <2>6 DEF IInv
<1> QED BY <1>1, <1>2 DEF Drop

\* Every step of the readers and the collector, and the final stutter,
\* keeps IInv.
THEOREM NextIInv == IInv /\ [Next]_vars => IInv'
<1> SUFFICES ASSUME IInv, [Next]_vars PROVE IInv'
    OBVIOUS
<1>1. CASE UNCHANGED vars
    BY <1>1 DEF vars, IInv, TypeOK, Bounds, SlotsAlloced, OwnersDistinct,
                Owned, Holding, Alloced
<1>2. CASE Terminated
    BY <1>2 DEF Terminated, vars, IInv, TypeOK, Bounds, SlotsAlloced,
                OwnersDistinct, Owned, Holding, Alloced
<1>3. ASSUME NEW r \in Readers, ReaderStep(r) PROVE IInv'
    BY <1>3, NewShieldIInv, AcqScanIInv, AllocCasIInv, ProtectIInv, DropIInv
    DEF ReaderStep
<1> QED BY <1>1, <1>2, <1>3, CollectorIInv DEF Next

\* IInv holds in every reachable state.
THEOREM IInvInvariant == Spec => []IInv
BY InitIInv, NextIInv, PTL DEF Spec

\* Slot exclusivity (the property SlotsExclusive) for every number of
\* readers and slots: the CAS of try_acquire_inactive, a fresh slot's
\* active flag set before acquire_slot publishes it, and Shield::drop
\* clearing active last give every Shield a slot of its own.
THEOREM SlotsExclusiveInvariant == Spec => []SlotsExclusive
<1>1. IInv => SlotsExclusive
    BY DEF IInv, SlotsAlloced, OwnersDistinct, Owned, SlotsExclusive
<1> QED BY <1>1, IInvInvariant, PTL

\* Type correctness (the property TypeOK) for every instance.
THEOREM TypeCorrect == Spec => []TypeOK
BY IInvInvariant, PTL DEF IInv

-----------------------------------------------------------------------------
(***************************************************************************)
(* ProtectedNotFreed.  The slots all_hazards visits from a slot x are the   *)
(* least set that holds x and is closed under next: the intersection of    *)
(* every such set, which needs no recursion.                               *)
(***************************************************************************)
\* S holds the next of each of its slots (or null).
Closed(nx, S) == \A s \in S : nx[s] \in S \cup {Null}

\* The slots of the list from x along nx.
ListFrom(nx, x) ==
    IF x = Null THEN {}
    ELSE {s \in SlotIds : \A S \in SUBSET SlotIds : x \in S /\ Closed(nx, S) => s \in S}

\* The slots allocated and not waiting for acquire_slot's CAS on head.
Pending == {slot[r] : r \in {q \in Readers : pc[q] = "alloc_cas"}}
Published == Alloced \ Pending

\* The bag's list holds exactly the published slots.
ListShape == ListFrom(snext, head) = Published

\* A Shield's slot, and every slot try_acquire_inactive visits, is
\* published, and so is every slot all_hazards visits.
InList ==
    /\ \A r \in Readers : Holding(r) => slot[r] \in Published
    /\ \A r \in Readers : pc[r] = "acq_scan" => slot[r] \in Published \cup {Null}
    /\ cpc \in {"scan_active", "scan_hazard"} => cur \in Published \cup {Null}

\* A reader validating or using its pointer has it in its hazard.
HazardSet == \A r \in Readers : pc[r] \in {"validate", "use"} => hazard[slot[r]] = ptrv[r]

\* The collector retires the object src pointed to before the unlink, and
\* frees only objects it retired.
Retire ==
    /\ cpc = "idle" <=> retired = Null
    /\ retired # Null => retired = src - 1
    /\ \A p \in freed : p < src
    /\ retired \notin freed

\* A reader using a pointer uses the current one or the retired one; in the
\* latter case it validated before the unlink, so the scan since has seen
\* its hazard or has still to visit its slot.
UseProtected ==
    \A r \in Readers : pc[r] = "use" =>
        /\ ptrv[r] \in {src, retired} \ {Null}
        /\ ptrv[r] = retired /\ cpc \in {"scan_active", "scan_hazard"} =>
              ptrv[r] \in seen \/ slot[r] \in ListFrom(snext, cur)
        /\ ptrv[r] = retired /\ cpc = "free" => ptrv[r] \in seen

PExtra == ListShape /\ InList /\ HazardSet /\ Retire /\ UseProtected

\* The inductive invariant behind ProtectedNotFreed.
PInv == IInv /\ PExtra

NextFns == [SlotIds -> SlotIds \cup {Null}]

\* The list from a slot holds that slot, only slots, and is closed.
LEMMA ListFromClosed ==
    ASSUME NEW nx \in NextFns, NEW x \in SlotIds
    PROVE  /\ x \in ListFrom(nx, x)
           /\ ListFrom(nx, x) \subseteq SlotIds
           /\ Closed(nx, ListFrom(nx, x))
<1>0. x # Null
    BY DEF SlotIds, Null
<1>1. x \in ListFrom(nx, x) /\ ListFrom(nx, x) \subseteq SlotIds
    BY <1>0 DEF ListFrom
<1>2. ASSUME NEW s \in ListFrom(nx, x), nx[s] # Null PROVE nx[s] \in ListFrom(nx, x)
    <2>1. s \in SlotIds /\ nx[s] \in SlotIds
        BY <1>1, <1>2 DEF NextFns
    <2>2. ASSUME NEW S \in SUBSET SlotIds, x \in S, Closed(nx, S) PROVE nx[s] \in S
        <3>1. s \in S
            BY <1>0, <2>2 DEF ListFrom
        <3> QED BY <1>2, <2>2, <3>1 DEF Closed
    <2> QED BY <1>0, <2>1, <2>2 DEF ListFrom
<1> QED BY <1>1, <1>2 DEF Closed

\* It is the least such set.
LEMMA ListFromLeast ==
    ASSUME NEW nx, NEW x \in SlotIds, NEW S \in SUBSET SlotIds, x \in S, Closed(nx, S)
    PROVE  ListFrom(nx, x) \subseteq S
BY DEF ListFrom, SlotIds, Null

\* all_hazards' step: the list from x is x and the list from its next.
LEMMA ListFromUnfold ==
    ASSUME NEW nx \in NextFns, NEW x \in SlotIds
    PROVE  ListFrom(nx, x) = {x} \cup ListFrom(nx, nx[x])
<1> DEFINE L == ListFrom(nx, x)
           M == ListFrom(nx, nx[x])
<1>0. nx[x] \in SlotIds \cup {Null}
    BY DEF NextFns
<1>1. M \subseteq SlotIds /\ Closed(nx, M) /\ (nx[x] # Null => nx[x] \in M)
    <2>1. CASE nx[x] = Null
        BY <2>1 DEF ListFrom, Closed
    <2>2. CASE nx[x] # Null
        BY <1>0, <2>2, ListFromClosed
    <2> QED BY <2>1, <2>2
<1>2. L \subseteq {x} \cup M
    <2>1. Closed(nx, {x} \cup M)
        BY <1>1 DEF Closed
    <2> QED BY <1>1, <2>1, ListFromLeast
<1>3. M \subseteq L
    <2>1. CASE nx[x] = Null
        BY <2>1 DEF ListFrom
    <2>2. CASE nx[x] # Null
        <3>1. x \in L /\ L \subseteq SlotIds /\ Closed(nx, L)
            BY ListFromClosed
        <3>2. nx[x] \in L
            BY <2>2, <3>1 DEF Closed
        <3> QED BY <1>0, <2>2, <3>1, <3>2, ListFromLeast
    <2> QED BY <2>1, <2>2
<1>4. x \in L
    BY ListFromClosed
<1> QED BY <1>2, <1>3, <1>4

\* The list from x depends only on the next fields of its own slots.
LEMMA ListFromFrame ==
    ASSUME NEW nx \in NextFns, NEW ny \in NextFns, NEW x \in SlotIds \cup {Null},
           \A s \in ListFrom(nx, x) : ny[s] = nx[s]
    PROVE  ListFrom(ny, x) = ListFrom(nx, x)
<1>1. CASE x = Null
    BY <1>1 DEF ListFrom
<1>2. CASE x # Null
    <2>1. x \in ListFrom(nx, x) /\ ListFrom(nx, x) \subseteq SlotIds /\ Closed(nx, ListFrom(nx, x))
        BY <1>2, ListFromClosed
    <2>2. Closed(ny, ListFrom(nx, x))
        BY <2>1 DEF Closed
    <2>3. ListFrom(ny, x) \subseteq ListFrom(nx, x)
        BY <1>2, <2>1, <2>2, ListFromLeast
    <2>4. x \in ListFrom(ny, x) /\ ListFrom(ny, x) \subseteq SlotIds /\ Closed(ny, ListFrom(ny, x))
        BY <1>2, ListFromClosed
    <2>5. Closed(nx, ListFrom(ny, x))
        BY <2>3, <2>4 DEF Closed
    <2>6. ListFrom(nx, x) \subseteq ListFrom(ny, x)
        BY <1>2, <2>4, <2>5, ListFromLeast
    <2> QED BY <2>3, <2>6
<1> QED BY <1>1, <1>2

\* The published slots form a closed list from head, and the list from any
\* of them stays among them.
LEMMA PubFacts ==
    ASSUME IInv, ListShape
    PROVE  /\ snext \in NextFns
           /\ Published \subseteq SlotIds
           /\ Closed(snext, Published)
           /\ head # Null => head \in Published
           /\ \A x \in Published \cup {Null} : ListFrom(snext, x) \subseteq Published
<1>0. snext \in NextFns /\ head \in SlotIds \cup {Null}
    BY DEF IInv, TypeOK, NextFns
<1>1. CASE head = Null
    <2>1. Published = {}
        BY <1>1 DEF ListShape, ListFrom
    <2> QED BY <1>0, <1>1, <2>1 DEF Closed, ListFrom
<1>2. CASE head # Null
    <2>1. head \in Published /\ Published \subseteq SlotIds /\ Closed(snext, Published)
        BY <1>0, <1>2, ListFromClosed DEF ListShape
    <2>2. ASSUME NEW x \in Published PROVE ListFrom(snext, x) \subseteq Published
        BY <2>1, ListFromLeast
    <2>3. ListFrom(snext, Null) = {}
        BY DEF ListFrom
    <2> QED BY <1>0, <2>1, <2>2, <2>3
<1> QED BY <1>1, <1>2

\* The collector: unlink, the all_hazards scan, and free.
LEMMA CollectorPExtra ==
    ASSUME PInv, CollectorStep
    PROVE  PExtra'
<1>0. /\ UNCHANGED <<head, nslots, snext, active, hazard, pc, slot, ptrv, rounds>>
      /\ IInv /\ ListShape /\ InList /\ HazardSet /\ Retire /\ UseProtected
    BY DEF CollectorStep, Unlink, ScanHead, ScanActive, ScanHazard, Free, PInv, PExtra
<1>1. ListShape' /\ HazardSet'
    BY <1>0 DEF ListShape, HazardSet, Published, Pending, Alloced
<1>p. /\ snext \in NextFns /\ Published \subseteq SlotIds /\ Closed(snext, Published)
      /\ head # Null => head \in Published
      /\ \A x \in Published \cup {Null} : ListFrom(snext, x) \subseteq Published
    BY <1>0, PubFacts
<1>t. /\ src \in Ptrs /\ freed \subseteq Ptrs /\ retired \in Ptrs \cup {Null}
      /\ cur \in SlotIds \cup {Null}
      /\ \A r \in Readers : Holding(r) => slot[r] \in Published /\ active[slot[r]]
    BY <1>0 DEF IInv, TypeOK, InList, SlotsAlloced, Owned
<1>2. CASE Unlink
    <2>1. /\ cpc = "idle" /\ retired = Null /\ src < MaxPtr
          /\ retired' = src /\ src' = src + 1 /\ cpc' = "scan_head"
          /\ UNCHANGED <<freed, cur, seen>>
        BY <1>0, <1>2 DEF Unlink, Retire
    <2>2. InList'
        BY <1>0, <2>1 DEF InList, Holding, Published, Pending, Alloced
    <2>3. Retire'
        BY <1>0, <1>t, <2>1 DEF Retire, Ptrs, Null
    <2>4. UseProtected'
        BY <1>0, <1>t, <2>1 DEF UseProtected, Ptrs, Null
    <2> QED BY <1>1, <2>2, <2>3, <2>4 DEF PExtra
<1>3. CASE ScanHead
    <2>1. /\ cpc = "scan_head" /\ cur' = head /\ seen' = {} /\ cpc' = "scan_active"
          /\ UNCHANGED <<src, freed, retired>>
        BY <1>3 DEF ScanHead
    <2>2. InList'
        BY <1>0, <1>p, <2>1 DEF InList, Holding, Published, Pending, Alloced
    <2>3. Retire'
        BY <1>0, <2>1 DEF Retire
    <2>4. UseProtected'
        BY <1>0, <1>t, <2>1 DEF UseProtected, ListShape, Holding
    <2> QED BY <1>1, <2>2, <2>3, <2>4 DEF PExtra
<1>4. CASE ScanActive
    <2>0. cpc = "scan_active" /\ UNCHANGED <<src, freed, retired, seen>>
        BY <1>4 DEF ScanActive
    <2>1. CASE cur = Null
        <3>a. cpc' = "free" /\ UNCHANGED cur
            BY <1>4, <2>1 DEF ScanActive
        <3>b. InList' /\ Retire'
            BY <1>0, <2>0, <3>a DEF InList, Holding, Published, Pending, Alloced, Retire
        <3>c. UseProtected'
            BY <1>0, <2>0, <2>1, <3>a DEF UseProtected, ListFrom
        <3> QED BY <1>1, <3>b, <3>c DEF PExtra
    <2>2. CASE cur # Null /\ active[cur]
        <3>a. cpc' = "scan_hazard" /\ UNCHANGED cur
            BY <1>4, <2>2 DEF ScanActive
        <3>b. InList' /\ Retire'
            BY <1>0, <2>0, <3>a DEF InList, Holding, Published, Pending, Alloced, Retire
        <3>c. UseProtected'
            BY <1>0, <2>0, <3>a DEF UseProtected
        <3> QED BY <1>1, <3>b, <3>c DEF PExtra
    <2>3. CASE cur # Null /\ ~active[cur]
        <3>a. cur' = snext[cur] /\ UNCHANGED cpc
            BY <1>4, <2>3 DEF ScanActive
        <3>b. cur \in Published /\ snext[cur] \in Published \cup {Null}
            BY <1>0, <1>p, <2>0, <2>3 DEF InList, Closed
        <3>c. InList' /\ Retire'
            BY <1>0, <2>0, <3>a, <3>b DEF InList, Holding, Published, Pending, Alloced, Retire
        <3>d. ListFrom(snext, cur) = {cur} \cup ListFrom(snext, snext[cur])
            BY <1>p, <3>b, ListFromUnfold
        <3>e. UseProtected'
            BY <1>0, <1>t, <2>0, <2>3, <3>a, <3>d DEF UseProtected, Holding
        <3> QED BY <1>1, <3>c, <3>e DEF PExtra
    <2> QED BY <2>1, <2>2, <2>3
<1>5. CASE ScanHazard
    <2>1. /\ cpc = "scan_hazard" /\ cur # Null
          /\ seen' = seen \cup {hazard[cur]} /\ cur' = snext[cur] /\ cpc' = "scan_active"
          /\ UNCHANGED <<src, freed, retired>>
        BY <1>0, <1>5 DEF ScanHazard, IInv, Bounds
    <2>2. cur \in Published /\ snext[cur] \in Published \cup {Null}
        BY <1>0, <1>p, <2>1 DEF InList, Closed
    <2>3. InList' /\ Retire'
        BY <1>0, <2>1, <2>2 DEF InList, Holding, Published, Pending, Alloced, Retire
    <2>4. ListFrom(snext, cur) = {cur} \cup ListFrom(snext, snext[cur])
        BY <1>p, <2>2, ListFromUnfold
    <2>5. UseProtected'
        BY <1>0, <2>1, <2>4 DEF UseProtected, HazardSet
    <2> QED BY <1>1, <2>3, <2>5 DEF PExtra
<1>6. CASE Free
    <2>0. cpc = "free" /\ retired \in Ptrs /\ UNCHANGED <<src, cur, seen>>
        BY <1>0, <1>6 DEF Free, IInv, Bounds
    <2>1. CASE retired \notin seen
        <3>a. freed' = freed \cup {retired} /\ retired' = Null /\ cpc' = "idle"
            BY <1>6, <2>1 DEF Free
        <3>b. InList'
            BY <1>0, <3>a DEF InList, Holding, Published, Pending, Alloced
        <3>c. Retire'
            BY <1>0, <1>t, <2>0, <3>a DEF Retire, Ptrs, Null
        <3>d. UseProtected'
            BY <1>0, <2>0, <2>1, <3>a DEF UseProtected
        <3> QED BY <1>1, <3>b, <3>c, <3>d DEF PExtra
    <2>2. CASE retired \in seen
        <3>a. cpc' = "scan_head" /\ UNCHANGED <<freed, retired>>
            BY <1>6, <2>2 DEF Free
        <3>b. InList' /\ Retire' /\ UseProtected'
            BY <1>0, <2>0, <3>a DEF InList, Holding, Published, Pending, Alloced, Retire, UseProtected
        <3> QED BY <1>1, <3>b DEF PExtra
    <2> QED BY <2>1, <2>2
<1> QED BY <1>2, <1>3, <1>4, <1>5, <1>6 DEF CollectorStep

\* Shield::new loads head: a published slot, or null.
LEMMA NewShieldPExtra ==
    ASSUME PInv, NEW r \in Readers, NewShield(r)
    PROVE  PExtra'
<1>0. /\ IInv /\ ListShape /\ InList /\ HazardSet /\ Retire /\ UseProtected
      /\ pc[r] = "idle" /\ pc' = [pc EXCEPT ![r] = "acq_scan"] /\ slot' = [slot EXCEPT ![r] = head]
      /\ UNCHANGED <<head, nslots, snext, active, hazard, src, freed, ptrv, cpc, cur, seen, retired>>
      /\ pc \in [Readers -> PCs] /\ slot \in [Readers -> SlotIds \cup {Null}]
    BY DEF NewShield, PInv, PExtra, IInv, TypeOK
<1>1. head # Null => head \in Published
    BY <1>0, PubFacts
<1>2. Pending' = Pending
    BY <1>0 DEF Pending
<1>3. ListShape' /\ HazardSet' /\ Retire' /\ UseProtected'
    BY <1>0, <1>2 DEF ListShape, Published, Alloced, HazardSet, Retire, UseProtected
<1>4. InList'
    BY <1>0, <1>1, <1>2 DEF InList, Published, Alloced, Holding
<1> QED BY <1>3, <1>4 DEF PExtra

\* A step of a reader that keeps its Shield and its slot, changes no list
\* field, and writes at most the hazard of its own slot and its pointer.
LEMMA HoldingPExtra ==
    ASSUME PInv, NEW r \in Readers, Holding(r), Holding(r)',
           UNCHANGED <<head, nslots, snext, slot, src, freed, cpc, cur, seen, retired>>,
           pc' = [pc EXCEPT ![r] = pc'[r]],
           \A c \in SlotIds \ {slot[r]} : hazard'[c] = hazard[c],
           \A q \in Readers \ {r} : ptrv'[q] = ptrv[q],
           pc'[r] \in {"validate", "use"} => hazard'[slot[r]] = ptrv'[r],
           pc'[r] = "use" => (pc[r] = "use" /\ ptrv'[r] = ptrv[r]) \/ ptrv'[r] = src
    PROVE  PExtra'
<1>0. /\ IInv /\ ListShape /\ InList /\ HazardSet /\ Retire /\ UseProtected
      /\ pc \in [Readers -> PCs] /\ slot \in [Readers -> SlotIds \cup {Null}]
      /\ slot[r] \in SlotIds /\ src \in Ptrs
      /\ \A q \in Readers \ {r} : Holding(q) => slot[q] # slot[r]
    BY DEF PInv, PExtra, IInv, TypeOK, OwnersDistinct, Owned
<1>1. Pending' = Pending
    BY <1>0 DEF Pending, Holding
<1>2. ListShape' /\ InList' /\ Retire'
    BY <1>0, <1>1 DEF ListShape, Published, Alloced, InList, Holding, Retire
<1>3. HazardSet'
    <2> SUFFICES ASSUME NEW q \in Readers, pc'[q] \in {"validate", "use"}
                 PROVE  hazard'[slot[q]] = ptrv'[q]
        BY <1>0 DEF HazardSet
    <2>1. CASE q = r
        BY <2>1
    <2>2. CASE q # r
        <3>1. pc'[q] = pc[q] /\ ptrv'[q] = ptrv[q]
            BY <1>0, <2>2
        <3>2. hazard[slot[q]] = ptrv[q] /\ Holding(q)
            BY <1>0, <3>1 DEF HazardSet, Holding
        <3>3. slot[q] \in SlotIds \ {slot[r]}
            <4>1. slot[q] # Null
                BY <1>0, <3>2 DEF IInv, SlotsAlloced, Owned, Alloced, Null
            <4> QED BY <1>0, <2>2, <3>2, <4>1
        <3> QED BY <3>1, <3>2, <3>3
    <2> QED BY <2>1, <2>2
<1>4. UseProtected'
    <2> SUFFICES ASSUME NEW q \in Readers, pc'[q] = "use"
                 PROVE  /\ ptrv'[q] \in {src, retired} \ {Null}
                        /\ ptrv'[q] = retired /\ cpc \in {"scan_active", "scan_hazard"} =>
                              ptrv'[q] \in seen \/ slot[q] \in ListFrom(snext, cur)
                        /\ ptrv'[q] = retired /\ cpc = "free" => ptrv'[q] \in seen
        BY <1>0 DEF UseProtected
    <2>1. CASE q # r
        BY <1>0, <2>1 DEF UseProtected
    <2>2. CASE q = r /\ pc[r] = "use" /\ ptrv'[r] = ptrv[r]
        BY <1>0, <2>2 DEF UseProtected
    <2>3. CASE q = r /\ ptrv'[r] = src
        <3>1. src # retired /\ src # Null
            BY <1>0 DEF Retire, Ptrs, Null
        <3> QED BY <2>3, <3>1
    <2> QED BY <2>1, <2>2, <2>3
<1> QED BY <1>2, <1>3, <1>4 DEF PExtra

\* protect, set, validate, clear, use and the hazard store of Drop keep
\* the Shield's slot.
LEMMA ShieldStepPExtra ==
    ASSUME PInv, NEW r \in Readers,
           Protect(r) \/ Set(r) \/ Validate(r) \/ Clear(r) \/ Use(r)
           \/ (Drop(r) /\ pc[r] = "drop_hazard")
    PROVE  PExtra'
<1>0. /\ pc \in [Readers -> PCs] /\ hazard \in [SlotIds -> Ptrs \cup {Null}]
      /\ ptrv \in [Readers -> Ptrs \cup {Null}] /\ slot \in [Readers -> SlotIds \cup {Null}]
      /\ HazardSet
    BY DEF PInv, IInv, TypeOK, PExtra
<1>1. Holding(r)
    BY DEF Protect, Set, Validate, Clear, Use, Holding
<1>2. slot[r] \in SlotIds
    BY <1>0, <1>1 DEF PInv, IInv, SlotsAlloced, Owned, Alloced, TypeOK
<1>3. CASE Protect(r)
    <2>1. UNCHANGED <<head, nslots, snext, slot, src, freed, cpc, cur, seen, retired>>
        BY <1>3 DEF Protect
    <2>2. pc' = [pc EXCEPT ![r] = pc'[r]] /\ Holding(r)'
        BY <1>0, <1>3 DEF Protect, Holding
    <2>3. \A c \in SlotIds \ {slot[r]} : hazard'[c] = hazard[c]
        BY <1>0, <1>3 DEF Protect
    <2>4. \A q \in Readers \ {r} : ptrv'[q] = ptrv[q]
        BY <1>0, <1>3 DEF Protect
    <2>5. pc'[r] \in {"validate", "use"} => hazard'[slot[r]] = ptrv'[r]
        BY <1>0, <1>2, <1>3 DEF Protect, HazardSet
    <2>6. pc'[r] = "use" => (pc[r] = "use" /\ ptrv'[r] = ptrv[r]) \/ ptrv'[r] = src
        BY <1>0, <1>3 DEF Protect
    <2> QED BY <1>1, <2>1, <2>2, <2>3, <2>4, <2>5, <2>6, HoldingPExtra
<1>4. CASE Set(r)
    <2>1. UNCHANGED <<head, nslots, snext, slot, src, freed, cpc, cur, seen, retired>>
        BY <1>4 DEF Set
    <2>2. pc' = [pc EXCEPT ![r] = pc'[r]] /\ Holding(r)'
        BY <1>0, <1>4 DEF Set, Holding
    <2>3. \A c \in SlotIds \ {slot[r]} : hazard'[c] = hazard[c]
        BY <1>0, <1>4 DEF Set
    <2>4. \A q \in Readers \ {r} : ptrv'[q] = ptrv[q]
        BY <1>0, <1>4 DEF Set
    <2>5. pc'[r] \in {"validate", "use"} => hazard'[slot[r]] = ptrv'[r]
        BY <1>0, <1>2, <1>4 DEF Set, HazardSet
    <2>6. pc'[r] = "use" => (pc[r] = "use" /\ ptrv'[r] = ptrv[r]) \/ ptrv'[r] = src
        BY <1>0, <1>4 DEF Set
    <2> QED BY <1>1, <2>1, <2>2, <2>3, <2>4, <2>5, <2>6, HoldingPExtra
<1>5. CASE Validate(r)
    <2>1. UNCHANGED <<head, nslots, snext, slot, src, freed, cpc, cur, seen, retired>>
        BY <1>5 DEF Validate
    <2>2. pc' = [pc EXCEPT ![r] = pc'[r]] /\ Holding(r)'
        BY <1>0, <1>5 DEF Validate, Holding
    <2>3. \A c \in SlotIds \ {slot[r]} : hazard'[c] = hazard[c]
        BY <1>0, <1>5 DEF Validate
    <2>4. \A q \in Readers \ {r} : ptrv'[q] = ptrv[q]
        BY <1>0, <1>5 DEF Validate
    <2>5. pc'[r] \in {"validate", "use"} => hazard'[slot[r]] = ptrv'[r]
        BY <1>0, <1>2, <1>5 DEF Validate, HazardSet
    <2>6. pc'[r] = "use" => (pc[r] = "use" /\ ptrv'[r] = ptrv[r]) \/ ptrv'[r] = src
        BY <1>0, <1>5 DEF Validate
    <2> QED BY <1>1, <2>1, <2>2, <2>3, <2>4, <2>5, <2>6, HoldingPExtra
<1>6. CASE Clear(r)
    <2>1. UNCHANGED <<head, nslots, snext, slot, src, freed, cpc, cur, seen, retired>>
        BY <1>6 DEF Clear
    <2>2. pc' = [pc EXCEPT ![r] = pc'[r]] /\ Holding(r)'
        BY <1>0, <1>6 DEF Clear, Holding
    <2>3. \A c \in SlotIds \ {slot[r]} : hazard'[c] = hazard[c]
        BY <1>0, <1>6 DEF Clear
    <2>4. \A q \in Readers \ {r} : ptrv'[q] = ptrv[q]
        BY <1>0, <1>6 DEF Clear
    <2>5. pc'[r] \in {"validate", "use"} => hazard'[slot[r]] = ptrv'[r]
        BY <1>0, <1>2, <1>6 DEF Clear, HazardSet
    <2>6. pc'[r] = "use" => (pc[r] = "use" /\ ptrv'[r] = ptrv[r]) \/ ptrv'[r] = src
        BY <1>0, <1>6 DEF Clear
    <2> QED BY <1>1, <2>1, <2>2, <2>3, <2>4, <2>5, <2>6, HoldingPExtra
<1>7. CASE Use(r)
    <2>1. UNCHANGED <<head, nslots, snext, slot, src, freed, cpc, cur, seen, retired>>
        BY <1>7 DEF Use
    <2>2. pc' = [pc EXCEPT ![r] = pc'[r]] /\ Holding(r)'
        BY <1>0, <1>7 DEF Use, Holding
    <2>3. \A c \in SlotIds \ {slot[r]} : hazard'[c] = hazard[c]
        BY <1>0, <1>7 DEF Use
    <2>4. \A q \in Readers \ {r} : ptrv'[q] = ptrv[q]
        BY <1>0, <1>7 DEF Use
    <2>5. pc'[r] \in {"validate", "use"} => hazard'[slot[r]] = ptrv'[r]
        BY <1>0, <1>2, <1>7 DEF Use, HazardSet
    <2>6. pc'[r] = "use" => (pc[r] = "use" /\ ptrv'[r] = ptrv[r]) \/ ptrv'[r] = src
        BY <1>0, <1>7 DEF Use
    <2> QED BY <1>1, <2>1, <2>2, <2>3, <2>4, <2>5, <2>6, HoldingPExtra
<1>8. CASE Drop(r) /\ pc[r] = "drop_hazard"
    <2>1. UNCHANGED <<head, nslots, snext, slot, src, freed, cpc, cur, seen, retired>>
        BY <1>8 DEF Drop
    <2>2. pc' = [pc EXCEPT ![r] = pc'[r]] /\ Holding(r)'
        BY <1>0, <1>8 DEF Drop, Holding
    <2>3. \A c \in SlotIds \ {slot[r]} : hazard'[c] = hazard[c]
        BY <1>0, <1>8 DEF Drop
    <2>4. \A q \in Readers \ {r} : ptrv'[q] = ptrv[q]
        BY <1>0, <1>8 DEF Drop
    <2>5. pc'[r] \in {"validate", "use"} => hazard'[slot[r]] = ptrv'[r]
        BY <1>0, <1>2, <1>8 DEF Drop, HazardSet
    <2>6. pc'[r] = "use" => (pc[r] = "use" /\ ptrv'[r] = ptrv[r]) \/ ptrv'[r] = src
        BY <1>0, <1>8 DEF Drop
    <2> QED BY <1>1, <2>1, <2>2, <2>3, <2>4, <2>5, <2>6, HoldingPExtra
<1> QED BY <1>3, <1>4, <1>5, <1>6, <1>7, <1>8

\* Drop's active store releases the slot: the reader leaves every conjunct.
LEMMA DropActivePExtra ==
    ASSUME PInv, NEW r \in Readers, Drop(r), pc[r] = "drop_active"
    PROVE  PExtra'
<1>0. /\ IInv /\ ListShape /\ InList /\ HazardSet /\ Retire /\ UseProtected
      /\ pc' = [pc EXCEPT ![r] = "idle"] /\ slot' = [slot EXCEPT ![r] = Null]
      /\ ptrv' = [ptrv EXCEPT ![r] = Null]
      /\ UNCHANGED <<head, nslots, snext, hazard, src, freed, cpc, cur, seen, retired>>
      /\ pc \in [Readers -> PCs] /\ slot \in [Readers -> SlotIds \cup {Null}]
      /\ ptrv \in [Readers -> Ptrs \cup {Null}]
    BY DEF Drop, PInv, PExtra, IInv, TypeOK
<1>1. Pending' = Pending
    BY <1>0 DEF Pending
<1>2. ListShape' /\ Retire'
    BY <1>0, <1>1 DEF ListShape, Published, Alloced, Retire
<1>3. InList'
    BY <1>0, <1>1 DEF InList, Published, Alloced, Holding
<1>4. HazardSet'
    BY <1>0 DEF HazardSet
<1>5. UseProtected'
    BY <1>0 DEF UseProtected
<1> QED BY <1>2, <1>3, <1>4, <1>5 DEF PExtra

\* try_acquire_inactive's scan: a fresh slot is pending, not published, so
\* neither the bag's list nor a scan of all_hazards can reach it.
LEMMA AcqScanPExtra ==
    ASSUME PInv, NEW r \in Readers, AcqScan(r)
    PROVE  PExtra'
<1>0. /\ IInv /\ ListShape /\ InList /\ HazardSet /\ Retire /\ UseProtected
      /\ pc[r] = "acq_scan"
      /\ UNCHANGED <<head, hazard, src, freed, ptrv, cpc, cur, seen, retired>>
      /\ pc \in [Readers -> PCs] /\ slot \in [Readers -> SlotIds \cup {Null}]
      /\ nslots \in 0 .. MaxSlots
    BY DEF AcqScan, PInv, PExtra, IInv, TypeOK
<1>p. /\ snext \in NextFns /\ Published \subseteq SlotIds /\ Closed(snext, Published)
      /\ \A x \in Published \cup {Null} : ListFrom(snext, x) \subseteq Published
    BY <1>0, PubFacts
<1>h. HazardSet'
    BY <1>0 DEF AcqScan, HazardSet
<1>1. CASE slot[r] = Null /\ nslots < MaxSlots /\ nslots' = nslots + 1
           /\ snext' = [snext EXCEPT ![nslots + 1] = head]
           /\ slot' = [slot EXCEPT ![r] = nslots + 1]
           /\ pc' = [pc EXCEPT ![r] = "alloc_cas"]
    <2> DEFINE n == nslots + 1
    <2>1. n \in SlotIds /\ n \notin Alloced /\ Alloced' = Alloced \cup {n}
        BY <1>0, <1>1 DEF SlotIds, Alloced
    <2>2. Pending \subseteq Alloced
        BY <1>0 DEF Pending, IInv, SlotsAlloced, Owned
    <2>3. Pending' = Pending \cup {n}
        BY <1>0, <1>1 DEF Pending
    <2>4. Published' = Published
        BY <2>1, <2>2, <2>3 DEF Published
    <2>5. snext' \in NextFns /\ n \notin Published
        BY <1>0, <1>1, <1>p, <2>1 DEF NextFns, IInv, TypeOK, Published
    <2>6. \A x \in Published \cup {Null} : ListFrom(snext', x) = ListFrom(snext, x)
        <3> SUFFICES ASSUME NEW x \in Published \cup {Null}
                     PROVE  ListFrom(snext', x) = ListFrom(snext, x)
            OBVIOUS
        <3>1. \A s \in ListFrom(snext, x) : snext'[s] = snext[s]
            BY <1>1, <1>p, <2>5
        <3> QED BY <1>p, <2>5, <3>1, ListFromFrame
    <2>7. head \in Published \cup {Null}
        BY <1>0, PubFacts
    <2>8. ListShape'
        BY <1>0, <2>4, <2>6, <2>7 DEF ListShape
    <2>9. InList'
        BY <1>0, <1>1, <2>4 DEF InList, Holding
    <2>10. UseProtected'
        <3> SUFFICES ASSUME NEW q \in Readers, pc'[q] = "use"
                     PROVE  /\ ptrv[q] \in {src, retired} \ {Null}
                            /\ ptrv[q] = retired /\ cpc \in {"scan_active", "scan_hazard"} =>
                                  ptrv[q] \in seen \/ slot'[q] \in ListFrom(snext', cur)
                            /\ ptrv[q] = retired /\ cpc = "free" => ptrv[q] \in seen
            BY <1>0 DEF UseProtected
        <3>1. q # r /\ pc[q] = "use" /\ slot'[q] = slot[q]
            BY <1>0, <1>1
        <3>2. cpc \in {"scan_active", "scan_hazard"} => ListFrom(snext', cur) = ListFrom(snext, cur)
            BY <1>0, <2>6 DEF InList
        <3> QED BY <1>0, <3>1, <3>2 DEF UseProtected
    <2> QED BY <1>0, <1>h, <2>8, <2>9, <2>10 DEF PExtra, Retire
<1>2. CASE slot[r] # Null /\ ~active[slot[r]]
           /\ pc' = [pc EXCEPT ![r] = "protect"]
           /\ UNCHANGED <<nslots, snext, slot>>
    <2>1. Pending' = Pending
        BY <1>0, <1>2 DEF Pending
    <2>2. slot[r] \in Published
        BY <1>0, <1>2 DEF InList
    <2>3. InList'
        BY <1>0, <1>2, <2>1, <2>2 DEF InList, Published, Alloced, Holding
    <2> QED BY <1>0, <1>h, <1>2, <2>1, <2>3 DEF PExtra, ListShape, Published, Alloced,
                                              Retire, UseProtected
<1>3. CASE slot[r] # Null /\ active[slot[r]]
           /\ slot' = [slot EXCEPT ![r] = snext[slot[r]]]
           /\ UNCHANGED <<nslots, snext, active, pc>>
    <2>1. Pending' = Pending
        BY <1>0, <1>3 DEF Pending
    <2>2. slot[r] \in Published
        BY <1>0, <1>3 DEF InList
    <2>3. snext[slot[r]] \in Published \cup {Null}
        BY <1>p, <2>2 DEF Closed
    <2>4. InList'
        BY <1>0, <1>3, <2>1, <2>3 DEF InList, Published, Alloced, Holding
    <2>5. UseProtected'
        BY <1>0, <1>3 DEF UseProtected
    <2> QED BY <1>0, <1>h, <1>3, <2>1, <2>4, <2>5 DEF PExtra, ListShape, Published, Alloced,
                                                    Retire
<1> QED BY <1>0, <1>1, <1>2, <1>3 DEF AcqScan

\* acquire_slot's CAS on head publishes the pending slot in front of the
\* list; a failed CAS rewrites only the next field of that unpublished slot.
LEMMA AllocCasPExtra ==
    ASSUME PInv, NEW r \in Readers, AllocCas(r)
    PROVE  PExtra'
<1> DEFINE s == slot[r]
<1>0. /\ IInv /\ ListShape /\ InList /\ HazardSet /\ Retire /\ UseProtected
      /\ pc[r] = "alloc_cas"
      /\ UNCHANGED <<nslots, hazard, src, freed, slot, ptrv, cpc, cur, seen, retired>>
      /\ pc \in [Readers -> PCs] /\ slot \in [Readers -> SlotIds \cup {Null}]
      /\ head \in SlotIds \cup {Null}
    BY DEF AllocCas, PInv, PExtra, IInv, TypeOK
<1>p. /\ snext \in NextFns /\ Published \subseteq SlotIds
      /\ \A x \in Published \cup {Null} : ListFrom(snext, x) \subseteq Published
      /\ head \in Published \cup {Null}
    BY <1>0, PubFacts
<1>1. s \in Pending /\ s \in Alloced /\ s \in SlotIds /\ s \notin Published
    <2>1. s \in Pending
        BY <1>0 DEF Pending
    <2>2. s \in Alloced
        BY <1>0 DEF IInv, SlotsAlloced, Owned
    <2>3. s \in SlotIds
        BY <2>2 DEF IInv, TypeOK, Alloced, SlotIds, PInv
    <2> QED BY <2>1, <2>2, <2>3 DEF Published
<1>2. \A q \in Readers \ {r} : pc[q] = "alloc_cas" => slot[q] # s
    BY <1>0 DEF IInv, OwnersDistinct, Owned
<1>3. CASE head = snext[s] /\ head' = s /\ pc' = [pc EXCEPT ![r] = "protect"]
           /\ UNCHANGED snext
    <2>1. Pending' = Pending \ {s}
        BY <1>0, <1>2, <1>3 DEF Pending
    <2>2. Published' = Published \cup {s}
        BY <1>0, <1>1, <2>1 DEF Published, Alloced
    <2>3. ListFrom(snext, s) = {s} \cup ListFrom(snext, head)
        BY <1>1, <1>3, <1>p, ListFromUnfold
    <2>4. ListShape'
        BY <1>0, <1>3, <2>2, <2>3 DEF ListShape
    <2>5. InList'
        BY <1>0, <1>3, <2>2 DEF InList, Holding
    <2>6. HazardSet' /\ UseProtected'
        BY <1>0, <1>3 DEF HazardSet, UseProtected
    <2> QED BY <1>0, <2>4, <2>5, <2>6 DEF PExtra, Retire
<1>4. CASE head # snext[s] /\ snext' = [snext EXCEPT ![s] = head] /\ UNCHANGED <<head, pc>>
    <2>1. Pending' = Pending /\ Published' = Published
        BY <1>0, <1>4 DEF Pending, Published, Alloced
    <2>2. snext' \in NextFns
        BY <1>0, <1>1, <1>4, <1>p DEF NextFns
    <2>3. \A x \in Published \cup {Null} : ListFrom(snext', x) = ListFrom(snext, x)
        <3> SUFFICES ASSUME NEW x \in Published \cup {Null}
                     PROVE  ListFrom(snext', x) = ListFrom(snext, x)
            OBVIOUS
        <3>1. \A c \in ListFrom(snext, x) : snext'[c] = snext[c]
            BY <1>1, <1>4, <1>p
        <3> QED BY <1>p, <2>2, <3>1, ListFromFrame
    <2>4. ListShape'
        BY <1>0, <1>4, <1>p, <2>1, <2>3 DEF ListShape
    <2>5. InList'
        BY <1>0, <1>4, <2>1 DEF InList, Holding
    <2>6. HazardSet'
        BY <1>0, <1>4 DEF HazardSet
    <2>7. UseProtected'
        <3> SUFFICES ASSUME NEW q \in Readers, pc[q] = "use"
                     PROVE  /\ ptrv[q] \in {src, retired} \ {Null}
                            /\ ptrv[q] = retired /\ cpc \in {"scan_active", "scan_hazard"} =>
                                  ptrv[q] \in seen \/ slot[q] \in ListFrom(snext', cur)
                            /\ ptrv[q] = retired /\ cpc = "free" => ptrv[q] \in seen
            BY <1>0, <1>4 DEF UseProtected
        <3>1. cpc \in {"scan_active", "scan_hazard"} => ListFrom(snext', cur) = ListFrom(snext, cur)
            BY <1>0, <2>3 DEF InList
        <3> QED BY <1>0, <3>1 DEF UseProtected
    <2> QED BY <1>0, <2>4, <2>5, <2>6, <2>7 DEF PExtra, Retire
<1> QED BY <1>0, <1>3, <1>4 DEF AllocCas

\* HazardBag::new: an empty list, no Shield, nothing retired or freed.
LEMMA InitPInv == Init => PInv
<1> SUFFICES ASSUME Init PROVE PInv
    OBVIOUS
<1>1. IInv
    BY InitIInv
<1>2. ListShape
    BY DEF Init, ListShape, ListFrom, Published, Alloced, Pending
<1>3. InList /\ HazardSet /\ Retire /\ UseProtected
    BY DEF Init, InList, Holding, HazardSet, Retire, UseProtected, Null
<1> QED BY <1>1, <1>2, <1>3 DEF PInv, PExtra

\* Every step of a reader, of the collector, and the final stutter keeps PInv.
THEOREM NextPInv == PInv /\ [Next]_vars => PInv'
<1> SUFFICES ASSUME PInv, [Next]_vars PROVE PInv'
    OBVIOUS
<1>0. IInv'
    BY NextIInv DEF PInv
<1> SUFFICES PExtra'
    BY <1>0 DEF PInv
<1>1. CASE UNCHANGED vars \/ Terminated
    <2>1. UNCHANGED vars
        BY <1>1 DEF Terminated
    <2> QED BY <2>1 DEF vars, PInv, PExtra, ListShape, Published, Pending, Alloced,
                       InList, Holding, HazardSet, Retire, UseProtected
<1>2. ASSUME NEW r \in Readers, ReaderStep(r) PROVE PExtra'
    <2>1. CASE Drop(r)
        <3>1. pc[r] = "drop_hazard" \/ pc[r] = "drop_active"
            BY <2>1 DEF Drop
        <3> QED BY <2>1, <3>1, ShieldStepPExtra, DropActivePExtra
    <2> QED BY <1>2, <2>1, NewShieldPExtra, AcqScanPExtra, AllocCasPExtra, ShieldStepPExtra
        DEF ReaderStep
<1> QED BY <1>1, <1>2, CollectorPExtra DEF Next

\* PInv holds in every reachable state.
THEOREM PInvInvariant == Spec => []PInv
BY InitPInv, NextPInv, PTL DEF Spec

\* Use after free cannot happen (the property ProtectedNotFreed) for every
\* number of readers, slots and objects: a reader dereferences only the
\* object src points to, which is never freed, or the one just retired,
\* which the collector frees only after an all_hazards scan, started after
\* the unlink, has passed the reader's slot without finding it.
THEOREM ProtectedNotFreedInvariant == Spec => []ProtectedNotFreed
<1>1. PInv => ProtectedNotFreed
    <2> SUFFICES ASSUME PInv, NEW r \in Readers, pc[r] = "use"
                 PROVE  ptrv[r] \notin freed
        BY DEF ProtectedNotFreed
    <2>1. ptrv[r] \in {src, retired} /\ src \in Ptrs
        BY DEF PInv, PExtra, UseProtected, IInv, TypeOK
    <2>2. src \notin freed /\ retired \notin freed
        BY <2>1 DEF PInv, PExtra, Retire, Ptrs
    <2> QED BY <2>1, <2>2
<1> QED BY <1>1, PInvInvariant, PTL

====
