--------------------------- MODULE HazardPointer ---------------------------
(***************************************************************************)
(* The hazard-pointer registry of src/homework/src/hazard_pointer/hazard.rs *)
(* with readers that protect a shared pointer and a collector that frees   *)
(* what it has unlinked.                                                   *)
(*                                                                         *)
(* HazardBag is a grow-only list of slots (head, next); a Shield owns one  *)
(* slot (active) and publishes the pointer it protects in it (hazard).     *)
(* Every atomic load, store and CAS of hazard.rs is one step here.         *)
(*                                                                         *)
(* The collector (retire and scan-then-free) is not in this repository:    *)
(* it is modelled from the reclamation scheme the specification describes  *)
(* (unlink, scan all hazards with all_hazards, free what no hazard names). *)
(***************************************************************************)
EXTENDS Integers, Sequences, FiniteSets

CONSTANTS
    Readers,    \* threads that protect and dereference the shared pointer
    MaxSlots,   \* bound on the slots acquire_slot allocates
    MaxPtr,     \* the collector replaces the shared pointer up to MaxPtr
    Rounds      \* Shields each reader creates, one after the other

ASSUME ParamAssumption ==
    /\ MaxSlots \in Nat /\ MaxPtr \in Nat \ {0} /\ Rounds \in Nat

Null == 0
SlotIds == 1 .. MaxSlots
Ptrs == 1 .. MaxPtr

VARIABLES
    head,     \* HazardBag::head
    nslots,   \* slots allocated so far (ids 1 .. nslots)
    snext,    \* snext[s]: HazardSlot::next
    active,   \* active[s]: HazardSlot::active
    hazard,   \* hazard[s]: HazardSlot::hazard (Null: null)
    src,      \* the AtomicPtr the readers protect from
    freed,    \* pointers the collector has freed
    pc,       \* where each reader is
    slot,     \* the slot a reader visits (acquire) or owns (its Shield)
    ptrv,     \* the pointer protect is validating / has returned
    rounds,   \* Shields a reader has dropped
    cpc,      \* where the collector is
    cur,      \* the slot all_hazards visits
    seen,     \* the hazards all_hazards has collected
    retired   \* the pointer the collector has unlinked and not yet freed

vars == <<head, nslots, snext, active, hazard, src, freed, pc, slot, ptrv,
          rounds, cpc, cur, seen, retired>>

PCs == {"idle", "acq_scan", "alloc_cas", "protect", "set", "validate",
        "clear", "use", "drop_hazard", "drop_active"}

\* What a reader between Shield::new and the end of Shield::drop owns.
Holding(r) == pc[r] \in {"protect", "set", "validate", "clear", "use",
                         "drop_hazard", "drop_active"}

\* HazardBag::new: no slot; the shared pointer points at object 1.
Init ==
    /\ head = Null
    /\ nslots = 0
    /\ snext = [s \in SlotIds |-> Null]
    /\ active = [s \in SlotIds |-> FALSE]
    /\ hazard = [s \in SlotIds |-> Null]
    /\ src = 1
    /\ freed = {}
    /\ pc = [r \in Readers |-> "idle"]
    /\ slot = [r \in Readers |-> Null]
    /\ ptrv = [r \in Readers |-> Null]
    /\ rounds = [r \in Readers |-> 0]
    /\ cpc = "idle"
    /\ cur = Null
    /\ seen = {}
    /\ retired = Null

-----------------------------------------------------------------------------
(***************************************************************************)
(* Shield::new: acquire_slot, first try_acquire_inactive, then allocation. *)
(***************************************************************************)
\* try_acquire_inactive: slot = self.head.load().
NewShield(r) ==
    /\ pc[r] = "idle"
    /\ rounds[r] < Rounds
    /\ slot' = [slot EXCEPT ![r] = head]
    /\ pc' = [pc EXCEPT ![r] = "acq_scan"]
    /\ UNCHANGED <<head, nslots, snext, active, hazard, src, freed, ptrv,
                   rounds, cpc, cur, seen, retired>>

\* Mutant: the scan returns the slot it stopped at, null included.
AcqScanNoNullCheck(r) ==
    LET s == slot[r] IN
    /\ pc[r] = "acq_scan"
    /\ \/ /\ s = Null
          /\ pc' = [pc EXCEPT ![r] = "protect"]
          /\ UNCHANGED <<nslots, snext, active, slot>>
       \/ /\ s # Null /\ ~active[s]
          /\ active' = [active EXCEPT ![s] = TRUE]
          /\ pc' = [pc EXCEPT ![r] = "protect"]
          /\ UNCHANGED <<nslots, snext, slot>>
       \/ /\ s # Null /\ active[s]
          /\ slot' = [slot EXCEPT ![r] = snext[s]]
          /\ UNCHANGED <<nslots, snext, active, pc>>
    /\ UNCHANGED <<head, hazard, src, freed, ptrv, rounds, cpc, cur, seen, retired>>

\* One iteration of try_acquire_inactive (CAS active false -> true, else
\* move to next); at the end of the list, acquire_slot allocates a slot
\* with next = head.load() and active = true, not yet published.
AcqScan(r) ==
    LET s == slot[r] IN
    /\ pc[r] = "acq_scan"
    /\ \/ /\ s = Null
          /\ nslots < MaxSlots
          /\ nslots' = nslots + 1
          /\ snext' = [snext EXCEPT ![nslots + 1] = head]
          /\ active' = [active EXCEPT ![nslots + 1] = TRUE]
          /\ slot' = [slot EXCEPT ![r] = nslots + 1]
          /\ pc' = [pc EXCEPT ![r] = "alloc_cas"]
       \/ /\ s # Null /\ ~active[s]
          /\ active' = [active EXCEPT ![s] = TRUE]
          /\ pc' = [pc EXCEPT ![r] = "protect"]
          /\ UNCHANGED <<nslots, snext, slot>>
       \/ /\ s # Null /\ active[s]
          /\ slot' = [slot EXCEPT ![r] = snext[s]]
          /\ UNCHANGED <<nslots, snext, active, pc>>
    /\ UNCHANGED <<head, hazard, src, freed, ptrv, rounds, cpc, cur, seen, retired>>

\* acquire_slot's loop: CAS head from new.next to new; on failure new.next
\* becomes the current head and the CAS is retried.
AllocCas(r) ==
    LET s == slot[r] IN
    /\ pc[r] = "alloc_cas"
    /\ \/ /\ head = snext[s]
          /\ head' = s
          /\ pc' = [pc EXCEPT ![r] = "protect"]
          /\ UNCHANGED snext
       \/ /\ head # snext[s]
          /\ snext' = [snext EXCEPT ![s] = head]
          /\ UNCHANGED <<head, pc>>
    /\ UNCHANGED <<nslots, active, hazard, src, freed, slot, ptrv, rounds,
                   cpc, cur, seen, retired>>

(***************************************************************************)
(* Shield::protect(src): load src, then try_protect until it validates.    *)
(***************************************************************************)
Protect(r) ==
    /\ pc[r] = "protect"
    /\ ptrv' = [ptrv EXCEPT ![r] = src]
    /\ pc' = [pc EXCEPT ![r] = "set"]
    /\ UNCHANGED <<head, nslots, snext, active, hazard, src, freed, slot,
                   rounds, cpc, cur, seen, retired>>

\* Shield::set: hazard.store(pointer).
Set(r) ==
    /\ pc[r] = "set"
    /\ hazard' = [hazard EXCEPT ![slot[r]] = ptrv[r]]
    /\ pc' = [pc EXCEPT ![r] = "validate"]
    /\ UNCHANGED <<head, nslots, snext, active, src, freed, slot, ptrv,
                   rounds, cpc, cur, seen, retired>>

\* Mutant: try_protect reports success without looking at src again.
ValidateNoCheck(r) ==
    /\ pc[r] = "validate"
    /\ pc' = [pc EXCEPT ![r] = "use"]
    /\ UNCHANGED <<head, nslots, snext, active, hazard, src, freed, slot, ptrv,
                   rounds, cpc, cur, seen, retired>>

\* Shield::validate: src.load() equal to the pointer is Ok; otherwise the
\* loaded value is the next pointer to try, after clear().
Validate(r) ==
    /\ pc[r] = "validate"
    /\ \/ /\ src = ptrv[r]
          /\ pc' = [pc EXCEPT ![r] = "use"]
          /\ UNCHANGED ptrv
       \/ /\ src # ptrv[r]
          /\ ptrv' = [ptrv EXCEPT ![r] = src]
          /\ pc' = [pc EXCEPT ![r] = "clear"]
    /\ UNCHANGED <<head, nslots, snext, active, hazard, src, freed, slot,
                   rounds, cpc, cur, seen, retired>>

\* try_protect's inspect_err: clear() stores null, then protect retries.
Clear(r) ==
    /\ pc[r] = "clear"
    /\ hazard' = [hazard EXCEPT ![slot[r]] = Null]
    /\ pc' = [pc EXCEPT ![r] = "set"]
    /\ UNCHANGED <<head, nslots, snext, active, src, freed, slot, ptrv,
                   rounds, cpc, cur, seen, retired>>

\* The reader dereferences the protected pointer, then drops the Shield.
Use(r) ==
    /\ pc[r] = "use"
    /\ pc' = [pc EXCEPT ![r] = "drop_hazard"]
    /\ UNCHANGED <<head, nslots, snext, active, hazard, src, freed, slot, ptrv,
                   rounds, cpc, cur, seen, retired>>

\* Mutant: Drop releases the slot before it clears the hazard.
DropSwapped(r) ==
    /\ \/ /\ pc[r] = "drop_hazard"
          /\ active' = [active EXCEPT ![slot[r]] = FALSE]
          /\ pc' = [pc EXCEPT ![r] = "drop_active"]
          /\ UNCHANGED <<hazard, slot, ptrv, rounds>>
       \/ /\ pc[r] = "drop_active"
          /\ hazard' = [hazard EXCEPT ![slot[r]] = Null]
          /\ pc' = [pc EXCEPT ![r] = "idle"]
          /\ slot' = [slot EXCEPT ![r] = Null]
          /\ ptrv' = [ptrv EXCEPT ![r] = Null]
          /\ rounds' = [rounds EXCEPT ![r] = rounds[r] + 1]
          /\ UNCHANGED active
    /\ UNCHANGED <<head, nslots, snext, src, freed, cpc, cur, seen, retired>>

\* Shield::drop: hazard.store(null), then active.store(false).
Drop(r) ==
    /\ \/ /\ pc[r] = "drop_hazard"
          /\ hazard' = [hazard EXCEPT ![slot[r]] = Null]
          /\ pc' = [pc EXCEPT ![r] = "drop_active"]
          /\ UNCHANGED <<active, slot, ptrv, rounds>>
       \/ /\ pc[r] = "drop_active"
          /\ active' = [active EXCEPT ![slot[r]] = FALSE]
          /\ pc' = [pc EXCEPT ![r] = "idle"]
          /\ slot' = [slot EXCEPT ![r] = Null]
          /\ ptrv' = [ptrv EXCEPT ![r] = Null]
          /\ rounds' = [rounds EXCEPT ![r] = rounds[r] + 1]
          /\ UNCHANGED hazard
    /\ UNCHANGED <<head, nslots, snext, src, freed, cpc, cur, seen, retired>>

-----------------------------------------------------------------------------
(***************************************************************************)
(* The collector: unlink the object src points to, then free it once an    *)
(* all_hazards scan that started after the unlink does not contain it.     *)
(***************************************************************************)
Unlink ==
    /\ cpc = "idle"
    /\ src < MaxPtr
    /\ retired' = src
    /\ src' = src + 1
    /\ cpc' = "scan_head"
    /\ UNCHANGED <<head, nslots, snext, active, hazard, freed, pc, slot, ptrv,
                   rounds, cur, seen>>

\* all_hazards: slot = self.head.load(), on an empty set.
ScanHead ==
    /\ cpc = "scan_head"
    /\ cur' = head
    /\ seen' = {}
    /\ cpc' = "scan_active"
    /\ UNCHANGED <<head, nslots, snext, active, hazard, src, freed, pc, slot,
                   ptrv, rounds, retired>>

\* all_hazards: r.active.load(); an inactive slot is skipped.  At the end
\* of the list the scan returns the set.
ScanActive ==
    /\ cpc = "scan_active"
    /\ \/ /\ cur = Null
          /\ cpc' = "free"
          /\ UNCHANGED cur
       \/ /\ cur # Null /\ active[cur]
          /\ cpc' = "scan_hazard"
          /\ UNCHANGED cur
       \/ /\ cur # Null /\ ~active[cur]
          /\ cur' = snext[cur]
          /\ UNCHANGED cpc
    /\ UNCHANGED <<head, nslots, snext, active, hazard, src, freed, pc, slot,
                   ptrv, rounds, seen, retired>>

\* all_hazards: set.insert(r.hazard.load()), then slot = r.next.
ScanHazard ==
    /\ cpc = "scan_hazard"
    /\ seen' = seen \cup {hazard[cur]}
    /\ cur' = snext[cur]
    /\ cpc' = "scan_active"
    /\ UNCHANGED <<head, nslots, snext, active, hazard, src, freed, pc, slot,
                   ptrv, rounds, retired>>

\* Free the unlinked object if no hazard names it; otherwise keep it and
\* scan again later.
Free ==
    /\ cpc = "free"
    /\ \/ /\ retired \notin seen
          /\ freed' = freed \cup {retired}
          /\ retired' = Null
          /\ cpc' = "idle"
       \/ /\ retired \in seen
          /\ cpc' = "scan_head"
          /\ UNCHANGED <<freed, retired>>
    /\ UNCHANGED <<head, nslots, snext, active, hazard, src, pc, slot, ptrv,
                   rounds, cur, seen>>

\* Every reader has dropped its last Shield and the collector is idle.
Terminated ==
    /\ \A r \in Readers : pc[r] = "idle" /\ rounds[r] = Rounds
    /\ cpc = "idle"
    /\ UNCHANGED vars

ReaderStep(r) ==
    \/ NewShield(r) \/ AcqScan(r) \/ AllocCas(r) \/ Protect(r) \/ Set(r)
    \/ Validate(r) \/ Clear(r) \/ Use(r) \/ Drop(r)

CollectorStep == Unlink \/ ScanHead \/ ScanActive \/ ScanHazard \/ Free

Next == (\E r \in Readers : ReaderStep(r)) \/ CollectorStep \/ Terminated

Spec == Init /\ [][Next]_vars

-----------------------------------------------------------------------------
(***************************************************************************)
(* Properties.                                                             *)
(***************************************************************************)
TypeOK ==
    /\ head \in SlotIds \cup {Null}
    /\ nslots \in 0 .. MaxSlots
    /\ snext \in [SlotIds -> SlotIds \cup {Null}]
    /\ active \in [SlotIds -> BOOLEAN]
    /\ hazard \in [SlotIds -> Ptrs \cup {Null}]
    /\ src \in Ptrs
    /\ freed \subseteq Ptrs
    /\ pc \in [Readers -> PCs]
    /\ slot \in [Readers -> SlotIds \cup {Null}]
    /\ \A r \in Readers : Holding(r) \/ pc[r] = "alloc_cas" => slot[r] \in SlotIds
    /\ ptrv \in [Readers -> Ptrs \cup {Null}]
    /\ rounds \in [Readers -> 0 .. Rounds]
    /\ cpc \in {"idle", "scan_head", "scan_active", "scan_hazard", "free"}
    /\ cur \in SlotIds \cup {Null}
    /\ seen \subseteq Ptrs \cup {Null}
    /\ retired \in Ptrs \cup {Null}

\* A slot belongs to one Shield at a time, and an owned slot is active:
\* what the CAS of try_acquire_inactive, the active store of a fresh slot
\* before its publication and Drop's order guarantee.
SlotsExclusive ==
    \A r \in Readers :
        /\ Holding(r) => active[slot[r]]
        /\ \A q \in Readers \ {r} : Holding(r) /\ Holding(q) => slot[r] # slot[q]

\* A pointer protect has returned is never freed while the Shield is held:
\* hazard set, validated against src, seen by every later scan.
ProtectedNotFreed == \A r \in Readers : pc[r] = "use" => ptrv[r] \notin freed

=============================================================================
