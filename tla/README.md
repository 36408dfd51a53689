# TLA+ models of the cs431 homework

This directory is a verification development for the concurrent data
structures in `src/homework/src`. It contains:

- TLA+ modules that model the code;
- TLC configurations that model-check the modules on small instances;
- TLAPS proofs for every value of the constants;
- `PROJECT.json`, which lists the components, runs, mutants, the map from
  definitions to source lines, findings, hazards and theorems.

## The system

| Part | Source | What it does |
|---|---|---|
| Split-ordered hash table | `hash_table/split_ordered_list.rs` | A lock-free map over one Harris-Michael list (from the `cs431` crate) sorted by bit-reversed key. Buckets are shortcuts into the list, kept in a growable array and initialised lazily and recursively from their parent bucket. `count` and `size` are atomics that drive a resize CAS. |
| Growable array | `hash_table/growable_array.rs` | A lock-free radix tree of segments. Its root carries its height as a tag. `get` grows the root and installs missing segments by CAS. |
| Fine-grained list set | `list_set/fine_grained.rs` | A sorted list with one mutex per `next` pointer, traversed hand over hand. It has an iterator. |
| Optimistic list set | `list_set/optimistic_fine_grained.rs` | A sorted list whose head and `next` pointers each sit behind a `SeqLock`. It is traversed under read guards that are validated, and written by upgrading a read guard to the write lock. |
| Hazard pointers | `hazard_pointer/hazard.rs` | Shields own slots of a grow-only slot list, publish a pointer and validate it. `all_hazards` is what the collector scans. |
| Elimination stack | `elim_stack/{base,elim}.rs` | `push` and `pop` try an inner stack first. On contention they meet through one slot of an elimination array. |
| Cache | `hello_server/cache.rs` | `get_or_insert_with` runs `f` once per key under a `lock_map` of per-key flags. `replace_with` recomputes a value. |
| Thread pool | `hello_server/thread_pool.rs` | A job counter, an unbounded job channel and worker threads. A panic hook counts panics, and a watchdog respawns workers for them. |

The hash table uses the growable array for its buckets. The array's `get`
is a component of its own in this development, so the hash table's model
treats the bucket slots as an array of atomic pointers. The two modules
are checked separately.

## Modules and how they match the code

Every thread is a program counter `pc[t]` over the labels of its
operation. An action is one atomic step of the code: one atomic load,
store or CAS, one lock acquisition, or one critical section that no other
thread can observe in between. Each operation is drawn from a per-thread
`Program`, which is a sequence of sets of operations. After every
operation, `Finish` resets the thread's locals.

- **`MapSpec`, `SetSpec`, `StackSpec`, `ArraySpec`** are the abstract
  specifications. Each has an abstract object, a pending operation per
  thread, and a result per thread. An operation takes effect in one atomic
  step between its invocation and its return.
  - `StackSpec` also has the `Exchange` step of elimination: a pending push
    and a pending pop complete together and leave the stack unchanged.
- **`SplitOrderedList`** models `lookup`, `insert` and `delete`:
  - `lookup_bucket`'s recursion is an explicit stack `stk[t]` of pending
    keys:
    - `LBRead` loads the slot and pushes the parent key;
    - `LBFind` searches from the parent bucket;
    - `LBLink` inserts the sentinel;
    - `LBStore` stores the slot and pops.
  - `Find`, `Link`, `CountUp`, `Resize`, `Unlink` and `CountDown` are the
    remaining steps of the three operations.
  - `count` and `size` wrap at `2^Width`.
  - The `cs431` list lives outside `src/`. Its `find_harris_michael`,
    `insert` and `delete` are modelled from their contract as atomic steps
    over the set of live nodes. A CAS whose expected successor was deleted
    may succeed or fail. These definitions are marked `spec_modelled`.
- **`BucketParent`** computes `parent_mask` with the code's own bit
  operations (`Bitwise`) at 64 bits. `MCSplitOrderedList` checks it
  against its reference, the key with its top bit cleared, in the
  assumption `ParentMaskClearsTopBit`. The check covers every key below
  256 and keys with top bits from 2^22 to 2^29 - 1. TLC evaluates the
  assumption on every split-ordered run.
- **`GrowableArray`** models `get`:
  - `Invoke` is the height loop and the overflow panic.
  - `GrowLoad` and `GrowCas` are the root-growing loop.
  - `LocStart` through `LocLoad` are the locate loop, including the CAS
    that installs a segment and the reload of the winner.
  - `Access` is the caller's load or store on the returned cell.
  - Segments are allocated from a pool bounded by `MaxSegs`.
- **`FineGrainedList`** has state `ptr` (every `next` pointer and the
  head), `holder` (the owner of each mutex), and `freed`:
  - `LockHead` and `Find` are hand-over-hand locking.
  - `Decide` covers the early returns of `contains`, `insert` and `remove`.
  - `Link` is the insert.
  - `Unlink` locks `node.next` and relinks.
  - `Free` is the `drop(node)` at line 111.
  - `IterNext` is `Iter::next`.
  - `refs[t]` records the references an iterator has handed out.
- **`OptimisticList`** has state `ptr` (the head and every `next`
  pointer), `seq` (each cell's `SeqLock` number, even when free) and
  `alloc`. A thread's cursor is `prev` (the cell its read guard is on),
  `snap` (the number that guard remembers) and `curr`:
  - `ReadHead` is `head()`: `read_lock` waits for an even number.
  - `Find` is one iteration of `Cursor::find`: stop at or past the key,
    restart a guard that no longer validates, or end at null.
  - `Advance` is lines 83-87, which `read_lock` `node.next` after
    validating `prev`.
  - `Validate` and `CValidate` are the validations of `find` and
    `contains`, and the early returns of `insert` and `remove`.
  - `Upgrade` is `ReadGuard::upgrade`, a CAS from the remembered number.
  - `Link` is `insert`'s store.
  - `Unlink` is `remove`'s `write_lock` of `curr.next`, swap and store.

  The `SeqLock` is in the `cs431` crate, outside `src/`. `Even`, `Valid`
  and `Guard` model its contract and are marked `spec_modelled`. A read
  guard's lock and the load through it form one step: a write in between
  is caught by the next validation like any later write.
- **`ThreadPool`** models the static `THREADPOOL`, which is never dropped,
  so `shutdown` stays false. Its actions:
  - `Execute` is `start_job` and `send`.
  - `Join` is `wait_empty`.
  - `Recv`, `Complete` and `Panic` are a worker's loop; `Panic` includes
    the panic hook.
  - `WatchCheck` and `WatchDrain` are the watchdog's
    `fetch_sub(1) > 1` respawn loop.

  The jobs are model values, and the set `Panicking` says which of them
  panic.
- **`HazardPointer`** has readers and one collector:
  - Readers go through `NewShield`, `AcqScan` and `AllocCas`
    (`acquire_slot` and `try_acquire_inactive`), then `Protect`, `Set`,
    `Validate` and `Clear` (the `protect` loop), then `Use`, then `Drop`.
  - The collector unlinks the source pointer's object (`Unlink`) and scans
    the slots as `all_hazards` does (`ScanHead`, `ScanActive`,
    `ScanHazard`). It frees the retired pointer only if the scan did not
    see it.
  - Retirement and collection live outside `src/` and are
    `spec_modelled`.
- **`ElimStack`** models the inner stack as a version-stamped load and CAS
  pair (`PushLoad`/`PushCas`, `PopLoad`/`PopCas`). The elimination slot
  steps are modelled one by one:
  - `PushOffer` (lines 23-42);
  - `PushWithdraw` (44-69);
  - `PopPeek` (77-83);
  - `PopReload` (84-94);
  - `PopTake` (96-115).

  A failed `try_*` goes back to `push`'s or `pop`'s retry loop (`Retry`).
  A request box is named by the value it carries. `PushOnceAssumption`
  says that no two calls of the program push the same value. This matches
  the code, where each `push` allocates its own box and reuses it on every
  retry. `ResultAssumption` keeps the "no result yet" marker out of
  `Values`.
- **`Cache`** models the `lock_map` `RwLock` as `wlock` (a writer, or
  `None`), the per-key `AtomicBool` as `flag`, and `raw_map` as `raw`.
  `fcalls` counts calls of `f`. Each numbered block of
  `get_or_insert_with` and `replace_with` is an action. The model
  simplifies the lock in two ways:
  - The read locks are held only within single steps, so they appear as
    the guard `wlock = None`.
  - `replace_with` takes `&mut self`, so it runs only while no other
    operation is in flight.

## Runs

| Run | Checks | Instance and why it is enough |
|---|---|---|
| `sol_free` | `TypeOK`, `BucketsSound`, `CountConsistent`, `Linearizable`, `OpsReturn` under `FairSpec` | 2 threads, any 2 operations each on keys 0, 2, 3 and 4, load factor 1, 5-bit words. Three inserts into bucket 0 double `size`, and an operation on key 3 then initialises bucket 3 through the uninitialised bucket 1. About 200,000 states in 80 s. One value suffices, because no operation's control depends on which value it stores. |
| `sol_wrap` | `NoOverflowPanic` (violation) | One insert and one delete of the same key. |
| `ga` | `TypeOK`, `GrowEnough`, `Implements` (refinement to `ArraySpec`) | Segments of 2 in a 3-bit word: indices 1, 2 and 5 need heights 0, 1 and 2. Both the root-growing CAS and the segment CAS are contended. |
| `fg` | `TypeOK`, `MemorySafe` (= `FreedDetached` and no freed node reachable), `Linearizable`, `OpsReturn` under `FairSpec` | 2 threads, any 3 operations (contains, insert, remove, iterate) on keys 1..3. |
| `fg_dangling` | `NoDanglingRef` (violation) | An iterator and a remove. |
| `hp` | `TypeOK`, `SlotsExclusive`, `ProtectedNotFreed` | 2 readers with 2 rounds each, at most 3 slots and 3 objects. Slots are both recycled and freshly allocated, and the publishing CAS fails. `HazardPointerProofs` proves all three properties for every instance. |
| `elim` | `TypeOK`, `Linearizable` | 3 threads and one elimination slot. Offers succeed and fail, and withdrawals race with takes. `ElimStackProofs` proves both properties for every instance. |
| `ofg` | `TypeOK`, `Sorted`, `GuardSound`, `WriteLockExclusive`, `OpsReturn` under `FairSpec` | 2 threads, any 3 operations each on keys 1 and 2, at most 6 nodes: 630,000 states in about 60 s. Inserts and removes race for the same `prev`, and cursors meet removed nodes. Three keys take 4.8 million states and 9 minutes. |
| `ofg_lost` | `Linearizable` (violation) | Thread 1 inserts 1 and 2 and removes 1, while thread 2 runs `contains(2)`. |
| `pool_join` | `JoinReturns` (violation) under `FairSpec` | One worker, a panicking job, then an ordinary one. |
| `cache` | `FOnce`, `GetsAgree`, `OpsReturn` under `FairSpec` | 3 threads race `get_or_insert_with` for both keys, including gets that wait on another thread's `f`. One thread then replaces a key the cache holds. |
| `cache_replace` | `OpsReturn` (violation) | `replace_with` of an absent key. |

`MCCacheReplace.cfg` and `MCThreadPool.cfg` disable the deadlock check.
In those runs the system really stops, and the stop is the run's
finding:
- `replace_with` of an absent key blocks on its own lock;
- the pool is left with no worker. The passing runs replace only keys the cache holds, and
every passing run checks deadlock.

Every property of a passing run has a mutant in `PROJECT.json`. A mutant
is a plausible bug in the mapped code, such as a dropped guard, a missing
recheck, a swapped order or a missing decrement. TLC finds each mutant
violating its property under the run's own configuration.

## Fairness

The `FairSpec` specifications put weak fairness on each thread's `Step(t)`.
The code justifies this because:

- the threads are OS threads;
- a blocked thread waits on a mutex or `RwLock` that its holder releases
  within the step sequence of the model;
- the spin loops re-read shared state on every iteration. These are the
  loops of the cache, the elimination array, the seqlock's `read_lock`
  and `write_lock`, `join`'s `wait_empty` and the watchdog's sleep loop.
  A writer holds a seqlock only for its own bounded critical section.

`ThreadPool` puts weak fairness on the client, on the watchdog and on
each worker.

No stronger fairness is assumed.

## Findings

1. **`split_ordered_list.rs:189`.** `delete` can run its `fetch_sub`
   before the matching insert's `fetch_add`. `count` then wraps, and the
   next insert's `count + 1` overflows (run `sol_wrap`).
2. **`fine_grained.rs:145`.** `Iter::next` returns `&node.data`. Once the
   iterator has advanced, a concurrent `remove` can free that node, so the
   returned reference dangles (run `fg_dangling`).
3. **`cache.rs:88`.** `replace_with` of a key not yet cached calls
   `lock_map.write()` while its own guard from line 71 is still alive. The
   call deadlocks or panics (run `cache_replace`).
4. **`optimistic_fine_grained.rs:83`.** `Cursor::find` validates `prev`
   at line 75 and only then `read_lock`s `node.next`. It never validates
   the old guard again: `prev.finish()`'s result is dropped at line 87.
   A `remove(node)` in that window sets `node.next` to null and leaves
   its number even. The cursor then reaches "the end of the list",
   validates, and `contains` returns false for a key that was present
   throughout (run `ofg_lost`). An `insert` in the same window links its
   node after the unlinked one and is lost.
5. **`thread_pool.rs:160`.** The watchdog respawns a worker only for each
   `fetch_sub(1)` that returns more than 1, so one fewer than the panics
   it counted. A lone panic is never replaced. After `size` panicking
   jobs no worker is left, and `join` waits forever (run `pool_join`).

The smear loop of `lookup_bucket` (`split_ordered_list.rs:80`) shifts by
7, 6, ..., 0, which is 28 bit positions in total. A bucket key of 2^29
or above therefore keeps its top bit in `parent_mask`, and the recursion
calls itself on the same key. Adding 2^29 to the keys of
`ParentMaskClearsTopBit` makes that assumption false. Reaching such a
bucket needs more than 2^30 items, so it is listed as a hazard rather
than a run.

## Proofs

`SplitOrderedListProofs` proves `TypeCorrect`: `Spec => []TypeOK`. It
holds for every word width of at least 2 bits, every thread set, key set,
value set, load factor and program.

`TypeOK` alone is not inductive. `Top(t)` reads the last frame of the
lookup_bucket stack, and that frame is well typed only while a thread
inside `lookup_bucket` has one. The inductive invariant is therefore
`IInv == TypeOK /\ StackOK`, where `StackOK` says that every thread in
`lb_*` has a non-empty stack. The proof consists of:

- `Init => IInv`;
- one step per action for `IInv /\ [Next]_vars => IInv'`;
- the temporal QED by PTL.

The assumptions it uses are `WordAssumption` and `ParamAssumption`.

`OptimisticListProofs` proves three theorems about the optimistic list:

- `GuardSoundInvariant`: `Spec => []GuardSound`;
- `WriteLockExclusiveInvariant`: `Spec => []WriteLockExclusive`;
- `TypeCorrect`: `Spec => []TypeOK`.

They hold for every thread set, key set, node bound and program. The
assumptions used are `ParamAssumption` (keys are naturals, the node bound
is a natural) and `ProgramAssumption` (each program step is a set of
operations of `SetSpec`).

`GuardSound` is not inductive. A step of another thread can write the cell
a guard remembers, and only the SeqLock numbers say that such a guard no
longer validates. The inductive invariant `IInv` adds to `TypeOK` and
`GuardSound`:

- `PtrsAlloced`: every pointer and cursor names an allocated node. Without
  it, `Link`'s fresh node could be some cursor's `prev`.
- `OnNode`: a thread in `advance` or `unlink`, or one that found its key,
  stands on a node. A remove reaches `upgrade` only with its key found.
- `SnapBound`: a guard's number is at most its cell's. So a writer's `+1`
  on a cell invalidates every guard on it.
- `WriterOdd`: a thread between `upgrade` and its store sees an odd number
  on its `prev`. Every guard is even, so no guard validates on a locked
  cell. This is also why `Unlink`'s `+2` on `curr`, which is even when
  locked, invalidates the cursors standing on it.
- `WritersDistinct`: no two writers hold the same `prev`. Without it, one
  writer's store could break another's guard bookkeeping. It is also the
  statement of `WriteLockExclusive`.

The proof consists of:

- `InitIInv`;
- a lemma per action. Steps that touch no shared state go through
  `LocalStep`, which reduces `IInv'` to the stepping thread's own
  conjuncts. `GuardFacts` covers every `read_lock` with its load.
  `UpgradeIInv`, `LinkIInv` and `UnlinkIInv` carry the parity argument.
- `NextIInv`, which combines the lemmas;
- the temporal steps by PTL.

`HazardPointerProofs` proves `SlotsExclusiveInvariant`
(`Spec => []SlotsExclusive`) and `TypeCorrect`, for every number of
readers, slots, pointers and rounds. A slot is *owned* by a reader that
holds a shield on it or is about to CAS it onto the list. The inductive
invariant adds to `TypeOK`:

- `Bounds`: a running reader has rounds left, a collector that has
  retired something holds a pointer, and a scan is at a real slot.
  These keep `TypeOK` through `AcqScan` and `Drop`.
- `SlotsAlloced`: the head, every `next` and every scan position name an
  allocated slot or null, and an owned slot is allocated and active.
  Without it, an acquire could pick up a slot that is still some other
  shield's.
- `OwnersDistinct`: no two readers own the same slot. This is stronger
  than `SlotsExclusive`, because it also covers the slot being pushed.

It also proves `ProtectedNotFreedInvariant` (`Spec => []ProtectedNotFreed`)
for every instance. `all_hazards` walks the slot list, so the argument
needs the list's shape. A recursive reachability function would put the
proof out of reach, because unfolding it needs induction. `ListFrom(nx, x)`
is instead defined as the least set of slots that holds `x` and is closed
under `nx`. Its lemmas (`ListFromClosed`, `ListFromLeast`,
`ListFromUnfold`, `ListFromFrame`) follow from the definition, with no
induction. The strengthening `PInv` adds to `IInv`:

- `ListShape`: the list from `head` is exactly the *published* slots.
  These are the allocated slots that no reader is about to CAS onto the
  list. A fresh slot's `next` can change on a failed CAS, and
  `ListFromFrame` shows that this leaves the list alone. A successful CAS
  adds the slot in front, by `ListFromUnfold`.
- `InList`: a shield's slot, a slot `try_acquire_inactive` visits, and
  the slot the collector's scan is at are all published.
- `HazardSet`: a reader that is validating or using its pointer has that
  pointer in its slot's hazard.
- `Retire`: the collector holds a retired object exactly when it is not
  idle. The retired object is `src - 1`, every freed object is below
  `src`, and the retired one is not freed.
- `UseProtected`: a reader in `use` holds `src` or the retired object.
  If it holds the retired one during a scan, either the scan has
  already collected it, or the reader's slot is still ahead of the scan,
  in `ListFrom(snext, cur)`. Once the scan is over, it has collected it.

The last conjunct carries the argument. Validation succeeds only while
`src` still points at the object. The collector unlinks before it scans,
so a reader that validated before the unlink already has its hazard set
when a later scan starts, and its slot is in the list that scan walks.
When the scan passes the slot, `ScanHazard` adds the hazard to `seen`, and
`Free` keeps any object in `seen`. TLC checked `PInv` as an invariant of
the `hp` instance before it was proved.

`CacheProofs` proves `FOnceInvariant` (`Spec => []FOnce`) and
`GetsAgreeInvariant` (`Spec => []GetsAgree`), for every thread, key and
value set and every program. It uses `NoneAssumption` (`None` is neither
a flag nor a value) besides `ParamAssumption`. The inductive invariant
adds:

- `OpsMatch`: the program counter agrees with the method running.
- `ReplaceAlone`: `replace_with` runs alone, since it takes `&mut self`.
- `OneComputer`: the thread between inserting a flag and storing the
  value holds that flag `true`, and is the only such thread for its key.
  This is what makes `f` run once.
- `NotYetCalled`: `f` has not run for a key whose flag was never
  inserted.
- `Stored`: a stored flag comes with a value, and a returned get has one.

Each action has a lemma with one step per conjunct.

`FineGrainedListProofs` proves `TypeCorrect` and `FreedDetachedInvariant`
(`Spec => []FreedDetached`), for every thread set, key set, node bound and
program. `FreedDetached` is the part of `MemorySafe` that needs no
reachability: no cell of a node that is not freed points to a freed node,
and no cursor holds or stands at one. A node is *dead* once it is freed,
or once it is the victim of a remove between `Unlink` and `Free`. The
inductive invariant adds:

- `LocksHeld`: a thread past `lock_head` holds exactly the lock of its
  cursor's cell, and every held lock is such a cursor's.
- `Allocated`: pointers, locks, victims and freed nodes stay within the
  allocated ids, and a remove unlinks a real node.
- `DeadDetached`: no live cell points to a dead node, and no one holds or
  stands at one.
- `LiveInjective`: no two live cells point to the same node. This is why
  the cell the remover bypasses was the victim's only live predecessor.
- `VictimBypassed`: until `drop(node)`, the victim points where its
  remover's cell now points. So even a victim that is not yet freed
  points to no dead node, and `FreedDetached` quantifies over every cell
  that is not freed.

`Unlink`'s lemma carries the argument. The lock it takes on `node.next`
(`holder[n] = NoRes`) is what keeps every cursor off the victim.

`GrowableArrayProofs` proves `GrowEnoughInvariant`
(`Spec => []GrowEnough`) for
every segment size, word width, segment bound and program. `GrowEnough`
is not inductive: a thread may leave the grow loop with `iter = 0` and no
look at the root. `GrowProgress` records what the loop has achieved:

- a thread in the loop has a root at least `hgt - iter` tall;
- a pending CAS read a root of that height, still below `hgt`;
- that root is no taller than the current one, and is the current one
  when it is as tall.

The last point is what makes a failed CAS still count: the root changed,
so it grew past the one read. The invariant needs only the types of the
variables the loop touches (`GrowTypes`), not all of `TypeOK`.

`ElimStackProofs` proves `TypeCorrect` (`Spec => []TypeOK`) for every
thread set, value set, number of exchange slots and program. It uses
`ParamAssumption` and `ProgramAssumption`. What `TypeOK` rules out is an
inner `try_pop` whose CAS succeeds on an empty stack. `PopCas` takes
`inner[Len(inner)]`, which is not a value when the stack is empty. The
CAS succeeds only when the head version is the one `PopLoad` read. The
inductive invariant adds:

- `SeenBound`: no thread has read a version the head has not reached yet.
  Every change of the inner stack advances the version, so a version read
  earlier can never come back.
- `PopSeen`: a pop at `q_cas` whose version is still current saw a
  non-empty stack. `PopLoad` reads the version only when the head is not
  null. `SeenBound` keeps the other pops' stale versions stale when a
  push or a pop advances it.
- `OpsMatch`: a thread inside `push` runs a push of a value, and a
  thread inside `pop` runs a pop. `Retry` and `PushOffer` need this.
- `TakeGot`: a pop at `q_take` has loaded a request, not null. Its
  result is therefore a value.

Each action has a lemma, with one step per case and per group of
conjuncts. `PopCasIInv` carries the argument, through the sequence
lemmas `LenProperties`, `ElementOfSeq` and `SubSeqProperties`.

The same module proves `Refinement` (`Spec => Linearizable`): ElimStack
implements `StackSpec` under the identity mapping on `inner`, `op` and
`res`. The argument is `StepRefines`:

- a successful `PushCas` is `DoPush`;
- a successful `PopCas`, and `PopLoad` on an empty stack, are `DoPop`;
- a successful `PopTake` is `Exchange` with the push that offered the
  request;
- `Finish` is `Return`;
- every other step leaves the stack, the operations and the results alone.

It rests on `RInv`, which adds to `IInv`:

- `IdleClear`: an idle thread has no operation or result.
- `Running`: a running thread runs the next call of its program.
- `Pending`: a call has no result until it takes effect, and has one at
  `ret`. A push at `p_withdraw` has taken effect exactly when its request
  is no longer in its slot.
- `Offered`: a request in a slot belongs to a push waiting at
  `p_withdraw` on that slot.

`TakeFromOfferer` is the key lemma. `PopTake` answers `"ok"` to every
thread whose operation pushes the value taken. With `PushOnceAssumption`
(lemma `PushOnce`), that is exactly the one push that offered it. Without
the assumption, two pushes of one value would both return on one
exchange, and the refinement would fail. `Pending` is also what makes a
failed withdrawal return `Ok` only after a pop has answered for it.

Only TLC checks the following:

- Safety invariants that quantify over the nodes reachable from the head:
  `Sorted` (optimistic list) and the `Reach` part of `MemorySafe`
  (lock-coupling list). In those models reachability is a recursive
  function of the pointers, and proving what it computes needs induction
  over the list, which the installed provers cannot instantiate. The
  hazard-pointer proof avoids this by stating its own inductive
  invariant with the closure-based `ListFrom`.
- `TypeOK` and `Implements` of `GrowableArray`: the tree walk `Walk` is a
  recursive function as well. `TypeOK` depends on the layer a segment
  pointer is read at, which is a property of that walk.
- `BucketsSound` and `CountConsistent` of the split-ordered list. Both
  need facts about the split-order key that hold for every word width:
  a sentinel's `RevTable` key is even, a real node's is odd, and bit
  reversal is one-to-one. For example, `LBStore` stores the node whose
  key equals the bucket's, and that node is the bucket's own sentinel
  only because of these facts. `RevTable` is a recursive function of the
  bit index. Even its unfolding equation needs the library's
  inductive-definition theorems, which take an operator parameter that
  the installed provers cannot instantiate.
- The refinements other than the elimination stack's (`Linearizable` of
  the split-ordered and lock-coupling lists, and `Implements`). Each
  depends on what a recursive function computes: the reachable list, the
  tree walk, or the split-order key `RevTable`.
- Liveness (`OpsReturn`, `JoinReturns`): TLAPS does not handle `ENABLED`
  or fairness.
- `BucketParent`: it uses `Bitwise`.
- The refinement of `OptimisticList` to `SetSpec`, which does not hold.

## Not modelled

- **Weak memory.** TLC explores sequentially consistent interleavings.
  The Relaxed and Release/Acquire orderings are listed as hazards but not
  checked. In particular, `set` followed by `validate` in `hazard.rs` has
  no SeqCst fence.
- **Memory reclamation by `crossbeam_epoch`, and leaks.** An example is
  the request box that is never freed after an elimination.
- **`Drop` of the structures.** It runs on exclusive access.
- **The null `Owned` in `lookup_bucket`.** After a successful sentinel
  insert, line 106 sets `node` to `Owned::from_raw(null)`. The next pass
  finds the sentinel and returns, which drops that `Owned`. Its `Drop`
  calls `Box::from_raw` on a null pointer, on every successful bucket
  initialisation. The model names nodes and does not represent
  ownership or `Drop`, so no run can show this; it is listed as a hazard.
- **A panicking `f` in the cache.** `CallF` would need a disjunct that
  leaves the flag set. Every later get of that key would then spin, and
  `OpsReturn` would fail for that reason alone.
- **`Iter` of the optimistic list.** Its `next` only reads and validates.
- **A panic outside a job in the thread pool.** The hook would then
  decrement `job_count` for no job. Also not modelled: the pool's `Drop`,
  which never runs for the static pool, and `panic()`, which only reads.
- **`http-example`.** It is socket I/O around a channel pool.
