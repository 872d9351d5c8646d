# A specification of `pastes`

`pastes` is a collection of small, independent programs and headers, most of
them one file each. They share no code, no process and no data, so each file is
a system of its own. This directory holds TLA+ modules for the ones with the
most intricate state, TLC configurations that check them on small instances,
and theorems about them that TLAPS proves for every value of the constants.

- [What the repository contains](#what-the-repository-contains)
- [What is hard in it](#what-is-hard-in-it)
- [Modules](#modules)
- [Runs](#runs)
- [Bounds](#bounds)
- [Fairness](#fairness)
- [Proofs](#proofs)
- [Where the code and its comments disagree](#where-the-code-and-its-comments-disagree)
- [Not modelled](#not-modelled)
- [Plan](#plan)

## What the repository contains

| Component | Files | State | Operations | What makes it correct |
|---|---|---|---|---|
| lock-free hashtable | `lock_free_hashtable.c` | one sorted linked list of nodes, a bucket array of pointers into it, size and count; per thread three hazard pointers and the locals of the call it is in | `hashtable_create`, `insert`, `find`, `delete`, `destroy`; inside them `list_find`, `list_insert`, `list_delete`, `bucket_init`, `resize` | every call takes effect at one instant; no element is lost or doubled; no freed node is followed; calls return |
| split-order arithmetic | same | none | `hashtable_rvalue` and its byte macros, `hash_key`, `hash_key_regular`, `hash_key_dummy`, `bucket_parent` | codes sort keys into the part of the list their bucket starts, before and after each doubling |
| ARMv6 atomics | `armv6_atomics.c` | one word, the exclusive monitor of each processor, the locals of each call | `armv6_cas`, `swap`, `swapadd`, `inc`, `dec`, `store` | each is atomic; retry loops end |
| mark-and-sweep collector | `mark_and_sweep_gc.c` | a doubly linked list of objects with a header each, an array of roots, heap limits, a count | `gc_create`, `alloc`, `strdup`, `realloc`, `root`, `free`, `collect`, `destroy` | a collection frees exactly what cannot be reached, and ends |
| LRU set, two variants | `lru_set.h`, `lru_set_cache_friendly_fragmentation_friendly_too.h` | list, map from key to node, size; the second also a pool of nodes and its bitmap | `insert`, `operator[]`, `has`, `evict` | list and map agree; the least recently used key goes first |
| AVL tree | `50_loc_avl_bsearch_tree.c` | a tree with heights | `insert`, `delete`, `search` | a key is found exactly when it was inserted and not deleted; the tree stays balanced (it does not, see [below](#where-the-code-and-its-comments-disagree)) |
| skip list | `50_loc_skiplist.c` | six linked lists over one set of nodes | `insert`, `search`, `delete` | undefined behaviour in the first calls, see [Not modelled](#not-modelled) |
| small hashtable | `small_hashtable.c` | 1024 slots | `hnew`, `hset`, `hget`, `hdel` | probing finds what was set, and ends |
| getline | `getline.c` | a growing buffer and a position in it | `my_getline` | no write past the buffer, nothing lost when it moves |
| asynchronous OpenGL transfers | `fast_async_buffer_transfers_opengl.cpp` | a ring of buffers with mappings, fences and flush records; the GPU's command queue | `beginChanges`, `write`, `endChanges`, `postChanges` | no buffer is written while the GPU reads it; every write is flushed |
| radix sort by distance | `distance_sort_magic.cpp` | three histograms, two arrays | `flip`, `sort` | a sorted, stable permutation |
| binary tree | `bt_haskell.hs` | none (pure) | `insert`, `delete`, `ctree`, `ctreePB`, traversals, `qsort` | ordered; a deletion takes nothing else with it |
| INI parser | `ini.c` | current section and line | `parse` | sections and names reach the callback in order |
| regular expressions in the preprocessor | `perl_regex_preprocessor_macros.c` | two growing buffers, a list of replacements | `read`, `process`, `main` | comments and macros are taken out and nothing else; no write past a buffer |
| half-precision floats | `half_float.cpp` | two tables of 512 entries | `convertToHalf` of a float, of an array, with SSE2 | both ways yield the half next to the float |
| Lisp | `100_line_lisp.c`, `100_line_lisp_expanded.c` | cells and an environment | read, eval, print | - |
| colour grading | `color_grader.cpp` | a texture, balances, a flag | `set...`, `grade` | with the flag set the lightness of every colour is preserved |
| depth buffer, bounding boxes | `software_depth_buffer.c`, `optimized_bbox.cpp` | a grid of depths; none | rasterize, min and max | - |
| rest | type traits, two preprocessor tricks, a Morse encoder, a benchmark, eight texts | none that changes | - | - |

Nothing in one row calls anything in another. Within the hashtable, calls of
several threads interact through the list, the bucket array, the size and the
count, and through nothing else: hazard pointers are written but no thread ever
reads another's. Within the collector, the caller and the collector share the
objects' references and the root variables; a collection runs to its end before
the caller goes on.

## What is hard in it

`PROJECT.json` lists the hazards with their lines. In short:

- *Interleavings of CAS loops* in the hashtable: an unlink against an insertion
  or a deletion next to it, two insertions for one link, two threads that
  initialize one bucket, a bucket initialized in an array that is being copied,
  two resizes, a deletion counted before the insertion it undoes.
- *State read before a step and used after it*: the link a walk came through,
  the successor kept in a hazard pointer, the bucket computed from a size that
  belongs to another array, the sum computed before the load-exclusive.
- *Borrowed links* in the collector: while it marks, `prev` is the way back and
  not the list's link; a cycle must not trap it and the sweep must repair it.
- *Links repaired one by one*: the LRU list, where a link left as it was shows
  only calls later; the pool's bitmap, which begins with whatever `malloc` left.
- *Boundaries*: bucket 0 has no parent, the unsigned count, ints that wrap, the
  byte count given to `memset`, the last object of the heap, a full table, a
  histogram that starts at -1, the last two bytes of a line's buffer, the end of
  a text, the smallest halves, roundings of hues.
- *Ends of loops*: every CAS and store-exclusive loop, the marking walk.

## Modules

### The hashtable

`SplitOrder` holds the arithmetic: `Reversed`, `Hash`, `RegularCode`,
`DummyCode` and `Parent` are `hashtable_rvalue`, `hashtable_hash_key`,
`_regular`, `_dummy` and `hashtable_bucket_parent`. Reversal is defined by what
it means, not by how it is computed; `BitReversal` models how it is computed
(both byte macros and the reference loop) with words as sets of bit positions,
`SplitOrderDoubling` follows the bucket of a key while the table doubles, and
`MCSplitOrder` puts the two together for TLC. `SplitOrderCodes` has the lemmas
about powers of two, bits and codes that the hashtable's proofs use,
`SplitOrderProofs` the theorems.

`LockFreeHashtable` is the program. Each thread has a program counter and the
locals of the C functions it is in:

| Variable | Code |
|---|---|
| `table`, `tables`, `size`, `count` | `hashtable->table` and every bucket array allocated, `->size`, `->count` |
| `heap`, `live` | the nodes, and which are allocated |
| `hz` | the thread's three hazard pointers |
| `call` | arguments, bucket, table and new node of the operation |
| `walk` | `prev`, `current`, `next` of `hashtable_list_find` |
| `task` | the recursion of `hashtable_bucket_init`, as a stack of buckets |
| `grow` | the locals of `hashtable_resize` |
| `ret`, `calls`, `status` | the last result, the calls left, how the program ended |

An action makes at most one access to memory that other threads write. Actions
are named for the function and the step: `FindReadHead`, `FindReadNext`,
`FindVerify`, `FindUnlink` are the body of `hashtable_list_find`;
`InsertPrepare`, `InsertLink` of `hashtable_list_insert`; `DeleteMark`,
`DeleteDetach`, `DeleteUncount`, `DeleteTake`, `DeleteErase` of the deletion;
`ResizeAlloc`, `ResizeCopy` (one slot), `ResizeGrow`, `ResizeSwap` of
`hashtable_resize`; `InitCheckParent`, `InitAlloc`, `InitFoundDummy`,
`InitReload`, `InitPublish` of `hashtable_bucket_init`.

Where the C program has undefined behaviour, the model either ends
(`OutOfBounds`: an access past a bucket array; `WildRead`: a read through
address 1) or chooses (`StopsHere`: a comparison of code and key read through a
pointer that is off by one, where the outcome depends on the neighbouring
bytes).

Memory is sequentially consistent in the model. On x86 this is faithful: every
write another thread's correctness depends on is a locked instruction, except
the value erased by a deletion, the link of a node not yet published, and the
bucket slot stored by `bucket_init`, and none of these is followed in its call
by a read that could be reordered before it and change the result. Weaker
processors are not covered.

`ConcurrentMap` is the abstract specification: a map whose calls take effect at
one instant between start and return. `HashtableHistory` adds a history
variable to the hashtable (the values the call's key has had so far) and the
refinement mapping, and states that the one implements the other. The proofs are
in two modules: `LockFreeHashtableProofs` (types, owners, pointers; then hazard
pointers, count and resizes; then what the list and the slots hold) and, above it,
`HashtableHistoryProofs` (what the calls return). An insertion
takes effect when its node is linked, a deletion when its node is marked; a call
that changes nothing may take effect wherever its result was true.

### ARMv6 atomics

`Armv6Atomics` has one action for each access: the plain read, `ldrex` with the
comparison, `strexeq`, the read of the failure path of `armv6_cas`. The
exclusive monitor is the set of threads with a valid reservation; any store to
the word clears it, and `LoseReservation` is the processor's freedom to forget.
`AtomicWord` is the abstract specification; `Linearizable` is the refinement.

### The collector

`MarkSweepGC` has one action for each call of its caller, two for the caller's
assignments to references and variables, and one for each turn of the loops of
`gc_collect` and `gc_mark`. `magic`, `referenced`, `children`, `index`, `next` and
`prev` are the headers of the objects, `refs` the references behind them, `last`
is `gc_collect`'s own `prev`. Objects are named by their addresses. What a root, a
link or a reference leads to in the end is a `Closure`: the least set that
contains the start and what each of its members leads to. The word `FOREIGN`
stands for any word that one of the tests of `gc_mark` rejects. The caller assigns only references to objects that
are allocated, and frees by hand only objects nothing refers to: that is what
makes a call legal. `gc_realloc` gives `realloc` an address that `malloc` did not
return, so every call of it is undefined behaviour, and the model ends there.

### The LRU sets

`LruSet` is `lru_set.h`: `list` holds `m_head`, `m_tail`, `m_size` and the links
of every node, `map` is `m_map`, `live` are the nodes allocated. `Remove`,
`InsertFront`, `MoveFront` and `RemoveBack` are the functions of those names and
write links exactly as they do; `insert` is four actions by its branches, `evict`
and the destructor take a step for each turn of their loops. `LruSetPool` is the
other header: the same list over the slots of a pool, with `bits` for
`m_nodeBits`, which begins with any content. `Mask` is the shift of an int by which a
slot's bit is reached, with its sign, and with either outcome of shifting too far
(`wraps`).

`LruCache` is the abstract specification: keys have ages, a use makes a key the
youngest, only the oldest ever leaves. `LruSetRecency` adds the ages to `LruSet`
as a history variable: they follow from which keys the calls used and which the
map lost, not from the list, so that the list can be compared with them.

### The small programs

`RadixSort` (a step for the histograms and for each object a pass moves),
`HalfFloat` (a step for each turn of the loops), `ColorGrader` (a step for each
call, on one texel), `Getline` (a step for each turn of the loop), `Preprocessor`
(a step for each `fread` and each turn of `process`) and `SmallHashtable` (a step
for each call) hold one program each. `SmallPrograms` puts the six side by side:
a behaviour is one of one of them, and the variables of the others are Nil.
Floats are given by sign, exponent and mantissa in `HalfFloat`, and by digits in
`RadixSort`; the doubles of `ColorGrader` by the exact quotients they stand for,
with both sides of a tie for the hue, the only place where the rounding of doubles
can decide. `SmallHashtable` keeps beside its slots what was set last for each key.

`AvlTree` and `BinaryTree` are written with recursive operators, since their data
and functions are recursive: a tree is a value, and a store through a `node_t **`
is the tree with that part replaced. `SearchTrees` adds these two to
`SmallPrograms`, and `elements` records what their calls put in and took out. They
are in a module above so that nothing recursive is below `SmallProgramsProofs`. A
behaviour of `SearchTrees` that is one of the other six programs is a behaviour of
`SmallPrograms`, with the variables of the trees as they began.

## Runs

| Run | Module | What it shows |
|---|---|---|
| `concurrent_inserts` | `MCHashtableHistory` | Two threads insert and find keys 1 and 2, twice each, in a table that grows from one bucket to two, one for either key; the owner may destroy it, with `lvalue` set. Both threads may initialize bucket 1 at once, and link next to it. The list is sorted and free of duplicates, slots lead to dummy nodes, every call is linearizable, and `destroy` frees every node (`DestroyFreesList`). |
| `contended_key` | `MCHashtableHistory` | Three threads, one call of any kind each, one key. Every interleaving is linearizable and every call returns. |
| `concurrent_changes` | `MCLockFreeHashtable` | Two threads insert and delete two keys, twice each, starting from one bucket. `Control`: at each place a thread relies only on what is there. `Ownership`, `NoDangling`: unpublished nodes have one owner, nothing freed is followed. `CountExact`, `Reachable`: no key is lost or miscounted. `Protected`: a walk's nodes are in its hazard pointers. `SizeAhead`: the size leads the array only inside one resize. `BucketZeroReady`: `bucket_parent` is never asked for bucket 0. `MarkedFrozen`: a deleted node's link never changes. |
| `armv6_atomics` | `Armv6Atomics` | Two threads, two calls each, all arguments, one lost reservation: linearizable, and every loop ends. |
| `split_order` | `MCSplitOrder` | All 256 bytes, in each place of a word and in all four. `AgreesWithReference`: `hashtable_rvalue` with the macro for 64-bit longs computes what the reference loop computes and what `Reversed` is defined to be. `DummyFirst`: with either macro a key's code is above that of its bucket's dummy node, at every size of the table. All 256 hashes, while the table doubles up to 128 buckets: keys stay in their bucket's part of the list. |
| `mark_sweep_gc` | `MarkSweepGC` | Everything five calls and four assignments can build out of three objects with two references or none: `CollectExact` (a collection frees the garbage and nothing else), `MarkWalk` (why marking misses nothing without a stack), `ListSound` (the list is whole again after each collection), `DestroyCollects`, `Termination`. |
| `lru_set` | `LruSetPool` | Either LRU set, any calls on four keys, any capacity from 0 to 4, every initial bitmap. `PoolIsRecency`: the list in both directions is the recency of the calls, and map, list and size agree. `PoolDropsOldest`: every change is one `LruCache` allows. `NodesOwned`: no slot is shared, every slot in use tests as taken, the destructor reaches each node once. |
| `small_programs` | `MCSmallPrograms` | Each of the eight programs by itself. `SortsByDistance`: up to three floats with any digits. `HalvesAgree`: around each boundary of the exponent, in arrays of 0 to 9. `LumaPreserved`: two gradings of a texel, with any balances. `LinesKept`: lines up to 150 characters in buffers of ten sizes, with every failure. `ScansLikeC`: texts of up to three out of thirteen pieces of C. `TableFinds`: six keys, four slots, several keys for one slot; `hget` hangs only when other keys have all slots. `AvlFinds`: after any insertions and deletions of ten keys, exactly those are found, and no height kept is more than the depth. `DeletionBalances`: a deletion from an AVL tree leaves one, so that the rotations are the right ones. `TreeFinds`: trees made from any list of five elements, then changed; a deletion takes its element if the tree has none twice, and never another. |
| `find_misses_key` | `MCHashtableHistory` | A counterexample to linearizability: see below. |
| `misplaced_dummy` | `MCLockFreeHashtable` | A counterexample to "slots hold dummy nodes": see below. |
| `avl_unbalanced` | `MCSmallPrograms` | A counterexample to the balance of the AVL tree: see below. |
| `comments_left` | `MCSmallPrograms` | A counterexample to "comments are skipped": see below. |

Every property of a passing run has a mutant in `PROJECT.json`: a change to one
definition, of the kind a mistake in the code would be, that makes the property
fail under the same configuration. The mutants stand beside the definitions they
replace and are used nowhere else.

Deadlock checking is off in every run: clients stop when their calls are used
up. That no call gets stuck is what the `Termination` properties say.

## Bounds

- *Hashtable.* `Width = 4` keeps bit reversal small; the multiplier is the
  program's modulo 2^4, which is 1, so that keys are their own hashes and the
  configurations can choose keys by bucket: 1 and 3 share the parent bucket 1
  once the table has four buckets, and key 2 has parent 0. `MaxNodes` and
  `MaxTables` are never reached with these calls: each run was also made with the
  invariant that there is room for the next allocation. `Calls` bounds the calls
  of each thread. Two calls of two threads give all pairs of operations and a
  third that meets what they left; three threads give an operation that meets
  two others in the middle.
- *Concurrent runs and the known defects.* `concurrent_inserts` deletes nothing,
  so no marked link is met. `contended_key` and `concurrent_changes` do meet
  them; their properties hold nevertheless, up to the point where the program
  ends by a wild read (`status = "wild"`). `concurrent_changes` does not check
  `Sorted` and `Linearizable`, which the defect `find_misses_key` breaks there.
  `concurrent_inserts` has two keys, so that its table grows once, to the two
  buckets of the keys; an initialization and the copying of an array never meet
  there, which the defect `misplaced_dummy` takes (two resizes, so three keys).
  That a call of it gets a bucket number ahead of the array (`OutOfBounds`) ends
  its behaviour. Two resizes that copy at once are met in `concurrent_changes`.
- *ARMv6.* Ints modulo 2: two values are enough for a word to change and change
  back between the plain read and the load-exclusive. The proofs hold for every
  modulus.
- *Collector.* Three objects and two references each give chains, shared
  objects, self-references and cycles of every length up to three, and one
  object that is garbage; two roots let the second lead to what the first has
  marked. The cycle of three with a root and a collection takes exactly the five
  calls and four assignments allowed. `GcRoots = 2` and `PtrSize = 2` keep the
  program's relation that `memset` clears fewer entries than there are. First
  free address first: the order of addresses decides only `heap.end`.

- *Bit reversal.* `DummyFirst` and `AgreesWithReference` are about words of 32
  bits, of which the run takes bytes in any place; the proof takes all.
- *LRU.* Three nodes are a first, a middle and a last one; four keys leave one
  that is not in the set, up to a capacity of three. `Nodes` has as many addresses
  as are ever needed. An int has two bits and a word three instead of 32 and 64,
  so that four slots reach the int's sign, its last bit, what is behind it, and a
  second word: all that can happen to the shift.
- *Search trees and the table.* Ten keys are enough for a tree of height 4, in
  which a rotation low in the tree leads to another above it after a deletion.
  Seven are enough to see it out of balance. Keys of the table
  want the same slot, one of them is negative. The slots are four.
- *Sort, halves, colours, lines, texts.* Digits of 1, 1 and 2 bits, the upper one with the sign:
  every digit takes all its values. The exponents are those at which one of the
  tables or SSE2 begins to behave differently, the mantissas the smallest and
  largest, and ties. `Chunk` and `Capacity` are 4 so that both buffers grow
  several times. 150 characters make a line's buffer grow at least once from
  each size below 150, from most twice. `IntMax` is 127 instead of 2^31 - 1: buffers
  pass it while they grow, and two of the sizes begin above it. `realloc` gives at
  most 1024 bytes.

## Fairness

Weak fairness of each thread's own next step inside a call, for the hashtable
and the ARMv6 operations: a thread is an operating-system thread and keeps being
scheduled; nothing obliges a client to call. No strong fairness is assumed. The
retry loops are lock-free, not wait-free: they end because each failure is
another call's success and each thread makes finitely many calls. For the
collector, a collection that has begun goes on (weak fairness of `Collector`):
it is one sequential function.

## Proofs

| Module | Theorem | Statement |
|---|---|---|
| `LockFreeHashtableProofs` | `TypeCorrect` | `Spec => [](TypeOK /\ Control)` |
| | `Frozen` | `Spec => MarkedFrozen` |
| | `MemorySafe` | `Spec => [](Ownership /\ NoDangling)` |
| | `WalkProtected` | `Spec => []Protected` |
| | `CountCorrect` | `Spec => []CountExact` |
| | `SizeAtMostOneAhead` | `Spec => []SizeAhead` |
| | `BucketZero` | `Spec => []BucketZeroReady` |
| | `ListSorted` | `Spec /\ Hyp => []Sorted` |
| | `KeysOnce` | `Spec /\ Hyp => []NoDuplicates` |
| | `SlotsCorrect` | `Spec /\ Hyp => []SlotsHoldDummies` |
| | `NothingLost` | `Spec /\ Hyp => []Reachable` |
| | `DestroyComplete` | `Spec /\ Hyp => []DestroyFreesList` |
| | `TableOfOneSize` | `Spec /\ []NeverGrows /\ [][ReadsRight]_vars => [](Five /\ status # "bounds")` |
| | `AddingIsSafe` | if `OnlyAdds`: `Spec /\ []NeverGrows => [](Five /\ NoWildAccess)` |
| | `OneCallAtATime` | `Spec /\ []Alone /\ [](size <= Half) => [](Five /\ NoWildAccess)` |
| `HashtableHistoryProofs` | `CallsTakeEffect` | `HSpec /\ Hyp => Linearizable` |
| | `AddingTakesEffect` | if `OnlyAdds`: `HSpec /\ []NeverGrows => Linearizable` |
| | `OneCallTakesEffect` | `HSpec /\ []Alone /\ [](size <= Half) => Linearizable` |
| `SplitOrderProofs` | `ReversalCorrect` | `Loop!Spec => [](CarryFree /\ AgreesWithReference /\ LeaksOnlyAdd /\ DummyFirst)`, each of `Loop` |
| | `CodesAsComputed` | `MCSpec => []AgreesWithReference` |
| | `KeysBehindDummies` | `MCSpec => []DummyFirst` |
| | `OwnSublist` | `Spec => []InOwnSublist` |
| | `SplitsFromParent` | `Spec => SplitFromParent` |
| `Armv6AtomicsProofs` | `Safe` | `Spec => [](TypeOK /\ ReservationValid)` |
| | `Refinement` | `Spec => Linearizable` |
| `MarkSweepGCProofs` | `ListIsSound` | `Spec => []ListSound` |
| | `WalkIsComplete` | `Spec => []MarkWalk` |
| | `CollectionIsExact` | `Spec => []CollectExact` |
| | `DestroyIsComplete` | `Spec => []DestroyCollects` |
| `LruSetProofs` | `ListRecency` | `HSpec => []ListIsRecency` |
| | `OnlyOldestLeaves` | `HSpec => OldestLeaves` |
| | `Implementation` | `HSpec => LeastRecentlyUsed` |
| | `NodesReleased` | `HSpec => [](AssertHolds /\ DestroysAll)` |
| | `PoolNodesOwned` | `PoolSpec => []NodesOwned` |
| | `PoolListRecency` | `PoolSpec => []PoolIsRecency` |
| | `PoolOldestLeaves` | `PoolSpec => PoolDropsOldest` |
| `SmallProgramsProofs` | `SortIsSorted` | `Spec => []SortsByDistance` |
| | `HalvesDoAgree` | `Spec => []HalvesAgree` |
| | `LinesAreKept` | `Spec => []LinesKept` |
| | `GradingKeepsLuma` | `Spec => LumaPreserved` |
| | `TableDoesFind` | `Spec => []TableFinds` |
| | `TextsAreScanned` | `Spec => []ScansLikeC` |

`Hyp` stands for `[]Undisturbed /\ [][ReadsRight]_vars` and `Five` for
`Sorted /\ NoDuplicates /\ SlotsHoldDummies /\ Reachable /\ DestroyFreesList`.
The theorems of `SplitOrderProofs` are about words of 32 bits where `BitReversal`
is, and about words of any width elsewhere.

They hold for any number of threads, keys, calls, nodes and bucket arrays, any
word width, any odd multiplier and any modulus, heaps of any size and shape, and
any number of keys, addresses and capacities of the LRU sets; for arrays of any
length, digits with any number of values, every float, lines and buffers of any
length, every colour, tables of any size, and texts of any number of the pieces,
read in chunks of any size. The assumptions on the constants are all there is to
take: `ConstantsAssumption`, `WidthAssumption` (a width above zero, an odd
multiplier), `SizeAssumption` (the table begins with a power of two),
`LruAssumption` and `PoolAssumption` (the pool has an address for each slot, and
an int is no wider than a word of the bitmap), `SortAssumption`
(digits have values, the upper one an even number of them, half of which begin
with the sign), `HalfAssumption` (arrays of floats), `GradeAssumption`
(coordinates of a 16 by 16 texture, levels of a byte), `GetlineAssumption`
(sizes of buffers), `MacroAssumption` (the thirteen pieces, and a chunk no
larger than what a buffer begins with) and `TableAssumption` (the table has
slots, keys are integers). TLC evaluates them in the runs of the modules.

*Arithmetic.* `SplitOrderCodes` proves what the others need of powers of two,
bits and codes. The library's induction theorems cannot be used, so each such
fact goes by finite sets: induction over a set of numbers is that a set without
one of its elements has fewer (`NaturalInduction`), a power of two is the number
of subsets of an interval (`PowerDoubles`), and the reversal of a word exists
because choosing a number's bits is onto (`BitsChosen`, `ReversalExists`). The
order of codes then rests on the lowest bit in which two hashes differ
(`CodesDiffer`, `CodesAgree`). In `SplitOrderProofs`, the products of the byte
macros are sums because no two copies of the byte overlap (`ProductsCarryFree`).

*Hashtable.* The inductive invariant is
`TypeOK /\ Control /\ Ownership /\ NoDangling`, proved in two layers.
`TypeCorrect` comes first. Types alone are not inductive: an index into the
stack of buckets, or into a node, has a type only if the stack is not empty and
the node is there, so `Control` says for each program point what a thread may
rely on. It also says that hazard pointer 0 holds the successor that
`hashtable_list_delete` takes from it. `Frozen` follows by looking at every
store to a link: each is a compare-and-swap that expects the mark bit clear, or
writes a node that only its owner knows. `MemorySafe` needs `Ownership` and
`NoDangling` together: that a link leads to a published node after
`InsertLink` needs the node to be the thread's own before, and that freeing a
node in `InitFoundDummy` leaves no pointer behind needs that nobody else owned
it and nothing led to it. Per thread and action, `OwnStep` and `WalkStep` treat
the thread that moves, `Effects` and `SharedGrows` what the others can notice,
`LinksStep` the list and the bucket arrays.

Two more theorems stand on these layers. `WalkProtected`: each step of the walk sets
the hazard pointer before it uses the node, and no other thread writes it.
`CountCorrect`: the number of present keys changes only where a regular node is
linked or marked, so `count + adders = present + removers` is kept by each
action. That a call's own node is regular and a bucket initialization's is a
dummy has to be part of the invariant (`KindAt`), or linking a dummy could
count; and `Ownership` shows that a node linked was not on the list before. The
cardinalities need finite sets: however many threads there are, at most finitely
many have begun a call (`FiniteCalls`).

`SizeAtMostOneAhead` has an invariant of its own, `ResizeInv`, above the types
only. The array a resize fills is nobody else's; the array it copies is in use,
or smaller than the one in use; and it has the slots copied, as many as the size
that was read. A compare-and-swap of the size that succeeds therefore shows that
the array copied is still in use (a smaller one would not have had that many
slots), and until this thread replaces it no other resize can win: it would have
to have copied an array of the new size, which is not in use yet.

`BucketZero` holds in every behaviour, the recorded defects included. An empty
slot 0 would be met in an array that is in use, was, or is being filled;
`ZeroState` says that the first two start at node 1, that a resize copies slot 0
before all others, and that no walk ever unlinks node 1 or stops at it.

*The list.* `Sorted`, `NoDuplicates`, `SlotsHoldDummies`, `Reachable` and
`DestroyFreesList` are false in general: each of the runs `find_misses_key` and
`misplaced_dummy` shows a behaviour that breaks one, and the others fall with it.
`LockFreeHashtableProofs` proves them of the behaviours in which neither defect
shows, in two hypotheses that say just that. `Undisturbed`: no walk reads an empty
slot (what follows `misplaced_dummy`), and the size is one a bucket number fits.
`ReadsRight`: a walk that compares through the pointer that is off by one turns
the way it would have turned (what `find_misses_key` gets wrong). Both hold in
most interleavings of the runs, with deletions, unlinks and resizes under way.

The invariant is `ListState`. Beside the five properties it says what each thread
knows of the list while others change it. `Behind`: a walk has not gone past what
it looks for, that is, unless the node it came through has been deleted since,
every node with that code and key comes after it. `StopAt`: where a walk has
stopped, the current node's code is larger, so that the compare-and-swap that
expects this node puts the new one in order and finds no duplicate linked in
between. `SlotsLead`: every slot of every array, the replaced ones and those being
filled included, leads to its dummy node. "After" is reachability, defined as the
least closed set (`From`), for which `FromOrder` (of two reachable nodes one
reaches the other), `InsertKeeps` and `RemoveKeeps` (what linking and unlinking
do to it) take no induction. Every step is one of four kinds (`StepKinds`):
it links a node, unlinks one, marks one, or leaves all links between nodes as they
are. `Sorted` is `<=`, since hashes that differ only in the top bit have one code.

Three theorems show uses of the table in which the hypotheses need not be made.
`TableOfOneSize`: while it does not grow, no walk reads an empty slot, because the
slots of the one array are filled before they are used and stay so (`PlacedAt`;
`ChainAt`: the stack of buckets to initialize is a chain of parents).
`AddingIsSafe`: when moreover no client may delete, no link is ever marked
(`CleanState`) and nothing is assumed of the interleaving. `OneCallAtATime`: when
calls do not overlap, whatever they are and however far the table grows, both
hypotheses hold and no step is a fault. Its invariant, `AloneState`, says that the
nodes not deleted (and the one being deleted) lead to each other and no two to
the same, that a walk meets none to unlink, and that a resize copies all of the
array in use. No run repeats this theorem on a small instance.

*The calls.* `CallsTakeEffect` is the refinement of `ConcurrentMap`, under the
same two hypotheses as the theorems about the list. A step of a call begins it,
ends it, links the node of a key (`Adds`), marks one (`Removes`), or shows nothing
of the map (`Quiet`); `CallSteps` proves that there are no others, and each kind
has its lemma: `BeginMaps`, `EndsMaps`, `AddsMaps`, `RemovesMaps`, `QuietMaps`,
`DestroyMaps`. The compare-and-swaps that link and mark are the instants of the
calls that change something. That the map has no value, or one, for the key at
that instant comes from `StopAt` and from no key being twice in the list.

The hard part is the calls that change nothing. What a call returns is often no
longer true when it returns, so the invariant (`CallsState`) says what has been
true since it began. `HitAt`: when the current node holds the key and was not
deleted when its link was read, the key has had that node's value since the call
began, and, if the node is marked by now, no value as well. `MissAt`: where a
walk ends without the key, the key was absent at some time. That is not known when
the walk gets there: it was already so when the last node's link was read, before
the check that the walk is still on the list, because behind that node there was
nothing to find then; the invariant carries that from the read to the
decision. `TakenAt` and `TakenOnce` say that the deletion which marked a node, and
no other, takes the value and erases it.

*ARMv6.* `TypeOK /\ ReservationValid` is inductive: any store to the word clears
all reservations. `Refinement` maps each step to a step of `AtomicWord` or to a
stutter: `strexeq` and a failing `armv6_cas` take effect, all else stutters.

*Collector.* The invariant `GcInv` has a part for each thing a collection relies
on or disturbs. `ChainInv`: the `next` links, which a collection never borrows,
are one chain without a cycle that begins at `head` and meets every allocated
object. `LinkInv`: the `prev` link of an object is the list's as long as the
object is not marked. `MarkInv` and `PathInv`: marked objects are reachable; the
borrowed links lead from the current object back to the root by the references
last looked at; what is off that path has no reference left. `SweepInv`: behind
the sweep is what it kept, ahead of it the marks tell what is reachable.

That marking misses nothing then takes no induction over the heap: when the path
is empty the marked objects contain the roots and all their references, and the
reachable ones are the least such set (`ClosureLeast`). The path must not lead
back to the current object, or advancing its `index` would falsify what is said
of its successor on the path (`PathEnds`), and the list must have no cycle, or
unlinking an object would change what is ahead (`AheadParts`); both come from a
rank that decreases along the links, which exists at the beginning and which each
entered or allocated object extends (`Descending`). In the sweep an object that is
not marked still has the list's `prev`, which is why `gc_free` may use it.

*LRU.* That the list is sorted by recency cannot be proved from the list alone,
so the invariant speaks of list, map and ages together (`Agree`): the map leads to
the nodes in use and back, the ages are the ranks 0 to size - 1, each held by one
node, and every link leads to the node whose age is one more or one less.
`MoveFront`, `InsertFront` and `RemoveBack` each have a lemma that `Agree` is kept,
with the ages that belong to the operation; `insert` into a full set uses two of
them in turn. While the destructor runs, the nodes not yet deleted are those whose
age is at least the age of the one it has come to, which is why it meets each
exactly once. `Implementation` follows because each step's new ages are those of
a step of `LruCache`. For the
pool the invariant (`PInv`) adds that the bits of a slot in use are set and
no other slot in use has one of them (`Marked`), and that no slot has two keys (`OneOwner`), so that `nodeNext` returns
a slot nobody has; or else the bits `malloc` left have no clear one, and the list
stays empty while the map leads to null (`Exhausted`).

*Small programs.* Each theorem of `SmallProgramsProofs` has an invariant of one
program; a step of another leaves that program's variables Nil.

- *Sort.* `SortInv`: before pass d the objects stand in the order of the digits
  below d, equal ones as they were given (`Precedes`), and within the pass each
  histogram entry is one below the place after the last object with that digit.
  The place of an object is its `Rank`: those with a smaller digit, and those with
  the same one that came before. `RankTakesAll` shows by counting that every place
  is taken by just one object, `OrderDoesNotCount` that histograms made of the
  array given hold for every order of it, and `PassSorts` that a complete pass has
  sorted by one more digit. `FlipKeepsOrder`: flipped bits are ordered as the
  floats are.
- *Halves.* `HalfInv` says which elements have been converted, and that each is
  what one of the builds may make of it. The rest is arithmetic: a table of the
  powers of two below 2^24 (`PowersAt`) puts each exponent's case before the
  solver, `SmallHalfIsClosest` and `NormalHalfIsClosest` say that cutting off
  yields the next half towards zero, and `RoundedIs` that SSE2's rounding changes
  it by one at most, only where it rounds up to that half.
- *Lines.* `GetlineInv` adds that `chr` is never below one while a line is read, as
  long as the size is an int; a size that is none never becomes one again.
- *Colours.* `LumaKept` is about every colour and every hue and saturation that a
  lookup can produce: one of the three places of a hue is the brightest and one the
  darkest (`TentsOf`), the levels of these are rounded by the same fraction in
  opposite directions, so that their sum is the lightness (`LevelsRounded`). What
  comes back unchanged is bounded by following hue (`HueOf`), saturation and levels
  (`LevelsComeBack`) with their rounding errors, and the nearly white colours, where
  the errors are divided by little, width by width (`NearlyWhite`).
- *Table.* `TableInv`: every pair set is in one slot, its own, and probing from the
  key to it meets no empty one. `ProbeAll`: probing visits every slot once in `SIZE`
  turns, so that a key never set meets an empty slot or all slots are taken. The
  first turn that ends the loop exists by `Least`, the least-number principle, which
  goes by the cardinality of intervals.
- *Text.* `MacroInv`: between two turns the loop stands at the beginning of a piece,
  or at one of three places inside of one that takes several turns (`Standing`). Of
  the pieces behind it just what should be left has been written, and their macros
  are in the list. What that is, is the value at that piece of a function that puts
  a sequence more together at each place (`Prefixes`, `Upto`); it exists, and agrees
  with the `FlattenSeq` of the property (`FlattenIs`), by the same induction over
  sets. A piece is a window of the text (`WindowIs`); a lemma for each piece
  (`CodePart` to `MacroPart`) says where the turn that meets it ends. What stands
  behind a window counts for the slash alone (`NoCommentAfter`), and for the open
  pieces, which are the last (`OpenIsLast`). The theorem is about any number of the
  thirteen pieces, not about any text.

*Model-checked only.*

- Liveness (`Termination`, in three runs): fairness is out of the provers' reach.
- `Linearizable` and the five properties of the list hold in
  the runs that avoid the defects; outside the hypotheses above they are false, and
  nothing is claimed.
- `AvlFinds`, `DeletionBalances` and `TreeFinds`: the trees are recursive data and
  their functions recursive operators; what these compute for every tree takes
  induction over data.

## Where the code and its comments disagree

Four are runs that TLC refutes:

- `find_misses_key`, `lock_free_hashtable.c:316`. After unlinking a deleted node
  `hashtable_list_find` goes on with `current = next`, mark bit included. Code
  and key of the next node are read through a pointer that is off by one, and the
  walk may pass or stop short of a key that is in the table. Line 24 promises
  concurrent insert, delete and find.
- `misplaced_dummy`, `lock_free_hashtable.c:493`. `hashtable_bucket_init` may
  store its dummy node into an array that `hashtable_resize` has already copied.
  The new array's slot stays empty, `hashtable_list_find` starts there without
  looking, and a key's node is put into the slot itself: a second list that the
  first does not lead to.
- `avl_unbalanced`, `50_loc_avl_bsearch_tree.c:31` and `:32`. An insertion sets the
  height of every node on its way to that of the child it went down to plus one,
  also when the other child is higher; `rebalance` then misses what it should turn,
  and looks for a difference of exactly 2, which a larger one never meets. Inserting
  1, 2, 3, 5, 6, 4, 7 and 4 again and deleting 1 leaves a node whose sides differ in
  depth by two. The search is not affected (`AvlFinds`): it only takes longer.
- `comments_left`, `perl_regex_preprocessor_macros.c:98`. The comment in line 97
  says "Skip multi-line comments". The loop stops in front of the `*/`, which is
  then copied; its slash begins another comment with a `/` or `*` that follows.
  `ScansLikeC` says what holds nevertheless: nothing else of a comment is left.

Others were met on the way and follow from the same model, or from reading:

- The stale mark bit also leaves the list unsorted after an insertion, and makes
  `hashtable_list_find` return a marked null pointer, whose `code` lines 401 and
  445 then read (`DerefsMarkedNull`).
- `hashtable_resize` replaces the size (line 501) before the array (line 506). A
  call in between indexes the old array with a bucket of the new size
  (`OutOfBounds`; `SizeAhead` bounds the window).
- After a successful `hashtable_list_insert` hazard pointer 0 holds the node
  (line 449) and not its successor, as the contract at line 431 has it.
- The byte macro for 32-bit longs (line 95) does not mask its product to a
  byte: what is left above gets into the bytes next to it, so that codes are not
  the reference's (lines 104 to 109). `Rvalue32` is the expression with that macro.
  Bits are only added (`LeaksOnlyAdd`), and a key still lies behind its bucket's
  dummy node (`DummyFirst`); that it lies before the next one is not shown. The
  other modules take codes to be exact, as they are where a long has 64 bits.
- `hashtable_node_destroy` (line 178) frees nothing and replaced arrays are never
  freed: deleted nodes and old arrays stay allocated after `hashtable_destroy`.
- `gc_destroy` clears `sizeof / sizeof(void*)` bytes of its roots, not that many
  entries (`mark_and_sweep_gc.c:217`): `DestroyCollects` holds only for as many
  roots as are cleared, although line 305 says that no leaks are possible.
- `lru_set_cache_friendly_fragmentation_friendly_too.h`: nothing clears the
  bitmap (line 81), so that slots may be lost from the start and `nodeNext` return
  null, which `insert` puts into list and map; `remove_back` calls `delete` on a
  place of the pool (line 153) and leaves its bit set.
- The same header reaches a slot's bit by `1 << nodeOffset(bit)` (lines 169, 174 and
  179), which shifts an int, by up to 63 places; from 32 on that is undefined. Where
  the processor shifts modulo 32, slots 31 places or more into a word share bits:
  no two of those are in use at once, so that a capacity of 128, the default, has
  fewer than 128 slots, and `nodeNext` runs out of them before the set is full.
  Where it gives 0, slot 32 tests as free for ever and is handed out to one key
  after another. `wraps` says which; the properties and theorems hold for every
  capacity in the first case, and up to the width of an int in the second
  (`SlotsHaveBits`). That the shifted int is extended by its sign, from bit 31, is in
  the model too.
- `lru_set.h:118`: a set of capacity 0 fails the assertion of `remove_back` on its
  first insertion. `operator[]` of an absent key (line 163) reads through the
  map's end.
- `50_loc_avl_bsearch_tree.c:39`: the test for null is of the address of the
  pointer; deleting a key that is not there reads through a null pointer.
- `bt_haskell.hs:28`: what comes up from the right is not deleted there, the call
  is commented out. The tree then has it twice, and deleting it replaces the upper
  by the lower: it cannot be deleted any more. `TreeFinds` says what is left.
- `half_float.cpp:151`: with two or three floats after the blocks of four, the loop
  skips one and passes the end of both arrays.
- `half_float.cpp:77`: the comment from line 71 on says that NaNs stay NaNs. One whose
  upper ten mantissa bits are zero becomes infinity, either way it is converted:
  13 places are shifted out and nothing is set. `HalvesAgree` says that infinities
  and all other NaNs stay what they are, and nothing of these.
- `half_float.cpp:124`: below 2^-14 the two ways round differently.
- `color_grader.cpp:219` indexes the tables by range first, and they are declared by
  value first: `transfer` points to a row of three. `grade` (line 332) works on what
  it made the last time.
- `getline.c:22`: a failed `realloc` loses the old buffer and the line read so far.
- `getline.c:13` and `:21` keep a size in an int. A buffer of 2^31 bytes looks full
  at once; when it grows, `pos` is computed from a value that has wrapped, and what
  is written lies behind the buffer (`overrun`). A line of 2^30 characters is enough
  to get a buffer of that size for the next call. `LinesKept` is about sizes that
  are ints.
- `perl_regex_preprocessor_macros.c:98`: `/*/` is a whole comment. A line comment, a
  string or a macro at the very end of the text (line 136) takes the loop past its
  end.
- `lock_free_hashtable.c:296`: the link is compared again before the walk goes on.
  Without this comparison, all properties of the hashtable's runs still hold: the
  compare-and-swaps refuse stale links, and no unlinked node is ever reused. It would
  matter if deleted nodes were freed.

## Not modelled

- *Failed allocation.* `HASHTABLE_CALLOC` writes through what `malloc` returned;
  `gc_alloc` returns NULL with nothing changed.
- *Weak memory.* See above.
- *`hashtable_list_sweep`.* Static and never called.
- *The test programs* of `lock_free_hashtable.c` and `mark_and_sweep_gc.c`:
  the runs make all sequences of calls, of which theirs are some.
- *Pure syntax and prose*: type traits, structure enumeration, the Java macros,
  the Morse encoder, the texts. The benchmark of `memset` and `memcpy` measures
  time.
- *Asynchronous OpenGL transfers.* The file does not determine a program: it uses
  members no class declares (`m_fences`, `m_size`, `m_previousRecord`), leaves the
  index of the ring uninitialized and advances it by `x = x++ % n` (line 168).
- *Skip list.* Its first two calls are undefined: `skiplist_init` writes one link
  past the array and skips the first (line 9), `skiplist_insert` stores through an
  uninitialized `update[e + 1]` (line 30). No state is left to be right about.
- *INI parser*: a model of its character handling would be longer than its 34
  lines. *Lisp*: what it computes is the meaning of programs. *Depth buffer,
  bounding boxes*: floating-point geometry, with functions that are not there.
- *Brightness and contrast* of the colour grader, and how the balance tables are
  filled: the lookup is any function of the three bytes.
- *After undefined behaviour*: the models of the pool, of `gc_realloc` and of a
  deletion from the AVL tree stop at the call that is undefined.

## Plan

Done, in order: the hashtable, its arithmetic, the ARMv6 atomics, the
collector, the LRU sets, the search trees, the small programs, and the proofs of
each in the same order. What is left:

1. *Proofs.* A use of the hashtable with deletions and a second thread in which
   the hypotheses need not be made.
2. *The colour grader's remaining members*, and the INI parser's lines.
