# data_structs in TLA+

TLA+ models, model-checking configurations and proofs for the C library
`data_structs`: a write-back block cache, a btree stored in a file through that
cache, the space manager of the btree's file, and the in-memory structures
beside them (fifo, linked list, hash table, heap, AVL tree, binary tree,
undirected graphs with and without weights).

## 1. The system

| Component | State | Operations | Used by |
|---|---|---|---|
| Block cache, `bcache/bcache.c` | hash chains of `blk_t`, free list, dirty list, sizes, `bc_lock`; per block: number, reference count, dirty flag, buffer, client object | `bc_create`, `bc_get`, `bc_dirty`, `bc_release`, `bc_flush`, `bc_check`, `bc_destroy` | btree, test threads |
| Btree, `btrees/btree.c` | nodes in blocks, root pointer, node count in the root, `bt_rwlock` | `bt_create`, `bt_open`, `bt_insert`, `bt_find`, `bt_remove`, `bt_sync`, `bt_close`, `bt_check`, `bt_check_disk`, `bt_iterate_disk` | programs |
| Space manager, `btrees/btree.c` | one bit per block in bitmap blocks, each with a count of its clear bits | `sm_balloc`, `sm_bfree`, `bm_balloc`, `bm_bfree`, `bm_bco_check` | btree |
| Fifo, `queues/fifos/fifo.c` | circular array, head, tail, count | `fi_create`, `fi_enq`, `fi_deq`, `fi_destroy`, `fi_check` | graphs, `_bt_iterate_disk` |
| Linked list, `linked_lists/linked_list.c` | chain of nodes, length | insert (either end), find, remove, iterate, copy | hash table, graphs |
| Hash table, `hash_tables/hash_table.c` | array of lists, count | insert, find, remove, resize, iterate | programs |
| Heap, `queues/heaps/heap.c` | array, count | insert, top, pop | weighted graph |
| AVL tree, `avl_trees/avl_tree.c` | nodes with balance factors | insert, find, remove, iterate, check | graphs |
| Graphs, `graphs/*` | nodes with lists of adjacencies | add node and edge, traversals, shortest paths | programs |
| Binary tree, `binary_trees/binary_tree.c` | unbalanced search tree | insert, find (remove is a stub) | nothing |

The btree calls the cache for every block it touches and the space manager for
every node it makes or frees; the space manager's bitmaps are themselves blocks
of the cache. The cache calls back into its clients (`bco_init`, `bco_destroy`,
`bco_check`). Threads, locks and the lists of `<sys/queue.h>` come from outside
the repository.

What is hard in this code, and where the effort went:

* **The cache is shared by threads.** Each call holds `bc_lock`, but a buffer is
  used between calls under a lock of its own, and `bc_flush` takes only
  `bc_lock`: it can write a buffer somebody is half-way through modifying.
  Eviction must never take a buffer in use, the two lists and the count must
  agree on every error path, and a crash may lose what has not been fsynced.
* **The btree's splits depend on sizes.** Records have any size up to a block; a
  node may become two or three; the place of the new record, the cut and the
  free space are computed together, and several assertions state what the author
  believed of them.
* **Blocks run out, leaves are freed and made again**, and three separate
  records of what is in use (the tree, the node count, the bitmaps) must agree
  because `bt_check_disk` compares them.
* **A changed block that is not marked dirty** is right until the file is
  opened again.
* **The in-memory structures keep redundant state by hand**: balance factors
  beside heights, a count beside the lists of a hash table, an edge at both of
  its ends. `malloc` may fail between two updates, a table is rebuilt element by
  element while the old one still owns the data, and the searches of the graphs
  prune by arguments that are only in comments.

`PROJECT.json` lists these as hazards, each at its line with the properties that
would notice it going wrong.

## 2. The modules

| Module | What it is |
|---|---|
| `BlockStore` | abstract: an array of blocks, with the values a crash may leave |
| `BCache` | the block cache and the threads of `test_bcache.c`; implements `BlockStore` |
| `BCacheProofs` | proofs about `BCache`: lists, counts, eviction; then contents, durability, refinement |
| `OrderedMap` | abstract: a map from keys to values, with the results of its calls |
| `BTree` | the btree; implements `OrderedMap` |
| `BTreeProofs` | proofs about `BTree`: its nodes and the pointers between them |
| `BlockAllocator` | abstract: a set of blocks in use |
| `SpaceManager` | the bitmaps; implements `BlockAllocator` |
| `SpaceManagerProofs` | proofs about `SpaceManager` |
| `DataQueue` | abstract: a sequence |
| `Fifo` | the circular array; implements `DataQueue` |
| `PriorityQueue` | abstract: a bag that gives out its greatest element |
| `Heap` | the heap; implements `PriorityQueue` |
| `QueuesProofs` | proofs about `Fifo` and `Heap` |
| `DataList` | abstract: independent sequences without repetitions |
| `Lists` | the functions of `linked_list.c`, on a memory of nodes |
| `LinkedList` | lists that are copied and share their data; implements `DataList` |
| `ListsProofs` | what each function of `Lists` does to a list and to the rest of the memory; proofs about `LinkedList` |
| `DataSet` | abstract: a set, with the results of its calls |
| `HashTable` | the hash table, on `Lists`; implements `DataSet` |
| `HashTableProofs` | proofs about `HashTable`, on `ListsProofs` |
| `AvlTree` | the AVL tree; implements `DataSet` |
| `BinaryTree` | the unbalanced tree; implements `OrderedMap` |
| `TreesProofs` | proofs about `AvlTree` and `BinaryTree` |
| `UdGraph` | the undirected graph, its traversals and searches |
| `UdwGraph` | the weighted graph and its search over a heap of paths |
| `GraphProofs` | proofs about `UdwGraph` and `UdGraph` |
| `MC*` | instances for TLC, each with one `.cfg` per question |

Definitions have the names of the C functions they model wherever one
definition stands for one function; `PROJECT.json` maps each to its lines. An
operator named `Op_Slip` is `Op` with a plausible mistake in it. It is not part
of any specification: it is there so that one can substitute it and see a
property fail.

### BCache

A buffer `b` of the constant set `Bufs` is a `blk_t`; `ht[b]` is the chain it is
on, or `NoBucket` while it is not allocated. `fl` and `dl` are the two lists, in
order, `currsz` counts buffers. All functions but `bc_flush` hold `bc_lock`
throughout and touch nothing anybody else can touch meanwhile, so each return
path is one action: `GetHit`, `GetNoBlocks`, `GetEvict` and its three failures,
`GetAlloc` and its failure, `bc_dirty`, `bc_release`. `bc_flush` is
`FlushBegin`, one `FlushBlock` per dirty block, and `FlushEnd` or `FlushError`.

The clients are the threads of `tbr_thr_start`: get, take the block's
readers-writer lock, read or modify, mark dirty, unlock, release. A modification
takes two steps, so a flush can find it half done: block contents are numbers, a
write makes an even number odd and then even again, and an odd number in the
file is a torn image. `blocks` is the test program's shadow array.

The file is external. `disk` is what `pread` returns, `media[n]` the values
block `n` may have after a power loss, `oscache[n]` whether the kernel still
owes block `n` to the medium: `pwrite` adds the new image to what may be there,
a successful `fsync` leaves only the current one, and a failed `fsync` may make
the kernel forget what it owed. Which calls may fail is the constant `Faults`.

### BTree

Every operation holds `bt_rwlock`, exclusively if it changes anything, so an
operation is one action. Inside it, the functions that call each other
(`btn_insert`, `btn_insert_split`, `_bt_insert`, the new root in `bt_insert`,
`_bt_remove`) are operators on a record with the nodes, the allocated blocks,
the root, the dirty set, the assertion that failed, if one did, the blocks whose bit is
set although nothing is in them (`lost`), and the call that fails in this operation (`fault`).
`btn_insert_split` is written as its stages: `Split`, which is `SplitPoint`,
`ChooseCut`, `SplitAt` with `MoveTail` and `Place`, then the insertion, then
`SplitResult`. Two recursions of the code are unrolled so that the module can be
proved about. `_bt_insert` calls itself on the way down, where it only reads, and
works on the way back up: here `Path` is the way down, `AtBottom` the last call and
`FromChild` what each of the others does with the result. `btn_insert` and
`btn_insert_split` call each other: a node is split, and once more for a large
record (`SplitOnce`); a third time is an assertion of the model's, which
`NoAssertFails` shows not to be reached in the instance of `btree`. The
arithmetic of the split is the code's, in bytes scaled down: a block has room
for 8 bytes instead of 1014, an index record takes 2, a leaf record 1 plus
its value. `disk` is the file; `bt_sync` and `bt_close` write the dirty blocks
to it, and `bt_open` reads it back. `answers` records what `bt_find` would
return for each key, so that the step from one to the next can be compared with
a step of `OrderedMap`.

`malloc` and the block cache may fail wherever an operation calls them. One failing call
per operation is enough, because each ends the operation: its error goes up through the
callers, which undo nothing, or one of them asserts that there is none (`btree.c:1566`,
1694). What is left behind is what the code leaves: a block
whose bit is set when `btn_get` fails after `sm_balloc` (`Fails`, `FailedAlloc`, line 696);
a node split in two whose second half has no index record (`WithIndex`, 982); a split
that gives up before it starts (`"copy"`, 826); a child that cannot be read
(`Unreadable`, `bt_find_unread`, 1548, 1801, 1871) or a record found that cannot be copied
(`bt_find_uncopied`, 1777), after which references to the nodes above are kept; a leaf that is
empty but could not be freed (`btn_free`, 1881); a flush that has written some blocks and
not others (`bc_flush_fails`, 1451, 1465), after which a `bt_close` has released nothing.
`bt_check_disk` accepts an empty leaf: `_bt_check_disk_node_cb` asks only index
nodes for a record (`btree.c:2402`).

A behaviour belongs to one `use` of the constant set `Uses`: the tree it begins
with, the keys and sizes, how many operations may change it, which calls its
users make, and which calls of the btree may fail (`faults`). Some calls lead to the defects listed in section 4, and everything
after those is no longer meaningful: the uses of the passing runs have records of
at most a quarter of a node (or one large one), look up absent keys only where
the tree is not closed afterwards, and insert duplicates only where the leaf has
room. In `btree` no call fails, because `NoAssertFails` and `TreeChecks` are about
that: a failing call may end in one of the two assertions above, and a lost block is the
mismatch `bt_check_disk` reports. In `btree_faults` every call fails but the one of line 982,
which loses records.

### SpaceManager

`bmp_bm[i]` is the set of bits set in bitmap `i`, `bmp_nfree[i]` its count, and
`owned` what the btree has been given. Bits are numbered from the most
significant one of the first byte, as in `bm_balloc`, so the extra bits of the
last bitmap are its last ones. `cached` are the bitmaps in the block cache:
`bt_check` looks at those only. A failed assertion ends the behaviour, with
`abort` saying which.

### Fifo

The fields of `struct fifo`, and `reply` for what the last call returned and
handed out. `fi_destroy` is followed by `fi_create`. `malloc` may fail at any
growth, and always does above `MaxSize`.

### Heap

The fields of `struct heap`. `heap_upheap` and `heap_downheap` call themselves in
tail position, so each such call is a step at the slot `cursor`, and the order is
stated for the middle of a call too. The slots `realloc` adds hold `Junk`. The
refinement counts the element on its way in as not yet in the queue, and the one
on its way out as still in it.

### Lists, LinkedList and HashTable

`Lists` models memory because sharing and freeing are what can go wrong: `used`
is the set of allocated nodes, `cell` what is in them, `live` the data objects
that exist, `fault` is set when a node or an object is used or freed after it was
freed. `budget` is the number of `malloc` calls that still succeed, chosen anew
for each operation, so that a failure may come at any of them. The loops over a
list (`Walk` along `ln_next`, `ll_destroy`, `ll_create_copy`) are recursive
functions of the number of nodes passed. Addresses are numbers, finitely many, and
`NULL` is no object (`ListsAssumption`). `LinkedList` has
named lists that are copied and destroyed in any order, without a destructor, as
the paths of the graphs are. In `HashTable` the lists own their data, and a slot
of a new table may be `Junk`: a call that looks at one ends in `crashed`.
The loops over a table are recursive functions of the number of slots passed:
`Walked` is `ht_iterate`, `Migrated` the iteration of `ht_resize` with its callback
`ht_resize_migrate_cb`. `Resized` is `ht_resize` with its error path; `ht_insert`
ignores its result, as the code does.

### AvlTree and BinaryTree

A node is named by its data. In `AvlTree` a side is -1 or 1 and `kid[n][s]` is
the child there, so that `at_rotate_left` and `at_rotate_right`, and every other
pair of mirror images, is one operator. Balances are adjusted by the cases of the
code; the heights appear in `at_check` only. `Raised` and `Lowered` are what a
node does when its subtree has changed, on the way back up. The functions that
call themselves are functions of the depth a call may still go down, at most the number
of data: on the way down they only read, so the tree in their calls is the one they
started with, and what they return carries the changes up. In `BinaryTree`, where recursion is the same, a
*place* is the address of a child pointer, which is what the C functions pass
down. Its `bt_remove` is a stub that returns 0 and changes nothing; it is no action, so
what is shown is a map from which nothing is removed.

### UdGraph and UdwGraph

The trees of nodes and adjacencies are the sets `AvlTree` is shown to be,
iterated in ascending order (a node outside of the tree is `Nil`, the `NULL` of the code); the fifo of the breadth-first traversal and the
lists of paths are sequences. A call of `UdGraph` is one step: the program has
one thread, and what a traversal does is compared with reachability and distance
in its result. A loop is a function of the number of rounds, a recursive function of
the C code a function of the depth it may still nest to; as a call that goes on marks a
node, or has one more in its path, the number of nodes is enough for either. The
depth-first search is written with `length_to_beat` and its two reasons to give up, as
in the code. The search of `UdwGraph` takes one step
per path it pops, because the argument for its pruning is about the paths still
in the heap. Which of several equally short paths is popped is left open, as
`PriorityQueue` leaves it. An edge that cannot be added at its second end is an insertion
at the first followed by `at_remove`, as in the code. A search of `UdGraph` for a
destination that is not in the graph answers `ENOENT`. The length of a path and the distances it is compared
with are recursive functions; the weights are a finite set of positive numbers, as
those of an `int64_t` are. A call that frees memory twice sets `wg_crashed` or
`ud_crashed`, which ends the behaviour.

## 3. What is checked

All passing runs explore the complete state space of their instance.

| Run | Instance | Shows |
|---|---|---|
| `bcache` | 2 threads, 2 buffers, blocks 0, 1, 4 (0 and 4 on one chain), one write per block, `pread`/`pwrite` errors, flush, close, crash, with fairness; 222,968 states | a held buffer stays put (`HeldStaysPut`), one copy per block (`OneCopy`), the test's own assertion (`ReadsLatest`), the file is behind only where a buffer is dirty (`FileBehindOnlyIfDirty`), a flushed write survives a crash (`FlushedIsDurable`), no needless `ENOMEM`, the cache is invisible (`Transparent`), and a thread in `bc_flush` comes out of it (`FlushReturns`) |
| `bcache_faults` | 2 threads, 1 buffer, 2 blocks, every kind of failure; 341,633 states | on every error path, lists and counts are exact (`ListsExact`, `RefcntExact`) and `bc_check` never asserts (`CheckNeverAsserts`) |
| `btree` | three uses: 6 keys, 2 sizes, any number of inserts, duplicates, removes and finds; 14 keys on a tree of two full levels, 4 changes with sync and reopen between any two; 7 small records in a full root and one record of any size put anywhere; no call fails; 201,268 states | no assertion fails, keys in order, one root, one depth (`WellFormed`), `bt_check_disk` would pass (`TreeChecks`), and the tree is a map (`IsMap`) as leaves are freed and made again, the third level appears, and nodes split in two and three |
| `btree_faults` | three uses: the tree of two full levels, 3 changes that split its full leaf and root or empty a leaf, with failing allocations, frees and flushes, syncs and reopenings; the same tree, when its nodes cannot be read or records not be copied; any operations with 4 keys on a tree that loses blocks until none is left; 102,872 states | after every failure every node is sound, the ones nothing points to included, no two pointers lead to one node and none to a block without one (`NodesSound`), the dirty bits cover every change, also over a flush that failed (`SyncIsComplete`), and the tree is a map: a call that fails changes nothing or all of it (`IsMap`) |
| `space` | 18 blocks, bitmaps of 7 bits; 1,379 states | counts and bits exact (`BitmapsExact`), and it is an allocator |
| `queues` | a fifo of 2 slots, doubling to 8; a heap of 2 slots, growing to 8, 4 elements, two of one weight; 231,457 states | no assertion of the fifo fails and it is a queue; the heap never reads a slot it has not written, is in order except at the cursor, shows `NULL` when it is empty (`HeapInv`), and is a priority queue |
| `hash_table` | 3 data with hashes 1, 3, 5 in a table of 1, 2 and 4 slots, at most one of a new table's slots junk; two lists of 2 items; `malloc` fails anywhere; 56,542 states | no node is lost or freed twice by a resize that succeeds, fails or fails half-way and no object destroyed early or forgotten (`TableOwnsAll`), every element is where its hash says, once, `ht_check` and `ll_check` pass (`HashedRight`), `ht_get_random` ends (`RandomReturns`), it is a set; the lists are independent (`AreLists`) and account for every node |
| `trees_graphs` | an AVL tree of 7 data, any calls; two changes on each of the four sparsest trees of height 5; a binary tree of 4 keys; every graph of up to 5 nodes; every weighted graph of up to 4 nodes with weights 1, 2, 4; 606,283 states | no assertion of a rotation fails, `at_check` passes (`AvlChecks`), order and nodes are kept (`InOrderAndComplete`), and the trees are a set and a map; adjacencies are mutual, also after failures (`GraphChecks`, `WeightsMutual`); traversals visit what is reachable, once (`TraversalsCover`); the paths of both searches are shortest (`PathsAreShortest`); the argument in the comment of `udw_graph.c:501` (`FirstSeenIsShortest`) and a path returned is a shortest one (`AnswerIsShortest`) |

The type invariants of `BCache`, `SpaceManager`, `Fifo`, `Heap` and `LinkedList` are
proved (section 5), the last two as part of a larger invariant; that of `BTree` is a
conjunct of `WellFormed`.

Deadlock is checked everywhere but in `btree_faults`, `space`, `hash_table` and
`trees_graphs`, where a program stops that has failed an assertion, followed a junk
pointer or freed memory twice.

**Bounds.** Two threads and two buffers give every pairing that matters in the
cache: sharing a buffer, competing for the last one, flushing while another
writes. Three blocks over two buffers force evictions, and two blocks on one
chain force the comparison of numbers. One write per block (`MaxVer`) is enough
to tell stale from current and torn from whole. In the btree, six keys make
splits of leaves and of the root, frees of every leaf and reuse; the second use
starts from a built tree because three levels from nothing are too many states,
and the third from a full root so that a large record meets every neighbourhood.
With failures the state space is that of the tree times what has been lost, so each
use of `btree_faults` has the keys that reach a split, a free or a third level and
no others; its 12 blocks are few enough for the last use to run out of them.
The bitmaps of 7 bits give a first bitmap with fixed blocks, a middle one and a last one with extra bits, which are the cases of `bt_create`.
The fifo's two doublings cover growing while wrapped and while not, and eight
slots give the heap four levels. The hashes 1, 3 and 5 share a chain in tables of
1 and 2 slots and not all in one of 4, so a resize both keeps and splits chains.
Seven data make every AVL tree of height three and the sparsest of height four,
with every rotation, but no removal that repairs two levels: the four sparsest trees of height five, leaning
either way, with the heavy grandchild outside or inside, add those. Five nodes
have cycles of every length up to five, two disjoint parts, and nodes on two
shortest paths; weights 1, 2 and 4 make a detour shorter than an edge, and as
long as one.

**Fairness.** Only `FlushReturns`, in `bcache`, needs any: weak fairness of the steps of the
thread inside `bc_flush`. It waits for no lock (it has `bc_lock` and takes no
other), so an operating system that lets it run at all gives it this. Nothing
is assumed of the other threads or of the device, which may fail each call.

## 4. Where the code and its own statements disagree

Each of these runs checks one property, states what a comment, assertion or test
of the repository says, and ends in a counterexample. The findings in
`PROJECT.json` quote the lines. Those of the btree were confirmed by running the
C code with the sizes of the counterexample scaled up.

| Run | Property | What happens |
|---|---|---|
| `bcache_fsync_faults` | `FlushedIsDurable` | after a failed `fsync` the next `bc_flush` has nothing to write and returns 0 |
| `btree_big` | `IsMap` | a record put on the wrong side of a big one hides it from `bt_find` |
| `hash_table_junk` | `NeverCrashes` | `ht_resize` does not clear the new table, and junk in it is used as a list |
| `udw_graph_enoent` | `ENOENTMeansNoPath` | the heap runs empty before a longer path is popped, and the path found is thrown away |

The model follows the code into these as well, but no run is about them: the
passing runs exclude them by `Faults`, `Uses` and `NBlocks`, or end there. Where a
use is named, `NoAssertFails`, `TreeChecks` or `IsMap` fails in `MCBTree` with it.

* Records between a quarter and half a node fail the assertion
  `nrecsz > (maxsz / 2)` (`btree.c:906`), whose comment says the new record is
  large: the tail of the node may be the large part. A use with `vals` 0 to 3
  shows it.
* A split that has moved half of the records finds no memory for the index record of
  the new node (`btree.c:982`): `bt_insert` returns `ENOMEM`, and the records are gone. A use
  with `"index"` among its `faults` shows it.
* `btn_get` fails in `btn_alloc` after `sm_balloc` (`btree.c:696`): the block stays
  allocated for good, and `bt_check_disk` reports it. `btree_faults` has these blocks, in
  `lost`.
* `assert(!err)` at `btree.c:1566` and 1694 take it that neither `malloc` nor the block
  cache fails while an index record or a new root is made. `btree_faults` ends there.
* `btn_free` fails for the leaf a remove has emptied (`btree.c:1881`): `bt_remove` returns
  an error although the record is gone.
* `bt_find` of an absent key below the root keeps a reference (`btree.c:1815`),
  and the next `bt_close` fails `bl_refcnt == 0`. A use with both `"miss"` and
  `"close"` shows it.
* `EEXIST` on a full leaf leaks the block allocated for the split
  (`btree.c:868`), and `bt_check_disk` reports it. A use with `"dup_full"` shows
  it.
* A short `pread` during an eviction (`bcache.c:198`) leaves another block's
  bytes under the victim's number. `bcache` has no short reads; `bcache_faults`
  has them, and checks the structure only.
* A failing `bco_init` (`bcache.c:211`) leaves a buffer on its chain without an
  object. Only `bcache_faults` has it.
* Nothing reserves the blocks of a split: with one block left the assertion that
  the new root can be allocated fails (`btree.c:1694`), and a three-node split
  that finds no second block has already moved records away (`btree.c:995`). `btree`
  has blocks enough.
* A root that splits without moving a record is not marked dirty
  (`btree.c:900`), so the file keeps its `IS_ROOT` flag. That takes a record of
  more than half a block: the tree read back is the same for `bt_find`.
* `bm_bfree` asserts on a bitmap with no free block (`btree.c:221`) and
  `bm_bco_check` on one with no block in use (`btree.c:115`): both end the
  behaviours of `space`.
* `ll_insert_head` forgets the node it allocated when it finds a duplicate
  (`linked_list.c:172`). `LinkedList` keeps these in `lost`.
* In `ud_graph.c` the error paths of the breadth-first functions test a fifo
  pointer that may not be set (lines 439, 843; the second already when the destination is
  not in the graph), or free a node that is in a list
  (693, 778), and a search for a node without adjacencies returns 0 without
  storing a path (596, 811); from a node to itself both searches return no path,
  while the weighted search returns a closed walk.
* In `udw_graph.c` `ENOENT` after a pop destroys the last path twice (535), and an
  edge that cannot be added at its second end, as one from a node to itself never
  can, is freed twice (204-209). Paths that are not better than the best one are
  leaked (353).
* In `binary_tree.c` a node whose key or value cannot be copied is lost, and
  `bt_destroy` does not free keys and values.

## 5. What is proved

The proofs hold for every value of the constants, under the assumptions stated
in the component's module.

**`BCacheProofs`** (`BCacheAssumption`: finitely many clients and buffers, at
least one buffer; any `Faults`). Theorems `TypeCorrect`, `FreeAndDirtyLists`,
`ReferenceCounts`, `NeverEvictedInUse` and `CheckPasses` establish `TypeOK`,
`ListsExact`, `RefcntExact`, `HeldStaysPut` and `CheckNeverAsserts`. None of
them is inductive alone: the free list is right only if the counts are, the
counts only if a client has a buffer exactly when it is past `bc_get`, and an
eviction spares held buffers only if they are not on the free list. Their
conjunction `StructureInv`, with the absence of duplicates on the lists, the
size, and who holds `bc_lock`, is; there is one lemma per action. The counts
rest on the cardinality of the set of holders, the lists on four lemmas about
unlinking, taking the head, appending and prepending.

**`SpaceManagerProofs`** (`SpaceAssumption`: more than one bitmap, and the first
covers the fixed blocks, as `bt_create` asserts). `SpaceInvariant` proves
`SpaceInv`, from which `SpaceTypes`, `BitmapsAgree` (`BitmapsExact`) and the
refinement `ImplementsAllocator` follow. That the bits are exact needs that the fixed blocks
are never among those given out: without it a free might clear a fixed bit. The
division of a block number into bitmap and bit and back is a lemma, as is that
a bitmap with a clear bit has a first one.

**`QueuesProofs`** on `Fifo` (`FifoAssumption`: `NULL` is not data, the start size is
positive). `fi_check` compares positions but not the distance from head to tail
with the count, so it is not inductive. `FifoInv` says that the occupied slots
are the first `fi_nelements` counted round from head and that tail is the last.
It yields `FifoTypes`, `NoFifoAsserts` and, through `EnqAppends`
and `DeqTakesHead`, the refinement `ImplementsQueue`. `WrapOnce` removes the `%`.

The second half of **`BCacheProofs`** builds on `StructureInv`. What buffers, file and
medium contain is established in layers. Each layer needs the ones before it, and its theorems say
which failures they exclude, because the code does not survive them (section 4):

| Layer | Says | Must not fail | Theorems |
|---|---|---|---|
| `LocksExclude` | who modifies a buffer is alone with it | | |
| `Placed` | a block has one buffer, on the chain `bc_get` looks on | `bco_init` | `OneBufferPerBlock` (`OneCopy`) |
| `Current` | a buffer nobody modifies has the last completed write; the file is behind only where a buffer is dirty | also short reads | `ReadersSeeLatest` (`ReadsLatest`), `NothingIsForgotten` (`FileBehindOnlyIfDirty`) |
| `Durable` | the medium may have what the file shows, and has it when the kernel owes nothing | also `fsync` | `FlushIsDurable` (`FlushedIsDurable`), `CacheIsTransparent` (`Transparent`) |

`FileBehindOnlyIfDirty` is not inductive: during a modification a flush may write the
half-done image, so the file may be ahead of the last completed write, but never
behind it. `CacheIsTransparent` is the refinement of `BlockStore`: `bc_get`, eviction
and reload are stutters, a completed write and a flush are steps. `EnoughBuffers`
(`NoSpuriousENOMEM`) needs at least as many buffers as threads and that `malloc` and
`bco_init` succeed: then the held buffers cannot be all of them, by counting.

**`QueuesProofs`** on `Heap` (`HeapAssumption`). `HeapIInv` is `HeapInv`'s parts made
inductive: in the middle of a sift the order holds except between the cursor and
its neighbours, and there the parent is ordered with respect to the children, which
is what makes one exchange enough; the element handed out was the top
(`PoppedWasTop`). `HeapIsOrdered` gives `HeapInv`. That the root is the greatest,
which the refinement `HeapIsPriorityQueue` needs, goes by the least slot with a
greater element: its parent has a smaller index.

**`GraphProofs`** (`UdwAssumption`: finitely many nodes, positive weights; `UdAssumption`:
finitely many nodes), first on `UdwGraph`.
`EdgesAreMutual`, `FirstSeenShortest` and `SearchFindsShortest` establish
`WeightsMutual`, `FirstSeenIsShortest` and `AnswerIsShortest`. The invariant of the
search is `Frontier`: every edge that leaves a node whose edges were followed has
left a path, in the heap or as `best_path`, no longer than the shortest way to the
node and the edge. `NothingNearer` draws from it that no node beyond the frontier is
nearer than every path in the heap, which is the comment's argument. The proof
needs that no path in the heap visits a node twice, and that the answer is a
shortest path although longer paths are pruned, replaced or left in the heap.
The reference is `Distances`, a relaxation in rounds.

On `UdGraph`, `GraphAlwaysChecks`, `TraversalsAlwaysCover` and `PathsAreAlwaysShortest`
establish `GraphChecks`, `TraversalsCover` and `PathsAreShortest` for every graph. The
invariant `UdInv` is simple, for a call is one step; the work is in what a call
computes. `Measures` characterises distances by four facts, and `DistancesMeasure`
shows that `Distance` has them.

* Breadth first, `Wave` says that the queued nodes are in order of distance and span at
  most two distances, and that everything next to a node no longer queued is marked.
  `WaveStep` keeps it because nodes are marked when they are queued. `BfCovers` and
  `BpEnds` draw from it that nothing is left out, by counting the rounds; a backpointer
  leads one edge nearer to the start (`LeadsBack`), so the path is as long as the distance.
* Depth first, `Went` and `Called` say what a call has done: it has given nothing twice
  and, unless it stopped, has given all it marked, gone to all their neighbours, and given
  each before a neighbour. `CalledOnce` shows it of a call if the calls one level down do it
  for the nodes that are left, which are fewer. That a node is given before the one it was
  reached from needs that adjacencies are mutual.
* The search for a path depth first: `Answers` says that a call returns a path that
  avoids `curr_path` and is no longer than any such path shorter than its
  `length_to_beat`. `BestStep` shows that neither stopping at the destination, nor giving
  up at a length of 1, nor passing on `length_to_beat - 1` loses a path that matters.

**`ListsProofs`** on `Lists` and `LinkedList` (`ListsAssumption`, `ItemAssumption`).
`Holds(M, l, c)` says that list `l` has the nodes `c` in memory `M`: each points to the
next, none comes twice, the last points nowhere, `ll_nnodes` counts them. `Becomes`
says that a call turns one such list into another and changes no cell but those of the list and
of nodes that were free. Each function of `linked_list.c` that changes a list has one lemma
(`InsertStep`, `InsertHeadStep`, `RemoveStep`, `DestroyStep`, `CopyStep`); all but
the copy are also about lists that own their data. `OneListChanges` then shows once, for all calls, that the other lists keep
their nodes and items. `ListIInv` needs that chains are disjoint, or a call on one
list could change another, and that the items of a list differ, or a copy could end
in `EEXIST`. The theorems are `ListInvariant`, `NodesAreAccounted`
(`NodesAccounted`) and the refinement `ImplementsLists` (`AreLists`).

**`HashTableProofs`** (`ListsAssumption`, and `HashAssumption`: `ht_hash` yields natural
numbers, `HT_START_SIZE` is positive). `TableHas(M, T, C, V)` says that in memory `M`
every slot `i` of table `T` is a list with the nodes `C[i]`, which hold the data `V[i]`;
all data are alive, differ and hash to their slot, and no node is in two chains.
`TableIInv` is that the table has some `C` and `V`, that they account for every node in
use and every datum alive (`AllThere`), and that `ht_nelements` counts them. It ends at
a slot that is `Junk`, where the behaviour ends too; that one is met is the violation
of section 4, not excluded here. `InsertIntoTable` and its counterparts for find and
remove lift one list's lemma to the table. A resize has two tables in one memory:
`MigrateStep` shows that the new one takes in the data of a slot, that its nodes were
free before and hence none of the old table's, and so `DestroyTableStep`, which
preserves the data, leaves the other table as it was, whichever of the two is destroyed.
`ResizeCommits`, `ResizeFails` and `ResizeStep` conclude that a resize that succeeds,
fails at once or fails half-way leaves a table with the same data and no node astray.
`WalkedIs` says that `ht_iterate` gives each element once, `SumIs` what `ht_check` adds
up, `GoingRound` that from any slot the loop of `ht_get_random` comes to every other.
The theorems are `TableInvariant`, `TableOwnsItsData` (`TableOwnsAll`),
`ElementsHashedRight` (`HashedRight`), `RandomAlwaysReturns` (`RandomReturns`) and the
refinement `ImplementsSet` (`IsSet`).

**`TreesProofs`** on `AvlTree` (`AvlAssumption`: finitely many data, which are integers). `AvlIInv` is
that the tree is `Sound` and `at_nnodes` counts its nodes. `Sound` rests on
`AVL(S, n, D, h)`: below `n` is an AVL tree with the data `D`, in order, of height `h`, in
which every stored balance is the true one. It is not `at_check` made inductive but more:
`at_check` compares a node with its children only and so accepts a tree out of order.
`AVL` is stated by its witnesses, a set and a height for every node (`Fits`), so that `Split`
and `Join` take a tree apart and put it together with no induction. `Sound` adds that
nodes outside of the tree are linked to nothing, which an insertion relies on.

The code never computes a height. It keeps balances by cases, and passes up whether the
height has changed; all its assertions depend on that report. So each lemma about a level,
`RaisedIs` for the way back up of an insertion and `LoweredIs` for that of a removal, says:
if the report from below is true, the subtree is an AVL tree again and the report passed
on is true. `RotatedOnce` and `RotatedTwice` check the case distinctions of the rotations
(`3`, `2` or `1`, and the child's `0` or `-s`) against the heights. `PluckTakes` is the
search for a replacement, which takes the greatest or least node out of a subtree;
`ReplacementIsSound` puts it where the removed node was. `InsertGrows`, `PluckTakes` and
`RemoveShrinks` are inductions on the depth (`Climb`), and `HeightBound` shows that no
branch is longer than there are data. `InOrderIs`, `HeightIs` and `FindIs` say what an
iteration, `_at_check` and a search make of an AVL tree. The theorems are
`AvlInvariant`, `AvlAlwaysChecks` (`AvlChecks`), `AlwaysInOrder` (`InOrderAndComplete`)
and the refinement `AvlImplementsSet` (`IsAvlSet`). `AvlIInv` quantifies over all sets and heights a node could
have, which TLC cannot enumerate; its run checks the two properties that follow from it.

On `BinaryTree` (`BtAssumption`: finitely many keys, which are integers) the invariant is
`BtIInv`: for every key, stored or not, there is the sequence of places a search comes to
(`Leads`), it ends at the node of the key or at an empty place, and it is no longer than
the nodes are many. `PlacedKeeps` shows that an insertion lengthens the searches that end where its
node is put and changes no other. That the keys are in order is not needed: a search that
always turns the same way at a node is enough to be a map. The theorems are
`BinaryTreeInvariant` and the refinement `BinaryTreeIsMap` (`IsBinaryMap`).

**`BTreeProofs`** (`BTreeAssumption`: the sizes are natural numbers, the root has room for
the info, the file for three blocks; and the hypothesis `ShortKeys`). `NodesAlwaysSound`
proves `NodesSound`, for any uses, with any records, duplicates into full leaves, lookups
of absent keys, any number of blocks and any failing calls of `malloc` and the block cache:
the nodes are sound through all defects of section 4, as
long as no assertion has failed. `NodesSound` alone is not inductive. It says nothing of
the nodes in the file, and `bt_close` makes those the tree; nor that the root has a block
of its own, without which the next node could be made where it is. The invariant is `BTreeIInv` (`BTreeInvariant`). `Good(S, D)` has, besides the nodes
and the pointers, that the root and the bitmap have their blocks and that the file `D`
agrees with every block that is not dirty (`Synced`). It does not quite: a root that splits
without moving a record loses `IS_ROOT` and is not marked dirty (`btree.c:900`), so
`Stored` leaves the flag out. `Empty(S)` are the index nodes without a record, which
`btn_insert_first_index_record` expects and a finished call never leaves.

`ShortKeys` says that an index record takes less than half of a block. `bt_insert`
accepts longer keys, up to a block less the info and a pointer (`btree.c:1651`), but its own comment asks for this limit
(`btree.c:1578`), and without it the cut of a full index node may leave one half
without a record.

The argument follows the calls. `SplitPointIs` says what a scan finds: a cut, the bytes behind it, and a record before it
unless the new record is a large one. `TailMoved` is the move: the
records, the bytes and the pointers of one node become those of two, in the same order.
`SplitIs`, `SplitResultIs`, `OnceIs` and `InsertIs` go from there to
`btn_insert`; each says which nodes are new, that they are loose (nothing points to
them yet), and that the index records given to the caller name exactly those. So the caller
may add a pointer to them (`FromChildIs`, `RootAboveIs`), and no node gets two. `Extends`
keeps the other loose nodes loose through all this. `PathIs` shows that `Path` is a chain of
pointers from the root, and `DescentIs` is the induction along it. `RemovalIs` needs
that only the parent points to the leaf it frees, `FlushedIs` that a file
that agrees with what is clean becomes the tree. `SizeOf` is a recursive function; `SumsExist` and
`SizeOfConcat` give what the bytes of the parts of a sequence have to do with those of the whole.

**Recursion in the proofs.** The recursive functions above are defined by `CHOOSE`, so
their equation holds only if a solution exists. `Iterated` and `IteratedIn`, and in `BTreeProofs` `SumsExist` and
`PathIs`, prove that, by the least number of rounds for which there is
none, and everything said about a number of rounds is proved from a least
counterexample, not by an induction theorem.

**Only model-checked.** `FlushReturns`, because it is a liveness property. Of `BTree`:
`NoAssertFails`, which depends on the sizes of the records and on what does not fail, as
section 4 shows; `WellFormed` and `IsMap`, which need in addition that the keys of a subtree lie between
those around its pointer, and do not hold after a large record is misplaced; and
`TreeChecks` and `SyncIsComplete`, which need the count of the nodes. What is proved is
the part of them that holds without a restriction of the use.

## 6. What is not modelled

* Output (`*_dump`), statistics, and the formatting of anything.
* `bt_update` and `bt_iterate`: `assert(0)` in the source.
* A `bt_create` or a `bt_open` that fails: there is no tree then. A `bt_close` that fails
  ends with the tree as it was, and may be called again.
* `bt_remove` of the binary tree, a stub that does nothing.
* `bt_sync` racing a `bt_insert`: it takes no tree lock. Here it runs between
  operations.
* Keys of different sizes in one tree, and records too large to be inline
  (refused with `E2BIG`, which is modelled).
* `bc_destroy` while the cache is in use: its callers join their threads first.
* Leaks of anything but list nodes: an `ll_create` whose second `malloc` fails,
  the paths the weighted search drops. What is freed twice is modelled.
* Weights that are zero or negative: the weighted search does not check them, and
  its argument needs them positive.
* `udwg_get_node`, the traversals and the depth-first search of `udw_graph.c`:
  `assert(0)` in the source.
* The Xcode project, `tests/avl_comparisons.cpp` (a benchmark) and the random
  test drivers, except for the threads of `test_bcache.c`.

## 7. Plan

1. Done: every component of section 1 has its module, with an abstract
   specification wherever it promises one; the proofs above.
2. Proved of `BTree`: that its nodes are sound. Next: under a restriction of the sizes,
   that no assertion fails, and then the order of the keys along a path.
3. `BTreeSync`: an insert as the sequence of its `bc_dirty` calls, with
   `bt_sync` and a crash between them.
4. Keys of different sizes in `BTree`.
