# NBFS: a TLA+ development

This directory specifies the core of NBFS, the user-space file system of this repository, in TLA+:
the write-behind cache through which a file is appended to and synced, the read path and the
reclaiming of cache buffers that share it, the pool of buffers that all files share, the B+ tree
that replaced SPDK's list of file names, and the life of the files: create, open, rename, delete,
close, listing, crash and load; and of NBFS2, its second file system, the table of names.
TLC checks the specifications on small instances; TLAPS proves the central ones for every size.

Abbreviations: N is `src/src/spdk_NBFS/lib/NBFS/NBFS.c`, T is `lib/NBFS/tree.c` beside it, BP is
`src/src/spdk_NBFS/include/spdk/Bplus_Tree.h`, HT is `src/src/NBFS2/hash_table.h`, FUSE is
`src/src/spdk_NBFS/module/blobfs/bdev/blobfs_fuse.c`.

## 1. Inventory

The repository holds a fork of SPDK. What is its own is NBFS (`lib/NBFS`, a blobfs whose list of
names became a B+ tree), its FUSE adaptor (`module/blobfs/bdev/blobfs_fuse.c`), and NBFS2, a second,
smaller file system directly on the blobstore with a hash table of names. The rest is vendored.

| Component | State | Operations | Correct when |
|---|---|---|---|
| Append path (N 2181-2793) | `append_pos`, `length`, `length_flushed`, `length_xattr`, the tree of buffers, `last`, `sync_requests` | `spdk_file_write`, `spdk_file_sync`, `__file_flush`, its callbacks, extension of the blob, direct write | a sync that returned is durable; no byte is lost; the persisted length covers only written bytes; every sync returns |
| Read path, reclaim (N 2206-2243, 2795-3001) | the same tree, `seq_byte_count`, `next_seq_offset` | `spdk_file_read`, readahead, `reclaim_cache_buffers` | a read gets the bytes of the file; nobody uses a freed buffer |
| Name index (BP) | nodes with keys, children, parent and next leaf | insert, delete, find, traverse | it is a map from names to files, listed in order |
| Files (N 724-1875, 3003-3160) | `ref_count`, `is_deleted`, open requests, xattrs `name`, `length`, `is_deleted` | create, open, rename, delete, truncate, close, load | a name has one file; a deleted file disappears when its last handle does |
| Cache pool (N 294-429, 2181-2307, 3130-3160) | `g_caches`, `g_cache_pool`, `g_fs_cache_size`, `g_fs_count`, priorities | start, stop and size of the pool, get and put of a buffer, adding and removing a file, the poller that reclaims | the list is the files that have buffers, each once; no buffer is lost; what can be reclaimed is |
| Cache tree (T) | levels of 64 children | insert, find, remove, free | it is a map from offsets to buffers |
| Requests and channels (N 440-597, 2136-2179) | free list, outstanding count, semaphore | alloc, free, wake | a request is in one place; a semaphore is posted once per wait |
| Listing (N 1714-1742, BP 601-633, FUSE 117-138) | a pointer to the current file | first, next | it shows every file that stays, once |
| FUSE adaptor (FUSE) | open handles | one call per system call | it passes on errors |
| NBFS2 and its hash table (HT, `NBFS2.c`) | buckets with chains, the super blob | build, create, delete, unload | the table is a map from names to blobs |

How they meet. A user thread calls the blocking functions. It takes the spinlock of the file,
works on the buffers, and sends messages to the metadata thread, which runs all blobstore work as
one chain of callbacks after another; it waits on the semaphore of its channel. The metadata thread
takes the same spinlock in its flush and sync handlers. The device completes in any order what the
metadata thread submits; requests on the metadata of the blob complete one by one. Anybody who
needs a buffer may make the pool thread take buffers away from any file.

What is hard: all of those actors share one file's state; several handlers read it, drop the lock or
wait, and use what they read; a flush that finds nothing to do relies on another event to start it
again; a crash shows only what was persisted. `hazards` in `PROJECT.json` lists each such place with
its line and the properties aimed at it.

## 2. Plan

1. *Done*: `FileCache` (append path), `FileCacheProofs`, `FileCacheDurability`, `FileCacheExtend` (its
   theorems).
2. *Done*: `FileCacheRead` (read path and reclaim over `FileCache`), `FileCacheReaders` and
   `FileCacheReadProofs` (its theorems: readers alone, and readers beside a writer), `FileTruncate`
   (truncation by a client over `FileCache`).
3. *Done*: `NameIndex` (abstract map) and `BPlusTree`, which implements it; `BPlusTreeProofs` (its
   theorems).
4. *Done*: `FileMeta`: create, open, rename, delete, close, unload and load as chains of callbacks,
   with crashes between persisted steps; `FileList`: a listing among them; `FileMetaProofs` (their
   theorems).
5. *Done*: `CachePool`: the pool, `g_caches`, their messages and the poller, over several files;
   `CachePoolProofs` (its theorems).
6. *Done*: `CacheTree`: the radix tree of T against the map `tree` of `FileCache`.
7. *Done*: `HashTable`: the chains of NBFS2's table against a map.
8. *Left*: the chain of the leaves in `BPlusTreeProofs`, see the end of section 5. No component is left
   to model, see section 6.

## 3. The modules and the code

`PROJECT.json` maps every definition to its lines. Conventions of all modules: an action is one
critical section or one callback; lower-case names are the fields of the C structures; ghost
variables, which the code does not have and no guard reads, are marked where they are declared.

### FileCache

One file, its user threads, the metadata thread and the device. An offset counts *units*, the grain
of the writes; `BufSize` units are a `CACHE_BUFFER_SIZE` and `ClusterSize` units a cluster of the
blobstore. A byte is its own offset: files are only appended to, so that the content of a place
never changes, and "the right byte is on the device" is membership in the set `disk`.

* `tree` maps the offset of a buffer to `filled`, `flushed`, `in_progress`; `last` is `file->last`.
* `thread[t]` is where a user thread is, and its local variables. The fill loop of
  `spdk_file_write` (N 2664-2704) is two steps a buffer, `Copy` and `FillPart` or `FillWhole`,
  because after an extension of the blob it runs without the lock. The other critical sections are
  single steps. `lock` is the file's spinlock.
* `mdq` is the message ring of the metadata thread and `cont` what the handler it is running still
  has to do: `__file_flush_done` calls `__check_sync_reqs` and then `__file_flush`, each of which
  takes the lock anew, so other threads may come between. `io` is the data requests in flight,
  finished in any order; `persists` and `resizing` are the metadata requests, finished in order.
* `disk_len` is the length a load after a crash would find. Ghost `promised` is the largest length
  for which a sync returned. Ghost `ub` records a use of a freed or overfull buffer; nothing is
  claimed of the program after it, and the model stops.
* `Failures` says which allocations or requests may fail: `buffer`, `request`, `resize`, `io`.

The initial state is that of a file just loaded or created: `iter_cb` sets all four lengths from
the xattr and there are no buffers.

### FileCacheRead

Extends `FileCache` by readers, readahead and reclaim. `ReadSizes` are the lengths asked for,
`Threshold` is `CACHE_READAHEAD_THRESHOLD` in units. `ReadAnytime` lets threads read at any time,
else only when everything is flushed; `PoolPressure` lets `reclaim_cache_buffers` run at any time.
Ghost `stale`, declared in `FileCache` with the two fields that count sequential reads, becomes true when a read takes bytes that were never there.

### CacheTree

Extends `FileCacheRead` by the radix tree of T, with `Width` slots a node: `TreeFindBuffer`,
`TreeInsertBuffer`, `TreeRemoveBuffer` and `TreeFreeBuffers` are the functions of `tree.c` on a
tree of records. `Shape` says, without them, what the tree of a set of buffers under a root of some
level looks like. As no inner node outlives its buffers, a set and a level determine the tree, so
that `RadixIsTree`, which compares each operation with `Shape` for the buffers of the
current state and every level the root can have, covers every history of insertions and frees that
leads there. The operators are recursive, so the module is for TLC only.

### FileTruncate

Extends `FileCache` by `spdk_file_truncate`. The resize and its callback are those of
`FileCache`, which a direct write past the end makes, too; the message, the two early
returns and the completion that wakes the caller are new. What is cut off leaves `disk`, and
`promised` falls to the new length, so that `SyncDurable` speaks only of bytes the file still has.

### CachePool

All files of all file systems, the pool thread `cache_pool_mgmt` and the pool. A file is a count of
its buffers: `clean` ones that a reclaim may free, `dirty` ones, and `ahead`, readaheads under way;
with `prio`, the priority, or `"write"` while it is open for writing; `lock`, whether its lock is taken;
and the threads that are inside `cache_insert_buffer`: `tries`
is a number while one is there that took the lock, and `late` a record while one is there without it.
`file[f].life` is `"none"` when there is no
`struct spdk_file`, and `"freeing"` between `file_free` and `_file_free`.

* `ring` holds the messages to the pool threads in the order they were sent. Each message names its
  thread, for `g_cache_pool_thread` (`th`) may be another one when it is handled.
* A write that extended the blob calls `cache_insert_buffer` without the lock (N 2655-2694). Getting
  the buffer and looking whether the tree is empty is then one step (`Extended`), the insertion another
  (`LateInsert`), and what is done to the tree in between makes the two meet (`Overtaken`). At its end such
  a write releases the lock, whoever has it (`StrayUnlock`), so that a thread that waits for a buffer
  with the lock may find itself without it (`LostLock`).
* `Poll` is one run of the poller with its three passes: low priority, not open for writing, any.
  It is one step, which may come between any two others: other threads come before or after all
  three passes.
* `ub` names the assertion that failed or the freed memory that was used; the model stops there. Many
  orders of the steps lead there, and nothing in the code excludes them: the pool thread and the
  device are only likely to be fast. No action has a guard against them. Ghost `raced` records
  which have occurred, and `Causes` says which of them a value of `ub` may come from:

| Order | What has happened | `ub` that may follow |
|---|---|---|
| `poll` | the poller dropped a file from the list before a message about it was handled | `not_listed` |
| `free` | a file was freed at once while a message about it was under way | `freed_file` |
| `reload` | a file system was loaded before the stop of the last pool was handled | `two_pools`, `wrong_thread`, `no_pool`, `lost_buffers` |
| `early` | a file was used before the start of the pool was handled | `no_pool` |
| `size` | `spdk_fs_set_cache_size` stored a size after the pool had been made with another | `lost_buffers` |
| `ahead` | a file was freed while a readahead was under way | `freed_in_use` |
| `unlocked` | the tree changed under an insertion without the lock | `tree_race` |

  `listed_twice` has no cause: it cannot happen.

### FileMeta

Clients call create, open, rename, delete and close; each call is a chain of callbacks on the
metadata thread, one action a callback, up to the requests it makes of the blobstore. `op[c]` is
where the call of client `c` is, `handle[c]` the file it has open.

* `files` is the index, a map from names to files as `NameIndex` specifies it: an insert of a name
  that is there changes nothing. `file` is the heap of `struct spdk_file`, so that a file that was
  freed is one outside its domain, and using it sets `ub`.
* `opens` is the blobstore's count of opens of a blob, `mem` its xattrs in memory, `disk` the
  persisted ones, `persists` the metadata writes in flight: those of one blob complete in order.
* `Crash` may happen between any two actions and leaves only `disk`. `Load` makes a file of every
  blob on the device; blobs marked deleted are deleted one by one before the load is over, and
  a crash may come between those, too. A blob without a name makes the load fail (`mode` is
  `"failed"`): it is what a crash inside a create leaves behind.
* `acked` and `gone` are ghosts: the names and the deletes that some call has reported as done.
* `Failures` says which requests may fail. `Overlap` lets clients call for one name at the same
  time (several opens of one file always may). `RenameOntoOpen` lets a rename replace a file that
  is open, see `rename_open`.

### FileList

Extends `FileMeta` by a client that lists the files in the loop of `fuse_readdir`. A client of
`FileMeta` that lists is at `"list"` and keeps, like the iterator, only the current file: the next
name is the one behind the record of that file in the index. The walk of the leaves that finds it
runs on the client's thread without a lock, so it is two steps, its beginning (`ListBegin`,
`ListWalk`) and its end (`ListArrive`), and `walker` is the client that is in between. A change of the tree
meanwhile makes the listing `torn`. What a walk meets then depends on the very leaf the metadata thread is
shifting or freeing, so a torn walk may come to any name of the index, or to the end; what it leaves
behind stays unreliable until the listing is over. `seen` is what the
listing has shown, ghost `steady` the names that were there all the time. With `Overlap = FALSE`
nobody renames or deletes the file a listing has come to.

### HashTable

The table of HT: an item per slot, a list of overflow nodes per slot, and `tail`, the `next` of the
last node, which `handle_collision` leaves uninitialised; `Garbage` is what it may hold. A freed
node that is still linked is `FREED`. Ghost `content` is the map the calls should have produced.

### NameIndex and BPlusTree

`NameIndex` is a partial map from names to files with insert-if-absent and remove. `BPlusTree` is
the tree of BP: a heap of nodes, and one action per function that changes it. A function that ends
by calling another leaves that call in `call`; no operation starts before `call` is `Done`.
`CondGarbage` is what an uninitialised `int` may hold, see `BPlusTree_first_name` in section 6. `MAX_KEY_NUM` is
the constant of the code, and 4 there. `ImplementsIndex` maps the tree to what a traversal lists
and states that every step of every operation is a step of `NameIndex` or leaves the list as it is.
Ghost `index` is the map that the completed operations should have produced. `BPlusTreeProofs` has the
theorems, see section 5.

## 4. The runs

| Run | Instance | Checks |
|---|---|---|
| `append` | a writer and a syncer, 2-unit buffers and clusters, a file of 0 or 2 units growing to 5, failing requests and resizes | durability (`SyncDurable`), `LengthBacked`, `NoLostBytes`, `FlushWithinBlob`, `Defined`, `LengthMonotone`, and `IInv` and `ExtendInv`, the invariants of the proofs |
| `readers` | two readers of a 3-unit file, readahead with buffers that cannot be had, reclaim at any time | `Defined`, `ReadsTheFile`, `ReadReturns`, and `ReadersInv`, the invariant of the proof |
| `mixed` | one thread that appends, syncs, and reads what is synced, up to 7 units | `ReadsTheFile`, `SyncReturns`, `ReadReturns`, and `IInv`, which has `SyncDurable` and `NoLostBytes` follow (theorems `SyncIsDurableWithReaders`, `NothingLostWithReaders`) |
| `reclaim` | one writer, a file of 0 or 1 units growing to 9, reclaim at any time; a radix tree of 2 slots a node | `NoLostBytes`, `RadixIsTree` |
| `names` | 2 keys a node, 7 names, 4 of them removable | the tree's shape, search, order, and `ImplementsIndex` |
| `files` | two clients, two names, room for two blobs, crashes and loads, failing resizes | what returned lasts (`Served`, `NotResurrected`), `RefCounts`, `Agreement` of index and device, `Defined`, `CallReturns`, `ListingComplete` and `ListingReturns`, and `MetaInv`, the invariant of the proofs |
| `pool` | two file systems of one file each, a pool of 1 or 2 buffers, one retry; users wait while 2 messages are under way | `ListBalanced`, `Conserved`, `Explained`, `Reclaims` |
| `unaligned`, `read_dirty`, `truncate`, `rename_open`, `chain` | see section 7 | each finds the code at odds with what it says of itself |

Why the bounds are enough. Two units a buffer is the least for which a buffer can be empty, partly
filled and full, and writes of up to three units cross a boundary and end on one. Up to 5 units
make two full buffers and a partial third: `last` moves twice, two flushes follow one another, and
with `ClusterSize = BufSize` every buffer extends the blob. The second thread of `append` has its
syncs queue behind the writer's, so that a first satisfied request hides others. In `reclaim` a file
of 1 unit starts in the middle of a buffer, so that writes go directly to the blob until the
boundary. With two slots a node, 9 units make the root of the radix tree rise to a third level; reclaims leave many sets of
its buffers. With 2 keys a node, 7 names give three levels, and inner nodes split, merge and take keys
from both neighbours; `Removable` limits the deletes to names at both ends and leaves the middle
to be inserted only, which is what keeps the state space near twenty thousand states. The code has 4
keys a node. In `files` two clients are enough to have an open wait for another, a delete of a file
that is open elsewhere, and a last close that finishes it; two names make a rename with and
without a victim, and a rename onto itself; crashes and loads are not bounded. In `pool` one file of each file system
suffices to have one file starve the other, a file system unloaded while the other goes on, and the
last one stop the pool; with one or two buffers the pool is empty most of the time, and two
buffers let one file have a clean and a dirty one. Loads, unloads and polls are not bounded; users
that would send a message wait while two are under way, which with the messages of loads, unloads and frees,
that never wait, is enough for every order of the table in section 3 and every value of `ub` in it.

Deadlock is checked except where the bound `MaxLen` lets the system stop with nothing to do.
In `pool` the model stops where the program is undefined.
In `append`, `unaligned`, `readers`, `files`, `rename_open`, `names` and `chain` some call is always possible.

Fairness. `FairSpec` assumes weak fairness of the metadata thread (a poller that never sleeps,
together with a device that completes what it is given) and of every thread in a call (no thread
is stopped by the scheduler for ever). A call is never assumed to begin. `FairReadSpec` adds strong
fairness for steps that need the spinlock while other threads keep taking it, and for
the completions of reads: a spinlock is not fair by itself, but the probability that a waiting core
loses every race for ever is nil. Without it `ReadReturns` would say something about the lock only.
In `FileMeta` and `FileList` it is weak fairness of the callbacks of each
client's call: the blobstore completes what it is asked, and the metadata thread polls. No fairness
is assumed of calls, crashes or loads. A listing, once begun, goes on: weak fairness of the begin of a walk,
strong fairness of its end, as the name it comes to may be busy again and again. In `CachePool`, the pool
thread handles its messages (weak fairness), and the poller, which is
registered with a period of a millisecond, runs although messages keep coming (strong fairness).

## 5. What is proved

`FileCacheProofs` proves `TypeCorrect`: `Spec => []TypeOK`, for every instance, failures included.
The invariant is `TypeInv == TypeOK /\ BuffersOK`: a buffer's `flushed` and `filled` are in order, and
a flush in flight has its buffer still, is alone for it, and does not go past what the
buffer holds. Types alone are not inductive, as counting a flush in a buffer that is gone has no type.
`WriterInv`, that a writer about to fill has a `last`, is proved with it.

`FileCacheDurability` proves, for all sizes, initial lengths, and numbers of syncing threads,

* `SyncIsDurable`: `Spec => []SyncDurable`,
* `LoadFindsData`: `Spec => []LengthBacked`,
* `StaysDefined`: `Spec => []Defined`,
* `NothingLost`: `Spec => []NoLostBytes`,
* `LengthNeverBack`: `Spec => LengthMonotone`,

under `Discipline`: the file starts on a buffer boundary, at most one thread writes, and neither
buffers nor data requests fail (requests and resizes may). Every condition is needed: the run
`unaligned` and the configuration `FileCache_io_error` show the code failing without the first and
the last; two
writers that pass the same check of the offset (N 2612) fill each other's buffers; and when
a buffer cannot be had, a write goes around the dirty buffers before it.

The argument. (1) `NoDirect`: from a boundary, no write ever leaves the cache, since a `last` exists
or can be made. (2) `TreeInv`: the buffers are full except the last, aligned, contiguous from
`length_flushed` on, and `last + filled`, plus what the writer has copied and not counted, is
`append_pos`. (3) `FlushInv`: the buffer at `length_flushed` has flushed exactly up to it, and
at most one flush is in flight, which starts there; so `length_flushed` moves over bytes that are
on the device. (4) `LengthInv`: promised <= persisted <= being persisted <= `length_xattr` <=
`length_flushed`, each in the order of the queue. (5) `RequestInv`: only the first request of
the queue writes an xattr, and its offset is at most the length it writes. (6) `BufferInv`:
buffers are aligned, `last` is never full, and a buffer wholly below `length_flushed` is full or waits
for a readahead. (7) `ReadInv`: what is left of a read, and of a request for it, lies below
`length_flushed`, and every readahead has a buffer that waits for it alone. Without readers (7) says
nothing; it is there so that the same invariant serves `FileCacheRead`. `IInv` is the conjunction
of all; TLC checks it in `append` and `mixed`, and it is inductive (`Inductive`) with one lemma per action.

`FileCacheExtend` proves, under the same `Discipline`, `FlushesFit`: `Spec => []FlushWithinBlob`, no
flush goes past the end of the blob. That rests on who posts which semaphore: a write that needs a
larger blob waits on the semaphore of its channel, which its syncs use, too, and goes on when it is
posted, whoever posts it. `ExtendInv` (theorem `ExtendAnswers`) says that each post answers the call
that waits. (1) `AnswerInv`: every queued sync request, extension message, resize and metadata write
of an extension belongs to a thread that waits in that very call and was not answered. (2) `OneInv`:
one extension is under way and it is in one place. (3) `SizeInv`: it asks for at least the size
there is and for room for its write. (4) `RoomInv`: hence what was appended, and what the writer
still has to copy, fits the blob. `IInv` is used with it: it has `append_pos` bound what is flushed.

`FileCacheReaders` proves of `FileCacheRead`, for any number of readers, a file of any length, and a
reclaim at any moment,

* `ReadersReadTheFile`: `ReadSpec => []ReadsTheFile`,
* `ReadersDefined`: `ReadSpec => []Defined`,

under `ReadersOnly`: nobody writes, and the device does not fail. `__readahead_done` takes a failed
read for a good one, so the second condition is needed. The invariant is `ReadersInv` (theorem
`ReadersInvariant`): the file is at rest; no call and no request goes past its end; each buffer is empty
and waits for its readahead, or holds its whole piece of the file, the last one its short piece; and for each
buffer that waits there is at most one readahead, which asks for exactly that piece. The last
part makes a readahead that completes late find its buffer: `spdk_file_read` frees only a buffer that
is filled, and `reclaim_cache_buffers` only one that no I/O is in progress for.

`FileCacheReadProofs` proves of `FileCacheRead` with one writer and any number of threads that sync and
read, `InductiveWithReaders`: `ReadSpec => []IInv`, and from it

* `ReadersSeeTheFile`: `ReadSpec => []ReadsTheFile`,
* `SyncIsDurableWithReaders`, `LoadFindsDataWithReaders`, `StaysDefinedWithReaders`,
  `NothingLostWithReaders`, `LengthNeverBackWithReaders`: what `FileCacheDurability` proves of `Spec`, of
  `ReadSpec`,

under `ReadDiscipline`: `Discipline`, threads read only when everything appended is flushed, and the
pool does not run low. Both are needed: `read_dirty` reads at another time and loses bytes, and with a
reclaim the last buffer may go while it is partly filled, see section 6. The argument is that a
step of a reader leaves the file, its metadata, the writer and the flushes alone (`FileLeft`,
`ThreadsLeft`, `QueuesLeft`), and touches only buffers wholly below `length_flushed`
(`BuffersLeft`): it may take such a buffer away or put one there, empty or full. Lemma
`LeftInv` has all of `IInv` but `ReadInv` from these four, and the lemmas of `FileCacheDurability` cover
the other actions. `ReadInv` is kept by the writer because `length_flushed` never goes back.

`CachePoolProofs` proves of `CachePool`, for any number of file systems and files, any size of the
pool, any number of retries and of messages under way, and any order of the steps,

* `PoolTypeCorrect`: `Spec => []TypeOK`,
* `BuffersConserved`: `Spec => []Conserved`,
* `ListComesOutRight`: `Spec => []ListBalanced`,
* `OnlyByItsCause`: `Spec => []Explained`,

with no assumption but those on the constants. `TallyInv` says that the buffers of all files, of the threads
about to insert one, and the pool add up; that there are none without a pool; and that a file that
waits to be freed has none and is in one message. The sum over the files is a cardinality, so that a step
about one file changes it by the buffers of that file. `BalanceInv` adds `ListBalanced`, which is
inductive then: each step changes one term on either side, or the model has stopped. It holds where the
poller runs between an insertion and its message, because it counts the messages in both directions. That the
list itself is the files that have buffers, whenever the ring is empty, follows. `CauseInv` (for `Explained`) has a
part for each order, which holds until that order occurs: without `reload` the message to start the pool comes first and the
one to stop it last (`StartInv`); without `free` no message is about a file that is gone; without
`size` the pool has the size that was set; and the messages about one file take turns in adding and
removing it, starting from what the list is, unless a `poll` has put the list ahead of them (`FileInv`). The theorem says that the orders in the table of section 3 are all there are to exclude.

`FileMetaProofs` proves of `FileMeta` with the listing of `FileList`, for any number of clients, names
and blobs, and a crash between any two callbacks,

* `MetaTypeCorrect`: `ListingSpec => []TypeOK`,
* `MetaStaysDefined`: `ListingSpec => []Defined`,
* `ReturnedLasts`: `ListingSpec => []Served`,
* `DeletedStaysDeleted`: `ListingSpec => []NotResurrected`,
* `CountsAreRight`: `ListingSpec => []RefCounts`,
* `IndexAgrees`: `ListingSpec => []Agreement`,
* `ListingIsComplete`: `ListingSpec => ListingComplete`,

where `ListingComplete` speaks of listings that are not torn, under `Orderly`: calls about one name do not overlap, except opens, which may; only a resize fails; and
no rename replaces a file that is open. The run `rename_open` shows `Served` failing without the
last, and the end of section 6 what the code does without the others. Clients, blobs and the names on
which a rename, a create or a delete works are otherwise free, and any number of calls about
different names is under way at once.

The argument. `MetaInv` (theorem `MetaInductive`, of `Spec` and of `ListingSpec`) says where each call
is and what it may rely upon there (`OpInv`); what a file, its blob, its handles and its open
requests have to do with one another (`FileInv`); that index and files name each other (`NameInv`),
that a blob has at most one file and none is open without one (`BlobInv`); that the xattrs
under way to the device are those in memory and belong to a call that waits for them (`PersistInv`);
and that two calls share a name only if both open it, and never a blob (`ApartInv`). None of
`Served`, `NotResurrected` and `RefCounts` is inductive without these: what a callback does depends on
what the one before it left, and `op` alone does not say. A step works on one file, with its names
and its blobs. `Local` says so, and the lemmas about it have everything about other files, calls and
blobs stay as it is, so that what is left for each action is the file it works on. A load is
different, as it makes all files at once: it needs that no two blobs on the device that are not
marked deleted have one name (`Unique` in `ModeInv`). That is a fact about the device a crash leaves
behind, and lemma `NamesUnique` has it from the calls that the crash interrupted. `AckInv` and `GoneInv` say that no
call under way takes back what another one reported. For the listing, `ListInv` says that, unless it is torn, what it has
shown are names before the current one and that every name there all the time and before the current one
has been shown. `MetaAssumption` has the numbers of clients and of blobs finite, without which
`ref_count` would count nothing, and `ListAssumption` the names ordered, as the tree orders them. TLC checks `MetaInv` in `files`.

`BPlusTreeProofs` proves of `BPlusTree`, for every `MAX_KEY_NUM` from 2 on, every set of names, removable
ones among them, and of files,

* `TreeType`: `Spec => []TypeOK`,
* `TreeAttached`: `Spec => []Attached`, the part of `Linked` about parents and children,
* `TreeBalanced`: `Spec => []Balanced`,
* `FindsEveryName`: `Spec => []FindComplete`, under `0 \notin CondGarbage`: with a 0 the first insert is
  lost, see `BPlusTree_first_name` in section 6.

The argument. None of these holds while a call is pending: after a split the right half is in no
parent, after a merge the parent has a child that is gone. `IInv` (theorem `TreeInvariant`) is therefore
about the heap that the pending call would leave if it found the room it needs: the right half
entered into the parent, however full that is (`PutIntoParent`), or a new root above both
(`PutAbove`), or the entry removed, however few are left (`CutEntry`). Of that heap it says `Good`: there
are a height and a range of names for each node such that children are one level lower and name
their parent, the leaves are the nodes of height 0, the range of a child is that part of its parent's
between two keys, nodes of one level share no name, keys are in order and inside the range
(`WF`), and each leaf has the names of `index` in its range (`Content`). Of the heap as it is, `IInv` says only
that nodes are typed and neither too full nor too empty (`Fill`).

With heights and ranges at hand no fact about the tree needs an induction over it: each is about a
node and its children. The exceptions are the search and `Depth`, recursive functions that are
unfolded along the height: a node of the least height at which the claim fails would have a next
node at which it fails already (`DescentExists`, `DepthProp`, over `LeastNat`: a set of naturals has a
least element). Five changes of a tree are treated once, for any heap: new
entries in a leaf (`LeafPut`, `LeafCut`), a root above (`RootAbove`), a root dropped (`RootBelow`), a node split
between two neighbours (`SplitTree`), two neighbours merged (`MergeTree`). Each function of the code is
then shown to be one of these. A split of a full node whose own parent is full is a split of the
node with one key too many. `distribute_nodes` is a merge and a split elsewhere (`ShiftedTree`). That a
neighbour can spare an entry, and that both have enough afterwards, is arithmetic on `min_keys` and the
capacity that `delete_entry` computes (`SpareKey`). `Good` quantifies over all heights and ranges, which TLC cannot
enumerate; the run `names` checks what follows from it.

Only model-checked: everything under fairness and with `ENABLED` (`SyncReturns`, `ReadReturns`,
`CallReturns`, `ListingReturns`, `Reclaims`); reclaim beside a writer (run `reclaim`); the radix tree of the buffers
(`RadixIsTree`); and of the B+ tree the chain of next pointers (the second half of `Linked`,
`ListedInOrder`, `ImplementsIndex`), whose traversal concatenates the leaves by recursion over the chain.

## 6. What is left out

In the modelled parts: strings, checksums of arguments, traces, statistics, the copying of
payloads, the records and key strings that BP leaks, and `delete_B_plus_tree`, which nothing calls.
A read or write beyond what the bounds name is outside the instance. Integers are
unbounded: offsets are 64 bits wide and never come near their end.

`CachePool` takes the poller and a reclaim of one file as one step each, has no per-core caches of the
mempool (a buffer put back by one core is there for all), and no failure of its creation, which
ends the program. `FileList` says nothing of a listing after the tree has changed
during one of its walks: skips, repetitions and an early end are all possible then, and no lock of the code
excludes the change. `HashTable` does not free the table as a whole.
`FileCache` has a direct write as one request: the code reads the io units first and writes them
back, which for writes of whole io units, the grain of the model, is the same. The unlock at the end of
an extended write, which does not have the lock (N 2705), is modelled, but sections of other threads that
are one step cannot lose their lock to it in between.

Not modelled:

* the bdev glue and its RPCs: callbacks in a fixed order, without state;
* FUSE, except the listing: it passes every call on to N. Its `fsync` and `flush` do nothing, and
  its `truncate` leaves the file open when the truncation fails;
* the free list of a channel and its count of outstanding requests, for which
  `spdk_fs_free_thread_ctx` waits: one lock guards them, and every path frees what it allocates.
  The semaphore of a channel, which is shared by its calls, is in `FileCache`;
* the life cycle of NBFS2 (`NBFS2.c` and the headers of the super blob). Nothing calls its create, delete or
  unload; `main` passes a NULL callback that the first completion calls; and what its
  callbacks compute is undefined at several places: the size of the super blob is never
  initialised, a load takes the pointer to an xattr for its value, a count of bytes is passed as
  one of io units. A model would be of a program that cannot run;
* the test programs, and the vendored SPDK and DPDK, of which only what N calls is modelled,
  marked external in the map. They are by far most of the repository's lines.

Seen while exploring larger instances, with no run of its own: two writers racing on the offset,
for which `SyncDurable` and `LengthBacked` still hold (buffers of 2, clusters of 4, up to 5 units)
while `NoLostBytes`, `FlushWithinBlob` and `SyncReturns` do not;
a sync that runs while a write fills without the lock persists a length for fewer bytes than
`append_pos`, which is why `promised` counts what the request asked for; a reader that
overtakes a writer gets a short last buffer; and a sync that waits for ever when reclaim
freed the buffer it waits for, which the undefined step of `freed_last` precedes. In `mixed`
with `PoolPressure`, a reclaim frees a last buffer that is partly filled and flushed; the next
writes go directly to the blob, as in a file loaded that way, and bytes are lost as in `unaligned`.

Three configurations beside those of the runs show further disagreements of this kind:

| Configuration | Place | What happens |
|---|---|---|
| `FileCache_io_error` (module `FileCache`) | N 2401 | a failed flush moves `length_flushed`, and the sync returns 0 |
| `FileCacheRead_freed_last` (module `FileCacheRead`) | N 2238 | reclaim frees an empty last buffer while an earlier one is dirty; `file->last` dangles |
| `BPlusTree_first_name` (module `BPlusTree`) | BP 519 | the first insert compares no key and decides by an uninitialised variable |

In `FileMeta`, with `Overlap`: a delete that runs between the callbacks of a create, an open or a
close of the same name frees the file under them, and one that runs during an open uses a blob
pointer that is still NULL; a listing then uses a freed file, too. With `Failures` of `"create"` or `"open"`: a create that fails leaves its
file in the index without a blob, and an open with CREATE opens it all the same; a failed open
leaves `ref_count` raised, so that a later open waits for ever; a rename does not look at the outcome
of the open of its blob. A rename of a file onto itself deletes it. After a crash inside a create no
load succeeds.

## 7. Findings

| Run | Place | What happens |
|---|---|---|
| `unaligned` | N 2459 | after direct appends up to a boundary the next ones are cached; `__file_flush` finds no buffer at `length_flushed`, which is behind, and takes all of it for written |
| `read_dirty` | N 2884 | a read to the end of a dirty buffer frees it |
| `rename_open` | N 1484 | a rename onto a name whose file is open: the delete only marks that file, the insert of the renamed one is refused, and the rename returns 0 with the file in no index |
| `truncate` | N 1789 | a truncation leaves `length_xattr` and `length_flushed`; when the file grows again a sync finds `append_pos` behind `length_xattr` and returns at once |
| `chain` | HT 353 | three names of one hash value; deleting the second, the first of the chain, frees the third, too. Likewise a fourth name replaces the third (HT 100) |

## 8. Running it

    tlc -workers 2 -config FileCache_append.cfg FileCacheExtend
    tlc -workers 2 -config FileCacheRead_readers.cfg FileCacheReaders
    tlc -workers 2 -config FileCacheRead_mixed.cfg FileCacheReadProofs
    tlc -workers 2 -config BPlusTree_names.cfg BPlusTree
    tlc -workers 2 -config FileList_files.cfg FileMetaProofs
    tlc -workers 2 -config CachePool_pool.cfg CachePoolProofs
    tlc -workers 2 -config CacheTree_reclaim.cfg CacheTree
    tlapm FileCacheProofs.tla
    tlapm FileCacheDurability.tla
    tlapm FileCacheExtend.tla
    tlapm FileCacheReaders.tla
    tlapm FileCacheReadProofs.tla
    tlapm CachePoolProofs.tla
    tlapm BPlusTreeProofs.tla
    tlapm FileMetaProofs.tla

`PROJECT.json` lists module and configuration of every run, and for each property a mutation
of the specification that breaks it.
