------------------------------ MODULE CachePool ------------------------------
(***************************************************************************)
(* The pool of cache buffers that all files of all file systems share, and   *)
(* the thread cache_pool_mgmt that keeps the list g_caches of the files that *)
(* have buffers (lib/NBFS/NBFS.c).  FileCache and FileCacheRead follow one    *)
(* file in detail; here a file is only how many buffers it holds of each     *)
(* kind, and who is about to insert one.                                     *)
(*                                                                         *)
(* g_caches has no lock of its own.  The users change it by messages to the  *)
(* pool thread; the poller of that thread changes it directly.  Nothing in    *)
(* the code keeps the steps of the users, the messages and the poller in an   *)
(* order in which all of them are defined: raced keeps which of the orders    *)
(* that matter have occurred, and ub stops the model where the program        *)
(* becomes undefined.                                                        *)
(***************************************************************************)
EXTENDS Integers, Sequences, FiniteSets

CONSTANTS
    FileSystems,    \* the loaded file systems that share the pool
    Names,          \* names of files, in each of them
    NULL,           \* no pool, no new size
    Default,        \* BLOBFS_DEFAULT_CACHE_SIZE, in buffers
    Sizes,          \* what spdk_fs_set_cache_size may set, in buffers
    MaxTries,       \* how often cache_insert_buffer tries (100 in the code)
    MaxRing         \* bound: the users wait while so many messages are under way

ASSUME PoolAssumption ==
    /\ Default \in Nat \ {0} /\ Sizes \subseteq Nat \ {0}
    /\ MaxTries \in Nat /\ MaxRing \in Nat
    /\ NULL \notin Nat /\ NULL \notin [writing : BOOLEAN, seen : Nat]
    /\ IsFiniteSet(FileSystems) /\ IsFiniteSet(Names)

VARIABLES
    fs,         \* state of each file system; g_fs_count is how many are in use
    file,       \* the files: life, buffers, flags, and the thread that has the lock
    caches,     \* g_caches
    pool,       \* g_cache_pool: the number of free buffers, or NULL
    made,       \* the number of buffers that g_cache_pool was made with
    size,       \* g_fs_cache_size, in buffers
    setting,    \* the size spdk_fs_set_cache_size is about to store, or NULL
    ring,       \* messages to the pool threads
    th,         \* g_cache_pool_thread
    raced,      \* ghost: the orders that have occurred, see Orders
    ub          \* ghost: the undefined behaviour the program ran into, or "none"

poolVars == <<pool, made, size, setting>>
vars     == <<fs, file, caches, poolVars, ring, th, raced, ub>>

Files   == FileSystems \X Names
FsOf(f) == f[1]

\* A file of which no struct spdk_file exists, and what file_alloc makes of it.
\* tries counts the tries of a thread in cache_insert_buffer that took the lock.
\* late is a thread there with a buffer and without the lock: whether it writes, and
\* how many buffers the tree had when it looked whether it is empty.
NoFile == [life |-> "none", clean |-> 0, dirty |-> 0, ahead |-> 0,
           prio |-> "low", lock |-> FALSE, tries |-> NULL, late |-> NULL]

Running     == ub = "none"
LockFree(f) == Running /\ ~file[f].lock
Buffers(f)  == file[f].clean + file[f].dirty + file[f].ahead
FsCount     == Cardinality({s \in FileSystems : fs[s] # "none"})
Pending(f)  == \E i \in DOMAIN ring : ring[i].file = f

\* Orders of steps that the speed of the threads decides: a load before the pool
\* has stopped; a write before it has started; its size stored after it was made; a
\* file freed during a readahead; a file freed, or dropped from the list by the
\* poller, before a message about it is handled; a tree that changes while a thread
\* without the lock inserts.
Orders == {"reload", "early", "size", "ahead", "free", "poll", "unlocked"}

\* The step is in the given order if cond holds.
Race(order, cond) == raced' = IF cond THEN raced \cup {order} ELSE raced

Msg(fn, f)  == [fn |-> fn, file |-> f, th |-> th]
Send(fn, f) == ring' = Append(ring, Msg(fn, f))

Init ==
    /\ fs = [s \in FileSystems |-> "none"]
    /\ file = [f \in Files |-> NoFile]
    /\ caches = <<>> /\ pool = NULL /\ made = 0
    /\ size = Default /\ setting = NULL
    /\ ring = <<>> /\ th = 0
    /\ raced = {} /\ ub = "none"

-----------------------------------------------------------------------------
(* The first file system starts the pool, the last one stops it.             *)

\* The thread that handles the next messages.  Bound: at most two pool threads live
\* at a time, numbered 0 and 1; the numbers start again when none has work.
NewThread == IF FsCount > 0 THEN th ELSE IF ring = <<>> THEN 0 ELSE 1 - th

\* initialize_global_cache.
Load(s) ==
    /\ Running
    /\ fs[s] = "none"
    /\ \A i \in DOMAIN ring : FsCount = 0 => ring[i].th = th
    /\ Race("reload", FsCount = 0 /\ ring # <<>>)
    /\ fs' = [fs EXCEPT ![s] = "loaded"]
    /\ th' = NewThread
    /\ ring' = IF FsCount = 0
               THEN Append(ring, [fn |-> "start", file |-> NULL, th |-> NewThread])
               ELSE ring
    /\ UNCHANGED <<file, caches, poolVars, ub>>

\* spdk_fs_unload starts; the client has closed its files.
Unload(s) ==
    /\ Running
    /\ fs[s] = "loaded"
    /\ \A f \in Files : FsOf(f) = s => file[f].life # "open"
    /\ fs' = [fs EXCEPT ![s] = "unloading"]
    /\ UNCHANGED <<file, caches, poolVars, ring, th, raced, ub>>

\* free_global_cache: g_fs_count reaches 0.
IsLast == FsCount = 1

\* The end of unload_cb, when every file is freed or left to the pool thread.
Unloaded(s) ==
    /\ Running
    /\ fs[s] = "unloading"
    /\ \A f \in Files : FsOf(f) = s => file[f].life \in {"none", "freeing"}
    /\ fs' = [fs EXCEPT ![s] = "none"]
    /\ IF IsLast THEN Send("stop", NULL) ELSE UNCHANGED ring
    /\ UNCHANGED <<file, caches, poolVars, th, raced, ub>>

\* spdk_fs_set_cache_size: refused once there is a pool; the store comes after.
\* Setting the size it has changes nothing.
SetSizeCheck(n) ==
    /\ Running
    /\ pool = NULL /\ setting = NULL /\ n # size
    /\ setting' = n
    /\ UNCHANGED <<fs, file, caches, pool, made, size, ring, th, raced, ub>>

SetSizeStore ==
    /\ Running
    /\ setting # NULL
    /\ size' = setting /\ setting' = NULL
    /\ Race("size", pool # NULL /\ setting # size)
    /\ UNCHANGED <<fs, file, caches, pool, made, ring, th, ub>>

-----------------------------------------------------------------------------
(* The users of the files and the metadata thread.                           *)

\* What a step leaves alone that is about one file only.
Elsewhere == <<fs, caches, made, size, setting, th>>

\* A file is opened, new or closed before.  Bound: a name has no new file as long
\* as a message or the list refers to the old one.
Open(f) ==
    /\ Running
    /\ fs[FsOf(f)] = "loaded"
    /\ file[f].life \in {"none", "closed"}
    /\ file[f].life = "none" => ~Pending(f) /\ \A i \in DOMAIN caches : caches[i] # f
    /\ file' = [file EXCEPT ![f].life = "open"]
    /\ UNCHANGED <<Elsewhere, pool, ring, raced, ub>>

\* spdk_file_close: what is dirty was synced; a readahead may be under way.
Close(f) ==
    /\ LockFree(f)
    /\ file[f].life = "open" /\ file[f].dirty = 0
    /\ file[f].tries = NULL /\ file[f].late = NULL
    /\ file' = [file EXCEPT ![f].life = "closed"]
    /\ UNCHANGED <<Elsewhere, pool, ring, raced, ub>>

SetPriority(f) ==
    /\ Running
    /\ file[f].life = "open"
    /\ file' = [file EXCEPT ![f].prio = CASE @ = "low" -> "high" [] @ = "high" -> "low" [] OTHER -> @]
    /\ UNCHANGED <<Elsewhere, pool, ring, raced, ub>>

\* What a write or a read makes of open_for_writing.  The priority that a file had
\* before it was written is not kept: it may have been set meanwhile.
PrioOf(f, writing) ==
    CASE writing                            -> {"write"}
      [] ~writing /\ file[f].prio = "write" -> {"low", "high"}
      [] OTHER                              -> {file[f].prio}
Writing(f) == file[f].prio = "write"

\* A write that needs a buffer, or a read that starts a readahead, takes the
\* lock and enters cache_insert_buffer with it.
Insert(f, writing) ==
    /\ LockFree(f)
    /\ file[f].life = "open" /\ file[f].tries = NULL
    /\ Len(ring) < MaxRing
    /\ \E p \in PrioOf(f, writing) :
         file' = [file EXCEPT ![f].prio = p, ![f].lock = TRUE, ![f].tries = 0]
    /\ UNCHANGED <<Elsewhere, pool, ring, raced, ub>>

\* Mutants: the file is announced at every insertion; a buffer is got although
\* there is none.
NeedUpdateAlways(f) == TRUE
HasBufferAlways == TRUE

NeedUpdate(f) == Buffers(f) = 0

HasBuffer == pool # 0

\* spdk_mempool_get; without a pool it dereferences NULL.
Get ==
    /\ HasBuffer
    /\ pool' = IF pool = NULL THEN NULL ELSE pool - 1
    /\ ub' = IF pool = NULL THEN "no_pool" ELSE ub
    /\ Race("early", pool = NULL)

\* What a new buffer is: that of a readahead in progress, that of a write filled at
\* once, or empty, which is as good as flushed.
NewKinds(writing) == IF writing THEN {"dirty", "clean"} ELSE {"ahead"}

\* It gets a buffer, inserts it, and the call unlocks.
GotBuffer(f) ==
    /\ Running
    /\ file[f].tries # NULL /\ file[f].lock
    /\ Get
    /\ \E kind \in NewKinds(Writing(f)) :
         file' = [file EXCEPT ![f][kind] = @ + 1, ![f].lock = FALSE, ![f].tries = NULL]
    /\ IF NeedUpdate(f) THEN Send("add", f) ELSE UNCHANGED ring
    /\ UNCHANGED Elsewhere

\* No buffer: sleep with the lock held and try again, or give up.
NoBuffer(f) ==
    /\ Running
    /\ file[f].tries # NULL
    /\ pool = 0
    /\ file' = IF file[f].tries = MaxTries
               THEN [file EXCEPT ![f].tries = NULL, ![f].lock = FALSE]
               ELSE [file EXCEPT ![f].tries = @ + 1]
    /\ UNCHANGED <<Elsewhere, pool, ring, raced, ub>>

\* A write that extended the blob does not have the lock any more.  It unlocks all
\* the same when it ends, whoever has the lock.
StrayUnlock(f) ==
    /\ Running
    /\ file[f].lock
    /\ file' = [file EXCEPT ![f].lock = FALSE]
    /\ UNCHANGED <<Elsewhere, pool, ring, raced, ub>>

\* A thread without the lock gets a buffer and looks whether the tree is empty.
\* Bound: one such thread of a file at a time.
LateCheck(f, writing, tries) ==
    /\ file[f].late = NULL
    /\ Get
    /\ file' = [file EXCEPT ![f].late = [writing |-> writing, seen |-> Buffers(f)],
                            ![f].tries = tries]
    /\ UNCHANGED <<Elsewhere, ring>>

\* It is a write that extended the blob, or a thread in cache_insert_buffer whose
\* lock was released.
Extended(f) ==
    /\ Running
    /\ file[f].life = "open"
    /\ LateCheck(f, TRUE, file[f].tries)
LostLock(f) ==
    /\ Running
    /\ file[f].tries # NULL /\ ~file[f].lock
    /\ LateCheck(f, Writing(f), NULL)

\* It inserts the buffer, and its call unlocks.
LateInsert(f) ==
    /\ Running
    /\ file[f].late # NULL /\ (file[f].late.seen = 0) = NeedUpdate(f)
    /\ Len(ring) < MaxRing
    /\ \E kind \in NewKinds(file[f].late.writing) :
         file' = [file EXCEPT ![f][kind] = @ + 1, ![f].lock = FALSE, ![f].late = NULL]
    /\ IF file[f].late.seen = 0 THEN Send("add", f) ELSE UNCHANGED ring
    /\ UNCHANGED <<Elsewhere, pool, raced, ub>>

\* Another thread changes the tree meanwhile: the two writes may meet in one node,
\* or the file is announced or not by a check that does not hold any more.  Bound:
\* the model does not follow the program any further.
Overtaken(f) ==
    /\ Running
    /\ file[f].late # NULL /\ file[f].late.seen # Buffers(f)
    /\ ub' = "tree_race" /\ Race("unlocked", TRUE)
    /\ UNCHANGED <<Elsewhere, file, pool, ring>>

\* A write or a read that neither needs nor frees a buffer.
Access(f, writing) ==
    /\ LockFree(f)
    /\ file[f].life = "open" /\ Writing(f) # writing
    /\ \E p \in PrioOf(f, writing) : file' = [file EXCEPT ![f].prio = p]
    /\ UNCHANGED <<Elsewhere, pool, ring, raced, ub>>

\* A write fills the last buffer, which was empty or flushed before.
Fill(f) ==
    /\ LockFree(f)
    /\ file[f].life = "open" /\ file[f].clean > 0
    /\ file' = [file EXCEPT ![f].prio = "write", ![f].clean = @ - 1, ![f].dirty = @ + 1]
    /\ UNCHANGED <<Elsewhere, pool, ring, raced, ub>>

\* Mutant: the buffer is not put back into the pool.
PutNot(n) == pool

\* cache_buffer_free of n buffers.
Put(n) == pool + n

\* A read to the end of a buffer frees it, even one that is not flushed; the
\* last one with a message.
ReadFree(f, kind) ==
    /\ LockFree(f)
    /\ file[f].life = "open" /\ file[f][kind] > 0
    /\ Len(ring) < MaxRing
    /\ \E p \in PrioOf(f, FALSE) : file' = [file EXCEPT ![f].prio = p, ![f][kind] = @ - 1]
    /\ pool' = Put(1)
    /\ IF Buffers(f) = 1 THEN Send("remove", f) ELSE UNCHANGED ring
    /\ UNCHANGED <<Elsewhere, raced, ub>>

\* __file_flush_done and __readahead_done.
Flushed(f) ==
    /\ LockFree(f)
    /\ file[f].dirty > 0
    /\ file' = [file EXCEPT ![f].dirty = @ - 1, ![f].clean = @ + 1]
    /\ UNCHANGED <<Elsewhere, pool, ring, raced, ub>>

ReadAhead(f) ==
    /\ LockFree(f)
    /\ file[f].ahead > 0
    /\ file' = [file EXCEPT ![f].ahead = @ - 1, ![f].clean = @ + 1]
    /\ UNCHANGED <<Elsewhere, pool, ring, raced, ub>>

\* Mutant: a file that has buffers is freed without the pool thread, too.
FreedAtOnceAlways(f) == TRUE

\* file_free of a file without buffers does not ask the pool thread.
FreedAtOnce(f) == Buffers(f) = 0

\* file_free, of a file that is deleted or whose file system is unloaded.  A
\* buffer in use stays in the tree, and the assertion that it is empty fails.
FileFree(f) ==
    /\ LockFree(f)
    /\ file[f].life = "closed"
    /\ IF FreedAtOnce(f)
       THEN /\ file' = [file EXCEPT ![f] = NoFile]
            /\ Race("free", Pending(f))
            /\ UNCHANGED <<pool, ring, ub>>
       ELSE /\ file' = [file EXCEPT ![f].clean = 0, ![f].life = "freeing"]
            /\ pool' = Put(file[f].clean)
            /\ ub' = IF Buffers(f) > file[f].clean THEN "freed_in_use" ELSE ub
            /\ Send("free", f)
            /\ Race("ahead", file[f].ahead > 0)
    /\ UNCHANGED Elsewhere

-----------------------------------------------------------------------------
(* The pool thread: messages.                                                *)

\* The messages of kind fn that are the first of their thread.
Heads(fn) == {i \in DOMAIN ring : ring[i].fn = fn /\ \A j \in 1 .. i - 1 : ring[j].th # ring[i].th}

\* A sequence without its element i.
Without(s, i) == SubSeq(s, 1, i - 1) \o SubSeq(s, i + 1, Len(s))

\* The thread takes the message from its ring.
Received(i) == Running /\ ring' = Without(ring, i)

\* __start_cache_pool_mgmt.
Start ==
    \E i \in Heads("start") :
      /\ Received(i)
      /\ IF pool = NULL THEN pool' = size /\ made' = size /\ UNCHANGED ub
                        ELSE ub' = "two_pools" /\ UNCHANGED <<pool, made>>
      /\ UNCHANGED <<fs, file, caches, size, setting, th, raced>>

\* __stop_cache_pool_mgmt: its two assertions, and the thread it ends is the
\* one g_cache_pool_thread names by then.
Stop ==
    \E i \in Heads("stop") :
      /\ Received(i)
      /\ pool' = NULL
      /\ ub' = CASE pool = NULL -> "no_pool"
                 [] pool # NULL /\ pool # size -> "lost_buffers"
                 [] pool = size /\ ring[i].th # th -> "wrong_thread"
                 [] OTHER -> ub
      /\ UNCHANGED <<fs, file, caches, made, size, setting, th, raced>>

Places(list, f) == {i \in DOMAIN list : list[i] = f}
Listed(f)       == Places(caches, f) # {}

\* TAILQ_REMOVE.
Remove(list, f) ==
    IF Places(list, f) = {} THEN list ELSE Without(list, CHOOSE i \in Places(list, f) : TRUE)

\* _add_file_to_cache_pool.
AddFile ==
    \E i \in Heads("add") :
      /\ Received(i)
      /\ caches' = Append(caches, ring[i].file)
      /\ ub' = CASE file[ring[i].file].life = "none" -> "freed_file"
                 [] file[ring[i].file].life # "none" /\ Listed(ring[i].file) -> "listed_twice"
                 [] OTHER -> ub
      /\ UNCHANGED <<fs, file, poolVars, th, raced>>

\* TAILQ_REMOVE by a message: of a file that is gone or not in the list it is
\* undefined.
Unlist(f) ==
    /\ caches' = Remove(caches, f)
    /\ ub' = CASE file[f].life = "none" -> "freed_file"
               [] file[f].life # "none" /\ ~Listed(f) -> "not_listed"
               [] OTHER -> ub

\* _remove_file_from_cache_pool.
RemoveFile ==
    \E i \in Heads("remove") :
      /\ Received(i)
      /\ Unlist(ring[i].file)
      /\ UNCHANGED <<fs, file, poolVars, th, raced>>

\* _file_free.
FreeFile ==
    \E i \in Heads("free") :
      /\ Received(i)
      /\ Unlist(ring[i].file)
      /\ file' = [file EXCEPT ![ring[i].file] = NoFile]
      /\ UNCHANGED <<fs, poolVars, th, raced>>

-----------------------------------------------------------------------------
(* The pool thread: the poller.                                              *)

\* What a pass of the poller changes, and whether it reclaimed a file.
Now == [caches |-> caches, file |-> file, pool |-> pool, hit |-> FALSE]

\* blobfs_cache_pool_need_reclaim.
NeedReclaim(st) == st.pool <= size \div 5

\* Mutant: a file that keeps buffers stays where it is.
RequeueInPlace(list, f) == list

\* A file that keeps buffers goes to the end of the list.
Requeue(list, f) == Append(Remove(list, f), f)

\* reclaim_cache_buffers of file f, whose lock is free.
ReclaimFile(st, f) ==
    LET kept == st.file[f].dirty + st.file[f].ahead
    IN  [caches |-> IF kept > 0 THEN Requeue(st.caches, f) ELSE Remove(st.caches, f),
         file   |-> [st.file EXCEPT ![f].clean = 0],
         pool   |-> st.pool + st.file[f].clean,
         hit    |-> TRUE]

\* One pass: the first file of the list that is wanted, can be locked and has
\* buffers.  That it has none to give counts as success.
Reclaimable(st, i) ==
    LET f == st.file[st.caches[i]] IN ~f.lock /\ f.clean + f.dirty + f.ahead > 0
Pass(st, wanted) ==
    LET hits == {i \in DOMAIN st.caches : st.caches[i] \in wanted /\ Reclaimable(st, i)}
    IN  IF hits = {} THEN [st EXCEPT !.hit = FALSE]
        ELSE ReclaimFile(st, st.caches[CHOOSE i \in hits : \A j \in hits : i <= j])

\* The first two passes end the poll when what they reclaimed is enough.
Enough(st) == st.hit /\ ~NeedReclaim(st)

NotWriting == {f \in Files : ~Writing(f)}
LowPrio    == {f \in Files : file[f].prio = "low"}

Poll ==
    /\ Running
    /\ pool # NULL
    /\ NeedReclaim(Now)
    /\ \E one \in {Pass(Now, LowPrio)} :
       \E two \in {IF Enough(one) THEN one ELSE Pass(one, NotWriting)} :
       \E three \in {IF Enough(one) \/ Enough(two) THEN two ELSE Pass(two, Files)} :
         caches' = three.caches /\ file' = three.file /\ pool' = three.pool
    /\ Race("poll", \E f \in Files : Listed(f) /\ ~Listed(f)' /\ Pending(f))
    /\ ub' = IF \E i \in DOMAIN caches : file[caches[i]].life = "none" THEN "freed_file" ELSE ub
    /\ UNCHANGED <<fs, made, size, setting, ring, th>>

-----------------------------------------------------------------------------
FsStep(s) == Load(s) \/ Unload(s) \/ Unloaded(s)

Inserting(f) ==
    \/ GotBuffer(f) \/ NoBuffer(f)
    \/ Extended(f) \/ LostLock(f) \/ LateInsert(f) \/ Overtaken(f)

FileStep(f) ==
    \/ Open(f) \/ Close(f) \/ SetPriority(f) \/ FileFree(f)
    \/ \E writing \in BOOLEAN : Insert(f, writing) \/ Access(f, writing)
    \/ Inserting(f) \/ StrayUnlock(f)
    \/ \E kind \in {"clean", "dirty"} : ReadFree(f, kind)
    \/ Fill(f) \/ Flushed(f) \/ ReadAhead(f)

Handle == Start \/ Stop \/ AddFile \/ RemoveFile \/ FreeFile

Next ==
    \/ \E s \in FileSystems : FsStep(s)
    \/ \E n \in Sizes : SetSizeCheck(n)
    \/ SetSizeStore
    \/ \E f \in Files : FileStep(f)
    \/ Handle \/ Poll

Spec == Init /\ [][Next]_vars

\* The pool thread polls its ring and its poller.
FairSpec ==
    /\ Spec
    /\ WF_vars(Handle) /\ SF_vars(Poll)

-----------------------------------------------------------------------------
(* Properties.                                                               *)

Message == [fn : {"add", "remove", "free"}, file : Files, th : {0, 1}]
             \cup [fn : {"start", "stop"}, file : {NULL}, th : {0, 1}]

\* Type correctness of the pool and of the files: no count of buffers falls
\* below zero.
TypeOK ==
    /\ fs \in [FileSystems -> {"none", "loaded", "unloading"}]
    /\ file \in [Files -> [life : {"none", "open", "closed", "freeing"},
                           clean : Nat, dirty : Nat, ahead : Nat,
                           prio : {"low", "high", "write"}, lock : BOOLEAN,
                           tries : Nat \cup {NULL},
                           late : [writing : BOOLEAN, seen : Nat] \cup {NULL}]]
    /\ caches \in Seq(Files)
    /\ pool \in Nat \cup {NULL} /\ made \in Nat /\ size \in Nat /\ setting \in Nat \cup {NULL}
    /\ ring \in Seq(Message) /\ th \in {0, 1}
    /\ raced \subseteq Orders

\* The messages under way that put f into the list, and those that take it out.
Adds(f)  == {i \in DOMAIN ring : ring[i].fn = "add" /\ ring[i].file = f}
Drops(f) == {i \in DOMAIN ring : ring[i].fn \in {"remove", "free"} /\ ring[i].file = f}

\* However inserts, frees, reclaims and the messages about them interleave: as long
\* as the program is defined, list and messages together put a file into the list
\* once when it has buffers, and not at all when it has none, so that no file whose
\* buffers could be reclaimed is forgotten.  The poller may be anywhere between the
\* messages, and an insertion may be without the lock
\* (cache_insert_buffer, spdk_file_read, reclaim_cache_buffers, file_free).
ListBalanced ==
    Running =>
      \A f \in Files :
        Cardinality(Places(caches, f)) + Cardinality(Adds(f)) =
          Cardinality(Drops(f)) + (IF Buffers(f) > 0 THEN 1 ELSE 0)

\* Every buffer that the pool was made with is free, in the tree of one file, or in
\* the hands of a thread that is about to insert it; none is lost through reads,
\* reclaims, deletions and give-ups, in whatever order (__stop_cache_pool_mgmt).
Taken(f)  == Buffers(f) + (IF file[f].late # NULL THEN 1 ELSE 0)
InUse     == UNION {{f} \X (1 .. Taken(f)) : f \in Files}
Conserved == pool # NULL => pool + Cardinality(InUse) = made

\* The orders that can lead to an undefined behaviour.
Causes ==
    [no_pool |-> {"early", "reload"}, two_pools |-> {"reload"}, wrong_thread |-> {"reload"},
     lost_buffers |-> {"size", "reload"}, freed_in_use |-> {"ahead"},
     freed_file |-> {"free"}, listed_twice |-> {},
     not_listed |-> {"poll"}, tree_race |-> {"unlocked"}]

\* The program becomes undefined only by the orders listed, and each undefined
\* behaviour only by its own: a message for a file that is gone, a file put into the
\* list twice or taken out when it is not there, a pool started twice or stopped with
\* buffers missing, a file freed with a buffer in use.
Explained == ~Running => Causes[ub] \cap raced # {}

\* Under pressure, clean buffers that nobody uses are reclaimed, whatever
\* flags the file was left with and however busy the files before it in the
\* list are (_blobfs_cache_pool_reclaim puts a file that keeps buffers last).
Reclaims ==
    \A f \in Files :
      (pool = 0 /\ file[f].life = "closed" /\ file[f].clean > 0)
        ~> (pool # 0 \/ file[f].life # "closed" \/ file[f].clean = 0
              \/ ~Running)
=============================================================================
