------------------------------ MODULE FileCache ------------------------------
(***************************************************************************)
(* The append path of one open file (lib/NBFS/NBFS.c): spdk_file_write and   *)
(* spdk_file_sync on the user threads, flushing, syncing, extending and      *)
(* direct writing on the metadata thread.  FileCacheRead adds the readers    *)
(* and the reclaim of buffers.                                              *)
(*                                                                         *)
(* A byte is identified by its offset.  The file is append-only, so every   *)
(* offset is written once and what matters of a byte is where it is: in a   *)
(* cache buffer, on the device, or lost.  One unit of offset is one io unit *)
(* of the blobstore.  A critical section of file->lock is one step, except  *)
(* the loops of a write and of a read, which hold the variable lock (or,    *)
(* after a blob extension, go on without it, as the code does).             *)
(***************************************************************************)
EXTENDS Integers, Sequences, FiniteSets

CONSTANTS
    Threads,        \* user threads, each with its own spdk_fs_thread_ctx
    Writers,        \* the threads that append to the file
    NULL,           \* the null pointer
    BufSize,        \* CACHE_BUFFER_SIZE in io units
    ClusterSize,    \* cluster size of the blobstore in io units
    InitLens,       \* the lengths the file may have when it is opened
    MaxLen,         \* bound: no write is called that takes append_pos past it
    WriteSizes,     \* lengths of the writes the client makes
    Failures        \* what may fail: see MayFail

ASSUME SizeAssumption ==
    /\ BufSize \in Nat \ {0}
    /\ ClusterSize \in Nat \ {0}
    /\ InitLens \subseteq Nat
    /\ MaxLen \in Nat
    /\ WriteSizes \subseteq Nat \ {0}

ASSUME ThreadAssumption ==
    /\ Writers \subseteq Threads
    /\ NULL \notin Nat
    /\ NULL \notin Threads
    /\ Failures \subseteq {"request", "buffer", "resize", "io"}

VARIABLES
    append_pos, length, length_flushed, length_xattr,   \* struct spdk_file
    seq_byte_count,     \* file->seq_byte_count, which only reads change
    next_seq_offset,    \* file->next_seq_offset, which only reads change
    last,           \* file->last: offset of a buffer, or NULL
    tree,           \* file->tree: the cache buffers, by offset
    sync_requests,  \* file->sync_requests
    lock,           \* file->lock, when it is held across steps
    thread,         \* the user threads: where each is in its call
    sem,            \* channel->sem of each thread
    mdq,            \* messages sent to the metadata thread, in order
    cont,           \* what the running handler of the metadata thread has left
    io,             \* data I/Os the device has not completed
    disk,           \* offsets whose byte is on the device
    persists,       \* spdk_blob_sync_md calls not completed, in order
    resizing,       \* the spdk_blob_resize in progress, or NULL
    blob_size,      \* clusters of the blob, in io units
    xattr,          \* "length" xattr of the blob, in memory
    disk_len,       \* "length" xattr on the device
    promised,       \* ghost: a sync that covers the bytes below it has returned 0
    stale,          \* ghost: a reader or a buffer got bytes that are not the file's
    ub              \* ghost: the undefined behaviour the program ran into, or "none"

sizeVars  == <<append_pos, length>>
flushVars == <<length_flushed, length_xattr, sync_requests>>
cacheVars == <<last, tree>>
userVars  == <<lock, thread, sem>>
mdVars    == <<mdq, cont>>
dataVars  == <<io, disk>>
metaVars  == <<persists, resizing, blob_size, xattr>>
durVars   == <<disk_len, promised>>
seqVars   == <<seq_byte_count, next_seq_offset>>
readVars  == <<seqVars, stale>>
vars      == <<sizeVars, flushVars, cacheVars, userVars, mdVars, dataVars, metaVars,
               durVars, ub, readVars>>

-----------------------------------------------------------------------------
Min2(a, b) == IF a <= b THEN a ELSE b
Max2(a, b) == IF a >= b THEN a ELSE b

\* The offsets of the len bytes from off on.
Bytes(off, len) == off .. (off + len - 1)

\* Mutant: rounds down to whole clusters.
BytesToClustersDown(len) == len - (len % ClusterSize)

\* __bytes_to_clusters, in io units: the end of the cluster the last byte is in.
BytesToClusters(len) == len + ((-len) % ClusterSize)

\* What the environment may deny: a request of the channel, a buffer of the
\* pool, room on the device, an I/O.
MayFail(what) == what \in Failures

\* A cache buffer as cache_insert_buffer returns it.
EmptyBuffer == [filled |-> 0, flushed |-> 0, in_progress |-> FALSE]

\* tree_find_buffer: the buffer whose range holds the offset, or NULL.
TreeFind(off) ==
    LET hit == {b \in DOMAIN tree : b <= off /\ off < b + BufSize}
    IN  IF hit = {} THEN NULL ELSE CHOOSE b \in hit : TRUE

\* tree_insert_buffer.
Put(t, b, buf) == [c \in DOMAIN t \cup {b} |-> IF c = b THEN buf ELSE t[c]]

\* A thread outside any call, and the return of a call.
Idle == [pc |-> "idle", off |-> 0, rem |-> 0, copy |-> 0, last |-> NULL,
         filled |-> FALSE, subs |-> 0, err |-> FALSE]
Return(t) == thread' = [thread EXCEPT ![t] = Idle]

\* __wake_caller: the outcome is left with the caller and its semaphore posted.
WakeCaller(t)  == sem' = [sem EXCEPT ![t] = @ + 1] /\ UNCHANGED thread
WakeFailed(t) ==
    /\ sem' = [sem EXCEPT ![t] = @ + 1]
    /\ thread' = [thread EXCEPT ![t].err = TRUE]

\* Mutant: the caller does not wait.
SemWaitAtOnce(t) == sem' = [sem EXCEPT ![t] = @ - 1]

\* sem_wait.
SemWait(t) == sem[t] > 0 /\ sem' = [sem EXCEPT ![t] = @ - 1]

\* The program is still defined; the lock can be taken; the metadata thread is
\* between two handlers.  Not modelled: an extended write unlocks at its end what it
\* did not lock (EndWrite), which frees a section held over several steps here, but
\* lets nobody into a section that is one step.
Running  == ub = "none"
LockFree == Running /\ lock = NULL
MdIdle   == Running /\ cont = <<>>

-----------------------------------------------------------------------------
(* The file as iter_cb (or, when its length is 0, a create) leaves it.       *)

InitFile(len) ==
    /\ append_pos = len /\ length = len
    /\ length_flushed = len /\ length_xattr = len /\ sync_requests = <<>>
    /\ last = NULL /\ tree = [b \in {} |-> EmptyBuffer]
    /\ lock = NULL
    /\ thread = [t \in Threads |-> Idle]
    /\ sem = [t \in Threads |-> 0]
    /\ mdq = <<>> /\ cont = <<>>
    /\ io = {} /\ disk = Bytes(0, len)
    /\ persists = <<>> /\ resizing = NULL
    /\ blob_size = BytesToClusters(Max2(len, 1))
    /\ xattr = len /\ disk_len = len /\ promised = len
    /\ seq_byte_count = 0 /\ next_seq_offset = 0
    /\ stale = FALSE /\ ub = "none"

Init == \E len \in InitLens : InitFile(len)

-----------------------------------------------------------------------------
(* spdk_file_write.  A write of length 0 and one whose offset is not         *)
(* append_pos return at once and change nothing.                             *)

\* The offset is compared with append_pos before the lock is taken.
WriteCall(t, n) ==
    /\ Running
    /\ thread[t].pc = "idle"
    /\ append_pos + n <= MaxLen
    /\ thread' = [thread EXCEPT ![t] =
                    [Idle EXCEPT !.pc = "write", !.off = append_pos, !.rem = n]]
    /\ UNCHANGED <<sizeVars, flushVars, cacheVars, lock, sem, mdVars, dataVars, metaVars,
                   durVars, ub, readVars>>

\* Mutant: the new last buffer is not inserted into the tree.
TreeWithoutLast == tree

\* The tree with an empty buffer at append_pos.
TreeWithLast == Put(tree, append_pos, EmptyBuffer)

\* Under the lock: a buffer is appended when there is no last one and the
\* file ends on a buffer boundary, unless the pool has none to give.
HaveLast ==
    \/ last # NULL /\ UNCHANGED cacheVars
    \/ /\ last = NULL /\ append_pos % BufSize = 0
       /\ last' = append_pos /\ tree' = TreeWithLast
NoLast == last = NULL /\ (append_pos % BufSize # 0 \/ MayFail("buffer"))

\* __send_rw_from_file: the message that has the metadata thread read or write.
RwMsg(op, t, off, len) == [fn |-> op, t |-> t, off |-> off, len |-> len]

\* No last buffer: append_pos moves and the data is sent to the device directly.
\* When no request is left, the semaphore is posted although nobody waits.
WriteDirect(t) ==
    /\ LockFree
    /\ thread[t].pc = "write"
    /\ NoLast
    /\ append_pos' = append_pos + thread[t].rem
    /\ \/ /\ mdq' = Append(mdq, RwMsg("write", t, thread[t].off, thread[t].rem))
          /\ thread' = [thread EXCEPT ![t].pc = "direct"]
          /\ UNCHANGED sem
       \/ /\ MayFail("request")
          /\ sem' = [sem EXCEPT ![t] = @ + 1]
          /\ Return(t)
          /\ UNCHANGED mdq
    /\ UNCHANGED <<length, flushVars, cacheVars, lock, cont, dataVars, metaVars, durVars,
                   ub, readVars>>

\* The write does not fit the blob: unlock, and have the blob extended.
WriteExtend(t) ==
    /\ LockFree
    /\ thread[t].pc = "write"
    /\ HaveLast
    /\ thread[t].off + thread[t].rem > blob_size
    /\ mdq' = Append(mdq, [fn |-> "extend", t |-> t,
                           size |-> BytesToClusters(thread[t].off + thread[t].rem)])
    /\ thread' = [thread EXCEPT ![t].pc = "extend"]
    /\ UNCHANGED <<sizeVars, flushVars, lock, sem, cont, dataVars, metaVars, durVars, ub, readVars>>

\* The write fits: the lock is kept while the buffers are filled.
WriteLocked(t) ==
    /\ LockFree
    /\ thread[t].pc = "write"
    /\ thread[t].off + thread[t].rem <= blob_size
    /\ HaveLast
    /\ \/ lock' = t /\ thread' = [thread EXCEPT ![t].pc = "copy", ![t].last = last']
       \/ MayFail("request") /\ Return(t) /\ UNCHANGED lock
    /\ UNCHANGED <<sizeVars, flushVars, sem, mdVars, dataVars, metaVars, durVars, ub, readVars>>

\* The extension is done: the write goes on with file->last, without the lock,
\* which its error return releases all the same.
ExtendReturn(t) ==
    /\ Running
    /\ thread[t].pc = "extend"
    /\ SemWait(t)
    /\ \/ thread[t].err /\ Return(t) /\ UNCHANGED <<lock, ub>>
       \/ ~thread[t].err /\ MayFail("request") /\ lock' = NULL /\ Return(t) /\ UNCHANGED ub
       \/ /\ ~thread[t].err
          /\ thread' = [thread EXCEPT ![t].pc = "copy", ![t].last = last]
          /\ ub' = IF last = NULL THEN "null_last" ELSE ub
          /\ UNCHANGED lock
    /\ UNCHANGED <<sizeVars, flushVars, cacheVars, mdVars, dataVars, metaVars, durVars, readVars>>

\* One turn of the fill loop, in the two halves another thread can see apart
\* when the lock is not held: append_pos and length first ...
Copy(t) ==
    /\ Running
    /\ thread[t].pc = "copy"
    /\ thread[t].last \in DOMAIN tree
    /\ LET copy == Min2(BufSize - tree[thread[t].last].filled, thread[t].rem) IN
         /\ append_pos' = append_pos + copy
         /\ length' = Max2(length, append_pos + copy)
         /\ thread' = [thread EXCEPT ![t].pc = "fill", ![t].copy = copy, ![t].rem = @ - copy]
    /\ UNCHANGED <<flushVars, cacheVars, lock, sem, mdVars, dataVars, metaVars, durVars,
                   ub, readVars>>

\* Mutant: bytes_filled is not advanced by what was copied.
BytesFilledStuck(t) == tree[thread[t].last].filled

\* ... then bytes_filled.
BytesFilled(t) == tree[thread[t].last].filled + thread[t].copy
Filled(t)      == [tree EXCEPT ![thread[t].last].filled = BytesFilled(t)]

\* The write returns; the unlock releases the lock whoever holds it.
EndWrite(t, filled) ==
    /\ lock' = NULL
    /\ mdq' = IF filled THEN Append(mdq, [fn |-> "flush"]) ELSE mdq
    /\ Return(t)

FillPart(t) ==
    /\ Running
    /\ thread[t].pc = "fill"
    /\ thread[t].last \in DOMAIN tree
    /\ BytesFilled(t) < BufSize
    /\ tree' = Filled(t)
    /\ EndWrite(t, thread[t].filled)
    /\ UNCHANGED <<sizeVars, flushVars, last, sem, cont, dataVars, metaVars, durVars, ub, readVars>>

\* A full buffer is followed by a new last one; without one the write fails
\* and no flush is sent.
FillWhole(t) ==
    /\ Running
    /\ thread[t].pc = "fill"
    /\ thread[t].last \in DOMAIN tree
    /\ BytesFilled(t) = BufSize
    /\ append_pos % BufSize = 0 /\ append_pos \notin DOMAIN tree
    /\ \/ MayFail("buffer") /\ tree' = Filled(t) /\ EndWrite(t, FALSE) /\ UNCHANGED last
       \/ /\ tree' = Put(Filled(t), append_pos, EmptyBuffer)
          /\ last' = append_pos
          /\ \/ thread[t].rem = 0 /\ EndWrite(t, TRUE)
             \/ /\ thread[t].rem > 0
                /\ thread' = [thread EXCEPT ![t].pc = "copy", ![t].filled = TRUE,
                                            ![t].last = append_pos]
                /\ UNCHANGED <<lock, mdq>>
    /\ UNCHANGED <<sizeVars, flushVars, sem, cont, dataVars, metaVars, durVars, ub, readVars>>

\* The local pointer last names a buffer that was freed meanwhile, the buffer
\* is overrun, or the new one fails an assertion of cache_append_buffer or
\* tree_insert_buffer.
FillUndefined(t) ==
    /\ Running
    /\ \/ /\ thread[t].pc \in {"copy", "fill"}
          /\ thread[t].last \notin DOMAIN tree
          /\ ub' = "freed_last"
       \/ /\ thread[t].pc = "fill"
          /\ thread[t].last \in DOMAIN tree
          /\ \/ BytesFilled(t) > BufSize
             \/ /\ BytesFilled(t) = BufSize
                /\ append_pos % BufSize # 0 \/ append_pos \in DOMAIN tree
          /\ ub' = "bad_append"
    /\ UNCHANGED <<sizeVars, flushVars, cacheVars, userVars, mdVars, dataVars, metaVars, durVars,
                   readVars>>

\* A direct write is over.
DirectReturn(t) ==
    /\ Running
    /\ thread[t].pc = "direct"
    /\ SemWait(t)
    /\ Return(t)
    /\ UNCHANGED <<sizeVars, flushVars, cacheVars, lock, mdVars, dataVars, metaVars, durVars,
                   ub, readVars>>

-----------------------------------------------------------------------------
(* spdk_file_sync.  When no request is left it fails and changes nothing.    *)

\* Everything is in the xattr already: return 0 at once.
SyncNothing(t) ==
    /\ LockFree
    /\ thread[t].pc = "idle"
    /\ append_pos <= length_xattr
    /\ promised' = Max2(promised, append_pos)
    /\ UNCHANGED <<sizeVars, flushVars, cacheVars, userVars, mdVars, dataVars, metaVars,
                   disk_len, ub, readVars>>

\* Queue a request for the present end of the file and have it flushed.
SyncCall(t) ==
    /\ LockFree
    /\ thread[t].pc = "idle"
    /\ append_pos > length_xattr
    /\ sync_requests' = Append(sync_requests, [t |-> t, offset |-> append_pos,
                                               xattr_in_progress |-> FALSE, length |-> 0])
    /\ mdq' = Append(mdq, [fn |-> "flush"])
    /\ thread' = [thread EXCEPT ![t] = [Idle EXCEPT !.pc = "sync"]]
    /\ UNCHANGED <<sizeVars, length_flushed, length_xattr, cacheVars, lock, sem, cont,
                   dataVars, metaVars, durVars, ub, readVars>>

SyncReturn(t) ==
    /\ Running
    /\ thread[t].pc = "sync"
    /\ SemWait(t)
    /\ Return(t)
    /\ UNCHANGED <<sizeVars, flushVars, cacheVars, lock, mdVars, dataVars, metaVars, durVars,
                   ub, readVars>>

-----------------------------------------------------------------------------
(* The metadata thread: flushing and syncing.  A handler that goes on after   *)
(* it has released the lock leaves the rest of its work in cont.             *)

\* Mutant: what is left to do after a handler is forgotten.
ThenForget(more) == cont' = more

\* Handler h runs: as what is left of the handler before, or as a message.
Runs(h) ==
    /\ LockFree
    /\ \/ cont # <<>> /\ Head(cont) = h /\ UNCHANGED mdq
       \/ cont = <<>> /\ mdq # <<>> /\ Head(mdq).fn = h /\ mdq' = Tail(mdq)

\* After h, the handlers in more run, then what was left already.
Then(more) == cont' = more \o (IF cont = <<>> THEN <<>> ELSE Tail(cont))

\* Mutant: the flush looks at the end of the file instead of at length_flushed.
FlushNextAtEnd == TreeFind(append_pos)

\* __file_flush looks at the buffer that holds the byte at length_flushed.
FlushNext == TreeFind(length_flushed)

\* It is being flushed already, or is partial and no one waits for a sync.
FlushLater ==
    /\ Runs("flush")
    /\ FlushNext # NULL
    /\ \/ tree[FlushNext].in_progress
       \/ tree[FlushNext].filled < BufSize /\ sync_requests = <<>>
    /\ Then(<<>>)
    /\ UNCHANGED <<sizeVars, flushVars, cacheVars, userVars, dataVars, metaVars, durVars,
                   ub, readVars>>

\* There is none: all data is taken to have been written to disk directly.
FlushNoBuffer ==
    /\ Runs("flush")
    /\ FlushNext = NULL
    /\ length_flushed' = append_pos
    /\ Then(<<"check">>)
    /\ UNCHANGED <<sizeVars, length_xattr, sync_requests, cacheVars, userVars, dataVars,
                   metaVars, durVars, ub, readVars>>

Flushable ==
    /\ FlushNext # NULL
    /\ ~tree[FlushNext].in_progress
    /\ tree[FlushNext].filled >= BufSize \/ sync_requests # <<>>

\* All its bytes are flushed: only the sync requests are left to look at.
FlushNothing ==
    /\ Runs("flush")
    /\ Flushable
    /\ tree[FlushNext].filled = tree[FlushNext].flushed
    /\ Then(<<"check">>)
    /\ UNCHANGED <<sizeVars, flushVars, cacheVars, userVars, dataVars, metaVars, durVars,
                   ub, readVars>>

\* Write its unflushed bytes.
FlushWrite ==
    /\ Runs("flush")
    /\ Flushable
    /\ tree[FlushNext].filled # tree[FlushNext].flushed
    /\ tree' = [tree EXCEPT ![FlushNext].in_progress = TRUE]
    /\ io' = io \cup {[op |-> "flush", buf |-> FlushNext,
                       off |-> FlushNext + tree[FlushNext].flushed,
                       len |-> tree[FlushNext].filled - tree[FlushNext].flushed]}
    /\ Then(<<>>)
    /\ UNCHANGED <<sizeVars, flushVars, last, userVars, disk, metaVars, durVars, ub, readVars>>

\* The device has written the bytes.
Written(off, len) == disk' = disk \cup Bytes(off, len)

\* __file_flush_done: the outcome of the write is not looked at.
FlushDone(o) ==
    /\ MdIdle /\ LockFree
    /\ o.op = "flush"
    /\ io' = io \ {o}
    /\ Written(o.off, o.len) \/ (MayFail("io") /\ UNCHANGED disk)
    /\ IF o.buf \in DOMAIN tree
       THEN /\ tree' = [tree EXCEPT ![o.buf].in_progress = FALSE,
                                    ![o.buf].flushed = @ + o.len]
            /\ length_flushed' = length_flushed + o.len
            /\ length' = Max2(length, length_flushed + o.len)
            /\ cont' = <<"check", "flush">>
            /\ UNCHANGED ub
       ELSE ub' = "freed_flush" /\ UNCHANGED <<tree, length_flushed, length, cont>>
    /\ UNCHANGED <<append_pos, length_xattr, sync_requests, last, userVars, mdq, metaVars, durVars,
                   readVars>>

\* Mutants: a request counts as satisfied once its bytes are in the cache; any
\* satisfied request is taken, not the first.
SatisfiedCached == {i \in DOMAIN sync_requests : sync_requests[i].offset <= append_pos}
IsAnySatisfied(i) == sync_requests[i].offset <= length_flushed

\* __check_sync_reqs: the first request that is flushed far enough, unless its
\* xattr is being written already.
Satisfied == {i \in DOMAIN sync_requests : sync_requests[i].offset <= length_flushed}
IsFirstSatisfied(i) == i \in Satisfied /\ \A j \in Satisfied : i <= j

CheckSyncReqs ==
    /\ Runs("check")
    /\ Then(<<>>)
    /\ \/ /\ \A i \in Satisfied : IsFirstSatisfied(i) => sync_requests[i].xattr_in_progress
          /\ UNCHANGED <<sync_requests, xattr, persists>>
       \/ \E i \in Satisfied :
            /\ IsFirstSatisfied(i) /\ ~sync_requests[i].xattr_in_progress
            /\ sync_requests' = [sync_requests EXCEPT ![i].xattr_in_progress = TRUE,
                                                      ![i].length = length_flushed]
            /\ xattr' = length_flushed
            /\ persists' = Append(persists, [op |-> "sync", val |-> length_flushed])
    /\ UNCHANGED <<sizeVars, length_flushed, length_xattr, cacheVars, userVars, dataVars,
                   resizing, blob_size, durVars, ub, readVars>>

\* The write of the metadata for op is over.
PersistOver(op) ==
    /\ MdIdle
    /\ persists # <<>> /\ Head(persists).op = op
    /\ persists' = Tail(persists)

\* The length that was in the xattr when it was started is on the device.
LengthPersisted == disk_len' = Head(persists).val

\* TAILQ_REMOVE from file->sync_requests.
RemoveRequest(i) ==
    SubSeq(sync_requests, 1, i - 1) \o SubSeq(sync_requests, i + 1, Len(sync_requests))

\* __file_cache_finish_sync: length_xattr moves whatever the outcome was.
FinishSync ==
    /\ LockFree
    /\ PersistOver("sync")
    /\ \E i \in DOMAIN sync_requests :
         /\ sync_requests[i].xattr_in_progress
         /\ length_xattr' = sync_requests[i].length
         /\ sync_requests' = RemoveRequest(i)
         /\ \/ /\ LengthPersisted
               /\ WakeCaller(sync_requests[i].t)
               /\ promised' = Max2(promised, sync_requests[i].offset)
            \/ /\ MayFail("io")
               /\ WakeFailed(sync_requests[i].t)
               /\ UNCHANGED <<disk_len, promised>>
    /\ cont' = <<"check">>
    /\ UNCHANGED <<sizeVars, length_flushed, cacheVars, lock, mdq, dataVars, resizing,
                   blob_size, xattr, ub, readVars>>

-----------------------------------------------------------------------------
(* The metadata thread: resizing the blob, for __file_extend_blob and for     *)
(* the truncation that a direct write past the end starts with.              *)

Receives(fn) ==
    /\ MdIdle
    /\ mdq # <<>> /\ Head(mdq).fn = fn
    /\ mdq' = Tail(mdq)

\* __file_extend_resize_cb.
ExtendResized(r) ==
    /\ persists' = Append(persists, [op |-> "extend", t |-> r.t, val |-> xattr])
    /\ UNCHANGED <<sizeVars, xattr>>

\* fs_truncate_resize_cb: without the lock, and without a change to
\* length_flushed or length_xattr.
TruncateResized(r) ==
    /\ xattr' = r.off + r.len
    /\ length' = r.off + r.len
    /\ append_pos' = Min2(append_pos, r.off + r.len)
    /\ persists' = Append(persists, [op |-> "truncate", t |-> r.t, off |-> r.off,
                                     len |-> r.len, val |-> r.off + r.len])

ResizeCb(r) == IF r.op = "extend" THEN ExtendResized(r) ELSE TruncateResized(r)

\* spdk_blob_resize: the blob has the size already, the resize starts, or it
\* is refused because another one is in progress.
BlobResize(r) ==
    \/ /\ r.size = blob_size
       /\ ResizeCb(r)
       /\ UNCHANGED <<resizing, sem, thread>>
    \/ /\ r.size # blob_size /\ resizing = NULL
       /\ resizing' = r
       /\ UNCHANGED <<sizeVars, persists, xattr, sem, thread>>
    \/ /\ r.size # blob_size /\ resizing # NULL
       /\ WakeFailed(r.t)
       /\ UNCHANGED <<sizeVars, persists, xattr, resizing>>

\* __file_extend_blob.
Extend ==
    /\ Receives("extend")
    /\ BlobResize([op |-> "extend", t |-> Head(mdq).t, size |-> Head(mdq).size,
                   off |-> 0, len |-> 0])
    /\ UNCHANGED <<flushVars, cacheVars, lock, cont, dataVars, blob_size, durVars, ub, readVars>>

ResizeDone ==
    /\ MdIdle
    /\ resizing # NULL
    /\ resizing' = NULL
    /\ \/ blob_size' = resizing.size /\ ResizeCb(resizing) /\ UNCHANGED <<sem, thread>>
       \/ /\ MayFail("resize")
          /\ WakeFailed(resizing.t)
          /\ UNCHANGED <<sizeVars, blob_size, xattr, persists>>
    /\ UNCHANGED <<flushVars, cacheVars, lock, mdVars, dataVars, durVars, ub, readVars>>

\* __file_extend_done.
ExtendDone ==
    /\ PersistOver("extend")
    /\ \/ LengthPersisted /\ WakeCaller(Head(persists).t)
       \/ MayFail("io") /\ UNCHANGED disk_len /\ WakeFailed(Head(persists).t)
    /\ UNCHANGED <<sizeVars, flushVars, cacheVars, lock, mdVars, dataVars, resizing,
                   blob_size, xattr, promised, ub, readVars>>

-----------------------------------------------------------------------------
(* The metadata thread: the write that bypasses the cache (__rw_from_file,    *)
(* __readvwritev).  A write past the end of the file truncates it first.     *)

\* spdk_file_truncate_async, to the end of the bytes of m.
TruncateAsync(m) ==
    BlobResize([op |-> "truncate", t |-> m.t, off |-> m.off, len |-> m.len,
                size |-> BytesToClusters(m.off + m.len)])

\* __do_blob_read and __read_done of a write: its bytes go to the device.  The io
\* units it touches are read first and written back whole; as writes here are of
\* whole io units, no other byte is written, and the two requests are one.
BlobWrite(m) == io' = io \cup {[op |-> "write", t |-> m.t, off |-> m.off, len |-> m.len]}

DirectWrite ==
    /\ Receives("write")
    /\ LET m == Head(mdq) IN
       \/ /\ MayFail("request")
          /\ WakeFailed(m.t)
          /\ UNCHANGED <<sizeVars, resizing, xattr, persists, io>>
       \/ /\ length < m.off + m.len
          /\ TruncateAsync(m)
          /\ UNCHANGED io
       \/ /\ length >= m.off + m.len
          /\ BlobWrite(m)
          /\ UNCHANGED <<sizeVars, resizing, xattr, persists, sem, thread>>
    /\ UNCHANGED <<flushVars, cacheVars, lock, cont, disk, blob_size, durVars, ub, readVars>>

\* fs_truncate_complete_cb: the length is on the device; now write the data.
TruncateDone ==
    /\ PersistOver("truncate")
    /\ \/ LengthPersisted /\ BlobWrite(Head(persists)) /\ UNCHANGED <<sem, thread>>
       \/ MayFail("io") /\ UNCHANGED <<disk_len, io>> /\ WakeFailed(Head(persists).t)
    /\ UNCHANGED <<sizeVars, flushVars, cacheVars, lock, mdVars, disk, resizing, blob_size,
                   xattr, promised, ub, readVars>>

\* __rw_done.
DirectDone(o) ==
    /\ MdIdle
    /\ o.op = "write"
    /\ io' = io \ {o}
    /\ \/ Written(o.off, o.len) /\ WakeCaller(o.t)
       \/ MayFail("io") /\ UNCHANGED disk /\ WakeFailed(o.t)
    /\ UNCHANGED <<sizeVars, flushVars, cacheVars, lock, mdVars, metaVars, durVars, ub, readVars>>

-----------------------------------------------------------------------------
(* The threads and the next-state relation.                                  *)

WriteStep(t) ==
    \/ \E n \in WriteSizes : WriteCall(t, n)
    \/ WriteDirect(t) \/ WriteExtend(t) \/ WriteLocked(t)
    \/ ExtendReturn(t) \/ DirectReturn(t)
    \/ Copy(t) \/ FillPart(t) \/ FillWhole(t) \/ FillUndefined(t)

SyncStep(t) == SyncNothing(t) \/ SyncCall(t) \/ SyncReturn(t)

MdStep ==
    \/ FlushLater \/ FlushNoBuffer \/ FlushNothing \/ FlushWrite
    \/ CheckSyncReqs \/ FinishSync
    \/ Extend \/ ResizeDone \/ ExtendDone
    \/ DirectWrite \/ TruncateDone
    \/ \E o \in io : FlushDone(o) \/ DirectDone(o)

Next ==
    \/ \E t \in Writers : WriteStep(t)
    \/ \E t \in Threads : SyncStep(t)
    \/ MdStep

Spec == Init /\ [][Next]_vars

\* The metadata thread polls and the device answers; a thread inside a call
\* goes on, and the call it is in is never abandoned.
InCall(t) == thread[t].pc # "idle" /\ (WriteStep(t) \/ SyncStep(t))
Fairness  == WF_vars(MdStep) /\ \A t \in Threads : WF_vars(InCall(t))
FairSpec  == Spec /\ Fairness

-----------------------------------------------------------------------------
(* Properties.                                                               *)

Pcs == {"idle", "write", "direct", "extend", "copy", "fill", "sync", "read", "relock", "reap"}

ThreadState ==
    [pc : Pcs, off : Nat, rem : Nat, copy : Nat, last : Nat \cup {NULL},
     filled : BOOLEAN, subs : Nat, err : BOOLEAN]

Buffer == [filled : Nat, flushed : Nat, in_progress : BOOLEAN]

SyncRequest == [t : Threads, offset : Nat, xattr_in_progress : BOOLEAN, length : Nat]

Resize == [op : {"extend", "truncate"}, t : Threads, size : Nat, off : Nat, len : Nat]

\* Messages to the metadata thread, data I/Os, and metadata writes.
Message == [fn : {"flush"}]
             \cup [fn : {"extend"}, t : Threads, size : Nat]
             \cup [fn : {"read", "write"}, t : Threads, off : Nat, len : Nat]
             \cup [fn : {"readahead"}, off : Nat, len : Nat]
DataIo  == [op : {"flush"}, buf : Nat, off : Nat, len : Nat]
             \cup [op : {"read", "write"}, t : Threads, off : Nat, len : Nat]
             \cup [op : {"readahead"}, off : Nat, len : Nat]
Persist == [op : {"sync"}, val : Nat]
             \cup [op : {"extend"}, t : Threads, val : Nat]
             \cup [op : {"truncate"}, t : Threads, off : Nat, len : Nat, val : Nat]

\* Type correctness of the file, the threads, the requests and the blob (struct
\* spdk_file, struct spdk_fs_cb_args, struct cache_buffer): no counter wraps
\* below zero, however many threads write and whatever fails.
TypeOK ==
    /\ append_pos \in Nat /\ length \in Nat
    /\ length_flushed \in Nat /\ length_xattr \in Nat
    /\ sync_requests \in Seq(SyncRequest)
    /\ last \in Nat \cup {NULL}
    /\ DOMAIN tree \subseteq Nat /\ tree \in [DOMAIN tree -> Buffer]
    /\ lock \in Threads \cup {NULL}
    /\ thread \in [Threads -> ThreadState]
    /\ sem \in [Threads -> Nat]
    /\ mdq \in Seq(Message) /\ cont \in Seq({"check", "flush"})
    /\ io \subseteq DataIo /\ disk \subseteq Nat
    /\ persists \in Seq(Persist)
    /\ resizing \in Resize \cup {NULL}
    /\ blob_size \in Nat /\ xattr \in Nat /\ disk_len \in Nat /\ promised \in Nat

\* A sync that returned 0 keeps its word: the bytes that were written when it
\* was called, and a length that covers them, are on the device (spdk_file_sync,
\* __check_sync_reqs, __file_cache_finish_sync).
SyncDurable == promised <= disk_len /\ Bytes(0, promised) \subseteq disk

\* Whenever the machine stops, the length that the next load will find
\* (iter_cb) covers only bytes that were written to the device.
LengthBacked == Bytes(0, disk_len) \subseteq disk

\* The bytes of a write that has not returned: not yet in a buffer, or on
\* their way to the device.
InHand == UNION {CASE thread[t].pc = "fill" -> Bytes(append_pos - thread[t].copy, thread[t].copy)
                   [] thread[t].pc = "direct" -> Bytes(thread[t].off, thread[t].rem)
                   [] OTHER -> {} : t \in Threads}
Cached == UNION {Bytes(b, tree[b].filled) : b \in DOMAIN tree}

\* No appended byte is ever lost: it is in a cache buffer, on the device or in
\* the hands of a write that has not returned (spdk_file_write, __file_flush).
NoLostBytes == Bytes(0, append_pos) \subseteq disk \cup Cached \cup InHand

\* No byte is flushed past the end of the blob, which is extended before the
\* buffer is filled (the assertion of __file_flush_done).
FlushWithinBlob == \A o \in io : o.off + o.len <= blob_size

\* The program stays defined: no write or flush uses a cache buffer that is
\* gone (file->last, args->op.flush.cache_buffer).
Defined == ub = "none"

\* Every spdk_file_sync returns, unless the program crashes.
SyncReturns == \A t \in Threads : thread[t].pc = "sync" ~> (thread[t].pc # "sync" \/ ~Running)

\* Neither the length known to be persisted nor the one on the device ever
\* goes back.
LengthMonotone == [][length_xattr' >= length_xattr /\ disk_len' >= disk_len]_vars
=============================================================================
