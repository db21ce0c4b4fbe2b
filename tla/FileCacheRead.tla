---------------------------- MODULE FileCacheRead ----------------------------
(***************************************************************************)
(* The readers of a cached file and the reclaim of its buffers, added to the *)
(* append path of FileCache (lib/NBFS/NBFS.c, lib/NBFS/tree.c).              *)
(*                                                                         *)
(* spdk_file_read copies from the cache what it finds there, frees a buffer  *)
(* it has read to the end, and has the metadata thread read the rest.  A     *)
(* sequential reader starts readahead into empty buffers.  The thread        *)
(* cache_pool_mgmt frees the buffers that hold no unflushed bytes.           *)
(***************************************************************************)
EXTENDS FileCache

CONSTANTS
    ReadSizes,      \* lengths of the reads the clients make
    Threshold,      \* CACHE_READAHEAD_THRESHOLD in io units
    ReadAnytime,    \* whether clients read a file that is not synced
    PoolPressure    \* whether the buffer pool runs low, so that reclaim happens

ASSUME ReadAssumption ==
    /\ ReadSizes \subseteq Nat \ {0}
    /\ Threshold \in Nat
    /\ ReadAnytime \in BOOLEAN
    /\ PoolPressure \in BOOLEAN

-----------------------------------------------------------------------------
(* spdk_file_read.                                                           *)

NextBufferOffset(off) == off + BufSize - (off % BufSize)

\* Whether a readahead gets its request and its buffer.
Granted == IF MayFail("request") \/ MayFail("buffer") THEN BOOLEAN ELSE {TRUE}

\* Mutant: a buffer past the end of the file is read ahead too.
CheckReadaheadPast(off, got) ==
    LET o == NextBufferOffset(off) IN IF TreeFind(o) = NULL /\ got THEN <<o>> ELSE <<>>

\* check_readahead: the buffer after off, if it is neither cached nor past the end,
\* and if there is a request and a buffer for it.
CheckReadahead(off, got) ==
    LET o == NextBufferOffset(off)
    IN  IF TreeFind(o) = NULL /\ length > o /\ got THEN <<o>> ELSE <<>>

ReadaheadMsg(o) ==
    [fn |-> "readahead", off |-> o,
     len |-> IF length < o + BufSize THEN length % BufSize ELSE BufSize]

\* Take the lock, detect a sequential reader and start its readahead, of two buffers
\* when both are granted.
ReadCall(t, off, n, got1, got2) ==
    /\ LockFree
    /\ thread[t].pc = "idle"
    /\ off < append_pos
    /\ ReadAnytime \/ append_pos = length_xattr
    /\ LET len   == Min2(n, append_pos - off)
           seq   == Min2(Threshold, len + (IF off = next_seq_offset THEN seq_byte_count ELSE 0))
           ahead == IF seq < Threshold THEN <<>>
                    ELSE CheckReadahead(off, got1) \o CheckReadahead(off + BufSize, got2)
       IN  /\ seq_byte_count' = seq
           /\ next_seq_offset' = off + len
           /\ tree' = [b \in DOMAIN tree \cup {ahead[i] : i \in DOMAIN ahead} |->
                         IF b \in DOMAIN tree THEN tree[b]
                         ELSE [EmptyBuffer EXCEPT !.in_progress = TRUE]]
           /\ mdq' = mdq \o [i \in DOMAIN ahead |-> ReadaheadMsg(ahead[i])]
           /\ thread' = [thread EXCEPT ![t] = [Idle EXCEPT !.pc = "read", !.off = off,
                                                           !.rem = len]]
    /\ lock' = t
    /\ UNCHANGED <<sizeVars, flushVars, last, sem, cont, dataVars, metaVars, durVars, ub, stale>>

\* Mutants: a buffer is used before its readahead has filled it; a sub-read is
\* counted twice, and the read advances by one only.
HitEmpty(t) == TreeFind(thread[t].off) # NULL
AdvanceMiscounted(t, pc, sub) ==
    thread' = [thread EXCEPT ![t].pc = pc, ![t].off = @ + 1, ![t].rem = @ - 1,
                             ![t].subs = @ + sub + sub]

\* The part of the read that lies in one buffer, and whether it is cached
\* (tree_find_filled_buffer).
Chunk(t) == Min2(NextBufferOffset(thread[t].off) - thread[t].off, thread[t].rem)
Hit(t)   == LET b == TreeFind(thread[t].off) IN b # NULL /\ tree[b].filled > 0

Advance(t, pc, sub) ==
    thread' = [thread EXCEPT ![t].pc = pc, ![t].off = @ + Chunk(t),
                             ![t].rem = @ - Chunk(t), ![t].subs = @ + sub]

\* tree_remove_buffer, which frees the buffer.
TreeRemove(b) == [c \in DOMAIN tree \ {b} |-> tree[c]]

\* Cached: copy what the buffer holds, count the whole chunk as read, and free
\* the buffer when it was read to its end.
ReadHit(t) ==
    /\ Running
    /\ thread[t].pc = "read" /\ thread[t].rem > 0
    /\ Hit(t)
    /\ LET b    == TreeFind(thread[t].off)
           copy == Min2(Chunk(t), b + tree[b].filled - thread[t].off)
       IN  /\ stale' = (stale \/ copy < Chunk(t))
           /\ tree' = IF (thread[t].off + copy) % BufSize = 0
                      THEN TreeRemove(b)
                      ELSE tree
    /\ Advance(t, "read", 0)
    /\ UNCHANGED <<sizeVars, flushVars, last, lock, sem, mdVars, dataVars, metaVars, durVars,
                   ub, seqVars>>

\* Not cached: unlock, ask the metadata thread to read it, and lock again.  When
\* no request is left, the semaphore is posted although nobody waits.
ReadMiss(t) ==
    /\ Running
    /\ thread[t].pc = "read" /\ thread[t].rem > 0
    /\ ~Hit(t)
    /\ lock' = NULL
    /\ \/ /\ mdq' = Append(mdq, RwMsg("read", t, thread[t].off, Chunk(t)))
          /\ Advance(t, "relock", 1)
          /\ UNCHANGED sem
       \/ /\ MayFail("request")
          /\ sem' = [sem EXCEPT ![t] = @ + 1]
          /\ thread' = [thread EXCEPT ![t].pc = "reap"]
          /\ UNCHANGED mdq
    /\ UNCHANGED <<sizeVars, flushVars, cacheVars, cont, dataVars, metaVars, durVars, ub, readVars>>

Relock(t) ==
    /\ LockFree
    /\ thread[t].pc = "relock"
    /\ lock' = t
    /\ thread' = [thread EXCEPT ![t].pc = "read"]
    /\ UNCHANGED <<sizeVars, flushVars, cacheVars, sem, mdVars, dataVars, metaVars, durVars,
                   ub, readVars>>

ReadEnd(t) ==
    /\ Running
    /\ thread[t].pc = "read" /\ thread[t].rem = 0
    /\ lock' = NULL
    /\ thread' = [thread EXCEPT ![t].pc = "reap"]
    /\ UNCHANGED <<sizeVars, flushVars, cacheVars, sem, mdVars, dataVars, metaVars, durVars,
                   ub, readVars>>

\* Wait for the sub-reads, one by one, and return.
ReadReap(t) ==
    /\ Running
    /\ thread[t].pc = "reap"
    /\ IF thread[t].subs > 0
       THEN SemWait(t) /\ thread' = [thread EXCEPT ![t].subs = @ - 1]
       ELSE Return(t) /\ UNCHANGED sem
    /\ UNCHANGED <<sizeVars, flushVars, cacheVars, lock, mdVars, dataVars, metaVars, durVars,
                   ub, readVars>>

-----------------------------------------------------------------------------
(* The metadata thread: reads that miss the cache, and readahead.             *)

\* __rw_from_file and __readvwritev: a read past the end is refused.
DirectRead ==
    /\ Receives("read")
    /\ LET m == Head(mdq) IN
       \/ /\ m.off + m.len > length \/ MayFail("request")
          /\ WakeFailed(m.t)
          /\ UNCHANGED io
       \/ /\ m.off + m.len <= length
          /\ io' = io \cup {[op |-> "read", t |-> m.t, off |-> m.off, len |-> m.len]}
          /\ UNCHANGED <<sem, thread>>
    /\ UNCHANGED <<sizeVars, flushVars, cacheVars, lock, cont, disk, metaVars, durVars, ub,
                   readVars>>

\* The device delivers the bytes, or fails and nobody looks.
GetBytes(off, len) ==
    \/ stale' = (stale \/ ~(Bytes(off, len) \subseteq disk))
    \/ MayFail("io") /\ stale' = TRUE

\* __read_done reports success whatever the outcome of the read was.
DirectReadDone(o) ==
    /\ MdIdle
    /\ o.op = "read"
    /\ io' = io \ {o}
    /\ WakeCaller(o.t)
    /\ GetBytes(o.off, o.len)
    /\ UNCHANGED <<sizeVars, flushVars, cacheVars, lock, mdVars, disk, metaVars, durVars, ub,
                   seqVars>>

Readahead ==
    /\ Receives("readahead")
    /\ io' = io \cup {[op |-> "readahead", off |-> Head(mdq).off, len |-> Head(mdq).len]}
    /\ UNCHANGED <<sizeVars, flushVars, cacheVars, userVars, cont, disk, metaVars, durVars,
                   ub, readVars>>

\* __readahead_done: the buffer counts as filled whatever the outcome was.
ReadaheadDone(o) ==
    /\ MdIdle /\ LockFree
    /\ o.op = "readahead"
    /\ io' = io \ {o}
    /\ GetBytes(o.off, o.len)
    /\ IF o.off \in DOMAIN tree
       THEN /\ tree' = [tree EXCEPT ![o.off] = [filled |-> o.len, flushed |-> o.len,
                                                in_progress |-> FALSE]]
            /\ UNCHANGED ub
       ELSE ub' = "freed_readahead" /\ UNCHANGED tree
    /\ UNCHANGED <<sizeVars, flushVars, last, userVars, mdVars, disk, metaVars, durVars, seqVars>>

-----------------------------------------------------------------------------
(* The thread cache_pool_mgmt.                                               *)

\* Mutants: a buffer that is being filled or flushed, or one with unflushed
\* bytes, is freed too.
CleanInProgress == {b \in DOMAIN tree : tree[b].filled = tree[b].flushed}
CleanDirty == {b \in DOMAIN tree : ~tree[b].in_progress}

\* reclaim_cache_buffers and tree_free_buffers: the buffers without unflushed
\* bytes go, and file->last is reset only when no buffer is left.
Clean == {b \in DOMAIN tree : ~tree[b].in_progress /\ tree[b].filled = tree[b].flushed}

Reclaim ==
    /\ LockFree
    /\ PoolPressure
    /\ DOMAIN tree # {}
    /\ tree' = [b \in DOMAIN tree \ Clean |-> tree[b]]
    /\ last' = IF Clean = DOMAIN tree THEN NULL ELSE last
    /\ UNCHANGED <<sizeVars, flushVars, userVars, mdVars, dataVars, metaVars, durVars, ub, readVars>>

-----------------------------------------------------------------------------
ReadOnward(t) ==
    \/ \E off \in 0 .. MaxLen, n \in ReadSizes, got1, got2 \in Granted :
         ReadCall(t, off, n, got1, got2)
    \/ ReadMiss(t) \/ Relock(t) \/ ReadEnd(t) \/ ReadReap(t)
ReadStep(t) == ReadOnward(t) \/ ReadHit(t)

MdReadStep ==
    \/ DirectRead \/ Readahead
    \/ \E o \in io : DirectReadDone(o) \/ ReadaheadDone(o)

ReadNext ==
    \/ Next
    \/ \E t \in Threads : ReadStep(t)
    \/ MdReadStep
    \/ Reclaim

InAnyCall(t) ==
    /\ thread[t].pc # "idle"
    /\ ReadStep(t) \/ WriteStep(t) \/ SyncStep(t)

ReadSpec == Init /\ [][ReadNext]_vars

\* The metadata thread polls, the device answers every I/O, and a thread inside
\* a call goes on: whoever keeps trying for the spinlock gets it in the end.
ReadFairness ==
    /\ WF_vars(MdStep \/ MdReadStep)
    /\ \A t \in Threads :
         /\ SF_vars(InAnyCall(t))
         /\ SF_vars(\E o \in io : o.op = "read" /\ o.t = t /\ DirectReadDone(o))
FairReadSpec == ReadSpec /\ ReadFairness

-----------------------------------------------------------------------------
(* Properties.                                                               *)

\* What spdk_file_read returns, and what readahead puts into the cache, are
\* bytes of the file.
ReadsTheFile == ~stale

\* Every spdk_file_read returns, unless the program crashes.
ReadReturns == \A t \in Threads : thread[t].pc = "read" ~> (thread[t].pc = "idle" \/ ~Running)
=============================================================================
