-------------------------- MODULE FileCacheReadProofs --------------------------
(***************************************************************************)
(* A file that one thread appends to and any number of threads read, proved  *)
(* of FileCacheRead for every value of its constants: under Discipline, when *)
(* clients read only what is synced and the buffer pool never runs low, the  *)
(* readers get bytes of the file, and what FileCacheDurability shows of the  *)
(* writer and of spdk_file_sync holds in spite of the buffers that the       *)
(* readers take out of the cache and put into it.                            *)
(***************************************************************************)
EXTENDS FileCacheDurability, FileCacheReaders

\* The readers keep to synced files and no reclaim happens.
ReadDiscipline == Discipline /\ ~ReadAnytime /\ ~PoolPressure

-----------------------------------------------------------------------------
(* What a step of a reader has to leave alone.                               *)

\* The file, the requests for its sync and its metadata.
FileLeft ==
    /\ UNCHANGED <<append_pos, length, length_flushed, length_xattr, sync_requests, last, cont>>
    /\ UNCHANGED <<disk, persists, resizing, blob_size, xattr, disk_len, promised, ub>>

\* The buffers that are not flushed to their end; another one that is there
\* waits for its readahead or is full.
BuffersLeft ==
    /\ DOMAIN tree' \subseteq Nat /\ tree' \in [DOMAIN tree' -> Buffer]
    /\ \A b \in DOMAIN tree : ~(b + BufSize <= length_flushed) =>
         b \in DOMAIN tree' /\ tree'[b] = tree[b]
    /\ \A b \in DOMAIN tree' :
         \/ b \in DOMAIN tree /\ tree'[b] = tree[b]
         \/ /\ b + BufSize <= length_flushed /\ b % BufSize = 0
            /\ tree'[b].filled = IF tree'[b].in_progress THEN 0 ELSE BufSize
            /\ tree'[b].flushed = tree'[b].filled

\* The threads that write, and the calls of those that read.
ThreadsLeft ==
    /\ thread' \in [Threads -> ThreadState] /\ sem' \in [Threads -> Nat]
    /\ lock' \in Threads \cup {NULL}
    /\ \A u \in Threads : thread'[u].pc \in WriterPcs
    /\ \A u \in Threads \ Writers : thread'[u].pc \in ReaderPcs
    /\ \A u \in Writers : Untouched(u)

\* The flushes; and no write bypasses the cache.
QueuesLeft ==
    /\ mdq' \in Seq(CachedMessage) /\ io' \subseteq DataIo
    /\ \A o \in io' : o.op # "write" /\ (o.op = "flush" => o \in io)

\* Two boundaries are at least a buffer apart.
LEMMA BoundaryGap ==
    ASSUME NEW a \in Nat, NEW b \in Nat, a % BufSize = 0, b % BufSize = 0, a < b
    PROVE  a + BufSize <= b
<1>1. BufSize \in Nat \ {0}
  BY SizeAssumption
<1>2. ASSUME b < a + BufSize PROVE FALSE
  <2>1. b % BufSize = b - a
    BY <1>2, OffsetInBuffer
  <2> QED
    BY <2>1
<1> QED
  BY <1>1, <1>2

LEMMA LeftTree ==
    ASSUME IInv, FileLeft, BuffersLeft, ThreadsLeft
    PROVE  TreeInv' /\ BufferInv'
<1>1. \A b \in DOMAIN tree' : b \in Nat /\ b % BufSize = 0
  BY DEF BuffersLeft, IInv, BufferInv
<1>2. \A b, c \in DOMAIN tree' : b < c => b + BufSize <= c
  BY <1>1, BoundaryGap
<1>3. \A b \in DOMAIN tree' :
        (b \in DOMAIN tree /\ tree'[b] = tree[b]) \/ b + BufSize <= length_flushed
  BY DEF BuffersLeft
<1>4. ASSUME last # NULL
      PROVE  /\ last \in DOMAIN tree' /\ tree'[last] = tree[last]
             /\ last \in Nat /\ last % BufSize = 0
             /\ tree[last].filled \in Nat /\ tree[last].filled < BufSize
             /\ length_flushed <= last + tree[last].filled
             /\ \A b \in DOMAIN tree' : b # last => b < last /\ FullOrFlushed(b)'
  <2>1. /\ last \in DOMAIN tree /\ last \in Nat /\ tree[last].filled \in Nat
        /\ length_flushed \in Nat /\ BufSize \in Nat
    BY <1>4, BufferTypes
  <2>2. /\ last % BufSize = 0 /\ tree[last].filled < BufSize
        /\ length_flushed <= last + tree[last].filled
        /\ \A b \in DOMAIN tree : b # last => b < last /\ FullOrFlushed(b)
    BY <1>4 DEF IInv, TreeInv, BufferInv
  <2>3. last \in DOMAIN tree' /\ tree'[last] = tree[last]
    BY <1>4, <2>1, LastNotFlushed DEF BuffersLeft
  <2>4. ASSUME NEW b \in DOMAIN tree', b # last PROVE b < last /\ FullOrFlushed(b)'
    <3>1. CASE b \in DOMAIN tree /\ tree'[b] = tree[b]
      BY <2>2, <2>4, <3>1 DEF FullOrFlushed, FileLeft
    <3>2. CASE b + BufSize <= length_flushed
      <4>1. b < last
        BY <1>1, <2>1, <2>2, <3>2
      <4> QED
        BY <3>2, <4>1 DEF FullOrFlushed, FileLeft
    <3> QED
      BY <1>3, <2>4, <3>1, <3>2
  <2> QED
    BY <2>1, <2>2, <2>3, <2>4
<1>5. TreeInv'
  <2>1. \A t \in Writers : /\ Filling(t)' <=> Filling(t)
                           /\ Filling(t) => thread'[t].copy = thread[t].copy
    BY DEF ThreadsLeft, Untouched, Filling
  <2>2. UNCHANGED <<last, append_pos, length_flushed>>
    BY DEF FileLeft
  <2>3. \A t \in Writers :
          /\ thread'[t].pc \in {"extend", "copy", "fill"} => last # NULL
          /\ thread'[t].pc \in {"copy", "fill"} => thread'[t].last = last
    BY DEF IInv, TreeInv, ThreadsLeft, Untouched
  <2>4. \A t \in Writers : Filling(t)' =>
          /\ last + tree'[last].filled + thread'[t].copy = append_pos
          /\ tree'[last].filled + thread'[t].copy <= BufSize
    <3>1. \A t \in Writers : Filling(t) =>
            /\ last # NULL
            /\ last + tree[last].filled + thread[t].copy = append_pos
            /\ tree[last].filled + thread[t].copy <= BufSize
      BY DEF IInv, TreeInv, Filling
    <3> QED
      BY <1>4, <2>1, <3>1
  <2>5. last # NULL /\ (\A t \in Writers : ~Filling(t)') => last + tree'[last].filled = append_pos
    <3>1. last # NULL /\ (\A t \in Writers : ~Filling(t)) => last + tree[last].filled = append_pos
      BY DEF IInv, TreeInv
    <3> QED
      BY <1>4, <2>1, <3>1
  <2>6. last = NULL => append_pos % BufSize = 0 /\ length_flushed = append_pos
    BY DEF IInv, TreeInv
  <2> QED
    BY <1>2, <1>4, <2>2, <2>3, <2>4, <2>5, <2>6 DEF TreeInv
<1>6. BufferInv'
  <2>1. UNCHANGED <<last, append_pos, length, length_flushed>> /\ length = append_pos
    BY DEF FileLeft, IInv, BufferInv
  <2>2. last = NULL => \A b \in DOMAIN tree' : b + BufSize <= length_flushed
    BY <1>3 DEF IInv, BufferInv
  <2>3. \A b \in DOMAIN tree' : b + BufSize <= length_flushed =>
          tree'[b].filled = IF tree'[b].in_progress THEN 0 ELSE BufSize
    BY DEF BuffersLeft, IInv, BufferInv
  <2> QED
    BY <1>1, <1>4, <2>1, <2>2, <2>3 DEF BufferInv
<1> QED
  BY <1>5, <1>6

LEMMA LeftFlush ==
    ASSUME IInv, FileLeft, BuffersLeft, QueuesLeft
    PROVE  FlushInv' /\ BuffersOK'
<1>1. UNCHANGED <<last, append_pos, length_flushed, disk>>
  BY DEF FileLeft
<1>2. \A b \in DOMAIN tree' :
        (b \in DOMAIN tree /\ tree'[b] = tree[b]) \/ b + BufSize <= length_flushed
  BY DEF BuffersLeft
<1>3. /\ length_flushed \in Nat /\ append_pos \in Nat /\ BufSize \in Nat \ {0}
      /\ DOMAIN tree \subseteq Nat /\ DOMAIN tree' \subseteq Nat
  BY BufferTypes DEF BuffersLeft
<1>4. ASSUME NEW o \in io, o.op = "flush"
      PROVE  o.buf \in DOMAIN tree /\ o.buf \in DOMAIN tree' /\ tree'[o.buf] = tree[o.buf]
  <2>1. /\ o.buf \in DOMAIN tree /\ o.len >= 1 /\ o \in DataIo
        /\ tree[o.buf].flushed + o.len <= tree[o.buf].filled
        /\ o.buf + tree[o.buf].flushed = length_flushed
    BY <1>4 DEF IInv, TypeInv, TypeOK, BuffersOK, FlushInv
  <2>2. /\ o.len \in Nat /\ o.buf \in Nat /\ tree[o.buf].flushed \in Nat
        /\ tree[o.buf].filled \in Nat /\ tree[o.buf].filled <= BufSize
    BY <1>4, <2>1, BufferTypes DEF DataIo
  <2>3. ~(o.buf + BufSize <= length_flushed)
    BY <1>3, <2>1, <2>2
  <2> QED
    BY <2>1, <2>3 DEF BuffersLeft
<1>5. FlushInv'
  <2>1. ASSUME NEW b \in DOMAIN tree'
        PROVE  /\ b > length_flushed => tree'[b].flushed = 0
               /\ b <= length_flushed /\ length_flushed < b + BufSize =>
                    b + tree'[b].flushed = length_flushed
    <3>1. CASE b \in DOMAIN tree /\ tree'[b] = tree[b]
      BY <3>1 DEF IInv, FlushInv
    <3>2. CASE b + BufSize <= length_flushed
      BY <1>3, <3>2
    <3> QED
      BY <1>2, <3>1, <3>2
  <2>2. ASSUME NEW x \in length_flushed .. append_pos - 1
        PROVE  \E b \in DOMAIN tree' : b <= x /\ x < b + BufSize
    <3>1. PICK b \in DOMAIN tree : b <= x /\ x < b + BufSize
      BY DEF IInv, FlushInv
    <3>2. ~(b + BufSize <= length_flushed)
      BY <1>3, <3>1
    <3> QED
      BY <3>1, <3>2 DEF BuffersLeft
  <2>3. ASSUME NEW o \in io', o.op = "flush"
        PROVE  o.off = length_flushed /\ o.buf + tree'[o.buf].flushed = length_flushed
    <3>1. o \in io
      BY <2>3 DEF QueuesLeft
    <3> QED
      BY <1>4, <2>3, <3>1 DEF IInv, FlushInv
  <2>4. length_flushed <= append_pos /\ \A x \in 0 .. length_flushed - 1 : x \in disk
    BY DEF IInv, FlushInv
  <2> QED
    BY <1>1, <2>1, <2>2, <2>3, <2>4 DEF FlushInv
<1>6. BuffersOK'
  <2>1. ASSUME NEW b \in DOMAIN tree'
        PROVE  /\ last = NULL => tree'[b].filled = tree'[b].flushed
               /\ tree'[b].flushed <= tree'[b].filled /\ tree'[b].filled <= BufSize
    <3>1. CASE b \in DOMAIN tree /\ tree'[b] = tree[b]
      BY <3>1 DEF IInv, TypeInv, BuffersOK
    <3>2. CASE /\ tree'[b].filled = IF tree'[b].in_progress THEN 0 ELSE BufSize
               /\ tree'[b].flushed = tree'[b].filled
      BY <1>3, <3>2
    <3> QED
      BY <2>1, <3>1, <3>2 DEF BuffersLeft
  <2>2. \A o \in io' : o.op = "flush" =>
          /\ o \in io /\ o.buf \in DOMAIN tree' /\ tree'[o.buf] = tree[o.buf]
    BY <1>4 DEF QueuesLeft
  <2> QED
    BY <1>1, <2>1, <2>2 DEF IInv, TypeInv, BuffersOK
<1> QED
  BY <1>5, <1>6

\* A step that leaves all this alone keeps the invariant when the readers are
\* served.
LEMMA LeftInv ==
    ASSUME IInv, FileLeft, BuffersLeft, ThreadsLeft, QueuesLeft, ReadInv'
    PROVE  IInv'
<1>1. TypeOK'
  <2>1. mdq' \in Seq(Message)
    <3>1. CachedMessage \subseteq Message
      BY DEF CachedMessage, Message
    <3> QED
      BY <3>1 DEF QueuesLeft
  <2> QED
    BY <2>1 DEF IInv, TypeInv, TypeOK, FileLeft, BuffersLeft, ThreadsLeft, QueuesLeft
<1>2. NoDirect'
  BY DEF IInv, NoDirect, FileLeft, ThreadsLeft, QueuesLeft
<1>3. LengthInv' /\ RequestInv'
  BY DEF FileLeft, IInv, LengthInv, RequestInv
<1> QED
  BY <1>1, <1>2, <1>3, LeftTree, LeftFlush DEF IInv, TypeInv

-----------------------------------------------------------------------------
(* The pieces of a reader's step.                                            *)

LEMMA SameBuffers ==
    ASSUME IInv, UNCHANGED tree
    PROVE  BuffersLeft
BY DEF IInv, TypeInv, TypeOK, BuffersLeft

LEMMA SameQueues ==
    ASSUME IInv, UNCHANGED mdq, io' \subseteq io
    PROVE  QueuesLeft
<1>1. mdq \in Seq(CachedMessage) /\ io \subseteq DataIo /\ \A o \in io : o.op # "write"
  BY DEF IInv, TypeInv, TypeOK, NoDirect
<1> QED
  BY <1>1 DEF QueuesLeft

\* A call of thread t goes on to s.
LEMMA CallMoved ==
    ASSUME IInv, NEW t \in Threads, NEW s \in ThreadState, thread' = [thread EXCEPT ![t] = s],
           thread[t].pc \in ReaderPcs, s.pc \in ReaderPcs,
           s.pc \in {"read", "relock"} => s.off + s.rem <= length_flushed,
           lock' \in Threads \cup {NULL}, sem' \in [Threads -> Nat], UNCHANGED length_flushed
    PROVE  ThreadsLeft /\ CallsWithin'
<1>1. /\ thread \in [Threads -> ThreadState]
      /\ \A u \in Threads : thread[u].pc \in WriterPcs
      /\ \A u \in Threads \ Writers : thread[u].pc \in ReaderPcs
      /\ Writers \subseteq Threads
  BY ThreadAssumption DEF IInv, TypeInv, TypeOK, NoDirect
<1>2. thread'[t] = s /\ \A u \in Threads : u # t => thread'[u] = thread[u]
  BY <1>1
<1>3. \A u \in Writers : Untouched(u)
  BY <1>1, <1>2 DEF Untouched, ReaderPcs
<1>4. thread' \in [Threads -> ThreadState]
  BY <1>1
<1>5. CallsWithin'
  BY <1>2 DEF IInv, ReadInv, CallsWithin
<1>6. /\ \A u \in Threads : thread'[u].pc \in WriterPcs
      /\ \A u \in Threads \ Writers : thread'[u].pc \in ReaderPcs
  BY <1>1, <1>2 DEF WriterPcs
<1> QED
  BY <1>3, <1>4, <1>5, <1>6 DEF ThreadsLeft

LEMMA Woken ==
    ASSUME IInv, NEW t \in Threads, WakeCaller(t) \/ WakeFailed(t), UNCHANGED <<lock, length_flushed>>
    PROVE  ThreadsLeft /\ CallsWithin'
<1>1. thread' \in [Threads -> ThreadState] /\ sem' \in [Threads -> Nat]
  BY WakeType DEF IInv, TypeInv
<1>2. \A u \in Threads : /\ thread'[u].pc = thread[u].pc
                         /\ thread'[u].last = thread[u].last
                         /\ thread'[u].copy = thread[u].copy
                         /\ thread'[u].off = thread[u].off
                         /\ thread'[u].rem = thread[u].rem
  BY WakeUntouched DEF IInv, TypeInv
<1>3. CallsWithin'
  BY <1>2 DEF IInv, ReadInv, CallsWithin
<1>4. lock' \in Threads \cup {NULL}
  BY DEF IInv, TypeInv, TypeOK
<1>5. \A u \in Writers : Untouched(u)
  BY <1>2, ThreadAssumption DEF Untouched
<1>6. /\ \A u \in Threads : thread'[u].pc \in WriterPcs
      /\ \A u \in Threads \ Writers : thread'[u].pc \in ReaderPcs
  BY <1>2, CachedThreads
<1> QED
  BY <1>1, <1>3, <1>4, <1>5, <1>6 DEF ThreadsLeft

LEMMA SameThreads ==
    ASSUME IInv, UNCHANGED <<thread, sem, lock, length_flushed>>
    PROVE  ThreadsLeft /\ CallsWithin'
BY DEF IInv, TypeInv, TypeOK, NoDirect, ReadInv, CallsWithin, ThreadsLeft, Untouched

\* The chunk of a read lies in what is flushed.
LEMMA ChunkFlushed ==
    ASSUME IInv, NEW t \in Threads, thread[t].pc = "read"
    PROVE  /\ thread \in [Threads -> ThreadState] /\ thread[t] \in ThreadState
           /\ thread[t].off \in Nat /\ thread[t].rem \in Nat /\ thread[t].subs \in Nat
           /\ Chunk(t) \in Nat /\ Chunk(t) <= thread[t].rem
           /\ thread[t].off + Chunk(t) <= NextBufferOffset(thread[t].off)
           /\ thread[t].off + Chunk(t) <= length_flushed
           /\ thread[t].off + thread[t].rem <= length_flushed
           /\ thread[t].rem > 0 => Chunk(t) > 0
           /\ length_flushed \in Nat
<1>1. /\ thread \in [Threads -> ThreadState] /\ length_flushed \in Nat
      /\ thread[t].off + thread[t].rem <= length_flushed
  BY DEF IInv, TypeInv, TypeOK, ReadInv, CallsWithin
<1> QED
  BY <1>1, ChunkInBuffer

LEMMA Advanced ==
    ASSUME IInv, NEW t \in Threads, thread[t].pc = "read", NEW pc \in {"read", "relock"},
           NEW sub \in Nat, Advance(t, pc, sub),
           lock' \in Threads \cup {NULL}, UNCHANGED <<sem, length_flushed>>
    PROVE  ThreadsLeft /\ CallsWithin'
<1> DEFINE s == [thread[t] EXCEPT !.pc = pc, !.off = @ + Chunk(t), !.rem = @ - Chunk(t),
                                  !.subs = @ + sub]
<1>1. /\ thread \in [Threads -> ThreadState] /\ thread[t] \in ThreadState
      /\ thread[t].off \in Nat /\ thread[t].rem \in Nat /\ thread[t].subs \in Nat
      /\ Chunk(t) \in Nat /\ Chunk(t) <= thread[t].rem
      /\ thread[t].off + thread[t].rem <= length_flushed /\ length_flushed \in Nat
  BY ChunkFlushed
<1>2. thread' = [thread EXCEPT ![t] = s]
  BY <1>1 DEF Advance, ThreadState
<1>3. /\ s \in ThreadState /\ s.pc = pc
      /\ s.off = thread[t].off + Chunk(t) /\ s.rem = thread[t].rem - Chunk(t)
  <2>1. /\ thread[t].off + Chunk(t) \in Nat /\ thread[t].rem - Chunk(t) \in Nat
        /\ thread[t].subs + sub \in Nat /\ pc \in Pcs
    BY <1>1 DEF Pcs
  <2> QED
    BY <1>1, <2>1 DEF ThreadState
<1> HIDE DEF s
<1>4. s.off + s.rem <= length_flushed
  BY <1>1, <1>3
<1>5. sem' \in [Threads -> Nat] /\ s.pc \in ReaderPcs /\ thread[t].pc \in ReaderPcs
  BY <1>3 DEF IInv, TypeInv, TypeOK, ReaderPcs
<1> QED
  BY <1>2, <1>3, <1>4, <1>5, CallMoved

-----------------------------------------------------------------------------
(* The reader's steps.                                                       *)

\* A step that starts no readahead and takes no buffer that waits for one.
LEMMA ServedInv ==
    ASSUME IInv, FileLeft, BuffersLeft, ThreadsLeft, CallsWithin', QueuesLeft, QueueLeft, ~stale',
           \A o \in io' : o.op = "readahead" => o \in io,
           \A o \in io' : o.op = "read" => o \in io \/ o.off + o.len <= length_flushed,
           \A b \in DOMAIN tree : Awaited(b) => Awaited(b)'
    PROVE  IInv'
<1>1. length_flushed' \in Nat /\ length_flushed <= length_flushed'
  BY BufferTypes DEF FileLeft
<1>2. \A o \in io' : o.op = "read" => o \in io \/ (o \in DataIo /\ o.off + o.len <= length_flushed)
  BY DEF QueuesLeft
<1>3. mdq' \in Seq(CachedMessage)
  BY DEF QueuesLeft
<1>4. ReadInv'
  BY <1>1, <1>2, <1>3, ReadKept
<1> QED
  BY <1>4, LeftInv

LEMMA ReadOnwardKeeps ==
    ASSUME IInv, NEW t \in Threads, Relock(t) \/ ReadEnd(t) \/ ReadReap(t)
    PROVE  IInv'
<1> USE DEF sizeVars, flushVars, cacheVars, mdVars, dataVars, metaVars, durVars, readVars, seqVars
<1>1. FileLeft /\ UNCHANGED <<tree, mdq, io, length_flushed>> /\ UNCHANGED stale
  BY DEF Relock, ReadEnd, ReadReap, FileLeft
<1>2. thread \in [Threads -> ThreadState] /\ thread[t] \in ThreadState
      /\ sem \in [Threads -> Nat] /\ lock \in Threads \cup {NULL}
  BY DEF IInv, TypeInv, TypeOK
<1>3. ASSUME ThreadsLeft, CallsWithin' PROVE IInv'
  <2>1. ~stale'
    BY <1>1, Zenon DEF IInv, ReadInv
  <2>2. BuffersLeft /\ QueuesLeft
    BY <1>1, SameBuffers, SameQueues
  <2>3. \A b \in DOMAIN tree : Awaited(b) => Awaited(b)'
    BY <1>1 DEF Awaited
  <2> QED
    BY <1>1, <1>3, <2>1, <2>2, <2>3, ServedInv DEF QueueLeft
<1>4. CASE Relock(t)
  <2> DEFINE s == [thread[t] EXCEPT !.pc = "read"]
  <2>1. thread' = [thread EXCEPT ![t] = s] /\ thread[t].pc = "relock"
    BY <1>2, <1>4 DEF Relock, ThreadState
  <2>2. s \in ThreadState /\ s.pc = "read" /\ s.off = thread[t].off /\ s.rem = thread[t].rem
    BY <1>2 DEF ThreadState, Pcs
  <2> HIDE DEF s
  <2>3. /\ s.off + s.rem <= length_flushed /\ s.pc \in ReaderPcs /\ thread[t].pc \in ReaderPcs
        /\ lock' \in Threads \cup {NULL} /\ sem' \in [Threads -> Nat]
    BY <1>2, <1>4, <2>1, <2>2 DEF Relock, IInv, ReadInv, CallsWithin, ReaderPcs
  <2> QED
    BY <1>1, <1>3, <2>1, <2>2, <2>3, CallMoved
<1>5. CASE ReadEnd(t)
  <2> DEFINE s == [thread[t] EXCEPT !.pc = "reap"]
  <2>1. thread' = [thread EXCEPT ![t] = s] /\ thread[t].pc = "read"
    BY <1>2, <1>5 DEF ReadEnd, ThreadState
  <2>2. s \in ThreadState /\ s.pc = "reap"
    BY <1>2 DEF ThreadState, Pcs
  <2> HIDE DEF s
  <2>3. /\ s.pc \in ReaderPcs /\ thread[t].pc \in ReaderPcs
        /\ lock' \in Threads \cup {NULL} /\ sem' \in [Threads -> Nat]
    BY <1>2, <1>5, <2>1, <2>2 DEF ReadEnd, ReaderPcs
  <2> QED
    BY <1>1, <1>3, <2>1, <2>2, <2>3, CallMoved
<1>6. CASE ReadReap(t)
  <2>1. thread[t].pc = "reap" /\ UNCHANGED lock /\ "reap" \in ReaderPcs /\ "idle" \in ReaderPcs
    BY <1>6 DEF ReadReap, ReaderPcs
  <2>2. CASE thread[t].subs > 0
    <3> DEFINE s == [thread[t] EXCEPT !.subs = @ - 1]
    <3>1. thread' = [thread EXCEPT ![t] = s] /\ SemWait(t)
      BY <1>2, <1>6, <2>2 DEF ReadReap, ThreadState
    <3>2. s \in ThreadState /\ s.pc = "reap"
      BY <1>2, <2>1, <2>2 DEF ThreadState
    <3> HIDE DEF s
    <3>3. sem' \in [Threads -> Nat] /\ lock' \in Threads \cup {NULL}
      BY <1>2, <2>1, <3>1, SemWaitType DEF IInv, TypeInv
    <3> QED
      BY <1>1, <1>3, <2>1, <3>1, <3>2, <3>3, CallMoved
  <2>3. CASE ~(thread[t].subs > 0)
    <3>1. thread' = [thread EXCEPT ![t] = Idle] /\ UNCHANGED sem
      BY <1>6, <2>3 DEF ReadReap, Return
    <3>2. Idle \in ThreadState /\ Idle.pc = "idle"
      BY DEF Idle, ThreadState, Pcs
    <3>3. sem' \in [Threads -> Nat] /\ lock' \in Threads \cup {NULL}
      BY <1>2, <2>1, <3>1
    <3> QED
      BY <1>1, <1>3, <2>1, <3>1, <3>2, <3>3, CallMoved
  <2> QED
    BY <2>2, <2>3
<1> QED
  BY <1>4, <1>5, <1>6

\* The buffer that is hit holds the whole chunk: it is full, for the chunk is
\* flushed and so is the buffer up to there, or it is the one that is being
\* appended to.  A buffer that was read to its end was flushed to its end, so
\* that neither the writer nor a flush needs it.
LEMMA ReadHitKeeps ==
    ASSUME IInv, NEW t \in Threads, ReadHit(t)
    PROVE  IInv'
<1> USE DEF sizeVars, flushVars, cacheVars, mdVars, dataVars, metaVars, durVars, seqVars
<1> DEFINE b    == TreeFind(thread[t].off)
           copy == Min2(Chunk(t), b + tree[b].filled - thread[t].off)
<1>1. /\ thread[t].pc = "read" /\ b # NULL /\ tree[b].filled > 0 /\ thread[t].rem > 0
      /\ stale' = (stale \/ copy < Chunk(t))
      /\ \/ tree' = TreeRemove(b) /\ (thread[t].off + copy) % BufSize = 0
         \/ tree' = tree
      /\ Advance(t, "read", 0)
  BY DEF ReadHit, Hit
<1>2. FileLeft /\ UNCHANGED <<mdq, io, lock, sem, length_flushed>>
  BY DEF ReadHit, FileLeft
<1>3. b \in DOMAIN tree /\ b <= thread[t].off /\ thread[t].off < b + BufSize
  BY <1>1, FoundBuffer
<1>4. /\ b \in Nat /\ b % BufSize = 0 /\ BufSize \in Nat \ {0}
      /\ tree[b].filled \in Nat /\ tree[b].filled <= BufSize
  BY <1>3, BufferTypes DEF IInv, BufferInv
<1>5. /\ thread[t].off \in Nat /\ Chunk(t) \in Nat \ {0}
      /\ thread[t].off + Chunk(t) <= NextBufferOffset(thread[t].off)
      /\ thread[t].off + Chunk(t) <= length_flushed /\ length_flushed \in Nat
  BY <1>1, ChunkFlushed
<1> HIDE DEF b
<1>6. thread[t].off + Chunk(t) <= b + BufSize
  <2>1. thread[t].off % BufSize = thread[t].off - b
    BY <1>3, <1>4, <1>5, OffsetInBuffer
  <2> QED
    BY <1>4, <1>5, <2>1 DEF NextBufferOffset
<1>7. thread[t].off + Chunk(t) <= b + tree[b].filled
  <2>1. CASE b + BufSize <= length_flushed
    <3>1. tree[b].filled = BufSize
      BY <1>1, <1>3, <2>1 DEF IInv, BufferInv
    <3> QED
      BY <1>6, <3>1
  <2>2. CASE ~(b + BufSize <= length_flushed)
    <3>1. last # NULL
      BY <1>3, <2>2 DEF IInv, BufferInv
    <3>2. CASE b = last
      <4>1. length_flushed <= last + tree[last].filled
        BY <3>1 DEF IInv, BufferInv
      <4> QED
        BY <1>4, <1>5, <3>2, <4>1
    <3>3. CASE b # last
      <4>1. FullOrFlushed(b)
        BY <1>3, <3>1, <3>3 DEF IInv, TreeInv
      <4>2. tree[b].filled = BufSize
        BY <2>2, <4>1 DEF FullOrFlushed
      <4> QED
        BY <1>6, <4>2
    <3> QED
      BY <3>2, <3>3
  <2> QED
    BY <2>1, <2>2
<1>8. copy = Chunk(t)
  BY <1>4, <1>5, <1>7 DEF Min2
<1> HIDE DEF copy
<1>9. ~stale'
  <2>1. ~(copy < Chunk(t)) /\ ~stale
    BY <1>5, <1>8 DEF IInv, ReadInv
  <2> QED
    BY <1>1, <2>1, Zenon
<1>10. ThreadsLeft /\ CallsWithin'
  <2>1. lock' \in Threads \cup {NULL}
    BY <1>2 DEF IInv, TypeInv, TypeOK
  <2> QED
    BY <1>1, <1>2, <2>1, Advanced
<1>11. QueuesLeft /\ QueueLeft
  BY <1>2, SameQueues DEF QueueLeft
<1>12. CASE tree' = tree
  <2>1. \A c \in DOMAIN tree : Awaited(c) => Awaited(c)'
    BY <1>12 DEF Awaited
  <2> QED
    BY <1>2, <1>9, <1>10, <1>11, <1>12, <2>1, SameBuffers, ServedInv
<1>13. CASE tree' = TreeRemove(b) /\ (thread[t].off + copy) % BufSize = 0
  <2>1. DOMAIN tree' = DOMAIN tree \ {b} /\ \A c \in DOMAIN tree' : tree'[c] = tree[c]
    BY <1>13 DEF TreeRemove
  <2>2. tree' \in [DOMAIN tree' -> Buffer] /\ DOMAIN tree' \subseteq Nat
    <3>1. tree' = [c \in DOMAIN tree' |-> tree'[c]]
      BY <1>13 DEF TreeRemove
    <3> QED
      BY <2>1, <3>1, BufferTypes
  <2>3. b + BufSize <= length_flushed
    <3> DEFINE e == thread[t].off + Chunk(t)
    <3>1. e \in Nat /\ e % BufSize = 0 /\ b < e /\ e <= length_flushed
      BY <1>3, <1>4, <1>5, <1>8, <1>13
    <3> HIDE DEF e
    <3>2. b + BufSize <= e
      BY <1>4, <3>1, BoundaryGap
    <3> QED
      BY <1>4, <1>5, <3>1, <3>2
  <2>4. BuffersLeft
    BY <2>1, <2>2, <2>3 DEF BuffersLeft
  <2>5. \A c \in DOMAIN tree : Awaited(c) => Awaited(c)'
    BY <1>1, <1>3, <1>4, <2>1 DEF Awaited
  <2> QED
    BY <1>2, <1>9, <1>10, <1>11, <2>4, <2>5, ServedInv
<1> QED
  BY <1>1, <1>12, <1>13

LEMMA ReadMissKeeps ==
    ASSUME IInv, NEW t \in Threads, ReadMiss(t)
    PROVE  IInv'
<1> USE DEF sizeVars, flushVars, cacheVars, mdVars, dataVars, metaVars, durVars, readVars, seqVars
<1>1. /\ FileLeft /\ UNCHANGED <<tree, io, stale, length_flushed>>
      /\ thread[t].pc = "read" /\ lock' = NULL
  BY DEF ReadMiss, FileLeft
<1>2. ~stale'
  BY <1>1, Zenon DEF IInv, ReadInv
<1>3. BuffersLeft
  BY <1>1, SameBuffers
<1>4. \A c \in DOMAIN tree : Awaited(c) => Awaited(c)'
  BY <1>1 DEF Awaited
<1>5. CASE /\ mdq' = Append(mdq, RwMsg("read", t, thread[t].off, Chunk(t)))
           /\ Advance(t, "relock", 1) /\ UNCHANGED sem
  <2> DEFINE m == RwMsg("read", t, thread[t].off, Chunk(t))
  <2>1. /\ thread[t].off \in Nat /\ Chunk(t) \in Nat
        /\ thread[t].off + Chunk(t) <= length_flushed
    BY <1>1, ChunkFlushed
  <2>2. m \in CachedMessage /\ m.fn = "read" /\ m.off + m.len <= length_flushed
    BY <2>1 DEF RwMsg, CachedMessage
  <2> HIDE DEF m
  <2>3. mdq' = Append(mdq, m)
    BY <1>5 DEF m
  <2>4. QueueLeft
    BY <2>2, <2>3 DEF QueueLeft
  <2>5. QueuesLeft
    <3>1. mdq' \in Seq(CachedMessage)
      BY <2>2, <2>3, CachedQueue
    <3> QED
      BY <1>1, <3>1 DEF QueuesLeft, IInv, TypeInv, TypeOK, NoDirect
  <2>6. ThreadsLeft /\ CallsWithin'
    BY <1>1, <1>5, Advanced
  <2> QED
    BY <1>1, <1>2, <1>3, <1>4, <2>4, <2>5, <2>6, ServedInv
<1>6. CASE /\ UNCHANGED mdq /\ sem' = [sem EXCEPT ![t] = @ + 1]
           /\ thread' = [thread EXCEPT ![t].pc = "reap"]
  <2> DEFINE s == [thread[t] EXCEPT !.pc = "reap"]
  <2>1. /\ thread \in [Threads -> ThreadState] /\ thread[t] \in ThreadState
        /\ sem \in [Threads -> Nat]
    BY DEF IInv, TypeInv, TypeOK
  <2>2. thread' = [thread EXCEPT ![t] = s]
    BY <1>6, <2>1 DEF ThreadState
  <2>3. s \in ThreadState /\ s.pc = "reap"
    BY <2>1 DEF ThreadState, Pcs
  <2> HIDE DEF s
  <2>4. /\ s.pc \in ReaderPcs /\ thread[t].pc \in ReaderPcs
        /\ lock' \in Threads \cup {NULL} /\ sem' \in [Threads -> Nat]
    BY <1>1, <1>6, <2>1, <2>3 DEF ReaderPcs
  <2>5. ThreadsLeft /\ CallsWithin'
    BY <1>1, <2>2, <2>3, <2>4, CallMoved
  <2>6. QueuesLeft /\ QueueLeft
    BY <1>1, <1>6, SameQueues DEF QueueLeft
  <2> QED
    BY <1>1, <1>2, <1>3, <1>4, <2>5, <2>6, ServedInv
<1> QED
  BY <1>1, <1>5, <1>6 DEF ReadMiss

\* In a file that is synced, all of it is flushed.
LEMMA Synced ==
    ASSUME IInv, append_pos = length_xattr
    PROVE  length_flushed = append_pos
<1>1. length_xattr <= disk_len /\ disk_len <= xattr /\ xattr <= length_flushed
  BY DEF IInv, LengthInv
<1>2. /\ length_xattr \in Nat /\ disk_len \in Nat /\ xattr \in Nat
      /\ length_flushed \in Nat /\ append_pos \in Nat
  BY DEF IInv, TypeInv, TypeOK
<1> QED
  BY <1>1, <1>2, BufferTypes

\* In a file that is synced, a buffer that is not cached lies in what is
\* flushed, and its readahead asks for the whole of it.
LEMMA SyncedAhead ==
    ASSUME IInv, append_pos = length_xattr, NEW o \in Nat, o % BufSize = 0, o < append_pos,
           \A b \in DOMAIN tree : ~(b <= o /\ o < b + BufSize)
    PROVE  /\ o + BufSize <= length_flushed
           /\ ReadaheadMsg(o) = [fn |-> "readahead", off |-> o, len |-> BufSize]
<1>1. /\ append_pos \in Nat /\ length_flushed \in Nat /\ BufSize \in Nat \ {0}
      /\ length = append_pos
  BY BufferTypes DEF IInv, BufferInv
<1>2. length_flushed = append_pos
  BY Synced
<1>3. o + BufSize <= append_pos
  <2>1. CASE last = NULL
    <3>1. append_pos % BufSize = 0
      BY <2>1 DEF IInv, TreeInv
    <3> QED
      BY <1>1, <3>1, BoundaryGap
  <2>2. CASE last # NULL
    <3>1. /\ last \in DOMAIN tree /\ last \in Nat /\ tree[last].filled \in Nat
          /\ last % BufSize = 0 /\ tree[last].filled < BufSize
          /\ length_flushed <= last + tree[last].filled /\ last <= append_pos
      BY <2>2, BufferTypes, LastEnd DEF IInv, TreeInv, BufferInv
    <3>2. o < last
      BY <1>1, <1>2, <3>1
    <3>3. o + BufSize <= last
      BY <3>1, <3>2, BoundaryGap
    <3> QED
      BY <1>1, <3>1, <3>3
  <2> QED
    BY <2>1, <2>2
<1>4. ~(length < o + BufSize)
  BY <1>1, <1>3
<1> QED
  BY <1>2, <1>3, <1>4 DEF ReadaheadMsg

\* A call starts with its length cut to the file, which is flushed, and its
\* readahead has buffers of its own to fill.
LEMMA ReadCallKeeps ==
    ASSUME ReadDiscipline, IInv, NEW t \in Threads, NEW off \in 0 .. MaxLen, NEW n \in ReadSizes,
           NEW got1, NEW got2, ReadCall(t, off, n, got1, got2)
    PROVE  IInv'
<1> DEFINE len   == Min2(n, append_pos - off)
           seq   == Min2(Threshold, len + (IF off = next_seq_offset THEN seq_byte_count ELSE 0))
           ahead == IF seq < Threshold THEN <<>> ELSE Ahead(off, got1, got2)
           new   == {ahead[i] : i \in DOMAIN ahead}
           msgs  == [i \in DOMAIN ahead |-> ReadaheadMsg(ahead[i])]
           s     == [Idle EXCEPT !.pc = "read", !.off = off, !.rem = len]
           Waits(b) == b \in DOMAIN tree' /\ tree'[b].in_progress /\ tree'[b].filled = 0
<1>0. /\ append_pos \in Nat /\ length_flushed \in Nat /\ BufSize \in Nat \ {0}
      /\ DOMAIN tree \subseteq Nat /\ tree \in [DOMAIN tree -> Buffer] /\ length = append_pos
  BY BufferTypes DEF IInv, BufferInv
<1>1. off \in Nat /\ off < append_pos /\ n \in Nat /\ append_pos = length_xattr
  BY <1>0, SizeAssumption, ReadAssumption DEF ReadCall, ReadDiscipline
<1>2. length_flushed = append_pos /\ len \in Nat /\ off + len <= length_flushed
  <2>1. length_flushed = append_pos
    BY <1>1, Synced
  <2> QED
    BY <1>0, <1>1, <2>1 DEF Min2
<1>3. /\ tree' = [b \in DOMAIN tree \cup new |->
                    IF b \in DOMAIN tree THEN tree[b]
                    ELSE [EmptyBuffer EXCEPT !.in_progress = TRUE]]
      /\ mdq' = mdq \o msgs
      /\ thread' = [thread EXCEPT ![t] = s] /\ lock' = t /\ thread[t].pc = "idle"
  BY DEF ReadCall, Ahead
<1>4. FileLeft /\ UNCHANGED <<io, sem, stale, length_flushed>>
  BY DEF ReadCall, FileLeft, dataVars, sizeVars, flushVars, metaVars, durVars
<1>5. /\ ahead \in Seq(Nat)
      /\ \A i \in DOMAIN ahead :
           /\ ahead[i] \in Nat
           /\ ahead[i] % BufSize = 0 /\ ahead[i] < append_pos
           /\ \A b \in DOMAIN tree : ~(b <= ahead[i] /\ ahead[i] < b + BufSize)
           /\ ahead[i] \notin DOMAIN tree
           /\ \A j \in DOMAIN ahead : j # i => ahead[j] # ahead[i]
  <2>1. <<>> \in Seq(Nat) /\ DOMAIN <<>> = {}
    OBVIOUS
  <2> QED
    BY <1>0, <1>1, <2>1, AheadFacts
<1> HIDE DEF ahead
<1>6. \A i \in DOMAIN ahead :
        /\ msgs[i] = [fn |-> "readahead", off |-> ahead[i], len |-> BufSize]
        /\ ahead[i] + BufSize <= length_flushed
  BY <1>1, <1>5, SyncedAhead
<1>7. /\ msgs \in Seq(CachedMessage) /\ DOMAIN msgs = DOMAIN ahead
      /\ \A i \in DOMAIN ahead : msgs[i].fn = "readahead" /\ msgs[i].off = ahead[i]
                                   /\ msgs[i].len = BufSize
  <2>1. \A i \in DOMAIN ahead : msgs[i] \in CachedMessage
    BY <1>0, <1>5, <1>6 DEF CachedMessage
  <2>2. DOMAIN ahead = 1 .. Len(ahead) /\ Len(ahead) \in Nat
    BY <1>5
  <2> QED
    BY <1>6, <2>1, <2>2
<1> HIDE DEF msgs, len
<1>8. ThreadsLeft /\ CallsWithin'
  <2>1. s \in ThreadState /\ s.pc = "read" /\ s.off = off /\ s.rem = len
    BY <1>1, <1>2 DEF Idle, ThreadState, Pcs
  <2> HIDE DEF s
  <2>2. /\ s.pc \in ReaderPcs /\ thread[t].pc \in ReaderPcs
        /\ lock' \in Threads \cup {NULL} /\ sem' \in [Threads -> Nat]
    BY <1>3, <1>4, <2>1 DEF ReaderPcs, IInv, TypeInv, TypeOK
  <2> QED
    BY <1>2, <1>3, <1>4, <2>1, <2>2, CallMoved
<1>9. /\ mdq \in Seq(CachedMessage) /\ mdq' \in Seq(CachedMessage)
      /\ \A i \in DOMAIN mdq' :
           \/ i \in DOMAIN mdq /\ mdq'[i] = mdq[i]
           \/ i - Len(mdq) \in DOMAIN ahead /\ mdq'[i] = msgs[i - Len(mdq)]
      /\ Len(mdq) \in Nat /\ DOMAIN mdq' \subseteq Nat
  <2>1. mdq \in Seq(CachedMessage)
    BY DEF IInv, NoDirect
  <2>2. /\ mdq' \in Seq(CachedMessage) /\ Len(mdq') = Len(mdq) + Len(msgs)
        /\ \A i \in 1 .. Len(mdq) + Len(msgs) :
             mdq'[i] = IF i <= Len(mdq) THEN mdq[i] ELSE msgs[i - Len(mdq)]
    BY <1>3, <1>7, <2>1, ConcatProperties
  <2>3. /\ DOMAIN mdq' = 1 .. Len(mdq) + Len(msgs) /\ DOMAIN mdq = 1 .. Len(mdq)
        /\ DOMAIN ahead = 1 .. Len(msgs) /\ Len(mdq) \in Nat /\ Len(msgs) \in Nat
    BY <1>7, <2>1, <2>2
  <2> QED
    BY <2>1, <2>2, <2>3
<1>10. QueuesLeft
  BY <1>4, <1>9 DEF QueuesLeft, IInv, TypeInv, TypeOK, NoDirect
<1>11. /\ DOMAIN tree' = DOMAIN tree \cup new
       /\ \A b \in DOMAIN tree : tree'[b] = tree[b]
       /\ \A b \in new : tree'[b] = [filled |-> 0, flushed |-> 0, in_progress |-> TRUE]
  BY <1>3, <1>5 DEF EmptyBuffer
<1>12. BuffersLeft
  <2>1. \A b \in new : b \in Nat /\ b % BufSize = 0 /\ b + BufSize <= length_flushed
    BY <1>5, <1>6
  <2>2. \A b \in new : /\ tree'[b] \in Buffer /\ tree'[b].in_progress
                       /\ tree'[b].filled = 0 /\ tree'[b].flushed = 0
    <3>1. [filled |-> 0, flushed |-> 0, in_progress |-> TRUE] \in Buffer
      BY DEF Buffer
    <3> QED
      BY <1>11, <3>1
  <2>3. \A b \in DOMAIN tree' : b \in Nat /\ tree'[b] \in Buffer
    BY <1>0, <1>11, <2>1, <2>2
  <2>4. tree' = [b \in DOMAIN tree' |-> tree'[b]]
    BY <1>3
  <2>5. DOMAIN tree' \subseteq Nat /\ tree' \in [DOMAIN tree' -> Buffer]
    BY <2>3, <2>4
  <2> HIDE DEF new
  <2> QED
    BY <1>11, <2>1, <2>2, <2>5 DEF BuffersLeft
<1>13. ReadInv'
  <2>1. \A b : Awaited(b) => Waits(b) /\ b \in DOMAIN tree
    BY <1>11 DEF Awaited
  <2>2. \A i \in DOMAIN ahead : Waits(ahead[i]) /\ ahead[i] \notin DOMAIN tree
    <3>1. \A i \in DOMAIN ahead : ahead[i] \in new
      OBVIOUS
    <3> HIDE DEF new
    <3> QED
      BY <1>5, <1>11, <3>1
  <2> HIDE DEF Waits, new
  <2>3. ASSUME NEW i \in DOMAIN mdq', mdq'[i].fn = "readahead"
        PROVE  /\ Waits(mdq'[i].off) /\ mdq'[i].len = BufSize
               /\ \A j \in DOMAIN mdq' : j # i /\ mdq'[j].fn = "readahead" =>
                    mdq'[j].off # mdq'[i].off
               /\ \A o \in io : o.op = "readahead" => o.off # mdq'[i].off
    <3>1. CASE i \in DOMAIN mdq /\ mdq'[i] = mdq[i]
      <4>1. /\ Awaited(mdq[i].off) /\ mdq[i].len = BufSize
            /\ \A o \in io : o.op = "readahead" => o.off # mdq[i].off
        BY <2>3, <3>1 DEF IInv, ReadInv
      <4>2. ASSUME NEW j \in DOMAIN mdq', j # i, mdq'[j].fn = "readahead"
            PROVE  mdq'[j].off # mdq[i].off
        <5>1. CASE j \in DOMAIN mdq /\ mdq'[j] = mdq[j]
          BY <2>3, <3>1, <4>2, <5>1 DEF IInv, ReadInv
        <5>2. CASE j - Len(mdq) \in DOMAIN ahead /\ mdq'[j] = msgs[j - Len(mdq)]
          BY <1>7, <2>1, <2>2, <4>1, <5>2
        <5> QED
          BY <1>9, <5>1, <5>2
      <4> QED
        BY <2>1, <3>1, <4>1, <4>2
    <3>2. CASE i - Len(mdq) \in DOMAIN ahead /\ mdq'[i] = msgs[i - Len(mdq)]
      <4>1. /\ Waits(mdq'[i].off) /\ mdq'[i].off \notin DOMAIN tree
            /\ mdq'[i].len = BufSize
        BY <1>7, <2>2, <3>2
      <4>2. \A o \in io : o.op = "readahead" => o.off \in DOMAIN tree
        BY <2>1 DEF IInv, ReadInv
      <4>3. ASSUME NEW j \in DOMAIN mdq', j # i, mdq'[j].fn = "readahead"
            PROVE  mdq'[j].off # mdq'[i].off
        <5>1. CASE j \in DOMAIN mdq /\ mdq'[j] = mdq[j]
          <6>1. Awaited(mdq[j].off)
            BY <4>3, <5>1 DEF IInv, ReadInv
          <6> QED
            BY <2>1, <4>1, <5>1, <6>1
        <5>2. CASE j - Len(mdq) \in DOMAIN ahead /\ mdq'[j] = msgs[j - Len(mdq)]
          <6>1. j - Len(mdq) # i - Len(mdq)
            BY <1>9, <4>3
          <6> QED
            BY <1>5, <1>7, <3>2, <5>2, <6>1
        <5> QED
          BY <1>9, <5>1, <5>2
      <4> QED
        BY <4>1, <4>2, <4>3
    <3> QED
      BY <1>9, <3>1, <3>2
  <2>4. /\ \A o \in io : o.op = "readahead" => Waits(o.off) /\ o.len = BufSize
        /\ \A o \in io : o.op \in {"read", "readahead"} => o.off + o.len <= length_flushed
    BY <2>1 DEF IInv, ReadInv
  <2>5. \A i \in DOMAIN mdq' : mdq'[i].fn \in {"read", "readahead"} =>
          mdq'[i].off + mdq'[i].len <= length_flushed
    BY <1>6, <1>7, <1>9 DEF IInv, ReadInv
  <2>6. ~stale'
    BY <1>4, Zenon DEF IInv, ReadInv
  <2> QED
    BY <1>4, <1>8, <2>3, <2>4, <2>5, <2>6 DEF ReadInv, Awaited, Waits
<1> QED
  BY <1>4, <1>8, <1>10, <1>12, <1>13, LeftInv

-----------------------------------------------------------------------------
(* The metadata thread's steps.                                              *)

\* The oldest message.
LEMMA OldestMessage ==
    ASSUME IInv, mdq # <<>>
    PROVE  Head(mdq) \in CachedMessage /\ Head(mdq) = mdq[1] /\ 1 \in DOMAIN mdq
<1>1. mdq \in Seq(CachedMessage)
  BY DEF IInv, NoDirect
<1> QED
  BY <1>1

LEMMA DirectReadKeeps ==
    ASSUME IInv, DirectRead
    PROVE  IInv'
<1> USE DEF sizeVars, flushVars, cacheVars, mdVars, dataVars, metaVars, durVars, readVars, seqVars
<1> DEFINE m == Head(mdq)
           r == [op |-> "read", t |-> m.t, off |-> m.off, len |-> m.len]
<1>1. /\ mdq # <<>> /\ m.fn = "read" /\ mdq' = Tail(mdq)
      /\ FileLeft /\ UNCHANGED <<tree, lock, stale, length_flushed>>
  BY DEF DirectRead, Receives, FileLeft
<1>2. /\ \/ WakeFailed(m.t) /\ UNCHANGED io
         \/ io' = io \cup {r} /\ UNCHANGED <<sem, thread>>
  BY DEF DirectRead
<1>3. m.t \in Threads /\ m.off \in Nat /\ m.len \in Nat /\ m.off + m.len <= length_flushed
  <2>1. m \in CachedMessage /\ m = mdq[1] /\ 1 \in DOMAIN mdq
    BY <1>1, OldestMessage
  <2>2. m.t \in Threads /\ m.off \in Nat /\ m.len \in Nat
    BY <1>1, <2>1 DEF CachedMessage
  <2> HIDE DEF m
  <2>3. m.off + m.len <= length_flushed
    BY <1>1, <2>1 DEF IInv, ReadInv
  <2> QED
    BY <2>2, <2>3
<1> HIDE DEF m
<1>4. r \in DataIo /\ r.op = "read" /\ r.off + r.len <= length_flushed
  BY <1>3 DEF DataIo
<1> HIDE DEF r
<1>5. io' \subseteq io \cup {r}
  BY <1>2
<1>6. ~stale'
  BY <1>1, Zenon DEF IInv, ReadInv
<1>7. BuffersLeft /\ \A c \in DOMAIN tree : Awaited(c) => Awaited(c)'
  BY <1>1, SameBuffers DEF Awaited
<1>8. QueuesLeft /\ QueueLeft
  <2>1. mdq' \in Seq(CachedMessage)
    BY <1>1, CachedQueue
  <2>2. io \subseteq DataIo /\ \A o \in io : o.op # "write"
    BY DEF IInv, TypeInv, TypeOK, NoDirect
  <2> QED
    BY <1>1, <1>4, <1>5, <2>1, <2>2 DEF QueuesLeft, QueueLeft
<1>9. ThreadsLeft /\ CallsWithin'
  BY <1>1, <1>2, <1>3, Woken, SameThreads
<1>10. /\ \A o \in io' : o.op = "readahead" => o \in io
       /\ \A o \in io' : o.op = "read" => o \in io \/ o.off + o.len <= length_flushed
  BY <1>4, <1>5
<1> QED
  BY <1>1, <1>6, <1>7, <1>8, <1>9, <1>10, ServedInv

\* The device delivers bytes of the file, for they are flushed.
LEMMA GetFlushed ==
    ASSUME Discipline, IInv, NEW off \in Nat, NEW len \in Nat, off + len <= length_flushed,
           GetBytes(off, len)
    PROVE  ~stale'
<1>1. length_flushed \in Nat /\ \A x \in 0 .. length_flushed - 1 : x \in disk
  BY BufferTypes DEF IInv, FlushInv
<1>2. Bytes(off, len) \subseteq disk
  BY <1>1 DEF Bytes
<1>3. stale' = (stale \/ ~(Bytes(off, len) \subseteq disk)) /\ ~stale
  BY DEF GetBytes, Discipline, IInv, ReadInv
<1> QED
  BY <1>2, <1>3, Zenon

LEMMA DirectReadDoneKeeps ==
    ASSUME Discipline, IInv, NEW o \in io, DirectReadDone(o)
    PROVE  IInv'
<1> USE DEF sizeVars, flushVars, cacheVars, mdVars, dataVars, metaVars, durVars, seqVars
<1>1. /\ o.op = "read" /\ io' = io \ {o} /\ WakeCaller(o.t) /\ GetBytes(o.off, o.len)
      /\ FileLeft /\ UNCHANGED <<tree, mdq, lock, length_flushed>>
  BY DEF DirectReadDone, FileLeft
<1>2. o.t \in Threads /\ o.off \in Nat /\ o.len \in Nat /\ o.off + o.len <= length_flushed
  <2>1. o \in DataIo /\ o.off + o.len <= length_flushed
    BY <1>1 DEF IInv, TypeInv, TypeOK, ReadInv
  <2> QED
    BY <1>1, <2>1 DEF DataIo
<1>3. ~stale'
  BY <1>1, <1>2, GetFlushed
<1>4. BuffersLeft /\ \A c \in DOMAIN tree : Awaited(c) => Awaited(c)'
  BY <1>1, SameBuffers DEF Awaited
<1>5. QueuesLeft /\ QueueLeft
  BY <1>1, SameQueues DEF QueueLeft
<1>6. ThreadsLeft /\ CallsWithin'
  BY <1>1, <1>2, Woken
<1> QED
  BY <1>1, <1>3, <1>4, <1>5, <1>6, ServedInv

\* The message that is taken leaves the others as they were.
LEMMA RestOfQueue ==
    ASSUME IInv, mdq # <<>>, mdq' = Tail(mdq)
    PROVE  /\ mdq' \in Seq(CachedMessage)
           /\ \A i \in DOMAIN mdq' : mdq'[i].fn \in {"read", "readahead"} =>
                mdq'[i].off + mdq'[i].len <= length_flushed
           /\ \A i \in DOMAIN mdq' : mdq'[i].fn = "readahead" =>
                /\ Awaited(mdq'[i].off) /\ mdq'[i].len = BufSize
                /\ \A j \in DOMAIN mdq' : j # i /\ mdq'[j].fn = "readahead" =>
                     mdq'[j].off # mdq'[i].off
                /\ \A o \in io : o.op = "readahead" => o.off # mdq'[i].off
                /\ Head(mdq).fn = "readahead" => Head(mdq).off # mdq'[i].off
<1>1. /\ Head(mdq) = mdq[1] /\ 1 \in DOMAIN mdq /\ mdq' \in Seq(CachedMessage)
      /\ \A i \in DOMAIN mdq' :
           i \in Nat /\ i + 1 \in DOMAIN mdq /\ i + 1 # 1 /\ mdq'[i] = mdq[i + 1]
  <2>1. mdq \in Seq(CachedMessage) /\ mdq' \in Seq(CachedMessage)
    BY CachedQueue DEF IInv, NoDirect
  <2>2. DOMAIN mdq' = 1 .. Len(mdq') /\ Len(mdq') \in Nat
    BY <2>1
  <2> QED
    BY <2>1, <2>2
<1>2. \A i \in DOMAIN mdq' : mdq'[i].fn \in {"read", "readahead"} =>
        mdq'[i].off + mdq'[i].len <= length_flushed
  BY <1>1 DEF IInv, ReadInv
<1>3. ASSUME NEW i \in DOMAIN mdq', mdq'[i].fn = "readahead"
      PROVE  /\ Awaited(mdq'[i].off) /\ mdq'[i].len = BufSize
             /\ \A j \in DOMAIN mdq' : j # i /\ mdq'[j].fn = "readahead" =>
                  mdq'[j].off # mdq'[i].off
             /\ \A o \in io : o.op = "readahead" => o.off # mdq'[i].off
             /\ Head(mdq).fn = "readahead" => Head(mdq).off # mdq'[i].off
  <2>1. /\ i + 1 \in DOMAIN mdq /\ mdq[i + 1].fn = "readahead" /\ mdq'[i] = mdq[i + 1]
        /\ i + 1 # 1 /\ i \in Nat
    BY <1>1, <1>3
  <2>2. /\ Awaited(mdq[i + 1].off) /\ mdq[i + 1].len = BufSize
        /\ \A j \in DOMAIN mdq :
             j # i + 1 /\ mdq[j].fn = "readahead" => mdq[j].off # mdq[i + 1].off
        /\ \A o \in io : o.op = "readahead" => o.off # mdq[i + 1].off
    BY <2>1 DEF IInv, ReadInv
  <2>3. \A j \in DOMAIN mdq' : j # i => j + 1 # i + 1
    BY <1>1, <2>1
  <2> QED
    BY <1>1, <2>1, <2>2, <2>3
<1> QED
  BY <1>1, <1>2, <1>3

LEMMA ReadaheadKeeps ==
    ASSUME IInv, Readahead
    PROVE  IInv'
<1> USE DEF sizeVars, flushVars, cacheVars, userVars, metaVars, durVars, readVars, seqVars
<1> DEFINE m == Head(mdq)
           r == [op |-> "readahead", off |-> m.off, len |-> m.len]
<1>1. /\ mdq # <<>> /\ m.fn = "readahead" /\ mdq' = Tail(mdq) /\ io' = io \cup {r}
      /\ FileLeft /\ UNCHANGED <<tree, thread, sem, lock, stale, length_flushed>>
  BY DEF Readahead, Receives, FileLeft
<1>2. /\ m.off \in Nat /\ m.len \in Nat /\ m.off + m.len <= length_flushed
      /\ Awaited(m.off) /\ m.len = BufSize
  <2>1. m \in CachedMessage /\ m = mdq[1] /\ 1 \in DOMAIN mdq
    BY <1>1, OldestMessage
  <2>2. m.off \in Nat /\ m.len \in Nat
    BY <1>1, <2>1 DEF CachedMessage
  <2> HIDE DEF m
  <2>3. m.off + m.len <= length_flushed /\ Awaited(m.off) /\ m.len = BufSize
    BY <1>1, <2>1 DEF IInv, ReadInv
  <2> QED
    BY <2>2, <2>3
<1>3. r \in DataIo /\ r.op = "readahead" /\ r.off = m.off /\ r.len = m.len
  BY <1>2 DEF DataIo
<1> HIDE DEF r
<1>4. ThreadsLeft /\ CallsWithin' /\ BuffersLeft
  BY <1>1, SameThreads, SameBuffers
<1>5. QueuesLeft
  <2>1. io \subseteq DataIo /\ \A o \in io : o.op # "write"
    BY DEF IInv, TypeInv, TypeOK, NoDirect
  <2> QED
    BY <1>1, <1>3, <2>1, RestOfQueue DEF QueuesLeft
<1>6. ReadInv'
  <2>1. ~stale'
    BY <1>1, Zenon DEF IInv, ReadInv
  <2>2. /\ \A o \in io' : o.op = "readahead" => Awaited(o.off) /\ o.len = BufSize
        /\ \A o \in io' : o.op \in {"read", "readahead"} => o.off + o.len <= length_flushed
    BY <1>1, <1>2, <1>3 DEF IInv, ReadInv
  <2>3. ASSUME NEW i \in DOMAIN mdq', mdq'[i].fn = "readahead"
        PROVE  /\ Awaited(mdq'[i].off) /\ mdq'[i].len = BufSize
               /\ \A j \in DOMAIN mdq' : j # i /\ mdq'[j].fn = "readahead" =>
                    mdq'[j].off # mdq'[i].off
               /\ \A o \in io' : o.op = "readahead" => o.off # mdq'[i].off
    BY <1>1, <1>3, <2>3, RestOfQueue
  <2>4. \A i \in DOMAIN mdq' : mdq'[i].fn \in {"read", "readahead"} =>
          mdq'[i].off + mdq'[i].len <= length_flushed
    BY <1>1, RestOfQueue
  <2> QED
    BY <1>1, <1>4, <2>1, <2>2, <2>3, <2>4 DEF ReadInv, Awaited
<1> QED
  BY <1>1, <1>4, <1>5, <1>6, LeftInv

\* The buffer is there still, and gets the whole of its piece of the file.
LEMMA ReadaheadDoneKeeps ==
    ASSUME Discipline, IInv, NEW o \in io, ReadaheadDone(o)
    PROVE  IInv'
<1> USE DEF sizeVars, flushVars, userVars, mdVars, metaVars, durVars, seqVars
<1> DEFINE full == [filled |-> BufSize, flushed |-> BufSize, in_progress |-> FALSE]
<1>1. /\ o.op = "readahead" /\ io' = io \ {o} /\ GetBytes(o.off, o.len)
      /\ UNCHANGED <<thread, sem, lock, mdq, length_flushed>>
  BY DEF ReadaheadDone
<1>2. /\ o.off \in Nat /\ o.len \in Nat /\ o.off + o.len <= length_flushed
      /\ o.off \in DOMAIN tree /\ o.len = BufSize
  <2>1. /\ o \in DataIo /\ o.off + o.len <= length_flushed
        /\ o.off \in DOMAIN tree /\ o.len = BufSize
    BY <1>1 DEF IInv, TypeInv, TypeOK, ReadInv, Awaited
  <2> QED
    BY <1>1, <2>1 DEF DataIo
<1>3. tree' = [tree EXCEPT ![o.off] = full] /\ FileLeft
  BY <1>2 DEF ReadaheadDone, FileLeft
<1>4. ~stale'
  BY <1>1, <1>2, GetFlushed
<1>5. full \in Buffer /\ full.filled = BufSize /\ full.flushed = BufSize /\ ~full.in_progress
  BY SizeAssumption DEF Buffer
<1> HIDE DEF full
<1>6. /\ DOMAIN tree' = DOMAIN tree /\ tree' \in [DOMAIN tree' -> Buffer]
      /\ tree'[o.off] = full
      /\ \A b \in DOMAIN tree : b # o.off => tree'[b] = tree[b]
  BY <1>2, <1>3, <1>5, BufferTypes
<1>7. BuffersLeft
  <2>1. o.off % BufSize = 0 /\ DOMAIN tree \subseteq Nat
    BY <1>2, BufferTypes DEF IInv, BufferInv
  <2> QED
    BY <1>2, <1>5, <1>6, <2>1 DEF BuffersLeft
<1>8. ThreadsLeft /\ CallsWithin' /\ QueuesLeft
  BY <1>1, SameThreads, SameQueues
<1>9. ReadInv'
  <2>1. \A i \in DOMAIN mdq : mdq[i].fn = "readahead" => mdq[i].off # o.off
    BY <1>1 DEF IInv, ReadInv
  <2>2. ASSUME NEW p \in io', p.op = "readahead" PROVE p.off # o.off
    <3>1. p \in DataIo /\ o \in DataIo /\ p \in io
      BY <1>1 DEF IInv, TypeInv, TypeOK
    <3>2. p.len = BufSize
      BY <2>2, <3>1 DEF IInv, ReadInv
    <3>3. p = [op |-> "readahead", off |-> p.off, len |-> p.len]
      BY <2>2, <3>1 DEF DataIo
    <3>4. o = [op |-> "readahead", off |-> o.off, len |-> o.len]
      BY <1>1, <3>1 DEF DataIo
    <3> QED
      BY <1>1, <1>2, <3>2, <3>3, <3>4
  <2>3. \A b : Awaited(b) /\ b # o.off => Awaited(b)'
    BY <1>6 DEF Awaited
  <2>4. /\ \A i \in DOMAIN mdq : mdq[i].fn = "readahead" => Awaited(mdq[i].off)
        /\ \A p \in io' : p.op = "readahead" => Awaited(p.off) /\ p.len = BufSize
        /\ \A p \in io' : p.op \in {"read", "readahead"} => p.off + p.len <= length_flushed
    BY <1>1 DEF IInv, ReadInv
  <2>5. /\ \A i \in DOMAIN mdq : mdq[i].fn = "readahead" => Awaited(mdq[i].off)'
        /\ \A p \in io' : p.op = "readahead" => Awaited(p.off)'
    BY <1>1, <2>1, <2>2, <2>3, <2>4 DEF Awaited
  <2> QED
    BY <1>1, <1>4, <1>8, <2>4, <2>5 DEF IInv, ReadInv, Awaited
<1> QED
  BY <1>3, <1>7, <1>8, <1>9, LeftInv

-----------------------------------------------------------------------------
(* The theorems.                                                             *)

LEMMA ReadStepIInv ==
    ASSUME ReadDiscipline, IInv, [ReadNext]_vars
    PROVE  IInv'
<1>1. Discipline
  BY DEF ReadDiscipline
<1>2. CASE [Next]_vars
  BY <1>1, <1>2, StepIInv
<1>3. ASSUME NEW t \in Threads, ReadStep(t) PROVE IInv'
  BY <1>3, ReadCallKeeps, ReadOnwardKeeps, ReadHitKeeps, ReadMissKeeps DEF ReadStep, ReadOnward
<1>4. CASE MdReadStep
  BY <1>1, <1>4, DirectReadKeeps, ReadaheadKeeps, DirectReadDoneKeeps, ReadaheadDoneKeeps
     DEF MdReadStep
<1>5. ~Reclaim
  BY DEF Reclaim, ReadDiscipline
<1> QED
  BY <1>2, <1>3, <1>4, <1>5 DEF ReadNext

\* Under ReadDiscipline the invariant of FileCacheDurability survives the
\* readers too: the buffers that spdk_file_read frees and the ones that its
\* readahead adds lie in what is flushed (spdk_file_read, check_readahead,
\* __readahead_done, tree_remove_buffer).
THEOREM InductiveWithReaders ==
    ASSUME ReadDiscipline
    PROVE  ReadSpec => []IInv
<1>1. Init => IInv
  BY InitIInv DEF ReadDiscipline
<1>2. IInv /\ [ReadNext]_vars => IInv'
  BY ReadStepIInv
<1> QED
  BY <1>1, <1>2, PTL DEF ReadSpec

\* Under ReadDiscipline, while one thread appends and syncs and others read what
\* is synced, spdk_file_read returns bytes of the file, whichever of the cache,
\* the readahead and the device they come from.
THEOREM ReadersSeeTheFile ==
    ASSUME ReadDiscipline
    PROVE  ReadSpec => []ReadsTheFile
<1>1. IInv => ReadsTheFile
  BY Zenon DEF IInv, ReadInv, ReadsTheFile
<1> QED
  BY <1>1, InductiveWithReaders, PTL

\* Under ReadDiscipline, a sync that returned 0 keeps its word although readers
\* free and refill the buffers of the file.
THEOREM SyncIsDurableWithReaders ==
    ASSUME ReadDiscipline
    PROVE  ReadSpec => []SyncDurable
<1>1. IInv => SyncDurable
  BY DurableFromIInv
<1> QED
  BY <1>1, InductiveWithReaders, PTL

\* Under ReadDiscipline, whenever the machine stops, iter_cb finds a length that
\* covers only bytes that are on the device.
THEOREM LoadFindsDataWithReaders ==
    ASSUME ReadDiscipline
    PROVE  ReadSpec => []LengthBacked
<1>1. IInv => LengthBacked
  BY DurableFromIInv
<1> QED
  BY <1>1, InductiveWithReaders, PTL

\* Under ReadDiscipline, no write, flush or readahead uses a buffer that a
\* reader has freed.
THEOREM StaysDefinedWithReaders ==
    ASSUME ReadDiscipline
    PROVE  ReadSpec => []Defined
<1>1. IInv => Defined
  BY DurableFromIInv
<1> QED
  BY <1>1, InductiveWithReaders, PTL

\* Under ReadDiscipline, a reader that frees the buffers it has read to the end
\* loses no appended byte.
THEOREM NothingLostWithReaders ==
    ASSUME ReadDiscipline
    PROVE  ReadSpec => []NoLostBytes
<1>1. IInv => NoLostBytes
  BY NothingLostFromIInv
<1> QED
  BY <1>1, InductiveWithReaders, PTL

\* Under ReadDiscipline, neither length_xattr nor the length on the device ever
\* goes back: a reader writes no length.
THEOREM LengthNeverBackWithReaders ==
    ASSUME ReadDiscipline
    PROVE  ReadSpec => LengthMonotone
<1> USE DEF sizeVars, flushVars, metaVars, durVars
<1>1. ASSUME NEW t \in Threads, ReadStep(t) PROVE UNCHANGED <<length_xattr, disk_len>>
  <2>1. ASSUME NEW off, NEW n, NEW got1, NEW got2, ReadCall(t, off, n, got1, got2)
        PROVE  UNCHANGED <<length_xattr, disk_len>>
    BY <2>1 DEF ReadCall
  <2>2. ReadHit(t) \/ ReadMiss(t) \/ Relock(t) \/ ReadEnd(t) \/ ReadReap(t)
          => UNCHANGED <<length_xattr, disk_len>>
    BY DEF ReadHit, ReadMiss, Relock, ReadEnd, ReadReap
  <2> QED
    BY <1>1, <2>1, <2>2 DEF ReadStep, ReadOnward
<1>2. MdReadStep => UNCHANGED <<length_xattr, disk_len>>
  BY DEF MdReadStep, DirectRead, DirectReadDone, Readahead, ReadaheadDone
<1>3. ~Reclaim
  BY DEF Reclaim, ReadDiscipline
<1>4. ASSUME IInv, [ReadNext]_vars
      PROVE  length_xattr' >= length_xattr /\ disk_len' >= disk_len
  <2>1. CASE UNCHANGED <<length_xattr, disk_len>>
    BY <1>4, <2>1 DEF IInv, TypeInv, TypeOK
  <2>2. CASE [Next]_vars
    BY <1>4, <2>2, StepMonotone DEF ReadDiscipline
  <2>3. CASE \E t \in Threads : ReadStep(t)
    BY <1>1, <2>1, <2>3
  <2>4. CASE MdReadStep
    BY <1>2, <2>1, <2>4
  <2> QED
    BY <1>3, <1>4, <2>2, <2>3, <2>4 DEF ReadNext
<1>5. IInv /\ [ReadNext]_vars => [length_xattr' >= length_xattr /\ disk_len' >= disk_len]_vars
  BY <1>4
<1> QED
  BY <1>5, InductiveWithReaders, PTL DEF ReadSpec, LengthMonotone

=============================================================================
