------------------------- MODULE FileCacheDurability -------------------------
(***************************************************************************)
(* What spdk_file_sync promises, proved of FileCache for every value of its  *)
(* constants under Discipline, the conditions without which the runs of the *)
(* project show the promise broken: the file was opened at a buffer          *)
(* boundary, one thread writes, and neither the cache pool nor the device    *)
(* fails.                                                                   *)
(***************************************************************************)
EXTENDS FileCacheProofs

\* What the client and the environment keep to.
Discipline ==
    /\ \A n \in InitLens : n % BufSize = 0
    /\ ~MayFail("buffer") /\ ~MayFail("io")
    /\ \A t, u \in Writers : t = u

\* The messages, metadata writes and states of a thread that are left when no
\* write bypasses the cache.
CachedMessage == [fn : {"flush"}] \cup [fn : {"extend"}, t : Threads, size : Nat]
                   \cup [fn : {"read"}, t : Threads, off : Nat, len : Nat]
                   \cup [fn : {"readahead"}, off : Nat, len : Nat]
CachedPersist == [op : {"sync"}, val : Nat] \cup [op : {"extend"}, t : Threads, val : Nat]
CachedResize  == [op : {"extend"}, t : Threads, size : Nat, off : Nat, len : Nat]
ReaderPcs     == {"idle", "sync", "read", "relock", "reap"}
WriterPcs     == ReaderPcs \cup {"write", "extend", "copy", "fill"}

\* No write bypasses the cache and no step was undefined.
NoDirect ==
    /\ ub = "none"
    /\ mdq \in Seq(CachedMessage)
    /\ persists \in Seq(CachedPersist)
    /\ resizing \in CachedResize \cup {NULL}
    /\ \A o \in io : o.op # "write"
    /\ \A t \in Threads : thread[t].pc \in WriterPcs
    /\ \A t \in Threads \ Writers : thread[t].pc \in ReaderPcs

\* The thread is between the two halves of a turn of the fill loop.
Filling(t) == thread[t].pc = "fill"

FullOrFlushed(b) == tree[b].filled = BufSize \/ b + BufSize <= length_flushed

\* The buffers are disjoint and all but the last are full or flushed; the last
\* one ends where the file ends, less what the writer has in hand.
TreeInv ==
    /\ \A b, c \in DOMAIN tree : b < c => b + BufSize <= c
    /\ last = NULL => append_pos % BufSize = 0 /\ length_flushed = append_pos
    /\ last # NULL =>
         /\ last \in DOMAIN tree
         /\ last % BufSize = 0
         /\ \A b \in DOMAIN tree : b # last => b < last /\ FullOrFlushed(b)
         /\ (\A t \in Writers : ~Filling(t)) => last + tree[last].filled = append_pos
    /\ \A t \in Writers :
         /\ thread[t].pc \in {"extend", "copy", "fill"} => last # NULL
         /\ thread[t].pc \in {"copy", "fill"} => thread[t].last = last
         /\ Filling(t) => /\ last + tree[last].filled + thread[t].copy = append_pos
                          /\ tree[last].filled + thread[t].copy <= BufSize

\* The file is flushed up to length_flushed and cached from there on, the
\* buffer that holds length_flushed knows how far, and what is being flushed
\* starts there.
FlushInv ==
    /\ length_flushed <= append_pos
    /\ \A x \in 0 .. length_flushed - 1 : x \in disk
    /\ \A b \in DOMAIN tree :
         /\ b > length_flushed => tree[b].flushed = 0
         /\ b <= length_flushed /\ length_flushed < b + BufSize =>
              b + tree[b].flushed = length_flushed
    /\ \A x \in length_flushed .. append_pos - 1 :
         \E b \in DOMAIN tree : b <= x /\ x < b + BufSize
    /\ \A o \in io : o.op = "flush" =>
         o.off = length_flushed /\ o.buf + tree[o.buf].flushed = length_flushed

\* The lengths are ordered as they reach the device: promised, on the device,
\* being written, in the xattr, flushed.
LengthInv ==
    /\ promised <= disk_len /\ length_xattr <= disk_len
    /\ disk_len <= xattr /\ xattr <= length_flushed
    /\ \A i \in DOMAIN persists : disk_len <= persists[i].val /\ persists[i].val <= xattr
    /\ \A i, j \in DOMAIN persists : i < j => persists[i].val <= persists[j].val

\* The requests are in the order of their offsets, only the first is being
\* written, and the length written for it is the one it records.
RequestInv ==
    /\ \A i, j \in DOMAIN sync_requests :
         i < j => sync_requests[i].offset <= sync_requests[j].offset
    /\ \A i \in DOMAIN sync_requests :
         /\ sync_requests[i].offset <= append_pos
         /\ sync_requests[i].xattr_in_progress =>
              i = 1 /\ sync_requests[i].offset <= sync_requests[i].length
    /\ \A i \in DOMAIN persists : persists[i].op = "sync" =>
         /\ sync_requests # <<>>
         /\ sync_requests[1].xattr_in_progress
         /\ sync_requests[1].length = persists[i].val
    /\ \A i, j \in DOMAIN persists :
         persists[i].op = "sync" /\ persists[j].op = "sync" => i = j

\* The buffers lie on boundaries; the last one has room and is not flushed to
\* its end; one that lies in what is flushed was filled by a write or by a
\* readahead, or waits for its readahead.
BufferInv ==
    /\ length = append_pos
    /\ \A b \in DOMAIN tree : b % BufSize = 0
    /\ last = NULL => \A b \in DOMAIN tree : b + BufSize <= length_flushed
    /\ last # NULL => /\ tree[last].filled < BufSize
                      /\ length_flushed <= last + tree[last].filled
    /\ \A b \in DOMAIN tree : b + BufSize <= length_flushed =>
         tree[b].filled = IF tree[b].in_progress THEN 0 ELSE BufSize

\* The buffer at o waits for the readahead that was started for it.
Awaited(o) == o \in DOMAIN tree /\ tree[o].in_progress /\ tree[o].filled = 0

\* What is left of a read lies in what is flushed.
CallsWithin ==
    \A t \in Threads : thread[t].pc \in {"read", "relock"} =>
      thread[t].off + thread[t].rem <= length_flushed

\* No reader got what is not the file's; a read lies in what is flushed; and a
\* readahead is for a whole buffer that waits for it and for no other readahead.
ReadInv ==
    /\ ~stale
    /\ CallsWithin
    /\ \A i \in DOMAIN mdq : mdq[i].fn \in {"read", "readahead"} =>
         mdq[i].off + mdq[i].len <= length_flushed
    /\ \A o \in io : o.op \in {"read", "readahead"} => o.off + o.len <= length_flushed
    /\ \A i \in DOMAIN mdq : mdq[i].fn = "readahead" =>
         /\ Awaited(mdq[i].off) /\ mdq[i].len = BufSize
         /\ \A j \in DOMAIN mdq : j # i /\ mdq[j].fn = "readahead" => mdq[j].off # mdq[i].off
         /\ \A o \in io : o.op = "readahead" => o.off # mdq[i].off
    /\ \A o \in io : o.op = "readahead" => Awaited(o.off) /\ o.len = BufSize

\* The inductive invariant.
IInv == /\ TypeInv /\ NoDirect /\ TreeInv /\ FlushInv /\ LengthInv /\ RequestInv
        /\ BufferInv /\ ReadInv

-----------------------------------------------------------------------------
(* The steps that are left under Discipline.                                 *)

\* A multiple of the buffer size is followed by the next one.
LEMMA NextBoundary ==
    ASSUME NEW n \in Nat, n % BufSize = 0
    PROVE  (n + BufSize) % BufSize = 0
<1>1. BufSize \in Nat \ {0}
  BY SizeAssumption
<1>2. PICK q \in Nat : n = BufSize * q
  BY <1>1
<1> QED
  BY <1>1, <1>2

\* The writer copies into the last buffer, which has the room, and a buffer
\* that it fills up ends at append_pos, on a boundary and past every buffer.
LEMMA FillFacts ==
    ASSUME IInv, NEW t \in Writers, thread[t].pc = "fill"
    PROVE  /\ thread[t].last = last /\ last \in DOMAIN tree /\ last \in Nat
           /\ thread[t].copy \in Nat /\ tree[last] \in Buffer
           /\ BytesFilled(t) = tree[last].filled + thread[t].copy
           /\ BytesFilled(t) <= BufSize
           /\ append_pos = last + BytesFilled(t)
           /\ BytesFilled(t) = BufSize =>
                append_pos % BufSize = 0 /\ append_pos \notin DOMAIN tree
<1>1. /\ last # NULL /\ last \in DOMAIN tree /\ last % BufSize = 0
      /\ thread[t].last = last
      /\ last + tree[last].filled + thread[t].copy = append_pos
      /\ tree[last].filled + thread[t].copy <= BufSize
      /\ \A b \in DOMAIN tree : b # last => b < last
  BY DEF IInv, TreeInv, Filling
<1>2. /\ last \in Nat /\ tree[last] \in Buffer /\ thread[t] \in ThreadState
      /\ DOMAIN tree \subseteq Nat
  BY <1>1, ThreadAssumption DEF IInv, TypeInv, TypeOK
<1>3. thread[t].copy \in Nat /\ tree[last].filled \in Nat
  BY <1>2 DEF ThreadState, Buffer
<1>4. BytesFilled(t) = tree[last].filled + thread[t].copy
  BY <1>1 DEF BytesFilled
<1>5. ASSUME BytesFilled(t) = BufSize
      PROVE  append_pos % BufSize = 0 /\ append_pos \notin DOMAIN tree
  <2>1. append_pos = last + BufSize /\ BufSize \in Nat \ {0}
    BY <1>1, <1>2, <1>3, <1>4, <1>5, SizeAssumption
  <2>2. append_pos % BufSize = 0
    BY <1>1, <1>2, <2>1, NextBoundary
  <2> QED
    BY <1>1, <1>2, <2>1, <2>2
<1> QED
  BY <1>1, <1>2, <1>3, <1>4, <1>5

\* What a single turn of a full buffer does when the pool has another one.
FillNext(t) ==
    /\ tree' = Put(Filled(t), append_pos, EmptyBuffer)
    /\ last' = append_pos
    /\ \/ thread[t].rem = 0 /\ EndWrite(t, TRUE)
       \/ /\ thread[t].rem > 0
          /\ thread' = [thread EXCEPT ![t].pc = "copy", ![t].filled = TRUE,
                                      ![t].last = append_pos]
          /\ UNCHANGED <<lock, mdq>>

\* Every step of the specification is one of these or does nothing.
CachedWrite(t) ==
    \/ \E n \in WriteSizes : WriteCall(t, n)
    \/ WriteExtend(t) \/ WriteLocked(t) \/ ExtendReturn(t)
    \/ Copy(t) \/ FillPart(t) \/ (FillWhole(t) /\ FillNext(t))
CachedMd ==
    \/ FlushLater \/ FlushNoBuffer \/ FlushNothing \/ FlushWrite
    \/ CheckSyncReqs \/ FinishSync
    \/ Extend \/ ResizeDone \/ ExtendDone
    \/ \E o \in io : FlushDone(o)

LEMMA CachedSteps ==
    ASSUME Discipline, IInv, [Next]_vars
    PROVE  \/ \E t \in Writers : CachedWrite(t)
           \/ \E t \in Threads : SyncStep(t)
           \/ CachedMd
           \/ UNCHANGED vars
<1>1. ASSUME NEW t \in Writers, WriteStep(t) PROVE CachedWrite(t)
  <2>0. t \in Threads /\ thread[t].pc # "direct"
    BY ThreadAssumption DEF IInv, NoDirect, WriterPcs, ReaderPcs
  <2>1. ~WriteDirect(t)
    BY DEF IInv, TreeInv, WriteDirect, NoLast, Discipline
  <2>2. ~DirectReturn(t)
    BY <2>0 DEF DirectReturn
  <2>3. ~FillUndefined(t)
    <3>1. CASE thread[t].pc = "fill"
      <4>1. ~(BytesFilled(t) > BufSize)
        BY <3>1, FillFacts, SizeAssumption DEF Buffer
      <4> QED
        BY <3>1, <4>1, FillFacts DEF FillUndefined
    <3>2. CASE thread[t].pc = "copy"
      <4>1. thread[t].last \in DOMAIN tree
        BY <3>2 DEF IInv, TreeInv
      <4> QED
        BY <3>2, <4>1 DEF FillUndefined
    <3> QED
      BY <3>1, <3>2 DEF FillUndefined
  <2>4. FillWhole(t) => FillNext(t)
    BY DEF FillWhole, FillNext, Discipline
  <2> QED
    BY <1>1, <2>1, <2>2, <2>3, <2>4 DEF WriteStep, CachedWrite
<1>2. ASSUME MdStep PROVE CachedMd
  <2>1. ~DirectWrite
    <3>1. ASSUME DirectWrite PROVE FALSE
      <4>1. mdq # <<>> /\ Head(mdq).fn = "write" /\ mdq \in Seq(CachedMessage)
        BY <3>1 DEF DirectWrite, Receives, IInv, NoDirect
      <4>2. Head(mdq) \in CachedMessage
        BY <4>1
      <4> QED
        BY <4>1, <4>2 DEF CachedMessage
    <3> QED
      BY <3>1
  <2>2. ~TruncateDone
    <3>1. ASSUME TruncateDone PROVE FALSE
      <4>1. persists # <<>> /\ Head(persists).op = "truncate" /\ persists \in Seq(CachedPersist)
        BY <3>1 DEF TruncateDone, PersistOver, IInv, NoDirect
      <4>2. Head(persists) \in CachedPersist
        BY <4>1
      <4> QED
        BY <4>1, <4>2 DEF CachedPersist
    <3> QED
      BY <3>1
  <2>3. \A o \in io : ~DirectDone(o)
    BY DEF DirectDone, IInv, NoDirect
  <2> QED
    BY <1>2, <2>1, <2>2, <2>3 DEF MdStep, CachedMd
<1> QED
  BY <1>1, <1>2 DEF Next

-----------------------------------------------------------------------------
(* TreeInv.                                                                  *)

\* What TreeInv says of a writer stays true when the writer's step does not
\* concern the buffers.
Untouched(t) ==
    \/ /\ thread'[t].pc = thread[t].pc
       /\ thread'[t].last = thread[t].last
       /\ thread'[t].copy = thread[t].copy
    \/ thread[t].pc # "fill" /\ thread'[t].pc \notin {"extend", "copy", "fill"}

LEMMA TreeKept ==
    ASSUME IInv, UNCHANGED <<last, append_pos>>,
           DOMAIN tree' = DOMAIN tree,
           \A b \in DOMAIN tree : tree'[b].filled = tree[b].filled,
           \/ UNCHANGED length_flushed
           \/ last # NULL /\ length_flushed' \in Nat /\ length_flushed <= length_flushed',
           \A t \in Writers : Untouched(t)
    PROVE  TreeInv'
<1>1. TreeInv
  BY DEF IInv
<1>2. \A t \in Writers : /\ Filling(t)' <=> Filling(t)
                         /\ Filling(t) => thread'[t].copy = thread[t].copy
  BY DEF Untouched, Filling
<1>3. last # NULL => /\ last \in DOMAIN tree
                     /\ last % BufSize = 0
                     /\ \A b \in DOMAIN tree : b # last => b < last /\ FullOrFlushed(b)
                     /\ tree'[last].filled = tree[last].filled
  BY <1>1 DEF TreeInv
<1>7. \A b \in DOMAIN tree : FullOrFlushed(b) => FullOrFlushed(b)'
  <2>1. DOMAIN tree \subseteq Nat /\ length_flushed \in Nat /\ BufSize \in Nat
    BY SizeAssumption DEF IInv, TypeInv, TypeOK
  <2> QED
    BY <2>1 DEF FullOrFlushed
<1>4. \A t \in Writers :
        /\ thread'[t].pc \in {"extend", "copy", "fill"} => last # NULL
        /\ thread'[t].pc \in {"copy", "fill"} => thread'[t].last = last
  BY <1>1 DEF TreeInv, Untouched
<1>5. \A t \in Writers : Filling(t)' =>
        /\ last + tree'[last].filled + thread'[t].copy = append_pos
        /\ tree'[last].filled + thread'[t].copy <= BufSize
  BY <1>1, <1>2, <1>3 DEF TreeInv, Filling
<1>6. last # NULL /\ (\A t \in Writers : ~Filling(t)') => last + tree'[last].filled = append_pos
  BY <1>1, <1>2, <1>3 DEF TreeInv
<1> QED
  BY <1>1, <1>3, <1>4, <1>5, <1>6, <1>7 DEF TreeInv

\* With one writer, a step of the writer decides for all writers.
LEMMA OneWriter ==
    ASSUME Discipline, NEW t \in Writers
    PROVE  Writers = {t}
BY DEF Discipline

LEMMA Fields ==
    ASSUME TypeOK, NEW t \in Threads
    PROVE  /\ thread \in [Threads -> ThreadState] /\ thread[t] \in ThreadState
           /\ thread[t].rem \in Nat /\ thread[t].copy \in Nat
BY DEF TypeOK, ThreadState

\* An append that looks for its last buffer finds, or makes, one that ends at
\* append_pos.
LEMMA HaveLastTree ==
    ASSUME IInv, HaveLast, UNCHANGED length_flushed, \A t \in Writers : ~Filling(t)
    PROVE  /\ last' \in DOMAIN tree' /\ last' # NULL /\ last' % BufSize = 0
           /\ last' + tree'[last'].filled = append_pos
           /\ \A b \in DOMAIN tree' : b # last' => b < last' /\ FullOrFlushed(b)'
           /\ \A b, c \in DOMAIN tree' : b < c => b + BufSize <= c
<1>1. CASE last # NULL /\ UNCHANGED cacheVars
  BY <1>1 DEF IInv, TreeInv, cacheVars, FullOrFlushed
<1>2. CASE /\ last = NULL /\ append_pos % BufSize = 0
           /\ last' = append_pos /\ tree' = TreeWithLast
  <2>1. /\ append_pos \in Nat /\ append_pos # NULL /\ DOMAIN tree \subseteq Nat
        /\ length_flushed = append_pos /\ BufSize \in Nat \ {0}
        /\ \A b \in DOMAIN tree : b + BufSize <= length_flushed
    BY <1>2, ThreadAssumption, SizeAssumption DEF IInv, TypeInv, TypeOK, TreeInv, BufferInv
  <2>2. DOMAIN tree' = DOMAIN tree \cup {append_pos} /\ tree'[append_pos].filled = 0
    BY <1>2, <2>1 DEF TreeWithLast, Put, EmptyBuffer
  <2>3. \A b \in DOMAIN tree : b < append_pos /\ FullOrFlushed(b)'
    BY <2>1 DEF FullOrFlushed
  <2>4. \A b, c \in DOMAIN tree' : b < c => b + BufSize <= c
    <3> TAKE b, c \in DOMAIN tree'
    <3>1. CASE b \in DOMAIN tree /\ c \in DOMAIN tree
      BY <3>1 DEF IInv, TreeInv
    <3>2. CASE b \in DOMAIN tree /\ c = append_pos
      BY <2>1, <3>2
    <3>3. CASE b = append_pos
      BY <2>1, <2>2, <2>3, <3>3
    <3> QED
      BY <2>2, <3>1, <3>2, <3>3
  <2> QED
    BY <1>2, <2>1, <2>2, <2>3, <2>4
<1> QED
  BY <1>1, <1>2 DEF HaveLast

LEMMA WriteExtendTree ==
    ASSUME Discipline, IInv, NEW t \in Writers, WriteExtend(t)
    PROVE  TreeInv'
<1>1. Writers = {t} /\ t \in Threads /\ thread[t].pc = "write"
  BY OneWriter, ThreadAssumption DEF WriteExtend
<1>2. \A u \in Writers : ~Filling(u)
  BY <1>1 DEF Filling
<1>3. /\ last' \in DOMAIN tree' /\ last' # NULL /\ last' % BufSize = 0
      /\ last' + tree'[last'].filled = append_pos
      /\ \A b \in DOMAIN tree' : b # last' => b < last' /\ FullOrFlushed(b)'
      /\ \A b, c \in DOMAIN tree' : b < c => b + BufSize <= c
  BY <1>2, HaveLastTree DEF WriteExtend, flushVars
<1>4. thread'[t].pc = "extend"
  BY <1>1, Fields DEF IInv, TypeInv, WriteExtend, ThreadState
<1>5. append_pos' = append_pos
  BY DEF WriteExtend, sizeVars
<1> QED
  BY <1>1, <1>3, <1>4, <1>5 DEF TreeInv, Filling, FullOrFlushed

LEMMA WriteLockedTree ==
    ASSUME Discipline, IInv, NEW t \in Writers, WriteLocked(t)
    PROVE  TreeInv'
<1>1. Writers = {t} /\ t \in Threads /\ thread[t].pc = "write"
  BY OneWriter, ThreadAssumption DEF WriteLocked
<1>2. \A u \in Writers : ~Filling(u)
  BY <1>1 DEF Filling
<1>3. /\ last' \in DOMAIN tree' /\ last' # NULL /\ last' % BufSize = 0
      /\ last' + tree'[last'].filled = append_pos
      /\ \A b \in DOMAIN tree' : b # last' => b < last' /\ FullOrFlushed(b)'
      /\ \A b, c \in DOMAIN tree' : b < c => b + BufSize <= c
  BY <1>2, HaveLastTree DEF WriteLocked, flushVars
<1>4. (thread'[t].pc = "copy" /\ thread'[t].last = last') \/ thread'[t].pc = "idle"
  <2>1. thread \in [Threads -> ThreadState] /\ thread[t] \in ThreadState
    BY <1>1, Fields DEF IInv, TypeInv
  <2>2. CASE thread' = [thread EXCEPT ![t].pc = "copy", ![t].last = last']
    BY <1>1, <2>1, <2>2 DEF ThreadState
  <2>3. CASE Return(t)
    BY <1>1, <2>1, <2>3 DEF Return, Idle
  <2> QED
    BY <2>2, <2>3 DEF WriteLocked
<1>5. append_pos' = append_pos
  BY DEF WriteLocked, sizeVars
<1> QED
  BY <1>1, <1>3, <1>4, <1>5 DEF TreeInv, Filling, FullOrFlushed

LEMMA ExtendReturnTree ==
    ASSUME Discipline, IInv, NEW t \in Writers, ExtendReturn(t)
    PROVE  TreeInv'
<1>1. Writers = {t} /\ t \in Threads /\ thread[t].pc = "extend"
  BY OneWriter, ThreadAssumption DEF ExtendReturn
<1>2. (thread'[t].pc = "copy" /\ thread'[t].last = last) \/ thread'[t].pc = "idle"
  <2>1. thread \in [Threads -> ThreadState] /\ thread[t] \in ThreadState
    BY <1>1, Fields DEF IInv, TypeInv
  <2>2. CASE thread' = [thread EXCEPT ![t].pc = "copy", ![t].last = last]
    BY <1>1, <2>1, <2>2 DEF ThreadState
  <2>3. CASE Return(t)
    BY <1>1, <2>1, <2>3 DEF Return, Idle
  <2> QED
    BY <2>2, <2>3 DEF ExtendReturn
<1>3. UNCHANGED <<append_pos, length_flushed, last, tree>>
  BY DEF ExtendReturn, sizeVars, flushVars, cacheVars
<1> QED
  BY <1>1, <1>2, <1>3 DEF IInv, TreeInv, Filling, FullOrFlushed

LEMMA CopyTree ==
    ASSUME Discipline, IInv, NEW t \in Writers, Copy(t)
    PROVE  TreeInv'
<1> DEFINE copy == Min2(BufSize - tree[thread[t].last].filled, thread[t].rem)
<1>1. Writers = {t} /\ t \in Threads /\ thread[t].pc = "copy"
  BY OneWriter, ThreadAssumption DEF Copy
<1>2. /\ last # NULL /\ last \in DOMAIN tree /\ thread[t].last = last
      /\ last + tree[last].filled = append_pos
  BY <1>1 DEF IInv, TreeInv, Filling
<1>3. /\ last \in Nat /\ tree[last].filled \in Nat /\ tree[last].filled <= BufSize
      /\ thread[t].rem \in Nat /\ thread[t] \in ThreadState
      /\ thread \in [Threads -> ThreadState]
  BY <1>1, <1>2, ThreadAssumption, Fields DEF IInv, TypeInv, TypeOK, BuffersOK, Buffer
<1>4. copy \in Nat /\ tree[last].filled + copy <= BufSize
  BY <1>2, <1>3, SizeAssumption DEF Min2
<1>5. /\ append_pos' = append_pos + copy
      /\ thread' = [thread EXCEPT ![t].pc = "fill", ![t].copy = copy, ![t].rem = @ - copy]
      /\ UNCHANGED <<length_flushed, last, tree>>
  BY DEF Copy, flushVars, cacheVars
<1> HIDE DEF copy
<1>6. thread'[t].pc = "fill" /\ thread'[t].copy = copy /\ thread'[t].last = last
  BY <1>1, <1>2, <1>3, <1>5 DEF ThreadState
<1>7. last + tree[last].filled + copy = append_pos'
  BY <1>2, <1>3, <1>4, <1>5
<1> QED
  BY <1>1, <1>2, <1>4, <1>5, <1>6, <1>7 DEF IInv, TreeInv, Filling, FullOrFlushed

LEMMA FillPartTree ==
    ASSUME Discipline, IInv, NEW t \in Writers, FillPart(t)
    PROVE  TreeInv'
<1>1. Writers = {t} /\ t \in Threads /\ thread[t].pc = "fill"
  BY OneWriter, ThreadAssumption DEF FillPart
<1>2. /\ last # NULL /\ last \in DOMAIN tree /\ thread[t].last = last
      /\ last + BytesFilled(t) = append_pos
      /\ BytesFilled(t) <= BufSize
      /\ last % BufSize = 0
  BY <1>1, FillFacts DEF IInv, TreeInv
<1>3. tree \in [DOMAIN tree -> Buffer]
  BY DEF IInv, TypeInv, TypeOK
<1>4. /\ DOMAIN tree' = DOMAIN tree
      /\ tree'[last].filled = BytesFilled(t)
      /\ \A b \in DOMAIN tree : b # last => tree'[b] = tree[b]
  BY <1>2, <1>3 DEF FillPart, Filled, Buffer
<1>5. thread'[t].pc = "idle"
  BY <1>1, Fields DEF IInv, TypeInv, FillPart, EndWrite, Return, Idle
<1>6. UNCHANGED <<append_pos, length_flushed, last>>
  BY DEF FillPart, sizeVars, flushVars
<1> QED
  BY <1>1, <1>2, <1>4, <1>5, <1>6 DEF IInv, TreeInv, Filling, FullOrFlushed

LEMMA FillNextTree ==
    ASSUME Discipline, IInv, NEW t \in Writers, FillWhole(t), FillNext(t)
    PROVE  TreeInv'
<1>1. Writers = {t} /\ t \in Threads /\ thread[t].pc = "fill"
  BY OneWriter, ThreadAssumption DEF FillWhole
<1>2. /\ last # NULL /\ last \in DOMAIN tree /\ thread[t].last = last /\ last \in Nat
      /\ BytesFilled(t) = BufSize
      /\ append_pos = last + BufSize
      /\ append_pos % BufSize = 0 /\ append_pos \notin DOMAIN tree
  BY <1>1, FillFacts DEF IInv, TreeInv, FillWhole
<1>3. tree \in [DOMAIN tree -> Buffer] /\ DOMAIN tree \subseteq Nat
  BY DEF IInv, TypeInv, TypeOK
<1>4. /\ DOMAIN Filled(t) = DOMAIN tree
      /\ Filled(t)[last].filled = BufSize
      /\ \A b \in DOMAIN tree : b # last => Filled(t)[b] = tree[b]
  BY <1>2, <1>3 DEF Filled, Buffer
<1>5. /\ DOMAIN tree' = DOMAIN tree \cup {append_pos}
      /\ tree'[append_pos].filled = 0
      /\ \A b \in DOMAIN tree : FullOrFlushed(b)'
  <2>1. /\ DOMAIN tree' = DOMAIN tree \cup {append_pos}
        /\ tree'[append_pos].filled = 0
        /\ \A b \in DOMAIN tree : tree'[b] = Filled(t)[b]
    BY <1>2, <1>4 DEF FillNext, Put, EmptyBuffer
  <2>2. UNCHANGED length_flushed
    BY DEF FillWhole, flushVars
  <2>3. \A b \in DOMAIN tree : b # last => FullOrFlushed(b)
    BY <1>2 DEF IInv, TreeInv
  <2> QED
    BY <1>2, <1>4, <2>1, <2>2, <2>3 DEF FullOrFlushed
<1>6. (thread'[t].pc = "copy" /\ thread'[t].last = append_pos) \/ thread'[t].pc = "idle"
  <2>1. thread \in [Threads -> ThreadState] /\ thread[t] \in ThreadState
    BY <1>1, Fields DEF IInv, TypeInv
  <2>2. CASE thread' = [thread EXCEPT ![t].pc = "copy", ![t].filled = TRUE,
                                      ![t].last = append_pos]
    BY <1>1, <2>1, <2>2 DEF ThreadState
  <2>3. CASE EndWrite(t, TRUE)
    BY <1>1, <2>1, <2>3 DEF EndWrite, Return, Idle
  <2> QED
    BY <2>2, <2>3 DEF FillNext
<1>7. UNCHANGED <<append_pos, length_flushed>> /\ last' = append_pos /\ append_pos # NULL
  BY <1>2, ThreadAssumption, SizeAssumption DEF FillWhole, FillNext, sizeVars, flushVars
<1>8. \A b \in DOMAIN tree : b + BufSize <= append_pos /\ b < append_pos
  BY <1>2, <1>3, SizeAssumption DEF IInv, TreeInv
<1>9. \A b, c \in DOMAIN tree' : b < c => b + BufSize <= c
  <2> TAKE b, c \in DOMAIN tree'
  <2>1. CASE b \in DOMAIN tree /\ c \in DOMAIN tree
    BY <2>1 DEF IInv, TreeInv
  <2>2. CASE b \in DOMAIN tree /\ c = append_pos
    BY <1>8, <2>2
  <2>3. CASE b = append_pos
    BY <1>2, <1>3, <1>5, <1>8, <2>3, SizeAssumption
  <2> QED
    BY <1>5, <2>1, <2>2, <2>3
<1>10. \A b \in DOMAIN tree' : b # last' => b < last' /\ FullOrFlushed(b)'
  BY <1>5, <1>7, <1>8
<1>11. last' + tree'[last'].filled = append_pos'
  BY <1>2, <1>5, <1>7, SizeAssumption
<1> QED
  BY <1>1, <1>2, <1>5, <1>6, <1>7, <1>9, <1>10, <1>11 DEF TreeInv, Filling

\* __wake_caller leaves with its caller nothing but the outcome.
LEMMA WakeUntouched ==
    ASSUME TypeOK, NEW t \in Threads, WakeCaller(t) \/ WakeFailed(t)
    PROVE  \A u \in Threads : /\ thread'[u].pc = thread[u].pc
                              /\ thread'[u].last = thread[u].last
                              /\ thread'[u].copy = thread[u].copy
                              /\ thread'[u].off = thread[u].off
                              /\ thread'[u].rem = thread[u].rem
<1>1. thread \in [Threads -> ThreadState] /\ thread[t] \in ThreadState
  BY DEF TypeOK
<1>2. CASE UNCHANGED thread
  BY <1>2
<1>3. CASE thread' = [thread EXCEPT ![t].err = TRUE]
  BY <1>1, <1>3 DEF ThreadState
<1> QED
  BY <1>2, <1>3 DEF WakeCaller, WakeFailed

\* A request names its thread, and so do the extension and its metadata write.
LEMMA FinishSyncThreads ==
    ASSUME IInv, FinishSync
    PROVE  \A u \in Threads : /\ thread'[u].pc = thread[u].pc
                              /\ thread'[u].last = thread[u].last
                              /\ thread'[u].copy = thread[u].copy
                              /\ thread'[u].off = thread[u].off
                              /\ thread'[u].rem = thread[u].rem
<1>1. PICK i \in DOMAIN sync_requests :
         WakeCaller(sync_requests[i].t) \/ WakeFailed(sync_requests[i].t)
  BY DEF FinishSync
<1>2. sync_requests[i] \in SyncRequest
  BY <1>1 DEF IInv, TypeInv, TypeOK
<1>3. sync_requests[i].t \in Threads
  BY <1>2 DEF SyncRequest
<1> QED
  BY <1>1, <1>3, WakeUntouched DEF IInv, TypeInv

LEMMA ExtendThreads ==
    ASSUME IInv, Extend
    PROVE  /\ \A u \in Threads : /\ thread'[u].pc = thread[u].pc
                                 /\ thread'[u].last = thread[u].last
                                 /\ thread'[u].copy = thread[u].copy
                                 /\ thread'[u].off = thread[u].off
                                 /\ thread'[u].rem = thread[u].rem
           /\ UNCHANGED <<append_pos, length, xattr>>
           /\ resizing' \in CachedResize \cup {NULL}
           /\ \/ UNCHANGED persists
              \/ \E u \in Threads :
                   persists' = Append(persists, [op |-> "extend", t |-> u, val |-> xattr])
<1> DEFINE m == Head(mdq)
           r == [op |-> "extend", t |-> m.t, size |-> m.size, off |-> 0, len |-> 0]
<1>1. m \in Message /\ m.fn = "extend"
  BY ReceivesType DEF IInv, TypeInv, Extend
<1>2. m.t \in Threads /\ m.size \in Nat
  BY <1>1, ReceiverType DEF IInv, TypeInv
<1>3. BlobResize(r)
  BY DEF Extend
<1> HIDE DEF m
<1>4. r \in CachedResize /\ r.op = "extend" /\ r.t \in Threads
  BY <1>2 DEF CachedResize
<1> HIDE DEF r
<1>5. resizing \in CachedResize \cup {NULL}
  BY DEF IInv, NoDirect
<1>6. CASE ResizeCb(r) /\ UNCHANGED <<resizing, sem, thread>>
  BY <1>4, <1>5, <1>6 DEF ResizeCb, ExtendResized, sizeVars
<1>7. CASE resizing' = r /\ UNCHANGED <<sizeVars, persists, xattr, sem, thread>>
  BY <1>4, <1>7 DEF sizeVars
<1>8. CASE WakeFailed(r.t) /\ UNCHANGED <<sizeVars, persists, xattr, resizing>>
  BY <1>4, <1>5, <1>8, WakeUntouched DEF sizeVars, IInv, TypeInv
<1> QED
  BY <1>3, <1>6, <1>7, <1>8 DEF BlobResize

LEMMA ResizeDoneThreads ==
    ASSUME IInv, ResizeDone
    PROVE  /\ \A u \in Threads : /\ thread'[u].pc = thread[u].pc
                                 /\ thread'[u].last = thread[u].last
                                 /\ thread'[u].copy = thread[u].copy
                                 /\ thread'[u].off = thread[u].off
                                 /\ thread'[u].rem = thread[u].rem
           /\ UNCHANGED <<append_pos, length, xattr>>
           /\ \/ UNCHANGED persists
              \/ \E u \in Threads :
                   persists' = Append(persists, [op |-> "extend", t |-> u, val |-> xattr])
<1>1. resizing \in CachedResize
  BY DEF IInv, NoDirect, ResizeDone
<1>2. resizing.op = "extend" /\ resizing.t \in Threads
  BY <1>1 DEF CachedResize
<1>3. CASE ResizeCb(resizing) /\ UNCHANGED <<sem, thread>>
  BY <1>2, <1>3 DEF ResizeCb, ExtendResized, sizeVars
<1>4. CASE WakeFailed(resizing.t) /\ UNCHANGED <<sizeVars, blob_size, xattr, persists>>
  BY <1>2, <1>4, WakeUntouched DEF sizeVars, IInv, TypeInv
<1> QED
  BY <1>3, <1>4 DEF ResizeDone

LEMMA ExtendDoneThreads ==
    ASSUME IInv, ExtendDone
    PROVE  \A u \in Threads : /\ thread'[u].pc = thread[u].pc
                              /\ thread'[u].last = thread[u].last
                              /\ thread'[u].copy = thread[u].copy
                              /\ thread'[u].off = thread[u].off
                              /\ thread'[u].rem = thread[u].rem
<1>1. Head(persists) \in Persist /\ Head(persists).op = "extend"
  BY PersistType DEF IInv, TypeInv, ExtendDone
<1>2. Head(persists).t \in Threads
  BY <1>1 DEF Persist
<1> QED
  BY <1>2, WakeUntouched DEF IInv, TypeInv, ExtendDone

\* A flush that finds no buffer at length_flushed has nothing to flush: taking
\* the rest of the file for written is then no claim at all.
LEMMA NoBufferLeft ==
    ASSUME IInv, FlushNoBuffer
    PROVE  length_flushed = append_pos /\ length_flushed' = length_flushed
<1>1. \A b \in DOMAIN tree : ~(b <= length_flushed /\ length_flushed < b + BufSize)
  BY FindType DEF IInv, TypeInv, FlushNoBuffer, FlushNext
<1>2. length_flushed \in Nat /\ append_pos \in Nat /\ length_flushed <= append_pos
  BY DEF IInv, TypeInv, TypeOK, FlushInv
<1>3. length_flushed < append_pos =>
        \E b \in DOMAIN tree : b <= length_flushed /\ length_flushed < b + BufSize
  BY <1>2 DEF IInv, FlushInv
<1> QED
  BY <1>1, <1>2, <1>3 DEF FlushNoBuffer

\* What a flush does to the buffers: it marks one of them.
LEMMA FlushWriteFacts ==
    ASSUME IInv, FlushWrite
    PROVE  /\ FlushNext \in DOMAIN tree /\ FlushNext \in Nat
           /\ FlushNext + tree[FlushNext].flushed = length_flushed
           /\ DOMAIN tree' = DOMAIN tree
           /\ \A b \in DOMAIN tree : /\ tree'[b].filled = tree[b].filled
                                     /\ tree'[b].flushed = tree[b].flushed
<1>1. /\ FlushNext \in DOMAIN tree
      /\ FlushNext <= length_flushed /\ length_flushed < FlushNext + BufSize
  BY FindType DEF IInv, TypeInv, FlushWrite, Flushable, FlushNext
<1>2. /\ tree \in [DOMAIN tree -> Buffer] /\ FlushNext \in Nat
      /\ FlushNext + tree[FlushNext].flushed = length_flushed
  BY <1>1 DEF IInv, TypeInv, TypeOK, FlushInv
<1>3. /\ DOMAIN tree' = DOMAIN tree
      /\ \A b \in DOMAIN tree : /\ tree'[b].filled = tree[b].filled
                                /\ tree'[b].flushed = tree[b].flushed
  BY <1>1, <1>2 DEF FlushWrite, Buffer
<1> QED
  BY <1>1, <1>2, <1>3

LEMMA FlushDoneFacts ==
    ASSUME IInv, NEW o \in io, FlushDone(o)
    PROVE  /\ o.buf \in DOMAIN tree /\ o.buf \in Nat /\ o.len \in Nat \ {0}
           /\ last # NULL
           /\ tree[o.buf] \in Buffer /\ tree[o.buf].flushed + o.len <= tree[o.buf].filled
           /\ o.off = length_flushed /\ o.buf + tree[o.buf].flushed = length_flushed
           /\ length_flushed' = length_flushed + o.len
           /\ DOMAIN tree' = DOMAIN tree
           /\ \A b \in DOMAIN tree : tree'[b].filled = tree[b].filled
           /\ \A b \in DOMAIN tree : b # o.buf => tree'[b] = tree[b]
           /\ tree'[o.buf].flushed = tree[o.buf].flushed + o.len
<1>1. /\ o.op = "flush" /\ o \in DataIo
      /\ o.buf \in DOMAIN tree /\ o.len >= 1
      /\ tree[o.buf].flushed + o.len <= tree[o.buf].filled
      /\ o.off = length_flushed /\ o.buf + tree[o.buf].flushed = length_flushed
  BY DEF IInv, TypeInv, TypeOK, BuffersOK, FlushInv, FlushDone
<1>2. o.len \in Nat \ {0} /\ o.buf \in Nat
  BY <1>1 DEF DataIo
<1>3. tree \in [DOMAIN tree -> Buffer] /\ tree[o.buf] \in Buffer
  BY <1>1 DEF IInv, TypeInv, TypeOK
<1>8. last # NULL
  <2>1. tree[o.buf].filled \in Nat /\ tree[o.buf].flushed \in Nat
    BY <1>3 DEF Buffer
  <2> QED
    BY <1>1, <1>2, <2>1 DEF IInv, TypeInv, BuffersOK
<1>4. /\ tree' = [tree EXCEPT ![o.buf].in_progress = FALSE, ![o.buf].flushed = @ + o.len]
      /\ length_flushed' = length_flushed + o.len
  BY <1>1 DEF FlushDone
<1> DEFINE buf == [tree[o.buf] EXCEPT !.in_progress = FALSE,
                                      !.flushed = tree[o.buf].flushed + o.len]
<1>5. tree' = [tree EXCEPT ![o.buf] = buf]
  BY <1>1, <1>3, <1>4 DEF Buffer
<1>6. buf.filled = tree[o.buf].filled /\ buf.flushed = tree[o.buf].flushed + o.len
  BY <1>3 DEF Buffer
<1> HIDE DEF buf
<1>7. /\ DOMAIN tree' = DOMAIN tree
      /\ \A b \in DOMAIN tree : tree'[b].filled = tree[b].filled
      /\ \A b \in DOMAIN tree : b # o.buf => tree'[b] = tree[b]
      /\ tree'[o.buf].flushed = tree[o.buf].flushed + o.len
  BY <1>1, <1>3, <1>5, <1>6
<1> QED
  BY <1>1, <1>2, <1>3, <1>4, <1>7, <1>8

LEMMA TreeStep ==
    ASSUME Discipline, IInv, [Next]_vars
    PROVE  TreeInv'
<1> USE DEF sizeVars, flushVars, cacheVars, userVars, mdVars, dataVars, metaVars, durVars
<1>0. /\ Writers \subseteq Threads
      /\ thread \in [Threads -> ThreadState]
      /\ TypeOK
  BY ThreadAssumption DEF IInv, TypeInv, TypeOK
<1>1. ASSUME NEW t \in Writers, CachedWrite(t) PROVE TreeInv'
  <2>1. ASSUME NEW n \in WriteSizes, WriteCall(t, n) PROVE TreeInv'
    <3>1. \A u \in Writers : Untouched(u)
      BY <1>0, <2>1 DEF WriteCall, Idle, Untouched
    <3> QED
      BY <2>1, <3>1, TreeKept DEF WriteCall
  <2> QED
    BY <1>1, <2>1, WriteExtendTree, WriteLockedTree, ExtendReturnTree, CopyTree, FillPartTree,
       FillNextTree DEF CachedWrite
<1>2. ASSUME NEW t \in Threads, SyncStep(t) PROVE TreeInv'
  <2>1. \A u \in Writers : Untouched(u)
    <3>1. CASE SyncNothing(t)
      BY <3>1 DEF SyncNothing, Untouched
    <3>2. CASE SyncCall(t)
      BY <1>0, <3>2 DEF SyncCall, Idle, Untouched
    <3>3. CASE SyncReturn(t)
      BY <1>0, <3>3 DEF SyncReturn, Return, Idle, Untouched
    <3> QED
      BY <1>2, <3>1, <3>2, <3>3 DEF SyncStep
  <2>2. UNCHANGED <<last, tree, append_pos, length_flushed>>
    BY <1>2 DEF SyncStep, SyncNothing, SyncCall, SyncReturn
  <2> QED
    BY <2>1, <2>2, TreeKept
<1>3. CASE CachedMd
  <2>1. CASE FlushLater \/ FlushNothing \/ CheckSyncReqs
    <3>1. UNCHANGED <<last, tree, append_pos, length_flushed, thread>>
      BY <2>1 DEF FlushLater, FlushNothing, CheckSyncReqs
    <3> QED
      BY <3>1, TreeKept DEF Untouched
  <2>2. CASE FlushNoBuffer
    <3>1. UNCHANGED <<last, tree, append_pos, length_flushed, thread>>
      BY <2>2, NoBufferLeft DEF FlushNoBuffer
    <3> QED
      BY <3>1, TreeKept DEF Untouched
  <2>3. CASE FlushWrite
    <3>1. UNCHANGED <<last, append_pos, length_flushed, thread>>
      BY <2>3 DEF FlushWrite
    <3> QED
      BY <2>3, <3>1, FlushWriteFacts, TreeKept DEF Untouched
  <2>4. ASSUME NEW o \in io, FlushDone(o) PROVE TreeInv'
    <3>1. UNCHANGED <<last, append_pos, thread>>
      BY <2>4 DEF FlushDone
    <3> QED
      <4>1. length_flushed' \in Nat /\ length_flushed <= length_flushed' /\ last # NULL
        <5>1. length_flushed \in Nat
          BY DEF IInv, TypeInv, TypeOK
        <5>2. last # NULL /\ o.len \in Nat /\ length_flushed' = length_flushed + o.len
          BY <2>4, FlushDoneFacts
        <5> QED
          BY <5>1, <5>2
      <4> QED
        BY <2>4, <3>1, <4>1, FlushDoneFacts, TreeKept DEF Untouched
  <2>5. CASE FinishSync \/ Extend \/ ResizeDone \/ ExtendDone
    <3>1. \A u \in Writers : Untouched(u)
      BY <1>0, <2>5, FinishSyncThreads, ExtendThreads, ResizeDoneThreads, ExtendDoneThreads
         DEF Untouched
    <3>2. UNCHANGED append_pos
      BY <2>5, ExtendThreads, ResizeDoneThreads DEF FinishSync, ExtendDone
    <3>3. UNCHANGED <<last, tree, length_flushed>>
      BY <2>5 DEF FinishSync, Extend, ResizeDone, ExtendDone
    <3> QED
      BY <3>1, <3>2, <3>3, TreeKept
  <2> QED
    BY <1>3, <2>1, <2>2, <2>3, <2>4, <2>5 DEF CachedMd
<1>4. CASE UNCHANGED vars
  <2>1. UNCHANGED <<last, tree, append_pos, length_flushed, thread>>
    BY <1>4 DEF vars
  <2> QED
    BY <2>1, TreeKept DEF Untouched
<1> QED
  BY <1>1, <1>2, <1>3, <1>4, CachedSteps

-----------------------------------------------------------------------------
(* FlushInv.                                                                 *)

LEMMA FlushKept ==
    ASSUME IInv, UNCHANGED <<length_flushed, append_pos, disk, io>>,
           DOMAIN tree' = DOMAIN tree,
           \A b \in DOMAIN tree : tree'[b].flushed = tree[b].flushed
    PROVE  FlushInv'
<1>1. \A o \in io : o.op = "flush" => o.buf \in DOMAIN tree
  BY DEF IInv, TypeInv, BuffersOK
<1> QED
  BY <1>1 DEF IInv, FlushInv

LEMMA HaveLastFlush ==
    ASSUME IInv, HaveLast, UNCHANGED <<length_flushed, append_pos, disk, io>>
    PROVE  FlushInv'
<1>1. CASE last # NULL /\ UNCHANGED cacheVars
  BY <1>1, FlushKept DEF cacheVars
<1>2. CASE last = NULL /\ tree' = TreeWithLast
  <2>1. /\ append_pos \in Nat /\ length_flushed = append_pos /\ BufSize \in Nat \ {0}
        /\ DOMAIN tree \subseteq Nat
        /\ \A b \in DOMAIN tree : b + BufSize <= length_flushed
    BY <1>2, SizeAssumption DEF IInv, TypeInv, TypeOK, TreeInv, BufferInv
  <2>2. append_pos \notin DOMAIN tree
    BY <2>1
  <2>3. /\ DOMAIN tree' = DOMAIN tree \cup {append_pos} /\ tree'[append_pos].flushed = 0
        /\ \A b \in DOMAIN tree : tree'[b] = tree[b]
    BY <1>2, <2>1, <2>2 DEF TreeWithLast, Put, EmptyBuffer
  <2>4. \A o \in io : o.op # "flush"
    <3>1. ASSUME NEW o \in io, o.op = "flush" PROVE FALSE
      <4>1. /\ o.buf \in DOMAIN tree /\ o.len >= 1 /\ o \in DataIo
            /\ tree[o.buf].flushed + o.len <= tree[o.buf].filled
            /\ tree[o.buf].filled = tree[o.buf].flushed
            /\ tree[o.buf] \in Buffer
        BY <1>2, <3>1 DEF IInv, TypeInv, TypeOK, BuffersOK
      <4>2. o.len \in Nat /\ tree[o.buf].flushed \in Nat
        BY <3>1, <4>1 DEF DataIo, Buffer
      <4> QED
        BY <4>1, <4>2
    <3> QED
      BY <3>1
  <2>5. ASSUME NEW b \in DOMAIN tree'
        PROVE  /\ b > length_flushed => tree'[b].flushed = 0
               /\ b <= length_flushed /\ length_flushed < b + BufSize =>
                    b + tree'[b].flushed = length_flushed
    <3>1. CASE b \in DOMAIN tree
      BY <2>1, <3>1
    <3>2. CASE b = append_pos
      BY <2>1, <2>3, <3>2
    <3> QED
      BY <2>3, <3>1, <3>2
  <2> QED
    BY <2>1, <2>4, <2>5 DEF IInv, FlushInv
<1> QED
  BY <1>1, <1>2 DEF HaveLast

\* The bytes a copy appends belong to the last buffer.
LEMMA CopyFlush ==
    ASSUME Discipline, IInv, NEW t \in Writers, Copy(t)
    PROVE  FlushInv'
<1>1. UNCHANGED <<length_flushed, tree, last, disk, io>> /\ thread[t].pc = "copy"
  BY DEF Copy, flushVars, cacheVars, dataVars
<1>2. Writers = {t}
  BY OneWriter
<1>3. /\ last # NULL /\ last \in DOMAIN tree /\ thread[t].last = last
      /\ last + tree[last].filled = append_pos
  BY <1>1, <1>2 DEF IInv, TreeInv, Filling
<1>4. /\ last \in Nat /\ tree[last].filled \in Nat /\ tree[last].filled <= BufSize
      /\ append_pos \in Nat /\ length_flushed \in Nat /\ thread[t].rem \in Nat
  BY <1>3, ThreadAssumption, Fields DEF IInv, TypeInv, TypeOK, BuffersOK, Buffer
<1> DEFINE copy == Min2(BufSize - tree[last].filled, thread[t].rem)
<1>5. copy \in Nat /\ tree[last].filled + copy <= BufSize
  BY <1>4, SizeAssumption DEF Min2
<1>6. append_pos' = append_pos + copy
  BY <1>3 DEF Copy
<1> HIDE DEF copy
<1>7. length_flushed <= append_pos'
  BY <1>4, <1>5, <1>6 DEF IInv, FlushInv
<1>8. ASSUME NEW x \in length_flushed .. append_pos' - 1
      PROVE  \E b \in DOMAIN tree : b <= x /\ x < b + BufSize
  <2>1. CASE x < append_pos
    BY <1>4, <2>1 DEF IInv, FlushInv
  <2>2. CASE x >= append_pos
    <3>1. last <= x /\ x < last + BufSize
      BY <1>3, <1>4, <1>5, <1>6, <2>2, SizeAssumption
    <3> QED
      BY <1>3, <3>1
  <2> QED
    BY <1>4, <2>1, <2>2
<1> QED
  BY <1>1, <1>7, <1>8 DEF IInv, FlushInv

LEMMA FillPartFlush ==
    ASSUME IInv, NEW t \in Writers, FillPart(t)
    PROVE  FlushInv'
<1>1. tree \in [DOMAIN tree -> Buffer]
  BY DEF IInv, TypeInv, TypeOK
<1>2. /\ DOMAIN tree' = DOMAIN tree
      /\ \A b \in DOMAIN tree : tree'[b].flushed = tree[b].flushed
  BY <1>1 DEF FillPart, Filled, Buffer
<1> QED
  BY <1>2, FlushKept DEF FillPart, sizeVars, flushVars, dataVars

LEMMA FillNextFlush ==
    ASSUME IInv, NEW t \in Writers, FillWhole(t), FillNext(t)
    PROVE  FlushInv'
<1>1. tree \in [DOMAIN tree -> Buffer] /\ append_pos \in Nat /\ length_flushed \in Nat
  BY DEF IInv, TypeInv, TypeOK
<1>2. append_pos \notin DOMAIN tree /\ thread[t].last \in DOMAIN tree
  BY DEF FillWhole
<1>3. /\ DOMAIN Filled(t) = DOMAIN tree
      /\ \A b \in DOMAIN tree : Filled(t)[b].flushed = tree[b].flushed
  BY <1>1, <1>2 DEF Filled, Buffer
<1>4. /\ DOMAIN tree' = DOMAIN tree \cup {append_pos}
      /\ tree'[append_pos].flushed = 0
      /\ \A b \in DOMAIN tree : tree'[b].flushed = tree[b].flushed
  BY <1>2, <1>3 DEF FillNext, Put, EmptyBuffer
<1>5. UNCHANGED <<append_pos, length_flushed, disk, io>>
  BY DEF FillWhole, sizeVars, flushVars, dataVars
<1>6. \A o \in io : o.op = "flush" => o.buf \in DOMAIN tree
  BY DEF IInv, TypeInv, BuffersOK
<1>7. length_flushed <= append_pos
  BY DEF IInv, FlushInv
<1>8. ASSUME NEW b \in DOMAIN tree'
      PROVE  /\ b > length_flushed => tree'[b].flushed = 0
             /\ b <= length_flushed /\ length_flushed < b + BufSize =>
                  b + tree'[b].flushed = length_flushed
  <2>1. CASE b \in DOMAIN tree
    BY <1>4, <2>1 DEF IInv, FlushInv
  <2>2. CASE b = append_pos
    BY <1>1, <1>4, <1>7, <2>2
  <2> QED
    BY <1>4, <2>1, <2>2
<1>9. \A x \in length_flushed .. append_pos - 1 :
         \E b \in DOMAIN tree' : b <= x /\ x < b + BufSize
  BY <1>4 DEF IInv, FlushInv
<1>10. \A o \in io : o.op = "flush" =>
         o.off = length_flushed /\ o.buf + tree'[o.buf].flushed = length_flushed
  BY <1>4, <1>6 DEF IInv, FlushInv
<1> QED
  BY <1>5, <1>7, <1>8, <1>9, <1>10 DEF IInv, FlushInv

LEMMA FlushWriteFlush ==
    ASSUME IInv, FlushWrite
    PROVE  FlushInv'
<1> DEFINE b == FlushNext
           w == [op |-> "flush", buf |-> b, off |-> b + tree[b].flushed,
                 len |-> tree[b].filled - tree[b].flushed]
<1>1. /\ b \in DOMAIN tree
      /\ b + tree[b].flushed = length_flushed
      /\ DOMAIN tree' = DOMAIN tree
      /\ \A c \in DOMAIN tree : tree'[c].flushed = tree[c].flushed
  BY FlushWriteFacts
<1>2. io' = io \cup {w} /\ UNCHANGED <<append_pos, length_flushed, disk>>
  BY DEF FlushWrite, sizeVars, flushVars
<1>3. w.off = length_flushed /\ w.buf = b
  BY <1>1
<1> HIDE DEF b, w
<1>4. \A o \in io : o.op = "flush" => o.buf \in DOMAIN tree
  BY DEF IInv, TypeInv, BuffersOK
<1>5. \A o \in io' : o.op = "flush" =>
        o.off = length_flushed /\ o.buf + tree'[o.buf].flushed = length_flushed
  BY <1>1, <1>2, <1>3, <1>4 DEF IInv, FlushInv
<1> QED
  BY <1>1, <1>2, <1>5 DEF IInv, FlushInv

LEMMA LastEnd ==
    ASSUME IInv, last # NULL
    PROVE  last \in DOMAIN tree /\ last <= append_pos /\ last + tree[last].filled <= append_pos
<1>1. last \in DOMAIN tree
  BY DEF IInv, TreeInv
<1>2. last \in Nat /\ append_pos \in Nat /\ tree[last].filled \in Nat
  BY <1>1 DEF IInv, TypeInv, TypeOK, Buffer
<1>3. CASE \E t \in Writers : Filling(t)
  <2>1. PICK t \in Writers : Filling(t)
    BY <1>3
  <2>2. last + tree[last].filled + thread[t].copy = append_pos
    BY <2>1 DEF IInv, TreeInv
  <2>3. thread[t].copy \in Nat
    BY ThreadAssumption, Fields DEF IInv, TypeInv
  <2> QED
    BY <1>1, <1>2, <2>2, <2>3
<1>4. CASE \A t \in Writers : ~Filling(t)
  BY <1>1, <1>2, <1>4 DEF IInv, TreeInv
<1> QED
  BY <1>3, <1>4

\* The flush that completes starts at length_flushed and stays within what its
\* buffer holds, so length_flushed moves over bytes that are on the device; it
\* is the only one, for any other would be of the same buffer.
LEMMA FlushDoneFlush ==
    ASSUME Discipline, IInv, NEW o \in io, FlushDone(o)
    PROVE  FlushInv'
<1> DEFINE f == length_flushed + o.len
<1>1. /\ o.buf \in DOMAIN tree /\ o.buf \in Nat /\ o.len \in Nat \ {0}
      /\ last # NULL
      /\ tree[o.buf] \in Buffer /\ tree[o.buf].flushed + o.len <= tree[o.buf].filled
      /\ o.off = length_flushed /\ o.buf + tree[o.buf].flushed = length_flushed
      /\ length_flushed' = f
      /\ DOMAIN tree' = DOMAIN tree
      /\ \A b \in DOMAIN tree : b # o.buf => tree'[b] = tree[b]
      /\ tree'[o.buf].flushed = tree[o.buf].flushed + o.len
  BY FlushDoneFacts
<1>2. /\ tree \in [DOMAIN tree -> Buffer] /\ DOMAIN tree \subseteq Nat
      /\ length_flushed \in Nat /\ append_pos \in Nat
      /\ tree[o.buf].filled \in Nat /\ tree[o.buf].flushed \in Nat
      /\ tree[o.buf].filled <= BufSize /\ BufSize \in Nat
      /\ last \in Nat /\ f \in Nat
  <2>1. /\ tree \in [DOMAIN tree -> Buffer] /\ DOMAIN tree \subseteq Nat
        /\ length_flushed \in Nat /\ append_pos \in Nat /\ last \in Nat
    BY <1>1 DEF IInv, TypeInv, TypeOK
  <2>2. tree[o.buf].filled <= BufSize
    BY <1>1 DEF IInv, TypeInv, BuffersOK
  <2> QED
    BY <1>1, <2>1, <2>2, SizeAssumption DEF Buffer
<1>3. append_pos' = append_pos /\ io' = io \ {o} /\ disk' = disk \cup Bytes(length_flushed, o.len)
  BY <1>1 DEF FlushDone, Written, Discipline
<1>4. f <= o.buf + tree[o.buf].filled /\ f > length_flushed
  BY <1>1, <1>2
<1>5. o.buf + tree[o.buf].filled <= append_pos
  <2>1. last \in DOMAIN tree /\ last <= append_pos /\ last + tree[last].filled <= append_pos
    BY <1>1, LastEnd
  <2>2. CASE o.buf # last
    <3>1. o.buf + BufSize <= last
      BY <1>1, <2>1, <2>2 DEF IInv, TreeInv
    <3> QED
      BY <1>1, <1>2, <2>1, <3>1
  <2>3. CASE o.buf = last
    BY <2>1, <2>3
  <2> QED
    BY <2>2, <2>3
<1>6. f <= append_pos
  BY <1>1, <1>2, <1>4, <1>5
<1>7. \A x \in 0 .. f - 1 : x \in disk'
  <2> TAKE x \in 0 .. f - 1
  <2>1. CASE x < length_flushed
    BY <1>2, <1>3, <2>1 DEF IInv, FlushInv
  <2>2. CASE x >= length_flushed
    BY <1>1, <1>2, <1>3, <2>2 DEF Bytes
  <2> QED
    BY <1>2, <2>1, <2>2
<1>8. \A b, c \in DOMAIN tree : b < c => b + BufSize <= c
  BY DEF IInv, TreeInv
<1>9. ASSUME NEW b \in DOMAIN tree
      PROVE  /\ b > f => tree'[b].flushed = 0
             /\ b <= f /\ f < b + BufSize => b + tree'[b].flushed = f
  <2>1. CASE b = o.buf
    BY <1>1, <1>2, <1>4, <2>1
  <2>2. CASE b < o.buf
    <3>1. b + BufSize <= o.buf
      BY <1>1, <1>8, <2>2
    <3> QED
      BY <1>1, <1>2, <1>4, <2>2, <3>1
  <2>3. CASE b > o.buf
    <3>1. o.buf + BufSize <= b
      BY <1>1, <1>8, <2>3
    <3>2. b > length_flushed /\ f <= b
      BY <1>1, <1>2, <1>4, <3>1
    <3>3. tree[b].flushed = 0 /\ tree'[b] = tree[b]
      BY <1>1, <1>2, <2>3, <3>2 DEF IInv, FlushInv
    <3> QED
      BY <1>2, <3>2, <3>3
  <2> QED
    BY <1>1, <1>2, <2>1, <2>2, <2>3
<1>10. \A x \in f .. append_pos - 1 : \E b \in DOMAIN tree : b <= x /\ x < b + BufSize
  BY <1>2, <1>4 DEF IInv, FlushInv
<1>11. \A p \in io' : p.op # "flush"
  <2>1. ASSUME NEW p \in io, p.op = "flush" PROVE p = o
    <3>1. /\ o.op = "flush"
          /\ p.buf \in DOMAIN tree /\ p.len >= 1
          /\ tree[p.buf].flushed + p.len <= tree[p.buf].filled
          /\ p.buf + tree[p.buf].flushed = length_flushed
          /\ tree[p.buf].filled <= BufSize
      BY <2>1 DEF IInv, TypeInv, BuffersOK, FlushInv, FlushDone
    <3>2. p.len \in Nat
      BY <2>1 DEF IInv, TypeInv, TypeOK, DataIo
    <3>3. tree[p.buf].flushed \in Nat /\ tree[p.buf].filled \in Nat /\ p.buf \in Nat
      BY <1>2, <3>1 DEF Buffer
    <3>4. p.buf <= length_flushed /\ length_flushed < p.buf + BufSize
      BY <1>2, <3>1, <3>2, <3>3
    <3>5. o.buf <= length_flushed /\ length_flushed < o.buf + BufSize
      BY <1>1, <1>2
    <3>6. p.buf = o.buf
      BY <1>1, <1>2, <1>8, <3>1, <3>3, <3>4, <3>5
    <3> QED
      BY <2>1, <3>1, <3>6 DEF IInv, TypeInv, BuffersOK
  <2> QED
    BY <1>3, <2>1
<1> QED
  BY <1>1, <1>3, <1>6, <1>7, <1>9, <1>10, <1>11 DEF FlushInv

LEMMA FlushStep ==
    ASSUME Discipline, IInv, [Next]_vars
    PROVE  FlushInv'
<1> USE DEF sizeVars, flushVars, cacheVars, userVars, mdVars, dataVars, metaVars, durVars
<1>1. ASSUME NEW t \in Writers, CachedWrite(t) PROVE FlushInv'
  <2>1. ASSUME NEW n \in WriteSizes, WriteCall(t, n) PROVE FlushInv'
    BY <2>1, FlushKept DEF WriteCall
  <2>2. CASE WriteExtend(t)
    BY <2>2, HaveLastFlush DEF WriteExtend
  <2>3. CASE WriteLocked(t)
    BY <2>3, HaveLastFlush DEF WriteLocked
  <2>4. CASE ExtendReturn(t)
    BY <2>4, FlushKept DEF ExtendReturn
  <2> QED
    BY <1>1, <2>1, <2>2, <2>3, <2>4, CopyFlush, FillPartFlush, FillNextFlush DEF CachedWrite
<1>2. ASSUME NEW t \in Threads, SyncStep(t) PROVE FlushInv'
  <2>1. UNCHANGED <<length_flushed, append_pos, disk, io, tree>>
    BY <1>2 DEF SyncStep, SyncNothing, SyncCall, SyncReturn
  <2> QED
    BY <2>1, FlushKept
<1>3. CASE CachedMd
  <2>1. CASE FlushLater \/ FlushNothing \/ CheckSyncReqs
    <3>1. UNCHANGED <<length_flushed, append_pos, disk, io, tree>>
      BY <2>1 DEF FlushLater, FlushNothing, CheckSyncReqs
    <3> QED
      BY <3>1, FlushKept
  <2>2. CASE FlushNoBuffer
    BY <2>2, NoBufferLeft, FlushKept DEF FlushNoBuffer
  <2>3. CASE FinishSync \/ Extend \/ ResizeDone \/ ExtendDone
    <3>1. UNCHANGED append_pos
      BY <2>3, ExtendThreads, ResizeDoneThreads DEF FinishSync, ExtendDone
    <3>2. UNCHANGED <<length_flushed, disk, io, tree>>
      BY <2>3 DEF FinishSync, Extend, ResizeDone, ExtendDone
    <3> QED
      BY <3>1, <3>2, FlushKept
  <2> QED
    BY <1>3, <2>1, <2>2, <2>3, FlushWriteFlush, FlushDoneFlush DEF CachedMd
<1>4. CASE UNCHANGED vars
  BY <1>4, FlushKept DEF vars
<1> QED
  BY <1>1, <1>2, <1>3, <1>4, CachedSteps

-----------------------------------------------------------------------------
(* LengthInv and RequestInv.                                                 *)

LEMMA Lengths ==
    ASSUME TypeOK
    PROVE  /\ append_pos \in Nat /\ length_flushed \in Nat /\ length_xattr \in Nat
           /\ xattr \in Nat /\ disk_len \in Nat /\ promised \in Nat
           /\ persists \in Seq(Persist) /\ sync_requests \in Seq(SyncRequest)
           /\ \A i \in DOMAIN persists : persists[i].val \in Nat
           /\ \A i \in DOMAIN sync_requests : /\ sync_requests[i] \in SyncRequest
                                              /\ sync_requests[i].offset \in Nat
                                              /\ sync_requests[i].length \in Nat
<1>1. /\ append_pos \in Nat /\ length_flushed \in Nat /\ length_xattr \in Nat
      /\ xattr \in Nat /\ disk_len \in Nat /\ promised \in Nat
      /\ persists \in Seq(Persist) /\ sync_requests \in Seq(SyncRequest)
  BY DEF TypeOK
<1>2. \A i \in DOMAIN persists : persists[i] \in Persist
  BY <1>1
<1>3. \A p \in Persist : p.val \in Nat
  BY DEF Persist
<1>4. \A i \in DOMAIN sync_requests : sync_requests[i] \in SyncRequest
  BY <1>1
<1> QED
  BY <1>1, <1>2, <1>3, <1>4 DEF SyncRequest

LEMMA LengthKept ==
    ASSUME IInv, UNCHANGED <<promised, length_xattr, disk_len, xattr, persists>>,
           length_flushed' \in Nat, length_flushed <= length_flushed'
    PROVE  LengthInv'
<1>1. xattr \in Nat /\ length_flushed \in Nat
  BY Lengths DEF IInv, TypeInv
<1> QED
  BY <1>1 DEF IInv, LengthInv

\* A metadata write is started with the length that is in the xattr.
LEMMA PersistStarted ==
    ASSUME IInv, NEW p \in Persist, persists' = Append(persists, p),
           p.val = xattr', xattr' \in Nat, xattr <= xattr', xattr' <= length_flushed,
           UNCHANGED <<promised, length_xattr, disk_len, length_flushed>>
    PROVE  LengthInv'
<1>1. /\ xattr \in Nat /\ disk_len \in Nat /\ persists \in Seq(Persist)
      /\ \A i \in DOMAIN persists : persists[i].val \in Nat
  BY Lengths DEF IInv, TypeInv
<1>2. /\ DOMAIN persists' = 1 .. Len(persists) + 1 /\ DOMAIN persists = 1 .. Len(persists)
      /\ Len(persists) \in Nat
      /\ \A i \in DOMAIN persists : persists'[i] = persists[i]
      /\ persists'[Len(persists) + 1] = p
  BY <1>1
<1>3. /\ disk_len <= xattr
      /\ \A i \in DOMAIN persists : disk_len <= persists[i].val /\ persists[i].val <= xattr
      /\ \A i, j \in DOMAIN persists : i < j => persists[i].val <= persists[j].val
  BY DEF IInv, LengthInv
<1>4. disk_len <= xattr'
  BY <1>1, <1>3
<1>5. \A i \in DOMAIN persists' : disk_len <= persists'[i].val /\ persists'[i].val <= xattr'
  <2> TAKE i \in DOMAIN persists'
  <2>1. CASE i \in DOMAIN persists
    BY <1>1, <1>2, <1>3, <2>1
  <2>2. CASE i = Len(persists) + 1
    BY <1>2, <1>4, <2>2
  <2> QED
    BY <1>2, <2>1, <2>2
<1>6. \A i, j \in DOMAIN persists' : i < j => persists'[i].val <= persists'[j].val
  <2> TAKE i, j \in DOMAIN persists'
  <2> HAVE i < j
  <2>1. i \in DOMAIN persists
    BY <1>2
  <2>2. CASE j \in DOMAIN persists
    BY <1>2, <1>3, <2>1, <2>2
  <2>3. CASE j = Len(persists) + 1
    BY <1>2, <1>5, <2>1, <2>3
  <2> QED
    BY <1>2, <2>2, <2>3
<1> QED
  BY <1>4, <1>5, <1>6 DEF IInv, LengthInv

\* The oldest metadata write completes: its length replaces a smaller one, and
\* no younger one is smaller.
LEMMA PersistCompleted ==
    ASSUME IInv, persists # <<>>, persists' = Tail(persists), disk_len' = Head(persists).val,
           UNCHANGED <<xattr, length_flushed>>,
           promised' <= disk_len', length_xattr' <= disk_len'
    PROVE  LengthInv' /\ disk_len <= disk_len'
<1>1. /\ persists \in Seq(Persist) /\ xattr \in Nat /\ disk_len \in Nat
      /\ \A i \in DOMAIN persists : persists[i].val \in Nat
  BY Lengths DEF IInv, TypeInv
<1>2. /\ DOMAIN persists = 1 .. Len(persists) /\ Len(persists) \in Nat \ {0}
      /\ DOMAIN persists' = 1 .. Len(persists) - 1
      /\ \A i \in DOMAIN persists' : i + 1 \in DOMAIN persists /\ persists'[i] = persists[i + 1]
      /\ 1 \in DOMAIN persists /\ Head(persists) = persists[1]
  BY <1>1
<1>3. /\ \A i \in DOMAIN persists : disk_len <= persists[i].val /\ persists[i].val <= xattr
      /\ \A i, j \in DOMAIN persists : i < j => persists[i].val <= persists[j].val
      /\ xattr <= length_flushed
  BY DEF IInv, LengthInv
<1>4. disk_len <= disk_len' /\ disk_len' <= xattr
  BY <1>2, <1>3
<1>5. \A i \in DOMAIN persists' : disk_len' <= persists'[i].val /\ persists'[i].val <= xattr
  <2> TAKE i \in DOMAIN persists'
  <2>1. i + 1 \in DOMAIN persists /\ 1 < i + 1 /\ persists'[i] = persists[i + 1]
    BY <1>2
  <2> QED
    BY <1>2, <1>3, <2>1
<1>6. \A i, j \in DOMAIN persists' : i < j => persists'[i].val <= persists'[j].val
  <2> TAKE i, j \in DOMAIN persists'
  <2> HAVE i < j
  <2>1. i + 1 \in DOMAIN persists /\ j + 1 \in DOMAIN persists /\ i + 1 < j + 1
    BY <1>2
  <2> QED
    BY <1>2, <1>3, <2>1
<1> QED
  BY <1>3, <1>4, <1>5, <1>6 DEF LengthInv

\* The write of the metadata that completes for a sync is the one of the first
\* request, with the length the request records.
LEMMA FinishSyncFacts ==
    ASSUME Discipline, IInv, FinishSync
    PROVE  /\ persists # <<>> /\ Head(persists).op = "sync" /\ persists' = Tail(persists)
           /\ disk_len' = Head(persists).val
           /\ 1 \in DOMAIN sync_requests
           /\ sync_requests[1].length = Head(persists).val
           /\ sync_requests[1].offset <= sync_requests[1].length
           /\ length_xattr' = sync_requests[1].length
           /\ promised' = Max2(promised, sync_requests[1].offset)
           /\ sync_requests' = RemoveRequest(1)
<1>1. /\ persists # <<>> /\ Head(persists).op = "sync" /\ persists' = Tail(persists)
  BY DEF FinishSync, PersistOver
<1>2. PICK i \in DOMAIN sync_requests :
         /\ sync_requests[i].xattr_in_progress
         /\ length_xattr' = sync_requests[i].length
         /\ sync_requests' = RemoveRequest(i)
         /\ LengthPersisted
         /\ promised' = Max2(promised, sync_requests[i].offset)
  BY DEF FinishSync, Discipline
<1>3. i = 1 /\ sync_requests[i].offset <= sync_requests[i].length
  BY <1>2 DEF IInv, RequestInv
<1>4. 1 \in DOMAIN persists /\ Head(persists) = persists[1]
  BY <1>1, Lengths DEF IInv, TypeInv
<1>5. sync_requests[1].length = Head(persists).val
  BY <1>1, <1>4 DEF IInv, RequestInv
<1> QED
  BY <1>1, <1>2, <1>3, <1>5 DEF LengthPersisted

\* A check of the requests starts nothing, or a write for the first request,
\* which no write was started for and which is flushed.
LEMMA CheckFacts ==
    ASSUME IInv, CheckSyncReqs
    PROVE  \/ UNCHANGED <<sync_requests, xattr, persists>>
           \/ /\ 1 \in DOMAIN sync_requests
              /\ ~sync_requests[1].xattr_in_progress
              /\ sync_requests[1].offset <= length_flushed
              /\ sync_requests' = [sync_requests EXCEPT ![1].xattr_in_progress = TRUE,
                                                        ![1].length = length_flushed]
              /\ xattr' = length_flushed
              /\ persists' = Append(persists, [op |-> "sync", val |-> length_flushed])
<1>1. ASSUME NEW i \in Satisfied, IsFirstSatisfied(i)
      PROVE  i = 1
  <2>1. /\ sync_requests \in Seq(SyncRequest) /\ length_flushed \in Nat
        /\ \A k \in DOMAIN sync_requests : sync_requests[k].offset \in Nat
    BY Lengths DEF IInv, TypeInv
  <2>2. i \in DOMAIN sync_requests /\ sync_requests[i].offset <= length_flushed
    BY DEF Satisfied
  <2>3. 1 \in DOMAIN sync_requests /\ 1 <= i
    BY <2>1, <2>2
  <2>4. sync_requests[1].offset <= length_flushed
    <3>1. CASE i = 1
      BY <2>2, <3>1
    <3>2. CASE 1 < i
      <4>1. sync_requests[1].offset <= sync_requests[i].offset
        BY <2>2, <2>3, <3>2 DEF IInv, RequestInv
      <4> QED
        BY <2>1, <2>2, <2>3, <4>1
    <3> QED
      BY <2>1, <2>2, <2>3, <3>1, <3>2
  <2>5. i <= 1
    BY <1>1, <2>3, <2>4 DEF IsFirstSatisfied, Satisfied
  <2> QED
    BY <2>1, <2>2, <2>3, <2>5
<1>2. ASSUME NEW i \in Satisfied,
             /\ IsFirstSatisfied(i) /\ ~sync_requests[i].xattr_in_progress
             /\ sync_requests' = [sync_requests EXCEPT ![i].xattr_in_progress = TRUE,
                                                       ![i].length = length_flushed]
             /\ xattr' = length_flushed
             /\ persists' = Append(persists, [op |-> "sync", val |-> length_flushed])
      PROVE  /\ 1 \in DOMAIN sync_requests
             /\ ~sync_requests[1].xattr_in_progress
             /\ sync_requests[1].offset <= length_flushed
             /\ sync_requests' = [sync_requests EXCEPT ![1].xattr_in_progress = TRUE,
                                                       ![1].length = length_flushed]
             /\ xattr' = length_flushed
             /\ persists' = Append(persists, [op |-> "sync", val |-> length_flushed])
  <2>1. i = 1
    BY <1>1, <1>2
  <2> QED
    BY <1>2, <2>1 DEF Satisfied
<1> QED
  BY <1>2 DEF CheckSyncReqs

LEMMA LengthStep ==
    ASSUME Discipline, IInv, [Next]_vars
    PROVE  LengthInv'
<1> USE DEF sizeVars, flushVars, cacheVars, userVars, mdVars, dataVars, metaVars, durVars
<1>0. /\ append_pos \in Nat /\ length_flushed \in Nat /\ length_xattr \in Nat
      /\ xattr \in Nat /\ disk_len \in Nat /\ promised \in Nat
      /\ persists \in Seq(Persist)
      /\ length_flushed <= length_flushed
      /\ xattr <= xattr
      /\ LengthInv
  BY Lengths DEF IInv, TypeInv
<1>1. ASSUME NEW t \in Writers, CachedWrite(t) PROVE LengthInv'
  <2>1. UNCHANGED <<promised, length_xattr, disk_len, xattr, persists, length_flushed>>
    BY <1>1 DEF CachedWrite, WriteCall, WriteExtend, WriteLocked, ExtendReturn, Copy, FillPart,
                FillWhole
  <2> QED
    BY <1>0, <2>1, LengthKept
<1>2. ASSUME NEW t \in Threads, SyncStep(t) PROVE LengthInv'
  <2>1. CASE SyncNothing(t)
    <3>1. /\ append_pos <= length_xattr /\ promised' = Max2(promised, append_pos)
          /\ UNCHANGED <<length_xattr, disk_len, xattr, persists, length_flushed>>
      BY <2>1 DEF SyncNothing
    <3>2. promised' <= disk_len
      BY <1>0, <3>1 DEF LengthInv, Max2
    <3> QED
      BY <1>0, <3>1, <3>2 DEF LengthInv
  <2>2. CASE SyncCall(t) \/ SyncReturn(t)
    <3>1. UNCHANGED <<promised, length_xattr, disk_len, xattr, persists, length_flushed>>
      BY <2>2 DEF SyncCall, SyncReturn
    <3> QED
      BY <1>0, <3>1, LengthKept
  <2> QED
    BY <1>2, <2>1, <2>2 DEF SyncStep
<1>3. CASE CachedMd
  <2>1. CASE FlushLater \/ FlushNothing \/ FlushWrite
    <3>1. UNCHANGED <<promised, length_xattr, disk_len, xattr, persists, length_flushed>>
      BY <2>1 DEF FlushLater, FlushNothing, FlushWrite
    <3> QED
      BY <1>0, <3>1, LengthKept
  <2>2. CASE FlushNoBuffer
    <3>1. UNCHANGED <<promised, length_xattr, disk_len, xattr, persists, length_flushed>>
      BY <2>2, NoBufferLeft DEF FlushNoBuffer
    <3> QED
      BY <1>0, <3>1, LengthKept
  <2>3. ASSUME NEW o \in io, FlushDone(o) PROVE LengthInv'
    <3>1. length_flushed' = length_flushed + o.len /\ o.len \in Nat
      BY <2>3, FlushDoneFacts
    <3>2. UNCHANGED <<promised, length_xattr, disk_len, xattr, persists>>
      BY <2>3 DEF FlushDone
    <3> QED
      BY <1>0, <3>1, <3>2, LengthKept
  <2>4. CASE CheckSyncReqs
    <3>1. UNCHANGED <<promised, length_xattr, disk_len, length_flushed>>
      BY <2>4 DEF CheckSyncReqs
    <3>2. CASE UNCHANGED <<sync_requests, xattr, persists>>
      BY <1>0, <3>1, <3>2, LengthKept
    <3>3. CASE /\ xattr' = length_flushed
               /\ persists' = Append(persists, [op |-> "sync", val |-> length_flushed])
      <4> DEFINE p == [op |-> "sync", val |-> length_flushed]
      <4>1. p \in Persist /\ p.val = xattr' /\ xattr <= xattr'
        BY <1>0, <3>3 DEF Persist, LengthInv
      <4>2. persists' = Append(persists, p) /\ xattr' <= length_flushed /\ xattr' \in Nat
        BY <1>0, <3>3
      <4> HIDE DEF p
      <4> QED
        BY <3>1, <4>1, <4>2, PersistStarted
    <3> QED
      BY <2>4, <3>2, <3>3, CheckFacts
  <2>5. CASE Extend \/ ResizeDone
    <3>1. UNCHANGED <<promised, length_xattr, disk_len, length_flushed>>
      BY <2>5 DEF Extend, ResizeDone
    <3>2. /\ UNCHANGED xattr
          /\ \/ UNCHANGED persists
             \/ \E u \in Threads :
                  persists' = Append(persists, [op |-> "extend", t |-> u, val |-> xattr])
      BY <2>5, ExtendThreads, ResizeDoneThreads
    <3>3. CASE UNCHANGED persists
      BY <1>0, <3>1, <3>2, <3>3, LengthKept
    <3>4. ASSUME NEW u \in Threads,
                 persists' = Append(persists, [op |-> "extend", t |-> u, val |-> xattr])
          PROVE  LengthInv'
      <4> DEFINE p == [op |-> "extend", t |-> u, val |-> xattr]
      <4>1. p \in Persist /\ p.val = xattr' /\ xattr <= xattr' /\ xattr' <= length_flushed
        BY <1>0, <3>2 DEF Persist, LengthInv
      <4>2. persists' = Append(persists, p) /\ xattr' \in Nat
        BY <1>0, <3>2, <3>4
      <4> HIDE DEF p
      <4> QED
        BY <3>1, <4>1, <4>2, PersistStarted
    <3> QED
      BY <3>2, <3>3, <3>4
  <2>6. CASE FinishSync
    <3>1. /\ persists # <<>> /\ persists' = Tail(persists) /\ disk_len' = Head(persists).val
          /\ UNCHANGED <<xattr, length_flushed>>
          /\ length_xattr' = disk_len'
          /\ promised' = Max2(promised, sync_requests[1].offset)
          /\ sync_requests[1].offset <= disk_len'
          /\ 1 \in DOMAIN sync_requests
      BY <2>6, FinishSyncFacts DEF FinishSync
    <3>2. /\ 1 \in DOMAIN persists /\ Head(persists) = persists[1]
          /\ disk_len' \in Nat /\ disk_len <= disk_len'
      BY <3>1, Lengths DEF IInv, TypeInv, LengthInv
    <3>3. sync_requests[1].offset \in Nat
      BY <3>1, Lengths DEF IInv, TypeInv
    <3>4. promised' <= disk_len' /\ length_xattr' <= disk_len'
      BY <1>0, <3>1, <3>2, <3>3 DEF LengthInv, Max2
    <3> QED
      BY <3>1, <3>4, PersistCompleted
  <2>7. CASE ExtendDone
    <3>1. /\ persists # <<>> /\ persists' = Tail(persists) /\ disk_len' = Head(persists).val
          /\ UNCHANGED <<xattr, length_flushed, promised, length_xattr>>
      BY <2>7 DEF ExtendDone, PersistOver, LengthPersisted, Discipline
    <3>2. /\ 1 \in DOMAIN persists /\ Head(persists) = persists[1]
          /\ disk_len' \in Nat /\ disk_len <= disk_len'
      BY <3>1, Lengths DEF IInv, TypeInv, LengthInv
    <3>3. promised' <= disk_len' /\ length_xattr' <= disk_len'
      BY <1>0, <3>1, <3>2 DEF LengthInv
    <3> QED
      BY <3>1, <3>3, PersistCompleted
  <2> QED
    BY <1>3, <2>1, <2>2, <2>3, <2>4, <2>5, <2>6, <2>7 DEF CachedMd
<1>4. CASE UNCHANGED vars
  <2>1. UNCHANGED <<promised, length_xattr, disk_len, xattr, persists, length_flushed>>
    BY <1>4 DEF vars
  <2> QED
    BY <1>0, <2>1, LengthKept
<1> QED
  BY <1>1, <1>2, <1>3, <1>4, CachedSteps

LEMMA RequestKept ==
    ASSUME IInv, UNCHANGED <<sync_requests, persists>>,
           append_pos' \in Nat, append_pos <= append_pos'
    PROVE  RequestInv'
<1>1. append_pos \in Nat /\ \A i \in DOMAIN sync_requests : sync_requests[i].offset \in Nat
  BY Lengths DEF IInv, TypeInv
<1> QED
  BY <1>1 DEF IInv, RequestInv

\* A request is queued behind those made when the file was shorter.
LEMMA SyncCallRequest ==
    ASSUME IInv, NEW t \in Threads, SyncCall(t)
    PROVE  RequestInv'
<1> DEFINE r == [t |-> t, offset |-> append_pos, xattr_in_progress |-> FALSE, length |-> 0]
           n == Len(sync_requests)
<1>1. /\ sync_requests' = Append(sync_requests, r)
      /\ UNCHANGED <<append_pos, persists>>
  BY DEF SyncCall, sizeVars, metaVars
<1>2. sync_requests \in Seq(SyncRequest) /\ append_pos \in Nat
  BY Lengths DEF IInv, TypeInv
<1>3. r.offset = append_pos /\ r.xattr_in_progress = FALSE
  OBVIOUS
<1> HIDE DEF r
<1>4. /\ n \in Nat /\ DOMAIN sync_requests = 1 .. n /\ DOMAIN sync_requests' = 1 .. n + 1
      /\ \A i \in 1 .. n : sync_requests'[i] = sync_requests[i]
      /\ sync_requests'[n + 1] = r
  BY <1>1, <1>2
<1> HIDE DEF n
<1>5. /\ \A i, j \in DOMAIN sync_requests :
           i < j => sync_requests[i].offset <= sync_requests[j].offset
      /\ \A i \in DOMAIN sync_requests :
           /\ sync_requests[i].offset <= append_pos
           /\ sync_requests[i].xattr_in_progress =>
                i = 1 /\ sync_requests[i].offset <= sync_requests[i].length
      /\ \A i \in DOMAIN persists : persists[i].op = "sync" =>
           /\ sync_requests # <<>>
           /\ sync_requests[1].xattr_in_progress
           /\ sync_requests[1].length = persists[i].val
      /\ \A i, j \in DOMAIN persists :
           persists[i].op = "sync" /\ persists[j].op = "sync" => i = j
  BY DEF IInv, RequestInv
<1>6. ASSUME NEW i \in DOMAIN sync_requests'
      PROVE  /\ sync_requests'[i].offset <= append_pos
             /\ sync_requests'[i].xattr_in_progress =>
                  i = 1 /\ sync_requests'[i].offset <= sync_requests'[i].length
  <2>1. CASE i \in 1 .. n
    BY <1>4, <1>5, <2>1
  <2>2. CASE i = n + 1
    BY <1>2, <1>3, <1>4, <2>2
  <2> QED
    BY <1>4, <2>1, <2>2
<1>7. ASSUME NEW i \in DOMAIN sync_requests', NEW j \in DOMAIN sync_requests', i < j
      PROVE  sync_requests'[i].offset <= sync_requests'[j].offset
  <2>1. i \in 1 .. n
    BY <1>4, <1>7
  <2>2. CASE j \in 1 .. n
    BY <1>4, <1>5, <1>7, <2>1, <2>2
  <2>3. CASE j = n + 1
    BY <1>3, <1>4, <1>6, <2>3
  <2> QED
    BY <1>4, <2>2, <2>3
<1>8. ASSUME NEW i \in DOMAIN persists, persists[i].op = "sync"
      PROVE  /\ sync_requests' # <<>>
             /\ sync_requests'[1].xattr_in_progress
             /\ sync_requests'[1].length = persists[i].val
  <2>1. 1 \in 1 .. n
    BY <1>2, <1>4, <1>5, <1>8
  <2> QED
    BY <1>4, <1>5, <1>8, <2>1
<1> QED
  BY <1>1, <1>5, <1>6, <1>7, <1>8 DEF RequestInv

\* The write that is started is the only one for a sync.
LEMMA CheckRequest ==
    ASSUME IInv, CheckSyncReqs
    PROVE  RequestInv'
<1>1. UNCHANGED append_pos
  BY DEF CheckSyncReqs, sizeVars
<1>2. /\ sync_requests \in Seq(SyncRequest) /\ persists \in Seq(Persist)
      /\ append_pos \in Nat /\ length_flushed \in Nat
      /\ \A i \in DOMAIN sync_requests : sync_requests[i] \in SyncRequest
  BY Lengths DEF IInv, TypeInv
<1>3. CASE UNCHANGED <<sync_requests, persists>>
  BY <1>1, <1>2, <1>3, RequestKept
<1>4. CASE /\ 1 \in DOMAIN sync_requests
           /\ ~sync_requests[1].xattr_in_progress
           /\ sync_requests[1].offset <= length_flushed
           /\ sync_requests' = [sync_requests EXCEPT ![1].xattr_in_progress = TRUE,
                                                     ![1].length = length_flushed]
           /\ persists' = Append(persists, [op |-> "sync", val |-> length_flushed])
  <2> DEFINE r == [sync_requests[1] EXCEPT !.xattr_in_progress = TRUE,
                                           !.length = length_flushed]
             p == [op |-> "sync", val |-> length_flushed]
             n == Len(persists)
  <2>1. r.xattr_in_progress = TRUE /\ r.length = length_flushed
        /\ r.offset = sync_requests[1].offset
    BY <1>2, <1>4 DEF SyncRequest
  <2>2. sync_requests' = [sync_requests EXCEPT ![1] = r]
    BY <1>2, <1>4 DEF SyncRequest
  <2> HIDE DEF r
  <2>3. /\ DOMAIN sync_requests' = DOMAIN sync_requests
        /\ sync_requests'[1] = r
        /\ \A i \in DOMAIN sync_requests : i # 1 => sync_requests'[i] = sync_requests[i]
        /\ \A i \in DOMAIN sync_requests : sync_requests'[i].offset = sync_requests[i].offset
    BY <1>2, <1>4, <2>1, <2>2
  <2>4. p.op = "sync" /\ p.val = length_flushed /\ persists' = Append(persists, p)
    BY <1>4
  <2> HIDE DEF p
  <2>5. /\ n \in Nat /\ DOMAIN persists = 1 .. n /\ DOMAIN persists' = 1 .. n + 1
        /\ \A i \in 1 .. n : persists'[i] = persists[i]
        /\ persists'[n + 1] = p
    BY <1>2, <2>4
  <2> HIDE DEF n
  <2>6. \A i \in 1 .. n : persists'[i].op # "sync"
    BY <1>4, <2>5 DEF IInv, RequestInv
  <2>7. \A i \in DOMAIN persists' : persists'[i].op = "sync" => i = n + 1
    BY <2>5, <2>6
  <2>8. sync_requests' # <<>>
    BY <1>4, <2>3
  <2>9. \A i \in DOMAIN sync_requests' : sync_requests'[i].xattr_in_progress =>
           i = 1 /\ sync_requests'[i].offset <= sync_requests'[i].length
    BY <1>4, <2>1, <2>3 DEF IInv, RequestInv
  <2>10. /\ \A i, j \in DOMAIN sync_requests' :
              i < j => sync_requests'[i].offset <= sync_requests'[j].offset
         /\ \A i \in DOMAIN sync_requests' : sync_requests'[i].offset <= append_pos
    BY <2>3 DEF IInv, RequestInv
  <2>11. \A i \in DOMAIN persists' : persists'[i].op = "sync" =>
           /\ sync_requests' # <<>>
           /\ sync_requests'[1].xattr_in_progress
           /\ sync_requests'[1].length = persists'[i].val
    BY <2>1, <2>3, <2>4, <2>5, <2>7, <2>8
  <2> QED
    BY <1>1, <2>7, <2>9, <2>10, <2>11 DEF RequestInv
<1> QED
  BY <1>3, <1>4, CheckFacts

\* A write of the metadata for an extension concerns no request.
LEMMA ExtendStartedRequest ==
    ASSUME IInv, NEW u \in Threads,
           persists' = Append(persists, [op |-> "extend", t |-> u, val |-> xattr]),
           UNCHANGED <<append_pos, sync_requests>>
    PROVE  RequestInv'
<1> DEFINE p == [op |-> "extend", t |-> u, val |-> xattr]
           n == Len(persists)
<1>1. persists \in Seq(Persist)
  BY Lengths DEF IInv, TypeInv
<1>2. p.op # "sync" /\ persists' = Append(persists, p)
  OBVIOUS
<1> HIDE DEF p
<1>3. /\ n \in Nat /\ DOMAIN persists = 1 .. n /\ DOMAIN persists' = 1 .. n + 1
      /\ \A i \in 1 .. n : persists'[i] = persists[i]
      /\ persists'[n + 1] = p
  BY <1>1, <1>2
<1> HIDE DEF n
<1>4. \A i \in DOMAIN persists' : persists'[i].op = "sync" =>
        i \in DOMAIN persists /\ persists'[i] = persists[i]
  BY <1>2, <1>3
<1> QED
  BY <1>4 DEF IInv, RequestInv

LEMMA ExtendDoneRequest ==
    ASSUME IInv, ExtendDone
    PROVE  RequestInv'
<1>1. persists # <<>> /\ persists' = Tail(persists) /\ UNCHANGED <<append_pos, sync_requests>>
  BY DEF ExtendDone, PersistOver, sizeVars, flushVars
<1>2. persists \in Seq(Persist)
  BY Lengths DEF IInv, TypeInv
<1>3. \A i \in DOMAIN persists' : i \in Nat /\ i + 1 \in DOMAIN persists /\ persists'[i] = persists[i + 1]
  BY <1>1, <1>2
<1>4. \A i, j \in DOMAIN persists' : persists'[i].op = "sync" /\ persists'[j].op = "sync" => i = j
  <2> SUFFICES ASSUME NEW i \in DOMAIN persists', NEW j \in DOMAIN persists',
                      persists'[i].op = "sync", persists'[j].op = "sync"
               PROVE  i = j
    OBVIOUS
  <2>1. i + 1 = j + 1
    BY <1>3 DEF IInv, RequestInv
  <2> QED
    BY <1>3, <2>1
<1> QED
  BY <1>1, <1>3, <1>4 DEF IInv, RequestInv

LEMMA FinishSyncRequest ==
    ASSUME Discipline, IInv, FinishSync
    PROVE  RequestInv'
<1> DEFINE n == Len(sync_requests)
<1>1. /\ persists # <<>> /\ Head(persists).op = "sync" /\ persists' = Tail(persists)
      /\ 1 \in DOMAIN sync_requests
      /\ sync_requests' = RemoveRequest(1)
      /\ UNCHANGED append_pos
  BY FinishSyncFacts DEF FinishSync, sizeVars
<1>2. persists \in Seq(Persist) /\ sync_requests \in Seq(SyncRequest)
  BY Lengths DEF IInv, TypeInv
<1>3. sync_requests' = SubSeq(sync_requests, 1, 0) \o SubSeq(sync_requests, 2, n)
  BY <1>1 DEF RemoveRequest
<1>4. /\ n \in Nat \ {0} /\ DOMAIN sync_requests = 1 .. n
      /\ DOMAIN sync_requests' = 1 .. n - 1
      /\ \A i \in 1 .. n - 1 : sync_requests'[i] = sync_requests[i + 1]
  BY <1>1, <1>2, <1>3
<1> HIDE DEF n
<1>5. /\ 1 \in DOMAIN persists /\ Head(persists) = persists[1]
      /\ \A i \in DOMAIN persists' :
           i \in Nat \ {0} /\ i + 1 \in DOMAIN persists /\ persists'[i] = persists[i + 1]
  BY <1>1, <1>2
<1>6. \A i \in DOMAIN persists' : persists'[i].op # "sync"
  <2> SUFFICES ASSUME NEW i \in DOMAIN persists', persists'[i].op = "sync" PROVE FALSE
    OBVIOUS
  <2>1. i + 1 = 1
    BY <1>1, <1>5 DEF IInv, RequestInv
  <2> QED
    BY <1>5, <2>1
<1>7. \A i \in DOMAIN sync_requests' : /\ i + 1 \in DOMAIN sync_requests
                                       /\ i \in Nat \ {0}
                                       /\ sync_requests'[i] = sync_requests[i + 1]
  BY <1>4
<1>8. \A i \in DOMAIN sync_requests' : /\ sync_requests'[i].offset <= append_pos
                                       /\ ~sync_requests'[i].xattr_in_progress
  <2> TAKE i \in DOMAIN sync_requests'
  <2>1. i + 1 # 1
    BY <1>7
  <2> QED
    BY <1>7, <2>1 DEF IInv, RequestInv
<1>9. \A i, j \in DOMAIN sync_requests' :
         i < j => sync_requests'[i].offset <= sync_requests'[j].offset
  <2> TAKE i, j \in DOMAIN sync_requests'
  <2>1. i < j => i + 1 < j + 1
    BY <1>7
  <2> QED
    BY <1>7, <2>1 DEF IInv, RequestInv
<1> QED
  BY <1>1, <1>6, <1>8, <1>9 DEF RequestInv

LEMMA RequestStep ==
    ASSUME Discipline, IInv, [Next]_vars
    PROVE  RequestInv'
<1> USE DEF sizeVars, flushVars, cacheVars, userVars, mdVars, dataVars, metaVars, durVars
<1>0. append_pos \in Nat /\ append_pos <= append_pos
  BY Lengths DEF IInv, TypeInv
<1>1. ASSUME NEW t \in Writers, CachedWrite(t) PROVE RequestInv'
  <2>1. UNCHANGED <<sync_requests, persists>>
    BY <1>1 DEF CachedWrite, WriteCall, WriteExtend, WriteLocked, ExtendReturn, Copy, FillPart,
                FillWhole
  <2>2. append_pos' \in Nat /\ append_pos <= append_pos'
    <3>1. CASE Copy(t)
      <4>1. /\ thread[t].rem \in Nat
            /\ tree[thread[t].last].filled \in Nat /\ tree[thread[t].last].filled <= BufSize
        BY <3>1, ThreadAssumption, Fields DEF Copy, IInv, TypeInv, TypeOK, BuffersOK, Buffer
      <4>2. Min2(BufSize - tree[thread[t].last].filled, thread[t].rem) \in Nat
        BY <4>1, SizeAssumption DEF Min2
      <4>3. append_pos' = append_pos + Min2(BufSize - tree[thread[t].last].filled, thread[t].rem)
        BY <3>1 DEF Copy
      <4> QED
        BY <1>0, <4>2, <4>3
    <3>2. CASE ~Copy(t)
      <4>1. UNCHANGED append_pos
        BY <1>1, <3>2 DEF CachedWrite, WriteCall, WriteExtend, WriteLocked, ExtendReturn,
                          FillPart, FillWhole
      <4> QED
        BY <1>0, <4>1
    <3> QED
      BY <3>1, <3>2
  <2> QED
    BY <2>1, <2>2, RequestKept
<1>2. ASSUME NEW t \in Threads, SyncStep(t) PROVE RequestInv'
  <2>1. CASE SyncNothing(t) \/ SyncReturn(t)
    <3>1. UNCHANGED <<sync_requests, persists, append_pos>>
      BY <2>1 DEF SyncNothing, SyncReturn
    <3> QED
      BY <1>0, <3>1, RequestKept
  <2> QED
    BY <1>2, <2>1, SyncCallRequest DEF SyncStep
<1>3. CASE CachedMd
  <2>1. CASE \/ FlushLater \/ FlushNoBuffer \/ FlushNothing \/ FlushWrite
             \/ \E o \in io : FlushDone(o)
    <3>1. UNCHANGED <<sync_requests, persists, append_pos>>
      BY <2>1 DEF FlushLater, FlushNoBuffer, FlushNothing, FlushWrite, FlushDone
    <3> QED
      BY <1>0, <3>1, RequestKept
  <2>2. CASE Extend \/ ResizeDone
    <3>1. UNCHANGED sync_requests
      BY <2>2 DEF Extend, ResizeDone
    <3>2. /\ UNCHANGED append_pos
          /\ \/ UNCHANGED persists
             \/ \E u \in Threads :
                  persists' = Append(persists, [op |-> "extend", t |-> u, val |-> xattr])
      BY <2>2, ExtendThreads, ResizeDoneThreads
    <3>3. CASE UNCHANGED persists
      BY <1>0, <3>1, <3>2, <3>3, RequestKept
    <3> QED
      BY <3>1, <3>2, <3>3, ExtendStartedRequest
  <2> QED
    BY <1>3, <2>1, <2>2, CheckRequest, FinishSyncRequest, ExtendDoneRequest DEF CachedMd
<1>4. CASE UNCHANGED vars
  <2>1. UNCHANGED <<sync_requests, persists, append_pos>>
    BY <1>4 DEF vars
  <2> QED
    BY <1>0, <2>1, RequestKept
<1> QED
  BY <1>1, <1>2, <1>3, <1>4, CachedSteps

-----------------------------------------------------------------------------
(* NoDirect.                                                                 *)

\* The messages: what a handler of the metadata thread leaves, and what an
\* append or a sync adds.
LEMMA CachedQueue ==
    ASSUME IInv,
           \/ mdq' = mdq
           \/ mdq # <<>> /\ mdq' = Tail(mdq)
           \/ \E m \in CachedMessage : mdq' = Append(mdq, m)
    PROVE  mdq' \in Seq(CachedMessage)
<1>1. mdq \in Seq(CachedMessage)
  BY DEF IInv, NoDirect
<1> QED
  BY <1>1

\* The states of the threads after a step of one of them, or of none.
LEMMA CachedThreads ==
    ASSUME IInv,
           \/ \A u \in Threads : thread'[u].pc = thread[u].pc
           \/ \E t \in Writers : /\ thread'[t].pc \in WriterPcs
                                 /\ \A u \in Threads : u # t => thread'[u].pc = thread[u].pc
           \/ \E t \in Threads : /\ thread'[t].pc \in ReaderPcs
                                 /\ \A u \in Threads : u # t => thread'[u].pc = thread[u].pc
    PROVE  /\ \A t \in Threads : thread'[t].pc \in WriterPcs
           /\ \A t \in Threads \ Writers : thread'[t].pc \in ReaderPcs
BY ThreadAssumption DEF IInv, NoDirect, WriterPcs, ReaderPcs

LEMMA WriteNoDirect ==
    ASSUME Discipline, IInv, NEW t \in Writers, CachedWrite(t)
    PROVE  NoDirect'
<1> USE DEF sizeVars, flushVars, cacheVars, userVars, mdVars, dataVars, metaVars, durVars
<1>1. t \in Threads /\ thread \in [Threads -> ThreadState] /\ thread[t] \in ThreadState
  BY ThreadAssumption DEF IInv, TypeInv, TypeOK
<1>2. UNCHANGED <<persists, resizing, io>>
  BY DEF CachedWrite, WriteCall, WriteExtend, WriteLocked, ExtendReturn, Copy, FillPart, FillWhole
<1>3. UNCHANGED ub
  <2>1. CASE ExtendReturn(t)
    <3>1. last # NULL
      BY <2>1 DEF ExtendReturn, IInv, TreeInv
    <3> QED
      BY <2>1, <3>1 DEF ExtendReturn
  <2>2. CASE ~ExtendReturn(t)
    BY <2>2 DEF CachedWrite, WriteCall, WriteExtend, WriteLocked, Copy, FillPart, FillWhole
  <2> QED
    BY <2>1, <2>2
<1>4. mdq' = mdq \/ \E m \in CachedMessage : mdq' = Append(mdq, m)
  <2>1. [fn |-> "flush"] \in CachedMessage
    BY DEF CachedMessage
  <2>2. CASE WriteExtend(t)
    <3>1. thread[t].off + thread[t].rem \in Nat
      BY <1>1 DEF ThreadState
    <3>2. [fn |-> "extend", t |-> t, size |-> BytesToClusters(thread[t].off + thread[t].rem)]
            \in CachedMessage
      BY <1>1, <3>1, ClustersType DEF CachedMessage
    <3> QED
      BY <2>2, <3>2 DEF WriteExtend
  <2>3. CASE FillPart(t)
    BY <2>1, <2>3 DEF FillPart, EndWrite
  <2>4. CASE FillNext(t)
    BY <2>1, <2>4 DEF FillNext, EndWrite
  <2>5. CASE \/ \E n \in WriteSizes : WriteCall(t, n)
             \/ WriteLocked(t) \/ ExtendReturn(t) \/ Copy(t)
    BY <2>5 DEF WriteCall, WriteLocked, ExtendReturn, Copy
  <2> QED
    BY <2>2, <2>3, <2>4, <2>5 DEF CachedWrite
<1>5. /\ thread'[t].pc \in WriterPcs
      /\ \A u \in Threads : u # t => thread'[u].pc = thread[u].pc
  <2>1. CASE Return(t)
    BY <1>1, <2>1 DEF Return, Idle, WriterPcs, ReaderPcs
  <2>2. ASSUME NEW n \in WriteSizes, WriteCall(t, n)
        PROVE  /\ thread'[t].pc \in WriterPcs
               /\ \A u \in Threads : u # t => thread'[u].pc = thread[u].pc
    BY <1>1, <2>2 DEF WriteCall, Idle, WriterPcs, ReaderPcs
  <2>3. CASE WriteExtend(t)
    BY <1>1, <2>3 DEF WriteExtend, WriterPcs, ThreadState
  <2>4. CASE thread' = [thread EXCEPT ![t].pc = "copy", ![t].last = last']
    BY <1>1, <2>4 DEF WriterPcs, ThreadState
  <2>5. CASE thread' = [thread EXCEPT ![t].pc = "copy", ![t].last = last]
    BY <1>1, <2>5 DEF WriterPcs, ThreadState
  <2>6. CASE Copy(t)
    <3>1. PICK c : thread' = [thread EXCEPT ![t].pc = "fill", ![t].copy = c, ![t].rem = @ - c]
      BY <2>6 DEF Copy
    <3> QED
      BY <1>1, <3>1 DEF WriterPcs, ThreadState
  <2>7. CASE thread' = [thread EXCEPT ![t].pc = "copy", ![t].filled = TRUE,
                                      ![t].last = append_pos]
    BY <1>1, <2>7 DEF WriterPcs, ThreadState
  <2>8. WriteLocked(t) => Return(t) \/ thread' = [thread EXCEPT ![t].pc = "copy", ![t].last = last']
    BY DEF WriteLocked
  <2>9. ExtendReturn(t) => Return(t) \/ thread' = [thread EXCEPT ![t].pc = "copy", ![t].last = last]
    BY DEF ExtendReturn
  <2>10. FillPart(t) => Return(t)
    BY DEF FillPart, EndWrite
  <2>11. FillNext(t) => \/ Return(t)
                        \/ thread' = [thread EXCEPT ![t].pc = "copy", ![t].filled = TRUE,
                                                    ![t].last = append_pos]
    BY DEF FillNext, EndWrite
  <2> QED
    BY <2>1, <2>2, <2>3, <2>4, <2>5, <2>6, <2>7, <2>8, <2>9, <2>10, <2>11 DEF CachedWrite
<1>6. mdq' \in Seq(CachedMessage)
  BY <1>4, CachedQueue
<1>7. /\ \A u \in Threads : thread'[u].pc \in WriterPcs
      /\ \A u \in Threads \ Writers : thread'[u].pc \in ReaderPcs
  BY <1>5, CachedThreads
<1> QED
  BY <1>2, <1>3, <1>6, <1>7 DEF IInv, NoDirect

LEMMA SyncNoDirect ==
    ASSUME IInv, NEW t \in Threads, SyncStep(t)
    PROVE  NoDirect'
<1> USE DEF sizeVars, flushVars, cacheVars, userVars, mdVars, dataVars, metaVars, durVars
<1>1. thread \in [Threads -> ThreadState]
  BY DEF IInv, TypeInv, TypeOK
<1>2. UNCHANGED <<persists, resizing, io, ub>>
  BY DEF SyncStep, SyncNothing, SyncCall, SyncReturn
<1>3. [fn |-> "flush"] \in CachedMessage
  BY DEF CachedMessage
<1>4. mdq' \in Seq(CachedMessage)
  <2>1. mdq' = mdq \/ \E m \in CachedMessage : mdq' = Append(mdq, m)
    BY <1>3 DEF SyncStep, SyncNothing, SyncCall, SyncReturn
  <2> QED
    BY <2>1, CachedQueue
<1>5. \/ \A u \in Threads : thread'[u].pc = thread[u].pc
      \/ /\ thread'[t].pc \in {"idle", "sync"}
         /\ \A u \in Threads : u # t => thread'[u].pc = thread[u].pc
  <2>1. CASE SyncNothing(t)
    BY <2>1 DEF SyncNothing
  <2>2. CASE SyncCall(t)
    BY <1>1, <2>2 DEF SyncCall, Idle
  <2>3. CASE SyncReturn(t)
    BY <1>1, <2>3 DEF SyncReturn, Return, Idle
  <2> QED
    BY <2>1, <2>2, <2>3 DEF SyncStep
<1>6. /\ \A u \in Threads : thread'[u].pc \in WriterPcs
      /\ \A u \in Threads \ Writers : thread'[u].pc \in ReaderPcs
  BY <1>5, CachedThreads DEF ReaderPcs
<1> QED
  BY <1>2, <1>4, <1>6 DEF IInv, NoDirect

LEMMA MdNoDirect ==
    ASSUME Discipline, IInv, CachedMd
    PROVE  NoDirect'
<1> USE DEF sizeVars, flushVars, cacheVars, userVars, mdVars, dataVars, metaVars, durVars
<1>1. UNCHANGED ub
  <2>1. ASSUME NEW o \in io, FlushDone(o) PROVE UNCHANGED ub
    BY <2>1, FlushDoneFacts DEF FlushDone
  <2> QED
    BY <2>1 DEF CachedMd, FlushLater, FlushNoBuffer, FlushNothing, FlushWrite, CheckSyncReqs,
                FinishSync, Extend, ResizeDone, ExtendDone
<1>2. mdq' \in Seq(CachedMessage)
  <2>1. CASE FlushLater \/ FlushNoBuffer \/ FlushNothing \/ FlushWrite \/ CheckSyncReqs
    <3>1. Runs("flush") \/ Runs("check")
      BY <2>1 DEF FlushLater, FlushNoBuffer, FlushNothing, FlushWrite, CheckSyncReqs
    <3>2. mdq' = mdq \/ (mdq # <<>> /\ mdq' = Tail(mdq))
      BY <3>1 DEF Runs
    <3> QED
      BY <3>2, CachedQueue
  <2>2. CASE Extend
    <3>1. mdq # <<>> /\ mdq' = Tail(mdq)
      BY <2>2 DEF Extend, Receives
    <3> QED
      BY <3>1, CachedQueue
  <2>3. CASE FinishSync \/ ResizeDone \/ ExtendDone \/ \E o \in io : FlushDone(o)
    <3>1. mdq' = mdq
      BY <2>3 DEF FinishSync, ResizeDone, ExtendDone, FlushDone
    <3> QED
      BY <3>1, CachedQueue
  <2> QED
    BY <2>1, <2>2, <2>3 DEF CachedMd
<1>3. persists' \in Seq(CachedPersist)
  <2>1. persists \in Seq(CachedPersist) /\ length_flushed \in Nat /\ xattr \in Nat
    BY DEF IInv, TypeInv, TypeOK, NoDirect
  <2>2. CASE CheckSyncReqs
    <3>1. [op |-> "sync", val |-> length_flushed] \in CachedPersist
      BY <2>1 DEF CachedPersist
    <3> QED
      BY <2>1, <2>2, <3>1, CheckFacts
  <2>3. CASE Extend \/ ResizeDone
    <3>1. \A u \in Threads : [op |-> "extend", t |-> u, val |-> xattr] \in CachedPersist
      BY <2>1 DEF CachedPersist
    <3>2. persists' = persists \/ \E u \in Threads :
             persists' = Append(persists, [op |-> "extend", t |-> u, val |-> xattr])
      BY <2>3, ExtendThreads, ResizeDoneThreads
    <3>3. CASE persists' = persists
      BY <2>1, <3>3
    <3>4. ASSUME NEW u \in Threads,
                 persists' = Append(persists, [op |-> "extend", t |-> u, val |-> xattr])
          PROVE  persists' \in Seq(CachedPersist)
      BY <2>1, <3>1, <3>4
    <3> QED
      BY <3>2, <3>3, <3>4
  <2>4. CASE FinishSync \/ ExtendDone
    <3>1. persists # <<>> /\ persists' = Tail(persists)
      BY <2>4 DEF FinishSync, ExtendDone, PersistOver
    <3> QED
      BY <2>1, <3>1
  <2>5. CASE \/ FlushLater \/ FlushNoBuffer \/ FlushNothing \/ FlushWrite
             \/ \E o \in io : FlushDone(o)
    <3>1. persists' = persists
      BY <2>5 DEF FlushLater, FlushNoBuffer, FlushNothing, FlushWrite, FlushDone
    <3> QED
      BY <2>1, <3>1
  <2> QED
    BY <2>2, <2>3, <2>4, <2>5 DEF CachedMd
<1>4. resizing' \in CachedResize \cup {NULL}
  <2>1. CASE Extend
    BY <2>1, ExtendThreads
  <2>2. CASE ResizeDone
    BY <2>2 DEF ResizeDone
  <2>3. CASE ~Extend /\ ~ResizeDone
    <3>1. resizing' = resizing
      BY <2>3 DEF CachedMd, FlushLater, FlushNoBuffer, FlushNothing, FlushWrite, FlushDone,
                  CheckSyncReqs, FinishSync, ExtendDone
    <3> QED
      BY <3>1 DEF IInv, NoDirect
  <2> QED
    BY <2>1, <2>2, <2>3
<1>5. \A o \in io' : o.op # "write"
  <2>1. CASE FlushWrite
    BY <2>1 DEF FlushWrite, IInv, NoDirect
  <2>2. CASE ~FlushWrite
    <3>1. io' \subseteq io
      BY <2>2 DEF CachedMd, FlushLater, FlushNoBuffer, FlushNothing, FlushDone, CheckSyncReqs,
                  FinishSync, Extend, ResizeDone, ExtendDone
    <3> QED
      BY <3>1 DEF IInv, NoDirect
  <2> QED
    BY <2>1, <2>2
<1>6. \A u \in Threads : thread'[u].pc = thread[u].pc
  <2>1. CASE FinishSync \/ Extend \/ ResizeDone \/ ExtendDone
    BY <2>1, FinishSyncThreads, ExtendThreads, ResizeDoneThreads, ExtendDoneThreads
  <2>2. CASE ~(FinishSync \/ Extend \/ ResizeDone \/ ExtendDone)
    BY <2>2 DEF CachedMd, FlushLater, FlushNoBuffer, FlushNothing, FlushWrite, FlushDone,
                CheckSyncReqs
  <2> QED
    BY <2>1, <2>2
<1>7. /\ \A u \in Threads : thread'[u].pc \in WriterPcs
      /\ \A u \in Threads \ Writers : thread'[u].pc \in ReaderPcs
  BY <1>6, CachedThreads
<1> QED
  BY <1>1, <1>2, <1>3, <1>4, <1>5, <1>7 DEF IInv, NoDirect

-----------------------------------------------------------------------------
(* BufferInv.                                                                *)

LEMMA BufferKept ==
    ASSUME IInv, UNCHANGED <<last, append_pos, length, length_flushed, tree>>
    PROVE  BufferInv'
BY DEF IInv, BufferInv

\* The types that the arithmetic of the buffers needs.
LEMMA BufferTypes ==
    ASSUME IInv
    PROVE  /\ append_pos \in Nat /\ length_flushed \in Nat /\ length_flushed <= append_pos
           /\ BufSize \in Nat \ {0}
           /\ DOMAIN tree \subseteq Nat /\ tree \in [DOMAIN tree -> Buffer]
           /\ \A b \in DOMAIN tree :
                tree[b].filled \in Nat /\ tree[b].flushed \in Nat /\ tree[b].filled <= BufSize
           /\ last # NULL => last \in Nat /\ last \in DOMAIN tree
<1>1. /\ append_pos \in Nat /\ length_flushed \in Nat /\ last \in Nat \cup {NULL}
      /\ DOMAIN tree \subseteq Nat /\ tree \in [DOMAIN tree -> Buffer]
  BY DEF IInv, TypeInv, TypeOK
<1>2. length_flushed <= append_pos /\ (last # NULL => last \in DOMAIN tree)
  BY DEF IInv, FlushInv, TreeInv
<1>3. \A b \in DOMAIN tree : tree[b].filled <= BufSize
  BY DEF IInv, TypeInv, BuffersOK
<1> QED
  BY <1>1, <1>2, <1>3, SizeAssumption DEF Buffer

LEMMA HaveLastBuffer ==
    ASSUME IInv, HaveLast, UNCHANGED <<append_pos, length, length_flushed>>
    PROVE  BufferInv'
<1>1. CASE last # NULL /\ UNCHANGED cacheVars
  BY <1>1, BufferKept DEF cacheVars
<1>2. CASE /\ last = NULL /\ append_pos % BufSize = 0
           /\ last' = append_pos /\ tree' = TreeWithLast
  <2>1. /\ length_flushed = append_pos /\ append_pos # NULL
        /\ \A b \in DOMAIN tree : b + BufSize <= length_flushed /\ b % BufSize = 0
    BY <1>2, ThreadAssumption, BufferTypes DEF IInv, TreeInv, BufferInv
  <2>2. append_pos \notin DOMAIN tree
    BY <2>1, BufferTypes
  <2>3. /\ DOMAIN tree' = DOMAIN tree \cup {append_pos} /\ tree'[append_pos].filled = 0
        /\ \A b \in DOMAIN tree : tree'[b] = tree[b]
    BY <1>2, <2>2 DEF TreeWithLast, Put, EmptyBuffer
  <2>4. \A b \in DOMAIN tree' : b + BufSize <= length_flushed => b \in DOMAIN tree
    BY <2>1, <2>3, BufferTypes
  <2>5. \A b \in DOMAIN tree' : b % BufSize = 0
    BY <1>2, <2>1, <2>3
  <2>6. \A b \in DOMAIN tree' : b + BufSize <= length_flushed =>
          tree'[b].filled = IF tree'[b].in_progress THEN 0 ELSE BufSize
    BY <2>3, <2>4 DEF IInv, BufferInv
  <2>7. tree'[last'].filled < BufSize /\ length_flushed <= last' + tree'[last'].filled
    BY <1>2, <2>1, <2>3, BufferTypes
  <2>8. length = append_pos
    BY DEF IInv, BufferInv
  <2>9. last' # NULL
    BY <1>2, <2>1
  <2> QED
    BY <2>5, <2>6, <2>7, <2>8, <2>9 DEF BufferInv
<1> QED
  BY <1>1, <1>2 DEF HaveLast

LEMMA CopyBuffer ==
    ASSUME Discipline, IInv, NEW t \in Writers, Copy(t)
    PROVE  BufferInv'
<1>1. UNCHANGED <<length_flushed, tree, last>>
  BY DEF Copy, flushVars, cacheVars
<1>2. /\ last # NULL /\ thread[t].last = last
  BY DEF Copy, IInv, TreeInv
<1>3. thread[t].rem \in Nat
  BY ThreadAssumption, Fields DEF IInv, TypeInv
<1> DEFINE copy == Min2(BufSize - tree[last].filled, thread[t].rem)
<1>4. copy \in Nat
  <2>1. BufSize - tree[last].filled \in Nat
    BY <1>2, BufferTypes
  <2> QED
    BY <1>3, <2>1 DEF Min2
<1>5. append_pos' = append_pos + copy /\ length' = Max2(length, append_pos + copy)
  BY <1>2 DEF Copy
<1> HIDE DEF copy
<1>6. length' = append_pos'
  BY <1>4, <1>5, BufferTypes DEF IInv, BufferInv, Max2
<1> QED
  BY <1>1, <1>6 DEF IInv, BufferInv

\* A step that fills the last buffer leaves alone what is flushed.
LEMMA LastNotFlushed ==
    ASSUME IInv, last # NULL
    PROVE  ~(last + BufSize <= length_flushed)
BY BufferTypes DEF IInv, BufferInv

LEMMA FillPartBuffer ==
    ASSUME Discipline, IInv, NEW t \in Writers, FillPart(t)
    PROVE  BufferInv'
<1>1. /\ thread[t].last = last /\ last \in DOMAIN tree /\ last \in Nat
      /\ thread[t].copy \in Nat
      /\ BytesFilled(t) = tree[last].filled + thread[t].copy
      /\ BytesFilled(t) < BufSize /\ last # NULL
  BY FillFacts DEF FillPart, IInv, TreeInv
<1>2. tree' = [tree EXCEPT ![last].filled = BytesFilled(t)]
  BY <1>1 DEF FillPart, Filled
<1>3. /\ DOMAIN tree' = DOMAIN tree /\ tree'[last].filled = BytesFilled(t)
      /\ \A b \in DOMAIN tree : b # last => tree'[b] = tree[b]
  BY <1>1, <1>2, BufferTypes DEF Buffer
<1>4. UNCHANGED <<last, append_pos, length, length_flushed>>
  BY DEF FillPart, sizeVars, flushVars
<1>5. length_flushed <= last + tree'[last].filled
  BY <1>1, <1>3, BufferTypes DEF IInv, BufferInv
<1>6. \A b \in DOMAIN tree : b + BufSize <= length_flushed => tree'[b] = tree[b]
  BY <1>1, <1>3, LastNotFlushed
<1> QED
  BY <1>1, <1>3, <1>4, <1>5, <1>6 DEF IInv, BufferInv

LEMMA FillNextBuffer ==
    ASSUME Discipline, IInv, NEW t \in Writers, FillWhole(t), FillNext(t)
    PROVE  BufferInv'
<1>1. /\ thread[t].last = last /\ last \in DOMAIN tree /\ last \in Nat /\ last # NULL
      /\ append_pos % BufSize = 0 /\ append_pos \notin DOMAIN tree
  BY FillFacts DEF FillWhole, IInv, TreeInv
<1>2. tree' = Put([tree EXCEPT ![last].filled = BytesFilled(t)], append_pos, EmptyBuffer)
  BY <1>1 DEF FillNext, Filled
<1>3. /\ DOMAIN tree' = DOMAIN tree \cup {append_pos} /\ tree'[append_pos].filled = 0
      /\ \A b \in DOMAIN tree : b # last => tree'[b] = tree[b]
  BY <1>1, <1>2 DEF Put, EmptyBuffer
<1>4. last' = append_pos /\ UNCHANGED <<append_pos, length, length_flushed>>
  BY DEF FillNext, FillWhole, sizeVars, flushVars
<1>5. last' # NULL
  BY <1>4, BufferTypes, ThreadAssumption
<1>6. \A b \in DOMAIN tree' : b % BufSize = 0
  BY <1>1, <1>3 DEF IInv, BufferInv
<1>7. \A b \in DOMAIN tree' : b + BufSize <= length_flushed =>
        b \in DOMAIN tree /\ tree'[b] = tree[b]
  <2>1. ~(append_pos + BufSize <= length_flushed)
    BY BufferTypes
  <2> QED
    BY <1>1, <1>3, <2>1, LastNotFlushed
<1>8. tree'[last'].filled < BufSize /\ length_flushed <= last' + tree'[last'].filled
  BY <1>3, <1>4, BufferTypes
<1> QED
  BY <1>4, <1>5, <1>6, <1>7, <1>8 DEF IInv, BufferInv

LEMMA FlushWriteBuffer ==
    ASSUME IInv, FlushWrite
    PROVE  BufferInv'
<1>1. /\ FlushNext \in DOMAIN tree
      /\ FlushNext <= length_flushed /\ length_flushed < FlushNext + BufSize
  BY FindType DEF IInv, TypeInv, FlushWrite, Flushable, FlushNext
<1>2. /\ DOMAIN tree' = DOMAIN tree
      /\ \A b \in DOMAIN tree : tree'[b].filled = tree[b].filled
      /\ \A b \in DOMAIN tree : b # FlushNext => tree'[b] = tree[b]
  BY <1>1, FlushWriteFacts DEF FlushWrite
<1>3. UNCHANGED <<last, append_pos, length, length_flushed>>
  BY DEF FlushWrite, sizeVars, flushVars
<1>4. \A b \in DOMAIN tree : b + BufSize <= length_flushed => tree'[b] = tree[b]
  BY <1>1, <1>2, BufferTypes
<1>5. last # NULL => tree'[last].filled = tree[last].filled
  BY <1>2, BufferTypes
<1> QED
  BY <1>2, <1>3, <1>4, <1>5 DEF IInv, BufferInv

\* The buffer that the flush was of is the only one that length_flushed may
\* move to the end of, and then it is full.
LEMMA FlushDoneBuffer ==
    ASSUME Discipline, IInv, NEW o \in io, FlushDone(o)
    PROVE  BufferInv'
<1>1. /\ o.buf \in DOMAIN tree /\ o.buf \in Nat /\ o.len \in Nat \ {0}
      /\ last # NULL
      /\ tree[o.buf].flushed + o.len <= tree[o.buf].filled
      /\ o.buf + tree[o.buf].flushed = length_flushed
      /\ length_flushed' = length_flushed + o.len
      /\ DOMAIN tree' = DOMAIN tree
      /\ \A b \in DOMAIN tree : tree'[b].filled = tree[b].filled
      /\ \A b \in DOMAIN tree : b # o.buf => tree'[b] = tree[b]
  BY FlushDoneFacts
<1>2. ~tree'[o.buf].in_progress
  <2>1. tree' = [tree EXCEPT ![o.buf].in_progress = FALSE, ![o.buf].flushed = @ + o.len]
    BY <1>1 DEF FlushDone
  <2> QED
    BY <1>1, <2>1, BufferTypes DEF Buffer
<1>3. UNCHANGED <<last, append_pos>> /\ length' = Max2(length, length_flushed + o.len)
  BY <1>1 DEF FlushDone
<1>4. \A b, c \in DOMAIN tree : b < c => b + BufSize <= c
  BY DEF IInv, TreeInv
<1>5. \A b \in DOMAIN tree : b % BufSize = 0 /\ (b # last => b < last)
  BY <1>1 DEF IInv, BufferInv, TreeInv
<1>6. length_flushed' <= last + tree[last].filled
  <2>1. CASE o.buf = last
    BY <1>1, <2>1, BufferTypes
  <2>2. CASE o.buf # last
    <3>1. o.buf + BufSize <= last
      BY <1>1, <1>4, <1>5, <2>2, BufferTypes
    <3> QED
      BY <1>1, <3>1, BufferTypes
  <2> QED
    BY <2>1, <2>2
<1>7. last + tree[last].filled <= append_pos
  BY <1>1, LastEnd
<1>8. length' = append_pos
  BY <1>1, <1>3, <1>6, <1>7, BufferTypes DEF IInv, BufferInv, Max2
<1>9. ASSUME NEW b \in DOMAIN tree, b + BufSize <= length_flushed'
      PROVE  tree'[b].filled = IF tree'[b].in_progress THEN 0 ELSE BufSize
  <2>1. CASE b = o.buf
    <3>1. tree[b].filled = BufSize
      BY <1>1, <1>9, <2>1, BufferTypes
    <3> QED
      BY <1>1, <1>2, <2>1, <3>1
  <2>2. CASE b # o.buf
    <3>1. b < o.buf
      <4>1. CASE b > o.buf
        <5>1. o.buf + BufSize <= b
          BY <1>1, <1>4, <4>1
        <5> QED
          BY <1>1, <1>9, <5>1, BufferTypes
      <4> QED
        BY <1>1, <2>2, <4>1, BufferTypes
    <3>2. b + BufSize <= o.buf
      BY <1>1, <1>4, <3>1
    <3>3. b + BufSize <= length_flushed
      BY <1>1, <3>2, BufferTypes
    <3> QED
      BY <1>1, <2>2, <3>3 DEF IInv, BufferInv
  <2> QED
    BY <2>1, <2>2
<1>10. tree'[last].filled < BufSize /\ length_flushed' <= last + tree'[last].filled
  BY <1>1, <1>6, BufferTypes DEF IInv, BufferInv
<1> QED
  BY <1>1, <1>3, <1>5, <1>8, <1>9, <1>10 DEF BufferInv

LEMMA BufferStep ==
    ASSUME Discipline, IInv, [Next]_vars
    PROVE  BufferInv'
<1> USE DEF sizeVars, flushVars, cacheVars, userVars, mdVars, dataVars, metaVars, durVars
<1>1. ASSUME NEW t \in Writers, CachedWrite(t) PROVE BufferInv'
  <2>1. ASSUME NEW n \in WriteSizes, WriteCall(t, n) PROVE BufferInv'
    BY <2>1, BufferKept DEF WriteCall
  <2>2. CASE WriteExtend(t)
    BY <2>2, HaveLastBuffer DEF WriteExtend
  <2>3. CASE WriteLocked(t)
    BY <2>3, HaveLastBuffer DEF WriteLocked
  <2>4. CASE ExtendReturn(t)
    BY <2>4, BufferKept DEF ExtendReturn
  <2> QED
    BY <1>1, <2>1, <2>2, <2>3, <2>4, CopyBuffer, FillPartBuffer, FillNextBuffer DEF CachedWrite
<1>2. ASSUME NEW t \in Threads, SyncStep(t) PROVE BufferInv'
  <2>1. UNCHANGED <<length_flushed, append_pos, length, last, tree>>
    BY <1>2 DEF SyncStep, SyncNothing, SyncCall, SyncReturn
  <2> QED
    BY <2>1, BufferKept
<1>3. CASE CachedMd
  <2>1. CASE FlushLater \/ FlushNothing \/ CheckSyncReqs
    <3>1. UNCHANGED <<length_flushed, append_pos, length, last, tree>>
      BY <2>1 DEF FlushLater, FlushNothing, CheckSyncReqs
    <3> QED
      BY <3>1, BufferKept
  <2>2. CASE FlushNoBuffer
    BY <2>2, NoBufferLeft, BufferKept DEF FlushNoBuffer
  <2>3. CASE FinishSync \/ Extend \/ ResizeDone \/ ExtendDone
    <3>1. UNCHANGED <<append_pos, length>>
      BY <2>3, ExtendThreads, ResizeDoneThreads DEF FinishSync, ExtendDone
    <3>2. UNCHANGED <<length_flushed, last, tree>>
      BY <2>3 DEF FinishSync, Extend, ResizeDone, ExtendDone
    <3> QED
      BY <3>1, <3>2, BufferKept
  <2> QED
    BY <1>3, <2>1, <2>2, <2>3, FlushWriteBuffer, FlushDoneBuffer DEF CachedMd
<1>4. CASE UNCHANGED vars
  BY <1>4, BufferKept DEF vars
<1> QED
  BY <1>1, <1>2, <1>3, <1>4, CachedSteps

-----------------------------------------------------------------------------
(* ReadInv: what an append, a sync or a flush does to the readers.           *)

\* A thread that reads is left where it is.
ReadersLeft ==
    \A u \in Threads : thread'[u].pc \in {"read", "relock"} =>
      /\ thread'[u].pc = thread[u].pc
      /\ thread'[u].off = thread[u].off /\ thread'[u].rem = thread[u].rem

\* The queue holds the readaheads it held, or one less, and no new read but of
\* what is flushed.
QueueLeft ==
    \/ mdq' = mdq
    \/ mdq # <<>> /\ mdq' = Tail(mdq)
    \/ \E m \in CachedMessage : /\ m.fn # "readahead"
                                /\ m.fn = "read" => m.off + m.len <= length_flushed
                                /\ mdq' = Append(mdq, m)

\* Where a readahead that is left was before the step, and the reads.
LEMMA QueueLeftAt ==
    ASSUME IInv, QueueLeft
    PROVE  /\ \A i, j \in DOMAIN mdq' :
                mdq'[i].fn = "readahead" /\ mdq'[j].fn = "readahead" =>
                  \E k, l \in DOMAIN mdq :
                    mdq'[i] = mdq[k] /\ mdq'[j] = mdq[l] /\ (i # j => k # l)
           /\ \A i \in DOMAIN mdq' : mdq'[i].fn \in {"read", "readahead"} =>
                mdq'[i].off + mdq'[i].len <= length_flushed
<1>1. /\ mdq \in Seq(CachedMessage)
      /\ \A k \in DOMAIN mdq : mdq[k].fn \in {"read", "readahead"} =>
           mdq[k].off + mdq[k].len <= length_flushed
  BY DEF IInv, NoDirect, ReadInv
<1>2. CASE mdq' = mdq
  BY <1>1, <1>2
<1>3. CASE mdq # <<>> /\ mdq' = Tail(mdq)
  <2>1. /\ DOMAIN mdq' \subseteq Nat
        /\ \A i \in DOMAIN mdq' : i + 1 \in DOMAIN mdq /\ mdq'[i] = mdq[i + 1]
    BY <1>1, <1>3
  <2>2. \A i, j \in DOMAIN mdq' : i # j => i + 1 # j + 1
    BY <2>1
  <2> QED
    BY <1>1, <2>1, <2>2
<1>4. CASE \E m \in CachedMessage : /\ m.fn # "readahead"
                                    /\ m.fn = "read" => m.off + m.len <= length_flushed
                                    /\ mdq' = Append(mdq, m)
  <2>1. PICK m \in CachedMessage : /\ m.fn # "readahead"
                                   /\ m.fn = "read" => m.off + m.len <= length_flushed
                                   /\ mdq' = Append(mdq, m)
    BY <1>4
  <2>2. \A i \in DOMAIN mdq' : i \notin DOMAIN mdq => mdq'[i] = m
    BY <1>1, <2>1
  <2>3. \A i \in DOMAIN mdq' : i \in DOMAIN mdq => mdq'[i] = mdq[i]
    BY <1>1, <2>1
  <2>4. \A i \in DOMAIN mdq' : mdq'[i].fn = "readahead" =>
          i \in DOMAIN mdq /\ mdq'[i] = mdq[i]
    BY <2>1, <2>2, <2>3
  <2>5. \A i \in DOMAIN mdq' : mdq'[i].fn \in {"read", "readahead"} =>
          mdq'[i].off + mdq'[i].len <= length_flushed
    BY <1>1, <2>1, <2>2, <2>3
  <2> QED
    BY <2>4, <2>5
<1> QED
  BY <1>2, <1>3, <1>4 DEF QueueLeft

LEMMA CallsLeft ==
    ASSUME IInv, ReadersLeft, length_flushed' \in Nat, length_flushed <= length_flushed'
    PROVE  CallsWithin'
<1>1. length_flushed \in Nat /\ thread \in [Threads -> ThreadState]
  BY DEF IInv, TypeInv, TypeOK
<1>2. ASSUME NEW t \in Threads, thread'[t].pc \in {"read", "relock"}
      PROVE  thread'[t].off + thread'[t].rem <= length_flushed'
  <2>1. thread[t].off + thread[t].rem <= length_flushed
    BY <1>2 DEF ReadersLeft, IInv, ReadInv, CallsWithin
  <2>2. thread[t].off \in Nat /\ thread[t].rem \in Nat
    BY <1>1 DEF ThreadState
  <2> QED
    BY <1>1, <1>2, <2>1, <2>2 DEF ReadersLeft
<1> QED
  BY <1>2 DEF CallsWithin

\* What a reader relies on survives a step that starts no readahead and takes no
\* buffer that waits for one.
LEMMA ReadKept ==
    ASSUME IInv, ~stale', CallsWithin', QueueLeft,
           length_flushed' \in Nat, length_flushed <= length_flushed',
           mdq' \in Seq(CachedMessage),
           \A o \in io' : o.op = "readahead" => o \in io,
           \A o \in io' : o.op = "read" =>
             o \in io \/ (o \in DataIo /\ o.off + o.len <= length_flushed),
           \A b \in DOMAIN tree : b + BufSize <= length_flushed /\ Awaited(b) => Awaited(b)'
    PROVE  ReadInv'
<1>1. /\ length_flushed \in Nat
      /\ mdq \in Seq(Message) /\ io \subseteq DataIo
      /\ BufSize \in Nat /\ DOMAIN tree \subseteq Nat
  BY SizeAssumption DEF IInv, TypeInv, TypeOK
<1>3. ASSUME NEW k \in DOMAIN mdq, mdq[k].fn \in {"read", "readahead"}
      PROVE  /\ mdq[k].off \in Nat /\ mdq[k].len \in Nat
             /\ mdq[k].off + mdq[k].len <= length_flushed
             /\ mdq[k].off + mdq[k].len <= length_flushed'
  <2>1. mdq[k] \in Message
    BY <1>1
  <2>2. mdq[k].off \in Nat /\ mdq[k].len \in Nat
    BY <1>3, <2>1 DEF Message
  <2> QED
    BY <1>1, <1>3, <2>2 DEF IInv, ReadInv
<1>4. ASSUME NEW o \in io, o.op \in {"read", "readahead"}
      PROVE  /\ o.off \in Nat /\ o.len \in Nat
             /\ o.off + o.len <= length_flushed /\ o.off + o.len <= length_flushed'
  <2>1. o.off \in Nat /\ o.len \in Nat
    BY <1>1, <1>4 DEF DataIo
  <2> QED
    BY <1>1, <1>4, <2>1 DEF IInv, ReadInv
<1> DEFINE Still(b) == b \in DOMAIN tree' /\ tree'[b].in_progress /\ tree'[b].filled = 0
<1>5. \A b \in DOMAIN tree : b + BufSize <= length_flushed /\ Awaited(b) => Still(b)
  BY DEF Awaited
<1>6. ASSUME NEW k \in DOMAIN mdq, mdq[k].fn = "readahead"
      PROVE  /\ Still(mdq[k].off) /\ mdq[k].len = BufSize
             /\ \A o \in io : o.op = "readahead" => o.off # mdq[k].off
             /\ \A l \in DOMAIN mdq : l # k /\ mdq[l].fn = "readahead" => mdq[l].off # mdq[k].off
  <2>1. /\ Awaited(mdq[k].off) /\ mdq[k].len = BufSize
        /\ \A o \in io : o.op = "readahead" => o.off # mdq[k].off
        /\ \A l \in DOMAIN mdq : l # k /\ mdq[l].fn = "readahead" => mdq[l].off # mdq[k].off
    BY <1>6 DEF IInv, ReadInv
  <2>2. mdq[k].off \in DOMAIN tree
    BY <2>1 DEF Awaited
  <2>3. mdq[k].off + BufSize <= length_flushed
    BY <1>3, <1>6, <2>1
  <2> QED
    BY <1>5, <2>1, <2>2, <2>3
<1>7. ASSUME NEW o \in io, o.op = "readahead"
      PROVE  Still(o.off) /\ o.len = BufSize
  <2>1. Awaited(o.off) /\ o.len = BufSize
    BY <1>7 DEF IInv, ReadInv
  <2>2. o.off \in DOMAIN tree
    BY <2>1 DEF Awaited
  <2>3. o.off + BufSize <= length_flushed
    BY <1>4, <1>7, <2>1
  <2> QED
    BY <1>5, <2>1, <2>2, <2>3
<1> HIDE DEF Still
<1>8. ASSUME NEW i \in DOMAIN mdq', mdq'[i].fn \in {"read", "readahead"}
      PROVE  mdq'[i].off + mdq'[i].len <= length_flushed'
  <2>1. mdq'[i] \in CachedMessage
    BY <1>8
  <2>2. mdq'[i].off \in Nat /\ mdq'[i].len \in Nat
    BY <1>8, <2>1 DEF CachedMessage
  <2> QED
    BY <1>1, <1>8, <2>2, QueueLeftAt
<1>9. ASSUME NEW i \in DOMAIN mdq', mdq'[i].fn = "readahead"
      PROVE  /\ Still(mdq'[i].off) /\ mdq'[i].len = BufSize
             /\ \A o \in io' : o.op = "readahead" => o.off # mdq'[i].off
  <2>1. PICK k \in DOMAIN mdq : mdq'[i] = mdq[k]
    BY <1>9, QueueLeftAt
  <2> QED
    BY <1>6, <1>9, <2>1
<1>10. ASSUME NEW i \in DOMAIN mdq', mdq'[i].fn = "readahead",
              NEW j \in DOMAIN mdq', j # i, mdq'[j].fn = "readahead"
       PROVE  mdq'[j].off # mdq'[i].off
  <2>1. PICK k, l \in DOMAIN mdq : mdq'[i] = mdq[k] /\ mdq'[j] = mdq[l] /\ (i # j => k # l)
    BY <1>10, QueueLeftAt
  <2> QED
    BY <1>6, <1>10, <2>1
<1>11. \A o \in io' : o.op = "readahead" => Still(o.off) /\ o.len = BufSize
  BY <1>7
<1>12. ASSUME NEW o \in io', o.op \in {"read", "readahead"}
       PROVE  o.off + o.len <= length_flushed'
  <2>1. CASE o \in io
    BY <1>4, <1>12, <2>1
  <2>2. CASE o.op = "read" /\ o \in DataIo /\ o.off + o.len <= length_flushed
    <3>1. o.off \in Nat /\ o.len \in Nat
      BY <2>2 DEF DataIo
    <3> QED
      BY <1>1, <2>2, <3>1
  <2> QED
    BY <1>12, <2>1, <2>2
<1> QED
  BY <1>8, <1>9, <1>10, <1>11, <1>12 DEF ReadInv, Awaited, Still

\* The steps of the writers, of the syncs and of the metadata thread.
LEMMA WriteReaders ==
    ASSUME IInv, NEW t \in Writers, CachedWrite(t)
    PROVE  ReadersLeft /\ QueueLeft
<1>1. t \in Threads /\ thread \in [Threads -> ThreadState] /\ thread[t] \in ThreadState
  BY ThreadAssumption DEF IInv, TypeInv, TypeOK
<1>2. ASSUME thread'[t].pc \notin {"read", "relock"},
             \A u \in Threads : u # t => thread'[u] = thread[u]
      PROVE  ReadersLeft
  BY <1>2 DEF ReadersLeft
<1>3. [fn |-> "flush"] \in CachedMessage /\ [fn |-> "flush"].fn = "flush"
  BY DEF CachedMessage
<1>4. ASSUME Return(t) PROVE ReadersLeft
  BY <1>1, <1>2, <1>4 DEF Return, Idle
<1>5. ASSUME NEW n \in WriteSizes, WriteCall(t, n) PROVE ReadersLeft /\ QueueLeft
  BY <1>1, <1>2, <1>5 DEF WriteCall, Idle, QueueLeft, mdVars
<1>6. CASE WriteExtend(t)
  <2>1. thread[t].off + thread[t].rem \in Nat
    BY <1>1 DEF ThreadState
  <2> DEFINE m == [fn |-> "extend", t |-> t,
                   size |-> BytesToClusters(thread[t].off + thread[t].rem)]
  <2>2. m \in CachedMessage /\ m.fn = "extend"
    BY <1>1, <2>1, ClustersType DEF CachedMessage
  <2>3. mdq' = Append(mdq, m)
    BY <1>6 DEF WriteExtend
  <2>4. QueueLeft
    BY <2>2, <2>3 DEF QueueLeft
  <2> QED
    BY <1>1, <1>2, <1>6, <2>4 DEF WriteExtend, ThreadState
<1>7. ASSUME NEW l, thread' = [thread EXCEPT ![t].pc = "copy", ![t].last = l]
      PROVE  ReadersLeft
  BY <1>1, <1>2, <1>7 DEF ThreadState
<1>8. CASE WriteLocked(t) \/ ExtendReturn(t)
  <2>1. UNCHANGED mdq
    BY <1>8 DEF WriteLocked, ExtendReturn, mdVars
  <2> QED
    BY <1>4, <1>7, <1>8, <2>1 DEF WriteLocked, ExtendReturn, QueueLeft
<1>9. CASE Copy(t)
  <2>1. PICK c : thread' = [thread EXCEPT ![t].pc = "fill", ![t].copy = c, ![t].rem = @ - c]
    BY <1>9 DEF Copy
  <2>2. ReadersLeft
    BY <1>1, <1>2, <2>1 DEF ThreadState
  <2> QED
    BY <1>9, <2>2 DEF Copy, QueueLeft, mdVars
<1>10. ASSUME NEW f \in BOOLEAN, EndWrite(t, f) PROVE ReadersLeft /\ QueueLeft
  <2>1. mdq' = mdq \/ mdq' = Append(mdq, [fn |-> "flush"])
    BY <1>10 DEF EndWrite
  <2>2. QueueLeft
    BY <1>3, <2>1 DEF QueueLeft
  <2> QED
    BY <1>4, <1>10, <2>2 DEF EndWrite
<1>11. CASE FillPart(t)
  <2>1. thread[t].filled \in BOOLEAN
    BY <1>1 DEF ThreadState
  <2> QED
    BY <1>10, <1>11, <2>1 DEF FillPart
<1>12. CASE FillNext(t)
  <2>1. CASE EndWrite(t, TRUE)
    BY <1>10, <2>1
  <2>2. CASE /\ thread' = [thread EXCEPT ![t].pc = "copy", ![t].filled = TRUE,
                                         ![t].last = append_pos]
             /\ UNCHANGED mdq
    <3>1. thread'[t].pc = "copy" /\ \A u \in Threads : u # t => thread'[u] = thread[u]
      BY <1>1, <2>2 DEF ThreadState
    <3> QED
      BY <1>2, <2>2, <3>1 DEF QueueLeft
  <2> QED
    BY <1>12, <2>1, <2>2 DEF FillNext
<1> QED
  BY <1>5, <1>6, <1>8, <1>9, <1>11, <1>12 DEF CachedWrite

LEMMA SyncReaders ==
    ASSUME IInv, NEW t \in Threads, SyncStep(t)
    PROVE  ReadersLeft /\ QueueLeft
<1>1. thread \in [Threads -> ThreadState] /\ thread[t] \in ThreadState
  BY DEF IInv, TypeInv, TypeOK
<1>2. [fn |-> "flush"] \in CachedMessage /\ [fn |-> "flush"].fn = "flush"
  BY DEF CachedMessage
<1>3. CASE SyncNothing(t)
  BY <1>3 DEF SyncNothing, userVars, mdVars, ReadersLeft, QueueLeft
<1>4. CASE SyncCall(t)
  <2>1. QueueLeft
    BY <1>2, <1>4 DEF SyncCall, QueueLeft
  <2> QED
    BY <1>1, <1>4, <2>1 DEF SyncCall, Idle, ReadersLeft
<1>5. CASE SyncReturn(t)
  <2>1. thread'[t].pc = "idle" /\ \A u \in Threads : u # t => thread'[u] = thread[u]
    BY <1>1, <1>5 DEF SyncReturn, Return, Idle
  <2> QED
    BY <1>5, <2>1 DEF SyncReturn, mdVars, ReadersLeft, QueueLeft
<1> QED
  BY <1>3, <1>4, <1>5 DEF SyncStep

LEMMA MdReaders ==
    ASSUME IInv, CachedMd
    PROVE  ReadersLeft /\ QueueLeft
<1>1. ReadersLeft
  <2>1. CASE FinishSync \/ Extend \/ ResizeDone \/ ExtendDone
    BY <2>1, FinishSyncThreads, ExtendThreads, ResizeDoneThreads, ExtendDoneThreads
       DEF ReadersLeft
  <2>2. CASE ~(FinishSync \/ Extend \/ ResizeDone \/ ExtendDone)
    BY <2>2 DEF CachedMd, FlushLater, FlushNoBuffer, FlushNothing, FlushWrite, FlushDone,
                CheckSyncReqs, userVars, ReadersLeft
  <2> QED
    BY <2>1, <2>2
<1>2. QueueLeft
  BY DEF CachedMd, FlushLater, FlushNoBuffer, FlushNothing, FlushWrite, FlushDone, CheckSyncReqs,
         FinishSync, Extend, ResizeDone, ExtendDone, Runs, Receives, mdVars, QueueLeft
<1> QED
  BY <1>1, <1>2

\* No append and no flush takes a buffer from its readahead: the writers fill
\* the last buffer, which is not flushed to its end, and a buffer that a flush
\* writes is filled.
LEMMA AwaitedKept ==
    ASSUME Discipline, IInv, [Next]_vars
    PROVE  \A b \in DOMAIN tree : b + BufSize <= length_flushed /\ Awaited(b) => Awaited(b)'
<1> USE DEF sizeVars, flushVars, cacheVars, userVars, mdVars, dataVars, metaVars, durVars
<1>1. SUFFICES ASSUME NEW b \in DOMAIN tree, b + BufSize <= length_flushed, Awaited(b)
               PROVE  b \in DOMAIN tree' /\ tree'[b] = tree[b]
  BY DEF Awaited
<1>2. CASE UNCHANGED tree
  BY <1>2
<1>3. CASE HaveLast
  <2>1. b # append_pos
    BY <1>1, BufferTypes
  <2> QED
    BY <1>3, <2>1 DEF HaveLast, TreeWithLast, Put
<1>4. ASSUME NEW t \in Writers, FillPart(t) PROVE b \in DOMAIN tree' /\ tree'[b] = tree[b]
  <2>1. thread[t].last = last /\ last # NULL
    BY <1>4, FillFacts, BufferTypes, ThreadAssumption DEF FillPart
  <2>2. b # last
    BY <1>1, <2>1, LastNotFlushed
  <2> QED
    BY <1>4, <2>1, <2>2 DEF FillPart, Filled
<1>5. ASSUME NEW t \in Writers, FillWhole(t), FillNext(t)
      PROVE  b \in DOMAIN tree' /\ tree'[b] = tree[b]
  <2>1. thread[t].last = last /\ last # NULL
    BY <1>5, FillFacts, BufferTypes, ThreadAssumption DEF FillWhole
  <2>2. b # last /\ append_pos \notin DOMAIN tree
    BY <1>1, <1>5, <2>1, LastNotFlushed DEF FillWhole
  <2> QED
    BY <1>5, <2>1, <2>2 DEF FillNext, Filled, Put
<1>6. CASE FlushWrite
  <2>1. FlushNext \in DOMAIN tree /\ length_flushed < FlushNext + BufSize
    BY <1>6, FindType DEF IInv, TypeInv, FlushWrite, Flushable, FlushNext
  <2>2. b # FlushNext
    BY <1>1, <2>1, BufferTypes
  <2> QED
    BY <1>6, <2>1, <2>2 DEF FlushWrite
<1>7. ASSUME NEW o \in io, FlushDone(o) PROVE b \in DOMAIN tree' /\ tree'[b] = tree[b]
  <2>1. b # o.buf
    BY <1>1, <1>7, FlushDoneFacts, BufferTypes
  <2> QED
    BY <1>7, <2>1, FlushDoneFacts
<1>8. ASSUME NEW t \in Writers, CachedWrite(t) PROVE b \in DOMAIN tree' /\ tree'[b] = tree[b]
  BY <1>2, <1>3, <1>4, <1>5, <1>8
     DEF CachedWrite, WriteCall, WriteExtend, WriteLocked, ExtendReturn, Copy
<1>9. ASSUME NEW t \in Threads, SyncStep(t) PROVE b \in DOMAIN tree' /\ tree'[b] = tree[b]
  BY <1>2, <1>9 DEF SyncStep, SyncNothing, SyncCall, SyncReturn
<1>10. CASE CachedMd
  BY <1>2, <1>6, <1>7, <1>10
     DEF CachedMd, FlushLater, FlushNoBuffer, FlushNothing, CheckSyncReqs,
         FinishSync, Extend, ResizeDone, ExtendDone
<1>11. CASE UNCHANGED vars
  BY <1>2, <1>11 DEF vars
<1> QED
  BY <1>8, <1>9, <1>10, <1>11, CachedSteps

LEMMA ReadsStep ==
    ASSUME Discipline, IInv, [Next]_vars
    PROVE  ReadInv'
<1> USE DEF sizeVars, flushVars, cacheVars, userVars, mdVars, dataVars, metaVars, durVars,
            readVars, seqVars
<1>1. length_flushed \in Nat
  BY BufferTypes
<1>2. ASSUME ReadersLeft, QueueLeft, UNCHANGED stale,
             length_flushed' \in Nat, length_flushed <= length_flushed',
             \A o \in io' : o.op \in {"read", "readahead"} => o \in io
      PROVE  ReadInv'
  <2>1. CallsWithin'
    BY <1>2, CallsLeft
  <2>2. ~stale'
    BY <1>2, Zenon DEF IInv, ReadInv
  <2>3. mdq' \in Seq(CachedMessage)
    BY <1>2, CachedQueue DEF QueueLeft
  <2> QED
    BY <1>2, <2>1, <2>2, <2>3, AwaitedKept, ReadKept
<1>3. ASSUME NEW t \in Writers, CachedWrite(t) PROVE ReadInv'
  <2>1. UNCHANGED <<stale, length_flushed, io>>
    BY <1>3 DEF CachedWrite, WriteCall, WriteExtend, WriteLocked, ExtendReturn, Copy, FillPart,
                FillWhole
  <2> QED
    BY <1>1, <1>2, <1>3, <2>1, WriteReaders
<1>4. ASSUME NEW t \in Threads, SyncStep(t) PROVE ReadInv'
  <2>1. UNCHANGED <<stale, length_flushed, io>>
    BY <1>4 DEF SyncStep, SyncNothing, SyncCall, SyncReturn
  <2> QED
    BY <1>1, <1>2, <1>4, <2>1, SyncReaders
<1>5. CASE CachedMd
  <2>1. UNCHANGED stale
    BY <1>5 DEF CachedMd, FlushLater, FlushNoBuffer, FlushNothing, FlushWrite, FlushDone,
                CheckSyncReqs, FinishSync, Extend, ResizeDone, ExtendDone
  <2>2. length_flushed' \in Nat /\ length_flushed <= length_flushed'
    <3>1. CASE FlushNoBuffer
      BY <1>1, <3>1, NoBufferLeft
    <3>2. ASSUME NEW o \in io, FlushDone(o)
          PROVE  length_flushed' \in Nat /\ length_flushed <= length_flushed'
      BY <1>1, <3>2, FlushDoneFacts
    <3> QED
      BY <1>1, <1>5, <3>1, <3>2
         DEF CachedMd, FlushLater, FlushNothing, FlushWrite, CheckSyncReqs, FinishSync, Extend,
             ResizeDone, ExtendDone
  <2>3. \A o \in io' : o.op \in {"read", "readahead"} => o \in io
    <3>1. CASE FlushWrite
      BY <3>1 DEF FlushWrite
    <3>2. CASE ~FlushWrite
      <4>1. io' \subseteq io
        BY <1>5, <3>2 DEF CachedMd, FlushLater, FlushNoBuffer, FlushNothing, FlushDone,
                          CheckSyncReqs, FinishSync, Extend, ResizeDone, ExtendDone
      <4> QED
        BY <4>1
    <3> QED
      BY <3>1, <3>2
  <2> QED
    BY <1>2, <1>5, <2>1, <2>2, <2>3, MdReaders
<1>6. CASE UNCHANGED vars
  BY <1>1, <1>2, <1>6 DEF vars, ReadersLeft, QueueLeft
<1> QED
  BY <1>3, <1>4, <1>5, <1>6, CachedSteps

-----------------------------------------------------------------------------
(* The inductive invariant and what follows from it.                         *)

LEMMA InitIInv ==
    ASSUME Discipline, Init
    PROVE  IInv
<1>1. PICK len \in InitLens : InitFile(len)
  BY DEF Init
<1>2. len \in Nat /\ len % BufSize = 0
  BY SizeAssumption DEF Discipline
<1> USE DEF InitFile
<1>3. TypeInv
  BY InitType
<1>4. DOMAIN tree = {} /\ \A t \in Threads : thread[t].pc = "idle"
  BY <1>1 DEF Idle
<1>5. NoDirect
  BY <1>1, <1>4 DEF NoDirect, WriterPcs, ReaderPcs
<1>6. TreeInv
  BY <1>1, <1>2, <1>4, ThreadAssumption DEF TreeInv, Filling
<1>7. FlushInv
  BY <1>1, <1>2, <1>4 DEF FlushInv, Bytes
<1>8. LengthInv /\ RequestInv
  BY <1>1, <1>2 DEF LengthInv, RequestInv
<1>9. BufferInv
  BY <1>1, <1>4 DEF BufferInv
<1>10. ~stale /\ mdq = <<>> /\ io = {}
  BY <1>1
<1>11. ReadInv
  BY <1>4, <1>10 DEF ReadInv, CallsWithin
<1> QED
  BY <1>3, <1>5, <1>6, <1>7, <1>8, <1>9, <1>11 DEF IInv

LEMMA StepIInv ==
    ASSUME Discipline, IInv, [Next]_vars
    PROVE  IInv'
<1>1. TypeInv'
  <2>1. WriterInv
    BY DEF IInv, TreeInv, WriterInv, Growing
  <2> QED
    BY <2>1, TypeStep DEF IInv
<1>2. NoDirect'
  <2>1. CASE UNCHANGED vars
    BY <2>1 DEF IInv, NoDirect, vars, sizeVars, flushVars, cacheVars, userVars, mdVars,
                dataVars, metaVars, durVars
  <2> QED
    BY <2>1, CachedSteps, WriteNoDirect, SyncNoDirect, MdNoDirect
<1> QED
  BY <1>1, <1>2, TreeStep, FlushStep, LengthStep, RequestStep, BufferStep, ReadsStep DEF IInv

\* The bytes below length_flushed are on the device, and every length that was
\* promised or written is below it.
LEMMA DurableFromIInv ==
    ASSUME IInv
    PROVE  SyncDurable /\ LengthBacked /\ Defined
<1>1. /\ promised <= disk_len /\ disk_len <= length_flushed
      /\ promised \in Nat /\ disk_len \in Nat /\ length_flushed \in Nat
  BY Lengths DEF IInv, TypeInv, LengthInv
<1>2. \A x \in 0 .. length_flushed - 1 : x \in disk
  BY DEF IInv, FlushInv
<1>3. Bytes(0, promised) \subseteq disk /\ Bytes(0, disk_len) \subseteq disk
  BY <1>1, <1>2 DEF Bytes
<1> QED
  BY <1>1, <1>3 DEF SyncDurable, LengthBacked, Defined, IInv, NoDirect

\* Every byte from length_flushed on is in a full buffer, in the last one, or
\* between the two halves of the turn that appends it.
LEMMA NothingLostFromIInv ==
    ASSUME IInv
    PROVE  NoLostBytes
<1>1. /\ append_pos \in Nat /\ length_flushed \in Nat /\ length_flushed <= append_pos
      /\ tree \in [DOMAIN tree -> Buffer] /\ DOMAIN tree \subseteq Nat
  BY DEF IInv, TypeInv, TypeOK, FlushInv
<1> SUFFICES ASSUME NEW x \in 0 .. append_pos - 1
             PROVE  x \in disk \cup Cached \cup InHand
  BY <1>1 DEF NoLostBytes, Bytes
<1>2. CASE x < length_flushed
  BY <1>1, <1>2 DEF IInv, FlushInv
<1>3. CASE x >= length_flushed
  <2>1. PICK b \in DOMAIN tree : b <= x /\ x < b + BufSize
    BY <1>1, <1>3 DEF IInv, FlushInv
  <2>2. last # NULL /\ last \in DOMAIN tree
    <3>1. length_flushed # append_pos
      BY <1>1, <1>3
    <3> QED
      BY <3>1 DEF IInv, TreeInv
  <2>3. tree[b].filled \in Nat /\ tree[last].filled \in Nat /\ last \in Nat /\ b \in Nat
    BY <1>1, <2>1, <2>2 DEF Buffer
  <2>4. ASSUME x < b + tree[b].filled PROVE x \in Cached
    <3>1. x \in Bytes(b, tree[b].filled)
      BY <1>1, <2>1, <2>3, <2>4 DEF Bytes
    <3> QED
      BY <2>1, <3>1 DEF Cached
  <2>5. CASE b # last
    <3>1. FullOrFlushed(b)
      BY <2>1, <2>2, <2>5 DEF IInv, TreeInv
    <3> QED
      BY <1>1, <1>3, <2>1, <2>3, <2>4, <3>1, SizeAssumption DEF FullOrFlushed
  <2>6. CASE b = last /\ \A t \in Writers : ~Filling(t)
    BY <1>1, <2>1, <2>2, <2>3, <2>4, <2>6 DEF IInv, TreeInv
  <2>7. CASE b = last /\ \E t \in Writers : Filling(t)
    <3>1. PICK t \in Writers : Filling(t)
      BY <2>7
    <3>2. last + tree[last].filled + thread[t].copy = append_pos
      BY <3>1 DEF IInv, TreeInv
    <3>3. thread[t].copy \in Nat /\ t \in Threads
      BY ThreadAssumption, Fields DEF IInv, TypeInv
    <3>4. CASE x < b + tree[b].filled
      BY <2>4, <3>4
    <3>5. CASE x >= b + tree[b].filled
      <4>1. x \in Bytes(append_pos - thread[t].copy, thread[t].copy)
        BY <1>1, <2>3, <2>7, <3>2, <3>3, <3>5 DEF Bytes
      <4>2. x \in InHand
        BY <3>1, <3>3, <4>1 DEF InHand, Filling
      <4> QED
        BY <4>2
    <3> QED
      BY <1>1, <2>3, <3>4, <3>5
  <2> QED
    BY <2>5, <2>6, <2>7
<1> QED
  BY <1>1, <1>2, <1>3

\* Under Discipline, the parts of IInv hold together at every step: the buffers
\* cover what is not flushed, the lengths reach the device in order, and the
\* requests are answered in order (__file_flush, __check_sync_reqs).
THEOREM Inductive ==
    ASSUME Discipline
    PROVE  Spec => []IInv
<1>1. Init => IInv
  BY InitIInv
<1>2. IInv /\ [Next]_vars => IInv'
  BY StepIInv
<1> QED
  BY <1>1, <1>2, PTL DEF Spec

\* Under Discipline, a sync that returned 0 keeps its word: for every number of
\* threads, every size of buffer, cluster and write, and whether or not
\* requests run out and resizes fail (spdk_file_write, spdk_file_sync,
\* __file_flush, __check_sync_reqs, __file_cache_finish_sync).
THEOREM SyncIsDurable ==
    ASSUME Discipline
    PROVE  Spec => []SyncDurable
<1>1. IInv => SyncDurable
  BY DurableFromIInv
<1> QED
  BY <1>1, Inductive, PTL

\* Under Discipline, whenever the machine stops, iter_cb finds a length that
\* covers only bytes that are on the device.
THEOREM LoadFindsData ==
    ASSUME Discipline
    PROVE  Spec => []LengthBacked
<1>1. IInv => LengthBacked
  BY DurableFromIInv
<1> QED
  BY <1>1, Inductive, PTL

\* Under Discipline, no write and no flush uses a buffer that is gone, and no
\* assertion of cache_append_buffer or tree_insert_buffer fails.
THEOREM StaysDefined ==
    ASSUME Discipline
    PROVE  Spec => []Defined
<1>1. IInv => Defined
  BY DurableFromIInv
<1> QED
  BY <1>1, Inductive, PTL

\* Under Discipline, no appended byte is lost between spdk_file_write, the
\* cache and the device.
THEOREM NothingLost ==
    ASSUME Discipline
    PROVE  Spec => []NoLostBytes
<1>1. Init => IInv
  BY InitIInv
<1>2. IInv /\ [Next]_vars => IInv'
  BY StepIInv
<1>3. IInv => NoLostBytes
  BY NothingLostFromIInv
<1> QED
  BY <1>1, <1>2, <1>3, PTL DEF Spec

\* A step of the metadata thread moves the persisted lengths forward only.
LEMMA StepMonotone ==
    ASSUME Discipline, IInv, [Next]_vars
    PROVE  length_xattr' >= length_xattr /\ disk_len' >= disk_len
<1> USE DEF sizeVars, flushVars, cacheVars, userVars, mdVars, dataVars, metaVars, durVars
<1>0. /\ length_xattr \in Nat /\ disk_len \in Nat /\ length_xattr <= disk_len
      /\ persists \in Seq(Persist)
  BY Lengths DEF IInv, TypeInv, LengthInv
<1>1. ASSUME persists # <<>>, disk_len' = Head(persists).val
      PROVE  disk_len' \in Nat /\ disk_len <= disk_len'
  <2>1. 1 \in DOMAIN persists /\ Head(persists) = persists[1]
    BY <1>0, <1>1
  <2> QED
    BY <1>1, <2>1, Lengths DEF IInv, TypeInv, LengthInv
<1>2. CASE FinishSync
  <2>1. persists # <<>> /\ disk_len' = Head(persists).val /\ length_xattr' = disk_len'
    BY <1>2, FinishSyncFacts
  <2> QED
    BY <1>0, <1>1, <2>1
<1>3. CASE ExtendDone
  <2>1. persists # <<>> /\ disk_len' = Head(persists).val /\ length_xattr' = length_xattr
    BY <1>3 DEF ExtendDone, PersistOver, LengthPersisted, Discipline
  <2> QED
    BY <1>0, <1>1, <2>1
<1>4. CASE UNCHANGED <<length_xattr, disk_len>>
  BY <1>0, <1>4
<1>5. ASSUME NEW t \in Writers, CachedWrite(t) PROVE UNCHANGED <<length_xattr, disk_len>>
  BY <1>5 DEF CachedWrite, WriteCall, WriteExtend, WriteLocked, ExtendReturn, Copy, FillPart,
              FillWhole
<1>6. ASSUME NEW t \in Threads, SyncStep(t) PROVE UNCHANGED <<length_xattr, disk_len>>
  BY <1>6 DEF SyncStep, SyncNothing, SyncCall, SyncReturn
<1>7. ASSUME CachedMd, ~FinishSync, ~ExtendDone PROVE UNCHANGED <<length_xattr, disk_len>>
  BY <1>7 DEF CachedMd, FlushLater, FlushNoBuffer, FlushNothing, FlushWrite, FlushDone,
              CheckSyncReqs, Extend, ResizeDone
<1>8. CASE UNCHANGED vars
  BY <1>4, <1>8 DEF vars
<1> QED
  BY <1>2, <1>3, <1>4, <1>5, <1>6, <1>7, <1>8, CachedSteps

\* Under Discipline, neither length_xattr nor the length on the device ever
\* goes back, although syncs and extensions write the same xattr.
THEOREM LengthNeverBack ==
    ASSUME Discipline
    PROVE  Spec => LengthMonotone
<1>1. Init => IInv
  BY InitIInv
<1>2. IInv /\ [Next]_vars => IInv'
  BY StepIInv
<1>3. IInv /\ [Next]_vars => [length_xattr' >= length_xattr /\ disk_len' >= disk_len]_vars
  BY StepMonotone
<1> QED
  BY <1>1, <1>2, <1>3, PTL DEF Spec, LengthMonotone

=============================================================================
