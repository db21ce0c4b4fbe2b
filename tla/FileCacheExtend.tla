--------------------------- MODULE FileCacheExtend ---------------------------
(***************************************************************************)
(* A write that does not fit the blob has the metadata thread extend it and   *)
(* waits on the semaphore of its channel, which spdk_file_sync waits on, too. *)
(* Proved here of FileCache, under Discipline: every post of a semaphore      *)
(* answers the call that waits on it, so that a write goes on only when the   *)
(* blob has room for it, and no flush leaves the blob.                        *)
(***************************************************************************)
EXTENDS FileCacheDurability

\* The thread waits in this call and was not answered yet.
Asked(t, call) == thread[t].pc = call /\ sem[t] = 0

\* The messages and metadata writes of an extension.
Extends(q)     == {i \in DOMAIN q : q[i].fn = "extend"}
ExtendsMd(q)   == {i \in DOMAIN q : q[i].op = "extend"}

\* A sync is answered by the one request it queued, an extension by the one
\* message, resize or metadata write it has come to.
AnswerInv ==
    /\ \A t \in Threads : sem[t] # 0 => thread[t].pc \in {"extend", "sync"}
    /\ \A i \in DOMAIN sync_requests : Asked(sync_requests[i].t, "sync")
    /\ \A i, j \in DOMAIN sync_requests : sync_requests[i].t = sync_requests[j].t => i = j
    /\ \A i \in Extends(mdq) : mdq[i].t \in Writers /\ Asked(mdq[i].t, "extend")
    /\ resizing # NULL => resizing.t \in Writers /\ Asked(resizing.t, "extend")
    /\ \A i \in ExtendsMd(persists) : persists[i].t \in Writers /\ Asked(persists[i].t, "extend")
    /\ \A t \in Threads : sem[t] <= 1

\* Only one extension is under way, and it is in one place.
OneInv ==
    /\ \A i, j \in Extends(mdq) : i = j
    /\ \A i, j \in ExtendsMd(persists) : i = j
    /\ Extends(mdq) # {} => resizing = NULL /\ ExtendsMd(persists) = {}
    /\ resizing # NULL => ExtendsMd(persists) = {}

\* Where the write of thread t will end.
WriteEnd(t) == thread[t].off + thread[t].rem

\* The bytes that were appended fit the blob, and so do those of the write that
\* copies or whose extension was done.
RoomInv ==
    /\ append_pos <= blob_size
    /\ \A t \in Writers :
         /\ thread[t].pc \in {"write", "extend"} => thread[t].off = append_pos
         /\ thread[t].pc \in {"copy", "fill"} => append_pos + thread[t].rem <= blob_size
         /\ thread[t].pc = "extend" /\ sem[t] # 0 /\ ~thread[t].err => WriteEnd(t) <= blob_size

\* An extension makes the blob no smaller and large enough for its write.
SizeInv ==
    /\ \A i \in Extends(mdq) : blob_size <= mdq[i].size /\ WriteEnd(mdq[i].t) <= mdq[i].size
    /\ resizing # NULL => blob_size <= resizing.size /\ WriteEnd(resizing.t) <= resizing.size
    /\ \A i \in ExtendsMd(persists) : WriteEnd(persists[i].t) <= blob_size

\* Every post of a semaphore answers the call that waits on it, and the write
\* that an extension answers finds the room it asked for (__wake_caller,
\* __file_extend_blob, __file_cache_finish_sync).
ExtendInv == AnswerInv /\ OneInv /\ RoomInv /\ SizeInv

-----------------------------------------------------------------------------
(* The queues.                                                               *)

\* What a message or a metadata write is when its thread asked for an extension.
LEMMA ExtendFields ==
    ASSUME IInv
    PROVE  /\ \A i \in Extends(mdq) : mdq[i].t \in Threads /\ mdq[i].size \in Nat
           /\ \A i \in ExtendsMd(persists) : persists[i].t \in Threads
           /\ resizing # NULL => resizing.t \in Threads /\ resizing.size \in Nat
           /\ \A i \in DOMAIN sync_requests : sync_requests[i].t \in Threads
<1>1. /\ mdq \in Seq(CachedMessage) /\ persists \in Seq(CachedPersist)
      /\ resizing \in CachedResize \cup {NULL} /\ sync_requests \in Seq(SyncRequest)
  BY DEF IInv, NoDirect, TypeInv, TypeOK
<1>2. ASSUME NEW i \in Extends(mdq) PROVE mdq[i].t \in Threads /\ mdq[i].size \in Nat
  <2>1. mdq[i] \in CachedMessage /\ mdq[i].fn = "extend"
    BY <1>1 DEF Extends
  <2> QED
    BY <2>1 DEF CachedMessage
<1>3. ASSUME NEW i \in ExtendsMd(persists) PROVE persists[i].t \in Threads
  <2>1. persists[i] \in CachedPersist /\ persists[i].op = "extend"
    BY <1>1 DEF ExtendsMd
  <2> QED
    BY <2>1 DEF CachedPersist
<1>4. resizing # NULL => resizing.t \in Threads /\ resizing.size \in Nat
  BY <1>1 DEF CachedResize
<1>5. ASSUME NEW i \in DOMAIN sync_requests PROVE sync_requests[i].t \in Threads
  <2>1. sync_requests[i] \in SyncRequest
    BY <1>1
  <2> QED
    BY <2>1 DEF SyncRequest
<1> QED
  BY <1>2, <1>3, <1>4, <1>5

\* A message is taken from the queue: the others move up.
LEMMA ExtendsTail ==
    ASSUME NEW S, NEW q \in Seq(S), q # <<>>
    PROVE  /\ \A i \in Extends(Tail(q)) : i + 1 \in Extends(q) /\ Tail(q)[i] = q[i + 1] /\ i \in Nat
           /\ \A i \in ExtendsMd(Tail(q)) : i + 1 \in ExtendsMd(q) /\ Tail(q)[i] = q[i + 1] /\ i \in Nat
BY DEF Extends, ExtendsMd

\* One is added at the end.
LEMMA ExtendsAppend ==
    ASSUME NEW S, NEW q \in Seq(S), NEW m
    PROVE  /\ Extends(Append(q, m)) =
                 IF m.fn = "extend" THEN Extends(q) \cup {Len(q) + 1} ELSE Extends(q)
           /\ ExtendsMd(Append(q, m)) =
                 IF m.op = "extend" THEN ExtendsMd(q) \cup {Len(q) + 1} ELSE ExtendsMd(q)
           /\ \A i \in DOMAIN q : Append(q, m)[i] = q[i]
           /\ Append(q, m)[Len(q) + 1] = m
           /\ Len(q) + 1 \notin DOMAIN q
BY DEF Extends, ExtendsMd

\* The extensions under way are among those before, and are as they were.
LEMMA MdQuiet ==
    ASSUME IInv, ExtendInv,
           mdq' = mdq \/ (mdq # <<>> /\ mdq' = Tail(mdq)),
           persists' = persists \/ \E v \in Nat : persists' = Append(persists, [op |-> "sync", val |-> v]),
           DOMAIN sync_requests' = DOMAIN sync_requests,
           \A i \in DOMAIN sync_requests : sync_requests'[i].t = sync_requests[i].t,
           UNCHANGED <<append_pos, resizing, sem, thread, blob_size>>
    PROVE  ExtendInv'
<1>1. /\ \A i \in Extends(mdq') : \E k \in Extends(mdq) : mdq'[i] = mdq[k]
      /\ (\A i, j \in Extends(mdq) : i = j) => \A i, j \in Extends(mdq') : i = j
  <2>1. CASE mdq' = mdq
    BY <2>1
  <2>2. CASE mdq # <<>> /\ mdq' = Tail(mdq)
    <3>1. mdq \in Seq(CachedMessage)
      BY DEF IInv, NoDirect
    <3>2. \A i \in Extends(mdq') : i + 1 \in Extends(mdq) /\ mdq'[i] = mdq[i + 1] /\ i \in Nat
      BY <2>2, <3>1, ExtendsTail
    <3> QED
      BY <3>2
  <2> QED
    BY <2>1, <2>2
<1>2. /\ ExtendsMd(persists') = ExtendsMd(persists)
      /\ \A i \in ExtendsMd(persists) : persists'[i] = persists[i]
  <2>1. CASE persists' = persists
    BY <2>1
  <2>2. ASSUME NEW v \in Nat, persists' = Append(persists, [op |-> "sync", val |-> v])
        PROVE  <1>2!1 /\ <1>2!2
    <3>1. persists \in Seq(CachedPersist)
      BY DEF IInv, NoDirect
    <3>2. [op |-> "sync", val |-> v].op = "sync"
      OBVIOUS
    <3> QED
      BY <2>2, <3>1, <3>2, ExtendsAppend DEF ExtendsMd
  <2> QED
    BY <2>1, <2>2
<1>3. AnswerInv'
  BY <1>1, <1>2 DEF ExtendInv, AnswerInv, Asked
<1>4. OneInv'
  BY <1>1, <1>2 DEF ExtendInv, OneInv
<1>5. RoomInv'
  BY DEF ExtendInv, RoomInv, WriteEnd
<1>6. SizeInv'
  BY <1>1, <1>2 DEF ExtendInv, SizeInv, WriteEnd
<1> QED
  BY <1>3, <1>4, <1>5, <1>6 DEF ExtendInv

\* A thread that does not wait for an answer goes on: the extensions under way
\* are not its own.
LEMMA UserQuiet ==
    ASSUME IInv, ExtendInv, NEW t \in Threads,
           mdq' = mdq \/ mdq' = Append(mdq, [fn |-> "flush"]),
           UNCHANGED <<sync_requests, resizing, persists, blob_size>>,
           \A u \in Threads \ {t} : thread'[u] = thread[u] /\ sem'[u] = sem[u],
           ~Asked(t, "sync"), ~Asked(t, "extend"), sem'[t] = 0
    PROVE  AnswerInv' /\ OneInv' /\ SizeInv'
<1>1. Extends(mdq') = Extends(mdq) /\ \A i \in Extends(mdq) : mdq'[i] = mdq[i]
  <2>1. CASE mdq' = mdq
    BY <2>1
  <2>2. CASE mdq' = Append(mdq, [fn |-> "flush"])
    <3>1. mdq \in Seq(CachedMessage)
      BY DEF IInv, NoDirect
    <3>2. [fn |-> "flush"].fn = "flush"
      OBVIOUS
    <3> QED
      BY <2>2, <3>1, <3>2, ExtendsAppend DEF Extends
  <2> QED
    BY <2>1, <2>2
<1>2. /\ \A i \in Extends(mdq) : mdq[i].t \in Threads \ {t}
      /\ \A i \in ExtendsMd(persists) : persists[i].t \in Threads \ {t}
      /\ resizing # NULL => resizing.t \in Threads \ {t}
      /\ \A i \in DOMAIN sync_requests : sync_requests[i].t \in Threads \ {t}
  BY ExtendFields DEF ExtendInv, AnswerInv
<1>3. AnswerInv'
  BY <1>1, <1>2 DEF ExtendInv, AnswerInv, Asked
<1>4. OneInv'
  BY <1>1 DEF ExtendInv, OneInv
<1>5. SizeInv'
  BY <1>1, <1>2 DEF ExtendInv, SizeInv, WriteEnd
<1> QED
  BY <1>3, <1>4, <1>5

-----------------------------------------------------------------------------
(* The users.                                                                *)

\* The end of the only write is a number, and so is every other length.
LEMMA Numbers ==
    ASSUME IInv
    PROVE  /\ append_pos \in Nat /\ blob_size \in Nat
           /\ thread \in [Threads -> ThreadState] /\ sem \in [Threads -> Nat]
           /\ \A t \in Threads : /\ thread[t].off \in Nat /\ thread[t].rem \in Nat
                                 /\ thread[t].copy \in Nat /\ WriteEnd(t) \in Nat
                                 /\ sem[t] \in Nat
<1>1. /\ append_pos \in Nat /\ blob_size \in Nat
      /\ thread \in [Threads -> ThreadState] /\ sem \in [Threads -> Nat]
  BY DEF IInv, TypeInv, TypeOK
<1>2. \A t \in Threads : /\ thread[t].off \in Nat /\ thread[t].rem \in Nat
                          /\ thread[t].copy \in Nat
  BY <1>1 DEF ThreadState
<1> QED
  BY <1>1, <1>2 DEF WriteEnd

\* A thread outside its waits has no answer pending.
LEMMA NotAsked ==
    ASSUME IInv, ExtendInv, NEW t \in Threads,
           thread[t].pc \notin {"extend", "sync"} \/ sem[t] > 0
    PROVE  ~Asked(t, "sync") /\ ~Asked(t, "extend")
BY DEF Asked

LEMMA WriteCallExtend ==
    ASSUME Discipline, IInv, ExtendInv, NEW t \in Writers, NEW n \in WriteSizes, WriteCall(t, n)
    PROVE  ExtendInv'
<1>1. Writers = {t} /\ t \in Threads
  BY OneWriter, ThreadAssumption
<1>2. /\ thread[t].pc = "idle" /\ sem' = sem /\ append_pos' = append_pos
      /\ blob_size' = blob_size
      /\ thread' = [thread EXCEPT ![t] =
                      [Idle EXCEPT !.pc = "write", !.off = append_pos, !.rem = n]]
      /\ UNCHANGED <<mdq, sync_requests, resizing, persists>>
  BY DEF WriteCall, sizeVars, flushVars, mdVars, metaVars
<1>3. /\ thread'[t].pc = "write" /\ thread'[t].off = append_pos
      /\ \A u \in Threads \ {t} : thread'[u] = thread[u]
  BY <1>1, <1>2, Numbers DEF Idle
<1>4. sem[t] = 0
  BY <1>1, <1>2 DEF ExtendInv, AnswerInv
<1>5. AnswerInv' /\ OneInv' /\ SizeInv'
  BY <1>1, <1>2, <1>3, <1>4, NotAsked, UserQuiet
<1>6. RoomInv'
  BY <1>1, <1>2, <1>3 DEF ExtendInv, RoomInv
<1> QED
  BY <1>5, <1>6 DEF ExtendInv

LEMMA WriteLockedExtend ==
    ASSUME Discipline, IInv, ExtendInv, NEW t \in Writers, WriteLocked(t)
    PROVE  ExtendInv'
<1>1. Writers = {t} /\ t \in Threads
  BY OneWriter, ThreadAssumption
<1>2. /\ thread[t].pc = "write" /\ sem' = sem /\ append_pos' = append_pos
      /\ blob_size' = blob_size
      /\ WriteEnd(t) <= blob_size
      /\ \/ thread' = [thread EXCEPT ![t].pc = "copy", ![t].last = last']
         \/ thread' = [thread EXCEPT ![t] = Idle]
      /\ UNCHANGED <<mdq, sync_requests, resizing, persists>>
  BY DEF WriteLocked, WriteEnd, Return, sizeVars, flushVars, mdVars, metaVars
<1>3. /\ \A u \in Threads \ {t} : thread'[u] = thread[u]
      /\ \/ thread'[t].pc = "copy" /\ thread'[t].rem = thread[t].rem
         \/ thread'[t].pc = "idle"
  BY <1>1, <1>2, Numbers DEF Idle, ThreadState
<1>4. sem[t] = 0
  BY <1>1, <1>2 DEF ExtendInv, AnswerInv
<1>5. AnswerInv' /\ OneInv' /\ SizeInv'
  BY <1>1, <1>2, <1>3, <1>4, NotAsked, UserQuiet
<1>6. RoomInv'
  BY <1>1, <1>2, <1>3 DEF ExtendInv, RoomInv, WriteEnd
<1> QED
  BY <1>5, <1>6 DEF ExtendInv

LEMMA ExtendReturnExtend ==
    ASSUME Discipline, IInv, ExtendInv, NEW t \in Writers, ExtendReturn(t)
    PROVE  ExtendInv'
<1>1. Writers = {t} /\ t \in Threads
  BY OneWriter, ThreadAssumption
<1>2. /\ thread[t].pc = "extend" /\ sem[t] > 0 /\ sem' = [sem EXCEPT ![t] = @ - 1]
      /\ append_pos' = append_pos /\ blob_size' = blob_size
      /\ \/ thread' = [thread EXCEPT ![t].pc = "copy", ![t].last = last] /\ ~thread[t].err
         \/ thread' = [thread EXCEPT ![t] = Idle]
      /\ UNCHANGED <<mdq, sync_requests, resizing, persists>>
  BY DEF ExtendReturn, SemWait, Return, sizeVars, flushVars, mdVars, metaVars
<1>3. /\ \A u \in Threads \ {t} : thread'[u] = thread[u] /\ sem'[u] = sem[u]
      /\ \/ thread'[t].pc = "copy" /\ thread'[t].rem = thread[t].rem /\ ~thread[t].err
         \/ thread'[t].pc = "idle"
  BY <1>1, <1>2, Numbers DEF Idle, ThreadState
<1>4. sem'[t] = 0
  BY <1>1, <1>2, Numbers DEF ExtendInv, AnswerInv
<1>5. AnswerInv' /\ OneInv' /\ SizeInv'
  BY <1>1, <1>2, <1>3, <1>4, NotAsked, UserQuiet
<1>6. RoomInv'
  BY <1>1, <1>2, <1>3, Numbers DEF ExtendInv, RoomInv, WriteEnd
<1> QED
  BY <1>5, <1>6 DEF ExtendInv

\* append_pos moves by what the write still had to copy, within its room.
LEMMA CopyExtend ==
    ASSUME Discipline, IInv, ExtendInv, NEW t \in Writers, Copy(t)
    PROVE  ExtendInv'
<1> DEFINE copy == Min2(BufSize - tree[thread[t].last].filled, thread[t].rem)
<1>1. Writers = {t} /\ t \in Threads
  BY OneWriter, ThreadAssumption
<1>2. /\ thread[t].pc = "copy" /\ sem' = sem
      /\ append_pos' = append_pos + copy /\ blob_size' = blob_size
      /\ thread' = [thread EXCEPT ![t].pc = "fill", ![t].copy = copy, ![t].rem = @ - copy]
      /\ UNCHANGED <<mdq, sync_requests, resizing, persists>>
  BY DEF Copy, flushVars, mdVars, metaVars
<1>3. copy \in Int /\ copy <= thread[t].rem
  <2>1. thread[t].last \in DOMAIN tree /\ tree \in [DOMAIN tree -> Buffer]
    BY DEF Copy, IInv, TypeInv, TypeOK
  <2>2. tree[thread[t].last].filled \in Nat
    BY <2>1 DEF Buffer
  <2> QED
    BY <1>1, <2>2, Numbers, SizeAssumption DEF Min2
<1> HIDE DEF copy
<1>4. /\ \A u \in Threads \ {t} : thread'[u] = thread[u]
      /\ thread'[t].pc = "fill" /\ thread'[t].rem = thread[t].rem - copy
  BY <1>1, <1>2, Numbers DEF ThreadState
<1>5. sem[t] = 0
  BY <1>1, <1>2 DEF ExtendInv, AnswerInv
<1>6. AnswerInv' /\ OneInv' /\ SizeInv'
  BY <1>1, <1>2, <1>4, <1>5, NotAsked, UserQuiet
<1>7. RoomInv'
  BY <1>1, <1>2, <1>3, <1>4, Numbers DEF ExtendInv, RoomInv
<1> QED
  BY <1>6, <1>7 DEF ExtendInv

\* A turn of the fill loop ends the write or goes on with the same rest.
LEMMA FillExtend ==
    ASSUME Discipline, IInv, ExtendInv, NEW t \in Writers,
           FillPart(t) \/ (FillWhole(t) /\ FillNext(t))
    PROVE  ExtendInv'
<1>1. Writers = {t} /\ t \in Threads
  BY OneWriter, ThreadAssumption
<1>2. /\ thread[t].pc = "fill" /\ sem' = sem
      /\ append_pos' = append_pos /\ blob_size' = blob_size
      /\ \/ thread' = [thread EXCEPT ![t].pc = "copy", ![t].filled = TRUE, ![t].last = append_pos]
         \/ thread' = [thread EXCEPT ![t] = Idle]
      /\ UNCHANGED <<sync_requests, resizing, persists>>
      /\ mdq' = mdq \/ mdq' = Append(mdq, [fn |-> "flush"])
  BY DEF FillPart, FillWhole, FillNext, EndWrite, Return, sizeVars, flushVars, mdVars, metaVars
<1>3. /\ \A u \in Threads \ {t} : thread'[u] = thread[u]
      /\ \/ thread'[t].pc = "copy" /\ thread'[t].rem = thread[t].rem
         \/ thread'[t].pc = "idle"
  BY <1>1, <1>2, Numbers DEF Idle, ThreadState
<1>4. sem[t] = 0
  BY <1>1, <1>2 DEF ExtendInv, AnswerInv
<1>5. AnswerInv' /\ OneInv' /\ SizeInv'
  BY <1>1, <1>2, <1>3, <1>4, NotAsked, UserQuiet
<1>6. RoomInv'
  BY <1>1, <1>2, <1>3 DEF ExtendInv, RoomInv
<1> QED
  BY <1>5, <1>6 DEF ExtendInv

\* The write asks for an extension, when there is none under way: every one is
\* of a writer that waits for it.
LEMMA WriteExtendExtend ==
    ASSUME Discipline, IInv, ExtendInv, NEW t \in Writers, WriteExtend(t)
    PROVE  ExtendInv'
<1> DEFINE m == [fn |-> "extend", t |-> t, size |-> BytesToClusters(WriteEnd(t))]
<1>1. Writers = {t} /\ t \in Threads
  BY OneWriter, ThreadAssumption
<1>2. /\ thread[t].pc = "write" /\ sem' = sem
      /\ append_pos' = append_pos /\ blob_size' = blob_size /\ blob_size < WriteEnd(t)
      /\ thread' = [thread EXCEPT ![t].pc = "extend"]
      /\ UNCHANGED <<sync_requests, resizing, persists>>
      /\ mdq' = Append(mdq, m)
  BY Numbers, <1>1 DEF WriteExtend, WriteEnd, sizeVars, flushVars, mdVars, metaVars
<1>3. /\ \A u \in Threads \ {t} : thread'[u] = thread[u]
      /\ thread'[t].pc = "extend" /\ WriteEnd(t)' = WriteEnd(t) /\ thread'[t].off = thread[t].off
  BY <1>1, <1>2, Numbers DEF ThreadState, WriteEnd
<1>4. sem[t] = 0
  BY <1>1, <1>2 DEF ExtendInv, AnswerInv
<1>5. /\ Extends(mdq) = {} /\ resizing = NULL /\ ExtendsMd(persists) = {}
      /\ \A i \in DOMAIN sync_requests : sync_requests[i].t \in Threads \ {t}
  BY <1>1, <1>2, ExtendFields DEF ExtendInv, AnswerInv, Asked
<1>6. m.fn = "extend" /\ m.t = t /\ WriteEnd(t) <= m.size /\ blob_size <= m.size
  BY <1>1, <1>2, Numbers, ClustersType
<1> HIDE DEF m
<1>7. Extends(mdq') = {Len(mdq) + 1} /\ mdq'[Len(mdq) + 1] = m
  BY <1>2, <1>5, <1>6, ExtendsAppend DEF IInv, NoDirect
<1>8. AnswerInv'
  BY <1>1, <1>2, <1>3, <1>4, <1>5, <1>6, <1>7 DEF ExtendInv, AnswerInv, Asked
<1>9. OneInv'
  BY <1>2, <1>5, <1>7 DEF OneInv
<1>10. RoomInv'
  BY <1>1, <1>2, <1>3, <1>4 DEF ExtendInv, RoomInv
<1>11. SizeInv'
  BY <1>2, <1>3, <1>5, <1>6, <1>7 DEF SizeInv
<1> QED
  BY <1>8, <1>9, <1>10, <1>11 DEF ExtendInv

\* A thread that does not write leaves the room of the writer alone; the
\* writer's own sync starts and ends outside a write.
LEMMA SyncCallExtend ==
    ASSUME IInv, ExtendInv, NEW t \in Threads, SyncCall(t)
    PROVE  ExtendInv'
<1> DEFINE r == [t |-> t, offset |-> append_pos, xattr_in_progress |-> FALSE, length |-> 0]
           n == Len(sync_requests)
<1>1. /\ thread[t].pc = "idle" /\ sync_requests' = Append(sync_requests, r)
      /\ thread' = [thread EXCEPT ![t] = [Idle EXCEPT !.pc = "sync"]]
      /\ mdq' = Append(mdq, [fn |-> "flush"])
      /\ UNCHANGED <<append_pos, sem, resizing, persists, blob_size>>
  BY DEF SyncCall, sizeVars, mdVars, metaVars
<1>2. /\ thread'[t].pc = "sync" /\ sem[t] = 0
      /\ \A u \in Threads \ {t} : thread'[u] = thread[u]
  BY <1>1, Numbers DEF Idle, ExtendInv, AnswerInv
<1>3. /\ \A i \in Extends(mdq) : mdq[i].t \in Threads \ {t}
      /\ \A i \in ExtendsMd(persists) : persists[i].t \in Threads \ {t}
      /\ resizing # NULL => resizing.t \in Threads \ {t}
      /\ \A i \in DOMAIN sync_requests : sync_requests[i].t \in Threads \ {t}
  BY <1>1, ExtendFields DEF ExtendInv, AnswerInv, Asked
<1>4. Extends(mdq') = Extends(mdq) /\ \A i \in Extends(mdq) : mdq'[i] = mdq[i]
  <2>1. [fn |-> "flush"].fn = "flush"
    OBVIOUS
  <2> QED
    BY <1>1, <2>1, ExtendsAppend DEF IInv, NoDirect, Extends
<1>5. /\ n \in Nat /\ DOMAIN sync_requests = 1 .. n /\ DOMAIN sync_requests' = 1 .. n + 1
      /\ \A i \in 1 .. n : sync_requests'[i] = sync_requests[i]
      /\ sync_requests'[n + 1].t = t
  BY <1>1 DEF IInv, TypeInv, TypeOK
<1> HIDE DEF n, r
<1>0. UNCHANGED <<append_pos, sem, resizing, persists, blob_size>>
  BY <1>1
<1>6. AnswerInv'
  <2>1. \A i \in DOMAIN sync_requests' : Asked(sync_requests[i].t, "sync")'
    BY <1>1, <1>2, <1>3, <1>5 DEF ExtendInv, AnswerInv, Asked
  <2>2. \A i, j \in DOMAIN sync_requests' : sync_requests'[i].t = sync_requests'[j].t => i = j
    BY <1>3, <1>5 DEF ExtendInv, AnswerInv
  <2>3. \A u \in Threads : sem'[u] <= 1 /\ (sem'[u] # 0 => thread'[u].pc \in {"extend", "sync"})
    BY <1>0, <1>2 DEF ExtendInv, AnswerInv
  <2>4. \A i \in Extends(mdq') : mdq'[i].t \in Writers /\ Asked(mdq[i].t, "extend")'
    BY <1>0, <1>2, <1>3, <1>4 DEF ExtendInv, AnswerInv, Asked
  <2>5. resizing' # NULL => resizing'.t \in Writers /\ Asked(resizing.t, "extend")'
    BY <1>0, <1>2, <1>3 DEF ExtendInv, AnswerInv, Asked
  <2>6. \A i \in ExtendsMd(persists') :
          persists'[i].t \in Writers /\ Asked(persists[i].t, "extend")'
    BY <1>0, <1>2, <1>3 DEF ExtendInv, AnswerInv, Asked
  <2> QED
    BY <2>1, <2>2, <2>3, <2>4, <2>5, <2>6 DEF AnswerInv
<1>7. OneInv'
  BY <1>1, <1>4 DEF ExtendInv, OneInv
<1>8. RoomInv'
  <2>1. \A u \in Writers : u = t \/ thread'[u] = thread[u]
    BY <1>2, ThreadAssumption
  <2>2. UNCHANGED <<append_pos, blob_size, sem>> /\ thread'[t].pc = "sync"
    BY <1>1, <1>2
  <2> QED
    BY <2>1, <2>2 DEF ExtendInv, RoomInv, WriteEnd
<1>9. SizeInv'
  BY <1>0, <1>2, <1>3, <1>4 DEF ExtendInv, SizeInv, WriteEnd
<1> QED
  BY <1>6, <1>7, <1>8, <1>9 DEF ExtendInv

LEMMA SyncReturnExtend ==
    ASSUME IInv, ExtendInv, NEW t \in Threads, SyncReturn(t)
    PROVE  ExtendInv'
<1>1. /\ thread[t].pc = "sync" /\ sem[t] > 0 /\ sem' = [sem EXCEPT ![t] = @ - 1]
      /\ thread' = [thread EXCEPT ![t] = Idle]
      /\ UNCHANGED <<append_pos, mdq, sync_requests, resizing, persists, blob_size>>
  BY DEF SyncReturn, SemWait, Return, sizeVars, flushVars, mdVars, metaVars
<1>2. /\ thread'[t].pc = "idle" /\ sem'[t] = 0
      /\ \A u \in Threads \ {t} : thread'[u] = thread[u] /\ sem'[u] = sem[u]
  BY <1>1, Numbers DEF Idle, ExtendInv, AnswerInv
<1>3. AnswerInv' /\ OneInv' /\ SizeInv'
  BY <1>1, <1>2, NotAsked, UserQuiet
<1>4. RoomInv'
  BY <1>1, <1>2, ThreadAssumption DEF ExtendInv, RoomInv, WriteEnd
<1> QED
  BY <1>3, <1>4 DEF ExtendInv

-----------------------------------------------------------------------------
(* The metadata thread.                                                      *)

\* The flushes and the check of the requests answer nobody.
LEMMA FlushExtend ==
    ASSUME IInv, ExtendInv,
           \/ FlushLater \/ FlushNoBuffer \/ FlushNothing \/ FlushWrite \/ CheckSyncReqs
           \/ \E o \in io : FlushDone(o)
    PROVE  ExtendInv'
<1> USE DEF sizeVars, flushVars, userVars, mdVars, metaVars
<1>1. mdq' = mdq \/ (mdq # <<>> /\ mdq' = Tail(mdq))
  BY DEF FlushLater, FlushNoBuffer, FlushNothing, FlushWrite, CheckSyncReqs, FlushDone, Runs
<1>2. UNCHANGED <<append_pos, resizing, sem, thread, blob_size>>
  BY DEF FlushLater, FlushNoBuffer, FlushNothing, FlushWrite, CheckSyncReqs, FlushDone
<1>3. CASE UNCHANGED <<sync_requests, persists>>
  BY <1>1, <1>2, <1>3, MdQuiet
<1>4. ASSUME NEW i \in Satisfied,
             sync_requests' = [sync_requests EXCEPT ![i].xattr_in_progress = TRUE,
                                                    ![i].length = length_flushed],
             persists' = Append(persists, [op |-> "sync", val |-> length_flushed])
      PROVE  ExtendInv'
  <2>1. sync_requests \in Seq(SyncRequest) /\ length_flushed \in Nat
    BY DEF IInv, TypeInv, TypeOK
  <2>2. /\ DOMAIN sync_requests' = DOMAIN sync_requests
        /\ \A j \in DOMAIN sync_requests : sync_requests'[j].t = sync_requests[j].t
    BY <1>4, <2>1 DEF SyncRequest
  <2> QED
    BY <1>1, <1>2, <1>4, <2>1, <2>2, MdQuiet
<1> QED
  BY <1>3, <1>4 DEF FlushLater, FlushNoBuffer, FlushNothing, FlushWrite, CheckSyncReqs, FlushDone

\* A post adds one answer, for a thread that waits for its first.
LEMMA Posted ==
    ASSUME IInv, ExtendInv, NEW t \in Threads, NEW call \in {"extend", "sync"}, Asked(t, call),
           sem' = [sem EXCEPT ![t] = @ + 1]
    PROVE  sem'[t] = 1 /\ \A u \in Threads \ {t} : sem'[u] = sem[u]
BY Numbers DEF Asked

LEMMA FinishSyncExtend ==
    ASSUME Discipline, IInv, ExtendInv, FinishSync
    PROVE  ExtendInv'
<1> DEFINE n == Len(sync_requests)
           t == sync_requests[1].t
<1>1. /\ persists # <<>> /\ persists' = Tail(persists) /\ 1 \in DOMAIN sync_requests
      /\ sync_requests' = RemoveRequest(1)
      /\ UNCHANGED <<append_pos, mdq, resizing, blob_size, thread>>
      /\ sem' = [sem EXCEPT ![t] = @ + 1]
  <2>1. PICK i \in DOMAIN sync_requests :
           /\ sync_requests[i].xattr_in_progress
           /\ WakeCaller(sync_requests[i].t)
    BY DEF FinishSync, Discipline
  <2>2. i = 1
    BY <2>1 DEF IInv, RequestInv
  <2> QED
    BY <2>1, <2>2, FinishSyncFacts DEF FinishSync, WakeCaller, sizeVars
<1>2. t \in Threads /\ Asked(t, "sync")
  BY <1>1, ExtendFields DEF ExtendInv, AnswerInv
<1>3. /\ persists \in Seq(CachedPersist) /\ sync_requests \in Seq(SyncRequest)
  BY DEF IInv, NoDirect, TypeInv, TypeOK
<1>4. sync_requests' = SubSeq(sync_requests, 1, 0) \o SubSeq(sync_requests, 2, n)
  BY <1>1 DEF RemoveRequest
<1>5. /\ n \in Nat \ {0} /\ DOMAIN sync_requests = 1 .. n
      /\ DOMAIN sync_requests' = 1 .. n - 1
      /\ \A i \in 1 .. n - 1 : sync_requests'[i] = sync_requests[i + 1]
  BY <1>1, <1>3, <1>4
<1>6. \A i \in DOMAIN sync_requests' : /\ i + 1 \in DOMAIN sync_requests /\ i \in Nat \ {0}
                                       /\ sync_requests'[i].t = sync_requests[i + 1].t
                                       /\ sync_requests'[i].t \in Threads \ {t}
  <2> TAKE i \in DOMAIN sync_requests'
  <2>1. i + 1 \in DOMAIN sync_requests /\ i \in Nat \ {0} /\ i + 1 # 1
        /\ sync_requests'[i].t = sync_requests[i + 1].t
    BY <1>5
  <2>2. sync_requests[i + 1].t # t
    BY <1>1, <2>1 DEF ExtendInv, AnswerInv
  <2> QED
    BY <2>1, <2>2, ExtendFields
<1>7. \A i \in ExtendsMd(persists') : i + 1 \in ExtendsMd(persists) /\ i \in Nat
                                     /\ persists'[i] = persists[i + 1]
  BY <1>1, <1>3, ExtendsTail
<1>8. sem'[t] = 1 /\ \A u \in Threads \ {t} : sem'[u] = sem[u]
  BY <1>1, <1>2, Posted
<1>9. /\ \A i \in Extends(mdq) : mdq[i].t \in Threads \ {t}
      /\ \A i \in ExtendsMd(persists) : persists[i].t \in Threads \ {t}
      /\ resizing # NULL => resizing.t \in Threads \ {t}
  BY <1>2, ExtendFields DEF ExtendInv, AnswerInv, Asked
<1> HIDE DEF n, t
<1>10. AnswerInv'
  <2>1. \A i \in DOMAIN sync_requests' : Asked(sync_requests[i].t, "sync")'
    BY <1>1, <1>6, <1>8 DEF ExtendInv, AnswerInv, Asked
  <2>2. \A i, j \in DOMAIN sync_requests' : sync_requests'[i].t = sync_requests'[j].t => i = j
    BY <1>6 DEF ExtendInv, AnswerInv
  <2>3. \A u \in Threads : sem'[u] <= 1 /\ (sem'[u] # 0 => thread'[u].pc \in {"extend", "sync"})
    BY <1>1, <1>2, <1>8 DEF ExtendInv, AnswerInv, Asked
  <2>4. \A i \in Extends(mdq') : mdq'[i].t \in Writers /\ Asked(mdq[i].t, "extend")'
    BY <1>1, <1>8, <1>9 DEF ExtendInv, AnswerInv, Asked
  <2>5. resizing' # NULL => resizing'.t \in Writers /\ Asked(resizing.t, "extend")'
    BY <1>1, <1>8, <1>9 DEF ExtendInv, AnswerInv, Asked
  <2>6. \A i \in ExtendsMd(persists') :
          persists'[i].t \in Writers /\ Asked(persists[i].t, "extend")'
    <3> TAKE i \in ExtendsMd(persists')
    <3>1. /\ i + 1 \in ExtendsMd(persists) /\ persists'[i] = persists[i + 1]
          /\ persists[i + 1].t \in Threads \ {t}
      BY <1>7, <1>9
    <3>2. persists[i + 1].t \in Writers /\ Asked(persists[i + 1].t, "extend")
      BY <3>1 DEF ExtendInv, AnswerInv
    <3> QED
      BY <1>1, <1>8, <3>1, <3>2 DEF Asked
  <2> QED
    BY <2>1, <2>2, <2>3, <2>4, <2>5, <2>6 DEF AnswerInv
<1>11. OneInv'
  BY <1>1, <1>7 DEF ExtendInv, OneInv
<1>12. RoomInv'
  BY <1>1, <1>2, <1>8, ThreadAssumption DEF ExtendInv, RoomInv, WriteEnd, Asked
<1>13. SizeInv'
  BY <1>1, <1>7 DEF ExtendInv, SizeInv, WriteEnd
<1> QED
  BY <1>10, <1>11, <1>12, <1>13 DEF ExtendInv

\* The extension is received: the blob has the size, or the resize starts; there
\* is no other one that could refuse it.
LEMMA ExtendExtend ==
    ASSUME IInv, ExtendInv, Extend
    PROVE  ExtendInv'
<1> DEFINE m == Head(mdq)
           r == [op |-> "extend", t |-> m.t, size |-> m.size, off |-> 0, len |-> 0]
<1>0. mdq \in Seq(CachedMessage) /\ persists \in Seq(CachedPersist)
  BY DEF IInv, NoDirect
<1>1. /\ mdq # <<>> /\ mdq' = Tail(mdq) /\ m = mdq[1] /\ 1 \in Extends(mdq)
      /\ UNCHANGED <<sync_requests, blob_size>>
  BY <1>0 DEF Extend, Receives, Extends, flushVars
<1>2. /\ Extends(mdq') = {}
      /\ resizing = NULL /\ ExtendsMd(persists) = {}
  <2>1. \A i \in Extends(mdq') : i + 1 \in Extends(mdq) /\ i \in Nat \ {0}
    BY <1>0, <1>1, ExtendsTail DEF Extends
  <2> QED
    BY <1>1, <2>1 DEF ExtendInv, OneInv
<1>3. /\ m.t \in Writers /\ m.t \in Threads /\ Asked(m.t, "extend")
      /\ blob_size <= m.size /\ WriteEnd(m.t) <= m.size
  BY <1>1, ExtendFields DEF ExtendInv, AnswerInv, SizeInv
<1>4. BlobResize(r)
  BY DEF Extend
<1> HIDE DEF m
<1>5. r.op = "extend" /\ r.t = m.t /\ r.size = m.size
  OBVIOUS
<1> HIDE DEF r
<1>6. CASE r.size = blob_size /\ ResizeCb(r) /\ UNCHANGED <<resizing, sem, thread>>
  <2> DEFINE e == [op |-> "extend", t |-> m.t, val |-> xattr]
  <2>1. persists' = Append(persists, e) /\ UNCHANGED append_pos
    BY <1>5, <1>6 DEF ResizeCb, ExtendResized, sizeVars
  <2>2. e.op = "extend" /\ e.t = m.t
    OBVIOUS
  <2> HIDE DEF e
  <2>3. ExtendsMd(persists') = {Len(persists) + 1} /\ persists'[Len(persists) + 1].t = m.t
    BY <1>0, <1>2, <2>1, <2>2, ExtendsAppend
  <2>4. AnswerInv'
    BY <1>1, <1>2, <1>3, <1>6, <2>3 DEF ExtendInv, AnswerInv, Asked
  <2>5. OneInv'
    BY <1>2, <1>6, <2>3 DEF OneInv
  <2>6. RoomInv'
    BY <1>1, <1>6, <2>1 DEF ExtendInv, RoomInv, WriteEnd
  <2>7. SizeInv'
    BY <1>1, <1>2, <1>3, <1>5, <1>6, <2>3 DEF SizeInv, WriteEnd
  <2> QED
    BY <2>4, <2>5, <2>6, <2>7 DEF ExtendInv
<1>7. CASE resizing' = r /\ UNCHANGED <<sizeVars, persists, xattr, sem, thread>>
  <2>1. AnswerInv'
    BY <1>1, <1>2, <1>3, <1>5, <1>7 DEF ExtendInv, AnswerInv, Asked
  <2>2. OneInv'
    BY <1>2, <1>7 DEF OneInv
  <2>3. RoomInv'
    BY <1>1, <1>7 DEF ExtendInv, RoomInv, WriteEnd, sizeVars
  <2>4. SizeInv'
    BY <1>1, <1>2, <1>3, <1>5, <1>7 DEF SizeInv, WriteEnd
  <2> QED
    BY <2>1, <2>2, <2>3, <2>4 DEF ExtendInv
<1> QED
  BY <1>2, <1>4, <1>6, <1>7 DEF BlobResize

\* A post answers the writer that waits for its extension, with an error or when
\* the blob has its room.
LEMMA ExtendAnswered ==
    ASSUME Discipline, IInv, ExtendInv, NEW t \in Writers, Asked(t, "extend"),
           sem' = [sem EXCEPT ![t] = @ + 1],
           \/ thread' = [thread EXCEPT ![t].err = TRUE]
           \/ UNCHANGED thread /\ WriteEnd(t) <= blob_size',
           UNCHANGED <<append_pos, mdq, sync_requests>>, blob_size' \in Nat, blob_size <= blob_size',
           Extends(mdq) = {}, resizing' = NULL, ExtendsMd(persists') = {}
    PROVE  ExtendInv'
<1>1. Writers = {t} /\ t \in Threads
  BY OneWriter, ThreadAssumption
<1>2. sem'[t] = 1 /\ \A u \in Threads \ {t} : sem'[u] = sem[u]
  BY <1>1, Posted
<1>3. /\ \A u \in Threads \ {t} : thread'[u] = thread[u]
      /\ thread'[t].pc = "extend" /\ thread'[t].off = thread[t].off /\ thread'[t].rem = thread[t].rem
      /\ thread'[t].err \/ WriteEnd(t) <= blob_size'
  BY <1>1, Numbers DEF ThreadState, Asked
<1>4. \A i \in DOMAIN sync_requests : sync_requests[i].t \in Threads \ {t}
  BY ExtendFields DEF ExtendInv, AnswerInv, Asked
<1>5. AnswerInv'
  BY <1>1, <1>2, <1>3, <1>4 DEF ExtendInv, AnswerInv, Asked
<1>6. OneInv'
  BY DEF OneInv
<1>7. RoomInv'
  BY <1>1, <1>2, <1>3, Numbers DEF ExtendInv, RoomInv, WriteEnd, Asked
<1>8. SizeInv'
  BY DEF SizeInv
<1> QED
  BY <1>5, <1>6, <1>7, <1>8 DEF ExtendInv

LEMMA ResizeDoneExtend ==
    ASSUME Discipline, IInv, ExtendInv, ResizeDone
    PROVE  ExtendInv'
<1> DEFINE t == resizing.t
<1>0. /\ resizing # NULL /\ resizing' = NULL /\ resizing.op = "extend"
      /\ resizing.size \in Nat /\ persists \in Seq(CachedPersist)
      /\ UNCHANGED <<mdq, sync_requests>>
  BY DEF ResizeDone, IInv, NoDirect, CachedResize, flushVars, mdVars
<1>1. /\ t \in Writers /\ t \in Threads /\ Asked(t, "extend")
      /\ blob_size <= resizing.size /\ WriteEnd(t) <= resizing.size
      /\ Extends(mdq) = {} /\ ExtendsMd(persists) = {}
  BY <1>0, ExtendFields DEF ExtendInv, AnswerInv, SizeInv, OneInv
<1> HIDE DEF t
<1>2. CASE blob_size' = resizing.size /\ ResizeCb(resizing) /\ UNCHANGED <<sem, thread>>
  <2> DEFINE e == [op |-> "extend", t |-> t, val |-> xattr]
  <2>1. persists' = Append(persists, e) /\ UNCHANGED append_pos
    BY <1>0, <1>2 DEF ResizeCb, ExtendResized, sizeVars, t
  <2>2. e.op = "extend" /\ e.t = t
    OBVIOUS
  <2> HIDE DEF e
  <2>3. ExtendsMd(persists') = {Len(persists) + 1} /\ persists'[Len(persists) + 1].t = t
    BY <1>0, <1>1, <2>1, <2>2, ExtendsAppend
  <2>4. AnswerInv'
    BY <1>0, <1>1, <1>2, <2>3 DEF ExtendInv, AnswerInv, Asked
  <2>5. OneInv'
    BY <1>0, <1>1, <2>3 DEF OneInv
  <2>6. RoomInv'
    <3>1. Writers = {t} /\ thread[t].pc = "extend" /\ sem[t] = 0
      BY <1>1, OneWriter DEF Asked
    <3> QED
      BY <1>0, <1>1, <1>2, <2>1, <3>1, Numbers DEF ExtendInv, RoomInv, WriteEnd
  <2>7. SizeInv'
    BY <1>0, <1>1, <1>2, <2>3 DEF SizeInv, WriteEnd
  <2> QED
    BY <2>4, <2>5, <2>6, <2>7 DEF ExtendInv
<1>3. CASE WakeFailed(resizing.t) /\ UNCHANGED <<sizeVars, blob_size, xattr, persists>>
  <2>1. /\ sem' = [sem EXCEPT ![t] = @ + 1] /\ thread' = [thread EXCEPT ![t].err = TRUE]
        /\ UNCHANGED <<append_pos, mdq, sync_requests>>
        /\ ExtendsMd(persists') = {} /\ blob_size' = blob_size
    BY <1>0, <1>1, <1>3 DEF WakeFailed, sizeVars, t
  <2>2. blob_size' \in Nat /\ blob_size <= blob_size'
    BY <2>1, Numbers
  <2> QED
    BY <1>0, <1>1, <2>1, <2>2, ExtendAnswered
<1> QED
  BY <1>2, <1>3 DEF ResizeDone

LEMMA ExtendDoneExtend ==
    ASSUME Discipline, IInv, ExtendInv, ExtendDone
    PROVE  ExtendInv'
<1> DEFINE t == Head(persists).t
<1>0. persists \in Seq(CachedPersist)
  BY DEF IInv, NoDirect
<1>1. /\ persists # <<>> /\ persists' = Tail(persists) /\ 1 \in ExtendsMd(persists)
      /\ Head(persists) = persists[1]
      /\ UNCHANGED <<append_pos, mdq, sync_requests, resizing, blob_size>>
  BY <1>0 DEF ExtendDone, PersistOver, ExtendsMd, sizeVars, flushVars, mdVars
<1>2. /\ t \in Writers /\ t \in Threads /\ Asked(t, "extend") /\ WriteEnd(t) <= blob_size
      /\ Extends(mdq) = {} /\ resizing = NULL
  BY <1>1, ExtendFields DEF ExtendInv, AnswerInv, SizeInv, OneInv
<1>3. ExtendsMd(persists') = {}
  <2>1. \A i \in ExtendsMd(persists') : i + 1 \in ExtendsMd(persists) /\ i \in Nat \ {0}
    BY <1>0, <1>1, ExtendsTail DEF ExtendsMd
  <2> QED
    BY <1>1, <2>1 DEF ExtendInv, OneInv
<1>4. WakeCaller(t) \/ WakeFailed(t)
  BY DEF ExtendDone
<1> HIDE DEF t
<1>5. blob_size \in Nat /\ blob_size <= blob_size /\ resizing' = NULL
  BY <1>1, <1>2, Numbers
<1>6. CASE WakeCaller(t)
  BY <1>1, <1>2, <1>3, <1>5, <1>6, ExtendAnswered DEF WakeCaller
<1>7. CASE WakeFailed(t)
  BY <1>1, <1>2, <1>3, <1>5, <1>7, ExtendAnswered DEF WakeFailed
<1> QED
  BY <1>4, <1>6, <1>7

-----------------------------------------------------------------------------
LEMMA InitExtend ==
    Init => ExtendInv
<1> SUFFICES ASSUME NEW len \in InitLens, InitFile(len) PROVE ExtendInv
  BY DEF Init
<1>1. len \in Nat /\ Max2(len, 1) \in Nat /\ len <= Max2(len, 1)
  BY SizeAssumption DEF Max2
<1>2. append_pos = len /\ blob_size >= Max2(len, 1) /\ blob_size \in Nat
  BY <1>1, ClustersType DEF InitFile
<1>3. /\ mdq = <<>> /\ persists = <<>> /\ resizing = NULL /\ sync_requests = <<>>
      /\ \A t \in Threads : thread[t].pc = "idle" /\ sem[t] = 0
  BY DEF InitFile, Idle
<1>4. Extends(mdq) = {} /\ ExtendsMd(persists) = {}
  BY <1>3 DEF Extends, ExtendsMd
<1>5. AnswerInv /\ OneInv /\ SizeInv
  BY <1>3, <1>4 DEF AnswerInv, OneInv, SizeInv
<1>6. RoomInv
  BY <1>1, <1>2, <1>3, ThreadAssumption DEF RoomInv
<1> QED
  BY <1>5, <1>6 DEF ExtendInv

LEMMA StepExtend ==
    ASSUME Discipline, IInv, ExtendInv, [Next]_vars
    PROVE  ExtendInv'
<1>1. ASSUME NEW t \in Writers, CachedWrite(t) PROVE ExtendInv'
  BY <1>1, WriteCallExtend, WriteExtendExtend, WriteLockedExtend, ExtendReturnExtend, CopyExtend,
     FillExtend DEF CachedWrite
<1>2. ASSUME UNCHANGED <<append_pos, resizing, sem, thread, blob_size, mdq, persists, sync_requests>>
      PROVE  ExtendInv'
  BY <1>2, MdQuiet
<1>3. ASSUME NEW t \in Threads, SyncStep(t) PROVE ExtendInv'
  <2>1. SyncNothing(t) => UNCHANGED <<append_pos, resizing, sem, thread, blob_size, mdq, persists,
                                      sync_requests>>
    BY DEF SyncNothing, sizeVars, flushVars, userVars, mdVars, metaVars
  <2> QED
    BY <1>2, <1>3, <2>1, SyncCallExtend, SyncReturnExtend DEF SyncStep
<1>4. ASSUME CachedMd PROVE ExtendInv'
  BY <1>4, FlushExtend, FinishSyncExtend, ExtendExtend, ResizeDoneExtend, ExtendDoneExtend
     DEF CachedMd
<1>5. CASE UNCHANGED vars
  BY <1>2, <1>5 DEF vars, sizeVars, flushVars, userVars, mdVars, metaVars
<1> QED
  BY <1>1, <1>3, <1>4, <1>5, CachedSteps

\* Under Discipline, every post of a semaphore answers the call that waits on it,
\* although writes and syncs of a thread share it, and a write that goes on after
\* an extension finds the room it asked for (spdk_file_write, __wake_caller).
THEOREM ExtendAnswers ==
    ASSUME Discipline
    PROVE  Spec => []ExtendInv
<1>1. Init => ExtendInv
  BY InitExtend
<1>2. IInv /\ ExtendInv /\ [Next]_vars => ExtendInv'
  BY StepExtend
<1> QED
  BY <1>1, <1>2, Inductive, PTL DEF Spec

-----------------------------------------------------------------------------
(* The flushes.                                                              *)

\* What a buffer holds was appended.
LEMMA BufferEnd ==
    ASSUME IInv, NEW b \in DOMAIN tree
    PROVE  b \in Nat /\ tree[b].filled \in Nat /\ b + tree[b].filled <= append_pos
<1>1. b \in Nat /\ tree[b].filled \in Nat
  BY BufferTypes
<1>2. CASE last = NULL
  BY <1>1, <1>2, BufferTypes DEF IInv, BufferInv
<1>3. CASE last # NULL
  <2>1. last \in DOMAIN tree /\ last <= append_pos /\ last + tree[last].filled <= append_pos
    BY <1>3, LastEnd
  <2>2. b # last => b + BufSize <= last
    BY <1>3, <2>1 DEF IInv, TreeInv
  <2> QED
    BY <1>1, <1>3, <2>1, <2>2, BufferTypes
<1> QED
  BY <1>1, <1>2, <1>3

LEMMA StepWithin ==
    ASSUME Discipline, IInv, ExtendInv, FlushWithinBlob, [Next]_vars
    PROVE  FlushWithinBlob'
<1> USE DEF dataVars, metaVars
<1>1. append_pos \in Nat /\ blob_size \in Nat /\ append_pos <= blob_size /\ io \subseteq DataIo
      /\ \A o \in io : o.off \in Nat /\ o.len \in Nat
  <2>1. io \subseteq DataIo
    BY DEF IInv, TypeInv, TypeOK
  <2> QED
    BY <2>1, Numbers DEF ExtendInv, RoomInv, DataIo
<1>2. CASE FlushWrite
  <2> DEFINE o == [op |-> "flush", buf |-> FlushNext,
                   off |-> FlushNext + tree[FlushNext].flushed,
                   len |-> tree[FlushNext].filled - tree[FlushNext].flushed]
  <2>1. io' = io \cup {o} /\ blob_size' = blob_size
    BY <1>2 DEF FlushWrite
  <2>2. FlushNext \in DOMAIN tree /\ FlushNext \in Nat /\ tree[FlushNext].filled \in Nat
        /\ FlushNext + tree[FlushNext].filled <= append_pos
    BY <1>2, FlushWriteFacts, BufferEnd
  <2>3. tree[FlushNext].flushed \in Nat
    BY <2>2 DEF IInv, TypeInv, TypeOK, Buffer
  <2>4. o.off + o.len <= blob_size
    BY <1>1, <2>2, <2>3
  <2> QED
    BY <2>1, <2>4 DEF FlushWithinBlob
<1>3. ASSUME io' \subseteq io, blob_size' \in Nat, blob_size <= blob_size' PROVE FlushWithinBlob'
  BY <1>1, <1>3 DEF FlushWithinBlob
<1>4. CASE ResizeDone
  <2>1. io' = io /\ resizing # NULL /\ (blob_size' = resizing.size \/ blob_size' = blob_size)
    BY <1>4 DEF ResizeDone
  <2>2. blob_size <= resizing.size /\ resizing.size \in Nat
    BY <2>1, ExtendFields DEF ExtendInv, SizeInv
  <2> QED
    BY <1>1, <1>3, <2>1, <2>2
<1>5. ASSUME NEW t \in Writers, CachedWrite(t) PROVE UNCHANGED <<io, blob_size>>
  BY <1>5 DEF CachedWrite, WriteCall, WriteExtend, WriteLocked, ExtendReturn, Copy, FillPart,
              FillWhole
<1>6. ASSUME NEW t \in Threads, SyncStep(t) PROVE UNCHANGED <<io, blob_size>>
  BY <1>6 DEF SyncStep, SyncNothing, SyncCall, SyncReturn
<1>7. ASSUME CachedMd, ~FlushWrite, ~ResizeDone PROVE io' \subseteq io /\ blob_size' = blob_size
  BY <1>7 DEF CachedMd, FlushLater, FlushNoBuffer, FlushNothing, FlushDone, CheckSyncReqs,
              FinishSync, Extend, ExtendDone
<1>8. CASE UNCHANGED vars
  BY <1>1, <1>3, <1>8 DEF vars
<1> QED
  BY <1>1, <1>2, <1>3, <1>4, <1>5, <1>6, <1>7, <1>8, CachedSteps

\* Under Discipline, no flush reaches past the end of the blob: a buffer is filled
\* only when the blob was extended for it, for all sizes of writes, buffers and
\* clusters, and although resizes fail (spdk_file_write, __file_flush).
THEOREM FlushesFit ==
    ASSUME Discipline
    PROVE  Spec => []FlushWithinBlob
<1>1. Init => FlushWithinBlob
  BY DEF Init, InitFile, FlushWithinBlob
<1>2. IInv /\ ExtendInv /\ FlushWithinBlob /\ [Next]_vars => FlushWithinBlob'
  BY StepWithin
<1> QED
  BY <1>1, <1>2, Inductive, ExtendAnswers, PTL DEF Spec

=============================================================================
