--------------------------- MODULE FileCacheProofs ---------------------------
(***************************************************************************)
(* Type correctness of FileCache for every value of its constants.  No       *)
(* discipline of the client is assumed and everything may fail.             *)
(***************************************************************************)
EXTENDS FileCache, SequenceTheorems, TLAPS

\* What type correctness rests on: no buffer is filled beyond its size or
\* flushed beyond what it holds, and a flush in flight is the only one of its
\* buffer, which is still in the tree.
BuffersOK ==
    /\ last = NULL => \A b \in DOMAIN tree : tree[b].filled = tree[b].flushed
    /\ \A b \in DOMAIN tree : tree[b].flushed <= tree[b].filled /\ tree[b].filled <= BufSize
    /\ \A o \in io : o.op = "flush" =>
         /\ o.buf \in DOMAIN tree
         /\ tree[o.buf].in_progress
         /\ o.len >= 1
         /\ tree[o.buf].flushed + o.len <= tree[o.buf].filled
    /\ \A o, p \in io : o.op = "flush" /\ p.op = "flush" /\ o.buf = p.buf => o = p

\* A writer that is going to fill a buffer has been given one.
Growing == {"extend", "copy", "fill"}
WriterInv == \A t \in Writers : thread[t].pc \in Growing => last # NULL

-----------------------------------------------------------------------------
(* Type correctness, for every value of the constants.                       *)

\* The inductive invariant.
TypeInv == TypeOK /\ BuffersOK

LEMMA ClustersType ==
    ASSUME NEW n \in Nat
    PROVE  BytesToClusters(n) \in Nat /\ BytesToClusters(n) >= n
BY SizeAssumption DEF BytesToClusters

LEMMA InitType == Init => TypeInv
<1> SUFFICES ASSUME NEW len \in InitLens, InitFile(len) PROVE TypeInv
  BY DEF Init
<1> USE SizeAssumption DEF InitFile
<1>1. len \in Nat /\ Max2(len, 1) \in Nat
  BY DEF Max2
<1>2. blob_size \in Nat
  BY <1>1, ClustersType
<1>3. tree = [b \in {} |-> EmptyBuffer] /\ DOMAIN tree = {}
  OBVIOUS
<1>4. thread \in [Threads -> ThreadState]
  BY ThreadAssumption DEF Idle, ThreadState, Pcs
<1>5. disk \subseteq Nat
  BY <1>1 DEF Bytes
<1>6. TypeOK
  BY <1>1, <1>2, <1>3, <1>4, <1>5 DEF TypeOK
<1> QED
  BY <1>3, <1>6 DEF TypeInv, BuffersOK

LEMMA ReturnType ==
    ASSUME TypeOK, NEW t \in Threads, Return(t)
    PROVE  thread' \in [Threads -> ThreadState]
<1>1. Idle \in ThreadState
  BY ThreadAssumption DEF Idle, ThreadState, Pcs
<1> QED
  BY <1>1 DEF TypeOK, Return

LEMMA WakeType ==
    ASSUME TypeOK, NEW t \in Threads, WakeCaller(t) \/ WakeFailed(t)
    PROVE  thread' \in [Threads -> ThreadState] /\ sem' \in [Threads -> Nat]
<1>1. sem' = [sem EXCEPT ![t] = @ + 1]
  BY DEF WakeCaller, WakeFailed
<1>2. sem' \in [Threads -> Nat]
  BY <1>1 DEF TypeOK
<1>3. thread \in [Threads -> ThreadState] /\ thread[t] \in ThreadState
  BY DEF TypeOK
<1>4. thread' \in [Threads -> ThreadState]
  <2>1. CASE UNCHANGED thread
    BY <1>3, <2>1
  <2>2. CASE thread' = [thread EXCEPT ![t].err = TRUE]
    BY <1>3, <2>2 DEF ThreadState
  <2> QED
    BY <2>1, <2>2 DEF WakeCaller, WakeFailed
<1> QED
  BY <1>2, <1>4

LEMMA SemWaitType ==
    ASSUME TypeOK, NEW t \in Threads, SemWait(t)
    PROVE  sem' \in [Threads -> Nat]
<1>1. sem[t] \in Nat /\ sem[t] - 1 \in Nat
  BY DEF TypeOK, SemWait
<1> QED
  BY <1>1 DEF TypeOK, SemWait

\* What tree_find_buffer returns.
LEMMA FindType ==
    ASSUME NEW off, TypeOK
    PROVE  /\ TreeFind(off) # NULL => /\ TreeFind(off) \in DOMAIN tree
                                      /\ TreeFind(off) <= off
                                      /\ off < TreeFind(off) + BufSize
           /\ TreeFind(off) = NULL =>
                \A b \in DOMAIN tree : ~(b <= off /\ off < b + BufSize)
<1> DEFINE hit == {b \in DOMAIN tree : b <= off /\ off < b + BufSize}
<1>1. CASE hit = {}
  BY <1>1 DEF TreeFind
<1>2. CASE hit # {}
  <2>1. TreeFind(off) = CHOOSE b \in hit : TRUE
    BY <1>2 DEF TreeFind
  <2>2. TreeFind(off) \in hit
    BY <1>2, <2>1
  <2>3. TreeFind(off) # NULL
    BY <2>2, ThreadAssumption DEF TypeOK
  <2> QED
    BY <2>2, <2>3
<1> QED
  BY <1>1, <1>2

LEMMA EmptyType == EmptyBuffer \in Buffer
BY DEF EmptyBuffer, Buffer

\* A handler of the metadata thread is taken off the queue or off cont.
LEMMA RunsType ==
    ASSUME TypeOK, NEW h, Runs(h)
    PROVE  mdq' \in Seq(Message)
<1>1. CASE mdq' = mdq
  BY <1>1 DEF TypeOK
<1>2. CASE mdq # <<>> /\ mdq' = Tail(mdq)
  BY <1>2 DEF TypeOK
<1> QED
  BY <1>1, <1>2 DEF Runs

LEMMA ThenType ==
    ASSUME TypeOK, NEW more \in Seq({"check", "flush"}), Then(more)
    PROVE  cont' \in Seq({"check", "flush"})
<1>1. CASE cont = <<>>
  BY <1>1 DEF TypeOK, Then
<1>2. CASE cont # <<>>
  BY <1>2 DEF TypeOK, Then
<1> QED
  BY <1>1, <1>2

LEMMA HandlerType ==
    ASSUME TypeOK, Runs("flush") \/ Runs("check"), Then(<<>>) \/ Then(<<"check">>)
    PROVE  mdq' \in Seq(Message) /\ cont' \in Seq({"check", "flush"})
<1>1. <<>> \in Seq({"check", "flush"}) /\ <<"check">> \in Seq({"check", "flush"})
  OBVIOUS
<1>2. mdq' \in Seq(Message)
  BY RunsType
<1>3. cont' \in Seq({"check", "flush"})
  BY <1>1, ThenType
<1> QED
  BY <1>2, <1>3

LEMMA ReceivesType ==
    ASSUME TypeOK, NEW fn, Receives(fn)
    PROVE  Head(mdq) \in Message /\ Head(mdq).fn = fn /\ mdq' \in Seq(Message)
BY DEF TypeOK, Receives

LEMMA PersistType ==
    ASSUME TypeOK, NEW op, PersistOver(op)
    PROVE  /\ Head(persists) \in Persist /\ Head(persists).op = op
           /\ persists' \in Seq(Persist)
           /\ Head(persists).val \in Nat
<1>1. persists # <<>> /\ persists \in Seq(Persist)
  BY DEF TypeOK, PersistOver
<1>2. Head(persists) \in Persist /\ persists' \in Seq(Persist)
  BY <1>1 DEF PersistOver
<1> QED
  BY <1>2 DEF PersistOver, Persist

\* A step that leaves the cache and the flushes in flight alone keeps BuffersOK.
LEMMA BuffersKept ==
    ASSUME BuffersOK, UNCHANGED <<last, tree>>,
           \A o \in io' : o.op = "flush" => o \in io
    PROVE  BuffersOK'
BY DEF BuffersOK

\* The cache after an append has looked for its last buffer.
LEMMA HaveLastType ==
    ASSUME TypeInv, HaveLast, UNCHANGED io
    PROVE  /\ last' \in Nat
           /\ DOMAIN tree' \subseteq Nat /\ tree' \in [DOMAIN tree' -> Buffer]
           /\ BuffersOK'
<1>1. CASE last # NULL /\ UNCHANGED cacheVars
  BY <1>1 DEF TypeInv, TypeOK, BuffersOK, cacheVars
<1>2. CASE last = NULL /\ last' = append_pos /\ tree' = TreeWithLast
  <2>1. tree' = Put(tree, append_pos, EmptyBuffer)
    BY <1>2 DEF TreeWithLast
  <2>2. /\ append_pos \in Nat /\ append_pos # NULL
        /\ DOMAIN tree \subseteq Nat /\ tree \in [DOMAIN tree -> Buffer]
    BY <1>2, ThreadAssumption DEF TypeInv, TypeOK
  <2>3. /\ DOMAIN tree' = DOMAIN tree \cup {append_pos}
        /\ tree' \in [DOMAIN tree' -> Buffer]
        /\ tree'[append_pos] = EmptyBuffer
        /\ \A b \in DOMAIN tree : b # append_pos => tree'[b] = tree[b]
    <3>1. /\ DOMAIN Put(tree, append_pos, EmptyBuffer) = DOMAIN tree \cup {append_pos}
          /\ Put(tree, append_pos, EmptyBuffer)
               \in [DOMAIN tree \cup {append_pos} -> Buffer]
          /\ Put(tree, append_pos, EmptyBuffer)[append_pos] = EmptyBuffer
      BY <2>2, EmptyType DEF Put
    <3>2. \A b \in DOMAIN tree : b # append_pos => tree'[b] = tree[b]
      BY <2>1 DEF Put
    <3> QED
      BY <2>1, <3>1, <3>2
  <2>4. \A o \in io' : o.op # "flush"
    <3> SUFFICES ASSUME NEW o \in io, o.op = "flush" PROVE FALSE
      OBVIOUS
    <3>1. /\ o.buf \in DOMAIN tree /\ o.len >= 1 /\ o.len \in Nat
          /\ tree[o.buf].flushed + o.len <= tree[o.buf].filled
          /\ tree[o.buf].filled = tree[o.buf].flushed
      BY <1>2 DEF TypeInv, TypeOK, BuffersOK, DataIo
    <3>2. tree[o.buf].flushed \in Nat
      BY <2>2, <3>1 DEF Buffer
    <3> QED
      BY <3>1, <3>2
  <2>5. \A b \in DOMAIN tree' : tree'[b].flushed <= tree'[b].filled /\ tree'[b].filled <= BufSize
    <3> TAKE b \in DOMAIN tree'
    <3>1. CASE b = append_pos
      BY <2>3, <3>1, SizeAssumption DEF EmptyBuffer
    <3>2. CASE b # append_pos
      BY <2>3, <3>2 DEF TypeInv, BuffersOK
    <3> QED
      BY <3>1, <3>2
  <2>6. BuffersOK'
    BY <1>2, <2>2, <2>4, <2>5 DEF BuffersOK
  <2> QED
    BY <1>2, <2>2, <2>3, <2>6
<1> QED
  BY <1>1, <1>2 DEF HaveLast

LEMMA WriteCallType ==
    ASSUME TypeInv, NEW t \in Writers, NEW n \in WriteSizes, WriteCall(t, n)
    PROVE  TypeInv'
<1> USE DEF sizeVars, flushVars, cacheVars, userVars, mdVars, dataVars, metaVars, durVars
<1>1. thread' \in [Threads -> ThreadState]
  BY SizeAssumption, ThreadAssumption DEF TypeInv, TypeOK, WriteCall, Idle, ThreadState, Pcs
<1>2. BuffersOK'
  BY BuffersKept DEF TypeInv, WriteCall
<1> QED
  BY <1>1, <1>2 DEF TypeInv, TypeOK, WriteCall

LEMMA WriteDirectType ==
    ASSUME TypeInv, NEW t \in Writers, WriteDirect(t)
    PROVE  TypeInv'
<1> USE DEF sizeVars, flushVars, cacheVars, userVars, mdVars, dataVars, metaVars, durVars
<1>1. t \in Threads /\ thread \in [Threads -> ThreadState] /\ thread[t] \in ThreadState
  BY ThreadAssumption DEF TypeInv, TypeOK
<1>2. thread[t].off \in Nat /\ thread[t].rem \in Nat
  BY <1>1 DEF ThreadState
<1>3. append_pos' \in Nat /\ length' \in Nat
  <2>1. append_pos \in Nat /\ length \in Nat
    BY DEF TypeInv, TypeOK
  <2>2. append_pos' = append_pos + thread[t].rem /\ length' = length
    BY DEF WriteDirect
  <2> QED
    BY <1>2, <2>1, <2>2
<1>4. thread' \in [Threads -> ThreadState] /\ sem' \in [Threads -> Nat] /\ mdq' \in Seq(Message)
  <2>1. CASE /\ mdq' = Append(mdq, RwMsg("write", t, thread[t].off, thread[t].rem))
             /\ thread' = [thread EXCEPT ![t].pc = "direct"]
             /\ UNCHANGED sem
    <3>1. RwMsg("write", t, thread[t].off, thread[t].rem) \in Message
      BY <1>1, <1>2 DEF RwMsg, Message
    <3>2. mdq' \in Seq(Message) /\ sem' \in [Threads -> Nat]
      BY <2>1, <3>1 DEF TypeInv, TypeOK
    <3>3. thread' \in [Threads -> ThreadState]
      BY <1>1, <2>1 DEF ThreadState, Pcs
    <3> QED
      BY <3>2, <3>3
  <2>2. CASE sem' = [sem EXCEPT ![t] = @ + 1] /\ Return(t) /\ UNCHANGED mdq
    BY <1>1, <2>2, ReturnType DEF TypeInv, TypeOK
  <2> QED
    BY <2>1, <2>2 DEF WriteDirect
<1>5. BuffersOK'
  BY BuffersKept DEF TypeInv, WriteDirect
<1> QED
  BY <1>3, <1>4, <1>5 DEF TypeInv, TypeOK, WriteDirect

LEMMA WriteExtendType ==
    ASSUME TypeInv, NEW t \in Writers, WriteExtend(t)
    PROVE  TypeInv'
<1> USE DEF sizeVars, flushVars, cacheVars, userVars, mdVars, dataVars, metaVars, durVars
<1>1. t \in Threads /\ thread \in [Threads -> ThreadState] /\ thread[t] \in ThreadState
  BY ThreadAssumption DEF TypeInv, TypeOK
<1>2. thread[t].off + thread[t].rem \in Nat
  BY <1>1 DEF ThreadState
<1>3. [fn |-> "extend", t |-> t, size |-> BytesToClusters(thread[t].off + thread[t].rem)]
         \in Message
  BY <1>1, <1>2, ClustersType DEF Message
<1>4. mdq' \in Seq(Message)
  BY <1>3 DEF TypeInv, TypeOK, WriteExtend
<1>5. thread' \in [Threads -> ThreadState]
  BY <1>1 DEF WriteExtend, ThreadState, Pcs
<1>6. /\ last' \in Nat
      /\ DOMAIN tree' \subseteq Nat /\ tree' \in [DOMAIN tree' -> Buffer]
      /\ BuffersOK'
  BY HaveLastType DEF WriteExtend
<1> QED
  BY <1>4, <1>5, <1>6 DEF TypeInv, TypeOK, WriteExtend

LEMMA WriteLockedType ==
    ASSUME TypeInv, NEW t \in Writers, WriteLocked(t)
    PROVE  TypeInv'
<1> USE DEF sizeVars, flushVars, cacheVars, userVars, mdVars, dataVars, metaVars, durVars
<1>1. t \in Threads /\ thread \in [Threads -> ThreadState] /\ thread[t] \in ThreadState
  BY ThreadAssumption DEF TypeInv, TypeOK
<1>2. /\ last' \in Nat
      /\ DOMAIN tree' \subseteq Nat /\ tree' \in [DOMAIN tree' -> Buffer]
      /\ BuffersOK'
  BY HaveLastType DEF WriteLocked
<1>3. thread' \in [Threads -> ThreadState] /\ lock' \in Threads \cup {NULL}
  <2>1. CASE lock' = t /\ thread' = [thread EXCEPT ![t].pc = "copy", ![t].last = last']
    BY <1>1, <1>2, <2>1 DEF ThreadState, Pcs
  <2>2. CASE Return(t) /\ UNCHANGED lock
    BY <1>1, <2>2, ReturnType DEF TypeInv, TypeOK
  <2> QED
    BY <2>1, <2>2 DEF WriteLocked
<1> QED
  BY <1>2, <1>3 DEF TypeInv, TypeOK, WriteLocked

LEMMA ExtendReturnType ==
    ASSUME TypeInv, NEW t \in Writers, ExtendReturn(t)
    PROVE  TypeInv'
<1> USE DEF sizeVars, flushVars, cacheVars, userVars, mdVars, dataVars, metaVars, durVars
<1>1. t \in Threads /\ thread \in [Threads -> ThreadState] /\ thread[t] \in ThreadState
  BY ThreadAssumption DEF TypeInv, TypeOK
<1>2. sem' \in [Threads -> Nat]
  BY <1>1, SemWaitType DEF TypeInv, ExtendReturn
<1>3. thread' \in [Threads -> ThreadState] /\ lock' \in Threads \cup {NULL}
  <2>1. CASE Return(t) /\ (UNCHANGED lock \/ lock' = NULL)
    BY <1>1, <2>1, ReturnType DEF TypeInv, TypeOK
  <2>2. CASE thread' = [thread EXCEPT ![t].pc = "copy", ![t].last = last] /\ UNCHANGED lock
    <3>1. last \in Nat \cup {NULL} /\ lock' \in Threads \cup {NULL}
      BY <2>2 DEF TypeInv, TypeOK
    <3> QED
      BY <1>1, <2>2, <3>1 DEF ThreadState, Pcs
  <2> QED
    BY <2>1, <2>2 DEF ExtendReturn
<1>4. BuffersOK'
  BY BuffersKept DEF TypeInv, ExtendReturn
<1> QED
  BY <1>2, <1>3, <1>4 DEF TypeInv, TypeOK, ExtendReturn

LEMMA CopyType ==
    ASSUME TypeInv, NEW t \in Writers, Copy(t)
    PROVE  TypeInv'
<1> USE DEF sizeVars, flushVars, cacheVars, userVars, mdVars, dataVars, metaVars, durVars
<1>1. t \in Threads /\ thread \in [Threads -> ThreadState] /\ thread[t] \in ThreadState
  BY ThreadAssumption DEF TypeInv, TypeOK
<1> DEFINE copy == Min2(BufSize - tree[thread[t].last].filled, thread[t].rem)
<1>2. /\ tree[thread[t].last] \in Buffer
      /\ tree[thread[t].last].filled <= BufSize
  BY DEF TypeInv, TypeOK, BuffersOK, Copy
<1>3. thread[t].rem \in Nat
  BY <1>1 DEF ThreadState
<1>4. copy \in Nat /\ thread[t].rem - copy \in Nat
  BY <1>2, <1>3, SizeAssumption DEF Min2, Buffer
<1>5. append_pos' \in Nat /\ length' \in Nat
  BY <1>4 DEF TypeInv, TypeOK, Copy, Max2
<1>6. thread' = [thread EXCEPT ![t].pc = "fill", ![t].copy = copy, ![t].rem = @ - copy]
  BY DEF Copy
<1>7. thread' \in [Threads -> ThreadState]
  <2> HIDE DEF copy
  <2> QED
    BY <1>1, <1>4, <1>6 DEF ThreadState, Pcs
<1>8. BuffersOK'
  BY BuffersKept DEF TypeInv, Copy
<1> QED
  BY <1>5, <1>7, <1>8 DEF TypeInv, TypeOK, Copy

LEMMA EndWriteType ==
    ASSUME TypeOK, NEW t \in Threads, NEW filled, EndWrite(t, filled)
    PROVE  /\ lock' \in Threads \cup {NULL}
           /\ thread' \in [Threads -> ThreadState]
           /\ mdq' \in Seq(Message)
<1>1. [fn |-> "flush"] \in Message
  BY DEF Message
<1>2. mdq' \in Seq(Message)
  BY <1>1 DEF TypeOK, EndWrite
<1> QED
  BY <1>2, ReturnType DEF EndWrite

\* The buffer a write has filled further.
LEMMA FilledType ==
    ASSUME TypeInv, NEW t \in Threads, thread[t].last \in DOMAIN tree,
           BytesFilled(t) <= BufSize
    PROVE  /\ DOMAIN Filled(t) = DOMAIN tree
           /\ Filled(t) \in [DOMAIN Filled(t) -> Buffer]
           /\ \A b \in DOMAIN tree :
                /\ Filled(t)[b].flushed = tree[b].flushed
                /\ Filled(t)[b].in_progress = tree[b].in_progress
                /\ Filled(t)[b].filled >= tree[b].filled
                /\ Filled(t)[b].filled <= BufSize
<1>1. thread[t].copy \in Nat
  BY DEF TypeInv, TypeOK, ThreadState
<1>2. tree \in [DOMAIN tree -> Buffer]
  BY DEF TypeInv, TypeOK
<1>3. \A b \in DOMAIN tree : tree[b].filled <= BufSize
  BY DEF TypeInv, BuffersOK
<1>4. /\ BytesFilled(t) \in Nat
      /\ BytesFilled(t) >= tree[thread[t].last].filled
  BY <1>1, <1>2 DEF BytesFilled, Buffer
<1> QED
  BY <1>2, <1>3, <1>4 DEF Filled, Buffer

\* BuffersOK only asks that buffers stay and that bytes_filled grows.
LEMMA BuffersGrow ==
    ASSUME TypeInv, UNCHANGED io, last' # NULL,
           DOMAIN tree \subseteq DOMAIN tree',
           \A b \in DOMAIN tree :
             /\ tree'[b].flushed = tree[b].flushed
             /\ tree'[b].in_progress = tree[b].in_progress
             /\ tree'[b].filled >= tree[b].filled
             /\ tree'[b].filled <= BufSize,
           tree' \in [DOMAIN tree' -> Buffer],
           \A b \in DOMAIN tree' \ DOMAIN tree : tree'[b] = EmptyBuffer
    PROVE  BuffersOK'
<1>0. tree \in [DOMAIN tree -> Buffer] /\ io \subseteq DataIo
  BY DEF TypeInv, TypeOK
<1>1. \A b \in DOMAIN tree' : tree'[b].flushed <= tree'[b].filled /\ tree'[b].filled <= BufSize
  <2> TAKE b \in DOMAIN tree'
  <2>1. CASE b \in DOMAIN tree
    BY <1>0, <2>1 DEF TypeInv, BuffersOK, Buffer
  <2>2. CASE b \notin DOMAIN tree
    BY <2>2, SizeAssumption DEF EmptyBuffer
  <2> QED
    BY <2>1, <2>2
<1>2. ASSUME NEW o \in io', o.op = "flush"
      PROVE  /\ o.buf \in DOMAIN tree'
             /\ tree'[o.buf].in_progress
             /\ o.len >= 1
             /\ tree'[o.buf].flushed + o.len <= tree'[o.buf].filled
  <2>1. /\ o.buf \in DOMAIN tree
        /\ tree[o.buf].in_progress
        /\ o.len >= 1
        /\ tree[o.buf].flushed + o.len <= tree[o.buf].filled
    BY <1>2 DEF TypeInv, BuffersOK
  <2>2. o.len \in Nat
    BY <1>0, <1>2 DEF DataIo
  <2>3. tree[o.buf] \in Buffer /\ tree'[o.buf] \in Buffer
    BY <1>0, <2>1
  <2> QED
    BY <2>1, <2>2, <2>3 DEF Buffer
<1> QED
  BY <1>1, <1>2 DEF TypeInv, BuffersOK

LEMMA FillPartType ==
    ASSUME TypeInv, last # NULL, NEW t \in Writers, FillPart(t)
    PROVE  TypeInv'
<1> USE DEF sizeVars, flushVars, cacheVars, userVars, mdVars, dataVars, metaVars, durVars
<1>1. t \in Threads
  BY ThreadAssumption
<1>2. /\ lock' \in Threads \cup {NULL}
      /\ thread' \in [Threads -> ThreadState]
      /\ mdq' \in Seq(Message)
  BY <1>1, EndWriteType DEF TypeInv, FillPart
<1>3. BytesFilled(t) <= BufSize /\ thread[t].last \in DOMAIN tree /\ tree' = Filled(t)
  <2>1. tree[thread[t].last] \in Buffer /\ thread[t].copy \in Nat
    BY <1>1 DEF TypeInv, TypeOK, FillPart, ThreadState
  <2>2. BytesFilled(t) \in Nat
    BY <2>1 DEF BytesFilled, Buffer
  <2> QED
    BY <2>2, SizeAssumption DEF FillPart
<1>4. /\ DOMAIN tree' = DOMAIN tree
      /\ tree' \in [DOMAIN tree' -> Buffer]
      /\ \A b \in DOMAIN tree :
           /\ tree'[b].flushed = tree[b].flushed
           /\ tree'[b].in_progress = tree[b].in_progress
           /\ tree'[b].filled >= tree[b].filled
           /\ tree'[b].filled <= BufSize
  BY <1>1, <1>3, FilledType
<1>5. last' = last /\ last' # NULL /\ UNCHANGED io
  BY DEF FillPart
<1>6. BuffersOK'
  BY <1>4, <1>5, BuffersGrow
<1> QED
  BY <1>2, <1>4, <1>6 DEF TypeInv, TypeOK, FillPart

LEMMA FillWholeType ==
    ASSUME TypeInv, last # NULL, NEW t \in Writers, FillWhole(t)
    PROVE  TypeInv'
<1> USE DEF sizeVars, flushVars, cacheVars, userVars, mdVars, dataVars, metaVars, durVars
<1>1. t \in Threads /\ thread \in [Threads -> ThreadState] /\ thread[t] \in ThreadState
  BY ThreadAssumption DEF TypeInv, TypeOK
<1>2. /\ BytesFilled(t) <= BufSize
      /\ thread[t].last \in DOMAIN tree
      /\ append_pos \in Nat /\ append_pos \notin DOMAIN tree
      /\ UNCHANGED io
  BY SizeAssumption DEF TypeInv, TypeOK, FillWhole
<1>3. /\ DOMAIN Filled(t) = DOMAIN tree
      /\ Filled(t) \in [DOMAIN Filled(t) -> Buffer]
      /\ \A b \in DOMAIN tree :
           /\ Filled(t)[b].flushed = tree[b].flushed
           /\ Filled(t)[b].in_progress = tree[b].in_progress
           /\ Filled(t)[b].filled >= tree[b].filled
           /\ Filled(t)[b].filled <= BufSize
  BY <1>1, <1>2, FilledType
<1>4. CASE tree' = Filled(t) /\ EndWrite(t, FALSE) /\ UNCHANGED last
  <2>1. last' # NULL
    BY <1>4
  <2>2. BuffersOK'
    BY <1>2, <1>3, <1>4, <2>1, BuffersGrow
  <2>3. /\ lock' \in Threads \cup {NULL}
        /\ thread' \in [Threads -> ThreadState]
        /\ mdq' \in Seq(Message)
    BY <1>1, <1>4, EndWriteType DEF TypeInv
  <2> QED
    BY <1>3, <1>4, <2>2, <2>3 DEF TypeInv, TypeOK, FillWhole
<1>5. CASE /\ tree' = Put(Filled(t), append_pos, EmptyBuffer)
           /\ last' = append_pos
           /\ \/ thread[t].rem = 0 /\ EndWrite(t, TRUE)
              \/ /\ thread[t].rem > 0
                 /\ thread' = [thread EXCEPT ![t].pc = "copy", ![t].filled = TRUE,
                                             ![t].last = append_pos]
                 /\ UNCHANGED <<lock, mdq>>
  <2>1. DOMAIN Filled(t) \subseteq Nat
    BY <1>3 DEF TypeInv, TypeOK
  <2>2. /\ DOMAIN tree' = DOMAIN Filled(t) \cup {append_pos}
        /\ tree' \in [DOMAIN tree' -> Buffer]
        /\ tree'[append_pos] = EmptyBuffer
        /\ \A c \in DOMAIN Filled(t) : c # append_pos => tree'[c] = Filled(t)[c]
    BY <1>2, <1>3, <1>5, <2>1, EmptyType DEF Put
  <2>3. \A b \in DOMAIN tree : tree'[b] = Filled(t)[b]
    BY <1>2, <1>3, <2>2
  <2>4. /\ last' # NULL
        /\ DOMAIN tree \subseteq DOMAIN tree'
        /\ \A b \in DOMAIN tree :
             /\ tree'[b].flushed = tree[b].flushed
             /\ tree'[b].in_progress = tree[b].in_progress
             /\ tree'[b].filled >= tree[b].filled
             /\ tree'[b].filled <= BufSize
        /\ \A b \in DOMAIN tree' \ DOMAIN tree : tree'[b] = EmptyBuffer
    BY <1>2, <1>3, <1>5, <2>2, <2>3, ThreadAssumption
  <2>5. BuffersOK'
    BY <1>2, <2>2, <2>4, BuffersGrow
  <2>6. /\ lock' \in Threads \cup {NULL}
        /\ thread' \in [Threads -> ThreadState]
        /\ mdq' \in Seq(Message)
    <3>1. CASE EndWrite(t, TRUE)
      BY <1>1, <3>1, EndWriteType DEF TypeInv
    <3>2. CASE /\ thread' = [thread EXCEPT ![t].pc = "copy", ![t].filled = TRUE,
                                           ![t].last = append_pos]
               /\ UNCHANGED <<lock, mdq>>
      <4>1. thread' \in [Threads -> ThreadState]
        BY <1>1, <1>2, <3>2 DEF ThreadState, Pcs
      <4> QED
        BY <3>2, <4>1 DEF TypeInv, TypeOK
    <3> QED
      BY <1>5, <3>1, <3>2
  <2> QED
    BY <1>2, <1>5, <2>1, <2>2, <2>5, <2>6 DEF TypeInv, TypeOK, FillWhole
<1> QED
  BY <1>4, <1>5 DEF FillWhole

LEMMA FillUndefinedType ==
    ASSUME TypeInv, NEW t \in Writers, FillUndefined(t)
    PROVE  TypeInv'
<1> USE DEF sizeVars, flushVars, cacheVars, userVars, mdVars, dataVars, metaVars, durVars
<1>1. BuffersOK'
  BY BuffersKept DEF TypeInv, FillUndefined
<1> QED
  BY <1>1 DEF TypeInv, TypeOK, FillUndefined

LEMMA DirectReturnType ==
    ASSUME TypeInv, NEW t \in Writers, DirectReturn(t)
    PROVE  TypeInv'
<1> USE DEF sizeVars, flushVars, cacheVars, userVars, mdVars, dataVars, metaVars, durVars
<1>1. t \in Threads
  BY ThreadAssumption
<1>2. thread' \in [Threads -> ThreadState] /\ sem' \in [Threads -> Nat]
  BY <1>1, SemWaitType, ReturnType DEF TypeInv, DirectReturn
<1>3. BuffersOK'
  BY BuffersKept DEF TypeInv, DirectReturn
<1> QED
  BY <1>2, <1>3 DEF TypeInv, TypeOK, DirectReturn

LEMMA SyncNothingType ==
    ASSUME TypeInv, NEW t \in Threads, SyncNothing(t)
    PROVE  TypeInv'
<1> USE DEF sizeVars, flushVars, cacheVars, userVars, mdVars, dataVars, metaVars, durVars
<1>1. BuffersOK'
  BY BuffersKept DEF TypeInv, SyncNothing
<1> QED
  BY <1>1 DEF TypeInv, TypeOK, SyncNothing, Max2

LEMMA SyncCallType ==
    ASSUME TypeInv, NEW t \in Threads, SyncCall(t)
    PROVE  TypeInv'
<1> USE DEF sizeVars, flushVars, cacheVars, userVars, mdVars, dataVars, metaVars, durVars
<1>1. thread' \in [Threads -> ThreadState]
  BY ThreadAssumption DEF TypeInv, TypeOK, SyncCall, Idle, ThreadState, Pcs
<1>2. sync_requests' \in Seq(SyncRequest)
  BY DEF TypeInv, TypeOK, SyncCall, SyncRequest
<1>3. mdq' \in Seq(Message)
  BY DEF TypeInv, TypeOK, SyncCall, Message
<1>4. BuffersOK'
  BY BuffersKept DEF TypeInv, SyncCall
<1> QED
  BY <1>1, <1>2, <1>3, <1>4 DEF TypeInv, TypeOK, SyncCall

LEMMA SyncReturnType ==
    ASSUME TypeInv, NEW t \in Threads, SyncReturn(t)
    PROVE  TypeInv'
<1> USE DEF sizeVars, flushVars, cacheVars, userVars, mdVars, dataVars, metaVars, durVars
<1>1. thread' \in [Threads -> ThreadState] /\ sem' \in [Threads -> Nat]
  BY SemWaitType, ReturnType DEF TypeInv, SyncReturn
<1>2. BuffersOK'
  BY BuffersKept DEF TypeInv, SyncReturn
<1> QED
  BY <1>1, <1>2 DEF TypeInv, TypeOK, SyncReturn

LEMMA FlushLaterType ==
    ASSUME TypeInv, FlushLater
    PROVE  TypeInv'
<1> USE DEF sizeVars, flushVars, cacheVars, userVars, mdVars, dataVars, metaVars, durVars
<1>1. mdq' \in Seq(Message) /\ cont' \in Seq({"check", "flush"})
  BY HandlerType DEF TypeInv, FlushLater
<1>2. BuffersOK'
  BY BuffersKept DEF TypeInv, FlushLater
<1> QED
  BY <1>1, <1>2 DEF TypeInv, TypeOK, FlushLater

LEMMA FlushNoBufferType ==
    ASSUME TypeInv, FlushNoBuffer
    PROVE  TypeInv'
<1> USE DEF sizeVars, flushVars, cacheVars, userVars, mdVars, dataVars, metaVars, durVars
<1>1. mdq' \in Seq(Message) /\ cont' \in Seq({"check", "flush"})
  BY HandlerType DEF TypeInv, FlushNoBuffer
<1>2. BuffersOK'
  BY BuffersKept DEF TypeInv, FlushNoBuffer
<1> QED
  BY <1>1, <1>2 DEF TypeInv, TypeOK, FlushNoBuffer

LEMMA FlushNothingType ==
    ASSUME TypeInv, FlushNothing
    PROVE  TypeInv'
<1> USE DEF sizeVars, flushVars, cacheVars, userVars, mdVars, dataVars, metaVars, durVars
<1>1. mdq' \in Seq(Message) /\ cont' \in Seq({"check", "flush"})
  BY HandlerType DEF TypeInv, FlushNothing
<1>2. BuffersOK'
  BY BuffersKept DEF TypeInv, FlushNothing
<1> QED
  BY <1>1, <1>2 DEF TypeInv, TypeOK, FlushNothing

\* The flush that is started is the only one of its buffer, and of bytes that
\* the buffer holds.
LEMMA FlushWriteType ==
    ASSUME TypeInv, FlushWrite
    PROVE  TypeInv'
<1> USE DEF sizeVars, flushVars, cacheVars, userVars, mdVars, dataVars, metaVars, durVars
<1> DEFINE b == FlushNext
           w == [op |-> "flush", buf |-> b, off |-> b + tree[b].flushed,
                 len |-> tree[b].filled - tree[b].flushed]
<1>1. mdq' \in Seq(Message) /\ cont' \in Seq({"check", "flush"})
  BY HandlerType DEF TypeInv, FlushWrite
<1>2. b \in DOMAIN tree /\ ~tree[b].in_progress
  BY FindType DEF TypeInv, FlushWrite, Flushable, FlushNext
<1>3. b \in Nat /\ tree \in [DOMAIN tree -> Buffer] /\ tree[b] \in Buffer
  BY <1>2 DEF TypeInv, TypeOK
<1>4. tree[b].flushed < tree[b].filled /\ tree[b].filled <= BufSize
  BY <1>2, <1>3 DEF TypeInv, BuffersOK, FlushWrite, Buffer
<1>5. tree' = [tree EXCEPT ![b].in_progress = TRUE] /\ io' = io \cup {w}
  BY DEF FlushWrite
<1> HIDE DEF b
<1>6. w \in DataIo /\ w.op = "flush" /\ w.buf = b /\ w.len >= 1
      /\ tree[b].flushed + w.len = tree[b].filled
  BY <1>3, <1>4 DEF DataIo, Buffer
<1> HIDE DEF w
<1>7. /\ DOMAIN tree' = DOMAIN tree
      /\ tree' \in [DOMAIN tree' -> Buffer]
      /\ \A c \in DOMAIN tree : tree'[c].filled = tree[c].filled /\ tree'[c].flushed = tree[c].flushed
      /\ \A c \in DOMAIN tree : c # b => tree'[c] = tree[c]
      /\ tree'[b].in_progress
  BY <1>2, <1>3, <1>5 DEF Buffer
<1>8. io' \subseteq DataIo
  BY <1>5, <1>6 DEF TypeInv, TypeOK
<1>9. BuffersOK'
  <2>1. \A o \in io : o.op = "flush" => o.buf \in DOMAIN tree /\ o.buf # b
    BY <1>2 DEF TypeInv, BuffersOK
  <2>2. last' = last
    BY DEF FlushWrite
  <2>3. \A c \in DOMAIN tree' : tree'[c].flushed <= tree'[c].filled /\ tree'[c].filled <= BufSize
    BY <1>7 DEF TypeInv, BuffersOK
  <2>4. ASSUME NEW o \in io', o.op = "flush"
        PROVE  /\ o.buf \in DOMAIN tree'
               /\ tree'[o.buf].in_progress
               /\ o.len >= 1
               /\ tree'[o.buf].flushed + o.len <= tree'[o.buf].filled
    <3>1. CASE o \in io
      BY <1>7, <2>1, <2>4, <3>1 DEF TypeInv, BuffersOK
    <3>2. CASE o = w
      <4>1. tree[b].filled <= tree[b].filled
        BY <1>3 DEF Buffer
      <4> QED
        BY <1>2, <1>6, <1>7, <3>2, <4>1
    <3> QED
      BY <1>5, <3>1, <3>2
  <2>5. \A o, p \in io' : o.op = "flush" /\ p.op = "flush" /\ o.buf = p.buf => o = p
    BY <1>5, <1>6, <2>1 DEF TypeInv, BuffersOK
  <2> QED
    BY <1>7, <2>2, <2>3, <2>4, <2>5 DEF TypeInv, BuffersOK
<1> QED
  BY <1>1, <1>7, <1>8, <1>9 DEF TypeInv, TypeOK, FlushWrite

LEMMA FlushDoneType ==
    ASSUME TypeInv, NEW o \in io, FlushDone(o)
    PROVE  TypeInv'
<1> USE DEF sizeVars, flushVars, cacheVars, userVars, mdVars, dataVars, metaVars, durVars
<1>1. /\ o.op = "flush" /\ io' = io \ {o}
      /\ o.buf \in DOMAIN tree /\ o.len >= 1
      /\ tree[o.buf].flushed + o.len <= tree[o.buf].filled
  BY DEF TypeInv, BuffersOK, FlushDone
<1>2. o.off \in Nat /\ o.len \in Nat
  BY <1>1 DEF TypeInv, TypeOK, DataIo
<1>3. /\ tree' = [tree EXCEPT ![o.buf].in_progress = FALSE, ![o.buf].flushed = @ + o.len]
      /\ length_flushed' = length_flushed + o.len
      /\ length' = Max2(length, length_flushed + o.len)
      /\ cont' = <<"check", "flush">>
      /\ last' = last
  BY <1>1 DEF FlushDone
<1>4. length_flushed' \in Nat /\ length' \in Nat
  BY <1>2, <1>3 DEF TypeInv, TypeOK, Max2
<1>5. cont' \in Seq({"check", "flush"})
  BY <1>3
<1>6. disk' \subseteq Nat
  <2>1. Bytes(o.off, o.len) \subseteq Nat
    BY <1>2 DEF Bytes
  <2> QED
    BY <2>1 DEF TypeInv, TypeOK, FlushDone, Written
<1>7. tree \in [DOMAIN tree -> Buffer] /\ tree[o.buf] \in Buffer
  BY <1>1 DEF TypeInv, TypeOK
<1>8. /\ DOMAIN tree' = DOMAIN tree
      /\ tree' \in [DOMAIN tree' -> Buffer]
      /\ \A c \in DOMAIN tree : tree'[c].filled = tree[c].filled
      /\ \A c \in DOMAIN tree : c # o.buf => tree'[c] = tree[c]
      /\ tree'[o.buf].flushed = tree[o.buf].flushed + o.len
  <2> DEFINE f == tree[o.buf].flushed + o.len
             buf == [tree[o.buf] EXCEPT !.in_progress = FALSE, !.flushed = f]
  <2>1. f \in Nat
    BY <1>2, <1>7 DEF Buffer
  <2>2. tree' = [tree EXCEPT ![o.buf] = buf]
    BY <1>1, <1>3, <1>7 DEF Buffer
  <2> HIDE DEF f
  <2>3. buf \in Buffer /\ buf.filled = tree[o.buf].filled /\ buf.flushed = f
    BY <1>7, <2>1 DEF Buffer
  <2> HIDE DEF buf
  <2>4. /\ DOMAIN tree' = DOMAIN tree
        /\ tree' \in [DOMAIN tree' -> Buffer]
        /\ tree'[o.buf] = buf
        /\ \A c \in DOMAIN tree : c # o.buf => tree'[c] = tree[c]
    BY <1>1, <1>7, <2>2, <2>3
  <2> QED
    BY <2>3, <2>4 DEF f
<1>9. BuffersOK'
  <2>1. \A p \in io' : p \in io /\ (p.op = "flush" => p.buf # o.buf)
    BY <1>1 DEF TypeInv, BuffersOK
  <2>2. \A c \in DOMAIN tree' : tree'[c].flushed <= tree'[c].filled /\ tree'[c].filled <= BufSize
    BY <1>1, <1>8 DEF TypeInv, BuffersOK
  <2>3. ASSUME NEW p \in io', p.op = "flush"
        PROVE  /\ p.buf \in DOMAIN tree'
               /\ tree'[p.buf].in_progress
               /\ p.len >= 1
               /\ tree'[p.buf].flushed + p.len <= tree'[p.buf].filled
    BY <1>8, <2>1, <2>3 DEF TypeInv, BuffersOK
  <2>4. last' # NULL
    <3>1. tree[o.buf].filled # tree[o.buf].flushed
      BY <1>1, <1>2, <1>7 DEF Buffer
    <3> QED
      BY <1>1, <1>3, <3>1 DEF TypeInv, BuffersOK
  <2> QED
    BY <1>3, <1>8, <2>1, <2>2, <2>3, <2>4 DEF TypeInv, BuffersOK
<1> QED
  BY <1>4, <1>5, <1>6, <1>8, <1>9, <1>1 DEF TypeInv, TypeOK, FlushDone

LEMMA CheckSyncReqsType ==
    ASSUME TypeInv, CheckSyncReqs
    PROVE  TypeInv'
<1> USE DEF sizeVars, flushVars, cacheVars, userVars, mdVars, dataVars, metaVars, durVars
<1>1. mdq' \in Seq(Message) /\ cont' \in Seq({"check", "flush"})
  BY HandlerType DEF TypeInv, CheckSyncReqs
<1>2. BuffersOK'
  BY BuffersKept DEF TypeInv, CheckSyncReqs
<1>3. /\ sync_requests' \in Seq(SyncRequest)
      /\ xattr' \in Nat
      /\ persists' \in Seq(Persist)
  <2>1. CASE UNCHANGED <<sync_requests, xattr, persists>>
    BY <2>1 DEF TypeInv, TypeOK
  <2>2. CASE \E i \in Satisfied :
               /\ sync_requests' = [sync_requests EXCEPT ![i].xattr_in_progress = TRUE,
                                                         ![i].length = length_flushed]
               /\ xattr' = length_flushed
               /\ persists' = Append(persists, [op |-> "sync", val |-> length_flushed])
    <3>1. PICK i \in DOMAIN sync_requests :
               /\ sync_requests' = [sync_requests EXCEPT ![i].xattr_in_progress = TRUE,
                                                         ![i].length = length_flushed]
               /\ xattr' = length_flushed
               /\ persists' = Append(persists, [op |-> "sync", val |-> length_flushed])
      BY <2>2 DEF Satisfied
    <3>2. /\ length_flushed \in Nat /\ sync_requests \in Seq(SyncRequest)
          /\ persists \in Seq(Persist)
      BY DEF TypeInv, TypeOK
    <3>3. sync_requests[i] \in SyncRequest
      BY <3>1, <3>2
    <3> DEFINE r == [sync_requests[i] EXCEPT !.xattr_in_progress = TRUE,
                                             !.length = length_flushed]
    <3>4. r \in SyncRequest
      BY <3>2, <3>3 DEF SyncRequest
    <3>5. sync_requests' \in Seq(SyncRequest)
      <4>1. sync_requests' = [sync_requests EXCEPT ![i] = r]
        BY <3>1, <3>2, <3>3 DEF SyncRequest
      <4>2. i \in 1 .. Len(sync_requests)
        BY <3>1, <3>2
      <4> HIDE DEF r
      <4> QED
        BY <3>2, <3>4, <4>1, <4>2, ExceptSeq
    <3>6. [op |-> "sync", val |-> length_flushed] \in Persist
      BY <3>2 DEF Persist
    <3>7. persists' \in Seq(Persist)
      BY <3>1, <3>2, <3>6
    <3> QED
      BY <3>1, <3>2, <3>5, <3>7
  <2> QED
    BY <2>1, <2>2 DEF CheckSyncReqs
<1> QED
  BY <1>1, <1>2, <1>3 DEF TypeInv, TypeOK, CheckSyncReqs

LEMMA FinishSyncType ==
    ASSUME TypeInv, FinishSync
    PROVE  TypeInv'
<1> USE DEF sizeVars, flushVars, cacheVars, userVars, mdVars, dataVars, metaVars, durVars
<1>1. /\ persists' \in Seq(Persist) /\ Head(persists).val \in Nat
  BY PersistType DEF TypeInv, FinishSync
<1>2. PICK i \in DOMAIN sync_requests :
         /\ length_xattr' = sync_requests[i].length
         /\ sync_requests' = RemoveRequest(i)
         /\ \/ /\ LengthPersisted
               /\ WakeCaller(sync_requests[i].t)
               /\ promised' = Max2(promised, sync_requests[i].offset)
            \/ /\ WakeFailed(sync_requests[i].t)
               /\ UNCHANGED <<disk_len, promised>>
  BY DEF FinishSync
<1>3. sync_requests \in Seq(SyncRequest) /\ sync_requests[i] \in SyncRequest
  BY <1>2 DEF TypeInv, TypeOK
<1>4. /\ sync_requests[i].t \in Threads
      /\ sync_requests[i].offset \in Nat
      /\ sync_requests[i].length \in Nat
  BY <1>3 DEF SyncRequest
<1>5. sync_requests' \in Seq(SyncRequest)
  BY <1>2, <1>3 DEF RemoveRequest
<1>6. thread' \in [Threads -> ThreadState] /\ sem' \in [Threads -> Nat]
  BY <1>2, <1>4, WakeType DEF TypeInv
<1>7. disk_len' \in Nat /\ promised' \in Nat
  BY <1>1, <1>2, <1>4 DEF TypeInv, TypeOK, LengthPersisted, Max2
<1>8. cont' \in Seq({"check", "flush"})
  BY DEF FinishSync
<1>9. BuffersOK'
  BY BuffersKept DEF TypeInv, FinishSync
<1> QED
  BY <1>1, <1>2, <1>4, <1>5, <1>6, <1>7, <1>8, <1>9 DEF TypeInv, TypeOK, FinishSync

LEMMA ReceiverType ==
    ASSUME TypeOK, NEW m \in Message, m.fn \in {"extend", "write"}
    PROVE  /\ m.t \in Threads
           /\ m.fn = "extend" => m.size \in Nat
           /\ m.fn = "write" => m.off \in Nat /\ m.len \in Nat
BY DEF Message

\* The callback of a resize, whichever operation it was for.
LEMMA ResizeCbType ==
    ASSUME TypeInv, NEW r \in Resize, ResizeCb(r)
    PROVE  /\ append_pos' \in Nat /\ length' \in Nat
           /\ xattr' \in Nat
           /\ persists' \in Seq(Persist)
<1>1. /\ r.t \in Threads /\ r.off \in Nat /\ r.len \in Nat
      /\ r.op \in {"extend", "truncate"}
  BY DEF Resize
<1>2. /\ append_pos \in Nat /\ length \in Nat /\ xattr \in Nat
      /\ persists \in Seq(Persist)
  BY DEF TypeInv, TypeOK
<1>3. CASE ExtendResized(r)
  <2>1. [op |-> "extend", t |-> r.t, val |-> xattr] \in Persist
    BY <1>1, <1>2 DEF Persist
  <2>2. persists' \in Seq(Persist)
    BY <1>2, <1>3, <2>1 DEF ExtendResized
  <2> QED
    BY <1>2, <1>3, <2>2 DEF ExtendResized, sizeVars
<1>4. CASE TruncateResized(r)
  <2>1. [op |-> "truncate", t |-> r.t, off |-> r.off, len |-> r.len, val |-> r.off + r.len]
          \in Persist
    BY <1>1 DEF Persist
  <2>2. persists' \in Seq(Persist)
    BY <1>2, <1>4, <2>1 DEF TruncateResized
  <2>3. append_pos' \in Nat /\ length' \in Nat /\ xattr' \in Nat
    BY <1>1, <1>2, <1>4 DEF TruncateResized, Min2
  <2> QED
    BY <2>2, <2>3
<1> QED
  BY <1>3, <1>4 DEF ResizeCb

LEMMA BlobResizeType ==
    ASSUME TypeInv, NEW r \in Resize, BlobResize(r)
    PROVE  /\ append_pos' \in Nat /\ length' \in Nat
           /\ xattr' \in Nat
           /\ persists' \in Seq(Persist)
           /\ resizing' \in Resize \cup {NULL}
           /\ thread' \in [Threads -> ThreadState] /\ sem' \in [Threads -> Nat]
<1>1. /\ append_pos \in Nat /\ length \in Nat /\ xattr \in Nat
      /\ persists \in Seq(Persist)
      /\ resizing \in Resize \cup {NULL}
      /\ thread \in [Threads -> ThreadState] /\ sem \in [Threads -> Nat]
  BY DEF TypeInv, TypeOK
<1>2. CASE ResizeCb(r) /\ UNCHANGED <<resizing, sem, thread>>
  BY <1>1, <1>2, ResizeCbType
<1>3. CASE resizing' = r /\ UNCHANGED <<sizeVars, persists, xattr, sem, thread>>
  BY <1>1, <1>3 DEF sizeVars
<1>4. CASE WakeFailed(r.t) /\ UNCHANGED <<sizeVars, persists, xattr, resizing>>
  <2>1. r.t \in Threads
    BY DEF Resize
  <2>2. thread' \in [Threads -> ThreadState] /\ sem' \in [Threads -> Nat]
    BY <1>4, <2>1, WakeType DEF TypeInv
  <2> QED
    BY <1>1, <1>4, <2>2 DEF sizeVars
<1> QED
  BY <1>2, <1>3, <1>4 DEF BlobResize

LEMMA ExtendType ==
    ASSUME TypeInv, Extend
    PROVE  TypeInv'
<1> USE DEF sizeVars, flushVars, cacheVars, userVars, mdVars, dataVars, metaVars, durVars
<1> DEFINE m == Head(mdq)
           r == [op |-> "extend", t |-> m.t, size |-> m.size, off |-> 0, len |-> 0]
<1>1. m \in Message /\ m.fn = "extend" /\ mdq' \in Seq(Message)
  BY ReceivesType DEF TypeInv, Extend
<1>2. BlobResize(r)
  BY DEF Extend
<1>3. r \in Resize
  <2> HIDE DEF m
  <2>1. m.t \in Threads /\ m.size \in Nat
    BY <1>1, ReceiverType DEF TypeInv
  <2> QED
    BY <2>1 DEF Resize
<1> HIDE DEF r
<1>4. /\ append_pos' \in Nat /\ length' \in Nat
      /\ xattr' \in Nat
      /\ persists' \in Seq(Persist)
      /\ resizing' \in Resize \cup {NULL}
      /\ thread' \in [Threads -> ThreadState] /\ sem' \in [Threads -> Nat]
  BY <1>2, <1>3, BlobResizeType
<1>5. BuffersOK'
  BY BuffersKept DEF TypeInv, Extend
<1> QED
  BY <1>1, <1>4, <1>5 DEF TypeInv, TypeOK, Extend

LEMMA ResizeDoneType ==
    ASSUME TypeInv, ResizeDone
    PROVE  TypeInv'
<1> USE DEF sizeVars, flushVars, cacheVars, userVars, mdVars, dataVars, metaVars, durVars
<1>1. resizing \in Resize /\ resizing' = NULL
  BY DEF TypeInv, TypeOK, ResizeDone
<1>2. resizing.size \in Nat /\ resizing.t \in Threads
  BY <1>1 DEF Resize
<1>3. /\ append_pos \in Nat /\ length \in Nat /\ xattr \in Nat /\ blob_size \in Nat
      /\ persists \in Seq(Persist)
      /\ thread \in [Threads -> ThreadState] /\ sem \in [Threads -> Nat]
  BY DEF TypeInv, TypeOK
<1>4. /\ append_pos' \in Nat /\ length' \in Nat
      /\ xattr' \in Nat /\ blob_size' \in Nat
      /\ persists' \in Seq(Persist)
      /\ thread' \in [Threads -> ThreadState] /\ sem' \in [Threads -> Nat]
  <2>1. CASE blob_size' = resizing.size /\ ResizeCb(resizing) /\ UNCHANGED <<sem, thread>>
    BY <1>1, <1>2, <1>3, <2>1, ResizeCbType
  <2>2. CASE WakeFailed(resizing.t) /\ UNCHANGED <<sizeVars, blob_size, xattr, persists>>
    <3>1. thread' \in [Threads -> ThreadState] /\ sem' \in [Threads -> Nat]
      BY <1>2, <2>2, WakeType DEF TypeInv
    <3> QED
      BY <1>3, <2>2, <3>1
  <2> QED
    BY <2>1, <2>2 DEF ResizeDone
<1>5. BuffersOK'
  BY BuffersKept DEF TypeInv, ResizeDone
<1> QED
  BY <1>1, <1>4, <1>5 DEF TypeInv, TypeOK, ResizeDone

LEMMA ExtendDoneType ==
    ASSUME TypeInv, ExtendDone
    PROVE  TypeInv'
<1> USE DEF sizeVars, flushVars, cacheVars, userVars, mdVars, dataVars, metaVars, durVars
<1>1. /\ Head(persists) \in Persist /\ Head(persists).op = "extend"
      /\ persists' \in Seq(Persist)
      /\ Head(persists).val \in Nat
  BY PersistType DEF TypeInv, ExtendDone
<1>2. Head(persists).t \in Threads
  BY <1>1 DEF Persist
<1>3. thread' \in [Threads -> ThreadState] /\ sem' \in [Threads -> Nat]
  BY <1>2, WakeType DEF TypeInv, ExtendDone
<1>4. disk_len' \in Nat
  BY <1>1 DEF TypeInv, TypeOK, ExtendDone, LengthPersisted
<1>5. BuffersOK'
  BY BuffersKept DEF TypeInv, ExtendDone
<1> QED
  BY <1>1, <1>3, <1>4, <1>5 DEF TypeInv, TypeOK, ExtendDone

\* A write on its way to the device is typed and disturbs no flush.
LEMMA BlobWriteType ==
    ASSUME TypeInv, NEW m, m.t \in Threads, m.off \in Nat, m.len \in Nat, BlobWrite(m)
    PROVE  io' \subseteq DataIo /\ \A o \in io' : o.op = "flush" => o \in io
<1>1. [op |-> "write", t |-> m.t, off |-> m.off, len |-> m.len] \in DataIo
  BY DEF DataIo
<1> QED
  BY <1>1 DEF TypeInv, TypeOK, BlobWrite

LEMMA DirectWriteType ==
    ASSUME TypeInv, DirectWrite
    PROVE  TypeInv'
<1> USE DEF sizeVars, flushVars, cacheVars, userVars, mdVars, dataVars, metaVars, durVars
<1> DEFINE m == Head(mdq)
           r == [op |-> "truncate", t |-> m.t, off |-> m.off, len |-> m.len,
                 size |-> BytesToClusters(m.off + m.len)]
<1>1. m \in Message /\ m.fn = "write" /\ mdq' \in Seq(Message)
  BY ReceivesType DEF TypeInv, DirectWrite
<1>2. \/ WakeFailed(m.t) /\ UNCHANGED <<sizeVars, resizing, xattr, persists, io>>
      \/ BlobResize(r) /\ UNCHANGED io
      \/ BlobWrite(m) /\ UNCHANGED <<sizeVars, resizing, xattr, persists, sem, thread>>
  BY DEF DirectWrite, TruncateAsync
<1>3. r \in Resize /\ m.t \in Threads /\ m.off \in Nat /\ m.len \in Nat
  <2> HIDE DEF m
  <2>1. m.t \in Threads /\ m.off \in Nat /\ m.len \in Nat
    BY <1>1, ReceiverType DEF TypeInv
  <2>2. BytesToClusters(m.off + m.len) \in Nat
    BY <2>1, ClustersType
  <2> QED
    BY <2>1, <2>2 DEF Resize
<1> HIDE DEF m, r
<1>4. /\ append_pos \in Nat /\ length \in Nat
      /\ xattr \in Nat
      /\ persists \in Seq(Persist)
      /\ resizing \in Resize \cup {NULL}
      /\ thread \in [Threads -> ThreadState] /\ sem \in [Threads -> Nat]
      /\ io \subseteq DataIo
  BY DEF TypeInv, TypeOK
<1>5. /\ append_pos' \in Nat /\ length' \in Nat
      /\ xattr' \in Nat
      /\ persists' \in Seq(Persist)
      /\ resizing' \in Resize \cup {NULL}
      /\ thread' \in [Threads -> ThreadState] /\ sem' \in [Threads -> Nat]
      /\ io' \subseteq DataIo /\ \A o \in io' : o.op = "flush" => o \in io
  <2>1. CASE WakeFailed(m.t) /\ UNCHANGED <<sizeVars, resizing, xattr, persists, io>>
    <3>1. thread' \in [Threads -> ThreadState] /\ sem' \in [Threads -> Nat]
      BY <1>3, <2>1, WakeType DEF TypeInv
    <3> QED
      BY <1>4, <2>1, <3>1
  <2>2. CASE BlobResize(r) /\ UNCHANGED io
    BY <1>3, <1>4, <2>2, BlobResizeType
  <2>3. CASE BlobWrite(m) /\ UNCHANGED <<sizeVars, resizing, xattr, persists, sem, thread>>
    <3>1. io' \subseteq DataIo /\ \A o \in io' : o.op = "flush" => o \in io
      BY <1>3, <2>3, BlobWriteType
    <3> QED
      BY <1>4, <2>3, <3>1
  <2> QED
    BY <1>2, <2>1, <2>2, <2>3
<1>6. BuffersOK'
  BY <1>5, BuffersKept DEF TypeInv, DirectWrite
<1> QED
  BY <1>1, <1>5, <1>6 DEF TypeInv, TypeOK, DirectWrite

LEMMA TruncateDoneType ==
    ASSUME TypeInv, TruncateDone
    PROVE  TypeInv'
<1> USE DEF sizeVars, flushVars, cacheVars, userVars, mdVars, dataVars, metaVars, durVars
<1> DEFINE p == Head(persists)
<1>1. /\ p \in Persist /\ p.op = "truncate"
      /\ persists' \in Seq(Persist)
      /\ p.val \in Nat
  BY PersistType DEF TypeInv, TruncateDone
<1>2. p.t \in Threads /\ p.off \in Nat /\ p.len \in Nat
  <2> HIDE DEF p
  <2> QED
    BY <1>1 DEF Persist
<1>3. /\ thread' \in [Threads -> ThreadState] /\ sem' \in [Threads -> Nat]
      /\ io' \subseteq DataIo /\ \A o \in io' : o.op = "flush" => o \in io
      /\ disk_len' \in Nat
  <2>1. CASE LengthPersisted /\ BlobWrite(p) /\ UNCHANGED <<sem, thread>>
    <3>1. io' \subseteq DataIo /\ \A o \in io' : o.op = "flush" => o \in io
      BY <1>2, <2>1, BlobWriteType
    <3> QED
      BY <1>1, <2>1, <3>1 DEF TypeInv, TypeOK, LengthPersisted
  <2>2. CASE UNCHANGED <<disk_len, io>> /\ WakeFailed(p.t)
    <3>1. thread' \in [Threads -> ThreadState] /\ sem' \in [Threads -> Nat]
      BY <1>2, <2>2, WakeType DEF TypeInv
    <3> QED
      BY <2>2, <3>1 DEF TypeInv, TypeOK
  <2> QED
    BY <2>1, <2>2 DEF TruncateDone
<1>4. BuffersOK'
  BY <1>3, BuffersKept DEF TypeInv, TruncateDone
<1> QED
  BY <1>1, <1>3, <1>4 DEF TypeInv, TypeOK, TruncateDone

LEMMA DirectDoneType ==
    ASSUME TypeInv, NEW o \in io, DirectDone(o)
    PROVE  TypeInv'
<1> USE DEF sizeVars, flushVars, cacheVars, userVars, mdVars, dataVars, metaVars, durVars
<1>1. io' = io \ {o} /\ o \in DataIo /\ o.op = "write" /\ io \subseteq DataIo
  BY DEF TypeInv, TypeOK, DirectDone
<1>2. o.t \in Threads /\ o.off \in Nat /\ o.len \in Nat
  BY <1>1 DEF DataIo
<1>3. thread' \in [Threads -> ThreadState] /\ sem' \in [Threads -> Nat]
  BY <1>2, WakeType DEF TypeInv, DirectDone
<1>4. disk' \subseteq Nat
  <2>1. Bytes(o.off, o.len) \subseteq Nat
    BY <1>2 DEF Bytes
  <2> QED
    BY <2>1 DEF TypeInv, TypeOK, DirectDone, Written
<1>5. BuffersOK'
  BY <1>1, BuffersKept DEF TypeInv, DirectDone
<1> QED
  BY <1>1, <1>3, <1>4, <1>5 DEF TypeInv, TypeOK, DirectDone

LEMMA TypeStep ==
    ASSUME TypeInv, WriterInv, [Next]_vars
    PROVE  TypeInv'
<1>1. ASSUME NEW t \in Writers, WriteStep(t) PROVE TypeInv'
  <2>1. thread[t].pc = "fill" => last # NULL
    BY DEF WriterInv, Growing
  <2>2. FillPart(t) \/ FillWhole(t) => last # NULL
    BY <2>1 DEF FillPart, FillWhole
  <2> QED
    BY <1>1, <2>2, WriteCallType, WriteDirectType, WriteExtendType, WriteLockedType, ExtendReturnType,
       CopyType, FillPartType, FillWholeType, FillUndefinedType, DirectReturnType DEF WriteStep
<1>2. ASSUME NEW t \in Threads, SyncStep(t) PROVE TypeInv'
  BY <1>2, SyncNothingType, SyncCallType, SyncReturnType DEF SyncStep
<1>3. CASE MdStep
  BY <1>3, FlushLaterType, FlushNoBufferType, FlushNothingType, FlushWriteType, FlushDoneType,
     CheckSyncReqsType, FinishSyncType, ExtendType, ResizeDoneType, ExtendDoneType,
     DirectWriteType, TruncateDoneType, DirectDoneType DEF MdStep
<1>4. CASE UNCHANGED vars
  <2>1. BuffersOK'
    BY <1>4, BuffersKept DEF TypeInv, vars, cacheVars, dataVars
  <2> QED
    BY <1>4, <2>1 DEF TypeInv, TypeOK, vars, sizeVars, flushVars, cacheVars, userVars,
                      mdVars, dataVars, metaVars, durVars
<1> QED
  BY <1>1, <1>2, <1>3, <1>4 DEF Next

LEMMA WriterStep ==
    ASSUME TypeInv, WriterInv, [Next]_vars
    PROVE  WriterInv'
<1> USE DEF cacheVars, userVars, Growing
<1>0. /\ thread \in [Threads -> ThreadState] /\ Writers \subseteq Threads /\ NULL \notin Nat
      /\ append_pos \in Nat
  BY ThreadAssumption DEF TypeInv, TypeOK
<1>1. ASSUME last # NULL => last' # NULL,
             \A u \in Threads : thread'[u].pc \notin Growing \/ thread'[u].pc = thread[u].pc
      PROVE  WriterInv'
  BY <1>0, <1>1 DEF WriterInv
<1>2. ASSUME NEW t \in Threads, NEW u \in Threads, Return(t)
      PROVE  thread'[u].pc \notin Growing \/ thread'[u].pc = thread[u].pc
  BY <1>0, <1>2 DEF Return, Idle
<1>3. ASSUME NEW t \in Threads, NEW u \in Threads, WakeCaller(t) \/ WakeFailed(t)
      PROVE  thread'[u].pc = thread[u].pc
  BY <1>0, <1>3 DEF WakeCaller, WakeFailed, ThreadState
<1>4. ASSUME HaveLast PROVE last' # NULL
  BY <1>0, <1>4 DEF HaveLast
<1>5. ASSUME NEW t \in Writers, WriteStep(t) PROVE WriterInv'
  <2>1. t \in Threads
    BY <1>0
  <2>2. CASE \E n \in WriteSizes : WriteCall(t, n)
    BY <1>0, <1>1, <2>1, <2>2 DEF WriteCall, Idle
  <2>3. CASE WriteDirect(t)
    BY <1>0, <1>1, <1>2, <2>1, <2>3 DEF WriteDirect, ThreadState
  <2>4. CASE WriteExtend(t) \/ WriteLocked(t)
    BY <1>4, <2>4 DEF WriteExtend, WriteLocked, WriterInv
  <2>5. CASE ExtendReturn(t)
    <3>1. last' = last /\ last # NULL
      BY <2>5 DEF ExtendReturn, WriterInv
    <3> QED
      BY <3>1 DEF WriterInv
  <2>6. CASE DirectReturn(t)
    BY <1>1, <1>2, <2>1, <2>6 DEF DirectReturn
  <2>7. CASE Copy(t) \/ FillPart(t) \/ FillWhole(t)
    <3>1. last # NULL
      BY <2>7 DEF WriterInv, Copy, FillPart, FillWhole
    <3>2. last' # NULL
      BY <1>0, <2>7, <3>1 DEF Copy, FillPart, FillWhole
    <3> QED
      BY <3>2 DEF WriterInv
  <2>8. CASE FillUndefined(t)
    BY <2>8 DEF FillUndefined, WriterInv
  <2> QED
    BY <1>5, <2>2, <2>3, <2>4, <2>5, <2>6, <2>7, <2>8 DEF WriteStep
<1>6. ASSUME NEW t \in Threads, SyncStep(t) PROVE WriterInv'
  <2>1. CASE SyncNothing(t)
    BY <2>1 DEF SyncNothing, WriterInv
  <2>2. CASE SyncCall(t)
    BY <1>0, <1>1, <2>2 DEF SyncCall, Idle
  <2>3. CASE SyncReturn(t)
    BY <1>1, <1>2, <2>3 DEF SyncReturn
  <2> QED
    BY <1>6, <2>1, <2>2, <2>3 DEF SyncStep
<1>7. ASSUME MdStep PROVE last' = last /\ \A u \in Threads : thread'[u].pc = thread[u].pc
  <2> USE DEF cacheVars, userVars
  <2>1. CASE FlushLater \/ FlushNoBuffer \/ FlushNothing \/ FlushWrite \/ CheckSyncReqs
    BY <2>1 DEF FlushLater, FlushNoBuffer, FlushNothing, FlushWrite, CheckSyncReqs
  <2>2. CASE FinishSync
    <3>1. PICK i \in DOMAIN sync_requests :
             WakeCaller(sync_requests[i].t) \/ WakeFailed(sync_requests[i].t)
      BY <2>2 DEF FinishSync
    <3>2. sync_requests[i].t \in Threads /\ last' = last
      <4>1. sync_requests[i] \in SyncRequest
        BY DEF TypeInv, TypeOK
      <4> QED
        BY <2>2, <4>1 DEF SyncRequest, FinishSync
    <3> QED
      BY <1>3, <3>1, <3>2
  <2>3. CASE Extend
    <3>0. Head(mdq) \in Message /\ Head(mdq).fn = "extend"
      BY <2>3, ReceivesType DEF Extend, TypeInv, Receives
    <3>1. Head(mdq).t \in Threads /\ last' = last
      BY <2>3, <3>0, ReceiverType DEF Extend, TypeInv
    <3> QED
      BY <1>3, <2>3, <3>1 DEF Extend, BlobResize
  <2>4. CASE ResizeDone
    <3>1. resizing.t \in Threads /\ last' = last
      BY <2>4 DEF ResizeDone, TypeInv, TypeOK, Resize
    <3> QED
      BY <1>3, <2>4, <3>1 DEF ResizeDone
  <2>5. CASE ExtendDone
    <3>1. Head(persists).t \in Threads /\ last' = last
      <4>1. Head(persists) \in Persist /\ Head(persists).op = "extend"
        BY <2>5, PersistType DEF ExtendDone, TypeInv
      <4> QED
        BY <2>5, <4>1 DEF ExtendDone, Persist
    <3> QED
      BY <1>3, <2>5, <3>1 DEF ExtendDone
  <2>6. CASE DirectWrite
    <3>0. Head(mdq) \in Message /\ Head(mdq).fn = "write"
      BY <2>6, ReceivesType DEF DirectWrite, TypeInv, Receives
    <3>1. Head(mdq).t \in Threads /\ last' = last
      BY <2>6, <3>0, ReceiverType DEF DirectWrite, TypeInv
    <3>2. WakeFailed(Head(mdq).t) \/ UNCHANGED <<sem, thread>>
      BY <2>6 DEF DirectWrite, TruncateAsync, BlobResize
    <3> QED
      BY <1>3, <3>1, <3>2
  <2>7. CASE TruncateDone
    <3>1. Head(persists).t \in Threads /\ last' = last
      <4>1. Head(persists) \in Persist /\ Head(persists).op = "truncate"
        BY <2>7, PersistType DEF TruncateDone, TypeInv
      <4> QED
        BY <2>7, <4>1 DEF TruncateDone, Persist
    <3> QED
      BY <1>3, <2>7, <3>1 DEF TruncateDone
  <2>8. ASSUME NEW o \in io, FlushDone(o) \/ DirectDone(o)
        PROVE  last' = last /\ \A u \in Threads : thread'[u].pc = thread[u].pc
    <3>1. CASE FlushDone(o)
      BY <3>1 DEF FlushDone
    <3>2. CASE DirectDone(o)
      <4>1. o.t \in Threads /\ last' = last
        BY <3>2 DEF DirectDone, TypeInv, TypeOK, DataIo
      <4> QED
        BY <1>3, <3>2, <4>1 DEF DirectDone
    <3> QED
      BY <2>8, <3>1, <3>2
  <2> QED
    BY <1>7, <2>1, <2>2, <2>3, <2>4, <2>5, <2>6, <2>7, <2>8 DEF MdStep
<1>8. CASE UNCHANGED vars
  BY <1>8 DEF vars, WriterInv
<1> QED
  BY <1>1, <1>5, <1>6, <1>7, <1>8 DEF Next

\* Type correctness holds for every choice of the constants: any number of
\* threads and writers, any sizes, any failures (struct spdk_file, struct
\* cache_buffer and the requests of NBFS.c).  It is not inductive alone: that a
\* copy never takes more than the buffer has room for, and that a flush finds
\* its buffer, is BuffersOK.
THEOREM TypeCorrect == Spec => []TypeOK
<1>1. TypeInv => TypeOK
  BY DEF TypeInv
<1>2. Init => WriterInv
  BY ThreadAssumption DEF Init, InitFile, WriterInv, Idle, Growing
<1> QED
  BY <1>1, <1>2, InitType, TypeStep, WriterStep, PTL DEF Spec
=============================================================================
