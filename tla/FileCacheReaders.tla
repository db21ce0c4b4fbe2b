--------------------------- MODULE FileCacheReaders ---------------------------
(***************************************************************************)
(* What spdk_file_read returns, proved of FileCacheRead for every value of   *)
(* its constants when the clients only read: any number of threads, a file   *)
(* of any length, a pool that runs low at any time, and any failure but one  *)
(* of the device, whose errors __read_done and __readahead_done ignore.      *)
(***************************************************************************)
EXTENDS FileCacheRead, SequenceTheorems, TLAPS

\* What the client and the environment keep to.
ReadersOnly == Writers = {} /\ ~MayFail("io")

\* Nobody writes: the file stays as it was opened, and the flush and the sync
\* find nothing to do.
FileAtRest ==
    /\ append_pos \in Nat /\ length = append_pos /\ length_xattr = append_pos
    /\ Bytes(0, append_pos) \subseteq disk
    /\ last = NULL /\ sync_requests = <<>> /\ cont = <<>> /\ persists = <<>> /\ resizing = NULL
    /\ ub = "none" /\ ~stale

\* The messages, data I/Os and states of a thread that are left.
ReadMessage == [fn : {"read"}, t : Threads, off : Nat, len : Nat]
                 \cup [fn : {"readahead"}, off : Nat, len : Nat]
ReadIo      == [op : {"read"}, t : Threads, off : Nat, len : Nat]
                 \cup [op : {"readahead"}, off : Nat, len : Nat]

\* No read goes past the end of the file, neither a call nor what it asks the
\* metadata thread for.
CallsInRange ==
    /\ thread \in [Threads -> ThreadState]
    /\ \A t \in Threads :
         /\ thread[t].pc \in {"idle", "read", "relock", "reap"}
         /\ thread[t].pc \in {"read", "relock"} => thread[t].off + thread[t].rem <= append_pos
RequestsInRange ==
    /\ mdq \in Seq(ReadMessage) /\ io \subseteq ReadIo
    /\ \A i \in DOMAIN mdq : mdq[i].off + mdq[i].len <= append_pos
    /\ \A o \in io : o.off + o.len <= append_pos

\* What the buffer at b holds of the file when it is filled.
Whole(b) == Min2(BufSize, append_pos - b)

\* A buffer covers a piece of the file, and it is either waiting for its
\* readahead and empty, or holds all the bytes of its piece.
BuffersWhole ==
    /\ DOMAIN tree \subseteq Nat /\ tree \in [DOMAIN tree -> Buffer]
    /\ \A b \in DOMAIN tree :
         /\ b % BufSize = 0 /\ b < append_pos
         /\ tree[b].filled = IF tree[b].in_progress THEN 0 ELSE Whole(b)

\* A readahead, as a message or as an I/O, is for a buffer that waits for it.
AwaitsReadahead(o) == o \in DOMAIN tree /\ tree[o].in_progress

\* Every readahead has its buffer still, asks for the whole of it, and is the
\* only one for it.
AheadAwaited ==
    /\ \A i \in DOMAIN mdq : mdq[i].fn = "readahead" =>
         /\ AwaitsReadahead(mdq[i].off) /\ mdq[i].len = Whole(mdq[i].off)
         /\ \A j \in DOMAIN mdq : j # i /\ mdq[j].fn = "readahead" => mdq[j].off # mdq[i].off
         /\ \A o \in io : o.op = "readahead" => o.off # mdq[i].off
    /\ \A o \in io : o.op = "readahead" => AwaitsReadahead(o.off) /\ o.len = Whole(o.off)

\* The inductive invariant.
ReadersInv == FileAtRest /\ CallsInRange /\ RequestsInRange /\ BuffersWhole /\ AheadAwaited
-----------------------------------------------------------------------------
(* Buffer boundaries.                                                        *)

\* How far an offset is into the buffer that covers it.
LEMMA OffsetInBuffer ==
    ASSUME NEW b \in Nat, NEW n \in Nat, b % BufSize = 0, b <= n, n < b + BufSize
    PROVE  n % BufSize = n - b
<1>1. BufSize \in Nat \ {0}
  BY SizeAssumption
<1>2. PICK q \in Nat : b = BufSize * q
  <2>1. b \div BufSize \in Nat /\ b = BufSize * (b \div BufSize) + (b % BufSize)
    BY <1>1
  <2> QED
    BY <1>1, <2>1
<1>3. n \div BufSize \in Nat /\ n % BufSize \in 0 .. BufSize - 1
  BY <1>1
<1>4. n = BufSize * (n \div BufSize) + (n % BufSize)
  BY <1>1
<1>5. PICK p \in Nat, r \in 0 .. BufSize - 1 : n = BufSize * p + r /\ r = n % BufSize
  BY <1>3, <1>4
<1>6. p = q
  <2>1. ASSUME p < q PROVE FALSE
    <3>1. BufSize * p + BufSize <= BufSize * q
      BY <1>1, <2>1
    <3> QED
      BY <1>1, <1>2, <1>5, <3>1
  <2>2. ASSUME q < p PROVE FALSE
    <3>1. BufSize * q + BufSize <= BufSize * p
      BY <1>1, <2>2
    <3> QED
      BY <1>1, <1>2, <1>5, <3>1
  <2> QED
    BY <2>1, <2>2
<1> QED
  BY <1>1, <1>2, <1>5, <1>6

\* The next buffer starts on a boundary, at most one buffer further on, and the
\* one after it one buffer later.
LEMMA NextBuffer ==
    ASSUME NEW off \in Nat
    PROVE  /\ NextBufferOffset(off) \in Nat /\ NextBufferOffset(off) % BufSize = 0
           /\ off < NextBufferOffset(off) /\ NextBufferOffset(off) <= off + BufSize
           /\ NextBufferOffset(off + BufSize) = NextBufferOffset(off) + BufSize
<1>1. BufSize \in Nat \ {0}
  BY SizeAssumption
<1>2. off % BufSize \in 0 .. BufSize - 1 /\ off \div BufSize \in Nat
  BY <1>1
<1>3. off = BufSize * (off \div BufSize) + (off % BufSize)
  BY <1>1
<1>4. PICK q \in Nat, r \in 0 .. BufSize - 1 : off = BufSize * q + r /\ r = off % BufSize
  BY <1>2, <1>3
<1>5. NextBufferOffset(off) = off + BufSize - r
  BY <1>4 DEF NextBufferOffset
<1>6. BufSize * q \in Nat /\ BufSize * (q + 1) \in Nat /\ BufSize * (q + 1) = BufSize * q + BufSize
  BY <1>1
<1>7. NextBufferOffset(off) = BufSize * (q + 1)
  BY <1>1, <1>4, <1>5, <1>6
<1>8. (BufSize * (q + 1)) % BufSize = 0
  BY <1>1
<1>9. (off + BufSize) % BufSize = r
  <2>1. (BufSize * (q + 1)) % BufSize = 0 /\ off + BufSize = BufSize * (q + 1) + r
    BY <1>1, <1>4, <1>6, <1>8
  <2>2. off + BufSize \in Nat /\ BufSize * (q + 1) <= off + BufSize
        /\ off + BufSize < BufSize * (q + 1) + BufSize
    BY <1>1, <1>4, <1>6, <2>1
  <2>3. (off + BufSize) % BufSize = (off + BufSize) - BufSize * (q + 1)
    BY <1>6, <2>1, <2>2, OffsetInBuffer
  <2> QED
    BY <1>4, <1>6, <2>1, <2>3
<1>10. NextBufferOffset(off + BufSize) = off + BufSize + BufSize - r
  BY <1>9 DEF NextBufferOffset
<1> QED
  BY <1>1, <1>4, <1>5, <1>6, <1>7, <1>8, <1>10

\* tree_find_buffer.
LEMMA FoundBuffer ==
    ASSUME NEW off, TreeFind(off) # NULL
    PROVE  /\ TreeFind(off) \in DOMAIN tree
           /\ TreeFind(off) <= off /\ off < TreeFind(off) + BufSize
<1> DEFINE hit == {b \in DOMAIN tree : b <= off /\ off < b + BufSize}
<1>1. hit # {} /\ TreeFind(off) = CHOOSE b \in hit : TRUE
  BY DEF TreeFind
<1>2. TreeFind(off) \in hit
  BY <1>1
<1> QED
  BY <1>2

LEMMA NoBufferAt ==
    ASSUME NEW off \in Nat, TreeFind(off) = NULL, DOMAIN tree \subseteq Nat
    PROVE  \A b \in DOMAIN tree : ~(b <= off /\ off < b + BufSize)
<1>1. ASSUME NEW b \in DOMAIN tree, b <= off, off < b + BufSize PROVE FALSE
  <2> DEFINE hit == {c \in DOMAIN tree : c <= off /\ off < c + BufSize}
  <2>1. b \in hit
    BY <1>1
  <2>2. TreeFind(off) = CHOOSE c \in hit : TRUE
    BY <2>1 DEF TreeFind
  <2>3. TreeFind(off) \in hit
    BY <2>1, <2>2
  <2>4. TreeFind(off) \in Nat
    BY <2>3
  <2> QED
    BY <2>4, ThreadAssumption
<1> QED
  BY <1>1

LEMMA PairConcat ==
    ASSUME NEW p \in Nat, NEW q \in Nat
    PROVE  /\ <<p>> \o <<q>> \in Seq(Nat) /\ Len(<<p>> \o <<q>>) = 2
           /\ (<<p>> \o <<q>>)[1] = p /\ (<<p>> \o <<q>>)[2] = q
<1>1. <<p>> \in Seq(Nat) /\ <<q>> \in Seq(Nat) /\ Len(<<p>>) = 1 /\ Len(<<q>>) = 1
  OBVIOUS
<1>2. /\ Len(<<p>> \o <<q>>) = 2
      /\ \A i \in 1 .. 2 : (<<p>> \o <<q>>)[i] = IF i <= 1 THEN <<p>>[i] ELSE <<q>>[i - 1]
  BY <1>1, ConcatProperties
<1> QED
  BY <1>1, <1>2

\* The buffers that check_readahead picks: on a boundary, not cached, within the
\* file and different from each other.
Ahead(off, got1, got2) ==
    CheckReadahead(off, got1) \o CheckReadahead(off + BufSize, got2)

LEMMA AheadFacts ==
    ASSUME DOMAIN tree \subseteq Nat, append_pos \in Nat, length = append_pos, NEW off \in Nat,
           NEW got1, NEW got2
    PROVE  /\ Ahead(off, got1, got2) \in Seq(Nat)
           /\ \A i \in DOMAIN Ahead(off, got1, got2) :
                /\ Ahead(off, got1, got2)[i] \in Nat
                /\ Ahead(off, got1, got2)[i] % BufSize = 0 /\ Ahead(off, got1, got2)[i] < append_pos
                /\ \A b \in DOMAIN tree : ~(b <= Ahead(off, got1, got2)[i] /\ Ahead(off, got1, got2)[i] < b + BufSize)
                /\ Ahead(off, got1, got2)[i] \notin DOMAIN tree
                /\ \A j \in DOMAIN Ahead(off, got1, got2) : j # i => Ahead(off, got1, got2)[j] # Ahead(off, got1, got2)[i]
<1> DEFINE p == NextBufferOffset(off)
           q == NextBufferOffset(off + BufSize)
           Good(o) == /\ o \in Nat /\ o % BufSize = 0 /\ o < append_pos
                      /\ \A b \in DOMAIN tree : ~(b <= o /\ o < b + BufSize)
                      /\ o \notin DOMAIN tree
<1>1. BufSize \in Nat \ {0} /\ off + BufSize \in Nat
  BY SizeAssumption
<1>2. p \in Nat /\ p % BufSize = 0 /\ q \in Nat /\ q % BufSize = 0 /\ p # q
  BY <1>1, NextBuffer
<1>3. \A o \in Nat : TreeFind(o) = NULL =>
        /\ \A b \in DOMAIN tree : ~(b <= o /\ o < b + BufSize)
        /\ o \notin DOMAIN tree
  BY <1>1, NoBufferAt
<1>4. CheckReadahead(off, got1) = <<>> \/ (CheckReadahead(off, got1) = <<p>> /\ Good(p))
  BY <1>2, <1>3 DEF CheckReadahead
<1>5. CheckReadahead(off + BufSize, got2) = <<>> \/ (CheckReadahead(off + BufSize, got2) = <<q>> /\ Good(q))
  BY <1>2, <1>3 DEF CheckReadahead
<1> HIDE DEF p, q
<1>6. \/ Ahead(off, got1, got2) = <<>>
      \/ Ahead(off, got1, got2) = <<p>> /\ Good(p)
      \/ Ahead(off, got1, got2) = <<q>> /\ Good(q)
      \/ Ahead(off, got1, got2) = <<p>> \o <<q>> /\ Good(p) /\ Good(q)
  <2>1. <<>> \o <<>> = <<>> /\ <<p>> \o <<>> = <<p>> /\ <<>> \o <<q>> = <<q>>
    OBVIOUS
  <2> QED
    BY <1>4, <1>5, <2>1 DEF Ahead
<1>7. CASE Ahead(off, got1, got2) = <<>>
  BY <1>7
<1>8. CASE Ahead(off, got1, got2) = <<p>> /\ Good(p)
  BY <1>8
<1>9. CASE Ahead(off, got1, got2) = <<q>> /\ Good(q)
  BY <1>9
<1>10. CASE Ahead(off, got1, got2) = <<p>> \o <<q>> /\ Good(p) /\ Good(q)
  <2>1. <<p>> \in Seq(Nat) /\ <<q>> \in Seq(Nat)
    BY <1>10
  <2>2. /\ Ahead(off, got1, got2) \in Seq(Nat) /\ Len(Ahead(off, got1, got2)) = 2
        /\ Ahead(off, got1, got2)[1] = p /\ Ahead(off, got1, got2)[2] = q
    BY <1>10, <2>1, PairConcat
  <2>3. DOMAIN Ahead(off, got1, got2) = {1, 2}
    BY <2>2
  <2>4. /\ Good(Ahead(off, got1, got2)[1]) /\ Good(Ahead(off, got1, got2)[2])
        /\ Ahead(off, got1, got2)[1] # Ahead(off, got1, got2)[2]
    BY <1>2, <1>10, <2>2
  <2> HIDE DEF Good
  <2>5. ASSUME NEW i \in DOMAIN Ahead(off, got1, got2)
        PROVE  /\ Good(Ahead(off, got1, got2)[i])
               /\ \A j \in DOMAIN Ahead(off, got1, got2) : j # i => Ahead(off, got1, got2)[j] # Ahead(off, got1, got2)[i]
    <3>1. CASE i = 1
      BY <2>3, <2>4, <3>1
    <3>2. CASE i = 2
      BY <2>3, <2>4, <3>2
    <3> QED
      BY <2>3, <3>1, <3>2
  <2> QED
    BY <2>2, <2>5 DEF Good
<1> QED
  BY <1>6, <1>7, <1>8, <1>9, <1>10

\* A readahead asks for what the file has of the buffer.
LEMMA AheadLength ==
    ASSUME ReadersInv, NEW o \in Nat, o % BufSize = 0, o < append_pos
    PROVE  /\ ReadaheadMsg(o) = [fn |-> "readahead", off |-> o, len |-> Whole(o)]
           /\ Whole(o) \in Nat \ {0} /\ o + Whole(o) <= append_pos
<1>1. append_pos \in Nat /\ length = append_pos /\ BufSize \in Nat \ {0}
  BY SizeAssumption DEF ReadersInv, FileAtRest
<1>2. CASE append_pos < o + BufSize
  <2>1. append_pos % BufSize = append_pos - o
    <3>1. o <= append_pos
      BY <1>1
    <3> QED
      BY <1>1, <1>2, <3>1, OffsetInBuffer
  <2>2. Whole(o) = append_pos - o
    BY <1>1, <1>2 DEF Whole, Min2
  <2> QED
    BY <1>1, <1>2, <2>1, <2>2 DEF ReadaheadMsg
<1>3. CASE ~(append_pos < o + BufSize)
  <2>1. Whole(o) = BufSize
    BY <1>1, <1>3 DEF Whole, Min2
  <2> QED
    BY <1>1, <1>3, <2>1 DEF ReadaheadMsg
<1> QED
  BY <1>2, <1>3

\* The chunk of a read lies in one buffer.
LEMMA ChunkInBuffer ==
    ASSUME NEW t \in Threads, thread[t] \in ThreadState
    PROVE  /\ thread[t].off \in Nat /\ thread[t].rem \in Nat /\ thread[t].subs \in Nat
           /\ Chunk(t) \in Nat /\ Chunk(t) <= thread[t].rem
           /\ thread[t].off + Chunk(t) <= NextBufferOffset(thread[t].off)
           /\ thread[t].rem > 0 => Chunk(t) > 0
<1>1. thread[t].off \in Nat /\ thread[t].rem \in Nat /\ thread[t].subs \in Nat
  BY DEF ThreadState
<1>2. /\ NextBufferOffset(thread[t].off) \in Nat
      /\ thread[t].off < NextBufferOffset(thread[t].off)
  BY <1>1, NextBuffer
<1>3. Chunk(t) = Min2(NextBufferOffset(thread[t].off) - thread[t].off, thread[t].rem)
  BY DEF Chunk
<1> QED
  BY <1>1, <1>2, <1>3 DEF Min2

\* It lies in the file.
LEMMA ChunkFacts ==
    ASSUME ReadersInv, NEW t \in Threads, thread[t].pc \in {"read", "relock"}
    PROVE  /\ thread[t] \in ThreadState
           /\ thread[t].off \in Nat /\ thread[t].rem \in Nat /\ thread[t].subs \in Nat
           /\ Chunk(t) \in Nat /\ Chunk(t) <= thread[t].rem
           /\ thread[t].off + Chunk(t) <= NextBufferOffset(thread[t].off)
           /\ thread[t].off + Chunk(t) <= append_pos
           /\ thread[t].off + thread[t].rem <= append_pos
           /\ thread[t].rem > 0 => Chunk(t) > 0
<1>1. thread[t] \in ThreadState /\ thread[t].off + thread[t].rem <= append_pos
  BY DEF ReadersInv, CallsInRange
<1>2. append_pos \in Nat
  BY DEF ReadersInv, FileAtRest
<1> QED
  BY <1>1, <1>2, ChunkInBuffer
-----------------------------------------------------------------------------
(* The steps that are left, and what they leave alone.                       *)

\* The metadata thread's oldest message, and those behind it.
LEMMA HeadOfQueue ==
    ASSUME ReadersInv, mdq # <<>>
    PROVE  /\ Head(mdq) \in ReadMessage /\ Head(mdq) = mdq[1] /\ 1 \in DOMAIN mdq
           /\ Tail(mdq) \in Seq(ReadMessage)
           /\ \A i \in DOMAIN Tail(mdq) :
                i + 1 \in DOMAIN mdq /\ i + 1 # 1 /\ Tail(mdq)[i] = mdq[i + 1]
BY DEF ReadersInv, RequestsInRange

LEMMA ReaderSteps ==
    ASSUME ReadersOnly, ReadersInv, [ReadNext]_vars
    PROVE  \/ \E t \in Threads : SyncNothing(t) \/ ReadStep(t)
           \/ MdReadStep \/ Reclaim \/ UNCHANGED vars
<1>1. /\ cont = <<>> /\ persists = <<>> /\ resizing = NULL
      /\ append_pos \in Nat /\ length_xattr = append_pos
  BY DEF ReadersInv, FileAtRest
<1>2. ~(\E t \in Writers : WriteStep(t))
  BY DEF ReadersOnly
<1>3. ASSUME NEW t \in Threads, SyncStep(t) PROVE SyncNothing(t)
  <2>1. ~SyncCall(t)
    BY <1>1 DEF SyncCall
  <2>2. ~SyncReturn(t)
    BY DEF SyncReturn, ReadersInv, CallsInRange
  <2> QED
    BY <1>3, <2>1, <2>2 DEF SyncStep
<1>4. mdq # <<>> => Head(mdq).fn \in {"read", "readahead"}
  BY HeadOfQueue DEF ReadMessage
<1>5. ~Runs("flush") /\ ~Runs("check") /\ ~Receives("extend") /\ ~Receives("write")
  BY <1>1, <1>4 DEF Runs, Receives
<1>6. \A o \in io : o.op \in {"read", "readahead"}
  BY DEF ReadersInv, RequestsInRange, ReadIo
<1>7. ~MdStep
  <2>1. ~FlushLater /\ ~FlushNoBuffer /\ ~FlushNothing /\ ~FlushWrite /\ ~CheckSyncReqs
    BY <1>5 DEF FlushLater, FlushNoBuffer, FlushNothing, FlushWrite, CheckSyncReqs
  <2>2. ~FinishSync /\ ~ExtendDone /\ ~TruncateDone
    BY <1>1 DEF FinishSync, ExtendDone, TruncateDone, PersistOver
  <2>3. ~Extend /\ ~DirectWrite /\ ~ResizeDone
    BY <1>1, <1>5 DEF Extend, DirectWrite, ResizeDone
  <2>4. \A o \in io : ~FlushDone(o) /\ ~DirectDone(o)
    BY <1>6 DEF FlushDone, DirectDone
  <2> QED
    BY <2>1, <2>2, <2>3, <2>4 DEF MdStep
<1> QED
  BY <1>2, <1>3, <1>7 DEF ReadNext, Next

LEMMA RestKept ==
    ASSUME FileAtRest,
           UNCHANGED <<sizeVars, flushVars, last, cont, disk, metaVars, ub, stale>>
    PROVE  FileAtRest'
BY DEF FileAtRest, sizeVars, flushVars, metaVars

LEMMA CallsKept ==
    ASSUME CallsInRange, UNCHANGED append_pos, NEW t \in Threads, NEW s \in ThreadState,
           thread' = [thread EXCEPT ![t] = s],
           s.pc \in {"idle", "read", "relock", "reap"},
           s.pc \in {"read", "relock"} => s.off + s.rem <= append_pos
    PROVE  CallsInRange'
BY DEF CallsInRange

LEMMA WholeKept ==
    ASSUME BuffersWhole, UNCHANGED <<tree, append_pos>>
    PROVE  BuffersWhole'
BY DEF BuffersWhole, Whole

LEMMA AheadKept ==
    ASSUME AheadAwaited, UNCHANGED <<mdq, append_pos>>, io' \subseteq io,
           \A i \in DOMAIN mdq : mdq[i].fn = "readahead" => AwaitsReadahead(mdq[i].off)',
           \A o \in io' : o.op = "readahead" => AwaitsReadahead(o.off)'
    PROVE  AheadAwaited'
<1>1. \A b : Whole(b)' = Whole(b)
  BY DEF Whole
<1>2. \A o \in io' : o.op = "readahead" => o.len = Whole(o.off)
  BY DEF AheadAwaited
<1>3. \A i \in DOMAIN mdq : mdq[i].fn = "readahead" =>
         /\ mdq[i].len = Whole(mdq[i].off)
         /\ \A j \in DOMAIN mdq : j # i /\ mdq[j].fn = "readahead" => mdq[j].off # mdq[i].off
         /\ \A o \in io' : o.op = "readahead" => o.off # mdq[i].off
  BY DEF AheadAwaited
<1> QED
  BY <1>1, <1>2, <1>3 DEF AheadAwaited

LEMMA RangeKept ==
    ASSUME RequestsInRange, UNCHANGED <<mdq, append_pos>>, io' \subseteq io
    PROVE  RequestsInRange'
BY DEF RequestsInRange
-----------------------------------------------------------------------------
(* The reader's steps.                                                       *)

\* A call starts with its length cut to the file, and its readahead has buffers
\* of its own to fill.
LEMMA ReadCallInv ==
    ASSUME ReadersInv, NEW t \in Threads, NEW off \in 0 .. MaxLen, NEW n \in ReadSizes,
           NEW got1, NEW got2, ReadCall(t, off, n, got1, got2)
    PROVE  ReadersInv'
<1> DEFINE len   == Min2(n, append_pos - off)
           seq   == Min2(Threshold, len + (IF off = next_seq_offset THEN seq_byte_count ELSE 0))
           ahead == IF seq < Threshold THEN <<>> ELSE Ahead(off, got1, got2)
           new   == {ahead[i] : i \in DOMAIN ahead}
           msgs  == [i \in DOMAIN ahead |-> ReadaheadMsg(ahead[i])]
           s     == [Idle EXCEPT !.pc = "read", !.off = off, !.rem = len]
           Waits(b) == b \in DOMAIN tree' /\ tree'[b].in_progress
<1>1. /\ append_pos \in Nat /\ off \in Nat /\ off < append_pos /\ n \in Nat
      /\ BufSize \in Nat \ {0}
  BY SizeAssumption, ReadAssumption DEF ReadersInv, FileAtRest, ReadCall
<1>2. len \in Nat /\ off + len <= append_pos
  BY <1>1 DEF Min2
<1>3. /\ tree' = [b \in DOMAIN tree \cup new |->
                    IF b \in DOMAIN tree THEN tree[b]
                    ELSE [EmptyBuffer EXCEPT !.in_progress = TRUE]]
      /\ mdq' = mdq \o msgs
      /\ thread' = [thread EXCEPT ![t] = s]
  BY DEF ReadCall, Ahead
<1>4. /\ UNCHANGED <<sizeVars, flushVars, last, cont, disk, io, metaVars, ub, stale>>
      /\ UNCHANGED append_pos
  BY DEF ReadCall, dataVars, sizeVars
<1>5. /\ ahead \in Seq(Nat)
      /\ \A i \in DOMAIN ahead :
           /\ ahead[i] \in Nat
           /\ ahead[i] % BufSize = 0 /\ ahead[i] < append_pos
           /\ ahead[i] \notin DOMAIN tree
           /\ \A j \in DOMAIN ahead : j # i => ahead[j] # ahead[i]
  <2>1. <<>> \in Seq(Nat) /\ DOMAIN <<>> = {}
    OBVIOUS
  <2> QED
    BY <1>1, <2>1, AheadFacts DEF ReadersInv, FileAtRest, BuffersWhole
<1> HIDE DEF ahead
<1>6. \A i \in DOMAIN ahead :
        /\ msgs[i] = [fn |-> "readahead", off |-> ahead[i], len |-> Whole(ahead[i])]
        /\ Whole(ahead[i]) \in Nat /\ ahead[i] + Whole(ahead[i]) <= append_pos
  BY <1>5, AheadLength
<1>7. /\ msgs \in Seq(ReadMessage) /\ DOMAIN msgs = DOMAIN ahead
      /\ \A i \in DOMAIN ahead : msgs[i].fn = "readahead" /\ msgs[i].off = ahead[i]
                                   /\ msgs[i].len = Whole(ahead[i])
  <2>1. \A i \in DOMAIN ahead : msgs[i] \in ReadMessage
    BY <1>5, <1>6 DEF ReadMessage
  <2>2. DOMAIN ahead = 1 .. Len(ahead) /\ Len(ahead) \in Nat
    BY <1>5
  <2> QED
    BY <1>6, <2>1, <2>2
<1> HIDE DEF msgs, len
<1>8. FileAtRest'
  BY <1>4, RestKept DEF ReadersInv
<1>9. CallsInRange'
  <2>1. s \in ThreadState /\ s.pc = "read" /\ s.off = off /\ s.rem = len
    BY <1>1, <1>2 DEF Idle, ThreadState, Pcs
  <2> HIDE DEF s
  <2> QED
    BY <1>2, <1>3, <1>4, <2>1, CallsKept DEF ReadersInv
<1>10. /\ mdq \in Seq(ReadMessage) /\ mdq' \in Seq(ReadMessage)
       /\ \A i \in DOMAIN mdq' :
            \/ i \in DOMAIN mdq /\ mdq'[i] = mdq[i]
            \/ i - Len(mdq) \in DOMAIN ahead /\ mdq'[i] = msgs[i - Len(mdq)]
       /\ Len(mdq) \in Nat /\ DOMAIN mdq' \subseteq Nat
  <2>1. mdq \in Seq(ReadMessage)
    BY DEF ReadersInv, RequestsInRange
  <2>2. /\ mdq' \in Seq(ReadMessage) /\ Len(mdq') = Len(mdq) + Len(msgs)
        /\ \A i \in 1 .. Len(mdq) + Len(msgs) :
             mdq'[i] = IF i <= Len(mdq) THEN mdq[i] ELSE msgs[i - Len(mdq)]
    BY <1>3, <1>7, <2>1, ConcatProperties
  <2>3. /\ DOMAIN mdq' = 1 .. Len(mdq) + Len(msgs) /\ DOMAIN mdq = 1 .. Len(mdq)
        /\ DOMAIN ahead = 1 .. Len(msgs) /\ Len(mdq) \in Nat /\ Len(msgs) \in Nat
    BY <1>7, <2>1, <2>2
  <2> QED
    BY <2>1, <2>2, <2>3
<1>11. RequestsInRange'
  <2>1. \A i \in DOMAIN mdq' : mdq'[i].off + mdq'[i].len <= append_pos
    BY <1>6, <1>7, <1>10 DEF ReadersInv, RequestsInRange
  <2> QED
    BY <1>4, <1>10, <2>1 DEF ReadersInv, RequestsInRange
<1>12. /\ DOMAIN tree' = DOMAIN tree \cup new
       /\ \A b \in DOMAIN tree : tree'[b] = tree[b]
       /\ \A b \in new : tree'[b] = [filled |-> 0, flushed |-> 0, in_progress |-> TRUE]
  BY <1>3, <1>5 DEF EmptyBuffer
<1>13. \A b : Whole(b)' = Whole(b)
  BY <1>4 DEF Whole
<1>14. BuffersWhole'
  <2>1. \A b \in new : /\ b \in Nat /\ b % BufSize = 0 /\ b < append_pos
                       /\ tree'[b] \in Buffer /\ tree'[b].filled = 0 /\ tree'[b].in_progress
    <3>1. \A b \in new : b \in Nat /\ b % BufSize = 0 /\ b < append_pos
      BY <1>5
    <3>2. [filled |-> 0, flushed |-> 0, in_progress |-> TRUE] \in Buffer
      BY DEF Buffer
    <3> QED
      BY <1>12, <3>1, <3>2
  <2>2. \A b \in DOMAIN tree' : b \in Nat /\ tree'[b] \in Buffer
    BY <1>12, <2>1 DEF ReadersInv, BuffersWhole
  <2>3. tree' = [b \in DOMAIN tree' |-> tree'[b]]
    BY <1>3
  <2>4. tree' \in [DOMAIN tree' -> Buffer]
    BY <2>2, <2>3
  <2>5. ASSUME NEW b \in DOMAIN tree'
        PROVE  /\ b % BufSize = 0 /\ b < append_pos
               /\ tree'[b].filled = IF tree'[b].in_progress THEN 0 ELSE Whole(b)
    BY <1>12, <2>1 DEF ReadersInv, BuffersWhole
  <2> QED
    BY <1>4, <1>13, <2>2, <2>4, <2>5 DEF BuffersWhole
<1>15. AheadAwaited'
  <2>1. \A b : AwaitsReadahead(b) => Waits(b) /\ b \in DOMAIN tree
    BY <1>12 DEF AwaitsReadahead
  <2>2. \A i \in DOMAIN ahead : Waits(ahead[i]) /\ ahead[i] \notin DOMAIN tree
    <3>1. \A i \in DOMAIN ahead : ahead[i] \in new
      OBVIOUS
    <3> HIDE DEF new
    <3> QED
      BY <1>5, <1>12, <3>1
  <2>3. ASSUME NEW i \in DOMAIN mdq', mdq'[i].fn = "readahead"
        PROVE  /\ Waits(mdq'[i].off) /\ mdq'[i].len = Whole(mdq'[i].off)
               /\ \A j \in DOMAIN mdq' : j # i /\ mdq'[j].fn = "readahead" =>
                    mdq'[j].off # mdq'[i].off
               /\ \A o \in io : o.op = "readahead" => o.off # mdq'[i].off
    <3>1. CASE i \in DOMAIN mdq /\ mdq'[i] = mdq[i]
      <4>1. /\ AwaitsReadahead(mdq[i].off) /\ mdq[i].len = Whole(mdq[i].off)
            /\ \A o \in io : o.op = "readahead" => o.off # mdq[i].off
        BY <2>3, <3>1 DEF ReadersInv, AheadAwaited
      <4>2. ASSUME NEW j \in DOMAIN mdq', j # i, mdq'[j].fn = "readahead"
            PROVE  mdq'[j].off # mdq[i].off
        <5>1. CASE j \in DOMAIN mdq /\ mdq'[j] = mdq[j]
          BY <2>3, <3>1, <4>2, <5>1 DEF ReadersInv, AheadAwaited
        <5>2. CASE j - Len(mdq) \in DOMAIN ahead /\ mdq'[j] = msgs[j - Len(mdq)]
          BY <1>7, <2>1, <2>2, <4>1, <5>2
        <5> QED
          BY <1>10, <5>1, <5>2
      <4> QED
        BY <2>1, <3>1, <4>1, <4>2
    <3>2. CASE i - Len(mdq) \in DOMAIN ahead /\ mdq'[i] = msgs[i - Len(mdq)]
      <4>1. /\ Waits(mdq'[i].off) /\ mdq'[i].off \notin DOMAIN tree
            /\ mdq'[i].len = Whole(mdq'[i].off)
        BY <1>7, <2>2, <3>2
      <4>2. \A o \in io : o.op = "readahead" => o.off \in DOMAIN tree
        BY <2>1 DEF ReadersInv, AheadAwaited
      <4>3. ASSUME NEW j \in DOMAIN mdq', j # i, mdq'[j].fn = "readahead"
            PROVE  mdq'[j].off # mdq'[i].off
        <5>1. CASE j \in DOMAIN mdq /\ mdq'[j] = mdq[j]
          BY <2>1, <4>1, <4>3, <5>1 DEF ReadersInv, AheadAwaited
        <5>2. CASE j - Len(mdq) \in DOMAIN ahead /\ mdq'[j] = msgs[j - Len(mdq)]
          <6>1. j - Len(mdq) # i - Len(mdq)
            BY <1>10, <4>3
          <6> QED
            BY <1>5, <1>7, <3>2, <5>2, <6>1
        <5> QED
          BY <1>10, <5>1, <5>2
      <4> QED
        BY <4>1, <4>2, <4>3
    <3> QED
      BY <1>10, <3>1, <3>2
  <2>4. \A o \in io : o.op = "readahead" => Waits(o.off) /\ o.len = Whole(o.off)
    BY <2>1 DEF ReadersInv, AheadAwaited
  <2> QED
    BY <1>4, <1>13, <2>3, <2>4 DEF AheadAwaited, AwaitsReadahead
<1> QED
  BY <1>8, <1>9, <1>11, <1>14, <1>15 DEF ReadersInv
LEMMA AdvanceCalls ==
    ASSUME ReadersInv, NEW t \in Threads, thread[t].pc = "read", NEW pc \in {"read", "relock"},
           NEW sub \in Nat, Advance(t, pc, sub), UNCHANGED append_pos
    PROVE  CallsInRange'
<1> DEFINE s == [thread[t] EXCEPT !.pc = pc, !.off = @ + Chunk(t), !.rem = @ - Chunk(t),
                                  !.subs = @ + sub]
<1>1. /\ thread[t] \in ThreadState
      /\ thread[t].off \in Nat /\ thread[t].rem \in Nat /\ thread[t].subs \in Nat
      /\ Chunk(t) \in Nat /\ Chunk(t) <= thread[t].rem
      /\ thread[t].off + thread[t].rem <= append_pos
  BY ChunkFacts
<1>2. thread \in [Threads -> ThreadState] /\ append_pos \in Nat
  BY DEF ReadersInv, CallsInRange, FileAtRest
<1>3. thread' = [thread EXCEPT ![t] = s]
  BY <1>1, <1>2 DEF Advance, ThreadState
<1>4. /\ s \in ThreadState /\ s.pc = pc
      /\ s.off = thread[t].off + Chunk(t) /\ s.rem = thread[t].rem - Chunk(t)
  <2>1. /\ thread[t].off + Chunk(t) \in Nat /\ thread[t].rem - Chunk(t) \in Nat
        /\ thread[t].subs + sub \in Nat /\ pc \in Pcs
    BY <1>1 DEF Pcs
  <2> QED
    BY <1>1, <2>1 DEF ThreadState
<1> HIDE DEF s
<1>5. s.off + s.rem <= append_pos
  BY <1>1, <1>2, <1>4
<1> QED
  BY <1>3, <1>4, <1>5, CallsKept DEF ReadersInv

\* A buffer that is hit holds all of the chunk, and nothing waits for it when
\* it is freed.
LEMMA ReadHitInv ==
    ASSUME ReadersInv, NEW t \in Threads, ReadHit(t)
    PROVE  ReadersInv'
<1> DEFINE b    == TreeFind(thread[t].off)
           copy == Min2(Chunk(t), b + tree[b].filled - thread[t].off)
<1>1. /\ thread[t].pc = "read" /\ b # NULL /\ tree[b].filled > 0
      /\ stale' = (stale \/ copy < Chunk(t))
      /\ tree' = TreeRemove(b) \/ tree' = tree
      /\ Advance(t, "read", 0)
  BY DEF ReadHit, Hit
<1>2. /\ UNCHANGED <<sizeVars, flushVars, last, mdq, cont, disk, io, metaVars, ub>>
      /\ UNCHANGED append_pos
  BY DEF ReadHit, mdVars, dataVars, sizeVars
<1>3. b \in DOMAIN tree /\ b <= thread[t].off /\ thread[t].off < b + BufSize
  BY <1>1, FoundBuffer
<1>4. /\ b \in Nat /\ b % BufSize = 0 /\ append_pos \in Nat /\ BufSize \in Nat
      /\ tree[b].filled = IF tree[b].in_progress THEN 0 ELSE Whole(b)
  BY <1>3, SizeAssumption DEF ReadersInv, BuffersWhole, FileAtRest
<1>5. ~tree[b].in_progress /\ tree[b].filled = Whole(b)
  BY <1>1, <1>4
<1>6. /\ thread[t].off \in Nat /\ Chunk(t) \in Nat
      /\ thread[t].off + Chunk(t) <= NextBufferOffset(thread[t].off)
      /\ thread[t].off + Chunk(t) <= append_pos
  BY <1>1, ChunkFacts
<1> HIDE DEF b
<1>7. NextBufferOffset(thread[t].off) = b + BufSize
  <2>1. thread[t].off % BufSize = thread[t].off - b
    BY <1>3, <1>4, <1>6, OffsetInBuffer
  <2> QED
    BY <1>4, <1>6, <2>1 DEF NextBufferOffset
<1>8. copy = Chunk(t)
  BY <1>4, <1>5, <1>6, <1>7 DEF Whole, Min2
<1>9. FileAtRest'
  <2>1. ~(copy < Chunk(t)) /\ ~stale
    BY <1>6, <1>8 DEF ReadersInv, FileAtRest
  <2>2. ~stale'
    BY <1>1, <2>1, Zenon
  <2> QED
    BY <1>2, <2>2 DEF ReadersInv, FileAtRest, sizeVars, flushVars, metaVars
<1>10. CallsInRange' /\ RequestsInRange'
  BY <1>1, <1>2, AdvanceCalls, RangeKept DEF ReadersInv
<1>11. CASE tree' = tree
  BY <1>2, <1>9, <1>10, <1>11, WholeKept, AheadKept DEF ReadersInv, AheadAwaited, AwaitsReadahead
<1>12. CASE tree' = TreeRemove(b)
  <2>1. DOMAIN tree' = DOMAIN tree \ {b} /\ \A c \in DOMAIN tree' : tree'[c] = tree[c]
    BY <1>12 DEF TreeRemove
  <2>2. tree' = [c \in DOMAIN tree' |-> tree'[c]]
    BY <1>12 DEF TreeRemove
  <2>3. BuffersWhole'
    BY <1>2, <2>1, <2>2 DEF ReadersInv, BuffersWhole, Whole
  <2>4. \A c : c \in DOMAIN tree /\ tree[c].in_progress =>
          c \in DOMAIN tree' /\ tree'[c].in_progress
    BY <1>5, <2>1
  <2>5. AheadAwaited'
    BY <1>2, <2>4, AheadKept DEF ReadersInv, AheadAwaited, AwaitsReadahead
  <2> QED
    BY <1>9, <1>10, <2>3, <2>5 DEF ReadersInv
<1> QED
  BY <1>1, <1>11, <1>12

\* A chunk that is not cached is asked for within the file.
LEMMA ReadMissInv ==
    ASSUME ReadersInv, NEW t \in Threads, ReadMiss(t)
    PROVE  ReadersInv'
<1>1. /\ UNCHANGED <<sizeVars, flushVars, last, cont, disk, io, metaVars, ub, stale, tree>>
      /\ UNCHANGED append_pos /\ thread[t].pc = "read"
  BY DEF ReadMiss, cacheVars, dataVars, sizeVars, readVars
<1>2. FileAtRest' /\ BuffersWhole'
  BY <1>1, RestKept, WholeKept DEF ReadersInv
<1>3. CASE /\ mdq' = Append(mdq, RwMsg("read", t, thread[t].off, Chunk(t)))
           /\ Advance(t, "relock", 1)
  <2> DEFINE m == RwMsg("read", t, thread[t].off, Chunk(t))
             n == Len(mdq)
  <2>1. /\ thread[t].off \in Nat /\ Chunk(t) \in Nat
        /\ thread[t].off + Chunk(t) <= append_pos
    BY <1>1, ChunkFacts
  <2>2. m \in ReadMessage /\ m.fn = "read" /\ m.off + m.len <= append_pos
    BY <2>1 DEF RwMsg, ReadMessage
  <2>3. mdq \in Seq(ReadMessage) /\ mdq' = Append(mdq, m)
    BY <1>3 DEF ReadersInv, RequestsInRange
  <2> HIDE DEF m
  <2>4. /\ n \in Nat /\ DOMAIN mdq = 1 .. n /\ DOMAIN mdq' = 1 .. n + 1
        /\ \A i \in 1 .. n : mdq'[i] = mdq[i]
        /\ mdq'[n + 1] = m /\ mdq' \in Seq(ReadMessage)
    BY <2>2, <2>3
  <2> HIDE DEF n
  <2>5. CallsInRange'
    BY <1>1, <1>3, AdvanceCalls
  <2>6. RequestsInRange'
    <3>1. ASSUME NEW i \in DOMAIN mdq' PROVE mdq'[i].off + mdq'[i].len <= append_pos
      <4>1. CASE i \in 1 .. n
        BY <2>4, <4>1 DEF ReadersInv, RequestsInRange
      <4>2. CASE i = n + 1
        BY <2>2, <2>4, <4>2
      <4> QED
        BY <2>4, <4>1, <4>2
    <3> QED
      BY <1>1, <2>4, <3>1 DEF ReadersInv, RequestsInRange
  <2>7. AheadAwaited'
    <3>1. \A i \in DOMAIN mdq' : mdq'[i].fn = "readahead" => i \in DOMAIN mdq /\ mdq'[i] = mdq[i]
      BY <2>2, <2>4
    <3> QED
      BY <1>1, <3>1 DEF ReadersInv, AheadAwaited, AwaitsReadahead, Whole
  <2> QED
    BY <1>2, <2>5, <2>6, <2>7 DEF ReadersInv
<1>4. CASE UNCHANGED mdq /\ thread' = [thread EXCEPT ![t].pc = "reap"]
  <2> DEFINE s == [thread[t] EXCEPT !.pc = "reap"]
  <2>1. thread \in [Threads -> ThreadState] /\ thread[t] \in ThreadState
    BY DEF ReadersInv, CallsInRange
  <2>2. thread' = [thread EXCEPT ![t] = s]
    BY <1>4, <2>1 DEF ThreadState
  <2>3. s \in ThreadState /\ s.pc = "reap"
    BY <2>1 DEF ThreadState, Pcs
  <2> HIDE DEF s
  <2>4. CallsInRange'
    BY <1>1, <2>2, <2>3, CallsKept DEF ReadersInv
  <2>5. RequestsInRange' /\ AheadAwaited'
    BY <1>1, <1>4, RangeKept, AheadKept DEF ReadersInv, AheadAwaited, AwaitsReadahead
  <2> QED
    BY <1>2, <2>4, <2>5 DEF ReadersInv
<1> QED
  BY <1>3, <1>4 DEF ReadMiss

LEMMA ReadOnwardInv ==
    ASSUME ReadersInv, NEW t \in Threads, Relock(t) \/ ReadEnd(t) \/ ReadReap(t)
    PROVE  ReadersInv'
<1>1. /\ UNCHANGED <<sizeVars, flushVars, last, cont, disk, io, metaVars, ub, stale, tree, mdq>>
      /\ UNCHANGED append_pos
  BY DEF Relock, ReadEnd, ReadReap, cacheVars, dataVars, sizeVars, readVars, mdVars
<1>2. FileAtRest' /\ BuffersWhole' /\ RequestsInRange' /\ AheadAwaited'
  BY <1>1, RestKept, WholeKept, RangeKept, AheadKept DEF ReadersInv, AheadAwaited, AwaitsReadahead
<1>3. thread \in [Threads -> ThreadState] /\ thread[t] \in ThreadState
  BY DEF ReadersInv, CallsInRange
<1>4. CASE Relock(t)
  <2> DEFINE s == [thread[t] EXCEPT !.pc = "read"]
  <2>1. thread' = [thread EXCEPT ![t] = s] /\ thread[t].pc = "relock"
    BY <1>3, <1>4 DEF Relock, ThreadState
  <2>2. s \in ThreadState /\ s.pc = "read" /\ s.off = thread[t].off /\ s.rem = thread[t].rem
    BY <1>3 DEF ThreadState, Pcs
  <2>3. thread[t].off + thread[t].rem <= append_pos
    BY <2>1 DEF ReadersInv, CallsInRange
  <2> HIDE DEF s
  <2> QED
    BY <1>1, <1>2, <2>1, <2>2, <2>3, CallsKept DEF ReadersInv
<1>5. CASE ReadEnd(t)
  <2> DEFINE s == [thread[t] EXCEPT !.pc = "reap"]
  <2>1. thread' = [thread EXCEPT ![t] = s]
    BY <1>3, <1>5 DEF ReadEnd, ThreadState
  <2>2. s \in ThreadState /\ s.pc = "reap"
    BY <1>3 DEF ThreadState, Pcs
  <2> HIDE DEF s
  <2> QED
    BY <1>1, <1>2, <2>1, <2>2, CallsKept DEF ReadersInv
<1>6. CASE ReadReap(t) /\ thread[t].subs > 0
  <2> DEFINE s == [thread[t] EXCEPT !.subs = @ - 1]
  <2>1. thread' = [thread EXCEPT ![t] = s] /\ thread[t].pc = "reap"
    BY <1>3, <1>6 DEF ReadReap, ThreadState
  <2>2. s \in ThreadState /\ s.pc = thread[t].pc
    BY <1>3, <1>6 DEF ThreadState, Pcs
  <2> HIDE DEF s
  <2> QED
    BY <1>1, <1>2, <2>1, <2>2, CallsKept DEF ReadersInv
<1>7. CASE ReadReap(t) /\ ~(thread[t].subs > 0)
  <2>1. thread' = [thread EXCEPT ![t] = Idle]
    BY <1>7 DEF ReadReap, Return
  <2>2. Idle \in ThreadState /\ Idle.pc = "idle"
    BY DEF Idle, ThreadState, Pcs
  <2> QED
    BY <1>1, <1>2, <2>1, <2>2, CallsKept DEF ReadersInv
<1> QED
  BY <1>4, <1>5, <1>6, <1>7
-----------------------------------------------------------------------------
(* The metadata thread's steps and the reclaim.                              *)

\* __wake_caller leaves with its caller nothing but the outcome.
LEMMA WakeCalls ==
    ASSUME CallsInRange, UNCHANGED append_pos, NEW t \in Threads, WakeCaller(t) \/ WakeFailed(t)
    PROVE  CallsInRange'
<1>1. CASE UNCHANGED thread
  BY <1>1 DEF CallsInRange
<1>2. CASE thread' = [thread EXCEPT ![t].err = TRUE]
  <2> DEFINE s == [thread[t] EXCEPT !.err = TRUE]
  <2>1. thread \in [Threads -> ThreadState] /\ thread[t] \in ThreadState
    BY DEF CallsInRange
  <2>2. thread' = [thread EXCEPT ![t] = s]
    BY <1>2, <2>1 DEF ThreadState
  <2>3. /\ s \in ThreadState /\ s.pc = thread[t].pc
        /\ s.off = thread[t].off /\ s.rem = thread[t].rem
    BY <2>1 DEF ThreadState
  <2> HIDE DEF s
  <2>4. /\ s.pc \in {"idle", "read", "relock", "reap"}
        /\ s.pc \in {"read", "relock"} => s.off + s.rem <= append_pos
    BY <2>3 DEF CallsInRange
  <2> QED
    BY <2>2, <2>3, <2>4, CallsKept
<1> QED
  BY <1>1, <1>2 DEF WakeCaller, WakeFailed

\* The message that is taken leaves the others as they were.
LEMMA QueueShorter ==
    ASSUME ReadersInv, mdq # <<>>, mdq' = Tail(mdq), UNCHANGED <<append_pos, tree>>
    PROVE  /\ mdq' \in Seq(ReadMessage)
           /\ \A i \in DOMAIN mdq' : mdq'[i].off + mdq'[i].len <= append_pos
           /\ \A i \in DOMAIN mdq' : mdq'[i].fn = "readahead" =>
                /\ AwaitsReadahead(mdq'[i].off) /\ mdq'[i].len = Whole(mdq'[i].off)
                /\ \A j \in DOMAIN mdq' : j # i /\ mdq'[j].fn = "readahead" =>
                     mdq'[j].off # mdq'[i].off
                /\ \A o \in io : o.op = "readahead" => o.off # mdq'[i].off
                /\ Head(mdq).fn = "readahead" => Head(mdq).off # mdq'[i].off
<1>1. /\ Head(mdq) = mdq[1] /\ 1 \in DOMAIN mdq /\ mdq' \in Seq(ReadMessage)
      /\ \A i \in DOMAIN mdq' :
           i \in Nat /\ i + 1 \in DOMAIN mdq /\ i + 1 # 1 /\ mdq'[i] = mdq[i + 1]
  <2>1. mdq' \in Seq(ReadMessage)
    BY HeadOfQueue
  <2>2. DOMAIN mdq' = 1 .. Len(mdq') /\ Len(mdq') \in Nat
    BY <2>1
  <2> QED
    BY <2>1, <2>2, HeadOfQueue
<1>2. \A i \in DOMAIN mdq' : mdq'[i].off + mdq'[i].len <= append_pos
  BY <1>1 DEF ReadersInv, RequestsInRange
<1>3. ASSUME NEW i \in DOMAIN mdq', mdq'[i].fn = "readahead"
      PROVE  /\ AwaitsReadahead(mdq'[i].off) /\ mdq'[i].len = Whole(mdq'[i].off)
             /\ \A j \in DOMAIN mdq' : j # i /\ mdq'[j].fn = "readahead" =>
                  mdq'[j].off # mdq'[i].off
             /\ \A o \in io : o.op = "readahead" => o.off # mdq'[i].off
             /\ Head(mdq).fn = "readahead" => Head(mdq).off # mdq'[i].off
  <2>1. /\ i + 1 \in DOMAIN mdq /\ mdq[i + 1].fn = "readahead" /\ mdq'[i] = mdq[i + 1]
        /\ i + 1 # 1 /\ i \in Nat
    BY <1>1, <1>3
  <2>2. /\ AwaitsReadahead(mdq[i + 1].off) /\ mdq[i + 1].len = Whole(mdq[i + 1].off)
        /\ \A j \in DOMAIN mdq :
             j # i + 1 /\ mdq[j].fn = "readahead" => mdq[j].off # mdq[i + 1].off
        /\ \A o \in io : o.op = "readahead" => o.off # mdq[i + 1].off
    BY <2>1 DEF ReadersInv, AheadAwaited
  <2>3. \A j \in DOMAIN mdq' : j # i => j + 1 # i + 1
    BY <1>1, <2>1
  <2> QED
    BY <1>1, <2>1, <2>2, <2>3
<1> QED
  BY <1>1, <1>2, <1>3

LEMMA DirectReadInv ==
    ASSUME ReadersInv, DirectRead
    PROVE  ReadersInv'
<1> DEFINE m == Head(mdq)
           r == [op |-> "read", t |-> m.t, off |-> m.off, len |-> m.len]
<1>1. /\ mdq # <<>> /\ m.fn = "read" /\ mdq' = Tail(mdq)
      /\ UNCHANGED <<sizeVars, flushVars, last, cont, disk, metaVars, ub, stale, tree>>
      /\ UNCHANGED append_pos
  BY DEF DirectRead, Receives, cacheVars, readVars, sizeVars
<1>2. m.t \in Threads /\ m.off \in Nat /\ m.len \in Nat /\ m.off + m.len <= append_pos
  BY <1>1, HeadOfQueue DEF ReadMessage, ReadersInv, RequestsInRange
<1>3. \/ WakeFailed(m.t) /\ UNCHANGED io
      \/ io' = io \cup {r} /\ UNCHANGED <<sem, thread>>
  BY DEF DirectRead
<1> HIDE DEF m
<1>4. r \in ReadIo /\ r.op = "read" /\ r.off + r.len <= append_pos
  BY <1>2 DEF ReadIo
<1> HIDE DEF r
<1>5. io' \subseteq io \cup {r}
  BY <1>3
<1>6. FileAtRest' /\ BuffersWhole'
  BY <1>1, RestKept, WholeKept DEF ReadersInv
<1>7. CallsInRange'
  BY <1>1, <1>2, <1>3, WakeCalls DEF ReadersInv, CallsInRange
<1>8. RequestsInRange'
  BY <1>1, <1>4, <1>5, QueueShorter DEF ReadersInv, RequestsInRange
<1>9. AheadAwaited'
  <2>1. \A o \in io' : o.op = "readahead" => o \in io
    BY <1>4, <1>5
  <2> QED
    BY <1>1, <2>1, QueueShorter DEF ReadersInv, AheadAwaited, AwaitsReadahead, Whole
<1> QED
  BY <1>6, <1>7, <1>8, <1>9 DEF ReadersInv

\* The device delivers bytes of the file when all of them lie within it.
LEMMA GetBytesRest ==
    ASSUME ReadersOnly, FileAtRest, NEW off \in Nat, NEW len \in Nat, off + len <= append_pos,
           GetBytes(off, len),
           UNCHANGED <<sizeVars, flushVars, last, cont, disk, metaVars, ub>>
    PROVE  FileAtRest'
<1>1. append_pos \in Nat /\ \A x \in 0 .. append_pos - 1 : x \in disk
  BY DEF FileAtRest, Bytes
<1>2. Bytes(off, len) \subseteq disk
  BY <1>1 DEF Bytes
<1>3. stale' = (stale \/ ~(Bytes(off, len) \subseteq disk)) /\ ~stale
  BY DEF GetBytes, ReadersOnly, FileAtRest
<1>4. ~stale'
  BY <1>2, <1>3, Zenon
<1> QED
  BY <1>4 DEF FileAtRest, sizeVars, flushVars, metaVars

LEMMA DirectReadDoneInv ==
    ASSUME ReadersOnly, ReadersInv, NEW o \in io, DirectReadDone(o)
    PROVE  ReadersInv'
<1>1. /\ o.op = "read" /\ io' = io \ {o} /\ WakeCaller(o.t) /\ GetBytes(o.off, o.len)
      /\ UNCHANGED <<sizeVars, flushVars, last, cont, disk, metaVars, ub, tree, mdq>>
      /\ UNCHANGED append_pos
  BY DEF DirectReadDone, cacheVars, mdVars, sizeVars
<1>2. o.t \in Threads /\ o.off \in Nat /\ o.len \in Nat /\ o.off + o.len <= append_pos
  BY <1>1 DEF ReadersInv, RequestsInRange, ReadIo
<1>3. FileAtRest'
  BY <1>1, <1>2, GetBytesRest DEF ReadersInv
<1>4. CallsInRange'
  BY <1>1, <1>2, WakeCalls DEF ReadersInv
<1>5. RequestsInRange' /\ BuffersWhole'
  BY <1>1, RangeKept, WholeKept DEF ReadersInv
<1>6. AheadAwaited'
  BY <1>1, AheadKept DEF ReadersInv, AheadAwaited, AwaitsReadahead
<1> QED
  BY <1>3, <1>4, <1>5, <1>6 DEF ReadersInv

LEMMA ReadaheadInv ==
    ASSUME ReadersInv, Readahead
    PROVE  ReadersInv'
<1> DEFINE m == Head(mdq)
           r == [op |-> "readahead", off |-> m.off, len |-> m.len]
<1>1. /\ mdq # <<>> /\ m.fn = "readahead" /\ mdq' = Tail(mdq) /\ io' = io \cup {r}
      /\ UNCHANGED <<sizeVars, flushVars, last, cont, disk, metaVars, ub, stale, tree, thread>>
      /\ UNCHANGED append_pos
  BY DEF Readahead, Receives, cacheVars, readVars, sizeVars, userVars
<1>2. /\ m.off \in Nat /\ m.len \in Nat /\ m.off + m.len <= append_pos
      /\ AwaitsReadahead(m.off) /\ m.len = Whole(m.off)
  <2>1. m \in ReadMessage /\ m = mdq[1] /\ 1 \in DOMAIN mdq
    BY <1>1, HeadOfQueue
  <2>2. m.off \in Nat /\ m.len \in Nat
    BY <2>1 DEF ReadMessage
  <2> HIDE DEF m
  <2>3. m.off + m.len <= append_pos /\ AwaitsReadahead(m.off) /\ m.len = Whole(m.off)
    BY <1>1, <2>1 DEF ReadersInv, RequestsInRange, AheadAwaited
  <2> QED
    BY <2>2, <2>3
<1>3. r \in ReadIo /\ r.off = m.off /\ r.len = m.len
  BY <1>2 DEF ReadIo
<1> HIDE DEF r
<1>4. FileAtRest' /\ BuffersWhole'
  BY <1>1, RestKept, WholeKept DEF ReadersInv
<1>5. CallsInRange'
  BY <1>1 DEF ReadersInv, CallsInRange
<1>6. RequestsInRange'
  BY <1>1, <1>2, <1>3, QueueShorter DEF ReadersInv, RequestsInRange
<1>7. AheadAwaited'
  <2>1. \A b : AwaitsReadahead(b)' = AwaitsReadahead(b) /\ Whole(b)' = Whole(b)
    BY <1>1 DEF AwaitsReadahead, Whole
  <2>2. \A o \in io' : o.op = "readahead" => AwaitsReadahead(o.off) /\ o.len = Whole(o.off)
    BY <1>1, <1>2, <1>3 DEF ReadersInv, AheadAwaited
  <2>3. ASSUME NEW i \in DOMAIN mdq', mdq'[i].fn = "readahead"
        PROVE  /\ AwaitsReadahead(mdq'[i].off) /\ mdq'[i].len = Whole(mdq'[i].off)
               /\ \A j \in DOMAIN mdq' : j # i /\ mdq'[j].fn = "readahead" =>
                    mdq'[j].off # mdq'[i].off
               /\ \A o \in io' : o.op = "readahead" => o.off # mdq'[i].off
    BY <1>1, <1>3, <2>3, QueueShorter
  <2> QED
    BY <1>1, <2>1, <2>2, <2>3 DEF AheadAwaited, AwaitsReadahead, Whole
<1> QED
  BY <1>4, <1>5, <1>6, <1>7 DEF ReadersInv

\* The buffer is there still and gets the whole of its piece of the file.
LEMMA ReadaheadDoneInv ==
    ASSUME ReadersOnly, ReadersInv, NEW o \in io, ReadaheadDone(o)
    PROVE  ReadersInv'
<1> DEFINE full == [filled |-> o.len, flushed |-> o.len, in_progress |-> FALSE]
<1>1. /\ o.op = "readahead" /\ io' = io \ {o} /\ GetBytes(o.off, o.len)
      /\ UNCHANGED <<sizeVars, flushVars, last, cont, disk, metaVars, mdq, thread>>
      /\ UNCHANGED append_pos
  BY DEF ReadaheadDone, mdVars, sizeVars, userVars
<1>2. /\ o.off \in Nat /\ o.len \in Nat /\ o.off + o.len <= append_pos
      /\ o.off \in DOMAIN tree /\ o.len = Whole(o.off)
  BY <1>1 DEF ReadersInv, RequestsInRange, ReadIo, AheadAwaited, AwaitsReadahead
<1>3. UNCHANGED ub /\ tree' = [tree EXCEPT ![o.off] = full]
  BY <1>2 DEF ReadaheadDone
<1>4. FileAtRest'
  BY <1>1, <1>2, <1>3, GetBytesRest DEF ReadersInv
<1>5. CallsInRange' /\ RequestsInRange'
  BY <1>1, RangeKept DEF ReadersInv, CallsInRange
<1>6. full \in Buffer /\ full.filled = o.len /\ ~full.in_progress
  BY <1>2 DEF Buffer
<1> HIDE DEF full
<1>7. tree \in [DOMAIN tree -> Buffer]
  BY DEF ReadersInv, BuffersWhole
<1>8. /\ DOMAIN tree' = DOMAIN tree /\ tree' \in [DOMAIN tree' -> Buffer]
      /\ tree'[o.off] = full
      /\ \A b \in DOMAIN tree : b # o.off => tree'[b] = tree[b]
  BY <1>2, <1>3, <1>6, <1>7
<1>9. BuffersWhole'
  <2>1. \A b : Whole(b)' = Whole(b)
    BY <1>1 DEF Whole
  <2>2. \A b \in DOMAIN tree' :
          tree'[b].filled = IF tree'[b].in_progress THEN 0 ELSE Whole(b)
    BY <1>2, <1>6, <1>8 DEF ReadersInv, BuffersWhole
  <2> QED
    BY <1>1, <1>8, <2>1, <2>2 DEF ReadersInv, BuffersWhole
<1>10. AheadAwaited'
  <2>1. \A i \in DOMAIN mdq : mdq[i].fn = "readahead" => mdq[i].off # o.off
    BY <1>1 DEF ReadersInv, AheadAwaited
  <2>2. ASSUME NEW p \in io', p.op = "readahead" PROVE p.off # o.off
    <3>1. p \in ReadIo /\ o \in ReadIo /\ p \in io
      BY <1>1 DEF ReadersInv, RequestsInRange
    <3>2. p.len = Whole(p.off) /\ o.len = Whole(o.off)
      BY <1>1, <2>2, <3>1 DEF ReadersInv, AheadAwaited
    <3>3. p.off = o.off => p = o
      <4>1. p = [op |-> "readahead", off |-> p.off, len |-> p.len]
        BY <2>2, <3>1 DEF ReadIo
      <4>2. o = [op |-> "readahead", off |-> o.off, len |-> o.len]
        BY <1>1, <3>1 DEF ReadIo
      <4> QED
        BY <3>2, <4>1, <4>2
    <3> QED
      BY <1>1, <3>3
  <2>3. \A b : AwaitsReadahead(b) /\ b # o.off => b \in DOMAIN tree' /\ tree'[b].in_progress
    BY <1>8 DEF AwaitsReadahead
  <2>4. \A i \in DOMAIN mdq : mdq[i].fn = "readahead" => AwaitsReadahead(mdq[i].off)
    BY DEF ReadersInv, AheadAwaited
  <2>5. \A p \in io' : p.op = "readahead" => AwaitsReadahead(p.off)
    BY <1>1 DEF ReadersInv, AheadAwaited
  <2>6. /\ \A i \in DOMAIN mdq : mdq[i].fn = "readahead" => AwaitsReadahead(mdq[i].off)'
        /\ \A p \in io' : p.op = "readahead" => AwaitsReadahead(p.off)'
    BY <1>1, <2>1, <2>2, <2>3, <2>4, <2>5 DEF AwaitsReadahead
  <2> QED
    BY <1>1, <2>6, AheadKept DEF ReadersInv
<1> QED
  BY <1>4, <1>5, <1>9, <1>10 DEF ReadersInv

\* The reclaim frees no buffer that waits for its readahead.
LEMMA ReclaimInv ==
    ASSUME ReadersInv, Reclaim
    PROVE  ReadersInv'
<1>1. /\ tree' = [b \in DOMAIN tree \ Clean |-> tree[b]] /\ last' = NULL
      /\ UNCHANGED <<sizeVars, flushVars, cont, disk, io, metaVars, ub, stale, mdq, thread>>
      /\ UNCHANGED append_pos
  BY DEF Reclaim, ReadersInv, FileAtRest, mdVars, dataVars, sizeVars, userVars, readVars
<1>2. FileAtRest'
  BY <1>1, RestKept DEF ReadersInv, FileAtRest
<1>3. CallsInRange' /\ RequestsInRange'
  BY <1>1, RangeKept DEF ReadersInv, CallsInRange
<1>4. DOMAIN tree' = DOMAIN tree \ Clean /\ \A b \in DOMAIN tree' : tree'[b] = tree[b]
  BY <1>1
<1>5. BuffersWhole'
  BY <1>1, <1>4 DEF ReadersInv, BuffersWhole, Whole
<1>6. \A b : b \in DOMAIN tree /\ tree[b].in_progress => b \in DOMAIN tree' /\ tree'[b].in_progress
  BY <1>4 DEF Clean
<1>7. AheadAwaited'
  BY <1>1, <1>6, AheadKept DEF ReadersInv, AheadAwaited, AwaitsReadahead
<1> QED
  BY <1>2, <1>3, <1>5, <1>7 DEF ReadersInv

LEMMA NothingInv ==
    ASSUME ReadersInv,
           UNCHANGED <<sizeVars, flushVars, cacheVars, thread, mdVars, dataVars, metaVars, ub, stale>>
    PROVE  ReadersInv'
<1>1. /\ UNCHANGED <<sizeVars, flushVars, last, tree, thread, mdq, cont, io, disk, metaVars, ub, stale>>
      /\ UNCHANGED append_pos
  BY DEF cacheVars, mdVars, dataVars, sizeVars
<1>2. FileAtRest' /\ RequestsInRange' /\ BuffersWhole'
  BY <1>1, RestKept, RangeKept, WholeKept DEF ReadersInv
<1>3. CallsInRange'
  BY <1>1 DEF ReadersInv, CallsInRange
<1>4. AheadAwaited'
  BY <1>1, AheadKept DEF ReadersInv, AheadAwaited, AwaitsReadahead
<1> QED
  BY <1>2, <1>3, <1>4 DEF ReadersInv

-----------------------------------------------------------------------------
(* The theorems.                                                             *)

LEMMA ReadersInit ==
    ASSUME Init
    PROVE  ReadersInv
<1>1. PICK len \in InitLens : InitFile(len)
  BY DEF Init
<1>2. len \in Nat
  BY SizeAssumption
<1>3. FileAtRest
  BY <1>1, <1>2 DEF InitFile, FileAtRest
<1>4. CallsInRange
  <2>1. Idle \in ThreadState /\ Idle.pc = "idle"
    BY DEF Idle, ThreadState, Pcs
  <2> QED
    BY <1>1, <2>1 DEF InitFile, CallsInRange
<1>5. RequestsInRange /\ BuffersWhole /\ AheadAwaited
  BY <1>1 DEF InitFile, RequestsInRange, BuffersWhole, AheadAwaited
<1> QED
  BY <1>3, <1>4, <1>5 DEF ReadersInv

LEMMA ReadersStep ==
    ASSUME ReadersOnly, ReadersInv, [ReadNext]_vars
    PROVE  ReadersInv'
<1>1. ASSUME NEW t \in Threads, SyncNothing(t) PROVE ReadersInv'
  BY <1>1, NothingInv DEF SyncNothing, userVars, readVars
<1>2. ASSUME NEW t \in Threads, ReadStep(t) PROVE ReadersInv'
  <2>1. ASSUME NEW off \in 0 .. MaxLen, NEW n \in ReadSizes, NEW got1, NEW got2,
               ReadCall(t, off, n, got1, got2)
        PROVE  ReadersInv'
    BY <2>1, ReadCallInv
  <2> QED
    BY <1>2, <2>1, ReadHitInv, ReadMissInv, ReadOnwardInv DEF ReadStep, ReadOnward
<1>3. ASSUME MdReadStep PROVE ReadersInv'
  BY <1>3, DirectReadInv, ReadaheadInv, DirectReadDoneInv, ReadaheadDoneInv DEF MdReadStep
<1>4. CASE UNCHANGED vars
  BY <1>4, NothingInv DEF vars, userVars, readVars
<1> QED
  BY <1>1, <1>2, <1>3, <1>4, ReaderSteps, ReclaimInv

\* The invariant that the run of the readers checks: no read goes past the end
\* of the file, a buffer is empty or holds its whole piece of the file, and a
\* readahead finds its buffer (spdk_file_read, check_readahead, __readahead).
THEOREM ReadersInvariant ==
    ASSUME ReadersOnly
    PROVE  ReadSpec => []ReadersInv
<1>1. Init => ReadersInv
  BY ReadersInit
<1>2. ReadersInv /\ [ReadNext]_vars => ReadersInv'
  BY ReadersStep
<1> QED
  BY <1>1, <1>2, PTL DEF ReadSpec

\* What spdk_file_read returns, and what readahead caches, are bytes of the
\* file, whatever the reclaim frees in between (spdk_file_read, __readahead_done).
THEOREM ReadersReadTheFile ==
    ASSUME ReadersOnly
    PROVE  ReadSpec => []ReadsTheFile
<1>1. ReadersInv => ReadsTheFile
  BY DEF ReadersInv, FileAtRest, ReadsTheFile
<1> QED
  BY <1>1, ReadersInvariant, PTL

\* The program stays defined: a readahead never completes into a buffer that
\* was freed (__readahead_done, tree_remove_buffer, tree_free_buffers).
THEOREM ReadersDefined ==
    ASSUME ReadersOnly
    PROVE  ReadSpec => []Defined
<1>1. ReadersInv => Defined
  BY DEF ReadersInv, FileAtRest, Defined
<1> QED
  BY <1>1, ReadersInvariant, PTL
=============================================================================
