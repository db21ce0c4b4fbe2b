--------------------------- MODULE CachePoolProofs ---------------------------
(***************************************************************************)
(* Proofs about CachePool, for any number of file systems and files, any size *)
(* of the pool and any number of messages under way.                         *)
(*                                                                         *)
(* In whatever order the threads take their steps, no buffer is lost or made   *)
(* up, and list and messages together account for every file that has        *)
(* buffers.  The program stays defined as long as none of the orders occurs   *)
(* that the model records.                                                   *)
(***************************************************************************)
EXTENDS CachePool, TLAPS, FiniteSetTheorems, SequenceTheorems, WellFoundedInduction

NoFs == \A s \in FileSystems : fs[s] = "none"

\* Buffers exist only in a pool and in files that can be used, which are those of
\* file systems in use; a message to free a file is about a file that waits for it,
\* and the thread of the pool is told to stop when no file system is in use.
HeldInv ==
    /\ pool = NULL => \A f \in Files : Taken(f) = 0
    /\ \A f \in Files :
         /\ file[f].life \in {"none", "freeing"} => Taken(f) = 0
         /\ file[f].tries # NULL \/ file[f].late # NULL => file[f].life = "open"
         /\ file[f].life = "open" => fs[FsOf(f)] = "loaded"
         /\ file[f].life = "closed" => fs[FsOf(f)] # "none"
    /\ \A i \in DOMAIN ring :
         /\ ring[i].fn = "free" => file[ring[i].file].life = "freeing"
         /\ ring[i].fn = "stop" /\ ring[i].th = th => NoFs
    /\ \A i, j \in DOMAIN ring :
         ring[i].fn = "free" /\ ring[j].fn = "free" /\ ring[i].file = ring[j].file => i = j

\* Every buffer is accounted for, and while the program is defined it is known
\* where.
TallyInv == TypeOK /\ Conserved /\ (Running => HeldInv)

-----------------------------------------------------------------------------
(* Counting buffers.                                                         *)

FileState == [life : {"none", "open", "closed", "freeing"},
              clean : Nat, dirty : Nat, ahead : Nat,
              prio : {"low", "high", "write"}, lock : BOOLEAN,
              tries : Nat \cup {NULL},
              late : [writing : BOOLEAN, seen : Nat] \cup {NULL}]

\* The buffers in the tree of a file of state r, and those taken for it.
Tree(r)   == r.clean + r.dirty + r.ahead
Weight(r) == Tree(r) + (IF r.late # NULL THEN 1 ELSE 0)

\* The buffers of file f, and of all files, when the files are fl.
Held(fl, f) == Weight(fl[f])
TreesOf(fl) == UNION {{f} \X (1 .. Held(fl, f)) : f \in Files}

LEMMA WeightType ==
    ASSUME NEW r \in FileState
    PROVE  /\ Tree(r) \in Nat /\ Weight(r) \in Nat /\ Tree(r) <= Weight(r)
           /\ r.late = NULL => Weight(r) = Tree(r)
           /\ r.late # NULL => Weight(r) = Tree(r) + 1
BY DEF Weight, Tree, FileState

LEMMA HeldType ==
    ASSUME NEW fl \in [Files -> FileState], NEW f \in Files
    PROVE  Held(fl, f) \in Nat /\ fl[f] \in FileState
BY WeightType DEF Held

LEMMA FilesFinite == IsFiniteSet(Files)
BY PoolAssumption, FS_Product DEF Files

\* The buffers of one file.
LEMMA TreeSize ==
    ASSUME NEW f, NEW n \in Nat
    PROVE  IsFiniteSet({f} \X (1 .. n)) /\ Cardinality({f} \X (1 .. n)) = n
<1>1. IsFiniteSet({f}) /\ Cardinality({f}) = 1
  BY FS_Singleton
<1>2. IsFiniteSet(1 .. n) /\ Cardinality(1 .. n) = n
  BY FS_Interval
<1>3. /\ IsFiniteSet({f} \X (1 .. n))
      /\ Cardinality({f} \X (1 .. n)) = Cardinality({f}) * Cardinality(1 .. n)
  BY <1>1, <1>2, FS_Product
<1>4. Cardinality({f}) * Cardinality(1 .. n) = 1 * n
  BY <1>1, <1>2
<1> QED
  BY <1>3, <1>4

LEMMA TreesFinite ==
    ASSUME NEW fl \in [Files -> FileState]
    PROVE  IsFiniteSet(TreesOf(fl))
<1> DEFINE tree == [f \in Files |-> {f} \X (1 .. Held(fl, f))]
           T == {tree[f] : f \in Files}
<1>1. \A f \in Files : IsFiniteSet(tree[f])
  BY TreeSize, HeldType
<1>2. TreesOf(fl) = UNION T
  BY DEF TreesOf
<1>3. IsFiniteSet(T)
  <2>1. tree \in Surjection(Files, T)
    BY DEF Surjection
  <2> QED
    BY <2>1, FilesFinite, FS_Surjection
<1>4. \A t \in T : IsFiniteSet(t)
  BY <1>1
<1> HIDE DEF T
<1> QED
  BY <1>2, <1>3, <1>4, FS_UNION

\* When only file f changes, the count changes by the buffers of f.
LEMMA OneTree ==
    ASSUME NEW fl \in [Files -> FileState], NEW gl \in [Files -> FileState], NEW f \in Files,
           \A g \in Files \ {f} : Held(gl, g) = Held(fl, g)
    PROVE  /\ Cardinality(TreesOf(fl)) \in Nat
           /\ Cardinality(TreesOf(gl)) = Cardinality(TreesOf(fl)) - Held(fl, f) + Held(gl, f)
<1> DEFINE rest == UNION {{g} \X (1 .. Held(fl, g)) : g \in Files \ {f}}
           was == {f} \X (1 .. Held(fl, f))
           is  == {f} \X (1 .. Held(gl, f))
<1>1. TreesOf(fl) = rest \cup was /\ TreesOf(gl) = rest \cup is
  BY DEF TreesOf
<1>2. rest \cap was = {} /\ rest \cap is = {}
  OBVIOUS
<1>3. /\ IsFiniteSet(was) /\ Cardinality(was) = Held(fl, f) /\ Held(fl, f) \in Nat
      /\ IsFiniteSet(is) /\ Cardinality(is) = Held(gl, f) /\ Held(gl, f) \in Nat
  BY TreeSize, HeldType
<1>4. IsFiniteSet(rest)
  <2>1. rest \subseteq TreesOf(fl)
    BY <1>1
  <2> QED
    BY <2>1, TreesFinite, FS_Subset
<1> HIDE DEF rest, was, is
<1>5. ASSUME NEW tree, IsFiniteSet(tree), rest \cap tree = {}
      PROVE  Cardinality(rest \cup tree) = Cardinality(rest) + Cardinality(tree)
  <2>1. Cardinality(rest \cup tree) =
          Cardinality(rest) + Cardinality(tree) - Cardinality(rest \cap tree)
    BY <1>4, <1>5, FS_Union
  <2>2. Cardinality(rest \cap tree) = 0
    BY <1>5, FS_EmptySet
  <2>3. Cardinality(rest) \in Nat /\ Cardinality(tree) \in Nat
    BY <1>4, <1>5, FS_CardinalityType
  <2> QED
    BY <2>1, <2>2, <2>3
<1>6. /\ Cardinality(rest \cup was) = Cardinality(rest) + Cardinality(was)
      /\ Cardinality(rest \cup is) = Cardinality(rest) + Cardinality(is)
  BY <1>2, <1>3, <1>5
<1>7. Cardinality(rest) \in Nat
  BY <1>4, FS_CardinalityType
<1> QED
  BY <1>1, <1>3, <1>6, <1>7

\* What TypeOK says of the files, in these terms.
LEMMA TypeFile ==
    ASSUME TypeOK
    PROVE  /\ file \in [Files -> FileState]
           /\ \A f \in Files : file[f] \in FileState
           /\ ring \in Seq(Message) /\ caches \in Seq(Files)
<1>1. file \in [Files -> FileState]
  BY DEF TypeOK, FileState
<1> QED
  BY <1>1 DEF TypeOK

LEMMA Tally ==
    ASSUME TypeOK
    PROVE  /\ InUse = TreesOf(file)
           /\ \A f \in Files : /\ Buffers(f) = Tree(file[f]) /\ Buffers(f) \in Nat
                                 /\ Taken(f) = Held(file, f) /\ Taken(f) \in Nat
                                 /\ Buffers(f) <= Taken(f)
           /\ Cardinality(InUse) \in Nat
<1>1. file \in [Files -> FileState]
  BY TypeFile
<1>2. \A f \in Files : Buffers(f) = Tree(file[f]) /\ Taken(f) = Held(file, f)
  BY DEF Buffers, Tree, Taken, Held, Weight
<1>3. InUse = TreesOf(file)
  BY <1>2 DEF InUse, TreesOf
<1> QED
  BY <1>1, <1>2, <1>3, HeldType, WeightType, TreesFinite, FS_CardinalityType DEF Held

-----------------------------------------------------------------------------
(* The ring.                                                                 *)

LEMMA WithoutType ==
    ASSUME NEW S, NEW q \in Seq(S), NEW i \in DOMAIN q
    PROVE  /\ Without(q, i) \in Seq(S) /\ Len(Without(q, i)) = Len(q) - 1
           /\ \A j \in DOMAIN Without(q, i) :
                Without(q, i)[j] = IF j < i THEN q[j] ELSE q[j + 1]
<1> DEFINE before == SubSeq(q, 1, i - 1)
           behind == SubSeq(q, i + 1, Len(q))
<1>1. i \in 1 .. Len(q) /\ Len(q) \in Nat
  OBVIOUS
<1>2. /\ before \in Seq(S) /\ Len(before) = i - 1
      /\ \A j \in 1 .. i - 1 : before[j] = q[j]
  BY <1>1
<1>3. /\ behind \in Seq(S) /\ Len(behind) = Len(q) - i
      /\ \A j \in 1 .. Len(q) - i : behind[j] = q[i + j]
  BY <1>1
<1> HIDE DEF before, behind
<1>4. /\ before \o behind \in Seq(S) /\ Len(before \o behind) = Len(q) - 1
      /\ DOMAIN (before \o behind) = 1 .. Len(q) - 1
  BY <1>1, <1>2, <1>3
<1>5. ASSUME NEW j \in 1 .. Len(q) - 1
      PROVE  (before \o behind)[j] = IF j < i THEN q[j] ELSE q[j + 1]
  <2>1. CASE j < i
    <3>1. j \in 1 .. Len(before)
      BY <1>1, <1>2, <2>1
    <3> QED
      BY <1>2, <1>3, <2>1, <3>1
  <2>2. CASE j >= i
    <3>1. j - (i - 1) \in 1 .. Len(q) - i /\ i + (j - (i - 1)) = j + 1
      BY <1>1, <2>2
    <3>2. (before \o behind)[j] = behind[j - (i - 1)]
      <4>1. j \in 1 .. Len(before) + Len(behind) /\ ~(j <= Len(before))
        BY <1>1, <1>2, <1>3, <2>2
      <4>2. (before \o behind)[j] = behind[j - Len(before)]
        BY <1>2, <1>3, <4>1, ConcatProperties
      <4> QED
        BY <1>2, <4>2
    <3>3. behind[j - (i - 1)] = q[i + (j - (i - 1))]
      BY <1>3, <3>1
    <3> QED
      BY <1>1, <2>2, <3>1, <3>2, <3>3
  <2>3. j < i \/ j >= i
    BY <1>1
  <2> QED
    BY <2>1, <2>2, <2>3
<1>6. Without(q, i) = before \o behind
  BY DEF Without, before, behind
<1> QED
  BY <1>4, <1>5, <1>6

\* A message that stays was in the ring before.
LEMMA StaysInRing ==
    ASSUME NEW S, NEW q \in Seq(S), NEW i \in DOMAIN q, NEW j \in DOMAIN Without(q, i)
    PROVE  LET k == IF j < i THEN j ELSE j + 1
           IN  k \in DOMAIN q \ {i} /\ Without(q, i)[j] = q[k] /\ j \in Nat
BY WithoutType

-----------------------------------------------------------------------------
(* No buffer is lost.                                                        *)

LEMMA MessageFile ==
    ASSUME TypeOK, NEW i \in DOMAIN ring
    PROVE  /\ ring[i] \in Message
           /\ ring[i].fn \in {"add", "remove", "free"} => ring[i].file \in Files
<1>1. ring[i] \in Message
  BY DEF TypeOK
<1> QED
  BY <1>1 DEF Message

\* A message to the pool thread about file f.
LEMMA Sent ==
    ASSUME TypeOK, NEW f \in Files, NEW fn \in {"add", "remove", "free"}
    PROVE  /\ Msg(fn, f).fn = fn /\ Msg(fn, f).file = f /\ Msg(fn, f).th = th
           /\ ring \in Seq(Message) /\ Append(ring, Msg(fn, f)) \in Seq(Message)
<1>1. Msg(fn, f) \in Message /\ Msg(fn, f).fn = fn /\ Msg(fn, f).file = f /\ Msg(fn, f).th = th
  BY DEF Msg, Message, TypeOK
<1>2. ring \in Seq(Message)
  BY DEF TypeOK
<1> QED
  BY <1>1, <1>2

\* A step that changes one file, and not how many buffers it has.
\* A step that changes one file, and not how many buffers are taken for it.
LEMMA FileTally ==
    ASSUME TallyInv, Running, NEW f \in Files, NEW r \in FileState,
           file' = [file EXCEPT ![f] = r],
           Weight(r) = Taken(f),
           r.life \in {"none", "freeing"} => Taken(f) = 0,
           r.tries # NULL \/ r.late # NULL => r.life = "open",
           r.life = "open" => fs[FsOf(f)] = "loaded",
           r.life = "closed" => fs[FsOf(f)] # "none",
           file[f].life # "freeing" \/ r.life = "freeing",
           raced' \subseteq Orders,
           UNCHANGED <<fs, caches, poolVars, ring, th, ub>>
    PROVE  TallyInv'
<1> USE DEF poolVars
<1>1. TypeOK /\ file \in [Files -> FileState] /\ HeldInv
  BY TypeFile DEF TallyInv
<1>2. file' \in [Files -> FileState] /\ file'[f] = r /\ \A g \in Files \ {f} : file'[g] = file[g]
  BY <1>1
<1>3. TypeOK'
  BY <1>1, <1>2 DEF TypeOK, FileState
<1>4. \A g \in Files : Taken(g)' = Taken(g)
  <2>1. Taken(f)' = Weight(r)
    BY <1>2 DEF Taken, Weight, Tree, Buffers
  <2>2. \A g \in Files \ {f} : Taken(g)' = Taken(g)
    BY <1>2 DEF Taken, Buffers
  <2> QED
    BY <2>1, <2>2
<1>5. InUse' = InUse
  BY <1>4 DEF InUse
<1>6. Conserved'
  BY <1>5 DEF TallyInv, Conserved
<1>7. HeldInv'
  <2>1. \A i \in DOMAIN ring : ring[i].fn = "free" => ring[i].file \in Files
    BY <1>1, MessageFile
  <2>2. \A g \in Files : /\ file'[g].life \in {"none", "freeing"} => Taken(g)' = 0
                         /\ file'[g].tries # NULL \/ file'[g].late # NULL => file'[g].life = "open"
                         /\ file'[g].life = "open" => fs'[FsOf(g)] = "loaded"
                         /\ file'[g].life = "closed" => fs'[FsOf(g)] # "none"
    BY <1>1, <1>2, <1>4 DEF HeldInv
  <2>3. \A i \in DOMAIN ring : ring[i].fn = "free" => file'[ring[i].file].life = "freeing"
    BY <1>1, <1>2, <2>1 DEF HeldInv
  <2> QED
    BY <1>1, <1>4, <2>2, <2>3 DEF HeldInv, NoFs
<1> QED
  BY <1>3, <1>6, <1>7 DEF TallyInv

\* What an action writes into the record of a file.
LEMMA PrioType ==
    ASSUME NEW f \in Files, file[f] \in FileState, NEW writing \in BOOLEAN
    PROVE  PrioOf(f, writing) \subseteq {"low", "high", "write"}
BY DEF PrioOf, FileState

LEMMA QuietTally ==
    ASSUME TallyInv, NEW f \in Files,
           \/ Open(f) \/ Close(f) \/ SetPriority(f) \/ NoBuffer(f) \/ StrayUnlock(f)
           \/ \E writing \in BOOLEAN : Insert(f, writing) \/ Access(f, writing)
           \/ Fill(f) \/ Flushed(f) \/ ReadAhead(f)
    PROVE  TallyInv'
<1> USE DEF poolVars, Elsewhere
<1>1. TypeOK /\ file \in [Files -> FileState] /\ file[f] \in FileState
  BY TypeFile DEF TallyInv
<1>2. /\ Running /\ HeldInv
      /\ UNCHANGED <<fs, caches, poolVars, ring, th, ub>> /\ raced' \subseteq Orders
  BY <1>1 DEF TallyInv, Open, Close, SetPriority, NoBuffer, StrayUnlock, Insert, Access, Fill,
         Flushed, ReadAhead, LockFree, TypeOK
<1>3. /\ file[f].life \in {"none", "freeing"} => Taken(f) = 0
      /\ file[f].tries # NULL \/ file[f].late # NULL => file[f].life = "open"
      /\ file[f].life = "open" => fs[FsOf(f)] = "loaded"
      /\ file[f].life = "closed" => fs[FsOf(f)] # "none"
      /\ Taken(f) = Weight(file[f])
  BY <1>1, <1>2, Tally DEF HeldInv, Held
<1>4. CASE Open(f)
  <2> DEFINE r == [file[f] EXCEPT !.life = "open"]
  <2>1. file' = [file EXCEPT ![f] = r] /\ r \in FileState
    BY <1>1, <1>4 DEF Open, FileState
  <2>2. /\ Weight(r) = Weight(file[f]) /\ r.life = "open" /\ fs[FsOf(f)] = "loaded"
        /\ file[f].life # "freeing"
    BY <1>1, <1>4 DEF Open, FileState, Weight, Tree
  <2> HIDE DEF r
  <2> QED
    BY <1>2, <1>3, <2>1, <2>2, FileTally
<1>5. CASE Close(f)
  <2> DEFINE r == [file[f] EXCEPT !.life = "closed"]
  <2>1. file' = [file EXCEPT ![f] = r] /\ r \in FileState
    BY <1>1, <1>5 DEF Close, FileState
  <2>2. /\ Weight(r) = Weight(file[f]) /\ r.life = "closed" /\ r.tries = NULL /\ r.late = NULL
        /\ file[f].life = "open"
    BY <1>1, <1>5 DEF Close, FileState, Weight, Tree
  <2> HIDE DEF r
  <2> QED
    BY <1>2, <1>3, <2>1, <2>2, FileTally
<1>6. ASSUME NEW r \in FileState, file' = [file EXCEPT ![f] = r], Weight(r) = Weight(file[f]),
             r.life = file[f].life, r.late = file[f].late,
             r.tries # NULL => file[f].life = "open"
      PROVE  TallyInv'
  BY <1>2, <1>3, <1>6, FileTally
<1>7. CASE SetPriority(f)
  <2> DEFINE p == CASE file[f].prio = "low" -> "high" [] file[f].prio = "high" -> "low"
                    [] OTHER -> file[f].prio
             r == [file[f] EXCEPT !.prio = p]
  <2>1. p \in {"low", "high", "write"}
    BY <1>1 DEF FileState
  <2>2. file' = [file EXCEPT ![f] = r]
    BY <1>1, <1>7 DEF SetPriority, FileState
  <2> HIDE DEF p
  <2>3. /\ r \in FileState /\ r.life = file[f].life /\ r.late = file[f].late
        /\ r.tries = file[f].tries /\ Weight(r) = Weight(file[f])
    BY <1>1, <2>1 DEF FileState, Weight, Tree
  <2> HIDE DEF r
  <2> QED
    BY <1>3, <1>6, <2>2, <2>3
<1>8. CASE NoBuffer(f)
  <2> DEFINE last == file[f].tries = MaxTries
             n == IF last THEN NULL ELSE file[f].tries + 1
             l == IF last THEN FALSE ELSE file[f].lock
             r == [file[f] EXCEPT !.tries = n, !.lock = l]
  <2>1. n \in Nat \cup {NULL} /\ l \in BOOLEAN
    <3>1. n \in Nat \cup {NULL}
      BY <1>1, <1>8 DEF NoBuffer, FileState
    <3>2. file[f].lock \in BOOLEAN
      BY <1>1 DEF FileState
    <3> QED
      BY <3>1, <3>2
  <2>2. file' = [file EXCEPT ![f] = r]
    <3>1. CASE last
      BY <1>1, <1>8, <3>1 DEF NoBuffer, FileState
    <3>2. CASE ~last
      BY <1>1, <1>8, <3>2 DEF NoBuffer, FileState
    <3> QED
      BY <3>1, <3>2
  <2> HIDE DEF n, l
  <2>3. /\ r \in FileState /\ r.life = file[f].life /\ r.late = file[f].late
        /\ Weight(r) = Weight(file[f])
    BY <1>1, <2>1 DEF FileState, Weight, Tree
  <2>4. file[f].life = "open"
    BY <1>3, <1>8 DEF NoBuffer
  <2> HIDE DEF r
  <2> QED
    BY <1>6, <2>2, <2>3, <2>4
<1>9. CASE StrayUnlock(f)
  <2> DEFINE r == [file[f] EXCEPT !.lock = FALSE]
  <2>1. /\ file' = [file EXCEPT ![f] = r] /\ r \in FileState
        /\ r.life = file[f].life /\ r.late = file[f].late /\ r.tries = file[f].tries
        /\ Weight(r) = Weight(file[f])
    BY <1>1, <1>9 DEF StrayUnlock, FileState, Weight, Tree
  <2> HIDE DEF r
  <2> QED
    BY <1>3, <1>6, <2>1
<1>10. ASSUME NEW writing \in BOOLEAN, Insert(f, writing) PROVE TallyInv'
  <2>1. PICK p \in PrioOf(f, writing) :
          file' = [file EXCEPT ![f].prio = p, ![f].lock = TRUE, ![f].tries = 0]
    BY <1>10 DEF Insert
  <2> DEFINE r == [file[f] EXCEPT !.prio = p, !.lock = TRUE, !.tries = 0]
  <2>2. p \in {"low", "high", "write"}
    BY <1>1, PrioType
  <2>3. /\ file' = [file EXCEPT ![f] = r] /\ r \in FileState
        /\ r.life = file[f].life /\ r.late = file[f].late /\ Weight(r) = Weight(file[f])
    BY <1>1, <2>1, <2>2 DEF FileState, Weight, Tree
  <2>4. file[f].life = "open"
    BY <1>10 DEF Insert
  <2> HIDE DEF r
  <2> QED
    BY <1>6, <2>3, <2>4
<1>11. ASSUME NEW writing \in BOOLEAN, Access(f, writing) PROVE TallyInv'
  <2>1. PICK p \in PrioOf(f, writing) : file' = [file EXCEPT ![f].prio = p]
    BY <1>11 DEF Access
  <2> DEFINE r == [file[f] EXCEPT !.prio = p]
  <2>2. p \in {"low", "high", "write"}
    BY <1>1, PrioType
  <2>3. /\ file' = [file EXCEPT ![f] = r] /\ r \in FileState /\ r.tries = file[f].tries
        /\ r.life = file[f].life /\ r.late = file[f].late /\ Weight(r) = Weight(file[f])
    BY <1>1, <2>1, <2>2 DEF FileState, Weight, Tree
  <2> HIDE DEF r
  <2> QED
    BY <1>3, <1>6, <2>3
<1>12. CASE Fill(f)
  <2> DEFINE r == [file[f] EXCEPT !.prio = "write", !.clean = file[f].clean - 1,
                                  !.dirty = file[f].dirty + 1]
  <2>1. file' = [file EXCEPT ![f] = r] /\ r \in FileState
    BY <1>1, <1>12 DEF Fill, FileState
  <2>2. /\ r.life = file[f].life /\ r.late = file[f].late /\ r.tries = file[f].tries
        /\ Weight(r) = Weight(file[f])
    BY <1>1 DEF FileState, Weight, Tree
  <2> HIDE DEF r
  <2> QED
    BY <1>3, <1>6, <2>1, <2>2
<1>13. CASE Flushed(f)
  <2> DEFINE r == [file[f] EXCEPT !.dirty = file[f].dirty - 1, !.clean = file[f].clean + 1]
  <2>1. file' = [file EXCEPT ![f] = r] /\ r \in FileState
    BY <1>1, <1>13 DEF Flushed, FileState
  <2>2. /\ r.life = file[f].life /\ r.late = file[f].late /\ r.tries = file[f].tries
        /\ Weight(r) = Weight(file[f])
    BY <1>1 DEF FileState, Weight, Tree
  <2> HIDE DEF r
  <2> QED
    BY <1>3, <1>6, <2>1, <2>2
<1>14. CASE ReadAhead(f)
  <2> DEFINE r == [file[f] EXCEPT !.ahead = file[f].ahead - 1, !.clean = file[f].clean + 1]
  <2>1. file' = [file EXCEPT ![f] = r] /\ r \in FileState
    BY <1>1, <1>14 DEF ReadAhead, FileState
  <2>2. /\ r.life = file[f].life /\ r.late = file[f].late /\ r.tries = file[f].tries
        /\ Weight(r) = Weight(file[f])
    BY <1>1 DEF FileState, Weight, Tree
  <2> HIDE DEF r
  <2> QED
    BY <1>3, <1>6, <2>1, <2>2
<1> QED
  BY <1>4, <1>5, <1>7, <1>8, <1>9, <1>10, <1>11, <1>12, <1>13, <1>14

\* A step that changes the buffers of one file, takes the difference from the
\* pool, and sends a message about the file or none.
LEMMA PoolTally ==
    ASSUME TallyInv, Running, pool # NULL, NEW f \in Files, NEW r \in FileState, NEW fn,
           fn \in {"add", "remove"} \/ (fn = "free" /\ r.life = "freeing"),
           file' = [file EXCEPT ![f] = r],
           pool' \in Nat, pool' = pool + Taken(f) - Weight(r),
           ub' = "none" /\ r.life \in {"none", "freeing"} => Weight(r) = 0,
           r.tries # NULL \/ r.late # NULL => r.life = "open",
           r.life = "open" => fs[FsOf(f)] = "loaded",
           r.life = "closed" => fs[FsOf(f)] # "none",
           file[f].life # "freeing",
           ring' = ring \/ ring' = Append(ring, Msg(fn, f)),
           raced' \subseteq Orders,
           UNCHANGED <<fs, caches, made, size, setting, th>>
    PROVE  TallyInv'
<1>1. /\ TypeOK /\ file \in [Files -> FileState] /\ HeldInv /\ Conserved
      /\ \A g \in Files : Taken(g) = Held(file, g) /\ Held(file, g) \in Nat
      /\ Cardinality(InUse) \in Nat /\ InUse = TreesOf(file)
  BY Tally, TypeFile DEF TallyInv
<1>2. file' \in [Files -> FileState] /\ file'[f] = r /\ \A g \in Files \ {f} : file'[g] = file[g]
  BY <1>1
<1>3. Msg(fn, f).fn = fn /\ Msg(fn, f).file = f
  BY <1>1, Sent
<1>4. ring' \in Seq(Message)
  <2>1. fn \in {"add", "remove", "free"}
    OBVIOUS
  <2> QED
    BY <1>1, <2>1, Sent
<1>5. TypeOK'
  BY <1>1, <1>2, <1>4 DEF TypeOK, FileState
<1>6. /\ \A g \in Files \ {f} : Held(file', g) = Held(file, g) /\ Taken(g)' = Taken(g)
      /\ Held(file', f) = Weight(r) /\ Taken(f)' = Weight(r)
  BY <1>2 DEF Held, Taken, Buffers, Weight, Tree
<1>7. Conserved'
  <2>1. Cardinality(TreesOf(file')) = Cardinality(TreesOf(file)) - Held(file, f) + Held(file', f)
    BY <1>1, <1>2, <1>6, OneTree
  <2>2. InUse' = TreesOf(file')
    BY DEF InUse, TreesOf, Taken, Buffers, Held, Weight, Tree
  <2>3. pool + Cardinality(InUse) = made /\ pool \in Nat
    BY <1>1 DEF Conserved, TypeOK
  <2>4. Held(file', f) \in Nat
    BY <1>2, HeldType
  <2> QED
    BY <1>1, <1>6, <2>1, <2>2, <2>3, <2>4 DEF Conserved
<1>8. ASSUME ub' = "none" PROVE HeldInv'
  <2>1. pool' # NULL
    BY PoolAssumption
  <2>2. \A g \in Files : /\ file'[g].life \in {"none", "freeing"} => Taken(g)' = 0
                         /\ file'[g].tries # NULL \/ file'[g].late # NULL => file'[g].life = "open"
                         /\ file'[g].life = "open" => fs'[FsOf(g)] = "loaded"
                         /\ file'[g].life = "closed" => fs'[FsOf(g)] # "none"
    BY <1>1, <1>2, <1>6, <1>8 DEF HeldInv
  <2>3. \A i \in DOMAIN ring : ring[i].fn = "free" =>
          ring[i].file \in Files \ {f} /\ file'[ring[i].file].life = "freeing"
    BY <1>1, <1>2, MessageFile DEF HeldInv
  <2>4. CASE ring' = ring
    BY <1>1, <2>1, <2>2, <2>3, <2>4 DEF HeldInv, NoFs
  <2>5. CASE ring' = Append(ring, Msg(fn, f))
    <3>1. /\ DOMAIN ring' = 1 .. Len(ring) + 1 /\ DOMAIN ring = 1 .. Len(ring) /\ Len(ring) \in Nat
          /\ \A i \in DOMAIN ring : ring'[i] = ring[i]
          /\ ring'[Len(ring) + 1] = Msg(fn, f)
      BY <1>1, <2>5 DEF TypeOK
    <3>2. \A i \in DOMAIN ring' : ring'[i].fn = "free" =>
            \/ i \in DOMAIN ring /\ ring'[i].file # f /\ file'[ring'[i].file].life = "freeing"
            \/ i = Len(ring) + 1 /\ ring'[i].file = f /\ file'[ring'[i].file].life = "freeing"
      BY <1>2, <1>3, <2>3, <3>1
    <3>3. \A i, j \in DOMAIN ring' :
            ring'[i].fn = "free" /\ ring'[j].fn = "free" /\ ring'[i].file = ring'[j].file => i = j
      BY <1>1, <3>1, <3>2 DEF HeldInv
    <3>4. \A i \in DOMAIN ring' : ring'[i].fn = "stop" /\ ring'[i].th = th' => NoFs'
      BY <1>1, <1>3, <3>1 DEF HeldInv, NoFs
    <3> QED
      BY <2>1, <2>2, <3>2, <3>3, <3>4 DEF HeldInv
  <2> QED
    BY <2>4, <2>5
<1> QED
  BY <1>5, <1>7, <1>8 DEF TallyInv, Running

\* A file gets a buffer although there is no pool: the program ends.
LEMMA EndTally ==
    ASSUME TallyInv, NEW f \in Files, NEW r \in FileState,
           file' = [file EXCEPT ![f] = r], pool' = NULL, ub' # "none",
           ring' \in Seq(Message), raced' \subseteq Orders,
           UNCHANGED <<fs, caches, made, size, setting, th>>
    PROVE  TallyInv'
<1>1. TypeOK /\ file \in [Files -> FileState]
  BY TypeFile DEF TallyInv
<1>2. file' \in [Files -> FileState]
  BY <1>1
<1>3. TypeOK'
  BY <1>1, <1>2 DEF TypeOK, FileState
<1> QED
  BY <1>3 DEF TallyInv, Conserved, Running

\* A new buffer in the tree, of whatever kind.
LEMMA AddOne ==
    ASSUME NEW q \in FileState, NEW kind \in {"clean", "dirty", "ahead"}
    PROVE  LET r == [q EXCEPT ![kind] = q[kind] + 1]
           IN  /\ r \in FileState /\ Tree(r) = Tree(q) + 1 /\ Tree(q) \in Nat
               /\ r.life = q.life /\ r.tries = q.tries /\ r.late = q.late /\ r.lock = q.lock
               /\ r.prio = q.prio
<1>1. CASE kind = "clean"
  BY <1>1 DEF FileState, Tree
<1>2. CASE kind = "dirty"
  BY <1>2 DEF FileState, Tree
<1>3. CASE kind = "ahead"
  BY <1>3 DEF FileState, Tree
<1> QED
  BY <1>1, <1>2, <1>3

\* A buffer got from the pool is in a tree.
LEMMA GotBufferTally ==
    ASSUME TallyInv, NEW f \in Files, GotBuffer(f)
    PROVE  TallyInv'
<1>1. /\ TypeOK /\ file \in [Files -> FileState] /\ file[f] \in FileState
      /\ Running /\ HeldInv
  BY TypeFile DEF TallyInv, GotBuffer
<1>2. PICK kind \in NewKinds(Writing(f)) :
        file' = [file EXCEPT ![f][kind] = @ + 1, ![f].lock = FALSE, ![f].tries = NULL]
  BY DEF GotBuffer
<1>3. kind \in {"clean", "dirty", "ahead"}
  BY DEF NewKinds
<1> DEFINE q == [file[f] EXCEPT !.lock = FALSE, !.tries = NULL]
           r == [q EXCEPT ![kind] = q[kind] + 1]
<1>4. q \in FileState /\ Tree(q) = Buffers(f) /\ q.life = file[f].life /\ q.tries = NULL
      /\ q.late = file[f].late /\ Weight(q) = Weight(file[f])
  BY <1>1 DEF FileState, Tree, Weight, Buffers
<1>5. file' = [file EXCEPT ![f] = r]
  <2>1. CASE kind = "clean"
    BY <1>1, <1>2, <2>1 DEF FileState
  <2>2. CASE kind = "dirty"
    BY <1>1, <1>2, <2>2 DEF FileState
  <2>3. CASE kind = "ahead"
    BY <1>1, <1>2, <2>3 DEF FileState
  <2> QED
    BY <1>3, <2>1, <2>2, <2>3
<1> HIDE DEF q
<1>6. /\ r \in FileState /\ Tree(r) = Tree(q) + 1 /\ Tree(q) \in Nat
      /\ r.life = q.life /\ r.tries = q.tries /\ r.late = q.late
  BY <1>3, <1>4, AddOne
<1> HIDE DEF r
<1>7. Weight(r) = Taken(f) + 1 /\ Taken(f) \in Nat /\ file[f].life = "open" /\ fs[FsOf(f)] = "loaded"
  <2>1. file[f].life = "open" /\ fs[FsOf(f)] = "loaded"
    BY <1>1 DEF HeldInv, GotBuffer
  <2>2. Weight(file[f]) = Taken(f) /\ Taken(f) \in Nat
    BY <1>1, Tally DEF Held
  <2>3. Weight(r) = Weight(q) + 1
    BY <1>4, <1>6, WeightType
  <2> QED
    BY <1>4, <2>1, <2>2, <2>3
<1>8. /\ ring' = ring \/ ring' = Append(ring, Msg("add", f))
      /\ UNCHANGED <<fs, caches, made, size, setting, th>> /\ raced' \subseteq Orders
  BY <1>1 DEF GotBuffer, Send, Get, Race, TypeOK, Orders, Elsewhere
<1>9. CASE pool # NULL
  <2>1. pool' = pool - 1 /\ pool \in Nat /\ pool # 0
    BY <1>1, <1>9 DEF GotBuffer, Get, HasBuffer, TypeOK
  <2>2. pool' \in Nat /\ pool' = pool + Taken(f) - Weight(r)
    BY <1>7, <2>1
  <2> QED
    BY <1>1, <1>4, <1>5, <1>6, <1>7, <1>8, <1>9, <2>2, PoolTally
<1>10. CASE pool = NULL
  <2>1. pool' = NULL /\ ub' = "no_pool"
    BY <1>10 DEF GotBuffer, Get
  <2>2. ring' \in Seq(Message)
    BY <1>1, <1>8, Sent
  <2> QED
    BY <1>5, <1>6, <1>8, <2>1, <2>2, EndTally
<1> QED
  BY <1>9, <1>10

\* Or in the hands of a thread.
LEMMA LateCheckTally ==
    ASSUME TallyInv, NEW f \in Files, Extended(f) \/ LostLock(f)
    PROVE  TallyInv'
<1>1. /\ TypeOK /\ file \in [Files -> FileState] /\ file[f] \in FileState
      /\ Running /\ HeldInv
  BY TypeFile DEF TallyInv, Extended, LostLock
<1>2. PICK writing \in BOOLEAN, tries \in Nat \cup {NULL} :
        LateCheck(f, writing, tries)
  BY <1>1 DEF Extended, LostLock, Writing, FileState
<1>3. file[f].life = "open" /\ fs[FsOf(f)] = "loaded" /\ file[f].late = NULL
  BY <1>1, <1>2 DEF Extended, LostLock, HeldInv, LateCheck
<1> DEFINE late == [writing |-> writing, seen |-> Buffers(f)]
           r == [file[f] EXCEPT !.late = late, !.tries = tries]
<1>4. late \in [writing : BOOLEAN, seen : Nat] /\ late # NULL
  <2>1. Buffers(f) \in Nat
    BY <1>1, Tally
  <2> QED
    BY <2>1, PoolAssumption
<1>5. file' = [file EXCEPT ![f] = r]
  BY <1>1, <1>2 DEF LateCheck, FileState
<1> HIDE DEF late
<1>6. /\ r \in FileState /\ Tree(r) = Tree(file[f]) /\ r.life = "open" /\ r.late # NULL
  BY <1>1, <1>2, <1>3, <1>4 DEF FileState, Tree
<1> HIDE DEF r
<1>7. Weight(r) = Taken(f) + 1 /\ Taken(f) \in Nat
  BY <1>1, <1>3, <1>6, WeightType, Tally DEF Held
<1>8. /\ UNCHANGED <<fs, caches, made, size, setting, th, ring>> /\ raced' \subseteq Orders
  BY <1>1, <1>2 DEF LateCheck, Get, Race, TypeOK, Orders, Elsewhere
<1>9. CASE pool # NULL
  <2>1. pool' = pool - 1 /\ pool \in Nat /\ pool # 0
    BY <1>1, <1>2, <1>9 DEF LateCheck, Get, HasBuffer, TypeOK
  <2>2. pool' \in Nat /\ pool' = pool + Taken(f) - Weight(r)
    BY <1>7, <2>1
  <2> QED
    BY <1>1, <1>3, <1>5, <1>6, <1>7, <1>8, <1>9, <2>2, PoolTally
<1>10. CASE pool = NULL
  <2>1. pool' = NULL /\ ub' = "no_pool"
    BY <1>2, <1>10 DEF LateCheck, Get
  <2>2. ring' \in Seq(Message)
    BY <1>1, <1>8 DEF TypeOK
  <2> QED
    BY <1>5, <1>6, <1>8, <2>1, <2>2, EndTally
<1> QED
  BY <1>9, <1>10

LEMMA LateInsertTally ==
    ASSUME TallyInv, NEW f \in Files, LateInsert(f) \/ Overtaken(f)
    PROVE  TallyInv'
<1>1. /\ TypeOK /\ file \in [Files -> FileState] /\ file[f] \in FileState
      /\ Running /\ HeldInv /\ file[f].late # NULL
  BY TypeFile DEF TallyInv, LateInsert, Overtaken
<1>2. CASE LateInsert(f)
  <2>1. PICK kind \in NewKinds(file[f].late.writing) :
          file' = [file EXCEPT ![f][kind] = @ + 1, ![f].lock = FALSE, ![f].late = NULL]
    BY <1>2 DEF LateInsert
  <2>2. kind \in {"clean", "dirty", "ahead"}
    BY DEF NewKinds
  <2> DEFINE q == [file[f] EXCEPT !.lock = FALSE, !.late = NULL]
             r == [q EXCEPT ![kind] = q[kind] + 1]
  <2>3. q \in FileState /\ Tree(q) = Tree(file[f]) /\ q.life = file[f].life
        /\ q.tries = file[f].tries /\ q.late = NULL
    BY <1>1 DEF FileState, Tree
  <2>4. file' = [file EXCEPT ![f] = r]
    <3>1. CASE kind = "clean"
      BY <1>1, <2>1, <3>1 DEF FileState
    <3>2. CASE kind = "dirty"
      BY <1>1, <2>1, <3>2 DEF FileState
    <3>3. CASE kind = "ahead"
      BY <1>1, <2>1, <3>3 DEF FileState
    <3> QED
      BY <2>2, <3>1, <3>2, <3>3
  <2> HIDE DEF q
  <2>5. /\ r \in FileState /\ Tree(r) = Tree(q) + 1 /\ Tree(q) \in Nat
        /\ r.life = q.life /\ r.tries = q.tries /\ r.late = q.late
    BY <2>2, <2>3, AddOne
  <2> HIDE DEF r
  <2>6. /\ Weight(r) = Taken(f) /\ Taken(f) \in Nat \ {0} /\ file[f].life = "open"
        /\ fs[FsOf(f)] = "loaded"
    BY <1>1, <2>3, <2>5, WeightType, Tally DEF Held, HeldInv
  <2>7. /\ ring' = ring \/ ring' = Append(ring, Msg("add", f))
        /\ pool' = pool
        /\ UNCHANGED <<fs, caches, made, size, setting, th>> /\ raced' \subseteq Orders
    BY <1>1, <1>2 DEF LateInsert, Send, TypeOK, Elsewhere
  <2>8. pool # NULL /\ pool' \in Nat /\ pool' = pool + Taken(f) - Weight(r)
    BY <1>1, <2>6, <2>7 DEF HeldInv, TypeOK
  <2> QED
    BY <1>1, <2>3, <2>4, <2>5, <2>6, <2>7, <2>8, PoolTally
<1>3. CASE Overtaken(f)
  <2>1. /\ UNCHANGED <<fs, file, caches, made, size, setting, th, pool, ring>>
        /\ raced' \subseteq Orders /\ ub' = "tree_race"
    BY <1>1, <1>3 DEF Overtaken, Race, TypeOK, Orders, Elsewhere
  <2> QED
    BY <1>1, <2>1 DEF TallyInv, TypeOK, Conserved, InUse, Taken, Buffers, Running
<1> QED
  BY <1>2, <1>3

LEMMA ReadFreeTally ==
    ASSUME TallyInv, NEW f \in Files, NEW kind \in {"clean", "dirty"}, ReadFree(f, kind)
    PROVE  TallyInv'
<1>1. /\ TypeOK /\ file \in [Files -> FileState] /\ file[f] \in FileState
      /\ Running /\ HeldInv /\ file[f].life = "open" /\ file[f][kind] > 0
  BY TypeFile DEF TallyInv, ReadFree, LockFree
<1>2. PICK p \in PrioOf(f, FALSE) : file' = [file EXCEPT ![f].prio = p, ![f][kind] = @ - 1]
  BY DEF ReadFree
<1>3. p \in {"low", "high", "write"}
  BY <1>1, PrioType
<1> DEFINE r == [file[f] EXCEPT !.prio = p, ![kind] = file[f][kind] - 1]
<1>4. /\ file' = [file EXCEPT ![f] = r] /\ r \in FileState /\ Tree(r) = Tree(file[f]) - 1
      /\ r.life = "open" /\ r.late = file[f].late /\ r.tries = file[f].tries
  <2>1. CASE kind = "clean"
    BY <1>1, <1>2, <1>3, <2>1 DEF FileState, Tree
  <2>2. CASE kind = "dirty"
    BY <1>1, <1>2, <1>3, <2>2 DEF FileState, Tree
  <2> QED
    BY <2>1, <2>2
<1> HIDE DEF r
<1>5. /\ Weight(r) = Taken(f) - 1 /\ Taken(f) \in Nat \ {0}
      /\ fs[FsOf(f)] = "loaded"
  BY <1>1, <1>4, WeightType, Tally DEF Held, HeldInv
<1>6. /\ ring' = ring \/ ring' = Append(ring, Msg("remove", f))
      /\ UNCHANGED <<fs, caches, made, size, setting, th>> /\ pool' = pool + 1
      /\ raced' \subseteq Orders
  BY <1>1 DEF ReadFree, Send, Put, Elsewhere, TypeOK
<1>7. pool # NULL /\ pool \in Nat
  BY <1>1, <1>5 DEF HeldInv, TypeOK
<1>8. pool' \in Nat /\ pool' = pool + Taken(f) - Weight(r)
  BY <1>5, <1>6, <1>7
<1> QED
  BY <1>1, <1>4, <1>5, <1>6, <1>7, <1>8, PoolTally

LEMMA FileFreeTally ==
    ASSUME TallyInv, NEW f \in Files, FileFree(f)
    PROVE  TallyInv'
<1>1. /\ TypeOK /\ file \in [Files -> FileState] /\ file[f] \in FileState
      /\ Running /\ HeldInv /\ file[f].life = "closed"
      /\ UNCHANGED <<fs, caches, made, size, setting, th>>
      /\ raced' \subseteq Orders
  BY TypeFile DEF TallyInv, FileFree, LockFree, Elsewhere, Race, Orders, TypeOK
<1>2. /\ file[f].tries = NULL /\ file[f].late = NULL /\ Taken(f) = Buffers(f)
      /\ Buffers(f) = Tree(file[f]) /\ Buffers(f) \in Nat
  BY <1>1, WeightType, Tally DEF HeldInv, Held
<1>3. CASE FreedAtOnce(f)
  <2>1. /\ file' = [file EXCEPT ![f] = NoFile] /\ UNCHANGED <<pool, ring, ub>>
        /\ Buffers(f) = 0
    BY <1>3 DEF FileFree, FreedAtOnce
  <2>2. NoFile \in FileState /\ Weight(NoFile) = 0 /\ NoFile.tries = NULL /\ NoFile.late = NULL
        /\ NoFile.life = "none"
    BY DEF NoFile, FileState, Weight, Tree
  <2> QED
    BY <1>1, <1>2, <2>1, <2>2, FileTally DEF poolVars
<1>4. CASE ~FreedAtOnce(f)
  <2> DEFINE r == [file[f] EXCEPT !.clean = 0, !.life = "freeing"]
  <2>1. /\ file' = [file EXCEPT ![f] = r] /\ r \in FileState
    BY <1>1, <1>4 DEF FileFree, FileState
  <2>2. /\ pool' = pool + file[f].clean /\ ring' = Append(ring, Msg("free", f))
        /\ Buffers(f) # 0
        /\ ub' = IF Buffers(f) > file[f].clean THEN "freed_in_use" ELSE ub
    BY <1>4 DEF FileFree, FreedAtOnce, Put, Send
  <2>3. /\ Tree(r) = Buffers(f) - file[f].clean
        /\ r.life = "freeing" /\ r.tries = NULL /\ r.late = NULL
        /\ file[f].clean \in Nat /\ Buffers(f) >= file[f].clean
    BY <1>1, <1>2 DEF FileState, Buffers, Tree
  <2> HIDE DEF r
  <2>4. pool # NULL /\ pool \in Nat
    BY <1>1, <1>2, <2>2 DEF HeldInv, TypeOK
  <2>5. Weight(r) = Tree(r)
    BY <2>1, <2>3, WeightType
  <2>6. pool' \in Nat /\ pool' = pool + Taken(f) - Weight(r)
    BY <1>2, <2>2, <2>3, <2>4, <2>5
  <2>7. ub' = "none" => Weight(r) = 0
    BY <1>2, <2>2, <2>3, <2>5
  <2> QED
    BY <1>1, <2>1, <2>2, <2>3, <2>4, <2>6, <2>7, PoolTally
<1> QED
  BY <1>3, <1>4

\* The messages that stay are as they were, and so are those that free a file.
LEMMA FreesKept ==
    ASSUME TypeOK, HeldInv, NEW i \in DOMAIN ring, ring' = Without(ring, i)
    PROVE  /\ ring' \in Seq(Message)
           /\ \A j \in DOMAIN ring' : \E k \in DOMAIN ring : ring'[j] = ring[k]
           /\ \A j, k \in DOMAIN ring' :
                ring'[j].fn = "free" /\ ring'[k].fn = "free" /\ ring'[j].file = ring'[k].file
                  => j = k
<1>1. ring \in Seq(Message)
  BY DEF TypeOK
<1>2. ring' \in Seq(Message) /\ \A j \in DOMAIN ring' : \E k \in DOMAIN ring : ring'[j] = ring[k]
  BY <1>1, WithoutType, StaysInRing
<1>3. \A j, k \in DOMAIN ring' :
        ring'[j].fn = "free" /\ ring'[k].fn = "free" /\ ring'[j].file = ring'[k].file => j = k
  <2> TAKE j, k \in DOMAIN ring'
  <2> DEFINE old(n) == IF n < i THEN n ELSE n + 1
  <2>1. /\ old(j) \in DOMAIN ring /\ ring'[j] = ring[old(j)] /\ j \in Nat
        /\ old(k) \in DOMAIN ring /\ ring'[k] = ring[old(k)] /\ k \in Nat /\ i \in Nat
    BY <1>1, StaysInRing
  <2>2. old(j) = old(k) => j = k
    BY <2>1
  <2> HIDE DEF old
  <2> QED
    BY <2>1, <2>2 DEF HeldInv
<1> QED
  BY <1>2, <1>3

\* A message is handled that frees no file.
LEMMA HandleTally ==
    ASSUME TallyInv, NEW i \in DOMAIN ring, Received(i), caches' \in Seq(Files),
           UNCHANGED <<fs, file, poolVars, th, raced>>
    PROVE  TallyInv'
<1> USE DEF poolVars
<1>1. TypeOK /\ HeldInv /\ ring' = Without(ring, i)
  BY DEF TallyInv, Received
<1>2. /\ ring' \in Seq(Message)
      /\ \A j \in DOMAIN ring' : \E k \in DOMAIN ring : ring'[j] = ring[k]
      /\ \A j, k \in DOMAIN ring' :
           ring'[j].fn = "free" /\ ring'[k].fn = "free" /\ ring'[j].file = ring'[k].file => j = k
  BY <1>1, FreesKept
<1>3. TypeOK'
  BY <1>1, <1>2 DEF TypeOK
<1>4. HeldInv'
  BY <1>1, <1>2 DEF HeldInv, Taken, Buffers, NoFs
<1>5. Conserved'
  BY DEF TallyInv, Conserved, InUse, Taken, Buffers
<1> QED
  BY <1>3, <1>4, <1>5 DEF TallyInv

\* The list without a file is a list of files.
LEMMA RemoveType ==
    ASSUME NEW S, NEW list \in Seq(S), NEW f
    PROVE  Remove(list, f) \in Seq(S)
<1>1. CASE Places(list, f) = {}
  BY <1>1 DEF Remove
<1>2. CASE Places(list, f) # {}
  <2>1. PICK i \in Places(list, f) : Remove(list, f) = Without(list, i)
    BY <1>2 DEF Remove
  <2>2. i \in DOMAIN list
    BY DEF Places
  <2> QED
    BY <2>1, <2>2, WithoutType
<1> QED
  BY <1>1, <1>2

LEMMA AddRemoveTally ==
    ASSUME TallyInv, AddFile \/ RemoveFile
    PROVE  TallyInv'
<1>1. TypeOK /\ caches \in Seq(Files)
  BY DEF TallyInv, TypeOK
<1>2. PICK i \in Heads("add") \cup Heads("remove") :
        /\ Received(i) /\ UNCHANGED <<fs, file, poolVars, th, raced>>
        /\ caches' = Append(caches, ring[i].file) \/ caches' = Remove(caches, ring[i].file)
  BY DEF AddFile, RemoveFile, Unlist
<1>3. i \in DOMAIN ring /\ ring[i].file \in Files
  BY <1>1, MessageFile DEF Heads
<1>4. caches' \in Seq(Files)
  BY <1>1, <1>2, <1>3, RemoveType
<1> QED
  BY <1>2, <1>3, <1>4, HandleTally

LEMMA NoFileState ==
    /\ NoFile \in FileState /\ Weight(NoFile) = 0 /\ Tree(NoFile) = 0
    /\ NoFile.tries = NULL /\ NoFile.late = NULL /\ NoFile.life = "none"
BY DEF NoFile, FileState, Weight, Tree

\* A file is gone: it had no buffers, and no other message was to free it.
LEMMA FreeFileTally ==
    ASSUME TallyInv, FreeFile
    PROVE  TallyInv'
<1> USE DEF poolVars
<1>1. TypeOK /\ HeldInv /\ ring \in Seq(Message) /\ caches \in Seq(Files)
      /\ file \in [Files -> FileState]
  BY TypeFile DEF TallyInv, TypeOK, FreeFile, Received
<1>2. PICK i \in Heads("free") :
        /\ Received(i) /\ UNCHANGED <<fs, poolVars, th, raced>>
        /\ caches' = Remove(caches, ring[i].file)
        /\ file' = [file EXCEPT ![ring[i].file] = NoFile]
  BY DEF FreeFile, Unlist
<1>0. i \in DOMAIN ring /\ ring[i].fn = "free" /\ ring[i].file \in Files
  BY <1>1, MessageFile DEF Heads
<1>3. PICK f \in Files : f = ring[i].file
  BY <1>0
<1>4. file[f].life = "freeing" /\ Taken(f) = 0
  BY <1>0, <1>1, <1>3 DEF HeldInv
<1>5. /\ file' \in [Files -> FileState] /\ file'[f] = NoFile
      /\ \A g \in Files \ {f} : file'[g] = file[g]
  BY <1>1, <1>2, <1>3, NoFileState
<1>6. ring' = Without(ring, i) /\ ring' \in Seq(Message)
  BY <1>0, <1>1, <1>2, WithoutType DEF Received
<1>7. TypeOK'
  <2>1. caches' \in Seq(Files)
    BY <1>1, <1>2, RemoveType
  <2> QED
    BY <1>1, <1>2, <1>5, <1>6, <2>1 DEF TypeOK, FileState
<1>8. \A g \in Files : Taken(g)' = Taken(g)
  <2>1. Taken(f)' = Weight(NoFile)
    BY <1>5 DEF Taken, Weight, Tree, Buffers
  <2>2. \A g \in Files \ {f} : Taken(g)' = Taken(g)
    BY <1>5 DEF Taken, Buffers
  <2> QED
    BY <1>4, <2>1, <2>2, NoFileState
<1>9. Conserved'
  BY <1>2, <1>8 DEF TallyInv, Conserved, InUse
<1>10. HeldInv'
  <2> DEFINE old(n) == IF n < i THEN n ELSE n + 1
  <2>1. \A j \in DOMAIN ring' : /\ old(j) \in DOMAIN ring \ {i} /\ ring'[j] = ring[old(j)]
                                /\ j \in Nat /\ i \in Nat
    BY <1>0, <1>1, <1>6, StaysInRing
  <2>2. \A j, k \in DOMAIN ring' : old(j) = old(k) => j = k
    BY <2>1
  <2> HIDE DEF old
  <2>3. \A j \in DOMAIN ring' : ring'[j].fn = "free" =>
          ring'[j].file \in Files \ {f} /\ file'[ring'[j].file].life = "freeing"
    BY <1>0, <1>1, <1>3, <1>5, <2>1, MessageFile DEF HeldInv
  <2>4. \A j, k \in DOMAIN ring' :
          ring'[j].fn = "free" /\ ring'[k].fn = "free" /\ ring'[j].file = ring'[k].file => j = k
    BY <1>1, <2>1, <2>2 DEF HeldInv
  <2>5. \A g \in Files : /\ file'[g].life \in {"none", "freeing"} => Taken(g)' = 0
                         /\ file'[g].tries # NULL \/ file'[g].late # NULL => file'[g].life = "open"
                         /\ file'[g].life = "open" => fs'[FsOf(g)] = "loaded"
                         /\ file'[g].life = "closed" => fs'[FsOf(g)] # "none"
    BY <1>1, <1>2, <1>4, <1>5, <1>8, NoFileState DEF HeldInv
  <2>6. \A j \in DOMAIN ring' : ring'[j].fn = "stop" /\ ring'[j].th = th' => NoFs'
    BY <1>1, <1>2, <2>1 DEF HeldInv, NoFs
  <2> QED
    BY <1>1, <1>2, <1>8, <2>3, <2>4, <2>5, <2>6 DEF HeldInv
<1> QED
  BY <1>7, <1>9, <1>10 DEF TallyInv

\* The count is 0 when no file has a buffer.
LEMMA NoTrees ==
    ASSUME \A f \in Files : Taken(f) = 0
    PROVE  Cardinality(InUse) = 0
<1>1. \A f \in Files : {f} \X (1 .. Taken(f)) = {}
  OBVIOUS
<1>2. InUse = {}
  BY <1>1 DEF InUse
<1> QED
  BY <1>2, FS_EmptySet

\* The pool thread starts the pool when no buffer is in use, and stops it then, or
\* the program ends.
LEMMA StartTally ==
    ASSUME TallyInv, Start
    PROVE  TallyInv'
<1>1. /\ TypeOK /\ Conserved /\ Running /\ HeldInv /\ caches \in Seq(Files) /\ size \in Nat
  BY DEF TallyInv, TypeOK, Start, Received
<1>2. PICK i \in Heads("start") :
        /\ Received(i)
        /\ IF pool = NULL THEN pool' = size /\ made' = size /\ UNCHANGED ub
                          ELSE ub' = "two_pools" /\ UNCHANGED <<pool, made>>
        /\ UNCHANGED <<fs, file, caches, size, setting, th, raced>>
  BY DEF Start
<1>3. i \in DOMAIN ring
  BY DEF Heads
<1>4. CASE pool # NULL
  BY <1>1, <1>2, <1>3, <1>4, HandleTally DEF poolVars
<1>5. CASE pool = NULL
  <2>1. pool' = size /\ made' = size /\ Cardinality(InUse) = 0
    BY <1>1, <1>2, <1>5, NoTrees DEF HeldInv
  <2>2. InUse' = InUse
    BY <1>2 DEF InUse, Taken, Buffers
  <2>3. Conserved'
    BY <1>1, <1>2, <2>1, <2>2 DEF Conserved
  <2>4. /\ ring' \in Seq(Message)
        /\ \A j \in DOMAIN ring' : \E k \in DOMAIN ring : ring'[j] = ring[k]
        /\ \A j, k \in DOMAIN ring' :
             ring'[j].fn = "free" /\ ring'[k].fn = "free" /\ ring'[j].file = ring'[k].file => j = k
    BY <1>1, <1>2, <1>3, FreesKept DEF Received
  <2>5. TypeOK'
    BY <1>1, <1>2, <2>1, <2>4 DEF TypeOK
  <2>6. HeldInv'
    BY <1>1, <1>2, <1>5, <2>1, <2>4, PoolAssumption DEF HeldInv, Taken, Buffers, NoFs
  <2> QED
    BY <1>2, <2>3, <2>5, <2>6 DEF TallyInv
<1> QED
  BY <1>4, <1>5

LEMMA StopTally ==
    ASSUME TallyInv, Stop
    PROVE  TallyInv'
<1>1. /\ TypeOK /\ Conserved /\ Running /\ HeldInv /\ ring \in Seq(Message)
  BY DEF TallyInv, TypeOK, Stop, Received
<1>2. PICK i \in Heads("stop") :
        /\ Received(i) /\ pool' = NULL
        /\ ub' = CASE pool = NULL -> "no_pool"
                   [] pool # NULL /\ pool # size -> "lost_buffers"
                   [] pool = size /\ ring[i].th # th -> "wrong_thread"
                   [] OTHER -> ub
        /\ UNCHANGED <<fs, file, caches, made, size, setting, th, raced>>
  BY DEF Stop
<1>3. i \in DOMAIN ring /\ ring' = Without(ring, i) /\ ring' \in Seq(Message) /\ ring[i].fn = "stop"
  BY <1>1, <1>2, WithoutType DEF Heads, Received
<1>4. TypeOK'
  BY <1>1, <1>2, <1>3 DEF TypeOK
<1>5. Conserved'
  BY <1>2 DEF Conserved
<1>6. ASSUME ub' = "none" PROVE HeldInv'
  <2>1. size # NULL
    BY <1>1, PoolAssumption DEF TypeOK
  <2>2. ring[i].th = th
    BY <1>2, <1>6, <2>1
  <2>3. \A f \in Files : Taken(f) = 0 /\ Taken(f)' = 0
    <3>1. NoFs
      BY <1>1, <1>3, <2>2 DEF HeldInv
    <3>2. ASSUME NEW f \in Files PROVE file[f].life \in {"none", "freeing"}
      <4>1. fs[FsOf(f)] = "none"
        BY <3>1 DEF NoFs, Files, FsOf
      <4>2. file[f].life \in {"none", "open", "closed", "freeing"}
        BY <1>1, TypeFile DEF FileState
      <4> QED
        BY <1>1, <4>1, <4>2 DEF HeldInv
    <3> QED
      BY <1>1, <1>2, <3>2 DEF HeldInv, Taken, Buffers
  <2>4. /\ \A j \in DOMAIN ring' : \E k \in DOMAIN ring : ring'[j] = ring[k]
        /\ \A j, k \in DOMAIN ring' :
             ring'[j].fn = "free" /\ ring'[k].fn = "free" /\ ring'[j].file = ring'[k].file => j = k
    BY <1>1, <1>3, FreesKept
  <2> QED
    BY <1>1, <1>2, <2>3, <2>4 DEF HeldInv, NoFs
<1> QED
  BY <1>4, <1>5, <1>6 DEF TallyInv, Running

\* g_fs_count, and which file system is the last.
LEMMA CountFs ==
    ASSUME TypeOK
    PROVE  /\ FsCount = 0 <=> NoFs
           /\ FsCount \in Nat
           /\ \A s \in FileSystems : fs[s] # "none" =>
                (FsCount = 1 <=> \A t \in FileSystems \ {s} : fs[t] = "none")
<1> DEFINE U == {s \in FileSystems : fs[s] # "none"}
<1>1. IsFiniteSet(U)
  BY PoolAssumption, FS_Subset
<1>2. FsCount = Cardinality(U) /\ FsCount \in Nat
  BY <1>1, FS_CardinalityType DEF FsCount
<1>3. U = {} <=> NoFs
  BY DEF NoFs
<1>4. FsCount = 0 <=> NoFs
  BY <1>1, <1>2, <1>3, FS_EmptySet
<1>5. ASSUME NEW s \in FileSystems, fs[s] # "none"
      PROVE  FsCount = 1 <=> \A t \in FileSystems \ {s} : fs[t] = "none"
  <2>1. s \in U
    BY <1>5
  <2>2. IsFiniteSet(U \ {s}) /\ Cardinality(U \ {s}) = Cardinality(U) - 1
    BY <1>1, <2>1, FS_RemoveElement
  <2>3. Cardinality(U) \in Nat
    BY <1>1, FS_CardinalityType
  <2>4. Cardinality(U \ {s}) = 0 <=> U \ {s} = {}
    BY <2>2, FS_EmptySet
  <2>5. U \ {s} = {} <=> \A t \in FileSystems \ {s} : fs[t] = "none"
    OBVIOUS
  <2> HIDE DEF U
  <2> QED
    BY <1>2, <2>2, <2>3, <2>4, <2>5
<1> QED
  BY <1>2, <1>4, <1>5

\* What a step of a file system does to fs, to the ring and to th.
LEMMA FsRing ==
    ASSUME TypeOK, NEW s \in FileSystems, FsStep(s)
    PROVE  /\ ring' \in Seq(Message) /\ th' \in {0, 1} /\ NewThread \in {0, 1}
           /\ \/ ring' = ring
              \/ ring' = Append(ring, [fn |-> "start", file |-> NULL, th |-> NewThread])
              \/ ring' = Append(ring, [fn |-> "stop", file |-> NULL, th |-> th])
           /\ raced' \subseteq Orders
           /\ UNCHANGED <<file, caches, poolVars, ub>> /\ Running
<1>1. ring \in Seq(Message) /\ th \in {0, 1} /\ raced \subseteq Orders
  BY DEF TypeOK
<1>2. NewThread \in {0, 1}
  BY <1>1 DEF NewThread
<1>3. /\ [fn |-> "start", file |-> NULL, th |-> NewThread] \in Message
      /\ [fn |-> "stop", file |-> NULL, th |-> th] \in Message
  BY <1>1, <1>2 DEF Message
<1>4. /\ \/ ring' = ring
         \/ ring' = Append(ring, [fn |-> "start", file |-> NULL, th |-> NewThread])
         \/ ring' = Append(ring, [fn |-> "stop", file |-> NULL, th |-> th])
      /\ th' = th \/ th' = NewThread
      /\ UNCHANGED <<file, caches, poolVars, ub>> /\ Running
  BY DEF FsStep, Load, Unload, Unloaded, Send, Msg
<1>5. raced' \subseteq Orders
  BY <1>1 DEF FsStep, Load, Unload, Unloaded, Race, Orders
<1>6. ring' \in Seq(Message)
  BY <1>1, <1>3, <1>4
<1>7. th' \in {0, 1}
  BY <1>1, <1>2, <1>4
<1> QED
  BY <1>2, <1>4, <1>5, <1>6, <1>7

\* The file systems: a stop message of the pool's thread is there only while no file
\* system is in use.
LEMMA FsTally ==
    ASSUME TallyInv, NEW s \in FileSystems, FsStep(s)
    PROVE  TallyInv'
<1>1. /\ TypeOK /\ Running /\ ring' \in Seq(Message) /\ th' \in {0, 1}
      /\ raced' \subseteq Orders /\ UNCHANGED <<file, caches, poolVars, ub>>
  BY FsRing DEF TallyInv
<1>2. HeldInv /\ ring \in Seq(Message) /\ th \in {0, 1}
  BY <1>1 DEF TallyInv, TypeOK
<1>3. \/ fs' = [fs EXCEPT ![s] = "loaded"] \/ fs' = [fs EXCEPT ![s] = "unloading"]
      \/ fs' = [fs EXCEPT ![s] = "none"]
  BY DEF FsStep, Load, Unload, Unloaded
<1>4. TypeOK'
  BY <1>1, <1>2, <1>3 DEF TypeOK, poolVars
<1>5. Conserved'
  BY <1>1 DEF TallyInv, Conserved, InUse, Taken, Buffers, poolVars
<1>6. \A i \in DOMAIN ring' : ring'[i].fn = "free" => i \in DOMAIN ring /\ ring'[i] = ring[i]
  BY <1>1, <1>2, FsRing
<1>7. \A f \in Files : /\ file[f].life = "open" => fs'[FsOf(f)] = "loaded"
                       /\ file[f].life = "closed" => fs'[FsOf(f)] # "none"
  <2> SUFFICES ASSUME NEW f \in Files
               PROVE  /\ file[f].life = "open" => fs'[FsOf(f)] = "loaded"
                      /\ file[f].life = "closed" => fs'[FsOf(f)] # "none"
    OBVIOUS
  <2>1. FsOf(f) \in FileSystems /\ fs \in [FileSystems -> {"none", "loaded", "unloading"}]
    BY <1>1 DEF Files, FsOf, TypeOK
  <2>2. /\ file[f].life = "open" => fs[FsOf(f)] = "loaded"
        /\ file[f].life = "closed" => fs[FsOf(f)] # "none"
    BY <1>2 DEF HeldInv
  <2>3. CASE Load(s)
    BY <2>1, <2>2, <2>3 DEF Load
  <2>4. CASE Unload(s)
    BY <2>1, <2>2, <2>4 DEF Unload
  <2>5. CASE Unloaded(s)
    BY <2>1, <2>2, <2>5 DEF Unloaded
  <2> QED
    BY <2>3, <2>4, <2>5 DEF FsStep
<1>8. ASSUME NEW i \in DOMAIN ring', ring'[i].fn = "stop", ring'[i].th = th' PROVE NoFs'
  <2>1. fs \in [FileSystems -> {"none", "loaded", "unloading"}]
    BY <1>1 DEF TypeOK
  <2>2. ASSUME NEW k \in DOMAIN ring, ring[k].fn = "stop", ring[k].th = th PROVE NoFs
    BY <1>2, <2>2 DEF HeldInv
  <2>3. CASE Load(s)
    <3>1. CASE FsCount = 0
      <4>1. /\ ring' = Append(ring, [fn |-> "start", file |-> NULL, th |-> NewThread])
            /\ th' = NewThread
        BY <2>3, <3>1 DEF Load
      <4>2. i \in DOMAIN ring /\ ring'[i] = ring[i]
        BY <1>2, <1>8, <4>1
      <4>3. ring[i].th = th /\ ring # <<>>
        BY <1>2, <2>3, <3>1, <4>2 DEF Load
      <4>4. NewThread = 1 - th
        BY <3>1, <4>3 DEF NewThread
      <4> QED
        BY <1>2, <1>8, <4>1, <4>2, <4>3, <4>4
    <3>2. CASE FsCount # 0
      <4>1. ring' = ring
        BY <2>3, <3>2 DEF Load
      <4>2. th' = th
        BY <1>1, <2>3, <3>2, CountFs DEF Load, NewThread
      <4>3. ~NoFs
        BY <1>1, <3>2, CountFs
      <4> QED
        BY <1>8, <2>2, <4>1, <4>2, <4>3
    <3> QED
      BY <3>1, <3>2
  <2>4. CASE Unload(s)
    <3>1. ring' = ring /\ th' = th /\ fs[s] = "loaded"
      BY <2>4 DEF Unload
    <3>2. NoFs
      BY <1>8, <2>2, <3>1
    <3> QED
      BY <3>1, <3>2 DEF NoFs
  <2>5. CASE Unloaded(s)
    <3>1. /\ fs[s] = "unloading" /\ fs' = [fs EXCEPT ![s] = "none"] /\ th' = th
          /\ IF FsCount = 1 THEN ring' = Append(ring, [fn |-> "stop", file |-> NULL, th |-> th])
                            ELSE ring' = ring
      BY <2>5 DEF Unloaded, Send, Msg, IsLast
    <3>2. CASE FsCount = 1
      <4>1. \A t \in FileSystems \ {s} : fs[t] = "none"
        BY <1>1, <3>1, <3>2, CountFs
      <4> QED
        BY <2>1, <3>1, <4>1 DEF NoFs
    <3>3. CASE FsCount # 1
      <4>1. NoFs
        BY <1>8, <2>2, <3>1, <3>3
      <4> QED
        BY <3>1, <4>1 DEF NoFs
    <3> QED
      BY <3>2, <3>3
  <2> QED
    BY <2>3, <2>4, <2>5 DEF FsStep
<1>9. HeldInv'
  BY <1>1, <1>2, <1>6, <1>7, <1>8 DEF HeldInv, Taken, Buffers, poolVars
<1> QED
  BY <1>4, <1>5, <1>9 DEF TallyInv

LEMMA SizeTally ==
    ASSUME TallyInv, SetSizeStore \/ \E n \in Sizes : SetSizeCheck(n)
    PROVE  TallyInv'
<1>1. /\ UNCHANGED <<fs, file, caches, pool, made, ring, th, ub>>
      /\ size' \in Nat /\ setting' \in Nat \cup {NULL} /\ raced' \subseteq Orders
  BY PoolAssumption DEF TallyInv, TypeOK, SetSizeStore, SetSizeCheck, Race, Orders
<1>2. TypeOK'
  BY <1>1 DEF TallyInv, TypeOK
<1>3. (Running => HeldInv)'
  BY <1>1 DEF TallyInv, HeldInv, Taken, Buffers, Running, NoFs
<1>4. Conserved'
  BY <1>1 DEF TallyInv, Conserved, InUse, Taken, Buffers
<1> QED
  BY <1>2, <1>3, <1>4 DEF TallyInv

-----------------------------------------------------------------------------
(* Counting places in a sequence.                                            *)

\* The places of q that hold an element of V.
At(q, V) == {i \in DOMAIN q : q[i] \in V}

LEMMA AtFinite ==
    ASSUME NEW S, NEW q \in Seq(S), NEW V
    PROVE  IsFiniteSet(At(q, V)) /\ Cardinality(At(q, V)) \in Nat
<1>1. At(q, V) \subseteq 1 .. Len(q) /\ Len(q) \in Nat
  BY DEF At
<1>2. IsFiniteSet(1 .. Len(q))
  BY <1>1, FS_Interval
<1>3. IsFiniteSet(At(q, V))
  BY <1>1, <1>2, FS_Subset
<1> QED
  BY <1>3, FS_CardinalityType

LEMMA AtAppend ==
    ASSUME NEW S, NEW q \in Seq(S), NEW e \in S, NEW V
    PROVE  Cardinality(At(Append(q, e), V)) =
             Cardinality(At(q, V)) + (IF e \in V THEN 1 ELSE 0)
<1> DEFINE new == Append(q, e)
           n == Len(q) + 1
<1>1. /\ DOMAIN new = 1 .. n /\ DOMAIN q = 1 .. Len(q) /\ Len(q) \in Nat
      /\ \A i \in DOMAIN q : new[i] = q[i]
      /\ new[n] = e
  OBVIOUS
<1> HIDE DEF new
<1>2. IsFiniteSet(At(q, V)) /\ n \notin At(q, V) /\ Cardinality(At(q, V)) \in Nat
  <2>1. IsFiniteSet(At(q, V)) /\ Cardinality(At(q, V)) \in Nat
    BY AtFinite
  <2>2. n \notin At(q, V)
    BY <1>1 DEF At
  <2> QED
    BY <2>1, <2>2
<1>3. CASE e \in V
  <2>1. At(new, V) = At(q, V) \cup {n}
    BY <1>1, <1>3 DEF At
  <2>2. Cardinality(At(q, V) \cup {n}) = Cardinality(At(q, V)) + 1
    BY <1>2, FS_AddElement
  <2> QED
    BY <1>2, <1>3, <2>1, <2>2 DEF new
<1>4. CASE e \notin V
  <2>1. At(new, V) = At(q, V)
    BY <1>1, <1>4 DEF At
  <2> QED
    BY <1>2, <1>4, <2>1 DEF new
<1> QED
  BY <1>3, <1>4

LEMMA AtWithout ==
    ASSUME NEW S, NEW q \in Seq(S), NEW i \in DOMAIN q, NEW V
    PROVE  Cardinality(At(Without(q, i), V)) =
             Cardinality(At(q, V)) - (IF q[i] \in V THEN 1 ELSE 0)
<1> DEFINE new == Without(q, i)
           old(j) == IF j < i THEN j ELSE j + 1
<1>1. /\ DOMAIN q = 1 .. Len(q) /\ Len(q) \in Nat /\ i \in 1 .. Len(q)
      /\ DOMAIN new = 1 .. Len(q) - 1
  BY WithoutType
<1>2. \A j \in DOMAIN new : old(j) \in DOMAIN q \ {i} /\ new[j] = q[old(j)] /\ j \in Nat
  BY <1>1, StaysInRing
<1>3. \A k \in DOMAIN q \ {i} : \E j \in DOMAIN new : old(j) = k
  <2> TAKE k \in DOMAIN q \ {i}
  <2> DEFINE j == IF k < i THEN k ELSE k - 1
  <2>1. j \in DOMAIN new /\ old(j) = k
    BY <1>1
  <2> QED
    BY <2>1
<1>4. \A j, k \in DOMAIN new : old(j) = old(k) => j = k
  BY <1>1
<1> HIDE DEF new, old
<1> DEFINE g == [j \in At(new, V) |-> old(j)]
<1>5. g \in Bijection(At(new, V), At(q, V) \ {i})
  <2>1. \A j \in At(new, V) : g[j] \in At(q, V) \ {i}
    BY <1>2 DEF At
  <2>2. \A k \in At(q, V) \ {i} : \E j \in At(new, V) : g[j] = k
    BY <1>2, <1>3 DEF At
  <2>3. \A j, k \in At(new, V) : g[j] = g[k] => j = k
    BY <1>4 DEF At
  <2> QED
    BY <2>1, <2>2, <2>3 DEF Bijection, Injection, Surjection, IsInjective
<1>6. IsFiniteSet(At(q, V)) /\ Cardinality(At(q, V)) \in Nat
  BY AtFinite
<1>7. new \in Seq(S)
  BY WithoutType DEF new
<1>8. IsFiniteSet(At(new, V))
  BY <1>7, AtFinite
<1>9. Cardinality(At(new, V)) = Cardinality(At(q, V) \ {i})
  <2>1. ExistsBijection(At(new, V), At(q, V) \ {i})
    BY <1>5 DEF ExistsBijection
  <2> QED
    BY <1>8, <2>1, FS_Bijection
<1>10. CASE q[i] \in V
  <2>1. i \in At(q, V)
    BY <1>1, <1>10 DEF At
  <2>2. Cardinality(At(q, V) \ {i}) = Cardinality(At(q, V)) - 1
    BY <1>6, <2>1, FS_RemoveElement
  <2> QED
    BY <1>9, <1>10, <2>2 DEF new
<1>11. CASE q[i] \notin V
  <2>1. At(q, V) \ {i} = At(q, V)
    BY <1>11 DEF At
  <2>2. Cardinality(At(new, V)) = Cardinality(At(q, V))
    BY <1>9, <2>1
  <2> QED
    BY <1>6, <1>11, <2>2 DEF new
<1> QED
  BY <1>10, <1>11

\* How often file f is in a list.
Times(list, f) == Cardinality(Places(list, f))

LEMMA PlacesAt ==
    ASSUME NEW S, NEW list \in Seq(S), NEW f
    PROVE  /\ Places(list, f) = At(list, {f})
           /\ Times(list, f) \in Nat
           /\ Times(list, f) = 0 <=> Places(list, f) = {}
<1>1. Places(list, f) = At(list, {f})
  BY DEF Places, At
<1>2. IsFiniteSet(At(list, {f})) /\ Cardinality(At(list, {f})) \in Nat
  BY AtFinite
<1> QED
  BY <1>1, <1>2, FS_EmptySet DEF Times

LEMMA AppendTimes ==
    ASSUME NEW S, NEW list \in Seq(S), NEW f \in S, NEW g
    PROVE  Times(Append(list, f), g) = Times(list, g) + (IF g = f THEN 1 ELSE 0)
<1>1. Append(list, f) \in Seq(S)
  OBVIOUS
<1>2. Cardinality(At(Append(list, f), {g})) =
        Cardinality(At(list, {g})) + (IF f \in {g} THEN 1 ELSE 0)
  BY AtAppend
<1>3. Places(Append(list, f), g) = At(Append(list, f), {g}) /\ Places(list, g) = At(list, {g})
  BY <1>1, PlacesAt
<1> QED
  BY <1>2, <1>3 DEF Times

LEMMA RemoveTimes ==
    ASSUME NEW S, NEW list \in Seq(S), NEW f, NEW g
    PROVE  /\ Remove(list, f) \in Seq(S)
           /\ Times(Remove(list, f), g) =
                Times(list, g) - (IF g = f /\ Places(list, f) # {} THEN 1 ELSE 0)
<1>0. Remove(list, f) \in Seq(S) /\ Times(list, g) \in Nat
  BY RemoveType, PlacesAt
<1>1. CASE Places(list, f) = {}
  <2>1. Remove(list, f) = list
    BY <1>1 DEF Remove
  <2> QED
    BY <1>0, <1>1, <2>1
<1>2. CASE Places(list, f) # {}
  <2>1. PICK i \in Places(list, f) : Remove(list, f) = Without(list, i)
    BY <1>2 DEF Remove
  <2>2. i \in DOMAIN list /\ list[i] = f
    BY DEF Places
  <2>3. Cardinality(At(Without(list, i), {g})) =
          Cardinality(At(list, {g})) - (IF f \in {g} THEN 1 ELSE 0)
    BY <2>2, AtWithout
  <2>4. Places(Remove(list, f), g) = At(Remove(list, f), {g}) /\ Places(list, g) = At(list, {g})
    BY <1>0, PlacesAt
  <2>5. Times(Remove(list, f), g) = Times(list, g) - (IF f \in {g} THEN 1 ELSE 0)
    BY <2>1, <2>3, <2>4 DEF Times
  <2> QED
    BY <1>0, <1>2, <2>5
<1> QED
  BY <1>1, <1>2

-----------------------------------------------------------------------------
(* The poller.                                                               *)

LEMMA LeastNat ==
    ASSUME NEW T, T \subseteq Nat, T # {}
    PROVE  \E x \in T : \A y \in T : x <= y
<1> DEFINE R == OpToRel(<, Nat)
<1>1. IsWellFoundedOn(R, Nat)
  BY NatLessThanWellFounded
<1>2. \A x, y \in Nat : x < y => <<x, y>> \in R
  BY DEF OpToRel
<1> HIDE DEF R
<1>3. PICK x \in T : \A y \in T : ~ (<<y, x>> \in R)
  BY <1>1, WFMin
<1>4. ASSUME NEW y \in T PROVE x <= y
  <2>1. x \in Nat /\ y \in Nat
    OBVIOUS
  <2>2. ~(y < x)
    BY <1>2, <1>3, <2>1, Zenon
  <2> QED
    BY <2>1, <2>2
<1> QED
  BY <1>4

\* Whether a file of state r belongs into the list.
Due(r) == IF Tree(r) > 0 THEN 1 ELSE 0

\* What the poller works on, and what a pass keeps: the number of buffers, everything
\* of a file but its clean buffers, and how often a file is in the list more than its
\* buffers want.
StateOK(st) == st.file \in [Files -> FileState] /\ st.pool \in Nat /\ st.caches \in Seq(Files)
Keeps(st, u) ==
    /\ StateOK(u)
    /\ u.pool + Cardinality(TreesOf(u.file)) = st.pool + Cardinality(TreesOf(st.file))
    /\ \A f \in Files :
         /\ u.file[f].life = st.file[f].life /\ u.file[f].tries = st.file[f].tries
         /\ u.file[f].late = st.file[f].late
         /\ u.file[f].dirty = st.file[f].dirty /\ u.file[f].ahead = st.file[f].ahead
         /\ Tree(u.file[f]) <= Tree(st.file[f])
         /\ Times(u.caches, f) + Due(st.file[f]) = Times(st.caches, f) + Due(u.file[f])

LEMMA ReclaimFileKeeps ==
    ASSUME NEW st, StateOK(st), NEW f \in Files, Tree(st.file[f]) > 0, Places(st.caches, f) # {}
    PROVE  Keeps(st, ReclaimFile(st, f))
<1> DEFINE u == ReclaimFile(st, f)
           r == [st.file[f] EXCEPT !.clean = 0]
           kept == st.file[f].dirty + st.file[f].ahead
<1>1. /\ st.file \in [Files -> FileState] /\ st.file[f] \in FileState /\ st.pool \in Nat
      /\ st.caches \in Seq(Files)
  BY DEF StateOK
<1>2. /\ u.file = [st.file EXCEPT ![f].clean = 0] /\ u.pool = st.pool + st.file[f].clean
      /\ u.caches = IF kept > 0 THEN Requeue(st.caches, f) ELSE Remove(st.caches, f)
  BY DEF ReclaimFile
<1>3. u.file = [st.file EXCEPT ![f] = r]
  BY <1>1, <1>2 DEF FileState
<1>4. /\ r \in FileState /\ r.life = st.file[f].life /\ r.tries = st.file[f].tries
      /\ r.late = st.file[f].late
      /\ r.dirty = st.file[f].dirty /\ r.ahead = st.file[f].ahead /\ r.clean = 0
      /\ st.file[f].clean \in Nat /\ st.file[f].dirty \in Nat /\ st.file[f].ahead \in Nat
  BY <1>1 DEF FileState
<1> HIDE DEF u, r
<1>5. /\ u.file \in [Files -> FileState] /\ u.file[f] = r
      /\ \A g \in Files \ {f} : u.file[g] = st.file[g]
  BY <1>1, <1>3, <1>4
<1>6. Tree(r) = kept /\ Tree(st.file[f]) = kept + st.file[f].clean /\ kept \in Nat
  BY <1>4 DEF Tree
<1>7. Weight(r) = Weight(st.file[f]) - st.file[f].clean
  BY <1>1, <1>4, <1>6, WeightType
<1>8. /\ \A g \in Files \ {f} : Held(u.file, g) = Held(st.file, g)
      /\ Held(u.file, f) = Held(st.file, f) - st.file[f].clean
      /\ \A g \in Files : Held(st.file, g) \in Nat /\ Held(u.file, g) \in Nat
  BY <1>1, <1>5, <1>7, HeldType DEF Held
<1>9. /\ Cardinality(TreesOf(st.file)) \in Nat
      /\ Cardinality(TreesOf(u.file)) =
           Cardinality(TreesOf(st.file)) - Held(st.file, f) + Held(u.file, f)
  BY <1>1, <1>5, <1>8, OneTree
<1>10. u.pool + Cardinality(TreesOf(u.file)) = st.pool + Cardinality(TreesOf(st.file)) /\ u.pool \in Nat
  BY <1>1, <1>2, <1>4, <1>8, <1>9
<1>11. /\ u.caches \in Seq(Files)
       /\ \A g \in Files :
            Times(u.caches, g) + Due(st.file[g]) = Times(st.caches, g) + Due(u.file[g])
  <2> DEFINE short == Remove(st.caches, f)
  <2>1. /\ short \in Seq(Files)
        /\ \A g \in Files : /\ Times(short, g) = Times(st.caches, g) - (IF g = f THEN 1 ELSE 0)
                            /\ Times(st.caches, g) \in Nat /\ Times(short, g) \in Nat
    <3>1. short \in Seq(Files)
      BY <1>1, RemoveTimes
    <3>2. ASSUME NEW g \in Files
          PROVE  Times(short, g) = Times(st.caches, g) - (IF g = f THEN 1 ELSE 0)
      BY <1>1, RemoveTimes
    <3> HIDE DEF short
    <3> QED
      BY <1>1, <3>1, <3>2, PlacesAt
  <2> HIDE DEF short
  <2>2. Due(st.file[f]) = 1
    BY DEF Due
  <2>3. \A g \in Files \ {f} : Due(u.file[g]) = Due(st.file[g]) /\ Due(st.file[g]) \in Nat
    BY <1>5 DEF Due
  <2>4. CASE kept > 0
    <3>1. u.caches = Append(short, f)
      BY <1>2, <2>4 DEF Requeue, short
    <3>2. \A g \in Files : Times(u.caches, g) = Times(short, g) + (IF g = f THEN 1 ELSE 0)
      BY <2>1, <3>1, AppendTimes
    <3>3. Due(u.file[f]) = 1
      BY <1>5, <1>6, <2>4 DEF Due
    <3> QED
      BY <2>1, <2>2, <2>3, <3>1, <3>2, <3>3
  <2>5. CASE ~(kept > 0)
    <3>1. u.caches = short
      BY <1>2, <2>5 DEF short
    <3>2. Due(u.file[f]) = 0
      BY <1>5, <1>6, <2>5 DEF Due
    <3> QED
      BY <2>1, <2>2, <2>3, <3>1, <3>2
  <2> QED
    BY <2>4, <2>5
<1>12. \A g \in Files : /\ u.file[g].life = st.file[g].life /\ u.file[g].tries = st.file[g].tries
                        /\ u.file[g].late = st.file[g].late
                        /\ u.file[g].dirty = st.file[g].dirty /\ u.file[g].ahead = st.file[g].ahead
                        /\ Tree(u.file[g]) <= Tree(st.file[g])
  <2>1. \A g \in Files : Tree(st.file[g]) \in Nat
    BY <1>1, WeightType
  <2>2. Tree(u.file[f]) <= Tree(st.file[f])
    BY <1>4, <1>5, <1>6
  <2> QED
    BY <1>4, <1>5, <2>1, <2>2
<1>13. StateOK(u)
  BY <1>5, <1>10, <1>11 DEF StateOK
<1>14. Keeps(st, u)
  BY <1>10, <1>11, <1>12, <1>13 DEF Keeps
<1> QED
  BY <1>14 DEF u

\* A pass reclaims a file of the list that it can lock and that has buffers, or
\* changes nothing.
LEMMA PassTakes ==
    ASSUME NEW st, StateOK(st), NEW wanted
    PROVE  \/ Pass(st, wanted) = [st EXCEPT !.hit = FALSE]
           \/ \E i \in DOMAIN st.caches :
                /\ Reclaimable(st, i)
                /\ Pass(st, wanted) = ReclaimFile(st, st.caches[i])
<1> DEFINE hits == {i \in DOMAIN st.caches : st.caches[i] \in wanted /\ Reclaimable(st, i)}
           first == CHOOSE i \in hits : \A j \in hits : i <= j
<1>1. CASE hits = {}
  BY <1>1 DEF Pass
<1>2. CASE hits # {}
  <2>1. hits \subseteq Nat
    BY DEF StateOK
  <2>2. \E i \in hits : \A j \in hits : i <= j
    BY <1>2, <2>1, LeastNat
  <2>3. first \in hits
    BY <2>2
  <2>4. Pass(st, wanted) = ReclaimFile(st, st.caches[first])
    BY <1>2 DEF Pass
  <2> HIDE DEF first
  <2> QED
    BY <2>3, <2>4
<1> QED
  BY <1>1, <1>2

LEMMA PassKeeps ==
    ASSUME NEW st, StateOK(st), NEW wanted,
           NEW old, StateOK(old), Keeps(old, st)
    PROVE  Keeps(old, Pass(st, wanted)) /\ StateOK(Pass(st, wanted))
<1> DEFINE u == Pass(st, wanted)
<1>1. CASE u = [st EXCEPT !.hit = FALSE]
  <2>1. u.file = st.file /\ u.pool = st.pool /\ u.caches = st.caches
    BY <1>1
  <2> HIDE DEF u
  <2>2. Keeps(old, u) /\ StateOK(u)
    BY <2>1 DEF Keeps, StateOK
  <2> QED
    BY <2>2 DEF u
<1>2. ASSUME NEW i \in DOMAIN st.caches, Reclaimable(st, i), u = ReclaimFile(st, st.caches[i])
      PROVE  Keeps(old, u) /\ StateOK(u)
  <2>1. Keeps(st, u)
    <3>1. st.caches[i] \in Files /\ Tree(st.file[st.caches[i]]) > 0
      BY <1>2 DEF StateOK, Reclaimable, Tree
    <3>2. i \in Places(st.caches, st.caches[i])
      BY DEF Places
    <3> QED
      BY <1>2, <3>1, <3>2, ReclaimFileKeeps
  <2> HIDE DEF u
  <2>2. \A f \in Files : /\ Tree(u.file[f]) \in Nat /\ Tree(st.file[f]) \in Nat
                         /\ Tree(old.file[f]) \in Nat
                         /\ Times(u.caches, f) \in Nat /\ Times(st.caches, f) \in Nat
                         /\ Times(old.caches, f) \in Nat
                         /\ Due(u.file[f]) \in Nat /\ Due(st.file[f]) \in Nat
                         /\ Due(old.file[f]) \in Nat
    BY <2>1, WeightType, PlacesAt DEF Keeps, StateOK, Due
  <2>3. \A f \in Files :
          /\ Tree(u.file[f]) <= Tree(st.file[f]) /\ Tree(st.file[f]) <= Tree(old.file[f])
          /\ Times(u.caches, f) + Due(st.file[f]) = Times(st.caches, f) + Due(u.file[f])
          /\ Times(st.caches, f) + Due(old.file[f]) = Times(old.caches, f) + Due(st.file[f])
    BY <2>1 DEF Keeps
  <2>4. \A f \in Files :
          /\ Tree(u.file[f]) <= Tree(old.file[f])
          /\ Times(u.caches, f) + Due(old.file[f]) = Times(old.caches, f) + Due(u.file[f])
    BY <2>2, <2>3
  <2> QED
    BY <2>1, <2>4 DEF Keeps
<1> QED
  BY <1>1, <1>2, PassTakes

\* What a poll leaves.
LEMMA Polled ==
    ASSUME TypeOK, Poll
    PROVE  /\ StateOK(Now) /\ Now.file = file /\ Now.caches = caches /\ Now.pool = pool
           /\ \E st : Keeps(Now, st) /\ caches' = st.caches /\ file' = st.file /\ pool' = st.pool
<1>1. /\ StateOK(Now) /\ Now.file = file /\ Now.caches = caches /\ Now.pool = pool
  BY TypeFile DEF Now, StateOK, TypeOK, Poll
<1>2. Keeps(Now, Now)
  BY <1>1, WeightType, PlacesAt DEF Keeps, StateOK
<1>3. PICK one, two, three :
        /\ one = Pass(Now, LowPrio)
        /\ two = IF Enough(one) THEN one ELSE Pass(one, NotWriting)
        /\ three = IF Enough(one) \/ Enough(two) THEN two ELSE Pass(two, Files)
        /\ caches' = three.caches /\ file' = three.file /\ pool' = three.pool
  BY DEF Poll
<1>4. Keeps(Now, one) /\ StateOK(one)
  BY <1>1, <1>2, <1>3, PassKeeps
<1>5. Keeps(Now, two) /\ StateOK(two)
  BY <1>1, <1>3, <1>4, PassKeeps
<1>6. Keeps(Now, three) /\ StateOK(three)
  BY <1>1, <1>3, <1>5, PassKeeps
<1> QED
  BY <1>1, <1>3, <1>6

\* The same, in the terms of the state.
LEMMA PollFiles ==
    ASSUME TypeOK, Poll
    PROVE  /\ file' \in [Files -> FileState] /\ pool' \in Nat /\ caches' \in Seq(Files)
           /\ pool' + Cardinality(InUse') = pool + Cardinality(InUse)
           /\ \A f \in Files :
                /\ file'[f].life = file[f].life /\ file'[f].tries = file[f].tries
                /\ file'[f].late = file[f].late /\ file'[f].dirty = file[f].dirty
                /\ file'[f].ahead = file[f].ahead
                /\ Buffers(f)' <= Buffers(f) /\ Buffers(f) \in Nat /\ Buffers(f)' \in Nat
                /\ Taken(f)' <= Taken(f) /\ Taken(f) \in Nat /\ Taken(f)' \in Nat
                /\ Times(caches', f) + (IF Buffers(f) > 0 THEN 1 ELSE 0) =
                     Times(caches, f) + (IF Buffers(f)' > 0 THEN 1 ELSE 0)
<1>1. PICK st : Keeps(Now, st) /\ caches' = st.caches /\ file' = st.file /\ pool' = st.pool
  BY Polled
<1>2. StateOK(Now) /\ Now.file = file /\ Now.pool = pool /\ Now.caches = caches
  BY Polled
<1>3. /\ file' \in [Files -> FileState] /\ pool' \in Nat /\ caches' \in Seq(Files)
      /\ file \in [Files -> FileState]
      /\ pool' + Cardinality(TreesOf(file')) = pool + Cardinality(TreesOf(file))
      /\ \A f \in Files :
           /\ file'[f].life = file[f].life /\ file'[f].tries = file[f].tries
           /\ file'[f].late = file[f].late /\ file'[f].dirty = file[f].dirty
           /\ file'[f].ahead = file[f].ahead
           /\ Tree(file'[f]) <= Tree(file[f])
           /\ Times(caches', f) + Due(file[f]) = Times(caches, f) + Due(file'[f])
  BY <1>1, <1>2 DEF Keeps, StateOK
<1>4. InUse = TreesOf(file) /\ InUse' = TreesOf(file')
  BY DEF InUse, TreesOf, Taken, Buffers, Held, Weight, Tree
<1>5. \A f \in Files : /\ Buffers(f) = Tree(file[f]) /\ Buffers(f)' = Tree(file'[f])
                       /\ Taken(f) = Weight(file[f]) /\ Taken(f)' = Weight(file'[f])
  BY DEF Buffers, Taken, Tree, Weight
<1>6. \A f \in Files : /\ Tree(file[f]) \in Nat /\ Tree(file'[f]) \in Nat
                       /\ Weight(file[f]) \in Nat /\ Weight(file'[f]) \in Nat
                       /\ Weight(file'[f]) <= Weight(file[f])
  <2> SUFFICES ASSUME NEW f \in Files
               PROVE  /\ Tree(file[f]) \in Nat /\ Tree(file'[f]) \in Nat
                      /\ Weight(file[f]) \in Nat /\ Weight(file'[f]) \in Nat
                      /\ Weight(file'[f]) <= Weight(file[f])
    OBVIOUS
  <2>1. file[f] \in FileState /\ file'[f] \in FileState /\ file'[f].late = file[f].late
        /\ Tree(file'[f]) <= Tree(file[f])
    BY <1>3
  <2> QED
    BY <2>1, WeightType
<1> QED
  BY <1>3, <1>4, <1>5, <1>6 DEF Due

LEMMA PollTally ==
    ASSUME TallyInv, Poll
    PROVE  TallyInv'
<1>1. /\ TypeOK /\ Conserved /\ HeldInv /\ Running /\ pool \in Nat /\ pool # NULL
      /\ UNCHANGED <<fs, made, size, setting, ring, th>> /\ raced' \subseteq Orders
  BY DEF TallyInv, TypeOK, Poll, Race, Orders
<1>2. /\ file' \in [Files -> FileState] /\ pool' \in Nat /\ caches' \in Seq(Files)
      /\ pool' + Cardinality(InUse') = pool + Cardinality(InUse)
      /\ \A f \in Files :
           /\ file'[f].life = file[f].life /\ file'[f].tries = file[f].tries
           /\ file'[f].late = file[f].late
           /\ Taken(f)' <= Taken(f) /\ Taken(f) \in Nat /\ Taken(f)' \in Nat
  BY <1>1, PollFiles
<1>3. TypeOK'
  BY <1>1, <1>2 DEF TypeOK, FileState
<1>4. Conserved'
  BY <1>1, <1>2 DEF Conserved
<1>5. HeldInv'
  <2>1. pool' # NULL
    BY <1>2, PoolAssumption
  <2>2. \A f \in Files : Taken(f) = 0 => Taken(f)' = 0
    BY <1>2
  <2>3. \A i \in DOMAIN ring : ring[i].fn = "free" => ring[i].file \in Files
    BY <1>1, MessageFile
  <2> QED
    BY <1>1, <1>2, <2>1, <2>2, <2>3 DEF HeldInv, NoFs
<1> QED
  BY <1>3, <1>4, <1>5 DEF TallyInv

-----------------------------------------------------------------------------
(* No buffer is lost: the theorems.                                          *)

LEMMA InitTally == ASSUME Init PROVE TallyInv
<1>1. /\ Running /\ ring = <<>> /\ pool = NULL /\ setting = NULL /\ raced = {}
      /\ \A f \in Files : file[f] = NoFile
  BY DEF Init, Running
<1>2. TypeOK
  BY <1>1, NoFileState, PoolAssumption DEF Init, TypeOK, FileState
<1>3. \A f \in Files : Taken(f) = 0
  BY <1>1, NoFileState DEF Taken, Buffers, Weight, Tree
<1>4. HeldInv
  BY <1>1, <1>3, NoFileState DEF HeldInv
<1> QED
  BY <1>1, <1>2, <1>4 DEF TallyInv, Conserved

LEMMA StepTally ==
    ASSUME TallyInv, [Next]_vars
    PROVE  TallyInv'
<1>1. CASE \E s \in FileSystems : FsStep(s)
  BY <1>1, FsTally
<1>2. CASE SetSizeStore \/ \E n \in Sizes : SetSizeCheck(n)
  BY <1>2, SizeTally
<1>3. ASSUME NEW f \in Files, FileStep(f) PROVE TallyInv'
  BY <1>3, QuietTally, GotBufferTally, LateCheckTally, LateInsertTally, ReadFreeTally,
     FileFreeTally DEF FileStep, Inserting
<1>4. CASE Handle
  BY <1>4, StartTally, StopTally, AddRemoveTally, FreeFileTally DEF Handle
<1>5. CASE Poll
  BY <1>5, PollTally
<1>6. CASE UNCHANGED vars
  BY <1>6 DEF vars, poolVars, TallyInv, TypeOK, Conserved, InUse, Taken, Buffers, Running, HeldInv,
              NoFs
<1> QED
  BY <1>1, <1>2, <1>3, <1>4, <1>5, <1>6 DEF Next

\* In every order of the steps of the users, the messages and the poller, the counts
\* of buffers in use and of free ones stay counts: none falls below zero.
THEOREM PoolTypeCorrect == Spec => []TypeOK
<1>1. Init => TallyInv
  BY InitTally
<1>2. TallyInv /\ [Next]_vars => TallyInv'
  BY StepTally
<1>3. TallyInv => TypeOK
  BY DEF TallyInv
<1> QED
  BY <1>1, <1>2, <1>3, PTL DEF Spec

\* Every buffer of the pool is free, in the tree of one file or in the hands of one
\* thread, in every state: cache_insert_buffer, with the lock or without it,
\* spdk_file_read, file_free and the poller lose none and free none twice, even in
\* the orders in which the list itself goes wrong or the size is changed late.
THEOREM BuffersConserved == Spec => []Conserved
<1>1. Init => TallyInv
  BY InitTally
<1>2. TallyInv /\ [Next]_vars => TallyInv'
  BY StepTally
<1>3. TallyInv => Conserved
  BY DEF TallyInv
<1> QED
  BY <1>1, <1>2, <1>3, PTL DEF Spec


-----------------------------------------------------------------------------
(* List and messages.                                                        *)

\* The messages of a ring q that put f into the list, and those that take it out.
AddMsgs(f)    == {m \in Message : m.fn = "add" /\ m.file = f}
DropMsgs(f)   == {m \in Message : m.fn \in {"remove", "free"} /\ m.file = f}
AddsIn(q, f)  == Cardinality(At(q, AddMsgs(f)))
DropsIn(q, f) == Cardinality(At(q, DropMsgs(f)))

\* What ListBalanced says of f, for a ring q, a list and files fl.
Balance(q, list, fl, f) == Times(list, f) + AddsIn(q, f) = DropsIn(q, f) + Due(fl[f])

LEMMA CountsIn ==
    ASSUME NEW q \in Seq(Message), NEW list \in Seq(Files), NEW r \in FileState, NEW f \in Files
    PROVE  /\ AddsIn(q, f) \in Nat /\ DropsIn(q, f) \in Nat
           /\ Times(list, f) \in Nat /\ Due(r) \in {0, 1}
           /\ Due(r) = 0 <=> Tree(r) = 0
<1>1. AddsIn(q, f) \in Nat /\ DropsIn(q, f) \in Nat
  BY AtFinite DEF AddsIn, DropsIn
<1>2. Times(list, f) \in Nat
  BY PlacesAt
<1>3. Tree(r) \in Nat
  BY WeightType
<1> QED
  BY <1>1, <1>2, <1>3 DEF Due

LEMMA SentCounts ==
    ASSUME NEW q \in Seq(Message), NEW m \in Message, NEW f \in Files
    PROVE  /\ AddsIn(Append(q, m), f) =
                AddsIn(q, f) + (IF m.fn = "add" /\ m.file = f THEN 1 ELSE 0)
           /\ DropsIn(Append(q, m), f) =
                DropsIn(q, f) + (IF m.fn \in {"remove", "free"} /\ m.file = f THEN 1 ELSE 0)
<1>1. /\ m \in AddMsgs(f) <=> m.fn = "add" /\ m.file = f
      /\ m \in DropMsgs(f) <=> m.fn \in {"remove", "free"} /\ m.file = f
  BY DEF AddMsgs, DropMsgs
<1>2. /\ Cardinality(At(Append(q, m), AddMsgs(f))) =
           Cardinality(At(q, AddMsgs(f))) + (IF m \in AddMsgs(f) THEN 1 ELSE 0)
      /\ Cardinality(At(Append(q, m), DropMsgs(f))) =
           Cardinality(At(q, DropMsgs(f))) + (IF m \in DropMsgs(f) THEN 1 ELSE 0)
  BY AtAppend
<1> QED
  BY <1>1, <1>2 DEF AddsIn, DropsIn

LEMMA TakenCounts ==
    ASSUME NEW q \in Seq(Message), NEW i \in DOMAIN q, NEW f \in Files
    PROVE  /\ AddsIn(Without(q, i), f) =
                AddsIn(q, f) - (IF q[i].fn = "add" /\ q[i].file = f THEN 1 ELSE 0)
           /\ DropsIn(Without(q, i), f) =
                DropsIn(q, f) - (IF q[i].fn \in {"remove", "free"} /\ q[i].file = f THEN 1 ELSE 0)
<1>1. q[i] \in Message
  OBVIOUS
<1>2. /\ q[i] \in AddMsgs(f) <=> q[i].fn = "add" /\ q[i].file = f
      /\ q[i] \in DropMsgs(f) <=> q[i].fn \in {"remove", "free"} /\ q[i].file = f
  BY <1>1 DEF AddMsgs, DropMsgs
<1>3. /\ Cardinality(At(Without(q, i), AddMsgs(f))) =
           Cardinality(At(q, AddMsgs(f))) - (IF q[i] \in AddMsgs(f) THEN 1 ELSE 0)
      /\ Cardinality(At(Without(q, i), DropMsgs(f))) =
           Cardinality(At(q, DropMsgs(f))) - (IF q[i] \in DropMsgs(f) THEN 1 ELSE 0)
  BY AtWithout
<1> QED
  BY <1>2, <1>3 DEF AddsIn, DropsIn

LEMMA MsgsAt ==
    ASSUME NEW q \in Seq(Message), NEW f \in Files
    PROVE  /\ {i \in DOMAIN q : q[i].fn = "add" /\ q[i].file = f} = At(q, AddMsgs(f))
           /\ {i \in DOMAIN q : q[i].fn \in {"remove", "free"} /\ q[i].file = f}
                = At(q, DropMsgs(f))
<1>1. \A i \in DOMAIN q : q[i] \in Message
  OBVIOUS
<1> QED
  BY <1>1 DEF At, AddMsgs, DropMsgs

LEMMA BalanceIs ==
    ASSUME TypeOK
    PROVE  ListBalanced <=> (Running => \A f \in Files : Balance(ring, caches, file, f))
<1>1. \A f \in Files : /\ Cardinality(Adds(f)) = AddsIn(ring, f)
                       /\ Cardinality(Drops(f)) = DropsIn(ring, f)
  BY TypeFile, MsgsAt DEF Adds, Drops, AddsIn, DropsIn
<1>2. \A f \in Files : Buffers(f) = Tree(file[f])
  BY DEF Buffers, Tree
<1> QED
  BY <1>1, <1>2 DEF ListBalanced, Balance, Times, Due

LEMMA BalanceIsNext ==
    ASSUME TypeOK'
    PROVE  ListBalanced' <=> (Running' => \A f \in Files : Balance(ring', caches', file', f))
<1>0. ring' \in Seq(Message)
  BY DEF TypeOK
<1>1. \A f \in Files : /\ Cardinality(Adds(f)') = AddsIn(ring', f)
                       /\ Cardinality(Drops(f)') = DropsIn(ring', f)
  BY <1>0, MsgsAt DEF Adds, Drops, AddsIn, DropsIn
<1>2. \A f \in Files : Buffers(f)' = Tree(file'[f])
  BY DEF Buffers, Tree
<1> QED
  BY <1>1, <1>2 DEF ListBalanced, Balance, Times, Due

\* What the steps start from and end in.
BalanceInv == TallyInv /\ ListBalanced

LEMMA BalanceStart ==
    ASSUME BalanceInv, Running
    PROVE  /\ TypeOK /\ HeldInv /\ ring \in Seq(Message) /\ caches \in Seq(Files)
           /\ file \in [Files -> FileState] /\ \A f \in Files : file[f] \in FileState
           /\ \A f \in Files : Balance(ring, caches, file, f)
           /\ \A f \in Files : Buffers(f) = Tree(file[f]) /\ Buffers(f) \in Nat
BY BalanceIs, TypeFile, Tally DEF BalanceInv, TallyInv

\* A step of the users: a file that comes to have buffers is announced, one that has
\* none any more is taken back.
LEMMA UserBalance ==
    ASSUME BalanceInv, Running, TypeOK', NEW f \in Files,
           \A g \in Files \ {f} : file'[g] = file[g],
           caches' = caches,
           \/ ring' = ring /\ (Tree(file'[f]) = 0 <=> Tree(file[f]) = 0)
           \/ ring' = Append(ring, Msg("add", f)) /\ Tree(file[f]) = 0 /\ Tree(file'[f]) # 0
           \/ \E fn \in {"remove", "free"} :
                /\ ring' = Append(ring, Msg(fn, f))
                /\ Tree(file[f]) # 0 /\ Tree(file'[f]) = 0
    PROVE  ListBalanced'
<1>1. /\ TypeOK /\ ring \in Seq(Message) /\ caches \in Seq(Files)
      /\ \A g \in Files : file[g] \in FileState /\ Balance(ring, caches, file, g)
  BY BalanceStart
<1>2. \A g \in Files : file'[g] \in FileState
  <2>1. file' \in [Files -> FileState]
    BY DEF TypeOK, FileState
  <2> QED
    BY <2>1
<1>3. ASSUME NEW g \in Files PROVE Balance(ring', caches', file', g)
  <2>1. /\ AddsIn(ring, g) \in Nat /\ DropsIn(ring, g) \in Nat /\ Times(caches, g) \in Nat
        /\ Due(file[g]) \in {0, 1} /\ Due(file'[g]) \in {0, 1}
        /\ Due(file[g]) = 0 <=> Tree(file[g]) = 0
        /\ Due(file'[g]) = 0 <=> Tree(file'[g]) = 0
    BY <1>1, <1>2, CountsIn
  <2>2. Times(caches, g) + AddsIn(ring, g) = DropsIn(ring, g) + Due(file[g])
    BY <1>1 DEF Balance
  <2>3. CASE ring' = ring /\ (Tree(file'[f]) = 0 <=> Tree(file[f]) = 0)
    <3>1. Due(file'[g]) = Due(file[g])
      BY <2>1, <2>3
    <3> QED
      BY <2>2, <2>3, <3>1 DEF Balance
  <2>4. CASE ring' = Append(ring, Msg("add", f)) /\ Tree(file[f]) = 0 /\ Tree(file'[f]) # 0
    <3>1. Msg("add", f) \in Message /\ Msg("add", f).fn = "add" /\ Msg("add", f).file = f
      BY <1>1 DEF Msg, Message, TypeOK
    <3>2. /\ AddsIn(ring', g) = AddsIn(ring, g) + (IF f = g THEN 1 ELSE 0)
          /\ DropsIn(ring', g) = DropsIn(ring, g)
      BY <1>1, <2>1, <2>4, <3>1, SentCounts
    <3>3. Due(file'[g]) = Due(file[g]) + (IF f = g THEN 1 ELSE 0)
      BY <2>1, <2>4
    <3> QED
      BY <2>1, <2>2, <3>2, <3>3 DEF Balance
  <2>5. ASSUME NEW fn \in {"remove", "free"}, ring' = Append(ring, Msg(fn, f)),
               Tree(file[f]) # 0, Tree(file'[f]) = 0
        PROVE  Balance(ring', caches', file', g)
    <3>1. Msg(fn, f) \in Message /\ Msg(fn, f).fn = fn /\ Msg(fn, f).file = f
      BY <1>1 DEF Msg, Message, TypeOK
    <3>2. /\ AddsIn(ring', g) = AddsIn(ring, g)
          /\ DropsIn(ring', g) = DropsIn(ring, g) + (IF f = g THEN 1 ELSE 0)
      BY <1>1, <2>1, <2>5, <3>1, SentCounts
    <3>3. Due(file[g]) = Due(file'[g]) + (IF f = g THEN 1 ELSE 0)
      BY <2>1, <2>5
    <3> QED
      BY <2>1, <2>2, <3>2, <3>3 DEF Balance
  <2> QED
    BY <2>3, <2>4, <2>5
<1> QED
  BY <1>3, BalanceIsNext

\* The steps that leave the buffers of a file as they are.
LEMMA QuietBalance ==
    ASSUME BalanceInv, TypeOK', NEW f \in Files,
           \/ Open(f) \/ Close(f) \/ SetPriority(f) \/ NoBuffer(f) \/ StrayUnlock(f)
           \/ \E writing \in BOOLEAN : Insert(f, writing) \/ Access(f, writing)
           \/ Fill(f) \/ Flushed(f) \/ ReadAhead(f)
           \/ Extended(f) \/ LostLock(f)
    PROVE  ListBalanced'
<1> USE DEF poolVars, Elsewhere
<1>1. /\ Running /\ caches' = caches /\ ring' = ring
  BY DEF Open, Close, SetPriority, NoBuffer, StrayUnlock, Insert, Access, Fill,
         Flushed, ReadAhead, LockFree, Extended, LostLock, LateCheck
<1>2. file \in [Files -> FileState] /\ file[f] \in FileState
  BY <1>1, BalanceStart
<1>3. \A g \in Files \ {f} : file'[g] = file[g]
  BY <1>2 DEF Open, Close, SetPriority, NoBuffer, StrayUnlock, Insert, Access, Fill,
              Flushed, ReadAhead, Extended, LostLock, LateCheck
<1>4. Tree(file'[f]) = Tree(file[f])
  <2>1. CASE Open(f) \/ Close(f) \/ SetPriority(f) \/ NoBuffer(f) \/ StrayUnlock(f)
    BY <1>2, <2>1 DEF Open, Close, SetPriority, NoBuffer, StrayUnlock, FileState, Tree
  <2>2. CASE \E writing \in BOOLEAN : Insert(f, writing) \/ Access(f, writing)
    <3>1. PICK p : \/ file' = [file EXCEPT ![f].prio = p, ![f].lock = TRUE, ![f].tries = 0]
                   \/ file' = [file EXCEPT ![f].prio = p]
      BY <2>2 DEF Insert, Access
    <3> QED
      BY <1>2, <3>1 DEF FileState, Tree
  <2>3. CASE Fill(f) \/ Flushed(f) \/ ReadAhead(f)
    BY <1>2, <2>3 DEF Fill, Flushed, ReadAhead, FileState, Tree
  <2>4. CASE Extended(f) \/ LostLock(f)
    BY <1>2, <2>4 DEF Extended, LostLock, LateCheck, FileState, Tree
  <2> QED
    BY <2>1, <2>2, <2>3, <2>4
<1> QED
  BY <1>1, <1>3, <1>4, UserBalance

\* A buffer is inserted, with the lock or without it.
LEMMA InsertBalance ==
    ASSUME BalanceInv, TypeOK', NEW f \in Files, GotBuffer(f) \/ LateInsert(f)
    PROVE  ListBalanced'
<1>1. Running /\ caches' = caches
  BY DEF GotBuffer, LateInsert, Elsewhere
<1>2. /\ file \in [Files -> FileState] /\ file[f] \in FileState
      /\ Buffers(f) = Tree(file[f]) /\ Buffers(f) \in Nat
  BY <1>1, BalanceStart
<1>3. \/ Tree(file[f]) = 0 /\ ring' = Append(ring, Msg("add", f))
      \/ Tree(file[f]) # 0 /\ ring' = ring
  <2>1. CASE GotBuffer(f)
    BY <1>2, <2>1 DEF GotBuffer, NeedUpdate, Send
  <2>2. CASE LateInsert(f)
    BY <1>2, <2>2 DEF LateInsert, NeedUpdate, Send
  <2> QED
    BY <2>1, <2>2
<1>4. PICK kind \in {"clean", "dirty", "ahead"} :
        \/ file' = [file EXCEPT ![f][kind] = @ + 1, ![f].lock = FALSE, ![f].tries = NULL]
        \/ file' = [file EXCEPT ![f][kind] = @ + 1, ![f].lock = FALSE, ![f].late = NULL]
  BY DEF GotBuffer, LateInsert, NewKinds
<1>5. \A g \in Files \ {f} : file'[g] = file[g]
  BY <1>2, <1>4
<1>6. Tree(file'[f]) = Tree(file[f]) + 1
  <2> DEFINE q == file[f]
             u == [q EXCEPT ![kind] = q[kind] + 1]
  <2>1. u \in FileState /\ Tree(u) = Tree(q) + 1
    BY <1>2, AddOne
  <2>2. file'[f].clean = u.clean /\ file'[f].dirty = u.dirty /\ file'[f].ahead = u.ahead
    <3>1. CASE file' = [file EXCEPT ![f][kind] = @ + 1, ![f].lock = FALSE, ![f].tries = NULL]
      <4>1. CASE kind = "clean"
        BY <1>2, <3>1, <4>1 DEF FileState
      <4>2. CASE kind = "dirty"
        BY <1>2, <3>1, <4>2 DEF FileState
      <4>3. CASE kind = "ahead"
        BY <1>2, <3>1, <4>3 DEF FileState
      <4> QED
        BY <4>1, <4>2, <4>3
    <3>2. CASE file' = [file EXCEPT ![f][kind] = @ + 1, ![f].lock = FALSE, ![f].late = NULL]
      <4>1. CASE kind = "clean"
        BY <1>2, <3>2, <4>1 DEF FileState
      <4>2. CASE kind = "dirty"
        BY <1>2, <3>2, <4>2 DEF FileState
      <4>3. CASE kind = "ahead"
        BY <1>2, <3>2, <4>3 DEF FileState
      <4> QED
        BY <4>1, <4>2, <4>3
    <3> QED
      BY <1>4, <3>1, <3>2
  <2> QED
    BY <2>1, <2>2 DEF Tree
<1>7. Tree(file'[f]) # 0
  BY <1>2, <1>6
<1> QED
  BY <1>1, <1>3, <1>5, <1>7, UserBalance

LEMMA ReadFreeBalance ==
    ASSUME BalanceInv, TypeOK', NEW f \in Files, NEW kind \in {"clean", "dirty"}, ReadFree(f, kind)
    PROVE  ListBalanced'
<1>1. Running /\ caches' = caches
  BY DEF ReadFree, LockFree, Elsewhere
<1>2. /\ file \in [Files -> FileState] /\ file[f] \in FileState
      /\ Buffers(f) = Tree(file[f]) /\ Buffers(f) \in Nat
  BY <1>1, BalanceStart
<1>3. \/ Tree(file[f]) = 1 /\ ring' = Append(ring, Msg("remove", f))
      \/ Tree(file[f]) # 1 /\ ring' = ring
  BY <1>2 DEF ReadFree, Send
<1>4. PICK p : file' = [file EXCEPT ![f].prio = p, ![f][kind] = @ - 1]
  BY DEF ReadFree
<1>5. \A g \in Files \ {f} : file'[g] = file[g]
  BY <1>2, <1>4
<1>6. Tree(file'[f]) = Tree(file[f]) - 1 /\ Tree(file[f]) > 0
  <2>1. CASE kind = "clean"
    BY <1>2, <1>4, <2>1 DEF FileState, Tree, ReadFree
  <2>2. CASE kind = "dirty"
    BY <1>2, <1>4, <2>2 DEF FileState, Tree, ReadFree
  <2> QED
    BY <2>1, <2>2
<1>7. CASE Tree(file[f]) = 1
  BY <1>1, <1>3, <1>5, <1>6, <1>7, UserBalance
<1>8. CASE Tree(file[f]) # 1
  <2>1. Tree(file'[f]) # 0 /\ Tree(file[f]) # 0
    BY <1>2, <1>6, <1>8
  <2> QED
    BY <1>1, <1>3, <1>5, <1>8, <2>1, UserBalance
<1> QED
  BY <1>7, <1>8

LEMMA FileFreeBalance ==
    ASSUME BalanceInv, TypeOK', NEW f \in Files, FileFree(f)
    PROVE  ListBalanced'
<1> SUFFICES ASSUME Running' PROVE ListBalanced'
  BY DEF ListBalanced
<1>1. Running /\ caches' = caches
  BY DEF FileFree, LockFree, Elsewhere
<1>2. /\ file \in [Files -> FileState] /\ file[f] \in FileState
      /\ Buffers(f) = Tree(file[f]) /\ Buffers(f) \in Nat
  BY <1>1, BalanceStart
<1>3. \A g \in Files \ {f} : file'[g] = file[g]
  BY <1>2 DEF FileFree
<1>4. CASE FreedAtOnce(f)
  <2>1. ring' = ring /\ file'[f] = NoFile /\ Tree(file[f]) = 0
    BY <1>2, <1>4 DEF FileFree, FreedAtOnce
  <2> QED
    BY <1>1, <1>3, <2>1, NoFileState, UserBalance
<1>5. CASE ~FreedAtOnce(f)
  <2>1. /\ ring' = Append(ring, Msg("free", f)) /\ Tree(file[f]) # 0
        /\ file' = [file EXCEPT ![f].clean = 0, ![f].life = "freeing"]
        /\ ~(Buffers(f) > file[f].clean)
    BY <1>2, <1>5 DEF FileFree, FreedAtOnce, Send, Running
  <2>2. Tree(file'[f]) = Tree(file[f]) - file[f].clean /\ Tree(file[f]) >= file[f].clean
        /\ file[f].clean \in Nat
    BY <1>2, <2>1 DEF FileState, Tree
  <2>3. Tree(file'[f]) = 0
    BY <1>2, <2>1, <2>2
  <2> QED
    BY <1>1, <1>3, <2>1, <2>3, UserBalance
<1> QED
  BY <1>4, <1>5

\* A message is handled: the list changes by what the message is about.
LEMMA HandleBalance ==
    ASSUME BalanceInv, TypeOK', Handle
    PROVE  ListBalanced'
<1> SUFFICES ASSUME Running' PROVE ListBalanced'
  BY DEF ListBalanced
<1>1. Running
  BY DEF Handle, Start, Stop, AddFile, RemoveFile, FreeFile, Received
<1>2. /\ TypeOK /\ HeldInv /\ ring \in Seq(Message) /\ caches \in Seq(Files)
      /\ file \in [Files -> FileState] /\ \A f \in Files : file[f] \in FileState
      /\ \A f \in Files : Balance(ring, caches, file, f)
  BY <1>1, BalanceStart
<1>3. SUFFICES ASSUME NEW g \in Files PROVE Balance(ring', caches', file', g)
  BY BalanceIsNext
<1>4. /\ Times(caches, g) + AddsIn(ring, g) = DropsIn(ring, g) + Due(file[g])
      /\ AddsIn(ring, g) \in Nat /\ DropsIn(ring, g) \in Nat /\ Times(caches, g) \in Nat
      /\ Due(file[g]) \in {0, 1} /\ (Due(file[g]) = 0 <=> Tree(file[g]) = 0)
  BY <1>2, CountsIn DEF Balance
<1>5. CASE Start \/ Stop
  <2>1. PICK i \in Heads("start") \cup Heads("stop") :
          Received(i) /\ UNCHANGED <<file, caches>>
    BY <1>5 DEF Start, Stop
  <2>2. i \in DOMAIN ring /\ ring[i].fn \in {"start", "stop"} /\ ring' = Without(ring, i)
    BY <2>1 DEF Heads, Received
  <2>3. AddsIn(ring', g) = AddsIn(ring, g) /\ DropsIn(ring', g) = DropsIn(ring, g)
    BY <1>2, <1>4, <2>2, TakenCounts
  <2> QED
    BY <1>4, <2>1, <2>3 DEF Balance
<1>6. CASE AddFile
  <2>1. PICK i \in Heads("add") :
          Received(i) /\ caches' = Append(caches, ring[i].file) /\ file' = file
    BY <1>6 DEF AddFile
  <2>2. /\ i \in DOMAIN ring /\ ring[i].fn = "add" /\ ring' = Without(ring, i)
        /\ ring[i].file \in Files
    BY <1>2, <2>1, MessageFile DEF Heads, Received
  <2>3. /\ AddsIn(ring', g) = AddsIn(ring, g) - (IF ring[i].file = g THEN 1 ELSE 0)
        /\ DropsIn(ring', g) = DropsIn(ring, g)
    BY <1>2, <1>4, <2>2, TakenCounts
  <2>4. Times(caches', g) = Times(caches, g) + (IF g = ring[i].file THEN 1 ELSE 0)
    BY <1>2, <2>1, <2>2, AppendTimes
  <2> QED
    BY <1>4, <2>1, <2>3, <2>4 DEF Balance
<1>7. CASE RemoveFile \/ FreeFile
  <2>1. PICK i \in Heads("remove") \cup Heads("free") :
          /\ Received(i) /\ Unlist(ring[i].file)
          /\ \/ file' = file /\ ring[i].fn = "remove"
             \/ file' = [file EXCEPT ![ring[i].file] = NoFile] /\ ring[i].fn = "free"
    BY <1>7 DEF RemoveFile, FreeFile, Heads
  <2>2. /\ i \in DOMAIN ring /\ ring[i].fn \in {"remove", "free"} /\ ring' = Without(ring, i)
        /\ ring[i].file \in Files
    BY <1>2, <2>1, MessageFile DEF Heads, Received
  <2>3. /\ AddsIn(ring', g) = AddsIn(ring, g)
        /\ DropsIn(ring', g) = DropsIn(ring, g) - (IF ring[i].file = g THEN 1 ELSE 0)
    BY <1>2, <1>4, <2>2, TakenCounts
  <2>4. caches' = Remove(caches, ring[i].file) /\ Places(caches, ring[i].file) # {}
    BY <2>1 DEF Unlist, Listed, Running
  <2>5. Times(caches', g) = Times(caches, g) - (IF g = ring[i].file THEN 1 ELSE 0)
    BY <1>2, <2>4, RemoveTimes
  <2>6. Due(file'[g]) = Due(file[g])
    <3>1. CASE file' = file
      BY <3>1
    <3>2. CASE file' = [file EXCEPT ![ring[i].file] = NoFile] /\ ring[i].fn = "free"
      <4>1. ring[i].file = g => Tree(file[g]) = 0
        <5>1. ring[i].file = g => Taken(g) = 0
          BY <1>2, <2>2, <3>2 DEF HeldInv
        <5>2. Taken(g) = Held(file, g) /\ Tree(file[g]) <= Held(file, g) /\ Tree(file[g]) \in Nat
          BY <1>2, Tally, WeightType DEF Held
        <5> QED
          BY <5>1, <5>2
      <4>2. file'[g] = IF ring[i].file = g THEN NoFile ELSE file[g]
        BY <1>2, <2>2, <3>2
      <4> QED
        BY <1>4, <4>1, <4>2, NoFileState DEF Due
    <3> QED
      BY <2>1, <3>1, <3>2
  <2> QED
    BY <1>4, <2>3, <2>5, <2>6 DEF Balance
<1> QED
  BY <1>5, <1>6, <1>7 DEF Handle

LEMMA PollBalance ==
    ASSUME BalanceInv, TypeOK', Poll
    PROVE  ListBalanced'
<1>1. Running /\ ring' = ring
  BY DEF Poll
<1>2. /\ TypeOK /\ ring \in Seq(Message) /\ caches \in Seq(Files)
      /\ \A f \in Files : file[f] \in FileState /\ Balance(ring, caches, file, f)
  BY <1>1, BalanceStart
<1>3. ASSUME NEW f \in Files PROVE Balance(ring', caches', file', f)
  <2>1. /\ Times(caches, f) + AddsIn(ring, f) = DropsIn(ring, f) + Due(file[f])
        /\ AddsIn(ring, f) \in Nat /\ DropsIn(ring, f) \in Nat /\ Times(caches, f) \in Nat
        /\ Due(file[f]) \in {0, 1}
    BY <1>2, CountsIn DEF Balance
  <2>2. /\ Times(caches', f) + Due(file[f]) = Times(caches, f) + Due(file'[f])
        /\ caches' \in Seq(Files) /\ file'[f] \in FileState
    BY <1>2, PollFiles DEF Due, Buffers, Tree
  <2>3. Times(caches', f) \in Nat /\ Due(file'[f]) \in {0, 1}
    BY <1>2, <2>2, CountsIn
  <2> QED
    BY <1>1, <2>1, <2>2, <2>3 DEF Balance
<1> QED
  BY <1>3, BalanceIsNext

\* The messages of the file systems are about no file.
LEMMA FsBalance ==
    ASSUME BalanceInv, TypeOK', NEW s \in FileSystems, FsStep(s)
    PROVE  ListBalanced'
<1>0. TypeOK
  BY DEF BalanceInv, TallyInv
<1>1. /\ Running /\ file' = file /\ caches' = caches /\ NewThread \in {0, 1}
      /\ \/ ring' = ring
         \/ ring' = Append(ring, [fn |-> "start", file |-> NULL, th |-> NewThread])
         \/ ring' = Append(ring, [fn |-> "stop", file |-> NULL, th |-> th])
  BY <1>0, FsRing
<1>2. /\ ring \in Seq(Message) /\ th \in {0, 1}
      /\ \A f \in Files : Balance(ring, caches, file, f)
  BY <1>0, <1>1, BalanceStart DEF TypeOK
<1>3. PICK m \in Message : m.fn \in {"start", "stop"} /\ (ring' = ring \/ ring' = Append(ring, m))
  <2>1. /\ [fn |-> "start", file |-> NULL, th |-> NewThread] \in Message
        /\ [fn |-> "stop", file |-> NULL, th |-> th] \in Message
    BY <1>1, <1>2 DEF Message
  <2> QED
    BY <1>1, <2>1
<1>4. ASSUME NEW f \in Files PROVE Balance(ring', caches', file', f)
  <2>1. AddsIn(ring, f) \in Nat /\ DropsIn(ring, f) \in Nat
    BY <1>2, AtFinite DEF AddsIn, DropsIn
  <2>2. AddsIn(ring', f) = AddsIn(ring, f) /\ DropsIn(ring', f) = DropsIn(ring, f)
    <3>1. CASE ring' = ring
      BY <3>1
    <3>2. CASE ring' = Append(ring, m)
      <4>1. /\ AddsIn(Append(ring, m), f) =
                 AddsIn(ring, f) + (IF m.fn = "add" /\ m.file = f THEN 1 ELSE 0)
            /\ DropsIn(Append(ring, m), f) =
                 DropsIn(ring, f) + (IF m.fn \in {"remove", "free"} /\ m.file = f THEN 1 ELSE 0)
        BY <1>2, SentCounts
      <4> QED
        BY <1>3, <2>1, <3>2, <4>1
    <3> QED
      BY <1>3, <3>1, <3>2
  <2> QED
    BY <1>1, <1>2, <2>2 DEF Balance
<1> QED
  BY <1>4, BalanceIsNext

LEMMA InitBalance == ASSUME Init PROVE ListBalanced
<1>1. TypeOK
  BY InitTally DEF TallyInv
<1>2. ASSUME NEW f \in Files PROVE Balance(ring, caches, file, f)
  <2>1. ring = <<>> /\ caches = <<>> /\ file[f] = NoFile
    BY DEF Init
  <2>2. Times(caches, f) = 0 /\ AddsIn(ring, f) = 0 /\ DropsIn(ring, f) = 0
    BY <2>1, FS_EmptySet DEF Times, Places, AddsIn, DropsIn, At
  <2>3. Due(file[f]) = 0
    BY <2>1, NoFileState DEF Due
  <2> QED
    BY <2>2, <2>3 DEF Balance
<1> QED
  BY <1>1, <1>2, BalanceIs

LEMMA StepBalance ==
    ASSUME BalanceInv, [Next]_vars
    PROVE  BalanceInv'
<1>1. TallyInv' /\ TypeOK'
  <2>1. TallyInv'
    BY StepTally DEF BalanceInv
  <2> QED
    BY <2>1 DEF TallyInv
<1> SUFFICES ListBalanced'
  BY <1>1 DEF BalanceInv
<1>2. ASSUME NEW s \in FileSystems, FsStep(s) PROVE ListBalanced'
  BY <1>1, <1>2, FsBalance
<1>3. CASE SetSizeStore \/ (\E n \in Sizes : SetSizeCheck(n)) \/ UNCHANGED vars
  <2>1. UNCHANGED <<file, caches, ring, ub>>
    BY <1>3 DEF SetSizeStore, SetSizeCheck, vars
  <2>2. /\ Running' = Running
        /\ \A f \in Files : /\ Adds(f)' = Adds(f) /\ Drops(f)' = Drops(f)
                             /\ Buffers(f)' = Buffers(f)
                             /\ Places(caches', f) = Places(caches, f)
    BY <2>1 DEF Running, Adds, Drops, Buffers, Places
  <2>3. ListBalanced
    BY DEF BalanceInv
  <2> QED
    BY <2>2, <2>3 DEF ListBalanced
<1>4. ASSUME NEW f \in Files, FileStep(f) PROVE ListBalanced'
  <2>1. CASE Overtaken(f)
    BY <2>1 DEF Overtaken, ListBalanced, Running
  <2> QED
    BY <1>1, <1>4, <2>1, QuietBalance, InsertBalance, ReadFreeBalance, FileFreeBalance
    DEF FileStep, Inserting
<1>5. CASE Handle
  BY <1>1, <1>5, HandleBalance
<1>6. CASE Poll
  BY <1>1, <1>6, PollBalance
<1> QED
  BY <1>2, <1>3, <1>4, <1>5, <1>6 DEF Next

\* However the steps of the users, with the file's lock or without it, the messages
\* and the poller interleave: as long as the program is defined, the list and the
\* messages under way together count a file once if it has buffers, and not at all if
\* it has none.  No file whose buffers could be reclaimed is forgotten, and when no
\* message is under way the list is exactly the files with buffers.
THEOREM ListComesOutRight == Spec => []ListBalanced
<1>1. Init => BalanceInv
  BY InitTally, InitBalance DEF BalanceInv
<1>2. BalanceInv /\ [Next]_vars => BalanceInv'
  BY StepBalance
<1>3. BalanceInv => ListBalanced
  BY DEF BalanceInv
<1> QED
  BY <1>1, <1>2, <1>3, PTL DEF Spec

-----------------------------------------------------------------------------
(* What makes the program undefined.                                         *)

\* The messages of a ring q about file f.
About(q, f) == {i \in DOMAIN q : q[i].fn \in {"add", "remove", "free"} /\ q[i].file = f}

\* They are for one thread, and the one that frees the file is the last.
OneThread(q, f) == \A i, k \in About(q, f) : q[i].th = q[k].th /\ (q[i].fn = "free" => k <= i)

\* They add and remove the file by turns: they start from a list that has it n times,
\* and end with the file in the list if d = 1.
Order(q, f, n, d) ==
    \A i \in About(q, f) :
      /\ (\A k \in About(q, f) : i <= k) => (q[i].fn = "add" <=> n = 0)
      /\ (\A k \in About(q, f) : k <= i) => (q[i].fn = "add" <=> d = 1)
      /\ \A k \in About(q, f) :
           i < k /\ (\A j \in About(q, f) : j <= i \/ k <= j)
             => (q[i].fn = "add" <=> q[k].fn # "add")

\* The next one takes the file out of a list that it is not in.
Doomed(q, f, n) ==
    n = 0 /\ \E i \in About(q, f) : q[i].fn # "add" /\ \A k \in About(q, f) : i <= k

FileInv(f) ==
    /\ Times(caches, f) <= 1
    /\ file[f].life = "closed" => file[f].dirty = 0
    /\ OneThread(ring, f)
    /\ file[f].life \in {"open", "closed"} => \A i \in About(ring, f) : ring[i].th = th
    /\ file[f].life = "none" /\ "free" \notin raced => About(ring, f) = {}
    /\ \/ Order(ring, f, Times(caches, f), Due(file[f]))
       \/ "poll" \in raced /\ Doomed(ring, f, Times(caches, f))

\* The pool is started by the first message and stopped by the last; there is none
\* only before it is started and after it is stopped.
StartInv ==
    /\ \A i \in DOMAIN ring : /\ ring[i].th = th
                              /\ ring[i].fn = "start" => i = 1
                              /\ ring[i].fn = "stop" => i = Len(ring) /\ NoFs
    /\ NoFs => ring = <<>> \/ ring[Len(ring)].fn = "stop"
    /\ ring # <<>> => (ring[1].fn = "start" <=> pool = NULL)
    /\ ring = <<>> => (NoFs <=> pool = NULL)

\* Of each part it is said which order keeps it from holding.
CauseInv ==
    /\ BalanceInv /\ Explained
    /\ "size" \notin raced /\ pool # NULL => made = size
    /\ Running => \A f \in Files : FileInv(f)
    /\ Running /\ "reload" \notin raced => StartInv

-----------------------------------------------------------------------------
(* The messages about a file.                                                *)

LEMMA AboutAppend ==
    ASSUME NEW S, NEW rg \in Seq(S), NEW m, NEW f
    PROVE  /\ DOMAIN Append(rg, m) = 1 .. Len(rg) + 1 /\ Len(Append(rg, m)) = Len(rg) + 1
           /\ DOMAIN rg = 1 .. Len(rg) /\ Len(rg) \in Nat
           /\ \A i \in 1 .. Len(rg) : Append(rg, m)[i] = rg[i]
           /\ Append(rg, m)[Len(rg) + 1] = m
           /\ \A i : i \in About(Append(rg, m), f) <=>
                \/ i \in About(rg, f)
                \/ i = Len(rg) + 1 /\ m.fn \in {"add", "remove", "free"} /\ m.file = f
<1> DEFINE new == Append(rg, m)
<1>1. /\ DOMAIN new = 1 .. Len(rg) + 1 /\ Len(new) = Len(rg) + 1
      /\ DOMAIN rg = 1 .. Len(rg) /\ Len(rg) \in Nat
      /\ \A i \in 1 .. Len(rg) : new[i] = rg[i]
      /\ new[Len(rg) + 1] = m
  OBVIOUS
<1> HIDE DEF new
<1>2. \A i \in 1 .. Len(rg) + 1 : i \in 1 .. Len(rg) \/ i = Len(rg) + 1
  BY <1>1
<1>3. ~(Len(rg) + 1 \in 1 .. Len(rg))
  BY <1>1
<1>4. \A i : i \in About(new, f) <=>
        \/ i \in About(rg, f)
        \/ i = Len(rg) + 1 /\ m.fn \in {"add", "remove", "free"} /\ m.file = f
  BY <1>1, <1>2, <1>3 DEF About
<1> QED
  BY <1>1, <1>4 DEF new

\* A message about something else.
LEMMA OrderOther ==
    ASSUME NEW S, NEW q \in Seq(S), NEW m, NEW f, NEW n, NEW d,
           ~(m.fn \in {"add", "remove", "free"} /\ m.file = f)
    PROVE  /\ About(Append(q, m), f) = About(q, f)
           /\ \A i \in About(q, f) : Append(q, m)[i] = q[i]
           /\ OneThread(q, f) => OneThread(Append(q, m), f)
           /\ Order(q, f, n, d) => Order(Append(q, m), f, n, d)
           /\ Doomed(q, f, n) => Doomed(Append(q, m), f, n)
<1> DEFINE new == Append(q, m)
<1>1. About(new, f) = About(q, f) /\ \A i \in About(q, f) : new[i] = q[i]
  BY AboutAppend DEF About
<1> HIDE DEF new
<1>2. OneThread(q, f) => OneThread(new, f)
  BY <1>1 DEF OneThread
<1>3. Order(q, f, n, d) => Order(new, f, n, d)
  BY <1>1 DEF Order
<1>4. Doomed(q, f, n) => Doomed(new, f, n)
  BY <1>1 DEF Doomed
<1> QED
  BY <1>1, <1>2, <1>3, <1>4 DEF new

\* A message about the file.
LEMMA OrderMine ==
    ASSUME NEW S, NEW q \in Seq(S), NEW m, NEW f, NEW n,
           m.fn \in {"add", "remove", "free"} /\ m.file = f
    PROVE  /\ \A i \in About(Append(q, m), f) :
                \/ i \in About(q, f) /\ Append(q, m)[i] = q[i]
                \/ i = Len(q) + 1 /\ Append(q, m)[i] = m
           /\ OneThread(q, f) /\ (\A i \in About(q, f) : q[i].th = m.th /\ q[i].fn # "free")
                => OneThread(Append(q, m), f)
           /\ Doomed(q, f, n) => Doomed(Append(q, m), f, n)
<1> DEFINE new == Append(q, m)
           last == Len(q) + 1
<1>1. /\ Len(q) \in Nat /\ \A i \in About(q, f) : i \in 1 .. Len(q) /\ new[i] = q[i]
      /\ new[last] = m
      /\ \A i : i \in About(new, f) <=> i \in About(q, f) \/ i = last
  BY AboutAppend DEF About
<1>2. last \in Nat /\ \A i \in About(q, f) : i < last /\ i \in Nat
  BY <1>1
<1> HIDE DEF new, last
<1>3. ASSUME OneThread(q, f), \A i \in About(q, f) : q[i].th = m.th /\ q[i].fn # "free"
      PROVE  OneThread(new, f)
  <2> SUFFICES ASSUME NEW i \in About(new, f), NEW k \in About(new, f)
               PROVE  new[i].th = new[k].th /\ (new[i].fn = "free" => k <= i)
    BY DEF OneThread
  <2>1. CASE i \in About(q, f)
    BY <1>1, <1>3, <2>1 DEF OneThread
  <2>2. CASE i = last
    BY <1>1, <1>2, <1>3, <2>2 DEF OneThread
  <2> QED
    BY <1>1, <2>1, <2>2
<1>4. ASSUME Doomed(q, f, n) PROVE Doomed(new, f, n)
  <2>1. PICK i \in About(q, f) : q[i].fn # "add" /\ \A k \in About(q, f) : i <= k
    BY <1>4 DEF Doomed
  <2>2. i \in About(new, f) /\ new[i].fn # "add" /\ \A k \in About(new, f) : i <= k
    BY <1>1, <1>2, <2>1
  <2> QED
    BY <1>4, <2>2 DEF Doomed
<1> QED
  BY <1>1, <1>3, <1>4 DEF new, last

\* The message comes in its turn.
LEMMA OrderTurn ==
    ASSUME NEW S, NEW q \in Seq(S), NEW m, NEW f, NEW n, NEW d \in {0, 1}, NEW e \in {0, 1},
           m.fn \in {"add", "remove", "free"}, m.file = f, m.fn = "add" <=> d = 0, e # d,
           Order(q, f, n, d), About(q, f) = {} => (n = 0 <=> d = 0)
    PROVE  Order(Append(q, m), f, n, e)
<1> DEFINE new == Append(q, m)
           last == Len(q) + 1
<1>1. /\ Len(q) \in Nat /\ \A i \in About(q, f) : i \in 1 .. Len(q) /\ new[i] = q[i]
      /\ new[last] = m
      /\ \A i : i \in About(new, f) <=> i \in About(q, f) \/ i = last
  BY AboutAppend DEF About
<1>2. last \in Nat /\ \A i \in About(q, f) : i < last /\ i \in Nat
  BY <1>1
<1> HIDE DEF new, last
<1> SUFFICES ASSUME NEW i \in About(new, f)
    PROVE /\ (\A k \in About(new, f) : i <= k) => (new[i].fn = "add" <=> n = 0)
          /\ (\A k \in About(new, f) : k <= i) => (new[i].fn = "add" <=> e = 1)
          /\ \A k \in About(new, f) :
               i < k /\ (\A j \in About(new, f) : j <= i \/ k <= j)
                 => (new[i].fn = "add" <=> new[k].fn # "add")
  BY DEF Order, new
<1>3. CASE i = last
  <2>0. /\ \A k \in About(q, f) : ~(last <= k) /\ ~(last < k)
        /\ ~(last < last) /\ About(q, f) \subseteq About(new, f)
    BY <1>1, <1>2
  <2>1. (\A k \in About(new, f) : i <= k) => About(q, f) = {}
    BY <1>3, <2>0
  <2>2. \A k \in About(new, f) : ~(i < k)
    <3> TAKE k \in About(new, f)
    <3>1. k \in About(q, f) \/ k = last
      BY <1>1
    <3> QED
      BY <1>3, <2>0, <3>1
  <2>3. new[i].fn = "add" <=> d = 0
    BY <1>1, <1>3
  <2>4. d = 0 <=> e = 1
    OBVIOUS
  <2> QED
    BY <2>1, <2>2, <2>3, <2>4
<1>4. CASE i \in About(q, f)
  <2>1. new[i] = q[i] /\ last \in About(new, f) /\ ~(last <= i)
    BY <1>1, <1>2, <1>4
  <2>2. (\A k \in About(new, f) : i <= k) => (new[i].fn = "add" <=> n = 0)
    BY <1>1, <1>4, <2>1 DEF Order
  <2>3. ASSUME NEW k \in About(new, f), i < k, \A j \in About(new, f) : j <= i \/ k <= j
        PROVE  new[i].fn = "add" <=> new[k].fn # "add"
    <3>1. CASE k \in About(q, f)
      BY <1>1, <1>4, <2>1, <2>3, <3>1 DEF Order
    <3>2. CASE k = last
      <4>1. \A j \in About(q, f) : j <= i
        BY <1>1, <1>2, <2>3, <3>2
      <4>2. q[i].fn = "add" <=> d = 1
        BY <1>4, <4>1 DEF Order
      <4>3. new[k].fn = "add" <=> d = 0
        BY <1>1, <3>2
      <4>4. d = 0 <=> ~(d = 1)
        OBVIOUS
      <4> QED
        BY <2>1, <4>2, <4>3, <4>4
    <3> QED
      BY <1>1, <3>1, <3>2
  <2> QED
    BY <2>1, <2>2, <2>3
<1> QED
  BY <1>1, <1>3, <1>4

\* Where message j of the ring without message i was.
Was(i, j) == IF j < i THEN j ELSE j + 1

LEMMA AboutWithout ==
    ASSUME NEW S, NEW q \in Seq(S), NEW i \in DOMAIN q, NEW f
    PROVE  /\ \A j \in About(Without(q, i), f) :
                Was(i, j) \in About(q, f) /\ Was(i, j) # i /\ Without(q, i)[j] = q[Was(i, j)]
           /\ \A k \in About(q, f) : k # i => \E j \in About(Without(q, i), f) : Was(i, j) = k
           /\ \A j, k \in About(Without(q, i), f) :
                (j < k <=> Was(i, j) < Was(i, k)) /\ (j <= k <=> Was(i, j) <= Was(i, k))
           /\ About(q, f) \subseteq Nat
<1> DEFINE new == Without(q, i)
<1>1. /\ new \in Seq(S) /\ DOMAIN new = 1 .. Len(q) - 1 /\ i \in 1 .. Len(q) /\ Len(q) \in Nat
      /\ DOMAIN q = 1 .. Len(q)
  BY WithoutType
<1>2. \A j \in DOMAIN new : Was(i, j) \in DOMAIN q \ {i} /\ new[j] = q[Was(i, j)] /\ j \in Nat
  BY StaysInRing DEF Was
<1>3. \A k \in DOMAIN q : k # i => \E j \in DOMAIN new : Was(i, j) = k
  <2> SUFFICES ASSUME NEW k \in DOMAIN q, k # i PROVE \E j \in DOMAIN new : Was(i, j) = k
    OBVIOUS
  <2> DEFINE j == IF k < i THEN k ELSE k - 1
  <2>1. j \in DOMAIN new /\ Was(i, j) = k
    BY <1>1 DEF Was
  <2> QED
    BY <2>1
<1>4. \A j, k \in DOMAIN new : (j < k <=> Was(i, j) < Was(i, k)) /\ (j <= k <=> Was(i, j) <= Was(i, k))
  BY <1>1 DEF Was
<1> HIDE DEF new
<1>5. About(q, f) \subseteq DOMAIN q /\ About(new, f) \subseteq DOMAIN new
  BY DEF About
<1>6. \A j \in DOMAIN new : j \in About(new, f) <=> Was(i, j) \in About(q, f)
  BY <1>2 DEF About
<1>7. \A k \in About(q, f) : k # i => \E j \in About(new, f) : Was(i, j) = k
  BY <1>3, <1>5, <1>6
<1>8. \A j \in About(new, f) :
        Was(i, j) \in About(q, f) /\ Was(i, j) # i /\ new[j] = q[Was(i, j)]
  BY <1>2, <1>5, <1>6
<1>9. \A j, k \in About(new, f) :
        (j < k <=> Was(i, j) < Was(i, k)) /\ (j <= k <=> Was(i, j) <= Was(i, k))
  BY <1>4, <1>5
<1>10. About(q, f) \subseteq Nat
  BY <1>1, <1>5
<1> QED
  BY <1>7, <1>8, <1>9, <1>10 DEF new

\* The first message about the file is handled, or one about something else.
LEMMA OrderTake ==
    ASSUME NEW S, NEW q \in Seq(S), NEW i \in DOMAIN q, NEW f, NEW n, NEW d, NEW u,
           i \in About(q, f) => \A k \in About(q, f) : i <= k,
           u = 0 <=> IF i \in About(q, f) THEN q[i].fn # "add" ELSE n = 0
    PROVE  /\ OneThread(q, f) => OneThread(Without(q, i), f)
           /\ Order(q, f, n, d) => Order(Without(q, i), f, u, d)
           /\ Doomed(q, f, n) /\ i \notin About(q, f) => Doomed(Without(q, i), f, u)
<1> DEFINE new == Without(q, i)
           A == About(q, f)
           B == About(new, f)
<1>1. /\ \A j \in B : Was(i, j) \in A /\ Was(i, j) # i /\ new[j] = q[Was(i, j)]
      /\ \A k \in A : k # i => \E j \in B : Was(i, j) = k
      /\ \A j, k \in B : (j < k <=> Was(i, j) < Was(i, k)) /\ (j <= k <=> Was(i, j) <= Was(i, k))
      /\ A \subseteq Nat
  BY AboutWithout
<1>2. /\ i \in A => \A k \in A : i <= k
      /\ u = 0 <=> IF i \in A THEN q[i].fn # "add" ELSE n = 0
  OBVIOUS
<1>3. i \in Nat
  OBVIOUS
<1> HIDE DEF new, A, B
<1>4. ASSUME OneThread(q, f) PROVE OneThread(new, f)
  BY <1>1, <1>4 DEF OneThread, A, B
<1>5. ASSUME Order(q, f, n, d) PROVE Order(new, f, u, d)
  <2>0. \A x \in A :
          /\ (\A k \in A : x <= k) => (q[x].fn = "add" <=> n = 0)
          /\ (\A k \in A : k <= x) => (q[x].fn = "add" <=> d = 1)
          /\ \A k \in A : x < k /\ (\A y \in A : y <= x \/ k <= y)
               => (q[x].fn = "add" <=> q[k].fn # "add")
    BY <1>5 DEF Order, A
  <2> SUFFICES ASSUME NEW j \in B
      PROVE /\ (\A k \in B : j <= k) => (new[j].fn = "add" <=> u = 0)
            /\ (\A k \in B : k <= j) => (new[j].fn = "add" <=> d = 1)
            /\ \A k \in B : j < k /\ (\A l \in B : l <= j \/ k <= l)
                 => (new[j].fn = "add" <=> new[k].fn # "add")
    BY DEF Order, B
  <2>1. Was(i, j) \in A /\ Was(i, j) # i /\ new[j] = q[Was(i, j)] /\ Was(i, j) \in Nat
    BY <1>1
  <2>2. ASSUME \A k \in B : j <= k PROVE new[j].fn = "add" <=> u = 0
    <3>1. \A k \in A : k # i => Was(i, j) <= k
      BY <1>1, <2>2
    <3>2. CASE i \in A
      <4>1. i < Was(i, j) /\ \A y \in A : y <= i \/ Was(i, j) <= y
        BY <1>1, <1>2, <1>3, <2>1, <3>1, <3>2
      <4>2. q[i].fn = "add" <=> q[Was(i, j)].fn # "add"
        BY <2>0, <2>1, <3>2, <4>1
      <4> QED
        BY <1>2, <2>1, <3>2, <4>2
    <3>3. CASE i \notin A
      <4>1. \A k \in A : Was(i, j) <= k
        BY <3>1, <3>3
      <4> QED
        BY <1>2, <2>0, <2>1, <3>3, <4>1
    <3> QED
      BY <3>2, <3>3
  <2>3. ASSUME \A k \in B : k <= j PROVE new[j].fn = "add" <=> d = 1
    <3>1. \A k \in A : k # i => k <= Was(i, j)
      BY <1>1, <2>3
    <3>2. \A k \in A : k <= Was(i, j)
      BY <1>2, <2>1, <3>1
    <3> QED
      BY <2>0, <2>1, <3>2
  <2>4. ASSUME NEW k \in B, j < k, \A l \in B : l <= j \/ k <= l
        PROVE  new[j].fn = "add" <=> new[k].fn # "add"
    <3>1. Was(i, k) \in A /\ new[k] = q[Was(i, k)] /\ Was(i, j) < Was(i, k)
      BY <1>1, <2>4
    <3>2. \A y \in A : y # i => y <= Was(i, j) \/ Was(i, k) <= y
      BY <1>1, <2>4
    <3>3. \A y \in A : y <= Was(i, j) \/ Was(i, k) <= y
      BY <1>2, <2>1, <3>2
    <3> QED
      BY <2>0, <2>1, <3>1, <3>3
  <2> QED
    BY <2>2, <2>3, <2>4
<1>6. ASSUME Doomed(q, f, n), i \notin A PROVE Doomed(new, f, u)
  <2>1. n = 0 /\ u = 0
    BY <1>2, <1>6 DEF Doomed
  <2>2. PICK x \in A : q[x].fn # "add" /\ \A k \in A : x <= k
    BY <1>6 DEF Doomed, A
  <2>3. PICK j \in B : Was(i, j) = x
    BY <1>1, <1>6, <2>2
  <2>4. new[j].fn # "add" /\ \A k \in B : j <= k
    BY <1>1, <2>2, <2>3
  <2> QED
    BY <2>1, <2>4 DEF Doomed, B
<1> QED
  BY <1>4, <1>5, <1>6 DEF new, A

-----------------------------------------------------------------------------
(* Every step keeps CauseInv.                                                *)

LEMMA CauseStart ==
    ASSUME CauseInv, Running
    PROVE  /\ TypeOK /\ HeldInv /\ ring \in Seq(Message) /\ caches \in Seq(Files)
           /\ file \in [Files -> FileState] /\ \A f \in Files : file[f] \in FileState
           /\ \A f \in Files : FileInv(f)
           /\ \A f \in Files : /\ Buffers(f) = Tree(file[f]) /\ Buffers(f) \in Nat
                               /\ Times(caches, f) \in Nat
                               /\ Listed(f) <=> Times(caches, f) # 0
                               /\ Due(file[f]) \in {0, 1}
                               /\ Due(file[f]) = 0 <=> Tree(file[f]) = 0
                               /\ About(ring, f) = {} => Times(caches, f) = Due(file[f])
<1>1. /\ TypeOK /\ HeldInv /\ ring \in Seq(Message) /\ caches \in Seq(Files)
      /\ file \in [Files -> FileState] /\ \A f \in Files : file[f] \in FileState
      /\ \A f \in Files : Balance(ring, caches, file, f)
      /\ \A f \in Files : Buffers(f) = Tree(file[f]) /\ Buffers(f) \in Nat
      /\ \A f \in Files : FileInv(f)
  BY BalanceStart DEF CauseInv
<1>2. \A f \in Files : /\ Times(caches, f) \in Nat /\ Due(file[f]) \in {0, 1}
                       /\ Due(file[f]) = 0 <=> Tree(file[f]) = 0
  BY <1>1, CountsIn
<1>3. \A f \in Files : Listed(f) <=> Times(caches, f) # 0
  BY <1>1, PlacesAt DEF Listed
<1>4. ASSUME NEW f \in Files, About(ring, f) = {} PROVE Times(caches, f) = Due(file[f])
  <2>1. At(ring, AddMsgs(f)) = {} /\ At(ring, DropMsgs(f)) = {}
    BY <1>4 DEF At, About, AddMsgs, DropMsgs
  <2>2. AddsIn(ring, f) = 0 /\ DropsIn(ring, f) = 0
    BY <2>1, FS_EmptySet DEF AddsIn, DropsIn
  <2>3. Times(caches, f) + AddsIn(ring, f) = DropsIn(ring, f) + Due(file[f])
    BY <1>1 DEF Balance
  <2>4. Times(caches, f) \in Nat /\ Due(file[f]) \in {0, 1}
    BY <1>2
  <2> QED
    BY <2>2, <2>3, <2>4
<1> QED
  BY <1>1, <1>2, <1>3, <1>4

\* A step that is not about file g, and may send a message about another.
LEMMA SameFile ==
    ASSUME CauseInv, Running, NEW g \in Files, NEW m,
           Times(caches', g) = Times(caches, g), file'[g] = file[g], raced \subseteq raced',
           \/ ring' = ring
           \/ ring' = Append(ring, m) /\ ~(m.fn \in {"add", "remove", "free"} /\ m.file = g),
           th' = th \/ file[g].life \notin {"open", "closed"}
    PROVE  FileInv(g)'
<1>1. FileInv(g) /\ ring \in Seq(Message)
  BY CauseStart
<1>2. /\ About(ring', g) = About(ring, g) /\ \A i \in About(ring, g) : ring'[i] = ring[i]
      /\ OneThread(ring, g) => OneThread(ring', g)
      /\ Order(ring, g, Times(caches, g), Due(file[g]))
           => Order(ring', g, Times(caches, g), Due(file[g]))
      /\ Doomed(ring, g, Times(caches, g)) => Doomed(ring', g, Times(caches, g))
  <2>1. CASE ring' = ring
    BY <2>1
  <2>2. CASE ring' = Append(ring, m) /\ ~(m.fn \in {"add", "remove", "free"} /\ m.file = g)
    BY <1>1, <2>2, OrderOther
  <2> QED
    BY <2>1, <2>2
<1> QED
  BY <1>1, <1>2 DEF FileInv

\* What the users do to file f: the buffers stay, or the first one comes or the last
\* one goes, and the pool thread is told.
UserStep(f) ==
    /\ \A g \in Files \ {f} : file'[g] = file[g]
    /\ UNCHANGED <<fs, caches, th>> /\ raced \subseteq raced'
    /\ file'[f].life = "closed" => file'[f].dirty = 0
    /\ \/ /\ ring' = ring /\ (Tree(file'[f]) = 0 <=> Tree(file[f]) = 0)
          /\ file'[f].life \in {"open", "closed"}
               => file[f].life \in {"open", "closed"} \/ About(ring, f) = {}
          /\ file'[f].life = "none" /\ "free" \notin raced'
               => file[f].life = "none" \/ About(ring, f) = {}
       \/ \E fn \in {"add", "remove", "free"} :
            /\ ring' = Append(ring, Msg(fn, f))
            /\ fn = "add" <=> Tree(file[f]) = 0
            /\ Tree(file'[f]) = 0 <=> Tree(file[f]) # 0
            /\ file[f].life \in {"open", "closed"} /\ file'[f].life # "none"

LEMMA UserFiles ==
    ASSUME CauseInv, Running, TypeOK', NEW f \in Files, UserStep(f)
    PROVE  \A g \in Files : FileInv(g)'
<1>1. /\ TypeOK /\ HeldInv /\ ring \in Seq(Message) /\ FileInv(f) /\ file[f] \in FileState
      /\ Times(caches, f) \in Nat /\ Due(file[f]) \in {0, 1}
      /\ Due(file[f]) = 0 <=> Tree(file[f]) = 0
      /\ About(ring, f) = {} => Times(caches, f) = Due(file[f])
  BY CauseStart
<1>2. file'[f] \in FileState
  <2>1. file' \in [Files -> FileState]
    BY DEF TypeOK, FileState
  <2> QED
    BY <2>1
<1>3. Due(file'[f]) \in {0, 1} /\ (Due(file'[f]) = 0 <=> Tree(file'[f]) = 0)
  BY <1>1, <1>2, CountsIn, TypeFile
<1>4. UNCHANGED <<fs, caches, th>> /\ raced \subseteq raced'
      /\ (file'[f].life = "closed" => file'[f].dirty = 0)
      /\ \A g \in Files \ {f} : file'[g] = file[g]
  BY DEF UserStep
<1>5. CASE /\ ring' = ring /\ (Tree(file'[f]) = 0 <=> Tree(file[f]) = 0)
           /\ file'[f].life \in {"open", "closed"}
                => file[f].life \in {"open", "closed"} \/ About(ring, f) = {}
           /\ file'[f].life = "none" /\ "free" \notin raced'
                => file[f].life = "none" \/ About(ring, f) = {}
  <2>1. Due(file'[f]) = Due(file[f])
    BY <1>1, <1>3, <1>5
  <2>2. FileInv(f)'
    BY <1>1, <1>4, <1>5, <2>1 DEF FileInv
  <2>3. ASSUME NEW g \in Files \ {f} PROVE FileInv(g)'
    BY <1>4, <1>5, SameFile
  <2> QED
    BY <2>2, <2>3
<1>6. ASSUME NEW fn \in {"add", "remove", "free"}, ring' = Append(ring, Msg(fn, f)),
             fn = "add" <=> Tree(file[f]) = 0, Tree(file'[f]) = 0 <=> Tree(file[f]) # 0,
             file[f].life \in {"open", "closed"}, file'[f].life # "none"
      PROVE  \A g \in Files : FileInv(g)'
  <2> DEFINE m == Msg(fn, f)
  <2>1. m.fn = fn /\ m.file = f /\ m.th = th
    BY <1>1, Sent
  <2>2. Due(file'[f]) # Due(file[f]) /\ (m.fn = "add" <=> Due(file[f]) = 0)
    BY <1>1, <1>3, <1>6, <2>1
  <2> HIDE DEF m
  <2>3. \A i \in About(ring, f) : ring[i].th = m.th /\ ring[i].fn # "free"
    BY <1>1, <1>6, <2>1 DEF FileInv, HeldInv, About
  <2>4. /\ \A i \in About(ring', f) :
             (i \in About(ring, f) /\ ring'[i] = ring[i]) \/ (i = Len(ring) + 1 /\ ring'[i] = m)
        /\ OneThread(ring', f)
        /\ Order(ring, f, Times(caches, f), Due(file[f]))
             => Order(ring', f, Times(caches, f), Due(file'[f]))
        /\ Doomed(ring, f, Times(caches, f)) => Doomed(ring', f, Times(caches, f))
    <3> DEFINE n == Times(caches, f)
               d == Due(file[f])
               e == Due(file'[f])
    <3>1. /\ d \in {0, 1} /\ e \in {0, 1} /\ e # d /\ (m.fn = "add" <=> d = 0)
          /\ OneThread(ring, f) /\ (About(ring, f) = {} => (n = 0 <=> d = 0))
          /\ ring' = Append(ring, m) /\ m.fn \in {"add", "remove", "free"} /\ m.file = f
      BY <1>1, <1>3, <1>6, <2>1, <2>2 DEF FileInv, m
    <3> HIDE DEF n, d, e
    <3>0. ring \in Seq(Message)
      BY <1>1
    <3>3. \A i \in About(ring', f) :
            (i \in About(ring, f) /\ ring'[i] = ring[i]) \/ (i = Len(ring) + 1 /\ ring'[i] = m)
      BY <3>0, <3>1, AboutAppend DEF About
    <3>4. OneThread(ring', f)
      BY <2>3, <3>0, <3>1, OrderMine
    <3>5. ASSUME Order(ring, f, n, d) PROVE Order(ring', f, n, e)
      BY <3>0, <3>1, <3>5, OrderTurn
    <3>6. Doomed(ring, f, n) => Doomed(ring', f, n)
      BY <3>0, <3>1, OrderMine
    <3>2. /\ \A i \in About(ring', f) :
               (i \in About(ring, f) /\ ring'[i] = ring[i]) \/ (i = Len(ring) + 1 /\ ring'[i] = m)
          /\ OneThread(ring', f)
          /\ Order(ring, f, n, d) => Order(ring', f, n, e)
          /\ Doomed(ring, f, n) => Doomed(ring', f, n)
      BY <3>3, <3>4, <3>5, <3>6
    <3> QED
      BY <3>2 DEF n, d, e
  <2>5. \A i \in About(ring', f) : ring'[i].th = th'
    BY <1>4, <2>1, <2>3, <2>4
  <2>6. FileInv(f)'
    BY <1>1, <1>4, <1>6, <2>4, <2>5 DEF FileInv
  <2>7. ASSUME NEW g \in Files \ {f} PROVE FileInv(g)'
    <3>1. ring' = Append(ring, m) /\ ~(m.fn \in {"add", "remove", "free"} /\ m.file = g)
      BY <1>6, <2>1 DEF m
    <3> QED
      BY <1>4, <3>1, SameFile
  <2> QED
    BY <2>6, <2>7
<1> QED
  BY <1>5, <1>6 DEF UserStep

\* Its messages come between the start of the pool and the stop.
LEMMA UserStart ==
    ASSUME TypeOK, HeldInv, StartInv, NEW f \in Files, UserStep(f), pool' = NULL <=> pool = NULL
    PROVE  StartInv'
<1>1. UNCHANGED <<fs, th>> /\ ring \in Seq(Message)
  BY DEF UserStep, TypeOK
<1>2. CASE ring' = ring
  BY <1>1, <1>2 DEF StartInv, NoFs
<1>3. ASSUME NEW fn \in {"add", "remove", "free"}, ring' = Append(ring, Msg(fn, f)),
             file[f].life \in {"open", "closed"}
      PROVE  StartInv'
  <2> DEFINE m == Msg(fn, f)
  <2>1. m.fn = fn /\ m.file = f /\ m.th = th
    BY Sent
  <2> HIDE DEF m
  <2>2. ~NoFs
    <3>1. FsOf(f) \in FileSystems /\ fs[FsOf(f)] # "none"
      BY <1>3 DEF HeldInv, Files, FsOf
    <3> QED
      BY <3>1 DEF NoFs
  <2>3. /\ DOMAIN ring' = 1 .. Len(ring) + 1 /\ Len(ring') = Len(ring) + 1
        /\ DOMAIN ring = 1 .. Len(ring) /\ Len(ring) \in Nat
        /\ \A i \in 1 .. Len(ring) : ring'[i] = ring[i]
        /\ ring'[Len(ring) + 1] = m
    BY <1>1, <1>3, AboutAppend DEF m
  <2>4. \A i \in DOMAIN ring' : i \in DOMAIN ring \/ i = Len(ring) + 1
    BY <2>3
  <2>5. \A i \in DOMAIN ring' : /\ ring'[i].th = th' /\ (ring'[i].fn = "start" => i = 1)
                                /\ ring'[i].fn # "stop"
    BY <1>1, <2>1, <2>2, <2>3, <2>4 DEF StartInv
  <2>6. ring'[1].fn = "start" <=> pool' = NULL
    <3>1. CASE ring = <<>>
      BY <2>1, <2>2, <2>3, <3>1 DEF StartInv
    <3>2. CASE ring # <<>>
      <4>1. 1 \in 1 .. Len(ring)
        BY <1>1, <2>3, <3>2
      <4> QED
        BY <2>3, <3>2, <4>1 DEF StartInv
    <3> QED
      BY <3>1, <3>2
  <2>7. ring' # <<>> /\ ~NoFs'
    BY <1>1, <2>2, <2>3 DEF NoFs
  <2> QED
    BY <2>5, <2>6, <2>7 DEF StartInv
<1> QED
  BY <1>2, <1>3 DEF UserStep

\* An order that occurred has occurred for good.
LEMMA RacedGrows == ASSUME Next PROVE raced \subseteq raced'
BY DEF Next, FsStep, Load, Unload, Unloaded, SetSizeCheck, SetSizeStore, FileStep, Inserting,
       Open, Close, SetPriority, FileFree, Insert, Access, GotBuffer, NoBuffer, Extended, LostLock,
       LateCheck, Get, LateInsert, Overtaken, StrayUnlock, ReadFree, Fill, Flushed, ReadAhead,
       Handle, Start, Stop, AddFile, RemoveFile, FreeFile, Poll, Race, Elsewhere

\* A program that is undefined takes no further step.
LEMMA StopsThere == ASSUME Next PROVE Running
BY DEF Next, FsStep, Load, Unload, Unloaded, SetSizeCheck, SetSizeStore, FileStep, Inserting,
       Open, Close, SetPriority, FileFree, Insert, Access, GotBuffer, NoBuffer, Extended, LostLock,
       LateInsert, Overtaken, StrayUnlock, ReadFree, Fill, Flushed, ReadAhead,
       Handle, Start, Stop, AddFile, RemoveFile, FreeFile, Received, Poll, LockFree

LEMMA CausesAre ==
    /\ Causes["no_pool"] = {"early", "reload"} /\ Causes["two_pools"] = {"reload"}
    /\ Causes["wrong_thread"] = {"reload"} /\ Causes["lost_buffers"] = {"size", "reload"}
    /\ Causes["freed_in_use"] = {"ahead"} /\ Causes["freed_file"] = {"free"}
    /\ Causes["not_listed"] = {"poll"} /\ Causes["tree_race"] = {"unlocked"}
BY DEF Causes

\* A step of the users, of whichever kind.
LEMMA QuietUser ==
    ASSUME CauseInv, NEW f \in Files,
           \/ Open(f) \/ Close(f) \/ SetPriority(f) \/ NoBuffer(f) \/ StrayUnlock(f)
           \/ \E writing \in BOOLEAN : Insert(f, writing) \/ Access(f, writing)
           \/ Fill(f) \/ Flushed(f) \/ ReadAhead(f)
           \/ Extended(f) \/ LostLock(f)
    PROVE  UserStep(f)
<1> USE DEF poolVars, Elsewhere
<1>1. Running /\ UNCHANGED <<fs, caches, th, ring>> /\ raced \subseteq raced'
  BY DEF Open, Close, SetPriority, NoBuffer, StrayUnlock, Insert, Access, Fill,
         Flushed, ReadAhead, LockFree, Extended, LostLock, LateCheck, Get, Race
<1>2. file \in [Files -> FileState] /\ file[f] \in FileState /\ FileInv(f)
  BY <1>1, CauseStart
<1>3. \A g \in Files \ {f} : file'[g] = file[g]
  BY <1>2 DEF Open, Close, SetPriority, NoBuffer, StrayUnlock, Insert, Access, Fill,
              Flushed, ReadAhead, Extended, LostLock, LateCheck
<1>4. file[f].life = "closed" => file[f].dirty = 0
  BY <1>2 DEF FileInv
<1>5. CASE Open(f)
  <2>1. file'[f].life = "open" /\ Tree(file'[f]) = Tree(file[f])
    BY <1>2, <1>5 DEF Open, FileState, Tree
  <2>2. file[f].life = "none" => About(ring, f) = {}
    BY <1>5 DEF Open, Pending, About
  <2>3. file[f].life \in {"none", "closed"}
    BY <1>5 DEF Open
  <2> QED
    BY <1>1, <1>3, <2>1, <2>2, <2>3 DEF UserStep
<1>6. CASE Close(f)
  <2>1. /\ file'[f].life = "closed" /\ file[f].life = "open" /\ file'[f].dirty = 0
        /\ Tree(file'[f]) = Tree(file[f])
    BY <1>2, <1>6 DEF Close, FileState, Tree
  <2> QED
    BY <1>1, <1>3, <2>1 DEF UserStep
<1>7. ASSUME file'[f].life = file[f].life, Tree(file'[f]) = Tree(file[f]),
             file[f].life = "closed" => file'[f].dirty = file[f].dirty
      PROVE  UserStep(f)
  BY <1>1, <1>3, <1>4, <1>7 DEF UserStep
<1>8. CASE SetPriority(f) \/ NoBuffer(f) \/ StrayUnlock(f)
  <2>1. /\ file'[f].life = file[f].life /\ file'[f].dirty = file[f].dirty
        /\ Tree(file'[f]) = Tree(file[f])
    BY <1>2, <1>8 DEF SetPriority, NoBuffer, StrayUnlock, FileState, Tree
  <2> QED
    BY <1>7, <2>1
<1>9. CASE \E writing \in BOOLEAN : Insert(f, writing) \/ Access(f, writing)
  <2>1. PICK p : \/ file' = [file EXCEPT ![f].prio = p, ![f].lock = TRUE, ![f].tries = 0]
                 \/ file' = [file EXCEPT ![f].prio = p]
    BY <1>9 DEF Insert, Access
  <2>2. /\ file'[f].life = file[f].life /\ file'[f].dirty = file[f].dirty
        /\ Tree(file'[f]) = Tree(file[f])
    BY <1>2, <2>1 DEF FileState, Tree
  <2> QED
    BY <1>7, <2>2
<1>10. CASE Fill(f) \/ Flushed(f) \/ ReadAhead(f)
  <2>1. file'[f].life = file[f].life /\ Tree(file'[f]) = Tree(file[f])
    BY <1>2, <1>10 DEF Fill, Flushed, ReadAhead, FileState, Tree
  <2>2. file[f].life = "closed" => file'[f].dirty = file[f].dirty
    BY <1>2, <1>4, <1>10 DEF Fill, Flushed, ReadAhead, FileState
  <2> QED
    BY <1>7, <2>1, <2>2
<1>11. CASE Extended(f) \/ LostLock(f)
  <2>1. /\ file'[f].life = file[f].life /\ file'[f].dirty = file[f].dirty
        /\ Tree(file'[f]) = Tree(file[f])
    BY <1>2, <1>11 DEF Extended, LostLock, LateCheck, FileState, Tree
  <2> QED
    BY <1>7, <2>1
<1> QED
  BY <1>5, <1>6, <1>8, <1>9, <1>10, <1>11

LEMMA InsertUser ==
    ASSUME CauseInv, NEW f \in Files, GotBuffer(f) \/ LateInsert(f)
    PROVE  UserStep(f)
<1>1. Running /\ UNCHANGED <<fs, caches, th>> /\ raced \subseteq raced'
  BY DEF GotBuffer, LateInsert, Elsewhere, Get, Race
<1>2. /\ file \in [Files -> FileState] /\ file[f] \in FileState
      /\ Buffers(f) = Tree(file[f]) /\ Buffers(f) \in Nat /\ HeldInv
  BY <1>1, CauseStart
<1>3. \/ Tree(file[f]) = 0 /\ ring' = Append(ring, Msg("add", f))
      \/ Tree(file[f]) # 0 /\ ring' = ring
  <2>1. CASE GotBuffer(f)
    BY <1>2, <2>1 DEF GotBuffer, NeedUpdate, Send
  <2>2. CASE LateInsert(f)
    BY <1>2, <2>2 DEF LateInsert, NeedUpdate, Send
  <2> QED
    BY <2>1, <2>2
<1>4. file[f].life = "open"
  BY <1>2 DEF GotBuffer, LateInsert, HeldInv
<1>5. PICK kind \in {"clean", "dirty", "ahead"} :
        \/ file' = [file EXCEPT ![f][kind] = @ + 1, ![f].lock = FALSE, ![f].tries = NULL]
        \/ file' = [file EXCEPT ![f][kind] = @ + 1, ![f].lock = FALSE, ![f].late = NULL]
  BY DEF GotBuffer, LateInsert, NewKinds
<1>6. \A g \in Files \ {f} : file'[g] = file[g]
  BY <1>2, <1>5
<1>7. Tree(file'[f]) # 0 /\ file'[f].life = "open"
  <2> DEFINE q == file[f]
             u == [q EXCEPT ![kind] = q[kind] + 1]
  <2>1. u \in FileState /\ Tree(u) = Tree(q) + 1
    BY <1>2, AddOne
  <2>2. /\ file'[f].clean = u.clean /\ file'[f].dirty = u.dirty /\ file'[f].ahead = u.ahead
        /\ file'[f].life = q.life
    <3>1. CASE file' = [file EXCEPT ![f][kind] = @ + 1, ![f].lock = FALSE, ![f].tries = NULL]
      <4>1. CASE kind = "clean"
        BY <1>2, <3>1, <4>1 DEF FileState
      <4>2. CASE kind = "dirty"
        BY <1>2, <3>1, <4>2 DEF FileState
      <4>3. CASE kind = "ahead"
        BY <1>2, <3>1, <4>3 DEF FileState
      <4> QED
        BY <4>1, <4>2, <4>3
    <3>2. CASE file' = [file EXCEPT ![f][kind] = @ + 1, ![f].lock = FALSE, ![f].late = NULL]
      <4>1. CASE kind = "clean"
        BY <1>2, <3>2, <4>1 DEF FileState
      <4>2. CASE kind = "dirty"
        BY <1>2, <3>2, <4>2 DEF FileState
      <4>3. CASE kind = "ahead"
        BY <1>2, <3>2, <4>3 DEF FileState
      <4> QED
        BY <4>1, <4>2, <4>3
    <3> QED
      BY <1>5, <3>1, <3>2
  <2>3. Tree(file'[f]) = Tree(u)
    BY <2>2 DEF Tree
  <2>4. Tree(file'[f]) = Buffers(f) + 1
    BY <1>2, <2>1, <2>3
  <2>5. file'[f].life = "open"
    BY <1>4, <2>2
  <2> QED
    BY <1>2, <2>4, <2>5
<1> QED
  BY <1>1, <1>3, <1>4, <1>6, <1>7 DEF UserStep

LEMMA ReadFreeUser ==
    ASSUME CauseInv, NEW f \in Files, NEW kind \in {"clean", "dirty"}, ReadFree(f, kind)
    PROVE  UserStep(f)
<1>1. Running /\ UNCHANGED <<fs, caches, th>> /\ raced' = raced /\ file[f].life = "open"
  BY DEF ReadFree, LockFree, Elsewhere
<1>2. /\ file \in [Files -> FileState] /\ file[f] \in FileState
      /\ Buffers(f) = Tree(file[f]) /\ Buffers(f) \in Nat
  BY <1>1, CauseStart
<1>3. \/ Tree(file[f]) = 1 /\ ring' = Append(ring, Msg("remove", f))
      \/ Tree(file[f]) # 1 /\ ring' = ring
  BY <1>2 DEF ReadFree, Send
<1>4. PICK p : file' = [file EXCEPT ![f].prio = p, ![f][kind] = @ - 1]
  BY DEF ReadFree
<1>5. \A g \in Files \ {f} : file'[g] = file[g]
  BY <1>2, <1>4
<1>6. Tree(file'[f]) = Tree(file[f]) - 1 /\ Tree(file[f]) > 0 /\ file'[f].life = "open"
  <2>1. CASE kind = "clean"
    BY <1>1, <1>2, <1>4, <2>1 DEF FileState, Tree, ReadFree
  <2>2. CASE kind = "dirty"
    BY <1>1, <1>2, <1>4, <2>2 DEF FileState, Tree, ReadFree
  <2> QED
    BY <2>1, <2>2
<1>7. CASE Tree(file[f]) = 1
  <2>1. Tree(file'[f]) = 0 /\ Tree(file[f]) # 0
    BY <1>2, <1>6, <1>7
  <2> QED
    BY <1>1, <1>3, <1>5, <1>6, <1>7, <2>1 DEF UserStep
<1>8. CASE Tree(file[f]) # 1
  <2>1. Tree(file'[f]) # 0 /\ Tree(file[f]) # 0
    BY <1>2, <1>6, <1>8
  <2> QED
    BY <1>1, <1>3, <1>5, <1>6, <1>8, <2>1 DEF UserStep
<1> QED
  BY <1>7, <1>8

\* A file is freed: with all its buffers gone, or the program is undefined because of
\* a readahead.
LEMMA FileFreeUser ==
    ASSUME CauseInv, NEW f \in Files, FileFree(f)
    PROVE  /\ Running' => UserStep(f)
           /\ ~Running' => ub' = "freed_in_use" /\ "ahead" \in raced'
<1>1. Running /\ UNCHANGED <<fs, caches, th>> /\ raced \subseteq raced' /\ file[f].life = "closed"
  BY DEF FileFree, LockFree, Elsewhere, Race
<1>2. /\ file \in [Files -> FileState] /\ file[f] \in FileState /\ FileInv(f)
      /\ Buffers(f) = Tree(file[f]) /\ Buffers(f) \in Nat
  BY <1>1, CauseStart
<1>3. \A g \in Files \ {f} : file'[g] = file[g]
  BY <1>2 DEF FileFree
<1>4. CASE FreedAtOnce(f)
  <2>1. ring' = ring /\ ub' = ub /\ file'[f] = NoFile /\ Tree(file[f]) = 0
    BY <1>2, <1>4 DEF FileFree, FreedAtOnce
  <2>2. "free" \notin raced' => About(ring, f) = {}
    BY <1>4 DEF FileFree, Race, Pending, About
  <2>3. Running'
    BY <1>1, <2>1 DEF Running
  <2>4. file'[f].life = "none" /\ Tree(file'[f]) = 0
    BY <2>1, NoFileState
  <2> QED
    BY <1>1, <1>3, <2>1, <2>2, <2>3, <2>4 DEF UserStep
<1>5. CASE ~FreedAtOnce(f)
  <2>1. /\ ring' = Append(ring, Msg("free", f)) /\ Tree(file[f]) # 0
        /\ file' = [file EXCEPT ![f].clean = 0, ![f].life = "freeing"]
        /\ ub' = IF Buffers(f) > file[f].clean THEN "freed_in_use" ELSE ub
    BY <1>2, <1>5 DEF FileFree, FreedAtOnce, Send
  <2>2. /\ Tree(file'[f]) = file[f].dirty + file[f].ahead /\ file'[f].life = "freeing"
        /\ file[f].clean \in Nat /\ file[f].dirty = 0 /\ file[f].ahead \in Nat
        /\ Tree(file[f]) = file[f].clean + file[f].dirty + file[f].ahead
    BY <1>1, <1>2, <2>1 DEF FileState, Tree, FileInv
  <2>3. CASE file[f].ahead = 0
    <3>1. Tree(file'[f]) = 0 /\ ~(Buffers(f) > file[f].clean)
      BY <1>2, <2>2, <2>3
    <3>2. Running'
      BY <1>1, <2>1, <3>1 DEF Running
    <3> QED
      BY <1>1, <1>3, <2>1, <2>2, <3>1, <3>2 DEF UserStep
  <2>4. CASE file[f].ahead # 0
    <3>1. file[f].ahead > 0 /\ Buffers(f) > file[f].clean
      BY <1>2, <2>2, <2>4
    <3>2. "ahead" \in raced'
      BY <1>5, <3>1 DEF FileFree, Race
    <3> QED
      BY <2>1, <3>1, <3>2 DEF Running
  <2> QED
    BY <2>3, <2>4
<1> QED
  BY <1>4, <1>5

\* The pool is there, or it is not, as before.
LEMMA PoolThere ==
    ASSUME CauseInv, NEW f \in Files, FileStep(f)
    PROVE  (pool' = NULL <=> pool = NULL) /\ UNCHANGED <<fs, caches, made, size, th>>
<1>1. Running
  BY StopsThere DEF Next
<1>2. UNCHANGED <<fs, caches, made, size, th>>
  BY DEF FileStep, Inserting, Open, Close, SetPriority, FileFree, Insert, Access, GotBuffer,
         NoBuffer, Extended, LostLock, LateCheck, LateInsert, Overtaken, StrayUnlock, ReadFree,
         Fill, Flushed, ReadAhead, Elsewhere
<1>3. /\ TypeOK /\ HeldInv /\ pool \in Nat \cup {NULL} /\ file[f] \in FileState
      /\ Buffers(f) \in Nat /\ Taken(f) \in Nat /\ Buffers(f) <= Taken(f)
      /\ Buffers(f) = Tree(file[f])
  BY <1>1, CauseStart, Tally DEF TypeOK
<1>4. Buffers(f) # 0 => pool # NULL /\ pool \in Nat
  BY <1>3 DEF HeldInv
<1>5. ASSUME NEW n \in Nat, pool' = pool + n, Buffers(f) # 0 PROVE pool' = NULL <=> pool = NULL
  <2>1. pool' \in Nat
    BY <1>4, <1>5
  <2> QED
    BY <1>4, <1>5, <2>1, PoolAssumption
<1>6. CASE \E kind \in {"clean", "dirty"} : ReadFree(f, kind)
  <2>1. PICK kind \in {"clean", "dirty"} : ReadFree(f, kind)
    BY <1>6
  <2>2. pool' = pool + 1 /\ file[f][kind] > 0
    BY <2>1 DEF ReadFree, Put
  <2>3. Buffers(f) # 0
    BY <1>3, <2>2 DEF FileState, Tree
  <2> QED
    BY <1>2, <1>5, <2>2, <2>3
<1>7. CASE FileFree(f)
  <2>1. CASE FreedAtOnce(f)
    BY <1>2, <1>7, <2>1 DEF FileFree
  <2>2. CASE ~FreedAtOnce(f)
    <3>1. pool' = pool + file[f].clean /\ Buffers(f) # 0 /\ file[f].clean \in Nat
      BY <1>3, <1>7, <2>2 DEF FileFree, FreedAtOnce, Put, FileState
    <3> QED
      BY <1>2, <1>5, <3>1
  <2> QED
    BY <2>1, <2>2
<1>8. CASE GotBuffer(f) \/ Extended(f) \/ LostLock(f)
  <2>1. HasBuffer /\ pool' = IF pool = NULL THEN NULL ELSE pool - 1
    BY <1>8 DEF GotBuffer, Extended, LostLock, LateCheck, Get
  <2>2. pool # NULL => pool - 1 \in Nat
    BY <1>3, <2>1 DEF HasBuffer
  <2> QED
    BY <1>2, <2>1, <2>2, PoolAssumption
<1>9. CASE ~(\/ \E kind \in {"clean", "dirty"} : ReadFree(f, kind)
             \/ FileFree(f) \/ GotBuffer(f) \/ Extended(f) \/ LostLock(f))
  <2>1. pool' = pool
    BY <1>9 DEF FileStep, Inserting, Open, Close, SetPriority, Insert, Access, NoBuffer, LateInsert,
                Overtaken, StrayUnlock, Fill, Flushed, ReadAhead
  <2> QED
    BY <1>2, <2>1
<1> QED
  BY <1>6, <1>7, <1>8, <1>9

\* A step of the users keeps CauseInv, or its order is recorded.
LEMMA UserCause ==
    ASSUME CauseInv, BalanceInv', NEW f \in Files, FileStep(f)
    PROVE  CauseInv'
<1>1. Running /\ TypeOK' /\ TypeOK /\ HeldInv
  <2>1. Running
    BY StopsThere DEF Next
  <2> QED
    BY <2>1, CauseStart DEF BalanceInv, TallyInv
<1>2. /\ pool' = NULL <=> pool = NULL
      /\ made' = made /\ size' = size
  BY PoolThere
<1>3. raced \subseteq raced'
  BY RacedGrows DEF Next
<1>4. "size" \notin raced' /\ pool' # NULL => made' = size'
  BY <1>2, <1>3 DEF CauseInv
<1>5. ASSUME ~Running' PROVE Explained'
  <2>1. CASE GotBuffer(f) \/ Extended(f) \/ LostLock(f)
    <3>1. ub' = "no_pool" /\ "early" \in raced'
      BY <1>1, <1>5, <2>1 DEF GotBuffer, Extended, LostLock, LateCheck, Get, Race, Running
    <3> QED
      BY <3>1, CausesAre DEF Explained
  <2>2. CASE Overtaken(f)
    <3>1. ub' = "tree_race" /\ "unlocked" \in raced'
      BY <2>2 DEF Overtaken, Race
    <3> QED
      BY <3>1, CausesAre DEF Explained
  <2>3. CASE FileFree(f)
    BY <1>5, <2>3, FileFreeUser, CausesAre DEF Explained
  <2>4. CASE ~(GotBuffer(f) \/ Extended(f) \/ LostLock(f) \/ Overtaken(f) \/ FileFree(f))
    <3>1. ub' = ub
      BY <2>4 DEF FileStep, Inserting, Open, Close, SetPriority, Insert, Access, NoBuffer,
                  LateInsert, StrayUnlock, ReadFree, Fill, Flushed, ReadAhead
    <3> QED
      BY <1>1, <1>5, <3>1 DEF Running
  <2> QED
    BY <2>1, <2>2, <2>3, <2>4
<1>6. ASSUME Running' PROVE UserStep(f)
  <2>1. ~Overtaken(f)
    BY <1>6 DEF Overtaken, Running
  <2> QED
    BY <1>6, <2>1, QuietUser, InsertUser, ReadFreeUser, FileFreeUser DEF FileStep, Inserting
<1>7. ASSUME Running' PROVE \A g \in Files : FileInv(g)'
  BY <1>1, <1>6, <1>7, UserFiles
<1>8. ASSUME Running', "reload" \notin raced' PROVE StartInv'
  <2>1. StartInv
    BY <1>1, <1>3, <1>8 DEF CauseInv
  <2> QED
    BY <1>1, <1>2, <1>6, <1>8, <2>1, UserStart
<1>9. Explained'
  BY <1>5 DEF Explained
<1> QED
  BY <1>4, <1>7, <1>8, <1>9 DEF CauseInv

-----------------------------------------------------------------------------
(* A message is handled.                                                     *)

\* The first message of a thread is the first one about its file.
LEMMA HeadFirst ==
    ASSUME CauseInv, Running, NEW fn, NEW i \in Heads(fn), NEW f \in Files, i \in About(ring, f)
    PROVE  i \in DOMAIN ring /\ ring[i].fn = fn /\ \A k \in About(ring, f) : i <= k
<1>1. OneThread(ring, f) /\ ring \in Seq(Message)
  BY CauseStart DEF FileInv
<1>2. i \in DOMAIN ring /\ ring[i].fn = fn /\ \A j \in 1 .. i - 1 : ring[j].th # ring[i].th
  BY DEF Heads
<1>3. ASSUME NEW k \in About(ring, f) PROVE i <= k
  <2>1. k \in 1 .. Len(ring) /\ i \in 1 .. Len(ring) /\ Len(ring) \in Nat
    BY <1>1, <1>2 DEF About
  <2>2. ~(k \in 1 .. i - 1)
    BY <1>1, <1>2 DEF OneThread
  <2> QED
    BY <2>1, <2>2
<1> QED
  BY <1>2, <1>3

\* What the first message about a file finds.
LEMMA FirstFinds ==
    ASSUME CauseInv, Running, NEW f \in Files, NEW i \in About(ring, f),
           \A k \in About(ring, f) : i <= k
    PROVE  /\ ring[i].fn = "add" => ~Listed(f)
           /\ ring[i].fn # "add" /\ "poll" \notin raced => Listed(f)
           /\ ring[i].fn = "add" \/ Listed(f) => Order(ring, f, Times(caches, f), Due(file[f]))
           /\ file[f].life = "none" => "free" \in raced
<1> DEFINE n == Times(caches, f)
           d == Due(file[f])
<1>1. /\ ring \in Seq(Message) /\ (Listed(f) <=> n # 0)
      /\ file[f].life = "none" /\ "free" \notin raced => About(ring, f) = {}
      /\ \/ Order(ring, f, n, d)
         \/ "poll" \in raced /\ Doomed(ring, f, n)
  BY CauseStart DEF FileInv
<1>2. About(ring, f) \subseteq Nat
  BY <1>1 DEF About
<1> HIDE DEF n, d
<1>3. Order(ring, f, n, d) => (ring[i].fn = "add" <=> n = 0)
  BY DEF Order
<1>4. Doomed(ring, f, n) => n = 0 /\ ring[i].fn # "add"
  BY <1>2 DEF Doomed
<1> QED
  BY <1>1, <1>3, <1>4 DEF n, d

\* A file that the message is not about.
LEMMA TakeOther ==
    ASSUME CauseInv, Running, NEW g \in Files, NEW i \in DOMAIN ring, ring' = Without(ring, i),
           i \notin About(ring, g), Times(caches', g) = Times(caches, g), file'[g] = file[g],
           UNCHANGED <<th, raced>>
    PROVE  FileInv(g)'
<1> DEFINE n == Times(caches, g)
           d == Due(file[g])
<1>1. FileInv(g) /\ ring \in Seq(Message)
  BY CauseStart
<1>2. /\ OneThread(ring, g) => OneThread(ring', g)
      /\ Order(ring, g, n, d) => Order(ring', g, n, d)
      /\ Doomed(ring, g, n) => Doomed(ring', g, n)
  <2> HIDE DEF n, d
  <2> QED
    BY <1>1, OrderTake
<1>3. \A j \in About(ring', g) : \E k \in About(ring, g) : ring'[j] = ring[k]
  BY <1>1, AboutWithout
<1> QED
  BY <1>1, <1>2, <1>3 DEF FileInv

\* The file it is about.
LEMMA TakeMine ==
    ASSUME CauseInv, Running, NEW f \in Files, NEW i \in About(ring, f), i \in DOMAIN ring,
           \A k \in About(ring, f) : i <= k, ring' = Without(ring, i),
           Order(ring, f, Times(caches, f), Due(file[f])),
           Times(caches', f) \in {0, 1}, Times(caches', f) = 0 <=> ring[i].fn # "add",
           UNCHANGED <<th, raced>>,
           file'[f] = file[f] \/ (ring[i].fn = "free" /\ file'[f] = NoFile)
    PROVE  FileInv(f)'
<1> DEFINE n == Times(caches, f)
           u == Times(caches', f)
           d == Due(file[f])
<1>1. FileInv(f) /\ ring \in Seq(Message)
  BY CauseStart
<1>2. /\ OneThread(ring', f)
      /\ Order(ring', f, u, d)
  <2>1. /\ Order(ring, f, n, d) /\ OneThread(ring, f)
        /\ u = 0 <=> IF i \in About(ring, f) THEN ring[i].fn # "add" ELSE n = 0
    BY <1>1 DEF FileInv
  <2> HIDE DEF n, u, d
  <2> QED
    BY <1>1, <2>1, OrderTake
<1>3. \A j \in About(ring', f) : /\ Was(i, j) \in About(ring, f) /\ Was(i, j) # i
                                 /\ ring'[j] = ring[Was(i, j)]
  BY <1>1, AboutWithout
<1>4. CASE file'[f] = file[f]
  BY <1>1, <1>2, <1>3, <1>4 DEF FileInv
<1>5. CASE ring[i].fn = "free" /\ file'[f] = NoFile
  <2>1. About(ring', f) = {}
    <3> SUFFICES ASSUME NEW j \in About(ring', f) PROVE FALSE
      OBVIOUS
    <3>1. Was(i, j) <= i /\ i <= Was(i, j) /\ Was(i, j) # i
      BY <1>1, <1>3, <1>5 DEF FileInv, OneThread
    <3>2. Was(i, j) \in Nat /\ i \in Nat
      BY <1>1, <1>3 DEF About
    <3> QED
      BY <3>1, <3>2
  <2>2. Order(ring', f, Times(caches', f), Due(file'[f]))
    BY <2>1 DEF Order
  <2>3. file'[f].life = "none"
    BY <1>5, NoFileState
  <2> QED
    BY <1>2, <2>1, <2>2, <2>3 DEF FileInv
<1> QED
  BY <1>4, <1>5

\* A message about a file: the list is as the message expects it, or an order
\* that was recorded has come between.
LEMMA HandleFiles ==
    ASSUME CauseInv, Running, AddFile \/ RemoveFile \/ FreeFile
    PROVE  /\ Running' => \A g \in Files : FileInv(g)'
           /\ Explained'
<1>1. /\ TypeOK /\ ring \in Seq(Message) /\ caches \in Seq(Files)
      /\ file \in [Files -> FileState]
  BY CauseStart
<1>2. PICK i \in Heads("add") \cup Heads("remove") \cup Heads("free") :
        /\ ring' = Without(ring, i) /\ UNCHANGED <<th, raced>>
        /\ \/ /\ ring[i].fn = "add" /\ caches' = Append(caches, ring[i].file) /\ file' = file
              /\ ub' = CASE file[ring[i].file].life = "none" -> "freed_file"
                         [] file[ring[i].file].life # "none" /\ Listed(ring[i].file) -> "listed_twice"
                         [] OTHER -> ub
           \/ /\ ring[i].fn # "add" /\ Unlist(ring[i].file)
              /\ \/ file' = file
                 \/ ring[i].fn = "free" /\ file' = [file EXCEPT ![ring[i].file] = NoFile]
  <2>1. CASE AddFile
    BY <2>1 DEF AddFile, Received, Heads
  <2>2. CASE RemoveFile
    BY <2>2 DEF RemoveFile, Received, Heads
  <2>3. CASE FreeFile
    BY <2>3 DEF FreeFile, Received, Heads
  <2> QED
    BY <2>1, <2>2, <2>3
<1>3. PICK f \in Files : f = ring[i].file
  BY <1>1, MessageFile DEF Heads
<1>4. /\ i \in DOMAIN ring /\ ring[i].fn \in {"add", "remove", "free"} /\ i \in About(ring, f)
      /\ \A g \in Files : g # f => i \notin About(ring, g)
  BY <1>3 DEF Heads, About
<1>5. \A k \in About(ring, f) : i <= k
  BY <1>4, HeadFirst
<1>6. /\ ring[i].fn = "add" => ~Listed(f)
      /\ ring[i].fn # "add" /\ "poll" \notin raced => Listed(f)
      /\ ring[i].fn = "add" \/ Listed(f) => Order(ring, f, Times(caches, f), Due(file[f]))
      /\ file[f].life = "none" => "free" \in raced
  BY <1>4, <1>5, FirstFinds
<1>7. Times(caches, f) \in Nat /\ Times(caches, f) <= 1 /\ (Listed(f) <=> Times(caches, f) # 0)
  BY CauseStart DEF FileInv
<1>8. Explained'
  <2> SUFFICES ASSUME ~Running' PROVE Causes[ub'] \cap raced' # {}
    BY DEF Explained
  <2>1. CASE ring[i].fn = "add"
    <3>1. ub' = "freed_file" /\ file[f].life = "none"
      BY <1>2, <1>3, <1>6, <2>1 DEF Running
    <3> QED
      BY <1>2, <1>6, <3>1, CausesAre
  <2>2. CASE ring[i].fn # "add"
    <3>1. \/ ub' = "freed_file" /\ file[f].life = "none"
          \/ ub' = "not_listed" /\ ~Listed(f)
      BY <1>2, <1>3, <2>2 DEF Running, Unlist
    <3> QED
      BY <1>2, <1>6, <2>2, <3>1, CausesAre
  <2> QED
    BY <2>1, <2>2
<1>9. ASSUME Running' PROVE \A g \in Files : FileInv(g)'
  <2>1. \A g \in Files : g # f => Times(caches', g) = Times(caches, g) /\ file'[g] = file[g]
    <3> SUFFICES ASSUME NEW g \in Files, g # f
                 PROVE  Times(caches', g) = Times(caches, g) /\ file'[g] = file[g]
      OBVIOUS
    <3>0. Times(caches, g) \in Nat
      BY CauseStart
    <3>1. CASE ring[i].fn = "add"
      <4>1. caches' = Append(caches, f) /\ file' = file
        BY <1>2, <1>3, <3>1
      <4>2. Times(Append(caches, f), g) = Times(caches, g) + 0
        BY <1>1, <3>0, AppendTimes
      <4> QED
        BY <3>0, <4>1, <4>2
    <3>2. CASE ring[i].fn # "add"
      BY <1>1, <1>2, <1>3, <3>0, <3>2, RemoveTimes DEF Unlist
    <3> QED
      BY <3>1, <3>2
  <2>2. /\ Order(ring, f, Times(caches, f), Due(file[f]))
        /\ Times(caches', f) \in {0, 1} /\ (Times(caches', f) = 0 <=> ring[i].fn # "add")
        /\ file'[f] = file[f] \/ (ring[i].fn = "free" /\ file'[f] = NoFile)
    <3>1. CASE ring[i].fn = "add"
      <4>0. caches' = Append(caches, f)
        BY <1>2, <1>3, <3>1
      <4>1. Times(caches', f) = Times(caches, f) + 1
        BY <1>1, <4>0, AppendTimes
      <4> QED
        BY <1>2, <1>6, <1>7, <3>1, <4>1
    <3>2. CASE ring[i].fn # "add"
      <4>1. Listed(f) /\ caches' = Remove(caches, f)
        BY <1>2, <1>3, <1>9, <3>2 DEF Unlist, Running
      <4>2. Times(caches', f) = Times(caches, f) - 1
        BY <1>1, <4>1, RemoveTimes DEF Listed
      <4>3. file'[f] = file[f] \/ (ring[i].fn = "free" /\ file'[f] = NoFile)
        BY <1>1, <1>2, <1>3, <3>2
      <4> QED
        BY <1>6, <1>7, <3>2, <4>1, <4>2, <4>3
    <3> QED
      BY <3>1, <3>2
  <2>3. FileInv(f)'
    BY <1>2, <1>4, <1>5, <2>2, TakeMine
  <2>4. ASSUME NEW g \in Files, g # f PROVE FileInv(g)'
    BY <1>2, <1>4, <2>1, <2>4, TakeOther
  <2> QED
    BY <2>3, <2>4
<1> QED
  BY <1>8, <1>9

\* As long as no file system was loaded too early, there is one thread, and it
\* handles the first message.
LEMMA HeadIsFirst ==
    ASSUME TypeOK, StartInv, NEW fn, NEW i \in Heads(fn)
    PROVE  i = 1 /\ 1 \in DOMAIN ring /\ ring[1].fn = fn /\ ring[1].th = th /\ ring # <<>>
<1>1. i \in DOMAIN ring /\ ring[i].fn = fn /\ \A j \in 1 .. i - 1 : ring[j].th # ring[i].th
  BY DEF Heads
<1>2. DOMAIN ring = 1 .. Len(ring) /\ Len(ring) \in Nat
  BY DEF TypeOK
<1>3. 1 \in DOMAIN ring /\ ring[1].th = th /\ ring[i].th = th
  BY <1>1, <1>2 DEF StartInv
<1>4. ~(1 \in 1 .. i - 1)
  BY <1>1, <1>3
<1>5. i = 1
  BY <1>1, <1>2, <1>4
<1> QED
  BY <1>1, <1>2, <1>3, <1>5

LEMMA TailRing ==
    ASSUME TypeOK, 1 \in DOMAIN ring, ring' = Without(ring, 1)
    PROVE  /\ Len(ring) \in Nat \ {0} /\ DOMAIN ring = 1 .. Len(ring)
           /\ ring' \in Seq(Message) /\ Len(ring') = Len(ring) - 1
           /\ DOMAIN ring' = 1 .. Len(ring) - 1
           /\ \A j \in DOMAIN ring' : j + 1 \in DOMAIN ring /\ ring'[j] = ring[j + 1]
           /\ ring' # <<>> => 1 \in DOMAIN ring' /\ ring'[Len(ring')] = ring[Len(ring)]
<1>1. ring \in Seq(Message)
  BY DEF TypeOK
<1>2. /\ Len(ring) \in Nat \ {0} /\ DOMAIN ring = 1 .. Len(ring)
      /\ ring' \in Seq(Message) /\ Len(ring') = Len(ring) - 1
  BY <1>1, WithoutType
<1>3. DOMAIN ring' = 1 .. Len(ring) - 1
  BY <1>2
<1>4. \A j \in DOMAIN ring' : j + 1 \in DOMAIN ring /\ ring'[j] = ring[j + 1]
  BY <1>1, <1>2, <1>3, StaysInRing
<1>5. ASSUME ring' # <<>> PROVE 1 \in DOMAIN ring' /\ ring'[Len(ring')] = ring[Len(ring)]
  <2>1. Len(ring') # 0
    BY <1>2, <1>5
  <2>2. 1 \in 1 .. Len(ring) - 1 /\ Len(ring) - 1 \in 1 .. Len(ring) - 1
        /\ (Len(ring) - 1) + 1 = Len(ring)
    BY <1>2, <2>1
  <2> QED
    BY <1>2, <1>3, <1>4, <2>2
<1> QED
  BY <1>2, <1>3, <1>4, <1>5

\* The first message is handled, and there is a pool afterwards.
LEMMA TailStart ==
    ASSUME TypeOK, StartInv, 1 \in DOMAIN ring, ring[1].fn # "stop",
           ring' = Without(ring, 1), UNCHANGED <<fs, th>>, pool' # NULL
    PROVE  StartInv'
<1>1. /\ Len(ring) \in Nat \ {0} /\ DOMAIN ring = 1 .. Len(ring)
      /\ Len(ring') = Len(ring) - 1 /\ DOMAIN ring' = 1 .. Len(ring) - 1
      /\ \A j \in DOMAIN ring' : j + 1 \in DOMAIN ring /\ ring'[j] = ring[j + 1]
      /\ ring' # <<>> => 1 \in DOMAIN ring' /\ ring'[Len(ring')] = ring[Len(ring)]
      /\ ring # <<>>
  <2>1. ring # <<>>
    OBVIOUS
  <2> QED
    BY <2>1, TailRing
<1>2. \A j \in DOMAIN ring' : /\ ring'[j].th = th' /\ ring'[j].fn # "start"
                              /\ ring'[j].fn = "stop" => j = Len(ring') /\ NoFs
  <2> TAKE j \in DOMAIN ring'
  <2>1. j + 1 # 1 /\ (j + 1 = Len(ring) => j = Len(ring'))
    BY <1>1
  <2> QED
    BY <1>1, <2>1 DEF StartInv
<1>3. NoFs' <=> NoFs
  BY DEF NoFs
<1>4. ring' = <<>> => ~NoFs
  <2> SUFFICES ASSUME ring' = <<>> PROVE ~NoFs
    OBVIOUS
  <2>1. Len(ring) = 1
    BY <1>1
  <2> QED
    BY <1>1, <2>1 DEF StartInv
<1>5. ring' # <<>> /\ NoFs => ring'[Len(ring')].fn = "stop"
  BY <1>1 DEF StartInv
<1>6. ring' # <<>> => ring'[1].fn # "start"
  BY <1>1, <1>2
<1> QED
  BY <1>2, <1>3, <1>4, <1>5, <1>6 DEF StartInv

\* What is left to show of a step that handles a message.
LEMMA AddRemoveFreeCause ==
    ASSUME CauseInv, BalanceInv', AddFile \/ RemoveFile \/ FreeFile
    PROVE  CauseInv'
<1>1. Running
  BY StopsThere DEF Next, Handle
<1>2. PICK fn \in {"add", "remove", "free"} : \E i \in Heads(fn) : ring' = Without(ring, i)
  BY DEF AddFile, RemoveFile, FreeFile, Received
<1>3. UNCHANGED <<fs, pool, made, size, th, raced>>
  BY DEF AddFile, RemoveFile, FreeFile, poolVars
<1>4. TypeOK /\ (Running' => \A g \in Files : FileInv(g)') /\ Explained'
  BY <1>1, HandleFiles, CauseStart
<1>5. ASSUME "reload" \notin raced PROVE StartInv'
  <2>1. StartInv
    BY <1>1, <1>5 DEF CauseInv
  <2>2. /\ ring' = Without(ring, 1) /\ 1 \in DOMAIN ring /\ ring[1].fn \in {"add", "remove", "free"}
        /\ ring # <<>>
    BY <1>2, <1>4, <2>1, HeadIsFirst
  <2>3. pool # NULL
    BY <2>1, <2>2 DEF StartInv
  <2> QED
    BY <1>3, <1>4, <2>1, <2>2, <2>3, TailStart
<1> QED
  BY <1>3, <1>4, <1>5 DEF CauseInv

\* The start and the stop of the pool are about no file.
LEMMA OtherFiles ==
    ASSUME CauseInv, Running, NEW i \in Heads("start") \cup Heads("stop"), ring' = Without(ring, i),
           UNCHANGED <<file, caches, th, raced>>
    PROVE  \A g \in Files : FileInv(g)'
<1>1. i \in DOMAIN ring /\ ring[i].fn \in {"start", "stop"}
  BY DEF Heads
<1>2. \A g \in Files : i \notin About(ring, g)
  BY <1>1 DEF About
<1> QED
  BY <1>1, <1>2, TakeOther

LEMMA StartCause ==
    ASSUME CauseInv, BalanceInv', Start
    PROVE  CauseInv'
<1>1. Running
  BY StopsThere DEF Next, Handle
<1>2. PICK i \in Heads("start") :
        /\ ring' = Without(ring, i)
        /\ IF pool = NULL THEN pool' = size /\ made' = size /\ UNCHANGED ub
                          ELSE ub' = "two_pools" /\ UNCHANGED <<pool, made>>
        /\ UNCHANGED <<fs, file, caches, size, setting, th, raced>>
  BY DEF Start, Received
<1>3. TypeOK /\ size # NULL
  BY <1>1, CauseStart, PoolAssumption DEF TypeOK
<1>4. \A g \in Files : FileInv(g)'
  BY <1>1, <1>2, OtherFiles
<1>5. ASSUME "reload" \notin raced PROVE StartInv' /\ Running'
  <2>1. StartInv
    BY <1>1, <1>5 DEF CauseInv
  <2>2. ring' = Without(ring, 1) /\ 1 \in DOMAIN ring /\ ring[1].fn = "start" /\ ring # <<>>
    BY <1>2, <1>3, <2>1, HeadIsFirst
  <2>3. pool = NULL
    BY <2>1, <2>2 DEF StartInv
  <2>4. pool' # NULL /\ ub' = ub
    BY <1>2, <1>3, <2>3
  <2> QED
    BY <1>1, <1>2, <1>3, <2>1, <2>2, <2>4, TailStart DEF Running
<1>6. Explained'
  <2>1. ~Running' => ub' = "two_pools" /\ "reload" \in raced'
    BY <1>1, <1>2, <1>5 DEF Running
  <2> QED
    BY <2>1, CausesAre DEF Explained
<1>7. "size" \notin raced' /\ pool' # NULL => made' = size'
  BY <1>2 DEF CauseInv
<1> QED
  BY <1>2, <1>4, <1>5, <1>6, <1>7 DEF CauseInv

LEMMA StopCause ==
    ASSUME CauseInv, BalanceInv', Stop
    PROVE  CauseInv'
<1>1. Running
  BY StopsThere DEF Next, Handle
<1>2. PICK i \in Heads("stop") :
        /\ ring' = Without(ring, i) /\ pool' = NULL
        /\ ub' = CASE pool = NULL -> "no_pool"
                   [] pool # NULL /\ pool # size -> "lost_buffers"
                   [] pool = size /\ ring[i].th # th -> "wrong_thread"
                   [] OTHER -> ub
        /\ UNCHANGED <<fs, file, caches, made, size, setting, th, raced>>
  BY DEF Stop, Received
<1>3. TypeOK /\ HeldInv /\ Conserved /\ size # NULL /\ made \in Nat
  BY <1>1, CauseStart, PoolAssumption DEF TypeOK, CauseInv, BalanceInv, TallyInv
<1>4. \A g \in Files : FileInv(g)'
  BY <1>1, <1>2, OtherFiles
<1>5. ASSUME "reload" \notin raced
      PROVE  /\ StartInv' /\ pool # NULL /\ ring[i].th = th
             /\ "size" \notin raced => pool = size
  <2>1. StartInv
    BY <1>1, <1>5 DEF CauseInv
  <2>2. /\ i = 1 /\ 1 \in DOMAIN ring /\ ring[1].fn = "stop" /\ ring[1].th = th /\ ring # <<>>
    BY <1>3, <2>1, HeadIsFirst
  <2>3. pool # NULL /\ NoFs /\ Len(ring) = 1
    BY <2>1, <2>2 DEF StartInv
  <2>4. ring' = <<>>
    BY <1>2, <1>3, <2>2, <2>3, TailRing
  <2>5. \A f \in Files : Taken(f) = 0
    <3> TAKE f \in Files
    <3>1. fs[FsOf(f)] = "none"
      BY <2>3 DEF NoFs, Files, FsOf
    <3>2. file[f].life \in {"none", "open", "closed", "freeing"}
      BY <1>3, TypeFile DEF FileState
    <3> QED
      BY <1>3, <3>1, <3>2 DEF HeldInv
  <2>6. pool = made
    <3>1. Cardinality(InUse) = 0 /\ pool + Cardinality(InUse) = made /\ pool \in Nat
      BY <1>3, <2>3, <2>5, NoTrees DEF Conserved, TypeOK
    <3> QED
      BY <3>1
  <2>7. "size" \notin raced => pool = size
    BY <2>3, <2>6 DEF CauseInv
  <2>8. StartInv'
    BY <1>2, <2>3, <2>4 DEF StartInv, NoFs
  <2> QED
    BY <2>2, <2>3, <2>7, <2>8
<1>6. Explained'
  <2>1. ~Running' => \/ ub' \in {"no_pool", "two_pools", "wrong_thread"} /\ "reload" \in raced'
                     \/ ub' = "lost_buffers" /\ ("reload" \in raced' \/ "size" \in raced')
    BY <1>1, <1>2, <1>5 DEF Running
  <2> QED
    BY <2>1, CausesAre DEF Explained
<1> QED
  BY <1>2, <1>4, <1>5, <1>6 DEF CauseInv

-----------------------------------------------------------------------------
(* The poller, the file systems and the size of the pool.                    *)

LEMMA PollCause ==
    ASSUME CauseInv, BalanceInv', Poll
    PROVE  CauseInv'
<1>1. /\ Running /\ pool # NULL /\ UNCHANGED <<fs, made, size, setting, ring, th>>
      /\ raced \subseteq raced'
      /\ \A f \in Files : Listed(f) /\ Places(caches', f) = {} /\ Pending(f) => "poll" \in raced'
  BY DEF Poll, Race, Listed
<1>2. /\ TypeOK /\ HeldInv /\ ring \in Seq(Message) /\ caches \in Seq(Files)
      /\ \A f \in Files : /\ FileInv(f) /\ Times(caches, f) \in Nat
                          /\ (Listed(f) <=> Times(caches, f) # 0)
                          /\ Due(file[f]) \in {0, 1} /\ (Due(file[f]) = 0 <=> Tree(file[f]) = 0)
                          /\ Buffers(f) = Tree(file[f])
                          /\ (About(ring, f) = {} => Times(caches, f) = Due(file[f]))
  BY <1>1, CauseStart
<1>3. /\ pool' \in Nat /\ caches' \in Seq(Files)
      /\ \A f \in Files :
           /\ file'[f] \in FileState /\ file'[f].life = file[f].life
           /\ file'[f].dirty = file[f].dirty /\ Tree(file'[f]) <= Tree(file[f])
           /\ Times(caches', f) + Due(file[f]) = Times(caches, f) + Due(file'[f])
  BY <1>2, PollFiles DEF Buffers, Tree, Due
<1>4. ASSUME NEW f \in Files PROVE FileInv(f)'
  <2> DEFINE n == Times(caches, f)
             u == Times(caches', f)
             d == Due(file[f])
             e == Due(file'[f])
  <2>1. /\ n \in Nat /\ u \in Nat /\ d \in {0, 1} /\ e \in {0, 1} /\ u + d = n + e
        /\ n <= 1 /\ (About(ring, f) = {} => n = d)
    BY <1>2, <1>3, CountsIn DEF FileInv
  <2>2. d = 0 => e = 0
    <3>1. /\ Tree(file[f]) \in Nat /\ Tree(file'[f]) \in Nat /\ Tree(file'[f]) <= Tree(file[f])
      BY <1>2, <1>3, WeightType, TypeFile
    <3> QED
      BY <3>1 DEF Due
  <2>3. \/ Order(ring, f, u, e)
        \/ "poll" \in raced' /\ Doomed(ring, f, u)
    <3>0. \/ Order(ring, f, n, d)
          \/ "poll" \in raced /\ Doomed(ring, f, n)
      BY <1>2 DEF FileInv
    <3>1. CASE e = d
      <4>1. u = n
        BY <2>1, <3>1
      <4> QED
        BY <1>1, <3>0, <3>1, <4>1
    <3>2. CASE e # d
      <4>1. d = 1 /\ e = 0 /\ n = 1 /\ u = 0
        BY <2>1, <2>2, <3>2
      <4>2. CASE About(ring, f) = {}
        BY <4>2 DEF Order
      <4>3. CASE About(ring, f) # {}
        <5>1. Listed(f) /\ Places(caches', f) = {} /\ Pending(f)
          <6>1. Places(caches', f) = {}
            BY <1>3, <4>1, PlacesAt
          <6>2. Listed(f)
            BY <1>2, <4>1
          <6> QED
            BY <4>3, <6>1, <6>2 DEF Pending, About
        <5>2. About(ring, f) \subseteq Nat
          BY <1>2 DEF About
        <5>3. PICK x \in About(ring, f) : \A y \in About(ring, f) : x <= y
          BY <4>3, <5>2, LeastNat
        <5>4. Order(ring, f, n, d)
          BY <3>0, <4>1 DEF Doomed
        <5>5. ring[x].fn # "add"
          BY <4>1, <5>3, <5>4 DEF Order
        <5> HIDE DEF u
        <5>6. Doomed(ring, f, u)
          BY <4>1, <5>3, <5>5 DEF Doomed
        <5> QED
          BY <1>1, <5>1, <5>6
      <4> QED
        BY <4>2, <4>3
    <3> QED
      BY <3>1, <3>2
  <2>4. u <= 1
    BY <2>1, <2>2
  <2> QED
    BY <1>1, <1>2, <1>3, <2>3, <2>4 DEF FileInv
<1>5. Explained'
  <2> SUFFICES ASSUME ~Running' PROVE Causes[ub'] \cap raced' # {}
    BY DEF Explained
  <2>1. ub' = "freed_file" /\ \E i \in DOMAIN caches : file[caches[i]].life = "none"
    BY <1>1 DEF Poll, Running
  <2>2. PICK f \in Files : Places(caches, f) # {} /\ file[f].life = "none"
    BY <1>2, <2>1 DEF Places
  <2>3. Due(file[f]) = 0
    <3>1. Taken(f) = 0 /\ Buffers(f) <= Taken(f) /\ Buffers(f) \in Nat
      BY <1>2, <2>2, Tally DEF HeldInv
    <3> QED
      BY <1>2, <3>1
  <2>4. "free" \in raced
    BY <1>2, <2>2, <2>3 DEF FileInv, Listed
  <2> QED
    BY <1>1, <2>1, <2>4, CausesAre
<1>6. ASSUME "reload" \notin raced' PROVE StartInv'
  <2>1. StartInv
    BY <1>1, <1>6 DEF CauseInv
  <2>2. pool' # NULL
    BY <1>3, PoolAssumption
  <2> QED
    BY <1>1, <2>1, <2>2 DEF StartInv, NoFs
<1>7. "size" \notin raced' /\ pool' # NULL => made' = size'
  BY <1>1 DEF CauseInv
<1> QED
  BY <1>4, <1>5, <1>6, <1>7 DEF CauseInv

\* A file system is loaded too early, or the pool is started and stopped in turn.
LEMMA FsStart ==
    ASSUME TypeOK, StartInv, NEW s \in FileSystems, FsStep(s), "reload" \notin raced'
    PROVE  StartInv'
<1>1. /\ ring \in Seq(Message) /\ fs \in [FileSystems -> {"none", "loaded", "unloading"}]
      /\ pool' = pool
  BY FsRing DEF TypeOK, poolVars
<1>2. CASE Load(s)
  <2>0. fs' = [fs EXCEPT ![s] = "loaded"] /\ ~NoFs'
    BY <1>1, <1>2 DEF Load, NoFs
  <2>1. CASE FsCount = 0
    <3>1. ring = <<>> /\ NoFs /\ th' = NewThread
          /\ ring' = Append(ring, [fn |-> "start", file |-> NULL, th |-> NewThread])
      BY <1>2, <2>1, CountFs DEF Load, Race
    <3>2. pool = NULL
      BY <3>1 DEF StartInv
    <3>3. /\ DOMAIN ring' = {1} /\ ring'[1].fn = "start" /\ ring'[1].th = th' /\ ring' # <<>>
      BY <3>1
    <3> QED
      BY <1>1, <2>0, <3>2, <3>3 DEF StartInv
  <2>2. CASE FsCount # 0
    <3>1. ring' = ring /\ th' = th /\ ~NoFs
      BY <1>2, <2>2, CountFs DEF Load, NewThread
    <3> QED
      BY <1>1, <2>0, <3>1 DEF StartInv
  <2> QED
    BY <2>1, <2>2
<1>3. CASE Unload(s)
  <2>1. ring' = ring /\ th' = th /\ ~NoFs /\ ~NoFs'
    BY <1>1, <1>3 DEF Unload, NoFs
  <2> QED
    BY <1>1, <2>1 DEF StartInv
<1>4. CASE Unloaded(s)
  <2>0. /\ th' = th /\ ~NoFs /\ fs[s] # "none" /\ fs' = [fs EXCEPT ![s] = "none"]
        /\ IF FsCount = 1 THEN ring' = Append(ring, [fn |-> "stop", file |-> NULL, th |-> th])
                          ELSE ring' = ring
    BY <1>4 DEF Unloaded, NoFs, IsLast, Send, Msg
  <2>1. NoFs' <=> FsCount = 1
    BY <1>1, <2>0, CountFs DEF NoFs
  <2>2. CASE FsCount # 1
    BY <1>1, <2>0, <2>1, <2>2 DEF StartInv
  <2>3. CASE FsCount = 1
    <3> DEFINE m == [fn |-> "stop", file |-> NULL, th |-> th]
    <3>1. /\ DOMAIN ring' = 1 .. Len(ring) + 1 /\ Len(ring') = Len(ring) + 1
          /\ DOMAIN ring = 1 .. Len(ring) /\ Len(ring) \in Nat
          /\ \A i \in 1 .. Len(ring) : ring'[i] = ring[i]
          /\ ring'[Len(ring) + 1] = m
      BY <1>1, <2>0, <2>3, AboutAppend
    <3>2. m.fn = "stop" /\ m.th = th
      OBVIOUS
    <3> HIDE DEF m
    <3>3. ASSUME NEW i \in DOMAIN ring'
          PROVE  /\ ring'[i].th = th' /\ (ring'[i].fn = "start" => i = 1)
                 /\ ring'[i].fn = "stop" => i = Len(ring')
      <4>1. i \in DOMAIN ring \/ i = Len(ring) + 1
        BY <3>1
      <4> QED
        BY <2>0, <3>1, <3>2, <4>1 DEF StartInv
    <3>4. ring'[1].fn = "start" <=> pool' = NULL
      <4>1. CASE ring = <<>>
        BY <1>1, <2>0, <3>1, <3>2, <4>1 DEF StartInv
      <4>2. CASE ring # <<>>
        <5>1. 1 \in 1 .. Len(ring)
          BY <1>1, <3>1, <4>2
        <5> QED
          BY <1>1, <3>1, <4>2, <5>1 DEF StartInv
      <4> QED
        BY <4>1, <4>2
    <3>5. ring'[Len(ring')].fn = "stop" /\ ring' # <<>>
      BY <3>1, <3>2
    <3> QED
      BY <2>1, <2>3, <3>3, <3>4, <3>5 DEF StartInv
  <2> QED
    BY <2>2, <2>3
<1> QED
  BY <1>2, <1>3, <1>4 DEF FsStep

LEMMA FsCause ==
    ASSUME CauseInv, BalanceInv', NEW s \in FileSystems, FsStep(s)
    PROVE  CauseInv'
<1>1. TypeOK
  BY DEF CauseInv, BalanceInv, TallyInv
<1>2. /\ Running /\ UNCHANGED <<file, caches, pool, made, size, setting, ub>> /\ Running'
      /\ \/ ring' = ring
         \/ ring' = Append(ring, [fn |-> "start", file |-> NULL, th |-> NewThread])
         \/ ring' = Append(ring, [fn |-> "stop", file |-> NULL, th |-> th])
  BY <1>1, FsRing DEF poolVars, Running
<1>3. raced \subseteq raced'
  BY RacedGrows DEF Next
<1>4. ASSUME NEW g \in Files PROVE FileInv(g)'
  <2>1. PICK m : /\ m.fn \in {"start", "stop"}
                 /\ ring' = ring \/ ring' = Append(ring, m)
    <3>1. /\ [fn |-> "start", file |-> NULL, th |-> NewThread].fn = "start"
          /\ [fn |-> "stop", file |-> NULL, th |-> th].fn = "stop"
      OBVIOUS
    <3> QED
      BY <1>2, <3>1
  <2>2. th' = th \/ file[g].life \notin {"open", "closed"}
    <3>1. CASE Load(s)
      <4>1. CASE FsCount = 0
        <5>1. fs[FsOf(g)] = "none"
          BY <1>1, <4>1, CountFs DEF NoFs, Files, FsOf
        <5>2. HeldInv
          BY <1>2, CauseStart
        <5> QED
          BY <5>1, <5>2 DEF HeldInv
      <4>2. CASE FsCount # 0
        BY <1>1, <3>1, <4>2, CountFs DEF Load, NewThread
      <4> QED
        BY <4>1, <4>2
    <3>2. CASE Unload(s) \/ Unloaded(s)
      BY <3>2 DEF Unload, Unloaded
    <3> QED
      BY <3>1, <3>2 DEF FsStep
  <2> QED
    BY <1>2, <1>3, <2>1, <2>2, SameFile
<1>5. ASSUME "reload" \notin raced' PROVE StartInv'
  <2>1. StartInv
    BY <1>2, <1>3, <1>5 DEF CauseInv
  <2> QED
    BY <1>1, <1>5, <2>1, FsStart
<1>6. Explained'
  BY <1>2 DEF Explained
<1>7. "size" \notin raced' /\ pool' # NULL => made' = size'
  BY <1>2, <1>3 DEF CauseInv
<1> QED
  BY <1>4, <1>5, <1>6, <1>7 DEF CauseInv

LEMMA SizeCause ==
    ASSUME CauseInv, BalanceInv',
           SetSizeStore \/ (\E n \in Sizes : SetSizeCheck(n)) \/ UNCHANGED vars
    PROVE  CauseInv'
<1>1. /\ UNCHANGED <<fs, file, caches, pool, made, ring, th, ub>> /\ raced \subseteq raced'
      /\ size' = size \/ (Running /\ (pool # NULL /\ size' # size => "size" \in raced'))
      /\ Running \/ raced' = raced
  BY DEF SetSizeStore, SetSizeCheck, Race, vars, poolVars
<1>2. "size" \notin raced' /\ pool' # NULL => made' = size'
  BY <1>1 DEF CauseInv
<1>3. Running => \A f \in Files : FileInv(f)'
  BY <1>1 DEF CauseInv, FileInv
<1>4. Running /\ "reload" \notin raced' => StartInv'
  BY <1>1 DEF CauseInv, StartInv, NoFs
<1>5. Explained'
  BY <1>1 DEF CauseInv, Explained, Running
<1>6. Running' = Running
  BY <1>1 DEF Running
<1> QED
  BY <1>2, <1>3, <1>4, <1>5, <1>6 DEF CauseInv

-----------------------------------------------------------------------------
(* The theorem.                                                              *)

LEMMA InitCause == ASSUME Init PROVE CauseInv
<1>1. BalanceInv
  BY InitTally, InitBalance DEF BalanceInv
<1>2. ring = <<>> /\ caches = <<>> /\ pool = NULL /\ ub = "none" /\ NoFs
  BY DEF Init, NoFs
<1>3. ASSUME NEW f \in Files PROVE FileInv(f)
  <2>1. About(ring, f) = {} /\ file[f].life = "none"
    BY <1>2, NoFileState DEF About, Init
  <2>2. Times(caches, f) = 0
    BY <1>2, FS_EmptySet DEF Times, Places
  <2>3. OneThread(ring, f) /\ Order(ring, f, Times(caches, f), Due(file[f]))
    BY <2>1 DEF OneThread, Order
  <2> QED
    BY <2>1, <2>2, <2>3 DEF FileInv
<1>4. StartInv
  BY <1>2 DEF StartInv
<1> QED
  BY <1>1, <1>2, <1>3, <1>4 DEF CauseInv, Explained, Running

LEMMA StepCause ==
    ASSUME CauseInv, [Next]_vars
    PROVE  CauseInv'
<1>1. BalanceInv'
  BY StepBalance DEF CauseInv
<1>2. ASSUME NEW s \in FileSystems, FsStep(s) PROVE CauseInv'
  BY <1>1, <1>2, FsCause
<1>3. ASSUME NEW f \in Files, FileStep(f) PROVE CauseInv'
  BY <1>1, <1>3, UserCause
<1>4. CASE Handle
  BY <1>1, <1>4, StartCause, StopCause, AddRemoveFreeCause DEF Handle
<1>5. CASE Poll
  BY <1>1, <1>5, PollCause
<1>6. CASE SetSizeStore \/ (\E n \in Sizes : SetSizeCheck(n)) \/ UNCHANGED vars
  BY <1>1, <1>6, SizeCause
<1> QED
  BY <1>2, <1>3, <1>4, <1>5, <1>6 DEF Next

\* Whatever the steps of the threads, the program becomes undefined only after an
\* order that the model records, and each undefined behaviour only after its own: a
\* message finds its file gone only if the file was freed before the message was
\* handled, and not in the list only if the poller dropped it before; a file is never
\* put into the list twice; the pool is started twice, stopped by the wrong thread or
\* not there to be stopped only if a file system was loaded before the pool had
\* stopped, and it misses buffers then only if the size was stored late as well or
\* instead.
THEOREM OnlyByItsCause == Spec => []Explained
<1>1. Init => CauseInv
  BY InitCause
<1>2. CauseInv /\ [Next]_vars => CauseInv'
  BY StepCause
<1>3. CauseInv => Explained
  BY DEF CauseInv
<1> QED
  BY <1>1, <1>2, <1>3, PTL DEF Spec
=============================================================================
