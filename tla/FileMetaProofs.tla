---------------------------- MODULE FileMetaProofs ----------------------------
(***************************************************************************)
(* Proofs about the files of NBFS, for any number of clients, names and       *)
(* blobs: nothing that a call reported is lost in a crash, index and device   *)
(* agree, and no callback uses a freed file.  The listing of FileList runs    *)
(* beside the other calls.                                                  *)
(***************************************************************************)
EXTENDS FileList, TLAPS, FiniteSetTheorems, SequenceTheorems, WellFoundedInduction

\* What the clients and the device are relied upon for: one call at a time about
\* a name, except for opens; only a resize fails; a file that is open is not
\* replaced by a rename.
Orderly == ~Overlap /\ Failures \subseteq {"resize"} /\ ~RenameOntoOpen

Waiting  == {"opening", "open_wait"}
Creating == {"create_blob", "create_open", "create_resize", "create_close"}
Renaming == {"rename_open", "rename_close"}
Holding  == {"create_resize", "create_close", "rename_close", "closing"}
Writing  == {"create_close", "mark", "rename_close", "closing"}
Calls    == Waiting \cup Creating \cup Renaming \cup {"idle", "list", "delete_blob", "mark", "closing"}

OpState == [pc : Calls, name : Names \cup {NULL}, new : Names \cup {NULL},
            f : Files \cup {NULL}, b : Blobs \cup {NULL}, then : {"return", "open", "rename"}]

WriteState == [c : Clients, b : Blobs, xattrs : Xattrs]

FileState == [name : Names, blobid : Blobs \cup {NULL}, ref_count : Nat,
              is_deleted : BOOLEAN, blob : BOOLEAN, open_requests : SUBSET Clients]

\* A file that nobody has opened or deleted yet.
IsNew(g, n, b) ==
    /\ g.name = n /\ g.blobid = b /\ g.ref_count = 0
    /\ g.is_deleted = FALSE /\ g.blob = FALSE /\ g.open_requests = {}

\* The name whose file a call works on.
Target(c) == IF op[c].new = NULL THEN op[c].name ELSE op[c].new
Subject(c) == files[Target(c)]

\* The index and the files name each other.
NameInv ==
    /\ \A n \in DOMAIN files : files[n] \in DOMAIN file /\ file[files[n]].name = n
    /\ \A f \in DOMAIN file : file[f].name \in DOMAIN files /\ files[file[f].name] = f
    /\ \A c \in Clients : handle[c] \in DOMAIN file \cup {NULL}
    /\ IsFiniteSet(DOMAIN file)

\* Clients work on one name at the same time only when they open it.
ApartInv ==
    \A c, d \in Clients :
      c # d => /\ Concerns(c) \cap Concerns(d) # {} => op[c].pc \in Waiting /\ op[d].pc \in Waiting
               /\ op[c].b = op[d].b => op[c].b = NULL

\* Where a call is, and what it may rely upon there.
OpInv(c) ==
    LET o == op[c]
        n == Target(c)
        f == Subject(c)
    IN  /\ o.pc = "idle" => o = Idle
        /\ o.pc # "idle" => o.name # NULL
        /\ o.new # NULL <=> o.then = "rename"
        /\ o.then = "rename" => o.pc \in Renaming \cup {"delete_blob"}
        /\ o.then = "open" => o.pc \in Creating
        /\ o.pc \in Renaming => o.then = "rename"
        /\ o.b = NULL <=> o.pc \in {"idle", "open_wait", "list"}
        /\ o.pc \notin {"idle", "delete_blob"} => n \in DOMAIN files
        /\ o.pc \in Waiting \cup Creating \cup {"closing", "list"} => o.f = f
        /\ o.pc \notin {"idle", "open_wait", "list", "delete_blob", "create_blob"} =>
             o.b = file[f].blobid
        /\ o.pc \in Waiting => c \in file[f].open_requests
        /\ o.pc \in Waiting \/ o.then = "open" => handle[c] = NULL
        /\ o.pc = "create_blob" =>
             IsNew(file[f], n, NULL) /\ o.b \notin DOMAIN disk
        /\ o.pc \in Creating \ {"create_blob"} => IsNew(file[f], n, o.b) /\ disk[o.b] = NoXattrs
        /\ o.pc = "mark" => file[f].blob /\ file[f].is_deleted /\ disk[o.b].name \in {NULL, n}
        /\ o.pc \in Renaming => o.name \notin DOMAIN files /\ disk[o.b].name \in {NULL, o.name}
        /\ o.pc = "rename_open" => ~file[f].blob
        /\ o.pc = "closing" => file[f].ref_count = 0
        /\ o.pc = "delete_blob" =>
             n \notin DOMAIN files /\ o.b \in DOMAIN disk /\ disk[o.b].name \in {NULL, n}

\* Some call at pcs has blob b.
With(b, pcs) == \E c \in Clients : op[c].b = b /\ op[c].pc \in pcs

\* A file, its blob and the open requests and handles of its clients.
FileInv(f) ==
    LET g == file[f]
        b == g.blobid
    IN  /\ b = NULL => \E c \in Clients : op[c].pc = "create_blob" /\ op[c].f = f
        /\ b # NULL =>
             /\ b \in DOMAIN disk
             /\ mem[b].deleted = g.is_deleted
             /\ mem[b].name \in {NULL, g.name} \/ With(b, {"rename_open"})
             /\ disk[b] = mem[b] \/ With(b, {"create_close", "mark", "rename_close"})
             /\ g.is_deleted => g.ref_count > 0 \/ With(b, {"closing"})
             /\ opens[b] = (IF g.blob THEN 1 ELSE 0) + (IF With(b, Holding) THEN 1 ELSE 0)
        /\ \A c \in Clients : op[c].b = b /\ b # NULL =>
             op[c].pc \notin {"create_blob", "delete_blob"} /\ Subject(c) = f
        /\ \A c \in g.open_requests : op[c].pc \in Waiting /\ op[c].f = f
        /\ g.ref_count = Cardinality({c \in Clients : handle[c] = f}) + Cardinality(g.open_requests)
        /\ g.blob <=> \E c \in Clients : handle[c] = f
        /\ g.blob => g.open_requests = {}

\* Every blob has at most one file, and one on the device belongs to a file or is
\* being deleted; no other blob is open.
BlobInv ==
    /\ \A f, g \in DOMAIN file : file[f].blobid = file[g].blobid /\ file[f].blobid # NULL => f = g
    /\ \A b \in Blobs : (\A f \in DOMAIN file : file[f].blobid # b) =>
         /\ opens[b] = 0
         /\ b \in DOMAIN disk /\ mode \in {"ready", "loading"} =>
              b \in doomed \/ With(b, {"delete_blob"})

\* The xattrs under way are those in memory, and belong to a call that waits.
PersistInv ==
    /\ persists \in Seq(WriteState)
    /\ \A i \in DOMAIN persists :
         LET p == persists[i] IN
         op[p.c].pc \in Writing /\ op[p.c].b = p.b /\ p.xattrs = mem[p.b]
    /\ \A i, j \in DOMAIN persists : persists[i].c = persists[j].c => i = j

\* No two blobs that the next load will show have the same name.
Unique ==
    \A a, b \in DOMAIN disk :
      disk[a].name = disk[b].name /\ disk[a].name # NULL /\ ~disk[a].deleted /\ ~disk[b].deleted
        => a = b

\* What there is before the file system is up.
ModeInv ==
    /\ mode # "ready" => /\ \A c \in Clients : op[c].pc = "idle" /\ handle[c] = NULL
                         /\ persists = <<>>
                         /\ \A b \in Blobs : opens[b] = 0
                         /\ Unique
    /\ mode \in {"down", "failed"} => DOMAIN file = {}
    /\ mode # "loading" => doomed = {}
    /\ mode = "loading" => doomed # {}
    /\ \A b \in doomed : b \in DOMAIN disk /\ disk[b].deleted
    /\ \A f \in DOMAIN file : file[f].blobid \notin doomed

\* A name that a call reported is on the device, and no call is taking it away.
Lasts(n) ==
    LET b == acked[n] IN
    /\ n \in Names /\ b \in DOMAIN disk /\ disk[b] = [name |-> n, deleted |-> FALSE]
    /\ mode \in {"ready", "loading"} => /\ n \in DOMAIN files
                                        /\ file[files[n]].blobid = b
                                        /\ ~file[files[n]].is_deleted
    /\ \A c \in Clients : n \in Concerns(c) => op[c].pc \in Waiting \cup {"list", "closing"}
AckInv == \A n \in DOMAIN acked : Lasts(n)

\* A blob whose delete was reported stays deleted, in memory and on the device.
GoneInv ==
    \A b \in gone :
      /\ b \in DOMAIN disk => disk[b].deleted
      /\ \A f \in DOMAIN file : file[f].blobid = b => file[f].is_deleted

\* The inductive invariant of the calls, the files and the device.
MetaInv ==
    /\ Defined /\ TypeOK /\ op \in [Clients -> OpState] /\ NameInv /\ ApartInv
    /\ \A c \in Clients : OpInv(c)
    /\ \A f \in DOMAIN file : FileInv(f)
    /\ BlobInv /\ PersistInv /\ ModeInv /\ AckInv /\ GoneInv

-----------------------------------------------------------------------------
(* Numbers, sequences and sets.                                              *)

LEMMA LeastNat ==
    ASSUME NEW T, T \subseteq Nat, T # {}
    PROVE  \E x \in T : \A y \in T : x <= y
<1> DEFINE R == OpToRel(<, Nat)
<1>1. IsWellFoundedOn(R, Nat)
  BY NatLessThanWellFounded
<1>2. \A x, y \in Nat : x < y => <<x, y>> \in R
  BY DEF OpToRel
<1> HIDE DEF R
<1>3. PICK x \in T : \A y \in T : ~ (<<y, x>> \in R)
  BY <1>1, WFMin
<1>4. ASSUME NEW y \in T PROVE x <= y
  <2>1. x \in Nat /\ y \in Nat
    OBVIOUS
  <2>2. ~(y < x)
    BY <1>2, <1>3, <2>1, Zenon
  <2> QED
    BY <2>1, <2>2
<1> QED
  BY <1>4

LEMMA MinIsLeast ==
    ASSUME NEW T, T \subseteq Nat, T # {}
    PROVE  Min(T) \in T /\ \A y \in T : Min(T) <= y
<1>1. \E x \in T : \A y \in T : x <= y
  BY LeastNat
<1> QED
  BY <1>1 DEF Min

\* file_alloc finds memory that no other file has.
LEMMA Fresh ==
    ASSUME IsFiniteSet(DOMAIN file)
    PROVE  FreshFile \in Nat \ {0} /\ FreshFile \notin DOMAIN file
<1> DEFINE k == Cardinality(DOMAIN file)
           T == (1 .. k + 1) \ DOMAIN file
<1>1. k \in Nat
  BY FS_CardinalityType
<1>2. T # {}
  <2> SUFFICES ASSUME T = {} PROVE FALSE
    OBVIOUS
  <2>1. (1 .. k + 1) \subseteq DOMAIN file
    OBVIOUS
  <2>2. Cardinality(1 .. k + 1) = k + 1
    <3>1. 1 \in Int /\ k + 1 \in Int /\ ~(1 > k + 1)
      BY <1>1
    <3> HIDE DEF k
    <3> QED
      BY <1>1, <3>1, FS_Interval
  <2>3. Cardinality(1 .. k + 1) <= k
    BY <2>1, FS_Subset
  <2> QED
    BY <1>1, <2>2, <2>3
<1>3. T \subseteq Nat /\ \A x \in T : x # 0 /\ x \notin DOMAIN file
  BY <1>1
<1>4. Min(T) \in T
  BY <1>2, <1>3, MinIsLeast
<1> QED
  BY <1>3, <1>4 DEF FreshFile

LEMMA WithoutType ==
    ASSUME NEW S, NEW q \in Seq(S), NEW i \in DOMAIN q
    PROVE  /\ Without(q, i) \in Seq(S) /\ Len(Without(q, i)) = Len(q) - 1
           /\ \A j \in DOMAIN Without(q, i) :
                Without(q, i)[j] = IF j < i THEN q[j] ELSE q[j + 1]
<1> DEFINE before == SubSeq(q, 1, i - 1)
           behind == SubSeq(q, i + 1, Len(q))
<1>1. i \in 1 .. Len(q) /\ Len(q) \in Nat
  OBVIOUS
<1>2. /\ before \in Seq(S) /\ Len(before) = i - 1
      /\ \A j \in 1 .. i - 1 : before[j] = q[j]
  BY <1>1
<1>3. /\ behind \in Seq(S) /\ Len(behind) = Len(q) - i
      /\ \A j \in 1 .. Len(q) - i : behind[j] = q[i + j]
  BY <1>1
<1> HIDE DEF before, behind
<1>4. /\ before \o behind \in Seq(S) /\ Len(before \o behind) = Len(q) - 1
      /\ DOMAIN (before \o behind) = 1 .. Len(q) - 1
  BY <1>1, <1>2, <1>3
<1>5. ASSUME NEW j \in 1 .. Len(q) - 1
      PROVE  (before \o behind)[j] = IF j < i THEN q[j] ELSE q[j + 1]
  <2>1. CASE j < i
    <3>1. j \in 1 .. Len(before)
      BY <1>1, <1>2, <2>1
    <3> QED
      BY <1>2, <1>3, <2>1, <3>1
  <2>2. CASE j >= i
    <3>1. j - (i - 1) \in 1 .. Len(q) - i /\ i + (j - (i - 1)) = j + 1
      BY <1>1, <2>2
    <3>2. (before \o behind)[j] = behind[j - (i - 1)]
      <4>1. j \in 1 .. Len(before) + Len(behind) /\ ~(j <= Len(before))
        BY <1>1, <1>2, <1>3, <2>2
      <4>2. (before \o behind)[j] = behind[j - Len(before)]
        BY <1>2, <1>3, <4>1, ConcatProperties
      <4> QED
        BY <1>2, <4>2
    <3>3. behind[j - (i - 1)] = q[i + (j - (i - 1))]
      BY <1>3, <3>1
    <3> QED
      BY <1>1, <2>2, <3>1, <3>2, <3>3
  <2>3. j < i \/ j >= i
    BY <1>1
  <2> QED
    BY <2>1, <2>2, <2>3
<1>6. Without(q, i) = before \o behind
  BY DEF Without, before, behind
<1> QED
  BY <1>4, <1>5, <1>6

-----------------------------------------------------------------------------
(* A step that works on one file.                                            *)

\* Clients cs work on file f with the names ns and the blobs bs; what they leave
\* alone stays as it is.  A client that waits for an open of f goes on waiting.
Local(cs, ns, f, bs) ==
    /\ cs \subseteq Clients /\ ns \subseteq Names /\ bs \subseteq Blobs
    /\ mode = "ready" /\ mode' = mode /\ doomed' = doomed /\ ub' = ub
    /\ \A d \in Clients \ cs :
         /\ op'[d] = op[d] /\ handle'[d] = handle[d]
         /\ \/ Concerns(d) \cap ns = {} /\ op[d].b \notin bs
            \/ op[d].pc \in Waiting /\ OpInv(d)'
    /\ \A c \in cs :
         /\ op[c].b \in bs \cup {NULL} /\ op'[c].b \in bs \cup {NULL}
         /\ op[c].pc \in Waiting \cup {"create_blob"} => op[c].f = f
         /\ handle'[c] = handle[c] \/ {handle[c], handle'[c]} \subseteq {f, NULL}
    /\ \A n \in Names \ ns : /\ n \in DOMAIN files' <=> n \in DOMAIN files
                             /\ n \in DOMAIN files => files'[n] = files[n] /\ files[n] # f
    /\ \A n \in ns : n \in DOMAIN files => files[n] = f
    /\ f \in DOMAIN file => file[f].blobid \in bs \cup {NULL}
    /\ f \in DOMAIN file' => file'[f].blobid \in bs \cup {NULL}
    /\ \A g \in DOMAIN file \cup DOMAIN file' : g # f =>
         /\ g \in DOMAIN file /\ g \in DOMAIN file' /\ file'[g] = file[g]
         /\ file[g].blobid \notin bs
    /\ \A b \in Blobs \ bs : /\ mem'[b] = mem[b] /\ opens'[b] = opens[b]
                             /\ b \in DOMAIN disk' <=> b \in DOMAIN disk
                             /\ b \in DOMAIN disk => disk'[b] = disk[b]

\* What the names of a running call are.
LEMMA OpNames ==
    ASSUME MetaInv, NEW d \in Clients
    PROVE  /\ op[d] \in OpState
           /\ op[d].pc # "idle" => Target(d) \in Concerns(d) /\ Target(d) \in Names
           /\ op[d].pc = "idle" => op[d] = Idle /\ Concerns(d) = {}
           /\ Concerns(d) \subseteq Names
<1>1. op[d] \in OpState /\ OpInv(d)
  BY DEF MetaInv
<1>2. op[d].name \in Names \cup {NULL} /\ op[d].new \in Names \cup {NULL}
  BY <1>1 DEF OpState
<1>3. op[d].pc # "idle" => op[d].name # NULL
  BY <1>1 DEF OpInv
<1>4. op[d].pc = "idle" => op[d] = Idle
  BY <1>1 DEF OpInv
<1> QED
  BY <1>1, <1>2, <1>3, <1>4 DEF Target, Concerns, Idle

\* The file and the blob of a running call.
LEMMA OpFile ==
    ASSUME MetaInv, NEW d \in Clients, op[d].pc \notin {"idle", "delete_blob"}
    PROVE  /\ Target(d) \in DOMAIN files /\ Subject(d) \in DOMAIN file
           /\ file[Subject(d)].name = Target(d) /\ FileInv(Subject(d))
<1>1. Target(d) \in DOMAIN files
  BY DEF MetaInv, OpInv
<1> QED
  BY <1>1 DEF MetaInv, NameInv, Subject

LEMMA OpBlob ==
    ASSUME MetaInv, NEW d \in Clients, op[d].pc \notin {"idle", "open_wait", "list", "create_blob"}
    PROVE  op[d].b \in Blobs /\ op[d].b \in DOMAIN disk /\ op[d].b # NULL
<1>1. OpInv(d) /\ op[d] \in OpState
  BY DEF MetaInv
<1>2. op[d].b \in Blobs /\ op[d].b # NULL
  BY <1>1 DEF OpInv, OpState
<1>3. CASE op[d].pc = "delete_blob"
  BY <1>1, <1>2, <1>3 DEF OpInv
<1>4. CASE op[d].pc # "delete_blob"
  <2>1. FileInv(Subject(d))
    BY <1>4, OpFile
  <2>2. op[d].b = file[Subject(d)].blobid
    BY <1>1, <1>4 DEF OpInv
  <2> QED
    BY <1>2, <2>1, <2>2 DEF FileInv
<1> QED
  BY <1>3, <1>4

\* The calls of the other clients.
LEMMA FrameOps ==
    ASSUME MetaInv, NEW cs, NEW ns, NEW f, NEW bs, Local(cs, ns, f, bs), NEW d \in Clients \ cs
    PROVE  OpInv(d)'
<1>1. CASE OpInv(d)'
  BY <1>1
<1>2. CASE Concerns(d) \cap ns = {} /\ op[d].b \notin bs
  <2>1. OpInv(d) /\ op[d] \in OpState
    BY DEF MetaInv
  <2>2. op'[d] = op[d] /\ handle'[d] = handle[d] /\ Target(d)' = Target(d)
    BY DEF Local, Target
  <2>3. op[d].pc # "idle" =>
          /\ Target(d) \in Names \ ns
          /\ Target(d) \in DOMAIN files' <=> Target(d) \in DOMAIN files
          /\ Target(d) \in DOMAIN files =>
               Subject(d)' = Subject(d) /\ Subject(d) # f /\ Subject(d) \in DOMAIN file
    BY <1>2, <2>2, OpNames DEF Local, Subject, MetaInv, NameInv
  <2>4. op[d].pc # "idle" /\ Target(d) \in DOMAIN files => file'[Subject(d)] = file[Subject(d)]
    BY <2>3 DEF Local
  <2>5. op[d].b # NULL => /\ op[d].b \in DOMAIN disk' <=> op[d].b \in DOMAIN disk
                          /\ op[d].b \in DOMAIN disk => disk'[op[d].b] = disk[op[d].b]
    BY <1>2, <2>1 DEF Local, OpState
  <2>6. op[d].pc \in Renaming => (op[d].name \in DOMAIN files' <=> op[d].name \in DOMAIN files)
    <3>1. op[d].pc \in Renaming => op[d].name \in Concerns(d) /\ op[d].name \in Names
      BY <2>1 DEF OpInv, Concerns, OpState, Renaming
    <3> QED
      BY <1>2, <3>1 DEF Local
  <2>7. op[d].pc \notin {"idle", "open_wait", "list", "create_blob"} =>
          op[d].b \in DOMAIN disk' /\ disk'[op[d].b] = disk[op[d].b]
    BY <2>5, OpBlob
  <2>8. op[d].pc = "idle" => OpInv(d)'
    BY <2>1, <2>2 DEF OpInv, Idle, Waiting, Creating, Renaming
  <2>9. op[d].pc # "idle" => OpInv(d)'
    BY <2>1, <2>2, <2>3, <2>4, <2>5, <2>6, <2>7 DEF OpInv, Waiting, Creating, Renaming
  <2> QED
    BY <2>8, <2>9
<1> QED
  BY <1>1, <1>2 DEF Local

\* A blob that is left alone has the same calls.
LEMMA FrameWith ==
    ASSUME MetaInv, NEW cs, NEW ns, NEW f, NEW bs, Local(cs, ns, f, bs),
           NEW b \in Blobs \ bs
    PROVE  /\ \A pcs : With(b, pcs)' <=> With(b, pcs)
           /\ \A c \in Clients : op'[c].b = b <=> op[c].b = b
           /\ \A c \in Clients : op[c].b = b => op'[c] = op[c] /\ c \notin cs
<1>1. b # NULL
  BY MetaAssumption
<1>2. \A c \in Clients : op'[c].b = b <=> op[c].b = b
  BY <1>1 DEF Local
<1>3. \A c \in Clients : op[c].b = b => op'[c] = op[c] /\ c \notin cs
  BY <1>1 DEF Local
<1>4. \A pcs : With(b, pcs)' <=> With(b, pcs)
  BY <1>2, <1>3 DEF With
<1> QED
  BY <1>2, <1>3, <1>4

\* The other files.
LEMMA FrameFiles ==
    ASSUME MetaInv, NEW cs, NEW ns, NEW f, NEW bs, Local(cs, ns, f, bs),
           NEW g \in DOMAIN file', g # f
    PROVE  FileInv(g)'
<1>1. g \in DOMAIN file /\ file'[g] = file[g] /\ file[g].blobid \notin bs /\ FileInv(g)
  BY DEF Local, MetaInv
<1>2. g \in Files /\ g # NULL /\ file[g].blobid \in Blobs \cup {NULL}
      /\ file[g].open_requests \subseteq Clients
  BY <1>1, MetaAssumption DEF MetaInv, TypeOK, Files
<1>b. PICK b : b = file[g].blobid
  OBVIOUS
<1>3. b = NULL => \E c \in Clients : op'[c].pc = "create_blob" /\ op'[c].f = g
  BY <1>1, <1>b DEF Local, FileInv
<1>4. b # NULL => b \in Blobs \ bs
  BY <1>1, <1>b, <1>2
<1>5. b # NULL =>
        /\ b \in DOMAIN disk'
        /\ mem'[b].deleted = file[g].is_deleted
        /\ mem'[b].name \in {NULL, file[g].name} \/ With(b, {"rename_open"})'
        /\ disk'[b] = mem'[b] \/ With(b, {"create_close", "mark", "rename_close"})'
        /\ file[g].is_deleted => file[g].ref_count > 0 \/ With(b, {"closing"})'
        /\ opens'[b] = (IF file[g].blob THEN 1 ELSE 0) + (IF With(b, Holding)' THEN 1 ELSE 0)
  <2> SUFFICES ASSUME b # NULL PROVE
        /\ b \in DOMAIN disk'
        /\ mem'[b].deleted = file[g].is_deleted
        /\ mem'[b].name \in {NULL, file[g].name} \/ With(b, {"rename_open"})'
        /\ disk'[b] = mem'[b] \/ With(b, {"create_close", "mark", "rename_close"})'
        /\ file[g].is_deleted => file[g].ref_count > 0 \/ With(b, {"closing"})'
        /\ opens'[b] = (IF file[g].blob THEN 1 ELSE 0) + (IF With(b, Holding)' THEN 1 ELSE 0)
    OBVIOUS
  <2>1. \A pcs : With(b, pcs)' <=> With(b, pcs)
    BY <1>4, FrameWith
  <2>2. /\ mem'[b] = mem[b] /\ opens'[b] = opens[b]
        /\ b \in DOMAIN disk => b \in DOMAIN disk' /\ disk'[b] = disk[b]
    BY <1>4 DEF Local
  <2>3. /\ b \in DOMAIN disk
        /\ mem[b].deleted = file[g].is_deleted
        /\ mem[b].name \in {NULL, file[g].name} \/ With(b, {"rename_open"})
        /\ disk[b] = mem[b] \/ With(b, {"create_close", "mark", "rename_close"})
        /\ file[g].is_deleted => file[g].ref_count > 0 \/ With(b, {"closing"})
        /\ opens[b] = (IF file[g].blob THEN 1 ELSE 0) + (IF With(b, Holding) THEN 1 ELSE 0)
    BY <1>1, <1>b DEF FileInv
  <2> QED
    BY <2>1, <2>2, <2>3
<1>6. ASSUME NEW c \in Clients, op'[c].b = b, b # NULL
      PROVE  op'[c].pc \notin {"create_blob", "delete_blob"} /\ Subject(c)' = g
  <2>1. op[c].b = b /\ op'[c] = op[c] /\ c \notin cs
    BY <1>4, <1>6, FrameWith
  <2>2. op[c].pc \notin {"create_blob", "delete_blob"} /\ Subject(c) = g
    BY <1>1, <1>b, <1>6, <2>1 DEF FileInv
  <2>3. Target(c)' = Target(c)
    BY <2>1 DEF Target
  <2>4. op[c].pc # "idle"
    BY <1>6, <2>1 DEF MetaInv, OpInv
  <2>5. Target(c) \in DOMAIN files /\ Target(c) \in Names
    BY <2>2, <2>4, OpFile, OpNames
  <2>6. files'[Target(c)] = files[Target(c)]
    <3>1. CASE Target(c) \notin ns
      BY <2>5, <3>1 DEF Local
    <3>2. CASE Target(c) \in ns
      <4>1. OpInv(c)'
        BY <2>1, <2>4, <2>5, <3>2, OpNames DEF Local
      <4>2. op[c].pc \in Waiting /\ op[c].f = files[Target(c)]
        BY <2>1, <2>4, <2>5, <3>2, OpNames DEF Local, MetaInv, OpInv, Subject
      <4> QED
        BY <2>1, <2>3, <4>1, <4>2 DEF OpInv, Subject
    <3> QED
      BY <3>1, <3>2
  <2> QED
    BY <2>1, <2>2, <2>3, <2>6 DEF Subject
<1>7. \A c \in file[g].open_requests : op'[c].pc \in Waiting /\ op'[c].f = g
  <2> TAKE c \in file[g].open_requests
  <2>1. op[c].pc \in Waiting /\ op[c].f = g /\ c \in Clients
    BY <1>1, <1>2 DEF FileInv
  <2>2. c \notin cs
    BY <2>1 DEF Local
  <2> QED
    BY <2>1, <2>2 DEF Local
<1>8. {c \in Clients : handle'[c] = g} = {c \in Clients : handle[c] = g}
  BY <1>2 DEF Local
<1>9. /\ file[g].ref_count = Cardinality({c \in Clients : handle'[c] = g})
                               + Cardinality(file[g].open_requests)
      /\ file[g].blob <=> \E c \in Clients : handle'[c] = g
      /\ file[g].blob => file[g].open_requests = {}
  <2>1. (\E c \in Clients : handle'[c] = g) <=> (\E c \in Clients : handle[c] = g)
    BY <1>8
  <2> QED
    BY <1>1, <1>8, <2>1 DEF FileInv
<1> QED
  BY <1>1, <1>b, <1>3, <1>5, <1>6, <1>7, <1>9 DEF FileInv

\* The writes under way when the working clients have none and make none.
LEMMA FramePersists ==
    ASSUME MetaInv, NEW cs, NEW ns, NEW f, NEW bs, Local(cs, ns, f, bs), persists' = persists,
           \A c \in cs : op[c].pc \notin Writing
    PROVE  PersistInv'
<1>1. PersistInv
  BY DEF MetaInv
<1>2. ASSUME NEW i \in DOMAIN persists
      PROVE  /\ op'[persists[i].c].pc \in Writing /\ op'[persists[i].c].b = persists[i].b
             /\ persists[i].xattrs = mem'[persists[i].b]
  <2>1. /\ persists[i].c \in Clients /\ persists[i].b \in Blobs
        /\ op[persists[i].c].pc \in Writing /\ op[persists[i].c].b = persists[i].b
        /\ persists[i].xattrs = mem[persists[i].b]
    <3>1. persists[i] \in WriteState
      BY <1>1 DEF PersistInv
    <3> QED
      BY <1>1, <3>1 DEF PersistInv, WriteState
  <2>2. persists[i].c \notin cs
    BY <2>1
  <2>3. op'[persists[i].c] = op[persists[i].c] /\ persists[i].b \notin bs
    BY <2>1, <2>2 DEF Local, Writing, Waiting
  <2> QED
    BY <2>1, <2>3 DEF Local
<1> QED
  BY <1>1, <1>2 DEF PersistInv

\* What a step about one file leaves to be shown.
LEMMA Frame ==
    ASSUME MetaInv, NEW cs, NEW ns, NEW f, NEW bs, Local(cs, ns, f, bs),
           TypeOK', op' \in [Clients -> OpState], IsFiniteSet(DOMAIN file'),
           \A n \in ns : n \in DOMAIN files' =>
             files'[n] = f /\ f \in DOMAIN file' /\ file'[f].name = n,
           f \in DOMAIN file' => file'[f].name \in ns /\ file'[f].name \in DOMAIN files',
           f \notin DOMAIN file' => \A c \in Clients : handle'[c] # f,
           \A c \in cs : OpInv(c)',
           \A c \in cs, d \in Clients : c # d =>
             /\ Concerns(c)' \cap Concerns(d)' # {} => op'[c].pc \in Waiting /\ op'[d].pc \in Waiting
             /\ op'[c].b = op'[d].b => op'[c].b = NULL,
           f \in DOMAIN file' => FileInv(f)',
           \A b \in bs : (\A g \in DOMAIN file' : file'[g].blobid # b) =>
             opens'[b] = 0 /\ (b \in DOMAIN disk' => With(b, {"delete_blob"})'),
           PersistInv',
           \A n \in DOMAIN acked' :
             \/ Lasts(n)'
             \/ /\ n \in DOMAIN acked /\ acked'[n] = acked[n] /\ n \notin ns
                /\ \A c \in cs : n \notin Concerns(c)',
           \A b \in gone' :
             \/ b \in gone /\ b \notin bs
             \/ /\ b \in DOMAIN disk' => disk'[b].deleted
                /\ \A g \in DOMAIN file' : file'[g].blobid = b => file'[g].is_deleted
    PROVE  MetaInv'
<1>1. Defined'
  BY DEF MetaInv, Defined, Local
<1>2. NameInv'
  <2>1. ASSUME NEW n \in DOMAIN files'
        PROVE  files'[n] \in DOMAIN file' /\ file'[files'[n]].name = n
    <3>1. n \in Names
      BY DEF TypeOK
    <3>2. CASE n \in ns
      BY <3>2
    <3>3. CASE n \notin ns
      <4>1. n \in DOMAIN files /\ files'[n] = files[n] /\ files[n] # f
        BY <3>1, <3>3 DEF Local
      <4>2. files[n] \in DOMAIN file /\ file[files[n]].name = n
        BY <4>1 DEF MetaInv, NameInv
      <4> QED
        BY <4>1, <4>2 DEF Local
    <3> QED
      BY <3>2, <3>3
  <2>2. ASSUME NEW g \in DOMAIN file'
        PROVE  file'[g].name \in DOMAIN files' /\ files'[file'[g].name] = g
    <3>1. CASE g = f
      BY <3>1
    <3>2. CASE g # f
      <4>1. g \in DOMAIN file /\ file'[g] = file[g]
        BY <3>2 DEF Local
      <4>2. file[g].name \in DOMAIN files /\ files[file[g].name] = g /\ file[g].name \in Names
        BY <4>1 DEF MetaInv, NameInv, TypeOK
      <4>3. CASE file[g].name \notin ns
        BY <4>1, <4>2, <4>3 DEF Local
      <4>4. CASE file[g].name \in ns
        BY <3>2, <4>2, <4>4 DEF Local
      <4> QED
        BY <4>3, <4>4
    <3> QED
      BY <3>1, <3>2
  <2>3. ASSUME NEW c \in Clients PROVE handle'[c] \in DOMAIN file' \cup {NULL}
    <3>1. handle'[c] = handle[c] \/ handle'[c] \in {f, NULL}
      BY DEF Local
    <3>2. handle[c] \in DOMAIN file \cup {NULL}
      BY DEF MetaInv, NameInv
    <3>3. \A g \in DOMAIN file : g # f => g \in DOMAIN file'
      BY DEF Local
    <3> QED
      BY <3>1, <3>2, <3>3
  <2> QED
    BY <2>1, <2>2, <2>3 DEF NameInv
<1>3. ApartInv'
  <2> SUFFICES ASSUME NEW c \in Clients, NEW d \in Clients, c # d
               PROVE  /\ Concerns(c)' \cap Concerns(d)' # {} =>
                           op'[c].pc \in Waiting /\ op'[d].pc \in Waiting
                      /\ op'[c].b = op'[d].b => op'[c].b = NULL
    BY DEF ApartInv
  <2>1. CASE c \in cs \/ d \in cs
    BY <2>1 DEF Local
  <2>2. CASE c \notin cs /\ d \notin cs
    <3>1. op'[c] = op[c] /\ op'[d] = op[d]
      BY <2>2 DEF Local
    <3>2. Concerns(c)' = Concerns(c) /\ Concerns(d)' = Concerns(d)
      BY <3>1 DEF Concerns
    <3> QED
      BY <3>1, <3>2 DEF MetaInv, ApartInv
  <2> QED
    BY <2>1, <2>2
<1>4. \A c \in Clients : OpInv(c)'
  <2> TAKE c \in Clients
  <2>1. CASE c \in cs
    BY <2>1
  <2>2. CASE c \notin cs
    BY <2>2, FrameOps
  <2> QED
    BY <2>1, <2>2
<1>5. \A g \in DOMAIN file' : FileInv(g)'
  BY FrameFiles
<1>6. BlobInv'
  <2>1. ASSUME NEW g \in DOMAIN file', NEW h \in DOMAIN file',
               file'[g].blobid = file'[h].blobid, file'[g].blobid # NULL
        PROVE  g = h
    BY <2>1 DEF Local, MetaInv, BlobInv
  <2>2. ASSUME NEW b \in Blobs, \A g \in DOMAIN file' : file'[g].blobid # b
        PROVE  /\ opens'[b] = 0
               /\ b \in DOMAIN disk' /\ mode' \in {"ready", "loading"} =>
                    b \in doomed' \/ With(b, {"delete_blob"})'
    <3>1. CASE b \in bs
      BY <2>2, <3>1
    <3>2. CASE b \notin bs
      <4>1. \A g \in DOMAIN file : file[g].blobid # b
        BY <2>2, <3>2, MetaAssumption DEF Local
      <4>2. /\ opens[b] = 0
            /\ b \in DOMAIN disk => b \in doomed \/ With(b, {"delete_blob"})
        BY <4>1 DEF MetaInv, BlobInv, Local
      <4>3. With(b, {"delete_blob"})' <=> With(b, {"delete_blob"})
        BY <3>2, FrameWith
      <4> QED
        BY <3>2, <4>2, <4>3 DEF Local
    <3> QED
      BY <3>1, <3>2
  <2> QED
    BY <2>1, <2>2 DEF BlobInv
<1>7. ModeInv'
  BY DEF MetaInv, ModeInv, Local
<1>8. AckInv'
  <2> SUFFICES ASSUME NEW n \in DOMAIN acked' PROVE Lasts(n)'
    BY DEF AckInv
  <2>1. CASE Lasts(n)'
    BY <2>1
  <2>2. CASE /\ n \in DOMAIN acked /\ acked'[n] = acked[n] /\ n \notin ns
             /\ \A c \in cs : n \notin Concerns(c)'
    <3>1. PICK b : b = acked[n]
      OBVIOUS
    <3>2. Lasts(n) /\ mode = "ready"
      BY <2>2 DEF MetaInv, AckInv, Local
    <3>3. /\ n \in Names /\ b \in DOMAIN disk /\ disk[b] = [name |-> n, deleted |-> FALSE]
          /\ n \in DOMAIN files /\ file[files[n]].blobid = b /\ ~file[files[n]].is_deleted
          /\ \A c \in Clients : n \in Concerns(c) => op[c].pc \in Waiting \cup {"list", "closing"}
      BY <3>1, <3>2 DEF Lasts
    <3>4. files'[n] = files[n] /\ n \in DOMAIN files' /\ files[n] # f /\ files[n] \in DOMAIN file
      BY <2>2, <3>3 DEF Local, MetaInv, NameInv
    <3>5. file'[files[n]] = file[files[n]] /\ b \notin bs /\ b \in Blobs
      BY <3>3, <3>4 DEF Local, MetaInv, TypeOK
    <3>6. b \in DOMAIN disk' /\ disk'[b] = disk[b] /\ mode' = "ready"
      BY <3>3, <3>5 DEF Local
    <3>7. \A c \in Clients : n \in Concerns(c)' => op'[c].pc \in Waiting \cup {"list", "closing"}
      <4> TAKE c \in Clients
      <4>1. CASE c \in cs
        BY <2>2, <4>1
      <4>2. CASE c \notin cs
        <5>1. op'[c] = op[c]
          BY <4>2 DEF Local
        <5>2. Concerns(c)' = Concerns(c)
          BY <5>1 DEF Concerns
        <5> QED
          BY <3>3, <5>1, <5>2
      <4> QED
        BY <4>1, <4>2
    <3> QED
      BY <2>2, <3>1, <3>3, <3>4, <3>5, <3>6, <3>7 DEF Lasts
  <2> QED
    BY <2>1, <2>2
<1>9. GoneInv'
  <2> SUFFICES ASSUME NEW b \in gone'
               PROVE  /\ b \in DOMAIN disk' => disk'[b].deleted
                      /\ \A g \in DOMAIN file' : file'[g].blobid = b => file'[g].is_deleted
    BY DEF GoneInv
  <2>1. CASE b \in gone /\ b \notin bs
    <3>1. b \in Blobs /\ b # NULL
      BY MetaAssumption DEF TypeOK
    <3> QED
      BY <2>1, <3>1 DEF MetaInv, GoneInv, Local
  <2> QED
    BY <2>1
<1> QED
  BY <1>1, <1>2, <1>3, <1>4, <1>5, <1>6, <1>7, <1>8, <1>9 DEF MetaInv

\* The same, with what is left to be shown under one name.
Rest(cs, ns, f, bs) ==
    /\ TypeOK' /\ op' \in [Clients -> OpState] /\ IsFiniteSet(DOMAIN file')
    /\ \A n \in ns : n \in DOMAIN files' =>
         files'[n] = f /\ f \in DOMAIN file' /\ file'[f].name = n
    /\ f \in DOMAIN file' =>
         file'[f].name \in ns /\ file'[f].name \in DOMAIN files' /\ FileInv(f)'
    /\ f \notin DOMAIN file' => \A c \in Clients : handle'[c] # f
    /\ \A c \in cs : OpInv(c)'
    /\ \A c \in cs, d \in Clients : c # d =>
         /\ Concerns(c)' \cap Concerns(d)' # {} => op'[c].pc \in Waiting /\ op'[d].pc \in Waiting
         /\ op'[c].b = op'[d].b => op'[c].b = NULL
    /\ \A b \in bs : (\A g \in DOMAIN file' : file'[g].blobid # b) =>
         opens'[b] = 0 /\ (b \in DOMAIN disk' => With(b, {"delete_blob"})')
    /\ PersistInv'
    /\ \A n \in DOMAIN acked' :
         \/ Lasts(n)'
         \/ /\ n \in DOMAIN acked /\ acked'[n] = acked[n] /\ n \notin ns
            /\ \A c \in cs : n \notin Concerns(c)'
    /\ \A b \in gone' :
         \/ b \in gone /\ b \notin bs
         \/ /\ b \in DOMAIN disk' => disk'[b].deleted
            /\ \A g \in DOMAIN file' : file'[g].blobid = b => file'[g].is_deleted

LEMMA FrameRest ==
    ASSUME MetaInv, NEW cs, NEW ns, NEW f, NEW bs, Local(cs, ns, f, bs), Rest(cs, ns, f, bs)
    PROVE  MetaInv'
BY Frame DEF Rest

-----------------------------------------------------------------------------
(* Facts for the single steps.                                               *)

\* A call that does not open has its names and its blob to itself.
LEMMA Alone ==
    ASSUME MetaInv, NEW c \in Clients, op[c].pc \notin Waiting
    PROVE  \A d \in Clients \ {c} :
             Concerns(d) \cap Concerns(c) = {} /\ (op[c].b # NULL => op[d].b # op[c].b)
BY DEF MetaInv, ApartInv

\* The names, blobs and other fields of the files.
LEMMA FileFacts ==
    ASSUME MetaInv, NEW f \in DOMAIN file
    PROVE  /\ f \in Files /\ f # NULL /\ FileInv(f)
           /\ file[f] \in FileState
           /\ file[f].name \in DOMAIN files /\ files[file[f].name] = f
           /\ \A n \in DOMAIN files : files[n] = f => n = file[f].name
           /\ \A g \in DOMAIN file : file[g].blobid = file[f].blobid /\ file[f].blobid # NULL => g = f
<1>1. f \in Files /\ f # NULL
  BY MetaAssumption DEF MetaInv, TypeOK, Files
<1> QED
  BY <1>1 DEF MetaInv, TypeOK, NameInv, BlobInv, FileState

LEMMA Types ==
    ASSUME MetaInv
    PROVE  /\ op \in [Clients -> OpState] /\ handle \in [Clients -> Files \cup {NULL}]
           /\ opens \in [Blobs -> Nat] /\ mem \in [Blobs -> Xattrs]
           /\ DOMAIN disk \subseteq Blobs /\ \A b \in DOMAIN disk : disk[b] \in Xattrs
           /\ DOMAIN files \subseteq Names /\ \A n \in DOMAIN files : files[n] \in DOMAIN file
           /\ \A b \in Blobs : b \in Nat /\ b # NULL /\ b # 0
           /\ NULL \notin Names /\ NULL \notin Clients /\ NULL \notin Files
           /\ gone \subseteq Blobs /\ ub = "none"
BY MetaAssumption DEF MetaInv, TypeOK, NameInv, Defined, Files

\* A failure is one of a resize.
LEMMA Succeeds ==
    ASSUME Orderly
    PROVE  Outcomes("open") = {TRUE} /\ Outcomes("create") = {TRUE}
BY DEF Orderly, Outcomes

\* A call that creates, marks, renames, closes or lists is alone on its file.
LEMMA Busy ==
    ASSUME MetaInv, NEW c \in Clients,
           op[c].pc \notin Waiting \cup {"idle", "delete_blob"}
    PROVE  /\ \A d \in Clients \ {c} : Target(c) \notin Concerns(d)
           /\ \A d \in Clients : op[d].pc \in Waiting => op[d].f # Subject(c)
           /\ file[Subject(c)].open_requests = {}
<1>1. \A d \in Clients \ {c} : Target(c) \notin Concerns(d)
  BY Alone, OpNames
<1>2. ASSUME NEW d \in Clients, op[d].pc \in Waiting PROVE op[d].f # Subject(c)
  <2>1. d # c
    BY <1>2
  <2>2. op[d].pc \notin {"idle", "delete_blob"}
    BY <1>2 DEF Waiting
  <2>3. Target(d) \in Concerns(d) /\ op[d].f = Subject(d)
    BY <1>2, <2>2, OpNames DEF MetaInv, OpInv
  <2>4. file[Subject(d)].name = Target(d) /\ file[Subject(c)].name = Target(c)
    BY <2>2, OpFile
  <2> QED
    BY <1>1, <2>1, <2>3, <2>4
<1>3. file[Subject(c)].open_requests = {}
  <2>1. FileInv(Subject(c)) /\ file[Subject(c)].open_requests \subseteq Clients
    BY OpFile, FileFacts DEF FileState
  <2> QED
    BY <1>2, <2>1 DEF FileInv
<1> QED
  BY <1>1, <1>2, <1>3

\* The only call that has blob b is that of c.
LEMMA WithOne ==
    ASSUME NEW c \in Clients, NEW b, \A d \in Clients \ {c} : op[d].b # b
    PROVE  \A pcs : With(b, pcs) <=> op[c].b = b /\ op[c].pc \in pcs
BY DEF With

LEMMA WithOnePrimed ==
    ASSUME NEW c \in Clients, NEW b, \A d \in Clients \ {c} : op'[d].b # b
    PROVE  \A pcs : With(b, pcs)' <=> op'[c].b = b /\ op'[c].pc \in pcs
BY DEF With

\* The writes under way: what is needed of a step of client c about blob b.
Apart(c, b) ==
    /\ \A d \in Clients \ {c} : op'[d] = op[d] /\ (op[d].pc \in Writing => op[d].b # b)
    /\ \A a \in Blobs \ {b} : mem'[a] = mem[a]

LEMMA WriteFacts ==
    ASSUME MetaInv, NEW i \in DOMAIN persists
    PROVE  /\ persists \in Seq(WriteState)
           /\ persists[i] \in WriteState
           /\ persists[i].c \in Clients /\ persists[i].b \in Blobs
           /\ op[persists[i].c].pc \in Writing /\ op[persists[i].c].b = persists[i].b
           /\ persists[i].xattrs = mem[persists[i].b]
           /\ \A j \in DOMAIN persists : persists[i].c = persists[j].c => i = j
<1>1. PersistInv
  BY DEF MetaInv
<1>2. persists[i] \in WriteState
  BY <1>1 DEF PersistInv
<1> QED
  BY <1>1, <1>2 DEF PersistInv, WriteState

LEMMA OtherWrite ==
    ASSUME MetaInv, NEW c \in Clients, NEW b, Apart(c, b), NEW i \in DOMAIN persists,
           persists[i].c # c
    PROVE  /\ op'[persists[i].c].pc \in Writing /\ op'[persists[i].c].b = persists[i].b
           /\ persists[i].xattrs = mem'[persists[i].b]
BY WriteFacts DEF Apart

LEMMA PersistKeep ==
    ASSUME MetaInv, NEW c \in Clients, NEW b, Apart(c, b), op[c].pc \notin Writing,
           persists' = persists
    PROVE  PersistInv'
<1>1. \A i \in DOMAIN persists : persists[i].c # c
  BY WriteFacts
<1>2. PersistInv
  BY DEF MetaInv
<1> QED
  BY <1>1, <1>2, OtherWrite DEF PersistInv

LEMMA PersistWrite ==
    ASSUME MetaInv, NEW c \in Clients, NEW b \in Blobs, NEW x \in Xattrs, Apart(c, b),
           op[c].pc \notin Writing, op'[c].pc \in Writing, op'[c].b = b, mem'[b] = x,
           persists' = Write(persists, c, b, x)
    PROVE  PersistInv'
<1> DEFINE w == [c |-> c, b |-> b, xattrs |-> x]
<1>1. \A i \in DOMAIN persists : persists[i].c # c
  BY WriteFacts
<1>2. PersistInv /\ persists \in Seq(WriteState) /\ w \in WriteState
  BY DEF MetaInv, PersistInv, WriteState
<1>3. persists' = Append(persists, w)
  BY DEF Write
<1>4. w.c = c /\ w.b = b /\ w.xattrs = x
  OBVIOUS
<1> HIDE DEF w
<1>5. /\ persists' \in Seq(WriteState) /\ DOMAIN persists' = DOMAIN persists \cup {Len(persists) + 1}
      /\ \A i \in DOMAIN persists : persists'[i] = persists[i]
      /\ persists'[Len(persists) + 1] = w
  BY <1>2, <1>3
<1>6. ASSUME NEW i \in DOMAIN persists'
      PROVE  /\ op'[persists'[i].c].pc \in Writing /\ op'[persists'[i].c].b = persists'[i].b
             /\ persists'[i].xattrs = mem'[persists'[i].b]
  <2>1. CASE i \in DOMAIN persists
    <3>1. persists'[i] = persists[i]
      BY <1>5, <2>1
    <3> QED
      BY <1>1, <2>1, <3>1, OtherWrite
  <2>2. CASE i = Len(persists) + 1
    BY <1>4, <1>5, <2>2
  <2> QED
    BY <1>5, <2>1, <2>2
<1>7. \A i, j \in DOMAIN persists' : persists'[i].c = persists'[j].c => i = j
  <2>1. \A i, j \in DOMAIN persists : persists[i].c = persists[j].c => i = j
    BY WriteFacts
  <2> QED
    BY <1>1, <1>4, <1>5, <2>1
<1> QED
  BY <1>5, <1>6, <1>7 DEF PersistInv

\* The write of c is done: the blob on the device is that in memory.
LEMMA PersistDone ==
    ASSUME MetaInv, NEW c \in Clients, NEW b, Apart(c, b), Persisted(c), persists' = Pending(c)
    PROVE  PersistInv'
<1>1. PICK i \in DOMAIN persists : persists[i].c = c
  BY DEF Persisted
<1> DEFINE k == CHOOSE j \in DOMAIN persists : persists[j].c = c
<1>2. k \in DOMAIN persists /\ persists[k].c = c
  BY <1>1
<1>3. persists' = Without(persists, k)
  BY DEF Pending
<1> HIDE DEF k
<1>4. persists \in Seq(WriteState) /\ \A j \in DOMAIN persists : persists[j].c = c => j = k
  BY <1>2, WriteFacts
<1>5. /\ persists' \in Seq(WriteState) /\ Len(persists') = Len(persists) - 1
      /\ \A j \in DOMAIN persists' : persists'[j] = IF j < k THEN persists[j] ELSE persists[j + 1]
  BY <1>2, <1>3, <1>4, WithoutType
<1>6. k \in 1 .. Len(persists) /\ DOMAIN persists = 1 .. Len(persists) /\ Len(persists) \in Nat
      /\ DOMAIN persists' = 1 .. Len(persists')
  BY <1>2, <1>4, <1>5
<1>7. ASSUME NEW j \in DOMAIN persists'
      PROVE  \E l \in DOMAIN persists : /\ l # k /\ persists'[j] = persists[l]
                                        /\ l = IF j < k THEN j ELSE j + 1
  <2>1. CASE j < k
    BY <1>5, <1>6, <2>1
  <2>2. CASE ~(j < k)
    BY <1>5, <1>6, <2>2
  <2> QED
    BY <2>1, <2>2
<1>8. ASSUME NEW j \in DOMAIN persists'
      PROVE  /\ op'[persists'[j].c].pc \in Writing /\ op'[persists'[j].c].b = persists'[j].b
             /\ persists'[j].xattrs = mem'[persists'[j].b]
  <2>1. PICK l \in DOMAIN persists : l # k /\ persists'[j] = persists[l]
    BY <1>7
  <2>2. persists[l].c # c
    BY <1>4, <2>1
  <2> QED
    BY <2>1, <2>2, OtherWrite
<1>9. ASSUME NEW j \in DOMAIN persists', NEW m \in DOMAIN persists',
             persists'[j].c = persists'[m].c
      PROVE  j = m
  <2>1. PICK l \in DOMAIN persists :
          persists'[j] = persists[l] /\ l # k /\ l = IF j < k THEN j ELSE j + 1
    BY <1>7
  <2>2. PICK h \in DOMAIN persists :
          persists'[m] = persists[h] /\ h # k /\ h = IF m < k THEN m ELSE m + 1
    BY <1>7
  <2>3. l = h
    BY <1>9, <2>1, <2>2, WriteFacts
  <2>4. j \in Nat /\ m \in Nat /\ k \in Nat
    BY <1>5, <1>6
  <2> QED
    BY <2>1, <2>2, <2>3, <2>4
<1> QED
  BY <1>5, <1>8, <1>9 DEF PersistInv

LEMMA DiskDone ==
    ASSUME MetaInv, NEW c \in Clients, Persisted(c)
    PROVE  /\ disk' = [disk EXCEPT ![op[c].b] = mem[op[c].b]]
           /\ op[c].b \in DOMAIN disk /\ op[c].b \in Blobs /\ op[c].pc \in Writing
           /\ DOMAIN disk' = DOMAIN disk /\ disk'[op[c].b] = mem[op[c].b]
           /\ \A a \in DOMAIN disk : a # op[c].b => disk'[a] = disk[a]
<1>1. PICK i \in DOMAIN persists :
        persists[i].c = c /\ disk' = [disk EXCEPT ![persists[i].b] = persists[i].xattrs]
  BY DEF Persisted
<1>2. op[c].b = persists[i].b /\ persists[i].xattrs = mem[op[c].b] /\ op[c].pc \in Writing
  BY <1>1, WriteFacts
<1>3. op[c].b \in DOMAIN disk /\ op[c].b \in Blobs
  BY <1>2, OpBlob DEF Writing
<1> QED
  BY <1>1, <1>2, <1>3

-----------------------------------------------------------------------------
(* Steps of a call that has its file to itself and keeps it.                 *)

\* The call of c works on its file f with blob b and leaves all others alone.
OnFile(c, f, b) ==
    /\ c \in Clients /\ op[c].pc \notin Waiting \cup {"idle", "delete_blob", "list"}
    /\ f = Subject(c) /\ b = op[c].b
    /\ mode = "ready" /\ UNCHANGED <<mode, files, handle, doomed, ub>>
    /\ op' \in [Clients -> OpState]
    /\ \A d \in Clients \ {c} : op'[d] = op[d]
    /\ op'[c].b \in {NULL, b} /\ Concerns(c)' \subseteq Concerns(c)
    /\ DOMAIN file' = DOMAIN file
    /\ \A g \in DOMAIN file : g # f => file'[g] = file[g]
    /\ file'[f].name = file[f].name /\ file'[f].blobid = b
    /\ mem' \in [Blobs -> Xattrs] /\ opens' \in [Blobs -> Nat]
    /\ \A a \in Blobs \ {b} : mem'[a] = mem[a] /\ opens'[a] = opens[a]
    /\ DOMAIN disk' = DOMAIN disk \cup {b} /\ disk'[b] \in Xattrs
    /\ \A a \in DOMAIN disk : a # b => disk'[a] = disk[a]

LEMMA OnFileFacts ==
    ASSUME MetaInv, NEW c, NEW f, NEW b, OnFile(c, f, b)
    PROVE  /\ f \in DOMAIN file /\ FileInv(f) /\ file[f].open_requests = {}
           /\ b \in Blobs /\ b # NULL /\ file[f].blobid \in {NULL, b}
           /\ Target(c) = file[f].name /\ Target(c) \in DOMAIN files /\ files[Target(c)] = f
           /\ \A d \in Clients \ {c} : op[d].b # b /\ op'[d].b # b /\ Target(c) \notin Concerns(d)
           /\ \A g \in DOMAIN file : g # f => file[g].blobid # b
<1>1. c \in Clients /\ op[c].pc \notin Waiting \cup {"idle", "delete_blob", "list"} /\ op[c] \in OpState
  BY DEF OnFile, MetaInv
<1>2. f \in DOMAIN file /\ FileInv(f) /\ file[f].open_requests = {}
      /\ Target(c) = file[f].name /\ Target(c) \in DOMAIN files /\ files[Target(c)] = f
  BY <1>1, OpFile, Busy DEF OnFile, Subject
<1>3. b \in Blobs /\ b # NULL
  BY <1>1 DEF OnFile, MetaInv, OpInv, OpState, Waiting
<1>4. file[f].blobid \in {NULL, b}
  <2>1. OpInv(c) /\ f = Subject(c) /\ b = op[c].b
    BY <1>1 DEF OnFile, MetaInv
  <2>2. CASE op[c].pc = "create_blob"
    BY <2>1, <2>2 DEF OpInv, IsNew
  <2>3. CASE op[c].pc # "create_blob"
    BY <1>1, <2>1, <2>3 DEF OpInv, Waiting
  <2> QED
    BY <2>2, <2>3
<1>5. \A d \in Clients \ {c} : op[d].b # b /\ op'[d].b # b /\ Target(c) \notin Concerns(d)
  BY <1>1, <1>3, Alone, Busy DEF OnFile
<1>6. ASSUME NEW g \in DOMAIN file, g # f PROVE file[g].blobid # b
  <2>1. FileInv(g)
    BY DEF MetaInv
  <2>2. Subject(c) # g
    BY <1>6 DEF OnFile
  <2> QED
    BY <1>1, <1>3, <2>1, <2>2 DEF FileInv, OnFile
<1> QED
  BY <1>1, <1>2, <1>3, <1>4, <1>5, <1>6

LEMMA FrameOnFile ==
    ASSUME MetaInv, NEW c, NEW f, NEW b, OnFile(c, f, b), OpInv(c)', FileInv(f)',
           file'[f] \in FileState,
           PersistInv',
           gone' \subseteq gone \cup {b}, b \in gone' => disk'[b].deleted /\ file'[f].is_deleted,
           \A n \in DOMAIN acked' :
             \/ Lasts(n)'
             \/ n \in DOMAIN acked /\ acked'[n] = acked[n] /\ n \notin Concerns(c)
    PROVE  MetaInv'
<1>1. /\ f \in DOMAIN file /\ FileInv(f) /\ b \in Blobs /\ b # NULL
      /\ file[f].blobid \in {NULL, b}
      /\ Target(c) = file[f].name /\ Target(c) \in DOMAIN files /\ files[Target(c)] = f
      /\ \A d \in Clients \ {c} : op[d].b # b /\ op'[d].b # b /\ Target(c) \notin Concerns(d)
      /\ \A g \in DOMAIN file : g # f => file[g].blobid # b
  BY OnFileFacts
<1>2. c \in Clients /\ Target(c) \in Concerns(c) /\ Target(c) \in Names
  BY OpNames DEF OnFile
<1>n. PICK n : n = Target(c)
  OBVIOUS
<1>3. \A m \in DOMAIN files : files[m] = f => m = n
  BY <1>1, <1>n, FileFacts
<1>4. Local({c}, {n}, f, {b})
  <2>1. op[c].pc \notin Waiting \cup {"create_blob"} \/ op[c].f = f
    BY <1>2 DEF MetaInv, OpInv, OnFile, Creating
  <2>2. \A d \in Clients \ {c} : Concerns(d) \cap {n} = {} /\ op[d].b \notin {b}
    BY <1>1, <1>n
  <2>3. \A m \in Names \ {n} : m \in DOMAIN files => files'[m] = files[m] /\ files[m] # f
    BY <1>3 DEF OnFile
  <2>4. \A a \in Blobs \ {b} : /\ mem'[a] = mem[a] /\ opens'[a] = opens[a]
                               /\ a \in DOMAIN disk' <=> a \in DOMAIN disk
                               /\ a \in DOMAIN disk => disk'[a] = disk[a]
    BY DEF OnFile
  <2>5. \A g \in DOMAIN file \cup DOMAIN file' : g # f =>
          /\ g \in DOMAIN file /\ g \in DOMAIN file' /\ file'[g] = file[g]
          /\ file[g].blobid \notin {b}
    BY <1>1 DEF OnFile
  <2>6. op[c].b \in {b} \cup {NULL} /\ op'[c].b \in {b} \cup {NULL}
    BY DEF OnFile
  <2>7. mode = "ready" /\ mode' = mode /\ files' = files /\ handle' = handle /\ doomed' = doomed
        /\ ub' = ub /\ file'[f].blobid = b /\ \A d \in Clients \ {c} : op'[d] = op[d]
    BY DEF OnFile
  <2> QED
    BY <1>1, <1>2, <1>n, <2>1, <2>2, <2>3, <2>4, <2>5, <2>6, <2>7 DEF Local
<1>5. TypeOK'
  <2>1. \A g \in DOMAIN file' : g \in Files /\
          file'[g] \in FileState
    BY FileFacts DEF OnFile
  <2>2. DOMAIN disk' \subseteq Blobs /\ \A a \in DOMAIN disk' : disk'[a] \in Xattrs
    BY <1>1, Types DEF OnFile
  <2>3. gone' \subseteq Blobs
    BY <1>1, Types
  <2>4. mode' = mode /\ files' = files /\ handle' = handle /\ doomed' = doomed
        /\ mem' \in [Blobs -> Xattrs] /\ opens' \in [Blobs -> Nat]
    BY DEF OnFile
  <2> QED
    BY <2>1, <2>2, <2>3, <2>4 DEF MetaInv, TypeOK, FileState
<1>6. IsFiniteSet(DOMAIN file')
  BY DEF MetaInv, NameInv, OnFile
<1>7. /\ \A m \in {n} : m \in DOMAIN files' =>
             files'[m] = f /\ f \in DOMAIN file' /\ file'[f].name = m
      /\ f \in DOMAIN file' => file'[f].name \in {n} /\ file'[f].name \in DOMAIN files'
      /\ f \in DOMAIN file'
  BY <1>1, <1>n DEF OnFile
<1>8. ASSUME NEW d \in Clients, c # d
      PROVE  /\ Concerns(c)' \cap Concerns(d)' # {} => op'[c].pc \in Waiting /\ op'[d].pc \in Waiting
             /\ op'[c].b = op'[d].b => op'[c].b = NULL
  <2>1. Concerns(d)' = Concerns(d) /\ op'[d] = op[d]
    BY <1>8 DEF OnFile, Concerns
  <2>2. Concerns(d) \cap Concerns(c) = {}
    BY <1>2, <1>8, Alone DEF OnFile
  <2> QED
    BY <1>1, <1>8, <2>1, <2>2 DEF OnFile
<1>9. \A a \in {b} : (\A g \in DOMAIN file' : file'[g].blobid # a) =>
             opens'[a] = 0 /\ (a \in DOMAIN disk' => With(a, {"delete_blob"})')
  BY <1>1 DEF OnFile
<1>10. \A m \in DOMAIN acked' :
          \/ Lasts(m)'
          \/ /\ m \in DOMAIN acked /\ acked'[m] = acked[m] /\ m \notin {n}
             /\ \A e \in {c} : m \notin Concerns(e)'
  <2> SUFFICES ASSUME NEW m \in DOMAIN acked'
               PROVE  \/ Lasts(m)'
                      \/ /\ m \in DOMAIN acked /\ acked'[m] = acked[m] /\ m \notin {n}
                         /\ m \notin Concerns(c)'
    OBVIOUS
  <2>1. Concerns(c)' \subseteq Concerns(c)
    BY DEF OnFile
  <2> QED
    BY <1>2, <1>n, <2>1
<1>11. \A a \in gone' :
          \/ a \in gone /\ a \notin {b}
          \/ /\ a \in DOMAIN disk' => disk'[a].deleted
             /\ \A g \in DOMAIN file' : file'[g].blobid = a => file'[g].is_deleted
  BY <1>1 DEF OnFile
<1>12. op' \in [Clients -> OpState]
  BY DEF OnFile
<1>13. \A e \in {c}, d \in Clients : e # d =>
             /\ Concerns(e)' \cap Concerns(d)' # {} => op'[e].pc \in Waiting /\ op'[d].pc \in Waiting
             /\ op'[e].b = op'[d].b => op'[e].b = NULL
  BY <1>8
<1>14. \A e \in {c} : OpInv(e)'
  OBVIOUS
<1> QED
  BY <1>4, <1>5, <1>6, <1>7, <1>9, <1>10, <1>11, <1>12, <1>13, <1>14, Frame

\* The file itself, when its handles stay.
LEMMA FileOnFile ==
    ASSUME MetaInv, NEW c, NEW f, NEW b, OnFile(c, f, b),
           file'[f].ref_count = file[f].ref_count, file'[f].blob = file[f].blob,
           file'[f].open_requests = {}, file'[f].is_deleted = mem'[b].deleted,
           op'[c].b # NULL => /\ Subject(c)' = f
                              /\ op'[c].pc \notin {"create_blob", "delete_blob"},
           \/ mem'[b].name \in {NULL, file[f].name}
           \/ op'[c].b = b /\ op'[c].pc = "rename_open",
           \/ disk'[b] = mem'[b]
           \/ op'[c].b = b /\ op'[c].pc \in {"create_close", "mark", "rename_close"},
           file'[f].is_deleted =>
             file[f].ref_count > 0 \/ (op'[c].b = b /\ op'[c].pc = "closing"),
           opens'[b] = (IF file[f].blob THEN 1 ELSE 0)
                         + (IF op'[c].b = b /\ op'[c].pc \in Holding THEN 1 ELSE 0)
    PROVE  FileInv(f)'
<1>1. /\ FileInv(f) /\ b # NULL /\ c \in Clients /\ b \in DOMAIN disk'
      /\ \A d \in Clients \ {c} : op'[d].b # b
      /\ file[f].open_requests = {}
  BY OnFileFacts DEF OnFile
<1>2. \A pcs : With(b, pcs)' <=> op'[c].b = b /\ op'[c].pc \in pcs
  BY <1>1, WithOnePrimed
<1>3. /\ file[f].ref_count = Cardinality({e \in Clients : handle[e] = f}) + Cardinality({})
      /\ file[f].blob <=> \E e \in Clients : handle[e] = f
  BY <1>1 DEF FileInv
<1>4. file'[f].name = file[f].name /\ file'[f].blobid = b /\ handle' = handle
  BY DEF OnFile
<1>5. \A d \in Clients : op'[d].b = b =>
        op'[d].pc \notin {"create_blob", "delete_blob"} /\ Subject(d)' = f
  BY <1>1
<1>6. /\ mem'[b].name \in {NULL, file'[f].name} \/ With(b, {"rename_open"})'
      /\ disk'[b] = mem'[b] \/ With(b, {"create_close", "mark", "rename_close"})'
      /\ file'[f].is_deleted => file'[f].ref_count > 0 \/ With(b, {"closing"})'
      /\ opens'[b] = (IF file'[f].blob THEN 1 ELSE 0) + (IF With(b, Holding)' THEN 1 ELSE 0)
  BY <1>2, <1>4
<1> QED
  BY <1>1, <1>3, <1>4, <1>5, <1>6 DEF FileInv

\* What a call that creates has before it.
LEMMA CreateFacts ==
    ASSUME MetaInv, NEW c \in Clients, op[c].pc \in Creating
    PROVE  /\ op[c] \in OpState /\ op[c].pc \notin Waiting \cup {"idle", "delete_blob", "list"}
           /\ op[c].new = NULL /\ Target(c) = op[c].name /\ op[c].name \in Names
           /\ Concerns(c) = {op[c].name} /\ op[c].f = Subject(c) /\ op[c].then \in {"return", "open"}
           /\ op[c].then = "open" => handle[c] = NULL
           /\ Subject(c) \in DOMAIN file /\ file[Subject(c)].name = op[c].name
           /\ op[c].b \in Blobs
           /\ op[c].pc = "create_blob" =>
                IsNew(file[Subject(c)], op[c].name, NULL) /\ op[c].b \notin DOMAIN disk
           /\ op[c].pc # "create_blob" =>
                /\ IsNew(file[Subject(c)], op[c].name, op[c].b) /\ op[c].b \in DOMAIN disk
                /\ disk[op[c].b] = NoXattrs /\ ~mem[op[c].b].deleted
                /\ mem[op[c].b].name \in {NULL, op[c].name}
                /\ op[c].pc # "create_close" => mem[op[c].b] = NoXattrs
                /\ opens[op[c].b] = IF op[c].pc = "create_open" THEN 0 ELSE 1
           /\ \A n \in DOMAIN acked : n # op[c].name
<1>1. op[c] \in OpState /\ OpInv(c) /\ op[c].pc \notin Waiting \cup {"idle", "delete_blob", "list"}
  BY DEF MetaInv, Creating, Waiting
<1>2. op[c].new = NULL /\ Target(c) = op[c].name /\ op[c].name \in Names /\ Concerns(c) = {op[c].name}
  BY <1>1 DEF OpInv, OpState, Creating, Renaming, Target, Concerns
<1>3. op[c].f = Subject(c) /\ op[c].then \in {"return", "open"}
      /\ (op[c].then = "open" => handle[c] = NULL)
  BY <1>1 DEF OpInv, OpState, Creating, Renaming
<1>4. Subject(c) \in DOMAIN file /\ file[Subject(c)].name = op[c].name /\ FileInv(Subject(c))
  BY <1>1, <1>2, OpFile
<1>5. op[c].b \in Blobs /\ op[c].b # NULL
  BY <1>1 DEF OpInv, OpState, Waiting
<1>6. op[c].pc = "create_blob" =>
        IsNew(file[Subject(c)], op[c].name, NULL) /\ op[c].b \notin DOMAIN disk
  BY <1>1, <1>2 DEF OpInv
<1>7. ASSUME op[c].pc # "create_blob"
      PROVE  /\ IsNew(file[Subject(c)], op[c].name, op[c].b) /\ op[c].b \in DOMAIN disk
             /\ disk[op[c].b] = NoXattrs /\ ~mem[op[c].b].deleted
             /\ mem[op[c].b].name \in {NULL, op[c].name}
             /\ op[c].pc # "create_close" => mem[op[c].b] = NoXattrs
             /\ opens[op[c].b] = IF op[c].pc = "create_open" THEN 0 ELSE 1
  <2>1. IsNew(file[Subject(c)], op[c].name, op[c].b) /\ disk[op[c].b] = NoXattrs
    BY <1>1, <1>2, <1>7 DEF OpInv, Creating
  <2>2. file[Subject(c)].blobid = op[c].b /\ ~file[Subject(c)].blob /\ ~file[Subject(c)].is_deleted
    BY <2>1 DEF IsNew
  <2>b. PICK b : b = op[c].b
    OBVIOUS
  <2>3. \A pcs : With(b, pcs) <=> op[c].b = b /\ op[c].pc \in pcs
    <3>1. \A d \in Clients \ {c} : op[d].b # b
      BY <1>1, <1>5, <2>b, Alone
    <3> QED
      BY <3>1, WithOne
  <2>4. /\ b \in DOMAIN disk /\ mem[b].deleted = FALSE
        /\ mem[b].name \in {NULL, op[c].name} \/ With(b, {"rename_open"})
        /\ disk[b] = mem[b] \/ With(b, {"create_close", "mark", "rename_close"})
        /\ opens[b] = 0 + (IF With(b, Holding) THEN 1 ELSE 0)
    BY <1>4, <1>5, <2>2, <2>b, Types DEF FileInv
  <2> QED
    BY <1>7, <2>1, <2>3, <2>4, <2>b DEF Creating, Holding
<1>8. \A n \in DOMAIN acked : n # op[c].name
  BY <1>1, <1>2 DEF MetaInv, AckInv, Lasts, Waiting, Creating
<1> QED
  BY <1>1, <1>2, <1>3, <1>4, <1>5, <1>6, <1>7, <1>8

\* fs_create_blob_open_cb.
LEMMA CreateOpenedMeta ==
    ASSUME Orderly, MetaInv, NEW c \in Clients, CreateOpened(c)
    PROVE  MetaInv'
<1>1. /\ mode = "ready" /\ op[c].pc = "create_open"
      /\ opens' = [opens EXCEPT ![op[c].b] = @ + 1]
      /\ op' = [op EXCEPT ![c].pc = "create_resize"]
      /\ UNCHANGED <<file, handle, ub, mode, files, persists, mem, disk, doomed, acked, gone>>
  <2>1. PICK ok \in Outcomes("open") :
          IF ~ok THEN CreateOver(c, opens)
          ELSE /\ opens' = [opens EXCEPT ![op[c].b] = @ + 1]
               /\ op' = [op EXCEPT ![c].pc = "create_resize"]
               /\ UNCHANGED <<file, handle, ub>>
    BY DEF CreateOpened
  <2>2. ok = TRUE
    BY Succeeds
  <2> QED
    BY <2>1, <2>2 DEF CreateOpened, Ready, ghostVars
<1>2. PICK f, b : f = Subject(c) /\ b = op[c].b
  OBVIOUS
<1>3. /\ op[c] \in OpState /\ op[c].pc \notin Waiting \cup {"idle", "delete_blob", "list"}
      /\ op[c].new = NULL /\ op[c].name \in Names /\ Concerns(c) = {op[c].name}
      /\ op[c].f = f /\ op[c].then \in {"return", "open"}
      /\ op[c].then = "open" => handle[c] = NULL
      /\ f \in DOMAIN file /\ file[f].name = op[c].name
      /\ b \in Blobs /\ IsNew(file[f], op[c].name, b) /\ b \in DOMAIN disk
      /\ disk[b] = NoXattrs /\ mem[b] = NoXattrs /\ opens[b] = 0
      /\ \A n \in DOMAIN acked : n # op[c].name
  BY <1>1, <1>2, CreateFacts DEF Creating
<1>4. op'[c] = [op[c] EXCEPT !.pc = "create_resize"] /\ op' \in [Clients -> OpState]
      /\ \A d \in Clients \ {c} : op'[d] = op[d]
  BY <1>1, <1>3, Types DEF OpState, Calls, Creating
<1>5. /\ op'[c].b = b /\ op'[c].pc = "create_resize" /\ op'[c].name = op[c].name /\ op'[c].new = NULL
      /\ op'[c].f = f /\ op'[c].then = op[c].then
  BY <1>2, <1>3, <1>4 DEF OpState
<1>6. Target(c)' = op[c].name /\ Subject(c)' = f /\ Concerns(c)' = Concerns(c)
      /\ op[c].name \in DOMAIN files
  BY <1>1, <1>2, <1>3, <1>5, OpFile DEF Target, Subject, Concerns
<1>7. opens' \in [Blobs -> Nat] /\ opens'[b] = 1 /\ \A a \in Blobs \ {b} : opens'[a] = opens[a]
  BY <1>1, <1>2, <1>3, Types
<1>8. OnFile(c, f, b)
  <2>1. file[f].blobid = b
    BY <1>3 DEF IsNew
  <2>2. disk[b] \in Xattrs /\ mem \in [Blobs -> Xattrs] /\ DOMAIN disk = DOMAIN disk \cup {b}
    <3>1. disk[b] \in Xattrs /\ mem \in [Blobs -> Xattrs]
      BY <1>3, Types
    <3>2. DOMAIN disk = DOMAIN disk \cup {b}
      BY <1>3
    <3> QED
      BY <3>1, <3>2
  <2> QED
    BY <1>1, <1>2, <1>3, <1>4, <1>5, <1>6, <1>7, <2>1, <2>2 DEF OnFile
<1>9. OpInv(c)'
  BY <1>1, <1>3, <1>5, <1>6, Types DEF OpInv, Waiting, Creating, Renaming, IsNew
<1>10. FileInv(f)'
  <2>1. /\ file' = file /\ file[f].ref_count = 0 /\ file[f].blob = FALSE
        /\ file[f].open_requests = {} /\ file[f].is_deleted = FALSE
    BY <1>1, <1>3 DEF IsNew
  <2>2. mem'[b] = NoXattrs /\ disk'[b] = NoXattrs /\ mem'[b].deleted = FALSE /\ mem'[b].name = NULL
    BY <1>1, <1>3 DEF NoXattrs
  <2>3. file'[f].ref_count = file[f].ref_count /\ file'[f].blob = file[f].blob
        /\ file'[f].is_deleted = mem'[b].deleted
    BY <2>1, <2>2
  <2>4. opens'[b] = (IF file[f].blob THEN 1 ELSE 0)
                         + (IF op'[c].b = b /\ op'[c].pc \in Holding THEN 1 ELSE 0)
    BY <1>5, <1>7, <2>1 DEF Holding
  <2>5. /\ op'[c].b # NULL => Subject(c)' = f /\ op'[c].pc \notin {"create_blob", "delete_blob"}
        /\ mem'[b].name \in {NULL, file[f].name}
        /\ disk'[b] = mem'[b]
        /\ file'[f].is_deleted =>
             file[f].ref_count > 0 \/ (op'[c].b = b /\ op'[c].pc = "closing")
    BY <1>5, <1>6, <2>1, <2>2
  <2> QED
    BY <1>8, <2>1, <2>3, <2>4, <2>5, FileOnFile
<1>11. PersistInv'
  <2>1. Apart(c, b)
    BY <1>1, <1>2, <1>3, <1>4, <1>8, OnFileFacts DEF Apart
  <2> QED
    BY <1>1, <2>1, PersistKeep DEF Writing
<1>12. b \notin gone
  BY <1>3 DEF MetaInv, GoneInv, NoXattrs
<1> QED
  BY <1>1, <1>3, <1>8, <1>9, <1>10, <1>11, <1>12, FileFacts, FrameOnFile

\* A call that goes on to its next callback, and one that returns.
LEMMA PcStep ==
    ASSUME MetaInv, NEW c \in Clients, NEW p \in Calls, op' = [op EXCEPT ![c].pc = p]
    PROVE  /\ op' \in [Clients -> OpState] /\ \A d \in Clients \ {c} : op'[d] = op[d]
           /\ op'[c].pc = p /\ op'[c].name = op[c].name /\ op'[c].new = op[c].new
           /\ op'[c].f = op[c].f /\ op'[c].b = op[c].b /\ op'[c].then = op[c].then
           /\ Target(c)' = Target(c) /\ Concerns(c)' = Concerns(c)
           /\ files' = files => Subject(c)' = Subject(c)
<1>1. op[c] \in OpState /\ op'[c] = [op[c] EXCEPT !.pc = p]
      /\ \A d \in Clients \ {c} : op'[d] = op[d]
  BY Types
<1>2. op' \in [Clients -> OpState]
  BY <1>1, Types DEF OpState
<1>3. /\ op'[c].pc = p /\ op'[c].name = op[c].name /\ op'[c].new = op[c].new
      /\ op'[c].f = op[c].f /\ op'[c].b = op[c].b /\ op'[c].then = op[c].then
  BY <1>1 DEF OpState
<1>4. Target(c)' = Target(c) /\ Concerns(c)' = Concerns(c)
  BY <1>3 DEF Target, Concerns
<1> QED
  BY <1>1, <1>2, <1>3, <1>4 DEF Subject

LEMMA IdleType ==
    /\ Idle \in OpState /\ Idle.pc = "idle" /\ Idle.name = NULL /\ Idle.new = NULL
    /\ Idle.f = NULL /\ Idle.b = NULL /\ Idle.then = "return"
BY DEF Idle, OpState, Calls

LEMMA IdleStep ==
    ASSUME MetaInv, NEW c \in Clients, op' = [op EXCEPT ![c] = Idle]
    PROVE  /\ op' \in [Clients -> OpState] /\ \A d \in Clients \ {c} : op'[d] = op[d]
           /\ op'[c] = Idle /\ op'[c].pc = "idle" /\ op'[c].b = NULL /\ Concerns(c)' = {} /\ OpInv(c)'
<1>1. op'[c] = Idle /\ op' \in [Clients -> OpState] /\ \A d \in Clients \ {c} : op'[d] = op[d]
  BY IdleType, Types
<1>2. Concerns(c)' = {}
  BY <1>1, IdleType DEF Concerns
<1>3. OpInv(c)'
  BY <1>1, IdleType DEF OpInv, Waiting, Creating, Renaming
<1> QED
  BY <1>1, <1>2, <1>3, IdleType

\* fs_create_blob_create_cb.
LEMMA BlobCreatedMeta ==
    ASSUME Orderly, MetaInv, NEW c \in Clients, BlobCreated(c)
    PROVE  MetaInv'
<1>0. mode = "ready" /\ op[c].pc = "create_blob"
  BY DEF BlobCreated, Ready
<1>2. PICK f, b : f = Subject(c) /\ b = op[c].b
  OBVIOUS
<1>3. /\ op[c] \in OpState /\ op[c].pc \notin Waiting \cup {"idle", "delete_blob", "list"}
      /\ op[c].new = NULL /\ op[c].name \in Names /\ Concerns(c) = {op[c].name}
      /\ op[c].f = f /\ op[c].then \in {"return", "open"} /\ Target(c) = op[c].name
      /\ op[c].then = "open" => handle[c] = NULL
      /\ f \in DOMAIN file /\ file[f].name = op[c].name
      /\ b \in Blobs /\ IsNew(file[f], op[c].name, NULL) /\ b \notin DOMAIN disk
      /\ \A n \in DOMAIN acked : n # op[c].name
  BY <1>0, <1>2, CreateFacts DEF Creating
<1>1. /\ disk' = [a \in DOMAIN disk \cup {b} |-> IF a = b THEN NoXattrs ELSE disk[a]]
      /\ gone' = gone \ {b}
      /\ file' = [file EXCEPT ![f].blobid = b]
      /\ mem' = [mem EXCEPT ![b] = NoXattrs]
      /\ op' = [op EXCEPT ![c].pc = "create_open"]
      /\ UNCHANGED <<handle, opens, ub, mode, files, persists, doomed, acked>>
  <2>1. PICK ok \in Outcomes("create") :
         IF ~ok
         THEN CreateOver(c, opens) /\ UNCHANGED <<mem, disk, gone>>
         ELSE /\ disk' = [a \in DOMAIN disk \cup {op[c].b} |->
                            IF a = op[c].b THEN NoXattrs ELSE disk[a]]
              /\ gone' = gone \ {op[c].b}
              /\ IF op[c].f \in DOMAIN file
                 THEN /\ file' = [file EXCEPT ![op[c].f].blobid = op[c].b]
                      /\ mem' = [mem EXCEPT ![op[c].b] = NoXattrs]
                      /\ op' = [op EXCEPT ![c].pc = "create_open"]
                      /\ UNCHANGED <<handle, opens, ub>>
                 ELSE ub' = "freed_file" /\ UNCHANGED <<file, userVars, opens, mem>>
    BY DEF BlobCreated
  <2>2. ok = TRUE
    BY Succeeds
  <2> QED
    BY <1>2, <1>3, <2>1, <2>2 DEF BlobCreated
<1>4. /\ op' \in [Clients -> OpState] /\ \A d \in Clients \ {c} : op'[d] = op[d]
      /\ op'[c].pc = "create_open" /\ op'[c].name = op[c].name /\ op'[c].new = NULL
      /\ op'[c].f = f /\ op'[c].b = b /\ op'[c].then = op[c].then
      /\ Target(c)' = op[c].name /\ Concerns(c)' = Concerns(c) /\ Subject(c)' = f
  BY <1>1, <1>2, <1>3, PcStep DEF Calls, Creating
<1>5. IsNew(file'[f], op[c].name, b) /\ DOMAIN file' = DOMAIN file
      /\ \A g \in DOMAIN file : g # f => file'[g] = file[g]
  <2>1. file'[f] = [file[f] EXCEPT !.blobid = b] /\ DOMAIN file' = DOMAIN file
        /\ \A g \in DOMAIN file : g # f => file'[g] = file[g]
    BY <1>1, <1>3
  <2>2. file[f] \in FileState
    BY <1>3, FileFacts
  <2> QED
    BY <1>3, <2>1, <2>2 DEF IsNew, FileState
<1>6. NoXattrs \in Xattrs /\ NoXattrs.name = NULL /\ NoXattrs.deleted = FALSE
  BY DEF NoXattrs, Xattrs
<1>7. /\ mem' \in [Blobs -> Xattrs] /\ mem'[b] = NoXattrs /\ \A a \in Blobs \ {b} : mem'[a] = mem[a]
      /\ DOMAIN disk' = DOMAIN disk \cup {b} /\ disk'[b] = NoXattrs
      /\ \A a \in DOMAIN disk : a # b => disk'[a] = disk[a]
  BY <1>1, <1>3, <1>6, Types
<1>8. OnFile(c, f, b)
  <2>1. file'[f].blobid = b /\ file'[f].name = file[f].name
    BY <1>3, <1>5 DEF IsNew
  <2> QED
    BY <1>0, <1>1, <1>2, <1>3, <1>4, <1>5, <1>6, <1>7, <2>1, Types DEF OnFile
<1>9. OpInv(c)'
  <2>1. op[c].name \in DOMAIN files
    BY <1>0, <1>3, OpFile
  <2>2. file'[f].blobid = b
    BY <1>5 DEF IsNew
  <2> QED
    BY <1>1, <1>3, <1>4, <1>5, <1>7, <2>1, <2>2, Types DEF OpInv, Waiting, Creating, Renaming
<1>10. FileInv(f)'
  <2>1. /\ file'[f].ref_count = 0 /\ file'[f].blob = FALSE
        /\ file'[f].open_requests = {} /\ file'[f].is_deleted = FALSE
        /\ file[f].ref_count = 0 /\ file[f].blob = FALSE
    BY <1>3, <1>5 DEF IsNew
  <2>2. opens'[b] = 0
    <3>1. \A g \in DOMAIN file : file[g].blobid # b
      BY <1>3, <1>8, OnFileFacts, Types DEF IsNew
    <3> QED
      BY <1>1, <1>3, <3>1 DEF MetaInv, BlobInv
  <2>4. opens'[b] = (IF file[f].blob THEN 1 ELSE 0)
                         + (IF op'[c].b = b /\ op'[c].pc \in Holding THEN 1 ELSE 0)
    BY <1>4, <2>1, <2>2 DEF Holding
  <2> QED
    BY <1>4, <1>6, <1>7, <1>8, <2>1, <2>4, FileOnFile
<1>11. PersistInv'
  <2>1. Apart(c, b)
    BY <1>4, <1>7, <1>8, OnFileFacts DEF Apart
  <2> QED
    BY <1>0, <1>1, <2>1, PersistKeep DEF Writing
<1>12. file'[f] \in FileState
  <2>1. file[f] \in FileState /\ file'[f] = [file[f] EXCEPT !.blobid = b]
    BY <1>1, <1>3, FileFacts
  <2> QED
    BY <1>3, <2>1 DEF FileState
<1>13. gone' \subseteq gone \cup {b} /\ b \notin gone'
  BY <1>1
<1>14. \A n \in DOMAIN acked' : n \in DOMAIN acked /\ acked'[n] = acked[n] /\ n \notin Concerns(c)
  BY <1>1, <1>3
<1> QED
  BY <1>8, <1>9, <1>10, <1>11, <1>12, <1>13, <1>14, FrameOnFile

\* fs_create_blob_resize_cb.
LEMMA CreateResizedMeta ==
    ASSUME MetaInv, NEW c \in Clients, CreateResized(c)
    PROVE  MetaInv'
<1>0. mode = "ready" /\ op[c].pc = "create_resize"
  BY DEF CreateResized, Ready
<1>2. PICK f, b : f = Subject(c) /\ b = op[c].b
  OBVIOUS
<1>3. /\ op[c] \in OpState /\ op[c].pc \notin Waiting \cup {"idle", "delete_blob", "list"}
      /\ op[c].new = NULL /\ op[c].name \in Names /\ Concerns(c) = {op[c].name}
      /\ op[c].f = f /\ op[c].then \in {"return", "open"} /\ Target(c) = op[c].name
      /\ op[c].then = "open" => handle[c] = NULL
      /\ f \in DOMAIN file /\ file[f].name = op[c].name
      /\ b \in Blobs /\ IsNew(file[f], op[c].name, b) /\ b \in DOMAIN disk
      /\ disk[b] = NoXattrs /\ mem[b] = NoXattrs /\ opens[b] = 1
      /\ \A n \in DOMAIN acked : n # op[c].name
  BY <1>0, <1>2, CreateFacts DEF Creating
<1>6. NoXattrs \in Xattrs /\ NoXattrs.name = NULL /\ NoXattrs.deleted = FALSE
  BY DEF NoXattrs, Xattrs
<1>1. \E x : /\ x \in Xattrs /\ x.name \in {NULL, op[c].name} /\ x.deleted = FALSE
             /\ mem' = [mem EXCEPT ![b] = x]
             /\ persists' = Write(persists, c, b, x)
             /\ op' = [op EXCEPT ![c].pc = "create_close"]
             /\ UNCHANGED <<files, file, handle, opens, ub, mode, disk, doomed, acked, gone>>
  <2>1. PICK ok \in Outcomes("resize") :
         IF ok /\ op[c].f \notin DOMAIN file
         THEN Undefined("freed_file") /\ UNCHANGED persists
         ELSE LET x == IF ok THEN [mem[op[c].b] EXCEPT !.name = file[op[c].f].name]
                             ELSE mem[op[c].b]
              IN  /\ mem' = [mem EXCEPT ![op[c].b] = x]
                  /\ persists' = Write(persists, c, op[c].b, x)
                  /\ op' = [op EXCEPT ![c].pc = "create_close"]
                  /\ UNCHANGED <<nameVars, handle, opens, ub>>
    BY DEF CreateResized
  <2> DEFINE x == IF ok THEN [mem[op[c].b] EXCEPT !.name = file[op[c].f].name]
                             ELSE mem[op[c].b]
  <2>2. /\ mem' = [mem EXCEPT ![b] = x] /\ persists' = Write(persists, c, b, x)
        /\ op' = [op EXCEPT ![c].pc = "create_close"]
        /\ UNCHANGED <<files, file, handle, opens, ub, mode, disk, doomed, acked, gone>>
    BY <1>2, <1>3, <2>1 DEF nameVars, ghostVars, CreateResized
  <2>3. x \in Xattrs /\ x.name \in {NULL, op[c].name} /\ x.deleted = FALSE
    <3>1. x = IF ok THEN [NoXattrs EXCEPT !.name = op[c].name] ELSE NoXattrs
      BY <1>2, <1>3
    <3> HIDE DEF x
    <3> QED
      BY <1>3, <1>6, <3>1 DEF Xattrs
  <2> HIDE DEF x
  <2> QED
    BY <2>2, <2>3
<1>x. PICK x : /\ x \in Xattrs /\ x.name \in {NULL, op[c].name} /\ x.deleted = FALSE
               /\ mem' = [mem EXCEPT ![b] = x]
               /\ persists' = Write(persists, c, b, x)
               /\ op' = [op EXCEPT ![c].pc = "create_close"]
               /\ UNCHANGED <<files, file, handle, opens, ub, mode, disk, doomed, acked, gone>>
  BY <1>1
<1>4. /\ op' \in [Clients -> OpState] /\ \A d \in Clients \ {c} : op'[d] = op[d]
      /\ op'[c].pc = "create_close" /\ op'[c].name = op[c].name /\ op'[c].new = NULL
      /\ op'[c].f = f /\ op'[c].b = b /\ op'[c].then = op[c].then
      /\ Target(c)' = op[c].name /\ Concerns(c)' = Concerns(c) /\ Subject(c)' = f
  BY <1>x, <1>2, <1>3, PcStep DEF Calls, Creating
<1>5. /\ file[f].blobid = b /\ file[f].ref_count = 0 /\ file[f].blob = FALSE
      /\ file[f].open_requests = {} /\ file[f].is_deleted = FALSE
  BY <1>3 DEF IsNew
<1>7. mem' \in [Blobs -> Xattrs] /\ mem'[b] = x /\ \A a \in Blobs \ {b} : mem'[a] = mem[a]
  BY <1>x, <1>3, Types
<1>8. OnFile(c, f, b)
  <2>1. disk[b] \in Xattrs /\ DOMAIN disk = DOMAIN disk \cup {b}
    BY <1>3, Types
  <2> QED
    BY <1>0, <1>x, <1>2, <1>3, <1>4, <1>5, <1>7, <2>1, Types DEF OnFile
<1>9. OpInv(c)'
  <2>1. op[c].name \in DOMAIN files
    BY <1>0, <1>3, OpFile
  <2> QED
    BY <1>x, <1>3, <1>4, <1>5, <2>1, Types DEF OpInv, Waiting, Creating, Renaming
<1>10. FileInv(f)'
  <2>1. opens'[b] = (IF file[f].blob THEN 1 ELSE 0)
                         + (IF op'[c].b = b /\ op'[c].pc \in Holding THEN 1 ELSE 0)
    BY <1>x, <1>3, <1>4, <1>5 DEF Holding
  <2> QED
    BY <1>x, <1>3, <1>4, <1>5, <1>7, <1>8, <2>1, FileOnFile
<1>11. PersistInv'
  <2>1. Apart(c, b)
    BY <1>4, <1>7, <1>8, OnFileFacts DEF Apart
  <2> QED
    BY <1>0, <1>x, <1>3, <1>4, <1>7, <2>1, PersistWrite DEF Writing
<1>12. b \notin gone
  BY <1>3, <1>6 DEF MetaInv, GoneInv
<1> QED
  BY <1>x, <1>3, <1>8, <1>9, <1>10, <1>11, <1>12, FileFacts, FrameOnFile

\* The call of c has returned, and the name of its file is on the device.
LEMMA AckFacts ==
    ASSUME MetaInv, NEW c, NEW f, NEW b, OnFile(c, f, b), Acknowledge(b), mem' = mem,
           op'[c] = Idle \/ op'[c].pc \in Waiting, disk'[b] = mem[b],
           mem[b].name \in {NULL, file[f].name}, file'[f].is_deleted = mem[b].deleted,
           \A n \in DOMAIN acked : n \notin Concerns(c)
    PROVE  \A n \in DOMAIN acked' :
             \/ Lasts(n)'
             \/ n \in DOMAIN acked /\ acked'[n] = acked[n] /\ n \notin Concerns(c)
<1>1. CASE mem[b].name = NULL \/ mem[b].deleted
  BY <1>1 DEF Acknowledge
<1>2. CASE ~(mem[b].name = NULL \/ mem[b].deleted)
  <2>1. PICK m : m = mem[b].name
    OBVIOUS
  <2>2. acked' = [n \in DOMAIN acked \cup {m} |-> IF n = m THEN b ELSE acked[n]]
    BY <1>2, <2>1 DEF Acknowledge
  <2>3. /\ f \in DOMAIN file /\ b \in Blobs /\ m = file[f].name /\ m \in DOMAIN files /\ files[m] = f
        /\ \A d \in Clients \ {c} : m \notin Concerns(d)
    BY <1>2, <2>1, OnFileFacts
  <2>4. mem[b] = [name |-> m, deleted |-> FALSE]
    <3>1. mem[b] \in Xattrs
      BY <2>3, Types
    <3> QED
      BY <1>2, <2>1, <3>1 DEF Xattrs
  <2>5. Lasts(m)'
    <3>1. acked'[m] = b /\ m \in Names /\ b \in DOMAIN disk' /\ disk'[b] = [name |-> m, deleted |-> FALSE]
      BY <2>2, <2>3, <2>4, Types DEF OnFile
    <3>2. m \in DOMAIN files' /\ file'[files'[m]].blobid = b /\ ~file'[files'[m]].is_deleted
      BY <1>2, <2>3 DEF OnFile
    <3>3. \A d \in Clients : m \in Concerns(d)' => op'[d].pc \in Waiting \cup {"list", "closing"}
      <4> TAKE d \in Clients
      <4>1. CASE d = c
        BY <4>1, <2>3, IdleType, Types DEF Concerns
      <4>2. CASE d # c
        BY <2>3, <4>2 DEF OnFile, Concerns
      <4> QED
        BY <4>1, <4>2
    <3> QED
      BY <3>1, <3>2, <3>3 DEF Lasts
  <2> QED
    BY <2>2, <2>5
<1> QED
  BY <1>1, <1>2

\* One less open of blob b.
LEMMA OpensLess ==
    ASSUME MetaInv, NEW b \in Blobs, opens[b] > 0
    PROVE  /\ [opens EXCEPT ![b] = @ - 1] \in [Blobs -> Nat]
           /\ [opens EXCEPT ![b] = @ - 1][b] = opens[b] - 1
           /\ \A a \in Blobs \ {b} : [opens EXCEPT ![b] = @ - 1][a] = opens[a]
BY Types

\* fs_create_blob_close_cb when the call was a create.
LEMMA CreateReturns ==
    ASSUME MetaInv, NEW c \in Clients, CreateClosed(c), op[c].then # "open"
    PROVE  MetaInv'
<1>0. mode = "ready" /\ op[c].pc = "create_close" /\ Persisted(c) /\ persists' = Pending(c)
  BY DEF CreateClosed, Ready
<1>2. PICK f, b : f = Subject(c) /\ b = op[c].b
  OBVIOUS
<1>3. /\ op[c].pc \notin Waiting \cup {"idle", "delete_blob", "list"}
      /\ f \in DOMAIN file /\ Concerns(c) = {op[c].name} /\ file[f].name = op[c].name
      /\ b \in Blobs /\ b # NULL /\ IsNew(file[f], op[c].name, b) /\ b \in DOMAIN disk
      /\ disk[b] = NoXattrs /\ ~mem[b].deleted /\ mem[b].name \in {NULL, op[c].name}
      /\ opens[b] = 1 /\ \A n \in DOMAIN acked : n # op[c].name
  BY <1>0, <1>2, CreateFacts, Types DEF Creating
<1>1. /\ opens' = [opens EXCEPT ![b] = @ - 1] /\ op' = [op EXCEPT ![c] = Idle]
      /\ Acknowledge(b)
      /\ UNCHANGED <<file, handle, ub, mode, files, mem, doomed, gone>>
  BY <1>2 DEF CreateClosed, CreateOver
<1>4. /\ op' \in [Clients -> OpState] /\ \A d \in Clients \ {c} : op'[d] = op[d]
      /\ op'[c] = Idle /\ op'[c].pc = "idle" /\ op'[c].b = NULL /\ Concerns(c)' = {} /\ OpInv(c)'
  BY <1>1, IdleStep
<1>5. /\ file[f].blobid = b /\ file[f].ref_count = 0 /\ file[f].blob = FALSE
      /\ file[f].open_requests = {} /\ file[f].is_deleted = FALSE
  BY <1>3 DEF IsNew
<1>6. /\ DOMAIN disk' = DOMAIN disk /\ disk'[b] = mem[b]
      /\ \A a \in DOMAIN disk : a # b => disk'[a] = disk[a]
  BY <1>0, <1>2, DiskDone
<1>7. opens' \in [Blobs -> Nat] /\ opens'[b] = 0 /\ \A a \in Blobs \ {b} : opens'[a] = opens[a]
  BY <1>1, <1>3, OpensLess
<1>8. OnFile(c, f, b)
  <2>1. mem[b] \in Xattrs /\ DOMAIN disk = DOMAIN disk \cup {b}
    BY <1>3, Types
  <2> QED
    BY <1>0, <1>1, <1>2, <1>3, <1>4, <1>5, <1>6, <1>7, <2>1, Types DEF OnFile
<1>9. mem[b].deleted = FALSE
  BY <1>3, Types DEF Xattrs
<1>10. FileInv(f)'
  <2>1. opens'[b] = (IF file[f].blob THEN 1 ELSE 0)
                         + (IF op'[c].b = b /\ op'[c].pc \in Holding THEN 1 ELSE 0)
    BY <1>3, <1>4, <1>5, <1>7
  <2> QED
    BY <1>1, <1>3, <1>4, <1>5, <1>6, <1>8, <1>9, <2>1, FileOnFile
<1>11. PersistInv'
  <2>1. Apart(c, b)
    BY <1>1, <1>4, <1>8, OnFileFacts DEF Apart
  <2> QED
    BY <1>0, <2>1, PersistDone
<1>12. b \notin gone
  BY <1>3 DEF MetaInv, GoneInv, NoXattrs
<1>13. \A n \in DOMAIN acked' :
             \/ Lasts(n)'
             \/ n \in DOMAIN acked /\ acked'[n] = acked[n] /\ n \notin Concerns(c)
  <2>1. /\ mem' = mem /\ Acknowledge(b) /\ op'[c] = Idle /\ disk'[b] = mem[b]
        /\ mem[b].name \in {NULL, file[f].name} /\ file'[f].is_deleted = mem[b].deleted
        /\ \A n \in DOMAIN acked : n \notin Concerns(c)
    BY <1>1, <1>3, <1>4, <1>5, <1>6, <1>9
  <2> QED
    BY <1>8, <2>1, AckFacts
<1> QED
  BY <1>1, <1>3, <1>4, <1>8, <1>10, <1>11, <1>12, <1>13, FileFacts, FrameOnFile

\* fs_create_blob_close_cb when the call was an open: fs_open_blob_create_cb opens
\* the new file at once.
LEMMA CreateOpens ==
    ASSUME MetaInv, NEW c \in Clients, CreateClosed(c), op[c].then = "open"
    PROVE  MetaInv'
<1>0. mode = "ready" /\ op[c].pc = "create_close" /\ Persisted(c) /\ persists' = Pending(c)
  BY DEF CreateClosed, Ready
<1>2. PICK f, b, n : f = Subject(c) /\ b = op[c].b /\ n = op[c].name
  OBVIOUS
<1>3. /\ op[c].pc \notin Waiting \cup {"idle", "delete_blob", "list"}
      /\ f \in DOMAIN file /\ Concerns(c) = {n} /\ file[f].name = n /\ n \in Names
      /\ b \in Blobs /\ b # NULL /\ IsNew(file[f], n, b) /\ b \in DOMAIN disk
      /\ disk[b] = NoXattrs /\ ~mem[b].deleted /\ mem[b].name \in {NULL, n}
      /\ opens[b] = 1 /\ handle[c] = NULL /\ Target(c) = n
      /\ \A m \in DOMAIN acked : m # n
  BY <1>0, <1>2, CreateFacts, Types DEF Creating
<1>5. /\ file[f].blobid = b /\ file[f].ref_count = 0 /\ file[f].blob = FALSE
      /\ file[f].open_requests = {} /\ file[f].is_deleted = FALSE
  BY <1>3 DEF IsNew
<1>p. PICK o : o = [opens EXCEPT ![b] = @ - 1]
  OBVIOUS
<1>7. o \in [Blobs -> Nat] /\ o[b] = 0 /\ \A a \in Blobs \ {b} : o[a] = opens[a]
  <2>1. opens[b] > 0
    BY <1>3
  <2>2. o \in [Blobs -> Nat] /\ o[b] = opens[b] - 1 /\ \A a \in Blobs \ {b} : o[a] = opens[a]
    BY <1>3, <1>p, <2>1, OpensLess
  <2> QED
    BY <1>3, <2>2
<1>u. n \in DOMAIN files /\ files[n] = f /\ Find(n) = f /\ f # NULL /\ f \in Files
  BY <1>0, <1>2, <1>3, OpFile, FileFacts DEF Find, Subject
<1>g. PICK g : g = Opened(f, c)
  OBVIOUS
<1>h. /\ g \in FileState /\ g.name = n /\ g.blobid = b /\ g.ref_count = 1 /\ g.blob = FALSE
      /\ g.open_requests = {c} /\ g.is_deleted = FALSE
  <2>1. file[f] \in FileState
    BY <1>3, FileFacts
  <2>2. g = [file[f] EXCEPT !.open_requests = file[f].open_requests \cup {c},
                            !.ref_count = file[f].ref_count + 1]
    BY <1>g, <2>1 DEF Opened, FileState
  <2>3. g = [file[f] EXCEPT !.open_requests = {c}, !.ref_count = 1]
    BY <1>5, <2>2
  <2> QED
    BY <1>3, <1>5, <2>1, <2>3 DEF FileState
<1>1. /\ op' = [op EXCEPT ![c] = [Idle EXCEPT !.pc = "opening", !.name = n, !.f = f, !.b = b]]
      /\ file' = [file EXCEPT ![f] = g] /\ opens' = o
      /\ UNCHANGED <<handle, ub, mode, files, mem, doomed, gone>> /\ Acknowledge(b)
  <2>1. OpenCb(c, n, o)
    BY <1>2, <1>p DEF CreateClosed, CreateOver
  <2>2. UNCHANGED <<mode, files, mem, doomed, gone>> /\ Acknowledge(b)
    BY <1>2 DEF CreateClosed
  <2>3. ~(f = NULL) /\ g.ref_count = 1 /\ ~(b = NULL) /\ ~(o[b] > 0)
    BY <1>u, <1>h, <1>3, <1>7
  <2> QED
    BY <1>u, <1>g, <1>5, <2>1, <2>2, <2>3 DEF OpenCb
<1>4. /\ op' \in [Clients -> OpState] /\ \A d \in Clients \ {c} : op'[d] = op[d]
      /\ op'[c].pc = "opening" /\ op'[c].b = b /\ op'[c].name = n /\ op'[c].new = NULL
      /\ op'[c].f = f /\ op'[c].then = "return"
  <2>1. [Idle EXCEPT !.pc = "opening", !.name = n, !.f = f, !.b = b] \in OpState
    BY <1>3, <1>u, IdleType DEF OpState, Calls, Waiting
  <2>2. op'[c] = [Idle EXCEPT !.pc = "opening", !.name = n, !.f = f, !.b = b]
    BY <1>1, Types
  <2> QED
    BY <1>1, <2>1, <2>2, IdleType, Types DEF OpState
<1>t. Target(c)' = n /\ Subject(c)' = f /\ Concerns(c)' = {n}
  BY <1>1, <1>3, <1>4, <1>u, Types DEF Target, Subject, Concerns
<1>6. /\ DOMAIN disk' = DOMAIN disk /\ disk'[b] = mem[b]
      /\ \A a \in DOMAIN disk : a # b => disk'[a] = disk[a]
  BY <1>0, <1>2, DiskDone
<1>f. DOMAIN file' = DOMAIN file /\ file'[f] = g /\ \A h \in DOMAIN file : h # f => file'[h] = file[h]
  BY <1>1, <1>3
<1>8. OnFile(c, f, b)
  <2>1. mem[b] \in Xattrs /\ DOMAIN disk = DOMAIN disk \cup {b}
    BY <1>3, Types
  <2> QED
    BY <1>0, <1>1, <1>2, <1>3, <1>4, <1>t, <1>6, <1>7, <1>f, <1>h, <2>1, Types DEF OnFile
<1>9. mem[b].deleted = FALSE
  BY <1>3, Types DEF Xattrs
<1>o. OpInv(c)'
  BY <1>1, <1>3, <1>4, <1>f, <1>h, <1>t, <1>u, Types DEF OpInv, Waiting, Creating, Renaming
<1>10. FileInv(f)'
  <2>1. \A d \in Clients \ {c} : op'[d].b # b
    BY <1>8, OnFileFacts
  <2>2. \A pcs : With(b, pcs)' <=> op'[c].b = b /\ op'[c].pc \in pcs
    BY <2>1, WithOnePrimed
  <2>3. \A d \in Clients : op'[d].b = b =>
          op'[d].pc \notin {"create_blob", "delete_blob"} /\ Subject(d)' = f
    BY <2>1, <1>4, <1>t
  <2>4. \A d \in Clients : handle[d] # f
    <3>1. FileInv(f)
      BY <1>3, FileFacts
    <3> QED
      BY <1>5, <3>1 DEF FileInv
  <2>5. Cardinality({d \in Clients : handle[d] = f}) = 0 /\ Cardinality({c}) = 1
    <3>1. {d \in Clients : handle[d] = f} = {}
      BY <2>4
    <3> QED
      BY <3>1, FS_EmptySet, FS_Singleton
  <2>6. g.ref_count = Cardinality({d \in Clients : handle'[d] = f}) + Cardinality(g.open_requests)
    BY <1>1, <1>h, <2>5
  <2>7. /\ b \in DOMAIN disk' /\ mem'[b].deleted = g.is_deleted
        /\ mem'[b].name \in {NULL, g.name} /\ disk'[b] = mem'[b]
        /\ opens'[b] = (IF g.blob THEN 1 ELSE 0) + (IF With(b, Holding)' THEN 1 ELSE 0)
    <3>1. ~With(b, Holding)' /\ opens'[b] = 0
      BY <1>1, <1>4, <1>7, <2>2 DEF Holding
    <3>2. (IF g.blob THEN 1 ELSE 0) + (IF With(b, Holding)' THEN 1 ELSE 0) = 0
      BY <1>h, <3>1
    <3> QED
      BY <1>1, <1>3, <1>6, <1>9, <1>h, <3>1, <3>2
  <2>8. \A d \in g.open_requests : op'[d].pc \in Waiting /\ op'[d].f = f
    BY <1>4, <1>h DEF Waiting
  <2> QED
    BY <1>1, <1>3, <1>f, <1>h, <2>3, <2>4, <2>6, <2>7, <2>8, ZenonT(30) DEF FileInv
<1>11. PersistInv'
  <2>1. Apart(c, b)
    BY <1>1, <1>4, <1>8, OnFileFacts DEF Apart
  <2> QED
    BY <1>0, <2>1, PersistDone
<1>12. b \notin gone
  BY <1>3 DEF MetaInv, GoneInv, NoXattrs
<1>13. \A m \in DOMAIN acked' :
             \/ Lasts(m)'
             \/ m \in DOMAIN acked /\ acked'[m] = acked[m] /\ m \notin Concerns(c)
  <2>1. /\ mem' = mem /\ Acknowledge(b) /\ op'[c].pc \in Waiting /\ disk'[b] = mem[b]
        /\ mem[b].name \in {NULL, file[f].name} /\ file'[f].is_deleted = mem[b].deleted
        /\ \A m \in DOMAIN acked : m \notin Concerns(c)
    BY <1>1, <1>3, <1>4, <1>f, <1>h, <1>6, <1>9 DEF Waiting
  <2> QED
    BY <1>8, <2>1, AckFacts
<1> QED
  BY <1>1, <1>3, <1>f, <1>h, <1>8, <1>o, <1>10, <1>11, <1>12, <1>13, FrameOnFile

\* The blob of a call that has its file to itself, as FileInv gives it.
LEMMA BlobFacts ==
    ASSUME MetaInv, NEW c \in Clients,
           op[c].pc \notin Waiting \cup {"idle", "delete_blob", "list", "create_blob"}
    PROVE  LET f == Subject(c)
               b == op[c].b
           IN  /\ f \in DOMAIN file /\ file[f] \in FileState /\ file[f].blobid = b
               /\ file[f].name = Target(c) /\ file[f].open_requests = {}
               /\ b \in Blobs /\ b # NULL /\ b \in DOMAIN disk /\ mem[b] \in Xattrs
               /\ mem[b].deleted = file[f].is_deleted
               /\ op[c].pc # "rename_open" => mem[b].name \in {NULL, file[f].name}
               /\ op[c].pc \notin {"create_close", "mark", "rename_close"} => disk[b] = mem[b]
               /\ op[c].pc # "closing" /\ file[f].is_deleted => file[f].ref_count > 0
               /\ opens[b] = (IF file[f].blob THEN 1 ELSE 0) + (IF op[c].pc \in Holding THEN 1 ELSE 0)
               /\ file[f].ref_count = Cardinality({d \in Clients : handle[d] = f})
               /\ file[f].blob <=> \E d \in Clients : handle[d] = f
<1>1. PICK f, b : f = Subject(c) /\ b = op[c].b
  OBVIOUS
<1>2. /\ f \in DOMAIN file /\ file[f] \in FileState /\ FileInv(f)
      /\ file[f].name = Target(c) /\ file[f].open_requests = {}
  BY <1>1, OpFile, Busy, FileFacts
<1>3. b \in Blobs /\ b # NULL /\ b \in DOMAIN disk /\ mem[b] \in Xattrs /\ file[f].blobid = b
  <2>1. op[c].pc \notin {"idle", "open_wait", "list", "create_blob", "delete_blob"}
    BY DEF Waiting
  <2>2. OpInv(c)
    BY DEF MetaInv
  <2>3. op[c].b = file[Subject(c)].blobid
    BY <2>1, <2>2 DEF OpInv
  <2> QED
    BY <1>1, <2>1, <2>3, OpBlob, Types
<1>4. \A pcs : With(b, pcs) <=> op[c].pc \in pcs
  <2>1. \A d \in Clients \ {c} : op[d].b # b
    BY <1>1, <1>3, Alone
  <2> QED
    BY <1>1, <2>1, WithOne
<1>5. /\ mem[b].deleted = file[f].is_deleted
      /\ mem[b].name \in {NULL, file[f].name} \/ With(b, {"rename_open"})
      /\ disk[b] = mem[b] \/ With(b, {"create_close", "mark", "rename_close"})
      /\ file[f].is_deleted => file[f].ref_count > 0 \/ With(b, {"closing"})
      /\ opens[b] = (IF file[f].blob THEN 1 ELSE 0) + (IF With(b, Holding) THEN 1 ELSE 0)
  BY <1>2, <1>3 DEF FileInv
<1>6. /\ op[c].pc # "rename_open" => mem[b].name \in {NULL, file[f].name}
      /\ op[c].pc \notin {"create_close", "mark", "rename_close"} => disk[b] = mem[b]
      /\ op[c].pc # "closing" /\ file[f].is_deleted => file[f].ref_count > 0
  BY <1>4, <1>5
<1>7. opens[b] = (IF file[f].blob THEN 1 ELSE 0) + (IF op[c].pc \in Holding THEN 1 ELSE 0)
  <2>1. With(b, Holding) <=> op[c].pc \in Holding
    BY <1>4
  <2>2. (IF With(b, Holding) THEN 1 ELSE 0) = (IF op[c].pc \in Holding THEN 1 ELSE 0)
    BY <2>1
  <2> QED
    BY <1>5, <2>2
<1>8. /\ file[f].ref_count = Cardinality({d \in Clients : handle[d] = f})
      /\ file[f].blob <=> \E d \in Clients : handle[d] = f
  <2>1. IsFiniteSet({d \in Clients : handle[d] = f})
    BY MetaAssumption, FS_Subset
  <2>2. Cardinality({d \in Clients : handle[d] = f}) \in Nat /\ Cardinality({}) = 0
    BY <2>1, FS_CardinalityType, FS_EmptySet
  <2>3. /\ file[f].ref_count = Cardinality({d \in Clients : handle[d] = f}) + Cardinality({})
        /\ file[f].blob <=> \E d \in Clients : handle[d] = f
    BY <1>2 DEF FileInv
  <2> QED
    BY <2>2, <2>3
<1> QED
  BY <1>1, <1>2, <1>3, <1>5, <1>6, <1>7, <1>8

\* No handles, no references.
LEMMA NoHandles ==
    ASSUME NEW f, \A d \in Clients : handle[d] # f
    PROVE  Cardinality({d \in Clients : handle[d] = f}) = 0
<1>1. {d \in Clients : handle[d] = f} = {}
  OBVIOUS
<1> QED
  BY <1>1, FS_EmptySet

LEMMA RenameFacts ==
    ASSUME MetaInv, NEW c \in Clients, op[c].pc \in Renaming
    PROVE  /\ op[c].pc \notin Waiting \cup {"idle", "delete_blob", "list", "create_blob"}
           /\ op[c].name \in Names /\ op[c].new \in Names /\ op[c].new # NULL
           /\ Target(c) = op[c].new /\ Target(c) \in DOMAIN files /\ op[c].then = "rename"
           /\ Concerns(c) = {op[c].name, op[c].new} /\ op[c].name \notin DOMAIN files
           /\ disk[op[c].b].name \in {NULL, op[c].name}
           /\ op[c].pc = "rename_open" => ~file[Subject(c)].blob
           /\ \A n \in DOMAIN acked : n \notin Concerns(c)
<1>1. op[c].pc \notin Waiting \cup {"idle", "delete_blob", "list", "create_blob", "closing"}
  BY DEF Waiting, Renaming
<1>2. op[c] \in OpState /\ OpInv(c)
  BY DEF MetaInv
<1>3. /\ op[c].name \in Names /\ op[c].new \in Names /\ op[c].new # NULL /\ op[c].then = "rename"
  BY <1>1, <1>2 DEF OpInv, OpState
<1>4. Concerns(c) = {op[c].name, op[c].new} /\ Target(c) = op[c].new
  BY <1>3, Types DEF Concerns, Target
<1>5. /\ Target(c) \in DOMAIN files /\ op[c].name \notin DOMAIN files
      /\ disk[op[c].b].name \in {NULL, op[c].name}
      /\ op[c].pc = "rename_open" => ~file[Subject(c)].blob
  BY <1>1, <1>2 DEF OpInv
<1>6. \A n \in DOMAIN acked : n \notin Concerns(c)
  BY <1>1 DEF MetaInv, AckInv, Lasts
<1> QED
  BY <1>1, <1>3, <1>4, <1>5, <1>6

\* fs_rename_blob_open_cb.
LEMMA RenameOpenedMeta ==
    ASSUME Orderly, MetaInv, NEW c \in Clients, RenameOpened(c)
    PROVE  MetaInv'
<1>0. mode = "ready" /\ op[c].pc = "rename_open"
  BY DEF RenameOpened, Ready
<1>2. PICK f, b, n : f = Subject(c) /\ b = op[c].b /\ n = op[c].new
  OBVIOUS
<1>3. /\ op[c].pc \notin Waiting \cup {"idle", "delete_blob", "list", "create_blob"}
      /\ op[c].name \in Names /\ n \in Names /\ n # NULL
      /\ Target(c) = n /\ n \in DOMAIN files /\ op[c].then = "rename"
      /\ Concerns(c) = {op[c].name, n} /\ op[c].name \notin DOMAIN files
      /\ disk[b].name \in {NULL, op[c].name} /\ ~file[f].blob
      /\ \A m \in DOMAIN acked : m \notin Concerns(c)
  BY <1>0, <1>2, RenameFacts DEF Renaming
<1>5. /\ f \in DOMAIN file /\ file[f] \in FileState /\ file[f].blobid = b
      /\ file[f].name = n /\ file[f].open_requests = {}
      /\ b \in Blobs /\ b # NULL /\ b \in DOMAIN disk /\ mem[b] \in Xattrs
      /\ mem[b].deleted = file[f].is_deleted /\ disk[b] = mem[b]
      /\ file[f].is_deleted => file[f].ref_count > 0
      /\ opens[b] = 0
  <2>1. /\ f \in DOMAIN file /\ file[f] \in FileState /\ file[f].blobid = b
        /\ file[f].name = n /\ file[f].open_requests = {}
        /\ b \in Blobs /\ b # NULL /\ b \in DOMAIN disk /\ mem[b] \in Xattrs
        /\ mem[b].deleted = file[f].is_deleted /\ disk[b] = mem[b]
        /\ file[f].is_deleted => file[f].ref_count > 0
        /\ opens[b] = (IF file[f].blob THEN 1 ELSE 0) + (IF op[c].pc \in Holding THEN 1 ELSE 0)
    BY <1>0, <1>2, <1>3, BlobFacts
  <2> QED
    BY <1>0, <1>3, <2>1 DEF Holding
<1>x. PICK x : x = Renamed(mem[b], n)
  OBVIOUS
<1>y. x \in Xattrs /\ x.name = n /\ x.deleted = mem[b].deleted
  BY <1>x, <1>3, <1>5 DEF Renamed, Xattrs
<1>1. /\ mem' = [mem EXCEPT ![b] = x] /\ persists' = Write(persists, c, b, x)
      /\ opens' = [opens EXCEPT ![b] = @ + 1]
      /\ op' = [op EXCEPT ![c] = [op[c] EXCEPT !.pc = "rename_close", !.b = b]]
      /\ UNCHANGED <<files, file, handle, ub, mode, disk, doomed, acked, gone>>
  <2>1. PICK ok \in Outcomes("open") :
         IF ok THEN RenameBlob(c, op[c], op[c].b, persists) /\ UNCHANGED <<nameVars, handle, ub>>
         ELSE Undefined("null_blob") /\ UNCHANGED persists
    BY DEF RenameOpened
  <2>2. ok = TRUE
    BY Succeeds
  <2> QED
    BY <1>2, <1>x, <2>1, <2>2 DEF RenameOpened, RenameBlob, nameVars, ghostVars
<1>4. /\ op' \in [Clients -> OpState] /\ \A d \in Clients \ {c} : op'[d] = op[d]
      /\ op'[c].pc = "rename_close" /\ op'[c].name = op[c].name /\ op'[c].new = n
      /\ op'[c].f = op[c].f /\ op'[c].b = b /\ op'[c].then = "rename"
      /\ Target(c)' = n /\ Concerns(c)' = Concerns(c) /\ Subject(c)' = f
  <2>1. op[c] \in OpState /\ op'[c] = [op[c] EXCEPT !.pc = "rename_close", !.b = b]
        /\ \A d \in Clients \ {c} : op'[d] = op[d]
    BY <1>1, Types
  <2>2. op' \in [Clients -> OpState]
    BY <1>1, <1>5, <2>1, Types DEF OpState, Calls, Renaming
  <2>3. /\ op'[c].pc = "rename_close" /\ op'[c].name = op[c].name /\ op'[c].new = n
        /\ op'[c].f = op[c].f /\ op'[c].b = b /\ op'[c].then = "rename"
    BY <1>2, <1>3, <2>1 DEF OpState
  <2> QED
    BY <1>1, <1>2, <1>3, <2>1, <2>2, <2>3 DEF Target, Subject, Concerns
<1>7. /\ mem' \in [Blobs -> Xattrs] /\ mem'[b] = x /\ \A a \in Blobs \ {b} : mem'[a] = mem[a]
      /\ opens' \in [Blobs -> Nat] /\ opens'[b] = 1 /\ \A a \in Blobs \ {b} : opens'[a] = opens[a]
  BY <1>1, <1>5, <1>y, Types
<1>8. OnFile(c, f, b)
  <2>1. disk[b] \in Xattrs /\ DOMAIN disk = DOMAIN disk \cup {b}
    BY <1>5, Types
  <2> QED
    BY <1>0, <1>1, <1>2, <1>3, <1>4, <1>5, <1>7, <2>1, Types DEF OnFile
<1>9. OpInv(c)'
  BY <1>1, <1>3, <1>4, <1>5, <1>7, Types DEF OpInv, Waiting, Creating, Renaming
<1>10. FileInv(f)'
  <2>1. opens'[b] = (IF file[f].blob THEN 1 ELSE 0)
                         + (IF op'[c].b = b /\ op'[c].pc \in Holding THEN 1 ELSE 0)
    BY <1>3, <1>4, <1>7 DEF Holding
  <2>2. /\ file'[f].ref_count = file[f].ref_count /\ file'[f].blob = file[f].blob
        /\ file'[f].open_requests = {} /\ file'[f].is_deleted = mem'[b].deleted
        /\ Subject(c)' = f /\ op'[c].pc \notin {"create_blob", "delete_blob"}
        /\ mem'[b].name \in {NULL, file[f].name}
        /\ op'[c].b = b /\ op'[c].pc \in {"create_close", "mark", "rename_close"}
        /\ file'[f].is_deleted => file[f].ref_count > 0
    BY <1>1, <1>4, <1>5, <1>7, <1>y
  <2> QED
    BY <1>8, <2>1, <2>2, FileOnFile
<1>11. PersistInv'
  <2>1. Apart(c, b)
    BY <1>4, <1>7, <1>8, OnFileFacts DEF Apart
  <2> QED
    BY <1>0, <1>1, <1>4, <1>5, <1>7, <1>y, <2>1, PersistWrite DEF Writing
<1>12. b \in gone => disk'[b].deleted /\ file'[f].is_deleted
  BY <1>1, <1>5 DEF MetaInv, GoneInv
<1> QED
  BY <1>1, <1>3, <1>5, <1>8, <1>9, <1>10, <1>11, <1>12, FrameOnFile

\* A write is done and the call returns; the file stays as it is.
LEMMA ReturnMeta ==
    ASSUME MetaInv, NEW c \in Clients, mode = "ready",
           op[c].pc \in {"rename_close", "mark", "closing"},
           Persisted(c), persists' = Pending(c), op' = [op EXCEPT ![c] = Idle],
           UNCHANGED <<files, file, handle, ub, mode, mem, doomed>>,
           op[c].pc = "mark" => opens' = opens,
           op[c].pc # "mark" => opens' = [opens EXCEPT ![op[c].b] = @ - 1],
           op[c].pc = "closing" => ~file[Subject(c)].is_deleted,
           op[c].pc = "mark" => gone' = gone \cup {op[c].b},
           op[c].pc # "mark" => gone' = gone,
           op[c].pc = "rename_close" => Acknowledge(op[c].b),
           op[c].pc # "rename_close" => acked' = acked
    PROVE  MetaInv'
<1>2. PICK f, b : f = Subject(c) /\ b = op[c].b
  OBVIOUS
<1>3. op[c].pc \notin Waiting \cup {"idle", "delete_blob", "list", "create_blob"}
  BY DEF Waiting
<1>5. /\ f \in DOMAIN file /\ file[f] \in FileState /\ file[f].blobid = b
      /\ file[f].open_requests = {} /\ file[f].name = Target(c)
      /\ b \in Blobs /\ b # NULL /\ b \in DOMAIN disk /\ mem[b] \in Xattrs
      /\ mem[b].deleted = file[f].is_deleted
      /\ mem[b].name \in {NULL, file[f].name}
      /\ op[c].pc # "closing" /\ file[f].is_deleted => file[f].ref_count > 0
      /\ opens[b] = (IF file[f].blob THEN 1 ELSE 0) + (IF op[c].pc \in Holding THEN 1 ELSE 0)
  BY <1>2, <1>3, BlobFacts
<1>4. /\ op' \in [Clients -> OpState] /\ \A d \in Clients \ {c} : op'[d] = op[d]
      /\ op'[c] = Idle /\ op'[c].pc = "idle" /\ op'[c].b = NULL /\ Concerns(c)' = {} /\ OpInv(c)'
  BY IdleStep
<1>6. /\ DOMAIN disk' = DOMAIN disk /\ disk'[b] = mem[b]
      /\ \A a \in DOMAIN disk : a # b => disk'[a] = disk[a]
  BY <1>2, DiskDone
<1>7. /\ opens' \in [Blobs -> Nat] /\ opens'[b] = (IF file[f].blob THEN 1 ELSE 0)
      /\ \A a \in Blobs \ {b} : opens'[a] = opens[a]
  <2>1. CASE op[c].pc = "mark"
    BY <1>5, <2>1, Types DEF Holding
  <2>2. CASE op[c].pc # "mark"
    <3>1. op[c].pc \in Holding
      BY <2>2 DEF Holding
    <3>2. opens[b] > 0 /\ opens[b] - 1 = (IF file[f].blob THEN 1 ELSE 0)
      BY <1>5, <3>1
    <3> QED
      BY <1>2, <1>5, <2>2, <3>2, OpensLess
  <2> QED
    BY <2>1, <2>2
<1>8. OnFile(c, f, b)
  <2>1. DOMAIN disk = DOMAIN disk \cup {b}
    BY <1>5
  <2> QED
    BY <1>2, <1>3, <1>4, <1>5, <1>6, <1>7, <2>1, Types DEF OnFile
<1>10. FileInv(f)'
  <2>1. opens'[b] = (IF file[f].blob THEN 1 ELSE 0)
                         + (IF op'[c].b = b /\ op'[c].pc \in Holding THEN 1 ELSE 0)
    BY <1>4, <1>5, <1>7
  <2>2. /\ file'[f].ref_count = file[f].ref_count /\ file'[f].blob = file[f].blob
        /\ file'[f].open_requests = {} /\ file'[f].is_deleted = mem'[b].deleted
        /\ op'[c].b = NULL /\ mem'[b].name \in {NULL, file[f].name} /\ disk'[b] = mem'[b]
        /\ file'[f].is_deleted => file[f].ref_count > 0
    BY <1>2, <1>4, <1>5, <1>6
  <2> QED
    BY <1>8, <2>1, <2>2, FileOnFile
<1>11. PersistInv'
  <2>1. Apart(c, b)
    BY <1>4, <1>8, OnFileFacts DEF Apart
  <2> QED
    BY <2>1, PersistDone
<1>12. /\ gone' \subseteq gone \cup {b}
       /\ b \in gone' => disk'[b].deleted /\ file'[f].is_deleted
  <2>1. CASE op[c].pc = "mark"
    <3>1. file[f].is_deleted
      BY <1>2, <2>1 DEF MetaInv, OpInv
    <3> QED
      BY <1>2, <1>5, <1>6, <2>1, <3>1
  <2>2. CASE op[c].pc # "mark"
    <3>1. b \in gone => file[f].is_deleted
      BY <1>5 DEF MetaInv, GoneInv
    <3> QED
      BY <1>5, <1>6, <2>2, <3>1
  <2> QED
    BY <2>1, <2>2
<1>13. \A n \in DOMAIN acked' :
             \/ Lasts(n)'
             \/ n \in DOMAIN acked /\ acked'[n] = acked[n] /\ n \notin Concerns(c)
  <2>1. CASE op[c].pc # "closing"
    <3>1. \A n \in DOMAIN acked : n \notin Concerns(c)
      BY <2>1 DEF MetaInv, AckInv, Lasts, Waiting
    <3>2. CASE op[c].pc = "mark"
      BY <3>1, <3>2
    <3>3. CASE op[c].pc # "mark"
      <4>1. /\ mem' = mem /\ Acknowledge(b) /\ op'[c] = Idle /\ disk'[b] = mem[b]
            /\ mem[b].name \in {NULL, file[f].name} /\ file'[f].is_deleted = mem[b].deleted
        BY <1>2, <1>4, <1>5, <1>6, <2>1, <3>3
      <4> QED
        BY <1>8, <3>1, <4>1, AckFacts
    <3> QED
      BY <3>2, <3>3
  <2>2. CASE op[c].pc = "closing"
    <3> SUFFICES ASSUME NEW n \in DOMAIN acked, n \in Concerns(c) PROVE Lasts(n)'
      BY <2>2
    <3>1. Lasts(n)
      BY DEF MetaInv, AckInv
    <3>2. n = Target(c) /\ files[n] = f /\ n \in DOMAIN files
      <4>1. op[c].new = NULL
        BY <2>2 DEF MetaInv, OpInv, Renaming
      <4>2. n = Target(c)
        BY <4>1 DEF Target, Concerns
      <4> QED
        BY <1>2, <1>3, <4>2, OpFile DEF Subject
    <3>3. acked[n] = b /\ disk[b] = [name |-> n, deleted |-> FALSE] /\ n \in Names
      BY <1>5, <3>1, <3>2 DEF Lasts
    <3>4. disk[b] = mem[b]
      BY <1>2, <1>3, <2>2, BlobFacts
    <3>5. \A d \in Clients : n \notin Concerns(d)'
      <4> TAKE d \in Clients
      <4>1. CASE d = c
        BY <1>4, <4>1
      <4>2. CASE d # c
        BY <1>4, <1>8, <3>2, <4>2, OnFileFacts DEF Concerns
      <4> QED
        BY <4>1, <4>2
    <3>6. acked' = acked /\ ~file[f].is_deleted
      BY <1>2, <2>2
    <3> QED
      BY <1>5, <1>6, <3>2, <3>3, <3>4, <3>5, <3>6 DEF Lasts
  <2> QED
    BY <2>1, <2>2
<1> QED
  BY <1>4, <1>5, <1>8, <1>10, <1>11, <1>12, <1>13, FrameOnFile

LEMMA RenameClosedMeta ==
    ASSUME MetaInv, NEW c \in Clients, RenameClosed(c)
    PROVE  MetaInv'
BY ReturnMeta DEF RenameClosed, Ready, nameVars

\* The xattr of a delete is written; the delete of a rename never has to mark.
LEMMA MarkedMeta ==
    ASSUME MetaInv, NEW c \in Clients, Marked(c)
    PROVE  MetaInv'
<1>1. op[c].pc = "mark" /\ mode = "ready" /\ Persisted(c) /\ DeleteOver(c, Pending(c))
      /\ gone' = gone \cup {op[c].b} /\ UNCHANGED <<mode, doomed, acked>>
  BY DEF Marked, Ready
<1>2. op[c].then # "rename"
  BY <1>1 DEF MetaInv, OpInv, Renaming
<1>3. op' = [op EXCEPT ![c] = Idle] /\ persists' = Pending(c)
      /\ UNCHANGED <<files, file, handle, opens, mem, ub>>
  BY <1>1, <1>2 DEF DeleteOver, nameVars
<1> QED
  BY <1>1, <1>3, ReturnMeta

LEMMA CreateClosedMeta ==
    ASSUME MetaInv, NEW c \in Clients, CreateClosed(c)
    PROVE  MetaInv'
BY CreateReturns, CreateOpens

-----------------------------------------------------------------------------
(* Delete.                                                                   *)

\* A file that no call is about: its blob is on the device as in memory.
LEMMA Quiet ==
    ASSUME MetaInv, NEW f \in DOMAIN file,
           \A d \in Clients : file[f].name \in Concerns(d) => op[d].pc = "delete_blob"
    PROVE  LET b == file[f].blobid
           IN  /\ b \in Blobs /\ b # NULL /\ b \in DOMAIN disk /\ mem[b] \in Xattrs
               /\ disk[b] = mem[b] /\ mem[b].deleted = file[f].is_deleted
               /\ mem[b].name \in {NULL, file[f].name}
               /\ file[f].is_deleted => file[f].ref_count > 0
               /\ opens[b] = (IF file[f].blob THEN 1 ELSE 0)
               /\ file[f].open_requests = {}
               /\ file[f].ref_count = Cardinality({d \in Clients : handle[d] = f})
               /\ file[f].blob <=> \E d \in Clients : handle[d] = f
               /\ \A d \in Clients : op[d].b # b
<1>b. PICK b : b = file[f].blobid
  OBVIOUS
<1>1. FileInv(f) /\ file[f] \in FileState
  BY FileFacts
<1>2. ASSUME NEW d \in Clients, op[d].pc \notin {"idle", "delete_blob"} PROVE Subject(d) # f
  BY <1>2, OpFile, OpNames
<1>3. file[f].open_requests = {}
  <2> SUFFICES ASSUME NEW d \in file[f].open_requests PROVE FALSE
    OBVIOUS
  <2>1. d \in Clients /\ op[d].pc \in Waiting /\ op[d].f = f
    BY <1>1 DEF FileInv, FileState
  <2>2. op[d].f = Subject(d)
    BY <2>1 DEF MetaInv, OpInv
  <2> QED
    BY <1>2, <2>1, <2>2 DEF Waiting
<1>4. b # NULL
  <2> SUFFICES ASSUME b = NULL PROVE FALSE
    OBVIOUS
  <2>1. PICK d \in Clients : op[d].pc = "create_blob" /\ op[d].f = f
    BY <1>1, <1>b DEF FileInv
  <2>2. op[d].f = Subject(d)
    BY <2>1 DEF MetaInv, OpInv, Creating
  <2> QED
    BY <1>2, <2>1, <2>2
<1>5. ASSUME NEW d \in Clients, op[d].b = b PROVE FALSE
  <2>1. op[d].pc \notin {"create_blob", "delete_blob"} /\ Subject(d) = f
    BY <1>1, <1>4, <1>5, <1>b DEF FileInv
  <2>2. op[d].pc # "idle"
    BY <1>4, <1>5 DEF MetaInv, OpInv
  <2> QED
    BY <1>2, <2>1, <2>2
<1>6. \A pcs : ~With(b, pcs)
  BY <1>5 DEF With
<1>7. /\ b \in DOMAIN disk
      /\ mem[b].deleted = file[f].is_deleted
      /\ mem[b].name \in {NULL, file[f].name} \/ With(b, {"rename_open"})
      /\ disk[b] = mem[b] \/ With(b, {"create_close", "mark", "rename_close"})
      /\ file[f].is_deleted => file[f].ref_count > 0 \/ With(b, {"closing"})
      /\ opens[b] = (IF file[f].blob THEN 1 ELSE 0) + (IF With(b, Holding) THEN 1 ELSE 0)
  BY <1>1, <1>4, <1>b DEF FileInv
<1>8. opens[b] = (IF file[f].blob THEN 1 ELSE 0)
  <2>1. (IF With(b, Holding) THEN 1 ELSE 0) = 0
    BY <1>6
  <2> QED
    BY <1>7, <2>1
<1>9. /\ file[f].ref_count = Cardinality({d \in Clients : handle[d] = f})
      /\ file[f].blob <=> \E d \in Clients : handle[d] = f
  <2>1. IsFiniteSet({d \in Clients : handle[d] = f})
    BY MetaAssumption, FS_Subset
  <2>2. Cardinality({d \in Clients : handle[d] = f}) \in Nat /\ Cardinality({}) = 0
    BY <2>1, FS_CardinalityType, FS_EmptySet
  <2>3. /\ file[f].ref_count = Cardinality({d \in Clients : handle[d] = f}) + Cardinality({})
        /\ file[f].blob <=> \E d \in Clients : handle[d] = f
    BY <1>1, <1>3 DEF FileInv
  <2> QED
    BY <2>2, <2>3
<1>10. b \in Blobs /\ mem[b] \in Xattrs
  BY <1>7, Types
<1> QED
  BY <1>b, <1>3, <1>4, <1>5, <1>6, <1>7, <1>8, <1>9, <1>10

\* A file without references has no handles and no open requests.
LEMMA NoReferences ==
    ASSUME MetaInv, NEW f \in DOMAIN file, file[f].ref_count = 0
    PROVE  file[f].open_requests = {} /\ ~file[f].blob /\ \A d \in Clients : handle[d] # f
<1> DEFINE H == {d \in Clients : handle[d] = f}
           R == file[f].open_requests
<1>1. FileInv(f) /\ R \subseteq Clients /\ H \subseteq Clients
  BY FileFacts DEF FileState
<1>2. file[f].ref_count = Cardinality(H) + Cardinality(R)
      /\ (file[f].blob <=> \E d \in Clients : handle[d] = f)
  BY <1>1 DEF FileInv
<1>3. IsFiniteSet(H) /\ IsFiniteSet(R)
  BY <1>1, MetaAssumption, FS_Subset
<1>4. Cardinality(H) \in Nat /\ Cardinality(R) \in Nat
  BY <1>3, FS_CardinalityType
<1>5. Cardinality(H) = 0 /\ Cardinality(R) = 0
  <2> HIDE DEF H, R
  <2> QED
    BY <1>2, <1>4
<1>6. H = {} /\ R = {}
  BY <1>3, <1>5, FS_EmptySet
<1> QED
  BY <1>2, <1>6

\* spdk_fs_delete_file_async of a file that nobody has open: the name and the file go,
\* and the blob is left to the call r of client c.
Freed(c, n, f, b, r) ==
    /\ n \in DOMAIN files /\ f = files[n] /\ b = file[f].blobid /\ b \in DOMAIN disk
    /\ mode = "ready" /\ UNCHANGED <<mode, handle, mem, doomed, ub, gone>>
    /\ files' = Remove(files, n) /\ file' = Restrict(file, DOMAIN file \ {f})
    /\ op' = [op EXCEPT ![c] = r]
    /\ r \in OpState /\ r.pc = "delete_blob" /\ r.b = b /\ r.name \in Names
    /\ \/ r.new = NULL /\ r.then = "return" /\ r.name = n
       \/ r.new = n /\ r.then = "rename"
    /\ op[c].b \in {NULL, b} /\ op[c].pc \notin Waiting \cup {"create_blob"}
    /\ \A d \in Clients \ {c} : Concerns(d) \cap {r.name, r.new} = {} /\ op[d].b # b
    /\ \A d \in Clients : handle[d] # f
    /\ opens' \in [Blobs -> Nat] /\ opens'[b] = 0 /\ \A a \in Blobs \ {b} : opens'[a] = opens[a]
    /\ DOMAIN disk' = DOMAIN disk /\ disk'[b] \in Xattrs /\ disk'[b].name \in {NULL, n}
    /\ \A a \in DOMAIN disk : a # b => disk'[a] = disk[a]
    /\ disk[b].deleted => disk'[b].deleted
    /\ PersistInv'
    /\ DOMAIN acked' \subseteq DOMAIN acked
    /\ \A m \in DOMAIN acked' : acked'[m] = acked[m] /\ m \notin {r.name, r.new}

LEMMA FreeFile ==
    ASSUME MetaInv, NEW c \in Clients, NEW n, NEW f, NEW b, NEW r, Freed(c, n, f, b, r)
    PROVE  MetaInv'
<1> USE DEF Freed
<1>1. /\ f \in DOMAIN file /\ file[f].name = n /\ n \in Names /\ b \in Blobs /\ b # NULL
      /\ \A m \in DOMAIN files : files[m] = f => m = n
      /\ \A g \in DOMAIN file : file[g].blobid = b => g = f
  <2>1. f \in DOMAIN file /\ file[f].name = n
    BY DEF MetaInv, NameInv
  <2>2. b \in Blobs /\ b # NULL /\ n \in Names
    BY Types
  <2> QED
    BY <2>1, <2>2, FileFacts
<1>2. /\ DOMAIN files' = DOMAIN files \ {n} /\ \A m \in DOMAIN files' : files'[m] = files[m]
      /\ DOMAIN file' = DOMAIN file \ {f} /\ \A g \in DOMAIN file' : file'[g] = file[g]
  BY DEF Remove, Restrict
<1>3. /\ op' \in [Clients -> OpState] /\ \A d \in Clients \ {c} : op'[d] = op[d]
      /\ op'[c] = r
  BY Types
<1>4. \A d \in Clients \ {c} : Concerns(d)' = Concerns(d)
  BY <1>3 DEF Concerns
<1>5. Concerns(c)' \subseteq {r.name, r.new} /\ Target(c)' = n
  BY <1>1, <1>3, Types DEF Concerns, Target
<1>6. Local({c}, {n}, f, {b})
  <2>1. \A d \in Clients \ {c} : Concerns(d) \cap {n} = {} /\ op[d].b \notin {b}
    OBVIOUS
  <2>2. \A m \in Names \ {n} : /\ m \in DOMAIN files' <=> m \in DOMAIN files
                               /\ m \in DOMAIN files => files'[m] = files[m] /\ files[m] # f
    BY <1>1, <1>2
  <2>3. \A g \in DOMAIN file \cup DOMAIN file' : g # f =>
          /\ g \in DOMAIN file /\ g \in DOMAIN file' /\ file'[g] = file[g]
          /\ file[g].blobid \notin {b}
    BY <1>1, <1>2
  <2>4. \A a \in Blobs \ {b} : /\ mem'[a] = mem[a] /\ opens'[a] = opens[a]
                               /\ a \in DOMAIN disk' <=> a \in DOMAIN disk
                               /\ a \in DOMAIN disk => disk'[a] = disk[a]
    OBVIOUS
  <2>5. \A e \in {c} :
          /\ op[e].b \in {b} \cup {NULL} /\ op'[e].b \in {b} \cup {NULL}
          /\ op[e].pc \in Waiting \cup {"create_blob"} => op[e].f = f
          /\ handle'[e] = handle[e] \/ {handle[e], handle'[e]} \subseteq {f, NULL}
    BY <1>3
  <2>6. /\ {c} \subseteq Clients /\ {n} \subseteq Names /\ {b} \subseteq Blobs
        /\ mode = "ready" /\ mode' = mode /\ doomed' = doomed /\ ub' = ub
        /\ \A d \in Clients \ {c} : op'[d] = op[d] /\ handle'[d] = handle[d]
        /\ \A m \in {n} : m \in DOMAIN files => files[m] = f
        /\ f \in DOMAIN file => file[f].blobid \in {b} \cup {NULL}
        /\ f \notin DOMAIN file'
    BY <1>1, <1>2, <1>3
  <2> QED
    BY <2>1, <2>2, <2>3, <2>4, <2>5, <2>6, Zenon DEF Local
<1>7. TypeOK'
  <2>1. ASSUME NEW g \in DOMAIN file' PROVE g \in Files /\ file'[g] \in FileState
    <3>1. g \in DOMAIN file /\ file'[g] = file[g]
      BY <1>2
    <3> QED
      BY <3>1, FileFacts
  <2>2. \A m \in DOMAIN files' : files'[m] \in Files
    BY <1>2 DEF MetaInv, TypeOK
  <2>3. DOMAIN disk' \subseteq Blobs /\ \A a \in DOMAIN disk' : disk'[a] \in Xattrs
    BY Types
  <2> QED
    BY <1>2, <2>1, <2>2, <2>3, Types DEF MetaInv, TypeOK, FileState
<1>8. IsFiniteSet(DOMAIN file')
  BY <1>2, FS_Subset DEF MetaInv, NameInv
<1>9. OpInv(c)'
  <2>1. /\ op'[c].pc = "delete_blob" /\ op'[c].b = b /\ b # NULL /\ op'[c].name # NULL
        /\ op'[c].new # NULL <=> op'[c].then = "rename"
        /\ op'[c].then # "open" /\ Target(c)' \notin DOMAIN files'
        /\ b \in DOMAIN disk' /\ disk'[b].name \in {NULL, Target(c)'}
    BY <1>1, <1>2, <1>3, <1>5, Types
  <2> QED
    BY <2>1 DEF OpInv, Waiting, Creating, Renaming
<1>10. ASSUME NEW d \in Clients, c # d
       PROVE  /\ Concerns(c)' \cap Concerns(d)' # {} => op'[c].pc \in Waiting /\ op'[d].pc \in Waiting
              /\ op'[c].b = op'[d].b => op'[c].b = NULL
  BY <1>3, <1>4, <1>5, <1>10
<1>11. \A a \in {b} : opens'[a] = 0 /\ With(a, {"delete_blob"})'
  BY <1>3 DEF With
<1>12. \A m \in DOMAIN acked' : /\ m \in DOMAIN acked /\ acked'[m] = acked[m] /\ m \notin {n}
                                /\ \A e \in {c} : m \notin Concerns(e)'
  BY <1>5
<1>13. \A a \in gone' :
             \/ a \in gone /\ a \notin {b}
             \/ /\ a \in DOMAIN disk' => disk'[a].deleted
                /\ \A g \in DOMAIN file' : file'[g].blobid = a => file'[g].is_deleted
  <2> TAKE a \in gone'
  <2>1. CASE a = b
    <3>1. disk[b].deleted
      BY <2>1 DEF MetaInv, GoneInv
    <3> QED
      <4>1. a \in DOMAIN disk' => disk'[a].deleted
        BY <2>1, <3>1
      <4>2. ASSUME NEW g \in DOMAIN file' PROVE file'[g].blobid # a
        <5>1. g \in DOMAIN file /\ g # f /\ file'[g] = file[g]
          BY <1>2
        <5>2. file[g].blobid # b
          BY <1>1, <5>1
        <5> QED
          BY <2>1, <5>1, <5>2
      <4> QED
        BY <4>1, <4>2
  <2>2. CASE a # b
    BY <2>2
  <2> QED
    BY <2>1, <2>2
<1>14. /\ \A m \in {n} : m \in DOMAIN files' =>
             files'[m] = f /\ f \in DOMAIN file' /\ file'[f].name = m
       /\ f \notin DOMAIN file' /\ \A d \in Clients : handle'[d] # f
       /\ \A e \in {c} : OpInv(e)'
  BY <1>2, <1>9
<1>15. \A e \in {c}, d \in Clients : e # d =>
             /\ Concerns(e)' \cap Concerns(d)' # {} => op'[e].pc \in Waiting /\ op'[d].pc \in Waiting
             /\ op'[e].b = op'[d].b => op'[e].b = NULL
  BY <1>10
<1>16. \A m \in DOMAIN acked' :
             \/ Lasts(m)'
             \/ /\ m \in DOMAIN acked /\ acked'[m] = acked[m] /\ m \notin {n}
                /\ \A e \in {c} : m \notin Concerns(e)'
  BY <1>12
<1>17. Rest({c}, {n}, f, {b})
  BY <1>3, <1>7, <1>8, <1>11, <1>13, <1>14, <1>15, <1>16, ZenonT(30) DEF Rest
<1> QED
  BY <1>6, <1>17, FrameRest

\* The fields of the record that a call has at p.
IsCall(r, p, n, m, f, b, t) ==
    r \in OpState /\ r.pc = p /\ r.name = n /\ r.new = m /\ r.f = f /\ r.b = b /\ r.then = t

LEMMA DeleteCall ==
    ASSUME NEW p \in Calls, NEW n \in Names, NEW b \in Blobs, NEW r,
           r = [[Idle EXCEPT !.name = n] EXCEPT !.pc = p, !.b = b]
    PROVE  IsCall(r, p, n, NULL, NULL, b, "return")
BY DEF IsCall, Idle, OpState

LEMMA RenameCall ==
    ASSUME NEW p \in Calls, NEW n \in Names, NEW m \in Names, NEW b \in Blobs, NEW r,
           r = [[Idle EXCEPT !.name = n, !.new = m, !.then = "rename"] EXCEPT !.pc = p, !.b = b]
    PROVE  IsCall(r, p, n, m, NULL, b, "rename")
BY DEF IsCall, Idle, OpState

\* __file_close_async_done.
LEMMA ClosedMeta ==
    ASSUME MetaInv, NEW c \in Clients, Closed(c)
    PROVE  MetaInv'
<1>0. mode = "ready" /\ op[c].pc = "closing" /\ Persisted(c)
      /\ UNCHANGED <<mode, doomed, acked, gone>>
  BY DEF Closed, Ready, ghostVars
<1>2. PICK f, b, n : f = Subject(c) /\ b = op[c].b /\ n = Target(c)
  OBVIOUS
<1>3. op[c].pc \notin Waiting \cup {"idle", "delete_blob", "list", "create_blob"} /\ op[c].f = f
      /\ file[f].ref_count = 0 /\ n \in Names /\ n \in DOMAIN files /\ files[n] = f
  <2>1. op[c].pc \notin Waiting \cup {"idle", "delete_blob", "list", "create_blob"}
    BY <1>0 DEF Waiting
  <2> QED
    BY <1>0, <1>2, <2>1, OpFile, OpNames DEF MetaInv, OpInv, Subject
<1>5. /\ f \in DOMAIN file /\ file[f] \in FileState /\ file[f].blobid = b
      /\ file[f].open_requests = {} /\ file[f].name = n
      /\ b \in Blobs /\ b # NULL /\ b \in DOMAIN disk /\ mem[b] \in Xattrs
      /\ mem[b].deleted = file[f].is_deleted /\ disk[b] = mem[b]
      /\ mem[b].name \in {NULL, n}
      /\ opens[b] = (IF file[f].blob THEN 1 ELSE 0) + (IF op[c].pc \in Holding THEN 1 ELSE 0)
  BY <1>0, <1>2, <1>3, BlobFacts
<1>p. PICK o : o = [opens EXCEPT ![b] = @ - 1]
  OBVIOUS
<1>6. IF DeletePending(f)
      THEN DeleteAsync(c, n, [Idle EXCEPT !.name = n], Pending(c), o)
      ELSE /\ op' = [op EXCEPT ![c] = Idle]
           /\ opens' = o /\ persists' = Pending(c)
           /\ UNCHANGED <<nameVars, handle, mem, ub>>
  BY <1>2, <1>3, <1>5, <1>p DEF Closed
<1>7. CASE ~file[f].is_deleted
  <2>1. /\ op' = [op EXCEPT ![c] = Idle]
        /\ opens' = [opens EXCEPT ![op[c].b] = @ - 1] /\ persists' = Pending(c)
        /\ UNCHANGED <<files, file, handle, ub, mode, mem, doomed>>
    BY <1>0, <1>2, <1>6, <1>7, <1>p DEF DeletePending, nameVars
  <2> QED
    BY <1>0, <1>2, <1>7, <2>1, ReturnMeta
<1>8. CASE file[f].is_deleted
  <2>1. Find(n) = f /\ f # NULL /\ f \in Files
    BY <1>3, <1>5, FileFacts DEF Find
  <2>2. ~InUse(f)
    BY <1>3 DEF InUse
  <2>r. PICK r : r = [[Idle EXCEPT !.name = n] EXCEPT !.pc = "delete_blob", !.b = b]
    OBVIOUS
  <2>3. IsCall(r, "delete_blob", n, NULL, NULL, b, "return")
    BY <1>3, <1>5, <2>r, DeleteCall DEF Calls
  <2>4. /\ opens' = o /\ handle' = handle /\ files' = Remove(files, n)
        /\ file' = Restrict(file, DOMAIN file \ {f})
        /\ op' = [op EXCEPT ![c] = r] /\ persists' = Pending(c) /\ mem' = mem /\ ub' = ub
    <3>1. DeleteAsync(c, n, [Idle EXCEPT !.name = n], Pending(c), o)
      BY <1>6, <1>8 DEF DeletePending
    <3> QED
      BY <1>5, <2>1, <2>2, <2>r, <3>1 DEF DeleteAsync
  <2>5. /\ DOMAIN disk' = DOMAIN disk /\ disk'[b] = mem[b]
        /\ \A a \in DOMAIN disk : a # b => disk'[a] = disk[a]
    BY <1>0, <1>2, DiskDone
  <2>6. ~file[f].blob /\ \A d \in Clients : handle[d] # f
    BY <1>3, <1>5, NoReferences
  <2>7. o \in [Blobs -> Nat] /\ o[b] = 0 /\ \A a \in Blobs \ {b} : o[a] = opens[a]
    <3>1. ~file[f].blob /\ op[c].pc \in Holding
      BY <1>0, <1>5, <2>6 DEF Holding
    <3>2. opens[b] = 1
      BY <1>5, <3>1
    <3>3. opens[b] > 0 /\ opens[b] - 1 = 0
      BY <3>2
    <3> QED
      BY <1>5, <1>p, <3>3, OpensLess
  <2>8. \A d \in Clients \ {c} : op[d].b # b /\ n \notin Concerns(d) /\ NULL \notin Concerns(d)
    <3>1. \A d \in Clients \ {c} : op[d].b # b
      BY <1>2, <1>3, <1>5, Alone
    <3>2. \A d \in Clients \ {c} : n \notin Concerns(d)
      BY <1>2, <1>3, Busy
    <3> QED
      BY <3>1, <3>2 DEF Concerns
  <2>9. PersistInv'
    <3>1. \A d \in Clients \ {c} : op'[d] = op[d]
      BY <2>4, Types
    <3>2. Apart(c, b)
      BY <2>4, <2>8, <3>1 DEF Apart
    <3> QED
      BY <1>0, <2>4, <3>2, PersistDone
  <2>10. \A m \in DOMAIN acked : m # n /\ m # NULL
    <3>1. \A m \in DOMAIN acked : Lasts(m)
      BY DEF MetaInv, AckInv
    <3> QED
      BY <1>0, <1>3, <1>8, <3>1, Types, ZenonT(30) DEF Lasts
  <2>11. /\ r.pc = "delete_blob" /\ r.b = b /\ r.name = n /\ r.new = NULL /\ r.then = "return"
         /\ r \in OpState
    BY <2>3 DEF IsCall
  <2>12. UNCHANGED <<mode, handle, mem, doomed, ub, gone>> /\ opens' \in [Blobs -> Nat]
         /\ opens'[b] = 0 /\ \A a \in Blobs \ {b} : opens'[a] = opens[a]
    BY <1>0, <2>4, <2>7
  <2>13. \A d \in Clients \ {c} : Concerns(d) \cap {r.name, r.new} = {} /\ op[d].b # b
    BY <2>8, <2>11
  <2>14. /\ disk'[b] \in Xattrs /\ disk'[b].name \in {NULL, n} /\ disk[b].deleted => disk'[b].deleted
         /\ op[c].b \in {NULL, b} /\ op[c].pc \notin Waiting \cup {"create_blob"}
         /\ f = files[n] /\ b = file[f].blobid
    BY <1>2, <1>3, <1>5, <2>5
  <2>15. /\ DOMAIN acked' \subseteq DOMAIN acked
         /\ \A m \in DOMAIN acked' : acked'[m] = acked[m] /\ m \notin {r.name, r.new}
    BY <1>0, <2>10, <2>11
  <2>16. \/ r.new = NULL /\ r.then = "return" /\ r.name = n
         \/ r.new = n /\ r.then = "rename"
    BY <2>11
  <2>17. n \in DOMAIN files /\ r.name \in Names /\ r \in OpState
    BY <1>3, <2>11
  <2>18. Freed(c, n, f, b, r)
    BY <2>16, <2>17, <1>0, <1>3, <1>5, <2>4, <2>5, <2>6, <2>9, <2>11, <2>12, <2>13, <2>14, <2>15 DEF Freed
  <2> QED
    BY <2>18, FreeFile
<1> QED
  BY <1>7, <1>8

-----------------------------------------------------------------------------
(* A call that begins on a file that stays.                                  *)

\* The idle client c begins a call about file f with blob b.  Others may wait for
\* an open of f, and go on waiting.
Begun(c, f, b) ==
    /\ c \in Clients /\ op[c].pc = "idle"
    /\ f \in DOMAIN file /\ b = file[f].blobid /\ b \in Blobs
    /\ mode = "ready" /\ UNCHANGED <<mode, files, disk, doomed, ub, gone>>
    /\ op' \in [Clients -> OpState] /\ handle' \in [Clients -> Files \cup {NULL}]
    /\ \A d \in Clients \ {c} : op'[d] = op[d] /\ handle'[d] = handle[d]
    /\ handle'[c] = handle[c] \/ {handle[c], handle'[c]} \subseteq {f, NULL}
    /\ op'[c].b \in {NULL, b} /\ Concerns(c)' \subseteq {file[f].name}
    /\ \A d \in Clients \ {c} : file[f].name \in Concerns(d) =>
         /\ op[d].pc \in Waiting /\ OpInv(d)'
         /\ Concerns(c)' = {} \/ op'[c].pc \in Waiting
    /\ op'[c].b # NULL => \A d \in Clients \ {c} : op[d].b # b
    /\ DOMAIN file' = DOMAIN file
    /\ \A g \in DOMAIN file : g # f => file'[g] = file[g]
    /\ file'[f] \in FileState /\ file'[f].name = file[f].name /\ file'[f].blobid = b
    /\ mem' \in [Blobs -> Xattrs] /\ opens' \in [Blobs -> Nat]
    /\ \A a \in Blobs \ {b} : mem'[a] = mem[a] /\ opens'[a] = opens[a]
    /\ DOMAIN acked' \subseteq DOMAIN acked
    /\ \A n \in DOMAIN acked' :
         /\ acked'[n] = acked[n]
         /\ \/ n # file[f].name
            \/ /\ file'[f].is_deleted = file[f].is_deleted
               /\ op'[c].pc \in Waiting \cup {"idle", "list", "closing"}

LEMMA FrameBegun ==
    ASSUME MetaInv, NEW c, NEW f, NEW b, Begun(c, f, b), OpInv(c)', FileInv(f)', PersistInv',
           b \in gone => file'[f].is_deleted
    PROVE  MetaInv'
<1>n. PICK n : n = file[f].name
  OBVIOUS
<1>1. /\ c \in Clients /\ f \in DOMAIN file /\ b = file[f].blobid /\ b \in Blobs /\ b # NULL
      /\ op[c].pc = "idle" /\ op[c] = Idle /\ Concerns(c) = {} /\ mode = "ready"
      /\ n \in DOMAIN files /\ files[n] = f /\ n \in Names
      /\ \A m \in DOMAIN files : files[m] = f => m = n
      /\ \A g \in DOMAIN file : file[g].blobid = b => g = f
  <2>1. c \in Clients /\ f \in DOMAIN file /\ b = file[f].blobid /\ b \in Blobs
        /\ op[c].pc = "idle" /\ mode = "ready"
    BY DEF Begun
  <2> QED
    BY <1>n, <2>1, FileFacts, OpNames, Types
<1>2. \A d \in Clients \ {c} : op'[d] = op[d] /\ handle'[d] = handle[d] /\ Concerns(d)' = Concerns(d)
  BY DEF Begun, Concerns
<1>3. ASSUME NEW d \in Clients \ {c}
      PROVE  \/ Concerns(d) \cap {n} = {} /\ op[d].b \notin {b}
             \/ op[d].pc \in Waiting /\ OpInv(d)'
  <2>1. CASE n \in Concerns(d)
    BY <1>n, <2>1 DEF Begun
  <2>2. CASE n \notin Concerns(d)
    <3> SUFFICES ASSUME op[d].b = b PROVE FALSE
      BY <2>2
    <3>1. FileInv(f) /\ file[f].blobid = b
      BY <1>1, FileFacts
    <3>2. op[d].pc \notin {"create_blob", "delete_blob"} /\ Subject(d) = f
      BY <1>1, <3>1 DEF FileInv
    <3>3. op[d].pc # "idle"
      BY <1>1 DEF MetaInv, OpInv
    <3>4. file[f].name = Target(d) /\ Target(d) \in Concerns(d)
      BY <3>2, <3>3, OpFile, OpNames
    <3> QED
      BY <1>n, <2>2, <3>4
  <2> QED
    BY <2>1, <2>2
<1>4. Local({c}, {n}, f, {b})
  <2>1. \A m \in Names \ {n} : /\ m \in DOMAIN files' <=> m \in DOMAIN files
                               /\ m \in DOMAIN files => files'[m] = files[m] /\ files[m] # f
    BY <1>1 DEF Begun
  <2>2. \A g \in DOMAIN file \cup DOMAIN file' : g # f =>
          /\ g \in DOMAIN file /\ g \in DOMAIN file' /\ file'[g] = file[g]
          /\ file[g].blobid \notin {b}
    BY <1>1 DEF Begun
  <2>3. \A a \in Blobs \ {b} : /\ mem'[a] = mem[a] /\ opens'[a] = opens[a]
                               /\ a \in DOMAIN disk' <=> a \in DOMAIN disk
                               /\ a \in DOMAIN disk => disk'[a] = disk[a]
    BY DEF Begun
  <2>4. \A e \in {c} :
          /\ op[e].b \in {b} \cup {NULL} /\ op'[e].b \in {b} \cup {NULL}
          /\ op[e].pc \in Waiting \cup {"create_blob"} => op[e].f = f
          /\ handle'[e] = handle[e] \/ {handle[e], handle'[e]} \subseteq {f, NULL}
    BY <1>1, IdleType DEF Begun, Waiting
  <2>5. /\ {c} \subseteq Clients /\ {n} \subseteq Names /\ {b} \subseteq Blobs
        /\ mode = "ready" /\ mode' = mode /\ doomed' = doomed /\ ub' = ub
        /\ \A m \in {n} : m \in DOMAIN files => files[m] = f
        /\ f \in DOMAIN file => file[f].blobid \in {b} \cup {NULL}
        /\ f \in DOMAIN file' => file'[f].blobid \in {b} \cup {NULL}
    BY <1>1 DEF Begun
  <2> QED
    BY <1>2, <1>3, <2>1, <2>2, <2>3, <2>4, <2>5, Zenon DEF Local
<1>5. TypeOK'
  <2>1. \A g \in DOMAIN file' : g \in Files /\ file'[g] \in FileState
    BY FileFacts DEF Begun
  <2>2. UNCHANGED <<mode, files, disk, doomed, gone>> /\ handle' \in [Clients -> Files \cup {NULL}]
        /\ mem' \in [Blobs -> Xattrs] /\ opens' \in [Blobs -> Nat]
    BY DEF Begun
  <2> QED
    BY <2>1, <2>2 DEF MetaInv, TypeOK, FileState
<1>6. ASSUME NEW m \in DOMAIN acked'
      PROVE  \/ Lasts(m)'
             \/ /\ m \in DOMAIN acked /\ acked'[m] = acked[m] /\ m \notin {n}
                /\ \A e \in {c} : m \notin Concerns(e)'
  <2>1. m \in DOMAIN acked /\ acked'[m] = acked[m] /\ Lasts(m)
    BY DEF Begun, MetaInv, AckInv
  <2>2. CASE m # n
    BY <1>n, <2>1, <2>2 DEF Begun
  <2>3. CASE m = n
    <3>1. file'[f].is_deleted = file[f].is_deleted /\ op'[c].pc \in Waiting \cup {"idle", "list", "closing"}
      BY <1>n, <2>3 DEF Begun
    <3>2. acked[m] = b
      BY <1>1, <2>1, <2>3 DEF Lasts
    <3>3. /\ n \in Names /\ b \in DOMAIN disk /\ disk[b] = [name |-> n, deleted |-> FALSE]
          /\ ~file[f].is_deleted
      BY <1>1, <2>1, <2>3, <3>2 DEF Lasts
    <3>4. disk' = disk /\ mode' = mode /\ files' = files /\ file'[f].blobid = b
      BY DEF Begun
    <3>5. ASSUME NEW d \in Clients, m \in Concerns(d)'
          PROVE  op'[d].pc \in Waiting \cup {"list", "closing"}
      <4>1. CASE d = c
        <5>1. op'[c].pc # "idle"
          BY <3>5, <4>1, IdleType DEF OpInv, Concerns
        <5> QED
          BY <3>1, <4>1, <5>1
      <4>2. CASE d # c
        BY <1>2, <2>1, <3>5, <4>2 DEF Lasts
      <4> QED
        BY <4>1, <4>2
    <3>6. Lasts(m)'
      BY <1>1, <2>1, <2>3, <3>1, <3>2, <3>3, <3>4, <3>5 DEF Lasts
    <3> QED
      BY <3>6
  <2> QED
    BY <2>2, <2>3
<1>7. ASSUME NEW d \in Clients, c # d
      PROVE  /\ Concerns(c)' \cap Concerns(d)' # {} => op'[c].pc \in Waiting /\ op'[d].pc \in Waiting
             /\ op'[c].b = op'[d].b => op'[c].b = NULL
  BY <1>2, <1>7, <1>n DEF Begun
<1>8. \A a \in gone' :
         \/ a \in gone /\ a \notin {b}
         \/ /\ a \in DOMAIN disk' => disk'[a].deleted
            /\ \A g \in DOMAIN file' : file'[g].blobid = a => file'[g].is_deleted
  BY <1>1 DEF Begun, MetaInv, GoneInv
<1>9. /\ f \in DOMAIN file' /\ file'[f].name = n /\ n \in DOMAIN files' /\ files'[n] = f
      /\ op' \in [Clients -> OpState] /\ IsFiniteSet(DOMAIN file') /\ file'[f].blobid = b
  BY <1>1, <1>n DEF Begun, MetaInv, NameInv
<1>10. Rest({c}, {n}, f, {b})
  BY <1>5, <1>6, <1>7, <1>8, <1>9 DEF Rest
<1> QED
  BY <1>4, <1>10, FrameRest

\* What a call about the names ns finds when it begins.
LEMMA BeginFacts ==
    ASSUME Orderly, MetaInv, NEW c \in Clients, NEW ns, Begin(c, ns)
    PROVE  /\ mode = "ready" /\ op[c].pc = "idle" /\ op[c] = Idle /\ op[c].b = NULL
           /\ Concerns(c) = {} /\ op[c].pc \notin Writing \cup Waiting \cup {"create_blob"}
           /\ \A d \in Clients : Concerns(d) \cap ns = {}
<1>1. mode = "ready" /\ op[c].pc = "idle" /\ \A d \in Clients : Concerns(d) \cap ns = {}
  BY DEF Begin, Ready, Orderly
<1> QED
  BY <1>1, OpNames, IdleType DEF Writing, Waiting

\* Nothing but the names ns leaves what was reported.
LEMMA AckedLess ==
    ASSUME MetaInv, NEW ns, acked' = Restrict(acked, DOMAIN acked \ ns)
    PROVE  /\ DOMAIN acked' \subseteq DOMAIN acked
           /\ \A m \in DOMAIN acked' : acked'[m] = acked[m] /\ m \notin ns \cup {NULL}
<1>1. \A m \in DOMAIN acked : m \in Names
  BY DEF MetaInv, AckInv, Lasts
<1> QED
  BY <1>1, MetaAssumption DEF Restrict

\* spdk_fs_delete_file of a file that nobody has open, and of one that is open.
LEMMA DeleteFreeMeta ==
    ASSUME Orderly, MetaInv, NEW c \in Clients, NEW n \in Names, Delete(c, n), ~InUse(files[n])
    PROVE  MetaInv'
<1>0. Begin(c, {n}) /\ Find(n) # NULL
      /\ DeleteAsync(c, n, [Idle EXCEPT !.name = n], persists, opens)
      /\ acked' = Restrict(acked, DOMAIN acked \ {n})
      /\ UNCHANGED <<mode, disk, doomed, gone>>
  BY DEF Delete
<1>1. PICK f : f = files[n]
  OBVIOUS
<1>2. n \in DOMAIN files /\ f \in DOMAIN file /\ Find(n) = f /\ f # NULL /\ file[f].name = n
  BY <1>0, <1>1 DEF Find, MetaInv, NameInv
<1>b. PICK b : b = file[f].blobid
  OBVIOUS
<1>3. /\ mode = "ready" /\ op[c].pc = "idle" /\ op[c].b = NULL
      /\ op[c].pc \notin Writing \cup Waiting \cup {"create_blob"}
      /\ \A d \in Clients : Concerns(d) \cap {n} = {}
  BY <1>0, BeginFacts
<1>4. /\ b \in Blobs /\ b # NULL /\ b \in DOMAIN disk /\ mem[b] \in Xattrs
      /\ disk[b] = mem[b] /\ mem[b].name \in {NULL, n}
      /\ opens[b] = (IF file[f].blob THEN 1 ELSE 0)
      /\ \A d \in Clients : op[d].b # b
  <2>1. \A d \in Clients : file[f].name \in Concerns(d) => op[d].pc = "delete_blob"
    BY <1>2, <1>3
  <2>2. f \in DOMAIN file /\ file[f].name = n
    BY <1>2
  <2> QED
    BY <2>1, <2>2, <1>b, Quiet
<1>5. file[f].ref_count = 0 /\ ~file[f].blob /\ \A d \in Clients : handle[d] # f
  <2>1. file[f].ref_count \in Nat /\ ~(file[f].ref_count > 0)
    BY <1>1, <1>2, FileFacts DEF InUse, FileState
  <2>2. file[f].ref_count = 0
    BY <2>1
  <2> QED
    BY <1>2, <2>2, NoReferences
<1>r. PICK r : r = [[Idle EXCEPT !.name = n] EXCEPT !.pc = "delete_blob", !.b = b]
  OBVIOUS
<1>6. /\ r \in OpState /\ r.pc = "delete_blob" /\ r.b = b /\ r.name = n /\ r.new = NULL
      /\ r.then = "return"
  <2>1. IsCall(r, "delete_blob", n, NULL, NULL, b, "return")
    BY <1>4, <1>r, DeleteCall DEF Calls
  <2> QED
    BY <2>1 DEF IsCall
<1>7. /\ opens' = opens /\ handle' = handle /\ files' = Remove(files, n)
      /\ file' = Restrict(file, DOMAIN file \ {f})
      /\ op' = [op EXCEPT ![c] = r] /\ persists' = persists /\ mem' = mem /\ ub' = ub
  BY <1>0, <1>1, <1>2, <1>b, <1>r DEF DeleteAsync
<1>8. PersistInv'
  <2>1. \A d \in Clients \ {c} : op'[d] = op[d]
    BY <1>7, Types
  <2>2. Apart(c, b)
    BY <1>4, <1>7, <2>1 DEF Apart
  <2> QED
    BY <1>3, <1>7, <2>2, PersistKeep
<1>9. /\ DOMAIN acked' \subseteq DOMAIN acked
      /\ \A m \in DOMAIN acked' : acked'[m] = acked[m] /\ m \notin {r.name, r.new}
  BY <1>0, <1>6, AckedLess
<1>10. \A d \in Clients \ {c} : Concerns(d) \cap {r.name, r.new} = {} /\ op[d].b # b
  BY <1>3, <1>4, <1>6 DEF Concerns
<1>11. opens' \in [Blobs -> Nat] /\ opens'[b] = 0 /\ \A a \in Blobs \ {b} : opens'[a] = opens[a]
  BY <1>4, <1>5, <1>7, Types
<1>12. Freed(c, n, f, b, r)
  BY <1>0, <1>1, <1>2, <1>b, <1>3, <1>4, <1>5, <1>6, <1>7, <1>8, <1>9, <1>10, <1>11 DEF Freed
<1> QED
  BY <1>12, FreeFile

LEMMA DeleteMarkMeta ==
    ASSUME Orderly, MetaInv, NEW c \in Clients, NEW n \in Names, Delete(c, n), InUse(files[n])
    PROVE  MetaInv'
<1>0. Begin(c, {n}) /\ Find(n) # NULL
      /\ DeleteAsync(c, n, [Idle EXCEPT !.name = n], persists, opens)
      /\ acked' = Restrict(acked, DOMAIN acked \ {n})
      /\ UNCHANGED <<mode, disk, doomed, gone>>
  BY DEF Delete
<1>1. PICK f : f = files[n]
  OBVIOUS
<1>2. n \in DOMAIN files /\ f \in DOMAIN file /\ Find(n) = f /\ f # NULL /\ file[f].name = n
      /\ file[f] \in FileState
  BY <1>0, <1>1, FileFacts DEF Find, MetaInv, NameInv
<1>b. PICK b : b = file[f].blobid
  OBVIOUS
<1>3. /\ mode = "ready" /\ op[c].pc = "idle" /\ op[c].b = NULL
      /\ op[c].pc \notin Writing \cup Waiting \cup {"create_blob"}
      /\ \A d \in Clients : Concerns(d) \cap {n} = {}
  BY <1>0, BeginFacts
<1>4. /\ b \in Blobs /\ b # NULL /\ b \in DOMAIN disk /\ mem[b] \in Xattrs
      /\ disk[b] = mem[b] /\ mem[b].name \in {NULL, n}
      /\ opens[b] = (IF file[f].blob THEN 1 ELSE 0)
      /\ file[f].open_requests = {}
      /\ file[f].blob <=> \E d \in Clients : handle[d] = f
      /\ \A d \in Clients : op[d].b # b
  <2>1. \A d \in Clients : file[f].name \in Concerns(d) => op[d].pc = "delete_blob"
    BY <1>2, <1>3
  <2>2. f \in DOMAIN file /\ file[f].name = n
    BY <1>2
  <2> QED
    BY <2>1, <2>2, <1>b, Quiet
<1>5. file[f].ref_count > 0 /\ file[f].blob = TRUE
  <2>1. file[f].ref_count > 0
    BY <1>1 DEF InUse
  <2>2. file[f].ref_count = Cardinality({d \in Clients : handle[d] = f})
    BY <1>2, <1>3, Quiet
  <2>3. \E d \in Clients : handle[d] = f
    <3> SUFFICES ASSUME \A d \in Clients : handle[d] # f PROVE FALSE
      OBVIOUS
    <3>1. Cardinality({d \in Clients : handle[d] = f}) = 0
      BY NoHandles
    <3>2. file[f].ref_count = 0
      BY <2>2, <3>1
    <3> QED
      BY <2>1, <3>2
  <2> QED
    BY <1>2, <1>4, <2>1, <2>3 DEF FileState
<1>x. PICK x : x = [mem[b] EXCEPT !.deleted = TRUE]
  OBVIOUS
<1>y. x \in Xattrs /\ x.name = mem[b].name /\ x.deleted = TRUE
  BY <1>x, <1>4 DEF Xattrs
<1>r. PICK r : r = [[Idle EXCEPT !.name = n] EXCEPT !.pc = "mark", !.b = b]
  OBVIOUS
<1>6. /\ r \in OpState /\ r.pc = "mark" /\ r.b = b /\ r.name = n /\ r.new = NULL
      /\ r.then = "return"
  <2>1. IsCall(r, "mark", n, NULL, NULL, b, "return")
    BY <1>4, <1>r, DeleteCall DEF Calls
  <2> QED
    BY <2>1 DEF IsCall
<1>7. /\ opens' = opens /\ handle' = handle /\ files' = files /\ ub' = ub
      /\ file' = [file EXCEPT ![f].is_deleted = TRUE] /\ mem' = [mem EXCEPT ![b] = x]
      /\ persists' = Write(persists, c, b, x) /\ op' = [op EXCEPT ![c] = r]
  BY <1>0, <1>1, <1>2, <1>5, <1>b, <1>x, <1>r DEF DeleteAsync
<1>8. /\ mem' \in [Blobs -> Xattrs] /\ mem'[b] = x /\ \A a \in Blobs \ {b} : mem'[a] = mem[a]
      /\ op' \in [Clients -> OpState] /\ op'[c] = r /\ \A d \in Clients \ {c} : op'[d] = op[d]
  BY <1>4, <1>6, <1>7, <1>y, Types
<1>9. /\ DOMAIN file' = DOMAIN file /\ \A g \in DOMAIN file : g # f => file'[g] = file[g]
      /\ file'[f] \in FileState /\ file'[f].name = n /\ file'[f].blobid = b
      /\ file'[f].ref_count = file[f].ref_count /\ file'[f].blob = TRUE
      /\ file'[f].open_requests = {} /\ file'[f].is_deleted = TRUE
  <2>1. file'[f] = [file[f] EXCEPT !.is_deleted = TRUE] /\ DOMAIN file' = DOMAIN file
        /\ \A g \in DOMAIN file : g # f => file'[g] = file[g]
    BY <1>2, <1>7
  <2>2. file'[f] \in FileState
    BY <1>2, <2>1 DEF FileState
  <2>3. /\ file'[f].name = file[f].name /\ file'[f].blobid = file[f].blobid
        /\ file'[f].ref_count = file[f].ref_count /\ file'[f].blob = file[f].blob
        /\ file'[f].open_requests = file[f].open_requests /\ file'[f].is_deleted = TRUE
    BY <1>2, <2>1 DEF FileState
  <2> QED
    BY <1>2, <1>4, <1>5, <1>b, <2>1, <2>2, <2>3
<1>10. Target(c)' = n /\ Subject(c)' = f /\ Concerns(c)' = {n}
  BY <1>1, <1>6, <1>7, <1>8, Types DEF Target, Subject, Concerns
<1>11. Begun(c, f, b)
  <2>1. /\ DOMAIN acked' \subseteq DOMAIN acked
        /\ \A m \in DOMAIN acked' : acked'[m] = acked[m] /\ m # n
    BY <1>0, AckedLess
  <2>2. \A d \in Clients \ {c} : n \notin Concerns(d)
    BY <1>3
  <2>3. /\ UNCHANGED <<mode, files, disk, doomed, ub, gone>> /\ handle' \in [Clients -> Files \cup {NULL}]
        /\ \A d \in Clients \ {c} : op'[d] = op[d] /\ handle'[d] = handle[d]
        /\ handle'[c] = handle[c] /\ op'[c].b = b /\ opens' \in [Blobs -> Nat]
        /\ \A a \in Blobs \ {b} : mem'[a] = mem[a] /\ opens'[a] = opens[a]
    BY <1>0, <1>6, <1>7, <1>8, Types
  <2> QED
    BY <1>2, <1>b, <1>3, <1>4, <1>8, <1>9, <1>10, <2>1, <2>2, <2>3 DEF Begun
<1>12. OpInv(c)'
  BY <1>0, <1>2, <1>4, <1>6, <1>7, <1>8, <1>9, <1>10, Types DEF OpInv, Waiting, Creating, Renaming
<1>13. FileInv(f)'
  <2>1. \A d \in Clients \ {c} : op'[d].b # b
    BY <1>4, <1>8
  <2>2. \A pcs : With(b, pcs)' <=> op'[c].b = b /\ op'[c].pc \in pcs
    BY <2>1, WithOnePrimed
  <2>3. \A d \in Clients : op'[d].b = b =>
          op'[d].pc \notin {"create_blob", "delete_blob"} /\ Subject(d)' = f
    BY <1>6, <1>8, <1>10, <2>1
  <2>4. With(b, {"create_close", "mark", "rename_close"})' /\ ~With(b, Holding)'
    BY <1>6, <1>8, <2>2 DEF Holding
  <2>5. /\ file[f].ref_count = Cardinality({d \in Clients : handle[d] = f}) + Cardinality(file[f].open_requests)
        /\ file[f].blob <=> \E d \in Clients : handle[d] = f
    BY <1>2, FileFacts DEF FileInv
  <2>6. opens'[b] = (IF file'[f].blob THEN 1 ELSE 0) + (IF With(b, Holding)' THEN 1 ELSE 0)
    <3>1. (IF With(b, Holding)' THEN 1 ELSE 0) = 0 /\ opens[b] = 1
      BY <1>4, <1>5, <2>4
    <3> QED
      BY <1>7, <1>9, <3>1
  <2>7. /\ b \in DOMAIN disk' /\ mem'[b].deleted = file'[f].is_deleted
        /\ mem'[b].name \in {NULL, file'[f].name} /\ file'[f].ref_count > 0
        /\ file'[f].blobid = b /\ b # NULL /\ file'[f].open_requests = {}
    BY <1>0, <1>4, <1>5, <1>8, <1>9, <1>y
  <2>8. /\ file'[f].ref_count = Cardinality({d \in Clients : handle'[d] = f}) + Cardinality(file'[f].open_requests)
        /\ file'[f].blob <=> \E d \in Clients : handle'[d] = f
    BY <1>4, <1>5, <1>7, <1>9, <2>5
  <2> QED
    BY <2>3, <2>4, <2>6, <2>7, <2>8 DEF FileInv
<1>14. PersistInv'
  <2>1. Apart(c, b)
    BY <1>4, <1>8 DEF Apart
  <2> QED
    BY <1>3, <1>4, <1>6, <1>7, <1>8, <1>y, <2>1, PersistWrite DEF Writing
<1> QED
  BY <1>9, <1>11, <1>12, <1>13, <1>14, FrameBegun

LEMMA DeleteMeta ==
    ASSUME Orderly, MetaInv, NEW c \in Clients, NEW n \in Names, Delete(c, n)
    PROVE  MetaInv'
BY DeleteFreeMeta, DeleteMarkMeta

-----------------------------------------------------------------------------
(* Close.                                                                    *)

LEMMA CloseCall ==
    ASSUME NEW n \in Names, NEW f \in Files, NEW b \in Blobs, NEW r,
           r = [Idle EXCEPT !.pc = "closing", !.f = f, !.name = n, !.b = b]
    PROVE  IsCall(r, "closing", n, NULL, f, b, "return")
BY DEF IsCall, Idle, OpState, Calls

\* A handle less is a reference less.
LEMMA HandleLess ==
    ASSUME MetaInv, NEW c \in Clients, NEW f \in DOMAIN file, handle[c] = f,
           handle' = [handle EXCEPT ![c] = NULL]
    PROVE  /\ Cardinality({d \in Clients : handle[d] = f}) \in Nat \ {0}
           /\ Cardinality({d \in Clients : handle'[d] = f})
                = Cardinality({d \in Clients : handle[d] = f}) - 1
<1> DEFINE H == {d \in Clients : handle[d] = f}
<1>1. IsFiniteSet(H) /\ c \in H /\ H # {}
  BY MetaAssumption, FS_Subset
<1>2. {d \in Clients : handle'[d] = f} = H \ {c}
  BY FileFacts, Types
<1>3. Cardinality(H \ {c}) = Cardinality(H) - 1 /\ Cardinality(H) \in Nat /\ Cardinality(H) # 0
  BY <1>1, FS_RemoveElement, FS_CardinalityType, FS_EmptySet
<1> QED
  BY <1>2, <1>3

LEMMA CloseMeta ==
    ASSUME Orderly, MetaInv, NEW c \in Clients, Close(c)
    PROVE  MetaInv'
<1>1. PICK f, n, b : f = handle[c] /\ n = file[f].name /\ b = file[f].blobid
  OBVIOUS
<1>2. f \in DOMAIN file /\ f # NULL /\ f \in Files /\ file[f] \in FileState /\ n \in Names
      /\ n \in DOMAIN files /\ files[n] = f
  <2>1. f \in DOMAIN file /\ f # NULL
    BY <1>1 DEF Close, MetaInv, NameInv
  <2> QED
    BY <1>1, <2>1, FileFacts, Types
<1>0. /\ Begin(c, {n}) /\ handle' = [handle EXCEPT ![c] = NULL]
      /\ IF file[f].ref_count > 1
         THEN /\ file' = [file EXCEPT ![f].ref_count = @ - 1]
              /\ UNCHANGED <<op, persists>>
         ELSE /\ file' = [file EXCEPT ![f].ref_count = 0, ![f].blob = FALSE]
              /\ op' = [op EXCEPT ![c] = [Idle EXCEPT !.pc = "closing", !.f = f, !.name = n, !.b = b]]
              /\ persists' = Write(persists, c, b, mem[b])
      /\ UNCHANGED <<files, opens, mem, ub, mode, disk, doomed, acked, gone>>
  BY <1>1, <1>2 DEF Close, ghostVars
<1>3. /\ mode = "ready" /\ op[c].pc = "idle" /\ op[c] = Idle /\ op[c].b = NULL /\ Concerns(c) = {}
      /\ op[c].pc \notin Writing \cup Waiting \cup {"create_blob"}
      /\ \A d \in Clients : Concerns(d) \cap {n} = {}
  BY <1>0, BeginFacts
<1>4. /\ b \in Blobs /\ b # NULL /\ b \in DOMAIN disk /\ mem[b] \in Xattrs
      /\ disk[b] = mem[b] /\ mem[b].name \in {NULL, n} /\ mem[b].deleted = file[f].is_deleted
      /\ opens[b] = (IF file[f].blob THEN 1 ELSE 0)
      /\ file[f].open_requests = {}
      /\ file[f].blob <=> \E d \in Clients : handle[d] = f
      /\ \A d \in Clients : op[d].b # b
  BY <1>1, <1>2, <1>3, Quiet
<1>5. /\ file[f].ref_count \in Nat \ {0} /\ file[f].blob = TRUE
      /\ Cardinality({d \in Clients : handle'[d] = f}) = file[f].ref_count - 1
  <2>1. file[f].ref_count = Cardinality({d \in Clients : handle[d] = f})
    BY <1>1, <1>2, <1>3, Quiet
  <2>2. file[f].blob = TRUE
    BY <1>1, <1>2, <1>4 DEF FileState
  <2> QED
    BY <1>0, <1>1, <1>2, <2>1, <2>2, HandleLess
<1>6. /\ handle' \in [Clients -> Files \cup {NULL}] /\ handle'[c] = NULL
      /\ \A d \in Clients \ {c} : handle'[d] = handle[d]
  BY <1>0, Types
<1>7. b \in gone => file[f].is_deleted
  BY <1>1, <1>2 DEF MetaInv, GoneInv
<1>8. CASE file[f].ref_count > 1
  <2>1. file' = [file EXCEPT ![f].ref_count = @ - 1] /\ op' = op /\ persists' = persists
    BY <1>0, <1>8
  <2>2. /\ DOMAIN file' = DOMAIN file /\ \A g \in DOMAIN file : g # f => file'[g] = file[g]
        /\ file'[f] \in FileState /\ file'[f].name = n /\ file'[f].blobid = b
        /\ file'[f].ref_count = file[f].ref_count - 1 /\ file'[f].blob = TRUE
        /\ file'[f].open_requests = {} /\ file'[f].is_deleted = file[f].is_deleted
    <3>1. file'[f] = [file[f] EXCEPT !.ref_count = file[f].ref_count - 1] /\ DOMAIN file' = DOMAIN file
          /\ \A g \in DOMAIN file : g # f => file'[g] = file[g]
      BY <1>2, <2>1
    <3>2. file[f].ref_count - 1 \in Nat
      BY <1>5
    <3>3. file'[f] \in FileState
      BY <1>2, <3>1, <3>2 DEF FileState
    <3>4. /\ file'[f].name = file[f].name /\ file'[f].blobid = file[f].blobid
          /\ file'[f].ref_count = file[f].ref_count - 1 /\ file'[f].blob = file[f].blob
          /\ file'[f].open_requests = file[f].open_requests
          /\ file'[f].is_deleted = file[f].is_deleted
      BY <1>2, <3>1 DEF FileState
    <3> QED
      BY <1>1, <1>4, <1>5, <3>1, <3>3, <3>4
  <2>3. OpInv(c)' /\ Concerns(c)' = {} /\ op'[c].pc = "idle" /\ op'[c].b = NULL
        /\ op' \in [Clients -> OpState] /\ \A d \in Clients \ {c} : op'[d] = op[d]
    <3>1. op' = [op EXCEPT ![c] = Idle]
      BY <1>3, <2>1, Types
    <3> QED
      BY <3>1, IdleStep
  <2>4. Begun(c, f, b)
    <3>1. \A d \in Clients \ {c} : n \notin Concerns(d)
      BY <1>3
    <3>2. UNCHANGED <<mode, files, disk, doomed, ub, gone>> /\ acked' = acked
          /\ mem' \in [Blobs -> Xattrs] /\ opens' \in [Blobs -> Nat]
          /\ \A a \in Blobs \ {b} : mem'[a] = mem[a] /\ opens'[a] = opens[a]
      BY <1>0, Types
    <3>3. {handle[c], handle'[c]} \subseteq {f, NULL}
      BY <1>1, <1>6
    <3> QED
      BY <1>1, <1>2, <1>3, <1>4, <1>6, <2>2, <2>3, <3>1, <3>2, <3>3 DEF Begun
  <2>5. FileInv(f)'
    <3>1. \A d \in Clients : op'[d].b # b
      BY <1>4, <2>1
    <3>2. \A pcs : ~With(b, pcs)'
      BY <3>1 DEF With
    <3>3. opens'[b] = (IF file'[f].blob THEN 1 ELSE 0) + (IF With(b, Holding)' THEN 1 ELSE 0)
      <4>1. (IF With(b, Holding)' THEN 1 ELSE 0) = 0 /\ opens[b] = 1
        BY <1>4, <1>5, <3>2
      <4> QED
        BY <1>0, <2>2, <4>1
    <3>4. \E d \in Clients : handle'[d] = f
      <4> SUFFICES ASSUME \A d \in Clients : handle'[d] # f PROVE FALSE
        OBVIOUS
      <4>1. {d \in Clients : handle'[d] = f} = {}
        OBVIOUS
      <4>2. Cardinality({d \in Clients : handle'[d] = f}) = 0
        BY <4>1, FS_EmptySet
      <4> QED
        BY <1>5, <1>8, <4>2
    <3>5. file'[f].ref_count = Cardinality({d \in Clients : handle'[d] = f}) + Cardinality(file'[f].open_requests)
      BY <1>5, <2>2, FS_EmptySet
    <3>6. /\ b \in DOMAIN disk' /\ mem'[b].deleted = file'[f].is_deleted /\ disk'[b] = mem'[b]
          /\ mem'[b].name \in {NULL, file'[f].name} /\ file'[f].ref_count > 0
          /\ file'[f].blobid = b /\ b # NULL /\ file'[f].open_requests = {} /\ file'[f].blob
      BY <1>0, <1>1, <1>4, <1>5, <1>8, <2>2
    <3> QED
      BY <3>1, <3>3, <3>4, <3>5, <3>6 DEF FileInv
  <2>6. PersistInv'
    <3>1. Apart(c, b)
      BY <1>0, <1>4, <2>1 DEF Apart
    <3> QED
      BY <1>3, <2>1, <3>1, PersistKeep
  <2> QED
    BY <1>7, <2>2, <2>3, <2>4, <2>5, <2>6, FrameBegun
<1>9. CASE ~(file[f].ref_count > 1)
  <2>r. PICK r : r = [Idle EXCEPT !.pc = "closing", !.f = f, !.name = n, !.b = b]
    OBVIOUS
  <2>1. file' = [file EXCEPT ![f].ref_count = 0, ![f].blob = FALSE] /\ op' = [op EXCEPT ![c] = r]
        /\ persists' = Write(persists, c, b, mem[b])
    BY <1>0, <1>9, <2>r
  <2>2. /\ DOMAIN file' = DOMAIN file /\ \A g \in DOMAIN file : g # f => file'[g] = file[g]
        /\ file'[f] \in FileState /\ file'[f].name = n /\ file'[f].blobid = b
        /\ file'[f].ref_count = 0 /\ file'[f].blob = FALSE
        /\ file'[f].open_requests = {} /\ file'[f].is_deleted = file[f].is_deleted
    <3>1. file'[f] = [file[f] EXCEPT !.ref_count = 0, !.blob = FALSE] /\ DOMAIN file' = DOMAIN file
          /\ \A g \in DOMAIN file : g # f => file'[g] = file[g]
      BY <1>2, <2>1
    <3>2. PICK h : h = [file[f] EXCEPT !.ref_count = 0]
      OBVIOUS
    <3>3. file'[f] \in FileState
      <4>1. h \in FileState
        BY <1>2, <3>2 DEF FileState
      <4>2. file'[f] = [h EXCEPT !.blob = FALSE]
        BY <3>1, <3>2
      <4> QED
        BY <4>1, <4>2 DEF FileState
    <3>4. /\ file'[f].name = file[f].name /\ file'[f].blobid = file[f].blobid
          /\ file'[f].ref_count = 0 /\ file'[f].blob = FALSE
          /\ file'[f].open_requests = file[f].open_requests
          /\ file'[f].is_deleted = file[f].is_deleted
      BY <1>2, <3>1 DEF FileState
    <3> QED
      BY <1>1, <1>4, <1>5, <3>1, <3>3, <3>4
  <2>3. /\ r \in OpState /\ r.pc = "closing" /\ r.name = n /\ r.new = NULL /\ r.f = f /\ r.b = b
        /\ r.then = "return"
    <3>1. IsCall(r, "closing", n, NULL, f, b, "return")
      BY <1>2, <1>4, <2>r, CloseCall
    <3> QED
      BY <3>1 DEF IsCall
  <2>4. op' \in [Clients -> OpState] /\ op'[c] = r /\ \A d \in Clients \ {c} : op'[d] = op[d]
    BY <2>1, <2>3, Types
  <2>5. Target(c)' = n /\ Subject(c)' = f /\ Concerns(c)' = {n}
    BY <1>0, <1>2, <2>3, <2>4, Types DEF Target, Subject, Concerns
  <2>6. Begun(c, f, b)
    <3>1. \A d \in Clients \ {c} : n \notin Concerns(d)
      BY <1>3
    <3>2. UNCHANGED <<mode, files, disk, doomed, ub, gone>> /\ acked' = acked
          /\ mem' \in [Blobs -> Xattrs] /\ opens' \in [Blobs -> Nat]
          /\ \A a \in Blobs \ {b} : mem'[a] = mem[a] /\ opens'[a] = opens[a]
      BY <1>0, Types
    <3>3. {handle[c], handle'[c]} \subseteq {f, NULL}
      BY <1>1, <1>6
    <3>4. op'[c].b = b /\ op'[c].pc = "closing" /\ \A d \in Clients \ {c} : op[d].b # b
      BY <1>4, <2>3, <2>4
    <3> QED
      BY <1>1, <1>2, <1>3, <1>4, <1>6, <2>2, <2>4, <2>5, <3>1, <3>2, <3>3, <3>4 DEF Begun
  <2>7. OpInv(c)'
    BY <1>0, <1>2, <1>4, <2>2, <2>3, <2>4, <2>5, Types DEF OpInv, Waiting, Creating, Renaming
  <2>8. FileInv(f)'
    <3>1. \A d \in Clients \ {c} : op'[d].b # b
      BY <1>4, <2>4
    <3>2. \A pcs : With(b, pcs)' <=> op'[c].b = b /\ op'[c].pc \in pcs
      BY <3>1, WithOnePrimed
    <3>3. opens'[b] = (IF file'[f].blob THEN 1 ELSE 0) + (IF With(b, Holding)' THEN 1 ELSE 0)
      <4>1. With(b, Holding)'
        BY <2>3, <2>4, <3>2 DEF Holding
      <4>2. (IF With(b, Holding)' THEN 1 ELSE 0) = 1 /\ opens[b] = 1
        BY <1>4, <1>5, <4>1
      <4> QED
        BY <1>0, <2>2, <4>2
    <3>4. /\ Cardinality({d \in Clients : handle'[d] = f}) = 0
          /\ \A d \in Clients : handle'[d] # f
      <4>1. Cardinality({d \in Clients : handle'[d] = f}) = 0
        BY <1>5, <1>9
      <4>2. IsFiniteSet({d \in Clients : handle'[d] = f})
        BY MetaAssumption, FS_Subset
      <4>3. {d \in Clients : handle'[d] = f} = {}
        BY <4>1, <4>2, FS_EmptySet
      <4> QED
        BY <4>1, <4>3
    <3>5. file'[f].ref_count = Cardinality({d \in Clients : handle'[d] = f}) + Cardinality(file'[f].open_requests)
      BY <2>2, <3>4, FS_EmptySet
    <3>6. /\ b \in DOMAIN disk' /\ mem'[b].deleted = file'[f].is_deleted /\ disk'[b] = mem'[b]
          /\ mem'[b].name \in {NULL, file'[f].name} /\ With(b, {"closing"})'
          /\ file'[f].blobid = b /\ b # NULL /\ file'[f].open_requests = {} /\ ~file'[f].blob
      BY <1>0, <1>1, <1>4, <2>2, <2>3, <2>4, <3>2
    <3>7. \A d \in Clients : op'[d].b = b =>
            op'[d].pc \notin {"create_blob", "delete_blob"} /\ Subject(d)' = f
      BY <2>3, <2>4, <2>5, <3>1
    <3> QED
      BY <3>3, <3>4, <3>5, <3>6, <3>7 DEF FileInv
  <2>9. PersistInv'
    <3>1. Apart(c, b)
      BY <1>0, <1>4, <2>4 DEF Apart
    <3> QED
      BY <1>0, <1>3, <1>4, <2>1, <2>3, <2>4, <3>1, PersistWrite DEF Writing
  <2> QED
    BY <1>7, <2>2, <2>6, <2>7, <2>8, <2>9, FrameBegun
<1> QED
  BY <1>8, <1>9

-----------------------------------------------------------------------------
(* Open.                                                                     *)

\* A file that calls only open: its blob is open for the handles.
LEMMA OpenFacts ==
    ASSUME MetaInv, NEW f \in DOMAIN file,
           \A d \in Clients : file[f].name \in Concerns(d) => op[d].pc \in Waiting
    PROVE  LET b == file[f].blobid
           IN  /\ b \in Blobs /\ b # NULL /\ b \in DOMAIN disk /\ mem[b] \in Xattrs
               /\ disk[b] = mem[b] /\ mem[b].deleted = file[f].is_deleted
               /\ mem[b].name \in {NULL, file[f].name}
               /\ opens[b] = (IF file[f].blob THEN 1 ELSE 0)
               /\ \A d \in Clients : op[d].b = b => op[d].pc = "opening" /\ op[d].f = f
               /\ \A d \in Clients : file[f].name \in Concerns(d) =>
                    d \in file[f].open_requests /\ Subject(d) = f
<1>b. PICK b : b = file[f].blobid
  OBVIOUS
<1>1. FileInv(f) /\ file[f] \in FileState /\ files[file[f].name] = f
  BY FileFacts
<1>2. ASSUME NEW d \in Clients, op[d].pc \notin Waiting \cup {"idle", "delete_blob"} PROVE Subject(d) # f
  BY <1>2, OpFile, OpNames
<1>4. b # NULL
  <2> SUFFICES ASSUME b = NULL PROVE FALSE
    OBVIOUS
  <2>1. PICK d \in Clients : op[d].pc = "create_blob" /\ op[d].f = f
    BY <1>1, <1>b DEF FileInv
  <2>2. op[d].f = Subject(d)
    BY <2>1 DEF MetaInv, OpInv, Creating
  <2> QED
    BY <1>2, <2>1, <2>2 DEF Waiting
<1>5. ASSUME NEW d \in Clients, op[d].b = b PROVE op[d].pc = "opening" /\ op[d].f = f
  <2>1. op[d].pc \notin {"create_blob", "delete_blob"} /\ Subject(d) = f
    BY <1>1, <1>4, <1>5, <1>b DEF FileInv
  <2>2. op[d].pc \notin {"idle", "open_wait"}
    BY <1>4, <1>5 DEF MetaInv, OpInv
  <2>3. op[d].pc \in Waiting
    BY <1>2, <2>1, <2>2
  <2>4. op[d].f = Subject(d)
    BY <2>3 DEF MetaInv, OpInv
  <2> QED
    BY <2>1, <2>2, <2>3, <2>4 DEF Waiting
<1>6. /\ ~With(b, {"rename_open"}) /\ ~With(b, {"create_close", "mark", "rename_close"})
      /\ ~With(b, Holding)
  BY <1>5 DEF With, Holding
<1>7. /\ b \in DOMAIN disk
      /\ mem[b].deleted = file[f].is_deleted
      /\ mem[b].name \in {NULL, file[f].name} \/ With(b, {"rename_open"})
      /\ disk[b] = mem[b] \/ With(b, {"create_close", "mark", "rename_close"})
      /\ opens[b] = (IF file[f].blob THEN 1 ELSE 0) + (IF With(b, Holding) THEN 1 ELSE 0)
  BY <1>1, <1>4, <1>b DEF FileInv
<1>8. opens[b] = (IF file[f].blob THEN 1 ELSE 0)
  <2>1. (IF With(b, Holding) THEN 1 ELSE 0) = 0
    BY <1>6
  <2> QED
    BY <1>7, <2>1
<1>9. ASSUME NEW d \in Clients, file[f].name \in Concerns(d)
      PROVE  d \in file[f].open_requests /\ Subject(d) = f
  <2>1. op[d].pc \in Waiting /\ OpInv(d)
    BY <1>9 DEF MetaInv
  <2>2. op[d].new = NULL
    BY <2>1 DEF OpInv, Waiting, Renaming
  <2>3. Target(d) = file[f].name
    BY <1>9, <2>2 DEF Target, Concerns
  <2>4. Subject(d) = f
    BY <1>1, <2>3 DEF Subject
  <2> QED
    BY <2>1, <2>4 DEF OpInv
<1>10. b \in Blobs /\ mem[b] \in Xattrs
  BY <1>7, Types
<1> QED
  BY <1>b, <1>4, <1>5, <1>6, <1>7, <1>8, <1>9, <1>10

\* A client that waits for an open goes on waiting.
LEMMA WaitKeeps ==
    ASSUME MetaInv, NEW d \in Clients, op[d].pc \in Waiting, op'[d] = op[d], handle'[d] = handle[d],
           files' = files, d \in file'[Subject(d)].open_requests,
           file'[Subject(d)].blobid = file[Subject(d)].blobid
    PROVE  OpInv(d)'
<1>1. OpInv(d)
  BY DEF MetaInv
<1>2. Target(d)' = Target(d) /\ Subject(d)' = Subject(d)
  BY DEF Target, Subject
<1> QED
  BY <1>1, <1>2 DEF OpInv, Waiting, Creating, Renaming

\* The file after one more open request.
LEMMA OpenedFacts ==
    ASSUME MetaInv, NEW f \in DOMAIN file, NEW c \in Clients, NEW g, g = Opened(f, c)
    PROVE  /\ g \in FileState /\ g.name = file[f].name /\ g.blobid = file[f].blobid
           /\ g.ref_count = file[f].ref_count + 1 /\ g.blob = file[f].blob
           /\ g.open_requests = file[f].open_requests \cup {c} /\ g.is_deleted = file[f].is_deleted
<1>1. file[f] \in FileState
  BY FileFacts
<1>2. g = [file[f] EXCEPT !.open_requests = file[f].open_requests \cup {c},
                          !.ref_count = file[f].ref_count + 1]
  BY <1>1 DEF Opened, FileState
<1>3. file[f].ref_count + 1 \in Nat /\ file[f].open_requests \cup {c} \in SUBSET Clients
  BY <1>1 DEF FileState
<1> QED
  BY <1>1, <1>2, <1>3 DEF FileState

LEMMA OpenCall ==
    ASSUME NEW n \in Names, NEW f \in Files, NEW b \in Blobs, NEW r,
           r = [Idle EXCEPT !.pc = "opening", !.name = n, !.f = f, !.b = b]
    PROVE  IsCall(r, "opening", n, NULL, f, b, "return")
BY DEF IsCall, Idle, OpState, Calls, Waiting

LEMMA WaitCall ==
    ASSUME NEW n \in Names, NEW f \in Files, NEW r,
           r = [Idle EXCEPT !.pc = "open_wait", !.name = n, !.f = f]
    PROVE  IsCall(r, "open_wait", n, NULL, f, NULL, "return")
BY DEF IsCall, Idle, OpState, Calls, Waiting

\* What an open finds: f is the file of name n with blob b, g the file with the
\* new request.
Opens(c, n, f, b, g) ==
    /\ c \in Clients /\ n \in Names /\ n \in DOMAIN files /\ f = files[n] /\ f \in DOMAIN file
    /\ f # NULL /\ f \in Files /\ file[f] \in FileState /\ file[f].name = n /\ b = file[f].blobid
    /\ mode = "ready" /\ op[c] = Idle /\ op[c].pc = "idle" /\ op[c].b = NULL /\ Concerns(c) = {}
    /\ handle[c] = NULL /\ ~file[f].is_deleted
    /\ UNCHANGED <<mode, files, persists, mem, disk, doomed, acked, gone, ub>>
    /\ b \in Blobs /\ b # NULL /\ b \in DOMAIN disk /\ mem[b] \in Xattrs
    /\ disk[b] = mem[b] /\ mem[b].deleted = file[f].is_deleted /\ mem[b].name \in {NULL, n}
    /\ opens[b] = (IF file[f].blob THEN 1 ELSE 0)
    /\ \A d \in Clients : op[d].b = b => op[d].pc = "opening" /\ op[d].f = f
    /\ \A d \in Clients : n \in Concerns(d) =>
         op[d].pc \in Waiting /\ d \in file[f].open_requests /\ Subject(d) = f
    /\ g = Opened(f, c)
    /\ g \in FileState /\ g.name = n /\ g.blobid = b
    /\ g.ref_count = file[f].ref_count + 1 /\ g.blob = file[f].blob
    /\ g.open_requests = file[f].open_requests \cup {c} /\ g.is_deleted = file[f].is_deleted
    /\ c \notin file[f].open_requests
    /\ b \notin gone

LEMMA OpenBegins ==
    ASSUME Orderly, MetaInv, NEW c \in Clients, NEW n \in Names, Open(c, n)
    PROVE  \E f, b, g : Opens(c, n, f, b, g)
<1>1. /\ mode = "ready" /\ op[c].pc = "idle" /\ handle[c] = NULL
      /\ \A d \in Clients : n \in Concerns(d) => op[d].pc \in Waiting
      /\ Find(n) # NULL /\ ~file[Find(n)].is_deleted
      /\ UNCHANGED <<mode, files, persists, mem, disk, doomed, acked, gone>>
  BY DEF Open, Ready, Orderly, Waiting, ghostVars
<1>2. PICK f : f = files[n]
  OBVIOUS
<1>3. n \in DOMAIN files /\ Find(n) = f
  BY <1>1, <1>2 DEF Find
<1>4. f \in DOMAIN file /\ f # NULL /\ f \in Files /\ file[f] \in FileState /\ file[f].name = n
  <2>1. f \in DOMAIN file
    BY <1>2, <1>3, Types
  <2> QED
    BY <1>2, <1>3, <2>1, FileFacts
<1>b. PICK b, g : b = file[f].blobid /\ g = Opened(f, c)
  OBVIOUS
<1>5. /\ b \in Blobs /\ b # NULL /\ b \in DOMAIN disk /\ mem[b] \in Xattrs
      /\ disk[b] = mem[b] /\ mem[b].deleted = file[f].is_deleted
      /\ mem[b].name \in {NULL, n}
      /\ opens[b] = (IF file[f].blob THEN 1 ELSE 0)
      /\ \A d \in Clients : op[d].b = b => op[d].pc = "opening" /\ op[d].f = f
      /\ \A d \in Clients : n \in Concerns(d) =>
           d \in file[f].open_requests /\ Subject(d) = f
  BY <1>1, <1>4, <1>b, OpenFacts
<1>6. /\ g \in FileState /\ g.name = n /\ g.blobid = b
      /\ g.ref_count = file[f].ref_count + 1 /\ g.blob = file[f].blob
      /\ g.open_requests = file[f].open_requests \cup {c} /\ g.is_deleted = file[f].is_deleted
  BY <1>4, <1>b, OpenedFacts
<1>7. c \notin file[f].open_requests
  BY <1>1, <1>4, FileFacts DEF FileInv, Waiting
<1>8. b \notin gone /\ ~file[f].is_deleted
  BY <1>1, <1>3, <1>4, <1>b DEF MetaInv, GoneInv
<1>9. op[c] = Idle /\ op[c].b = NULL /\ Concerns(c) = {}
  BY <1>1, OpNames, IdleType
<1>10. ub' = ub
  <2>1. OpenCb(c, n, opens)
    BY DEF Open
  <2> QED
    BY <1>3, <1>4, <2>1 DEF OpenCb
<1>11. Opens(c, n, f, b, g)
  BY <1>1, <1>2, <1>3, <1>4, <1>b, <1>5, <1>6, <1>7, <1>8, <1>9, <1>10 DEF Opens
<1> QED
  BY <1>11

\* The first open of a file asks the blobstore for its blob.
LEMMA OpenFirst ==
    ASSUME MetaInv, NEW c, NEW n, NEW f, NEW b, NEW g, Opens(c, n, f, b, g), OpenCb(c, n, opens),
           file[f].ref_count = 0
    PROVE  MetaInv'
<1> USE DEF Opens
<1>1. file[f].open_requests = {} /\ file[f].blob = FALSE /\ \A d \in Clients : handle[d] # f
  <2>1. file[f].open_requests = {} /\ ~file[f].blob /\ \A d \in Clients : handle[d] # f
    BY NoReferences
  <2> QED
    BY <2>1 DEF FileState
<1>2. /\ \A d \in Clients : n \notin Concerns(d)
      /\ \A d \in Clients : op[d].b # b
  <2>1. \A d \in Clients : n \notin Concerns(d)
    BY <1>1
  <2>2. ASSUME NEW d \in Clients, op[d].b = b PROVE FALSE
    <3>1. op[d].pc = "opening" /\ op[d].f = f
      BY <2>2
    <3>2. op[d].f = Subject(d) /\ Target(d) \in Concerns(d)
      BY <3>1, OpNames DEF MetaInv, OpInv, Waiting
    <3>3. file[Subject(d)].name = Target(d)
      BY <3>1, OpFile
    <3> QED
      BY <2>1, <3>1, <3>2, <3>3
  <2> QED
    BY <2>1, <2>2
<1>r. PICK r : r = [Idle EXCEPT !.pc = "opening", !.name = n, !.f = f, !.b = b]
  OBVIOUS
<1>3. /\ op' = [op EXCEPT ![c] = r] /\ file' = [file EXCEPT ![f] = g] /\ opens' = opens
      /\ handle' = handle
  <2>1. Find(n) = f /\ ~(f = NULL) /\ g.ref_count = 1 /\ ~(b = NULL) /\ ~(opens[b] > 0)
    BY <1>1 DEF Find
  <2> QED
    BY <2>1, <1>r DEF OpenCb
<1>4. /\ r \in OpState /\ r.pc = "opening" /\ r.name = n /\ r.new = NULL /\ r.f = f /\ r.b = b
      /\ r.then = "return"
  <2>1. IsCall(r, "opening", n, NULL, f, b, "return")
    BY <1>r, OpenCall
  <2> QED
    BY <2>1 DEF IsCall
<1>5. op' \in [Clients -> OpState] /\ op'[c] = r /\ \A d \in Clients \ {c} : op'[d] = op[d]
  BY <1>3, <1>4, Types
<1>6. DOMAIN file' = DOMAIN file /\ file'[f] = g /\ \A h \in DOMAIN file : h # f => file'[h] = file[h]
  BY <1>3
<1>7. Target(c)' = n /\ Subject(c)' = f /\ Concerns(c)' = {n}
  BY <1>4, <1>5, Types DEF Target, Subject, Concerns
<1>8. Begun(c, f, b)
  <2>1. /\ op'[c].b = b /\ op'[c].pc \in Waiting /\ \A d \in Clients \ {c} : op[d].b # b
        /\ handle' \in [Clients -> Files \cup {NULL}] /\ mem' \in [Blobs -> Xattrs]
        /\ opens' \in [Blobs -> Nat]
        /\ \A a \in Blobs \ {b} : mem'[a] = mem[a] /\ opens'[a] = opens[a]
    BY <1>2, <1>3, <1>4, <1>5, Types DEF Waiting
  <2>2. \A d \in Clients \ {c} : handle'[d] = handle[d] /\ op'[d] = op[d] /\ n \notin Concerns(d)
    BY <1>2, <1>3, <1>5
  <2> QED
    BY <1>3, <1>5, <1>6, <1>7, <2>1, <2>2 DEF Begun
<1>9. OpInv(c)'
  BY <1>3, <1>4, <1>5, <1>6, <1>7, Types DEF OpInv, Waiting, Creating, Renaming
<1>10. FileInv(f)'
  <2>1. \A d \in Clients \ {c} : op'[d].b # b
    BY <1>2, <1>5
  <2>2. \A pcs : With(b, pcs)' <=> op'[c].b = b /\ op'[c].pc \in pcs
    BY <2>1, WithOnePrimed
  <2>3. \A d \in Clients : op'[d].b = b =>
          op'[d].pc \notin {"create_blob", "delete_blob"} /\ Subject(d)' = f
    BY <1>4, <1>5, <1>7, <2>1
  <2>4. g.open_requests = {c} /\ g.blob = FALSE /\ g.ref_count = 1 /\ g.is_deleted = FALSE
    BY <1>1 DEF FileState
  <2>5. Cardinality({d \in Clients : handle'[d] = f}) = 0 /\ Cardinality({c}) = 1
    <3>1. {d \in Clients : handle'[d] = f} = {}
      BY <1>1, <1>3
    <3> QED
      BY <3>1, FS_EmptySet, FS_Singleton
  <2>6. opens'[b] = (IF g.blob THEN 1 ELSE 0) + (IF With(b, Holding)' THEN 1 ELSE 0)
    <3>1. ~With(b, Holding)' /\ opens'[b] = 0
      BY <1>1, <1>3, <1>4, <1>5, <2>2 DEF Holding
    <3>2. (IF g.blob THEN 1 ELSE 0) + (IF With(b, Holding)' THEN 1 ELSE 0) = 0
      BY <2>4, <3>1
    <3> QED
      BY <3>1, <3>2
  <2>7. \A d \in g.open_requests : op'[d].pc \in Waiting /\ op'[d].f = f
    BY <1>4, <1>5, <2>4 DEF Waiting
  <2>8. g.ref_count = Cardinality({d \in Clients : handle'[d] = f}) + Cardinality(g.open_requests)
    BY <2>4, <2>5
  <2>9. /\ b \in DOMAIN disk' /\ mem'[b].deleted = g.is_deleted /\ disk'[b] = mem'[b]
        /\ mem'[b].name \in {NULL, g.name} /\ g.blobid = b /\ b # NULL
        /\ ~g.is_deleted /\ ~g.blob /\ \A d \in Clients : handle'[d] # f
    BY <1>1, <1>3, <2>4
  <2> HIDE DEF Opens
  <2> QED
    BY <1>6, <2>3, <2>6, <2>7, <2>8, <2>9 DEF FileInv
<1>11. PersistInv'
  <2>1. Apart(c, b)
    BY <1>2, <1>5 DEF Apart
  <2> QED
    BY <2>1, PersistKeep DEF Writing
<1> HIDE DEF Opens
<1>12. b \notin gone
  BY DEF Opens
<1> QED
  BY <1>8, <1>9, <1>10, <1>11, <1>12, FrameBegun

\* A handle more is a reference more.
LEMMA HandleMore ==
    ASSUME NEW c \in Clients, NEW f, handle[c] # f, handle'[c] = f,
           \A d \in Clients \ {c} : handle'[d] = handle[d]
    PROVE  /\ Cardinality({d \in Clients : handle[d] = f}) \in Nat
           /\ Cardinality({d \in Clients : handle'[d] = f})
                = Cardinality({d \in Clients : handle[d] = f}) + 1
<1> DEFINE H == {d \in Clients : handle[d] = f}
<1>1. IsFiniteSet(H) /\ c \notin H
  BY MetaAssumption, FS_Subset
<1>2. {d \in Clients : handle'[d] = f} = H \cup {c}
  OBVIOUS
<1>3. Cardinality(H \cup {c}) = Cardinality(H) + 1 /\ Cardinality(H) \in Nat
  BY <1>1, FS_AddElement, FS_CardinalityType
<1> QED
  BY <1>2, <1>3

\* A file whose blob is open gets one more handle.
LEMMA OpenAgain ==
    ASSUME MetaInv, NEW c, NEW n, NEW f, NEW b, NEW g, Opens(c, n, f, b, g), OpenCb(c, n, opens),
           file[f].ref_count # 0, file[f].blob
    PROVE  MetaInv'
<1> USE DEF Opens
<1>1. /\ file[f].open_requests = {} /\ file[f].blob = TRUE
      /\ file[f].ref_count = Cardinality({d \in Clients : handle[d] = f}) + Cardinality({})
  <2>1. f \in DOMAIN file /\ file[f] \in FileState
    OBVIOUS
  <2> HIDE DEF Opens
  <2>2. FileInv(f)
    BY <2>1, FileFacts
  <2>3. file[f].open_requests = {} /\ file[f].blob = TRUE
    BY <2>1, <2>2 DEF FileInv, FileState
  <2> QED
    BY <2>2, <2>3 DEF FileInv
<1>2. \A d \in Clients : n \notin Concerns(d)
  BY <1>1
<1>3. \A d \in Clients : op[d].b # b
  <2> SUFFICES ASSUME NEW d \in Clients, op[d].b = b PROVE FALSE
    OBVIOUS
  <2>1. op[d].pc = "opening" /\ op[d].f = f
    OBVIOUS
  <2>2. op[d].f = Subject(d) /\ Target(d) \in Concerns(d)
    BY <2>1, OpNames DEF MetaInv, OpInv, Waiting
  <2>3. file[Subject(d)].name = Target(d)
    BY <2>1, OpFile
  <2> QED
    BY <1>2, <2>1, <2>2, <2>3
<1>4. /\ g.open_requests = {c} /\ g.blob = TRUE /\ Answered(g, c) = {c} /\ g.is_deleted = FALSE
      /\ ~(g.ref_count = 1)
  <2>1. file[f].ref_count \in Nat /\ g.ref_count = file[f].ref_count + 1 /\ file[f].ref_count # 0
    BY DEF FileState
  <2>2. ~(g.ref_count = 1)
    BY <2>1
  <2> QED
    BY <1>1, <2>2 DEF Answered, FileState
<1>5. OpenOver(c, f, g, TRUE) /\ opens' = opens
  <2>1. Find(n) = f /\ ~(f = NULL)
    BY DEF Find
  <2> QED
    BY <1>4, <2>1 DEF OpenCb
<1>h. PICK h : h = [g EXCEPT !.blob = TRUE, !.open_requests = @ \ Answered(g, c)]
  OBVIOUS
<1>6. /\ h \in FileState /\ h.name = n /\ h.blobid = b /\ h.ref_count = file[f].ref_count + 1
      /\ h.is_deleted = FALSE /\ h.blob = TRUE /\ h.open_requests = {}
  <2>1. h = [g EXCEPT !.blob = TRUE, !.open_requests = g.open_requests \ Answered(g, c)]
    BY <1>h DEF FileState
  <2>2. h = [g EXCEPT !.blob = TRUE, !.open_requests = {}]
    BY <1>4, <2>1
  <2>3. PICK k : k = [g EXCEPT !.blob = TRUE]
    OBVIOUS
  <2>4. k \in FileState
    BY <2>3 DEF FileState
  <2>5. h = [k EXCEPT !.open_requests = {}]
    BY <2>2, <2>3
  <2>6. h \in FileState
    BY <2>4, <2>5 DEF FileState
  <2>7. /\ h.name = g.name /\ h.blobid = g.blobid /\ h.ref_count = g.ref_count
        /\ h.is_deleted = g.is_deleted /\ h.blob = TRUE /\ h.open_requests = {}
    BY <2>2 DEF FileState
  <2> QED
    BY <1>4, <2>6, <2>7
<1>7. /\ DOMAIN file' = DOMAIN file /\ file'[f] = h /\ \A e \in DOMAIN file : e # f => file'[e] = file[e]
      /\ op' = op /\ handle' \in [Clients -> Files \cup {NULL}] /\ handle'[c] = f
      /\ \A d \in Clients \ {c} : handle'[d] = handle[d]
  <2>1. /\ file' = [file EXCEPT ![f] = h]
        /\ op' = [d \in Clients |-> IF d \in {c} THEN Idle ELSE op[d]]
        /\ handle' = [d \in Clients |-> IF d \in {c} THEN f ELSE handle[d]]
    BY <1>4, <1>5, <1>h DEF OpenOver
  <2>2. op' = op
    BY <2>1, Types
  <2> QED
    BY <2>1, <2>2, Types
<1>8. op'[c] = Idle /\ Concerns(c)' = {} /\ OpInv(c)' /\ op' \in [Clients -> OpState]
      /\ op'[c].pc = "idle" /\ op'[c].b = NULL /\ \A d \in Clients \ {c} : op'[d] = op[d]
  <2>1. op' = [op EXCEPT ![c] = Idle]
    BY <1>7, Types
  <2> QED
    BY <2>1, IdleStep
<1>9. Begun(c, f, b)
  <2>1. /\ mem' \in [Blobs -> Xattrs] /\ opens' \in [Blobs -> Nat]
        /\ \A a \in Blobs \ {b} : mem'[a] = mem[a] /\ opens'[a] = opens[a]
    BY <1>5, Types
  <2>2. \A d \in Clients \ {c} : handle'[d] = handle[d] /\ op'[d] = op[d] /\ n \notin Concerns(d)
    BY <1>2, <1>7, <1>8
  <2>3. {handle[c], handle'[c]} \subseteq {f, NULL} /\ h.is_deleted = file[f].is_deleted
    BY <1>4, <1>6, <1>7
  <2> QED
    BY <1>6, <1>7, <1>8, <2>1, <2>2, <2>3 DEF Begun
<1>10. FileInv(f)'
  <2>1. \A d \in Clients : op'[d].b # b
    BY <1>3, <1>7
  <2>2. \A pcs : ~With(b, pcs)'
    BY <2>1 DEF With
  <2>3. h.ref_count = Cardinality({d \in Clients : handle'[d] = f}) + Cardinality(h.open_requests)
    <3>1. handle[c] # f /\ handle'[c] = f /\ c \in Clients /\ \A d \in Clients \ {c} : handle'[d] = handle[d]
      BY <1>7
    <3>2. file[f].ref_count = Cardinality({d \in Clients : handle[d] = f}) + Cardinality({})
      BY <1>1
    <3> HIDE DEF Opens
    <3>3. /\ Cardinality({d \in Clients : handle[d] = f}) \in Nat
          /\ Cardinality({d \in Clients : handle'[d] = f})
                = Cardinality({d \in Clients : handle[d] = f}) + 1
      BY <3>1, HandleMore
    <3>4. Cardinality({}) = 0 /\ h.ref_count = file[f].ref_count + 1 /\ h.open_requests = {}
      BY <1>6, FS_EmptySet
    <3> QED
      BY <3>2, <3>3, <3>4
  <2>4. opens'[b] = (IF h.blob THEN 1 ELSE 0) + (IF With(b, Holding)' THEN 1 ELSE 0)
    <3>1. (IF With(b, Holding)' THEN 1 ELSE 0) = 0 /\ opens'[b] = 1
      BY <1>1, <1>5, <2>2
    <3> QED
      BY <1>6, <3>1
  <2>5. /\ b \in DOMAIN disk' /\ mem'[b].deleted = h.is_deleted /\ disk'[b] = mem'[b]
        /\ mem'[b].name \in {NULL, h.name} /\ h.blobid = b /\ b # NULL
        /\ ~h.is_deleted /\ h.blob /\ handle'[c] = f /\ c \in Clients
    <3>1. mem[b].deleted = FALSE /\ mem' = mem /\ disk' = disk /\ disk[b] = mem[b]
          /\ b \in DOMAIN disk /\ mem[b].name \in {NULL, n} /\ b # NULL /\ c \in Clients
      BY <1>4
    <3> HIDE DEF Opens
    <3> QED
      BY <1>6, <1>7, <3>1
  <2> HIDE DEF Opens
  <2> QED
    BY <1>6, <1>7, <2>1, <2>3, <2>4, <2>5 DEF FileInv
<1>11. PersistInv'
  <2>1. Apart(c, b)
    BY <1>3, <1>7 DEF Apart
  <2> QED
    BY <2>1, PersistKeep DEF Writing
<1> HIDE DEF Opens
<1>12. b \notin gone
  BY DEF Opens
<1> QED
  BY <1>8, <1>9, <1>10, <1>11, <1>12, FrameBegun

\* An open while another client waits for the blob waits too.
LEMMA OpenWaits ==
    ASSUME MetaInv, NEW c, NEW n, NEW f, NEW b, NEW g, Opens(c, n, f, b, g), OpenCb(c, n, opens),
           file[f].ref_count # 0, ~file[f].blob
    PROVE  MetaInv'
<1> USE DEF Opens
<1>r. PICK r : r = [Idle EXCEPT !.pc = "open_wait", !.name = n, !.f = f]
  OBVIOUS
<1>1. file[f].ref_count \in Nat /\ file[f].blob = FALSE /\ file[f].open_requests \subseteq Clients
  BY DEF FileState
<1>2. ~(g.ref_count = 1) /\ ~g.blob
  <2>1. file[f].ref_count \in Nat /\ g.ref_count = file[f].ref_count + 1 /\ file[f].ref_count # 0
    BY <1>1
  <2>2. ~(g.ref_count = 1)
    BY <2>1
  <2> QED
    BY <2>2
<1>3. /\ op' = [op EXCEPT ![c] = r] /\ file' = [file EXCEPT ![f] = g] /\ opens' = opens
      /\ handle' = handle
  <2>1. Find(n) = f /\ ~(f = NULL)
    BY DEF Find
  <2> QED
    BY <1>2, <1>r, <2>1 DEF OpenCb
<1>4. /\ r \in OpState /\ r.pc = "open_wait" /\ r.name = n /\ r.new = NULL /\ r.f = f /\ r.b = NULL
      /\ r.then = "return"
  <2>1. IsCall(r, "open_wait", n, NULL, f, NULL, "return")
    BY <1>r, WaitCall
  <2> QED
    BY <2>1 DEF IsCall
<1>5. op' \in [Clients -> OpState] /\ op'[c] = r /\ \A d \in Clients \ {c} : op'[d] = op[d]
  BY <1>3, <1>4, Types
<1>6. DOMAIN file' = DOMAIN file /\ file'[f] = g /\ \A h \in DOMAIN file : h # f => file'[h] = file[h]
  BY <1>3
<1>7. Target(c)' = n /\ Subject(c)' = f /\ Concerns(c)' = {n}
  BY <1>4, <1>5, Types DEF Target, Subject, Concerns
<1>8. ASSUME NEW d \in Clients \ {c}, n \in Concerns(d) PROVE op[d].pc \in Waiting /\ OpInv(d)'
  <2>1. /\ op[d].pc \in Waiting /\ op'[d] = op[d] /\ handle'[d] = handle[d] /\ files' = files
        /\ Subject(d) = f /\ d \in file'[f].open_requests /\ file'[f].blobid = file[f].blobid
    BY <1>3, <1>5, <1>6, <1>8
  <2> HIDE DEF Opens
  <2> QED
    BY <2>1, WaitKeeps
<1>9. Begun(c, f, b)
  <2>1. /\ op'[c].b = NULL /\ op'[c].pc \in Waiting
        /\ handle' \in [Clients -> Files \cup {NULL}] /\ mem' \in [Blobs -> Xattrs]
        /\ opens' \in [Blobs -> Nat]
        /\ \A a \in Blobs \ {b} : mem'[a] = mem[a] /\ opens'[a] = opens[a]
    BY <1>3, <1>4, <1>5, Types DEF Waiting
  <2>2. \A d \in Clients \ {c} : handle'[d] = handle[d] /\ op'[d] = op[d]
    BY <1>3, <1>5
  <2> QED
    BY <1>3, <1>5, <1>6, <1>7, <1>8, <2>1, <2>2 DEF Begun
<1>10. OpInv(c)'
  BY <1>3, <1>4, <1>5, <1>6, <1>7, Types DEF OpInv, Waiting, Creating, Renaming
<1>11. FileInv(f)'
  <2>0. FileInv(f) /\ c \in Clients /\ b # NULL /\ b = file[f].blobid /\ op[c].b = NULL
        /\ file[f].open_requests \subseteq Clients
    BY <1>1, FileFacts
  <2>a. /\ g.ref_count = file[f].ref_count + 1 /\ g.blob = FALSE /\ file[f].ref_count \in Nat
        /\ g.open_requests = file[f].open_requests \cup {c} /\ c \notin file[f].open_requests
        /\ b \in DOMAIN disk' /\ mem'[b].deleted = g.is_deleted /\ disk'[b] = mem'[b]
        /\ mem'[b].name \in {NULL, g.name} /\ g.blobid = b /\ ~g.is_deleted
    BY <1>1
  <2>b. \A d \in Clients : op[d].b = b => op[d].pc = "opening" /\ op[d].f = f
    OBVIOUS
  <2>c. opens'[b] = 0
    BY <1>1, <1>3
  <2>d. files' = files
    OBVIOUS
  <2> HIDE DEF Opens
  <2>1. ASSUME NEW d \in Clients, op'[d].b = b
        PROVE  op'[d].pc = "opening" /\ Subject(d)' = f
    <3>1. d # c
      BY <1>4, <1>5, <2>0, <2>1
    <3>2. op[d].pc = "opening" /\ op[d].f = f /\ op'[d] = op[d]
      BY <1>5, <2>b, <2>1, <3>1
    <3>3. op[d].f = Subject(d)
      BY <3>2 DEF MetaInv, OpInv, Waiting
    <3>4. Subject(d)' = Subject(d)
      BY <2>d, <3>2 DEF Subject, Target
    <3> QED
      BY <3>2, <3>3, <3>4
  <2>2. ~With(b, Holding)'
    BY <2>1 DEF With, Holding
  <2>3. \A d \in g.open_requests : op'[d].pc \in Waiting /\ op'[d].f = f
    <3> TAKE d \in g.open_requests
    <3>1. CASE d = c
      BY <1>4, <1>5, <3>1 DEF Waiting
    <3>2. CASE d # c
      BY <1>5, <2>0, <2>a, <3>2 DEF FileInv
    <3> QED
      BY <3>1, <3>2
  <2>4. g.ref_count = Cardinality({d \in Clients : handle'[d] = f}) + Cardinality(g.open_requests)
    <3> DEFINE H == {d \in Clients : handle[d] = f}
               R == file[f].open_requests
    <3>1. IsFiniteSet(H) /\ IsFiniteSet(R)
      BY <2>0, MetaAssumption, FS_Subset
    <3>2. Cardinality(R \cup {c}) = Cardinality(R) + 1
      BY <2>a, <3>1, FS_AddElement
    <3>3. Cardinality(H) \in Nat /\ Cardinality(R) \in Nat
      BY <3>1, FS_CardinalityType
    <3>4. file[f].ref_count = Cardinality(H) + Cardinality(R)
      BY <2>0 DEF FileInv
    <3>5. {d \in Clients : handle'[d] = f} = H /\ g.open_requests = R \cup {c}
      BY <1>3, <2>a
    <3>6. g.ref_count = Cardinality(H) + Cardinality(R) + 1
      BY <2>a, <3>4
    <3> HIDE DEF H, R
    <3> QED
      BY <3>2, <3>3, <3>5, <3>6
  <2>5. opens'[b] = (IF g.blob THEN 1 ELSE 0) + (IF With(b, Holding)' THEN 1 ELSE 0)
    <3>1. (IF With(b, Holding)' THEN 1 ELSE 0) = 0
      BY <2>2
    <3> QED
      BY <2>a, <2>c, <3>1
  <2>6. \A d \in Clients : handle'[d] # f
    BY <1>1, <1>3, <2>0 DEF FileInv
  <2> QED
    BY <1>6, <2>0, <2>a, <2>1, <2>3, <2>4, <2>5, <2>6 DEF FileInv
<1>12. PersistInv'
  <2>1. \A d \in Clients \ {c} : op[d].pc \in Writing => op[d].b # b
    BY DEF Writing
  <2>2. Apart(c, b)
    BY <1>5, <2>1 DEF Apart
  <2> QED
    BY <2>2, PersistKeep DEF Writing
<1> HIDE DEF Opens
<1>13. b \notin gone
  BY DEF Opens
<1> QED
  BY <1>9, <1>10, <1>11, <1>12, <1>13, FrameBegun

\* spdk_fs_open_file.
LEMMA OpenMeta ==
    ASSUME Orderly, MetaInv, NEW c \in Clients, NEW n \in Names, Open(c, n)
    PROVE  MetaInv'
<1>1. PICK f, b, g : Opens(c, n, f, b, g)
  BY OpenBegins
<1>2. OpenCb(c, n, opens)
  BY DEF Open
<1> QED
  BY <1>1, <1>2, OpenFirst, OpenAgain, OpenWaits

\* fs_open_blob_done: every client that waits gets its handle.
LEMMA OpenDoneMeta ==
    ASSUME Orderly, MetaInv, NEW c \in Clients, OpenDone(c)
    PROVE  MetaInv'
<1>0. mode = "ready" /\ op[c].pc = "opening" /\ UNCHANGED <<mode, persists, disk, doomed, acked, gone>>
  BY DEF OpenDone, Ready, ghostVars
<1>1. PICK f, n, b, R : f = Subject(c) /\ n = Target(c) /\ b = op[c].b /\ R = file[f].open_requests
  OBVIOUS
<1>2. /\ op[c].pc \in Waiting /\ OpInv(c) /\ op[c].f = f /\ c \in R /\ b = file[f].blobid
      /\ f \in DOMAIN file /\ f \in Files /\ f # NULL /\ file[f] \in FileState /\ FileInv(f)
      /\ n \in DOMAIN files /\ n \in Names /\ files[n] = f /\ file[f].name = n
      /\ \A m \in DOMAIN files : files[m] = f => m = n
      /\ n \in Concerns(c)
  <2>1. op[c].pc \in Waiting /\ OpInv(c)
    BY <1>0 DEF Waiting, MetaInv
  <2>2. f \in DOMAIN file /\ n \in DOMAIN files /\ file[f].name = n /\ n \in Concerns(c) /\ n \in Names
    BY <1>0, <1>1, OpFile, OpNames
  <2>3. op[c].f = f /\ c \in R /\ b = file[f].blobid
    BY <1>0, <1>1, <2>1 DEF OpInv
  <2>4. /\ f \in Files /\ f # NULL /\ file[f] \in FileState /\ FileInv(f) /\ files[n] = f
        /\ \A m \in DOMAIN files : files[m] = f => m = n
    BY <2>2, FileFacts
  <2> QED
    BY <2>1, <2>2, <2>3, <2>4
<1>3. \A d \in Clients : n \in Concerns(d) => op[d].pc \in Waiting
  BY <1>2 DEF MetaInv, ApartInv
<1>4. /\ b \in Blobs /\ b # NULL /\ b \in DOMAIN disk /\ mem[b] \in Xattrs
      /\ disk[b] = mem[b] /\ mem[b].deleted = file[f].is_deleted
      /\ mem[b].name \in {NULL, n}
      /\ opens[b] = (IF file[f].blob THEN 1 ELSE 0)
      /\ \A d \in Clients : op[d].b = b => op[d].pc = "opening" /\ op[d].f = f
      /\ \A d \in Clients : n \in Concerns(d) => d \in R /\ Subject(d) = f
  BY <1>1, <1>2, <1>3, OpenFacts
<1>5. /\ R \subseteq Clients /\ \A d \in R : op[d].pc \in Waiting /\ op[d].f = f
      /\ file[f].blob = FALSE /\ \A d \in Clients : handle[d] # f
      /\ opens[b] = 0
  <2>1. R \subseteq Clients /\ file[f].blob \in BOOLEAN
    BY <1>1, <1>2 DEF FileState
  <2>2. \A d \in R : op[d].pc \in Waiting /\ op[d].f = f
    BY <1>1, <1>2 DEF FileInv
  <2>3. ~file[f].blob /\ \A d \in Clients : handle[d] # f
    BY <1>1, <1>2 DEF FileInv
  <2> QED
    BY <1>4, <2>1, <2>2, <2>3
<1>6. \A d \in Clients \ R : n \notin Concerns(d) /\ op[d].b # b
  <2>1. ASSUME NEW d \in Clients \ R, op[d].b = b PROVE FALSE
    <3>1. op[d].pc = "opening" /\ op[d].f = f
      BY <1>4, <2>1
    <3>2. op[d].f = Subject(d) /\ Target(d) \in Concerns(d)
      BY <3>1, OpNames DEF MetaInv, OpInv, Waiting
    <3>3. file[Subject(d)].name = Target(d)
      BY <3>1, OpFile
    <3> QED
      BY <1>2, <1>4, <3>1, <3>2, <3>3
  <2> QED
    BY <1>4, <2>1
<1>7. \A d \in R : handle[d] = NULL /\ op[d].b \in {NULL, b} /\ op[d].pc \notin Writing
  <2> TAKE d \in R
  <2>1. d \in Clients /\ op[d].pc \in Waiting /\ op[d].f = f /\ OpInv(d)
    BY <1>5 DEF MetaInv
  <2>2. Subject(d) = f /\ handle[d] = NULL
    BY <2>1 DEF OpInv
  <2>3. op[d].b \in {NULL, b}
    BY <1>2, <2>1, <2>2 DEF OpInv, Waiting
  <2> QED
    BY <2>1, <2>2, <2>3 DEF Waiting, Writing
<1>h. PICK h : h = [file[f] EXCEPT !.blob = TRUE, !.open_requests = @ \ R]
  OBVIOUS
<1>8. /\ h \in FileState /\ h.name = n /\ h.blobid = b /\ h.ref_count = file[f].ref_count
      /\ h.is_deleted = file[f].is_deleted /\ h.blob = TRUE /\ h.open_requests = {}
  <2>1. h = [file[f] EXCEPT !.blob = TRUE, !.open_requests = file[f].open_requests \ R]
    BY <1>2, <1>h DEF FileState
  <2>2. h = [file[f] EXCEPT !.blob = TRUE, !.open_requests = {}]
    BY <1>1, <2>1
  <2>3. PICK k : k = [file[f] EXCEPT !.blob = TRUE]
    OBVIOUS
  <2>4. k \in FileState
    BY <1>2, <2>3 DEF FileState
  <2>5. h = [k EXCEPT !.open_requests = {}]
    BY <2>2, <2>3
  <2>6. h \in FileState
    BY <2>4, <2>5 DEF FileState
  <2>7. /\ h.name = file[f].name /\ h.blobid = file[f].blobid /\ h.ref_count = file[f].ref_count
        /\ h.is_deleted = file[f].is_deleted /\ h.blob = TRUE /\ h.open_requests = {}
    BY <1>2, <2>2 DEF FileState
  <2> QED
    BY <1>2, <2>6, <2>7
<1>9. /\ file' = [file EXCEPT ![f] = h]
      /\ op' = [d \in Clients |-> IF d \in R THEN Idle ELSE op[d]]
      /\ handle' = [d \in Clients |-> IF d \in R THEN f ELSE handle[d]]
      /\ opens' = [opens EXCEPT ![b] = @ + 1] /\ UNCHANGED <<files, mem, ub>>
  <2>1. PICK ok \in Outcomes("open") :
         IF op[c].f \in DOMAIN file
         THEN /\ OpenOver(c, op[c].f, file[op[c].f], ok)
              /\ opens' = [opens EXCEPT ![op[c].b] = @ + (IF ok THEN 1 ELSE 0)]
              /\ UNCHANGED <<files, mem, ub>>
         ELSE Undefined("freed_file")
    BY DEF OpenDone
  <2>2. ok = TRUE
    BY Succeeds
  <2>3. /\ OpenOver(c, f, file[f], TRUE) /\ opens' = [opens EXCEPT ![b] = @ + 1]
        /\ UNCHANGED <<files, mem, ub>>
    BY <1>1, <1>2, <2>1, <2>2
  <2> QED
    BY <1>1, <1>h, <2>3 DEF OpenOver, Answered
<1>10. /\ op' \in [Clients -> OpState] /\ handle' \in [Clients -> Files \cup {NULL}]
       /\ \A d \in R : op'[d] = Idle /\ op'[d].b = NULL /\ op'[d].pc = "idle" /\ handle'[d] = f
       /\ \A d \in Clients \ R : op'[d] = op[d] /\ handle'[d] = handle[d] /\ Concerns(d)' = Concerns(d)
       /\ opens' \in [Blobs -> Nat] /\ opens'[b] = 1 /\ \A a \in Blobs \ {b} : opens'[a] = opens[a]
       /\ DOMAIN file' = DOMAIN file /\ file'[f] = h /\ \A g \in DOMAIN file : g # f => file'[g] = file[g]
  <2>1. /\ op' \in [Clients -> OpState] /\ handle' \in [Clients -> Files \cup {NULL}]
        /\ \A d \in R : op'[d] = Idle /\ op'[d].b = NULL /\ op'[d].pc = "idle" /\ handle'[d] = f
        /\ \A d \in Clients \ R : op'[d] = op[d] /\ handle'[d] = handle[d]
    BY <1>2, <1>5, <1>9, Types, IdleType
  <2>2. opens' \in [Blobs -> Nat] /\ opens'[b] = 1 /\ \A a \in Blobs \ {b} : opens'[a] = opens[a]
    BY <1>4, <1>5, <1>9, Types
  <2> QED
    BY <1>2, <1>9, <2>1, <2>2 DEF Concerns
<1>11. \A d \in R : Concerns(d)' = {} /\ OpInv(d)'
  <2>1. \A d \in R : Concerns(d)' = {}
    BY <1>10, IdleType DEF Concerns
  <2>2. \A d \in R : OpInv(d)'
    BY <1>10, IdleType DEF OpInv, Waiting, Creating, Renaming
  <2> QED
    BY <2>1, <2>2
<1>12. Local(R, {n}, f, {b})
  <2>1. \A m \in Names \ {n} : /\ m \in DOMAIN files' <=> m \in DOMAIN files
                               /\ m \in DOMAIN files => files'[m] = files[m] /\ files[m] # f
    BY <1>2, <1>9
  <2>2. \A g \in DOMAIN file \cup DOMAIN file' : g # f =>
          /\ g \in DOMAIN file /\ g \in DOMAIN file' /\ file'[g] = file[g]
          /\ file[g].blobid \notin {b}
    BY <1>2, <1>4, <1>10, FileFacts
  <2>3. \A a \in Blobs \ {b} : /\ mem'[a] = mem[a] /\ opens'[a] = opens[a]
                               /\ a \in DOMAIN disk' <=> a \in DOMAIN disk
                               /\ a \in DOMAIN disk => disk'[a] = disk[a]
    BY <1>0, <1>9, <1>10
  <2>4. \A e \in R :
          /\ op[e].b \in {b} \cup {NULL} /\ op'[e].b \in {b} \cup {NULL}
          /\ op[e].pc \in Waiting \cup {"create_blob"} => op[e].f = f
          /\ handle'[e] = handle[e] \/ {handle[e], handle'[e]} \subseteq {f, NULL}
    BY <1>5, <1>7, <1>10
  <2>5. /\ R \subseteq Clients /\ {n} \subseteq Names /\ {b} \subseteq Blobs
        /\ mode = "ready" /\ mode' = mode /\ doomed' = doomed /\ ub' = ub
        /\ \A m \in {n} : m \in DOMAIN files => files[m] = f
        /\ f \in DOMAIN file => file[f].blobid \in {b} \cup {NULL}
        /\ f \in DOMAIN file' => file'[f].blobid \in {b} \cup {NULL}
    BY <1>0, <1>2, <1>4, <1>5, <1>8, <1>9, <1>10
  <2>6. \A d \in Clients \ R : /\ op'[d] = op[d] /\ handle'[d] = handle[d]
                               /\ Concerns(d) \cap {n} = {} /\ op[d].b \notin {b}
    BY <1>6, <1>10
  <2> QED
    BY <2>1, <2>2, <2>3, <2>4, <2>5, <2>6, Zenon DEF Local
<1>13. TypeOK'
  <2>1. \A g \in DOMAIN file' : g \in Files /\ file'[g] \in FileState
    BY <1>8, <1>10, FileFacts
  <2> QED
    BY <1>0, <1>9, <1>10, <2>1 DEF MetaInv, TypeOK, FileState
<1>14. FileInv(f)'
  <2>1. \A d \in Clients : op'[d].b # b
    BY <1>4, <1>6, <1>10
  <2>2. ~With(b, Holding)'
    BY <2>1 DEF With
  <2>3. h.ref_count = Cardinality({d \in Clients : handle'[d] = f}) + Cardinality(h.open_requests)
    <3>1. {d \in Clients : handle'[d] = f} = R /\ {d \in Clients : handle[d] = f} = {}
      BY <1>5, <1>10
    <3>2. file[f].ref_count = Cardinality({d \in Clients : handle[d] = f}) + Cardinality(R)
      BY <1>1, <1>2 DEF FileInv
    <3>3. Cardinality({}) = 0 /\ Cardinality(R) \in Nat
      <4>1. IsFiniteSet(R)
        BY <1>5, MetaAssumption, FS_Subset
      <4> QED
        BY <4>1, FS_CardinalityType, FS_EmptySet
    <3>4. h.ref_count = Cardinality({}) + Cardinality(R)
      BY <1>8, <3>1, <3>2
    <3>5. /\ Cardinality({d \in Clients : handle'[d] = f}) = Cardinality(R)
          /\ Cardinality(h.open_requests) = Cardinality({})
      BY <1>8, <3>1
    <3> QED
      BY <3>3, <3>4, <3>5
  <2>4. opens'[b] = (IF h.blob THEN 1 ELSE 0) + (IF With(b, Holding)' THEN 1 ELSE 0)
    <3>1. (IF With(b, Holding)' THEN 1 ELSE 0) = 0
      BY <2>2
    <3> QED
      BY <1>8, <1>10, <3>1
  <2>5. h.is_deleted => h.ref_count > 0
    <3>1. ~With(b, {"closing"})
      BY <1>4 DEF With
    <3>2. file[f].is_deleted => file[f].ref_count > 0 \/ With(b, {"closing"})
      BY <1>2, <1>4 DEF FileInv
    <3> QED
      BY <1>8, <3>1, <3>2
  <2>6. /\ b \in DOMAIN disk' /\ mem'[b].deleted = h.is_deleted /\ disk'[b] = mem'[b]
        /\ mem'[b].name \in {NULL, h.name} /\ h.blobid = b /\ b # NULL
        /\ h.blob /\ handle'[c] = f
    BY <1>0, <1>2, <1>4, <1>8, <1>9, <1>10
  <2>7. file'[f] = h /\ h.open_requests = {} /\ \E d \in Clients : handle'[d] = f
    BY <1>8, <1>10, <2>6
  <2> QED
    BY <2>1, <2>3, <2>4, <2>5, <2>6, <2>7 DEF FileInv
<1>15. PersistInv'
  BY <1>0, <1>7, <1>12, FramePersists
<1>16. ASSUME NEW m \in DOMAIN acked'
       PROVE  \/ Lasts(m)'
              \/ /\ m \in DOMAIN acked /\ acked'[m] = acked[m] /\ m \notin {n}
                 /\ \A e \in R : m \notin Concerns(e)'
  <2>1. m \in DOMAIN acked /\ acked' = acked /\ Lasts(m)
    BY <1>0 DEF MetaInv, AckInv
  <2>2. CASE m # n
    BY <1>11, <2>1, <2>2
  <2>3. CASE m = n
    <3>1. acked[m] = b /\ ~file[f].is_deleted /\ disk[b] = [name |-> n, deleted |-> FALSE]
      BY <1>0, <1>2, <2>1, <2>3 DEF Lasts
    <3>2. \A d \in Clients : n \notin Concerns(d)'
      BY <1>6, <1>10, <1>11
    <3>3. Lasts(m)'
      BY <1>0, <1>2, <1>4, <1>8, <1>9, <1>10, <2>1, <2>3, <3>1, <3>2 DEF Lasts
    <3> QED
      BY <3>3
  <2> QED
    BY <2>2, <2>3
<1>17. \A a \in gone' :
         \/ a \in gone /\ a \notin {b}
         \/ /\ a \in DOMAIN disk' => disk'[a].deleted
            /\ \A g \in DOMAIN file' : file'[g].blobid = a => file'[g].is_deleted
  <2> TAKE a \in gone'
  <2>1. CASE a = b
    <3>1. disk[b].deleted /\ \A g \in DOMAIN file : file[g].blobid = b => file[g].is_deleted
      BY <1>0, <1>4, <2>1 DEF MetaInv, GoneInv
    <3> QED
      BY <1>0, <1>2, <1>8, <1>10, <2>1, <3>1
  <2>2. CASE a # b
    BY <1>0, <2>2
  <2> QED
    BY <2>1, <2>2
<1>18. \A e \in R, d \in Clients : e # d =>
         /\ Concerns(e)' \cap Concerns(d)' # {} => op'[e].pc \in Waiting /\ op'[d].pc \in Waiting
         /\ op'[e].b = op'[d].b => op'[e].b = NULL
  BY <1>10, <1>11
<1>19. /\ f \in DOMAIN file' /\ file'[f].name = n /\ n \in DOMAIN files' /\ files'[n] = f
       /\ op' \in [Clients -> OpState] /\ IsFiniteSet(DOMAIN file') /\ file'[f].blobid = b
  BY <1>2, <1>8, <1>9, <1>10 DEF MetaInv, NameInv
<1>20. Rest(R, {n}, f, {b})
  BY <1>11, <1>13, <1>14, <1>15, <1>16, <1>17, <1>18, <1>19 DEF Rest
<1> QED
  BY <1>12, <1>20, FrameRest

-----------------------------------------------------------------------------
(* A call that begins a create.                                              *)

LEMMA CreateCall ==
    ASSUME NEW n \in Names, NEW f \in Files, NEW b \in Blobs, NEW t \in {"return", "open"}, NEW r,
           r = [Idle EXCEPT !.pc = "create_blob", !.name = n, !.f = f, !.b = b, !.then = t]
    PROVE  IsCall(r, "create_blob", n, NULL, f, b, t)
BY DEF IsCall, Idle, OpState, Calls, Creating

LEMMA NewFileType ==
    ASSUME NEW n \in Names
    PROVE  NewFile(n, NULL) \in FileState /\ IsNew(NewFile(n, NULL), n, NULL)
BY DEF NewFile, FileState, IsNew

\* spdk_fs_create_file_async.
LEMMA CreateAsyncMeta ==
    ASSUME Orderly, MetaInv, NEW c \in Clients, NEW n \in Names, NEW t \in {"return", "open"},
           Begin(c, {n}), CreateAsync(c, n, t), t = "open" => handle[c] = NULL
    PROVE  MetaInv'
<1>1. PICK f, b, g : f = FreshFile /\ g = NewFile(n, NULL)
                     /\ b = Min(Blobs \ (DOMAIN disk \cup {op[e].b : e \in Clients}))
  OBVIOUS
<1>r. PICK r : r = [Idle EXCEPT !.pc = "create_blob", !.name = n, !.f = f, !.b = b, !.then = t]
  OBVIOUS
<1>2. /\ mode = "ready" /\ op[c].pc = "idle" /\ op[c].b = NULL
      /\ op[c].pc \notin Writing \cup Waiting \cup {"create_blob"}
      /\ \A d \in Clients : Concerns(d) \cap {n} = {}
  BY BeginFacts
<1>3. /\ Find(n) = NULL /\ files' = Insert(files, n, f)
      /\ file' = [h \in DOMAIN file \cup {f} |-> IF h = f THEN g ELSE file[h]]
      /\ Blobs \ (DOMAIN disk \cup {op[e].b : e \in Clients}) # {}
      /\ op' = [op EXCEPT ![c] = r]
      /\ UNCHANGED <<mode, handle, persists, opens, mem, disk, doomed, acked, gone, ub>>
  BY <1>1, <1>r DEF CreateAsync, blobVars, ghostVars
<1>4. n \notin DOMAIN files
  <2> SUFFICES ASSUME n \in DOMAIN files PROVE FALSE
    OBVIOUS
  <2>1. files[n] \in DOMAIN file /\ files[n] = NULL
    BY <1>3, Types DEF Find
  <2> QED
    BY <2>1, FileFacts
<1>5. f \in Files /\ f \notin DOMAIN file /\ f # NULL /\ g \in FileState /\ IsNew(g, n, NULL)
  BY <1>1, Fresh, NewFileType, Types DEF MetaInv, NameInv, Files
<1>6. b \in Blobs /\ b \notin DOMAIN disk /\ b # NULL /\ \A d \in Clients : op[d].b # b
  <2>1. Blobs \ (DOMAIN disk \cup {op[e].b : e \in Clients}) \subseteq Nat
    BY Types
  <2>2. b \in Blobs \ (DOMAIN disk \cup {op[e].b : e \in Clients})
    BY <1>1, <1>3, <2>1, MinIsLeast
  <2> QED
    BY <2>2, Types
<1>7. /\ r \in OpState /\ r.pc = "create_blob" /\ r.name = n /\ r.new = NULL /\ r.f = f /\ r.b = b
      /\ r.then = t
  <2>1. IsCall(r, "create_blob", n, NULL, f, b, t)
    BY <1>r, <1>5, <1>6, CreateCall
  <2> QED
    BY <2>1 DEF IsCall
<1>8. /\ op' \in [Clients -> OpState] /\ op'[c] = r /\ \A d \in Clients \ {c} : op'[d] = op[d]
      /\ \A d \in Clients \ {c} : Concerns(d)' = Concerns(d)
  <2>1. op' \in [Clients -> OpState] /\ op'[c] = r /\ \A d \in Clients \ {c} : op'[d] = op[d]
    BY <1>3, <1>7, Types
  <2> QED
    BY <2>1 DEF Concerns
<1>9. /\ DOMAIN files' = DOMAIN files \cup {n} /\ files'[n] = f
      /\ \A m \in DOMAIN files : files'[m] = files[m] /\ files[m] # f
  BY <1>3, <1>4, <1>5, Types DEF Insert
<1>10. /\ DOMAIN file' = DOMAIN file \cup {f} /\ file'[f] = g
       /\ \A h \in DOMAIN file : file'[h] = file[h] /\ h # f
  BY <1>3, <1>5
<1>11. Target(c)' = n /\ Subject(c)' = f /\ Concerns(c)' = {n}
  BY <1>7, <1>8, <1>9, Types DEF Target, Subject, Concerns
<1>12. \A h \in DOMAIN file : file[h].blobid # b
  <2> SUFFICES ASSUME NEW h \in DOMAIN file, file[h].blobid = b PROVE FALSE
    OBVIOUS
  <2>1. FileInv(h)
    BY FileFacts
  <2> QED
    BY <1>6, <2>1 DEF FileInv
<1>13. /\ g.name = n /\ g.blobid = NULL /\ g.ref_count = 0 /\ g.is_deleted = FALSE
       /\ g.blob = FALSE /\ g.open_requests = {}
  BY <1>5 DEF IsNew
<1>14. Local({c}, {n}, f, {b})
  <2>1. \A m \in Names \ {n} : /\ m \in DOMAIN files' <=> m \in DOMAIN files
                               /\ m \in DOMAIN files => files'[m] = files[m] /\ files[m] # f
    BY <1>9
  <2>2. \A h \in DOMAIN file \cup DOMAIN file' : h # f =>
          /\ h \in DOMAIN file /\ h \in DOMAIN file' /\ file'[h] = file[h]
          /\ file[h].blobid \notin {b}
    BY <1>10, <1>12
  <2>3. \A a \in Blobs \ {b} : /\ mem'[a] = mem[a] /\ opens'[a] = opens[a]
                               /\ a \in DOMAIN disk' <=> a \in DOMAIN disk
                               /\ a \in DOMAIN disk => disk'[a] = disk[a]
    BY <1>3
  <2>4. \A e \in {c} :
          /\ op[e].b \in {b} \cup {NULL} /\ op'[e].b \in {b} \cup {NULL}
          /\ op[e].pc \in Waiting \cup {"create_blob"} => op[e].f = f
          /\ handle'[e] = handle[e] \/ {handle[e], handle'[e]} \subseteq {f, NULL}
    BY <1>2, <1>3, <1>7, <1>8
  <2>5. /\ {c} \subseteq Clients /\ {n} \subseteq Names /\ {b} \subseteq Blobs
        /\ mode = "ready" /\ mode' = mode /\ doomed' = doomed /\ ub' = ub
        /\ \A m \in {n} : m \in DOMAIN files => files[m] = f
        /\ f \in DOMAIN file => file[f].blobid \in {b} \cup {NULL}
        /\ f \in DOMAIN file' => file'[f].blobid \in {b} \cup {NULL}
    BY <1>2, <1>3, <1>4, <1>5, <1>6, <1>10, <1>13
  <2>6. \A d \in Clients \ {c} : /\ op'[d] = op[d] /\ handle'[d] = handle[d]
                                 /\ Concerns(d) \cap {n} = {} /\ op[d].b \notin {b}
    BY <1>2, <1>3, <1>6, <1>8
  <2> QED
    BY <2>1, <2>2, <2>3, <2>4, <2>5, <2>6, Zenon DEF Local
<1>15. TypeOK'
  <2>1. ASSUME NEW h \in DOMAIN file' PROVE h \in Files /\ file'[h] \in FileState
    <3>1. CASE h = f
      BY <1>5, <1>10, <3>1
    <3>2. CASE h # f
      BY <1>10, <3>2, FileFacts
    <3> QED
      BY <3>1, <3>2
  <2>2. DOMAIN files' \subseteq Names /\ \A m \in DOMAIN files' : files'[m] \in Files
    BY <1>5, <1>9, Types, FileFacts
  <2> QED
    BY <1>3, <2>1, <2>2 DEF MetaInv, TypeOK, FileState
<1>16. IsFiniteSet(DOMAIN file')
  BY <1>10, FS_AddElement DEF MetaInv, NameInv
<1>17. OpInv(c)'
  <2>1. /\ n \in DOMAIN files' /\ IsNew(file'[f], n, NULL) /\ b \notin DOMAIN disk'
        /\ t = "open" => handle'[c] = NULL
    BY <1>3, <1>5, <1>6, <1>9, <1>10
  <2> QED
    BY <1>6, <1>7, <1>8, <1>11, <2>1, Types DEF OpInv, Waiting, Creating, Renaming
<1>18. FileInv(f)'
  <2>1. \A d \in Clients : handle'[d] # f
    BY <1>3, <1>5 DEF MetaInv, NameInv
  <2>2. g.ref_count = Cardinality({d \in Clients : handle'[d] = f}) + Cardinality(g.open_requests)
    <3>1. {d \in Clients : handle'[d] = f} = {}
      BY <2>1
    <3>2. Cardinality({d \in Clients : handle'[d] = f}) = 0 /\ Cardinality(g.open_requests) = 0
      BY <1>13, <3>1, FS_EmptySet
    <3> QED
      BY <1>13, <3>2
  <2>3. \E d \in Clients : op'[d].pc = "create_blob" /\ op'[d].f = f
    BY <1>7, <1>8
  <2> QED
    BY <1>10, <1>13, <2>1, <2>2, <2>3 DEF FileInv
<1>19. opens'[b] = 0
  BY <1>3, <1>6, <1>12 DEF MetaInv, BlobInv
<1>20. PersistInv'
  <2>1. Apart(c, b)
    BY <1>3, <1>6, <1>8 DEF Apart
  <2> QED
    BY <1>2, <1>3, <2>1, PersistKeep
<1>21. \A m \in DOMAIN acked' : /\ m \in DOMAIN acked /\ acked'[m] = acked[m] /\ m \notin {n}
                                /\ \A e \in {c} : m \notin Concerns(e)'
  <2>1. \A m \in DOMAIN acked : m \in DOMAIN files
    BY <1>2 DEF MetaInv, AckInv, Lasts
  <2> QED
    BY <1>3, <1>4, <1>11, <2>1
<1>22. \A a \in gone' :
         \/ a \in gone /\ a \notin {b}
         \/ /\ a \in DOMAIN disk' => disk'[a].deleted
            /\ \A h \in DOMAIN file' : file'[h].blobid = a => file'[h].is_deleted
  BY <1>3, <1>6, <1>10, <1>12, <1>13
<1>23. \A e \in {c}, d \in Clients : e # d =>
         /\ Concerns(e)' \cap Concerns(d)' # {} => op'[e].pc \in Waiting /\ op'[d].pc \in Waiting
         /\ op'[e].b = op'[d].b => op'[e].b = NULL
  BY <1>2, <1>6, <1>7, <1>8, <1>11
<1>24. /\ f \in DOMAIN file' /\ file'[f].name = n /\ n \in DOMAIN files' /\ files'[n] = f
       /\ b \notin DOMAIN disk'
  BY <1>3, <1>6, <1>9, <1>10, <1>13
<1>25. Rest({c}, {n}, f, {b})
  BY <1>8, <1>15, <1>16, <1>17, <1>18, <1>19, <1>20, <1>21, <1>22, <1>23, <1>24 DEF Rest
<1> QED
  BY <1>14, <1>25, FrameRest

LEMMA CreateMeta ==
    ASSUME Orderly, MetaInv, NEW c \in Clients, NEW n \in Names, Create(c, n) \/ OpenCreate(c, n)
    PROVE  MetaInv'
<1>1. CASE Create(c, n)
  BY <1>1, CreateAsyncMeta DEF Create
<1>2. CASE OpenCreate(c, n)
  BY <1>2, CreateAsyncMeta DEF OpenCreate
<1> QED
  BY <1>1, <1>2

-----------------------------------------------------------------------------
(* A listing.                                                                *)

\* The listing of c comes to another name, or is over; nothing else changes.
Listed(c) ==
    /\ c \in Clients /\ mode = "ready" /\ op[c].pc \in {"idle", "list"}
    /\ UNCHANGED <<mode, files, file, handle, persists, opens, mem, disk, doomed, acked, gone, ub>>
    /\ op' \in [Clients -> OpState] /\ \A d \in Clients \ {c} : op'[d] = op[d]
    /\ op'[c].pc \in {"idle", "list"} /\ op'[c].b = NULL
    /\ \A d \in Clients \ {c} : Concerns(d) \cap Concerns(c)' = {}
    /\ Concerns(c)' # {} => op'[c].pc = "list"

LEMMA FrameListed ==
    ASSUME MetaInv, NEW c, Listed(c), OpInv(c)'
    PROVE  MetaInv'
<1> USE DEF Listed
<1>1. PICK f : f = FreshFile
  OBVIOUS
<1>2. f \notin DOMAIN file /\ f # NULL
  BY <1>1, Fresh, MetaAssumption DEF MetaInv, NameInv
<1>3. c \in Clients /\ op[c].b = NULL /\ op[c].pc \notin Writing \cup Waiting \cup {"create_blob"}
  BY DEF MetaInv, OpInv, Writing, Waiting
<1>4. \A d \in Clients \ {c} : Concerns(d)' = Concerns(d)
  BY DEF Concerns
<1>5. Local({c}, {}, f, {})
  <2>1. \A m \in Names \ {} : /\ m \in DOMAIN files' <=> m \in DOMAIN files
                              /\ m \in DOMAIN files => files'[m] = files[m] /\ files[m] # f
    BY <1>2, Types
  <2>2. \A e \in {c} :
          /\ op[e].b \in {} \cup {NULL} /\ op'[e].b \in {} \cup {NULL}
          /\ op[e].pc \in Waiting \cup {"create_blob"} => op[e].f = f
          /\ handle'[e] = handle[e] \/ {handle[e], handle'[e]} \subseteq {f, NULL}
    BY <1>3
  <2>3. /\ {c} \subseteq Clients /\ {} \subseteq Names /\ {} \subseteq Blobs
        /\ mode = "ready" /\ mode' = mode /\ doomed' = doomed /\ ub' = ub
        /\ f \notin DOMAIN file /\ f \notin DOMAIN file'
    BY <1>2
  <2>4. \A d \in Clients \ {c} : /\ op'[d] = op[d] /\ handle'[d] = handle[d]
                                 /\ Concerns(d) \cap {} = {} /\ op[d].b \notin {}
    OBVIOUS
  <2>5. \A h \in DOMAIN file \cup DOMAIN file' : h # f =>
          /\ h \in DOMAIN file /\ h \in DOMAIN file' /\ file'[h] = file[h]
          /\ file[h].blobid \notin {}
    OBVIOUS
  <2>6. \A a \in Blobs \ {} : /\ mem'[a] = mem[a] /\ opens'[a] = opens[a]
                              /\ a \in DOMAIN disk' <=> a \in DOMAIN disk
                              /\ a \in DOMAIN disk => disk'[a] = disk[a]
    OBVIOUS
  <2> QED
    BY <2>1, <2>2, <2>3, <2>4, <2>5, <2>6, Zenon DEF Local
<1>6. TypeOK' /\ IsFiniteSet(DOMAIN file')
  BY DEF MetaInv, TypeOK, NameInv
<1>7. PersistInv'
  <2>1. Apart(c, NULL)
    BY <1>3, Types DEF Apart, MetaInv, OpInv, Writing
  <2> QED
    BY <1>3, <2>1, PersistKeep
<1>8. ASSUME NEW m \in DOMAIN acked' PROVE Lasts(m)'
  <2>1. m \in DOMAIN acked /\ Lasts(m)
    BY DEF MetaInv, AckInv
  <2>2. \A d \in Clients : m \in Concerns(d)' => op'[d].pc \in Waiting \cup {"list", "closing"}
    BY <1>4, <2>1 DEF Lasts
  <2> QED
    BY <2>1, <2>2 DEF Lasts
<1>9. \A a \in gone' : a \in gone /\ a \notin {}
  OBVIOUS
<1>10. \A e \in {c}, d \in Clients : e # d =>
         /\ Concerns(e)' \cap Concerns(d)' # {} => op'[e].pc \in Waiting /\ op'[d].pc \in Waiting
         /\ op'[e].b = op'[d].b => op'[e].b = NULL
  BY <1>4
<1>11. f \notin DOMAIN file' /\ \A d \in Clients : handle'[d] # f
  BY <1>2 DEF MetaInv, NameInv
<1>12. Rest({c}, {}, f, {})
  BY <1>6, <1>7, <1>8, <1>9, <1>10, <1>11 DEF Rest
<1> QED
  BY <1>5, <1>12, FrameRest

LEMMA ListCall ==
    ASSUME NEW n \in Names, NEW f \in Files, NEW r,
           r = [Idle EXCEPT !.pc = "list", !.name = n, !.f = f]
    PROVE  IsCall(r, "list", n, NULL, f, NULL, "return")
BY DEF IsCall, Idle, OpState, Calls

\* The next name of a listing is one of the index.
LEMMA ListAtMeta ==
    ASSUME Orderly, MetaInv, NEW c \in Clients, NEW n \in DOMAIN files, mode = "ready",
           op[c].pc \in {"idle", "list"}, ListAt(c, n),
           UNCHANGED <<mode, files, file, handle, persists, opens, mem, disk, doomed, acked, gone, ub>>
    PROVE  MetaInv'
<1>1. PICK r : r = [Idle EXCEPT !.pc = "list", !.name = n, !.f = files[n]]
  OBVIOUS
<1>2. n \in Names /\ n # NULL /\ files[n] \in Files
  BY Types, FileFacts
<1>3. r \in OpState /\ r.pc = "list" /\ r.name = n /\ r.new = NULL /\ r.f = files[n] /\ r.b = NULL
      /\ r.then = "return"
  <2>1. IsCall(r, "list", n, NULL, files[n], NULL, "return")
    BY <1>1, <1>2, ListCall
  <2> QED
    BY <2>1 DEF IsCall
<1>4. op' = [op EXCEPT ![c] = r] /\ \A d \in Clients \ {c} : n \notin Concerns(d)
  BY <1>1 DEF ListAt, Orderly
<1>5. op' \in [Clients -> OpState] /\ op'[c] = r /\ \A d \in Clients \ {c} : op'[d] = op[d]
  BY <1>3, <1>4, Types
<1>6. Concerns(c)' = {n} /\ Target(c)' = n /\ Subject(c)' = files[n]
  BY <1>2, <1>3, <1>5 DEF Concerns, Target, Subject
<1>7. OpInv(c)'
  BY <1>2, <1>3, <1>5, <1>6 DEF OpInv, Waiting, Creating, Renaming
<1>8. Listed(c)
  BY <1>3, <1>4, <1>5, <1>6 DEF Listed
<1> QED
  BY <1>7, <1>8, FrameListed

\* The listing of c is over.
LEMMA ListEndMeta ==
    ASSUME MetaInv, NEW c \in Clients, mode = "ready", op[c].pc \in {"idle", "list"},
           op' = [op EXCEPT ![c] = Idle],
           UNCHANGED <<mode, files, file, handle, persists, opens, mem, disk, doomed, acked, gone, ub>>
    PROVE  MetaInv'
<1>1. /\ op' \in [Clients -> OpState] /\ \A d \in Clients \ {c} : op'[d] = op[d]
      /\ op'[c].pc = "idle" /\ op'[c].b = NULL /\ Concerns(c)' = {} /\ OpInv(c)'
  BY IdleStep
<1>2. Listed(c)
  BY <1>1 DEF Listed
<1> QED
  BY <1>1, <1>2, FrameListed

\* The file that a listing has come to is not freed.
LEMMA ListFileThere ==
    ASSUME MetaInv, NEW c \in Clients, op[c].pc = "list"
    PROVE  op[c].f \in DOMAIN file
<1>1. op[c].f = Subject(c)
  BY DEF MetaInv, OpInv
<1> QED
  BY <1>1, OpFile

\* What a walk comes to is in the index.
LEMMA ArrivalsIn ==
    ASSUME MetaInv, NEW c \in Clients
    PROVE  Arrivals(c) \subseteq DOMAIN files
<1>1. Ahead(c) \subseteq DOMAIN files /\ Ahead(c) \subseteq Nat
  BY Types, ListAssumption DEF Ahead, Behind
<1>2. Ahead(c) # {} => FirstOf(Ahead(c)) \in Ahead(c)
  BY <1>1, MinIsLeast DEF FirstOf
<1> QED
  BY <1>1, <1>2 DEF Arrivals

\* A walk begins: spdk_fs_iter_first or spdk_fs_iter_next is called.
LEMMA ListWalkMeta ==
    ASSUME MetaInv, NEW c \in Clients, ListBegin(c) \/ ListWalk(c)
    PROVE  UNCHANGED vars
<1>1. CASE ListBegin(c)
  BY <1>1 DEF ListBegin
<1>2. CASE ListWalk(c)
  <2>1. op[c].f \in DOMAIN file
    BY <1>2, ListFileThere DEF ListWalk
  <2> QED
    BY <1>2, <2>1 DEF ListWalk, vars
<1> QED
  BY <1>1, <1>2

\* A walk ends.
LEMMA ListArriveMeta ==
    ASSUME Orderly, MetaInv, NEW c \in Clients, ListArrive(c)
    PROVE  MetaInv'
<1>1. mode = "ready" /\ op[c].pc \in {"idle", "list"}
  BY DEF ListArrive, Ready
<1>2. /\ UNCHANGED <<mode, files, file, handle, persists, opens, mem, disk, doomed, acked, gone, ub>>
      /\ (\E n \in Arrivals(c) : ListAt(c, n)) \/ op' = [op EXCEPT ![c] = Idle]
  BY ListFileThere DEF ListArrive, nameVars, blobVars, ghostVars
<1>3. ASSUME NEW n \in Arrivals(c), ListAt(c, n) PROVE MetaInv'
  <2>1. n \in DOMAIN files
    BY ArrivalsIn
  <2> QED
    BY <1>1, <1>2, <1>3, <2>1, ListAtMeta
<1>4. CASE op' = [op EXCEPT ![c] = Idle]
  BY <1>1, <1>2, <1>4, ListEndMeta
<1> QED
  BY <1>2, <1>3, <1>4

-----------------------------------------------------------------------------
(* A blob is deleted.                                                        *)

\* A blob that a call deletes has no file, and nobody has it open.
LEMMA DeletingFacts ==
    ASSUME MetaInv, NEW c \in Clients, op[c].pc = "delete_blob"
    PROVE  /\ op[c].b \in Blobs /\ op[c].b \in DOMAIN disk /\ op[c].b # NULL /\ opens[op[c].b] = 0
           /\ \A h \in DOMAIN file : file[h].blobid # op[c].b
           /\ \A d \in Clients \ {c} : op[d].b # op[c].b /\ Concerns(d) \cap Concerns(c) = {}
           /\ \A m \in DOMAIN acked : m \notin Concerns(c)
           /\ op[c].pc \notin Writing \cup Waiting \cup {"create_blob"}
<1>1. op[c].b \in Blobs /\ op[c].b \in DOMAIN disk /\ op[c].b # NULL
  BY OpBlob
<1>2. ASSUME NEW h \in DOMAIN file PROVE file[h].blobid # op[c].b
  <2>1. FileInv(h)
    BY FileFacts
  <2> QED
    BY <1>1, <2>1 DEF FileInv
<1>3. opens[op[c].b] = 0
  BY <1>1, <1>2 DEF MetaInv, BlobInv
<1>4. op[c].pc \notin Writing \cup Waiting \cup {"create_blob", "list", "closing"}
  BY DEF Writing, Waiting
<1>5. \A d \in Clients \ {c} : op[d].b # op[c].b /\ Concerns(d) \cap Concerns(c) = {}
  BY <1>1, <1>4, Alone
<1>6. \A m \in DOMAIN acked : m \notin Concerns(c)
  BY <1>4 DEF MetaInv, AckInv, Lasts
<1> QED
  BY <1>1, <1>2, <1>3, <1>4, <1>5, <1>6

\* The blob is gone and the call returns.
LEMMA DeleteReturns ==
    ASSUME MetaInv, NEW c \in Clients, mode = "ready", op[c].pc = "delete_blob",
           op' = [op EXCEPT ![c] = Idle],
           disk' = Restrict(disk, DOMAIN disk \ {op[c].b}), gone' = gone \cup {op[c].b},
           UNCHANGED <<mode, files, file, handle, persists, opens, mem, doomed, acked, ub>>
    PROVE  MetaInv'
<1>1. PICK f, b : f = FreshFile /\ b = op[c].b
  OBVIOUS
<1>2. f \notin DOMAIN file /\ f # NULL
  BY <1>1, Fresh, MetaAssumption DEF MetaInv, NameInv
<1>3. /\ b \in Blobs /\ b \in DOMAIN disk /\ b # NULL /\ opens[b] = 0
      /\ \A h \in DOMAIN file : file[h].blobid # b
      /\ \A d \in Clients \ {c} : op[d].b # b /\ Concerns(d) \cap Concerns(c) = {}
      /\ \A m \in DOMAIN acked : m \notin Concerns(c)
      /\ op[c].pc \notin Writing \cup Waiting \cup {"create_blob"}
  BY <1>1, DeletingFacts
<1>4. /\ op' \in [Clients -> OpState] /\ \A d \in Clients \ {c} : op'[d] = op[d]
      /\ op'[c] = Idle /\ op'[c].b = NULL /\ Concerns(c)' = {} /\ OpInv(c)'
  BY IdleStep
<1>5. /\ DOMAIN disk' = DOMAIN disk \ {b} /\ gone' = gone \cup {b}
      /\ \A a \in DOMAIN disk' : disk'[a] = disk[a]
  BY <1>1 DEF Restrict
<1>6. Local({c}, {}, f, {b})
  <2>1. \A m \in Names \ {} : /\ m \in DOMAIN files' <=> m \in DOMAIN files
                              /\ m \in DOMAIN files => files'[m] = files[m] /\ files[m] # f
    BY <1>2, Types
  <2>2. \A e \in {c} :
          /\ op[e].b \in {b} \cup {NULL} /\ op'[e].b \in {b} \cup {NULL}
          /\ op[e].pc \in Waiting \cup {"create_blob"} => op[e].f = f
          /\ handle'[e] = handle[e] \/ {handle[e], handle'[e]} \subseteq {f, NULL}
    BY <1>1, <1>3, <1>4
  <2>3. /\ {c} \subseteq Clients /\ {} \subseteq Names /\ {b} \subseteq Blobs
        /\ mode = "ready" /\ mode' = mode /\ doomed' = doomed /\ ub' = ub
        /\ f \notin DOMAIN file /\ f \notin DOMAIN file'
    BY <1>2, <1>3
  <2>4. \A d \in Clients \ {c} : /\ op'[d] = op[d] /\ handle'[d] = handle[d]
                                 /\ Concerns(d) \cap {} = {} /\ op[d].b \notin {b}
    BY <1>3, <1>4
  <2>5. \A h \in DOMAIN file \cup DOMAIN file' : h # f =>
          /\ h \in DOMAIN file /\ h \in DOMAIN file' /\ file'[h] = file[h]
          /\ file[h].blobid \notin {b}
    BY <1>3
  <2>6. \A a \in Blobs \ {b} : /\ mem'[a] = mem[a] /\ opens'[a] = opens[a]
                               /\ a \in DOMAIN disk' <=> a \in DOMAIN disk
                               /\ a \in DOMAIN disk => disk'[a] = disk[a]
    BY <1>5
  <2> QED
    BY <2>1, <2>2, <2>3, <2>4, <2>5, <2>6, Zenon DEF Local
<1>7. TypeOK' /\ IsFiniteSet(DOMAIN file')
  BY <1>3, <1>5 DEF MetaInv, TypeOK, NameInv
<1>8. PersistInv'
  <2>1. Apart(c, b)
    BY <1>3, <1>4 DEF Apart
  <2> QED
    BY <1>3, <2>1, PersistKeep
<1>9. \A m \in DOMAIN acked' : /\ m \in DOMAIN acked /\ acked'[m] = acked[m] /\ m \notin {}
                               /\ \A e \in {c} : m \notin Concerns(e)'
  BY <1>4
<1>10. \A a \in gone' :
         \/ a \in gone /\ a \notin {b}
         \/ /\ a \in DOMAIN disk' => disk'[a].deleted
            /\ \A h \in DOMAIN file' : file'[h].blobid = a => file'[h].is_deleted
  BY <1>3, <1>5
<1>11. \A e \in {c}, d \in Clients : e # d =>
         /\ Concerns(e)' \cap Concerns(d)' # {} => op'[e].pc \in Waiting /\ op'[d].pc \in Waiting
         /\ op'[e].b = op'[d].b => op'[e].b = NULL
  BY <1>4
<1>12. f \notin DOMAIN file' /\ (\A d \in Clients : handle'[d] # f) /\ opens'[b] = 0 /\ b \notin DOMAIN disk'
  BY <1>2, <1>3, <1>5 DEF MetaInv, NameInv
<1>13. Rest({c}, {}, f, {b})
  BY <1>4, <1>7, <1>8, <1>9, <1>10, <1>11, <1>12 DEF Rest
<1> QED
  BY <1>6, <1>13, FrameRest

-----------------------------------------------------------------------------
(* A file gets its new name.                                                 *)

\* _fs_md_rename_file: client c renames file f, with blob b; the blobs dead, of
\* the file that had the new name, have been deleted.
Moves(c, old, new, f, b, dead, r, x) ==
    /\ c \in Clients /\ mode = "ready" /\ UNCHANGED <<mode, handle, doomed, ub>>
    /\ old \in DOMAIN files /\ new \in Names /\ new \notin DOMAIN files
    /\ f = files[old] /\ b = file[f].blobid
    /\ dead \subseteq Blobs /\ op[c].b \in dead \cup {NULL} /\ op[c].pc \in {"idle", "delete_blob"}
    /\ \A a \in dead : opens[a] = 0 /\ \A h \in DOMAIN file : file[h].blobid # a
    /\ \A d \in Clients \ {c} : Concerns(d) \cap {old, new} = {} /\ op[d].b \notin dead
    /\ DOMAIN disk' = DOMAIN disk \ dead /\ \A a \in DOMAIN disk' : disk'[a] = disk[a]
    /\ gone \subseteq gone' /\ gone' \subseteq gone \cup dead
    /\ DOMAIN acked' \subseteq DOMAIN acked
    /\ \A m \in DOMAIN acked' : acked'[m] = acked[m] /\ m \notin {old, new}
    /\ files' = Insert(Remove(files, old), new, f) /\ file' = [file EXCEPT ![f].name = new]
    /\ op' = [op EXCEPT ![c] = r]
    /\ r \in OpState /\ r.name = old /\ r.new = new /\ r.b = b /\ r.then = "rename"
    /\ x = Renamed(mem[b], new)
    /\ \/ /\ opens[b] > 0 /\ r.pc = "rename_close" /\ mem' = [mem EXCEPT ![b] = x]
          /\ persists' = Write(persists, c, b, x) /\ opens' = [opens EXCEPT ![b] = @ + 1]
       \/ ~(opens[b] > 0) /\ r.pc = "rename_open" /\ UNCHANGED <<persists, opens, mem>>

\* The file and its blob before and after.
LEMMA MovesFacts ==
    ASSUME MetaInv, NEW c, NEW old, NEW new, NEW f, NEW b, NEW dead, NEW r, NEW x,
           Moves(c, old, new, f, b, dead, r, x)
    PROVE  /\ f \in DOMAIN file /\ file[f].name = old /\ old \in Names /\ old # new
           /\ b \in Blobs /\ b # NULL /\ b \in DOMAIN disk /\ mem[b] \in Xattrs /\ b \notin dead
           /\ disk[b] = mem[b] /\ mem[b].deleted = file[f].is_deleted /\ mem[b].name \in {NULL, old}
           /\ file[f].is_deleted => file[f].ref_count > 0
           /\ opens[b] = (IF file[f].blob THEN 1 ELSE 0)
           /\ file[f].open_requests = {} /\ FileInv(f) /\ file[f] \in FileState
           /\ \A d \in Clients : op[d].b # b
           /\ \A h \in DOMAIN file : h # f => file[h].blobid # b
           /\ \A m \in DOMAIN files : files[m] = f => m = old
           /\ op[c].pc \notin Writing \cup Waiting \cup {"create_blob"}
<1> USE DEF Moves
<1>1. f \in DOMAIN file /\ file[f].name = old /\ old \in Names /\ old # new
  BY Types DEF MetaInv, NameInv
<1>2. /\ FileInv(f) /\ file[f] \in FileState
      /\ \A m \in DOMAIN files : files[m] = f => m = old
      /\ \A h \in DOMAIN file : file[h].blobid = b /\ b # NULL => h = f
  BY <1>1, FileFacts
<1>3. \A d \in Clients : file[f].name \in Concerns(d) => op[d].pc = "delete_blob"
  <2>1. op[c].pc = "idle" => Concerns(c) = {}
    BY OpNames
  <2> QED
    BY <1>1, <2>1
<1>4. /\ b \in Blobs /\ b # NULL /\ b \in DOMAIN disk /\ mem[b] \in Xattrs
      /\ disk[b] = mem[b] /\ mem[b].deleted = file[f].is_deleted /\ mem[b].name \in {NULL, file[f].name}
      /\ file[f].is_deleted => file[f].ref_count > 0
      /\ opens[b] = (IF file[f].blob THEN 1 ELSE 0)
      /\ file[f].open_requests = {}
      /\ \A d \in Clients : op[d].b # b
  <2>1. b = file[f].blobid
    OBVIOUS
  <2> HIDE DEF Moves
  <2> QED
    BY <1>1, <1>3, <2>1, Quiet
<1>5. op[c].pc \notin Writing \cup Waiting \cup {"create_blob"}
  BY DEF Writing, Waiting
<1>6. b \notin dead
  BY <1>1
<1> QED
  BY <1>1, <1>2, <1>4, <1>5, <1>6

\* What is left afterwards.
Moved(c, old, new, f, b, r) ==
    /\ op' \in [Clients -> OpState] /\ op'[c] = r /\ \A d \in Clients \ {c} : op'[d] = op[d]
    /\ \A d \in Clients \ {c} : Concerns(d)' = Concerns(d)
    /\ Concerns(c)' = {old, new} /\ Target(c)' = new /\ Subject(c)' = f
    /\ DOMAIN files' = (DOMAIN files \ {old}) \cup {new} /\ files'[new] = f
    /\ \A m \in DOMAIN files : m # old => files'[m] = files[m]
    /\ DOMAIN file' = DOMAIN file /\ \A h \in DOMAIN file : h # f => file'[h] = file[h]
    /\ file'[f] \in FileState /\ file'[f].name = new /\ file'[f].blobid = b
    /\ file'[f].ref_count = file[f].ref_count /\ file'[f].is_deleted = file[f].is_deleted
    /\ file'[f].blob = file[f].blob /\ file'[f].open_requests = {}
    /\ mem' \in [Blobs -> Xattrs] /\ opens' \in [Blobs -> Nat]
    /\ \A a \in Blobs \ {b} : mem'[a] = mem[a] /\ opens'[a] = opens[a]
    /\ mem'[b].deleted = mem[b].deleted

LEMMA MovesFile ==
    ASSUME MetaInv, NEW c, NEW old, NEW new, NEW f, NEW b, NEW dead, NEW r, NEW x,
           Moves(c, old, new, f, b, dead, r, x)
    PROVE  Moved(c, old, new, f, b, r)
<1>0. /\ f \in DOMAIN file /\ file[f].name = old /\ old \in Names /\ old # new
      /\ b \in Blobs /\ b # NULL /\ mem[b] \in Xattrs
      /\ file[f].open_requests = {} /\ file[f] \in FileState
  BY MovesFacts
<1> USE DEF Moves
<1>1. op' \in [Clients -> OpState] /\ op'[c] = r /\ \A d \in Clients \ {c} : op'[d] = op[d]
  BY Types
<1>2. \A d \in Clients \ {c} : Concerns(d)' = Concerns(d)
  BY <1>1 DEF Concerns
<1>3. /\ DOMAIN files' = (DOMAIN files \ {old}) \cup {new} /\ files'[new] = f
      /\ \A m \in DOMAIN files : m # old => files'[m] = files[m]
  <2>1. PICK i : i = Remove(files, old)
    OBVIOUS
  <2>2. DOMAIN i = DOMAIN files \ {old} /\ \A m \in DOMAIN i : i[m] = files[m]
    BY <2>1 DEF Remove, Restrict
  <2>3. files' = [m \in DOMAIN i \cup {new} |-> IF m = new THEN f ELSE i[m]]
    BY <2>1, <2>2 DEF Insert
  <2> QED
    BY <2>2, <2>3
<1>4. Concerns(c)' = {old, new} /\ Target(c)' = new /\ Subject(c)' = f
  BY <1>0, <1>1, <1>3, Types DEF Concerns, Target, Subject
<1>5. /\ DOMAIN file' = DOMAIN file /\ \A h \in DOMAIN file : h # f => file'[h] = file[h]
      /\ file'[f] = [file[f] EXCEPT !.name = new]
  BY <1>0
<1>6. /\ file'[f] \in FileState /\ file'[f].name = new /\ file'[f].blobid = b
      /\ file'[f].ref_count = file[f].ref_count /\ file'[f].is_deleted = file[f].is_deleted
      /\ file'[f].blob = file[f].blob /\ file'[f].open_requests = {}
  BY <1>0, <1>5 DEF FileState
<1>7. x \in Xattrs /\ x.name = new /\ x.deleted = mem[b].deleted
  BY <1>0 DEF Renamed, Xattrs
<1>8. /\ mem' \in [Blobs -> Xattrs] /\ opens' \in [Blobs -> Nat]
      /\ \A a \in Blobs \ {b} : mem'[a] = mem[a] /\ opens'[a] = opens[a]
      /\ mem'[b].deleted = mem[b].deleted
  BY <1>0, <1>7, Types
<1> QED
  BY <1>1, <1>2, <1>3, <1>4, <1>5, <1>6, <1>8 DEF Moved

\* What becomes of the blob: it gets the name at once, or after it is opened.
LEMMA MovesBlob ==
    ASSUME MetaInv, NEW c, NEW old, NEW new, NEW f, NEW b, NEW dead, NEW r, NEW x,
           Moves(c, old, new, f, b, dead, r, x)
    PROVE  /\ r.pc \in Renaming
           /\ r.pc = "rename_open" => ~file[f].blob /\ mem'[b] = mem[b] /\ opens'[b] = opens[b]
           /\ r.pc = "rename_close" => mem'[b].name = new /\ opens'[b] = opens[b] + 1
           /\ PersistInv'
<1>0. /\ b \in Blobs /\ b # NULL /\ mem[b] \in Xattrs /\ \A d \in Clients : op[d].b # b
      /\ opens[b] = (IF file[f].blob THEN 1 ELSE 0) /\ file[f] \in FileState
      /\ op[c].pc \notin Writing \cup Waiting \cup {"create_blob"}
  BY MovesFacts
<1>1. /\ op'[c] = r /\ \A d \in Clients \ {c} : op'[d] = op[d]
      /\ \A a \in Blobs \ {b} : mem'[a] = mem[a]
  <2>1. Moved(c, old, new, f, b, r)
    BY MovesFile
  <2> QED
    BY <2>1 DEF Moved
<1>2. c \in Clients /\ new \in Names /\ r.b = b /\ x = Renamed(mem[b], new)
  BY DEF Moves
<1>3. x \in Xattrs /\ x.name = new
  BY <1>0, <1>2 DEF Renamed, Xattrs
<1>4. Apart(c, b)
  BY <1>0, <1>1, <1>2 DEF Apart
<1>5. CASE /\ opens[b] > 0 /\ r.pc = "rename_close" /\ mem' = [mem EXCEPT ![b] = x]
           /\ persists' = Write(persists, c, b, x) /\ opens' = [opens EXCEPT ![b] = @ + 1]
  <2>1. mem'[b] = x /\ opens'[b] = opens[b] + 1
    BY <1>0, <1>5, Types
  <2>2. PersistInv'
    BY <1>0, <1>1, <1>2, <1>3, <1>4, <1>5, <2>1, PersistWrite DEF Writing
  <2> QED
    BY <1>3, <1>5, <2>1, <2>2 DEF Renaming
<1>6. CASE ~(opens[b] > 0) /\ r.pc = "rename_open" /\ UNCHANGED <<persists, opens, mem>>
  <2>1. PersistInv'
    BY <1>0, <1>2, <1>4, <1>6, PersistKeep
  <2> QED
    BY <1>0, <1>6, <2>1 DEF Renaming
<1> QED
  BY <1>5, <1>6 DEF Moves

LEMMA MovesMeta ==
    ASSUME MetaInv, NEW c, NEW old, NEW new, NEW f, NEW b, NEW dead, NEW r, NEW x,
           Moves(c, old, new, f, b, dead, r, x)
    PROVE  MetaInv'
<1>1. /\ f \in DOMAIN file /\ file[f].name = old /\ old \in Names /\ old # new
      /\ b \in Blobs /\ b # NULL /\ b \in DOMAIN disk /\ mem[b] \in Xattrs /\ b \notin dead
      /\ disk[b] = mem[b] /\ mem[b].deleted = file[f].is_deleted /\ mem[b].name \in {NULL, old}
      /\ file[f].is_deleted => file[f].ref_count > 0
      /\ opens[b] = (IF file[f].blob THEN 1 ELSE 0)
      /\ file[f].open_requests = {} /\ FileInv(f) /\ file[f] \in FileState
      /\ \A d \in Clients : op[d].b # b
      /\ \A h \in DOMAIN file : h # f => file[h].blobid # b
      /\ \A m \in DOMAIN files : files[m] = f => m = old
      /\ op[c].pc \notin Writing \cup Waiting \cup {"create_blob"}
  BY MovesFacts
<1>2. /\ op' \in [Clients -> OpState] /\ op'[c] = r /\ \A d \in Clients \ {c} : op'[d] = op[d]
      /\ \A d \in Clients \ {c} : Concerns(d)' = Concerns(d)
      /\ Concerns(c)' = {old, new} /\ Target(c)' = new /\ Subject(c)' = f
      /\ DOMAIN files' = (DOMAIN files \ {old}) \cup {new} /\ files'[new] = f
      /\ \A m \in DOMAIN files : m # old => files'[m] = files[m]
      /\ DOMAIN file' = DOMAIN file /\ \A h \in DOMAIN file : h # f => file'[h] = file[h]
      /\ file'[f] \in FileState /\ file'[f].name = new /\ file'[f].blobid = b
      /\ file'[f].ref_count = file[f].ref_count /\ file'[f].is_deleted = file[f].is_deleted
      /\ file'[f].blob = file[f].blob /\ file'[f].open_requests = {}
      /\ mem' \in [Blobs -> Xattrs] /\ opens' \in [Blobs -> Nat]
      /\ \A a \in Blobs \ {b} : mem'[a] = mem[a] /\ opens'[a] = opens[a]
      /\ mem'[b].deleted = mem[b].deleted
  <2>1. Moved(c, old, new, f, b, r)
    BY MovesFile
  <2> QED
    BY <2>1 DEF Moved
<1>3. /\ r.pc \in Renaming
      /\ r.pc = "rename_open" => ~file[f].blob /\ mem'[b] = mem[b] /\ opens'[b] = opens[b]
      /\ r.pc = "rename_close" => mem'[b].name = new /\ opens'[b] = opens[b] + 1
      /\ PersistInv'
  BY MovesBlob
<1>4. /\ c \in Clients /\ mode = "ready" /\ UNCHANGED <<mode, handle, doomed, ub>>
      /\ new \in Names /\ new \notin DOMAIN files /\ old \in DOMAIN files /\ f = files[old]
      /\ dead \subseteq Blobs /\ op[c].b \in dead \cup {NULL}
      /\ \A a \in dead : opens[a] = 0 /\ \A h \in DOMAIN file : file[h].blobid # a
      /\ \A d \in Clients \ {c} : Concerns(d) \cap {old, new} = {} /\ op[d].b \notin dead
      /\ DOMAIN disk' = DOMAIN disk \ dead /\ \A a \in DOMAIN disk' : disk'[a] = disk[a]
      /\ gone' \subseteq gone \cup dead
      /\ DOMAIN acked' \subseteq DOMAIN acked
      /\ \A m \in DOMAIN acked' : acked'[m] = acked[m] /\ m \notin {old, new}
      /\ r \in OpState /\ r.name = old /\ r.new = new /\ r.b = b /\ r.then = "rename"
  BY DEF Moves
<1>5. disk'[b] = disk[b] /\ b \in DOMAIN disk'
  BY <1>1, <1>4
<1>bs. PICK bs : bs = dead \cup {b}
  OBVIOUS
<1>6. Local({c}, {old, new}, f, bs)
  <2>1. \A m \in Names \ {old, new} : /\ m \in DOMAIN files' <=> m \in DOMAIN files
                                      /\ m \in DOMAIN files => files'[m] = files[m] /\ files[m] # f
    BY <1>1, <1>2
  <2>2. \A e \in {c} :
          /\ op[e].b \in bs \cup {NULL} /\ op'[e].b \in bs \cup {NULL}
          /\ op[e].pc \in Waiting \cup {"create_blob"} => op[e].f = f
          /\ handle'[e] = handle[e] \/ {handle[e], handle'[e]} \subseteq {f, NULL}
    BY <1>bs, <1>1, <1>2, <1>4
  <2>3. /\ {c} \subseteq Clients /\ {old, new} \subseteq Names /\ bs \subseteq Blobs
        /\ mode = "ready" /\ mode' = mode /\ doomed' = doomed /\ ub' = ub
        /\ \A m \in {old, new} : m \in DOMAIN files => files[m] = f
        /\ f \in DOMAIN file => file[f].blobid \in bs \cup {NULL}
        /\ f \in DOMAIN file' => file'[f].blobid \in bs \cup {NULL}
    <3>1. file[f].blobid = b
      BY DEF Moves
    <3> QED
      BY <1>bs, <1>1, <1>2, <1>4, <3>1
  <2>4. \A d \in Clients \ {c} : /\ op'[d] = op[d] /\ handle'[d] = handle[d]
                                 /\ Concerns(d) \cap {old, new} = {} /\ op[d].b \notin bs
    BY <1>bs, <1>1, <1>2, <1>4
  <2>5. \A h \in DOMAIN file \cup DOMAIN file' : h # f =>
          /\ h \in DOMAIN file /\ h \in DOMAIN file' /\ file'[h] = file[h]
          /\ file[h].blobid \notin bs
    BY <1>bs, <1>1, <1>2, <1>4
  <2>6. \A a \in Blobs \ bs : /\ mem'[a] = mem[a] /\ opens'[a] = opens[a]
                              /\ a \in DOMAIN disk' <=> a \in DOMAIN disk
                              /\ a \in DOMAIN disk => disk'[a] = disk[a]
    BY <1>bs, <1>2, <1>4
  <2> QED
    BY <2>1, <2>2, <2>3, <2>4, <2>5, <2>6, Zenon DEF Local
<1>7. TypeOK'
  <2>1. ASSUME NEW h \in DOMAIN file' PROVE h \in Files /\ file'[h] \in FileState
    <3>1. CASE h = f
      BY <1>1, <1>2, <3>1, FileFacts
    <3>2. CASE h # f
      BY <1>2, <3>2, FileFacts
    <3> QED
      BY <3>1, <3>2
  <2>2. DOMAIN files' \subseteq Names /\ \A m \in DOMAIN files' : files'[m] \in Files
    BY <1>1, <1>2, <1>4, Types, FileFacts
  <2>3. DOMAIN disk' \subseteq Blobs /\ (\A a \in DOMAIN disk' : disk'[a] \in Xattrs) /\ gone' \subseteq Blobs
    BY <1>4, Types
  <2>4. mode' = mode /\ handle' = handle /\ doomed' = doomed
    BY <1>4
  <2> QED
    BY <1>2, <2>1, <2>2, <2>3, <2>4 DEF MetaInv, TypeOK, FileState
<1>8. IsFiniteSet(DOMAIN file')
  BY <1>2 DEF MetaInv, NameInv
<1>9. OpInv(c)'
  <2>1. /\ op'[c] = r /\ op'[c].pc \in Renaming /\ op'[c].name = old /\ op'[c].new = new
        /\ op'[c].b = b /\ op'[c].then = "rename" /\ old # NULL /\ new # NULL /\ b # NULL
        /\ old \notin DOMAIN files' /\ new \in DOMAIN files' /\ file'[f].blobid = b
        /\ disk'[b].name \in {NULL, old} /\ (op'[c].pc = "rename_open" => ~file'[f].blob)
        /\ Target(c)' = new /\ Subject(c)' = f
    BY <1>1, <1>2, <1>3, <1>4, <1>5, Types
  <2> QED
    BY <2>1 DEF OpInv, Waiting, Creating, Renaming
<1>10. FileInv(f)'
  <2>1. \A d \in Clients \ {c} : op'[d].b # b
    BY <1>1, <1>2
  <2>2. \A pcs : With(b, pcs)' <=> op'[c].pc \in pcs
    BY <1>2, <1>4, <2>1, WithOnePrimed
  <2>3. /\ mem'[b].name \in {NULL, new} \/ With(b, {"rename_open"})'
        /\ disk'[b] = mem'[b] \/ With(b, {"create_close", "mark", "rename_close"})'
    BY <1>1, <1>2, <1>3, <1>5, <2>2 DEF Renaming
  <2>4. opens'[b] = (IF file'[f].blob THEN 1 ELSE 0) + (IF With(b, Holding)' THEN 1 ELSE 0)
    <3>1. CASE r.pc = "rename_open"
      <4>1. (IF With(b, Holding)' THEN 1 ELSE 0) = 0
        BY <1>2, <2>2, <3>1 DEF Holding
      <4>2. opens'[b] = 0 /\ ~file'[f].blob
        BY <1>1, <1>2, <1>3, <3>1
      <4> QED
        BY <4>1, <4>2
    <3>2. CASE r.pc = "rename_close"
      <4>1. (IF With(b, Holding)' THEN 1 ELSE 0) = 1
        BY <1>2, <2>2, <3>2 DEF Holding
      <4>2. opens'[b] = (IF file'[f].blob THEN 1 ELSE 0) + 1
        BY <1>1, <1>2, <1>3, <3>2
      <4> QED
        BY <4>1, <4>2
    <3> QED
      BY <1>3, <3>1, <3>2 DEF Renaming
  <2>5. \A d \in Clients : op'[d].b = b =>
          op'[d].pc \notin {"create_blob", "delete_blob"} /\ Subject(d)' = f
    BY <1>2, <1>3, <2>1 DEF Renaming
  <2>6. /\ file[f].ref_count = Cardinality({e \in Clients : handle[e] = f}) + Cardinality({})
        /\ file[f].blob <=> \E e \in Clients : handle[e] = f
    BY <1>1 DEF FileInv
  <2>7. /\ file'[f].ref_count = Cardinality({e \in Clients : handle'[e] = f}) + Cardinality({})
        /\ file'[f].blob <=> \E e \in Clients : handle'[e] = f
    BY <1>2, <1>4, <2>6
  <2>8. /\ file'[f].blobid = b /\ b # NULL /\ b \in DOMAIN disk' /\ file'[f].name = new
        /\ mem'[b].deleted = file'[f].is_deleted /\ file'[f].open_requests = {}
        /\ file'[f].is_deleted => file'[f].ref_count > 0
    BY <1>1, <1>2, <1>5
  <2> QED
    BY <2>3, <2>4, <2>5, <2>7, <2>8 DEF FileInv
<1>11. \A m \in DOMAIN acked' : /\ m \in DOMAIN acked /\ acked'[m] = acked[m] /\ m \notin {old, new}
                                /\ \A e \in {c} : m \notin Concerns(e)'
  BY <1>2, <1>4
<1>12. \A a \in gone' :
         \/ a \in gone /\ a \notin bs
         \/ /\ a \in DOMAIN disk' => disk'[a].deleted
            /\ \A h \in DOMAIN file' : file'[h].blobid = a => file'[h].is_deleted
  <2> TAKE a \in gone'
  <2>1. CASE a = b
    <3>1. b \in gone /\ file[f].blobid = b
      BY <1>1, <1>4, <2>1 DEF Moves
    <3>2. disk[b].deleted /\ file[f].is_deleted
      BY <1>1, <3>1 DEF MetaInv, GoneInv
    <3>3. disk'[b].deleted /\ file'[f].is_deleted
      BY <1>2, <1>5, <3>2
    <3>4. \A h \in DOMAIN file' : file'[h].blobid = b => h = f
      BY <1>1, <1>2
    <3> QED
      BY <2>1, <3>3, <3>4
  <2>2. CASE a \in dead
    <3>1. a \notin DOMAIN disk' /\ \A h \in DOMAIN file : file[h].blobid # a
      BY <1>4, <2>2
    <3>2. \A h \in DOMAIN file' : file'[h].blobid # a
      BY <1>1, <1>2, <2>2, <3>1
    <3> QED
      BY <3>1, <3>2
  <2>3. CASE a \notin bs
    BY <1>4, <1>bs, <2>3
  <2> QED
    BY <1>bs, <2>1, <2>2, <2>3
<1>13. \A e \in {c}, d \in Clients : e # d =>
         /\ Concerns(e)' \cap Concerns(d)' # {} => op'[e].pc \in Waiting /\ op'[d].pc \in Waiting
         /\ op'[e].b = op'[d].b => op'[e].b = NULL
  BY <1>1, <1>2, <1>4
<1>14. /\ f \in DOMAIN file' /\ file'[f].name = new /\ new \in DOMAIN files' /\ files'[new] = f
       /\ old \notin DOMAIN files'
  BY <1>1, <1>2, <1>4
<1>15. \A a \in bs : (\A h \in DOMAIN file' : file'[h].blobid # a) =>
         opens'[a] = 0 /\ (a \in DOMAIN disk' => With(a, {"delete_blob"})')
  <2> SUFFICES ASSUME NEW a \in dead, a # b PROVE opens'[a] = 0 /\ a \notin DOMAIN disk'
    BY <1>bs, <1>1, <1>2
  <2> QED
    BY <1>2, <1>4
<1>16. Rest({c}, {old, new}, f, bs)
  BY <1>2, <1>3, <1>7, <1>8, <1>9, <1>10, <1>11, <1>12, <1>13, <1>14, <1>15 DEF Rest
<1> QED
  BY <1>6, <1>16, FrameRest

\* The record of a rename that goes on with another request.
LEMMA OnCall ==
    ASSUME NEW q \in OpState, NEW p \in Calls, NEW b \in Blobs, NEW r, r = [q EXCEPT !.pc = p, !.b = b]
    PROVE  IsCall(r, p, q.name, q.new, q.f, b, q.then)
<1>1. PICK k : k = [q EXCEPT !.pc = p]
  OBVIOUS
<1>2. k \in OpState /\ k.pc = p /\ k.name = q.name /\ k.new = q.new /\ k.f = q.f /\ k.then = q.then
  BY <1>1 DEF OpState
<1>3. r = [k EXCEPT !.b = b]
  BY <1>1 DEF OpState
<1> QED
  BY <1>2, <1>3 DEF IsCall, OpState

\* _fs_md_rename_file for the call q of client c.
Renames(c, q, old, new, dead) ==
    /\ MdRename(c, q, persists) /\ q \in OpState
    /\ q.name = old /\ q.new = new /\ q.then = "rename"
    /\ mode = "ready" /\ UNCHANGED <<mode, doomed>>
    /\ old \in DOMAIN files /\ new \in Names /\ new \notin DOMAIN files
    /\ dead \subseteq Blobs /\ op[c].b \in dead \cup {NULL} /\ op[c].pc \in {"idle", "delete_blob"}
    /\ \A a \in dead : opens[a] = 0 /\ \A h \in DOMAIN file : file[h].blobid # a
    /\ \A d \in Clients \ {c} : Concerns(d) \cap {old, new} = {} /\ op[d].b \notin dead
    /\ DOMAIN disk' = DOMAIN disk \ dead /\ \A a \in DOMAIN disk' : disk'[a] = disk[a]
    /\ gone \subseteq gone' /\ gone' \subseteq gone \cup dead
    /\ DOMAIN acked' \subseteq DOMAIN acked
    /\ \A m \in DOMAIN acked' : acked'[m] = acked[m] /\ m \notin {old, new}

LEMMA MdRenameMeta ==
    ASSUME MetaInv, NEW c \in Clients, NEW q, NEW old, NEW new, NEW dead,
           Renames(c, q, old, new, dead)
    PROVE  MetaInv'
<1> USE DEF Renames
<1>1. PICK f : f = files[old]
  OBVIOUS
<1>b. PICK b : b = file[f].blobid
  OBVIOUS
<1>x. PICK x : x = Renamed(mem[b], new)
  OBVIOUS
<1>2. /\ f \in DOMAIN file /\ file[f].name = old /\ Find(q.name) = f /\ f # NULL
  BY <1>1, FileFacts DEF Find, MetaInv, NameInv
<1>3. b \in Blobs /\ b # NULL
  <2>1. \A d \in Clients : file[f].name \in Concerns(d) => op[d].pc = "delete_blob"
    <3>1. op[c].pc = "idle" => Concerns(c) = {}
      BY OpNames
    <3> QED
      BY <1>2, <3>1
  <2> QED
    BY <1>2, <1>b, <2>1, Quiet
<1>4. /\ handle' = handle /\ ub' = ub
      /\ files' = Insert(Remove(files, old), new, f) /\ file' = [file EXCEPT ![f].name = new]
      /\ IF opens[b] > 0 THEN RenameBlob(c, q, b, persists)
         ELSE /\ op' = [op EXCEPT ![c] = [q EXCEPT !.pc = "rename_open", !.b = b]]
              /\ persists' = persists /\ UNCHANGED <<opens, mem>>
  BY <1>b, <1>2, <1>3 DEF MdRename
<1>5. CASE opens[b] > 0
  <2>1. PICK r : r = [q EXCEPT !.pc = "rename_close", !.b = b]
    OBVIOUS
  <2>2. r \in OpState /\ r.pc = "rename_close" /\ r.name = old /\ r.new = new /\ r.b = b
        /\ r.then = "rename"
    <3>1. "rename_close" \in Calls
      BY DEF Calls, Renaming
    <3>2. IsCall(r, "rename_close", q.name, q.new, q.f, b, q.then)
      BY <1>3, <2>1, <3>1, OnCall
    <3> QED
      BY <3>2 DEF IsCall
  <2>3. /\ mem' = [mem EXCEPT ![b] = x] /\ persists' = Write(persists, c, b, x)
        /\ opens' = [opens EXCEPT ![b] = @ + 1] /\ op' = [op EXCEPT ![c] = r]
    BY <1>4, <1>5, <1>x, <2>1 DEF RenameBlob
  <2>4. Moves(c, old, new, f, b, dead, r, x)
    BY <1>1, <1>b, <1>x, <1>4, <1>5, <2>2, <2>3, Zenon DEF Moves
  <2> QED
    BY <2>4, MovesMeta
<1>6. CASE ~(opens[b] > 0)
  <2>1. PICK r : r = [q EXCEPT !.pc = "rename_open", !.b = b]
    OBVIOUS
  <2>2. r \in OpState /\ r.pc = "rename_open" /\ r.name = old /\ r.new = new /\ r.b = b
        /\ r.then = "rename"
    <3>1. "rename_open" \in Calls
      BY DEF Calls, Renaming
    <3>2. IsCall(r, "rename_open", q.name, q.new, q.f, b, q.then)
      BY <1>3, <2>1, <3>1, OnCall
    <3> QED
      BY <3>2 DEF IsCall
  <2>3. op' = [op EXCEPT ![c] = r] /\ UNCHANGED <<persists, opens, mem>>
    BY <1>4, <1>6, <2>1
  <2>4. Moves(c, old, new, f, b, dead, r, x)
    BY <1>1, <1>b, <1>x, <1>4, <1>6, <2>2, <2>3 DEF Moves
  <2> QED
    BY <2>4, MovesMeta
<1> QED
  BY <1>5, <1>6

LEMMA RenameRec ==
    ASSUME NEW n \in Names, NEW m \in Names, NEW q,
           q = [Idle EXCEPT !.name = n, !.new = m, !.then = "rename"]
    PROVE  IsCall(q, "idle", n, m, NULL, NULL, "rename")
BY DEF IsCall, Idle, OpState, Calls

\* spdk_fs_rename_file to a name that is free, and to one whose file goes first.
LEMMA RenameFreeMeta ==
    ASSUME Orderly, MetaInv, NEW c \in Clients, NEW old \in Names, NEW new \in Names,
           Rename(c, old, new), new \notin DOMAIN files
    PROVE  MetaInv'
<1>q. PICK q : q = [Idle EXCEPT !.name = old, !.new = new, !.then = "rename"]
  OBVIOUS
<1>1. /\ Begin(c, {old, new}) /\ Find(old) # NULL /\ MdRename(c, q, persists)
      /\ acked' = Restrict(acked, DOMAIN acked \ {old, new})
      /\ UNCHANGED <<mode, disk, doomed, gone>>
  BY <1>q DEF Rename, Find
<1>2. /\ mode = "ready" /\ op[c].pc = "idle" /\ op[c].b = NULL
      /\ \A d \in Clients : Concerns(d) \cap {old, new} = {}
  BY <1>1, BeginFacts
<1>3. q \in OpState /\ q.name = old /\ q.new = new /\ q.then = "rename"
  <2>1. IsCall(q, "idle", old, new, NULL, NULL, "rename")
    BY <1>q, RenameRec
  <2> QED
    BY <2>1 DEF IsCall
<1>4. old \in DOMAIN files
  BY <1>1 DEF Find
<1>5. /\ DOMAIN acked' \subseteq DOMAIN acked
      /\ \A m \in DOMAIN acked' : acked'[m] = acked[m] /\ m \notin {old, new}
  BY <1>1, AckedLess
<1>6. Renames(c, q, old, new, {})
  BY <1>1, <1>2, <1>3, <1>4, <1>5 DEF Renames
<1> QED
  BY <1>6, MdRenameMeta

LEMMA RenameOntoMeta ==
    ASSUME Orderly, MetaInv, NEW c \in Clients, NEW old \in Names, NEW new \in Names,
           Rename(c, old, new), new \in DOMAIN files
    PROVE  MetaInv'
<1>q. PICK q : q = [Idle EXCEPT !.name = old, !.new = new, !.then = "rename"]
  OBVIOUS
<1>1. PICK f : f = files[new]
  OBVIOUS
<1>2. f \in DOMAIN file /\ Find(new) = f /\ f # NULL /\ file[f].name = new
  BY <1>1, FileFacts DEF Find, MetaInv, NameInv
<1>b. PICK b : b = file[f].blobid
  OBVIOUS
<1>0. /\ Begin(c, {old, new}) /\ DeleteAsync(c, new, q, persists, opens) /\ ~InUse(f)
      /\ acked' = Restrict(acked, DOMAIN acked \ {old, new})
      /\ UNCHANGED <<mode, disk, doomed, gone>>
  BY <1>q, <1>1, <1>2 DEF Rename, Orderly
<1>3. /\ mode = "ready" /\ op[c].pc = "idle" /\ op[c].b = NULL
      /\ op[c].pc \notin Writing \cup Waiting \cup {"create_blob"}
      /\ \A d \in Clients : Concerns(d) \cap {old, new} = {}
  BY <1>0, BeginFacts
<1>4. /\ b \in Blobs /\ b # NULL /\ b \in DOMAIN disk /\ mem[b] \in Xattrs
      /\ disk[b] = mem[b] /\ mem[b].name \in {NULL, new}
      /\ opens[b] = (IF file[f].blob THEN 1 ELSE 0)
      /\ \A d \in Clients : op[d].b # b
  <2>1. \A d \in Clients : file[f].name \in Concerns(d) => op[d].pc = "delete_blob"
    BY <1>2, <1>3
  <2>2. f \in DOMAIN file /\ file[f].name = new
    BY <1>2
  <2> QED
    BY <2>1, <2>2, <1>b, Quiet
<1>5. file[f].ref_count = 0 /\ ~file[f].blob /\ \A d \in Clients : handle[d] # f
  <2>1. file[f].ref_count \in Nat /\ ~(file[f].ref_count > 0)
    BY <1>0, <1>2, FileFacts DEF InUse, FileState
  <2>2. file[f].ref_count = 0
    BY <2>1
  <2> QED
    BY <1>2, <2>2, NoReferences
<1>r. PICK r : r = [q EXCEPT !.pc = "delete_blob", !.b = b]
  OBVIOUS
<1>6. /\ r \in OpState /\ r.pc = "delete_blob" /\ r.b = b /\ r.name = old /\ r.new = new
      /\ r.then = "rename"
  <2>1. IsCall(r, "delete_blob", old, new, NULL, b, "rename")
    BY <1>4, <1>q, <1>r, RenameCall DEF Calls
  <2> QED
    BY <2>1 DEF IsCall
<1>7. /\ opens' = opens /\ handle' = handle /\ files' = Remove(files, new)
      /\ file' = Restrict(file, DOMAIN file \ {f})
      /\ op' = [op EXCEPT ![c] = r] /\ persists' = persists /\ mem' = mem /\ ub' = ub
  BY <1>0, <1>1, <1>2, <1>b, <1>r DEF DeleteAsync
<1>8. PersistInv'
  <2>1. \A d \in Clients \ {c} : op'[d] = op[d]
    BY <1>7, Types
  <2>2. Apart(c, b)
    BY <1>4, <1>7, <2>1 DEF Apart
  <2> QED
    BY <1>3, <1>7, <2>2, PersistKeep
<1>9. /\ DOMAIN acked' \subseteq DOMAIN acked
      /\ \A m \in DOMAIN acked' : acked'[m] = acked[m] /\ m \notin {r.name, r.new}
  BY <1>0, <1>6, AckedLess
<1>10. \A d \in Clients \ {c} : Concerns(d) \cap {r.name, r.new} = {} /\ op[d].b # b
  BY <1>3, <1>4, <1>6
<1>11. opens' \in [Blobs -> Nat] /\ opens'[b] = 0 /\ \A a \in Blobs \ {b} : opens'[a] = opens[a]
  BY <1>4, <1>5, <1>7, Types
<1>12. Freed(c, new, f, b, r)
  BY <1>0, <1>1, <1>2, <1>b, <1>3, <1>4, <1>5, <1>6, <1>7, <1>8, <1>9, <1>10, <1>11 DEF Freed
<1> QED
  BY <1>12, FreeFile

LEMMA RenameMeta ==
    ASSUME Orderly, MetaInv, NEW c \in Clients, NEW old \in Names, NEW new \in Names, Rename(c, old, new)
    PROVE  MetaInv'
BY RenameFreeMeta, RenameOntoMeta

\* spdk_bs_delete_blob is done; a rename goes on, unless its file is gone too.
LEMMA BlobDeletedMeta ==
    ASSUME MetaInv, NEW c \in Clients, BlobDeleted(c)
    PROVE  MetaInv'
<1>b. PICK b : b = op[c].b
  OBVIOUS
<1>1. mode = "ready" /\ op[c].pc = "delete_blob" /\ UNCHANGED <<mode, doomed, acked>>
      /\ DeleteOver(c, persists)
  BY DEF BlobDeleted, Ready
<1>2. /\ b \in Blobs /\ b \in DOMAIN disk /\ b # NULL /\ opens[b] = 0
      /\ \A h \in DOMAIN file : file[h].blobid # b
      /\ \A d \in Clients \ {c} : op[d].b # b /\ Concerns(d) \cap Concerns(c) = {}
      /\ \A m \in DOMAIN acked : m \notin Concerns(c)
  BY <1>1, <1>b, DeletingFacts
<1>3. disk' = Restrict(disk, DOMAIN disk \ {b}) /\ gone' = gone \cup {b}
  BY <1>2, <1>b DEF BlobDeleted
<1>4. op[c] \in OpState /\ OpInv(c)
  BY DEF MetaInv
<1>5. CASE op[c].then # "rename"
  <2>1. /\ op' = [op EXCEPT ![c] = Idle]
        /\ UNCHANGED <<files, file, handle, persists, opens, mem, ub>>
    BY <1>1, <1>5 DEF DeleteOver, nameVars
  <2> QED
    BY <1>1, <1>3, <1>b, <2>1, DeleteReturns
<1>6. CASE op[c].then = "rename"
  <2>1. PICK old, new, q : old = op[c].name /\ new = op[c].new /\ q = op[c]
    OBVIOUS
  <2>2. MdRename(c, q, persists)
    BY <1>1, <1>6, <2>1 DEF DeleteOver
  <2>3. old \in Names /\ new \in Names /\ new # NULL /\ old # NULL
    BY <1>1, <1>4, <1>6, <2>1 DEF OpInv, OpState
  <2>4. Concerns(c) = {old, new} /\ Target(c) = new /\ new \notin DOMAIN files
    BY <1>1, <1>4, <2>1, <2>3 DEF OpInv, Concerns, Target
  <2>5. CASE old \notin DOMAIN files
    <3>1. Find(q.name) = NULL
      BY <2>1, <2>5 DEF Find
    <3>2. /\ op' = [op EXCEPT ![c] = Idle]
          /\ UNCHANGED <<files, file, handle, persists, opens, mem, ub>>
      BY <2>2, <3>1 DEF MdRename, nameVars
    <3> QED
      BY <1>1, <1>3, <1>b, <3>2, DeleteReturns
  <2>6. CASE old \in DOMAIN files
    <3>1. DOMAIN disk' = DOMAIN disk \ {b} /\ \A a \in DOMAIN disk' : disk'[a] = disk[a]
      BY <1>3 DEF Restrict
    <3>2. /\ \A a \in {b} : opens[a] = 0 /\ \A h \in DOMAIN file : file[h].blobid # a
          /\ \A d \in Clients \ {c} : Concerns(d) \cap {old, new} = {} /\ op[d].b \notin {b}
          /\ gone \subseteq gone' /\ gone' \subseteq gone \cup {b}
          /\ DOMAIN acked' \subseteq DOMAIN acked
          /\ \A m \in DOMAIN acked' : acked'[m] = acked[m] /\ m \notin {old, new}
          /\ {b} \subseteq Blobs /\ op[c].b \in {b} \cup {NULL}
      BY <1>1, <1>2, <1>3, <1>b, <2>4
    <3>3. Renames(c, q, old, new, {b})
      BY <1>1, <1>4, <1>6, <2>1, <2>2, <2>3, <2>4, <2>6, <3>1, <3>2 DEF Renames
    <3> QED
      BY <3>3, MdRenameMeta
  <2> QED
    BY <2>5, <2>6
<1> QED
  BY <1>5, <1>6

-----------------------------------------------------------------------------
(* Crash, unload and load.                                                   *)

\* Who answers for the name of a blob on the device: its file, or a call that is
\* renaming the file or deleting the blob.
LEMMA NameOwner ==
    ASSUME MetaInv, mode = "ready", NEW x \in DOMAIN disk, NEW n, n = disk[x].name, n # NULL
    PROVE  \/ n \in DOMAIN files /\ file[files[n]].blobid = x
           \/ /\ n \notin DOMAIN files
              /\ \E d \in Clients : op[d].b = x /\ n \in Concerns(d) /\ op[d].pc \notin Waiting
<1>1. x \in Blobs /\ x # NULL
  BY Types
<1>2. ASSUME NEW d \in Clients, op[d].b = x, op[d].pc = "delete_blob"
      PROVE  n \notin DOMAIN files /\ n \in Concerns(d) /\ op[d].pc \notin Waiting
  <2>1. Target(d) \notin DOMAIN files /\ disk[x].name \in {NULL, Target(d)}
    BY <1>2 DEF MetaInv, OpInv
  <2> QED
    BY <1>2, <2>1, OpNames DEF Waiting
<1>3. ASSUME NEW d \in Clients, op[d].b = x, op[d].pc \in Renaming
      PROVE  n \notin DOMAIN files /\ n \in Concerns(d) /\ op[d].pc \notin Waiting
  BY <1>3, RenameFacts
<1>4. ASSUME NEW h \in DOMAIN file, file[h].blobid = x, ~(\E d \in Clients : op[d].b = x /\ op[d].pc \in Renaming)
      PROVE  n \in DOMAIN files /\ file[files[n]].blobid = x
  <2>1. /\ mem[x].name \in {NULL, file[h].name} \/ With(x, {"rename_open"})
        /\ disk[x] = mem[x] \/ With(x, {"create_close", "mark", "rename_close"})
        /\ file[h].name \in DOMAIN files /\ files[file[h].name] = h
        /\ \A d \in Clients : op[d].b = x => Subject(d) = h
    <3>1. FileInv(h) /\ file[h].name \in DOMAIN files /\ files[file[h].name] = h
      BY FileFacts
    <3> QED
      BY <1>1, <1>4, <3>1 DEF FileInv
  <2>2. CASE disk[x] = mem[x]
    <3>1. ~With(x, {"rename_open"})
      BY <1>4 DEF With, Renaming
    <3> QED
      BY <1>4, <2>1, <2>2, <3>1
  <2>3. CASE With(x, {"create_close", "mark", "rename_close"})
    <3>1. PICK d \in Clients : op[d].b = x /\ op[d].pc \in {"create_close", "mark"}
      BY <1>4, <2>3 DEF With, Renaming
    <3>2. op[d].pc # "create_close"
      <4> SUFFICES ASSUME op[d].pc = "create_close" PROVE FALSE
        OBVIOUS
      <4>1. disk[x] = NoXattrs
        BY <3>1 DEF MetaInv, OpInv, Creating
      <4> QED
        BY <4>1 DEF NoXattrs
    <3>3. disk[x].name \in {NULL, Target(d)}
      BY <3>1, <3>2 DEF MetaInv, OpInv
    <3>4. Target(d) \in DOMAIN files /\ file[Subject(d)].name = Target(d) /\ Subject(d) = h
      BY <2>1, <3>1, <3>2, OpFile
    <3> QED
      BY <1>4, <2>1, <3>3, <3>4
  <2> QED
    BY <2>1, <2>2, <2>3
<1>5. CASE \E h \in DOMAIN file : file[h].blobid = x
  BY <1>3, <1>4, <1>5
<1>6. CASE \A h \in DOMAIN file : file[h].blobid # x
  <2>1. doomed = {}
    BY DEF MetaInv, ModeInv
  <2>2. With(x, {"delete_blob"})
    BY <1>1, <1>6, <2>1 DEF MetaInv, BlobInv
  <2> QED
    BY <1>2, <2>2 DEF With
<1> QED
  BY <1>5, <1>6

LEMMA NamesUnique ==
    ASSUME MetaInv
    PROVE  Unique
<1>1. CASE mode # "ready"
  BY <1>1 DEF MetaInv, ModeInv
<1>2. CASE mode = "ready"
  <2> SUFFICES ASSUME NEW a \in DOMAIN disk, NEW b \in DOMAIN disk, NEW n,
                      n = disk[a].name, n = disk[b].name, n # NULL
               PROVE  a = b
    BY DEF Unique
  <2> DEFINE Owned(x) == n \in DOMAIN files /\ file[files[n]].blobid = x
             Called(x, d) == op[d].b = x /\ n \in Concerns(d) /\ op[d].pc \notin Waiting
  <2>1. Owned(a) \/ (n \notin DOMAIN files /\ \E d \in Clients : Called(a, d))
    BY <1>2, NameOwner
  <2>2. Owned(b) \/ (n \notin DOMAIN files /\ \E d \in Clients : Called(b, d))
    BY <1>2, NameOwner
  <2>3. CASE n \in DOMAIN files
    BY <2>1, <2>2, <2>3
  <2>4. CASE n \notin DOMAIN files
    <3>1. PICK d \in Clients : Called(a, d)
      BY <2>1, <2>4
    <3>2. PICK e \in Clients : Called(b, e)
      BY <2>2, <2>4
    <3>3. d = e
      BY <3>1, <3>2 DEF MetaInv, ApartInv
    <3> QED
      BY <3>1, <3>2, <3>3
  <2> QED
    BY <2>3, <2>4
<1> QED
  BY <1>1, <1>2

LEMMA IdleInv ==
    ASSUME NEW c, op'[c] = Idle
    PROVE  OpInv(c)' /\ Concerns(c)' = {} /\ op'[c].pc = "idle" /\ op'[c].b = NULL
<1>1. OpInv(c)'
  BY IdleType DEF OpInv, Waiting, Creating, Renaming
<1>2. Concerns(c)' = {}
  BY IdleType DEF Concerns
<1> QED
  BY <1>1, <1>2, IdleType

\* What all states without calls have.
LEMMA NoCalls ==
    ASSUME op' \in [Clients -> OpState], \A c \in Clients : op'[c] = Idle
    PROVE  /\ \A c \in Clients : OpInv(c)' /\ Concerns(c)' = {} /\ op'[c].pc = "idle" /\ op'[c].b = NULL
           /\ ApartInv' /\ \A b \in Blobs : \A pcs : ~With(b, pcs)'
<1>1. \A c \in Clients : OpInv(c)' /\ Concerns(c)' = {} /\ op'[c].pc = "idle" /\ op'[c].b = NULL
  BY IdleInv
<1>2. ApartInv'
  BY <1>1 DEF ApartInv
<1>3. ASSUME NEW b \in Blobs, NEW pcs PROVE ~With(b, pcs)'
  BY <1>1, MetaAssumption DEF With
<1> QED
  BY <1>1, <1>2, <1>3

LEMMA NoWrites ==
    ASSUME persists' = <<>>
    PROVE  PersistInv'
<1>1. persists' \in Seq(WriteState) /\ DOMAIN persists' = {}
  OBVIOUS
<1> QED
  BY <1>1 DEF PersistInv

\* Crash, and spdk_fs_unload.
LEMMA ForgetMeta ==
    ASSUME MetaInv, Forget
    PROVE  MetaInv'
<1> USE DEF Forget
<1>1. DOMAIN files' = {} /\ DOMAIN file' = {}
  BY DEF Restrict
<1>2. op' \in [Clients -> OpState] /\ \A c \in Clients : op'[c] = Idle
  BY IdleType
<1>3. /\ \A c \in Clients : OpInv(c)' /\ Concerns(c)' = {} /\ op'[c].pc = "idle"
      /\ ApartInv'
  BY <1>2, NoCalls
<1>4. Defined' /\ GoneInv'
  BY <1>1 DEF MetaInv, Defined, GoneInv, ghostVars
<1>5. TypeOK'
  <2>1. NoXattrs \in Xattrs
    BY DEF NoXattrs, Xattrs
  <2>2. /\ handle' \in [Clients -> Files \cup {NULL}] /\ opens' \in [Blobs -> Nat]
        /\ mem' \in [Blobs -> Xattrs]
    BY <2>1
  <2> QED
    BY <1>1, <2>2 DEF MetaInv, TypeOK, ghostVars
<1>6. NameInv'
  BY <1>1, FS_EmptySet DEF NameInv
<1>7. BlobInv' /\ PersistInv'
  BY <1>1, NoWrites DEF BlobInv
<1>8. ModeInv'
  <2>1. Unique'
    BY NamesUnique DEF Unique
  <2>2. \A b \in Blobs : opens'[b] = 0
    OBVIOUS
  <2> QED
    BY <1>1, <1>3, <2>1, <2>2 DEF ModeInv
<1>9. AckInv'
  <2> SUFFICES ASSUME NEW n \in DOMAIN acked' PROVE Lasts(n)'
    BY DEF AckInv
  <2>1. n \in DOMAIN acked /\ Lasts(n) /\ acked' = acked /\ disk' = disk
    BY DEF MetaInv, AckInv, ghostVars
  <2> QED
    BY <1>3, <2>1 DEF Lasts
<1> QED
  BY <1>1, <1>2, <1>3, <1>4, <1>5, <1>6, <1>7, <1>8, <1>9 DEF MetaInv

\* Before the file system is up there are no calls.
LEMMA NotUp ==
    ASSUME MetaInv, mode # "ready"
    PROVE  /\ \A c \in Clients : op[c] = Idle /\ handle[c] = NULL
           /\ persists = <<>> /\ Unique /\ \A b \in Blobs : opens[b] = 0
<1>1. /\ \A c \in Clients : op[c].pc = "idle" /\ handle[c] = NULL
      /\ persists = <<>> /\ Unique /\ \A b \in Blobs : opens[b] = 0
  BY DEF MetaInv, ModeInv
<1> QED
  BY <1>1, OpNames

\* The files that iter_cb makes.
Loaded(live) ==
    /\ live = {b \in DOMAIN disk : ~disk[b].deleted}
    /\ \A b \in DOMAIN disk : disk[b].name # NULL
    /\ file' = [b \in live |-> NewFile(disk[b].name, b)]
    /\ files' = [n \in {disk[b].name : b \in live} |-> Min({b \in live : disk[b].name = n})]
    /\ mem' = [b \in Blobs |-> IF b \in DOMAIN disk THEN disk[b] ELSE NoXattrs]
    /\ doomed' = DOMAIN disk \ live
    /\ mode' = IF DOMAIN disk = live THEN "ready" ELSE "loading"
    /\ UNCHANGED <<op, handle, persists, opens, disk, acked, gone, ub>>

LEMMA LoadedFiles ==
    ASSUME MetaInv, mode = "down", NEW live, Loaded(live)
    PROVE  /\ live \subseteq Blobs /\ live \subseteq Nat \ {0} /\ IsFiniteSet(live)
           /\ DOMAIN file' = live
           /\ \A b \in live : /\ disk[b].name \in Names /\ disk[b].deleted = FALSE
                              /\ disk[b].name \in DOMAIN files' /\ files'[disk[b].name] = b
                              /\ file'[b] \in FileState /\ IsNew(file'[b], disk[b].name, b)
           /\ \A n \in DOMAIN files' : n \in Names /\ files'[n] \in live /\ disk[files'[n]].name = n
<1> USE DEF Loaded
<1>1. live \subseteq Blobs /\ live \subseteq Nat \ {0} /\ live \subseteq DOMAIN disk
  BY Types
<1>2. IsFiniteSet(live)
  BY <1>1, MetaAssumption, FS_Subset
<1>3. ASSUME NEW b \in live
      PROVE  disk[b] \in Xattrs /\ disk[b].name \in Names /\ disk[b].deleted = FALSE
  BY Types DEF Xattrs
<1>4. ASSUME NEW b \in live
      PROVE  disk[b].name \in DOMAIN files' /\ files'[disk[b].name] = b
  <2>1. PICK T : T = {a \in live : disk[a].name = disk[b].name}
    OBVIOUS
  <2>2. T = {b}
    <3>1. Unique
      BY NotUp
    <3> QED
      BY <1>1, <1>3, <2>1, <3>1 DEF Unique
  <2>3. Min(T) = b
    <3>1. T \subseteq Nat /\ T # {}
      BY <1>1, <2>2
    <3> HIDE DEF Loaded
    <3>2. Min(T) \in T
      BY <3>1, MinIsLeast
    <3> QED
      BY <2>2, <3>2
  <2>4. disk[b].name \in DOMAIN files' /\ files'[disk[b].name] = Min(T)
    BY <2>1
  <2> QED
    BY <2>3, <2>4
<1>5. ASSUME NEW n \in DOMAIN files'
      PROVE  n \in Names /\ files'[n] \in live /\ disk[files'[n]].name = n
  <2>1. PICK b \in live : n = disk[b].name
    <3>1. DOMAIN files' = {disk[b].name : b \in live}
      OBVIOUS
    <3> HIDE DEF Loaded
    <3> QED
      BY <3>1
  <2>2. disk[b].name \in Names /\ files'[disk[b].name] = b
    BY <1>3, <1>4
  <2>3. n \in Names /\ files'[n] = b
    BY <2>1, <2>2
  <2> HIDE DEF Loaded
  <2> QED
    BY <2>1, <2>3
<1>6. ASSUME NEW b \in live
      PROVE  file'[b] \in FileState /\ IsNew(file'[b], disk[b].name, b)
  <2>1. PICK m : m = disk[b].name
    OBVIOUS
  <2>2. file'[b] = NewFile(m, b) /\ m \in Names /\ b \in Blobs
    BY <1>1, <1>3, <2>1
  <2>3. NewFile(m, b) \in FileState /\ IsNew(NewFile(m, b), m, b)
    BY <2>2 DEF NewFile, FileState, IsNew
  <2> QED
    BY <2>1, <2>2, <2>3
<1> QED
  BY <1>1, <1>2, <1>3, <1>4, <1>5, <1>6

LEMMA LoadedMeta ==
    ASSUME MetaInv, mode = "down", NEW live, Loaded(live)
    PROVE  MetaInv'
<1>1. /\ live \subseteq Blobs /\ live \subseteq Nat \ {0} /\ IsFiniteSet(live)
      /\ DOMAIN file' = live
      /\ \A b \in live : /\ disk[b].name \in Names /\ disk[b].deleted = FALSE
                         /\ disk[b].name \in DOMAIN files' /\ files'[disk[b].name] = b
                         /\ file'[b] \in FileState /\ IsNew(file'[b], disk[b].name, b)
      /\ \A n \in DOMAIN files' : n \in Names /\ files'[n] \in live /\ disk[files'[n]].name = n
  BY LoadedFiles
<1>2. /\ UNCHANGED <<op, handle, persists, opens, disk, acked, gone, ub>>
      /\ mode' \in {"ready", "loading"} /\ (mode' = "loading" <=> DOMAIN disk # live)
      /\ doomed' = DOMAIN disk \ live /\ live = {b \in DOMAIN disk : ~disk[b].deleted}
  BY DEF Loaded
<1>3. /\ \A c \in Clients : op'[c] = Idle /\ handle'[c] = NULL
      /\ persists' = <<>> /\ Unique /\ \A b \in Blobs : opens'[b] = 0
      /\ op' \in [Clients -> OpState]
  BY <1>2, NotUp, Types
<1>4. /\ \A c \in Clients : OpInv(c)' /\ Concerns(c)' = {} /\ op'[c].pc = "idle" /\ op'[c].b = NULL
      /\ ApartInv' /\ \A b \in Blobs : \A pcs : ~With(b, pcs)'
  BY <1>3, NoCalls
<1>5. Defined' /\ PersistInv'
  BY <1>2, <1>3, NoWrites DEF MetaInv, Defined
<1>m. /\ mem' \in [Blobs -> Xattrs] /\ \A b \in DOMAIN disk : mem'[b] = disk[b]
  <2>1. NoXattrs \in Xattrs
    BY DEF NoXattrs, Xattrs
  <2> QED
    BY <2>1, Types DEF Loaded
<1>6. TypeOK'
  <2>1. doomed' \subseteq Blobs
    BY <1>2, Types
  <2>2. DOMAIN files' \subseteq Names /\ \A n \in DOMAIN files' : files'[n] \in Files
    BY <1>1 DEF Files
  <2>3. \A f \in DOMAIN file' : f \in Files /\ file'[f] \in FileState
    BY <1>1 DEF Files
  <2> QED
    BY <1>2, <1>m, <2>1, <2>2, <2>3 DEF MetaInv, TypeOK, FileState
<1>7. NameInv'
  <2>1. \A b \in live : file'[b].name = disk[b].name /\ file'[b].blobid = b
    BY <1>1 DEF IsNew
  <2> QED
    BY <1>1, <1>3, <2>1 DEF NameInv
<1>8. ASSUME NEW b \in DOMAIN file' PROVE FileInv(b)'
  <2>1. /\ b \in live /\ b \in Blobs /\ b # NULL /\ b \in DOMAIN disk' /\ mem'[b] = disk'[b]
        /\ disk[b].deleted = FALSE /\ \A pcs : ~With(b, pcs)'
    BY <1>1, <1>2, <1>4, <1>m, MetaAssumption
  <2>2. /\ file'[b].name = disk[b].name /\ file'[b].blobid = b /\ file'[b].ref_count = 0
        /\ file'[b].is_deleted = FALSE /\ file'[b].blob = FALSE /\ file'[b].open_requests = {}
    BY <1>1, <2>1 DEF IsNew
  <2>3. \A c \in Clients : handle'[c] # b /\ op'[c].b # b
    BY <1>3, <1>4, <2>1
  <2>4. file'[b].ref_count = Cardinality({c \in Clients : handle'[c] = b})
                               + Cardinality(file'[b].open_requests)
    <3>1. {c \in Clients : handle'[c] = b} = {}
      BY <2>3
    <3>2. Cardinality({c \in Clients : handle'[c] = b}) = 0 /\ Cardinality(file'[b].open_requests) = 0
      BY <2>2, <3>1, FS_EmptySet
    <3> QED
      BY <2>2, <3>2
  <2>5. opens'[b] = (IF file'[b].blob THEN 1 ELSE 0) + (IF With(b, Holding)' THEN 1 ELSE 0)
    <3>1. (IF file'[b].blob THEN 1 ELSE 0) = 0 /\ (IF With(b, Holding)' THEN 1 ELSE 0) = 0
      BY <2>1, <2>2
    <3> QED
      BY <1>3, <2>1, <3>1
  <2>6. /\ mem'[b].deleted = file'[b].is_deleted /\ mem'[b].name = file'[b].name
    BY <1>2, <2>1, <2>2
  <2> QED
    BY <2>1, <2>2, <2>3, <2>4, <2>5, <2>6 DEF FileInv
<1>9. BlobInv'
  <2>1. \A f \in DOMAIN file' : file'[f].blobid = f
    BY <1>1 DEF IsNew
  <2>2. \A b \in Blobs : b \in DOMAIN disk' /\ b \notin DOMAIN file' => b \in doomed'
    BY <1>1, <1>2
  <2> QED
    BY <1>3, <2>1, <2>2 DEF BlobInv
<1>10. ModeInv'
  <2>1. Unique'
    BY <1>2, <1>3 DEF Unique
  <2>2. \A b \in doomed' : b \in DOMAIN disk' /\ disk'[b].deleted
    BY <1>2
  <2>3. \A f \in DOMAIN file' : file'[f].blobid \notin doomed'
    BY <1>1, <1>2 DEF IsNew
  <2>4. /\ mode' # "loading" => doomed' = {}
        /\ mode' = "loading" => doomed' # {}
    BY <1>2
  <2> QED
    BY <1>2, <1>3, <1>4, <2>1, <2>2, <2>3, <2>4 DEF ModeInv
<1>11. AckInv'
  <2> SUFFICES ASSUME NEW n \in DOMAIN acked' PROVE Lasts(n)'
    BY DEF AckInv
  <2>1. n \in DOMAIN acked /\ Lasts(n) /\ acked' = acked /\ disk' = disk
    BY <1>2 DEF MetaInv, AckInv
  <2>2. PICK b : b = acked[n]
    OBVIOUS
  <2>3. n \in Names /\ b \in DOMAIN disk /\ disk[b] = [name |-> n, deleted |-> FALSE]
    BY <2>1, <2>2 DEF Lasts
  <2>4. disk[b].name = n /\ disk[b].deleted = FALSE
    BY <2>3
  <2>5. b \in live /\ n \in DOMAIN files' /\ files'[n] = b
    BY <1>1, <1>2, <2>3, <2>4
  <2>6. file'[b].blobid = b /\ file'[b].is_deleted = FALSE
    BY <1>1, <2>5 DEF IsNew
  <2> QED
    BY <1>4, <2>1, <2>2, <2>3, <2>5, <2>6 DEF Lasts
<1>12. GoneInv'
  <2>1. \A b \in gone : b \in DOMAIN disk => disk[b].deleted
    BY DEF MetaInv, GoneInv
  <2>2. \A f \in DOMAIN file' : file'[f].blobid = f /\ f \in DOMAIN disk /\ ~disk[f].deleted
    BY <1>1, <1>2 DEF IsNew
  <2> QED
    BY <1>2, <2>1, <2>2 DEF GoneInv
<1> QED
  BY <1>3, <1>4, <1>5, <1>6, <1>7, <1>8, <1>9, <1>10, <1>11, <1>12 DEF MetaInv

\* A load that fails leaves nothing to be used.
LEMMA LoadFailsMeta ==
    ASSUME MetaInv, mode = "down", mode' = "failed",
           UNCHANGED <<files, file, mem, doomed, op, handle, persists, opens, disk, acked, gone, ub>>
    PROVE  MetaInv'
<1>1. DOMAIN file = {} /\ doomed = {}
  BY DEF MetaInv, ModeInv
<1>2. /\ \A c \in Clients : op'[c] = Idle /\ handle'[c] = NULL
      /\ persists' = <<>> /\ Unique /\ \A b \in Blobs : opens'[b] = 0
      /\ op' \in [Clients -> OpState]
  BY NotUp, Types
<1>3. /\ \A c \in Clients : OpInv(c)' /\ Concerns(c)' = {} /\ op'[c].pc = "idle"
      /\ ApartInv'
  BY <1>2, NoCalls
<1>4. Defined' /\ TypeOK' /\ NameInv' /\ PersistInv' /\ GoneInv'
  BY <1>2, NoWrites DEF MetaInv, Defined, TypeOK, NameInv, GoneInv
<1>5. BlobInv'
  BY <1>1, <1>2 DEF BlobInv
<1>6. ModeInv'
  BY <1>1, <1>2, <1>3 DEF ModeInv, Unique
<1>7. AckInv'
  BY <1>3 DEF MetaInv, AckInv, Lasts
<1> QED
  BY <1>1, <1>2, <1>3, <1>4, <1>5, <1>6, <1>7 DEF MetaInv

\* spdk_fs_load.
LEMMA LoadMeta ==
    ASSUME MetaInv, Load
    PROVE  MetaInv'
<1>1. mode = "down"
  BY DEF Load
<1>2. CASE \E b \in DOMAIN disk : disk[b].name = NULL
  <2>1. /\ mode' = "failed"
        /\ UNCHANGED <<files, file, mem, doomed, op, handle, persists, opens, disk, acked, gone, ub>>
    BY <1>2 DEF Load, nameVars, userVars, ghostVars
  <2> QED
    BY <1>1, <2>1, LoadFailsMeta
<1>3. CASE ~(\E b \in DOMAIN disk : disk[b].name = NULL)
  <2>1. PICK live : live = {b \in DOMAIN disk : ~IsMarked(b)}
    OBVIOUS
  <2>2. Loaded(live)
    BY <1>3, <2>1 DEF Load, Loaded, IsMarked, userVars, ghostVars
  <2> QED
    BY <1>1, <2>2, LoadedMeta
<1> QED
  BY <1>2, <1>3

\* _handle_deleted_files.
LEMMA LoadDeleteMeta ==
    ASSUME MetaInv, LoadDelete
    PROVE  MetaInv'
<1>1. PICK x : x = Min(doomed)
  OBVIOUS
<1>2. /\ mode = "loading" /\ disk' = Restrict(disk, DOMAIN disk \ {x}) /\ doomed' = doomed \ {x}
      /\ mode' = IF doomed' = {} THEN "ready" ELSE "loading"
      /\ UNCHANGED <<files, file, op, handle, persists, opens, mem, acked, gone, ub>>
  BY <1>1 DEF LoadDelete, nameVars, userVars, blobVars, ghostVars
<1>3. /\ doomed # {} /\ doomed \subseteq Blobs /\ \A b \in doomed : b \in DOMAIN disk /\ disk[b].deleted
      /\ \A f \in DOMAIN file : file[f].blobid \notin doomed
  BY <1>2 DEF MetaInv, ModeInv, TypeOK
<1>4. x \in doomed
  <2>1. doomed \subseteq Nat
    BY <1>3, MetaAssumption
  <2> QED
    BY <1>1, <1>3, <2>1, MinIsLeast
<1>5. DOMAIN disk' = DOMAIN disk \ {x} /\ \A a \in DOMAIN disk' : disk'[a] = disk[a]
  BY <1>2 DEF Restrict
<1>6. /\ \A c \in Clients : op[c] = Idle /\ handle[c] = NULL
      /\ persists = <<>> /\ Unique /\ (\A b \in Blobs : opens[b] = 0)
      /\ op' \in [Clients -> OpState]
  BY <1>2, NotUp, Types
<1>7. /\ \A c \in Clients : OpInv(c)' /\ Concerns(c)' = {} /\ op'[c].pc = "idle" /\ op'[c].b = NULL
      /\ ApartInv' /\ \A b \in Blobs : \A pcs : ~With(b, pcs)'
  BY <1>2, <1>6, NoCalls
<1>8. Defined' /\ NameInv' /\ PersistInv'
  BY <1>2, <1>6, NoWrites DEF MetaInv, Defined, NameInv
<1>9. TypeOK'
  <2>1. DOMAIN disk' \subseteq Blobs /\ (\A b \in DOMAIN disk' : disk'[b] \in Xattrs) /\ doomed' \subseteq Blobs
        /\ mode' \in {"ready", "loading"}
    BY <1>2, <1>3, <1>5, Types
  <2> QED
    BY <1>2, <2>1 DEF MetaInv, TypeOK
<1>10. ASSUME NEW f \in DOMAIN file' PROVE FileInv(f)'
  <2>1. f \in DOMAIN file /\ file'[f] = file[f] /\ FileInv(f) /\ file[f].blobid # x
    BY <1>2, <1>3, <1>4, FileFacts
  <2>b. PICK b : b = file[f].blobid
    OBVIOUS
  <2>2. b # NULL => b \in DOMAIN disk' /\ disk'[b] = disk[b]
    BY <1>5, <2>1, <2>b DEF FileInv
  <2>3. \A pcs : With(b, pcs)' <=> With(b, pcs)
    BY <1>2 DEF With
  <2>4. \A c \in Clients : Subject(c)' = Subject(c)
    BY <1>2 DEF Subject, Target
  <2> QED
    BY <1>2, <2>1, <2>b, <2>2, <2>3, <2>4 DEF FileInv
<1>11. BlobInv'
  <2>1. ASSUME NEW b \in Blobs, \A f \in DOMAIN file' : file'[f].blobid # b
        PROVE  opens'[b] = 0 /\ (b \in DOMAIN disk' => b \in doomed')
    <3>1. b \in DOMAIN disk => b \in doomed \/ With(b, {"delete_blob"})
      BY <1>2, <2>1 DEF MetaInv, BlobInv
    <3>2. ~With(b, {"delete_blob"})
      BY <1>6, IdleType DEF With
    <3> QED
      BY <1>2, <1>5, <1>6, <3>1, <3>2
  <2>2. \A f, g \in DOMAIN file' : file'[f].blobid = file'[g].blobid /\ file'[f].blobid # NULL => f = g
    BY <1>2 DEF MetaInv, BlobInv
  <2> QED
    BY <2>1, <2>2 DEF BlobInv
<1>12. ModeInv'
  <2>1. Unique'
    BY <1>5, <1>6 DEF Unique
  <2>2. /\ \A b \in doomed' : b \in DOMAIN disk' /\ disk'[b].deleted
        /\ \A f \in DOMAIN file' : file'[f].blobid \notin doomed'
    BY <1>2, <1>3, <1>5
  <2>3. /\ mode' # "loading" => doomed' = {}
        /\ mode' = "loading" => doomed' # {}
        /\ mode' \in {"ready", "loading"}
    BY <1>2
  <2> QED
    BY <1>2, <1>6, <1>7, <2>1, <2>2, <2>3 DEF ModeInv
<1>13. AckInv'
  <2> SUFFICES ASSUME NEW n \in DOMAIN acked' PROVE Lasts(n)'
    BY DEF AckInv
  <2>1. n \in DOMAIN acked /\ Lasts(n) /\ acked' = acked
    BY <1>2 DEF MetaInv, AckInv
  <2>2. PICK b : b = acked[n]
    OBVIOUS
  <2>3. /\ n \in Names /\ b \in DOMAIN disk /\ disk[b] = [name |-> n, deleted |-> FALSE]
        /\ n \in DOMAIN files /\ file[files[n]].blobid = b /\ ~file[files[n]].is_deleted
    BY <1>2, <2>1, <2>2 DEF Lasts
  <2>4. b # x
    BY <1>3, <1>4, <2>3, Types
  <2> QED
    BY <1>2, <1>5, <1>7, <2>1, <2>2, <2>3, <2>4 DEF Lasts
<1>14. GoneInv'
  BY <1>2, <1>5 DEF MetaInv, GoneInv
<1> QED
  BY <1>6, <1>7, <1>8, <1>9, <1>10, <1>11, <1>12, <1>13, <1>14 DEF MetaInv

-----------------------------------------------------------------------------
(* The invariant, and what follows from it.                                  *)

LEMMA InitMeta ==
    ASSUME Init
    PROVE  MetaInv
<1> USE DEF Init
<1>1. DOMAIN files = {} /\ DOMAIN file = {} /\ DOMAIN disk = {} /\ DOMAIN acked = {}
  OBVIOUS
<1>2. op \in [Clients -> OpState] /\ (\A c \in Clients : op[c] = Idle /\ handle[c] = NULL)
  BY IdleType
<1>3. ASSUME NEW c \in Clients PROVE OpInv(c) /\ Concerns(c) = {}
  <2>1. op[c] = Idle
    BY <1>2
  <2> QED
    BY <2>1, IdleType DEF OpInv, Concerns, Waiting, Creating, Renaming
<1>4. ApartInv
  BY <1>2, <1>3, IdleType DEF ApartInv
<1>5. TypeOK
  <2>1. NoXattrs \in Xattrs
    BY DEF NoXattrs, Xattrs
  <2>2. /\ handle \in [Clients -> Files \cup {NULL}] /\ opens \in [Blobs -> Nat]
        /\ mem \in [Blobs -> Xattrs]
    BY <2>1
  <2> QED
    BY <1>1, <2>2 DEF TypeOK
<1>6. NameInv
  BY <1>1, <1>2, FS_EmptySet DEF NameInv
<1>7. BlobInv
  BY <1>1 DEF BlobInv
<1>8. PersistInv
  <2>1. persists \in Seq(WriteState) /\ DOMAIN persists = {}
    OBVIOUS
  <2> QED
    BY <2>1 DEF PersistInv
<1>9. ModeInv /\ AckInv /\ GoneInv /\ Defined
  BY <1>1 DEF ModeInv, AckInv, GoneInv, Defined
<1> QED
  BY <1>1, <1>2, <1>3, <1>4, <1>5, <1>6, <1>7, <1>8, <1>9 DEF MetaInv

LEMMA StutterMeta ==
    ASSUME MetaInv, UNCHANGED vars
    PROVE  MetaInv'
<1> USE DEF vars, nameVars, userVars, blobVars, ghostVars
<1>1. Defined' /\ TypeOK' /\ NameInv' /\ op' \in [Clients -> OpState]
  BY DEF MetaInv, Defined, TypeOK, NameInv
<1>2. ApartInv'
  BY DEF MetaInv, ApartInv, Concerns
<1>3. ASSUME NEW c \in Clients PROVE OpInv(c)'
  <2>1. OpInv(c) /\ Target(c)' = Target(c) /\ Subject(c)' = Subject(c)
    BY DEF MetaInv, Target, Subject
  <2>2. op' = op /\ files' = files /\ file' = file /\ handle' = handle /\ disk' = disk
    OBVIOUS
  <2> QED
    BY <2>1, <2>2 DEF OpInv, IsNew
<1>4. ASSUME NEW f \in DOMAIN file' PROVE FileInv(f)'
  <2>1. FileInv(f) /\ \A c \in Clients : Subject(c)' = Subject(c)
    BY DEF MetaInv, Target, Subject
  <2>2. /\ op' = op /\ file' = file /\ handle' = handle
        /\ disk' = disk /\ mem' = mem /\ opens' = opens
    OBVIOUS
  <2> QED
    BY <2>1, <2>2 DEF FileInv, With
<1>5. BlobInv' /\ PersistInv'
  BY DEF MetaInv, BlobInv, PersistInv, With
<1>6. ModeInv'
  BY DEF MetaInv, ModeInv, Unique
<1>7. AckInv' /\ GoneInv'
  BY DEF MetaInv, AckInv, Lasts, GoneInv, Concerns
<1> QED
  BY <1>1, <1>2, <1>3, <1>4, <1>5, <1>6, <1>7 DEF MetaInv

\* Every step keeps the invariant.
LEMMA CallbackMeta ==
    ASSUME Orderly, MetaInv, NEW c \in Clients, Callback(c)
    PROVE  MetaInv'
<1>1. CASE BlobCreated(c)
  BY <1>1, BlobCreatedMeta
<1>2. CASE CreateOpened(c)
  BY <1>2, CreateOpenedMeta
<1>3. CASE CreateResized(c)
  BY <1>3, CreateResizedMeta
<1>4. CASE CreateClosed(c)
  BY <1>4, CreateClosedMeta
<1>5. CASE OpenDone(c)
  BY <1>5, OpenDoneMeta
<1>6. CASE RenameOpened(c)
  BY <1>6, RenameOpenedMeta
<1>7. CASE RenameClosed(c)
  BY <1>7, RenameClosedMeta
<1>8. CASE Marked(c)
  BY <1>8, MarkedMeta
<1>9. CASE BlobDeleted(c)
  BY <1>9, BlobDeletedMeta
<1>10. CASE Closed(c)
  BY <1>10, ClosedMeta
<1> QED
  BY <1>1, <1>2, <1>3, <1>4, <1>5, <1>6, <1>7, <1>8, <1>9, <1>10 DEF Callback

LEMMA CallMeta ==
    ASSUME Orderly, MetaInv, NEW c \in Clients, Call(c)
    PROVE  MetaInv'
<1>1. ASSUME NEW n \in Names, Create(c, n) \/ OpenCreate(c, n)
      PROVE  MetaInv'
  BY <1>1, CreateMeta
<1>2. ASSUME NEW n \in Names, Open(c, n)
      PROVE  MetaInv'
  BY <1>2, OpenMeta
<1>3. ASSUME NEW n \in Names, Delete(c, n)
      PROVE  MetaInv'
  BY <1>3, DeleteMeta
<1>4. ASSUME NEW old \in Names, NEW new \in Names, Rename(c, old, new)
      PROVE  MetaInv'
  BY <1>4, RenameMeta
<1>5. CASE Close(c)
  BY <1>5, CloseMeta
<1> QED
  BY <1>1, <1>2, <1>3, <1>4, <1>5 DEF Call

LEMMA NextMeta ==
    ASSUME Orderly, MetaInv, Next
    PROVE  MetaInv'
<1>1. CASE \E c \in Clients : Call(c) \/ Callback(c)
  BY <1>1, CallMeta, CallbackMeta
<1>2. CASE Crash \/ Unload
  BY <1>2, ForgetMeta DEF Crash, Unload
<1>3. CASE Load
  BY <1>3, LoadMeta
<1>4. CASE LoadDelete
  BY <1>4, LoadDeleteMeta
<1> QED
  BY <1>1, <1>2, <1>3, <1>4 DEF Next

LEMMA ListingNextMeta ==
    ASSUME Orderly, MetaInv, [ListingNext]_listVars
    PROVE  MetaInv'
<1>1. CASE Others
  BY <1>1, NextMeta DEF Others, Next
<1>2. CASE \E c \in Clients : ListBegin(c) \/ ListWalk(c)
  BY <1>2, ListWalkMeta, StutterMeta
<1>3. CASE \E c \in Clients : ListArrive(c)
  BY <1>3, ListArriveMeta
<1>4. CASE UNCHANGED listVars
  BY <1>4, StutterMeta DEF listVars
<1> QED
  BY <1>1, <1>2, <1>3, <1>4 DEF ListingNext

\* The inductive invariant holds in every state of the file system, with and
\* without listings.
THEOREM MetaInductive ==
    ASSUME Orderly
    PROVE  (Spec => []MetaInv) /\ (ListingSpec => []MetaInv)
<1>1. Spec => []MetaInv
  <2>1. Init => MetaInv
    BY InitMeta
  <2>2. MetaInv /\ [Next]_vars => MetaInv'
    BY NextMeta, StutterMeta
  <2> QED
    BY <2>1, <2>2, PTL DEF Spec
<1>2. ListingSpec => []MetaInv
  <2>1. ListingInit => MetaInv
    BY InitMeta DEF ListingInit
  <2>2. MetaInv /\ [ListingNext]_listVars => MetaInv'
    BY ListingNextMeta
  <2> QED
    BY <2>1, <2>2, PTL DEF ListingSpec
<1> QED
  BY <1>1, <1>2

\* Type correctness of the files, the calls and the blobs.
THEOREM MetaTypeCorrect ==
    ASSUME Orderly
    PROVE  ListingSpec => []TypeOK
<1>1. MetaInv => TypeOK
  BY DEF MetaInv
<1>2. ListingSpec => []MetaInv
  BY MetaInductive
<1> QED
  BY <1>1, <1>2, PTL

\* No callback and no turn of a listing uses a file that was freed meanwhile or a
\* blob that is not open.
THEOREM MetaStaysDefined ==
    ASSUME Orderly
    PROVE  ListingSpec => []Defined
<1>1. MetaInv => Defined
  BY DEF MetaInv
<1>2. ListingSpec => []MetaInv
  BY MetaInductive
<1> QED
  BY <1>1, <1>2, PTL

\* A create or a rename that returned lasts, whatever crashes, until the next call
\* that takes the name away.
THEOREM ReturnedLasts ==
    ASSUME Orderly
    PROVE  ListingSpec => []Served
<1>1. MetaInv => Served
  BY DEF MetaInv, AckInv, Lasts, Served
<1>2. ListingSpec => []MetaInv
  BY MetaInductive
<1> QED
  BY <1>1, <1>2, PTL

\* A delete that returned lasts: no crash and load brings the file back.
THEOREM DeletedStaysDeleted ==
    ASSUME Orderly
    PROVE  ListingSpec => []NotResurrected
<1>1. MetaInv => NotResurrected
  BY DEF MetaInv, GoneInv, NameInv, NotResurrected
<1>2. ListingSpec => []MetaInv
  BY MetaInductive
<1> QED
  BY <1>1, <1>2, PTL

\* The blob of a call that holds it open.
LEMMA HoldersOne ==
    ASSUME MetaInv, NEW b \in Blobs
    PROVE  Cardinality({c \in Clients : op[c].b = b /\ op[c].pc \in Holding})
             = IF With(b, Holding) THEN 1 ELSE 0
<1>1. PICK T : T = {c \in Clients : op[c].b = b /\ op[c].pc \in Holding}
  OBVIOUS
<1>2. CASE With(b, Holding)
  <2>1. PICK c \in Clients : op[c].b = b /\ op[c].pc \in Holding
    BY <1>2 DEF With
  <2>2. \A d \in Clients : op[d].b = b => d = c
    BY <2>1, MetaAssumption DEF MetaInv, ApartInv
  <2>3. T = {c}
    BY <1>1, <2>1, <2>2
  <2>4. Cardinality(T) = 1
    BY <2>3, FS_Singleton
  <2> QED
    BY <1>1, <1>2, <2>4
<1>3. CASE ~With(b, Holding)
  <2>1. T = {}
    BY <1>1, <1>3 DEF With
  <2>2. Cardinality(T) = 0
    BY <2>1, FS_EmptySet
  <2> QED
    BY <1>1, <1>3, <2>2
<1> QED
  BY <1>2, <1>3

LEMMA OpenersOne ==
    ASSUME MetaInv, NEW f \in DOMAIN file, NEW b \in Blobs, file[f].blobid = b
    PROVE  Cardinality({g \in DOMAIN file : file[g].blobid = b /\ file[g].blob})
             = IF file[f].blob THEN 1 ELSE 0
<1>1. PICK T : T = {g \in DOMAIN file : file[g].blobid = b /\ file[g].blob}
  OBVIOUS
<1>2. \A g \in DOMAIN file : file[g].blobid = b => g = f
  BY FileFacts, Types
<1>3. CASE file[f].blob
  <2>1. T = {f}
    BY <1>1, <1>2, <1>3
  <2>2. Cardinality(T) = 1
    BY <2>1, FS_Singleton
  <2> QED
    BY <1>1, <1>3, <2>2
<1>4. CASE ~file[f].blob
  <2>1. T = {}
    BY <1>1, <1>2, <1>4
  <2>2. Cardinality(T) = 0
    BY <2>1, FS_EmptySet
  <2> QED
    BY <1>1, <1>4, <2>2
<1> QED
  BY <1>3, <1>4

LEMMA CountsFollow ==
    ASSUME MetaInv
    PROVE  RefCounts
<1>1. ASSUME NEW f \in DOMAIN file
      PROVE  /\ file[f].ref_count = Cardinality({c \in Clients : handle[c] = f})
                                      + Cardinality(file[f].open_requests)
             /\ file[f].blob <=> \E c \in Clients : handle[c] = f
  BY FileFacts DEF FileInv
<1>2. ASSUME NEW b \in Blobs
      PROVE  opens[b] = Cardinality({f \in DOMAIN file : file[f].blobid = b /\ file[f].blob})
                          + Cardinality({c \in Clients : op[c].b = b /\ op[c].pc \in Holding})
  <2>1. PICK k, m : /\ k = Cardinality({f \in DOMAIN file : file[f].blobid = b /\ file[f].blob})
                    /\ m = Cardinality({c \in Clients : op[c].b = b /\ op[c].pc \in Holding})
    OBVIOUS
  <2>2. m = IF With(b, Holding) THEN 1 ELSE 0
    BY <2>1, HoldersOne
  <2>3. CASE \E f \in DOMAIN file : file[f].blobid = b
    <3>1. PICK f \in DOMAIN file : file[f].blobid = b
      BY <2>3
    <3>2. k = IF file[f].blob THEN 1 ELSE 0
      BY <2>1, <3>1, OpenersOne
    <3>3. opens[b] = (IF file[f].blob THEN 1 ELSE 0) + (IF With(b, Holding) THEN 1 ELSE 0)
      BY <3>1, FileFacts, Types DEF FileInv
    <3> QED
      BY <2>1, <2>2, <3>2, <3>3
  <2>4. CASE \A f \in DOMAIN file : file[f].blobid # b
    <3>1. opens[b] = 0
      BY <2>4 DEF MetaInv, BlobInv
    <3>2. ~With(b, Holding)
      <4> SUFFICES ASSUME NEW c \in Clients, op[c].b = b, op[c].pc \in Holding PROVE FALSE
        BY DEF With
      <4>1. op[c].pc \notin Waiting \cup {"idle", "delete_blob", "list", "create_blob"}
        BY DEF Holding, Waiting
      <4>2. Subject(c) \in DOMAIN file /\ file[Subject(c)].blobid = b
        BY <4>1, BlobFacts
      <4> QED
        BY <2>4, <4>2
    <3>3. k = 0
      <4>1. {f \in DOMAIN file : file[f].blobid = b /\ file[f].blob} = {}
        BY <2>4
      <4> QED
        BY <2>1, <4>1, FS_EmptySet
    <3>4. m = 0
      BY <2>2, <3>2
    <3> QED
      BY <2>1, <3>1, <3>3, <3>4
  <2> QED
    BY <2>3, <2>4
<1> QED
  BY <1>1, <1>2 DEF RefCounts, Holding

\* ref_count counts the handles and the waiting opens of a file, and open_ref of a
\* blob the file that has it open and the calls that do.
THEOREM CountsAreRight ==
    ASSUME Orderly
    PROVE  ListingSpec => []RefCounts
<1>1. MetaInv => RefCounts
  BY CountsFollow
<1>2. ListingSpec => []MetaInv
  BY MetaInductive
<1> QED
  BY <1>1, <1>2, PTL

LEMMA AgreementFollows ==
    ASSUME MetaInv
    PROVE  Agreement
<1> SUFFICES ASSUME mode = "ready", \A c \in Clients : op[c].pc = "idle"
             PROVE  /\ DOMAIN file = {files[n] : n \in DOMAIN files}
                    /\ DOMAIN disk = {file[f].blobid : f \in DOMAIN file}
                    /\ \A n \in DOMAIN files :
                         /\ file[files[n]].name = n
                         /\ file[files[n]].is_deleted => file[files[n]].ref_count > 0
  BY DEF Agreement
<1>1. \A b \in Blobs : \A pcs : "idle" \notin pcs => ~With(b, pcs)
  BY DEF With
<1>2. DOMAIN file = {files[n] : n \in DOMAIN files} /\ \A n \in DOMAIN files : file[files[n]].name = n
  BY DEF MetaInv, NameInv
<1>3. ASSUME NEW f \in DOMAIN file
      PROVE  /\ file[f].blobid \in DOMAIN disk
             /\ file[f].is_deleted => file[f].ref_count > 0
  <2>1. FileInv(f) /\ file[f].blobid # NULL
    BY FileFacts DEF FileInv
  <2>2. file[f].blobid \in DOMAIN disk /\ file[f].blobid \in Blobs
    BY <2>1, Types DEF FileInv
  <2>3. ~With(file[f].blobid, {"closing"})
    BY <1>1, <2>2
  <2> QED
    BY <2>1, <2>2, <2>3 DEF FileInv
<1>4. ASSUME NEW b \in DOMAIN disk PROVE \E f \in DOMAIN file : file[f].blobid = b
  <2>1. doomed = {} /\ b \in Blobs /\ ~With(b, {"delete_blob"})
    BY <1>1, Types DEF MetaInv, ModeInv
  <2> QED
    BY <2>1 DEF MetaInv, BlobInv
<1>5. DOMAIN disk = {file[f].blobid : f \in DOMAIN file}
  BY <1>3, <1>4
<1>6. \A n \in DOMAIN files : file[files[n]].is_deleted => file[files[n]].ref_count > 0
  BY <1>3, Types
<1> QED
  BY <1>2, <1>5, <1>6

\* When no call is running, the index, the files and the blobs on the device agree.
THEOREM IndexAgrees ==
    ASSUME Orderly
    PROVE  ListingSpec => []Agreement
<1>1. MetaInv => Agreement
  BY AgreementFollows
<1>2. ListingSpec => []MetaInv
  BY MetaInductive
<1> QED
  BY <1>1, <1>2, PTL

-----------------------------------------------------------------------------
(* A listing is complete.                                                    *)

\* No step but those of the listing moves it.
Unlisted == \A e \in Clients : op[e].pc = "list" \/ op'[e].pc = "list" => op'[e] = op[e]

LEMMA OneKeeps ==
    ASSUME MetaInv, NEW d \in Clients, NEW r, op' = [op EXCEPT ![d] = r],
           op[d].pc # "list", r.pc # "list"
    PROVE  Unlisted
BY Types DEF Unlisted

LEMMA AllKeep ==
    ASSUME op' = op
    PROVE  Unlisted
BY DEF Unlisted

LEMMA OpenOverKeeps ==
    ASSUME MetaInv, NEW d \in Clients, NEW f \in DOMAIN file, NEW g, NEW ok, OpenOver(d, f, g, ok),
           op[d].pc # "list", g.open_requests \subseteq file[f].open_requests \cup {d}
    PROVE  Unlisted
<1>1. FileInv(f) /\ file[f].open_requests \subseteq Clients
  BY FileFacts DEF FileState
<1>2. \A e \in g.open_requests : op[e].pc # "list"
  BY <1>1 DEF FileInv, Waiting
<1>3. op' = [e \in Clients |-> IF e \in g.open_requests THEN Idle ELSE op[e]]
  BY DEF OpenOver, Answered
<1> QED
  BY <1>2, <1>3, IdleType DEF Unlisted

LEMMA OpenCbKeeps ==
    ASSUME MetaInv, NEW d \in Clients, NEW n, NEW o, OpenCb(d, n, o), op[d].pc # "list"
    PROVE  Unlisted
<1>1. PICK f : f = Find(n)
  OBVIOUS
<1>g. PICK g : g = Opened(f, d)
  OBVIOUS
<1>2. CASE f = NULL
  BY <1>1, <1>2, AllKeep DEF OpenCb, userVars
<1>3. CASE f # NULL
  <2>1. f \in DOMAIN file
    BY <1>1, <1>3, Types DEF Find
  <2>2. g.open_requests = file[f].open_requests \cup {d}
    BY <1>g, <2>1, FileFacts DEF Opened, FileState
  <2>3. \/ \E ok \in BOOLEAN : OpenOver(d, f, g, ok)
        \/ op' = [op EXCEPT ![d] = [Idle EXCEPT !.pc = "opening", !.name = n, !.f = f, !.b = file[f].blobid]]
        \/ op' = [op EXCEPT ![d] = [Idle EXCEPT !.pc = "open_wait", !.name = n, !.f = f]]
    BY <1>1, <1>g, <1>3 DEF OpenCb
  <2>4. /\ [Idle EXCEPT !.pc = "opening", !.name = n, !.f = f, !.b = file[f].blobid].pc # "list"
        /\ [Idle EXCEPT !.pc = "open_wait", !.name = n, !.f = f].pc # "list"
    BY DEF Idle
  <2> QED
    BY <2>1, <2>2, <2>3, <2>4, OpenOverKeeps, OneKeeps
<1> QED
  BY <1>2, <1>3

LEMMA CreateOverKeeps ==
    ASSUME MetaInv, NEW d \in Clients, NEW o, CreateOver(d, o), op[d].pc # "list"
    PROVE  Unlisted
<1>1. CASE op[d].then = "open"
  BY <1>1, OpenCbKeeps DEF CreateOver
<1>2. CASE op[d].then # "open"
  <2>1. op' = [op EXCEPT ![d] = Idle]
    BY <1>2 DEF CreateOver
  <2> QED
    BY <2>1, OneKeeps, IdleType
<1> QED
  BY <1>1, <1>2

LEMMA PcOf ==
    ASSUME NEW q \in OpState, NEW p, NEW b, p # "list"
    PROVE  [q EXCEPT !.pc = p, !.b = b].pc # "list" /\ [q EXCEPT !.pc = p].pc # "list"
BY DEF OpState

LEMMA DeleteAsyncKeeps ==
    ASSUME MetaInv, NEW d \in Clients, NEW n, NEW q \in OpState, NEW w, NEW o,
           DeleteAsync(d, n, q, w, o), op[d].pc # "list"
    PROVE  Unlisted
<1>1. PICK b : b = file[Find(n)].blobid
  OBVIOUS
<1>2. \/ op' = op \/ op' = [op EXCEPT ![d] = Idle]
      \/ op' = [op EXCEPT ![d] = [q EXCEPT !.pc = "delete_blob", !.b = b]]
      \/ op' = [op EXCEPT ![d] = [q EXCEPT !.pc = "mark", !.b = b]]
  BY <1>1 DEF DeleteAsync
<1>3. /\ [q EXCEPT !.pc = "delete_blob", !.b = b].pc # "list"
      /\ [q EXCEPT !.pc = "mark", !.b = b].pc # "list" /\ Idle.pc # "list"
  BY PcOf, IdleType
<1> QED
  BY <1>2, <1>3, AllKeep, OneKeeps

LEMMA MdRenameKeeps ==
    ASSUME MetaInv, NEW d \in Clients, NEW q \in OpState, NEW w, MdRename(d, q, w), op[d].pc # "list"
    PROVE  Unlisted
<1>1. PICK b : b = file[Find(q.name)].blobid
  OBVIOUS
<1>2. \/ op' = op \/ op' = [op EXCEPT ![d] = Idle]
      \/ op' = [op EXCEPT ![d] = [q EXCEPT !.pc = "rename_open", !.b = b]]
      \/ op' = [op EXCEPT ![d] = [q EXCEPT !.pc = "rename_close", !.b = b]]
  BY <1>1 DEF MdRename, RenameBlob
<1>3. /\ [q EXCEPT !.pc = "rename_open", !.b = b].pc # "list"
      /\ [q EXCEPT !.pc = "rename_close", !.b = b].pc # "list" /\ Idle.pc # "list"
  BY PcOf, IdleType
<1> QED
  BY <1>2, <1>3, AllKeep, OneKeeps

LEMMA CallKeeps ==
    ASSUME MetaInv, NEW d \in Clients, Call(d)
    PROVE  Unlisted
<1>1. ASSUME NEW n \in Names, NEW t, CreateAsync(d, n, t), op[d].pc = "idle"
      PROVE  Unlisted
  <2>1. PICK r : r = [Idle EXCEPT !.pc = "create_blob", !.name = n, !.f = FreshFile,
                        !.b = Min(Blobs \ (DOMAIN disk \cup {op[e].b : e \in Clients})), !.then = t]
    OBVIOUS
  <2>2. op' = [op EXCEPT ![d] = r]
    BY <1>1, <2>1 DEF CreateAsync
  <2>3. r.pc # "list"
    BY <2>1 DEF Idle
  <2> QED
    BY <1>1, <2>2, <2>3, OneKeeps
<1>2. ASSUME NEW n \in Names, Create(d, n) \/ OpenCreate(d, n) PROVE Unlisted
  BY <1>1, <1>2 DEF Create, OpenCreate, Begin
<1>3. ASSUME NEW n \in Names, Open(d, n) PROVE Unlisted
  BY <1>3, OpenCbKeeps DEF Open
<1>4. ASSUME NEW n \in Names, Delete(d, n) PROVE Unlisted
  <2>1. [Idle EXCEPT !.name = n] \in OpState
    BY <1>4 DEF Idle, OpState, Calls
  <2> QED
    BY <1>4, <2>1, DeleteAsyncKeeps DEF Delete, Begin
<1>5. ASSUME NEW old \in Names, NEW new \in Names, Rename(d, old, new) PROVE Unlisted
  <2>q. PICK q : q = [Idle EXCEPT !.name = old, !.new = new, !.then = "rename"]
    OBVIOUS
  <2>1. IsCall(q, "idle", old, new, NULL, NULL, "rename")
    BY <2>q, RenameRec
  <2>2. q \in OpState /\ op[d].pc = "idle"
    BY <1>5, <2>1 DEF IsCall, Rename, Begin
  <2>3. MdRename(d, q, persists) \/ DeleteAsync(d, new, q, persists, opens)
    BY <1>5, <2>q DEF Rename
  <2> QED
    BY <2>2, <2>3, MdRenameKeeps, DeleteAsyncKeeps
<1>6. CASE Close(d)
  <2>1. PICK f : f = handle[d]
    OBVIOUS
  <2>r. PICK r : r = [Idle EXCEPT !.pc = "closing", !.f = f, !.name = file[f].name, !.b = file[f].blobid]
    OBVIOUS
  <2>2. op[d].pc = "idle" /\ (op' = op \/ op' = [op EXCEPT ![d] = r])
    BY <1>6, <2>1, <2>r DEF Close, Begin, Undefined, userVars
  <2>3. r.pc # "list"
    BY <2>r DEF Idle
  <2> QED
    BY <2>2, <2>3, AllKeep, OneKeeps
<1> QED
  BY <1>2, <1>3, <1>4, <1>5, <1>6 DEF Call

LEMMA CallbackKeeps ==
    ASSUME MetaInv, NEW d \in Clients, Callback(d)
    PROVE  Unlisted
<1>0. op[d] \in OpState /\ Idle.pc # "list"
  BY Types, IdleType
<1>1. ASSUME NEW p, p # "list", op' = [op EXCEPT ![d].pc = p], op[d].pc # "list" PROVE Unlisted
  <2>1. op' = [op EXCEPT ![d] = [op[d] EXCEPT !.pc = p]]
    BY <1>1
  <2> QED
    <3>1. [op[d] EXCEPT !.pc = p].pc # "list"
      BY <1>0, <1>1, PcOf
    <3> QED
      BY <1>1, <2>1, <3>1, OneKeeps
<1>2. CASE BlobCreated(d)
  <2>1. op[d].pc # "list"
    BY <1>2 DEF BlobCreated
  <2>2. CreateOver(d, opens) \/ op' = [op EXCEPT ![d].pc = "create_open"] \/ op' = op
    BY <1>2 DEF BlobCreated, userVars
  <2> QED
    BY <1>1, <2>1, <2>2, CreateOverKeeps, AllKeep
<1>3. CASE CreateOpened(d)
  <2>1. op[d].pc # "list"
    BY <1>3 DEF CreateOpened
  <2>2. CreateOver(d, opens) \/ op' = [op EXCEPT ![d].pc = "create_resize"]
    BY <1>3 DEF CreateOpened
  <2> QED
    BY <1>1, <2>1, <2>2, CreateOverKeeps
<1>4. CASE CreateResized(d)
  <2>1. op[d].pc # "list"
    BY <1>4 DEF CreateResized
  <2>2. op' = [op EXCEPT ![d].pc = "create_close"] \/ op' = op
    BY <1>4 DEF CreateResized, Undefined, userVars
  <2> QED
    BY <1>1, <2>1, <2>2, AllKeep
<1>5. CASE CreateClosed(d)
  BY <1>5, CreateOverKeeps DEF CreateClosed
<1>6. CASE OpenDone(d)
  <2>1. op[d].pc # "list"
    BY <1>6 DEF OpenDone
  <2>2. CASE op[d].f \in DOMAIN file
    BY <1>6, <2>1, <2>2, OpenOverKeeps DEF OpenDone
  <2>3. CASE op[d].f \notin DOMAIN file
    BY <1>6, <2>3, AllKeep DEF OpenDone, Undefined, userVars
  <2> QED
    BY <2>2, <2>3
<1>7. CASE RenameOpened(d)
  <2>1. op[d].pc # "list"
    BY <1>7 DEF RenameOpened
  <2>r. PICK r : r = [op[d] EXCEPT !.pc = "rename_close", !.b = op[d].b]
    OBVIOUS
  <2>2. op' = [op EXCEPT ![d] = r] \/ op' = op
    BY <1>7, <2>r DEF RenameOpened, RenameBlob, Undefined, userVars
  <2>3. r.pc # "list"
    BY <1>0, <2>r, PcOf
  <2> QED
    BY <2>1, <2>2, <2>3, OneKeeps, AllKeep
<1>8. CASE RenameClosed(d)
  BY <1>0, <1>8, OneKeeps DEF RenameClosed
<1>9. ASSUME NEW w, DeleteOver(d, w), op[d].pc # "list" PROVE Unlisted
  <2>1. CASE op[d].then = "rename"
    BY <1>0, <1>9, <2>1, MdRenameKeeps DEF DeleteOver
  <2>2. CASE op[d].then # "rename"
    BY <1>0, <1>9, <2>2, OneKeeps DEF DeleteOver
  <2> QED
    BY <2>1, <2>2
<1>10. CASE Marked(d)
  BY <1>9, <1>10 DEF Marked
<1>11. CASE BlobDeleted(d)
  BY <1>9, <1>11 DEF BlobDeleted
<1>12. CASE Closed(d)
  <2>1. op[d].pc # "list"
    BY <1>12 DEF Closed
  <2>2. CASE op[d].f \notin DOMAIN file
    BY <1>12, <2>2, AllKeep DEF Closed, userVars
  <2>3. CASE op[d].f \in DOMAIN file
    <3>1. PICK n, q, w, o : /\ n = file[op[d].f].name /\ q = [Idle EXCEPT !.name = n]
                            /\ w = Pending(d) /\ o = [opens EXCEPT ![op[d].b] = @ - 1]
      OBVIOUS
    <3>2. q \in OpState
      BY <2>3, <3>1, FileFacts DEF Idle, OpState, Calls, FileState
    <3>3. DeleteAsync(d, n, q, w, o) \/ op' = [op EXCEPT ![d] = Idle]
      BY <1>12, <2>3, <3>1 DEF Closed
    <3> QED
      BY <1>0, <2>1, <3>2, <3>3, DeleteAsyncKeeps, OneKeeps
  <2> QED
    BY <2>2, <2>3
<1> QED
  BY <1>2, <1>3, <1>4, <1>5, <1>6, <1>7, <1>8, <1>10, <1>11, <1>12 DEF Callback

LEMMA NextKeeps ==
    ASSUME MetaInv, Next, mode' # "down"
    PROVE  Unlisted
<1>1. CASE \E d \in Clients : Call(d) \/ Callback(d)
  BY <1>1, CallKeeps, CallbackKeeps
<1>2. CASE Load \/ LoadDelete
  BY <1>2, AllKeep DEF Load, LoadDelete, userVars
<1>3. CASE Crash \/ Unload
  BY <1>3 DEF Crash, Unload, Forget
<1> QED
  BY <1>1, <1>2, <1>3 DEF Next

\* What the listing has delivered when it has come to a name, as long as the tree did
\* not change under it: everything that was there all the time and is before that name.
ListInv ==
    /\ \A c, d \in Clients : op[c].pc = "list" /\ op[d].pc = "list" => c = d
    /\ \A c \in Clients : op[c].pc = "list" => walker \in {c, NULL}
    /\ steady \subseteq DOMAIN files
    /\ \A c \in Clients : op[c].pc = "list" /\ ~torn =>
         /\ \A m \in seen : m \in Names /\ m < op[c].name
         /\ \A m \in steady : m < op[c].name => m \in seen

LEMMA BesideKeeps ==
    ASSUME MetaInv, ListInv, Others, Beside
    PROVE  ListInv'
<1>0. Next
  BY DEF Others, Next
<1>1. CASE mode' = "down"
  <2>1. Forget
    <3>1. ASSUME NEW c \in Clients, Call(c) \/ Callback(c) PROVE FALSE
      <4>1. mode' = mode /\ mode = "ready"
        BY <3>1 DEF Call, Callback, Create, OpenCreate, CreateAsync, Open, Delete, Rename, Close, BlobCreated,
             CreateOpened, CreateResized, CreateClosed, OpenDone, RenameOpened, RenameClosed, Marked,
             BlobDeleted, Closed, Begin, Ready
      <4> QED
        BY <1>1, <4>1
    <3>2. ~Load /\ ~LoadDelete
      BY <1>1 DEF Load, LoadDelete
    <3> QED
      BY <1>0, <3>1, <3>2 DEF Next, Crash, Unload
  <2>2. \A c \in Clients : op'[c].pc = "idle"
    BY <2>1, IdleType DEF Forget
  <2> QED
    BY <2>2 DEF ListInv, Beside
<1>2. CASE mode' # "down"
  <2>1. Unlisted
    BY <1>0, <1>2, NextKeeps
  <2>2. /\ seen' = seen /\ walker' = walker /\ steady' = steady \cap DOMAIN files'
        /\ ~torn' => ~torn
    BY <1>2 DEF Beside
  <2>3. \A c \in Clients : op'[c].pc = "list" => op[c].pc = "list" /\ op'[c].name = op[c].name
    BY <2>1 DEF Unlisted
  <2> QED
    BY <2>2, <2>3 DEF ListInv
<1> QED
  BY <1>1, <1>2

\* The listing comes to name n: its record, and that the others stay.
LEMMA ListAtFacts ==
    ASSUME MetaInv, NEW c \in Clients, NEW n \in DOMAIN files, ListAt(c, n)
    PROVE  /\ op'[c].pc = "list" /\ op'[c].name = n
           /\ \A d \in Clients \ {c} : op'[d] = op[d]
<1>1. PICK r : r = [Idle EXCEPT !.pc = "list", !.name = n, !.f = files[n]]
  OBVIOUS
<1>2. op' = [op EXCEPT ![c] = r]
  BY <1>1 DEF ListAt
<1>3. r.pc = "list" /\ r.name = n
  BY <1>1 DEF Idle
<1> QED
  BY <1>2, <1>3, Types

\* The file that the listing has come to is still there, under its name.
LEMMA ListFile ==
    ASSUME MetaInv, NEW c \in Clients, op[c].pc = "list"
    PROVE  /\ op[c].f \in DOMAIN file /\ file[op[c].f].name = op[c].name
           /\ op[c].name \in DOMAIN files /\ files[op[c].name] = op[c].f
           /\ op[c].name \in Nat
           /\ Ahead(c) = {m \in DOMAIN files : op[c].name < m}
<1>1. op[c].f = Subject(c) /\ op[c].new = NULL
  BY DEF MetaInv, OpInv, Renaming
<1>2. Target(c) = op[c].name
  BY <1>1 DEF Target
<1>3. /\ op[c].f \in DOMAIN file /\ file[op[c].f].name = op[c].name
      /\ op[c].name \in DOMAIN files /\ files[op[c].name] = op[c].f
  BY <1>1, <1>2, OpFile DEF Subject
<1>4. op[c].name \in Nat
  BY <1>3, Types, ListAssumption
<1>5. \A m \in DOMAIN files : files[m] = op[c].f => m = op[c].name
  BY <1>3, FileFacts
<1> QED
  BY <1>3, <1>4, <1>5 DEF Ahead, Behind

\* Where a walk comes to that met no change: the first name ahead.
LEMMA WalkFinds ==
    ASSUME MetaInv, NEW c \in Clients, NEW n \in Arrivals(c), ~torn
    PROVE  n \in Ahead(c) /\ \A m \in Ahead(c) : n <= m
<1>1. Ahead(c) \subseteq Nat /\ Ahead(c) # {} /\ n = FirstOf(Ahead(c))
  BY Types, ListAssumption DEF Arrivals, Ahead, Behind
<1> QED
  BY <1>1, MinIsLeast DEF FirstOf

LEMMA ListArriveKeeps ==
    ASSUME MetaInv, ListInv, NEW c \in Clients, ListArrive(c)
    PROVE  ListInv'
<1>1. /\ op[c].pc \in {"idle", "list"} /\ walker = c /\ walker' = NULL /\ files' = files
      /\ \A d \in Clients \ {c} : op[d].pc # "list"
      /\ steady \subseteq DOMAIN files
      /\ DOMAIN files \subseteq Nat /\ DOMAIN files \subseteq Names
  <2>1. c # NULL
    BY MetaAssumption
  <2> QED
    BY <2>1, Types, ListAssumption DEF ListArrive, nameVars, ListInv
<1>2. \/ /\ \E n \in Arrivals(c) : ListAt(c, n)
         /\ seen' = IF op[c].pc = "list" THEN seen \cup {file[op[c].f].name} ELSE {}
         /\ UNCHANGED <<torn, steady>>
      \/ op' = [op EXCEPT ![c] = Idle] /\ steady' = {}
  BY ListFile DEF ListArrive
<1>3. CASE op' = [op EXCEPT ![c] = Idle] /\ steady' = {}
  <2>1. \A d \in Clients : op'[d].pc # "list"
    BY <1>1, <1>3, Types, IdleType
  <2> QED
    BY <1>3, <2>1 DEF ListInv
<1>4. ASSUME NEW n \in Arrivals(c), ListAt(c, n), UNCHANGED <<torn, steady>>,
             seen' = IF op[c].pc = "list" THEN seen \cup {file[op[c].f].name} ELSE {}
      PROVE  ListInv'
  <2>1. n \in DOMAIN files
    BY <1>4, ArrivalsIn
  <2>2. op'[c].pc = "list" /\ op'[c].name = n /\ \A d \in Clients \ {c} : op'[d] = op[d]
    BY <1>4, <2>1, ListAtFacts
  <2>3. ASSUME ~torn
        PROVE  /\ \A m \in seen' : m \in Names /\ m < n
               /\ \A m \in steady' : m < n => m \in seen'
    <3>1. n \in Ahead(c) /\ \A m \in Ahead(c) : n <= m
      BY <1>4, <2>3, WalkFinds
    <3>2. CASE op[c].pc = "idle"
      <4>1. Ahead(c) = DOMAIN files /\ seen' = {}
        BY <1>4, <3>2 DEF Ahead
      <4> QED
        BY <1>1, <1>4, <2>1, <3>1, <4>1
    <3>3. CASE op[c].pc = "list"
      <4>1. PICK k : k = op[c].name
        OBVIOUS
      <4>2. /\ k \in Nat /\ k \in DOMAIN files /\ seen' = seen \cup {k}
            /\ Ahead(c) = {m \in DOMAIN files : k < m}
        BY <1>4, <3>3, <4>1, ListFile
      <4>3. /\ \A m \in seen : m \in Names /\ m \in Nat /\ m < k
            /\ \A m \in steady : m < k => m \in seen
        BY <2>3, <3>3, <4>1, ListAssumption DEF ListInv
      <4>4. n \in Nat /\ k < n
        BY <1>1, <3>1, <4>2
      <4>5. \A m \in seen' : m \in Names /\ m < n
        BY <1>1, <4>2, <4>3, <4>4
      <4>6. \A m \in steady' : m < n => m \in seen'
        BY <1>1, <1>4, <3>1, <4>2, <4>3, <4>4
      <4> QED
        BY <4>5, <4>6
    <3> QED
      BY <1>1, <3>2, <3>3
  <2> QED
    BY <1>1, <1>4, <2>2, <2>3 DEF ListInv
<1> QED
  BY <1>2, <1>3, <1>4

LEMMA ListWalkKeeps ==
    ASSUME MetaInv, ListInv, NEW c \in Clients, ListBegin(c) \/ ListWalk(c)
    PROVE  ListInv'
<1>1. op' = op /\ files' = files
  BY ListWalkMeta DEF vars, nameVars, userVars
<1>2. CASE ListBegin(c)
  <2>1. steady' = DOMAIN files /\ \A d \in Clients : op[d].pc # "list"
    BY <1>2 DEF ListBegin
  <2> QED
    BY <1>1, <2>1 DEF ListInv
<1>3. CASE ListWalk(c)
  <2>1. op[c].pc = "list" /\ walker' \in {c, NULL} /\ UNCHANGED <<seen, torn, steady>>
    BY <1>3 DEF ListWalk
  <2> QED
    BY <1>1, <2>1 DEF ListInv
<1> QED
  BY <1>2, <1>3

LEMMA ListingKeeps ==
    ASSUME MetaInv, ListInv, [ListingNext]_listVars
    PROVE  ListInv'
<1>1. CASE Others /\ Beside
  BY <1>1, BesideKeeps
<1>2. CASE \E c \in Clients : ListBegin(c) \/ ListWalk(c) \/ ListArrive(c)
  BY <1>2, ListWalkKeeps, ListArriveKeeps
<1>3. CASE UNCHANGED listVars
  BY <1>3 DEF listVars, vars, nameVars, userVars, ListInv
<1> QED
  BY <1>1, <1>2, <1>3 DEF ListingNext

\* The step that ends a listing under whose walks the tree did not change.
LEMMA ListingEnds ==
    ASSUME MetaInv, ListInv, ListingNext, NEW c \in Clients, op[c].pc = "list", ~torn,
           op'[c].pc = "idle", mode' = "ready"
    PROVE  steady \subseteq seen \cup {file[op[c].f].name}
<1>1. CASE Others /\ Beside
  <2>1. Next
    BY <1>1 DEF Others, Next
  <2> QED
    BY <2>1, NextKeeps DEF Unlisted
<1>2. ASSUME NEW d \in Clients, ListBegin(d) \/ ListWalk(d) PROVE FALSE
  BY <1>2, ListWalkMeta DEF vars, userVars
<1>3. ASSUME NEW d \in Clients, ListArrive(d)
      PROVE  steady \subseteq seen \cup {file[op[c].f].name}
  <2>1. d = c
    BY <1>3, MetaAssumption DEF ListArrive, ListInv
  <2>2. PICK k : k = op[c].name
    OBVIOUS
  <2>3. /\ op[c].f \in DOMAIN file /\ file[op[c].f].name = k /\ k \in Nat
        /\ Ahead(c) = {m \in DOMAIN files : k < m} /\ DOMAIN files \subseteq Nat
    BY <2>2, ListFile, Types, ListAssumption
  <2>4. Ahead(c) = {}
    <3>1. \A n \in Arrivals(c) : ~ListAt(c, n)
      BY ArrivalsIn, ListAtFacts
    <3> QED
      BY <1>3, <2>1, <2>3, <3>1 DEF ListArrive, MayEnd
  <2>5. \A m \in steady : m \in DOMAIN files /\ (m < k => m \in seen)
    BY <2>2 DEF ListInv
  <2>6. \A m \in steady : m = k \/ m \in seen
    BY <2>3, <2>4, <2>5
  <2> QED
    BY <2>3, <2>6
<1> QED
  BY <1>1, <1>2, <1>3 DEF ListingNext

\* A listing under whose walks the metadata thread does not change the tree delivers
\* every name that was there from its beginning to its end, once, whatever is created,
\* renamed and deleted between the walks.
THEOREM ListingIsComplete ==
    ASSUME Orderly
    PROVE  ListingSpec => ListingComplete
<1>1. ListingInit => ListInv
  BY IdleType DEF ListingInit, Init, ListInv
<1>2. MetaInv /\ ListInv /\ [ListingNext]_listVars => ListInv'
  BY ListingKeeps
<1>3. MetaInv /\ ListInv /\ [ListingNext]_listVars =>
        [\A c \in Clients : op[c].pc = "list" /\ ~torn =>
           /\ op[c].name \notin seen
           /\ (op'[c].pc = "idle" /\ mode' = "ready") =>
                steady \subseteq seen \cup {file[op[c].f].name}]_listVars
  <2> SUFFICES ASSUME MetaInv, ListInv, ListingNext, NEW c \in Clients, op[c].pc = "list", ~torn
               PROVE  /\ op[c].name \notin seen
                      /\ (op'[c].pc = "idle" /\ mode' = "ready") =>
                           steady \subseteq seen \cup {file[op[c].f].name}
    OBVIOUS
  <2>1. op[c].name \notin seen
    <3>1. op[c].name \in Nat
      BY ListFile
    <3>2. \A m \in seen : m < op[c].name
      BY DEF ListInv
    <3> QED
      BY <3>1, <3>2
  <2> QED
    BY <2>1, ListingEnds
<1>4. ListingSpec => []MetaInv
  BY MetaInductive
<1> QED
  BY <1>1, <1>2, <1>3, <1>4, PTL DEF ListingSpec, ListingComplete
=============================================================================
