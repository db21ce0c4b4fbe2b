------------------------------ MODULE FileMeta ------------------------------
(***************************************************************************)
(* The files of NBFS and their names: spdk_fs_create_file, open, rename,     *)
(* delete, close, load and unload of lib/NBFS/NBFS.c.                        *)
(*                                                                         *)
(* A client sends its call to the metadata thread and waits.  There the call *)
(* is a chain of callbacks, one for each request to the blobstore, and the   *)
(* chains of several clients interleave.  An action is one callback, up to   *)
(* the requests it makes.  The index of the names is the map that the module *)
(* NameIndex specifies and BPlusTree implements.  The machine may crash at   *)
(* any moment; what the blobstore has persisted is what the next load finds. *)
(*                                                                         *)
(* Left out: the data of a file and its cache (module FileCache), and        *)
(* requests that cannot be allocated, as the channel of the metadata thread  *)
(* has 512 and a client uses three.                                          *)
(***************************************************************************)
EXTENDS Naturals, Sequences, FiniteSets, FiniteSetsExt, Functions

CONSTANTS
    Clients,            \* threads that call the file system
    Names,              \* file names
    Blobs,              \* numbers of the blobs the device has room for
    NULL,
    Failures,           \* the blobstore requests that may fail
    Overlap,            \* whether clients work on one name at the same time
    RenameOntoOpen      \* whether clients rename onto a file that is open

ASSUME MetaAssumption ==
    /\ Blobs \subseteq Nat \ {0}
    /\ IsFiniteSet(Clients) /\ IsFiniteSet(Blobs)
    /\ NULL \notin Names /\ NULL \notin Nat /\ NULL \notin Clients
    /\ Failures \subseteq {"create", "open", "resize"}
    /\ Overlap \in BOOLEAN /\ RenameOntoOpen \in BOOLEAN

VARIABLES
    mode,       \* "ready", "down", "loading", or "failed" when the load gave an error
    files,      \* fs->files: name to file
    file,       \* the struct spdk_file that are allocated
    op,         \* the call of each client
    handle,     \* the file each client has open, or NULL (a client opens one at a time)
    persists,   \* the writes of blob metadata that are not completed, in order
    opens,      \* open_ref of each blob
    mem,        \* the xattrs of each blob in memory
    disk,       \* the blobs on the device, with their persisted xattrs
    doomed,     \* deleted_files of the load
    acked,      \* ghost: the blob of each name whose create or rename returned, until the
                \*        next call that takes the name away
    gone,       \* ghost: the blobs whose delete returned
    ub          \* ghost: the undefined behaviour the program ran into, or "none"

nameVars  == <<files, file>>
userVars  == <<op, handle>>
blobVars  == <<persists, opens, mem>>
ghostVars == <<acked, gone>>
vars      == <<mode, nameVars, userVars, blobVars, disk, doomed, ghostVars, ub>>

-----------------------------------------------------------------------------
Ready == mode = "ready" /\ ub = "none"

Idle == [pc |-> "idle", name |-> NULL, new |-> NULL, f |-> NULL, b |-> NULL, then |-> "return"]

NoXattrs == [name |-> NULL, deleted |-> FALSE]

\* B_plus_tree_remove and B_plus_tree_insert, which refuses a name that is there.
Remove(idx, n)    == Restrict(idx, DOMAIN idx \ {n})
Insert(idx, n, f) == IF n \in DOMAIN idx THEN idx
                     ELSE [m \in DOMAIN idx \cup {n} |-> IF m = n THEN f ELSE idx[m]]

\* fs_find_file.
Find(n) == IF n \in DOMAIN files THEN files[n] ELSE NULL

\* Mutant: the file does not get its name.
NewFileUnnamed(n, b) == [name |-> NULL, blobid |-> b, ref_count |-> 0, is_deleted |-> FALSE,
                         blob |-> FALSE, open_requests |-> {}]

\* file_alloc, and the fields its callers set.
NewFile(n, b) == [name |-> n, blobid |-> b, ref_count |-> 0, is_deleted |-> FALSE,
                  blob |-> FALSE, open_requests |-> {}]
FreshFile     == Min((1 .. Cardinality(DOMAIN file) + 1) \ DOMAIN file)

\* Whether a request to the blobstore succeeds.
Outcomes(request) == {TRUE} \cup (IF request \in Failures THEN {FALSE} ELSE {})

\* The names a running call is about, and whether a client may begin one about ns.
Concerns(c)  == {op[c].name, op[c].new} \ {NULL}
Begin(c, ns) ==
    /\ Ready
    /\ op[c].pc = "idle"
    /\ ~Overlap => \A d \in Clients : Concerns(d) \cap ns = {}

\* spdk_blob_sync_md and spdk_blob_close: the xattrs of b are written, with value x.
Write(q, c, b, x) == Append(q, [c |-> c, b |-> b, xattrs |-> x])

\* The write for c, which has one at a time, is done; those of one blob are done in
\* order.
Persisted(c) ==
    \E i \in DOMAIN persists :
      LET p == persists[i] IN
      /\ p.c = c
      /\ \A j \in 1 .. i - 1 : persists[j].b # p.b
      /\ disk' = [disk EXCEPT ![p.b] = p.xattrs]
Without(s, i) == SubSeq(s, 1, i - 1) \o SubSeq(s, i + 1, Len(s))
Pending(c)    == Without(persists, CHOOSE i \in DOMAIN persists : persists[i].c = c)

Undefined(what) ==
    /\ ub' = what
    /\ UNCHANGED <<nameVars, userVars, opens, mem>>

-----------------------------------------------------------------------------
(* Open.                                                                     *)

\* Mutant: only the first of the waiting requests is answered.
AnsweredFirst(g, c) == {c}

\* fs_open_blob_done answers every open request of the file.
Answered(g, c) == g.open_requests

\* The blob of f, with record g, is open, or could not be opened: ok tells.
OpenOver(c, f, g, ok) ==
    /\ file' = [file EXCEPT ![f] = [g EXCEPT !.blob = ok,
                                             !.open_requests = @ \ Answered(g, c)]]
    /\ op' = [d \in Clients |-> IF d \in Answered(g, c) THEN Idle ELSE op[d]]
    /\ handle' = [d \in Clients |-> IF d \in Answered(g, c) /\ ok THEN f ELSE handle[d]]

\* Mutant: the reference count is not raised.
OpenedUncounted(f, c) == [file[f] EXCEPT !.open_requests = @ \cup {c},
                                         !.ref_count = IF @ = 0 THEN 1 ELSE @]

\* One more reference to f, one more open request.
Opened(f, c) == [file[f] EXCEPT !.open_requests = @ \cup {c}, !.ref_count = @ + 1]

\* fs_open_blob_create_cb, with the open counts o.  A blob that somebody has open
\* is opened at once.
OpenCb(c, n, o) ==
    LET f == Find(n)
        g == Opened(f, c)
        b == file[f].blobid
    IN  IF f = NULL
        THEN /\ ub' = "assert" /\ opens' = o
             /\ UNCHANGED <<file, userVars>>
        ELSE /\ UNCHANGED ub
             /\ IF g.ref_count = 1
                THEN IF b = NULL
                     THEN OpenOver(c, f, g, FALSE) /\ opens' = o
                     ELSE IF o[b] > 0
                     THEN OpenOver(c, f, g, TRUE) /\ opens' = [o EXCEPT ![b] = @ + 1]
                     ELSE /\ op' = [op EXCEPT ![c] = [Idle EXCEPT !.pc = "opening", !.name = n,
                                                                  !.f = f, !.b = b]]
                          /\ file' = [file EXCEPT ![f] = g]
                          /\ opens' = o
                          /\ UNCHANGED handle
                ELSE /\ opens' = o
                     /\ IF g.blob THEN OpenOver(c, f, g, TRUE)
                        ELSE /\ op' = [op EXCEPT ![c] = [Idle EXCEPT !.pc = "open_wait",
                                                                     !.name = n, !.f = f]]
                             /\ file' = [file EXCEPT ![f] = g]
                             /\ UNCHANGED handle

\* spdk_fs_open_file of a file that is there.  One that is not, or is deleted,
\* gives an error and changes nothing.  Opens of one file may overlap.
Open(c, n) ==
    /\ Ready
    /\ op[c].pc = "idle" /\ handle[c] = NULL
    /\ ~Overlap => \A d \in Clients : n \in Concerns(d) => op[d].pc \in {"opening", "open_wait"}
    /\ Find(n) # NULL /\ ~file[Find(n)].is_deleted
    /\ OpenCb(c, n, opens)
    /\ UNCHANGED <<mode, files, persists, mem, disk, doomed, ghostVars>>

OpenDone(c) ==
    /\ Ready
    /\ op[c].pc = "opening"
    /\ \E ok \in Outcomes("open") :
         IF op[c].f \in DOMAIN file
         THEN /\ OpenOver(c, op[c].f, file[op[c].f], ok)
              /\ opens' = [opens EXCEPT ![op[c].b] = @ + (IF ok THEN 1 ELSE 0)]
              /\ UNCHANGED <<files, mem, ub>>
         ELSE Undefined("freed_file")
    /\ UNCHANGED <<mode, persists, disk, doomed, ghostVars>>

-----------------------------------------------------------------------------
(* Create.                                                                   *)

\* spdk_fs_create_file_async of a name that is free: the name is taken at once.
CreateAsync(c, n, then) ==
    /\ Find(n) = NULL
    /\ files' = Insert(files, n, FreshFile)
    /\ file' = [f \in DOMAIN file \cup {FreshFile} |->
                  IF f = FreshFile THEN NewFile(n, NULL) ELSE file[f]]
    /\ LET free == Blobs \ (DOMAIN disk \cup {op[d].b : d \in Clients}) IN
         /\ free # {}
         /\ op' = [op EXCEPT ![c] = [Idle EXCEPT !.pc = "create_blob", !.name = n,
                                       !.f = FreshFile, !.b = Min(free), !.then = then]]
    /\ UNCHANGED <<mode, handle, blobVars, disk, doomed, ghostVars, ub>>

Create(c, n) == Begin(c, {n}) /\ CreateAsync(c, n, "return")

\* spdk_fs_open_file with SPDK_BLOBFS_OPEN_CREATE of a file that is not there.
OpenCreate(c, n) == handle[c] = NULL /\ Begin(c, {n}) /\ CreateAsync(c, n, "open")

\* The callback of a create, which does not look at the outcome when it opens.
CreateOver(c, o) ==
    IF op[c].then = "open"
    THEN OpenCb(c, op[c].name, o)
    ELSE op' = [op EXCEPT ![c] = Idle] /\ opens' = o /\ UNCHANGED <<file, handle, ub>>

\* fs_create_blob_create_cb: the blob is on the device, without a name.
BlobCreated(c) ==
    /\ Ready
    /\ op[c].pc = "create_blob"
    /\ \E ok \in Outcomes("create") :
         IF ~ok
         THEN CreateOver(c, opens) /\ UNCHANGED <<mem, disk, gone>>
         ELSE /\ disk' = [b \in DOMAIN disk \cup {op[c].b} |->
                            IF b = op[c].b THEN NoXattrs ELSE disk[b]]
              /\ gone' = gone \ {op[c].b}
              /\ IF op[c].f \in DOMAIN file
                 THEN /\ file' = [file EXCEPT ![op[c].f].blobid = op[c].b]
                      /\ mem' = [mem EXCEPT ![op[c].b] = NoXattrs]
                      /\ op' = [op EXCEPT ![c].pc = "create_open"]
                      /\ UNCHANGED <<handle, opens, ub>>
                 ELSE ub' = "freed_file" /\ UNCHANGED <<file, userVars, opens, mem>>
    /\ UNCHANGED <<mode, files, persists, doomed, acked>>

\* fs_create_blob_open_cb.
CreateOpened(c) ==
    /\ Ready
    /\ op[c].pc = "create_open"
    /\ \E ok \in Outcomes("open") :
         IF ~ok THEN CreateOver(c, opens)
         ELSE /\ opens' = [opens EXCEPT ![op[c].b] = @ + 1]
              /\ op' = [op EXCEPT ![c].pc = "create_resize"]
              /\ UNCHANGED <<file, handle, ub>>
    /\ UNCHANGED <<mode, files, persists, mem, disk, doomed, ghostVars>>

\* fs_create_blob_resize_cb: the blob gets its name and is closed.
CreateResized(c) ==
    /\ Ready
    /\ op[c].pc = "create_resize"
    /\ \E ok \in Outcomes("resize") :
         IF ok /\ op[c].f \notin DOMAIN file
         THEN Undefined("freed_file") /\ UNCHANGED persists
         ELSE LET x == IF ok THEN [mem[op[c].b] EXCEPT !.name = file[op[c].f].name]
                             ELSE mem[op[c].b]
              IN  /\ mem' = [mem EXCEPT ![op[c].b] = x]
                  /\ persists' = Write(persists, c, op[c].b, x)
                  /\ op' = [op EXCEPT ![c].pc = "create_close"]
                  /\ UNCHANGED <<nameVars, handle, opens, ub>>
    /\ UNCHANGED <<mode, disk, doomed, ghostVars>>

\* A call that names blob b has returned.
Acknowledge(b) ==
    acked' = IF mem[b].name = NULL \/ mem[b].deleted THEN acked
             ELSE [n \in DOMAIN acked \cup {mem[b].name} |->
                     IF n = mem[b].name THEN b ELSE acked[n]]

\* fs_create_blob_close_cb.
CreateClosed(c) ==
    /\ Ready
    /\ op[c].pc = "create_close"
    /\ Persisted(c) /\ persists' = Pending(c)
    /\ CreateOver(c, [opens EXCEPT ![op[c].b] = @ - 1])
    /\ Acknowledge(op[c].b)
    /\ UNCHANGED <<mode, files, mem, doomed, gone>>

-----------------------------------------------------------------------------
(* Delete.                                                                   *)

\* Mutant: an open file is deleted like any other.
InUseNever(f) == FALSE

InUse(f) == file[f].ref_count > 0

\* spdk_fs_delete_file_async of name n, for the call rec of client c, with the
\* writes q and the open counts o.  An open file is marked, and keeps its name.
DeleteAsync(c, n, rec, q, o) ==
    LET f == Find(n)
        b == file[f].blobid
        x == [mem[b] EXCEPT !.deleted = TRUE]
    IN  /\ opens' = o
        /\ UNCHANGED handle
        /\ IF f = NULL
           THEN /\ op' = [op EXCEPT ![c] = Idle]
                /\ persists' = q
                /\ UNCHANGED <<nameVars, mem, ub>>
           ELSE IF ~InUse(f)
           THEN /\ files' = Remove(files, file[f].name)
                /\ file' = Restrict(file, DOMAIN file \ {f})
                /\ op' = [op EXCEPT ![c] = [rec EXCEPT !.pc = "delete_blob", !.b = b]]
                /\ persists' = q
                /\ UNCHANGED <<mem, ub>>
           ELSE IF ~file[f].blob
           THEN ub' = "null_blob" /\ persists' = q /\ UNCHANGED <<nameVars, op, mem>>
           ELSE /\ file' = [file EXCEPT ![f].is_deleted = TRUE]
                /\ mem' = [mem EXCEPT ![b] = x]
                /\ persists' = Write(q, c, b, x)
                /\ op' = [op EXCEPT ![c] = [rec EXCEPT !.pc = "mark", !.b = b]]
                /\ UNCHANGED <<files, ub>>

\* spdk_fs_delete_file.
Delete(c, n) ==
    /\ Begin(c, {n})
    /\ Find(n) # NULL
    /\ DeleteAsync(c, n, [Idle EXCEPT !.name = n], persists, opens)
    /\ acked' = Restrict(acked, DOMAIN acked \ {n})
    /\ UNCHANGED <<mode, disk, doomed, gone>>

-----------------------------------------------------------------------------
(* Rename.                                                                   *)

\* Mutant: the blob keeps its name.
RenamedOnlyInMemory(x, n) == x

Renamed(x, n) == [x EXCEPT !.name = n]

\* fs_rename_blob_open_cb: blob b, open once more, gets the name and is closed.
RenameBlob(c, rec, b, q) ==
    LET x == Renamed(mem[b], rec.new) IN
    /\ mem' = [mem EXCEPT ![b] = x]
    /\ persists' = Write(q, c, b, x)
    /\ opens' = [opens EXCEPT ![b] = @ + 1]
    /\ op' = [op EXCEPT ![c] = [rec EXCEPT !.pc = "rename_close", !.b = b]]

\* _fs_md_rename_file for the call rec of client c, with the writes q.
MdRename(c, rec, q) ==
    LET f == Find(rec.name)
        b == file[f].blobid
    IN  /\ UNCHANGED handle
        /\ IF f = NULL
           THEN /\ op' = [op EXCEPT ![c] = Idle]
                /\ persists' = q
                /\ UNCHANGED <<nameVars, opens, mem, ub>>
           ELSE /\ files' = Insert(Remove(files, file[f].name), rec.new, f)
                /\ file' = [file EXCEPT ![f].name = rec.new]
                /\ IF b = NULL
                   THEN ub' = "null_blob" /\ persists' = q /\ UNCHANGED <<op, opens, mem>>
                   ELSE /\ UNCHANGED ub
                        /\ IF opens[b] > 0
                           THEN RenameBlob(c, rec, b, q)
                           ELSE /\ op' = [op EXCEPT ![c] = [rec EXCEPT !.pc = "rename_open",
                                                                       !.b = b]]
                                /\ persists' = q
                                /\ UNCHANGED <<opens, mem>>

\* spdk_fs_rename_file: a file that has the new name is deleted first.
Rename(c, old, new) ==
    /\ Begin(c, {old, new})
    /\ new \in DOMAIN files /\ InUse(files[new]) => RenameOntoOpen
    /\ LET rec == [Idle EXCEPT !.name = old, !.new = new, !.then = "rename"] IN
         IF Find(new) = NULL
         THEN Find(old) # NULL /\ MdRename(c, rec, persists)
         ELSE DeleteAsync(c, new, rec, persists, opens)
    /\ acked' = Restrict(acked, DOMAIN acked \ {old, new})
    /\ UNCHANGED <<mode, disk, doomed, gone>>

\* fs_rename_blob_open_cb does not look at the outcome of the open.
RenameOpened(c) ==
    /\ Ready
    /\ op[c].pc = "rename_open"
    /\ \E ok \in Outcomes("open") :
         IF ok THEN RenameBlob(c, op[c], op[c].b, persists) /\ UNCHANGED <<nameVars, handle, ub>>
         ELSE Undefined("null_blob") /\ UNCHANGED persists
    /\ UNCHANGED <<mode, disk, doomed, ghostVars>>

\* fs_rename_blob_close_cb.
RenameClosed(c) ==
    /\ Ready
    /\ op[c].pc = "rename_close"
    /\ Persisted(c) /\ persists' = Pending(c)
    /\ opens' = [opens EXCEPT ![op[c].b] = @ - 1]
    /\ op' = [op EXCEPT ![c] = Idle]
    /\ Acknowledge(op[c].b)
    /\ UNCHANGED <<mode, nameVars, handle, mem, doomed, gone, ub>>

\* A delete is over: fs_rename_delete_done goes on with the rename.
DeleteOver(c, q) ==
    IF op[c].then = "rename"
    THEN MdRename(c, op[c], q)
    ELSE /\ op' = [op EXCEPT ![c] = Idle]
         /\ persists' = q
         /\ UNCHANGED <<nameVars, handle, opens, mem, ub>>

Marked(c) ==
    /\ Ready
    /\ op[c].pc = "mark"
    /\ Persisted(c)
    /\ DeleteOver(c, Pending(c))
    /\ gone' = gone \cup {op[c].b}
    /\ UNCHANGED <<mode, doomed, acked>>

\* spdk_bs_delete_blob refuses a blob that is open.
BlobDeleted(c) ==
    /\ Ready
    /\ op[c].pc = "delete_blob"
    /\ LET b == op[c].b IN
         IF b # NULL /\ opens[b] = 0
         THEN disk' = Restrict(disk, DOMAIN disk \ {b}) /\ gone' = gone \cup {b}
         ELSE UNCHANGED <<disk, gone>>
    /\ DeleteOver(c, persists)
    /\ UNCHANGED <<mode, doomed, acked>>

-----------------------------------------------------------------------------
(* Close.                                                                    *)

\* __file_close: the last reference closes the blob.
Close(c) ==
    /\ handle[c] # NULL
    /\ LET f == handle[c] IN
       IF f \notin DOMAIN file
       THEN Ready /\ op[c].pc = "idle" /\ Undefined("freed_file") /\ UNCHANGED persists
       ELSE /\ Begin(c, {file[f].name})
            /\ handle' = [handle EXCEPT ![c] = NULL]
            /\ IF file[f].ref_count > 1
               THEN /\ file' = [file EXCEPT ![f].ref_count = @ - 1]
                    /\ UNCHANGED <<op, persists>>
               ELSE /\ file' = [file EXCEPT ![f].ref_count = 0, ![f].blob = FALSE]
                    /\ op' = [op EXCEPT ![c] = [Idle EXCEPT !.pc = "closing", !.f = f,
                                                  !.name = file[f].name, !.b = file[f].blobid]]
                    /\ persists' = Write(persists, c, file[f].blobid, mem[file[f].blobid])
            /\ UNCHANGED <<files, opens, mem, ub>>
    /\ UNCHANGED <<mode, disk, doomed, ghostVars>>

\* Mutant: the deletion of a file that was open is forgotten.
DeletePendingNever(f) == FALSE

DeletePending(f) == file[f].is_deleted

\* __file_close_async_done: a file that was deleted while open goes now.
Closed(c) ==
    /\ Ready
    /\ op[c].pc = "closing"
    /\ Persisted(c)
    /\ LET f == op[c].f
           o == [opens EXCEPT ![op[c].b] = @ - 1]
       IN  IF f \notin DOMAIN file
           THEN /\ ub' = "freed_file" /\ opens' = o /\ persists' = Pending(c)
                /\ UNCHANGED <<nameVars, userVars, mem>>
           ELSE IF DeletePending(f)
           THEN DeleteAsync(c, file[f].name, [Idle EXCEPT !.name = file[f].name], Pending(c), o)
           ELSE /\ op' = [op EXCEPT ![c] = Idle]
                /\ opens' = o /\ persists' = Pending(c)
                /\ UNCHANGED <<nameVars, handle, mem, ub>>
    /\ UNCHANGED <<mode, doomed, ghostVars>>

-----------------------------------------------------------------------------
(* Crash, unload and load.                                                   *)

\* Nothing in memory survives.
Forget ==
    /\ mode' = "down"
    /\ files' = Restrict(files, {}) /\ file' = Restrict(file, {})
    /\ op' = [c \in Clients |-> Idle] /\ handle' = [c \in Clients |-> NULL]
    /\ persists' = <<>>
    /\ opens' = [b \in Blobs |-> 0]
    /\ mem' = [b \in Blobs |-> NoXattrs]
    /\ doomed' = {}
    /\ UNCHANGED <<disk, ghostVars, ub>>

Crash == mode # "down" /\ ub = "none" /\ Forget

\* spdk_fs_unload, when every file is closed.
Unload ==
    /\ Ready
    /\ \A c \in Clients : op[c].pc = "idle" /\ handle[c] = NULL
    /\ Forget

\* Mutant: a deleted file is loaded like any other.
MarkedNone(b) == FALSE

\* iter_cb, the test of the xattr is_deleted.
IsMarked(b) == disk[b].deleted

\* spdk_fs_load: iter_cb makes a file of every blob, unless it is marked, in the
\* order of the blobs.  A blob without a name makes the load fail; iter_cb frees the
\* request then and is called for the next blobs all the same, so that nothing is said
\* of a file system whose load failed.
Load ==
    /\ mode = "down" /\ ub = "none"
    /\ IF \E b \in DOMAIN disk : disk[b].name = NULL
       THEN mode' = "failed" /\ UNCHANGED <<nameVars, mem, doomed>>
       ELSE LET live == {b \in DOMAIN disk : ~IsMarked(b)} IN
            /\ file' = [b \in live |-> NewFile(disk[b].name, b)]
            /\ files' = [n \in {disk[b].name : b \in live} |->
                           Min({b \in live : disk[b].name = n})]
            /\ mem' = [b \in Blobs |-> IF b \in DOMAIN disk THEN disk[b] ELSE NoXattrs]
            /\ doomed' = DOMAIN disk \ live
            /\ mode' = IF DOMAIN disk = live THEN "ready" ELSE "loading"
    /\ UNCHANGED <<userVars, persists, opens, disk, ghostVars, ub>>

\* fs_load_done and _handle_deleted_files: the marked blobs are deleted, one by
\* one, before the load is over.
LoadDelete ==
    /\ mode = "loading"
    /\ disk' = Restrict(disk, DOMAIN disk \ {Min(doomed)})
    /\ doomed' = doomed \ {Min(doomed)}
    /\ mode' = IF doomed' = {} THEN "ready" ELSE "loading"
    /\ UNCHANGED <<nameVars, userVars, blobVars, ghostVars, ub>>

-----------------------------------------------------------------------------
\* A new file system: init_cb.
Init ==
    /\ mode = "ready"
    /\ files = [n \in {} |-> NULL] /\ file = [f \in {} |-> NULL]
    /\ op = [c \in Clients |-> Idle] /\ handle = [c \in Clients |-> NULL]
    /\ persists = <<>>
    /\ opens = [b \in Blobs |-> 0] /\ mem = [b \in Blobs |-> NoXattrs]
    /\ disk = [b \in {} |-> NoXattrs] /\ doomed = {}
    /\ acked = [n \in {} |-> NULL] /\ gone = {}
    /\ ub = "none"

Call(c) ==
    \/ \E n \in Names : Create(c, n) \/ OpenCreate(c, n) \/ Open(c, n) \/ Delete(c, n)
    \/ \E old, new \in Names : Rename(c, old, new)
    \/ Close(c)

Callback(c) ==
    \/ BlobCreated(c) \/ CreateOpened(c) \/ CreateResized(c) \/ CreateClosed(c)
    \/ OpenDone(c)
    \/ RenameOpened(c) \/ RenameClosed(c)
    \/ Marked(c) \/ BlobDeleted(c)
    \/ Closed(c)

Next ==
    \/ \E c \in Clients : Call(c) \/ Callback(c)
    \/ Crash \/ Unload \/ Load \/ LoadDelete

Spec == Init /\ [][Next]_vars

\* The blobstore completes every request and the metadata thread polls.
FairSpec == Spec /\ \A c \in Clients : WF_vars(Callback(c))

-----------------------------------------------------------------------------
(* Properties.                                                               *)

Files == Nat \ {0}
Xattrs == [name : Names \cup {NULL}, deleted : BOOLEAN]

\* Type correctness of the files, the calls and the blobs.
TypeOK ==
    /\ mode \in {"ready", "down", "loading", "failed"}
    /\ DOMAIN files \subseteq Names /\ \A n \in DOMAIN files : files[n] \in Files
    /\ \A f \in DOMAIN file :
         /\ f \in Files
         /\ file[f] \in [name : Names, blobid : Blobs \cup {NULL}, ref_count : Nat,
                         is_deleted : BOOLEAN, blob : BOOLEAN, open_requests : SUBSET Clients]
    /\ handle \in [Clients -> Files \cup {NULL}]
    /\ opens \in [Blobs -> Nat]
    /\ mem \in [Blobs -> Xattrs]
    /\ DOMAIN disk \subseteq Blobs /\ \A b \in DOMAIN disk : disk[b] \in Xattrs
    /\ doomed \subseteq Blobs /\ gone \subseteq Blobs

\* No callback uses a file that was freed meanwhile or a blob that is not open,
\* when clients do not work on one name at the same time.
Defined == ub = "none"

\* A create or a rename that returned lasts: the name is on the device, with its
\* blob, whatever crashes; and a file system that is up serves it under the name.
Served ==
    \A n \in DOMAIN acked :
      /\ acked[n] \in DOMAIN disk /\ disk[acked[n]] = [name |-> n, deleted |-> FALSE]
      /\ mode = "ready" => n \in DOMAIN files /\ file[files[n]].blobid = acked[n]

\* A delete that returned lasts: no crash and load brings the file back.
NotResurrected ==
    \A b \in gone :
      /\ b \in DOMAIN disk => disk[b].deleted
      /\ \A n \in DOMAIN files : file[files[n]].blobid = b => file[files[n]].is_deleted

\* ref_count counts the handles and the waiting opens, the blob of a file is open
\* while there are handles, and open_ref of a blob counts the file that has it open
\* and the calls that do.
RefCounts ==
    /\ \A f \in DOMAIN file :
         /\ file[f].ref_count = Cardinality({c \in Clients : handle[c] = f})
                                  + Cardinality(file[f].open_requests)
         /\ file[f].blob <=> \E c \in Clients : handle[c] = f
    /\ \A b \in Blobs :
         opens[b] = Cardinality({f \in DOMAIN file : file[f].blobid = b /\ file[f].blob})
                      + Cardinality({c \in Clients : op[c].b = b /\ op[c].pc \in
                                      {"create_resize", "create_close", "rename_close", "closing"}})

\* When no call is running, the index and the device agree: every file is in the
\* index under its name, every blob belongs to a file, and a deleted file is there
\* only as long as it is open.
Agreement ==
    mode = "ready" /\ (\A c \in Clients : op[c].pc = "idle") =>
      /\ DOMAIN file = {files[n] : n \in DOMAIN files}
      /\ DOMAIN disk = {file[f].blobid : f \in DOMAIN file}
      /\ \A n \in DOMAIN files :
           /\ file[files[n]].name = n
           /\ file[files[n]].is_deleted => file[files[n]].ref_count > 0

\* Every create, open, rename, delete and close returns, unless the machine crashes:
\* an open that waits for the open of another client too.
CallReturns ==
    \A c \in Clients : op[c].pc \notin {"idle", "list"} ~> (op[c].pc = "idle" \/ ub # "none")
=============================================================================
