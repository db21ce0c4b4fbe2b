------------------------------- MODULE FileList -------------------------------
(***************************************************************************)
(* A client that lists the files while others create, rename and delete      *)
(* them: spdk_fs_iter_first and spdk_fs_iter_next of lib/NBFS/NBFS.c, in the *)
(* loop that fuse_readdir of module/blobfs/bdev/blobfs_fuse.c makes of them. *)
(* Names are numbers, in the order of strcmp.                                *)
(*                                                                         *)
(* The client walks the leaves of the tree itself, without a lock, while the  *)
(* metadata thread shifts their records and frees nodes.  A walk is two       *)
(* steps, its beginning and its end, and a change of the tree that overlaps   *)
(* it is one that happens between the two.                                   *)
(***************************************************************************)
EXTENDS FileMeta

ASSUME ListAssumption == Names \subseteq Nat

VARIABLES
    seen,       \* the names the running listing has delivered
    walker,     \* the client that is walking the tree, or NULL
    torn,       \* the tree has changed during a walk of the running listing
    steady      \* ghost: the names that were there all through the running listing

listVars == <<vars, seen, walker, torn, steady>>

\* Names in the index that may be listed next, when f was the last: the walk
\* looks for the record of f and takes the one behind it.
Behind(f) == {n \in DOMAIN files : \E m \in DOMAIN files : files[m] = f /\ m < n}

\* Mutants: the record behind the next one is taken; the listing starts again.
FirstOfSkips(ns) == IF Cardinality(ns) > 1 THEN Min(ns \ {Min(ns)}) ELSE Min(ns)
AheadAlways(c) == DOMAIN files

\* The first of the names in the order of the leaves.
FirstOf(ns) == Min(ns)

\* The names among which client c looks for the next one.
Ahead(c) == IF op[c].pc = "list" THEN Behind(op[c].f) ELSE DOMAIN files

\* spdk_fs_iter_first is called.  Bound: one listing at a time, of an index that is
\* not empty.
ListBegin(c) ==
    /\ Begin(c, {})
    /\ walker = NULL /\ \A d \in Clients : op[d].pc # "list"
    /\ DOMAIN files # {}
    /\ walker' = c /\ torn' = FALSE
    /\ seen' = {} /\ steady' = DOMAIN files
    /\ UNCHANGED vars

\* spdk_fs_iter_next is called: it asks the file where the tree is.
ListWalk(c) ==
    /\ Ready
    /\ op[c].pc = "list" /\ walker = NULL
    /\ IF op[c].f \in DOMAIN file THEN walker' = c /\ UNCHANGED ub
                                  ELSE ub' = "freed_file" /\ UNCHANGED walker
    /\ UNCHANGED <<mode, nameVars, userVars, blobVars, disk, doomed, ghostVars>>
    /\ UNCHANGED <<seen, torn, steady>>

\* What a walk may come to.  When the tree changed under it, it may have missed
\* records, met them twice or lost its way, and so may those that start where it
\* ended; where it reads freed memory it comes to any of these, or the program ends
\* as in a Crash.
Arrivals(c) == IF torn THEN DOMAIN files
               ELSE IF Ahead(c) = {} THEN {} ELSE {FirstOf(Ahead(c))}
MayEnd(c)   == torn \/ Ahead(c) = {}

\* The listing of client c comes to name n.
ListAt(c, n) ==
    /\ ~Overlap => \A d \in Clients \ {c} : n \notin Concerns(d)
    /\ op' = [op EXCEPT ![c] = [Idle EXCEPT !.pc = "list", !.name = n, !.f = files[n]]]

\* The walk is over, and the name of the file before it is delivered.  The file may
\* be freed, or have left the index, since the walk began.
ListArrive(c) ==
    /\ Ready
    /\ op[c].pc \in {"idle", "list"}
    /\ walker = c /\ walker' = NULL
    /\ IF op[c].pc = "list" /\ op[c].f \notin DOMAIN file
       THEN ub' = "freed_file" /\ UNCHANGED <<op, seen, torn, steady>>
       ELSE /\ UNCHANGED ub
            /\ \/ /\ \E n \in Arrivals(c) : ListAt(c, n)
                  /\ seen' = IF op[c].pc = "list" THEN seen \cup {file[op[c].f].name} ELSE {}
                  /\ UNCHANGED <<torn, steady>>
               \/ /\ MayEnd(c)
                  /\ op' = [op EXCEPT ![c] = Idle]
                  /\ seen' = {} /\ torn' = FALSE /\ steady' = {}
    /\ UNCHANGED <<mode, nameVars, handle, blobVars, disk, doomed, ghostVars>>

\* What the listing keeps while the others work, and loses in a crash.
Beside ==
    /\ steady' = steady \cap DOMAIN files'
    /\ IF mode' = "down"
       THEN seen' = {} /\ walker' = NULL /\ torn' = FALSE
       ELSE /\ UNCHANGED <<seen, walker>>
            /\ torn' = (torn \/ (walker # NULL /\ files' # files))

\* The others: a client that walks the tree does nothing else.
Others ==
    \/ \E c \in Clients \ {walker} : Call(c) \/ Callback(c)
    \/ Crash \/ Load \/ LoadDelete
    \/ walker = NULL /\ Unload

ListingNext ==
    \/ Others /\ Beside
    \/ \E c \in Clients : ListBegin(c) \/ ListWalk(c) \/ ListArrive(c)

ListingInit == Init /\ seen = {} /\ walker = NULL /\ torn = FALSE /\ steady = {}

ListingSpec == ListingInit /\ [][ListingNext]_listVars

\* The blobstore completes every request, the metadata thread polls, and a
\* client goes on with its listing once no call is about the name it comes to.
FairListingSpec ==
    /\ ListingSpec
    /\ \A c \in Clients : /\ WF_listVars(Callback(c) /\ Beside)
                          /\ WF_listVars(ListWalk(c)) /\ SF_listVars(ListArrive(c))

\* A listing whose walks the metadata thread does not change the tree under delivers
\* every name that was there from its beginning to its end, once, whatever is
\* created, renamed and deleted between the walks, as long as nobody takes away the
\* file the listing has come to (spdk_fs_iter_next).
ListingComplete ==
    [][\A c \in Clients : op[c].pc = "list" /\ ~torn =>
         /\ op[c].name \notin seen
         /\ (op'[c].pc = "idle" /\ mode' = "ready") =>
              steady \subseteq seen \cup {file[op[c].f].name}]_listVars

\* Such a listing comes to its end, however many names are created behind it
\* (fuse_readdir).
ListingReturns ==
    \A c \in Clients :
      op[c].pc = "list" ~> (op[c].pc # "list" \/ torn \/ ub # "none")
=============================================================================
