------------------------------ MODULE NameIndex ------------------------------
(***************************************************************************)
(* What the file system expects of its index from names to files             *)
(* (fs->files, used by file_alloc, fs_find_file, rename and delete in         *)
(* lib/NBFS/NBFS.c): a partial function from names to files.  BPlusTree      *)
(* implements it.                                                           *)
(***************************************************************************)
CONSTANTS Names, Files

VARIABLE files          \* the file of every name in the index

IndexInit == files = [n \in {} |-> n]

\* A name that is there already keeps its file.
IndexInsert(n, f) ==
    /\ n \notin DOMAIN files
    /\ files' = [m \in DOMAIN files \cup {n} |-> IF m = n THEN f ELSE files[m]]

IndexRemove(n) ==
    /\ n \in DOMAIN files
    /\ files' = [m \in DOMAIN files \ {n} |-> files[m]]

IndexNext ==
    \E n \in Names : (\E f \in Files : IndexInsert(n, f)) \/ IndexRemove(n)

IndexSpec == IndexInit /\ [][IndexNext]_files
=============================================================================
