----------------------------- MODULE FileTruncate -----------------------------
(***************************************************************************)
(* spdk_file_truncate of the client, added to the append path of FileCache   *)
(* (lib/NBFS/NBFS.c).  The resize and the new length are the ones a direct    *)
(* write past the end starts with; here the caller waits for them, and the   *)
(* file may become shorter.                                                 *)
(***************************************************************************)
EXTENDS FileCache

CONSTANT Lens       \* the lengths the client truncates the file to

\* spdk_file_truncate: no lock is taken, and the caller waits.  When there is no
\* request it returns at once and leaves everything as it was, a stuttering step.
TruncateCall(t, len) ==
    /\ Running
    /\ thread[t].pc = "idle"
    /\ mdq' = Append(mdq, [fn |-> "truncate", t |-> t, off |-> len, len |-> 0])
    /\ thread' = [thread EXCEPT ![t] = [Idle EXCEPT !.pc = "truncate"]]
    /\ UNCHANGED <<sizeVars, flushVars, cacheVars, lock, sem, cont, dataVars, metaVars, durVars,
                   ub, readVars>>

\* __truncate and spdk_file_truncate_async: a file that has the length already
\* is left alone, otherwise the blob is resized.
Truncate ==
    /\ Receives("truncate")
    /\ LET m == Head(mdq) IN
       \/ /\ m.off = length /\ WakeCaller(m.t)
          /\ UNCHANGED <<sizeVars, resizing, xattr, persists>>
       \/ /\ m.off # length /\ MayFail("request") /\ WakeFailed(m.t)
          /\ UNCHANGED <<sizeVars, resizing, xattr, persists>>
       \/ m.off # length /\ TruncateAsync(m)
    /\ UNCHANGED <<flushVars, cacheVars, lock, cont, dataVars, blob_size, durVars, ub, readVars>>

\* The metadata of a truncation that a client waits for is being written.
ClientTruncates ==
    /\ persists # <<>> /\ Head(persists).op = "truncate"
    /\ thread[Head(persists).t].pc = "truncate"

\* fs_truncate_complete_cb wakes the caller.  The bytes that were cut off are
\* no longer bytes of the file, and no sync answers for them any more.
Truncated ==
    /\ ClientTruncates
    /\ PersistOver("truncate")
    /\ \/ /\ LengthPersisted /\ WakeCaller(Head(persists).t)
          /\ disk' = {b \in disk : b < Head(persists).val}
          /\ promised' = Min2(promised, Head(persists).val)
       \/ MayFail("io") /\ UNCHANGED <<disk_len, disk, promised>> /\ WakeFailed(Head(persists).t)
    /\ UNCHANGED <<sizeVars, flushVars, cacheVars, lock, mdVars, io, resizing, blob_size, xattr,
                   ub, readVars>>

TruncateReturn(t) ==
    /\ Running
    /\ thread[t].pc = "truncate"
    /\ SemWait(t)
    /\ Return(t)
    /\ UNCHANGED <<sizeVars, flushVars, cacheVars, lock, mdVars, dataVars, metaVars, durVars,
                   ub, readVars>>

\* The end of a client's truncation is Truncated, not the write of TruncateDone.
TruncateNext ==
    \/ Next /\ ~(ClientTruncates /\ persists' = Tail(persists))
    \/ \E t \in Threads : TruncateReturn(t) \/ \E len \in Lens : TruncateCall(t, len)
    \/ Truncate \/ Truncated

TruncateSpec == Init /\ [][TruncateNext]_vars
=============================================================================
