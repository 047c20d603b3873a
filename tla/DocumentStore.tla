---------------------------- MODULE DocumentStore ----------------------------
(***************************************************************************)
(* Uploading and deleting one user's documents                             *)
(* (create_document and delete_document in backend/app/services/           *)
(* documents.py): the rows in Postgres, the files in object storage and    *)
(* the per-user advisory lock under which the quota is checked.            *)
(*                                                                         *)
(* A document's id and storage key are fresh (uuid4), so an upload names   *)
(* the document it creates.  A step is one database statement or one       *)
(* storage call.                                                           *)
(***************************************************************************)
EXTENDS Integers, FiniteSets, FiniteSetsExt

CONSTANTS
    Uploads,      \* upload requests of one user, and the documents they create
    Contents,     \* the bytes a file may hold, up to equality of their digest
    Size,         \* Size[c]: length in bytes
    MaxDocs,      \* settings.max_docs_per_user
    MaxBytes,     \* settings.max_storage_bytes_per_user
    None,         \* no upload, no content
    Wipes,        \* may stored files go missing (e.g. a wiped local dir)?
    MaxFaults     \* bound on cancelled calls, lost answers and killed processes

ASSUME LimitAssumption ==
    /\ MaxDocs \in Nat
    /\ MaxBytes \in Nat
    /\ Size \in [Contents -> Nat]
    /\ None \notin Uploads \cup Contents
    /\ Wipes \in BOOLEAN /\ MaxFaults \in Nat

VARIABLES
    row,       \* committed rows of the documents table
    file,      \* objects in storage
    lock,      \* holder of the advisory lock upload:<owner>
    pc,        \* where each request is
    content,   \* what each request uploads
    existing,  \* the known document a duplicate upload found
    purging,   \* deleted rows whose file delete_document has yet to delete
    late,      \* cancelled writes still running in their thread
    wiped,     \* rows whose file the environment destroyed
    faults     \* faults so far

vars == <<row, file, lock, pc, content, existing, purging, late, wiped, faults>>

\* The transaction holds the lock from "counting" to its end.
Locked == {"counting", "reserved", "inserted", "stored"}
Answered == {"accepted", "duplicate", "rejected", "failed", "dead"}
PCs == Locked \cup Answered \cup
       {"new", "known", "repairing", "resetting", "unknown", "waiting", "clashed", "undoing"}

TypeOK ==
    /\ row \in SUBSET Uploads
    /\ file \in SUBSET Uploads
    /\ lock \in Uploads \cup {None}
    /\ pc \in [Uploads -> PCs]
    /\ content \in [Uploads -> Contents \cup {None}]
    /\ existing \in [Uploads -> Uploads \cup {None}]
    /\ purging \in SUBSET Uploads
    /\ late \in SUBSET Uploads
    /\ wiped \in SUBSET Uploads
    /\ faults \in 0 .. MaxFaults

Init ==
    /\ row = {}
    /\ file = {}
    /\ lock = None
    /\ pc = [u \in Uploads |-> "new"]
    /\ content = [u \in Uploads |-> None]
    /\ existing = [u \in Uploads |-> None]
    /\ purging = {}
    /\ late = {}
    /\ wiped = {}
    /\ faults = 0

\* Something outside the code goes wrong.
Fault == faults < MaxFaults /\ faults' = faults + 1

Goto(u, where) == pc' = [pc EXCEPT ![u] = where]

\* The committed rows holding content c; uq_documents_owner_hash allows one.
Holding(c) == {d \in row : content[d] = c}

\* Mutant: a rejected upload keeps its transaction, and with it the lock.
Unlock_Forgotten == UNCHANGED lock

\* commit() or rollback() ends the transaction and frees its advisory lock.
Unlock == lock' = None

-----------------------------------------------------------------------------
(* create_document *)

\* Empty, or of an unsupported type: refused before anything is looked up.
RejectUnread(u) ==
    /\ pc[u] = "new"
    /\ Goto(u, "rejected")
    /\ UNCHANGED <<row, file, lock, content, existing, purging, late, wiped, faults>>

\* The digest of the file is looked up.
Lookup(u, c) ==
    /\ pc[u] = "new"
    /\ content' = [content EXCEPT ![u] = c]
    /\ \/ /\ Holding(c) = {}
          /\ Goto(u, "unknown")
          /\ UNCHANGED existing
       \/ \E d \in Holding(c) :
            /\ existing' = [existing EXCEPT ![u] = d]
            /\ Goto(u, "known")
    /\ UNCHANGED <<row, file, lock, purging, late, wiped, faults>>

\* Refused by validate_upload, or too slow to validate.
RejectFile(u) ==
    /\ pc[u] = "unknown"
    /\ Goto(u, "rejected")
    /\ UNCHANGED <<row, file, lock, content, existing, purging, late, wiped, faults>>

Validated(u) ==
    /\ pc[u] = "unknown"
    /\ Goto(u, "waiting")
    /\ UNCHANGED <<row, file, lock, content, existing, purging, late, wiped, faults>>

\* Same bytes again: is the stored object still there?
CheckStored(u) ==
    /\ pc[u] = "known"
    /\ Goto(u, IF existing[u] \in file THEN "resetting" ELSE "repairing")
    /\ UNCHANGED <<row, file, lock, content, existing, purging, late, wiped, faults>>

\* Mutant: the restored object goes under the new request's key.
KeyOfExisting_Own(u) == u

\* existing.storage_key
KeyOfExisting(u) == existing[u]

\* It is not: put the bytes back under the old key.
Repair(u) ==
    LET key == KeyOfExisting(u) IN
    /\ pc[u] = "repairing"
    /\ file' = file \cup {key}
    /\ wiped' = wiped \ {key}
    /\ Goto(u, "resetting")
    /\ UNCHANGED <<row, lock, content, existing, purging, late, faults>>

\* The storage cannot be asked, or refuses: the request ends in an error.
RepairFails(u) ==
    /\ pc[u] \in {"known", "repairing"}
    /\ Goto(u, "failed")
    /\ UNCHANGED <<row, file, lock, content, existing, purging, late, wiped, faults>>

\* A failed document is queued again (IngestionQueue's ResetRow).  That commit, or
\* the refresh after it, fails for a document deleted meanwhile; one that has not
\* failed is answered with as it is.
AnswerKnown(u) ==
    /\ pc[u] = "resetting"
    /\ \E answer \in {"duplicate", "failed"} : Goto(u, answer)
    /\ UNCHANGED <<row, file, lock, content, existing, purging, late, wiped, faults>>

\* Mutant: the quota is checked without waiting for the lock.
Acquire_NotWaiting(u) ==
    /\ pc[u] = "waiting"
    /\ lock' = u
    /\ Goto(u, "counting")
    /\ UNCHANGED <<row, file, content, existing, purging, late, wiped, faults>>

\* pg_advisory_xact_lock blocks while another upload of the user holds it.
Acquire(u) ==
    /\ pc[u] = "waiting"
    /\ lock = None
    /\ lock' = u
    /\ Goto(u, "counting")
    /\ UNCHANGED <<row, file, content, existing, purging, late, wiped, faults>>

\* count >= max_docs_per_user
DocsFull == Cardinality(row) >= MaxDocs

\* used + len(data) > max_storage_bytes_per_user
BytesFull(c) == MapThenSumSet(LAMBDA d : Size[content[d]], row) + Size[c] > MaxBytes

RejectQuota(u) ==
    /\ pc[u] = "counting"
    /\ DocsFull \/ BytesFull(content[u])
    /\ Unlock
    /\ Goto(u, "rejected")
    /\ UNCHANGED <<row, file, content, existing, purging, late, wiped, faults>>

Reserve(u) ==
    /\ pc[u] = "counting"
    /\ ~DocsFull
    /\ ~BytesFull(content[u])
    /\ Goto(u, "reserved")
    /\ UNCHANGED <<row, file, lock, content, existing, purging, late, wiped, faults>>

\* flush(): the INSERT, uncommitted until the end of the transaction ...
Insert(u) ==
    /\ pc[u] = "reserved"
    /\ Holding(content[u]) = {}
    /\ Goto(u, "inserted")
    /\ UNCHANGED <<row, file, lock, content, existing, purging, late, wiped, faults>>

\* ... or IntegrityError: the same bytes were committed since Lookup.
Clash(u) ==
    /\ pc[u] = "reserved"
    /\ Holding(content[u]) # {}
    /\ Unlock
    /\ Goto(u, "clashed")
    /\ UNCHANGED <<row, file, content, existing, purging, late, wiped, faults>>

\* "Keep the first one" - unless it was deleted meanwhile (scalar_one raises).
AnswerClash(u) ==
    /\ pc[u] = "clashed"
    /\ \/ /\ Holding(content[u]) = {}
          /\ Goto(u, "failed")
          /\ UNCHANGED existing
       \/ \E d \in Holding(content[u]) :
            /\ existing' = [existing EXCEPT ![u] = d]
            /\ Goto(u, "duplicate")
    /\ UNCHANGED <<row, file, lock, content, purging, late, wiped, faults>>

\* Mutant: the put is started but not awaited.
Put_NotAwaited(u) ==
    /\ pc[u] = "inserted"
    /\ late' = late \cup {u}
    /\ Goto(u, "stored")
    /\ UNCHANGED <<row, file, lock, content, existing, purging, wiped, faults>>

Put(u) ==
    /\ pc[u] = "inserted"
    /\ file' = file \cup {u}
    /\ Goto(u, "stored")
    /\ UNCHANGED <<row, lock, content, existing, purging, late, wiped, faults>>

\* The flush or the put raises: stored is still False, so only the row goes.
PutFails(u) ==
    /\ pc[u] \in {"reserved", "inserted"}
    /\ Unlock
    /\ Goto(u, "failed")
    /\ UNCHANGED <<row, file, content, existing, purging, late, wiped, faults>>

\* The request is cancelled, or its answer lost, during the put: stored is False
\* as well, but the thread (asyncio.to_thread) or the server finishes the write.
PutAbandoned(u) ==
    /\ Fault
    /\ pc[u] = "inserted"
    /\ Unlock
    /\ Goto(u, "failed")
    /\ late' = late \cup {u}
    /\ UNCHANGED <<row, file, content, existing, purging, wiped>>

LateWrite(u) ==
    /\ u \in late
    /\ file' = file \cup {u}
    /\ late' = late \ {u}
    /\ UNCHANGED <<row, lock, pc, content, existing, purging, wiped, faults>>

Commit(u) ==
    /\ pc[u] = "stored"
    /\ row' = row \cup {u}
    /\ Unlock
    /\ Goto(u, "accepted")
    /\ UNCHANGED <<file, content, existing, purging, late, wiped, faults>>

CommitFails(u) ==
    /\ pc[u] = "stored"
    /\ Unlock
    /\ Goto(u, "undoing")
    /\ UNCHANGED <<row, file, content, existing, purging, late, wiped, faults>>

\* The commit happens, its answer does not arrive: handled like a failure.
CommitAnswerLost(u) ==
    /\ Fault
    /\ pc[u] = "stored"
    /\ row' = row \cup {u}
    /\ Unlock
    /\ Goto(u, "undoing")
    /\ UNCHANGED <<file, content, existing, purging, late, wiped>>

\* Mutant: nobody deletes the object of a failed upload.
Undone_Kept(u) == file

Undone(u) == file \ {u}

\* The object of an upload that failed after its put is deleted again.
Undo(u) ==
    /\ pc[u] = "undoing"
    /\ file' = Undone(u)
    /\ Goto(u, "failed")
    /\ UNCHANGED <<row, lock, content, existing, purging, late, wiped, faults>>

UndoFails(u) ==
    /\ Fault
    /\ pc[u] = "undoing"
    /\ Goto(u, "failed")
    /\ UNCHANGED <<row, file, lock, content, existing, purging, late, wiped>>

\* The process is killed: the server rolls the transaction back.
Kill(u) ==
    /\ Fault
    /\ pc[u] \notin Answered \cup {"new"}
    /\ lock' = IF lock = u THEN None ELSE lock
    /\ Goto(u, "dead")
    /\ UNCHANGED <<row, file, content, existing, purging, late, wiped>>

-----------------------------------------------------------------------------
(* delete_document, and the world *)

DeleteRow(d) ==
    /\ d \in row
    /\ row' = row \ {d}
    /\ purging' = purging \cup {d}
    /\ wiped' = wiped \ {d}
    /\ UNCHANGED <<file, lock, pc, content, existing, late, faults>>

Purge(d) ==
    /\ d \in purging
    /\ file' = file \ {d}
    /\ purging' = purging \ {d}
    /\ UNCHANGED <<row, lock, pc, content, existing, late, wiped, faults>>

\* The storage refuses (logged only), or the process dies before it is asked.
PurgeFails(d) ==
    /\ Fault
    /\ d \in purging
    /\ purging' = purging \ {d}
    /\ UNCHANGED <<row, file, lock, pc, content, existing, late, wiped>>

Wipe(d) ==
    /\ Wipes
    /\ d \in row \cap file
    /\ file' = file \ {d}
    /\ wiped' = wiped \cup {d}
    /\ UNCHANGED <<row, lock, pc, content, existing, purging, late, faults>>

-----------------------------------------------------------------------------
Request(u) ==
    \/ RejectFile(u) \/ Validated(u) \/ CheckStored(u) \/ Repair(u) \/ RepairFails(u)
    \/ AnswerKnown(u) \/ Acquire(u) \/ RejectQuota(u) \/ Reserve(u) \/ Insert(u)
    \/ Clash(u) \/ AnswerClash(u) \/ Put(u) \/ PutFails(u)
    \/ PutAbandoned(u) \/ Commit(u) \/ CommitFails(u) \/ CommitAnswerLost(u)
    \/ Undo(u) \/ UndoFails(u) \/ Kill(u)

Next ==
    \/ \E u \in Uploads, c \in Contents : Lookup(u, c)
    \/ \E u \in Uploads : RejectUnread(u) \/ Request(u) \/ LateWrite(u)
    \/ \E d \in Uploads : DeleteRow(d) \/ Purge(d) \/ PurgeFails(d) \/ Wipe(d)

Spec == Init /\ [][Next]_vars

\* A running handler goes on (the database grants a free lock to a waiter, every
\* call returns or raises), as does delete_document after its commit.  No
\* request is assumed to arrive.
Fairness ==
    /\ \A u \in Uploads : WF_vars(Request(u))
    /\ \A u \in Uploads : SF_vars(Acquire(u))
    /\ \A d \in Uploads : WF_vars(Purge(d) \/ PurgeFails(d))

FairSpec == Spec /\ Fairness

-----------------------------------------------------------------------------
(* Properties *)

\* "Concurrent uploads cannot both pass the check": the user's documents and
\* bytes stay within the quota, though the count is read well before the row
\* is committed and a slow put lies between.
DocsWithinLimit == Cardinality(row) <= MaxDocs
BytesWithinLimit == MapThenSumSet(LAMBDA d : Size[content[d]], row) <= MaxBytes
WithinLimits == DocsWithinLimit /\ BytesWithinLimit

\* A document on record has its file, unless the environment destroyed it: no
\* undo, purge or repair of one request takes the file of another's document.
RowsHaveFiles == faults = 0 => row \subseteq file \cup wiped

\* A file belongs to a document on record, or to one being deleted, stored or
\* undone.  Beyond that only a repair that a delete overtook leaves a file.
StrayFilesAreRepairs ==
    faults = 0 => \A d \in file \ (row \cup purging) :
        \/ pc[d] \in {"stored", "undoing"}
        \/ \E u \in Uploads : existing[u] = d /\ pc[u] \in {"resetting", "duplicate", "failed"}

\* "Failed uploads leave no orphaned rows or files" (create_document) - so long
\* as nothing is cancelled, lost or killed.
FailureLeavesNothing == \A u \in Uploads : pc[u] = "failed" => u \notin row \cup file
CleanFailureLeavesNothing == faults = 0 => FailureLeavesNothing

\* Every upload is answered, and an answer is the end of it: whatever fails, the
\* next one gets the lock, and from some time on nobody waits for it.
EveryUploadAnswered == <>[](\A u \in Uploads : pc[u] \in Answered \cup {"new"})
=============================================================================
