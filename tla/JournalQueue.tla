---------------------------- MODULE JournalQueue ----------------------------
(***************************************************************************)
(* The journal of local changes (table `journal` of crates/pdcli/src/db.rs) *)
(* and the task that replays it against Proton Drive (journal_flush_loop of *)
(* crates/pdcli/src/fs.rs).                                                 *)
(*                                                                         *)
(* Kernel requests append entries while the task works on a batch it loaded *)
(* earlier; `pdcli sync retry` revives failed entries from another process; *)
(* the daemon may crash between any two steps, and only the tables survive. *)
(*                                                                         *)
(* What an entry does is abstracted to its outcome.  An upload entry        *)
(* (create_file, update_revision) is kind "upload"; create_folder, rename,  *)
(* move and delete are kind "other".  created_at grows with id, so the      *)
(* queue order is the order of ids.                                         *)
(***************************************************************************)
EXTENDS Integers, FiniteSets

CONSTANTS Inodes,        \* the files and folders
          Folders,       \* those of them that are folders
          Deferred,      \* files known remotely without an active revision
          MaxId,         \* bound: journal entries ever appended
          BatchLimit,    \* load_pending_journal(20)
          UploadWidth,   \* FILE_UPLOAD_CONCURRENCY
          RetryLimit     \* retry_count >= 10

ASSUME JournalAssumption ==
    /\ Inodes # {} /\ Folders \subseteq Inodes /\ Deferred \subseteq Inodes
    /\ MaxId \in Nat /\ RetryLimit \in Nat
    /\ BatchLimit \in Nat \ {0} /\ UploadWidth \in Nat \ {0}

Ids == 1..MaxId
Files == Inodes \ Folders

\* What the column `inode` says of a row there is not: any value.
NoRow == CHOOSE i \in Inodes : TRUE

VARIABLES
    next,       \* the id the next entry gets (AUTOINCREMENT)
    status,     \* "none", "pending", "done", "failed" or "deleted"
    retry,      \* retry_count
    kind,       \* "upload" or "other"
    inode,      \* the inode an entry is about
    dirty,      \* the inodes with the dirty flag
    noted,      \* the inodes a request has read as dirty and is about to queue
    online,     \* is_online() and not paused
    phase,      \* what the task is doing: "idle", "walk" or "sweep"
    batch,      \* entries of the pass it has not come to
    uploads,    \* file_batch: upload entries collected and not started
    running,    \* entries being processed
    seen,       \* the retry_count of an entry when it was loaded, else 0
    sweep,      \* dirty files the pass has still to queue
    revived,    \* history: pending uploads that `sync retry` made pending again
    ended       \* history: attempts of an entry that ended with a result, since
                \* it was queued or revived

table == <<next, status, retry, kind, inode>>
task == <<phase, batch, uploads, running, seen, sweep>>
history == <<revived, ended>>
vars == <<table, dirty, noted, online, task, history>>

Pending == {e \in Ids : status[e] = "pending"}
HasPending(i) == \E e \in Pending : inode[e] = i
Loaded == batch \cup uploads \cup running

\* The first n of a set of ids, in queue order.
First(S, n) == {e \in S : Cardinality({f \in S : f < e}) < n}
IsFirst(e, S) == e \in S /\ \A f \in S : e <= f

-----------------------------------------------------------------------------
Init == /\ next = 1
        /\ status = [e \in Ids |-> "none"]
        /\ retry = [e \in Ids |-> 0]
        /\ kind = [e \in Ids |-> "other"]
        /\ inode = [e \in Ids |-> NoRow]
        /\ dirty = {} /\ noted = {}
        /\ online = TRUE
        /\ phase = "idle"
        /\ batch = {} /\ uploads = {} /\ running = {} /\ sweep = {}
        /\ seen = [e \in Ids |-> 0]
        /\ revived = {}
        /\ ended = [e \in Ids |-> 0]

\* enqueue_journal: a new pending row.
Append(k, i) ==
    /\ next \in Ids
    /\ next' = next + 1
    /\ status' = [status EXCEPT ![next] = "pending"]
    /\ retry' = [retry EXCEPT ![next] = 0]
    /\ kind' = [kind EXCEPT ![next] = k]
    /\ inode' = [inode EXCEPT ![next] = i]

-----------------------------------------------------------------------------
(* The kernel's requests. *)

\* mkdir, unlink, rmdir and rename queue what they did.
Enqueue(i) ==
    /\ Append("other", i)
    /\ UNCHANGED <<dirty, noted, online, task, history>>

\* write, create and setattr mark the file.
Write(i) ==
    /\ i \in Files \ dirty
    /\ dirty' = dirty \cup {i}
    /\ UNCHANGED <<table, noted, online, task, history>>

\* release and setattr read the row, and give the lock back.
NoteDirty(i) ==
    /\ i \in dirty
    /\ noted' = noted \cup {i}
    /\ UNCHANGED <<table, dirty, online, task, history>>

\* Mutant of QueueUpload: without the has_pending_journal check.
MutQueueUpload(i) ==
    /\ i \in noted
    /\ noted' = noted \ {i}
    /\ Append("upload", i)
    /\ UNCHANGED <<dirty, online, task, history>>

\* enqueue_dirty_upload with that row, which may be clean by now: nothing when
\* the file has a pending entry of any kind, or has no revision to update.
QueueUpload(i) ==
    /\ i \in noted
    /\ noted' = noted \ {i}
    /\ \/ ~HasPending(i) /\ Append("upload", i)
       \/ (HasPending(i) \/ i \in Deferred) /\ UNCHANGED table
    /\ UNCHANGED <<dirty, online, task, history>>

\* enqueue_upload_for_row of a file .pdignore excludes: it is not dirty any more.
IgnoreUpload(i) ==
    /\ i \in noted
    /\ noted' = noted \ {i}
    /\ dirty' = dirty \ {i}
    /\ UNCHANGED <<table, online, task, history>>

-----------------------------------------------------------------------------
(* The flush task. *)

LeastRetried == {e \in Pending : \A f \in Pending : retry[e] <= retry[f]}

\* load_pending_journal: the least retried pending entries, oldest first.
BeginPass ==
    /\ phase = "idle" /\ online
    /\ batch' = First(LeastRetried, BatchLimit)
    /\ seen' = [e \in Ids |-> IF e \in batch' THEN retry[e] ELSE seen[e]]
    /\ phase' = "walk"
    /\ UNCHANGED <<table, dirty, noted, online, uploads, running, sweep, history>>

\* The next entry is an upload: keep it for a group.
Collect(e) ==
    /\ phase = "walk" /\ running = {}
    /\ IsFirst(e, batch) /\ kind[e] = "upload"
    /\ batch' = batch \ {e}
    /\ uploads' = uploads \cup {e}
    /\ UNCHANGED <<table, dirty, noted, online, phase, running, seen, sweep, history>>

AtOther(e) == IsFirst(e, batch) /\ kind[e] = "other"

\* flush_file_entries: the collected uploads start in groups of UploadWidth,
\* before an entry of another kind and at the end of the batch.
StartUploads ==
    /\ phase = "walk" /\ running = {} /\ uploads # {}
    /\ batch = {} \/ \E e \in batch : AtOther(e)
    /\ running' = First(uploads, UploadWidth)
    /\ uploads' = uploads \ running'
    /\ UNCHANGED <<table, dirty, noted, online, phase, batch, seen, sweep, history>>

\* Mutant of StartOther: without flushing the collected uploads first.
MutStartOther(e) ==
    /\ phase = "walk" /\ running = {}
    /\ AtOther(e)
    /\ batch' = batch \ {e}
    /\ running' = {e}
    /\ UNCHANGED <<table, dirty, noted, online, phase, uploads, seen, sweep, history>>

\* process_journal_entry of an entry that is no upload: alone.
StartOther(e) ==
    /\ phase = "walk" /\ running = {} /\ uploads = {}
    /\ AtOther(e)
    /\ batch' = batch \ {e}
    /\ running' = {e}
    /\ UNCHANGED <<table, dirty, noted, online, phase, uploads, seen, sweep, history>>

\* Mutant of Apply: one attempt too many.
MutApplyLate(e, outcome) ==
    /\ status' = [status EXCEPT ![e] =
           CASE outcome = "ok" -> "done"
             [] outcome = "permanent" \/ seen[e] > RetryLimit -> "failed"
             [] OTHER -> "pending"]
    /\ retry' = [retry EXCEPT ![e] = @ + 1]

\* apply_journal_result; update_journal_status counts every outcome.
Apply(e, outcome) ==
    /\ status' = [status EXCEPT ![e] =
           CASE outcome = "ok" -> "done"
             [] outcome = "permanent" \/ seen[e] >= RetryLimit -> "failed"
             [] OTHER -> "pending"]
    /\ retry' = [retry EXCEPT ![e] = @ + 1]

\* An upload that succeeds clears the dirty flag, unless the new revision
\* could not be read back or there was nothing left to upload.
Finish(e, outcome) ==
    /\ e \in running
    /\ Apply(e, outcome)
    /\ running' = running \ {e}
    /\ \/ dirty' = dirty
       \/ kind[e] = "upload" /\ outcome = "ok" /\ dirty' = dirty \ {inode[e]}
    /\ seen' = [seen EXCEPT ![e] = 0]
    /\ ended' = [ended EXCEPT ![e] = @ + 1]
    /\ revived' = {f \in revived : status'[f] = "pending"}
    /\ UNCHANGED <<next, kind, inode, noted, online, phase, batch, uploads, sweep>>

\* A panic of an upload task is logged; the entry is left as it was.
Panic(e) ==
    /\ e \in running /\ kind[e] = "upload"
    /\ running' = running \ {e}
    /\ seen' = [seen EXCEPT ![e] = 0]
    /\ UNCHANGED <<table, dirty, noted, online, phase, batch, uploads, sweep, history>>

\* delete_completed_journal: the rows are gone, and what they said with them.
DeleteCompleted ==
    LET gone == {e \in Ids : status[e] = "done"} IN
    /\ status' = [e \in Ids |-> IF e \in gone THEN "deleted" ELSE status[e]]
    /\ retry' = [e \in Ids |-> IF e \in gone THEN 0 ELSE retry[e]]
    /\ kind' = [e \in Ids |-> IF e \in gone THEN "other" ELSE kind[e]]
    /\ inode' = [e \in Ids |-> IF e \in gone THEN NoRow ELSE inode[e]]
    /\ ended' = [e \in Ids |-> IF e \in gone THEN 0 ELSE ended[e]]

\* Mutant of EndWalk: no dirty file is listed.
MutEndWalk ==
    /\ phase = "walk" /\ Loaded = {}
    /\ DeleteCompleted
    /\ sweep' = {}
    /\ phase' = "sweep"
    /\ UNCHANGED <<next, dirty, noted, online, batch, uploads, running, seen, revived>>

\* The batch is done: the completed rows go, and the dirty files are listed.
EndWalk ==
    /\ phase = "walk" /\ Loaded = {}
    /\ DeleteCompleted
    /\ sweep' = dirty
    /\ phase' = "sweep"
    /\ UNCHANGED <<next, dirty, noted, online, batch, uploads, running, seen, revived>>

\* enqueue_dirty_upload for one of them, from the row as listed.  A remote file
\* without an active revision is deferred.
SweepOne(i) ==
    /\ phase = "sweep" /\ i \in sweep
    /\ sweep' = sweep \ {i}
    /\ \/ ~HasPending(i) /\ Append("upload", i)
       \/ /\ HasPending(i) \/ i \in Deferred \/ next \notin Ids
          /\ UNCHANGED table
    /\ UNCHANGED <<dirty, noted, online, phase, batch, uploads, running, seen, history>>

EndPass ==
    /\ phase = "sweep" /\ sweep = {}
    /\ phase' = "idle"
    /\ UNCHANGED <<table, dirty, noted, online, batch, uploads, running, seen, sweep,
                   history>>

-----------------------------------------------------------------------------
(* The rest of the world. *)

\* Mutants of Retry: pending entries are reset too; applied ones are, too.
MutRetryPending(S) ==
    /\ S # {} /\ S \subseteq Ids /\ \A e \in S : status[e] \in {"failed", "pending"}
    /\ status' = [e \in Ids |-> IF e \in S THEN "pending" ELSE status[e]]
    /\ retry' = [e \in Ids |-> IF e \in S THEN 0 ELSE retry[e]]
    /\ revived' = revived \cup {e \in S : kind[e] = "upload"}
    /\ ended' = [e \in Ids |-> IF e \in S THEN 0 ELSE ended[e]]
    /\ UNCHANGED <<next, kind, inode, dirty, noted, online, task>>

MutRetry(S) ==
    /\ S # {} /\ S \subseteq Ids
    /\ status' = [e \in Ids |-> IF e \in S THEN "pending" ELSE status[e]]
    /\ retry' = [e \in Ids |-> IF e \in S THEN 0 ELSE retry[e]]
    /\ revived' = revived \cup {e \in S : kind[e] = "upload"}
    /\ ended' = [e \in Ids |-> IF e \in S THEN 0 ELSE ended[e]]
    /\ UNCHANGED <<next, kind, inode, dirty, noted, online, task>>

\* retry_failed, of one entry or of all.
Retry(S) ==
    /\ S # {} /\ S \subseteq Ids /\ \A e \in S : status[e] = "failed"
    /\ status' = [e \in Ids |-> IF e \in S THEN "pending" ELSE status[e]]
    /\ retry' = [e \in Ids |-> IF e \in S THEN 0 ELSE retry[e]]
    /\ revived' = revived \cup {e \in S : kind[e] = "upload"}
    /\ ended' = [e \in Ids |-> IF e \in S THEN 0 ELSE ended[e]]
    /\ UNCHANGED <<next, kind, inode, dirty, noted, online, task>>

RetryFailed ==
    \/ Retry({e \in Ids : status[e] = "failed"})
    \/ \E e \in Ids : Retry({e})

\* Connectivity, and the pause switch: only looked at between two passes.
Toggle ==
    /\ phase = "idle"
    /\ online' = ~online
    /\ UNCHANGED <<table, dirty, noted, task, history>>

\* The daemon dies and starts again: the tables survive, the task does not.
Crash ==
    /\ phase # "idle" \/ noted # {}
    /\ phase' = "idle" /\ noted' = {}
    /\ batch' = {} /\ uploads' = {} /\ running' = {} /\ sweep' = {}
    /\ seen' = [e \in Ids |-> 0]
    /\ UNCHANGED <<table, dirty, online, history>>

-----------------------------------------------------------------------------
Outcomes == {"ok", "transient", "permanent"}

Requests == \E i \in Inodes : \/ Enqueue(i)
                             \/ Write(i)
                             \/ NoteDirty(i)
                             \/ QueueUpload(i)
                             \/ IgnoreUpload(i)

FlushTask == \/ BeginPass
             \/ \E e \in Ids : \/ Collect(e)
                               \/ StartOther(e)
                               \/ Panic(e)
                               \/ \E o \in Outcomes : Finish(e, o)
             \/ StartUploads
             \/ EndWalk
             \/ \E i \in Inodes : SweepOne(i)
             \/ EndPass

Next == Requests \/ FlushTask \/ RetryFailed \/ Toggle \/ Crash

Spec == Init /\ [][Next]_vars

\* The task is a Tokio task that wakes at least every 5 s: it keeps taking steps.
\* Nothing is assumed of the user, the connection or the crashes.
FairSpec == Spec /\ WF_vars(FlushTask)

-----------------------------------------------------------------------------
Statuses == {"none", "pending", "done", "failed", "deleted"}

TypeOK ==
    /\ next \in 1..(MaxId + 1)
    /\ status \in [Ids -> Statuses]
    /\ retry \in [Ids -> Nat]
    /\ kind \in [Ids -> {"upload", "other"}]
    /\ inode \in [Ids -> Inodes]
    /\ dirty \subseteq Inodes /\ noted \subseteq Inodes /\ sweep \subseteq Inodes
    /\ online \in BOOLEAN
    /\ phase \in {"idle", "walk", "sweep"}
    /\ batch \subseteq Ids /\ uploads \subseteq Ids /\ running \subseteq Ids
    /\ seen \in [Ids -> Nat]
    /\ revived \subseteq Ids
    /\ ended \in [Ids -> Nat]

(* Safety: what the task works on is still what the table says.  The batch was
   loaded before other threads appended and another process revived entries,
   yet every loaded entry is pending, with the retry count that was loaded, so
   apply_journal_result decides on current values. *)
LoadedIsCurrent == \A e \in Loaded : status[e] = "pending" /\ seen[e] = retry[e]

(* Safety: within a pass entries start in queue order; an entry that is no
   upload runs alone, after every upload queued before it, so a folder exists
   before the files after it and a file is complete before it is renamed. *)
PassOrder ==
    /\ \A r \in running : \A e \in uploads \cup batch : r < e
    /\ \A u \in uploads : \A e \in batch : u < e
    /\ \A r \in running : kind[r] = "other" => running = {r} /\ uploads = {}

(* Safety: no file has two uploads queued, hence two running, unless the user
   revived one of them: a failed entry does not count as pending, so a dirty
   file is queued again beside it. *)
OneUploadPerFile ==
    \A e, f \in Pending :
        kind[e] = "upload" /\ kind[f] = "upload" /\ inode[e] = inode[f] /\ e # f
            => e \in revived \/ f \in revived

(* Safety: at most RetryLimit + 1 attempts of an entry end with a result before
   it is applied or has failed, counted anew when the user revives it.  An attempt
   that a panic or a crash cuts short has no result and is not counted anywhere,
   so the number of attempts that begin has no bound. *)
RetryBudget == \A e \in Ids : /\ ended[e] <= RetryLimit + 1
                              /\ status[e] = "pending" => ended[e] <= RetryLimit

(* Safety: the rows and the pass are well formed, and the attempts that end with
   a result are bounded. *)
AttemptsAreSound == TypeOK /\ RetryBudget

(* Action property: an entry that was applied is never tried again, whatever
   the user retries and wherever the task is. *)
AppliedStaysApplied ==
    [][\A e \in Ids : status[e] \in {"done", "deleted"}
            => status'[e] \in {"done", "deleted"} /\ e \notin running']_vars

AnyPanic == \E e \in Ids : Panic(e)

\* The connection stays up in the end, nothing crashes or panics any more and
\* the user stops reviving entries.
Quiet == <>[]online /\ <>[][~Crash /\ ~RetryFailed /\ ~AnyPanic]_vars

\* No request and no sweep queues an entry any more.
NothingNew == <>[][UNCHANGED next]_vars

(* Liveness: once nothing new is queued, every queued entry is applied or fails,
   those included that were passed over for entries with fewer retries.  The
   premise is needed: a pass loads only the least retried entries, and a dirty
   file whose upload fails for good is queued again, with no retries, after every
   pass, so as long as that goes on an entry that was tried once waits. *)
EntriesSettle ==
    Quiet /\ NothingNew => \A e \in Ids : (status[e] = "pending") ~> (status[e] # "pending")

(* Liveness: a dirty file is queued or settled even if no handle of it is ever
   released again (a crash, or a release that found another entry pending);
   bound: unless the journal is full. *)
DirtyFilesAreQueued ==
    Quiet => \A i \in Inodes \ Deferred :
        (i \in dirty) ~> (i \notin dirty \/ HasPending(i) \/ next \notin Ids)

(* Liveness: the queue takes in every dirty file and settles every entry. *)
QueueSettles == EntriesSettle /\ DirtyFilesAreQueued
=============================================================================
