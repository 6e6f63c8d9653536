------------------------------ MODULE FileSync ------------------------------
(***************************************************************************)
(* The life of one file of the mount (crates/pdcli/src/fs.rs): its row in   *)
(* the database, its copies in the cache directory, its pending journal     *)
(* entry and its revisions on the server.  Six parties change them: FUSE    *)
(* requests, availability changes (setxattr), the upload of the journal     *)
(* flush loop, the event poll loop, the background listing of its folder    *)
(* and other clients.                                                       *)
(*                                                                         *)
(* What a file holds is a number: Empty, 1..MaxEdits for the user's edits   *)
(* in their order, and above that for the edits of other clients.           *)
(*                                                                         *)
(* features says which of the parties work side by side in a behaviour:     *)
(*   "concurrent"  requests overlap each other and uploads;                 *)
(*   "events"      remote events arrive;      "listing"  folders are listed; *)
(*   "remote"      another client edits the file;                           *)
(*   "truncate"    files that are online-only are truncated.                *)
(* A download into the cache is one step here; one seen half-way is the     *)
(* subject of FileCache.                                                    *)
(***************************************************************************)
EXTENDS Integers, Sequences

CONSTANTS MaxEdits,     \* bound: edits of the user
          MaxRevisions, \* bound: revisions on the server
          Modes         \* the sets of features a behaviour may have

AllFeatures == {"concurrent", "events", "listing", "remote", "truncate"}

FileAssumption ==
    MaxEdits \in Nat /\ MaxRevisions \in Nat /\ Modes \subseteq SUBSET AllFeatures
ASSUME FileIsGiven == FileAssumption

VARIABLES features, \* one of Modes
          row,      \* the inode: node (it has a node_uid), rev (revision_uid, 0 for
                    \* none), cached (cached_path) and dirty
          disk,     \* what each path of the cache directory holds
          handle,   \* the file an open handle writes to: a path, Orphan or None
          opening,  \* the revision open downloads, 0 for none
          freeing,  \* the row setxattr has read to free the copy, or NoRow
          edit,     \* the last edit the user was told is written
          journal,  \* the pending entry: kind ("none" for none), rev and path
          upload,   \* the entry in process: pc, kind, path, rev and data
          content,  \* the revisions on the server, what each holds
          event,    \* an update event of the file was not polled yet
          listed    \* the revision a listing in progress has seen, 0 for none

vars == <<features, row, disk, handle, opening, freeing, edit, journal, upload, content,
          event, listed>>
local == <<row, disk, handle>>
remote == <<content, event>>

None == -1                    \* no path, no file
Orphan == -2                  \* a file that was unlinked while it is open
Created == 0                  \* the path create makes: the inode's number
Reopened == MaxRevisions + 1  \* cache_path_for: "ino-" and the inode's number
Paths == 0..(MaxRevisions + 1)    \* the others are cache_path_for_revision
Empty == 0
Contents == 0..(MaxEdits + MaxRevisions)
NoRow == [node |-> FALSE, rev |-> 0, cached |-> None, dirty |-> TRUE]
NoEntry == [kind |-> "none", rev |-> 0, path |-> None]
Idle == [pc |-> "idle", kind |-> "none", path |-> None, rev |-> 0, data |-> Empty]

Current == Len(content)                 \* the active revision, 0 before the first
Stored == {content[i] : i \in 1..Current}
Concurrent == "concurrent" \in features

\* A request of the user may start: without "concurrent" they come one by one.
MayRequest == Concurrent \/ (upload = Idle /\ opening = 0 /\ freeing = NoRow)

\* The file is just created (the create handler), and open.
Init == /\ features \in Modes
        /\ row = [node |-> FALSE, rev |-> 0, cached |-> Created, dirty |-> TRUE]
        /\ disk = [p \in Paths |-> IF p = Created THEN Empty ELSE None]
        /\ handle = Created
        /\ opening = 0 /\ freeing = NoRow /\ edit = 0
        /\ journal = NoEntry /\ upload = Idle
        /\ content = <<>> /\ event = FALSE /\ listed = 0

Exists(p) == p # None /\ disk[p] # None

\* remove_file: an open file lives on without a name.
Remove(paths) ==
    /\ disk' = [p \in Paths |-> IF p \in paths THEN None ELSE disk[p]]
    /\ handle' = IF handle \in paths THEN Orphan ELSE handle

\* move_cache_to_revision_path: an open file keeps its handle; nothing happens
\* when there is no file to move.
Move(p, q) ==
    IF p = q \/ ~Exists(p) THEN UNCHANGED <<disk, handle>>
    ELSE /\ disk' = [disk EXCEPT ![q] = disk[p], ![p] = None]
         /\ handle' = CASE handle = p -> q
                        [] handle = q -> Orphan
                        [] OTHER -> handle

\* enqueue_dirty_upload, of a row whose revision may have been refreshed: the
\* file has no pending entry, and one that has a node but no revision waits.
Enqueue(r) ==
    IF ~r.dirty \/ journal # NoEntry \/ (r.node /\ r.rev = 0) THEN UNCHANGED journal
    ELSE journal' = [kind |-> IF r.node THEN "update" ELSE "create",
                     rev |-> r.rev, path |-> r.cached]

-----------------------------------------------------------------------------
(* FUSE requests. *)

\* open, with a copy in the cache, or one left there for this revision.
OpenCached ==
    /\ MayRequest /\ handle = None /\ opening = 0
    /\ \E p \in {row.cached} \cup (IF Exists(row.cached) \/ row.rev = 0
                                   THEN {} ELSE {row.rev}) :
          /\ Exists(p)
          /\ handle' = p
          /\ row' = [row EXCEPT !.cached = p]
    /\ UNCHANGED <<features, disk, opening, freeing, edit, journal, upload, remote, listed>>

\* open, of a file that has neither a copy nor a revision: it is taken to be new.
OpenNew ==
    /\ MayRequest /\ handle = None /\ opening = 0
    /\ ~Exists(row.cached) /\ row.rev = 0
    /\ disk' = [disk EXCEPT ![Reopened] = IF @ = None THEN Empty ELSE @]
    /\ handle' = Reopened
    /\ row' = [row EXCEPT !.cached = Reopened]
    /\ UNCHANGED <<features, opening, freeing, edit, journal, upload, remote, listed>>

\* open, of a file that must be downloaded.
OpenOnline ==
    /\ MayRequest /\ handle = None /\ opening = 0
    /\ ~Exists(row.cached) /\ row.rev # 0 /\ ~Exists(row.rev)
    /\ opening' = row.rev
    /\ UNCHANGED <<features, local, freeing, edit, journal, upload, remote, listed>>

\* The download ends, without the database lock held in between; or it fails.
Downloaded ==
    /\ opening # 0
    /\ \/ /\ disk' = [disk EXCEPT ![opening] = content[opening]]
          /\ handle' = opening
          /\ row' = [row EXCEPT !.cached = opening]
       \/ /\ Remove({opening}) /\ UNCHANGED row
    /\ opening' = 0
    /\ UNCHANGED <<features, freeing, edit, journal, upload, remote, listed>>

\* write
Write ==
    /\ MayRequest /\ handle # None /\ edit < MaxEdits
    /\ edit' = edit + 1
    /\ disk' = IF handle = Orphan THEN disk ELSE [disk EXCEPT ![handle] = edit + 1]
    /\ row' = [row EXCEPT !.dirty = TRUE]
    /\ UNCHANGED <<features, handle, opening, freeing, journal, upload, remote, listed>>

\* enqueue_upload_for_row asks for the revision of a file that has a node and no
\* revision; the request may fail.
Refreshed(r) == IF r.node /\ r.rev = 0 THEN {r, [r EXCEPT !.rev = Current]} ELSE {r}

\* release
Release ==
    /\ MayRequest /\ handle # None
    /\ handle' = None
    /\ \E r \in Refreshed(row) : Enqueue(r)
    /\ UNCHANGED <<features, row, disk, opening, freeing, edit, upload, remote, listed>>

\* setattr with a size.
Truncate ==
    /\ MayRequest /\ edit < MaxEdits
    /\ Exists(row.cached) \/ "truncate" \in features
    /\ edit' = edit + 1
    /\ disk' = IF Exists(row.cached) THEN [disk EXCEPT ![row.cached] = edit + 1] ELSE disk
    /\ row' = [row EXCEPT !.dirty = TRUE]
    /\ \E r \in Refreshed(row') : Enqueue(r)
    /\ UNCHANGED <<features, handle, opening, freeing, upload, remote, listed>>

\* setxattr "online-only": the row is read, and the database lock is dropped.
FreeUp ==
    /\ MayRequest /\ freeing = NoRow
    /\ freeing' = row
    /\ UNCHANGED <<features, local, opening, edit, journal, upload, remote, listed>>

\* Mutant of FreeUpSpace: open files are freed too.
MutFreeUpSpace ==
    /\ freeing # NoRow
    /\ freeing' = NoRow
    /\ IF freeing.dirty \/ freeing.rev = 0 THEN UNCHANGED local
       ELSE /\ Remove({freeing.cached, freeing.rev} \ {None})
            /\ row' = [row EXCEPT !.cached = None]
    /\ UNCHANGED <<features, opening, edit, journal, upload, remote, listed>>

\* free_up_space with that row: refused when it is dirty, has no revision or a
\* pending entry, or the file is open.
FreeUpSpace ==
    /\ freeing # NoRow
    /\ freeing' = NoRow
    /\ IF freeing.dirty \/ freeing.rev = 0 \/ journal # NoEntry \/ handle # None
       THEN UNCHANGED local
       ELSE /\ Remove({freeing.cached, freeing.rev} \ {None})
            /\ row' = [row EXCEPT !.cached = None]
    /\ UNCHANGED <<features, opening, edit, journal, upload, remote, listed>>

-----------------------------------------------------------------------------
(* The journal flush loop: process_journal_entry. *)

\* The entry is read with its row; some end here.
Begin ==
    /\ upload = Idle /\ journal # NoEntry
    /\ LET path == IF row.cached # None THEN row.cached ELSE journal.path IN
       IF (journal.kind = "create" /\ row.node /\ row.rev # 0) \/ path = None
       THEN journal' = NoEntry /\ UNCHANGED upload
       ELSE /\ upload' = [pc |-> "open", kind |-> journal.kind, path |-> path,
                          rev |-> journal.rev, data |-> Empty]
            /\ UNCHANGED journal
    /\ UNCHANGED <<features, local, opening, freeing, edit, remote, listed>>

\* An error: the entry is tried again, or has failed for good.
Fail == upload' = Idle /\ journal' \in {journal, NoEntry}

\* The file is opened and read.
ReadFile ==
    /\ upload.pc = "open"
    /\ IF Exists(upload.path)
       THEN /\ upload' = [upload EXCEPT !.pc = "commit", !.data = disk[upload.path]]
            /\ UNCHANGED journal
       ELSE upload' = Idle /\ journal' = NoEntry
    /\ UNCHANGED <<features, local, opening, freeing, edit, remote, listed>>

UploadFails ==
    /\ upload.pc \in {"open", "commit"}
    /\ Fail
    /\ UNCHANGED <<features, local, opening, freeing, edit, remote, listed>>

\* Mutant of Accepted: an update supersedes whatever is there.
MutAccepted == TRUE

\* The server takes a new file, a revision of the file of that name when it
\* exists already, and an update of its active revision.
Accepted == upload.kind = "create" \/ upload.rev = Current

\* The revision is committed; its answer may be lost.
Commit ==
    /\ upload.pc = "commit" /\ Accepted /\ Current < MaxRevisions
    /\ content' = Append(content, upload.data)
    /\ event' = (event \/ Current > 0)
    /\ \/ /\ upload' = [upload EXCEPT
                          !.pc = IF upload.kind = "create" THEN "node" ELSE "fetch"]
          /\ UNCHANGED journal
       \/ Fail
    /\ UNCHANGED <<features, local, opening, freeing, edit, listed>>

\* Mutant of SetNode: the row does not get its node.
MutSetNode ==
    /\ upload.pc = "node"
    /\ row' = [row EXCEPT !.dirty = FALSE]
    /\ upload' = [upload EXCEPT !.pc = "fetch"]
    /\ UNCHANGED <<features, disk, handle, opening, freeing, edit, journal, remote, listed>>

\* create_file: the row gets its node, and is not dirty any more.
SetNode ==
    /\ upload.pc = "node"
    /\ row' = [row EXCEPT !.node = TRUE, !.dirty = FALSE]
    /\ upload' = [upload EXCEPT !.pc = "fetch"]
    /\ UNCHANGED <<features, disk, handle, opening, freeing, edit, journal, remote, listed>>

\* get_node_uncached: the active revision; or it fails and the entry is done.
FetchNode ==
    /\ upload.pc = "fetch"
    /\ \/ /\ upload' = [upload EXCEPT !.pc = "move", !.rev = Current]
          /\ UNCHANGED journal
       \/ upload' = Idle /\ journal' = NoEntry
    /\ UNCHANGED <<features, local, opening, freeing, edit, remote, listed>>

\* create_file: under the lock, the row and the path get the revision.
CreateDone ==
    /\ upload.pc = "move" /\ upload.kind = "create"
    /\ Move(upload.path, upload.rev)
    /\ row' = [row EXCEPT !.rev = upload.rev, !.cached = upload.rev]
    /\ upload' = Idle /\ journal' = NoEntry
    /\ UNCHANGED <<features, opening, freeing, edit, remote, listed>>

\* update_revision: the file is moved before the lock is taken,
MoveFile ==
    /\ upload.pc = "move" /\ upload.kind = "update"
    /\ Move(upload.path, upload.rev)
    /\ upload' = [upload EXCEPT !.pc = "row"]
    /\ UNCHANGED <<features, row, opening, freeing, edit, journal, remote, listed>>

\* and the row gets the revision, and is not dirty any more.
UpdateDone ==
    /\ upload.pc = "row"
    /\ row' = [row EXCEPT !.rev = upload.rev, !.cached = upload.rev, !.dirty = FALSE]
    /\ upload' = Idle /\ journal' = NoEntry
    /\ UNCHANGED <<features, disk, handle, opening, freeing, edit, remote, listed>>

\* The walk over dirty files at the end of a pass.
QueueDirty ==
    /\ upload = Idle
    /\ Enqueue(row)
    /\ UNCHANGED <<features, local, opening, freeing, edit, upload, remote, listed>>

-----------------------------------------------------------------------------
(* The rest of the world. *)

\* event_poll_loop, an UpdateContent or UpdateMetadata event of a known link.
PollEvent ==
    /\ "events" \in features /\ event
    /\ event' = FALSE
    /\ IF row.node
       THEN /\ Remove({row.cached} \ {None})
            /\ row' = [row EXCEPT !.cached = None]
       ELSE UNCHANGED local
    /\ UNCHANGED <<features, opening, freeing, edit, journal, upload, content, listed>>

\* populate_folder_children lists the folder,
List ==
    /\ "listing" \in features /\ listed = 0 /\ Current > 0
    /\ listed' = Current
    /\ UNCHANGED <<features, local, opening, freeing, edit, journal, upload, remote>>

\* and then updates the row of a node it knows: update_remote_metadata.
ApplyListing ==
    /\ listed # 0
    /\ listed' = 0
    /\ row' = IF ~row.node THEN row
              ELSE [row EXCEPT !.rev = listed,
                               !.cached = IF row.rev # listed THEN None ELSE @]
    /\ UNCHANGED <<features, disk, handle, opening, freeing, edit, journal, upload, remote>>

\* Another client edits the file.
RemoteEdit ==
    /\ "remote" \in features /\ Current \in 1..(MaxRevisions - 1)
    /\ content' = Append(content, MaxEdits + Current)
    /\ event' = TRUE
    /\ UNCHANGED <<features, local, opening, freeing, edit, journal, upload, listed>>

\* The daemon is killed and started again; the database and the files remain.
Restart ==
    /\ <<handle, opening, freeing, upload, listed>> # <<None, 0, NoRow, Idle, 0>>
    /\ handle' = None /\ opening' = 0 /\ freeing' = NoRow
    /\ upload' = Idle /\ listed' = 0
    /\ UNCHANGED <<features, row, disk, edit, journal, remote>>

-----------------------------------------------------------------------------
User == OpenCached \/ OpenNew \/ OpenOnline \/ Downloaded \/ Write \/ Release
        \/ Truncate \/ FreeUp \/ FreeUpSpace
Flush == Begin \/ ReadFile \/ UploadFails \/ Commit \/ SetNode \/ FetchNode
         \/ CreateDone \/ MoveFile \/ UpdateDone \/ QueueDirty
World == PollEvent \/ List \/ ApplyListing \/ RemoteEdit \/ Restart

Next == User \/ Flush \/ World

Spec == Init /\ [][Next]_vars

-----------------------------------------------------------------------------
Rows == [node : BOOLEAN, rev : 0..MaxRevisions, cached : Paths \cup {None},
         dirty : BOOLEAN]

TypeOK ==
    /\ features \in Modes
    /\ row \in Rows
    /\ disk \in [Paths -> Contents \cup {None}]
    /\ handle \in Paths \cup {None, Orphan}
    /\ opening \in 0..MaxRevisions /\ freeing \in Rows
    /\ edit \in 0..MaxEdits
    /\ journal \in [kind : {"none", "create", "update"}, rev : 0..MaxRevisions,
                    path : Paths \cup {None}]
    /\ upload \in [pc : {"idle", "open", "commit", "node", "fetch", "move", "row"},
                   kind : {"none", "create", "update"}, path : Paths \cup {None},
                   rev : 0..MaxRevisions, data : Contents]
    /\ content \in Seq(Contents) /\ Current <= MaxRevisions
    /\ event \in BOOLEAN /\ listed \in 0..MaxRevisions

(* Safety: the last edit the user was told is written is on the server, or in the
   file the row points to, whatever fails, is lost or restarts and whatever other
   clients do, as long as requests and uploads come one at a time and neither
   events nor listings touch the file. *)
NoEditIsLost ==
    features \subseteq {"remote"} =>
        \/ edit \in Stored \cup {0}
        \/ Exists(row.cached) /\ disk[row.cached] = edit

(* Action property, the comment of free_up_space (fs.rs:765): only what is safely
   stored is freed.  A write during the upload makes it fail: the end of the upload
   clears the dirty flag of the newer edit. *)
FreesOnlyStored ==
    [][freeing # NoRow /\ freeing' = NoRow /\ row.cached # None /\ row'.cached = None =>
          edit \in Stored \cup {0}]_vars

(* Safety, under the same conditions: a file that is not dirty has its last edit
   on the server.  The flush loop never looks at it again, and free_up_space may
   delete it. *)
CleanIsStored ==
    features \subseteq {"remote"} => (~row.dirty => edit \in Stored \cup {0})

(* Safety, the claim of fs.rs:639: a copy under the path of a revision is that
   revision's, as long as the file is not dirty, also when events remove copies
   and empty files are truncated.  Another client's edit at the end of an upload
   breaks it, and so does a request that overlaps the upload. *)
CopyIsOfItsRevision ==
    features \subseteq {"events", "truncate"} =>
        (~row.dirty /\ row.cached \in 1..Current /\ Exists(row.cached) =>
             disk[row.cached] = content[row.cached])

(* Safety: the row knows no revision that the server does not have, and a file
   with a revision has a node. *)
RevisionIsReal ==
    /\ row.rev <= Current /\ (row.rev # 0 => row.node)
    /\ row.node => Current > 0

(* Safety: the row is well formed, what it says of the server and of the copy is
   true, and a file that is not dirty is stored, in the modes each part names. *)
RowIsSound == TypeOK /\ RevisionIsReal /\ CleanIsStored /\ CopyIsOfItsRevision

(* Safety: the row is sound, and no edit is lost. *)
ContentsAreSound == RowIsSound /\ NoEditIsLost

(* Action property: an upload never puts an older edit of the user on top of a
   newer one that the server has, as long as requests and uploads come one at a
   time and no listing sets a row back to an older revision.  With overlapping
   requests it does: an open that downloads a revision while the upload of the next
   one ends sets the row back to the older copy. *)
UploadsDoNotGoBack ==
    [][(features \cap {"listing", "concurrent"} = {} /\ Current' > Current
        /\ content'[Current'] \in 1..MaxEdits) =>
          \A c \in Stored \cap 1..MaxEdits : c <= content'[Current']]_vars
=============================================================================
