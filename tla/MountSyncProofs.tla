--------------------------- MODULE MountSyncProofs ---------------------------
(******************************************************************************)
(* Proofs about two parts of the mount.  The file of FileSync is sound for    *)
(* any number of edits and revisions, and uploads stay in the order of the    *)
(* edits; and no kill in the migration of the database loses what was         *)
(* committed, for any number of kills, files and entries.                     *)
(*                                                                            *)
(* Neither property of the file is inductive: both depend on where its one    *)
(* copy is while an upload moves it.  FileInv says it in five steps:          *)
(*   Real     what is known of the server is true of it, in every mode;       *)
(*   OneByOne when requests and uploads come one at a time, the copy is under *)
(*            the path of the row's revision, an open handle is on it, and    *)
(*            the entry and the upload are about it and about that revision;  *)
(*   Order    what can be uploaded next is no older than what the server has; *)
(*   Kept     the last edit is on the server, in the copy or in the upload,   *)
(*            when there is nothing but other clients besides;                *)
(*   Copies   a clean copy holds what the server has of its revision, when    *)
(*            there are no other clients.                                     *)
(* Order, Kept and Copies each rest on OneByOne and not on each other.        *)
(*                                                                            *)
(* DatabaseInv says of the database who may be where: whoever migrates it     *)
(* does so alone, on a copy of its own (OneMigrates, CopyIsWhole), and the    *)
(* root rows are what each statement of the daemon leaves (RootsMove).        *)
(******************************************************************************)
EXTENDS MCMountSync, SequenceTheorems, TLAPS

\* Whether requests and uploads come one at a time, and no listing runs; whether there
\* is nothing but other clients besides; and whether there are no other clients.
Sequential == features \cap {"concurrent", "listing"} = {}
OneParty == features \subseteq {"remote"}
OwnEdits == features \subseteq {"events", "truncate"}

Sent == {"node", "fetch", "move", "row"}

\* What is said of the server, with every feature: no revision is known that it does
\* not have, and an upload under way has its entry.
Real ==
    /\ RevisionIsReal
    /\ listed <= Current /\ opening <= Current
    /\ journal # NoEntry => journal.kind # "none"
    /\ journal.kind = "update" => row.node
    /\ upload = Idle <=> upload.pc = "idle"
    /\ upload # Idle => upload.kind # "none"
    /\ upload.kind = "update" => row.node
    /\ upload.pc = "node" => upload.kind = "create"
    /\ upload.pc = "row" => upload.kind = "update"
    /\ upload.pc \in Sent => Current > 0
    /\ upload.pc \in {"fetch", "move"} => row.node
    /\ upload.pc \in {"move", "row"} => upload.rev \in 1..Current
    /\ upload # Idle => journal # NoEntry

\* Where the copy of the file can be, one step at a time: under the path of its
\* revision, or of its inode as long as it has none.
Places ==
    /\ listed = 0
    /\ freeing.rev # 0 => row.rev # 0
    /\ row.rev # 0 => row.cached \in {row.rev, None}
    /\ row.rev = 0 => row.cached \in {Created, Reopened, None}
    /\ row.rev = 0 => \A p \in {Created, Reopened} : Exists(p) => p = row.cached
    /\ \A j \in 1..MaxRevisions : Exists(j) => j <= Current

\* A file that is being opened has no copy.
Opening ==
    opening # 0 =>
      /\ handle = None /\ opening = row.rev /\ ~Exists(row.cached) /\ ~Exists(opening)
      /\ upload.pc \in {"idle", "open"}

\* An open file is that of the row, or the one an upload has just moved.
Handle == handle \notin {None, Orphan} =>
             /\ Exists(handle)
             /\ handle = row.cached \/ (upload.pc = "row" /\ handle = upload.rev)

\* The journal entry is about the copy and the revision of the row.
Entry ==
    /\ Exists(journal.path) => row.cached = journal.path
    /\ journal.path \in {None, Created, Reopened} \cup 1..row.rev
    /\ journal.rev <= Current
    /\ journal.kind = "update" => row.rev \in {0, journal.rev}

\* So is the upload that was made of it, and the new revision has no copy yet.
Upload ==
    /\ upload.rev <= Current
    /\ upload.kind = "create" => row.rev = 0
    /\ upload.pc \in {"open", "commit"} /\ upload.kind = "update" => row.rev \in {0, upload.rev}
    /\ upload.pc = "open" /\ Exists(upload.path) => row.cached = upload.path
    /\ upload.pc \in {"commit", "node", "fetch", "move"} =>
         \/ row.cached = upload.path /\ upload.path # None /\ disk[upload.path] = upload.data
         \/ row.cached = None /\ ~Exists(upload.path)
    /\ upload.pc \in Sent => row.rev < Current
    /\ upload.pc \in {"node", "fetch"} => disk[Current] = None
    /\ upload.pc = "move" => disk[upload.rev] = None
    /\ upload.pc \in {"move", "row"} => upload.rev > row.rev
    /\ upload.pc = "row" => /\ row.cached \in {upload.path, None} /\ ~Exists(upload.path)
                            /\ Exists(upload.rev) => disk[upload.rev] = upload.data

\* No edit of the user on the server is newer than v, if v is an edit of the user.
Edits == 1..MaxEdits
Newest(S, v) == v \in Edits => \A c \in S \cap Edits : c <= v
Fresh(v) == Newest(Stored, v)

\* What may be uploaded next is not older than what the server has.
Order ==
    /\ \A c \in Stored \cap Edits : c <= edit
    /\ \A p \in Paths : disk[p] \in Edits => disk[p] <= edit
    /\ Current > 0 => Fresh(content[Current])
    /\ row.rev = 0 => \A p \in {Created, Reopened} : Exists(p) => Fresh(disk[p])
    /\ row.rev # 0 /\ row.rev = Current /\ Exists(row.rev) => Fresh(disk[row.rev])
    /\ upload.data \in Edits => upload.data <= edit
    /\ upload.pc = "commit" /\ (upload.kind = "create" \/ upload.rev = Current)
          => Fresh(upload.data)
    /\ upload.pc \in Sent => Fresh(upload.data)

\* The last edit is on the server, in the copy of the row, or in the upload of it.
Safe == edit \in Stored \cup {0}
Kept ==
    /\ Safe \/ (Exists(row.cached) /\ disk[row.cached] = edit)
    /\ ~row.dirty => Safe
    /\ row.cached = None => ~row.dirty /\ journal = NoEntry
    /\ opening # 0 => Safe
    /\ upload.pc = "commit" => Safe \/ upload.data = edit
    /\ upload.pc \in Sent => Safe
    /\ handle # Orphan
    /\ ~freeing.dirty => ~row.dirty

\* A clean copy is that of its revision, and the last revision is what was uploaded.
Copies ==
    /\ row.rev # 0 /\ ~row.dirty /\ Exists(row.rev) => disk[row.rev] = content[row.rev]
    /\ upload.pc \in {"node", "fetch"} => content[Current] = upload.data
    /\ upload.pc \in {"move", "row"} => upload.rev = Current /\ content[Current] = upload.data

Facts == FileAssumption /\ TypeOK /\ Real
-----------------------------------------------------------------------------
\* The first state.
LEMMA Start == FileAssumption /\ Init => TypeOK /\ Real
<1> SUFFICES ASSUME FileAssumption, Init PROVE TypeOK /\ Real
    OBVIOUS
<1> USE DEF Init, FileAssumption
<1>1. content \in Seq(Contents) /\ Current = 0
  BY EmptySeq DEF Current
<1>2. TypeOK
  BY <1>1 DEF TypeOK, Rows, Paths, Contents, None, Orphan, Created, Empty, NoRow, NoEntry,
     Idle
<1>3. Real
  BY <1>1 DEF Real, RevisionIsReal, NoEntry, Idle, Sent, NoRow, None
<1> QED BY <1>2, <1>3

\* The parts of the state, each in its range.
LEMMA Ranges ==
    ASSUME Facts
    PROVE  /\ MaxEdits \in Nat /\ MaxRevisions \in Nat
           /\ row \in Rows /\ row.rev \in 0..MaxRevisions /\ row.node \in BOOLEAN
           /\ row.dirty \in BOOLEAN /\ row.cached \in Paths \cup {None}
           /\ disk \in [Paths -> Contents \cup {None}]
           /\ opening \in 0..MaxRevisions /\ listed \in 0..MaxRevisions
           /\ edit \in 0..MaxEdits /\ content \in Seq(Contents)
           /\ Current \in 0..MaxRevisions
           /\ 0 .. MaxRevisions \subseteq Paths /\ Created \in Paths /\ Reopened \in Paths
           /\ 0 .. MaxEdits \subseteq Contents
BY DEF Facts, FileAssumption, TypeOK, Rows, Current, Paths, Contents, Created, Reopened

\* What the helpers of the model do to the file, the handle and the entry.
LEMMA RemoveEffect ==
    ASSUME Facts, NEW S, Remove(S)
    PROVE  /\ disk' \in [Paths -> Contents \cup {None}]
           /\ handle' \in Paths \cup {None, Orphan}
           /\ \A p \in Paths : disk'[p] = IF p \in S THEN None ELSE disk[p]
           /\ handle' = IF handle \in S THEN Orphan ELSE handle
BY DEF Facts, TypeOK, Remove

LEMMA MoveEffect ==
    ASSUME Facts, NEW p \in Paths \cup {None}, NEW q \in 0..MaxRevisions, Move(p, q)
    PROVE  /\ disk' \in [Paths -> Contents \cup {None}]
           /\ handle' \in Paths \cup {None, Orphan}
           /\ p = q \/ ~Exists(p) => disk' = disk /\ handle' = handle
           /\ p # q /\ Exists(p) =>
                /\ p \in Paths
                /\ \A x \in Paths : disk'[x] = IF x = p THEN None
                                               ELSE IF x = q THEN disk[p] ELSE disk[x]
                /\ handle' = IF handle = p THEN q ELSE IF handle = q THEN Orphan ELSE handle
<1>1. q \in Paths /\ disk \in [Paths -> Contents \cup {None}]
      /\ handle \in Paths \cup {None, Orphan}
  BY Ranges DEF Facts, TypeOK
<1>2. CASE p = q \/ ~Exists(p)
  BY <1>1, <1>2 DEF Move
<1>3. CASE p # q /\ Exists(p)
  <2>1. p \in Paths /\ disk[p] \in Contents \cup {None}
    BY <1>1, <1>3 DEF Exists
  <2>2. /\ disk' = [disk EXCEPT ![q] = disk[p], ![p] = None]
        /\ handle' = CASE handle = p -> q
                        [] handle = q -> Orphan
                        [] OTHER -> handle
    BY <1>3 DEF Move
  <2>3. handle' = IF handle = p THEN q ELSE IF handle = q THEN Orphan ELSE handle
    BY <1>3, <2>2
  <2> QED BY <1>1, <1>3, <2>1, <2>2, <2>3
<1> QED BY <1>2, <1>3

LEMMA EnqueueEffect ==
    ASSUME Facts, NEW r \in Rows, Enqueue(r)
    PROVE  \/ journal' = journal
           \/ /\ r.dirty /\ journal = NoEntry /\ (r.node => r.rev # 0)
              /\ journal' = [kind |-> IF r.node THEN "update" ELSE "create",
                             rev |-> r.rev, path |-> r.cached]
BY DEF Enqueue, Rows


-----------------------------------------------------------------------------
Kinds == {"none", "create", "update"}
Stages == {"idle", "open", "commit", "node", "fetch", "move", "row"}
FileEntries == [kind : Kinds, rev : 0..MaxRevisions, path : Paths \cup {None}]
Uploads == [pc : Stages, kind : Kinds, path : Paths \cup {None}, rev : 0..MaxRevisions,
            data : Contents]

LEMMA EnqueueTyped ==
    ASSUME Facts, NEW r \in Rows, Enqueue(r)
    PROVE  journal' \in FileEntries
<1>1. journal \in FileEntries
  BY DEF Facts, TypeOK, FileEntries, Kinds
<1> QED BY <1>1, EnqueueEffect DEF Rows, FileEntries, Kinds

LEMMA RefreshedTyped ==
    ASSUME Facts, NEW q \in Rows, NEW r \in Refreshed(q)
    PROVE  /\ r \in Rows /\ r.node = q.node /\ r.dirty = q.dirty /\ r.cached = q.cached
           /\ r.rev # 0 => r.rev = q.rev \/ (q.rev = 0 /\ r.rev = Current /\ q.node)
BY Ranges DEF Refreshed, Rows

\* Every step keeps the types.
LEMMA TypesStay == Facts /\ [Next]_vars => TypeOK'
<1> SUFFICES ASSUME Facts, [Next]_vars PROVE TypeOK'
    OBVIOUS
<1>0. /\ features \in Modes /\ row \in Rows /\ disk \in [Paths -> Contents \cup {None}]
      /\ handle \in Paths \cup {None, Orphan} /\ opening \in 0..MaxRevisions
      /\ freeing \in Rows /\ edit \in 0..MaxEdits /\ journal \in FileEntries
      /\ upload \in Uploads /\ content \in Seq(Contents) /\ Current \in 0..MaxRevisions
      /\ event \in BOOLEAN /\ listed \in 0..MaxRevisions
  BY Ranges DEF Facts, TypeOK, FileEntries, Uploads, Kinds, Stages
<1>1. /\ NoRow \in Rows /\ NoEntry \in FileEntries /\ Idle \in Uploads /\ Empty \in Contents
      /\ None \in Paths \cup {None} /\ Orphan \in Paths \cup {None, Orphan}
  BY Ranges DEF NoRow, NoEntry, Idle, Rows, FileEntries, Uploads, Kinds, Stages, Contents, Empty
<1>2. \A p \in Paths \cup {None} : [row EXCEPT !.cached = p] \in Rows
  BY <1>0 DEF Rows
<1>3. \A n \in BOOLEAN, d \in BOOLEAN : [row EXCEPT !.node = n, !.dirty = d] \in Rows
  BY <1>0 DEF Rows
<1>4. [row EXCEPT !.dirty = TRUE] \in Rows
  BY <1>0 DEF Rows
<1>5. features' = features
  BY DEF Next, User, Flush, World, vars, OpenCached, OpenNew, OpenOnline, Downloaded, Write,
         Release, Truncate, FreeUp, FreeUpSpace, Begin, ReadFile, UploadFails, Commit,
            SetNode,
         FetchNode, CreateDone, MoveFile, UpdateDone, QueueDirty, PollEvent, List,
         ApplyListing, RemoteEdit, Restart
<1>6. CASE User
  <2>1. /\ upload' = upload /\ content' = content /\ event' = event /\ listed' = listed
        /\ Current' = Current
    BY <1>6 DEF User, OpenCached, OpenNew, OpenOnline, Downloaded, Write, Release, Truncate,
                FreeUp, FreeUpSpace, remote, Current
  <2>2. row' \in Rows
    <3>1. \/ row' = row \/ row' = [row EXCEPT !.dirty = TRUE]
          \/ \E p \in Paths \cup {None} : row' = [row EXCEPT !.cached = p]
      BY <1>0, <1>6, Ranges DEF User, OpenCached, OpenNew, OpenOnline, Downloaded, Write,
         Release,
             Truncate, FreeUp, FreeUpSpace, local, Exists
    <3> QED BY <1>0, <1>2, <1>4, <3>1
  <2>3. disk' \in [Paths -> Contents \cup {None}] /\ handle' \in Paths \cup {None, Orphan}
    <3>1. CASE OpenCached \/ OpenOnline \/ Release \/ FreeUp
      BY <1>0, <3>1, Ranges DEF OpenCached, OpenOnline, Release, FreeUp, local, Exists
    <3>2. CASE OpenNew
      BY <1>0, <1>1, <3>2, Ranges DEF OpenNew
    <3>3. CASE Downloaded
      <4>1. opening \in 1..Len(content) /\ opening \in Paths
        BY <1>0, <3>3, Ranges DEF Downloaded, Facts, Real, Current
      <4>2. content[opening] \in Contents
        BY <1>0, <4>1
      <4>3. CASE Remove({opening})
        BY <4>3, RemoveEffect
      <4>4. CASE disk' = [disk EXCEPT ![opening] = content[opening]] /\ handle' = opening
        BY <1>0, <4>1, <4>2, <4>4
      <4> QED BY <3>3, <4>3, <4>4 DEF Downloaded
    <3>4. CASE Write \/ Truncate
      <4>1. edit + 1 \in Contents /\ handle' = handle
        BY <1>0, <3>4, Ranges DEF Write, Truncate, Contents
      <4>2. \/ disk' = disk
            \/ \E p \in Paths : disk' = [disk EXCEPT ![p] = edit + 1]
        BY <1>0, <3>4 DEF Write, Truncate, Exists
      <4> QED BY <1>0, <4>1, <4>2
    <3>5. CASE FreeUpSpace
      <4>1. CASE UNCHANGED local
        BY <1>0, <4>1 DEF local
      <4>2. CASE Remove({freeing.cached, freeing.rev} \ {None})
        BY <4>2, RemoveEffect
      <4> QED BY <3>5, <4>1, <4>2 DEF FreeUpSpace
    <3> QED BY <1>6, <3>1, <3>2, <3>3, <3>4, <3>5 DEF User
  <2>4. opening' \in 0..MaxRevisions /\ freeing' \in Rows /\ edit' \in 0..MaxEdits
    BY SMTT(30), <1>0, <1>1, <1>6, Ranges DEF User, OpenCached, OpenNew, OpenOnline,
       Downloaded, Write,
           Release, Truncate, FreeUp, FreeUpSpace
  <2>5. journal' \in FileEntries
    <3>1. CASE Release \/ Truncate
      <4>1. \E q \in Rows : \E r \in Refreshed(q) : Enqueue(r)
        BY <1>0, <2>2, <3>1 DEF Release, Truncate
      <4> QED BY <4>1, RefreshedTyped, EnqueueTyped
    <3>2. CASE ~(Release \/ Truncate)
      BY <1>0, <1>6, <3>2 DEF User, OpenCached, OpenNew, OpenOnline, Downloaded, Write,
             FreeUp, FreeUpSpace
    <3> QED BY <3>1, <3>2
  <2> QED BY <1>0, <1>5, <2>1, <2>2, <2>3, <2>4, <2>5 DEF TypeOK, FileEntries, Uploads, Kinds,
             Stages
<1>7. CASE Flush
  <2>1. /\ opening' = opening /\ freeing' = freeing /\ edit' = edit /\ listed' = listed
    BY <1>7 DEF Flush, Begin, ReadFile, UploadFails, Commit, SetNode, FetchNode, CreateDone,
                MoveFile, UpdateDone, QueueDirty
  <2>2. row' \in Rows
    <3>1. CASE SetNode
      BY <1>0, <3>1 DEF SetNode, Rows
    <3>2. CASE CreateDone \/ UpdateDone
      BY ZenonT(60), <1>0, <3>2, Ranges DEF CreateDone, UpdateDone, Rows, Uploads
    <3>3. CASE ~(SetNode \/ CreateDone \/ UpdateDone)
      BY <1>0, <1>7, <3>3 DEF Flush, Begin, ReadFile, UploadFails, Commit, FetchNode,
         MoveFile,
             QueueDirty, local
    <3> QED BY <3>1, <3>2, <3>3
  <2>3. disk' \in [Paths -> Contents \cup {None}] /\ handle' \in Paths \cup {None, Orphan}
    <3>1. CASE CreateDone \/ MoveFile
      <4>1. upload.path \in Paths \cup {None} /\ upload.rev \in 0..MaxRevisions
        BY <1>0 DEF Uploads
      <4>2. Move(upload.path, upload.rev)
        BY <3>1 DEF CreateDone, MoveFile
      <4> QED BY <4>1, <4>2, MoveEffect
    <3>2. CASE ~(CreateDone \/ MoveFile)
      BY <1>0, <1>7, <3>2 DEF Flush, Begin, ReadFile, UploadFails, Commit, SetNode, FetchNode,
             UpdateDone, QueueDirty, local
    <3> QED BY <3>1, <3>2
  <2>4. journal' \in FileEntries
    <3>1. CASE QueueDirty
      BY <1>0, <3>1, EnqueueTyped DEF QueueDirty
    <3>2. CASE ~QueueDirty
      BY <1>0, <1>1, <1>7, <3>2 DEF Flush, Begin, ReadFile, UploadFails, Commit, SetNode,
             FetchNode, CreateDone, MoveFile, UpdateDone, Fail
    <3> QED BY <3>1, <3>2
  <2>5. upload' \in Uploads
    <3>1. CASE Begin
      <4>1. \/ upload' = upload
            \/ \E p \in Paths \cup {None} :
                 upload' = [pc |-> "open", kind |-> journal.kind, path |-> p,
                            rev |-> journal.rev, data |-> Empty]
        BY <1>0, <3>1 DEF Begin, Rows, FileEntries
      <4> QED BY <1>0, <1>1, <4>1 DEF FileEntries, Uploads, Stages
    <3>2. CASE ReadFile
      <4>1. Exists(upload.path) => disk[upload.path] \in Contents
        BY <1>0 DEF Exists, Uploads
      <4> QED BY ZenonT(60), <1>0, <1>1, <3>2, <4>1 DEF ReadFile, Uploads, Stages
    <3>3. CASE FetchNode
      BY <1>0, <1>1, <3>3 DEF FetchNode, Uploads, Stages
    <3>4. CASE Commit
      <4>1. upload' = Idle \/ \E st \in Stages : upload' = [upload EXCEPT !.pc = st]
        BY <3>4 DEF Commit, Fail, Stages
      <4> QED BY <1>0, <1>1, <4>1 DEF Uploads
    <3>5. CASE SetNode \/ MoveFile
      BY SMTT(30), <1>0, <3>5 DEF SetNode, MoveFile, Uploads, Stages
    <3>6. CASE UploadFails \/ CreateDone \/ UpdateDone \/ QueueDirty
      BY <1>0, <1>1, <3>6 DEF UploadFails, Fail, CreateDone, UpdateDone, QueueDirty
    <3> QED BY <1>7, <3>1, <3>2, <3>3, <3>4, <3>5, <3>6 DEF Flush
  <2>6. content' \in Seq(Contents) /\ Current' <= MaxRevisions /\ event' \in BOOLEAN
    <3>1. CASE Commit
      <4>1. upload.data \in Contents /\ content' = Append(content, upload.data)
            /\ Current < MaxRevisions /\ event' \in BOOLEAN
        BY <1>0, <3>1 DEF Commit, Uploads
      <4> QED BY <1>0, <4>1, Ranges, AppendProperties DEF Current
    <3>2. CASE ~Commit
      BY <1>0, <1>7, <3>2, Ranges DEF Flush, Begin, ReadFile, UploadFails, SetNode, FetchNode,
             CreateDone, MoveFile, UpdateDone, QueueDirty, remote, Current
    <3> QED BY <3>1, <3>2
  <2> QED BY <1>0, <1>5, <2>1, <2>2, <2>3, <2>4, <2>5, <2>6 DEF TypeOK, FileEntries, Uploads,
             Kinds, Stages
<1>8. CASE World
  <2>1. edit' = edit /\ journal' \in FileEntries
    BY <1>0, <1>8 DEF World, PollEvent, List, ApplyListing, RemoteEdit, Restart
  <2>2. /\ row' \in Rows
        /\ disk' \in [Paths -> Contents \cup {None}] /\ handle' \in Paths \cup {None, Orphan}
    <3>1. CASE PollEvent
      <4>1. CASE row.node
        BY <1>2, <3>1, <4>1, RemoveEffect DEF PollEvent
      <4>2. CASE ~row.node
        BY <1>0, <3>1, <4>2 DEF PollEvent, local
      <4> QED BY <4>1, <4>2
    <3>2. CASE ApplyListing
      BY <1>0, <3>2 DEF ApplyListing, Rows
    <3>3. CASE List \/ RemoteEdit \/ Restart
      BY <1>0, <3>3 DEF List, RemoteEdit, Restart, local
    <3> QED BY <1>8, <3>1, <3>2, <3>3 DEF World
  <2>3. opening' \in 0..MaxRevisions /\ freeing' \in Rows /\ upload' \in Uploads
    BY <1>0, <1>1, <1>8, Ranges DEF World, PollEvent, List, ApplyListing, RemoteEdit, Restart
  <2>4. content' \in Seq(Contents) /\ Current' <= MaxRevisions
    <3>1. CASE RemoteEdit
      <4>1. MaxEdits + Current \in Contents /\ content' = Append(content, MaxEdits + Current)
            /\ Current < MaxRevisions
        BY SMTT(30), <3>1, Ranges DEF RemoteEdit, Contents
      <4> QED BY <1>0, <4>1, Ranges, AppendProperties DEF Current
    <3>2. CASE ~RemoteEdit
      BY <1>0, <1>8, <3>2, Ranges DEF World, PollEvent, List, ApplyListing, Restart,
         remote, Current
    <3> QED BY <3>1, <3>2
  <2>5. event' \in BOOLEAN /\ listed' \in 0..MaxRevisions
    <3>1. event' \in BOOLEAN
      BY <1>0, <1>8 DEF World, PollEvent, List, ApplyListing, RemoteEdit, Restart, remote
    <3>2. listed' \in {listed, Current, 0}
      BY <1>8 DEF World, PollEvent, List, ApplyListing, RemoteEdit, Restart
    <3> QED BY <1>0, <3>1, <3>2, Ranges
  <2> QED BY <1>0, <1>5, <2>1, <2>2, <2>3, <2>4, <2>5 DEF TypeOK, FileEntries, Uploads, Kinds,
             Stages
<1>9. CASE UNCHANGED vars
  <2>1. /\ features' = features /\ row' = row /\ disk' = disk /\ handle' = handle
        /\ opening' = opening /\ freeing' = freeing /\ edit' = edit /\ journal' = journal
        /\ upload' = upload /\ content' = content /\ event' = event /\ listed' = listed
    BY <1>9 DEF vars
  <2> QED BY <1>0, <2>1 DEF TypeOK, FileEntries, Uploads, Kinds, Stages, Current
<1> QED BY <1>6, <1>7, <1>8, <1>9 DEF Next

-----------------------------------------------------------------------------
\* What is said of the server.
LEMMA RealStays == Facts /\ TypeOK' /\ [Next]_vars => Real'
<1> SUFFICES ASSUME Facts, TypeOK', [Next]_vars PROVE Real'
    OBVIOUS
<1>0. /\ row \in Rows /\ journal \in FileEntries /\ upload \in Uploads /\ Current \in Nat
      /\ opening \in Nat /\ listed \in Nat /\ content \in Seq(Contents) /\ MaxEdits \in Nat
      /\ row.rev \in Nat /\ upload.rev \in Nat
  BY SMTT(30), Ranges DEF Facts, TypeOK, FileEntries, Uploads, Kinds, Stages
<1>1. /\ row'.rev \in Nat /\ journal' \in FileEntries /\ upload' \in Uploads
  BY <1>0 DEF TypeOK, Rows, FileEntries, Uploads, Kinds, Stages
<1>2. Real
  BY DEF Facts
<1>3. CASE User
  <2>1. /\ upload' = upload /\ Current' = Current /\ listed' = listed
        /\ row'.node = row.node /\ row'.rev = row.rev
    <3>1. /\ upload' = upload /\ content' = content /\ listed' = listed
      BY <1>3 DEF User, OpenCached, OpenNew, OpenOnline, Downloaded, Write, Release, Truncate,
                  FreeUp, FreeUpSpace, remote
    <3>2. row'.node = row.node /\ row'.rev = row.rev
      BY <1>0, <1>3 DEF User, OpenCached, OpenNew, OpenOnline, Downloaded, Write, Release,
             Truncate, FreeUp, FreeUpSpace, local, Rows
    <3> QED BY <3>1, <3>2 DEF Current
  <2>2. opening' <= Current
    BY <1>0, <1>2, <1>3 DEF User, OpenCached, OpenNew, OpenOnline, Downloaded, Write, Release,
           Truncate, FreeUp, FreeUpSpace, Real, RevisionIsReal
  <2>3. \/ journal' = journal
        \/ /\ journal'.kind # "none" /\ (journal'.kind = "update" => row.node)
           /\ journal = NoEntry /\ journal' # NoEntry
    <3>1. CASE Release \/ Truncate
      <4>1. PICK q \in Rows : q.node = row.node /\ \E r \in Refreshed(q) : Enqueue(r)
        <5>1. row' \in Rows /\ row'.node = row.node
          BY <2>1 DEF TypeOK, Rows
        <5> QED BY <1>0, <3>1, <5>1 DEF Release, Truncate
      <4>2. PICK r \in Refreshed(q) : Enqueue(r)
        BY <4>1
      <4>3. r \in Rows /\ r.node = row.node
        BY <4>1, <4>2, RefreshedTyped
      <4> QED BY <4>2, <4>3, EnqueueEffect DEF NoEntry
    <3>2. CASE ~(Release \/ Truncate)
      BY <1>3, <3>2 DEF User, OpenCached, OpenNew, OpenOnline, Downloaded, Write,
             FreeUp, FreeUpSpace
    <3> QED BY <3>1, <3>2
  <2> QED BY <1>0, <1>2, <2>1, <2>2, <2>3 DEF Real, RevisionIsReal
<1>4. CASE Flush
  <2>1. opening' = opening /\ listed' = listed
    BY <1>4 DEF Flush, Begin, ReadFile, UploadFails, Commit, SetNode, FetchNode, CreateDone,
                MoveFile, UpdateDone, QueueDirty
  <2>2. CASE Commit
    <3>1. Current' = Current + 1 /\ row' = row
      BY <1>0, <2>2, AppendProperties DEF Commit, Current, local, Uploads
    <3>2. \/ upload' = Idle /\ journal' \in {journal, NoEntry}
          \/ /\ upload' = [upload EXCEPT
                             !.pc = IF upload.kind = "create" THEN "node" ELSE "fetch"]
             /\ journal' = journal
      BY <2>2 DEF Commit, Fail
    <3>3. CASE upload' = Idle /\ journal' \in {journal, NoEntry}
      BY <1>0, <1>2, <2>1, <3>1, <3>3 DEF Real, RevisionIsReal, Sent, Idle, NoEntry
    <3>4. CASE /\ journal' = journal
               /\ upload' = [upload EXCEPT
                              !.pc = IF upload.kind = "create" THEN "node" ELSE "fetch"]
      <4>1. /\ upload.kind \in {"create", "update"} /\ upload # Idle /\ journal # NoEntry
            /\ upload.kind = "update" => row.node
        BY <1>0, <1>2, <2>2 DEF Real, Commit, Uploads, Kinds
      <4>2. /\ upload'.kind = upload.kind /\ upload'.rev = upload.rev
            /\ upload'.pc = IF upload.kind = "create" THEN "node" ELSE "fetch"
            /\ upload' # Idle
        BY <1>0, <3>4 DEF Uploads, Idle
      <4> QED BY SMTT(30), <1>0, <1>2, <2>1, <3>1, <3>4, <4>1, <4>2
                 DEF Real, RevisionIsReal, Sent
    <3> QED BY <3>2, <3>3, <3>4
  <2>3. CASE ~Commit
    <3>1. Current' = Current
      BY <1>4, <2>3 DEF Flush, Begin, ReadFile, UploadFails, SetNode, FetchNode, CreateDone,
                        MoveFile, UpdateDone, QueueDirty, remote, Current
    <3>2. CASE Begin
      <4>1. row' = row
        BY <3>2 DEF Begin, local
      <4>2. \/ journal' = NoEntry /\ upload' = upload
            \/ /\ journal' = journal /\ upload'.pc = "open" /\ upload'.kind = journal.kind
               /\ upload' # Idle
        BY <1>0, <3>2 DEF Begin, Idle
      <4> QED BY <1>0, <1>2, <2>1, <3>1, <3>2, <4>1, <4>2
              DEF Real, RevisionIsReal, Sent, Begin, NoEntry
    <3>3. CASE ReadFile \/ FetchNode \/ MoveFile
      <4>1. row' = row
        BY <3>3 DEF ReadFile, FetchNode, MoveFile, local
      <4>2. \/ journal' = NoEntry /\ upload' = Idle
            \/ /\ journal' = journal /\ upload'.kind = upload.kind /\ upload' # Idle
               /\ \/ upload.pc = "open" /\ upload'.pc = "commit"
                  \/ upload.pc = "fetch" /\ upload'.pc = "move" /\ upload'.rev = Current
                  \/ /\ upload.pc = "move" /\ upload'.pc = "row" /\ upload'.rev = upload.rev
                     /\ upload.kind = "update"
        <5>0. \A u : u.pc # "idle" => u # Idle
          BY DEF Idle
        <5>1. CASE ReadFile
          <6>1. CASE upload' = Idle /\ journal' = NoEntry
            BY <6>1
          <6>2. CASE /\ journal' = journal /\ upload.pc = "open"
                     /\ upload' = [upload EXCEPT !.pc = "commit", !.data = disk[upload.path]]
            <7>1. upload'.kind = upload.kind /\ upload'.pc = "commit"
              BY <1>0, <6>2 DEF Uploads
            <7> QED BY <5>0, <6>2, <7>1
          <6> QED BY <5>1, <6>1, <6>2 DEF ReadFile
        <5>2. CASE FetchNode
          <6>1. CASE upload' = Idle /\ journal' = NoEntry
            BY <6>1
          <6>2. CASE /\ journal' = journal /\ upload.pc = "fetch"
                     /\ upload' = [upload EXCEPT !.pc = "move", !.rev = Current]
            <7>1. upload'.kind = upload.kind /\ upload'.pc = "move" /\ upload'.rev = Current
              BY <1>0, <6>2 DEF Uploads
            <7> QED BY <5>0, <6>2, <7>1
          <6> QED BY <5>2, <6>1, <6>2 DEF FetchNode
        <5>3. CASE MoveFile
          BY <1>0, <3>3, <5>3 DEF MoveFile, Uploads, Idle
        <5> QED BY <3>3, <5>1, <5>2, <5>3
      <4> QED BY <1>0, <1>2, <2>1, <3>1, <4>1, <4>2 DEF Real, RevisionIsReal, Sent, Idle,
                 NoEntry
    <3>4. CASE SetNode
      <4>1. /\ row'.node = TRUE /\ row'.rev = row.rev /\ journal' = journal
            /\ upload'.pc = "fetch" /\ upload'.kind = upload.kind /\ upload' # Idle
            /\ upload.pc = "node"
        BY <1>0, <3>4 DEF SetNode, Rows, Uploads, Idle
      <4> QED BY <1>0, <1>2, <2>1, <3>1, <4>1 DEF Real, RevisionIsReal, Sent
    <3>5. CASE CreateDone \/ UpdateDone
      <4>1. /\ row'.node = row.node /\ row'.rev = upload.rev /\ journal' = NoEntry
            /\ upload' = Idle /\ upload.pc \in {"move", "row"}
        BY <1>0, <3>5 DEF CreateDone, UpdateDone, Rows
      <4>2. row.node /\ upload.rev \in 1..Current
        BY <1>0, <1>2, <4>1 DEF Real, Uploads, Kinds
      <4> QED BY <1>0, <1>2, <2>1, <3>1, <4>1, <4>2 DEF Real, RevisionIsReal, Sent, Idle,
                 NoEntry
    <3>6. CASE UploadFails
      BY <1>0, <1>2, <2>1, <3>1, <3>6 DEF UploadFails, Fail, local, Real, RevisionIsReal,
         Sent,
             Idle, NoEntry
    <3>7. CASE QueueDirty
      <4>1. \/ journal' = journal
            \/ /\ journal'.kind # "none" /\ (journal'.kind = "update" => row.node)
               /\ journal = NoEntry /\ journal' # NoEntry
        BY <1>0, <3>7, EnqueueEffect DEF QueueDirty, NoEntry
      <4> QED BY <1>0, <1>2, <2>1, <3>1, <3>7, <4>1 DEF QueueDirty, local, Real,
                 RevisionIsReal
    <3> QED BY <1>4, <2>3, <3>2, <3>3, <3>4, <3>5, <3>6, <3>7 DEF Flush
  <2> QED BY <2>2, <2>3
<1>5. CASE World
  <2>1. CASE PollEvent
    <3>1. /\ row'.node = row.node /\ row'.rev = row.rev /\ Current' = Current
          /\ UNCHANGED <<opening, journal, upload, listed>>
      BY <1>0, <2>1 DEF PollEvent, local, Rows, Current
    <3> QED BY <1>0, <1>2, <3>1 DEF Real, RevisionIsReal
  <2>2. CASE List \/ ApplyListing
    <3>1. /\ row'.node = row.node /\ Current' = Current /\ UNCHANGED <<opening, journal, upload>>
          /\ listed' \in {0, Current}
          /\ row'.rev = row.rev \/ (row.node /\ row'.rev = listed)
      BY <1>0, <2>2 DEF List, ApplyListing, local, remote, Rows, Current
    <3> QED BY <1>0, <1>2, <3>1 DEF Real, RevisionIsReal
  <2>3. CASE RemoteEdit
    <3>1. Current' = Current + 1 /\ row' = row /\ UNCHANGED <<opening, journal, upload, listed>>
      <4>1. MaxEdits + Current \in Contents
        BY SMTT(30), <2>3, Ranges DEF RemoteEdit, Contents
      <4> QED BY <1>0, <2>3, <4>1, AppendProperties DEF RemoteEdit, Current, local
    <3> QED BY <1>0, <1>2, <3>1 DEF Real, RevisionIsReal
  <2>4. CASE Restart
    <3>1. /\ opening' = 0 /\ upload' = Idle /\ listed' = 0 /\ Current' = Current
          /\ UNCHANGED <<row, journal>>
      BY <2>4 DEF Restart, remote, Current
    <3> QED BY <1>0, <1>2, <3>1 DEF Real, RevisionIsReal, Idle, Sent
  <2> QED BY <1>5, <2>1, <2>2, <2>3, <2>4 DEF World
<1>6. CASE UNCHANGED vars
  BY <1>2, <1>6 DEF vars, Real, RevisionIsReal, Current
<1> QED BY <1>3, <1>4, <1>5, <1>6 DEF Next

-----------------------------------------------------------------------------
\* One step at a time: where the copy is, and what the upload is about.
OneByOne == Places /\ Opening /\ Handle /\ Entry /\ Upload
Alone == Facts /\ Facts' /\ Sequential /\ Sequential' /\ OneByOne

\* The facts most proofs below need.
LEMMA AloneFacts ==
    ASSUME Alone
    PROVE  /\ Real /\ Real' /\ Places /\ Opening /\ Handle /\ Entry /\ Upload
           /\ MaxRevisions \in Nat /\ Current \in 0..MaxRevisions /\ Current' \in 0..MaxRevisions
           /\ row \in Rows /\ row' \in Rows /\ row.rev \in 0..MaxRevisions
           /\ row.cached \in Paths \cup {None} /\ freeing \in Rows
           /\ disk \in [Paths -> Contents \cup {None}]
           /\ disk' \in [Paths -> Contents \cup {None}]
           /\ handle \in Paths \cup {None, Orphan} /\ opening \in 0..MaxRevisions
           /\ journal \in FileEntries /\ journal' \in FileEntries /\ journal.path \in Paths \cup {None}
           /\ upload \in Uploads /\ upload' \in Uploads /\ upload.rev \in 0..MaxRevisions
           /\ upload.path \in Paths \cup {None} /\ upload.data \in Contents
           /\ Paths = 0..(MaxRevisions + 1) /\ None = -1 /\ Orphan = -2 /\ Created = 0
           /\ Reopened = MaxRevisions + 1 /\ None \notin Contents
           /\ row.rev \in Int /\ upload.rev \in Int /\ Current \in Int
<1>1. /\ MaxEdits \in Nat /\ MaxRevisions \in Nat /\ Current \in 0..MaxRevisions
      /\ Current' \in 0..MaxRevisions
  <2>1. Len(content) \in Nat /\ Len(content') \in Nat
    BY SMTT(30) DEF Alone, Facts, TypeOK
  <2> QED BY <2>1 DEF Alone, Facts, TypeOK, FileAssumption, Current
<1>2. /\ row \in Rows /\ row' \in Rows /\ freeing \in Rows
      /\ disk \in [Paths -> Contents \cup {None}]
      /\ disk' \in [Paths -> Contents \cup {None}]
      /\ handle \in Paths \cup {None, Orphan} /\ opening \in 0..MaxRevisions
      /\ journal \in FileEntries /\ journal' \in FileEntries
      /\ upload \in Uploads /\ upload' \in Uploads
  BY DEF Alone, Facts, TypeOK, FileEntries, Uploads, Kinds, Stages
<1>3. None \notin Contents
  BY <1>1 DEF None, Contents
<1> QED BY SMTT(30), <1>1, <1>2, <1>3 DEF Alone, Facts, OneByOne, Rows, FileEntries, Uploads,
           Paths, None,
           Orphan, Created, Reopened

\* No request starts during an upload, an open or a free_up_space.
LEMMA RequestsWait ==
    ASSUME Sequential, MayRequest
    PROVE  upload = Idle /\ opening = 0 /\ freeing = NoRow /\ upload.pc = "idle"
BY DEF Sequential, MayRequest, Concurrent, Idle

\* Nothing is claimed of no upload and of no entry.
LEMMA IdleUpload ==
    ASSUME Alone, upload' = Idle
    PROVE  Upload'
BY AloneFacts DEF Upload, Idle, Sent, None

LEMMA NoEntryEntry ==
    ASSUME Alone, journal' = NoEntry
    PROVE  Entry'
BY AloneFacts DEF Entry, NoEntry, None, Exists

\* A step without an upload that leaves the copy where it is.
LEMMA StillPlaces ==
    ASSUME Alone, upload = Idle, upload' = Idle, opening' = opening, listed' = listed,
           row'.rev = row.rev, row'.cached = row.cached, Current' = Current,
           \A p \in Paths : disk'[p] # None <=> disk[p] # None,
           handle' \in {handle, None}, freeing' \in {freeing, row},
           \/ journal' = journal
           \/ /\ journal'.path = row.cached
              /\ journal'.rev = row.rev \/ (row.rev = 0 /\ journal'.rev = Current)
    PROVE  OneByOne'
<1>0. \A p \in Paths \cup {None} : Exists(p)' <=> Exists(p)
  BY AloneFacts DEF Exists
<1>1. Places'
  <2>1. /\ Places /\ listed' = 0
        /\ freeing' = freeing \/ freeing' = row
        /\ 1..MaxRevisions \subseteq Paths /\ {Created, Reopened} \subseteq Paths
    BY SMTT(30), AloneFacts DEF Places
  <2>2. freeing'.rev # 0 => row'.rev # 0
    BY <2>1 DEF Places
  <2>3. \A j \in 1..MaxRevisions : Exists(j)' => j <= Current'
    BY <1>0, <2>1 DEF Places
  <2>4. row'.rev = 0 => \A p \in {Created, Reopened} : Exists(p)' => p = row'.cached
    BY <1>0, <2>1 DEF Places
  <2> QED BY <2>1, <2>2, <2>3, <2>4 DEF Places
<1>2. Opening'
  BY AloneFacts DEF Opening, Exists
<1>3. Handle'
  BY AloneFacts DEF Handle, Exists, Idle
<1>4. Entry'
  <2>1. CASE journal' = journal
    BY <2>1, AloneFacts DEF Entry, Exists
  <2>2. CASE /\ journal'.path = row.cached
             /\ journal'.rev = row.rev \/ (row.rev = 0 /\ journal'.rev = Current)
    <3>1. row.rev <= Current
      BY AloneFacts DEF Real, RevisionIsReal
    <3>2. row.cached \in {None, Created, Reopened} \cup 1..row.rev
      BY SMTT(30), AloneFacts DEF Places
    <3> QED BY SMTT(30), <2>2, <3>1, <3>2, AloneFacts DEF Entry
  <2> QED BY <2>1, <2>2
<1>5. Upload'
  BY IdleUpload
<1> QED BY <1>1, <1>2, <1>3, <1>4, <1>5 DEF OneByOne

\* open: the handle and the row get the copy of the row's revision.
LEMMA OpenPlaces ==
    ASSUME Alone, OpenCached \/ OpenNew \/ OpenOnline
    PROVE  OneByOne'
<1>0. /\ upload = Idle /\ upload' = Idle /\ upload.pc = "idle" /\ opening = 0 /\ handle = None
      /\ UNCHANGED <<upload, journal, content, listed, freeing>> /\ Current' = Current
  BY RequestsWait DEF Alone, OpenCached, OpenNew, OpenOnline, remote, Idle, Current
<1>u. Upload'
  BY <1>0, IdleUpload
<1>1. CASE OpenCached
  <2>1. PICK p \in {row.cached} \cup (IF Exists(row.cached) \/ row.rev = 0
                                      THEN {} ELSE {row.rev}) :
          /\ Exists(p)
          /\ handle' = p
          /\ row' = [row EXCEPT !.cached = p]
    BY <1>1 DEF OpenCached
  <2>2. /\ p \in Paths
        /\ p = row.cached \/ (p = row.rev /\ ~Exists(row.cached) /\ p # 0)
        /\ p # None /\ disk[p] # None /\ handle' = p
    BY SMTT(30), <2>1, AloneFacts DEF Exists
  <2>3. row'.cached = p /\ row'.rev = row.rev
    BY <2>1, AloneFacts DEF Rows
  <2>4. disk' = disk /\ opening' = 0
    BY <1>0, <1>1 DEF OpenCached
  <2>5. Places'
    BY <1>0, <2>2, <2>3, <2>4, AloneFacts DEF Places, Exists
  <2>6. Opening' /\ Handle'
    BY <1>0, <2>2, <2>3, <2>4 DEF Opening, Handle, Exists
  <2>7. Entry'
    BY <1>0, <2>2, <2>3, <2>4, AloneFacts DEF Entry, Exists
  <2> QED BY <1>u, <2>5, <2>6, <2>7 DEF OneByOne
<1>2. CASE OpenNew
  <2>1. /\ handle' = Reopened /\ row'.cached = Reopened /\ row'.rev = 0 /\ opening' = 0
        /\ row.rev = 0 /\ ~Exists(row.cached)
        /\ \A p \in Paths \ {Reopened} : disk'[p] = disk[p]
        /\ disk'[Reopened] # None
    BY <1>0, <1>2, AloneFacts DEF OpenNew, Rows, Empty
  <2>2. \A p \in {Created, Reopened} : ~Exists(p)
    BY <2>1, AloneFacts DEF Places
  <2>3. Places'
    <3>1. \A j \in 1..MaxRevisions : Exists(j)' => j <= Current'
      <4>1. \A j \in 1..MaxRevisions : j \in Paths \ {Reopened}
        BY SMTT(30), AloneFacts
      <4> QED BY ZenonT(60), <1>0, <2>1, <4>1, AloneFacts DEF Places, Exists
    <3>2. \A p \in {Created, Reopened} : Exists(p)' => p = Reopened
      <4>1. Created \in Paths /\ (Created # Reopened => disk'[Created] = disk[Created])
        BY SMTT(30), <2>1, AloneFacts
      <4> QED BY <2>2, <4>1 DEF Exists
    <3> QED BY <1>0, <2>1, <3>1, <3>2, AloneFacts DEF Places
  <2>4. Opening' /\ Handle'
    BY <1>0, <2>1, AloneFacts DEF Opening, Handle, Exists
  <2>5. Entry'
    BY <1>0, <2>1, <2>2, AloneFacts DEF Entry, Exists
  <2> QED BY <1>u, <2>3, <2>4, <2>5 DEF OneByOne
<1>3. CASE OpenOnline
  <2>1. /\ UNCHANGED <<row, disk, handle>> /\ opening' = row.rev
        /\ ~Exists(row.cached) /\ ~Exists(row.rev)
    BY <1>3 DEF OpenOnline, local
  <2>2. Places' /\ Handle' /\ Entry'
    BY <1>0, <2>1, AloneFacts DEF Places, Handle, Entry, Exists
  <2>3. Opening'
    BY <1>0, <2>1, AloneFacts DEF Opening, Exists
  <2> QED BY <1>u, <2>2, <2>3 DEF OneByOne
<1> QED BY <1>1, <1>2, <1>3

\* The download of an open: nothing but an entry that is just read is under way.
LEMMA DownloadPlaces ==
    ASSUME Alone, Downloaded
    PROVE  OneByOne'
<1>0. /\ UNCHANGED <<upload, journal, content, listed, freeing>> /\ Current' = Current
      /\ opening' = 0 /\ opening \in 1..Current /\ opening \in Paths /\ handle = None
      /\ opening = row.rev /\ ~Exists(row.cached) /\ ~Exists(opening)
      /\ upload.pc \in {"idle", "open"}
  BY AloneFacts DEF Downloaded, remote, Current, Opening, Real
<1>1. CASE Remove({opening}) /\ UNCHANGED row
  <2>1. disk' = disk /\ handle' = None /\ row' = row
    <3>1. \A p \in Paths : disk'[p] = disk[p]
      <4>1. \A p \in Paths : disk'[p] = IF p \in {opening} THEN None ELSE disk[p]
        BY <1>1, RemoveEffect DEF Alone
      <4>2. disk[opening] = None
        BY SMTT(30), <1>0, AloneFacts DEF Exists
      <4> QED BY <4>1, <4>2
    <3>2. handle' = None
      BY <1>0, <1>1, AloneFacts DEF Remove
    <3>3. disk' = disk
      <4>1. disk \in [Paths -> Contents \cup {None}] /\ disk' \in [Paths -> Contents \cup {None}]
        BY AloneFacts
      <4> QED BY <3>1, <4>1
    <3> QED BY <1>1, <3>2, <3>3
  <2> QED BY <1>0, <2>1, AloneFacts DEF OneByOne, Places, Opening, Handle, Entry, Upload,
             Exists,
             Sent
<1>2. CASE /\ disk' = [disk EXCEPT ![opening] = content[opening]]
           /\ handle' = opening /\ row' = [row EXCEPT !.cached = opening]
  <2>1. /\ handle' = opening /\ row'.cached = opening /\ row'.rev = row.rev
        /\ disk'[opening] # None /\ \A p \in Paths \ {opening} : disk'[p] = disk[p]
    <3>1. content[opening] \in Contents
      <4>1. content \in Seq(Contents) /\ opening \in 1..Len(content)
        BY <1>0 DEF Alone, Facts, TypeOK, Current
      <4> QED BY <4>1
    <3> QED BY SMTT(30), <1>0, <1>2, <3>1, AloneFacts DEF Rows
  <2>2. Places'
    BY SMTT(30), <1>0, <2>1, AloneFacts DEF Places, Exists
  <2>3. Opening' /\ Handle'
    BY <1>0, <2>1, AloneFacts DEF Opening, Handle, Exists
  <2>4. Entry'
    BY <1>0, <2>1, AloneFacts DEF Entry, Exists
  <2>5. Upload'
    BY ZenonT(60), <1>0, <2>1, AloneFacts DEF Upload, Exists, Sent
  <2> QED BY <2>2, <2>3, <2>4, <2>5 DEF OneByOne
<1> QED BY <1>1, <1>2 DEF Downloaded

\* free_up_space: with no entry there is no upload, and the row had a revision.
LEMMA FreePlaces ==
    ASSUME Alone, FreeUpSpace
    PROVE  OneByOne'
<1>0. /\ UNCHANGED <<opening, upload, journal, content, listed>> /\ Current' = Current
      /\ freeing' = NoRow /\ freeing'.rev = 0
  BY DEF FreeUpSpace, remote, Current, NoRow
<1>1. CASE UNCHANGED local
  <2>1. row' = row /\ disk' = disk /\ handle' = handle
    BY <1>1 DEF local
  <2> QED BY <1>0, <2>1, AloneFacts DEF OneByOne, Places, Opening, Handle, Entry, Upload,
             Exists
<1>2. CASE /\ freeing.rev # 0 /\ journal = NoEntry /\ handle = None
           /\ Remove({freeing.cached, freeing.rev} \ {None})
           /\ row' = [row EXCEPT !.cached = None]
  <2>1. /\ upload' = Idle /\ row'.cached = None /\ row'.rev = row.rev /\ row.rev # 0
    BY <1>0, <1>2, AloneFacts DEF Real, Rows, Places
  <2>2. /\ handle' = None /\ \A p \in Paths : disk'[p] # None => disk[p] # None
    <3>1. handle \notin {freeing.cached, freeing.rev} \ {None}
      BY <1>2
    <3> QED BY <1>2, <3>1, RemoveEffect DEF Alone
  <2>3. Places'
    <3>1. \A j \in 1..MaxRevisions : Exists(j)' => j <= Current'
      <4>1. \A j \in 1..MaxRevisions : j \in Paths /\ j # None
        BY AloneFacts
      <4> QED BY <1>0, <2>2, <4>1, AloneFacts DEF Places, Exists
    <3> QED BY <1>0, <2>1, <3>1, AloneFacts DEF Places
  <2>4. Opening'
    BY <1>0, <2>1, <2>2, AloneFacts DEF Opening, Exists
  <2>5. Handle'
    BY <2>2 DEF Handle
  <2>6. Entry' /\ Upload'
    BY <1>0, <1>2, <2>1, IdleUpload, NoEntryEntry
  <2> QED BY <2>3, <2>4, <2>5, <2>6 DEF OneByOne
<1> QED BY <1>1, <1>2 DEF FreeUpSpace

\* A step of the upload that leaves the file and the row alone.
LEMMA UploadPlaces ==
    ASSUME Alone, UNCHANGED <<row, disk, handle, opening, freeing, listed>>,
           Current' >= Current, Upload', journal' \in {journal, NoEntry},
           opening # 0 => upload'.pc \in {"idle", "open"}, upload.pc # "row"
    PROVE  OneByOne'
<1>1. Places' /\ Opening' /\ Handle'
  BY SMTT(30), AloneFacts DEF Places, Opening, Handle, Exists
<1>2. Entry'
  <2>1. CASE journal' = NoEntry
    BY <2>1, NoEntryEntry
  <2>2. CASE journal' = journal
    <3>1. Entry /\ Current' >= Current /\ journal.rev \in Int /\ Current' \in Int
      BY AloneFacts DEF FileEntries
    <3>2. row' = row /\ disk' = disk
      OBVIOUS
    <3> QED BY SMTT(30), <2>2, <3>1, <3>2, AloneFacts DEF Entry, Exists
  <2> QED BY <2>1, <2>2
<1> QED BY <1>1, <1>2 DEF OneByOne

\* The upload finds the copy the row has, or the one the entry was made of.
LEMMA BeginPlaces ==
    ASSUME Alone, Begin
    PROVE  OneByOne'
<1>0. /\ UNCHANGED <<row, disk, handle, opening, freeing, listed>> /\ Current' = Current
      /\ upload = Idle /\ upload.pc = "idle"
  BY DEF Begin, local, remote, Current, Idle
<1>1. PICK path \in Paths \cup {None} :
         path = IF row.cached # None THEN row.cached ELSE journal.path
  BY AloneFacts
<1>2. CASE upload' = upload /\ journal' = NoEntry
  BY <1>0, <1>2, IdleUpload, AloneFacts, UploadPlaces
<1>3. CASE /\ ~(journal.kind = "create" /\ row.node /\ row.rev # 0) /\ journal' = journal
           /\ upload' = [pc |-> "open", kind |-> journal.kind, path |-> path,
                         rev |-> journal.rev, data |-> Empty]
  <2>1. /\ upload'.pc = "open" /\ upload'.kind = journal.kind /\ upload'.path = path
        /\ upload'.rev = journal.rev
    BY <1>3
  <2>2. upload'.kind = "create" => row.rev = 0
    BY <1>3, <2>1, AloneFacts DEF Real, RevisionIsReal
  <2>3. upload'.kind = "update" => row.rev \in {0, upload'.rev}
    BY <2>1, AloneFacts DEF Entry
  <2>4. Exists(path) => row.cached = path
    BY <1>1, AloneFacts DEF Entry
  <2>5. upload'.rev <= Current
    BY <2>1, AloneFacts DEF Entry
  <2>6. Upload'
    BY <1>0, <2>1, <2>2, <2>3, <2>4, <2>5 DEF Upload, Exists, Sent
  <2> QED BY <1>0, <1>3, <2>1, <2>6, AloneFacts, UploadPlaces
<1> QED BY <1>1, <1>2, <1>3 DEF Begin

\* What is read is the copy of the row.
LEMMA ReadPlaces ==
    ASSUME Alone, ReadFile
    PROVE  OneByOne'
<1>0. /\ UNCHANGED <<row, disk, handle, opening, freeing, listed>> /\ Current' = Current
      /\ upload.pc = "open"
  BY DEF ReadFile, local, remote, Current
<1>1. CASE upload' = Idle /\ journal' = NoEntry
  BY <1>0, <1>1, IdleUpload, AloneFacts, UploadPlaces DEF Idle
<1>2. CASE /\ Exists(upload.path) /\ journal' = journal
           /\ upload' = [upload EXCEPT !.pc = "commit", !.data = disk[upload.path]]
  <2>1. /\ upload'.pc = "commit" /\ upload'.data = disk[upload.path]
        /\ upload'.kind = upload.kind /\ upload'.path = upload.path /\ upload'.rev = upload.rev
    BY <1>2, AloneFacts DEF Uploads
  <2>2. row.cached = upload.path /\ upload.path # None /\ Exists(row.cached)
    BY <1>0, <1>2, AloneFacts DEF Upload, Exists
  <2>3. opening = 0
    BY <2>2, AloneFacts DEF Opening
  <2>4. Upload'
    BY <1>0, <2>1, <2>2, AloneFacts DEF Upload, Sent
  <2> QED BY <1>0, <1>2, <2>3, <2>4, AloneFacts, UploadPlaces
<1> QED BY <1>1, <1>2 DEF ReadFile

\* No copy is under the path of the new revision.
LEMMA CommitPlaces ==
    ASSUME Alone, Commit
    PROVE  OneByOne' /\ Current' = Current + 1
<1>0. /\ UNCHANGED <<row, disk, handle, opening, freeing, listed>> /\ Current' = Current + 1
      /\ upload.pc = "commit" /\ Accepted /\ Current < MaxRevisions
  BY AloneFacts, AppendProperties DEF Commit, local, Current, Alone, Facts, TypeOK, Uploads
<1>1. opening = 0
  BY <1>0, AloneFacts DEF Opening
<1>2. CASE Fail
  BY <1>0, <1>1, <1>2, IdleUpload, AloneFacts, UploadPlaces DEF Fail
<1>3. CASE /\ journal' = journal
           /\ upload' = [upload EXCEPT
                           !.pc = IF upload.kind = "create" THEN "node" ELSE "fetch"]
  <2>1. /\ upload'.pc \in {"node", "fetch"} /\ upload'.data = upload.data
        /\ upload'.kind = upload.kind /\ upload'.path = upload.path /\ upload'.rev = upload.rev
    BY <1>3, AloneFacts DEF Uploads
  <2>2. disk[Current'] = None
    <3>1. Current' \in 1..MaxRevisions /\ Current' > Current /\ Current' # None
      BY SMTT(30), <1>0, AloneFacts
    <3> QED BY <3>1, AloneFacts DEF Places, Exists
  <2>3. row.rev < Current'
    <3>1. row.rev <= Current
      BY AloneFacts DEF Real, RevisionIsReal
    <3> QED BY SMTT(30), <1>0, <3>1, AloneFacts
  <2>4. Upload'
    <3>1. /\ upload.rev <= Current /\ (upload.kind = "create" => row.rev = 0)
          /\ \/ row.cached = upload.path /\ upload.path # None /\ disk[upload.path] = upload.data
             \/ row.cached = None /\ ~Exists(upload.path)
      BY <1>0, AloneFacts DEF Upload
    <3> QED BY SMTT(30), <1>0, <2>1, <2>2, <2>3, <3>1, AloneFacts DEF Upload, Exists, Sent
  <2> QED BY <1>0, <1>1, <1>3, <2>4, AloneFacts, UploadPlaces
<1> QED BY <1>0, <1>2, <1>3 DEF Commit

\* The revision fetched is the active one, newer than the one of the row.
LEMMA FetchPlaces ==
    ASSUME Alone, FetchNode
    PROVE  OneByOne'
<1>0. /\ UNCHANGED <<row, disk, handle, opening, freeing, listed>> /\ Current' = Current
      /\ upload.pc = "fetch"
  BY DEF FetchNode, local, remote, Current
<1>1. CASE upload' = Idle /\ journal' = NoEntry
  BY <1>0, <1>1, IdleUpload, AloneFacts, UploadPlaces DEF Idle
<1>2. CASE journal' = journal /\ upload' = [upload EXCEPT !.pc = "move", !.rev = Current]
  <2>1. /\ upload'.pc = "move" /\ upload'.data = upload.data
        /\ upload'.kind = upload.kind /\ upload'.path = upload.path /\ upload'.rev = Current
    BY <1>2, AloneFacts DEF Uploads
  <2>2. opening = 0
    BY <1>0, AloneFacts DEF Opening
  <2>3. /\ row.rev < Current /\ disk[Current] = None /\ (upload.kind = "create" => row.rev = 0)
        /\ \/ row.cached = upload.path /\ upload.path # None /\ disk[upload.path] = upload.data
           \/ row.cached = None /\ ~Exists(upload.path)
    BY <1>0, AloneFacts DEF Upload, Sent
  <2>4. Upload'
    BY <1>0, <2>1, <2>3, AloneFacts DEF Upload, Sent, Exists
  <2> QED BY <1>0, <1>2, <2>2, <2>4, AloneFacts, UploadPlaces
<1> QED BY <1>1, <1>2 DEF FetchNode

\* The row gets its node.
LEMMA SetNodePlaces ==
    ASSUME Alone, SetNode
    PROVE  OneByOne'
<1>0. /\ UNCHANGED <<disk, handle, opening, freeing, journal, listed>> /\ Current' = Current
      /\ row'.rev = row.rev /\ row'.cached = row.cached /\ upload.pc = "node"
      /\ upload'.pc = "fetch" /\ upload'.kind = upload.kind /\ upload'.path = upload.path
      /\ upload'.rev = upload.rev /\ upload'.data = upload.data
  BY AloneFacts DEF SetNode, remote, Current, Rows, Uploads
<1>1. Places' /\ Handle' /\ Entry'
  BY <1>0, AloneFacts DEF Places, Handle, Entry, Exists
<1>2. opening = 0
  BY <1>0, AloneFacts DEF Opening
<1>3. Opening'
  BY <1>0, <1>2 DEF Opening
<1>4. Upload'
  BY <1>0, AloneFacts DEF Upload, Exists, Sent
<1> QED BY <1>1, <1>3, <1>4 DEF OneByOne

\* What the end of an upload knows: the path of the new revision is not that of the copy.
LEMMA MovesAway ==
    ASSUME Alone, upload.pc = "move"
    PROVE  /\ opening = 0 /\ upload.rev \in 1..Current /\ upload.rev > row.rev
           /\ upload.rev \in Paths /\ upload.rev \notin {Created, Reopened, None}
           /\ disk[upload.rev] = None /\ handle # upload.rev
           /\ \/ /\ row.cached = upload.path /\ Exists(upload.path)
                 /\ upload.path \in Paths /\ upload.path # upload.rev
                 /\ disk[upload.path] = upload.data
              \/ row.cached = None /\ ~Exists(upload.path) /\ handle \in {None, Orphan}
<1>1. opening = 0
  BY AloneFacts DEF Opening
<1>2. upload.rev \in 1..Current
  BY AloneFacts DEF Real
<1>3. /\ upload.rev > row.rev /\ disk[upload.rev] = None
      /\ \/ row.cached = upload.path /\ upload.path # None /\ disk[upload.path] = upload.data
         \/ row.cached = None /\ ~Exists(upload.path)
  BY AloneFacts DEF Upload
<1>4. upload.rev \in Paths /\ upload.rev \notin {Created, Reopened, None}
  BY SMTT(30), <1>2, AloneFacts
<1>5. handle # upload.rev
  BY SMTT(30), <1>2, <1>3, <1>4, AloneFacts DEF Handle, Exists
<1>6. CASE row.cached = upload.path /\ upload.path # None /\ disk[upload.path] = upload.data
  <2>1. Exists(upload.path) /\ upload.path \in Paths /\ upload.path # upload.rev
    BY <1>3, <1>6, AloneFacts DEF Exists
  <2> QED BY <1>1, <1>2, <1>3, <1>4, <1>5, <1>6, <2>1
<1>7. CASE row.cached = None /\ ~Exists(upload.path)
  <2>1. handle \in {None, Orphan}
    BY <1>7, AloneFacts DEF Handle, Exists
  <2> QED BY <1>1, <1>2, <1>3, <1>4, <1>5, <1>7, <2>1
<1> QED BY <1>3, <1>6, <1>7

\* What is then under the path of the new revision, and under that of the row's.
LEMMA MovedCopy ==
    ASSUME Alone, upload.pc = "move", Move(upload.path, upload.rev)
    PROVE  /\ disk'[upload.rev] \in {None, upload.data}
           /\ \A p \in Paths : disk'[p] \in {disk[p], None, upload.data}
           /\ \A p \in Paths \ {upload.rev} : disk'[p] \in {disk[p], None}
           /\ row.rev # 0 => disk'[row.rev] \in {disk[row.rev], None}
           /\ handle' \in {handle, upload.rev}
<1>1. /\ upload.path # upload.rev /\ Exists(upload.path) =>
           /\ \A x \in Paths : disk'[x] = IF x = upload.path THEN None
                               ELSE IF x = upload.rev THEN disk[upload.path] ELSE disk[x]
           /\ handle' = IF handle = upload.path THEN upload.rev
                        ELSE IF handle = upload.rev THEN Orphan ELSE handle
      /\ upload.path = upload.rev \/ ~Exists(upload.path) => disk' = disk /\ handle' = handle
  <2>1. upload.path \in Paths \cup {None} /\ upload.rev \in 0..MaxRevisions /\ Facts
    BY AloneFacts DEF Alone
  <2> QED BY <2>1, MoveEffect
<1>2. /\ disk[upload.rev] = None /\ upload.rev \in Paths /\ handle # upload.rev
      /\ upload.rev # row.rev /\ row.rev \in Paths
      /\ Exists(upload.path) => disk[upload.path] = upload.data /\ upload.path # upload.rev
  BY SMTT(30), MovesAway, AloneFacts
<1> QED BY <1>1, <1>2

\* create_file moves the file and updates the row in one step.
LEMMA CreatePlaces ==
    ASSUME Alone, CreateDone
    PROVE  OneByOne'
<1>0. /\ UNCHANGED <<opening, freeing, listed>> /\ Current' = Current
      /\ row'.rev = upload.rev /\ row'.cached = upload.rev /\ upload' = Idle
      /\ journal' = NoEntry /\ upload.pc = "move" /\ upload.kind = "create"
      /\ Move(upload.path, upload.rev)
  BY AloneFacts DEF CreateDone, remote, Current, Rows
<1>1. row.rev = 0
  BY <1>0, AloneFacts DEF Upload
<1>2. /\ \A p \in Paths \ {upload.rev} : disk'[p] # None => disk[p] # None
      /\ handle' \notin {None, Orphan} => handle' = upload.rev /\ disk'[upload.rev] # None
  <2>1. CASE /\ row.cached = upload.path /\ Exists(upload.path)
             /\ upload.path \in Paths /\ upload.path # upload.rev
             /\ disk[upload.path] = upload.data
    <3>1. /\ \A x \in Paths : disk'[x] = IF x = upload.path THEN None
                               ELSE IF x = upload.rev THEN disk[upload.path] ELSE disk[x]
          /\ handle' = IF handle = upload.path THEN upload.rev
                       ELSE IF handle = upload.rev THEN Orphan ELSE handle
      BY SMTT(30), <1>0, <2>1, AloneFacts, MoveEffect DEF Alone
    <3>2. handle \notin {None, Orphan} => handle = upload.path
      BY <1>0, <2>1, AloneFacts DEF Handle
    <3> QED BY <1>0, <2>1, <3>1, <3>2, MovesAway, AloneFacts DEF Exists
  <2>2. CASE row.cached = None /\ ~Exists(upload.path) /\ handle \in {None, Orphan}
    <3>1. disk' = disk /\ handle' = handle
      BY <1>0, <2>2, AloneFacts, MoveEffect DEF Alone
    <3> QED BY <2>2, <3>1
  <2> QED BY <1>0, <2>1, <2>2, MovesAway
<1>3. upload.rev \in 1..Current /\ opening = 0 /\ upload.rev # 0 /\ upload.rev # None
  BY <1>0, MovesAway, AloneFacts
<1>4. Places'
  <2>1. \A j \in 1..MaxRevisions : Exists(j)' => j <= Current'
    <3>1. \A j \in 1..MaxRevisions : j \in Paths /\ j # None
      BY AloneFacts
    <3>2. \A j \in 1..MaxRevisions : disk[j] # None => j <= Current
      BY <3>1, AloneFacts DEF Places, Exists
    <3>3. \A j \in 1..MaxRevisions : disk'[j] # None => j = upload.rev \/ disk[j] # None
      BY <1>2, <3>1
    <3>4. upload.rev <= Current
      BY <1>3
    <3> QED BY <1>0, <3>2, <3>3, <3>4 DEF Exists
  <2> QED BY <1>0, <1>3, <2>1, AloneFacts DEF Places
<1>5. Opening'
  BY <1>0, <1>3 DEF Opening
<1>6. Handle'
  BY <1>0, <1>2, <1>3 DEF Handle, Exists
<1> QED BY <1>0, <1>4, <1>5, <1>6, IdleUpload, NoEntryEntry DEF OneByOne

\* update_revision moves the file, and then updates the row.
LEMMA MovePlaces ==
    ASSUME Alone, MoveFile
    PROVE  OneByOne'
<1>0. /\ UNCHANGED <<row, opening, freeing, journal, listed>> /\ Current' = Current
      /\ upload.pc = "move" /\ upload.kind = "update" /\ Move(upload.path, upload.rev)
      /\ upload'.pc = "row" /\ upload'.kind = "update" /\ upload'.path = upload.path
      /\ upload'.rev = upload.rev /\ upload'.data = upload.data
  BY AloneFacts DEF MoveFile, remote, Current, Uploads
<1>1. /\ opening = 0 /\ upload.rev \in 1..Current /\ upload.rev > row.rev
      /\ upload.rev \in Paths /\ upload.rev \notin {Created, Reopened, None}
      /\ disk[upload.rev] = None /\ handle # upload.rev /\ row.rev < Current
  BY <1>0, MovesAway, AloneFacts DEF Upload, Sent
<1>2. CASE /\ row.cached = upload.path /\ Exists(upload.path)
           /\ upload.path \in Paths /\ upload.path # upload.rev
           /\ disk[upload.path] = upload.data
  <2>1. /\ \A x \in Paths : disk'[x] = IF x = upload.path THEN None
                             ELSE IF x = upload.rev THEN upload.data ELSE disk[x]
        /\ handle' = IF handle = upload.path THEN upload.rev
                     ELSE IF handle = upload.rev THEN Orphan ELSE handle
    BY SMTT(30), <1>0, <1>2, AloneFacts, MoveEffect DEF Alone
  <2>2. Places'
    <3>1. \A j \in 1..MaxRevisions : Exists(j)' => j <= Current'
      <4>1. \A j \in 1..MaxRevisions : j \in Paths /\ j # None
        BY AloneFacts
      <4> QED BY SMTT(30), <1>0, <1>1, <2>1, <4>1, AloneFacts DEF Places, Exists
    <3>2. row.rev = 0 => \A p \in {Created, Reopened} : Exists(p)' => p = row.cached
      BY SMTT(30), <1>1, <2>1, AloneFacts DEF Places, Exists
    <3> QED BY <1>0, <3>1, <3>2, AloneFacts DEF Places
  <2>3. Opening'
    BY <1>0, <1>1 DEF Opening
  <2>4. Handle'
    <3>1. handle \notin {None, Orphan} => handle = upload.path
      BY <1>0, <1>2, AloneFacts DEF Handle
    <3>2. upload.data # None
      BY AloneFacts
    <3> QED BY <1>0, <1>1, <1>2, <2>1, <3>1, <3>2 DEF Handle, Exists
  <2>5. Entry'
    <3>1. journal.path # upload.rev
      BY SMTT(30), <1>1, AloneFacts DEF Entry
    <3>2. ~Exists(journal.path)'
      BY SMTT(30), <1>0, <1>2, <2>1, <3>1, AloneFacts DEF Entry, Exists
    <3> QED BY <1>0, <3>2, AloneFacts DEF Entry
  <2>6. Upload'
    BY <1>0, <1>1, <1>2, <2>1, AloneFacts DEF Upload, Exists, Sent
  <2> QED BY <2>2, <2>3, <2>4, <2>5, <2>6 DEF OneByOne
<1>3. CASE row.cached = None /\ ~Exists(upload.path) /\ handle \in {None, Orphan}
  <2>1. disk' = disk /\ handle' = handle
    BY <1>0, <1>3, AloneFacts, MoveEffect DEF Alone
  <2>2. Places' /\ Opening' /\ Handle' /\ Entry'
    BY <1>0, <1>1, <1>3, <2>1, AloneFacts DEF Places, Opening, Handle, Entry, Exists
  <2>3. Upload'
    BY <1>0, <1>1, <1>3, <2>1, AloneFacts DEF Upload, Exists, Sent
  <2> QED BY <2>2, <2>3 DEF OneByOne
<1> QED BY <1>0, <1>2, <1>3, MovesAway

\* update_revision updates the row after the move.
LEMMA UpdatePlaces ==
    ASSUME Alone, UpdateDone
    PROVE  OneByOne'
<1>0. /\ UNCHANGED <<disk, handle, opening, freeing, listed>> /\ Current' = Current
      /\ row'.rev = upload.rev /\ row'.cached = upload.rev /\ upload' = Idle
      /\ journal' = NoEntry /\ upload.pc = "row"
  BY AloneFacts DEF UpdateDone, remote, Current, Rows
<1>1. opening = 0 /\ upload.rev \in 1..Current /\ upload.rev # 0
  BY <1>0, AloneFacts DEF Opening, Real
<1>2. handle \notin {None, Orphan} => handle = upload.rev /\ Exists(handle)
  BY <1>0, AloneFacts DEF Upload, Handle, Exists
<1>3. Places' /\ Opening' /\ Handle'
  BY <1>0, <1>1, <1>2, AloneFacts DEF Places, Opening, Handle, Exists
<1> QED BY <1>0, <1>3, IdleUpload, NoEntryEntry DEF OneByOne

\* An event removes the copy of the row.
LEMMA EventPlaces ==
    ASSUME Alone, PollEvent
    PROVE  OneByOne'
<1>0. /\ UNCHANGED <<opening, freeing, journal, upload, listed>> /\ Current' = Current
  BY DEF PollEvent, Current
<1>1. CASE UNCHANGED local
  <2>1. row' = row /\ disk' = disk /\ handle' = handle
    BY <1>1 DEF local
  <2> QED BY <1>0, <2>1, AloneFacts DEF OneByOne, Places, Opening, Handle, Entry, Upload,
             Exists
<1>2. CASE Remove({row.cached} \ {None}) /\ row' = [row EXCEPT !.cached = None]
  <2>1. row'.cached = None /\ row'.rev = row.rev
    BY <1>2, AloneFacts DEF Rows
  <2>2. PICK c \in Paths \cup {None} : c = row.cached
    BY AloneFacts
  <2>3. /\ \A p \in Paths : disk'[p] = IF p = c THEN None ELSE disk[p]
        /\ handle' = IF handle = c /\ c # None THEN Orphan ELSE handle
    <3>1. /\ \A p \in Paths : disk'[p] = IF p \in {c} \ {None} THEN None ELSE disk[p]
          /\ handle' = IF handle \in {c} \ {None} THEN Orphan ELSE handle
      BY <1>2, <2>2, RemoveEffect DEF Alone
    <3> QED BY SMTT(30), <3>1, AloneFacts
  <2>4. \A p \in Paths \cup {None} : Exists(p)' <=> Exists(p) /\ p # c
    BY <2>2, <2>3, AloneFacts DEF Exists
  <2>5. Places'
    <3>1. \A j \in 1..MaxRevisions : Exists(j)' => j <= Current'
      <4>1. \A j \in 1..MaxRevisions : j \in Paths
        BY SMTT(30), AloneFacts
      <4> QED BY <1>0, <2>4, <4>1, AloneFacts DEF Places
    <3>2. row.rev = 0 => \A p \in {Created, Reopened} : ~Exists(p)'
      BY SMTT(30), <2>2, <2>4, AloneFacts DEF Places
    <3> QED BY <1>0, <2>1, <3>1, <3>2, AloneFacts DEF Places
  <2>6. Opening'
    <3>1. opening # 0 => handle' = None /\ opening \in Paths \cup {None}
      BY <2>2, <2>3, AloneFacts DEF Opening
    <3> QED BY <1>0, <2>1, <2>4, <3>1, AloneFacts DEF Opening, Exists
  <2>7. Handle'
    <3>1. SUFFICES ASSUME handle' \notin {None, Orphan}
                   PROVE  /\ Exists(handle)'
                          /\ upload.pc = "row" /\ handle' = upload.rev
      BY <1>0 DEF Handle
    <3>2. handle' = handle /\ handle # c /\ Exists(handle) /\ handle \in Paths
      BY <2>2, <2>3, <3>1, AloneFacts DEF Handle
    <3>3. upload.pc = "row" /\ handle = upload.rev
      BY <2>2, <3>1, <3>2, AloneFacts DEF Handle
    <3> QED BY <2>3, <3>2, <3>3, AloneFacts DEF Exists
  <2>8. Entry'
    <3>1. ~Exists(journal.path)'
      BY <1>0, <2>2, <2>4, AloneFacts DEF Entry
    <3> QED BY <1>0, <2>1, <3>1, AloneFacts DEF Entry
  <2>9. Upload'
    <3>1. upload.pc = "open" => ~Exists(upload.path)'
      BY <1>0, <2>2, <2>4, AloneFacts DEF Upload
    <3>2. upload.pc \in {"commit", "node", "fetch", "move"} => ~Exists(upload.path)'
      BY <1>0, <2>2, <2>4, AloneFacts DEF Upload
    <3>3. \A p \in Paths : disk[p] = None => disk'[p] = None
      BY <2>3
    <3>4. /\ upload.pc \in {"node", "fetch"} => disk'[Current] = None
          /\ upload.pc = "move" => disk'[upload.rev] = None
      BY SMTT(30), <3>3, AloneFacts DEF Upload
    <3>5. upload.pc = "row" => /\ ~Exists(upload.path)'
                               /\ Exists(upload.rev)' => disk'[upload.rev] = upload.data
      BY SMTT(30), <1>0, <2>3, <2>4, AloneFacts DEF Upload, Exists
    <3> QED BY <1>0, <2>1, <3>1, <3>2, <3>4, <3>5, AloneFacts DEF Upload
  <2> QED BY <2>5, <2>6, <2>7, <2>8, <2>9 DEF OneByOne
<1> QED BY <1>1, <1>2 DEF PollEvent

\* Another client's revision has no copy either.
LEMMA RemotePlaces ==
    ASSUME Alone, RemoteEdit
    PROVE  OneByOne' /\ Current' = Current + 1
<1>0. /\ UNCHANGED <<row, disk, handle, opening, freeing, journal, upload, listed>>
      /\ Current' = Current + 1
  <2>1. MaxEdits + Current \in Contents /\ content \in Seq(Contents)
    BY SMTT(30), Ranges DEF RemoteEdit, Contents, Alone
  <2> QED BY <2>1, AppendProperties DEF RemoteEdit, local, Current
<1>1. Places' /\ Opening' /\ Handle' /\ Entry'
  BY SMTT(30), <1>0, AloneFacts DEF Places, Opening, Handle, Entry, Exists, FileEntries
<1>2. Upload'
  <2>1. Current' \in 1..MaxRevisions /\ Current' > Current /\ Current' # None
    BY SMTT(30), <1>0, AloneFacts
  <2>2. disk[Current'] = None
    BY <2>1, AloneFacts DEF Places, Exists
  <2> QED BY SMTT(30), <1>0, <2>1, <2>2, AloneFacts DEF Upload, Exists, Sent
<1> QED BY <1>0, <1>1, <1>2 DEF OneByOne

\* A restart ends what was under way.
LEMMA RestartPlaces ==
    ASSUME Alone, Restart
    PROVE  OneByOne'
<1>1. /\ UNCHANGED <<row, disk, journal>> /\ Current' = Current /\ handle' = None
      /\ opening' = 0 /\ freeing' = NoRow /\ freeing'.rev = 0 /\ upload' = Idle /\ listed' = 0
  BY DEF Restart, remote, Current, NoRow
<1>2. Places' /\ Opening' /\ Handle' /\ Entry'
  BY <1>1, AloneFacts DEF Places, Opening, Handle, Entry, Exists
<1> QED BY <1>1, <1>2, IdleUpload DEF OneByOne

\* A request that writes or queues.
LEMMA WritePlaces ==
    ASSUME Alone, Write \/ Release \/ Truncate \/ FreeUp \/ QueueDirty
    PROVE  OneByOne'
<1>0. /\ upload = Idle /\ upload' = Idle /\ opening' = opening /\ listed' = listed
      /\ Current' = Current /\ handle' \in {handle, None} /\ freeing' \in {freeing, row}
      /\ row'.rev = row.rev /\ row'.cached = row.cached /\ row'.node = row.node
  <2>1. upload = Idle
    BY RequestsWait DEF Alone, Write, Release, Truncate, FreeUp, QueueDirty
  <2>2. /\ upload' = upload /\ opening' = opening /\ listed' = listed /\ content' = content
        /\ handle' \in {handle, None} /\ freeing' \in {freeing, row}
    BY DEF Write, Release, Truncate, FreeUp, QueueDirty, local, remote
  <2>3. row' = row \/ row' = [row EXCEPT !.dirty = TRUE]
    BY DEF Write, Release, Truncate, FreeUp, QueueDirty, local
  <2> QED BY <2>1, <2>2, <2>3, AloneFacts DEF Rows, Current
<1>1. \A p \in Paths : disk'[p] # None <=> disk[p] # None
  <2>1. CASE disk' = disk
    BY <2>1
  <2>2. CASE \E p \in Paths : disk[p] # None /\ disk' = [disk EXCEPT ![p] = edit + 1]
    <3>1. edit + 1 # None
      BY Ranges DEF Alone, None
    <3> QED BY <2>2, <3>1, AloneFacts
  <2>3. CASE Write
    BY <2>1, <2>2, <2>3, AloneFacts DEF Write, Handle, Exists
  <2>4. CASE Truncate
    BY <2>1, <2>2, <2>4, AloneFacts DEF Truncate, Exists
  <2>5. CASE Release \/ FreeUp \/ QueueDirty
    BY <2>1, <2>5 DEF Release, FreeUp, QueueDirty, local
  <2> QED BY <2>3, <2>4, <2>5
<1>2. \/ journal' = journal
      \/ /\ journal'.path = row.cached
         /\ journal'.rev = row.rev \/ (row.rev = 0 /\ journal'.rev = Current)
  <2>1. CASE Release \/ Truncate
    <3>1. PICK q \in Rows : /\ q.rev = row.rev /\ q.cached = row.cached
                            /\ \E r \in Refreshed(q) : Enqueue(r)
      BY <1>0, <2>1, AloneFacts DEF Release, Truncate
    <3>2. PICK r \in Refreshed(q) : Enqueue(r)
      BY <3>1
    <3>3. /\ r \in Rows /\ r.cached = row.cached
          /\ r.rev = row.rev \/ (row.rev = 0 /\ r.rev = Current)
      BY ZenonT(60), <3>1, <3>2, AloneFacts, Ranges DEF Refreshed, Rows, Alone
    <3> QED BY <3>2, <3>3, EnqueueEffect DEF Alone
  <2>2. CASE QueueDirty
    BY SMTT(30), <2>2, AloneFacts, EnqueueEffect DEF QueueDirty, Alone
  <2>3. CASE Write \/ FreeUp
    BY <2>3 DEF Write, FreeUp
  <2> QED BY <2>1, <2>2, <2>3
<1> QED BY <1>0, <1>1, <1>2, StillPlaces

\* Every step keeps the copy where it can be, one step at a time.
LEMMA PlacesStay == Alone /\ [Next]_vars => OneByOne'
<1> SUFFICES ASSUME Alone, [Next]_vars PROVE OneByOne'
    OBVIOUS
<1>1. CASE User
  BY <1>1, OpenPlaces, DownloadPlaces, WritePlaces, FreePlaces DEF User
<1>2. CASE UploadFails
  <2>1. /\ UNCHANGED <<row, disk, handle, opening, freeing, listed>> /\ Current' = Current
        /\ upload' = Idle /\ upload'.pc = "idle" /\ journal' \in {journal, NoEntry}
        /\ upload.pc # "row"
    BY <1>2 DEF UploadFails, Fail, local, remote, Current, Idle
  <2> QED BY <2>1, IdleUpload, AloneFacts, UploadPlaces
<1>3. CASE Flush
  BY <1>2, <1>3, BeginPlaces, ReadPlaces, CommitPlaces, SetNodePlaces, FetchPlaces,
     CreatePlaces, MovePlaces, UpdatePlaces, WritePlaces DEF Flush
<1>4. CASE List \/ ApplyListing
  BY <1>4, AloneFacts DEF List, ApplyListing, Places, Alone, Sequential
<1>5. CASE World
  BY <1>4, <1>5, EventPlaces, RemotePlaces, RestartPlaces DEF World
<1>6. CASE UNCHANGED vars
  BY <1>6, AloneFacts DEF OneByOne, Places, Opening, Handle, Entry, Upload, Exists, vars,
     Current
<1> QED BY <1>1, <1>3, <1>5, <1>6 DEF Next

-----------------------------------------------------------------------------
\* What is uploaded next is not older than what the server has.
Ordered == Alone /\ OneByOne' /\ Order

\* The facts the proofs about the order need.
LEMMA OrderedFacts ==
    ASSUME Ordered
    PROVE  /\ MaxEdits \in Nat /\ edit \in 0..MaxEdits /\ edit' \in 0..MaxEdits
           /\ Edits = 1..MaxEdits /\ None \notin Edits /\ Empty \notin Edits
           /\ \A S : Newest(S, Empty) /\ Newest(S, None)
           /\ content \in Seq(Contents) /\ Order /\ Alone
BY DEF Ordered, Alone, Facts, TypeOK, FileAssumption, Edits, None, Empty, Newest

\* What a new revision does to the server.
LEMMA Appended ==
    ASSUME Facts, NEW v \in Contents, content' = Append(content, v)
    PROVE  /\ Current' = Current + 1 /\ content'[Current'] = v
           /\ \A i \in 1..Current : content'[i] = content[i]
           /\ Stored' = Stored \cup {v}
<1>1. content \in Seq(Contents)
  BY DEF Facts, TypeOK
<1>2. /\ Len(content') = Len(content) + 1 /\ content'[Len(content) + 1] = v
      /\ \A i \in 1..Len(content) : content'[i] = content[i]
  BY <1>1, AppendProperties
<1>3. Len(content) \in Nat
  BY <1>1
<1> QED BY <1>2, <1>3 DEF Current, Stored

\* A step that leaves the server alone and writes nothing new.
LEMMA SameOrder ==
    ASSUME Ordered, content' = content, edit' = edit, row'.rev = row.rev,
           \A p \in Paths : disk'[p] \in {disk[p], None, Empty},
           \/ upload' = upload
           \/ /\ upload'.pc # "commit" /\ upload'.data \in {upload.data, Empty}
              /\ upload'.pc \in Sent => upload.pc \in Sent /\ upload'.data = upload.data
    PROVE  Order'
<1>1. Stored' = Stored /\ Current' = Current
  BY DEF Stored, Current
<1>2. /\ \A p \in Paths : disk'[p] \in Edits => disk'[p] <= edit'
      /\ \A c \in Stored' \cap Edits : c <= edit'
  BY <1>1, OrderedFacts DEF Order
<1>3. Current' > 0 => Newest(Stored', content'[Current'])
  BY <1>1, OrderedFacts DEF Order, Fresh
<1>4. row'.rev = 0 => \A p \in {Created, Reopened} : Exists(p)' => Newest(Stored', disk'[p])
  <2>1. {Created, Reopened} \subseteq Paths
    BY SMTT(30), OrderedFacts, AloneFacts
  <2> QED BY <1>1, <2>1, OrderedFacts DEF Order, Fresh, Exists
<1>5. row'.rev # 0 /\ row'.rev = Current' /\ Exists(row.rev)'
         => Newest(Stored', disk'[row'.rev])
  <2>1. row.rev \in Paths
    BY SMTT(30), OrderedFacts, AloneFacts
  <2> QED BY <1>1, <2>1, OrderedFacts DEF Order, Fresh, Exists
<1>6. /\ upload'.data \in Edits => upload'.data <= edit'
      /\ upload'.pc = "commit" /\ (upload'.kind = "create" \/ upload'.rev = Current')
            => Newest(Stored', upload'.data)
      /\ upload'.pc \in Sent => Newest(Stored', upload'.data)
  BY <1>1, OrderedFacts DEF Order, Fresh
<1> QED BY <1>1, <1>2, <1>3, <1>4, <1>5, <1>6 DEF Order, Fresh

\* A new edit is newer than everything.
LEMMA WriteOrder ==
    ASSUME Ordered, upload = Idle, upload' = upload, content' = content, row'.rev = row.rev,
           edit' = edit + 1, \A p \in Paths : disk'[p] \in {disk[p], edit + 1}
    PROVE  Order'
<1>1. Stored' = Stored /\ Current' = Current /\ upload'.pc = "idle" /\ upload'.data = Empty
  BY DEF Stored, Current, Idle
<1>2. /\ \A p \in Paths : disk'[p] \in Edits => disk'[p] <= edit'
      /\ \A c \in Stored' \cap Edits : c <= edit'
  BY <1>1, OrderedFacts DEF Order
<1>3. Newest(Stored', edit + 1)
  BY <1>1, <1>2 DEF Newest
<1>4. Current' > 0 => Newest(Stored', content'[Current'])
  BY <1>1, OrderedFacts DEF Order, Fresh
<1>5. row'.rev = 0 => \A p \in {Created, Reopened} : Exists(p)' => Newest(Stored', disk'[p])
  <2>1. \A p \in {Created, Reopened} : p \in Paths /\ p # None
    <3>1. /\ MaxRevisions \in Nat /\ Paths = 0..(MaxRevisions + 1) /\ None = -1
          /\ Created = 0 /\ Reopened = MaxRevisions + 1
      BY OrderedFacts, AloneFacts
    <3> QED BY <3>1
  <2>2. SUFFICES ASSUME row'.rev = 0, NEW p \in {Created, Reopened}, Exists(p)'
                 PROVE  Newest(Stored', disk'[p])
    OBVIOUS
  <2>3. CASE disk'[p] = edit + 1
    BY <1>3, <2>3
  <2>4. CASE disk'[p] = disk[p]
    BY <1>1, <2>1, <2>2, <2>4, OrderedFacts DEF Order, Fresh, Exists
  <2> QED BY <2>1, <2>3, <2>4
<1>6. row'.rev # 0 /\ row'.rev = Current' /\ Exists(row.rev)'
         => Newest(Stored', disk'[row'.rev])
  <2>1. PICK p \in Paths : p = row.rev /\ p # None
    BY SMTT(30), OrderedFacts, AloneFacts
  <2>2. CASE disk'[p] = edit + 1
    BY <1>3, <2>1, <2>2
  <2>3. CASE disk'[p] = disk[p]
    BY <1>1, <2>1, <2>3, OrderedFacts DEF Order, Fresh, Exists
  <2> QED BY <2>2, <2>3
<1> QED BY <1>1, <1>2, <1>4, <1>5, <1>6, OrderedFacts DEF Order, Fresh, Sent

\* What is downloaded is what the server has.
LEMMA DownloadOrder ==
    ASSUME Ordered, Downloaded
    PROVE  Order'
<1>0. /\ content' = content /\ edit' = edit /\ upload' = upload /\ Current' = Current
      /\ Stored' = Stored
  BY DEF Downloaded, remote, Current, Stored
<1>1. CASE Remove({opening}) /\ UNCHANGED row
  <2>1. \A p \in Paths : disk'[p] \in {disk[p], None, Empty}
    BY <1>1, OrderedFacts, AloneFacts, RemoveEffect DEF Alone
  <2> QED BY <1>0, <1>1, <2>1, SameOrder
<1>2. CASE /\ disk' = [disk EXCEPT ![opening] = content[opening]]
           /\ handle' = opening /\ row' = [row EXCEPT !.cached = opening]
  <2>1. opening # 0 /\ opening = row.rev /\ opening \in 1..Current /\ opening \in Paths
    BY SMTT(30), OrderedFacts, AloneFacts DEF Downloaded, Opening, Real
  <2>2. /\ row'.rev = row.rev /\ disk'[opening] = content[opening]
        /\ \A p \in Paths \ {opening} : disk'[p] = disk[p]
    BY <1>2, <2>1, OrderedFacts, AloneFacts DEF Rows
  <2>3. content[opening] \in Stored
    BY <2>1 DEF Stored
  <2>4. /\ \A p \in Paths : disk'[p] \in Edits => disk'[p] <= edit
        /\ \A c \in Stored \cap Edits : c <= edit
    BY <2>2, <2>3, OrderedFacts DEF Order
  <2>5. row.rev = Current => Newest(Stored, disk'[row.rev])
    BY <2>1, <2>2, OrderedFacts DEF Order, Fresh
  <2>6. Current > 0 => Newest(Stored, content[Current])
    BY OrderedFacts DEF Order, Fresh
  <2>7. /\ upload.data \in Edits => upload.data <= edit
        /\ upload.pc = "commit" /\ (upload.kind = "create" \/ upload.rev = Current)
              => Newest(Stored, upload.data)
        /\ upload.pc \in Sent => Newest(Stored, upload.data)
    BY OrderedFacts DEF Order, Fresh
  <2> QED BY <1>0, <2>1, <2>2, <2>4, <2>5, <2>6, <2>7 DEF Order, Fresh
<1> QED BY <1>1, <1>2 DEF Downloaded

\* What is read is the copy of the row, of the revision the upload is based on.
LEMMA ReadOrder ==
    ASSUME Ordered, ReadFile
    PROVE  Order'
<1>0. /\ content' = content /\ edit' = edit /\ Current' = Current /\ Stored' = Stored
      /\ row' = row /\ disk' = disk /\ upload.pc = "open"
  BY DEF ReadFile, local, remote, Current, Stored
<1>1. CASE upload' = Idle
  <2>1. upload'.pc # "commit" /\ upload'.data = Empty /\ upload'.pc \notin Sent
    BY <1>1 DEF Idle, Sent
  <2> QED BY <1>0, <2>1, SameOrder
<1>2. CASE /\ Exists(upload.path)
           /\ upload' = [upload EXCEPT !.pc = "commit", !.data = disk[upload.path]]
  <2>1. /\ upload'.pc = "commit" /\ upload'.data = disk[upload.path]
        /\ upload'.kind = upload.kind /\ upload'.rev = upload.rev
    BY <1>2, OrderedFacts, AloneFacts DEF Uploads
  <2>2. PICK p \in Paths : /\ p = upload.path /\ p = row.cached /\ Exists(p)
                           /\ row.cached = upload.path /\ row.cached # None
    BY <1>0, <1>2, OrderedFacts, AloneFacts DEF Upload, Exists
  <2>3. row.rev = 0 => Newest(Stored, disk[p])
    <3>1. row.rev = 0 => p \in {Created, Reopened}
      BY <2>2, OrderedFacts, AloneFacts DEF Places
    <3> QED BY <2>2, <3>1, OrderedFacts DEF Order, Fresh
  <2>4. row.rev # 0 /\ row.rev = Current => Newest(Stored, disk[p])
    <3>1. row.rev # 0 => p = row.rev
      BY <2>2, OrderedFacts, AloneFacts DEF Places
    <3> QED BY <2>2, <3>1, OrderedFacts DEF Order, Fresh
  <2>5. /\ upload.kind = "create" => row.rev = 0
        /\ upload.kind = "update" => row.rev \in {0, upload.rev}
        /\ upload.kind \in {"create", "update"}
    <3>1. upload # Idle
      BY <1>0 DEF Idle
    <3> QED BY <1>0, <3>1, OrderedFacts, AloneFacts DEF Upload, Real, Uploads, Kinds
  <2>6. upload.kind = "create" \/ upload.rev = Current => Newest(Stored, disk[p])
    BY <2>3, <2>4, <2>5
  <2>7. disk[p] \in Edits => disk[p] <= edit
    BY <2>2, OrderedFacts DEF Order
  <2>8. /\ \A c \in Stored \cap Edits : c <= edit
        /\ \A x \in Paths : disk[x] \in Edits => disk[x] <= edit
        /\ Current > 0 => Fresh(content[Current])
        /\ row.rev = 0 => \A x \in {Created, Reopened} : Exists(x) => Fresh(disk[x])
        /\ row.rev # 0 /\ row.rev = Current /\ Exists(row.rev) => Fresh(disk[row.rev])
    BY OrderedFacts DEF Order
  <2>9. upload'.data = disk[p] /\ upload'.pc \notin Sent
    BY <2>1, <2>2 DEF Sent
  <2> QED BY <1>0, <2>1, <2>6, <2>7, <2>8, <2>9 DEF Order, Fresh, Exists
<1> QED BY <1>1, <1>2 DEF ReadFile

\* A revision is appended whose content, if it is an edit, no edit there is newer than.
LEMMA CommitOrder ==
    ASSUME Ordered, Commit
    PROVE  Order'
<1>0. /\ content' = Append(content, upload.data) /\ edit' = edit /\ disk' = disk /\ row' = row
      /\ upload.pc = "commit" /\ Accepted
  BY DEF Commit, local
<1>1. /\ Current' = Current + 1 /\ content'[Current'] = upload.data
      /\ Stored' = Stored \cup {upload.data}
  BY <1>0, OrderedFacts, AloneFacts, Appended DEF Alone
<1>2. upload.data \in Edits => upload.data <= edit
  BY OrderedFacts DEF Order
<1>3. Newest(Stored', upload.data)
  <2>1. Newest(Stored, upload.data)
    BY <1>0, OrderedFacts DEF Order, Fresh, Accepted
  <2> QED BY <1>1, <2>1, OrderedFacts DEF Newest
<1>4. /\ \A c \in Stored' \cap Edits : c <= edit
      /\ \A x \in Paths : disk[x] \in Edits => disk[x] <= edit
  BY <1>1, <1>2, OrderedFacts DEF Order
<1>5. row.rev = 0 => \A x \in {Created, Reopened} : Exists(x) => Newest(Stored', disk[x])
  <2>1. SUFFICES ASSUME row.rev = 0, NEW x \in {Created, Reopened}, Exists(x)
                 PROVE  Newest(Stored', disk[x])
    OBVIOUS
  <2>2. x = row.cached
    BY <2>1, OrderedFacts, AloneFacts DEF Places
  <2>3. disk[x] = upload.data
    BY <1>0, <2>1, <2>2, OrderedFacts, AloneFacts DEF Upload, Exists
  <2> QED BY <1>3, <2>3
<1>6. row.rev # Current'
  <2>1. row.rev <= Current
    BY OrderedFacts, AloneFacts DEF Real, RevisionIsReal
  <2> QED BY SMTT(30), <1>1, <2>1, OrderedFacts, AloneFacts
<1>7. upload'.pc # "commit" /\ upload'.data \in {Empty, upload.data}
  <2>1. CASE Fail
    BY <2>1 DEF Fail, Idle
  <2>2. CASE upload' = [upload EXCEPT !.pc = IF upload.kind = "create" THEN "node" ELSE "fetch"]
    BY <2>2, OrderedFacts, AloneFacts DEF Uploads
  <2> QED BY <2>1, <2>2 DEF Commit
<1>8. Newest(Stored', upload'.data) /\ (upload'.data \in Edits => upload'.data <= edit)
  BY <1>2, <1>3, <1>7, OrderedFacts
<1> QED BY <1>0, <1>1, <1>3, <1>4, <1>5, <1>6, <1>7, <1>8 DEF Order, Fresh, Exists

\* What other clients write is no edit of the user.
LEMMA RemoteOrder ==
    ASSUME Ordered, RemoteEdit
    PROVE  Order'
<1>0. /\ content' = Append(content, MaxEdits + Current) /\ edit' = edit /\ disk' = disk
      /\ row' = row /\ upload' = upload /\ Current > 0
  BY OrderedFacts, AloneFacts DEF RemoteEdit, local
<1>1. MaxEdits + Current \in Contents /\ MaxEdits + Current \notin Edits
  <2>1. MaxEdits + Current \in Contents
    BY SMTT(30), OrderedFacts, Ranges DEF Contents, Alone, RemoteEdit
  <2> QED BY <1>0, <2>1, OrderedFacts, AloneFacts
<1>2. /\ Current' = Current + 1 /\ content'[Current'] = MaxEdits + Current
      /\ Stored' = Stored \cup {MaxEdits + Current}
  BY <1>0, <1>1, OrderedFacts, Appended DEF Alone
<1>3. Stored' \cap Edits = Stored \cap Edits
  BY <1>1, <1>2
<1>4. \A v : Newest(Stored', v) <=> Newest(Stored, v)
  BY <1>3 DEF Newest
<1>5. Newest(Stored', content'[Current'])
  BY <1>1, <1>2 DEF Newest
<1>6. row.rev # Current' /\ upload.rev # Current'
  <2>1. row.rev <= Current /\ upload.rev <= Current
    BY OrderedFacts, AloneFacts DEF Real, RevisionIsReal, Upload
  <2>2. row.rev \in Int /\ upload.rev \in Int /\ Current \in Int
    BY OrderedFacts, AloneFacts
  <2> QED BY <1>2, <2>1, <2>2
<1>7. /\ \A c \in Stored \cap Edits : c <= edit
      /\ \A x \in Paths : disk[x] \in Edits => disk[x] <= edit
      /\ row.rev = 0 => \A x \in {Created, Reopened} : Exists(x) => Newest(Stored, disk[x])
      /\ upload.data \in Edits => upload.data <= edit
      /\ upload.pc = "commit" /\ upload.kind = "create" => Newest(Stored, upload.data)
      /\ upload.pc \in Sent => Newest(Stored, upload.data)
  BY OrderedFacts DEF Order, Fresh
<1> QED BY <1>0, <1>3, <1>4, <1>5, <1>6, <1>7 DEF Order, Fresh, Exists

\* The end of an upload: the row gets the revision that was uploaded, and its copy.
LEMMA RowOrder ==
    ASSUME Ordered, content' = content, edit' = edit, upload' = Idle, row'.rev = upload.rev,
           upload.rev \in 1..Current, upload.pc \in Sent,
           \A p \in Paths : disk'[p] \in {disk[p], None, upload.data},
           disk'[upload.rev] \in {None, upload.data}
    PROVE  Order'
<1>1. Stored' = Stored /\ Current' = Current /\ upload'.pc = "idle" /\ upload'.data = Empty
      /\ row'.rev # 0
  BY OrderedFacts, AloneFacts DEF Stored, Current, Idle
<1>2. /\ \A c \in Stored \cap Edits : c <= edit
      /\ \A p \in Paths : disk[p] \in Edits => disk[p] <= edit
      /\ upload.data \in Edits => upload.data <= edit
      /\ Newest(Stored, upload.data)
      /\ Current > 0 => Newest(Stored, content[Current])
  BY OrderedFacts DEF Order, Fresh
<1>3. \A p \in Paths : disk'[p] \in Edits => disk'[p] <= edit
  BY <1>2, OrderedFacts
<1>4. Newest(Stored, disk'[upload.rev])
  BY <1>2, OrderedFacts
<1> QED BY <1>1, <1>2, <1>3, <1>4, OrderedFacts DEF Order, Fresh, Sent

\* The file is moved to the path of the new revision, which is not the row's.
LEMMA MoveOrder ==
    ASSUME Ordered, MoveFile
    PROVE  Order'
<1>0. /\ content' = content /\ edit' = edit /\ row' = row /\ upload'.pc = "row"
      /\ upload'.data = upload.data /\ upload.pc = "move" /\ Stored' = Stored
      /\ Current' = Current
  BY OrderedFacts, AloneFacts DEF MoveFile, remote, Uploads, Stored, Current
<1>1. /\ upload.rev \in Paths /\ upload.rev \notin {Created, Reopened, None}
      /\ row.rev # upload.rev
  BY <1>0, OrderedFacts, AloneFacts, MovesAway
<1>2. /\ \A p \in Paths : disk'[p] \in {disk[p], None, upload.data}
      /\ \A p \in Paths \ {upload.rev} : disk'[p] \in {disk[p], None}
  <2>1. /\ Move(upload.path, upload.rev)
    BY DEF MoveFile
  <2> QED BY <1>0, <2>1, OrderedFacts, MovedCopy
<1>3. /\ \A c \in Stored \cap Edits : c <= edit
      /\ \A p \in Paths : disk[p] \in Edits => disk[p] <= edit
      /\ upload.data \in Edits => upload.data <= edit
      /\ Newest(Stored, upload.data)
      /\ Current > 0 => Newest(Stored, content[Current])
      /\ row.rev = 0 => \A x \in {Created, Reopened} : Exists(x) => Newest(Stored, disk[x])
      /\ row.rev # 0 /\ row.rev = Current /\ Exists(row.rev) => Newest(Stored, disk[row.rev])
  BY <1>0, OrderedFacts DEF Order, Fresh, Sent
<1>4. \A p \in Paths : disk'[p] \in Edits => disk'[p] <= edit
  BY <1>2, <1>3, OrderedFacts
<1>5. row.rev = 0 => \A x \in {Created, Reopened} : Exists(x)' => Newest(Stored, disk'[x])
  <2>1. \A x \in {Created, Reopened} : x \in Paths \ {upload.rev}
    <3>1. /\ MaxRevisions \in Nat /\ Paths = 0..(MaxRevisions + 1)
          /\ Created = 0 /\ Reopened = MaxRevisions + 1
      BY OrderedFacts, AloneFacts
    <3> QED BY <1>1, <3>1
  <2> QED BY <1>2, <1>3, <2>1 DEF Exists
<1>6. row.rev # 0 /\ row.rev = Current /\ Exists(row.rev)' => Newest(Stored, disk'[row.rev])
  <2>1. row.rev \in Paths \ {upload.rev}
    BY SMTT(30), <1>1, OrderedFacts, AloneFacts
  <2> QED BY <1>0, <1>2, <1>3, <2>1 DEF Exists
<1> QED BY <1>0, <1>3, <1>4, <1>5, <1>6 DEF Order, Fresh, Sent

\* Every step keeps the order.
LEMMA OrderStays == Ordered /\ [Next]_vars => Order'
<1> SUFFICES ASSUME Ordered, [Next]_vars PROVE Order'
    OBVIOUS
<1>1. CASE Write \/ Truncate
  <2>1. upload = Idle
    BY <1>1, OrderedFacts, RequestsWait DEF Alone, Write, Truncate
  <2>2. /\ upload' = upload /\ content' = content /\ edit' = edit + 1
        /\ row' = [row EXCEPT !.dirty = TRUE]
    BY <1>1 DEF Write, Truncate, remote
  <2>3. row'.rev = row.rev
    BY <2>2, OrderedFacts, AloneFacts DEF Rows
  <2>4. \A p \in Paths : disk'[p] \in {disk[p], edit + 1}
    <3>1. disk' = disk \/ \E q : disk' = [disk EXCEPT ![q] = edit + 1]
      BY <1>1 DEF Write, Truncate
    <3> QED BY <3>1, OrderedFacts, AloneFacts
  <2> QED BY <2>1, <2>2, <2>3, <2>4, WriteOrder
<1>2. CASE CreateDone \/ UpdateDone
  <2>1. /\ content' = content /\ edit' = edit /\ upload' = Idle /\ row'.rev = upload.rev
        /\ upload.pc \in {"move", "row"}
    BY <1>2, OrderedFacts, AloneFacts DEF CreateDone, UpdateDone, remote, Rows
  <2>2. upload.rev \in 1..Current /\ upload.pc \in Sent /\ upload.rev \in Paths
    BY SMTT(30), <2>1, OrderedFacts, AloneFacts DEF Real, Sent
  <2>3. /\ \A p \in Paths : disk'[p] \in {disk[p], None, upload.data}
        /\ disk'[upload.rev] \in {None, upload.data}
    <3>1. CASE UpdateDone
      <4>1. disk' = disk /\ upload.pc = "row"
        BY <3>1 DEF UpdateDone
      <4>2. Exists(upload.rev) => disk[upload.rev] = upload.data
        BY <4>1, OrderedFacts, AloneFacts DEF Upload
      <4>3. upload.rev # None
        BY <2>2 DEF None
      <4> QED BY <4>1, <4>2, <4>3 DEF Exists
    <3>2. CASE CreateDone
      <4>1. Move(upload.path, upload.rev) /\ upload.pc = "move"
        BY <3>2 DEF CreateDone
      <4> QED BY <4>1, OrderedFacts, MovedCopy
    <3> QED BY <1>2, <3>1, <3>2
  <2> QED BY <2>1, <2>2, <2>3, RowOrder
<1>3. CASE FreeUpSpace \/ PollEvent
  <2>1. content' = content /\ edit' = edit /\ upload' = upload /\ row'.rev = row.rev
    BY <1>3, OrderedFacts, AloneFacts DEF FreeUpSpace, PollEvent, remote, local, Rows
  <2>2. disk' = disk \/ \E S : Remove(S)
    BY <1>3 DEF FreeUpSpace, PollEvent, local
  <2>3. \A p \in Paths : disk'[p] \in {disk[p], None, Empty}
    BY <2>2, OrderedFacts, RemoveEffect DEF Alone
  <2> QED BY <2>1, <2>3, SameOrder
<1>4. CASE OpenNew
  <2>1. content' = content /\ edit' = edit /\ upload' = upload /\ row'.rev = row.rev
    BY <1>4, OrderedFacts, AloneFacts DEF OpenNew, remote, Rows
  <2>2. \A p \in Paths : disk'[p] \in {disk[p], None, Empty}
    BY <1>4, OrderedFacts, AloneFacts DEF OpenNew
  <2> QED BY <2>1, <2>2, SameOrder
<1>5. CASE OpenCached \/ OpenOnline \/ Release \/ FreeUp \/ QueueDirty \/ UNCHANGED vars
  <2>1. /\ content' = content /\ edit' = edit /\ upload' = upload /\ disk' = disk
        /\ row' = row \/ \E p : row' = [row EXCEPT !.cached = p]
    BY <1>5 DEF OpenCached, OpenOnline, Release, FreeUp, QueueDirty, remote, local, vars
  <2>2. row'.rev = row.rev
    BY <2>1, OrderedFacts, AloneFacts DEF Rows
  <2> QED BY <2>1, <2>2, SameOrder
<1>6. CASE Begin \/ UploadFails \/ SetNode \/ FetchNode \/ Restart
  <2>1. /\ content' = content /\ edit' = edit /\ disk' = disk
        /\ row' = row \/ row' = [row EXCEPT !.node = TRUE, !.dirty = FALSE]
    BY <1>6 DEF Begin, UploadFails, SetNode, FetchNode, Restart, remote, local
  <2>2. row'.rev = row.rev
    BY <2>1, OrderedFacts, AloneFacts DEF Rows
  <2>3. \/ upload' = upload \/ upload' = Idle
        \/ upload'.pc = "open" /\ upload'.data = Empty
        \/ /\ upload.pc \in {"node", "fetch"} /\ upload'.pc \in {"fetch", "move"}
           /\ upload'.data = upload.data
    <3>1. CASE Begin
      BY <3>1 DEF Begin
    <3>2. CASE SetNode \/ FetchNode
      BY <3>2, OrderedFacts, AloneFacts DEF SetNode, FetchNode, Uploads
    <3>3. CASE UploadFails \/ Restart
      BY <3>3 DEF UploadFails, Restart, Fail
    <3> QED BY <1>6, <3>1, <3>2, <3>3
  <2>4. \/ upload' = upload
        \/ /\ upload'.pc # "commit" /\ upload'.data \in {upload.data, Empty}
           /\ upload'.pc \in Sent => upload.pc \in Sent /\ upload'.data = upload.data
    BY <2>3 DEF Idle, Sent
  <2> QED BY <2>1, <2>2, <2>4, SameOrder
<1>7. CASE List \/ ApplyListing
  BY <1>7, OrderedFacts, AloneFacts DEF List, ApplyListing, Places, Alone, Sequential
<1> QED BY <1>1, <1>2, <1>3, <1>4, <1>5, <1>6, <1>7, DownloadOrder, ReadOrder, CommitOrder,
           MoveOrder, RemoteOrder DEF Next, User, Flush, World

-----------------------------------------------------------------------------
\* No edit is lost: with another client besides, and nothing else.
Keeping == Alone /\ OneByOne' /\ OneParty /\ Kept

\* The facts the proofs about the last edit need.
LEMMA KeepingFacts ==
    ASSUME Keeping
    PROVE  Alone /\ OneParty /\ Kept /\ edit \in Nat /\ None \notin Paths
<1>1. edit \in Nat /\ MaxRevisions \in Nat
  BY Ranges DEF Keeping, Alone
<1> QED BY <1>1 DEF Keeping, None, Paths

\* What is stored stays stored, and what is committed is.
LEMMA StoredStays ==
    ASSUME Facts, [Next]_vars
    PROVE  /\ Stored \subseteq Stored' /\ Current' >= Current
           /\ Current' # Current => Commit \/ RemoteEdit
           /\ Commit => upload.data \in Stored'
<1>0. content \in Seq(Contents) /\ Current \in Nat
  BY Ranges DEF Facts, TypeOK
<1>1. CASE Commit
  <2>1. upload.data \in Contents /\ content' = Append(content, upload.data)
    BY <1>1 DEF Commit, Facts, TypeOK
  <2> QED BY <1>0, <1>1, <2>1, Appended
<1>2. CASE RemoteEdit
  <2>1. MaxEdits + Current \in Contents /\ content' = Append(content, MaxEdits + Current)
    BY SMTT(30), <1>2, Ranges DEF RemoteEdit, Contents
  <2>2. upload.data \in Stored' \/ ~Commit
    BY <1>1, <1>2, <2>1
  <2> QED BY <1>0, <1>1, <1>2, <2>1, Appended
<1>3. CASE ~Commit /\ ~RemoteEdit
  <2>1. content' = content
    BY <1>3 DEF Next, User, Flush, World, OpenCached, OpenNew, OpenOnline, Downloaded, Write,
           Release, Truncate, FreeUp, FreeUpSpace, Begin, ReadFile, UploadFails, SetNode,
           FetchNode, CreateDone, MoveFile, UpdateDone, QueueDirty, PollEvent, List,
           ApplyListing, Restart, remote, vars
  <2> QED BY <1>0, <1>3, <2>1 DEF Stored, Current
<1> QED BY <1>1, <1>2, <1>3

\* A step after which the row still says what it said, and that writes nothing.
LEMMA SameKept ==
    ASSUME Keeping, Safe => Safe', edit' = edit, row' = row, disk' = disk,
           handle' \in {handle, None}, opening' \in {opening, 0} \/ Safe,
           journal' \in {journal, NoEntry} \/ row.cached # None,
           freeing' \in {freeing, row, NoRow},
           upload'.pc = "commit" => Safe' \/ upload'.data = edit,
           upload'.pc \in Sent => Safe'
    PROVE  Kept'
<1>1. Kept /\ Orphan # None /\ NoRow.dirty
  BY KeepingFacts DEF Orphan, None, NoRow
<1>2. Exists(row.cached)' = Exists(row.cached)
  BY DEF Exists
<1> QED BY <1>1, <1>2 DEF Kept

\* A step at which the last edit is on the server.
LEMMA SafeKept ==
    ASSUME Keeping, Safe', edit' = edit,
           row'.cached = None => ~row'.dirty /\ journal' = NoEntry,
           handle' # Orphan, ~freeing'.dirty => ~row'.dirty
    PROVE  Kept'
BY DEF Kept

\* The requests that write nothing.
LEMMA RequestsKept ==
    ASSUME Keeping, [Next]_vars,
           OpenCached \/ OpenNew \/ OpenOnline \/ Downloaded \/ Release \/ FreeUp \/ QueueDirty
    PROVE  Kept'
<1>0. /\ edit' = edit /\ upload' = upload /\ Stored' = Stored /\ Current' = Current
      /\ Safe' = Safe /\ row \in Rows
  <2>1. /\ edit' = edit /\ upload' = upload /\ content' = content
    BY DEF OpenCached, OpenNew, OpenOnline, Downloaded, Release, FreeUp, QueueDirty, remote
  <2> QED BY <2>1, KeepingFacts, AloneFacts DEF Stored, Current, Safe
<1>1. Kept
  BY KeepingFacts
<1>2. CASE OpenCached
  <2>1. PICK p \in {row.cached} \cup (IF Exists(row.cached) \/ row.rev = 0
                                      THEN {} ELSE {row.rev}) :
          /\ Exists(p)
          /\ handle' = p
          /\ row' = [row EXCEPT !.cached = p]
    BY <1>2 DEF OpenCached
  <2>2. UNCHANGED <<disk, opening, freeing, journal>>
    BY <1>2 DEF OpenCached
  <2>3. row'.cached = p /\ row'.dirty = row.dirty
    BY <1>0, <2>1 DEF Rows
  <2>4. p # None /\ p # Orphan
    BY SMTT(30), <2>1, KeepingFacts, AloneFacts DEF Exists
  <2>5. CASE p = row.cached
    <3>1. row' = row
      BY <1>0, <2>1, <2>5 DEF Rows
    <3> QED BY <1>0, <1>1, <2>1, <2>2, <2>4, <3>1 DEF Kept, Exists
  <2>6. CASE p # row.cached
    <3>1. Safe
      BY <1>1, <2>1, <2>6 DEF Kept
    <3> QED BY <1>0, <1>1, <2>1, <2>2, <2>3, <2>4, <3>1, SafeKept DEF Kept
  <2> QED BY <2>5, <2>6
<1>3. CASE OpenNew
  <2>1. Safe /\ handle' = Reopened /\ UNCHANGED freeing
    BY <1>1, <1>3 DEF OpenNew, Kept
  <2>2. row'.cached = Reopened /\ row'.dirty = row.dirty
    BY <1>0, <1>3 DEF OpenNew, Rows
  <2>3. Reopened # None /\ Reopened # Orphan
    BY SMTT(30), KeepingFacts, AloneFacts
  <2> QED BY <1>0, <1>1, <2>1, <2>2, <2>3, SafeKept DEF Kept
<1>4. CASE OpenOnline
  <2>1. Safe /\ UNCHANGED <<row, handle, journal, freeing>>
    BY <1>1, <1>4 DEF OpenOnline, Kept, local
  <2> QED BY <1>0, <1>1, <2>1, SafeKept DEF Kept
<1>5. CASE Downloaded
  <2>1. Safe /\ UNCHANGED <<journal, freeing>> /\ handle = None /\ opening \in Paths
    BY <1>1, <1>5, KeepingFacts, AloneFacts DEF Downloaded, Kept, Opening
  <2>2. CASE Remove({opening}) /\ UNCHANGED row
    <3>1. handle' = None
      BY <2>1, <2>2, KeepingFacts DEF Remove
    <3>2. None # Orphan
      BY DEF None, Orphan
    <3> QED BY <1>0, <1>1, <2>1, <2>2, <3>1, <3>2, SafeKept DEF Kept
  <2>3. CASE handle' = opening /\ row' = [row EXCEPT !.cached = opening]
    <3>1. /\ row'.cached = opening /\ row'.dirty = row.dirty /\ opening # None
          /\ opening # Orphan
      BY SMTT(30), <1>0, <2>1, <2>3, KeepingFacts, AloneFacts DEF Rows
    <3> QED BY <1>0, <1>1, <2>1, <2>3, <3>1, SafeKept DEF Kept
  <2> QED BY <1>5, <2>2, <2>3 DEF Downloaded
<1>6. CASE Release \/ FreeUp \/ QueueDirty
  <2>1. /\ row' = row /\ disk' = disk /\ handle' \in {handle, None} /\ opening' = opening
        /\ freeing' \in {freeing, row}
    BY <1>6 DEF Release, FreeUp, QueueDirty, local
  <2>2. journal' = journal \/ row.dirty
    <3>1. CASE Release \/ QueueDirty
      <4>1. \E r \in Rows : r.dirty = row.dirty /\ Enqueue(r)
        BY <1>0, <3>1, KeepingFacts, RefreshedTyped DEF Release, QueueDirty, Alone
      <4> QED BY <4>1, KeepingFacts, EnqueueEffect DEF Alone
    <3>2. CASE FreeUp
      BY <3>2 DEF FreeUp
    <3> QED BY <1>6, <3>1, <3>2
  <2>3. row.dirty => row.cached # None
    BY <1>1 DEF Kept
  <2>4. /\ upload'.pc = "commit" => Safe' \/ upload'.data = edit
        /\ upload'.pc \in Sent => Safe'
    BY <1>0, <1>1 DEF Kept
  <2> QED BY <1>0, <2>1, <2>2, <2>3, <2>4, SameKept
<1> QED BY <1>2, <1>3, <1>4, <1>5, <1>6

\* A write goes to the file of the row: no upload is there to move it.
LEMMA WriteKept ==
    ASSUME Keeping, Write \/ Truncate
    PROVE  Kept'
<1>0. /\ upload = Idle /\ opening = 0 /\ freeing = NoRow /\ Kept
  BY KeepingFacts, RequestsWait DEF Alone, Write, Truncate
<1>1. /\ upload' = Idle /\ upload'.pc = "idle" /\ opening' = 0 /\ freeing'.dirty = TRUE
      /\ handle' = handle /\ edit' = edit + 1 /\ row' = [row EXCEPT !.dirty = TRUE]
  BY <1>0 DEF Write, Truncate, Idle, NoRow
<1>2. row'.cached = row.cached /\ row'.dirty = TRUE
  BY <1>1, KeepingFacts, AloneFacts DEF Rows
<1>3. Exists(row.cached) /\ disk' = [disk EXCEPT ![row.cached] = edit + 1]
  <2>1. CASE Write
    <3>1. handle \notin {None, Orphan}
      BY <1>0, <2>1 DEF Write, Kept
    <3>2. Exists(handle) /\ handle = row.cached
      BY <1>0, <3>1, KeepingFacts, AloneFacts DEF Handle, Idle
    <3> QED BY <2>1, <3>1, <3>2 DEF Write
  <2>2. CASE Truncate
    BY <2>2, KeepingFacts DEF Truncate, OneParty
  <2> QED BY <2>1, <2>2
<1>4. row.cached \in Paths /\ row.cached # None
  BY <1>3, KeepingFacts, AloneFacts DEF Exists
<1>5. disk'[row.cached] = edit + 1 /\ edit + 1 # None
  BY SMTT(30), <1>3, <1>4, KeepingFacts, AloneFacts
<1> QED BY <1>0, <1>1, <1>2, <1>4, <1>5 DEF Kept, Exists, Sent

\* Only what is stored is freed.
LEMMA FreeKept ==
    ASSUME Keeping, FreeUpSpace
    PROVE  Kept'
<1>0. /\ UNCHANGED <<opening, edit, journal, upload>> /\ Safe' = Safe /\ freeing' = NoRow
      /\ NoRow.dirty /\ Kept /\ None # Orphan
  BY KeepingFacts DEF FreeUpSpace, remote, Safe, Stored, Current, NoRow, None, Orphan
<1>1. CASE UNCHANGED local
  BY <1>0, <1>1 DEF local, Kept, Exists
<1>2. CASE /\ ~freeing.dirty /\ journal = NoEntry /\ handle = None
           /\ Remove({freeing.cached, freeing.rev} \ {None})
           /\ row' = [row EXCEPT !.cached = None]
  <2>1. Safe /\ ~row.dirty
    BY <1>0, <1>2 DEF Kept
  <2>2. row'.dirty = row.dirty
    BY <1>2, KeepingFacts, AloneFacts DEF Rows
  <2>3. handle' = None
    BY <1>2 DEF Remove
  <2> QED BY <1>0, <1>2, <2>1, <2>2, <2>3, SafeKept
<1> QED BY <1>1, <1>2 DEF FreeUpSpace

\* What is read for an upload is the last edit, or that is on the server.
LEMMA UploadKept ==
    ASSUME Keeping, [Next]_vars,
           Begin \/ ReadFile \/ UploadFails \/ Commit \/ FetchNode
    PROVE  Kept'
<1>0. /\ UNCHANGED <<row, disk, handle, opening, freeing, edit>>
      /\ journal' \in {journal, NoEntry} /\ Kept /\ (Safe => Safe')
  <2>1. /\ UNCHANGED <<row, disk, handle, opening, freeing, edit>>
        /\ journal' \in {journal, NoEntry}
    BY DEF Begin, ReadFile, UploadFails, Commit, FetchNode, Fail, local
  <2>2. Stored \subseteq Stored'
    BY KeepingFacts, StoredStays DEF Alone
  <2> QED BY <2>1, <2>2, KeepingFacts DEF Safe
<1>1. CASE Begin \/ UploadFails
  <2>1. upload' \in {upload, Idle} \/ upload'.pc = "open"
    BY <1>1 DEF Begin, UploadFails, Fail
  <2>2. \/ upload' = upload \/ upload'.pc \in {"idle", "open"}
    BY <2>1 DEF Idle
  <2>3. /\ upload'.pc = "commit" => Safe' \/ upload'.data = edit
        /\ upload'.pc \in Sent => Safe'
    BY <1>0, <2>2 DEF Kept, Sent
  <2> QED BY <1>0, <2>3, SameKept
<1>2. CASE ReadFile
  <2>1. CASE upload' = Idle
    BY <1>0, <2>1, SameKept DEF Idle, Sent
  <2>2. CASE /\ Exists(upload.path)
             /\ upload' = [upload EXCEPT !.pc = "commit", !.data = disk[upload.path]]
    <3>1. upload'.pc = "commit" /\ upload'.data = disk[upload.path]
      BY <2>2, KeepingFacts, AloneFacts DEF Uploads
    <3>2. row.cached = upload.path
      BY <1>2, <2>2, KeepingFacts, AloneFacts DEF ReadFile, Upload
    <3>3. Safe \/ upload'.data = edit
      BY <1>0, <3>1, <3>2 DEF Kept
    <3> QED BY <1>0, <3>1, <3>3, SameKept DEF Sent
  <2> QED BY <1>2, <2>1, <2>2 DEF ReadFile
<1>3. CASE Commit
  <2>1. upload.pc = "commit" /\ upload.data \in Stored'
    BY <1>3, KeepingFacts, StoredStays DEF Commit, Alone
  <2>2. Safe'
    BY <1>0, <2>1 DEF Kept, Safe
  <2> QED BY <1>0, <2>2, SameKept
<1>4. CASE FetchNode
  <2>1. Safe /\ Safe'
    BY <1>0, <1>4 DEF FetchNode, Kept, Sent
  <2> QED BY <1>0, <2>1, SameKept
<1> QED BY <1>1, <1>2, <1>3, <1>4

\* The row changes after the upload, when the last edit is on the server.
LEMMA EndKept ==
    ASSUME Keeping, [Next]_vars, SetNode \/ CreateDone \/ MoveFile \/ UpdateDone
    PROVE  Kept'
<1>0. /\ UNCHANGED <<freeing, edit>> /\ Kept /\ Safe' /\ None # Orphan
      /\ journal # NoEntry
  <2>1. UNCHANGED <<freeing, edit>> /\ content' = content /\ upload.pc \in Sent
    BY DEF SetNode, CreateDone, MoveFile, UpdateDone, remote, Sent
  <2>2. upload # Idle
    BY <2>1 DEF Sent, Idle
  <2> QED BY <2>1, <2>2, KeepingFacts, AloneFacts DEF Kept, Safe, Stored, Current, None,
             Orphan,
             Real
<1>1. CASE SetNode
  <2>1. row'.cached = row.cached /\ row'.dirty = FALSE /\ handle' = handle
    BY <1>1, KeepingFacts, AloneFacts DEF SetNode, Rows
  <2>2. row.cached # None
    BY <1>0 DEF Kept
  <2> QED BY <1>0, <2>1, <2>2, SafeKept DEF Kept
<1>2. CASE UpdateDone
  <2>1. row'.cached = upload.rev /\ row'.dirty = FALSE /\ handle' = handle
    BY <1>2, KeepingFacts, AloneFacts DEF UpdateDone, Rows
  <2>2. upload.rev # None
    BY KeepingFacts, AloneFacts
  <2> QED BY <1>0, <2>1, <2>2, SafeKept DEF Kept
<1>3. CASE CreateDone \/ MoveFile
  <2>1. upload.pc = "move" /\ Move(upload.path, upload.rev)
    BY <1>3 DEF CreateDone, MoveFile
  <2>2. handle' # Orphan
    <3>1. handle' \in {handle, upload.rev}
      BY <2>1, KeepingFacts, MovedCopy
    <3>2. upload.rev # Orphan
      BY KeepingFacts, AloneFacts
    <3>3. handle # Orphan
      BY <1>0 DEF Kept
    <3> QED BY <3>1, <3>2, <3>3
  <2>3. CASE CreateDone
    <3>1. row'.cached = upload.rev /\ row'.dirty = row.dirty /\ upload.rev # None
      BY SMTT(30), <2>3, KeepingFacts, AloneFacts DEF CreateDone, Rows
    <3> QED BY <1>0, <2>2, <3>1, SafeKept DEF Kept
  <2>4. CASE MoveFile
    <3>1. row' = row /\ row.cached # None
      BY <1>0, <2>4 DEF MoveFile, Kept
    <3> QED BY <1>0, <2>2, <3>1, SafeKept DEF Kept
  <2> QED BY <1>3, <2>3, <2>4
<1> QED BY <1>1, <1>2, <1>3

\* Other clients and restarts.
LEMMA WorldKept ==
    ASSUME Keeping, [Next]_vars, World \/ UNCHANGED vars
    PROVE  Kept'
<1>0. Kept /\ (Safe => Safe' \/ edit' # edit)
  <2>1. Stored \subseteq Stored'
    BY KeepingFacts, StoredStays DEF Alone
  <2> QED BY <2>1, KeepingFacts DEF Safe
<1>1. CASE RemoteEdit \/ Restart \/ UNCHANGED vars
  <2>1. /\ UNCHANGED <<row, disk, edit, journal>> /\ opening' \in {opening, 0}
        /\ handle' \in {handle, None} /\ freeing' \in {freeing, NoRow}
        /\ upload' \in {upload, Idle}
    BY <1>1 DEF RemoteEdit, Restart, local, vars
  <2>2. /\ upload'.pc = "commit" => Safe' \/ upload'.data = edit
        /\ upload'.pc \in Sent => Safe'
    BY <1>0, <2>1 DEF Kept, Idle, Sent
  <2> QED BY <1>0, <2>1, <2>2, SameKept
<1>2. CASE PollEvent \/ List \/ ApplyListing
  BY <1>2, KeepingFacts, AloneFacts
     DEF PollEvent, List, ApplyListing, Places, OneParty
<1> QED BY <1>1, <1>2 DEF World

\* Every step keeps the last edit.
LEMMA KeptStays == Keeping /\ [Next]_vars => Kept'
BY RequestsKept, WriteKept, FreeKept, UploadKept, EndKept, WorldKept DEF Next, User, Flush

-----------------------------------------------------------------------------
\* A clean copy is that of its revision: events and truncations besides, and no other
\* client.
Copying == Alone /\ OneByOne' /\ OwnEdits /\ Copies

\* The facts the proof about clean copies needs.
LEMMA CopyingFacts ==
    ASSUME Copying
    PROVE  /\ Alone /\ OwnEdits /\ Copies /\ Contents \subseteq Int
           /\ row.rev <= Current /\ (row.rev # 0 => row.rev \in Paths /\ row.rev # None)
<1>1. Alone /\ OwnEdits /\ Copies
  BY DEF Copying
<1>2. row.rev <= Current
  BY <1>1, AloneFacts DEF Real, RevisionIsReal
<1>3. row.rev # 0 => row.rev \in Paths /\ row.rev # None
  BY SMTT(30), <1>1, AloneFacts
<1> QED BY <1>1, <1>2, <1>3 DEF Contents

\* A step that leaves the copy of the row alone, or removes it.
LEMMA SameCopies ==
    ASSUME Copying, content' = content, row'.rev = row.rev,
           row.rev # 0 => /\ row'.dirty = row.dirty
                          /\ disk'[row.rev] \in {disk[row.rev], None},
           upload' = upload \/ upload'.pc \in {"idle", "open", "commit"}
    PROVE  Copies'
BY CopyingFacts DEF Copies, Exists, Current

\* Every step keeps clean copies true to their revision.
LEMMA CopiesStay == Copying /\ [Next]_vars => Copies'
<1> SUFFICES ASSUME Copying, [Next]_vars PROVE Copies'
    OBVIOUS
<1>0. Copies /\ row \in Rows /\ disk \in [Paths -> Contents \cup {None}]
  BY CopyingFacts, AloneFacts
<1>1. CASE OpenCached \/ OpenOnline \/ Release \/ FreeUp \/ QueueDirty \/ UNCHANGED vars
  <2>1. /\ content' = content /\ upload' = upload /\ disk' = disk
        /\ row' = row \/ \E p : row' = [row EXCEPT !.cached = p]
    BY <1>1 DEF OpenCached, OpenOnline, Release, FreeUp, QueueDirty, remote, local, vars
  <2>2. row'.rev = row.rev /\ row'.dirty = row.dirty
    BY <1>0, <2>1 DEF Rows
  <2> QED BY <2>1, <2>2, SameCopies
<1>2. CASE OpenNew
  <2>1. content' = content /\ upload' = upload /\ row'.rev = row.rev /\ row.rev = 0
    BY <1>0, <1>2 DEF OpenNew, remote, Rows
  <2> QED BY <2>1, SameCopies
<1>3. CASE Downloaded
  <2>1. /\ content' = content /\ upload' = upload /\ opening = row.rev /\ opening # 0
        /\ upload.pc \in {"idle", "open"} /\ opening \in Paths
    BY <1>3, CopyingFacts, AloneFacts DEF Downloaded, remote, Opening
  <2>2. CASE Remove({opening}) /\ UNCHANGED row
    <3>1. disk'[row.rev] \in {disk[row.rev], None}
      BY <2>1, <2>2, CopyingFacts, RemoveEffect DEF Alone
    <3> QED BY <2>1, <2>2, <3>1, SameCopies
  <2>3. CASE /\ disk' = [disk EXCEPT ![opening] = content[opening]]
             /\ row' = [row EXCEPT !.cached = opening]
    <3>1. row'.rev = row.rev /\ disk'[row.rev] = content[row.rev]
      BY <1>0, <2>1, <2>3 DEF Rows
    <3> QED BY <2>1, <3>1 DEF Copies
  <2> QED BY <1>3, <2>2, <2>3 DEF Downloaded
<1>4. CASE Write \/ Truncate
  <2>1. /\ row' = [row EXCEPT !.dirty = TRUE] /\ content' = content /\ upload' = upload
        /\ upload = Idle
    BY <1>4, CopyingFacts, RequestsWait DEF Write, Truncate, remote, Alone
  <2>2. row'.dirty = TRUE
    BY <1>0, <2>1 DEF Rows
  <2> QED BY <2>1, <2>2 DEF Copies, Idle
<1>5. CASE FreeUpSpace \/ PollEvent
  <2>1. /\ content' = content /\ upload' = upload
        /\ row' = row \/ row' = [row EXCEPT !.cached = None]
    BY <1>5 DEF FreeUpSpace, PollEvent, remote, local
  <2>2. row'.rev = row.rev /\ row'.dirty = row.dirty
    BY <1>0, <2>1 DEF Rows
  <2>3. disk' = disk \/ \E S : Remove(S)
    BY <1>5 DEF FreeUpSpace, PollEvent, local
  <2>4. row.rev # 0 => disk'[row.rev] \in {disk[row.rev], None}
    BY <2>3, CopyingFacts, RemoveEffect DEF Alone
  <2> QED BY <2>1, <2>2, <2>4, SameCopies
<1>6. CASE Begin \/ ReadFile \/ UploadFails \/ Restart
  <2>1. UNCHANGED <<row, disk, content>>
    BY <1>6 DEF Begin, ReadFile, UploadFails, Restart, local, remote
  <2>2. upload' \in {upload, Idle} \/ upload'.pc \in {"open", "commit"}
    <3>1. CASE ReadFile
      <4>1. upload' = Idle \/ upload'.pc = "commit"
        BY <3>1, CopyingFacts, AloneFacts DEF ReadFile, Uploads
      <4> QED BY <4>1
    <3>2. CASE ~ReadFile
      BY <1>6, <3>2 DEF Begin, UploadFails, Restart, Fail
    <3> QED BY <3>1, <3>2
  <2> QED BY <2>1, <2>2, SameCopies DEF Idle
<1>7. CASE Commit
  <2>1. /\ UNCHANGED <<row, disk>> /\ upload.data \in Contents
        /\ content' = Append(content, upload.data)
    BY <1>7, CopyingFacts, AloneFacts DEF Commit, local
  <2>2. /\ Current' = Current + 1 /\ content'[Current'] = upload.data
        /\ \A i \in 1..Current : content'[i] = content[i]
    BY <2>1, CopyingFacts, Appended DEF Alone
  <2>3. row.rev # 0 => content'[row.rev] = content[row.rev]
    <3>1. row.rev # 0 => row.rev \in 1..Current
      BY SMTT(30), CopyingFacts, AloneFacts
    <3> QED BY <2>2, <3>1
  <2>4. /\ upload'.pc \in {"idle", "node", "fetch"}
        /\ upload' = Idle \/ upload'.data = upload.data
    BY SMTT(30), <1>7, CopyingFacts, AloneFacts DEF Commit, Fail, Idle, Uploads
  <2>5. row.rev # 0 /\ ~row.dirty /\ Exists(row.rev) => disk[row.rev] = content'[row.rev]
    BY <1>0, <2>3 DEF Copies
  <2>6. upload'.pc \in {"node", "fetch"} => content'[Current'] = upload'.data
    BY <2>2, <2>4 DEF Idle
  <2> QED BY <2>1, <2>4, <2>5, <2>6 DEF Copies, Exists
<1>8. CASE SetNode
  <2>1. /\ content' = content /\ disk' = disk /\ row'.rev = row.rev /\ upload.kind = "create"
        /\ upload.pc = "node" /\ upload'.pc = "fetch" /\ upload'.data = upload.data
    BY <1>0, <1>8, CopyingFacts, AloneFacts DEF SetNode, remote, Rows, Uploads, Real
  <2>2. row.rev = 0
    BY <2>1, CopyingFacts, AloneFacts DEF Upload
  <2> QED BY <1>0, <2>1, <2>2 DEF Copies, Current
<1>9. CASE FetchNode
  <2>1. /\ UNCHANGED <<row, disk, content>> /\ upload.pc = "fetch"
        /\ \/ upload' = Idle
           \/ /\ upload'.pc = "move" /\ upload'.rev = Current /\ upload'.data = upload.data
    BY <1>9, CopyingFacts, AloneFacts DEF FetchNode, local, remote, Uploads
  <2> QED BY <1>0, <2>1 DEF Copies, Current, Exists, Idle
<1>10. CASE CreateDone \/ UpdateDone
  <2>1. /\ content' = content /\ upload' = Idle /\ row'.rev = upload.rev
        /\ upload.pc \in {"move", "row"}
    BY <1>0, <1>10 DEF CreateDone, UpdateDone, remote, Rows
  <2>2. upload.rev = Current /\ content[Current] = upload.data /\ upload.rev # None
    BY <1>0, <2>1, CopyingFacts, AloneFacts DEF Copies
  <2>3. disk'[upload.rev] \in {None, upload.data}
    <3>1. CASE UpdateDone
      BY <2>2, <3>1, CopyingFacts, AloneFacts DEF UpdateDone, Upload, Exists
    <3>2. CASE CreateDone
      <4>1. upload.pc = "move" /\ Move(upload.path, upload.rev)
        BY <3>2 DEF CreateDone
      <4> QED BY <4>1, CopyingFacts, MovedCopy
    <3> QED BY <1>10, <3>1, <3>2
  <2> QED BY <2>1, <2>2, <2>3 DEF Copies, Exists, Idle, Current
<1>11. CASE MoveFile
  <2>1. /\ UNCHANGED <<row, content>> /\ upload.pc = "move" /\ Move(upload.path, upload.rev)
        /\ upload'.pc = "row" /\ upload'.rev = upload.rev /\ upload'.data = upload.data
    BY <1>11, CopyingFacts, AloneFacts DEF MoveFile, remote, Uploads
  <2>2. row.rev # 0 => disk'[row.rev] \in {disk[row.rev], None}
    BY <2>1, CopyingFacts, MovedCopy
  <2> QED BY <1>0, <2>1, <2>2 DEF Copies, Exists, Current
<1>12. CASE List \/ ApplyListing \/ RemoteEdit
  BY <1>12, CopyingFacts, AloneFacts DEF List, ApplyListing, RemoteEdit, OwnEdits, Places
<1> QED BY <1>1, <1>2, <1>3, <1>4, <1>5, <1>6, <1>7, <1>8, <1>9, <1>10, <1>11, <1>12
        DEF Next, User, Flush, World

-----------------------------------------------------------------------------
\* The inductive invariant: each part in the modes in which it holds.
FileInv == /\ Facts
           /\ Sequential => OneByOne /\ Order
           /\ OneParty => Kept
           /\ OwnEdits => Copies

\* The modes of the last two parts are among those of OneByOne.
LEMMA ModesAreSequential ==
    (OneParty => Sequential) /\ (OwnEdits => Sequential)
BY DEF OneParty, OwnEdits, Sequential

\* A behaviour has one mode.
LEMMA FeaturesStay == ASSUME [Next]_vars PROVE features' = features
BY DEF Next, User, Flush, World, vars, OpenCached, OpenNew, OpenOnline, Downloaded, Write,
       Release, Truncate, FreeUp, FreeUpSpace, Begin, ReadFile, UploadFails, Commit, SetNode,
       FetchNode, CreateDone, MoveFile, UpdateDone, QueueDirty, PollEvent, List,
       ApplyListing, RemoteEdit, Restart

\* The invariant holds at first, and every step keeps it.
LEMMA FileStart == FileAssumption /\ Init => FileInv
<1> SUFFICES ASSUME FileAssumption, Init PROVE FileInv
    OBVIOUS
<1>1. Facts
  BY Start DEF Facts
<1>2. /\ Current = 0 /\ Stored = {} /\ row.rev = 0 /\ row.cached = Created /\ row.dirty
      /\ handle = Created /\ opening = 0 /\ freeing.rev = 0 /\ freeing.dirty /\ edit = 0
      /\ journal.kind = "none" /\ journal.rev = 0 /\ journal.path = None /\ listed = 0
      /\ upload.pc = "idle" /\ upload.kind = "none" /\ upload.rev = 0 /\ upload.data = Empty
  BY DEF Init, Current, Stored, NoRow, NoEntry, Idle
<1>3. /\ \A p \in Paths : Exists(p) <=> p = Created
      /\ \A p \in Paths : disk[p] \notin Edits
      /\ Exists(Created) /\ ~Exists(None) /\ Created \in Paths /\ Reopened \in Paths
      /\ Created # Reopened /\ Created \notin 1..MaxRevisions /\ 1..MaxRevisions \subseteq Paths
      /\ Empty \notin Edits
  <2>1. /\ Created \in Paths /\ Reopened \in Paths /\ Created # Reopened
        /\ Created \notin 1..MaxRevisions /\ 1..MaxRevisions \subseteq Paths
        /\ Empty \notin Edits /\ None \notin Edits /\ Empty # None /\ None \notin Paths
    BY DEF FileAssumption, Created, Reopened, Paths, Empty, None, Edits
  <2>2. \A p \in Paths : disk[p] = IF p = Created THEN Empty ELSE None
    BY DEF Init
  <2> QED BY <2>1, <2>2 DEF Exists
<1>4. Places
  BY <1>2, <1>3 DEF Places
<1>5. Opening /\ Handle /\ Entry /\ Upload
  BY <1>2, <1>3 DEF Opening, Handle, Entry, Upload, Sent
<1>6. Order
  <2>1. /\ \A p \in Paths : disk[p] \in Edits => disk[p] <= edit
        /\ \A v : Fresh(v)
    BY <1>2, <1>3 DEF Fresh, Newest
  <2> QED BY <1>2, <1>3, <2>1 DEF Order, Sent
<1>7. Kept
  BY <1>2 DEF Kept, Safe, Sent, Created, None, Orphan
<1>8. Copies
  BY <1>2 DEF Copies
<1> QED BY <1>1, <1>4, <1>5, <1>6, <1>7, <1>8 DEF FileInv, OneByOne

LEMMA FileStep == FileInv /\ [Next]_vars => FileInv'
<1> SUFFICES ASSUME FileInv, [Next]_vars PROVE FileInv'
    OBVIOUS
<1>1. Facts /\ Facts'
  <2>1. FileAssumption' = FileAssumption
    BY DEF FileAssumption
  <2> QED BY <2>1, TypesStay, RealStays DEF FileInv, Facts
<1>2. /\ Sequential' = Sequential /\ OneParty' = OneParty /\ OwnEdits' = OwnEdits
  BY FeaturesStay DEF Sequential, OneParty, OwnEdits
<1>3. Sequential => Alone /\ OneByOne' /\ Order'
  <2>1. Sequential => Alone
    BY <1>1, <1>2 DEF FileInv, Alone
  <2> QED BY <2>1, PlacesStay, OrderStays DEF FileInv, Ordered
<1>4. OneParty => Kept'
  BY <1>3, ModesAreSequential, KeptStays DEF FileInv, Keeping
<1>5. OwnEdits => Copies'
  BY <1>3, ModesAreSequential, CopiesStay DEF FileInv, Copying
<1> QED BY <1>1, <1>2, <1>3, <1>4, <1>5 DEF FileInv

\* The file, in every mode: what an edit of the user can count on.
LEMMA FileStays == Spec => []FileInv
BY FileIsGiven, FileStart, FileStep, PTL DEF Spec

\* It implies what is claimed.
LEMMA FileIsSound == FileInv => ContentsAreSound
<1> SUFFICES ASSUME FileInv PROVE ContentsAreSound
    OBVIOUS
<1>1. TypeOK /\ RevisionIsReal /\ Facts
  BY DEF FileInv, Facts, Real
<1>2. NoEditIsLost /\ CleanIsStored
  BY DEF FileInv, Kept, Safe, OneParty, NoEditIsLost, CleanIsStored
<1>3. CopyIsOfItsRevision
  <2>1. SUFFICES ASSUME OwnEdits, ~row.dirty, row.cached \in 1..Current, Exists(row.cached)
                 PROVE  disk[row.cached] = content[row.cached]
    BY DEF CopyIsOfItsRevision, OwnEdits
  <2>2. Places /\ Copies
    BY <2>1, ModesAreSequential DEF FileInv, OneByOne
  <2>3. row.rev # 0 /\ row.cached = row.rev
    <3>1. Current \in 0..MaxRevisions /\ MaxRevisions \in Nat
      BY <1>1, Ranges
    <3> QED BY <2>1, <2>2, <3>1 DEF Places, Created, Reopened, None
  <2> QED BY <2>1, <2>2, <2>3 DEF Copies
<1> QED BY <1>1, <1>2, <1>3 DEF ContentsAreSound, RowIsSound

\* Safety, with any number of edits and revisions: the row is sound, no edit of the user
\* is lost, a file that is not dirty is on the server, and its copy is what the server
\* has of its revision, in the modes in which the parts are claimed.
THEOREM ContentsStaySound == Spec => []ContentsAreSound
BY FileStays, FileIsSound, PTL

\* Action property: an upload never puts an older edit of the user on top of a newer one,
\* as long as requests and uploads come one at a time and no listing runs.
THEOREM UploadsStayInOrder == Spec => UploadsDoNotGoBack
<1>1. FileInv /\ FileInv' /\ [Next]_vars =>
        [(features \cap {"listing", "concurrent"} = {} /\ Current' > Current
          /\ content'[Current'] \in 1..MaxEdits) =>
            \A c \in Stored \cap 1..MaxEdits : c <= content'[Current']]_vars
  <2>1. SUFFICES ASSUME FileInv, FileInv', [Next]_vars, Sequential, Current' > Current,
                        content'[Current'] \in Edits,
                        NEW c \in Stored \cap Edits
                 PROVE  c <= content'[Current']
    BY DEF Sequential, Edits
  <2>2. Sequential' /\ Order'
    BY <2>1, FeaturesStay DEF Sequential, FileInv
  <2>3. Stored \subseteq Stored' /\ Current \in Nat /\ Current' \in Int
    BY SMTT(30), <2>1, StoredStays, Ranges DEF FileInv, Facts, TypeOK, Current
  <2>4. Newest(Stored', content'[Current'])
    BY <2>1, <2>2, <2>3 DEF Order, Fresh
  <2> QED BY <2>1, <2>3, <2>4 DEF Newest
<1> QED BY <1>1, FileStays, PTL DEF Spec, UploadsDoNotGoBack
-----------------------------------------------------------------------------
(* the database *)

RootSteps == {"myfiles", "clear", "move", "children", "computers"}
CopySteps == {"attach", "export", "copying", "rename"}

\* A process at one of the steps that use a file has it, in every mode.
FilesInUse ==
    /\ databaseFeatures \in DatabaseModes
    /\ \A p \in D!Procs :
         /\ D!Migrating(p) => at.db # D!None
         /\ proc[p].pc \in {"attach", "export", "copying"} => proc[p].from # D!None
         /\ proc[p].pc \in {"export", "copying", "serve"} \cup RootSteps => proc[p].db # D!None

\* One process migrates at a time: whoever has the database open has the encrypted one.
OneMigrates ==
    /\ \A p, q \in D!Procs : D!Migrating(p) /\ D!Migrating(q) => p = q
    /\ at.db = D!None =>
         committed = {} /\ \A p \in D!Procs : proc[p].pc \in {"off", "look", "connect"}
    /\ at.db # D!None =>
         file[at.db].kind \in {"plain", "encrypted"} /\ committed \subseteq D!Journal(at.db)
    /\ at.db # D!None /\ file[at.db].kind = "plain" => \A p \in D!Procs :
         proc[p].pc \in {"off", "look", "remove", "checkpoint"} \cup CopySteps
    /\ at.db # D!None /\ file[at.db].kind = "encrypted" => \A p \in D!Procs :
         proc[p].pc \in {"off", "look", "log", "connect", "serve"} \cup RootSteps

\* The copy is the migrating process's own, and whole when it is renamed.
CopyIsWhole == \A p \in D!Procs :
    /\ proc[p].pc \in {"checkpoint", "attach"} => at.copy = D!None
    /\ proc[p].pc \in CopySteps => proc[p].from = at.db
    /\ proc[p].pc \in {"export", "copying", "rename"} =>
         proc[p].db = at.copy /\ at.copy # D!None
    /\ proc[p].pc = "export" => file[at.copy].kind = "empty"
    /\ proc[p].pc = "copying" => file[at.copy].kind = "partial"
    /\ proc[p].pc = "rename" =>
         /\ file[at.copy].kind = "encrypted" /\ file[at.copy].log = {}
         /\ file[at.copy].tree = file[at.db].tree /\ committed \subseteq file[at.copy].main
    /\ proc[p].pc = "log" =>
         file[at.db].log = {} /\ \A q \in D!Procs \ {p} : proc[q].pc \in {"off", "look"}
    /\ proc[p].pc \in {"serve"} \cup RootSteps => proc[p].db = at.db

\* How far the root rows are, at each step of the daemon and whoever was killed before.
RootsMove ==
    /\ proc["command"].pc \notin RootSteps
    /\ at.db # D!None =>
         LET tree == file[at.db].tree
             pc == proc["daemon"].pc
         IN  /\ tree.myFiles < 2
             /\ tree.uid = "none" => cutUid \/ tree.children = "none" \/ pc = "move"
             /\ pc \in {"clear", "move", "children", "computers", "serve"} => tree.myFiles = 1
             /\ pc \in {"move", "children", "computers", "serve"} => tree.uid # "root"
             /\ pc \in {"computers", "serve"} => tree.children # "root"
             /\ pc = "serve" => tree.computers = 1

(* The inductive invariant of the database. *)
DatabaseInv ==
    /\ D!TypeOK /\ FilesInUse
    /\ "overlap" \notin databaseFeatures => OneMigrates /\ CopyIsWhole
    /\ databaseFeatures = {} => RootsMove

\* The rows of a tree of an older version.
LEMMA LegacyTree ==
  D!Legacy = [uid |-> "root", myFiles |-> 0, children |-> "root", computers |-> 0]
<1>1. D!Fresh = [uid |-> "none", myFiles |-> 0, children |-> "none", computers |-> 0]
  BY DEF D!Fresh
<1>2. [D!Fresh EXCEPT !.uid = "root"] =
        [uid |-> "root", myFiles |-> 0, children |-> "none", computers |-> 0]
  BY <1>1
<1>3. D!Legacy = [[D!Fresh EXCEPT !.uid = "root"] EXCEPT !.children = "root"]
  BY DEF D!Legacy
<1> QED BY <1>2, <1>3

(* No file, or the one of an older version, and nobody has it open. *)
LEMMA DatabaseInit == D!Init => DatabaseInv
<1> SUFFICES ASSUME D!Init PROVE DatabaseInv OBVIOUS
<1> USE DatabaseAssumption DEF D!None, D!Procs, D!Idle, D!Files
<1>1. PICK old \in {D!NoFile} \cup {D!Contents("plain", {}, {CHOOSE e \in Entries : TRUE}, D!Legacy)} :
          file = [f \in D!Files |-> IF f = 1 THEN old ELSE D!NoFile]
  BY DEF D!Init
<1>2. (CHOOSE e \in Entries : TRUE) \in Entries OBVIOUS
<1>3. /\ D!NoFile \in [kind : {"none", "plain", "empty", "partial", "encrypted"},
                       main : SUBSET Entries, log : SUBSET Entries, tree : D!Trees]
      /\ old \in [kind : {"none", "plain", "empty", "partial", "encrypted"},
                  main : SUBSET Entries, log : SUBSET Entries, tree : D!Trees]
  <2>1. D!Fresh \in D!Trees BY DEF D!Fresh, D!Trees
  <2>2. D!Legacy \in D!Trees BY LegacyTree DEF D!Trees
  <2> QED BY <2>1, <2>2, <1>1, <1>2 DEF D!NoFile, D!Contents
<1>4. file[1] = old /\ 1 \in D!Files BY <1>1
<1>5. at = [db |-> IF file[1] = D!NoFile THEN 0 ELSE 1, copy |-> 0] /\ kills = 0
  BY DEF D!Init
<1>6. proc = [p \in D!Procs |-> [pc |-> "off", from |-> 0, db |-> 0]] BY DEF D!Init
<1>7. committed = D!Journal(1) /\ cutUid = FALSE /\ databaseFeatures \in DatabaseModes
  BY DEF D!Init
<1>8. D!TypeOK
  <2>1. file \in [D!Files -> [kind : {"none", "plain", "empty", "partial", "encrypted"},
                    main : SUBSET Entries, log : SUBSET Entries, tree : D!Trees]]
    BY <1>1, <1>3
  <2>2. at \in [db : D!Files \cup {D!None}, copy : D!Files \cup {D!None}] BY <1>5, <1>4
  <2>3. proc \in [D!Procs -> [pc : D!Steps, from : D!Files \cup {D!None}, db : D!Files \cup {D!None}]]
    BY <1>6 DEF D!Steps
  <2>4. committed \subseteq Entries BY <1>3, <1>4, <1>7 DEF D!Journal
  <2>5. databaseFeatures \subseteq D!Features /\ kills \in 0..MaxKills[databaseFeatures]
    BY <1>5, <1>7 DEF D!Features
  <2> QED BY <2>1, <2>2, <2>3, <2>4, <2>5, <1>7 DEF D!TypeOK
<1>9. FilesInUse BY <1>6, <1>7 DEF FilesInUse, D!Migrating, RootSteps
<1>10. OneMigrates
  <2>1. at.db = 0 => committed = {}
    BY <1>4, <1>5, <1>7 DEF D!Journal, D!NoFile, D!Contents
  <2>2. at.db # 0 => at.db = 1 /\ file[1].kind = "plain"
    BY <1>1, <1>4, <1>5 DEF D!NoFile, D!Contents
  <2> QED BY <2>1, <2>2, <1>6, <1>7 DEF OneMigrates, D!Migrating, CopySteps, RootSteps
<1>11. CopyIsWhole BY <1>5, <1>6 DEF CopyIsWhole, CopySteps, RootSteps
<1>12. RootsMove
  <2>1. at.db # 0 => at.db = 1 /\ file[1].tree = D!Legacy
    BY <1>1, <1>4, <1>5 DEF D!NoFile, D!Contents
  <2> QED BY <2>1, <1>6, LegacyTree DEF RootsMove, RootSteps
<1> QED BY <1>8, <1>9, <1>10, <1>11, <1>12 DEF DatabaseInv

\* What a file can hold.
DContents == [kind : {"none", "plain", "empty", "partial", "encrypted"},
              main : SUBSET Entries, log : SUBSET Entries, tree : D!Trees]

\* One process goes to another step with its files, or is killed.
LEMMA ProcTyped ==
  ASSUME D!TypeOK, NEW p \in D!Procs, NEW pc \in D!Steps,
         NEW from \in D!Files \cup {0}, NEW db \in D!Files \cup {0},
         proc' = [proc EXCEPT ![p] = [pc |-> pc, from |-> from, db |-> db]]
  PROVE  proc' \in [D!Procs -> [pc : D!Steps, from : D!Files \cup {0}, db : D!Files \cup {0}]]
BY DEF D!TypeOK, D!None

\* A step changes one process, and keeps the files that it has.
LEMMA GotoIs ==
  ASSUME D!TypeOK, NEW p \in D!Procs, NEW pc \in D!Steps, D!Goto(p, pc)
  PROVE  /\ proc' = [proc EXCEPT ![p] = [pc |-> pc, from |-> proc[p].from, db |-> proc[p].db]]
         /\ proc' \in [D!Procs -> [pc : D!Steps, from : D!Files \cup {0}, db : D!Files \cup {0}]]
<1>1. proc[p] \in [pc : D!Steps, from : D!Files \cup {0}, db : D!Files \cup {0}]
  BY DEF D!TypeOK, D!None
<1>2. proc' = [proc EXCEPT ![p] = [proc[p] EXCEPT !.pc = pc]]
  BY DEF D!Goto
<1>3. [proc[p] EXCEPT !.pc = pc] = [pc |-> pc, from |-> proc[p].from, db |-> proc[p].db]
  BY <1>1
<1>4. proc' = [proc EXCEPT ![p] = [pc |-> pc, from |-> proc[p].from, db |-> proc[p].db]]
  BY <1>2, <1>3
<1>5. proc[p].from \in D!Files \cup {0} /\ proc[p].db \in D!Files \cup {0} BY <1>1
<1> QED BY <1>4, <1>5, ProcTyped

\* A statement on the root rows changes one file, and only its tree.
LEMMA SetTreeIs ==
  ASSUME D!TypeOK, NEW p \in D!Procs, proc[p].db \in D!Files, NEW tree \in D!Trees,
         D!SetTree(p, tree)
  PROVE  /\ file' \in [D!Files -> DContents]
         /\ file' = [file EXCEPT ![proc[p].db] =
              D!Contents(file[proc[p].db].kind, file[proc[p].db].main, file[proc[p].db].log, tree)]
<1>1. file \in [D!Files -> DContents] BY DEF D!TypeOK, DContents
<1>2. file' = [file EXCEPT ![proc[p].db] = [file[proc[p].db] EXCEPT !.tree = tree]]
  BY DEF D!SetTree
<1>3. [file[proc[p].db] EXCEPT !.tree = tree] =
        D!Contents(file[proc[p].db].kind, file[proc[p].db].main, file[proc[p].db].log, tree)
  BY <1>1 DEF DContents, D!Contents
<1>4. D!Contents(file[proc[p].db].kind, file[proc[p].db].main, file[proc[p].db].log, tree)
        \in DContents
  BY <1>1 DEF DContents, D!Contents
<1> QED BY <1>1, <1>2, <1>3, <1>4

\* Emptying the log of a file leaves the rest of it.
LEMMA EmptyLog ==
  ASSUME NEW kind, NEW main, NEW log, NEW tree
  PROVE  [D!Contents(kind, main, log, tree) EXCEPT !.log = {}] = D!Contents(kind, main, {}, tree)
BY DEF D!Contents

(* Every step keeps the types, and the files of a process at a step that uses them,
   whichever processes overlap. *)
LEMMA FilesStep ==
  ASSUME D!TypeOK, FilesInUse, NEW p \in D!Procs,
         \/ D!Open(p) \/ D!Roots(p) \/ D!Commit(p) \/ D!ResolveRoot(p) \/ D!End(p) \/ D!Kill(p)
  PROVE  D!TypeOK' /\ FilesInUse'
<1> USE DatabaseAssumption DEF D!None
<1>t. /\ databaseFeatures \subseteq D!Features
      /\ file \in [D!Files -> DContents]
      /\ at \in [db : D!Files \cup {0}, copy : D!Files \cup {0}]
      /\ proc \in [D!Procs -> [pc : D!Steps, from : D!Files \cup {0}, db : D!Files \cup {0}]]
      /\ committed \subseteq Entries /\ cutUid \in BOOLEAN /\ kills \in 0..MaxKills[databaseFeatures]
  BY SMTT(30) DEF D!TypeOK, DContents
<1>f. databaseFeatures' = databaseFeatures
  BY DEF D!Open, D!Roots, D!Start, D!Look, D!RemoveCopy, D!Checkpoint, D!Attach, D!Export,
     D!Exported, D!Rename, D!RemoveLog, D!Connect, D!EnsureMyFiles, D!ClearRoot, D!MoveNode,
     D!ReparentChildren, D!EnsureComputers, D!Statement, D!Commit, D!ResolveRoot, D!End, D!Kill
<1>u. ASSUME file' \in [D!Files -> DContents],
             at' \in [db : D!Files \cup {0}, copy : D!Files \cup {0}],
             proc' \in [D!Procs -> [pc : D!Steps, from : D!Files \cup {0}, db : D!Files \cup {0}]],
             committed' \subseteq Entries, cutUid' \in BOOLEAN,
             kills' \in 0..MaxKills[databaseFeatures]
      PROVE  D!TypeOK'
  BY <1>f, <1>t, <1>u DEF D!TypeOK, DContents
<1>v. ASSUME proc' = [proc EXCEPT ![p] = proc'[p]],
             at'.db = 0 => at.db = 0,
             proc'[p].pc \in {"remove", "checkpoint", "attach", "export", "copying", "rename", "log"}
               => at'.db # 0,
             proc'[p].pc \in {"attach", "export", "copying"} => proc'[p].from # 0,
             proc'[p].pc \in {"export", "copying", "serve"} \cup RootSteps => proc'[p].db # 0
      PROVE  FilesInUse'
  BY <1>f, <1>t, <1>v DEF FilesInUse, D!Migrating
<1>1. CASE D!Start(p)
  <2>1. D!Goto(p, "look") /\ "look" \in D!Steps BY <1>1 DEF D!Start, D!Steps
  <2>2. D!TypeOK' BY <2>1, <1>1, <1>t, <1>u, GotoIs DEF D!Start
  <2> QED BY <2>1, <2>2, <1>1, <1>t, <1>v, GotoIs DEF D!Start, RootSteps
<1>2. CASE D!Look(p)
  <2> DEFINE pc == IF at.db # 0 /\ file[at.db].kind = "plain" THEN "remove" ELSE "connect"
  <2>1. D!Goto(p, pc) /\ pc \in D!Steps BY <1>2 DEF D!Look, D!Steps
  <2>2. D!TypeOK' BY <2>1, <1>2, <1>t, <1>u, GotoIs DEF D!Look
  <2> QED BY <2>1, <2>2, <1>2, <1>t, <1>v, GotoIs DEF D!Look, RootSteps
<1>3. CASE D!RemoveCopy(p)
  <2>1. D!Goto(p, "checkpoint") /\ "checkpoint" \in D!Steps BY <1>3 DEF D!RemoveCopy, D!Steps
  <2>2. at' = [db |-> at.db, copy |-> 0] BY <1>3, <1>t DEF D!RemoveCopy
  <2>3. D!TypeOK' BY <2>1, <2>2, <1>3, <1>t, <1>u, GotoIs DEF D!RemoveCopy
  <2>4. at.db # 0 BY <1>3 DEF D!RemoveCopy, FilesInUse, D!Migrating
  <2>5. proc' = [proc EXCEPT ![p] = proc'[p]] /\ proc'[p].pc = "checkpoint"
    BY <2>1, <1>t, GotoIs
  <2>6. at'.db # 0 BY <2>2, <2>4
  <2> QED BY <2>3, <2>5, <2>6, <1>v DEF RootSteps
<1>4. CASE D!Checkpoint(p)
  <2>1. at.db # 0 /\ at.db \in D!Files
    BY <1>4, <1>t DEF D!Checkpoint, FilesInUse, D!Migrating
  <2>2. CASE file[at.db].kind = "plain"
    <3>1. file' = [file EXCEPT ![at.db] =
            D!Contents(file[at.db].kind, D!Journal(at.db), {}, file[at.db].tree)]
      <4>1. file' = [file EXCEPT ![at.db] =
              [file[at.db] EXCEPT !.main = D!Journal(at.db), !.log = {}]]
        BY <1>4, <2>2, <2>1, <1>t DEF D!Checkpoint
      <4>2. [file[at.db] EXCEPT !.main = D!Journal(at.db), !.log = {}] =
              D!Contents(file[at.db].kind, D!Journal(at.db), {}, file[at.db].tree)
        <5>1. file[at.db] \in DContents BY <1>t, <2>1
        <5>2. [file[at.db] EXCEPT !.main = D!Journal(at.db)] =
                D!Contents(file[at.db].kind, D!Journal(at.db), file[at.db].log, file[at.db].tree)
          BY <5>1 DEF DContents, D!Contents
        <5>3. [file[at.db] EXCEPT !.main = D!Journal(at.db), !.log = {}] =
                [[file[at.db] EXCEPT !.main = D!Journal(at.db)] EXCEPT !.log = {}]
          OBVIOUS
        <5>4. [D!Contents(file[at.db].kind, D!Journal(at.db), file[at.db].log, file[at.db].tree)
                EXCEPT !.log = {}] =
                D!Contents(file[at.db].kind, D!Journal(at.db), {}, file[at.db].tree)
          BY SMTT(30), EmptyLog
        <5> QED BY <5>2, <5>3, <5>4
      <4> QED BY <4>1, <4>2
    <3>2. file' \in [D!Files -> DContents]
      BY <3>1, <1>t, <2>1 DEF DContents, D!Contents, D!Journal
    <3>3. proc' = [proc EXCEPT ![p] = [pc |-> "attach", from |-> at.db, db |-> proc[p].db]]
      <4>1. proc' = [proc EXCEPT ![p] = [proc[p] EXCEPT !.pc = "attach", !.from = at.db]]
        BY <1>4, <2>2, <1>t DEF D!Checkpoint
      <4>2. [proc[p] EXCEPT !.pc = "attach"] =
              [pc |-> "attach", from |-> proc[p].from, db |-> proc[p].db]
        BY <1>t
      <4>3. [proc[p] EXCEPT !.pc = "attach", !.from = at.db] =
              [[proc[p] EXCEPT !.pc = "attach"] EXCEPT !.from = at.db]
        OBVIOUS
      <4>4. [[pc |-> "attach", from |-> proc[p].from, db |-> proc[p].db] EXCEPT !.from = at.db]
              = [pc |-> "attach", from |-> at.db, db |-> proc[p].db]
        OBVIOUS
      <4> QED BY <4>1, <4>2, <4>3, <4>4
    <3>4. proc' \in [D!Procs -> [pc : D!Steps, from : D!Files \cup {0}, db : D!Files \cup {0}]]
      BY <3>3, <2>1, <1>t DEF D!Steps
    <3>5. D!TypeOK' BY <3>2, <3>4, <1>4, <1>t, <1>u DEF D!Checkpoint
    <3> QED BY <3>3, <3>5, <2>1, <1>4, <1>t, <1>v DEF D!Checkpoint, RootSteps
  <2>3. CASE file[at.db].kind # "plain"
    <3>1. D!Goto(p, "failed") /\ "failed" \in D!Steps /\ file' = file
      BY <1>4, <2>3 DEF D!Checkpoint, D!Fail, D!Steps
    <3>2. D!TypeOK' BY <3>1, <1>4, <1>t, <1>u, GotoIs DEF D!Checkpoint
    <3> QED BY <3>1, <3>2, <1>4, <1>t, <1>v, GotoIs DEF D!Checkpoint, RootSteps
  <2> QED BY <2>2, <2>3
<1>5. CASE D!Attach(p)
  <2>1. at.db # 0 /\ proc[p].from # 0
    BY <1>5 DEF D!Attach, FilesInUse, D!Migrating
  <2>2. ASSUME NEW f \in D!Files,
               proc' = [proc EXCEPT ![p].pc = "export", ![p].db = f]
        PROVE  /\ proc' = [proc EXCEPT ![p] = [pc |-> "export", from |-> proc[p].from, db |-> f]]
               /\ proc' \in [D!Procs -> [pc : D!Steps, from : D!Files \cup {0}, db : D!Files \cup {0}]]
    <3>1. proc' = [proc EXCEPT ![p] = [proc[p] EXCEPT !.pc = "export", !.db = f]]
      BY <2>2, <1>t
    <3>2. proc' = [proc EXCEPT ![p] = [pc |-> "export", from |-> proc[p].from, db |-> f]]
      <4>1. [proc[p] EXCEPT !.pc = "export"] =
              [pc |-> "export", from |-> proc[p].from, db |-> proc[p].db]
        BY <1>t
      <4>2. [proc[p] EXCEPT !.pc = "export", !.db = f] =
              [[proc[p] EXCEPT !.pc = "export"] EXCEPT !.db = f]
        OBVIOUS
      <4>3. [[pc |-> "export", from |-> proc[p].from, db |-> proc[p].db] EXCEPT !.db = f]
              = [pc |-> "export", from |-> proc[p].from, db |-> f]
        OBVIOUS
      <4> QED BY <3>1, <4>1, <4>2, <4>3
    <3> QED BY <3>2, <1>t DEF D!Steps
  <2>3. CASE at.copy # 0
    <3>1. /\ at.copy \in D!Files /\ file' = file /\ at' = at
          /\ proc' = [proc EXCEPT ![p].pc = "export", ![p].db = at.copy]
      BY <1>5, <2>3, <1>t DEF D!Attach
    <3>2. D!TypeOK' BY <3>1, <2>2, <1>5, <1>t, <1>u DEF D!Attach
    <3>3. /\ proc' = [proc EXCEPT ![p] = proc'[p]] /\ proc'[p].pc = "export"
          /\ proc'[p].from = proc[p].from /\ proc'[p].db = at.copy
      <4>1. proc' = [proc EXCEPT ![p] = [pc |-> "export", from |-> proc[p].from, db |-> at.copy]]
        BY <3>1, <2>2
      <4> QED BY <4>1, <1>t
    <3> QED BY <3>1, <3>2, <3>3, <2>1, <2>3, <1>v DEF RootSteps
  <2>4. CASE at.copy = 0
    <3>1. PICK f \in D!NewFile : /\ file' = [file EXCEPT ![f].kind = "empty"]
                                 /\ at' = [at EXCEPT !.copy = f]
                                 /\ proc' = [proc EXCEPT ![p].pc = "export", ![p].db = f]
      BY <1>5, <2>4 DEF D!Attach
    <3>2. f \in D!Files /\ f # 0 BY <3>1 DEF D!NewFile, D!Files
    <3>3. at' = [db |-> at.db, copy |-> f] BY <3>1, <1>t
    <3>4. file' \in [D!Files -> DContents]
      <4>1. file' = [file EXCEPT ![f] = [file[f] EXCEPT !.kind = "empty"]] BY <3>1
      <4>2. [file[f] EXCEPT !.kind = "empty"] \in DContents BY SMTT(30), <3>2, <1>t DEF DContents
      <4> QED BY <4>1, <4>2, <1>t
    <3>5. D!TypeOK' BY <3>1, <3>2, <3>3, <3>4, <2>2, <1>5, <1>t, <1>u DEF D!Attach
    <3>6. /\ proc' = [proc EXCEPT ![p] = proc'[p]] /\ proc'[p].pc = "export"
          /\ proc'[p].from = proc[p].from /\ proc'[p].db = f
      <4>1. proc' = [proc EXCEPT ![p] = [pc |-> "export", from |-> proc[p].from, db |-> f]]
        BY <3>1, <3>2, <2>2
      <4> QED BY <4>1, <1>t
    <3> QED BY <3>2, <3>3, <3>5, <3>6, <2>1, <1>v DEF RootSteps
  <2> QED BY <2>3, <2>4
<1>6. CASE D!Export(p)
  <2>1. proc[p].db \in D!Files /\ at.db # 0 /\ proc[p].from # 0 /\ proc[p].db # 0
    BY <1>6, <1>t DEF D!Export, FilesInUse, D!Migrating
  <2>2. CASE file[proc[p].db].kind = "empty"
    <3>1. /\ file' = [file EXCEPT ![proc[p].db].kind = "partial"]
          /\ D!Goto(p, "copying") /\ "copying" \in D!Steps
      BY <1>6, <2>2 DEF D!Export, D!Steps
    <3>2. file' \in [D!Files -> DContents] BY SMTT(30), <3>1, <2>1, <1>t DEF DContents
    <3>3. D!TypeOK' BY <3>1, <3>2, <1>6, <1>t, <1>u, GotoIs DEF D!Export
    <3> QED BY <3>1, <3>3, <2>1, <1>6, <1>t, <1>v, GotoIs DEF D!Export, RootSteps
  <2>3. CASE file[proc[p].db].kind # "empty"
    <3>1. D!Goto(p, "failed") /\ "failed" \in D!Steps /\ file' = file
      BY <1>6, <2>3 DEF D!Export, D!Fail, D!Steps
    <3>2. D!TypeOK' BY <3>1, <1>6, <1>t, <1>u, GotoIs DEF D!Export
    <3> QED BY <3>1, <3>2, <1>6, <1>t, <1>v, GotoIs DEF D!Export, RootSteps
  <2> QED BY <2>2, <2>3
<1>7. CASE D!Exported(p)
  <2>1. proc[p].db \in D!Files /\ proc[p].from \in D!Files /\ at.db # 0
    BY <1>7, <1>t DEF D!Exported, FilesInUse, D!Migrating
  <2>2. D!Contents("encrypted", D!Journal(proc[p].from), {}, file[proc[p].from].tree) \in DContents
    BY <2>1, <1>t DEF DContents, D!Contents, D!Journal
  <2>3. file' \in [D!Files -> DContents] BY <1>7, <2>1, <2>2, <1>t DEF D!Exported
  <2>4. D!Goto(p, "rename") /\ "rename" \in D!Steps BY <1>7 DEF D!Exported, D!Steps
  <2>5. D!TypeOK' BY <2>3, <2>4, <1>7, <1>t, <1>u, GotoIs DEF D!Exported
  <2> QED BY <2>4, <2>5, <2>1, <1>7, <1>t, <1>v, GotoIs DEF D!Exported, RootSteps
<1>8. CASE D!Rename(p)
  <2>1. CASE at.copy # 0
    <3>1. /\ at.copy \in D!Files /\ at' = [db |-> at.copy, copy |-> 0]
          /\ D!Goto(p, "log") /\ "log" \in D!Steps
      BY <1>8, <2>1, <1>t DEF D!Rename, D!Steps
    <3>2. D!TypeOK' BY <3>1, <1>8, <1>t, <1>u, GotoIs DEF D!Rename
    <3> QED BY <3>1, <3>2, <2>1, <1>t, <1>v, GotoIs DEF RootSteps
  <2>2. CASE at.copy = 0
    <3>1. D!Goto(p, "failed") /\ "failed" \in D!Steps /\ at' = at
      BY <1>8, <2>2 DEF D!Rename, D!Fail, D!Steps
    <3>2. D!TypeOK' BY <3>1, <1>8, <1>t, <1>u, GotoIs DEF D!Rename
    <3> QED BY <3>1, <3>2, <1>t, <1>v, GotoIs DEF RootSteps
  <2> QED BY <2>1, <2>2
<1>9. CASE D!RemoveLog(p)
  <2>1. at.db # 0 /\ at.db \in D!Files
    BY <1>9, <1>t DEF D!RemoveLog, FilesInUse, D!Migrating
  <2>2. file' \in [D!Files -> DContents] BY <1>9, <2>1, <1>t DEF D!RemoveLog, DContents
  <2>3. D!Goto(p, "connect") /\ "connect" \in D!Steps BY <1>9 DEF D!RemoveLog, D!Steps
  <2>4. D!TypeOK' BY <2>2, <2>3, <1>9, <1>t, <1>u, GotoIs DEF D!RemoveLog
  <2> QED BY <2>3, <2>4, <1>9, <1>t, <1>v, GotoIs DEF D!RemoveLog, RootSteps
<1>10. CASE D!Connect(p)
  <2> DEFINE next == IF p = "daemon" THEN "myfiles" ELSE "serve"
  <2>1. next \in D!Steps /\ "failed" \in D!Steps BY DEF D!Steps
  <2>2. CASE /\ at.db # 0 /\ file' = file /\ at' = at
             /\ proc' = [proc EXCEPT ![p] = [pc |-> next, from |-> 0, db |-> at.db]]
    <3>1. proc' \in [D!Procs -> [pc : D!Steps, from : D!Files \cup {0}, db : D!Files \cup {0}]]
      BY <2>2, <2>1, <1>t, ProcTyped DEF D!None
    <3>2. D!TypeOK' BY <3>1, <2>2, <1>10, <1>t, <1>u DEF D!Connect
    <3> QED BY <3>2, <2>2, <1>t, <1>v DEF RootSteps
  <2>3. CASE D!Fail(p) /\ file' = file /\ at' = at
    <3>1. D!Goto(p, "failed") BY <2>3 DEF D!Fail
    <3>2. D!TypeOK' BY <2>3, <3>1, <2>1, <1>10, <1>t, <1>u, GotoIs DEF D!Connect
    <3> QED BY <3>1, <3>2, <2>1, <2>3, <1>t, <1>v, GotoIs DEF RootSteps
  <2>4. CASE at.db = 0 /\ \E f \in D!NewFile :
               /\ file' = [file EXCEPT ![f].kind = "encrypted"]
               /\ at' = [at EXCEPT !.db = f]
               /\ proc' = [proc EXCEPT ![p] = [pc |-> next, from |-> 0, db |-> f]]
    <3>1. PICK f \in D!NewFile :
               /\ file' = [file EXCEPT ![f].kind = "encrypted"]
               /\ at' = [at EXCEPT !.db = f]
               /\ proc' = [proc EXCEPT ![p] = [pc |-> next, from |-> 0, db |-> f]]
      BY <2>4
    <3>2. f \in D!Files /\ f # 0 BY <3>1 DEF D!NewFile, D!Files
    <3>3. at' = [db |-> f, copy |-> at.copy] BY <3>1, <1>t
    <3>4. file' \in [D!Files -> DContents] BY SMTT(30), <3>1, <3>2, <1>t DEF DContents
    <3>5. proc' \in [D!Procs -> [pc : D!Steps, from : D!Files \cup {0}, db : D!Files \cup {0}]]
      BY <3>1, <3>2, <2>1, <1>t
    <3>6. D!TypeOK' BY <3>2, <3>3, <3>4, <3>5, <1>10, <1>t, <1>u DEF D!Connect
    <3> QED BY <3>1, <3>2, <3>3, <3>6, <1>t, <1>v DEF RootSteps
  <2> QED BY <1>10, <2>2, <2>3, <2>4 DEF D!Connect
<1>11. CASE D!EnsureMyFiles(p)
  <2>1. proc[p].db \in D!Files /\ proc[p].db # 0
    BY <1>11, <1>t DEF D!EnsureMyFiles, D!Statement, FilesInUse, RootSteps
  <2> DEFINE pc == IF D!Tree(p).uid = "root" THEN "clear" ELSE "children"
  <2>2. D!Goto(p, pc) /\ pc \in D!Steps BY <1>11 DEF D!EnsureMyFiles, D!Steps
  <2>3. D!Tree(p) \in D!Trees BY <2>1, <1>t DEF D!Tree, DContents
  <2>4. file' \in [D!Files -> DContents]
    <3>1. CASE D!Tree(p).myFiles = 0
      <4>1. [D!Tree(p) EXCEPT !.myFiles = @ + 1] \in D!Trees BY <2>3, <3>1 DEF D!Trees
      <4> QED BY <4>1, <1>11, <1>t, <2>1, SetTreeIs DEF D!EnsureMyFiles
    <3>2. CASE D!Tree(p).myFiles > 0 BY <3>2, <1>11, <1>t DEF D!EnsureMyFiles
    <3> QED BY <3>1, <3>2, <2>3 DEF D!Trees
  <2>5. D!TypeOK' BY <2>2, <2>4, <1>11, <1>t, <1>u, GotoIs DEF D!EnsureMyFiles, D!Statement
  <2> QED BY <2>1, <2>2, <2>5, <1>11, <1>t, <1>v, GotoIs DEF D!EnsureMyFiles, D!Statement, RootSteps
<1>12. CASE D!ClearRoot(p)
  <2>1. proc[p].db \in D!Files /\ proc[p].db # 0
    BY <1>12, <1>t DEF D!ClearRoot, D!Statement, FilesInUse, RootSteps
  <2>2. D!Goto(p, "move") /\ "move" \in D!Steps BY <1>12 DEF D!ClearRoot, D!Steps
  <2>3. D!Tree(p) \in D!Trees BY <2>1, <1>t DEF D!Tree, DContents
  <2>4. [D!Tree(p) EXCEPT !.uid = "none"] \in D!Trees BY <2>3 DEF D!Trees
  <2>5. file' \in [D!Files -> DContents] BY <2>4, <1>12, <2>1, SetTreeIs DEF D!ClearRoot
  <2>6. D!TypeOK' BY <2>2, <2>5, <1>12, <1>t, <1>u, GotoIs DEF D!ClearRoot, D!Statement
  <2> QED BY <2>1, <2>2, <2>6, <1>12, <1>t, <1>v, GotoIs DEF D!ClearRoot, D!Statement, RootSteps
<1>13. CASE D!MoveNode(p)
  <2>1. proc[p].db \in D!Files /\ proc[p].db # 0
    BY <1>13, <1>t DEF D!MoveNode, D!Statement, FilesInUse, RootSteps
  <2>2. D!Goto(p, "children") /\ "children" \in D!Steps BY <1>13 DEF D!MoveNode, D!Steps
  <2>3. D!Tree(p) \in D!Trees BY <2>1, <1>t DEF D!Tree, DContents
  <2>4. [D!Tree(p) EXCEPT !.uid = IF D!Namesake(proc[p].db) THEN @ ELSE "myfiles"] \in D!Trees
    BY <2>3 DEF D!Trees
  <2>5. file' \in [D!Files -> DContents] BY <2>4, <1>13, <2>1, SetTreeIs DEF D!MoveNode
  <2>6. D!TypeOK' BY <2>2, <2>5, <1>13, <1>t, <1>u, GotoIs DEF D!MoveNode, D!Statement
  <2> QED BY <2>1, <2>2, <2>6, <1>13, <1>t, <1>v, GotoIs DEF D!MoveNode, D!Statement, RootSteps
<1>14. CASE D!ReparentChildren(p)
  <2>1. proc[p].db \in D!Files /\ proc[p].db # 0
    BY <1>14, <1>t DEF D!ReparentChildren, D!Statement, FilesInUse, RootSteps
  <2>2. D!Goto(p, "computers") /\ "computers" \in D!Steps
    BY <1>14 DEF D!ReparentChildren, D!Steps
  <2>3. D!Tree(p) \in D!Trees BY <2>1, <1>t DEF D!Tree, DContents
  <2>4. [D!Tree(p) EXCEPT !.children = IF @ = "root" THEN "myfiles" ELSE @] \in D!Trees
    BY <2>3 DEF D!Trees
  <2>5. file' \in [D!Files -> DContents] BY <2>4, <1>14, <2>1, SetTreeIs DEF D!ReparentChildren
  <2>6. D!TypeOK' BY <2>2, <2>5, <1>14, <1>t, <1>u, GotoIs DEF D!ReparentChildren, D!Statement
  <2> QED BY <2>1, <2>2, <2>6, <1>14, <1>t, <1>v, GotoIs
        DEF D!ReparentChildren, D!Statement, RootSteps
<1>15. CASE D!EnsureComputers(p)
  <2>1. proc[p].db \in D!Files /\ proc[p].db # 0
    BY <1>15, <1>t DEF D!EnsureComputers, D!Statement, FilesInUse, RootSteps
  <2>2. D!Goto(p, "serve") /\ "serve" \in D!Steps BY <1>15 DEF D!EnsureComputers, D!Steps
  <2>3. D!Tree(p) \in D!Trees BY <2>1, <1>t DEF D!Tree, DContents
  <2>4. [D!Tree(p) EXCEPT !.computers = IF @ = 0 THEN 1 ELSE @] \in D!Trees
    BY <2>3 DEF D!Trees
  <2>5. file' \in [D!Files -> DContents] BY <2>4, <1>15, <2>1, SetTreeIs DEF D!EnsureComputers
  <2>6. D!TypeOK'
        BY SMTT(30), <2>2, <2>5, <1>15, <1>t, <1>u, GotoIs DEF D!EnsureComputers, D!Statement
  <2> QED BY <2>1, <2>2, <2>6, <1>15, <1>t, <1>v, GotoIs
        DEF D!EnsureComputers, D!Statement, RootSteps
<1>16. CASE D!Commit(p)
  <2>1. proc[p].db \in D!Files BY SMTT(30), <1>16, <1>t DEF D!Commit, FilesInUse
  <2>2. PICK e \in Entries \ committed :
          /\ file' = [file EXCEPT ![proc[p].db].log = @ \cup {e}]
          /\ committed' = committed \cup {e}
    BY <1>16 DEF D!Commit
  <2>3. file' \in [D!Files -> DContents] BY SMTT(30), <2>1, <2>2, <1>t DEF DContents
  <2>4. D!TypeOK' BY <2>2, <2>3, <1>16, <1>t, <1>u DEF D!Commit
  <2> QED BY <2>4, <1>16 DEF D!Commit, FilesInUse, D!Migrating
<1>17. CASE D!ResolveRoot(p)
  <2>1. proc[p].db \in D!Files
    BY <1>17, <1>t DEF D!ResolveRoot, D!Statement, FilesInUse
  <2>3. D!Tree(p) \in D!Trees BY <2>1, <1>t DEF D!Tree, DContents
  <2>4. [D!Tree(p) EXCEPT !.uid = "myfiles"] \in D!Trees BY <2>3 DEF D!Trees
  <2>5. file' \in [D!Files -> DContents] BY <2>4, <1>17, <2>1, SetTreeIs DEF D!ResolveRoot
  <2>6. D!TypeOK' BY <2>5, <1>17, <1>t, <1>u DEF D!ResolveRoot, D!Statement
  <2> QED BY <2>6, <1>17 DEF D!ResolveRoot, D!Statement, FilesInUse, D!Migrating
<1>18. CASE D!End(p)
  <2>1. proc[p].db \in D!Files BY <1>18, <1>t DEF D!End, FilesInUse
  <2>2. file' \in [D!Files -> DContents]
    <3>1. [file EXCEPT ![proc[p].db].main = D!Journal(proc[p].db), ![proc[p].db].log = {}]
            \in [D!Files -> DContents]
      <4>1. D!Journal(proc[p].db) \in SUBSET Entries BY <2>1, <1>t DEF D!Journal, DContents
      <4>2. [file EXCEPT ![proc[p].db].main = D!Journal(proc[p].db)] \in [D!Files -> DContents]
        BY SMTT(30), <4>1, <2>1, <1>t DEF DContents
      <4> QED BY <4>2, <2>1 DEF DContents
    <3> QED BY SMTT(30), <3>1, <1>18, <1>t DEF D!End
  <2>3. proc' = [proc EXCEPT ![p] = [pc |-> "off", from |-> 0, db |-> 0]]
    BY <1>18 DEF D!End, D!Idle
  <2>4. proc' \in [D!Procs -> [pc : D!Steps, from : D!Files \cup {0}, db : D!Files \cup {0}]]
    BY <2>3, <1>t DEF D!Steps
  <2>5. D!TypeOK' BY <2>2, <2>4, <1>18, <1>t, <1>u DEF D!End
  <2> QED BY <2>3, <2>5, <1>18, <1>t, <1>v DEF D!End, RootSteps
<1>19. CASE D!Kill(p)
  <2>1. proc' = [proc EXCEPT ![p] = [pc |-> "off", from |-> 0, db |-> 0]]
    BY <1>19 DEF D!Kill, D!Idle
  <2>2. proc' \in [D!Procs -> [pc : D!Steps, from : D!Files \cup {0}, db : D!Files \cup {0}]]
    BY <2>1, <1>t DEF D!Steps
  <2>3. kills' \in 0..MaxKills[databaseFeatures]
    <3>1. MaxKills[databaseFeatures] \in Nat BY DEF FilesInUse
    <3> QED BY <3>1, <1>19, <1>t DEF D!Kill
  <2>4. cutUid' \in BOOLEAN BY <1>19, <1>t DEF D!Kill
  <2>5. D!TypeOK' BY <2>2, <2>3, <2>4, <1>19, <1>t, <1>u DEF D!Kill
  <2> QED BY <2>1, <2>5, <1>19, <1>t, <1>v DEF D!Kill, RootSteps
<1> QED BY <1>1, <1>2, <1>3, <1>4, <1>5, <1>6, <1>7, <1>8, <1>9, <1>10, <1>11, <1>12, <1>13,
           <1>14, <1>15, <1>16, <1>17, <1>18, <1>19 DEF D!Open, D!Roots

\* A step that changes only the tree of a database that its process has open.
LEMMA TreeStep ==
  ASSUME D!TypeOK, FilesInUse, OneMigrates, CopyIsWhole, NEW p \in D!Procs,
         proc[p].pc \in {"serve"} \cup RootSteps,
         NEW pc \in {"serve"} \cup RootSteps,
         proc' = [proc EXCEPT ![p] = [pc |-> pc, from |-> proc[p].from, db |-> proc[p].db]],
         at' = at, committed' = committed,
         \/ file' = file
         \/ \E tree \in D!Trees : file' = [file EXCEPT ![proc[p].db] =
              D!Contents(file[proc[p].db].kind, file[proc[p].db].main, file[proc[p].db].log, tree)]
  PROVE  OneMigrates' /\ CopyIsWhole'
<1> USE DEF D!None
<1>1. /\ file \in [D!Files -> DContents]
      /\ at \in [db : D!Files \cup {0}, copy : D!Files \cup {0}]
      /\ proc \in [D!Procs -> [pc : D!Steps, from : D!Files \cup {0}, db : D!Files \cup {0}]]
  BY DEF D!TypeOK, DContents
<1>2. at.db \in D!Files /\ at.db # 0 /\ proc[p].db = at.db
  BY <1>1 DEF FilesInUse, CopyIsWhole
<1>3. file[at.db].kind = "encrypted"
  BY <1>2 DEF OneMigrates, RootSteps, CopySteps
<1>4. /\ file'[at.db].kind = file[at.db].kind /\ file'[at.db].main = file[at.db].main
      /\ file'[at.db].log = file[at.db].log
  BY <1>1, <1>2 DEF D!Contents
<1>5. \A q \in D!Procs : proc[q].pc \in {"off", "look", "connect", "serve"} \cup RootSteps
  <2>1. \A q \in D!Procs : proc[q].pc \in {"off", "look", "log", "connect", "serve"} \cup RootSteps
    BY <1>2, <1>3 DEF OneMigrates
  <2>2. \A q \in D!Procs : proc[q].pc # "log" BY DEF CopyIsWhole, RootSteps
  <2> QED BY <2>1, <2>2
<1>6. \A q \in D!Procs : /\ proc'[q].pc \in {"off", "look", "connect", "serve"} \cup RootSteps
                         /\ proc'[q].pc \in {"serve"} \cup RootSteps => proc'[q].db = at.db
  BY <1>1, <1>2, <1>5 DEF CopyIsWhole
<1>7. OneMigrates'
  BY <1>2, <1>3, <1>4, <1>6 DEF OneMigrates, D!Migrating, D!Journal, RootSteps, CopySteps
<1>8. CopyIsWhole' BY <1>6 DEF CopyIsWhole, RootSteps, CopySteps
<1> QED BY <1>7, <1>8

\* A step that leaves the database at its path: the process goes where it may be with
\* a database of that kind, and migrates it only if nobody else does.
LEMMA StayAlone ==
  ASSUME D!TypeOK, OneMigrates, NEW p \in D!Procs, NEW pc \in D!Steps,
         proc'[p].pc = pc, \A q \in D!Procs : q # p => proc'[q] = proc[q],
         at'.db = at.db, committed' = committed,
         at.db # 0 => /\ file'[at.db].kind = file[at.db].kind
                      /\ D!Journal(at.db)' = D!Journal(at.db),
         at.db = 0 => pc \in {"off", "look", "connect"},
         at.db # 0 /\ file[at.db].kind = "plain" =>
           pc \in {"off", "look", "remove", "checkpoint"} \cup CopySteps,
         at.db # 0 /\ file[at.db].kind = "encrypted" =>
           pc \in {"off", "look", "log", "connect", "serve"} \cup RootSteps,
         D!Migrating(p)' => \A q \in D!Procs : q # p => ~D!Migrating(q)
  PROVE  OneMigrates'
<1> USE DEF D!None
<1>1. (\A q, r \in D!Procs : D!Migrating(q) /\ D!Migrating(r) => q = r)'
  BY DEF OneMigrates, D!Migrating
<1>2. (at.db = 0 =>
         committed = {} /\ \A q \in D!Procs : proc[q].pc \in {"off", "look", "connect"})'
  BY DEF OneMigrates
<1>3. (at.db # 0 =>
         file[at.db].kind \in {"plain", "encrypted"} /\ committed \subseteq D!Journal(at.db))'
  <2>1. D!Journal(at.db)' = file'[at'.db].main \cup file'[at'.db].log BY DEF D!Journal
  <2> QED BY <2>1 DEF OneMigrates
<1>4. (at.db # 0 /\ file[at.db].kind = "plain" => \A q \in D!Procs :
         proc[q].pc \in {"off", "look", "remove", "checkpoint"} \cup CopySteps)'
  BY DEF OneMigrates, CopySteps
<1>5. (at.db # 0 /\ file[at.db].kind = "encrypted" => \A q \in D!Procs :
         proc[q].pc \in {"off", "look", "log", "connect", "serve"} \cup RootSteps)'
  BY DEF OneMigrates, RootSteps
<1> QED BY <1>1, <1>2, <1>3, <1>4, <1>5 DEF OneMigrates

\* Whoever migrates the database finds the old one at the path, and nobody else has it.
LEMMA MigratesAlone ==
  ASSUME D!TypeOK, FilesInUse, OneMigrates, NEW p \in D!Procs,
         D!Migrating(p), proc[p].pc # "log"
  PROVE  /\ at.db \in D!Files /\ at.db # 0 /\ file[at.db].kind = "plain"
         /\ \A q \in D!Procs : q # p => proc[q].pc \in {"off", "look"}
<1>1. at.db # 0 BY DEF FilesInUse, D!None
<1>2. at.db \in D!Files BY <1>1 DEF D!TypeOK, D!None
<1>3. file[at.db].kind \in {"plain", "encrypted"} BY <1>1 DEF OneMigrates, D!None
<1>4. file[at.db].kind # "encrypted"
  BY <1>1 DEF OneMigrates, D!None, D!Migrating, RootSteps
<1>5. \A q \in D!Procs : q # p => ~D!Migrating(q) BY DEF OneMigrates
<1>6. \A q \in D!Procs : q # p => proc[q].pc \in {"off", "look"}
  BY <1>1, <1>3, <1>4, <1>5 DEF OneMigrates, D!None, D!Migrating, CopySteps
<1> QED BY <1>1, <1>2, <1>3, <1>4, <1>6

(* Unless processes overlap, every step leaves at most one of them migrating the
   database, on a copy of its own, and no entry is lost when the copy takes its place. *)
LEMMA MigrateStep ==
  ASSUME D!TypeOK, FilesInUse, OneMigrates, CopyIsWhole, "overlap" \notin databaseFeatures,
         NEW p \in D!Procs,
         \/ D!Open(p) \/ D!Roots(p) \/ D!Commit(p) \/ D!ResolveRoot(p) \/ D!End(p) \/ D!Kill(p)
  PROVE  OneMigrates' /\ CopyIsWhole'
<1> USE DEF D!None
<1>t. /\ file \in [D!Files -> DContents]
      /\ at \in [db : D!Files \cup {0}, copy : D!Files \cup {0}]
      /\ proc \in [D!Procs -> [pc : D!Steps, from : D!Files \cup {0}, db : D!Files \cup {0}]]
  BY DEF D!TypeOK, DContents
<1>1. CASE D!Start(p)
  <2>1. D!Goto(p, "look") /\ "look" \in D!Steps BY <1>1 DEF D!Start, D!Steps
  <2>2. UNCHANGED <<file, at, committed>> /\ proc[p].pc \in {"off", "failed"} BY <1>1 DEF D!Start
  <2>3. OneMigrates'
        BY SMTT(30), <2>1, <2>2, <1>t, GotoIs DEF OneMigrates, D!Migrating, D!Journal, CopySteps
  <2>4. CopyIsWhole' BY <2>1, <2>2, <1>t, GotoIs DEF CopyIsWhole, CopySteps, RootSteps
  <2> QED BY <2>3, <2>4
<1>2. CASE D!Look(p)
  <2> DEFINE pc == IF at.db # 0 /\ file[at.db].kind = "plain" THEN "remove" ELSE "connect"
  <2>1. D!Goto(p, pc) /\ pc \in D!Steps BY <1>2 DEF D!Look, D!Steps
  <2>2. UNCHANGED <<file, at, committed>> /\ \A q \in D!Procs : ~D!Migrating(q)
    BY <1>2 DEF D!Look
  <2>5. /\ proc'[p].pc = pc /\ \A q \in D!Procs : q # p => proc'[q] = proc[q]
    BY <2>1, <1>t, GotoIs
  <2>3. OneMigrates'
    <3>1. at.db # 0 => file[at.db].kind \in {"plain", "encrypted"} BY DEF OneMigrates
    <3>2. D!Journal(at.db)' = D!Journal(at.db) BY <2>2 DEF D!Journal
    <3> QED BY <2>1, <2>2, <2>5, <3>1, <3>2, StayAlone DEF CopySteps
  <2>4. CopyIsWhole' BY <2>1, <2>2, <1>t, GotoIs DEF CopyIsWhole, D!Migrating, CopySteps, RootSteps
  <2> QED BY <2>3, <2>4
<1>3. CASE D!RemoveCopy(p)
  <2>1. D!Goto(p, "checkpoint") /\ "checkpoint" \in D!Steps BY <1>3 DEF D!RemoveCopy, D!Steps
  <2>2. at' = [db |-> at.db, copy |-> 0] /\ UNCHANGED <<file, committed>>
    BY <1>3, <1>t DEF D!RemoveCopy
  <2>3. proc[p].pc = "remove" /\ D!Migrating(p) BY <1>3 DEF D!RemoveCopy, D!Migrating
  <2>4. \A q \in D!Procs : q # p => ~D!Migrating(q) BY <2>3 DEF OneMigrates
  <2>5. OneMigrates'
    <3>1. /\ proc'[p].pc = "checkpoint" /\ \A q \in D!Procs : q # p => proc'[q] = proc[q]
      BY <2>1, <1>t, GotoIs
    <3>2. at.db # 0 /\ file[at.db].kind = "plain"
      BY <2>3 DEF OneMigrates, RootSteps
    <3>3. D!Journal(at.db)' = D!Journal(at.db) BY <2>2 DEF D!Journal
    <3> QED BY <2>1, <2>2, <2>4, <3>1, <3>2, <3>3, StayAlone
  <2>6. CopyIsWhole' BY <2>1, <2>2, <2>3, <2>4, <1>t, GotoIs
          DEF CopyIsWhole, D!Migrating, CopySteps, RootSteps
  <2> QED BY <2>5, <2>6
<1>4. CASE D!Checkpoint(p)
  <2>1. proc[p].pc = "checkpoint" /\ D!Migrating(p) BY <1>4 DEF D!Checkpoint, D!Migrating
  <2>2. /\ at.db \in D!Files /\ at.db # 0 /\ file[at.db].kind = "plain"
        /\ \A q \in D!Procs : q # p => proc[q].pc \in {"off", "look"}
    BY <2>1, MigratesAlone
  <2>3. /\ file' = [file EXCEPT ![at.db].main = D!Journal(at.db), ![at.db].log = {}]
        /\ proc' = [proc EXCEPT ![p].pc = "attach", ![p].from = at.db]
        /\ at' = at /\ committed' = committed
    BY <1>4, <2>2 DEF D!Checkpoint
  <2>4. /\ proc'[p].pc = "attach" /\ proc'[p].from = at.db
        /\ \A q \in D!Procs : q # p => proc'[q] = proc[q]
    BY <2>3, <1>t
  <2>5. /\ file'[at.db].kind = file[at.db].kind /\ file'[at.db].main = D!Journal(at.db)
        /\ file'[at.db].log = {}
    <3>1. /\ file'[at.db].kind = file[at.db].kind /\ file'[at.db].log = {}
      BY <2>3, <2>2, <1>t DEF DContents
    <3>2. file'[at.db].main = D!Journal(at.db)
      BY <2>3, <2>2, <1>t DEF DContents
    <3> QED BY <3>1, <3>2
  <2>6. D!Journal(at.db)' = D!Journal(at.db) BY <2>3, <2>5 DEF D!Journal
  <2>7. OneMigrates'
    BY ZenonT(60), <2>2, <2>3, <2>4, <2>5, <2>6, StayAlone DEF CopySteps, D!Steps, D!Migrating
  <2>8. CopyIsWhole' BY ZenonT(60), <2>1, <2>2, <2>3, <2>4 DEF CopyIsWhole, CopySteps, RootSteps
  <2> QED BY <2>7, <2>8
<1>5. CASE D!Attach(p)
  <2>1. proc[p].pc = "attach" /\ D!Migrating(p) BY <1>5 DEF D!Attach, D!Migrating
  <2>2. /\ at.db \in D!Files /\ at.db # 0 /\ file[at.db].kind = "plain"
        /\ \A q \in D!Procs : q # p => proc[q].pc \in {"off", "look"}
    BY <2>1, MigratesAlone
  <2>3. at.copy = 0 /\ proc[p].from = at.db BY <2>1 DEF CopyIsWhole, CopySteps
  <2>4. PICK f \in D!NewFile : /\ file' = [file EXCEPT ![f].kind = "empty"]
                               /\ at' = [at EXCEPT !.copy = f]
                               /\ proc' = [proc EXCEPT ![p].pc = "export", ![p].db = f]
    BY <1>5, <2>3 DEF D!Attach
  <2>5. f \in D!Files /\ f # 0 /\ f # at.db
    BY <2>2, <2>4 DEF D!NewFile, D!Files, D!NoFile, D!Contents
  <2>6. /\ at'.db = at.db /\ at'.copy = f /\ file'[at.db] = file[at.db]
        /\ file'[f].kind = "empty" /\ committed' = committed
    <3>1. at' = [db |-> at.db, copy |-> f] BY <2>4, <1>t
    <3>2. file' = [file EXCEPT ![f] = [file[f] EXCEPT !.kind = "empty"]] BY <2>4
    <3>3. [file[f] EXCEPT !.kind = "empty"].kind = "empty" BY <2>5, <1>t DEF DContents
    <3>4. file'[at.db] = file[at.db] /\ file'[f] = [file[f] EXCEPT !.kind = "empty"]
      BY <3>2, <2>2, <2>5, <1>t
    <3> QED BY <3>1, <3>3, <3>4, <1>5 DEF D!Attach
  <2>7. /\ proc'[p].pc = "export" /\ proc'[p].from = at.db /\ proc'[p].db = f
        /\ \A q \in D!Procs : q # p => proc'[q] = proc[q]
    BY <2>3, <2>4, <1>t
  <2>8. D!Journal(at.db)' = D!Journal(at.db) BY <2>6 DEF D!Journal
  <2>9. OneMigrates'
    BY <2>2, <2>6, <2>7, <2>8, StayAlone DEF CopySteps, D!Steps, D!Migrating
  <2>10. CopyIsWhole' BY <2>2, <2>5, <2>6, <2>7 DEF CopyIsWhole, CopySteps, RootSteps
  <2> QED BY <2>9, <2>10
<1>6. CASE D!Export(p)
  <2>1. proc[p].pc = "export" /\ D!Migrating(p) BY <1>6 DEF D!Export, D!Migrating
  <2>2. /\ at.db \in D!Files /\ at.db # 0 /\ file[at.db].kind = "plain"
        /\ \A q \in D!Procs : q # p => proc[q].pc \in {"off", "look"}
    BY <2>1, MigratesAlone
  <2>3. /\ proc[p].db = at.copy /\ at.copy # 0 /\ file[at.copy].kind = "empty"
        /\ proc[p].from = at.db
    BY <2>1 DEF CopyIsWhole, CopySteps
  <2>4. /\ file' = [file EXCEPT ![at.copy].kind = "partial"]
        /\ D!Goto(p, "copying") /\ "copying" \in D!Steps /\ at' = at /\ committed' = committed
    BY <1>6, <2>3 DEF D!Export, D!Steps
  <2>5. at.copy \in D!Files /\ at.copy # at.db BY <2>2, <2>3, <1>t
  <2>6. file'[at.db] = file[at.db] /\ file'[at.copy].kind = "partial"
    BY <2>2, <2>4, <2>5, <1>t DEF DContents
  <2>7. /\ proc'[p].pc = "copying" /\ proc'[p].from = at.db /\ proc'[p].db = at.copy
        /\ \A q \in D!Procs : q # p => proc'[q] = proc[q]
    BY <2>3, <2>4, <1>t, GotoIs
  <2>8. D!Journal(at.db)' = D!Journal(at.db) BY <2>4, <2>6 DEF D!Journal
  <2>9. OneMigrates'
    BY <2>2, <2>4, <2>6, <2>7, <2>8, StayAlone DEF CopySteps, D!Migrating
  <2>10. CopyIsWhole' BY <2>2, <2>3, <2>4, <2>6, <2>7 DEF CopyIsWhole, CopySteps, RootSteps
  <2> QED BY <2>9, <2>10
<1>7. CASE D!Exported(p)
  <2>1. proc[p].pc = "copying" /\ D!Migrating(p) BY <1>7 DEF D!Exported, D!Migrating
  <2>2. /\ at.db \in D!Files /\ at.db # 0 /\ file[at.db].kind = "plain"
        /\ \A q \in D!Procs : q # p => proc[q].pc \in {"off", "look"}
    BY <2>1, MigratesAlone
  <2>3. /\ proc[p].db = at.copy /\ at.copy # 0 /\ file[at.copy].kind = "partial"
        /\ proc[p].from = at.db
    BY <2>1 DEF CopyIsWhole, CopySteps
  <2>4. /\ file' = [file EXCEPT ![at.copy] =
             D!Contents("encrypted", D!Journal(at.db), {}, file[at.db].tree)]
        /\ D!Goto(p, "rename") /\ "rename" \in D!Steps /\ at' = at /\ committed' = committed
    BY <1>7, <2>3 DEF D!Exported, D!Steps
  <2>5. at.copy \in D!Files /\ at.copy # at.db BY <2>2, <2>3, <1>t
  <2>6. /\ file'[at.db] = file[at.db] /\ file'[at.copy].kind = "encrypted"
        /\ file'[at.copy].main = D!Journal(at.db) /\ file'[at.copy].log = {}
        /\ file'[at.copy].tree = file[at.db].tree
    BY <2>2, <2>4, <2>5, <1>t DEF D!Contents
  <2>7. /\ proc'[p].pc = "rename" /\ proc'[p].from = at.db /\ proc'[p].db = at.copy
        /\ \A q \in D!Procs : q # p => proc'[q] = proc[q]
    BY SMTT(30), <2>3, <2>4, <1>t, GotoIs
  <2>8. D!Journal(at.db)' = D!Journal(at.db) BY <2>4, <2>6 DEF D!Journal
  <2>9. OneMigrates'
    BY <2>2, <2>4, <2>6, <2>7, <2>8, StayAlone DEF CopySteps, D!Migrating
  <2>10. committed \subseteq D!Journal(at.db) BY SMTT(30), <2>2 DEF OneMigrates
  <2>11. CopyIsWhole'
    BY <2>2, <2>3, <2>4, <2>6, <2>7, <2>10 DEF CopyIsWhole, CopySteps, RootSteps
  <2> QED BY <2>9, <2>11
<1>8. CASE D!Rename(p)
  <2>1. proc[p].pc = "rename" /\ D!Migrating(p) BY <1>8 DEF D!Rename, D!Migrating
  <2>2. /\ at.db \in D!Files /\ at.db # 0 /\ file[at.db].kind = "plain"
        /\ \A q \in D!Procs : q # p => proc[q].pc \in {"off", "look"}
    BY <2>1, MigratesAlone
  <2>3. /\ at.copy # 0 /\ file[at.copy].kind = "encrypted" /\ file[at.copy].log = {}
        /\ committed \subseteq file[at.copy].main
    BY <2>1 DEF CopyIsWhole
  <2>4. /\ at' = [db |-> at.copy, copy |-> 0] /\ D!Goto(p, "log") /\ "log" \in D!Steps
        /\ file' = file /\ committed' = committed
    BY <1>8, <2>3 DEF D!Rename, D!Steps
  <2>5. /\ proc'[p].pc = "log" /\ \A q \in D!Procs : q # p => proc'[q].pc \in {"off", "look"}
    BY <2>2, <2>4, <1>t, GotoIs
  <2>6. at'.db = at.copy /\ D!Journal(at.db)' = file[at.copy].main \cup file[at.copy].log
    BY <2>4 DEF D!Journal
  <2>7. OneMigrates'
    BY <2>3, <2>4, <2>5, <2>6 DEF OneMigrates, D!Migrating, RootSteps
  <2>8. CopyIsWhole' BY <2>3, <2>4, <2>5, <2>6 DEF CopyIsWhole, CopySteps, RootSteps
  <2> QED BY <2>7, <2>8
<1>9. CASE D!RemoveLog(p)
  <2>1. /\ proc[p].pc = "log" /\ D!Migrating(p) /\ at.db # 0 /\ at.db \in D!Files
    BY <1>9, <1>t DEF D!RemoveLog, D!Migrating, FilesInUse
  <2>2. file[at.db].log = {} /\ \A q \in D!Procs : q # p => proc[q].pc \in {"off", "look"}
    BY <2>1 DEF CopyIsWhole
  <2>3. file[at.db].kind = "encrypted" BY <2>1 DEF OneMigrates, CopySteps
  <2>4. /\ file' = [file EXCEPT ![at.db].log = {}] /\ at' = at /\ committed' = committed
        /\ D!Goto(p, "connect") /\ "connect" \in D!Steps
    BY <1>9 DEF D!RemoveLog, D!Steps
  <2>5. /\ file'[at.db].kind = file[at.db].kind /\ file'[at.db].main = file[at.db].main
        /\ file'[at.db].log = {}
    BY <2>1, <2>4, <1>t DEF DContents
  <2>6. D!Journal(at.db)' = D!Journal(at.db) BY <2>2, <2>4, <2>5 DEF D!Journal
  <2>7. /\ proc'[p].pc = "connect" /\ \A q \in D!Procs : q # p => proc'[q] = proc[q]
    BY <2>4, <1>t, GotoIs
  <2>8. OneMigrates'
    BY <2>1, <2>2, <2>3, <2>4, <2>5, <2>6, <2>7, StayAlone DEF D!Migrating
  <2>9. CopyIsWhole' BY <2>2, <2>7 DEF CopyIsWhole, CopySteps, RootSteps
  <2> QED BY <2>8, <2>9
<1>10. CASE D!Connect(p)
  <2> DEFINE next == IF p = "daemon" THEN "myfiles" ELSE "serve"
  <2>1. /\ next \in {"serve"} \cup RootSteps /\ next \in D!Steps /\ proc[p].pc = "connect"
        /\ committed' = committed
    BY <1>10 DEF RootSteps, D!Connect, D!Steps
  <2>2. at.db # 0 => at.db \in D!Files /\ file[at.db].kind = "encrypted"
    BY <2>1, <1>t DEF OneMigrates, CopySteps
  <2>3. CASE at.db # 0
    <3>1. /\ file' = file /\ at' = at
          /\ proc' = [proc EXCEPT ![p] = [pc |-> next, from |-> 0, db |-> at.db]]
      BY <1>10, <2>2, <2>3 DEF D!Connect
    <3>2. /\ proc'[p].pc = next /\ proc'[p].db = at.db
          /\ \A q \in D!Procs : q # p => proc'[q] = proc[q]
      BY <3>1, <1>t
    <3>3. D!Journal(at.db)' = D!Journal(at.db) BY <3>1 DEF D!Journal
    <3>4. ~D!Migrating(p)' BY <2>1, <3>2 DEF D!Migrating, RootSteps
    <3>5. OneMigrates' BY <2>1, <2>2, <2>3, <3>1, <3>2, <3>3, <3>4, StayAlone
    <3>6. \A q \in D!Procs : proc[q].pc # "log" BY <2>1 DEF CopyIsWhole
    <3>7. CopyIsWhole' BY <2>1, <3>1, <3>2, <3>6 DEF CopyIsWhole, CopySteps, RootSteps
    <3> QED BY <3>5, <3>7
  <2>4. CASE at.db = 0
    <3>1. PICK f \in D!NewFile :
               /\ file' = [file EXCEPT ![f].kind = "encrypted"]
               /\ at' = [at EXCEPT !.db = f]
               /\ proc' = [proc EXCEPT ![p] = [pc |-> next, from |-> 0, db |-> f]]
      BY <1>10, <2>4 DEF D!Connect
    <3>2. f \in D!Files /\ f # 0 BY <3>1 DEF D!NewFile, D!Files
    <3>3. at'.db = f BY <3>1, <1>t
    <3>4. file'[f].kind = "encrypted"
      <4>1. file' = [file EXCEPT ![f] = [file[f] EXCEPT !.kind = "encrypted"]] BY <3>1
      <4>2. [file[f] EXCEPT !.kind = "encrypted"].kind = "encrypted"
        BY <3>2, <1>t DEF DContents
      <4> QED BY <4>1, <4>2, <3>2, <1>t
    <3>5. /\ proc'[p].pc = next /\ proc'[p].db = f
          /\ \A q \in D!Procs : q # p => proc'[q] = proc[q]
      BY <3>1, <1>t
    <3>6. committed = {} /\ \A q \in D!Procs : proc[q].pc \in {"off", "look", "connect"}
      BY <2>4 DEF OneMigrates
    <3>7. \A q \in D!Procs : proc'[q].pc \in {"off", "look", "connect", "serve"} \cup RootSteps
      BY <2>1, <3>5, <3>6
    <3>8. OneMigrates'
      BY <2>1, <3>2, <3>3, <3>4, <3>6, <3>7 DEF OneMigrates, D!Migrating, RootSteps
    <3>9. CopyIsWhole' BY <3>3, <3>5, <3>6, <2>1 DEF CopyIsWhole, CopySteps, RootSteps
    <3> QED BY <3>8, <3>9
  <2> QED BY <2>3, <2>4
<1>11. CASE \/ D!Roots(p) \/ D!ResolveRoot(p)
  <2>1. /\ proc[p].pc \in {"serve"} \cup RootSteps /\ at' = at /\ committed' = committed
    BY <1>11 DEF D!Roots, D!EnsureMyFiles, D!ClearRoot, D!MoveNode, D!ReparentChildren,
         D!EnsureComputers, D!ResolveRoot, D!Statement, RootSteps
  <2>2. proc[p].db \in D!Files BY <2>1, <1>t DEF FilesInUse
  <2>3. D!Tree(p) \in D!Trees BY <2>2, <1>t DEF D!Tree, DContents
  <2>4. \/ file' = file \/ \E tree \in D!Trees : D!SetTree(p, tree)
    <3>1. CASE D!EnsureMyFiles(p)
      <4>1. CASE D!Tree(p).myFiles = 0
        <5>1. [D!Tree(p) EXCEPT !.myFiles = @ + 1] \in D!Trees BY <2>3, <4>1 DEF D!Trees
        <5> QED BY <5>1, <3>1 DEF D!EnsureMyFiles
      <4>2. CASE D!Tree(p).myFiles > 0 BY <4>2, <3>1 DEF D!EnsureMyFiles
      <4> QED BY <4>1, <4>2, <2>3 DEF D!Trees
    <3>2. CASE D!ClearRoot(p)
      <4>1. [D!Tree(p) EXCEPT !.uid = "none"] \in D!Trees BY <2>3 DEF D!Trees
      <4> QED BY <4>1, <3>2 DEF D!ClearRoot
    <3>3. CASE D!MoveNode(p)
      <4>1. [D!Tree(p) EXCEPT !.uid = IF D!Namesake(proc[p].db) THEN @ ELSE "myfiles"]
              \in D!Trees
        BY <2>3 DEF D!Trees
      <4> QED BY <4>1, <3>3 DEF D!MoveNode
    <3>4. CASE D!ReparentChildren(p)
      <4>1. [D!Tree(p) EXCEPT !.children = IF @ = "root" THEN "myfiles" ELSE @] \in D!Trees
        BY <2>3 DEF D!Trees
      <4> QED BY <4>1, <3>4 DEF D!ReparentChildren
    <3>5. CASE D!EnsureComputers(p)
      <4>1. [D!Tree(p) EXCEPT !.computers = IF @ = 0 THEN 1 ELSE @] \in D!Trees
        BY <2>3 DEF D!Trees
      <4> QED BY <4>1, <3>5 DEF D!EnsureComputers
    <3>6. CASE D!ResolveRoot(p)
      <4>1. [D!Tree(p) EXCEPT !.uid = "myfiles"] \in D!Trees BY <2>3 DEF D!Trees
      <4> QED BY <4>1, <3>6 DEF D!ResolveRoot
    <3> QED BY <1>11, <3>1, <3>2, <3>3, <3>4, <3>5, <3>6 DEF D!Roots
  <2>5. \/ file' = file
        \/ \E tree \in D!Trees : file' = [file EXCEPT ![proc[p].db] =
             D!Contents(file[proc[p].db].kind, file[proc[p].db].main, file[proc[p].db].log, tree)]
    BY <2>2, <2>4, SetTreeIs
  <2>6. \E pc \in {"serve"} \cup RootSteps :
          proc' = [proc EXCEPT ![p] = [pc |-> pc, from |-> proc[p].from, db |-> proc[p].db]]
    <3>1. CASE D!ResolveRoot(p)
      <4>1. proc' = proc BY <3>1 DEF D!ResolveRoot
      <4>2. proc[p] = [pc |-> proc[p].pc, from |-> proc[p].from, db |-> proc[p].db] BY <1>t
      <4> QED BY <4>1, <4>2, <2>1, <1>t
    <3>2. CASE D!Roots(p)
      <4>1. \E pc \in {"serve"} \cup RootSteps : D!Goto(p, pc)
        BY <3>2 DEF D!Roots, D!EnsureMyFiles, D!ClearRoot, D!MoveNode, D!ReparentChildren,
             D!EnsureComputers, RootSteps
      <4>2. {"serve"} \cup RootSteps \subseteq D!Steps BY DEF RootSteps, D!Steps
      <4> QED BY <4>1, <4>2, GotoIs
    <3> QED BY <1>11, <3>1, <3>2
  <2> QED BY <2>1, <2>5, <2>6, TreeStep
<1>12. CASE D!Commit(p)
  <2>1. PICK e \in Entries \ committed :
          /\ file' = [file EXCEPT ![proc[p].db].log = @ \cup {e}]
          /\ committed' = committed \cup {e}
    BY <1>12 DEF D!Commit
  <2>2. proc[p].pc = "serve" /\ at' = at /\ proc' = proc BY <1>12 DEF D!Commit
  <2>3. proc[p].db = at.db /\ at.db # 0 /\ at.db \in D!Files
    BY <2>2, <1>t DEF CopyIsWhole, FilesInUse
  <2>4. file[at.db].kind = "encrypted" BY <2>2, <2>3 DEF OneMigrates, CopySteps
  <2>5. file'[at.db] = [file[at.db] EXCEPT !.log = file[at.db].log \cup {e}]
    BY <2>1, <2>3, <1>t
  <2>6. /\ file'[at.db].kind = file[at.db].kind /\ file'[at.db].main = file[at.db].main
        /\ file'[at.db].log = file[at.db].log \cup {e}
    BY <2>3, <2>5, <1>t DEF DContents
  <2>7. committed \subseteq file[at.db].main \cup file[at.db].log
    BY <2>3 DEF OneMigrates, D!Journal
  <2>8. committed' \subseteq D!Journal(at.db)'
    BY <2>1, <2>2, <2>6, <2>7 DEF D!Journal
  <2>9. \A q \in D!Procs : proc[q].pc \in {"off", "look", "connect", "serve"} \cup RootSteps
    <3>1. \A q \in D!Procs : proc[q].pc \in {"off", "look", "log", "connect", "serve"} \cup RootSteps
      BY <2>3, <2>4 DEF OneMigrates
    <3>2. \A q \in D!Procs : proc[q].pc # "log" BY <2>2 DEF CopyIsWhole
    <3> QED BY <3>1, <3>2
  <2>10. OneMigrates'
    BY <2>2, <2>3, <2>4, <2>6, <2>8, <2>9 DEF OneMigrates, D!Migrating, RootSteps
  <2>11. CopyIsWhole' BY <2>2, <2>9 DEF CopyIsWhole, CopySteps, RootSteps
  <2> QED BY SMTT(30), <2>10, <2>11
<1>13. CASE D!End(p)
  <2>1. proc[p].pc = "serve" /\ at' = at /\ committed' = committed BY <1>13 DEF D!End
  <2>2. proc[p].db = at.db /\ at.db # 0 /\ at.db \in D!Files
    BY <2>1, <1>t DEF CopyIsWhole, FilesInUse
  <2>3. file[at.db].kind = "encrypted" BY <2>1, <2>2 DEF OneMigrates, CopySteps
  <2>4. proc' = [proc EXCEPT ![p] = [pc |-> "off", from |-> 0, db |-> 0]]
    BY <1>13 DEF D!End, D!Idle
  <2>5. proc'[p].pc = "off" /\ \A q \in D!Procs : q # p => proc'[q] = proc[q]
    BY <2>4, <1>t
  <2>6. /\ file'[at.db].kind = file[at.db].kind
        /\ D!Journal(at.db)' = D!Journal(at.db)
    <3>1. CASE file' = file BY <3>1, <2>1 DEF D!Journal
    <3>2. CASE file' = [file EXCEPT ![at.db].main = D!Journal(at.db), ![at.db].log = {}]
      <4>1. /\ file'[at.db].kind = file[at.db].kind /\ file'[at.db].log = {}
        BY <3>2, <2>2, <1>t DEF DContents
      <4>2. file'[at.db].main = D!Journal(at.db)
        BY <3>2, <2>2, <1>t DEF DContents
      <4> QED BY <4>1, <4>2, <2>1 DEF D!Journal
    <3> QED BY <3>1, <3>2, <1>13, <2>2 DEF D!End
  <2>7. OneMigrates'
    BY <2>1, <2>2, <2>3, <2>5, <2>6, StayAlone DEF D!Steps, D!Migrating
  <2>8. \A q \in D!Procs : proc[q].pc \in {"off", "look", "connect", "serve"} \cup RootSteps
    <3>1. \A q \in D!Procs : proc[q].pc \in {"off", "look", "log", "connect", "serve"} \cup RootSteps
      BY <2>2, <2>3 DEF OneMigrates
    <3>2. \A q \in D!Procs : proc[q].pc # "log" BY <2>1 DEF CopyIsWhole
    <3> QED BY <3>1, <3>2
  <2>9. CopyIsWhole' BY <2>1, <2>5, <2>8 DEF CopyIsWhole, CopySteps, RootSteps
  <2> QED BY <2>7, <2>9
<1>14. CASE D!Kill(p)
  <2>1. proc' = [proc EXCEPT ![p] = [pc |-> "off", from |-> 0, db |-> 0]]
    BY <1>14 DEF D!Kill, D!Idle
  <2>2. UNCHANGED <<file, at, committed>> BY <1>14 DEF D!Kill
  <2>3. proc'[p].pc = "off" /\ \A q \in D!Procs : q # p => proc'[q] = proc[q]
    BY <2>1, <1>t
  <2>4. D!Journal(at.db)' = D!Journal(at.db) BY <2>2 DEF D!Journal
  <2>5. OneMigrates' BY <2>2, <2>3, <2>4, StayAlone DEF D!Steps, D!Migrating
  <2>6. CopyIsWhole' BY <2>2, <2>3 DEF CopyIsWhole, CopySteps, RootSteps
  <2> QED BY <2>5, <2>6
<1> QED BY <1>1, <1>2, <1>3, <1>4, <1>5, <1>6, <1>7, <1>8, <1>9, <1>10, <1>11, <1>12, <1>13,
           <1>14 DEF D!Open

\* A step that leaves the tree alone, and a daemon that it moves goes before the root rows.
LEMMA TreeStays ==
  ASSUME D!TypeOK, RootsMove,
         at'.db = 0 \/ (at.db # 0 /\ at'.db # 0 /\ file'[at'.db].tree = file[at.db].tree),
         cutUid => cutUid', proc'["command"].pc \notin RootSteps,
         \/ proc'["daemon"].pc = proc["daemon"].pc
         \/ /\ proc'["daemon"].pc \notin {"clear", "move", "children", "computers", "serve"}
            /\ proc["daemon"].pc = "move" => cutUid'
  PROVE  RootsMove'
BY DEF RootsMove, D!None

(* Only the daemon moves the root rows: each of its statements, and a kill before any of
   them, leaves rows from which the next daemon goes on. *)
LEMMA RootsStep ==
  ASSUME D!TypeOK, FilesInUse, OneMigrates, CopyIsWhole, RootsMove, databaseFeatures = {},
         NEW p \in D!Procs,
         \/ D!Open(p) \/ D!Roots(p) \/ D!Commit(p) \/ D!ResolveRoot(p) \/ D!End(p) \/ D!Kill(p)
  PROVE  RootsMove'
<1> USE DEF D!None
<1>t. /\ file \in [D!Files -> DContents]
      /\ at \in [db : D!Files \cup {0}, copy : D!Files \cup {0}]
      /\ proc \in [D!Procs -> [pc : D!Steps, from : D!Files \cup {0}, db : D!Files \cup {0}]]
      /\ cutUid \in BOOLEAN
      /\ D!Procs = {"daemon", "command"}
  BY DEF D!TypeOK, DContents, D!Procs
<1>g. ASSUME NEW pc \in D!Steps, D!Goto(p, pc)
      PROVE  proc'[p].pc = pc /\ \A q \in D!Procs : q # p => proc'[q] = proc[q]
  BY <1>g, <1>t, GotoIs
<1>b. ASSUME NEW pc \in {"off", "failed", "look", "remove", "checkpoint", "attach", "export",
                         "copying", "rename", "log", "connect"},
             proc'[p].pc = pc, \A q \in D!Procs : q # p => proc'[q] = proc[q],
             proc[p].pc # "move", cutUid => cutUid',
             at'.db = 0 \/ (at.db # 0 /\ at'.db # 0 /\ file'[at'.db].tree = file[at.db].tree)
      PROVE  RootsMove'
  BY <1>b, <1>t, TreeStays DEF RootsMove, RootSteps
<1>1. CASE D!Start(p) \/ D!Look(p) \/ D!RemoveCopy(p)
  <2>1. \E pc \in {"look", "remove", "connect", "checkpoint"} : D!Goto(p, pc)
    BY <1>1 DEF D!Start, D!Look, D!RemoveCopy
  <2>2. {"look", "remove", "connect", "checkpoint"} \subseteq D!Steps BY DEF D!Steps
  <2>3. proc[p].pc # "move" /\ file' = file /\ cutUid' = cutUid
    BY <1>1 DEF D!Start, D!Look, D!RemoveCopy
  <2>4. at'.db = at.db BY <1>1, <1>t DEF D!Start, D!Look, D!RemoveCopy
  <2> QED BY <2>1, <2>2, <2>3, <2>4, <1>g, <1>b
<1>2. CASE D!Checkpoint(p)
  <2>1. proc[p].pc = "checkpoint" /\ D!Migrating(p) BY <1>2 DEF D!Checkpoint, D!Migrating
  <2>2. /\ at.db \in D!Files /\ at.db # 0 /\ file[at.db].kind = "plain"
    BY <2>1, MigratesAlone
  <2>3. /\ file' = [file EXCEPT ![at.db].main = D!Journal(at.db), ![at.db].log = {}]
        /\ proc' = [proc EXCEPT ![p].pc = "attach", ![p].from = at.db]
        /\ at' = at /\ cutUid' = cutUid
    BY <1>2, <2>2 DEF D!Checkpoint
  <2>4. /\ proc'[p].pc = "attach" /\ \A q \in D!Procs : q # p => proc'[q] = proc[q]
    BY <2>3, <1>t
  <2>5. file'[at.db].tree = file[at.db].tree BY <2>3, <2>2, <1>t DEF DContents
  <2> QED BY <2>1, <2>2, <2>3, <2>4, <2>5, <1>b
<1>3. CASE D!Attach(p)
  <2>1. proc[p].pc = "attach" /\ D!Migrating(p) BY <1>3 DEF D!Attach, D!Migrating
  <2>2. /\ at.db \in D!Files /\ at.db # 0 /\ file[at.db].kind = "plain"
    BY <2>1, MigratesAlone
  <2>3. at.copy = 0 BY <2>1 DEF CopyIsWhole, CopySteps
  <2>4. PICK f \in D!NewFile : /\ file' = [file EXCEPT ![f].kind = "empty"]
                               /\ at' = [at EXCEPT !.copy = f]
                               /\ proc' = [proc EXCEPT ![p].pc = "export", ![p].db = f]
    BY <1>3, <2>3 DEF D!Attach
  <2>5. f # at.db BY <2>2, <2>4 DEF D!NewFile, D!Files, D!NoFile, D!Contents
  <2>6. at'.db = at.db /\ file'[at.db] = file[at.db] /\ cutUid' = cutUid
    BY <1>3, <2>2, <2>4, <2>5, <1>t DEF D!Attach
  <2>7. /\ proc'[p].pc = "export" /\ \A q \in D!Procs : q # p => proc'[q] = proc[q]
    BY <2>4, <1>t
  <2> QED BY <2>1, <2>2, <2>6, <2>7, <1>b
<1>4. CASE D!Export(p) \/ D!Exported(p)
  <2>1. proc[p].pc \in {"export", "copying"} /\ D!Migrating(p)
    BY <1>4 DEF D!Export, D!Exported, D!Migrating
  <2>2. /\ at.db \in D!Files /\ at.db # 0 /\ file[at.db].kind = "plain"
    BY <2>1, MigratesAlone
  <2>3. /\ proc[p].db = at.copy /\ at.copy # 0 /\ file[at.copy].kind \in {"empty", "partial"}
    BY <2>1 DEF CopyIsWhole, CopySteps
  <2>4. \E pc \in {"copying", "rename", "failed"} : D!Goto(p, pc)
    BY <1>4 DEF D!Export, D!Exported, D!Fail
  <2>5. {"copying", "rename", "failed"} \subseteq D!Steps BY DEF D!Steps
  <2>6. file'[at.db] = file[at.db]
    BY <1>4, <2>2, <2>3, <1>t DEF D!Export, D!Exported
  <2>7. at' = at /\ cutUid' = cutUid BY <1>4 DEF D!Export, D!Exported
  <2> QED BY <2>1, <2>2, <2>4, <2>5, <2>6, <2>7, <1>g, <1>b
<1>5. CASE D!Rename(p)
  <2>1. proc[p].pc = "rename" /\ D!Migrating(p) BY <1>5 DEF D!Rename, D!Migrating
  <2>2. at.db # 0 BY <2>1, MigratesAlone
  <2>3. at.copy # 0 /\ file[at.copy].tree = file[at.db].tree BY <2>1 DEF CopyIsWhole
  <2>4. /\ at' = [db |-> at.copy, copy |-> 0] /\ D!Goto(p, "log") /\ "log" \in D!Steps
        /\ file' = file /\ cutUid' = cutUid
    BY <1>5, <2>3 DEF D!Rename, D!Steps
  <2>5. proc'[p].pc = "log" /\ \A q \in D!Procs : q # p => proc'[q] = proc[q] BY <2>4, <1>g
  <2> QED BY <2>1, <2>2, <2>3, <2>4, <2>5, <1>b
<1>6. CASE D!RemoveLog(p)
  <2>1. proc[p].pc = "log" /\ at.db # 0 /\ at.db \in D!Files
    BY <1>6, <1>t DEF D!RemoveLog, D!Migrating, FilesInUse
  <2>2. /\ file' = [file EXCEPT ![at.db].log = {}] /\ at' = at /\ cutUid' = cutUid
        /\ D!Goto(p, "connect") /\ "connect" \in D!Steps
    BY <1>6 DEF D!RemoveLog, D!Steps
  <2>3. file'[at.db].tree = file[at.db].tree BY <2>1, <2>2, <1>t DEF DContents
  <2>4. proc'[p].pc = "connect" /\ \A q \in D!Procs : q # p => proc'[q] = proc[q]
    BY <2>2, <1>g
  <2> QED BY <2>1, <2>2, <2>3, <2>4, <1>b
<1>7. CASE D!Connect(p)
  <2> DEFINE next == IF p = "daemon" THEN "myfiles" ELSE "serve"
  <2>1. proc[p].pc = "connect" /\ cutUid' = cutUid BY <1>7 DEF D!Connect
  <2>2. at.db # 0 => at.db \in D!Files /\ file[at.db].kind = "encrypted"
    BY <2>1, <1>t DEF OneMigrates, CopySteps
  <2>3. ASSUME NEW f, proc' = [proc EXCEPT ![p] = [pc |-> next, from |-> 0, db |-> f]]
        PROVE  /\ proc'["command"].pc \notin RootSteps
               /\ \/ proc'["daemon"].pc = proc["daemon"].pc
                  \/ proc'["daemon"].pc = "myfiles" /\ proc["daemon"].pc = "connect"
    BY <2>1, <2>3, <1>t DEF RootsMove, RootSteps
  <2>4. CASE at.db # 0
    <3>1. /\ file' = file /\ at' = at
          /\ proc' = [proc EXCEPT ![p] = [pc |-> next, from |-> 0, db |-> at.db]]
      BY <1>7, <2>2, <2>4 DEF D!Connect
    <3> QED BY <2>1, <2>3, <2>4, <3>1, TreeStays
  <2>5. CASE at.db = 0
    <3>1. PICK f \in D!NewFile :
               /\ file' = [file EXCEPT ![f].kind = "encrypted"]
               /\ at' = [at EXCEPT !.db = f]
               /\ proc' = [proc EXCEPT ![p] = [pc |-> next, from |-> 0, db |-> f]]
      BY <1>7, <2>5 DEF D!Connect
    <3>2. f \in D!Files /\ file[f] = D!NoFile BY <3>1 DEF D!NewFile
    <3>3. file'[f].tree = file[f].tree
      <4>1. file' = [file EXCEPT ![f] = [file[f] EXCEPT !.kind = "encrypted"]] BY <3>1
      <4>2. [file[f] EXCEPT !.kind = "encrypted"].tree = file[f].tree
        BY <3>2, <1>t DEF DContents
      <4> QED BY <4>1, <4>2, <3>2, <1>t
    <3>4. /\ file[f].tree.myFiles = 0 /\ file[f].tree.children = "none"
          /\ file[f].tree.uid = "none"
      BY <3>2 DEF D!NoFile, D!Contents, D!Fresh
    <3>5. at'.db = f BY <3>1, <1>t
    <3>6. \A q \in D!Procs : proc[q].pc \in {"off", "look", "connect"}
      BY <2>5 DEF OneMigrates
    <3>7. proc'["command"].pc \notin RootSteps
          /\ proc'["daemon"].pc \in {"off", "look", "connect", "myfiles"}
      BY <3>1, <3>6, <2>3, <1>t
    <3> QED BY <3>3, <3>4, <3>5, <3>7 DEF RootsMove
  <2> QED BY <2>4, <2>5
<1>8. ASSUME proc[p].pc \in {"serve"} \cup RootSteps
      PROVE  /\ at.db # 0 /\ at.db \in D!Files /\ proc[p].db = at.db
             /\ D!Tree(p) = file[at.db].tree /\ file[at.db].tree \in D!Trees
  BY <1>8, <1>t DEF FilesInUse, CopyIsWhole, D!Tree, DContents
<1>9. ASSUME proc[p].pc \in {"serve"} \cup RootSteps, NEW tree \in D!Trees, D!SetTree(p, tree)
      PROVE  file'[at.db].tree = tree
  <2>1. at.db \in D!Files /\ proc[p].db = at.db BY <1>8, <1>9
  <2>2. file' = [file EXCEPT ![proc[p].db] =
          D!Contents(file[proc[p].db].kind, file[proc[p].db].main, file[proc[p].db].log, tree)]
    BY <1>9, <2>1, SetTreeIs
  <2> QED BY <2>1, <2>2, <1>t DEF D!Contents
<1>10. CASE D!EnsureMyFiles(p)
  <2> DEFINE pc == IF D!Tree(p).uid = "root" THEN "clear" ELSE "children"
  <2>1. /\ proc[p].pc = "myfiles" /\ p = "daemon" /\ D!Goto(p, pc) /\ pc \in D!Steps
        /\ at' = at /\ cutUid' = cutUid
    BY <1>10, <1>t DEF D!EnsureMyFiles, D!Statement, D!Steps, RootsMove, RootSteps
  <2>2. proc'[p].pc = pc /\ proc'["command"].pc = proc["command"].pc BY <2>1, <1>t, <1>g
  <2>3. file'[at.db].tree.myFiles = 1 /\ file'[at.db].tree.uid = file[at.db].tree.uid
        /\ file'[at.db].tree.children = file[at.db].tree.children
    <3>1. CASE D!Tree(p).myFiles = 0
      <4>1. [D!Tree(p) EXCEPT !.myFiles = @ + 1] = [D!Tree(p) EXCEPT !.myFiles = 1]
        BY <3>1, <2>1, <1>8 DEF RootSteps
      <4>2. [D!Tree(p) EXCEPT !.myFiles = 1] \in D!Trees BY <2>1, <1>8 DEF RootSteps, D!Trees
      <4>3. D!SetTree(p, [D!Tree(p) EXCEPT !.myFiles = 1])
        BY <3>1, <4>1, <1>10 DEF D!EnsureMyFiles, D!Namesake
      <4>4. file'[at.db].tree = [D!Tree(p) EXCEPT !.myFiles = 1]
        BY <4>2, <4>3, <2>1, <1>9 DEF RootSteps
      <4> QED BY <4>4, <2>1, <1>8 DEF RootSteps, D!Trees
    <3>2. CASE D!Tree(p).myFiles # 0
      <4>1. file[at.db].tree.myFiles = 1
        BY <3>2, <2>1, <1>8 DEF RootSteps, RootsMove, D!Trees
      <4> QED BY <4>1, <2>1, <1>8, <1>10 DEF D!EnsureMyFiles, RootSteps
    <3> QED BY <3>1, <3>2
  <2> QED BY <2>1, <2>2, <2>3, <1>8 DEF RootsMove, RootSteps
<1>11. CASE D!ClearRoot(p)
  <2>1. /\ proc[p].pc = "clear" /\ p = "daemon" /\ D!Goto(p, "move") /\ "move" \in D!Steps
        /\ at' = at /\ cutUid' = cutUid
    BY <1>11, <1>t DEF D!ClearRoot, D!Statement, D!Steps, RootsMove, RootSteps
  <2>2. proc'[p].pc = "move" /\ proc'["command"].pc = proc["command"].pc BY <2>1, <1>t, <1>g
  <2>3. [D!Tree(p) EXCEPT !.uid = "none"] \in D!Trees BY <2>1, <1>8 DEF RootSteps, D!Trees
  <2>4. file'[at.db].tree = [D!Tree(p) EXCEPT !.uid = "none"]
    BY <2>1, <2>3, <1>9, <1>11 DEF D!ClearRoot, RootSteps
  <2>5. /\ file'[at.db].tree.uid = "none"
        /\ file'[at.db].tree.myFiles = file[at.db].tree.myFiles
    BY <2>1, <2>4, <1>8 DEF RootSteps, D!Trees
  <2> QED BY <2>1, <2>2, <2>5, <1>8 DEF RootsMove, RootSteps
<1>12. CASE D!MoveNode(p)
  <2>1. /\ proc[p].pc = "move" /\ p = "daemon" /\ D!Goto(p, "children")
        /\ "children" \in D!Steps /\ at' = at /\ cutUid' = cutUid
    BY <1>12, <1>t DEF D!MoveNode, D!Statement, D!Steps, RootsMove, RootSteps
  <2>2. proc'[p].pc = "children" /\ proc'["command"].pc = proc["command"].pc
    BY <2>1, <1>t, <1>g
  <2>3. [D!Tree(p) EXCEPT !.uid = "myfiles"] \in D!Trees BY <2>1, <1>8 DEF RootSteps, D!Trees
  <2>4. D!SetTree(p, [D!Tree(p) EXCEPT !.uid = "myfiles"])
    BY <1>12 DEF D!MoveNode, D!Namesake
  <2>5. file'[at.db].tree = [D!Tree(p) EXCEPT !.uid = "myfiles"]
    BY <2>1, <2>3, <2>4, <1>9 DEF RootSteps
  <2>6. /\ file'[at.db].tree.uid = "myfiles"
        /\ file'[at.db].tree.myFiles = file[at.db].tree.myFiles
    BY <2>1, <2>5, <1>8 DEF RootSteps, D!Trees
  <2> QED BY <2>1, <2>2, <2>6, <1>8 DEF RootsMove, RootSteps
<1>13. CASE D!ReparentChildren(p)
  <2>1. /\ proc[p].pc = "children" /\ p = "daemon" /\ D!Goto(p, "computers")
        /\ "computers" \in D!Steps /\ at' = at /\ cutUid' = cutUid
    BY <1>13, <1>t DEF D!ReparentChildren, D!Statement, D!Steps, RootsMove, RootSteps
  <2>2. proc'[p].pc = "computers" /\ proc'["command"].pc = proc["command"].pc
    BY <2>1, <1>t, <1>g
  <2> DEFINE tree == [D!Tree(p) EXCEPT !.children = IF @ = "root" THEN "myfiles" ELSE @]
  <2>3. tree \in D!Trees BY <2>1, <1>8 DEF RootSteps, D!Trees
  <2>4. file'[at.db].tree = tree
    BY <2>1, <2>3, <1>9, <1>13 DEF D!ReparentChildren, RootSteps
  <2>5. /\ file'[at.db].tree.uid = file[at.db].tree.uid
        /\ file'[at.db].tree.myFiles = file[at.db].tree.myFiles
        /\ file'[at.db].tree.children # "root"
        /\ file'[at.db].tree.children = "none" <=> file[at.db].tree.children = "none"
    BY <2>1, <2>4, <1>8 DEF RootSteps, D!Trees
  <2> QED BY <2>1, <2>2, <2>5, <1>8 DEF RootsMove, RootSteps
<1>14. CASE D!EnsureComputers(p)
  <2>1. /\ proc[p].pc = "computers" /\ p = "daemon" /\ D!Goto(p, "serve")
        /\ "serve" \in D!Steps /\ at' = at /\ cutUid' = cutUid
    BY <1>14, <1>t DEF D!EnsureComputers, D!Statement, D!Steps, RootsMove, RootSteps
  <2>2. proc'[p].pc = "serve" /\ proc'["command"].pc = proc["command"].pc
    BY <2>1, <1>t, <1>g
  <2> DEFINE tree == [D!Tree(p) EXCEPT !.computers = IF @ = 0 THEN 1 ELSE @]
  <2>3. tree \in D!Trees BY <2>1, <1>8 DEF RootSteps, D!Trees
  <2>4. file'[at.db].tree = tree
    BY <2>1, <2>3, <1>9, <1>14 DEF D!EnsureComputers, RootSteps
  <2>5. /\ file'[at.db].tree.uid = file[at.db].tree.uid
        /\ file'[at.db].tree.myFiles = file[at.db].tree.myFiles
        /\ file'[at.db].tree.children = file[at.db].tree.children
        /\ file'[at.db].tree.computers = 1
    BY <2>1, <2>4, <1>8 DEF RootSteps, D!Trees
  <2> QED BY <2>1, <2>2, <2>5, <1>8 DEF RootsMove, RootSteps
<1>15. CASE D!Commit(p)
  <2>1. proc[p].pc = "serve" /\ at' = at /\ proc' = proc /\ cutUid' = cutUid
    BY SMTT(30), <1>15 DEF D!Commit
  <2>2. PICK e \in Entries \ committed : file' = [file EXCEPT ![proc[p].db].log = @ \cup {e}]
    BY <1>15 DEF D!Commit
  <2>3. file'[at.db].tree = file[at.db].tree BY <2>1, <2>2, <1>8, <1>t DEF DContents
  <2> QED BY <2>1, <2>3, <1>8, TreeStays DEF RootsMove
<1>16. CASE D!ResolveRoot(p)
  <2>1. /\ proc[p].pc = "serve" /\ p = "daemon" /\ proc' = proc /\ at' = at /\ cutUid' = cutUid
    BY <1>16 DEF D!ResolveRoot, D!Statement
  <2>2. [D!Tree(p) EXCEPT !.uid = "myfiles"] \in D!Trees BY <2>1, <1>8 DEF D!Trees
  <2>3. file'[at.db].tree = [D!Tree(p) EXCEPT !.uid = "myfiles"]
    BY <2>1, <2>2, <1>9, <1>16 DEF D!ResolveRoot
  <2>4. /\ file'[at.db].tree.uid = "myfiles"
        /\ file'[at.db].tree.myFiles = file[at.db].tree.myFiles
        /\ file'[at.db].tree.children = file[at.db].tree.children
        /\ file'[at.db].tree.computers = file[at.db].tree.computers
    BY <2>1, <2>3, <1>8 DEF D!Trees
  <2> QED BY <2>1, <2>4, <1>8 DEF RootsMove, RootSteps
<1>17. CASE D!End(p)
  <2>1. proc[p].pc = "serve" /\ at' = at /\ cutUid' = cutUid BY <1>17 DEF D!End
  <2>2. proc' = [proc EXCEPT ![p] = [pc |-> "off", from |-> 0, db |-> 0]]
    BY <1>17 DEF D!End, D!Idle
  <2>3. proc'[p].pc = "off" /\ \A q \in D!Procs : q # p => proc'[q] = proc[q]
    BY SMTT(30), <2>2, <1>t
  <2>4. file'[at.db].tree = file[at.db].tree
    <3>1. CASE file' = file BY <3>1
    <3>2. CASE file' = [file EXCEPT ![at.db].main = D!Journal(at.db), ![at.db].log = {}]
      BY <3>2, <2>1, <1>8, <1>t DEF DContents
    <3> QED BY <3>1, <3>2, <1>17, <2>1, <1>8 DEF D!End
  <2> QED BY <2>1, <2>3, <2>4, <1>8, <1>b
<1>18. CASE D!Kill(p)
  <2>1. proc' = [proc EXCEPT ![p] = [pc |-> "off", from |-> 0, db |-> 0]]
    BY <1>18 DEF D!Kill, D!Idle
  <2>2. proc'[p].pc = "off" /\ \A q \in D!Procs : q # p => proc'[q] = proc[q]
    BY <2>1, <1>t
  <2>3. /\ file' = file /\ at' = at
        /\ cutUid => cutUid'
        /\ proc[p].pc = "move" => cutUid'
    BY <1>18 DEF D!Kill
  <2>4. proc'["command"].pc \notin RootSteps BY <2>2, <1>t DEF RootsMove, RootSteps
  <2>5. \/ proc'["daemon"].pc = proc["daemon"].pc
        \/ /\ proc'["daemon"].pc = "off"
           /\ proc["daemon"].pc = "move" => cutUid'
    BY <2>2, <2>3, <1>t
  <2> QED BY <2>2, <2>3, <2>4, <2>5, <1>t, TreeStays
<1> QED BY <1>1, <1>2, <1>3, <1>4, <1>5, <1>6, <1>7, <1>10, <1>11, <1>12, <1>13, <1>14, <1>15,
           <1>16, <1>17, <1>18 DEF D!Open, D!Roots

(* Every step of a process keeps the inductive invariant. *)
LEMMA DatabaseStep == DatabaseInv /\ [D!Next]_D!vars => DatabaseInv'
<1> SUFFICES ASSUME DatabaseInv, [D!Next]_D!vars PROVE DatabaseInv' OBVIOUS
<1>1. CASE D!Next
  <2>1. PICK p \in D!Procs :
          \/ D!Open(p) \/ D!Roots(p) \/ D!Commit(p) \/ D!ResolveRoot(p) \/ D!End(p) \/ D!Kill(p)
    BY <1>1 DEF D!Next
  <2>2. D!TypeOK' /\ FilesInUse' BY SMTT(30), <2>1, FilesStep DEF DatabaseInv
  <2>3. databaseFeatures' = databaseFeatures
    BY <2>1 DEF D!Open, D!Roots, D!Start, D!Look, D!RemoveCopy, D!Checkpoint, D!Attach,
         D!Export, D!Exported, D!Rename, D!RemoveLog, D!Connect, D!EnsureMyFiles, D!ClearRoot,
         D!MoveNode, D!ReparentChildren, D!EnsureComputers, D!Statement, D!Commit,
         D!ResolveRoot, D!End, D!Kill
  <2>4. "overlap" \notin databaseFeatures => OneMigrates' /\ CopyIsWhole'
    BY <2>1, MigrateStep DEF DatabaseInv
  <2>5. databaseFeatures = {} => RootsMove' BY <2>1, RootsStep DEF DatabaseInv
  <2> QED BY <2>2, <2>3, <2>4, <2>5 DEF DatabaseInv
<1>2. CASE UNCHANGED D!vars
  BY <1>2 DEF D!vars, DatabaseInv, D!TypeOK, FilesInUse, OneMigrates, CopyIsWhole, RootsMove,
     D!Migrating, D!Journal
<1> QED BY <1>1, <1>2

(* The inductive invariant has what the run checks. *)
LEMMA DatabaseInvIsSound == DatabaseInv => D!DatabaseIsSound
<1> SUFFICES ASSUME DatabaseInv PROVE D!DatabaseIsSound OBVIOUS
<1> USE DEF D!None
<1>1. D!TypeOK BY DEF DatabaseInv
<1>2. ASSUME "overlap" \notin databaseFeatures PROVE OneMigrates /\ CopyIsWhole
  BY <1>2 DEF DatabaseInv
<1>3. ASSUME "overlap" \notin databaseFeatures, NEW p \in D!Procs, proc[p].pc = "serve"
      PROVE  at.db # 0 /\ proc[p].db = at.db /\ file[at.db].kind = "encrypted"
  <2>1. at.db # 0 /\ proc[p].db = at.db BY <1>2, <1>3 DEF DatabaseInv, FilesInUse, CopyIsWhole
  <2> QED BY <2>1, <1>2, <1>3 DEF OneMigrates, CopySteps
<1>4. ASSUME "overlap" \notin databaseFeatures, NEW p \in D!Procs
      PROVE  proc[p].pc # "failed"
  BY <1>2, <1>4 DEF OneMigrates, CopySteps, RootSteps
<1>5. D!MigrationIsSafe BY <1>2, <1>3, <1>4 DEF D!MigrationIsSafe, OneMigrates
<1>6. D!RootsAreSound
  BY <1>3 DEF DatabaseInv, RootsMove, D!RootsAreSound, D!Tree, D!Procs
<1> QED BY <1>1, <1>5, <1>6 DEF D!DatabaseIsSound

(* For any entries, files, kills and modes: unless two processes overlap, no kill in the
   migration to an encrypted database loses a committed entry or leaves a database that
   does not open, and a daemon that serves has well-formed root rows (db.rs, fs.rs). *)
THEOREM DatabaseStaysSound == MountSpec => []DatabaseIsSound
<1>1. MountInit => DatabaseInv BY DatabaseInit DEF MountInit
<1>2. DatabaseInv /\ [MountNext]_mountVars => DatabaseInv'
  <2> SUFFICES ASSUME DatabaseInv, [MountNext]_mountVars PROVE DatabaseInv' OBVIOUS
  <2>1. [D!Next]_D!vars BY DEF MountNext, mountVars, databaseVars, D!vars
  <2> QED BY <2>1, DatabaseStep
<1>3. DatabaseInv => DatabaseIsSound BY DatabaseInvIsSound DEF DatabaseIsSound
<1> QED BY <1>1, <1>2, <1>3, PTL DEF MountSpec
=============================================================================
