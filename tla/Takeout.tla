------------------------------ MODULE Takeout -------------------------------
(***************************************************************************)
(* pdcli takeout and pdcli photos export (crates/pdcli/src/takeout.rs):     *)
(* download every file into a folder.  A manifest in the folder says which  *)
(* revision of each node was written where, so that an export that stops    *)
(* can be run again.  Files of a takeout are written next to their place    *)
(* and renamed; the photos of an export (`direct') are written in place.    *)
(*                                                                         *)
(* A file is `whole' when it has the size of the exports of its name: a file   *)
(* of the user may have it too.  Folders, issues and names are those of one     *)
(* folder, since a photo and a file of My files never share one.            *)
(***************************************************************************)
EXTENDS Naturals, Sequences, SequencesExt

CONSTANTS Nodes,       \* the files of the account in the order of the plan
          NameOf,      \* safe_name of each
          BestEffort,  \* nodes of the computers: their failure is recorded
          Unsupported, \* documents, and nodes that cannot be decrypted
          MaxIndex,    \* bound standing for the 10 000 numbered names
          MaxRevision, \* bound: revisions of a node
          MaxFaults,   \* bound: failures and crashes, and so the runs after the first
          MaxUser      \* bound: what the user does in the folder

Uids == ToSet(Nodes)
Places == {NameOf[u] : u \in Uids} \X (0 .. MaxIndex)
NoFile == [of |-> "none"]
UserFile(kept, whole) == [of |-> "user", kept |-> kept, whole |-> whole]
Export(u, r, w) == [of |-> u, revision |-> r, whole |-> w]
NoEntry == [path |-> <<>>, revision |-> 0]

VARIABLES
    direct,   \* direct_output
    revision, \* the active revision of each node on the server, 0 in the trash
    folder,   \* the file at each place of the destination
    manifest, \* the entries of the manifest
    issues,   \* the nodes the manifest lists as issues, with the takeout they are from
    pc, plan, \* the running takeout and the files it has not finished
    output,   \* the place it writes to
    listed,   \* history: what the last takeout listed
    exports, exportFaults, userOps

takeoutVars == <<direct, revision, folder, manifest, issues, pc, plan, output, listed,
                 exports, exportFaults, userOps>>
bounds == <<exports, exportFaults, userOps>>

TakeoutInit ==
    /\ direct \in BOOLEAN
    /\ revision = [u \in Uids |-> 1] /\ folder = [p \in Places |-> NoFile]
    /\ manifest = [u \in Uids |-> NoEntry] /\ issues = {}
    /\ pc = "off" /\ plan = <<>> /\ output = <<>> /\ listed = <<>>
    /\ exports = 0 /\ exportFaults = 0 /\ userOps = 0

-----------------------------------------------------------------------------
\* Takeout::open, list_folder, list_photos and list_devices
Listing ==
    /\ pc \in {"off", "failed"} /\ exports <= MaxFaults
    /\ exports' = exports + 1
    /\ LET found == SelectSeq(Nodes, LAMBDA u : revision[u] > 0)
           files == SelectSeq(found, LAMBDA u : u \notin Unsupported) IN
       /\ issues' = issues \cup ({exports'} \X (ToSet(found) \cap Unsupported))
       /\ plan' = [i \in 1 .. Len(files) |->
                      [uid |-> files[i], revision |-> revision[files[i]]]]
       /\ listed' = [i \in 1 .. Len(found) |->
                      [uid |-> found[i], revision |-> revision[found[i]]]]
       /\ pc' = IF files = <<>> THEN "off" ELSE "next"
    /\ UNCHANGED <<direct, revision, folder, manifest, output, exportFaults, userOps>>

Exists(p) == folder[p] # NoFile
Entered(p) == \E u \in Uids : manifest[u].path = p

\* A name is free when neither the folder nor the manifest has it.
Used(p) == Exists(p) \/ Entered(p)

\* unique_relative_path
UniquePath(n) ==
    CHOOSE p \in {n} \X (0 .. MaxIndex) :
        ~Used(p) /\ \A q \in {n} \X (0 .. p[2] - 1) : Used(q)

Current == Head(plan)
Entry == manifest[Current.uid]

Done == /\ plan' = Tail(plan) /\ output' = <<>>
        /\ pc' = IF Len(plan) = 1 THEN "off" ELSE "next"

\* The manifest shows that the file is exported: the revision, and a file of its
\* size there.
IsExported == /\ Entry # NoEntry /\ Entry.revision = Current.revision
              /\ Exists(Entry.path) /\ folder[Entry.path].whole

Skip ==
    /\ pc = "next" /\ IsExported
    /\ Done
    /\ UNCHANGED <<direct, revision, folder, manifest, issues, listed, bounds>>

\* The place of the manifest, where a takeout replaces what it wrote before, or
\* a new one.
Place ==
    IF Entry # NoEntry /\ ~(direct /\ Exists(Entry.path)) THEN Entry.path
    ELSE UniquePath(NameOf[Current.uid])

Create ==
    /\ pc = "next" /\ ~IsExported
    /\ pc' = "download" /\ output' = Place
    /\ folder' = IF direct
                 THEN [folder EXCEPT ![Place] = Export(Current.uid, Current.revision, FALSE)]
                 ELSE folder
    /\ UNCHANGED <<direct, revision, manifest, issues, plan, listed, bounds>>

\* The revision that was listed is downloaded, and renamed unless it was written
\* in place.
Download ==
    /\ pc = "download"
    /\ pc' = "save"
    /\ folder' = [folder EXCEPT ![output] = Export(Current.uid, Current.revision, TRUE)]
    /\ UNCHANGED <<direct, revision, manifest, issues, plan, output, listed, bounds>>

Save ==
    /\ pc = "save"
    /\ manifest' = [manifest EXCEPT ![Current.uid] =
                        [path |-> output, revision |-> Current.revision]]
    /\ Done
    /\ UNCHANGED <<direct, revision, folder, issues, listed, bounds>>

Fault == exportFaults < MaxFaults /\ exportFaults' = exportFaults + 1

\* The download fails and what was written is removed.  The takeout goes on when
\* the file is of a computer, and fails otherwise.
Fail ==
    /\ pc = "download" /\ Fault
    /\ folder' = IF direct THEN [folder EXCEPT ![output] = NoFile] ELSE folder
    /\ \/ /\ ~direct /\ Current.uid \in BestEffort
          /\ issues' = issues \cup {<<exports, Current.uid>>} /\ Done
       \/ /\ direct \/ Current.uid \notin BestEffort
          /\ pc' = "failed" /\ plan' = <<>> /\ output' = <<>> /\ UNCHANGED issues
    /\ UNCHANGED <<direct, revision, manifest, listed, exports, userOps>>

Crash ==
    /\ pc \in {"next", "download", "save"} /\ Fault
    /\ pc' = "failed" /\ plan' = <<>> /\ output' = <<>>
    /\ UNCHANGED <<direct, revision, folder, manifest, issues, listed, exports, userOps>>

-----------------------------------------------------------------------------
(* The user, in the folder and in the account, also while a takeout runs. *)

UserOp(p) == /\ userOps < MaxUser /\ userOps' = userOps + 1
             /\ ~(direct /\ pc = "download" /\ p = output)
             /\ UNCHANGED <<direct, revision, manifest, issues, pc, plan, output, listed,
                            exports, exportFaults>>

\* A takeout may replace a file the user puts in place of an export, or where it
\* is about to write; an export of photos replaces nothing.
Put(p, whole) ==
    /\ UserOp(p)
    /\ folder' = [folder EXCEPT ![p] =
                     UserFile(direct \/ (~Entered(p) /\ p # output), whole)]

Delete(p) == UserOp(p) /\ Exists(p) /\ folder' = [folder EXCEPT ![p] = NoFile]

SetRevision(u, r) ==
    /\ r \in {0, revision[u] + 1} /\ revision[u] \in 1 .. MaxRevision - 1
    /\ revision' = [revision EXCEPT ![u] = r]
    /\ UNCHANGED <<direct, folder, manifest, issues, pc, plan, output, listed, bounds>>

-----------------------------------------------------------------------------
TakeoutNext ==
    \/ Listing \/ Skip \/ Create \/ Download \/ Save \/ Fail \/ Crash
    \/ \E p \in Places : Delete(p) \/ \E whole \in BOOLEAN : Put(p, whole)
    \/ \E u \in Uids, r \in 0 .. MaxRevision : SetRevision(u, r)

-----------------------------------------------------------------------------
TakeoutTypeOK ==
    /\ direct \in BOOLEAN /\ pc \in {"off", "next", "download", "save", "failed"}
    /\ (pc \in {"next", "download", "save"}) = (plan # <<>>)
    /\ (pc \in {"download", "save"}) = (output # <<>>)
    /\ \A u \in Uids : manifest[u] # NoEntry =>
          manifest[u].path \in Places /\ manifest[u].revision \in 1 .. MaxRevision
    /\ issues \subseteq (0 .. exports) \X Uids

(* Safety: the manifest has each file at a place of its own, and what is there
   is the whole file, of the revision the manifest says or, after a crash
   between the rename and the save, of a later one; unless the user put another
   file there or took it away.  Only an export of photos leaves half files. *)
ManifestIsTrue ==
    /\ \A u \in Uids : manifest[u] # NoEntry =>
          LET file == folder[manifest[u].path] IN
          \/ file.of \in {"none", "user"}
          \/ /\ file.of = u /\ file.revision >= manifest[u].revision
             /\ direct \/ file.whole
    /\ \A u, v \in Uids : manifest[u].path = manifest[v].path /\ manifest[u] # NoEntry => u = v
    /\ \A p \in Places : folder[p].of \in Uids /\ ~direct => folder[p].whole

(* Safety: a takeout that completes has every file it listed in the manifest, as
   it was listed, or has recorded why not. *)
CompleteIsComplete ==
    pc = "off" => \A i \in 1 .. Len(listed) :
        \/ LET entry == manifest[listed[i].uid] IN
           /\ entry.revision = listed[i].revision
           /\ folder[entry.path].of \in Uids => folder[entry.path].whole
        \/ <<exports, listed[i].uid>> \in issues

(* Safety: a takeout, run again after failures, crashes and changes on both
   sides, leaves a folder that is what its manifest says. *)
TakeoutIsSound == TakeoutTypeOK /\ ManifestIsTrue /\ CompleteIsComplete

(* Action property: a takeout does not overwrite, rename over or remove a file
   the user had in the folder, unless it is in place of one it exported. *)
UserFilesAreKept ==
    [][\A p \in Places :
          folder[p] \in {UserFile(TRUE, w) : w \in BOOLEAN} /\ folder'[p] # folder[p]
              => userOps' # userOps]_takeoutVars
=============================================================================
