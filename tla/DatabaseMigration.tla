-------------------------- MODULE DatabaseMigration --------------------------
(***************************************************************************)
(* How pdcli opens the database of the mount, fuse.db (crates/pdcli/src/   *)
(* db.rs): a database of an older version is copied into an encrypted one, *)
(* which is renamed over it, and the rows of the root are brought into     *)
(* their present shape statement by statement.  Any process may be killed  *)
(* between two of these steps, and the next one starts from what it left.  *)
(*                                                                         *)
(* The daemon and the commands of the user open the same file.  SQLite and *)
(* SQLCipher are external: a statement is atomic, what was committed is in *)
(* the file or in its log, and sqlcipher_export is not one statement.      *)
(***************************************************************************)
EXTENDS Naturals

CONSTANTS Entries,     \* journal entries that may be queued
          MaxFiles,    \* bound: files that are made
          MaxKills,    \* bound: processes that are killed, in each mode
          Modes        \* what may happen: sets of the features below

\* "overlap": a process looks at the file while another one migrates it.
\* "namesake": the user has a folder MyFiles of his own, at the root of an old tree.
Features == {"overlap", "namesake"}
Procs == {"daemon", "command"}
Files == 1..MaxFiles
None == 0

VARIABLES
  features,   \* the mode of the behaviour
  file,       \* the files that were made: their kind and what they hold
  at,         \* the file at the path of the database, and at that of the copy
  proc,       \* the step of each process and the files it has open
  committed,  \* history: the entries that a process was told are in the journal
  cutUid,     \* history: a daemon was killed between the two UPDATEs of the root
  kills       \* number of processes that were killed

vars == <<features, file, at, proc, committed, cutUid, kills>>

-----------------------------------------------------------------------------
(* files *)

\* The rows of the tree that are migrated: which row has the node of My Files, how
\* many rows are called MyFiles, and where the folders of the user are.
Fresh == [uid |-> "none", myFiles |-> 0, children |-> "none", computers |-> 0]
Legacy == [Fresh EXCEPT !.uid = "root", !.children = "root"]

\* main: entries in the file itself.  log: committed ones that are only in its log.
Contents(kind, main, log, tree) == [kind |-> kind, main |-> main, log |-> log, tree |-> tree]
NoFile == Contents("none", {}, {}, Fresh)

Journal(f) == file[f].main \cup file[f].log
Idle == [pc |-> "off", from |-> None, db |-> None]

Init ==
  /\ features \in Modes
  \* nothing, or a database of an older version whose daemon was killed
  /\ \E old \in {NoFile} \cup {Contents("plain", {}, {CHOOSE e \in Entries : TRUE}, Legacy)} :
        file = [f \in Files |-> IF f = 1 THEN old ELSE NoFile]
  /\ at = [db |-> IF file[1] = NoFile THEN None ELSE 1, copy |-> None]
  /\ proc = [p \in Procs |-> Idle]
  /\ committed = Journal(1) /\ cutUid = FALSE /\ kills = 0

\* The lookup of MyFiles finds the folder of the user.
Namesake(f) == "namesake" \in features /\ file[f].tree.children = "root"

Migrating(p) == proc[p].pc \in {"remove", "checkpoint", "attach", "export", "copying", "rename", "log"}
Goto(p, pc) == proc' = [proc EXCEPT ![p].pc = pc]
Fail(p) == Goto(p, "failed")
NewFile == {f \in Files : file[f] = NoFile /\ \A g \in 1..(f - 1) : file[g] # NoFile}

-----------------------------------------------------------------------------
(* open_with_key and migrate_plaintext_to_sqlcipher *)

Start(p) ==
  /\ proc[p].pc \in {"off", "failed"}
  /\ Goto(p, "look")
  /\ UNCHANGED <<features, file, at, committed, cutUid, kills>>

\* looks_like_plaintext_sqlite
Look(p) ==
  /\ proc[p].pc = "look"
  /\ "overlap" \in features \/ \A q \in Procs : ~Migrating(q)
  /\ Goto(p, IF at.db # None /\ file[at.db].kind = "plain" THEN "remove" ELSE "connect")
  /\ UNCHANGED <<features, file, at, committed, cutUid, kills>>

\* Mutant of RemoveCopy: the copy of an earlier attempt stays.
MutRemoveCopy(p) ==
  /\ proc[p].pc = "remove"
  /\ Goto(p, "checkpoint")
  /\ UNCHANGED <<features, file, at, committed, cutUid, kills>>

\* What an earlier attempt left of its copy is removed.
RemoveCopy(p) ==
  /\ proc[p].pc = "remove"
  /\ at' = [at EXCEPT !.copy = None]
  /\ Goto(p, "checkpoint")
  /\ UNCHANGED <<features, file, committed, cutUid, kills>>

\* The log of a process that was killed goes into the file.  A file that was
\* encrypted in the meantime cannot be read without its key.
Checkpoint(p) ==
  /\ proc[p].pc = "checkpoint"
  /\ IF file[at.db].kind = "plain"
     THEN /\ file' = [file EXCEPT ![at.db].main = Journal(at.db), ![at.db].log = {}]
          /\ proc' = [proc EXCEPT ![p].pc = "attach", ![p].from = at.db]
     ELSE Fail(p) /\ UNCHANGED file
  /\ UNCHANGED <<features, at, committed, cutUid, kills>>

\* ATTACH opens the copy, or makes it.
Attach(p) ==
  /\ proc[p].pc = "attach"
  /\ \/ /\ at.copy # None
        /\ proc' = [proc EXCEPT ![p].pc = "export", ![p].db = at.copy]
        /\ UNCHANGED <<file, at>>
     \/ /\ at.copy = None
        /\ \E f \in NewFile :
              /\ file' = [file EXCEPT ![f].kind = "empty"]
              /\ at' = [at EXCEPT !.copy = f]
              /\ proc' = [proc EXCEPT ![p].pc = "export", ![p].db = f]
  /\ UNCHANGED <<features, committed, cutUid, kills>>

\* sqlcipher_export makes the tables, which must not be there, and fills them.
Export(p) ==
  /\ proc[p].pc = "export"
  /\ IF file[proc[p].db].kind = "empty"
     THEN file' = [file EXCEPT ![proc[p].db].kind = "partial"] /\ Goto(p, "copying")
     ELSE Fail(p) /\ UNCHANGED file
  /\ UNCHANGED <<features, at, committed, cutUid, kills>>

Exported(p) ==
  /\ proc[p].pc = "copying"
  /\ file' = [file EXCEPT ![proc[p].db] =
                 Contents("encrypted", Journal(proc[p].from), {}, file[proc[p].from].tree)]
  /\ Goto(p, "rename")
  /\ UNCHANGED <<features, at, committed, cutUid, kills>>

Rename(p) ==
  /\ proc[p].pc = "rename"
  /\ IF at.copy # None THEN at' = [db |-> at.copy, copy |-> None] /\ Goto(p, "log")
     ELSE Fail(p) /\ UNCHANGED at
  /\ UNCHANGED <<features, file, committed, cutUid, kills>>

\* The log beside the path is taken for that of the old file.
RemoveLog(p) ==
  /\ proc[p].pc = "log"
  /\ file' = [file EXCEPT ![at.db].log = {}]
  /\ Goto(p, "connect")
  /\ UNCHANGED <<features, at, committed, cutUid, kills>>

\* Opens what is at the path with the key, and makes it if there is nothing; a file
\* whose copy was cut short is a database too, and init_schema adds its tables.
Connect(p) ==
  /\ proc[p].pc = "connect"
  /\ LET next == IF p = "daemon" THEN "myfiles" ELSE "serve" IN
     \/ /\ at.db # None /\ file[at.db].kind # "plain"
        /\ proc' = [proc EXCEPT ![p] = [pc |-> next, from |-> None, db |-> at.db]]
        /\ UNCHANGED <<file, at>>
     \/ at.db # None /\ file[at.db].kind = "plain" /\ Fail(p) /\ UNCHANGED <<file, at>>
     \/ /\ at.db = None
        /\ \E f \in NewFile :
              /\ file' = [file EXCEPT ![f].kind = "encrypted"]
              /\ at' = [at EXCEPT !.db = f]
              /\ proc' = [proc EXCEPT ![p] = [pc |-> next, from |-> None, db |-> f]]
  /\ UNCHANGED <<features, committed, cutUid, kills>>

-----------------------------------------------------------------------------
(* spawn_fuse_session: insert_root, ensure_my_files_root, ensure_computers_root *)

Tree(p) == file[proc[p].db].tree
SetTree(p, tree) == file' = [file EXCEPT ![proc[p].db].tree = tree]
Statement(p, pc) == proc[p].pc = pc /\ UNCHANGED <<features, at, committed, kills>>

\* Mutant of EnsureMyFiles: it does not look for the row first.
MutEnsureMyFiles(p) ==
  /\ Statement(p, "myfiles")
  /\ SetTree(p, [Tree(p) EXCEPT !.myFiles = @ + 1])
  /\ Goto(p, IF Tree(p).uid = "root" THEN "clear" ELSE "children")
  /\ UNCHANGED cutUid

\* The row MyFiles is made unless there is one, or a folder of the user with its name.
EnsureMyFiles(p) ==
  /\ Statement(p, "myfiles")
  /\ IF Tree(p).myFiles > 0 \/ Namesake(proc[p].db) THEN UNCHANGED file
     ELSE SetTree(p, [Tree(p) EXCEPT !.myFiles = @ + 1])
  /\ Goto(p, IF Tree(p).uid = "root" THEN "clear" ELSE "children")
  /\ UNCHANGED cutUid

\* The node of My Files leaves the root, in one statement, and enters the row MyFiles
\* in the next; a folder of the user keeps its own node.
ClearRoot(p) ==
  /\ Statement(p, "clear")
  /\ SetTree(p, [Tree(p) EXCEPT !.uid = "none"])
  /\ Goto(p, "move")
  /\ UNCHANGED cutUid
MoveNode(p) ==
  /\ Statement(p, "move")
  /\ SetTree(p, [Tree(p) EXCEPT !.uid = IF Namesake(proc[p].db) THEN @ ELSE "myfiles"])
  /\ Goto(p, "children")
  /\ UNCHANGED cutUid

ReparentChildren(p) ==
  /\ Statement(p, "children")
  /\ SetTree(p, [Tree(p) EXCEPT !.children = IF @ = "root" THEN "myfiles" ELSE @])
  /\ Goto(p, "computers")
  /\ UNCHANGED cutUid

EnsureComputers(p) ==
  /\ Statement(p, "computers")
  /\ SetTree(p, [Tree(p) EXCEPT !.computers = IF @ = 0 THEN 1 ELSE @])
  /\ Goto(p, "serve")
  /\ UNCHANGED cutUid

-----------------------------------------------------------------------------
(* what the processes do then *)

\* enqueue_journal, or a retry by a command: committed to the log, which SQLite may
\* move to the file.
Commit(p) ==
  /\ proc[p].pc = "serve"
  /\ \E e \in Entries \ committed :
        /\ file' = [file EXCEPT ![proc[p].db].log = @ \cup {e}]
        /\ committed' = committed \cup {e}
  /\ UNCHANGED <<features, at, proc, cutUid, kills>>

\* populate_folder_children: a row MyFiles without a node gets it from the server.
ResolveRoot(p) ==
  /\ Statement(p, "serve") /\ p = "daemon"
  /\ Tree(p).myFiles > 0 /\ Tree(p).uid = "none"
  /\ SetTree(p, [Tree(p) EXCEPT !.uid = "myfiles"])
  /\ UNCHANGED <<proc, cutUid>>

\* A process ends, or is killed in the middle; the log stays, unless it is the last
\* one to close the file.
End(p) ==
  /\ proc[p].pc = "serve"
  /\ file' = IF \E q \in Procs \ {p} : proc[q].db = proc[p].db THEN file
             ELSE [file EXCEPT ![proc[p].db].main = Journal(proc[p].db), ![proc[p].db].log = {}]
  /\ proc' = [proc EXCEPT ![p] = Idle]
  /\ UNCHANGED <<features, at, committed, cutUid, kills>>

Kill(p) ==
  /\ proc[p].pc \notin {"off", "failed"} /\ kills < MaxKills[features]
  /\ kills' = kills + 1
  /\ cutUid' = (cutUid \/ proc[p].pc = "move")
  /\ proc' = [proc EXCEPT ![p] = Idle]
  /\ UNCHANGED <<features, file, at, committed>>

Open(p) == \/ Start(p) \/ Look(p) \/ RemoveCopy(p) \/ Checkpoint(p) \/ Attach(p) \/ Export(p)
           \/ Exported(p) \/ Rename(p) \/ RemoveLog(p) \/ Connect(p)
Roots(p) == EnsureMyFiles(p) \/ ClearRoot(p) \/ MoveNode(p) \/ ReparentChildren(p) \/ EnsureComputers(p)

Next == \E p \in Procs : \/ Open(p) \/ Roots(p) \/ Commit(p) \/ ResolveRoot(p) \/ End(p) \/ Kill(p)

Spec == Init /\ [][Next]_vars

-----------------------------------------------------------------------------
Steps == {"off", "failed", "look", "remove", "checkpoint", "attach", "export", "copying", "rename",
          "log", "connect", "myfiles", "clear", "move", "children", "computers", "serve"}
Trees == [uid : {"none", "root", "myfiles"}, myFiles : 0..2, children : {"none", "root", "myfiles"},
          computers : 0..1]

TypeOK ==
  /\ features \subseteq Features
  /\ file \in [Files -> [kind : {"none", "plain", "empty", "partial", "encrypted"},
                         main : SUBSET Entries, log : SUBSET Entries, tree : Trees]]
  /\ at \in [db : Files \cup {None}, copy : Files \cup {None}]
  /\ proc \in [Procs -> [pc : Steps, from : Files \cup {None}, db : Files \cup {None}]]
  /\ committed \subseteq Entries /\ cutUid \in BOOLEAN /\ kills \in 0..MaxKills[features]

(* Safety: unless two processes overlap, a database that was cut short is never at the
   path, every open succeeds whatever was killed before, and every entry that was
   committed before, during or after the migration is in the database at the path. *)
MigrationIsSafe == "overlap" \notin features =>
  /\ at.db # None => file[at.db].kind \in {"plain", "encrypted"} /\ committed \subseteq Journal(at.db)
  /\ \A p \in Procs : proc[p].pc # "failed"
  /\ \A p \in Procs : proc[p].pc = "serve" => proc[p].db = at.db /\ file[at.db].kind = "encrypted"

(* Safety: a daemon that serves has one row MyFiles, with the folders of the user below
   it and not with the root; the node of My Files is nowhere else, and it is only
   missing until the next listing when a daemon was killed while it moved. *)
RootsAreSound == features = {} /\ proc["daemon"].pc = "serve" =>
  LET tree == Tree("daemon") IN
  /\ tree.myFiles = 1 /\ tree.computers = 1 /\ tree.children # "root"
  /\ tree.uid # "root"
  /\ tree.uid = "none" => cutUid \/ tree.children = "none"

DatabaseIsSound == TypeOK /\ MigrationIsSafe /\ RootsAreSound
==============================================================================
