----------------------------- MODULE MCMountSync ----------------------------
(* The instances of the two views of the mount that are kept apart, for one run:
   the contents of one file, or the tree of names; or the opening of the database
   that has both.  `part' says which of them runs. *)
EXTENDS FileSync

CONSTANTS Names, MaxIno, MaxUid, MaxLocal, MaxRemote, MaxTries, First, TreeModes,
          Entries, MaxFiles, MaxKills, DatabaseModes
VARIABLES part,
          treeFeatures, rows, populated, nextIno, nodes, nextUid, treeJournal, nextEntry, pass,
          work, failed, events, listing, localOps, remoteOps,
          databaseFeatures, file, at, proc, committed, cutUid, kills

\* The names: nothing gets in the way; folders are removed unseen; replies and
\* answers are late; requests and answers are lost; other clients interfere.  The server starts with a folder
\* that holds another entry.
MCTreeModes == {{}, {"overwrite", "impatient"},
            {"early", "slowcreate", "slowlist", "movename", "offline"},
            {"failing"},
            {"remote", "gone", "slowlist"}}
MCMaxLocal == [m \in MCTreeModes |-> IF m = {} THEN 3 ELSE IF "remote" \in m THEN 1 ELSE 2]
MCFirst == <<[parent |-> 0, name |-> "a"], [parent |-> 1, name |-> "b"]>>

\* The file: requests and uploads come one at a time, next to another client, to
\* events and truncations, to both, and to listings; and they overlap.
MCFileModes == {{"remote"}, {"events", "truncate"}, {"events", "remote", "truncate"},
                {"listing", "remote"}, {"concurrent", "events", "truncate"}}

N == INSTANCE NamespaceSync WITH
        features <- treeFeatures, journal <- treeJournal, Modes <- TreeModes
treeVars == <<treeFeatures, rows, populated, nextIno, nodes, nextUid, treeJournal, nextEntry,
              pass, work, failed, events, listing, localOps, remoteOps>>

\* The database: one process migrates it at a time; several; and a tree with a folder
\* of the user's that has the name of a row of the root.
MCDatabaseModes == {{}, {"overlap"}, {"namesake"}}
MCMaxKills == [m \in MCDatabaseModes |-> IF m = {} THEN 2 ELSE IF "overlap" \in m THEN 0 ELSE 1]
D == INSTANCE DatabaseMigration WITH features <- databaseFeatures, Modes <- DatabaseModes
\* Some entry can be queued and some file made, and every mode has its bound.
ASSUME DatabaseAssumption ==
    /\ Entries # {} /\ MaxFiles \in Nat \ {0}
    /\ DatabaseModes \subseteq SUBSET D!Features /\ MaxKills \in [DatabaseModes -> Nat]
databaseVars == <<databaseFeatures, file, at, proc, committed, cutUid, kills>>

mountVars == <<part, vars, treeVars, databaseVars>>

\* The part that does not run stays in one state.
MountInit == /\ part \in {"file", "names", "database"} /\ Init /\ N!Init /\ D!Init
             /\ part # "file" => features = {"remote"}
             /\ part # "names" => treeFeatures = {}
             /\ part # "database" => databaseFeatures = {} /\ at.db = D!None

MountNext == \/ part = "file" /\ Next /\ UNCHANGED <<part, treeVars, databaseVars>>
             \/ part = "names" /\ N!Next /\ UNCHANGED <<part, vars, databaseVars>>
             \/ part = "database" /\ D!Next /\ UNCHANGED <<part, vars, treeVars>>

MountSpec == MountInit /\ [][MountNext]_mountVars

(* Safety: the rows of the mount are well formed and reachable, and once all is quiet
   the two trees agree (fs.rs), in the modes their properties name. *)
TreeIsSound == part = "names" => N!TreeIsSound

(* Action property: no folder is deleted with nodes the user never saw (fs.rs). *)
DeletesOnlyEmpty == N!DeletesOnlyEmpty

(* Safety: whichever process was killed at whichever step, no journal entry is lost in
   the migration to an encrypted database, the database opens, and its root rows are
   well formed when the mount serves. *)
DatabaseIsSound == part = "database" => D!DatabaseIsSound
=============================================================================
