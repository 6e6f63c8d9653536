----------------------------- MODULE MCCommands ------------------------------
(* The instances of the commands of pdcli that share nothing, for one run: an import of
   photos, a takeout, and the backup of a folder.  `part' says which of them runs. *)
EXTENDS Naturals

VARIABLES part,
    strategy, disk, library, known, seen, index, job, failure, run, runs, nextId,
    faults, changes, lost, others,
    direct, revision, folder, manifest, issues, pc, plan, output, listed, exports,
    exportFaults, userOps,
    here, there, copies, clock, step, listing, todo, transfers, item, moving,
    metadata, serial, wanted, late, outdated, made, syncFaults

\* Three photos with two names and two contents.  The library may have one of
\* them; each case has failures or changes to come, so that the runs stay small.
PhotoFiles == <<"f1", "f2", "f3">>
PhotoName == [f1 |-> "n", f2 |-> "n", f3 |-> "m"]
Old == [id |-> 1, name |-> <<"n", 0>>, content |-> "a", by |-> "other"]
Case(s, c1, c2, c3, l, f, c) ==
    [strategy |-> s, disk |-> [f1 |-> c1, f2 |-> c2, f3 |-> c3], library |-> l,
     faults |-> f, changes |-> c]
PhotoCases == {Case("skip", "a", "b", "a", {}, 1, 1), Case("skip", "a", "a", "b", {Old}, 1, 0),
               Case("error", "b", "a", "a", {Old}, 1, 0), Case("keep", "a", "a", "b", {Old}, 0, 1)}

I == INSTANCE PhotosImport WITH
        Paths <- PhotoFiles, NameOf <- PhotoName, Contents <- {"a", "b"}, Jobs <- 2,
        Attempts <- 2, Scenarios <- PhotoCases, MaxRuns <- 2

\* Two files with one name, one of them of a computer, and a document.
T == INSTANCE Takeout WITH
        Nodes <- <<"u", "v", "w">>, NameOf <- [u |-> "n", v |-> "n", w |-> "n"],
        BestEffort <- {"v"}, Unsupported <- {"w"}, MaxIndex <- 5, MaxRevision <- 2,
        MaxFaults <- 1, MaxUser <- 1

C == INSTANCE ComputerSync WITH
        Names <- {"a"}, MaxClock <- 2, MaxChanges <- 3, MaxSyncFaults <- 1

photoVars == <<strategy, disk, library, known, seen, index, job, failure, run, runs,
               faults, changes, nextId, lost, others>>
takeoutVars == <<direct, revision, folder, manifest, issues, pc, plan, output, listed,
                 exports, exportFaults, userOps>>
syncVars == <<here, there, copies, clock, step, listing, todo, transfers, item, moving,
              metadata, serial, wanted, late, outdated, made, syncFaults>>
commandVars == <<part, photoVars, takeoutVars, syncVars>>

CommandsInit == /\ part \in {"import", "takeout", "backup"}
                /\ I!ImportInit /\ T!TakeoutInit /\ C!SyncInit
                /\ part # "import" => strategy = "error"
                /\ part # "takeout" => direct

CommandsNext ==
    \/ part = "import" /\ I!ImportNext /\ UNCHANGED <<part, takeoutVars, syncVars>>
    \/ part = "takeout" /\ T!TakeoutNext /\ UNCHANGED <<part, photoVars, syncVars>>
    \/ part = "backup" /\ C!SyncNext /\ UNCHANGED <<part, photoVars, takeoutVars>>

\* Tasks run and requests end; the passes of a backup go on for ever.
CommandsSpec == /\ CommandsInit /\ [][CommandsNext]_commandVars
                /\ WF_photoVars(I!Work)
                /\ WF_syncVars(part = "backup" /\ C!Pass)

(* Safety: the library, the cache and the tasks of an import agree (photos.rs), and a
   takeout leaves a folder that is what its manifest says (takeout.rs). *)
ExportsAreSound == I!ImportIsSound /\ T!TakeoutIsSound

(* Action property: a takeout leaves the files of the user alone. *)
UserFilesAreKept == T!UserFilesAreKept

(* Safety: a backup loses nothing the user wrote on either side. *)
BackupIsSound == C!BackupIsSound

(* Liveness: an import ends, and so do the transfers of a backup: no transfer is
   repeated every 30 seconds for ever (computers.rs). *)
CommandsEnd == I!ImportEnds /\ C!BackupSettles
==============================================================================
