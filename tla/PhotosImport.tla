---------------------------- MODULE PhotosImport ----------------------------
(***************************************************************************)
(* pdcli photos import (crates/pdcli/src/photos.rs and photo_cache.rs):     *)
(* uploads the photos of a folder, several at once, and leaves out those    *)
(* whose content the library has.  What it knows of the library is a cache  *)
(* on disk, which outlives the process, and an index of the timeline, read  *)
(* once per import by the first photo the cache cannot vouch for.           *)
(*                                                                         *)
(* Each import_photo is a task that runs from one await to the next.  It    *)
(* holds the lock of its name from `content' on and the lock of its content    *)
(* from `index' on, and gives both back when it returns, before a retry     *)
(* waits.                                                                  *)
(***************************************************************************)
EXTENDS Naturals, Sequences, FiniteSets, SequencesExt, FiniteSetsExt

CONSTANTS Paths,       \* what local_photo_paths returned, smallest first
          NameOf,      \* the file name of each path
          Contents,    \* contents of photos, which stand for their fingerprints
          Jobs,        \* --jobs
          Attempts,    \* IMPORT_ATTEMPTS
          Scenarios,   \* the strategy, folder and library it starts with, and as bounds
                       \* the failures and the changes by others that it can have
          MaxRuns      \* bound: imports of the folder, one after the other

Files == ToSet(Paths)
None == "none"
NoRow == [stamp |-> 0, content |-> None]
NoIndex == <<>>

VARIABLES
    strategy, \* "skip", "error" or "keep"
    disk,     \* the local file: its content, and a stamp for size and mtime
    library,  \* the photos of the timeline: id, name, content and who put it there
    known,    \* uploaded_photos: the ids recorded for a content
    seen,     \* imported_files: the stamp and content of a local file, or NoRow
    index,    \* NoIndex, or the ids the index has for each content
    job,      \* the import of each file
    failure,  \* a permanent failure stopped the import
    run, runs, nextId,
    faults, changes, \* those that can still happen
    lost,     \* history: commits whose answer the import did not get
    others    \* history: contents other clients added or removed

photoVars == <<strategy, disk, library, known, seen, index, job, failure, run, runs,
               faults, changes, nextId, lost, others>>
table == <<known, seen>>
world == <<disk, library, nextId, changes, lost, others>>
process == <<strategy, run, runs>>

NewJob == [pc |-> "pending", attempt |-> 1, stamp |-> 0, content |-> None,
           name |-> <<>>, id |-> 0]
Finished == {"uploaded", "skipped", "failed", "error"}
NameHeld == {"content", "index", "scan", "name", "upload", "reply"}
ContentHeld == NameHeld \ {"content"}
Running(f) == job[f].pc \notin Finished \cup {"pending"}
At(f, pc) == run = "importing" /\ job[f].pc = pc
Skips == strategy = "skip"

Ids(c) == {p.id : p \in {q \in library : q.content = c}}
TakenNames == {p.name : p \in library}

ImportInit ==
    /\ \E s \in Scenarios :
          /\ strategy = s.strategy
          /\ disk = [f \in Files |-> [content |-> s.disk[f], stamp |-> 1]]
          /\ library = s.library /\ nextId = Cardinality(s.library) + 1
          /\ faults = s.faults /\ changes = s.changes
    /\ known = [c \in Contents |-> 0] /\ seen = [f \in Files |-> NoRow]
    /\ index = NoIndex /\ job = [f \in Files |-> NewJob] /\ failure = FALSE
    /\ run = "none" /\ runs = 0
    /\ lost = [c \in Contents |-> 0] /\ others = [c \in Contents |-> 0]

-----------------------------------------------------------------------------
(* The import. *)

\* import_photos
Begin ==
    /\ run = "none" /\ runs < MaxRuns
    /\ run' = "importing" /\ runs' = runs + 1
    /\ job' = [f \in Files |-> NewJob] /\ failure' = FALSE /\ index' = NoIndex
    /\ UNCHANGED <<strategy, table, world, faults>>

\* The next photo starts while fewer than Jobs run and none failed for good.
StartJob(i) ==
    LET f == Paths[i] IN
    /\ At(f, "pending") /\ ~failure
    /\ \A j \in 1 .. i - 1 : job[Paths[j]].pc # "pending"
    /\ Cardinality({g \in Files : Running(g)}) < Jobs
    /\ job' = [job EXCEPT ![f].pc = "open"]
    /\ UNCHANGED <<process, table, world, index, failure, faults>>

\* Mutant of End: the photos that are not started are waited for.
MutEnd ==
    /\ run = "importing"
    /\ \A f \in Files : job[f].pc \in Finished
    /\ run' = "none"
    /\ UNCHANGED <<strategy, runs, table, world, index, job, failure, faults>>

\* No photo runs and none will start: the import ends.
End ==
    /\ run = "importing"
    /\ \A f \in Files : job[f].pc \in Finished \/ (failure /\ job[f].pc = "pending")
    /\ run' = "none"
    /\ UNCHANGED <<strategy, runs, table, world, index, job, failure, faults>>

Finish(f, result) == job' = [job EXCEPT ![f].pc = result]

\* remember_upload
Remember(f, id) ==
    /\ known' = [known EXCEPT ![job[f].content] = id]
    /\ seen' = [seen EXCEPT ![f] = [stamp |-> job[f].stamp, content |-> job[f].content]]

\* get_file: the row of a file counts while its content is known.
Imported(f) == /\ seen[f] # NoRow /\ seen[f].stamp = disk[f].stamp
               /\ known[seen[f].content] # 0

\* import_photo opens the file and looks it up by its stamp.
Open(f) ==
    /\ At(f, "open")
    /\ job' = [job EXCEPT ![f].stamp = disk[f].stamp, ![f].content = disk[f].content,
                          ![f].pc = IF Skips /\ Imported(f) THEN "skipped" ELSE "locking"]
    /\ UNCHANGED <<process, table, world, index, failure, faults>>

\* The lock of the name, and the digest of what the file holds by then.
LockName(f) ==
    /\ At(f, "locking")
    /\ \A g \in Files \ {f} : NameOf[g] = NameOf[f] => job[g].pc \notin NameHeld
    /\ job' = [job EXCEPT ![f].pc = "content", ![f].content = disk[f].content]
    /\ UNCHANGED <<process, table, world, index, failure, faults>>

\* Mutant of LockContent: photos with the same content run side by side.
MutLockContent(f) ==
    /\ At(f, "content")
    /\ LET c == job[f].content IN
       \/ /\ Skips /\ known[c] # 0
          /\ Remember(f, known[c]) /\ Finish(f, "skipped")
       \/ /\ ~(Skips /\ known[c] # 0)
          /\ Finish(f, "index") /\ UNCHANGED table
    /\ UNCHANGED <<process, world, index, failure, faults>>

\* The lock of the content; then the cache may know it.
LockContent(f) ==
    /\ At(f, "content")
    /\ \A g \in Files \ {f} : job[g].content = job[f].content => job[g].pc \notin ContentHeld
    /\ LET c == job[f].content IN
       \/ /\ Skips /\ known[c] # 0
          /\ Remember(f, known[c]) /\ Finish(f, "skipped")
       \/ /\ ~(Skips /\ known[c] # 0)
          /\ Finish(f, "index") /\ UNCHANGED table
    /\ UNCHANGED <<process, world, index, failure, faults>>

\* The cell of the index lets one photo read the timeline; the others wait.
Scan(f) ==
    /\ At(f, "index") /\ index = NoIndex /\ \A g \in Files : job[g].pc # "scan"
    /\ job' = [job EXCEPT ![f].pc = "scan"]
    /\ UNCHANGED <<process, table, world, index, failure, faults>>

Scanned(f) ==
    /\ At(f, "scan")
    /\ index' = [c \in Contents |-> Ids(c)]
    /\ job' = [job EXCEPT ![f].pc = "index"]
    /\ UNCHANGED <<process, table, world, failure, faults>>

\* skip_duplicate, with what the index has for the content.
Check(f) ==
    /\ At(f, "index") /\ index # NoIndex
    /\ LET matches == index[job[f].content] IN
       \/ /\ matches # {} /\ Skips
          /\ Remember(f, Min(matches)) /\ Finish(f, "skipped") /\ UNCHANGED failure
       \/ /\ matches # {} /\ strategy = "error"
          /\ Finish(f, "error") /\ failure' = TRUE /\ UNCHANGED table
       \/ /\ matches = {} \/ strategy = "keep"
          /\ Finish(f, "name") /\ UNCHANGED <<table, failure>>
    /\ UNCHANGED <<process, world, index, faults>>

\* get_available_name: the name, or the first numbered one that is free.
AvailableName(n) ==
    <<n, Min({k \in 0 .. Cardinality(library) : <<n, k>> \notin TakenNames})>>

Name(f) ==
    /\ At(f, "name")
    /\ job' = [job EXCEPT ![f].pc = "upload", ![f].name = AvailableName(NameOf[f])]
    /\ UNCHANGED <<process, table, world, index, failure, faults>>

\* The upload is committed, unless the file is not what was hashed or the name
\* was taken meanwhile: both end the import.
Commit(f) ==
    /\ At(f, "upload")
    /\ \/ /\ disk[f].content = job[f].content /\ job[f].name \notin TakenNames
          /\ library' = library \cup
                 {[id |-> nextId, name |-> job[f].name, content |-> job[f].content,
                   by |-> "import"]}
          /\ nextId' = nextId + 1
          /\ job' = [job EXCEPT ![f].pc = "reply", ![f].id = nextId] /\ UNCHANGED failure
       \/ /\ disk[f].content # job[f].content \/ job[f].name \in TakenNames
          /\ Finish(f, "error") /\ failure' = TRUE /\ UNCHANGED <<library, nextId>>
    /\ UNCHANGED <<process, table, disk, changes, lost, others, index, faults>>

Reply(f) ==
    /\ At(f, "reply")
    /\ Remember(f, job[f].id)
    /\ index' = [index EXCEPT ![job[f].content] = @ \cup {job[f].id}]
    /\ Finish(f, "uploaded")
    /\ UNCHANGED <<process, world, failure, faults>>

-----------------------------------------------------------------------------
(* Failures. *)

\* A request fails, or its answer is lost: import_photo_with_retries tries again.
Fail(f) ==
    /\ run = "importing" /\ job[f].pc \in {"content", "scan", "name", "upload", "reply"}
    /\ faults > 0 /\ faults' = faults - 1
    /\ Finish(f, IF job[f].attempt < Attempts THEN "backoff" ELSE "failed")
    /\ lost' = [c \in Contents |-> lost[c] + (IF job[f].pc = "reply" /\ job[f].content = c
                                              THEN 1 ELSE 0)]
    /\ UNCHANGED <<process, table, disk, library, nextId, changes, others, index, failure>>

Backoff(f) ==
    /\ At(f, "backoff")
    /\ job' = [job EXCEPT ![f].pc = "open", ![f].attempt = @ + 1]
    /\ UNCHANGED <<process, table, world, index, failure, faults>>

\* A failure that is not transient, for instance photos the scan cannot check.
FailForGood(f) ==
    /\ run = "importing" /\ job[f].pc \in {"content", "scan"}
    /\ faults > 0 /\ faults' = faults - 1
    /\ Finish(f, "error") /\ failure' = TRUE
    /\ UNCHANGED <<process, table, world, index>>

\* The process ends; the cache and the library stay.
Crash ==
    /\ run = "importing" /\ faults > 0 /\ faults' = faults - 1
    /\ run' = "none" /\ job' = [f \in Files |-> NewJob] /\ index' = NoIndex /\ failure' = FALSE
    /\ UNCHANGED <<strategy, runs, table, world>>

-----------------------------------------------------------------------------
(* The user, other clients and time. *)

Change == changes > 0 /\ changes' = changes - 1

Edit(f, c) ==
    /\ Change /\ c # disk[f].content
    /\ disk' = [disk EXCEPT ![f] = [content |-> c, stamp |-> @.stamp + 1]]
    /\ UNCHANGED <<process, table, library, nextId, lost, others, index, job, failure, faults>>

RemoteAdd(n, c) ==
    /\ Change
    /\ library' = library \cup {[id |-> nextId, name |-> AvailableName(n), content |-> c,
                               by |-> "other"]}
    /\ nextId' = nextId + 1 /\ others' = [others EXCEPT ![c] = @ + 1]
    /\ UNCHANGED <<process, table, disk, lost, index, job, failure, faults>>

RemoteRemove(p) ==
    /\ Change
    /\ library' = library \ {p} /\ others' = [others EXCEPT ![p.content] = @ + 1]
    /\ UNCHANGED <<process, table, disk, nextId, lost, index, job, failure, faults>>

\* The record of a content is older than its time to live.
Expire(c) ==
    /\ Change /\ known[c] # 0
    /\ known' = [known EXCEPT ![c] = 0]
    /\ UNCHANGED <<process, seen, disk, library, nextId, lost, others, index, job, failure,
                   faults>>

-----------------------------------------------------------------------------
Step(f) == \/ Open(f) \/ LockName(f) \/ LockContent(f) \/ Scan(f) \/ Scanned(f)
           \/ Check(f) \/ Name(f) \/ Commit(f) \/ Reply(f) \/ Backoff(f)
Work == \/ \E i \in 1 .. Len(Paths) : StartJob(i)
        \/ \E f \in Files : Step(f)
        \/ End

ImportNext ==
    \/ Begin \/ Work \/ Crash
    \/ \E f \in Files : Fail(f) \/ FailForGood(f)
    \/ \E f \in Files, c \in Contents : Edit(f, c)
    \/ \E c \in Contents : Expire(c) \/ \E f \in Files : RemoteAdd(NameOf[f], c)
    \/ \E p \in library : RemoteRemove(p)

-----------------------------------------------------------------------------
ImportTypeOK ==
    /\ strategy \in {"skip", "error", "keep"} /\ run \in {"none", "importing"}
    /\ disk \in [Files -> [content : Contents, stamp : Nat \ {0}]]
    /\ known \in [Contents -> Nat]
    /\ seen \in [Files -> [stamp : Nat, content : Contents \cup {None}]]
    /\ index = NoIndex \/ index \in [Contents -> SUBSET (1 .. nextId - 1)]
    /\ \A f \in Files : /\ job[f].pc \in NameHeld \cup Finished \cup
                                {"pending", "open", "locking", "backoff"}
                        /\ job[f].attempt \in 1 .. Attempts
    /\ \A p, q \in library : p.id = q.id \/ p.name = q.name => p = q

(* Safety: photos with the same content that are imported side by side, tried
   again or imported once more do not become copies in the library.  A copy is
   made only by a commit whose answer was lost, which the retry does not see. *)
NoNeedlessCopy ==
    Skips => \A c \in Contents : Cardinality(Ids(c)) <= 1 + lost[c] + others[c]

(* Safety: a photo that was uploaded or skipped is in the library, and so is
   what the cache says, unless another client removed it; and a file that did
   not change since its row was written has the content the row names. *)
SkippedIsStored ==
    /\ \A f \in Files : job[f].pc \in {"uploaded", "skipped"} =>
          Ids(job[f].content) # {} \/ others[job[f].content] > 0
    /\ \A c \in Contents : known[c] # 0 => known[c] \in Ids(c) \/ others[c] > 0
    /\ \A f \in Files : seen[f].stamp = disk[f].stamp => seen[f].content = disk[f].content

(* Safety: no photo loses its name to a photo of the same import, so only
   another client can end an import with a name it took. *)
OwnNamesDoNotClash ==
    \A f \in Files, p \in library :
        job[f].pc = "upload" /\ p.name = job[f].name => p.by = "other"

(* Safety: the library, the cache and the tasks of an import agree. *)
ImportIsSound == ImportTypeOK /\ SkippedIsStored /\ OwnNamesDoNotClash /\ NoNeedlessCopy

(* Liveness: an import ends, whatever its photos wait for and fail with. *)
ImportEnds == (run = "importing") ~> (run = "none")
=============================================================================
