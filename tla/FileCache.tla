------------------------------ MODULE FileCache ------------------------------
(***************************************************************************)
(* Opening a file of the mount that is not in the cache                     *)
(* (ensure_file_cached, crates/pdcli/src/fs.rs): the revision is downloaded *)
(* to its path in the cache directory, block by block, and the open waits.  *)
(* Downloads and uploads are in the list of transfers (transfer.rs), which  *)
(* the daemon shows and of which it cancels one (daemon.rs).  pdcli offline *)
(* (offline.rs) keeps a copy of the files of a folder, or frees it, by an   *)
(* attribute of each; and programs that only make thumbnails may not open   *)
(* what would have to be downloaded (thumbnail.rs).                         *)
(*                                                                         *)
(* Events of the drive remove the copy, be it kept or not (event_poll_loop). *)
(*                                                                         *)
(* The path is that of one revision, the same for every open of the file    *)
(* and for the next daemon.  A file lives on as an inode when it is removed *)
(* while it is open.                                                       *)
(*                                                                         *)
(* features says what happens besides: opens of the file at once            *)
(* ("overlap"), the daemon is killed ("kill"), files are uploaded meanwhile  *)
(* ("upload"), an upload panics ("panic"), the command runs ("offline"), and *)
(* all sorts of programs open the file ("programs").                        *)
(***************************************************************************)
EXTENDS Integers, Sequences, FiniteSets, FiniteSetsExt

CONSTANTS Opens, Uploads, Blocks,  \* the requests; the blocks of the revision, 1..Blocks
          Modes,                   \* the sets of features a behaviour may have
          Folders,                 \* what the command finds below its target: sequences of
                                   \* "file" (the file), "document" and "gone"
          Viewer, Programs,        \* processes, each with those that started it
          Thumbnailers,            \* those that make thumbnails
          ConfigFiles,             \* what thumbnails.toml may have: <<>> if it is missing
                                   \* or cannot be read, and else <<lists>>
          MaxOpens, MaxCancels     \* bounds: opens, and cancels of the user

VARIABLES
  features,
  path,      \* the inode at the cache path, or NoFile
  inodes,    \* the blocks that were written to each
  row,       \* the row of the file: it has the path (cached), and its size
  open,      \* the opens
  upload,    \* the uploads that the flush loop runs at the same time
  next,      \* the id of the next transfer
  entries,   \* the list: of each id who, and how far it is
  handles,   \* the ids that can be cancelled, with the task that is aborted
  seen,      \* the list as the user saw it, to cancel one of them
  aborted,   \* tasks that were aborted
  meant,     \* history: those the user meant to cancel
  config,    \* the lists of programs, as the daemon loaded them
  command,   \* pdcli offline, while it runs, and what it told of its last run
  kept,      \* history: the file was kept for the command, and its copy removed since
  opened, cancels

vars == <<features, path, inodes, row, open, upload, next, entries, handles, seen, aborted, meant,
          config, command, kept, opened, cancels>>

NoFile == 0
Whole == 1..Blocks
Inodes == 1..MaxOpens + 1   \* one for each open, one for the command
Closed == [pc |-> "closed", inode |-> NoFile, id |-> -1, cached |-> FALSE, by |-> Viewer]
Command == <<>>   \* the program of the command, that does not open what it keeps
NoCommand == [value |-> "none", below |-> {}, left |-> <<>>, failed |-> 0]
NoUpload == [pc |-> "idle", id |-> -1]
Size(i) == IF inodes[i] = {} THEN 0 ELSE Max(inodes[i])

-----------------------------------------------------------------------------
(* thumbnail.rs: a process has an exe and a name, each the pattern of the lists it
   matches.  A file of an older version lacks patterns of today. *)

Defaults == [allowedExes |-> {"viewer"}, blockedExes |-> {"manager"},
             allowedNames |-> {"viewer"}, blockedNames |-> {"manager", "indexer"}]
AddDefaultBlocks(c) == [c EXCEPT !.blockedExes = @ \cup Defaults.blockedExes,
                                 !.blockedNames = @ \cup Defaults.blockedNames]
Load(file) == IF file = <<>> THEN Defaults ELSE AddDefaultBlocks(file[1])

\* A thumbnailer, even one of a viewer; then by the exe, then by the name.
Classify(p) ==
  CASE "thumbnail" \in {p.exe, p.name, p.plugin} -> "blocked"
    [] "thumbnail" \notin {p.exe, p.name, p.plugin} /\ p.exe \in config.allowedExes -> "allowed"
    [] OTHER -> IF p.exe \in config.blockedExes THEN "blocked"
                ELSE IF p.name \in config.allowedNames THEN "allowed"
                ELSE IF p.name \in config.blockedNames THEN "blocked" ELSE "unknown"

\* Mutant: only the process itself is looked at.
MutIsBlockedProcess(by) == by # <<>> /\ Classify(by[1]) = "blocked"
\* Helpers open files for the process that started them: the first that is known decides.
IsBlockedProcess(by) ==
  LET known == {i \in DOMAIN by : i <= 16 /\ Classify(by[i]) # "unknown"}
  IN  known # {} /\ Classify(by[Min(known)]) = "blocked"

-----------------------------------------------------------------------------
Init ==
  /\ features \in Modes
  /\ path = NoFile /\ inodes = [i \in Inodes |-> {}] /\ row = [cached |-> FALSE, size |-> Blocks]
  /\ open = [o \in Opens |-> Closed] /\ upload = [u \in Uploads |-> NoUpload]
  /\ next = 0 /\ entries = {} /\ handles = {} /\ seen = {} /\ aborted = {} /\ meant = {}
  /\ config \in (IF "programs" \in features THEN {Load(f) : f \in ConfigFiles} ELSE {Defaults})
  /\ command = NoCommand /\ kept = "no" /\ opened = 0 /\ cancels = 0

-----------------------------------------------------------------------------
(* TransferTracker: ids are given in order, and each operation is one critical
   section. *)

Entry(id, who) == [id |-> id, who |-> who, done |-> 0]
Add(who) == /\ entries' = entries \cup {Entry(next, who)} /\ next' = next + 1
Progress(id, done) ==
  entries' = {IF e.id = id THEN [e EXCEPT !.done = done] ELSE e : e \in entries}
RegisterCancel(id, who) ==
  handles' = IF \E e \in entries : e.id = id THEN handles \cup {<<id, who>>} ELSE handles
\* Mutant: the handle of a transfer that ended is kept.
MutMark(id) == /\ entries' = {e \in entries : e.id # id} /\ UNCHANGED handles
\* mark_complete, mark_failed
Mark(id) == /\ entries' = {e \in entries : e.id # id} /\ handles' = {h \in handles : h[1] # id}

-----------------------------------------------------------------------------
Tracker == <<next, entries, handles>>
User == <<seen, meant, cancels, config>>
Offline == <<command, kept>>
Set(o, r) == open' = [open EXCEPT ![o] = r]
Goto(o, pc) == open' = [open EXCEPT ![o].pc = pc]
At(o, pc) == open[o].pc = pc /\ UNCHANGED <<features, upload, User>>
Reading == {p \in Opens : open[p].pc \notin {"closed", "opened"}}

\* open reads the row: a thumbnailer may only open what has a copy.
IsAvailableOffline == row.cached /\ path # NoFile
Open(o) ==
  /\ At(o, "closed") /\ opened < MaxOpens /\ opened' = opened + 1
  /\ "overlap" \in features \/ Reading = {}
  /\ \E by \in IF "programs" \in features THEN Programs ELSE {Viewer} :
       /\ IsAvailableOffline \/ ~IsBlockedProcess(by)
       /\ Set(o, [Closed EXCEPT !.pc = "look", !.cached = row.cached, !.by = by])
  /\ UNCHANGED <<path, inodes, row, Tracker, aborted, Offline>>

\* What ensure_file_cached gives: the file is opened; or there is nothing any more.  For
\* the command, the attribute is set.
End(o) ==
  IF open[o].by = Command THEN Set(o, Closed) /\ kept' = "yes" /\ UNCHANGED command
  ELSE /\ Set(o, IF path = NoFile THEN Closed ELSE [open[o] EXCEPT !.pc = "opened", !.inode = path, !.id = -1])
       /\ UNCHANGED Offline
Failed == [command EXCEPT !.failed = @ + 1]

\* A copy is there: by the row, as it was read, or because it was `downloaded in a
\* previous session', which the row is told.
Serve(o) ==
  /\ At(o, "look") /\ path # NoFile
  /\ row' = [cached |-> row.cached \/ ~open[o].cached, size |-> Size(path)]
  /\ End(o)
  /\ UNCHANGED <<path, inodes, Tracker, aborted, opened>>

\* None is: the download gets an entry and a task.
Download(o) ==
  /\ At(o, "look") /\ path = NoFile
  /\ Add(o) /\ Set(o, [open[o] EXCEPT !.pc = "create", !.id = next])
  /\ UNCHANGED <<path, inodes, row, handles, aborted, opened, Offline>>

\* A new file gets an inode that nothing was written to and nobody has open.
Unused(j) == inodes[j] = {} /\ \A p \in Opens : open[p].inode # j

\* The downloader comes, and File::create makes the file at the path, or empties it; or
\* the request fails.
Create(o) ==
  /\ At(o, "create") /\ UNCHANGED <<row, Tracker, aborted, opened, Offline>>
  /\ \/ \E i \in IF path # NoFile THEN {path}
                 ELSE {j \in Inodes : Unused(j) /\ \A k \in 1..j-1 : ~Unused(k)} :
           /\ path' = i /\ inodes' = [inodes EXCEPT ![i] = {}]
           /\ Set(o, [open[o] EXCEPT !.pc = "register", !.inode = i])
     \/ Goto(o, "failed") /\ UNCHANGED <<path, inodes>>

\* The transfer can be cancelled once its task runs.
Register(o) ==
  /\ At(o, "register") /\ RegisterCancel(open[o].id, o) /\ Goto(o, "run")
  /\ UNCHANGED <<path, inodes, row, next, entries, aborted, opened, Offline>>

\* The blocks are written in order, each with a call of the progress callback.
Written(o) == Cardinality({b \in Whole : \E e \in entries : e.id = open[o].id /\ b <= e.done})
Block(o) ==
  /\ At(o, "run") /\ o \notin aborted /\ Written(o) < Blocks
  /\ inodes' = [inodes EXCEPT ![open[o].inode] = @ \cup {Written(o) + 1}]
  /\ Progress(open[o].id, Written(o) + 1)
  /\ UNCHANGED <<path, row, open, next, handles, aborted, opened, Offline>>
Fail(o) ==
  /\ At(o, "run") /\ Goto(o, "failed")
  /\ UNCHANGED <<path, inodes, row, Tracker, aborted, opened, Offline>>

\* It is complete: the row gets the path and the size of what is there.
Complete(o) ==
  /\ At(o, "run") /\ o \notin aborted /\ Written(o) = Blocks
  /\ row' = [cached |-> TRUE, size |-> IF path = NoFile THEN row.size ELSE Size(path)]
  /\ Mark(open[o].id) /\ End(o)
  /\ UNCHANGED <<path, inodes, next, aborted, opened>>

\* Mutant: the partial file is left.
MutRemovePartial(o) ==
  /\ At(o, "failed") /\ Mark(open[o].id) /\ Set(o, Closed)
  /\ command' = (IF open[o].by = Command THEN Failed ELSE command)
  /\ aborted' = aborted \ {o} /\ UNCHANGED <<path, inodes, row, next, opened, kept>>
\* It failed, or was cancelled: the file is removed, whoever made it.
RemovePartial(o) ==
  /\ At(o, "failed") /\ path' = NoFile /\ Mark(open[o].id) /\ Set(o, Closed)
  /\ command' = (IF open[o].by = Command THEN Failed ELSE command)
  /\ aborted' = aborted \ {o} /\ UNCHANGED <<inodes, row, next, opened, kept>>

Close(o) ==
  /\ At(o, "opened") /\ Set(o, Closed) /\ UNCHANGED <<path, inodes, row, Tracker, aborted, opened, Offline>>

\* free_up_space: the copy of a file that nobody has open is removed.
Busy == \E o \in Opens : open[o].pc = "opened"
FreeUpSpace == /\ path' = NoFile /\ row' = [row EXCEPT !.cached = FALSE]
               /\ kept' = (IF kept = "yes" THEN "freed" ELSE kept)
FreeUp ==
  /\ IsAvailableOffline /\ ~Busy /\ FreeUpSpace
  /\ "overlap" \in features \/ \A o \in Opens : open[o].pc = "closed"
  /\ UNCHANGED <<features, inodes, open, upload, Tracker, User, aborted, opened, command>>

\* event_poll_loop: whatever is told of the file, its copy is removed, also while it is
\* open or about to be, and also when it is kept; nothing downloads it again.
RemoteUpdate ==
  /\ row.cached /\ FreeUpSpace
  /\ UNCHANGED <<features, inodes, open, upload, Tracker, User, aborted, opened, command>>

-----------------------------------------------------------------------------
(* pdcli offline keep, and free: what is below the target, one after the other *)

\* Bound: one command.
Apply == /\ "offline" \in features /\ command = NoCommand
         /\ \E value \in {"offline", "online-only"}, below \in Folders :
              command' = [NoCommand EXCEPT !.value = value, !.below = {below[i] : i \in DOMAIN below}, !.left = below]
         /\ UNCHANGED <<features, path, inodes, row, open, upload, Tracker, User, aborted, opened, kept>>
Waits == \E o \in Opens : open[o].by = Command /\ open[o].pc # "closed"

\* set_availability: the attribute of what comes next.  One that fails is counted and
\* the others follow; documents are online only.
SetAvailability ==
  /\ command.left # <<>> /\ ~Waits
  /\ LET rest == [command EXCEPT !.left = Tail(@)]
         error == [rest EXCEPT !.failed = @ + 1]
     IN \/ /\ Head(command.left) \in {"document", "gone"} /\ UNCHANGED <<path, row, open, kept>>
           /\ command' = IF Head(command.left) = "gone" THEN error ELSE rest
        \/ /\ Head(command.left) = "file" /\ command.value = "offline"
           /\ "overlap" \in features \/ Reading = {}
           /\ \E o \in {p \in Opens : open[p].pc = "closed"} :
                Set(o, [Closed EXCEPT !.pc = "look", !.cached = row.cached, !.by = Command])
           /\ command' = rest /\ UNCHANGED <<path, row, kept>>
        \/ /\ Head(command.left) = "file" /\ command.value = "online-only" /\ UNCHANGED open
           /\ "overlap" \in features \/ Reading = {}
           /\ IF Busy THEN command' = error /\ UNCHANGED <<path, row, kept>>
              ELSE command' = rest /\ FreeUpSpace
  /\ UNCHANGED <<features, inodes, upload, Tracker, User, aborted, opened>>

-----------------------------------------------------------------------------
(* The uploads of the flush loop: process_journal_entry adds one to the list; a task
   that panics is only logged. *)
Upload(u) ==
  /\ UNCHANGED <<features, path, inodes, row, open, User, aborted, opened, Offline>>
  /\ \/ /\ "upload" \in features /\ upload[u].pc = "idle" /\ Add(u) /\ UNCHANGED handles
        /\ upload' = [upload EXCEPT ![u] = [pc |-> "run", id |-> next]]
     \/ /\ upload[u].pc = "run" /\ Mark(upload[u].id) /\ UNCHANGED next
        /\ upload' = [upload EXCEPT ![u].pc = "ended"]
     \/ /\ "panic" \in features /\ upload[u].pc = "run"
        /\ upload' = [upload EXCEPT ![u].pc = "panicked"] /\ UNCHANGED Tracker

(* The daemon: `transfers', and `cancel-transfer' of one the user saw. *)
Snapshot ==
  /\ cancels < MaxCancels /\ seen = {} /\ seen' = entries /\ entries # {}
  /\ UNCHANGED <<features, path, inodes, row, open, upload, Tracker, aborted, meant, config, opened, cancels, Offline>>
\* A task that has ended is not aborted any more.
Cancel(e) ==
  /\ e \in seen /\ seen' = {} /\ cancels' = cancels + 1
  /\ LET tasks == {h[2] : h \in {x \in handles : x[1] = e.id}} IN
     /\ aborted' = aborted \cup {o \in tasks : open[o].pc = "run"}
     /\ meant' = meant \cup {e.who}
  /\ UNCHANGED <<features, path, inodes, row, open, upload, Tracker, config, opened, Offline>>

\* The daemon is killed and starts again: the directory and the database remain.
Restart ==
  /\ "kill" \in features /\ \E o \in Opens : open[o].pc # "closed"
  /\ open' = [o \in Opens |-> Closed] /\ upload' = [u \in Uploads |-> NoUpload]
  /\ next' = 0 /\ entries' = {} /\ handles' = {} /\ aborted' = {}
  /\ command' = (IF Waits THEN Failed ELSE command)
  /\ UNCHANGED <<features, path, inodes, row, User, opened, kept>>

Next ==
  \/ \E o \in Opens : Open(o) \/ Serve(o) \/ Download(o) \/ Create(o) \/ Register(o) \/ Block(o)
                      \/ Fail(o) \/ Complete(o) \/ RemovePartial(o) \/ Close(o)
  \/ FreeUp \/ RemoteUpdate \/ Snapshot \/ Restart \/ Apply \/ SetAvailability
  \/ \E u \in Uploads : Upload(u)
  \/ \E e \in seen : Cancel(e)
Spec == Init /\ [][Next]_vars

-----------------------------------------------------------------------------
(* What an open finds in the cache is the whole revision (`Already downloaded in a
   previous session?', fs.rs:696). *)
OpenedIsWhole == \A o \in Opens : open[o].pc = "opened" => inodes[open[o].inode] = Whole

(* The list is that of the transfers that run, and what can be cancelled is in it. *)
Running == {o \in Opens : open[o].id # -1} \cup {u \in Uploads : upload[u].pc = "run"}
ListIsRunning ==
  /\ "panic" \notin features => {e.who : e \in entries} = Running
  /\ \A e, f \in entries : e.id = f.id => e = f
  /\ {h[1] : h \in handles} \subseteq {e.id : e \in entries}

(* A cancel ends only what the user meant, unless the daemon it saw the list of is gone. *)
CancelsWhatWasMeant == "kill" \notin features => aborted \subseteq meant

(* A file that is kept offline is there, whole, until it is freed or an event tells of it
   (fs.rs 2248-2264: the copy is removed and stays so, whatever the attribute says); and
   the command that keeps a folder says so only when it kept the file. *)
KeptIsThere == /\ kept = "yes" => IsAvailableOffline /\ inodes[path] = Whole
               /\ (command.value = "offline" /\ command.left = <<>> /\ ~Waits /\ "file" \in command.below) =>
                     (command.failed = 0 => kept # "no" /\ "gone" \notin command.below)

(* No thumbnailer has a file downloaded, whoever opens it for it, and whatever the lists
   of the user let it read: unless there was a copy when it opened the file, which an
   event removed before it was looked for. *)
ThumbnailersWait == \A o \in Opens : open[o].id # -1 => open[o].by \notin Thumbnailers \/ open[o].cached

(* Safety: opens that do not overlap, of daemons that are not killed, find whole files,
   whose size the row has; what is kept offline stays until an event tells of it, and
   thumbnailers have nothing downloaded; the list is true. *)
OpensAreSound ==
  /\ features \cap {"overlap", "kill"} = {} =>
        /\ OpenedIsWhole
        /\ row.cached => row.size = Blocks
        /\ KeptIsThere /\ ThumbnailersWait
  /\ ListIsRunning /\ CancelsWhatWasMeant
=============================================================================
