---------------------------- MODULE ComputerSync ----------------------------
(***************************************************************************)
(* The backup of a folder of this computer (crates/pdcli/src/computers.rs): *)
(* sync_loop compares a local folder with a remote one, plans the transfers *)
(* and runs them, and starts again after 30 seconds.  The newer of two files *)
(* wins; the other side is kept as a conflict copy, which is not synced.     *)
(* What is compared is the mtime of the local file and the time the server   *)
(* gave the active revision, both in seconds: the mtime that is uploaded with *)
(* a file is never read back.  Nothing is remembered from one pass to the    *)
(* next, nothing is deleted, and the user and other computers go on meanwhile. *)
(*                                                                         *)
(* One folder stands for the tree: a pass lists the whole tree before it     *)
(* transfers, so its subfolders add names and no behaviour.                  *)
(***************************************************************************)
EXTENDS Naturals, FiniteSets

CONSTANTS Names,       \* names in the folder
          MaxClock,    \* bound: seconds of the server's clock
          MaxChanges,  \* bound: changes by the user and by other clients
          MaxSyncFaults \* bound: transfers that fail, and ends of the process

Absent == [kind |-> "absent"]
Folder == [kind |-> "folder"]
Half == 0  \* the content of a file that was not downloaded to its end
Local(content, mtime) == [kind |-> "file", content |-> content, mtime |-> mtime]
\* Its mtime is the CreateTime of the active revision.  The content names that
\* revision: only this pass uploads a content that a file had before, and it lists
\* the file again before it uploads to it once more.
Remote(content, mtime, node) ==
    [kind |-> "file", content |-> content, mtime |-> mtime, node |-> node]
NoItem == [name |-> "none"]
NoNode == [node |-> 0, content |-> 0]

VARIABLES
    here,     \* the local folder
    there,    \* the remote folder
    copies,   \* the contents the conflict copies of each name have
    clock,    \* the server's time in seconds
    step,     \* where the pass is
    listing,  \* the remote children it listed
    todo,     \* the names it has not compared
    transfers, \* the transfers it has not run
    item,     \* the one it runs
    moving,   \* the content and mtime that it moves
    metadata, \* the node and the content of its active revision that the entity
              \* cache of the session has for each name, or NoNode
    serial,   \* the last number given to a content or a node
    wanted,   \* history: the last content written on each side by a user
    late,     \* history: names written while a download replaces them
    outdated, \* history: names with a revision by others that metadata misses
    made, syncFaults

syncVars == <<here, there, copies, clock, step, listing, todo, transfers, item, moving,
              metadata, serial, wanted, late, outdated, made, syncFaults>>
folders == <<here, there, copies, metadata, serial>>
history == <<clock, wanted, late, outdated, made>>
pass == <<step, listing, todo, transfers, item, moving>>

SyncInit ==
    /\ here = [n \in Names |-> Absent] /\ there = [n \in Names |-> Absent]
    /\ copies = [n \in Names |-> {}] /\ clock = 1 /\ serial = 0
    /\ step = "idle" /\ listing = here /\ todo = {} /\ transfers = {} /\ item = NoItem
    /\ moving = Absent
    /\ wanted = [n \in Names |-> [here |-> 0, there |-> 0]] /\ late = {} /\ outdated = {}
    /\ metadata = [n \in Names |-> NoNode]
    /\ made = 0 /\ syncFaults = 0

-----------------------------------------------------------------------------
(* A pass: sync_job. *)

Idle == /\ step' = "idle" /\ listing' = [n \in Names |-> Absent] /\ todo' = {}
        /\ transfers' = {} /\ item' = NoItem /\ moving' = Absent

\* list_children
List ==
    /\ step = "idle"
    /\ step' = "compare" /\ listing' = there /\ todo' = Names
    /\ UNCHANGED <<folders, history, transfers, item, moving, syncFaults>>

\* Mutant of Transfer: a file that is as old as the remote one is uploaded.
MutTransfer(n) ==
    IF here[n].kind = "absent" THEN "download"
    ELSE IF listing[n].kind = "absent" THEN "upload"
    ELSE IF here[n].mtime >= listing[n].mtime THEN "replace remote"
    ELSE "replace local"

\* The transfer for a name that is a file on the sides that have it.
Transfer(n) ==
    IF here[n].kind = "absent" THEN "download"
    ELSE IF listing[n].kind = "absent" THEN "upload"
    ELSE IF here[n].mtime > listing[n].mtime THEN "replace remote"
    ELSE IF listing[n].mtime > here[n].mtime THEN "replace local"
    ELSE "none"

Compared(n) == todo' = todo \ {n} /\ UNCHANGED <<step, listing, item, moving>>

\* plan_tree for one entry: plan its transfer, or make the folder that misses.  A
\* folder the other side has as a file is left alone.
CompareFile(n) ==
    /\ step = "compare" /\ n \in todo
    /\ "folder" \notin {here[n].kind, listing[n].kind}
    /\ {here[n].kind, listing[n].kind} # {"absent"}
    /\ transfers' = transfers \cup (IF Transfer(n) = "none" THEN {}
                          ELSE {[name |-> n, transfer |-> Transfer(n), child |-> listing[n]]})
    /\ Compared(n)
    /\ UNCHANGED <<folders, history, syncFaults>>

CompareFolder(n) ==
    /\ step = "compare" /\ n \in todo
    /\ \/ "folder" \in {here[n].kind, listing[n].kind}
       \/ {here[n].kind, listing[n].kind} = {"absent"}
    /\ \/ /\ here[n] = Folder /\ listing[n] = Absent
          /\ \/ there[n] = Absent /\ there' = [there EXCEPT ![n] = Folder]
                /\ Compared(n) /\ UNCHANGED transfers
             \/ there[n] # Absent /\ Idle /\ UNCHANGED there
          /\ UNCHANGED here
       \/ /\ here[n] = Absent /\ listing[n] = Folder
          /\ here' = [here EXCEPT ![n] = Folder]
          /\ Compared(n) /\ UNCHANGED <<transfers, there>>
       \/ /\ {here[n], listing[n]} # {Folder, Absent}
          /\ Compared(n) /\ UNCHANGED <<transfers, here, there>>
    /\ UNCHANGED <<copies, metadata, serial, history, syncFaults>>

\* Mutant of FirstStep: the local file is replaced without a conflict copy.
MutFirstStep(transfer) ==
    CASE transfer = "upload" -> "read"
      [] transfer = "replace remote" -> "keep remote"
      [] transfer = "replace local" -> "fetch"
      [] transfer = "download" -> "fetch"

FirstStep(transfer) ==
    CASE transfer = "upload" -> "read"
      [] transfer = "replace remote" -> "keep remote"
      [] transfer = "replace local" -> "keep local"
      [] transfer = "download" -> "fetch"

\* run_plan: the next transfer, in whatever order the sizes give; the pass ends
\* when there is none.
RunNext ==
    /\ step = "run" \/ (step = "compare" /\ todo = {})
    /\ \/ \E i \in transfers : /\ item' = i /\ step' = FirstStep(i.transfer)
                          /\ transfers' = transfers \ {i} /\ UNCHANGED <<listing, todo, moving>>
       \/ transfers = {} /\ Idle
    /\ UNCHANGED <<folders, history, syncFaults>>

At(s) == step = s /\ UNCHANGED <<clock, wanted, outdated, made, syncFaults>>
Goto(s) == step' = s /\ UNCHANGED <<listing, todo, transfers, item>>
Finished == step' = "run" /\ item' = NoItem /\ moving' = Absent /\ UNCHANGED <<listing, todo, transfers>>
Name == item.name

\* The node that was listed, as it is now; in the trash it keeps its content.
Child == IF there[Name].kind = "file" /\ there[Name].node = item.child.node
         THEN there[Name] ELSE item.child

\* get_node of download_to_file: the revision that is active, or that was when the
\* node came into the cache.
Active == IF metadata[Name].node = item.child.node THEN metadata[Name].content
          ELSE Child.content
Remember == metadata' = [metadata EXCEPT ![Name] =
                            [node |-> item.child.node, content |-> Active]]

\* copy_conflict_file of the local file, unless it is gone
KeepLocal ==
    /\ At("keep local")
    /\ \/ /\ here[Name].kind = "file"
          /\ copies' = [copies EXCEPT ![Name] = @ \cup {here[Name].content}]
          /\ Goto("fetch") /\ UNCHANGED moving
       \/ here[Name].kind # "file" /\ Idle /\ UNCHANGED copies
    /\ UNCHANGED <<here, there, metadata, serial, late>>

\* The remote file goes to a conflict copy, which copy_conflict_file made of the
\* local file.
KeepRemote ==
    /\ At("keep remote")
    /\ \/ /\ here[Name].kind = "file"
          /\ copies' = [copies EXCEPT ![Name] = @ \cup {Active}]
          /\ Remember
          /\ Goto("read") /\ UNCHANGED moving
       \/ here[Name].kind # "file" /\ Idle /\ UNCHANGED <<copies, metadata>>
    /\ UNCHANGED <<here, there, serial, late>>

\* download_to_file empties the local file, unless it is a folder
Fetch ==
    /\ At("fetch")
    /\ \/ /\ here[Name] # Folder
          /\ moving' = Local(Active, item.child.mtime) /\ Remember
          /\ here' = [here EXCEPT ![Name] = Local(Half, clock)]
          /\ Goto("write")
       \/ here[Name] = Folder /\ Idle /\ UNCHANGED <<here, metadata>>
    /\ UNCHANGED <<there, copies, serial, late>>

\* The file is complete and gets the mtime that was listed, unless that is 0.  A
\* file the user put in its place meanwhile stays, with that mtime.
Write ==
    /\ At("write")
    /\ LET mtime == IF item.child.mtime > 0 THEN item.child.mtime ELSE here[Name].mtime IN
       \/ /\ here[Name].kind = "file"
          /\ here' = [here EXCEPT ![Name] = Local(moving.content, mtime)]
       \/ /\ here[Name].kind = "file" /\ here[Name].content # Half
          /\ here' = [here EXCEPT ![Name].mtime = mtime]
       \/ here[Name].kind # "file" /\ UNCHANGED here
    /\ Finished
    /\ UNCHANGED <<there, copies, metadata, serial, late>>

\* upload_new and upload_revision read the size, the mtime and then the content
Read ==
    /\ At("read")
    /\ \/ here[Name].kind = "file" /\ moving' = here[Name] /\ Goto("commit")
       \/ here[Name].kind # "file" /\ Idle
    /\ UNCHANGED <<folders, late>>

\* The server takes a new file when the name is free, and a new revision on the
\* active one.
Accepted == IF item.transfer = "upload" THEN there[Name] = Absent
            ELSE there[Name] = item.child

\* The new revision has the time of the server, whatever mtime came with it.
Uploaded == /\ \/ there[Name] = Absent /\ serial' = serial + 1
               \/ there[Name] # Absent /\ UNCHANGED serial
            /\ there' = [there EXCEPT ![Name] =
                  Remote(moving.content, clock, IF @ = Absent THEN serial' ELSE @.node)]
            /\ UNCHANGED <<here, copies, metadata>>

Commit ==
    /\ At("commit")
    /\ \/ Accepted /\ Uploaded /\ Finished
       \/ ~Accepted /\ Idle /\ UNCHANGED folders
    /\ UNCHANGED late

\* A request fails, the answer to a commit is lost, or the process ends: the pass
\* stops where it is.
Stop ==
    /\ step # "idle" /\ syncFaults < MaxSyncFaults /\ syncFaults' = syncFaults + 1
    /\ Idle
    /\ UNCHANGED folders \/ (step = "commit" /\ Accepted /\ Uploaded)
    /\ UNCHANGED history

-----------------------------------------------------------------------------
(* The user, other computers and time. *)

Change == made < MaxChanges /\ made' = made + 1

\* The local file of a name is about to be replaced by a download.
Replacing(n) ==
    \/ \E i \in transfers : i.name = n /\ i.transfer = "download"
    \/ item.name = n /\ step \in {"fetch", "write"}

\* A file is written, with the mtime of a clock that may be off, or any it is given.
WriteHere(n, t) ==
    /\ Change /\ here[n] # Folder
    /\ serial' = serial + 1 /\ here' = [here EXCEPT ![n] = Local(serial', t)]
    /\ wanted' = [wanted EXCEPT ![n].here = serial']
    /\ late' = IF Replacing(n) THEN late \cup {n} ELSE late \ {n}
    /\ UNCHANGED <<there, copies, metadata, outdated, clock, pass, syncFaults>>

RemoveHere(n) ==
    /\ Change /\ here[n] # Absent
    /\ here' = [here EXCEPT ![n] = Absent] /\ wanted' = [wanted EXCEPT ![n].here = 0]
    /\ UNCHANGED <<there, copies, metadata, serial, late, outdated, clock, pass, syncFaults>>

WriteThere(n) ==
    /\ Change /\ there[n] # Folder
    /\ serial' = serial + 1
    /\ there' = [there EXCEPT ![n] =
          Remote(serial', clock, IF @ = Absent THEN serial' ELSE @.node)]
    /\ wanted' = [wanted EXCEPT ![n].there = serial']
    /\ outdated' = IF there[n] # Absent /\ metadata[n].node = there[n].node
                   THEN outdated \cup {n} ELSE outdated \ {n}
    /\ UNCHANGED <<here, copies, metadata, clock, late, pass, syncFaults>>

RemoveThere(n) ==
    /\ Change /\ there[n] # Absent
    /\ there' = [there EXCEPT ![n] = Absent] /\ wanted' = [wanted EXCEPT ![n].there = 0]
    /\ UNCHANGED <<here, copies, metadata, serial, late, outdated, clock, pass, syncFaults>>

MakeFolder(n) ==
    /\ Change
    /\ \/ here[n] = Absent /\ here' = [here EXCEPT ![n] = Folder] /\ UNCHANGED there
       \/ there[n] = Absent /\ there' = [there EXCEPT ![n] = Folder] /\ UNCHANGED here
    /\ UNCHANGED <<copies, metadata, serial, wanted, late, outdated, clock, pass, syncFaults>>

Tick == clock < MaxClock /\ clock' = clock + 1
        /\ UNCHANGED <<folders, pass, wanted, late, outdated, made, syncFaults>>

-----------------------------------------------------------------------------
Pass == \/ List \/ RunNext \/ KeepLocal \/ KeepRemote \/ Fetch \/ Write \/ Read \/ Commit
        \/ \E n \in Names : CompareFile(n) \/ CompareFolder(n)

SyncNext ==
    \/ Pass \/ Stop \/ Tick
    \/ \E n \in Names, t \in 0 .. MaxClock + 1 : WriteHere(n, t)
    \/ \E n \in Names : WriteThere(n) \/ RemoveHere(n) \/ RemoveThere(n) \/ MakeFolder(n)

SyncSpec == SyncInit /\ [][SyncNext]_syncVars

-----------------------------------------------------------------------------
SyncTypeOK ==
    /\ \A n \in Names : /\ here[n] \in {Absent, Folder} \/ here[n].content \in 0 .. serial
                        /\ there[n] \in {Absent, Folder} \/ there[n].node \in 1 .. serial
    /\ \A i \in transfers \cup ({item} \ {NoItem}) :
          (i.child.kind = "file") = (i.transfer # "upload")
    /\ step = "idle" => transfers = {} /\ item = NoItem

\* What is left of a name: the two files and the conflict copies.
Kept(n) == copies[n] \cup {f.content : f \in {g \in {here[n], there[n]} : g.kind = "file"}}

(* Safety: the last content the user wrote on this computer, and the last that
   was written on another, are in one of the two folders or in a conflict copy,
   whatever fails between the steps of a pass and whatever changes during it;
   unless the file was written while a download was about to replace it, or
   written by others after the cache of the session took its metadata. *)
NothingIsLost ==
    \A n \in Names : /\ n \in late \/ wanted[n].here \in Kept(n) \cup {0}
                     /\ n \in outdated \/ wanted[n].there \in Kept(n) \cup {0}

(* Safety, the claim of docs/RELEASE.md 40-41: the side that is overwritten is
   preserved.  The conflict copy of a remote file is of the revision that was
   active when the entity cache took the node, which download_to_file never
   asks for again. *)
OverwrittenIsPreserved == \A n \in Names : wanted[n].there \in Kept(n) \cup {0}

(* Safety: the two folders, the copies and the pass that runs agree. *)
BackupIsSound == SyncTypeOK /\ NothingIsLost

Settled(n) == \/ here[n].kind = "file" /\ there[n].kind = "file"
                 /\ here[n].mtime = there[n].mtime
              \/ here[n].kind = "folder" /\ there[n].kind # "absent"
              \/ there[n].kind = "folder" /\ here[n].kind # "absent"
              \/ here[n].kind = "absent" /\ there[n].kind = "absent"

\* In the end no file here is dated after the server's time.
NoneAhead == <>[](\A n \in Names : here[n].kind = "file" => here[n].mtime <= clock)

(* Liveness: the passes come to an end of the transfers: when nothing changes any
   more, each name is on both sides with equal times, and no file goes back and forth
   for ever.  An upload makes the remote file newer than the local one, so the next
   pass downloads it again, and that evens the times.  A file that is dated ahead of
   the server is uploaded again by every pass until that time has come. *)
BackupSettles ==
    NoneAhead => <>[](transfers = {} /\ item = NoItem /\ \A n \in Names : Settled(n))
=============================================================================
