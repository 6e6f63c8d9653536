---------------------------- MODULE ComputerJobs ----------------------------
(***************************************************************************)
(* The backups of this computer (crates/pdcli/src/computers.rs): which      *)
(* computer of the drive it is, and which folders of it are synced, are in  *)
(* a file that every command reads whole, changes and writes whole again,   *)
(* between requests and without a lock.  The computers themselves are       *)
(* devices of the server (device_ops.rs).  What a pass of one job does is   *)
(* the subject of ComputerSync.                                            *)
(*                                                                         *)
(* features says what happens besides: commands run at once ("overlap"),    *)
(* are killed ("kill"), and other computers change the devices             *)
(* ("elsewhere").                                                          *)
(***************************************************************************)
EXTENDS Naturals, FiniteSets

CONSTANTS Procs,         \* terminals
          Paths,         \* folders of this computer; each is synced to a folder of its name
          MaxDevices,    \* bound: devices that are ever made
          MaxCommands,   \* bound: commands, for each of the modes
          MaxFaults,     \* bound: requests that fail, or whose answer is lost
          Modes          \* the sets of features a behaviour may have

VARIABLES
  features,
  devices,   \* the devices of the server, each with its name
  folders,   \* the folders in them
  made,      \* number of devices that were made
  file, tmp, \* computers.json, and the file it is written to first
  proc,      \* what each terminal runs
  wanted,    \* history: jobs that were added, and not removed
  unwanted,  \* history: jobs that were removed, and not added again
  cutOff,    \* history: devices whose removal did not come to its end
  commands, faults, elsewhere

vars == <<features, devices, folders, made, file, tmp, proc, wanted, unwanted, cutOff,
          commands, faults, elsewhere>>

NoDevice == 0
Host == "h"                                   \* hostname()
Missing == [whole |-> FALSE, device |-> NoDevice, jobs |-> {}, there |-> FALSE]
Partial == [Missing EXCEPT !.there = TRUE]
Empty == [whole |-> TRUE, device |-> NoDevice, jobs |-> {}, there |-> TRUE]
Idle == [pc |-> "idle", op |-> "none", path |-> "none", name |-> "none", device |-> NoDevice,
         state |-> Empty, fd |-> "none", adds |-> {}, drops |-> {}]

Init ==
  /\ features \in Modes
  /\ devices = {} /\ folders = {} /\ made = 0 /\ file = Missing /\ tmp = Missing
  /\ proc = [p \in Procs |-> Idle]
  /\ wanted = {} /\ unwanted = {} /\ cutOff = {} /\ commands = 0 /\ faults = 0 /\ elsewhere = 0

-----------------------------------------------------------------------------
(* ComputersState *)

\* load_state: a file that is not there, or cannot be parsed, is an empty state.
LoadState == IF file.whole THEN file ELSE Empty
CanAdd(state, job) == \A j \in state.jobs : j.path # job.path
ForgetDevice(state, d) ==
  [state EXCEPT !.jobs = {j \in @ : j.device # d}, !.device = IF @ = d THEN NoDevice ELSE @]
\* remove_job, by the name of a job or by its path
Named(state, key) == {j \in state.jobs : key \in {j.name, j.path}}

Server == <<devices, folders, made>>
Files == <<file, tmp>>
History == <<wanted, unwanted, cutOff>>
Set(p, r) == proc' = [proc EXCEPT ![p] = r]
Goto(p, pc) == Set(p, [proc[p] EXCEPT !.pc = pc])
At(p, pc) == proc[p].pc = pc /\ UNCHANGED <<features, commands, elsewhere>>
Fault == faults < MaxFaults /\ faults' = faults + 1

\* What is saved, and what it adds or drops.
Save(p, state, adds, drops) ==
  Set(p, [proc[p] EXCEPT !.pc = "truncate", !.state = state, !.adds = adds, !.drops = drops])

-----------------------------------------------------------------------------
(* save_state *)

\* Mutant: the file that is to be replaced is removed first.
MutTruncate(p) ==
  /\ At(p, "truncate") /\ tmp' = Partial /\ file' = Missing
  /\ Set(p, [proc[p] EXCEPT !.pc = "fill", !.fd = "tmp"])
  /\ UNCHANGED <<Server, History, faults>>
Truncate(p) ==
  /\ At(p, "truncate") /\ tmp' = Partial
  /\ Set(p, [proc[p] EXCEPT !.pc = "fill", !.fd = "tmp"])
  /\ UNCHANGED <<Server, file, History, faults>>

\* What another process wrote to the same file meanwhile is overwritten, or mixed up
\* with what is written now.
Written(old, new) == IF old = Partial THEN {new} ELSE {new, Partial}
Fill(p) ==
  /\ At(p, "fill") /\ UNCHANGED <<Server, History, faults>> /\ Goto(p, "rename")
  /\ \/ proc[p].fd = "tmp" /\ tmp' \in Written(tmp, proc[p].state) /\ UNCHANGED file
     \/ proc[p].fd = "file" /\ file' \in Written(file, proc[p].state) /\ UNCHANGED tmp
     \/ proc[p].fd = "gone" /\ UNCHANGED Files

\* What others have open moves with the name.
Moved(fd) == CASE fd = "tmp" -> "file" [] fd = "file" -> "gone" [] OTHER -> fd
\* After the registration that comes first, sync goes on with the folder.
Rename(p) ==
  /\ At(p, "rename") /\ UNCHANGED <<Server, cutOff, faults>>
  /\ IF ~tmp.there THEN Set(p, Idle) /\ UNCHANGED <<Files, wanted, unwanted>>
     ELSE /\ file' = tmp /\ tmp' = Missing
          /\ LET registers == proc[p].op = "sync" /\ proc[p].adds = {}
                 mine == IF registers THEN [proc[p] EXCEPT !.pc = "folder"] ELSE Idle
             IN  proc' = [q \in Procs |-> IF q = p THEN mine ELSE [proc[q] EXCEPT !.fd = Moved(@)]]
          /\ wanted' = (wanted \cup proc[p].adds) \ proc[p].drops
          /\ unwanted' = (unwanted \cup proc[p].drops) \ proc[p].adds

-----------------------------------------------------------------------------
(* The commands. *)

Free(p) == /\ proc[p].pc = "idle" /\ commands < MaxCommands[features] /\ commands' = commands + 1
           /\ "overlap" \in features \/ \A q \in Procs : proc[q].pc = "idle"
           /\ UNCHANGED <<features, Server, Files, History, faults, elsewhere>>
\* `register', also with the id of a device to bind to; `sync'; `restore'; `remove'; `unsync'
Begin(p) ==
  /\ Free(p)
  /\ \/ \E d \in 0..made : Set(p, [Idle EXCEPT !.pc = "load", !.op = "register", !.device = d])
     \/ \E f \in Paths : Set(p, [Idle EXCEPT !.pc = "load", !.op = "sync", !.path = f, !.name = f])
     \/ \E f, n \in Paths : Set(p, [Idle EXCEPT !.pc = "find", !.op = "restore", !.path = f, !.name = n])
     \/ Set(p, [Idle EXCEPT !.pc = "find", !.op = "remove"])
     \/ \E f \in Paths : Set(p, [Idle EXCEPT !.pc = "unsync", !.op = "unsync", !.path = f])

\* A request fails, and the command with it.
Fails(p) == /\ Fault /\ proc[p].pc \in {"list", "create", "folder", "find", "delete"}
            /\ Set(p, Idle) /\ UNCHANGED <<features, Server, Files, History, commands, elsewhere>>

\* register: the state is loaded, then the devices are listed.
RegisterLoad(p) ==
  /\ At(p, "load") /\ Set(p, [proc[p] EXCEPT !.pc = "list", !.state = LoadState])
  /\ UNCHANGED <<Server, Files, History, faults>>
\* Mutant: a device that has the name of this computer is not its own.
MutOurs(state) == {d \in devices : d.id = state.device}
\* The device it was, or else those that have its name.
Ours(state) == LET own == {d \in devices : d.id = state.device}
               IN  IF own # {} THEN own ELSE {d \in devices : d.name = Host}
RegisterList(p) ==
  /\ At(p, "list") /\ UNCHANGED <<Server, Files, History, faults>>
  /\ LET bind == proc[p].device
         found == IF bind # NoDevice THEN {d \in devices : d.id = bind} ELSE Ours(proc[p].state)
     IN  \/ \E d \in found :
              proc' = [proc EXCEPT ![p] = [@ EXCEPT !.pc = "truncate", !.device = d.id,
                                                    !.state = [@ EXCEPT !.device = d.id]]]
         \/ found = {} /\ bind # NoDevice /\ Set(p, Idle)
         \/ found = {} /\ bind = NoDevice /\ Goto(p, "create")
\* create_device; its answer may be lost.
CreateDevice(p) ==
  /\ At(p, "create") /\ made < MaxDevices /\ made' = made + 1
  /\ devices' = devices \cup {[id |-> made + 1, name |-> Host]}
  /\ \/ /\ UNCHANGED faults
        /\ Set(p, [proc[p] EXCEPT !.pc = "truncate", !.device = made + 1,
                                  !.state = [@ EXCEPT !.device = made + 1]])
     \/ Fault /\ Set(p, Idle)
  /\ UNCHANGED <<folders, Files, History>>

Exists(d) == \E e \in devices : e.id = d
Remote(p) == [device |-> proc[p].device, name |-> proc[p].name]
\* ensure_child_folder makes the folder; resolve_remote_folder does not.
Folder(p) ==
  /\ At(p, "folder") /\ UNCHANGED <<devices, made, Files, History, faults>>
  /\ LET there == Exists(proc[p].device) /\ Remote(p) \in folders
         makes == proc[p].op = "sync" /\ Exists(proc[p].device)
     IN  /\ folders' = IF makes THEN folders \cup {Remote(p)} ELSE folders
         /\ Set(p, IF there \/ makes THEN [proc[p] EXCEPT !.pc = "add"] ELSE Idle)
\* The state is loaded again, and gets the job.
AddJob(p) ==
  /\ At(p, "add") /\ UNCHANGED <<Server, Files, History, faults>>
  /\ LET job == [path |-> proc[p].path, name |-> proc[p].name, device |-> proc[p].device]
     IN  IF CanAdd(LoadState, job)
         THEN Save(p, [LoadState EXCEPT !.jobs = @ \cup {job}], {job}, {}) ELSE Set(p, Idle)

\* find_device, by its id or its name; there may be none, or several of the name
FindDevice(p) ==
  /\ At(p, "find") /\ UNCHANGED <<Server, Files, History, faults>>
  /\ \/ (devices = {} \/ \E d, e \in devices : d # e /\ d.name = e.name) /\ Set(p, Idle)
     \/ \E d \in devices : Set(p, [proc[p] EXCEPT !.device = d.id,
                              !.pc = IF proc[p].op = "restore" THEN "folder" ELSE "delete"])
\* remove: the device is deleted, with its folders; then its jobs are forgotten.
DeleteDevice(p) ==
  /\ At(p, "delete") /\ UNCHANGED <<made, Files, wanted, unwanted>>
  /\ devices' = {d \in devices : d.id # proc[p].device}
  /\ folders' = {f \in folders : f.device # proc[p].device}
  /\ \/ Goto(p, "forget") /\ UNCHANGED <<faults, cutOff>>
     \/ Fault /\ Set(p, Idle) /\ cutOff' = cutOff \cup {proc[p].device}
Forget(p) ==
  /\ At(p, "forget") /\ UNCHANGED <<Server, Files, History, faults>>
  /\ LET state == ForgetDevice(LoadState, proc[p].device)
     IN  Save(p, state, {}, LoadState.jobs \ state.jobs)

Unsync(p) ==
  /\ At(p, "unsync") /\ UNCHANGED <<Server, Files, History, faults>>
  /\ LET drops == Named(LoadState, proc[p].path) IN
     IF drops = {} THEN Set(p, Idle)
     ELSE Save(p, [LoadState EXCEPT !.jobs = @ \ drops], {}, drops)

Kill(p) ==
  /\ "kill" \in features /\ proc[p].pc # "idle" /\ Set(p, Idle)
  /\ cutOff' = IF proc[p].op = "remove" THEN cutOff \cup {proc[p].device} ELSE cutOff
  \* what it would have added or dropped is as the file says
  /\ wanted' = wanted \ proc[p].drops /\ unwanted' = unwanted \ proc[p].adds
  /\ UNCHANGED <<features, Server, Files, commands, faults, elsewhere>>

\* Other computers register, under any name, rename and remove devices.
Elsewhere ==
  /\ "elsewhere" \in features /\ elsewhere = 0 /\ elsewhere' = 1
  /\ UNCHANGED <<features, Files, proc, History, commands, faults>>
  /\ \/ /\ made < MaxDevices /\ made' = made + 1 /\ UNCHANGED folders
        /\ \E n \in {Host, "other"} : devices' = devices \cup {[id |-> made + 1, name |-> n]}
     \/ \E d \in devices : devices' = (devices \ {d}) \cup {[d EXCEPT !.name = "other"]}
                           /\ UNCHANGED <<folders, made>>
     \/ \E d \in devices : /\ devices' = devices \ {d} /\ UNCHANGED made
                           /\ folders' = {f \in folders : f.device # d.id}

Next ==
  \/ \E p \in Procs :
        \/ Begin(p) \/ Fails(p) \/ RegisterLoad(p) \/ RegisterList(p) \/ CreateDevice(p) \/ Folder(p)
        \/ AddJob(p) \/ FindDevice(p) \/ DeleteDevice(p) \/ Forget(p) \/ Unsync(p)
        \/ Truncate(p) \/ Fill(p) \/ Rename(p) \/ Kill(p)
  \/ Elsewhere
Spec == Init /\ [][Next]_vars

-----------------------------------------------------------------------------
Quiet == \A p \in Procs : proc[p].pc = "idle"

(* A folder is synced by one job at most (add_job): a second one would send its files
   to two places. *)
OneJobPerPath == \A i, j \in file.jobs : i.path = j.path => i = j

(* Unless commands overlap, every job the user was told is there is there, and none the
   user was told is gone; also when commands are killed at any step. *)
JobsAreKept == Quiet /\ "overlap" \notin features =>
                 wanted \subseteq file.jobs /\ file.jobs \cap unwanted = {}

(* However often registering fails half-way, this computer is one computer of the drive. *)
OneComputer == features \cap {"overlap", "elsewhere"} = {} =>
                 Cardinality({d \in devices : d.name = Host}) <= 1

(* The file names devices, and folders in them, that exist, but for devices whose removal
   did not come to its end. *)
NothingDangles == Quiet /\ features \cap {"overlap", "elsewhere"} = {} =>
  /\ file.device \in {d.id : d \in devices} \cup cutOff \cup {NoDevice}
  /\ \A j \in file.jobs : [device |-> j.device, name |-> j.name] \in folders \/ j.device \in cutOff

(* Safety *)
JobsAreSound == OneJobPerPath /\ JobsAreKept /\ OneComputer /\ NothingDangles
=============================================================================
