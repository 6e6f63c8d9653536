------------------------------ MODULE FuseLocks ------------------------------
(***************************************************************************)
(* The locks of the mount (crates/pdcli/src/fs.rs).  The kernel's requests *)
(* are served by FUSE_REQUEST_THREADS threads at once (fs.rs:33), which     *)
(* share the database mutex `db`, the open-file table `open_files` (an      *)
(* RwLock) and one mutex per open file.                                     *)
(*                                                                         *)
(* A handler is abstracted to the script of locks it takes and gives back, *)
(* in the order of the source: guards are dropped at the end of their       *)
(* block, the last declared first.  What the handlers compute in between is *)
(* the subject of the other modules.                                        *)
(***************************************************************************)
EXTENDS Naturals, Sequences

CONSTANTS Threads,       \* the threads serving kernel requests
          Handles,       \* the file handles alloc_fh hands out
          Requests,      \* the kinds of request the kernel sends
          MaxRequests    \* bound: requests the threads serve together

Kinds == {"metadata", "open", "create", "read", "write", "flush", "release",
          "freeUp"}

VARIABLES request,     \* the request each thread serves, "none" when idle
          at,          \* the step of its script it is at
          served,      \* how many requests were begun
          owner,       \* who holds each mutex, or the table for writing
          readers,     \* who holds the table for reading
          table,       \* the handles in open_files
          kernelOpen,  \* the handles the kernel may still use
          using,       \* the handle a thread's request is about, or is scanning
          scanned      \* the handles its scan of the table has locked

vars == <<request, at, served, owner, readers, table, kernelOpen, using, scanned>>

Nobody == "nobody"
Mutexes == Handles \cup {"db", "table"}

ASSUME LocksAssumption ==
    /\ Requests \subseteq Kinds
    /\ MaxRequests \in Nat \ {0}
    /\ Handles \cap {"db", "table"} = {}
    /\ Nobody \notin Threads \cup Handles

-----------------------------------------------------------------------------
(* The scripts.  A step is <<verb, object>>. *)

Take(l) == <<"lock", l>>
Give(l) == <<"unlock", l>>
TakeRead == <<"read", "table">>
GiveRead == <<"unread", "table">>

\* getattr, lookup, readdir, unlink, rename: one critical section of the database.
Metadata == <<Take("db"), Give("db")>>
\* open reads the row, prepares the content with no lock held, then stores the
\* cached path and inserts the handle.
Open(h) == <<Take("db"), Give("db"), Take("db"), Give("db"),
             Take("table"), <<"insert", h>>, Give("table")>>
\* Mutant of Create: without the drop(db) of fs.rs:1668.
MutCreate(h) == <<Take("db"), Take("table"), <<"insert", h>>, Give("table"), Give("db")>>

\* create drops the database guard before it inserts the handle.
Create(h) == <<Take("db"), Give("db"), Take("table"), <<"insert", h>>, Give("table")>>
Read(h) == <<TakeRead, Take(h), Give(h), GiveRead>>
Write(h) == <<TakeRead, Take(h), Take("db"), Give("db"), Give(h), GiveRead>>
Flush(h) == <<TakeRead, Take(h), Give(h), GiveRead>>

\* release removes the handle, rereads the row, and queues the upload.
Release(h) == <<Take("table"), <<"remove", h>>, Give("table"),
                Take("db"), Give("db"), Take("db"), Give("db"), Take("db"), Give("db")>>
\* setxattr reads the row; free_up_space holds the database while it looks
\* through the table for an open handle of the file, one handle after the other.
FreeUp(h) == <<Take("db"), Give("db"), Take("db"), TakeRead,
               <<"scan", "table">>, Take(h), Give(h), GiveRead, Give("db")>>

Script(r, h) == IF r = "metadata"     THEN Metadata
                ELSE IF r = "open"    THEN Open(h)
                ELSE IF r = "create"  THEN Create(h)
                ELSE IF r = "read"    THEN Read(h)
                ELSE IF r = "write"   THEN Write(h)
                ELSE IF r = "flush"   THEN Flush(h)
                ELSE IF r = "release" THEN Release(h)
                ELSE IF r = "freeUp"  THEN FreeUp(h)
                ELSE <<>>

-----------------------------------------------------------------------------
Init == /\ request = [t \in Threads |-> "none"]
        /\ at = [t \in Threads |-> 1]
        /\ served = 0
        /\ owner = [l \in Mutexes |-> Nobody]
        /\ readers = {}
        /\ table = {}
        /\ kernelOpen = {}
        /\ using = [t \in Threads |-> Nobody]
        /\ scanned = [t \in Threads |-> {}]

Busy(h) == \E t \in Threads : using[t] = h /\ request[t] # "freeUp"

\* Handles a request of kind r may name: a new one for open and create, an
\* open one for the others, and for release one no other request uses.
Candidates(r) ==
    {h \in Handles \cup {Nobody} :
        \/ r \in {"metadata", "freeUp"} /\ h = Nobody
        \/ r \in {"open", "create"} /\ h \in Handles \ (kernelOpen \cup table) /\ ~Busy(h)
        \/ r = "release" /\ h \in kernelOpen /\ ~Busy(h)
        \/ r \in {"read", "write", "flush"} /\ h \in kernelOpen}

Begin(t, r, h) ==
    /\ request[t] = "none"
    /\ served < MaxRequests
    /\ h \in Candidates(r)
    /\ request' = [request EXCEPT ![t] = r]
    /\ using' = [using EXCEPT ![t] = h]
    /\ served' = served + 1
    /\ kernelOpen' = IF r = "release" THEN kernelOpen \ {h} ELSE kernelOpen
    /\ UNCHANGED <<at, owner, readers, table, scanned>>

Steps(t) == Script(request[t], using[t])
Next1(t) == Steps(t)[at[t]]               \* the lock operation t is at
At(t, verb) == at[t] \in 1..Len(Steps(t)) /\ Next1(t)[1] = verb
Goto(t, n) == at' = [at EXCEPT ![t] = n]

\* Mutant of Lock: a file is locked with the table for oneself.
MutLock(t) == LET l == Next1(t)[2] IN
    /\ At(t, "lock")
    /\ owner[l] = Nobody
    /\ l # "db" => readers = {}
    /\ owner' = [owner EXCEPT ![l] = t]
    /\ Goto(t, at[t] + 1)
    /\ UNCHANGED <<request, served, readers, table, kernelOpen, using, scanned>>

\* Mutex::lock, and RwLock::write on the table.
Lock(t) == LET l == Next1(t)[2] IN
    /\ At(t, "lock")
    /\ owner[l] = Nobody
    /\ l = "table" => readers = {}
    /\ owner' = [owner EXCEPT ![l] = t]
    /\ Goto(t, at[t] + 1)
    /\ UNCHANGED <<request, served, readers, table, kernelOpen, using, scanned>>

\* After a file it looked into, free_up_space goes on with its scan.
Unlock(t) ==
    /\ At(t, "unlock")
    /\ owner' = [owner EXCEPT ![Next1(t)[2]] = Nobody]
    /\ Goto(t, IF request[t] = "freeUp" /\ Next1(t)[2] # "db" THEN at[t] - 2 ELSE at[t] + 1)
    /\ UNCHANGED <<request, served, readers, table, kernelOpen, using, scanned>>

WaitsToWriteTable(t) == At(t, "lock") /\ Next1(t)[2] = "table"

\* RwLock::read.  The lock of the Linux standard library admits no new reader
\* while a writer waits.
ReadTable(t) ==
    /\ At(t, "read")
    /\ owner["table"] = Nobody
    /\ \A w \in Threads : ~WaitsToWriteTable(w)
    /\ readers' = readers \cup {t}
    /\ Goto(t, at[t] + 1)
    /\ UNCHANGED <<request, served, owner, table, kernelOpen, using, scanned>>

UnreadTable(t) ==
    /\ At(t, "unread")
    /\ readers' = readers \ {t}
    /\ Goto(t, at[t] + 1)
    /\ UNCHANGED <<request, served, owner, table, kernelOpen, using, scanned>>

\* values().any(|file| file.lock().unwrap().ino == row.ino): the handles are
\* locked one after the other, up to the first that is open on the file.
ScanTable(t) ==
    /\ At(t, "scan")
    /\ \/ \E h \in table \ scanned[t] :
             /\ using' = [using EXCEPT ![t] = h]
             /\ scanned' = [scanned EXCEPT ![t] = @ \cup {h}]
             /\ Goto(t, at[t] + 1)
       \/ /\ scanned[t] # {} \/ table = {}
          /\ using' = [using EXCEPT ![t] = Nobody]
          /\ scanned' = [scanned EXCEPT ![t] = {}]
          /\ Goto(t, at[t] + 3)
    /\ UNCHANGED <<request, served, owner, readers, table, kernelOpen>>

EditTable(t) ==
    /\ \/ At(t, "insert") /\ table' = table \cup {Next1(t)[2]}
       \/ At(t, "remove") /\ table' = table \ {Next1(t)[2]}
    /\ Goto(t, at[t] + 1)
    /\ UNCHANGED <<request, served, owner, readers, kernelOpen, using, scanned>>

\* The reply; open and create give the kernel its handle.
Reply(t) ==
    /\ request[t] # "none" /\ at[t] > Len(Steps(t))
    /\ kernelOpen' = IF request[t] \in {"open", "create"}
                     THEN kernelOpen \cup {using[t]} ELSE kernelOpen
    /\ request' = [request EXCEPT ![t] = "none"]
    /\ using' = [using EXCEPT ![t] = Nobody]
    /\ Goto(t, 1)
    /\ UNCHANGED <<served, owner, readers, table, scanned>>

Step(t) == \/ Lock(t)
           \/ Unlock(t)
           \/ ReadTable(t)
           \/ UnreadTable(t)
           \/ ScanTable(t)
           \/ EditTable(t)
           \/ Reply(t)

Next == \E t \in Threads :
           \/ \E r \in Requests : \E h \in Handles \cup {Nobody} : Begin(t, r, h)
           \/ Step(t)

Spec == Init /\ [][Next]_vars

\* Threads that can go on do: they are operating-system threads.  That one of them does
\* is enough, as each step shortens what its request has to do.
FairSpec == Spec /\ WF_vars(\E t \in Threads : Step(t))

-----------------------------------------------------------------------------
TypeOK ==
    /\ request \in [Threads -> Kinds \cup {"none"}]
    /\ at \in [Threads -> Nat]
    /\ served \in 0..MaxRequests
    /\ owner \in [Mutexes -> Threads \cup {Nobody}]
    /\ readers \subseteq Threads
    /\ table \subseteq Handles
    /\ kernelOpen \subseteq Handles
    /\ using \in [Threads -> Handles \cup {Nobody}]
    /\ scanned \in [Threads -> SUBSET Handles]
    /\ \A t \in Threads : at[t] \in 1..(Len(Steps(t)) + 1)

\* The threads t cannot go on without.
Blockers(t) ==
    {w \in Threads :
        \/ At(t, "lock") /\ owner[Next1(t)[2]] = w
        \/ WaitsToWriteTable(t) /\ w \in readers
        \/ At(t, "read") /\ (owner["table"] = w \/ WaitsToWriteTable(w))}

\* Everyone in S waits for someone in S: none of them ever replies.
Stuck(S) == S # {} /\ \A t \in S : Blockers(t) \cap S # {}

(* Safety: requests never wait for each other in a circle, so metadata and
   directory requests keep flowing (the claim of fs.rs:31). *)
NoDeadlock == \A S \in SUBSET Threads : ~Stuck(S)

(* Safety: the only circles there are run through free_up_space, which takes
   the table and the files under the database lock, and a write, which takes
   the database lock under the table and the file. *)
DeadlockNeedsFreeUp ==
    \A S \in SUBSET Threads : Stuck(S) =>
        /\ \E t \in S : request[t] = "freeUp"
        /\ \E t \in S : request[t] = "write"

(* Safety: a handle the kernel may use is in the table, so that write, read
   and flush find it; one the kernel has given back leaves the table before
   its release is answered. *)
KernelHandlesAreOpen ==
    /\ kernelOpen \subseteq table
    /\ \A h \in table \ kernelOpen :
          \E t \in Threads : /\ using[t] = h
                             /\ request[t] \in {"open", "create", "release"}

(* Safety: the table and the kernel agree in every state of the locks, and only
   one kind of circle forms. *)
LocksAreSound == TypeOK /\ KernelHandlesAreOpen /\ DeadlockNeedsFreeUp

(* Liveness: the requests that are being served are all answered in the end, unless a
   circle through free_up_space has formed. *)
Idle == \A t \in Threads : request[t] = "none"
EveryRequestAnswered ==
    ~Idle ~> (Idle \/ \E S \in SUBSET Threads : Stuck(S) /\ \E t \in S : request[t] = "freeUp")
=============================================================================
