---------------------------- MODULE NamespaceSync ---------------------------
(***************************************************************************)
(* The folder tree of the mount: pdcli/src/fs.rs keeps a row per inode in  *)
(* the database, writes the user's changes to the journal, replays the     *)
(* journal on the server, lists folders (populate_folder_children) and     *)
(* follows the event stream (event_poll_loop).                             *)
(*                                                                         *)
(* Only folders, their names and places are modelled; FileSync models      *)
(* contents and JournalQueue the rows of the journal.  Inode 0 is My Files, *)
(* and node 0 is its node on the server.                                   *)
(***************************************************************************)
EXTENDS Integers, Sequences, FiniteSets, SequencesExt, FiniteSetsExt

CONSTANTS Names,     \* the names entries can have
          MaxIno,    \* bound: inode numbers handed out
          MaxUid,    \* bound: nodes created on the server
          MaxLocal,  \* bound: changes the user makes through the mount, in each mode
          MaxRemote, \* bound: changes other clients make
          MaxTries,  \* bound standing for MAX_JOURNAL_RETRIES
          First,     \* the nodes the server starts with
          Modes      \* what may happen together: sets of AllFeatures

AllFeatures == {"early", "slowcreate", "slowlist", "overwrite", "movename", "offline",
                "impatient", "remote", "gone", "failing"}

VARIABLES
    features,   \* what may happen in this behaviour, one of Modes
    rows,       \* rows[i]: the row of inode i, or Gone
    populated,  \* inodes whose children_populated is set
    nextIno,
    nodes,      \* nodes[u]: the server's node, or Gone when there is none or it is in the trash
    nextUid,
    journal,    \* the pending entries
    nextEntry,
    pass,       \* what journal_flush_loop has loaded and not begun
    work,       \* the entry being processed
    failed,     \* history: the inode and uid of entries an attempt of which failed
    events,     \* the server's events not yet polled
    listing,    \* listing[i]: the populate task of folder i
    localOps, remoteOps

local == <<rows, populated, nextIno>>
server == <<nodes, nextUid, events>>
flush == <<journal, nextEntry, pass, work, failed>>
vars == <<features, rows, populated, nextIno, nodes, nextUid, journal, nextEntry, pass,
          work, failed, events, listing, localOps, remoteOps>>

Inos == 1 .. MaxIno
Uids == 1 .. MaxUid
NoUid == -1
Gone == [parent |-> -1, name |-> "", uid |-> -1]
NoNode == [parent |-> -1, name |-> ""]
NoWork == [pc |-> "idle"]
NoListing == [pc |-> "none"]

Exists(i) == i = 0 \/ (i \in Inos /\ rows[i] # Gone)
UidOf(i) == IF i = 0 THEN 0 ELSE IF Exists(i) THEN rows[i].uid ELSE NoUid
RowsOf(u) == {i \in Inos : rows[i] # Gone /\ rows[i].uid = u /\ u # NoUid}
InoOf(u) == IF u = 0 THEN {0} ELSE RowsOf(u)
ChildRows(i) == {j \in Inos : rows[j] # Gone /\ rows[j].parent = i}
\* lookup_child: of rows with one name (a created folder whose reply is late may
\* be listed under a second row) the oldest is found
LookupChild(i, n) ==
    {j \in ChildRows(i) : rows[j].name = n /\ \A k \in ChildRows(i) : rows[k].name = n => j <= k}
Reached(i) == i \in Inos /\ Exists(i) /\ i \in LookupChild(rows[i].parent, rows[i].name)
HasPending(i) == \E e \in journal : e.ino = i

\* the row is read, then the folder is created: unless "slowcreate", nothing
\* happens to the row in between
InCreation(i) == "slowcreate" \notin features /\ work # NoWork /\ work.entry.ino = i

Live(u) == u = 0 \/ (u \in Uids /\ nodes[u] # NoNode)
ChildNodes(u) == {v \in Uids : nodes[v] # NoNode /\ nodes[v].parent = u}
NameTaken(u, n, v) == \E w \in ChildNodes(u) \ {v} : nodes[w].name = n

\* what is below x in a tree, x included
Below(x, children(_)) ==
    LET level[k \in 0 .. MaxIno + MaxUid] ==
          IF k = 0 THEN {x}
          ELSE LET above == level[k - 1] IN above \union UNION {children(y) : y \in above}
    IN  level[IF MaxIno > MaxUid THEN MaxIno ELSE MaxUid]

Init ==
    /\ features \in Modes
    /\ rows = [i \in Inos |-> Gone] /\ populated = {} /\ nextIno = 1
    /\ nodes = [u \in Uids |-> IF u \in DOMAIN First THEN First[u] ELSE NoNode]
    /\ nextUid = Cardinality(DOMAIN First) + 1
    /\ journal = {} /\ nextEntry = 1 /\ pass = <<>> /\ work = NoWork
    /\ failed = {} /\ events = <<>>
    /\ listing = [i \in 0 .. MaxIno |-> NoListing]
    /\ localOps = 0 /\ remoteOps = 0

-----------------------------------------------------------------------------
(* FUSE requests: each holds the database lock from lookup to journal *)

Enqueue(es) ==
    /\ journal' = journal \union
         {[id |-> nextEntry + k - 1, tries |-> 0, kind |-> es[k].kind, ino |-> es[k].ino,
           uid |-> es[k].uid, to |-> es[k].to, name |-> es[k].name] : k \in DOMAIN es}
    /\ nextEntry' = nextEntry + Len(es)

Op(kind, i, u, to, n) == [kind |-> kind, ino |-> i, uid |-> u, to |-> to, name |-> n]
DeleteOp(i) == IF UidOf(i) = NoUid THEN <<>> ELSE <<Op("delete", i, UidOf(i), NoUid, "")>>

\* a lookup in a folder that was never listed waits for its listing
Listed(i) == i \in populated \/ ChildRows(i) # {} \/ UidOf(i) = NoUid

UserMay == localOps < MaxLocal[features]
UserActs ==
    /\ localOps' = localOps + 1
    /\ UNCHANGED <<features, server, pass, work, failed, listing, remoteOps>>

\* mkdir; create does the same and opens the file
Mkdir(p, n) ==
    /\ UserMay /\ Exists(p) /\ Listed(p) /\ LookupChild(p, n) = {} /\ nextIno \in Inos
    /\ rows' = [rows EXCEPT ![nextIno] = [parent |-> p, name |-> n, uid |-> NoUid]]
    /\ nextIno' = nextIno + 1
    /\ Enqueue(<<Op("create", nextIno, NoUid, NoUid, "")>>)
    /\ UNCHANGED populated
    /\ UserActs

\* Mutant: the test for emptiness does not wait for the listing
MutRmdirAtOnce(i) ==
    /\ UserMay /\ Reached(i) /\ ChildRows(i) = {} /\ ~InCreation(i)
    /\ rows' = [rows EXCEPT ![i] = Gone]
    /\ Enqueue(DeleteOp(i))
    /\ UNCHANGED <<features, populated, nextIno>>
    /\ UserActs

\* rmdir lists the folder before it tests that it is empty ("impatient": the
\* listing fails or takes more than wait_until_populated waits)
Rmdir(i) ==
    /\ UserMay /\ Reached(i) /\ ChildRows(i) = {} /\ ~InCreation(i)
    /\ i \in populated \/ UidOf(i) = NoUid \/ "impatient" \in features
    /\ rows' = [rows EXCEPT ![i] = Gone]
    /\ Enqueue(DeleteOp(i))
    /\ UNCHANGED <<features, populated, nextIno>>
    /\ UserActs

\* rename removes what it overwrites, and remembers the uid the new parent
\* has now ("early": it may have none; "overwrite": an old folder that was
\* not listed counts as empty; "movename": place and name change at once)
Rename(i, p, n) ==
    LET old == LookupChild(p, n) IN
    /\ UserMay /\ Reached(i) /\ Exists(p) /\ Listed(p) /\ i \notin old
    /\ p = rows[i].parent \/ p \notin Below(i, ChildRows)
    /\ ~\E j \in old \union {i} : InCreation(j)
    /\ \A j \in old : /\ ChildRows(j) = {}
                      /\ "overwrite" \notin features => j \in populated \/ UidOf(j) = NoUid
    /\ "early" \notin features => UidOf(p) # NoUid
    /\ "movename" \notin features => rows[i].parent = p \/ rows[i].name = n
    /\ rows' = [j \in Inos |-> IF j \in old THEN Gone
                               ELSE IF j = i THEN [rows[i] EXCEPT !.parent = p, !.name = n]
                               ELSE rows[j]]
    /\ Enqueue((IF old = {} THEN <<>> ELSE DeleteOp(CHOOSE j \in old : TRUE))
               \o (IF UidOf(i) = NoUid THEN <<>>
                   ELSE IF rows[i].parent = p THEN <<Op("rename", i, UidOf(i), NoUid, n)>>
                   ELSE <<Op("move", i, UidOf(i), UidOf(p), n)>>))
    /\ UNCHANGED <<features, populated, nextIno>>
    /\ UserActs

-----------------------------------------------------------------------------
(* The server: a name is used once in a folder, and every change is an event *)

Event(kind, u, p) == [kind |-> kind, uid |-> u, parent |-> p]

CanCreate(p, n) == Live(p) /\ ~NameTaken(p, n, 0) /\ nextUid \in Uids
CanPut(u, p, n) ==
    /\ u \in Uids /\ Live(u) /\ Live(p) /\ ~NameTaken(p, n, u)
    /\ p \notin Below(u, ChildNodes)

Trash(u) == [v \in Uids |-> IF v \in Below(u, ChildNodes) THEN NoNode ELSE nodes[v]]

\* another client renames or moves a node, or puts one in the trash
RemotePut(u, p, n) ==
    /\ "remote" \in features /\ remoteOps < MaxRemote
    /\ CanPut(u, p, n) /\ nodes[u] # [parent |-> p, name |-> n]
    /\ nodes' = [nodes EXCEPT ![u] = [parent |-> p, name |-> n]]
    /\ events' = Append(events, Event("update", u, p))
    /\ remoteOps' = remoteOps + 1
    /\ UNCHANGED <<features, local, nextUid, flush, listing, localOps>>

RemoteTrash(u) ==
    /\ "gone" \in features /\ remoteOps < MaxRemote
    /\ u \in Uids /\ Live(u)
    /\ nodes' = Trash(u)
    /\ events' = Append(events, Event("delete", u, nodes[u].parent))
    /\ remoteOps' = remoteOps + 1
    /\ UNCHANGED <<features, local, nextUid, flush, listing, localOps>>

-----------------------------------------------------------------------------
(* journal_flush_loop *)

\* the entries with the fewest retries (the pass takes 20, more than are queued here)
FewestTries == {e \in journal : \A f \in journal : e.tries <= f.tries}

\* Mutant: the newest change is replayed first
MutLoad ==
    /\ work = NoWork /\ pass = <<>> /\ journal # {}
    /\ pass' = SetToSortSeq(FewestTries, LAMBDA a, b : a.id > b.id)
    /\ UNCHANGED <<features, local, server, journal, nextEntry, work, failed, listing, localOps, remoteOps>>

Load ==
    /\ work = NoWork /\ pass = <<>> /\ journal # {}
    /\ pass' = SetToSortSeq(FewestTries, LAMBDA a, b : a.id < b.id)
    /\ UNCHANGED <<features, local, server, journal, nextEntry, work, failed, listing, localOps, remoteOps>>

\* apply_journal_result: an entry is done, or tried again in a later pass until
\* MaxTries, while this pass goes on with what comes after it
Done(e) == journal' = journal \ {e} /\ UNCHANGED failed
Failed(e) ==
    /\ journal' = (journal \ {e}) \union
                   (IF e.tries + 1 < MaxTries THEN {[e EXCEPT !.tries = @ + 1]} ELSE {})
    /\ failed' = failed \union {[ino |-> e.ino, uid |-> e.uid]}

\* what a call that the server did, or refused, is taken for: "failing" loses answers
Answered(e, ok) ==
    \/ ok /\ Done(e)
    \/ (~ok \/ "failing" \in features) /\ Failed(e)

\* "failing": the request does not reach the server
CallFails ==
    /\ "failing" \in features /\ work.pc = "call"
    /\ Failed(work.entry) /\ work' = NoWork
    /\ UNCHANGED <<features, local, server, nextEntry, pass, listing, localOps, remoteOps>>

\* entries whose row has gone, or whose row was created already, need no call
Needless(e) ==
    \/ e.kind = "create" /\ (~Exists(e.ino) \/ UidOf(e.ino) # NoUid)
    \/ e.kind \in {"rename", "move"} /\ ~Exists(e.ino)

\* what the payload or the row lacks: a parent's uid
Unresolved(e) ==
    \/ e.kind = "create" /\ UidOf(rows[e.ino].parent) = NoUid
    \/ e.kind = "move" /\ e.to = NoUid

Begin ==
    /\ work = NoWork /\ pass # <<>>
    /\ LET e == Head(pass) IN
         \/ /\ Needless(e) /\ Done(e) /\ UNCHANGED work
         \/ /\ ~Needless(e) /\ Unresolved(e) /\ Failed(e) /\ UNCHANGED work
         \/ /\ ~Needless(e) /\ ~Unresolved(e)
            /\ work' = [pc |-> "call", entry |-> e,
                        parent |-> IF e.kind = "create" THEN UidOf(rows[e.ino].parent) ELSE e.to,
                        name |-> IF e.kind = "create" THEN rows[e.ino].name ELSE e.name]
            /\ UNCHANGED <<journal, failed>>
    /\ pass' = Tail(pass)
    /\ UNCHANGED <<features, local, server, nextEntry, listing, localOps, remoteOps>>

\* update_node_uid fails silently when another row has the uid
SetUid(i, u) ==
    rows' = IF i \in Inos /\ rows[i] # Gone /\ RowsOf(u) = {}
            THEN [rows EXCEPT ![i].uid = u] ELSE rows

CreateCall ==
    LET w == work IN
    /\ w.pc = "call" /\ w.entry.kind = "create"
    /\ IF CanCreate(w.parent, w.name)
       THEN /\ nodes' = [nodes EXCEPT ![nextUid] = [parent |-> w.parent, name |-> w.name]]
            /\ nextUid' = nextUid + 1
            /\ events' = Append(events, Event("create", nextUid, w.parent))
            /\ IF "slowcreate" \in features
               THEN /\ work' = [pc |-> "reply", entry |-> w.entry, uid |-> nextUid]
                    /\ UNCHANGED <<rows, journal, failed>>
               ELSE /\ work' = NoWork
                    /\ \/ SetUid(w.entry.ino, nextUid) /\ Done(w.entry)
                       \/ "failing" \in features /\ Failed(w.entry) /\ UNCHANGED rows
       ELSE /\ nextUid \in Uids
            /\ Failed(w.entry) /\ work' = NoWork
            /\ UNCHANGED <<rows, server>>
    /\ UNCHANGED <<features, populated, nextIno, nextEntry, pass, listing, localOps, remoteOps>>

CreateReply ==
    /\ work.pc = "reply"
    /\ SetUid(work.entry.ino, work.uid) /\ Done(work.entry)
    /\ work' = NoWork
    /\ UNCHANGED <<features, populated, nextIno, server, nextEntry, pass, listing, localOps, remoteOps>>

\* rename_node, and move_nodes followed by rename_node: the second call may
\* fail when the first one has moved the node
PutCall ==
    LET e == work.entry
        to == IF e.kind = "move" THEN e.to ELSE nodes[e.uid].parent
        old == nodes[e.uid].name
    IN
    /\ work.pc = "call" /\ e.kind \in {"rename", "move"}
    /\ LET moved == Live(e.uid) /\ CanPut(e.uid, to, old)
           renamed == Live(e.uid) /\ CanPut(e.uid, to, e.name)
           first == e.kind = "rename" \/ moved
       IN  /\ nodes' = IF first /\ renamed
                       THEN [nodes EXCEPT ![e.uid] = [parent |-> to, name |-> e.name]]
                       ELSE IF first /\ e.kind = "move"
                       THEN [nodes EXCEPT ![e.uid].parent = to] ELSE nodes
           /\ events' = IF nodes' # nodes THEN Append(events, Event("update", e.uid, to)) ELSE events
           /\ Answered(e, first /\ renamed)
    /\ work' = NoWork
    /\ UNCHANGED <<features, local, nextUid, nextEntry, pass, listing, localOps, remoteOps>>

\* trash_nodes returns an error in the node's own result, and the entry is
\* done whatever that result is
DeleteCall ==
    LET e == work.entry IN
    /\ work.pc = "call" /\ e.kind = "delete"
    /\ \/ /\ Live(e.uid)
          /\ nodes' = Trash(e.uid)
          /\ events' = Append(events, Event("delete", e.uid, nodes[e.uid].parent))
       \/ /\ ~Live(e.uid) \/ "offline" \in features
          /\ UNCHANGED <<nodes, events>>
    /\ Answered(e, TRUE) /\ work' = NoWork
    /\ UNCHANGED <<features, local, nextUid, nextEntry, pass, listing, localOps, remoteOps>>

-----------------------------------------------------------------------------
(* event_poll_loop *)

\* remove_inode_tree
Without(is) == [i \in Inos |-> IF i \in is THEN Gone ELSE rows[i]]

\* apply_remote_delete
Deleted(ev) ==
    /\ ev.kind = "delete"
    /\ rows' = Without(UNION {Below(i, ChildRows) : i \in RowsOf(ev.uid)})
    /\ populated' = populated \ {rows[i].parent : i \in RowsOf(ev.uid)}

Created(ev) ==
    /\ ev.kind = "create"
    /\ populated' = populated \ InoOf(ev.parent)
    /\ UNCHANGED rows

\* an update of an unknown node clears nothing
Updated(ev) ==
    /\ ev.kind = "update"
    /\ populated' = populated \ {rows[i].parent : i \in RowsOf(ev.uid)}
    /\ UNCHANGED rows

PollEvent ==
    /\ events # <<>>
    /\ LET ev == Head(events) IN Deleted(ev) \/ Created(ev) \/ Updated(ev)
    /\ events' = Tail(events)
    /\ UNCHANGED <<features, nextIno, nodes, nextUid, flush, listing, localOps, remoteOps>>

-----------------------------------------------------------------------------
(* populate_folder_children *)

\* ensure_children_populated starts one task for a folder
StartListing(i) ==
    /\ Exists(i) /\ i \notin populated /\ UidOf(i) # NoUid
    /\ listing[i] = NoListing
    /\ listing' = [listing EXCEPT ![i] = [pc |-> "ask", uid |-> UidOf(i)]]
    /\ UNCHANGED <<features, local, server, flush, localOps, remoteOps>>

\* what a listing does to the rows: known nodes keep their row as it is, new
\* nodes get one, and children that are not listed and not pending go
Apply(i, found) ==
    LET new == SetToSortSeq({u \in DOMAIN found : RowsOf(u) = {}}, <)
        lost == {j \in ChildRows(i) : /\ UidOf(j) # NoUid /\ UidOf(j) \notin DOMAIN found
                                      /\ ~HasPending(j)}
        gone == UNION {Below(j, ChildRows) : j \in lost}
    IN
    /\ nextIno + Len(new) <= MaxIno + 1
    /\ rows' = [j \in Inos |->
                  IF j \in gone THEN Gone
                  ELSE IF j \in nextIno .. nextIno + Len(new) - 1
                  THEN LET u == new[j - nextIno + 1]
                       IN [parent |-> i, name |-> found[u], uid |-> u]
                  ELSE rows[j]]
    /\ nextIno' = nextIno + Len(new)
    /\ populated' = IF Exists(i) THEN populated \union {i} ELSE populated

Found(u) == [v \in ChildNodes(u) |-> nodes[v].name]

\* the listing of a folder that is in the trash fails; "slowlist": it may be
\* answered while a delete waits in the journal, and applied later
Answer(i) ==
    /\ listing[i].pc = "ask"
    /\ "slowlist" \in features \/ ~\E e \in journal : e.kind = "delete"
    /\ IF ~Live(listing[i].uid)
       THEN listing' = [listing EXCEPT ![i] = NoListing] /\ UNCHANGED local
       ELSE IF "slowlist" \in features
       THEN /\ listing' = [listing EXCEPT ![i] = [pc |-> "apply", found |-> Found(listing[i].uid)]]
            /\ UNCHANGED local
       ELSE /\ listing' = [listing EXCEPT ![i] = NoListing]
            /\ Apply(i, Found(listing[i].uid))
    /\ UNCHANGED <<features, server, flush, localOps, remoteOps>>

ApplyListing(i) ==
    /\ listing[i].pc = "apply"
    /\ Apply(i, listing[i].found)
    /\ listing' = [listing EXCEPT ![i] = NoListing]
    /\ UNCHANGED <<features, server, flush, localOps, remoteOps>>

-----------------------------------------------------------------------------
Next ==
    \/ \E p \in 0 .. MaxIno, n \in Names : Mkdir(p, n) \/ \E i \in Inos : Rename(i, p, n)
    \/ \E i \in Inos : Rmdir(i)
    \/ \E u \in Uids : \/ RemoteTrash(u)
                       \/ \E p \in 0 .. MaxUid, n \in Names : RemotePut(u, p, n)
    \/ Load \/ Begin \/ CreateCall \/ CreateReply \/ PutCall \/ DeleteCall \/ CallFails
    \/ PollEvent
    \/ \E i \in 0 .. MaxIno : StartListing(i) \/ Answer(i) \/ ApplyListing(i)

Spec == Init /\ [][Next]_vars

-----------------------------------------------------------------------------
TypeOK ==
    /\ features \in Modes
    /\ \A i \in Inos : rows[i] = Gone \/ /\ rows[i].parent \in 0 .. MaxIno
                                         /\ rows[i].name \in Names
                                         /\ rows[i].uid \in Uids \union {NoUid}
    /\ \A i, j \in Inos : i # j /\ rows[i] # Gone /\ rows[j] # Gone /\ rows[i].uid # NoUid
                            => rows[i].uid # rows[j].uid
    /\ populated \subseteq 0 .. MaxIno
    /\ \A e \in journal : e.tries < MaxTries
    /\ nextIno \in 1 .. MaxIno + 1 /\ nextUid \in 1 .. MaxUid + 1

\* Nothing is under way, and every folder the mount knows has been listed.
Quiet ==
    /\ journal = {} /\ pass = <<>> /\ work = NoWork /\ events = <<>>
    /\ \A i \in 0 .. MaxIno : listing[i] = NoListing
    /\ \A i \in 0 .. MaxIno : Exists(i) /\ UidOf(i) # NoUid => i \in populated

LocalTree == {<<rows[i].uid, UidOf(rows[i].parent), rows[i].name>> : i \in {j \in Inos : rows[j] # Gone}}
RemoteTree == {<<u, nodes[u].parent, nodes[u].name>> : u \in {v \in Uids : nodes[v] # NoNode}}

\* the nodes of failed entries, and what is below them in one tree or the other
Astray ==
    LET uids == {f.uid : f \in failed} \union {UidOf(f.ino) : f \in failed}
        inos == {f.ino : f \in failed} \union UNION {RowsOf(u) : u \in uids}
    IN  {NoUid} \union UNION {Below(u, ChildNodes) : u \in uids}
                \union {UidOf(j) : j \in UNION {Below(i, ChildRows) : i \in inos}}
Sure(tree) == {t \in tree : t[1] \notin Astray}

\* When everything has been replayed, polled and listed, the mount shows the
\* tree the server has: the same nodes, under the same names, in the same
\* folders, though journal_flush_loop, event_poll_loop and
\* populate_folder_children each see a part of it at a time of their own.  A
\* call that fails is overtaken by the entries after it, and may then fail for
\* good: only the nodes of failed entries, and what is below them, get lost.
QuietMeansInSync ==
    Quiet => /\ features \subseteq {"overwrite", "impatient"} => LocalTree = RemoteTree
             /\ features = {"failing"} => Sure(LocalTree) = Sure(RemoteTree)

\* A row's folder is there: no rmdir, rename or remote delete leaves a row
\* that no path reaches (and whose unique node uid no listing could use).
NoOrphans ==
    features \subseteq {"overwrite", "impatient"} =>
        \A i \in Inos : rows[i] # Gone => Exists(rows[i].parent)

\* The rows are a tree with a node uid at most once, as the unique index of the
\* table and the lookups by parent and name expect, and it is the server's tree
\* when all is quiet.
TreeIsSound == TypeOK /\ NoOrphans /\ QuietMeansInSync

\* rmdir, and a rename onto a folder, queue its delete only when the user
\* deleted or moved away each node in it before: nothing the user never saw
\* goes to the trash with its folder.
DeletesOnlyEmpty ==
    [][features = {} =>
        \A e \in journal' \ journal :
           e.kind = "delete" /\ e.tries = 0 =>
             \A v \in ChildNodes(e.uid) :
               \E f \in journal' : f.uid = v /\ f.kind \in {"delete", "move"}]_vars
=============================================================================
