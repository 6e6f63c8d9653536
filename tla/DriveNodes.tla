----------------------------- MODULE DriveNodes -----------------------------
(***************************************************************************)
(* Files and folders of the drive and what the SDK remembers of them       *)
(* (proton-drive-sdk/src/node/operations.rs, node/mod.rs, node/folder.rs,  *)
(* volume_operations.rs).                                                  *)
(*                                                                         *)
(* Whatever is read of one node goes to the entity cache and stays: an     *)
(* entry is replaced by the operations of this machine, and never asked    *)
(* for again.  The secrets of a folder, which its children are read with,  *)
(* are remembered apart.                                                   *)
(***************************************************************************)
EXTENDS Naturals, Sequences

CONSTANTS
  Nodes,      \* nodes below the root, the ones still to be made among them
  Names,      \* names of nodes
  Links0,     \* the drives to start with
  Tasks,      \* requests of this machine that may run side by side
  MaxOps,     \* bound: operations of this machine
  MaxOthers,  \* bound: changes made by another client
  Modes       \* what may happen together: sets of the features below

\* "overlap": operations run while others do; "others": another client is there.
Features == {"overlap", "others"}

Root == "root"
Nowhere == "nowhere"
Place == [parent : Nodes \cup {Root}, name : Names]
NoPlace == [parent |-> Nowhere, name |-> Nowhere]

ASSUME LinksAreGiven == Links0 \subseteq [Nodes -> Place \cup {NoPlace}]

VARIABLES
  features,  \* the mode of the behaviour
  link,      \* the place of each node on the server, NoPlace if it does not exist
  trashed,   \* the nodes in the trash
  cache,     \* the place of each node in the entity cache
  secrets,   \* folders whose secrets are remembered
  task,      \* the locals of each request
  ops,       \* number of operations started
  others,    \* number of changes made elsewhere
  listed,    \* what the last listing of the trash gave of the nodes still in it
  unheard    \* history: nodes moved or renamed whose answer was lost, not read since

vars == <<features, link, trashed, cache, secrets, task, ops, others, listed, unheard>>

Idle == [op |-> "none", pc |-> "idle", node |-> Root, dest |-> Root, name |-> Nowhere,
         at |-> Root, visited |-> {}, want |-> Nowhere, held |-> <<>>, got |-> NoPlace,
         looped |-> FALSE]

Init ==
  /\ features \in Modes
  /\ link \in Links0
  /\ trashed = {}
  /\ cache = [n \in Nodes |-> NoPlace]
  /\ secrets = {}
  /\ task = [t \in Tasks |-> Idle]
  /\ ops = 0 /\ others = 0
  /\ listed = [n \in {} |-> NoPlace]
  /\ unheard = {}

Exists(n) == IF n = Root THEN TRUE ELSE link[n] # NoPlace
Parent(places, n) == IF n \in {Root, Nowhere} THEN n ELSE places[n].parent

\* n is d or below it, in trees of up to three levels.
Below(places, n, d) ==
  n = d \/ LET p == Parent(places, n) IN p = d \/ LET q == Parent(places, p) IN q = d \/ Parent(places, q) = d

-----------------------------------------------------------------------------
(* Requests, and what the server makes of them (external) *)

Taken(places, d, name) == \E m \in Nodes \ trashed : places[m] = [parent |-> d, name |-> name]
MayHold(d) == Exists(d) /\ \A a \in trashed : ~Below(link, d, a)

MutCanPlace(n, seen, d, name) ==   \* a request without the digest
  /\ Exists(n) /\ n \notin trashed /\ MayHold(d) /\ ~Below(link, d, n)
  /\ ~Taken([link EXCEPT ![n] = NoPlace], d, name)

\* A node is moved or renamed only if its name is still the one the request says,
\* by a digest made of the name with a key of its folder.
CanPlace(n, seen, d, name) ==
  /\ Exists(n) /\ n \notin trashed /\ link[n] = seen
  /\ MayHold(d) /\ ~Below(link, d, n)
  /\ ~Taken([link EXCEPT ![n] = NoPlace], d, name)
Put(n, d, name) == link' = [link EXCEPT ![n] = [parent |-> d, name |-> name]]

-----------------------------------------------------------------------------
(* Reading a node: get_node_metadata, get_fresh_node_metadata, get_secrets *)

Known(n) == cache[n] # NoPlace /\ n \in secrets
HasSecrets(n) == n = Root \/ n \in secrets

\* An operation after its step pc.
Then(o) == CASE o.op = "move" -> IF o.pc = "walk" THEN "fetch" ELSE "request"
             [] o.op = "copy" -> IF o.pc = "walk" THEN "fetch" ELSE "request"
             [] o.op = "rename" -> IF o.pc = "fetch" THEN "walk" ELSE "request"
             [] o.op = "create" -> "request"
             [] OTHER -> "idle"

\* What the next step reads first.
Enter(o, pc) ==
  CASE pc = "fetch" -> [o EXCEPT !.pc = pc, !.want = o.node]
    [] pc = "walk" -> [o EXCEPT !.pc = pc, !.at = o.node, !.visited = {}]
    [] pc = "idle" -> Idle
    [] OTHER -> [o EXCEPT !.pc = pc]

Fail(t) == task' = [task EXCEPT ![t] = Idle]
Reading(t, pc) == task[t].pc = pc /\ task[t].want = Nowhere /\ task[t].held = <<>>

\* The answer for one node.  To decrypt it the secrets of its folder are needed,
\* which may have to be read the same way.
Fetch(t) ==
  LET o == task[t]
      n == o.want
  IN  /\ n # Nowhere
      /\ IF ~Exists(n) THEN Fail(t)
         ELSE task' = [task EXCEPT
                ![t].held = Append(@, [node |-> n, place |-> link[n]]),
                ![t].want = IF HasSecrets(link[n].parent) THEN Nowhere ELSE link[n].parent]
      /\ UNCHANGED <<features, link, trashed, cache, secrets, ops, others, listed, unheard>>

\* One level of a walk to the root.
Climb(o, parent) == [o EXCEPT !.at = parent, !.visited = @ \cup {o.at}]

\* The answer is decrypted and remembered, the topmost folder first.
Store(t) ==
  LET o == task[t]
      top == o.held[Len(o.held)]
      rest == [o EXCEPT !.held = SubSeq(@, 1, Len(@) - 1)]
  IN  /\ o.want = Nowhere /\ o.held # <<>>
      /\ cache' = [cache EXCEPT ![top.node] = top.place]
      /\ secrets' = secrets \cup {top.node}
      /\ unheard' = unheard \ {top.node}
      /\ task' = [task EXCEPT ![t] =
           CASE Len(o.held) > 1 -> rest
             [] o.pc = "walk" -> Climb(rest, top.place.parent)
             [] OTHER -> Enter([rest EXCEPT !.got = top.place], Then(rest))]
      /\ UNCHANGED <<features, link, trashed, ops, others, listed>>

\* get_membership_address and get_node_hierarchy go up to the root, and stop at a
\* node they have seen.
Walk(t) ==
  LET o == task[t] IN
  /\ Reading(t, "walk")
  /\ CASE o.at = Root -> task' = [task EXCEPT ![t] = Enter(o, Then(o))]
       [] o.at \in o.visited -> task' = [task EXCEPT ![t] = [Idle EXCEPT !.looped = unheard = {}]]
       [] o.at \notin o.visited /\ o.at # Root /\ Known(o.at) ->
            task' = [task EXCEPT ![t] = Climb(o, cache[o.at].parent)]
       [] OTHER -> task' = [task EXCEPT ![t].want = o.at]
  /\ UNCHANGED <<features, link, trashed, cache, secrets, ops, others, listed, unheard>>

-----------------------------------------------------------------------------
(* Operations *)

Free(t) ==
  /\ task[t].pc = "idle" /\ ops < MaxOps
  /\ ops' = ops + 1
  /\ "overlap" \in features \/ \A u \in Tasks : task[u].pc = "idle"
Unread == UNCHANGED <<features, link, trashed, secrets, others, listed>>
Begin(t, o) == Free(t) /\ Unread /\ UNCHANGED <<cache, unheard>> /\ task' = [task EXCEPT ![t] = o]

\* Several nodes are moved at the same time, here two, one of them for each task.
\* The nodes of a listing that are selected together are none below another.
MoveNodes == \E f \in [Tasks -> Nodes], d \in Nodes \cup {Root} :
  /\ \A t, u \in Tasks : t # u => ~Below(link, f[t], f[u])
  /\ \A t \in Tasks : task[t].pc = "idle" /\ Exists(f[t]) /\ f[t] # d
  /\ ops < MaxOps /\ ops' = ops + 1
  /\ task' = [t \in Tasks |->
                [Idle EXCEPT !.op = "move", !.pc = "walk", !.node = f[t], !.dest = d, !.at = d]]
  /\ Unread /\ UNCHANGED <<cache, unheard>>

MoveSingle(t) == \E n \in Nodes, d \in Nodes \cup {Root}, name \in Names \cup {Nowhere} :
  /\ n # d /\ Exists(n)
  /\ Begin(t, [Idle EXCEPT !.op = "move", !.pc = "walk", !.node = n, !.dest = d, !.at = d, !.name = name])

CopySingle(t) == \E n \in Nodes, d \in Nodes \cup {Root} :
  Exists(n) /\ Begin(t, [Idle EXCEPT !.op = "copy", !.pc = "walk", !.node = n, !.dest = d, !.at = d])

Rename(t) == \E n \in Nodes, name \in Names :
  Exists(n) /\ Begin(t, [Idle EXCEPT !.op = "rename", !.pc = "fetch", !.node = n, !.want = n, !.name = name])

\* A folder is made; for that, and to list one, only its parent's secrets are read.
CreateFolder(t) == \E d \in Nodes \cup {Root}, name \in Names :
  LET o == [Idle EXCEPT !.op = "create", !.node = d, !.dest = d, !.name = name]
  IN  Begin(t, IF HasSecrets(d) THEN [o EXCEPT !.pc = "request"]
               ELSE [o EXCEPT !.pc = "secrets", !.want = d])

EnumerateChildren(t) == \E d \in Nodes :
  ~HasSecrets(d) /\ Begin(t, [Idle EXCEPT !.op = "list", !.pc = "secrets", !.node = d, !.want = d])

GetNode(t) == \E n \in Nodes :
  ~Known(n) /\ Begin(t, [Idle EXCEPT !.op = "get", !.pc = "get", !.node = n, !.want = n])

\* The only way an entry leaves the cache.
GetNodeUncached(t) == \E n \in Nodes :
  /\ cache[n] # NoPlace
  /\ Free(t) /\ Unread
  /\ cache' = [cache EXCEPT ![n] = NoPlace] /\ unheard' = unheard \ {n}
  /\ task' = [task EXCEPT ![t] = [Idle EXCEPT !.op = "get", !.pc = "get", !.node = n, !.want = n]]

GetNodeHierarchy(t) == \E n \in Nodes :
  Exists(n) /\ Begin(t, [Idle EXCEPT !.op = "hierarchy", !.pc = "walk", !.node = n, !.at = n])

\* The server is asked, and does it or refuses.
Request(t) ==
  LET o == task[t]
      name == IF o.name = Nowhere THEN o.got.name ELSE o.name
      d == IF o.op = "rename" THEN o.got.parent ELSE o.dest
  IN  /\ Reading(t, "request")
      /\ CASE o.op \in {"move", "rename"} /\ CanPlace(o.node, o.got, d, name) ->
                Put(o.node, d, name) /\ task' = [task EXCEPT ![t].pc = "answer"]
           [] o.op \in {"copy", "create"} /\ MayHold(d) /\ ~Taken(link, d, name)
                /\ \E m \in Nodes : ~Exists(m) ->
                LET m == CHOOSE m \in Nodes : ~Exists(m) IN
                Put(m, d, name) /\ task' = [task EXCEPT ![t].pc = "answer", ![t].node = m]
           [] OTHER -> Fail(t) /\ UNCHANGED link
      /\ UNCHANGED <<features, trashed, cache, secrets, ops, others, listed, unheard>>

\* The answer comes.  A copy and a new folder are not put into the cache; of the
\* folder the secrets are.
Answered(t, operations) == task[t].pc = "answer" /\ task[t].op \in operations
Made(t) ==
  LET o == task[t] IN
  /\ Answered(t, {"copy", "create"})
  /\ secrets' = IF o.op = "create" THEN secrets \cup {o.node} ELSE secrets
  /\ task' = [task EXCEPT ![t] = Enter(o, "idle")]
  /\ UNCHANGED <<features, link, trashed, cache, ops, others, listed, unheard>>

\* A request fails, before the server had it or after it did what it asks: the
\* operation returns the error and leaves the cache as it is.
RequestFails(t) ==
  LET o == task[t] IN
  /\ o.want # Nowhere \/ Reading(t, "request") \/ o.pc = "answer"
  /\ Fail(t)
  /\ unheard' = IF o.pc = "answer" /\ o.op \in {"move", "rename"} THEN unheard \cup {o.node} ELSE unheard
  /\ UNCHANGED <<features, link, trashed, cache, secrets, ops, others, listed>>

\* rename then reads the entry again, and writes it back with the new name.
LookAgain(t) ==
  LET o == task[t] IN
  /\ Answered(t, {"rename"})
  /\ task' = [task EXCEPT ![t] = IF cache[o.node] = NoPlace THEN Enter(o, "idle")
                ELSE [o EXCEPT !.pc = "write", !.dest = cache[o.node].parent]]
  /\ UNCHANGED <<features, link, trashed, cache, secrets, ops, others, listed, unheard>>

\* What the entry becomes.
MutWritten(o) ==   \* a move that keeps the parent it had read
  [parent |-> o.got.parent, name |-> IF o.name = Nowhere THEN o.got.name ELSE o.name]
Written(o) ==
  [parent |-> o.dest, name |-> IF o.name = Nowhere THEN o.got.name ELSE o.name]

\* move_single writes what it had read, with the new parent and name.
WriteCache(t) ==
  LET o == task[t] IN
  /\ Answered(t, {"move"}) \/ o.pc = "write"
  /\ cache' = [cache EXCEPT ![o.node] = Written(o)]
  /\ task' = [task EXCEPT ![t] = Enter(o, "idle")]
  /\ UNCHANGED <<features, link, trashed, secrets, ops, others, listed, unheard>>

(* The trash, of which the cache is not told *)

Request1(t) ==
  /\ Free(t) /\ task' = [task EXCEPT ![t] = Idle]
  /\ UNCHANGED <<features, cache, secrets, others, unheard>>

\* Of what the trash was listed with, what is still in it.
StillListed == listed' = [n \in DOMAIN listed \cap trashed' |-> listed[n]]

Trash(t) == \E n \in Nodes :
  /\ Exists(n) /\ n \notin trashed
  /\ Request1(t) /\ trashed' = trashed \cup {n} /\ UNCHANGED <<link, listed>>

Restore(t) == \E n \in trashed :
  /\ ~Taken(link, link[n].parent, link[n].name)
  /\ Request1(t) /\ trashed' = trashed \ {n} /\ UNCHANGED link /\ StillListed

Gone(nodes) ==
  LET gone == {m \in Nodes : Exists(m) /\ \E n \in nodes : Below(link, m, n)}
  IN  /\ link' = [m \in Nodes |-> IF m \in gone THEN NoPlace ELSE link[m]]
      /\ trashed' = trashed \ gone
      /\ StillListed

Delete(t) == \E n \in Nodes \ trashed : Exists(n) /\ Request1(t) /\ Gone({n})
DeleteFromTrash(t) == \E n \in trashed : Request1(t) /\ Gone({n})
EmptyTrash(t) == trashed # {} /\ Request1(t) /\ Gone(trashed)

\* What the cache has is not asked for; the rest is read in batches and not kept.
EnumerateTrash(t) ==
  /\ Free(t) /\ trashed # {}
  /\ listed' = [n \in trashed \ unheard |-> IF cache[n] # NoPlace THEN cache[n] ELSE link[n]]
  /\ task' = [task EXCEPT ![t] = Idle]
  /\ UNCHANGED <<features, link, trashed, cache, secrets, others, unheard>>

\* Another client.
Other ==
  /\ "others" \in features /\ others < MaxOthers
  /\ others' = others + 1
  /\ \/ \E n \in Nodes, d \in Nodes \cup {Root}, name \in Names :
          /\ CanPlace(n, link[n], d, name) /\ Put(n, d, name) /\ UNCHANGED <<trashed, listed>>
     \/ \E n \in Nodes : Exists(n) /\ Gone({n})
  /\ UNCHANGED <<features, cache, secrets, task, ops, unheard>>

Next ==
  \/ \E t \in Tasks : Fetch(t)
  \/ \E t \in Tasks : Store(t)
  \/ \E t \in Tasks : Walk(t)
  \/ MoveNodes
  \/ \E t \in Tasks : MoveSingle(t)
  \/ \E t \in Tasks : CopySingle(t)
  \/ \E t \in Tasks : Rename(t)
  \/ \E t \in Tasks : CreateFolder(t)
  \/ \E t \in Tasks : EnumerateChildren(t)
  \/ \E t \in Tasks : GetNode(t)
  \/ \E t \in Tasks : GetNodeUncached(t)
  \/ \E t \in Tasks : GetNodeHierarchy(t)
  \/ \E t \in Tasks : Request(t)
  \/ \E t \in Tasks : Made(t)
  \/ \E t \in Tasks : RequestFails(t)
  \/ \E t \in Tasks : LookAgain(t)
  \/ \E t \in Tasks : WriteCache(t)
  \/ \E t \in Tasks : Trash(t)
  \/ \E t \in Tasks : Restore(t)
  \/ \E t \in Tasks : Delete(t)
  \/ \E t \in Tasks : DeleteFromTrash(t)
  \/ \E t \in Tasks : EmptyTrash(t)
  \/ \E t \in Tasks : EnumerateTrash(t)
  \/ Other

Spec == Init /\ [][Next]_vars

-----------------------------------------------------------------------------
(* Properties *)

\* Every variable has its type.
TypeOK ==
  /\ features \subseteq Features
  /\ link \in [Nodes -> Place \cup {NoPlace}]
  /\ trashed \subseteq Nodes /\ secrets \subseteq Nodes /\ unheard \subseteq Nodes
  /\ cache \in [Nodes -> Place \cup {NoPlace}]
  /\ \A t \in Tasks : Len(task[t].held) <= 5
  /\ ops \in 0 .. MaxOps /\ others \in 0 .. MaxOthers

\* As long as one operation follows another and nobody else changes the drive, the
\* cache has every node where it is: also after several were moved at once, after
\* requests that failed, and although nothing is asked for twice.  Only a node that
\* was moved or renamed with the answer lost is in it with its old place (the call
\* returns early, operations.rs 463-467 and 637-641), until it is read again.
CacheFollows ==
  (features = {} /\ \A t \in Tasks : task[t].pc = "idle") =>
    \A n \in Nodes \ unheard : cache[n] # NoPlace /\ Exists(n) => cache[n] = link[n]

\* And then no walk to the root meets a node twice while no such entry is there, and
\* the trash is listed as it is, but for such entries.
NoFalseLoop == features = {} => \A t \in Tasks : ~task[t].looped
TrashIsListed ==
  features = {} => \A n \in DOMAIN listed : listed[n] = link[n]

NodesAreSound == TypeOK /\ CacheFollows /\ NoFalseLoop /\ TrashIsListed

\* Moving a node without a new name never changes its name, and renaming it never
\* moves it, whatever other clients and the other operations of this machine do in
\* between: a name from the cache, or one read before somebody's rename, is not
\* brought back.
MovesKeepNames == [][\A t \in Tasks, n \in Nodes :
  (task[t].node = n /\ task'[t] # task[t] /\ link'[n] # link[n] /\ link'[n] # NoPlace /\ Exists(n)) =>
    /\ (task[t].op = "move" /\ task[t].name = Nowhere) => link'[n].name = link[n].name
    /\ task[t].op = "rename" => link'[n].parent = link[n].parent ]_vars
=============================================================================
