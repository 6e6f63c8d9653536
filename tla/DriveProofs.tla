----------------------------- MODULE DriveProofs ----------------------------
(***************************************************************************)
(* The drive, for any nodes, photos, people, requests and commands: no     *)
(* request brings a name or a place back that somebody changed, no photo   *)
(* is lost with an album or as a copy, and who is given access, or loses   *)
(* it, is who was meant.                                                   *)
(***************************************************************************)
EXTENDS MCDrive, FiniteSetTheorems, WellFoundedInduction, TLAPS

-----------------------------------------------------------------------------
(* Moves and renames.  The invariant is the shape of two variables; what makes
   the property true is the guard of the request. *)

NodesShape == link = [n \in Nodes |-> link[n]] /\ task = [t \in Tasks |-> task[t]]

\* What a step of one node, by one task, may do to its name and its folder.
KeepsNames(t, n) ==
    (task[t].node = n /\ task'[t] # task[t] /\ link'[n] # link[n] /\ link'[n] # NoPlace /\ Exists(n)) =>
      /\ (task[t].op = "move" /\ task[t].name = Nowhere) => link'[n].name = link[n].name
      /\ task[t].op = "rename" => link'[n].parent = link[n].parent

\* A node that was put somewhere, the others being left where they are.
LEMMA PutMovesOne ==
    ASSUME NodesShape, NEW m \in Nodes, NEW d, NEW name, Put(m, d, name)
    PROVE  /\ link' = [n \in Nodes |-> link'[n]]
           /\ link'[m] = [parent |-> d, name |-> name]
           /\ \A n \in Nodes : n # m => link'[n] = link[n]
BY DEF Put, NodesShape

\* What goes, goes.
LEMMA GoneIsGone ==
    ASSUME NEW nodes, Gone(nodes)
    PROVE  /\ link' = [n \in Nodes |-> link'[n]]
           /\ \A n \in Nodes : link'[n] \in {link[n], NoPlace}
BY DEF Gone

\* The request of a task moves the node only if it is still where it was read.
LEMMA RequestKeepsNames ==
    ASSUME NodesShape, NEW u \in Tasks, Request(u)
    PROVE  NodesShape' /\ \A t \in Tasks, n \in Nodes : KeepsNames(t, n)
<1> DEFINE o == task[u]
           name == IF o.name = Nowhere THEN o.got.name ELSE o.name
           d == IF o.op = "rename" THEN o.got.parent ELSE o.dest
<1>1. CASE o.op \in {"move", "rename"} /\ CanPlace(o.node, o.got, d, name)
  <2>1. Put(o.node, d, name) /\ task' = [task EXCEPT ![u].pc = "answer"]
    BY <1>1 DEF Request
  <2>2. link[o.node] = o.got
    BY <1>1 DEF CanPlace
  <2>3. NodesShape'
    BY <2>1 DEF NodesShape, Put
  <2>4. ASSUME NEW t \in Tasks, NEW n \in Nodes PROVE KeepsNames(t, n)
    <3> SUFFICES ASSUME task[t].node = n, task'[t] # task[t]
                 PROVE  /\ (task[t].op = "move" /\ task[t].name = Nowhere) => link'[n].name = link[n].name
                        /\ task[t].op = "rename" => link'[n].parent = link[n].parent
      BY DEF KeepsNames
    <3>1. t = u
      BY <2>1 DEF NodesShape
    <3>2. link'[n] = [parent |-> d, name |-> name]
      BY <2>1, <3>1, PutMovesOne
    <3> QED BY <2>2, <3>1, <3>2
  <2> QED BY <2>3, <2>4
<1>2. CASE ~(o.op \in {"move", "rename"} /\ CanPlace(o.node, o.got, d, name))
  <2>1. CASE Fail(u) /\ UNCHANGED link
    BY <2>1 DEF NodesShape, Fail, KeepsNames
  <2>2. CASE \E m \in Nodes : /\ ~Exists(m) /\ Put(m, d, name)
                               /\ task' = [task EXCEPT ![u].pc = "answer", ![u].node = m]
    <3>1. PICK m \in Nodes : /\ ~Exists(m) /\ Put(m, d, name)
                             /\ task' = [task EXCEPT ![u].pc = "answer", ![u].node = m]
      BY <2>2
    <3>2. NodesShape'
      BY <3>1 DEF NodesShape, Put
    <3>3. \A n \in Nodes : Exists(n) => link'[n] = link[n]
      BY <3>1, PutMovesOne
    <3> QED BY <3>2, <3>3 DEF KeepsNames
  <2>3. \/ Fail(u) /\ UNCHANGED link
        \/ \E m \in Nodes : /\ ~Exists(m) /\ Put(m, d, name)
                             /\ task' = [task EXCEPT ![u].pc = "answer", ![u].node = m]
    <3>1. CASE o.op \in {"copy", "create"} /\ MayHold(d) /\ ~Taken(link, d, name) /\ \E m \in Nodes : ~Exists(m)
      <4> DEFINE m == CHOOSE m \in Nodes : ~Exists(m)
      <4>1. m \in Nodes /\ ~Exists(m)
        BY <3>1
      <4>2. Put(m, d, name) /\ task' = [task EXCEPT ![u].pc = "answer", ![u].node = m]
        BY <1>2, <3>1 DEF Request
      <4> QED BY <4>1, <4>2
    <3>2. CASE ~(o.op \in {"copy", "create"} /\ MayHold(d) /\ ~Taken(link, d, name) /\ \E m \in Nodes : ~Exists(m))
      BY <1>2, <3>2 DEF Request
    <3> QED BY <3>1, <3>2
  <2> QED BY <2>1, <2>2, <2>3
<1> QED BY <1>1, <1>2

LEMMA NodesKeepNames ==
    ASSUME NodesShape, Next
    PROVE  NodesShape' /\ \A t \in Tasks, n \in Nodes : KeepsNames(t, n)
<1>1. CASE UNCHANGED link /\ task' = [t \in Tasks |-> task'[t]]
  BY SMTT(30), <1>1 DEF NodesShape, KeepsNames
<1>2. ASSUME NEW t \in Tasks, \/ Fetch(t) \/ Store(t) \/ Walk(t) \/ Made(t) \/ RequestFails(t)
                              \/ LookAgain(t) \/ WriteCache(t)
      PROVE  UNCHANGED link /\ task' = [u \in Tasks |-> task'[u]]
  BY <1>2 DEF Fetch, Fail, Store, Walk, Made, RequestFails, LookAgain, WriteCache, NodesShape
<1>3. ASSUME NEW t \in Tasks, NEW o, Begin(t, o)
      PROVE  UNCHANGED link /\ task' = [u \in Tasks |-> task'[u]]
  BY SMTT(30), <1>3 DEF Begin, Unread, NodesShape
<1>4. ASSUME NEW t \in Tasks, \/ MoveSingle(t) \/ CopySingle(t) \/ Rename(t) \/ CreateFolder(t)
                              \/ EnumerateChildren(t) \/ GetNode(t) \/ GetNodeHierarchy(t)
      PROVE  UNCHANGED link /\ task' = [u \in Tasks |-> task'[u]]
  BY ZenonT(60), <1>3, <1>4 DEF MoveSingle, CopySingle, Rename, CreateFolder, EnumerateChildren, GetNode, GetNodeHierarchy
<1>5. ASSUME MoveNodes \/ \E t \in Tasks : GetNodeUncached(t) \/ EnumerateTrash(t)
      PROVE  UNCHANGED link /\ task' = [u \in Tasks |-> task'[u]]
  BY <1>5 DEF MoveNodes, GetNodeUncached, EnumerateTrash, Unread, NodesShape
<1>6. CASE \E t \in Tasks : Request(t)
  BY <1>6, RequestKeepsNames
<1>7. ASSUME NEW t \in Tasks, Trash(t) \/ Restore(t)
      PROVE  UNCHANGED link /\ task' = [u \in Tasks |-> task'[u]]
  BY <1>7 DEF Trash, Restore, Request1, NodesShape
<1>8. ASSUME NEW nodes, Gone(nodes), task' = [u \in Tasks |-> task'[u]]
      PROVE  NodesShape' /\ \A t \in Tasks, n \in Nodes : KeepsNames(t, n)
  BY <1>8, GoneIsGone DEF NodesShape, KeepsNames
<1>9. CASE \E t \in Tasks : Delete(t) \/ DeleteFromTrash(t) \/ EmptyTrash(t)
  <2>1. task' = [u \in Tasks |-> task'[u]]
    BY <1>9 DEF Delete, DeleteFromTrash, EmptyTrash, Request1, NodesShape
  <2>2. \E nodes : Gone(nodes)
    BY <1>9 DEF Delete, DeleteFromTrash, EmptyTrash
  <2> QED BY <1>8, <2>1, <2>2
<1>10. CASE Other
  <2>1. task' = task
    BY <1>10 DEF Other
  <2>2. CASE \E nodes : Gone(nodes)
    BY <1>8, <2>1, <2>2 DEF NodesShape
  <2>3. CASE \E n \in Nodes : \E d, name : Put(n, d, name)
    BY <2>1, <2>3 DEF NodesShape, Put, KeepsNames
  <2> QED BY <1>10, <2>2, <2>3 DEF Other
<1> QED BY <1>1, <1>2, <1>4, <1>5, <1>6, <1>7, <1>9, <1>10 DEF Next

(* A move without a new name keeps the name of the node, and a rename its folder, for
   any drive, any requests side by side and another client (DriveNodes,
   node/operations.rs move_node, rename_node). *)
THEOREM NamesAreKept == DriveSpec => MovesKeepNames
<1>1. DriveInit => NodesShape
  BY LinksAreGiven DEF DriveInit, Init, NodesShape
<1>2. NodesShape /\ [DriveNext]_driveVars => NodesShape'
  <2> SUFFICES ASSUME NodesShape, [DriveNext]_driveVars PROVE NodesShape'
    OBVIOUS
  <2>1. CASE UNCHANGED vars
    BY <2>1 DEF vars, NodesShape
  <2>2. CASE Next
    BY <2>2, NodesKeepNames
  <2> QED BY <2>1, <2>2 DEF DriveNext, driveVars
<1>3. NodesShape /\ [DriveNext]_driveVars =>
        [\A t \in Tasks, n \in Nodes : KeepsNames(t, n)]_vars
  <2> SUFFICES ASSUME NodesShape, [DriveNext]_driveVars, ~UNCHANGED vars
               PROVE  \A t \in Tasks, n \in Nodes : KeepsNames(t, n)
    OBVIOUS
  <2>1. Next
    BY DEF DriveNext, driveVars
  <2> QED BY <2>1, NodesKeepNames
<1>4. DriveSpec => [][\A t \in Tasks, n \in Nodes : KeepsNames(t, n)]_vars
  BY <1>1, <1>2, <1>3, PTL DEF DriveSpec
<1> QED BY <1>4 DEF MovesKeepNames, KeepsNames

-----------------------------------------------------------------------------
(* Dedupes.  What is or was in the timeline only grows, and nothing is moved to the
   trash, nor planned to be, unless the user chose it or the command saw a copy with a
   lower uid.  So the copy with the lowest uid of all is in the timeline. *)

Ever == live \cup trash

HasLower(p) == /\ ContentOf[p] # P!Unknown
               /\ \E q \in Ever : q < p /\ ContentOf[q] = ContentOf[p]
Justified(p) == p \in chosen \/ HasLower(p)

RunType == [pc : {"idle", "scan", "plan", "check", "remove", "done", "failed"},
            index : [Pictures -> Nat], cursor : Pictures \cup {P!NoPhoto}, cursors : SUBSET Pictures,
            todo : SUBSET Pictures, trashed : SUBSET Pictures, errors : SUBSET Pictures]

TypesOfDedupe == /\ live \subseteq Pictures /\ trash \subseteq Pictures /\ chosen \subseteq Pictures
                 /\ faults \in 0..MaxFaults /\ dedupe \in [Runs -> RunType]

TodoIsJustified(r) == \A p \in dedupe[r].todo : Justified(p)
IndexWasSeen(r) == \A p \in Pictures : /\ dedupe[r].index[p] \in {0, 1}
                                       /\ dedupe[r].index[p] = 1 => p \in Ever
\* only a scan fills the index
IndexOfScan(r) == dedupe[r].pc \in {"idle", "check"} => \A p \in Pictures : dedupe[r].index[p] = 0
PlanIsKept(r) ==
    /\ dedupe[r].trashed \subseteq trash
    /\ dedupe[r].pc \in {"remove", "done"} =>
         P!Extras(dedupe[r].index) \subseteq dedupe[r].todo \cup dedupe[r].trashed \cup dedupe[r].errors
    /\ dedupe[r].pc = "done" => dedupe[r].todo = {} /\ dedupe[r].errors = {}

RunInv(r) == TodoIsJustified(r) /\ IndexWasSeen(r) /\ IndexOfScan(r) /\ PlanIsKept(r)

DedupeInv == /\ TypesOfDedupe
             /\ live \cap trash = {}
             /\ \A p \in trash : Justified(p)
             /\ \A r \in Runs : RunInv(r)

\* What there was of the library, and what the user chose, stays.
Grows == Ever \subseteq Ever' /\ trash \subseteq trash' /\ chosen \subseteq chosen'

LEMMA ReasonsStay == ASSUME Grows, NEW p, Justified(p) PROVE Justified(p)'
BY DEF Grows, Justified, HasLower

LEMMA OtherRunsKeep ==
    ASSUME Grows, NEW r \in Runs, RunInv(r), dedupe'[r] = dedupe[r]
    PROVE  RunInv(r)'
<1>1. TodoIsJustified(r)'
  BY ReasonsStay DEF RunInv, TodoIsJustified
<1>2. IndexWasSeen(r)' /\ IndexOfScan(r)'
  BY DEF RunInv, IndexWasSeen, IndexOfScan, Grows
<1>3. PlanIsKept(r)'
  BY DEF RunInv, PlanIsKept, Grows, P!Extras, P!Read
<1> QED BY <1>1, <1>2, <1>3 DEF RunInv

\* One run moves: what is to be shown of it.
LEMMA RunKeeps ==
    ASSUME DedupeInv, NEW r \in Runs, NEW w \in RunType, dedupe' = [dedupe EXCEPT ![r] = w],
           Grows, live' \subseteq Pictures, trash' \subseteq Pictures, chosen' \subseteq Pictures,
           faults' \in 0..MaxFaults, live' \cap trash' = {}, (\A p \in trash' : Justified(p)'), RunInv(r)'
    PROVE  DedupeInv'
<1>1. TypesOfDedupe'
  BY DEF DedupeInv, TypesOfDedupe
<1>2. ASSUME NEW u \in Runs PROVE RunInv(u)'
  BY <1>2, OtherRunsKeep DEF DedupeInv, TypesOfDedupe
<1> QED BY <1>1, <1>2 DEF DedupeInv

LEMMA StandStill ==
    ASSUME DedupeInv, UNCHANGED <<live, trash, chosen, faults>>
    PROVE  /\ Grows /\ live' \subseteq Pictures /\ trash' \subseteq Pictures /\ chosen' \subseteq Pictures
           /\ faults' \in 0..MaxFaults /\ live' \cap trash' = {}
           /\ \A p \in trash' : Justified(p)'
BY DEF DedupeInv, TypesOfDedupe, Grows, Ever, Justified, HasLower

\* A step of a run that changes its place only.
LEMMA PlaceKeeps ==
    ASSUME DedupeInv, NEW r \in Runs, NEW pc, UNCHANGED <<live, trash, chosen, faults>>, P!To(r, pc),
           \/ dedupe[r].pc = "idle" /\ pc = "scan"
           \/ dedupe[r].pc = "check" /\ pc \in {"remove", "failed"}
           \/ dedupe[r].pc = "remove" /\ pc = "failed"
           \/ dedupe[r].pc = "remove" /\ pc = "done" /\ dedupe[r].todo = {} /\ dedupe[r].errors = {}
    PROVE  DedupeInv'
<1> DEFINE w == [dedupe[r] EXCEPT !.pc = pc]
<1>1. dedupe[r] \in RunType /\ RunInv(r)
  BY DEF DedupeInv, TypesOfDedupe
<1>2. w \in RunType /\ dedupe' = [dedupe EXCEPT ![r] = w] /\ dedupe'[r] = w
  BY <1>1 DEF RunType, P!To, DedupeInv, TypesOfDedupe
<1>3. /\ w.pc = pc /\ w.index = dedupe[r].index /\ w.todo = dedupe[r].todo
      /\ w.trashed = dedupe[r].trashed /\ w.errors = dedupe[r].errors
  BY <1>1 DEF RunType
<1>4. TodoIsJustified(r)'
  BY <1>1, <1>2, <1>3, StandStill, ReasonsStay DEF RunInv, TodoIsJustified
<1>5. IndexWasSeen(r)' /\ IndexOfScan(r)'
  BY <1>1, <1>2, <1>3, StandStill DEF RunInv, IndexWasSeen, IndexOfScan, Grows
<1>6. PlanIsKept(r)'
  <2>1. dedupe[r].pc = "check" => P!Extras(dedupe[r].index) = {}
    BY <1>1 DEF RunInv, IndexOfScan, P!Extras, P!Read
  <2> QED BY <1>1, <1>2, <1>3, <2>1, StandStill DEF RunInv, PlanIsKept, Grows, P!Extras, P!Read
<1> QED BY <1>2, <1>4, <1>5, <1>6, StandStill, RunKeeps DEF RunInv

\* A page is of photos that are in the timeline now.
LEMMA PagesAreLive == ASSUME NEW c, NEW page \in P!Page(c) PROVE page \subseteq live
BY DEF P!Page, P!FirstOf, P!After

LEMMA ReadPageKeeps == ASSUME DedupeInv, NEW r \in Runs, P!ReadPage(r) PROVE DedupeInv'
<1>1. PICK page \in P!Page(dedupe[r].cursor) : \E next \in P!Cursors(page) :
        dedupe' = [dedupe EXCEPT ![r] = [dedupe[r] EXCEPT
           !.index = P!Indexed(dedupe[r].index, page), !.cursor = next,
           !.cursors = IF next = P!NoPhoto THEN {} ELSE dedupe[r].cursors \cup {next},
           !.pc = IF next = P!NoPhoto THEN "plan"
                  ELSE IF next \in dedupe[r].cursors THEN "failed" ELSE "scan"]]
  BY DEF P!ReadPage
<1>2. PICK next \in P!Cursors(page) :
        dedupe' = [dedupe EXCEPT ![r] = [dedupe[r] EXCEPT
           !.index = P!Indexed(dedupe[r].index, page), !.cursor = next,
           !.cursors = IF next = P!NoPhoto THEN {} ELSE dedupe[r].cursors \cup {next},
           !.pc = IF next = P!NoPhoto THEN "plan"
                  ELSE IF next \in dedupe[r].cursors THEN "failed" ELSE "scan"]]
  BY <1>1
<1> DEFINE pc == IF next = P!NoPhoto THEN "plan" ELSE IF next \in dedupe[r].cursors THEN "failed" ELSE "scan"
           index == P!Indexed(dedupe[r].index, page)
           cursors == IF next = P!NoPhoto THEN {} ELSE dedupe[r].cursors \cup {next}
           w == [dedupe[r] EXCEPT !.index = index, !.cursor = next, !.cursors = cursors, !.pc = pc]
<1>3. dedupe[r] \in RunType /\ RunInv(r) /\ live \subseteq Pictures
  BY DEF DedupeInv, TypesOfDedupe
<1>4. page \subseteq live /\ next \in Pictures \cup {P!NoPhoto}
  BY <1>3, PagesAreLive DEF P!Cursors
<1>5. index \in [Pictures -> Nat] /\ \A p \in Pictures : index[p] = IF p \in page THEN 1 ELSE dedupe[r].index[p]
  BY <1>3 DEF P!Indexed, RunType
<1>6. pc \in {"plan", "failed", "scan"} /\ cursors \in SUBSET Pictures
  BY <1>3, <1>4 DEF RunType
<1> HIDE DEF pc, index, cursors
<1>7. /\ w \in RunType /\ w.pc = pc /\ w.index = index /\ w.todo = dedupe[r].todo
      /\ w.trashed = dedupe[r].trashed /\ w.errors = dedupe[r].errors
  BY <1>3, <1>4, <1>5, <1>6 DEF RunType
<1>8. dedupe' = [dedupe EXCEPT ![r] = w]
  BY <1>2 DEF pc, index, cursors
<1>9. dedupe'[r] = w /\ UNCHANGED <<live, trash, chosen, faults>>
  BY <1>8 DEF P!ReadPage, DedupeInv, TypesOfDedupe
<1> HIDE DEF w
<1>10. TodoIsJustified(r)'
  BY <1>3, <1>7, <1>9, StandStill, ReasonsStay DEF RunInv, TodoIsJustified
<1>11. IndexWasSeen(r)'
  BY <1>3, <1>4, <1>5, <1>7, <1>9 DEF RunInv, IndexWasSeen, Ever
<1>12. IndexOfScan(r)' /\ PlanIsKept(r)'
  BY <1>3, <1>6, <1>7, <1>9 DEF RunInv, IndexOfScan, PlanIsKept
<1> QED BY <1>7, <1>8, <1>9, <1>10, <1>11, <1>12, StandStill, RunKeeps DEF RunInv

\* Of an index in which nothing is counted twice, what is extra has a lower copy.
LEMMA ExtrasHaveLower ==
    ASSUME NEW r \in Runs, dedupe[r] \in RunType, IndexWasSeen(r)
    PROVE  \A p \in P!Extras(dedupe[r].index) : p \in Pictures /\ HasLower(p)
BY DEF IndexWasSeen, P!Extras, P!Read, HasLower, RunType

LEMMA PlanKeeps == ASSUME DedupeInv, NEW r \in Runs, P!Plan(r) PROVE DedupeInv'
<1> DEFINE w == [dedupe[r] EXCEPT !.pc = "remove", !.cursors = {}, !.todo = P!Extras(dedupe[r].index)]
<1>1. dedupe[r] \in RunType /\ RunInv(r)
  BY DEF DedupeInv, TypesOfDedupe
<1>2. P!Extras(dedupe[r].index) \in SUBSET Pictures /\ \A p \in P!Extras(dedupe[r].index) : Justified(p)
  BY <1>1, ExtrasHaveLower DEF RunInv, Justified
<1>3. /\ w \in RunType /\ w.pc = "remove" /\ w.index = dedupe[r].index
      /\ w.todo = P!Extras(dedupe[r].index) /\ w.trashed = dedupe[r].trashed
  BY <1>1, <1>2 DEF RunType
<1>4. dedupe' = [dedupe EXCEPT ![r] = w] /\ UNCHANGED <<live, trash, chosen, faults>>
  BY DEF P!Plan
<1>5. dedupe'[r] = w
  BY <1>4 DEF DedupeInv, TypesOfDedupe
<1> HIDE DEF w
<1>6. TodoIsJustified(r)'
  BY <1>2, <1>3, <1>4, <1>5, StandStill, ReasonsStay DEF TodoIsJustified
<1>7. IndexWasSeen(r)' /\ IndexOfScan(r)'
  BY <1>1, <1>3, <1>4, <1>5 DEF RunInv, IndexWasSeen, IndexOfScan, Ever
<1>8. PlanIsKept(r)'
  BY <1>1, <1>3, <1>4, <1>5 DEF RunInv, PlanIsKept, P!Extras, P!Read
<1> QED BY <1>3, <1>4, <1>6, <1>7, <1>8, StandStill, RunKeeps DEF RunInv

LEMMA ChooseKeeps == ASSUME DedupeInv, NEW r \in Runs, P!Choose(r) PROVE DedupeInv'
<1>1. PICK p \in live : /\ dedupe' = [dedupe EXCEPT ![r] = [dedupe[r] EXCEPT !.pc = "check", !.todo = {p}]]
                       /\ chosen' = chosen \cup {p}
  BY DEF P!Choose
<1> DEFINE w == [dedupe[r] EXCEPT !.pc = "check", !.todo = {p}]
<1>2. dedupe[r] \in RunType /\ RunInv(r) /\ p \in Pictures /\ dedupe[r].pc = "idle" /\ UNCHANGED <<live, trash, faults>>
  BY DEF DedupeInv, TypesOfDedupe, P!Choose
<1>3. /\ w \in RunType /\ w.pc = "check" /\ w.index = dedupe[r].index /\ w.todo = {p}
      /\ w.trashed = dedupe[r].trashed
  BY <1>2 DEF RunType
<1>4. dedupe'[r] = w /\ Grows
  BY <1>1, <1>2 DEF DedupeInv, TypesOfDedupe, Grows, Ever
<1> HIDE DEF w
<1>5. TodoIsJustified(r)'
  BY <1>1, <1>3, <1>4 DEF TodoIsJustified, Justified
<1>6. IndexWasSeen(r)' /\ IndexOfScan(r)'
  BY <1>2, <1>3, <1>4 DEF RunInv, IndexWasSeen, IndexOfScan, Ever
<1>7. PlanIsKept(r)'
  BY <1>2, <1>3, <1>4 DEF RunInv, PlanIsKept
<1>8. \A q \in trash' : Justified(q)'
  BY <1>2, <1>4, ReasonsStay DEF DedupeInv
<1>9. /\ live' \subseteq Pictures /\ trash' \subseteq Pictures /\ chosen' \subseteq Pictures
      /\ faults' \in 0..MaxFaults /\ live' \cap trash' = {}
  BY <1>1, <1>2 DEF DedupeInv, TypesOfDedupe
<1> QED BY <1>1, <1>3, <1>4, <1>5, <1>6, <1>7, <1>8, <1>9, RunKeeps DEF RunInv, w

LEMMA TrashBatchKeeps == ASSUME DedupeInv, NEW r \in Runs, P!TrashBatch(r) PROVE DedupeInv'
<1>1. PICK batch \in P!Batches(dedupe[r].todo), applied \in BOOLEAN, answered \in BOOLEAN :
        /\ answered => applied
        /\ ~answered => faults < MaxFaults
        /\ faults' = IF answered THEN faults ELSE faults + 1
        /\ LET moved == IF applied THEN batch \cap live ELSE {} IN
           /\ live' = live \ moved /\ trash' = trash \cup moved
           /\ dedupe' = [dedupe EXCEPT ![r] = [dedupe[r] EXCEPT
                          !.todo = dedupe[r].todo \ batch,
                          !.trashed = dedupe[r].trashed \cup (IF answered THEN moved ELSE {}),
                          !.errors = dedupe[r].errors \cup (IF answered THEN batch \ moved ELSE batch)]]
  BY DEF P!TrashBatch
<1> DEFINE moved == IF applied THEN batch \cap live ELSE {}
           there == dedupe[r].trashed \cup (IF answered THEN moved ELSE {})
           refused == dedupe[r].errors \cup (IF answered THEN batch \ moved ELSE batch)
           w == [dedupe[r] EXCEPT !.todo = dedupe[r].todo \ batch, !.trashed = there, !.errors = refused]
<1>2. /\ dedupe[r] \in RunType /\ RunInv(r) /\ dedupe[r].pc = "remove" /\ chosen' = chosen
      /\ live \subseteq Pictures /\ trash \subseteq Pictures
  BY DEF DedupeInv, TypesOfDedupe, P!TrashBatch
<1>3. batch \subseteq dedupe[r].todo /\ batch \subseteq Pictures /\ moved \subseteq batch \cap live
  BY <1>2 DEF P!Batches, RunType
<1>4. /\ there \in SUBSET Pictures /\ refused \in SUBSET Pictures
      /\ there \subseteq dedupe[r].trashed \cup moved
      /\ dedupe[r].trashed \subseteq there /\ dedupe[r].errors \subseteq refused /\ batch \subseteq there \cup refused
  BY <1>2, <1>3 DEF RunType
<1>5. live' = live \ moved /\ trash' = trash \cup moved /\ dedupe' = [dedupe EXCEPT ![r] = w]
  BY <1>1
<1> HIDE DEF moved, there, refused
<1>6. /\ w \in RunType /\ w.pc = "remove" /\ w.index = dedupe[r].index /\ w.todo = dedupe[r].todo \ batch
      /\ w.trashed = there /\ w.errors = refused
  BY <1>2, <1>4 DEF RunType
<1>7. dedupe'[r] = w
  BY <1>5 DEF DedupeInv, TypesOfDedupe
<1> HIDE DEF w
<1>8. Grows /\ Ever' = Ever
  BY <1>2, <1>3, <1>5 DEF Grows, Ever
<1>9. TodoIsJustified(r)'
  BY <1>2, <1>6, <1>7, <1>8, ReasonsStay DEF RunInv, TodoIsJustified
<1>10. IndexWasSeen(r)' /\ IndexOfScan(r)'
  BY <1>2, <1>6, <1>7, <1>8 DEF RunInv, IndexWasSeen, IndexOfScan
<1>11. PlanIsKept(r)'
  <2>1. dedupe[r].trashed \subseteq trash
        /\ P!Extras(dedupe[r].index) \subseteq dedupe[r].todo \cup dedupe[r].trashed \cup dedupe[r].errors
    BY <1>2 DEF RunInv, PlanIsKept
  <2>2. w.trashed \subseteq trash'
    BY <2>1, <1>4, <1>5, <1>6
  <2>3. P!Extras(w.index) \subseteq w.todo \cup w.trashed \cup w.errors
    <3>1. w.index = dedupe[r].index
      BY <1>6
    <3>2. P!Extras(w.index) = P!Extras(dedupe[r].index)
      BY <3>1
    <3> QED BY <2>1, <3>2, <1>4, <1>6
  <2> QED BY <2>2, <2>3, <1>6, <1>7 DEF PlanIsKept, P!Extras, P!Read
<1>12. \A q \in trash' : Justified(q)'
  <2>1. \A q \in trash \cup moved : Justified(q)
    BY <1>2, <1>3 DEF DedupeInv, RunInv, TodoIsJustified
  <2> QED BY <2>1, <1>5, <1>8, ReasonsStay
<1>13. /\ live' \subseteq Pictures /\ trash' \subseteq Pictures /\ chosen' \subseteq Pictures
       /\ faults' \in 0..MaxFaults /\ live' \cap trash' = {}
  BY <1>1, <1>2, <1>3, <1>5, DedupeIsGiven DEF DedupeInv, TypesOfDedupe
<1> QED BY <1>5, <1>6, <1>8, <1>9, <1>10, <1>11, <1>12, <1>13, RunKeeps DEF RunInv

LEMMA AddKeeps == ASSUME DedupeInv, P!Add PROVE DedupeInv'
<1>1. PICK p \in Pictures \ Ever : live' = live \cup {p}
  BY DEF P!Add, Ever
<1>2. UNCHANGED <<trash, dedupe, chosen, faults>>
  BY DEF P!Add
<1>3. Grows
  BY <1>1, <1>2 DEF Grows, Ever
<1>4. \A r \in Runs : RunInv(r)'
  BY <1>2, <1>3, OtherRunsKeep DEF DedupeInv
<1>5. \A q \in trash' : Justified(q)'
  BY <1>2, <1>3, ReasonsStay DEF DedupeInv
<1>6. TypesOfDedupe' /\ live' \cap trash' = {}
  BY <1>1, <1>2 DEF DedupeInv, TypesOfDedupe, Ever
<1> QED BY <1>4, <1>5, <1>6 DEF DedupeInv

LEMMA DedupeKeeps == ASSUME DedupeInv, P!Next PROVE DedupeInv'
<1>1. CASE P!Add
  BY <1>1, AddKeeps
<1>2. ASSUME NEW r \in Runs, P!Start(r) \/ P!Check(r) \/ P!Report(r) PROVE DedupeInv'
  BY <1>2, PlaceKeeps DEF P!Start, P!Check, P!Report
<1>3. ASSUME NEW r \in Runs, P!ReadPage(r) \/ P!Plan(r) \/ P!Choose(r) \/ P!TrashBatch(r) PROVE DedupeInv'
  BY <1>3, ReadPageKeeps, PlanKeeps, ChooseKeeps, TrashBatchKeeps
<1> QED BY <1>1, <1>2, <1>3 DEF P!Next

LEMMA DedupeStarts == ASSUME P!Init PROVE DedupeInv
<1>1. P!Idle \in RunType
  BY DEF P!Idle, RunType
<1>2. /\ TypesOfDedupe /\ live \cap trash = {} /\ trash = {}
      /\ \A r \in Runs : dedupe[r] = P!Idle
  BY <1>1, DedupeIsGiven DEF P!Init, TypesOfDedupe
<1>3. ASSUME NEW r \in Runs PROVE RunInv(r)
  BY <1>2 DEF P!Idle, RunInv, TodoIsJustified, IndexWasSeen, IndexOfScan, PlanIsKept
<1> QED BY <1>2, <1>3 DEF DedupeInv

\* Of any photos there is one with the lowest uid.
LEMMA Lowest ==
    ASSUME NEW uids, uids \subseteq Nat, uids # {}
    PROVE  \E m \in uids : \A p \in uids : ~(p < m)
<1>1. PICK m \in uids : \A p \in uids : ~(<<p, m>> \in OpToRel(<, Nat))
  BY NatLessThanWellFounded, WFMin
<1> QED BY <1>1 DEF OpToRel

LEMMA DedupeInvIsSound == ASSUME DedupeInv PROVE P!DedupeIsSound
<1>1. P!TypeOK
  BY DEF DedupeInv, TypesOfDedupe, RunType, P!TypeOK
<1>2. P!OneCopyStays
  <2> SUFFICES ASSUME NEW c \in {ContentOf[p] : p \in Ever},
                      {p \in Ever : ContentOf[p] = c} \cap chosen = {}
               PROVE  IF c = P!Unknown THEN {p \in Ever : ContentOf[p] = c} \subseteq live
                      ELSE {p \in Ever : ContentOf[p] = c} \cap live # {}
    BY DEF P!OneCopyStays, Ever
  <2> DEFINE alike == {p \in Ever : ContentOf[p] = c}
  <2>1. \A p \in alike \cap trash : HasLower(p)
    BY DEF DedupeInv, Justified
  <2>2. CASE c = P!Unknown
    BY <2>1, <2>2 DEF HasLower, Ever
  <2>3. CASE c # P!Unknown
    <3>1. alike # {} /\ alike \subseteq Nat
      BY PicturesAreGiven DEF DedupeInv, TypesOfDedupe, Ever
    <3>2. PICK m \in alike : \A p \in alike : ~(p < m)
      BY <3>1, Lowest
    <3>3. m \notin trash
      BY <2>1, <3>2 DEF HasLower
    <3> QED BY <2>3, <3>2, <3>3 DEF Ever
  <2> QED BY <2>2, <2>3
<1>3. P!ReportIsTrue
  <2> SUFFICES ASSUME NEW r \in Runs, dedupe[r].pc = "done",
                      NEW p \in P!Read(dedupe[r].index) \cap live, NEW q \in P!Read(dedupe[r].index) \cap live,
                      ContentOf[p] = ContentOf[q], ContentOf[p] # P!Unknown
               PROVE  p = q
    BY DEF DedupeInv, RunInv, PlanIsKept, P!ReportIsTrue
  <2>1. P!Extras(dedupe[r].index) \subseteq trash /\ live \cap trash = {}
    BY DEF DedupeInv, RunInv, PlanIsKept
  <2>2. p \notin P!Extras(dedupe[r].index) /\ q \notin P!Extras(dedupe[r].index)
    BY <2>1
  <2>3. ~(q < p) /\ ~(p < q)
    BY <2>2 DEF P!Extras
  <2>4. p \in Nat /\ q \in Nat
    BY PicturesAreGiven DEF P!Read
  <2> QED BY <2>3, <2>4
<1> QED BY <1>1, <1>2, <1>3 DEF P!DedupeIsSound

-----------------------------------------------------------------------------
(* The library.  What is in the timeline stays there; what a transfer is about to send
   is still where it was read; and a call that deletes an album knows when a photo could
   not be saved. *)

CallType == [op : {"none", "delete", "save", "add", "remove", "rename", "create", "favorite"},
             pc : {"idle", "delete", "retry", "details", "related", "transfer", "add", "rename", "create",
                   "parent", "build", "favorite"},
             save : BOOLEAN, force : BOOLEAN, todo : Seq(Pictures), photo : Pictures \cup {L!NoPhoto},
             extra : SUBSET Pictures, read : SUBSET Pictures, payload : SUBSET Pictures,
             attempt : {0, 1}, digest : 0 .. 3, result : {"none", "ok", "error"}]

\* Places that no deletion of an album comes to.
Elsewhere == {"add", "rename", "create", "parent", "build", "favorite"}
OfPhoto == {"details", "related", "transfer", "add", "parent", "build"}

CallIsWhole(c) == /\ c \in CallType
                  /\ c.op = "delete" /\ c.pc # "idle" => c.result # "ok"
                  /\ c.pc \in Elsewhere => c.op # "delete"
                  /\ c.pc \in OfPhoto => c.photo \in Pictures

TypesOfLibrary == /\ home \in [Pictures -> L!Homes] /\ members \subseteq Pictures /\ album \in 0 .. 3
                  /\ copies \subseteq Pictures /\ related \in [Pictures -> SUBSET Pictures]
                  /\ saved \cup unread \subseteq Pictures /\ albumCalls \in 0 .. MaxCalls /\ contributed \in 0 .. MaxAdded

PayloadIsThere == albumCall.pc \in {"related", "transfer"} => \A q \in albumCall.payload : L!There(q)

LibraryInv == /\ TypesOfLibrary /\ CallIsWhole(albumCall) /\ PayloadIsThere
              /\ L!NothingIsLost /\ L!SavedIsWhole /\ L!DeletedIsGone

\* A call that ends with the photos it had, or goes on with the next.
LEMMA NextPhotoIsWhole ==
    ASSUME NEW c \in CallType, c.op = "delete" => c.result # "ok"
    PROVE  /\ CallIsWhole(L!NextPhoto(c))
           /\ L!NextPhoto(c).pc \in {"idle", "retry", "details"}
           /\ L!NextPhoto(c).op = c.op /\ L!NextPhoto(c).result = c.result
<1>1. CASE c.todo = <<>>
  <2> DEFINE pc == IF c.op = "delete" /\ c.result # "error" THEN "retry" ELSE "idle"
             w == [c EXCEPT !.pc = pc]
  <2>1. L!NextPhoto(c) = w
    BY <1>1 DEF L!NextPhoto
  <2>2. pc \in {"idle", "retry"}
    OBVIOUS
  <2> HIDE DEF pc
  <2>3. w \in CallType /\ w.pc = pc /\ w.op = c.op /\ w.result = c.result
    BY <2>2 DEF CallType
  <2> HIDE DEF w
  <2> QED BY <2>1, <2>2, <2>3 DEF CallIsWhole, Elsewhere, OfPhoto
<1>2. CASE c.todo # <<>>
  <2> DEFINE first == Head(c.todo)
             rest == Tail(c.todo)
             w == [c EXCEPT !.pc = "details", !.photo = first, !.todo = rest, !.extra = {}, !.attempt = 0]
  <2>1. L!NextPhoto(c) = w
    BY <1>2 DEF L!NextPhoto
  <2>2. first \in Pictures /\ rest \in Seq(Pictures)
    BY <1>2 DEF CallType
  <2> HIDE DEF first, rest
  <2>3. w \in CallType /\ w.pc = "details" /\ w.photo \in Pictures /\ w.op = c.op /\ w.result = c.result
    BY <2>2 DEF CallType
  <2> HIDE DEF w
  <2> QED BY <2>1, <2>2, <2>3 DEF CallIsWhole, Elsewhere, OfPhoto
<1> QED BY <1>1, <1>2

LEMMA FailedIsWhole ==
    ASSUME NEW c \in CallType
    PROVE  /\ CallIsWhole(L!Failed(c))
           /\ L!Failed(c).pc \in {"idle", "retry", "details"} /\ L!Failed(c).result = "error"
<1> DEFINE w == [c EXCEPT !.result = "error"]
<1>1. w \in CallType /\ w.result = "error"
  BY DEF CallType
<1>2. L!Failed(c) = L!NextPhoto(w)
  BY DEF L!Failed
<1> QED BY <1>1, <1>2, NextPhotoIsWhole

\* Only the call takes a step.
LEMMA CallKeeps ==
    ASSUME LibraryInv, UNCHANGED <<home, members, album, copies, related, saved, unread, lost>>,
           albumCalls' \in 0 .. MaxCalls, contributed' \in 0 .. MaxAdded, CallIsWhole(albumCall'),
           albumCall'.pc \in {"related", "transfer"} => \A q \in albumCall'.payload : L!There(q),
           \/ albumCall'.pc # "idle" \/ albumCall'.op # "delete" \/ albumCall'.result # "ok"
    PROVE  LibraryInv'
<1>1. TypesOfLibrary' /\ L!NothingIsLost' /\ L!SavedIsWhole'
  BY DEF LibraryInv, TypesOfLibrary, L!NothingIsLost, L!SavedIsWhole, L!InTimeline
<1>2. PayloadIsThere' /\ L!DeletedIsGone'
  BY DEF PayloadIsThere, L!There, L!DeletedIsGone
<1> QED BY <1>1, <1>2 DEF LibraryInv

\* A call begins.
LEMMA BeginKeeps ==
    ASSUME LibraryInv, NEW c, L!Begin(c), UNCHANGED <<home, members, album, copies, related, saved, unread, lost, contributed>>,
           CallIsWhole(c), c.pc \notin {"related", "transfer"},
           c.op = "delete" => c.pc # "idle" \/ c.result # "ok"
    PROVE  LibraryInv'
<1>1. albumCalls' \in 0 .. MaxCalls /\ contributed' \in 0 .. MaxAdded /\ albumCall' = c
  BY LibraryIsGiven DEF LibraryInv, TypesOfLibrary, L!Begin
<1> QED BY <1>1, CallKeeps

LEMMA IdleIsCall == L!Idle \in CallType /\ L!Idle.pc = "idle" /\ L!Idle.result = "none"
BY DEF L!Idle, CallType

LEMMA BeginningsKeep ==
    ASSUME LibraryInv,
           \/ L!DeleteAlbum \/ L!SaveToTimeline \/ L!AddPhoto \/ L!UpdateAlbum \/ L!CreateAlbum \/ L!FavoritePhoto
    PROVE  LibraryInv'
<1>1. CASE L!DeleteAlbum
  <2>1. PICK force \in BOOLEAN, save \in BOOLEAN :
          L!Begin([L!Idle EXCEPT !.op = "delete", !.pc = "delete", !.force = force, !.save = save])
    BY <1>1 DEF L!DeleteAlbum
  <2> DEFINE c == [L!Idle EXCEPT !.op = "delete", !.pc = "delete", !.force = force, !.save = save]
  <2>2. c \in CallType /\ c.op = "delete" /\ c.pc = "delete" /\ c.result = "none"
    BY ZenonT(60), IdleIsCall DEF CallType
  <2> HIDE DEF c
  <2> QED BY <1>1, <2>1, <2>2, BeginKeeps DEF L!DeleteAlbum, L!Library, CallIsWhole, Elsewhere, OfPhoto, c
<1>2. CASE L!SaveToTimeline
  <2>1. PICK p \in Pictures, q \in Pictures : L!Begin(L!NextPhoto([L!Idle EXCEPT !.op = "save", !.todo = <<p, q>>]))
    BY <1>2 DEF L!SaveToTimeline
  <2> DEFINE both == <<p, q>>
             c == [L!Idle EXCEPT !.op = "save", !.todo = both]
  <2>2. both \in Seq(Pictures)
    OBVIOUS
  <2> HIDE DEF both
  <2>3. c \in CallType /\ c.op = "save"
    BY <2>2, IdleIsCall DEF CallType
  <2> HIDE DEF c
  <2>4. CallIsWhole(L!NextPhoto(c)) /\ L!NextPhoto(c).op = "save" /\ L!NextPhoto(c).pc \in {"idle", "retry", "details"}
    BY <2>3, NextPhotoIsWhole
  <2> QED BY <1>2, <2>1, <2>4, BeginKeeps DEF L!SaveToTimeline, L!Library, c, both
<1>3. CASE L!AddPhoto
  <2>1. PICK p \in Pictures : L!Begin([L!Idle EXCEPT !.op = "add", !.pc = "add", !.photo = p])
                              /\ UNCHANGED <<L!Library, contributed>>
    BY <1>3 DEF L!AddPhoto
  <2> DEFINE c == [L!Idle EXCEPT !.op = "add", !.pc = "add", !.photo = p]
  <2>2. c \in CallType /\ c.op = "add" /\ c.pc = "add" /\ c.photo \in Pictures
    BY IdleIsCall DEF CallType
  <2> HIDE DEF c
  <2> QED BY <2>1, <2>2, BeginKeeps DEF L!Library, CallIsWhole, Elsewhere, OfPhoto, c
<1>4. CASE L!UpdateAlbum
  <2> DEFINE c == [L!Idle EXCEPT !.op = "rename", !.pc = "rename", !.digest = album]
  <2>1. c \in CallType /\ c.op = "rename" /\ c.pc = "rename"
    BY IdleIsCall DEF CallType, LibraryInv, TypesOfLibrary
  <2>2. L!Begin(c) /\ UNCHANGED <<L!Library, contributed>>
    BY <1>4 DEF L!UpdateAlbum
  <2> HIDE DEF c
  <2> QED BY <2>1, <2>2, BeginKeeps DEF L!Library, CallIsWhole, Elsewhere, OfPhoto
<1>5. CASE L!CreateAlbum
  <2> DEFINE c == [L!Idle EXCEPT !.op = "create", !.pc = "create"]
  <2>1. c \in CallType /\ c.op = "create" /\ c.pc = "create"
    BY IdleIsCall DEF CallType
  <2>2. L!Begin(c) /\ UNCHANGED <<L!Library, contributed>>
    BY <1>5 DEF L!CreateAlbum
  <2> HIDE DEF c
  <2> QED BY <2>1, <2>2, BeginKeeps DEF L!Library, CallIsWhole, Elsewhere, OfPhoto
<1>6. CASE L!FavoritePhoto
  <2>1. UNCHANGED <<L!Library, contributed>>
    BY <1>6 DEF L!FavoritePhoto
  <2>2. CASE \E r \in {"ok", "error"} : L!Begin([L!Idle EXCEPT !.op = "favorite", !.result = r])
    <3>1. PICK r \in {"ok", "error"} : L!Begin([L!Idle EXCEPT !.op = "favorite", !.result = r])
      BY <2>2
    <3> DEFINE c == [L!Idle EXCEPT !.op = "favorite", !.result = r]
    <3>2. c \in CallType /\ c.op = "favorite" /\ c.pc = "idle"
      BY IdleIsCall DEF CallType
    <3> HIDE DEF c
    <3> QED BY <2>1, <3>1, <3>2, BeginKeeps DEF L!Library, CallIsWhole, Elsewhere, OfPhoto, c
  <2>3. CASE \E p \in Pictures : L!Begin([L!Idle EXCEPT !.op = "favorite", !.pc = "parent", !.photo = p])
    <3>1. PICK p \in Pictures : L!Begin([L!Idle EXCEPT !.op = "favorite", !.pc = "parent", !.photo = p])
      BY <2>3
    <3> DEFINE c == [L!Idle EXCEPT !.op = "favorite", !.pc = "parent", !.photo = p]
    <3>2. c \in CallType /\ c.op = "favorite" /\ c.pc = "parent" /\ c.photo \in Pictures
      BY IdleIsCall DEF CallType
    <3> HIDE DEF c
    <3> QED BY <2>1, <3>1, <3>2, BeginKeeps DEF L!Library, CallIsWhole, Elsewhere, OfPhoto, c
  <2> QED BY <1>6, <2>2, <2>3 DEF L!FavoritePhoto
<1> QED BY <1>1, <1>2, <1>3, <1>4, <1>5, <1>6

\* A call reads; nothing but the call changes.
LEMMA ReadDetailsKeeps == ASSUME LibraryInv, L!ReadDetails PROVE LibraryInv'
<1>1. /\ albumCall \in CallType /\ albumCall.pc = "details" /\ CallIsWhole(albumCall)
      /\ UNCHANGED <<home, members, album, copies, related, saved, unread, lost, albumCalls, contributed>>
      /\ albumCalls \in 0 .. MaxCalls /\ contributed \in 0 .. MaxAdded
  BY DEF L!ReadDetails, L!Library, LibraryInv, CallIsWhole, TypesOfLibrary
<1>2. CASE albumCall' = L!Failed(albumCall)
  BY <1>1, <1>2, FailedIsWhole, CallKeeps
<1>3. CASE L!There(albumCall.photo) /\ albumCall' # L!Failed(albumCall)
  <2> DEFINE again == related[albumCall.photo] \cup albumCall.extra
             w == [albumCall EXCEPT !.pc = "related", !.payload = {}, !.read = again]
  <2>1. albumCall' = w
    BY <1>3 DEF L!ReadDetails
  <2>2. albumCall.photo \in Pictures
    BY <1>1 DEF CallIsWhole, OfPhoto
  <2>3. again \in SUBSET Pictures
    BY <1>1, <2>2 DEF CallType, LibraryInv, TypesOfLibrary
  <2> HIDE DEF again
  <2>4. w \in CallType /\ w.pc = "related" /\ w.payload = {} /\ w.photo = albumCall.photo /\ w.op = albumCall.op /\ w.result = albumCall.result
    BY <1>1, <2>3 DEF CallType
  <2> HIDE DEF w
  <2>5. CallIsWhole(w)
    BY <1>1, <2>4 DEF CallIsWhole, Elsewhere, OfPhoto
  <2> QED BY <1>1, <2>1, <2>4, <2>5, CallKeeps
<1> QED BY <1>2, <1>3 DEF L!ReadDetails

LEMMA ReadRelatedKeeps == ASSUME LibraryInv, L!ReadRelated PROVE LibraryInv'
<1>1. /\ albumCall \in CallType /\ albumCall.pc = "related" /\ CallIsWhole(albumCall)
      /\ UNCHANGED <<home, members, album, copies, related, saved, unread, lost, albumCalls, contributed>>
      /\ albumCalls \in 0 .. MaxCalls /\ contributed \in 0 .. MaxAdded
      /\ \A q \in albumCall.payload : L!There(q)
  BY DEF L!ReadRelated, L!Library, LibraryInv, CallIsWhole, TypesOfLibrary, PayloadIsThere
<1>2. CASE albumCall' = L!Failed(albumCall)
  BY <1>1, <1>2, FailedIsWhole, CallKeeps
<1>3. CASE albumCall' = [albumCall EXCEPT !.pc = "transfer"]
  <2> DEFINE w == [albumCall EXCEPT !.pc = "transfer"]
  <2>1. /\ w \in CallType /\ w.pc = "transfer" /\ w.payload = albumCall.payload /\ w.op = albumCall.op /\ w.photo = albumCall.photo
        /\ w.result = albumCall.result
    BY <1>1 DEF CallType
  <2> HIDE DEF w
  <2>2. CallIsWhole(w)
    BY <1>1, <2>1 DEF CallIsWhole, Elsewhere, OfPhoto
  <2> QED BY <1>1, <1>3, <2>1, <2>2, CallKeeps DEF w
<1>4. ASSUME NEW q \in albumCall.read, L!There(q),
             albumCall' = [albumCall EXCEPT !.read = @ \ {q}, !.payload = @ \cup {q}]
      PROVE  LibraryInv'
  <2> DEFINE rest == albumCall.read \ {q}
             payload == albumCall.payload \cup {q}
             w == [albumCall EXCEPT !.read = rest, !.payload = payload]
  <2>1. albumCall' = w
    BY <1>1, <1>4 DEF CallType
  <2>2. rest \in SUBSET Pictures /\ payload \in SUBSET Pictures /\ \A x \in payload : L!There(x)
    BY <1>1, <1>4 DEF CallType
  <2> HIDE DEF rest, payload
  <2>3. /\ w \in CallType /\ w.pc = "related" /\ w.payload = payload /\ w.op = albumCall.op /\ w.photo = albumCall.photo
        /\ w.result = albumCall.result
    BY <1>1, <2>2 DEF CallType
  <2> HIDE DEF w
  <2>4. CallIsWhole(w)
    BY <1>1, <2>3 DEF CallIsWhole, Elsewhere, OfPhoto
  <2> QED BY <1>1, <2>1, <2>2, <2>3, <2>4, CallKeeps
<1> QED BY <1>2, <1>3, <1>4 DEF L!ReadRelated

LEMMA FavoritePayloadKeeps == ASSUME LibraryInv, L!FavoritePayload PROVE LibraryInv'
<1>1. /\ albumCall \in CallType /\ albumCall.pc \in {"parent", "build"} /\ CallIsWhole(albumCall)
      /\ UNCHANGED <<home, members, album, copies, related, saved, unread, lost, albumCalls, contributed>>
      /\ albumCalls \in 0 .. MaxCalls /\ contributed \in 0 .. MaxAdded
  BY DEF L!FavoritePayload, L!Library, LibraryInv, CallIsWhole, TypesOfLibrary
<1>2. albumCall.op # "delete"
  BY SMTT(30), <1>1 DEF CallIsWhole, Elsewhere, OfPhoto
<1>3. PICK pc \in {"favorite", "build"}, payload \in SUBSET Pictures :
        albumCall' = [albumCall EXCEPT !.pc = pc, !.payload = payload]
  <2>1. ASSUME NEW pc, albumCall' = [albumCall EXCEPT !.pc = pc]
        PROVE  albumCall' = [albumCall EXCEPT !.pc = pc, !.payload = albumCall.payload] /\ albumCall.payload \in SUBSET Pictures
    BY <1>1, <2>1 DEF CallType
  <2>2. CASE albumCall' = [albumCall EXCEPT !.pc = "favorite"]
    BY <2>1, <2>2
  <2>3. CASE albumCall' = [albumCall EXCEPT !.pc = "build"]
    BY <2>1, <2>3
  <2>4. CASE L!There(albumCall.photo) /\ albumCall' = [albumCall EXCEPT !.pc = "favorite", !.payload = {albumCall.photo}]
    <3>1. {albumCall.photo} \in SUBSET Pictures
      BY <1>1 DEF CallIsWhole, OfPhoto
    <3> QED BY <2>4, <3>1
  <2> QED BY <2>2, <2>3, <2>4 DEF L!FavoritePayload
<1> DEFINE w == [albumCall EXCEPT !.pc = pc, !.payload = payload]
<1>4. w \in CallType /\ w.pc = pc /\ w.op = albumCall.op /\ w.photo = albumCall.photo /\ w.pc \notin {"idle", "related", "transfer"}
  BY <1>1, <1>3 DEF CallType
<1> HIDE DEF w
<1>5. CallIsWhole(w)
  BY <1>1, <1>2, <1>3, <1>4 DEF CallIsWhole, OfPhoto
<1> QED BY <1>1, <1>3, <1>4, <1>5, CallKeeps DEF w

\* A call returns.
LEMMA ReturnIsWhole ==
    ASSUME CallIsWhole(albumCall), NEW result \in {"ok", "error"}, L!Return(result)
    PROVE  CallIsWhole(albumCall') /\ albumCall'.pc = "idle" /\ albumCall'.result = result
           /\ albumCall'.op = albumCall.op
<1> DEFINE w == [albumCall EXCEPT !.pc = "idle", !.result = result]
<1>1. w \in CallType /\ w.pc = "idle" /\ w.result = result /\ w.op = albumCall.op
  BY DEF CallIsWhole, CallType
<1> HIDE DEF w
<1> QED BY <1>1 DEF CallIsWhole, Elsewhere, OfPhoto, L!Return, w

\* What a step may do to the library: what is in the timeline stays in it, no photo
\* goes with the album, and what is saved is in the timeline or its answer was not read.
LEMMA LibraryChanges ==
    ASSUME LibraryInv, TypesOfLibrary', CallIsWhole(albumCall'), lost' = lost, L!DeletedIsGone',
           L!SavedIsWhole', PayloadIsThere'
    PROVE  LibraryInv'
BY DEF LibraryInv, L!NothingIsLost, L!SavedIsWhole

LEMMA DeleteKeeps ==
    ASSUME LibraryInv, L!MayDelete(albumCall.force), L!DeleteIt(albumCall.force), L!Return("ok"),
           UNCHANGED <<copies, related, saved, unread, albumCalls, contributed>>
    PROVE  LibraryInv'
<1>1. CallIsWhole(albumCall') /\ albumCall'.pc = "idle"
  BY ReturnIsWhole DEF LibraryInv
<1>2. TypesOfLibrary'
  BY DEF LibraryInv, TypesOfLibrary, L!DeleteIt, L!Homes
<1>3. lost' = lost
  BY DEF L!DeleteIt, L!MayDelete
<1>4. L!SavedIsWhole'
  BY DEF LibraryInv, TypesOfLibrary, L!SavedIsWhole, L!InTimeline, L!DeleteIt
<1>5. L!DeletedIsGone' /\ PayloadIsThere'
  BY <1>1 DEF L!DeletedIsGone, PayloadIsThere, L!DeleteIt
<1> QED BY <1>1, <1>2, <1>3, <1>4, <1>5, LibraryChanges

\* The photos that are in the album only, in any order.
LEMMA InAnyOrder == ASSUME NEW todo \in L!SetToSeqs(L!InAlbumOnly) PROVE todo \in Seq(Pictures)
<1>1. Cardinality(L!InAlbumOnly) \in Nat
  BY PicturesAreGiven, FS_Subset, FS_CardinalityType DEF L!InAlbumOnly
<1>2. L!Cardinality(L!InAlbumOnly) = Cardinality(L!InAlbumOnly)
  BY DEF L!Cardinality, Cardinality
<1>3. todo \in [1 .. Cardinality(L!InAlbumOnly) -> L!InAlbumOnly]
  BY <1>2 DEF L!SetToSeqs
<1> DEFINE n == Cardinality(L!InAlbumOnly)
<1>4. todo \in [1 .. n -> Pictures] /\ n \in Nat
  BY <1>1, <1>3 DEF L!InAlbumOnly
<1> HIDE DEF n
<1> QED BY <1>4

LEMMA DeleteRequestKeeps == ASSUME LibraryInv, L!DeleteRequest PROVE LibraryInv'
<1>1. /\ CallIsWhole(albumCall) /\ albumCall \in CallType /\ albumCall.pc = "delete"
      /\ UNCHANGED <<albumCalls, contributed>> /\ albumCalls \in 0 .. MaxCalls /\ contributed \in 0 .. MaxAdded
      /\ albumCall.op = "delete" => albumCall.result # "ok"
  BY DEF L!DeleteRequest, LibraryInv, CallIsWhole, TypesOfLibrary
<1>2. CASE album # 0 /\ L!MayDelete(albumCall.force)
  BY <1>1, <1>2, DeleteKeeps DEF L!DeleteRequest
<1>3. CASE ~(album # 0 /\ L!MayDelete(albumCall.force))
  <2>1. UNCHANGED <<home, members, album, copies, related, saved, unread, lost>>
    BY <1>3 DEF L!DeleteRequest, L!Library
  <2>2. CASE L!Return("error")
    BY <1>1, <2>1, <2>2, ReturnIsWhole, CallKeeps
  <2>3. ASSUME NEW todo \in L!SetToSeqs(L!InAlbumOnly), albumCall' = L!NextPhoto([albumCall EXCEPT !.todo = todo])
        PROVE  LibraryInv'
    <3> DEFINE w == [albumCall EXCEPT !.todo = todo]
    <3>1. todo \in Seq(Pictures)
      BY InAnyOrder
    <3>2. w \in CallType /\ w.op = albumCall.op /\ w.result = albumCall.result
      BY <1>1, <3>1 DEF CallType
    <3> HIDE DEF w
    <3>3. CallIsWhole(L!NextPhoto(w)) /\ L!NextPhoto(w).pc \in {"idle", "retry", "details"}
          /\ L!NextPhoto(w).op = w.op /\ L!NextPhoto(w).result = w.result
      BY <1>1, <3>2, NextPhotoIsWhole
    <3> QED BY <1>1, <2>1, <2>3, <3>2, <3>3, CallKeeps DEF w
  <2> QED BY <1>3, <2>2, <2>3 DEF L!DeleteRequest
<1> QED BY <1>2, <1>3

LEMMA DeleteAgainKeeps == ASSUME LibraryInv, L!DeleteAgain PROVE LibraryInv'
<1>1. /\ CallIsWhole(albumCall) /\ UNCHANGED <<albumCalls, contributed>>
      /\ albumCalls \in 0 .. MaxCalls /\ contributed \in 0 .. MaxAdded
  BY DEF L!DeleteAgain, LibraryInv, TypesOfLibrary
<1>2. CASE album # 0 /\ L!MayDelete(albumCall.force)
  BY <1>1, <1>2, DeleteKeeps DEF L!DeleteAgain, L!RetryForce
<1>3. CASE ~(album # 0 /\ L!MayDelete(albumCall.force))
  <2>1. L!Return("error") /\ UNCHANGED <<home, members, album, copies, related, saved, unread, lost>>
    BY <1>3 DEF L!DeleteAgain, L!RetryForce, L!Library
  <2> QED BY <1>1, <2>1, ReturnIsWhole, CallKeeps
<1> QED BY <1>2, <1>3

\* Photos that are saved: those of the album are in the timeline then, those of others
\* are copied there.
LEMMA SaveKeeps ==
    ASSUME LibraryInv, NEW these, these \subseteq Pictures, L!Save(these)
    PROVE  /\ home' \in [Pictures -> L!Homes] /\ copies' \subseteq Pictures
           /\ \A p \in Pictures : L!InTimeline(p) => L!InTimeline(p)'
           /\ \A p \in these : L!There(p) => L!InTimeline(p)'
           /\ \A p \in Pictures : L!There(p) => L!There(p)'
BY DEF LibraryInv, TypesOfLibrary, L!Save, L!InTimeline, L!There, L!Homes

LEMMA TransferKeeps == ASSUME LibraryInv, L!Transfer PROVE LibraryInv'
<1>1. /\ CallIsWhole(albumCall) /\ albumCall \in CallType /\ albumCall.pc = "transfer"
      /\ UNCHANGED <<albumCalls, contributed>> /\ albumCalls \in 0 .. MaxCalls /\ contributed \in 0 .. MaxAdded
      /\ albumCall.op = "delete" => albumCall.result # "ok"
      /\ albumCall.photo \in Pictures /\ albumCall.payload \subseteq Pictures
      /\ \A q \in albumCall.payload : L!There(q)
  BY DEF L!Transfer, LibraryInv, CallIsWhole, OfPhoto, CallType, TypesOfLibrary, PayloadIsThere
<1> DEFINE p == albumCall.photo
           missing == L!Missing(p, albumCall.payload)
<1>2. missing \in SUBSET Pictures
  BY <1>1 DEF L!Missing, LibraryInv, TypesOfLibrary
<1> DEFINE batch == {p} \cup albumCall.payload
<1>3. PICK taken \in SUBSET batch, answered \in BOOLEAN :
        /\ L!Takes(p, albumCall.payload, taken) /\ L!Save(taken)
        /\ \/ /\ p \in taken \/ ~answered
              /\ saved' = saved \cup L!Told(p)
              /\ unread' = unread \cup ((IF answered THEN batch ELSE L!Told(p)) \ taken)
              /\ albumCall' = L!NextPhoto(albumCall)
           \/ /\ UNCHANGED <<saved, unread>>
              /\ \/ albumCall' = L!Failed(albumCall)
                 \/ albumCall' = [albumCall EXCEPT !.pc = "details", !.attempt = 1, !.extra = missing]
  BY DEF L!Transfer
<1>4. UNCHANGED <<members, album, related, lost>>
  BY DEF L!Transfer
<1>5. /\ home' \in [Pictures -> L!Homes] /\ copies' \subseteq Pictures
      /\ \A x \in Pictures : L!InTimeline(x) => L!InTimeline(x)'
      /\ \A x \in taken : L!There(x) => L!InTimeline(x)'
      /\ \A x \in Pictures : L!There(x) => L!There(x)'
  BY <1>1, <1>3, SaveKeeps
<1>6. related[p] \subseteq Pictures /\ saved \subseteq Pictures /\ unread \subseteq Pictures
  BY <1>1 DEF LibraryInv, TypesOfLibrary
<1>7. CASE /\ p \in taken \/ ~answered
           /\ saved' = saved \cup L!Told(p)
           /\ unread' = unread \cup ((IF answered THEN batch ELSE L!Told(p)) \ taken)
           /\ albumCall' = L!NextPhoto(albumCall)
  <2>1. L!Told(p) \subseteq Pictures /\ batch \subseteq Pictures
    BY <1>1, <1>6 DEF L!Told
  <2>2. TypesOfLibrary'
    BY <1>1, <1>4, <1>5, <1>6, <1>7, <2>1 DEF LibraryInv, TypesOfLibrary
  <2>3. ASSUME NEW x \in saved' PROVE L!InTimeline(x)' \/ x \in unread'
    <3>1. CASE x \in saved
      BY <1>5, <1>6, <1>7, <3>1 DEF LibraryInv, L!SavedIsWhole
    <3>2. CASE x \in L!Told(p) /\ ~answered /\ x \notin taken
      BY <1>7, <3>2
    <3>3. CASE x \in taken
      <4>1. CASE x \in albumCall.payload
        BY <1>1, <1>5, <3>3, <4>1
      <4>2. CASE x = p
        BY <1>3, <1>5, <3>3, <4>2 DEF L!Takes, L!CanSave, L!There
      <4> QED BY <1>3, <3>3, <4>1, <4>2
    <3>4. CASE x \in L!Told(p) /\ answered /\ x \notin taken
      <4>1. CASE x \in batch
        BY <1>7, <3>4, <4>1
      <4>2. CASE x \notin batch
        <5>1. x \in related[p] /\ L!There(x) /\ p \in taken
          BY <1>7, <3>4, <4>2 DEF L!Told
        <5>2. L!Missing(p, albumCall.payload) = {}
          BY <1>3, <5>1 DEF L!Takes
        <5>3. L!InTimeline(x)
          BY <4>2, <5>1, <5>2 DEF L!Missing
        <5> QED BY <1>5, <1>6, <5>1, <5>3
      <4> QED BY <4>1, <4>2
    <3> QED BY <1>7, <3>1, <3>2, <3>3, <3>4
  <2>4. L!SavedIsWhole'
    BY <2>3 DEF L!SavedIsWhole
  <2>5. CallIsWhole(albumCall') /\ albumCall'.pc \in {"idle", "retry", "details"}
        /\ albumCall'.op = albumCall.op /\ albumCall'.result = albumCall.result
    BY <1>1, <1>7, NextPhotoIsWhole
  <2>6. L!DeletedIsGone' /\ PayloadIsThere'
    BY <1>1, <2>5 DEF L!DeletedIsGone, PayloadIsThere
  <2> QED BY <1>4, <2>2, <2>4, <2>5, <2>6, LibraryChanges
<1>8. CASE /\ UNCHANGED <<saved, unread>>
           /\ \/ albumCall' = L!Failed(albumCall)
              \/ albumCall' = [albumCall EXCEPT !.pc = "details", !.attempt = 1, !.extra = missing]
  <2>1. TypesOfLibrary'
    BY <1>1, <1>4, <1>5, <1>8 DEF LibraryInv, TypesOfLibrary
  <2>2. L!SavedIsWhole'
    BY <1>5, <1>6, <1>8 DEF LibraryInv, L!SavedIsWhole
  <2>3. CASE albumCall' = L!Failed(albumCall)
    BY <1>1, <1>4, <2>1, <2>2, <2>3, FailedIsWhole, LibraryChanges DEF L!DeletedIsGone, PayloadIsThere
  <2>4. CASE albumCall' = [albumCall EXCEPT !.pc = "details", !.attempt = 1, !.extra = missing]
    <3> HIDE DEF missing
    <3> DEFINE w == [albumCall EXCEPT !.pc = "details", !.attempt = 1, !.extra = missing]
    <3>1. w \in CallType /\ w.pc = "details" /\ w.photo = p /\ w.op = albumCall.op /\ w.result = albumCall.result
      BY <1>1, <1>2 DEF CallType
    <3> HIDE DEF w
    <3>2. CallIsWhole(w)
      BY <1>1, <3>1 DEF CallIsWhole, Elsewhere, OfPhoto
    <3> QED BY <1>4, <2>1, <2>2, <2>4, <3>1, <3>2, LibraryChanges DEF L!DeletedIsGone, PayloadIsThere, w
  <2> QED BY <1>8, <2>3, <2>4
<1> QED BY <1>3, <1>7, <1>8

LEMMA RequestFailsKeeps == ASSUME LibraryInv, L!RequestFails PROVE LibraryInv'
<1>1. /\ CallIsWhole(albumCall) /\ albumCall \in CallType /\ albumCall.pc \in {"details", "related", "transfer"}
      /\ UNCHANGED <<albumCalls, contributed>> /\ albumCalls \in 0 .. MaxCalls /\ contributed \in 0 .. MaxAdded
      /\ albumCall' = L!Failed(albumCall)
      /\ albumCall.photo \in Pictures /\ albumCall.payload \subseteq Pictures /\ saved \subseteq Pictures
  BY DEF L!RequestFails, LibraryInv, CallIsWhole, OfPhoto, CallType, TypesOfLibrary
<1>2. CallIsWhole(albumCall') /\ albumCall'.pc \in {"idle", "retry", "details"} /\ albumCall'.result = "error"
  BY <1>1, FailedIsWhole
<1>3. PICK taken \in SUBSET ({albumCall.photo} \cup albumCall.payload) : L!Save(taken)
  BY DEF L!RequestFails
<1>4. UNCHANGED <<members, album, related, saved, unread, lost>>
  BY DEF L!RequestFails
<1>5. /\ home' \in [Pictures -> L!Homes] /\ copies' \subseteq Pictures
      /\ \A x \in Pictures : L!InTimeline(x) => L!InTimeline(x)'
  BY <1>1, <1>3, SaveKeeps
<1>6. TypesOfLibrary'
  BY <1>1, <1>4, <1>5 DEF LibraryInv, TypesOfLibrary
<1>7. L!SavedIsWhole'
  BY <1>1, <1>4, <1>5 DEF LibraryInv, L!SavedIsWhole
<1>8. L!DeletedIsGone' /\ PayloadIsThere'
  BY <1>2 DEF L!DeletedIsGone, PayloadIsThere
<1> QED BY <1>2, <1>4, <1>6, <1>7, <1>8, LibraryChanges

LEMMA SetFavoriteKeeps == ASSUME LibraryInv, L!SetPhotoFavorite PROVE LibraryInv'
<1>1. /\ CallIsWhole(albumCall) /\ albumCall \in CallType /\ albumCall.pc = "favorite"
      /\ UNCHANGED <<members, album, related, saved, unread, lost, albumCalls, contributed>>
      /\ albumCall.payload \subseteq Pictures /\ saved \subseteq Pictures
  BY DEF L!SetPhotoFavorite, LibraryInv, CallIsWhole, CallType, TypesOfLibrary
<1>2. PICK result \in {"ok", "error"} : L!Return(result)
  BY DEF L!SetPhotoFavorite
<1>3. CallIsWhole(albumCall') /\ albumCall'.pc = "idle" /\ albumCall'.op # "delete"
  BY <1>1, <1>2, ReturnIsWhole DEF CallIsWhole, Elsewhere
<1>4. /\ home' \in [Pictures -> L!Homes] /\ copies' \subseteq Pictures
      /\ \A x \in Pictures : L!InTimeline(x) => L!InTimeline(x)'
  <2>1. CASE L!Save({x \in albumCall.payload : home[x] = "album"})
    <3>1. {x \in albumCall.payload : home[x] = "album"} \subseteq Pictures
      BY <1>1
    <3> QED BY <2>1, <3>1, SaveKeeps
  <2>2. CASE UNCHANGED <<home, copies>>
    BY <2>2 DEF LibraryInv, TypesOfLibrary, L!InTimeline
  <2> QED BY <2>1, <2>2 DEF L!SetPhotoFavorite
<1>5. TypesOfLibrary'
  BY <1>1, <1>4 DEF LibraryInv, TypesOfLibrary
<1>6. L!SavedIsWhole'
  BY <1>1, <1>4 DEF LibraryInv, L!SavedIsWhole
<1>7. L!DeletedIsGone' /\ PayloadIsThere'
  BY <1>3 DEF L!DeletedIsGone, PayloadIsThere
<1> QED BY <1>1, <1>3, <1>5, <1>6, <1>7, LibraryChanges

\* Requests of the album: its photos, its name, itself.
LEMMA AlbumKeeps ==
    ASSUME LibraryInv, L!AddRequest \/ L!RemovePhoto \/ L!RenameRequest \/ L!CreateRequest
    PROVE  LibraryInv'
<1>1. UNCHANGED <<home, copies, related, saved, unread, lost, contributed>>
  BY DEF L!AddRequest, L!RemovePhoto, L!RenameRequest, L!CreateRequest
<1>2. CallIsWhole(albumCall') /\ albumCall'.pc = "idle" /\ albumCall'.op # "delete" /\ albumCalls' \in 0 .. MaxCalls
  <2>1. CASE L!RemovePhoto
    <3> DEFINE c == [L!Idle EXCEPT !.op = "remove", !.result = "ok"]
    <3>1. c \in CallType /\ c.pc = "idle" /\ c.op = "remove"
      BY IdleIsCall DEF CallType
    <3>2. L!Begin(c)
      BY <2>1 DEF L!RemovePhoto
    <3> HIDE DEF c
    <3> QED BY <3>1, <3>2, LibraryIsGiven DEF L!Begin, CallIsWhole, Elsewhere, OfPhoto, LibraryInv, TypesOfLibrary
  <2>2. CASE L!AddRequest \/ L!RenameRequest \/ L!CreateRequest
    <3>1. albumCall.pc \in {"add", "rename", "create"} /\ albumCalls' = albumCalls
      BY <2>2 DEF L!AddRequest, L!RenameRequest, L!CreateRequest
    <3>2. PICK result \in {"ok", "error"} : L!Return(result)
      BY <2>2 DEF L!AddRequest, L!RenameRequest, L!CreateRequest
    <3>3. CallIsWhole(albumCall) /\ albumCalls \in 0 .. MaxCalls
      BY DEF LibraryInv, TypesOfLibrary
    <3>4. albumCall.op # "delete"
      BY <3>1, <3>3 DEF CallIsWhole, Elsewhere
    <3> QED BY <3>1, <3>2, <3>3, <3>4, ReturnIsWhole
  <2> QED BY <2>1, <2>2
<1>3. members' \subseteq Pictures /\ album' \in 0 .. 3
  <2>1. L!AddRequest => albumCall.photo \in Pictures
    BY DEF L!AddRequest, LibraryInv, CallIsWhole, OfPhoto
  <2> QED BY <2>1 DEF L!AddRequest, L!RemovePhoto, L!RenameRequest, L!CreateRequest, LibraryInv, TypesOfLibrary
<1>4. TypesOfLibrary' /\ L!SavedIsWhole'
  BY <1>1, <1>2, <1>3 DEF LibraryInv, TypesOfLibrary, L!SavedIsWhole, L!InTimeline
<1>5. L!DeletedIsGone' /\ PayloadIsThere'
  BY <1>2 DEF L!DeletedIsGone, PayloadIsThere
<1> QED BY <1>1, <1>2, <1>4, <1>5, LibraryChanges

LEMMA OtherKeeps == ASSUME LibraryInv, L!Other PROVE LibraryInv'
<1>1. /\ UNCHANGED <<albumCall, saved, unread, albumCalls>> /\ lost' = lost /\ contributed' \in 0 .. MaxAdded
      /\ saved \subseteq Pictures /\ CallIsWhole(albumCall) /\ albumCall \in CallType
  <2>1. UNCHANGED <<albumCall, saved, unread, albumCalls>> /\ contributed < MaxAdded /\ contributed' = contributed + 1
    BY DEF L!Other
  <2>2. lost' = lost
    BY DEF L!Other
  <2>3. saved \subseteq Pictures /\ CallIsWhole(albumCall) /\ albumCall \in CallType /\ contributed \in 0 .. MaxAdded
    BY DEF LibraryInv, TypesOfLibrary, CallIsWhole
  <2> QED BY <2>1, <2>2, <2>3, LibraryIsGiven
<1>2. /\ home' \in [Pictures -> L!Homes] /\ copies' \subseteq Pictures
      /\ \A x \in Pictures : L!InTimeline(x) => L!InTimeline(x)'
      /\ \A x \in Pictures : L!There(x) => L!There(x)'
  <2>1. CASE \E x \in L!InAlbumOnly : L!Save({x} \cup related[x])
    <3>1. PICK x \in L!InAlbumOnly : L!Save({x} \cup related[x])
      BY <2>1
    <3>2. {x} \cup related[x] \subseteq Pictures
      BY DEF L!InAlbumOnly, LibraryInv, TypesOfLibrary
    <3> QED BY <3>1, <3>2, SaveKeeps
  <2>2. CASE copies' = copies /\ \E x \in Pictures : home[x] = "none" /\ home' = [home EXCEPT ![x] = "album"]
    BY <2>2 DEF LibraryInv, TypesOfLibrary, L!InTimeline, L!There, L!Homes
  <2>3. CASE UNCHANGED <<home, copies>>
    BY <2>3 DEF LibraryInv, TypesOfLibrary, L!InTimeline, L!There
  <2> QED BY <2>1, <2>2, <2>3 DEF L!Other
<1>3. members' \subseteq Pictures /\ album' \in 0 .. 3 /\ (album = 0 => album' = 0)
  <2>1. members \subseteq Pictures /\ album \in 0 .. 3
    BY DEF LibraryInv, TypesOfLibrary
  <2>2. album' = album \/ (album # 0 /\ album' = 3) \/ (album # 0 /\ album' = 0)
    BY Zenon DEF L!Other
  <2>3. members' = members \/ members' = {} \/ \E x \in Pictures : members' = members \cup {x}
    BY DEF L!Other
  <2> QED BY <2>1, <2>2, <2>3
<1>4. related' \in [Pictures -> SUBSET Pictures]
  <2>1. related \in [Pictures -> SUBSET Pictures]
    BY DEF LibraryInv, TypesOfLibrary
  <2>2. ASSUME NEW x \in Pictures, NEW y \in L!InAlbumOnly, related' = [related EXCEPT ![y] = @ \cup {x}]
        PROVE  related' \in [Pictures -> SUBSET Pictures]
    BY <2>1, <2>2
  <2> QED BY <2>1, <2>2 DEF L!Other
<1>5. TypesOfLibrary' /\ L!SavedIsWhole'
  BY <1>1, <1>2, <1>3, <1>4 DEF LibraryInv, TypesOfLibrary, L!SavedIsWhole
<1>6. L!DeletedIsGone'
  BY <1>1, <1>3 DEF LibraryInv, L!DeletedIsGone
<1>7. PayloadIsThere'
  <2>1. albumCall.payload \subseteq Pictures
    BY <1>1 DEF CallType
  <2> QED BY <1>1, <1>2, <2>1 DEF LibraryInv, PayloadIsThere
<1> QED BY <1>1, <1>5, <1>6, <1>7, LibraryChanges

LEMMA LibraryKeeps == ASSUME LibraryInv, L!Next PROVE LibraryInv'
BY BeginningsKeep, ReadDetailsKeeps, ReadRelatedKeeps, FavoritePayloadKeeps, DeleteRequestKeeps,
   DeleteAgainKeeps, TransferKeeps, RequestFailsKeeps, SetFavoriteKeeps, AlbumKeeps, OtherKeeps DEF L!Next

LEMMA LibraryStarts == ASSUME L!Init PROVE LibraryInv
<1>1. TypesOfLibrary
  BY LibraryIsGiven DEF L!Init, TypesOfLibrary
<1>2. CallIsWhole(albumCall) /\ PayloadIsThere /\ L!DeletedIsGone
  <2>1. L!Idle.op = "none"
    BY DEF L!Idle
  <2> QED BY <2>1, IdleIsCall DEF L!Init, CallIsWhole, Elsewhere, OfPhoto, PayloadIsThere, L!DeletedIsGone
<1>3. L!NothingIsLost /\ L!SavedIsWhole
  BY DEF L!Init, L!NothingIsLost, L!SavedIsWhole
<1> QED BY <1>1, <1>2, <1>3 DEF LibraryInv

LEMMA LibraryInvIsSound == ASSUME LibraryInv PROVE L!LibraryIsSound
<1>1. lost = {} /\ albumCall \in CallType
  BY DEF LibraryInv, CallIsWhole, L!NothingIsLost
<1>2. albumCall.extra \subseteq Pictures /\ albumCall.read \subseteq Pictures /\ albumCall.payload \subseteq Pictures
  BY <1>1 DEF CallType
<1> QED BY <1>1, <1>2 DEF LibraryInv, TypesOfLibrary, L!LibraryIsSound, L!TypeOK

(* No photo goes with an album that is deleted without force; a photo that is said to be
   saved is in the timeline, with its related photos, but for those the server did not
   take in a transfer of which only the answer for the main photo was read; and dedupes, however many run at once over
   a library that others add to, leave one copy of each photo in it and report no more
   than they did: for any photos, contents, places and pages (photo.rs delete_album,
   save_photos_to_timeline; crates/pdcli/src/photos.rs dedupe_photos, trash_photos). *)
THEOREM PhotosStay == DriveSpec => []PhotosAreKept
<1> DEFINE Kept == LibraryInv /\ DedupeInv
<1>1. DriveInit => Kept
  BY LibraryStarts, DedupeStarts DEF DriveInit
<1>2. Kept /\ [DriveNext]_driveVars => Kept'
  <2> SUFFICES ASSUME Kept, [DriveNext]_driveVars PROVE Kept'
    OBVIOUS
  <2>1. UNCHANGED libraryVars => LibraryInv'
    BY DEF libraryVars, LibraryInv, TypesOfLibrary, PayloadIsThere, L!There, L!NothingIsLost, L!SavedIsWhole,
           L!InTimeline, L!DeletedIsGone
  <2>2. UNCHANGED dedupeVars => DedupeInv'
    BY DEF dedupeVars, DedupeInv, TypesOfDedupe, Justified, HasLower, Ever, RunInv, TodoIsJustified,
           IndexWasSeen, IndexOfScan, PlanIsKept, P!Extras, P!Read
  <2>3. L!Next => LibraryInv'
    BY LibraryKeeps
  <2>4. P!Next => DedupeInv'
    BY DedupeKeeps
  <2>5. UNCHANGED libraryVars \/ L!Next
    BY DEF DriveNext, driveVars
  <2>6. UNCHANGED dedupeVars \/ P!Next
    BY DEF DriveNext, driveVars
  <2> QED BY <2>1, <2>2, <2>3, <2>4, <2>5, <2>6
<1>3. Kept => PhotosAreKept
  BY LibraryInvIsSound, DedupeInvIsSound DEF PhotosAreKept
<1> QED BY <1>1, <1>2, <1>3, PTL DEF DriveSpec

-----------------------------------------------------------------------------
(* Sharing.  What an operation knows of a person stays true until somebody else changes
   that person, so the invariant says what the lists that were read still say of those
   whom nobody touched: every one who has access is in one of the lists that were read
   since, and is in it with the role that it gives. *)

SharingCall == [op : {"none", "share", "unshare", "link", "convert"},
                pc : {"idle", "context", "create", "info", "external", "members", "urls", "users", "link", "drop"},
                users : SUBSET Emails, todo : SUBSET Emails, known : SUBSET Emails, role : S!Roles,
                wantsLink : BOOLEAN, id : Nat, asked : Nat, last : BOOLEAN, info : S!Info,
                touched : SUBSET Emails, result : {"none", "ok", "failed", "missing", "notShared"}]

\* Where an operation can be.
InCourse(o) ==
  /\ o.todo \subseteq o.users
  /\ o.pc = "context" => o.op \in {"share", "link", "convert"}
  /\ o.pc = "create" => o.op \in {"share", "link"}
  /\ o.pc \in {"info", "external", "members"} => o.op \in {"share", "unshare", "convert"}
  /\ o.pc = "urls" => o.op # "none"
  /\ o.pc = "users" => o.op \in {"share", "unshare", "convert"}
  /\ o.pc = "link" => o.op \in {"share", "link", "unshare"}
  /\ o.pc = "drop" => o.op = "unshare" /\ o.last
  /\ o.pc # "idle" => o.result = "none"
  /\ o.last => o.op \in {"share", "unshare"} /\ o.todo = {}
  /\ (o.pc \notin {"idle", "users"} /\ ~o.last) => o.todo = o.users
  /\ o.result = "ok" => o.todo = {}
  /\ (o.op = "unshare" /\ o.last) => o.pc \notin {"users", "link"}
  /\ (o.op = "convert" /\ o.pc # "idle") => \E e \in Emails : o.users = {e}
  /\ (o.op = "convert" /\ o.pc \in {"context", "users"}) => \A e \in o.users : S!HasEntry(o.info.external, e)

NobodyIn(info) == info.members = {} /\ info.proton = {} /\ info.external = {}

\* What unshare_node knows of the people, acc being what each of them is.
UnshareKnows(o, acc) == o.op = "unshare" =>
  /\ o.pc \in {"external", "members", "urls", "link", "users", "drop"} =>
       \A e \in Emails \ o.touched : acc[e].kind = "proton" => S!HasEntry(o.info.proton, e)
  /\ o.pc \in {"members", "urls", "link", "users", "drop"} =>
       \A e \in Emails \ o.touched : acc[e].kind = "external" => S!HasEntry(o.info.external, e)
  /\ o.pc \in {"urls", "link", "users", "drop"} =>
       \A e \in Emails \ o.touched :
         acc[e].kind = "member" => S!HasEntry(o.info.members, e) \/ S!HasEntry(o.info.proton, e)
  /\ (o.last \/ o.pc = "users" \/ o.result = "ok") =>
       \A e \in o.users \ o.todo : acc[e].kind = "none" \/ e \in o.touched
  /\ o.pc = "drop" => NobodyIn(o.info)

\* And share_node, which reads the lists first, gives the roles, then reads again.
EntriesOf(info) == info.proton \cup info.external \cup info.members
ShareKnows(o, acc) == o.op = "share" =>
  /\ (o.pc \in {"external", "members", "urls", "users"} /\ ~o.last) =>
       \A n \in EntriesOf(o.info) :
          \/ n.email \in o.touched
          \/ acc[n.email].kind # "none" /\ acc[n.email].role = n.role
          \/ o.pc = "users" /\ n.email \notin o.todo
  /\ (o.pc = "users" \/ o.last \/ o.result = "ok") =>
       \A e \in o.users \ o.todo : (acc[e].kind # "none" /\ acc[e].role = o.role) \/ e \in o.touched
  /\ (o.pc = "link") => o.last

Knows(o, acc) == InCourse(o) /\ UnshareKnows(o, acc) /\ ShareKnows(o, acc)

CallsKnow == call \in [Callers -> SharingCall] /\ \A c \in Callers : Knows(call[c], access)
ServerInv == /\ shareMode \in DOMAIN MCShareCalls
             /\ share \in 0 .. MaxShares /\ made \in 0 .. MaxShares
             /\ access \in [Emails -> S!Access]
             /\ publicLink \in 0 .. gens /\ gens \in Nat
             /\ accounts \subseteq Emails
             /\ shareCache \in 0 .. MaxShares + 1
             /\ calls \in 0 .. MCShareCalls[shareMode] /\ elsewhere \in 0 .. MaxOthers
             /\ S!NoShareNoAccess
SharingInv == ServerInv /\ CallsKnow

\* What may become of a person whom nobody touches: an invitation is accepted.
Accepts(was, is) == \/ was.kind = "proton" /\ is = [was EXCEPT !.kind = "member"]
                    \/ was.kind = "none" /\ is.kind = "none"
SameOrAccepted(T) == \A e \in Emails \ T : access'[e] = access[e] \/ Accepts(access[e], access'[e])

\* Who loses access was to, or was touched by somebody else.
NobodyLosesIt == \A c \in Callers, e \in Emails :
  (call[c].op = "unshare" /\ call[c].pc # "idle" /\ access[e].kind # "none" /\ access'[e].kind = "none")
    => e \in call[c].users \cup call'[c].touched

LEMMA EntryOfList ==
  ASSUME NEW entries, NEW e
  PROVE  S!HasEntry(entries, e) <=> \E n \in entries : n.email = e
BY DEF S!HasEntry, S!EmailsOf

LEMMA ListHas ==
  ASSUME NEW kind, access \in [Emails -> S!Access]
  PROVE  /\ S!Listed(kind) \subseteq S!Entry
         /\ \A e \in Emails : access[e].kind = kind => S!HasEntry(S!Listed(kind), e)
         /\ \A n \in S!Listed(kind) : access[n.email].kind = kind /\ access[n.email].role = n.role
         /\ \A e : S!HasEntry(S!Listed(kind), e) => e \in Emails
<1> DEFINE L0 == S!Listed(kind)
<1>1. \A e \in Emails : access[e] \in S!Access
  OBVIOUS
<1>2. \A n \in L0 : \E e \in Emails : access[e].kind = kind /\ n = [email |-> e, role |-> access[e].role]
  BY DEF S!Listed
<1>3. \A e \in Emails : access[e].kind = kind => [email |-> e, role |-> access[e].role] \in L0
  BY DEF S!Listed
<1>4. L0 \subseteq S!Entry /\ \A n \in L0 : access[n.email].kind = kind /\ access[n.email].role = n.role /\ n.email \in Emails
  BY <1>1, <1>2 DEF S!Entry, S!Access
<1>5. \A e \in Emails : access[e].kind = kind => S!HasEntry(L0, e)
  <2> SUFFICES ASSUME NEW e \in Emails, access[e].kind = kind PROVE S!HasEntry(L0, e)
    OBVIOUS
  <2>1. [email |-> e, role |-> access[e].role].email = e
    OBVIOUS
  <2> QED BY <1>3, <2>1, EntryOfList
<1>6. \A e : S!HasEntry(L0, e) => e \in Emails
  BY <1>4, EntryOfList
<1> HIDE DEF L0
<1> QED BY <1>4, <1>5, <1>6 DEF L0

LEMMA RoleOfEntry ==
  ASSUME NEW entries \in SUBSET S!Entry, NEW e, S!HasEntry(entries, e)
  PROVE  \E n \in entries : n.email = e /\ n.role = S!RoleIn(entries, e) /\ S!RoleIn(entries, e) \in S!Roles
<1>1. \E n \in entries : n.email = e
  BY EntryOfList
<1> DEFINE m == CHOOSE n \in entries : n.email = e
<1>2. m \in entries /\ m.email = e
  BY <1>1
<1> QED BY <1>2 DEF S!RoleIn, S!Entry

\* Another one's view of a step that touches T.
LEMMA OthersKnow ==
  ASSUME NEW o \in SharingCall, NEW acc \in [Emails -> S!Access], NEW acc2 \in [Emails -> S!Access], Knows(o, acc),
         NEW T \in SUBSET Emails,
         \A e \in Emails \ T : acc2[e] = acc[e] \/ Accepts(acc[e], acc2[e])
  PROVE  LET p == [o EXCEPT !.touched = @ \cup T] IN p \in SharingCall /\ Knows(p, acc2)
<1> DEFINE p == [o EXCEPT !.touched = @ \cup T]
<1>1. /\ p \in SharingCall /\ p.touched = o.touched \cup T
      /\ p.op = o.op /\ p.pc = o.pc /\ p.users = o.users /\ p.todo = o.todo /\ p.role = o.role
      /\ p.last = o.last /\ p.info = o.info /\ p.result = o.result
  BY DEF SharingCall
<1>2. InCourse(p)
  BY <1>1 DEF Knows, InCourse
<1>3. \A e \in Emails \ p.touched :
        \/ acc2[e] = acc[e]
        \/ acc[e].kind = "proton" /\ acc2[e].kind = "member" /\ acc2[e].role = acc[e].role
        \/ acc[e].kind = "none" /\ acc2[e].kind = "none"
  BY <1>1 DEF Accepts, S!Access
<1>4. UnshareKnows(p, acc2)
  <2>1. o.users \subseteq Emails
    BY DEF SharingCall
  <2> QED BY <1>1, <1>3, <2>1 DEF Knows, UnshareKnows
<1>5. ShareKnows(p, acc2)
  <2>1. o.users \subseteq Emails /\ \A n \in EntriesOf(o.info) : n.email \in Emails
    BY DEF SharingCall, EntriesOf, S!Info, S!Entry
  <2> QED BY <1>1, <1>3, <2>1 DEF Knows, ShareKnows
<1> QED BY <1>1, <1>2, <1>4, <1>5 DEF Knows

\* An operation that ends, having done what it was asked for if it says so.
LEMMA EndedKnows ==
  ASSUME NEW o \in SharingCall, NEW acc, NEW r \in {"ok", "failed", "missing", "notShared"},
         (r = "ok" /\ o.op = "unshare") => \A e \in o.users : acc[e].kind = "none" \/ e \in o.touched,
         (r = "ok" /\ o.op = "share") =>
            \A e \in o.users : (acc[e].kind # "none" /\ acc[e].role = o.role) \/ e \in o.touched
  PROVE  S!Ended(o, r) \in SharingCall /\ Knows(S!Ended(o, r), acc)
<1> DEFINE p == S!Ended(o, r)
<1>1. /\ p \in SharingCall /\ p.touched = o.touched /\ p.op = o.op /\ p.pc = "idle" /\ p.users = o.users
      /\ p.todo = {} /\ p.role = o.role /\ ~p.last /\ p.result = r
  BY ZenonT(60) DEF SharingCall, S!Ended, S!Idle, S!None, S!NoInfo, S!Info, S!Entry, S!Roles
<1> QED BY <1>1 DEF Knows, InCourse, UnshareKnows, ShareKnows

\* A step of c alone, and one of c that touches others; one of nobody on this machine.
LEMMA OneActs ==
  ASSUME CallsKnow, NEW c \in Callers, NEW p \in SharingCall, UNCHANGED access, Knows(p, access),
         call' = [call EXCEPT ![c] = p]
  PROVE  CallsKnow' /\ NobodyLosesIt
BY DEF CallsKnow, NobodyLosesIt

LEMMA OneTouches ==
  ASSUME CallsKnow, NEW c \in Callers, NEW p \in SharingCall, NEW T \in SUBSET Emails, SameOrAccepted(T),
         access \in [Emails -> S!Access], access' \in [Emails -> S!Access], Knows(p, access'),
         call' = [d \in Callers |-> IF d = c THEN p ELSE [call[d] EXCEPT !.touched = @ \cup T]],
         \A e \in Emails : (call[c].op = "unshare" /\ access[e].kind # "none" /\ access'[e].kind = "none")
            => e \in call[c].users \cup p.touched
  PROVE  CallsKnow' /\ NobodyLosesIt
<1>1. \A d \in Callers \ {c} : call'[d] \in SharingCall /\ Knows(call'[d], access')
  BY OthersKnow DEF CallsKnow, SameOrAccepted
<1>2. CallsKnow'
  BY <1>1 DEF CallsKnow
<1>3. \A d \in Callers \ {c} : T \subseteq call'[d].touched
  BY DEF CallsKnow, SharingCall
<1>4. \A e \in Emails : (access[e].kind # "none" /\ access'[e].kind = "none") => e \in T
  BY DEF SameOrAccepted, Accepts, S!Access
<1> QED BY <1>2, <1>3, <1>4 DEF NobodyLosesIt

LEMMA AllTouched ==
  ASSUME CallsKnow, NEW T \in SUBSET Emails, SameOrAccepted(T),
         access \in [Emails -> S!Access], access' \in [Emails -> S!Access],
         call' = [d \in Callers |-> [call[d] EXCEPT !.touched = @ \cup T]]
  PROVE  CallsKnow' /\ NobodyLosesIt
<1>1. \A d \in Callers : call'[d] \in SharingCall /\ Knows(call'[d], access')
  BY OthersKnow DEF CallsKnow, SameOrAccepted
<1>2. CallsKnow'
  BY <1>1 DEF CallsKnow
<1>3. \A d \in Callers : T \subseteq call'[d].touched
  BY DEF CallsKnow, SharingCall
<1>4. \A e \in Emails : (access[e].kind # "none" /\ access'[e].kind = "none") => e \in T
  BY DEF SameOrAccepted, Accepts, S!Access
<1> QED BY <1>2, <1>3, <1>4 DEF NobodyLosesIt

\* The steps that leave the people alone, from the operation's own state.
LEMMA StartKnows ==
  ASSUME SharingInv, NEW c \in Callers, NEW op \in {"share", "unshare", "link", "convert"},
         NEW users \in SUBSET Emails, NEW role \in S!Roles, NEW w \in BOOLEAN, NEW pc,
         \/ op \in {"share", "link"} /\ pc = "context"
         \/ op \in {"unshare", "convert"} /\ pc = "info",
         op = "convert" => \E e \in Emails : users = {e},
         S!Start(c, op, users, role, w, pc)
  PROVE  SharingInv' /\ NobodyLosesIt
<1> DEFINE p == [S!Idle EXCEPT !.op = op, !.users = users, !.todo = users, !.pc = pc,
                 !.known = users \cap accounts, !.role = role, !.wantsLink = w]
<1>1. /\ p \in SharingCall /\ p.op = op /\ p.pc = pc /\ p.todo = p.users /\ ~p.last /\ p.result = "none"
  BY ZenonT(60) DEF SharingCall, S!Idle, S!None, S!NoInfo, S!Info, S!Entry, S!Roles
<1>2. Knows(p, access)
  BY <1>1 DEF Knows, InCourse, UnshareKnows, ShareKnows
<1>3. UNCHANGED <<access, shareMode, share, made, publicLink, gens, accounts, elsewhere>> /\ call' = [call EXCEPT ![c] = p]
      /\ calls < MCShareCalls[shareMode] /\ calls' = calls + 1 /\ shareCache' \in {shareCache, MaxShares + 1, share}
  BY DEF S!Start, S!server, S!Absent
<1>4. ServerInv'
  <2>1. MCShareCalls[shareMode] \in Nat
    BY DEF SharingInv, ServerInv, MCShareCalls
  <2> QED BY <1>3, <2>1, SharingIsGiven DEF SharingInv, ServerInv, S!NoShareNoAccess
<1> HIDE DEF p
<1> QED BY <1>1, <1>2, <1>3, <1>4, OneActs DEF SharingInv

LEMMA StartsKnow ==
  ASSUME SharingInv, NEW c \in Callers,
         S!ShareNode(c) \/ S!UnshareNode(c) \/ S!CreatePublicLink(c) \/ S!ConvertNonProtonInvitation(c)
  PROVE  SharingInv' /\ NobodyLosesIt
<1>0. "viewer" \in S!Roles
  BY DEF S!Roles
<1>1. CASE S!ShareNode(c)
  BY <1>1, StartKnows DEF S!ShareNode
<1>2. CASE S!UnshareNode(c)
  BY <1>0, <1>2, StartKnows DEF S!UnshareNode
<1>3. CASE S!CreatePublicLink(c)
  BY <1>0, <1>3, StartKnows DEF S!CreatePublicLink
<1>4. CASE S!ConvertNonProtonInvitation(c)
  BY <1>0, <1>4, StartKnows DEF S!ConvertNonProtonInvitation
<1> QED BY <1>1, <1>2, <1>3, <1>4

\* A step of c that leaves the people alone; it may fail.
LEMMA Moves ==
  ASSUME SharingInv, NEW c \in Callers, ServerInv', UNCHANGED access, NEW p \in SharingCall, Knows(p, access),
         call' = [call EXCEPT ![c] = p]
  PROVE  SharingInv' /\ NobodyLosesIt
BY OneActs DEF SharingInv

LEMMA FailsKnow ==
  ASSUME SharingInv, NEW c \in Callers, ServerInv', UNCHANGED access,
         NEW r \in {"failed", "missing", "notShared"}, S!End(c, r)
  PROVE  SharingInv' /\ NobodyLosesIt
<1>1. call[c] \in SharingCall /\ call' = [call EXCEPT ![c] = S!Ended(call[c], r)]
  BY DEF SharingInv, CallsKnow, S!End
<1>2. S!Ended(call[c], r) \in SharingCall /\ Knows(S!Ended(call[c], r), access)
  BY <1>1, EndedKnows
<1> QED BY <1>1, <1>2, Moves

LEMMA ServerStays ==
  ASSUME SharingInv, UNCHANGED <<shareMode, share, made, access, publicLink, gens, accounts, shareCache, calls, elsewhere>>
  PROVE  ServerInv'
BY DEF SharingInv, ServerInv, S!NoShareNoAccess

LEMMA MetadataKnows ==
  ASSUME SharingInv, NEW c \in Callers, S!GetNodeMetadata(c) PROVE SharingInv' /\ NobodyLosesIt
<1>1. ServerInv' /\ UNCHANGED <<access, call>>
  BY SharingIsGiven DEF S!GetNodeMetadata, S!server, SharingInv, ServerInv, S!NoShareNoAccess
<1> QED BY <1>1 DEF SharingInv, CallsKnow, NobodyLosesIt

LEMMA ContextKnows ==
  ASSUME SharingInv, NEW c \in Callers, S!LoadShareContext(c) PROVE SharingInv' /\ NobodyLosesIt
<1> DEFINE o == call[c]
<1>1. o \in SharingCall /\ Knows(o, access) /\ o.pc = "context" /\ UNCHANGED access /\ call \in [Callers -> SharingCall]
      /\ share \in Nat
  BY DEF SharingInv, CallsKnow, ServerInv, S!LoadShareContext, S!server
<1>2. o.op \in {"share", "link", "convert"}
  BY <1>1 DEF Knows, InCourse
<1>3. ServerInv'
  BY ServerStays DEF S!LoadShareContext, S!server
<1>4. CASE S!End(c, "failed")
  BY <1>1, <1>3, <1>4, FailsKnow
<1>5. CASE S!To(c, "create") /\ o.op # "convert"
  <2> DEFINE p == [o EXCEPT !.pc = "create"]
  <2>1. p \in SharingCall
    BY <1>1 DEF SharingCall
  <2>2. Knows(p, access)
    BY <1>1, <1>2, <1>5 DEF SharingCall, Knows, InCourse, UnshareKnows, ShareKnows
  <2> QED BY <1>1, <1>3, <1>5, <2>1, <2>2, Moves DEF S!To
<1>6. CASE call' = [call EXCEPT ![c].id = share, ![c].pc = CASE o.op = "share" -> "info" [] o.op = "link" -> "link"
                                                              [] o.op = "convert" -> "users"]
  <2> DEFINE next == CASE o.op = "share" -> "info" [] o.op = "link" -> "link" [] o.op = "convert" -> "users"
             p == [o EXCEPT !.id = share, !.pc = next]
  <2>0. next = IF o.op = "share" THEN "info" ELSE IF o.op = "link" THEN "link" ELSE "users"
    BY <1>2
  <2>3. call' = [call EXCEPT ![c].id = share, ![c].pc = next]
    BY <1>6
  <2> HIDE DEF next
  <2>1. p \in SharingCall
    BY <1>1, <1>2, <2>0 DEF SharingCall
  <2>2. Knows(p, access)
    BY <1>1, <1>2, <2>0 DEF SharingCall, Knows, InCourse, UnshareKnows, ShareKnows
  <2>4. call' = [call EXCEPT ![c] = p]
    BY <1>1, <2>3
  <2> HIDE DEF p
  <2> QED BY <1>1, <1>3, <2>1, <2>2, <2>4, Moves
<1> QED BY <1>4, <1>5, <1>6 DEF S!LoadShareContext

LEMMA CreateKnows ==
  ASSUME SharingInv, NEW c \in Callers, S!CreateShare(c) PROVE SharingInv' /\ NobodyLosesIt
<1> DEFINE o == call[c]
<1>1. o \in SharingCall /\ Knows(o, access) /\ o.pc = "create" /\ UNCHANGED access /\ call \in [Callers -> SharingCall]
      /\ made \in 0 .. MaxShares /\ MaxShares \in Nat
  BY SharingIsGiven DEF SharingInv, CallsKnow, ServerInv, S!CreateShare, S!server, S!NewShare
<1>2. o.op \in {"share", "link"} /\ made + 1 \in Nat
  BY <1>1 DEF Knows, InCourse
<1>3. CASE S!End(c, "failed") /\ UNCHANGED S!server
  <2>1. ServerInv'
    BY <1>3, ServerStays DEF S!CreateShare, S!server
  <2> QED BY <1>1, <1>3, <2>1, FailsKnow
<1>4. CASE share = S!None /\ made < MaxShares /\ S!NewShare /\
           call' = [call EXCEPT ![c].id = made + 1, ![c].pc = IF call[c].op = "share" THEN "info" ELSE "link"]
  <2> DEFINE p == [o EXCEPT !.id = made + 1, !.pc = IF o.op = "share" THEN "info" ELSE "link"]
  <2>1. p \in SharingCall
    BY <1>1, <1>2 DEF SharingCall
  <2>2. Knows(p, access)
    BY <1>1, <1>2 DEF SharingCall, Knows, InCourse, UnshareKnows, ShareKnows
  <2>3. call' = [call EXCEPT ![c] = p]
    BY <1>1, <1>4
  <2>4. ServerInv'
    BY <1>1, <1>4 DEF S!NewShare, S!CreateShare, SharingInv, ServerInv, S!NoShareNoAccess, S!None
  <2> HIDE DEF p
  <2> QED BY <1>1, <2>1, <2>2, <2>3, <2>4, Moves
<1> QED BY <1>3, <1>4 DEF S!CreateShare

LEMMA InvitationsKnow ==
  ASSUME SharingInv, NEW c \in Callers, S!ReadInvitations(c) PROVE SharingInv' /\ NobodyLosesIt
<1> DEFINE o == call[c]
           next == [o EXCEPT !.info = [S!NoInfo EXCEPT !.proton = S!Listed("proton")], !.asked = shareCache,
                             !.pc = "external", !.id = IF o.op = "unshare" THEN shareCache ELSE @]
           none == [o EXCEPT !.info = S!NoInfo, !.pc = "users"]
<1>1. o \in SharingCall /\ Knows(o, access) /\ o.pc = "info" /\ UNCHANGED access /\ call \in [Callers -> SharingCall]
      /\ access \in [Emails -> S!Access] /\ shareCache \in Nat
  BY SharingIsGiven DEF SharingInv, CallsKnow, ServerInv, S!ReadInvitations, S!server
<1>2. o.op \in {"share", "unshare", "convert"} /\ (o.op = "convert" => ~o.last)
  BY <1>1 DEF Knows, InCourse
<1>3. ServerInv'
  BY ServerStays DEF S!ReadInvitations, S!server
<1>4. CASE \E r \in {"failed", "missing", "notShared"} : S!End(c, r)
  BY <1>1, <1>3, <1>4, FailsKnow
<1>5. CASE call' = [call EXCEPT ![c].info = S!NoInfo, ![c].pc = "users"] /\ o.op = "share" /\ ~o.last
  <2>1. none \in SharingCall
    BY <1>1 DEF SharingCall, S!NoInfo, S!Info
  <2>2. none.info.proton = {} /\ none.info.external = {} /\ none.info.members = {}
    BY <1>1 DEF SharingCall, S!NoInfo
  <2>3. InCourse(none) /\ UnshareKnows(none, access)
    BY <1>1, <1>5 DEF SharingCall, Knows, InCourse, UnshareKnows
  <2>4. ShareKnows(none, access)
    <3>1. EntriesOf(none.info) = {}
      BY <2>2 DEF EntriesOf
    <3>2. none.users \ none.todo = o.users \ o.todo /\ none.role = o.role /\ none.last = o.last /\ none.result = o.result
          /\ none.op = o.op /\ none.pc = "users" /\ none.touched = o.touched
      BY <1>1 DEF SharingCall
    <3> QED BY <1>1, <1>5, <3>1, <3>2 DEF Knows, InCourse, ShareKnows
  <2>5. call' = [call EXCEPT ![c] = none]
    BY <1>1, <1>5
  <2> HIDE DEF none
  <2> QED BY <1>1, <1>3, <2>1, <2>3, <2>4, <2>5, Moves DEF Knows
<1>6. CASE call' = [call EXCEPT ![c].info = [S!NoInfo EXCEPT !.proton = S!Listed("proton")],
                      ![c].asked = shareCache, ![c].pc = "external",
                      ![c].id = IF o.op = "unshare" THEN shareCache ELSE @]
  <2>1. next \in SharingCall /\ next.info.proton = S!Listed("proton") /\ next.info.external = {} /\ next.info.members = {}
    BY ZenonT(60), <1>1, ListHas DEF SharingCall, S!NoInfo, S!Info
  <2>2. /\ next.op = o.op /\ next.pc = "external" /\ next.last = o.last /\ next.users = o.users /\ next.todo = o.todo
        /\ next.touched = o.touched /\ next.result = o.result /\ next.role = o.role
    BY <1>1 DEF SharingCall
  <2>3. call' = [call EXCEPT ![c] = next]
    BY <1>1, <1>6
  <2> HIDE DEF next
  <2>4. InCourse(next)
    BY <1>1, <1>2, <2>2 DEF Knows, InCourse
  <2>5. UnshareKnows(next, access)
    BY <1>1, <2>1, <2>2, ListHas DEF Knows, UnshareKnows
  <2>6. ShareKnows(next, access)
    <3>1. \A n \in EntriesOf(next.info) : access[n.email].kind # "none" /\ access[n.email].role = n.role
      BY <1>1, <2>1, ListHas DEF EntriesOf
    <3> QED BY <1>1, <2>2, <3>1 DEF Knows, ShareKnows
  <2> QED BY <1>1, <1>3, <2>1, <2>3, <2>4, <2>5, <2>6, Moves DEF Knows
<1> QED
  <2>1. CASE shareCache = S!None
    <3>1. CASE o.op = "share" /\ ~o.last
      <4>1. call' = [call EXCEPT ![c].info = S!NoInfo, ![c].pc = "users"]
        BY <2>1, <3>1 DEF S!ReadInvitations
      <4> QED BY <3>1, <4>1, <1>5
    <3>2. CASE o.op = "share" /\ o.last
      <4>1. S!End(c, "missing")
        BY <2>1, <3>2 DEF S!ReadInvitations
      <4> QED BY <4>1, <1>4
    <3>3. CASE o.op = "unshare"
      <4>1. S!End(c, "notShared")
        BY <2>1, <3>3 DEF S!ReadInvitations
      <4> QED BY <4>1, <1>4
    <3>4. CASE o.op = "convert"
      <4>1. S!End(c, "failed")
        BY <2>1, <3>4 DEF S!ReadInvitations
      <4> QED BY <4>1, <1>4
    <3>5. o.last \in BOOLEAN
      BY <1>1 DEF SharingCall
    <3> QED BY <1>2, <3>1, <3>2, <3>3, <3>4, <3>5
  <2>2. CASE shareCache # S!None /\ shareCache # share
    BY <2>2, <1>4 DEF S!ReadInvitations
  <2>3. CASE shareCache # S!None /\ shareCache = share
    BY <2>3, <1>6 DEF S!ReadInvitations
  <2> QED BY <2>1, <2>2, <2>3

LEMMA CallFacts ==
  ASSUME SharingInv, NEW c \in Callers
  PROVE  /\ call \in [Callers -> SharingCall] /\ call[c] \in SharingCall /\ Knows(call[c], access)
         /\ access \in [Emails -> S!Access]
BY DEF SharingInv, CallsKnow, ServerInv

LEMMA ExternalKnows ==
  ASSUME SharingInv, NEW c \in Callers, S!ReadExternalInvitations(c) PROVE SharingInv' /\ NobodyLosesIt
<1> DEFINE o == call[c]
           next == [o EXCEPT !.info = [o.info EXCEPT !.external = S!Listed("external")], !.pc = "members"]
<1>1. o.pc = "external" /\ UNCHANGED access /\ ServerInv'
  BY ServerStays DEF S!ReadExternalInvitations, S!ReadList, S!server
<1>2. CASE S!End(c, "failed")
  BY <1>1, <1>2, FailsKnow
<1>3. CASE call' = [call EXCEPT ![c].info = [o.info EXCEPT !.external = S!Listed("external")], ![c].pc = "members"]
  <2>1. /\ next \in SharingCall /\ next.info.proton = o.info.proton /\ next.info.external = S!Listed("external")
        /\ next.info.members = o.info.members
    <3>1. o.info \in S!Info /\ o \in SharingCall
      BY CallFacts DEF SharingCall
    <3>2. S!Listed("external") \subseteq S!Entry
      BY CallFacts, ListHas
    <3>3. next.info = [o.info EXCEPT !.external = S!Listed("external")]
      BY <3>1 DEF SharingCall
    <3>4. next.info \in S!Info
      BY <3>1, <3>2, <3>3 DEF S!Info
    <3>5. next \in SharingCall
      BY <3>1, <3>3, <3>4 DEF SharingCall
    <3> QED BY <3>1, <3>3, <3>5 DEF S!Info
  <2>2. /\ next.op = o.op /\ next.pc = "members" /\ next.last = o.last /\ next.users = o.users /\ next.todo = o.todo
        /\ next.touched = o.touched /\ next.result = o.result /\ next.role = o.role
    BY CallFacts DEF SharingCall
  <2>3. call' = [call EXCEPT ![c] = next]
    BY <1>3, CallFacts
  <2> HIDE DEF next
  <2>0. /\ \A e \in Emails : access[e].kind = "external" => S!HasEntry(next.info.external, e)
        /\ \A n \in next.info.external : access[n.email].kind # "none" /\ access[n.email].role = n.role
    BY <2>1, ListHas, CallFacts
  <2>4. InCourse(next)
    BY <1>1, <2>2, CallFacts DEF Knows, InCourse
  <2>5. UnshareKnows(next, access)
    BY <1>1, <2>0, <2>1, <2>2, CallFacts DEF Knows, UnshareKnows
  <2>6. ShareKnows(next, access)
    <3>1. (o.op = "share" /\ ~o.last) => \A n \in EntriesOf(o.info) :
             n.email \in o.touched \/ (access[n.email].kind # "none" /\ access[n.email].role = n.role)
      BY <1>1, CallFacts DEF Knows, ShareKnows
    <3>2. EntriesOf(next.info) \subseteq EntriesOf(o.info) \cup next.info.external
      BY <2>1 DEF EntriesOf
    <3>3. (o.op = "share" /\ (o.last \/ o.result = "ok")) =>
             \A e \in o.users \ o.todo : (access[e].kind # "none" /\ access[e].role = o.role) \/ e \in o.touched
      BY CallFacts DEF Knows, ShareKnows
    <3> QED BY <2>0, <2>2, <3>1, <3>2, <3>3 DEF ShareKnows
  <2> QED BY <1>1, <2>1, <2>3, <2>4, <2>5, <2>6, Moves DEF Knows
<1> QED BY <1>2, <1>3 DEF S!ReadExternalInvitations, S!ReadList

LEMMA MembersKnow ==
  ASSUME SharingInv, NEW c \in Callers, S!ReadMembers(c) PROVE SharingInv' /\ NobodyLosesIt
<1> DEFINE o == call[c]
           next == [o EXCEPT !.info = [o.info EXCEPT !.members = S!Listed("member")], !.pc = "urls"]
<1>1. o.pc = "members" /\ UNCHANGED access /\ ServerInv'
  BY ServerStays DEF S!ReadMembers, S!ReadList, S!server
<1>2. CASE S!End(c, "failed")
  BY <1>1, <1>2, FailsKnow
<1>3. CASE call' = [call EXCEPT ![c].info = [o.info EXCEPT !.members = S!Listed("member")], ![c].pc = "urls"]
  <2>1. /\ next \in SharingCall /\ next.info.proton = o.info.proton /\ next.info.external = o.info.external
        /\ next.info.members = S!Listed("member")
    <3>1. o.info \in S!Info /\ o \in SharingCall
      BY CallFacts DEF SharingCall
    <3>2. S!Listed("member") \subseteq S!Entry
      BY CallFacts, ListHas
    <3>3. next.info = [o.info EXCEPT !.members = S!Listed("member")]
      BY <3>1 DEF SharingCall
    <3>4. next.info \in S!Info
      BY <3>1, <3>2, <3>3 DEF S!Info
    <3>5. next \in SharingCall
      BY <3>1, <3>3, <3>4 DEF SharingCall
    <3> QED BY <3>1, <3>3, <3>5 DEF S!Info
  <2>2. /\ next.op = o.op /\ next.pc = "urls" /\ next.last = o.last /\ next.users = o.users /\ next.todo = o.todo
        /\ next.touched = o.touched /\ next.result = o.result /\ next.role = o.role
    BY CallFacts DEF SharingCall
  <2>3. call' = [call EXCEPT ![c] = next]
    BY <1>3, CallFacts
  <2> HIDE DEF next
  <2>0. /\ \A e \in Emails : access[e].kind = "member" => S!HasEntry(next.info.members, e)
        /\ \A n \in next.info.members : access[n.email].kind # "none" /\ access[n.email].role = n.role
    BY <2>1, ListHas, CallFacts
  <2>4. InCourse(next)
    BY <1>1, <2>2, CallFacts DEF Knows, InCourse
  <2>5. UnshareKnows(next, access)
    BY <1>1, <2>0, <2>1, <2>2, CallFacts DEF Knows, UnshareKnows
  <2>6. ShareKnows(next, access)
    <3>1. (o.op = "share" /\ ~o.last) => \A n \in EntriesOf(o.info) :
             n.email \in o.touched \/ (access[n.email].kind # "none" /\ access[n.email].role = n.role)
      BY <1>1, CallFacts DEF Knows, ShareKnows
    <3>2. EntriesOf(next.info) \subseteq EntriesOf(o.info) \cup next.info.members
      BY <2>1 DEF EntriesOf
    <3>3. (o.op = "share" /\ (o.last \/ o.result = "ok")) =>
             \A e \in o.users \ o.todo : (access[e].kind # "none" /\ access[e].role = o.role) \/ e \in o.touched
      BY CallFacts DEF Knows, ShareKnows
    <3> QED BY <2>0, <2>2, <3>1, <3>2, <3>3 DEF ShareKnows
  <2> QED BY <1>1, <2>1, <2>3, <2>4, <2>5, <2>6, Moves DEF Knows
<1> QED BY <1>2, <1>3 DEF S!ReadMembers, S!ReadList

\* The locals of an operation that goes on to pc, with these lists.
LEMMA UrlsKnow ==
  ASSUME SharingInv, NEW c \in Callers, S!ReadUrls(c) PROVE SharingInv' /\ NobodyLosesIt
<1> DEFINE o == call[c]
           info == [o.info EXCEPT !.link = publicLink]
           next(pc) == [o EXCEPT !.info = info, !.pc = pc]
<1>1. o.pc = "urls" /\ UNCHANGED access /\ ServerInv'
  BY ServerStays DEF S!ReadUrls, S!server
<1>2. o.op \in {"share", "unshare", "link", "convert"} /\ (o.op \in {"link", "convert"} => ~o.last) /\ o.last \in BOOLEAN
  BY <1>1, CallFacts DEF Knows, InCourse, SharingCall
<1>3. publicLink \in Nat
  BY DEF SharingInv, ServerInv
<1>4. CASE S!End(c, "failed")
  BY <1>1, <1>4, FailsKnow
<1>5. CASE S!End(c, "ok") /\ (o.last \/ o.op = "link")
  <2>1. (o.op \in {"share", "unshare"}) => o.last /\ o.todo = {}
    BY <1>5, CallFacts DEF Knows, InCourse
  <2>2. S!Ended(o, "ok") \in SharingCall /\ Knows(S!Ended(o, "ok"), access)
    <3>1. o.op = "unshare" => \A e \in o.users : access[e].kind = "none" \/ e \in o.touched
      BY <2>1, CallFacts DEF Knows, UnshareKnows
    <3>2. o.op = "share" => \A e \in o.users : (access[e].kind # "none" /\ access[e].role = o.role) \/ e \in o.touched
      BY <2>1, CallFacts DEF Knows, ShareKnows
    <3> QED BY <3>1, <3>2, CallFacts, EndedKnows
  <2> QED BY <1>1, <1>5, <2>2, Moves DEF S!End
<1>6. ASSUME NEW pc \in {"link", "users", "context"}, call' = [call EXCEPT ![c].info = info, ![c].pc = pc], ~o.last,
             \/ o.op = "unshare" /\ pc \in {"link", "users"}
             \/ o.op = "share" /\ pc = "users"
             \/ o.op = "convert" /\ pc = "context" /\ \A e \in o.users : S!HasEntry(o.info.external, e)
      PROVE  SharingInv' /\ NobodyLosesIt
  <2> DEFINE p == next(pc)
  <2>1. /\ p \in SharingCall /\ p.info.proton = o.info.proton /\ p.info.external = o.info.external
        /\ p.info.members = o.info.members
    <3>1. o.info \in S!Info /\ o \in SharingCall
      BY CallFacts DEF SharingCall
    <3>2. p.info = info
      BY <3>1 DEF SharingCall
    <3>3. info \in S!Info
      BY <1>3, <3>1 DEF S!Info
    <3>4. p \in SharingCall
      BY <3>1, <3>2, <3>3 DEF SharingCall
    <3> QED BY <3>1, <3>2, <3>4 DEF S!Info
  <2>2. /\ p.op = o.op /\ p.pc = pc /\ p.last = o.last /\ p.users = o.users /\ p.todo = o.todo
        /\ p.touched = o.touched /\ p.result = o.result /\ p.role = o.role
    BY CallFacts DEF SharingCall
  <2>3. call' = [call EXCEPT ![c] = p]
    BY <1>6, CallFacts
  <2> HIDE DEF next
  <2>4. InCourse(p)
    BY <1>1, <1>6, <2>1, <2>2, CallFacts DEF Knows, InCourse
  <2>5. UnshareKnows(p, access)
    <3>1. o.todo = o.users
      BY <1>1, <1>6, CallFacts DEF Knows, InCourse
    <3>2. o.op = "unshare" => \A e \in Emails \ o.touched :
             /\ access[e].kind = "proton" => S!HasEntry(o.info.proton, e)
             /\ access[e].kind = "external" => S!HasEntry(o.info.external, e)
             /\ access[e].kind = "member" => S!HasEntry(o.info.members, e) \/ S!HasEntry(o.info.proton, e)
      BY <1>1, CallFacts DEF Knows, UnshareKnows
    <3>3. o.result = "none"
      BY <1>1, CallFacts DEF Knows, InCourse
    <3> QED BY <1>6, <2>1, <2>2, <3>1, <3>2, <3>3 DEF UnshareKnows
  <2>6. ShareKnows(p, access)
    <3>1. o.todo = o.users
      BY <1>1, <1>6, CallFacts DEF Knows, InCourse
    <3>2. o.op = "share" => \A n \in EntriesOf(o.info) :
             n.email \in o.touched \/ (access[n.email].kind # "none" /\ access[n.email].role = n.role)
      BY <1>1, <1>6, CallFacts DEF Knows, ShareKnows
    <3>3. o.result = "none"
      BY <1>1, CallFacts DEF Knows, InCourse
    <3>4. EntriesOf(p.info) = EntriesOf(o.info)
      BY <2>1 DEF EntriesOf
    <3> QED BY <1>6, <2>2, <3>1, <3>2, <3>3, <3>4 DEF ShareKnows
  <2> QED BY <1>1, <2>1, <2>3, <2>4, <2>5, <2>6, Moves DEF Knows
<1>7. CASE S!To(c, "drop") /\ S!Nobody(info) /\ o.op = "unshare" /\ o.last
  <2> DEFINE p == [o EXCEPT !.pc = "drop"]
  <2>1. /\ p \in SharingCall /\ p.info = o.info
        /\ p.op = o.op /\ p.pc = "drop" /\ p.last = o.last /\ p.users = o.users /\ p.todo = o.todo
        /\ p.touched = o.touched /\ p.result = o.result /\ p.role = o.role
    BY CallFacts DEF SharingCall
  <2>2. call' = [call EXCEPT ![c] = p]
    BY <1>7 DEF S!To
  <2>3. info.members = o.info.members /\ info.proton = o.info.proton /\ info.external = o.info.external
    BY CallFacts DEF SharingCall, S!Info
  <2>4. NobodyIn(o.info)
    BY <1>7, <2>3 DEF S!Nobody, NobodyIn
  <2> HIDE DEF p
  <2>5. InCourse(p) /\ ShareKnows(p, access)
    BY <1>1, <1>7, <2>1, CallFacts DEF Knows, InCourse, ShareKnows
  <2>6. UnshareKnows(p, access)
    BY <1>1, <1>7, <2>1, <2>4, CallFacts DEF Knows, UnshareKnows
  <2> QED BY <1>1, <2>1, <2>2, <2>5, <2>6, Moves DEF Knows
<1> HIDE DEF info
<1> QED
  <2>1. CASE o.asked # share
    BY <2>1, <1>4 DEF S!ReadUrls
  <2>2. CASE o.asked = share
    <3>1. CASE o.op = "share" /\ ~o.last
      <4>1. call' = [call EXCEPT ![c].info = info, ![c].pc = "users"]
        BY <2>2, <3>1 DEF S!ReadUrls, info
      <4> QED BY <3>1, <4>1, <1>6
    <3>2. CASE o.op = "unshare" /\ ~o.last
      <4>1. call' = [call EXCEPT ![c].info = info, ![c].pc = IF o.wantsLink THEN "link" ELSE "users"]
        BY <2>2, <3>2 DEF S!ReadUrls, info
      <4> QED BY <3>2, <4>1, <1>6
    <3>3. CASE o.op = "link"
      <4>1. S!End(c, IF info.link = 0 THEN "failed" ELSE "ok")
        BY <2>2, <3>3 DEF S!ReadUrls, info
      <4> QED BY <3>3, <4>1, <1>4, <1>5
    <3>4. CASE o.op = "share" /\ o.last
      <4>1. S!End(c, "ok")
        BY <2>2, <3>4 DEF S!ReadUrls, info
      <4> QED BY <3>4, <4>1, <1>5
    <3>5. CASE o.op = "unshare" /\ o.last
      <4>1. IF S!Nobody(info) THEN S!To(c, "drop") ELSE S!End(c, "ok")
        BY <2>2, <3>5 DEF S!ReadUrls, info
      <4> QED BY <3>5, <4>1, <1>5, <1>7
    <3>6. CASE o.op = "convert"
      <4>1. IF \E e \in o.users : S!HasEntry(info.external, e) /\ e \in accounts
            THEN call' = [call EXCEPT ![c].info = info, ![c].pc = "context"] ELSE S!End(c, "failed")
        BY <2>2, <3>6 DEF S!ReadUrls, info
      <4>2. info.external = o.info.external
        BY CallFacts DEF SharingCall, S!Info, info
      <4>3. PICK e \in Emails : o.users = {e}
        BY <1>1, <3>6, CallFacts DEF Knows, InCourse
      <4>4. CASE S!HasEntry(o.info.external, e) /\ e \in accounts
        <5>1. call' = [call EXCEPT ![c].info = info, ![c].pc = "context"]
          BY <4>1, <4>2, <4>3, <4>4
        <5> QED BY <1>2, <3>6, <4>3, <4>4, <5>1, <1>6
      <4>5. CASE ~(S!HasEntry(o.info.external, e) /\ e \in accounts)
        BY <4>1, <4>2, <4>3, <4>5, <1>4
      <4> QED BY <4>4, <4>5
    <3> QED BY <1>2, <3>1, <3>2, <3>3, <3>4, <3>5, <3>6
  <2> QED BY <2>1, <2>2

\* A person gets the role: from now on they have it, or somebody touches them.
LEMMA GivenKnows ==
  ASSUME SharingInv, NEW c \in Callers, call[c].op = "share", call[c].pc = "users", NEW e \in call[c].todo,
         NEW acc \in [Emails -> S!Access], \A f \in Emails \ {e} : acc[f] = access[f],
         (acc[e].kind # "none" /\ acc[e].role = call[c].role) \/ (acc[e] = access[e] /\ e \in call[c].touched)
  PROVE  LET p == [call[c] EXCEPT !.todo = @ \ {e}] IN p \in SharingCall /\ Knows(p, acc)
<1> DEFINE o == call[c]
           p == [o EXCEPT !.todo = @ \ {e}]
<1>1. /\ p \in SharingCall /\ p.info = o.info /\ p.op = "share" /\ p.pc = "users" /\ p.last = o.last /\ p.users = o.users
      /\ p.todo = o.todo \ {e} /\ p.touched = o.touched /\ p.result = o.result /\ p.role = o.role /\ e \in Emails
      /\ o.users \subseteq Emails /\ \A n \in EntriesOf(o.info) : n.email \in Emails
  BY SMTT(30), CallFacts DEF SharingCall, EntriesOf, S!Info, S!Entry
<1>2. InCourse(p) /\ UnshareKnows(p, acc)
  BY <1>1, CallFacts DEF Knows, InCourse, UnshareKnows
<1>3. ShareKnows(p, acc)
  BY <1>1, CallFacts DEF Knows, ShareKnows, InCourse
<1> QED BY <1>1, <1>2, <1>3 DEF Knows

LEMMA WantedOf ==
  ASSUME NEW o \in SharingCall, NEW e
  PROVE  LET w == S!Wanted(o, e) IN
         /\ w.do \in {"nothing", "role", "invite"} /\ w.kind \in {"proton", "external", "member"}
         /\ w.do = "nothing" => \E n \in EntriesOf(o.info) : n.email = e /\ n.role = o.role
<1> DEFINE w == S!Wanted(o, e)
           invited == IF e \in o.known THEN o.info.proton ELSE o.info.external
<1>1. invited \subseteq S!Entry /\ o.info.members \subseteq S!Entry /\ invited \subseteq EntriesOf(o.info)
      /\ o.info.members \subseteq EntriesOf(o.info)
  BY DEF SharingCall, S!Info, EntriesOf
<1> DEFINE kind == IF e \in o.known THEN "proton" ELSE "external"
<1>2. w = IF S!HasEntry(invited, e)
          THEN [do |-> IF S!RoleIn(invited, e) = o.role THEN "nothing" ELSE "role", kind |-> kind]
          ELSE IF S!HasEntry(o.info.members, e)
          THEN [do |-> IF S!RoleIn(o.info.members, e) = o.role THEN "nothing" ELSE "role", kind |-> "member"]
          ELSE [do |-> "invite", kind |-> kind]
  BY DEF S!Wanted
<1>3. kind \in {"proton", "external"}
  OBVIOUS
<1> HIDE DEF invited, kind
<1>4. CASE S!HasEntry(invited, e)
  BY <1>1, <1>2, <1>3, <1>4, RoleOfEntry
<1>5. CASE ~S!HasEntry(invited, e) /\ S!HasEntry(o.info.members, e)
  BY <1>1, <1>2, <1>3, <1>5, RoleOfEntry
<1>6. CASE ~S!HasEntry(invited, e) /\ ~S!HasEntry(o.info.members, e)
  BY <1>2, <1>3, <1>6
<1> QED BY <1>4, <1>5, <1>6

LEMMA AccessChanges ==
  ASSUME SharingInv, UNCHANGED <<shareMode, share, made, publicLink, gens, accounts, shareCache, calls>>,
         elsewhere' \in 0 .. MaxOthers, access' \in [Emails -> S!Access],
         share # S!None \/ \A e \in Emails : access[e].kind = "none" => access'[e].kind = "none"
  PROVE  ServerInv'
BY DEF SharingInv, ServerInv, S!NoShareNoAccess

LEMMA ShareUserKnows ==
  ASSUME SharingInv, NEW c \in Callers, S!ShareUser(c) PROVE SharingInv' /\ NobodyLosesIt
<1> DEFINE o == call[c]
<1>0. PICK e \in Emails : S!ShareUser(c)!(e)
  BY DEF S!ShareUser
<1> DEFINE w == S!Wanted(o, e)
           rest == [o EXCEPT !.todo = @ \ {e}]
<1>1. o.op = "share" /\ o.pc = "users" /\ e \in o.todo /\ o \in SharingCall /\ elsewhere \in 0 .. MaxOthers
      /\ UNCHANGED <<shareMode, accounts, shareCache, calls, elsewhere>> /\ access \in [Emails -> S!Access]
  BY <1>0, CallFacts DEF S!Running, S!NextUser, SharingInv, ServerInv
<1>2. CASE S!End(c, "failed") /\ UNCHANGED S!server
  <2>1. ServerInv' /\ UNCHANGED access
    BY <1>1, <1>2, ServerStays DEF S!server
  <2> QED BY <1>2, <2>1, FailsKnow
<1>3. CASE w.do = "nothing" /\ call' = [call EXCEPT ![c] = rest] /\ UNCHANGED S!server
  <2>1. ServerInv' /\ UNCHANGED access
    BY <1>1, <1>3, ServerStays DEF S!server
  <2>2. PICK n \in EntriesOf(o.info) : n.email = e /\ n.role = o.role
    BY <1>1, <1>3, WantedOf
  <2>3. ~o.last
    BY <1>1, CallFacts DEF Knows, InCourse
  <2>4. (access[e].kind # "none" /\ access[e].role = o.role) \/ e \in o.touched
    BY <1>1, <2>2, <2>3, CallFacts DEF Knows, ShareKnows
  <2>5. rest \in SharingCall /\ Knows(rest, access)
    BY <1>1, <2>4, GivenKnows
  <2> HIDE DEF rest
  <2> QED BY <1>3, <2>1, <2>5, Moves
<1>4. ASSUME NEW T, T = {e}, access' \in [Emails -> S!Access], \A f \in Emails \ {e} : access'[f] = access[f], share # S!None,
             access'[e].kind # "none", access'[e].role = o.role, UNCHANGED <<share, made, publicLink, gens>>,
             call' = [S!TouchedBy(c, e) EXCEPT ![c] = rest]
      PROVE  SharingInv' /\ NobodyLosesIt
  <2>1. rest \in SharingCall /\ Knows(rest, access')
    BY <1>1, <1>4, GivenKnows
  <2>2. ServerInv'
    BY <1>1, <1>4, AccessChanges
  <2> HIDE DEF rest
  <2>3. call' = [d \in Callers |-> IF d = c THEN rest ELSE [call[d] EXCEPT !.touched = @ \cup T]]
    BY <1>4 DEF S!TouchedBy
  <2>4. SameOrAccepted(T) /\ T \in SUBSET Emails
    BY <1>4 DEF SameOrAccepted
  <2> QED BY ZenonT(60), <1>1, <1>4, <2>1, <2>2, <2>3, <2>4, OneTouches DEF SharingInv
<1>5. w.kind \in {"proton", "external", "member"} /\ o.role \in S!Roles
  BY <1>1, WantedOf DEF SharingCall
<1>6. CASE /\ S!CanChange(o.id, e, w.kind) /\ S!SetRole(e, o.role) /\ UNCHANGED <<share, made, publicLink, gens>>
           /\ call' = [S!TouchedBy(c, e) EXCEPT ![c] = rest]
  <2>1. access' = [access EXCEPT ![e].role = o.role] /\ access[e].kind = w.kind /\ share # S!None
    BY <1>6 DEF S!CanChange, S!SetRole
  <2> HIDE DEF w, rest
  <2>2. access' \in [Emails -> S!Access] /\ access'[e].kind # "none" /\ access'[e].role = o.role
    BY <1>1, <1>5, <2>1 DEF S!Access
  <2>3. \A f \in Emails \ {e} : access'[f] = access[f]
    BY <1>1, <2>1
  <2> QED BY <1>6, <2>1, <2>2, <2>3, <1>4
<1>7. CASE /\ S!CanInvite(o.id, e, "none") /\ S!Invite(e, w.kind, o.role) /\ UNCHANGED <<share, made, publicLink, gens>>
           /\ call' = [S!TouchedBy(c, e) EXCEPT ![c] = rest]
  <2>1. access' = [access EXCEPT ![e] = [kind |-> w.kind, role |-> o.role]] /\ share # S!None
    BY <1>7 DEF S!CanInvite, S!Invite
  <2> HIDE DEF w, rest
  <2>2. access' \in [Emails -> S!Access] /\ access'[e].kind # "none" /\ access'[e].role = o.role
    BY <1>1, <1>5, <2>1 DEF S!Access, S!Kinds
  <2>3. \A f \in Emails \ {e} : access'[f] = access[f]
    BY <1>1, <2>1
  <2> QED BY <1>7, <2>1, <2>2, <2>3, <1>4
<1>8. \/ w.do = "nothing" /\ call' = [call EXCEPT ![c] = rest] /\ UNCHANGED S!server
      \/ /\ S!CanChange(o.id, e, w.kind) /\ S!SetRole(e, o.role) /\ UNCHANGED <<share, made, publicLink, gens>>
         /\ call' = [S!TouchedBy(c, e) EXCEPT ![c] = rest]
      \/ /\ S!CanInvite(o.id, e, "none") /\ S!Invite(e, w.kind, o.role) /\ UNCHANGED <<share, made, publicLink, gens>>
         /\ call' = [S!TouchedBy(c, e) EXCEPT ![c] = rest]
      \/ S!End(c, "failed") /\ UNCHANGED S!server
  BY <1>0
<1> QED BY <1>2, <1>3, <1>6, <1>7, <1>8

LEMMA UsersDoneKnows ==
  ASSUME SharingInv, NEW c \in Callers, S!UsersDone(c) PROVE SharingInv' /\ NobodyLosesIt
<1> DEFINE o == call[c]
           pc == S!AfterUsers(o)
           p == [o EXCEPT !.last = TRUE, !.pc = pc]
<1>1. o.op \in {"share", "unshare"} /\ o.pc = "users" /\ o.todo = {} /\ o \in SharingCall /\ UNCHANGED access
      /\ call' = [call EXCEPT ![c].last = TRUE, ![c].pc = pc] /\ ServerInv'
  BY CallFacts, ServerStays DEF S!UsersDone, S!Running, S!server
<1>2. pc \in {"link", "info"} /\ (pc = "link" => o.op = "share")
  BY DEF S!AfterUsers
<1> HIDE DEF pc
<1>3. /\ p \in SharingCall /\ p.op = o.op /\ p.pc = pc /\ p.last /\ p.users = o.users /\ p.todo = {}
      /\ p.touched = o.touched /\ p.result = o.result /\ p.role = o.role
  BY <1>1, <1>2 DEF SharingCall
<1>4. call' = [call EXCEPT ![c] = p]
  BY <1>1, CallFacts
<1> HIDE DEF p
<1>5. InCourse(p)
  BY <1>1, <1>2, <1>3, CallFacts DEF Knows, InCourse
<1>6. UnshareKnows(p, access)
  BY <1>1, <1>2, <1>3, CallFacts DEF Knows, UnshareKnows
<1>7. ShareKnows(p, access)
  BY <1>1, <1>2, <1>3, CallFacts DEF Knows, ShareKnows
<1> QED BY <1>1, <1>3, <1>4, <1>5, <1>6, <1>7, Moves DEF Knows

LEMMA ConvertKnows ==
  ASSUME SharingInv, NEW c \in Callers, S!ConvertUser(c) PROVE SharingInv' /\ NobodyLosesIt
<1> DEFINE o == call[c]
           p == S!Ended(o, "ok")
<1>0. PICK e \in o.users : S!ConvertUser(c)!(e)
  BY DEF S!ConvertUser
<1>1. o.op = "convert" /\ o.pc = "users" /\ o \in SharingCall /\ e \in Emails /\ elsewhere \in 0 .. MaxOthers
      /\ UNCHANGED <<shareMode, accounts, shareCache, calls, elsewhere>> /\ access \in [Emails -> S!Access]
  BY <1>0, CallFacts DEF S!Running, SharingInv, ServerInv, SharingCall
<1>2. CASE S!End(c, "failed") /\ UNCHANGED S!server
  <2>1. ServerInv' /\ UNCHANGED access
    BY <1>1, <1>2, ServerStays DEF S!server
  <2> QED BY <1>2, <2>1, FailsKnow
<1>3. CASE /\ S!CanInvite(o.id, e, "external") /\ S!Invite(e, "proton", S!RoleIn(o.info.external, e))
           /\ call' = [S!TouchedBy(c, e) EXCEPT ![c] = S!Ended(@, "ok")] /\ UNCHANGED <<share, made, publicLink, gens>>
  <2>1. S!HasEntry(o.info.external, e) /\ o.info.external \subseteq S!Entry
    BY <1>1, CallFacts DEF Knows, InCourse, SharingCall, S!Info
  <2>2. S!RoleIn(o.info.external, e) \in S!Roles
    BY <2>1, RoleOfEntry
  <2>3. access' = [access EXCEPT ![e] = [kind |-> "proton", role |-> S!RoleIn(o.info.external, e)]] /\ share # S!None
    BY <1>3 DEF S!CanInvite, S!Invite
  <2>4. access' \in [Emails -> S!Access] /\ access'[e].kind = "proton"
    BY <1>1, <2>2, <2>3 DEF S!Access, S!Kinds
  <2>5. ServerInv'
    BY <1>1, <1>3, <2>3, <2>4, AccessChanges
  <2>6. p \in SharingCall /\ Knows(p, access')
    BY <1>1, EndedKnows
  <2>7. call' = [d \in Callers |-> IF d = c THEN p ELSE [call[d] EXCEPT !.touched = @ \cup {e}]]
    <3>1. call' = [S!TouchedBy(c, e) EXCEPT ![c] = S!Ended(S!TouchedBy(c, e)[c], "ok")]
      BY <1>3
    <3>2. S!TouchedBy(c, e) = [d \in Callers |-> IF d = c THEN call[d] ELSE [call[d] EXCEPT !.touched = @ \cup {e}]]
      BY DEF S!TouchedBy
    <3>3. S!TouchedBy(c, e)[c] = o
      BY <3>2
    <3> HIDE DEF p
    <3>4. call' = [S!TouchedBy(c, e) EXCEPT ![c] = p]
      BY <3>1, <3>3 DEF p
    <3> QED BY <3>2, <3>4
  <2>8. SameOrAccepted({e}) /\ {e} \in SUBSET Emails
    BY <1>1, <2>3 DEF SameOrAccepted
  <2> HIDE DEF p
  <2> QED BY <1>1, <2>4, <2>5, <2>6, <2>7, <2>8, OneTouches DEF SharingInv
<1> QED BY <1>0, <1>2, <1>3

LEMMA PublicLinkKnows ==
  ASSUME SharingInv, NEW c \in Callers, S!PublicLink(c) PROVE SharingInv' /\ NobodyLosesIt
<1> DEFINE o == call[c]
           update == o.op = "share" /\ o.info.link # 0
           p == IF o.op = "share" THEN [o EXCEPT !.pc = "info"] ELSE [o EXCEPT !.pc = "urls", !.asked = o.id]
<1>1. o.op \in {"share", "link"} /\ o.pc = "link" /\ o \in SharingCall
      /\ UNCHANGED <<shareMode, accounts, shareCache, calls, elsewhere>> /\ (o.op = "share" => o.last)
  BY CallFacts DEF S!PublicLink, S!Running, Knows, ShareKnows
<1>2. CASE S!End(c, "failed") /\ UNCHANGED S!server
  <2>1. ServerInv' /\ UNCHANGED access
    BY <1>1, <1>2, ServerStays DEF S!server
  <2> QED BY <1>2, <2>1, FailsKnow
<1>3. CASE /\ share # S!None /\ publicLink = (IF update THEN o.info.link ELSE 0)
           /\ publicLink' = S!LinkAfter(o, update) /\ gens' = (IF update THEN gens ELSE gens + 1)
           /\ call' = [call EXCEPT ![c] = p] /\ UNCHANGED <<share, made, access>>
  <2>1. publicLink' = IF update THEN o.info.link ELSE gens + 1
    BY <1>3 DEF S!LinkAfter
  <2>2. ServerInv'
    <3>1. gens \in Nat /\ publicLink \in 0 .. gens
      BY DEF SharingInv, ServerInv
    <3>2. gens' \in Nat /\ publicLink' \in 0 .. gens'
      BY <1>3, <2>1, <3>1
    <3> QED BY <1>1, <1>3, <3>2 DEF SharingInv, ServerInv, S!NoShareNoAccess
  <2>3. p \in SharingCall
    BY <1>1 DEF SharingCall
  <2>4. Knows(p, access)
    BY <1>1, CallFacts DEF SharingCall, Knows, InCourse, UnshareKnows, ShareKnows
  <2> HIDE DEF p
  <2> QED BY <1>3, <2>2, <2>3, <2>4, Moves
<1> QED BY <1>2, <1>3 DEF S!PublicLink

LEMMA RemoveLinkKnows ==
  ASSUME SharingInv, NEW c \in Callers, S!RemoveLink(c) PROVE SharingInv' /\ NobodyLosesIt
<1> DEFINE o == call[c]
           p == [o EXCEPT !.pc = "users"]
<1>1. o.op = "unshare" /\ o.pc = "link" /\ o \in SharingCall
      /\ UNCHANGED <<shareMode, accounts, shareCache, calls, elsewhere>>
  BY CallFacts DEF S!RemoveLink, S!Running
<1>2. ServerInv' /\ UNCHANGED access
  BY <1>1 DEF S!RemoveLink, S!server, SharingInv, ServerInv, S!NoShareNoAccess
<1>3. CASE S!End(c, "failed")
  BY <1>2, <1>3, FailsKnow
<1>4. CASE S!To(c, "users")
  <2>1. ~o.last /\ o.todo = o.users /\ o.result = "none"
    BY <1>1, CallFacts DEF Knows, InCourse
  <2>2. /\ p \in SharingCall /\ p.op = o.op /\ p.pc = "users" /\ p.last = o.last /\ p.users = o.users /\ p.todo = o.todo
        /\ p.touched = o.touched /\ p.result = o.result /\ p.role = o.role /\ p.info = o.info
    BY <1>1 DEF SharingCall
  <2>3. call' = [call EXCEPT ![c] = p]
    BY <1>4 DEF S!To
  <2> HIDE DEF p
  <2>4. InCourse(p) /\ ShareKnows(p, access)
    BY <1>1, <2>1, <2>2, CallFacts DEF Knows, InCourse, ShareKnows
  <2>5. UnshareKnows(p, access)
    BY <1>1, <2>1, <2>2, CallFacts DEF Knows, UnshareKnows
  <2> QED BY <1>2, <2>2, <2>3, <2>4, <2>5, Moves DEF Knows
<1> QED BY <1>3, <1>4 DEF S!RemoveLink

\* The request that comes next for e, and the list its entry goes from.
KindOf(o, e) == S!KindAt[CHOOSE i \in S!ToRemove(o, e) : \A j \in S!ToRemove(o, e) : i <= j]

LEMMA ToRemoveOf ==
  ASSUME NEW o \in SharingCall, NEW e
  PROVE  /\ S!ToRemove(o, e) = {} => /\ ~S!HasEntry(o.info.members, e)
                                     /\ ~S!HasEntry(o.info.proton, e) /\ ~S!HasEntry(o.info.external, e)
         /\ S!ToRemove(o, e) # {} => KindOf(o, e) \in {"member", "proton", "external"}
<1> DEFINE rest == S!ToRemove(o, e)
<1>1. /\ rest \subseteq 1 .. 3
      /\ 1 \in rest <=> S!HasEntry(o.info.members, e)
      /\ 2 \in rest <=> S!HasEntry(o.info.proton, e)
      /\ 3 \in rest <=> S!HasEntry(o.info.external, e)
  BY DEF S!ToRemove
<1> HIDE DEF rest
<1>2. rest # {} => \E i \in rest : \A j \in rest : i <= j
  <2>1. CASE 1 \in rest
    BY <1>1, <2>1
  <2>2. CASE 1 \notin rest /\ 2 \in rest
    <3>1. \A j \in rest : 2 <= j
      BY <1>1, <2>2
    <3> QED BY <2>2, <3>1
  <2>3. CASE 1 \notin rest /\ 2 \notin rest
    <3>1. \A j \in rest : j = 3
      BY <1>1, <2>3
    <3> QED BY <3>1
  <2> QED BY <2>1, <2>2, <2>3
<1> DEFINE i == CHOOSE i \in rest : \A j \in rest : i <= j
<1>3. rest # {} => i \in 1 .. 3
  BY <1>1, <1>2
<1>4. KindOf(o, e) = S!KindAt[i]
  BY DEF KindOf, rest
<1> HIDE DEF i
<1>5. rest # {} => i = 1 \/ i = 2 \/ i = 3
  BY <1>3
<1>6. rest # {} => S!KindAt[i] \in {"member", "proton", "external"}
  BY <1>5 DEF S!KindAt
<1> QED BY <1>1, <1>4, <1>6 DEF rest

\* Without the entries of e, the lists say of others what they said.
LEMMA DropKeepsOthers ==
  ASSUME NEW info \in S!Info, NEW e, NEW kind \in {"member", "proton", "external"}
  PROVE  /\ S!Drop(info, e, kind) \in S!Info
         /\ \A f : f # e =>
              /\ S!HasEntry(info.members, f) => S!HasEntry(S!Drop(info, e, kind).members, f)
              /\ S!HasEntry(info.proton, f) => S!HasEntry(S!Drop(info, e, kind).proton, f)
              /\ S!HasEntry(info.external, f) => S!HasEntry(S!Drop(info, e, kind).external, f)
<1> DEFINE without(entries) == {n \in entries : n.email # e}
<1>1. \A entries : \A f : (f # e /\ S!HasEntry(entries, f)) => S!HasEntry(without(entries), f)
  BY EntryOfList
<1>2. CASE kind = "member"
  <2>1. S!Drop(info, e, kind) = [info EXCEPT !.members = without(@)]
    BY <1>2 DEF S!Drop
  <2> QED BY <1>1, <2>1 DEF S!Info
<1>3. CASE kind = "proton"
  <2>1. S!Drop(info, e, kind) = [info EXCEPT !.proton = without(@)]
    BY <1>3 DEF S!Drop
  <2> QED BY <1>1, <2>1 DEF S!Info
<1>4. CASE kind = "external"
  <2>1. S!Drop(info, e, kind) = [info EXCEPT !.external = without(@)]
    BY <1>4 DEF S!Drop
  <2> QED BY <1>1, <2>1 DEF S!Info
<1> QED BY <1>2, <1>3, <1>4

LEMMA NoAccessIsAccess == S!NoAccess \in S!Access /\ S!NoAccess.kind = "none"
BY DEF S!NoAccess, S!Access, S!Kinds, S!Roles

LEMMA UnshareUserKnows ==
  ASSUME SharingInv, NEW c \in Callers, S!UnshareUser(c) PROVE SharingInv' /\ NobodyLosesIt
<1> DEFINE o == call[c]
<1>0. PICK e \in o.todo : S!UnshareUser(c)!(e)
  BY DEF S!UnshareUser
<1> DEFINE kind == KindOf(o, e)
<1>1. o.op = "unshare" /\ o.pc = "users" /\ o \in SharingCall /\ e \in Emails /\ e \in o.users /\ elsewhere \in 0 .. MaxOthers
      /\ UNCHANGED <<shareMode, accounts, shareCache, calls, elsewhere>> /\ access \in [Emails -> S!Access]
  BY <1>0, CallFacts DEF S!Running, SharingInv, ServerInv, SharingCall, Knows, InCourse
<1>2. ~o.last /\ o.result = "none"
  BY <1>0, <1>1, CallFacts DEF Knows, InCourse
<1>3. CASE S!End(c, "failed") /\ UNCHANGED S!server
  <2>1. ServerInv' /\ UNCHANGED access
    BY <1>1, <1>3, ServerStays DEF S!server
  <2> QED BY <1>3, <2>1, FailsKnow
<1>4. CASE S!ToRemove(o, e) = {} /\ call' = [call EXCEPT ![c].todo = @ \ {e}] /\ UNCHANGED S!server
  <2> DEFINE p == [o EXCEPT !.todo = @ \ {e}]
  <2>1. ServerInv' /\ UNCHANGED access
    BY <1>1, <1>4, ServerStays DEF S!server
  <2>2. /\ p \in SharingCall /\ p.op = o.op /\ p.pc = o.pc /\ p.last = o.last /\ p.users = o.users /\ p.todo = o.todo \ {e}
        /\ p.touched = o.touched /\ p.result = o.result /\ p.role = o.role /\ p.info = o.info
    BY <1>1 DEF SharingCall
  <2>3. call' = [call EXCEPT ![c] = p]
    BY <1>4, CallFacts
  <2>4. access[e].kind = "none" \/ e \in o.touched
    <3>1. ~S!HasEntry(o.info.members, e) /\ ~S!HasEntry(o.info.proton, e) /\ ~S!HasEntry(o.info.external, e)
      BY <1>1, <1>4, ToRemoveOf
    <3>2. access[e].kind \in S!Kinds
      BY <1>1 DEF S!Access
    <3> QED BY <1>1, <3>1, <3>2, CallFacts DEF Knows, UnshareKnows, S!Kinds
  <2> HIDE DEF p
  <2>5. InCourse(p) /\ ShareKnows(p, access)
    BY <1>1, <1>2, <2>2, CallFacts DEF Knows, InCourse, ShareKnows
  <2>6. UnshareKnows(p, access)
    BY <1>1, <1>2, <2>2, <2>4, CallFacts DEF Knows, UnshareKnows
  <2> QED BY <2>1, <2>2, <2>3, <2>5, <2>6, Moves DEF Knows
<1>5. CASE /\ S!ToRemove(o, e) # {} /\ S!CanChange(o.id, e, kind) /\ S!Remove(e)
           /\ call' = [S!TouchedBy(c, e) EXCEPT ![c].info = S!Drop(o.info, e, kind)]
           /\ UNCHANGED <<share, made, publicLink, gens>>
  <2> DEFINE info == S!Drop(o.info, e, kind)
             p == [o EXCEPT !.info = info]
  <2>1. kind \in {"member", "proton", "external"}
    BY <1>1, <1>5, ToRemoveOf
  <2>2. o.info \in S!Info
    BY <1>1 DEF SharingCall
  <2>3. /\ info \in S!Info
        /\ \A f : f # e => /\ S!HasEntry(o.info.members, f) => S!HasEntry(info.members, f)
                           /\ S!HasEntry(o.info.proton, f) => S!HasEntry(info.proton, f)
                           /\ S!HasEntry(o.info.external, f) => S!HasEntry(info.external, f)
    BY <2>1, <2>2, DropKeepsOthers
  <2>4. access' = [access EXCEPT ![e] = S!NoAccess]
    BY <1>5 DEF S!Remove
  <2>5. access' \in [Emails -> S!Access] /\ access'[e].kind = "none" /\ \A f \in Emails \ {e} : access'[f] = access[f]
    BY <1>1, <2>4, NoAccessIsAccess
  <2>6. ServerInv'
    BY <1>1, <1>5, <2>5, AccessChanges
  <2>7. call' = [d \in Callers |-> IF d = c THEN p ELSE [call[d] EXCEPT !.touched = @ \cup {e}]]
    <3>1. S!TouchedBy(c, e) = [d \in Callers |-> IF d = c THEN call[d] ELSE [call[d] EXCEPT !.touched = @ \cup {e}]]
      BY DEF S!TouchedBy
    <3>2. call' = [S!TouchedBy(c, e) EXCEPT ![c].info = info]
      BY <1>5
    <3> HIDE DEF info
    <3> QED BY <3>1, <3>2
  <2> HIDE DEF info, kind
  <2>8. /\ p \in SharingCall /\ p.op = o.op /\ p.pc = o.pc /\ p.last = o.last /\ p.users = o.users /\ p.todo = o.todo
        /\ p.touched = o.touched /\ p.result = o.result /\ p.role = o.role /\ p.info = info
    BY <1>1, <2>3 DEF SharingCall
  <2> HIDE DEF p
  <2>9. InCourse(p) /\ ShareKnows(p, access')
    BY <1>1, <1>2, <2>8, CallFacts DEF Knows, InCourse, ShareKnows
  <2>10. UnshareKnows(p, access')
    <3>1. \A f \in Emails \ o.touched :
            /\ access'[f].kind = "proton" => S!HasEntry(info.proton, f)
            /\ access'[f].kind = "external" => S!HasEntry(info.external, f)
            /\ access'[f].kind = "member" => S!HasEntry(info.members, f) \/ S!HasEntry(info.proton, f)
      BY <1>1, <2>3, <2>5, CallFacts DEF Knows, UnshareKnows
    <3>2. \A f \in o.users \ o.todo : access'[f].kind = "none" \/ f \in o.touched
      <4>1. o.users \subseteq Emails
        BY <1>1 DEF SharingCall
      <4> QED BY <1>1, <2>5, <4>1, CallFacts DEF Knows, UnshareKnows
    <3> QED BY <1>1, <2>8, <3>1, <3>2 DEF UnshareKnows
  <2>11. SameOrAccepted({e}) /\ {e} \in SUBSET Emails
    BY <1>1, <2>5 DEF SameOrAccepted
  <2>12. \A f \in Emails : (access[f].kind # "none" /\ access'[f].kind = "none") => f \in o.users \cup p.touched
    BY <1>1, <2>5
  <2>13. Knows(p, access') /\ CallsKnow
    BY <2>9, <2>10 DEF Knows, SharingInv
  <2>14. CallsKnow' /\ NobodyLosesIt
    BY <1>1, <2>5, <2>7, <2>8, <2>11, <2>12, <2>13, OneTouches
  <2> QED BY <2>6, <2>14 DEF SharingInv
<1>6. \/ S!ToRemove(o, e) = {} /\ call' = [call EXCEPT ![c].todo = @ \ {e}] /\ UNCHANGED S!server
      \/ /\ S!ToRemove(o, e) # {} /\ S!CanChange(o.id, e, kind) /\ S!Remove(e)
         /\ call' = [S!TouchedBy(c, e) EXCEPT ![c].info = S!Drop(o.info, e, kind)]
         /\ UNCHANGED <<share, made, publicLink, gens>>
      \/ S!End(c, "failed") /\ UNCHANGED S!server
  BY <1>0 DEF KindOf
<1> QED BY <1>3, <1>4, <1>5, <1>6

LEMMA DropEmpties ==
  ASSUME SharingInv, S!DropShare, UNCHANGED <<shareMode, accounts, shareCache, calls>>, elsewhere' \in 0 .. MaxOthers
  PROVE  /\ ServerInv' /\ access' \in [Emails -> S!Access] /\ \A e \in Emails : access'[e].kind = "none"
         /\ \A T \in SUBSET Emails : S!WithAccess \subseteq T => SameOrAccepted(T)
<1>1. access' = [e \in Emails |-> S!NoAccess] /\ share' = 0 /\ publicLink' = 0 /\ UNCHANGED <<made, gens>>
  BY DEF S!DropShare, S!None
<1>2. access' \in [Emails -> S!Access] /\ \A e \in Emails : access'[e].kind = "none"
  BY <1>1, NoAccessIsAccess
<1>3. ServerInv'
  BY <1>1, <1>2, SharingIsGiven DEF SharingInv, ServerInv, S!NoShareNoAccess
<1>4. \A T \in SUBSET Emails : S!WithAccess \subseteq T => SameOrAccepted(T)
  BY <1>2 DEF SameOrAccepted, Accepts, S!WithAccess
<1> QED BY <1>2, <1>3, <1>4

LEMMA DeleteShareKnows ==
  ASSUME SharingInv, NEW c \in Callers, S!DeleteShare(c) PROVE SharingInv' /\ NobodyLosesIt
<1> DEFINE o == call[c]
           p == S!Ended(o, "ok")
<1>1. o.op = "unshare" /\ o.pc = "drop" /\ o \in SharingCall /\ elsewhere \in 0 .. MaxOthers
      /\ UNCHANGED <<shareMode, accounts, shareCache, calls, elsewhere>> /\ access \in [Emails -> S!Access]
  BY CallFacts DEF S!DeleteShare, S!Running, SharingInv, ServerInv
<1>2. CASE S!End(c, "failed") /\ UNCHANGED S!server
  <2>1. ServerInv' /\ UNCHANGED access
    BY <1>1, <1>2, ServerStays DEF S!server
  <2> QED BY <1>2, <2>1, FailsKnow
<1>3. CASE /\ S!DropShare
           /\ call' = [d \in Callers |-> IF d = c THEN p ELSE [call[d] EXCEPT !.touched = @ \cup S!WithAccess]]
  <2>1. /\ ServerInv' /\ access' \in [Emails -> S!Access] /\ \A e \in Emails : access'[e].kind = "none"
        /\ SameOrAccepted(S!WithAccess) /\ S!WithAccess \in SUBSET Emails
    BY <1>1, <1>3, DropEmpties DEF S!WithAccess
  <2>2. o.users \subseteq Emails /\ p.touched = o.touched
    BY <1>1 DEF SharingCall, S!Ended, S!Idle
  <2>3. p \in SharingCall /\ Knows(p, access')
    BY <1>1, <2>1, <2>2, EndedKnows
  <2>4. \A e \in Emails : access[e].kind = "none" \/ e \in o.touched
    <3>1. \A e : /\ ~S!HasEntry(o.info.members, e) /\ ~S!HasEntry(o.info.proton, e)
                 /\ ~S!HasEntry(o.info.external, e)
      BY <1>1, CallFacts, EntryOfList DEF Knows, UnshareKnows, NobodyIn
    <3>2. \A e \in Emails : access[e].kind \in S!Kinds
      BY <1>1 DEF S!Access
    <3> QED BY <1>1, <3>1, <3>2, CallFacts DEF Knows, UnshareKnows, S!Kinds
  <2> HIDE DEF p
  <2>5. CallsKnow' /\ NobodyLosesIt
    BY <1>1, <1>3, <2>1, <2>2, <2>3, <2>4, OneTouches DEF SharingInv
  <2> QED BY <2>1, <2>5 DEF SharingInv
<1> QED BY <1>2, <1>3 DEF S!DeleteShare

\* Other people and devices touch whom they change, but for those who accept.
LEMMA NoneTouched ==
  ASSUME CallsKnow, UNCHANGED call, SameOrAccepted({}),
         access \in [Emails -> S!Access], access' \in [Emails -> S!Access]
  PROVE  CallsKnow' /\ NobodyLosesIt
<1>1. \A d \in Callers : [call[d] EXCEPT !.touched = @ \cup {}] = call[d]
  BY DEF CallsKnow, SharingCall
<1>2. call' = [d \in Callers |-> [call[d] EXCEPT !.touched = @ \cup {}]]
  BY <1>1 DEF CallsKnow
<1> QED BY <1>2, AllTouched

LEMMA PeopleKnow ==
  ASSUME SharingInv, NEW e \in Emails,
         S!AcceptInvitation(e) \/ S!RejectInvitation(e) \/ S!LeaveSharedNode(e) \/ S!Register(e)
  PROVE  SharingInv' /\ NobodyLosesIt
<1>0. access \in [Emails -> S!Access] /\ elsewhere \in 0 .. MaxOthers /\ CallsKnow /\ {e} \in SUBSET Emails
      /\ access[e] \in S!Access
  BY DEF SharingInv, ServerInv
<1>1. CASE S!AcceptInvitation(e)
  <2>1. access' = [access EXCEPT ![e].kind = "member"] /\ access[e].kind = "proton"
        /\ UNCHANGED <<shareMode, share, made, publicLink, gens, accounts, shareCache, call, calls, elsewhere>>
    BY <1>1 DEF S!AcceptInvitation, S!Elsewhere
  <2>2. access' \in [Emails -> S!Access] /\ SameOrAccepted({})
    BY <1>0, <2>1 DEF SameOrAccepted, Accepts, S!Access, S!Kinds
  <2>3. ServerInv'
    <3>1. share # S!None
      BY <2>1 DEF SharingInv, ServerInv, S!NoShareNoAccess
    <3> QED BY <1>0, <2>1, <2>2, <3>1, AccessChanges
  <2> QED BY <1>0, <2>1, <2>2, <2>3, NoneTouched DEF SharingInv
<1>2. CASE S!RejectInvitation(e) \/ S!LeaveSharedNode(e)
  <2>1. access' = [access EXCEPT ![e] = S!NoAccess]
        /\ call' = [d \in Callers |-> [call[d] EXCEPT !.touched = @ \cup {e}]]
        /\ UNCHANGED <<shareMode, share, made, publicLink, gens, accounts, shareCache, calls, elsewhere>>
    BY <1>2 DEF S!RejectInvitation, S!LeaveSharedNode, S!Remove, S!Touched, S!Elsewhere
  <2>2. access' \in [Emails -> S!Access] /\ SameOrAccepted({e}) /\ access'[e].kind = "none"
    BY <1>0, <2>1, NoAccessIsAccess DEF SameOrAccepted
  <2>3. ServerInv'
    BY <1>0, <2>1, <2>2, AccessChanges
  <2> QED BY <1>0, <2>1, <2>2, <2>3, AllTouched DEF SharingInv
<1>3. CASE S!Register(e)
  <2>1. ServerInv' /\ UNCHANGED <<access, call>>
    BY <1>3 DEF S!Register, S!server, SharingInv, ServerInv, S!NoShareNoAccess
  <2> QED BY <2>1 DEF SharingInv, CallsKnow, NobodyLosesIt
<1> QED BY <1>1, <1>2, <1>3

LEMMA OtherDeviceKnows == ASSUME SharingInv, S!Other PROVE SharingInv' /\ NobodyLosesIt
<1>1. /\ UNCHANGED <<shareMode, accounts, shareCache, calls>> /\ elsewhere' \in 0 .. MaxOthers
      /\ access \in [Emails -> S!Access] /\ CallsKnow /\ accounts \subseteq Emails
  BY SharingIsGiven DEF S!Other, S!Elsewhere, SharingInv, ServerInv
<1>2. ASSUME NEW e \in Emails, share # S!None, NEW a \in S!Access, access' = [access EXCEPT ![e] = a],
             call' = S!Touched(e), UNCHANGED <<share, made, publicLink, gens>>
      PROVE  SharingInv' /\ NobodyLosesIt
  <2>1. access' \in [Emails -> S!Access] /\ SameOrAccepted({e}) /\ {e} \in SUBSET Emails
    BY <1>1, <1>2 DEF SameOrAccepted
  <2>2. ServerInv'
    BY <1>1, <1>2, <2>1, AccessChanges
  <2> QED BY <1>1, <1>2, <2>1, <2>2, AllTouched DEF SharingInv, S!Touched
<1>3. CASE \E e \in Emails, r \in S!Roles : /\ S!CanInvite(share, e, "none")
                                            /\ S!Invite(e, IF e \in accounts THEN "proton" ELSE "external", r)
                                            /\ call' = S!Touched(e) /\ UNCHANGED <<share, made, publicLink, gens>>
  <2>1. PICK e \in Emails, r \in S!Roles : /\ share # S!None /\ call' = S!Touched(e)
             /\ access' = [access EXCEPT ![e] = [kind |-> IF e \in accounts THEN "proton" ELSE "external", role |-> r]]
             /\ UNCHANGED <<share, made, publicLink, gens>>
    BY <1>3 DEF S!CanInvite, S!Invite
  <2>2. [kind |-> IF e \in accounts THEN "proton" ELSE "external", role |-> r] \in S!Access
    BY DEF S!Access, S!Kinds
  <2> QED BY <2>1, <2>2, <1>2
<1>4. CASE \E e \in Emails : /\ access[e].kind # "none" /\ S!Remove(e) /\ call' = S!Touched(e)
                              /\ UNCHANGED <<share, made, publicLink, gens>>
  <2>1. PICK e \in Emails : /\ access[e].kind # "none" /\ S!Remove(e) /\ call' = S!Touched(e)
                            /\ UNCHANGED <<share, made, publicLink, gens>>
    BY <1>4
  <2>2. share # S!None
    BY <2>1 DEF SharingInv, ServerInv, S!NoShareNoAccess
  <2> QED BY <2>1, <2>2, <1>2, NoAccessIsAccess DEF S!Remove
<1>5. CASE \E e \in accounts : /\ access[e].kind = "external" /\ S!Invite(e, "proton", access[e].role)
                                /\ call' = S!Touched(e) /\ UNCHANGED <<share, made, publicLink, gens>>
  <2>1. PICK e \in accounts : /\ access[e].kind = "external" /\ S!Invite(e, "proton", access[e].role)
                              /\ call' = S!Touched(e) /\ UNCHANGED <<share, made, publicLink, gens>>
    BY <1>5
  <2>2. share # S!None /\ [kind |-> "proton", role |-> access[e].role] \in S!Access /\ e \in Emails
    BY <1>1, <2>1 DEF SharingInv, ServerInv, S!NoShareNoAccess, S!Access, S!Kinds
  <2> QED BY <2>1, <2>2, <1>2 DEF S!Invite
<1>6. CASE share = S!None /\ made < MaxShares /\ S!NewShare /\ UNCHANGED call
  <2>1. made \in 0 .. MaxShares /\ MaxShares \in Nat /\ share' = made + 1 /\ made' = made + 1
        /\ UNCHANGED <<access, publicLink, gens>>
    BY <1>6, SharingIsGiven DEF SharingInv, ServerInv, S!NewShare
  <2>2. ServerInv'
    BY <1>1, <1>6, <2>1 DEF SharingInv, ServerInv, S!NoShareNoAccess, S!None
  <2> QED BY <1>6, <2>1, <2>2 DEF SharingInv, CallsKnow, NobodyLosesIt
<1>7. CASE S!DropShare /\ call' = [d \in Callers |-> [call[d] EXCEPT !.touched = Emails]]
  <2>1. \A d \in Callers : [call[d] EXCEPT !.touched = Emails] = [call[d] EXCEPT !.touched = @ \cup Emails]
    BY <1>1 DEF CallsKnow, SharingCall
  <2>2. call' = [d \in Callers |-> [call[d] EXCEPT !.touched = @ \cup Emails]]
    BY <1>7, <2>1
  <2>3. ServerInv' /\ access' \in [Emails -> S!Access] /\ SameOrAccepted(Emails)
    BY <1>1, <1>7, DropEmpties DEF S!WithAccess
  <2> QED BY <1>1, <2>2, <2>3, AllTouched DEF SharingInv
<1> QED BY <1>3, <1>4, <1>5, <1>6, <1>7 DEF S!Other

LEMMA SharingKeeps == ASSUME SharingInv, S!Next PROVE SharingInv' /\ NobodyLosesIt
BY StartsKnow, MetadataKnows, ContextKnows, CreateKnows, InvitationsKnow, ExternalKnows, MembersKnow, UrlsKnow,
   ShareUserKnows, UsersDoneKnows, ConvertKnows, PublicLinkKnows, UnshareUserKnows, RemoveLinkKnows,
   DeleteShareKnows, PeopleKnow, OtherDeviceKnows DEF S!Next

LEMMA SharingStarts == ASSUME S!Init PROVE SharingInv
<1>1. ServerInv
  BY SharingIsGiven, NoAccessIsAccess DEF S!Init, ServerInv, S!NoShareNoAccess, S!None, S!Absent, MCShareCalls
<1>2. S!Idle \in SharingCall /\ S!Idle.op = "none" /\ S!Idle.pc = "idle" /\ S!Idle.users = {} /\ S!Idle.todo = {}
      /\ ~S!Idle.last /\ S!Idle.result = "none"
  BY DEF SharingCall, S!Idle, S!None, S!NoInfo, S!Info, S!Entry, S!Roles
<1>3. Knows(S!Idle, access)
  BY <1>2 DEF Knows, InCourse, UnshareKnows, ShareKnows
<1> QED BY <1>1, <1>2, <1>3 DEF SharingInv, CallsKnow, S!Init

LEMMA SharingInvIsSound == ASSUME SharingInv PROVE S!SharingIsSound
<1>1. S!TypeOK
  BY DEF SharingInv, ServerInv, CallsKnow, SharingCall, S!TypeOK, S!Absent, S!Features, MCShareCalls
<1>2. S!RevokedIsGone
  BY CallFacts DEF Knows, InCourse, UnshareKnows, S!RevokedIsGone
<1>3. S!SharedAsAsked
  BY CallFacts DEF Knows, InCourse, ShareKnows, S!SharedAsAsked
<1> QED BY <1>1, <1>2, <1>3 DEF SharingInv, ServerInv, S!SharingIsSound

\* A link that is changed keeps its address, whoever changes it.
LinkStays == (publicLink # 0 /\ publicLink' # 0) => publicLink' = publicLink
LEMMA LinkKeepsAddress == ASSUME S!Next PROVE LinkStays
<1>1. ASSUME NEW c \in Callers, S!PublicLink(c) PROVE LinkStays
  <2> DEFINE o == call[c]
             update == o.op = "share" /\ o.info.link # 0
  <2>1. \/ publicLink = (IF update THEN o.info.link ELSE 0) /\ publicLink' = S!LinkAfter(o, update)
        \/ publicLink' = publicLink
    BY <1>1 DEF S!PublicLink, S!server
  <2> QED BY <2>1 DEF LinkStays, S!LinkAfter
<1>2. ASSUME NEW c \in Callers, S!RemoveLink(c) PROVE LinkStays
  BY <1>2 DEF LinkStays, S!RemoveLink, S!server
<1>3. ASSUME NEW c \in Callers, S!DeleteShare(c) PROVE LinkStays
  BY <1>3 DEF LinkStays, S!DeleteShare, S!server, S!DropShare
<1>4. S!Other => LinkStays
  BY SMTT(30) DEF LinkStays, S!Other, S!DropShare, S!NewShare
<1>5. ASSUME NEW c \in Callers,
             \/ S!ShareNode(c) \/ S!UnshareNode(c) \/ S!CreatePublicLink(c) \/ S!ConvertNonProtonInvitation(c)
             \/ S!GetNodeMetadata(c) \/ S!LoadShareContext(c) \/ S!ReadInvitations(c) \/ S!UsersDone(c)
             \/ S!ReadExternalInvitations(c) \/ S!ReadMembers(c) \/ S!ReadUrls(c)
      PROVE  LinkStays
  BY <1>5 DEF LinkStays, S!ShareNode, S!UnshareNode, S!CreatePublicLink, S!ConvertNonProtonInvitation, S!Start, S!server,
              S!GetNodeMetadata, S!LoadShareContext, S!ReadInvitations, S!ReadExternalInvitations, S!ReadMembers,
              S!ReadList, S!ReadUrls, S!UsersDone
<1>6. ASSUME NEW c \in Callers, S!CreateShare(c) \/ S!ShareUser(c) \/ S!ConvertUser(c) \/ S!UnshareUser(c)
      PROVE  LinkStays
  <2>1. publicLink' = publicLink
    BY <1>6 DEF S!CreateShare, S!NewShare, S!server, S!ShareUser, S!ConvertUser, S!UnshareUser
  <2> QED BY <2>1 DEF LinkStays
<1>7. ASSUME NEW e \in Emails,
             S!AcceptInvitation(e) \/ S!RejectInvitation(e) \/ S!LeaveSharedNode(e) \/ S!Register(e)
      PROVE  LinkStays
  BY <1>7 DEF LinkStays, S!AcceptInvitation, S!RejectInvitation, S!LeaveSharedNode, S!Register, S!server
<1> QED BY <1>1, <1>2, <1>3, <1>4, <1>5, <1>6, <1>7 DEF S!Next

LEMMA SharingMoves ==
  ASSUME SharingInv, [DriveNext]_driveVars
  PROVE  SharingInv' /\ [S!Next]_shareVars
<1>1. S!Next \/ UNCHANGED shareVars
  BY DEF DriveNext, driveVars
<1>2. UNCHANGED shareVars => SharingInv'
  BY DEF shareVars, SharingInv, ServerInv, CallsKnow, S!NoShareNoAccess
<1> QED BY <1>1, <1>2, SharingKeeps

(* After an unshare that ended well nobody it named has access, after a share everybody it
   named has the role, unless somebody else changed them meanwhile: for any people and
   operations that run side by side, and invitations answered at any time (sharing.rs
   share_node, unshare_node, get_sharing_info). *)
THEOREM SharingStays == DriveSpec => []SharingIsSound
<1>1. DriveInit => SharingInv
  BY SharingStarts DEF DriveInit
<1>2. SharingInv /\ [DriveNext]_driveVars => SharingInv'
  BY SharingMoves
<1>3. SharingInv => SharingIsSound
  BY SharingInvIsSound DEF SharingIsSound
<1> QED BY <1>1, <1>2, <1>3, PTL DEF DriveSpec

(* An unshare takes access from nobody but those it was asked to remove, also when it finds
   nobody left and deletes the share, and a link that is changed keeps its address
   (sharing.rs unshare_node, delete_share, update_public_link). *)
THEOREM NobodyElseIsDropped == DriveSpec => NobodyIsDropped
<1> DEFINE Dropped == /\ \A c \in Callers, e \in Emails :
                           ( /\ call[c].op = "unshare" /\ call[c].pc # "idle" /\ call'[c] # call[c]
                             /\ access[e].kind # "none" /\ access'[e].kind = "none" )
                             => e \in call[c].users \cup call'[c].touched
                      /\ (publicLink # 0 /\ publicLink' # 0) => publicLink' = publicLink
<1>1. DriveInit => SharingInv
  BY SharingStarts DEF DriveInit
<1>2. SharingInv /\ [DriveNext]_driveVars => SharingInv'
  BY SharingMoves
<1>3. SharingInv /\ [DriveNext]_driveVars => [Dropped]_(S!vars)
  <2> SUFFICES ASSUME SharingInv, [DriveNext]_driveVars PROVE [Dropped]_(S!vars)
    OBVIOUS
  <2>1. S!Next \/ UNCHANGED S!vars
    BY DEF DriveNext, driveVars, shareVars, S!vars
  <2>2. S!Next => Dropped
    BY SharingKeeps, LinkKeepsAddress DEF NobodyLosesIt, LinkStays
  <2> QED BY <2>1, <2>2
<1> QED BY <1>1, <1>2, <1>3, PTL DEF DriveSpec, NobodyIsDropped, S!NobodyIsDropped
=============================================================================
