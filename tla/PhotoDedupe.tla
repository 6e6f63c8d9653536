---------------------------- MODULE PhotoDedupe -----------------------------
(***************************************************************************)
(* The commands of pdcli that look for copies of a photo and remove them   *)
(* (crates/pdcli/src/photos.rs): `photos dedupe' reads the timeline page   *)
(* by page, keeps the photo with the lowest uid of each group of equal     *)
(* contents and moves the others to the trash in batches; `photos trash'   *)
(* moves a selection there that it looked at first.                        *)
(*                                                                         *)
(* Each command runs in a process, on any device, next to the others and   *)
(* to imports; what it read is not read again.  Photos are numbered in the *)
(* order of their uids, which is not that of the timeline.                 *)
(***************************************************************************)
EXTENDS Integers, FiniteSets

CONSTANTS Runs,       \* the commands that are run, each once
          Photos,     \* the photos that there may be
          Place,      \* their places in the timeline
          ContentOf,  \* their contents; a photo without a hash has none
          Batch,      \* bound standing for the 50 photos of a request
          PageSize,   \* bound standing for the 500 photos of a page
          Live0,      \* what the library may start with
          MaxFaults   \* bound: requests that fail, or whose answer is lost

Unknown == "unknown"
NoPhoto == 0

VARIABLES
  live,      \* the photos of the timeline
  trash,     \* the photos in the trash
  run,       \* what each command does
  chosen,    \* history: photos the user chose to move to the trash
  faults     \* number of faults

vars == <<live, trash, run, chosen, faults>>

\* index: how often a scan counted each photo; cursor: the last photo of its last page.
Idle == [pc |-> "idle", index |-> [p \in Photos |-> 0], cursor |-> NoPhoto, cursors |-> {}, todo |-> {},
         trashed |-> {}, errors |-> {}]

Init ==
  /\ live \in Live0 /\ trash = {} /\ chosen = {} /\ faults = 0
  /\ run = [r \in Runs |-> Idle]

To(r, pc) == run' = [run EXCEPT ![r].pc = pc]

-----------------------------------------------------------------------------
(* scan_photo_library_with *)

\* The page after a photo; when that has left the timeline the server starts anywhere.
After(place) == {p \in live : Place[p] > place}
FirstOf(photos) == {p \in photos : Cardinality({q \in photos : Place[q] < Place[p]}) < PageSize}
Page(cursor) ==
  {FirstOf(After(place)) : place \in IF cursor = NoPhoto THEN {0}
                                     ELSE IF cursor \in live THEN {Place[cursor]}
                                     ELSE {0} \cup {Place[p] : p \in Photos}}

\* The cursor of a page; one that is not full is the last.
Cursors(page) == IF Cardinality(page) < PageSize THEN {NoPhoto}
                 ELSE {p \in page : \A q \in page : Place[q] <= Place[p]}

Start(r) ==
  /\ run[r].pc = "idle"
  /\ To(r, "scan")
  /\ UNCHANGED <<live, trash, chosen, faults>>

\* Mutant of Indexed: what two pages have in common is counted twice.
MutIndexed(index, page) == [p \in Photos |-> IF p \in page THEN index[p] + 1 ELSE index[p]]

\* A photo that was seen is not counted again.
Indexed(index, page) == [p \in Photos |-> IF p \in page THEN 1 ELSE index[p]]

\* A cursor that comes back ends the scan.
ReadPage(r) ==
  /\ run[r].pc = "scan"
  /\ \E page \in Page(run[r].cursor) : \E next \in Cursors(page) :
        run' = [run EXCEPT ![r] = [run[r] EXCEPT
                  !.index = Indexed(run[r].index, page), !.cursor = next,
                  !.cursors = IF next = NoPhoto THEN {} ELSE run[r].cursors \cup {next},
                  !.pc = IF next = NoPhoto THEN "plan" ELSE IF next \in run[r].cursors THEN "failed" ELSE "scan"]]
  /\ UNCHANGED <<live, trash, chosen, faults>>

-----------------------------------------------------------------------------
(* PhotoIndex::removal_plan and dedupe_photos *)

Read(index) == {p \in Photos : index[p] > 0}

\* Of each group of equal contents, in the order of their uids, all but the first.
Extras(index) ==
  {p \in Read(index) : /\ ContentOf[p] # Unknown
                       /\ index[p] > 1 \/ \E q \in Read(index) : q < p /\ ContentOf[q] = ContentOf[p]}

Plan(r) ==
  /\ run[r].pc = "plan"
  /\ run' = [run EXCEPT ![r] = [run[r] EXCEPT !.pc = "remove", !.cursors = {}, !.todo = Extras(run[r].index)]]
  /\ UNCHANGED <<live, trash, chosen, faults>>

\* The user names photos, which are all read before any is moved; one cannot be.
Choose(r) ==
  /\ run[r].pc = "idle"
  /\ \E p \in live : run' = [run EXCEPT ![r] = [run[r] EXCEPT !.pc = "check", !.todo = {p}]]
                     /\ chosen' = chosen \cup {p}
  /\ UNCHANGED <<live, trash, faults>>
Check(r) ==
  /\ run[r].pc = "check"
  /\ \E readable \in BOOLEAN : To(r, IF readable THEN "remove" ELSE "failed")
  /\ UNCHANGED <<live, trash, chosen, faults>>

\* A request has Batch photos, the last one what is left; here in any order.
Batches(todo) == {b \in SUBSET todo : b # {} /\ (b = todo \/ Cardinality(b) = Batch) /\ Cardinality(b) <= Batch}

\* trash_nodes: the server refuses what is in the trash; when the request fails every
\* photo of the batch counts as refused, moved or not, and the next batch follows.
TrashBatch(r) ==
  /\ run[r].pc = "remove" /\ run[r].todo # {}
  /\ \E batch \in Batches(run[r].todo), applied, answered \in BOOLEAN :
        /\ answered => applied
        /\ ~answered => faults < MaxFaults
        /\ faults' = IF answered THEN faults ELSE faults + 1
        /\ LET moved == IF applied THEN batch \cap live ELSE {} IN
           /\ live' = live \ moved /\ trash' = trash \cup moved
           /\ run' = [run EXCEPT ![r] = [run[r] EXCEPT
                        !.todo = run[r].todo \ batch,
                        !.trashed = run[r].trashed \cup (IF answered THEN moved ELSE {}),
                        !.errors = run[r].errors \cup (IF answered THEN batch \ moved ELSE batch)]]
  /\ UNCHANGED chosen

\* The report; it fails unless every copy is known to be in the trash.
Report(r) ==
  /\ run[r].pc = "remove" /\ run[r].todo = {}
  /\ To(r, IF run[r].errors = {} THEN "done" ELSE "failed")
  /\ UNCHANGED <<live, trash, chosen, faults>>

-----------------------------------------------------------------------------
(* An import, or another client, adds a photo anywhere in the timeline. *)
Add ==
  /\ \E p \in Photos \ (live \cup trash) : live' = live \cup {p}
  /\ UNCHANGED <<trash, run, chosen, faults>>

Next == Add \/ \E r \in Runs : \/ Start(r) \/ ReadPage(r) \/ Plan(r) \/ Choose(r) \/ Check(r)
                               \/ TrashBatch(r) \/ Report(r)

Spec == Init /\ [][Next]_vars

-----------------------------------------------------------------------------
TypeOK ==
  /\ live \subseteq Photos /\ trash \subseteq Photos /\ chosen \subseteq Photos
  /\ faults \in 0..MaxFaults
  /\ \A r \in Runs : run[r] \in [pc : {"idle", "scan", "plan", "check", "remove", "done", "failed"},
        index : [Photos -> Nat], cursor : Photos \cup {NoPhoto}, cursors : SUBSET Photos, todo : SUBSET Photos,
        trashed : SUBSET Photos, errors : SUBSET Photos]

(* Safety: however many dedupes run at once, over libraries that others add to, each of
   them with an index of another time, a copy of each photo stays in the timeline as
   long as the user removed none of its copies; and what has no hash is not touched. *)
OneCopyStays == \A c \in {ContentOf[p] : p \in live \cup trash} :
  LET copies == {p \in live \cup trash : ContentOf[p] = c} IN
  copies \cap chosen = {} =>
     IF c = Unknown THEN copies \subseteq live ELSE copies \cap live # {}

(* Safety: what is reported as moved to the trash is there, and a dedupe that reports
   success left one photo at most of each group it read. *)
ReportIsTrue == \A r \in Runs :
  /\ run[r].trashed \subseteq trash
  /\ run[r].pc = "done" => \A p, q \in Read(run[r].index) \cap live :
        ContentOf[p] = ContentOf[q] /\ ContentOf[p] # Unknown => p = q

DedupeIsSound == TypeOK /\ OneCopyStays /\ ReportIsTrue
=============================================================================
