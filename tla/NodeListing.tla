----------------------------- MODULE NodeListing ----------------------------
(***************************************************************************)
(* A listing of a folder, or of the trash                                  *)
(* (crates/proton-drive-sdk/src/node/folder.rs, volume_operations.rs): ids *)
(* come in pages, go through a loader that asks for the details of several *)
(* at a time (node/mod.rs, utils/batch.rs), and what it decrypts           *)
(* (node/crypto.rs) goes to the caller; what it cannot is reported once    *)
(* (telemetry.rs).  Or the thumbnails of nodes, of which a few are on      *)
(* their way at a time (node/file/mod.rs).                                 *)
(*                                                                         *)
(* A key is named for the folder it belongs to.  Others move, restore and  *)
(* delete nodes meanwhile, and requests fail.                              *)
(***************************************************************************)
EXTENDS Integers, Sequences, FiniteSets, SequencesExt, FiniteSetsExt

CONSTANTS Nodes,      \* link ids, in the order in which the server lists them
          PageSize,   \* ids of a page
          BatchSize,  \* batch_size of the loader
          Damages,    \* sets of nodes with a part that cannot be read, of which one applies
          Preview,    \* what each node has: "one" thumbnail of the kind asked for, one of
                      \* "other" kinds, "none", or it is a "folder"
          Width,      \* CONCURRENCY, of thumbnails
          MaxOthers,  \* bound: steps of other clients, by what is damaged
          MaxFaults   \* bound: requests that fail

Kinds == {"children", "trash", "thumbnails"}
Listed == "f"
Other == "g"
Gone == "gone"
MyFiles == 0         \* the share of the drive, and its root
Device == 9          \* another share, whose nodes are in the same trash
Shares == {MyFiles, Device}

VARIABLES
  kind,      \* which of the listings
  folder,    \* the folder of each node, or Gone
  trashed,   \* the nodes in the trash
  damaged,   \* which parts of which nodes cannot be read
  known,     \* the nodes whose metadata is cached, and the shares whose key is
  reported,  \* the nodes and shares the reporter has told of
  run,       \* the listing
  stayed,    \* history: what was to be listed ever since it began
  others, faults

vars == <<kind, folder, trashed, damaged, known, reported, run, stayed, others, faults>>

\* ids: what is left of a page; queue: that of the loader; keys: parent_keys; got: the
\* batches handed over, each a set of nodes with the folder they were found in;
\* skipped: history, ids of pages whose share could not be read.  flight: the nodes that
\* are read, or whose thumbnails are fetched, at the moment; wanted: those that have the
\* thumbnail; answers: what is said of which node.
New == [pc |-> "new", anchor |-> 0, page |-> 0, more |-> TRUE, ids |-> <<>>, queue |-> <<>>,
        keys |-> {}, got |-> <<>>, skipped |-> {}, flight |-> {}, wanted |-> {}, answers |-> <<>>]

Shown == CASE kind = "children" -> {n \in Nodes : folder[n] = Listed /\ n \notin trashed}
           [] kind = "trash" -> {n \in trashed : folder[n] # Gone}
           [] OTHER -> {n \in Nodes : folder[n] # Gone}

Init ==
  /\ kind \in Kinds
  /\ folder \in {[n \in Nodes |-> IF n = 2 THEN away ELSE Listed] : away \in {Listed, Other}}
  /\ trashed = (IF kind = "trash" THEN Nodes ELSE {})
  /\ known \in (IF kind = "children" THEN {{}} ELSE {{}, {3, MyFiles}})
  /\ damaged \in Damages /\ reported = {}
  /\ run = New /\ stayed = {} /\ others = 0 /\ faults = 0

-----------------------------------------------------------------------------
(* Decryption: of a link's passphrase with the keys of its parent, of its key with the
   passphrase, and of its name and its hash key, or content key, with that. *)

Reads(n, part) == <<n, part>> \notin damaged
DecryptPassphrase(n, in, keys) == in \in keys /\ Reads(n, "passphrase")
UnlockKey(n, in, keys) == DecryptPassphrase(n, in, keys) /\ Reads(n, "key")
DecryptLink(n, in, keys) == UnlockKey(n, in, keys) /\ Reads(n, "name")

\* The hash key of a folder, the content key of a file: with the node's own key.
DecryptHashKey(n, in, keys) == UnlockKey(n, in, keys) /\ Reads(n, "content")
DecryptContentKey(n, in, keys) == UnlockKey(n, in, keys) /\ Reads(n, "content")
DecryptFolder(n, in, keys) == DecryptLink(n, in, keys) /\ DecryptHashKey(n, in, keys)
DecryptFile(n, in, keys) == DecryptLink(n, in, keys) /\ DecryptContentKey(n, in, keys)

IsFolder(n) == Preview[n] = "folder"
ConvertsFolder(n, in, keys) == IsFolder(n) /\ DecryptFolder(n, in, keys)
ConvertsFile(n, in, keys) == ~IsFolder(n) /\ DecryptFile(n, in, keys)

\* Mutant: the folder that is listed counts as the parent.
MutConverts(n, in, keys) == ConvertsFolder(n, Listed, keys) \/ ConvertsFile(n, Listed, keys)
\* convert_dto_to_node_metadata: everything, or an error.
Converts(n, in, keys) == ConvertsFolder(n, in, keys) \/ ConvertsFile(n, in, keys)

(* What the conversion of a node reports: the first thing of it that does not decrypt
   while what is needed for it did; the extended attributes fail nothing. *)

LinkFails(n, in, keys) == ~DecryptLink(n, in, keys)
OutputFails(n, in, keys) == UnlockKey(n, in, keys) /\ ~Reads(n, "content")
AttributesFail(n, in, keys) ==
  ~IsFolder(n) /\ UnlockKey(n, in, keys) /\ ~Reads(n, "attributes")
Reports(n, in, keys) == LinkFails(n, in, keys) \/ OutputFails(n, in, keys) \/ AttributesFail(n, in, keys)

\* A node is reported once.
Report(nodes) == reported' = reported \cup nodes

\* A share has a key of its own, for which the user's keys are there.
DecryptShare(s) == Reads(s, "passphrase") /\ Reads(s, "key")

-----------------------------------------------------------------------------
Fails == faults < MaxFaults /\ faults' = faults + 1
Fine == UNCHANGED faults
Told == UNCHANGED <<kind, folder, trashed, damaged, others>>
Quiet == Told /\ UNCHANGED <<known, reported>>
To(pc) == run' = [run EXCEPT !.pc = pc]

\* The secrets of the folder come first, or My Files, whose volume is that of the trash.
Start ==
  /\ run.pc = "new" /\ kind # "thumbnails" /\ Quiet
  /\ stayed' = Shown
  /\ \/ To(IF kind = "trash" THEN "volume" ELSE "page") /\ Fine
     \/ kind = "children" /\ To("failed") /\ Fails

\* get_my_files_folder: the share, which is remembered before its root is decrypted.
GetMyFilesFolder ==
  /\ run.pc = "volume" /\ Told /\ UNCHANGED stayed
  /\ LET opens == MyFiles \in known \/ DecryptShare(MyFiles)
         reads == opens /\ Reads(MyFiles, "root")
     IN \/ /\ Fine /\ To(IF reads THEN "page" ELSE "failed")
           /\ known' = (IF opens THEN known \cup {MyFiles} ELSE known)
           /\ Report(IF reads THEN {} ELSE {MyFiles})
        \/ Fails /\ To("failed") /\ UNCHANGED <<known, reported>>

\* get_children: the ids after the anchor; get_trash: a page by its number.
GetPage ==
  /\ run.pc = "page" /\ Quiet /\ UNCHANGED stayed
  /\ \/ LET all == SetToSortSeq(Shown, <)
            rest == IF kind = "children" THEN SelectSeq(all, LAMBDA n : n > run.anchor)
                    ELSE SubSeq(all, run.page * PageSize + 1, Len(all))
            ids == SubSeq(rest, 1, Min({PageSize, Len(rest)}))
        IN run' = [run EXCEPT
             !.pc = IF kind = "trash" /\ ids # <<>> THEN "share" ELSE "queue", !.ids = ids,
             !.more = IF kind = "children" THEN Len(rest) > PageSize ELSE Len(ids) = PageSize,
             !.anchor = IF ids = <<>> THEN @ ELSE Last(ids), !.page = @ + 1]
           /\ Fine
     \/ To("failed") /\ Fails

\* The trash is read share by share, each with a loader of its own; one whose key
\* cannot be had is passed over.
Skip == run' = [run EXCEPT !.pc = "queue", !.ids = <<>>, !.skipped = @ \cup ToSet(run.ids)]
GetShare ==
  /\ run.pc = "share" /\ Told /\ UNCHANGED stayed
  /\ \E s \in Shares :
       \/ /\ s \in known \/ DecryptShare(s)
          /\ run' = [run EXCEPT !.pc = "queue", !.keys = {}] /\ Fine
          /\ known' = known \cup {s} /\ UNCHANGED reported
       \/ s \notin known /\ ~DecryptShare(s) /\ Skip /\ Report({s}) /\ Fine /\ UNCHANGED known
       \/ s \notin known /\ Skip /\ Fails /\ UNCHANGED <<known, reported>>

\* queue_and_try_load_batch of the next id; the trash takes what the cache knows.
Queue ==
  /\ run.pc = "queue" /\ run.ids # <<>> /\ Quiet /\ Fine /\ UNCHANGED stayed
  /\ LET n == Head(run.ids)
         left == [run EXCEPT !.ids = Tail(@)]
         queue == Append(run.queue, n)
     IN run' = IF kind = "trash" /\ n \in known
                 THEN [left EXCEPT !.got = Append(@, {<<n, folder[n]>>})]
               ELSE [left EXCEPT !.queue = queue,
                                 !.pc = IF Len(queue) < BatchSize THEN "queue" ELSE "load"]

\* Mutant: what remains in the queue is not loaded.
MutLoadRemaining == To("done") /\ Fine
\* load_remaining, at the end of a folder, or of what a page has of a share.
LoadRemaining ==
  /\ run' = [run EXCEPT
       !.pc = CASE run.queue # <<>> -> "load"
                [] kind = "trash" /\ run.more -> "page"
                [] OTHER -> "done"]
  /\ Fine
EndPage ==
  /\ run.pc = "queue" /\ run.ids = <<>> /\ Quiet /\ UNCHANGED stayed
  /\ IF kind = "children" /\ run.more THEN To("page") /\ Fine ELSE LoadRemaining

\* load_batch: get_details, which leaves out what is gone; the keys of parents the loader
\* does not have yet; and the decryption of all of it, side by side.  The first that fails
\* fails the batch, and with it the listing: the others may not come to their report.
LoadBatch ==
  /\ run.pc = "load" /\ Told /\ UNCHANGED <<known, stayed>>
  /\ \/ LET links == {n \in ToSet(run.queue) : folder[n] # Gone}
            keys == IF kind = "children" THEN {Listed} ELSE run.keys \cup {folder[n] : n \in links}
            bad == {n \in links : ~Converts(n, folder[n], keys)}
            told == {n \in links : Reports(n, folder[n], keys)}
        IN /\ Fine
           /\ IF bad # {}
                THEN /\ run' = [run EXCEPT !.pc = "failed", !.queue = <<>>]
                     /\ \E first \in bad, more \in SUBSET told : Report({first} \cup more)
                ELSE /\ run' = [run EXCEPT !.pc = "queue", !.queue = <<>>, !.keys = keys,
                                           !.got = Append(@, {<<n, folder[n]>> : n \in links})]
                     /\ Report(told)
     \/ run' = [run EXCEPT !.pc = "failed", !.queue = <<>>] /\ Fails /\ UNCHANGED reported

-----------------------------------------------------------------------------
(* Thumbnails: enumerate_thumbnails reads the nodes, asks where the thumbnails are, and
   fetches them; both times Width are on their way, and one that ends makes room. *)

Fill(r) ==
  LET n == Min({Width - Cardinality(r.flight), Len(r.ids)})
  IN  [r EXCEPT !.flight = @ \cup ToSet(SubSeq(r.ids, 1, n)), !.ids = SubSeq(@, n + 1, Len(@))]
Answer(r, n, what) == [r EXCEPT !.answers = Append(@, <<n, what>>)]
Over(r) == r.flight = {} /\ r.ids = <<>>

Enumerate ==
  /\ run.pc = "new" /\ kind = "thumbnails" /\ Quiet /\ Fine
  /\ stayed' = Shown
  /\ run' = Fill([run EXCEPT !.pc = "nodes", !.ids = SetToSortSeq(Nodes, <)])

\* A node is read, unless it is known: one that is gone or not decrypted fails all.  Its
\* revision says whether it has the thumbnail.
HasThumbnail(n) == Preview[n] = "one"
EnumerateNode(n) ==
  /\ run.pc = "nodes" /\ n \in run.flight
  /\ UNCHANGED <<kind, folder, trashed, damaged, others, stayed>>
  /\ LET reads == n \in known \/ (folder[n] # Gone /\ Converts(n, folder[n], {folder[n]}))
         rest == Fill([run EXCEPT !.flight = @ \ {n}])
         next == IF HasThumbnail(n) THEN [rest EXCEPT !.wanted = @ \cup {n}] ELSE Answer(rest, n, "error")
     IN \/ /\ reads /\ Fine /\ known' = known \cup {n}
           /\ run' = IF ~Over(next) THEN next
                     ELSE [next EXCEPT !.pc = IF next.wanted = {} THEN "done" ELSE "blocks"]
           /\ IF n \notin known /\ Reports(n, folder[n], {folder[n]}) THEN Report({n}) ELSE UNCHANGED reported
        \/ /\ ~reads /\ Fine /\ UNCHANGED known /\ To("failed")
           /\ IF folder[n] # Gone THEN Report({n}) ELSE UNCHANGED reported
        \/ n \notin known /\ Fails /\ UNCHANGED <<known, reported>> /\ To("failed")

\* get_thumbnail_blocks: where they are, of those that are there.
ThumbnailBlocks == {n \in run.wanted : folder[n] # Gone}
Missing(r) == FoldSet(LAMBDA n, a : Append(a, <<n, "error">>), r.answers, r.wanted)
GetBlocks ==
  /\ run.pc = "blocks" /\ Quiet /\ UNCHANGED stayed
  /\ \/ LET found == Fill([run EXCEPT !.pc = "fetch", !.ids = SetToSortSeq(ThumbnailBlocks, <),
                                       !.wanted = @ \ ThumbnailBlocks])
        IN  run' = (IF Over(found) THEN [found EXCEPT !.pc = "done", !.answers = Missing(found)]
                    ELSE found) /\ Fine
     \/ To("failed") /\ Fails

\* download_thumbnail: it is there and decrypts, or there is an error of its own.  What the
\* server did not name is not found.
DownloadThumbnail(n) ==
  /\ run.pc = "fetch" /\ n \in run.flight /\ Quiet /\ UNCHANGED stayed
  /\ \E what \in {"image", "error"} :
       LET next == Answer(Fill([run EXCEPT !.flight = @ \ {n}]), n, what)
       IN /\ run' = IF ~Over(next) THEN next ELSE [next EXCEPT !.pc = "done", !.answers = Missing(next)]
          /\ \/ what = "image" /\ Reads(n, "thumbnail") /\ Fine
             \/ what = "error" /\ (~Reads(n, "thumbnail") \/ folder[n] = Gone) /\ Fine
             \/ what = "error" /\ Fails

\* Another client moves a node, restores or trashes one, or deletes it.
Change ==
  /\ others < MaxOthers[damaged] /\ others' = others + 1 /\ run.pc \notin {"done", "failed"}
  /\ \E n \in {m \in Nodes : folder[m] # Gone} :
       \/ \E to \in {Listed, Other, Gone} \ {folder[n]} :
             folder' = [folder EXCEPT ![n] = to] /\ UNCHANGED trashed
       \/ /\ trashed' = (IF n \in trashed THEN trashed \ {n} ELSE trashed \cup {n})
          /\ UNCHANGED folder
  /\ UNCHANGED <<kind, damaged, known, reported, run, faults>>
  /\ stayed' = stayed \cap Shown'

Next == \/ Start \/ GetMyFilesFolder \/ GetPage \/ GetShare \/ Queue \/ EndPage \/ LoadBatch \/ Change
        \/ Enumerate \/ GetBlocks
        \/ \E n \in Nodes : EnumerateNode(n)
        \/ \E n \in Nodes : DownloadThumbnail(n)
Spec == Init /\ [][Next]_vars

-----------------------------------------------------------------------------
Got == UNION ToSet(run.got)
Delivered == {item[1] : item \in Got}

(* A listing that ends well has what was there all along, but for shares that were
   passed over.  The trash, whose pages have numbers, is only sure to have it when
   nobody changes it meanwhile. *)
NothingIsMissing ==
  run.pc = "done" /\ kind # "thumbnails" /\ (kind = "trash" => others = 0) =>
    stayed \subseteq Delivered \cup run.skipped

(* No node comes twice, and none with the key of a folder it was not found in. *)
EachOnce ==
  (kind = "trash" => others = 0) => Cardinality(Got) = FoldLeft(LAMBDA n, b : n + Cardinality(b), 0, run.got)
OwnFolder == kind = "children" => \A item \in Got : item[2] = Listed

(* It fails only because a request failed, a node was moved away, or one it lists is
   damaged. *)
FailsForReason ==
  run.pc = "failed" => faults > 0 \/ others > 0 \/ {d[1] : d \in damaged} \cap (stayed \cup {MyFiles}) # {}

(* What is reported could not be read, by its own fault or because it was moved; and what
   made a listing fail was reported. *)
ReportsAreTrue ==
  /\ others = 0 => reported \subseteq {d[1] : d \in damaged}
  /\ run.pc = "failed" /\ faults = 0 /\ others = 0 => reported # {}

(* Of each node that is asked for there is one answer: its thumbnail, or an error for a
   reason.  No more than Width are fetched at once. *)
ThumbnailsAnswered ==
  kind = "thumbnails" =>
    /\ Cardinality(run.flight) <= Width
    /\ \A i, j \in DOMAIN run.answers : run.answers[i][1] = run.answers[j][1] => i = j
    /\ run.pc = "done" => Nodes = {a[1] : a \in ToSet(run.answers)}
    /\ \A a \in ToSet(run.answers) :
         IF a[2] = "image" THEN HasThumbnail(a[1]) /\ Reads(a[1], "thumbnail")
         ELSE ~HasThumbnail(a[1]) \/ ~Reads(a[1], "thumbnail") \/ faults > 0 \/ others > 0

(* Safety: a listing is whole, and each of its nodes is what its own folder's key says,
   or it fails and says of which node; and whoever asks for thumbnails has an answer for
   each. *)
ListingIsSound == NothingIsMissing /\ EachOnce /\ OwnFolder /\ FailsForReason /\ ReportsAreTrue /\ ThumbnailsAnswered
=============================================================================
