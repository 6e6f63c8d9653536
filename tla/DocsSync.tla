------------------------------ MODULE DocsSync ------------------------------
(***************************************************************************)
(* Proton documents in the SDK (crates/proton-drive-sdk/src/docs.rs): how  *)
(* one is opened and its chunked updates put together again, how its text  *)
(* is replaced under the lock of the server, and the debouncing of an      *)
(* editor of a copy of the text whose changes are written back.            *)
(*                                                                         *)
(* What an update says is abstracted to a number, its signature and        *)
(* encryption and the conversion to markdown are left out.  Each request   *)
(* may fail before it reaches the server, or its answer may be lost.       *)
(***************************************************************************)
EXTENDS Integers, Sequences, FiniteSets, SequencesExt

CONSTANTS Procs,      \* calls that open or write the document, each made once
          Live,       \* the one that writes back what is typed
          Texts,      \* what is typed
          Bounds      \* records of bounds, of which a behaviour has one: `pieces' of updates
                      \* that other clients send, times the copy is `typed' on, `looks' at it,
                      \* `faults': requests that fail, or whose answer is lost

None == "none"
NoId == <<None, 0>>

VARIABLES
  bound,     \* the bounds of this behaviour
  document,  \* the server's: whether it exists, its last commit, the pieces of its updates
  lock,      \* who holds it, on the server
  open,      \* updates of which one chunk was sent, each with the other chunk
  proc,      \* what each call does
  pad,       \* the text of the copy
  live,      \* last_seen, last_written and stable of the loop that writes it back
  looks,     \* history: what its last looks returned
  leaked,    \* history: calls whose lock the server was not asked to give back
  typed, polls, faults

vars == <<bound, document, lock, open, proc, pad, live, looks, leaked, typed, polls, faults>>
others == <<bound, pad, live, looks, typed, polls>>

\* A piece of an update: whole, or one of its `total' chunks; `commit' brought it.
Piece(id, total, index, of, commit) ==
  [id |-> id, total |-> total, index |-> index, of |-> of, commit |-> commit]
Idle == [pc |-> "idle", text |-> None, commit |-> 0, wire |-> <<>>, updates |-> <<>>, ok |-> FALSE]

Init ==
  /\ bound \in Bounds
  /\ document \in {[exists |-> FALSE, head |-> 0, wire |-> <<>>],
                   [exists |-> TRUE, head |-> 1, wire |-> <<Piece(NoId, 1, 0, <<"edit", 0>>, 1)>>]}
  /\ lock = None /\ open = {} /\ leaked = {}
  /\ proc = [p \in Procs |-> Idle]
  /\ pad = CHOOSE t \in Texts : TRUE
  /\ live = [seen |-> pad, written |-> pad, stable |-> 0]
  /\ looks = <<>> /\ typed = 0 /\ polls = 0 /\ faults = 0

-----------------------------------------------------------------------------
(* merge_chunked_updates *)

NoChunk == [i \in {} |-> 0]

\* Mutant: an update is taken as complete when its last chunk comes.
MutMerge(merged, piece) ==
  LET before == IF piece.id \in DOMAIN merged.pending THEN merged.pending[piece.id] ELSE <<>>
      chunks == Append(before, <<piece.of, piece.index>>)
  IN IF piece.index + 1 = piece.total THEN [merged EXCEPT !.out = Append(@, chunks)]
     ELSE [merged EXCEPT !.pending = [i \in DOMAIN @ \cup {piece.id} |->
                                        IF i = piece.id THEN chunks ELSE @[i]]]

\* One more piece: a whole update is passed on, a chunk is kept until its update has as
\* many as its first one said.
Merge(merged, piece) ==
  LET waiting == merged.pending
      entry == IF piece.id \in DOMAIN waiting THEN waiting[piece.id]
               ELSE [total |-> piece.total, chunks |-> NoChunk]
      chunks == [i \in DOMAIN entry.chunks \cup {piece.index} |->
                   IF i = piece.index THEN piece.of ELSE entry.chunks[i]]
      rest == [i \in DOMAIN waiting \ {piece.id} |-> waiting[i]]
  IN IF piece.id = NoId THEN [merged EXCEPT !.out = Append(@, <<<<piece.of, 0>>>>)]
     ELSE IF Cardinality(DOMAIN chunks) # entry.total
       THEN [merged EXCEPT !.pending = [i \in DOMAIN rest \cup {piece.id} |->
                                          IF i = piece.id THEN [entry EXCEPT !.chunks = chunks]
                                          ELSE rest[i]]]
     ELSE [pending |-> rest,
           out |-> Append(merged.out,
                     [k \in 1..entry.total |-> <<chunks[k - 1], k - 1>>])]

MergeChunked(wire) ==
  FoldLeft(Merge, [pending |-> [i \in {} |-> 0], out |-> <<>>], wire).out

\* What it is for: the updates of which everything was sent, each where its last piece is.
Whole(wire) ==
  LET ofUpdate(u) == {i \in DOMAIN wire : wire[i].of = u}
      last(i) == /\ Cardinality(ofUpdate(wire[i].of)) = wire[i].total
                 /\ \A j \in ofUpdate(wire[i].of) : j <= i
      ends == SetToSortSeq({i \in DOMAIN wire : last(i)}, <)
  IN [k \in DOMAIN ends |->
        [n \in 1..wire[ends[k]].total |-> <<wire[ends[k]].of, n - 1>>]]

-----------------------------------------------------------------------------
(* Other clients: an update is sent whole or in two chunks, and several at a time,
   each with a number of its own, which is not used again here (the code's are a byte);
   whoever sends it may go away in between. *)

Fresh == <<"edit", document.head + 1>>
CommitPiece(id, total, index, of) ==
  document' = [document EXCEPT !.head = @ + 1,
                 !.wire = Append(@, Piece(id, total, index, of, document.head + 1))]

Edit ==
  /\ document.head \in 1..bound.pieces
  /\ \/ CommitPiece(NoId, 1, 0, Fresh) /\ UNCHANGED open
     \/ \E first \in {0, 1} : /\ CommitPiece(Fresh, 2, first, Fresh)
                              /\ open' = open \cup {<<Fresh, 1 - first>>}
     \/ \E rest \in open : /\ CommitPiece(rest[1], 2, rest[2], rest[1])
                           /\ open' = open \ {rest}
  /\ UNCHANGED <<lock, proc, leaked, faults, others>>

-----------------------------------------------------------------------------
(* open_document_uid *)

To(p, pc) == proc' = [proc EXCEPT ![p].pc = pc]
Quiet == UNCHANGED <<open, leaked, others>>
Fault == faults < bound.faults /\ faults' = faults + 1
Fine == UNCHANGED faults

Open(p) ==
  /\ p # Live /\ proc[p] = Idle /\ To(p, "meta") /\ Fine
  /\ UNCHANGED <<document, lock>> /\ Quiet

\* get_meta; a document without one, or without an answer, is created.
OpenMeta(p) ==
  /\ proc[p].pc \in {"meta", "metaAgain"} /\ UNCHANGED <<document, lock>> /\ Quiet
  /\ \/ /\ document.exists /\ Fine
        /\ IF document.head = 0 THEN To(p, "opened")
           ELSE proc' = [proc EXCEPT ![p].pc = "commit", ![p].commit = document.head]
     \/ /\ \/ ~document.exists /\ Fine
           \/ Fault
        /\ To(p, IF proc[p].pc = "meta" THEN "create" ELSE "failed")

CreateDocument == ~document.exists /\ document' = [document EXCEPT !.exists = TRUE]
OpenCreate(p) ==
  /\ proc[p].pc = "create" /\ UNCHANGED lock /\ Quiet
  /\ \/ CreateDocument /\ To(p, "metaAgain") /\ Fine
     \/ CreateDocument /\ To(p, "failed") /\ Fault
     \/ document.exists /\ To(p, "failed") /\ UNCHANGED document /\ Fine
     \/ Fault /\ To(p, "failed") /\ UNCHANGED document

\* get_commit of the last one that the answer named, and decrypt_commit.
OpenCommit(p) ==
  /\ proc[p].pc = "commit" /\ UNCHANGED <<document, lock>> /\ Quiet
  /\ \/ LET wire == SelectSeq(document.wire, LAMBDA piece : piece.commit <= proc[p].commit)
        IN proc' = [proc EXCEPT ![p].pc = "opened", ![p].wire = wire,
                                ![p].updates = MergeChunked(wire)] /\ Fine
     \/ Fault /\ To(p, "failed")

-----------------------------------------------------------------------------
(* write_document_markdown *)

StartWrite(p, text) == proc' = [proc EXCEPT ![p] = [Idle EXCEPT !.pc = "writeMeta", !.text = text]]
Write(p) ==
  /\ p # Live /\ proc[p] = Idle /\ Fine
  /\ StartWrite(p, "other") /\ UNCHANGED <<document, lock>> /\ Quiet

\* An error counts as a document without a commit.
WriteMeta(p) ==
  /\ proc[p].pc = "writeMeta" /\ UNCHANGED <<document, lock>> /\ Quiet
  /\ \/ /\ document.head # 0 /\ Fine
        /\ proc' = [proc EXCEPT ![p].pc = "lock", ![p].commit = document.head]
     \/ ((document.head = 0 /\ Fine) \/ Fault) /\ To(p, "seedCreate")

\* Whether the document could be created does not matter.
SeedCreate(p) ==
  /\ proc[p].pc = "seedCreate" /\ To(p, "seed") /\ UNCHANGED lock /\ Quiet
  /\ \/ CreateDocument /\ Fine
     \/ ((document.exists /\ Fine) \/ Fault) /\ UNCHANGED document

\* The text as the only update of a first commit; or instead of what commits up to the
\* one named have.
Replace(p, commit) ==
  document' = [document EXCEPT
    !.head = IF @ = 0 THEN 1 ELSE @,
    !.wire = <<Piece(NoId, 1, 0, <<proc[p].text, 0>>, commit)>>
             \o SelectSeq(@, LAMBDA piece : piece.commit > commit)]
SeedCommit(p) ==
  /\ proc[p].pc = "seed" /\ UNCHANGED lock /\ Quiet
  /\ \/ /\ document.exists /\ document.head = 0 /\ Replace(p, 1)
        /\ \/ proc' = [proc EXCEPT ![p].pc = "done", ![p].ok = TRUE] /\ Fine
           \/ To(p, "failed") /\ Fault
     \/ /\ \/ ~(document.exists /\ document.head = 0) /\ Fine
           \/ Fault
        /\ To(p, "failed") /\ UNCHANGED document

LockDocument(p) ==
  /\ proc[p].pc = "lock" /\ UNCHANGED <<document, open, others>>
  /\ \/ lock = None /\ lock' = p /\ To(p, "squash") /\ UNCHANGED leaked /\ Fine
     \/ lock = None /\ lock' = p /\ To(p, "failed") /\ leaked' = leaked \cup {p} /\ Fault
     \/ ((lock # None /\ Fine) \/ Fault) /\ To(p, "failed") /\ UNCHANGED <<lock, leaked>>

\* Whatever comes of it, the lock is given back.
Squash(p) ==
  /\ proc[p].pc = "squash" /\ UNCHANGED lock /\ Quiet
  /\ \/ /\ lock = p /\ Replace(p, proc[p].commit) /\ Fine
        /\ proc' = [proc EXCEPT ![p].pc = "unlock", ![p].ok = TRUE]
     \/ /\ Fault /\ To(p, "unlock")
        /\ ((lock = p /\ Replace(p, proc[p].commit)) \/ UNCHANGED document)
\* Mutant: a failed write returns before it gives the lock back.
MutUnlock(p) ==
  /\ proc[p].pc = "unlock" /\ UNCHANGED <<document, open, leaked, others>> /\ Fine
  /\ To(p, IF proc[p].ok THEN "done" ELSE "failed")
  /\ lock' = (IF lock = p /\ proc[p].ok THEN None ELSE lock)
Unlock(p) ==
  /\ proc[p].pc = "unlock" /\ UNCHANGED <<document, open, others>>
  /\ To(p, IF proc[p].ok THEN "done" ELSE "failed")
  /\ \/ lock' = (IF lock = p THEN None ELSE lock) /\ Fine /\ UNCHANGED leaked
     \/ Fault /\ UNCHANGED lock /\ leaked' = leaked \cup {p}

-----------------------------------------------------------------------------
(* The copy, and live_sync_tick.  The loop that calls it, which the SDK leaves to its
   user, looks at the copy, and writes what it saw back when told to. *)

Type(text) ==
  /\ text # pad /\ typed < bound.typed /\ pad' = text /\ typed' = typed + 1
  /\ UNCHANGED <<bound, document, lock, open, proc, live, looks, leaked, polls, faults>>

\* Mutant: a change does not start the count again.
MutTick(seen) ==
  [live EXCEPT !.seen = seen, !.stable = IF @ < 2 THEN @ + 1 ELSE @]
\* live_sync_tick: what it makes of a look, and what it says.
Tick(seen) ==
  IF seen = live.seen THEN [live EXCEPT !.stable = IF @ < 2 THEN @ + 1 ELSE @]
  ELSE [live EXCEPT !.seen = seen, !.stable = 0]
SaysWrite(before, after) ==
  before.seen = after.seen /\ after.seen # after.written /\ after.stable >= 2

Poll ==
  /\ polls < bound.looks /\ polls' = polls + 1
  /\ proc[Live].pc \in {"idle", "done", "failed"}
  /\ LET before == IF proc[Live].pc = "done" /\ proc[Live].ok
                     THEN [live EXCEPT !.written = proc[Live].text] ELSE live
         after == [Tick(pad) EXCEPT !.written = before.written]
     IN /\ live' = after
        /\ IF SaysWrite(before, after) THEN StartWrite(Live, pad)
           ELSE proc' = [proc EXCEPT ![Live] = Idle]
  /\ looks' = Append(IF Len(looks) = 3 THEN Tail(looks) ELSE looks, pad)
  /\ UNCHANGED <<bound, document, lock, open, leaked, pad, typed, faults>>

Call(p) == \/ OpenMeta(p) \/ OpenCreate(p) \/ OpenCommit(p) \/ WriteMeta(p) \/ SeedCreate(p)
           \/ SeedCommit(p) \/ LockDocument(p) \/ Squash(p) \/ Unlock(p)
Next == \/ Edit \/ Poll
        \/ \E t \in Texts : Type(t)
        \/ \E p \in Procs : Open(p) \/ Write(p) \/ Call(p)
Spec == Init /\ [][Next]_vars

-----------------------------------------------------------------------------
(* Whoever opens the document gets each update that was sent whole, put together from
   its own chunks in order, and nothing of the others. *)
OpenedIsWhole == \A p \in Procs : proc[p].pc = "opened" => proc[p].updates = Whole(proc[p].wire)

(* A write that ended leaves no lock behind, whether it succeeded or not, unless an
   answer was lost. *)
LockIsGivenBack ==
  lock # None => lock \in leaked \/ proc[lock].pc \in {"squash", "unlock"}

(* What is written back had settled: the last three looks found it. *)
WrittenHadSettled ==
  proc[Live].pc = "writeMeta" => /\ Len(looks) = 3
                                 /\ \A i \in 1..3 : looks[i] = proc[Live].text

(* Safety: documents are read and written whole, under a lock that is given back. *)
DocumentsAreSound == OpenedIsWhole /\ LockIsGivenBack /\ WrittenHadSettled
=============================================================================
