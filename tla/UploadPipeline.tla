--------------------------- MODULE UploadPipeline ---------------------------
(***************************************************************************)
(* Uploads of files (crates/proton-drive-sdk/src).                          *)
(* FileUploader::upload_from_stream (node/file/upload.rs) creates a draft   *)
(* on the server, waits for the one file permit of the client's upload      *)
(* queue, uploads thumbnails and blocks, and commits the draft.             *)
(* RevisionWriter::write (node/revision.rs) runs a producer, which reads    *)
(* and encrypts blocks into a channel of Buffer blocks, and a consumer,     *)
(* which keeps Width of them in flight, each in a task of its own.          *)
(*                                                                         *)
(* A file's content may change while it is uploaded: it was Expected blocks *)
(* long when the upload was asked for, and the stream yields actual blocks. *)
(***************************************************************************)
EXTENDS Naturals, Sequences, FiniteSets, SequencesExt

CONSTANTS Files,        \* uploads of one client
          Expected,     \* the expected_size of each, in blocks
          MaxBlocks,    \* bound: blocks in the stream of each
          Buffer,       \* MAX_BUFFERED_BLOCKS
          Width,        \* MAX_CONCURRENT_UPLOADS
          Permits,      \* block permits of the client
          Pausable      \* bound: the uploads the user may pause

ASSUME UploadAssumption ==
    /\ MaxBlocks \in [Files -> Nat] /\ Expected \in [Files -> Nat]
    /\ Buffer \in Nat \ {0} /\ Width \in Nat \ {0} /\ Permits \in Nat \ {0}

VARIABLES pc,         \* where each upload is
          draft,      \* its draft on the server: "none", "draft", "committed", "deleted"
          manifest,   \* the blocks the committed revision lists
          actual,     \* blocks in the stream
          producer,   \* "off", "read", "send", "ended" or "broken"
          made,       \* blocks encrypted
          channel,    \* blocks in the channel
          consumer,   \* step of the consumer's loop: "fill" or "select"
          closed,     \* producer_done
          task,       \* block tasks: "none", "queued", "running", "ready", "error"
          futures,    \* upload_futures, the blocks whose task is awaited
          results,    \* block_results, in the order they came
          control     \* the controller: "running", "paused" or "resumed"

vars == <<pc, draft, manifest, actual, producer, made, channel, consumer, closed,
          task, futures, results, control>>

stream == <<producer, made, channel>>
loop == <<consumer, closed, futures, results>>
server == <<draft, manifest>>

Blocks(f) == 1..MaxBlocks[f]
BlockCounts == {n \in [Files -> UNION {0..MaxBlocks[f] : f \in Files}] :
                    \A f \in Files : n[f] \in 0..MaxBlocks[f]}
Ended == {"done", "failed", "left", "refused", "unknown", "nodraft"}
Stages == {"new", "draft", "thumbnails", "write", "join", "cleanup", "commit", "sent"} \cup Ended

\* Mutant of Holders: a failed upload keeps its permit.
MutHolders == {f \in Files : pc[f] \in {"thumbnails", "write", "join", "commit",
                                       "sent", "cleanup", "failed", "left"}}

\* The RevisionWriter holds the file permit from open_for_writing to the end of
\* the commit, or to the first error.
Holders == {f \in Files : pc[f] \in {"thumbnails", "write", "join", "commit", "sent"}}
Running == UNION {{<<f, b>> : b \in {b \in Blocks(f) : task[f][b] = "running"}} : f \in Files}

Init == /\ pc = [f \in Files |-> "new"]
        /\ draft = [f \in Files |-> "none"]
        /\ manifest = [f \in Files |-> <<>>]
        /\ actual \in BlockCounts
        /\ producer = [f \in Files |-> "off"]
        /\ made = [f \in Files |-> 0]
        /\ channel = [f \in Files |-> <<>>]
        /\ consumer = [f \in Files |-> "fill"]
        /\ closed = [f \in Files |-> FALSE]
        /\ task = [f \in Files |-> [b \in Blocks(f) |-> "none"]]
        /\ futures = [f \in Files |-> {}]
        /\ results = [f \in Files |-> <<>>]
        /\ control = [f \in Files |-> "running"]

-----------------------------------------------------------------------------
(* upload_from_stream_inner *)

\* get_draft creates the draft.  When the block verifier cannot be created after
\* that, it returns an error and the draft stays (node/draft.rs:147).
GetDraft(f) ==
    /\ pc[f] = "new"
    /\ \/ pc' = [pc EXCEPT ![f] = "draft"] /\ draft' = [draft EXCEPT ![f] = "draft"]
       \/ pc' = [pc EXCEPT ![f] = "nodraft"] /\ draft' = [draft EXCEPT ![f] = "draft"]
       \/ pc' = [pc EXCEPT ![f] = "failed"] /\ UNCHANGED draft
    /\ UNCHANGED <<manifest, actual, stream, loop, task, control>>

\* open_for_writing gets the file permit.
OpenForWriting(f) ==
    /\ pc[f] = "draft" /\ Holders = {}
    /\ pc' = [pc EXCEPT ![f] = "thumbnails"]
    /\ UNCHANGED <<server, actual, stream, loop, task, control>>

\* upload_thumbnails; then write starts the producer.
UploadThumbnails(f) ==
    /\ pc[f] = "thumbnails"
    /\ \/ /\ pc' = [pc EXCEPT ![f] = "write"]
          /\ producer' = [producer EXCEPT ![f] = "read"]
       \/ /\ pc' = [pc EXCEPT ![f] = "cleanup"]
          /\ UNCHANGED producer
    /\ UNCHANGED <<server, actual, made, channel, loop, task, control>>

\* write_draft failed: the draft is deleted.  When that fails too, it is only logged.
Cleanup(f) ==
    /\ pc[f] = "cleanup"
    /\ \/ /\ pc' = [pc EXCEPT ![f] = "failed"]
          /\ draft' = [draft EXCEPT ![f] = "deleted"]
       \/ /\ pc' = [pc EXCEPT ![f] = "left"]
          /\ UNCHANGED draft
    /\ UNCHANGED <<manifest, actual, stream, loop, task, control>>

\* Mutant of Commit: what was written is not compared with the expected size.
MutCommit(f) ==
    /\ pc[f] = "commit"
    /\ pc' = [pc EXCEPT ![f] = "sent"]
    /\ UNCHANGED <<server, actual, stream, loop, task, control>>

\* commit compares the size with the expected one before it sends anything.
Commit(f) ==
    /\ pc[f] = "commit"
    /\ pc' = [pc EXCEPT ![f] = IF Len(results[f]) = Expected[f] THEN "sent" ELSE "refused"]
    /\ UNCHANGED <<server, actual, stream, loop, task, control>>

\* The block numbers in S, in their order.
Sorted(S) == CHOOSE s \in [1..Cardinality(S) -> S] :
                 \A i, j \in 1..Cardinality(S) : i < j => s[i] < s[j]

\* Mutant of CommitReply: a commit without an answer is cleaned up.
MutCommitReply(f) ==
    /\ pc[f] = "sent"
    /\ \/ /\ draft' = [draft EXCEPT ![f] = "committed"]
          /\ manifest' = [manifest EXCEPT ![f] = Sorted(ToSet(results[f]))]
          /\ \E end \in {"done", "cleanup"} : pc' = [pc EXCEPT ![f] = end]
       \/ /\ pc' = [pc EXCEPT ![f] = "cleanup"]
          /\ UNCHANGED server
    /\ UNCHANGED <<actual, stream, loop, task, control>>

\* The server applies the commit, and its answer may be lost; or it refuses it.
\* The manifest lists the results sorted by block number.
CommitReply(f) ==
    /\ pc[f] = "sent"
    /\ \/ /\ draft' = [draft EXCEPT ![f] = "committed"]
          /\ manifest' = [manifest EXCEPT ![f] = Sorted(ToSet(results[f]))]
          /\ \E end \in {"done", "unknown"} : pc' = [pc EXCEPT ![f] = end]
       \/ /\ pc' = [pc EXCEPT ![f] = "unknown"]
          /\ UNCHANGED server
    /\ UNCHANGED <<actual, stream, loop, task, control>>

-----------------------------------------------------------------------------
(* write: the producer, a task. *)

\* The next block is read and encrypted, or the stream is at its end.  Pausing
\* only stops it between two blocks.
Produce(f) ==
    /\ producer[f] = "read" /\ control[f] # "paused"
    /\ IF made[f] < actual[f]
       THEN /\ made' = [made EXCEPT ![f] = @ + 1]
            /\ producer' = [producer EXCEPT ![f] = "send"]
       ELSE /\ producer' = [producer EXCEPT ![f] = "ended"]
            /\ UNCHANGED made
    /\ UNCHANGED <<pc, server, actual, channel, loop, task, control>>

\* Reading or encrypting fails: the task ends and drops the channel's sender.
ProduceFails(f) ==
    /\ producer[f] = "read" /\ control[f] # "paused"
    /\ producer' = [producer EXCEPT ![f] = "broken"]
    /\ UNCHANGED <<pc, server, actual, made, channel, loop, task, control>>

\* The block is sent when the channel has room; there is no receiver any more
\* once write has returned an error.
Send(f) ==
    /\ producer[f] = "send"
    /\ \/ /\ pc[f] = "write" /\ Len(channel[f]) < Buffer
          /\ channel' = [channel EXCEPT ![f] = Append(@, made[f])]
          /\ producer' = [producer EXCEPT ![f] = "read"]
       \/ /\ pc[f] # "write"
          /\ producer' = [producer EXCEPT ![f] = "broken"]
          /\ UNCHANGED channel
    /\ UNCHANGED <<pc, server, actual, made, loop, task, control>>

-----------------------------------------------------------------------------
(* write: the consumer. *)

Disconnected(f) == producer[f] \in {"ended", "broken"} /\ channel[f] = <<>>
HasCapacity(f) == ~closed[f] /\ Cardinality(futures[f]) < Width

\* spawn_block_upload for the first block of the channel.
Spawn(f) ==
    /\ channel[f] # <<>>
    /\ channel' = [channel EXCEPT ![f] = Tail(@)]
    /\ futures' = [futures EXCEPT ![f] = @ \cup {Head(channel[f])}]
    /\ task' = [task EXCEPT ![f][Head(channel[f])] = "queued"]

\* try_recv, while there is capacity and the upload is not paused.
Fill(f) ==
    /\ pc[f] = "write" /\ consumer[f] = "fill" /\ HasCapacity(f)
    /\ control[f] # "paused"
    /\ \/ Spawn(f) /\ UNCHANGED <<consumer, closed>>
       \/ /\ channel[f] = <<>>
          /\ closed' = [closed EXCEPT ![f] = Disconnected(f)]
          /\ consumer' = [consumer EXCEPT ![f] = "select"]
          /\ UNCHANGED <<channel, futures, task>>
    /\ UNCHANGED <<pc, server, actual, producer, made, results, control>>

\* The inner loop is over: all done, or select.
EndFill(f) ==
    /\ pc[f] = "write" /\ consumer[f] = "fill" /\ ~HasCapacity(f)
    /\ consumer' = [consumer EXCEPT ![f] = "select"]
    /\ UNCHANGED <<pc, server, actual, stream, closed, futures, task, results, control>>

AllDone(f) ==
    /\ pc[f] = "write" /\ consumer[f] = "select" /\ futures[f] = {} /\ closed[f]
    /\ pc' = [pc EXCEPT ![f] = "join"]
    /\ UNCHANGED <<server, actual, stream, loop, task, control>>

\* recv in the select, or when nothing is in flight.  It is not gated by pause.
Receive(f) ==
    /\ pc[f] = "write" /\ consumer[f] = "select" /\ HasCapacity(f)
    /\ \/ Spawn(f) /\ UNCHANGED closed
       \/ /\ Disconnected(f)
          /\ closed' = [closed EXCEPT ![f] = TRUE]
          /\ UNCHANGED <<channel, futures, task>>
    /\ consumer' = [consumer EXCEPT ![f] = "fill"]
    /\ UNCHANGED <<pc, server, actual, producer, made, results, control>>

\* An upload completed.
TakeResult(f, b) ==
    /\ pc[f] = "write" /\ consumer[f] = "select"
    /\ b \in futures[f] /\ task[f][b] = "ready"
    /\ futures' = [futures EXCEPT ![f] = @ \ {b}]
    /\ results' = [results EXCEPT ![f] = Append(@, b)]
    /\ consumer' = [consumer EXCEPT ![f] = "fill"]
    /\ UNCHANGED <<pc, server, actual, stream, closed, task, control>>

\* An upload failed: write returns, and drops the channel and the other futures.
TakeError(f, b) ==
    /\ pc[f] = "write" /\ consumer[f] = "select"
    /\ b \in futures[f] /\ task[f][b] = "error"
    /\ pc' = [pc EXCEPT ![f] = "cleanup"]
    /\ futures' = [futures EXCEPT ![f] = {}]
    /\ channel' = [channel EXCEPT ![f] = <<>>]
    /\ UNCHANGED <<server, actual, producer, made, consumer, closed, task, results,
                   control>>

\* producer.await
Join(f) ==
    /\ pc[f] = "join"
    /\ pc' = [pc EXCEPT ![f] = IF producer[f] = "ended" THEN "commit" ELSE "cleanup"]
    /\ UNCHANGED <<server, actual, stream, loop, task, control>>

-----------------------------------------------------------------------------
(* A block's task, upload_encrypted_block.  It runs on when write has failed. *)

StartBlock(f, b) ==
    /\ task[f][b] = "queued" /\ Cardinality(Running) < Permits
    /\ task' = [task EXCEPT ![f][b] = "running"]
    /\ UNCHANGED <<pc, server, actual, stream, loop, control>>

BlockEnds(f, b) ==
    /\ task[f][b] = "running"
    /\ \E result \in {"ready", "error"} :
          task' = [task EXCEPT ![f][b] = result]
    /\ UNCHANGED <<pc, server, actual, stream, loop, control>>

-----------------------------------------------------------------------------
(* UploadController. *)

\* pause, once for each upload (a bound).
Pause(f) ==
    /\ f \in Pausable /\ control[f] = "running" /\ pc[f] \notin Ended
    /\ control' = [control EXCEPT ![f] = "paused"]
    /\ UNCHANGED <<pc, server, actual, stream, loop, task>>

\* resume
Resume(f) ==
    /\ control[f] = "paused"
    /\ control' = [control EXCEPT ![f] = "resumed"]
    /\ UNCHANGED <<pc, server, actual, stream, loop, task>>

-----------------------------------------------------------------------------
Consume(f) == \/ Fill(f) \/ EndFill(f) \/ AllDone(f) \/ Receive(f)
              \/ \E b \in Blocks(f) : TakeResult(f, b) \/ TakeError(f, b)
Finish(f) == UploadThumbnails(f) \/ Cleanup(f) \/ Commit(f) \/ CommitReply(f) \/ Join(f)
Produces(f) == Produce(f) \/ ProduceFails(f) \/ Send(f)

Next == \E f \in Files :
           \/ GetDraft(f) \/ OpenForWriting(f) \/ Finish(f) \/ Consume(f)
           \/ Produces(f) \/ Pause(f) \/ Resume(f)
           \/ \E b \in Blocks(f) : StartBlock(f, b) \/ BlockEnds(f, b)

Spec == Init /\ [][Next]_vars

\* Tasks run, requests end, a paused upload is resumed some day, and the
\* semaphores of tokio serve their waiters in order.
Fairness ==
    \A f \in Files :
      /\ WF_vars(Resume(f)) /\ SF_vars(OpenForWriting(f))
      /\ WF_vars(Finish(f)) /\ WF_vars(Consume(f)) /\ WF_vars(Produces(f))
      /\ \A b \in Blocks(f) : SF_vars(StartBlock(f, b)) /\ WF_vars(BlockEnds(f, b))

FairSpec == Spec /\ Fairness

-----------------------------------------------------------------------------
TypeOK ==
    /\ pc \in [Files -> Stages]
    /\ draft \in [Files -> {"none", "draft", "committed", "deleted"}]
    /\ actual \in BlockCounts
    /\ producer \in [Files -> {"off", "read", "send", "ended", "broken"}]
    /\ made \in BlockCounts
    /\ consumer \in [Files -> {"fill", "select"}]
    /\ closed \in [Files -> BOOLEAN]
    /\ Files = DOMAIN task /\ Files = DOMAIN futures
    /\ Files = DOMAIN manifest /\ Files = DOMAIN channel /\ Files = DOMAIN results
    /\ \A f \in Files :
          /\ task[f] \in [Blocks(f) -> {"none", "queued", "running", "ready", "error"}]
          /\ futures[f] \subseteq Blocks(f)
          /\ {manifest[f], channel[f], results[f]} \subseteq Seq(Blocks(f))
    /\ control \in [Files -> {"running", "paused", "resumed"}]

(* Safety: a committed revision lists all the blocks of the file, in order, and
   each was uploaded, although they are uploaded in parallel and answered in any
   order, and although the producer, an upload or the stream may fail. *)
CommittedIsComplete ==
    \A f \in Files : draft[f] = "committed" =>
        /\ manifest[f] = [i \in 1..Expected[f] |-> i]
        /\ \A b \in 1..Expected[f] : task[f][b] = "ready"

(* Safety: nothing of an upload goes on behind the back of its commit. *)
QuietAtCommit ==
    \A f \in Files : pc[f] \in {"commit", "sent", "done"} =>
        /\ producer[f] = "ended" /\ channel[f] = <<>> /\ futures[f] = {}
        /\ ToSet(results[f]) = 1..made[f]
        /\ \A b \in Blocks(f) : task[f][b] \in {"none", "ready"}

(* Safety: at most Width uploads are in flight, and the blocks that are encrypted
   and not yet stored are those, Buffer blocks in the channel and the one that
   the producer waits to send (node/revision.rs:413-419), however uploads and the
   producer take turns and whatever is paused. *)
MemoryIsBounded ==
    \A f \in Files : pc[f] = "write" =>
        /\ Cardinality(futures[f]) <= Width
        /\ made[f] - Len(results[f]) <= Buffer + Width + 1

(* Action property: what may be committed is not deleted.  A commit that was sent
   and not answered leaves its draft alone (node/file/upload.rs:211). *)
CommittedStays ==
    [][\A f \in Files : draft[f] = "committed" => draft'[f] = "committed"]_vars

(* Safety, the claim of node/file/upload.rs:204: an upload that fails before its
   commit is sent leaves no draft to keep its name taken, if the server deletes
   it when it is asked to.  Not checked, for it does not hold: a commit refused
   for its size is not cleaned up. *)
NoAbandonedDraft ==
    \A f \in Files : pc[f] \in {"failed", "refused"} => draft[f] # "draft"

(* Safety: the same, of uploads that failed while they were written, wherever the
   error was found and whatever else was in flight. *)
FailedWriteLeavesNoDraft ==
    \A f \in Files : pc[f] = "failed" => draft[f] # "draft"

(* Safety: a commit is of a complete revision that is at rest, and what an upload
   keeps in memory and on the server is bounded and ends. *)
UploadIsSound == /\ TypeOK /\ MemoryIsBounded /\ FailedWriteLeavesNoDraft
                 /\ CommittedIsComplete /\ QuietAtCommit

(* Liveness: every upload ends, also behind one that failed and left its tasks
   running, as long as paused ones are resumed. *)
UploadsEnd == \A f \in Files : pc[f] = "draft" ~> pc[f] \in Ended
=============================================================================
