-------------------------- MODULE DownloadPipeline --------------------------
(***************************************************************************)
(* Downloads of whole files (crates/proton-drive-sdk/src):                  *)
(* FileDownloader::download_to_stream in node/file/download.rs waits for    *)
(* the one file permit of the client's TransferQueue, lists the blocks and  *)
(* calls RevisionReader::read_all_blocks_parallel (node/download.rs), which *)
(* keeps Width blocks in flight, each in a task of its own, buffers those   *)
(* that come out of order and writes them in order.                         *)
(*                                                                         *)
(* A block's task waits for one of Permits block permits, shared by all     *)
(* downloads of the client.  Its retries are a step here, with their        *)
(* outcome.  When a download fails its tasks are dropped from the set of    *)
(* futures but not aborted: they run on, with their permits.                *)
(***************************************************************************)
EXTENDS Naturals, Sequences, FiniteSets

CONSTANTS Files,         \* downloads of one client
          N,             \* the number of blocks of each revision
          Width,         \* MAX_CONCURRENT_DOWNLOADS
          Permits,       \* block permits of the client
          MaxBuffered    \* MAX_BUFFERED_DOWNLOAD_BLOCKS, which no code uses

ASSUME DownloadAssumption ==
    /\ N \in [Files -> Nat] /\ Width \in Nat \ {0} /\ Permits \in Nat \ {0}
    /\ MaxBuffered \in Nat

VARIABLES pc,       \* where each download is
          task,     \* its block tasks: "none", "queued" for a permit, "running",
                    \* "ready" or "error"
          futures,  \* download_futures, the blocks whose task it still awaits
          next,     \* next_download_index
          took,     \* the block it just took from the futures, 0 for none
          buffer,   \* buffered_blocks
          out,      \* the blocks written to the output, in order
          control   \* the controller: "running", "paused" or "resumed"

vars == <<pc, task, futures, next, took, buffer, out, control>>

Blocks(f) == 1..N[f]
Ended == {"done", "failed"}
Stages == {"idle", "queue", "list", "batch", "wait", "gate", "drain"} \cup Ended

\* Mutant of Holders: a failed download keeps its permit.
MutHolders == {f \in Files : pc[f] \notin {"idle", "queue", "done"}}

\* The downloads that hold the file permit: it is freed when the task ends.
Holders == {f \in Files : pc[f] \notin {"idle", "queue"} \cup Ended}
Running == UNION {{<<f, b>> : b \in {b \in Blocks(f) : task[f][b] = "running"}} : f \in Files}

Init == /\ pc = [f \in Files |-> "idle"]
        /\ task = [f \in Files |-> [b \in Blocks(f) |-> "none"]]
        /\ futures = [f \in Files |-> {}]
        /\ next = [f \in Files |-> 1]
        /\ took = [f \in Files |-> 0]
        /\ buffer = [f \in Files |-> {}]
        /\ out = [f \in Files |-> <<>>]
        /\ control = [f \in Files |-> "running"]

-----------------------------------------------------------------------------
(* The user. *)

\* download_to_stream spawns the task and returns the controller.
Download(f) ==
    /\ pc[f] = "idle"
    /\ pc' = [pc EXCEPT ![f] = "queue"]
    /\ UNCHANGED <<task, futures, next, took, buffer, out, control>>

\* pause, once for each download (a bound).
Pause(f) ==
    /\ control[f] = "running" /\ pc[f] \notin {"idle"} \cup Ended
    /\ control' = [control EXCEPT ![f] = "paused"]
    /\ UNCHANGED <<pc, task, futures, next, took, buffer, out>>

\* resume, or the controller is dropped, which wait_while_paused takes for one.
Resume(f) ==
    /\ control[f] = "paused"
    /\ control' = [control EXCEPT ![f] = "resumed"]
    /\ UNCHANGED <<pc, task, futures, next, took, buffer, out>>

-----------------------------------------------------------------------------
(* The task of a download. *)

\* start_file: the file permit is free.
StartFile(f) ==
    /\ pc[f] = "queue" /\ Holders = {}
    /\ pc' = [pc EXCEPT ![f] = "list"]
    /\ UNCHANGED <<task, futures, next, took, buffer, out, control>>

\* create_download_state lists the blocks, or fails.
List(f) ==
    /\ pc[f] = "list"
    /\ \/ pc' = [pc EXCEPT ![f] = IF N[f] = 0 THEN "done" ELSE "batch"]
       \/ pc' = [pc EXCEPT ![f] = "failed"]
    /\ UNCHANGED <<task, futures, next, took, buffer, out, control>>

\* The initial batch of block tasks, once the download is not paused.
StartBatch(f) ==
    /\ pc[f] = "batch" /\ control[f] # "paused"
    /\ LET batch == {b \in Blocks(f) : b <= Width} IN
       /\ task' = [task EXCEPT ![f] = [b \in Blocks(f) |->
                       IF b \in batch THEN "queued" ELSE "none"]]
       /\ futures' = [futures EXCEPT ![f] = batch]
       /\ next' = [next EXCEPT ![f] = Cardinality(batch) + 1]
    /\ pc' = [pc EXCEPT ![f] = "wait"]
    /\ UNCHANGED <<took, buffer, out, control>>

\* download_futures.next() returns a block.
TakeBlock(f, b) ==
    /\ pc[f] = "wait" /\ b \in futures[f] /\ task[f][b] = "ready"
    /\ futures' = [futures EXCEPT ![f] = @ \ {b}]
    /\ took' = [took EXCEPT ![f] = b]
    /\ pc' = [pc EXCEPT ![f] = "gate"]
    /\ UNCHANGED <<task, next, buffer, out, control>>

\* It returns an error: the whole download fails and lets go of the other tasks.
TakeError(f, b) ==
    /\ pc[f] = "wait" /\ b \in futures[f] /\ task[f][b] = "error"
    /\ futures' = [futures EXCEPT ![f] = {}]
    /\ buffer' = [buffer EXCEPT ![f] = {}]
    /\ pc' = [pc EXCEPT ![f] = "failed"]
    /\ UNCHANGED <<task, next, took, out, control>>

\* Once not paused, the next block is started and the one at hand is buffered.
Proceed(f) ==
    /\ pc[f] = "gate" /\ control[f] # "paused"
    /\ next' = [next EXCEPT ![f] = @ + 1]
    /\ IF next[f] \in Blocks(f)
       THEN /\ task' = [task EXCEPT ![f][next[f]] = "queued"]
            /\ futures' = [futures EXCEPT ![f] = @ \cup {next[f]}]
       ELSE UNCHANGED <<task, futures>>
    /\ buffer' = [buffer EXCEPT ![f] = @ \cup {took[f]}]
    /\ took' = [took EXCEPT ![f] = 0]
    /\ pc' = [pc EXCEPT ![f] = "drain"]
    /\ UNCHANGED <<out, control>>

NextWrite(f) == Len(out[f]) + 1

\* Mutant of WriteBlock: any block that is buffered is written.
MutWriteBlock(f) ==
    /\ pc[f] = "drain"
    /\ \E b \in buffer[f] :
          /\ out' = [out EXCEPT ![f] = Append(@, b)]
          /\ buffer' = [buffer EXCEPT ![f] = @ \ {b}]
    /\ UNCHANGED <<pc, task, futures, next, took, control>>

\* The next block to write is in the buffer.
WriteBlock(f) ==
    /\ pc[f] = "drain" /\ NextWrite(f) \in buffer[f]
    /\ out' = [out EXCEPT ![f] = Append(@, NextWrite(f))]
    /\ buffer' = [buffer EXCEPT ![f] = @ \ {NextWrite(f)}]
    /\ UNCHANGED <<pc, task, futures, next, took, control>>

\* The output stream fails: disk full, or the reader went away.
WriteFails(f) ==
    /\ pc[f] = "drain" /\ NextWrite(f) \in buffer[f]
    /\ pc' = [pc EXCEPT ![f] = "failed"]
    /\ futures' = [futures EXCEPT ![f] = {}]
    /\ buffer' = [buffer EXCEPT ![f] = {}]
    /\ UNCHANGED <<task, next, took, out, control>>

\* Nothing more to write now: wait again, or leave the loop.
EndDrain(f) ==
    /\ pc[f] = "drain" /\ NextWrite(f) \notin buffer[f]
    /\ pc' = [pc EXCEPT ![f] =
                 IF futures[f] # {} \/ NextWrite(f) <= N[f] THEN "wait" ELSE "done"]
    /\ UNCHANGED <<task, futures, next, took, buffer, out, control>>

-----------------------------------------------------------------------------
(* A block's task, BlockDownloader::download. *)

StartBlock(f, b) ==
    /\ task[f][b] = "queued" /\ Cardinality(Running) < Permits
    /\ task' = [task EXCEPT ![f][b] = "running"]
    /\ UNCHANGED <<pc, futures, next, took, buffer, out, control>>

\* The block is downloaded and decrypted, or the retries are used up.
BlockEnds(f, b) ==
    /\ task[f][b] = "running"
    /\ \E result \in {"ready", "error"} :
          task' = [task EXCEPT ![f][b] = result]
    /\ UNCHANGED <<pc, futures, next, took, buffer, out, control>>

-----------------------------------------------------------------------------
Task(f, b) == StartBlock(f, b) \/ BlockEnds(f, b)
Loop(f) == \/ StartBatch(f) \/ Proceed(f) \/ WriteBlock(f) \/ WriteFails(f)
           \/ EndDrain(f) \/ List(f)
           \/ \E b \in Blocks(f) : TakeBlock(f, b) \/ TakeError(f, b)

Next == \E f \in Files : \/ Download(f) \/ Pause(f) \/ Resume(f)
                         \/ StartFile(f) \/ Loop(f)
                         \/ \E b \in Blocks(f) : Task(f, b)

Spec == Init /\ [][Next]_vars

\* Tasks run, requests end, a paused download is resumed or dropped some day, and
\* the semaphores of tokio serve their waiters in order.
FairSpec == /\ Spec
            /\ \A f \in Files :
                  /\ WF_vars(Resume(f)) /\ SF_vars(StartFile(f)) /\ WF_vars(Loop(f))
                  /\ \A b \in Blocks(f) : SF_vars(StartBlock(f, b)) /\ WF_vars(BlockEnds(f, b))

-----------------------------------------------------------------------------
TypeOK ==
    /\ pc \in [Files -> Stages]
    /\ Files = DOMAIN task /\ Files = DOMAIN futures /\ Files = DOMAIN buffer
    /\ Files = DOMAIN took /\ Files = DOMAIN out
    /\ \A f \in Files :
          /\ task[f] \in [Blocks(f) -> {"none", "queued", "running", "ready", "error"}]
          /\ futures[f] \subseteq Blocks(f) /\ buffer[f] \subseteq Blocks(f)
          /\ took[f] \in {0} \cup Blocks(f) /\ out[f] \in Seq(Blocks(f))
    /\ next \in [Files -> Nat \ {0}]
    /\ control \in [Files -> {"running", "paused", "resumed"}]

(* Safety: the output is the file from its start, without a hole or a repeated
   block, in whatever order its blocks arrive and wherever the download fails;
   a download that ends well wrote the whole file. *)
OutputIsAPrefix ==
    \A f \in Files :
        /\ Len(out[f]) <= N[f] /\ \A i \in 1..Len(out[f]) : out[f][i] = i
        /\ pc[f] = "done" => Len(out[f]) = N[f]

(* Safety: the loop never waits with no block in flight.  The branch for that case
   (node/download.rs:515), with its block ordering error, is never taken. *)
WaitsForABlock == \A f \in Files : pc[f] = "wait" => futures[f] # {}

(* Safety: a block that was started is still awaited, at hand, buffered or
   written: none is lost, so the loop never waits for a block nobody fetches. *)
NoBlockIsLost ==
    \A f \in Files : pc[f] \in {"wait", "gate", "drain"} =>
        {b \in Blocks(f) : b < next[f]} =
            futures[f] \cup buffer[f] \cup ({took[f]} \ {0}) \cup 1..Len(out[f])

(* Safety: a download awaits Width blocks at most (node/download.rs:402). *)
FlightIsBounded == \A f \in Files : Cardinality(futures[f]) <= Width

(* Safety: what read_all_blocks_parallel keeps of its blocks is consistent, and
   what it writes is a prefix of the file. *)
DownloadIsSound ==
    TypeOK /\ OutputIsAPrefix /\ WaitsForABlock /\ NoBlockIsLost /\ FlightIsBounded

(* Safety, the limit of node/download.rs:22, MAX_BUFFERED_DOWNLOAD_BLOCKS.  Not
   checked, for it does not hold: no code uses the constant. *)
BufferIsBounded == \A f \in Files : Cardinality(buffer[f]) <= MaxBuffered

(* Liveness: every download ends, also after one that failed and left its tasks
   behind, as long as paused ones are resumed. *)
DownloadsEnd == \A f \in Files : pc[f] = "queue" ~> pc[f] \in Ended
=============================================================================
