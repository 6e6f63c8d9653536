---------------------------- MODULE BatchProgress ----------------------------
(***************************************************************************)
(* A batch of transfers and what is shown of it                             *)
(* (crates/pdcli/src/transfer_progress.rs, with UploadProgress of           *)
(* node/revision.rs): pdcli photos import runs several photos at once and   *)
(* tries each again, pdcli computers sync and pdcli takeout take the files  *)
(* one after the other.  Each block of an upload is a task that reports the   *)
(* bytes of its file from what all of them did, outside of any lock, and goes  *)
(* on when another block has failed the upload.                              *)
(***************************************************************************)
EXTENDS Naturals, Sequences, FiniteSets, FiniteSetsExt, SequencesExt

CONSTANTS Plans,      \* per set of features, the files in order: for each its transfers, each
                      \* with what it does and its number of blocks
          Jobs,       \* --jobs
          Attempts,   \* IMPORT_ATTEMPTS
          MaxFaults   \* bound: failures, for each of those sets

VARIABLES
  features,    \* the command, and "parallel" when blocks are uploaded at once
  job,         \* the files: what each does, its attempt and transfer, and the bytes shown
  transfer,    \* each transfer of each file: UploadProgress, or the bytes written
  block,       \* the task of each block
  finished, transferredFiles, skipped, failed, finishedBytes, transferred,
  failure,     \* the error that ends the command, once there is one
  moved,       \* history: bytes handed to the connection, and read from it
  late,        \* history: files started after such an error
  faults

vars == <<features, job, transfer, block, finished, transferredFiles, skipped, failed,
          finishedBytes, transferred, failure, moved, late, faults>>
shown == <<finished, transferredFiles, skipped, failed, finishedBytes>>

BlockSize == 1                          \* a block is one chunk of bytes
Plan == Plans[features]
Items == DOMAIN Plan
Numbers == 1 .. 2                       \* transfers of a file: its attempts, or its parts
MaxBlocks == 2                          \* bound: blocks of a file
Is(f) == f \in features
AtOnce == IF Is("parallel") THEN 2 ELSE 1
Wide == IF Is("import") THEN Jobs ELSE 1

\* What the n-th transfer of a file does: the parts of a sync follow each other, an import
\* does its only one again.
Part(i, n) == IF n \in DOMAIN Plan[i] THEN Plan[i][n] ELSE Plan[i][1]
SizeOf(i, n) == BlockSize * Part(i, n).blocks
Size(i) == FoldLeft(LAMBDA s, t : s + BlockSize * t.blocks, 0, Plan[i])
\* callback_after: what the file moved before this transfer.
Offset(i, n) == IF Is("sync") /\ n = 2 THEN SizeOf(i, 1) ELSE 0
Active == {i \in Items : job[i].pc \notin {"pending", "finished"}}   \* State::jobs
SumOver(S, F(_)) == FoldSet(LAMBDA x, s : s + F(x), 0, S)
Total == SumOver(Items, Size)
Done == finishedBytes + SumOver(Active, LAMBDA i : job[i].sent)     \* lines

Init ==
  /\ features \in DOMAIN Plans
  /\ job = [i \in Items |-> [pc |-> "pending", number |-> 1, sent |-> 0]]
  /\ transfer = [i \in Items |-> [n \in Numbers |-> [done |-> 0, flight |-> [b \in 1..MaxBlocks |-> 0]]]]
  /\ block = [i \in Items |-> [n \in Numbers |-> [b \in 1..MaxBlocks |-> [pc |-> "none", partial |-> 0]]]]
  /\ finished = 0 /\ transferredFiles = 0 /\ skipped = 0 /\ failed = 0 /\ finishedBytes = 0
  /\ transferred = 0 /\ failure = FALSE /\ moved = 0 /\ late = {} /\ faults = 0

-----------------------------------------------------------------------------
(* TransferProgress *)

Job(i, r) == job' = [job EXCEPT ![i] = r]
\* sent: only of a file that is shown; what moved once more counts once more.
Sent(i, v) ==
  IF i \in Active
  THEN /\ Job(i, [job[i] EXCEPT !.sent = v])
       /\ transferred' = transferred + (IF v > job[i].sent THEN v - job[i].sent ELSE 0)
  ELSE UNCHANGED <<job, transferred>>

\* finish
Finish(i, outcome) ==
  /\ Job(i, [job[i] EXCEPT !.pc = "finished"])
  /\ finished' = finished + 1 /\ finishedBytes' = finishedBytes + Size(i)
  /\ transferredFiles' = transferredFiles + (IF outcome = "transferred" THEN 1 ELSE 0)
  /\ skipped' = skipped + (IF outcome = "skipped" THEN 1 ELSE 0)
  /\ failed' = failed + (IF outcome = "failed" THEN 1 ELSE 0)

-----------------------------------------------------------------------------
(* The commands *)

\* start: the next file, unless enough run, or an error ends the command.
MutStart(i) ==
  /\ job[i].pc = "pending" /\ \A o \in Items : o < i => job[o].pc # "pending"
  /\ Cardinality(Active) < Wide
  /\ Job(i, [job[i] EXCEPT !.pc = "queued"]) /\ late' = IF failure THEN late \cup {i} ELSE late
  /\ UNCHANGED <<features, transfer, block, shown, transferred, failure, moved, faults>>
Start(i) ==
  /\ job[i].pc = "pending" /\ \A o \in Items : o < i => job[o].pc # "pending"
  /\ ~failure /\ Cardinality(Active) < Wide
  /\ Job(i, [job[i] EXCEPT !.pc = "queued"]) /\ late' = IF failure THEN late \cup {i} ELSE late
  /\ UNCHANGED <<features, transfer, block, shown, transferred, failure, moved, faults>>

\* Stage::Hashing of an import clears what was shown of an earlier attempt; then the file is
\* in the library, or in the manifest, already, or its transfer starts.
Prepare(i) ==
  /\ job[i].pc \in {"queued", "retrying"}
  /\ Job(i, [job[i] EXCEPT !.pc = "transfer", !.sent = IF Is("import") THEN 0 ELSE @])
  /\ UNCHANGED <<features, transfer, block, shown, transferred, failure, moved, late, faults>>
Skip(i) ==
  /\ ~Is("sync") /\ job[i].pc \in {"queued", "retrying"} /\ Finish(i, "skipped")
  /\ UNCHANGED <<features, transfer, block, transferred, failure, moved, late, faults>>

\* The end of a transfer: the next part of a sync, or the file is done.
EndTransfer(i) ==
  LET n == job[i].number IN
  /\ job[i].pc = "transfer"
  /\ IF Part(i, n).does = "upload" THEN \A b \in 1..Part(i, n).blocks : block[i][n][b].pc = "over"
                                   ELSE transfer[i][n].done = SizeOf(i, n)
  /\ IF n + 1 \in DOMAIN Plan[i]
     THEN Job(i, [job[i] EXCEPT !.number = n + 1]) /\ UNCHANGED shown
     ELSE Finish(i, "transferred")
  /\ UNCHANGED <<features, transfer, block, transferred, failure, moved, late, faults>>

\* A transfer fails: an import tries it again after a network problem as long as it may, and
\* then goes on with the others; a takeout goes on after files that are recorded; any
\* other error ends the command.  The tasks of its other blocks go on.
Fails(i, transient) ==
  LET n == job[i].number IN
  /\ job[i].pc = "transfer"
  /\ \/ \E b \in 1..Part(i, n).blocks : block[i][n][b].pc = "failed" /\ UNCHANGED faults
     \/ Part(i, n).does = "download" /\ faults < MaxFaults[features] /\ faults' = faults + 1
  /\ IF Is("import") /\ transient /\ n < Attempts
     THEN Job(i, [job[i] EXCEPT !.pc = "retrying", !.number = n + 1]) /\ UNCHANGED <<shown, failure>>
     ELSE /\ Finish(i, "failed")
          /\ failure' = (failure \/ ~transient \/ Is("sync"))
  /\ UNCHANGED <<features, transfer, block, transferred, moved, late>>

-----------------------------------------------------------------------------
(* Uploads and downloads *)

Partial(i, n) == SumOver(1..MaxBlocks, LAMBDA b : transfer[i][n].flight[b])
Task(i, n, b, r) == block' = [block EXCEPT ![i][n][b] = r]
Flight(i, n, b, share) == transfer' = [transfer EXCEPT ![i][n].flight[b] = share]
Sending(i, n, b) == block[i][n][b].pc = "sending" /\ UNCHANGED <<features, shown, failure, late>>

StartBlock(i, b) ==
  LET n == job[i].number IN
  /\ job[i].pc = "transfer" /\ Part(i, n).does = "upload" /\ b \in 1..Part(i, n).blocks
  /\ block[i][n][b].pc = "none" /\ \A o \in 1..(b - 1) : block[i][n][o].pc # "none"
  /\ \A o \in 1..MaxBlocks : block[i][n][o].pc # "failed"
  /\ Cardinality({o \in 1..MaxBlocks : block[i][n][o].pc \notin {"none", "over"}}) < AtOnce
  /\ Task(i, n, b, [pc |-> "sending", partial |-> 0])
  /\ UNCHANGED <<features, job, transfer, shown, transferred, failure, moved, late, faults>>

\* block_sent: the connection takes more of a block, or an attempt of it failed and the
\* next starts at 0; the share of all blocks is summed.
Send(i, n, b) ==
  LET share == transfer[i][n].flight[b] IN
  /\ Sending(i, n, b)
  /\ \E s \in {0, share + 1} :
       /\ s <= BlockSize /\ Flight(i, n, b, s)
       /\ IF s = 0 THEN share > 0 /\ faults < MaxFaults[features] /\ faults' = faults + 1 /\ UNCHANGED moved
                   ELSE moved' = moved + 1 /\ UNCHANGED faults
       /\ Task(i, n, b, [pc |-> "report", partial |-> Partial(i, n) - share + s])
  /\ UNCHANGED <<job, transferred>>

BlockFails(i, n, b) ==
  /\ Sending(i, n, b) /\ faults < MaxFaults[features] /\ faults' = faults + 1
  /\ Task(i, n, b, [pc |-> "failed", partial |-> 0])
  /\ UNCHANGED <<job, transfer, transferred, moved>>

\* block_done: it is no longer in flight, then it is done, then the shares are summed.
Land(i, n, b) ==
  /\ Sending(i, n, b) /\ transfer[i][n].flight[b] = BlockSize
  /\ Flight(i, n, b, 0) /\ Task(i, n, b, [pc |-> "landed", partial |-> 0])
  /\ UNCHANGED <<job, transferred, moved, faults>>
AddDone(i, n, b) ==
  /\ block[i][n][b].pc = "landed"
  /\ transfer' = [transfer EXCEPT ![i][n].done = @ + BlockSize]
  /\ Task(i, n, b, [pc |-> "added", partial |-> 0])
  /\ UNCHANGED <<features, job, shown, transferred, failure, moved, late, faults>>
SumUp(i, n, b) ==
  /\ block[i][n][b].pc = "added" /\ Task(i, n, b, [pc |-> "last", partial |-> Partial(i, n)])
  /\ UNCHANGED <<features, job, transfer, shown, transferred, failure, moved, late, faults>>

\* report: what is done is read after the shares were, so a block that has landed in between
\* counts twice; the sum is capped.
MutReported(i, n, partial) == Offset(i, n) + transfer[i][n].done + partial
Reported(i, n, partial) == Offset(i, n) + Min({transfer[i][n].done + partial, SizeOf(i, n)})
Report(i, n, b) ==
  /\ block[i][n][b].pc \in {"report", "last"}
  /\ Sent(i, Reported(i, n, block[i][n][b].partial))
  /\ Task(i, n, b, [pc |-> IF block[i][n][b].pc = "last" THEN "over" ELSE "sending", partial |-> 0])
  /\ UNCHANGED <<features, transfer, shown, failure, moved, late, faults>>

\* A download writes its blocks in order and says how much is written.
Write(i) ==
  LET n == job[i].number
      written == transfer[i][n].done + BlockSize IN
  /\ job[i].pc = "transfer" /\ Part(i, n).does = "download" /\ written <= SizeOf(i, n)
  /\ transfer' = [transfer EXCEPT ![i][n].done = written] /\ moved' = moved + BlockSize
  /\ Sent(i, Offset(i, n) + written)
  /\ UNCHANGED <<features, block, shown, failure, late, faults>>

Next ==
  \/ \E i \in Items : Start(i) \/ Prepare(i) \/ Skip(i) \/ EndTransfer(i) \/ Write(i)
  \/ \E i \in Items, transient \in BOOLEAN : Fails(i, transient)
  \/ \E i \in Items, b \in 1..MaxBlocks : StartBlock(i, b)
  \/ \E i \in Items, n \in Numbers, b \in 1..MaxBlocks :
       \/ Send(i, n, b) \/ BlockFails(i, n, b) \/ Land(i, n, b) \/ AddDone(i, n, b)
       \/ SumUp(i, n, b) \/ Report(i, n, b)
Spec == Init /\ [][Next]_vars

-----------------------------------------------------------------------------
Reporting == \E i \in Items, n \in Numbers, b \in 1..MaxBlocks :
               block[i][n][b].pc \in {"report", "landed", "added", "last"}
Ended == Active = {} /\ (failure \/ \A i \in Items : job[i].pc = "finished")

(* Safety: the bytes shown are never more than there are, neither of a file nor of the
   batch, however its blocks land and their reports cross, after failed attempts and late
   reports too. *)
BarIsBounded == Done <= Total /\ \A i \in Items : job[i].sent <= Size(i)

(* Safety: every file is counted once, and a batch that ends without a failure shows all of
   its bytes. *)
CountsAgree ==
  /\ finished = Cardinality({i \in Items : job[i].pc = "finished"})
  /\ finished = transferredFiles + skipped + failed
  /\ Ended /\ ~failure => Done = Total

(* Safety: after an error that ends the command no file is started, and there are never more
   at once than asked for. *)
StopsStarting == late = {} /\ Cardinality(Active) <= Wide

(* Safety: with one block at a time, the rate counts the bytes that moved, those of failed
   attempts included. *)
RateIsTrue == AtOnce = 1 => transferred <= moved /\ (~Reporting => transferred = moved)

BatchIsSound == BarIsBounded /\ CountsAgree /\ StopsStarting /\ RateIsTrue
==============================================================================
