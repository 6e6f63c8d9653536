------------------------------- MODULE MCReads -------------------------------
(* The instances of the ways files are read, for one run: the download of whole files,
   the reads of an open file block by block, or the threads of the mount that serve
   requests.  `part' says which of them runs. *)
EXTENDS DownloadPipeline, StreamCache

CONSTANTS f1, f2, r1, r2, Threads, Handles, Served, MaxRequests
VARIABLES part, request, at, served, owner, readers, table, kernelOpen, using, scanned

\* A file of more blocks than are in flight, and one that waits for it.
MCN == [f \in {f1, f2} |-> IF f = f1 THEN 3 ELSE 1]

\* One reader comes back for a block that may be cached.
MCMaxReads == [r \in {r1, r2} |-> IF r = r1 THEN 2 ELSE 1]

L == INSTANCE FuseLocks WITH Requests <- Served
lockVars == <<request, at, served, owner, readers, table, kernelOpen, using, scanned>>
readVars == <<part, vars, streamVars, lockVars>>

ReadInit ==
    part \in {"download", "stream", "locks"} /\ Init /\ StreamInit /\ L!Init

ReadNext == \/ part = "download" /\ Next /\ UNCHANGED <<part, streamVars, lockVars>>
            \/ part = "stream" /\ StreamNext /\ UNCHANGED <<part, vars, lockVars>>
            \/ part = "locks" /\ L!Next /\ UNCHANGED <<part, vars, streamVars>>

\* The part that does not run stays as it starts: the fairness is that of each
\* module, of the part that runs.
ReadSpec ==
    /\ ReadInit /\ [][ReadNext]_readVars
    /\ \A f \in Files :
          /\ WF_vars(part = "download" /\ Resume(f)) /\ SF_vars(part = "download" /\ StartFile(f))
          /\ WF_vars(part = "download" /\ Loop(f))
          /\ \A b \in Blocks(f) : /\ SF_vars(part = "download" /\ StartBlock(f, b))
                                 /\ WF_vars(part = "download" /\ BlockEnds(f, b))
    /\ \A r \in Readers : WF_streamVars(part = "stream" /\ Step(r))
    /\ \A t \in AllTasks : WF_streamVars(part = "stream" /\ Run(t))
    /\ WF_lockVars(part = "locks" /\ \E t \in Threads : L!Step(t))

(* Liveness: a download ends unless it is paused for ever, and a read of an open file
   ends unless it needs a block whose fetch task panicked (node/download.rs, fs.rs). *)
ReadsEnd == DownloadsEnd /\ ReadersAreServed

(* Liveness: every request of the kernel is answered, unless requests wait for each other
   in a circle through free_up_space (fs.rs). *)
EveryRequestAnswered == L!EveryRequestAnswered
==============================================================================
