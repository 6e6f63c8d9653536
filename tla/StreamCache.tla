----------------------------- MODULE StreamCache -----------------------------
(***************************************************************************)
(* StreamingFile (crates/pdcli/src/fs.rs): a large file opened read-only is *)
(* read block by block.  Request threads share a small cache of decrypted   *)
(* blocks and the set of blocks being fetched; the fetches run as tasks of  *)
(* the runtime.  The cache and the set have a lock each, so every access is *)
(* a step of its own.                                                      *)
(***************************************************************************)
EXTENDS Naturals, Sequences, FiniteSets, SequencesExt

CONSTANTS Readers,      \* threads reading the file
          BlockCount,   \* blocks of the revision, numbered from 1
          CacheSize,    \* STREAM_CACHED_BLOCKS
          MaxReads,     \* bound: reads of each thread
          CanPanic      \* whether a fetch task may panic

StreamBlocks == 1..BlockCount
Ahead == "ahead"          \* who a fetch started by read_ahead is for

StreamAssumption == /\ BlockCount \in Nat \ {0} /\ CacheSize \in Nat \ {0}
                    /\ Ahead \notin Readers
ASSUME StreamIsGiven == StreamAssumption

VARIABLES
    cache,      \* blocks: the cached blocks, most recently used last
    fetching,   \* the blocks being fetched
    tasks,      \* the fetch tasks
    reader,         \* where each reader is
    want,       \* the block it is at
    upto,       \* the last block of its read
    reads,      \* how many reads it has begun
    lost        \* history: blocks whose fetch task panicked

streamVars == <<cache, fetching, tasks, reader, want, upto, reads, lost>>
readerVars == <<reader, want, upto, reads>>

Cached(b) == b \in ToSet(cache)
TaskFor(b, r, s) == [block |-> b, for |-> r, stage |-> s]

StreamInit == /\ cache = <<>> /\ fetching = {} /\ tasks = {}
        /\ reader = [r \in Readers |-> "idle"]
        /\ want = [r \in Readers |-> 1]
        /\ upto = [r \in Readers |-> 1]
        /\ reads = [r \in Readers |-> 0]
        /\ lost = {}

-----------------------------------------------------------------------------
(* A read. *)

\* A kernel read is far smaller than a block: it touches one block or two.
Begin(r, first, last) ==
    /\ reader[r] = "idle" /\ reads[r] < MaxReads[r]
    /\ last \in {first, first + 1}
    /\ reader' = [reader EXCEPT ![r] = "look"]
    /\ want' = [want EXCEPT ![r] = first]
    /\ upto' = [upto EXCEPT ![r] = last]
    /\ reads' = [reads EXCEPT ![r] = @ + 1]
    /\ UNCHANGED <<cache, fetching, tasks, lost>>

\* The read has block want[r]: on to the next one, or to the read-ahead of the
\* block after the last.  A read that failed ends at once.
Got(r) ==
    /\ reader' = [reader EXCEPT ![r] = IF want[r] < upto[r] THEN "look"
                               ELSE IF want[r] < BlockCount THEN "aheadLook"
                               ELSE "idle"]
    /\ want' = [want EXCEPT ![r] = IF want[r] < BlockCount THEN @ + 1 ELSE @]
    /\ UNCHANGED <<upto, reads>>

Goto(r, place) == reader' = [reader EXCEPT ![r] = place] /\ UNCHANGED <<want, upto, reads>>

\* cached: a hit makes the block the most recently used.
Touch(b) == \E i \in DOMAIN cache : /\ cache[i] = b
                                   /\ cache' = Append(RemoveAt(cache, i), b)

Look(r) ==
    /\ reader[r] = "look"
    /\ \/ Cached(want[r]) /\ Touch(want[r]) /\ Got(r)
       \/ ~Cached(want[r]) /\ UNCHANGED cache /\ Goto(r, "claim")
    /\ UNCHANGED <<fetching, tasks, lost>>

Start(b, for) ==
    /\ fetching' = fetching \cup {b}
    /\ tasks' = tasks \cup {TaskFor(b, for, "download")}

\* Mutant of Claim: a block being fetched is fetched again.
MutClaim(r) ==
    /\ reader[r] = "claim"
    /\ Start(want[r], r) /\ Goto(r, "wait")
    /\ UNCHANGED <<cache, lost>>

\* The block is not in the cache: fetch it, unless it is being fetched; then
\* sleep and look again.
Claim(r) ==
    /\ reader[r] = "claim"
    /\ \/ want[r] \notin fetching /\ Start(want[r], r) /\ Goto(r, "wait")
       \/ want[r] \in fetching /\ Goto(r, "look") /\ UNCHANGED <<fetching, tasks>>
    /\ UNCHANGED <<cache, lost>>

\* read_ahead.
AheadLook(r) ==
    /\ reader[r] = "aheadLook"
    /\ \/ Cached(want[r]) /\ Touch(want[r]) /\ Goto(r, "idle")
       \/ ~Cached(want[r]) /\ UNCHANGED cache /\ Goto(r, "aheadClaim")
    /\ UNCHANGED <<fetching, tasks, lost>>

AheadClaim(r) ==
    /\ reader[r] = "aheadClaim"
    /\ \/ want[r] \notin fetching /\ Start(want[r], Ahead)
       \/ want[r] \in fetching /\ UNCHANGED <<fetching, tasks>>
    /\ Goto(r, "idle")
    /\ UNCHANGED <<cache, lost>>

-----------------------------------------------------------------------------
(* fetch, a task. *)

\* remember: the cache with b, without the least recently used block if full.
Remembered(b) == IF Cached(b) THEN cache
                 ELSE IF Len(cache) = CacheSize THEN Append(Tail(cache), b)
                 ELSE Append(cache, b)

\* The download ends; a block that arrived is put in the cache.
Downloaded(t) ==
    /\ t \in tasks /\ t.stage = "download"
    /\ \/ /\ tasks' = (tasks \ {t}) \cup {[t EXCEPT !.stage = "arrived"]}
          /\ cache' = Remembered(t.block)
       \/ /\ tasks' = (tasks \ {t}) \cup {[t EXCEPT !.stage = "failed"]}
          /\ UNCHANGED cache
    /\ UNCHANGED <<fetching, lost, readerVars>>

\* Mutant of Answer: a failed block is looked for again.
MutAnswerAgain(t, ok) ==
    \/ t.for = Ahead /\ UNCHANGED readerVars
    \/ t.for # Ahead /\ ok /\ Got(t.for)
    \/ t.for # Ahead /\ ~ok /\ Goto(t.for, "look")

\* What the task was to do for a reader: its block, or an error.
Answer(t, ok) ==
    \/ t.for = Ahead /\ UNCHANGED readerVars
    \/ t.for # Ahead /\ ok /\ Got(t.for)
    \/ t.for # Ahead /\ ~ok /\ Goto(t.for, "idle")

\* The block is not being fetched any more; the reader gets its data or error.
Finish(t) ==
    /\ t \in tasks /\ t.stage \in {"arrived", "failed"}
    /\ tasks' = tasks \ {t}
    /\ fetching' = fetching \ {t.block}
    /\ Answer(t, t.stage = "arrived")
    /\ UNCHANGED <<cache, lost>>

\* A task that panics sends nothing and leaves the block in the set.
Panic(t) ==
    /\ CanPanic
    /\ t \in tasks /\ t.stage = "download"
    /\ tasks' = tasks \ {t}
    /\ lost' = lost \cup {t.block}
    /\ Answer(t, FALSE)
    /\ UNCHANGED <<cache, fetching>>

-----------------------------------------------------------------------------
Step(r) == Look(r) \/ Claim(r) \/ AheadLook(r) \/ AheadClaim(r)
Run(t) == Downloaded(t) \/ Finish(t)

StreamNext == \/ \E r \in Readers : \/ \E a, b \in StreamBlocks : Begin(r, a, b)
                              \/ Step(r)
        \/ \E t \in tasks : Run(t) \/ Panic(t)

StreamSpec == StreamInit /\ [][StreamNext]_streamVars

AllTasks == [block : StreamBlocks, for : Readers \cup {Ahead},
             stage : {"download", "arrived", "failed"}]

\* The threads and the tasks run; a download ends, if only by a timeout.
StreamFairSpec == /\ StreamSpec
            /\ \A r \in Readers : WF_streamVars(Step(r))
            /\ \A t \in AllTasks : WF_streamVars(Run(t))

-----------------------------------------------------------------------------
Places == {"idle", "look", "claim", "wait", "aheadLook", "aheadClaim"}

StreamTypeOK ==
    /\ cache \in Seq(StreamBlocks) /\ fetching \subseteq StreamBlocks /\ lost \subseteq StreamBlocks
    /\ tasks \subseteq AllTasks
    /\ reader \in [Readers -> Places] /\ want \in [Readers -> StreamBlocks]
    /\ upto \in [Readers -> StreamBlocks] /\ reads \in [Readers -> Nat]

(* Safety: the cache holds no block twice and at most CacheSize of them,
   whichever readers and fetches finish in between. *)
CacheIsBounded == IsInjective(cache) /\ Len(cache) <= CacheSize

(* Safety: a block is fetched by one task at a time, and exactly the blocks of
   a task are in the set, but for those whose task panicked. *)
OneFetchPerBlock ==
    /\ \A t, u \in tasks : t.block = u.block => t = u
    /\ fetching = {t.block : t \in tasks} \cup lost

(* Safety: a reader waits exactly while a task is to answer it. *)
WaitersAreAnswered ==
    \A r \in Readers : reader[r] = "wait" <=>
        \E t \in tasks : t.for = r /\ t.block = want[r]

(* Safety: the cache, the set of fetches, the tasks and the readers agree. *)
CacheIsSound == StreamTypeOK /\ CacheIsBounded /\ OneFetchPerBlock /\ WaitersAreAnswered

(* Action property, the claim of fs.rs:188: a block is not downloaded again
   while it is at hand.  Not checked, for it does not hold: between the two locks
   of block the fetch may end (README, known disagreements). *)
NoDoubleDownload ==
    [][\A b \in fetching' \ fetching : ~Cached(b)]_streamVars

(* Liveness: a read ends, unless it needs a block whose fetch task panicked. *)
ReadersAreServed ==
    \A r \in Readers : (reader[r] # "idle") ~> (reader[r] = "idle" \/ want[r] \in lost)
=============================================================================
