----------------------------- MODULE ReadsProofs ----------------------------
(***************************************************************************)
(* The two ways a file is read.                                            *)
(*                                                                         *)
(* An open file read by any number of threads, of any number of blocks and *)
(* with any cache: the cache is bounded and holds no block twice, a block  *)
(* has one fetch at a time, and a reader waits exactly while a task is to  *)
(* answer it.  CacheIsSound lacks two facts to be inductive: a task that   *)
(* is for a reader has that reader waiting at its block                    *)
(* (TasksAreWaitedFor), so its end wakes a reader that really waits; and no *)
(* block of a task is one whose task panicked (LostAreNotFetched), so the  *)
(* end of a task may take its block out of the set.                        *)
(*                                                                         *)
(* Downloads, for any number of files and blocks and any width: the output *)
(* is a prefix of the file, whole when the download ends well, and the loop *)
(* never waits for a block nobody fetches.  The blocks that were started   *)
(* are those below next, and each is awaited, at hand, buffered or written *)
(* (NoBlockIsLost).  While there are more to start, Width of them are      *)
(* awaited or one is at hand (FlightIsFull), so a loop that has nothing to *)
(* await has started all, and if the next block to write is not buffered it *)
(* has written all.                                                        *)
(***************************************************************************)
EXTENDS DownloadPipeline, StreamCache, FiniteSetTheorems, SequenceTheorems, TLAPS

-----------------------------------------------------------------------------
(* Streamed reads *)

\* A task for a reader is for one that waits at its block.
TasksAreWaitedFor ==
    \A t \in tasks : t.for # Ahead => reader[t.for] = "wait" /\ want[t.for] = t.block

LostAreNotFetched == \A t \in tasks : t.block \notin lost

CacheInv == cache \in Seq(StreamBlocks) /\ CacheIsBounded

ReaderTypes == /\ reader \in [Readers -> Places] /\ want \in [Readers -> StreamBlocks]
               /\ upto \in [Readers -> StreamBlocks] /\ reads \in [Readers -> Nat]

FetchInv == /\ fetching \subseteq StreamBlocks /\ lost \subseteq StreamBlocks /\ tasks \subseteq AllTasks
            /\ OneFetchPerBlock /\ WaitersAreAnswered
            /\ TasksAreWaitedFor /\ LostAreNotFetched

StreamInv == CacheInv /\ ReaderTypes /\ FetchInv

-----------------------------------------------------------------------------
\* Moving an element to the end of a sequence keeps its elements apart.
LEMMA MovedToTheEnd ==
    ASSUME NEW S, NEW s \in Seq(S), IsInjective(s), NEW i \in DOMAIN s
    PROVE  LET t == Append(RemoveAt(s, i), s[i]) IN
           t \in Seq(S) /\ Len(t) = Len(s) /\ IsInjective(t)
<1> DEFINE r == RemoveAt(s, i)
           t == Append(r, s[i])
<1>1. i \in 1..Len(s) /\ Len(s) \in Nat /\ s[i] \in S
  BY ElementOfSeq
<1>2. SubSeq(s, 1, i-1) \in Seq(S) /\ SubSeq(s, i+1, Len(s)) \in Seq(S)
  BY <1>1
<1>3. /\ Len(SubSeq(s, 1, i-1)) = i - 1
      /\ \A j \in 1..(i-1) : SubSeq(s, 1, i-1)[j] = s[j]
  BY <1>1
<1>4. /\ Len(SubSeq(s, i+1, Len(s))) = Len(s) - i
      /\ \A j \in 1..(Len(s)-i) : SubSeq(s, i+1, Len(s))[j] = s[i+j]
  BY <1>1
<1> DEFINE p == SubSeq(s, 1, i-1)
           q == SubSeq(s, i+1, Len(s))
<1>5. /\ r = p \o q /\ r \in Seq(S) /\ Len(r) = Len(p) + Len(q)
      /\ \A j \in 1..Len(p) + Len(q) : r[j] = IF j <= Len(p) THEN p[j] ELSE q[j - Len(p)]
  <2>1. r = p \o q /\ p \in Seq(S) /\ q \in Seq(S)
    BY <1>2 DEF RemoveAt
  <2> HIDE DEF p, q, r
  <2> QED BY <2>1, ConcatProperties
<1>6. /\ Len(p) = i - 1 /\ Len(q) = Len(s) - i
      /\ \A j \in 1..(i-1) : p[j] = s[j]
      /\ \A j \in 1..(Len(s)-i) : q[j] = s[i+j]
  BY <1>3, <1>4
<1> HIDE DEF p, q, r
<1>7. Len(r) = Len(s) - 1
  BY <1>1, <1>5, <1>6
<1>8. ASSUME NEW j \in 1..(Len(s)-1)
      PROVE  r[j] = IF j < i THEN s[j] ELSE s[j+1]
  <2>1. r[j] = IF j <= i - 1 THEN p[j] ELSE q[j - (i - 1)]
    <3>1. j \in 1..Len(p) + Len(q)
      BY SMTT(30), <1>1, <1>6
    <3> QED BY <3>1, <1>5, <1>6
  <2>2. CASE j < i
    BY <1>1, <1>6, <2>1, <2>2
  <2>3. CASE j >= i
    <3>1. j - (i - 1) \in 1..(Len(s) - i) /\ i + (j - (i - 1)) = j + 1
      BY <1>1, <2>3
    <3>2. r[j] = q[j - (i - 1)]
      BY <1>1, <2>1, <2>3
    <3>3. q[j - (i - 1)] = s[i + (j - (i - 1))]
      BY <3>1, <1>6
    <3> QED BY SMTT(30), <1>1, <2>3, <3>1, <3>2, <3>3
  <2> QED BY <1>1, <2>2, <2>3
<1>9. /\ t \in Seq(S) /\ Len(t) = Len(s)
      /\ \A j \in 1..Len(s) : t[j] = IF j = Len(s) THEN s[i] ELSE r[j]
  BY <1>1, <1>5, <1>7
<1> HIDE DEF t
<1>10. ASSUME NEW a \in 1..Len(s), NEW b \in 1..Len(s), t[a] = t[b]
       PROVE  a = b
  <2> DEFINE place(j) == IF j = Len(s) THEN i ELSE IF j < i THEN j ELSE j + 1
  <2>1. place(a) \in DOMAIN s /\ place(b) \in DOMAIN s
    BY <1>1
  <2>2. \A j \in 1..Len(s) : t[j] = s[place(j)]
    BY <1>1, <1>8, <1>9
  <2>3. place(a) = place(b)
    BY <1>10, <2>1, <2>2 DEF IsInjective
  <2> QED BY <2>3, <1>1
<1>11. IsInjective(t)
  BY <1>9, <1>10 DEF IsInjective
<1> QED BY <1>9, <1>11 DEF t, r

\* A new element at the end.
LEMMA AddedAtTheEnd ==
    ASSUME NEW S, NEW s \in Seq(S), IsInjective(s), NEW e \in S, e \notin ToSet(s)
    PROVE  Append(s, e) \in Seq(S) /\ IsInjective(Append(s, e))
<1>1. \A i \in 1..Len(s) : s[i] # e
  BY DEF ToSet
<1>2. Append(s, e) \in Seq(S) /\ Len(Append(s, e)) = Len(s) + 1 /\ Len(s) \in Nat
  OBVIOUS
<1>3. \A i \in 1..(Len(s) + 1) : Append(s, e)[i] = IF i = Len(s) + 1 THEN e ELSE s[i]
  OBVIOUS
<1> QED BY <1>1, <1>2, <1>3 DEF IsInjective

LEMMA TouchKeepsCache ==
    ASSUME CacheInv, NEW b, Touch(b)
    PROVE  CacheInv'
<1>1. PICK i \in DOMAIN cache : cache[i] = b /\ cache' = Append(RemoveAt(cache, i), b)
  BY DEF Touch
<1>2. cache \in Seq(StreamBlocks) /\ IsInjective(cache) /\ Len(cache) <= CacheSize
  BY DEF CacheInv, CacheIsBounded
<1>3. cache' = Append(RemoveAt(cache, i), cache[i])
  BY <1>1
<1>4. cache' \in Seq(StreamBlocks) /\ Len(cache') = Len(cache) /\ IsInjective(cache')
  BY <1>2, <1>3, MovedToTheEnd
<1> QED BY <1>2, <1>4 DEF CacheInv, CacheIsBounded, StreamBlocks

LEMMA RememberKeepsCache ==
    ASSUME StreamAssumption, CacheInv, NEW b \in StreamBlocks, cache' = Remembered(b)
    PROVE  CacheInv'
<1>1. cache \in Seq(StreamBlocks) /\ IsInjective(cache) /\ Len(cache) <= CacheSize
  BY DEF CacheInv, CacheIsBounded
<1>2. Len(cache) \in Nat /\ CacheSize \in Nat \ {0}
  BY <1>1 DEF StreamAssumption
<1>3. CASE Cached(b)
  BY <1>1, <1>3 DEF Remembered, CacheInv, CacheIsBounded, StreamBlocks
<1>4. CASE ~Cached(b) /\ Len(cache) # CacheSize
  <2>1. cache' = Append(cache, b) /\ b \notin ToSet(cache)
    BY <1>4 DEF Remembered, Cached
  <2>2. cache' \in Seq(StreamBlocks) /\ IsInjective(cache')
    BY <1>1, <2>1, AddedAtTheEnd
  <2>3. Len(cache') = Len(cache) + 1
    BY <1>1, <2>1
  <2>4. Len(cache') <= CacheSize
    BY <1>1, <1>2, <1>4, <2>3
  <2> QED BY <2>2, <2>4 DEF CacheInv, CacheIsBounded, StreamBlocks
<1>5. CASE ~Cached(b) /\ Len(cache) = CacheSize
  <2>1. cache' = Append(Tail(cache), b) /\ b \notin ToSet(cache) /\ cache # <<>>
    BY <1>1, <1>2, <1>5 DEF Remembered, Cached
  <2>2. /\ Tail(cache) \in Seq(StreamBlocks) /\ Len(Tail(cache)) = Len(cache) - 1
        /\ \A i \in 1..(Len(cache) - 1) : Tail(cache)[i] = cache[i+1]
    BY <1>1, <2>1
  <2>3. IsInjective(Tail(cache)) /\ b \notin ToSet(Tail(cache))
    BY SMTT(30), <1>1, <1>2, <2>1, <2>2 DEF IsInjective, ToSet
  <2>4. cache' \in Seq(StreamBlocks) /\ IsInjective(cache')
    BY <2>1, <2>2, <2>3, AddedAtTheEnd
  <2>5. Len(cache') = Len(cache)
    BY <1>2, <2>1, <2>2
  <2> QED BY <1>1, <2>4, <2>5 DEF CacheInv, CacheIsBounded, StreamBlocks
<1> QED BY <1>3, <1>4, <1>5

-----------------------------------------------------------------------------
LEMMA GoesOn ==
    ASSUME StreamAssumption, ReaderTypes, NEW r \in Readers, Got(r) \/ (\E p \in Places : Goto(r, p))
    PROVE  /\ ReaderTypes'
           /\ \A q \in Readers \ {r} : reader'[q] = reader[q] /\ want'[q] = want[q]
           /\ Got(r) => reader'[r] # "wait"
<1>1. BlockCount \in Nat /\ want[r] \in 1..BlockCount /\ upto[r] \in 1..BlockCount
  BY DEF StreamAssumption, ReaderTypes, StreamBlocks
<1>2. CASE Got(r)
  BY <1>1, <1>2 DEF Got, ReaderTypes, Places, StreamBlocks
<1>3. CASE \E p \in Places : Goto(r, p)
  BY <1>3 DEF Goto, Got, ReaderTypes, StreamBlocks
<1> QED BY <1>2, <1>3

\* A reader that neither waited nor begins to leaves the fetches as they are.
LEMMA ReaderMovesOn ==
    ASSUME FetchInv, StreamAssumption, NEW r \in Readers, reader[r] # "wait", reader'[r] # "wait",
           \A q \in Readers \ {r} : reader'[q] = reader[q] /\ want'[q] = want[q],
           UNCHANGED <<fetching, tasks, lost>>
    PROVE  FetchInv'
<1>1. OneFetchPerBlock' /\ LostAreNotFetched'
  BY DEF FetchInv, OneFetchPerBlock, LostAreNotFetched
<1>2. \A t \in tasks : t.for # r
  BY DEF FetchInv, TasksAreWaitedFor, StreamAssumption
<1>3. WaitersAreAnswered'
  BY <1>2 DEF FetchInv, WaitersAreAnswered
<1>4. TasksAreWaitedFor'
  <2> SUFFICES ASSUME NEW t \in tasks, t.for # Ahead
               PROVE  reader'[t.for] = "wait" /\ want'[t.for] = t.block
    BY DEF TasksAreWaitedFor
  <2>1. t.for \in Readers \ {r}
    BY <1>2 DEF FetchInv, AllTasks
  <2> QED BY <2>1 DEF FetchInv, TasksAreWaitedFor
<1> QED BY <1>1, <1>3, <1>4 DEF FetchInv, StreamBlocks, AllTasks

\* A new task for a block that nobody fetches: for read-ahead, or for a reader
\* that begins to wait at that block.
LEMMA TaskStarts ==
    ASSUME FetchInv, StreamAssumption, ReaderTypes, NEW r \in Readers, reader[r] # "wait",
           NEW for \in {r, Ahead}, Start(want[r], for), want[r] \notin fetching,
           want' = want, lost' = lost,
           \A q \in Readers \ {r} : reader'[q] = reader[q],
           reader'[r] = "wait" <=> for = r
    PROVE  FetchInv'
<1> DEFINE new == TaskFor(want[r], for, "download")
<1>1. /\ fetching' = fetching \cup {want[r]} /\ tasks' = tasks \cup {new}
      /\ new.block = want[r] /\ new.for = for /\ want[r] \in StreamBlocks
      /\ new \in AllTasks
  BY DEF Start, TaskFor, ReaderTypes, AllTasks
<1> HIDE DEF new
<1>2. Ahead # r /\ \A t \in tasks : t.for # r /\ t.block # want[r]
  BY DEF FetchInv, TasksAreWaitedFor, StreamAssumption, OneFetchPerBlock
<1>3. want[r] \notin lost
  BY DEF FetchInv, OneFetchPerBlock
<1>4. OneFetchPerBlock'
  BY <1>1, <1>2 DEF FetchInv, OneFetchPerBlock
<1>5. WaitersAreAnswered'
  <2> SUFFICES ASSUME NEW q \in Readers
               PROVE  reader'[q] = "wait" <=> \E t \in tasks' : t.for = q /\ t.block = want[q]
    BY DEF WaitersAreAnswered
  <2>1. CASE q = r
    BY <1>1, <1>2, <2>1
  <2>2. CASE q # r
    <3>1. new.for # q
      BY <1>1, <2>2 DEF StreamAssumption
    <3>2. reader'[q] = reader[q]
      BY <2>2
    <3> QED BY <1>1, <3>1, <3>2 DEF FetchInv, WaitersAreAnswered
  <2> QED BY <2>1, <2>2
<1>6. TasksAreWaitedFor'
  <2> SUFFICES ASSUME NEW t \in tasks', t.for # Ahead
               PROVE  reader'[t.for] = "wait" /\ want[t.for] = t.block
    BY DEF TasksAreWaitedFor
  <2>1. CASE t = new
    BY <1>1, <2>1
  <2>2. CASE t \in tasks
    <3>1. t.for \in Readers \ {r}
      BY <1>2, <2>2 DEF FetchInv, AllTasks
    <3> QED BY <3>1, <2>2 DEF FetchInv, TasksAreWaitedFor
  <2> QED BY <1>1, <2>1, <2>2
<1>7. LostAreNotFetched'
  BY <1>1, <1>3 DEF FetchInv, LostAreNotFetched
<1>8. fetching' \subseteq StreamBlocks /\ lost' \subseteq StreamBlocks /\ tasks' \subseteq AllTasks
  BY <1>1 DEF FetchInv
<1> QED BY <1>4, <1>5, <1>6, <1>7, <1>8 DEF FetchInv, StreamBlocks, AllTasks

\* A task ends: its block leaves the set, or is lost, and its reader stops waiting.
LEMMA TaskEnds ==
    ASSUME FetchInv, StreamAssumption, ReaderTypes, NEW t \in tasks, tasks' = tasks \ {t},
           \/ fetching' = fetching \ {t.block} /\ lost' = lost
           \/ fetching' = fetching /\ lost' = lost \cup {t.block},
           \A q \in Readers : q # t.for => reader'[q] = reader[q] /\ want'[q] = want[q],
           t.for \in Readers => reader'[t.for] # "wait"
    PROVE  FetchInv'
<1>1. \A u \in tasks \ {t} : u.block # t.block
  BY DEF FetchInv, OneFetchPerBlock
<1>2. \A u \in tasks \ {t} : u.for # Ahead => u.for \in Readers /\ u.for # t.for
  BY <1>1 DEF FetchInv, TasksAreWaitedFor, AllTasks
<1>3. t.block \in StreamBlocks /\ t.block \notin lost
  BY DEF FetchInv, AllTasks, LostAreNotFetched
<1>4. OneFetchPerBlock'
  BY <1>1, <1>3 DEF FetchInv, OneFetchPerBlock
<1>5. LostAreNotFetched'
  BY <1>1 DEF FetchInv, LostAreNotFetched
<1>6. TasksAreWaitedFor'
  BY <1>2 DEF FetchInv, TasksAreWaitedFor
<1>7. WaitersAreAnswered'
  <2> SUFFICES ASSUME NEW q \in Readers
               PROVE  reader'[q] = "wait" <=> \E u \in tasks' : u.for = q /\ u.block = want'[q]
    BY DEF WaitersAreAnswered
  <2>0. q # Ahead
    BY DEF StreamAssumption
  <2>1. CASE q = t.for
    <3>1. \A u \in tasks' : u.for # q
      BY <1>2, <2>0, <2>1
    <3> QED BY <3>1, <2>1
  <2>2. CASE q # t.for
    BY <2>2 DEF FetchInv, WaitersAreAnswered
  <2> QED BY <2>1, <2>2
<1>8. fetching' \subseteq StreamBlocks /\ lost' \subseteq StreamBlocks /\ tasks' \subseteq AllTasks
  BY <1>3 DEF FetchInv
<1> QED BY <1>4, <1>5, <1>6, <1>7, <1>8 DEF FetchInv, StreamBlocks, AllTasks

\* A task that downloaded its block, or failed to, is still the task of its block.
LEMMA TaskGoesOn ==
    ASSUME FetchInv, NEW t \in tasks, NEW s \in {"arrived", "failed"},
           tasks' = (tasks \ {t}) \cup {[t EXCEPT !.stage = s]},
           UNCHANGED <<fetching, lost, readerVars>>
    PROVE  FetchInv'
<1> DEFINE new == [t EXCEPT !.stage = s]
<1>1. /\ new.block = t.block /\ new.for = t.for /\ new \in AllTasks
      /\ tasks' = (tasks \ {t}) \cup {new}
  BY DEF FetchInv, AllTasks
<1> HIDE DEF new
<1>2. reader' = reader /\ want' = want /\ fetching' = fetching /\ lost' = lost
  BY DEF readerVars
<1>3. \A u \in tasks \ {t} : u.block # t.block
  BY DEF FetchInv, OneFetchPerBlock
<1>4. OneFetchPerBlock'
  <2>1. \A u, v \in tasks' : u.block = v.block => u = v
    BY <1>1, <1>3 DEF FetchInv, OneFetchPerBlock
  <2>2. {u.block : u \in tasks'} = {u.block : u \in tasks}
    BY <1>1
  <2> QED BY <1>2, <2>1, <2>2 DEF FetchInv, OneFetchPerBlock
<1>5. LostAreNotFetched'
  BY <1>1, <1>2 DEF FetchInv, LostAreNotFetched
<1>7. WaitersAreAnswered'
  <2>1. \A q : (\E u \in tasks' : u.for = q /\ u.block = want[q])
               <=> (\E u \in tasks : u.for = q /\ u.block = want[q])
    BY <1>1
  <2> QED BY <1>2, <2>1 DEF FetchInv, WaitersAreAnswered
<1>8. TasksAreWaitedFor'
  BY <1>1, <1>2 DEF FetchInv, TasksAreWaitedFor
<1>6. fetching' \subseteq StreamBlocks /\ lost' \subseteq StreamBlocks /\ tasks' \subseteq AllTasks
  BY <1>1, <1>2 DEF FetchInv
<1> QED BY <1>4, <1>5, <1>6, <1>7, <1>8 DEF FetchInv, StreamBlocks, AllTasks

-----------------------------------------------------------------------------
LEMMA InitHolds ==
    ASSUME StreamAssumption, StreamInit
    PROVE  StreamInv
<1>1. CacheInv
  BY DEF StreamInit, CacheInv, CacheIsBounded, IsInjective, StreamAssumption
<1>2. ReaderTypes
  BY DEF StreamInit, ReaderTypes, Places, StreamBlocks, StreamAssumption
<1>3. FetchInv
  BY DEF StreamInit, FetchInv, OneFetchPerBlock, WaitersAreAnswered, TasksAreWaitedFor,
         LostAreNotFetched
<1> QED BY <1>1, <1>2, <1>3 DEF StreamInv

\* Every step of a reader keeps the invariant.
LEMMA StepKeeps ==
    ASSUME StreamAssumption, StreamInv, NEW r \in Readers,
           (\E a, b \in StreamBlocks : Begin(r, a, b)) \/ Step(r)
    PROVE  StreamInv'
<1>0. CacheInv /\ ReaderTypes /\ FetchInv
  BY DEF StreamInv
<1>1. CASE \E a, b \in StreamBlocks : Begin(r, a, b)
  <2>1. PICK a \in StreamBlocks, b \in StreamBlocks : Begin(r, a, b)
    BY <1>1
  <2>2. CacheInv'
    BY <1>0, <2>1 DEF Begin, CacheInv, CacheIsBounded, StreamBlocks
  <2>3. ReaderTypes'
    BY <1>0, <2>1 DEF Begin, ReaderTypes, Places, StreamBlocks
  <2>4. reader[r] # "wait" /\ reader'[r] # "wait"
    BY <1>0, <2>1 DEF Begin, ReaderTypes
  <2>5. /\ \A q \in Readers \ {r} : reader'[q] = reader[q] /\ want'[q] = want[q]
        /\ UNCHANGED <<fetching, tasks, lost>>
    BY <1>0, <2>1 DEF Begin, ReaderTypes
  <2>6. FetchInv'
    BY <1>0, <2>4, <2>5, ReaderMovesOn
  <2> QED BY <2>2, <2>3, <2>6 DEF StreamInv
<1>2. CASE Look(r) \/ AheadLook(r)
  <2>1. /\ UNCHANGED <<fetching, tasks, lost>> /\ reader[r] \in {"look", "aheadLook"}
        /\ Touch(want[r]) \/ cache' = cache
        /\ Got(r) \/ Goto(r, "claim") \/ Goto(r, "idle") \/ Goto(r, "aheadClaim")
    BY <1>2 DEF Look, AheadLook
  <2>2. CacheInv'
    BY <1>0, <2>1, TouchKeepsCache DEF CacheInv, CacheIsBounded, StreamBlocks
  <2>3. Got(r) \/ \E p \in {"claim", "idle", "aheadClaim"} : Goto(r, p)
    BY <2>1
  <2>4. /\ ReaderTypes'
        /\ Got(r) => reader'[r] # "wait"
        /\ \A q \in Readers \ {r} : reader'[q] = reader[q] /\ want'[q] = want[q]
    BY <1>0, <2>3, GoesOn DEF Places
  <2>5. reader[r] # "wait" /\ reader'[r] # "wait"
    BY <1>0, <2>1, <2>3, <2>4 DEF Goto, ReaderTypes
  <2>6. FetchInv'
    BY <1>0, <2>1, <2>4, <2>5, ReaderMovesOn
  <2> QED BY <2>2, <2>4, <2>6 DEF StreamInv
<1>3. CASE Claim(r) \/ AheadClaim(r)
  <2>1. /\ UNCHANGED <<cache, lost>> /\ reader[r] \in {"claim", "aheadClaim"}
        /\ \E p \in {"wait", "look", "idle"} : Goto(r, p)
    BY <1>3 DEF Claim, AheadClaim
  <2>2. CacheInv'
    BY <1>0, <2>1 DEF CacheInv, CacheIsBounded, StreamBlocks
  <2>3. /\ ReaderTypes' /\ want' = want
        /\ \A q \in Readers \ {r} : reader'[q] = reader[q] /\ want'[q] = want[q]
    BY <1>0, <2>1, GoesOn DEF Places, Goto
  <2>4. \/ /\ UNCHANGED <<fetching, tasks>>
           /\ reader'[r] # "wait"
        \/ /\ want[r] \notin fetching
           /\ \E for \in {r, Ahead} : Start(want[r], for) /\ (reader'[r] = "wait" <=> for = r)
    BY <1>0, <1>3 DEF Claim, AheadClaim, Goto, ReaderTypes, StreamAssumption
  <2>5. FetchInv'
    <3>1. CASE UNCHANGED <<fetching, tasks>> /\ reader'[r] # "wait"
      BY <1>0, <2>1, <2>3, <3>1, ReaderMovesOn
    <3>2. CASE /\ want[r] \notin fetching
               /\ \E for \in {r, Ahead} : Start(want[r], for) /\ (reader'[r] = "wait" <=> for = r)
      <4>1. PICK for \in {r, Ahead} : Start(want[r], for) /\ (reader'[r] = "wait" <=> for = r)
        BY <3>2
      <4> QED BY <1>0, <2>1, <2>3, <3>2, <4>1, TaskStarts
    <3> QED BY <2>4, <3>1, <3>2
  <2> QED BY <2>2, <2>3, <2>5 DEF StreamInv
<1> QED BY <1>1, <1>2, <1>3 DEF Step

\* Every step of a task keeps the invariant.
LEMMA TaskKeeps ==
    ASSUME StreamAssumption, StreamInv, NEW t \in tasks, Run(t) \/ Panic(t)
    PROVE  StreamInv'
<1>0. CacheInv /\ ReaderTypes /\ FetchInv /\ t.block \in StreamBlocks /\ t.for \in Readers \cup {Ahead}
  BY DEF StreamInv, FetchInv, AllTasks
<1>1. CASE Downloaded(t)
  <2>1. /\ UNCHANGED <<fetching, lost, readerVars>>
        /\ cache' = Remembered(t.block) \/ cache' = cache
        /\ \E s \in {"arrived", "failed"} : tasks' = (tasks \ {t}) \cup {[t EXCEPT !.stage = s]}
    BY <1>1 DEF Downloaded
  <2>2. CacheInv'
    BY <1>0, <2>1, RememberKeepsCache DEF CacheInv, CacheIsBounded, StreamBlocks
  <2>3. ReaderTypes'
    BY <1>0, <2>1 DEF readerVars, ReaderTypes, StreamBlocks
  <2>4. FetchInv'
    BY <1>0, <2>1, TaskGoesOn
  <2> QED BY <2>2, <2>3, <2>4 DEF StreamInv
<1>2. CASE Finish(t) \/ Panic(t)
  <2>1. /\ tasks' = tasks \ {t} /\ cache' = cache
        /\ \/ fetching' = fetching \ {t.block} /\ lost' = lost
           \/ fetching' = fetching /\ lost' = lost \cup {t.block}
        /\ \E ok \in BOOLEAN : Answer(t, ok)
    BY <1>2 DEF Finish, Panic
  <2>2. CacheInv'
    BY <1>0, <2>1 DEF CacheInv, CacheIsBounded, StreamBlocks
  <2>3. /\ ReaderTypes'
        /\ \A q \in Readers : q # t.for => reader'[q] = reader[q] /\ want'[q] = want[q]
        /\ t.for \in Readers => reader'[t.for] # "wait"
    <3>1. CASE t.for = Ahead /\ UNCHANGED readerVars
      BY <1>0, <3>1 DEF readerVars, ReaderTypes, StreamBlocks, StreamAssumption
    <3>2. CASE t.for # Ahead /\ (Got(t.for) \/ Goto(t.for, "idle"))
      <4>1. t.for \in Readers
        BY <1>0, <3>2
      <4>2. /\ ReaderTypes'
            /\ Got(t.for) => reader'[t.for] # "wait"
            /\ \A q \in Readers \ {t.for} : reader'[q] = reader[q] /\ want'[q] = want[q]
        BY <1>0, <3>2, <4>1, GoesOn DEF Places
      <4>3. reader'[t.for] # "wait"
        BY <1>0, <3>2, <4>1, <4>2 DEF Goto, ReaderTypes
      <4> QED BY <4>2, <4>3
    <3> QED BY <2>1, <3>1, <3>2 DEF Answer
  <2>4. FetchInv'
    BY <1>0, <2>1, <2>3, TaskEnds
  <2> QED BY <2>2, <2>3, <2>4 DEF StreamInv
<1> QED BY <1>1, <1>2 DEF Run

LEMMA NextKeeps ==
    ASSUME StreamAssumption, StreamInv, [StreamNext]_streamVars
    PROVE  StreamInv'
<1>1. CASE UNCHANGED streamVars
  BY <1>1 DEF streamVars, StreamInv, CacheInv, ReaderTypes, FetchInv, CacheIsBounded, OneFetchPerBlock, readerVars,
              WaitersAreAnswered, TasksAreWaitedFor, LostAreNotFetched, StreamBlocks, AllTasks
<1>2. CASE StreamNext
  BY <1>2, StepKeeps, TaskKeeps DEF StreamNext
<1> QED BY <1>1, <1>2

(* The cache of an open file, its set of fetches, their tasks and the readers always
   agree, for any number of readers and blocks, any cache and with panics (fs.rs,
   StreamingFile). *)
THEOREM CacheStaysSound == StreamSpec => []CacheIsSound
<1>1. StreamInit => StreamInv
  BY StreamIsGiven, InitHolds
<1>2. StreamInv /\ [StreamNext]_streamVars => StreamInv'
  BY StreamIsGiven, NextKeeps
<1>3. StreamInv => CacheIsSound
  BY DEF StreamInv, CacheInv, ReaderTypes, FetchInv, CacheIsSound, StreamTypeOK
<1> QED BY <1>1, <1>2, <1>3, PTL DEF StreamSpec

-----------------------------------------------------------------------------
(* Downloads *)

Begun == {"wait", "gate", "drain"}

\* nothing was done yet
Clean(f) ==
    pc[f] \in {"idle", "queue", "list", "batch"} =>
      /\ futures[f] = {} /\ buffer[f] = {} /\ took[f] = 0 /\ out[f] = <<>>
      /\ pc[f] = "batch" => N[f] # 0

\* a block is at hand between its result and its place in the buffer
AtHand(f) == took[f] # 0 <=> pc[f] = "gate"

Prefix(f) ==
    /\ Len(out[f]) <= N[f] /\ \A i \in 1..Len(out[f]) : out[f][i] = i
    /\ pc[f] = "done" => Len(out[f]) = N[f]

Started(f) == {b \in Blocks(f) : b < next[f]}
Kept(f) == futures[f] \cup buffer[f] \cup ({took[f]} \ {0}) \cup 1..Len(out[f])
AllKept(f) == pc[f] \in Begun => Started(f) = Kept(f)

\* the blocks in flight with the one whose place is being given away
InFlight(f) == IF pc[f] = "gate" THEN Cardinality(futures[f]) + 1 ELSE Cardinality(futures[f])
FlightIsFull(f) == /\ InFlight(f) <= Width
                   /\ pc[f] \in Begun /\ next[f] <= N[f] => InFlight(f) = Width

Awaits(f) == pc[f] = "wait" => futures[f] # {}

DownloadInv(f) == /\ Clean(f) /\ AtHand(f) /\ Prefix(f) /\ AllKept(f)
                  /\ FlightIsFull(f) /\ Awaits(f)

DownloadsInv == TypeOK /\ \A f \in Files : DownloadInv(f)

-----------------------------------------------------------------------------
LEMMA FileTypes ==
    ASSUME TypeOK, NEW f \in Files
    PROVE  /\ N[f] \in Nat /\ Blocks(f) \subseteq Nat /\ Blocks(f) = 1..N[f]
           /\ futures[f] \subseteq Blocks(f) /\ buffer[f] \subseteq Blocks(f)
           /\ IsFiniteSet(futures[f]) /\ Cardinality(futures[f]) \in Nat
           /\ next[f] \in Nat /\ next[f] >= 1 /\ took[f] \in {0} \cup Blocks(f)
           /\ out[f] \in Seq(Blocks(f)) /\ Len(out[f]) \in Nat
           /\ pc[f] \in Stages
<1>1. N[f] \in Nat
  BY DownloadAssumption
<1>2. /\ futures[f] \subseteq Blocks(f) /\ buffer[f] \subseteq Blocks(f)
      /\ took[f] \in {0} \cup Blocks(f) /\ out[f] \in Seq(Blocks(f))
      /\ next[f] \in Nat \ {0} /\ pc[f] \in Stages
  BY DEF TypeOK
<1>3. IsFiniteSet(Blocks(f))
  <2>1. 1 \in Int /\ N[f] \in Int
    BY <1>1
  <2> QED BY <2>1, FS_Interval DEF Blocks
<1>4. IsFiniteSet(futures[f]) /\ Cardinality(futures[f]) \in Nat
  BY <1>2, <1>3, FS_Subset, FS_CardinalityType
<1>5. Len(out[f]) \in Nat
  BY <1>2
<1>6. Blocks(f) = 1..N[f] /\ Blocks(f) \subseteq Nat
  BY <1>1 DEF Blocks
<1> QED BY <1>1, <1>2, <1>4, <1>5, <1>6

\* A step of one download leaves the invariants of the others alone.
Untouched(g) ==
    /\ pc'[g] = pc[g] /\ futures'[g] = futures[g] /\ next'[g] = next[g]
    /\ took'[g] = took[g] /\ buffer'[g] = buffer[g] /\ out'[g] = out[g]

LEMMA Stutters ==
    ASSUME NEW g \in Files, DownloadInv(g), Untouched(g)
    PROVE  DownloadInv(g)'
<1>1. Clean(g)' /\ AtHand(g)' /\ Prefix(g)' /\ Awaits(g)'
  BY DEF DownloadInv, Untouched, Clean, AtHand, Prefix, Awaits
<1>2. Started(g)' = Started(g) /\ Kept(g)' = Kept(g) /\ InFlight(g)' = InFlight(g)
  BY DEF Untouched, Started, Kept, InFlight
<1>3. AllKept(g)' /\ FlightIsFull(g)'
  BY <1>2 DEF DownloadInv, Untouched, AllKept, FlightIsFull
<1> QED BY <1>1, <1>3 DEF DownloadInv

LEMMA OthersKeep ==
    ASSUME DownloadsInv, TypeOK', NEW f \in Files, DownloadInv(f)',
           \A g \in Files \ {f} : Untouched(g)
    PROVE  DownloadsInv'
BY Stutters DEF DownloadsInv

\* The first blocks are as many as they are, but no more than the file has.
LEMMA FirstBlocks ==
    ASSUME NEW n \in Nat, NEW w \in Nat \ {0}
    PROVE  LET batch == {b \in 1..n : b <= w} IN
           /\ IsFiniteSet(batch)
           /\ Cardinality(batch) = IF n <= w THEN n ELSE w
<1> DEFINE batch == {b \in 1..n : b <= w}
           k == IF n <= w THEN n ELSE w
<1>1. k \in Nat /\ batch = 1..k
  OBVIOUS
<1>2. 1 \in Int /\ k \in Int /\ (1 > k => k = 0)
  BY <1>1
<1>3. IsFiniteSet(1..k) /\ Cardinality(1..k) = IF 1 > k THEN 0 ELSE k - 1 + 1
  BY <1>2, FS_Interval
<1>4. Cardinality(1..k) = k
  BY <1>1, <1>2, <1>3
<1> QED BY <1>1, <1>3, <1>4

-----------------------------------------------------------------------------
\* Getting to the first batch.
LEMMA BeginKeeps ==
    ASSUME DownloadsInv, NEW f \in Files, Download(f) \/ StartFile(f) \/ List(f)
    PROVE  DownloadsInv'
<1>0. TypeOK /\ DownloadInv(f)
  BY DEF DownloadsInv
<1>1. /\ UNCHANGED <<task, futures, next, took, buffer, out, control>>
      /\ pc[f] \in {"idle", "queue", "list"}
      /\ \E s \in {"queue", "list", "batch", "done", "failed"} :
            /\ pc' = [pc EXCEPT ![f] = s]
            /\ s = "batch" => N[f] # 0
            /\ s = "done" => N[f] = 0
  BY DEF Download, StartFile, List
<1>2. PICK s \in {"queue", "list", "batch", "done", "failed"} :
            /\ pc' = [pc EXCEPT ![f] = s]
            /\ s = "batch" => N[f] # 0
            /\ s = "done" => N[f] = 0
  BY <1>1
<1>3. pc' \in [Files -> Stages] /\ pc'[f] = s /\ \A g \in Files \ {f} : pc'[g] = pc[g]
  <2>1. s \in Stages
    BY DEF Stages, Ended
  <2> QED BY <1>0, <1>2, <2>1 DEF TypeOK
<1>4. TypeOK'
  BY <1>0, <1>1, <1>3 DEF TypeOK, Blocks
<1>5. \A g \in Files \ {f} : Untouched(g)
  BY <1>1, <1>3 DEF Untouched
<1>6. /\ futures[f] = {} /\ buffer[f] = {} /\ took[f] = 0 /\ out[f] = <<>>
  BY <1>0, <1>1 DEF DownloadInv, Clean
<1>7. Clean(f)' /\ AtHand(f)' /\ AllKept(f)' /\ Awaits(f)'
  BY <1>1, <1>2, <1>3, <1>6 DEF Clean, AtHand, AllKept, Awaits, Begun
<1>8. Prefix(f)'
  BY <1>0, <1>1, <1>2, <1>3, <1>6 DEF DownloadInv, Prefix
<1>9. FlightIsFull(f)'
  BY <1>0, <1>1, <1>3, <1>6 DEF DownloadInv, FlightIsFull, InFlight, Begun
<1> QED BY <1>4, <1>5, <1>7, <1>8, <1>9, OthersKeep DEF DownloadInv

\* What happens to a block's task, or to the controller, is not of the loop.
LEMMA AsideKeeps ==
    ASSUME DownloadsInv, UNCHANGED <<pc, futures, next, took, buffer, out>>,
           \/ \E f \in Files : Pause(f) \/ Resume(f)
           \/ \E f \in Files : \E b \in Blocks(f) : Task(f, b)
    PROVE  DownloadsInv'
<1>0. TypeOK
  BY DEF DownloadsInv
<1>1. TypeOK'
  <2>1. CASE \E f \in Files : Pause(f) \/ Resume(f)
    <3>1. UNCHANGED task /\ \E f \in Files : \E s \in {"paused", "resumed"} : control' = [control EXCEPT ![f] = s]
      BY <2>1 DEF Pause, Resume
    <3>2. control' \in [Files -> {"running", "paused", "resumed"}]
      BY <1>0, <3>1 DEF TypeOK
    <3> QED BY <1>0, <3>1, <3>2 DEF TypeOK, Blocks
  <2>2. CASE \E f \in Files : \E b \in Blocks(f) : Task(f, b)
    <3>p. PICK f \in Files : \E b \in Blocks(f) : Task(f, b)
      BY <2>2
    <3>1. PICK b \in Blocks(f) : Task(f, b)
      BY <3>p
    <3>2. UNCHANGED control
      BY <3>1 DEF Task, StartBlock, BlockEnds
    <3>3. PICK s \in {"running", "ready", "error"} : task' = [task EXCEPT ![f][b] = s]
      BY <3>1 DEF Task, StartBlock, BlockEnds
    <3>4. /\ Files = DOMAIN task
          /\ \A g \in Files : task[g] \in [Blocks(g) -> {"none", "queued", "running", "ready", "error"}]
      BY <1>0 DEF TypeOK
    <3>5. /\ Files = DOMAIN task' /\ task'[f] = [task[f] EXCEPT ![b] = s]
          /\ \A g \in Files \ {f} : task'[g] = task[g]
      BY <3>3, <3>4
    <3>6. \A g \in Files : task'[g] \in [Blocks(g) -> {"none", "queued", "running", "ready", "error"}]
      BY <3>4, <3>5
    <3> QED BY <1>0, <3>2, <3>5, <3>6 DEF TypeOK, Blocks
  <2> QED BY <2>1, <2>2
<1>2. \A g \in Files : Untouched(g)
  BY DEF Untouched
<1> QED BY <1>1, <1>2, Stutters DEF DownloadsInv

LEMMA StartBatchKeeps ==
    ASSUME DownloadsInv, NEW f \in Files, StartBatch(f)
    PROVE  DownloadsInv'
<1> DEFINE batch == {b \in Blocks(f) : b <= Width}
<1>0. TypeOK /\ DownloadInv(f)
  BY DEF DownloadsInv
<1>t. /\ N[f] \in Nat /\ Blocks(f) = 1..N[f] /\ Width \in Nat \ {0}
  BY <1>0, FileTypes, DownloadAssumption
<1>1. /\ pc[f] = "batch" /\ pc' = [pc EXCEPT ![f] = "wait"]
      /\ UNCHANGED <<took, buffer, out, control>>
      /\ futures' = [futures EXCEPT ![f] = batch]
      /\ next' = [next EXCEPT ![f] = Cardinality(batch) + 1]
      /\ task' = [task EXCEPT ![f] = [b \in Blocks(f) |->
                       IF b \in batch THEN "queued" ELSE "none"]]
  BY DEF StartBatch
<1>2. IsFiniteSet(batch) /\ Cardinality(batch) = IF N[f] <= Width THEN N[f] ELSE Width
  BY <1>t, FirstBlocks
<1>3. /\ pc' \in [Files -> Stages] /\ pc'[f] = "wait"
      /\ \A g \in Files \ {f} : pc'[g] = pc[g]
  BY <1>0, <1>1 DEF TypeOK, Stages
<1>4. /\ Files = DOMAIN futures' /\ futures'[f] = batch
      /\ \A g \in Files \ {f} : futures'[g] = futures[g]
  BY <1>0, <1>1 DEF TypeOK
<1>5. /\ next' \in [Files -> Nat \ {0}] /\ next'[f] = Cardinality(batch) + 1
      /\ \A g \in Files \ {f} : next'[g] = next[g]
  <2>1. Cardinality(batch) + 1 \in Nat \ {0}
    BY <1>2, <1>t
  <2> HIDE DEF batch
  <2> QED BY <1>0, <1>1, <2>1 DEF TypeOK
<1>6. /\ Files = DOMAIN task'
      /\ \A g \in Files : task'[g] \in [Blocks(g) -> {"none", "queued", "running", "ready", "error"}]
  BY <1>0, <1>1 DEF TypeOK
<1>7. TypeOK'
  <2>1. \A g \in Files : futures'[g] \subseteq Blocks(g)
    BY <1>0, <1>4 DEF TypeOK
  <2> QED BY <1>0, <1>1, <1>3, <1>4, <1>5, <1>6, <2>1 DEF TypeOK, Blocks
<1>8. \A g \in Files \ {f} : Untouched(g)
  BY <1>1, <1>3, <1>4, <1>5 DEF Untouched
<1>9. buffer[f] = {} /\ took[f] = 0 /\ out[f] = <<>> /\ N[f] # 0
  BY <1>0, <1>1 DEF DownloadInv, Clean
<1>10. Clean(f)' /\ AtHand(f)'
  BY <1>1, <1>3, <1>9 DEF Clean, AtHand
<1>11. Prefix(f)'
  BY <1>0, <1>1, <1>3 DEF DownloadInv, Prefix
<1>12. AllKept(f)'
  <2>1. Kept(f)' = batch
    <3>1. 1..Len(out'[f]) = {}
      BY <1>1, <1>9
    <3> QED BY <1>1, <1>4, <1>9, <3>1 DEF Kept
  <2>2. Started(f)' = batch
    BY <1>2, <1>5, <1>t DEF Started, Blocks
  <2> QED BY <2>1, <2>2 DEF AllKept
<1>13. FlightIsFull(f)'
  BY <1>2, <1>3, <1>4, <1>5, <1>t DEF FlightIsFull, InFlight
<1>14. Awaits(f)'
  BY SMTT(30), <1>4, <1>9, <1>t DEF Awaits
<1> QED BY <1>7, <1>8, <1>10, <1>11, <1>12, <1>13, <1>14, OthersKeep DEF DownloadInv
LEMMA TakeBlockKeeps ==
    ASSUME DownloadsInv, NEW f \in Files, NEW b \in Blocks(f), TakeBlock(f, b)
    PROVE  DownloadsInv'
<1>0. TypeOK /\ DownloadInv(f)
  BY DEF DownloadsInv
<1>t. /\ IsFiniteSet(futures[f]) /\ Cardinality(futures[f]) \in Nat
      /\ futures[f] \subseteq Blocks(f) /\ Blocks(f) = 1..N[f] /\ N[f] \in Nat
      /\ Width \in Nat
  BY <1>0, FileTypes, DownloadAssumption
<1>1. /\ pc[f] = "wait" /\ b \in futures[f] /\ pc' = [pc EXCEPT ![f] = "gate"]
      /\ UNCHANGED <<task, next, buffer, out, control>>
      /\ futures' = [futures EXCEPT ![f] = @ \ {b}]
      /\ took' = [took EXCEPT ![f] = b]
  BY DEF TakeBlock
<1>2. /\ pc' \in [Files -> Stages] /\ pc'[f] = "gate"
      /\ \A g \in Files \ {f} : pc'[g] = pc[g]
  BY <1>0, <1>1 DEF TypeOK, Stages
<1>3. /\ Files = DOMAIN futures' /\ futures'[f] = futures[f] \ {b}
      /\ \A g \in Files \ {f} : futures'[g] = futures[g]
  BY <1>0, <1>1 DEF TypeOK
<1>4. /\ Files = DOMAIN took' /\ took'[f] = b
      /\ \A g \in Files \ {f} : took'[g] = took[g]
  BY <1>0, <1>1 DEF TypeOK
<1>5. TypeOK'
  <2>1. \A g \in Files : futures'[g] \subseteq Blocks(g) /\ took'[g] \in {0} \cup Blocks(g)
    BY <1>0, <1>3, <1>4 DEF TypeOK
  <2> QED BY <1>0, <1>1, <1>2, <1>3, <1>4, <2>1 DEF TypeOK, Blocks
<1>6. \A g \in Files \ {f} : Untouched(g)
  BY <1>1, <1>2, <1>3, <1>4 DEF Untouched
<1>7. Clean(f)' /\ Awaits(f)'
  BY <1>2 DEF Clean, Awaits
<1>8. AtHand(f)'
  BY <1>2, <1>4, <1>t DEF AtHand
<1>9. Prefix(f)'
  BY <1>0, <1>1, <1>2 DEF DownloadInv, Prefix
<1>10. AllKept(f)'
  <2>1. took[f] = 0
    BY <1>0, <1>1 DEF DownloadInv, AtHand
  <2>2. b # 0
    BY <1>t
  <2>3. Kept(f)' = Kept(f)
    BY <1>1, <1>3, <1>4, <2>1, <2>2 DEF Kept
  <2>4. Started(f)' = Started(f)
    BY <1>1 DEF Started, Blocks
  <2> QED BY <1>0, <1>1, <2>3, <2>4 DEF DownloadInv, AllKept, Begun
<1>11. FlightIsFull(f)'
  <2>1. Cardinality(futures'[f]) = Cardinality(futures[f]) - 1
    BY <1>1, <1>3, <1>t, FS_RemoveElement
  <2>2. InFlight(f)' = InFlight(f)
    BY <1>1, <1>2, <1>t, <2>1 DEF InFlight
  <2> QED BY <1>0, <1>1, <2>2 DEF DownloadInv, FlightIsFull, Begun
<1> QED BY <1>5, <1>6, <1>7, <1>8, <1>9, <1>10, <1>11, OthersKeep DEF DownloadInv

\* A failed download keeps what it has written, and nothing else.
LEMMA FailKeeps ==
    ASSUME DownloadsInv, NEW f \in Files,
           WriteFails(f) \/ \E b \in Blocks(f) : TakeError(f, b)
    PROVE  DownloadsInv'
<1>0. TypeOK /\ DownloadInv(f)
  BY DEF DownloadsInv
<1>1. /\ pc[f] \in {"wait", "drain"} /\ pc' = [pc EXCEPT ![f] = "failed"]
      /\ UNCHANGED <<task, next, took, out, control>>
      /\ futures' = [futures EXCEPT ![f] = {}] /\ buffer' = [buffer EXCEPT ![f] = {}]
  BY DEF WriteFails, TakeError
<1>2. /\ pc' \in [Files -> Stages] /\ pc'[f] = "failed"
      /\ \A g \in Files \ {f} : pc'[g] = pc[g]
  BY <1>0, <1>1 DEF TypeOK, Stages, Ended
<1>3. /\ Files = DOMAIN futures' /\ futures'[f] = {}
      /\ \A g \in Files \ {f} : futures'[g] = futures[g]
  BY <1>0, <1>1 DEF TypeOK
<1>4. /\ Files = DOMAIN buffer' /\ buffer'[f] = {}
      /\ \A g \in Files \ {f} : buffer'[g] = buffer[g]
  BY <1>0, <1>1 DEF TypeOK
<1>5. TypeOK'
  <2>1. \A g \in Files : futures'[g] \subseteq Blocks(g) /\ buffer'[g] \subseteq Blocks(g)
    BY <1>0, <1>3, <1>4 DEF TypeOK
  <2> QED BY <1>0, <1>1, <1>2, <1>3, <1>4, <2>1 DEF TypeOK, Blocks
<1>6. \A g \in Files \ {f} : Untouched(g)
  BY <1>1, <1>2, <1>3, <1>4 DEF Untouched
<1>7. Clean(f)' /\ AllKept(f)' /\ Awaits(f)'
  BY <1>2 DEF Clean, AllKept, Awaits, Begun
<1>8. AtHand(f)' /\ Prefix(f)'
  BY <1>0, <1>1, <1>2 DEF DownloadInv, AtHand, Prefix
<1>9. FlightIsFull(f)'
  <2>1. Cardinality({}) = 0 /\ Width \in Nat
    BY FS_EmptySet, DownloadAssumption
  <2> QED BY <1>2, <1>3, <2>1 DEF FlightIsFull, InFlight, Begun
<1> QED BY <1>5, <1>6, <1>7, <1>8, <1>9, OthersKeep DEF DownloadInv

LEMMA ProceedKeeps ==
    ASSUME DownloadsInv, NEW f \in Files, Proceed(f)
    PROVE  DownloadsInv'
<1> DEFINE more == IF next[f] \in Blocks(f) THEN {next[f]} ELSE {}
<1>0. TypeOK /\ DownloadInv(f)
  BY DEF DownloadsInv
<1>t. /\ IsFiniteSet(futures[f]) /\ Cardinality(futures[f]) \in Nat
      /\ futures[f] \subseteq Blocks(f) /\ Blocks(f) = 1..N[f] /\ N[f] \in Nat
      /\ next[f] \in Nat /\ next[f] >= 1 /\ Width \in Nat
      /\ took[f] \in Blocks(f) \cup {0}
  BY <1>0, FileTypes, DownloadAssumption
<1>1. /\ pc[f] = "gate" /\ pc' = [pc EXCEPT ![f] = "drain"]
      /\ UNCHANGED <<out, control>>
      /\ next' = [next EXCEPT ![f] = @ + 1] /\ took' = [took EXCEPT ![f] = 0]
      /\ buffer' = [buffer EXCEPT ![f] = @ \cup {took[f]}]
  BY DEF Proceed
<1>2. /\ pc' \in [Files -> Stages] /\ pc'[f] = "drain"
      /\ \A g \in Files \ {f} : pc'[g] = pc[g]
  BY <1>0, <1>1 DEF TypeOK, Stages
<1>3. /\ Files = DOMAIN futures' /\ futures'[f] = futures[f] \cup more
      /\ \A g \in Files \ {f} : futures'[g] = futures[g]
  BY <1>0 DEF TypeOK, Proceed
<1>4. /\ Files = DOMAIN buffer' /\ buffer'[f] = buffer[f] \cup {took[f]}
      /\ \A g \in Files \ {f} : buffer'[g] = buffer[g]
  BY <1>0, <1>1 DEF TypeOK
<1>5. /\ next' \in [Files -> Nat \ {0}] /\ next'[f] = next[f] + 1
      /\ \A g \in Files \ {f} : next'[g] = next[g]
  <2>1. next[f] + 1 \in Nat \ {0}
    BY <1>t
  <2> QED BY <1>0, <1>1, <2>1 DEF TypeOK
<1>6. /\ Files = DOMAIN took' /\ took'[f] = 0
      /\ \A g \in Files \ {f} : took'[g] = took[g]
  BY <1>0, <1>1 DEF TypeOK
<1>7. /\ Files = DOMAIN task'
      /\ \A g \in Files : task'[g] \in [Blocks(g) -> {"none", "queued", "running", "ready", "error"}]
  <2>1. /\ Files = DOMAIN task
        /\ \A g \in Files : task[g] \in [Blocks(g) -> {"none", "queued", "running", "ready", "error"}]
    BY <1>0 DEF TypeOK
  <2>2. CASE next[f] \in Blocks(f)
    <3>1. task' = [task EXCEPT ![f][next[f]] = "queued"]
      BY <2>2 DEF Proceed
    <3>2. /\ Files = DOMAIN task' /\ task'[f] = [task[f] EXCEPT ![next[f]] = "queued"]
          /\ \A g \in Files \ {f} : task'[g] = task[g]
      BY <2>1, <3>1
    <3> QED BY <2>1, <3>2
  <2>3. CASE next[f] \notin Blocks(f)
    BY <2>1, <2>3 DEF Proceed
  <2> QED BY <2>2, <2>3
<1>8. took[f] \in Blocks(f)
  BY <1>0, <1>1, <1>t DEF DownloadInv, AtHand
<1>9. TypeOK'
  <2>1. futures'[f] \subseteq Blocks(f) /\ buffer'[f] \subseteq Blocks(f)
    BY <1>0, <1>3, <1>4, <1>8 DEF TypeOK
  <2>2. \A g \in Files : /\ futures'[g] \subseteq Blocks(g) /\ buffer'[g] \subseteq Blocks(g)
                         /\ took'[g] \in {0} \cup Blocks(g)
    BY <1>0, <1>3, <1>4, <1>6, <2>1 DEF TypeOK
  <2> QED BY <1>0, <1>1, <1>2, <1>3, <1>4, <1>5, <1>6, <1>7, <2>2 DEF TypeOK, Blocks
<1>10. \A g \in Files \ {f} : Untouched(g)
  BY <1>1, <1>2, <1>3, <1>4, <1>5, <1>6 DEF Untouched
<1>11. Clean(f)' /\ AtHand(f)' /\ Awaits(f)'
  BY <1>2, <1>6 DEF Clean, AtHand, Awaits
<1>12. Prefix(f)'
  BY <1>0, <1>1, <1>2 DEF DownloadInv, Prefix
<1>13. Started(f) = Kept(f)
  BY <1>0, <1>1 DEF DownloadInv, AllKept, Begun
<1>14. AllKept(f)'
  <2>1. Started(f)' = Started(f) \cup more
    BY <1>5, <1>t DEF Started, Blocks
  <2>2. Kept(f)' = Kept(f) \cup more
    <3>1. took[f] # 0
      BY <1>8, <1>t
    <3> HIDE DEF more
    <3> QED BY <1>1, <1>3, <1>4, <1>6, <3>1 DEF Kept
  <2> QED BY <1>13, <2>1, <2>2 DEF AllKept
<1>15. FlightIsFull(f)'
  <2>0. InFlight(f) = Cardinality(futures[f]) + 1 /\ InFlight(f)' = Cardinality(futures'[f])
    BY <1>1, <1>2 DEF InFlight
  <2>00. InFlight(f) <= Width /\ (next[f] <= N[f] => InFlight(f) = Width)
    BY <1>0, <1>1 DEF DownloadInv, FlightIsFull, Begun
  <2>1. CASE next[f] \in Blocks(f)
    <3>1. next[f] \notin futures[f]
      BY <1>13, <1>t DEF Started, Kept
    <3>2. Cardinality(futures[f] \cup {next[f]}) = Cardinality(futures[f]) + 1
      BY <1>t, <3>1, FS_AddElement
    <3>3. Cardinality(futures'[f]) = Cardinality(futures[f]) + 1
      BY <1>3, <2>1, <3>2
    <3>4. next[f] <= N[f]
      BY <1>t, <2>1
    <3> QED BY <2>0, <2>00, <3>3, <3>4 DEF FlightIsFull
  <2>2. CASE next[f] \notin Blocks(f)
    <3>1. futures'[f] = futures[f]
      BY <1>3, <2>2
    <3>2. ~(next'[f] <= N[f])
      BY <1>5, <1>t, <2>2
    <3>3. Cardinality(futures'[f]) <= Width
      BY <1>t, <2>0, <2>00, <3>1
    <3> QED BY <2>0, <3>2, <3>3 DEF FlightIsFull
  <2> QED BY <2>1, <2>2
<1> QED BY <1>9, <1>10, <1>11, <1>12, <1>14, <1>15, OthersKeep DEF DownloadInv
LEMMA WriteBlockKeeps ==
    ASSUME DownloadsInv, NEW f \in Files, WriteBlock(f)
    PROVE  DownloadsInv'
<1> DEFINE n == Len(out[f])
<1>0. TypeOK /\ DownloadInv(f)
  BY DEF DownloadsInv
<1>t. /\ buffer[f] \subseteq Blocks(f) /\ Blocks(f) = 1..N[f] /\ N[f] \in Nat
      /\ out[f] \in Seq(Blocks(f)) /\ n \in Nat
  BY <1>0, FileTypes
<1>1. /\ pc[f] = "drain" /\ n + 1 \in buffer[f]
      /\ UNCHANGED <<pc, task, futures, next, took, control>>
      /\ out' = [out EXCEPT ![f] = Append(@, n + 1)]
      /\ buffer' = [buffer EXCEPT ![f] = @ \ {n + 1}]
  BY DEF WriteBlock, NextWrite
<1>2. /\ Files = DOMAIN out' /\ out'[f] = Append(out[f], n + 1)
      /\ \A g \in Files \ {f} : out'[g] = out[g]
  BY <1>0, <1>1 DEF TypeOK
<1>3. /\ Files = DOMAIN buffer' /\ buffer'[f] = buffer[f] \ {n + 1}
      /\ \A g \in Files \ {f} : buffer'[g] = buffer[g]
  BY <1>0, <1>1 DEF TypeOK
<1>4. n + 1 \in Blocks(f) /\ n + 1 <= N[f]
  BY <1>1, <1>t
<1>5. /\ out'[f] \in Seq(Blocks(f)) /\ Len(out'[f]) = n + 1 /\ out'[f][n + 1] = n + 1
      /\ \A i \in 1..n : out'[f][i] = out[f][i]
  BY <1>2, <1>4, <1>t
<1>6. TypeOK'
  <2>1. \A g \in Files : buffer'[g] \subseteq Blocks(g) /\ out'[g] \in Seq(Blocks(g))
    BY <1>0, <1>2, <1>3, <1>5 DEF TypeOK
  <2> QED BY <1>0, <1>1, <1>2, <1>3, <2>1 DEF TypeOK, Blocks
<1>7. \A g \in Files \ {f} : Untouched(g)
  BY <1>1, <1>2, <1>3 DEF Untouched
<1>8. Clean(f)' /\ AtHand(f)' /\ Awaits(f)'
  BY <1>0, <1>1 DEF DownloadInv, Clean, AtHand, Awaits
<1>r. 1..(n + 1) = 1..n \cup {n + 1}
  BY <1>t
<1>9. Prefix(f)'
  <2>1. \A i \in 1..n : out'[f][i] = i
    BY <1>0, <1>5 DEF DownloadInv, Prefix
  <2>2. \A i \in 1..(n + 1) : out'[f][i] = i
    BY <1>5, <1>r, <2>1
  <2> QED BY <1>1, <1>4, <1>5, <2>2 DEF Prefix
<1>10. AllKept(f)'
  <2>1. Kept(f)' = Kept(f)
    BY <1>1, <1>3, <1>5, <1>r DEF Kept
  <2>2. Started(f)' = Started(f)
    BY <1>1 DEF Started, Blocks
  <2> QED BY <1>0, <1>1, <2>1, <2>2 DEF DownloadInv, AllKept
<1>11. FlightIsFull(f)'
  BY <1>0, <1>1 DEF DownloadInv, FlightIsFull, InFlight
<1> QED BY <1>6, <1>7, <1>8, <1>9, <1>10, <1>11, OthersKeep DEF DownloadInv

\* The loop is left when all is written, and otherwise has a block to await.
LEMMA EndDrainKeeps ==
    ASSUME DownloadsInv, NEW f \in Files, EndDrain(f)
    PROVE  DownloadsInv'
<1> DEFINE n == Len(out[f])
<1>0. TypeOK /\ DownloadInv(f)
  BY DEF DownloadsInv
<1>t. /\ N[f] \in Nat /\ n \in Nat /\ Blocks(f) = 1..N[f] /\ next[f] \in Nat
      /\ Width \in Nat /\ Width # 0 /\ futures[f] \subseteq Blocks(f)
  BY <1>0, FileTypes, DownloadAssumption
<1>1. /\ pc[f] = "drain" /\ n + 1 \notin buffer[f]
      /\ UNCHANGED <<task, futures, next, took, buffer, out, control>>
      /\ pc' = [pc EXCEPT ![f] = IF futures[f] # {} \/ n + 1 <= N[f] THEN "wait" ELSE "done"]
  BY DEF EndDrain, NextWrite
<1>2. /\ pc' \in [Files -> Stages]
      /\ pc'[f] = IF futures[f] # {} \/ n + 1 <= N[f] THEN "wait" ELSE "done"
      /\ \A g \in Files \ {f} : pc'[g] = pc[g]
  BY <1>0, <1>1 DEF TypeOK, Stages, Ended
<1>3. TypeOK'
  BY <1>0, <1>1, <1>2 DEF TypeOK, Blocks
<1>4. \A g \in Files \ {f} : Untouched(g)
  BY <1>1, <1>2 DEF Untouched
<1>5. Clean(f)' /\ AtHand(f)'
  BY <1>0, <1>1, <1>2 DEF DownloadInv, Clean, AtHand
<1>6. Prefix(f)'
  <2>1. n <= N[f] /\ \A i \in 1..n : out[f][i] = i
    BY <1>0 DEF DownloadInv, Prefix
  <2>2. pc'[f] = "done" => n = N[f]
    BY <1>2, <1>t, <2>1
  <2> QED BY <1>1, <2>1, <2>2 DEF Prefix
<1>7. AllKept(f)'
  <2>1. Kept(f)' = Kept(f) /\ Started(f)' = Started(f)
    BY <1>1 DEF Kept, Started, Blocks
  <2> QED BY <1>0, <1>1, <2>1 DEF DownloadInv, AllKept, Begun
<1>8. FlightIsFull(f)'
  <2>1. InFlight(f)' = InFlight(f)
    BY <1>1, <1>2 DEF InFlight
  <2> QED BY <1>0, <1>1, <2>1 DEF DownloadInv, FlightIsFull, Begun
<1>9. Awaits(f)'
  <2> SUFFICES ASSUME pc'[f] = "wait", futures[f] = {} PROVE FALSE
    BY <1>1 DEF Awaits
  <2>1. n + 1 \in Blocks(f)
    BY <1>2, <1>t
  <2>2. took[f] = 0 /\ Started(f) = Kept(f)
    BY <1>0, <1>1 DEF DownloadInv, AtHand, AllKept, Begun
  <2>3. n + 1 \notin Kept(f)
    <3>1. n + 1 \notin 1..n
      BY <1>t
    <3> QED BY <1>1, <2>2, <3>1 DEF Kept
  <2>4. next[f] <= n + 1 /\ n + 1 <= N[f]
    BY <1>t, <2>1, <2>2, <2>3 DEF Started
  <2>5. InFlight(f) = Width
    BY <1>0, <1>1, <1>t, <2>4 DEF DownloadInv, FlightIsFull, Begun
  <2>6. Cardinality({}) = 0
    BY FS_EmptySet
  <2> QED BY <1>1, <1>t, <2>5, <2>6 DEF InFlight
<1> QED BY <1>3, <1>4, <1>5, <1>6, <1>7, <1>8, <1>9, OthersKeep DEF DownloadInv

-----------------------------------------------------------------------------
LEMMA InitInv == Init => DownloadsInv
<1> SUFFICES ASSUME Init PROVE DownloadsInv
  OBVIOUS
<1>1. TypeOK
  <2>1. \A f \in Files : <<>> \in Seq(Blocks(f))
    OBVIOUS
  <2> QED BY <2>1 DEF Init, TypeOK, Stages
<1>2. ASSUME NEW f \in Files PROVE DownloadInv(f)
  <2>1. Cardinality({}) = 0 /\ Width \in Nat /\ N[f] \in Nat
    BY FS_EmptySet, DownloadAssumption
  <2> QED BY <2>1 DEF Init, DownloadInv, Clean, AtHand, Prefix, AllKept, FlightIsFull, InFlight,
                      Awaits, Begun
<1> QED BY <1>1, <1>2 DEF DownloadsInv

LEMMA NextInv == DownloadsInv /\ [Next]_vars => DownloadsInv'
<1> SUFFICES ASSUME DownloadsInv, [Next]_vars PROVE DownloadsInv'
  OBVIOUS
<1>1. ASSUME NEW f \in Files, Download(f) \/ StartFile(f)
      PROVE  DownloadsInv'
  BY <1>1, BeginKeeps
<1>2. ASSUME NEW f \in Files, Pause(f) \/ Resume(f)
      PROVE  DownloadsInv'
  <2>1. UNCHANGED <<pc, futures, next, took, buffer, out>>
    BY <1>2 DEF Pause, Resume
  <2> QED BY <1>2, <2>1, AsideKeeps
<1>3. ASSUME NEW f \in Files, NEW b \in Blocks(f), Task(f, b)
      PROVE  DownloadsInv'
  <2>1. UNCHANGED <<pc, futures, next, took, buffer, out>>
    BY <1>3 DEF Task, StartBlock, BlockEnds
  <2> QED BY <1>3, <2>1, AsideKeeps
<1>4. ASSUME NEW f \in Files, Loop(f)
      PROVE  DownloadsInv'
  BY <1>4, BeginKeeps, StartBatchKeeps, TakeBlockKeeps, FailKeeps, ProceedKeeps, WriteBlockKeeps,
     EndDrainKeeps DEF Loop
<1>5. CASE UNCHANGED vars
  <2>1. TypeOK'
    BY <1>5 DEF vars, DownloadsInv, TypeOK, Blocks
  <2>2. \A g \in Files : Untouched(g)
    BY <1>5 DEF vars, Untouched
  <2> QED BY <2>1, <2>2, Stutters DEF DownloadsInv
<1> QED BY <1>1, <1>2, <1>3, <1>4, <1>5 DEF Next

LEMMA InvIsSound == DownloadsInv => DownloadIsSound
<1> SUFFICES ASSUME DownloadsInv PROVE DownloadIsSound
  OBVIOUS
<1>0. TypeOK /\ \A f \in Files : DownloadInv(f)
  BY DEF DownloadsInv
<1>1. OutputIsAPrefix
  BY <1>0 DEF DownloadInv, Prefix, OutputIsAPrefix
<1>2. WaitsForABlock
  BY <1>0 DEF DownloadInv, Awaits, WaitsForABlock
<1>3. NoBlockIsLost
  BY <1>0 DEF DownloadInv, AllKept, Started, Kept, Begun, NoBlockIsLost
<1>4. FlightIsBounded
  <2> SUFFICES ASSUME NEW f \in Files PROVE Cardinality(futures[f]) <= Width
    BY DEF FlightIsBounded
  <2>1. Cardinality(futures[f]) \in Nat /\ Width \in Nat
    BY <1>0, FileTypes, DownloadAssumption
  <2> QED BY <1>0, <2>1 DEF DownloadInv, FlightIsFull, InFlight
<1> QED BY <1>0, <1>1, <1>2, <1>3, <1>4 DEF DownloadIsSound

\* Whatever the order in which blocks arrive, whoever fails, and whenever the user
\* pauses: the output is a prefix of the file, the whole file when the download ends
\* well, no block is forgotten, and the loop has a block to wait for.
THEOREM DownloadsAreSound == Spec => []DownloadIsSound
<1>1. Spec => []DownloadsInv
  BY InitInv, NextInv, PTL DEF Spec
<1> QED BY <1>1, InvIsSound, PTL
=============================================================================
