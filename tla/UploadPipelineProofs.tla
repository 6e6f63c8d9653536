------------------------ MODULE UploadPipelineProofs ------------------------
(***************************************************************************)
(* Uploads, for any number of files and blocks, buffer and width: only a    *)
(* complete revision at rest is committed, memory is bounded, and what is   *)
(* committed stays.                                                         *)
(*                                                                         *)
(* The argument: of the blocks the producer made, the last are in its hand  *)
(* and in the channel, in order, and all the others are awaited or have a   *)
(* result, none in both (BlocksAreAccountedFor).  When the channel is       *)
(* closed and nothing is awaited, the results are all that was made, so a   *)
(* number of results as expected is the whole file.                         *)
(***************************************************************************)
EXTENDS UploadPipeline, FiniteSetTheorems, SequenceTheorems, WellFoundedInduction, TLAPS

Joined == {"commit", "sent", "done", "unknown", "refused"}
Written == {"write", "join"} \cup Joined

\* blocks the channel was given, and those the consumer took from it
Sent(f) == IF producer[f] = "send" THEN made[f] - 1 ELSE made[f]
Taken(f) == Sent(f) - Len(channel[f])

ProducerMakes(f) ==
    /\ made[f] <= actual[f]
    /\ producer[f] = "send" => made[f] >= 1
    /\ producer[f] = "off" => made[f] = 0 /\ channel[f] = <<>>
    /\ pc[f] \in {"new", "draft", "thumbnails"} => producer[f] = "off"

ChannelIsInOrder(f) ==
    pc[f] \in Written =>
      /\ Len(channel[f]) <= Buffer
      /\ Len(channel[f]) <= Sent(f)
      /\ \A i \in 1..Len(channel[f]) : channel[f][i] = Taken(f) + i

Results(f) == {results[f][i] : i \in 1..Len(results[f])}
BlocksAreAccountedFor(f) ==
    pc[f] \in Written =>
      /\ futures[f] \cup Results(f) = 1..Taken(f)
      /\ futures[f] \cap Results(f) = {}
      /\ Len(results[f]) + Cardinality(futures[f]) = Taken(f)
      /\ Cardinality(futures[f]) <= Width

TasksAreAwaited(f) ==
    pc[f] \in {"new", "draft", "thumbnails"} \cup Written =>
      /\ \A b \in Blocks(f) \ (futures[f] \cup Results(f)) : task[f][b] = "none"
      /\ \A b \in Results(f) : task[f][b] = "ready"

\* the loop is left when the channel is closed and nothing is awaited
LoopEnds(f) ==
    /\ pc[f] \in Written /\ closed[f] => Disconnected(f)
    /\ pc[f] \in {"join"} \cup Joined => closed[f] /\ futures[f] = {}
    /\ pc[f] \in Joined => producer[f] = "ended"
    /\ pc[f] \in {"new", "draft", "thumbnails"} => ~closed[f] /\ futures[f] = {} /\ results[f] = <<>>

DraftFollows(f) ==
    /\ pc[f] = "new" => draft[f] = "none"
    /\ pc[f] \in {"draft", "thumbnails", "write", "join", "commit", "sent", "cleanup"} =>
         draft[f] = "draft"
    /\ pc[f] = "failed" => draft[f] \in {"none", "deleted"}
    /\ pc[f] = "sent" => Len(results[f]) = Expected[f]
    /\ draft[f] = "committed" => /\ pc[f] \in {"done", "unknown"}
                                 /\ Len(results[f]) = Expected[f]
                                 /\ manifest[f] = [i \in 1..Expected[f] |-> i]

UploadInv(f) == /\ ProducerMakes(f) /\ ChannelIsInOrder(f) /\ BlocksAreAccountedFor(f)
                /\ TasksAreAwaited(f) /\ LoopEnds(f) /\ DraftFollows(f)

IInv == TypeOK /\ \A f \in Files : UploadInv(f)

-----------------------------------------------------------------------------
LEMMA LeastNumber ==
    ASSUME NEW T, T \subseteq Nat, T # {}
    PROVE  \E x \in T : \A y \in T : x <= y
<1>1. PICK x \in T : \A y \in T : ~(<<y, x>> \in OpToRel(<, Nat))
  BY WFMin, NatLessThanWellFounded
<1>2. \A y \in T : ~(y < x)
  BY <1>1 DEF OpToRel
<1>3. x \in Nat /\ \A y \in T : y \in Nat
  OBVIOUS
<1>4. \A y \in T : x <= y
  BY <1>2, <1>3
<1> QED BY <1>4

\* A strictly increasing sequence of n numbers of 1..n is 1..n in order.
LEMMA IncreasingIsIdentity ==
    ASSUME NEW n \in Nat, NEW s \in [1..n -> 1..n],
           \A i, j \in 1..n : i < j => s[i] < s[j]
    PROVE  s = [i \in 1..n |-> i]
<1>1. \A i \in 1..n : i <= s[i]
  <2> DEFINE Low == {i \in 1..n : s[i] < i}
  <2>1. CASE Low = {}
    BY <2>1
  <2>2. CASE Low # {}
    <3>1. PICK i \in Low : \A j \in Low : i <= j
      <4>1. Low \subseteq Nat
        OBVIOUS
      <4> HIDE DEF Low
      <4> QED BY <2>2, <4>1, LeastNumber
    <3>2. i > 1 /\ i - 1 \in 1..n /\ i - 1 \notin Low
      BY <3>1
    <3>3. s[i - 1] < s[i] /\ i - 1 <= s[i - 1]
      BY <3>1, <3>2
    <3> QED BY <3>1, <3>2, <3>3
  <2> QED BY <2>1, <2>2
<1>2. \A i \in 1..n : s[i] <= i
  <2> DEFINE High == {k \in 0..n : \E i \in 1..n : k = n - i /\ s[i] > i}
  <2>0. \A i \in 1..n : s[i] > i => n - i \in High
    OBVIOUS
  <2>t. \A i \in 1..n : s[i] \in Nat
    OBVIOUS
  <2>1. CASE High = {}
    <3> HIDE DEF High
    <3> QED BY <2>0, <2>1, <2>t
  <2>2. CASE High # {}
    <3>1. PICK k \in High : \A j \in High : k <= j
      <4>1. High \subseteq Nat
        OBVIOUS
      <4> HIDE DEF High
      <4> QED BY <2>2, <4>1, LeastNumber
    <3>2. PICK i \in 1..n : k = n - i /\ s[i] > i
      BY <3>1
    <3>3. i < n /\ i + 1 \in 1..n
      BY <3>2
    <3>4. s[i + 1] > i + 1
      BY <3>2, <3>3
    <3>5. n - (i + 1) \in High
      BY <3>3, <3>4
    <3>6. k <= n - (i + 1)
      BY <3>1, <3>5
    <3> QED BY <3>2, <3>3, <3>6
  <2> QED BY <2>1, <2>2
<1> QED BY <1>1, <1>2

LEMMA SortedIsIdentity ==
    ASSUME NEW n \in Nat
    PROVE  Sorted(1..n) = [i \in 1..n |-> i]
<1>1. Cardinality(1..n) = n
  BY FS_Interval
<1> DEFINE Increasing(s) == \A i, j \in 1..n : i < j => s[i] < s[j]
<1>2. /\ [i \in 1..n |-> i] \in [1..n -> 1..n]
      /\ Increasing([i \in 1..n |-> i])
  OBVIOUS
<1>3. Sorted(1..n) \in [1..n -> 1..n] /\ Increasing(Sorted(1..n))
  BY <1>1, <1>2 DEF Sorted
<1> QED BY <1>3, IncreasingIsIdentity

-----------------------------------------------------------------------------
\* The types of what belongs to one upload.
LEMMA FileTypes ==
    ASSUME TypeOK, NEW f \in Files
    PROVE  /\ made[f] \in Nat /\ actual[f] \in 0..MaxBlocks[f] /\ made[f] <= MaxBlocks[f]
           /\ MaxBlocks[f] \in Nat /\ Expected[f] \in Nat
           /\ channel[f] \in Seq(Nat) /\ Len(channel[f]) \in Nat
           /\ results[f] \in Seq(Nat) /\ Len(results[f]) \in Nat
           /\ Results(f) \subseteq Blocks(f) /\ Results(f) = ToSet(results[f])
           /\ IsFiniteSet(futures[f]) /\ Cardinality(futures[f]) \in Nat
           /\ futures[f] \subseteq Nat
<1>1. made[f] \in 0..MaxBlocks[f] /\ actual[f] \in 0..MaxBlocks[f]
  BY DEF TypeOK, BlockCounts
<1>2. MaxBlocks[f] \in Nat /\ Expected[f] \in Nat
  BY UploadAssumption
<1>3. channel[f] \in Seq(Blocks(f)) /\ results[f] \in Seq(Blocks(f))
  BY DEF TypeOK
<1>4. futures[f] \subseteq Blocks(f)
  BY DEF TypeOK
<1>5. Blocks(f) \subseteq Nat /\ IsFiniteSet(Blocks(f))
  <2>1. IsFiniteSet(1..MaxBlocks[f])
    <3>1. 1 \in Int /\ MaxBlocks[f] \in Int
      BY <1>2
    <3> QED BY <3>1, FS_Interval
  <2> QED BY <1>2, <2>1 DEF Blocks
<1>6. IsFiniteSet(futures[f]) /\ Cardinality(futures[f]) \in Nat
  BY <1>4, <1>5, FS_Subset, FS_CardinalityType
<1>7. Results(f) \subseteq Blocks(f) /\ Results(f) = ToSet(results[f])
  BY <1>3 DEF Results, ToSet
<1>8. channel[f] \in Seq(Nat) /\ results[f] \in Seq(Nat)
  BY <1>3, <1>5
<1> QED BY SMTT(30), <1>1, <1>2, <1>4, <1>5, <1>6, <1>7, <1>8

LEMMA CountsChange ==
    ASSUME NEW n \in BlockCounts, NEW f \in Files, NEW k \in 0..MaxBlocks[f]
    PROVE  [n EXCEPT ![f] = k] \in BlockCounts
BY DEF BlockCounts

\* A step of one upload leaves the invariants of the others alone.
Untouched(g) ==
    /\ pc'[g] = pc[g] /\ draft'[g] = draft[g] /\ manifest'[g] = manifest[g]
    /\ actual'[g] = actual[g] /\ producer'[g] = producer[g] /\ made'[g] = made[g]
    /\ channel'[g] = channel[g] /\ closed'[g] = closed[g] /\ task'[g] = task[g]
    /\ futures'[g] = futures[g] /\ results'[g] = results[g]

LEMMA OthersKeep ==
    ASSUME IInv, TypeOK', NEW f \in Files, UploadInv(f)',
           \A g \in Files \ {f} : Untouched(g)
    PROVE  IInv'
<1> SUFFICES ASSUME NEW g \in Files \ {f} PROVE UploadInv(g)'
  BY DEF IInv
<1> USE DEF Untouched
<1>1. UploadInv(g)
  BY DEF IInv
<1>2. ProducerMakes(g)'
  BY <1>1 DEF UploadInv, ProducerMakes
<1>3. ChannelIsInOrder(g)'
  BY <1>1 DEF UploadInv, ChannelIsInOrder, Taken, Sent
<1>4. BlocksAreAccountedFor(g)'
  BY SMTT(30), <1>1 DEF UploadInv, BlocksAreAccountedFor, Taken, Sent, Results
<1>5. TasksAreAwaited(g)'
  BY <1>1 DEF UploadInv, TasksAreAwaited, Results, Blocks
<1>6. LoopEnds(g)'
  BY <1>1 DEF UploadInv, LoopEnds, Disconnected
<1>7. DraftFollows(g)'
  BY <1>1 DEF UploadInv, DraftFollows
<1> QED BY <1>2, <1>3, <1>4, <1>5, <1>6, <1>7 DEF UploadInv

\* upload_from_stream_inner up to the start of the producer.
LEMMA PrepareKeeps ==
    ASSUME IInv, NEW f \in Files, GetDraft(f) \/ OpenForWriting(f) \/ UploadThumbnails(f)
    PROVE  IInv'
<1>0. TypeOK /\ UploadInv(f)
  BY DEF IInv
<1>1. /\ UNCHANGED <<manifest, actual, made, channel, consumer, closed, futures, results, task, control>>
      /\ \/ /\ pc[f] = "new" /\ pc'[f] \in {"draft", "nodraft"} /\ draft'[f] = "draft"
            /\ producer'[f] = producer[f]
         \/ /\ pc[f] = "new" /\ pc'[f] = "failed" /\ draft'[f] = draft[f]
            /\ producer'[f] = producer[f]
         \/ /\ pc[f] = "draft" /\ pc'[f] = "thumbnails" /\ draft'[f] = draft[f]
            /\ producer'[f] = producer[f]
         \/ /\ pc[f] = "thumbnails" /\ pc'[f] = "write" /\ draft'[f] = draft[f]
            /\ producer'[f] = "read"
         \/ /\ pc[f] = "thumbnails" /\ pc'[f] = "cleanup" /\ draft'[f] = draft[f]
            /\ producer'[f] = producer[f]
  BY <1>0 DEF TypeOK, GetDraft, OpenForWriting, UploadThumbnails, server, stream, loop
<1>2. \A g \in Files \ {f} : Untouched(g)
  BY <1>0 DEF TypeOK, Untouched, GetDraft, OpenForWriting, UploadThumbnails, server, stream, loop
<1>3. TypeOK'
  <2>1. pc' \in [Files -> Stages]
    <3>1. \E s \in {"draft", "nodraft", "failed", "thumbnails", "write", "cleanup"} :
              pc' = [pc EXCEPT ![f] = s]
      BY DEF GetDraft, OpenForWriting, UploadThumbnails
    <3>2. {"draft", "nodraft", "failed", "thumbnails", "write", "cleanup"} \subseteq Stages
      BY DEF Stages, Ended
    <3> QED BY <1>0, <3>1, <3>2 DEF TypeOK
  <2>2. draft' \in [Files -> {"none", "draft", "committed", "deleted"}]
    BY <1>0 DEF TypeOK, GetDraft, OpenForWriting, UploadThumbnails, server
  <2>3. producer' \in [Files -> {"off", "read", "send", "ended", "broken"}]
    BY ZenonT(60), <1>0 DEF TypeOK, GetDraft, OpenForWriting, UploadThumbnails, stream
  <2> QED BY ZenonT(60), <1>0, <1>1, <2>1, <2>2, <2>3 DEF TypeOK, Blocks
<1>4. ProducerMakes(f)'
  BY <1>0, <1>1 DEF UploadInv, ProducerMakes
<1>5. ChannelIsInOrder(f)' /\ BlocksAreAccountedFor(f)'
  <2>1. CASE pc[f] = "thumbnails" /\ pc'[f] = "write" /\ producer'[f] = "read"
    <3>1. /\ made'[f] = 0 /\ channel'[f] = <<>> /\ futures'[f] = {} /\ results'[f] = <<>>
      BY <1>0, <1>1, <2>1 DEF UploadInv, ProducerMakes, LoopEnds
    <3>2. Taken(f)' = 0 /\ Sent(f)' = 0 /\ Results(f)' = {}
      <4>1. 1..Len(results'[f]) = {} /\ Len(channel'[f]) = 0
        BY <3>1
      <4>2. Results(f)' = {}
        BY <4>1 DEF Results
      <4>3. Sent(f)' = 0
        BY <2>1, <3>1 DEF Sent
      <4>4. Taken(f)' = 0 - 0
        BY <4>1, <4>3 DEF Taken
      <4> QED BY <4>2, <4>3, <4>4
    <3>3. Cardinality(futures'[f]) = 0
      BY <3>1, FS_EmptySet
    <3> QED BY <3>1, <3>2, <3>3, UploadAssumption DEF ChannelIsInOrder, BlocksAreAccountedFor
  <2>2. CASE pc'[f] \notin Written
    BY <2>2 DEF ChannelIsInOrder, BlocksAreAccountedFor
  <2> QED BY <1>1, <2>1, <2>2 DEF Written, Joined
<1>6. TasksAreAwaited(f)'
  BY <1>0, <1>1 DEF UploadInv, TasksAreAwaited, Results, Blocks, Written, Joined
<1>7. LoopEnds(f)'
  BY <1>0, <1>1 DEF UploadInv, LoopEnds, Written, Joined
<1>8. DraftFollows(f)'
  BY <1>0, <1>1 DEF UploadInv, DraftFollows
<1> QED BY <1>2, <1>3, <1>4, <1>5, <1>6, <1>7, <1>8, OthersKeep DEF UploadInv

\* AllDone, Join and Commit: the loop is over, and the size is as expected.
LEMMA CompleteKeeps ==
    ASSUME IInv, NEW f \in Files, AllDone(f) \/ Join(f) \/ Commit(f) \/ Cleanup(f)
    PROVE  IInv'
<1>0. TypeOK /\ UploadInv(f)
  BY DEF IInv
<1>1. /\ UNCHANGED <<manifest, actual, producer, made, channel, consumer, closed, futures,
                     results, task, control>>
      /\ \/ /\ pc[f] = "write" /\ pc'[f] = "join" /\ draft'[f] = draft[f]
            /\ futures[f] = {} /\ closed[f]
         \/ /\ pc[f] = "join" /\ pc'[f] = "commit" /\ draft'[f] = draft[f]
            /\ producer[f] = "ended"
         \/ /\ pc[f] = "join" /\ pc'[f] = "cleanup" /\ draft'[f] = draft[f]
         \/ /\ pc[f] = "commit" /\ pc'[f] = "sent" /\ draft'[f] = draft[f]
            /\ Len(results[f]) = Expected[f]
         \/ /\ pc[f] = "commit" /\ pc'[f] = "refused" /\ draft'[f] = draft[f]
         \/ /\ pc[f] = "cleanup" /\ pc'[f] = "failed" /\ draft'[f] = "deleted"
         \/ /\ pc[f] = "cleanup" /\ pc'[f] = "left" /\ draft'[f] = draft[f]
  BY <1>0 DEF TypeOK, AllDone, Join, Commit, Cleanup, server, stream, loop
<1>2. \A g \in Files \ {f} : Untouched(g)
  BY <1>0 DEF TypeOK, Untouched, AllDone, Join, Commit, Cleanup, server, stream, loop
<1>3. TypeOK'
  <2>1. pc' \in [Files -> Stages]
    <3>1. \E s \in {"join", "commit", "cleanup", "sent", "refused", "failed", "left"} :
              pc' = [pc EXCEPT ![f] = s]
      BY DEF AllDone, Join, Commit, Cleanup
    <3>2. {"join", "commit", "cleanup", "sent", "refused", "failed", "left"} \subseteq Stages
      BY DEF Stages, Ended
    <3> QED BY <1>0, <3>1, <3>2 DEF TypeOK
  <2>2. draft' \in [Files -> {"none", "draft", "committed", "deleted"}]
    BY <1>0 DEF TypeOK, AllDone, Join, Commit, Cleanup, server
  <2> QED BY <1>0, <1>1, <2>1, <2>2 DEF TypeOK, Blocks
<1>4. ProducerMakes(f)'
  BY <1>0, <1>1 DEF UploadInv, ProducerMakes
<1>5. pc'[f] \in Written => pc[f] \in Written
  BY <1>1 DEF Written, Joined
<1>6. ChannelIsInOrder(f)' /\ BlocksAreAccountedFor(f)'
  BY <1>0, <1>1, <1>5 DEF UploadInv, ChannelIsInOrder, BlocksAreAccountedFor, Taken, Sent, Results
<1>7. TasksAreAwaited(f)'
  BY <1>0, <1>1, <1>5 DEF UploadInv, TasksAreAwaited, Results, Blocks
<1>8. LoopEnds(f)'
  BY <1>0, <1>1 DEF UploadInv, LoopEnds, Disconnected, Written, Joined
<1>9. DraftFollows(f)'
  BY <1>0, <1>1 DEF UploadInv, DraftFollows
<1> QED BY <1>2, <1>3, <1>4, <1>6, <1>7, <1>8, <1>9, OthersKeep DEF UploadInv

\* At the commit, the results are all that was made.
LEMMA ResultsAreAll ==
    ASSUME TypeOK, NEW f \in Files, UploadInv(f), pc[f] \in Joined
    PROVE  /\ producer[f] = "ended" /\ channel[f] = <<>> /\ futures[f] = {}
           /\ Results(f) = 1..made[f] /\ Len(results[f]) = made[f]
<1>1. /\ producer[f] = "ended" /\ channel[f] = <<>> /\ futures[f] = {} /\ pc[f] \in Written
  BY DEF UploadInv, LoopEnds, Disconnected, Written
<1>2. Taken(f) = made[f]
  BY <1>1, FileTypes DEF Taken, Sent
<1>3. Cardinality({}) = 0
  BY FS_EmptySet
<1> QED BY <1>1, <1>2, <1>3, FileTypes DEF UploadInv, BlocksAreAccountedFor

LEMMA CommitReplyKeeps ==
    ASSUME IInv, NEW f \in Files, CommitReply(f)
    PROVE  IInv'
<1>0. TypeOK /\ UploadInv(f)
  BY DEF IInv
<1>1. /\ UNCHANGED <<actual, producer, made, channel, consumer, closed, futures,
                     results, task, control>>
      /\ pc[f] = "sent"
      /\ \/ /\ pc'[f] \in {"done", "unknown"} /\ draft'[f] = "committed"
            /\ manifest'[f] = Sorted(ToSet(results[f]))
         \/ /\ pc'[f] = "unknown" /\ draft'[f] = draft[f] /\ manifest'[f] = manifest[f]
  BY ZenonT(60), <1>0 DEF TypeOK, CommitReply, server, stream, loop
<1>2. \A g \in Files \ {f} : Untouched(g)
  <2>1. /\ \E s \in {"done", "unknown"} : pc' = [pc EXCEPT ![f] = s]
        /\ UNCHANGED draft \/ draft' = [draft EXCEPT ![f] = "committed"]
        /\ \/ UNCHANGED manifest
           \/ manifest' = [manifest EXCEPT ![f] = Sorted(ToSet(results[f]))]
    BY DEF CommitReply, server
  <2>2. \A g \in Files \ {f} : pc'[g] = pc[g]
    BY <1>0, <2>1 DEF TypeOK
  <2>3. \A g \in Files \ {f} : draft'[g] = draft[g]
    BY <1>0, <2>1 DEF TypeOK
  <2>4. \A g \in Files \ {f} : manifest'[g] = manifest[g]
    BY <1>0, <2>1 DEF TypeOK
  <2> QED BY <1>1, <2>2, <2>3, <2>4 DEF Untouched
<1>3. ToSet(results[f]) = 1..Expected[f] /\ Expected[f] \in 0..MaxBlocks[f]
  <2>1. Results(f) = 1..made[f] /\ Len(results[f]) = made[f]
    BY <1>0, <1>1, ResultsAreAll DEF Joined
  <2>2. Len(results[f]) = Expected[f]
    BY <1>0, <1>1 DEF UploadInv, DraftFollows
  <2>3. made[f] \in Nat /\ made[f] <= MaxBlocks[f] /\ MaxBlocks[f] \in Nat
        /\ Results(f) = ToSet(results[f])
    BY <1>0, FileTypes
  <2> QED BY <2>1, <2>2, <2>3
<1>4. Sorted(ToSet(results[f])) = [i \in 1..Expected[f] |-> i]
  BY <1>3, SortedIsIdentity
<1>5. TypeOK'
  <2>1. pc' \in [Files -> Stages]
    <3>1. \E s \in {"done", "unknown"} : pc' = [pc EXCEPT ![f] = s]
      BY DEF CommitReply
    <3>2. {"done", "unknown"} \subseteq Stages
      BY DEF Stages, Ended
    <3> QED BY <1>0, <3>1, <3>2 DEF TypeOK
  <2>2. draft' \in [Files -> {"none", "draft", "committed", "deleted"}]
    BY ZenonT(60), <1>0 DEF TypeOK, CommitReply, server
  <2>3. Files = DOMAIN manifest'
    BY <1>0 DEF TypeOK, CommitReply, server
  <2>4. [i \in 1..Expected[f] |-> i] \in Seq(Blocks(f))
    <3>1. [i \in 1..Expected[f] |-> i] \in [1..Expected[f] -> Blocks(f)] /\ Expected[f] \in Nat
      BY <1>0, <1>3, FileTypes DEF Blocks
    <3> QED BY <3>1, SeqDef
  <2>5. \A g \in Files : manifest'[g] \in Seq(Blocks(g))
    <3>1. manifest'[f] \in Seq(Blocks(f))
      BY <1>0, <1>1, <1>4, <2>4 DEF TypeOK
    <3>2. \A g \in Files \ {f} : manifest'[g] \in Seq(Blocks(g))
      BY <1>0, <1>2 DEF TypeOK, Untouched
    <3> QED BY <3>1, <3>2
  <2>6. \A g \in Files : {manifest'[g], channel[g], results[g]} \subseteq Seq(Blocks(g))
    BY <1>0, <2>5 DEF TypeOK
  <2> QED BY <1>0, <1>1, <2>1, <2>2, <2>3, <2>6 DEF TypeOK, Blocks
<1>6. ProducerMakes(f)'
  BY <1>0, <1>1 DEF UploadInv, ProducerMakes
<1>7. ChannelIsInOrder(f)' /\ BlocksAreAccountedFor(f)'
  BY <1>0, <1>1 DEF UploadInv, ChannelIsInOrder, BlocksAreAccountedFor, Taken, Sent, Results,
                    Written, Joined
<1>8. TasksAreAwaited(f)'
  BY <1>0, <1>1 DEF UploadInv, TasksAreAwaited, Results, Blocks, Written, Joined
<1>9. LoopEnds(f)'
  BY <1>0, <1>1 DEF UploadInv, LoopEnds, Disconnected, Written, Joined
<1>10. DraftFollows(f)'
  BY <1>0, <1>1, <1>4 DEF UploadInv, DraftFollows
<1> QED BY <1>2, <1>5, <1>6, <1>7, <1>8, <1>9, <1>10, OthersKeep DEF UploadInv

\* The producer reads a block, or ends: what it made and did not send grows.
LEMMA ProduceKeeps ==
    ASSUME IInv, NEW f \in Files, Produce(f) \/ ProduceFails(f)
    PROVE  IInv'
<1>0. TypeOK /\ UploadInv(f)
  BY DEF IInv
<1>t. made[f] \in Nat /\ actual[f] \in 0..MaxBlocks[f] /\ Len(channel[f]) \in Nat
  BY <1>0, FileTypes
<1>1. /\ UNCHANGED <<pc, draft, manifest, actual, channel, consumer, closed, futures,
                     results, task, control>>
      /\ producer[f] = "read"
      /\ \/ /\ producer'[f] = "send" /\ made[f] < actual[f] /\ made'[f] = made[f] + 1
         \/ /\ producer'[f] \in {"ended", "broken"} /\ made'[f] = made[f]
  <2>1. CASE Produce(f) /\ made[f] < actual[f]
    BY <1>0, <2>1 DEF TypeOK, BlockCounts, Produce, server, loop
  <2>2. CASE Produce(f) /\ ~(made[f] < actual[f])
    BY <1>0, <2>2 DEF TypeOK, Produce, server, loop
  <2>3. CASE ProduceFails(f)
    BY <1>0, <2>3 DEF TypeOK, ProduceFails, server, loop
  <2> QED BY <2>1, <2>2, <2>3
<1>2. \A g \in Files \ {f} : Untouched(g)
  <2>1. /\ \E s \in {"send", "ended", "broken"} : producer' = [producer EXCEPT ![f] = s]
        /\ UNCHANGED made \/ made' = [made EXCEPT ![f] = @ + 1]
    BY DEF Produce, ProduceFails
  <2>2. \A g \in Files \ {f} : producer'[g] = producer[g] /\ made'[g] = made[g]
    BY ZenonT(60), <1>0, <2>1 DEF TypeOK, BlockCounts
  <2> QED BY <1>1, <2>2 DEF Untouched
<1>3. TypeOK'
  <2>1. producer' \in [Files -> {"off", "read", "send", "ended", "broken"}]
    <3>1. \E s \in {"send", "ended", "broken"} : producer' = [producer EXCEPT ![f] = s]
      BY DEF Produce, ProduceFails
    <3> QED BY <1>0, <3>1 DEF TypeOK
  <2>2. made' \in BlockCounts
    <3>1. \/ made' = made
          \/ made' = [made EXCEPT ![f] = made[f] + 1] /\ made[f] < actual[f]
      BY DEF Produce, ProduceFails
    <3>2. made[f] < actual[f] => made[f] + 1 \in 0..MaxBlocks[f]
      BY <1>t, UploadAssumption
    <3> QED BY <1>0, <3>1, <3>2, CountsChange DEF TypeOK
  <2> QED BY <1>0, <1>1, <2>1, <2>2 DEF TypeOK, Blocks
<1>4. ProducerMakes(f)'
  BY <1>0, <1>1, <1>t DEF UploadInv, ProducerMakes
<1>5. Sent(f)' = Sent(f) /\ Taken(f)' = Taken(f)
  BY <1>1, <1>t DEF Sent, Taken
<1>6. ChannelIsInOrder(f)' /\ BlocksAreAccountedFor(f)'
  BY SMTT(30), <1>0, <1>1, <1>5 DEF UploadInv, ChannelIsInOrder, BlocksAreAccountedFor, Results
<1>7. TasksAreAwaited(f)'
  BY <1>0, <1>1 DEF UploadInv, TasksAreAwaited, Results, Blocks
<1>8. LoopEnds(f)'
  BY <1>0, <1>1 DEF UploadInv, LoopEnds, Disconnected, Written
<1>9. DraftFollows(f)'
  BY <1>0, <1>1 DEF UploadInv, DraftFollows
<1> QED BY <1>2, <1>3, <1>4, <1>6, <1>7, <1>8, <1>9, OthersKeep DEF UploadInv

\* The block goes to the end of the channel.
LEMMA SendKeeps ==
    ASSUME IInv, NEW f \in Files, Send(f)
    PROVE  IInv'
<1>0. TypeOK /\ UploadInv(f)
  BY DEF IInv
<1>t. /\ made[f] \in Nat /\ made[f] <= MaxBlocks[f] /\ MaxBlocks[f] \in Nat
      /\ channel[f] \in Seq(Nat) /\ Len(channel[f]) \in Nat
      /\ channel[f] \in Seq(Blocks(f))
  BY <1>0, FileTypes DEF TypeOK
<1>1. /\ UNCHANGED <<pc, draft, manifest, actual, made, consumer, closed, futures,
                     results, task, control>>
      /\ producer[f] = "send"
      /\ \/ /\ producer'[f] = "read" /\ pc[f] = "write" /\ Len(channel[f]) < Buffer
            /\ channel'[f] = Append(channel[f], made[f])
         \/ /\ producer'[f] = "broken" /\ pc[f] # "write" /\ channel'[f] = channel[f]
  BY ZenonT(60), <1>0 DEF TypeOK, Send, server, stream, loop
<1>2. \A g \in Files \ {f} : Untouched(g)
  <2>1. /\ \E s \in {"read", "broken"} : producer' = [producer EXCEPT ![f] = s]
        /\ UNCHANGED channel \/ channel' = [channel EXCEPT ![f] = Append(@, made[f])]
    BY DEF Send
  <2>2. \A g \in Files \ {f} : producer'[g] = producer[g] /\ channel'[g] = channel[g]
    BY ZenonT(60), <1>0, <2>1 DEF TypeOK
  <2> QED BY <1>1, <2>2 DEF Untouched
<1>3. made[f] >= 1 /\ made[f] \in Blocks(f)
  BY <1>0, <1>1, <1>t DEF UploadInv, ProducerMakes, Blocks
<1>4. TypeOK'
  <2>1. producer' \in [Files -> {"off", "read", "send", "ended", "broken"}]
    <3>1. \E s \in {"read", "broken"} : producer' = [producer EXCEPT ![f] = s]
      BY DEF Send
    <3> QED BY <1>0, <3>1 DEF TypeOK
  <2>2. Files = DOMAIN channel'
    BY <1>0 DEF TypeOK, Send
  <2>3. channel'[f] \in Seq(Blocks(f))
    <3>1. Append(channel[f], made[f]) \in Seq(Blocks(f))
      BY <1>3, <1>t
    <3> QED BY <1>1, <1>t, <3>1
  <2>4. \A g \in Files : {manifest[g], channel'[g], results[g]} \subseteq Seq(Blocks(g))
    <3>1. \A g \in Files \ {f} : channel'[g] \in Seq(Blocks(g))
      BY <1>0, <1>2 DEF TypeOK, Untouched
    <3> QED BY <1>0, <2>3, <3>1 DEF TypeOK
  <2> QED BY <1>0, <1>1, <2>1, <2>2, <2>4 DEF TypeOK, Blocks
<1>5. pc[f] \in Written => pc[f] = "write"
  BY <1>0, <1>1 DEF UploadInv, LoopEnds, Disconnected, Written
<1>6. ProducerMakes(f)'
  BY <1>0, <1>1, <1>3 DEF UploadInv, ProducerMakes
<1>7. ASSUME pc[f] = "write"
      PROVE  ChannelIsInOrder(f)' /\ BlocksAreAccountedFor(f)'
  <2>1. /\ channel'[f] = Append(channel[f], made[f]) /\ Len(channel'[f]) = Len(channel[f]) + 1
        /\ \A i \in 1..Len(channel[f]) : channel'[f][i] = channel[f][i]
        /\ channel'[f][Len(channel[f]) + 1] = made[f]
    BY SMTT(30), <1>1, <1>7, <1>t
  <2>2. Sent(f) = made[f] - 1 /\ Sent(f)' = made[f]
    BY <1>1, <1>7 DEF Sent
  <2>3. Taken(f)' = Taken(f) /\ Taken(f) = made[f] - 1 - Len(channel[f])
    BY SMTT(30), <1>t, <2>1, <2>2 DEF Taken
  <2>4. ChannelIsInOrder(f)
    BY <1>0 DEF UploadInv
  <2>5. ChannelIsInOrder(f)'
    <3>1. \A i \in 1..Len(channel[f]) : channel'[f][i] = Taken(f) + i
      BY <1>7, <2>1, <2>4 DEF ChannelIsInOrder, Written
    <3>2. channel'[f][Len(channel[f]) + 1] = Taken(f) + (Len(channel[f]) + 1)
      <4>1. made[f] = Taken(f) + (Len(channel[f]) + 1)
        <5>1. made[f] \in Int /\ Len(channel[f]) \in Int
          BY <1>t
        <5> QED BY <2>3, <5>1
      <4> QED BY <2>1, <4>1
    <3>3. \A i \in 1..Len(channel'[f]) : channel'[f][i] = Taken(f)' + i
      <4>1. 1..Len(channel'[f]) = 1..Len(channel[f]) \cup {Len(channel[f]) + 1}
        <5>1. \A n \in Nat : 1..(n + 1) = 1..n \cup {n + 1}
          OBVIOUS
        <5> QED BY <1>t, <2>1, <5>1
      <4>2. Taken(f)' = Taken(f)
        BY <2>3
      <4> QED BY <3>1, <3>2, <4>1, <4>2
    <3>4. Len(channel'[f]) <= Buffer /\ Len(channel'[f]) <= Sent(f)'
      BY <1>1, <1>7, <1>t, <2>1, <2>2, <2>4, UploadAssumption DEF ChannelIsInOrder, Written
    <3> QED BY <3>3, <3>4 DEF ChannelIsInOrder
  <2>6. BlocksAreAccountedFor(f)'
    BY <1>0, <1>1, <2>3 DEF UploadInv, BlocksAreAccountedFor, Results
  <2> QED BY <2>5, <2>6
<1>8. ASSUME pc[f] # "write"
      PROVE  ChannelIsInOrder(f)' /\ BlocksAreAccountedFor(f)'
  BY <1>1, <1>5, <1>8 DEF ChannelIsInOrder, BlocksAreAccountedFor
<1>9. TasksAreAwaited(f)'
  BY <1>0, <1>1 DEF UploadInv, TasksAreAwaited, Results, Blocks
<1>10. LoopEnds(f)'
  BY <1>0, <1>1, <1>5 DEF UploadInv, LoopEnds, Disconnected, Written
<1>11. DraftFollows(f)'
  BY <1>0, <1>1 DEF UploadInv, DraftFollows
<1>12. ChannelIsInOrder(f)' /\ BlocksAreAccountedFor(f)'
  BY <1>7, <1>8
<1> QED BY <1>2, <1>4, <1>6, <1>9, <1>10, <1>11, <1>12, OthersKeep DEF UploadInv

\* The consumer takes the first block of the channel and starts its upload.
LEMMA SpawnKeeps ==
    ASSUME IInv, NEW f \in Files, pc[f] = "write", HasCapacity(f), Spawn(f),
           consumer' \in [Files -> {"fill", "select"}],
           UNCHANGED <<pc, draft, manifest, actual, producer, made, closed, results, control>>
    PROVE  IInv'
<1>0. TypeOK /\ UploadInv(f)
  BY DEF IInv
<1> DEFINE b == Head(channel[f])
           n == Len(channel[f])
<1>t. /\ made[f] \in Nat /\ n \in Nat /\ MaxBlocks[f] \in Nat
      /\ channel[f] \in Seq(Nat) /\ channel[f] \in Seq(Blocks(f))
      /\ Len(results[f]) \in Nat /\ IsFiniteSet(futures[f]) /\ Cardinality(futures[f]) \in Nat
      /\ futures[f] \subseteq Blocks(f) /\ Results(f) \subseteq Blocks(f)
      /\ task[f] \in [Blocks(f) -> {"none", "queued", "running", "ready", "error"}]
  BY <1>0, FileTypes DEF TypeOK
<1>1. /\ channel[f] # <<>>
      /\ channel'[f] = Tail(channel[f]) /\ futures'[f] = futures[f] \cup {b}
      /\ task'[f] = [task[f] EXCEPT ![b] = "queued"]
      /\ \A g \in Files \ {f} : channel'[g] = channel[g] /\ futures'[g] = futures[g]
                              /\ task'[g] = task[g]
      /\ Files = DOMAIN channel' /\ Files = DOMAIN futures' /\ Files = DOMAIN task'
  BY <1>0 DEF TypeOK, Spawn
<1>2. n >= 1 /\ b = channel[f][1] /\ b \in Blocks(f)
  BY <1>1, <1>t
<1>3. /\ channel'[f] \in Seq(Blocks(f)) /\ Len(channel'[f]) = n - 1
      /\ \A i \in 1..(n - 1) : channel'[f][i] = channel[f][i + 1]
  BY <1>1, <1>t
<1>4. /\ n <= Sent(f) /\ Sent(f) \in Int /\ n <= Buffer
      /\ \A i \in 1..n : channel[f][i] = Taken(f) + i
      /\ Taken(f) \in Nat
  <2>1. Sent(f) \in Int
    BY <1>t DEF Sent
  <2>2. /\ n <= Sent(f) /\ n <= Buffer
        /\ \A i \in 1..n : channel[f][i] = Taken(f) + i
    BY <1>0 DEF UploadInv, ChannelIsInOrder, Written
  <2>3. Taken(f) \in Nat
    BY <1>t, <2>1, <2>2 DEF Taken
  <2> QED BY <2>1, <2>2, <2>3
<1>5. b = Taken(f) + 1 /\ Sent(f)' = Sent(f) /\ Taken(f)' = Taken(f) + 1
  <2>1. b = Taken(f) + 1
    BY <1>2, <1>4
  <2>2. Sent(f)' = Sent(f)
    BY DEF Sent
  <2>3. Taken(f)' = Sent(f) - (n - 1)
    BY <1>3, <2>2 DEF Taken
  <2>4. Taken(f)' = Taken(f) + 1
    BY <1>4, <1>t, <2>3 DEF Taken
  <2> QED BY <2>1, <2>2, <2>4
<1>6. /\ futures[f] \cup Results(f) = 1..Taken(f) /\ futures[f] \cap Results(f) = {}
      /\ Len(results[f]) + Cardinality(futures[f]) = Taken(f)
  BY <1>0 DEF UploadInv, BlocksAreAccountedFor, Written
<1>7. b \notin futures[f] /\ b \notin Results(f)
  BY <1>4, <1>5, <1>6
<1>8. Cardinality(futures'[f]) = Cardinality(futures[f]) + 1
  <2>1. Cardinality(futures[f] \cup {b}) = Cardinality(futures[f]) + 1
    BY <1>7, <1>t, FS_AddElement
  <2> QED BY <1>1, <2>1
<1>9. Results(f)' = Results(f)
  BY DEF Results
<1>10. TypeOK'
  <2>1. \A g \in Files :
          /\ task'[g] \in [Blocks(g) -> {"none", "queued", "running", "ready", "error"}]
          /\ futures'[g] \subseteq Blocks(g)
          /\ {manifest[g], channel'[g], results[g]} \subseteq Seq(Blocks(g))
    <3>1. /\ task'[f] \in [Blocks(f) -> {"none", "queued", "running", "ready", "error"}]
          /\ futures'[f] \subseteq Blocks(f)
      BY <1>1, <1>2, <1>t
    <3>2. {manifest[f], channel'[f], results[f]} \subseteq Seq(Blocks(f))
      BY <1>0, <1>3 DEF TypeOK
    <3>3. ASSUME NEW g \in Files \ {f}
          PROVE  /\ task'[g] \in [Blocks(g) -> {"none", "queued", "running", "ready", "error"}]
                 /\ futures'[g] \subseteq Blocks(g)
                 /\ {manifest[g], channel'[g], results[g]} \subseteq Seq(Blocks(g))
      BY SMTT(30), <1>0, <1>1 DEF TypeOK
    <3> QED BY <3>1, <3>2, <3>3
  <2> QED BY <1>0, <1>1, <2>1 DEF TypeOK, Blocks
<1>11. \A g \in Files \ {f} : Untouched(g)
  BY <1>1 DEF Untouched
<1>12. ProducerMakes(f)'
  BY <1>0, <1>1 DEF UploadInv, ProducerMakes
<1>13. ChannelIsInOrder(f)'
  <2>1. \A i \in 1..(n - 1) : channel'[f][i] = Taken(f) + 1 + i
    <3> SUFFICES ASSUME NEW i \in 1..(n - 1) PROVE channel'[f][i] = Taken(f) + 1 + i
      OBVIOUS
    <3>1. i + 1 \in 1..n
      BY <1>t
    <3>2. channel[f][i + 1] = Taken(f) + (i + 1)
      BY <1>4, <3>1
    <3>3. channel'[f][i] = channel[f][i + 1]
      BY <1>3
    <3>4. Taken(f) \in Int
      BY <1>4
    <3> QED BY <3>2, <3>3, <3>4
  <2>2. Len(channel'[f]) <= Buffer /\ Len(channel'[f]) <= Sent(f)
    BY SMTT(30), <1>3, <1>4, <1>t, UploadAssumption
  <2>3. \A i \in 1..Len(channel'[f]) : channel'[f][i] = Taken(f)' + i
    BY <1>3, <1>5, <2>1
  <2> QED BY <1>5, <2>2, <2>3 DEF ChannelIsInOrder
<1>14. BlocksAreAccountedFor(f)'
  <2>1. futures'[f] \cup Results(f) = 1..(Taken(f) + 1)
    BY <1>1, <1>4, <1>5, <1>6
  <2>2. futures'[f] \cap Results(f) = {}
    BY <1>1, <1>6, <1>7
  <2>3. Len(results[f]) + Cardinality(futures'[f]) = Taken(f) + 1
    BY <1>4, <1>6, <1>8, <1>t
  <2>4. Cardinality(futures'[f]) <= Width
    BY <1>8, <1>t, UploadAssumption DEF HasCapacity
  <2> QED BY <1>5, <1>9, <2>1, <2>2, <2>3, <2>4 DEF BlocksAreAccountedFor
<1>15. TasksAreAwaited(f)'
  BY SMTT(30), <1>0, <1>1, <1>7, <1>9, <1>t DEF UploadInv, TasksAreAwaited, Blocks, Written
<1>16. LoopEnds(f)'
  BY <1>0 DEF UploadInv, LoopEnds, HasCapacity, Written, Joined
<1>17. DraftFollows(f)'
  BY <1>0 DEF UploadInv, DraftFollows
<1> QED BY <1>10, <1>11, <1>12, <1>13, <1>14, <1>15, <1>16, <1>17, OthersKeep DEF UploadInv

\* The loop finds the channel empty or closed, or has no capacity, and goes on.
LEMMA LoopKeeps ==
    ASSUME IInv, NEW f \in Files, pc[f] = "write",
           consumer' \in [Files -> {"fill", "select"}],
           \/ closed' = closed
           \/ closed' = [closed EXCEPT ![f] = Disconnected(f)],
           UNCHANGED <<pc, draft, manifest, actual, producer, made, channel, futures, task,
                       results, control>>
    PROVE  IInv'
<1>0. TypeOK /\ UploadInv(f)
  BY DEF IInv
<1>1. closed' \in [Files -> BOOLEAN] /\ \A g \in Files \ {f} : closed'[g] = closed[g]
  BY ZenonT(60), <1>0 DEF TypeOK, Disconnected
<1>2. closed'[f] => closed[f] \/ Disconnected(f)
  BY <1>0 DEF TypeOK
<1>3. TypeOK'
  BY <1>0, <1>1 DEF TypeOK, Blocks
<1>4. \A g \in Files \ {f} : Untouched(g)
  BY <1>1 DEF Untouched
<1>5. /\ ProducerMakes(f)' /\ ChannelIsInOrder(f)' /\ BlocksAreAccountedFor(f)'
      /\ TasksAreAwaited(f)' /\ DraftFollows(f)'
  BY SMTT(30), <1>0 DEF UploadInv, ProducerMakes, ChannelIsInOrder, BlocksAreAccountedFor, TasksAreAwaited,
              DraftFollows, Taken, Sent, Results, Blocks
<1>6. LoopEnds(f)'
  BY <1>0, <1>2 DEF UploadInv, LoopEnds, Disconnected, Written, Joined
<1> QED BY <1>3, <1>4, <1>5, <1>6, OthersKeep DEF UploadInv

\* A block whose upload ended becomes a result.
LEMMA TakeResultKeeps ==
    ASSUME IInv, NEW f \in Files, NEW b \in Blocks(f), TakeResult(f, b)
    PROVE  IInv'
<1>0. TypeOK /\ UploadInv(f)
  BY DEF IInv
<1>t. /\ results[f] \in Seq(Blocks(f)) /\ Len(results[f]) \in Nat
      /\ IsFiniteSet(futures[f]) /\ Cardinality(futures[f]) \in Nat
      /\ futures[f] \subseteq Blocks(f) /\ Taken(f) \in Int
  <2>1. made[f] \in Int /\ Len(channel[f]) \in Int
    BY <1>0, FileTypes
  <2>2. Taken(f) \in Int
    BY <2>1 DEF Taken, Sent
  <2> QED BY <1>0, <2>2, FileTypes DEF TypeOK
<1>1. /\ pc[f] = "write" /\ b \in futures[f] /\ task[f][b] = "ready"
      /\ UNCHANGED <<pc, draft, manifest, actual, producer, made, channel, closed, task, control>>
      /\ futures'[f] = futures[f] \ {b} /\ results'[f] = Append(results[f], b)
      /\ \A g \in Files \ {f} : futures'[g] = futures[g] /\ results'[g] = results[g]
      /\ Files = DOMAIN futures' /\ Files = DOMAIN results'
      /\ consumer' \in [Files -> {"fill", "select"}]
  BY <1>0 DEF TypeOK, TakeResult, server, stream
<1>2. /\ results'[f] \in Seq(Blocks(f)) /\ Len(results'[f]) = Len(results[f]) + 1
      /\ \A i \in 1..Len(results[f]) : results'[f][i] = results[f][i]
      /\ results'[f][Len(results[f]) + 1] = b
  BY <1>1, <1>t
<1>3. Results(f)' = Results(f) \cup {b}
  <2> DEFINE n == Len(results[f])
  <2>1. 1..(n + 1) = 1..n \cup {n + 1} /\ Len(results'[f]) = n + 1
    BY <1>2, <1>t
  <2>2. Results(f)' = {results'[f][i] : i \in 1..n \cup {n + 1}}
    BY <2>1 DEF Results
  <2>3. {results'[f][i] : i \in 1..n \cup {n + 1}} = {results[f][i] : i \in 1..n} \cup {b}
    <3>1. \A i \in 1..n : results'[f][i] = results[f][i]
      BY <1>2
    <3>2. results'[f][n + 1] = b
      BY <1>2
    <3> HIDE DEF n
    <3> QED BY <3>1, <3>2
  <2> QED BY <2>2, <2>3 DEF Results
<1>4. Cardinality(futures'[f]) = Cardinality(futures[f]) - 1
  <2>1. b \in futures[f]
    BY <1>1
  <2>2. Cardinality(futures[f] \ {b}) = Cardinality(futures[f]) - 1
    BY <1>t, <2>1, FS_RemoveElement
  <2> QED BY <1>1, <2>2
<1>5. TypeOK'
  <2>1. \A g \in Files :
          /\ futures'[g] \subseteq Blocks(g)
          /\ {manifest[g], channel[g], results'[g]} \subseteq Seq(Blocks(g))
    <3>1. futures'[f] \subseteq Blocks(f) /\ {manifest[f], channel[f], results'[f]} \subseteq Seq(Blocks(f))
      BY <1>0, <1>1, <1>2, <1>t DEF TypeOK
    <3>2. ASSUME NEW g \in Files \ {f}
          PROVE  /\ futures'[g] \subseteq Blocks(g)
                 /\ {manifest[g], channel[g], results'[g]} \subseteq Seq(Blocks(g))
      BY SMTT(30), <1>0, <1>1 DEF TypeOK
    <3> QED BY <3>1, <3>2
  <2> QED BY <1>0, <1>1, <2>1 DEF TypeOK, Blocks
<1>6. \A g \in Files \ {f} : Untouched(g)
  BY <1>1 DEF Untouched
<1>7. ProducerMakes(f)'
  BY <1>0, <1>1 DEF UploadInv, ProducerMakes
<1>8. Taken(f)' = Taken(f) /\ Sent(f)' = Sent(f)
  BY <1>1 DEF Taken, Sent
<1>9. ChannelIsInOrder(f)'
  BY <1>0, <1>1, <1>8 DEF UploadInv, ChannelIsInOrder
<1>10. BlocksAreAccountedFor(f)'
  <2>1. /\ futures[f] \cup Results(f) = 1..Taken(f) /\ futures[f] \cap Results(f) = {}
        /\ Len(results[f]) + Cardinality(futures[f]) = Taken(f)
        /\ Cardinality(futures[f]) <= Width
    BY <1>0, <1>1 DEF UploadInv, BlocksAreAccountedFor, Written
  <2>2. futures'[f] \cup Results(f)' = 1..Taken(f) /\ futures'[f] \cap Results(f)' = {}
    BY <1>1, <1>3, <2>1
  <2>3. Len(results'[f]) + Cardinality(futures'[f]) = Taken(f)
    BY <1>2, <1>4, <1>t, <2>1
  <2>4. Cardinality(futures'[f]) <= Width
    BY <1>4, <1>t, <2>1, UploadAssumption
  <2> QED BY <1>8, <2>2, <2>3, <2>4 DEF BlocksAreAccountedFor
<1>11. TasksAreAwaited(f)'
  <2>1. futures'[f] \cup Results(f)' = futures[f] \cup Results(f)
    BY <1>1, <1>3
  <2> QED BY <1>0, <1>1, <1>3, <2>1 DEF UploadInv, TasksAreAwaited, Blocks, Written
<1>12. LoopEnds(f)'
  BY <1>0, <1>1 DEF UploadInv, LoopEnds, Disconnected, Written, Joined
<1>13. DraftFollows(f)'
  BY <1>0, <1>1 DEF UploadInv, DraftFollows
<1> QED BY <1>5, <1>6, <1>7, <1>9, <1>10, <1>11, <1>12, <1>13, OthersKeep DEF UploadInv

\* After an error nothing of the loop matters any more.
LEMMA TakeErrorKeeps ==
    ASSUME IInv, NEW f \in Files, NEW b \in Blocks(f), TakeError(f, b)
    PROVE  IInv'
<1>0. TypeOK /\ UploadInv(f)
  BY DEF IInv
<1>1. /\ pc[f] = "write" /\ pc' = [pc EXCEPT ![f] = "cleanup"]
      /\ UNCHANGED <<draft, manifest, actual, producer, made, consumer, closed, task, results, control>>
      /\ futures'[f] = {} /\ channel'[f] = <<>>
      /\ \A g \in Files \ {f} : futures'[g] = futures[g] /\ channel'[g] = channel[g]
      /\ Files = DOMAIN futures' /\ Files = DOMAIN channel'
  BY <1>0 DEF TypeOK, TakeError, server
<1>2. pc'[f] = "cleanup" /\ \A g \in Files \ {f} : pc'[g] = pc[g]
  BY <1>0, <1>1 DEF TypeOK
<1>3. TypeOK'
  <2>1. pc' \in [Files -> Stages]
    BY <1>0, <1>1 DEF TypeOK, Stages
  <2>2. \A g \in Files :
          /\ futures'[g] \subseteq Blocks(g)
          /\ {manifest[g], channel'[g], results[g]} \subseteq Seq(Blocks(g))
    <3>1. futures'[f] \subseteq Blocks(f) /\ {manifest[f], channel'[f], results[f]} \subseteq Seq(Blocks(f))
      <4>1. <<>> \in Seq(Blocks(f))
        OBVIOUS
      <4> QED BY <1>0, <1>1, <4>1 DEF TypeOK
    <3>2. ASSUME NEW g \in Files \ {f}
          PROVE  /\ futures'[g] \subseteq Blocks(g)
                 /\ {manifest[g], channel'[g], results[g]} \subseteq Seq(Blocks(g))
      BY <1>0, <1>1 DEF TypeOK
    <3> QED BY <3>1, <3>2
  <2> QED BY <1>0, <1>1, <2>1, <2>2 DEF TypeOK, Blocks
<1>4. \A g \in Files \ {f} : Untouched(g)
  BY <1>1, <1>2 DEF Untouched
<1>5. ProducerMakes(f)'
  BY <1>0, <1>1, <1>2 DEF UploadInv, ProducerMakes
<1>6. /\ ChannelIsInOrder(f)' /\ BlocksAreAccountedFor(f)' /\ TasksAreAwaited(f)' /\ LoopEnds(f)'
  BY <1>2 DEF ChannelIsInOrder, BlocksAreAccountedFor, TasksAreAwaited, LoopEnds, Written, Joined
<1>7. DraftFollows(f)'
  BY <1>0, <1>1, <1>2 DEF UploadInv, DraftFollows
<1> QED BY <1>3, <1>4, <1>5, <1>6, <1>7, OthersKeep DEF UploadInv

\* The task of a block runs and ends; only of one that is awaited, or forgotten.
LEMMA BlockKeeps ==
    ASSUME IInv, NEW f \in Files, NEW b \in Blocks(f), StartBlock(f, b) \/ BlockEnds(f, b)
    PROVE  IInv'
<1>0. TypeOK /\ UploadInv(f)
  BY DEF IInv
<1>1. /\ UNCHANGED <<pc, draft, manifest, actual, producer, made, channel, consumer, closed,
                     futures, results, control>>
      /\ task[f][b] \in {"queued", "running"}
      /\ \E s \in {"running", "ready", "error"} : task' = [task EXCEPT ![f][b] = s]
  BY DEF StartBlock, BlockEnds, server, stream, loop
<1>2. /\ task'[f] \in [Blocks(f) -> {"none", "queued", "running", "ready", "error"}]
      /\ \A c \in Blocks(f) \ {b} : task'[f][c] = task[f][c]
      /\ \A g \in Files \ {f} : task'[g] = task[g]
      /\ Files = DOMAIN task'
  <2>1. PICK s \in {"running", "ready", "error"} : task' = [task EXCEPT ![f][b] = s]
    BY <1>1
  <2>2. /\ Files = DOMAIN task
        /\ task[f] \in [Blocks(f) -> {"none", "queued", "running", "ready", "error"}]
    BY <1>0 DEF TypeOK
  <2>3. task'[f] = [task[f] EXCEPT ![b] = s]
    BY <2>1, <2>2
  <2>4. /\ \A g \in Files \ {f} : task'[g] = task[g]
        /\ Files = DOMAIN task'
    BY <2>1, <2>2
  <2> QED BY <2>2, <2>3, <2>4
<1>3. TypeOK'
  <2>1. \A g \in Files : task'[g] \in [Blocks(g) -> {"none", "queued", "running", "ready", "error"}]
    BY <1>0, <1>2 DEF TypeOK
  <2> QED BY ZenonT(60), <1>0, <1>1, <1>2, <2>1 DEF TypeOK, Blocks
<1>4. \A g \in Files \ {f} : Untouched(g)
  BY <1>1, <1>2 DEF Untouched
<1>5. /\ ProducerMakes(f)' /\ ChannelIsInOrder(f)' /\ BlocksAreAccountedFor(f)'
      /\ LoopEnds(f)' /\ DraftFollows(f)'
  BY <1>0, <1>1 DEF UploadInv, ProducerMakes, ChannelIsInOrder, BlocksAreAccountedFor, LoopEnds,
              DraftFollows, Disconnected, Taken, Sent, Results
<1>6. TasksAreAwaited(f)'
  BY <1>0, <1>1, <1>2 DEF UploadInv, TasksAreAwaited, Results, Blocks
<1> QED BY <1>3, <1>4, <1>5, <1>6, OthersKeep DEF UploadInv

LEMMA ControlKeeps ==
    ASSUME IInv, NEW f \in Files, Pause(f) \/ Resume(f)
    PROVE  IInv'
<1>0. TypeOK /\ UploadInv(f)
  BY DEF IInv
<1>1. UNCHANGED <<pc, draft, manifest, actual, producer, made, channel, consumer, closed, task,
                  futures, results>>
  BY DEF Pause, Resume, server, stream, loop
<1>2. control' \in [Files -> {"running", "paused", "resumed"}]
  BY ZenonT(60), <1>0 DEF TypeOK, Pause, Resume
<1>3. TypeOK'
  BY <1>0, <1>1, <1>2 DEF TypeOK, Blocks
<1>4. \A g \in Files : Untouched(g)
  BY <1>1 DEF Untouched
<1>5. UploadInv(f)'
  BY SMTT(30), <1>0, <1>1 DEF UploadInv, ProducerMakes, ChannelIsInOrder, BlocksAreAccountedFor, LoopEnds,
              TasksAreAwaited, DraftFollows, Disconnected, Taken, Sent, Results, Blocks
<1> QED BY <1>3, <1>4, <1>5, OthersKeep

-----------------------------------------------------------------------------
LEMMA InitInv == Init => IInv
<1> SUFFICES ASSUME Init PROVE IInv
  OBVIOUS
<1>1. TypeOK
  <2>1. [f \in Files |-> 0] \in BlockCounts
    BY UploadAssumption DEF BlockCounts
  <2>2. \A f \in Files : <<>> \in Seq(Blocks(f))
    OBVIOUS
  <2> QED BY <2>1, <2>2 DEF Init, TypeOK, Stages
<1>2. ASSUME NEW f \in Files PROVE UploadInv(f)
  <2>1. 0 <= actual[f]
    BY UploadAssumption DEF Init, BlockCounts
  <2> QED BY <2>1 DEF Init, UploadInv, ProducerMakes, ChannelIsInOrder, BlocksAreAccountedFor,
                      TasksAreAwaited, LoopEnds, DraftFollows, Written, Joined, Results
<1> QED BY <1>1, <1>2 DEF IInv

LEMMA NextInv == IInv /\ [Next]_vars => IInv'
<1> SUFFICES ASSUME IInv, [Next]_vars PROVE IInv'
  OBVIOUS
<1>1. ASSUME NEW f \in Files, GetDraft(f) \/ OpenForWriting(f)
      PROVE  IInv'
  BY <1>1, PrepareKeeps
<1>2. ASSUME NEW f \in Files, Finish(f)
      PROVE  IInv'
  BY <1>2, PrepareKeeps, CompleteKeeps, CommitReplyKeeps DEF Finish
<1>3. ASSUME NEW f \in Files, Fill(f) \/ EndFill(f) \/ Receive(f)
      PROVE  IInv'
  <2>1. /\ pc[f] = "write"
        /\ UNCHANGED <<pc, draft, manifest, actual, producer, made, results, control>>
        /\ consumer' \in [Files -> {"fill", "select"}]
    <3>1. \/ UNCHANGED consumer
          \/ \E s \in {"fill", "select"} : consumer' = [consumer EXCEPT ![f] = s]
      BY <1>3 DEF Fill, EndFill, Receive
    <3>2. consumer' \in [Files -> {"fill", "select"}]
      BY <3>1 DEF IInv, TypeOK
    <3> QED BY <1>3, <3>2 DEF Fill, EndFill, Receive, server, stream
  <2>2. CASE Spawn(f) /\ (Fill(f) \/ Receive(f))
    <3>1. channel[f] # <<>>
      BY <2>2 DEF Spawn
    <3>2. HasCapacity(f) /\ UNCHANGED closed
      <4>1. CASE Fill(f)
        BY <3>1, <4>1 DEF Fill
      <4>2. CASE Receive(f)
        BY <3>1, <4>2 DEF Receive, Disconnected
      <4> QED BY <2>2, <4>1, <4>2
    <3> QED BY <2>1, <2>2, <3>2, SpawnKeeps
  <2>3. CASE ~(Spawn(f) /\ (Fill(f) \/ Receive(f)))
    <3>1. /\ UNCHANGED <<channel, futures, task>>
          /\ closed' = closed \/ closed' = [closed EXCEPT ![f] = Disconnected(f)]
      <4>1. CASE Fill(f)
        BY <2>3, <4>1 DEF Fill
      <4>2. CASE EndFill(f)
        BY <4>2 DEF EndFill, stream
      <4>3. CASE Receive(f)
        BY <2>3, <4>3 DEF Receive
      <4> QED BY <1>3, <4>1, <4>2, <4>3
    <3> QED BY <2>1, <3>1, LoopKeeps
  <2> QED BY <2>2, <2>3
<1>4. ASSUME NEW f \in Files, AllDone(f)
      PROVE  IInv'
  BY <1>4, CompleteKeeps
<1>5. ASSUME NEW f \in Files, NEW b \in Blocks(f), TakeResult(f, b) \/ TakeError(f, b)
      PROVE  IInv'
  BY <1>5, TakeResultKeeps, TakeErrorKeeps
<1>6. ASSUME NEW f \in Files, Produces(f)
      PROVE  IInv'
  BY <1>6, ProduceKeeps, SendKeeps DEF Produces
<1>7. ASSUME NEW f \in Files, Pause(f) \/ Resume(f)
      PROVE  IInv'
  BY <1>7, ControlKeeps
<1>8. ASSUME NEW f \in Files, NEW b \in Blocks(f), StartBlock(f, b) \/ BlockEnds(f, b)
      PROVE  IInv'
  BY <1>8, BlockKeeps
<1>9. CASE UNCHANGED vars
  <2>1. TypeOK'
    BY <1>9 DEF vars, IInv, TypeOK, Blocks
  <2>2. ASSUME NEW f \in Files PROVE UploadInv(f)'
    <3>1. UploadInv(f)
      BY DEF IInv
    <3>2. Taken(f)' = Taken(f) /\ Sent(f)' = Sent(f) /\ Results(f)' = Results(f)
      BY <1>9 DEF vars, Taken, Sent, Results
    <3>3. ProducerMakes(f)' /\ ChannelIsInOrder(f)'
      BY <1>9, <3>1, <3>2 DEF vars, UploadInv, ProducerMakes, ChannelIsInOrder
    <3>4. BlocksAreAccountedFor(f)' /\ TasksAreAwaited(f)'
      BY <1>9, <3>1, <3>2 DEF vars, UploadInv, BlocksAreAccountedFor, TasksAreAwaited, Blocks
    <3>5. LoopEnds(f)' /\ DraftFollows(f)'
      BY <1>9, <3>1 DEF vars, UploadInv, LoopEnds, DraftFollows, Disconnected
    <3> QED BY <3>3, <3>4, <3>5 DEF UploadInv
  <2> QED BY <2>1, <2>2 DEF IInv
<1> QED BY <1>1, <1>2, <1>3, <1>4, <1>5, <1>6, <1>7, <1>8, <1>9 DEF Next, Consume

\* made of which s were sent, of which c are in the channel, w awaited, r stored
LEMMA InMemory ==
    ASSUME NEW made0 \in Nat, NEW s \in Int, NEW c \in Nat, NEW w \in Nat, NEW r \in Nat,
           NEW width \in Nat, NEW buffer \in Nat,
           made0 <= s + 1, r + w = s - c, w <= width, c <= buffer
    PROVE  made0 - r <= buffer + width + 1
OBVIOUS

LEMMA InvIsSound == IInv => UploadIsSound
<1> SUFFICES ASSUME IInv PROVE UploadIsSound
  OBVIOUS
<1>0. TypeOK /\ \A f \in Files : UploadInv(f)
  BY DEF IInv
<1>1. MemoryIsBounded
  <2> SUFFICES ASSUME NEW f \in Files, pc[f] = "write"
               PROVE  /\ Cardinality(futures[f]) <= Width
                      /\ made[f] - Len(results[f]) <= Buffer + Width + 1
    BY DEF MemoryIsBounded
  <2>1. /\ Len(results[f]) + Cardinality(futures[f]) = Taken(f)
        /\ Cardinality(futures[f]) <= Width /\ Len(channel[f]) <= Buffer
    BY <1>0 DEF UploadInv, BlocksAreAccountedFor, ChannelIsInOrder, Written
  <2>2. /\ made[f] \in Nat /\ Len(channel[f]) \in Nat /\ Len(results[f]) \in Nat
        /\ Cardinality(futures[f]) \in Nat
    BY <1>0, FileTypes
  <2>3. Sent(f) \in Int /\ made[f] <= Sent(f) + 1
    BY <2>2 DEF Sent
  <2>4. Taken(f) = Sent(f) - Len(channel[f])
    BY DEF Taken
  <2>5. Width \in Nat /\ Buffer \in Nat
    BY UploadAssumption
  <2> QED BY <2>1, <2>2, <2>3, <2>4, <2>5, InMemory
<1>2. FailedWriteLeavesNoDraft
  BY <1>0 DEF UploadInv, DraftFollows, FailedWriteLeavesNoDraft
<1>3. ASSUME NEW f \in Files, pc[f] \in Joined
      PROVE  /\ producer[f] = "ended" /\ channel[f] = <<>> /\ futures[f] = {}
             /\ ToSet(results[f]) = 1..made[f] /\ Len(results[f]) = made[f]
             /\ \A b \in Blocks(f) : task[f][b] \in {"none", "ready"}
             /\ \A b \in 1..made[f] : task[f][b] = "ready"
  <2>1. /\ producer[f] = "ended" /\ channel[f] = <<>> /\ futures[f] = {}
        /\ Results(f) = 1..made[f] /\ Len(results[f]) = made[f]
    BY <1>0, <1>3, ResultsAreAll
  <2>2. ToSet(results[f]) = Results(f)
    BY <1>0, FileTypes
  <2>3. TasksAreAwaited(f) /\ pc[f] \in Written
    BY <1>0, <1>3 DEF UploadInv, Written
  <2> QED BY <2>1, <2>2, <2>3 DEF TasksAreAwaited
<1>4. CommittedIsComplete
  <2> SUFFICES ASSUME NEW f \in Files, draft[f] = "committed"
               PROVE  /\ manifest[f] = [i \in 1..Expected[f] |-> i]
                      /\ \A b \in 1..Expected[f] : task[f][b] = "ready"
    BY DEF CommittedIsComplete
  <2>1. /\ pc[f] \in {"done", "unknown"} /\ Len(results[f]) = Expected[f]
        /\ manifest[f] = [i \in 1..Expected[f] |-> i]
    BY <1>0 DEF UploadInv, DraftFollows
  <2> QED BY <1>3, <2>1 DEF Joined
<1>5. QuietAtCommit
  BY <1>3 DEF QuietAtCommit, Joined
<1> QED BY <1>0, <1>1, <1>2, <1>4, <1>5 DEF UploadIsSound

\* Whatever the reader, the uploads and the server do: a committed revision lists every
\* block of the file, uploaded, in order, and nothing runs behind its commit; what an
\* upload keeps in memory is bounded; and a failed write leaves no draft.
THEOREM UploadsAreSound == Spec => []UploadIsSound
BY InitInv, NextInv, InvIsSound, PTL DEF Spec

\* A committed revision is never deleted, nor made a draft again.
THEOREM CommitsStay == Spec => CommittedStays
<1>1. ASSUME IInv, [Next]_vars, NEW f \in Files, draft[f] = "committed"
      PROVE  draft'[f] = "committed"
  <2>1. pc[f] \in {"done", "unknown"} /\ Files = DOMAIN pc /\ Files = DOMAIN draft
    BY <1>1 DEF IInv, UploadInv, DraftFollows, TypeOK
  <2>2. ASSUME NEW g \in Files, GetDraft(g) \/ Cleanup(g) \/ CommitReply(g)
        PROVE  draft'[f] = "committed"
    BY <1>1, <2>1, <2>2 DEF GetDraft, Cleanup, CommitReply, server
  <2>3. ASSUME NEW g \in Files, \/ OpenForWriting(g) \/ UploadThumbnails(g) \/ Commit(g) \/ Join(g)
                                \/ Consume(g) \/ Produces(g) \/ Pause(g) \/ Resume(g)
        PROVE  UNCHANGED draft
    BY <2>3 DEF OpenForWriting, UploadThumbnails, Commit, Join, Consume, Fill, EndFill, AllDone,
                Receive, TakeResult, TakeError, Produces, Produce, ProduceFails, Send, Pause, Resume,
                server
  <2>4. ASSUME NEW g \in Files, NEW b \in Blocks(g), StartBlock(g, b) \/ BlockEnds(g, b)
        PROVE  UNCHANGED draft
    BY <2>4 DEF StartBlock, BlockEnds, server
  <2>5. CASE UNCHANGED vars
    BY <1>1, <2>5 DEF vars
  <2> QED BY <1>1, <2>2, <2>3, <2>4, <2>5 DEF Next, Finish
<1>2. IInv /\ [Next]_vars =>
        [\A f \in Files : draft[f] = "committed" => draft'[f] = "committed"]_vars
  BY <1>1
<1> QED BY <1>2, InitInv, NextInv, PTL DEF Spec, CommittedStays
=============================================================================
