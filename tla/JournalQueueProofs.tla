------------------------- MODULE JournalQueueProofs -------------------------
(***************************************************************************)
(* Proofs about JournalQueue: for any number of files, entries and retries, *)
(* and any batch and upload width, what the flush task works on is current, *)
(* entries start in order, retries are bounded and nothing is applied twice.*)
(***************************************************************************)
EXTENDS JournalQueue, FiniteSetTheorems, TLAPS

(* An id that has not been given out has no row. *)
Fresh == \A e \in Ids : e >= next => status[e] = "none" /\ retry[e] = 0

(* retry_count is the number of attempts that ended with a result. *)
Counted == \A e \in Ids : ended[e] = retry[e]

(* An entry is in one place of the pass, and in none outside a walk; only
   uploads are collected. *)
OnePlace == /\ batch \cap uploads = {} /\ batch \cap running = {}
            /\ uploads \cap running = {}
            /\ phase # "walk" => Loaded = {}
            /\ \A u \in uploads : kind[u] = "upload"

(* The inductive invariant.  LoadedIsCurrent needs Fresh (an append touches no
   loaded row) and OnePlace (the end of an attempt touches no other loaded row
   and takes its own off the pass); RetryBudget and OneUploadPerFile need
   LoadedIsCurrent; RetryBudget needs Counted, too. *)
IInv == /\ TypeOK
        /\ Fresh
        /\ Counted
        /\ OnePlace
        /\ LoadedIsCurrent
        /\ PassOrder
        /\ RetryBudget
        /\ OneUploadPerFile

-----------------------------------------------------------------------------
(* First(S, n) is the beginning of S: no element outside it comes before one
   in it. *)
LEMMA FirstIsBeginning ==
  ASSUME NEW S, S \subseteq Ids, NEW n \in Nat,
         NEW e \in First(S, n), NEW f \in S \ First(S, n)
  PROVE  e < f
<1>1. IsFiniteSet(Ids) BY FS_Interval, JournalAssumption DEF Ids
<1>2. e \in Nat /\ f \in Nat BY JournalAssumption DEF First, Ids
<1>3. SUFFICES ASSUME ~(e < f) PROVE FALSE OBVIOUS
<1> DEFINE Before(x) == {g \in S : g < x}
<1>4. Before(f) \subseteq Before(e)
  <2>1. SUFFICES ASSUME NEW g \in S, g < f PROVE g < e OBVIOUS
  <2>2. g \in Nat BY JournalAssumption DEF Ids
  <2> QED BY <1>2, <1>3, <2>1, <2>2
<1>5. IsFiniteSet(Before(e)) /\ Before(e) \subseteq Ids
  BY <1>1, FS_Subset
<1>6. Cardinality(Before(f)) <= Cardinality(Before(e))
  BY <1>4, <1>5, FS_Subset
<1>7. Cardinality(Before(f)) \in Nat /\ Cardinality(Before(e)) \in Nat
  BY <1>4, <1>5, FS_Subset, FS_CardinalityType
<1>8. Cardinality(Before(e)) < n BY DEF First
<1>9. Cardinality(Before(f)) < n BY <1>6, <1>7, <1>8
<1> QED BY <1>9 DEF First

-----------------------------------------------------------------------------
(* The tables are empty and the flush task is idle. *)
LEMMA InitInv == Init => IInv
<1> SUFFICES ASSUME Init PROVE IInv OBVIOUS
<1> USE JournalAssumption DEF Init
<1>1. Loaded = {} BY DEF Loaded
<1>2. TypeOK BY DEF TypeOK, Statuses, Ids, NoRow
<1>3. Pending = {} BY DEF Pending
<1> QED BY <1>1, <1>2, <1>3
        DEF IInv, Fresh, Counted, OnePlace, LoadedIsCurrent, PassOrder, RetryBudget,
            OneUploadPerFile

(* A new row, with no other upload of its file pending, keeps everything. *)
LEMMA AppendInv ==
  ASSUME IInv, NEW k \in {"upload", "other"}, NEW i \in Inodes, Append(k, i),
         k = "upload" => ~HasPending(i),
         UNCHANGED <<dirty, online, phase, batch, uploads, running, seen, history>>,
         noted' \subseteq Inodes, sweep' \subseteq Inodes
  PROVE  IInv'
<1> USE JournalAssumption DEF IInv, TypeOK, Append, Ids, history
<1>1. TypeOK'
  <2>1. revived' = revived /\ ended' = ended /\ seen' = seen OBVIOUS
  <2>2. status' \in [Ids -> Statuses] BY DEF Statuses
  <2>3. retry' \in [Ids -> Nat] OBVIOUS
  <2>4. kind' \in [Ids -> {"upload", "other"}] OBVIOUS
  <2>5. inode' \in [Ids -> Inodes] /\ next' \in 1..(MaxId + 1) OBVIOUS
  <2> QED BY <2>1, <2>2, <2>3, <2>4, <2>5
<1>2. Fresh' BY DEF Fresh, Statuses
<1>3. next \notin Loaded BY DEF Fresh, LoadedIsCurrent, Loaded
<1>4. OnePlace' BY <1>3 DEF OnePlace, Loaded
<1>5. LoadedIsCurrent' BY <1>3 DEF LoadedIsCurrent, Loaded
<1>6. PassOrder' BY <1>3 DEF PassOrder, Loaded
<1>7. RetryBudget' /\ Counted' BY DEF RetryBudget, Counted, Fresh
<1>8. OneUploadPerFile'
  <2>1. SUFFICES ASSUME NEW e \in Pending', NEW f \in Pending', e # f,
                        kind'[e] = "upload", kind'[f] = "upload",
                        inode'[e] = inode'[f], e \notin revived, f \notin revived
                 PROVE  FALSE
    BY DEF OneUploadPerFile
  <2>2. CASE e # next /\ f # next
    BY <2>1, <2>2 DEF OneUploadPerFile, Pending
  <2>3. CASE e = next
    BY <2>1, <2>3 DEF HasPending, Pending
  <2>4. CASE f = next
    BY <2>1, <2>4 DEF HasPending, Pending
  <2> QED BY <2>2, <2>3, <2>4
<1> QED BY <1>1, <1>2, <1>4, <1>5, <1>6, <1>7, <1>8

(* flush_file_entries starts a group that comes before the uploads it leaves. *)
LEMMA StartUploadsInv == IInv /\ StartUploads => IInv'
<1> SUFFICES ASSUME IInv, StartUploads PROVE IInv' OBVIOUS
<1> USE JournalAssumption DEF IInv, StartUploads, table, history
<1>1. uploads \subseteq Ids BY DEF TypeOK
<1>2. /\ running' \subseteq uploads /\ uploads' = uploads \ running'
      /\ running = {}
      /\ UNCHANGED <<status, retry, kind, inode, next, phase, batch, seen, revived, ended>>
  BY DEF First
<1>3. \A r \in running' : \A e \in uploads' : r < e
  BY <1>1, FirstIsBeginning
<1>4. TypeOK' BY <1>2 DEF TypeOK
<1>5. Fresh' BY <1>2 DEF Fresh
<1>6. OnePlace' BY <1>2 DEF OnePlace, Loaded
<1>7. LoadedIsCurrent' BY <1>2 DEF LoadedIsCurrent, Loaded
<1>8. \A r \in running' : kind[r] = "upload"
  BY <1>2 DEF OnePlace
<1>9. PassOrder' BY <1>2, <1>3, <1>8 DEF PassOrder
<1>10. RetryBudget' /\ Counted' BY <1>2 DEF RetryBudget, Counted
<1>11. OneUploadPerFile' BY <1>2 DEF OneUploadPerFile, Pending
<1> QED BY <1>4, <1>5, <1>6, <1>7, <1>9, <1>10, <1>11

(* The end of an attempt: apply_journal_result decides on the loaded retry count,
   which is the one in the table. *)
LEMMA FinishInv ==
  ASSUME IInv, NEW e \in Ids, NEW o \in Outcomes, Finish(e, o)
  PROVE  IInv'
<1> USE JournalAssumption DEF IInv, Finish, Apply
<1>1. status[e] = "pending" /\ seen[e] = retry[e] /\ retry[e] \in Nat
  BY DEF LoadedIsCurrent, Loaded, TypeOK
<1>2. status'[e] \in {"done", "failed", "pending"}
  BY DEF TypeOK
<1>3. \A f \in Ids : f # e => status'[f] = status[f] /\ retry'[f] = retry[f]
                             /\ seen'[f] = seen[f]
  BY DEF TypeOK
<1>4. /\ running' = running \ {e} /\ e \in running
      /\ UNCHANGED <<next, kind, inode, phase, batch, uploads>>
      /\ revived' = {f \in revived : status'[f] = "pending"}
      /\ ended' = [ended EXCEPT ![e] = @ + 1]
  OBVIOUS
<1>5. TypeOK' BY <1>1 DEF TypeOK, Statuses
<1>6. Fresh' /\ Counted' BY <1>1, <1>3, <1>4 DEF Fresh, Counted, TypeOK
<1>7. OnePlace' BY <1>4 DEF OnePlace, Loaded
<1>8. e \notin Loaded' BY <1>4 DEF OnePlace, Loaded
<1>9. LoadedIsCurrent' BY <1>3, <1>4, <1>8 DEF LoadedIsCurrent, Loaded, TypeOK
<1>10. PassOrder' BY <1>4 DEF PassOrder
<1>11. RetryBudget'
  <2>1. ended'[e] = retry[e] + 1 /\ retry[e] <= RetryLimit
    BY <1>1 DEF RetryBudget, Counted, TypeOK
  <2>2. status'[e] = "pending" => retry[e] < RetryLimit
    BY <1>1, <2>1 DEF TypeOK
  <2>3. \A f \in Ids : f # e => ended'[f] = ended[f] BY DEF TypeOK
  <2> QED BY <1>1, <1>3, <2>1, <2>2, <2>3 DEF RetryBudget
<1>12. Pending' \subseteq Pending BY <1>1, <1>3 DEF Pending
<1>13. OneUploadPerFile' BY <1>4, <1>12 DEF OneUploadPerFile, Pending
<1> QED BY <1>5, <1>6, <1>7, <1>9, <1>10, <1>11, <1>13

(* delete_completed_journal touches no entry that is pending. *)
LEMMA EndWalkInv == IInv /\ EndWalk => IInv'
<1> SUFFICES ASSUME IInv, EndWalk PROVE IInv' OBVIOUS
<1> USE JournalAssumption DEF IInv, EndWalk, DeleteCompleted
<1>1. Loaded = {} /\ Loaded' = {} BY DEF Loaded
<1>2. \A e \in Ids : \/ status[e] = "done" /\ status'[e] = "deleted" /\ retry'[e] = 0
                     \/ /\ status[e] # "done" /\ status'[e] = status[e]
                        /\ retry'[e] = retry[e] /\ kind'[e] = kind[e]
                        /\ inode'[e] = inode[e]
  BY DEF TypeOK
<1>3. TypeOK' BY DEF TypeOK, Statuses, NoRow
<1>4. Fresh' /\ Counted' BY <1>2 DEF Fresh, Counted, TypeOK
<1>5. OnePlace' /\ LoadedIsCurrent' /\ PassOrder'
  BY <1>1 DEF OnePlace, LoadedIsCurrent, PassOrder, Loaded
<1>6. RetryBudget' BY <1>2, <1>4 DEF RetryBudget, Counted
<1>7. Pending' = Pending BY <1>2 DEF Pending
<1>8. \A e \in Pending : kind'[e] = kind[e] /\ inode'[e] = inode[e]
  BY <1>2 DEF Pending
<1>9. OneUploadPerFile' BY <1>7, <1>8 DEF OneUploadPerFile, Pending
<1> QED BY <1>3, <1>4, <1>5, <1>6, <1>9

(* retry_failed revives entries that are in no batch, and notes which. *)
LEMMA RetryInv ==
  ASSUME IInv, NEW S \in SUBSET Ids, Retry(S)
  PROVE  IInv'
<1> USE JournalAssumption DEF IInv, Retry, task
<1>1. \A e \in Ids : \/ /\ e \in S /\ status[e] = "failed" /\ status'[e] = "pending"
                        /\ retry'[e] = 0 /\ ended'[e] = 0
                        /\ kind[e] = "upload" => e \in revived'
                     \/ /\ e \notin S /\ status'[e] = status[e]
                        /\ retry'[e] = retry[e] /\ ended'[e] = ended[e]
                        /\ e \in revived => e \in revived'
  BY DEF TypeOK
<1>2. Loaded' = Loaded /\ \A e \in Loaded : e \in Ids /\ e \notin S
  BY DEF Loaded, LoadedIsCurrent, TypeOK
<1>3. TypeOK' BY DEF TypeOK, Statuses
<1>4. Fresh' /\ Counted' BY <1>1 DEF Fresh, Counted
<1>5. OnePlace' /\ PassOrder' BY <1>2 DEF OnePlace, PassOrder
<1>6. LoadedIsCurrent' BY <1>1, <1>2 DEF LoadedIsCurrent
<1>7. RetryBudget' BY <1>1 DEF RetryBudget
<1>8. OneUploadPerFile' BY <1>1 DEF OneUploadPerFile, Pending
<1> QED BY <1>3, <1>4, <1>5, <1>6, <1>7, <1>8

(* Every step of the requests, the flush task, the retry command, the connection
   and a crash keeps the inductive invariant. *)
LEMMA StepInv == IInv /\ [Next]_vars => IInv'
<1> SUFFICES ASSUME IInv, [Next]_vars PROVE IInv' OBVIOUS
<1>1. ASSUME NEW i \in Inodes, Enqueue(i) PROVE IInv'
  BY <1>1, AppendInv DEF Enqueue, task, history, IInv, TypeOK
<1>2. ASSUME NEW i \in Inodes, QueueUpload(i) PROVE IInv'
  <2>1. CASE Append("upload", i) /\ ~HasPending(i)
    BY <1>2, <2>1, AppendInv DEF QueueUpload, task, history, IInv, TypeOK
  <2>2. CASE UNCHANGED table
    BY <1>2, <2>2 DEF QueueUpload, IInv, TypeOK, Fresh, OnePlace, Loaded,
       LoadedIsCurrent, PassOrder, RetryBudget, Counted, OneUploadPerFile, Pending, table, task, history
  <2> QED BY <1>2, <2>1, <2>2 DEF QueueUpload
<1>3. ASSUME NEW i \in Inodes, SweepOne(i) PROVE IInv'
  <2>1. CASE Append("upload", i) /\ ~HasPending(i)
    BY <1>3, <2>1, AppendInv DEF SweepOne, task, history, IInv, TypeOK
  <2>2. CASE UNCHANGED table
    BY <1>3, <2>2 DEF SweepOne, IInv, TypeOK, Fresh, OnePlace, Loaded,
       LoadedIsCurrent, PassOrder, RetryBudget, Counted, OneUploadPerFile, Pending, table, task, history
  <2> QED BY <1>3, <2>1, <2>2 DEF SweepOne
<1>4. ASSUME NEW i \in Inodes, Write(i) \/ NoteDirty(i) \/ IgnoreUpload(i)
      PROVE  IInv'
  BY <1>4 DEF Write, NoteDirty, IgnoreUpload, Files, IInv, TypeOK, Fresh, OnePlace, Loaded,
     LoadedIsCurrent, PassOrder, RetryBudget, Counted, OneUploadPerFile, Pending, table, task, history
<1>5. ASSUME BeginPass PROVE IInv'
  <2>1. /\ batch' \subseteq Pending /\ uploads = {} /\ running = {}
        /\ UNCHANGED <<status, retry, kind, inode, next, uploads, running, revived, ended>>
        /\ phase' = "walk"
    BY <1>5 DEF BeginPass, First, LeastRetried, table, history, IInv, OnePlace, Loaded
  <2>2. \A e \in batch' : seen'[e] = retry[e]
    BY <1>5, <2>1 DEF BeginPass, IInv, TypeOK, Pending
  <2>3. TypeOK'
    BY <1>5, <2>1 DEF BeginPass, IInv, TypeOK, Pending, table, history
  <2> QED
    BY <2>1, <2>2, <2>3 DEF IInv, Fresh, OnePlace, Loaded,
       LoadedIsCurrent, PassOrder, RetryBudget, Counted, OneUploadPerFile, Pending
<1>6. ASSUME NEW e \in Ids, Collect(e) PROVE IInv'
  <2>1. /\ e \in batch /\ kind[e] = "upload" /\ phase = "walk"
        /\ running = {} /\ running' = {}
        /\ batch' = batch \ {e} /\ uploads' = uploads \cup {e}
        /\ UNCHANGED <<status, retry, kind, inode, next, seen, revived, ended, phase>>
    BY <1>6 DEF Collect, IsFirst, table, history
  <2>2. \A f \in batch' : e < f
    BY <1>6, JournalAssumption DEF Collect, IsFirst, IInv, TypeOK, Ids
  <2>3. TypeOK' BY <1>6, <2>1 DEF Collect, IInv, TypeOK, table, history
  <2>4. Loaded' = Loaded BY <2>1 DEF Loaded
  <2>5. PassOrder' BY <2>1, <2>2 DEF IInv, PassOrder
  <2>6. OnePlace' BY <2>1, <2>4 DEF IInv, OnePlace
  <2> QED
    BY <2>1, <2>3, <2>4, <2>5, <2>6 DEF IInv, Fresh, LoadedIsCurrent,
       RetryBudget, Counted, OneUploadPerFile, Pending
<1>7. ASSUME NEW e \in Ids, StartOther(e) PROVE IInv'
  BY SMTT(30), <1>7, JournalAssumption DEF StartOther, AtOther, IsFirst, Ids, IInv, TypeOK, Fresh,
     OnePlace, Loaded, LoadedIsCurrent, PassOrder, RetryBudget, Counted, OneUploadPerFile,
     Pending, table, history
<1>8. ASSUME NEW e \in Ids, Panic(e) PROVE IInv'
  BY <1>8 DEF Panic, IInv, TypeOK, Fresh, OnePlace, Loaded,
     LoadedIsCurrent, PassOrder, RetryBudget, Counted, OneUploadPerFile, Pending, table, history
<1>9. ASSUME EndPass PROVE IInv'
  BY <1>9 DEF EndPass, IInv, TypeOK, Fresh, OnePlace, Loaded,
     LoadedIsCurrent, PassOrder, RetryBudget, Counted, OneUploadPerFile, Pending, table, task, history
<1>10. ASSUME Toggle PROVE IInv'
  BY <1>10 DEF Toggle, IInv, TypeOK, Fresh, OnePlace, Loaded,
     LoadedIsCurrent, PassOrder, RetryBudget, Counted, OneUploadPerFile, Pending, table, task, history
<1>11. ASSUME Crash PROVE IInv'
  BY <1>11 DEF Crash, IInv, TypeOK, Fresh, OnePlace, Loaded,
     LoadedIsCurrent, PassOrder, RetryBudget, Counted, OneUploadPerFile, Pending, table, task, history
<1>12. ASSUME UNCHANGED vars PROVE IInv'
  BY <1>12 DEF vars, IInv, TypeOK, Fresh, OnePlace, Loaded,
     LoadedIsCurrent, PassOrder, RetryBudget, Counted, OneUploadPerFile, Pending, table, task, history
<1>13. ASSUME RetryFailed PROVE IInv'
  <2>1. PICK S \in SUBSET Ids : Retry(S)
    BY <1>13 DEF RetryFailed
  <2> QED BY <2>1, RetryInv
<1> QED BY <1>1, <1>2, <1>3, <1>4, <1>5, <1>6, <1>7, <1>8, <1>9, <1>10,
           <1>11, <1>12, <1>13, StartUploadsInv, FinishInv, EndWalkInv
        DEF Next, Requests, FlushTask

-----------------------------------------------------------------------------
(* Whatever requests, retries and crashes do in between, an entry the flush
   task has loaded is still pending with the retry count it was loaded with. *)
THEOREM LoadedEntriesAreCurrent == Spec => []LoadedIsCurrent
<1>1. IInv => LoadedIsCurrent BY DEF IInv
<1> QED BY <1>1, InitInv, StepInv, PTL DEF Spec

(* journal_flush_loop starts the entries of a pass in queue order, uploads in
   groups and every other entry alone. *)
THEOREM EntriesStartInOrder == Spec => []PassOrder
<1>1. IInv => PassOrder BY DEF IInv
<1> QED BY <1>1, InitInv, StepInv, PTL DEF Spec

(* has_pending_journal keeps a second upload of a file out of the queue, up to
   the entries `pdcli sync retry` revives. *)
THEOREM UploadsAreNotDoubled == Spec => []OneUploadPerFile
<1>1. IInv => OneUploadPerFile BY DEF IInv
<1> QED BY <1>1, InitInv, StepInv, PTL DEF Spec

(* The tables, the pass and the history keep their types, and apply_journal_result
   ends the attempts of an entry after RetryLimit + 1 results, because the count
   it decides on is the one in the table. *)
THEOREM RetriesAreBounded == Spec => []AttemptsAreSound
<1>1. IInv => AttemptsAreSound BY DEF IInv, AttemptsAreSound
<1> QED BY <1>1, InitInv, StepInv, PTL DEF Spec

(* An applied entry is never tried again and never made pending. *)
THEOREM AppliedOnce == Spec => AppliedStaysApplied
<1> DEFINE A == \A e \in Ids : status[e] \in {"done", "deleted"}
                  => status'[e] \in {"done", "deleted"} /\ e \notin running'
<1>1. ASSUME IInv, IInv', [Next]_vars PROVE [A]_vars
  <2>1. SUFFICES ASSUME NEW e \in Ids, status[e] \in {"done", "deleted"}
                 PROVE  status'[e] \in {"done", "deleted"}
    BY <1>1 DEF IInv, LoadedIsCurrent, Loaded
  <2>2. e # next BY <2>1, <1>1 DEF IInv, TypeOK, Fresh, Ids
  <2>3. e \notin Loaded BY <2>1, <1>1 DEF IInv, LoadedIsCurrent
  <2>4. status \in [Ids -> Statuses] BY <1>1 DEF IInv, TypeOK
  <2>5. ASSUME NEW k, NEW i, Append(k, i) PROVE status'[e] = status[e]
    BY <2>2, <2>4, <2>5 DEF Append
  <2>6. CASE Requests
    BY <2>1, <2>5, <2>6 DEF Requests, Enqueue, Write, NoteDirty, QueueUpload,
       IgnoreUpload, table
  <2>7. CASE FlushTask
    <3>1. ASSUME NEW f \in Ids, NEW o \in Outcomes, Finish(f, o)
          PROVE  status'[e] = status[e]
      BY <2>3, <2>4, <3>1 DEF Finish, Apply, Loaded
    <3>2. ASSUME EndWalk PROVE status'[e] \in {"done", "deleted"}
      BY <2>1, <2>4, <3>2 DEF EndWalk, DeleteCompleted
    <3>3. ASSUME NEW i \in Inodes, SweepOne(i) PROVE status'[e] = status[e]
      BY <2>5, <3>3 DEF SweepOne, table
    <3> QED
      BY <2>1, <2>7, <3>1, <3>2, <3>3
      DEF FlushTask, BeginPass, Collect, StartOther, Panic, StartUploads, EndPass, table
  <2>8. CASE RetryFailed
    <3>1. PICK S \in SUBSET Ids : Retry(S) BY <2>8 DEF RetryFailed
    <3> QED BY <2>1, <2>4, <3>1 DEF Retry
  <2>9. CASE Toggle \/ Crash \/ UNCHANGED vars
    BY <2>1, <2>9 DEF Toggle, Crash, vars, table
  <2> QED BY <1>1, <2>6, <2>7, <2>8, <2>9 DEF Next
<1>2. Spec => []IInv BY InitInv, StepInv, PTL DEF Spec
<1> QED BY <1>1, <1>2, PTL DEF Spec, AppliedStaysApplied
=============================================================================
