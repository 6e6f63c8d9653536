-------------------------- MODULE FlexibleSemaphore --------------------------
(***************************************************************************)
(* FifoFlexibleSemaphore (crates/proton-drive-sdk/src/utils/semaphore.rs):  *)
(* limits how many blocks the SDK's uploads and listings process at once.   *)
(* An acquisition of many permits succeeds as soon as one is left, so the   *)
(* count may go below zero; waiters are served first come, first served.    *)
(* Uploads (node/file/upload.rs) hold one permit per expected block, and    *)
(* downloads (node/file/download.rs) one, from create to drop.              *)
(*                                                                         *)
(* The state is behind a mutex: acquire is one step, release one step for   *)
(* the return of the permits and one for each turn of its loop, during      *)
(* which it holds the mutex.                                               *)
(***************************************************************************)
EXTENDS Integers, Sequences

CONSTANTS Clients,     \* the uploads and downloads
          MaxPermits,  \* max_permits
          MaxNeed,     \* bound: the blocks of the largest file
          CanDrop      \* whether a caller may drop an acquisition that waits

ASSUME SemaphoreAssumption ==
    MaxPermits \in Nat \ {0} /\ MaxNeed \in Nat /\ CanDrop \in BOOLEAN

VARIABLES count,     \* current_count
          queue,     \* waiting_queue
          need,      \* the permits each client wants, waits for or holds
          state,     \* "idle", "waiting", "holding", or "dropped" and still queued
          mutex,     \* "free", or "release" while a release runs its loop
          out,       \* history: permits granted and not given back
          leaked     \* history: permits granted to dropped acquisitions

vars == <<count, queue, need, state, mutex, out, leaked>>

Init == /\ count = MaxPermits /\ queue = <<>>
        /\ need = [c \in Clients |-> 0]
        /\ state = [c \in Clients |-> "idle"]
        /\ mutex = "free"
        /\ out = 0 /\ leaked = 0

-----------------------------------------------------------------------------
\* acquire(n)
Acquire(c, n) ==
    /\ state[c] = "idle" /\ mutex = "free"
    /\ need' = [need EXCEPT ![c] = n]
    /\ \/ /\ count > 0
          /\ count' = count - n /\ out' = out + n
          /\ state' = [state EXCEPT ![c] = "holding"]
          /\ UNCHANGED queue
       \/ /\ count <= 0
          /\ queue' = Append(queue, c)
          /\ state' = [state EXCEPT ![c] = "waiting"]
          /\ UNCHANGED <<count, out>>
    /\ UNCHANGED <<mutex, leaked>>

Capped(n) == IF n > MaxPermits THEN MaxPermits ELSE n

\* Mutants of Release: one permit too many is given back; an acquisition that
\* waits keeps the lock of the semaphore.
MutRelease(c) ==
    /\ state[c] = "holding" /\ mutex = "free"
    /\ count' = Capped(count + need[c] + 1)
    /\ out' = out - need[c]
    /\ state' = [state EXCEPT ![c] = "idle"]
    /\ need' = [need EXCEPT ![c] = 0]
    /\ mutex' = "release"
    /\ UNCHANGED <<queue, leaked>>
MutReleaseLate(c) ==
    /\ state[c] = "holding" /\ mutex = "free" /\ queue = <<>>
    /\ count' = Capped(count + need[c])
    /\ out' = out - need[c]
    /\ state' = [state EXCEPT ![c] = "idle"]
    /\ need' = [need EXCEPT ![c] = 0]
    /\ mutex' = IF need[c] > 0 THEN "release" ELSE "free"
    /\ UNCHANGED <<queue, leaked>>

\* release(n), from the drop of the uploader or downloader, which calls it only
\* for n > 0.
Release(c) ==
    /\ state[c] = "holding" /\ mutex = "free"
    /\ count' = Capped(count + need[c])
    /\ out' = out - need[c]
    /\ state' = [state EXCEPT ![c] = "idle"]
    /\ need' = [need EXCEPT ![c] = 0]
    /\ mutex' = IF need[c] > 0 THEN "release" ELSE "free"
    /\ UNCHANGED <<queue, leaked>>

\* Mutants of Serve: a release serves one waiter; the youngest waiter is served.
MutServe ==
    /\ mutex = "release" /\ count > 0 /\ queue # <<>>
    /\ LET c == Head(queue) IN
       /\ queue' = Tail(queue)
       /\ count' = count - need[c]
       /\ mutex' = "free"
       /\ state' = [state EXCEPT ![c] = IF @ = "waiting" THEN "holding" ELSE "idle"]
       /\ out' = out + (IF state[c] = "waiting" THEN need[c] ELSE 0)
       /\ leaked' = leaked + (IF state[c] = "waiting" THEN 0 ELSE need[c])
    /\ UNCHANGED need

MutServeLast ==
    /\ mutex = "release" /\ count > 0 /\ queue # <<>>
    /\ LET c == queue[Len(queue)] IN
       /\ queue' = SubSeq(queue, 1, Len(queue) - 1)
       /\ count' = count - need[c]
       /\ state' = [state EXCEPT ![c] = IF @ = "waiting" THEN "holding" ELSE "idle"]
       /\ out' = out + (IF state[c] = "waiting" THEN need[c] ELSE 0)
       /\ leaked' = leaked + (IF state[c] = "waiting" THEN 0 ELSE need[c])
    /\ UNCHANGED <<need, mutex>>

\* The loop of release gives the oldest waiter its permits and wakes it.  A
\* waiter that was dropped is still in the queue: it is given permits too, and
\* nobody gives them back.
Serve ==
    /\ mutex = "release" /\ count > 0 /\ queue # <<>>
    /\ LET c == Head(queue) IN
       /\ queue' = Tail(queue)
       /\ count' = count - need[c]
       /\ state' = [state EXCEPT ![c] = IF @ = "waiting" THEN "holding" ELSE "idle"]
       /\ out' = out + (IF state[c] = "waiting" THEN need[c] ELSE 0)
       /\ leaked' = leaked + (IF state[c] = "waiting" THEN 0 ELSE need[c])
    /\ UNCHANGED <<need, mutex>>

Drained ==
    /\ mutex = "release" /\ (count <= 0 \/ queue = <<>>)
    /\ mutex' = "free"
    /\ UNCHANGED <<count, queue, need, state, out, leaked>>

\* The caller drops the future of acquire while it waits.
DropWait(c) ==
    /\ CanDrop /\ state[c] = "waiting"
    /\ state' = [state EXCEPT ![c] = "dropped"]
    /\ UNCHANGED <<count, queue, need, mutex, out, leaked>>

-----------------------------------------------------------------------------
Next == \/ \E c \in Clients : \/ \E n \in 0..MaxNeed : Acquire(c, n)
                              \/ Release(c)
                              \/ DropWait(c)
        \/ Serve
        \/ Drained

Spec == Init /\ [][Next]_vars

\* A transfer ends in the end and drops its permits; release runs to its end.
FairSpec == /\ Spec
            /\ WF_vars(Serve \/ Drained)
            /\ \A c \in Clients : SF_vars(Release(c))

-----------------------------------------------------------------------------
Queued(c) == \E i \in 1..Len(queue) : queue[i] = c

TypeOK ==
    /\ count \in Int /\ out \in Int /\ leaked \in Nat
    /\ queue \in Seq(Clients)
    /\ need \in [Clients -> 0..MaxNeed]
    /\ state \in [Clients -> {"idle", "waiting", "holding", "dropped"}]
    /\ mutex \in {"free", "release"}

(* Safety: no permit is made or lost, but for those given to waits that were
   dropped; so the cap of release never takes any away. *)
Conservation == count + out + leaked = MaxPermits

(* Safety: nobody waits while a permit is left, so no wake-up is missing and
   nobody overtakes the queue. *)
NoIdlePermit == count > 0 /\ mutex = "free" => queue = <<>>

(* Safety: the semaphore is overdrawn by less than the largest file. *)
OverdraftIsBounded == count + MaxNeed > 0

(* Safety: the count and the queue agree whenever the mutex is free. *)
PermitsAreSound == TypeOK /\ NoIdlePermit /\ OverdraftIsBounded

(* Action property: permits go to the oldest waiter, and to a newcomer only
   when nobody waits. *)
FirstComeFirstServed ==
    [][\A c \in Clients : state[c] # "holding" /\ state'[c] = "holding"
          => queue = <<>> \/ queue[1] = c]_vars

(* Liveness: an acquisition that is not dropped gets its permits, unless the
   permits of dropped ones have used up the semaphore. *)
WaitersAreServed ==
    \A c \in Clients :
        (state[c] = "waiting") ~> (state[c] # "waiting" \/ leaked >= MaxPermits)
=============================================================================
