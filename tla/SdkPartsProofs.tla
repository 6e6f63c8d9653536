--------------------------- MODULE SdkPartsProofs ---------------------------
(***************************************************************************)
(* Proofs about the two parts MCSdkParts puts together, for any number of   *)
(* clients and permits and any scopes, slots and lengths of channels.       *)
(*                                                                         *)
(* The semaphore: a permit is left only when nobody waits, because only     *)
(* release returns permits, and it serves the queue before it unlocks.  No  *)
(* permit is lost, because the cap of release never bites: the permits of   *)
(* the holders are disjoint intervals of those that are out (Shares).       *)
(*                                                                         *)
(* The scheduler: a scope has one open task and a shared one is in the      *)
(* foreground alone, so the last command a task has got is the latest turn  *)
(* of its scope (EInv).                                                    *)
(***************************************************************************)
EXTENDS MCSdkParts, SequenceTheorems, TLAPS

(* Whoever waits, or was dropped while waiting, is in the queue, and only they
   are: so a newcomer that finds the queue empty overtakes nobody. *)
QueueIsWaiters ==
    /\ \A i \in 1..Len(queue) : state[queue[i]] \in {"waiting", "dropped"}
    /\ \A i, j \in 1..Len(queue) : queue[i] = queue[j] => i = j

(* The inductive invariant. *)
IInv == TypeOK /\ NoIdlePermit /\ OverdraftIsBounded /\ QueueIsWaiters

(* A new semaphore has all its permits and nobody in its queue. *)
LEMMA InitInv == Init => IInv
<1> SUFFICES ASSUME Init PROVE IInv OBVIOUS
<1>1. queue \in Seq(Clients) /\ Len(queue) = 0 BY EmptySeq DEF Init
<1>2. TypeOK BY <1>1, SemaphoreAssumption DEF Init, TypeOK
<1>3. NoIdlePermit BY DEF Init, NoIdlePermit
<1>4. OverdraftIsBounded BY SemaphoreAssumption DEF Init, OverdraftIsBounded
<1>5. QueueIsWaiters BY <1>1 DEF QueueIsWaiters
<1> QED BY <1>2, <1>3, <1>4, <1>5 DEF IInv

(* Giving permits back under the cap of release never overdraws further. *)
LEMMA CappedOverdraft ==
  ASSUME NEW n \in Int, NEW k \in Nat, n + MaxNeed > 0
  PROVE  /\ Capped(n + k) \in Int /\ Capped(n + k) + MaxNeed > 0
         /\ k = 0 => Capped(n + k) <= n
BY SemaphoreAssumption DEF Capped

(* acquire, release with each turn of its loop, and dropped waits keep the
   inductive invariant. *)
LEMMA StepInv == IInv /\ [Next]_vars => IInv'
<1> SUFFICES ASSUME IInv, [Next]_vars PROVE IInv' OBVIOUS
<1> USE SemaphoreAssumption DEF IInv, TypeOK, NoIdlePermit, OverdraftIsBounded,
        QueueIsWaiters
<1>1. ASSUME NEW c \in Clients, NEW n \in 0..MaxNeed, Acquire(c, n) PROVE IInv'
  <2>1. CASE count > 0
    <3>1. /\ UNCHANGED <<queue, mutex, leaked>> /\ count' = count - n
          /\ out' = out + n /\ state' = [state EXCEPT ![c] = "holding"]
          /\ need' = [need EXCEPT ![c] = n] /\ queue = <<>>
      BY <1>1, <2>1 DEF Acquire
    <3> QED BY <3>1, <2>1
  <2>2. CASE count <= 0
    <3>1. /\ UNCHANGED <<count, out, mutex, leaked>>
          /\ queue' = Append(queue, c)
          /\ state' = [state EXCEPT ![c] = "waiting"] /\ state[c] = "idle"
          /\ need' = [need EXCEPT ![c] = n]
      BY <1>1, <2>2 DEF Acquire
    <3>2. /\ queue' \in Seq(Clients) /\ Len(queue') = Len(queue) + 1
          /\ \A i \in 1..Len(queue) : queue'[i] = queue[i] /\ queue[i] \in Clients
          /\ queue'[Len(queue) + 1] = c
      BY <3>1
    <3>3. \A i \in 1..Len(queue) : queue[i] # c
      BY <3>1, <3>2
    <3>4. QueueIsWaiters'
      BY SMTT(30), <3>1, <3>2, <3>3
    <3> QED BY SMTT(30), <3>1, <3>2, <3>4, <2>2
  <2> QED BY SMTT(30), <2>1, <2>2
<1>2. ASSUME NEW c \in Clients, Release(c) PROVE IInv'
  <2>1. /\ UNCHANGED <<queue, leaked>> /\ state[c] = "holding" /\ mutex = "free"
        /\ state' = [state EXCEPT ![c] = "idle"] /\ need' = [need EXCEPT ![c] = 0]
        /\ out' = out - need[c] /\ mutex' = IF need[c] > 0 THEN "release" ELSE "free"
        /\ count' = Capped(count + need[c])
    BY <1>2 DEF Release
  <2>2. /\ need[c] \in Nat /\ count' \in Int /\ count' + MaxNeed > 0
        /\ need[c] = 0 => count' <= count
    <3>1. need[c] \in Nat /\ count \in Int /\ count + MaxNeed > 0 OBVIOUS
    <3> QED BY <2>1, <3>1, CappedOverdraft
  <2>3. TypeOK'
    <3>1. need' \in [Clients -> 0..MaxNeed] BY <2>1
    <3>2. state' \in [Clients -> {"idle", "waiting", "holding", "dropped"}] BY <2>1
    <3>3. mutex' \in {"free", "release"} BY <2>1
    <3>4. out' \in Int BY SMTT(30), <2>1, <2>2
    <3> QED BY <2>1, <2>2, <3>1, <3>2, <3>3, <3>4
  <2>4. OverdraftIsBounded' BY <2>2
  <2>5. NoIdlePermit' BY SMTT(30), <2>1, <2>2
  <2>6. QueueIsWaiters' BY SMTT(30), <2>1
  <2> QED BY <2>3, <2>4, <2>5, <2>6
<1>3. ASSUME NEW c \in Clients, DropWait(c) PROVE IInv'
  BY <1>3 DEF DropWait
<1>4. ASSUME Serve PROVE IInv'
  <2> DEFINE c == Head(queue)
  <2>1. /\ mutex = "release" /\ count > 0 /\ queue # <<>> /\ UNCHANGED <<need, mutex>>
        /\ queue' = Tail(queue) /\ count' = count - need[c]
        /\ state' = [state EXCEPT ![c] = IF @ = "waiting" THEN "holding" ELSE "idle"]
        /\ out' = out + (IF state[c] = "waiting" THEN need[c] ELSE 0)
        /\ leaked' = leaked + (IF state[c] = "waiting" THEN 0 ELSE need[c])
    BY <1>4 DEF Serve
  <2>2. c \in Clients /\ c = queue[1] BY <2>1
  <2>3. need[c] \in 0..MaxNeed BY <2>2
  <2> HIDE DEF c
  <2>4. /\ queue' \in Seq(Clients) /\ Len(queue') = Len(queue) - 1
        /\ \A i \in 1..Len(queue') : queue'[i] = queue[i + 1]
    BY <2>1
  <2>5. \A i \in 1..Len(queue') : queue'[i] # c /\ queue'[i] \in Clients
    <3>1. Len(queue) \in Nat /\ 1 \in 1..Len(queue) BY SMTT(30), <2>1
    <3>2. SUFFICES ASSUME NEW i \in 1..Len(queue')
                   PROVE  queue'[i] # c /\ queue'[i] \in Clients
      OBVIOUS
    <3>3. i + 1 \in 1..Len(queue) /\ i + 1 # 1 BY <2>4, <3>1
    <3> QED BY SMTT(30), <2>2, <2>4, <3>1, <3>3
  <2>6. QueueIsWaiters' BY SMTT(30), <2>1, <2>2, <2>4, <2>5
  <2>7. TypeOK'
    <3> DEFINE held == IF state[c] = "waiting" THEN need[c] ELSE 0
               gone == IF state[c] = "waiting" THEN 0 ELSE need[c]
    <3>0. held \in Nat /\ gone \in Nat BY <2>3
    <3>1. out' \in Int /\ leaked' \in Nat /\ count' \in Int
      <4>1. out' = out + held /\ leaked' = leaked + gone BY <2>1
      <4>2. count \in Int /\ out \in Int /\ leaked \in Nat OBVIOUS
      <4> HIDE DEF held, gone
      <4>3. need[c] \in Int /\ count' = count - need[c] BY <2>1, <2>3
      <4> QED BY <3>0, <4>1, <4>2, <4>3
    <3>2. state' \in [Clients -> {"idle", "waiting", "holding", "dropped"}]
      BY <2>1, <2>2
    <3> QED BY <2>1, <2>4, <3>1, <3>2
  <2>8. count - need[c] + MaxNeed > 0
    BY SMTT(30), <2>1, <2>3
  <2>9. NoIdlePermit' /\ OverdraftIsBounded' BY <2>1, <2>8
  <2> QED BY <2>6, <2>7, <2>9
<1>5. ASSUME Drained PROVE IInv'
  BY <1>5 DEF Drained
<1>6. ASSUME UNCHANGED vars PROVE IInv'
  BY <1>6 DEF vars
<1> QED BY <1>1, <1>2, <1>3, <1>4, <1>5, <1>6 DEF Next

-----------------------------------------------------------------------------
(* Nobody waits for a permit while one is left: release wakes as many as it can.
   A large file overdraws the semaphore by less than its own blocks. *)
THEOREM NoWakeupIsMissing == Spec => []PermitsAreSound
<1>1. IInv => PermitsAreSound
  BY DEF IInv, PermitsAreSound
<1> QED BY <1>1, InitInv, StepInv, PTL DEF Spec

(* acquire lets nobody overtake the queue, and release serves its head. *)
THEOREM ServedInOrder == Spec => FirstComeFirstServed
<1> DEFINE A == \A c \in Clients : state[c] # "holding" /\ state'[c] = "holding"
                  => queue = <<>> \/ queue[1] = c
<1>1. ASSUME IInv, [Next]_vars PROVE [A]_vars
  <2>1. SUFFICES ASSUME NEW c \in Clients, state[c] # "holding",
                        state'[c] = "holding", queue # <<>>
                 PROVE  queue[1] = c
    OBVIOUS
  <2>2. state \in [Clients -> {"idle", "waiting", "holding", "dropped"}]
    BY <1>1 DEF IInv, TypeOK
  <2>3. ASSUME NEW d \in Clients, NEW n \in 0..MaxNeed, Acquire(d, n)
        PROVE  FALSE
    BY <1>1, <2>1, <2>2, <2>3 DEF Acquire, IInv, TypeOK, NoIdlePermit
  <2>4. ASSUME NEW d \in Clients, Release(d) \/ DropWait(d) PROVE FALSE
    BY <2>1, <2>2, <2>4 DEF Release, DropWait
  <2>5. CASE Serve
    <3>1. Head(queue) = queue[1] OBVIOUS
    <3> QED BY <2>1, <2>2, <2>5, <3>1 DEF Serve
  <2>6. CASE Drained \/ UNCHANGED vars
    BY <2>1, <2>6 DEF Drained, vars
  <2> QED BY <1>1, <2>3, <2>4, <2>5, <2>6 DEF Next
<1>2. Spec => []IInv BY InitInv, StepInv, PTL DEF Spec
<1> QED BY <1>1, <1>2, PTL DEF Spec, FirstComeFirstServed
-----------------------------------------------------------------------------
(* The permits that are out, numbered from 0: each holder has an interval of its
   own, of as many as it needs, so a holder never gives back more than is out. *)
Shares(f) ==
    /\ f \in [Clients -> Nat]
    /\ \A c \in Clients : state[c] = "holding" => f[c] + need[c] <= out
    /\ \A c, d \in Clients :
          c # d /\ state[c] = "holding" /\ state[d] = "holding" =>
              f[c] + need[c] <= f[d] \/ f[d] + need[d] <= f[c]

CountInv == IInv /\ Conservation /\ out \in Nat /\ \E f : Shares(f)

(* Nobody holds permits of a new semaphore. *)
LEMMA InitCount == Init => CountInv
<1> SUFFICES ASSUME Init PROVE CountInv
    OBVIOUS
<1>1. Conservation /\ out \in Nat
  BY SemaphoreAssumption DEF Init, Conservation
<1>2. Shares([c \in Clients |-> 0])
  BY DEF Init, Shares
<1> QED BY <1>1, <1>2, InitInv DEF CountInv

(* The interval of a holder that leaves is closed: those above it move down. *)
LEMMA ReleaseCount ==
    ASSUME CountInv, IInv', NEW c \in Clients, Release(c)
    PROVE  CountInv'
<1>1. /\ need \in [Clients -> 0..MaxNeed] /\ MaxNeed \in Nat /\ MaxPermits \in Nat
      /\ count \in Int /\ leaked \in Nat /\ out \in Nat
      /\ count + out + leaked = MaxPermits
  BY SemaphoreAssumption DEF CountInv, IInv, TypeOK, Conservation
<1>2. /\ state[c] = "holding" /\ count' = Capped(count + need[c]) /\ leaked' = leaked
      /\ out' = out - need[c]
      /\ \A d \in Clients : need'[d] = IF d = c THEN 0 ELSE need[d]
      /\ \A d \in Clients : state'[d] = IF d = c THEN "idle" ELSE state[d]
  BY DEF Release, CountInv, IInv, TypeOK
<1>3. PICK f : Shares(f)
  BY DEF CountInv
<1> DEFINE k == need[c]
<1>4. k \in Nat /\ f[c] \in Nat /\ f[c] + k <= out
  BY <1>1, <1>2, <1>3 DEF Shares
<1>5. \A d \in Clients : f[d] \in Nat /\ need[d] \in Nat
  BY <1>1, <1>3 DEF Shares
<1>6. \A d \in Clients \ {c} : state[d] = "holding" =>
         f[d] + need[d] <= out /\ (f[d] >= f[c] + k \/ f[d] + need[d] <= f[c])
  BY <1>2, <1>3 DEF Shares
<1>7. PICK g \in [Clients -> Nat] :
          \A d \in Clients : g[d] = IF f[d] >= f[c] + k THEN f[d] - k ELSE f[d]
  <2> DEFINE h == [d \in Clients |-> IF f[d] >= f[c] + k THEN f[d] - k ELSE f[d]]
  <2>1. h \in [Clients -> Nat]
    BY <1>4, <1>5
  <2> QED BY <2>1
<1>8. \A d \in Clients : state'[d] = "holding" => g[d] + need'[d] <= out'
  BY <1>1, <1>2, <1>4, <1>5, <1>6, <1>7
<1>9. ASSUME NEW d \in Clients, NEW e \in Clients, d # e,
             state'[d] = "holding", state'[e] = "holding"
      PROVE  g[d] + need'[d] <= g[e] \/ g[e] + need'[e] <= g[d]
  <2>1. /\ d # c /\ e # c /\ state[d] = "holding" /\ state[e] = "holding"
        /\ need'[d] = need[d] /\ need'[e] = need[e]
    BY <1>2, <1>9
  <2>2. f[d] + need[d] <= f[e] \/ f[e] + need[e] <= f[d]
    BY <1>3, <1>9, <2>1 DEF Shares
  <2> QED BY <1>4, <1>5, <1>6, <1>7, <2>1, <2>2
<1>10. Shares(g)'
  BY <1>7, <1>8, <1>9 DEF Shares
<1>11. out' \in Nat /\ Conservation'
  BY <1>1, <1>2, <1>4 DEF Conservation, Capped
<1> QED BY <1>10, <1>11 DEF CountInv

(* Whoever is served gets the permits above all that are out. *)
LEMMA GrantCount ==
    ASSUME CountInv, IInv', NEW c \in Clients, NEW n \in 0..MaxNeed,
           state[c] # "holding", out' = out + n, count' = count - n, leaked' = leaked,
           need' = [need EXCEPT ![c] = n], state' = [state EXCEPT ![c] = "holding"]
    PROVE  CountInv'
<1>1. /\ need \in [Clients -> 0..MaxNeed] /\ MaxNeed \in Nat /\ n \in Nat
      /\ count \in Int /\ leaked \in Nat /\ out \in Nat
      /\ count + out + leaked = MaxPermits
  BY SemaphoreAssumption DEF CountInv, IInv, TypeOK, Conservation
<1>2. /\ \A d \in Clients : need'[d] = IF d = c THEN n ELSE need[d]
      /\ \A d \in Clients : state'[d] = IF d = c THEN "holding" ELSE state[d]
  BY DEF CountInv, IInv, TypeOK
<1>3. PICK f : Shares(f)
  BY DEF CountInv
<1>4. /\ \A d \in Clients : f[d] \in Nat /\ need[d] \in Nat
      /\ \E g \in [Clients -> Nat] : \A d \in Clients : g[d] = IF d = c THEN out ELSE f[d]
  <2>1. /\ [f EXCEPT ![c] = out] \in [Clients -> Nat]
        /\ \A d \in Clients : [f EXCEPT ![c] = out][d] = IF d = c THEN out ELSE f[d]
    BY <1>1, <1>3 DEF Shares
  <2>2. \A d \in Clients : f[d] \in Nat /\ need[d] \in Nat
    BY <1>1, <1>3 DEF Shares
  <2> QED BY <2>1, <2>2
<1>5. \E g : Shares(g)'
  <2> PICK g \in [Clients -> Nat] : \A d \in Clients : g[d] = IF d = c THEN out ELSE f[d]
    BY <1>4
  <2>1. \A d \in Clients : state'[d] = "holding" => g[d] + need'[d] <= out'
    BY <1>1, <1>2, <1>3, <1>4 DEF Shares
  <2>2. ASSUME NEW d \in Clients, NEW e \in Clients, d # e,
               state'[d] = "holding", state'[e] = "holding"
        PROVE  g[d] + need'[d] <= g[e] \/ g[e] + need'[e] <= g[d]
    BY <1>2, <1>3, <1>4, <2>2 DEF Shares
  <2> QED BY <1>4, <2>1, <2>2 DEF Shares
<1>6. out' \in Nat /\ Conservation'
  BY <1>1 DEF Conservation
<1> QED BY <1>5, <1>6 DEF CountInv

LEMMA StepCount == CountInv /\ [Next]_vars => CountInv'
<1> SUFFICES ASSUME CountInv, [Next]_vars PROVE CountInv'
    OBVIOUS
<1>1. IInv'
  BY StepInv DEF CountInv
<1>2. /\ state \in [Clients -> {"idle", "waiting", "holding", "dropped"}]
      /\ need \in [Clients -> 0..MaxNeed] /\ queue \in Seq(Clients)
      /\ MaxNeed \in Nat /\ count \in Int /\ out \in Nat /\ leaked \in Nat
  BY SemaphoreAssumption DEF CountInv, IInv, TypeOK
<1>3. PICK f : Shares(f)
  BY DEF CountInv
<1>4. ASSUME NEW c \in Clients, NEW n \in 0..MaxNeed, Acquire(c, n) PROVE CountInv'
  <2>1. CASE count > 0
    <3>1. /\ state[c] # "holding" /\ out' = out + n /\ count' = count - n
          /\ leaked' = leaked /\ need' = [need EXCEPT ![c] = n]
          /\ state' = [state EXCEPT ![c] = "holding"]
      BY <1>2, <1>4, <2>1 DEF Acquire
    <3> QED BY <1>1, <3>1, GrantCount
  <2>2. CASE ~(count > 0)
    <3>1. /\ UNCHANGED <<count, out, leaked>> /\ state[c] = "idle"
          /\ \A d \in Clients : need'[d] = IF d = c THEN n ELSE need[d]
          /\ \A d \in Clients : state'[d] = IF d = c THEN "waiting" ELSE state[d]
      BY <1>2, <1>4, <2>2 DEF Acquire
    <3>2. Shares(f)'
      BY <1>3, <3>1 DEF Shares
    <3> QED BY <1>1, <3>1, <3>2 DEF CountInv, Conservation
  <2> QED BY <2>1, <2>2
<1>5. ASSUME NEW c \in Clients, Release(c) PROVE CountInv'
  BY <1>1, <1>5, ReleaseCount
<1>6. ASSUME NEW c \in Clients, DropWait(c) PROVE CountInv'
  <2>1. /\ UNCHANGED <<count, out, leaked, need>>
        /\ \A d \in Clients : state'[d] = IF d = c THEN "dropped" ELSE state[d]
    BY <1>2, <1>6 DEF DropWait
  <2>2. Shares(f)'
    BY <1>3, <2>1 DEF Shares
  <2> QED BY <1>1, <2>1, <2>2 DEF CountInv, Conservation
<1>7. ASSUME Serve PROVE CountInv'
  <2>1. PICK c \in Clients : c = Head(queue)
    BY <1>2, <1>7 DEF Serve
  <2>2. /\ count' = count - need[c] /\ need' = need
        /\ state' = [state EXCEPT ![c] = IF @ = "waiting" THEN "holding" ELSE "idle"]
        /\ out' = out + (IF state[c] = "waiting" THEN need[c] ELSE 0)
        /\ leaked' = leaked + (IF state[c] = "waiting" THEN 0 ELSE need[c])
    BY <1>7, <2>1 DEF Serve
  <2>3. CASE state[c] = "waiting"
    <3>1. /\ state[c] # "holding" /\ need[c] \in 0..MaxNeed /\ leaked' = leaked
          /\ out' = out + need[c] /\ need' = [need EXCEPT ![c] = need[c]]
          /\ state' = [state EXCEPT ![c] = "holding"]
      BY <1>2, <2>2, <2>3
    <3>2. PICK n \in 0..MaxNeed : n = need[c]
      BY <3>1
    <3> QED BY <1>1, <2>2, <3>1, <3>2, GrantCount
  <2>4. CASE state[c] # "waiting"
    <3>1. /\ out' = out /\ leaked' = leaked + need[c] /\ need[c] \in Nat
          /\ \A d \in Clients : state'[d] = IF d = c THEN "idle" ELSE state[d]
      BY <1>2, <2>2, <2>4
    <3>2. Shares(f)'
      BY <1>3, <2>2, <3>1 DEF Shares
    <3>3. Conservation'
      BY SMTT(30), <1>2, <2>2, <3>1 DEF CountInv, Conservation
    <3> QED BY <1>1, <1>2, <3>1, <3>2, <3>3 DEF CountInv
  <2> QED BY <2>3, <2>4
<1>8. CASE Drained \/ UNCHANGED vars
  <2>1. UNCHANGED <<count, out, leaked, need, state>>
    BY <1>8 DEF Drained, vars
  <2>2. Shares(f)'
    BY <1>3, <2>1 DEF Shares
  <2> QED BY <1>1, <2>1, <2>2 DEF CountInv, Conservation
<1> QED BY <1>4, <1>5, <1>6, <1>7, <1>8 DEF Next

(* No permit is made or lost but those of dropped waits (semaphore.rs, acquire and
   release): the cap of release never takes one away. *)
THEOREM PermitsAreConserved == Spec => []Conservation
<1>1. CountInv => Conservation
  BY DEF CountInv
<1> QED BY <1>1, InitCount, StepCount, PTL DEF Spec

-----------------------------------------------------------------------------
(* A scope has one open task, and one shared scope is in the foreground. *)
OneOpen ==
    \A t, u \in E!Tasks : open[t] /\ open[u] /\ E!ScopeOf(t) = E!ScopeOf(u) => t = u
OneShared == \A t, u \in {o \in E!Opened : E!Shared(o) /\ fg[o]} : t = u
OwnInFront == \A t \in E!Tasks : open[t] /\ ~E!Shared(t) => fg[t]

EInv == E!TypeOK /\ OneOpen /\ OneShared /\ OwnInFront /\ E!LastCommandIsCurrent

(* The open task of a scope that has one. *)
LEMMA TaskOfScope ==
    ASSUME EInv, NEW s \in Scopes, E!Has(s)
    PROVE  /\ E!TaskOf(s) \in E!Tasks /\ E!ScopeOf(E!TaskOf(s)) = s /\ open[E!TaskOf(s)]
<1>1. \E t \in E!TasksOf(s) : open[t]
  BY DEF E!Has
<1>2. E!TaskOf(s) \in E!TasksOf(s) /\ open[E!TaskOf(s)]
  BY <1>1 DEF E!TaskOf
<1> QED BY <1>2 DEF E!TasksOf, E!Tasks, E!ScopeOf

Word == {"PollNow", "Reschedule"}

LEMMA LastOfAppend ==
    ASSUME NEW q \in Seq(Word), NEW x \in Word
    PROVE  /\ Append(q, x) \in Seq(Word) /\ Append(q, x) # <<>>
           /\ E!Last(Append(q, x)) = x
<1>1. Len(Append(q, x)) = Len(q) + 1 /\ Append(q, x)[Len(q) + 1] = x
  BY AppendProperties
<1> QED BY <1>1, AppendProperties DEF E!Last

LEMMA LastOfTail ==
    ASSUME NEW q \in Seq(Word), q # <<>>
    PROVE  /\ Tail(q) \in Seq(Word) /\ Head(q) \in Word
           /\ Tail(q) # <<>> => E!Last(Tail(q)) = E!Last(q)
<1>1. /\ Len(q) \in Nat \ {0} /\ Tail(q) \in Seq(Word) /\ Len(Tail(q)) = Len(q) - 1
      /\ \A i \in 1 .. Len(q) - 1 : Tail(q)[i] = q[i + 1]
  BY HeadTailProperties
<1>2. ASSUME Tail(q) # <<>> PROVE E!Last(Tail(q)) = E!Last(q)
  <2>1. Len(Tail(q)) # 0
    BY <1>1, <1>2, EmptySeq
  <2>2. Len(q) - 1 \in 1 .. Len(q) - 1
    BY <1>1, <2>1
  <2> QED BY <1>1, <2>2 DEF E!Last
<1> QED BY <1>1, <1>2, HeadTailProperties

LEMMA InitScopes == E!Init => EInv
BY EmptySeq DEF E!Init, EInv, E!TypeOK, OneOpen, OneShared, OwnInFront,
                E!LastCommandIsCurrent, E!Opened

(* The calls of the API: each is for the one open task of the scope. *)
LEMMA ApiKeepsScopes ==
    ASSUME EInv, NEW s \in Scopes, E!Api(s)
    PROVE  EInv'
<1>0. /\ at \in [E!Tasks -> {"none", "due", "callback", "timer"}]
      /\ open \in [E!Tasks -> BOOLEAN] /\ fg \in [E!Tasks -> BOOLEAN]
      /\ commands \in [E!Tasks -> Seq(Word)] /\ round \in [E!Tasks -> 0..1]
      /\ OneOpen /\ OneShared /\ OwnInFront
      /\ \A t \in E!Tasks : open[t] /\ commands[t] # <<>> =>
            (E!Last(commands[t]) = "PollNow") = fg[t]
  BY DEF EInv, E!TypeOK, E!LastCommandIsCurrent, E!Opened, Word
<1>1. CASE E!AddScope(s)
  <2>1. PICK t \in E!TasksOf(s) :
           /\ at' = [at EXCEPT ![t] = "due"]
           /\ open' = [open EXCEPT ![t] = TRUE]
           /\ fg' = [fg EXCEPT ![t] = (s = Own)]
           /\ commands' = [commands EXCEPT ![t] = <<>>]
           /\ round' = [round EXCEPT ![t] = 0]
    BY <1>1 DEF E!AddScope
  <2>2. t \in E!Tasks /\ E!ScopeOf(t) = s
    BY DEF E!TasksOf, E!Tasks, E!ScopeOf
  <2>3. \A u \in E!Tasks : E!ScopeOf(u) = s => ~open[u]
    BY <1>1 DEF E!AddScope, E!Has, E!TasksOf, E!Tasks, E!ScopeOf
  <2>4. \A u \in E!Tasks : /\ open'[u] = (IF u = t THEN TRUE ELSE open[u])
                           /\ fg'[u] = (IF u = t THEN s = Own ELSE fg[u])
                           /\ commands'[u] = IF u = t THEN <<>> ELSE commands[u]
    BY <1>0, <2>1, <2>2
  <2>5. E!TypeOK'
    BY <1>0, <2>1, <2>2, EmptySeq DEF E!TypeOK, Word
  <2>6. OneOpen'
    BY ZenonT(60), <1>0, <2>2, <2>3, <2>4 DEF OneOpen
  <2>7. OneShared'
    BY ZenonT(60), <1>0, <2>2, <2>4 DEF OneShared, E!Opened, E!Shared
  <2>8. OwnInFront'
    BY <1>0, <2>2, <2>4 DEF OwnInFront, E!Shared
  <2>9. E!LastCommandIsCurrent'
    BY <1>0, <2>4 DEF E!LastCommandIsCurrent, E!Opened
  <2> QED BY <2>5, <2>6, <2>7, <2>8, <2>9 DEF EInv
<1>2. CASE E!SetForeground(s)
  <2> DEFINE t == E!TaskOf(s)
             others == {o \in E!Opened : E!Shared(o) /\ fg[o]}
  <2>1. /\ t \in E!Tasks /\ open[t] /\ E!Shared(t) /\ ~fg[t]
        /\ UNCHANGED <<at, open, round>>
        /\ fg' = [o \in E!Tasks |-> IF o = t THEN TRUE
                                    ELSE IF o \in others THEN FALSE ELSE fg[o]]
        /\ commands' = [o \in E!Tasks |->
                IF o = t THEN Append(commands[o], "PollNow")
                ELSE IF o \in others THEN Append(commands[o], "Reschedule")
                ELSE commands[o]]
    BY <1>2, TaskOfScope DEF E!SetForeground
  <2>2. \A o \in E!Tasks : o \in others <=> open[o] /\ E!Shared(o) /\ fg[o]
    BY DEF E!Opened
  <2> HIDE DEF t, others
  <2>3. \A o \in E!Tasks : /\ commands[o] \in Seq(Word)
                           /\ Append(commands[o], "PollNow") \in Seq(Word)
                           /\ Append(commands[o], "Reschedule") \in Seq(Word)
                           /\ E!Last(Append(commands[o], "PollNow")) = "PollNow"
                           /\ E!Last(Append(commands[o], "Reschedule")) = "Reschedule"
    BY <1>0, LastOfAppend DEF Word
  <2>4. E!TypeOK'
    <3>1. commands' \in [E!Tasks -> Seq(Word)]
      BY <2>1, <2>3
    <3>2. fg' \in [E!Tasks -> BOOLEAN]
      BY <1>0, <2>1
    <3> QED BY <1>0, <2>1, <3>1, <3>2 DEF E!TypeOK, Word
  <2>5. OneOpen' /\ OneShared' /\ OwnInFront'
    BY <1>0, <2>1, <2>2 DEF OneOpen, OneShared, OwnInFront, E!Opened
  <2>6. E!LastCommandIsCurrent'
    <3> SUFFICES ASSUME NEW o \in E!Tasks, open'[o], commands'[o] # <<>>
                 PROVE  (E!Last(commands'[o]) = "PollNow") = fg'[o]
        BY DEF E!LastCommandIsCurrent, E!Opened
    <3>1. CASE o = t
      BY <2>1, <2>3, <3>1
    <3>2. CASE o # t /\ o \in others
      BY <2>1, <2>3, <3>2
    <3>3. CASE o # t /\ o \notin others
      BY <1>0, <2>1, <3>3
    <3> QED BY <3>1, <3>2, <3>3
  <2> QED BY <2>4, <2>5, <2>6 DEF EInv
<1>3. CASE E!SetBackground(s)
  <2> DEFINE t == E!TaskOf(s)
  <2>1. /\ t \in E!Tasks /\ open[t] /\ E!Shared(t) /\ fg[t]
        /\ UNCHANGED <<at, open, round>>
        /\ fg' = [fg EXCEPT ![t] = FALSE]
        /\ commands' = [commands EXCEPT ![t] = Append(@, "Reschedule")]
    BY <1>3, TaskOfScope DEF E!SetBackground
  <2> HIDE DEF t
  <2>2. /\ Append(commands[t], "Reschedule") \in Seq(Word)
        /\ E!Last(Append(commands[t], "Reschedule")) = "Reschedule"
    BY <1>0, <2>1, LastOfAppend DEF Word
  <2>3. \A o \in E!Tasks :
           /\ fg'[o] = (IF o = t THEN FALSE ELSE fg[o])
           /\ commands'[o] = IF o = t THEN Append(commands[o], "Reschedule") ELSE commands[o]
    BY <1>0, <2>1
  <2>4. E!TypeOK'
    BY <1>0, <2>1, <2>2 DEF E!TypeOK, Word
  <2>5. OneOpen' /\ OneShared' /\ OwnInFront'
    BY <1>0, <2>1, <2>3 DEF OneOpen, OneShared, OwnInFront, E!Opened
  <2>6. E!LastCommandIsCurrent'
    BY <1>0, <2>1, <2>2, <2>3 DEF E!LastCommandIsCurrent, E!Opened
  <2> QED BY <2>4, <2>5, <2>6 DEF EInv
<1>4. CASE E!RemoveScope(s)
  <2>1. /\ UNCHANGED <<at, fg, commands, round>>
        /\ open' \in [E!Tasks -> BOOLEAN]
        /\ \A o \in E!Tasks : open'[o] => open[o]
    BY <1>0, <1>4, TaskOfScope DEF E!RemoveScope
  <2> QED BY <1>0, <2>1 DEF EInv, E!TypeOK, OneOpen, OneShared, OwnInFront,
                            E!LastCommandIsCurrent, E!Opened, Word
<1> QED BY <1>1, <1>2, <1>3, <1>4 DEF E!Api

(* A task: it takes the oldest command, and leaves the map alone. *)
LEMMA TaskKeepsScopes ==
    ASSUME EInv, NEW t \in E!Tasks,
           \/ E!Poll(t) \/ E!CallbackEnds(t) \/ E!Select(t)
           \/ \E r \in 0..1 : E!TimerFires(t, r)
    PROVE  EInv'
<1>0. /\ at \in [E!Tasks -> {"none", "due", "callback", "timer"}]
      /\ open \in [E!Tasks -> BOOLEAN] /\ fg \in [E!Tasks -> BOOLEAN]
      /\ commands \in [E!Tasks -> Seq(Word)] /\ round \in [E!Tasks -> 0..1]
      /\ OneOpen /\ OneShared /\ OwnInFront
      /\ \A u \in E!Tasks : open[u] /\ commands[u] # <<>> =>
            (E!Last(commands[u]) = "PollNow") = fg[u]
  BY DEF EInv, E!TypeOK, E!LastCommandIsCurrent, E!Opened, Word
<1>1. open' = open
  BY DEF E!Poll, E!CallbackEnds, E!Select, E!Receive, E!Hangup, E!TimerFires
<1>2. /\ at' \in [E!Tasks -> {"none", "due", "callback", "timer"}]
      /\ round' \in [E!Tasks -> 0..1]
  <2>1. 1 - round[t] \in 0..1
    BY SMTT(30), <1>0
  <2>2. CASE E!Poll(t) \/ E!CallbackEnds(t)
    BY <1>0, <2>2 DEF E!Poll, E!CallbackEnds
  <2>3. CASE E!Receive(t)
    <3>1. /\ at' = at \/ at' = [at EXCEPT ![t] = "due"]
          /\ \/ round' = [round EXCEPT ![t] = 0]
             \/ round' = [round EXCEPT ![t] = 1 - round[t]]
      BY <2>3 DEF E!Receive
    <3>2. at' \in [E!Tasks -> {"none", "due", "callback", "timer"}]
      BY <1>0, <3>1
    <3>3. round' \in [E!Tasks -> 0..1]
      <4>1. round \in [E!Tasks -> 0..1]
        BY <1>0
      <4>2. ASSUME NEW n \in 0..1 PROVE [round EXCEPT ![t] = n] \in [E!Tasks -> 0..1]
        BY <4>1
      <4>3. PICK n \in 0..1 : n = 1 - round[t]
        BY <2>1
      <4> QED BY <3>1, <4>2, <4>3
    <3> QED BY <3>2, <3>3
  <2>4. CASE E!Hangup(t)
    BY <1>0, <2>4 DEF E!Hangup
  <2>5. CASE \E r \in 0..1 : E!TimerFires(t, r)
    BY <1>0, <2>5 DEF E!TimerFires
  <2> QED BY <2>2, <2>3, <2>4, <2>5 DEF E!Select
<1>3. /\ fg' \in [E!Tasks -> BOOLEAN]
      /\ \A u \in E!Tasks : open[u] => fg'[u] = fg[u]
  BY <1>0 DEF E!Poll, E!CallbackEnds, E!Select, E!Receive, E!Hangup, E!TimerFires
<1>4. /\ commands' \in [E!Tasks -> Seq(Word)]
      /\ \A u \in E!Tasks : commands'[u] # <<>> =>
            commands[u] # <<>> /\ E!Last(commands'[u]) = E!Last(commands[u])
  <2>1. CASE E!Receive(t)
    <3>1. commands[t] # <<>> /\ commands' = [commands EXCEPT ![t] = Tail(@)]
      BY <2>1 DEF E!Receive
    <3>2. /\ Tail(commands[t]) \in Seq(Word)
          /\ Tail(commands[t]) # <<>> => E!Last(Tail(commands[t])) = E!Last(commands[t])
      BY <1>0, <3>1, LastOfTail
    <3> QED BY <1>0, <3>1, <3>2
  <2>2. CASE ~E!Receive(t)
    BY <1>0, <2>2 DEF E!Poll, E!CallbackEnds, E!Select, E!Hangup, E!TimerFires
  <2> QED BY <2>1, <2>2
<1>5. OneOpen' /\ OneShared' /\ OwnInFront'
  BY <1>0, <1>1, <1>3 DEF OneOpen, OneShared, OwnInFront, E!Opened
<1>6. E!LastCommandIsCurrent'
  BY <1>0, <1>1, <1>3, <1>4 DEF E!LastCommandIsCurrent, E!Opened
<1> QED BY <1>0, <1>1, <1>2, <1>3, <1>4, <1>5, <1>6 DEF EInv, E!TypeOK, Word

LEMMA StepScopes == EInv /\ [E!Next]_eventVars => EInv'
<1> SUFFICES ASSUME EInv, [E!Next]_eventVars PROVE EInv'
    OBVIOUS
<1>1. CASE UNCHANGED eventVars
  BY <1>1 DEF eventVars, EInv, E!TypeOK, OneOpen, OneShared, OwnInFront,
              E!LastCommandIsCurrent, E!Opened
<1> QED BY <1>1, ApiKeepsScopes, TaskKeepsScopes DEF E!Next

(* The map of scopes and the channels of their tasks agree, whatever calls come
   while tasks of removed scopes still run (event_scheduler.rs). *)
THEOREM ScopesStaySound == E!Spec => []E!ScopesAreSound
<1>1. EInv => E!ScopesAreSound
  BY DEF EInv, OneShared, OwnInFront, E!Opened, E!OneForegroundScope, E!ScopesAreSound
<1>2. EInv /\ [E!Next]_E!vars => EInv'
  BY StepScopes DEF eventVars, E!vars
<1> QED BY InitScopes, <1>1, <1>2, PTL DEF E!Spec

-----------------------------------------------------------------------------
(* Both parts, as they run together: no permit is lost but those of dropped waits
   (semaphore.rs), and the map of scopes and the channels agree (event_scheduler.rs). *)
THEOREM NothingGetsLost == PartSpec => []NothingIsLost
<1>1. PartInit => CountInv /\ EInv
  BY InitCount, InitScopes DEF PartInit
<1>2. CountInv /\ EInv /\ [PartNext]_partVars => (CountInv /\ EInv)'
  <2>1. [PartNext]_partVars => [Next]_vars /\ [E!Next]_eventVars
    BY DEF PartNext, partVars
  <2> QED BY <2>1, StepCount, StepScopes
<1>3. CountInv /\ EInv => NothingIsLost
  BY DEF CountInv, EInv, OneShared, OwnInFront, E!Opened, E!OneForegroundScope,
         E!ScopesAreSound, NothingIsLost
<1> QED BY <1>1, <1>2, <1>3, PTL DEF PartSpec
=============================================================================
